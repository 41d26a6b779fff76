# A verification of the diocese ERP

TLA+ models of the parts of this repository in which requests, timers, phones and
failures meet; TLC runs that check them on small instances; proofs that hold for
every instance. `PROJECT.json` maps every definition to the lines it stands for,
and lists the hazards each property is for.

To repeat a run: `tlc -config Rooms.cfg MCRooms`; a proof: `tlapm AccommodationProofs.tla`
(minutes each; the registers' proofs take the longest).

## 1. The system

A pnpm monorepo. `apps/api` is a NestJS monolith over PostgreSQL (Prisma); `apps/web`
(Next.js) and `apps/mobile` (Expo) are its clients; `packages/*` are shared types, UI
and texts. Components call one another as injected services and share one database;
there is no queue or broker. Timers (`@Cron`) run inside the API process.

Three facts decide what can go wrong:

- No transaction sets an isolation level, so PostgreSQL runs READ COMMITTED.
- Almost every handler reads, awaits and writes with no transaction: other requests
  run between its queries. There are seven `$transaction`s in the API; those modelled
  are one step each, but for the one whose first statement picks the rows it closes
  (`completeTransferInternal`), which is two.
- What keeps racing requests apart is mostly a unique index of `schema.prisma`, so the
  models check the insert against it.

The repository has no unit tests of the API. The interleavings below are reached by
none of its scripts.

### Inventory

| Component | State | Operations | Hard behaviour | What makes it correct |
| --- | --- | --- | --- | --- |
| Registers and certificates (`diocese/sacrament.service.ts`) | SacramentRecord, RegisterEntry, Certificate, print log, members' status | create, update, delete, issue, print | numbers, lines, serials and print counts computed from counts read earlier; soft deletes under unique indexes; a call lost half way | dense pages, gap-free numbers, a record and its certificate agree, nothing is undone |
| Clergy (`diocese/clergy.service.ts`) | postings, transfer orders, leave, priest status and its events | appoint, order, complete, leave, status | close-and-create in two queries; an order completed twice, or completed on paper only; a log row decided from an old read | one current primary posting; an order and its posting agree; the last event names the status |
| Parish diary (`diocese/parish-ops.service.ts`, `mass-schedule/*`) | Masses, hall bookings, calendar events, weekly schedule, the app's copy, the website's events | create a Mass, book the hall, edit the calendar and the schedule, synchronise | check-then-book; one call writes up to four tables in turn; a copy written from entries and a season read earlier; two synchronisations, and events moved between them | no double booking; a Mass in the hall has its booking; an hour is scheduled once; the copies follow |
| Website (`cms/*`) and report schedules (`reports/*`) | posts, campaigns, schedules with their next run | edit, approve, schedule, send; the jobs of the minute | overlapping ticks and the send button; mail before the update that records it; a provider's refusal nobody reads; restart; the running flag | mailed once; SENT means tried; what is due is seen to |
| Rooms (`diocese/accommodation.service.ts`) | room status, allocation, vacate order | create and edit a room, allocate, vacate, transfer | checks before the transaction that writes | room, allocation and order agree; one tenant |
| Rent (same file) | invoice, payment, income entry | invoice, pay | a paid amount written from an old read; a status decided before rounding; income posted outside the transaction | never claims more than was received; accounts miss no receipt |
| Occupant portal (`mobile/lib/occupant-portal.ts`) | SQLite sync queue, the portal's requests | submit, flush, the API's insert | lost answers, retries, overlapping flushes, killed app | what the screen told is kept; written once |
| Messages and reminders (`app-control/*`, `mass-schedule`, `notifications`) | notification, message, reminder log, inbox | create, publish, the minute tick | tick against requests; claim-then-send against send-then-mark; restart | once, or twice for a known cause; nothing due waits for ever |
| Historical imports (`migration`) | job with rows and list of what it created | upload, map, edit, preview, run, rollback | row-by-row writes with no transaction; two runs; a lost run; rollback | rollback removes all its run wrote, and no more |
| Identity (`identity`) | users, sessions, one-time challenges, rate buckets | sign in, verify, refresh, reset | challenge and session changed in separate queries | a session or challenge is used once |
| Liturgy (`liturgy`) | days, overrides, cache | daily tick, override, read | cache filled by racing readers | what is read follows overrides |
| Translations (`i18n`) | languages, namespaces, versions, cache | import, patch, read | read-merge-write through a cache; a cache filled from rows read before it was emptied | no edit lost; the cache follows the tables |
| Families, members, parishes | their rows; what a new parish is given | edits; provisioning step by step | codes from counts; a provisioning cut half way, or run twice | codes distinct; a second run completes the first |
| Tenancy, RBAC; AI; files, audit, platform; web and mobile screens | little or none of their own | pure tests, I/O, rendering | none that interleaves | not modelled, see section 8 |

The first nine are modelled; `PROJECT.json` says of every component how far.

## 2. The modules

| Module | Models | Used by |
| --- | --- | --- |
| `PaperRegister` | what a register book promises: lines are filled in order, each with a record of its own, and never change | refined by `SacramentRegister` |
| `SacramentRegister` | `sacrament.service.ts` query by query | `MCRegister`, `SacramentRegisterProofs` |
| `ClergyPostings` | priests, postings, transfer orders, leave, status | `MCClergy`, its proofs |
| `ParishCalendar` | Masses, the hall, the calendar, the weekly schedule and the two places they are copied to, together | `MCCalendar`, its proofs |
| `Publishing` | the website's job and the reports' job of the minute, with the staff | `MCPublishing`, its proofs |
| `AccommodationCalls` | the requests of the accommodation service | `RoomAllocation`, `RentPayments` |
| `RoomAllocation` | rooms, allocations, vacate orders | `MCRooms`, `AccommodationProofs` |
| `RentPayments` | invoices, payments, income | `MCRent`, `AccommodationProofs` |
| `OccupantPortal` | the phone's queue, the network and the API's insert together | `MCPortal`, its proofs |
| `Messaging` | the scheduler, app notifications, messages and reminders together | `MCMessaging`, its proofs |
| `NoticeBoard` | what notifications promise: each request for one lets it go once to each recipient | refined by `Messaging` |
| `ImportJobs` | an import's life, with the office's own writing beside it | `MCImport`, its proofs |
| `MC*` | definitions that give the constants small values, and symmetries | the cfg files |
| `<module>Proofs` | theorems about the module and their proofs | |

**How state corresponds.** A table is a function from the name of the request that
inserts a row (a request inserts at most one row in each table) to the row or to a
null such as `NoRow`; in `Messaging`, `Publishing` and `OccupantPortal` the rows are named
by constants, and in `ParishCalendar`, where a synchronisation writes one row an hour, by the
request and the hour. A request is a process: `pc[r]` is the query it makes next, and the locals
of its handler are functions of `r` (`row`, `read`, `target`...). An *action* is one
awaited query with all that the code does up to the next one; a refusal, whether by a
test or by a unique index, goes to `failed`. A new request is any idle `r`, so the
number of requests is the bound on how much happens. Variables marked *history* are
read by no guard; they say why an exception to a property is allowed.

**Mutants.** An operator whose comment begins "Mutant:" is a plausible wrong form of
the definition below it. Put in its place, it makes the property it is named with in
`PROJECT.json` fail; no specification uses it otherwise.

### SacramentRegister

`StartCreate`, `ChooseNumber`, `InsertRecord`, `MarkDeceased`, `LinkSpouses`,
`MarkMarried`, `CountEntries`, `AppendEntry` are the queries of `create`;
`FindRecord`..`LinkCertificate` those of `issueCertificateForRecord`, reached from a
call of its own and from the tail of `create` and `update`; `StartUpdate`/`UpdateRecord`,
`StartDelete`/`DeleteRecord`, `StartPrint`..`SetPrintCount` the rest. Numbers keep their
three forms (`0007`, `2026-0007`, `CONF-...`) as far as the code tells them apart,
among them the last four digits that `marriageRegisterSequence` keeps.

Abstracted: the form's other fields; numbers typed by hand with other text; members
named by a body exist. The link to a baptism is set at creation, as edits do not touch it.

### ClergyPostings

`CreatePriest` and `Appoint` begin, `ClosePrimary` and `OpenPosting` are the two queries of
`addAssignment` (`updateMany`, `create`); `EditPosting` is `updateAssignment`. `CreateTransfer`,
`NextOrderNo`, `InsertTransfer` are `createTransfer`, `UpdateTransferStatus` the change of an
order's status; both reach `completeTransferInternal`, whose transaction is two steps,
`BeginTransfer` (its first statement settles which postings it ends) and `CompleteTransfer` (it
commits): under READ COMMITTED a posting opened in between is not closed. `UpdatePriest`,
`SetStatus`, `LogStatus` change a status; `RequestLeave`, `ReviewLeave`, `DecideLeave` and the
status that an approved leave sets are the leave. Abstracted: an institution stands with its
parish; statuses but ACTIVE and ON_LEAVE, dates, titles and remarks.

### ParishCalendar

`CreateMass`, `InsertMass`, `BookForMass`, `PutOnCalendar`, `LinkBooking` are the queries of
`createMass`; `CreateHallBooking`, `BookingEvent`, `BookHall` those of `createHallBooking`;
`WriteEvent` and `SyncCalendarToWebsite` are shared by all that put an event on the calendar.
`UpdateCalendarEvent` reads an event and `WriteEvent` gives it any hour, title and visibility.
`SyncCalendar`, `NextHour`, `SyncEvent`, `SyncMass` go through the schedule an hour at a time
and then, as `EditSchedule` does by itself, `ReadEntries` and `UpsertConfig` tell the app. The
app's copy is written for the season there is when it is read (`Now`); `TurnSeason` is the
calendar's, and no code runs when it happens. A slot is an hour together with the title of the
schedule's Mass at it, which is what the look-up of `syncCalendar` compares: `event.at` is the
slot an event stands at, and `NoSlot` once its hour or its title is another. Abstracted: one
hall; two periods overlap when they are one slot; weekdays, feasts and languages of an entry; a
parish with no website is left out, as nothing is copied there.

### Publishing

`PublishDue` is the part of `processScheduledContent` that publishes and lists, its two queries
taken as one step; `NextCampaign`, `Mail`, `MarkSent` the loop over campaigns, which `SendCampaign`
enters too; the provider takes a mail or refuses it (`refused`), and the code reads neither
answer. `FindReports`, `RunReport`, `RecordRun`, `EndReports` are the loop of the reports
behind its flag, with the `catch` that records a failure. The staff create, edit, approve, delete
at any time. A date is absent, to come, or due. Pages and announcements take the queries of posts.

### RoomAllocation

`CheckRoom`, `CheckActive`, `Allocate` are `createAllocation`: status, tenant, and the
transaction. `StartVacate`/`Vacate` and `StartTransfer`/`CheckTarget`/`Transfer` likewise.
`CreateRoom` and `PatchRoom` let staff give a room a status by hand (`byHand`).
A facility's count of rooms, which no operation reads back, is left out.

### RentPayments

`CheckBalance`, `PostIncome`, `RecordPayment` are `recordPayment`. Stored amounts count coins of
0.01, as the `Decimal(12,2)` columns do, so the tolerance is the `+ 1` of `Accepted`. What a
caller pays may have any number of decimals: `Money` is the coins the database rounds it to, half
a coin upwards, and the side of them it lies on, which is all that a comparison with a stored
amount tells (`AtMost`, `Reaches`). The balance and the status are decided on the amount itself,
what is written is its coins. Rooms and rent share the
requests of `AccommodationCalls` and no table; one proof module extends both, hence the names
`RentInit`, `RentNext`, `RentSpec`.

### OccupantPortal

`Submit`..`RefreshFailed` are `submitMaintenanceRequest`; `StartFlush`..`EndFlush`
`flushSyncQueue`, started by the screen (`accommodation/index.tsx`); `Check` and `Insert`
the two queries of `portalCreateMaintenance`. `ServerError`, `Disconnect` and `Kill` are
the faults; after them the API may or may not have got a call, and serves it to the end
if so. `Move` and the edit of notes are the office. Rows are flushed in any order, of
which the code's is one.

### Messaging

`CreateNotification`, `Publish` and `CreateCommunication` are requests; `Tick`..`EndTick`
the tick and its three loops, one row at a time; `Deliver`, `WriteInbox`, `MarkSent`,
`MarkMessage`, `LogReminder` a delivery by either. `Fail`, `AbortTick`, `Restart` are the
faults. A provider takes a message or does not; the audience is `Users`. `published` and `claimed`
count what was asked for; with what was sent they are the state of `NoticeBoard`.

### ImportJobs

`Upload`, `SaveColumnMapping`, `UpdateRow`, `Mark` (preview, validate) change a job as its
status allows, which is always. `StartRun`..`Finish` are `runImport`, where `SkipRow` passes
over a refused row *and over the saving of progress after it*, as `continue` does;
`Rollback`..`MarkRolledBack` are `rollback`. `EnterByHand` is the office. A row is a
marriage and the household it may bring; members go with the family and certificates with
the record. Looking for a household and creating it is one step: two overlapping ones may
make two families of one name, which no property tells apart. An edit of a row lost to an
overlapping one is an edit not made.

## 3. The runs

`pass` runs find no error; `violation` runs show a disagreement between the code and what
it says (section 4). Where type correctness is proved (section 5) most runs leave it out.

| Run | Instance | Distinct states | Shows |
| --- | --- | --- | --- |
| `register` | 3 requests, any may be lost; pages of 2 lines; baptisms, marriages, confirmations, deaths; 2 members | 206 000 | `PagesDense`, `EveryEntryShown`: however creates interleave, the i-th entry is on the i-th line. `NumbersGapFree`: numbers nobody set by hand have no gap, though counted before the insert with deletes between. `CertificateLinks`, `OneMarriageCertificate`, `PrintsGapFree`, `NothingUndone`. `ReadsLikePaper`: the pages, as `getRegisterPage` reads them, refine `PaperRegister` |
| `clergy` | 3 requests, any may be lost; 1 priest, 2 parishes | 5 134 000 | `OnePrimary`, `Succeeded`, `OrdersCarriedOut`, `StatusLogged`: each true but for the window it names |
| `calendar` | 3 requests, any may be lost; 2 hours, the entries those of the summer; the season turns twice | 5 306 000 | `HallGivenOnce`, `MassHasHall`, `ScheduledOnce`, `PublicOnSite`, `AppShowsSchedule`, likewise |
| `publishing` | a post, a campaign, a report, a subscriber; 2 ticks that may overlap, 1 request, 1 fault; any mail may be refused | 450 000 | `MailedOnce`, `SentIsTried`; liveness `DueIsTried` |
| `rooms` | 6 requests, any may be lost; 2 rooms, 2 occupants | 41 000 | `OccupiedHasTenant`, `HandoverComplete`, `AllocationsEndOnce`; `CreateSeesTenants`: a second tenant comes only from behind the check |
| `rent` | 5 requests, any may be lost; totals 0, 2, 3; amounts 1, 2, 3, a bit over 1, a bit under 2 | 1 398 000 | `PaidIsReceived` whatever races; `SettledExactly` while payments do not overlap, but for a last payment rounded up to the whole; `ReceiptsPosted` |
| `portal` | 2 requests, 2 overlapping flushes, 2 rooms, 1 fault | 83 000 | `NothingLost`, `WrittenOnce`; liveness `EveryRowTried` |
| `messaging` | a notification, a message, a Mass, 2 users, 2 requests, 1 fault, pages of 1 | 1 607 000 | `TypeOK`, `NotifiedOnce`, `RepeatsExplained`, `SentReached`; `GoesOutAsAsked`: notifications refine `NoticeBoard` |
| `messaging_due` | a notification, 2 messages, 2 requests, 1 fault, pages of 1 | 158 000 | liveness `DueLeaves` |
| `imports` | 4 requests, any may be lost; 2 sheets, progress saved every 2 rows | 2 091 000 | `OneRunAtATime`, `RollbackRemovesAll`, `RollbackKeepsToItsJob` |
| `import_rollback` | as `imports` | | violation `HandmadeStays`, section 4 |
| `approval` | as `publishing`, without fairness | | violation `ChangesHold`, section 4 |

**Why the bounds are enough.** Two requests make a race; the third and fourth make what
the race left behind matter (a delete before the count, a rollback after two runs, a transfer
completed again after an appointment). With three entries, pages of two lines turn over and a
late create meets a taken line; in each series a request that counts, one that inserts and one
that deletes meet. Six room requests fit a room created, allocated, and moved out of twice at
once. The rent totals hold the interesting sums: nothing, an exact payment, one coin over, two
payments that overlap, one a bit short of the whole that the database makes whole. The import's first sheet has a row between two saves and a refused last
row, the one shape in which the job's saved list lags behind what was written. One priest is
enough for what two requests do to one line of postings, two parishes for a transfer; two
hours are needed for a synchronisation to be cut between them, and for an event to be moved from
one to the other and back. Entries of one season are enough, as the winter's copy is then another;
the second turn brings back the season a request read before the first. A page (`Take`) of one row where
the code takes 20 or 25 makes the second row wait. One fault is enough to break any one step,
and each run that has faults or aborts lets it fall anywhere. Symmetry is used only in runs of
safety properties, over constants that no definition tells apart. What is proved (section 5)
does not depend on the bounds.

**Deadlock** is not checked in the runs where every request serves one call and then
stops; `messaging`, `messaging_due`, `portal`, `publishing` and `approval` check it, as the tick
and the screen go on.

**Fairness** is assumed only for liveness. `Messaging!FairSpec`: the timer fires (`@Cron`
every minute) and a tick or request under way makes its next query; nobody need ask for,
fail or restart anything. `Publishing!FairSpec`: both jobs are started every minute and what
runs goes on, for each tick, each call and the loop of the reports by itself.
`OccupantPortal!FairSpec`: the app and the API go on, the connection comes back, and the
occupant opens the screen again; the code flushes only then. Faults are bounded, so that they
stop: no fairness would help a phone that is always killed.

## 4. What the code does otherwise

Two runs show the code against its own words:

- `import_rollback`: "Existing manually entered records will not be affected"
  (`DataImportStudio.tsx:414`); a family that the run found rather than created is listed as
  created, and the rollback deletes it.
- `approval`: "Parish priest approves or requests changes" (`cms/approval/page.tsx:36`); a post
  sent back becomes a DRAFT that keeps its date, and the tick publishes drafts whose date has come
  as well as scheduled posts (`cms.service.ts:2143`).

Met on the way, with no run of their own:

- "close prior primary postings unless this is additional/temporary overlay" (`clergy.service.ts:641`):
  the line below tests ADDITIONAL alone, so a temporary appointment closes the posting it overlays,
  and nothing opens it again when it ends. `OnePrimary` states what the code does: were the comment
  followed, an appointment and a temporary one after it would violate it.
- `sendEmail` throws nothing: a provider's refusal is an answer, `queued: false`
  (`notifications.service.ts:83-94`, `120-124`), which the newsletters and the reports drop. A
  campaign that reached nobody is SENT with a full `sentCount` (`cms.service.ts:2172`), a report
  nobody got is SENT too; `SentIsTried` says what the mark is worth. A report whose run failed waits
  for its next date (`report-schedule.service.ts:204-215`), and one whose mail went out but whose
  update failed is recorded FAILED.
- A payment of 99.995 on 100.00 is compared before it is rounded (`accommodation.service.ts:782-785`):
  paid and received are 100.00 and the invoice is PARTIAL. A payment of a coin, within the
  tolerance, then makes it PAID with 100.01. The exception of `SettledExactly` is this.
- The schedule's events say `publishWeb` and are never copied to the website
  (`mass-schedule.service.ts:267-281`). One that was moved or given another title is not found by
  the next synchronisation, which schedules its hour again.
- The app's copy holds the entries of the season, and its next Mass, of the time it was written
  (`mass-schedule.service.ts:332-360`); nothing writes it when the season turns or that Mass is over.
- `createAllocation` says "Room already has an active allocation" (`accommodation.service.ts:477`),
  but looks before its transaction and no index stands behind it. `CreateSeesTenants`, proved, says
  that this gap is the only one.
- `create` refuses a confirmation earlier than its baptism (`sacrament.service.ts:235`); an
  `update` of either date is not checked.
- "Requests queue locally when offline and sync automatically" (`maintenance.tsx:96`): a row whose
  one flush failed is marked `failed`, and only `pending` rows are ever listed. `EveryRowTried`
  says what does hold.
- `docs/I18N.md` names the diocese's default before the browser's language;
  `resolveLocaleContext` (`i18n.service.ts:293`) prefers the browser's.

Other gaps show in what the properties except: `touched`, `lost`, `raced`, `cut`, `stale`, `lags`,
`replaced`, `disturbed`, `edited`, `reset`, `crossed`, `changed` and `again` each name a cause that the code
leaves open, and `saw` and `before` tell overlapping requests from those one after the other.

## 5. What is proved

Every theorem holds for any number of requests, ticks or flushes and any values of the constants
that the named assumptions allow (`RequestsAssumption`, `BodiesAssumption`, `NullsAssumption`,
`BoundAssumption`...: nulls differ from values, requests are finitely many where they are counted,
forms are complete; TLC evaluates them in every run). A module has one inductive
invariant, or one on which those of single properties stand; its theorems name them.

**`SacramentRegisterProofs`.** `IInv == TypeOK /\ StageOK`: `TypeOK` alone is not inductive,
since a step that writes `row[r]` into a table needs to know that `r`, at that stage, holds a row,
that the record it names exists, and that the number or serial has been chosen. `StageOK` says so
for each stage, and that tables only grow keeps it for the requests that do not move. On it stand
- `PagesAlwaysDense`, `AllEntriesShown` (`LInv`): a request about to append never counted past the
  end of its book (`CountsInPast`). If it counted fewer entries than there are, density says that
  the line it computed is taken, and the unique index refuses it; if as many, it takes the next
  line. The rest is arithmetic on pages and lines, for any page size.
- `ImplementsPaper` (`RInv`): adds that a request which has a line has passed the append
  (`LinesOnce`); then a reader of the pages sees every entry on its line (`ReadsEntries`), and a
  step either leaves what he sees or adds the next line: a step of `PaperRegister` or a stutter.
- `CertificatesLinked`, `MarriagesCertifiedOnce` (`CInv`): who a certificate is about, which record
  points to it, that serials are unique, and that a marriage's serial is made from its number
  (`SerialOK`), so that a second one runs into the index.
- `PrintsWithoutGap` (`PInv`): the count a print was numbered from is already in the log.
- `NumbersWithoutGap` (`NInv`): in a series nobody numbered by hand every number below one given,
  or waiting to be inserted, is known. The step is a pigeonhole argument (`CountKnown`): a creator
  who counts k live rows among distinct numbers finds, or the index finds for it, that 1 to k are
  known; deleted rows keep their numbers.
- `NothingIsUndone`: an action property, step by step.

**`ClergyPostingsProofs`.** `IInv` adds to the types: what closing a posting leaves behind
(`Chain`), that only an order posts by order (`Sources`), that a change of status finds and logs
what it read until two cross (`Known`), and that a request about to post a primary one has closed
all it saw (`Cleared`); from these `PrimaryHeldOnce`, `ClosedAreSucceeded`,
`OrdersTellWhatWasDone`, `LastEventTells`.

**`ParishCalendarProofs`.** The hall was free when a request looked, so a booking at its hour by an
earlier one is cancelled or was set by hand (`Clear`); an event that nobody moved, retitled or
deleted stands at its hour, and a run wrote its event before its Mass, so a later run that finds
no event finds no Mass (`Shown`, `Unseen`); a public event is the schedule's, on the site, in the
hands of the request that copies it or cut there, and so is what a request read as public
(`Published`); a request about to write the app's copy holds the season's schedule as it is,
is noted to have read it too early (`stale`), or is not the last on the way to tell the app (`Told`). Theorems: `HallsGivenOnce`, `HallMassesBooked`, `HoursScheduledOnce`,
`PublicEventsOnSite`, `AppIsTold`.

**`PublishingProofs`.** A campaign that neither a fault nor a second hand touched is with one run
at most and has gone to none of those it has still to reach (`Once`); a report mailed and not
recorded is the one the loop is at (`ReportsOnce`); who mails a campaign has tried all but those it
has left, and who marks it has none left (`Trying`). Theorems: `MailsGoOutOnce`, `SentWasTried`.

**`AccommodationProofs`**, of rooms: `IInv == TypeOK /\ OrdersOK /\ RequestOK`: a request that has
not written has no allocation and no order, and an order is about an allocation. Theorems:
`OccupiedRoomsHaveTenants`, `HandoversComplete`, `EndedStaysEnded`, and `CreatesSeeTenants` from
`SeenOK`: a request about to allocate knows of all tenants but those who moved in since it looked.

Of rent: a request writes its income and then its payment once (`RentInv`), whence
`ReceiptsArePosted`. `SumsInv` says what invoices, payments and the amounts that requests have
read say of one another; from it `ClaimsAreReceived` and `InvoicesAreExact`, for any number of
payments of any amounts, with any number of decimals. They need to know what a sum over a set (`Total`, a fold of the community modules) does
when an element is added. The fold is a recursive function on finite sets, and the library's
induction theorems are out of reach; but the fact is *one* fixed statement about finite sets, so
it is proved by taking, in a finite set for which it fails, a smallest part for which it does, and
removing the element the fold picks first (`Pick`, `TotalIsSum`, `TotalAdd`).

**`MessagingProofs`.** `Shape` is inductive: a process has an item exactly while it delivers or marks
it, and what the tick has still to go through belongs to its loop; one lemma for each action says
what it does to what a process has in hand. On it stand, each with an invariant of its own,
- `SentMeansReached` (`Reach`): what a process believes of whom it reached is so, and no step takes a
  send back, so that either of two deliveries may write the outcome.
- `NotificationsOnce` (`Budget`): a count. For each user, the number of times a notification was sent
  and the processes that have still to send it are together never more than its publications and
  claims; likewise the batches of the inbox. A delivery moves one from what is to come to what is
  done, and a fault only loses. A claimed notification stands as sent, so it is claimed once.
- `BoardImplemented`: with `Budget`, a send or a batch has room for one more, so that every step is
  a step of `NoticeBoard` (`Ask`, `Receive`, `Post`) or a stutter.
- `RepeatsHaveCauses` (`Once`): a message or reminder without a cause is in one hand at most, still
  to be marked, not among what the tick goes on to, and sent to nobody still to come; in no hand
  and open, it was sent to nobody.

**`OccupantPortalProofs`.** A caller waits for one call and is answered the truth (`Waiting`,
`OneCall`, `Truthful`); two handlers past the look-up for one room are noted (`Noted`). Theorems:
`ToldIsKept`, `RequestsWrittenOnce`.

**`ImportJobsProofs`.** Who wrote what and what a list names (`Provenance`), that rows are written
once (`Fresh`), and, for a job no two calls were at together, one run at a time, none during a
rollback, and a list that names all that is left (`Calm`). Theorems: `RunsOneAtATime`,
`RollbacksRemoveAll`, `RollbacksKeepToTheirJob`.

## 6. What is only model-checked

Every safety invariant and safety action property of a passing run is a theorem. What is left to TLC:

- Liveness (`EveryRowTried`, `DueLeaves`, `DueIsTried`), out of the prover's reach, and the
  violations.

## 7. The plan

1. `Translations`: namespaces, languages and their cache under overlapping edits; the lost patch
   (`i18n.service.ts:246`), a cache filled from rows read before it was emptied, the defaults made
   by two first readers.
2. `ParishProvisioning`: the steps that give a new parish its site, books, accounts and hall, each
   made only if a count is zero; what a second run completes after a first was cut.
3. `Sessions`: sign-in challenges, sessions and their refresh as state shared by overlapping
   requests (`identity.service.ts:919`), with the clients' single-flight refresh.
4. The liturgical day, its overrides and cache.

## 8. What is not modelled

- The components without a module in section 1, planned above or with the reason in
  `PROJECT.json`. Most of the repository's lines are screens of the web and mobile clients and
  services whose operations are one query each: there is no second step for another request to
  come between, so that the models, which follow the operations with several, cover a small
  share of the lines.
- In modelled components: reads that only display (statistics, search, pages, PDFs), the audit
  log and the timeline, which are appended and never read back by an operation; the purge of an
  import's records, the writers of the other import modules and the parsing of spreadsheets;
  the facilities, blocks, guests and assets of the accommodation; the portal's cached bundle; the
  page builder, media and forms of the website; donations, intentions, cemeteries and the other
  registers of `parish-ops.service.ts`, rows written and edited by one query each.
- Access tests: the models take the calls that pass them.
- A database that loses committed rows, and more than one API process: the flags of the scheduler
  and of the reports are per process, and the compose files of `docker/` start one API container.
