---------------------------- MODULE ParishCalendar ----------------------------
(***************************************************************************)
(* A parish's Masses, hall bookings, calendar and weekly Mass schedule:    *)
(* apps/api/src/modules/diocese/parish-ops.service.ts (createMass,         *)
(* createHallBooking, the calendar) and mass-schedule.service.ts           *)
(* (syncCalendar, the published schedule).  There is one hall.  A slot is  *)
(* an hour, and the title the schedule's Mass at it has: two periods       *)
(* overlap when they are the same slot, and an entry of the schedule is a  *)
(* slot in a season.                                                       *)
(***************************************************************************)
EXTENDS Naturals, FiniteSets

CONSTANTS
  Requests,    \* HTTP requests, each serving one call
  Abortable,   \* the requests that may fail or be lost between two queries
  Slots,       \* the hours things happen at
  Rows,        \* the entries a parish may have: a season and an hour of it
  MaxTurns,    \* bound: how often the season turns
  NoMass, NoBooking, NoEvent, NoSlot, NoWork

Seasons  == {"SUMMER", "WINTER"}
Keys     == Requests \X Slots      \* a row: who wrote it, and the hour it was written for
Statuses == {"PENDING", "CONFIRMED", "CANCELLED"}
Bookings == [slot: Slots, status: Statuses, mass: Keys \cup {NoMass}, event: Keys \cup {NoEvent}]
\* at: the slot whose hour and title the event has, if it has those of one
Events   == [at: Slots \cup {NoSlot}, live: BOOLEAN, web: BOOLEAN]

Stages   == {"idle", "mass", "massBooking", "massEvent", "link", "bookingEvent", "book", "update",
             "publish", "sync", "syncEvent", "syncMass", "config", "upsert", "done", "failed"}
\* What a request holds between two queries.
Plans    == [slot: Slots, hall: BOOLEAN, cal: BOOLEAN]
Changes  == [key: Keys, was: BOOLEAN]
Hours    == [hours: SUBSET Slots, hour: Slots \cup {NoSlot}]
Copies   == [season: Seasons, hours: SUBSET Slots]

ASSUME NullsAssumption ==
  NoBooking \notin Bookings /\ NoEvent \notin Events /\ NoMass \notin Keys /\ NoSlot \notin Slots
ASSUME RowsAssumption == Rows \subseteq Seasons \X Slots
ASSUME BoundAssumption == MaxTurns \in Nat

VARIABLES
  turns,     \* how often the season has turned since a summer
  entries,   \* MassScheduleEntry: the active ones; two alike are one
  mobile,    \* MobileAppConfig.massScheduleJson
  mass,      \* MassEvent: those written, and whether in the hall
  booking,   \* HallBooking, by the request that wrote it
  event,     \* ParishCalendarEvent
  site,      \* how many CmsEvents an event was put on the website as
  pc, work,  \* the next query of each request, and what it holds
  before,    \* history: the requests with a booking or a Mass that had ended when this one,
             \* which books or writes Masses, began
  changed,   \* history: bookings set by hand, and events moved, retitled or deleted
  cut,       \* history: events whose request was cut before it wrote their copy or Mass
  stale,     \* history: the requests that read the schedule before another told the app, or
             \* was cut on its way to, or the season turned
  lags       \* history: what the app shows was so read, or that has happened since

schedule == <<turns, entries, mobile>>
diary    == <<mass, booking, event, site>>
lag      == <<stale, lags>>
history  == <<before, changed, cut, lag>>
vars     == <<schedule, diary, pc, work, history>>

Goto(r, stage) == pc' = [pc EXCEPT ![r] = stage]
Hold(r, thing) == work' = [work EXCEPT ![r] = thing]
End(r)   == Goto(r, "done") /\ Hold(r, NoWork)
Fail(r)  == Goto(r, "failed") /\ Hold(r, NoWork)
Start(r) == pc[r] = "idle" /\ UNCHANGED before

\* March to October is summer.
season    == IF turns % 2 = 0 THEN "SUMMER" ELSE "WINTER"
Current   == {s \in Slots : <<season, s>> \in entries}
Now       == [season |-> season, hours |-> Current]    \* what the app should show
Reading   == {r \in Requests : pc[r] = "upsert"}
Telling(r) == pc[r] \in {"config", "upsert"}

Booked    == {b \in Requests : booking[b] # NoBooking}
Conflict(s) == \E b \in Booked : booking[b].slot = s /\ booking[b].status # "CANCELLED"
BookingOf(m) == {b \in Booked : booking[b].mass = m}
Wrote(r)  == booking[r] # NoBooking \/ \E s \in Slots : mass[<<r, s>>] # "none"
Ended     == {r \in Requests : pc[r] \in {"done", "failed"} /\ Wrote(r)}
Begin(r)  == pc[r] = "idle" /\ before' = [before EXCEPT ![r] = Ended]
Written   == {k \in Keys : event[k] # NoEvent}

-----------------------------------------------------------------------------
(* createMass: work is the hour, whether it is in the hall and whether it goes *)
(* on the calendar                                                             *)

\* Mutant: the hall is not looked at.
PlanUnchecked(r) ==
  /\ Begin(r)
  /\ \E s \in Slots, h, c \in BOOLEAN :
       Goto(r, "mass") /\ Hold(r, [slot |-> s, hall |-> h, cal |-> c])
  /\ UNCHANGED <<schedule, diary, changed, cut, lag>>

\* A priest who is not available, or a hall that is taken, refuses the Mass.
CreateMass(r) ==
  /\ \/ \E s \in Slots, h, c \in BOOLEAN :
          /\ Begin(r)
          /\ h => ~Conflict(s)
          /\ Goto(r, "mass") /\ Hold(r, [slot |-> s, hall |-> h, cal |-> c])
     \/ Start(r) /\ Fail(r)
  /\ UNCHANGED <<schedule, diary, changed, cut, lag>>

InsertMass(r) ==
  /\ pc[r] = "mass"
  /\ mass' = [mass EXCEPT ![<<r, work[r].slot>>] = IF work[r].hall THEN "hall" ELSE "plain"]
  /\ IF work[r].hall THEN Goto(r, "massBooking") /\ UNCHANGED work
     ELSE IF work[r].cal THEN Goto(r, "massEvent") /\ UNCHANGED work
     ELSE End(r)
  /\ UNCHANGED <<schedule, booking, event, site, history>>

\* Mutant: a Mass whose booking goes wrong goes on.
BookLater(r) ==
  LET m == <<r, work[r].slot>> IN
  /\ pc[r] = "massBooking"
  /\ IF work[r].cal THEN Goto(r, "massEvent") /\ UNCHANGED work ELSE End(r)
  /\ UNCHANGED <<schedule, diary, history>>

\* massEventId is unique: somebody may have booked the hall for this Mass already.
BookForMass(r) ==
  LET m == <<r, work[r].slot>> IN
  /\ pc[r] = "massBooking"
  /\ IF BookingOf(m) # {} THEN Fail(r) /\ UNCHANGED booking
     ELSE /\ booking' = [booking EXCEPT ![r] = [slot |-> work[r].slot, status |-> "CONFIRMED",
                                                 mass |-> m, event |-> NoEvent]]
          /\ IF work[r].cal THEN Goto(r, "massEvent") /\ UNCHANGED work ELSE End(r)
  /\ UNCHANGED <<schedule, mass, event, site, history>>

\* The title of the Mass may be that of the schedule's at the hour.
PutOnCalendar(r) ==
  /\ pc[r] = "massEvent"
  /\ \E at \in {work[r].slot, NoSlot} :
       event' = [event EXCEPT ![<<r, work[r].slot>>] = [at |-> at, live |-> TRUE, web |-> FALSE]]
  /\ IF work[r].hall THEN Goto(r, "link") /\ UNCHANGED work ELSE End(r)
  /\ UNCHANGED <<schedule, mass, booking, site, history>>

LinkBooking(r) ==
  LET m == <<r, work[r].slot>> IN
  /\ pc[r] = "link"
  /\ booking' = [b \in Requests |-> IF b \in BookingOf(m) THEN [booking[b] EXCEPT !.event = m]
                                    ELSE booking[b]]
  /\ End(r)
  /\ UNCHANGED <<schedule, mass, event, site, history>>

-----------------------------------------------------------------------------
(* Hall bookings *)

CreateHallBooking(r) ==
  /\ \E s \in Slots, c \in BOOLEAN :
       IF Conflict(s) THEN Start(r) /\ Fail(r)
       ELSE /\ Begin(r)
            /\ Goto(r, IF c THEN "bookingEvent" ELSE "book")
            /\ Hold(r, [slot |-> s, status |-> "CONFIRMED", mass |-> NoMass, event |-> NoEvent])
  /\ UNCHANGED <<schedule, diary, changed, cut, lag>>

BookingEvent(r) ==
  LET k == <<r, work[r].slot>> IN
  /\ pc[r] = "bookingEvent"
  /\ event' = [event EXCEPT ![k] = [at |-> NoSlot, live |-> TRUE, web |-> FALSE]]
  /\ Goto(r, "book") /\ work' = [work EXCEPT ![r].event = k]
  /\ UNCHANGED <<schedule, mass, booking, site, history>>

\* The call may name a Mass that it books for; one that is booked for already fails it.
BookHall(r) ==
  /\ pc[r] = "book"
  /\ \E m \in {k \in Keys : mass[k] # "none"} \cup {NoMass} :
       IF m # NoMass /\ BookingOf(m) # {} THEN Fail(r) /\ UNCHANGED booking
       ELSE booking' = [booking EXCEPT ![r] = [work[r] EXCEPT !.mass = m]] /\ End(r)
  /\ UNCHANGED <<schedule, mass, event, site, history>>

\* No conflict is looked for when a cancelled booking is confirmed again.
UpdateHallBookingStatus(r) ==
  /\ Start(r)
  /\ \E b \in Booked, t \in Statuses :
       /\ booking' = [booking EXCEPT ![b].status = t]
       /\ changed' = IF t # booking[b].status THEN changed \cup {b} ELSE changed
  /\ End(r)
  /\ UNCHANGED <<schedule, mass, event, site, cut, lag>>

-----------------------------------------------------------------------------
(* Calendar events: work is the event, and whether it was public *)

CreateCalendarEvent(r) ==
  /\ Start(r)
  /\ \E s \in Slots, w \in BOOLEAN : \E at \in {s, NoSlot} :
       /\ event' = [event EXCEPT ![<<r, s>>] = [at |-> at, live |-> TRUE, web |-> w]]
       /\ IF w THEN Goto(r, "publish") /\ Hold(r, [key |-> <<r, s>>, was |-> FALSE]) ELSE End(r)
  /\ UNCHANGED <<schedule, mass, booking, site, changed, cut, lag>>

UpdateCalendarEvent(r) ==
  /\ Start(r)
  /\ \E k \in Written :
       /\ event[k].live
       /\ Goto(r, "update") /\ Hold(r, [key |-> k, was |-> event[k].web])
  /\ UNCHANGED <<schedule, diary, changed, cut, lag>>

\* Mutant: an event that was public once is taken for public.
WriteEventOnce(r) ==
  LET k == work[r].key IN
  /\ pc[r] = "update"
  /\ \E at \in Slots \cup {NoSlot}, w \in BOOLEAN :
       /\ event' = [event EXCEPT ![k].at = at, ![k].web = w]
       /\ changed' = IF at # event[k].at THEN changed \cup {k} ELSE changed
       /\ End(r)
  /\ UNCHANGED <<schedule, mass, booking, site, before, cut, lag>>

\* Hour, title and visibility may change at once.  It goes to the website when it is
\* public now and was not when it was read.
WriteEvent(r) ==
  LET k == work[r].key IN
  /\ pc[r] = "update"
  /\ \E at \in Slots \cup {NoSlot}, w \in BOOLEAN :
       /\ event' = [event EXCEPT ![k].at = at, ![k].web = w]
       /\ changed' = IF at # event[k].at THEN changed \cup {k} ELSE changed
       /\ IF w /\ ~work[r].was THEN Goto(r, "publish") /\ UNCHANGED work ELSE End(r)
  /\ UNCHANGED <<schedule, mass, booking, site, before, cut, lag>>

SyncCalendarToWebsite(r) ==
  /\ pc[r] = "publish"
  /\ site' = [site EXCEPT ![work[r].key] = @ + 1]
  /\ End(r)
  /\ UNCHANGED <<schedule, mass, booking, event, history>>

DeleteCalendarEvent(r) ==
  /\ Start(r)
  /\ \E k \in Written :
       /\ event[k].live
       /\ event' = [event EXCEPT ![k].live = FALSE]
       /\ changed' = changed \cup {k}
  /\ End(r)
  /\ UNCHANGED <<schedule, mass, booking, site, cut, lag>>

-----------------------------------------------------------------------------
(* The weekly schedule: work is the set of hours still to see to, or what the  *)
(* app is to be told                                                           *)

\* The month decides the season.
TurnSeason ==
  /\ turns < MaxTurns /\ turns' = turns + 1
  /\ stale' = Reading /\ lags' = TRUE
  /\ UNCHANGED <<entries, mobile, diary, pc, work, before, changed, cut>>

\* The hours of the season are read once, and gone through in turn.
SyncCalendar(r) ==
  /\ Begin(r)
  /\ Goto(r, "sync") /\ Hold(r, [hours |-> Current, hour |-> NoSlot])
  /\ UNCHANGED <<schedule, diary, changed, cut, lag>>

OnCalendar(s) == \E k \in Written : event[k].live /\ event[k].at = s

\* Mutant: the hour is not looked up.
NextAlways(r) ==
  /\ pc[r] = "sync"
  /\ \/ work[r].hours = {} /\ Goto(r, "config") /\ Hold(r, NoWork)
     \/ \E s \in work[r].hours :
          Goto(r, "syncEvent") /\ Hold(r, [hours |-> work[r].hours \ {s}, hour |-> s])
  /\ UNCHANGED <<schedule, diary, history>>

\* An hour at which an event has the title of the entry is passed over.
NextHour(r) ==
  /\ pc[r] = "sync"
  /\ \/ work[r].hours = {} /\ Goto(r, "config") /\ Hold(r, NoWork)
     \/ \E s \in work[r].hours :
          IF OnCalendar(s)
          THEN Hold(r, [hours |-> work[r].hours \ {s}, hour |-> NoSlot]) /\ UNCHANGED pc
          ELSE Hold(r, [hours |-> work[r].hours \ {s}, hour |-> s]) /\ Goto(r, "syncEvent")
  /\ UNCHANGED <<schedule, diary, history>>

SyncEvent(r) ==
  /\ pc[r] = "syncEvent"
  /\ event' = [event EXCEPT ![<<r, work[r].hour>>] =
                 [at |-> work[r].hour, live |-> TRUE, web |-> TRUE]]
  /\ Goto(r, "syncMass")
  /\ UNCHANGED <<schedule, mass, booking, site, work, history>>

SyncMass(r) ==
  /\ pc[r] = "syncMass"
  /\ mass' = [mass EXCEPT ![<<r, work[r].hour>>] = "scheduled"]
  /\ Goto(r, "sync") /\ work' = [work EXCEPT ![r].hour = NoSlot]
  /\ UNCHANGED <<schedule, booking, event, site, history>>

\* An entry is added, taken out, or given another hour, title or season.
Edited == {(entries \ out) \cup in : out \in {{}} \cup {{e} : e \in entries},
                                       in \in {{}} \cup {{e} : e \in Rows}}

\* Mutant: the app is not told.
EditSilently(r) ==
  /\ Start(r)
  /\ entries' \in Edited
  /\ End(r)
  /\ UNCHANGED <<turns, mobile, diary, changed, cut, lag>>

EditSchedule(r) ==
  /\ Start(r)
  /\ entries' \in Edited
  /\ Goto(r, "config") /\ UNCHANGED work
  /\ UNCHANGED <<turns, mobile, diary, changed, cut, lag>>

\* syncMobileAppConfig reads the entries of the season there is now, and then writes
\* them for the app.
ReadEntries(r) ==
  /\ pc[r] = "config"
  /\ Goto(r, "upsert") /\ Hold(r, Now)
  /\ UNCHANGED <<schedule, diary, history>>

UpsertConfig(r) ==
  /\ pc[r] = "upsert"
  /\ mobile' = work[r]
  /\ stale' = Reading \ {r} /\ lags' = (r \in stale)
  /\ End(r)
  /\ UNCHANGED <<turns, entries, diary, before, changed, cut>>

-----------------------------------------------------------------------------
\* A query that fails, a restart or a lost connection ends a request.
Abort(r) ==
  /\ r \in Abortable
  /\ pc[r] \notin {"idle", "done", "failed"}
  /\ cut' = CASE pc[r] = "publish"  -> cut \cup {work[r].key}
              [] pc[r] = "syncMass" -> cut \cup {<<r, work[r].hour>>}
              [] OTHER              -> cut
  /\ stale' = IF Telling(r) THEN Reading \ {r} ELSE stale
  /\ lags' = (lags \/ Telling(r))
  /\ Fail(r)
  /\ UNCHANGED <<schedule, diary, before, changed>>

Init ==
  /\ turns \in {0, 1} /\ entries \in SUBSET Rows
  /\ mobile = Now
  /\ mass = [k \in Keys |-> "none"]
  /\ booking = [r \in Requests |-> NoBooking]
  /\ event = [k \in Keys |-> NoEvent]
  /\ site = [k \in Keys |-> 0]
  /\ pc = [r \in Requests |-> "idle"]
  /\ work = [r \in Requests |-> NoWork]
  /\ before = [r \in Requests |-> {}]
  /\ changed = {} /\ cut = {} /\ stale = {} /\ lags = FALSE

Next == TurnSeason \/ \E r \in Requests :
  \/ CreateMass(r) \/ InsertMass(r) \/ BookForMass(r) \/ PutOnCalendar(r) \/ LinkBooking(r)
  \/ CreateHallBooking(r) \/ BookingEvent(r) \/ BookHall(r) \/ UpdateHallBookingStatus(r)
  \/ CreateCalendarEvent(r) \/ UpdateCalendarEvent(r) \/ WriteEvent(r)
  \/ SyncCalendarToWebsite(r) \/ DeleteCalendarEvent(r)
  \/ SyncCalendar(r) \/ NextHour(r) \/ SyncEvent(r) \/ SyncMass(r)
  \/ EditSchedule(r) \/ ReadEntries(r) \/ UpsertConfig(r) \/ Abort(r)

Spec == Init /\ [][Next]_vars

-----------------------------------------------------------------------------
(* Properties *)

\* The tables, and what a request holds at each of its stages, have their types.
TablesOK ==
  /\ turns \in Nat /\ entries \subseteq Rows /\ mobile \in Copies
  /\ mass \in [Keys -> {"none", "plain", "hall", "scheduled"}]
  /\ booking \in [Requests -> Bookings \cup {NoBooking}]
  /\ event \in [Keys -> Events \cup {NoEvent}]
  /\ site \in [Keys -> Nat]
  /\ before \in [Requests -> SUBSET Requests] /\ changed \subseteq Requests \cup Keys
  /\ cut \subseteq Keys /\ stale \subseteq Reading /\ lags \in BOOLEAN
HoldsOK(r) ==
  /\ pc[r] \in {"mass", "massBooking", "massEvent", "link"} => work[r] \in Plans
  /\ pc[r] \in {"book", "bookingEvent"} => work[r] \in Bookings
  /\ pc[r] \in {"update", "publish"} => work[r] \in Changes /\ work[r].key \in Written
  /\ pc[r] \in {"sync", "syncEvent", "syncMass"} => work[r] \in Hours
  /\ pc[r] \in {"syncEvent", "syncMass"} => work[r].hour \in Slots
  /\ pc[r] = "upsert" => work[r] \in Copies
TypeOK ==
  /\ TablesOK
  /\ pc \in [Requests -> Stages]
  /\ work \in [Requests -> Plans \cup Bookings \cup Changes \cup Hours \cup Copies \cup {NoWork}]
  /\ \A r \in Requests : HoldsOK(r)

Overlapped(r1, r2) == r1 \notin before[r2] /\ r2 \notin before[r1]

\* The hall is given twice at one hour only to requests that overlapped, or by setting
\* the status of a booking by hand (813-838, 900-923).
HallGivenOnce ==
  \A b1, b2 \in Booked :
    \/ b1 = b2 \/ booking[b1].slot # booking[b2].slot
    \/ "CANCELLED" \in {booking[b1].status, booking[b2].status}
    \/ Overlapped(b1, b2) \/ {b1, b2} \cap changed # {}

\* A Mass in the hall has a booking, its own for the same hour or one another request
\* made in its name, unless its request is on the way there or was cut (129-179).
MassHasHall ==
  \A r \in Requests, s \in Slots : mass[<<r, s>>] = "hall" =>
    \/ \E b \in BookingOf(<<r, s>>) : b = r => booking[b].slot = s
    \/ pc[r] \in {"massBooking", "failed"}

\* A run of the synchronisation writes a Mass again that an earlier run wrote at that
\* hour only if the event of the first was moved, retitled or deleted meanwhile; two runs
\* that overlap may both write it (256-299; the look-up is by hour and title).
ScheduledOnce ==
  \A r2 \in Requests, s \in Slots : mass[<<r2, s>>] = "scheduled" =>
    \A r1 \in before[r2] : mass[<<r1, s>>] = "scheduled" => <<r1, s>> \in changed

\* A public event that is not on the website was put on the calendar by the schedule,
\* which copies nothing, or the very request that made it public is about to copy it or
\* was cut before it did (1328-1332, 1361-1363; 267-281).
PublicOnSite ==
  \A k \in Written : event[k].web /\ site[k] = 0 =>
    \/ mass[k] = "scheduled" \/ (pc[k[1]] = "syncMass" /\ work[k[1]].hour = k[2])
    \/ k \in cut
    \/ \E r \in Requests : pc[r] = "publish" /\ work[r].key = k

\* The app shows the season's schedule as it is, or somebody is on the way to tell it,
\* unless since the reading of what it shows the season turned, a request was cut while it
\* told the app, or another told it before this reading was written (323-384).
AppShowsSchedule == mobile = Now \/ lags \/ \E r \in Requests : Telling(r)
===============================================================================
