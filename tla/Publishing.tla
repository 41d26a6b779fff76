------------------------------ MODULE Publishing ------------------------------
(***************************************************************************)
(* The jobs of the minute that put website content out, mail newsletters   *)
(* and mail reports, with the staff who work on the same rows:             *)
(* apps/api/src/modules/cms/cms.service.ts (processScheduledContent, the   *)
(* posts and their approval, the campaigns), cms-publishing.service.ts and *)
(* reports/report-schedule.service.ts.  One process runs both jobs.        *)
(***************************************************************************)
EXTENDS Naturals

CONSTANTS
  Posts, Campaigns, Reports,
  Subscribers,   \* the active ones of the site
  Ticks,         \* runs of the website's job that may be under way together
  Requests,      \* calls of the staff
  None,
  MaxFaults      \* bound on failed queries and restarts

ASSUME BoundAssumption == MaxFaults \in Nat
ASSUME ProcsAssumption == Ticks \cap Requests = {} /\ None \notin Campaigns \cup Reports

Procs    == Ticks \cup Requests
Statuses == {"DRAFT", "PENDING_APPROVAL", "SCHEDULED", "PUBLISHED"}
Dates    == {"none", "later", "due"}       \* what scheduledAt or nextRunAt is to the clock

VARIABLES
  post,      \* CmsPost: status and scheduledAt
  campaign,  \* CmsNewsletterCampaign: status and scheduledAt
  mailed,    \* how often the provider took a campaign for a subscriber
  refused,   \* the campaigns it refused, and for whom; nobody reads its answer
  pc,        \* the stage of each run and call
  todo,      \* the campaigns a run has still to send
  item,      \* the one it is at
  left,      \* the subscribers still to be mailed
  report,    \* ReportSchedule: nextRunAt and whether it is live
  sent,      \* how often the provider took a report since it fell due
  running,   \* ReportScheduleService.running
  queue,     \* the reports its loop has still to run
  current,   \* the one it is at, and its stage
  faults,
  again,     \* history: what was cut short, sent by two at a time, or sent by hand again
  asked      \* history: posts changes were requested on and nobody submitted since

procs == <<pc, todo, item, left>>
mails == <<mailed, refused>>
site  == <<post, campaign, mails, procs, asked>>
jobs  == <<report, sent, running, queue, current>>
vars  == <<site, jobs, faults, again>>

Due(row) == row = [status |-> "SCHEDULED", date |-> "due"]
Goto(p, stage) == pc' = [pc EXCEPT ![p] = stage]
Fault == faults < MaxFaults /\ faults' = faults + 1

-----------------------------------------------------------------------------
(* Posts *)

CreatePost(c) ==
  /\ post[c].status = "none"
  /\ \E s \in Statuses, d \in {"none", "later"} : post' = [post EXCEPT ![c] = [status |-> s, date |-> d]]
  /\ UNCHANGED <<campaign, mails, procs, asked, jobs, faults, again>>

\* A status that is not named is the one updatePost read, which may be any by then; a
\* date left empty stays as it is.
EditPost(r) ==
  /\ pc[r] = "idle"
  /\ \E c \in Posts, s \in Statuses : \E d \in {post[c].date, "later"} :
       /\ post[c].status # "none"
       /\ post' = [post EXCEPT ![c] = [status |-> s, date |-> d]]
       /\ asked' = IF s = "DRAFT" THEN asked ELSE asked \ {c}
  /\ Goto(r, "done")
  /\ UNCHANGED <<campaign, mails, todo, item, left, jobs, faults, again>>

\* A deleted post is no row any more.
DeletePost(c) ==
  /\ post[c].status # "none"
  /\ post' = [post EXCEPT ![c] = [status |-> "none", date |-> "none"]]
  /\ asked' = asked \ {c}
  /\ UNCHANGED <<campaign, mails, procs, jobs, faults, again>>

\* The priest approves, or requests changes, which makes the post a draft again.
ApproveContent(r) ==
  /\ pc[r] = "idle"
  /\ \E c \in Posts, d \in {"PUBLISHED", "DRAFT"} :
       /\ post[c].status # "none"
       /\ post' = [post EXCEPT ![c].status = d]
       /\ asked' = IF d = "DRAFT" THEN asked \cup {c} ELSE asked \ {c}
  /\ Goto(r, "done")
  /\ UNCHANGED <<campaign, mails, todo, item, left, jobs, faults, again>>

-----------------------------------------------------------------------------
(* Newsletters *)

CreateCampaign(k) ==
  /\ campaign[k].status = "none"
  /\ \E d \in {"none", "later"} :
       campaign' = [campaign EXCEPT ![k] =
                      [status |-> IF d = "none" THEN "DRAFT" ELSE "SCHEDULED", date |-> d]]
  /\ UNCHANGED <<post, mails, procs, asked, jobs, faults, again>>

\* Two mail a campaign at once, or one mails what was mailed before.
Sending(k)    == {p \in Procs : pc[p] \in {"mail", "mark"} /\ item[p] = k}
StartMail(p, k) ==
  /\ item' = [item EXCEPT ![p] = k]
  /\ left' = [left EXCEPT ![p] = Subscribers]
  /\ again' = IF Sending(k) # {} \/ campaign[k].status = "SENT" THEN again \cup {k} ELSE again
  /\ Goto(p, IF Subscribers = {} THEN "mark" ELSE "mail")

\* The send button takes a campaign of any status; a test mail changes nothing.
SendCampaign(r) ==
  /\ pc[r] = "idle"
  /\ \E k \in Campaigns : campaign[k].status # "none" /\ StartMail(r, k)
  /\ UNCHANGED <<post, campaign, mails, todo, asked, jobs, faults>>

\* The provider may refuse a mail: sendEmail says so in its answer and throws nothing.
Mail(p) ==
  /\ pc[p] = "mail"
  /\ \E u \in left[p] :
       /\ \/ mailed' = [mailed EXCEPT ![item[p]][u] = @ + 1] /\ UNCHANGED refused
          \/ refused' = refused \cup {<<item[p], u>>} /\ UNCHANGED mailed
       /\ left' = [left EXCEPT ![p] = @ \ {u}]
       /\ IF left[p] = {u} THEN Goto(p, "mark") ELSE UNCHANGED pc
  /\ UNCHANGED <<post, campaign, todo, item, asked, jobs, faults, again>>

\* A run goes on to the next campaign of its list, or ends.
Onward(list) == IF list = {} THEN "idle" ELSE "next"
Release(p)   == /\ item' = [item EXCEPT ![p] = None]
                /\ Goto(p, IF p \in Ticks THEN Onward(todo[p]) ELSE "done")

\* Mutant: a campaign the run has mailed stays scheduled.
MarkUnsent(p) ==
  /\ pc[p] = "mark"
  /\ Release(p)
  /\ UNCHANGED <<post, campaign, mails, todo, left, asked, jobs, faults, again>>

MarkSent(p) ==
  /\ pc[p] = "mark"
  /\ campaign' = [campaign EXCEPT ![item[p]].status = "SENT"]
  /\ Release(p)
  /\ UNCHANGED <<post, mails, todo, left, asked, jobs, faults, again>>

-----------------------------------------------------------------------------
(* processScheduledContent, every minute; nothing keeps two runs apart *)

\* The posts that are due are put out and the campaigns that are due listed; no other
\* step reads both tables, so that the two queries may be taken as one.
PublishDue(t) ==
  /\ pc[t] = "idle"
  /\ post' = [c \in Posts |-> IF post[c].status \in {"SCHEDULED", "DRAFT"} /\ post[c].date = "due"
                              THEN [post[c] EXCEPT !.status = "PUBLISHED"] ELSE post[c]]
  /\ todo' = [todo EXCEPT ![t] = {k \in Campaigns : Due(campaign[k])}]
  /\ Goto(t, Onward(todo'[t]))
  /\ UNCHANGED <<campaign, mails, item, left, asked, jobs, faults, again>>

\* The subscribers of the next one are read.
NextCampaign(t) ==
  /\ pc[t] = "next"
  /\ \E k \in todo[t] : StartMail(t, k) /\ todo' = [todo EXCEPT ![t] = @ \ {k}]
  /\ UNCHANGED <<post, campaign, mails, asked, jobs, faults>>

-----------------------------------------------------------------------------
(* processDueSchedules, every minute, one run at a time *)

CreateReport(s) ==
  /\ report[s].date = "none"
  /\ report' = [report EXCEPT ![s] = [date |-> "later", live |-> TRUE]]
  /\ UNCHANGED <<site, sent, running, queue, current, faults, again>>

RemoveReport(s) ==
  /\ report[s].live
  /\ report' = [report EXCEPT ![s].live = FALSE]
  /\ UNCHANGED <<site, sent, running, queue, current, faults, again>>

FindReports ==
  /\ ~running /\ running' = TRUE
  /\ queue' = {s \in Reports : report[s].live /\ report[s].date = "due"}
  /\ UNCHANGED <<site, report, sent, current, faults, again>>

\* The report is run and mailed, and a mail that is refused counts as sent; if it cannot
\* be run, the failure is recorded.
RunReport ==
  /\ running /\ current = <<None, "idle">>
  /\ \E s \in queue :
       /\ queue' = queue \ {s}
       /\ \/ /\ sent' \in {[sent EXCEPT ![s] = @ + 1], sent}
             /\ current' = <<s, "sent">> /\ UNCHANGED faults
          \/ Fault /\ current' = <<s, "failed">> /\ UNCHANGED sent
  /\ UNCHANGED <<site, report, running, again>>

\* Either way the next run is set from now, whatever became of the schedule meanwhile.
\* An update that fails after the mail is made up for by the one that records failure.
RecordRun ==
  LET s == current[1] IN
  /\ current[2] \in {"sent", "failed"}
  /\ \/ /\ report' = [report EXCEPT ![s].date = "later"]
        /\ sent' = [sent EXCEPT ![s] = 0]
        /\ current' = <<None, "idle">>
        /\ UNCHANGED faults
     \/ Fault /\ current[2] = "sent" /\ current' = <<s, "failed">> /\ UNCHANGED <<report, sent>>
  /\ UNCHANGED <<site, running, queue, again>>

EndReports ==
  /\ running /\ queue = {} /\ current = <<None, "idle">>
  /\ running' = FALSE
  /\ UNCHANGED <<site, report, sent, queue, current, faults, again>>

-----------------------------------------------------------------------------
(* Time and faults *)

FallDue ==
  /\ \/ \E c \in Posts : post[c].date = "later" /\ post' = [post EXCEPT ![c].date = "due"]
                         /\ UNCHANGED <<campaign, report>>
     \/ \E k \in Campaigns : campaign[k].date = "later" /\ campaign' = [campaign EXCEPT ![k].date = "due"]
                             /\ UNCHANGED <<post, report>>
     \/ \E s \in Reports : report[s].date = "later" /\ report' = [report EXCEPT ![s].date = "due"]
                           /\ UNCHANGED <<post, campaign>>
  /\ UNCHANGED <<mails, procs, asked, sent, running, queue, current, faults, again>>

\* A query of a run or a call fails: the run's catch ends it, the call is refused.
Active    == {p \in Procs : pc[p] \notin {"idle", "done"}}
Cut(gone) == {item[p] : p \in {q \in gone : pc[q] \in {"mail", "mark"}}}
End(gone) ==
  /\ pc' = [p \in Procs |-> IF p \notin gone THEN pc[p] ELSE IF p \in Ticks THEN "idle" ELSE "done"]
  /\ todo' = [t \in Ticks |-> IF t \in gone THEN {} ELSE todo[t]]
  /\ item' = [p \in Procs |-> IF p \in gone THEN None ELSE item[p]]
  /\ left' = [p \in Procs |-> IF p \in gone THEN {} ELSE left[p]]

\* Mutant: a campaign is marked however its run ends.
FailMarked(p) ==
  /\ p \in Active /\ Fault
  /\ End({p})
  /\ again' = again \cup Cut({p})
  /\ campaign' = [k \in Campaigns |-> IF k \in Cut({p}) THEN [campaign[k] EXCEPT !.status = "SENT"]
                                     ELSE campaign[k]]
  /\ UNCHANGED <<post, mails, asked, jobs>>

Fail(p) ==
  /\ p \in Active /\ Fault
  /\ End({p})
  /\ again' = again \cup Cut({p})
  /\ UNCHANGED <<post, campaign, mails, asked, jobs>>

\* Mutant: the flag stays up where the loop is left.
FailFlagged ==
  /\ running /\ current[2] # "sent" /\ Fault
  /\ queue' = {} /\ current' = <<None, "left">>
  /\ again' = IF current[1] = None THEN again ELSE again \cup {current[1]}
  /\ UNCHANGED <<site, report, sent, running>>

\* The update that records a failure fails: the loop is left and the flag reset.
FailReports ==
  /\ running /\ current[2] # "sent" /\ Fault
  /\ running' = FALSE /\ queue' = {} /\ current' = <<None, "idle">>
  /\ again' = IF current[1] = None THEN again ELSE again \cup {current[1]}
  /\ UNCHANGED <<site, report, sent>>

\* The process restarts: every run and call is gone, and the flag is down.
Restart ==
  /\ Fault
  /\ End(Active)
  /\ running' = FALSE /\ queue' = {} /\ current' = <<None, "idle">>
  /\ again' = again \cup Cut(Active) \cup ({current[1]} \ {None})
  /\ UNCHANGED <<post, campaign, mails, asked, report, sent>>

Init ==
  /\ post = [c \in Posts |-> [status |-> "none", date |-> "none"]]
  /\ campaign = [k \in Campaigns |-> [status |-> "none", date |-> "none"]]
  /\ mailed = [k \in Campaigns |-> [u \in Subscribers |-> 0]]
  /\ refused = {}
  /\ pc = [p \in Procs |-> "idle"]
  /\ todo = [t \in Ticks |-> {}]
  /\ item = [p \in Procs |-> None]
  /\ left = [p \in Procs |-> {}]
  /\ report = [s \in Reports |-> [date |-> "none", live |-> FALSE]]
  /\ sent = [s \in Reports |-> 0]
  /\ running = FALSE /\ queue = {} /\ current = <<None, "idle">>
  /\ faults = 0 /\ again = {} /\ asked = {}

Staff ==
  \/ \E c \in Posts : CreatePost(c) \/ DeletePost(c)
  \/ \E k \in Campaigns : CreateCampaign(k)
  \/ \E s \in Reports : CreateReport(s) \/ RemoveReport(s)
  \/ \E r \in Requests : EditPost(r) \/ ApproveContent(r) \/ SendCampaign(r)
Run(t) == PublishDue(t) \/ NextCampaign(t)
Reporting == FindReports \/ RunReport \/ RecordRun \/ EndReports

Next ==
  \/ Staff \/ FallDue \/ Reporting \/ FailReports \/ Restart
  \/ \E t \in Ticks : Run(t)
  \/ \E p \in Procs : Mail(p) \/ MarkSent(p) \/ Fail(p)

Spec == Init /\ [][Next]_vars

\* The cron starts both jobs every minute, and what runs goes on.
FairSpec ==
  /\ Spec
  /\ \A t \in Ticks : WF_vars(Run(t))
  /\ \A p \in Procs : WF_vars(Mail(p) \/ MarkSent(p))
  /\ WF_vars(Reporting)
-----------------------------------------------------------------------------
(* Properties *)

\* The rows, and what each run and call holds, have the types the code gives them.
TypeOK ==
  /\ post \in [Posts -> [status: Statuses \cup {"none"}, date: Dates]]
  /\ campaign \in [Campaigns -> [status: {"none", "DRAFT", "SCHEDULED", "SENT"}, date: Dates]]
  /\ mailed \in [Campaigns -> [Subscribers -> Nat]]
  /\ refused \subseteq Campaigns \X Subscribers
  /\ pc \in [Procs -> {"idle", "next", "mail", "mark", "done"}]
  /\ todo \in [Ticks -> SUBSET Campaigns] /\ item \in [Procs -> Campaigns \cup {None}]
  /\ left \in [Procs -> SUBSET Subscribers]
  /\ report \in [Reports -> [date: Dates, live: BOOLEAN]] /\ sent \in [Reports -> Nat]
  /\ running \in BOOLEAN /\ queue \subseteq Reports
  /\ current \in (Reports \X {"sent", "failed"}) \cup {<<None, "idle">>}
  /\ ~running => queue = {} /\ current = <<None, "idle">>
  /\ faults \in 0 .. MaxFaults /\ again \subseteq Campaigns \cup Reports /\ asked \subseteq Posts

\* A subscriber gets a campaign twice only if a run or call was cut while it mailed it,
\* two mailed it at a time, or one took it up after it was sent: the rows a run listed
\* are not read again. A report is mailed twice for one due date only if it was cut.
MailedOnce ==
  /\ \A k \in Campaigns, u \in Subscribers : mailed[k][u] > 1 => k \in again
  /\ \A s \in Reports : sent[s] > 1 => s \in again

\* A campaign marked SENT was offered to the provider for each subscriber: it took the
\* mail or refused it. A run that was cut before its last mail marked nothing.
SentIsTried ==
  \A k \in Campaigns : campaign[k].status = "SENT" =>
    \A u \in Subscribers : mailed[k][u] > 0 \/ <<k, u>> \in refused

Owed(s)  == report[s] = [date |-> "due", live |-> TRUE]

\* What is due is seen to, across failed queries and restarts. A scheduled post goes out,
\* unless it is put off. A scheduled campaign comes to be marked SENT, and so was tried; it
\* says nothing of what the provider took. A report's date is used up, unless its schedule
\* is removed: it was mailed or refused, or its run failed and it waits for the next date.
DueIsTried ==
  /\ \A c \in Posts : Due(post[c]) ~> ~Due(post[c])
  /\ \A k \in Campaigns : Due(campaign[k]) ~> campaign[k].status = "SENT"
  /\ \A s \in Reports : Owed(s) ~> ~Owed(s)

\* web/src/app/diocese/cms/approval/page.tsx:36: "Parish priest approves or requests
\* changes." What he asked changes of does not go out before it is submitted again.
ChangesHold == \A c \in asked : post[c].status # "PUBLISHED"
===============================================================================
