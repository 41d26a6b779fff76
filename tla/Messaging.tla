------------------------------- MODULE Messaging -------------------------------
(***************************************************************************)
(* App notifications, parish messages and Mass reminders, and the minute   *)
(* tick that sends what is due:                                            *)
(*   apps/api/src/modules/app-control/app-notification.service.ts          *)
(*   apps/api/src/modules/app-control/notification-scheduler.service.ts    *)
(*   apps/api/src/modules/app-control/communication-delivery.service.ts    *)
(*   apps/api/src/modules/diocese/parish-ops.service.ts createCommunication*)
(*   apps/api/src/modules/mass-schedule/mass-schedule.service.ts           *)
(* A notification is claimed and then delivered; a message and a reminder  *)
(* are delivered and then marked.                                          *)
(***************************************************************************)
EXTENDS Naturals, FiniteSets

CONSTANTS
  Notifs, Messages, Masses,   \* AppNotification, CommunicationMessage, and one
                              \* occurrence of an entry of the Mass schedule
  Users,                      \* who a delivery goes to
  Requests,                   \* HTTP requests, each serving one call
  Cron,                       \* the scheduler's tick
  Take,                       \* how many due rows a tick takes (20 and 25)
  None,
  MaxFaults                   \* bound on failed deliveries and restarts

Items == Notifs \cup Messages \cup Masses
Procs == Requests \cup {Cron}

ASSUME DisjointAssumption ==
  /\ Notifs \cap Messages = {} /\ Notifs \cap Masses = {} /\ Messages \cap Masses = {}
  /\ Cron \notin Requests /\ None \notin Items
ASSUME BoundsAssumption == Take \in Nat \ {0} /\ MaxFaults \in Nat

VARIABLES
  status,     \* AppNotification.status, CommunicationMessage.status; of a Mass,
              \* "logged" once its reminder log is written
  due,        \* the items whose scheduledAt is null or has come; of a Mass, that it
              \* is 29 to 31 minutes away
  sent,       \* how often each user was sent each item
  inbox,      \* how many batches of AppNotificationDelivery rows were written
  pc,         \* what each request, and the tick, is about to do
  item,       \* the item being delivered
  left,       \* the recipients still to come
  reached,    \* whether a recipient was reached
  todo,       \* the rows the tick has still to go through
  faults,
  published,  \* history: how often a request began to publish a notification
  claimed,    \* history: how often a tick claimed it
  cut,        \* history: the items of which a fault cut a delivery short
  raced       \* history: the messages a tick found queued while a request sent them

locals  == <<pc, item, left, reached, todo>>
history == <<published, claimed, cut, raced>>
vars    == <<status, due, sent, inbox, locals, faults, history>>

Goto(p, stage) == pc' = [pc EXCEPT ![p] = stage]
Fault          == faults < MaxFaults /\ faults' = faults + 1

\* p begins to deliver i.
Begin(p, i) ==
  /\ Goto(p, "deliver")
  /\ item' = [item EXCEPT ![p] = i]
  /\ left' = [left EXCEPT ![p] = Users]
  /\ reached' = [reached EXCEPT ![p] = FALSE]

Idle == UNCHANGED <<item, left, reached>>

\* p is through with its item.
Leave(p) ==
  /\ item' = [item EXCEPT ![p] = None]
  /\ left' = [left EXCEPT ![p] = {}]
  /\ reached' = [reached EXCEPT ![p] = FALSE]

-----------------------------------------------------------------------------
(* What people ask for *)

\* POST /app-notifications
CreateNotification(r) ==
  /\ pc[r] = "idle"
  /\ \E n \in Notifs :
       /\ status[n] = "none"
       /\ \/ /\ \E s \in {"DRAFT", "SCHEDULED"} : status' = [status EXCEPT ![n] = s]
             /\ Goto(r, "done") /\ Idle
             /\ UNCHANGED published
          \/ /\ status' = [status EXCEPT ![n] = "SENT"]
             /\ Begin(r, n)
             /\ published' = [published EXCEPT ![n] = @ + 1]
  /\ UNCHANGED <<due, sent, inbox, todo, faults, claimed, cut, raced>>

\* The test of publish.
Accepts(n) == status[n] \in {"DRAFT", "SCHEDULED"}

\* POST /app-notifications/:id/publish
Publish(r) ==
  /\ pc[r] = "idle"
  /\ \E n \in Notifs :
       /\ status[n] # "none"
       /\ IF Accepts(n) THEN Begin(r, n) /\ published' = [published EXCEPT ![n] = @ + 1]
                        ELSE Goto(r, "failed") /\ Idle /\ UNCHANGED published
  /\ UNCHANGED <<status, due, sent, inbox, todo, faults, claimed, cut, raced>>

\* POST /communications; a message to send now is queued and due at once.
CreateCommunication(r) ==
  /\ pc[r] = "idle"
  /\ \E m \in Messages :
       /\ status[m] = "none"
       /\ \/ /\ \E s \in {"DRAFT", "QUEUED"} : status' = [status EXCEPT ![m] = s]
             /\ Goto(r, "done") /\ Idle
             /\ UNCHANGED due
          \/ /\ status' = [status EXCEPT ![m] = "QUEUED"]
             /\ due' = due \cup {m}
             /\ Begin(r, m)
  /\ UNCHANGED <<sent, inbox, todo, faults, history>>

-----------------------------------------------------------------------------
(* The tick.  It returns at once while another runs: Cron is not idle. *)

\* The rows a query takes, the first Take of those that are due.
Page(S) == IF Cardinality(S) <= Take THEN {S} ELSE {T \in SUBSET S : Cardinality(T) = Take}

ToNotifications(s) == \E T \in Page({n \in Notifs \cap due : s[n] = "SCHEDULED"}) : todo' = T

Tick ==
  /\ pc[Cron] = "idle"
  /\ ToNotifications(status)
  /\ Goto(Cron, "claim")
  /\ Idle
  /\ UNCHANGED <<status, due, sent, inbox, faults, history>>

\* Mutant: the row stays scheduled until it is delivered.
ClaimLate ==
  /\ pc[Cron] = "claim"
  /\ \E n \in todo :
       /\ todo' = todo \ {n}
       /\ IF status[n] = "SCHEDULED"
            THEN Begin(Cron, n) /\ claimed' = [claimed EXCEPT ![n] = @ + 1]
            ELSE UNCHANGED <<pc, claimed>> /\ Idle
  /\ UNCHANGED <<status, due, sent, inbox, faults, published, cut, raced>>

\* The conditional update that claims a notification.
Claim ==
  /\ pc[Cron] = "claim"
  /\ \E n \in todo :
       /\ todo' = todo \ {n}
       /\ IF status[n] = "SCHEDULED"
            THEN /\ status' = [status EXCEPT ![n] = "SENT"]
                 /\ Begin(Cron, n)
                 /\ claimed' = [claimed EXCEPT ![n] = @ + 1]
            ELSE UNCHANGED <<status, pc, claimed>> /\ Idle
  /\ UNCHANGED <<due, sent, inbox, faults, published, cut, raced>>

\* processQueuedParishComms reads the rows still queued.
Sending(m) == \E r \in Requests : pc[r] = "deliver" /\ item[r] = m

FindMessages ==
  /\ pc[Cron] = "claim" /\ todo = {}
  /\ \E T \in Page({m \in Messages \cap due : status[m] = "QUEUED"}) :
       /\ todo' = T
       /\ raced' = raced \cup {m \in T : Sending(m)}
  /\ Goto(Cron, "messages")
  /\ Idle
  /\ UNCHANGED <<status, due, sent, inbox, faults, published, claimed, cut>>

NextMessage ==
  /\ pc[Cron] = "messages"
  /\ \E m \in todo : todo' = todo \ {m} /\ Begin(Cron, m)
  /\ UNCHANGED <<status, due, sent, inbox, faults, history>>

\* processMassReminders goes through the Masses that are near as it starts.
FindMasses ==
  /\ pc[Cron] = "messages" /\ todo = {}
  /\ todo' = Masses \cap due
  /\ Goto(Cron, "masses")
  /\ Idle
  /\ UNCHANGED <<status, due, sent, inbox, faults, history>>

\* Mutant: the log is not looked up.
NextMassUnlogged ==
  /\ pc[Cron] = "masses"
  /\ \E k \in todo : todo' = todo \ {k} /\ Begin(Cron, k)
  /\ UNCHANGED <<status, due, sent, inbox, faults, history>>

NextMass ==
  /\ pc[Cron] = "masses"
  /\ \E k \in todo :
       /\ todo' = todo \ {k}
       /\ IF status[k] = "logged" THEN UNCHANGED pc /\ Idle ELSE Begin(Cron, k)
  /\ UNCHANGED <<status, due, sent, inbox, faults, history>>

EndTick ==
  /\ pc[Cron] = "masses" /\ todo = {}
  /\ Goto(Cron, "idle")
  /\ Idle
  /\ UNCHANGED <<status, due, sent, inbox, todo, faults, history>>

-----------------------------------------------------------------------------
(* A delivery, by a request or by the tick *)

\* The loop of the tick that an item belongs to.
Loop(i) == IF i \in Notifs THEN "claim" ELSE IF i \in Messages THEN "messages" ELSE "masses"

\* Mutant: who may not have got it is sent it again.
DeliverAgain(p) ==
  /\ pc[p] = "deliver"
  /\ \E u \in left[p] :
       /\ sent' = [sent EXCEPT ![item[p]][u] = @ + 1]
       /\ \/ left' = [left EXCEPT ![p] = @ \ {u}] /\ reached' = [reached EXCEPT ![p] = TRUE]
          \/ UNCHANGED <<left, reached>>
  /\ UNCHANGED <<status, due, inbox, pc, item, todo, faults, history>>

\* One recipient after the other; a send that fails is counted, not repeated.
Deliver(p) ==
  /\ pc[p] = "deliver"
  /\ \E u \in left[p] :
       /\ left' = [left EXCEPT ![p] = @ \ {u}]
       /\ \/ /\ sent' = [sent EXCEPT ![item[p]][u] = @ + 1]
             /\ reached' = [reached EXCEPT ![p] = TRUE]
          \/ UNCHANGED <<sent, reached>>
  /\ UNCHANGED <<status, due, inbox, pc, item, todo, faults, history>>

Delivered(p, S) == pc[p] = "deliver" /\ left[p] = {} /\ item[p] \in S

\* deliverChannels ends with the rows of the inbox.
WriteInbox(p) ==
  /\ Delivered(p, Notifs)
  /\ inbox' = [inbox EXCEPT ![item[p]] = @ + 1]
  /\ IF p = Cron THEN Goto(p, "claim") /\ Leave(p) ELSE Goto(p, "mark") /\ Idle
  /\ UNCHANGED <<status, due, sent, todo, faults, history>>

\* publishInternal
MarkSent(r) ==
  /\ pc[r] = "mark"
  /\ status' = [status EXCEPT ![item[r]] = "SENT"]
  /\ Goto(r, "done")
  /\ Leave(r)
  /\ UNCHANGED <<due, sent, inbox, todo, faults, history>>

\* Mutant: a message nobody received counts as sent.
OutcomeSent(p) == "SENT"

\* Mutant: the status is one of a delivery, not of a message.
OutcomePending(p) == IF reached[p] THEN "SENT" ELSE "PENDING"

\* Mutant: a message nobody received stays queued, to be tried again.
OutcomeQueued(p) == IF reached[p] THEN "SENT" ELSE "QUEUED"

Outcome(p) == IF reached[p] THEN "SENT" ELSE "FAILED"

\* createCommunication sets the status; the tick only if the row is still queued.
MarkMessage(p) ==
  /\ Delivered(p, Messages)
  /\ status' = IF p = Cron /\ status[item[p]] # "QUEUED" THEN status
               ELSE [status EXCEPT ![item[p]] = Outcome(p)]
  /\ Goto(p, IF p = Cron THEN "messages" ELSE "done")
  /\ Leave(p)
  /\ UNCHANGED <<due, sent, inbox, todo, faults, history>>

LogReminder(p) ==
  /\ Delivered(p, Masses)
  /\ status' = [status EXCEPT ![item[p]] = "logged"]
  /\ Goto(p, "masses")
  /\ Leave(p)
  /\ UNCHANGED <<due, sent, inbox, todo, faults, history>>

-----------------------------------------------------------------------------
(* Faults *)

\* The tick marks a message failed; a notification stays sent.
FailedStatus(i) == IF i \in Messages THEN [status EXCEPT ![i] = "FAILED"] ELSE status

\* A query of a delivery, or the update after it, fails.  The tick goes on to the next
\* item, and ends when it was a reminder; a request answers with the error.
Fail(p) ==
  /\ pc[p] \in {"deliver", "mark"}
  /\ Fault
  /\ status' = IF p = Cron THEN FailedStatus(item[p]) ELSE status
  /\ Goto(p, IF p # Cron THEN "failed" ELSE IF item[p] \in Masses THEN "idle" ELSE Loop(item[p]))
  /\ Leave(p)
  /\ cut' = cut \cup {item[p]}
  /\ UNCHANGED <<due, sent, inbox, todo, published, claimed, raced>>

\* A query of the tick itself fails, and ends it: the look-up of a claimed notification's
\* author and the update that marks a message failed stand outside the try.
AbortTick ==
  /\ \/ pc[Cron] \in {"claim", "messages", "masses"}
     \/ pc[Cron] = "deliver" /\ (item[Cron] \in Messages \/ (item[Cron] \in Notifs /\ left[Cron] = Users))
  /\ Fault
  /\ todo' = {}
  /\ Goto(Cron, "idle")
  /\ Leave(Cron)
  /\ cut' = cut \cup ({item[Cron]} \ {None})
  /\ UNCHANGED <<status, due, sent, inbox, published, claimed, raced>>

\* The API process restarts: running is false again, every call is lost.
Restart ==
  /\ Fault
  /\ pc' = [p \in Procs |-> IF p = Cron \/ pc[p] = "idle" THEN "idle"
                            ELSE IF pc[p] \in {"deliver", "mark"} THEN "failed" ELSE pc[p]]
  /\ todo' = {}
  /\ item' = [p \in Procs |-> None]
  /\ left' = [p \in Procs |-> {}]
  /\ reached' = [p \in Procs |-> FALSE]
  /\ cut' = cut \cup {item[p] : p \in {q \in Procs : pc[q] = "deliver"}}
  /\ UNCHANGED <<status, due, sent, inbox, published, claimed, raced>>

FallDue == /\ \E i \in Items : due' = due \cup {i}
           /\ UNCHANGED <<status, sent, inbox, locals, faults, history>>

\* A Mass comes closer than 29 minutes.
Pass    == /\ \E k \in Masses \cap due : due' = due \ {k}
           /\ UNCHANGED <<status, sent, inbox, locals, faults, history>>

Init ==
  /\ status = [i \in Items |-> "none"]
  /\ due = {}
  /\ sent = [i \in Items |-> [u \in Users |-> 0]]
  /\ inbox = [n \in Notifs |-> 0]
  /\ pc = [p \in Procs |-> "idle"]
  /\ item = [p \in Procs |-> None]
  /\ left = [p \in Procs |-> {}]
  /\ reached = [p \in Procs |-> FALSE]
  /\ todo = {} /\ faults = 0
  /\ published = [n \in Notifs |-> 0] /\ claimed = [n \in Notifs |-> 0]
  /\ cut = {} /\ raced = {}

Go(p) == Deliver(p) \/ WriteInbox(p) \/ MarkMessage(p) \/ LogReminder(p)

Ticking == Tick \/ Claim \/ FindMessages \/ NextMessage \/ FindMasses \/ NextMass \/ EndTick

Next ==
  \/ \E r \in Requests : CreateNotification(r) \/ Publish(r) \/ CreateCommunication(r) \/ MarkSent(r)
  \/ \E p \in Procs : Go(p) \/ Fail(p)
  \/ Ticking \/ AbortTick \/ Restart \/ FallDue \/ Pass

Spec == Init /\ [][Next]_vars

\* The timer fires, and what is under way goes on; nothing need be asked for, fall
\* due, fail or restart.
FairSpec ==
  /\ Spec
  /\ WF_vars(Ticking \/ Go(Cron))
  /\ \A r \in Requests : WF_vars(Go(r) \/ MarkSent(r))

-----------------------------------------------------------------------------
(* Properties *)

\* The tables, and what each process holds, have the types the code gives them.
TypeOK ==
  /\ \A n \in Notifs : status[n] \in {"none", "DRAFT", "SCHEDULED", "SENT"}
  /\ \A m \in Messages : status[m] \in {"none", "DRAFT", "QUEUED", "SENT", "FAILED"}
  /\ \A k \in Masses : status[k] \in {"none", "logged"}
  /\ due \subseteq Items /\ todo \subseteq Items /\ cut \subseteq Items /\ raced \subseteq Messages
  /\ sent \in [Items -> [Users -> Nat]]
  /\ inbox \in [Notifs -> Nat]
  /\ published \in [Notifs -> Nat] /\ claimed \in [Notifs -> Nat]
  /\ pc \in [Procs -> {"idle", "claim", "messages", "masses", "deliver", "mark", "done", "failed"}]
  /\ item \in [Procs -> Items \cup {None}] /\ left \in [Procs -> SUBSET Users]
  /\ reached \in [Procs -> BOOLEAN] /\ faults \in 0 .. MaxFaults

\* How often somebody, or the schedule, asked for n to be sent.
Asked(n) == published[n] + claimed[n]

\* processDueScheduled claims before it delivers: whatever fails or restarts, it sends a
\* notification once, and nobody gets it more often than people published it besides.
NotifiedOnce ==
  \A n \in Notifs :
    /\ claimed[n] <= 1
    /\ inbox[n] <= Asked(n)
    /\ \A u \in Users : sent[n][u] <= Asked(n)

Notice == INSTANCE NoticeBoard WITH
  Notices  <- Notifs,
  asked    <- [n \in Notifs |-> Asked(n)],
  received <- [n \in Notifs |-> sent[n]],
  posted   <- inbox

\* publish, the claim and deliverChannels together: a notification goes out only on a
\* request or a claim, of which each lets it go once to each recipient, whatever fails,
\* restarts or overlaps, and however statuses are written afterwards.
GoesOutAsAsked == Notice!Spec

\* A message or a reminder is delivered before it is marked: it is sent twice only if a
\* fault cut a delivery short, or the tick found it queued while a request sent it.
RepeatsExplained ==
  \A i \in Messages \cup Masses, u \in Users : sent[i][u] > 1 => i \in cut \cup raced

\* A message that stands as SENT reached somebody, whichever of two deliveries marked it.
SentReached ==
  \A m \in Messages : status[m] = "SENT" => \E u \in Users : sent[m][u] > 0

\* A notification that is due does not stay scheduled, nor a message queued.
DueLeaves ==
  \A i \in Notifs \cup Messages :
    i \in due /\ status[i] \in {"SCHEDULED", "QUEUED"} ~> status[i] \notin {"SCHEDULED", "QUEUED"}
===============================================================================
