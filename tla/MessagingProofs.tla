---------------------------- MODULE MessagingProofs ----------------------------
(***************************************************************************)
(* Proofs about Messaging, for any number of notifications, messages,      *)
(* Masses, users, requests and faults.  First what each action does to     *)
(* what a process has in hand, and the shape of the state; then, each by   *)
(* an invariant of its own: a message that stands as sent reached          *)
(* somebody; a notification goes out no more often than it was published   *)
(* and claimed, which refines NoticeBoard; a message sent twice has a      *)
(* cause.                                                                  *)
(***************************************************************************)
EXTENDS Messaging, FiniteSetTheorems, TLAPS

-----------------------------------------------------------------------------
(* What the tables and the processes look like *)

\* The statuses of the three tables, and the stages of a process.
Named  == {"none", "DRAFT", "SCHEDULED", "QUEUED", "SENT", "FAILED", "logged"}
Stages == {"idle", "claim", "messages", "masses", "deliver", "mark", "done", "failed"}

\* Every item has a status, and one of its own kind.
StatusOK ==
  /\ status \in [Items -> Named]
  /\ \A n \in Notifs : status[n] \in {"none", "DRAFT", "SCHEDULED", "SENT"}
  /\ \A m \in Messages : status[m] \in {"none", "DRAFT", "QUEUED", "SENT", "FAILED"}
  /\ \A k \in Masses : status[k] \in {"none", "logged"}

\* The sets of items and the counters.
CountsOK ==
  /\ due \subseteq Items /\ todo \subseteq Items /\ cut \subseteq Items /\ raced \subseteq Messages
  /\ inbox \in [Notifs -> Nat]
  /\ published \in [Notifs -> Nat] /\ claimed \in [Notifs -> Nat]
  /\ faults \in 0 .. MaxFaults

\* The counters of what was sent.
SentOK == sent \in [Items -> [Users -> Nat]]

\* What each process has in hand.
LocalsOK ==
  /\ pc \in [Procs -> Stages]
  /\ item \in [Procs -> Items \cup {None}]
  /\ left \in [Procs -> SUBSET Users]
  /\ reached \in [Procs -> BOOLEAN]

\* A request goes through no loop of the tick, and delivers no reminder; it marks a
\* notification, when nobody is left to deliver it to.
Calls ==
  \A r \in Requests :
    /\ pc[r] \in {"idle", "deliver", "mark", "done", "failed"}
    /\ item[r] \notin Masses
    /\ pc[r] = "mark" => item[r] \in Notifs /\ left[r] = {}

\* A process has an item exactly while it delivers or marks it.
Holds ==
  \A p \in Procs :
    /\ pc[p] \in {"deliver", "mark"} <=> item[p] # None
    /\ item[p] = None => left[p] = {} /\ ~ reached[p]

\* What the tick has still to go through is of the kind its loop is about.
Pages ==
  /\ pc[Cron] \in {"idle", "claim", "messages", "masses", "deliver"}
  /\ pc[Cron] = "claim" \/ item[Cron] \in Notifs => todo \subseteq Notifs
  /\ pc[Cron] = "messages" \/ item[Cron] \in Messages => todo \subseteq Messages
  /\ pc[Cron] \in {"idle", "masses"} \/ item[Cron] \in Masses => todo \subseteq Masses

\* All of it.
Shape == StatusOK /\ CountsOK /\ SentOK /\ LocalsOK /\ Calls /\ Holds /\ Pages

\* The shape is more than the types.
LEMMA ShapeTypes == Shape => TypeOK
  BY DEF Shape, StatusOK, CountsOK, SentOK, LocalsOK, Stages, TypeOK

\* A process at a stage where it delivers or marks nothing has nothing in hand.
LEMMA EmptyHanded ==
  ASSUME Shape, NEW p \in Procs, pc[p] \notin {"deliver", "mark"}
  PROVE  item[p] = None /\ left[p] = {} /\ ~ reached[p]
  BY DEF Shape, Holds

-----------------------------------------------------------------------------
(* What a step does to what the processes have in hand *)

\* p is at stage s with i in hand and the recipients l to come; nobody else moved.
Now(p, s, i, l) ==
  /\ LocalsOK'
  /\ \A q \in Procs : /\ pc'[q] = IF q = p THEN s ELSE pc[q]
                      /\ item'[q] = IF q = p THEN i ELSE item[q]
                      /\ left'[q] = IF q = p THEN l ELSE left[q]
                      /\ q # p => reached'[q] = reached[q]

\* p has begun to deliver i, and reached nobody yet.
Begun(p, i) == Now(p, "deliver", i, Users) /\ ~ reached'[p]

\* p has nothing in hand at stage s.
Free(p, s) == Now(p, s, None, {}) /\ ~ reached'[p]

\* A delivery begins with everybody to come.
LEMMA BeginLocals ==
  ASSUME LocalsOK, NEW p \in Procs, NEW i \in Items, Begin(p, i)
  PROVE  Begun(p, i)
<1> USE DEF LocalsOK, Begin, Goto
<1>1. /\ reached' \in [Procs -> BOOLEAN] /\ ~ reached'[p]
      /\ \A q \in Procs : q # p => reached'[q] = reached[q]
  OBVIOUS
<1>2. /\ pc' \in [Procs -> Stages] /\ item' \in [Procs -> Items \cup {None}]
      /\ left' \in [Procs -> SUBSET Users]
  BY DEF Stages
<1> QED
  BY <1>1, <1>2 DEF Begun, Now

\* A process that is through with its item has nothing in hand.
LEMMA LeaveLocals ==
  ASSUME LocalsOK, NEW p \in Procs, NEW s \in Stages, Goto(p, s), Leave(p)
  PROVE  Free(p, s)
<1> USE DEF LocalsOK, Leave, Goto
<1>1. /\ reached' \in [Procs -> BOOLEAN] /\ ~ reached'[p]
      /\ \A q \in Procs : q # p => reached'[q] = reached[q]
  OBVIOUS
<1>2. /\ pc' \in [Procs -> Stages] /\ item' \in [Procs -> Items \cup {None}]
      /\ left' \in [Procs -> SUBSET Users]
  OBVIOUS
<1> QED
  BY <1>1, <1>2 DEF Free, Now

\* A process that has nothing in hand, and takes nothing, has nothing afterwards.
LEMMA StayLocals ==
  ASSUME Shape, NEW p \in Procs, NEW s \in Stages, pc[p] \notin {"deliver", "mark"},
         Goto(p, s), Idle
  PROVE  Free(p, s)
<1>1. item[p] = None /\ left[p] = {} /\ ~ reached[p]
  BY EmptyHanded
<1> QED
  BY <1>1 DEF Shape, LocalsOK, Goto, Idle, Free, Now

\* create writes a draft, a scheduled notification or one it publishes.
LEMMA CreateNotificationDoes ==
  ASSUME Shape, NEW r \in Requests, CreateNotification(r)
  PROVE  \E n \in Notifs, s \in {"DRAFT", "SCHEDULED", "SENT"} :
           /\ status[n] = "none" /\ status' = [status EXCEPT ![n] = s] /\ item[r] = None
           /\ \/ Free(r, "done") /\ published' = published
              \/ /\ Begun(r, n) /\ s = "SENT"
                 /\ published' = [published EXCEPT ![n] = @ + 1]
           /\ UNCHANGED <<due, sent, inbox, todo, faults, claimed, cut, raced>>
  BY EmptyHanded, BeginLocals, StayLocals DEF CreateNotification, Shape, Procs, Items, Stages

\* publish delivers what it accepts, and leaves the status for later.
LEMMA PublishDoes ==
  ASSUME Shape, NEW r \in Requests, Publish(r)
  PROVE  \E n \in Notifs :
           /\ item[r] = None
           /\ \/ Free(r, "failed") /\ published' = published
              \/ Begun(r, n) /\ published' = [published EXCEPT ![n] = @ + 1]
           /\ UNCHANGED <<status, due, sent, inbox, todo, faults, claimed, cut, raced>>
  BY EmptyHanded, BeginLocals, StayLocals DEF Publish, Shape, Procs, Items, Stages

\* createCommunication writes a draft or a queued message, or queues one and sends it.
LEMMA CreateCommunicationDoes ==
  ASSUME Shape, NEW r \in Requests, CreateCommunication(r)
  PROVE  \E m \in Messages, s \in {"DRAFT", "QUEUED"} :
           /\ status[m] = "none" /\ status' = [status EXCEPT ![m] = s] /\ item[r] = None
           /\ \/ Free(r, "done") /\ due' = due
              \/ Begun(r, m) /\ s = "QUEUED" /\ due' = due \cup {m}
           /\ UNCHANGED <<sent, inbox, todo, faults, published, claimed, cut, raced>>
  BY EmptyHanded, BeginLocals, StayLocals
  DEF CreateCommunication, Shape, Procs, Items, Stages, history

\* publishInternal ends.
LEMMA MarkSentDoes ==
  ASSUME Shape, NEW r \in Requests, MarkSent(r)
  PROVE  /\ item[r] \in Notifs /\ status' = [status EXCEPT ![item[r]] = "SENT"]
         /\ Free(r, "done")
         /\ UNCHANGED <<due, sent, inbox, todo, faults, published, claimed, cut, raced>>
  BY LeaveLocals DEF MarkSent, Shape, Calls, Procs, Stages, history

\* A channel takes what it is sent, or does not.
LEMMA DeliverDoes ==
  ASSUME Shape, NEW p \in Procs, Deliver(p)
  PROVE  \E u \in Users :
           /\ u \in left[p] /\ item[p] \in Items /\ pc[p] = "deliver"
           /\ Now(p, "deliver", item[p], left[p] \ {u})
           /\ \/ /\ sent' = [sent EXCEPT ![item[p]][u] = @ + 1]
                 /\ reached'[p]
              \/ sent' = sent /\ reached' = reached
           /\ UNCHANGED <<status, due, inbox, pc, item, todo, faults, published, claimed,
                          cut, raced>>
<1>0. PICK u \in left[p] :
        /\ left' = [left EXCEPT ![p] = @ \ {u}]
        /\ \/ /\ sent' = [sent EXCEPT ![item[p]][u] = @ + 1]
              /\ reached' = [reached EXCEPT ![p] = TRUE]
           \/ UNCHANGED <<sent, reached>>
  BY DEF Deliver
<1>1. item[p] \in Items /\ u \in Users /\ sent[item[p]] \in [Users -> Nat] /\ pc[p] = "deliver"
  BY <1>0 DEF Deliver, Shape, Holds, LocalsOK, SentOK
<1>5. ASSUME reached' = [reached EXCEPT ![p] = TRUE] PROVE reached'[p]
  BY <1>5 DEF Shape, LocalsOK
<1>2. reached' \in [Procs -> BOOLEAN] /\ \A q \in Procs : q # p => reached'[q] = reached[q]
  BY <1>0 DEF Shape, LocalsOK
<1>3. Now(p, "deliver", item[p], left[p] \ {u})
  BY <1>0, <1>1, <1>2 DEF Deliver, Shape, LocalsOK, Now
<1>4. \/ sent' = [sent EXCEPT ![item[p]][u] = @ + 1] /\ reached'[p]
      \/ sent' = sent /\ reached' = reached
  BY <1>0, <1>5
<1> QED
  BY <1>0, <1>1, <1>3, <1>4 DEF Deliver, history

\* deliverChannels ends; the tick has claimed before, a request marks afterwards.
LEMMA WriteInboxDoes ==
  ASSUME Shape, NEW p \in Procs, WriteInbox(p)
  PROVE  /\ item[p] \in Notifs /\ left[p] = {} /\ pc[p] = "deliver"
         /\ inbox' = [inbox EXCEPT ![item[p]] = @ + 1]
         /\ IF p = Cron THEN Free(p, "claim")
            ELSE Now(p, "mark", item[p], {}) /\ reached' = reached
         /\ UNCHANGED <<status, due, sent, todo, faults, published, claimed, cut, raced>>
<1>1. item[p] \in Notifs /\ left[p] = {} /\ pc[p] = "deliver"
  BY DEF WriteInbox, Delivered
<1>2. CASE p = Cron
  <2>1. Goto(p, "claim") /\ Leave(p)
    BY <1>2 DEF WriteInbox
  <2>2. Free(p, "claim")
    BY <2>1, LeaveLocals DEF Shape, Stages
  <2> QED
    BY <1>1, <1>2, <2>2 DEF WriteInbox, history
<1>3. CASE p # Cron
  <2>1. Goto(p, "mark") /\ Idle
    BY <1>3 DEF WriteInbox
  <2>2. Now(p, "mark", item[p], {}) /\ reached' = reached
    BY <1>1, <2>1 DEF Goto, Idle, Shape, LocalsOK, Now, Stages
  <2> QED
    BY <1>1, <1>3, <2>2 DEF WriteInbox, history
<1> QED
  BY <1>2, <1>3

\* A message is marked after its delivery, by the tick only if it is still queued.
LEMMA MarkMessageDoes ==
  ASSUME Shape, NEW p \in Procs, MarkMessage(p)
  PROVE  /\ item[p] \in Messages
         /\ \/ p = Cron /\ status[item[p]] # "QUEUED" /\ status' = status
            \/ status' = [status EXCEPT ![item[p]] = Outcome(p)]
         /\ IF p = Cron THEN Free(p, "messages") ELSE Free(p, "done")
         /\ UNCHANGED <<due, sent, inbox, todo, faults, published, claimed, cut, raced>>
<1>1. item[p] \in Messages
  BY DEF MarkMessage, Delivered
<1>2. CASE p = Cron
  <2>1. Goto(p, "messages") /\ Leave(p)
    BY <1>2 DEF MarkMessage
  <2>2. Free(p, "messages")
    BY <2>1, LeaveLocals DEF Shape, Stages
  <2> QED
    BY <1>1, <1>2, <2>2 DEF MarkMessage, history
<1>3. CASE p # Cron
  <2>1. Goto(p, "done") /\ Leave(p)
    BY <1>3 DEF MarkMessage
  <2>2. Free(p, "done")
    BY <2>1, LeaveLocals DEF Shape, Stages
  <2> QED
    BY <1>1, <1>3, <2>2 DEF MarkMessage, history
<1> QED
  BY <1>2, <1>3

\* A reminder is logged after its delivery, by the tick.
LEMMA LogReminderDoes ==
  ASSUME Shape, NEW p \in Procs, LogReminder(p)
  PROVE  /\ p = Cron /\ item[p] \in Masses /\ status' = [status EXCEPT ![item[p]] = "logged"]
         /\ Free(p, "masses")
         /\ UNCHANGED <<due, sent, inbox, todo, faults, published, claimed, cut, raced>>
<1>1. p = Cron /\ item[p] \in Masses
  BY DEF LogReminder, Delivered, Shape, Calls, Procs
<1>2. Free(p, "masses")
  BY LeaveLocals DEF LogReminder, Shape, Stages
<1> QED
  BY <1>1, <1>2 DEF LogReminder, history

\* A delivery is cut short; the tick goes back to its loop.
LEMMA FailDoes ==
  ASSUME Shape, NEW p \in Procs, Fail(p)
  PROVE  \E s \in {"failed", "idle", "claim", "messages"} :
           /\ Free(p, s) /\ item[p] \in Items /\ (p = Cron => pc[p] = "deliver")
           /\ p # Cron <=> s = "failed"
           /\ p = Cron /\ item[p] \in Masses <=> s = "idle"
           /\ p = Cron /\ item[p] \in Notifs <=> s = "claim"
           /\ p = Cron /\ item[p] \in Messages <=> s = "messages"
           /\ status' = IF p = Cron /\ item[p] \in Messages
                        THEN [status EXCEPT ![item[p]] = "FAILED"] ELSE status
           /\ cut' = cut \cup {item[p]} /\ faults' \in 0 .. MaxFaults
           /\ UNCHANGED <<due, sent, inbox, todo, published, claimed, raced>>
<1>1. item[p] \in Items /\ (p = Cron => pc[p] = "deliver")
  BY DEF Fail, Shape, Holds, Pages, LocalsOK
<1>2. PICK s \in {"failed", "idle", "claim", "messages"} :
        /\ Goto(p, s)
        /\ p # Cron <=> s = "failed"
        /\ p = Cron /\ item[p] \in Masses <=> s = "idle"
        /\ p = Cron /\ item[p] \in Notifs <=> s = "claim"
        /\ p = Cron /\ item[p] \in Messages <=> s = "messages"
  BY <1>1, DisjointAssumption DEF Fail, Loop, Items
<1>3. Free(p, s)
  BY <1>2, LeaveLocals DEF Fail, Shape, Stages
<1>4. faults' \in 0 .. MaxFaults
  BY BoundsAssumption DEF Fail, Fault, Shape, CountsOK
<1>5. status' = IF p = Cron /\ item[p] \in Messages
                THEN [status EXCEPT ![item[p]] = "FAILED"] ELSE status
  BY DEF Fail, FailedStatus
<1> QED
  BY <1>1, <1>2, <1>3, <1>4, <1>5 DEF Fail

\* A tick reads the notifications that are due.
LEMMA TickDoes ==
  ASSUME Shape, Tick
  PROVE  /\ Free(Cron, "claim") /\ todo' \subseteq Notifs /\ item[Cron] = None
         /\ UNCHANGED <<status, due, sent, inbox, faults, published, claimed, cut, raced>>
<1>1. Free(Cron, "claim") /\ item[Cron] = None
  BY StayLocals, EmptyHanded DEF Tick, Procs, Stages
<1> QED
  BY <1>1 DEF Tick, ToNotifications, Page, history

\* The tick claims a notification that is still scheduled, or goes past it.
LEMMA ClaimDoes ==
  ASSUME Shape, Claim
  PROVE  \E n \in Notifs :
           /\ n \in todo /\ todo' = todo \ {n} /\ item[Cron] = None /\ pc[Cron] = "claim"
           /\ \/ /\ status[n] = "SCHEDULED" /\ status' = [status EXCEPT ![n] = "SENT"]
                 /\ Begun(Cron, n) /\ claimed' = [claimed EXCEPT ![n] = @ + 1]
              \/ status' = status /\ claimed' = claimed /\ Free(Cron, "claim")
           /\ UNCHANGED <<due, sent, inbox, faults, published, cut, raced>>
<1>1. PICK n \in Notifs :
        /\ n \in todo /\ todo' = todo \ {n}
        /\ \/ /\ status[n] = "SCHEDULED" /\ status' = [status EXCEPT ![n] = "SENT"]
              /\ Begin(Cron, n) /\ claimed' = [claimed EXCEPT ![n] = @ + 1]
           \/ UNCHANGED <<status, pc, claimed>> /\ Idle
  BY DEF Claim, Shape, Pages
<1>2. item[Cron] = None /\ left[Cron] = {} /\ ~ reached[Cron]
  BY EmptyHanded DEF Claim, Procs
<1>3. ASSUME UNCHANGED pc, Idle PROVE Free(Cron, "claim")
  BY <1>2, <1>3 DEF Claim, Idle, Free, Now, Shape, LocalsOK
<1>4. ASSUME Begin(Cron, n) PROVE Begun(Cron, n)
  BY <1>4, BeginLocals DEF Shape, Procs, Items
<1> QED
  BY <1>1, <1>2, <1>3, <1>4 DEF Claim, history

\* The tick reads the messages that are queued and due; those a request is sending are
\* raced.
LEMMA FindMessagesDoes ==
  ASSUME Shape, FindMessages
  PROVE  /\ Free(Cron, "messages") /\ item[Cron] = None
         /\ todo' \subseteq {m \in Messages : status[m] = "QUEUED"}
         /\ raced' = raced \cup
              {m \in todo' : \E r \in Requests : pc[r] = "deliver" /\ item[r] = m}
         /\ UNCHANGED <<status, due, sent, inbox, faults, published, claimed, cut>>
<1>1. Free(Cron, "messages") /\ item[Cron] = None
  BY StayLocals, EmptyHanded DEF FindMessages, Procs, Stages
<1>2. PICK T \in Page({m \in Messages \cap due : status[m] = "QUEUED"}) :
        todo' = T /\ raced' = raced \cup {m \in T : Sending(m)}
  BY DEF FindMessages
<1>3. T \subseteq {m \in Messages \cap due : status[m] = "QUEUED"}
  BY DEF Page
<1> QED
  BY <1>1, <1>2, <1>3 DEF FindMessages, Sending

\* The tick sends the next message it found.
LEMMA NextMessageDoes ==
  ASSUME Shape, NextMessage
  PROVE  \E m \in Messages :
           /\ m \in todo /\ todo' = todo \ {m} /\ Begun(Cron, m)
           /\ item[Cron] = None /\ pc[Cron] = "messages"
           /\ UNCHANGED <<status, due, sent, inbox, faults, published, claimed, cut, raced>>
<1>1. PICK m \in Messages : m \in todo /\ todo' = todo \ {m} /\ Begin(Cron, m)
  BY DEF NextMessage, Shape, Pages
<1>2. Begun(Cron, m) /\ item[Cron] = None
  BY <1>1, BeginLocals, EmptyHanded DEF NextMessage, Shape, Procs, Items
<1> QED
  BY <1>1, <1>2 DEF NextMessage, history

\* The tick looks for the Masses that are near.
LEMMA FindMassesDoes ==
  ASSUME Shape, FindMasses
  PROVE  /\ Free(Cron, "masses") /\ todo' \subseteq Masses /\ item[Cron] = None
         /\ UNCHANGED <<status, due, sent, inbox, faults, published, claimed, cut, raced>>
<1>1. Free(Cron, "masses") /\ item[Cron] = None
  BY StayLocals, EmptyHanded DEF FindMasses, Procs, Stages
<1> QED
  BY <1>1 DEF FindMasses, history

\* The tick reminds of the next Mass unless it has a log.
LEMMA NextMassDoes ==
  ASSUME Shape, NextMass
  PROVE  \E k \in Masses :
           /\ k \in todo /\ todo' = todo \ {k} /\ item[Cron] = None /\ pc[Cron] = "masses"
           /\ \/ Free(Cron, "masses")
              \/ status[k] # "logged" /\ Begun(Cron, k)
           /\ UNCHANGED <<status, due, sent, inbox, faults, published, claimed, cut, raced>>
<1>1. PICK k \in Masses : /\ k \in todo /\ todo' = todo \ {k}
                          /\ \/ UNCHANGED pc /\ Idle
                             \/ status[k] # "logged" /\ Begin(Cron, k)
  BY DEF NextMass, Shape, Pages
<1>2. item[Cron] = None /\ left[Cron] = {} /\ ~ reached[Cron]
  BY EmptyHanded DEF NextMass, Procs
<1>3. ASSUME UNCHANGED pc, Idle PROVE Free(Cron, "masses")
  BY <1>2, <1>3 DEF NextMass, Idle, Free, Now, Shape, LocalsOK
<1>4. ASSUME Begin(Cron, k) PROVE Begun(Cron, k)
  BY <1>4, BeginLocals DEF Shape, Procs, Items
<1> QED
  BY <1>1, <1>2, <1>3, <1>4 DEF NextMass, history

\* The tick is through.
LEMMA EndTickDoes ==
  ASSUME Shape, EndTick
  PROVE  /\ Free(Cron, "idle") /\ todo' = todo /\ todo = {} /\ item[Cron] = None
         /\ UNCHANGED <<status, due, sent, inbox, faults, published, claimed, cut, raced>>
<1>1. Free(Cron, "idle") /\ item[Cron] = None
  BY StayLocals, EmptyHanded DEF EndTick, Procs, Stages
<1> QED
  BY <1>1 DEF EndTick, history

\* A query of the tick fails and ends it.
LEMMA AbortTickDoes ==
  ASSUME Shape, AbortTick
  PROVE  /\ Free(Cron, "idle") /\ todo' = {} /\ faults' \in 0 .. MaxFaults
         /\ cut' = cut \cup ({item[Cron]} \ {None})
         /\ UNCHANGED <<status, due, sent, inbox, published, claimed, raced>>
<1>1. Free(Cron, "idle")
  BY LeaveLocals DEF AbortTick, Shape, Procs, Stages
<1>2. faults' \in 0 .. MaxFaults
  BY BoundsAssumption DEF AbortTick, Fault, Shape, CountsOK
<1> QED
  BY <1>1, <1>2 DEF AbortTick

\* A restart loses every call, and what each had in hand.
LEMMA RestartDoes ==
  ASSUME Shape, Restart
  PROVE  /\ LocalsOK' /\ todo' = {} /\ faults' \in 0 .. MaxFaults
         /\ \A p \in Procs : /\ pc'[p] = IF p = Cron \/ pc[p] = "idle" THEN "idle"
                                         ELSE IF pc[p] \in {"deliver", "mark"} THEN "failed"
                                         ELSE pc[p]
                             /\ item'[p] = None /\ left'[p] = {} /\ ~ reached'[p]
         /\ cut \subseteq cut' /\ cut' \subseteq Items
         /\ \A p \in Procs : pc[p] = "deliver" => item[p] \in cut'
         /\ UNCHANGED <<status, due, sent, inbox, published, claimed, raced>>
<1>1. LocalsOK'
  BY DEF Restart, Shape, LocalsOK, Stages
<1>2. faults' \in 0 .. MaxFaults
  BY BoundsAssumption DEF Restart, Fault, Shape, CountsOK
<1>3. \A p \in Procs : pc[p] = "deliver" => item[p] \in Items
  BY DEF Shape, Holds, LocalsOK
<1>4. /\ cut \subseteq cut' /\ cut' \subseteq Items
      /\ \A p \in Procs : pc[p] = "deliver" => item[p] \in cut'
  BY <1>3 DEF Restart, Shape, CountsOK
<1> QED
  BY <1>1, <1>2, <1>4 DEF Restart

-----------------------------------------------------------------------------
(* The shape is kept *)
\* The clock moves on.
LEMMA FallDueDoes ==
  ASSUME Shape, FallDue
  PROVE  /\ LocalsOK' /\ due' \subseteq Items
         /\ UNCHANGED <<status, sent, inbox, pc, item, left, reached, todo, faults,
                        published, claimed, cut, raced>>
  BY DEF FallDue, Shape, LocalsOK, CountsOK, locals, history

\* A Mass is no longer near.
LEMMA PassDoes ==
  ASSUME Shape, Pass
  PROVE  /\ LocalsOK' /\ due' \subseteq Items
         /\ UNCHANGED <<status, sent, inbox, pc, item, left, reached, todo, faults,
                        published, claimed, cut, raced>>
  BY DEF Pass, Shape, LocalsOK, CountsOK, locals, history

\* The tables and what is in hand keep their shape when a notification is created.
LEMMA CreateNotificationShape ==
  ASSUME Shape, NEW r \in Requests, CreateNotification(r)
  PROVE Shape'
<1> USE CreateNotificationDoes, DisjointAssumption DEF Shape, Items, Procs, Free, Begun, Now
<1>1. StatusOK'
  BY DEF StatusOK, Named
<1>2. CountsOK'
  BY DEF CountsOK
<1>3. SentOK'
  BY DEF SentOK
<1>4. LocalsOK'
  OBVIOUS
<1>5. Calls'
  BY DEF Calls, Holds, LocalsOK
<1>6. Holds'
  BY DEF Holds, Calls, LocalsOK
<1>7. Pages'
  BY DEF Pages, Calls, LocalsOK, CountsOK
<1> QED
  BY <1>1, <1>2, <1>3, <1>4, <1>5, <1>6, <1>7

\* The tables and what is in hand keep their shape when somebody publishes a notification.
LEMMA PublishShape == ASSUME Shape, NEW r \in Requests, Publish(r) PROVE Shape'
<1> USE PublishDoes, DisjointAssumption DEF Shape, Items, Procs, Free, Begun, Now
<1>1. StatusOK'
  BY DEF StatusOK, Named
<1>2. CountsOK'
  BY DEF CountsOK
<1>3. SentOK'
  BY DEF SentOK
<1>4. LocalsOK'
  OBVIOUS
<1>5. Calls'
  BY DEF Calls, Holds, LocalsOK
<1>6. Holds'
  BY DEF Holds, Calls, LocalsOK
<1>7. Pages'
  BY DEF Pages, Calls, LocalsOK, CountsOK
<1> QED
  BY <1>1, <1>2, <1>3, <1>4, <1>5, <1>6, <1>7

\* The tables and what is in hand keep their shape when a message is created.
LEMMA CreateCommunicationShape ==
  ASSUME Shape, NEW r \in Requests, CreateCommunication(r)
  PROVE Shape'
<1> USE CreateCommunicationDoes, DisjointAssumption DEF Shape, Items, Procs, Free, Begun, Now
<1>1. StatusOK'
  BY DEF StatusOK, Named
<1>2. CountsOK'
  BY DEF CountsOK
<1>3. SentOK'
  BY DEF SentOK
<1>4. LocalsOK'
  OBVIOUS
<1>5. Calls'
  BY DEF Calls, Holds, LocalsOK
<1>6. Holds'
  BY DEF Holds, Calls, LocalsOK
<1>7. Pages'
  BY DEF Pages, Calls, LocalsOK, CountsOK
<1> QED
  BY <1>1, <1>2, <1>3, <1>4, <1>5, <1>6, <1>7

\* The tables and what is in hand keep their shape when a request marks its notification sent.
LEMMA MarkSentShape == ASSUME Shape, NEW r \in Requests, MarkSent(r) PROVE Shape'
<1> USE MarkSentDoes, DisjointAssumption DEF Shape, Items, Procs, Free, Begun, Now
<1>1. StatusOK'
  BY DEF StatusOK, Named
<1>2. CountsOK'
  BY DEF CountsOK
<1>3. SentOK'
  BY DEF SentOK
<1>4. LocalsOK'
  OBVIOUS
<1>5. Calls'
  BY DEF Calls, Holds, LocalsOK
<1>6. Holds'
  BY DEF Holds, Calls, LocalsOK
<1>7. Pages'
  BY DEF Pages, Calls, LocalsOK, CountsOK
<1> QED
  BY <1>1, <1>2, <1>3, <1>4, <1>5, <1>6, <1>7

\* The tables and what is in hand keep their shape when a recipient is sent it.
LEMMA DeliverShape == ASSUME Shape, NEW p \in Procs, Deliver(p) PROVE Shape'
<1> USE DisjointAssumption DEF Shape, Items, Procs, Free, Begun, Now
<1>0. PICK u \in Users :
        /\ u \in left[p] /\ item[p] \in Items /\ pc[p] = "deliver"
        /\ Now(p, "deliver", item[p], left[p] \ {u})
        /\ \/ sent' = [sent EXCEPT ![item[p]][u] = @ + 1] /\ reached'[p]
           \/ sent' = sent /\ reached' = reached
        /\ UNCHANGED <<status, due, inbox, pc, item, todo, faults, published, claimed, cut, raced>>
  BY DeliverDoes
<1>1. StatusOK'
  BY <1>0 DEF StatusOK
<1>2. CountsOK'
  BY <1>0 DEF CountsOK
<1>3. SentOK'
  <2>1. sent[item[p]] \in [Users -> Nat]
    BY <1>0 DEF SentOK
  <2> QED
    BY <1>0, <2>1 DEF SentOK
<1>4. LocalsOK'
  BY <1>0
<1>5. Calls'
  BY <1>0 DEF Calls, Holds, LocalsOK
<1>6. Holds'
  BY <1>0 DEF Holds, Calls, LocalsOK
<1>7. Pages'
  BY <1>0 DEF Pages, Calls, LocalsOK, CountsOK
<1> QED
  BY <1>1, <1>2, <1>3, <1>4, <1>5, <1>6, <1>7

\* The tables and what is in hand keep their shape when the rows of the inbox are written.
LEMMA WriteInboxShape == ASSUME Shape, NEW p \in Procs, WriteInbox(p) PROVE Shape'
<1> USE WriteInboxDoes, DisjointAssumption DEF Shape, Items, Procs, Free, Begun, Now
<1>1. StatusOK'
  BY DEF StatusOK, Named
<1>2. CountsOK'
  BY DEF CountsOK
<1>3. SentOK'
  BY DEF SentOK
<1>4. LocalsOK'
  OBVIOUS
<1>5. Calls'
  BY DEF Calls, Holds, LocalsOK
<1>6. Holds'
  BY DEF Holds, Calls, LocalsOK
<1>7. Pages'
  BY DEF Pages, Calls, LocalsOK, CountsOK
<1> QED
  BY <1>1, <1>2, <1>3, <1>4, <1>5, <1>6, <1>7

\* The tables and what is in hand keep their shape when a message is marked after its delivery.
LEMMA MarkMessageShape == ASSUME Shape, NEW p \in Procs, MarkMessage(p) PROVE Shape'
<1> USE MarkMessageDoes, DisjointAssumption DEF Shape, Items, Procs, Free, Begun, Now
<1>1. StatusOK'
  BY DEF StatusOK, Named, Outcome
<1>2. CountsOK'
  BY DEF CountsOK
<1>3. SentOK'
  BY DEF SentOK
<1>4. LocalsOK'
  OBVIOUS
<1>5. Calls'
  BY DEF Calls, Holds, LocalsOK
<1>6. Holds'
  BY DEF Holds, Calls, LocalsOK
<1>7. Pages'
  BY DEF Pages, Calls, LocalsOK, CountsOK
<1> QED
  BY <1>1, <1>2, <1>3, <1>4, <1>5, <1>6, <1>7

\* The tables and what is in hand keep their shape when a reminder is logged.
LEMMA LogReminderShape == ASSUME Shape, NEW p \in Procs, LogReminder(p) PROVE Shape'
<1> USE LogReminderDoes, DisjointAssumption DEF Shape, Items, Procs, Free, Begun, Now
<1>1. StatusOK'
  BY DEF StatusOK, Named
<1>2. CountsOK'
  BY DEF CountsOK
<1>3. SentOK'
  BY DEF SentOK
<1>4. LocalsOK'
  OBVIOUS
<1>5. Calls'
  BY DEF Calls, Holds, LocalsOK
<1>6. Holds'
  BY DEF Holds, Calls, LocalsOK
<1>7. Pages'
  BY DEF Pages, Calls, LocalsOK, CountsOK
<1> QED
  BY <1>1, <1>2, <1>3, <1>4, <1>5, <1>6, <1>7

\* The tables and what is in hand keep their shape when a delivery is cut short.
LEMMA FailShape == ASSUME Shape, NEW p \in Procs, Fail(p) PROVE Shape'
<1> USE FailDoes, DisjointAssumption DEF Shape, Items, Procs, Free, Begun, Now
<1>1. StatusOK'
  BY DEF StatusOK, Named
<1>2. CountsOK'
  BY DEF CountsOK
<1>3. SentOK'
  BY DEF SentOK
<1>4. LocalsOK'
  OBVIOUS
<1>5. Calls'
  BY DEF Calls, Holds, LocalsOK
<1>6. Holds'
  BY DEF Holds, Calls, LocalsOK
<1>7. Pages'
  BY DEF Pages, Calls, LocalsOK, CountsOK
<1> QED
  BY <1>1, <1>2, <1>3, <1>4, <1>5, <1>6, <1>7

\* The tables and what is in hand keep their shape when the tick begins.
LEMMA TickShape == ASSUME Shape, Tick PROVE Shape'
<1> USE TickDoes, DisjointAssumption DEF Shape, Items, Procs, Free, Begun, Now
<1>1. StatusOK'
  BY DEF StatusOK, Named
<1>2. CountsOK'
  BY DEF CountsOK
<1>3. SentOK'
  BY DEF SentOK
<1>4. LocalsOK'
  OBVIOUS
<1>5. Calls'
  BY DEF Calls, Holds, LocalsOK
<1>6. Holds'
  BY DEF Holds, Calls, LocalsOK
<1>7. Pages'
  BY DEF Pages, Calls, LocalsOK, CountsOK
<1> QED
  BY <1>1, <1>2, <1>3, <1>4, <1>5, <1>6, <1>7

\* The tables and what is in hand keep their shape when the tick claims.
LEMMA ClaimShape == ASSUME Shape, Claim PROVE Shape'
<1> USE ClaimDoes, DisjointAssumption DEF Shape, Items, Procs, Free, Begun, Now
<1>1. StatusOK'
  BY DEF StatusOK, Named
<1>2. CountsOK'
  BY DEF CountsOK
<1>3. SentOK'
  BY DEF SentOK
<1>4. LocalsOK'
  OBVIOUS
<1>5. Calls'
  BY DEF Calls, Holds, LocalsOK
<1>6. Holds'
  BY DEF Holds, Calls, LocalsOK
<1>7. Pages'
  BY DEF Pages, Calls, LocalsOK, CountsOK
<1> QED
  BY <1>1, <1>2, <1>3, <1>4, <1>5, <1>6, <1>7

\* The tables and what is in hand keep their shape when the tick reads the queued messages.
LEMMA FindMessagesShape == ASSUME Shape, FindMessages PROVE Shape'
<1> USE FindMessagesDoes, DisjointAssumption DEF Shape, Items, Procs, Free, Begun, Now
<1>1. StatusOK'
  BY DEF StatusOK, Named
<1>2. CountsOK'
  BY DEF CountsOK
<1>3. SentOK'
  BY DEF SentOK
<1>4. LocalsOK'
  OBVIOUS
<1>5. Calls'
  BY DEF Calls, Holds, LocalsOK
<1>6. Holds'
  BY DEF Holds, Calls, LocalsOK
<1>7. Pages'
  BY DEF Pages, Calls, LocalsOK, CountsOK
<1> QED
  BY <1>1, <1>2, <1>3, <1>4, <1>5, <1>6, <1>7

\* The tables and what is in hand keep their shape when the tick takes the next message.
LEMMA NextMessageShape == ASSUME Shape, NextMessage PROVE Shape'
<1> USE NextMessageDoes, DisjointAssumption DEF Shape, Items, Procs, Free, Begun, Now
<1>1. StatusOK'
  BY DEF StatusOK, Named
<1>2. CountsOK'
  BY DEF CountsOK
<1>3. SentOK'
  BY DEF SentOK
<1>4. LocalsOK'
  OBVIOUS
<1>5. Calls'
  BY DEF Calls, Holds, LocalsOK
<1>6. Holds'
  BY DEF Holds, Calls, LocalsOK
<1>7. Pages'
  BY DEF Pages, Calls, LocalsOK, CountsOK
<1> QED
  BY <1>1, <1>2, <1>3, <1>4, <1>5, <1>6, <1>7

\* The tables and what is in hand keep their shape when the tick reads the Masses that are near.
LEMMA FindMassesShape == ASSUME Shape, FindMasses PROVE Shape'
<1> USE FindMassesDoes, DisjointAssumption DEF Shape, Items, Procs, Free, Begun, Now
<1>1. StatusOK'
  BY DEF StatusOK, Named
<1>2. CountsOK'
  BY DEF CountsOK
<1>3. SentOK'
  BY DEF SentOK
<1>4. LocalsOK'
  OBVIOUS
<1>5. Calls'
  BY DEF Calls, Holds, LocalsOK
<1>6. Holds'
  BY DEF Holds, Calls, LocalsOK
<1>7. Pages'
  BY DEF Pages, Calls, LocalsOK, CountsOK
<1> QED
  BY <1>1, <1>2, <1>3, <1>4, <1>5, <1>6, <1>7

\* The tables and what is in hand keep their shape when the tick takes the next Mass.
LEMMA NextMassShape == ASSUME Shape, NextMass PROVE Shape'
<1> USE NextMassDoes, DisjointAssumption DEF Shape, Items, Procs, Free, Begun, Now
<1>1. StatusOK'
  BY DEF StatusOK, Named
<1>2. CountsOK'
  BY DEF CountsOK
<1>3. SentOK'
  BY DEF SentOK
<1>4. LocalsOK'
  OBVIOUS
<1>5. Calls'
  BY DEF Calls, Holds, LocalsOK
<1>6. Holds'
  BY DEF Holds, Calls, LocalsOK
<1>7. Pages'
  BY DEF Pages, Calls, LocalsOK, CountsOK
<1> QED
  BY <1>1, <1>2, <1>3, <1>4, <1>5, <1>6, <1>7

\* The tables and what is in hand keep their shape when the tick ends.
LEMMA EndTickShape == ASSUME Shape, EndTick PROVE Shape'
<1> USE EndTickDoes, DisjointAssumption DEF Shape, Items, Procs, Free, Begun, Now
<1>1. StatusOK'
  BY DEF StatusOK, Named
<1>2. CountsOK'
  BY DEF CountsOK
<1>3. SentOK'
  BY DEF SentOK
<1>4. LocalsOK'
  OBVIOUS
<1>5. Calls'
  BY DEF Calls, Holds, LocalsOK
<1>6. Holds'
  BY DEF Holds, Calls, LocalsOK
<1>7. Pages'
  BY DEF Pages, Calls, LocalsOK, CountsOK
<1> QED
  BY <1>1, <1>2, <1>3, <1>4, <1>5, <1>6, <1>7

\* The tables and what is in hand keep their shape when a query of the tick fails.
LEMMA AbortTickShape == ASSUME Shape, AbortTick PROVE Shape'
<1> USE AbortTickDoes, DisjointAssumption DEF Shape, Items, Procs, Free, Begun, Now
<1>1. StatusOK'
  BY DEF StatusOK, Named
<1>2. CountsOK'
  BY DEF CountsOK, LocalsOK
<1>3. SentOK'
  BY DEF SentOK
<1>4. LocalsOK'
  OBVIOUS
<1>5. Calls'
  BY DEF Calls, Holds, LocalsOK
<1>6. Holds'
  BY DEF Holds, Calls, LocalsOK
<1>7. Pages'
  BY DEF Pages, Calls, LocalsOK, CountsOK
<1> QED
  BY <1>1, <1>2, <1>3, <1>4, <1>5, <1>6, <1>7

\* The tables and what is in hand keep their shape when the process restarts.
LEMMA RestartShape == ASSUME Shape, Restart PROVE Shape'
<1> USE RestartDoes, DisjointAssumption DEF Shape, Items, Procs, Free, Begun, Now
<1>1. StatusOK'
  BY DEF StatusOK, Named
<1>2. CountsOK'
  BY DEF CountsOK
<1>3. SentOK'
  BY DEF SentOK
<1>4. LocalsOK'
  OBVIOUS
<1>5. Calls'
  BY DEF Calls, Holds, LocalsOK
<1>6. Holds'
  BY DEF Holds, Calls, LocalsOK
<1>7. Pages'
  BY DEF Pages, Calls, LocalsOK, CountsOK
<1> QED
  BY <1>1, <1>2, <1>3, <1>4, <1>5, <1>6, <1>7

\* The tables and what is in hand keep their shape when an item falls due.
LEMMA FallDueShape == ASSUME Shape, FallDue PROVE Shape'
<1> USE FallDueDoes, DisjointAssumption DEF Shape, Items, Procs, Free, Begun, Now
<1>1. StatusOK'
  BY DEF StatusOK, Named
<1>2. CountsOK'
  BY DEF CountsOK
<1>3. SentOK'
  BY DEF SentOK
<1>4. LocalsOK'
  OBVIOUS
<1>5. Calls'
  BY DEF Calls, Holds, LocalsOK
<1>6. Holds'
  BY DEF Holds, Calls, LocalsOK
<1>7. Pages'
  BY DEF Pages, Calls, LocalsOK, CountsOK
<1> QED
  BY <1>1, <1>2, <1>3, <1>4, <1>5, <1>6, <1>7

\* The tables and what is in hand keep their shape when a Mass comes too close.
LEMMA PassShape == ASSUME Shape, Pass PROVE Shape'
<1> USE PassDoes, DisjointAssumption DEF Shape, Items, Procs, Free, Begun, Now
<1>1. StatusOK'
  BY DEF StatusOK, Named
<1>2. CountsOK'
  BY DEF CountsOK
<1>3. SentOK'
  BY DEF SentOK
<1>4. LocalsOK'
  OBVIOUS
<1>5. Calls'
  BY DEF Calls, Holds, LocalsOK
<1>6. Holds'
  BY DEF Holds, Calls, LocalsOK
<1>7. Pages'
  BY DEF Pages, Calls, LocalsOK, CountsOK
<1> QED
  BY <1>1, <1>2, <1>3, <1>4, <1>5, <1>6, <1>7

\* At first nothing is written, and nobody has anything in hand.
LEMMA InitShape == Init => Shape
<1> SUFFICES ASSUME Init PROVE Shape
  OBVIOUS
<1> USE DEF Init, Items, Procs
<1>1. StatusOK
  BY DEF StatusOK, Named
<1>2. CountsOK /\ SentOK
  BY BoundsAssumption DEF CountsOK, SentOK
<1>3. LocalsOK
  BY DEF LocalsOK, Stages
<1>4. Calls /\ Holds /\ Pages
  BY DisjointAssumption DEF Calls, Holds, Pages
<1> QED
  BY <1>1, <1>2, <1>3, <1>4 DEF Shape

\* Every step keeps the shape.
LEMMA NextShape == Shape /\ [Next]_vars => Shape'
<1> SUFFICES ASSUME Shape, [Next]_vars PROVE Shape'
  OBVIOUS
<1>1. CASE UNCHANGED vars
  BY <1>1
  DEF Shape, StatusOK, CountsOK, SentOK, LocalsOK, Calls, Holds, Pages, vars, locals, history
<1>2. ASSUME NEW r \in Requests,
             CreateNotification(r) \/ Publish(r) \/ CreateCommunication(r) \/ MarkSent(r)
      PROVE  Shape'
  BY <1>2, CreateNotificationShape, PublishShape, CreateCommunicationShape, MarkSentShape
<1>3. ASSUME NEW p \in Procs, Go(p) \/ Fail(p) PROVE Shape'
  BY <1>3, DeliverShape, WriteInboxShape, MarkMessageShape, LogReminderShape, FailShape DEF Go
<1>4. CASE Ticking
  BY <1>4, TickShape, ClaimShape, FindMessagesShape, NextMessageShape, FindMassesShape,
     NextMassShape, EndTickShape DEF Ticking
<1>5. CASE AbortTick \/ Restart \/ FallDue \/ Pass
  BY <1>5, AbortTickShape, RestartShape, FallDueShape, PassShape
<1> QED
  BY <1>1, <1>2, <1>3, <1>4, <1>5 DEF Next

\* The tables, the counters and what each process has in hand fit together, in every
\* state: the invariant the others rest on.
THEOREM ShapeHolds == Spec => []Shape
  BY InitShape, NextShape, PTL DEF Spec

\* Whatever is asked for, fails or restarts, the tables and what each process holds
\* have the types the code gives them.
THEOREM TypeCorrect == Spec => []TypeOK
  BY ShapeHolds, ShapeTypes, PTL

-----------------------------------------------------------------------------
(* A message that stands as sent reached somebody *)

\* Somebody was sent i.
Got(i) == \E u \in Users : sent[i][u] > 0

\* Got holds for what is marked as sent, and for what a process knows it reached.
Reach ==
  /\ \A m \in Messages : status[m] = "SENT" => Got(m)
  /\ \A p \in Procs, i \in Items : reached[p] /\ item[p] = i => Got(i)

\* A step that sends nothing, and tells no process or message that somebody was reached.
LEMMA ReachKept ==
  ASSUME Reach, sent' = sent,
         \A p \in Procs : reached'[p] => reached[p] /\ item'[p] = item[p],
         \A m \in Messages : status'[m] = "SENT" => Got(m)
  PROVE  Reach'
  BY DEF Reach, Got

\* What counts as reached was, when a notification is created.
LEMMA CreateNotificationReach ==
  ASSUME Shape, Reach, NEW r \in Requests, CreateNotification(r)
  PROVE Reach'
<1> USE CreateNotificationDoes, DisjointAssumption
<1>1. sent' = sent
  OBVIOUS
<1>2. \A q \in Procs : reached'[q] => reached[q] /\ item'[q] = item[q]
  BY DEF Free, Begun, Now, Procs
<1>3. \A m \in Messages : status'[m] = "SENT" => Got(m)
  BY DEF Reach, Shape, StatusOK, Items
<1> QED
  BY <1>1, <1>2, <1>3, ReachKept

\* What counts as reached was, when somebody publishes a notification.
LEMMA PublishReach == ASSUME Shape, Reach, NEW r \in Requests, Publish(r) PROVE Reach'
<1> USE PublishDoes, DisjointAssumption
<1>1. sent' = sent
  OBVIOUS
<1>2. \A q \in Procs : reached'[q] => reached[q] /\ item'[q] = item[q]
  BY DEF Free, Begun, Now, Procs
<1>3. \A m \in Messages : status'[m] = "SENT" => Got(m)
  BY DEF Reach, Shape, StatusOK, Items
<1> QED
  BY <1>1, <1>2, <1>3, ReachKept

\* What counts as reached was, when a message is created.
LEMMA CreateCommunicationReach ==
  ASSUME Shape, Reach, NEW r \in Requests, CreateCommunication(r)
  PROVE Reach'
<1> USE CreateCommunicationDoes, DisjointAssumption
<1>1. sent' = sent
  OBVIOUS
<1>2. \A q \in Procs : reached'[q] => reached[q] /\ item'[q] = item[q]
  BY DEF Free, Begun, Now, Procs
<1>3. \A m \in Messages : status'[m] = "SENT" => Got(m)
  BY DEF Reach, Shape, StatusOK, Items
<1> QED
  BY <1>1, <1>2, <1>3, ReachKept

\* What counts as reached was, when a request marks its notification sent.
LEMMA MarkSentReach ==
  ASSUME Shape, Reach, NEW r \in Requests, MarkSent(r)
  PROVE Reach'
<1> USE MarkSentDoes, DisjointAssumption
<1>1. sent' = sent
  OBVIOUS
<1>2. \A q \in Procs : reached'[q] => reached[q] /\ item'[q] = item[q]
  BY DEF Free, Begun, Now, Procs
<1>3. \A m \in Messages : status'[m] = "SENT" => Got(m)
  BY DEF Reach, Shape, StatusOK, Items
<1> QED
  BY <1>1, <1>2, <1>3, ReachKept

\* What counts as reached was, when a recipient is sent it.
LEMMA DeliverReach == ASSUME Shape, Reach, NEW p \in Procs, Deliver(p) PROVE Reach'
<1>1. PICK u \in Users :
        /\ u \in left[p] /\ item[p] \in Items
        /\ Now(p, "deliver", item[p], left[p] \ {u})
        /\ \/ sent' = [sent EXCEPT ![item[p]][u] = @ + 1] /\ reached'[p]
           \/ sent' = sent /\ reached' = reached
        /\ UNCHANGED <<status, item>>
  BY DeliverDoes
<1>2. CASE sent' = sent /\ reached' = reached
  BY <1>1, <1>2, ReachKept DEF Reach
<1>3. CASE sent' = [sent EXCEPT ![item[p]][u] = @ + 1] /\ reached'[p]
  <2>1. sent[item[p]] \in [Users -> Nat]
    BY <1>1 DEF Shape, SentOK
  <2>2. \A i \in Items, w \in Users :
          sent'[i][w] = IF i = item[p] /\ w = u THEN sent[i][w] + 1 ELSE sent[i][w]
    BY <1>1, <1>3, <2>1 DEF Shape, SentOK
  <2>3. sent'[item[p]][u] > 0
    BY <1>1, <2>1, <2>2
  <2>4. \A i \in Items : Got(i) => Got(i)'
    BY <2>2 DEF Got, Shape, SentOK
  <2>5. Got(item[p])'
    BY <1>1, <2>3 DEF Got
  <2>6. \A q \in Procs, i \in Items : reached'[q] /\ item'[q] = i => Got(i)'
    BY <1>1, <2>4, <2>5 DEF Reach, Now
  <2>7. \A m \in Messages : status'[m] = "SENT" => Got(m)'
    BY <1>1, <2>4 DEF Reach, Items
  <2> QED
    BY <2>6, <2>7 DEF Reach
<1> QED
  BY <1>1, <1>2, <1>3

\* What counts as reached was, when the rows of the inbox are written.
LEMMA WriteInboxReach ==
  ASSUME Shape, Reach, NEW p \in Procs, WriteInbox(p)
  PROVE Reach'
<1> USE WriteInboxDoes, DisjointAssumption
<1>1. sent' = sent
  OBVIOUS
<1>2. \A q \in Procs : reached'[q] => reached[q] /\ item'[q] = item[q]
  BY DEF Free, Begun, Now, Procs
<1>3. \A m \in Messages : status'[m] = "SENT" => Got(m)
  BY DEF Reach, Shape, StatusOK, Items
<1> QED
  BY <1>1, <1>2, <1>3, ReachKept

\* What counts as reached was, when a message is marked after its delivery.
LEMMA MarkMessageReach ==
  ASSUME Shape, Reach, NEW p \in Procs, MarkMessage(p)
  PROVE Reach'
<1>1. sent' = sent
  BY MarkMessageDoes
<1>2. \A q \in Procs : reached'[q] => reached[q] /\ item'[q] = item[q]
  BY MarkMessageDoes DEF Free, Now
<1>3. ASSUME NEW m \in Messages, status'[m] = "SENT" PROVE Got(m)
  BY <1>3, MarkMessageDoes DEF Outcome, Reach, Shape, StatusOK, Items
<1> QED
  BY <1>1, <1>2, <1>3, ReachKept

\* What counts as reached was, when a reminder is logged.
LEMMA LogReminderReach ==
  ASSUME Shape, Reach, NEW p \in Procs, LogReminder(p)
  PROVE Reach'
<1> USE LogReminderDoes, DisjointAssumption
<1>1. sent' = sent
  OBVIOUS
<1>2. \A q \in Procs : reached'[q] => reached[q] /\ item'[q] = item[q]
  BY DEF Free, Begun, Now, Procs
<1>3. \A m \in Messages : status'[m] = "SENT" => Got(m)
  BY DEF Reach, Shape, StatusOK, Items
<1> QED
  BY <1>1, <1>2, <1>3, ReachKept

\* What counts as reached was, when a delivery is cut short.
LEMMA FailReach == ASSUME Shape, Reach, NEW p \in Procs, Fail(p) PROVE Reach'
<1> USE FailDoes, DisjointAssumption
<1>1. sent' = sent
  OBVIOUS
<1>2. \A q \in Procs : reached'[q] => reached[q] /\ item'[q] = item[q]
  BY DEF Free, Begun, Now, Procs
<1>3. \A m \in Messages : status'[m] = "SENT" => Got(m)
  BY DEF Reach, Shape, StatusOK, Items
<1> QED
  BY <1>1, <1>2, <1>3, ReachKept

\* What counts as reached was, when the tick begins.
LEMMA TickReach == ASSUME Shape, Reach, Tick PROVE Reach'
<1> USE TickDoes, DisjointAssumption
<1>1. sent' = sent
  OBVIOUS
<1>2. \A q \in Procs : reached'[q] => reached[q] /\ item'[q] = item[q]
  BY DEF Free, Begun, Now, Procs
<1>3. \A m \in Messages : status'[m] = "SENT" => Got(m)
  BY DEF Reach, Shape, StatusOK, Items
<1> QED
  BY <1>1, <1>2, <1>3, ReachKept

\* What counts as reached was, when the tick claims.
LEMMA ClaimReach == ASSUME Shape, Reach, Claim PROVE Reach'
<1> USE ClaimDoes, DisjointAssumption
<1>1. sent' = sent
  OBVIOUS
<1>2. \A q \in Procs : reached'[q] => reached[q] /\ item'[q] = item[q]
  BY DEF Free, Begun, Now, Procs
<1>3. \A m \in Messages : status'[m] = "SENT" => Got(m)
  BY DEF Reach, Shape, StatusOK, Items
<1> QED
  BY <1>1, <1>2, <1>3, ReachKept

\* What counts as reached was, when the tick reads the queued messages.
LEMMA FindMessagesReach == ASSUME Shape, Reach, FindMessages PROVE Reach'
<1> USE FindMessagesDoes, DisjointAssumption
<1>1. sent' = sent
  OBVIOUS
<1>2. \A q \in Procs : reached'[q] => reached[q] /\ item'[q] = item[q]
  BY DEF Free, Begun, Now, Procs
<1>3. \A m \in Messages : status'[m] = "SENT" => Got(m)
  BY DEF Reach, Shape, StatusOK, Items
<1> QED
  BY <1>1, <1>2, <1>3, ReachKept

\* What counts as reached was, when the tick takes the next message.
LEMMA NextMessageReach == ASSUME Shape, Reach, NextMessage PROVE Reach'
<1> USE NextMessageDoes, DisjointAssumption
<1>1. sent' = sent
  OBVIOUS
<1>2. \A q \in Procs : reached'[q] => reached[q] /\ item'[q] = item[q]
  BY DEF Free, Begun, Now, Procs
<1>3. \A m \in Messages : status'[m] = "SENT" => Got(m)
  BY DEF Reach, Shape, StatusOK, Items
<1> QED
  BY <1>1, <1>2, <1>3, ReachKept

\* What counts as reached was, when the tick reads the Masses that are near.
LEMMA FindMassesReach == ASSUME Shape, Reach, FindMasses PROVE Reach'
<1> USE FindMassesDoes, DisjointAssumption
<1>1. sent' = sent
  OBVIOUS
<1>2. \A q \in Procs : reached'[q] => reached[q] /\ item'[q] = item[q]
  BY DEF Free, Begun, Now, Procs
<1>3. \A m \in Messages : status'[m] = "SENT" => Got(m)
  BY DEF Reach, Shape, StatusOK, Items
<1> QED
  BY <1>1, <1>2, <1>3, ReachKept

\* What counts as reached was, when the tick takes the next Mass.
LEMMA NextMassReach == ASSUME Shape, Reach, NextMass PROVE Reach'
<1> USE NextMassDoes, DisjointAssumption
<1>1. sent' = sent
  OBVIOUS
<1>2. \A q \in Procs : reached'[q] => reached[q] /\ item'[q] = item[q]
  BY DEF Free, Begun, Now, Procs
<1>3. \A m \in Messages : status'[m] = "SENT" => Got(m)
  BY DEF Reach, Shape, StatusOK, Items
<1> QED
  BY <1>1, <1>2, <1>3, ReachKept

\* What counts as reached was, when the tick ends.
LEMMA EndTickReach == ASSUME Shape, Reach, EndTick PROVE Reach'
<1> USE EndTickDoes, DisjointAssumption
<1>1. sent' = sent
  OBVIOUS
<1>2. \A q \in Procs : reached'[q] => reached[q] /\ item'[q] = item[q]
  BY DEF Free, Begun, Now, Procs
<1>3. \A m \in Messages : status'[m] = "SENT" => Got(m)
  BY DEF Reach, Shape, StatusOK, Items
<1> QED
  BY <1>1, <1>2, <1>3, ReachKept

\* What counts as reached was, when a query of the tick fails.
LEMMA AbortTickReach == ASSUME Shape, Reach, AbortTick PROVE Reach'
<1> USE AbortTickDoes, DisjointAssumption
<1>1. sent' = sent
  OBVIOUS
<1>2. \A q \in Procs : reached'[q] => reached[q] /\ item'[q] = item[q]
  BY DEF Free, Begun, Now, Procs
<1>3. \A m \in Messages : status'[m] = "SENT" => Got(m)
  BY DEF Reach, Shape, StatusOK, Items
<1> QED
  BY <1>1, <1>2, <1>3, ReachKept

\* What counts as reached was, when the process restarts.
LEMMA RestartReach == ASSUME Shape, Reach, Restart PROVE Reach'
<1> USE RestartDoes, DisjointAssumption
<1>1. sent' = sent
  OBVIOUS
<1>2. \A q \in Procs : reached'[q] => reached[q] /\ item'[q] = item[q]
  BY DEF Free, Begun, Now, Procs
<1>3. \A m \in Messages : status'[m] = "SENT" => Got(m)
  BY DEF Reach, Shape, StatusOK, Items
<1> QED
  BY <1>1, <1>2, <1>3, ReachKept

\* What counts as reached was, when an item falls due.
LEMMA FallDueReach == ASSUME Shape, Reach, FallDue PROVE Reach'
<1> USE FallDueDoes, DisjointAssumption
<1>1. sent' = sent
  OBVIOUS
<1>2. \A q \in Procs : reached'[q] => reached[q] /\ item'[q] = item[q]
  BY DEF Free, Begun, Now, Procs
<1>3. \A m \in Messages : status'[m] = "SENT" => Got(m)
  BY DEF Reach, Shape, StatusOK, Items
<1> QED
  BY <1>1, <1>2, <1>3, ReachKept

\* What counts as reached was, when a Mass comes too close.
LEMMA PassReach == ASSUME Shape, Reach, Pass PROVE Reach'
<1> USE PassDoes, DisjointAssumption
<1>1. sent' = sent
  OBVIOUS
<1>2. \A q \in Procs : reached'[q] => reached[q] /\ item'[q] = item[q]
  BY DEF Free, Begun, Now, Procs
<1>3. \A m \in Messages : status'[m] = "SENT" => Got(m)
  BY DEF Reach, Shape, StatusOK, Items
<1> QED
  BY <1>1, <1>2, <1>3, ReachKept

\* At first nothing stands as sent.
LEMMA InitReach == Init => Reach
  BY DEF Init, Reach, Items

\* Every step keeps it true that what counts as reached was.
LEMMA NextReach == Shape /\ Reach /\ [Next]_vars => Reach'
<1> SUFFICES ASSUME Shape, Reach, [Next]_vars PROVE Reach'
  OBVIOUS
<1>1. CASE UNCHANGED vars
  BY <1>1 DEF Reach, Got, vars, locals
<1>2. ASSUME NEW r \in Requests,
             CreateNotification(r) \/ Publish(r) \/ CreateCommunication(r) \/ MarkSent(r)
      PROVE  Reach'
  BY <1>2, CreateNotificationReach, PublishReach, CreateCommunicationReach, MarkSentReach
<1>3. ASSUME NEW p \in Procs, Go(p) \/ Fail(p) PROVE Reach'
  BY <1>3, DeliverReach, WriteInboxReach, MarkMessageReach, LogReminderReach, FailReach DEF Go
<1>4. CASE Ticking
  BY <1>4, TickReach, ClaimReach, FindMessagesReach, NextMessageReach, FindMassesReach,
     NextMassReach, EndTickReach DEF Ticking
<1>5. CASE AbortTick \/ Restart \/ FallDue \/ Pass
  BY <1>5, AbortTickReach, RestartReach, FallDueReach, PassReach
<1> QED
  BY <1>1, <1>2, <1>3, <1>4, <1>5 DEF Next

\* A message that stands as SENT reached somebody, whichever of two deliveries marked
\* it: reached is local to one delivery, but nothing takes a send back.
THEOREM SentMeansReached == Spec => []SentReached
<1>1. Reach => SentReached
  BY DEF Reach, Got, SentReached
<1> QED
  BY InitReach, NextReach, ShapeHolds, <1>1, PTL DEF Spec

-----------------------------------------------------------------------------
(* How often a notification is sent *)

\* The processes that have still to send n to u, and those that have still to write its
\* batch of the inbox.
Waiting(it, lf, n, u) == {p \in Procs : it[p] = n /\ u \in lf[p]}
Batches(pcs, it, n)   == {p \in Procs : pcs[p] = "deliver" /\ it[p] = n}

\* What was done and what is under way was asked for.
Paid(done, W, ask) == IsFiniteSet(W) /\ done + Cardinality(W) <= ask

\* A claimed notification stands as sent, so that no tick claims it again.
Claims == \A n \in Notifs : claimed[n] = 0 \/ (claimed[n] = 1 /\ status[n] = "SENT")

\* For the rows of the inbox, and for every user.
Budget ==
  /\ Claims
  /\ \A n \in Notifs :
       /\ Paid(inbox[n], Batches(pc, item, n), published[n] + claimed[n])
       /\ \A u \in Users : Paid(sent[n][u], Waiting(item, left, n, u), published[n] + claimed[n])

\* The steps that keep a budget: nothing new; somebody or the schedule asks, and x begins;
\* x does what it had to.
Spends(done, done2, W, W2, ask, ask2, x) ==
  \/ done2 = done /\ W2 \subseteq W /\ ask2 = ask
  \/ done2 = done /\ W2 \subseteq W \cup {x} /\ ask2 = ask + 1
  \/ done2 \in {done, done + 1} /\ x \in W /\ W2 \subseteq W \ {x} /\ ask2 = ask

\* How the cardinality of a finite set moves when it shrinks, or gains or loses x.
LEMMA FewerOrMore ==
  ASSUME NEW W, IsFiniteSet(W), NEW W2, NEW x
  PROVE  /\ Cardinality(W) \in Nat
         /\ W2 \subseteq W =>
              IsFiniteSet(W2) /\ Cardinality(W2) \in Nat /\ Cardinality(W2) <= Cardinality(W)
         /\ W2 \subseteq W \cup {x} =>
              IsFiniteSet(W2) /\ Cardinality(W2) \in Nat /\ Cardinality(W2) <= Cardinality(W) + 1
         /\ x \in W /\ W2 \subseteq W \ {x} =>
              IsFiniteSet(W2) /\ Cardinality(W2) \in Nat /\ Cardinality(W2) + 1 <= Cardinality(W)
<1>1. Cardinality(W) \in Nat
  BY FS_CardinalityType
<1>2. ASSUME NEW S, IsFiniteSet(S), W2 \subseteq S
      PROVE  IsFiniteSet(W2) /\ Cardinality(W2) \in Nat /\ Cardinality(W2) <= Cardinality(S)
  BY <1>2, FS_Subset, FS_CardinalityType
<1>3. IsFiniteSet(W \cup {x}) /\ Cardinality(W \cup {x}) <= Cardinality(W) + 1
      /\ Cardinality(W \cup {x}) \in Nat
  <2>1. /\ IsFiniteSet(W \cup {x})
        /\ Cardinality(W \cup {x}) = IF x \in W THEN Cardinality(W) ELSE Cardinality(W) + 1
    BY FS_AddElement
  <2> QED
    BY <1>1, <2>1
<1>4. ASSUME x \in W
      PROVE  IsFiniteSet(W \ {x}) /\ Cardinality(W \ {x}) = Cardinality(W) - 1
             /\ Cardinality(W \ {x}) \in Nat
  <2>1. /\ IsFiniteSet(W \ {x})
        /\ Cardinality(W \ {x}) = IF x \in W THEN Cardinality(W) - 1 ELSE Cardinality(W)
    BY FS_RemoveElement
  <2>2. Cardinality(W \ {x}) \in Nat
    BY <2>1, FS_CardinalityType
  <2> QED
    BY <1>4, <2>1, <2>2
<1>5. W2 \subseteq W =>
        IsFiniteSet(W2) /\ Cardinality(W2) \in Nat /\ Cardinality(W2) <= Cardinality(W)
  BY <1>2
<1>6. W2 \subseteq W \cup {x} =>
        IsFiniteSet(W2) /\ Cardinality(W2) \in Nat /\ Cardinality(W2) <= Cardinality(W) + 1
  <2> SUFFICES ASSUME W2 \subseteq W \cup {x}
               PROVE  /\ IsFiniteSet(W2) /\ Cardinality(W2) \in Nat
                      /\ Cardinality(W2) <= Cardinality(W) + 1
    OBVIOUS
  <2>1. IsFiniteSet(W2) /\ Cardinality(W2) \in Nat /\ Cardinality(W2) <= Cardinality(W \cup {x})
    BY <1>2, <1>3
  <2> QED
    BY <1>1, <1>3, <2>1
<1>7. x \in W /\ W2 \subseteq W \ {x} =>
        IsFiniteSet(W2) /\ Cardinality(W2) \in Nat /\ Cardinality(W2) + 1 <= Cardinality(W)
  <2> SUFFICES ASSUME x \in W, W2 \subseteq W \ {x}
               PROVE  /\ IsFiniteSet(W2) /\ Cardinality(W2) \in Nat
                      /\ Cardinality(W2) + 1 <= Cardinality(W)
    OBVIOUS
  <2>1. IsFiniteSet(W2) /\ Cardinality(W2) \in Nat /\ Cardinality(W2) <= Cardinality(W \ {x})
    BY <1>2, <1>4
  <2> QED
    BY <1>1, <1>4, <2>1
<1> QED
  BY <1>1, <1>5, <1>6, <1>7

\* A step that spends as Spends allows leaves what is done and to come paid for.
LEMMA PaidStill ==
  ASSUME NEW done \in Nat, NEW done2, NEW W, NEW W2, NEW ask \in Nat, NEW ask2, NEW x,
         Paid(done, W, ask), Spends(done, done2, W, W2, ask, ask2, x)
  PROVE  Paid(done2, W2, ask2)
<1>1. IsFiniteSet(W) /\ done + Cardinality(W) <= ask
  BY DEF Paid
<1>2. PICK c \in Nat : c = Cardinality(W)
  BY <1>1, FewerOrMore
<1>3. PICK d : d = Cardinality(W2)
  OBVIOUS
<1>4. /\ W2 \subseteq W => IsFiniteSet(W2) /\ d \in Nat /\ d <= c
      /\ W2 \subseteq W \cup {x} => IsFiniteSet(W2) /\ d \in Nat /\ d <= c + 1
      /\ x \in W /\ W2 \subseteq W \ {x} => IsFiniteSet(W2) /\ d \in Nat /\ d + 1 <= c
  BY <1>1, <1>2, <1>3, FewerOrMore
<1>5. IsFiniteSet(W2) /\ done2 + d <= ask2
  BY <1>1, <1>2, <1>4 DEF Spends
<1> QED
  BY <1>3, <1>5 DEF Paid

\* Every notification, and every user, in a step of p.
LEMMA BudgetKept ==
  ASSUME Shape, Budget, Claims', NEW p,
         \A n \in Notifs :
           /\ Spends(inbox[n], inbox'[n], Batches(pc, item, n), Batches(pc', item', n),
                     published[n] + claimed[n], published'[n] + claimed'[n], p)
           /\ \A u \in Users :
                Spends(sent[n][u], sent'[n][u],
                       Waiting(item, left, n, u), Waiting(item', left', n, u),
                       published[n] + claimed[n], published'[n] + claimed'[n], p)
  PROVE  Budget'
<1> SUFFICES ASSUME NEW n \in Notifs
             PROVE  /\ Paid(inbox'[n], Batches(pc', item', n), published'[n] + claimed'[n])
                    /\ \A u \in Users :
                         Paid(sent'[n][u], Waiting(item', left', n, u), published'[n] + claimed'[n])
  BY DEF Budget
<1>1. /\ inbox[n] \in Nat /\ published[n] + claimed[n] \in Nat
      /\ \A u \in Users : sent[n][u] \in Nat
  BY DEF Shape, CountsOK, SentOK, Items
<1>2. Paid(inbox'[n], Batches(pc', item', n), published'[n] + claimed'[n])
  BY <1>1, PaidStill DEF Budget
<1>3. ASSUME NEW u \in Users
      PROVE  Paid(sent'[n][u], Waiting(item', left', n, u), published'[n] + claimed'[n])
  BY <1>1, PaidStill DEF Budget
<1> QED
  BY <1>2, <1>3

\* A step that sends and publishes nothing, and begins no delivery, keeps the budget.
LEMMA QuietBudget ==
  ASSUME Shape, Budget, UNCHANGED <<sent, inbox, published, claimed>>,
         \A n \in Notifs : status[n] = "SENT" => status'[n] = "SENT",
         \A p \in Procs, n \in Notifs :
           item'[p] = n => /\ item[p] = n /\ left'[p] \subseteq left[p]
                           /\ pc'[p] = "deliver" => pc[p] = "deliver"
  PROVE  Budget'
<1>1. \A n \in Notifs : Batches(pc', item', n) \subseteq Batches(pc, item, n)
  BY DEF Batches
<1>2. \A n \in Notifs, u \in Users : Waiting(item', left', n, u) \subseteq Waiting(item, left, n, u)
  BY DEF Waiting
<1>3. \A n \in Notifs :
        /\ Spends(inbox[n], inbox'[n], Batches(pc, item, n), Batches(pc', item', n),
                  published[n] + claimed[n], published'[n] + claimed'[n], Cron)
        /\ \A u \in Users :
             Spends(sent[n][u], sent'[n][u],
                    Waiting(item, left, n, u), Waiting(item', left', n, u),
                    published[n] + claimed[n], published'[n] + claimed'[n], Cron)
  BY <1>1, <1>2 DEF Spends
<1>4. Claims'
  BY DEF Budget, Claims
<1> QED
  BY <1>3, <1>4, BudgetKept

\* A delivery that begins is paid for by the publication, or the claim, it begins with.
LEMMA BeginBudget ==
  ASSUME Shape, Budget, UNCHANGED <<sent, inbox>>,
         NEW p \in Procs, NEW i \in Notifs, Begun(p, i), item[p] = None,
         Claims',
         \A n \in Notifs : published'[n] + claimed'[n] =
                           published[n] + claimed[n] + (IF n = i THEN 1 ELSE 0)
  PROVE  Budget'
<1>1. ASSUME NEW n \in Notifs
      PROVE  /\ Batches(pc', item', n) \subseteq Batches(pc, item, n) \cup {p}
             /\ n # i => Batches(pc', item', n) \subseteq Batches(pc, item, n)
  BY DEF Batches, Begun, Now
<1>2. ASSUME NEW n \in Notifs, NEW u \in Users
      PROVE  /\ Waiting(item', left', n, u) \subseteq Waiting(item, left, n, u) \cup {p}
             /\ n # i => Waiting(item', left', n, u) \subseteq Waiting(item, left, n, u)
  BY DEF Waiting, Begun, Now
<1>3. ASSUME NEW n \in Notifs
      PROVE  /\ Spends(inbox[n], inbox'[n], Batches(pc, item, n), Batches(pc', item', n),
                       published[n] + claimed[n], published'[n] + claimed'[n], p)
             /\ \A u \in Users :
                  Spends(sent[n][u], sent'[n][u],
                         Waiting(item, left, n, u), Waiting(item', left', n, u),
                         published[n] + claimed[n], published'[n] + claimed'[n], p)
  <2>0. published[n] + claimed[n] \in Nat
    BY DEF Shape, CountsOK
  <2>1. CASE n = i
    BY <1>1, <1>2, <2>1, <2>0 DEF Spends
  <2>2. CASE n # i
    BY <1>1, <1>2, <2>2, <2>0 DEF Spends
  <2> QED
    BY <2>1, <2>2
<1> QED
  BY <1>3, BudgetKept

\* What was sent and is to come stays paid for when a notification is created.
LEMMA CreateNotificationBudget ==
  ASSUME Shape, Budget, NEW r \in Requests, CreateNotification(r)
  PROVE Budget'
<1>1. PICK n \in Notifs, s \in {"DRAFT", "SCHEDULED", "SENT"} :
        /\ status[n] = "none" /\ status' = [status EXCEPT ![n] = s] /\ item[r] = None
        /\ \/ Free(r, "done") /\ published' = published
           \/ Begun(r, n) /\ s = "SENT" /\ published' = [published EXCEPT ![n] = @ + 1]
        /\ UNCHANGED <<sent, inbox, claimed>>
  BY CreateNotificationDoes
<1>2. \A m \in Notifs : status[m] = "SENT" => status'[m] = "SENT"
  BY <1>1 DEF Shape, StatusOK, Items
<1>3. CASE Free(r, "done") /\ published' = published
  BY <1>1, <1>2, <1>3, DisjointAssumption, QuietBudget DEF Free, Now, Items
<1>4. CASE Begun(r, n) /\ published' = [published EXCEPT ![n] = @ + 1]
  <2>1. \A m \in Notifs : published'[m] + claimed'[m] =
                          published[m] + claimed[m] + (IF m = n THEN 1 ELSE 0)
    BY <1>1, <1>4 DEF Shape, CountsOK
  <2>2. Claims'
    BY <1>1, <1>2 DEF Budget, Claims
  <2> QED
    BY <1>1, <1>2, <1>4, <2>1, <2>2, BeginBudget DEF Procs
<1> QED
  BY <1>1, <1>3, <1>4

\* What was sent and is to come stays paid for when somebody publishes a notification.
LEMMA PublishBudget ==
  ASSUME Shape, Budget, NEW r \in Requests, Publish(r)
  PROVE Budget'
<1>1. PICK n \in Notifs :
        /\ item[r] = None
        /\ \/ Free(r, "failed") /\ published' = published
           \/ Begun(r, n) /\ published' = [published EXCEPT ![n] = @ + 1]
        /\ UNCHANGED <<status, sent, inbox, claimed>>
  BY PublishDoes
<1>3. CASE Free(r, "failed") /\ published' = published
  BY <1>1, <1>3, DisjointAssumption, QuietBudget DEF Free, Now, Items
<1>4. CASE Begun(r, n) /\ published' = [published EXCEPT ![n] = @ + 1]
  <2>1. \A m \in Notifs : published'[m] + claimed'[m] =
                          published[m] + claimed[m] + (IF m = n THEN 1 ELSE 0)
    BY <1>1, <1>4 DEF Shape, CountsOK
  <2>2. Claims'
    BY <1>1 DEF Budget, Claims
  <2> QED
    BY <1>1, <1>4, <2>1, <2>2, BeginBudget DEF Procs
<1> QED
  BY <1>1, <1>3, <1>4

\* What was sent and is to come stays paid for when a message is created.
LEMMA CreateCommunicationBudget ==
  ASSUME Shape, Budget, NEW r \in Requests, CreateCommunication(r)
  PROVE Budget'
<1> USE CreateCommunicationDoes, DisjointAssumption
<1>1. UNCHANGED <<sent, inbox, published, claimed>>
  OBVIOUS
<1>2. \A n \in Notifs : status[n] = "SENT" => status'[n] = "SENT"
  BY DEF Shape, StatusOK, Items
<1>3. \A q \in Procs, n \in Notifs :
        item'[q] = n => /\ item[q] = n /\ left'[q] \subseteq left[q]
                        /\ pc'[q] = "deliver" => pc[q] = "deliver"
  BY DEF Free, Begun, Now, Items
<1> QED
  BY <1>1, <1>2, <1>3, QuietBudget

\* What was sent and is to come stays paid for when a request marks its notification sent.
LEMMA MarkSentBudget ==
  ASSUME Shape, Budget, NEW r \in Requests, MarkSent(r)
  PROVE Budget'
<1> USE MarkSentDoes, DisjointAssumption
<1>1. UNCHANGED <<sent, inbox, published, claimed>>
  OBVIOUS
<1>2. \A n \in Notifs : status[n] = "SENT" => status'[n] = "SENT"
  BY DEF Shape, StatusOK, Items
<1>3. \A q \in Procs, n \in Notifs :
        item'[q] = n => /\ item[q] = n /\ left'[q] \subseteq left[q]
                        /\ pc'[q] = "deliver" => pc[q] = "deliver"
  BY DEF Free, Begun, Now, Items
<1> QED
  BY <1>1, <1>2, <1>3, QuietBudget

\* What was sent and is to come stays paid for when a recipient is sent it.
LEMMA DeliverBudget == ASSUME Shape, Budget, NEW p \in Procs, Deliver(p) PROVE Budget'
<1>1. PICK u \in Users :
        /\ u \in left[p] /\ item[p] \in Items
        /\ Now(p, "deliver", item[p], left[p] \ {u})
        /\ \/ sent' = [sent EXCEPT ![item[p]][u] = @ + 1]
           \/ sent' = sent
        /\ UNCHANGED <<status, inbox, pc, item, published, claimed>>
  BY DeliverDoes
<1>2. \A w \in Users, n \in Notifs :
        \/ sent'[n][w] = sent[n][w]
        \/ n = item[p] /\ w = u /\ sent'[n][w] = sent[n][w] + 1
  <2>1. sent[item[p]] \in [Users -> Nat]
    BY <1>1 DEF Shape, SentOK
  <2> QED
    BY <1>1, <2>1 DEF Shape, SentOK, Items
<1>3. ASSUME NEW w \in Users, NEW n \in Notifs
      PROVE  /\ Waiting(item', left', n, w) \subseteq Waiting(item, left, n, w)
             /\ n = item[p] /\ w = u =>
                  /\ p \in Waiting(item, left, n, w)
                  /\ Waiting(item', left', n, w) \subseteq Waiting(item, left, n, w) \ {p}
  BY <1>1 DEF Waiting, Now
<1>4. \A n \in Notifs :
        /\ Spends(inbox[n], inbox'[n], Batches(pc, item, n), Batches(pc', item', n),
                  published[n] + claimed[n], published'[n] + claimed'[n], p)
        /\ \A w \in Users :
             Spends(sent[n][w], sent'[n][w],
                    Waiting(item, left, n, w), Waiting(item', left', n, w),
                    published[n] + claimed[n], published'[n] + claimed'[n], p)
  BY <1>1, <1>2, <1>3 DEF Spends
<1>5. Claims'
  BY <1>1 DEF Budget, Claims
<1> QED
  BY <1>4, <1>5, BudgetKept

\* What was sent and is to come stays paid for when the rows of the inbox are written.
LEMMA WriteInboxBudget ==
  ASSUME Shape, Budget, NEW p \in Procs, WriteInbox(p)
  PROVE Budget'
<1>1. /\ item[p] \in Notifs /\ left[p] = {} /\ pc[p] = "deliver"
      /\ inbox' = [inbox EXCEPT ![item[p]] = @ + 1]
      /\ Now(p, "claim", None, {}) \/ Now(p, "mark", item[p], {})
      /\ UNCHANGED <<status, sent, published, claimed>>
  BY WriteInboxDoes DEF Free
<1>2. \A n \in Notifs : inbox'[n] = IF n = item[p] THEN inbox[n] + 1 ELSE inbox[n]
  BY <1>1 DEF Shape, CountsOK
<1>3. ASSUME NEW n \in Notifs
      PROVE  /\ Batches(pc', item', n) \subseteq Batches(pc, item, n)
             /\ n = item[p] => /\ p \in Batches(pc, item, n)
                               /\ Batches(pc', item', n) \subseteq Batches(pc, item, n) \ {p}
             /\ \A u \in Users : Waiting(item', left', n, u) \subseteq Waiting(item, left, n, u)
  BY <1>1, DisjointAssumption DEF Waiting, Batches, Now, Items
<1>4. \A n \in Notifs :
        /\ Spends(inbox[n], inbox'[n], Batches(pc, item, n), Batches(pc', item', n),
                  published[n] + claimed[n], published'[n] + claimed'[n], p)
        /\ \A u \in Users :
             Spends(sent[n][u], sent'[n][u],
                    Waiting(item, left, n, u), Waiting(item', left', n, u),
                    published[n] + claimed[n], published'[n] + claimed'[n], p)
  BY <1>1, <1>2, <1>3 DEF Spends
<1>5. Claims'
  BY <1>1 DEF Budget, Claims
<1> QED
  BY <1>4, <1>5, BudgetKept

\* What was sent and is to come stays paid for when a message is marked after its delivery.
LEMMA MarkMessageBudget ==
  ASSUME Shape, Budget, NEW p \in Procs, MarkMessage(p)
  PROVE Budget'
<1> USE MarkMessageDoes, DisjointAssumption
<1>1. UNCHANGED <<sent, inbox, published, claimed>>
  OBVIOUS
<1>2. \A n \in Notifs : status[n] = "SENT" => status'[n] = "SENT"
  BY DEF Shape, StatusOK, Items
<1>3. \A q \in Procs, n \in Notifs :
        item'[q] = n => /\ item[q] = n /\ left'[q] \subseteq left[q]
                        /\ pc'[q] = "deliver" => pc[q] = "deliver"
  BY DEF Free, Begun, Now, Items
<1> QED
  BY <1>1, <1>2, <1>3, QuietBudget

\* What was sent and is to come stays paid for when a reminder is logged.
LEMMA LogReminderBudget ==
  ASSUME Shape, Budget, NEW p \in Procs, LogReminder(p)
  PROVE Budget'
<1> USE LogReminderDoes, DisjointAssumption
<1>1. UNCHANGED <<sent, inbox, published, claimed>>
  OBVIOUS
<1>2. \A n \in Notifs : status[n] = "SENT" => status'[n] = "SENT"
  BY DEF Shape, StatusOK, Items
<1>3. \A q \in Procs, n \in Notifs :
        item'[q] = n => /\ item[q] = n /\ left'[q] \subseteq left[q]
                        /\ pc'[q] = "deliver" => pc[q] = "deliver"
  BY DEF Free, Begun, Now, Items
<1> QED
  BY <1>1, <1>2, <1>3, QuietBudget

\* What was sent and is to come stays paid for when a delivery is cut short.
LEMMA FailBudget == ASSUME Shape, Budget, NEW p \in Procs, Fail(p) PROVE Budget'
<1> USE FailDoes, DisjointAssumption
<1>1. UNCHANGED <<sent, inbox, published, claimed>>
  OBVIOUS
<1>2. \A n \in Notifs : status[n] = "SENT" => status'[n] = "SENT"
  BY DEF Shape, StatusOK, Items
<1>3. \A q \in Procs, n \in Notifs :
        item'[q] = n => /\ item[q] = n /\ left'[q] \subseteq left[q]
                        /\ pc'[q] = "deliver" => pc[q] = "deliver"
  BY DEF Free, Begun, Now, Items
<1> QED
  BY <1>1, <1>2, <1>3, QuietBudget

\* What was sent and is to come stays paid for when the tick begins.
LEMMA TickBudget == ASSUME Shape, Budget, Tick PROVE Budget'
<1> USE TickDoes, DisjointAssumption
<1>1. UNCHANGED <<sent, inbox, published, claimed>>
  OBVIOUS
<1>2. \A n \in Notifs : status[n] = "SENT" => status'[n] = "SENT"
  BY DEF Shape, StatusOK, Items
<1>3. \A q \in Procs, n \in Notifs :
        item'[q] = n => /\ item[q] = n /\ left'[q] \subseteq left[q]
                        /\ pc'[q] = "deliver" => pc[q] = "deliver"
  BY DEF Free, Begun, Now, Items
<1> QED
  BY <1>1, <1>2, <1>3, QuietBudget

\* What was sent and is to come stays paid for when the tick claims.
LEMMA ClaimBudget == ASSUME Shape, Budget, Claim PROVE Budget'
<1>1. PICK n \in Notifs :
        /\ item[Cron] = None
        /\ \/ /\ status[n] = "SCHEDULED" /\ status' = [status EXCEPT ![n] = "SENT"]
              /\ Begun(Cron, n) /\ claimed' = [claimed EXCEPT ![n] = @ + 1]
           \/ status' = status /\ claimed' = claimed /\ Free(Cron, "claim")
        /\ UNCHANGED <<sent, inbox, published>>
  BY ClaimDoes
<1>2. CASE status' = status /\ claimed' = claimed /\ Free(Cron, "claim")
  BY <1>1, <1>2, DisjointAssumption, QuietBudget DEF Free, Now, Items
<1>3. CASE /\ status[n] = "SCHEDULED" /\ status' = [status EXCEPT ![n] = "SENT"]
           /\ Begun(Cron, n) /\ claimed' = [claimed EXCEPT ![n] = @ + 1]
  <2>1. \A m \in Notifs : published'[m] + claimed'[m] =
                          published[m] + claimed[m] + (IF m = n THEN 1 ELSE 0)
    BY <1>1, <1>3 DEF Shape, CountsOK
  <2>2. Claims'
    BY <1>3 DEF Budget, Claims, Shape, StatusOK, CountsOK, Items
  <2> QED
    BY <1>1, <1>3, <2>1, <2>2, BeginBudget DEF Procs
<1> QED
  BY <1>1, <1>2, <1>3

\* What was sent and is to come stays paid for when the tick reads the queued messages.
LEMMA FindMessagesBudget == ASSUME Shape, Budget, FindMessages PROVE Budget'
<1> USE FindMessagesDoes, DisjointAssumption
<1>1. UNCHANGED <<sent, inbox, published, claimed>>
  OBVIOUS
<1>2. \A n \in Notifs : status[n] = "SENT" => status'[n] = "SENT"
  BY DEF Shape, StatusOK, Items
<1>3. \A q \in Procs, n \in Notifs :
        item'[q] = n => /\ item[q] = n /\ left'[q] \subseteq left[q]
                        /\ pc'[q] = "deliver" => pc[q] = "deliver"
  BY DEF Free, Begun, Now, Items
<1> QED
  BY <1>1, <1>2, <1>3, QuietBudget

\* What was sent and is to come stays paid for when the tick takes the next message.
LEMMA NextMessageBudget == ASSUME Shape, Budget, NextMessage PROVE Budget'
<1> USE NextMessageDoes, DisjointAssumption
<1>1. UNCHANGED <<sent, inbox, published, claimed>>
  OBVIOUS
<1>2. \A n \in Notifs : status[n] = "SENT" => status'[n] = "SENT"
  BY DEF Shape, StatusOK, Items
<1>3. \A q \in Procs, n \in Notifs :
        item'[q] = n => /\ item[q] = n /\ left'[q] \subseteq left[q]
                        /\ pc'[q] = "deliver" => pc[q] = "deliver"
  BY DEF Free, Begun, Now, Items
<1> QED
  BY <1>1, <1>2, <1>3, QuietBudget

\* What was sent and is to come stays paid for when the tick reads the Masses that are near.
LEMMA FindMassesBudget == ASSUME Shape, Budget, FindMasses PROVE Budget'
<1> USE FindMassesDoes, DisjointAssumption
<1>1. UNCHANGED <<sent, inbox, published, claimed>>
  OBVIOUS
<1>2. \A n \in Notifs : status[n] = "SENT" => status'[n] = "SENT"
  BY DEF Shape, StatusOK, Items
<1>3. \A q \in Procs, n \in Notifs :
        item'[q] = n => /\ item[q] = n /\ left'[q] \subseteq left[q]
                        /\ pc'[q] = "deliver" => pc[q] = "deliver"
  BY DEF Free, Begun, Now, Items
<1> QED
  BY <1>1, <1>2, <1>3, QuietBudget

\* What was sent and is to come stays paid for when the tick takes the next Mass.
LEMMA NextMassBudget == ASSUME Shape, Budget, NextMass PROVE Budget'
<1> USE NextMassDoes, DisjointAssumption
<1>1. UNCHANGED <<sent, inbox, published, claimed>>
  OBVIOUS
<1>2. \A n \in Notifs : status[n] = "SENT" => status'[n] = "SENT"
  BY DEF Shape, StatusOK, Items
<1>3. \A q \in Procs, n \in Notifs :
        item'[q] = n => /\ item[q] = n /\ left'[q] \subseteq left[q]
                        /\ pc'[q] = "deliver" => pc[q] = "deliver"
  BY DEF Free, Begun, Now, Items
<1> QED
  BY <1>1, <1>2, <1>3, QuietBudget

\* What was sent and is to come stays paid for when the tick ends.
LEMMA EndTickBudget == ASSUME Shape, Budget, EndTick PROVE Budget'
<1> USE EndTickDoes, DisjointAssumption
<1>1. UNCHANGED <<sent, inbox, published, claimed>>
  OBVIOUS
<1>2. \A n \in Notifs : status[n] = "SENT" => status'[n] = "SENT"
  BY DEF Shape, StatusOK, Items
<1>3. \A q \in Procs, n \in Notifs :
        item'[q] = n => /\ item[q] = n /\ left'[q] \subseteq left[q]
                        /\ pc'[q] = "deliver" => pc[q] = "deliver"
  BY DEF Free, Begun, Now, Items
<1> QED
  BY <1>1, <1>2, <1>3, QuietBudget

\* What was sent and is to come stays paid for when a query of the tick fails.
LEMMA AbortTickBudget == ASSUME Shape, Budget, AbortTick PROVE Budget'
<1> USE AbortTickDoes, DisjointAssumption
<1>1. UNCHANGED <<sent, inbox, published, claimed>>
  OBVIOUS
<1>2. \A n \in Notifs : status[n] = "SENT" => status'[n] = "SENT"
  BY DEF Shape, StatusOK, Items
<1>3. \A q \in Procs, n \in Notifs :
        item'[q] = n => /\ item[q] = n /\ left'[q] \subseteq left[q]
                        /\ pc'[q] = "deliver" => pc[q] = "deliver"
  BY DEF Free, Begun, Now, Items
<1> QED
  BY <1>1, <1>2, <1>3, QuietBudget

\* What was sent and is to come stays paid for when the process restarts.
LEMMA RestartBudget == ASSUME Shape, Budget, Restart PROVE Budget'
<1> USE RestartDoes, DisjointAssumption
<1>1. UNCHANGED <<sent, inbox, published, claimed>>
  OBVIOUS
<1>2. \A n \in Notifs : status[n] = "SENT" => status'[n] = "SENT"
  BY DEF Shape, StatusOK, Items
<1>3. \A q \in Procs, n \in Notifs :
        item'[q] = n => /\ item[q] = n /\ left'[q] \subseteq left[q]
                        /\ pc'[q] = "deliver" => pc[q] = "deliver"
  BY DEF Free, Begun, Now, Items
<1> QED
  BY <1>1, <1>2, <1>3, QuietBudget

\* What was sent and is to come stays paid for when an item falls due.
LEMMA FallDueBudget == ASSUME Shape, Budget, FallDue PROVE Budget'
<1> USE FallDueDoes, DisjointAssumption
<1>1. UNCHANGED <<sent, inbox, published, claimed>>
  OBVIOUS
<1>2. \A n \in Notifs : status[n] = "SENT" => status'[n] = "SENT"
  BY DEF Shape, StatusOK, Items
<1>3. \A q \in Procs, n \in Notifs :
        item'[q] = n => /\ item[q] = n /\ left'[q] \subseteq left[q]
                        /\ pc'[q] = "deliver" => pc[q] = "deliver"
  BY DEF Free, Begun, Now, Items
<1> QED
  BY <1>1, <1>2, <1>3, QuietBudget

\* What was sent and is to come stays paid for when a Mass comes too close.
LEMMA PassBudget == ASSUME Shape, Budget, Pass PROVE Budget'
<1> USE PassDoes, DisjointAssumption
<1>1. UNCHANGED <<sent, inbox, published, claimed>>
  OBVIOUS
<1>2. \A n \in Notifs : status[n] = "SENT" => status'[n] = "SENT"
  BY DEF Shape, StatusOK, Items
<1>3. \A q \in Procs, n \in Notifs :
        item'[q] = n => /\ item[q] = n /\ left'[q] \subseteq left[q]
                        /\ pc'[q] = "deliver" => pc[q] = "deliver"
  BY DEF Free, Begun, Now, Items
<1> QED
  BY <1>1, <1>2, <1>3, QuietBudget

\* At first nothing was sent, and the one claim may still come.
LEMMA InitBudget == Init => Budget
<1> SUFFICES ASSUME Init, NEW n \in Notifs
             PROVE  /\ Paid(inbox[n], Batches(pc, item, n), published[n] + claimed[n])
                    /\ \A u \in Users :
                         Paid(sent[n][u], Waiting(item, left, n, u), published[n] + claimed[n])
  BY DEF Budget, Claims, Init
<1>1. Batches(pc, item, n) = {} /\ \A u \in Users : Waiting(item, left, n, u) = {}
  BY DEF Init, Batches, Waiting
<1>2. IsFiniteSet({}) /\ Cardinality({}) = 0
  BY FS_EmptySet
<1>3. inbox[n] = 0 /\ published[n] = 0 /\ claimed[n] = 0 /\ \A u \in Users : sent[n][u] = 0
  BY DEF Init, Items
<1> QED
  BY <1>1, <1>2, <1>3 DEF Paid

\* Every step keeps the budget.
LEMMA NextBudget == Shape /\ Budget /\ [Next]_vars => Budget'
<1> SUFFICES ASSUME Shape, Budget, [Next]_vars PROVE Budget'
  OBVIOUS
<1>1. CASE UNCHANGED vars
  BY <1>1 DEF Budget, Claims, vars, locals, history
<1>2. ASSUME NEW r \in Requests,
             CreateNotification(r) \/ Publish(r) \/ CreateCommunication(r) \/ MarkSent(r)
      PROVE  Budget'
  BY <1>2, CreateNotificationBudget, PublishBudget, CreateCommunicationBudget, MarkSentBudget
<1>3. ASSUME NEW p \in Procs, Go(p) \/ Fail(p) PROVE Budget'
  BY <1>3, DeliverBudget, WriteInboxBudget, MarkMessageBudget, LogReminderBudget, FailBudget DEF Go
<1>4. CASE Ticking
  BY <1>4, TickBudget, ClaimBudget, FindMessagesBudget, NextMessageBudget, FindMassesBudget,
     NextMassBudget, EndTickBudget DEF Ticking
<1>5. CASE AbortTick \/ Restart \/ FallDue \/ Pass
  BY <1>5, AbortTickBudget, RestartBudget, FallDueBudget, PassBudget
<1> QED
  BY <1>1, <1>2, <1>3, <1>4, <1>5 DEF Next

\* processDueScheduled claims before it delivers: whatever fails or restarts, and however
\* many requests publish meanwhile, it sends a notification once, and nobody gets it more
\* often than people published it besides.
THEOREM NotificationsOnce == Spec => []NotifiedOnce
<1>1. ASSUME Shape, Budget PROVE NotifiedOnce
  <2>1. \A n \in Notifs : inbox[n] <= Asked(n) /\ \A u \in Users : sent[n][u] <= Asked(n)
    <3>1. ASSUME NEW done \in Nat, NEW ask \in Nat, NEW W, Paid(done, W, ask) PROVE done <= ask
      <4>1. Cardinality(W) \in Nat
        BY <3>1, FS_CardinalityType DEF Paid
      <4> QED
        BY <3>1, <4>1 DEF Paid
    <3>2. \A n \in Notifs : /\ inbox[n] \in Nat /\ published[n] + claimed[n] \in Nat
                            /\ \A u \in Users : sent[n][u] \in Nat
      BY <1>1 DEF Shape, CountsOK, SentOK, Items
    <3> QED
      BY <1>1, <3>1, <3>2 DEF Budget, Asked
  <2>2. \A n \in Notifs : claimed[n] <= 1
    BY <1>1 DEF Budget, Claims
  <2> QED
    BY <2>1, <2>2 DEF NotifiedOnce
<1> QED
  BY InitBudget, NextBudget, ShapeHolds, <1>1, PTL DEF Spec

-----------------------------------------------------------------------------
(* Messaging implements NoticeBoard *)

\* Who has still to send n was asked to, so that one more does not exceed what was asked.
LEMMA RoomForOne ==
  ASSUME NEW done \in Nat, NEW ask \in Nat, NEW W, NEW x \in W, Paid(done, W, ask)
  PROVE  done < ask
<1>1. Cardinality(W \ {x}) + 1 <= Cardinality(W) /\ Cardinality(W) \in Nat
  BY FewerOrMore DEF Paid
<1>2. Cardinality(W \ {x}) \in Nat
  BY FewerOrMore DEF Paid
<1> QED
  BY <1>1, <1>2 DEF Paid

\* A step in which nothing is asked for, sent or put on the board.
LEMMA BoardStill ==
  ASSUME UNCHANGED <<sent, inbox, published, claimed>>
  PROVE  [Notice!Next]_(Notice!board)
  BY DEF Notice!board, Asked

\* A publication or a claim is an Ask.
LEMMA BoardAsk ==
  ASSUME NEW n \in Notifs, UNCHANGED <<sent, inbox>>, Shape,
         \/ published' = [published EXCEPT ![n] = @ + 1] /\ claimed' = claimed
         \/ claimed' = [claimed EXCEPT ![n] = @ + 1] /\ published' = published
  PROVE  [Notice!Next]_(Notice!board)
<1>1. \A m \in Notifs : published'[m] + claimed'[m] =
                        IF m = n THEN published[m] + claimed[m] + 1 ELSE published[m] + claimed[m]
  BY DEF Shape, CountsOK
<1>2. [m \in Notifs |-> published'[m] + claimed'[m]] =
      [[m \in Notifs |-> published[m] + claimed[m]] EXCEPT ![n] = @ + 1]
  BY <1>1
<1>3. Notice!Ask(n)
  BY <1>2 DEF Notice!Ask, Asked
<1> QED
  BY <1>3 DEF Notice!Next

\* A send that arrives is a Receive, if it is of a notification.
LEMMA BoardDeliver ==
  ASSUME Shape, Budget, NEW p \in Procs, Deliver(p)
  PROVE  [Notice!Next]_(Notice!board)
<1>1. PICK u \in Users :
        /\ u \in left[p] /\ item[p] \in Items
        /\ \/ sent' = [sent EXCEPT ![item[p]][u] = @ + 1]
           \/ sent' = sent
        /\ UNCHANGED <<inbox, published, claimed>>
  BY DeliverDoes
<1>2. CASE sent' = sent
  BY <1>1, <1>2, BoardStill
<1>3. CASE sent' = [sent EXCEPT ![item[p]][u] = @ + 1] /\ item[p] \notin Notifs
  <2>1. \A n \in Notifs : sent'[n] = sent[n]
    BY <1>1, <1>3 DEF Shape, SentOK, Items
  <2>2. [n \in Notifs |-> sent'[n]] = [n \in Notifs |-> sent[n]]
    BY <2>1
  <2> QED
    BY <1>1, <2>2 DEF Notice!board, Asked
<1>4. CASE sent' = [sent EXCEPT ![item[p]][u] = @ + 1] /\ item[p] \in Notifs
  <2>1. PICK n \in Notifs : n = item[p]
    BY <1>4
  <2>2. sent[n][u] < Asked(n)
    <3>1. p \in Waiting(item, left, n, u)
      BY <1>1, <2>1 DEF Waiting
    <3>2. sent[n][u] \in Nat /\ published[n] + claimed[n] \in Nat
      BY DEF Shape, SentOK, CountsOK, Items
    <3>3. Paid(sent[n][u], Waiting(item, left, n, u), published[n] + claimed[n])
      BY DEF Budget
    <3> QED
      BY <3>1, <3>2, <3>3, RoomForOne DEF Asked
  <2>3. [m \in Notifs |-> sent'[m]] = [[m \in Notifs |-> sent[m]] EXCEPT ![n][u] = @ + 1]
    BY <1>4, <2>1 DEF Shape, SentOK, Items
  <2>4. Notice!Receive(n, u)
    BY <1>1, <2>2, <2>3 DEF Notice!Receive, Asked
  <2> QED
    BY <2>4 DEF Notice!Next
<1> QED
  BY <1>1, <1>2, <1>3, <1>4

\* The rows of the inbox are a Post.
LEMMA BoardInbox ==
  ASSUME Shape, Budget, NEW p \in Procs, WriteInbox(p)
  PROVE  [Notice!Next]_(Notice!board)
<1>1. PICK n \in Notifs :
        /\ n = item[p] /\ pc[p] = "deliver" /\ inbox' = [inbox EXCEPT ![n] = @ + 1]
        /\ UNCHANGED <<sent, published, claimed>>
  BY WriteInboxDoes
<1>2. inbox[n] < Asked(n)
  <2>1. p \in Batches(pc, item, n)
    BY <1>1 DEF Batches
  <2>2. inbox[n] \in Nat /\ published[n] + claimed[n] \in Nat
    BY DEF Shape, CountsOK
  <2>3. Paid(inbox[n], Batches(pc, item, n), published[n] + claimed[n])
    BY DEF Budget
  <2> QED
    BY <2>1, <2>2, <2>3, RoomForOne DEF Asked
<1>3. Notice!Post(n)
  BY <1>1, <1>2 DEF Notice!Post, Asked
<1> QED
  BY <1>3 DEF Notice!Next

\* At first nothing was asked for.
LEMMA InitBoard == Init => Notice!Init
  BY DEF Init, Notice!Init, Asked, Items

\* Every step is a step of NoticeBoard, or leaves it alone.
LEMMA NextBoard ==
  ASSUME Shape, Budget, [Next]_vars
  PROVE  [Notice!Next]_(Notice!board)
<1>1. CASE UNCHANGED vars
  BY <1>1, BoardStill DEF vars, history
<1>2. ASSUME NEW r \in Requests, CreateNotification(r) PROVE [Notice!Next]_(Notice!board)
  BY <1>2, CreateNotificationDoes, BoardAsk, BoardStill
<1>3. ASSUME NEW r \in Requests, Publish(r) PROVE [Notice!Next]_(Notice!board)
  BY <1>3, PublishDoes, BoardAsk, BoardStill
<1>4. CASE Claim
  BY <1>4, ClaimDoes, BoardAsk, BoardStill
<1>5. ASSUME NEW p \in Procs, Deliver(p) \/ WriteInbox(p) PROVE [Notice!Next]_(Notice!board)
  BY <1>5, BoardDeliver, BoardInbox
<1>6. ASSUME NEW r \in Requests, CreateCommunication(r) \/ MarkSent(r)
      PROVE  UNCHANGED <<sent, inbox, published, claimed>>
  BY <1>6, CreateCommunicationDoes, MarkSentDoes
<1>7. ASSUME NEW p \in Procs, MarkMessage(p) \/ LogReminder(p) \/ Fail(p)
      PROVE  UNCHANGED <<sent, inbox, published, claimed>>
  BY <1>7, MarkMessageDoes, LogReminderDoes, FailDoes
<1>8. ASSUME \/ Tick \/ FindMessages \/ NextMessage \/ FindMasses \/ NextMass \/ EndTick
             \/ AbortTick \/ Restart \/ FallDue \/ Pass
      PROVE  UNCHANGED <<sent, inbox, published, claimed>>
  BY <1>8, TickDoes, FindMessagesDoes, NextMessageDoes, FindMassesDoes, NextMassDoes,
     EndTickDoes, AbortTickDoes, RestartDoes, FallDueDoes, PassDoes
<1> QED
  BY <1>1, <1>2, <1>3, <1>4, <1>5, <1>6, <1>7, <1>8, BoardStill DEF Next, Go, Ticking

\* Publications, claims and deliveries together, whatever fails, restarts or overlaps, do
\* what NoticeBoard promises: a notification goes out only when it was asked for, once to
\* each recipient each time, and no step takes back what was asked for or received.
THEOREM BoardImplemented == Spec => GoesOutAsAsked
<1>1. Init => Notice!Init
  BY InitBoard
<1>2. Shape /\ Budget /\ [Next]_vars => [Notice!Next]_(Notice!board)
  BY NextBoard
<1> QED
  BY <1>1, <1>2, InitBudget, NextBudget, ShapeHolds, PTL DEF Spec, GoesOutAsAsked, Notice!Spec

-----------------------------------------------------------------------------
(* A message or a reminder that no fault cut short, and no tick raced, is sent once *)

\* While i is in hand it is in one hand only, still to be marked, and the tick will not
\* take it again; who is still to come was not sent it.
InHand(i) ==
  \A p \in Procs : item[p] = i =>
    /\ \A q \in Procs : item[q] = i => q = p
    /\ i \notin todo
    /\ i \in Messages => status[i] = "QUEUED"
    /\ i \in Masses => status[i] = "none"
    /\ \A u \in left[p] : sent[i][u] = 0

\* While i is open and nobody has it in hand, nobody was sent it.
Unsent(i) ==
  /\ status[i] \in {"none", "DRAFT", "QUEUED"} /\ (\A p \in Procs : item[p] # i)
       => \A u \in Users : sent[i][u] = 0
  /\ i \in Messages \cap todo => status[i] = "QUEUED"

\* All that is said of one message or reminder.
OnceOf(i) == InHand(i) /\ Unsent(i) /\ \A u \in Users : sent[i][u] <= 1

\* Only a fault or a race is a cause.
Once == \A i \in (Messages \cup Masses) \ (cut \cup raced) : OnceOf(i)

\* A step that sends nothing, puts i into no hand, takes it from one only by marking it,
\* and finds it for the tick only when it is free, keeps what is said of i.
LEMMA OnceKept ==
  ASSUME Shape, NEW i \in Messages \cup Masses, OnceOf(i), sent' = sent,
         \A q \in Procs : item'[q] = i => /\ item[q] = i /\ left'[q] \subseteq left[q]
                                          /\ status'[i] = status[i],
         i \in todo' => /\ \A q \in Procs : item'[q] # i
                        /\ i \in Messages => status'[i] = "QUEUED",
         status'[i] \in {"none", "DRAFT", "QUEUED"} /\ (\A q \in Procs : item'[q] # i) =>
           status[i] \in {"none", "DRAFT", "QUEUED"} /\ \A q \in Procs : item[q] # i
  PROVE  OnceOf(i)'
<1>1. InHand(i)'
  BY DEF OnceOf, InHand
<1>2. Unsent(i)'
  BY DEF OnceOf, Unsent
<1> QED
  BY <1>1, <1>2 DEF OnceOf

\* So does the step that begins to deliver i, when nobody had it or was sent it.
LEMMA OnceBegun ==
  ASSUME Shape, NEW i \in Messages \cup Masses, NEW p \in Procs, Begun(p, i), sent' = sent,
         \A q \in Procs : item[q] # i, i \notin todo',
         i \in Messages => status'[i] = "QUEUED",
         i \in Masses => status'[i] = "none",
         \A u \in Users : sent[i][u] = 0
  PROVE  OnceOf(i)'
<1>1. \A q \in Procs : item'[q] = i <=> q = p
  BY DEF Begun, Now
<1>2. left'[p] \subseteq Users
  BY DEF Begun, Now
<1> QED
  BY <1>1, <1>2 DEF OnceOf, InHand, Unsent

\* What nothing cut short or raced is sent once, when a notification is created.
LEMMA CreateNotificationOnce ==
  ASSUME Shape, Once, NEW r \in Requests, CreateNotification(r)
  PROVE Once'
<1> USE CreateNotificationDoes, DisjointAssumption
<1>1. sent' = sent /\ cut \subseteq cut' /\ raced \subseteq raced'
  OBVIOUS
<1> SUFFICES ASSUME NEW i \in (Messages \cup Masses) \ (cut' \cup raced') PROVE OnceOf(i)'
  BY DEF Once
<1>2. OnceOf(i)
  BY <1>1 DEF Once
<1>3. \A q \in Procs : item'[q] = i => /\ item[q] = i /\ left'[q] \subseteq left[q]
                                       /\ status'[i] = status[i]
  BY <1>2 DEF OnceOf, InHand, Free, Begun, Now, Items, Shape, StatusOK
<1>4. i \in todo' => /\ \A q \in Procs : item'[q] # i
                     /\ i \in Messages => status'[i] = "QUEUED"
  BY <1>2, <1>3 DEF OnceOf, InHand, Unsent, Procs, Items, Shape, StatusOK, Calls, Holds
<1>5. status'[i] \in {"none", "DRAFT", "QUEUED"} /\ (\A q \in Procs : item'[q] # i) =>
        status[i] \in {"none", "DRAFT", "QUEUED"} /\ \A q \in Procs : item[q] # i
  BY <1>2 DEF OnceOf, InHand, Free, Begun, Now, Items, Shape, StatusOK, Outcome, Calls, Holds
<1> QED
  BY <1>1, <1>2, <1>3, <1>4, <1>5, OnceKept

\* What nothing cut short or raced is sent once, when somebody publishes a notification.
LEMMA PublishOnce == ASSUME Shape, Once, NEW r \in Requests, Publish(r) PROVE Once'
<1> USE PublishDoes, DisjointAssumption
<1>1. sent' = sent /\ cut \subseteq cut' /\ raced \subseteq raced'
  OBVIOUS
<1> SUFFICES ASSUME NEW i \in (Messages \cup Masses) \ (cut' \cup raced') PROVE OnceOf(i)'
  BY DEF Once
<1>2. OnceOf(i)
  BY <1>1 DEF Once
<1>3. \A q \in Procs : item'[q] = i => /\ item[q] = i /\ left'[q] \subseteq left[q]
                                       /\ status'[i] = status[i]
  BY <1>2 DEF OnceOf, InHand, Free, Begun, Now, Items, Shape, StatusOK
<1>4. i \in todo' => /\ \A q \in Procs : item'[q] # i
                     /\ i \in Messages => status'[i] = "QUEUED"
  BY <1>2, <1>3 DEF OnceOf, InHand, Unsent, Procs, Items, Shape, StatusOK, Calls, Holds
<1>5. status'[i] \in {"none", "DRAFT", "QUEUED"} /\ (\A q \in Procs : item'[q] # i) =>
        status[i] \in {"none", "DRAFT", "QUEUED"} /\ \A q \in Procs : item[q] # i
  BY <1>2 DEF OnceOf, InHand, Free, Begun, Now, Items, Shape, StatusOK, Outcome, Calls, Holds
<1> QED
  BY <1>1, <1>2, <1>3, <1>4, <1>5, OnceKept

\* What nothing cut short or raced is sent once, when a message is created.
LEMMA CreateCommunicationOnce ==
  ASSUME Shape, Once, NEW r \in Requests, CreateCommunication(r)
  PROVE Once'
<1>1. PICK m \in Messages, s \in {"DRAFT", "QUEUED"} :
        /\ status[m] = "none" /\ status' = [status EXCEPT ![m] = s] /\ item[r] = None
        /\ Free(r, "done") \/ (Begun(r, m) /\ s = "QUEUED")
        /\ UNCHANGED <<sent, todo, cut, raced>>
  BY CreateCommunicationDoes
<1> SUFFICES ASSUME NEW i \in (Messages \cup Masses) \ (cut' \cup raced') PROVE OnceOf(i)'
  BY DEF Once
<1>2. OnceOf(i)
  BY <1>1 DEF Once
<1>3. i = m => i \notin todo /\ \A q \in Procs : item[q] # i
  BY <1>1, <1>2 DEF OnceOf, InHand, Unsent
<1>4. \A j \in Items : status'[j] = IF j = m THEN s ELSE status[j]
  BY <1>1 DEF Shape, StatusOK
<1>5. CASE i = m /\ Begun(r, m) /\ s = "QUEUED"
  <2>1. \A u \in Users : sent[i][u] = 0
    BY <1>1, <1>2, <1>3, <1>5 DEF OnceOf, Unsent
  <2> QED
    BY <1>1, <1>3, <1>4, <1>5, <2>1, OnceBegun, DisjointAssumption DEF Procs, Items
<1>6. CASE Free(r, "done") \/ i # m
  <2>1. \A q \in Procs :
          item'[q] = i => item[q] = i /\ left'[q] \subseteq left[q] /\ status'[i] = status[i]
    BY <1>1, <1>3, <1>4, <1>6, DisjointAssumption DEF Free, Begun, Now, Items
  <2>2. i \in todo' => /\ \A q \in Procs : item'[q] # i
                       /\ i \in Messages => status'[i] = "QUEUED"
    BY <1>1, <1>2, <1>3, <1>4, <2>1 DEF OnceOf, InHand, Unsent, Items
  <2>3. status'[i] \in {"none", "DRAFT", "QUEUED"} /\ (\A q \in Procs : item'[q] # i) =>
          status[i] \in {"none", "DRAFT", "QUEUED"} /\ \A q \in Procs : item[q] # i
    BY <1>1, <1>3, <1>4, <1>6, DisjointAssumption DEF Free, Begun, Now, Items
  <2> QED
    BY <1>1, <1>2, <2>1, <2>2, <2>3, OnceKept
<1> QED
  BY <1>1, <1>5, <1>6

\* What nothing cut short or raced is sent once, when a request marks its notification sent.
LEMMA MarkSentOnce == ASSUME Shape, Once, NEW r \in Requests, MarkSent(r) PROVE Once'
<1> USE MarkSentDoes, DisjointAssumption
<1>1. sent' = sent /\ cut \subseteq cut' /\ raced \subseteq raced'
  OBVIOUS
<1> SUFFICES ASSUME NEW i \in (Messages \cup Masses) \ (cut' \cup raced') PROVE OnceOf(i)'
  BY DEF Once
<1>2. OnceOf(i)
  BY <1>1 DEF Once
<1>3. \A q \in Procs : item'[q] = i => /\ item[q] = i /\ left'[q] \subseteq left[q]
                                       /\ status'[i] = status[i]
  BY <1>2 DEF OnceOf, InHand, Free, Begun, Now, Items, Shape, StatusOK
<1>4. i \in todo' => /\ \A q \in Procs : item'[q] # i
                     /\ i \in Messages => status'[i] = "QUEUED"
  BY <1>2, <1>3 DEF OnceOf, InHand, Unsent, Procs, Items, Shape, StatusOK, Calls, Holds
<1>5. status'[i] \in {"none", "DRAFT", "QUEUED"} /\ (\A q \in Procs : item'[q] # i) =>
        status[i] \in {"none", "DRAFT", "QUEUED"} /\ \A q \in Procs : item[q] # i
  BY <1>2 DEF OnceOf, InHand, Free, Begun, Now, Items, Shape, StatusOK, Outcome, Calls, Holds
<1> QED
  BY <1>1, <1>2, <1>3, <1>4, <1>5, OnceKept

\* What nothing cut short or raced is sent once, when a recipient is sent it.
LEMMA DeliverOnce == ASSUME Shape, Once, NEW p \in Procs, Deliver(p) PROVE Once'
<1>1. PICK u \in Users :
        /\ u \in left[p] /\ item[p] \in Items
        /\ Now(p, "deliver", item[p], left[p] \ {u})
        /\ \/ sent' = [sent EXCEPT ![item[p]][u] = @ + 1]
           \/ sent' = sent
        /\ UNCHANGED <<status, item, todo, cut, raced>>
  BY DeliverDoes
<1> SUFFICES ASSUME NEW i \in (Messages \cup Masses) \ (cut' \cup raced') PROVE OnceOf(i)'
  BY DEF Once
<1>2. OnceOf(i)
  BY <1>1 DEF Once
<1>3. \A w \in Users : \/ sent'[i][w] = sent[i][w]
                       \/ i = item[p] /\ w = u /\ sent'[i][w] = sent[i][w] + 1
  <2>1. sent[item[p]] \in [Users -> Nat]
    BY <1>1 DEF Shape, SentOK
  <2> QED
    BY <1>1, <2>1 DEF Shape, SentOK, Items
<1>4. \A q \in Procs : left'[q] = IF q = p THEN left[p] \ {u} ELSE left[q]
  BY <1>1 DEF Now
<1>5. \A q \in Procs : left[q] \subseteq Users
  BY DEF Shape, LocalsOK
<1>6. CASE i = item[p]
  <2>1. /\ \A q \in Procs : item[q] = i => q = p
        /\ i \notin todo
        /\ i \in Messages => status[i] = "QUEUED"
        /\ i \in Masses => status[i] = "none"
        /\ \A w \in left[p] : sent[i][w] = 0
    BY <1>2, <1>6 DEF OnceOf, InHand
  <2>2. \A w \in left'[p] : sent'[i][w] = 0
    BY <1>1, <1>3, <1>4, <1>5, <2>1
  <2>3. \A w \in Users : sent'[i][w] <= 1
    BY <1>1, <1>2, <1>3, <2>1 DEF OnceOf
  <2> QED
    BY <1>1, <1>6, <2>1, <2>2, <2>3 DEF OnceOf, InHand, Unsent
<1>7. CASE i # item[p]
  <2>1. \A w \in Users : sent'[i][w] = sent[i][w]
    BY <1>3, <1>7
  <2>2. InHand(i)'
    BY <1>1, <1>2, <1>4, <1>5, <1>7, <2>1 DEF OnceOf, InHand
  <2>3. Unsent(i)'
    BY <1>1, <1>2, <2>1 DEF OnceOf, Unsent
  <2> QED
    BY <1>2, <2>1, <2>2, <2>3 DEF OnceOf
<1> QED
  BY <1>6, <1>7

\* What nothing cut short or raced is sent once, when the rows of the inbox are written.
LEMMA WriteInboxOnce == ASSUME Shape, Once, NEW p \in Procs, WriteInbox(p) PROVE Once'
<1> USE WriteInboxDoes, DisjointAssumption
<1>1. sent' = sent /\ cut \subseteq cut' /\ raced \subseteq raced'
  OBVIOUS
<1> SUFFICES ASSUME NEW i \in (Messages \cup Masses) \ (cut' \cup raced') PROVE OnceOf(i)'
  BY DEF Once
<1>2. OnceOf(i)
  BY <1>1 DEF Once
<1>3. \A q \in Procs : item'[q] = i => /\ item[q] = i /\ left'[q] \subseteq left[q]
                                       /\ status'[i] = status[i]
  BY <1>2 DEF OnceOf, InHand, Free, Begun, Now, Items, Shape, StatusOK
<1>4. i \in todo' => /\ \A q \in Procs : item'[q] # i
                     /\ i \in Messages => status'[i] = "QUEUED"
  BY <1>2, <1>3 DEF OnceOf, InHand, Unsent, Procs, Items, Shape, StatusOK, Calls, Holds
<1>5. status'[i] \in {"none", "DRAFT", "QUEUED"} /\ (\A q \in Procs : item'[q] # i) =>
        status[i] \in {"none", "DRAFT", "QUEUED"} /\ \A q \in Procs : item[q] # i
  BY <1>2 DEF OnceOf, InHand, Free, Begun, Now, Items, Shape, StatusOK, Outcome, Calls, Holds
<1> QED
  BY <1>1, <1>2, <1>3, <1>4, <1>5, OnceKept

\* What nothing cut short or raced is sent once, when a message is marked after its delivery.
LEMMA MarkMessageOnce ==
  ASSUME Shape, Once, NEW p \in Procs, MarkMessage(p)
  PROVE Once'
<1> USE MarkMessageDoes, DisjointAssumption
<1>1. sent' = sent /\ cut \subseteq cut' /\ raced \subseteq raced'
  OBVIOUS
<1> SUFFICES ASSUME NEW i \in (Messages \cup Masses) \ (cut' \cup raced') PROVE OnceOf(i)'
  BY DEF Once
<1>2. OnceOf(i)
  BY <1>1 DEF Once
<1>3. \A q \in Procs : item'[q] = i => /\ item[q] = i /\ left'[q] \subseteq left[q]
                                       /\ status'[i] = status[i]
  BY <1>2 DEF OnceOf, InHand, Free, Begun, Now, Items, Shape, StatusOK
<1>4. i \in todo' => /\ \A q \in Procs : item'[q] # i
                     /\ i \in Messages => status'[i] = "QUEUED"
  BY <1>2, <1>3 DEF OnceOf, InHand, Unsent, Procs, Items, Shape, StatusOK, Calls, Holds
<1>5. status'[i] \in {"none", "DRAFT", "QUEUED"} /\ (\A q \in Procs : item'[q] # i) =>
        status[i] \in {"none", "DRAFT", "QUEUED"} /\ \A q \in Procs : item[q] # i
  BY <1>2 DEF OnceOf, InHand, Free, Begun, Now, Items, Shape, StatusOK, Outcome, Calls, Holds
<1> QED
  BY <1>1, <1>2, <1>3, <1>4, <1>5, OnceKept

\* What nothing cut short or raced is sent once, when a reminder is logged.
LEMMA LogReminderOnce ==
  ASSUME Shape, Once, NEW p \in Procs, LogReminder(p)
  PROVE Once'
<1> USE LogReminderDoes, DisjointAssumption
<1>1. sent' = sent /\ cut \subseteq cut' /\ raced \subseteq raced'
  OBVIOUS
<1> SUFFICES ASSUME NEW i \in (Messages \cup Masses) \ (cut' \cup raced') PROVE OnceOf(i)'
  BY DEF Once
<1>2. OnceOf(i)
  BY <1>1 DEF Once
<1>3. \A q \in Procs : item'[q] = i => /\ item[q] = i /\ left'[q] \subseteq left[q]
                                       /\ status'[i] = status[i]
  BY <1>2 DEF OnceOf, InHand, Free, Begun, Now, Items, Shape, StatusOK
<1>4. i \in todo' => /\ \A q \in Procs : item'[q] # i
                     /\ i \in Messages => status'[i] = "QUEUED"
  BY <1>2, <1>3 DEF OnceOf, InHand, Unsent, Procs, Items, Shape, StatusOK, Calls, Holds
<1>5. status'[i] \in {"none", "DRAFT", "QUEUED"} /\ (\A q \in Procs : item'[q] # i) =>
        status[i] \in {"none", "DRAFT", "QUEUED"} /\ \A q \in Procs : item[q] # i
  BY <1>2 DEF OnceOf, InHand, Free, Begun, Now, Items, Shape, StatusOK, Outcome, Calls, Holds
<1> QED
  BY <1>1, <1>2, <1>3, <1>4, <1>5, OnceKept

\* What nothing cut short or raced is sent once, when a delivery is cut short.
LEMMA FailOnce == ASSUME Shape, Once, NEW p \in Procs, Fail(p) PROVE Once'
<1> USE FailDoes, DisjointAssumption
<1>1. sent' = sent /\ cut \subseteq cut' /\ raced \subseteq raced'
  OBVIOUS
<1> SUFFICES ASSUME NEW i \in (Messages \cup Masses) \ (cut' \cup raced') PROVE OnceOf(i)'
  BY DEF Once
<1>2. OnceOf(i)
  BY <1>1 DEF Once
<1>3. \A q \in Procs : item'[q] = i => /\ item[q] = i /\ left'[q] \subseteq left[q]
                                       /\ status'[i] = status[i]
  BY <1>2 DEF OnceOf, InHand, Free, Begun, Now, Items, Shape, StatusOK
<1>4. i \in todo' => /\ \A q \in Procs : item'[q] # i
                     /\ i \in Messages => status'[i] = "QUEUED"
  BY <1>2, <1>3 DEF OnceOf, InHand, Unsent, Procs, Items, Shape, StatusOK, Calls, Holds
<1>5. status'[i] \in {"none", "DRAFT", "QUEUED"} /\ (\A q \in Procs : item'[q] # i) =>
        status[i] \in {"none", "DRAFT", "QUEUED"} /\ \A q \in Procs : item[q] # i
  BY <1>2 DEF OnceOf, InHand, Free, Begun, Now, Items, Shape, StatusOK, Outcome, Calls, Holds
<1> QED
  BY <1>1, <1>2, <1>3, <1>4, <1>5, OnceKept

\* What nothing cut short or raced is sent once, when the tick begins.
LEMMA TickOnce == ASSUME Shape, Once, Tick PROVE Once'
<1> USE TickDoes, DisjointAssumption
<1>1. sent' = sent /\ cut \subseteq cut' /\ raced \subseteq raced'
  OBVIOUS
<1> SUFFICES ASSUME NEW i \in (Messages \cup Masses) \ (cut' \cup raced') PROVE OnceOf(i)'
  BY DEF Once
<1>2. OnceOf(i)
  BY <1>1 DEF Once
<1>3. \A q \in Procs : item'[q] = i => /\ item[q] = i /\ left'[q] \subseteq left[q]
                                       /\ status'[i] = status[i]
  BY <1>2 DEF OnceOf, InHand, Free, Begun, Now, Items, Shape, StatusOK
<1>4. i \in todo' => /\ \A q \in Procs : item'[q] # i
                     /\ i \in Messages => status'[i] = "QUEUED"
  BY <1>2, <1>3 DEF OnceOf, InHand, Unsent, Procs, Items, Shape, StatusOK, Calls, Holds
<1>5. status'[i] \in {"none", "DRAFT", "QUEUED"} /\ (\A q \in Procs : item'[q] # i) =>
        status[i] \in {"none", "DRAFT", "QUEUED"} /\ \A q \in Procs : item[q] # i
  BY <1>2 DEF OnceOf, InHand, Free, Begun, Now, Items, Shape, StatusOK, Outcome, Calls, Holds
<1> QED
  BY <1>1, <1>2, <1>3, <1>4, <1>5, OnceKept

\* What nothing cut short or raced is sent once, when the tick claims.
LEMMA ClaimOnce == ASSUME Shape, Once, Claim PROVE Once'
<1> USE ClaimDoes, DisjointAssumption
<1>1. sent' = sent /\ cut \subseteq cut' /\ raced \subseteq raced'
  OBVIOUS
<1> SUFFICES ASSUME NEW i \in (Messages \cup Masses) \ (cut' \cup raced') PROVE OnceOf(i)'
  BY DEF Once
<1>2. OnceOf(i)
  BY <1>1 DEF Once
<1>3. \A q \in Procs : item'[q] = i => /\ item[q] = i /\ left'[q] \subseteq left[q]
                                       /\ status'[i] = status[i]
  BY <1>2 DEF OnceOf, InHand, Free, Begun, Now, Items, Shape, StatusOK
<1>4. i \in todo' => /\ \A q \in Procs : item'[q] # i
                     /\ i \in Messages => status'[i] = "QUEUED"
  BY <1>2, <1>3 DEF OnceOf, InHand, Unsent, Procs, Items, Shape, StatusOK, Calls, Holds
<1>5. status'[i] \in {"none", "DRAFT", "QUEUED"} /\ (\A q \in Procs : item'[q] # i) =>
        status[i] \in {"none", "DRAFT", "QUEUED"} /\ \A q \in Procs : item[q] # i
  BY <1>2 DEF OnceOf, InHand, Free, Begun, Now, Items, Shape, StatusOK, Outcome, Calls, Holds
<1> QED
  BY <1>1, <1>2, <1>3, <1>4, <1>5, OnceKept

\* What nothing cut short or raced is sent once, when the tick reads the queued messages.
LEMMA FindMessagesOnce == ASSUME Shape, Once, FindMessages PROVE Once'
<1> USE FindMessagesDoes, DisjointAssumption
<1>1. sent' = sent /\ cut \subseteq cut' /\ raced \subseteq raced'
  OBVIOUS
<1> SUFFICES ASSUME NEW i \in (Messages \cup Masses) \ (cut' \cup raced') PROVE OnceOf(i)'
  BY DEF Once
<1>2. OnceOf(i)
  BY <1>1 DEF Once
<1>3. \A q \in Procs : item'[q] = i => /\ item[q] = i /\ left'[q] \subseteq left[q]
                                       /\ status'[i] = status[i]
  BY <1>2 DEF OnceOf, InHand, Free, Begun, Now, Items, Shape, StatusOK
<1>4. i \in todo' => /\ \A q \in Procs : item'[q] # i
                     /\ i \in Messages => status'[i] = "QUEUED"
  BY <1>2, <1>3 DEF OnceOf, InHand, Unsent, Procs, Items, Shape, StatusOK, Calls, Holds
<1>5. status'[i] \in {"none", "DRAFT", "QUEUED"} /\ (\A q \in Procs : item'[q] # i) =>
        status[i] \in {"none", "DRAFT", "QUEUED"} /\ \A q \in Procs : item[q] # i
  BY <1>2 DEF OnceOf, InHand, Free, Begun, Now, Items, Shape, StatusOK, Outcome, Calls, Holds
<1> QED
  BY <1>1, <1>2, <1>3, <1>4, <1>5, OnceKept

\* What nothing cut short or raced is sent once, when the tick takes the next message.
LEMMA NextMessageOnce == ASSUME Shape, Once, NextMessage PROVE Once'
<1>1. PICK m \in Messages :
        /\ m \in todo /\ todo' = todo \ {m} /\ item[Cron] = None
        /\ Begun(Cron, m)
        /\ UNCHANGED <<status, sent, cut, raced>>
  BY NextMessageDoes
<1> SUFFICES ASSUME NEW i \in (Messages \cup Masses) \ (cut' \cup raced') PROVE OnceOf(i)'
  BY DEF Once
<1>2. OnceOf(i)
  BY <1>1 DEF Once
<1>3. i = m => \A q \in Procs : item[q] # i
  BY <1>1, <1>2 DEF OnceOf, InHand
<1>4. CASE i = m /\ Begun(Cron, m)
  <2>1. status[i] = "QUEUED"
    BY <1>1, <1>2, <1>3, <1>4, DisjointAssumption DEF OnceOf, Unsent, Shape, StatusOK
  <2>2. \A u \in Users : sent[i][u] = 0
    BY <1>2, <1>3, <1>4, <2>1 DEF OnceOf, Unsent
  <2> QED
    BY <1>1, <1>3, <1>4, <2>1, <2>2, OnceBegun, DisjointAssumption DEF Procs
<1>5. CASE i # m
  <2>1. \A q \in Procs :
          item'[q] = i => item[q] = i /\ left'[q] \subseteq left[q] /\ status'[i] = status[i]
    BY <1>1, <1>5, DisjointAssumption DEF Free, Begun, Now, Items
  <2>2. i \in todo' => /\ \A q \in Procs : item'[q] # i
                       /\ i \in Messages => status'[i] = "QUEUED"
    BY <1>1, <1>2, <2>1 DEF OnceOf, InHand, Unsent
  <2>3. status'[i] \in {"none", "DRAFT", "QUEUED"} /\ (\A q \in Procs : item'[q] # i) =>
          status[i] \in {"none", "DRAFT", "QUEUED"} /\ \A q \in Procs : item[q] # i
    BY <1>1, <1>5, DisjointAssumption DEF Free, Begun, Now, Items
  <2> QED
    BY <1>1, <1>2, <2>1, <2>2, <2>3, OnceKept
<1> QED
  BY <1>1, <1>4, <1>5

\* What nothing cut short or raced is sent once, when the tick reads the Masses that are near.
LEMMA FindMassesOnce == ASSUME Shape, Once, FindMasses PROVE Once'
<1> USE FindMassesDoes, DisjointAssumption
<1>1. sent' = sent /\ cut \subseteq cut' /\ raced \subseteq raced'
  OBVIOUS
<1> SUFFICES ASSUME NEW i \in (Messages \cup Masses) \ (cut' \cup raced') PROVE OnceOf(i)'
  BY DEF Once
<1>2. OnceOf(i)
  BY <1>1 DEF Once
<1>3. \A q \in Procs : item'[q] = i => /\ item[q] = i /\ left'[q] \subseteq left[q]
                                       /\ status'[i] = status[i]
  BY <1>2 DEF OnceOf, InHand, Free, Begun, Now, Items, Shape, StatusOK
<1>4. i \in todo' => /\ \A q \in Procs : item'[q] # i
                     /\ i \in Messages => status'[i] = "QUEUED"
  BY <1>2, <1>3 DEF OnceOf, InHand, Unsent, Procs, Items, Shape, StatusOK, Calls, Holds
<1>5. status'[i] \in {"none", "DRAFT", "QUEUED"} /\ (\A q \in Procs : item'[q] # i) =>
        status[i] \in {"none", "DRAFT", "QUEUED"} /\ \A q \in Procs : item[q] # i
  BY <1>2 DEF OnceOf, InHand, Free, Begun, Now, Items, Shape, StatusOK, Outcome, Calls, Holds
<1> QED
  BY <1>1, <1>2, <1>3, <1>4, <1>5, OnceKept

\* What nothing cut short or raced is sent once, when the tick takes the next Mass.
LEMMA NextMassOnce == ASSUME Shape, Once, NextMass PROVE Once'
<1>1. PICK m \in Masses :
        /\ m \in todo /\ todo' = todo \ {m} /\ item[Cron] = None
        /\ Free(Cron, "masses") \/ (status[m] # "logged" /\ Begun(Cron, m))
        /\ UNCHANGED <<status, sent, cut, raced>>
  BY NextMassDoes
<1> SUFFICES ASSUME NEW i \in (Messages \cup Masses) \ (cut' \cup raced') PROVE OnceOf(i)'
  BY DEF Once
<1>2. OnceOf(i)
  BY <1>1 DEF Once
<1>3. i = m => \A q \in Procs : item[q] # i
  BY <1>1, <1>2 DEF OnceOf, InHand
<1>4. CASE i = m /\ status[m] # "logged" /\ Begun(Cron, m)
  <2>1. status[i] = "none"
    BY <1>1, <1>2, <1>3, <1>4, DisjointAssumption DEF OnceOf, Unsent, Shape, StatusOK
  <2>2. \A u \in Users : sent[i][u] = 0
    BY <1>2, <1>3, <1>4, <2>1 DEF OnceOf, Unsent
  <2> QED
    BY <1>1, <1>3, <1>4, <2>1, <2>2, OnceBegun, DisjointAssumption DEF Procs
<1>5. CASE Free(Cron, "masses") \/ i # m
  <2>1. \A q \in Procs :
          item'[q] = i => item[q] = i /\ left'[q] \subseteq left[q] /\ status'[i] = status[i]
    BY <1>1, <1>5, DisjointAssumption DEF Free, Begun, Now, Items
  <2>2. i \in todo' => /\ \A q \in Procs : item'[q] # i
                       /\ i \in Messages => status'[i] = "QUEUED"
    BY <1>1, <1>2, <2>1 DEF OnceOf, InHand, Unsent
  <2>3. status'[i] \in {"none", "DRAFT", "QUEUED"} /\ (\A q \in Procs : item'[q] # i) =>
          status[i] \in {"none", "DRAFT", "QUEUED"} /\ \A q \in Procs : item[q] # i
    BY <1>1, <1>5, DisjointAssumption DEF Free, Begun, Now, Items
  <2> QED
    BY <1>1, <1>2, <2>1, <2>2, <2>3, OnceKept
<1> QED
  BY <1>1, <1>4, <1>5

\* What nothing cut short or raced is sent once, when the tick ends.
LEMMA EndTickOnce == ASSUME Shape, Once, EndTick PROVE Once'
<1> USE EndTickDoes, DisjointAssumption
<1>1. sent' = sent /\ cut \subseteq cut' /\ raced \subseteq raced'
  OBVIOUS
<1> SUFFICES ASSUME NEW i \in (Messages \cup Masses) \ (cut' \cup raced') PROVE OnceOf(i)'
  BY DEF Once
<1>2. OnceOf(i)
  BY <1>1 DEF Once
<1>3. \A q \in Procs : item'[q] = i => /\ item[q] = i /\ left'[q] \subseteq left[q]
                                       /\ status'[i] = status[i]
  BY <1>2 DEF OnceOf, InHand, Free, Begun, Now, Items, Shape, StatusOK
<1>4. i \in todo' => /\ \A q \in Procs : item'[q] # i
                     /\ i \in Messages => status'[i] = "QUEUED"
  BY <1>2, <1>3 DEF OnceOf, InHand, Unsent, Procs, Items, Shape, StatusOK, Calls, Holds
<1>5. status'[i] \in {"none", "DRAFT", "QUEUED"} /\ (\A q \in Procs : item'[q] # i) =>
        status[i] \in {"none", "DRAFT", "QUEUED"} /\ \A q \in Procs : item[q] # i
  BY <1>2 DEF OnceOf, InHand, Free, Begun, Now, Items, Shape, StatusOK, Outcome, Calls, Holds
<1> QED
  BY <1>1, <1>2, <1>3, <1>4, <1>5, OnceKept

\* What nothing cut short or raced is sent once, when a query of the tick fails.
LEMMA AbortTickOnce == ASSUME Shape, Once, AbortTick PROVE Once'
<1> USE AbortTickDoes, DisjointAssumption
<1>1. sent' = sent /\ cut \subseteq cut' /\ raced \subseteq raced'
  OBVIOUS
<1> SUFFICES ASSUME NEW i \in (Messages \cup Masses) \ (cut' \cup raced') PROVE OnceOf(i)'
  BY DEF Once
<1>2. OnceOf(i)
  BY <1>1 DEF Once
<1>3. \A q \in Procs : item'[q] = i => /\ item[q] = i /\ left'[q] \subseteq left[q]
                                       /\ status'[i] = status[i]
  BY <1>2 DEF OnceOf, InHand, Free, Begun, Now, Items, Shape, StatusOK
<1>4. i \in todo' => /\ \A q \in Procs : item'[q] # i
                     /\ i \in Messages => status'[i] = "QUEUED"
  BY <1>2, <1>3 DEF OnceOf, InHand, Unsent, Procs, Items, Shape, StatusOK, Calls, Holds
<1>5. status'[i] \in {"none", "DRAFT", "QUEUED"} /\ (\A q \in Procs : item'[q] # i) =>
        status[i] \in {"none", "DRAFT", "QUEUED"} /\ \A q \in Procs : item[q] # i
  BY <1>2 DEF OnceOf, InHand, Free, Begun, Now, Items, Shape, StatusOK, Outcome, Calls, Holds
<1> QED
  BY <1>1, <1>2, <1>3, <1>4, <1>5, OnceKept

\* What nothing cut short or raced is sent once, when the process restarts.
LEMMA RestartOnce == ASSUME Shape, Once, Restart PROVE Once'
<1> SUFFICES ASSUME NEW i \in (Messages \cup Masses) \ (cut' \cup raced') PROVE OnceOf(i)'
  BY DEF Once
<1>1. /\ sent' = sent /\ status' = status /\ cut \subseteq cut' /\ raced' = raced /\ todo' = {}
      /\ \A q \in Procs : item'[q] = None /\ (pc[q] = "deliver" => item[q] \in cut')
  BY RestartDoes
<1>2. OnceOf(i)
  BY <1>1 DEF Once
<1>3. ASSUME NEW q \in Procs PROVE item[q] # i
  <2>1. pc[q] = "mark" => item[q] \in Notifs
    BY DEF Shape, Calls, Pages, Procs
  <2>2. item[q] = i => pc[q] \in {"deliver", "mark"}
    BY DisjointAssumption DEF Shape, Holds, Items
  <2> QED
    BY <1>1, <2>1, <2>2, DisjointAssumption
<1>4. i # None
  BY DisjointAssumption DEF Items
<1> QED
  BY <1>1, <1>2, <1>3, <1>4, OnceKept

\* What nothing cut short or raced is sent once, when an item falls due.
LEMMA FallDueOnce == ASSUME Shape, Once, FallDue PROVE Once'
<1> USE FallDueDoes, DisjointAssumption
<1>1. sent' = sent /\ cut \subseteq cut' /\ raced \subseteq raced'
  OBVIOUS
<1> SUFFICES ASSUME NEW i \in (Messages \cup Masses) \ (cut' \cup raced') PROVE OnceOf(i)'
  BY DEF Once
<1>2. OnceOf(i)
  BY <1>1 DEF Once
<1>3. \A q \in Procs : item'[q] = i => /\ item[q] = i /\ left'[q] \subseteq left[q]
                                       /\ status'[i] = status[i]
  BY <1>2 DEF OnceOf, InHand, Free, Begun, Now, Items, Shape, StatusOK
<1>4. i \in todo' => /\ \A q \in Procs : item'[q] # i
                     /\ i \in Messages => status'[i] = "QUEUED"
  BY <1>2, <1>3 DEF OnceOf, InHand, Unsent, Procs, Items, Shape, StatusOK, Calls, Holds
<1>5. status'[i] \in {"none", "DRAFT", "QUEUED"} /\ (\A q \in Procs : item'[q] # i) =>
        status[i] \in {"none", "DRAFT", "QUEUED"} /\ \A q \in Procs : item[q] # i
  BY <1>2 DEF OnceOf, InHand, Free, Begun, Now, Items, Shape, StatusOK, Outcome, Calls, Holds
<1> QED
  BY <1>1, <1>2, <1>3, <1>4, <1>5, OnceKept

\* What nothing cut short or raced is sent once, when a Mass comes too close.
LEMMA PassOnce == ASSUME Shape, Once, Pass PROVE Once'
<1> USE PassDoes, DisjointAssumption
<1>1. sent' = sent /\ cut \subseteq cut' /\ raced \subseteq raced'
  OBVIOUS
<1> SUFFICES ASSUME NEW i \in (Messages \cup Masses) \ (cut' \cup raced') PROVE OnceOf(i)'
  BY DEF Once
<1>2. OnceOf(i)
  BY <1>1 DEF Once
<1>3. \A q \in Procs : item'[q] = i => /\ item[q] = i /\ left'[q] \subseteq left[q]
                                       /\ status'[i] = status[i]
  BY <1>2 DEF OnceOf, InHand, Free, Begun, Now, Items, Shape, StatusOK
<1>4. i \in todo' => /\ \A q \in Procs : item'[q] # i
                     /\ i \in Messages => status'[i] = "QUEUED"
  BY <1>2, <1>3 DEF OnceOf, InHand, Unsent, Procs, Items, Shape, StatusOK, Calls, Holds
<1>5. status'[i] \in {"none", "DRAFT", "QUEUED"} /\ (\A q \in Procs : item'[q] # i) =>
        status[i] \in {"none", "DRAFT", "QUEUED"} /\ \A q \in Procs : item[q] # i
  BY <1>2 DEF OnceOf, InHand, Free, Begun, Now, Items, Shape, StatusOK, Outcome, Calls, Holds
<1> QED
  BY <1>1, <1>2, <1>3, <1>4, <1>5, OnceKept

\* At first nobody was sent anything.
LEMMA InitOnce == Init => Once
<1> SUFFICES ASSUME Init, NEW i \in Messages \cup Masses PROVE OnceOf(i)
  BY DEF Once
<1>1. i # None /\ \A p \in Procs : item[p] # i
  BY DisjointAssumption DEF Init, Items
<1>2. todo = {} /\ \A u \in Users : sent[i][u] = 0
  BY DEF Init, Items
<1> QED
  BY <1>1, <1>2 DEF OnceOf, InHand, Unsent

\* Every step keeps it true that what nothing cut short or raced is sent once.
LEMMA NextOnce == Shape /\ Once /\ [Next]_vars => Once'
<1> SUFFICES ASSUME Shape, Once, [Next]_vars PROVE Once'
  OBVIOUS
<1>1. CASE UNCHANGED vars
  BY <1>1 DEF Once, OnceOf, InHand, Unsent, vars, locals, history
<1>2. ASSUME NEW r \in Requests,
             CreateNotification(r) \/ Publish(r) \/ CreateCommunication(r) \/ MarkSent(r)
      PROVE  Once'
  BY <1>2, CreateNotificationOnce, PublishOnce, CreateCommunicationOnce, MarkSentOnce
<1>3. ASSUME NEW p \in Procs, Go(p) \/ Fail(p) PROVE Once'
  BY <1>3, DeliverOnce, WriteInboxOnce, MarkMessageOnce, LogReminderOnce, FailOnce DEF Go
<1>4. CASE Ticking
  BY <1>4, TickOnce, ClaimOnce, FindMessagesOnce, NextMessageOnce, FindMassesOnce,
     NextMassOnce, EndTickOnce DEF Ticking
<1>5. CASE AbortTick \/ Restart \/ FallDue \/ Pass
  BY <1>5, AbortTickOnce, RestartOnce, FallDueOnce, PassOnce
<1> QED
  BY <1>1, <1>2, <1>3, <1>4, <1>5 DEF Next

\* A message or a reminder that goes out twice to somebody was cut short by a fault, or
\* was found queued by the tick while a request sent it: there is no third way.
THEOREM RepeatsHaveCauses == Spec => []RepeatsExplained
<1>1. ASSUME Shape, Once PROVE RepeatsExplained
  <2>1. \A i \in (Messages \cup Masses) \ (cut \cup raced), u \in Users :
          sent[i][u] <= 1 /\ sent[i][u] \in Nat
    BY <1>1 DEF Once, OnceOf, Shape, SentOK, Items
  <2> QED
    BY <2>1 DEF RepeatsExplained
<1> QED
  BY InitOnce, NextOnce, ShapeHolds, <1>1, PTL DEF Spec
==============================================================================
