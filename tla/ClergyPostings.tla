---------------------------- MODULE ClergyPostings ----------------------------
(***************************************************************************)
(* Postings, transfer orders, leave and the status of priests:             *)
(* apps/api/src/modules/diocese/clergy.service.ts.  An institution stands  *)
(* with its parish; dates, titles and remarks are left out.                *)
(***************************************************************************)
EXTENDS Integers, FiniteSets

CONSTANTS
  Requests,    \* HTTP requests; a posting, an order and a leave carry the name of the
               \* request that wrote them
  Abortable,   \* the requests that may fail or be lost between two queries
  Priests, Parishes,
  NoPriest, NoPosting, NoOrder, NoParish, NoLeave, NoEvent, NoWork, NoOne

Kinds      == {"NEW", "TEMPORARY", "ADDITIONAL", "TRANSFER"}
OrderKinds == {"TRANSFER", "TEMPORARY", "ADDITIONAL"}
Statuses   == {"ACTIVE", "ON_LEAVE"}
Postings   == [priest: Priests, parish: Parishes, kind: Kinds, primary: BOOLEAN, current: BOOLEAN,
               order: Requests \cup {NoOrder}]
Orders     == [priest: Priests, from: Parishes \cup {NoParish}, to: Parishes, kind: OrderKinds,
               number: Nat, status: {"DRAFT", "COMPLETED"}]
Decisions  == {"APPROVED", "REJECTED", "CANCELLED"}
Leaves     == [priest: Priests, status: {"PENDING"} \cup Decisions]
Changes    == [priest: Priests, status: Statuses, found: Statuses]
Reviews    == [leave: Requests, decision: Decisions]
Moves      == [order: Requests, closing: SUBSET Requests]
Stages     == {"idle", "close", "open", "number", "insert", "transfer", "commit", "set", "onleave",
               "log", "decide", "done", "failed"}

ASSUME NullsAssumption ==
  /\ NoPriest \notin Statuses /\ NoEvent \notin Statuses
  /\ NoPosting \notin Postings /\ NoLeave \notin Leaves
  /\ NoOrder \notin Orders \cup Requests /\ NoOne \notin Requests
ASSUME RequestsAssumption == IsFiniteSet(Requests)

VARIABLES
  priest,    \* Priest.status, or no such row
  logged,    \* the last PriestStatusEvent of a priest
  posting,   \* PriestAssignment
  order,     \* PriestTransfer
  leave,     \* PriestLeaveRequest
  pc,        \* the next query of each request
  work,      \* what the request holds between two of its queries
  saw,       \* history: the postings there were when the request began
  ended,     \* history: the request that closed a posting
  edited,    \* history: the postings changed by hand
  reset,     \* history: the orders given another status after they were carried out
  crossed    \* history: the priests two status changes overlapped on, or one was cut

history == <<saw, ended, edited, reset, crossed>>
vars    == <<priest, logged, posting, order, leave, pc, work, history>>

Goto(r, stage) == pc' = [pc EXCEPT ![r] = stage]
Hold(r, thing) == work' = [work EXCEPT ![r] = thing]
Written(table, none) == {r \in Requests : table[r] # none}
PostingsOf(p)  == {q \in Written(posting, NoPosting) : posting[q].priest = p}
CurrentOf(p)   == {q \in PostingsOf(p) : posting[q].current}
PrimaryOf(p)   == {q \in CurrentOf(p) : posting[q].primary}
Begin(r)       == saw' = [saw EXCEPT ![r] = Written(posting, NoPosting)]

\* Closes the postings in closing: they are not current any more.
Close(r, closing) ==
  ended' = [q \in Requests |-> IF q \in closing THEN r ELSE ended[q]]
Closed(closing) == [q \in Requests |-> IF q \in closing THEN [posting[q] EXCEPT !.current = FALSE]
                                       ELSE posting[q]]

-----------------------------------------------------------------------------
(* Priests and their postings *)

\* A priest entered with a parish is posted there in a second query.
CreatePriest(r) ==
  /\ pc[r] = "idle"
  /\ \E p \in Priests, s \in Statuses :
       /\ priest[p] = NoPriest
       /\ priest' = [priest EXCEPT ![p] = s]
       /\ \/ /\ \E a \in Parishes, b \in BOOLEAN :
                  Hold(r, [priest |-> p, parish |-> a, kind |-> "NEW", primary |-> b,
                           current |-> TRUE, order |-> NoOrder])
             /\ Goto(r, "open")
          \/ Goto(r, "done") /\ UNCHANGED work
  /\ Begin(r)
  /\ UNCHANGED <<logged, posting, order, leave, ended, edited, reset, crossed>>

\* An appointment that is to be the current primary one closes the others first, be it
\* for a time only.
Supersedes(new) == new.current /\ new.primary /\ new.kind # "ADDITIONAL"

Appoint(r) ==
  /\ pc[r] = "idle"
  /\ \E p \in Priests, a \in Parishes, k \in Kinds \ {"TRANSFER"}, b, c \in BOOLEAN :
       LET new == [priest |-> p, parish |-> a, kind |-> k, primary |-> b, current |-> c,
                   order |-> NoOrder] IN
       /\ priest[p] # NoPriest
       /\ Hold(r, new)
       /\ Goto(r, IF Supersedes(new) THEN "close" ELSE "open")
  /\ Begin(r)
  /\ UNCHANGED <<priest, logged, posting, order, leave, ended, edited, reset, crossed>>

\* Mutant: only the posting at the new parish is closed.
ClosePrimaryHere(r) ==
  LET closing == {q \in PrimaryOf(work[r].priest) : posting[q].parish = work[r].parish} IN
  /\ pc[r] = "close"
  /\ posting' = Closed(closing) /\ Close(r, closing)
  /\ Goto(r, "open")
  /\ UNCHANGED <<priest, logged, order, leave, work, saw, edited, reset, crossed>>

ClosePrimary(r) ==
  LET closing == PrimaryOf(work[r].priest) IN
  /\ pc[r] = "close"
  /\ posting' = Closed(closing) /\ Close(r, closing)
  /\ Goto(r, "open")
  /\ UNCHANGED <<priest, logged, order, leave, work, saw, edited, reset, crossed>>

OpenPosting(r) ==
  /\ pc[r] = "open"
  /\ posting' = [posting EXCEPT ![r] = work[r]]
  /\ Goto(r, "done") /\ Hold(r, NoWork)
  /\ UNCHANGED <<priest, logged, order, leave, history>>

\* Any field of a posting may be set by hand.
EditPosting(r) ==
  /\ pc[r] = "idle"
  /\ \E q \in Written(posting, NoPosting), b, c \in BOOLEAN :
       /\ posting' = [posting EXCEPT ![q].primary = b, ![q].current = c]
       /\ edited' = edited \cup {q}
  /\ Goto(r, "done")
  /\ UNCHANGED <<priest, logged, order, leave, work, saw, ended, reset, crossed>>

-----------------------------------------------------------------------------
(* Transfer orders *)

\* The parish a priest leaves: the one named or that of a current posting; none when
\* none is named and he has no posting.
FromParishes(p) == IF CurrentOf(p) = {} THEN Parishes \cup {NoParish} ELSE Parishes

CreateTransfer(r) ==
  /\ pc[r] = "idle"
  /\ \E p \in Priests, k \in OrderKinds, to \in Parishes, s \in {"DRAFT", "COMPLETED"} :
     \E from \in FromParishes(p) :
       /\ priest[p] # NoPriest
       /\ Hold(r, [priest |-> p, from |-> from, to |-> to, kind |-> k, number |-> 0, status |-> s])
  /\ Goto(r, "number") /\ Begin(r)
  /\ UNCHANGED <<priest, logged, posting, order, leave, ended, edited, reset, crossed>>

NextOrderNo(r) ==
  /\ pc[r] = "number"
  /\ work' = [work EXCEPT ![r].number = Cardinality(Written(order, NoOrder)) + 1]
  /\ Goto(r, "insert")
  /\ UNCHANGED <<priest, logged, posting, order, leave, history>>

Taken(n) == \E o \in Written(order, NoOrder) : order[o].number = n

\* The order is written with its final status; only then is the caller's right to
\* complete it looked at.  A number that is taken fails the insert.
InsertTransfer(r) ==
  /\ pc[r] = "insert"
  /\ IF Taken(work[r].number)
     THEN Goto(r, "failed") /\ Hold(r, NoWork) /\ UNCHANGED order
     ELSE /\ order' = [order EXCEPT ![r] = work[r]]
          /\ IF work[r].status = "COMPLETED"
             THEN \/ Goto(r, "transfer") /\ Hold(r, [order |-> r, closing |-> {}])
                  \/ Goto(r, "failed") /\ Hold(r, NoWork)
             ELSE Goto(r, "done") /\ Hold(r, NoWork)
  /\ UNCHANGED <<priest, logged, posting, leave, history>>

\* Another status than COMPLETED is written over whatever the order had.
UpdateTransferStatus(r) ==
  /\ pc[r] = "idle"
  /\ \E o \in Written(order, NoOrder) :
       \/ /\ order' = [order EXCEPT ![o].status = "DRAFT"]
          /\ reset' = reset \cup {o}
          /\ Goto(r, "done") /\ UNCHANGED work
       \/ /\ Goto(r, "transfer") /\ Hold(r, [order |-> o, closing |-> {}])
          /\ UNCHANGED <<order, reset>>
  /\ Begin(r)
  /\ UNCHANGED <<priest, logged, posting, leave, ended, edited, crossed>>

\* The postings an order ends.
Ends(o) == {q \in CurrentOf(order[o].priest) :
              posting[q].primary \/ posting[q].parish = order[o].from}

\* Mutant: the postings are closed outside the transaction.
BeginOutside(r) ==
  /\ pc[r] = "transfer"
  /\ posting' = Closed(Ends(work[r].order)) /\ Close(r, Ends(work[r].order))
  /\ Goto(r, "commit")
  /\ UNCHANGED <<priest, logged, order, leave, work, saw, edited, reset, crossed>>

\* The transaction's first statement settles which postings it ends.
BeginTransfer(r) ==
  /\ pc[r] = "transfer"
  /\ work' = [work EXCEPT ![r].closing = Ends(work[r].order)]
  /\ Goto(r, "commit")
  /\ UNCHANGED <<priest, logged, posting, order, leave, history>>

\* A status change is under way that has been read for, or written and not logged yet.
Changing(p) == {r \in Requests :
                  pc[r] \in {"set", "onleave", "log"} /\ work[r].priest = p}
Cross(p, r) == crossed' = IF Changing(p) \subseteq {r} THEN crossed ELSE crossed \cup {p}

Assignment(o) ==
  [priest |-> order[o].priest, parish |-> order[o].to, kind |-> order[o].kind,
   primary |-> order[o].kind # "ADDITIONAL", current |-> TRUE, order |-> o]

\* Mutant: the order is not marked; its first status stands.
CommitUnmarked(r) ==
  LET o == work[r].order  closing == work[r].closing \cap Ends(o)  p == order[o].priest IN
  /\ pc[r] = "commit"
  /\ posting' = [Closed(closing) EXCEPT ![r] = Assignment(o)] /\ Close(r, closing)
  /\ priest' = [priest EXCEPT ![p] = "ACTIVE"]
  /\ logged' = [logged EXCEPT ![p] = "ACTIVE"]
  /\ Cross(p, r)
  /\ Goto(r, "done") /\ Hold(r, NoWork)
  /\ UNCHANGED <<order, leave, saw, edited, reset>>

\* Mutant: the status is reset and no event written.
CommitUnlogged(r) ==
  LET o == work[r].order  closing == work[r].closing \cap Ends(o)  p == order[o].priest IN
  /\ pc[r] = "commit"
  /\ posting' = [Closed(closing) EXCEPT ![r] = Assignment(o)] /\ Close(r, closing)
  /\ priest' = [priest EXCEPT ![p] = "ACTIVE"]
  /\ order' = [order EXCEPT ![o].status = "COMPLETED"]
  /\ Cross(p, r)
  /\ Goto(r, "done") /\ Hold(r, NoWork)
  /\ UNCHANGED <<logged, leave, saw, edited, reset>>

\* It commits: those still open are closed, the new posting, the order and the status
\* are written.  A posting opened after the first statement is not seen.
CompleteTransfer(r) ==
  LET o == work[r].order  closing == work[r].closing \cap Ends(o)  p == order[o].priest IN
  /\ pc[r] = "commit"
  /\ posting' = [Closed(closing) EXCEPT ![r] = Assignment(o)] /\ Close(r, closing)
  /\ priest' = [priest EXCEPT ![p] = "ACTIVE"]
  /\ logged' = [logged EXCEPT ![p] = "ACTIVE"]
  /\ order' = [order EXCEPT ![o].status = "COMPLETED"]
  /\ Cross(p, r)
  /\ Goto(r, "done") /\ Hold(r, NoWork)
  /\ UNCHANGED <<leave, saw, edited, reset>>

-----------------------------------------------------------------------------
(* Status and leave *)

\* PATCH /priests/:id reads the row, to see later whether the status is another one.
UpdatePriest(r) ==
  /\ pc[r] = "idle"
  /\ \E p \in Priests, s \in Statuses :
       /\ priest[p] # NoPriest
       /\ Hold(r, [priest |-> p, status |-> s, found |-> priest[p]])
  /\ Goto(r, "set")
  /\ UNCHANGED <<priest, logged, posting, order, leave, history>>

SetStatus(r) ==
  /\ pc[r] \in {"set", "onleave"}
  /\ priest' = [priest EXCEPT ![work[r].priest] = work[r].status]
  /\ Cross(work[r].priest, r)
  /\ IF pc[r] = "onleave" \/ work[r].status # work[r].found
     THEN Goto(r, "log") /\ UNCHANGED work
     ELSE Goto(r, "done") /\ Hold(r, NoWork)
  /\ UNCHANGED <<logged, posting, order, leave, saw, ended, edited, reset>>

LogStatus(r) ==
  /\ pc[r] = "log"
  /\ logged' = [logged EXCEPT ![work[r].priest] = work[r].status]
  /\ Goto(r, "done") /\ Hold(r, NoWork)
  /\ UNCHANGED <<priest, posting, order, leave, history>>

RequestLeave(r) ==
  /\ pc[r] = "idle"
  /\ \E p \in Priests :
       /\ priest[p] # NoPriest
       /\ leave' = [leave EXCEPT ![r] = [priest |-> p, status |-> "PENDING"]]
  /\ Goto(r, "done")
  /\ UNCHANGED <<priest, logged, posting, order, work, history>>

\* Only a pending leave is decided, but any may be cancelled.
ReviewLeave(r) ==
  /\ pc[r] = "idle"
  /\ \E l \in Written(leave, NoLeave), d \in Decisions :
       IF leave[l].status = "PENDING" \/ d = "CANCELLED"
       THEN Goto(r, "decide") /\ Hold(r, [leave |-> l, decision |-> d])
       ELSE Goto(r, "failed") /\ UNCHANGED work
  /\ UNCHANGED <<priest, logged, posting, order, leave, history>>

DecideLeave(r) ==
  LET l == work[r].leave  p == leave[l].priest IN
  /\ pc[r] = "decide"
  /\ leave' = [leave EXCEPT ![l].status = work[r].decision]
  /\ IF work[r].decision = "APPROVED"
     THEN Goto(r, "onleave") /\ Hold(r, [priest |-> p, status |-> "ON_LEAVE", found |-> "ON_LEAVE"])
     ELSE Goto(r, "done") /\ Hold(r, NoWork)
  /\ UNCHANGED <<priest, logged, posting, order, history>>

-----------------------------------------------------------------------------
\* A query that fails, a restart or a lost connection ends a request; the transaction
\* of a transfer is rolled back.
Abort(r) ==
  /\ r \in Abortable
  /\ pc[r] \notin {"idle", "done", "failed"}
  /\ crossed' = IF pc[r] = "log" THEN crossed \cup {work[r].priest} ELSE crossed
  /\ Goto(r, "failed") /\ Hold(r, NoWork)
  /\ UNCHANGED <<priest, logged, posting, order, leave, saw, ended, edited, reset>>

Init ==
  /\ priest \in [Priests -> {NoPriest, "ACTIVE"}]
  /\ logged = [p \in Priests |-> NoEvent]
  /\ posting = [q \in Requests |-> NoPosting]
  /\ order = [o \in Requests |-> NoOrder]
  /\ leave = [l \in Requests |-> NoLeave]
  /\ pc = [r \in Requests |-> "idle"]
  /\ work = [r \in Requests |-> NoWork]
  /\ saw = [r \in Requests |-> {}]
  /\ ended = [q \in Requests |-> NoOne]
  /\ edited = {} /\ reset = {} /\ crossed = {}

Next == \E r \in Requests :
  \/ CreatePriest(r) \/ Appoint(r) \/ ClosePrimary(r) \/ OpenPosting(r) \/ EditPosting(r)
  \/ CreateTransfer(r) \/ NextOrderNo(r) \/ InsertTransfer(r) \/ UpdateTransferStatus(r)
  \/ BeginTransfer(r) \/ CompleteTransfer(r)
  \/ UpdatePriest(r) \/ SetStatus(r) \/ LogStatus(r) \/ RequestLeave(r) \/ ReviewLeave(r)
  \/ DecideLeave(r) \/ Abort(r)

Spec == Init /\ [][Next]_vars

-----------------------------------------------------------------------------
(* Properties *)

\* The tables, and what a request holds at each of its stages, have their types.
TablesOK ==
  /\ priest \in [Priests -> Statuses \cup {NoPriest}]
  /\ logged \in [Priests -> Statuses \cup {NoEvent}]
  /\ posting \in [Requests -> Postings \cup {NoPosting}]
  /\ order \in [Requests -> Orders \cup {NoOrder}]
  /\ leave \in [Requests -> Leaves \cup {NoLeave}]
  /\ saw \in [Requests -> SUBSET Requests]
  /\ ended \in [Requests -> Requests \cup {NoOne}]
  /\ edited \subseteq Requests /\ reset \subseteq Requests /\ crossed \subseteq Priests
HoldsOK(r) ==
  /\ pc[r] \in {"close", "open"} => work[r] \in Postings
  /\ pc[r] \in {"number", "insert"} => work[r] \in Orders
  /\ pc[r] \in {"transfer", "commit"} => work[r] \in Moves /\ order[work[r].order] # NoOrder
  /\ pc[r] \in {"set", "onleave", "log"} => work[r] \in Changes
  /\ pc[r] = "decide" => work[r] \in Reviews /\ leave[work[r].leave] # NoLeave
TypeOK ==
  /\ TablesOK
  /\ pc \in [Requests -> Stages]
  /\ work \in [Requests -> Postings \cup Orders \cup Moves \cup Changes \cup Reviews \cup {NoWork}]
  /\ \A r \in Requests : HoldsOK(r)

\* A priest has two current primary postings only where the two appointments overlapped,
\* one is an additional charge called primary, or one was edited by hand: an order
\* completed twice, one after the other, does not double him (642-655, 841-878).  A
\* temporary appointment is no exception: it closes the posting it overlays, as 642 spares
\* ADDITIONAL alone, and the comment above it (641), which spares both, is not followed.
OnePrimary ==
  \A p \in Priests : \A q1, q2 \in PrimaryOf(p) :
    \/ q1 = q2
    \/ q1 \notin saw[q2] /\ q2 \notin saw[q1]
    \/ "ADDITIONAL" \in {posting[q1].kind, posting[q2].kind}
    \/ {q1, q2} \cap edited # {}

\* A posting closed by a transfer has its successor (one transaction); one closed by an
\* appointment has it, or the request is before its second query or was cut there.
Succeeded ==
  \A q \in Requests : ended[q] # NoOne =>
    LET r == ended[q] IN
    \/ posting[r] # NoPosting /\ posting[r].priest = posting[q].priest
    \/ pc[r] = "open" \/ (pc[r] = "failed" /\ order[r] = NoOrder)

\* An order says COMPLETED when somebody was posted by it, except one written as
\* completed by a request that is not there yet, was refused or was cut (795-821); and
\* one that posted somebody says so unless its status was written over (965-975).
OrdersCarriedOut ==
  \A o \in Written(order, NoOrder) :
    LET carried == \E q \in Written(posting, NoPosting) : posting[q].order = o IN
    /\ order[o].status = "COMPLETED" => carried \/ pc[o] \in {"transfer", "commit", "failed"}
    /\ carried => order[o].status = "COMPLETED" \/ o \in reset

\* The last event of a priest names his status once no change is under way, unless two
\* changes overlapped or one was cut before its event (549-600, 1219-1236).
StatusLogged ==
  \A p \in Priests :
    \/ priest[p] = NoPriest \/ p \in crossed \/ logged[p] = NoEvent
    \/ \E r \in Changing(p) : pc[r] = "log"
    \/ logged[p] = priest[p]
===============================================================================
