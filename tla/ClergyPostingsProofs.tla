------------------------- MODULE ClergyPostingsProofs -------------------------
(***************************************************************************)
(* Proofs about ClergyPostings, for any number of requests, priests and    *)
(* parishes: the types, who holds a primary posting, what a closed posting *)
(* leaves behind, what an order's status and a priest's last event say.    *)
(***************************************************************************)
EXTENDS ClergyPostings, FiniteSetTheorems, TLAPS

Works == Postings \cup Orders \cup Moves \cup Changes \cup Reviews \cup {NoWork}

\* The steps: of the postings, of the transfer orders, of status and leave.
PostingStep(r) == CreatePriest(r) \/ Appoint(r) \/ ClosePrimary(r) \/ OpenPosting(r) \/ EditPosting(r)
OrderStep(r)   == \/ CreateTransfer(r) \/ NextOrderNo(r) \/ InsertTransfer(r) \/ UpdateTransferStatus(r)
                  \/ BeginTransfer(r) \/ CompleteTransfer(r)
StatusStep(r)  == \/ UpdatePriest(r) \/ SetStatus(r) \/ LogStatus(r) \/ RequestLeave(r) \/ ReviewLeave(r)
                  \/ DecideLeave(r) \/ Abort(r)
Step(r)        == PostingStep(r) \/ OrderStep(r) \/ StatusStep(r)

\* Next is a step of some request.
LEMMA Steps == Next <=> \E r \in Requests : Step(r)
  BY DEF Next, Step, PostingStep, OrderStep, StatusStep

\* At first only some priests are there.
LEMMA InitType == Init => TypeOK
<1> SUFFICES ASSUME Init PROVE TypeOK
  OBVIOUS
<1>1. priest \in [Priests -> Statuses \cup {NoPriest}] /\ logged \in [Priests -> Statuses \cup {NoEvent}]
  BY DEF Init, Statuses
<1>2. /\ posting \in [Requests -> Postings \cup {NoPosting}]
      /\ order \in [Requests -> Orders \cup {NoOrder}]
      /\ leave \in [Requests -> Leaves \cup {NoLeave}]
      /\ saw \in [Requests -> SUBSET Requests]
      /\ ended \in [Requests -> Requests \cup {NoOne}]
      /\ edited \subseteq Requests /\ reset \subseteq Requests /\ crossed \subseteq Priests
  BY DEF Init
<1>3. /\ work \in [Requests -> Works] /\ pc \in [Requests -> {"idle"}]
      /\ \A r \in Requests : pc[r] = "idle"
  BY DEF Init, Works
<1> QED
  BY <1>1, <1>2, <1>3 DEF TypeOK, TablesOK, HoldsOK, Stages, Works

\* What a step does to its request's locals, and to no other's: stage s is right for what
\* it holds then, w.
MovesTo(r, s, w) ==
  /\ s \in Stages /\ w \in Works
  /\ pc' = [pc EXCEPT ![r] = s]
  /\ work' = [work EXCEPT ![r] = w] \/ (work' = work /\ w = work[r])
  /\ s \in {"close", "open"} => w \in Postings
  /\ s \in {"number", "insert"} => w \in Orders
  /\ s \in {"transfer", "commit"} => w \in Moves /\ order'[w.order] # NoOrder
  /\ s \in {"set", "onleave", "log"} => w \in Changes
  /\ s = "decide" => w \in Reviews /\ leave'[w.leave] # NoLeave

\* No order and no leave goes away, so that a step that moves one request keeps what the
\* others hold.
RowsStay ==
  /\ \A o \in Requests : order[o] # NoOrder => order'[o] # NoOrder
  /\ \A l \in Requests : leave[l] # NoLeave => leave'[l] # NoLeave

\* A step keeps the types if it moves its request well and keeps the tables.
LEMMA MovesKeep ==
  ASSUME TypeOK, TablesOK', RowsStay, NEW r \in Requests, NEW s, NEW w, MovesTo(r, s, w)
  PROVE  TypeOK'
<1>1. ASSUME NEW q \in Requests PROVE HoldsOK(q)'
  <2>1. CASE q = r
    BY <2>1 DEF MovesTo, HoldsOK, TypeOK, Works
  <2>2. CASE q # r
    <3>1. pc'[q] = pc[q] /\ work'[q] = work[q] /\ HoldsOK(q)
      BY <2>2 DEF MovesTo, TypeOK
    <3>2. /\ work[q] \in Moves => work[q].order \in Requests
          /\ work[q] \in Reviews => work[q].leave \in Requests
      BY DEF Moves, Reviews
    <3> QED
      BY <3>1, <3>2 DEF HoldsOK, RowsStay
  <2> QED
    BY <2>1, <2>2
<1> QED
  BY <1>1 DEF TypeOK, MovesTo, Works

\* What is posted by an order, or closed, is a posting.
LEMMA PostingsTyped ==
  ASSUME TypeOK
  PROVE  /\ \A o \in Requests : order[o] # NoOrder => Assignment(o) \in Postings
         /\ \A closing : closing \subseteq Written(posting, NoPosting) =>
              Closed(closing) \in [Requests -> Postings \cup {NoPosting}]
<1>1. ASSUME NEW o \in Requests, order[o] # NoOrder PROVE Assignment(o) \in Postings
  <2>1. order[o] \in Orders
    BY <1>1 DEF TypeOK, TablesOK
  <2>2. (order[o].kind # "ADDITIONAL") \in BOOLEAN
    OBVIOUS
  <2> DEFINE b == order[o].kind # "ADDITIONAL"
  <2>3. b \in BOOLEAN
    BY <2>2
  <2> HIDE DEF b
  <2>4. [priest |-> order[o].priest, parish |-> order[o].to, kind |-> order[o].kind,
         primary |-> b, current |-> TRUE, order |-> o] \in Postings
    BY <2>1, <2>3 DEF Postings, Orders, Kinds, OrderKinds
  <2> QED
    BY <2>4 DEF Assignment, b
<1>2. ASSUME NEW closing, closing \subseteq Written(posting, NoPosting)
      PROVE  Closed(closing) \in [Requests -> Postings \cup {NoPosting}]
  <2>1. ASSUME NEW q \in closing PROVE [posting[q] EXCEPT !.current = FALSE] \in Postings
    <3>1. posting[q] \in Postings
      BY <1>2 DEF Written, TypeOK, TablesOK
    <3> QED
      BY <3>1 DEF Postings
  <2> QED
    BY <2>1 DEF Closed, TypeOK, TablesOK
<1> QED
  BY <1>1, <1>2

\* Every query moves its own request, to a stage that fits what it holds.
LEMMA Moved == ASSUME TypeOK, RowsStay, NEW r \in Requests, Step(r) PROVE \E s, w : MovesTo(r, s, w)
<1> USE DEF Goto, Hold, Stages, Works
<1>1. HoldsOK(r) /\ TablesOK /\ work[r] \in Works
  BY DEF TypeOK
<1>2. CASE CreatePriest(r)
  <2>1. \/ pc' = [pc EXCEPT ![r] = "done"] /\ work' = work
        \/ /\ pc' = [pc EXCEPT ![r] = "open"]
           /\ \E p \in Priests, a \in Parishes, b \in BOOLEAN :
                work' = [work EXCEPT ![r] = [priest |-> p, parish |-> a, kind |-> "NEW", primary |-> b,
                                             current |-> TRUE, order |-> NoOrder]]
    BY <1>2 DEF CreatePriest
  <2>2. CASE pc' = [pc EXCEPT ![r] = "done"] /\ work' = work
    <3>1. MovesTo(r, "done", work[r])
      BY <1>1, <2>2 DEF MovesTo
    <3> QED
      BY <3>1
  <2>3. CASE /\ pc' = [pc EXCEPT ![r] = "open"]
             /\ \E p \in Priests, a \in Parishes, b \in BOOLEAN :
                  work' = [work EXCEPT ![r] = [priest |-> p, parish |-> a, kind |-> "NEW", primary |-> b,
                                               current |-> TRUE, order |-> NoOrder]]
    <3>1. PICK p \in Priests, a \in Parishes, b \in BOOLEAN :
            work' = [work EXCEPT ![r] = [priest |-> p, parish |-> a, kind |-> "NEW", primary |-> b,
                                         current |-> TRUE, order |-> NoOrder]]
      BY <2>3
    <3> DEFINE w == [priest |-> p, parish |-> a, kind |-> "NEW", primary |-> b,
                     current |-> TRUE, order |-> NoOrder]
    <3>2. w \in Postings
      BY DEF Postings, Kinds
    <3> HIDE DEF w
    <3>3. MovesTo(r, "open", w)
      BY <1>1, <2>3, <3>1, <3>2 DEF MovesTo, w
    <3> QED
      BY <3>3
  <2> QED
    BY <2>1, <2>2, <2>3
<1>3. CASE Appoint(r)
  <2>1. PICK p \in Priests, a \in Parishes, k \in Kinds \ {"TRANSFER"}, b, c \in BOOLEAN :
          /\ priest[p] # NoPriest
          /\ work' = [work EXCEPT ![r] = [priest |-> p, parish |-> a, kind |-> k, primary |-> b,
                                          current |-> c, order |-> NoOrder]]
          /\ pc' = [pc EXCEPT ![r] =
                      IF Supersedes([priest |-> p, parish |-> a, kind |-> k, primary |-> b,
                                     current |-> c, order |-> NoOrder]) THEN "close" ELSE "open"]
    BY <1>3, Zenon DEF Appoint
  <2> DEFINE w == [priest |-> p, parish |-> a, kind |-> k, primary |-> b, current |-> c, order |-> NoOrder]
  <2>2. w \in Postings
    BY DEF Postings
  <2> HIDE DEF w
  <2>3. MovesTo(r, "close", w) \/ MovesTo(r, "open", w)
    BY <1>1, <2>1, <2>2 DEF MovesTo, w
  <2> QED
    BY <2>3
<1>4. CASE ClosePrimary(r)
  <2>1. MovesTo(r, "open", work[r])
    BY <1>1, <1>4 DEF ClosePrimary, MovesTo, HoldsOK
  <2> QED
    BY <2>1
<1>5. CASE OpenPosting(r)
  <2>1. MovesTo(r, "done", NoWork)
    BY <1>1, <1>5 DEF OpenPosting, MovesTo
  <2> QED
    BY <2>1
<1>6. CASE EditPosting(r)
  <2>1. MovesTo(r, "done", work[r])
    BY <1>1, <1>6 DEF EditPosting, MovesTo
  <2> QED
    BY <2>1
<1>7. CASE CreateTransfer(r)
  <2>1. PICK p \in Priests, k \in OrderKinds, to \in Parishes, s \in {"DRAFT", "COMPLETED"} :
          \E from \in FromParishes(p) :
            /\ priest[p] # NoPriest
            /\ work' = [work EXCEPT ![r] =
                          [priest |-> p, from |-> from, to |-> to, kind |-> k, number |-> 0, status |-> s]]
    BY <1>7, Zenon DEF CreateTransfer
  <2> PICK from \in FromParishes(p) :
        work' = [work EXCEPT ![r] =
                   [priest |-> p, from |-> from, to |-> to, kind |-> k, number |-> 0, status |-> s]]
    BY <2>1
  <2> DEFINE w == [priest |-> p, from |-> from, to |-> to, kind |-> k, number |-> 0, status |-> s]
  <2>2. w \in Orders
    BY DEF Orders, FromParishes
  <2> HIDE DEF w
  <2>3. MovesTo(r, "number", w)
    BY <1>1, <1>7, <2>2 DEF CreateTransfer, MovesTo, w
  <2> QED
    BY <2>3
<1>8. CASE NextOrderNo(r)
  <2> DEFINE n == Cardinality(Written(order, NoOrder)) + 1
             w == [work[r] EXCEPT !.number = n]
  <2>1. n \in Nat
    <3>1. Written(order, NoOrder) \subseteq Requests
      BY DEF Written
    <3>2. Cardinality(Written(order, NoOrder)) \in Nat
      BY <3>1, RequestsAssumption, FS_Subset, FS_CardinalityType
    <3> QED
      BY <3>2
  <2>2. work' = [work EXCEPT ![r] = w] /\ pc' = [pc EXCEPT ![r] = "insert"] /\ pc[r] = "number"
    BY <1>8 DEF NextOrderNo
  <2> HIDE DEF n
  <2>3. w \in Orders
    BY <1>1, <2>1, <2>2 DEF HoldsOK, Orders
  <2> HIDE DEF w
  <2>4. MovesTo(r, "insert", w)
    BY <1>1, <2>2, <2>3 DEF MovesTo
  <2> QED
    BY <2>4
<1>9. CASE InsertTransfer(r)
  <2>1. \/ pc' = [pc EXCEPT ![r] = "failed"] /\ work' = [work EXCEPT ![r] = NoWork]
        \/ pc' = [pc EXCEPT ![r] = "done"] /\ work' = [work EXCEPT ![r] = NoWork]
        \/ /\ pc' = [pc EXCEPT ![r] = "transfer"]
           /\ work' = [work EXCEPT ![r] = [order |-> r, closing |-> {}]]
           /\ order' = [order EXCEPT ![r] = work[r]] /\ work[r] \in Orders
    BY <1>1, <1>9 DEF InsertTransfer, HoldsOK
  <2> DEFINE w == [order |-> r, closing |-> {}]
  <2>2. w \in Moves /\ w.order = r
    BY DEF Moves
  <2> HIDE DEF w
  <2>3. MovesTo(r, "failed", NoWork) \/ MovesTo(r, "done", NoWork) \/ MovesTo(r, "transfer", w)
    BY <1>1, <2>1, <2>2, NullsAssumption DEF MovesTo, w, TablesOK
  <2> QED
    BY <2>3
<1>10. CASE UpdateTransferStatus(r)
  <2>1. PICK o \in Written(order, NoOrder) :
          \/ pc' = [pc EXCEPT ![r] = "done"] /\ work' = work
          \/ /\ pc' = [pc EXCEPT ![r] = "transfer"]
             /\ work' = [work EXCEPT ![r] = [order |-> o, closing |-> {}]]
             /\ order' = order
    BY <1>10 DEF UpdateTransferStatus
  <2> DEFINE w == [order |-> o, closing |-> {}]
  <2>2. w \in Moves /\ w.order = o /\ order[o] # NoOrder
    BY DEF Moves, Written
  <2> HIDE DEF w
  <2>3. MovesTo(r, "done", work[r]) \/ MovesTo(r, "transfer", w)
    BY <1>1, <2>1, <2>2 DEF MovesTo, w
  <2> QED
    BY <2>3
<1>11. CASE BeginTransfer(r)
  <2> DEFINE c == Ends(work[r].order)
             w == [work[r] EXCEPT !.closing = c]
  <2>1. c \subseteq Requests
    BY DEF Ends, CurrentOf, PostingsOf, Written
  <2>2. work' = [work EXCEPT ![r] = w] /\ pc' = [pc EXCEPT ![r] = "commit"] /\ pc[r] = "transfer" /\ order' = order
    BY <1>11 DEF BeginTransfer
  <2> HIDE DEF c
  <2>3. w \in Moves /\ w.order = work[r].order /\ order[work[r].order] # NoOrder
    BY <1>1, <2>1, <2>2 DEF HoldsOK, Moves
  <2> HIDE DEF w
  <2>4. MovesTo(r, "commit", w)
    BY <1>1, <2>2, <2>3 DEF MovesTo
  <2> QED
    BY <2>4
<1>12. CASE CompleteTransfer(r)
  <2>1. MovesTo(r, "done", NoWork)
    BY <1>1, <1>12 DEF CompleteTransfer, MovesTo
  <2> QED
    BY <2>1
<1>13. CASE UpdatePriest(r)
  <2>1. PICK p \in Priests, s \in Statuses :
          /\ priest[p] # NoPriest /\ pc' = [pc EXCEPT ![r] = "set"]
          /\ work' = [work EXCEPT ![r] = [priest |-> p, status |-> s, found |-> priest[p]]]
    BY <1>13 DEF UpdatePriest
  <2> DEFINE w == [priest |-> p, status |-> s, found |-> priest[p]]
  <2>2. w \in Changes
    BY <1>1, <2>1 DEF Changes, TablesOK
  <2> HIDE DEF w
  <2>3. MovesTo(r, "set", w)
    BY <1>1, <2>1, <2>2 DEF MovesTo, w
  <2> QED
    BY <2>3
<1>14. CASE SetStatus(r)
  <2>1. MovesTo(r, "log", work[r]) \/ MovesTo(r, "done", NoWork)
    BY <1>1, <1>14 DEF SetStatus, MovesTo, HoldsOK
  <2> QED
    BY <2>1
<1>15. CASE LogStatus(r)
  <2>1. MovesTo(r, "done", NoWork)
    BY <1>1, <1>15 DEF LogStatus, MovesTo
  <2> QED
    BY <2>1
<1>16. CASE RequestLeave(r)
  <2>1. MovesTo(r, "done", work[r])
    BY <1>1, <1>16 DEF RequestLeave, MovesTo
  <2> QED
    BY <2>1
<1>17. CASE ReviewLeave(r)
  <2>1. PICK l \in Written(leave, NoLeave), d \in Decisions :
          \/ pc' = [pc EXCEPT ![r] = "failed"] /\ work' = work
          \/ /\ pc' = [pc EXCEPT ![r] = "decide"] /\ leave' = leave
             /\ work' = [work EXCEPT ![r] = [leave |-> l, decision |-> d]]
    BY <1>17 DEF ReviewLeave
  <2> DEFINE w == [leave |-> l, decision |-> d]
  <2>2. w \in Reviews /\ w.leave = l /\ leave[l] # NoLeave
    BY DEF Reviews, Written
  <2> HIDE DEF w
  <2>3. MovesTo(r, "failed", work[r]) \/ MovesTo(r, "decide", w)
    BY <1>1, <2>1, <2>2 DEF MovesTo, w
  <2> QED
    BY <2>3
<1>18. CASE DecideLeave(r)
  <2> DEFINE p == leave[work[r].leave].priest
             w == [priest |-> p, status |-> "ON_LEAVE", found |-> "ON_LEAVE"]
  <2>1. leave[work[r].leave] \in Leaves
    BY <1>1, <1>18 DEF DecideLeave, HoldsOK, Reviews, TablesOK
  <2>2. w \in Changes
    BY <2>1 DEF Changes, Leaves, Statuses
  <2>3. \/ pc' = [pc EXCEPT ![r] = "onleave"] /\ work' = [work EXCEPT ![r] = w]
        \/ pc' = [pc EXCEPT ![r] = "done"] /\ work' = [work EXCEPT ![r] = NoWork]
    BY <1>18 DEF DecideLeave
  <2> HIDE DEF w
  <2>4. MovesTo(r, "onleave", w) \/ MovesTo(r, "done", NoWork)
    BY <1>1, <2>2, <2>3 DEF MovesTo
  <2> QED
    BY <2>4
<1>19. CASE Abort(r)
  <2>1. MovesTo(r, "failed", NoWork)
    BY <1>1, <1>19 DEF Abort, MovesTo
  <2> QED
    BY <2>1
<1> QED
  BY <1>2, <1>3, <1>4, <1>5, <1>6, <1>7, <1>8, <1>9, <1>10, <1>11, <1>12, <1>13, <1>14, <1>15, <1>16,
     <1>17, <1>18, <1>19 DEF Step, PostingStep, OrderStep, StatusStep

\* Every query writes rows of the tables' types and takes no order and no leave away.
LEMMA RowsWritten == ASSUME TypeOK, NEW r \in Requests, Step(r) PROVE RowsStay /\ TablesOK'
<1> USE DEF history, Written
<1>1. HoldsOK(r) /\ TablesOK
  BY DEF TypeOK
<1>2. CASE PostingStep(r)
  <2>1. CASE CreatePriest(r)
    BY <2>1, <1>1 DEF CreatePriest, Begin, RowsStay, TablesOK
  <2>2. CASE Appoint(r)
    BY <2>2, <1>1 DEF Appoint, Begin, RowsStay, TablesOK
  <2>3. CASE ClosePrimary(r)
    <3> DEFINE closing == PrimaryOf(work[r].priest)
    <3>1. closing \subseteq Written(posting, NoPosting)
      BY DEF PrimaryOf, CurrentOf, PostingsOf
    <3>2. Closed(closing) \in [Requests -> Postings \cup {NoPosting}]
      BY <3>1, PostingsTyped
    <3>3. posting' = Closed(closing) /\ Close(r, closing)
      BY <2>3 DEF ClosePrimary
    <3> HIDE DEF closing
    <3>4. ended' \in [Requests -> Requests \cup {NoOne}]
      BY <3>3, <1>1 DEF Close, TablesOK
    <3> QED
      BY <2>3, <1>1, <3>2, <3>3, <3>4 DEF ClosePrimary, RowsStay, TablesOK
  <2>4. CASE OpenPosting(r)
    BY <2>4, <1>1 DEF OpenPosting, RowsStay, TablesOK, HoldsOK
  <2>5. CASE EditPosting(r)
    <3>1. PICK q \in Written(posting, NoPosting), b, c \in BOOLEAN :
            posting' = [posting EXCEPT ![q].primary = b, ![q].current = c] /\ edited' = edited \cup {q}
      BY <2>5 DEF EditPosting
    <3>2. posting[q] \in Postings
      BY <1>1 DEF TablesOK
    <3> DEFINE w == [posting[q] EXCEPT !.primary = b, !.current = c]
    <3>3. w \in Postings
      BY <3>2 DEF Postings
    <3>4. posting' = [posting EXCEPT ![q] = w]
      BY <3>1, <1>1 DEF TablesOK
    <3>5. UNCHANGED <<priest, logged, order, leave, saw, ended, reset, crossed>>
      BY <2>5 DEF EditPosting
    <3> HIDE DEF w
    <3>6. posting' \in [Requests -> Postings \cup {NoPosting}]
      BY <3>3, <3>4, <1>1 DEF TablesOK
    <3>7. edited' \subseteq Requests
      BY <3>1, <1>1 DEF TablesOK
    <3> QED
      BY <1>1, <3>5, <3>6, <3>7 DEF RowsStay, TablesOK
  <2> QED
    BY <1>2, <2>1, <2>2, <2>3, <2>4, <2>5 DEF PostingStep
<1>3. CASE OrderStep(r)
  <2>1. CASE CreateTransfer(r)
    BY <2>1, <1>1 DEF CreateTransfer, Begin, RowsStay, TablesOK
  <2>2. CASE NextOrderNo(r)
    BY <2>2, <1>1 DEF NextOrderNo, RowsStay, TablesOK
  <2>3. CASE InsertTransfer(r)
    <3>1. work[r] \in Orders /\ (order' = order \/ order' = [order EXCEPT ![r] = work[r]])
      BY <2>3, <1>1 DEF InsertTransfer, HoldsOK
    <3> QED
      BY <2>3, <3>1, <1>1, NullsAssumption DEF InsertTransfer, RowsStay, TablesOK
  <2>4. CASE UpdateTransferStatus(r)
    <3>1. PICK o \in Written(order, NoOrder) :
            \/ order' = [order EXCEPT ![o].status = "DRAFT"] /\ reset' = reset \cup {o}
            \/ order' = order /\ reset' = reset
      BY <2>4 DEF UpdateTransferStatus
    <3> DEFINE w == [order[o] EXCEPT !.status = "DRAFT"]
    <3>2. w \in Orders
      BY <1>1 DEF TablesOK, Orders
    <3>3. order' = [order EXCEPT ![o] = w] \/ order' = order
      BY <3>1
    <3>4. /\ saw' = [saw EXCEPT ![r] = Written(posting, NoPosting)] /\ priest' = priest
          /\ logged' = logged /\ posting' = posting /\ leave' = leave /\ ended' = ended
          /\ edited' = edited /\ crossed' = crossed
      BY <2>4 DEF UpdateTransferStatus, Begin
    <3> HIDE DEF w
    <3>5. order' \in [Requests -> Orders \cup {NoOrder}]
      BY <3>2, <3>3, <1>1 DEF TablesOK
    <3>6. \A i \in Requests : order[i] # NoOrder => order'[i] # NoOrder
      BY <3>2, <3>3, <1>1, NullsAssumption DEF TablesOK
    <3>7. saw' \in [Requests -> SUBSET Requests]
      BY <3>4, <1>1 DEF TablesOK
    <3>8. reset' \subseteq Requests
      BY <3>1, <1>1 DEF TablesOK
    <3> QED
      BY <3>4, <3>5, <3>6, <3>7, <3>8, <1>1 DEF RowsStay, TablesOK
  <2>5. CASE BeginTransfer(r)
    BY <2>5, <1>1 DEF BeginTransfer, RowsStay, TablesOK
  <2>6. CASE CompleteTransfer(r)
    <3> DEFINE o == work[r].order
               closing == work[r].closing \cap Ends(o)
               p == order[o].priest
               w == [order[o] EXCEPT !.status = "COMPLETED"]
               n == Assignment(o)
               k == Closed(closing)
    <3>1. o \in Requests /\ order[o] # NoOrder
      BY <2>6, <1>1 DEF CompleteTransfer, HoldsOK, Moves
    <3>2. p \in Priests /\ w \in Orders
      BY <3>1, <1>1 DEF TablesOK, Orders
    <3>3. n \in Postings
      BY <3>1, PostingsTyped
    <3>4. closing \subseteq Written(posting, NoPosting)
      BY DEF Ends, CurrentOf, PostingsOf
    <3>5. k \in [Requests -> Postings \cup {NoPosting}]
      BY <3>4, PostingsTyped
    <3>6. /\ posting' = [k EXCEPT ![r] = n] /\ Close(r, closing)
          /\ priest' = [priest EXCEPT ![p] = "ACTIVE"] /\ logged' = [logged EXCEPT ![p] = "ACTIVE"]
          /\ order' = [order EXCEPT ![o].status = "COMPLETED"]
          /\ crossed' = IF Changing(p) \subseteq {r} THEN crossed ELSE crossed \cup {p}
          /\ leave' = leave /\ saw' = saw /\ edited' = edited /\ reset' = reset
      BY <2>6 DEF CompleteTransfer, Cross
    <3>7. order' = [order EXCEPT ![o] = w]
      BY <3>6
    <3> HIDE DEF o, closing, p, w, n, k
    <3>8. ended' \in [Requests -> Requests \cup {NoOne}]
      BY <3>6, <1>1 DEF Close, TablesOK
    <3>9. crossed' \subseteq Priests
      BY <3>6, <3>2, <1>1 DEF TablesOK
    <3>10. /\ order' \in [Requests -> Orders \cup {NoOrder}]
           /\ \A i \in Requests : order[i] # NoOrder => order'[i] # NoOrder
      BY <3>2, <3>7, <1>1, NullsAssumption DEF TablesOK
    <3>11. posting' \in [Requests -> Postings \cup {NoPosting}]
      BY <3>3, <3>5, <3>6
    <3>12. /\ priest' \in [Priests -> Statuses \cup {NoPriest}]
           /\ logged' \in [Priests -> Statuses \cup {NoEvent}]
      BY <3>6, <1>1 DEF TablesOK, Statuses
    <3> QED
      BY <1>1, <3>6, <3>8, <3>9, <3>10, <3>11, <3>12 DEF RowsStay, TablesOK
  <2> QED
    BY <1>3, <2>1, <2>2, <2>3, <2>4, <2>5, <2>6 DEF OrderStep
<1>4. CASE StatusStep(r)
  <2>1. CASE UpdatePriest(r)
    BY <2>1, <1>1 DEF UpdatePriest, RowsStay, TablesOK
  <2>2. CASE SetStatus(r)
    <3>1. work[r].priest \in Priests /\ work[r].status \in Statuses
      BY <2>2, <1>1 DEF SetStatus, HoldsOK, Changes
    <3>2. crossed' \subseteq Priests
      BY <2>2, <3>1, <1>1 DEF SetStatus, Cross, TablesOK
    <3>3. /\ priest' = [priest EXCEPT ![work[r].priest] = work[r].status]
          /\ logged' = logged /\ posting' = posting /\ order' = order /\ leave' = leave
          /\ saw' = saw /\ ended' = ended /\ edited' = edited /\ reset' = reset
      BY <2>2 DEF SetStatus
    <3>4. priest' \in [Priests -> Statuses \cup {NoPriest}]
      BY <3>1, <3>3, <1>1 DEF TablesOK
    <3> QED
      BY <3>2, <3>3, <3>4, <1>1 DEF RowsStay, TablesOK
  <2>3. CASE LogStatus(r)
    <3>1. work[r].priest \in Priests /\ work[r].status \in Statuses
      BY <2>3, <1>1 DEF LogStatus, HoldsOK, Changes
    <3> QED
      BY <2>3, <3>1, <1>1 DEF LogStatus, RowsStay, TablesOK
  <2>4. CASE RequestLeave(r)
    <3>1. PICK p \in Priests : leave' = [leave EXCEPT ![r] = [priest |-> p, status |-> "PENDING"]]
      BY <2>4 DEF RequestLeave
    <3>2. [priest |-> p, status |-> "PENDING"] \in Leaves
      BY DEF Leaves
    <3> QED
      BY <2>4, <3>1, <3>2, <1>1, NullsAssumption DEF RequestLeave, RowsStay, TablesOK
  <2>5. CASE ReviewLeave(r)
    BY <2>5, <1>1 DEF ReviewLeave, RowsStay, TablesOK
  <2>6. CASE DecideLeave(r)
    <3> DEFINE l == work[r].leave
               w == [leave[l] EXCEPT !.status = work[r].decision]
    <3>1. l \in Requests /\ leave[l] \in Leaves /\ work[r].decision \in Decisions
      BY <2>6, <1>1 DEF DecideLeave, HoldsOK, Reviews, TablesOK
    <3>2. w \in Leaves
      BY <3>1 DEF Leaves
    <3>3. /\ leave' = [leave EXCEPT ![l] = w] /\ UNCHANGED <<priest, logged, posting, order, history>>
      BY <2>6 DEF DecideLeave
    <3> HIDE DEF l, w
    <3> QED
      BY <3>1, <3>2, <3>3, <1>1, NullsAssumption DEF RowsStay, TablesOK
  <2>7. CASE Abort(r)
    <3>1. crossed' \subseteq Priests
      BY <2>7, <1>1 DEF Abort, HoldsOK, Changes, TablesOK
    <3> QED
      BY <2>7, <3>1, <1>1 DEF Abort, RowsStay, TablesOK
  <2> QED
    BY <1>4, <2>1, <2>2, <2>3, <2>4, <2>5, <2>6, <2>7 DEF StatusStep
<1> QED
  BY <1>2, <1>3, <1>4 DEF Step

\* Every step keeps the types.
LEMMA TypeStep == TypeOK /\ [Next]_vars => TypeOK'
<1> SUFFICES ASSUME TypeOK, [Next]_vars PROVE TypeOK'
  OBVIOUS
<1>1. CASE UNCHANGED vars
  BY <1>1 DEF TypeOK, TablesOK, HoldsOK, vars, history
<1>2. ASSUME NEW r \in Requests, Step(r) PROVE TypeOK'
  <2>1. RowsStay /\ TablesOK'
    BY <1>2, RowsWritten
  <2>2. PICK s, w : MovesTo(r, s, w)
    BY <1>2, <2>1, Moved
  <2> QED
    BY <2>1, <2>2, MovesKeep
<1> QED
  BY <1>1, <1>2, Steps

\* The tables and what each request holds between two queries have their types, however
\* the requests interleave and wherever one is cut.
THEOREM TypeCorrect == Spec => []TypeOK
<1> QED
  BY InitType, TypeStep, PTL DEF Spec

-----------------------------------------------------------------------------
(* The inductive invariant: what lies behind each of the four properties. *)

\* A request writes its posting last and its order after the others' postings are closed;
\* a closed posting has its successor, or the request that closed it is about to write it,
\* or was cut before it could (not one with an order).
Chain ==
  /\ \A r \in Requests : pc[r] \notin {"done", "failed"} => posting[r] = NoPosting
  /\ \A r \in Requests : pc[r] \in {"idle", "close", "open", "number", "insert"} => order[r] = NoOrder
  /\ \A q \in Requests : ended[q] # NoOne =>
       /\ posting[q] # NoPosting
       /\ \/ pc[ended[q]] = "open" /\ work[ended[q]].priest = posting[q].priest
          \/ pc[ended[q]] = "failed" /\ order[ended[q]] = NoOrder
          \/ /\ pc[ended[q]] = "done" /\ posting[ended[q]] # NoPosting
             /\ posting[ended[q]].priest = posting[q].priest

\* Only an order that is there posts anybody, and the request that wrote an order carries
\* out that one.
Sources ==
  /\ \A q \in Written(posting, NoPosting) :
       posting[q].order = NoOrder \/ posting[q].order \in Written(order, NoOrder)
  /\ \A r \in Requests : pc[r] \in {"close", "open"} => work[r].order = NoOrder
  /\ \A r \in Written(order, NoOrder) : pc[r] \in {"transfer", "commit"} => work[r].order = r

\* Postings, leaves and status changes are of priests who are there; until two changes
\* cross, a change still finds what it read and logs what it wrote.
Known ==
  /\ \A p \in Priests : priest[p] = NoPriest => logged[p] = NoEvent
  /\ \A q \in Written(posting, NoPosting) : priest[posting[q].priest] # NoPriest
  /\ \A l \in Written(leave, NoLeave) : priest[leave[l].priest] # NoPriest
  /\ \A r \in Requests : pc[r] \in {"close", "open", "set", "onleave", "log"} => priest[work[r].priest] # NoPriest
  /\ \A r \in Requests : pc[r] = "set" /\ work[r].priest \notin crossed =>
       priest[work[r].priest] = work[r].found
  /\ \A r \in Requests : pc[r] = "log" /\ work[r].priest \notin crossed =>
       priest[work[r].priest] = work[r].status

\* A request about to post a primary one has closed all it saw, or is about to.
Cleared ==
  /\ \A r \in Requests : saw[r] \subseteq Written(posting, NoPosting)
  /\ \A r \in Requests : pc[r] = "open" /\ Supersedes(work[r]) =>
       saw[r] \cap PrimaryOf(work[r].priest) \subseteq edited
  /\ \A r \in Requests : pc[r] = "commit" =>
       saw[r] \cap PrimaryOf(order[work[r].order].priest) \subseteq edited \cup work[r].closing

IInv == /\ TypeOK /\ Chain /\ Sources /\ Known /\ Cleared
        /\ OnePrimary /\ OrdersCarriedOut /\ StatusLogged

\* A step touches the locals of its own request only.
Frame(r) == \A q \in Requests \ {r} : pc'[q] = pc[q] /\ work'[q] = work[q] /\ saw'[q] = saw[q]

LEMMA OwnLocals == ASSUME TypeOK, NEW r \in Requests, Step(r) PROVE Frame(r)
<1> USE DEF Goto, Hold, Begin, Frame, TypeOK, TablesOK, history
<1>1. CASE PostingStep(r)
  BY <1>1 DEF PostingStep, CreatePriest, Appoint, ClosePrimary, OpenPosting, EditPosting
<1>2. CASE OrderStep(r)
  BY <1>2 DEF OrderStep, CreateTransfer, NextOrderNo, InsertTransfer, UpdateTransferStatus, BeginTransfer,
              CompleteTransfer
<1>3. CASE StatusStep(r)
  BY <1>3 DEF StatusStep, UpdatePriest, SetStatus, LogStatus, RequestLeave, ReviewLeave, DecideLeave, Abort
<1> QED
  BY <1>1, <1>2, <1>3 DEF Step

\* A posting that is there keeps its priest, kind and order, and becomes a current primary
\* one again only by hand; only the request itself can post.
Same(new, old) == new.priest = old.priest /\ new.kind = old.kind /\ new.order = old.order
PostingsGrow(r) ==
  /\ \A q \in Written(posting, NoPosting) : posting'[q] # NoPosting /\ Same(posting'[q], posting[q])
  /\ \A q \in Written(posting, NoPosting) : posting'[q].current /\ posting'[q].primary =>
       (posting[q].current /\ posting[q].primary) \/ q \in edited'
  /\ \A q \in Requests \ {r} : posting[q] = NoPosting => posting'[q] = NoPosting
  /\ edited \subseteq edited'

LEMMA PostingsKept == ASSUME TypeOK, Chain, NEW r \in Requests, Step(r) PROVE PostingsGrow(r)
<1>1. TablesOK /\ HoldsOK(r) /\ posting \in [Requests -> Postings \cup {NoPosting}]
  BY DEF TypeOK, TablesOK
<1>2. CASE posting' = posting /\ edited' = edited
  BY <1>2 DEF PostingsGrow, Same, Written
<1>3. CASE ClosePrimary(r)
  <2> DEFINE closing == PrimaryOf(work[r].priest)
  <2>1. posting' = Closed(closing) /\ edited' = edited /\ closing \subseteq Written(posting, NoPosting)
    BY <1>3 DEF ClosePrimary, PrimaryOf, CurrentOf, PostingsOf
  <2> HIDE DEF closing
  <2>2. ASSUME NEW q \in Requests
        PROVE  /\ q \notin closing => posting'[q] = posting[q]
               /\ q \in closing => posting'[q] = [posting[q] EXCEPT !.current = FALSE]
    BY <2>1 DEF Closed
  <2>3. ASSUME NEW q \in closing
        PROVE  posting'[q] \in Postings /\ Same(posting'[q], posting[q]) /\ ~posting'[q].current
    <3>1. posting[q] \in Postings /\ posting'[q] = [posting[q] EXCEPT !.current = FALSE]
      BY <1>1, <2>1, <2>2 DEF Written
    <3> QED
      BY <3>1 DEF Postings, Same
  <2> QED
    BY <2>1, <2>2, <2>3, NullsAssumption DEF PostingsGrow, Same, Written
<1>4. CASE OpenPosting(r)
  <2>1. posting[r] = NoPosting /\ posting' = [posting EXCEPT ![r] = work[r]] /\ edited' = edited
    BY <1>4 DEF OpenPosting, history, Chain
  <2> QED
    BY <2>1, <1>1 DEF PostingsGrow, Same, Written
<1>5. CASE EditPosting(r)
  <2>1. PICK q \in Written(posting, NoPosting), b, c \in BOOLEAN :
          posting' = [posting EXCEPT ![q].primary = b, ![q].current = c] /\ edited' = edited \cup {q}
    BY <1>5 DEF EditPosting
  <2> DEFINE w == [posting[q] EXCEPT !.primary = b, !.current = c]
  <2>2. posting' = [posting EXCEPT ![q] = w]
    BY <2>1, <1>1 DEF Written
  <2>3. w \in Postings /\ Same(w, posting[q])
    BY <1>1 DEF Postings, Written, Same
  <2> HIDE DEF w
  <2> QED
    BY <2>1, <2>2, <2>3, <1>1, NullsAssumption DEF PostingsGrow, Same, Written
<1>6. CASE CompleteTransfer(r)
  <2> DEFINE closing == work[r].closing \cap Ends(work[r].order)
             n == Assignment(work[r].order)
  <2>1. /\ posting' = [Closed(closing) EXCEPT ![r] = n] /\ edited' = edited
        /\ posting[r] = NoPosting /\ closing \subseteq Written(posting, NoPosting)
    BY <1>6 DEF CompleteTransfer, Chain, Ends, CurrentOf, PostingsOf
  <2> HIDE DEF closing, n
  <2>2. ASSUME NEW q \in Requests \ {r}
        PROVE  /\ q \notin closing => posting'[q] = posting[q]
               /\ q \in closing => posting'[q] = [posting[q] EXCEPT !.current = FALSE]
    BY <2>1 DEF Closed
  <2>3. ASSUME NEW q \in closing
        PROVE  posting'[q] \in Postings /\ Same(posting'[q], posting[q]) /\ ~posting'[q].current
    <3>1. posting[q] \in Postings /\ posting'[q] = [posting[q] EXCEPT !.current = FALSE]
      BY <1>1, <2>1, <2>2 DEF Written
    <3> QED
      BY <3>1 DEF Postings, Same
  <2> QED
    BY <2>1, <2>2, <2>3, NullsAssumption DEF PostingsGrow, Same, Written
<1> USE DEF history
<1>7. CASE PostingStep(r)
  BY <1>2, <1>3, <1>4, <1>5, <1>7 DEF PostingStep, CreatePriest, Appoint
<1>8. CASE OrderStep(r)
  BY <1>2, <1>6, <1>8 DEF OrderStep, CreateTransfer, NextOrderNo, InsertTransfer, UpdateTransferStatus,
                          BeginTransfer
<1>9. CASE StatusStep(r)
  BY <1>2, <1>9 DEF StatusStep, UpdatePriest, SetStatus, LogStatus, RequestLeave, ReviewLeave, DecideLeave, Abort
<1> QED
  BY <1>7, <1>8, <1>9 DEF Step

\* An order keeps its priest; only the request itself writes its order.
OrdersGrow(r) ==
  /\ \A o \in Written(order, NoOrder) : order'[o] # NoOrder /\ order'[o].priest = order[o].priest
  /\ \A o \in Requests \ {r} : order[o] = NoOrder => order'[o] = NoOrder

LEMMA OrdersKept == ASSUME TypeOK, Chain, NEW r \in Requests, Step(r) PROVE OrdersGrow(r)
<1>1. TablesOK /\ HoldsOK(r) /\ RowsStay
  BY RowsWritten DEF TypeOK
<1>2. CASE order' = order
  BY <1>2 DEF OrdersGrow, Written
<1>3. CASE InsertTransfer(r)
  <2>1. order[r] = NoOrder
    BY <1>3 DEF InsertTransfer, Chain
  <2>2. order' = order \/ order' = [order EXCEPT ![r] = work[r]]
    BY <1>3 DEF InsertTransfer
  <2> QED
    BY <2>1, <2>2, <1>1 DEF OrdersGrow, Written, TablesOK
<1>4. ASSUME NEW o \in Written(order, NoOrder), NEW s, order' = [order EXCEPT ![o].status = s]
      PROVE  OrdersGrow(r)
  <2> DEFINE w == [order[o] EXCEPT !.status = s]
  <2>1. order' = [order EXCEPT ![o] = w] /\ w.priest = order[o].priest
    <3>1. order[o] \in Orders
      BY <1>1 DEF TablesOK, Written
    <3> QED
      BY <3>1, <1>4 DEF Orders
  <2> HIDE DEF w
  <2> QED
    BY <2>1, <1>1 DEF OrdersGrow, Written, TablesOK, RowsStay
<1>5. CASE UpdateTransferStatus(r)
  <2>1. order' = order \/ \E o \in Written(order, NoOrder) : order' = [order EXCEPT ![o].status = "DRAFT"]
    BY <1>5 DEF UpdateTransferStatus
  <2> QED
    BY <2>1, <1>2, <1>4
<1>6. CASE CompleteTransfer(r)
  <2>1. work[r].order \in Written(order, NoOrder)
    BY <1>6, <1>1 DEF CompleteTransfer, HoldsOK, Moves, Written
  <2>2. order' = [order EXCEPT ![work[r].order].status = "COMPLETED"]
    BY <1>6 DEF CompleteTransfer
  <2> QED
    BY <2>1, <2>2, <1>4
<1>7. CASE PostingStep(r)
  BY <1>2, <1>7 DEF PostingStep, CreatePriest, Appoint, ClosePrimary, OpenPosting, EditPosting
<1>8. CASE OrderStep(r)
  BY <1>2, <1>3, <1>5, <1>6, <1>8 DEF OrderStep, CreateTransfer, NextOrderNo, BeginTransfer, history
<1>9. CASE StatusStep(r)
  BY <1>2, <1>9 DEF StatusStep, UpdatePriest, SetStatus, LogStatus, RequestLeave, ReviewLeave, DecideLeave, Abort
<1> QED
  BY <1>7, <1>8, <1>9 DEF Step

\* A request that has ended does nothing; one that has not ended after a step has posted
\* nothing, and before its insert has no order.
LEMMA OwnRows ==
  ASSUME TypeOK, Chain, NEW r \in Requests, Step(r)
  PROVE  /\ pc[r] \notin {"done", "failed"} /\ posting[r] = NoPosting
         /\ pc'[r] \notin {"done", "failed"} => posting'[r] = NoPosting
         /\ pc'[r] \in {"idle", "close", "open", "number", "insert"} => order'[r] = NoOrder
<1> USE DEF Goto, Hold
<1>1. pc \in [Requests -> Stages] /\ posting \in [Requests -> Postings \cup {NoPosting}]
  BY DEF TypeOK, TablesOK
<1>2. pc[r] \notin {"done", "failed"}
  BY DEF Step, PostingStep, OrderStep, StatusStep, CreatePriest, Appoint, ClosePrimary, OpenPosting, EditPosting,
         CreateTransfer, NextOrderNo, InsertTransfer, UpdateTransferStatus, BeginTransfer, CompleteTransfer,
         UpdatePriest, SetStatus, LogStatus, RequestLeave, ReviewLeave, DecideLeave, Abort
<1>3. posting[r] = NoPosting
  BY <1>2 DEF Chain
<1>4. pc'[r] \notin {"done", "failed"} => posting'[r] = NoPosting
  <2>1. CASE posting' = posting
    BY <2>1, <1>3
  <2>2. CASE ClosePrimary(r)
    <3>1. r \notin PrimaryOf(work[r].priest)
      BY <1>3 DEF PrimaryOf, CurrentOf, PostingsOf, Written
    <3> QED
      BY <3>1, <2>2, <1>3 DEF ClosePrimary, Closed
  <2>3. CASE PostingStep(r)
    BY <2>1, <2>2, <2>3, <1>1 DEF PostingStep, CreatePriest, Appoint, OpenPosting, EditPosting
  <2>4. CASE OrderStep(r)
    BY <2>1, <2>4, <1>1 DEF OrderStep, CreateTransfer, NextOrderNo, InsertTransfer, UpdateTransferStatus,
                            BeginTransfer, CompleteTransfer
  <2>5. CASE StatusStep(r)
    BY <2>1, <2>5 DEF StatusStep, UpdatePriest, SetStatus, LogStatus, RequestLeave, ReviewLeave, DecideLeave, Abort
  <2> QED
    BY <2>3, <2>4, <2>5 DEF Step
<1>5. pc'[r] \in {"idle", "close", "open", "number", "insert"} => order'[r] = NoOrder
  <2>1. CASE order' = order /\ pc[r] \in {"idle", "close", "open", "number", "insert"}
    BY <2>1 DEF Chain
  <2>2. CASE PostingStep(r)
    BY <2>1, <2>2 DEF PostingStep, CreatePriest, Appoint, ClosePrimary, OpenPosting, EditPosting
  <2>3. CASE OrderStep(r)
    BY <2>1, <2>3, <1>1 DEF OrderStep, CreateTransfer, NextOrderNo, InsertTransfer, UpdateTransferStatus,
                            BeginTransfer, CompleteTransfer
  <2>4. CASE StatusStep(r)
    BY <2>1, <2>4, <1>1 DEF StatusStep, UpdatePriest, SetStatus, LogStatus, RequestLeave, ReviewLeave,
                            DecideLeave, Abort
  <2> QED
    BY <2>2, <2>3, <2>4 DEF Step
<1> QED
  BY <1>2, <1>3, <1>4, <1>5

\* What a closed posting leaves behind, for one posting.
Followed(q) ==
  /\ posting[q] # NoPosting
  /\ \/ pc[ended[q]] = "open" /\ work[ended[q]].priest = posting[q].priest
     \/ pc[ended[q]] = "failed" /\ order[ended[q]] = NoOrder
     \/ /\ pc[ended[q]] = "done" /\ posting[ended[q]] # NoPosting
        /\ posting[ended[q]].priest = posting[q].priest

\* The two queries that close postings.
LEMMA EndedBy ==
  ASSUME TypeOK, NEW r \in Requests, Step(r)
  PROVE  \/ ended' = ended
         \/ ClosePrimary(r)
         \/ CompleteTransfer(r)
<1> USE DEF history
<1>1. CASE PostingStep(r)
  BY <1>1 DEF PostingStep, CreatePriest, Appoint, OpenPosting, EditPosting
<1>2. CASE OrderStep(r)
  BY <1>2 DEF OrderStep, CreateTransfer, NextOrderNo, InsertTransfer, UpdateTransferStatus, BeginTransfer
<1>3. CASE StatusStep(r)
  BY <1>3 DEF StatusStep, UpdatePriest, SetStatus, LogStatus, RequestLeave, ReviewLeave, DecideLeave, Abort
<1> QED
  BY <1>1, <1>2, <1>3 DEF Step

LEMMA ChainStep == ASSUME TypeOK, Chain, NEW r \in Requests, Step(r) PROVE Chain'
<1>1. TypeOK' /\ Frame(r) /\ PostingsGrow(r) /\ OrdersGrow(r)
  BY TypeStep, Steps, OwnLocals, PostingsKept, OrdersKept
<1>2. /\ \A q \in Requests : pc'[q] \notin {"done", "failed"} => posting'[q] = NoPosting
      /\ \A q \in Requests : pc'[q] \in {"idle", "close", "open", "number", "insert"} => order'[q] = NoOrder
  BY <1>1, OwnRows DEF Frame, PostingsGrow, OrdersGrow, Chain
<1>3. ASSUME NEW q \in Requests, ended[q] # NoOne, ended[q] # r PROVE posting'[q] # NoPosting /\
         \/ pc'[ended[q]] = "open" /\ work'[ended[q]].priest = posting'[q].priest
         \/ pc'[ended[q]] = "failed" /\ order'[ended[q]] = NoOrder
         \/ /\ pc'[ended[q]] = "done" /\ posting'[ended[q]] # NoPosting
            /\ posting'[ended[q]].priest = posting'[q].priest
  <2>1. Followed(q) /\ ended[q] \in Requests \ {r}
    BY <1>3 DEF Chain, Followed, TypeOK, TablesOK
  <2>2. posting'[q] # NoPosting /\ posting'[q].priest = posting[q].priest
    BY <2>1, <1>1 DEF Followed, PostingsGrow, Same, Written
  <2>3. posting[ended[q]] # NoPosting =>
          posting'[ended[q]] # NoPosting /\ posting'[ended[q]].priest = posting[ended[q]].priest
    BY <2>1, <1>1 DEF PostingsGrow, Same, Written
  <2> QED
    BY <2>1, <2>2, <2>3, <1>1 DEF Followed, Frame, OrdersGrow
<1>4. CASE ended' = ended
  <2>1. ASSUME NEW q \in Requests, ended[q] = r PROVE Followed(q)'
    <3>1. Followed(q) /\ pc[r] = "open" /\ work[r].priest = posting[q].priest
      BY <2>1, OwnRows, NullsAssumption DEF Chain, Followed
    <3>2. OpenPosting(r) \/ Abort(r)
      BY <3>1 DEF Step, PostingStep, OrderStep, StatusStep, CreatePriest, Appoint, ClosePrimary, EditPosting,
         CreateTransfer, NextOrderNo, InsertTransfer, UpdateTransferStatus, BeginTransfer, CompleteTransfer,
         UpdatePriest, SetStatus, LogStatus, RequestLeave, ReviewLeave, DecideLeave
    <3>3. posting'[q] # NoPosting /\ posting'[q].priest = posting[q].priest
      BY <3>1, <1>1 DEF Followed, PostingsGrow, Same, Written
    <3>4. CASE OpenPosting(r)
      <4>1. posting'[r] = work[r] /\ pc'[r] = "done" /\ work[r] \in Postings
        BY <3>1, <3>4 DEF OpenPosting, Goto, TypeOK, TablesOK, HoldsOK
      <4> QED
        BY <1>4, <2>1, <3>1, <3>3, <4>1, NullsAssumption DEF Followed
    <3>5. CASE Abort(r)
      <4>1. order[r] = NoOrder /\ order' = order /\ pc'[r] = "failed"
        BY <3>1, <3>5 DEF Abort, Goto, Chain, TypeOK
      <4> QED
        BY <1>4, <2>1, <3>3, <4>1 DEF Followed
    <3> QED
      BY <3>2, <3>4, <3>5
  <2> QED
    BY <1>2, <1>3, <1>4, <2>1 DEF Chain, Followed
<1>5. CASE ClosePrimary(r)
  <2> DEFINE closing == PrimaryOf(work[r].priest)
  <2>1. ended' = [q \in Requests |-> IF q \in closing THEN r ELSE ended[q]]
        /\ pc[r] = "close" /\ pc'[r] = "open" /\ work' = work
    BY <1>5 DEF ClosePrimary, Close, Goto, TypeOK
  <2>2. \A q \in closing : posting[q] # NoPosting /\ posting[q].priest = work[r].priest /\ q \in Requests
    BY DEF PrimaryOf, CurrentOf, PostingsOf, Written
  <2> HIDE DEF closing
  <2>3. ASSUME NEW q \in closing PROVE Followed(q)'
    BY <2>1, <2>2, <2>3, <1>1 DEF Followed, PostingsGrow, Same, Written
  <2>4. ASSUME NEW q \in Requests, q \notin closing, ended[q] # NoOne PROVE Followed(q)'
    <3>1. ended[q] # r
      BY <2>1, <2>4 DEF Chain
    <3>2. ended'[q] = ended[q]
      BY <2>1, <2>4
    <3> QED
      BY <3>1, <3>2, <2>4, <1>3 DEF Followed
  <2> QED
    BY <1>2, <2>1, <2>3, <2>4 DEF Chain, Followed
<1>6. CASE CompleteTransfer(r)
  <2> DEFINE closing == work[r].closing \cap Ends(work[r].order)
  <2>1. /\ ended' = [q \in Requests |-> IF q \in closing THEN r ELSE ended[q]]
        /\ pc[r] = "commit" /\ pc'[r] = "done" /\ posting'[r] = Assignment(work[r].order)
    BY <1>6 DEF CompleteTransfer, Close, Closed, Goto, TypeOK
  <2>2. \A q \in closing : posting[q] # NoPosting /\ posting[q].priest = order[work[r].order].priest /\ q \in Requests
    BY DEF Ends, CurrentOf, PostingsOf, Written
  <2>3. posting'[r] # NoPosting /\ posting'[r].priest = order[work[r].order].priest
    <3>1. work[r].order \in Requests /\ order[work[r].order] # NoOrder
      BY <2>1 DEF TypeOK, HoldsOK, Moves
    <3>2. Assignment(work[r].order) \in Postings
      BY <3>1, PostingsTyped
    <3>3. Assignment(work[r].order).priest = order[work[r].order].priest
      BY DEF Assignment
    <3> QED
      BY <2>1, <3>2, <3>3, NullsAssumption
  <2> HIDE DEF closing
  <2>4. ASSUME NEW q \in closing PROVE Followed(q)'
    BY <2>1, <2>2, <2>3, <2>4, <1>1 DEF Followed, PostingsGrow, Same, Written
  <2>5. ASSUME NEW q \in Requests, q \notin closing, ended[q] # NoOne PROVE Followed(q)'
    <3>1. ended[q] # r
      BY <2>1, <2>5 DEF Chain
    <3>2. ended'[q] = ended[q]
      BY <2>1, <2>5
    <3> QED
      BY <3>1, <3>2, <2>5, <1>3 DEF Followed
  <2> QED
    BY <1>2, <2>1, <2>4, <2>5 DEF Chain, Followed
<1> QED
  BY <1>4, <1>5, <1>6, EndedBy

\* The two queries that post somebody.
LEMMA PostedBy ==
  ASSUME TypeOK, Chain, NEW r \in Requests, Step(r), posting'[r] # NoPosting
  PROVE  \/ OpenPosting(r) /\ pc[r] = "open" /\ posting'[r] = work[r] /\ work[r] \in Postings
         \/ /\ CompleteTransfer(r) /\ pc[r] = "commit" /\ posting'[r] = Assignment(work[r].order)
            /\ work[r].order \in Written(order, NoOrder)
<1>1. posting[r] = NoPosting /\ pc'[r] \in {"done", "failed"}
  BY OwnRows
<1>2. pc \in [Requests -> Stages] /\ posting \in [Requests -> Postings \cup {NoPosting}] /\ HoldsOK(r)
  BY DEF TypeOK, TablesOK
<1>3. CASE posting' = posting
  BY <1>1, <1>3
<1>4. CASE EditPosting(r)
  <2>1. PICK q \in Written(posting, NoPosting), b, c \in BOOLEAN :
          posting' = [posting EXCEPT ![q].primary = b, ![q].current = c]
    BY <1>4 DEF EditPosting
  <2>2. posting'[r] = posting[r]
    BY <1>1, <1>2, <2>1 DEF Written
  <2> QED
    BY <1>1, <2>2
<1>5. CASE ClosePrimary(r)
  BY <1>1, <1>2, <1>5 DEF ClosePrimary, Goto
<1>6. CASE OpenPosting(r)
  BY <1>2, <1>6 DEF OpenPosting, HoldsOK
<1>7. CASE CompleteTransfer(r)
  BY <1>2, <1>7 DEF CompleteTransfer, HoldsOK, Closed, Moves, Written
<1>8. CASE PostingStep(r)
  BY <1>3, <1>4, <1>5, <1>6, <1>8 DEF PostingStep, CreatePriest, Appoint
<1>9. CASE OrderStep(r)
  BY <1>3, <1>7, <1>9 DEF OrderStep, CreateTransfer, NextOrderNo, InsertTransfer, UpdateTransferStatus, BeginTransfer
<1>10. CASE StatusStep(r)
  BY <1>3, <1>10 DEF StatusStep, UpdatePriest, SetStatus, LogStatus, RequestLeave, ReviewLeave, DecideLeave,
                     Abort, history
<1> QED
  BY <1>8, <1>9, <1>10 DEF Step

\* What a request holds on its way to a posting: nothing by order, or its own order.
LEMMA OwnSource ==
  ASSUME TypeOK, Chain, Sources, NEW r \in Requests, Step(r)
  PROVE  /\ pc'[r] \in {"close", "open"} => work'[r].order = NoOrder
         /\ pc'[r] \in {"transfer", "commit"} /\ order'[r] # NoOrder => work'[r].order = r
<1> USE DEF Goto, Hold
<1>1. pc \in [Requests -> Stages] /\ HoldsOK(r) /\ work \in [Requests -> Works]
  BY DEF TypeOK, Works
<1>2. CASE CreatePriest(r)
  BY <1>1, <1>2 DEF CreatePriest
<1>3. CASE Appoint(r)
  <2>1. pc'[r] \in {"close", "open"} /\ work'[r].order = NoOrder
    BY <1>1, <1>3 DEF Appoint
  <2> QED
    BY <2>1
<1>4. CASE ClosePrimary(r)
  BY <1>1, <1>4 DEF ClosePrimary, Sources
<1>5. CASE InsertTransfer(r)
  BY <1>1, <1>5 DEF InsertTransfer
<1>6. CASE UpdateTransferStatus(r)
  <2>1. pc[r] = "idle" /\ order[r] = NoOrder
    BY <1>6 DEF UpdateTransferStatus, Chain
  <2>2. pc'[r] = "done" \/ (pc'[r] = "transfer" /\ order' = order)
    BY <1>1, <1>6 DEF UpdateTransferStatus
  <2> QED
    BY <2>1, <2>2
<1>7. CASE BeginTransfer(r)
  <2>1. pc'[r] = "commit" /\ order' = order /\ pc[r] = "transfer" /\ work[r] \in Moves
    BY <1>1, <1>7 DEF BeginTransfer, HoldsOK
  <2>2. work' = [work EXCEPT ![r] = [work[r] EXCEPT !.closing = Ends(work[r].order)]]
    BY <1>7 DEF BeginTransfer
  <2>3. work'[r].order = work[r].order
    BY <1>1, <2>1, <2>2 DEF Moves
  <2> QED
    BY <2>1, <2>3 DEF Sources, Written
<1>8. CASE pc'[r] \notin {"close", "open", "transfer", "commit"}
  BY <1>8
<1>9. CASE PostingStep(r)
  BY <1>1, <1>2, <1>3, <1>4, <1>8, <1>9 DEF PostingStep, OpenPosting, EditPosting
<1>10. CASE OrderStep(r)
  BY <1>1, <1>5, <1>6, <1>7, <1>8, <1>10 DEF OrderStep, CreateTransfer, NextOrderNo, CompleteTransfer
<1>11. CASE StatusStep(r)
  BY <1>1, <1>8, <1>11 DEF StatusStep, UpdatePriest, SetStatus, LogStatus, RequestLeave, ReviewLeave, DecideLeave,
                           Abort
<1> QED
  BY <1>9, <1>10, <1>11 DEF Step

LEMMA SourcesStep == ASSUME TypeOK, Chain, Sources, NEW r \in Requests, Step(r) PROVE Sources'
<1>1. TypeOK' /\ Frame(r) /\ PostingsGrow(r) /\ OrdersGrow(r)
  BY TypeStep, Steps, OwnLocals, PostingsKept, OrdersKept
<1>2. ASSUME NEW q \in Requests, posting'[q] # NoPosting
      PROVE  posting'[q].order = NoOrder \/ order'[posting'[q].order] # NoOrder
  <2>1. CASE posting[q] # NoPosting
    <3>1. posting'[q].order = posting[q].order
      BY <1>1, <2>1 DEF PostingsGrow, Same, Written
    <3> QED
      BY <3>1, <1>1, <2>1 DEF Sources, OrdersGrow, Written
  <2>2. CASE posting[q] = NoPosting
    <3>1. q = r
      BY <1>1, <1>2, <2>2 DEF PostingsGrow
    <3>2. CASE pc[r] = "open" /\ posting'[r] = work[r]
      BY <3>1, <3>2 DEF Sources
    <3>3. CASE posting'[r] = Assignment(work[r].order) /\ work[r].order \in Written(order, NoOrder)
      <4>1. Assignment(work[r].order).order = work[r].order
        BY DEF Assignment
      <4> QED
        BY <3>1, <3>3, <4>1, <1>1 DEF OrdersGrow
    <3> QED
      BY <1>2, <3>1, <3>2, <3>3, PostedBy
  <2> QED
    BY <2>1, <2>2
<1>3. ASSUME NEW q \in Requests
      PROVE  /\ pc'[q] \in {"close", "open"} => work'[q].order = NoOrder
             /\ pc'[q] \in {"transfer", "commit"} /\ order'[q] # NoOrder => work'[q].order = q
  <2>1. CASE q = r
    BY <2>1, OwnSource
  <2>2. CASE q # r
    BY <2>2, <1>1 DEF Sources, Frame, OrdersGrow, Written
  <2> QED
    BY <2>1, <2>2
<1>4. \A q \in Requests : posting'[q] # NoPosting => posting'[q].order \in Requests \cup {NoOrder}
  BY <1>1 DEF TypeOK, TablesOK, Postings
<1> QED
  BY <1>2, <1>3, <1>4 DEF Sources, Written

Carried(o)   == \E q \in Written(posting, NoPosting) : posting[q].order = o
CarriedOut(o) ==
  /\ order[o].status = "COMPLETED" => Carried(o) \/ pc[o] \in {"transfer", "commit", "failed"}
  /\ Carried(o) => order[o].status = "COMPLETED" \/ o \in reset

\* Who was posted by an order stays so; somebody is newly posted by order when a transfer
\* commits, and by no other query.
LEMMA CarriedKept ==
  ASSUME TypeOK, Chain, Sources, NEW r \in Requests, Step(r), NEW o \in Requests
  PROVE  /\ Carried(o) => Carried(o)'
         /\ Carried(o)' => Carried(o) \/ (CompleteTransfer(r) /\ work[r].order = o)
         /\ CompleteTransfer(r) /\ work[r].order = o => Carried(o)'
<1>1. PostingsGrow(r)
  BY PostingsKept
<1>2. Carried(o) => Carried(o)'
  BY <1>1 DEF Carried, PostingsGrow, Same, Written
<1>3. ASSUME NEW q \in Requests, posting'[q] # NoPosting, posting'[q].order = o
      PROVE  Carried(o) \/ (CompleteTransfer(r) /\ work[r].order = o)
  <2>1. CASE posting[q] # NoPosting
    BY <1>1, <1>3, <2>1 DEF Carried, PostingsGrow, Same, Written
  <2>2. CASE posting[q] = NoPosting
    <3>1. q = r
      BY <1>1, <1>3, <2>2 DEF PostingsGrow
    <3>2. CASE pc[r] = "open" /\ posting'[r] = work[r]
      BY <3>1, <3>2, <1>3, NullsAssumption DEF Sources
    <3>3. CASE CompleteTransfer(r) /\ posting'[r] = Assignment(work[r].order)
      BY <3>1, <3>3, <1>3 DEF Assignment
    <3> QED
      BY <1>3, <3>1, <3>2, <3>3, PostedBy
  <2> QED
    BY <2>1, <2>2
<1>4. ASSUME CompleteTransfer(r), work[r].order = o PROVE Carried(o)'
  <2>1. posting'[r] = Assignment(o)
    BY <1>4 DEF CompleteTransfer, Closed, TypeOK, TablesOK
  <2>2. o \in Requests /\ order[o] # NoOrder
    BY <1>4 DEF CompleteTransfer, TypeOK, HoldsOK
  <2>3. Assignment(o) \in Postings /\ Assignment(o).order = o
    <3>1. Assignment(o).order = o
      BY DEF Assignment
    <3> QED
      BY <2>2, <3>1, PostingsTyped
  <2> QED
    BY <2>1, <2>3, NullsAssumption DEF Carried, Written
<1> QED
  BY <1>2, <1>3, <1>4 DEF Carried, Written

LEMMA CarriedStep ==
  ASSUME TypeOK, Chain, Sources, OrdersCarriedOut, NEW r \in Requests, Step(r)
  PROVE  OrdersCarriedOut'
<1> USE DEF Goto, Hold
<1>1. TypeOK' /\ Frame(r) /\ OrdersGrow(r) /\ HoldsOK(r) /\ TablesOK
  BY TypeStep, Steps, OwnLocals, OrdersKept DEF TypeOK
<1>2. pc \in [Requests -> Stages] /\ pc[r] \notin {"done", "failed"}
  BY OwnRows DEF TypeOK
<1>3. \A o \in Written(order, NoOrder) : CarriedOut(o)
  BY DEF OrdersCarriedOut, CarriedOut, Carried
<1>4. ASSUME NEW o \in Requests, order'[o] # NoOrder PROVE CarriedOut(o)'
  <2>1. CASE InsertTransfer(r)
    <3>1. pc[r] = "insert" /\ reset' = reset /\ posting' = posting
          /\ (order' = order \/ order' = [order EXCEPT ![r] = work[r]])
      BY <2>1 DEF InsertTransfer, history
    <3>2. order[r] = NoOrder
      BY <3>1 DEF Chain
    <3>3. CASE o = r
      <4>1. ~Carried(r)
        BY <3>2, NullsAssumption DEF Carried, Sources, Written
      <4>2. ~Carried(r)'
        BY <4>1, <3>1 DEF Carried, Written
      <4>3. order'[r].status = "COMPLETED" => pc'[r] \in {"transfer", "failed"}
        BY <2>1, <1>1, <1>2, <3>2, <3>3, <1>4 DEF InsertTransfer, TablesOK
      <4> QED
        BY <3>3, <4>2, <4>3 DEF CarriedOut
    <3>4. CASE o # r
      <4>1. order'[o] = order[o] /\ order[o] # NoOrder /\ pc'[o] = pc[o]
        BY <3>1, <3>4, <1>1, <1>4 DEF TablesOK, Frame
      <4>2. Carried(o)' <=> Carried(o)
        BY <3>1 DEF Carried, Written
      <4> QED
        BY <4>1, <4>2, <3>1, <1>3 DEF CarriedOut, Written
    <3> QED
      BY <3>3, <3>4
  <2>2. CASE order' = order /\ reset' = reset /\ ~CompleteTransfer(r)
    <3>1. order[o] # NoOrder /\ CarriedOut(o) /\ (Carried(o)' <=> Carried(o))
      BY <2>2, <1>4, <1>3, CarriedKept DEF Written
    <3>2. CASE o # r
      BY <3>1, <3>2, <2>2, <1>1 DEF CarriedOut, Frame
    <3>3. CASE o = r /\ pc[r] \in {"transfer", "commit"}
      <4>1. pc'[r] \in {"commit", "failed"}
        BY <2>2, <3>3, <1>2 DEF Step, PostingStep, OrderStep, StatusStep, CreatePriest, Appoint, ClosePrimary,
             OpenPosting, EditPosting, CreateTransfer, NextOrderNo, InsertTransfer, UpdateTransferStatus,
             BeginTransfer, UpdatePriest, SetStatus, LogStatus, RequestLeave, ReviewLeave, DecideLeave, Abort
      <4> QED
        BY <4>1, <3>1, <3>3, <2>2 DEF CarriedOut
    <3>4. CASE o = r /\ pc[r] \notin {"transfer", "commit"}
      BY <3>1, <3>4, <2>2, <1>2 DEF CarriedOut
    <3> QED
      BY <3>2, <3>3, <3>4
  <2>3. CASE UpdateTransferStatus(r)
    <3>1. pc[r] = "idle" /\ posting' = posting /\ ~CompleteTransfer(r)
      BY <2>3 DEF UpdateTransferStatus, CompleteTransfer
    <3>2. PICK i \in Written(order, NoOrder) :
            \/ order' = [order EXCEPT ![i].status = "DRAFT"] /\ reset' = reset \cup {i}
            \/ order' = order /\ reset' = reset
      BY <2>3 DEF UpdateTransferStatus
    <3>3. CASE order' = [order EXCEPT ![i].status = "DRAFT"] /\ reset' = reset \cup {i}
      <4>1. order[r] = NoOrder
        BY <3>1 DEF Chain
      <4>2. CASE o = i
        <5>1. order[i] \in Orders /\ order'[i] = [order[i] EXCEPT !.status = "DRAFT"]
          BY <3>3, <1>1 DEF TablesOK, Written
        <5>2. order'[i].status = "DRAFT"
          BY <5>1 DEF Orders
        <5> QED
          BY <5>2, <3>3, <4>2 DEF CarriedOut
      <4>3. CASE o # i
        <5>1. order'[o] = order[o] /\ o # r
          BY <3>3, <4>1, <4>3, <1>1, <1>4 DEF TablesOK, Written
        <5>2. Carried(o)' <=> Carried(o)
          BY <3>1 DEF Carried, Written
        <5> QED
          BY <5>1, <5>2, <3>3, <1>1, <1>3, <1>4 DEF CarriedOut, Frame, Written
      <4> QED
        BY <4>2, <4>3
    <3>4. CASE order' = order /\ reset' = reset
      BY <3>4, <3>1, <2>2
    <3> QED
      BY <3>2, <3>3, <3>4
  <2>4. CASE CompleteTransfer(r)
    <3> DEFINE i == work[r].order
    <3>1. /\ i \in Written(order, NoOrder) /\ pc[r] = "commit" /\ reset' = reset
          /\ order' = [order EXCEPT ![i].status = "COMPLETED"]
      BY <2>4, <1>1 DEF CompleteTransfer, HoldsOK, Moves, Written
    <3>2. order[r] # NoOrder => i = r
      BY <3>1 DEF Sources, Written
    <3>3. i = o => Carried(o)'
      BY <2>4, CarriedKept
    <3>4. i # o => (Carried(o)' <=> Carried(o))
      BY CarriedKept
    <3> HIDE DEF i
    <3>5. CASE o = i
      <4>1. order[i] \in Orders /\ order'[i] = [order[i] EXCEPT !.status = "COMPLETED"]
        BY <3>1, <1>1 DEF TablesOK, Written
      <4>2. order'[i].status = "COMPLETED"
        BY <4>1 DEF Orders
      <4> QED
        BY <4>2, <3>3, <3>5 DEF CarriedOut
    <3>6. CASE o # i
      <4>1. order'[o] = order[o] /\ o # r
        BY <3>1, <3>2, <3>6, <1>1, <1>4 DEF TablesOK, Written
      <4> QED
        BY <4>1, <3>1, <3>4, <3>6, <1>1, <1>3, <1>4 DEF CarriedOut, Frame, Written
    <3> QED
      BY <3>5, <3>6
  <2>5. CASE PostingStep(r)
    BY <2>2, <2>5, <1>2 DEF PostingStep, CreatePriest, Appoint, ClosePrimary, OpenPosting, EditPosting,
                            CompleteTransfer, history
  <2>6. CASE OrderStep(r)
    BY <2>1, <2>2, <2>3, <2>4, <2>6 DEF OrderStep, CreateTransfer, NextOrderNo, BeginTransfer, history
  <2>7. CASE StatusStep(r)
    BY <2>2, <2>4, <2>7 DEF StatusStep, UpdatePriest, SetStatus, LogStatus, RequestLeave, ReviewLeave, DecideLeave,
                            Abort, history
  <2> QED
    BY <2>5, <2>6, <2>7 DEF Step
<1> QED
  BY <1>4 DEF OrdersCarriedOut, CarriedOut, Carried, Written

\* Every step, by name.
LEMMA StepCases ==
  ASSUME NEW r, Step(r)
  PROVE  \/ CreatePriest(r) \/ Appoint(r) \/ ClosePrimary(r) \/ OpenPosting(r) \/ EditPosting(r)
         \/ CreateTransfer(r) \/ NextOrderNo(r) \/ InsertTransfer(r) \/ UpdateTransferStatus(r)
         \/ BeginTransfer(r) \/ CompleteTransfer(r)
         \/ UpdatePriest(r) \/ SetStatus(r) \/ LogStatus(r) \/ RequestLeave(r) \/ ReviewLeave(r)
         \/ DecideLeave(r) \/ Abort(r)
  BY DEF Step, PostingStep, OrderStep, StatusStep

\* The steps that leave the priests, their events and the overlaps alone.
LEMMA StatusUntouched ==
  ASSUME TypeOK, NEW r, Step(r)
  PROVE  \/ CreatePriest(r) \/ CompleteTransfer(r) \/ SetStatus(r) \/ LogStatus(r) \/ Abort(r)
         \/ priest' = priest /\ logged' = logged /\ crossed' = crossed /\ pc[r] # "log"
  BY StepCases DEF Appoint, ClosePrimary, OpenPosting, EditPosting, CreateTransfer, NextOrderNo, InsertTransfer,
     UpdateTransferStatus, BeginTransfer, UpdatePriest, RequestLeave, ReviewLeave, DecideLeave, history

\* A priest's status changes under no other request's feet unless that is noted; no priest
\* goes away, and none who is not there gets an event.
LEMMA PriestsKept ==
  ASSUME TypeOK, Known, NEW r \in Requests, Step(r), NEW p \in Priests
  PROVE  /\ priest[p] # NoPriest => priest'[p] # NoPriest
         /\ priest'[p] = NoPriest => logged'[p] = NoEvent
         /\ priest'[p] = priest[p] \/ priest[p] = NoPriest \/ p \in crossed' \/ Changing(p) \subseteq {r}
         /\ crossed \subseteq crossed'
<1>1. TablesOK /\ HoldsOK(r)
  BY DEF TypeOK
<1>2. CASE CreatePriest(r)
  <2>1. PICK i \in Priests, s \in Statuses : priest[i] = NoPriest /\ priest' = [priest EXCEPT ![i] = s]
    BY <1>2 DEF CreatePriest
  <2>2. logged' = logged /\ crossed' = crossed
    BY <1>2 DEF CreatePriest
  <2> QED
    BY <2>1, <2>2, <1>1, NullsAssumption DEF Known, TablesOK
<1>3. CASE CompleteTransfer(r)
  <2> DEFINE i == order[work[r].order].priest
  <2>1. /\ priest' = [priest EXCEPT ![i] = "ACTIVE"] /\ logged' = [logged EXCEPT ![i] = "ACTIVE"]
        /\ crossed' = IF Changing(i) \subseteq {r} THEN crossed ELSE crossed \cup {i}
    BY <1>3 DEF CompleteTransfer, Cross
  <2>2. "ACTIVE" # NoPriest
    BY NullsAssumption DEF Statuses
  <2> HIDE DEF i
  <2> QED
    BY <2>1, <2>2, <1>1 DEF Known, TablesOK
<1>4. CASE SetStatus(r)
  <2> DEFINE i == work[r].priest
  <2>1. /\ priest' = [priest EXCEPT ![i] = work[r].status] /\ logged' = logged
        /\ crossed' = IF Changing(i) \subseteq {r} THEN crossed ELSE crossed \cup {i}
    BY <1>4 DEF SetStatus, Cross
  <2>2. work[r].status # NoPriest
    BY <1>4, <1>1, NullsAssumption DEF SetStatus, HoldsOK, Changes
  <2> HIDE DEF i
  <2> QED
    BY <2>1, <2>2, <1>1 DEF Known, TablesOK
<1>5. CASE LogStatus(r)
  <2>1. /\ priest' = priest /\ crossed' = crossed /\ pc[r] = "log"
        /\ logged' = [logged EXCEPT ![work[r].priest] = work[r].status]
    BY <1>5 DEF LogStatus, history
  <2>2. priest[work[r].priest] # NoPriest
    BY <2>1 DEF Known
  <2> QED
    BY <2>1, <2>2, <1>1 DEF Known, TablesOK
<1>6. CASE Abort(r)
  <2>1. priest' = priest /\ logged' = logged /\ crossed \subseteq crossed'
    BY <1>6 DEF Abort
  <2> QED
    BY <2>1 DEF Known
<1>7. CASE priest' = priest /\ logged' = logged /\ crossed' = crossed
  BY <1>7 DEF Known
<1> QED
  BY <1>2, <1>3, <1>4, <1>5, <1>6, <1>7, StatusUntouched

\* A request works for a priest who is there, knows his status when it has read it and no
\* other change crossed, and logs the one it wrote.
Tracks(r) ==
  /\ pc[r] \in {"close", "open", "set", "onleave", "log"} => priest[work[r].priest] # NoPriest
  /\ pc[r] = "set" /\ work[r].priest \notin crossed => priest[work[r].priest] = work[r].found
  /\ pc[r] = "log" /\ work[r].priest \notin crossed => priest[work[r].priest] = work[r].status

LEMMA OwnTrack == ASSUME TypeOK, Known, NEW r \in Requests, Step(r) PROVE Tracks(r)'
<1> USE DEF Goto, Hold
<1>1. TablesOK /\ HoldsOK(r) /\ pc \in [Requests -> Stages] /\ work \in [Requests -> Works]
  BY DEF TypeOK, Works
<1>2. CASE pc'[r] \notin {"close", "open", "set", "onleave", "log"}
  BY <1>2 DEF Tracks
<1>3. CASE CreatePriest(r)
  <2>1. PICK i \in Priests, s \in Statuses :
          /\ priest[i] = NoPriest
          /\ priest' = [priest EXCEPT ![i] = s]
          /\ \/ /\ \E a \in Parishes, b \in BOOLEAN :
                      work' = [work EXCEPT ![r] = [priest |-> i, parish |-> a, kind |-> "NEW", primary |-> b,
                                                   current |-> TRUE, order |-> NoOrder]]
                /\ pc' = [pc EXCEPT ![r] = "open"]
             \/ pc' = [pc EXCEPT ![r] = "done"] /\ UNCHANGED work
    BY <1>3, Zenon DEF CreatePriest
  <2>2. pc'[r] = "done" \/ (pc'[r] = "open" /\ work'[r].priest = i)
    BY <1>1, <2>1
  <2>3. priest'[i] # NoPriest
    BY <2>1, <1>1, NullsAssumption DEF TablesOK
  <2> QED
    BY <2>2, <2>3, <1>2 DEF Tracks
<1>4. CASE Appoint(r)
  <2>1. PICK i \in Priests : priest[i] # NoPriest /\ work'[r].priest = i /\ priest' = priest
    BY <1>1, <1>4 DEF Appoint
  <2>2. pc'[r] \in {"close", "open"}
    BY <1>1, <1>4 DEF Appoint
  <2> QED
    BY <2>1, <2>2 DEF Tracks
<1>5. CASE ClosePrimary(r)
  BY <1>1, <1>5 DEF ClosePrimary, Tracks, Known
<1>6. CASE UpdatePriest(r)
  <2>1. PICK i \in Priests, s \in Statuses :
          priest[i] # NoPriest /\ work'[r] = [priest |-> i, status |-> s, found |-> priest[i]]
    BY <1>1, <1>6 DEF UpdatePriest
  <2>2. pc'[r] = "set" /\ priest' = priest
    BY <1>1, <1>6 DEF UpdatePriest
  <2> QED
    BY <2>1, <2>2 DEF Tracks
<1>7. CASE SetStatus(r)
  <2> DEFINE i == work[r].priest
  <2>1. /\ priest' = [priest EXCEPT ![i] = work[r].status]
        /\ pc'[r] = "done" \/ (pc'[r] = "log" /\ work' = work)
    BY <1>1, <1>7 DEF SetStatus
  <2>2. i \in Priests /\ work[r].status # NoPriest
    BY <1>1, <1>7, NullsAssumption DEF SetStatus, HoldsOK, Changes
  <2>3. priest'[i] = work[r].status
    BY <2>1, <2>2, <1>1 DEF TablesOK
  <2> QED
    BY <2>1, <2>2, <2>3, <1>2 DEF Tracks
<1>8. CASE DecideLeave(r)
  <2> DEFINE i == leave[work[r].leave].priest
  <2>1. work[r].leave \in Written(leave, NoLeave) /\ priest' = priest
    BY <1>1, <1>8 DEF DecideLeave, HoldsOK, Reviews, Written
  <2>2. priest[i] # NoPriest
    BY <2>1 DEF Known
  <2>3. pc'[r] = "done" \/ (pc'[r] = "onleave" /\ work'[r].priest = i)
    BY <1>1, <1>8 DEF DecideLeave
  <2> HIDE DEF i
  <2> QED
    BY <2>1, <2>2, <2>3, <1>2 DEF Tracks
<1> QED
  BY <1>1, <1>2, <1>3, <1>4, <1>5, <1>6, <1>7, <1>8, StepCases
  DEF OpenPosting, EditPosting, CreateTransfer, NextOrderNo, InsertTransfer, UpdateTransferStatus, BeginTransfer,
      CompleteTransfer, LogStatus, RequestLeave, ReviewLeave, Abort

\* A leave is of a priest who is there.
LEMMA LeavesKnown ==
  ASSUME TypeOK, Known, NEW r \in Requests, Step(r), NEW l \in Requests, leave'[l] # NoLeave
  PROVE  priest[leave'[l].priest] # NoPriest /\ leave'[l].priest \in Priests
<1>1. TablesOK /\ TablesOK' /\ HoldsOK(r)
  BY RowsWritten DEF TypeOK
<1>2. leave'[l].priest \in Priests
  BY <1>1 DEF TablesOK, Leaves
<1>3. CASE leave' = leave
  BY <1>2, <1>3 DEF Known, Written
<1>4. CASE RequestLeave(r)
  <2>1. PICK i \in Priests : priest[i] # NoPriest /\ leave' = [leave EXCEPT ![r] = [priest |-> i, status |-> "PENDING"]]
    BY <1>4 DEF RequestLeave
  <2>2. leave'[r].priest = i /\ (l # r => leave'[l] = leave[l])
    BY <1>1, <2>1 DEF TablesOK
  <2> QED
    BY <1>2, <2>1, <2>2 DEF Known, Written
<1>5. CASE DecideLeave(r)
  <2> DEFINE i == work[r].leave
             w == [leave[i] EXCEPT !.status = work[r].decision]
  <2>1. i \in Written(leave, NoLeave) /\ leave' = [leave EXCEPT ![i] = w]
    BY <1>1, <1>5 DEF DecideLeave, HoldsOK, Reviews, Written
  <2>2. w.priest = leave[i].priest
    BY <1>1, <2>1 DEF TablesOK, Leaves, Written
  <2> HIDE DEF i, w
  <2>3. leave'[l].priest = leave[l].priest /\ leave[l] # NoLeave
    BY <1>1, <2>1, <2>2 DEF TablesOK, Written
  <2> QED
    BY <1>2, <2>3 DEF Known, Written
<1> QED
  BY <1>3, <1>4, <1>5, StepCases
  DEF CreatePriest, Appoint, ClosePrimary, OpenPosting, EditPosting, CreateTransfer, NextOrderNo, InsertTransfer,
      UpdateTransferStatus, BeginTransfer, CompleteTransfer, UpdatePriest, SetStatus, LogStatus, ReviewLeave, Abort

LEMMA KnownStep == ASSUME TypeOK, Chain, Known, NEW r \in Requests, Step(r) PROVE Known'
<1>1. TypeOK' /\ Frame(r) /\ PostingsGrow(r) /\ TablesOK /\ TablesOK'
  BY TypeStep, Steps, OwnLocals, PostingsKept DEF TypeOK
<1>2. \A p \in Priests : /\ priest[p] # NoPriest => priest'[p] # NoPriest
                         /\ priest'[p] = NoPriest => logged'[p] = NoEvent
                         /\ priest'[p] = priest[p] \/ priest[p] = NoPriest \/ p \in crossed' \/ Changing(p) \subseteq {r}
  BY PriestsKept
<1>3. crossed \subseteq crossed'
  <2>1. CASE Priests = {}
    BY <1>1, <2>1 DEF TablesOK
  <2> QED
    BY <2>1, PriestsKept
<1>4. ASSUME NEW q \in Requests, posting'[q] # NoPosting PROVE priest'[posting'[q].priest] # NoPriest
  <2>1. posting'[q].priest \in Priests
    BY <1>1, <1>4 DEF TablesOK, Postings
  <2>2. CASE posting[q] # NoPosting
    BY <1>1, <1>2, <2>1, <2>2 DEF PostingsGrow, Same, Known, Written
  <2>3. CASE posting[q] = NoPosting
    <3>1. q = r
      BY <1>1, <1>4, <2>3 DEF PostingsGrow
    <3>2. CASE pc[r] = "open" /\ posting'[r] = work[r]
      BY <1>2, <2>1, <3>1, <3>2 DEF Known
    <3>3. CASE CompleteTransfer(r) /\ posting'[r] = Assignment(work[r].order)
      <4> DEFINE i == order[work[r].order].priest
      <4>1. posting'[r].priest = i
        BY <3>3 DEF Assignment
      <4>2. priest' = [priest EXCEPT ![i] = "ACTIVE"]
        BY <3>3 DEF CompleteTransfer
      <4>3. "ACTIVE" # NoPriest
        BY NullsAssumption DEF Statuses
      <4> QED
        BY <2>1, <3>1, <4>1, <4>2, <4>3, <1>1 DEF TablesOK
    <3> QED
      BY <1>4, <3>1, <3>2, <3>3, PostedBy
  <2> QED
    BY <2>2, <2>3
<1>5. ASSUME NEW l \in Requests, leave'[l] # NoLeave PROVE priest'[leave'[l].priest] # NoPriest
  BY <1>2, <1>5, LeavesKnown
<1>6. ASSUME NEW q \in Requests PROVE Tracks(q)'
  <2>1. CASE q = r
    BY <2>1, OwnTrack
  <2>2. CASE q # r
    <3>1. pc'[q] = pc[q] /\ work'[q] = work[q] /\ HoldsOK(q)
      BY <1>1, <2>2 DEF Frame, TypeOK
    <3>2. pc[q] \in {"close", "open", "set", "onleave", "log"} =>
            work[q].priest \in Priests /\ priest[work[q].priest] # NoPriest
      BY <3>1 DEF HoldsOK, Postings, Changes, Known
    <3>3. pc[q] \in {"set", "onleave", "log"} => ~(Changing(work[q].priest) \subseteq {r})
      BY <2>2 DEF Changing
    <3> QED
      BY <3>1, <3>2, <3>3, <1>2, <1>3 DEF Tracks, Known
  <2> QED
    BY <2>1, <2>2
<1> QED
  BY <1>2, <1>4, <1>5, <1>6 DEF Known, Tracks, Written

\* For one priest: his last event names his status, or is about to.
Told(p) ==
  \/ priest[p] = NoPriest \/ p \in crossed \/ logged[p] = NoEvent
  \/ \E q \in Requests : pc[q] = "log" /\ work[q].priest = p
  \/ logged[p] = priest[p]

LEMMA LoggedStep ==
  ASSUME TypeOK, Known, NEW r \in Requests, Step(r), NEW p \in Priests, Told(p)
  PROVE  Told(p)'
<1> USE DEF Goto, Hold
<1>1. Frame(r) /\ TablesOK /\ HoldsOK(r) /\ pc \in [Requests -> Stages] /\ crossed \subseteq crossed'
  BY OwnLocals, PriestsKept DEF TypeOK
<1>2. ASSUME priest'[p] = priest[p], logged'[p] = logged[p], pc[r] # "log" \/ work[r].priest # p
      PROVE  Told(p)'
  BY <1>1, <1>2 DEF Told, Frame
<1>3. CASE CreatePriest(r)
  <2>1. PICK i \in Priests, s \in Statuses : priest[i] = NoPriest /\ priest' = [priest EXCEPT ![i] = s]
    BY <1>3 DEF CreatePriest
  <2>2. logged' = logged /\ pc[r] = "idle"
    BY <1>3 DEF CreatePriest
  <2>3. CASE p = i
    BY <2>1, <2>2, <2>3 DEF Told, Known
  <2>4. CASE p # i
    BY <2>1, <2>2, <2>4, <1>1, <1>2 DEF TablesOK
  <2> QED
    BY <2>3, <2>4
<1>4. CASE CompleteTransfer(r)
  <2> DEFINE i == order[work[r].order].priest
  <2>1. /\ priest' = [priest EXCEPT ![i] = "ACTIVE"] /\ logged' = [logged EXCEPT ![i] = "ACTIVE"]
        /\ pc[r] = "commit"
    BY <1>4 DEF CompleteTransfer
  <2> HIDE DEF i
  <2>2. CASE p = i
    BY <2>1, <2>2, <1>1 DEF Told, TablesOK
  <2>3. CASE p # i
    BY <2>1, <2>3, <1>1, <1>2 DEF TablesOK
  <2> QED
    BY <2>2, <2>3
<1>5. CASE SetStatus(r)
  <2> DEFINE i == work[r].priest
  <2>1. /\ priest' = [priest EXCEPT ![i] = work[r].status] /\ logged' = logged
        /\ pc[r] \in {"set", "onleave"}
        /\ crossed' = IF Changing(i) \subseteq {r} THEN crossed ELSE crossed \cup {i}
        /\ \/ pc'[r] = "log" /\ work' = work
           \/ pc[r] = "set" /\ work[r].status = work[r].found
    BY <1>1, <1>5 DEF SetStatus, Cross
  <2>2. CASE p # i
    BY <2>1, <2>2, <1>1, <1>2 DEF TablesOK
  <2>3. CASE p = i /\ pc'[r] = "log" /\ work' = work
    BY <2>3 DEF Told
  <2>4. CASE p = i /\ p \in crossed'
    BY <2>4 DEF Told
  <2>5. CASE p = i /\ p \notin crossed' /\ pc[r] = "set" /\ work[r].status = work[r].found
    <3>1. priest[p] = work[r].found
      BY <2>5, <1>1 DEF Known
    <3>2. priest'[p] = priest[p]
      BY <3>1, <2>1, <2>5, <1>1 DEF TablesOK
    <3> QED
      BY <3>2, <2>1, <1>2
  <2> QED
    BY <2>1, <2>2, <2>3, <2>4, <2>5
<1>6. CASE LogStatus(r)
  <2>1. /\ priest' = priest /\ crossed' = crossed /\ pc[r] = "log"
        /\ logged' = [logged EXCEPT ![work[r].priest] = work[r].status]
    BY <1>6 DEF LogStatus, history
  <2>2. CASE p = work[r].priest
    <3>1. p \in crossed \/ priest[p] = work[r].status
      BY <2>1, <2>2 DEF Known
    <3> QED
      BY <3>1, <2>1, <2>2, <1>1 DEF Told, TablesOK
  <2>3. CASE p # work[r].priest
    BY <2>1, <2>3, <1>1, <1>2 DEF TablesOK
  <2> QED
    BY <2>2, <2>3
<1>7. CASE Abort(r)
  <2>1. /\ priest' = priest /\ logged' = logged
        /\ crossed' = IF pc[r] = "log" THEN crossed \cup {work[r].priest} ELSE crossed
    BY <1>7 DEF Abort
  <2>2. CASE pc[r] = "log" /\ work[r].priest = p
    BY <2>1, <2>2 DEF Told
  <2> QED
    BY <2>1, <2>2, <1>2
<1>8. CASE priest' = priest /\ logged' = logged /\ crossed' = crossed /\ pc[r] # "log"
  BY <1>2, <1>8
<1> QED
  BY <1>3, <1>4, <1>5, <1>6, <1>7, <1>8, StatusUntouched

\* A posting that is a current primary one after a step was one before, was edited, or is
\* the one the step posts.
LEMMA PrimaryKept ==
  ASSUME TypeOK, Chain, NEW r \in Requests, Step(r), NEW p, NEW q \in PrimaryOf(p)'
  PROVE  /\ q \in Requests /\ posting'[q] # NoPosting /\ posting'[q].priest = p
         /\ posting[q] # NoPosting => q \in PrimaryOf(p) \/ q \in edited'
         /\ posting[q] = NoPosting => q = r
<1>1. PostingsGrow(r)
  BY PostingsKept
<1>2. /\ q \in Requests /\ posting'[q] # NoPosting /\ posting'[q].priest = p
      /\ posting'[q].current /\ posting'[q].primary
  BY DEF PrimaryOf, CurrentOf, PostingsOf, Written
<1>3. posting[q] # NoPosting => posting[q].priest = p
  BY <1>1, <1>2 DEF PostingsGrow, Same, Written
<1>4. posting[q] # NoPosting => (posting[q].current /\ posting[q].primary) \/ q \in edited'
  BY <1>1, <1>2 DEF PostingsGrow, Written
<1>5. posting[q] = NoPosting => q = r
  BY <1>1, <1>2 DEF PostingsGrow
<1> QED
  BY <1>2, <1>3, <1>4, <1>5 DEF PrimaryOf, CurrentOf, PostingsOf, Written

\* What a request saw is settled when it begins.
LEMMA SawKept ==
  ASSUME TypeOK, NEW r \in Requests, Step(r)
  PROVE  saw'[r] = saw[r] \/ saw'[r] = Written(posting, NoPosting)
<1>1. saw \in [Requests -> SUBSET Requests]
  BY DEF TypeOK, TablesOK
<1>2. saw' = saw \/ saw' = [saw EXCEPT ![r] = Written(posting, NoPosting)]
  BY StepCases DEF CreatePriest, Appoint, ClosePrimary, OpenPosting, EditPosting, CreateTransfer, NextOrderNo,
     InsertTransfer, UpdateTransferStatus, BeginTransfer, CompleteTransfer, UpdatePriest, SetStatus, LogStatus,
     RequestLeave, ReviewLeave, DecideLeave, Abort, Begin, history
<1> QED
  BY <1>1, <1>2

\* The primary postings a request saw: of the priest it appoints, of the one its order moves.
Opening(r) == saw[r] \cap PrimaryOf(work[r].priest)
Ending(r)  == saw[r] \cap PrimaryOf(order[work[r].order].priest)

\* The request itself: none of the primary postings it saw is left when it is about to post.
LEMMA OwnClearing ==
  ASSUME TypeOK, Chain, Known, Cleared, NEW r \in Requests, Step(r)
  PROVE  /\ pc'[r] = "open" /\ Supersedes(work'[r]) => Opening(r)' = {}
         /\ pc'[r] = "commit" => Ending(r)' \subseteq work'[r].closing
<1> USE DEF Goto, Hold
<1>1. /\ pc \in [Requests -> Stages] /\ work \in [Requests -> Works] /\ HoldsOK(r)
      /\ posting \in [Requests -> Postings \cup {NoPosting}] /\ saw \in [Requests -> SUBSET Requests]
  BY DEF TypeOK, TablesOK, Works
<1>2. CASE pc'[r] \notin {"open", "commit"}
  BY <1>2
<1>3. CASE CreatePriest(r)
  <2>1. PICK i \in Priests, s \in Statuses :
          /\ priest[i] = NoPriest
          /\ priest' = [priest EXCEPT ![i] = s]
          /\ \/ /\ \E a \in Parishes, b \in BOOLEAN :
                      work' = [work EXCEPT ![r] = [priest |-> i, parish |-> a, kind |-> "NEW", primary |-> b,
                                                   current |-> TRUE, order |-> NoOrder]]
                /\ pc' = [pc EXCEPT ![r] = "open"]
             \/ pc' = [pc EXCEPT ![r] = "done"] /\ UNCHANGED work
    BY <1>3, Zenon DEF CreatePriest
  <2>2. pc'[r] = "done" \/ (pc'[r] = "open" /\ work'[r].priest = i)
    BY <1>1, <2>1
  <2>3. posting' = posting
    BY <1>3 DEF CreatePriest
  <2>4. ASSUME NEW q \in PrimaryOf(i)' PROVE FALSE
    <3>1. q \in Written(posting, NoPosting) /\ posting[q].priest = i
      BY <2>3 DEF PrimaryOf, CurrentOf, PostingsOf, Written
    <3> QED
      BY <3>1, <2>1 DEF Known
  <2>5. work'[r].priest = i => Opening(r)' = {}
    BY <2>4 DEF Opening
  <2> QED
    BY <2>2, <2>5
<1>4. CASE Appoint(r)
  <2>1. PICK p \in Priests, a \in Parishes, k \in Kinds \ {"TRANSFER"}, b, c \in BOOLEAN :
          /\ priest[p] # NoPriest
          /\ work' = [work EXCEPT ![r] = [priest |-> p, parish |-> a, kind |-> k, primary |-> b,
                                          current |-> c, order |-> NoOrder]]
          /\ pc' = [pc EXCEPT ![r] =
                      IF Supersedes([priest |-> p, parish |-> a, kind |-> k, primary |-> b,
                                     current |-> c, order |-> NoOrder]) THEN "close" ELSE "open"]
    BY <1>4, Zenon DEF Appoint
  <2> DEFINE w == [priest |-> p, parish |-> a, kind |-> k, primary |-> b, current |-> c, order |-> NoOrder]
  <2>2. work' = [work EXCEPT ![r] = w] /\ pc' = [pc EXCEPT ![r] = IF Supersedes(w) THEN "close" ELSE "open"]
    BY <2>1
  <2> HIDE DEF w
  <2>3. work'[r] = w /\ pc'[r] = IF Supersedes(w) THEN "close" ELSE "open"
    BY <1>1, <2>2
  <2>4. pc'[r] = "open" => ~Supersedes(work'[r])
    BY <2>3
  <2>5. pc'[r] # "commit"
    BY <2>3
  <2> QED
    BY <2>4, <2>5
<1>5. CASE ClosePrimary(r)
  <2> PICK p : p = work[r].priest
    OBVIOUS
  <2>1. posting' = Closed(PrimaryOf(p)) /\ work' = work /\ pc'[r] = "open"
    BY <1>1, <1>5 DEF ClosePrimary
  <2>2. ASSUME NEW q \in PrimaryOf(p)' PROVE FALSE
    <3>1. q \in Requests /\ posting'[q].current /\ posting'[q].primary /\ posting'[q].priest = p /\ posting'[q] # NoPosting
      BY DEF PrimaryOf, CurrentOf, PostingsOf, Written
    <3>2. CASE q \in PrimaryOf(p)
      <4>1. posting[q] \in Postings /\ posting'[q] = [posting[q] EXCEPT !.current = FALSE]
        BY <1>1, <2>1, <3>1, <3>2 DEF Closed, PrimaryOf, CurrentOf, PostingsOf, Written
      <4>2. ~posting'[q].current
        BY <4>1 DEF Postings
      <4> QED
        BY <3>1, <4>2
    <3>3. CASE q \notin PrimaryOf(p)
      <4>1. posting'[q] = posting[q]
        BY <2>1, <3>1, <3>3 DEF Closed
      <4> QED
        BY <3>1, <3>3, <4>1 DEF PrimaryOf, CurrentOf, PostingsOf, Written
    <3> QED
      BY <3>2, <3>3
  <2>3. Opening(r)' = {}
    BY <2>1, <2>2 DEF Opening
  <2> QED
    BY <2>1, <2>3
<1>6. CASE BeginTransfer(r)
  <2>1. pc'[r] = "commit" /\ order' = order /\ posting' = posting /\ work[r] \in Moves
    BY <1>1, <1>6 DEF BeginTransfer, HoldsOK
  <2>2. work' = [work EXCEPT ![r] = [work[r] EXCEPT !.closing = Ends(work[r].order)]]
    BY <1>6 DEF BeginTransfer
  <2>3. work'[r].order = work[r].order /\ work'[r].closing = Ends(work[r].order)
    BY <1>1, <2>1, <2>2 DEF Moves
  <2>4. Ending(r)' \subseteq Ends(work[r].order)
    BY <2>1, <2>3 DEF Ending, Ends, PrimaryOf, CurrentOf, PostingsOf, Written
  <2> QED
    BY <2>1, <2>3, <2>4
<1>7. CASE PostingStep(r)
  BY <1>1, <1>2, <1>3, <1>4, <1>5, <1>7 DEF PostingStep, OpenPosting, EditPosting
<1>8. CASE OrderStep(r)
  BY <1>1, <1>2, <1>6, <1>8 DEF OrderStep, CreateTransfer, NextOrderNo, InsertTransfer, UpdateTransferStatus,
                                CompleteTransfer
<1>9. CASE StatusStep(r)
  <2>1. pc'[r] \notin {"open", "commit"}
    BY <1>1, <1>9 DEF StatusStep, UpdatePriest, SetStatus, LogStatus, RequestLeave, ReviewLeave, DecideLeave, Abort
  <2> QED
    BY <2>1, <1>2
<1> QED
  BY <1>7, <1>8, <1>9 DEF Step

LEMMA ClearedStep ==
  ASSUME TypeOK, Chain, Known, Cleared, NEW r \in Requests, Step(r)
  PROVE  Cleared'
<1>1. TypeOK' /\ Frame(r) /\ PostingsGrow(r) /\ OrdersGrow(r)
  BY TypeStep, Steps, OwnLocals, PostingsKept, OrdersKept
<1>2. ASSUME NEW q \in Requests PROVE saw'[q] \subseteq Written(posting, NoPosting)
  <2>1. CASE q = r
    BY <2>1, SawKept DEF Cleared
  <2>2. CASE q # r
    BY <2>2, <1>1 DEF Frame, Cleared
  <2> QED
    BY <2>1, <2>2
<1>3. Written(posting, NoPosting) \subseteq Written(posting, NoPosting)'
  BY <1>1 DEF PostingsGrow, Written
<1>4. ASSUME NEW q \in Requests, pc'[q] = "open", Supersedes(work'[q]) PROVE Opening(q)' \subseteq edited'
  <2>1. CASE q = r
    BY <2>1, <1>4, OwnClearing
  <2>2. CASE q # r
    <3> PICK p : p = work[q].priest
      OBVIOUS
    <3>1. work'[q].priest = p /\ saw'[q] = saw[q]
      BY <2>2, <1>1 DEF Frame
    <3>2. saw[q] \cap PrimaryOf(p) \subseteq edited
      BY <2>2, <1>1, <1>4 DEF Frame, Cleared
    <3>3. ASSUME NEW i \in PrimaryOf(p)', i \in saw[q] PROVE i \in edited'
      <4>1. posting[i] # NoPosting
        BY <3>3 DEF Cleared, Written
      <4>2. i \in PrimaryOf(p) \/ i \in edited'
        BY <4>1, PrimaryKept
      <4> QED
        BY <3>2, <3>3, <4>2, <1>1 DEF PostingsGrow
    <3> QED
      BY <3>1, <3>3 DEF Opening
  <2> QED
    BY <2>1, <2>2
<1>5. ASSUME NEW q \in Requests, pc'[q] = "commit" PROVE Ending(q)' \subseteq edited' \cup work'[q].closing
  <2>1. CASE q = r
    BY <2>1, <1>5, OwnClearing
  <2>2. CASE q # r
    <3> PICK p : p = order[work[q].order].priest
      OBVIOUS
    <3>1. pc[q] = "commit" /\ work'[q] = work[q] /\ saw'[q] = saw[q]
      BY <2>2, <1>1, <1>5 DEF Frame
    <3>2. work[q].order \in Written(order, NoOrder)
      BY <3>1 DEF TypeOK, HoldsOK, Moves, Written
    <3>3. order'[work'[q].order].priest = p
      BY <3>1, <3>2, <1>1 DEF OrdersGrow
    <3>4. saw[q] \cap PrimaryOf(p) \subseteq edited \cup work[q].closing
      BY <3>1 DEF Cleared
    <3>5. ASSUME NEW i \in PrimaryOf(p)', i \in saw[q] PROVE i \in edited' \cup work[q].closing
      <4>1. posting[i] # NoPosting
        BY <3>5 DEF Cleared, Written
      <4>2. i \in PrimaryOf(p) \/ i \in edited'
        BY <4>1, PrimaryKept
      <4> QED
        BY <3>4, <3>5, <4>2, <1>1 DEF PostingsGrow
    <3> QED
      BY <3>1, <3>3, <3>5 DEF Ending
  <2> QED
    BY <2>1, <2>2
<1>6. \A q \in Requests : saw'[q] \subseteq Written(posting, NoPosting)'
  BY <1>2, <1>3
<1> QED
  BY <1>4, <1>5, <1>6 DEF Cleared, Opening, Ending

\* A posting just made is of a priest none of whose other primary ones was seen and left.
LEMMA PostedAlone ==
  ASSUME TypeOK, Chain, Cleared, NEW r \in Requests, Step(r), NEW p, NEW q \in PrimaryOf(p)',
         r \in PrimaryOf(p)', q # r
  PROVE  q \notin saw[r] \/ posting'[r].kind = "ADDITIONAL" \/ q \in edited'
<1>1. /\ posting'[r] # NoPosting /\ posting'[r].priest = p /\ posting'[r].current /\ posting'[r].primary
      /\ posting'[q].current /\ q \in Requests
  BY DEF PrimaryOf, CurrentOf, PostingsOf, Written
<1>2. (q \in PrimaryOf(p) \/ q \in edited') /\ edited \subseteq edited'
  BY PrimaryKept, PostingsKept DEF PostingsGrow
<1>3. CASE OpenPosting(r) /\ pc[r] = "open" /\ posting'[r] = work[r] /\ work[r] \in Postings
  <2>1. work[r].kind = "ADDITIONAL" \/ Supersedes(work[r])
    BY <1>1, <1>3 DEF Supersedes
  <2> QED
    BY <1>1, <1>2, <1>3, <2>1 DEF Cleared
<1>4. CASE CompleteTransfer(r) /\ pc[r] = "commit" /\ posting'[r] = Assignment(work[r].order)
  <2> DEFINE i == work[r].order
             closing == work[r].closing \cap Ends(i)
  <2>1. posting' = [Closed(closing) EXCEPT ![r] = Assignment(i)]
    BY <1>4 DEF CompleteTransfer
  <2>2. p = order[i].priest
    BY <1>1, <1>4 DEF Assignment
  <2>3. ASSUME q \in PrimaryOf(p), q \in work[r].closing PROVE FALSE
    <3>1. q \in closing /\ posting[q] # NoPosting
      BY <2>2, <2>3 DEF Ends, PrimaryOf, CurrentOf, PostingsOf, Written
    <3>2. posting'[q] = [posting[q] EXCEPT !.current = FALSE] /\ posting[q] \in Postings
      BY <1>1, <2>1, <3>1 DEF Closed, TypeOK, TablesOK
    <3>3. ~posting'[q].current
      BY <3>2 DEF Postings
    <3> QED
      BY <1>1, <3>3
  <2>4. saw[r] \cap PrimaryOf(p) \subseteq edited \cup work[r].closing
    BY <1>4, <2>2 DEF Cleared
  <2> QED
    BY <1>2, <2>3, <2>4
<1> QED
  BY <1>1, <1>3, <1>4, PostedBy

LEMMA PrimaryStep ==
  ASSUME TypeOK, Chain, Cleared, OnePrimary, NEW r \in Requests, Step(r)
  PROVE  OnePrimary'
<1>1. Frame(r) /\ PostingsGrow(r) /\ posting[r] = NoPosting
  BY OwnLocals, PostingsKept, OwnRows
<1>2. ASSUME NEW p \in Priests, NEW q1 \in PrimaryOf(p)', NEW q2 \in PrimaryOf(p)', q1 # q2
      PROVE  \/ q1 \notin saw'[q2] /\ q2 \notin saw'[q1]
             \/ "ADDITIONAL" \in {posting'[q1].kind, posting'[q2].kind}
             \/ {q1, q2} \cap edited' # {}
  <2>1. q1 \in Requests /\ q2 \in Requests
    BY PrimaryKept
  <2>2. saw'[r] = saw[r] \/ posting'[r] = NoPosting
    BY SawKept, PostedBy DEF OpenPosting, CompleteTransfer, history
  <2>3. r \notin saw[q1] /\ r \notin saw[q2]
    BY <2>1, <1>1 DEF Cleared, Written
  <2>4. CASE q1 = r
    <3>1. q2 \notin saw[r] \/ posting'[r].kind = "ADDITIONAL" \/ q2 \in edited'
      BY <1>2, <2>4, PostedAlone
    <3>2. saw'[q2] = saw[q2] /\ saw'[r] = saw[r]
      BY <1>1, <1>2, <2>1, <2>2, <2>4, PrimaryKept DEF Frame
    <3> QED
      BY <2>3, <2>4, <3>1, <3>2
  <2>5. CASE q2 = r
    <3>1. q1 \notin saw[r] \/ posting'[r].kind = "ADDITIONAL" \/ q1 \in edited'
      BY <1>2, <2>5, PostedAlone
    <3>2. saw'[q1] = saw[q1] /\ saw'[r] = saw[r]
      BY <1>1, <1>2, <2>1, <2>2, <2>5, PrimaryKept DEF Frame
    <3> QED
      BY <2>3, <2>5, <3>1, <3>2
  <2>6. CASE q1 # r /\ q2 # r
    <3>1. saw'[q1] = saw[q1] /\ saw'[q2] = saw[q2]
      BY <1>1, <2>1, <2>6 DEF Frame
    <3>2. posting[q1] # NoPosting /\ posting[q2] # NoPosting
      BY <2>6, PrimaryKept
    <3>3. posting'[q1].kind = posting[q1].kind /\ posting'[q2].kind = posting[q2].kind
      BY <1>1, <2>1, <3>2 DEF PostingsGrow, Same, Written
    <3>4. (q1 \in PrimaryOf(p) \/ q1 \in edited') /\ (q2 \in PrimaryOf(p) \/ q2 \in edited')
      BY <3>2, PrimaryKept
    <3> QED
      BY <1>1, <1>2, <3>1, <3>3, <3>4 DEF OnePrimary, PostingsGrow
  <2> QED
    BY <2>4, <2>5, <2>6
<1> QED
  BY <1>2 DEF OnePrimary

-----------------------------------------------------------------------------
(* The theorems *)

LEMMA InitInv == Init => IInv
<1> SUFFICES ASSUME Init PROVE IInv
  OBVIOUS
<1>1. TypeOK
  BY InitType
<1>2. /\ \A r \in Requests : pc[r] = "idle" /\ posting[r] = NoPosting /\ order[r] = NoOrder
      /\ \A r \in Requests : leave[r] = NoLeave /\ saw[r] = {} /\ ended[r] = NoOne
      /\ \A p \in Priests : logged[p] = NoEvent
      /\ Written(posting, NoPosting) = {} /\ Written(order, NoOrder) = {} /\ Written(leave, NoLeave) = {}
  BY DEF Init, Written
<1>3. Chain /\ Sources /\ Known /\ Cleared
  BY <1>2 DEF Chain, Sources, Known, Cleared
<1>4. OnePrimary /\ OrdersCarriedOut /\ StatusLogged
  BY <1>2 DEF OnePrimary, PrimaryOf, CurrentOf, PostingsOf, OrdersCarriedOut, StatusLogged
<1> QED
  BY <1>1, <1>3, <1>4 DEF IInv

LEMMA ToldAll == TypeOK => (StatusLogged <=> \A p \in Priests : Told(p))
<1> SUFFICES ASSUME TypeOK, NEW p \in Priests
             PROVE  (\E r \in Changing(p) : pc[r] = "log") <=>
                    (\E q \in Requests : pc[q] = "log" /\ work[q].priest = p)
  BY DEF StatusLogged, Told
<1> QED
  BY DEF Changing

LEMMA ToldAllNext == TypeOK' => (StatusLogged' <=> \A p \in Priests : Told(p)')
<1> SUFFICES ASSUME TypeOK', NEW p \in Priests
             PROVE  (\E r \in Changing(p)' : pc'[r] = "log") <=>
                    (\E q \in Requests : pc'[q] = "log" /\ work'[q].priest = p)
  BY DEF StatusLogged, Told
<1> QED
  BY DEF Changing

LEMMA InvStep == IInv /\ [Next]_vars => IInv'
<1> SUFFICES ASSUME IInv, [Next]_vars PROVE IInv'
  OBVIOUS
<1>1. CASE UNCHANGED vars
  BY <1>1 DEF IInv, vars, history, TypeOK, TablesOK, HoldsOK, Chain, Sources, Known, Cleared, Written, Supersedes,
     PrimaryOf, CurrentOf, PostingsOf, OnePrimary, OrdersCarriedOut, StatusLogged, Changing
<1>2. ASSUME NEW r \in Requests, Step(r) PROVE IInv'
  <2>1. TypeOK' /\ Chain' /\ Sources' /\ Known' /\ Cleared'
    BY <1>2, TypeStep, Steps, ChainStep, SourcesStep, KnownStep, ClearedStep DEF IInv
  <2>2. OnePrimary' /\ OrdersCarriedOut'
    BY <1>2, PrimaryStep, CarriedStep DEF IInv
  <2>3. ASSUME NEW p \in Priests PROVE Told(p)'
    BY <1>2, LoggedStep, ToldAll DEF IInv
  <2>4. StatusLogged'
    BY <2>1, <2>3, ToldAllNext
  <2> QED
    BY <2>1, <2>2, <2>4 DEF IInv
<1> QED
  BY <1>1, <1>2, Steps

\* The inductive invariant holds in every reachable state.
THEOREM Safety == Spec => []IInv
<1> QED
  BY InitInv, InvStep, PTL DEF Spec

\* Two current primary postings of a priest come from overlapping requests, an additional
\* charge or a hand (clergy.service.ts:642-655, 841-878), for any number of requests; a
\* temporary appointment closes the posting it overlays.
THEOREM PrimaryHeldOnce == Spec => []OnePrimary
<1>1. IInv => OnePrimary
  BY DEF IInv
<1> QED
  BY <1>1, Safety, PTL

\* A closed posting has its successor, or the request that closed it is between its two
\* queries or was cut there.
THEOREM ClosedAreSucceeded == Spec => []Succeeded
<1>1. IInv => Succeeded
  <2> SUFFICES ASSUME IInv, NEW q \in Requests, ended[q] # NoOne
               PROVE  \/ posting[ended[q]] # NoPosting /\ posting[ended[q]].priest = posting[q].priest
                      \/ pc[ended[q]] = "open" \/ (pc[ended[q]] = "failed" /\ order[ended[q]] = NoOrder)
    BY DEF Succeeded
  <2> QED
    BY DEF IInv, Chain
<1> QED
  BY <1>1, Safety, PTL

\* An order's status tells whether somebody was posted by it, but for the cases that
\* OrdersCarriedOut names.
THEOREM OrdersTellWhatWasDone == Spec => []OrdersCarriedOut
<1>1. IInv => OrdersCarriedOut
  BY DEF IInv
<1> QED
  BY <1>1, Safety, PTL

\* A priest's last event names his status unless two changes crossed or one was cut.
THEOREM LastEventTells == Spec => []StatusLogged
<1>1. IInv => StatusLogged
  BY DEF IInv
<1> QED
  BY <1>1, Safety, PTL
===============================================================================
