------------------------- MODULE AccommodationProofs -------------------------
(***************************************************************************)
(* Theorems of the two models of accommodation.service.ts, RoomAllocation  *)
(* and RentPayments, for every value of their constants.                   *)
(*                                                                         *)
(* Rooms: IInv is inductive: a request that has not written yet has no     *)
(* allocation and no order of its own, what it is about exists, and an     *)
(* order is about an allocation that exists.                               *)
(*                                                                         *)
(* Rent: RentInv is inductive by itself and says what a request finds when *)
(* it comes to write; SumsInv, on top of it, says what the invoices, the   *)
(* payments and the amounts that requests have read say of one another.    *)
(* The two share the requests and no table: a request serves one call, of  *)
(* rooms (Spec) or of rent (RentSpec).                                     *)
(***************************************************************************)
EXTENDS RoomAllocation, RentPayments, FiniteSetTheorems, TLAPS

-----------------------------------------------------------------------------
(* Rooms *)

\* The allocation request a wrote, if any.
Has(a) == alloc[a] # NoAllocation

\* What request r holds, and has not done, before its last query.
RequestOK(r) ==
  /\ pc[r] # "done" => alloc[r] = NoAllocation /\ order[r] = NoOrder
  /\ pc[r] \in {"vacate", "target", "transfer"} => Has(target[r])
  /\ pc[r] \in {"check", "allocate", "transfer"} => chosen[r] \in Rooms \X Occupants

\* An order is about an allocation.
OrdersOK == \A r \in Requests : order[r] # NoOrder => Has(order[r].of)

\* The inductive invariant of the tables.
IInv == TypeOK /\ OrdersOK /\ \A r \in Requests : RequestOK(r)

\* The invariant holds before the first request.
LEMMA InitIInv == Init => IInv
  BY NullsAssumption DEF Init, IInv, TypeOK, OrdersOK, RequestOK, Has

\* Every part of a step but those that write an allocation leaves the tables of
\* allocations and orders alone.
LEMMA ReadingSteps ==
  ASSUME NEW r \in Requests,
         \/ CreateRoom(r) \/ PatchRoom(r) \/ CheckRoom(r) \/ CheckActive(r)
         \/ StartVacate(r) \/ StartTransfer(r) \/ CheckTarget(r) \/ Abort(r)
  PROVE  alloc' = alloc /\ order' = order /\ moved' = moved
  BY DEF CreateRoom, PatchRoom, SetByHand, CheckRoom, CheckActive, StartVacate,
         StartTransfer, FindActive, CheckTarget, Abort

\* An allocation is a row of the three fields.
LEMMA AllocationFields ==
  ASSUME NEW x \in Allocations
  PROVE  x.room \in Rooms /\ x.occupant \in Occupants /\ x.status \in {"ACTIVE", "TRANSFERRED", "VACATED"}
  BY DEF Allocations

\* Ending an allocation leaves it its room and occupant.
LEMMA EndedAllocation ==
  ASSUME NEW x \in Allocations, NEW s \in {"TRANSFERRED", "VACATED"}
  PROVE  LET y == [x EXCEPT !.status = s]
         IN  y \in Allocations /\ y.room = x.room /\ y.occupant = x.occupant /\ y.status = s
  BY DEF Allocations

\* A step that reads keeps the invariant.
LEMMA ReadingInv ==
  ASSUME IInv, NEW r \in Requests,
         \/ CreateRoom(r) \/ PatchRoom(r) \/ CheckRoom(r) \/ CheckActive(r)
         \/ StartVacate(r) \/ StartTransfer(r) \/ CheckTarget(r) \/ Abort(r)
  PROVE  IInv'
  <1>0. alloc' = alloc /\ order' = order /\ moved' = moved
    BY ReadingSteps
  <1>1. CASE CreateRoom(r) \/ PatchRoom(r)
    BY <1>0, <1>1, StatusesAssumption
       DEF CreateRoom, PatchRoom, SetByHand, Goto, locals, IInv, TypeOK, OrdersOK, RequestOK, Has
  <1>2. CASE CheckRoom(r)
    BY <1>0, <1>2 DEF CheckRoom, Goto, IInv, TypeOK, OrdersOK, RequestOK, Has
  <1>3. CASE CheckActive(r) \/ Abort(r)
    BY <1>0, <1>3 DEF CheckActive, Abort, Goto, locals, IInv, TypeOK, OrdersOK, RequestOK, Has
  <1>4. CASE StartVacate(r) \/ StartTransfer(r)
    BY <1>0, <1>4 DEF StartVacate, StartTransfer, FindActive, Goto, IInv, TypeOK, OrdersOK, RequestOK, Has
  <1>5. CASE CheckTarget(r)
    <2>1. alloc[target[r]] \in Allocations
      BY <1>5 DEF CheckTarget, IInv, TypeOK, RequestOK, Has
    <2> QED BY <1>0, <1>5, <2>1, AllocationFields
            DEF CheckTarget, Goto, IInv, TypeOK, OrdersOK, RequestOK, Has
  <1> QED BY <1>1, <1>2, <1>3, <1>4, <1>5

\* What Allocate writes.
LEMMA AllocateInv ==
  ASSUME IInv, NEW r \in Requests, Allocate(r)
  PROVE  /\ IInv'
         /\ chosen[r] \in Rooms \X Occupants
         /\ alloc[r] = NoAllocation /\ order' = order
         /\ alloc'[r].room = chosen[r][1] /\ alloc'[r].status = "ACTIVE"
         /\ alloc'[r] \in Allocations
         /\ \A a \in Requests \ {r} : alloc'[a] = alloc[a]
  <1> DEFINE new == [room |-> chosen[r][1], occupant |-> chosen[r][2], status |-> "ACTIVE"]
  <1>1. chosen[r] \in Rooms \X Occupants /\ alloc[r] = NoAllocation
    BY DEF Allocate, IInv, RequestOK
  <1>2. new \in Allocations /\ new # NoAllocation
    BY <1>1, NullsAssumption DEF Allocations
  <1> HIDE DEF new
  <1>3. alloc' = [alloc EXCEPT ![r] = new] /\ order' = order /\ alloc \in [Requests -> Allocations \cup {NoAllocation}]
    BY DEF Allocate, new, IInv, TypeOK
  <1>4. TypeOK'
    BY <1>1, <1>2, <1>3 DEF Allocate, Moved, Goto, locals, IInv, TypeOK, RoomStatus
  <1>5. OrdersOK'
    BY <1>2, <1>3 DEF IInv, OrdersOK, Has, TypeOK
  <1>6. \A q \in Requests : RequestOK(q)'
    BY <1>2, <1>3 DEF Allocate, Goto, locals, IInv, TypeOK, RequestOK, Has
  <1>7. alloc'[r] = new /\ \A a \in Requests \ {r} : alloc'[a] = alloc[a]
    BY <1>3
  <1>8. new.room = chosen[r][1] /\ new.status = "ACTIVE"
    BY DEF new
  <1>9. IInv'
    BY <1>4, <1>5, <1>6 DEF IInv
  <1> QED BY <1>1, <1>2, <1>3, <1>7, <1>8, <1>9

\* What Vacate writes: its own order, the status of one allocation, and its room.
LEMMA VacateInv ==
  ASSUME IInv, NEW r \in Requests, Vacate(r)
  PROVE  /\ IInv'
         /\ target[r] \in Requests /\ alloc[target[r]] \in Allocations
         /\ order[r] = NoOrder /\ order'[r] \in Orders /\ order'[r] # NoOrder
         /\ order'[r].of = target[r] /\ \A q \in Requests \ {r} : order'[q] = order[q]
         /\ alloc'[target[r]] \in Allocations /\ alloc'[target[r]].status = "VACATED"
         /\ alloc'[target[r]].room = alloc[target[r]].room
         /\ alloc'[target[r]].occupant = alloc[target[r]].occupant
         /\ \A a \in Requests \ {target[r]} : alloc'[a] = alloc[a]
  <1> DEFINE a == target[r]
  <1> DEFINE old == [alloc[a] EXCEPT !.status = "VACATED"]
  <1>1. a \in Requests /\ alloc[a] \in Allocations /\ order[r] = NoOrder
    BY DEF Vacate, IInv, TypeOK, RequestOK, Has
  <1>2. /\ old \in Allocations /\ old # NoAllocation /\ alloc[a].room \in Rooms
        /\ old.status = "VACATED" /\ old.room = alloc[a].room /\ old.occupant = alloc[a].occupant
    <2> DEFINE x == alloc[a]
    <2>1. x \in Allocations
      BY <1>1
    <2> HIDE DEF x
    <2>2. /\ [x EXCEPT !.status = "VACATED"] \in Allocations /\ x.room \in Rooms
          /\ [x EXCEPT !.status = "VACATED"].status = "VACATED"
          /\ [x EXCEPT !.status = "VACATED"].room = x.room
          /\ [x EXCEPT !.status = "VACATED"].occupant = x.occupant
      BY <2>1, EndedAllocation, AllocationFields
    <2> QED BY <2>2, NullsAssumption DEF x
  <1>3. PICK c \in BOOLEAN : order' = [order EXCEPT ![r] = [of |-> a, clearance |-> c]]
    BY DEF Vacate
  <1> DEFINE new == [of |-> a, clearance |-> c]
  <1>4. new \in Orders /\ new # NoOrder /\ new.of = a
    BY <1>1, NullsAssumption DEF Orders
  <1>5. /\ alloc' = [alloc EXCEPT ![a] = old] /\ alloc \in [Requests -> Allocations \cup {NoAllocation}]
        /\ order' = [order EXCEPT ![r] = new] /\ order \in [Requests -> Orders \cup {NoOrder}]
    BY <1>3 DEF Vacate, IInv, TypeOK
  <1>a. pc[r] = "vacate" /\ pc' = [pc EXCEPT ![r] = "done"] /\ target' = target /\ chosen' = chosen
    BY DEF Vacate, Goto, locals
  <1>6. TypeOK'
    <2>1. /\ room' = [room EXCEPT ![alloc[a].room] = "AVAILABLE"] /\ moved' = moved
          /\ byHand' \subseteq byHand
      BY DEF Vacate, locals
    <2> HIDE DEF a, old, new
    <2> QED BY <1>a, <1>1, <1>2, <1>4, <1>5, <2>1 DEF IInv, TypeOK, RoomStatus
  <1> HIDE DEF a, old, new
  <1>7. OrdersOK'
    BY <1>1, <1>2, <1>4, <1>5 DEF IInv, OrdersOK, Has
  <1>8. \A q \in Requests : RequestOK(q)'
    BY <1>a, <1>1, <1>2, <1>5 DEF IInv, TypeOK, RequestOK, Has, a
  <1>9. IInv'
    BY <1>6, <1>7, <1>8 DEF IInv
  <1>10. /\ alloc'[a] = old /\ \A b \in Requests \ {a} : alloc'[b] = alloc[b]
         /\ order'[r] = new /\ \A q \in Requests \ {r} : order'[q] = order[q]
    BY <1>1, <1>5
  <1> QED BY <1>1, <1>2, <1>4, <1>9, <1>10 DEF a

\* What Transfer writes: its order, the end of one allocation and the room it leaves,
\* and an allocation of its own and its room.
LEMMA TransferInv ==
  ASSUME IInv, NEW r \in Requests, Transfer(r)
  PROVE  /\ IInv'
         /\ target[r] \in Requests \ {r} /\ alloc[target[r]] \in Allocations
         /\ chosen[r][1] \in Rooms
         /\ alloc[r] = NoAllocation /\ order[r] = NoOrder /\ order'[r] # NoOrder
         /\ order'[r].of = target[r] /\ order'[r].clearance
         /\ \A q \in Requests \ {r} : order'[q] = order[q]
         /\ alloc'[target[r]] \in Allocations /\ alloc'[target[r]].status = "TRANSFERRED"
         /\ alloc'[target[r]].room = alloc[target[r]].room
         /\ alloc'[target[r]].occupant = alloc[target[r]].occupant
         /\ alloc'[r].room = chosen[r][1] /\ alloc'[r].status = "ACTIVE"
         /\ alloc'[r].occupant = alloc[target[r]].occupant
         /\ alloc'[r] \in Allocations
         /\ \A a \in Requests \ {r, target[r]} : alloc'[a] = alloc[a]
  <1> DEFINE a == target[r]
  <1> DEFINE x == alloc[a]
  <1> DEFINE old == [x EXCEPT !.status = "TRANSFERRED"]
  <1> DEFINE own == [room |-> chosen[r][1], occupant |-> x.occupant, status |-> "ACTIVE"]
  <1> DEFINE new == [of |-> a, clearance |-> TRUE]
  <1>1. /\ a \in Requests \ {r} /\ x \in Allocations
        /\ alloc[r] = NoAllocation /\ order[r] = NoOrder
        /\ chosen[r] \in Rooms \X Occupants /\ chosen[r][1] \in Rooms
    BY DEF Transfer, IInv, TypeOK, RequestOK, Has
  <1>a. pc[r] = "transfer" /\ pc' = [pc EXCEPT ![r] = "done"] /\ target' = target /\ chosen' = chosen
    BY DEF Transfer, Goto, locals
  <1>b. /\ alloc' = [alloc EXCEPT ![a] = old, ![r] = own]
        /\ alloc \in [Requests -> Allocations \cup {NoAllocation}]
        /\ order' = [order EXCEPT ![r] = new] /\ order \in [Requests -> Orders \cup {NoOrder}]
    BY <1>1 DEF Transfer, IInv, TypeOK
  <1>c. /\ room' = [room EXCEPT ![x.room] = "AVAILABLE", ![chosen[r][1]] = "OCCUPIED"]
        /\ byHand' \subseteq byHand /\ moved' \in [Requests -> SUBSET Requests]
    BY DEF Transfer, Moved, IInv, TypeOK
  <1>2. new \in Orders /\ new # NoOrder /\ new.of = a /\ new.clearance
    <2>1. new \in Orders
      BY <1>1 DEF Orders
    <2>2. new.of = a /\ new.clearance
      OBVIOUS
    <2> HIDE DEF new
    <2> QED BY <2>1, <2>2, NullsAssumption
  <1> HIDE DEF x
  <1>3. /\ old \in Allocations /\ old # NoAllocation
        /\ own \in Allocations /\ own # NoAllocation /\ x.room \in Rooms
        /\ old.status = "TRANSFERRED" /\ old.room = x.room /\ old.occupant = x.occupant
        /\ own.room = chosen[r][1] /\ own.status = "ACTIVE" /\ own.occupant = x.occupant
    <2>1. /\ old \in Allocations /\ x.room \in Rooms /\ x.occupant \in Occupants
          /\ old.status = "TRANSFERRED" /\ old.room = x.room /\ old.occupant = x.occupant
      BY <1>1, EndedAllocation, AllocationFields
    <2>2. own \in Allocations
      BY <1>1, <2>1 DEF Allocations
    <2>3. own.room = chosen[r][1] /\ own.status = "ACTIVE" /\ own.occupant = x.occupant
      OBVIOUS
    <2> HIDE DEF old, own
    <2> QED BY <2>1, <2>2, <2>3, NullsAssumption
  <1> HIDE DEF a, old, own, new
  <1>4. TypeOK'
    BY <1>1, <1>2, <1>3, <1>a, <1>b, <1>c DEF IInv, TypeOK, RoomStatus
  <1>5. OrdersOK'
    <2>1. \A q \in Requests : order[q] # NoOrder => order[q].of \in Requests /\ Has(order[q].of)
      BY <1>b DEF IInv, OrdersOK, Orders
    <2>2. \A b \in Requests : Has(b) => Has(b)'
      BY <1>1, <1>3, <1>b DEF Has
    <2>3. alloc'[a] # NoAllocation /\ order'[r] = new /\ \A q \in Requests \ {r} : order'[q] = order[q]
      BY <1>1, <1>3, <1>b DEF Has
    <2> QED BY <1>2, <2>1, <2>2, <2>3 DEF OrdersOK, Has
  <1>6. \A q \in Requests : RequestOK(q)'
    BY <1>1, <1>2, <1>3, <1>a, <1>b DEF IInv, TypeOK, RequestOK, Has, a
  <1>7. /\ alloc'[a] = old /\ alloc'[r] = own /\ order'[r] = new
        /\ \A b \in Requests \ {r, a} : alloc'[b] = alloc[b]
        /\ \A q \in Requests \ {r} : order'[q] = order[q]
    BY <1>1, <1>b
  <1>8. IInv'
    BY <1>4, <1>5, <1>6 DEF IInv
  <1>9. order'[r] # NoOrder /\ order'[r].of = a /\ order'[r].clearance
    BY <1>2, <1>7
  <1> QED BY <1>1, <1>3, <1>7, <1>8, <1>9 DEF a, x

\* The invariant is inductive.
LEMMA NextInv == IInv /\ [Next]_vars => IInv'
  <1>1. CASE UNCHANGED vars
    BY <1>1 DEF vars, locals, IInv, TypeOK, OrdersOK, RequestOK, Has
  <1>2. ASSUME IInv, NEW r \in Requests,
               CreateRoom(r) \/ PatchRoom(r) \/ Create(r) \/ End(r) \/ Abort(r)
        PROVE  IInv'
    BY <1>2, ReadingInv, AllocateInv, VacateInv, TransferInv DEF Create, End
  <1> QED BY <1>1, <1>2 DEF Next

\* Every table keeps its type, and a request finds the allocation and the room it
\* read when it comes to write.
THEOREM Safety == Spec => []IInv
  <1> QED BY InitIInv, NextInv, PTL DEF Spec

\* The tables of accommodation.service.ts keep their types.
THEOREM TypeCorrect == Spec => []TypeOK
  <1>1. IInv => TypeOK
    BY DEF IInv
  <1> QED BY <1>1, Safety, PTL

-----------------------------------------------------------------------------
(* Rooms and their tenants *)

\* A tenant keeps a room that the step leaves alone.
LEMMA TenantStays ==
  ASSUME NEW rm \in Rooms, NEW b \in ActiveIn(rm), alloc'[b] = alloc[b]
  PROVE  ActiveIn(rm)' # {}
  BY DEF ActiveIn

\* OccupiedHasTenant is kept: a room becomes occupied with its tenant, and a tenant
\* leaves it with its status.
LEMMA OccupiedStep == IInv /\ OccupiedHasTenant /\ [Next]_vars => OccupiedHasTenant'
  <1> SUFFICES ASSUME IInv, OccupiedHasTenant, [Next]_vars,
                      NEW rm \in Rooms, rm \notin byHand', room'[rm] = "OCCUPIED"
               PROVE  ActiveIn(rm)' # {}
    BY DEF OccupiedHasTenant
  <1>0. /\ room \in [Rooms -> RoomStatus \cup {"none"}]
        /\ alloc \in [Requests -> Allocations \cup {NoAllocation}]
    BY DEF IInv, TypeOK
  <1>1. ASSUME alloc' = alloc, room'[rm] = room[rm], rm \notin byHand
        PROVE  ActiveIn(rm)' # {}
    BY <1>1 DEF OccupiedHasTenant, ActiveIn
  <1>2. CASE UNCHANGED vars
    BY <1>1, <1>2 DEF vars
  <1>3. ASSUME NEW r \in Requests, CreateRoom(r) \/ PatchRoom(r)
        PROVE  ActiveIn(rm)' # {}
    BY <1>0, <1>1, <1>3 DEF CreateRoom, PatchRoom, SetByHand
  <1>4. ASSUME NEW r \in Requests,
               \/ CheckRoom(r) \/ CheckActive(r)
               \/ StartVacate(r) \/ StartTransfer(r) \/ CheckTarget(r) \/ Abort(r)
        PROVE  ActiveIn(rm)' # {}
    BY <1>1, <1>4 DEF CheckRoom, CheckActive, StartVacate, StartTransfer, FindActive, CheckTarget, Abort
  <1>5. ASSUME NEW r \in Requests, Allocate(r)
        PROVE  ActiveIn(rm)' # {}
    <2>1. /\ alloc[r] = NoAllocation /\ alloc'[r] \in Allocations
          /\ alloc'[r].room = chosen[r][1] /\ alloc'[r].status = "ACTIVE"
          /\ \A a \in Requests \ {r} : alloc'[a] = alloc[a]
      BY <1>5, AllocateInv
    <2>2. CASE rm = chosen[r][1]
      BY <2>1, <2>2, NullsAssumption DEF ActiveIn
    <2>3. CASE rm # chosen[r][1]
      <3>1. rm \notin byHand /\ room[rm] = "OCCUPIED"
        BY <1>0, <1>5, <2>3 DEF Allocate
      <3>2. PICK b \in ActiveIn(rm) : TRUE
        BY <3>1 DEF OccupiedHasTenant
      <3>3. b \in Requests \ {r}
        BY <2>1 DEF ActiveIn
      <3> QED BY <2>1, <3>3, TenantStays
    <2> QED BY <2>2, <2>3
  <1>6. ASSUME NEW r \in Requests, Vacate(r)
        PROVE  ActiveIn(rm)' # {}
    <2>1. /\ alloc[target[r]] \in Allocations
          /\ \A a \in Requests \ {target[r]} : alloc'[a] = alloc[a]
      BY <1>6, VacateInv
    <2>2. alloc[target[r]].room \in Rooms
      BY <2>1, AllocationFields
    <2>3. rm # alloc[target[r]].room /\ rm \notin byHand /\ room[rm] = "OCCUPIED"
      BY <1>0, <1>6, <2>2 DEF Vacate
    <2>4. PICK b \in ActiveIn(rm) : TRUE
      BY <2>3 DEF OccupiedHasTenant
    <2>5. b \in Requests \ {target[r]}
      BY <2>3 DEF ActiveIn
    <2> QED BY <2>1, <2>5, TenantStays
  <1>7. ASSUME NEW r \in Requests, Transfer(r)
        PROVE  ActiveIn(rm)' # {}
    <2>1. /\ alloc[r] = NoAllocation /\ alloc'[r] \in Allocations /\ chosen[r][1] \in Rooms
          /\ alloc'[r].room = chosen[r][1] /\ alloc'[r].status = "ACTIVE"
          /\ alloc[target[r]] \in Allocations
          /\ \A a \in Requests \ {r, target[r]} : alloc'[a] = alloc[a]
      BY <1>7, TransferInv
    <2>2. alloc[target[r]].room \in Rooms
      BY <2>1, AllocationFields
    <2>3. CASE rm = chosen[r][1]
      BY <2>1, <2>3, NullsAssumption DEF ActiveIn
    <2>4. CASE rm # chosen[r][1]
      <3>1. rm # alloc[target[r]].room /\ rm \notin byHand /\ room[rm] = "OCCUPIED"
        BY <1>0, <1>7, <2>1, <2>2, <2>4 DEF Transfer
      <3>2. PICK b \in ActiveIn(rm) : TRUE
        BY <3>1 DEF OccupiedHasTenant
      <3>3. b \in Requests \ {r, target[r]}
        BY <2>1, <3>1 DEF ActiveIn
      <3> QED BY <2>1, <3>3, TenantStays
    <2> QED BY <2>3, <2>4
  <1> QED BY <1>2, <1>3, <1>4, <1>5, <1>6, <1>7 DEF Next, Create, End

\* A room a transaction marked occupied has a tenant, however many requests race.
THEOREM OccupiedRoomsHaveTenants == Spec => []OccupiedHasTenant
  <1>1. Init => OccupiedHasTenant
    BY DEF Init, OccupiedHasTenant
  <1> QED BY <1>1, Safety, OccupiedStep, PTL DEF Spec

-----------------------------------------------------------------------------
(* Orders and the allocations they end *)

\* Some order is about allocation a.
Ordered(a) == \E q \in Requests : order[q] # NoOrder /\ order[q].of = a

\* Some order about a has its clearance, and its request gave the occupant a room.
Cleared(a) ==
  \E q \in Requests \ {a} :
    /\ order[q] # NoOrder /\ order[q].of = a /\ order[q].clearance
    /\ alloc[q] # NoAllocation /\ alloc[q].occupant = alloc[a].occupant

\* HandoverComplete is kept: an allocation and its order change together.
LEMMA HandoverStep == IInv /\ HandoverComplete /\ [Next]_vars => HandoverComplete'
  <1> SUFFICES ASSUME IInv, HandoverComplete, [Next]_vars,
                      NEW a \in Requests, alloc'[a] # NoAllocation
               PROVE  /\ alloc'[a].status # "ACTIVE" <=> Ordered(a)'
                      /\ alloc'[a].status = "TRANSFERRED" => Cleared(a)'
    BY DEF HandoverComplete, Ordered, Cleared
  <1>0. /\ alloc[a] # NoAllocation => /\ alloc[a].status # "ACTIVE" <=> Ordered(a)
                                      /\ alloc[a].status = "TRANSFERRED" => Cleared(a)
        /\ \A q \in Requests : order[q] # NoOrder => order[q].of \in Requests /\ Has(order[q].of)
    <2>1. alloc[a] # NoAllocation => /\ alloc[a].status # "ACTIVE" <=> Ordered(a)
                                     /\ alloc[a].status = "TRANSFERRED" => Cleared(a)
      BY DEF HandoverComplete, Ordered, Cleared
    <2>2. \A q \in Requests : order[q] # NoOrder => order[q].of \in Requests /\ Has(order[q].of)
      BY DEF IInv, OrdersOK, TypeOK, Orders
    <2> QED BY <2>1, <2>2
  <1>1. ASSUME alloc' = alloc, order' = order
        PROVE  /\ alloc'[a].status # "ACTIVE" <=> Ordered(a)'
               /\ alloc'[a].status = "TRANSFERRED" => Cleared(a)'
    <2>1. (Ordered(a)' <=> Ordered(a)) /\ (Cleared(a)' <=> Cleared(a))
      BY <1>1 DEF Ordered, Cleared
    <2> QED BY <1>0, <1>1, <2>1
  <1>2. CASE UNCHANGED vars
    BY <1>1, <1>2 DEF vars
  <1>3. ASSUME NEW r \in Requests,
               \/ CreateRoom(r) \/ PatchRoom(r) \/ CheckRoom(r) \/ CheckActive(r)
               \/ StartVacate(r) \/ StartTransfer(r) \/ CheckTarget(r) \/ Abort(r)
        PROVE  /\ alloc'[a].status # "ACTIVE" <=> Ordered(a)'
               /\ alloc'[a].status = "TRANSFERRED" => Cleared(a)'
    BY <1>1, <1>3, ReadingSteps
  <1>4. ASSUME NEW r \in Requests, Allocate(r)
        PROVE  /\ alloc'[a].status # "ACTIVE" <=> Ordered(a)'
               /\ alloc'[a].status = "TRANSFERRED" => Cleared(a)'
    <2>1. /\ alloc[r] = NoAllocation /\ order' = order /\ alloc'[r].status = "ACTIVE"
          /\ \A b \in Requests \ {r} : alloc'[b] = alloc[b]
      BY <1>4, AllocateInv
    <2>2. CASE a = r
      <3>1. ~Ordered(a)'
        BY <1>0, <2>1, <2>2 DEF Has, Ordered
      <3> QED BY <2>1, <2>2, <3>1
    <2>3. CASE a # r
      <3>1. alloc'[a] = alloc[a] /\ (Ordered(a)' <=> Ordered(a))
        BY <2>1, <2>3 DEF Ordered
      <3>2. \A q \in Requests : alloc[q] # NoAllocation => alloc'[q] = alloc[q]
        BY <2>1
      <3>3. Cleared(a) => Cleared(a)'
        BY <2>1, <3>1, <3>2 DEF Cleared
      <3> QED BY <1>0, <3>1, <3>3
    <2> QED BY <2>2, <2>3
  <1>5. ASSUME NEW r \in Requests, Vacate(r)
        PROVE  /\ alloc'[a].status # "ACTIVE" <=> Ordered(a)'
               /\ alloc'[a].status = "TRANSFERRED" => Cleared(a)'
    <2>1. /\ alloc[target[r]] \in Allocations /\ order[r] = NoOrder /\ order'[r] # NoOrder
          /\ order'[r].of = target[r] /\ \A q \in Requests \ {r} : order'[q] = order[q]
          /\ \A b \in Requests \ {target[r]} : alloc'[b] = alloc[b]
          /\ target[r] \in Requests
          /\ alloc'[target[r]] \in Allocations /\ alloc'[target[r]].status = "VACATED"
          /\ alloc'[target[r]].occupant = alloc[target[r]].occupant
      BY <1>5, VacateInv
    <2>2. alloc'[target[r]] # NoAllocation
      BY <2>1, NullsAssumption
    <2>3. CASE a = target[r]
      <3>1. Ordered(a)'
        BY <2>1, <2>3 DEF Ordered
      <3> QED BY <2>1, <2>3, <3>1
    <2>4. CASE a # target[r]
      <3>1. alloc'[a] = alloc[a] /\ (Ordered(a)' <=> Ordered(a))
        BY <2>1, <2>4 DEF Ordered
      <3>2. \A q \in Requests : alloc[q] # NoAllocation =>
              alloc'[q] # NoAllocation /\ alloc'[q].occupant = alloc[q].occupant
        BY <2>1, <2>2
      <3>3. Cleared(a) => Cleared(a)'
        BY <2>1, <3>1, <3>2 DEF Cleared
      <3> QED BY <1>0, <3>1, <3>3
    <2> QED BY <2>3, <2>4
  <1>6. ASSUME NEW r \in Requests, Transfer(r)
        PROVE  /\ alloc'[a].status # "ACTIVE" <=> Ordered(a)'
               /\ alloc'[a].status = "TRANSFERRED" => Cleared(a)'
    <2>1. /\ target[r] \in Requests \ {r} /\ alloc[target[r]] \in Allocations
          /\ alloc[r] = NoAllocation /\ order[r] = NoOrder /\ order'[r] # NoOrder
          /\ order'[r].of = target[r] /\ order'[r].clearance
          /\ \A q \in Requests \ {r} : order'[q] = order[q]
          /\ alloc'[target[r]] \in Allocations /\ alloc'[target[r]].status = "TRANSFERRED"
          /\ alloc'[target[r]].occupant = alloc[target[r]].occupant
          /\ alloc'[r].occupant = alloc[target[r]].occupant /\ alloc'[r].status = "ACTIVE"
          /\ alloc'[r] \in Allocations
          /\ \A b \in Requests \ {r, target[r]} : alloc'[b] = alloc[b]
      BY <1>6, TransferInv
    <2>2. alloc'[target[r]] # NoAllocation /\ alloc'[r] # NoAllocation
      BY <2>1, NullsAssumption
    <2>3. CASE a = target[r]
      <3>1. Ordered(a)'
        BY <2>1, <2>3 DEF Ordered
      <3>2. Cleared(a)'
        BY <2>1, <2>2, <2>3 DEF Cleared
      <3> QED BY <2>1, <2>3, <3>1, <3>2
    <2>4. CASE a = r
      <3>1. ~Ordered(a)'
        BY <1>0, <2>1, <2>4 DEF Has, Ordered
      <3> QED BY <2>1, <2>4, <3>1
    <2>5. CASE a # target[r] /\ a # r
      <3>1. alloc'[a] = alloc[a] /\ (Ordered(a)' <=> Ordered(a))
        BY <2>1, <2>5 DEF Ordered
      <3>2. \A q \in Requests : alloc[q] # NoAllocation =>
              alloc'[q] # NoAllocation /\ alloc'[q].occupant = alloc[q].occupant
        BY <2>1, <2>2
      <3>3. Cleared(a) => Cleared(a)'
        BY <2>1, <3>1, <3>2 DEF Cleared
      <3> QED BY <1>0, <3>1, <3>3
    <2> QED BY <2>3, <2>4, <2>5
  <1> QED BY <1>2, <1>3, <1>4, <1>5, <1>6 DEF Next, Create, End

\* An allocation has ended exactly when it has an order, and a transferred one has
\* its successor, however many requests end it.
THEOREM HandoversComplete == Spec => []HandoverComplete
  <1>1. Init => HandoverComplete
    BY DEF Init, HandoverComplete
  <1> QED BY <1>1, Safety, HandoverStep, PTL DEF Spec

-----------------------------------------------------------------------------
(* What a step may never do *)

\* A step may only end an allocation that was there.
LEMMA EndsOnceStep ==
  ASSUME IInv, [Next]_vars, NEW a \in Requests, alloc[a] # NoAllocation
  PROVE  /\ alloc'[a] # NoAllocation
         /\ alloc'[a].room = alloc[a].room /\ alloc'[a].occupant = alloc[a].occupant
         /\ alloc[a].status # "ACTIVE" => alloc'[a].status # "ACTIVE"
  <1>1. CASE UNCHANGED vars
    BY <1>1 DEF vars
  <1>2. ASSUME NEW r \in Requests,
               \/ CreateRoom(r) \/ PatchRoom(r) \/ CheckRoom(r) \/ CheckActive(r)
               \/ StartVacate(r) \/ StartTransfer(r) \/ CheckTarget(r) \/ Abort(r)
        PROVE  alloc' = alloc
    BY <1>2, ReadingSteps
  <1>3. ASSUME NEW r \in Requests, Allocate(r)
        PROVE  alloc'[a] = alloc[a]
    BY <1>3, AllocateInv
  <1>4. ASSUME NEW r \in Requests, Vacate(r)
        PROVE  \/ alloc'[a] = alloc[a]
               \/ /\ alloc'[a] # NoAllocation /\ alloc'[a].status # "ACTIVE"
                  /\ alloc'[a].room = alloc[a].room /\ alloc'[a].occupant = alloc[a].occupant
    BY <1>4, VacateInv, NullsAssumption
  <1>5. ASSUME NEW r \in Requests, Transfer(r)
        PROVE  \/ alloc'[a] = alloc[a]
               \/ /\ alloc'[a] # NoAllocation /\ alloc'[a].status # "ACTIVE"
                  /\ alloc'[a].room = alloc[a].room /\ alloc'[a].occupant = alloc[a].occupant
    BY <1>5, TransferInv, NullsAssumption
  <1> QED BY <1>1, <1>2, <1>3, <1>4, <1>5 DEF Next, Create, End

\* No step brings an ended allocation back or moves one.
THEOREM EndedStaysEnded == Spec => AllocationsEndOnce
  <1>1. IInv /\ [Next]_vars =>
          [\A a \in Requests : alloc[a] # NoAllocation =>
             /\ alloc'[a] # NoAllocation
             /\ alloc'[a].room = alloc[a].room /\ alloc'[a].occupant = alloc[a].occupant
             /\ alloc[a].status # "ACTIVE" => alloc'[a].status # "ACTIVE"]_vars
    BY EndsOnceStep
  <1> QED BY <1>1, Safety, PTL DEF Spec, AllocationsEndOnce

\* A request about to allocate knows of every tenant but those that moved in since it
\* looked.
SeenOK == \A r \in Requests : pc[r] = "allocate" => ActiveIn(chosen[r][1]) \subseteq moved[r]

\* Tenants come only with a move that every request about to allocate is told of.
LEMMA SeenStep == IInv /\ SeenOK /\ [Next]_vars => SeenOK'
  <1> SUFFICES ASSUME IInv, SeenOK, [Next]_vars, NEW q \in Requests, pc'[q] = "allocate",
                      NEW b \in ActiveIn(chosen[q][1])'
               PROVE  b \in moved'[q]
    BY DEF SeenOK
  <1>0. /\ pc \in [Requests -> {"idle", "check", "allocate", "vacate", "target", "transfer", "done", "failed"}]
        /\ chosen \in [Requests -> (Rooms \X Occupants) \cup {NoRoom}]
        /\ b \in Requests /\ alloc'[b] # NoAllocation
        /\ alloc'[b].room = chosen'[q][1] /\ alloc'[b].status = "ACTIVE"
    BY DEF IInv, TypeOK, ActiveIn
  <1>1. ASSUME alloc' = alloc, moved' = moved, pc[q] = "allocate", chosen'[q] = chosen[q]
        PROVE  b \in moved'[q]
    BY <1>0, <1>1 DEF SeenOK, ActiveIn
  <1>2. CASE UNCHANGED vars
    BY <1>1, <1>2 DEF vars, locals
  <1>3. ASSUME NEW r \in Requests,
               \/ CreateRoom(r) \/ PatchRoom(r) \/ CheckRoom(r)
               \/ StartVacate(r) \/ StartTransfer(r) \/ CheckTarget(r) \/ Abort(r)
        PROVE  b \in moved'[q]
    <2>1. alloc' = alloc /\ moved' = moved
      BY <1>3, ReadingSteps
    <2>2. pc[q] = "allocate" /\ chosen'[q] = chosen[q]
      BY <1>0, <1>3 DEF CreateRoom, PatchRoom, SetByHand, CheckRoom, StartVacate, StartTransfer,
                        FindActive, CheckTarget, Abort, Goto, locals
    <2> QED BY <1>1, <2>1, <2>2
  <1>4. ASSUME NEW r \in Requests, CheckActive(r)
        PROVE  b \in moved'[q]
    <2>1. alloc' = alloc /\ moved' = moved /\ chosen' = chosen
      BY <1>4 DEF CheckActive, locals
    <2>2. CASE q = r
      <3>1. ActiveIn(chosen[r][1]) = {}
        BY <1>0, <1>4, <2>2 DEF CheckActive, Goto
      <3> QED BY <1>0, <2>1, <2>2, <3>1 DEF ActiveIn
    <2>3. CASE q # r
      BY <1>0, <1>1, <1>4, <2>1, <2>3 DEF CheckActive, Goto
    <2> QED BY <2>2, <2>3
  <1>5. ASSUME NEW r \in Requests, Allocate(r)
        PROVE  b \in moved'[q]
    <2>1. q # r /\ pc[q] = "allocate" /\ chosen' = chosen /\ moved'[q] = moved[q] \cup {r}
      BY <1>0, <1>5 DEF Allocate, Goto, locals, Moved
    <2>2. b = r \/ alloc'[b] = alloc[b]
      BY <1>0, <1>5, AllocateInv
    <2> QED BY <1>0, <2>1, <2>2 DEF SeenOK, ActiveIn
  <1>6. ASSUME NEW r \in Requests, Vacate(r)
        PROVE  b \in moved'[q]
    <2>1. pc[q] = "allocate" /\ chosen' = chosen /\ moved' = moved
      BY <1>0, <1>6 DEF Vacate, Goto, locals
    <2>2. alloc'[b] = alloc[b]
      BY <1>0, <1>6, VacateInv
    <2> QED BY <1>0, <2>1, <2>2 DEF SeenOK, ActiveIn
  <1>7. ASSUME NEW r \in Requests, Transfer(r)
        PROVE  b \in moved'[q]
    <2>1. q # r /\ pc[q] = "allocate" /\ chosen' = chosen /\ moved'[q] = moved[q] \cup {r}
      BY <1>0, <1>7 DEF Transfer, Goto, locals, Moved
    <2>2. b = r \/ alloc'[b] = alloc[b]
      BY <1>0, <1>7, TransferInv
    <2> QED BY <1>0, <2>1, <2>2 DEF SeenOK, ActiveIn
  <1> QED BY <1>2, <1>3, <1>4, <1>5, <1>6, <1>7 DEF Next, Create, End

\* Only Allocate gives a request that is about to allocate its allocation.
LEMMA AllocatesKnowing ==
  ASSUME IInv, SeenOK, [Next]_vars, NEW r \in Requests, pc[r] = "allocate",
         alloc'[r] # NoAllocation
  PROVE  ActiveIn(alloc'[r].room) \subseteq moved[r]
  <1>0. alloc[r] = NoAllocation
    BY DEF IInv, RequestOK
  <1>1. CASE UNCHANGED vars
    BY <1>0, <1>1 DEF vars
  <1>2. ASSUME NEW q \in Requests,
               \/ CreateRoom(q) \/ PatchRoom(q) \/ CheckRoom(q) \/ CheckActive(q)
               \/ StartVacate(q) \/ StartTransfer(q) \/ CheckTarget(q) \/ Abort(q)
        PROVE  FALSE
    BY <1>0, <1>2, ReadingSteps
  <1>3. ASSUME NEW q \in Requests, Allocate(q)
        PROVE  ActiveIn(alloc'[r].room) \subseteq moved[r]
    <2>1. q = r /\ alloc'[r].room = chosen[r][1]
      BY <1>0, <1>3, AllocateInv
    <2> QED BY <2>1 DEF SeenOK
  <1>4. ASSUME NEW q \in Requests, Vacate(q)
        PROVE  FALSE
    BY <1>0, <1>4, VacateInv, NullsAssumption
  <1>5. ASSUME NEW q \in Requests, Transfer(q)
        PROVE  FALSE
    <2>1. pc[q] = "transfer" /\ q # r
      BY <1>5 DEF Transfer
    <2> QED BY <1>0, <1>5, <2>1, TransferInv, NullsAssumption
  <1> QED BY <1>1, <1>2, <1>3, <1>4, <1>5 DEF Next, Create, End

\* A create brings a second tenant into a room only if the first moved in after it
\* looked.
THEOREM CreatesSeeTenants == Spec => CreateSeesTenants
  <1>1. Init => SeenOK
    BY DEF Init, SeenOK
  <1>2. IInv /\ SeenOK /\ [Next]_vars =>
          [\A r \in Requests : pc[r] = "allocate" /\ alloc'[r] # NoAllocation =>
             ActiveIn(alloc'[r].room) \subseteq moved[r]]_vars
    BY AllocatesKnowing
  <1> QED BY <1>1, <1>2, Safety, SeenStep, PTL DEF Spec, CreateSeesTenants

-----------------------------------------------------------------------------
(* Rent: the books and the receipts *)

\* A request that has written nothing yet.
Untouched(r) == payment[r] = NoPayment /\ income[r] = 0

\* What recordPayment (710-794) knows at each stage: until it posts there is no income of
\* its own, and until the transaction no payment; the invoice it is about exists.
RentStages ==
  \A r \in Requests :
    /\ pc[r] \in {"idle", "post"} => Untouched(r)
    /\ pc[r] \in {"post", "record"} => invoice[about[r][1]] # NoInvoice
    /\ pc[r] = "record" => payment[r] = NoPayment /\ income[r] \in {0, about[r][2].coins}

RentInv == RentTypeOK /\ RentStages /\ ReceiptsPosted

\* The initial tables are empty, and every request has all to do.
LEMMA InitRent == RentInit => RentInv
<1> SUFFICES ASSUME RentInit PROVE RentInv
  OBVIOUS
<1>1. RentTypeOK
  <2>1. [coins |-> 0, side |-> "at"] \in Money
    BY DEF Money
  <2> QED
    BY <2>1 DEF RentInit, RentTypeOK
<1>2. RentStages
  BY DEF RentInit, RentStages, Untouched
<1>3. ReceiptsPosted
  BY DEF RentInit, ReceiptsPosted
<1> QED
  BY <1>1, <1>2, <1>3 DEF RentInv

\* createInvoice writes an invoice and nothing a payment relies on: an invoice is never
\* taken away.
LEMMA CreateInvoiceStep == ASSUME RentInv, NEW r \in Requests, CreateInvoice(r) PROVE RentInv'
<1> USE DEF RentInv, CreateInvoice, Goto, rentLocals
<1>1. PICK t \in Totals : invoice' = [invoice EXCEPT ![r] = [total |-> t, paid |-> 0, status |-> "ISSUED"]]
  OBVIOUS
<1>2. [total |-> t, paid |-> 0, status |-> "ISSUED"] \in Invoices
  BY RentAmounts DEF Invoices
<1>3. RentTypeOK'
  BY <1>1, <1>2 DEF RentTypeOK
<1>4. RentStages'
  <2> SUFFICES ASSUME NEW q \in Requests PROVE
        /\ pc'[q] \in {"idle", "post"} => Untouched(q)'
        /\ pc'[q] \in {"post", "record"} => invoice'[about'[q][1]] # NoInvoice
        /\ pc'[q] = "record" => payment'[q] = NoPayment /\ income'[q] \in {0, about'[q][2].coins}
    BY DEF RentStages
  <2>1. pc'[q] # "done" => pc'[q] = pc[q]
    BY DEF RentTypeOK
  <2>2. about[q][1] \in Requests
    BY DEF RentTypeOK
  <2>3. invoice[about[q][1]] # NoInvoice => invoice'[about[q][1]] # NoInvoice
    BY <1>1, <1>2, <2>2, RentNulls DEF RentTypeOK
  <2> QED
    BY <2>1, <2>2, <2>3 DEF RentStages, Untouched
<1>5. ReceiptsPosted'
  BY DEF ReceiptsPosted, RentStages, Untouched, RentTypeOK
<1> QED
  BY <1>3, <1>4, <1>5

\* recordPayment begins: it reads the invoice and holds what it read.
LEMMA CheckBalanceStep == ASSUME RentInv, NEW r \in Requests, CheckBalance(r) PROVE RentInv'
<1> USE DEF RentInv, CheckBalance, Goto
<1>1. PICK i \in Requests, a \in Amounts :
        /\ invoice[i] # NoInvoice
        /\ about' = [about EXCEPT ![r] = <<i, a>>]
        /\ read' = [read EXCEPT ![r] = invoice[i].paid]
        /\ pc' = [pc EXCEPT ![r] = IF Accepted(invoice[i], a) THEN "post" ELSE "failed"]
  OBVIOUS
<1>2. a \in Money /\ invoice[i].paid \in Nat
  BY <1>1, RentAmounts DEF RentTypeOK, Invoices
<1>3. RentTypeOK'
  BY <1>1, <1>2 DEF RentTypeOK
<1>4. RentStages'
  BY <1>1 DEF RentStages, Untouched, RentTypeOK
<1>5. ReceiptsPosted'
  BY <1>1 DEF ReceiptsPosted, RentStages, Untouched, RentTypeOK
<1> QED
  BY <1>3, <1>4, <1>5

\* The income is posted, or is not, before the transaction.
LEMMA PostIncomeStep == ASSUME RentInv, NEW r \in Requests, PostIncome(r) PROVE RentInv'
<1> USE DEF RentInv, PostIncome, Goto, rentLocals
<1>1. about[r][2] \in Money /\ about[r][2].coins \in Nat
  BY DEF RentTypeOK, Money
<1>2. RentTypeOK'
  BY <1>1 DEF RentTypeOK
<1>3. RentStages'
  BY <1>1 DEF RentStages, Untouched, RentTypeOK
<1>4. ReceiptsPosted'
  BY <1>1 DEF ReceiptsPosted, RentStages, Untouched, RentTypeOK
<1> QED
  BY <1>2, <1>3, <1>4

\* The transaction writes a receipt that says truly whether its income was posted.
LEMMA RecordPaymentStep == ASSUME RentInv, NEW r \in Requests, RecordPayment(r) PROVE RentInv'
<1> DEFINE i == about[r][1]
           a == about[r][2]
           p == [of |-> i, amount |-> a.coins, posted |-> income[r] # 0]
           v == [invoice[i] EXCEPT !.paid = Sum(read[r], a).coins,
                                   !.status = StatusOf(Sum(read[r], a), invoice[i].total)]
<1>1. /\ i \in Requests /\ a \in Money /\ a.coins \in Nat /\ read[r] \in Nat
      /\ invoice[i] \in Invoices
      /\ pc[r] = "record" /\ payment[r] = NoPayment /\ income[r] \in {0, a.coins}
  BY DEF RentInv, RentTypeOK, RentStages, RecordPayment, Money
<1>2. /\ payment' = [payment EXCEPT ![r] = p] /\ invoice' = [invoice EXCEPT ![i] = v]
      /\ pc' = [pc EXCEPT ![r] = "done"] /\ lost' \in {lost, lost \cup {i}}
      /\ UNCHANGED <<income, about, read>>
  BY <1>1 DEF RecordPayment, Goto, rentLocals, RentInv, RentTypeOK, Invoices
<1>3. p \in Payments /\ p.amount = a.coins /\ p.posted = (income[r] # 0)
  BY <1>1 DEF Payments
<1>4. v \in Invoices
  <2>1. Sum(read[r], a).coins \in Nat /\ StatusOf(Sum(read[r], a), invoice[i].total) \in {"PARTIAL", "PAID"}
    BY <1>1 DEF StatusOf, Sum
  <2> QED
    BY <1>1, <2>1 DEF Invoices
<1> HIDE DEF p, v
<1>5. RentTypeOK'
  BY <1>1, <1>2, <1>3, <1>4 DEF RentInv, RentTypeOK
<1>6. RentStages'
  <2> SUFFICES ASSUME NEW q \in Requests PROVE
        /\ pc'[q] \in {"idle", "post"} => Untouched(q)'
        /\ pc'[q] \in {"post", "record"} => invoice'[about'[q][1]] # NoInvoice
        /\ pc'[q] = "record" => payment'[q] = NoPayment /\ income'[q] \in {0, about'[q][2].coins}
    BY DEF RentStages
  <2>1. pc'[q] = IF q = r THEN "done" ELSE pc[q]
    BY <1>2 DEF RentInv, RentTypeOK
  <2>2. about[q][1] \in Requests
    BY DEF RentInv, RentTypeOK
  <2>3. invoice[about[q][1]] # NoInvoice => invoice'[about[q][1]] # NoInvoice
    BY <1>1, <1>2, <1>4, <2>2, RentNulls DEF RentInv, RentTypeOK
  <2> QED
    BY <1>2, <2>1, <2>2, <2>3 DEF RentInv, RentStages, Untouched, RentTypeOK
<1>7. ReceiptsPosted'
  <2> SUFFICES ASSUME NEW q \in Requests PROVE
        /\ payment'[q] # NoPayment => income'[q] = IF payment'[q].posted THEN payment'[q].amount ELSE 0
        /\ payment'[q] = NoPayment /\ income'[q] # 0 => pc'[q] \in {"record", "failed"}
    BY DEF ReceiptsPosted
  <2>1. CASE q = r
    BY <1>1, <1>2, <1>3, <2>1, RentNulls DEF RentInv, RentTypeOK
  <2>2. CASE q # r
    BY <1>2, <2>2 DEF RentInv, RentTypeOK, ReceiptsPosted
  <2> QED
    BY <2>1, <2>2
<1> QED
  BY <1>5, <1>6, <1>7 DEF RentInv

\* A request that is cut leaves what it wrote.
LEMMA AbortRentStep == ASSUME RentInv, NEW r \in Requests, AbortRent(r) PROVE RentInv'
<1> USE DEF RentInv, AbortRent, Goto, rentLocals
<1>1. RentTypeOK'
  BY DEF RentTypeOK
<1>2. RentStages'
  BY DEF RentStages, Untouched, RentTypeOK
<1>3. ReceiptsPosted'
  BY DEF ReceiptsPosted, RentStages, Untouched, RentTypeOK
<1> QED
  BY <1>1, <1>2, <1>3

\* Every step of createInvoice and recordPayment keeps the inductive invariant.
LEMMA NextRent == RentInv /\ [RentNext]_rentVars => RentInv'
<1> SUFFICES ASSUME RentInv, [RentNext]_rentVars PROVE RentInv'
  OBVIOUS
<1>1. CASE UNCHANGED rentVars
  BY <1>1 DEF RentInv, RentTypeOK, RentStages, Untouched, ReceiptsPosted, rentVars, rentLocals
<1>2. ASSUME NEW r \in Requests, CreateInvoice(r) \/ CheckBalance(r) \/ PostIncome(r)
             \/ RecordPayment(r) \/ AbortRent(r) PROVE RentInv'
  BY <1>2, CreateInvoiceStep, CheckBalanceStep, PostIncomeStep, RecordPaymentStep, AbortRentStep
<1> QED
  BY <1>1, <1>2 DEF RentNext

\* The inductive invariant holds of every behaviour: a payment finds its invoice, and is
\* written once (710-794).
THEOREM RentSafety == RentSpec => []RentInv
  BY InitRent, NextRent, PTL DEF RentSpec

\* Invoices, payments, income entries and what requests hold keep their types.
THEOREM RentTypes == RentSpec => []RentTypeOK
<1>1. RentInv => RentTypeOK
  BY DEF RentInv
<1> QED
  BY RentSafety, <1>1, PTL

\* The accounts never miss a receipt that names an income entry, and an entry without a
\* receipt is one whose request did not get to it (726-794).
THEOREM ReceiptsArePosted == RentSpec => []ReceiptsPosted
<1>1. RentInv => ReceiptsPosted
  BY DEF RentInv
<1> QED
  BY RentSafety, <1>1, PTL
-----------------------------------------------------------------------------
(* Sums over a finite set.  The community modules define a fold as the value of a
   recursive function on a set; an induction over the subsets of a finite set gives
   what the function is, and that the order of the elements does not matter. *)

\* The sum of f over S.
Total(f, S) == FoldFunctionOnSet(+, 0, f, S)

\* The element a fold takes first, and the function that sums f over the subsets of S.
Pick(s)       == CHOOSE x \in s : TRUE
Sums(g, f, S) == g = [s \in SUBSET S |-> IF s = {} THEN 0 ELSE f[Pick(s)] + g[s \ {Pick(s)}]]

\* The fold of the community modules is the sum at S, element after element.
LEMMA TotalIsSum == ASSUME NEW f, NEW S PROVE Total(f, S) = (CHOOSE g : Sums(g, f, S))[S]
  BY DEF Total, FoldFunctionOnSet, MapThenFoldSet, Sums, Pick

\* An induction over the subsets of a finite set: of those that are bad one has no bad
\* proper subset.
LEMMA SmallestBad ==
  ASSUME NEW S, IsFiniteSet(S), NEW Bad \in SUBSET (SUBSET S), Bad # {}
  PROVE  \E s \in Bad : \A t \in SUBSET s : t \in Bad => t = s
<1>1. FiniteSubsetsOf(S) = SUBSET S
  BY FS_FiniteSubsetsOfFinite
<1>2. IsWellFoundedOn(StrictSubsetOrdering(S), SUBSET S)
  BY <1>1, FS_StrictSubsetOrderingWellFounded
<1>3. PICK s \in Bad : \A t \in Bad : ~ (<<t, s>> \in StrictSubsetOrdering(S))
  BY <1>2, WFMin
<1>4. ASSUME NEW t \in SUBSET s, t \in Bad, t # s PROVE FALSE
  BY <1>3, <1>4 DEF StrictSubsetOrdering
<1> QED
  BY <1>3, <1>4

\* The element that is added first is one of the set.
LEMMA PickIn == ASSUME NEW s, s # {} PROVE Pick(s) \in s
  BY DEF Pick

\* Two functions that sum up f agree where both are defined.
LEMMA SumsAgree ==
  ASSUME NEW f, NEW S, IsFiniteSet(S), NEW T, NEW g, NEW h, S \subseteq T, Sums(g, f, S), Sums(h, f, T)
  PROVE  \A s \in SUBSET S : g[s] = h[s]
<1> DEFINE Bad == {s \in SUBSET S : g[s] # h[s]}
<1>1. SUFFICES ASSUME Bad # {} PROVE FALSE
  OBVIOUS
<1>2. Bad \in SUBSET (SUBSET S)
  OBVIOUS
<1> HIDE DEF Bad
<1>6. PICK s \in Bad : \A t \in SUBSET s : t \in Bad => t = s
  BY <1>1, <1>2, SmallestBad
<1> USE DEF Bad
<1>3. g[s] = IF s = {} THEN 0 ELSE f[Pick(s)] + g[s \ {Pick(s)}]
  BY DEF Sums
<1>4. h[s] = IF s = {} THEN 0 ELSE f[Pick(s)] + h[s \ {Pick(s)}]
  BY DEF Sums
<1>5. s # {} => g[s \ {Pick(s)}] = h[s \ {Pick(s)}]
  BY <1>6, PickIn
<1> QED
  BY <1>3, <1>4, <1>5

\* There is a function that sums up f over the subsets of a finite set.
LEMMA SumsExist ==
  ASSUME NEW f, NEW S, IsFiniteSet(S) PROVE \E g : Sums(g, f, S)
<1> DEFINE Bad == {s \in SUBSET S : ~ \E g : Sums(g, f, s)}
           G(s) == CHOOSE g : Sums(g, f, s)
<1>1. SUFFICES ASSUME Bad # {} PROVE FALSE
  OBVIOUS
<1>7. Bad \in SUBSET (SUBSET S)
  OBVIOUS
<1> HIDE DEF Bad
<1>2. PICK s \in Bad : \A t \in SUBSET s : t \in Bad => t = s
  BY <1>1, <1>7, SmallestBad
<1> USE DEF Bad
<1>3. ASSUME NEW t \in SUBSET s, t # s PROVE Sums(G(t), f, t)
  BY <1>2, <1>3
<1> DEFINE h == [t \in SUBSET s |-> IF t = {} THEN 0 ELSE f[Pick(t)] + G(t \ {Pick(t)})[t \ {Pick(t)}]]
<1>4. ASSUME NEW t \in SUBSET s, t # s PROVE h[t] = G(t)[t]
  <2>1. G(t)[t] = IF t = {} THEN 0 ELSE f[Pick(t)] + G(t)[t \ {Pick(t)}]
    <3>1. Sums(G(t), f, t)
      BY <1>3, <1>4
    <3> HIDE DEF G
    <3> QED
      BY <3>1 DEF Sums
  <2>2. ASSUME t # {} PROVE G(t)[t \ {Pick(t)}] = G(t \ {Pick(t)})[t \ {Pick(t)}]
    <3> DEFINE u == t \ {Pick(t)}
    <3>1. u \in SUBSET s /\ u # s /\ u \subseteq t
      BY <2>2, PickIn
    <3>2. Sums(G(u), f, u)
      BY <3>1, <1>3
    <3>3. Sums(G(t), f, t)
      BY <1>3, <1>4
    <3>4. IsFiniteSet(u)
      BY <3>1, FS_Subset
    <3> HIDE DEF u, G
    <3>5. \A v \in SUBSET u : G(u)[v] = G(t)[v]
      BY <3>1, <3>2, <3>3, <3>4, SumsAgree
    <3>6. G(u)[u] = G(t)[u]
      BY <3>5
    <3> QED
      BY <3>6 DEF u
  <2> QED
    BY <2>1, <2>2
<1>5. ASSUME NEW t \in SUBSET s, t # {} PROVE G(t \ {Pick(t)})[t \ {Pick(t)}] = h[t \ {Pick(t)}]
  <2>1. t \ {Pick(t)} \in SUBSET s /\ t \ {Pick(t)} # s
    BY <1>5, PickIn
  <2> HIDE DEF h, G
  <2> QED
    BY <2>1, <1>4
<1>6. Sums(h, f, s)
  <2>1. h = [t \in SUBSET s |-> IF t = {} THEN 0 ELSE f[Pick(t)] + h[t \ {Pick(t)}]]
    <3>1. \A t \in SUBSET s : t # {} => G(t \ {Pick(t)})[t \ {Pick(t)}] = h[t \ {Pick(t)}]
      BY <1>5
    <3>2. h = [t \in SUBSET s |-> IF t = {} THEN 0
                                 ELSE f[Pick(t)] + G(t \ {Pick(t)})[t \ {Pick(t)}]]
      OBVIOUS
    <3>3. \A t \in SUBSET s :
            (IF t = {} THEN 0 ELSE f[Pick(t)] + G(t \ {Pick(t)})[t \ {Pick(t)}])
            = (IF t = {} THEN 0 ELSE f[Pick(t)] + h[t \ {Pick(t)}])
      <4> HIDE DEF h, G
      <4> QED
        BY <3>1
    <3> HIDE DEF h, G
    <3> QED
      BY <3>2, <3>3
  <2> HIDE DEF h
  <2> QED
    BY <2>1 DEF Sums
<1> QED
  BY <1>6, <1>2

\* What the sum over a finite set is: nothing, or one of its elements and the rest.
LEMMA TotalEmpty == ASSUME NEW f PROVE Total(f, {}) = 0
<1>1. PICK g : Sums(g, f, {})
  BY SumsExist, FS_EmptySet
<1>2. Sums(CHOOSE h : Sums(h, f, {}), f, {})
  BY <1>1
<1> QED
  BY <1>2, TotalIsSum DEF Sums

\* A sum is the element picked first and the rest.
LEMMA TotalPick ==
  ASSUME NEW f, NEW S, IsFiniteSet(S), S # {}
  PROVE  Total(f, S) = f[Pick(S)] + Total(f, S \ {Pick(S)})
<1> DEFINE T == S \ {Pick(S)}
           g == CHOOSE h : Sums(h, f, S)
           k == CHOOSE h : Sums(h, f, T)
<1>1. IsFiniteSet(T) /\ T \subseteq S
  BY FS_Subset
<1>2. Sums(g, f, S)
  BY SumsExist
<1>3. Sums(k, f, T)
  BY <1>1, SumsExist
<1>4. \A s \in SUBSET T : k[s] = g[s]
  <2> HIDE DEF g, k, T
  <2> QED
    BY <1>1, <1>2, <1>3, SumsAgree
<1>5. g[S] = f[Pick(S)] + g[T]
  BY <1>2 DEF Sums
<1>6. Total(f, S) = g[S] /\ Total(f, T) = k[T]
  BY TotalIsSum
<1>7. k[T] = g[T]
  BY <1>4
<1> QED
  BY <1>5, <1>6, <1>7

\* A sum of natural numbers is one.
LEMMA TotalNat ==
  ASSUME NEW f, NEW S, IsFiniteSet(S), \A x \in S : f[x] \in Nat
  PROVE  Total(f, S) \in Nat
<1> DEFINE Bad == {s \in SUBSET S : Total(f, s) \notin Nat}
<1>1. SUFFICES ASSUME Bad # {} PROVE FALSE
  OBVIOUS
<1>2. Bad \in SUBSET (SUBSET S)
  OBVIOUS
<1> HIDE DEF Bad
<1>3. PICK s \in Bad : \A t \in SUBSET s : t \in Bad => t = s
  BY <1>1, <1>2, SmallestBad
<1>4. IsFiniteSet(s) /\ s \in SUBSET S
  BY <1>2, <1>3, FS_Subset
<1>5. s # {}
  <2>1. Total(f, {}) = 0
    BY TotalEmpty
  <2>2. Total(f, s) \notin Nat
    BY <1>3 DEF Bad
  <2> QED
    BY <2>1, <2>2
<1>6. Total(f, s) = f[Pick(s)] + Total(f, s \ {Pick(s)})
  BY <1>4, <1>5, TotalPick
<1>7. Pick(s) \in s
  BY <1>5, PickIn
<1>8. Total(f, s \ {Pick(s)}) \in Nat
  BY <1>3, <1>4, <1>7 DEF Bad
<1>9. Total(f, s) \in Nat
  BY <1>4, <1>6, <1>7, <1>8
<1> QED
  BY <1>3, <1>9 DEF Bad

\* Any element may be taken out first.
LEMMA TotalRemove ==
  ASSUME NEW f, NEW S, IsFiniteSet(S), \A x \in S : f[x] \in Nat, NEW y \in S
  PROVE  Total(f, S) = f[y] + Total(f, S \ {y})
<1> DEFINE Bad == {s \in SUBSET S : \E x \in s : Total(f, s) # f[x] + Total(f, s \ {x})}
<1>1. SUFFICES ASSUME Bad # {} PROVE FALSE
  OBVIOUS
<1>2. Bad \in SUBSET (SUBSET S)
  OBVIOUS
<1> HIDE DEF Bad
<1>3. PICK s \in Bad : \A t \in SUBSET s : t \in Bad => t = s
  BY <1>1, <1>2, SmallestBad
<1>4. IsFiniteSet(s) /\ s \in SUBSET S
  BY <1>2, <1>3, FS_Subset
<1>5. PICK x \in s : Total(f, s) # f[x] + Total(f, s \ {x})
  BY <1>3 DEF Bad
<1>6. PICK c : c = Pick(s)
  OBVIOUS
<1>7. c \in s /\ Total(f, s) = f[c] + Total(f, s \ {c})
  BY <1>4, <1>6, PickIn, TotalPick
<1>8. x # c
  BY <1>5, <1>7
<1>9. Total(f, s \ {c}) = f[x] + Total(f, s \ {c, x})
  <2>1. s \ {c} \notin Bad /\ s \ {c} \in SUBSET S
    BY <1>3, <1>4, <1>7
  <2>2. (s \ {c}) \ {x} = s \ {c, x}
    OBVIOUS
  <2> QED
    BY <1>8, <2>1, <2>2 DEF Bad
<1>10. Total(f, s \ {x}) = f[c] + Total(f, s \ {c, x})
  <2>1. s \ {x} \notin Bad /\ s \ {x} \in SUBSET S /\ c \in s \ {x}
    BY <1>3, <1>4, <1>7, <1>8
  <2>2. (s \ {x}) \ {c} = s \ {c, x}
    OBVIOUS
  <2> QED
    BY <2>1, <2>2 DEF Bad
<1>11. Total(f, s \ {c, x}) \in Nat
  <2>1. IsFiniteSet(s \ {c, x}) /\ \A z \in s \ {c, x} : f[z] \in Nat
    BY <1>4, FS_Subset
  <2> QED
    BY <2>1, TotalNat
<1>12. f[x] \in Nat /\ f[c] \in Nat
  BY <1>4, <1>7
<1> QED
  BY <1>5, <1>7, <1>9, <1>10, <1>11, <1>12

\* The sum is that of the values on the set.
LEMMA TotalSame ==
  ASSUME NEW f, NEW g, NEW S, IsFiniteSet(S), \A x \in S : f[x] = g[x]
  PROVE  Total(f, S) = Total(g, S)
<1> DEFINE Bad == {s \in SUBSET S : Total(f, s) # Total(g, s)}
<1>1. SUFFICES ASSUME Bad # {} PROVE FALSE
  OBVIOUS
<1>2. Bad \in SUBSET (SUBSET S)
  OBVIOUS
<1> HIDE DEF Bad
<1>3. PICK s \in Bad : \A t \in SUBSET s : t \in Bad => t = s
  BY <1>1, <1>2, SmallestBad
<1>4. IsFiniteSet(s) /\ s \in SUBSET S
  BY <1>2, <1>3, FS_Subset
<1>5. s # {}
  <2>1. Total(f, {}) = 0 /\ Total(g, {}) = 0
    BY TotalEmpty
  <2>2. Total(f, s) # Total(g, s)
    BY <1>3 DEF Bad
  <2> QED
    BY <2>1, <2>2
<1>6. /\ Total(f, s) = f[Pick(s)] + Total(f, s \ {Pick(s)})
      /\ Total(g, s) = g[Pick(s)] + Total(g, s \ {Pick(s)})
  BY <1>4, <1>5, TotalPick
<1>7. Pick(s) \in s
  BY <1>5, PickIn
<1>8. Total(f, s \ {Pick(s)}) = Total(g, s \ {Pick(s)})
  BY <1>3, <1>4, <1>7 DEF Bad
<1> QED
  BY <1>3, <1>4, <1>6, <1>7, <1>8 DEF Bad

\* One more payment adds its amount.
LEMMA TotalAdd ==
  ASSUME NEW f, NEW g, NEW S, IsFiniteSet(S), NEW y, y \notin S, g[y] \in Nat,
         \A x \in S : f[x] \in Nat /\ g[x] = f[x]
  PROVE  Total(g, S \cup {y}) = g[y] + Total(f, S)
<1>1. IsFiniteSet(S \cup {y}) /\ \A x \in S \cup {y} : g[x] \in Nat
  BY FS_AddElement
<1>2. (S \cup {y}) \ {y} = S
  OBVIOUS
<1>3. Total(g, S \cup {y}) = g[y] + Total(g, (S \cup {y}) \ {y})
  BY <1>1, TotalRemove
<1>4. Total(g, S) = Total(f, S)
  BY TotalSame
<1> QED
  BY <1>2, <1>3, <1>4

-----------------------------------------------------------------------------
(* Rent: what an invoice claims and what was received *)

\* The payments on invoice i, of those in pay, their amounts, and the sum of these.
PaidOn(pay, i) == {p \in Requests : pay[p] # NoPayment /\ pay[p].of = i}
AmountsOn(pay, i) == [p \in PaidOn(pay, i) |-> pay[p].amount]
SumOn(pay, i)  == Total(AmountsOn(pay, i), PaidOn(pay, i))

\* What the model counts as received is the sum over the payments on the invoice.
LEMMA ReceivedIsSum ==
  \A i \in Requests : Received(i) = SumOn(payment, i) /\ PaymentsOf(i) = PaidOn(payment, i)
  BY DEF Received, SumOn, Total, AmountsOn, PaymentsOf, PaidOn

\* What was received on an invoice is a natural number.
LEMMA SumIsNat ==
  ASSUME NEW pay \in [Requests -> Payments \cup {NoPayment}], NEW i \in Requests,
         IsFiniteSet(PaidOn(pay, i))
  PROVE  SumOn(pay, i) \in Nat
<1> DEFINE S == PaidOn(pay, i)
           f == AmountsOn(pay, i)
<1>1. IsFiniteSet(S)
  OBVIOUS
<1>2. \A x \in S : f[x] \in Nat
  BY DEF PaidOn, AmountsOn, Payments
<1> HIDE DEF S, f
<1>3. Total(f, S) \in Nat
  BY <1>1, <1>2, TotalNat
<1> QED
  BY <1>3 DEF S, f, SumOn

\* A payment that is written adds its amount to its invoice, and nothing to another.
LEMMA PaymentAdds ==
  ASSUME NEW pay \in [Requests -> Payments \cup {NoPayment}], NEW i \in Requests,
         IsFiniteSet(PaidOn(pay, i)),
         NEW r \in Requests, pay[r] = NoPayment, NEW v \in Payments, v # NoPayment,
         NEW next, \A q \in Requests : next[q] = IF q = r THEN v ELSE pay[q]
  PROVE  /\ v.of = i => SumOn(next, i) = SumOn(pay, i) + v.amount /\ PaidOn(next, i) = PaidOn(pay, i) \cup {r}
         /\ v.of # i => SumOn(next, i) = SumOn(pay, i) /\ PaidOn(next, i) = PaidOn(pay, i)
<1> DEFINE S == PaidOn(pay, i)
           f == AmountsOn(pay, i)
           g == AmountsOn(next, i)
<1>1. IsFiniteSet(S) /\ r \notin S
  BY DEF PaidOn
<1>2. \A x \in S : f[x] \in Nat /\ x \in Requests /\ f[x] = pay[x].amount /\ x # r /\ next[x] = pay[x]
  BY DEF PaidOn, AmountsOn, Payments
<1>3. CASE v.of = i
  <2>1. PaidOn(next, i) = S \cup {r}
    BY <1>3 DEF PaidOn
  <2>2. g[r] = v.amount /\ v.amount \in Nat
    BY <2>1 DEF AmountsOn, Payments
  <2>3. \A x \in S : g[x] = f[x]
    BY <2>1, <1>2 DEF AmountsOn
  <2> HIDE DEF S, f, g
  <2>4. Total(g, S \cup {r}) = g[r] + Total(f, S)
    BY <1>1, <1>2, <2>2, <2>3, TotalAdd
  <2>5. Total(f, S) \in Nat
    BY <1>1, <1>2, TotalNat
  <2>6. SumOn(next, i) = Total(g, S \cup {r}) /\ SumOn(pay, i) = Total(f, S)
    BY <2>1 DEF SumOn, S, f, g
  <2>7. SumOn(next, i) = SumOn(pay, i) + v.amount
    BY <2>2, <2>4, <2>5, <2>6
  <2> QED
    BY <1>3, <2>1, <2>7 DEF S
<1>4. CASE v.of # i
  <2>1. PaidOn(next, i) = S
    BY <1>4 DEF PaidOn
  <2>3. g = f
    BY <2>1, <1>2 DEF AmountsOn
  <2> QED
    BY <1>4, <2>1, <2>3 DEF SumOn
<1> QED
  BY <1>3, <1>4

\* A payment is made on an invoice that exists, a request that has all to do wrote none, and
\* the payments on an invoice are finitely many, though there is no bound on the requests.
Linked ==
  /\ \A p \in Requests : payment[p] # NoPayment => invoice[payment[p].of] # NoInvoice
  /\ \A r \in Requests : pc[r] = "idle" => invoice[r] = NoInvoice
  /\ \A i \in Requests : IsFiniteSet(PaidOn(payment, i))

\* What a request read is received by now, and its payment would not pass what it read by
\* more than a coin (720-724).
ReadsHold ==
  \A r \in Requests : pc[r] \in {"post", "record"} =>
    /\ read[r] <= SumOn(payment, about[r][1])
    /\ about[r][2].coins <= invoice[about[r][1]].total - read[r] + 1

\* What an invoice claims, of the payments on it.
Claims(inv, pay, i) ==
  inv # NoInvoice =>
    /\ inv.paid <= SumOn(pay, i)
    /\ inv.status = "ISSUED" <=> PaidOn(pay, i) = {}
    /\ inv.status = "PAID" => SumOn(pay, i) >= inv.total

\* The payment that brought invoice i to n was a little less than its coins.
LastShort(pay, abt, rd, i, n) ==
  \E p \in PaidOn(pay, i) : abt[p][2].side = "below" /\ rd[p] + abt[p][2].coins = n

\* What it says while no payment was recorded over another.
Exact(inv, pay, abt, rd, i) ==
  inv # NoInvoice =>
    /\ inv.paid = SumOn(pay, i)
    /\ inv.paid <= inv.total + 1
    /\ inv.status = "PAID" => SumOn(pay, i) >= inv.total
    /\ inv.status = "PARTIAL" =>
         \/ SumOn(pay, i) < inv.total
         \/ SumOn(pay, i) = inv.total /\ LastShort(pay, abt, rd, i, SumOn(pay, i))

\* The inductive invariant of the sums, on top of RentInv.
SumsInv ==
  /\ Linked
  /\ ReadsHold
  /\ \A i \in Requests : Claims(invoice[i], payment, i) /\ (i \notin lost => Exact(invoice[i], payment, about, read, i))

\* The invariant of the sums says what the two properties say.
LEMMA SumsMean == SumsInv => PaidIsReceived /\ SettledExactly
  BY ReceivedIsSum DEF SumsInv, PaidIsReceived, SettledExactly, Claims, Exact, LastShort, RoundedUpTo

\* Nothing was received on an invoice without payments.
LEMMA NothingPaid == ASSUME NEW pay, NEW i, PaidOn(pay, i) = {} PROVE SumOn(pay, i) = 0
  BY TotalEmpty DEF SumOn

\* There is no invoice yet.
LEMMA InitSums == RentInit => SumsInv
<1> SUFFICES ASSUME RentInit PROVE SumsInv
  OBVIOUS
<1>0. \A i \in Requests : PaidOn(payment, i) = {}
  BY DEF RentInit, PaidOn
<1>1. Linked /\ ReadsHold
  BY <1>0, FS_EmptySet DEF RentInit, Linked, ReadsHold
<1>2. \A i \in Requests : invoice[i] = NoInvoice
  BY DEF RentInit
<1> QED
  BY <1>1, <1>2 DEF SumsInv, Claims, Exact

\* A new invoice has no payments, and no request is about it yet (665-708).
LEMMA CreateInvoiceSums ==
  ASSUME RentInv, SumsInv, NEW r \in Requests, CreateInvoice(r) PROVE SumsInv'
<1> USE DEF RentInv, CreateInvoice, Goto, rentLocals
<1>1. PICK t \in Totals : invoice' = [invoice EXCEPT ![r] = [total |-> t, paid |-> 0, status |-> "ISSUED"]]
  OBVIOUS
<1> DEFINE v == [total |-> t, paid |-> 0, status |-> "ISSUED"]
<1>2. t \in Nat /\ v \in Invoices /\ v # NoInvoice
  BY RentAmounts, RentNulls DEF Invoices
<1>3. /\ \A q \in Requests : pc'[q] = IF q = r THEN "done" ELSE pc[q]
      /\ \A i \in Requests : invoice'[i] = IF i = r THEN v ELSE invoice[i]
      /\ UNCHANGED <<payment, about, read, lost>> /\ pc[r] = "idle" /\ invoice[r] = NoInvoice
  BY <1>1 DEF RentTypeOK, SumsInv, Linked
<1> HIDE DEF v
<1>4. Linked'
  BY <1>2, <1>3, RentNulls DEF SumsInv, Linked, RentTypeOK, Payments
<1>5. ReadsHold'
  <2> SUFFICES ASSUME NEW q \in Requests, pc'[q] \in {"post", "record"} PROVE
        /\ read'[q] <= SumOn(payment', about'[q][1])
        /\ about'[q][2].coins <= invoice'[about'[q][1]].total - read'[q] + 1
    BY DEF ReadsHold
  <2>1. about[q][1] \in Requests /\ about[q][1] # r /\ pc[q] \in {"post", "record"}
    BY <1>3 DEF RentTypeOK, RentStages
  <2> QED
    BY <1>3, <2>1 DEF SumsInv, ReadsHold
<1>6. PaidOn(payment, r) = {}
  BY <1>3 DEF PaidOn, SumsInv, Linked
<1>7. SumOn(payment, r) = 0
  BY <1>6, NothingPaid
<1>8. v.paid = 0 /\ v.status = "ISSUED" /\ v.total \in Nat
  BY <1>2 DEF v
<1>9. Claims(v, payment, r) /\ Exact(v, payment, about, read, r)
  BY <1>6, <1>7, <1>8 DEF Claims, Exact
<1>10. ASSUME NEW i \in Requests
       PROVE  Claims(invoice'[i], payment', i) /\ (i \notin lost' => Exact(invoice'[i], payment', about', read', i))
  BY <1>3, <1>9 DEF SumsInv
<1> QED
  BY <1>4, <1>5, <1>10 DEF SumsInv

\* A request reads an amount that was received, and accepts a payment that does not pass
\* what is left of it (710-724).
LEMMA CheckBalanceSums ==
  ASSUME RentInv, SumsInv, NEW r \in Requests, CheckBalance(r) PROVE SumsInv'
<1> USE DEF RentInv, CheckBalance, Goto
<1>1. PICK i \in Requests, a \in Amounts :
        /\ invoice[i] # NoInvoice
        /\ about' = [about EXCEPT ![r] = <<i, a>>]
        /\ read' = [read EXCEPT ![r] = invoice[i].paid]
        /\ pc' = [pc EXCEPT ![r] = IF Accepted(invoice[i], a) THEN "post" ELSE "failed"]
  OBVIOUS
<1>0. a.coins \in Nat /\ invoice[i].paid \in Nat /\ invoice[i].total \in Nat
  BY <1>1, RentAmounts DEF RentTypeOK, Invoices, Money
<1>2. UNCHANGED <<invoice, payment, lost>>
  OBVIOUS
<1>3. Linked'
  BY <1>1, <1>2 DEF SumsInv, Linked, RentTypeOK
<1>4. ReadsHold'
  <2> SUFFICES ASSUME NEW q \in Requests, pc'[q] \in {"post", "record"} PROVE
        /\ read'[q] <= SumOn(payment, about'[q][1])
        /\ about'[q][2].coins <= invoice[about'[q][1]].total - read'[q] + 1
    BY <1>2 DEF ReadsHold
  <2>1. CASE q = r
    <3>1. about'[q][1] = i /\ about'[q][2] = a /\ read'[q] = invoice[i].paid /\ Accepted(invoice[i], a)
      BY <1>1, <2>1 DEF RentTypeOK
    <3>2. invoice[i].paid <= SumOn(payment, i)
      BY <1>1 DEF SumsInv, Claims
    <3> QED
      BY <1>0, <3>1, <3>2 DEF Accepted, AtMost
  <2>2. CASE q # r
    BY <1>1, <2>2 DEF RentTypeOK, SumsInv, ReadsHold
  <2> QED
    BY <2>1, <2>2
<1>5. ASSUME NEW j \in Requests, j \notin lost PROVE Exact(invoice[j], payment, about', read', j)
  <2>1. \A p \in PaidOn(payment, j) : about'[p] = about[p] /\ read'[p] = read[p]
    BY <1>1 DEF PaidOn, RentTypeOK, RentStages, Untouched
  <2>2. Exact(invoice[j], payment, about, read, j)
    BY <1>5 DEF SumsInv
  <2> HIDE DEF CheckBalance, RentInv, Goto
  <2> QED
    BY <2>1, <2>2 DEF Exact, LastShort
<1> QED
  BY <1>2, <1>3, <1>4, <1>5 DEF SumsInv

\* The income entry and an abort leave invoices and payments alone.
LEMMA QuietSums ==
  ASSUME RentInv, SumsInv, NEW r \in Requests, PostIncome(r) \/ AbortRent(r) PROVE SumsInv'
<1>1. /\ UNCHANGED <<invoice, payment, about, read, lost>> /\ pc[r] \in {"post", "record"}
      /\ \A q \in Requests : pc'[q] # pc[q] => q = r /\ pc'[q] \in {"record", "failed"}
  BY DEF PostIncome, AbortRent, Goto, rentLocals, RentInv, RentTypeOK
<1>2. Linked'
  BY <1>1 DEF SumsInv, Linked
<1>3. ReadsHold'
  BY <1>1 DEF SumsInv, ReadsHold
<1> QED
  BY <1>1, <1>2, <1>3 DEF SumsInv

\* The transaction adds the payment to an amount that was read, never more than what was
\* received; to exactly that, unless another payment came between (768-794).
LEMMA RecordPaymentSums ==
  ASSUME RentInv, SumsInv, NEW r \in Requests, RecordPayment(r) PROVE SumsInv'
<1> DEFINE p == [of |-> about[r][1], amount |-> about[r][2].coins, posted |-> income[r] # 0]
           u == [invoice[about[r][1]] EXCEPT !.paid = Sum(read[r], about[r][2]).coins,
                   !.status = StatusOf(Sum(read[r], about[r][2]), invoice[about[r][1]].total)]
<1>1. /\ about[r][1] \in Requests /\ about[r][2].coins \in Nat /\ read[r] \in Nat
      /\ invoice[about[r][1]] \in Invoices /\ invoice[about[r][1]] # NoInvoice
      /\ pc[r] = "record" /\ payment[r] = NoPayment
      /\ payment \in [Requests -> Payments \cup {NoPayment}]
  BY DEF RentInv, RentTypeOK, RentStages, RecordPayment, Money
<1>2. /\ payment' = [payment EXCEPT ![r] = p] /\ invoice' = [invoice EXCEPT ![about[r][1]] = u]
      /\ pc' = [pc EXCEPT ![r] = "done"]
      /\ lost' = IF invoice[about[r][1]].paid = read[r] THEN lost ELSE lost \cup {about[r][1]}
      /\ UNCHANGED <<income, about, read>>
  <2>1. payment' = [payment EXCEPT ![r] = p]
    BY DEF RecordPayment
  <2>2. invoice' = [invoice EXCEPT ![about[r][1]] = u]
    BY <1>1 DEF RecordPayment, RentInv, RentTypeOK, Invoices
  <2> QED
    BY <2>1, <2>2 DEF RecordPayment, Goto, rentLocals
<1>3. p \in Payments /\ p # NoPayment /\ p.of = about[r][1] /\ p.amount = about[r][2].coins
  <2>1. p \in Payments /\ p.of = about[r][1] /\ p.amount = about[r][2].coins
    BY <1>1 DEF Payments
  <2> HIDE DEF p
  <2> QED
    BY <2>1, RentNulls
<1>4. /\ u \in Invoices /\ u.paid = read[r] + about[r][2].coins
      /\ u.total = invoice[about[r][1]].total
      /\ u.status \in {"PAID", "PARTIAL"}
      /\ u.status = "PAID" <=> IF about[r][2].side = "below" THEN u.paid > u.total ELSE u.paid >= u.total
  <2>1. /\ Sum(read[r], about[r][2]).coins = read[r] + about[r][2].coins
        /\ Sum(read[r], about[r][2]).side = about[r][2].side
        /\ read[r] + about[r][2].coins \in Nat
    BY <1>1 DEF Sum
  <2>2. StatusOf(Sum(read[r], about[r][2]), invoice[about[r][1]].total) \in {"PARTIAL", "PAID"}
    BY DEF StatusOf
  <2> QED
    BY <1>1, <2>1, <2>2 DEF Invoices, StatusOf, Reaches
<1> HIDE DEF p, u
<1>0. PICK i \in Requests, a \in Nat, w \in Invoices, v \in Payments :
        i = about[r][1] /\ a = about[r][2].coins /\ w = u /\ v = p
  BY <1>1, <1>3, <1>4
<1>5. /\ w \in Invoices /\ w.paid = read[r] + a /\ w.total = invoice[i].total
      /\ w.status \in {"PAID", "PARTIAL"}
      /\ w.status = "PAID" <=> IF about[r][2].side = "below" THEN w.paid > w.total ELSE w.paid >= w.total
  BY <1>0, <1>4
<1>6. \A j \in Requests : invoice'[j] = IF j = i THEN w ELSE invoice[j]
  BY <1>0, <1>2 DEF RentInv, RentTypeOK
<1>7. \A q \in Requests : payment'[q] = IF q = r THEN p ELSE payment[q]
  BY <1>1, <1>2
<1>8. \A q \in Requests : pc'[q] = IF q = r THEN "done" ELSE pc[q]
  BY <1>2 DEF RentInv, RentTypeOK
<1>9. \A j \in Requests : IsFiniteSet(PaidOn(payment, j))
  BY DEF SumsInv, Linked
<1>10. /\ SumOn(payment', i) = SumOn(payment, i) + a
      /\ PaidOn(payment', i) = PaidOn(payment, i) \cup {r}
      /\ \A j \in Requests : j # i => /\ SumOn(payment', j) = SumOn(payment, j)
                                      /\ PaidOn(payment', j) = PaidOn(payment, j)
  <2>1. ASSUME NEW j \in Requests
        PROVE  /\ i = j => /\ SumOn(payment', j) = SumOn(payment, j) + a
                           /\ PaidOn(payment', j) = PaidOn(payment, j) \cup {r}
               /\ i # j => /\ SumOn(payment', j) = SumOn(payment, j)
                           /\ PaidOn(payment', j) = PaidOn(payment, j)
    <3>1. /\ v # NoPayment /\ v.of = i /\ v.amount = a
          /\ \A q \in Requests : payment'[q] = IF q = r THEN v ELSE payment[q]
      BY <1>0, <1>3, <1>7
    <3> QED
      BY <1>1, <1>9, <3>1, PaymentAdds
  <2> QED
    BY <2>1
<1>11. \A j \in Requests : SumOn(payment, j) \in Nat
  BY <1>1, <1>9, SumIsNat
<1>12. read[r] <= SumOn(payment, i) /\ a <= invoice[i].total - read[r] + 1
  BY <1>0, <1>1 DEF SumsInv, ReadsHold
<1>13. w # NoInvoice
  BY <1>5, RentNulls
<1>14. Linked'
  <2>1. ASSUME NEW q \in Requests, payment'[q] # NoPayment PROVE invoice'[payment'[q].of] # NoInvoice
    <3>1. CASE q = r
      BY <1>0, <1>3, <1>6, <1>7, <1>13, <3>1
    <3>2. CASE q # r
      <4>1. payment'[q] = payment[q] /\ payment[q].of \in Requests /\ invoice[payment[q].of] # NoInvoice
        BY <1>1, <1>7, <2>1, <3>2 DEF SumsInv, Linked, Payments
      <4> QED
        BY <1>6, <1>13, <4>1
    <3> QED
      BY <3>1, <3>2
  <2>2. ASSUME NEW q \in Requests, pc'[q] = "idle" PROVE invoice'[q] = NoInvoice
    BY <1>0, <1>1, <1>6, <1>8, <2>2 DEF SumsInv, Linked
  <2>3. ASSUME NEW j \in Requests PROVE IsFiniteSet(PaidOn(payment', j))
    <3>1. PaidOn(payment', j) \in {PaidOn(payment, j), PaidOn(payment, j) \cup {r}}
      BY <1>10
    <3> QED
      BY <1>9, <3>1, FS_AddElement
  <2> QED
    BY <2>1, <2>2, <2>3 DEF Linked
<1>15. ReadsHold'
  <2> SUFFICES ASSUME NEW q \in Requests, pc'[q] \in {"post", "record"} PROVE
        /\ read[q] <= SumOn(payment', about[q][1])
        /\ about[q][2].coins <= invoice'[about[q][1]].total - read[q] + 1
    BY <1>2 DEF ReadsHold
  <2>1. PICK j \in Requests, b \in Nat : about[q][1] = j /\ about[q][2].coins = b
    BY DEF RentInv, RentTypeOK, Money
  <2>2. read[q] <= SumOn(payment, j) /\ b <= invoice[j].total - read[q] + 1 /\ read[q] \in Nat
    BY <1>8, <2>1 DEF SumsInv, ReadsHold, RentInv, RentTypeOK
  <2>3. SumOn(payment', j) >= SumOn(payment, j)
    BY <1>10, <1>11
  <2>4. invoice'[j].total = invoice[j].total
    BY <1>5, <1>6
  <2>5. read[q] <= SumOn(payment', j)
    BY <1>10, <1>11, <2>2
  <2> QED
    BY <2>1, <2>2, <2>4, <2>5
<1>16. Claims(w, payment', i)
  <2>1. w.paid <= SumOn(payment', i)
    BY <1>0, <1>1, <1>5, <1>10, <1>11, <1>12
  <2>2. w.status # "ISSUED" /\ PaidOn(payment', i) # {}
    BY <1>5, <1>10
  <2>3. w.status = "PAID" => SumOn(payment', i) >= w.total
    <3>1. w.paid \in Nat /\ w.total \in Nat /\ SumOn(payment', i) \in Nat
      BY <1>5, <1>10, <1>11 DEF Invoices
    <3> QED
      BY <1>5, <2>1, <3>1
  <2> QED
    BY <2>1, <2>2, <2>3 DEF Claims
<1>17. ASSUME i \notin lost' PROVE Exact(w, payment', about', read', i)
  <2>1. i \notin lost /\ invoice[i].paid = read[r]
    BY <1>0, <1>2, <1>17
  <2>2. read[r] = SumOn(payment, i)
    BY <1>0, <1>1, <2>1 DEF SumsInv, Exact
  <2>3. w.paid = SumOn(payment', i)
    BY <1>5, <1>10, <2>2
  <2>4. w.paid <= w.total + 1
    BY <1>0, <1>1, <1>5, <1>12 DEF Invoices
  <2>5. w.paid \in Nat /\ w.total \in Nat
    BY <1>5 DEF Invoices
  <2>6. CASE about[r][2].side = "below"
    <3>1. LastShort(payment', about', read', i, w.paid)
      BY <1>0, <1>2, <1>5, <1>10, <2>6 DEF LastShort
    <3> QED
      BY <1>5, <2>3, <2>4, <2>5, <2>6, <3>1 DEF Exact
  <2>7. CASE about[r][2].side # "below"
    BY <1>5, <2>3, <2>4, <2>5, <2>7 DEF Exact
  <2> QED
    BY <2>6, <2>7
<1>18. ASSUME NEW j \in Requests
       PROVE  Claims(invoice'[j], payment', j) /\ (j \notin lost' => Exact(invoice'[j], payment', about', read', j))
  <2>1. CASE j = i
    BY <1>6, <1>16, <1>17, <2>1
  <2>2. CASE j # i
    <3>1. invoice'[j] = invoice[j] /\ (j \notin lost' => j \notin lost)
      BY <1>0, <1>2, <1>6, <2>2
    <3>2. Claims(invoice[j], payment, j) /\ (j \notin lost => Exact(invoice[j], payment, about, read, j))
      BY DEF SumsInv
    <3>3. SumOn(payment', j) = SumOn(payment, j) /\ PaidOn(payment', j) = PaidOn(payment, j)
      BY <1>10, <2>2
    <3>4. Claims(invoice'[j], payment', j)
      BY <3>1, <3>2, <3>3 DEF Claims
    <3>5. j \notin lost' => Exact(invoice'[j], payment', about', read', j)
      BY <1>2, <3>1, <3>2, <3>3 DEF Exact, LastShort
    <3> QED
      BY <3>4, <3>5
  <2> QED
    BY <2>1, <2>2
<1> QED
  BY <1>14, <1>15, <1>18 DEF SumsInv

\* Every step keeps the sums.
LEMMA NextSums == RentInv /\ SumsInv /\ [RentNext]_rentVars => SumsInv'
<1> SUFFICES ASSUME RentInv, SumsInv, [RentNext]_rentVars PROVE SumsInv'
  OBVIOUS
<1>1. CASE UNCHANGED rentVars
  BY <1>1 DEF SumsInv, Linked, ReadsHold, rentVars, rentLocals
<1>2. ASSUME NEW r \in Requests, CreateInvoice(r) \/ CheckBalance(r) \/ PostIncome(r)
             \/ RecordPayment(r) \/ AbortRent(r) PROVE SumsInv'
  BY <1>2, CreateInvoiceSums, CheckBalanceSums, QuietSums, RecordPaymentSums
<1> QED
  BY <1>1, <1>2 DEF RentNext

\* The invariant of the sums holds of every behaviour (665-794).
THEOREM SumsSafety == RentSpec => []SumsInv
  BY InitSums, NextSums, RentSafety, PTL DEF RentSpec
\* However payments race, an invoice claims at most what was received on it, is ISSUED
\* exactly when nothing was, and PAID only when all of it was (768-794).
THEOREM ClaimsAreReceived == RentSpec => []PaidIsReceived
<1>1. SumsInv => PaidIsReceived
  BY SumsMean
<1> QED
  BY SumsSafety, <1>1, PTL

\* While no two payments overlapped on an invoice, its paid amount is what was received, at
\* most a coin over the total, and its status says whether it is settled, but for a last
\* payment that was rounded up to the whole of it: of any amounts, with any number of
\* decimals (720-794).
THEOREM InvoicesAreExact == RentSpec => []SettledExactly
<1>1. SumsInv => SettledExactly
  BY SumsMean
<1> QED
  BY SumsSafety, <1>1, PTL
===============================================================================
