--------------------------- MODULE RoomAllocation ---------------------------
(***************************************************************************)
(* Rooms and who lives in them:                                            *)
(* apps/api/src/modules/diocese/accommodation.service.ts, createRoom,      *)
(* patchRoom, createAllocation, vacateAllocation and transferAllocation.   *)
(*                                                                         *)
(* What a call reads it reads before its transaction; the transaction only *)
(* writes, so it is one step and each earlier read is another.             *)
(***************************************************************************)
EXTENDS AccommodationCalls, Naturals, FiniteSets

CONSTANTS
  Rooms, Occupants,
  Statuses,    \* the statuses staff give a room by hand
  NoAllocation, NoOrder, NoRoom

RoomStatus == {"AVAILABLE", "OCCUPIED", "RESERVED", "UNDER_MAINTENANCE",
               "RENOVATION", "BLOCKED", "DECOMMISSIONED"}
Free == {"AVAILABLE", "RESERVED"}

Allocations == [room: Rooms, occupant: Occupants, status: {"ACTIVE", "TRANSFERRED", "VACATED"}]
Orders      == [of: Requests, clearance: BOOLEAN]

ASSUME StatusesAssumption == Statuses \subseteq RoomStatus
ASSUME NullsAssumption ==
  NoAllocation \notin Allocations /\ NoOrder \notin Orders /\ NoRoom \notin Rooms

VARIABLES
  room,     \* AccommodationRoom.status; "none" before the room is created
  alloc,    \* AccommodationAllocation
  order,    \* AccommodationVacateOrder
  target,   \* the allocation the request is about, as its path names it
  chosen,   \* the room and the occupant it is to bring together
  byHand,   \* history: the rooms whose present status staff set
  moved     \* history: the allocations made since the request looked for one

locals == <<target, chosen>>
vars   == <<room, alloc, order, pc, locals, byHand, moved>>

ActiveIn(rm) == {a \in Requests : /\ alloc[a] # NoAllocation
                                  /\ alloc[a].room = rm /\ alloc[a].status = "ACTIVE"}

-----------------------------------------------------------------------------
(* POST /accommodation/rooms and PATCH /accommodation/rooms/:id *)

SetByHand(r, rm, s) ==
  /\ room' = [room EXCEPT ![rm] = s]
  /\ byHand' = byHand \cup {rm}
  /\ Goto(r, "done")
  /\ UNCHANGED <<alloc, order, locals, moved>>

CreateRoom(r) ==
  /\ pc[r] = "idle"
  /\ \E rm \in Rooms, s \in Statuses : room[rm] = "none" /\ SetByHand(r, rm, s)

PatchRoom(r) ==
  /\ pc[r] = "idle"
  /\ \E rm \in Rooms, s \in Statuses : room[rm] # "none" /\ SetByHand(r, rm, s)

-----------------------------------------------------------------------------
(* POST /accommodation/allocations *)

\* assertRoom, and the status it found
CheckRoom(r) ==
  /\ pc[r] = "idle"
  /\ \E rm \in Rooms, o \in Occupants :
       /\ room[rm] # "none"
       /\ chosen' = [chosen EXCEPT ![r] = <<rm, o>>]
       /\ Goto(r, IF room[rm] \in Free THEN "check" ELSE "failed")
  /\ UNCHANGED <<room, alloc, order, target, byHand, moved>>

\* Mutant: the status of the room is trusted.
SkipActiveCheck(r) ==
  /\ pc[r] = "check"
  /\ Goto(r, "allocate")
  /\ UNCHANGED <<room, alloc, order, locals, byHand, moved>>

CheckActive(r) ==
  /\ pc[r] = "check"
  /\ Goto(r, IF ActiveIn(chosen[r][1]) = {} THEN "allocate" ELSE "failed")
  /\ UNCHANGED <<room, alloc, order, locals, byHand, moved>>

\* The history of a move of request r into a room.
Moved(r) == [q \in Requests |-> IF pc[q] = "allocate" /\ q # r THEN moved[q] \cup {r} ELSE {}]

\* The transaction: the allocation, and the room that is now occupied.
Allocate(r) ==
  LET rm == chosen[r][1] IN
  /\ pc[r] = "allocate"
  /\ alloc' = [alloc EXCEPT ![r] = [room |-> rm, occupant |-> chosen[r][2], status |-> "ACTIVE"]]
  /\ room' = [room EXCEPT ![rm] = "OCCUPIED"]
  /\ byHand' = byHand \ {rm}
  /\ moved' = Moved(r)
  /\ Goto(r, "done")
  /\ UNCHANGED <<order, locals>>

-----------------------------------------------------------------------------
(* POST /accommodation/allocations/:id/vacate *)

FindActive(r, stage) ==
  /\ pc[r] = "idle"
  /\ \E a \in Requests :
       /\ alloc[a] # NoAllocation
       /\ target' = [target EXCEPT ![r] = a]
       /\ Goto(r, IF alloc[a].status = "ACTIVE" THEN stage ELSE "failed")
  /\ UNCHANGED <<room, alloc, order, chosen, byHand, moved>>

StartVacate(r) == FindActive(r, "vacate")

\* Mutant: the room is not given back.
VacateKeepingRoom(r) ==
  LET a == target[r] IN
  /\ pc[r] = "vacate"
  /\ \E c \in BOOLEAN : order' = [order EXCEPT ![r] = [of |-> a, clearance |-> c]]
  /\ alloc' = [alloc EXCEPT ![a].status = "VACATED"]
  /\ Goto(r, "done")
  /\ UNCHANGED <<room, locals, byHand, moved>>

\* The transaction: the vacate order, with or without clearance, the allocation
\* and the room.
Vacate(r) ==
  LET a == target[r] IN
  /\ pc[r] = "vacate"
  /\ \E c \in BOOLEAN : order' = [order EXCEPT ![r] = [of |-> a, clearance |-> c]]
  /\ alloc' = [alloc EXCEPT ![a].status = "VACATED"]
  /\ room' = [room EXCEPT ![alloc[a].room] = "AVAILABLE"]
  /\ byHand' = byHand \ {alloc[a].room}
  /\ Goto(r, "done")
  /\ UNCHANGED <<locals, moved>>

-----------------------------------------------------------------------------
(* POST /accommodation/allocations/:id/transfer *)

StartTransfer(r) == FindActive(r, "target")

CheckTarget(r) ==
  /\ pc[r] = "target"
  /\ \E rm \in Rooms :
       /\ room[rm] # "none"
       /\ chosen' = [chosen EXCEPT ![r] = <<rm, alloc[target[r]].occupant>>]
       /\ Goto(r, IF room[rm] \in Free THEN "transfer" ELSE "failed")
  /\ UNCHANGED <<room, alloc, order, target, byHand, moved>>

\* Mutant: the allocation that ends is not ended.
TransferCopying(r) ==
  LET a == target[r]  rm == chosen[r][1] IN
  /\ pc[r] = "transfer"
  /\ order' = [order EXCEPT ![r] = [of |-> a, clearance |-> TRUE]]
  /\ alloc' = [alloc EXCEPT ![r] = [room |-> rm, occupant |-> alloc[a].occupant, status |-> "ACTIVE"]]
  /\ room' = [room EXCEPT ![alloc[a].room] = "AVAILABLE", ![rm] = "OCCUPIED"]
  /\ byHand' = byHand \ {alloc[a].room, rm}
  /\ moved' = Moved(r)
  /\ Goto(r, "done")
  /\ UNCHANGED locals

\* Mutant: the allocation is moved to the new room instead of ended.
TransferInPlace(r) ==
  LET a == target[r]  rm == chosen[r][1] IN
  /\ pc[r] = "transfer"
  /\ order' = [order EXCEPT ![r] = [of |-> a, clearance |-> TRUE]]
  /\ alloc' = [alloc EXCEPT ![a] = [room |-> rm, occupant |-> alloc[a].occupant, status |-> "ACTIVE"]]
  /\ room' = [room EXCEPT ![alloc[a].room] = "AVAILABLE", ![rm] = "OCCUPIED"]
  /\ byHand' = byHand \ {alloc[a].room, rm}
  /\ moved' = Moved(r)
  /\ Goto(r, "done")
  /\ UNCHANGED locals

\* The transaction: the order, the old allocation and its room, then the new
\* allocation and its room, which may be the same one.
Transfer(r) ==
  LET a == target[r]  rm == chosen[r][1] IN
  /\ pc[r] = "transfer"
  /\ order' = [order EXCEPT ![r] = [of |-> a, clearance |-> TRUE]]
  /\ alloc' = [alloc EXCEPT ![a].status = "TRANSFERRED",
                            ![r] = [room |-> rm, occupant |-> alloc[a].occupant, status |-> "ACTIVE"]]
  /\ room' = [room EXCEPT ![alloc[a].room] = "AVAILABLE", ![rm] = "OCCUPIED"]
  /\ byHand' = byHand \ {alloc[a].room, rm}
  /\ moved' = Moved(r)
  /\ Goto(r, "done")
  /\ UNCHANGED locals

-----------------------------------------------------------------------------
\* A query that fails, a restart or a lost connection ends a request.
Abort(r) ==
  /\ r \in Abortable
  /\ pc[r] \in {"check", "allocate", "vacate", "target", "transfer"}
  /\ Goto(r, "failed")
  /\ UNCHANGED <<room, alloc, order, locals, byHand, moved>>

Init ==
  /\ room = [rm \in Rooms |-> "none"]
  /\ alloc = [a \in Requests |-> NoAllocation]
  /\ order = [a \in Requests |-> NoOrder]
  /\ pc = [r \in Requests |-> "idle"]
  /\ target = [r \in Requests |-> r]
  /\ chosen = [r \in Requests |-> NoRoom]
  /\ byHand = {}
  /\ moved = [r \in Requests |-> {}]

Create(r) == CheckRoom(r) \/ CheckActive(r) \/ Allocate(r)
End(r)    == StartVacate(r) \/ Vacate(r) \/ StartTransfer(r) \/ CheckTarget(r) \/ Transfer(r)

Next == \E r \in Requests : CreateRoom(r) \/ PatchRoom(r) \/ Create(r) \/ End(r) \/ Abort(r)

Spec == Init /\ [][Next]_vars

-----------------------------------------------------------------------------
(* Properties *)

\* Every table, and what each request holds, has the type the code gives it.
TypeOK ==
  /\ room \in [Rooms -> RoomStatus \cup {"none"}]
  /\ alloc \in [Requests -> Allocations \cup {NoAllocation}]
  /\ order \in [Requests -> Orders \cup {NoOrder}]
  /\ pc \in [Requests -> {"idle", "check", "allocate", "vacate", "target", "transfer", "done", "failed"}]
  /\ target \in [Requests -> Requests]
  /\ chosen \in [Requests -> (Rooms \X Occupants) \cup {NoRoom}]
  /\ byHand \subseteq Rooms
  /\ moved \in [Requests -> SUBSET Requests]

\* However creates, vacates and transfers interleave, a room that a transaction
\* marked occupied has a tenant: the room and the allocation change together.
OccupiedHasTenant ==
  \A rm \in Rooms \ byHand : room[rm] = "OCCUPIED" => ActiveIn(rm) # {}

\* vacateAllocation and transferAllocation: an allocation has ended exactly when it
\* has a vacate order, and one that was transferred has a clearance order whose
\* request gave the same occupant another allocation.
HandoverComplete ==
  \A a \in Requests : alloc[a] # NoAllocation =>
    /\ alloc[a].status # "ACTIVE" <=> \E r \in Requests : order[r] # NoOrder /\ order[r].of = a
    /\ alloc[a].status = "TRANSFERRED" =>
         \E r \in Requests \ {a} :
           /\ order[r] # NoOrder /\ order[r].of = a /\ order[r].clearance
           /\ alloc[r] # NoAllocation /\ alloc[r].occupant = alloc[a].occupant

\* createAllocation (474-477) looks for a tenant before it writes: it puts a second
\* tenant into a room only if the first moved in after it looked.
CreateSeesTenants ==
  [][\A r \in Requests : pc[r] = "allocate" /\ alloc'[r] # NoAllocation =>
       ActiveIn(alloc'[r].room) \subseteq moved[r]]_vars

\* No step brings an ended allocation back, and none moves an allocation to another
\* room or occupant, though two requests may end the same one.
AllocationsEndOnce ==
  [][\A a \in Requests : alloc[a] # NoAllocation =>
       /\ alloc'[a] # NoAllocation
       /\ alloc'[a].room = alloc[a].room /\ alloc'[a].occupant = alloc[a].occupant
       /\ alloc[a].status # "ACTIVE" => alloc'[a].status # "ACTIVE"]_vars
=============================================================================
