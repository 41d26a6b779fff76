------------------------------- MODULE MCRooms -------------------------------
(* Small instances of RoomAllocation for TLC. *)
EXTENDS RoomAllocation, TLC

\* Requests, rooms and occupants play the same part as their likes.
Symmetry == Permutations(Requests) \cup Permutations(Rooms) \cup Permutations(Occupants)
===============================================================================
