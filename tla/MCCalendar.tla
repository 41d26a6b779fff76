------------------------------ MODULE MCCalendar ------------------------------
(* Small instances of ParishCalendar for TLC. *)
EXTENDS ParishCalendar, TLC

SummerRows == {"SUMMER"} \X Slots
Symmetry == Permutations(Requests) \cup Permutations(Slots)
===============================================================================
