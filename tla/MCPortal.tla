------------------------------- MODULE MCPortal -------------------------------
(* Small instances of OccupantPortal for TLC. *)
EXTENDS OccupantPortal
===============================================================================
