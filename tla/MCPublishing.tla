----------------------------- MODULE MCPublishing -----------------------------
(* Small instances of Publishing for TLC. *)
EXTENDS Publishing
===============================================================================
