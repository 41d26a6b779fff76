------------------------------- MODULE MCClergy -------------------------------
(* Small instances of ClergyPostings for TLC. *)
EXTENDS ClergyPostings, TLC

Symmetry == Permutations(Requests) \cup Permutations(Parishes)
===============================================================================
