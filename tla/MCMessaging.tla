----------------------------- MODULE MCMessaging -----------------------------
(* Small instances of Messaging for TLC. *)
EXTENDS Messaging, TLC

Symmetry == Permutations(Notifs) \cup Permutations(Messages) \cup Permutations(Masses)
            \cup Permutations(Users) \cup Permutations(Requests)
===============================================================================
