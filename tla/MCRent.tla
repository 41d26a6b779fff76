-------------------------------- MODULE MCRent --------------------------------
(* Small instances of RentPayments for TLC. *)
EXTENDS RentPayments, TLC

Symmetry == Permutations(Requests)

\* One to three coins, among them a coin and a bit, and a bit less than two.
SmallAmounts ==
  {[coins |-> 1, side |-> "at"], [coins |-> 1, side |-> "above"], [coins |-> 2, side |-> "below"],
   [coins |-> 2, side |-> "at"], [coins |-> 3, side |-> "at"]}
===============================================================================
