------------------------------ MODULE NoticeBoard ------------------------------
(***************************************************************************)
(* What the app's notifications promise: nothing goes out unasked.  Each   *)
(* time somebody, or the schedule, asks for a notice, every reader may     *)
(* receive it, and the board show it, once more, sooner or later or never. *)
(***************************************************************************)
EXTENDS Naturals

CONSTANTS Notices, Users

VARIABLES
  asked,      \* how often each notice was asked for
  received,   \* how often each user received each notice
  posted      \* how often each notice was put on the board

board == <<asked, received, posted>>

Init ==
  /\ asked = [n \in Notices |-> 0]
  /\ received = [n \in Notices |-> [u \in Users |-> 0]]
  /\ posted = [n \in Notices |-> 0]

Ask(n) ==
  /\ asked' = [asked EXCEPT ![n] = @ + 1]
  /\ UNCHANGED <<received, posted>>

Receive(n, u) ==
  /\ received[n][u] < asked[n]
  /\ received' = [received EXCEPT ![n][u] = @ + 1]
  /\ UNCHANGED <<asked, posted>>

Post(n) ==
  /\ posted[n] < asked[n]
  /\ posted' = [posted EXCEPT ![n] = @ + 1]
  /\ UNCHANGED <<asked, received>>

Next == \E n \in Notices : Ask(n) \/ Post(n) \/ \E u \in Users : Receive(n, u)

Spec == Init /\ [][Next]_board
===============================================================================
