---------------------------- MODULE PaperRegister ----------------------------
(***************************************************************************)
(* What a register book promises a reader of its pages, as the bound paper *)
(* book it replaces did: lines are filled one after the other, each with a *)
(* record of its own, and a line that is written is never changed.         *)
(***************************************************************************)
EXTENDS Sequences

CONSTANTS Books, Records

VARIABLE lines   \* the record on each line, in the order of the pages

Init == lines = [b \in Books |-> <<>>]

Written(x) == \E b \in Books : \E i \in DOMAIN lines[b] : lines[b][i] = x

Write(b, x) == /\ ~Written(x)
               /\ lines' = [lines EXCEPT ![b] = Append(@, x)]

Next == \E b \in Books, x \in Records : Write(b, x)

Spec == Init /\ [][Next]_lines
=============================================================================
