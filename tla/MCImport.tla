------------------------------- MODULE MCImport -------------------------------
(* Small instances of ImportJobs for TLC. *)
EXTENDS ImportJobs, TLC

CONSTANTS h1

MCHouses == {h1}
R(n, h) == [number |-> n, house |-> h]

\* A sheet with a row between two saves of progress and a refused last row, and one
\* row that competes for a number and a family.
MCSheets == {<<R(1, h1), R(2, NoHouse), R(NoNumber, NoHouse)>>, <<R(2, h1)>>}

Symmetry == Permutations(Requests)
===============================================================================
