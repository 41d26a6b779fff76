------------------------------ MODULE MCRegister ------------------------------
(* Small instances of SacramentRegister for TLC. *)
EXTENDS SacramentRegister, TLC

CONSTANTS p1, m1, m2

MCParishes == {p1}
MCYears == {2026}
MCMembers == {m1, m2}

Form(t, num, date, a, b, issue) ==
  [type |-> t, parish |-> p1, year |-> 2026, number |-> num, date |-> date,
   member |-> a, spouse |-> b, issue |-> issue]
Edit(num, date, issue) ==
  [type |-> Keep, parish |-> Keep, year |-> Keep, number |-> num, date |-> date,
   member |-> Keep, spouse |-> Keep, issue |-> issue]

\* Every kind of record whose certificate serial is made in its own way; the
\* marriages and deaths name members.
CertificateForms == {Form("BAPTISM", NoNumber, 0, Nobody, Nobody, TRUE),
                     Form("MARRIAGE", NoNumber, 0, m1, m2, TRUE),
                     Form("CONFIRMATION", NoNumber, 0, Nobody, Nobody, FALSE),
                     Form("DEATH", NoNumber, 0, m1, Nobody, FALSE)}
CertificateEdits == {Edit(Plain(2), Keep, TRUE)}

Symmetry == Permutations(Requests)
===============================================================================
