------------------------ MODULE SacramentRegisterProofs ------------------------
(* Theorems of SacramentRegister for every value of its constants. *)
EXTENDS SacramentRegister, FiniteSetTheorems, TLAPS

\* A count over part of the requests is a natural number.
LEMMA CountsAreNaturals ==
  ASSUME NEW P, P \subseteq Requests
  PROVE  Cardinality(P) \in Nat
  BY RequestsAssumption, FS_Subset, FS_CardinalityType

\* The inductive invariant: the types, and what each stage of a call relies on.
IInv == TypeOK /\ StageOK

\* What a step of request r leaves to the other requests.
Frame(r) ==
  \A q \in Requests \ {r} :
    /\ pc'[q] = pc[q] /\ body'[q] = body[q] /\ target'[q] = target[q]
    /\ row'[q] = row[q] /\ seen'[q] = seen[q] /\ serial'[q] = serial[q]
\* No row of the records or certificates ever goes away.
TablesGrow ==
  \A q \in Requests : /\ records[q] # NoRow => records'[q] # NoRow
                      /\ certs[q] # NoCert => certs'[q] # NoCert

\* The inductive invariant holds before the first request.
LEMMA InitIInv == Init => IInv
  BY DEF Init, IInv, TypeOK, StageOK, RowsOK, RequestOK, HoldsRow, HoldsBody

\* A step of one request leaves what the others hold as it was.
LEMMA OtherRequests ==
  ASSUME IInv, NEW r \in Requests, Frame(r), TablesGrow
  PROVE  \A q \in Requests \ {r} : RequestOK(q)'
  BY DEF IInv, TypeOK, StageOK, RequestOK, Frame, TablesGrow, HoldsRow, HoldsBody, Rows

\* A form fills in every field of a create body.
LEMMA FormTypes ==
  ASSUME NEW f \in Forms
  PROVE  /\ f \in Bodies /\ f.type \in Types /\ f.parish \in Parishes /\ f.year \in Years
         /\ f.number \in Numbers \cup {NoNumber} /\ f.date \in Dates
         /\ f.member \in Members \cup {Nobody} /\ f.spouse \in Members \cup {Nobody}
  <1>1. f \in Bodies /\ f.type # Keep /\ f.parish # Keep /\ f.year # Keep
        /\ f.number # Keep /\ f.date # Keep /\ f.member # Keep /\ f.spouse # Keep
    BY BodiesAssumption
  <1> QED BY <1>1 DEF Bodies

\* What a form asks for is a row, with its number and no certificate yet.
LEMMA NewRowTypes ==
  ASSUME NEW f \in Forms, NEW b \in Requests \cup {NoRow}
  PROVE  NewRow(f, b) \in Rows /\ NewRow(f, b).number = f.number /\ NewRow(f, b).cert = NoCert
  BY FormTypes DEF NewRow, Rows

\* The types of the fields of a row, taken apart.
LEMMA RowFields ==
  ASSUME NEW x \in Rows
  PROVE  /\ x.parish \in Parishes /\ x.type \in Types /\ x.year \in Years
         /\ x.number \in Numbers \cup {NoNumber} /\ x.date \in Dates
         /\ x.member \in Members \cup {Nobody} /\ x.spouse \in Members \cup {Nobody}
         /\ x.baptism \in Requests \cup {NoRow} /\ x.deletedAt \in {"null", "set"}
         /\ x.cert \in Requests \cup {NoCert} /\ SeriesOf(x) \in Series
  BY DEF Rows, SeriesOf, Series

\* What a request in the middle of its call holds.
LEMMA Held ==
  ASSUME IInv, NEW r \in Requests
  PROVE  /\ pc[r] \in HoldsRow => row[r] \in Rows
         /\ pc[r] \in HoldsBody => body[r] \in Bodies
         /\ pc[r] \in {"deceased", "spouse", "married"} => row[r].member \in Members
         /\ pc[r] \in {"spouse", "married"} => row[r].spouse \in Members
         /\ pc[r] \in {"insert", "serial", "certify"} => row[r].number \in Numbers
         /\ pc[r] \in {"serial", "certify", "link", "update", "delete"} => records[target[r]] \in Rows
         /\ pc[r] = "certify" => serial[r] \in Serials
         /\ pc[r] = "link" => certs[r] \in Certificates
         /\ pc[r] \in {"log", "printed"} =>
              row[r].cert \in Requests /\ certs[row[r].cert] \in Certificates
  <1>1. /\ pc[r] \in HoldsRow => row[r] \in Rows
        /\ pc[r] \in HoldsBody => body[r] \in Bodies
        /\ pc[r] \in {"serial", "certify", "link", "update", "delete"} => records[target[r]] \in Rows
        /\ pc[r] = "certify" => serial[r] \in Serials
        /\ pc[r] = "link" => certs[r] \in Certificates
    BY DEF HoldsRow, HoldsBody, IInv, TypeOK, StageOK, RequestOK
  <1>2. /\ pc[r] \in {"deceased", "spouse", "married"} => row[r].member \in Members
        /\ pc[r] \in {"spouse", "married"} => row[r].spouse \in Members
        /\ pc[r] \in {"insert", "serial", "certify"} => row[r].number \in Numbers
    BY <1>1, RowFields DEF HoldsRow, IInv, TypeOK, StageOK, RequestOK
  <1>3. pc[r] \in {"log", "printed"} =>
          row[r].cert \in Requests /\ certs[row[r].cert] \in Certificates
    BY <1>1, RowFields DEF HoldsRow, IInv, TypeOK, StageOK, RequestOK
  <1> QED BY <1>1, <1>2, <1>3

\* A create is received: its row and body are typed before the checks are done.
LEMMA StartCreateStep ==
  ASSUME IInv, NEW r \in Requests, StartCreate(r)
  PROVE  TypeOK' /\ RowsOK' /\ RequestOK(r)' /\ Frame(r) /\ TablesGrow
  <1>1. PICK f \in Forms, b \in {q \in Requests : records[q] # NoRow} \cup {NoRow} :
          Receive(r, f, b)
    BY DEF StartCreate
  <1>2. f \in Bodies /\ NewRow(f, b) \in Rows /\ NewRow(f, b).number = f.number
        /\ NewRow(f, b).cert = NoCert
    BY FormTypes, NewRowTypes
  <1>3. pc'[r] \in {"failed", "number", "insert"} /\ (pc'[r] = "insert" => f.number # NoNumber)
    BY <1>1 DEF IInv, TypeOK, Receive, Goto
  <1>4. TypeOK'
    BY <1>1, <1>2 DEF IInv, TypeOK, Receive, Goto, tables, people, Stages
  <1>5. RowsOK' /\ TablesGrow
    BY <1>1 DEF IInv, StageOK, RowsOK, TablesGrow, Receive, tables
  <1>6. Frame(r)
    BY <1>1 DEF Frame, Receive, Goto, IInv, TypeOK
  <1>7. RequestOK(r)'
    BY <1>1, <1>2, <1>3, NullsAssumption DEF RequestOK, Receive, IInv, TypeOK, HoldsRow, HoldsBody
  <1> QED BY <1>4, <1>5, <1>6, <1>7

\* The member of a death record is marked deceased.
LEMMA MarkDeceasedStep ==
  ASSUME IInv, NEW r \in Requests, MarkDeceased(r)
  PROVE  TypeOK' /\ RowsOK' /\ RequestOK(r)' /\ Frame(r) /\ TablesGrow
  <1> USE DEF MarkDeceased, Goto, IInv, TypeOK
  <1>1. TypeOK'
    BY Held DEF tables, people, locals, Stages
  <1>2. RowsOK' /\ TablesGrow
    BY DEF StageOK, RowsOK, TablesGrow, tables
  <1>3. RequestOK(r)'
    BY DEF StageOK, RequestOK, HoldsRow, HoldsBody, tables, locals
  <1>4. Frame(r)
    BY DEF Frame, locals
  <1> QED BY <1>1, <1>2, <1>3, <1>4

\* The two members of a marriage are linked.
LEMMA LinkSpousesStep ==
  ASSUME IInv, NEW r \in Requests, LinkSpouses(r)
  PROVE  TypeOK' /\ RowsOK' /\ RequestOK(r)' /\ Frame(r) /\ TablesGrow
  <1> USE DEF LinkSpouses, Goto, IInv, TypeOK
  <1>1. TypeOK'
    BY Held DEF tables, people, locals, Stages
  <1>2. RowsOK' /\ TablesGrow
    BY DEF StageOK, RowsOK, TablesGrow, tables
  <1>3. RequestOK(r)'
    BY Held DEF StageOK, RequestOK, HoldsRow, HoldsBody, tables, locals
  <1>4. Frame(r)
    BY DEF Frame, locals
  <1> QED BY <1>1, <1>2, <1>3, <1>4

\* The two members of a marriage are marked as married.
LEMMA MarkMarriedStep ==
  ASSUME IInv, NEW r \in Requests, MarkMarried(r)
  PROVE  TypeOK' /\ RowsOK' /\ RequestOK(r)' /\ Frame(r) /\ TablesGrow
  <1> USE DEF MarkMarried, Goto, IInv, TypeOK
  <1>1. TypeOK'
    BY Held DEF tables, people, locals, Stages
  <1>2. RowsOK' /\ TablesGrow
    BY DEF StageOK, RowsOK, TablesGrow, tables
  <1>3. RequestOK(r)'
    BY DEF StageOK, RequestOK, HoldsRow, HoldsBody, tables, locals
  <1>4. Frame(r)
    BY DEF Frame, locals
  <1> QED BY <1>1, <1>2, <1>3, <1>4

\* The entries of the book are counted.
LEMMA CountEntriesStep ==
  ASSUME IInv, NEW r \in Requests, CountEntries(r)
  PROVE  TypeOK' /\ RowsOK' /\ RequestOK(r)' /\ Frame(r) /\ TablesGrow
  <1> USE DEF CountEntries, Goto, IInv, TypeOK
  <1>1. TypeOK'
    BY Held, RowFields DEF tables, people, locals, Stages, HoldsRow
  <1>2. RowsOK' /\ TablesGrow
    BY DEF StageOK, RowsOK, TablesGrow, tables
  <1>3. RequestOK(r)'
    BY DEF StageOK, RequestOK, HoldsRow, HoldsBody, tables, locals
  <1>4. Frame(r)
    BY DEF Frame, locals
  <1> QED BY <1>1, <1>2, <1>3, <1>4

\* An issue names its record.
LEMMA StartIssueStep ==
  ASSUME IInv, NEW r \in Requests, StartIssue(r)
  PROVE  TypeOK' /\ RowsOK' /\ RequestOK(r)' /\ Frame(r) /\ TablesGrow
  <1> USE DEF StartIssue, Goto, IInv, TypeOK
  <1>1. TypeOK'
    BY DEF tables, people, locals, Stages
  <1>2. RowsOK' /\ TablesGrow
    BY DEF StageOK, RowsOK, TablesGrow, tables
  <1>3. RequestOK(r)'
    BY DEF StageOK, RequestOK, HoldsRow, HoldsBody, tables, locals
  <1>4. Frame(r)
    BY DEF Frame, locals
  <1> QED BY <1>1, <1>2, <1>3, <1>4

\* A delete names its record.
LEMMA StartDeleteStep ==
  ASSUME IInv, NEW r \in Requests, StartDelete(r)
  PROVE  TypeOK' /\ RowsOK' /\ RequestOK(r)' /\ Frame(r) /\ TablesGrow
  <1> USE DEF StartDelete, Goto, IInv, TypeOK
  <1>1. TypeOK'
    BY DEF tables, people, locals, Stages, Live
  <1>2. RowsOK' /\ TablesGrow
    BY DEF StageOK, RowsOK, TablesGrow, tables, Live
  <1>3. RequestOK(r)'
    BY DEF StageOK, RequestOK, HoldsRow, HoldsBody, tables, locals, Live
  <1>4. Frame(r)
    BY DEF Frame, locals, Live
  <1> QED BY <1>1, <1>2, <1>3, <1>4

\* A lost request changes no table.
LEMMA AbortStep ==
  ASSUME IInv, NEW r \in Requests, Abort(r)
  PROVE  TypeOK' /\ RowsOK' /\ RequestOK(r)' /\ Frame(r) /\ TablesGrow
  <1> USE DEF Abort, Goto, IInv, TypeOK
  <1>1. TypeOK'
    BY DEF tables, people, locals, Stages, Active
  <1>2. RowsOK' /\ TablesGrow
    BY DEF StageOK, RowsOK, TablesGrow, tables, Active
  <1>3. RequestOK(r)'
    BY DEF StageOK, RequestOK, HoldsRow, HoldsBody, tables, locals, Active
  <1>4. Frame(r)
    BY DEF Frame, locals, Active
  <1> QED BY <1>1, <1>2, <1>3, <1>4

\* A print is logged against a certificate that exists.
LEMMA LogPrintStep ==
  ASSUME IInv, NEW r \in Requests, LogPrint(r)
  PROVE  TypeOK' /\ RowsOK' /\ RequestOK(r)' /\ Frame(r) /\ TablesGrow
  <1> USE DEF LogPrint, Goto, IInv, TypeOK
  <1>1. TypeOK'
    BY Held DEF tables, people, locals, Stages
  <1>2. RowsOK' /\ TablesGrow
    BY DEF StageOK, RowsOK, TablesGrow, tables
  <1>3. RequestOK(r)'
    BY DEF StageOK, RequestOK, HoldsRow, HoldsBody, tables, locals
  <1>4. Frame(r)
    BY DEF Frame, locals
  <1> QED BY <1>1, <1>2, <1>3, <1>4

\* An issue finds its record, with or without a certificate.
LEMMA FindRecordStep ==
  ASSUME IInv, NEW r \in Requests, FindRecord(r)
  PROVE  TypeOK' /\ RowsOK' /\ RequestOK(r)' /\ Frame(r) /\ TablesGrow
  <1> USE DEF FindRecord, Goto, IInv, TypeOK
  <1>1. TypeOK'
    BY RowFields DEF tables, people, locals, Stages, Live
  <1>2. RowsOK' /\ TablesGrow
    BY DEF StageOK, RowsOK, TablesGrow, tables, Live
  <1>3. RequestOK(r)'
    BY RowFields DEF StageOK, RequestOK, HoldsRow, HoldsBody, tables, locals, RowsOK, Live
  <1>4. Frame(r)
    BY DEF Frame, locals, Live
  <1> QED BY <1>1, <1>2, <1>3, <1>4

\* A print finds its record and certificate.
LEMMA StartPrintStep ==
  ASSUME IInv, NEW r \in Requests, StartPrint(r)
  PROVE  TypeOK' /\ RowsOK' /\ RequestOK(r)' /\ Frame(r) /\ TablesGrow
  <1> USE DEF StartPrint, Goto, IInv, TypeOK
  <1>1. TypeOK'
    BY RowFields DEF tables, people, locals, Stages, Certificates, StageOK, RowsOK, Live
  <1>2. RowsOK' /\ TablesGrow
    BY DEF StageOK, RowsOK, TablesGrow, tables, Live
  <1>3. RequestOK(r)'
    BY RowFields DEF StageOK, RequestOK, HoldsRow, HoldsBody, tables, locals, RowsOK, Live
  <1>4. Frame(r)
    BY DEF Frame, locals, Live
  <1> QED BY <1>1, <1>2, <1>3, <1>4

\* Setting deletedAt leaves a row its number and certificate.
LEMMA DeletedRow ==
  ASSUME NEW x \in Rows
  PROVE  LET y == [x EXCEPT !.deletedAt = "set"]
         IN  y \in Rows /\ y.number = x.number /\ y.cert = x.cert
  BY DEF Rows

\* Linking a certificate leaves a row its number.
LEMMA LinkedRow ==
  ASSUME NEW x \in Rows, NEW c \in Requests
  PROVE  LET y == [x EXCEPT !.cert = c]
         IN  y \in Rows /\ y.number = x.number /\ y.cert = c
  BY DEF Rows

\* Numbering a row leaves it its certificate.
LEMMA NumberedRow ==
  ASSUME NEW x \in Rows, NEW num \in Numbers
  PROVE  LET y == [x EXCEPT !.number = num]
         IN  y \in Rows /\ y.number = num /\ y.cert = x.cert
  BY DEF Rows

\* A delete sets deletedAt of a row that is there.
LEMMA DeleteRecordStep ==
  ASSUME IInv, NEW r \in Requests, DeleteRecord(r)
  PROVE  TypeOK' /\ RowsOK' /\ RequestOK(r)' /\ Frame(r) /\ TablesGrow
  <1> USE DEF IInv, TypeOK
  <1> DEFINE x == records[target[r]]  y == [x EXCEPT !.deletedAt = "set"]
  <1>1. x \in Rows /\ y \in Rows /\ y.number = x.number /\ y.cert = x.cert /\ target[r] \in Requests
    BY Held, DeletedRow DEF DeleteRecord
  <1>2. /\ records' = [records EXCEPT ![target[r]] = y]
        /\ pc' = [pc EXCEPT ![r] = "done"]
        /\ UNCHANGED <<books, certs, prints, people, locals, touched>>
    BY DEF DeleteRecord, Goto
  <1> HIDE DEF x, y
  <1>3. TypeOK'
    BY <1>1, <1>2 DEF locals, people, Stages
  <1>4. RowsOK' /\ TablesGrow
    BY <1>1, <1>2, NullsAssumption DEF StageOK, RowsOK, TablesGrow, x
  <1>5. RequestOK(r)'
    BY <1>2, <1>4 DEF StageOK, RequestOK, HoldsRow, HoldsBody, locals, TablesGrow
  <1>6. Frame(r)
    BY <1>2 DEF Frame, locals
  <1> QED BY <1>3, <1>4, <1>5, <1>6

\* A certificate just inserted is linked to its record.
LEMMA LinkCertificateStep ==
  ASSUME IInv, NEW r \in Requests, LinkCertificate(r)
  PROVE  TypeOK' /\ RowsOK' /\ RequestOK(r)' /\ Frame(r) /\ TablesGrow
  <1> USE DEF IInv, TypeOK
  <1> DEFINE x == records[target[r]]  y == [x EXCEPT !.cert = r]
  <1>1. x \in Rows /\ y \in Rows /\ y.number = x.number /\ y.cert = r /\ target[r] \in Requests
        /\ certs[r] # NoCert
    BY Held, LinkedRow, NullsAssumption DEF LinkCertificate
  <1>2. /\ records' = [records EXCEPT ![target[r]] = y]
        /\ pc' = [pc EXCEPT ![r] = "done"]
        /\ UNCHANGED <<books, certs, prints, people, locals, touched>>
    BY DEF LinkCertificate, Goto
  <1> HIDE DEF x, y
  <1>3. TypeOK'
    BY <1>1, <1>2 DEF locals, people, Stages
  <1>4. RowsOK' /\ TablesGrow
    BY <1>1, <1>2, NullsAssumption DEF StageOK, RowsOK, TablesGrow, x
  <1>5. RequestOK(r)'
    BY <1>2, <1>4 DEF StageOK, RequestOK, HoldsRow, HoldsBody, locals, TablesGrow
  <1>6. Frame(r)
    BY <1>2 DEF Frame, locals
  <1> QED BY <1>3, <1>4, <1>5, <1>6

\* A number the register gives is a number of the form it keeps.
LEMMA ConfirmationChoices ==
  ASSUME IInv, NEW p \in Parishes, NEW y \in Years, NEW c \in ConfirmationSerials(p, y)
  PROVE  c \in Numbers /\ c.style = "conf"
  <1>1. ASSUME NEW k \in Nat PROVE Conf(p, y, k) \in Numbers /\ Conf(p, y, k).style = "conf"
    BY DEF Conf, Numbers, Places
  <1>2. ASSUME NEW q \in Requests, records[q] # NoRow PROVE records[q].number.n + 1 \in Nat
    <2>1. records[q].number \in Numbers
      BY <1>2, RowFields DEF IInv, TypeOK, StageOK, RowsOK
    <2> QED BY <2>1 DEF Numbers
  <1> DEFINE live == {q \in LiveIn(<<p, "CONFIRMATION", y>>) :
                        /\ records[q].number.style = "conf"
                        /\ records[q].number.place = <<p, y>>}
             last == {q \in live : \A o \in live : records[o].number.n <= records[q].number.n}
  <1>3. live \subseteq {q \in Requests : records[q] # NoRow}
    BY DEF LiveIn, RowsIn
  <1>4. c = Conf(p, y, 1) \/ \E q \in last : c = Conf(p, y, records[q].number.n + 1)
    <2>1. c \in (IF live = {} THEN {Conf(p, y, 1)}
                ELSE {Conf(p, y, records[q].number.n + 1) : q \in last})
      BY Zenon DEF ConfirmationSerials
    <2> HIDE DEF live, last
    <2> QED BY <2>1
  <1> HIDE DEF live
  <1> QED BY <1>1, <1>2, <1>3, <1>4

\* One more than a count of rows is a natural number.
LEMMA CountChoices ==
  ASSUME NEW P, P \subseteq Requests
  PROVE  Plain(Cardinality(P) + 1) \in Numbers
  <1>1. Cardinality(P) + 1 \in Nat
    BY CountsAreNaturals
  <1> QED BY <1>1 DEF Plain, Numbers

\* NextRegisterNumbers offers numbers only.
LEMMA NumberChoices ==
  ASSUME IInv, NEW s \in Series, NEW num \in NextRegisterNumbers(s)
  PROVE  num \in Numbers
  <1>1. s[1] \in Parishes /\ s[3] \in Years
    BY DEF Series
  <1>2. CASE s[2] = "CONFIRMATION"
    BY <1>1, <1>2, ConfirmationChoices DEF NextRegisterNumbers
  <1>3. CASE s[2] # "CONFIRMATION"
    <2>1. LiveIn(s) \subseteq Requests
      BY DEF LiveIn, RowsIn
    <2>2. num = Plain(Cardinality(LiveIn(s)) + 1)
      BY <1>3 DEF NextRegisterNumbers
    <2> QED BY <2>1, <2>2, CountChoices
  <1> QED BY <1>2, <1>3

\* ChooseNumber preserves the invariant.
LEMMA ChooseNumberStep ==
  ASSUME IInv, NEW r \in Requests, ChooseNumber(r)
  PROVE  TypeOK' /\ RowsOK' /\ RequestOK(r)' /\ Frame(r) /\ TablesGrow
  <1> USE DEF IInv, TypeOK
  <1>1. row[r] \in Rows /\ SeriesOf(row[r]) \in Series /\ body[r] # NoBody
        /\ row[r].cert = NoCert
    BY Held, RowFields DEF HoldsRow, HoldsBody, StageOK, RequestOK, ChooseNumber
  <1>2. PICK num \in NextRegisterNumbers(SeriesOf(row[r])) : row' = [row EXCEPT ![r].number = num]
    BY DEF ChooseNumber
  <1> DEFINE y == [row[r] EXCEPT !.number = num]
  <1>3. y \in Rows /\ y.number \in Numbers /\ y.number # NoNumber /\ y.cert = NoCert
    BY <1>1, NumberChoices, NumberedRow, NullsAssumption
  <1>4. /\ row' = [row EXCEPT ![r] = y]
        /\ pc' = [pc EXCEPT ![r] = "insert"]
        /\ UNCHANGED <<tables, people, body, target, seen, serial, touched>>
    BY <1>2 DEF ChooseNumber, Goto
  <1> HIDE DEF y
  <1>5. TypeOK'
    BY <1>3, <1>4 DEF tables, people, Stages
  <1>6. RowsOK' /\ TablesGrow
    BY <1>4 DEF StageOK, RowsOK, TablesGrow, tables
  <1>7. RequestOK(r)'
    BY <1>1, <1>3, <1>4, NullsAssumption DEF RequestOK, HoldsRow, HoldsBody
  <1>8. Frame(r)
    BY <1>4 DEF Frame
  <1> QED BY <1>5, <1>6, <1>7, <1>8

\* InsertRecord preserves the invariant.
LEMMA InsertRecordStep ==
  ASSUME IInv, NEW r \in Requests, InsertRecord(r)
  PROVE  TypeOK' /\ RowsOK' /\ RequestOK(r)' /\ Frame(r) /\ TablesGrow
  <1> USE DEF IInv, TypeOK
  <1>1. UNCHANGED <<books, certs, prints, people, locals>>
    BY DEF InsertRecord
  <1>2. CASE records' = records /\ touched' = touched /\ pc' = [pc EXCEPT ![r] = "failed"]
    <2>1. TypeOK'
      BY <1>1, <1>2 DEF locals, people, Stages
    <2>2. RowsOK' /\ TablesGrow
      BY <1>1, <1>2 DEF StageOK, RowsOK, TablesGrow
    <2>3. RequestOK(r)' /\ Frame(r)
      BY <1>1, <1>2 DEF RequestOK, HoldsRow, HoldsBody, Frame, locals
    <2> QED BY <2>1, <2>2, <2>3
  <1>3. CASE /\ records' = [records EXCEPT ![r] = row[r]]
             /\ touched' \in {touched, touched \cup {SeriesOf(row[r])}}
             /\ pc' = [pc EXCEPT ![r] = AfterInsert(row[r])]
    <2>1. /\ row[r] \in Rows /\ row[r].number # NoNumber /\ body[r] # NoBody
          /\ SeriesOf(row[r]) \in Series /\ row[r].cert = NoCert
      BY Held, RowFields DEF HoldsRow, HoldsBody, StageOK, RequestOK, InsertRecord
    <2>2. /\ AfterInsert(row[r]) \in {"deceased", "spouse", "count", "done"}
          /\ AfterInsert(row[r]) \in {"deceased", "spouse"} => row[r].member # Nobody
          /\ AfterInsert(row[r]) = "spouse" => row[r].spouse # Nobody
      BY DEF AfterInsert
    <2>3. TypeOK'
      <3>1. pc' \in [Requests -> Stages \cup {"idle", "done", "failed"}]
        BY <1>3, <2>2 DEF Stages
      <3>2. records' \in [Requests -> Rows \cup {NoRow}]
        BY <1>3, <2>1
      <3>3. touched' \subseteq Series
        BY <1>3, <2>1
      <3> QED BY <1>1, <3>1, <3>2, <3>3 DEF locals, people
    <2>4. RowsOK'
      BY <1>1, <1>3, <2>1 DEF StageOK, RowsOK
    <2>5. TablesGrow
      BY <1>1, <1>3, <2>1, NullsAssumption DEF TablesGrow
    <2>6. RequestOK(r)'
      <3> DEFINE stage == AfterInsert(row[r])
      <3>1. /\ stage \in {"deceased", "spouse", "count", "done"} /\ pc'[r] = stage
            /\ stage \in {"deceased", "spouse"} => row[r].member # Nobody
            /\ stage = "spouse" => row[r].spouse # Nobody
        BY <1>3, <2>2
      <3>2. row' = row /\ body' = body
        BY <1>1 DEF locals
      <3>3. row[r] # NoRow /\ body[r] # NoBody
        BY <2>1, NullsAssumption
      <3> HIDE DEF stage
      <3> QED BY <3>1, <3>2, <3>3 DEF RequestOK, HoldsRow, HoldsBody
    <2>7. Frame(r)
      BY <1>1, <1>3 DEF Frame, locals
    <2> QED BY <2>3, <2>4, <2>5, <2>6, <2>7
  <1> QED BY <1>2, <1>3 DEF InsertRecord, Goto

\* Pages are natural numbers.
LEMMA PagesAreNaturals ==
  ASSUME NEW k \in Nat
  PROVE  k \div PageSize \in Nat
  BY PageSizeAssumption

\* The slot a count leads to is a line of a page.
LEMMA Slots ==
  ASSUME NEW k \in Nat
  PROVE  /\ PageOf(k) \in Nat /\ PageOf(k) >= 1
         /\ LineOf(k) \in Nat /\ LineOf(k) \in 1..PageSize
  <1>1. k \div PageSize \in Nat
    BY PageSizeAssumption
  <1>2. k % PageSize \in 0..(PageSize - 1)
    BY PageSizeAssumption
  <1> QED BY <1>1, <1>2, PageSizeAssumption DEF PageOf, LineOf

\* AppendEntry preserves the invariant.
LEMMA AppendEntryStep ==
  ASSUME IInv, NEW r \in Requests, AppendEntry(r)
  PROVE  TypeOK' /\ RowsOK' /\ RequestOK(r)' /\ Frame(r) /\ TablesGrow
  <1> USE DEF IInv, TypeOK
  <1>1. UNCHANGED <<records, certs, prints, people, locals, touched>>
    BY DEF AppendEntry
  <1>2. pc' = [pc EXCEPT ![r] = pc'[r]] /\ pc'[r] \in {"failed", "find", "done"}
    BY DEF AppendEntry, Goto
  <1>3. books' \in [Series -> Seq(Entries)]
    <2> DEFINE e == [of |-> r, page |-> PageOf(seen[r]), line |-> LineOf(seen[r])]
    <2>1. e \in Entries
      BY Slots, PageSizeAssumption DEF Entries
    <2>2. books' = books
          \/ books' = [books EXCEPT ![SeriesOf(row[r])] = Append(books[SeriesOf(row[r])], e)]
      BY DEF AppendEntry
    <2>3. SeriesOf(row[r]) \in Series
      BY Held, RowFields DEF AppendEntry, HoldsRow
    <2> HIDE DEF e
    <2>4. Append(books[SeriesOf(row[r])], e) \in Seq(Entries)
      BY <2>1, <2>3
    <2> HIDE DEF TypeOK
    <2>5. books \in [Series -> Seq(Entries)]
      BY DEF TypeOK
    <2> QED BY <2>2, <2>3, <2>4, <2>5
  <1>4. TypeOK'
    <2>1. pc' \in [Requests -> Stages \cup {"idle", "done", "failed"}]
      BY <1>2 DEF Stages
    <2> QED BY <1>1, <1>3, <2>1 DEF locals, people
  <1>5. RowsOK' /\ TablesGrow
    BY <1>1 DEF StageOK, RowsOK, TablesGrow
  <1>6. RequestOK(r)' /\ Frame(r)
    BY <1>1, <1>2 DEF RequestOK, HoldsRow, HoldsBody, Frame, locals
  <1> QED BY <1>4, <1>5, <1>6

\* Every serial a record can be given is a serial.
LEMMA SerialChoices ==
  ASSUME IInv, NEW x \in Rows, x.number \in Numbers, NEW s \in NextCertSerials(x)
  PROVE  s \in Serials
  <1>1. x.parish \in Parishes /\ x.year \in Years /\ x.type \in Types
    BY RowFields
  <1>2. ASSUME NEW c \in Numbers, c.style = "conf" PROVE c \in Serials
    BY <1>2 DEF Numbers, Serials
  <1>3. CASE x.type = "CONFIRMATION"
    BY <1>1, <1>2, <1>3, ConfirmationChoices DEF NextCertSerials
  <1>4. CASE x.type = "MARRIAGE"
    <2>1. MarriageSequence(x.number) \in Nat
      BY DEF MarriageSequence, Numbers
    <2>2. s = [style |-> "mar", place |-> <<x.parish, x.year>>, n |-> MarriageSequence(x.number)]
      BY <1>4 DEF NextCertSerials
    <2> QED BY <1>1, <2>1, <2>2 DEF Serials, Places
  <1>5. CASE x.type \notin {"CONFIRMATION", "MARRIAGE"}
    <2>1. CertsOf(x.parish, x.type) \subseteq Requests
      BY DEF CertsOf
    <2>2. Cardinality(CertsOf(x.parish, x.type)) + 1 \in Nat
      BY <2>1, CountsAreNaturals
    <2>3. s = [style |-> "count", place |-> NoPlace, n |-> Cardinality(CertsOf(x.parish, x.type)) + 1]
      BY <1>5 DEF NextCertSerials
    <2> QED BY <2>2, <2>3 DEF Serials
  <1> QED BY <1>3, <1>4, <1>5

\* ChooseSerial preserves the invariant.
LEMMA ChooseSerialStep ==
  ASSUME IInv, NEW r \in Requests, ChooseSerial(r)
  PROVE  TypeOK' /\ RowsOK' /\ RequestOK(r)' /\ Frame(r) /\ TablesGrow
  <1> USE DEF IInv, TypeOK
  <1>1. row[r] \in Rows /\ row[r].number \in Numbers
    BY Held DEF HoldsRow, ChooseSerial
  <1>2. PICK s \in NextCertSerials(row[r]) : serial' = [serial EXCEPT ![r] = s]
    BY DEF ChooseSerial
  <1>3. s \in Serials
    BY <1>1, SerialChoices
  <1>4. /\ pc[r] = "serial" /\ pc' = [pc EXCEPT ![r] = "certify"]
        /\ UNCHANGED <<tables, people, body, target, row, seen, touched>>
    BY DEF ChooseSerial, Goto
  <1>5. TypeOK'
    BY <1>2, <1>3, <1>4 DEF tables, people, Stages
  <1>6. RowsOK' /\ TablesGrow
    BY <1>4 DEF StageOK, RowsOK, TablesGrow, tables
  <1>7. RequestOK(r)'
    BY <1>2, <1>3, <1>4, NullsAssumption DEF StageOK, RequestOK, HoldsRow, HoldsBody, tables
  <1>8. Frame(r)
    BY <1>2, <1>4 DEF Frame
  <1> QED BY <1>5, <1>6, <1>7, <1>8

\* InsertCertificate preserves the invariant.
LEMMA InsertCertificateStep ==
  ASSUME IInv, NEW r \in Requests, InsertCertificate(r)
  PROVE  TypeOK' /\ RowsOK' /\ RequestOK(r)' /\ Frame(r) /\ TablesGrow
  <1> USE DEF IInv, TypeOK
  <1> DEFINE x == row[r]
             c == [of |-> target[r], parish |-> x.parish, type |-> x.type, year |-> x.year,
                   number |-> x.number, serial |-> serial[r], printCount |-> 0]
  <1>1. c \in Certificates
    <2>1. x \in Rows /\ x.number \in Numbers /\ serial[r] \in Serials /\ x.type \in Registered
      BY Held DEF HoldsRow, InsertCertificate, StageOK, RequestOK
    <2>2. x.parish \in Parishes /\ x.year \in Years
      BY <2>1, RowFields
    <2> QED BY <2>1, <2>2 DEF Certificates
  <1>2. /\ records[target[r]] # NoRow
        /\ UNCHANGED <<records, books, prints, people, locals, touched>>
    BY DEF InsertCertificate, StageOK, RequestOK
  <1>3. \/ certs' = certs /\ pc' = [pc EXCEPT ![r] = "failed"]
        \/ certs' = [certs EXCEPT ![r] = c] /\ pc' = [pc EXCEPT ![r] = "link"]
    BY DEF InsertCertificate, Goto
  <1> HIDE DEF x, c
  <1>4. TypeOK'
    <2>1. pc' \in [Requests -> Stages \cup {"idle", "done", "failed"}]
      BY <1>3 DEF Stages
    <2>2. certs' \in [Requests -> Certificates \cup {NoCert}]
      <3> HIDE DEF IInv, TypeOK
      <3>1. certs \in [Requests -> Certificates \cup {NoCert}]
        BY DEF IInv, TypeOK
      <3> QED BY <1>1, <1>3, <3>1
    <2> QED BY <1>2, <2>1, <2>2 DEF people, locals
  <1>5. RowsOK' /\ TablesGrow
    <2>1. TablesGrow
      BY <1>1, <1>2, <1>3, NullsAssumption DEF TablesGrow
    <2>2. \A q \in Requests : records[q] # NoRow => records[q].cert \in Requests \cup {NoCert}
      BY RowFields
    <2> QED BY <1>2, <2>1, <2>2 DEF StageOK, RowsOK, TablesGrow
  <1>6. RequestOK(r)'
    BY <1>1, <1>2, <1>3, NullsAssumption DEF RequestOK, HoldsRow, HoldsBody, locals
  <1>7. Frame(r)
    BY <1>2, <1>3 DEF Frame, locals
  <1> QED BY <1>4, <1>5, <1>6, <1>7

\* StartUpdate preserves the invariant.
LEMMA StartUpdateStep ==
  ASSUME IInv, NEW r \in Requests, StartUpdate(r)
  PROVE  TypeOK' /\ RowsOK' /\ RequestOK(r)' /\ Frame(r) /\ TablesGrow
  <1> USE DEF IInv, TypeOK
  <1>1. PICK q \in Requests, e \in Edits :
          /\ Live(q)
          /\ body' = [body EXCEPT ![r] = e]
          /\ target' = [target EXCEPT ![r] = q]
          /\ row' = [row EXCEPT ![r] = records[q]]
    BY DEF StartUpdate
  <1>2. e \in Bodies /\ records[q] \in Rows /\ e.number # NoNumber
    BY <1>1, BodiesAssumption DEF Live
  <1>3. pc' = [pc EXCEPT ![r] = "update"] /\ UNCHANGED <<tables, people, seen, serial, touched>>
    BY DEF StartUpdate, Goto
  <1>4. TypeOK'
    BY <1>1, <1>2, <1>3 DEF tables, people, Stages
  <1>5. RowsOK' /\ TablesGrow
    BY <1>3 DEF StageOK, RowsOK, TablesGrow, tables
  <1>6. RequestOK(r)'
    BY <1>1, <1>2, <1>3, NullsAssumption DEF RequestOK, HoldsRow, HoldsBody, tables
  <1>7. Frame(r)
    BY <1>1, <1>3 DEF Frame
  <1> QED BY <1>4, <1>5, <1>6, <1>7

\* An edit gives a record fields of the same types, and keeps its certificate.
LEMMA EditedRow ==
  ASSUME IInv, NEW r \in Requests, UpdateRecord(r)
  PROVE  /\ Edited(r) \in Rows /\ Edited(r).number # NoNumber
         /\ Edited(r).cert = records[target[r]].cert
  <1> DEFINE x == records[target[r]]  b == body[r]  o == row[r]
             p == Given(b.parish, o.parish)  m == Given(b.member, o.member)
             s == Given(b.spouse, o.spouse)  y == Given(b.year, x.year)
             num == Given(b.number, x.number)  d == Given(b.date, x.date)
  <1>1. x \in Rows /\ o \in Rows /\ b \in Bodies /\ x.number \in Numbers
    <2>1. x \in Rows /\ o \in Rows /\ b \in Bodies
      BY Held DEF UpdateRecord, HoldsRow, HoldsBody
    <2>2. x.number # NoNumber
      BY DEF UpdateRecord, IInv, TypeOK, StageOK, RowsOK, RequestOK
    <2> QED BY <2>1, <2>2, RowFields
  <1>2. /\ p \in Parishes /\ m \in Members \cup {Nobody} /\ s \in Members \cup {Nobody}
        /\ y \in Years /\ d \in Dates
    <2>1. /\ b.parish \in Parishes \cup {Keep} /\ b.year \in Years \cup {Keep}
          /\ b.date \in Dates \cup {Keep} /\ b.member \in Members \cup {Nobody, Keep}
          /\ b.spouse \in Members \cup {Nobody, Keep}
      BY <1>1 DEF Bodies
    <2>2. /\ o.parish \in Parishes /\ o.member \in Members \cup {Nobody}
          /\ o.spouse \in Members \cup {Nobody} /\ x.year \in Years /\ x.date \in Dates
      BY <1>1, RowFields
    <2> HIDE DEF x, b, o
    <2> QED BY <2>1, <2>2 DEF Given
  <1>3. num \in Numbers
    <2>1. b.number \in Numbers \cup {NoNumber, Keep}
      BY <1>1 DEF Bodies
    <2>2. b.number # NoNumber
      BY DEF UpdateRecord, IInv, StageOK, RequestOK
    <2> HIDE DEF b, x
    <2> QED BY <1>1, <2>1, <2>2 DEF Given
  <1>4. Edited(r) = [x EXCEPT !.parish = p, !.member = m, !.spouse = s,
                              !.year = y, !.number = num, !.date = d]
    BY DEF Edited
  <1> HIDE DEF x, b, o, p, m, s, y, num, d
  <1>5. Edited(r) \in Rows /\ Edited(r).number = num /\ Edited(r).cert = x.cert
    <2>1. Edited(r) \in Rows
      BY <1>1, <1>2, <1>3, <1>4 DEF Rows
    <2>2. Edited(r).number = num
      BY <1>1, <1>4 DEF Rows
    <2>3. Edited(r).cert = x.cert
      BY <1>1, <1>4 DEF Rows
    <2> QED BY <2>1, <2>2, <2>3
  <1> QED BY <1>3, <1>5, NullsAssumption DEF x

\* UpdateRecord preserves the invariant.
LEMMA UpdateRecordStep ==
  ASSUME IInv, NEW r \in Requests, UpdateRecord(r)
  PROVE  TypeOK' /\ RowsOK' /\ RequestOK(r)' /\ Frame(r) /\ TablesGrow
  <1> USE DEF IInv, TypeOK
  <1> DEFINE x == records[target[r]]  y == Edited(r)
             o == [row[r] EXCEPT !.member = y.member, !.spouse = y.spouse]
  <1>1. /\ x \in Rows /\ y \in Rows /\ y.number # NoNumber /\ y.cert = x.cert
        /\ row[r] \in Rows /\ body[r] # NoBody
    <2> HIDE DEF IInv, TypeOK
    <2>1. x \in Rows /\ row[r] \in Rows /\ body[r] \in Bodies
      BY Held DEF UpdateRecord, HoldsRow, HoldsBody
    <2>2. y \in Rows /\ y.number # NoNumber /\ y.cert = x.cert
      BY EditedRow
    <2> QED BY <2>1, <2>2, NullsAssumption
  <1>2. o \in Rows /\ o.member = y.member /\ o.spouse = y.spouse
    BY <1>1, RowFields DEF Rows
  <1>3. UNCHANGED <<books, certs, prints, people, body, target, seen, serial>>
    BY DEF UpdateRecord
  <1>4. CASE records' = records /\ row' = row /\ touched' = touched /\ pc' = [pc EXCEPT ![r] = "failed"]
    <2>1. TypeOK'
      BY <1>3, <1>4 DEF people, Stages
    <2>2. RowsOK' /\ TablesGrow
      BY <1>3, <1>4 DEF StageOK, RowsOK, TablesGrow
    <2>3. RequestOK(r)' /\ Frame(r)
      BY <1>3, <1>4 DEF RequestOK, HoldsRow, HoldsBody, Frame
    <2> QED BY <2>1, <2>2, <2>3
  <1>5. CASE /\ records' = [records EXCEPT ![target[r]] = y]
             /\ row' = [row EXCEPT ![r] = o]
             /\ touched' \in {touched, touched \cup {SeriesOf(x), SeriesOf(y)}}
             /\ \/ pc' = [pc EXCEPT ![r] = "spouse"] /\ y.member # Nobody /\ y.spouse # Nobody
                \/ pc' = [pc EXCEPT ![r] = "find"]
                \/ pc' = [pc EXCEPT ![r] = "done"]
    <2>1. SeriesOf(x) \in Series /\ SeriesOf(y) \in Series
      BY <1>1, RowFields
    <2> HIDE DEF x, y, o
    <2>2. TypeOK'
      <3>1. pc' \in [Requests -> Stages \cup {"idle", "done", "failed"}]
        BY <1>5 DEF Stages
      <3>2. records' \in [Requests -> Rows \cup {NoRow}] /\ row' \in [Requests -> Rows \cup {NoRow}]
        BY <1>1, <1>2, <1>5
      <3>3. touched' \subseteq Series
        BY <1>5, <2>1
      <3> QED BY <1>3, <3>1, <3>2, <3>3 DEF people
    <2>3. RowsOK' /\ TablesGrow
      BY <1>1, <1>3, <1>5, NullsAssumption DEF StageOK, RowsOK, TablesGrow, x
    <2>4. RequestOK(r)'
      <3>1. row'[r] = o /\ o # NoRow /\ body' = body
        BY <1>2, <1>3, <1>5, NullsAssumption
      <3>2. /\ pc'[r] \in {"spouse", "find", "done"}
            /\ pc'[r] = "spouse" => o.member # Nobody /\ o.spouse # Nobody
        BY <1>2, <1>5
      <3> QED BY <1>1, <3>1, <3>2 DEF RequestOK, HoldsRow, HoldsBody
    <2>5. Frame(r)
      BY <1>3, <1>5 DEF Frame
    <2> QED BY <2>2, <2>3, <2>4, <2>5
  <1> QED
    <2> HIDE DEF IInv, TypeOK
    <2> QED BY <1>4, <1>5 DEF UpdateRecord, Goto

\* Counting a print keeps a certificate one.
LEMMA CountedCertificate ==
  ASSUME NEW c \in Certificates, NEW k \in Nat
  PROVE  [c EXCEPT !.printCount = k] \in Certificates
  BY DEF Certificates

\* SetPrintCount preserves the invariant.
LEMMA SetPrintCountStep ==
  ASSUME IInv, NEW r \in Requests, SetPrintCount(r)
  PROVE  TypeOK' /\ RowsOK' /\ RequestOK(r)' /\ Frame(r) /\ TablesGrow
  <1> USE DEF IInv, TypeOK
  <1> DEFINE i == row[r].cert  c == [certs[i] EXCEPT !.printCount = seen[r] + 1]
  <1>1. i \in Requests /\ certs[i] \in Certificates
    BY Held DEF SetPrintCount
  <1>2. c \in Certificates
    <2>1. seen[r] + 1 \in Nat
      OBVIOUS
    <2> QED BY <1>1, <2>1, CountedCertificate
  <1>3. /\ certs' = [certs EXCEPT ![i] = c]
        /\ pc' = [pc EXCEPT ![r] = "done"]
        /\ UNCHANGED <<records, books, prints, people, locals, touched>>
    BY DEF SetPrintCount, Goto
  <1> HIDE DEF i, c
  <1>4. TypeOK'
    <2>1. pc' \in [Requests -> Stages \cup {"idle", "done", "failed"}]
      BY <1>3 DEF Stages
    <2>2. certs' \in [Requests -> Certificates \cup {NoCert}]
      BY <1>1, <1>2, <1>3
    <2> QED BY <1>3, <2>1, <2>2 DEF people, locals
  <1>5. TablesGrow
    BY <1>1, <1>2, <1>3, NullsAssumption DEF TablesGrow
  <1>6. RowsOK'
    <2>1. \A q \in Requests : records[q] # NoRow => records[q].cert \in Requests \cup {NoCert}
      BY RowFields
    <2> QED BY <1>3, <1>5, <2>1 DEF StageOK, RowsOK, TablesGrow
  <1>7. RequestOK(r)' /\ Frame(r)
    BY <1>3 DEF RequestOK, HoldsRow, HoldsBody, Frame, locals
  <1> QED BY <1>4, <1>5, <1>6, <1>7

\* What every step of a request does.
LEMMA StepFrame ==
  ASSUME IInv, NEW r \in Requests,
         Create(r) \/ Issue(r) \/ Update(r) \/ Delete(r) \/ PrintCertificate(r) \/ Abort(r)
  PROVE  TypeOK' /\ RowsOK' /\ RequestOK(r)' /\ Frame(r) /\ TablesGrow
  <1>1. CASE Create(r)
    BY <1>1, StartCreateStep, ChooseNumberStep, InsertRecordStep, MarkDeceasedStep,
       LinkSpousesStep, MarkMarriedStep, CountEntriesStep, AppendEntryStep DEF Create
  <1>2. CASE Issue(r)
    BY <1>2, StartIssueStep, FindRecordStep, ChooseSerialStep, InsertCertificateStep,
       LinkCertificateStep DEF Issue
  <1>3. CASE Update(r)
    BY <1>3, StartUpdateStep, UpdateRecordStep DEF Update
  <1>4. CASE Delete(r)
    BY <1>4, StartDeleteStep, DeleteRecordStep DEF Delete
  <1>5. CASE PrintCertificate(r)
    BY <1>5, StartPrintStep, LogPrintStep, SetPrintCountStep DEF PrintCertificate
  <1>6. CASE Abort(r)
    BY <1>6, AbortStep
  <1> QED BY <1>1, <1>2, <1>3, <1>4, <1>5, <1>6

\* The invariant is inductive.
LEMMA NextStep ==
  ASSUME IInv, [Next]_vars
  PROVE  IInv'
  <1>1. CASE Next
    <2>1. PICK r \in Requests : \/ Create(r) \/ Issue(r) \/ Update(r)
                                \/ Delete(r) \/ PrintCertificate(r) \/ Abort(r)
      BY <1>1 DEF Next
    <2>2. TypeOK' /\ RowsOK' /\ RequestOK(r)' /\ Frame(r) /\ TablesGrow
      BY <2>1, StepFrame
    <2>3. \A q \in Requests \ {r} : RequestOK(q)'
      BY <2>2, OtherRequests
    <2>4. StageOK'
      BY <2>2, <2>3 DEF StageOK
    <2> QED BY <2>2, <2>4 DEF IInv
  <1>2. CASE UNCHANGED vars
    <2>1. TypeOK'
      BY <1>2 DEF vars, tables, people, locals, IInv, TypeOK
    <2>2. StageOK'
      BY <1>2 DEF vars, tables, people, locals, IInv, StageOK, RowsOK, RequestOK
    <2> QED BY <2>1, <2>2 DEF IInv
  <1> QED BY <1>1, <1>2

\* Every table, and what each request holds, keeps its type, and every query of a
\* request finds the rows and the locals it relies on.
THEOREM Safety == Spec => []IInv
  <1>1. Init => IInv
    BY InitIInv
  <1>2. IInv /\ [Next]_vars => IInv'
    BY NextStep
  <1> QED BY <1>1, <1>2, PTL DEF Spec

\* The tables of sacrament.service.ts keep their types.
THEOREM TypeCorrect == Spec => []TypeOK
  <1>1. IInv => TypeOK
    BY DEF IInv
  <1> QED BY <1>1, Safety, PTL

\* A request never counted more entries than its book now has.
CountsInPast == \A r \in Requests : pc[r] = "append" => seen[r] <= Len(books[SeriesOf(row[r])])

\* The invariant that carries the lines: what was counted is never past the end.
LInv == IInv /\ PagesDense /\ CountsInPast

\* Only CountEntries reaches the append, and only AppendEntry writes to a book.
LEMMA QuietSteps ==
  ASSUME IInv, NEW r \in Requests,
         \/ StartCreate(r) \/ ChooseNumber(r) \/ InsertRecord(r)
         \/ MarkDeceased(r) \/ LinkSpouses(r) \/ MarkMarried(r)
         \/ Issue(r) \/ Update(r) \/ Delete(r) \/ PrintCertificate(r) \/ Abort(r)
  PROVE  books' = books /\ pc'[r] # "append"
  <1> USE DEF IInv, TypeOK, Goto, tables
  <1>1. CASE StartCreate(r) \/ ChooseNumber(r) \/ MarkDeceased(r) \/ LinkSpouses(r) \/ MarkMarried(r)
    BY <1>1 DEF StartCreate, Receive, ChooseNumber, MarkDeceased, LinkSpouses, MarkMarried
  <1>2. CASE InsertRecord(r)
    BY <1>2 DEF InsertRecord, AfterInsert
  <1>3. CASE Issue(r)
    BY <1>3 DEF Issue, StartIssue, FindRecord, ChooseSerial, InsertCertificate, LinkCertificate
  <1>4. CASE Update(r)
    <2>1. CASE StartUpdate(r)
      BY <2>1 DEF StartUpdate
    <2>2. CASE UpdateRecord(r)
      BY <2>2 DEF UpdateRecord
    <2> QED BY <1>4, <2>1, <2>2 DEF Update
  <1>5. CASE Delete(r) \/ PrintCertificate(r) \/ Abort(r)
    BY <1>5 DEF Delete, StartDelete, DeleteRecord, PrintCertificate, StartPrint, LogPrint,
                SetPrintCount, Abort
  <1> QED BY <1>1, <1>2, <1>3, <1>4, <1>5

\* A step that appends nothing and counts nothing leaves the lines as they are.
LEMMA QuietLines ==
  ASSUME LInv, NEW r \in Requests, Frame(r), books' = books, pc'[r] # "append"
  PROVE  PagesDense' /\ CountsInPast'
  BY DEF LInv, PagesDense, CountsInPast, Frame

\* The count a request takes is the length of the book.
LEMMA CountEntriesLines ==
  ASSUME LInv, NEW r \in Requests, CountEntries(r)
  PROVE  PagesDense' /\ CountsInPast'
  <1>1. IInv /\ seen \in [Requests -> Nat] /\ pc \in [Requests -> Stages \cup {"idle", "done", "failed"}]
    BY DEF LInv, IInv, TypeOK
  <1>2. Frame(r) /\ books' = books /\ row' = row
    BY <1>1, CountEntriesStep DEF CountEntries, tables
  <1>3. seen'[r] = Len(books[SeriesOf(row[r])])
    BY <1>1 DEF CountEntries
  <1>4. Len(books[SeriesOf(row[r])]) \in Nat
    <2>1. SeriesOf(row[r]) \in Series
      BY <1>1, Held, RowFields DEF CountEntries, HoldsRow
    <2> QED BY <1>1, <2>1 DEF IInv, TypeOK
  <1> QED BY <1>1, <1>2, <1>3, <1>4 DEF LInv, PagesDense, CountsInPast, Frame

\* A count that is behind leads to a line that is taken, so an entry is appended
\* only after a count that is still right.
LEMMA AppendEntryLines ==
  ASSUME LInv, NEW r \in Requests, AppendEntry(r)
  PROVE  PagesDense' /\ CountsInPast'
  <1> DEFINE s == SeriesOf(row[r])  n == seen[r]
             e == [of |-> r, page |-> PageOf(n), line |-> LineOf(n)]
  <1>1. /\ IInv /\ Frame(r) /\ s \in Series /\ n \in Nat /\ n <= Len(books[s])
        /\ books \in [Series -> Seq(Entries)] /\ books[s] \in Seq(Entries)
        /\ pc'[r] # "append" /\ row' = row /\ e \in Entries
    <2>1. IInv /\ row[r] \in Rows /\ Frame(r)
      BY Held, AppendEntryStep DEF LInv, AppendEntry, HoldsRow
    <2>2. s \in Series /\ n \in Nat /\ books \in [Series -> Seq(Entries)]
      BY <2>1, RowFields DEF IInv, TypeOK
    <2>3. n <= Len(books[s])
      BY DEF LInv, CountsInPast, AppendEntry
    <2>4. pc'[r] # "append" /\ row' = row
      BY <2>1 DEF AppendEntry, IInv, TypeOK, Goto, locals
    <2>5. e \in Entries
      <3>1. PageOf(n) \in Nat /\ LineOf(n) \in Nat
        BY <2>2, Slots
      <3> QED BY <3>1 DEF Entries
    <2> QED BY <2>1, <2>2, <2>3, <2>4, <2>5
  <1>2. CASE books' = books
    BY <1>1, <1>2, QuietLines
  <1>3. CASE books' = [books EXCEPT ![s] = Append(books[s], e)] /\ ~LineTaken(s, PageOf(n), LineOf(n))
    <2>1. n = Len(books[s])
      <3>1. SUFFICES ASSUME n < Len(books[s]) PROVE FALSE
        BY <1>1
      <3>2. n + 1 \in 1..Len(books[s])
        BY <1>1, <3>1
      <3>3. books[s][n + 1].page = PageOf(n + 1 - 1) /\ books[s][n + 1].line = LineOf(n + 1 - 1)
        BY <1>1, <3>2 DEF LInv, PagesDense
      <3>4. n + 1 - 1 = n
        BY <1>1
      <3> QED BY <1>3, <3>2, <3>3, <3>4 DEF LineTaken
    <2>2. /\ \A o \in Series \ {s} : books'[o] = books[o]
          /\ books'[s] = Append(books[s], e)
      BY <1>1, <1>3
    <2>3. Len(books'[s]) = n + 1 /\ books'[s][n + 1] = e /\ \A i \in 1..n : books'[s][i] = books[s][i]
      BY <1>1, <2>1, <2>2
    <2>4. PagesDense'
      <3>1. \A i \in 1..Len(books'[s]) :
              books'[s][i].page = PageOf(i - 1) /\ books'[s][i].line = LineOf(i - 1)
        <4>1. TAKE i \in 1..Len(books'[s])
        <4>2. CASE i = n + 1
          <5>1. e.page = PageOf(n) /\ e.line = LineOf(n) /\ i - 1 = n
            BY <1>1, <4>2
          <5> QED BY <2>3, <4>2, <5>1
        <4>3. CASE i \in 1..n
          BY <1>1, <2>1, <2>3, <4>3 DEF LInv, PagesDense
        <4> QED BY <1>1, <2>3, <4>2, <4>3
      <3> QED BY <1>1, <2>2, <3>1 DEF LInv, PagesDense
    <2>5. CountsInPast'
      <3> SUFFICES ASSUME NEW q \in Requests, pc'[q] = "append"
                   PROVE  seen'[q] <= Len(books'[SeriesOf(row'[q])])
        BY DEF CountsInPast
      <3>1. q # r /\ pc[q] = "append" /\ seen'[q] = seen[q] /\ row'[q] = row[q]
        BY <1>1 DEF Frame
      <3>2. seen[q] <= Len(books[SeriesOf(row[q])]) /\ seen[q] \in Nat
        BY <1>1, <3>1 DEF LInv, CountsInPast, IInv, TypeOK
      <3>3. SeriesOf(row[q]) \in Series
        BY <1>1, <3>1, Held, RowFields DEF HoldsRow
      <3> QED BY <1>1, <2>1, <2>2, <2>3, <3>1, <3>2, <3>3
    <2> QED BY <2>4, <2>5
  <1> QED BY <1>1, <1>2, <1>3 DEF AppendEntry

\* The invariant of the lines is inductive.
LEMMA LineStep ==
  ASSUME LInv, [Next]_vars
  PROVE  LInv'
  <1>1. IInv'
    BY NextStep DEF LInv
  <1>2. CASE Next
    <2>1. PICK r \in Requests : \/ Create(r) \/ Issue(r) \/ Update(r)
                                \/ Delete(r) \/ PrintCertificate(r) \/ Abort(r)
      BY <1>2 DEF Next
    <2>2. CASE CountEntries(r)
      BY <1>1, <2>2, CountEntriesLines DEF LInv
    <2>3. CASE AppendEntry(r)
      BY <1>1, <2>3, AppendEntryLines DEF LInv
    <2>4. CASE ~CountEntries(r) /\ ~AppendEntry(r)
      <3>1. books' = books /\ pc'[r] # "append"
        BY <2>1, <2>4, QuietSteps DEF LInv, Create
      <3>2. Frame(r)
        BY <2>1, StepFrame DEF LInv
      <3> QED BY <1>1, <3>1, <3>2, QuietLines DEF LInv
    <2> QED BY <2>2, <2>3, <2>4
  <1>3. CASE UNCHANGED vars
    BY <1>1, <1>3 DEF LInv, PagesDense, CountsInPast, vars, tables, locals
  <1> QED BY <1>2, <1>3

\* However the creates interleave, the i-th entry of every register book stands on
\* the i-th line of its pages (appendRegisterEntry, 156-168).
THEOREM PagesAlwaysDense == Spec => []PagesDense
  <1>1. Init => LInv
    BY InitIInv DEF LInv, Init, PagesDense, CountsInPast
  <1>2. LInv /\ [Next]_vars => LInv'
    BY LineStep
  <1>3. LInv => PagesDense
    BY DEF LInv
  <1> QED BY <1>1, <1>2, <1>3, PTL DEF Spec

\* Different counts lead to different slots.
LEMMA SlotsDiffer ==
  ASSUME NEW j \in Nat, NEW k \in Nat, PageOf(j) = PageOf(k), LineOf(j) = LineOf(k)
  PROVE  j = k
  <1>1. j \div PageSize \in Nat /\ k \div PageSize \in Nat
    BY PageSizeAssumption
  <1>2. j % PageSize \in Nat /\ k % PageSize \in Nat
    BY PageSizeAssumption
  <1>3. j \div PageSize = k \div PageSize /\ j % PageSize = k % PageSize
    BY <1>1, <1>2 DEF PageOf, LineOf
  <1>4. j = PageSize * (j \div PageSize) + (j % PageSize)
    BY PageSizeAssumption
  <1>5. k = PageSize * (k \div PageSize) + (k % PageSize)
    BY PageSizeAssumption
  <1> QED BY <1>3, <1>4, <1>5

\* The page of an earlier slot is among the pages that hold n entries.
LEMMA PagesSuffice ==
  ASSUME NEW n \in Nat, NEW k \in Nat, k < n
  PROVE  PageOf(k) <= (n + PageSize - 1) \div PageSize
  <1> DEFINE p == k \div PageSize  t == (n + PageSize - 1) \div PageSize
  <1>1. p \in Nat /\ t \in Nat /\ n + PageSize - 1 \in Nat
    BY PageSizeAssumption
  <1>2. k = PageSize * p + (k % PageSize) /\ k % PageSize \in 0..(PageSize - 1)
    BY PageSizeAssumption
  <1>3. /\ n + PageSize - 1 = PageSize * t + ((n + PageSize - 1) % PageSize)
        /\ (n + PageSize - 1) % PageSize \in 0..(PageSize - 1)
    BY <1>1, PageSizeAssumption
  <1>4. PageSize * (p + 1) <= n + PageSize - 1
    BY <1>1, <1>2, PageSizeAssumption
  <1>5. n + PageSize - 1 < PageSize * (t + 1)
    BY <1>1, <1>3, PageSizeAssumption
  <1> HIDE DEF p, t
  <1>6. PageSize * (p + 1) < PageSize * (t + 1)
    BY <1>1, <1>4, <1>5, PageSizeAssumption
  <1>7. p + 1 < t + 1
    BY <1>1, <1>6, PageSizeAssumption
  <1> QED BY <1>1, <1>7 DEF PageOf, p, t

\* Dense lines are all shown.
LEMMA DenseShown == LInv => EveryEntryShown
  <1> SUFFICES ASSUME LInv, NEW s \in Series, NEW i \in 1..Len(books[s]), NEW j \in 1..Len(books[s])
               PROVE  /\ books[s][i].page \in 1..TotalPages(s)
                      /\ books[s][i].line \in 1..PageSize
                      /\ i # j => \/ books[s][i].page # books[s][j].page
                                  \/ books[s][i].line # books[s][j].line
    BY DEF EveryEntryShown
  <1>1. books[s] \in Seq(Entries) /\ Len(books[s]) \in Nat
    BY DEF LInv, IInv, TypeOK
  <1>2. /\ i - 1 \in Nat /\ j - 1 \in Nat /\ i - 1 < Len(books[s])
        /\ books[s][i].page = PageOf(i - 1) /\ books[s][i].line = LineOf(i - 1)
        /\ books[s][j].page = PageOf(j - 1) /\ books[s][j].line = LineOf(j - 1)
    BY <1>1 DEF LInv, PagesDense
  <1>3. TotalPages(s) = (Len(books[s]) + PageSize - 1) \div PageSize
    BY <1>1 DEF TotalPages
  <1>4. PageOf(i - 1) <= TotalPages(s)
    BY <1>1, <1>2, <1>3, PagesSuffice
  <1>5. TotalPages(s) \in Nat
    <2>1. Len(books[s]) + PageSize - 1 \in Nat
      BY <1>1, PageSizeAssumption
    <2> QED BY <1>3, <2>1, PagesAreNaturals
  <1>6. PageOf(i - 1) \in Nat /\ PageOf(i - 1) >= 1 /\ LineOf(i - 1) \in 1..PageSize
    BY <1>2, Slots
  <1>7. i # j => PageOf(i - 1) # PageOf(j - 1) \/ LineOf(i - 1) # LineOf(j - 1)
    BY <1>2, SlotsDiffer
  <1> QED BY <1>2, <1>4, <1>5, <1>6, <1>7

\* getRegisterPage (776-806) shows every entry, on a line of its own.
THEOREM AllEntriesShown == Spec => []EveryEntryShown
  <1>1. Init => LInv
    BY InitIInv DEF LInv, Init, PagesDense, CountsInPast
  <1>2. LInv /\ [Next]_vars => LInv'
    BY LineStep
  <1> QED BY <1>1, <1>2, DenseShown, PTL DEF Spec


-----------------------------------------------------------------------------
(* What a step does to the records and certificates *)

Step(r) == Create(r) \/ Issue(r) \/ Update(r) \/ Delete(r) \/ PrintCertificate(r) \/ Abort(r)

\* A step keeps a record, inserts one, or edits one; an edit that numbers or moves a record
\* is noted.
Kept(r, q) == records'[q] = records[q] /\ touched \subseteq touched'
Inserted(r, q) ==
  /\ q = r /\ pc[r] = "insert" /\ records'[q] = row[r] /\ ~NumberTaken(row[r], r)
  /\ touched \subseteq touched' /\ (body[r].number # NoNumber => SeriesOf(row[r]) \in touched')
ChangedRow(r, q) ==
  /\ q = target[r] /\ pc[r] \in {"link", "update", "delete"}
  /\ records[q] \in Rows /\ records'[q] \in Rows /\ touched \subseteq touched'
  /\ records'[q].type = records[q].type
  /\ records[q].deletedAt = "set" => records'[q].deletedAt = "set"
  /\ \/ records'[q].cert = records[q].cert
     \/ pc[r] = "link" /\ pc'[r] = "done" /\ records'[q].cert = r
  /\ \/ SeriesOf(records'[q]) = SeriesOf(records[q]) /\ records'[q].number = records[q].number
     \/ /\ SeriesOf(records[q]) \in touched' /\ SeriesOf(records'[q]) \in touched'
        /\ ~NumberTaken(records'[q], q)

\* An edit leaves a record its deletion and its certificate.
LEMMA EditedKeeps ==
  ASSUME IInv, NEW r \in Requests, UpdateRecord(r)
  PROVE  Edited(r) \in Rows /\ Edited(r).deletedAt = records[target[r]].deletedAt
         /\ Edited(r).type = records[target[r]].type
         /\ Edited(r).cert = records[target[r]].cert
  <1>1. Edited(r) \in Rows /\ Edited(r).cert = records[target[r]].cert
    BY EditedRow
  <1>2. records[target[r]] \in Rows
    BY Held DEF UpdateRecord
  <1> QED BY <1>1, <1>2 DEF Edited, Rows

\* The three things a step can do to a record.
LEMMA RecordMoves ==
  ASSUME IInv, NEW r \in Requests, Step(r), NEW q \in Requests
  PROVE  Kept(r, q) \/ Inserted(r, q) \/ ChangedRow(r, q)
  <1>1. /\ records \in [Requests -> Rows \cup {NoRow}] /\ target[r] \in Requests
        /\ pc \in [Requests -> Stages \cup {"idle", "done", "failed"}]
    BY DEF IInv, TypeOK
  <1>2. CASE records' = records /\ touched' = touched
    BY <1>2 DEF Kept
  <1>3. CASE InsertRecord(r)
    <2>1. \/ records' = records /\ touched' = touched
          \/ /\ ~NumberTaken(row[r], r) /\ records' = [records EXCEPT ![r] = row[r]]
             /\ touched' = IF body[r].number = NoNumber THEN touched ELSE touched \cup {SeriesOf(row[r])}
      BY <1>3 DEF InsertRecord
    <2>2. CASE q = r
      BY <1>1, <1>2, <1>3, <2>1, <2>2 DEF Inserted, InsertRecord
    <2>3. CASE q # r
      BY <1>1, <1>2, <2>1, <2>3 DEF Kept
    <2> QED BY <2>2, <2>3
  <1>4. CASE UpdateRecord(r)
    <2> PICK y : y = Edited(r)
      OBVIOUS
    <2>1. y \in Rows /\ y.deletedAt = records[target[r]].deletedAt /\ y.type = records[target[r]].type
          /\ y.cert = records[target[r]].cert
          /\ records[target[r]] \in Rows
      BY <1>4, EditedKeeps, Held DEF UpdateRecord
    <2>2. \/ records' = records /\ touched' = touched
          \/ /\ ~NumberTaken(y, target[r]) /\ records' = [records EXCEPT ![target[r]] = y]
             /\ touched' = IF SeriesOf(y) = SeriesOf(records[target[r]]) /\ y.number = records[target[r]].number
                           THEN touched ELSE touched \cup {SeriesOf(records[target[r]]), SeriesOf(y)}
      BY <1>4 DEF UpdateRecord
    <2>3. CASE q = target[r]
      BY <1>1, <1>2, <1>4, <2>1, <2>2, <2>3 DEF ChangedRow, UpdateRecord
    <2>4. CASE q # target[r]
      BY <1>1, <1>2, <2>2, <2>4 DEF Kept
    <2> QED BY <2>3, <2>4
  <1>5. ASSUME NEW y \in Rows, records' = [records EXCEPT ![target[r]] = y], touched' = touched,
               pc[r] \in {"link", "delete"}, SeriesOf(y) = SeriesOf(records[target[r]]),
               y.number = records[target[r]].number, y.type = records[target[r]].type,
               records[target[r]].deletedAt = "set" => y.deletedAt = "set",
               y.cert = records[target[r]].cert \/ (pc[r] = "link" /\ pc'[r] = "done" /\ y.cert = r)
        PROVE  Kept(r, q) \/ ChangedRow(r, q)
    <2>1. CASE q = target[r]
      BY <1>1, <1>5, <2>1, Held DEF ChangedRow
    <2>2. CASE q # target[r]
      BY <1>1, <1>5, <2>2 DEF Kept
    <2> QED BY <2>1, <2>2
  <1>6. CASE DeleteRecord(r)
    <2> PICK y : y = [records[target[r]] EXCEPT !.deletedAt = "set"]
      OBVIOUS
    <2>1. pc[r] = "delete" /\ records[target[r]] \in Rows
      BY <1>6, Held DEF DeleteRecord
    <2>2. y \in Rows /\ SeriesOf(y) = SeriesOf(records[target[r]]) /\ y.number = records[target[r]].number
          /\ y.type = records[target[r]].type /\ y.deletedAt = "set" /\ y.cert = records[target[r]].cert
      BY <2>1 DEF Rows, SeriesOf
    <2>3. records' = [records EXCEPT ![target[r]] = y] /\ touched' = touched
      BY <1>6 DEF DeleteRecord
    <2> QED BY <1>5, <2>1, <2>2, <2>3
  <1>7. CASE LinkCertificate(r)
    <2> PICK y : y = [records[target[r]] EXCEPT !.cert = r]
      OBVIOUS
    <2>1. pc[r] = "link" /\ records[target[r]] \in Rows /\ pc'[r] = "done"
      BY <1>1, <1>7, Held DEF LinkCertificate, Goto
    <2>2. y \in Rows /\ SeriesOf(y) = SeriesOf(records[target[r]]) /\ y.number = records[target[r]].number
          /\ y.type = records[target[r]].type /\ y.deletedAt = records[target[r]].deletedAt /\ y.cert = r
      BY <2>1 DEF Rows, SeriesOf
    <2>3. records' = [records EXCEPT ![target[r]] = y] /\ touched' = touched
      BY <1>7 DEF LinkCertificate
    <2> QED BY <1>5, <2>1, <2>2, <2>3
  <1>8. CASE Create(r)
    BY <1>2, <1>3, <1>8 DEF Create, StartCreate, Receive, ChooseNumber, MarkDeceased, LinkSpouses,
       MarkMarried, CountEntries, AppendEntry, tables
  <1>9. CASE Issue(r)
    BY <1>2, <1>7, <1>9 DEF Issue, StartIssue, FindRecord, ChooseSerial, InsertCertificate, tables
  <1>10. CASE Update(r) \/ Delete(r)
    BY <1>2, <1>4, <1>6, <1>10 DEF Update, StartUpdate, Delete, StartDelete, tables
  <1>11. CASE PrintCertificate(r) \/ Abort(r)
    BY <1>2, <1>11 DEF PrintCertificate, StartPrint, LogPrint, SetPrintCount, Abort, tables
  <1> QED BY <1>8, <1>9, <1>10, <1>11 DEF Step

\* A step keeps a certificate, inserts one, or counts a print of one.
NewCert(r) ==
  [of |-> target[r], parish |-> row[r].parish, type |-> row[r].type, year |-> row[r].year,
   number |-> row[r].number, serial |-> serial[r], printCount |-> 0]

\* The three things a step can do to a certificate.
LEMMA CertMoves ==
  ASSUME IInv, NEW r \in Requests, Step(r), NEW c \in Requests
  PROVE  \/ certs'[c] = certs[c]
         \/ /\ c = r /\ pc[r] = "certify" /\ pc'[r] = "link" /\ certs'[c] = NewCert(r)
            /\ ~SerialTaken(row[r].parish, row[r].type, serial[r]) /\ target' = target
         \/ /\ c = row[r].cert /\ pc[r] = "printed" /\ certs[c] \in Certificates
            /\ certs'[c] = [certs[c] EXCEPT !.printCount = seen[r] + 1]
  <1>1. /\ certs \in [Requests -> Certificates \cup {NoCert}] /\ target[r] \in Requests
        /\ pc \in [Requests -> Stages \cup {"idle", "done", "failed"}]
    BY DEF IInv, TypeOK
  <1>2. CASE certs' = certs
    BY <1>2
  <1>3. CASE InsertCertificate(r)
    <2>1. \/ certs' = certs
          \/ /\ certs' = [certs EXCEPT ![r] = NewCert(r)] /\ pc' = [pc EXCEPT ![r] = "link"]
             /\ ~SerialTaken(row[r].parish, row[r].type, serial[r])
      BY <1>3 DEF InsertCertificate, NewCert, Goto
    <2>2. pc[r] = "certify" /\ target' = target
      BY <1>3 DEF InsertCertificate, locals
    <2> QED BY <1>1, <2>1, <2>2
  <1>4. CASE SetPrintCount(r)
    <2>1. row[r].cert \in Requests /\ certs[row[r].cert] \in Certificates /\ pc[r] = "printed"
      BY <1>4, Held DEF SetPrintCount
    <2>2. certs' = [certs EXCEPT ![row[r].cert] = [certs[row[r].cert] EXCEPT !.printCount = seen[r] + 1]]
      BY <1>4 DEF SetPrintCount
    <2> QED BY <1>1, <2>1, <2>2
  <1>5. CASE Create(r)
    BY <1>2, <1>5 DEF Create, StartCreate, Receive, ChooseNumber, InsertRecord, MarkDeceased, LinkSpouses,
       MarkMarried, CountEntries, AppendEntry, tables
  <1>6. CASE Issue(r)
    BY <1>2, <1>3, <1>6 DEF Issue, StartIssue, FindRecord, ChooseSerial, LinkCertificate, tables
  <1>7. CASE Update(r) \/ Delete(r) \/ Abort(r)
    BY <1>2, <1>7 DEF Update, StartUpdate, UpdateRecord, Delete, StartDelete, DeleteRecord, Abort, tables
  <1>8. CASE PrintCertificate(r)
    BY <1>2, <1>4, <1>8 DEF PrintCertificate, StartPrint, LogPrint, tables
  <1> QED BY <1>5, <1>6, <1>7, <1>8 DEF Step

-----------------------------------------------------------------------------
(* Certificates *)

\* A request inserts its record, and its certificate, once.
Unwritten ==
  \A r \in Requests : /\ pc[r] \in {"idle", "number", "insert"} => records[r] = NoRow
                      /\ certs[r] # NoCert => pc[r] \in {"link", "done", "failed"}

MarriageSerial(x) ==
  [style |-> "mar", place |-> <<x.parish, x.year>>, n |-> MarriageSequence(x.number)]

\* Who a certificate is about and under which serial, and which record points to it.
CertOK(c) ==
  certs[c] # NoCert =>
    /\ certs[c].of \in Requests /\ records[certs[c].of] # NoRow
    /\ certs[c].type = records[certs[c].of].type
    /\ pc[c] = "link" => certs[c].of = target[c]
    /\ pc[c] = "done" => records[certs[c].of].cert # NoCert
    /\ certs[c].type = "MARRIAGE" => certs[c].serial = MarriageSerial(certs[c])
PointerOK(q) ==
  records[q] # NoRow /\ records[q].cert # NoCert =>
    certs[records[q].cert] # NoCert /\ certs[records[q].cert].of = q
SerialsUnique ==
  \A c, d \in Requests :
    /\ c # d /\ certs[c] # NoCert /\ certs[d] # NoCert
    /\ certs[c].parish = certs[d].parish /\ certs[c].type = certs[d].type
    => certs[c].serial # certs[d].serial
SerialOK(r) ==
  /\ pc[r] \in {"serial", "certify"} => row[r].type = records[target[r]].type
  /\ pc[r] = "certify" /\ row[r].type = "MARRIAGE" => serial[r] = MarriageSerial(row[r])

\* The invariant of the certificates.
CInv ==
  /\ IInv /\ Unwritten /\ SerialsUnique
  /\ \A c \in Requests : CertOK(c) /\ PointerOK(c) /\ SerialOK(c)

\* The stages that lead to an insert, and those after it.
LEMMA StageMoves ==
  ASSUME IInv, NEW r \in Requests, Step(r)
  PROVE  /\ pc'[r] \in {"idle", "number", "insert"} => pc[r] \in {"idle", "number"}
         /\ pc'[r] = "certify" => ChooseSerial(r)
         /\ pc'[r] = "serial" => FindRecord(r)
         /\ pc[r] \in {"link", "done", "failed"} => pc'[r] \in {"done", "failed"}
         /\ pc[r] \in {"link", "done", "failed"} /\ pc'[r] = "done" => LinkCertificate(r)
         /\ pc'[r] = "link" => pc[r] = "certify"
  <1> USE DEF IInv, TypeOK, Goto
  <1>1. CASE StartCreate(r) \/ ChooseNumber(r) \/ MarkDeceased(r) \/ LinkSpouses(r) \/ MarkMarried(r)
             \/ CountEntries(r)
    BY <1>1 DEF StartCreate, Receive, ChooseNumber, MarkDeceased, LinkSpouses, MarkMarried, CountEntries
  <1>2. CASE InsertRecord(r)
    BY <1>2 DEF InsertRecord, AfterInsert
  <1>3. CASE AppendEntry(r)
    <2>1. pc[r] = "append" /\ pc'[r] \in {"failed", "find", "done"}
      BY <1>3 DEF AppendEntry
    <2> QED BY <2>1
  <1>4. CASE Issue(r)
    <2>1. CASE StartIssue(r) \/ FindRecord(r) \/ ChooseSerial(r) \/ LinkCertificate(r)
      BY <2>1 DEF StartIssue, FindRecord, ChooseSerial, LinkCertificate
    <2>2. CASE InsertCertificate(r)
      <3>1. pc[r] = "certify" /\ pc'[r] \in {"failed", "link"}
        BY <2>2 DEF InsertCertificate
      <3> QED BY <3>1
    <2> QED BY <1>4, <2>1, <2>2 DEF Issue
  <1>5. CASE StartUpdate(r)
    BY <1>5 DEF StartUpdate
  <1>6. CASE UpdateRecord(r)
    <2>1. pc[r] = "update" /\ pc'[r] \in {"failed", "spouse", "find", "done"}
      BY <1>6 DEF UpdateRecord
    <2> QED BY <2>1
  <1>7. CASE Delete(r) \/ PrintCertificate(r) \/ Abort(r)
    BY <1>7 DEF Delete, StartDelete, DeleteRecord, PrintCertificate, StartPrint, LogPrint,
                SetPrintCount, Abort, Active, Stages
  <1> HIDE DEF IInv, TypeOK, Goto
  <1> QED BY <1>1, <1>2, <1>3, <1>4, <1>5, <1>6, <1>7 DEF Step, Create, Update

\* The requests but r.
LEMMA Others == ASSUME IInv, NEW r \in Requests, Step(r) PROVE Frame(r) /\ TablesGrow /\ IInv'
  <1>1. Frame(r) /\ TablesGrow
    BY StepFrame DEF Step
  <1>2. Next
    BY DEF Step, Next
  <1> QED BY <1>1, <1>2, NextStep

\* No step writes a row before its request inserts it.
LEMMA UnwrittenStep == ASSUME CInv, NEW r \in Requests, Step(r) PROVE Unwritten'
  <1>1. IInv /\ Unwritten /\ Frame(r)
    BY Others DEF CInv
  <1>2. ASSUME NEW q \in Requests, pc'[q] \in {"idle", "number", "insert"} PROVE records'[q] = NoRow
    <2>1. records[q] = NoRow /\ (q = r => pc[r] # "insert")
      BY <1>1, <1>2, StageMoves DEF Unwritten, Frame
    <2> QED BY <1>1, <2>1, RecordMoves, NullsAssumption DEF Kept, Inserted, ChangedRow
  <1>3. ASSUME NEW q \in Requests, certs'[q] # NoCert PROVE pc'[q] \in {"link", "done", "failed"}
    <2>1. CASE certs[q] # NoCert
      BY <1>1, <2>1, StageMoves DEF Unwritten, Frame
    <2>2. CASE certs[q] = NoCert
      <3>1. \/ certs'[q] = certs[q]
            \/ q = r /\ pc'[r] = "link"
            \/ certs[q] \in Certificates
        BY <1>1, CertMoves
      <3> QED BY <1>3, <2>2, <3>1, NullsAssumption
    <2> QED BY <2>1, <2>2
  <1> QED BY <1>2, <1>3 DEF Unwritten

\* A certificate is there and says what it said.
SameCert(c) ==
  /\ certs'[c] # NoCert
  /\ certs'[c].of = certs[c].of /\ certs'[c].type = certs[c].type /\ certs'[c].serial = certs[c].serial
  /\ certs'[c].parish = certs[c].parish /\ certs'[c].year = certs[c].year
  /\ certs'[c].number = certs[c].number

\* What a certificate says stays, but for the count of its prints.
LEMMA CertFixed ==
  ASSUME CInv, NEW r \in Requests, Step(r), NEW c \in Requests, certs[c] # NoCert
  PROVE  SameCert(c)
  <1>1. IInv /\ ~(c = r /\ pc[r] = "certify")
    BY DEF CInv, Unwritten
  <1>2. CASE certs'[c] = certs[c]
    BY <1>2 DEF SameCert
  <1>3. CASE certs[c] \in Certificates /\ certs'[c] = [certs[c] EXCEPT !.printCount = seen[r] + 1]
    <2>1. certs[c] \in [of: Requests, parish: Parishes, type: Registered, year: Years,
                        number: Numbers, serial: Serials, printCount: Nat]
      BY <1>3 DEF Certificates
    <2>2. certs'[c] \in Certificates
      <3>1. seen[r] + 1 \in Nat
        BY <1>1 DEF IInv, TypeOK
      <3> QED BY <1>3, <3>1, CountedCertificate
    <2>3. certs'[c] # NoCert
      BY <2>2, NullsAssumption
    <2> QED BY <1>3, <2>1, <2>3 DEF SameCert
  <1> QED BY <1>1, <1>2, <1>3, CertMoves

\* A record keeps its type.
LEMMA TypesStay ==
  ASSUME CInv, NEW r \in Requests, Step(r), NEW q \in Requests, records[q] # NoRow
  PROVE  records'[q].type = records[q].type
  <1>1. ~Inserted(r, q) /\ IInv
    BY DEF Inserted, CInv, Unwritten
  <1> QED BY <1>1, RecordMoves DEF Kept, ChangedRow

\* A certificate keeps its record, its serial and its request.
LEMMA CertStep ==
  ASSUME CInv, NEW r \in Requests, Step(r), NEW c \in Requests
  PROVE  CertOK(c)'
  <1>1. IInv /\ Unwritten /\ Frame(r) /\ TablesGrow /\ CertOK(c)
    BY Others DEF CInv
  <1>2. target \in [Requests -> Requests] /\ target' \in [Requests -> Requests]
    BY <1>1, Others DEF IInv, TypeOK
  <1>3. \A q \in Requests : records[q] # NoRow /\ records[q].cert # NoCert => records'[q].cert # NoCert
    <2> SUFFICES ASSUME NEW q \in Requests, records[q] # NoRow, records[q].cert # NoCert
                 PROVE  records'[q].cert # NoCert
      OBVIOUS
    <2>1. Kept(r, q) \/ Inserted(r, q) \/ ChangedRow(r, q)
      BY <1>1, RecordMoves
    <2>2. ~Inserted(r, q)
      BY <1>1 DEF Inserted, Unwritten
    <2> QED BY <2>1, <2>2, NullsAssumption DEF Kept, ChangedRow
  <1>4. CASE certs[c] = NoCert /\ certs'[c] # NoCert
    <2>1. c = r /\ pc[r] = "certify" /\ pc'[r] = "link" /\ certs'[r] = NewCert(r) /\ target' = target
      BY <1>1, <1>4, CertMoves, NullsAssumption
    <2>2. target[r] \in Requests /\ records[target[r]] # NoRow /\ records'[target[r]] # NoRow
      BY <1>1, <1>2, <2>1 DEF IInv, StageOK, RequestOK, TablesGrow
    <2>3. /\ row[r].type = "MARRIAGE" => serial[r] = MarriageSerial(row[r])
          /\ row[r].type = records'[target[r]].type
      BY <2>1, <2>2, TypesStay DEF CInv, SerialOK
    <2>4. /\ certs'[c].of = target[r] /\ certs'[c].type = row[r].type /\ certs'[c].serial = serial[r]
          /\ MarriageSerial(certs'[c]) = MarriageSerial(row[r])
      BY <2>1 DEF NewCert, MarriageSerial
    <2> QED BY <2>1, <2>2, <2>3, <2>4 DEF CertOK
  <1>5. CASE certs[c] # NoCert
    <2>1. SameCert(c)
      BY <1>5, CertFixed
    <2>2. certs[c].of \in Requests /\ records[certs[c].of] # NoRow /\ records'[certs[c].of] # NoRow
      BY <1>1, <1>5 DEF CertOK, TablesGrow
    <2>6. certs[c].type = records'[certs[c].of].type
      BY <1>1, <1>5, <2>2, TypesStay DEF CertOK
    <2>3. pc'[c] = "link" => certs[c].of = target'[c]
      BY <1>1, <1>5, StageMoves DEF CertOK, Unwritten, Frame
    <2>4. pc'[c] = "done" => records'[certs[c].of].cert # NoCert
      <3>1. CASE pc[c] = "done"
        BY <1>1, <1>3, <1>5, <2>2, <3>1 DEF CertOK
      <3>2. CASE pc[c] # "done" /\ pc'[c] = "done"
        <4>1. c = r /\ pc[r] \in {"link", "failed"}
          BY <1>1, <1>5, <3>2 DEF Unwritten, Frame
        <4>2. LinkCertificate(r)
          BY <1>1, <3>2, <4>1, StageMoves
        <4>3. certs[r].of = target[r]
          BY <1>1, <1>5, <4>1, <4>2 DEF CertOK, LinkCertificate
        <4>4. records[target[r]] \in Rows /\ records' = [records EXCEPT ![target[r]].cert = r]
          BY <1>1, <4>2, Held DEF LinkCertificate
        <4>5. records'[target[r]].cert = r
          BY <1>1, <1>2, <4>4 DEF IInv, TypeOK, Rows
        <4> QED BY <4>1, <4>3, <4>5, NullsAssumption
      <3> QED BY <3>1, <3>2
    <2>5. MarriageSerial(certs'[c]) = MarriageSerial(certs[c])
      BY <2>1 DEF MarriageSerial, SameCert
    <2> QED BY <1>1, <1>5, <2>1, <2>2, <2>3, <2>4, <2>5, <2>6 DEF CertOK, SameCert
  <1>6. CASE certs'[c] = NoCert
    BY <1>6 DEF CertOK
  <1> QED BY <1>4, <1>5, <1>6

\* A record points to a certificate of its own.
LEMMA PointerStep ==
  ASSUME CInv, NEW r \in Requests, Step(r), NEW q \in Requests
  PROVE  PointerOK(q)'
  <1> SUFFICES ASSUME records'[q] # NoRow, records'[q].cert # NoCert
               PROVE  certs'[records'[q].cert] # NoCert /\ certs'[records'[q].cert].of = q
    BY DEF PointerOK
  <1>1. IInv /\ PointerOK(q) /\ records \in [Requests -> Rows \cup {NoRow}]
    BY DEF CInv, IInv, TypeOK
  <1>2. ASSUME NEW c \in Requests, certs[c] # NoCert, certs[c].of = q, records'[q].cert = c
        PROVE  certs'[records'[q].cert] # NoCert /\ certs'[records'[q].cert].of = q
    BY <1>2, CertFixed DEF SameCert
  <1>3. CASE records[q] \in Rows /\ records'[q].cert = records[q].cert
    <2>1. records[q].cert \in Requests /\ certs[records[q].cert] # NoCert /\ certs[records[q].cert].of = q
      BY <1>1, <1>3, NullsAssumption DEF PointerOK, Rows
    <2> QED BY <1>2, <1>3, <2>1
  <1>4. CASE pc[r] = "link" /\ q = target[r] /\ records'[q].cert = r
    <2>1. certs[r] # NoCert
      BY <1>1, <1>4 DEF IInv, StageOK, RequestOK
    <2>2. certs[r].of = q
      BY <1>4, <2>1 DEF CInv, CertOK
    <2> QED BY <1>2, <1>4, <2>1, <2>2
  <1>5. CASE Kept(r, q)
    BY <1>1, <1>3, <1>5 DEF Kept
  <1>6. CASE Inserted(r, q)
    BY <1>1, <1>6 DEF Inserted, IInv, StageOK, RequestOK
  <1>7. CASE ChangedRow(r, q)
    BY <1>3, <1>4, <1>7 DEF ChangedRow
  <1> QED BY <1>1, <1>5, <1>6, <1>7, RecordMoves

\* The unique index keeps the serials of one kind apart.
LEMMA SerialsStep ==
  ASSUME CInv, NEW r \in Requests, Step(r)
  PROVE  SerialsUnique' /\ \A q \in Requests : SerialOK(q)'
  <1>1. IInv /\ Frame(r) /\ Unwritten
    BY Others DEF CInv
  <1>2. \A c \in Requests : certs[c] # NoCert => SameCert(c)
    BY CertFixed
  <1>3. \A c \in Requests : certs[c] = NoCert /\ certs'[c] # NoCert =>
          /\ c = r /\ certs'[c] = NewCert(r)
          /\ ~SerialTaken(row[r].parish, row[r].type, serial[r])
    BY <1>1, CertMoves, NullsAssumption
  <1>4. ASSUME NEW c \in Requests, certs[c] = NoCert, certs'[c] # NoCert,
               NEW d \in Requests, c # d, certs'[d] # NoCert,
               certs'[c].parish = certs'[d].parish, certs'[c].type = certs'[d].type
        PROVE  certs'[c].serial # certs'[d].serial
    <2>1. certs'[c] = NewCert(r) /\ ~SerialTaken(row[r].parish, row[r].type, serial[r])
      BY <1>3, <1>4
    <2>2. certs'[c].parish = row[r].parish /\ certs'[c].type = row[r].type /\ certs'[c].serial = serial[r]
      BY <2>1 DEF NewCert
    <2>3. certs[d] # NoCert
      BY <1>3, <1>4
    <2>4. SameCert(d)
      BY <1>2, <2>3
    <2> QED BY <1>4, <2>1, <2>2, <2>3, <2>4 DEF SameCert, SerialTaken, CertsOf
  <1>5. SerialsUnique'
    <2> SUFFICES ASSUME NEW c \in Requests, NEW d \in Requests, c # d, certs'[c] # NoCert, certs'[d] # NoCert,
                        certs'[c].parish = certs'[d].parish, certs'[c].type = certs'[d].type
                 PROVE  certs'[c].serial # certs'[d].serial
      BY DEF SerialsUnique
    <2>1. CASE certs[c] = NoCert
      BY <1>4, <2>1
    <2>2. CASE certs[d] = NoCert
      <3>1. certs'[d].serial # certs'[c].serial
        BY <1>4, <2>2
      <3> QED BY <3>1
    <2>3. CASE certs[c] # NoCert /\ certs[d] # NoCert
      BY <1>2, <2>3 DEF SameCert, CInv, SerialsUnique
    <2> QED BY <2>1, <2>2, <2>3
  <1>6. ASSUME NEW q \in Requests PROVE SerialOK(q)'
    <2>1. CASE q # r
      <3>1. pc[q] \in {"serial", "certify"} => records'[target[q]].type = records[target[q]].type
        <4>1. pc[q] \in {"serial", "certify"} => target[q] \in Requests /\ records[target[q]] # NoRow
          BY <1>1 DEF IInv, TypeOK, StageOK, RequestOK
        <4> QED BY <4>1, TypesStay
      <3> QED BY <1>1, <2>1, <3>1 DEF CInv, SerialOK, Frame
    <2>3. CASE q = r /\ pc'[r] = "serial"
      <3>1. FindRecord(r)
        BY <1>1, <2>3, StageMoves
      <3>2. row' = [row EXCEPT ![r] = records[target[r]]] /\ records' = records /\ target' = target
        BY <1>1, <2>3, <3>1 DEF FindRecord, tables, Goto, IInv, TypeOK
      <3>3. row'[r] = records[target[r]]
        BY <1>1, <3>2 DEF IInv, TypeOK
      <3> QED BY <2>3, <3>2, <3>3 DEF SerialOK
    <2>2. CASE q = r /\ pc'[r] = "certify"
      <3>1. ChooseSerial(r)
        BY <1>1, <2>2, StageMoves
      <3>2. PICK s \in NextCertSerials(row[r]) : serial' = [serial EXCEPT ![r] = s]
        BY <3>1 DEF ChooseSerial
      <3>3. serial'[r] = s /\ row' = row /\ records' = records /\ target' = target /\ pc[r] = "serial"
        BY <1>1, <3>1, <3>2 DEF IInv, TypeOK, ChooseSerial, tables
      <3>4. row[r].type = "MARRIAGE" => s = MarriageSerial(row[r])
        BY <3>2 DEF NextCertSerials, MarriageSerial
      <3> QED BY <2>2, <3>3, <3>4 DEF CInv, SerialOK, MarriageSerial
    <2> QED BY <2>1, <2>2, <2>3 DEF SerialOK
  <1> QED BY <1>5, <1>6

\* The invariant of the certificates is inductive.
LEMMA CertInvStep == CInv /\ [Next]_vars => CInv'
  <1> SUFFICES ASSUME CInv, [Next]_vars PROVE CInv'
    OBVIOUS
  <1>1. CASE UNCHANGED vars
    <2>1. IInv'
      BY NextStep DEF CInv
    <2> QED BY <1>1, <2>1 DEF CInv, Unwritten, SerialsUnique, CertOK, PointerOK, SerialOK, MarriageSerial,
       MarriageSequence, vars, tables, locals
  <1>2. CASE Next
    <2>1. PICK r \in Requests : Step(r)
      BY <1>2 DEF Next, Step
    <2> QED BY <2>1, Others, UnwrittenStep, CertStep, PointerStep, SerialsStep DEF CInv
  <1> QED BY <1>1, <1>2

\* The invariant of the certificates holds always.
LEMMA CertInv == Spec => []CInv
  <1>1. Init => CInv
    BY InitIInv DEF Init, CInv, Unwritten, SerialsUnique, CertOK, PointerOK, SerialOK
  <1> QED BY <1>1, CertInvStep, PTL DEF Spec

\* The certificate a record points to is its own, and a certificate whose request went to its
\* end has a record that points to one, for any number of overlapping issues.
THEOREM CertificatesLinked == Spec => []CertificateLinks
  <1>1. CInv => CertificateLinks
    BY DEF CInv, CertOK, PointerOK, CertificateLinks
  <1> QED BY <1>1, CertInv, PTL

\* Two issues of one marriage make two certificates only if it was renumbered between.
THEOREM MarriagesCertifiedOnce == Spec => []OneMarriageCertificate
  <1>1. CInv => OneMarriageCertificate
    <2> SUFFICES ASSUME CInv, NEW c \in Requests, NEW d \in Requests,
                        c # d, certs[c] # NoCert, certs[d] # NoCert, certs[c].of = certs[d].of,
                        certs[c].type = "MARRIAGE", certs[c].parish = certs[d].parish
                 PROVE  <<certs[c].year, MarriageSequence(certs[c].number)>>
                          # <<certs[d].year, MarriageSequence(certs[d].number)>>
      BY DEF OneMarriageCertificate
    <2>1. certs[d].type = "MARRIAGE"
      BY DEF CInv, CertOK
    <2>2. certs[c].serial = MarriageSerial(certs[c]) /\ certs[d].serial = MarriageSerial(certs[d])
      BY <2>1 DEF CInv, CertOK
    <2>3. MarriageSerial(certs[c]) # MarriageSerial(certs[d])
      BY <2>1, <2>2 DEF CInv, SerialsUnique
    <2> QED BY <2>3 DEF MarriageSerial
  <1> QED BY <1>1, CertInv, PTL

\* No step of any request restores a deleted record or takes a certificate off a record,
\* whatever it read before.
THEOREM NothingIsUndone == Spec => NothingUndone
  <1> DEFINE Stays == \A q \in Requests : records[q] # NoRow =>
       /\ records'[q] # NoRow
       /\ records[q].deletedAt = "set" => records'[q].deletedAt = "set"
       /\ records[q].cert # NoCert => records'[q].cert # NoCert
  <1>1. CInv /\ [Next]_vars => [Stays]_vars
    <2> SUFFICES ASSUME CInv, NEW r \in Requests, Step(r), NEW q \in Requests, records[q] # NoRow
                 PROVE  /\ records'[q] # NoRow
                        /\ records[q].deletedAt = "set" => records'[q].deletedAt = "set"
                        /\ records[q].cert # NoCert => records'[q].cert # NoCert
      BY DEF Next, Step
    <2>1. Kept(r, q) \/ Inserted(r, q) \/ ChangedRow(r, q)
      BY RecordMoves DEF CInv
    <2>2. ~Inserted(r, q)
      BY DEF Inserted, CInv, Unwritten
    <2> QED BY <2>1, <2>2, NullsAssumption DEF Kept, ChangedRow
  <1>2. Stays <=> \A q \in Requests : records[q] # NoRow =>
          /\ records'[q] # NoRow
          /\ records[q].deletedAt = "set" => records'[q].deletedAt = "set"
          /\ records[q].cert # NoCert => records'[q].cert # NoCert
    OBVIOUS
  <1> HIDE DEF Stays
  <1> QED BY <1>1, <1>2, CertInv, PTL DEF Spec, NothingUndone

\* A print is begun by StartPrint and logged by LogPrint, and nothing else logs one.
LEMMA PrintMoves ==
  ASSUME IInv, NEW r \in Requests, Step(r)
  PROVE  /\ pc'[r] = "log" => StartPrint(r)
         /\ pc'[r] = "printed" => LogPrint(r)
         /\ prints' = prints \/ LogPrint(r)
  <1> USE DEF IInv, TypeOK, Goto, tables
  <1>1. CASE StartCreate(r) \/ ChooseNumber(r) \/ MarkDeceased(r) \/ LinkSpouses(r) \/ MarkMarried(r)
             \/ CountEntries(r)
    BY <1>1 DEF StartCreate, Receive, ChooseNumber, MarkDeceased, LinkSpouses, MarkMarried, CountEntries
  <1>2. CASE InsertRecord(r)
    BY <1>2 DEF InsertRecord, AfterInsert
  <1>3. CASE AppendEntry(r)
    <2>1. pc'[r] \in {"failed", "find", "done"} /\ prints' = prints
      BY <1>3 DEF AppendEntry
    <2> QED BY <2>1
  <1>4. CASE Issue(r)
    <2>1. CASE StartIssue(r) \/ FindRecord(r) \/ ChooseSerial(r) \/ LinkCertificate(r)
      BY <2>1 DEF StartIssue, FindRecord, ChooseSerial, LinkCertificate
    <2>2. CASE InsertCertificate(r)
      <3>1. pc'[r] \in {"failed", "link"} /\ prints' = prints
        BY <2>2 DEF InsertCertificate
      <3> QED BY <3>1
    <2> QED BY <1>4, <2>1, <2>2 DEF Issue
  <1>5. CASE StartUpdate(r)
    BY <1>5 DEF StartUpdate
  <1>6. CASE UpdateRecord(r)
    <2>1. pc'[r] \in {"failed", "spouse", "find", "done"} /\ prints' = prints
      BY <1>6 DEF UpdateRecord
    <2> QED BY <2>1
  <1>7. CASE Delete(r) \/ PrintCertificate(r) \/ Abort(r)
    BY <1>7 DEF Delete, StartDelete, DeleteRecord, PrintCertificate, StartPrint, LogPrint,
                SetPrintCount, Abort
  <1> HIDE DEF IInv, TypeOK, Goto, tables
  <1> QED BY <1>1, <1>2, <1>3, <1>4, <1>5, <1>6, <1>7 DEF Step, Create, Update

\* A log of prints has one numbered k.
InLog(log, k) == \E i \in 1..Len(log) : log[i] = k

\* The count a print was numbered from is in the log, and then the print is.
PrintOK(r) ==
  /\ pc[r] = "log" => seen[r] = 0 \/ InLog(prints[row[r].cert], seen[r])
  /\ pc[r] = "printed" => InLog(prints[row[r].cert], seen[r] + 1)

\* The two halves of PrintsGapFree, for one certificate.
Counted(c) == certs[c] # NoCert /\ certs[c].printCount > 0 => InLog(prints[c], certs[c].printCount)
Preceded(c) ==
  \A i \in 1..Len(prints[c]) :
    prints[c][i] = 1 \/ \E j \in 1..(i - 1) : prints[c][j] = prints[c][i] - 1

\* The invariant of the prints.
PInv == CInv /\ \A c \in Requests : PrintOK(c) /\ Counted(c) /\ Preceded(c)

\* Appending a print keeps the log in order.
LEMMA LogPrintOrder ==
  ASSUME PInv, NEW r \in Requests, Step(r), LogPrint(r)
  PROVE  /\ \A c \in Requests : Preceded(c)'
         /\ \A c \in Requests, k \in Nat : InLog(prints[c], k) => InLog(prints'[c], k)
         /\ PrintOK(r)'
  <1> DEFINE d == row[r].cert  n == seen[r]
  <1>1. /\ d \in Requests /\ n \in Nat /\ prints \in [Requests -> Seq(Nat)]
        /\ n = 0 \/ InLog(prints[d], n)
    BY Held DEF PInv, CInv, IInv, TypeOK, LogPrint, PrintOK
  <1>2. prints' = [prints EXCEPT ![d] = Append(prints[d], n + 1)]
    BY DEF LogPrint
  <1> HIDE DEF d, n
  <1>3. /\ prints'[d] = Append(prints[d], n + 1) /\ prints[d] \in Seq(Nat) /\ Len(prints[d]) \in Nat
        /\ \A c \in Requests \ {d} : prints'[c] = prints[c]
    BY <1>1, <1>2
  <1>4. /\ Len(prints'[d]) = Len(prints[d]) + 1 /\ prints'[d][Len(prints[d]) + 1] = n + 1
        /\ \A i \in 1..Len(prints[d]) : prints'[d][i] = prints[d][i]
    BY <1>1, <1>3
  <1>5. ASSUME NEW c \in Requests, NEW k \in Nat, InLog(prints[c], k) PROVE InLog(prints'[c], k)
    <2>1. CASE c # d
      BY <1>3, <1>5, <2>1 DEF InLog
    <2>2. CASE c = d
      <3>1. PICK i \in 1..Len(prints[d]) : prints[d][i] = k
        BY <1>5, <2>2 DEF InLog
      <3>2. i \in 1..Len(prints'[d]) /\ prints'[d][i] = k
        BY <1>3, <1>4, <3>1
      <3> QED BY <2>2, <3>2 DEF InLog
    <2> QED BY <2>1, <2>2
  <1>6. ASSUME NEW c \in Requests PROVE Preceded(c)'
    <2>1. CASE c # d
      BY <1>3, <2>1 DEF Preceded, PInv
    <2>2. CASE c = d
      <3> SUFFICES ASSUME NEW i \in 1..Len(prints'[d])
                   PROVE  prints'[d][i] = 1 \/ \E j \in 1..(i - 1) : prints'[d][j] = prints'[d][i] - 1
        BY <2>2 DEF Preceded
      <3>1. CASE i \in 1..Len(prints[d])
        <4>1. prints[d][i] = 1 \/ \E j \in 1..(i - 1) : prints[d][j] = prints[d][i] - 1
          BY <1>1, <3>1 DEF Preceded, PInv
        <4>2. \A j \in 1..(i - 1) : j \in 1..Len(prints[d])
          BY <1>3, <3>1
        <4> QED BY <1>4, <3>1, <4>1, <4>2
      <3>2. CASE i = Len(prints[d]) + 1
        <4>1. prints'[d][i] = n + 1
          BY <1>4, <3>2
        <4>2. CASE n = 0
          BY <4>1, <4>2
        <4>3. CASE InLog(prints[d], n)
          <5>1. PICK j \in 1..Len(prints[d]) : prints[d][j] = n
            BY <4>3 DEF InLog
          <5>2. j \in 1..(i - 1) /\ prints'[d][j] = n
            BY <1>3, <1>4, <3>2, <5>1
          <5>3. prints'[d][i] - 1 = n
            BY <1>1, <4>1
          <5> QED BY <5>2, <5>3
        <4> QED BY <1>1, <4>2, <4>3
      <3> QED BY <1>3, <1>4, <3>1, <3>2
    <2> QED BY <2>1, <2>2
  <1>7. PrintOK(r)'
    <2>1. pc'[r] = "printed" /\ row'[r] = row[r] /\ seen'[r] = n
      BY DEF LogPrint, Goto, locals, PInv, CInv, IInv, TypeOK, n
    <2>2. InLog(prints'[d], n + 1)
      BY <1>3, <1>4 DEF InLog
    <2> QED BY <2>1, <2>2 DEF PrintOK, d
  <1> QED BY <1>5, <1>6, <1>7

\* The invariant of the prints is inductive.
LEMMA PrintStep ==
  ASSUME PInv, NEW r \in Requests, Step(r)
  PROVE  \A c \in Requests : PrintOK(c)' /\ Counted(c)' /\ Preceded(c)'
  <1>1. IInv /\ IInv' /\ Frame(r) /\ CInv
    BY Others DEF PInv, CInv
  <1>2. prints' = prints \/ LogPrint(r)
    BY <1>1, PrintMoves
  <1>3. \A c \in Requests, k \in Nat : InLog(prints[c], k) => InLog(prints'[c], k)
    <2>1. CASE prints' = prints
      BY <2>1 DEF InLog
    <2> QED BY <1>2, <2>1, LogPrintOrder
  <1>4. \A c \in Requests : Preceded(c)'
    <2>1. CASE prints' = prints
      BY <2>1 DEF Preceded, PInv
    <2> QED BY <1>2, <2>1, LogPrintOrder
  <1>5. ASSUME NEW c \in Requests PROVE Counted(c)'
    <2> SUFFICES ASSUME certs'[c] # NoCert, certs'[c].printCount > 0
                 PROVE  InLog(prints'[c], certs'[c].printCount)
      BY DEF Counted
    <2>1. CASE certs'[c] = certs[c]
      <3>1. certs[c] \in Certificates /\ certs[c].printCount \in Nat
        BY <1>1, <2>1 DEF IInv, TypeOK, Certificates
      <3>2. InLog(prints[c], certs[c].printCount)
        BY <2>1 DEF PInv, Counted
      <3>3. InLog(prints'[c], certs[c].printCount)
        BY <1>3, <3>1, <3>2
      <3> QED BY <2>1, <3>3 DEF InLog
    <2>2. CASE certs'[c] = NewCert(r)
      BY <2>2 DEF NewCert
    <2>3. CASE /\ c = row[r].cert /\ pc[r] = "printed" /\ certs[c] \in Certificates
               /\ certs'[c] = [certs[c] EXCEPT !.printCount = seen[r] + 1]
      <3>1. certs'[c].printCount = seen[r] + 1 /\ seen[r] + 1 \in Nat
        BY <1>1, <2>3 DEF Certificates, IInv, TypeOK
      <3>2. InLog(prints[c], seen[r] + 1)
        BY <2>3 DEF PInv, PrintOK
      <3> QED BY <1>3, <3>1, <3>2 DEF InLog
    <2> QED BY <1>1, <2>1, <2>2, <2>3, CertMoves
  <1>6. ASSUME NEW c \in Requests PROVE PrintOK(c)'
    <2>1. CASE c # r
      <3>1. pc'[c] = pc[c] /\ row'[c] = row[c] /\ seen'[c] = seen[c] /\ seen[c] \in Nat
        BY <1>1, <2>1 DEF Frame, IInv, TypeOK
      <3>2. pc[c] \in {"log", "printed"} => row[c].cert \in Requests
        BY <1>1, Held
      <3>3. PrintOK(c) /\ seen[c] + 1 \in Nat
        BY <3>1 DEF PInv
      <3>4. pc[c] = "log" => seen[c] = 0 \/ InLog(prints'[row[c].cert], seen[c])
        BY <1>3, <3>1, <3>2, <3>3 DEF PrintOK
      <3>5. pc[c] = "printed" => InLog(prints'[row[c].cert], seen[c] + 1)
        BY <1>3, <3>2, <3>3 DEF PrintOK
      <3> QED BY <3>1, <3>4, <3>5 DEF PrintOK
    <2>2. CASE c = r /\ pc'[r] = "log"
      <3>1. StartPrint(r) /\ prints' = prints /\ pc'[r] # "printed"
        BY <1>1, <2>2, PrintMoves DEF StartPrint, tables
      <3>2. PICK q \in Requests : /\ Live(q) /\ records[q].cert # NoCert
                                  /\ row' = [row EXCEPT ![r] = records[q]]
                                  /\ seen' = [seen EXCEPT ![r] = certs[records[q].cert].printCount]
        BY <3>1 DEF StartPrint
      <3>3. row'[r] = records[q] /\ seen'[r] = certs[records[q].cert].printCount
        BY <1>1, <3>2 DEF IInv, TypeOK
      <3>4. records[q].cert \in Requests /\ certs[records[q].cert] \in Certificates
        BY <1>1, <3>2, RowFields DEF IInv, TypeOK, StageOK, RowsOK, Live
      <3>5. certs[records[q].cert].printCount \in Nat /\ certs[records[q].cert] # NoCert
        BY <3>4, NullsAssumption DEF Certificates
      <3>6. seen'[r] = 0 \/ InLog(prints[records[q].cert], seen'[r])
        BY <3>3, <3>4, <3>5 DEF PInv, Counted
      <3> QED BY <2>2, <3>1, <3>3, <3>6 DEF PrintOK, InLog
    <2>3. CASE c = r /\ pc'[r] = "printed"
      BY <1>1, <2>3, PrintMoves, LogPrintOrder
    <2> QED BY <2>1, <2>2, <2>3 DEF PrintOK
  <1> QED BY <1>4, <1>5, <1>6

\* A print is logged before it is counted: the count of a certificate is the number of a print
\* in its log, and each print but an original has its predecessor before it, for any number
\* of overlapping prints (recordCertificatePrint, 1143-1166).
THEOREM PrintsWithoutGap == Spec => []PrintsGapFree
  <1>1. Init => PInv
    <2>1. Init => CInv
      BY InitIInv DEF Init, CInv, Unwritten, SerialsUnique, CertOK, PointerOK, SerialOK
    <2> QED BY <2>1 DEF Init, PInv, PrintOK, Counted, Preceded
  <1>2. PInv /\ [Next]_vars => PInv'
    <2> SUFFICES ASSUME PInv, [Next]_vars PROVE PInv'
      OBVIOUS
    <2>1. CInv'
      BY CertInvStep DEF PInv
    <2>2. CASE UNCHANGED vars
      BY <2>1, <2>2 DEF PInv, PrintOK, Counted, Preceded, InLog, vars, tables, locals
    <2>3. CASE Next
      <3>1. PICK r \in Requests : Step(r)
        BY <2>3 DEF Next, Step
      <3> QED BY <2>1, <3>1, PrintStep DEF PInv
    <2> QED BY <2>2, <2>3
  <1>3. PInv => PrintsGapFree
    BY DEF PInv, Counted, Preceded, InLog, PrintsGapFree
  <1> QED BY <1>1, <1>2, <1>3, PTL DEF Spec

\* The stages of a request that has its line, if it asked for one.
PastAppend == {"find", "serial", "certify", "link", "done", "failed"}

\* A request that has a line has passed the append for good.
LinesOnce == \A s \in Series : \A i \in 1..Len(books[s]) : pc[books[s][i].of] \in PastAppend

\* From the stages past the append there is no way back.
LEMMA PastMoves ==
  ASSUME IInv, NEW r \in Requests, Step(r), pc[r] \in PastAppend
  PROVE  pc'[r] \in PastAppend
  <1> USE DEF IInv, TypeOK, Goto, PastAppend
  <1>1. CASE Create(r) \/ Update(r) \/ Delete(r) \/ PrintCertificate(r)
    BY <1>1 DEF Create, StartCreate, ChooseNumber, InsertRecord, MarkDeceased, LinkSpouses, MarkMarried,
       CountEntries, AppendEntry, Update, StartUpdate, UpdateRecord, Delete, StartDelete, DeleteRecord,
       PrintCertificate, StartPrint, LogPrint, SetPrintCount
  <1>2. CASE Issue(r)
    <2>1. CASE StartIssue(r) \/ FindRecord(r) \/ ChooseSerial(r) \/ LinkCertificate(r)
      BY <2>1 DEF StartIssue, FindRecord, ChooseSerial, LinkCertificate
    <2>2. CASE InsertCertificate(r)
      <3>1. pc'[r] \in {"failed", "link"}
        BY <2>2 DEF InsertCertificate
      <3> QED BY <3>1
    <2> QED BY <1>2, <2>1, <2>2 DEF Issue
  <1>3. CASE Abort(r)
    BY <1>3 DEF Abort
  <1> QED BY <1>1, <1>2, <1>3 DEF Step

\* What a reader of the pages of every book sees.
PagesRead == [s \in Series |-> [k \in 1..Len(books[s]) |-> ReadLine(s, k)]]

\* A reader finds the k-th entry on the k-th line.
ReadsEntries == \A s \in Series : \A k \in 1..Len(books[s]) : ReadLine(s, k) = books[s][k].of

\* The line of a book at slot k is that of its k-th entry.
LEMMA ReadsEntry ==
  ASSUME LInv, NEW s \in Series, NEW k \in 1..Len(books[s])
  PROVE  ReadLine(s, k) = books[s][k].of
  <1> DEFINE there == {i \in 1..Len(books[s]) : /\ books[s][i].page = PageOf(k - 1)
                                               /\ books[s][i].line = LineOf(k - 1)}
  <1>1. Len(books[s]) \in Nat
    BY DEF LInv, IInv, TypeOK
  <1>2. k \in there
    BY DEF LInv, PagesDense
  <1>3. ASSUME NEW i \in there PROVE i = k
    <2>1. books[s][i].page = PageOf(i - 1) /\ books[s][i].line = LineOf(i - 1)
      BY DEF LInv, PagesDense
    <2>2. i - 1 \in Nat /\ k - 1 \in Nat /\ PageOf(i - 1) = PageOf(k - 1) /\ LineOf(i - 1) = LineOf(k - 1)
      BY <1>1, <2>1
    <2>3. i - 1 = k - 1
      BY <2>2, SlotsDiffer
    <2> QED BY <1>1, <2>3
  <1>4. there = {k}
    BY <1>2, <1>3
  <1> HIDE DEF there
  <1>5. Cardinality(there) = 1 /\ (CHOOSE i \in there : TRUE) = k
    BY <1>4, FS_Singleton
  <1>6. ReadLine(s, k) = IF Cardinality(there) = 1 THEN books[s][CHOOSE i \in there : TRUE].of ELSE NoRow
    BY DEF ReadLine, there
  <1> QED BY <1>5, <1>6

\* A create that appends, appends one entry, its own.
LEMMA AppendMoves ==
  ASSUME LInv, NEW r \in Requests, Step(r)
  PROVE  \/ books' = books
         \/ \E s \in Series, e \in Entries :
              /\ e.of = r /\ pc[r] = "append" /\ pc'[r] \in PastAppend
              /\ books' = [books EXCEPT ![s] = Append(books[s], e)]
  <1>1. CASE ~CountEntries(r) /\ ~AppendEntry(r)
    BY <1>1, QuietSteps DEF LInv, Step, Create
  <1>2. CASE CountEntries(r)
    BY <1>2 DEF CountEntries, tables
  <1>3. CASE AppendEntry(r)
    <2> DEFINE s == SeriesOf(row[r])
               e == [of |-> r, page |-> PageOf(seen[r]), line |-> LineOf(seen[r])]
    <2>1. s \in Series /\ seen[r] \in Nat /\ pc \in [Requests -> Stages \cup {"idle", "done", "failed"}]
      BY <1>3, Held, RowFields DEF LInv, AppendEntry, HoldsRow, IInv, TypeOK
    <2>2. e \in Entries /\ e.of = r
      <3>1. PageOf(seen[r]) \in Nat /\ LineOf(seen[r]) \in Nat
        BY <2>1, Slots
      <3> QED BY <3>1 DEF Entries
    <2>3. books' = books \/ (/\ books' = [books EXCEPT ![s] = Append(books[s], e)]
                             /\ pc'[r] \in {"find", "done"})
      BY <1>3, <2>1 DEF AppendEntry, Goto
    <2>4. pc[r] = "append"
      BY <1>3 DEF AppendEntry
    <2> HIDE DEF s, e
    <2> QED BY <2>1, <2>2, <2>3, <2>4 DEF PastAppend
  <1> QED BY <1>1, <1>2, <1>3

\* The invariant of the paper register.
RInv == LInv /\ LinesOnce

\* No request appends a second line.
LEMMA OnceStep ==
  ASSUME RInv, NEW r \in Requests, Step(r)
  PROVE  LinesOnce'
  <1>1. IInv /\ Frame(r) /\ books \in [Series -> Seq(Entries)]
    BY Others DEF RInv, LInv, IInv, TypeOK
  <1>2. \A q \in Requests : pc[q] \in PastAppend => pc'[q] \in PastAppend
    BY <1>1, PastMoves DEF Frame
  <1>3. \A s \in Series : \A i \in 1..Len(books[s]) : books[s][i].of \in Requests
    <2> SUFFICES ASSUME NEW s \in Series, NEW i \in 1..Len(books[s]) PROVE books[s][i].of \in Requests
      OBVIOUS
    <2>1. books[s] \in Seq(Entries)
      BY <1>1
    <2>2. books[s][i] \in Entries
      BY <2>1
    <2> QED BY <2>2 DEF Entries
  <1>4. CASE books' = books
    BY <1>2, <1>3, <1>4 DEF RInv, LinesOnce
  <1>5. ASSUME NEW s \in Series, NEW e \in Entries, e.of = r, pc'[r] \in PastAppend,
               books' = [books EXCEPT ![s] = Append(books[s], e)]
        PROVE  LinesOnce'
    <2> SUFFICES ASSUME NEW t \in Series, NEW i \in 1..Len(books'[t])
                 PROVE  pc'[books'[t][i].of] \in PastAppend
      BY DEF LinesOnce
    <2>1. CASE t # s
      BY <1>1, <1>2, <1>3, <1>5, <2>1 DEF RInv, LinesOnce
    <2>2. CASE t = s
      <3>1. books'[s] = Append(books[s], e) /\ books[s] \in Seq(Entries)
        BY <1>1, <1>5
      <3>2. CASE i = Len(books[s]) + 1
        BY <1>5, <2>2, <3>1, <3>2
      <3>3. CASE i \in 1..Len(books[s])
        <4>1. books'[s][i] = books[s][i]
          BY <3>1, <3>3
        <4> QED BY <1>2, <1>3, <2>2, <3>3, <4>1 DEF RInv, LinesOnce
      <3>4. i \in 1..Len(books[s]) \/ i = Len(books[s]) + 1
        BY <2>2, <3>1
      <3> QED BY <3>2, <3>3, <3>4
    <2> QED BY <2>1, <2>2
  <1> QED BY <1>4, <1>5, AppendMoves DEF RInv

\* A step of the register is a line written on paper, or writes none.
LEMMA PaperStep ==
  ASSUME RInv, ReadsEntries, ReadsEntries', NEW r \in Requests, Step(r)
  PROVE  PagesRead' = PagesRead \/ Paper!Next
  <1>1. books \in [Series -> Seq(Entries)] /\ LInv
    BY DEF RInv, LInv, IInv, TypeOK
  <1>2. PagesRead = [s \in Series |-> [k \in 1..Len(books[s]) |-> books[s][k].of]]
    BY DEF PagesRead, ReadsEntries
  <1>3. PagesRead' = [s \in Series |-> [k \in 1..Len(books'[s]) |-> books'[s][k].of]]
    BY DEF PagesRead, ReadsEntries
  <1>4. CASE books' = books
    BY <1>2, <1>3, <1>4
  <1>5. ASSUME NEW s \in Series, NEW e \in Entries, e.of = r, pc[r] = "append",
               books' = [books EXCEPT ![s] = Append(books[s], e)]
        PROVE  Paper!Next
    <2>1. /\ books'[s] = Append(books[s], e) /\ books[s] \in Seq(Entries) /\ Len(books[s]) \in Nat
          /\ \A t \in Series \ {s} : books'[t] = books[t]
      BY <1>1, <1>5
    <2>2. /\ Len(books'[s]) = Len(books[s]) + 1 /\ books'[s][Len(books[s]) + 1] = e
          /\ \A i \in 1..Len(books[s]) : books'[s][i] = books[s][i]
      BY <2>1
    <2>3. PagesRead[s] = [k \in 1..Len(books[s]) |-> books[s][k].of]
      BY <1>2
    <2>4. PagesRead'[s] = [k \in 1..(Len(books[s]) + 1) |-> IF k = Len(books[s]) + 1 THEN r ELSE books[s][k].of]
      BY <1>3, <1>5, <2>1, <2>2
    <2>5. PagesRead'[s] = Append(PagesRead[s], r)
      BY <2>1, <2>3, <2>4
    <2>6. PagesRead' = [PagesRead EXCEPT ![s] = Append(PagesRead[s], r)]
      BY <1>2, <1>3, <2>1, <2>5
    <2>7. ~\E t \in Series : \E i \in DOMAIN PagesRead[t] : PagesRead[t][i] = r
      <3> SUFFICES ASSUME NEW t \in Series, NEW i \in DOMAIN PagesRead[t], PagesRead[t][i] = r
                   PROVE  FALSE
        OBVIOUS
      <3>1. i \in 1..Len(books[t]) /\ books[t][i].of = r
        BY <1>2
      <3> QED BY <1>5, <3>1 DEF RInv, LinesOnce, PastAppend
    <2> QED BY <2>6, <2>7 DEF Paper!Next, Paper!Write, Paper!Written, PagesRead
  <1> QED BY <1>4, <1>5, AppendMoves DEF RInv

\* The register as it is read through its pages implements the paper register: lines are filled
\* in order, each with a record of its own, and a written line never changes.
THEOREM ImplementsPaper == Spec => ReadsLikePaper
  <1>1. Init => RInv /\ Paper!Init
    <2>1. Init => LInv
      BY InitIInv DEF LInv, Init, PagesDense, CountsInPast
    <2> QED BY <2>1 DEF Init, RInv, LinesOnce, Paper!Init
  <1>2. RInv /\ [Next]_vars => RInv'
    <2> SUFFICES ASSUME RInv, [Next]_vars PROVE RInv'
      OBVIOUS
    <2>1. LInv'
      BY LineStep DEF RInv
    <2>2. CASE UNCHANGED vars
      BY <2>1, <2>2 DEF RInv, LinesOnce, vars, tables
    <2>3. CASE Next
      BY <2>1, <2>3, OnceStep DEF RInv, Next, Step
    <2> QED BY <2>2, <2>3
  <1>4. RInv => ReadsEntries
    BY ReadsEntry DEF RInv, ReadsEntries
  <1>3. RInv /\ ReadsEntries /\ ReadsEntries' /\ [Next]_vars
        => [Paper!Next]_([s \in Series |-> [k \in 1..Len(books[s]) |-> ReadLine(s, k)]])
    <2> SUFFICES ASSUME RInv, ReadsEntries, ReadsEntries', [Next]_vars
                 PROVE  Paper!Next \/ PagesRead' = PagesRead
      BY DEF PagesRead
    <2>1. CASE UNCHANGED vars
      BY <2>1 DEF vars, tables, PagesRead, ReadLine
    <2>2. CASE Next
      BY <2>2, PaperStep DEF Next, Step
    <2> QED BY <2>1, <2>2
  <1> QED BY <1>1, <1>2, <1>3, <1>4, PTL DEF Spec, ReadsLikePaper, Paper!Spec

-----------------------------------------------------------------------------
(* The numbers of a series *)

\* The place a number of the series names.
OwnPlace(s) == IF s[2] = "CONFIRMATION" THEN <<s[1], s[3]>> ELSE NoPlace

\* A number as the register gives it in the series.
OwnNumber(s, num) == num.style = NumberStyle(s) /\ num.place = OwnPlace(s) /\ num.n >= 1

\* Some record of the series has the number k.
Known(s, k) == \E o \in RowsIn(s) : records[o].number.n = k

\* The unique index.
Distinct(s) == \A q, o \in RowsIn(s) : records[o].number = records[q].number => o = q

\* A series nobody numbered by hand has every number up to each of its own.
Dense(s) ==
  s \notin touched => \A q \in RowsIn(s) : /\ OwnNumber(s, records[q].number)
                                           /\ \A k \in 1..records[q].number.n : Known(s, k)

\* A number that was counted, and waits for its insert, is one past known numbers at most.
Pending(r, s) ==
  pc[r] = "insert" /\ body[r].number = NoNumber /\ s = SeriesOf(row[r]) /\ s \notin touched =>
    OwnNumber(s, row[r].number) /\ \A k \in 1..(row[r].number.n - 1) : Known(s, k)

\* The invariant of the numbers.
NInv == CInv /\ \A s \in Series : Distinct(s) /\ Dense(s) /\ \A r \in Requests : Pending(r, s)

\* The number of a record is a number.
LEMMA RowNumbers ==
  ASSUME IInv, NEW q \in Requests, records[q] # NoRow
  PROVE  records[q] \in Rows /\ records[q].number \in Numbers /\ records[q].number.n \in Nat
  <1>1. records[q] \in Rows /\ records[q].number # NoNumber
    BY DEF IInv, TypeOK, StageOK, RowsOK
  <1>2. records[q].number \in Numbers
    BY <1>1, RowFields
  <1> QED BY <1>1, <1>2 DEF Numbers

\* In a series nobody touches, records stay where they are, and a new one was numbered for it.
LEMMA SeriesMoves ==
  ASSUME CInv, NEW r \in Requests, Step(r), NEW s \in Series, s \notin touched', NEW q \in Requests
  PROVE  /\ s \notin touched
         /\ q \in RowsIn(s) => q \in RowsIn(s)' /\ records'[q].number = records[q].number
         /\ q \in RowsIn(s)' => \/ q \in RowsIn(s)
                                \/ /\ q = r /\ pc[r] = "insert" /\ body[r].number = NoNumber
                                   /\ SeriesOf(row[r]) = s /\ records'[q] = row[r]
  <1>1. IInv /\ Unwritten
    BY DEF CInv
  <1>2. CASE Kept(r, q)
    BY <1>2 DEF Kept, RowsIn
  <1>3. CASE Inserted(r, q)
    <2>1. records[q] = NoRow
      BY <1>1, <1>3 DEF Unwritten, Inserted
    <2> QED BY <1>3, <2>1 DEF Inserted, RowsIn
  <1>4. CASE ChangedRow(r, q)
    <2>1. records'[q] # NoRow
      BY <1>4, NullsAssumption DEF ChangedRow
    <2> QED BY <1>4, <2>1, NullsAssumption DEF ChangedRow, RowsIn
  <1> QED BY <1>1, <1>2, <1>3, <1>4, RecordMoves

\* A number that is known stays known.
LEMMA KnownStays ==
  ASSUME CInv, NEW r \in Requests, Step(r), NEW s \in Series, s \notin touched', NEW k, Known(s, k)
  PROVE  Known(s, k)'
  <1>1. PICK o \in RowsIn(s) : records[o].number.n = k
    BY DEF Known
  <1>2. o \in RowsIn(s)' /\ records'[o].number = records[o].number
    BY <1>1, SeriesMoves DEF RowsIn
  <1> QED BY <1>1, <1>2 DEF Known

\* A count of live records is no more than the numbers known: the numbers of a series run from 1
\* and are all different, so one that is missing bounds the records below it.
LEMMA CountKnown ==
  ASSUME NInv, NEW s \in Series, s \notin touched, NEW j \in 1..Cardinality(LiveIn(s))
  PROVE  Known(s, j)
  <1>1. /\ IInv /\ Distinct(s) /\ Dense(s)
        /\ LiveIn(s) \subseteq RowsIn(s) /\ RowsIn(s) \subseteq Requests
    BY DEF NInv, CInv, LiveIn, RowsIn
  <1>2. /\ IsFiniteSet(RowsIn(s)) /\ Cardinality(LiveIn(s)) <= Cardinality(RowsIn(s))
        /\ Cardinality(LiveIn(s)) \in Nat /\ Cardinality(RowsIn(s)) \in Nat
    BY <1>1, RequestsAssumption, FS_Subset, FS_CardinalityType
  <1> SUFFICES ASSUME ~Known(s, j) PROVE FALSE
    OBVIOUS
  <1>3. \A q \in RowsIn(s) : records[q] # NoRow /\ records[q].number \in Numbers /\ records[q].number.n \in Nat
    BY <1>1, RowNumbers DEF RowsIn
  <1>4. \A q \in RowsIn(s) : records[q].number.n \in 1..(j - 1)
    <2> SUFFICES ASSUME NEW q \in RowsIn(s) PROVE records[q].number.n \in 1..(j - 1)
      OBVIOUS
    <2>1. records[q].number.n >= 1 /\ \A k \in 1..records[q].number.n : Known(s, k)
      BY <1>1 DEF Dense, OwnNumber
    <2>2. j \in Nat /\ j >= 1 /\ records[q].number.n \in Nat
      BY <1>2, <1>3
    <2>3. ~(j <= records[q].number.n)
      BY <2>1, <2>2
    <2> QED BY <2>1, <2>2, <2>3
  <1> DEFINE f == [q \in RowsIn(s) |-> records[q].number.n]
  <1>5. \A q, o \in RowsIn(s) : records[q].number.n = records[o].number.n => q = o
    <2> SUFFICES ASSUME NEW q \in RowsIn(s), NEW o \in RowsIn(s), records[q].number.n = records[o].number.n
                 PROVE  q = o
      OBVIOUS
    <2>1. /\ records[q].number.style = records[o].number.style
          /\ records[q].number.place = records[o].number.place
      BY <1>1 DEF Dense, OwnNumber
    <2>2. records[q].number \in Numbers /\ records[o].number \in Numbers
      BY <1>3
    <2>3. records[q].number = records[o].number
      BY <2>1, <2>2 DEF Numbers
    <2> QED BY <1>1, <2>3 DEF Distinct
  <1> PICK m : m = j - 1
    OBVIOUS
  <1>9. m \in Nat /\ m < Cardinality(LiveIn(s))
    BY <1>2
  <1>6. f \in Injection(RowsIn(s), 1..m)
    <2>1. f \in [RowsIn(s) -> 1..m]
      BY <1>4
    <2>2. IsInjective(f)
      BY <1>5 DEF IsInjective
    <2> QED BY <2>1, <2>2 DEF Injection
  <1> HIDE DEF f
  <1>7. IsFiniteSet(1..m) /\ Cardinality(1..m) = m
    <2>1. m \in Int /\ 1 \in Int
      BY <1>9
    <2>2. IsFiniteSet(1..m) /\ Cardinality(1..m) = IF 1 > m THEN 0 ELSE m - 1 + 1
      BY <2>1, FS_Interval
    <2> QED BY <1>9, <2>2
  <1>8. Cardinality(RowsIn(s)) <= m
    <2>1. Cardinality(RowsIn(s)) <= Cardinality(1..m)
      BY <1>6, <1>7, FS_Injection, Zenon
    <2> QED BY <1>7, <2>1
  <1> QED BY <1>2, <1>8, <1>9

\* The number a request chooses is one the register gives, one past known numbers at most.
LEMMA ChoiceKnown ==
  ASSUME NInv, NEW s \in Series, s \notin touched, NEW num \in NextRegisterNumbers(s)
  PROVE  OwnNumber(s, num) /\ \A k \in 1..(num.n - 1) : Known(s, k)
  <1>1. IInv /\ Dense(s) /\ s[1] \in Parishes /\ s[3] \in Years /\ s = <<s[1], s[2], s[3]>>
    BY DEF NInv, CInv, Series
  <1>2. CASE s[2] # "CONFIRMATION"
    <2> DEFINE c == Cardinality(LiveIn(s))
    <2>1. num = Plain(c + 1)
      BY <1>2 DEF NextRegisterNumbers
    <2>2. c \in Nat /\ \A k \in 1..c : Known(s, k)
      BY CountKnown, CountsAreNaturals DEF LiveIn, RowsIn
    <2>3. num.style = "plain" /\ num.place = NoPlace /\ num.n = c + 1
      BY <2>1 DEF Plain
    <2> HIDE DEF c
    <2> QED BY <1>2, <2>2, <2>3 DEF OwnNumber, NumberStyle, OwnPlace
  <1>3. CASE s[2] = "CONFIRMATION"
    <2> DEFINE live == {q \in LiveIn(<<s[1], "CONFIRMATION", s[3]>>) :
                          /\ records[q].number.style = "conf"
                          /\ records[q].number.place = <<s[1], s[3]>>}
               last == {q \in live : \A o \in live : records[o].number.n <= records[q].number.n}
    <2>1. num \in (IF live = {} THEN {Conf(s[1], s[3], 1)}
                  ELSE {Conf(s[1], s[3], records[q].number.n + 1) : q \in last})
      <3>1. num \in ConfirmationSerials(s[1], s[3])
        BY <1>3 DEF NextRegisterNumbers
      <3> QED BY <3>1, Zenon DEF ConfirmationSerials
    <2>2. live \subseteq RowsIn(s)
      BY <1>1, <1>3 DEF LiveIn
    <2> HIDE DEF live
    <2>3. num = Conf(s[1], s[3], 1) \/ \E q \in last : num = Conf(s[1], s[3], records[q].number.n + 1)
      BY <2>1
    <2>4. ASSUME NEW m \in Nat, num = Conf(s[1], s[3], m), m >= 1, \A k \in 1..(m - 1) : Known(s, k)
          PROVE  OwnNumber(s, num) /\ \A k \in 1..(num.n - 1) : Known(s, k)
      <3>1. num.style = "conf" /\ num.place = <<s[1], s[3]>> /\ num.n = m
        BY <2>4 DEF Conf
      <3> QED BY <1>3, <2>4, <3>1 DEF OwnNumber, NumberStyle, OwnPlace
    <2>5. CASE num = Conf(s[1], s[3], 1)
      BY <2>4, <2>5
    <2>6. ASSUME NEW q \in last, num = Conf(s[1], s[3], records[q].number.n + 1)
          PROVE  OwnNumber(s, num) /\ \A k \in 1..(num.n - 1) : Known(s, k)
      <3>1. q \in RowsIn(s) /\ records[q].number.n \in Nat
        BY <1>1, <2>2, RowNumbers DEF RowsIn
      <3>2. \A k \in 1..records[q].number.n : Known(s, k)
        BY <1>1, <3>1 DEF Dense
      <3> PICK m : m = records[q].number.n + 1
        OBVIOUS
      <3>3. m \in Nat /\ m >= 1 /\ m - 1 = records[q].number.n
        BY <3>1
      <3> QED BY <2>4, <2>6, <3>2, <3>3
    <2> QED BY <2>3, <2>5, <2>6
  <1> QED BY <1>2, <1>3

\* Only a request that was given a number, or has chosen one, is about to insert.
LEMMA InsertMoves ==
  ASSUME IInv, NEW r \in Requests, Step(r), pc'[r] = "insert"
  PROVE  /\ records' = records /\ touched' = touched
         /\ \/ body'[r].number # NoNumber
            \/ /\ ChooseNumber(r) /\ pc[r] = "number" /\ SeriesOf(row'[r]) = SeriesOf(row[r])
               /\ row'[r].number \in NextRegisterNumbers(SeriesOf(row[r]))
  <1> USE DEF IInv, TypeOK, Goto
  <1>1. CASE StartCreate(r)
    BY <1>1 DEF StartCreate, Receive, tables
  <1>2. CASE ChooseNumber(r)
    <2>1. PICK num \in NextRegisterNumbers(SeriesOf(row[r])) : row' = [row EXCEPT ![r].number = num]
      BY <1>2 DEF ChooseNumber
    <2>2. pc[r] = "number" /\ records' = records /\ touched' = touched
      BY <1>2 DEF ChooseNumber, tables
    <2>3. row[r] \in Rows
      BY <2>2, Held DEF HoldsRow
    <2>4. row'[r] = [row[r] EXCEPT !.number = num]
      BY <2>1
    <2>5. row'[r].number = num /\ SeriesOf(row'[r]) = SeriesOf(row[r])
      BY <2>3, <2>4 DEF Rows, SeriesOf
    <2> QED BY <1>2, <2>2, <2>5
  <1>3. CASE ~StartCreate(r) /\ ~ChooseNumber(r)
    <2>1. pc[r] \notin {"idle", "number"} \/ pc'[r] # "insert"
      <3>1. CASE Create(r)
        BY <1>3, <3>1 DEF Create, InsertRecord, MarkDeceased, LinkSpouses, MarkMarried, CountEntries, AppendEntry
      <3>2. CASE Issue(r)
        BY <3>2 DEF Issue, StartIssue, FindRecord, ChooseSerial, InsertCertificate, LinkCertificate
      <3>3. CASE Update(r) \/ Delete(r) \/ PrintCertificate(r) \/ Abort(r)
        BY <3>3 DEF Update, StartUpdate, UpdateRecord, Delete, StartDelete, DeleteRecord, Abort,
           PrintCertificate, StartPrint, LogPrint, SetPrintCount, Active, Stages
      <3> QED BY <3>1, <3>2, <3>3 DEF Step
    <2> QED BY <2>1, StageMoves
  <1> QED BY <1>1, <1>2, <1>3

\* The unique index holds through inserts and edits.
LEMMA DistinctStep ==
  ASSUME NInv, NEW r \in Requests, Step(r), NEW s \in Series
  PROVE  Distinct(s)'
  <1>1. CInv /\ IInv /\ Unwritten /\ Distinct(s) /\ records \in [Requests -> Rows \cup {NoRow}]
    BY DEF NInv, CInv, IInv, TypeOK
  \* A record that has its number new in the step.
  <1> DEFINE Fresh(q) == ~NumberTaken(records'[q], q)
             Same(q) == records[q] # NoRow /\ SeriesOf(records'[q]) = SeriesOf(records[q])
                        /\ records'[q].number = records[q].number
  <1>2. ASSUME NEW q \in Requests, records'[q] # NoRow PROVE Fresh(q) \/ Same(q)
    <2>1. CASE Kept(r, q)
      BY <1>2, <2>1 DEF Kept
    <2>2. CASE Inserted(r, q)
      BY <2>2 DEF Inserted
    <2>3. CASE ChangedRow(r, q)
      BY <2>3, NullsAssumption DEF ChangedRow
    <2> QED BY <1>1, <2>1, <2>2, <2>3, RecordMoves
  <1>3. ASSUME NEW q \in Requests, NEW o \in Requests, q # o, Fresh(q), ~Same(q)
        PROVE  records'[o] = records[o] \/ records'[q] = NoRow \/ Same(o)
    <2>1. CASE Kept(r, o)
      BY <2>1 DEF Kept
    <2>2. CASE Inserted(r, o)
      <3>1. pc[r] = "insert" /\ o = r
        BY <2>2 DEF Inserted
      <3>2. Kept(r, q)
        BY <1>1, <1>3, <3>1, RecordMoves DEF Inserted, ChangedRow
      <3> QED BY <1>3, <3>2 DEF Kept
    <2>3. CASE ChangedRow(r, o)
      <3>1. pc[r] \in {"link", "update", "delete"} /\ o = target[r]
        BY <2>3 DEF ChangedRow
      <3>2. Kept(r, q)
        BY <1>1, <1>3, <3>1, RecordMoves DEF Inserted, ChangedRow
      <3> QED BY <1>3, <3>2 DEF Kept
    <2> QED BY <1>1, <2>1, <2>2, <2>3, RecordMoves
  <1>4. ASSUME NEW q \in Requests, NEW o \in Requests, q # o, Fresh(q), ~Same(q),
               records'[q] # NoRow, records'[o] # NoRow, SeriesOf(records'[q]) = SeriesOf(records'[o])
        PROVE  records'[q].number # records'[o].number
    <2>1. CASE records'[o] = records[o]
      BY <1>4, <2>1 DEF NumberTaken
    <2>2. CASE Same(o)
      BY <1>4, <2>2 DEF NumberTaken
    <2> QED BY <1>3, <1>4, <2>1, <2>2
  <1> SUFFICES ASSUME NEW q \in Requests, NEW o \in Requests, q # o, records'[q] # NoRow, records'[o] # NoRow,
                      SeriesOf(records'[q]) = s, SeriesOf(records'[o]) = s
               PROVE  records'[o].number # records'[q].number
    BY DEF Distinct, RowsIn
  <1>5. CASE Fresh(q) /\ ~Same(q)
    BY <1>4, <1>5
  <1>6. CASE Fresh(o) /\ ~Same(o)
    BY <1>4, <1>6
  <1>7. CASE Same(q) /\ Same(o)
    BY <1>1, <1>7 DEF Distinct, RowsIn
  <1> QED BY <1>2, <1>5, <1>6, <1>7

\* An insert fills the one number that was missing.
LEMMA DenseStep ==
  ASSUME NInv, NEW r \in Requests, Step(r), NEW s \in Series
  PROVE  Dense(s)'
  <1> SUFFICES ASSUME s \notin touched', NEW q \in RowsIn(s)'
               PROVE  /\ OwnNumber(s, records'[q].number)
                      /\ \A k \in 1..records'[q].number.n : Known(s, k)'
    BY DEF Dense, OwnNumber
  <1>1. q \in Requests /\ CInv /\ IInv /\ IInv' /\ s \notin touched /\ Dense(s) /\ Pending(r, s)
    BY SeriesMoves, Others DEF NInv, CInv, RowsIn
  <1>2. CASE q \in RowsIn(s)
    <2>1. records'[q].number = records[q].number
      BY <1>1, <1>2, SeriesMoves
    <2>2. OwnNumber(s, records[q].number) /\ \A k \in 1..records[q].number.n : Known(s, k)
      BY <1>1, <1>2 DEF Dense
    <2> QED BY <1>1, <2>1, <2>2, KnownStays
  <1>3. CASE /\ q = r /\ pc[r] = "insert" /\ body[r].number = NoNumber
             /\ SeriesOf(row[r]) = s /\ records'[q] = row[r]
    <2>1. OwnNumber(s, row[r].number) /\ \A k \in 1..(row[r].number.n - 1) : Known(s, k)
      BY <1>1, <1>3 DEF Pending
    <2>2. \A k \in 1..(row[r].number.n - 1) : Known(s, k)'
      BY <1>1, <2>1, KnownStays
    <2>3. row[r].number.n \in Nat
      <3>1. row[r].number \in Numbers
        BY <1>1, <1>3, Held
      <3> QED BY <3>1 DEF Numbers
    <2>4. ASSUME NEW k \in 1..row[r].number.n PROVE Known(s, k)'
      <3>1. CASE k = row[r].number.n
        BY <1>3, <3>1 DEF Known
      <3>2. CASE k \in 1..(row[r].number.n - 1)
        BY <2>2, <3>2
      <3> QED BY <2>3, <3>1, <3>2
    <2> QED BY <1>3, <2>1, <2>4
  <1> QED BY <1>1, <1>2, <1>3, SeriesMoves

\* A number that waits stays at most one past the known ones.
LEMMA PendingStep ==
  ASSUME NInv, NEW r \in Requests, Step(r), NEW s \in Series, NEW q \in Requests
  PROVE  Pending(q, s)'
  <1> SUFFICES ASSUME pc'[q] = "insert", body'[q].number = NoNumber, s = SeriesOf(row'[q]), s \notin touched'
               PROVE  OwnNumber(s, row'[q].number) /\ \A k \in 1..(row'[q].number.n - 1) : Known(s, k)'
    BY DEF Pending, OwnNumber
  <1>1. CInv /\ IInv /\ Frame(r) /\ s \notin touched
    BY SeriesMoves, Others DEF NInv, CInv
  <1>2. CASE q # r
    <2>1. pc[q] = "insert" /\ body[q].number = NoNumber /\ row'[q] = row[q] /\ s = SeriesOf(row[q])
      BY <1>1, <1>2 DEF Frame
    <2>2. OwnNumber(s, row[q].number) /\ \A k \in 1..(row[q].number.n - 1) : Known(s, k)
      BY <1>1, <2>1 DEF NInv, Pending
    <2> QED BY <1>1, <2>1, <2>2, KnownStays
  <1>3. CASE q = r
    <2>1. row'[r].number \in NextRegisterNumbers(s) /\ records' = records
      BY <1>1, <1>3, InsertMoves
    <2>2. OwnNumber(s, row'[r].number) /\ \A k \in 1..(row'[r].number.n - 1) : Known(s, k)
      BY <1>1, <2>1, ChoiceKnown
    <2> QED BY <1>1, <1>3, <2>2, KnownStays
  <1> QED BY <1>2, <1>3

\* In a series nobody numbered by hand, the numbers are unique and run from 1 without a gap,
\* deleted records included, for any number of overlapping creates, edits and deletes
\* (nextRegisterNumber, 67-100).
THEOREM NumbersWithoutGap == Spec => []NumbersGapFree
  <1>1. Init => NInv
    <2>1. Init => CInv
      BY InitIInv DEF Init, CInv, Unwritten, SerialsUnique, CertOK, PointerOK, SerialOK
    <2> QED BY <2>1 DEF Init, NInv, Distinct, Dense, Pending, RowsIn
  <1>2. NInv /\ [Next]_vars => NInv'
    <2> SUFFICES ASSUME NInv, [Next]_vars PROVE NInv'
      OBVIOUS
    <2>1. CInv'
      BY CertInvStep DEF NInv
    <2>2. CASE UNCHANGED vars
      BY <2>1, <2>2 DEF NInv, Distinct, Dense, Pending, Known, RowsIn, vars, tables, locals
    <2>3. CASE Next
      <3>1. PICK r \in Requests : Step(r)
        BY <2>3 DEF Next, Step
      <3> QED BY <2>1, <3>1, DistinctStep, DenseStep, PendingStep DEF NInv
    <2> QED BY <2>2, <2>3
  <1>3. NInv => NumbersGapFree
    <2> SUFFICES ASSUME NInv, NEW s \in Series \ touched, NEW q \in RowsIn(s)
                 PROVE  /\ records[q].number.style = NumberStyle(s)
                        /\ \A o \in RowsIn(s) : records[o].number = records[q].number => o = q
                        /\ \A k \in 1..records[q].number.n : \E o \in RowsIn(s) : records[o].number.n = k
      BY DEF NumbersGapFree
    <2>1. Distinct(s) /\ OwnNumber(s, records[q].number) /\ \A k \in 1..records[q].number.n : Known(s, k)
      BY DEF NInv, Dense
    <2> QED BY <2>1 DEF Distinct, OwnNumber, Known
  <1> QED BY <1>1, <1>2, <1>3, PTL DEF Spec
===============================================================================
