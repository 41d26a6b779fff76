-------------------------- MODULE SacramentRegister --------------------------
(***************************************************************************)
(* The sacramental registers and certificates of a diocese:                *)
(* apps/api/src/modules/diocese/sacrament.service.ts over the tables       *)
(* SacramentRecord, RegisterEntry, Certificate and CertificatePrintLog.    *)
(*                                                                         *)
(* No handler of the service opens a transaction, so each awaited query is *)
(* one atomic step and the steps of concurrent requests interleave.  A     *)
(* request serves one call; a row carries the name of the request that     *)
(* inserted it (a request inserts at most one row in each table).          *)
(***************************************************************************)
EXTENDS Integers, FiniteSets, Sequences

CONSTANTS
  Requests,    \* HTTP requests, each serving one call
  Abortable,   \* the requests the server may lose between two awaits
  Parishes, Years, Dates, Members,
  PageSize,    \* RegisterBook.pageSize: lines on a page
  Forms,       \* the bodies of POST /sacraments
  Edits,       \* the bodies of PATCH /sacraments/:id
  NoNumber,    \* a body without registerNumber, when creating
  Keep,        \* a field an edit leaves out
  Nobody, NoRow, NoCert, NoSerial, NoBody, NoPlace

Types == {"BAPTISM", "CONFIRMATION", "HOLY_COMMUNION", "MARRIAGE",
          "HOLY_ORDERS", "ANOINTING", "DEATH"}

\* The types with a register book and a certificate: BOOK_MAP and CERT_MAP
\* have the same domain.
Registered == Types \ {"HOLY_ORDERS", "ANOINTING"}

Places == Parishes \X Years            \* what a CONF- prefix names
Series == Parishes \X Types \X Years   \* the scope of a register number

\* "0007" is plain, "2026-0007" is yearly, "CONF-SHS-2026-000007" is conf.
Numbers == [style: {"plain", "yearly", "conf"}, place: Places \cup {NoPlace}, n: Nat]

\* Certificate.serialNumber: a confirmation number, MAR-year-n, or BAP-n.
Serials == [style: {"conf", "mar", "count"}, place: Places \cup {NoPlace}, n: Nat]

Bodies ==
  [type: Types \cup {Keep}, parish: Parishes \cup {Keep}, year: Years \cup {Keep},
   number: Numbers \cup {NoNumber, Keep}, date: Dates \cup {Keep},
   member: Members \cup {Nobody, Keep}, spouse: Members \cup {Nobody, Keep},
   issue: BOOLEAN]

Rows ==
  [parish: Parishes, type: Types, year: Years, number: Numbers \cup {NoNumber},
   date: Dates, member: Members \cup {Nobody}, spouse: Members \cup {Nobody},
   baptism: Requests \cup {NoRow}, deletedAt: {"null", "set"}, cert: Requests \cup {NoCert}]

Entries == [of: Requests, page: Nat, line: Nat]

Certificates ==
  [of: Requests, parish: Parishes, type: Registered, year: Years,
   number: Numbers, serial: Serials, printCount: Nat]

ASSUME RequestsAssumption == IsFiniteSet(Requests)
ASSUME PageSizeAssumption == PageSize \in Nat \ {0}
ASSUME BodiesAssumption ==
  /\ Forms \subseteq {b \in Bodies : /\ b.type # Keep /\ b.parish # Keep
                                     /\ b.year # Keep /\ b.number # Keep
                                     /\ b.date # Keep /\ b.member # Keep
                                     /\ b.spouse # Keep}
  /\ Edits \subseteq {b \in Bodies : b.number # NoNumber}
ASSUME DatesAssumption == Dates \subseteq Nat
ASSUME NullsAssumption ==
  /\ NoRow \notin Rows \cup Requests
  /\ NoCert \notin Certificates \cup Requests
  /\ NoBody \notin Bodies
  /\ NoSerial \notin Serials
  /\ NoNumber \notin Numbers
  /\ Keep \notin Parishes /\ Keep \notin Years /\ Keep \notin Numbers
  /\ Keep \notin Dates /\ Keep \notin Members /\ Keep # Nobody

VARIABLES
  records,   \* SacramentRecord
  books,     \* RegisterEntry, per register book in the order of insertion
  certs,     \* Certificate
  prints,    \* CertificatePrintLog.printNumber, per certificate
  deceased, married, spouses,   \* Member.lifeStatus, .maritalStatus, Relationship SPOUSE
  pc,        \* the next query of each request
  body,      \* the body of the request
  target,    \* the id in its path, or the row it inserts
  row,       \* the record as the handler last read it or is about to insert it
  seen,      \* a count it read: register entries, or printCount
  serial,    \* the certificate serial it computed
  touched    \* history: the series in which a number was set by hand

tables == <<records, books, certs, prints>>
people == <<deceased, married, spouses>>
locals == <<body, target, row, seen, serial>>
vars   == <<tables, people, pc, locals, touched>>

Stages == {"number", "insert", "deceased", "spouse", "married", "count", "append",
           "find", "serial", "certify", "link", "delete", "update", "log", "printed"}
Active(r) == pc[r] \in Stages
Goto(r, stage) == pc' = [pc EXCEPT ![r] = stage]

SeriesOf(x) == <<x.parish, x.type, x.year>>
RowsIn(s)   == {q \in Requests : records[q] # NoRow /\ SeriesOf(records[q]) = s}
LiveIn(s)   == {q \in RowsIn(s) : records[q].deletedAt = "null"}
Live(q)     == records[q] # NoRow /\ records[q].deletedAt = "null"

-----------------------------------------------------------------------------
(* Numbering. *)

Conf(p, y, k) == [style |-> "conf", place |-> <<p, y>>, n |-> k]
Plain(k)      == [style |-> "plain", place |-> NoPlace, n |-> k]

\* One more than the greatest CONF- number of a record that is not deleted.
ConfirmationSerials(p, y) ==
  LET live == {q \in LiveIn(<<p, "CONFIRMATION", y>>) :
                 /\ records[q].number.style = "conf"
                 /\ records[q].number.place = <<p, y>>}
      last == {q \in live : \A o \in live : records[o].number.n <= records[q].number.n}
  IN  IF live = {} THEN {Conf(p, y, 1)}
      ELSE {Conf(p, y, records[q].number.n + 1) : q \in last}

\* One more than the number of records that are not deleted.
NextRegisterNumbers(s) ==
  IF s[2] = "CONFIRMATION" THEN ConfirmationSerials(s[1], s[3])
  ELSE {Plain(Cardinality(LiveIn(s)) + 1)}

\* marriageRegisterSequence: a plain number keeps its last four digits.
MarriageSequence(num) == IF num.style = "yearly" THEN num.n ELSE num.n % 10000

CertsOf(p, t) == {c \in Requests : certs[c] # NoCert /\ certs[c].parish = p /\ certs[c].type = t}

\* Mutant: marriages counted like the other types.
CountedCertSerials(x) ==
  {[style |-> "count", place |-> NoPlace, n |-> Cardinality(CertsOf(x.parish, x.type)) + 1]}

NextCertSerials(x) ==
  CASE x.type = "CONFIRMATION" ->
         IF x.number.style = "conf" THEN {x.number} ELSE ConfirmationSerials(x.parish, x.year)
    [] x.type = "MARRIAGE" ->
         {[style |-> "mar", place |-> <<x.parish, x.year>>, n |-> MarriageSequence(x.number)]}
    [] OTHER ->
         {[style |-> "count", place |-> NoPlace, n |-> Cardinality(CertsOf(x.parish, x.type)) + 1]}

\* Mutant: an index that leaves the deleted rows out.
LiveNumberTaken(x, but) ==
  \E q \in Requests \ {but} : /\ records[q] # NoRow /\ records[q].deletedAt = "null"
                              /\ SeriesOf(records[q]) = SeriesOf(x)
                              /\ records[q].number = x.number

\* @@unique([parishId, type, registerYear, registerNumber]), deleted rows included.
NumberTaken(x, but) ==
  \E q \in Requests \ {but} : /\ records[q] # NoRow
                              /\ SeriesOf(records[q]) = SeriesOf(x)
                              /\ records[q].number = x.number

\* @@unique([parishId, type, serialNumber])
SerialTaken(p, t, s) == \E c \in CertsOf(p, t) : certs[c].serial = s

-----------------------------------------------------------------------------
(* POST /sacraments *)

NewRow(f, b) ==
  [parish |-> f.parish, type |-> f.type, year |-> f.year, number |-> f.number,
   date |-> f.date, member |-> f.member, spouse |-> f.spouse,
   baptism |-> b, deletedAt |-> "null", cert |-> NoCert]

\* A confirmation may name its baptism, which is looked up before the number is chosen.
TooEarly(f, b) == /\ b # NoRow /\ Live(b)
                  /\ records[b].type = "BAPTISM" /\ f.date < records[b].date

Receive(r, f, b) ==
  /\ b # NoRow => f.type = "CONFIRMATION"
  /\ body' = [body EXCEPT ![r] = f]
  /\ row' = [row EXCEPT ![r] = NewRow(f, b)]
  /\ Goto(r, IF TooEarly(f, b) THEN "failed"
             ELSE IF f.number = NoNumber THEN "number" ELSE "insert")
  /\ UNCHANGED <<tables, people, target, seen, serial, touched>>

StartCreate(r) ==
  /\ pc[r] = "idle"
  /\ \E f \in Forms, b \in {q \in Requests : records[q] # NoRow} \cup {NoRow} :
       Receive(r, f, b)

ChooseNumber(r) ==
  /\ pc[r] = "number"
  /\ \E num \in NextRegisterNumbers(SeriesOf(row[r])) :
       row' = [row EXCEPT ![r].number = num]
  /\ Goto(r, "insert")
  /\ UNCHANGED <<tables, people, body, target, seen, serial, touched>>

\* What create does once the row is there, by its type.
AfterInsert(x) ==
  CASE x.type = "DEATH" /\ x.member # Nobody -> "deceased"
    [] x.type = "MARRIAGE" /\ x.member # Nobody /\ x.spouse # Nobody -> "spouse"
    [] x.type \in Registered -> "count"
    [] OTHER -> "done"

InsertRecord(r) ==
  /\ pc[r] = "insert"
  /\ IF NumberTaken(row[r], r)
     THEN Goto(r, "failed") /\ UNCHANGED <<records, touched>>
     ELSE /\ records' = [records EXCEPT ![r] = row[r]]
          /\ touched' = IF body[r].number = NoNumber THEN touched
                        ELSE touched \cup {SeriesOf(row[r])}
          /\ Goto(r, AfterInsert(row[r]))
  /\ UNCHANGED <<books, certs, prints, people, locals>>

MarkDeceased(r) ==
  /\ pc[r] = "deceased"
  /\ deceased' = deceased \cup {row[r].member}
  /\ Goto(r, "count")
  /\ UNCHANGED <<tables, married, spouses, locals, touched>>

\* update writes the same link, and goes on to the certificate.
LinkSpouses(r) ==
  /\ pc[r] = "spouse"
  /\ spouses' = spouses \cup {<<row[r].member, row[r].spouse>>}
  /\ Goto(r, IF target[r] = r THEN "married" ELSE IF body[r].issue THEN "find" ELSE "done")
  /\ UNCHANGED <<tables, deceased, married, locals, touched>>

MarkMarried(r) ==
  /\ pc[r] = "married"
  /\ married' = married \cup {row[r].member, row[r].spouse}
  /\ Goto(r, "count")
  /\ UNCHANGED <<tables, deceased, spouses, locals, touched>>

\* Mutant: a count that starts below the first line.
CountBelow(r) ==
  /\ pc[r] = "count"
  /\ seen' = [seen EXCEPT ![r] = Len(books[SeriesOf(row[r])]) - 1]
  /\ Goto(r, "append")
  /\ UNCHANGED <<tables, people, body, target, row, serial, touched>>

\* appendRegisterEntry counts the entries of the book ...
CountEntries(r) ==
  /\ pc[r] = "count"
  /\ seen' = [seen EXCEPT ![r] = Len(books[SeriesOf(row[r])])]
  /\ Goto(r, "append")
  /\ UNCHANGED <<tables, people, body, target, row, serial, touched>>

\* Mutant: pages numbered from 0.
PageFromZero(k) == k \div PageSize

PageOf(k) == (k \div PageSize) + 1
LineOf(k) == (k % PageSize) + 1

\* Mutant: no unique index on the lines.
NoLineTaken(s, page, line) == FALSE

LineTaken(s, page, line) ==
  \E i \in 1..Len(books[s]) : books[s][i].page = page /\ books[s][i].line = line

\* ... and writes the line that count leads to: @@unique([bookId, pageNumber, lineNumber]).
AppendEntry(r) ==
  LET s == SeriesOf(row[r]) IN
  /\ pc[r] = "append"
  /\ IF LineTaken(s, PageOf(seen[r]), LineOf(seen[r]))
     THEN Goto(r, "failed") /\ UNCHANGED books
     ELSE /\ books' = [books EXCEPT ![s] =
                         Append(@, [of |-> r, page |-> PageOf(seen[r]), line |-> LineOf(seen[r])])]
          /\ Goto(r, IF body[r].issue THEN "find" ELSE "done")
  /\ UNCHANGED <<records, certs, prints, people, locals, touched>>

-----------------------------------------------------------------------------
(* POST /sacraments/:id/certificate, also the tail of create and update *)

StartIssue(r) ==
  /\ pc[r] = "idle"
  /\ \E q \in Requests : records[q] # NoRow /\ target' = [target EXCEPT ![r] = q]
  /\ Goto(r, "find")
  /\ UNCHANGED <<tables, people, body, row, seen, serial, touched>>

FindRecord(r) ==
  /\ pc[r] = "find"
  /\ LET x == records[target[r]] IN
     IF ~Live(target[r]) \/ x.type \notin Registered
     THEN Goto(r, "failed") /\ UNCHANGED row
     ELSE /\ row' = [row EXCEPT ![r] = x]
          /\ Goto(r, IF x.cert # NoCert THEN "done" ELSE "serial")
  /\ UNCHANGED <<tables, people, body, target, seen, serial, touched>>

ChooseSerial(r) ==
  /\ pc[r] = "serial"
  /\ \E s \in NextCertSerials(row[r]) : serial' = [serial EXCEPT ![r] = s]
  /\ Goto(r, "certify")
  /\ UNCHANGED <<tables, people, body, target, row, seen, touched>>

\* Mutant: the certificate is not linked to its record.
InsertUnlinked(r) ==
  LET x == row[r] IN
  /\ pc[r] = "certify"
  /\ ~SerialTaken(x.parish, x.type, serial[r])
  /\ certs' = [certs EXCEPT ![r] =
                 [of |-> target[r], parish |-> x.parish, type |-> x.type, year |-> x.year,
                  number |-> x.number, serial |-> serial[r], printCount |-> 0]]
  /\ Goto(r, "done")
  /\ UNCHANGED <<records, books, prints, people, locals, touched>>

InsertCertificate(r) ==
  LET x == row[r] IN
  /\ pc[r] = "certify"
  /\ IF SerialTaken(x.parish, x.type, serial[r])
     THEN Goto(r, "failed") /\ UNCHANGED certs
     ELSE /\ certs' = [certs EXCEPT ![r] =
                [of |-> target[r], parish |-> x.parish, type |-> x.type, year |-> x.year,
                 number |-> x.number, serial |-> serial[r], printCount |-> 0]]
          /\ Goto(r, "link")
  /\ UNCHANGED <<records, books, prints, people, locals, touched>>

LinkCertificate(r) ==
  /\ pc[r] = "link"
  /\ records' = [records EXCEPT ![target[r]].cert = r]
  /\ Goto(r, "done")
  /\ UNCHANGED <<books, certs, prints, people, locals, touched>>

-----------------------------------------------------------------------------
(* PATCH /sacraments/:id *)

StartUpdate(r) ==
  /\ pc[r] = "idle"
  /\ \E q \in Requests, e \in Edits :
       /\ Live(q)
       /\ body' = [body EXCEPT ![r] = e]
       /\ target' = [target EXCEPT ![r] = q]
       /\ row' = [row EXCEPT ![r] = records[q]]
  /\ Goto(r, "update")
  /\ UNCHANGED <<tables, people, seen, serial, touched>>

Given(new, old) == IF new = Keep THEN old ELSE new

\* Mutant: every field falls back to the row read before the await.
EditedAsRead(r) ==
  [row[r] EXCEPT !.number = Given(body[r].number, row[r].number),
                 !.date = Given(body[r].date, row[r].date)]

\* Parish and members fall back to the row read before the await, the other
\* fields to the row as it is now.
Edited(r) ==
  LET x == records[target[r]]  b == body[r] IN
  [x EXCEPT !.parish = Given(b.parish, row[r].parish),
            !.member = Given(b.member, row[r].member),
            !.spouse = Given(b.spouse, row[r].spouse),
            !.year = Given(b.year, x.year),
            !.number = Given(b.number, x.number),
            !.date = Given(b.date, x.date)]

UpdateRecord(r) ==
  LET x == records[target[r]]  y == Edited(r) IN
  /\ pc[r] = "update"
  /\ IF NumberTaken(y, target[r])
     THEN Goto(r, "failed") /\ UNCHANGED <<records, row, touched>>
     ELSE /\ records' = [records EXCEPT ![target[r]] = y]
          /\ row' = [row EXCEPT ![r] = [row[r] EXCEPT !.member = y.member, !.spouse = y.spouse]]
          /\ touched' = IF SeriesOf(y) = SeriesOf(x) /\ y.number = x.number THEN touched
                        ELSE touched \cup {SeriesOf(x), SeriesOf(y)}
          /\ Goto(r, CASE row[r].type = "MARRIAGE" /\ y.member # Nobody /\ y.spouse # Nobody -> "spouse"
                       [] body[r].issue -> "find"
                       [] OTHER -> "done")
  /\ UNCHANGED <<books, certs, prints, people, body, target, seen, serial>>

-----------------------------------------------------------------------------
(* DELETE /sacraments/:id *)

StartDelete(r) ==
  /\ pc[r] = "idle"
  /\ \E q \in Requests : Live(q) /\ target' = [target EXCEPT ![r] = q]
  /\ Goto(r, "delete")
  /\ UNCHANGED <<tables, people, body, row, seen, serial, touched>>

\* The entry and the certificate of a deleted record stay.
DeleteRecord(r) ==
  /\ pc[r] = "delete"
  /\ records' = [records EXCEPT ![target[r]].deletedAt = "set"]
  /\ Goto(r, "done")
  /\ UNCHANGED <<books, certs, prints, people, locals, touched>>

-----------------------------------------------------------------------------
(* POST /sacraments/:id/print *)

StartPrint(r) ==
  /\ pc[r] = "idle"
  /\ \E q \in Requests :
       /\ Live(q) /\ records[q].cert # NoCert
       /\ row' = [row EXCEPT ![r] = records[q]]
       /\ target' = [target EXCEPT ![r] = q]
       /\ seen' = [seen EXCEPT ![r] = certs[records[q].cert].printCount]
  /\ Goto(r, "log")
  /\ UNCHANGED <<tables, people, body, serial, touched>>

LogPrint(r) ==
  /\ pc[r] = "log"
  /\ prints' = [prints EXCEPT ![row[r].cert] = Append(@, seen[r] + 1)]
  /\ Goto(r, "printed")
  /\ UNCHANGED <<records, books, certs, people, locals, touched>>

\* Mutant: the count is incremented in the database, the log still numbered before.
IncrementPrintCount(r) ==
  /\ pc[r] = "printed"
  /\ certs' = [certs EXCEPT ![row[r].cert].printCount = @ + 1]
  /\ Goto(r, "done")
  /\ UNCHANGED <<records, books, prints, people, locals, touched>>

SetPrintCount(r) ==
  /\ pc[r] = "printed"
  /\ certs' = [certs EXCEPT ![row[r].cert].printCount = seen[r] + 1]
  /\ Goto(r, "done")
  /\ UNCHANGED <<records, books, prints, people, locals, touched>>

-----------------------------------------------------------------------------
\* A restart of the server or a lost connection ends a request between two queries.
Abort(r) ==
  /\ r \in Abortable
  /\ Active(r)
  /\ Goto(r, "failed")
  /\ UNCHANGED <<tables, people, locals, touched>>

Init ==
  /\ records = [q \in Requests |-> NoRow]
  /\ books = [s \in Series |-> <<>>]
  /\ certs = [c \in Requests |-> NoCert]
  /\ prints = [c \in Requests |-> <<>>]
  /\ deceased = {} /\ married = {} /\ spouses = {}
  /\ pc = [r \in Requests |-> "idle"]
  /\ body = [r \in Requests |-> NoBody]
  /\ target = [r \in Requests |-> r]
  /\ row = [r \in Requests |-> NoRow]
  /\ seen = [r \in Requests |-> 0]
  /\ serial = [r \in Requests |-> NoSerial]
  /\ touched = {}

Create(r) == \/ StartCreate(r) \/ ChooseNumber(r) \/ InsertRecord(r)
             \/ MarkDeceased(r) \/ LinkSpouses(r) \/ MarkMarried(r)
             \/ CountEntries(r) \/ AppendEntry(r)
Issue(r)  == StartIssue(r) \/ FindRecord(r) \/ ChooseSerial(r) \/ InsertCertificate(r) \/ LinkCertificate(r)
Update(r) == StartUpdate(r) \/ UpdateRecord(r)
Delete(r) == StartDelete(r) \/ DeleteRecord(r)
PrintCertificate(r) == StartPrint(r) \/ LogPrint(r) \/ SetPrintCount(r)

Next == \E r \in Requests : Create(r) \/ Issue(r) \/ Update(r) \/ Delete(r) \/ PrintCertificate(r) \/ Abort(r)

Spec == Init /\ [][Next]_vars

-----------------------------------------------------------------------------
(* Properties *)

\* Every table, and what each request holds, has the type the code gives it.
TypeOK ==
  /\ records \in [Requests -> Rows \cup {NoRow}]
  /\ books \in [Series -> Seq(Entries)]
  /\ certs \in [Requests -> Certificates \cup {NoCert}]
  /\ prints \in [Requests -> Seq(Nat)]
  /\ deceased \subseteq Members /\ married \subseteq Members
  /\ spouses \subseteq Members \X Members
  /\ pc \in [Requests -> Stages \cup {"idle", "done", "failed"}]
  /\ body \in [Requests -> Bodies \cup {NoBody}]
  /\ target \in [Requests -> Requests]
  /\ row \in [Requests -> Rows \cup {NoRow}]
  /\ seen \in [Requests -> Nat]
  /\ serial \in [Requests -> Serials \cup {NoSerial}]
  /\ touched \subseteq Series

\* appendRegisterEntry (156-168): however the creates interleave, the i-th entry
\* of a book stands on the i-th line of its pages.
PagesDense ==
  \A s \in Series : \A i \in 1..Len(books[s]) :
    books[s][i].page = PageOf(i - 1) /\ books[s][i].line = LineOf(i - 1)

\* The record a reader of the pages finds on the k-th line of a book.
ReadLine(s, k) ==
  LET there == {i \in 1..Len(books[s]) : /\ books[s][i].page = PageOf(k - 1)
                                        /\ books[s][i].line = LineOf(k - 1)}
  IN  IF Cardinality(there) = 1 THEN books[s][CHOOSE i \in there : TRUE].of ELSE NoRow

Paper == INSTANCE PaperRegister WITH
  Books <- Series, Records <- Requests,
  lines <- [s \in Series |-> [k \in 1..Len(books[s]) |-> ReadLine(s, k)]]

\* appendRegisterEntry (156-168), read through getRegisterPage (776-806), implements
\* a paper register.
ReadsLikePaper == Paper!Spec

TotalPages(s) ==
  IF books[s] = <<>> THEN 1 ELSE (Len(books[s]) + PageSize - 1) \div PageSize

\* getRegisterPage (776-806) shows the pages 1..totalPages: every entry is on one
\* of them, within its lines, and no two entries share a line.
EveryEntryShown ==
  \A s \in Series : \A i, j \in 1..Len(books[s]) :
    /\ books[s][i].page \in 1..TotalPages(s)
    /\ books[s][i].line \in 1..PageSize
    /\ i # j => books[s][i].page # books[s][j].page \/ books[s][i].line # books[s][j].line

NumberStyle(s) == IF s[2] = "CONFIRMATION" THEN "conf" ELSE "plain"

\* nextRegisterNumber (67-100): in a series nobody numbered by hand, the numbers are
\* unique and run from 1 without a gap, deleted records included, although the
\* count is read before the insert and deletes come in between.
NumbersGapFree ==
  \A s \in Series \ touched : \A q \in RowsIn(s) :
    /\ records[q].number.style = NumberStyle(s)
    /\ \A o \in RowsIn(s) : records[o].number = records[q].number => o = q
    /\ \A k \in 1..records[q].number.n : \E o \in RowsIn(s) : records[o].number.n = k

\* issueCertificateForRecord (643-661): the certificate a record points to is its
\* own, and a certificate whose request was not cut short has a record that
\* points to a certificate.
CertificateLinks ==
  /\ \A q \in Requests : records[q] # NoRow /\ records[q].cert # NoCert =>
       certs[records[q].cert] # NoCert /\ certs[records[q].cert].of = q
  /\ \A c \in Requests : certs[c] # NoCert /\ pc[c] = "done" =>
       records[certs[c].of].cert # NoCert

\* nextCertSerial (115-117) makes a marriage serial from the register number: two
\* issues of one record race to two certificates only if it was renumbered.
OneMarriageCertificate ==
  \A c, d \in Requests :
    /\ c # d /\ certs[c] # NoCert /\ certs[d] # NoCert
    /\ certs[c].of = certs[d].of /\ certs[c].type = "MARRIAGE"
    /\ certs[c].parish = certs[d].parish
    => <<certs[c].year, MarriageSequence(certs[c].number)>>
         # <<certs[d].year, MarriageSequence(certs[d].number)>>

\* recordCertificatePrint (1143-1166) logs a print before it counts it: the count of
\* a certificate is the number of a logged print, and each logged print but an
\* original has its predecessor before it in the log.
PrintsGapFree ==
  \A c \in Requests :
    /\ certs[c] # NoCert /\ certs[c].printCount > 0 =>
         \E i \in 1..Len(prints[c]) : prints[c][i] = certs[c].printCount
    /\ \A i \in 1..Len(prints[c]) :
         prints[c][i] = 1 \/ \E j \in 1..(i - 1) : prints[c][j] = prints[c][i] - 1

\* No step of any request restores a deleted record or takes a certificate off a
\* record, although update (430-510) writes after it read.
NothingUndone ==
  [][\A q \in Requests : records[q] # NoRow =>
       /\ records'[q] # NoRow
       /\ records[q].deletedAt = "set" => records'[q].deletedAt = "set"
       /\ records[q].cert # NoCert => records'[q].cert # NoCert]_vars

\* The facts about a request's locals, and about the rows they refer to, that its
\* later queries rely on.
HoldsRow == {"number", "insert", "deceased", "spouse", "married", "count", "append",
             "serial", "certify", "update", "log", "printed"}
HoldsBody == {"number", "insert", "deceased", "spouse", "married", "count", "append", "update"}
RowsOK ==
  \A q \in Requests : records[q] # NoRow =>
    /\ records[q].number # NoNumber
    /\ records[q].cert # NoCert => certs[records[q].cert] # NoCert
RequestOK(r) ==
  /\ pc[r] \in HoldsRow => row[r] # NoRow
  /\ pc[r] \in HoldsBody => body[r] # NoBody
  /\ pc[r] \in {"insert", "serial", "certify"} => row[r].number # NoNumber
  /\ pc[r] \in {"number", "insert"} => row[r].cert = NoCert
  /\ pc[r] = "update" => body[r].number # NoNumber
  /\ pc[r] \in {"deceased", "spouse", "married"} => row[r].member # Nobody
  /\ pc[r] \in {"spouse", "married"} => row[r].spouse # Nobody
  /\ pc[r] \in {"serial", "certify"} => row[r].type \in Registered
  /\ pc[r] \in {"serial", "certify", "link", "update", "delete"} => records[target[r]] # NoRow
  /\ pc[r] = "certify" => serial[r] # NoSerial
  /\ pc[r] = "link" => certs[r] # NoCert
  /\ pc[r] \in {"log", "printed"} => row[r].cert # NoCert /\ certs[row[r].cert] # NoCert
StageOK == RowsOK /\ \A r \in Requests : RequestOK(r)
=============================================================================
