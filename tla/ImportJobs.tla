------------------------------ MODULE ImportJobs ------------------------------
(***************************************************************************)
(* Import of a parish's historical registers from a spreadsheet:           *)
(* apps/api/src/modules/migration/migration.service.ts, upload,            *)
(* saveColumnMapping, updateRow, preview, validate, runImport, rollback.   *)
(*                                                                         *)
(* A run writes row by row, with no transaction, and keeps in memory the   *)
(* list of what it created; the job gets a copy now and then.  A rollback  *)
(* deletes what that copy lists.  A row is a marriage of the register, with*)
(* the household it brings; a row of another module has no household.  A   *)
(* call that is refused changes nothing and is left out.                   *)
(***************************************************************************)
EXTENDS Naturals, Sequences, FiniteSets

CONSTANTS
  Requests,    \* HTTP requests, each serving one call; a job carries the name of
               \* the request that uploaded it
  Abortable,   \* the requests that may be lost between two queries
  Staff,       \* who wrote what no import did
  Numbers,     \* register numbers of one parish, kind of record and year
  Houses,      \* what a family is found by: its name or its village
  NoNumber, NoHouse,
  Sheets,      \* the rows a file may hold, after column mapping
  Batch,       \* after how many rows a run saves its progress (50)
  NoJob

Rows    == [number: Numbers \cup {NoNumber}, house: Houses \cup {NoHouse}]
\* A sacrament record or a family: who wrote it, for which row.
Written == [kind: {"record", "family"}, key: Numbers \cup Houses, by: Requests \cup {Staff}, row: Nat]
Status  == {"UPLOADED", "PREVIEWED", "VALIDATED", "IMPORTING", "COMPLETED", "FAILED", "ROLLED_BACK"}
Jobs    == [status: Status, sheet: Seq(Rows), listed: SUBSET Written, rolledBack: BOOLEAN]

ASSUME SheetsAssumption == Sheets \subseteq Seq(Rows) \ {<<>>} /\ Batch \in Nat \ {0}
ASSUME NamesAssumption  == Staff \notin Requests /\ NoJob \notin Jobs \cup Requests

VARIABLES
  jobs,      \* ImportJob; listed is its createdEntityIds
  live,      \* the records and families with deletedAt null
  dead,      \* those with deletedAt set
  pc,        \* the next query of each request
  target,    \* the job the request is about
  sheet,     \* the rows it read
  errors,    \* the rows its analysis refuses
  at,        \* the row it is at
  created,   \* what it created; of a rollback, what it is to delete
  tally,     \* how many rows it imported and how many failed
  begun,     \* history: the runs that began on each job
  replaced,  \* history: the runs whose list another run's has replaced
  disturbed  \* history: the jobs one call changed while another was at them

locals  == <<target, sheet, errors, at, created, tally>>
history == <<begun, replaced, disturbed>>
vars    == <<jobs, live, dead, pc, locals, history>>

Goto(r, stage) == pc' = [pc EXCEPT ![r] = stage]
Uploaded       == {j \in Requests : jobs[j] # NoJob}

At(j, stages) == {r \in Requests : target[r] = j /\ pc[r] \in stages}
Starting(j)   == At(j, {"analyse", "begin"})
Importing(j)  == At(j, {"row", "insert", "progress"})
Rolling(j)    == At(j, {"records", "families", "mark"})

DisturbIf(others, j) == disturbed' = IF others = {} THEN disturbed ELSE disturbed \cup {j}

-----------------------------------------------------------------------------
(* The job, before and after its run *)

\* POST /migration/upload
Upload(r) ==
  /\ pc[r] = "idle"
  /\ \E s \in Sheets :
       jobs' = [jobs EXCEPT ![r] = [status |-> "UPLOADED", sheet |-> s, listed |-> {},
                                    rolledBack |-> FALSE]]
  /\ Goto(r, "done")
  /\ UNCHANGED <<live, dead, locals, history>>

\* POST /migration/jobs/:id/mapping builds the rows anew, whatever the status.
SaveColumnMapping(r) ==
  /\ pc[r] = "idle"
  /\ \E j \in Uploaded, s \in Sheets :
       /\ jobs' = [jobs EXCEPT ![j].sheet = s, ![j].status = "UPLOADED"]
       /\ DisturbIf(Starting(j) \cup Importing(j) \cup Rolling(j), j)
  /\ Goto(r, "done")
  /\ UNCHANGED <<live, dead, locals, begun, replaced>>

\* PATCH /migration/jobs/:id/rows/:rowIndex.  An edit lost to an overlapping one is an
\* edit not made.
UpdateRow(r) ==
  /\ pc[r] = "idle"
  /\ \E j \in Uploaded : \E i \in DOMAIN jobs[j].sheet, s \in Sheets : \E k \in DOMAIN s :
       jobs' = [jobs EXCEPT ![j].sheet[i] = s[k]]
  /\ Goto(r, "done")
  /\ UNCHANGED <<live, dead, locals, history>>

\* preview and validate set the status, whatever it was.
Mark(r) ==
  /\ pc[r] = "idle"
  /\ \E j \in Uploaded, s \in {"PREVIEWED", "VALIDATED"} :
       /\ jobs' = [jobs EXCEPT ![j].status = s]
       /\ DisturbIf(Starting(j) \cup Importing(j) \cup Rolling(j), j)
  /\ Goto(r, "done")
  /\ UNCHANGED <<live, dead, locals, begun, replaced>>

\* The parish enters a record or a family by hand.
Taken(n) == \E e \in live \cup dead : e.kind = "record" /\ e.key = n

EnterByHand(r) ==
  /\ pc[r] = "idle"
  /\ \E e \in [kind: {"record"}, key: {n \in Numbers : ~Taken(n)}, by: {Staff}, row: {0}]
              \cup [kind: {"family"}, key: Houses, by: {Staff}, row: {0}] :
       e \notin live \cup dead /\ live' = live \cup {e}
  /\ Goto(r, "done")
  /\ UNCHANGED <<jobs, dead, locals, history>>

-----------------------------------------------------------------------------
(* POST /migration/jobs/:id/import *)

\* Mutant: a job that is importing may be run.
MayRunAgain(j) == jobs[j].status # "COMPLETED"

MayRun(j) == jobs[j].status \notin {"COMPLETED", "IMPORTING"}

StartRun(r) ==
  /\ pc[r] = "idle"
  /\ \E j \in Uploaded :
       /\ MayRun(j)
       /\ target' = [target EXCEPT ![r] = j]
       /\ sheet' = [sheet EXCEPT ![r] = jobs[j].sheet]
       /\ DisturbIf(Starting(j) \cup Rolling(j), j)
  /\ Goto(r, "analyse")
  /\ UNCHANGED <<jobs, live, dead, errors, at, created, tally, begun, replaced>>

\* analyzeRows refuses a row without its number, and one whose number stands further up
\* in the sheet or in a record not deleted.
ErrorRows(s) ==
  {i \in DOMAIN s :
     \/ s[i].number = NoNumber
     \/ \E k \in 1 .. i - 1 : s[k].number = s[i].number
     \/ \E e \in live : e.kind = "record" /\ e.key = s[i].number}

Analyse(r) ==
  /\ pc[r] = "analyse"
  /\ errors' = [errors EXCEPT ![r] = ErrorRows(sheet[r])]
  /\ Goto(r, "begin")
  /\ UNCHANGED <<jobs, live, dead, target, sheet, at, created, tally, history>>

\* The job's list becomes that of run r.
List(r, job) ==
  /\ jobs' = [jobs EXCEPT ![target[r]] = job]
  /\ replaced' = replaced \cup (begun[target[r]] \ {r})

Begin(r) ==
  /\ pc[r] = "begin"
  /\ List(r, [jobs[target[r]] EXCEPT !.status = "IMPORTING", !.listed = {}])
  /\ begun' = [begun EXCEPT ![target[r]] = @ \cup {r}]
  /\ at' = [at EXCEPT ![r] = 1]
  /\ Goto(r, "row")
  /\ UNCHANGED <<live, dead, target, sheet, errors, created, tally, disturbed>>

Row(r)   == sheet[r][at[r]]
More(r)  == pc[r] = "row" /\ at[r] <= Len(sheet[r])
Add(r, es) == live' = live \cup es /\ created' = [created EXCEPT ![r] = @ \cup es]
New(r, kind, key) == [kind |-> kind, key |-> key, by |-> r, row |-> at[r]]

\* A refused row is passed over, and so is the saving of progress after it.
SkipRow(r) ==
  /\ More(r) /\ at[r] \in errors[r]
  /\ at' = [at EXCEPT ![r] = @ + 1]
  /\ UNCHANGED <<jobs, live, dead, pc, target, sheet, errors, created, tally, history>>

\* Unless the member is known, ensureFamily finds the family or creates it; either way
\* it is listed as created.
Household(r) ==
  /\ More(r) /\ at[r] \notin errors[r]
  /\ LET h     == Row(r).house
         found == {e \in live : e.kind = "family" /\ e.key = h} IN
     \/ UNCHANGED <<live, created>>
     \/ h # NoHouse /\ found = {} /\ Add(r, {New(r, "family", h)})
     \/ \E e \in found : Add(r, {e})
  /\ Goto(r, "insert")
  /\ UNCHANGED <<jobs, dead, target, sheet, errors, at, tally, history>>

Count(r, what) == tally' = [tally EXCEPT ![r][what] = @ + 1]

\* Where the run goes after the row it is at.
AfterRow(r) ==
  IF (at[r] - 1) % Batch = 0 \/ at[r] = Len(sheet[r])
    THEN Goto(r, "progress") /\ UNCHANGED at
    ELSE Goto(r, "row") /\ at' = [at EXCEPT ![r] = @ + 1]

\* Mutant: a record that is there already is listed as created.
InsertFound(r) ==
  /\ pc[r] = "insert"
  /\ \/ UNCHANGED <<live, created>> /\ Count(r, "failed")
     \/ /\ ~Taken(Row(r).number) /\ Add(r, {New(r, "record", Row(r).number)})
        /\ \E what \in {"imported", "failed"} : Count(r, what)
     \/ \E e \in live : /\ e.kind = "record" /\ e.key = Row(r).number
                        /\ Add(r, {e}) /\ Count(r, "imported")
  /\ AfterRow(r)
  /\ UNCHANGED <<jobs, dead, target, sheet, errors, history>>

\* The number is unique among the records, the deleted ones included.  The row may fail
\* before the record is written, and after it, at the certificate.
InsertRecord(r) ==
  /\ pc[r] = "insert"
  /\ \/ UNCHANGED <<live, created>> /\ Count(r, "failed")
     \/ /\ ~Taken(Row(r).number) /\ Add(r, {New(r, "record", Row(r).number)})
        /\ \E what \in {"imported", "failed"} : Count(r, what)
  /\ AfterRow(r)
  /\ UNCHANGED <<jobs, dead, target, sheet, errors, history>>

SaveProgress(r) ==
  /\ pc[r] = "progress"
  /\ List(r, [jobs[target[r]] EXCEPT !.listed = created[r]])
  /\ at' = [at EXCEPT ![r] = @ + 1]
  /\ Goto(r, "row")
  /\ UNCHANGED <<live, dead, target, sheet, errors, created, tally, begun, disturbed>>

\* Mutant: the last update leaves the list to the progress saved so far.
Unlisted(r) == [jobs[target[r]] EXCEPT !.status = "COMPLETED"]

Finished(r) ==
  [jobs[target[r]] EXCEPT
     !.status = IF tally[r].failed > 0 /\ tally[r].imported = 0 THEN "FAILED" ELSE "COMPLETED",
     !.listed = created[r]]

Finish(r) ==
  /\ pc[r] = "row" /\ at[r] > Len(sheet[r])
  /\ List(r, Finished(r))
  /\ Goto(r, "done")
  /\ UNCHANGED <<live, dead, locals, begun, disturbed>>

-----------------------------------------------------------------------------
(* POST /migration/jobs/:id/rollback *)

Rollback(r) ==
  /\ pc[r] = "idle"
  /\ \E j \in Uploaded :
       /\ jobs[j].status \in {"COMPLETED", "FAILED"} /\ ~jobs[j].rolledBack
       /\ target' = [target EXCEPT ![r] = j]
       /\ created' = [created EXCEPT ![r] = jobs[j].listed]
       /\ DisturbIf(Starting(j), j)
  /\ Goto(r, "records")
  /\ UNCHANGED <<jobs, live, dead, sheet, errors, at, tally, begun, replaced>>

Delete(r, kind) ==
  LET gone == {e \in created[r] : e.kind = kind} IN
  /\ live' = live \ gone
  /\ dead' = dead \cup gone
  /\ UNCHANGED <<jobs, locals, history>>

DeleteRecords(r)  == pc[r] = "records" /\ Delete(r, "record") /\ Goto(r, "families")
DeleteFamilies(r) == pc[r] = "families" /\ Delete(r, "family") /\ Goto(r, "mark")

MarkRolledBack(r) ==
  /\ pc[r] = "mark"
  /\ jobs' = [jobs EXCEPT ![target[r]].status = "ROLLED_BACK", ![target[r]].rolledBack = TRUE]
  /\ Goto(r, "done")
  /\ UNCHANGED <<live, dead, locals, history>>

-----------------------------------------------------------------------------

\* The server restarts, or a query outside a row's try fails.
Abort(r) ==
  /\ r \in Abortable /\ pc[r] \notin {"idle", "done", "failed"}
  /\ Goto(r, "failed")
  /\ UNCHANGED <<jobs, live, dead, locals, history>>

Init ==
  /\ jobs = [j \in Requests |-> NoJob]
  /\ live = {} /\ dead = {}
  /\ pc = [r \in Requests |-> "idle"]
  /\ target = [r \in Requests |-> NoJob]
  /\ sheet = [r \in Requests |-> <<>>]
  /\ errors = [r \in Requests |-> {}]
  /\ at = [r \in Requests |-> 0]
  /\ created = [r \in Requests |-> {}]
  /\ tally = [r \in Requests |-> [imported |-> 0, failed |-> 0]]
  /\ begun = [j \in Requests |-> {}]
  /\ replaced = {} /\ disturbed = {}

Next ==
  \E r \in Requests :
    \/ Upload(r) \/ SaveColumnMapping(r) \/ UpdateRow(r) \/ Mark(r) \/ EnterByHand(r)
    \/ StartRun(r) \/ Analyse(r) \/ Begin(r) \/ SkipRow(r) \/ Household(r)
    \/ InsertRecord(r) \/ SaveProgress(r) \/ Finish(r)
    \/ Rollback(r) \/ DeleteRecords(r) \/ DeleteFamilies(r) \/ MarkRolledBack(r)
    \/ Abort(r)

Spec == Init /\ [][Next]_vars

-----------------------------------------------------------------------------
(* Properties *)

\* The tables and what a request holds have the types the code gives them.
TypeOK ==
  /\ jobs \in [Requests -> Jobs \cup {NoJob}]
  /\ live \subseteq Written /\ dead \subseteq Written /\ live \cap dead = {}
  /\ pc \in [Requests -> {"idle", "analyse", "begin", "row", "insert", "progress", "records",
                          "families", "mark", "done", "failed"}]
  /\ target \in [Requests -> Requests \cup {NoJob}]
  /\ sheet \in [Requests -> Seq(Rows)]
  /\ errors \in [Requests -> SUBSET Nat] /\ at \in [Requests -> Nat]
  /\ created \in [Requests -> SUBSET Written]
  /\ tally \in [Requests -> [imported: Nat, failed: Nat]]
  /\ begun \in [Requests -> SUBSET Requests]
  /\ replaced \subseteq Requests /\ disturbed \subseteq Requests

\* "Import already in progress" (700): two runs are at one job only if both passed that
\* test before either wrote IMPORTING, or another call overwrote the status meanwhile.
OneRunAtATime ==
  \A j \in Requests : Cardinality(Importing(j)) > 1 => j \in disturbed

\* What a job that stands as rolled back left behind was written by a run whose list
\* another run replaced: a run's own list names all it wrote, failed rows included.
RollbackRemovesAll ==
  \A j \in Uploaded, e \in live :
    jobs[j].status = "ROLLED_BACK" /\ j \notin disturbed /\ e.by \in begun[j] => e.by \in replaced

\* A rollback deletes no record that a run of its own job did not write, whatever other
\* jobs and the parish's staff write meanwhile.
RollbackKeepsToItsJob ==
  [][\A e \in live \ live' :
       e.kind = "record" => \E r \in Requests : pc[r] = "records" /\ e.by \in begun[target[r]]]_vars

\* "Existing manually entered records will not be affected" (DataImportStudio.tsx:414).
HandmadeStays == \A e \in dead : e.by # Staff
===============================================================================
