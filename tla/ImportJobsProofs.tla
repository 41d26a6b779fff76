--------------------------- MODULE ImportJobsProofs ---------------------------
(***************************************************************************)
(* Proofs about ImportJobs, for any number of requests, sheets and rows:   *)
(* the types, that one run is at a job at a time, and what a rollback      *)
(* removes and leaves.                                                     *)
(***************************************************************************)
EXTENDS ImportJobs, FiniteSetTheorems, SequenceTheorems, TLAPS

JobStep(r)  == Upload(r) \/ SaveColumnMapping(r) \/ UpdateRow(r) \/ Mark(r) \/ EnterByHand(r)
RunStep(r)  == \/ StartRun(r) \/ Analyse(r) \/ Begin(r) \/ SkipRow(r) \/ Household(r)
               \/ InsertRecord(r) \/ SaveProgress(r) \/ Finish(r)
RollStep(r) == Rollback(r) \/ DeleteRecords(r) \/ DeleteFamilies(r) \/ MarkRolledBack(r) \/ Abort(r)
Step(r)     == JobStep(r) \/ RunStep(r) \/ RollStep(r)

\* Next is a step of some request.
LEMMA Steps == Next <=> \E r \in Requests : Step(r)
  BY DEF Next, Step, JobStep, RunStep, RollStep

-----------------------------------------------------------------------------
(* The inductive invariant *)

\* TypeOK, but for what keeps the live rows from the deleted ones.
Typed ==
  /\ jobs \in [Requests -> Jobs \cup {NoJob}]
  /\ live \subseteq Written /\ dead \subseteq Written
  /\ pc \in [Requests -> {"idle", "analyse", "begin", "row", "insert", "progress", "records",
                          "families", "mark", "done", "failed"}]
  /\ target \in [Requests -> Requests \cup {NoJob}]
  /\ sheet \in [Requests -> Seq(Rows)]
  /\ errors \in [Requests -> SUBSET Nat] /\ at \in [Requests -> Nat]
  /\ created \in [Requests -> SUBSET Written]
  /\ tally \in [Requests -> [imported: Nat, failed: Nat]]
  /\ begun \in [Requests -> SUBSET Requests]
  /\ replaced \subseteq Requests /\ disturbed \subseteq Requests

\* What a request holds at each stage: no job of its name, the job it is about, a row it
\* can read, a list of what it created.
HeldOK ==
  /\ \A r \in Requests : pc[r] = "idle" => jobs[r] = NoJob
  /\ \A r \in Requests :
       pc[r] \in {"analyse", "begin", "row", "insert", "progress", "records", "families", "mark"} =>
         target[r] \in Uploaded
  /\ \A r \in Requests : pc[r] \in {"idle", "analyse", "begin"} => created[r] = {}
  /\ \A r \in Requests : pc[r] \in {"begin", "row", "insert", "progress"} =>
       \A i \in DOMAIN sheet[r] : sheet[r][i].number = NoNumber => i \in errors[r]
  /\ \A r \in Requests : pc[r] \in {"row", "insert", "progress"} => at[r] >= 1
  /\ \A r \in Requests : pc[r] = "insert" => at[r] <= Len(sheet[r]) /\ at[r] \notin errors[r]

\* Who wrote what: a run that began is the one of its job, has written nothing before, and
\* lists all it wrote and no record of another.
Provenance ==
  /\ \A j \in Requests : \A r \in begun[j] :
       target[r] = j /\ pc[r] \in {"row", "insert", "progress", "done", "failed"}
  /\ \A r \in Requests : pc[r] \in {"row", "insert", "progress"} => r \in begun[target[r]]
  /\ \A e \in live : e.by \in Requests => pc[e.by] \in {"row", "insert", "progress", "done", "failed"}
  /\ \A r \in Requests : pc[r] \in {"row", "insert", "progress"} =>
       /\ \A e \in live : e.by = r => e \in created[r]
       /\ \A e \in created[r] : e.kind = "record" => e.by = r
  /\ \A j \in Uploaded : \A e \in jobs[j].listed : e.kind = "record" => e.by \in begun[j]
  /\ \A r \in Requests : pc[r] \in {"records", "families", "mark"} =>
       \A e \in created[r] : e.kind = "record" => e.by \in begun[target[r]]

\* What is left of the runs of a job whose list no other run replaced.
Left(e, j) == e.by \in begun[j] /\ e.by \notin replaced

Writing  == {"row", "insert", "progress"}
Wrote    == Writing \cup {"done", "failed"}
Deleting == {"records", "families", "mark"}
WritesAt(r, j)  == target[r] = j /\ pc[r] \in Writing
RunsAt(r, j)    == target[r] = j /\ pc[r] \in Writing \cup {"analyse", "begin"}
DeletesAt(r, j) == target[r] = j /\ pc[r] \in Deleting

\* A job no two calls were at together: one run at a time, none while it is rolled back; its
\* list names all that is left of it, and what a rollback has passed is gone.
Calm(j) ==
  /\ \A r \in Requests : WritesAt(r, j) => jobs[j].status = "IMPORTING"
  /\ \A r1, r2 \in Requests : RunsAt(r1, j) /\ RunsAt(r2, j) => r1 = r2
  /\ \A r1, r2 \in Requests : ~(RunsAt(r1, j) /\ DeletesAt(r2, j))
  /\ \A r \in Requests : DeletesAt(r, j) => jobs[j].status \in {"COMPLETED", "FAILED", "ROLLED_BACK"}
  /\ jobs[j].status \in {"COMPLETED", "FAILED"} => \A e \in live : Left(e, j) => e \in jobs[j].listed
  /\ jobs[j].status = "ROLLED_BACK" => \A e \in live : ~Left(e, j)
  /\ \A r \in Requests : DeletesAt(r, j) => \A e \in live : Left(e, j) =>
       /\ e \in created[r]
       /\ pc[r] \in {"families", "mark"} => e.kind # "record"
       /\ pc[r] # "mark"

CalmUnlessDisturbed == \A j \in Uploaded : j \in disturbed \/ Calm(j)

\* Every row of a table is written once: a run is past the rows it wrote, and a list names
\* rows that were written.
Fresh ==
  /\ live \cap dead = {}
  /\ \A e \in live \cup dead : e.by \in Requests =>
       /\ pc[e.by] \in Wrote
       /\ e.row <= at[e.by]
       /\ pc[e.by] = "row" => e.row < at[e.by]
       /\ pc[e.by] = "insert" /\ e.row = at[e.by] => e.kind = "family"
  /\ \A r \in Requests : created[r] \subseteq live \cup dead
  /\ \A j \in Uploaded : jobs[j].listed \subseteq live \cup dead

IInv == Typed /\ HeldOK /\ Provenance /\ CalmUnlessDisturbed /\ Fresh

-----------------------------------------------------------------------------
(* Types *)

\* A job stays one whatever of it a call changes.
LEMMA JobChanges ==
  ASSUME NEW job \in Jobs
  PROVE  /\ job.status \in Status /\ job.sheet \in Seq(Rows) /\ job.listed \subseteq Written
         /\ \A s \in Seq(Rows) : [job EXCEPT !.sheet = s] \in Jobs
         /\ \A s \in Status : [job EXCEPT !.status = s] \in Jobs
         /\ \A s \in Status, l \in SUBSET Written : [job EXCEPT !.status = s, !.listed = l] \in Jobs
         /\ \A s \in Status, b \in BOOLEAN : [job EXCEPT !.status = s, !.rolledBack = b] \in Jobs
         /\ \A s \in Status, t \in Seq(Rows) : [job EXCEPT !.sheet = t, !.status = s] \in Jobs
         /\ \A l \in SUBSET Written : [job EXCEPT !.listed = l] \in Jobs
  BY DEF Jobs

\* Only an uploaded job is changed, and a new one is named after its request.
JobsGrow(r) ==
  /\ \A j \in Uploaded : jobs'[j] \in Jobs
  /\ \A j \in Requests \ {r} : jobs[j] = NoJob => jobs'[j] = NoJob

LEMMA JobsTyped ==
  ASSUME Typed, HeldOK, NEW r \in Requests, Step(r)
  PROVE  jobs' \in [Requests -> Jobs \cup {NoJob}] /\ JobsGrow(r)
<1>1. /\ jobs \in [Requests -> Jobs \cup {NoJob}] /\ created \in [Requests -> SUBSET Written]
      /\ \A j \in Uploaded : j \in Requests /\ jobs[j] \in Jobs
  BY DEF Typed, Uploaded
<1>2. CASE jobs' = jobs
  BY <1>1, <1>2 DEF JobsGrow, Uploaded
<1>3. ASSUME NEW j \in Uploaded, NEW job \in Jobs, jobs' = [jobs EXCEPT ![j] = job]
      PROVE  jobs' \in [Requests -> Jobs \cup {NoJob}] /\ JobsGrow(r)
  BY <1>1, <1>3 DEF JobsGrow, Uploaded
<1>4. CASE Upload(r)
  <2>1. PICK s \in Sheets : jobs' = [jobs EXCEPT ![r] = [status |-> "UPLOADED", sheet |-> s, listed |-> {},
                                                         rolledBack |-> FALSE]]
    BY <1>4 DEF Upload
  <2> DEFINE job == [status |-> "UPLOADED", sheet |-> s, listed |-> {}, rolledBack |-> FALSE]
  <2>2. job \in Jobs
    BY SheetsAssumption DEF Jobs, Status
  <2>3. jobs' = [jobs EXCEPT ![r] = job]
    BY <2>1
  <2> HIDE DEF job
  <2> QED
    BY <1>1, <2>2, <2>3 DEF JobsGrow, Uploaded
<1>5. CASE SaveColumnMapping(r)
  <2>1. PICK j \in Uploaded, s \in Sheets : jobs' = [jobs EXCEPT ![j].sheet = s, ![j].status = "UPLOADED"]
    BY <1>5 DEF SaveColumnMapping
  <2> DEFINE job == [jobs[j] EXCEPT !.sheet = s, !.status = "UPLOADED"]
  <2>2. job \in Jobs
    BY <1>1, JobChanges, SheetsAssumption DEF Status
  <2>3. jobs' = [jobs EXCEPT ![j] = job]
    BY <1>1, <2>1
  <2> HIDE DEF job
  <2> QED
    BY <1>3, <2>2, <2>3
<1>6. CASE UpdateRow(r)
  <2>1. PICK j \in Uploaded : \E i \in DOMAIN jobs[j].sheet, s \in Sheets : \E k \in DOMAIN s :
          jobs' = [jobs EXCEPT ![j].sheet[i] = s[k]]
    BY <1>6 DEF UpdateRow
  <2>2. PICK i \in DOMAIN jobs[j].sheet, s \in Sheets : \E k \in DOMAIN s :
          jobs' = [jobs EXCEPT ![j].sheet[i] = s[k]]
    BY <2>1
  <2>3. PICK k \in DOMAIN s : jobs' = [jobs EXCEPT ![j].sheet[i] = s[k]]
    BY <2>2
  <2> DEFINE new == [jobs[j].sheet EXCEPT ![i] = s[k]]
             job == [jobs[j] EXCEPT !.sheet = new]
  <2>4. s \in Seq(Rows) /\ jobs[j].sheet \in Seq(Rows)
    BY <1>1, JobChanges, SheetsAssumption
  <2>5. k \in 1 .. Len(s) /\ i \in 1 .. Len(jobs[j].sheet)
    BY <2>4, LenProperties
  <2>6. s[k] \in Rows
    BY <2>4, <2>5, ElementOfSeq
  <2>7. new \in Seq(Rows)
    BY <2>4, <2>5, <2>6, ExceptSeq
  <2>8. jobs' = [jobs EXCEPT ![j] = job]
    BY <1>1, <2>3
  <2> HIDE DEF new
  <2>9. job \in Jobs
    BY <1>1, <2>7, JobChanges
  <2> HIDE DEF job
  <2> QED
    BY <1>3, <2>8, <2>9
<1>7. CASE Mark(r)
  <2>1. PICK j \in Uploaded, s \in {"PREVIEWED", "VALIDATED"} : jobs' = [jobs EXCEPT ![j].status = s]
    BY <1>7 DEF Mark
  <2> DEFINE job == [jobs[j] EXCEPT !.status = s]
  <2>2. job \in Jobs
    BY <1>1, JobChanges DEF Status
  <2>3. jobs' = [jobs EXCEPT ![j] = job]
    BY <1>1, <2>1
  <2> HIDE DEF job
  <2> QED
    BY <1>3, <2>2, <2>3
<1>8. ASSUME NEW s \in Status, NEW l \in SUBSET Written, target[r] \in Uploaded,
             jobs' = [jobs EXCEPT ![target[r]] = [jobs[target[r]] EXCEPT !.status = s, !.listed = l]]
      PROVE  jobs' \in [Requests -> Jobs \cup {NoJob}] /\ JobsGrow(r)
  <2> DEFINE job == [jobs[target[r]] EXCEPT !.status = s, !.listed = l]
  <2>1. job \in Jobs
    BY <1>1, <1>8, JobChanges
  <2>2. jobs' = [jobs EXCEPT ![target[r]] = job]
    BY <1>8
  <2> HIDE DEF job
  <2> QED
    BY <1>3, <1>8, <2>1, <2>2
<1>9. CASE Begin(r)
  <2>1. target[r] \in Uploaded
    BY <1>9 DEF Begin, HeldOK
  <2>2. jobs' = [jobs EXCEPT ![target[r]] = [jobs[target[r]] EXCEPT !.status = "IMPORTING", !.listed = {}]]
    BY <1>9 DEF Begin, List
  <2>3. "IMPORTING" \in Status /\ {} \in SUBSET Written
    BY DEF Status
  <2> QED
    BY <1>8, <2>1, <2>2, <2>3
<1>10. CASE SaveProgress(r)
  <2>1. target[r] \in Uploaded
    BY <1>10 DEF SaveProgress, HeldOK
  <2> DEFINE job == [jobs[target[r]] EXCEPT !.listed = created[r]]
  <2>2. job \in Jobs
    BY <1>1, <2>1, JobChanges
  <2>3. jobs' = [jobs EXCEPT ![target[r]] = job]
    BY <1>10 DEF SaveProgress, List
  <2> HIDE DEF job
  <2> QED
    BY <1>3, <2>1, <2>2, <2>3
<1>11. CASE Finish(r)
  <2>1. target[r] \in Uploaded
    BY <1>11 DEF Finish, HeldOK
  <2> DEFINE s == IF tally[r].failed > 0 /\ tally[r].imported = 0 THEN "FAILED" ELSE "COMPLETED"
  <2>2. jobs' = [jobs EXCEPT ![target[r]] = [jobs[target[r]] EXCEPT !.status = s, !.listed = created[r]]]
    BY <1>11 DEF Finish, Finished, List
  <2>3. s \in Status /\ created[r] \in SUBSET Written
    BY <1>1 DEF Status
  <2> HIDE DEF s
  <2> QED
    BY <1>8, <2>1, <2>2, <2>3
<1>12. CASE MarkRolledBack(r)
  <2>1. target[r] \in Uploaded
    BY <1>12 DEF MarkRolledBack, HeldOK
  <2> DEFINE job == [jobs[target[r]] EXCEPT !.status = "ROLLED_BACK", !.rolledBack = TRUE]
  <2>2. job \in Jobs
    BY <1>1, <2>1, JobChanges DEF Status
  <2>3. jobs' = [jobs EXCEPT ![target[r]] = job]
    BY <1>1, <1>12, <2>1 DEF MarkRolledBack
  <2> HIDE DEF job
  <2> QED
    BY <1>3, <2>1, <2>2, <2>3
<1>13. CASE JobStep(r)
  BY <1>2, <1>4, <1>5, <1>6, <1>7, <1>13 DEF JobStep, EnterByHand
<1>14. CASE RunStep(r)
  BY <1>2, <1>9, <1>10, <1>11, <1>14 DEF RunStep, StartRun, Analyse, SkipRow, Household, InsertRecord
<1>15. CASE RollStep(r)
  BY <1>2, <1>12, <1>15 DEF RollStep, Rollback, DeleteRecords, DeleteFamilies, Delete, Abort
<1> QED
  BY <1>13, <1>14, <1>15 DEF Step

\* The row a run is at is one of its sheet; what it writes for it has the type of a record
\* or a family.
LEMMA RowTyped ==
  ASSUME Typed, HeldOK, NEW r \in Requests, pc[r] \in {"row", "insert"}, at[r] <= Len(sheet[r]),
         at[r] \notin errors[r]
  PROVE  /\ Row(r) \in Rows /\ at[r] \in DOMAIN sheet[r]
         /\ Row(r).number \in Numbers /\ New(r, "record", Row(r).number) \in Written
         /\ Row(r).house # NoHouse => New(r, "family", Row(r).house) \in Written
<1>1. sheet[r] \in Seq(Rows) /\ at[r] \in Nat /\ at[r] >= 1
  BY DEF Typed, HeldOK
<1>2. at[r] \in 1 .. Len(sheet[r]) /\ DOMAIN sheet[r] = 1 .. Len(sheet[r])
  BY <1>1, LenProperties
<1>3. Row(r) \in Rows
  BY <1>1, <1>2, ElementOfSeq DEF Row
<1>4. Row(r).number # NoNumber
  BY <1>2 DEF HeldOK, Row
<1>5. Row(r).number \in Numbers /\ (Row(r).house # NoHouse => Row(r).house \in Houses)
  BY <1>3, <1>4 DEF Rows
<1>6. New(r, "record", Row(r).number) \in Written
  BY <1>1, <1>5 DEF New, Written
<1>7. Row(r).house # NoHouse => New(r, "family", Row(r).house) \in Written
  BY <1>1, <1>5 DEF New, Written
<1> QED
  BY <1>2, <1>3, <1>5, <1>6, <1>7

\* The locals of a request are its own.
Frame(r) ==
  \A q \in Requests \ {r} : /\ pc'[q] = pc[q] /\ target'[q] = target[q] /\ sheet'[q] = sheet[q]
                            /\ errors'[q] = errors[q] /\ at'[q] = at[q] /\ created'[q] = created[q]

LEMMA OwnLocals == ASSUME Typed, NEW r \in Requests, Step(r) PROVE Frame(r)
<1> USE DEF Goto, Frame, Typed, locals, Add, Count, AfterRow
<1>1. CASE JobStep(r)
  BY <1>1 DEF JobStep, Upload, SaveColumnMapping, UpdateRow, Mark, EnterByHand
<1>2. CASE RunStep(r)
  <2>1. CASE StartRun(r) \/ Analyse(r) \/ Begin(r) \/ SkipRow(r)
    BY <2>1 DEF StartRun, Analyse, Begin, SkipRow
  <2>2. CASE Household(r)
    BY <2>2 DEF Household
  <2>3. CASE InsertRecord(r)
    BY <2>3 DEF InsertRecord
  <2>4. CASE SaveProgress(r) \/ Finish(r)
    BY <2>4 DEF SaveProgress, Finish
  <2> QED
    BY <1>2, <2>1, <2>2, <2>3, <2>4 DEF RunStep
<1>3. CASE RollStep(r)
  BY <1>3 DEF RollStep, Rollback, DeleteRecords, DeleteFamilies, Delete, MarkRolledBack, Abort
<1> QED
  BY <1>1, <1>2, <1>3 DEF Step

Stages == {"idle", "analyse", "begin", "row", "insert", "progress", "records", "families", "mark",
           "done", "failed"}
LocalsOK ==
  /\ pc \in [Requests -> Stages]
  /\ target \in [Requests -> Requests \cup {NoJob}]
  /\ sheet \in [Requests -> Seq(Rows)]
  /\ errors \in [Requests -> SUBSET Nat] /\ at \in [Requests -> Nat]
  /\ created \in [Requests -> SUBSET Written]
  /\ tally \in [Requests -> [imported: Nat, failed: Nat]]
RowsOK    == live \subseteq Written /\ dead \subseteq Written
HistoryOK == begun \in [Requests -> SUBSET Requests] /\ replaced \subseteq Requests /\ disturbed \subseteq Requests

LEMMA TypeParts == Typed <=> jobs \in [Requests -> Jobs \cup {NoJob}] /\ LocalsOK /\ RowsOK /\ HistoryOK
  BY DEF Typed, LocalsOK, RowsOK, HistoryOK, Stages

LEMMA TypePartsNext ==
  Typed' <=> jobs' \in [Requests -> Jobs \cup {NoJob}] /\ LocalsOK' /\ RowsOK' /\ HistoryOK'
  BY DEF Typed, LocalsOK, RowsOK, HistoryOK, Stages

LEMMA HistoryTyped == ASSUME Typed, HeldOK, NEW r \in Requests, Step(r) PROVE HistoryOK'
<1> USE DEF DisturbIf, Typed, HistoryOK, history
<1>1. CASE JobStep(r)
  BY <1>1 DEF JobStep, Upload, SaveColumnMapping, UpdateRow, Mark, EnterByHand, Uploaded
<1>2. CASE RunStep(r)
  <2>1. CASE StartRun(r)
    BY <2>1 DEF StartRun, Uploaded
  <2>2. CASE Begin(r)
    <3>1. target[r] \in Requests
      BY <2>2 DEF Begin, HeldOK, Uploaded
    <3> QED
      BY <2>2, <3>1 DEF Begin, List
  <2>3. CASE SaveProgress(r) \/ Finish(r)
    <3>1. target[r] \in Requests
      BY <2>3 DEF SaveProgress, Finish, HeldOK, Uploaded
    <3> QED
      BY <2>3, <3>1 DEF SaveProgress, Finish, List
  <2> QED
    BY <1>2, <2>1, <2>2, <2>3 DEF RunStep, Analyse, SkipRow, Household, InsertRecord
<1>3. CASE RollStep(r)
  BY <1>3 DEF RollStep, Rollback, DeleteRecords, DeleteFamilies, Delete, MarkRolledBack, Abort, Uploaded
<1> QED
  BY <1>1, <1>2, <1>3 DEF Step

\* Household and InsertRecord add to the live rows what they add to the run's list: what is
\* live already, or one row of their own.
LEMMA RunAdds ==
  ASSUME Typed, HeldOK, NEW r \in Requests, Household(r) \/ InsertRecord(r)
  PROVE  \E es \in SUBSET Written :
           /\ live' = live \cup es /\ created' = [created EXCEPT ![r] = created[r] \cup es]
           /\ \A e \in es : e \in live \/ e.by = r
           /\ \A e \in es : e.kind = "record" => e.by = r
<1>1. created \in [Requests -> SUBSET Written] /\ live \subseteq Written
  BY DEF Typed
<1>2. CASE live' = live /\ created' = created
  <2>1. live' = live \cup {} /\ created' = [created EXCEPT ![r] = created[r] \cup {}]
    BY <1>1, <1>2
  <2>2. {} \in SUBSET Written /\ \A e \in {} : FALSE
    OBVIOUS
  <2> QED
    BY <2>1, <2>2
<1>3. ASSUME NEW e \in Written, Add(r, {e}), e \in live \/ e.by = r, e.kind = "record" => e.by = r
      PROVE  \E es \in SUBSET Written :
               /\ live' = live \cup es /\ created' = [created EXCEPT ![r] = created[r] \cup es]
               /\ \A d \in es : d \in live \/ d.by = r
               /\ \A d \in es : d.kind = "record" => d.by = r
  <2>1. {e} \in SUBSET Written /\ live' = live \cup {e}
        /\ created' = [created EXCEPT ![r] = created[r] \cup {e}]
    BY <1>3 DEF Add
  <2> QED
    BY <1>3, <2>1
<1>4. CASE Household(r)
  <2>1. pc[r] = "row" /\ at[r] <= Len(sheet[r]) /\ at[r] \notin errors[r]
    BY <1>4 DEF Household, More
  <2>2. Row(r).house # NoHouse => New(r, "family", Row(r).house) \in Written
    BY <2>1, RowTyped
  <2>3. /\ New(r, "family", Row(r).house).by = r
        /\ New(r, "family", Row(r).house).kind = "family"
    BY DEF New
  <2>4. \/ live' = live /\ created' = created
        \/ Row(r).house # NoHouse /\ Add(r, {New(r, "family", Row(r).house)})
        \/ \E e \in live : e.kind = "family" /\ Add(r, {e})
    BY <1>4 DEF Household
  <2>5. CASE Row(r).house # NoHouse /\ Add(r, {New(r, "family", Row(r).house)})
    <3> PICK e : e = New(r, "family", Row(r).house)
      OBVIOUS
    <3> QED
      BY <1>3, <2>2, <2>3, <2>5
  <2>6. CASE \E e \in live : e.kind = "family" /\ Add(r, {e})
    <3>1. PICK e \in live : e.kind = "family" /\ Add(r, {e})
      BY <2>6
    <3>2. e \in Written /\ e.kind # "record"
      BY <3>1, <1>1
    <3> QED
      BY <1>3, <3>1, <3>2
  <2> QED
    BY <1>2, <2>4, <2>5, <2>6
<1>5. CASE InsertRecord(r)
  <2>1. pc[r] = "insert" /\ at[r] <= Len(sheet[r]) /\ at[r] \notin errors[r]
    BY <1>5 DEF InsertRecord, HeldOK
  <2>2. New(r, "record", Row(r).number) \in Written
    BY <2>1, RowTyped
  <2>3. New(r, "record", Row(r).number).by = r
    BY DEF New
  <2>4. \/ live' = live /\ created' = created
        \/ Add(r, {New(r, "record", Row(r).number)})
    BY <1>5 DEF InsertRecord
  <2> QED
    BY <1>2, <1>3, <2>2, <2>3, <2>4
<1> QED
  BY <1>4, <1>5

LEMMA RowsTyped == ASSUME Typed, HeldOK, NEW r \in Requests, Step(r) PROVE RowsOK'
<1>1. RowsOK /\ created \in [Requests -> SUBSET Written]
  BY DEF Typed, RowsOK
<1>2. CASE UNCHANGED <<live, dead>>
  BY <1>1, <1>2 DEF RowsOK
<1>3. CASE EnterByHand(r)
  <2>1. PICK e \in [kind: {"record"}, key: {n \in Numbers : ~Taken(n)}, by: {Staff}, row: {0}]
                   \cup [kind: {"family"}, key: Houses, by: {Staff}, row: {0}] : live' = live \cup {e}
    BY <1>3 DEF EnterByHand
  <2>2. e \in Written
    BY DEF Written
  <2>3. dead' = dead
    BY <1>3 DEF EnterByHand
  <2> QED
    BY <1>1, <2>1, <2>2, <2>3 DEF RowsOK
<1>4. CASE Household(r) \/ InsertRecord(r)
  <2>1. dead' = dead
    BY <1>4 DEF Household, InsertRecord
  <2> QED
    BY <1>1, <1>4, <2>1, RunAdds DEF RowsOK
<1>5. CASE DeleteRecords(r) \/ DeleteFamilies(r)
  BY <1>1, <1>5 DEF DeleteRecords, DeleteFamilies, Delete, RowsOK
<1>6. CASE JobStep(r)
  BY <1>2, <1>3, <1>6 DEF JobStep, Upload, SaveColumnMapping, UpdateRow, Mark
<1>7. CASE RunStep(r)
  BY <1>2, <1>4, <1>7 DEF RunStep, StartRun, Analyse, Begin, SkipRow, SaveProgress, Finish
<1>8. CASE RollStep(r)
  BY <1>2, <1>5, <1>8 DEF RollStep, Rollback, MarkRolledBack, Abort
<1> QED
  BY <1>6, <1>7, <1>8 DEF Step

LEMMA LocalsTyped == ASSUME Typed, HeldOK, NEW r \in Requests, Step(r) PROVE LocalsOK'
<1> USE DEF Goto, Stages
<1>1. LocalsOK /\ jobs \in [Requests -> Jobs \cup {NoJob}]
  BY DEF Typed, LocalsOK
<1>2. \A j \in Uploaded : j \in Requests /\ jobs[j].sheet \in Seq(Rows) /\ jobs[j].listed \subseteq Written
  BY <1>1, JobChanges DEF Uploaded
<1>3. CASE JobStep(r)
  BY <1>1, <1>3 DEF JobStep, Upload, SaveColumnMapping, UpdateRow, Mark, EnterByHand, LocalsOK, locals
<1>4. CASE StartRun(r)
  <2>1. PICK j \in Uploaded : target' = [target EXCEPT ![r] = j] /\ sheet' = [sheet EXCEPT ![r] = jobs[j].sheet]
    BY <1>4 DEF StartRun
  <2>2. pc' = [pc EXCEPT ![r] = "analyse"] /\ UNCHANGED <<errors, at, created, tally>>
    BY <1>4 DEF StartRun
  <2> QED
    BY <1>1, <1>2, <2>1, <2>2 DEF LocalsOK
<1>5. CASE Analyse(r)
  <2>1. ErrorRows(sheet[r]) \subseteq Nat
    <3>1. DOMAIN sheet[r] = 1 .. Len(sheet[r]) /\ Len(sheet[r]) \in Nat
      BY <1>1, LenProperties DEF LocalsOK
    <3> QED
      BY <3>1 DEF ErrorRows
  <2> QED
    BY <1>1, <1>5, <2>1 DEF Analyse, LocalsOK
<1>6. CASE Begin(r) \/ SkipRow(r) \/ SaveProgress(r) \/ Finish(r)
  <2>1. /\ \/ pc' = pc
           \/ \E s \in {"row", "done"} : pc' = [pc EXCEPT ![r] = s]
        /\ at' = at \/ at' = [at EXCEPT ![r] = 1] \/ at' = [at EXCEPT ![r] = at[r] + 1]
        /\ UNCHANGED <<target, sheet, errors, created, tally>>
    BY <1>6 DEF Begin, SkipRow, SaveProgress, Finish, locals
  <2>2. pc \in [Requests -> Stages] /\ at \in [Requests -> Nat]
    BY <1>1 DEF LocalsOK
  <2>3. pc' \in [Requests -> Stages]
    BY <2>1, <2>2
  <2>4. at' \in [Requests -> Nat]
    BY <2>1, <2>2
  <2> QED
    BY <1>1, <2>1, <2>3, <2>4 DEF LocalsOK
<1>7. ASSUME Household(r) \/ InsertRecord(r) PROVE created' \in [Requests -> SUBSET Written]
  <2>1. PICK es \in SUBSET Written : created' = [created EXCEPT ![r] = created[r] \cup es]
    BY <1>7, RunAdds
  <2> QED
    BY <1>1, <2>1 DEF LocalsOK
<1>8. CASE Household(r)
  <2>1. pc' = [pc EXCEPT ![r] = "insert"] /\ UNCHANGED <<target, sheet, errors, at, tally>>
    BY <1>8 DEF Household
  <2>2. pc' \in [Requests -> Stages]
    BY <1>1, <2>1 DEF LocalsOK
  <2>3. created' \in [Requests -> SUBSET Written]
    BY <1>7, <1>8
  <2> QED
    BY <1>1, <2>1, <2>2, <2>3 DEF LocalsOK
<1>9. CASE InsertRecord(r)
  <2>1. pc' \in [Requests -> Stages] /\ at' \in [Requests -> Nat]
    <3>1. \/ pc' = [pc EXCEPT ![r] = "progress"] /\ at' = at
          \/ pc' = [pc EXCEPT ![r] = "row"] /\ at' = [at EXCEPT ![r] = at[r] + 1]
      BY <1>9 DEF InsertRecord, AfterRow
    <3>2. pc \in [Requests -> Stages] /\ at \in [Requests -> Nat]
      BY <1>1 DEF LocalsOK
    <3>3. pc' \in [Requests -> Stages]
      BY <3>1, <3>2
    <3>4. at' \in [Requests -> Nat]
      BY <3>1, <3>2
    <3> QED
      BY <3>3, <3>4
  <2>2. tally' \in [Requests -> [imported: Nat, failed: Nat]]
    <3>1. PICK what \in {"imported", "failed"} : tally' = [tally EXCEPT ![r][what] = @ + 1]
      BY <1>9 DEF InsertRecord, Count
    <3>2. tally[r] \in [imported: Nat, failed: Nat]
      BY <1>1 DEF LocalsOK
    <3> DEFINE new == [tally[r] EXCEPT ![what] = @ + 1]
    <3>3. new \in [imported: Nat, failed: Nat]
      BY <3>2
    <3>4. tally' = [tally EXCEPT ![r] = new]
      BY <3>1
    <3> HIDE DEF new
    <3> QED
      BY <1>1, <3>3, <3>4 DEF LocalsOK
  <2>3. UNCHANGED <<target, sheet, errors>>
    BY <1>9 DEF InsertRecord
  <2> QED
    BY <1>1, <1>7, <1>9, <2>1, <2>2, <2>3 DEF LocalsOK
<1>10. CASE Rollback(r)
  <2>1. PICK j \in Uploaded : target' = [target EXCEPT ![r] = j] /\ created' = [created EXCEPT ![r] = jobs[j].listed]
    BY <1>10 DEF Rollback
  <2>2. pc' = [pc EXCEPT ![r] = "records"] /\ UNCHANGED <<sheet, errors, at, tally>>
    BY <1>10 DEF Rollback
  <2> QED
    BY <1>1, <1>2, <2>1, <2>2 DEF LocalsOK
<1>11. CASE DeleteRecords(r) \/ DeleteFamilies(r) \/ MarkRolledBack(r) \/ Abort(r)
  BY <1>1, <1>11 DEF DeleteRecords, DeleteFamilies, Delete, MarkRolledBack, Abort, LocalsOK, locals
<1> QED
  BY <1>3, <1>4, <1>5, <1>6, <1>8, <1>9, <1>10, <1>11 DEF Step, RunStep, RollStep

\* Every step keeps the types.
LEMMA TypeStep == ASSUME Typed, HeldOK, NEW r \in Requests, Step(r) PROVE Typed'
  BY JobsTyped, LocalsTyped, RowsTyped, HistoryTyped, TypePartsNext

\* HeldOK, for one request.
Held(r) ==
  /\ pc[r] = "idle" => jobs[r] = NoJob
  /\ pc[r] \in {"analyse", "begin", "row", "insert", "progress", "records", "families", "mark"} =>
       target[r] \in Uploaded
  /\ pc[r] \in {"idle", "analyse", "begin"} => created[r] = {}
  /\ pc[r] \in {"begin", "row", "insert", "progress"} =>
       \A i \in DOMAIN sheet[r] : sheet[r][i].number = NoNumber => i \in errors[r]
  /\ pc[r] \in {"row", "insert", "progress"} => at[r] >= 1
  /\ pc[r] = "insert" => at[r] <= Len(sheet[r]) /\ at[r] \notin errors[r]

LEMMA UploadedStay == ASSUME Typed, HeldOK, NEW r \in Requests, Step(r) PROVE Uploaded \subseteq Uploaded'
  BY JobsTyped, NamesAssumption DEF JobsGrow, Uploaded

\* The stage a call is at tells what it has settled.
LEMMA OwnHeld == ASSUME Typed, HeldOK, NEW r \in Requests, Step(r) PROVE Held(r)'
<1> USE DEF Goto
<1>1. /\ pc \in [Requests -> Stages] /\ target \in [Requests -> Requests \cup {NoJob}]
      /\ at \in [Requests -> Nat] /\ created \in [Requests -> SUBSET Written]
  BY DEF Typed, Stages
<1>2. sheet \in [Requests -> Seq(Rows)] /\ errors \in [Requests -> SUBSET Nat]
  BY DEF Typed
<1>3. Held(r) /\ Uploaded \subseteq Uploaded'
  BY UploadedStay DEF HeldOK, Held
<1>4. CASE pc'[r] \in {"done", "failed"}
  BY <1>4 DEF Held
<1>5. CASE JobStep(r)
  BY <1>1, <1>4, <1>5 DEF JobStep, Upload, SaveColumnMapping, UpdateRow, Mark, EnterByHand
<1>6. CASE StartRun(r)
  <2>1. PICK j \in Uploaded : target' = [target EXCEPT ![r] = j]
    BY <1>6 DEF StartRun
  <2>2. pc[r] = "idle" /\ pc'[r] = "analyse" /\ created' = created
    BY <1>1, <1>6 DEF StartRun
  <2> QED
    BY <1>1, <1>3, <2>1, <2>2 DEF Held
<1>7. CASE Analyse(r)
  <2>1. pc'[r] = "begin" /\ UNCHANGED <<target, sheet, created>> /\ pc[r] = "analyse"
    BY <1>1, <1>7 DEF Analyse
  <2>2. errors'[r] = ErrorRows(sheet[r])
    BY <1>2, <1>7 DEF Analyse
  <2>3. \A i \in DOMAIN sheet[r] : sheet[r][i].number = NoNumber => i \in ErrorRows(sheet[r])
    BY DEF ErrorRows
  <2> QED
    BY <1>3, <2>1, <2>2, <2>3 DEF Held
<1>8. CASE Begin(r)
  <2>1. pc[r] = "begin" /\ pc'[r] = "row" /\ at'[r] = 1 /\ UNCHANGED <<target, sheet, errors>>
    BY <1>1, <1>8 DEF Begin
  <2> QED
    BY <1>3, <2>1 DEF Held
<1>9. CASE SkipRow(r)
  <2>1. pc[r] = "row" /\ pc' = pc /\ at'[r] = at[r] + 1 /\ UNCHANGED <<target, sheet, errors>>
    BY <1>1, <1>9 DEF SkipRow, More
  <2> QED
    BY <1>1, <1>3, <2>1 DEF Held
<1>10. CASE Household(r)
  <2>1. /\ pc[r] = "row" /\ pc'[r] = "insert" /\ UNCHANGED <<target, sheet, errors, at>>
        /\ at[r] <= Len(sheet[r]) /\ at[r] \notin errors[r]
    BY <1>1, <1>10 DEF Household, More
  <2> QED
    BY <1>3, <2>1 DEF Held
<1>11. CASE InsertRecord(r)
  <2>1. pc[r] = "insert" /\ UNCHANGED <<target, sheet, errors>>
    BY <1>11 DEF InsertRecord
  <2>2. \/ pc' = [pc EXCEPT ![r] = "progress"] /\ at' = at
        \/ pc' = [pc EXCEPT ![r] = "row"] /\ at' = [at EXCEPT ![r] = at[r] + 1]
    BY <1>11 DEF InsertRecord, AfterRow
  <2>3. (pc'[r] = "progress" /\ at'[r] = at[r]) \/ (pc'[r] = "row" /\ at'[r] = at[r] + 1)
    BY <1>1, <2>2
  <2> QED
    BY <1>1, <1>3, <2>1, <2>3 DEF Held
<1>12. CASE SaveProgress(r)
  <2>1. pc[r] = "progress" /\ pc'[r] = "row" /\ at'[r] = at[r] + 1 /\ UNCHANGED <<target, sheet, errors>>
    BY <1>1, <1>12 DEF SaveProgress
  <2> QED
    BY <1>1, <1>3, <2>1 DEF Held
<1>13. CASE Finish(r)
  BY <1>1, <1>4, <1>13 DEF Finish
<1>14. CASE Rollback(r)
  <2>1. PICK j \in Uploaded : target' = [target EXCEPT ![r] = j]
    BY <1>14 DEF Rollback
  <2>2. pc'[r] = "records"
    BY <1>1, <1>14 DEF Rollback
  <2> QED
    BY <1>1, <1>3, <2>1, <2>2 DEF Held
<1>15. CASE DeleteRecords(r) \/ DeleteFamilies(r)
  <2>1. pc[r] \in {"records", "families"} /\ pc'[r] \in {"families", "mark"} /\ target' = target
    BY <1>1, <1>15 DEF DeleteRecords, DeleteFamilies, Delete, locals
  <2> QED
    BY <1>3, <2>1 DEF Held
<1>16. CASE MarkRolledBack(r) \/ Abort(r)
  BY <1>1, <1>4, <1>16 DEF MarkRolledBack, Abort
<1> QED
  BY <1>5, <1>6, <1>7, <1>8, <1>9, <1>10, <1>11, <1>12, <1>13, <1>14, <1>15, <1>16 DEF Step, RunStep, RollStep

LEMMA HeldStep == ASSUME Typed, HeldOK, NEW r \in Requests, Step(r) PROVE HeldOK'
<1>1. ASSUME NEW q \in Requests PROVE Held(q)'
  <2>1. CASE q = r
    BY <2>1, OwnHeld
  <2>2. CASE q # r
    <3>1. Held(q) /\ Uploaded \subseteq Uploaded' /\ Frame(r)
      BY UploadedStay, OwnLocals DEF HeldOK, Held
    <3>2. pc'[q] = "idle" => jobs'[q] = NoJob
      BY <2>2, <3>1, JobsTyped DEF JobsGrow, Frame, Held
    <3> QED
      BY <2>2, <3>1, <3>2 DEF Held, Frame
  <2> QED
    BY <2>1, <2>2
<1> QED
  BY <1>1 DEF HeldOK, Held

-----------------------------------------------------------------------------
(* Who wrote what *)

\* A call that writes has begun and goes on to its end; one that deletes keeps the list it
\* read.
LEMMA Moving ==
  ASSUME Typed, NEW r \in Requests, Step(r)
  PROVE  /\ pc[r] \in Wrote => pc'[r] \in Wrote /\ target'[r] = target[r]
         /\ pc'[r] \in Writing => (pc[r] \in Writing \/ Begin(r)) /\ target'[r] = target[r]
         /\ pc'[r] \in Deleting =>
              Rollback(r) \/ (pc[r] \in Deleting /\ target'[r] = target[r] /\ created'[r] = created[r])
<1> USE DEF Goto, Writing, Wrote, Deleting
<1>1. /\ pc \in [Requests -> Stages] /\ target \in [Requests -> Requests \cup {NoJob}]
      /\ created \in [Requests -> SUBSET Written]
  BY DEF Typed, Stages
<1>2. CASE JobStep(r)
  BY <1>1, <1>2 DEF JobStep, Upload, SaveColumnMapping, UpdateRow, Mark, EnterByHand
<1>3. CASE StartRun(r) \/ Analyse(r) \/ Begin(r)
  BY <1>1, <1>3 DEF StartRun, Analyse, Begin
<1>4. CASE SkipRow(r) \/ Household(r) \/ SaveProgress(r) \/ Finish(r)
  BY <1>1, <1>4 DEF SkipRow, Household, SaveProgress, Finish, More, locals
<1>5. CASE InsertRecord(r)
  <2>1. pc[r] = "insert" /\ pc'[r] \in {"row", "progress"} /\ target' = target
    BY <1>1, <1>5 DEF InsertRecord, AfterRow
  <2> QED
    BY <2>1
<1>6. CASE RollStep(r)
  BY <1>1, <1>6 DEF RollStep, Rollback, DeleteRecords, DeleteFamilies, Delete, MarkRolledBack, Abort, locals
<1> QED
  BY <1>2, <1>3, <1>4, <1>5, <1>6 DEF Step, RunStep

\* Only Begin adds to the runs of a job.
LEMMA BegunMoves ==
  ASSUME Typed, HeldOK, NEW r \in Requests, Step(r)
  PROVE  /\ \A j \in Requests : begun[j] \subseteq begun'[j] /\ begun'[j] \subseteq begun[j] \cup {r}
         /\ \A j \in Requests : r \in begun'[j] \ begun[j] => Begin(r) /\ j = target[r]
         /\ Begin(r) => target[r] \in Requests /\ r \in begun'[target[r]]
<1>1. begun \in [Requests -> SUBSET Requests]
  BY DEF Typed
<1>2. CASE begun' = begun /\ ~Begin(r)
  BY <1>2
<1>3. CASE Begin(r)
  <2>1. target[r] \in Requests /\ begun' = [begun EXCEPT ![target[r]] = @ \cup {r}]
    BY <1>3 DEF Begin, HeldOK, Uploaded
  <2> QED
    BY <1>1, <1>3, <2>1
<1>4. begun' = begun \/ Begin(r)
  <2>1. CASE JobStep(r)
    BY <2>1 DEF JobStep, Upload, SaveColumnMapping, UpdateRow, Mark, EnterByHand, history
  <2>2. CASE RunStep(r)
    BY <2>2 DEF RunStep, StartRun, Analyse, SkipRow, Household, InsertRecord, SaveProgress, Finish, history
  <2>3. CASE RollStep(r)
    BY <2>3 DEF RollStep, Rollback, DeleteRecords, DeleteFamilies, Delete, MarkRolledBack, Abort, history
  <2> QED
    BY <2>1, <2>2, <2>3 DEF Step
<1> QED
  BY <1>2, <1>3, <1>4

\* What a step adds to the live rows is on the list of the run that wrote it, or staff's.
LEMMA LiveMoves ==
  ASSUME Typed, HeldOK, NEW r \in Requests, Step(r)
  PROVE  /\ \A e \in live' : \/ e \in live
                             \/ e.by = Staff
                             \/ e.by = r /\ pc[r] \in Writing /\ e \in created'[r]
         /\ pc[r] \in Writing => created[r] \subseteq created'[r]
         /\ pc[r] \in Writing => \A e \in created'[r] : e.kind = "record" => e \in created[r] \/ e.by = r
         /\ Begin(r) => created'[r] = {} /\ pc[r] = "begin"
<1> USE DEF Writing
<1>1. created \in [Requests -> SUBSET Written]
  BY DEF Typed
<1>2. CASE Household(r) \/ InsertRecord(r)
  <2>1. PICK es \in SUBSET Written :
          /\ live' = live \cup es /\ created' = [created EXCEPT ![r] = created[r] \cup es]
          /\ \A e \in es : e \in live \/ e.by = r
          /\ \A e \in es : e.kind = "record" => e.by = r
    BY <1>2, RunAdds
  <2>2. pc[r] \in Writing /\ ~Begin(r)
    BY <1>2 DEF Household, InsertRecord, More, Begin
  <2>3. created'[r] = created[r] \cup es
    BY <1>1, <2>1
  <2> QED
    BY <2>1, <2>2, <2>3
<1>3. CASE EnterByHand(r)
  <2>1. PICK e \in [kind: {"record"}, key: {n \in Numbers : ~Taken(n)}, by: {Staff}, row: {0}]
                   \cup [kind: {"family"}, key: Houses, by: {Staff}, row: {0}] : live' = live \cup {e}
    BY <1>3 DEF EnterByHand
  <2>2. e.by = Staff
    OBVIOUS
  <2>3. pc[r] = "idle" /\ ~Begin(r)
    BY <1>3 DEF EnterByHand, Begin
  <2> QED
    BY <2>1, <2>2, <2>3
<1>4. CASE live' \subseteq live /\ created' = created /\ ~Begin(r)
  BY <1>4
<1>5. CASE Begin(r)
  BY <1>5 DEF Begin, HeldOK
<1>6. CASE Rollback(r)
  BY <1>6 DEF Rollback, Begin
<1>7. CASE JobStep(r)
  BY <1>3, <1>4, <1>7 DEF JobStep, Upload, SaveColumnMapping, UpdateRow, Mark, Begin, locals
<1>8. CASE RunStep(r)
  BY <1>2, <1>4, <1>5, <1>8 DEF RunStep, StartRun, Analyse, SkipRow, SaveProgress, Finish, Begin, locals, More
<1>9. CASE RollStep(r)
  <2>1. CASE DeleteRecords(r) \/ DeleteFamilies(r)
    <3>1. live' \subseteq live /\ created' = created /\ ~Begin(r)
      BY <2>1 DEF DeleteRecords, DeleteFamilies, Delete, Begin, locals
    <3> QED
      BY <1>4, <3>1
  <2>2. CASE MarkRolledBack(r) \/ Abort(r)
    <3>1. live' = live /\ created' = created
      BY <2>2 DEF MarkRolledBack, Abort, locals
    <3>2. CASE Begin(r)
      BY <1>5, <3>2
    <3>3. CASE ~Begin(r)
      BY <1>4, <3>1, <3>3
    <3> QED
      BY <3>2, <3>3
  <2> QED
    BY <1>6, <1>9, <2>1, <2>2 DEF RollStep
<1> QED
  BY <1>7, <1>8, <1>9 DEF Step

\* A job's list is the one it had, none, or that of the run at it.
LEMMA ListedMoves ==
  ASSUME Typed, HeldOK, NEW r \in Requests, Step(r), NEW j \in Uploaded', NEW e \in jobs'[j].listed
  PROVE  \/ j \in Uploaded /\ e \in jobs[j].listed
         \/ pc[r] \in Writing /\ j = target[r] /\ e \in created[r]
<1> USE DEF Writing
<1>1. /\ jobs \in [Requests -> Jobs \cup {NoJob}] /\ j \in Requests
      /\ \A i \in Uploaded : i \in Requests /\ jobs[i] \in Jobs
  BY DEF Typed, Uploaded
<1>2. CASE jobs' = jobs
  BY <1>1, <1>2 DEF Uploaded
<1>3. CASE Upload(r)
  <2>1. PICK s \in Sheets : jobs' = [jobs EXCEPT ![r] = [status |-> "UPLOADED", sheet |-> s, listed |-> {},
                                                         rolledBack |-> FALSE]]
    BY <1>3 DEF Upload
  <2>2. j # r
    BY <1>1, <2>1
  <2> QED
    BY <1>1, <2>1, <2>2 DEF Uploaded
<1>4. ASSUME NEW i \in Uploaded, \/ \E t, s : jobs' = [jobs EXCEPT ![i].sheet = t, ![i].status = s]
                                 \/ \E t : jobs' = [jobs EXCEPT ![i].sheet = t]
                                 \/ \E s : jobs' = [jobs EXCEPT ![i].status = s]
                                 \/ \E s, b : jobs' = [jobs EXCEPT ![i].status = s, ![i].rolledBack = b]
      PROVE  j \in Uploaded /\ e \in jobs[j].listed
  <2>1. jobs[i] \in [status: Status, sheet: Seq(Rows), listed: SUBSET Written, rolledBack: BOOLEAN]
    BY <1>1 DEF Jobs
  <2>2. CASE j # i
    <3>1. jobs'[j] = jobs[j]
      BY <1>1, <1>4, <2>2
    <3> QED
      BY <1>1, <3>1 DEF Uploaded
  <2>3. CASE j = i
    <3>1. PICK t, s, b : \/ jobs' = [jobs EXCEPT ![i].sheet = t, ![i].status = s]
                         \/ jobs' = [jobs EXCEPT ![i].sheet = t]
                         \/ jobs' = [jobs EXCEPT ![i].status = s]
                         \/ jobs' = [jobs EXCEPT ![i].status = s, ![i].rolledBack = b]
      BY <1>4
    <3>2. jobs'[i].listed = jobs[i].listed
      <4>1. CASE jobs' = [jobs EXCEPT ![i].sheet = t, ![i].status = s]
        BY <1>1, <2>1, <4>1
      <4>2. CASE jobs' = [jobs EXCEPT ![i].sheet = t]
        BY <1>1, <2>1, <4>2
      <4>3. CASE jobs' = [jobs EXCEPT ![i].status = s]
        BY <1>1, <2>1, <4>3
      <4>4. CASE jobs' = [jobs EXCEPT ![i].status = s, ![i].rolledBack = b]
        BY <1>1, <2>1, <4>4
      <4> QED
        BY <3>1, <4>1, <4>2, <4>3, <4>4
    <3> QED
      BY <2>3, <3>2
  <2> QED
    BY <2>2, <2>3
<1>5. CASE SaveColumnMapping(r) \/ Mark(r)
  BY <1>4, <1>5 DEF SaveColumnMapping, Mark
<1>6. CASE UpdateRow(r)
  <2>1. PICK i \in Uploaded : \E k \in DOMAIN jobs[i].sheet, s \in Sheets : \E l \in DOMAIN s :
          jobs' = [jobs EXCEPT ![i].sheet[k] = s[l]]
    BY <1>6 DEF UpdateRow
  <2>2. \E t : jobs' = [jobs EXCEPT ![i].sheet = t]
    BY <2>1
  <2> QED
    BY <1>4, <2>2
<1>7. ASSUME NEW s, NEW l, target[r] \in Uploaded, l = {} \/ (l = created[r] /\ pc[r] \in Writing),
             jobs' = [jobs EXCEPT ![target[r]] = [jobs[target[r]] EXCEPT !.status = s, !.listed = l]]
      PROVE  \/ j \in Uploaded /\ e \in jobs[j].listed
             \/ pc[r] \in Writing /\ j = target[r] /\ e \in created[r]
  <2>1. jobs[target[r]] \in [status: Status, sheet: Seq(Rows), listed: SUBSET Written, rolledBack: BOOLEAN]
    BY <1>1, <1>7 DEF Jobs
  <2>2. CASE j = target[r]
    <3>1. jobs'[j].listed = l
      BY <1>1, <1>7, <2>1, <2>2
    <3> QED
      BY <1>7, <2>2, <3>1
  <2>3. CASE j # target[r]
    BY <1>1, <1>7, <2>3 DEF Uploaded
  <2> QED
    BY <2>2, <2>3
<1>8. CASE Begin(r)
  <2>1. target[r] \in Uploaded
    BY <1>8 DEF Begin, HeldOK
  <2>2. jobs' = [jobs EXCEPT ![target[r]] = [jobs[target[r]] EXCEPT !.status = "IMPORTING", !.listed = {}]]
    BY <1>8 DEF Begin, List
  <2> QED
    BY <1>7, <2>1, <2>2
<1>9. CASE SaveProgress(r)
  <2>1. target[r] \in Uploaded /\ pc[r] \in Writing
    BY <1>9 DEF SaveProgress, HeldOK
  <2>2. jobs' = [jobs EXCEPT ![target[r]] = [jobs[target[r]] EXCEPT !.listed = created[r]]]
    BY <1>9 DEF SaveProgress, List
  <2>3. jobs[target[r]] \in [status: Status, sheet: Seq(Rows), listed: SUBSET Written, rolledBack: BOOLEAN]
    BY <1>1, <2>1 DEF Jobs
  <2>4. CASE j = target[r]
    <3>1. jobs'[j].listed = created[r]
      BY <1>1, <2>2, <2>3, <2>4
    <3> QED
      BY <2>1, <2>4, <3>1
  <2>5. CASE j # target[r]
    BY <1>1, <2>2, <2>5 DEF Uploaded
  <2> QED
    BY <2>4, <2>5
<1>10. CASE Finish(r)
  <2>1. target[r] \in Uploaded /\ pc[r] \in Writing
    BY <1>10 DEF Finish, HeldOK
  <2>2. PICK s : s = IF tally[r].failed > 0 /\ tally[r].imported = 0 THEN "FAILED" ELSE "COMPLETED"
    OBVIOUS
  <2>3. jobs' = [jobs EXCEPT ![target[r]] = [jobs[target[r]] EXCEPT !.status = s, !.listed = created[r]]]
    BY <1>10, <2>2 DEF Finish, Finished, List
  <2> QED
    BY <1>7, <2>1, <2>3
<1>11. CASE MarkRolledBack(r)
  <2>1. target[r] \in Uploaded
    BY <1>11 DEF MarkRolledBack, HeldOK
  <2>2. jobs' = [jobs EXCEPT ![target[r]].status = "ROLLED_BACK", ![target[r]].rolledBack = TRUE]
    BY <1>11 DEF MarkRolledBack
  <2> QED
    BY <1>4, <2>1, <2>2
<1>12. CASE JobStep(r)
  BY <1>2, <1>3, <1>5, <1>6, <1>12 DEF JobStep, EnterByHand
<1>13. CASE RunStep(r)
  BY <1>2, <1>8, <1>9, <1>10, <1>13 DEF RunStep, StartRun, Analyse, SkipRow, Household, InsertRecord
<1>14. CASE RollStep(r)
  BY <1>2, <1>11, <1>14 DEF RollStep, Rollback, DeleteRecords, DeleteFamilies, Delete, Abort
<1> QED
  BY <1>12, <1>13, <1>14 DEF Step

LEMMA ProvenanceStep ==
  ASSUME Typed, HeldOK, Provenance, NEW r \in Requests, Step(r)
  PROVE  Provenance'
<1> USE DEF Writing, Wrote, Deleting
<1>1. \A q \in Requests \ {r} : pc'[q] = pc[q] /\ target'[q] = target[q] /\ created'[q] = created[q]
  BY OwnLocals DEF Frame
<1>2. begun \in [Requests -> SUBSET Requests] /\ live \subseteq Written /\ Staff \notin Requests
  BY NamesAssumption DEF Typed
<1>3. /\ pc[r] \in Wrote => pc'[r] \in Wrote /\ target'[r] = target[r]
      /\ pc'[r] \in Writing => (pc[r] \in Writing \/ Begin(r)) /\ target'[r] = target[r]
      /\ pc'[r] \in Deleting =>
           Rollback(r) \/ (pc[r] \in Deleting /\ target'[r] = target[r] /\ created'[r] = created[r])
  BY Moving
<1>4. /\ \A j \in Requests : begun[j] \subseteq begun'[j] /\ begun'[j] \subseteq begun[j] \cup {r}
      /\ \A j \in Requests : r \in begun'[j] \ begun[j] => Begin(r) /\ j = target[r]
      /\ Begin(r) => target[r] \in Requests /\ r \in begun'[target[r]]
  BY BegunMoves
<1>5. /\ \A e \in live' : \/ e \in live
                          \/ e.by = Staff
                          \/ e.by = r /\ pc[r] \in Writing /\ e \in created'[r]
      /\ pc[r] \in Writing => created[r] \subseteq created'[r]
      /\ pc[r] \in Writing => \A e \in created'[r] : e.kind = "record" => e \in created[r] \/ e.by = r
      /\ Begin(r) => created'[r] = {} /\ pc[r] = "begin"
  BY LiveMoves
<1>6. Begin(r) => pc'[r] = "row" /\ target'[r] = target[r]
  BY DEF Begin, Goto, Typed
<1>7. \A j \in Requests : \A q \in begun'[j] : target'[q] = j /\ pc'[q] \in Wrote
  <2> SUFFICES ASSUME NEW j \in Requests, NEW q \in begun'[j] PROVE target'[q] = j /\ pc'[q] \in Wrote
    OBVIOUS
  <2>1. CASE q \in begun[j]
    BY <1>1, <1>2, <1>3, <2>1 DEF Provenance
  <2>2. CASE q \notin begun[j]
    BY <1>4, <1>6, <2>2
  <2> QED
    BY <2>1, <2>2
<1>8. \A q \in Requests : pc'[q] \in Writing => q \in begun'[target'[q]]
  <2> SUFFICES ASSUME NEW q \in Requests, pc'[q] \in Writing PROVE q \in begun'[target'[q]]
    OBVIOUS
  <2>1. CASE pc[q] \in Writing /\ target'[q] = target[q]
    <3>1. target[q] \in Requests
      BY <2>1 DEF HeldOK, Uploaded
    <3> QED
      BY <1>4, <2>1, <3>1 DEF Provenance
  <2> QED
    BY <1>1, <1>3, <1>4, <2>1
<1>9. \A e \in live' : e.by \in Requests => pc'[e.by] \in Wrote
  BY <1>1, <1>2, <1>3, <1>5 DEF Provenance
<1>10. \A q \in Requests : pc'[q] \in Writing =>
         /\ \A e \in live' : e.by = q => e \in created'[q]
         /\ \A e \in created'[q] : e.kind = "record" => e.by = q
  <2> SUFFICES ASSUME NEW q \in Requests, pc'[q] \in Writing
               PROVE  /\ \A e \in live' : e.by = q => e \in created'[q]
                      /\ \A e \in created'[q] : e.kind = "record" => e.by = q
    OBVIOUS
  <2>1. CASE q # r
    BY <1>1, <1>2, <1>5, <2>1 DEF Provenance
  <2>2. CASE q = r /\ pc[r] \in Writing
    BY <1>2, <1>5, <2>2 DEF Provenance
  <2>3. CASE q = r /\ Begin(r)
    BY <1>2, <1>5, <2>3 DEF Provenance
  <2> QED
    BY <1>3, <2>1, <2>2, <2>3
<1>11. \A j \in Uploaded' : \A e \in jobs'[j].listed : e.kind = "record" => e.by \in begun'[j]
  <2> SUFFICES ASSUME NEW j \in Uploaded', NEW e \in jobs'[j].listed, e.kind = "record"
               PROVE  e.by \in begun'[j]
    OBVIOUS
  <2>1. j \in Requests
    BY DEF Uploaded
  <2>2. CASE j \in Uploaded /\ e \in jobs[j].listed
    BY <1>4, <2>1, <2>2 DEF Provenance
  <2>3. CASE pc[r] \in Writing /\ j = target[r] /\ e \in created[r]
    <3>1. e.by = r /\ r \in begun[j]
      BY <2>3 DEF Provenance
    <3> QED
      BY <1>4, <2>1, <3>1
  <2> QED
    BY <2>2, <2>3, ListedMoves
<1>12. \A q \in Requests : pc'[q] \in Deleting =>
         \A e \in created'[q] : e.kind = "record" => e.by \in begun'[target'[q]]
  <2> SUFFICES ASSUME NEW q \in Requests, pc'[q] \in Deleting, NEW e \in created'[q], e.kind = "record"
               PROVE  e.by \in begun'[target'[q]]
    OBVIOUS
  <2>1. CASE pc[q] \in Deleting /\ target'[q] = target[q] /\ created'[q] = created[q]
    <3>1. target[q] \in Requests
      BY <2>1 DEF HeldOK, Uploaded
    <3>2. e.by \in begun[target[q]]
      BY <2>1 DEF Provenance
    <3> QED
      BY <1>4, <2>1, <3>1, <3>2
  <2>2. CASE q = r /\ Rollback(r)
    <3>1. PICK j \in Uploaded : target' = [target EXCEPT ![r] = j] /\ created' = [created EXCEPT ![r] = jobs[j].listed]
      BY <2>2 DEF Rollback
    <3>2. target'[r] = j /\ created'[r] = jobs[j].listed /\ j \in Requests
      BY <3>1 DEF Typed, Uploaded
    <3> QED
      BY <1>4, <2>2, <3>1, <3>2 DEF Provenance
  <2> QED
    BY <1>1, <1>3, <2>1, <2>2
<1> QED
  BY <1>7, <1>8, <1>9, <1>10, <1>11, <1>12 DEF Provenance

\* A run writes a family for the row it is at, then a record.
LEMMA RunWrites ==
  ASSUME NEW r \in Requests, Household(r) \/ InsertRecord(r), NEW e \in live' \ live
  PROVE  /\ e.by = r /\ e.row = at[r] /\ dead' = dead
         /\ e.kind = IF Household(r) THEN "family" ELSE "record"
<1>1. CASE Household(r)
  BY <1>1 DEF Household, Add, New
<1>2. CASE InsertRecord(r) /\ ~Household(r)
  BY <1>2 DEF InsertRecord, Add, New
<1> QED
  BY <1>1, <1>2

\* No row of a table is forgotten, and a new one is not deleted.
LEMMA FreshRows ==
  ASSUME Typed, HeldOK, Fresh, NEW r \in Requests, Step(r)
  PROVE  live \cup dead \subseteq live' \cup dead' /\ live' \cap dead' = {}
<1>1. CASE UNCHANGED <<live, dead>>
  BY <1>1 DEF Fresh
<1>2. CASE EnterByHand(r)
  BY <1>2 DEF EnterByHand, Fresh
<1>3. CASE Household(r) \/ InsertRecord(r)
  <2>1. live \subseteq live' /\ dead' = dead
    <3>1. dead' = dead
      BY <1>3 DEF Household, InsertRecord
    <3> QED
      BY <1>3, <3>1, RunAdds
  <2>2. \A e \in live' \ live : e \notin dead
    <3> SUFFICES ASSUME NEW e \in live' \ live, e \in dead PROVE FALSE
      OBVIOUS
    <3>1. e.by = r /\ e.row = at[r] /\ e.kind = IF Household(r) THEN "family" ELSE "record"
      BY <1>3, RunWrites
    <3>2. at[r] \in Nat /\ (pc[r] = "row" => e.row < at[r])
          /\ (pc[r] = "insert" /\ e.row = at[r] => e.kind = "family")
      BY <3>1 DEF Fresh, Typed
    <3>3. CASE Household(r)
      BY <3>1, <3>2, <3>3 DEF Household, More
    <3>4. CASE InsertRecord(r) /\ ~Household(r)
      BY <3>1, <3>2, <3>4 DEF InsertRecord
    <3> QED
      BY <1>3, <3>3, <3>4
  <2> QED
    BY <2>1, <2>2 DEF Fresh
<1>4. CASE DeleteRecords(r) \/ DeleteFamilies(r)
  BY <1>4 DEF DeleteRecords, DeleteFamilies, Delete, Fresh
<1>5. CASE JobStep(r)
  BY <1>1, <1>2, <1>5 DEF JobStep, Upload, SaveColumnMapping, UpdateRow, Mark
<1>6. CASE RunStep(r)
  BY <1>1, <1>3, <1>6 DEF RunStep, StartRun, Analyse, Begin, SkipRow, SaveProgress, Finish
<1>7. CASE RollStep(r)
  BY <1>1, <1>4, <1>7 DEF RollStep, Rollback, MarkRolledBack, Abort
<1> QED
  BY <1>5, <1>6, <1>7 DEF Step

\* What a step adds to the tables, deleted rows included.
LEMMA TableMoves ==
  ASSUME Typed, HeldOK, Fresh, NEW r \in Requests, Step(r), NEW e \in (live' \cup dead') \ (live \cup dead)
  PROVE  \/ e.by = Staff
         \/ e.by = r /\ e.row = at[r] /\ Household(r) /\ e.kind = "family"
         \/ e.by = r /\ e.row = at[r] /\ InsertRecord(r)
<1>1. CASE EnterByHand(r)
  BY <1>1 DEF EnterByHand
<1>2. CASE Household(r) \/ InsertRecord(r)
  <2>1. dead' = dead
    BY <1>2 DEF Household, InsertRecord
  <2> QED
    BY <1>2, <2>1, RunWrites
<1>3. CASE DeleteRecords(r) \/ DeleteFamilies(r)
  BY <1>3 DEF DeleteRecords, DeleteFamilies, Delete, Fresh
<1>4. CASE JobStep(r)
  BY <1>1, <1>4 DEF JobStep, Upload, SaveColumnMapping, UpdateRow, Mark
<1>5. CASE RunStep(r)
  BY <1>2, <1>5 DEF RunStep, StartRun, Analyse, Begin, SkipRow, SaveProgress, Finish
<1>6. CASE RollStep(r)
  BY <1>3, <1>6 DEF RollStep, Rollback, MarkRolledBack, Abort
<1> QED
  BY <1>4, <1>5, <1>6 DEF Step

\* The row a run is at moves on.
LEMMA RowMoves ==
  ASSUME Typed, NEW r \in Requests, Step(r), pc[r] \in Wrote
  PROVE  \/ pc'[r] \in {"done", "failed"} /\ at'[r] = at[r]
         \/ pc[r] \in Writing /\ pc'[r] = "row" /\ at'[r] = at[r] + 1
         \/ pc[r] = "insert" /\ pc'[r] = "progress" /\ at'[r] = at[r]
         \/ pc[r] = "row" /\ pc'[r] = "insert" /\ at'[r] = at[r]
<1> USE DEF Goto, Writing, Wrote
<1>1. pc \in [Requests -> Stages] /\ at \in [Requests -> Nat]
  BY DEF Typed, Stages
<1>2. CASE JobStep(r)
  BY <1>2 DEF JobStep, Upload, SaveColumnMapping, UpdateRow, Mark, EnterByHand
<1>3. CASE StartRun(r) \/ Analyse(r) \/ Begin(r)
  BY <1>3 DEF StartRun, Analyse, Begin
<1>4. CASE SkipRow(r) \/ Household(r) \/ SaveProgress(r) \/ Finish(r)
  BY <1>1, <1>4 DEF SkipRow, Household, SaveProgress, Finish, More, locals
<1>5. CASE InsertRecord(r)
  <2>1. pc[r] = "insert"
    BY <1>5 DEF InsertRecord
  <2>2. \/ pc' = [pc EXCEPT ![r] = "progress"] /\ at' = at
        \/ pc' = [pc EXCEPT ![r] = "row"] /\ at' = [at EXCEPT ![r] = at[r] + 1]
    BY <1>5 DEF InsertRecord, AfterRow
  <2> QED
    BY <1>1, <2>1, <2>2
<1>6. CASE RollStep(r)
  BY <1>1, <1>6 DEF RollStep, Rollback, DeleteRecords, DeleteFamilies, Delete, MarkRolledBack, Abort, locals
<1> QED
  BY <1>2, <1>3, <1>4, <1>5, <1>6 DEF Step, RunStep

LEMMA FreshStep ==
  ASSUME Typed, HeldOK, Fresh, NEW r \in Requests, Step(r)
  PROVE  Fresh'
<1>1. live \cup dead \subseteq live' \cup dead' /\ live' \cap dead' = {} /\ Frame(r)
  BY FreshRows, OwnLocals
<1>2. at \in [Requests -> Nat] /\ live \cup dead \subseteq Written /\ pc \in [Requests -> Stages]
      /\ created \in [Requests -> SUBSET Written]
  BY DEF Typed, Stages
<1>3. ASSUME NEW e \in live' \cup dead', e.by \in Requests
      PROVE  /\ pc'[e.by] \in Wrote
             /\ e.row <= at'[e.by]
             /\ pc'[e.by] = "row" => e.row < at'[e.by]
             /\ pc'[e.by] = "insert" /\ e.row = at'[e.by] => e.kind = "family"
  <2>1. CASE e \in live \cup dead /\ e.by # r
    BY <1>1, <1>3, <2>1 DEF Fresh, Frame
  <2>2. CASE e \in live \cup dead /\ e.by = r
    <3>1. /\ pc[r] \in Wrote /\ e.row <= at[r] /\ (pc[r] = "row" => e.row < at[r])
          /\ at[r] \in Nat /\ e.row \in Nat
      BY <1>2, <2>2 DEF Fresh, Written
    <3>2. pc'[r] \in Wrote
      BY <3>1, Moving
    <3>3. e.row <= at'[r] /\ (pc'[r] = "row" => e.row < at'[r])
          /\ (pc'[r] = "insert" /\ e.row = at'[r] => e.kind = "family")
      BY <3>1, RowMoves DEF Writing
    <3> QED
      BY <2>2, <3>2, <3>3
  <2>3. CASE e \notin live \cup dead
    <3>1. /\ e.by = r /\ e.row = at[r]
          /\ (Household(r) /\ e.kind = "family") \/ InsertRecord(r)
      BY <1>3, <2>3, TableMoves, NamesAssumption
    <3>2. pc[r] \in {"row", "insert"} /\ at[r] \in Nat
      BY <1>2, <3>1 DEF Household, More, InsertRecord
    <3>3. /\ Household(r) => pc'[r] = "insert" /\ at'[r] = at[r]
          /\ InsertRecord(r) => \/ pc'[r] = "progress" /\ at'[r] = at[r]
                                \/ pc'[r] = "row" /\ at'[r] = at[r] + 1
      <4>1. Household(r) => pc'[r] = "insert" /\ at'[r] = at[r]
        BY <1>2 DEF Household, Goto
      <4>2. InsertRecord(r) => \/ pc' = [pc EXCEPT ![r] = "progress"] /\ at' = at
                               \/ pc' = [pc EXCEPT ![r] = "row"] /\ at' = [at EXCEPT ![r] = at[r] + 1]
        BY DEF InsertRecord, AfterRow, Goto
      <4> QED
        BY <1>2, <4>1, <4>2
    <3> QED
      BY <3>1, <3>2, <3>3 DEF Wrote, Writing
  <2> QED
    BY <2>1, <2>2, <2>3
<1>4. \A q \in Requests : created'[q] \subseteq live' \cup dead'
  <2> SUFFICES ASSUME NEW q \in Requests PROVE created'[q] \subseteq live' \cup dead'
    OBVIOUS
  <2>1. CASE created'[q] = created[q]
    BY <1>1, <2>1 DEF Fresh
  <2>2. CASE q = r /\ (Household(r) \/ InsertRecord(r))
    <3>1. PICK es \in SUBSET Written :
            live' = live \cup es /\ created' = [created EXCEPT ![r] = created[r] \cup es]
      BY <2>2, RunAdds
    <3>2. created'[r] = created[r] \cup es
      BY <1>2, <3>1
    <3> QED
      BY <1>1, <2>2, <3>1, <3>2 DEF Fresh
  <2>3. CASE q = r /\ Rollback(r)
    <3>1. PICK j \in Uploaded : created' = [created EXCEPT ![r] = jobs[j].listed]
      BY <2>3 DEF Rollback
    <3>2. created'[r] = jobs[j].listed
      BY <1>2, <3>1
    <3> QED
      BY <1>1, <2>3, <3>1, <3>2 DEF Fresh
  <2>4. created' = created \/ Household(r) \/ InsertRecord(r) \/ Rollback(r)
    <3>1. CASE JobStep(r)
      BY <3>1 DEF JobStep, Upload, SaveColumnMapping, UpdateRow, Mark, EnterByHand, locals
    <3>2. CASE RunStep(r)
      BY <3>2 DEF RunStep, StartRun, Analyse, Begin, SkipRow, SaveProgress, Finish, locals
    <3>3. CASE RollStep(r)
      BY <3>3 DEF RollStep, DeleteRecords, DeleteFamilies, Delete, MarkRolledBack, Abort, locals
    <3> QED
      BY <3>1, <3>2, <3>3 DEF Step
  <2> QED
    BY <1>1, <2>1, <2>2, <2>3, <2>4 DEF Frame
<1>5. \A j \in Uploaded' : jobs'[j].listed \subseteq live' \cup dead'
  BY <1>1, ListedMoves DEF Fresh
<1> QED
  BY <1>1, <1>3, <1>4, <1>5 DEF Fresh

-----------------------------------------------------------------------------
(* One call at a time *)

\* What is left of a job's runs after a step is left before, or the row of the run at it.
LEMMA LeftMoves ==
  ASSUME Typed, HeldOK, Provenance, NEW r \in Requests, Step(r), NEW j \in Requests,
         ~(Begin(r) /\ j = target[r]), ~WritesAt(r, j), NEW e \in live', Left(e, j)'
  PROVE  e \in live /\ Left(e, j)
<1>1. replaced \subseteq replaced'
  <2>1. CASE replaced' = replaced
    BY <2>1
  <2>2. CASE Begin(r) \/ SaveProgress(r) \/ Finish(r)
    BY <2>2 DEF Begin, SaveProgress, Finish, List
  <2>3. CASE JobStep(r)
    BY <2>1, <2>3 DEF JobStep, Upload, SaveColumnMapping, UpdateRow, Mark, EnterByHand, history
  <2>4. CASE RunStep(r)
    BY <2>1, <2>2, <2>4 DEF RunStep, StartRun, Analyse, SkipRow, Household, InsertRecord, history
  <2>5. CASE RollStep(r)
    BY <2>1, <2>5 DEF RollStep, Rollback, DeleteRecords, DeleteFamilies, Delete, MarkRolledBack, Abort, history
  <2> QED
    BY <2>3, <2>4, <2>5 DEF Step
<1>2. begun[j] \subseteq begun'[j] /\ begun'[j] \subseteq begun[j] \cup {r} /\ r \notin begun'[j] \ begun[j]
  BY BegunMoves
<1>3. e.by \in begun[j] /\ e.by \notin replaced
  BY <1>1, <1>2 DEF Left
<1>4. e \in live \/ e.by = Staff \/ (e.by = r /\ pc[r] \in Writing)
  BY LiveMoves
<1>5. begun[j] \subseteq Requests
  BY DEF Typed
<1>6. e.by = r => target[r] = j
  BY <1>3 DEF Provenance
<1> QED
  BY <1>3, <1>4, <1>5, <1>6, NamesAssumption DEF WritesAt, Left

\* Calm stays where the job stays as it is, nothing is written for it, and the call is at it
\* as it was or leaves it.
LEMMA CalmKept ==
  ASSUME NEW r \in Requests, Frame(r), NEW j \in Requests, Calm(j),
         jobs'[j].status = jobs[j].status, jobs'[j].listed = jobs[j].listed,
         \A e \in live' : Left(e, j)' => e \in live /\ Left(e, j),
         WritesAt(r, j)' => WritesAt(r, j), RunsAt(r, j)' => RunsAt(r, j),
         DeletesAt(r, j)' => DeletesAt(r, j) /\ pc'[r] = pc[r] /\ created'[r] = created[r]
  PROVE  Calm(j)'
<1>1. \A q \in Requests : /\ WritesAt(q, j)' => WritesAt(q, j)
                          /\ RunsAt(q, j)' => RunsAt(q, j)
                          /\ DeletesAt(q, j)' => DeletesAt(q, j) /\ pc'[q] = pc[q] /\ created'[q] = created[q]
  BY DEF Frame, WritesAt, RunsAt, DeletesAt
<1> QED
  BY <1>1 DEF Calm

\* Calm stays while one run writes.
LEMMA CalmWhileWriting ==
  ASSUME NEW r \in Requests, Frame(r), NEW j \in Requests, Calm(j), RunsAt(r, j),
         jobs'[j].status = "IMPORTING", ~DeletesAt(r, j)'
  PROVE  Calm(j)'
<1>1. \A q \in Requests : q # r => ~RunsAt(q, j) /\ ~DeletesAt(q, j)
  BY DEF Calm
<1>2. \A q \in Requests : q # r => ~RunsAt(q, j)' /\ ~WritesAt(q, j)' /\ ~DeletesAt(q, j)'
  BY <1>1 DEF Frame, WritesAt, RunsAt, DeletesAt
<1> QED
  BY <1>2 DEF Calm

\* A job nobody is at is calm, whatever status a call that is done with it gives it.
LEMMA CalmAlone ==
  ASSUME NEW r \in Requests, Frame(r), NEW j \in Requests,
         \A q \in Requests : ~RunsAt(q, j) /\ ~DeletesAt(q, j), pc'[r] = "done",
         jobs'[j].status \in {"UPLOADED", "PREVIEWED", "VALIDATED"}
  PROVE  Calm(j)'
<1>1. \A q \in Requests : ~RunsAt(q, j)' /\ ~WritesAt(q, j)' /\ ~DeletesAt(q, j)'
  BY DEF Frame, WritesAt, RunsAt, DeletesAt, Writing, Deleting
<1> QED
  BY <1>1 DEF Calm

\* A step leaves a job its status and list, or marks it, or is of a call that is at it.
LEMMA JobMoves ==
  ASSUME Typed, HeldOK, NEW r \in Requests, Step(r), NEW j \in Uploaded
  PROVE  \/ jobs'[j].status = jobs[j].status /\ jobs'[j].listed = jobs[j].listed
         \/ /\ jobs'[j].status \in {"UPLOADED", "PREVIEWED", "VALIDATED"} /\ pc'[r] = "done"
            /\ j \in disturbed' \/ \A q \in Requests : ~RunsAt(q, j) /\ ~DeletesAt(q, j)
         \/ j = target[r] /\ (Begin(r) \/ SaveProgress(r) \/ Finish(r) \/ MarkRolledBack(r))
<1>1. /\ jobs \in [Requests -> Jobs \cup {NoJob}] /\ j \in Requests
      /\ \A i \in Uploaded : i \in Requests /\ jobs[i] \in Jobs
      /\ pc \in [Requests -> Stages]
  BY DEF Typed, Uploaded, Stages
<1>2. CASE jobs' = jobs
  BY <1>2
<1>3. CASE Upload(r)
  <2>1. j # r
    BY <1>3 DEF Upload, HeldOK, Uploaded
  <2> QED
    BY <1>1, <1>3, <2>1 DEF Upload
<1>4. ASSUME NEW i \in Uploaded, NEW s \in {"UPLOADED", "PREVIEWED", "VALIDATED"},
             \/ \E t : jobs' = [jobs EXCEPT ![i].sheet = t, ![i].status = s]
             \/ jobs' = [jobs EXCEPT ![i].status = s],
             pc' = [pc EXCEPT ![r] = "done"], DisturbIf(Starting(i) \cup Importing(i) \cup Rolling(i), i)
      PROVE  \/ jobs'[j].status = jobs[j].status /\ jobs'[j].listed = jobs[j].listed
             \/ /\ jobs'[j].status \in {"UPLOADED", "PREVIEWED", "VALIDATED"} /\ pc'[r] = "done"
                /\ j \in disturbed' \/ \A q \in Requests : ~RunsAt(q, j) /\ ~DeletesAt(q, j)
  <2>1. jobs[i] \in [status: Status, sheet: Seq(Rows), listed: SUBSET Written, rolledBack: BOOLEAN]
    BY <1>1 DEF Jobs
  <2>2. CASE j # i
    BY <1>1, <1>4, <2>2
  <2>3. CASE j = i
    <3>1. jobs'[i].status = s
      <4>1. CASE \E t : jobs' = [jobs EXCEPT ![i].sheet = t, ![i].status = s]
        BY <1>1, <2>1, <4>1
      <4>2. CASE jobs' = [jobs EXCEPT ![i].status = s]
        BY <1>1, <2>1, <4>2
      <4> QED
        BY <1>4, <4>1, <4>2
    <3>2. pc'[r] = "done"
      BY <1>1, <1>4
    <3>3. i \in disturbed' \/ \A q \in Requests : ~RunsAt(q, i) /\ ~DeletesAt(q, i)
      BY <1>4 DEF DisturbIf, Starting, Importing, Rolling, At, RunsAt, DeletesAt, Writing, Deleting
    <3> QED
      BY <2>3, <3>1, <3>2, <3>3
  <2> QED
    BY <2>2, <2>3
<1>5. CASE SaveColumnMapping(r)
  <2>1. PICK i \in Uploaded, s \in Sheets :
          /\ jobs' = [jobs EXCEPT ![i].sheet = s, ![i].status = "UPLOADED"]
          /\ DisturbIf(Starting(i) \cup Importing(i) \cup Rolling(i), i)
    BY <1>5 DEF SaveColumnMapping
  <2>2. pc' = [pc EXCEPT ![r] = "done"]
    BY <1>5 DEF SaveColumnMapping, Goto
  <2> QED
    BY <1>4, <2>1, <2>2
<1>6. CASE Mark(r)
  <2>1. PICK i \in Uploaded, s \in {"PREVIEWED", "VALIDATED"} :
          /\ jobs' = [jobs EXCEPT ![i].status = s]
          /\ DisturbIf(Starting(i) \cup Importing(i) \cup Rolling(i), i)
    BY <1>6 DEF Mark
  <2>2. pc' = [pc EXCEPT ![r] = "done"]
    BY <1>6 DEF Mark, Goto
  <2> QED
    BY <1>4, <2>1, <2>2
<1>7. CASE UpdateRow(r)
  <2>1. PICK i \in Uploaded : \E k \in DOMAIN jobs[i].sheet, s \in Sheets : \E l \in DOMAIN s :
          jobs' = [jobs EXCEPT ![i].sheet[k] = s[l]]
    BY <1>7 DEF UpdateRow
  <2>2. PICK t : jobs' = [jobs EXCEPT ![i].sheet = t]
    BY <2>1
  <2>3. jobs[i] \in [status: Status, sheet: Seq(Rows), listed: SUBSET Written, rolledBack: BOOLEAN]
    BY <1>1 DEF Jobs
  <2> QED
    BY <1>1, <2>2, <2>3
<1>8. CASE Begin(r) \/ SaveProgress(r) \/ Finish(r)
  <2>1. \E job : jobs' = [jobs EXCEPT ![target[r]] = job]
    BY <1>8 DEF Begin, SaveProgress, Finish, List
  <2> QED
    BY <1>1, <1>8, <2>1
<1>9. CASE MarkRolledBack(r)
  BY <1>1, <1>9 DEF MarkRolledBack
<1>10. CASE JobStep(r)
  BY <1>2, <1>3, <1>5, <1>6, <1>7, <1>10 DEF JobStep, EnterByHand
<1>11. CASE RunStep(r)
  BY <1>2, <1>8, <1>11 DEF RunStep, StartRun, Analyse, SkipRow, Household, InsertRecord
<1>12. CASE RollStep(r)
  BY <1>2, <1>9, <1>12 DEF RollStep, Rollback, DeleteRecords, DeleteFamilies, Delete, Abort
<1> QED
  BY <1>10, <1>11, <1>12 DEF Step

\* A call comes to a job by StartRun, Begin or Rollback.
LEMMA RoleMoves ==
  ASSUME Typed, NEW r \in Requests, Step(r), NEW j
  PROVE  /\ WritesAt(r, j)' => WritesAt(r, j) \/ Begin(r)
         /\ RunsAt(r, j)' => RunsAt(r, j) \/ StartRun(r)
         /\ DeletesAt(r, j)' => \/ Rollback(r)
                                \/ DeletesAt(r, j) /\ (DeleteRecords(r) \/ DeleteFamilies(r))
                                \/ DeletesAt(r, j) /\ pc'[r] = pc[r] /\ created'[r] = created[r]
<1> USE DEF Goto, Writing, Wrote, Deleting, WritesAt, RunsAt, DeletesAt
<1>1. /\ pc \in [Requests -> Stages] /\ target \in [Requests -> Requests \cup {NoJob}]
  BY DEF Typed, Stages
<1>2. /\ pc'[r] \in Writing => (pc[r] \in Writing \/ Begin(r)) /\ target'[r] = target[r]
      /\ pc'[r] \in Deleting =>
           Rollback(r) \/ (pc[r] \in Deleting /\ target'[r] = target[r] /\ created'[r] = created[r])
  BY Moving
<1>3. CASE JobStep(r)
  BY <1>1, <1>3 DEF JobStep, Upload, SaveColumnMapping, UpdateRow, Mark, EnterByHand
<1>4. CASE RunStep(r)
  <2>1. CASE StartRun(r) \/ Analyse(r) \/ Begin(r)
    BY <1>1, <1>2, <2>1 DEF StartRun, Analyse, Begin
  <2>2. CASE SkipRow(r) \/ Household(r) \/ SaveProgress(r) \/ Finish(r)
    BY <1>1, <1>2, <2>2 DEF SkipRow, Household, SaveProgress, Finish, More, locals
  <2>3. CASE InsertRecord(r)
    <3>1. pc[r] = "insert" /\ pc'[r] \in {"row", "progress"} /\ target' = target
      BY <1>1, <2>3 DEF InsertRecord, AfterRow
    <3> QED
      BY <3>1
  <2> QED
    BY <1>4, <2>1, <2>2, <2>3 DEF RunStep
<1>5. CASE RollStep(r)
  BY <1>1, <1>2, <1>5 DEF RollStep, Rollback, DeleteRecords, DeleteFamilies, Delete, MarkRolledBack, Abort, locals
<1> QED
  BY <1>3, <1>4, <1>5 DEF Step

\* A job appears by Upload.
LEMMA NewJob ==
  ASSUME Typed, HeldOK, NEW r \in Requests, Step(r), NEW j \in Uploaded', j \notin Uploaded
  PROVE  Upload(r) /\ j = r
<1>1. jobs \in [Requests -> Jobs \cup {NoJob}] /\ j \in Requests /\ jobs[j] = NoJob /\ jobs'[j] # NoJob
  BY DEF Typed, Uploaded
<1>2. \A i \in Uploaded : i # j
  BY <1>1 DEF Uploaded
<1>3. CASE Upload(r)
  BY <1>1, <1>3 DEF Upload
<1>4. CASE SaveColumnMapping(r) \/ UpdateRow(r) \/ Mark(r) \/ EnterByHand(r)
  BY <1>1, <1>2, <1>4 DEF SaveColumnMapping, UpdateRow, Mark, EnterByHand
<1>5. CASE Begin(r) \/ SaveProgress(r) \/ Finish(r) \/ MarkRolledBack(r)
  <2>1. target[r] \in Uploaded
    BY <1>5 DEF Begin, SaveProgress, Finish, MarkRolledBack, HeldOK
  <2> QED
    BY <1>1, <1>2, <1>5, <2>1 DEF Begin, SaveProgress, Finish, MarkRolledBack, List
<1>6. CASE JobStep(r)
  BY <1>3, <1>4, <1>6 DEF JobStep
<1>7. CASE RunStep(r)
  BY <1>1, <1>5, <1>7 DEF RunStep, StartRun, Analyse, SkipRow, Household, InsertRecord
<1>8. CASE RollStep(r)
  BY <1>1, <1>5, <1>8 DEF RollStep, Rollback, DeleteRecords, DeleteFamilies, Delete, Abort
<1> QED
  BY <1>6, <1>7, <1>8 DEF Step

\* A run that ends lists all that is left of its job.
LEMMA CalmAtFinish ==
  ASSUME Typed, HeldOK, Provenance, NEW r \in Requests, Frame(r), Finish(r), NEW j \in Uploaded, j = target[r], Calm(j)
  PROVE  Calm(j)'
<1>1. /\ jobs \in [Requests -> Jobs \cup {NoJob}] /\ pc \in [Requests -> Stages] /\ j \in Requests
      /\ jobs[j] \in [status: Status, sheet: Seq(Rows), listed: SUBSET Written, rolledBack: BOOLEAN]
  BY DEF Typed, Uploaded, Stages, Jobs
<1>2. jobs'[j].status \in {"COMPLETED", "FAILED"} /\ jobs'[j].listed = created[r]
  BY <1>1 DEF Finish, Finished, List
<1>3. pc[r] \in Writing /\ pc'[r] = "done" /\ live' = live /\ begun' = begun
      /\ replaced' = replaced \cup (begun[j] \ {r})
  BY <1>1 DEF Finish, Goto, List, Writing
<1>4. \A q \in Requests : ~RunsAt(q, j)' /\ ~WritesAt(q, j)' /\ ~DeletesAt(q, j)'
  <2>1. \A q \in Requests : q # r => ~RunsAt(q, j) /\ ~DeletesAt(q, j)
    BY <1>3 DEF Calm, RunsAt
  <2> QED
    BY <1>3, <2>1 DEF Frame, WritesAt, RunsAt, DeletesAt, Writing, Deleting
<1>5. \A e \in live' : Left(e, j)' => e \in created[r]
  <2> SUFFICES ASSUME NEW e \in live', Left(e, j)' PROVE e \in created[r]
    OBVIOUS
  <2>1. e \in live /\ e.by = r
    BY <1>3 DEF Left
  <2> QED
    BY <1>3, <2>1 DEF Provenance, Writing
<1> QED
  BY <1>2, <1>4, <1>5 DEF Calm

\* A job is marked rolled back when nothing is left of it.
LEMMA CalmAtMark ==
  ASSUME Typed, HeldOK, NEW r \in Requests, Frame(r), MarkRolledBack(r), NEW j \in Uploaded, j = target[r], Calm(j)
  PROVE  Calm(j)'
<1>1. /\ jobs \in [Requests -> Jobs \cup {NoJob}] /\ pc \in [Requests -> Stages] /\ j \in Requests
      /\ jobs[j] \in [status: Status, sheet: Seq(Rows), listed: SUBSET Written, rolledBack: BOOLEAN]
  BY DEF Typed, Uploaded, Stages, Jobs
<1>2. jobs'[j].status = "ROLLED_BACK"
  BY <1>1 DEF MarkRolledBack
<1>3. pc[r] = "mark" /\ pc'[r] = "done" /\ UNCHANGED <<live, begun, replaced>> /\ DeletesAt(r, j)
  BY <1>1 DEF MarkRolledBack, Goto, history, DeletesAt, Deleting
<1>4. \A e \in live' : ~Left(e, j)'
  BY <1>3 DEF Calm, Left
<1>5. \A q \in Requests : ~RunsAt(q, j)' /\ ~WritesAt(q, j)'
  <2>1. \A q \in Requests : ~RunsAt(q, j)
    BY <1>3 DEF Calm
  <2> QED
    BY <1>3, <2>1 DEF Frame, WritesAt, RunsAt, Writing
<1> QED
  BY <1>2, <1>4, <1>5 DEF Calm

\* A run starts where no call is.
LEMMA CalmAtStart ==
  ASSUME Typed, NEW r \in Requests, Frame(r), StartRun(r), NEW j \in Uploaded, RunsAt(r, j)', j \notin disturbed', Calm(j)
  PROVE  Calm(j)'
<1>1. pc \in [Requests -> Stages] /\ target \in [Requests -> Requests \cup {NoJob}] /\ j \in Requests
  BY DEF Typed, Uploaded, Stages
<1>2. PICK i \in Uploaded : /\ MayRun(i) /\ target' = [target EXCEPT ![r] = i]
                            /\ DisturbIf(Starting(i) \cup Rolling(i), i)
  BY DEF StartRun
<1>3. i = j
  BY <1>1, <1>2 DEF RunsAt
<1>4. \A q \in Requests : ~RunsAt(q, j) /\ ~DeletesAt(q, j)
  <2>1. \A q \in Requests : ~(target[q] = j /\ pc[q] \in {"analyse", "begin"}) /\ ~DeletesAt(q, j)
    BY <1>2, <1>3 DEF DisturbIf, Starting, Rolling, At, DeletesAt, Deleting
  <2>2. \A q \in Requests : ~WritesAt(q, j)
    BY <1>2, <1>3 DEF Calm, MayRun
  <2> QED
    BY <2>1, <2>2 DEF RunsAt, WritesAt
<1>5. pc'[r] = "analyse" /\ UNCHANGED <<jobs, live, begun, replaced>>
  BY <1>1 DEF StartRun, Goto
<1>6. \A q \in Requests : ~WritesAt(q, j)' /\ ~DeletesAt(q, j)' /\ (q # r => ~RunsAt(q, j)')
  BY <1>4, <1>5 DEF Frame, WritesAt, RunsAt, DeletesAt, Writing, Deleting
<1> QED
  BY <1>5, <1>6 DEF Calm, Left

\* A rollback starts where no run is, from a list of all that is left of the job.
LEMMA CalmAtRollback ==
  ASSUME Typed, NEW r \in Requests, Frame(r), Rollback(r), NEW j \in Uploaded, DeletesAt(r, j)', j \notin disturbed', Calm(j)
  PROVE  Calm(j)'
<1>1. /\ pc \in [Requests -> Stages] /\ target \in [Requests -> Requests \cup {NoJob}] /\ j \in Requests
      /\ created \in [Requests -> SUBSET Written]
  BY DEF Typed, Uploaded, Stages
<1>2. PICK i \in Uploaded : /\ jobs[i].status \in {"COMPLETED", "FAILED"}
                            /\ target' = [target EXCEPT ![r] = i]
                            /\ created' = [created EXCEPT ![r] = jobs[i].listed]
                            /\ DisturbIf(Starting(i), i)
  BY DEF Rollback
<1>3. i = j
  BY <1>1, <1>2 DEF DeletesAt
<1>4. \A q \in Requests : ~RunsAt(q, j)
  <2>1. \A q \in Requests : ~(target[q] = j /\ pc[q] \in {"analyse", "begin"})
    BY <1>2, <1>3 DEF DisturbIf, Starting, At
  <2>2. \A q \in Requests : ~WritesAt(q, j)
    BY <1>2, <1>3 DEF Calm
  <2> QED
    BY <2>1, <2>2 DEF RunsAt, WritesAt
<1>5. pc'[r] = "records" /\ created'[r] = jobs[j].listed /\ UNCHANGED <<jobs, live, begun, replaced>>
  BY <1>1, <1>2, <1>3 DEF Rollback, Goto
<1>6. \A q \in Requests : ~WritesAt(q, j)' /\ ~RunsAt(q, j)'
  BY <1>4, <1>5 DEF Frame, WritesAt, RunsAt, Writing
<1>7. \A e \in live' : Left(e, j)' => e \in live /\ Left(e, j) /\ e \in created'[r]
  BY <1>2, <1>3, <1>5 DEF Calm, Left
<1>8. \A q \in Requests : q # r => (DeletesAt(q, j)' => DeletesAt(q, j) /\ pc'[q] = pc[q] /\ created'[q] = created[q])
  BY DEF Frame, DeletesAt
<1>9. \A q \in Requests : DeletesAt(q, j)' => \A e \in live' : Left(e, j)' =>
        /\ e \in created'[q]
        /\ pc'[q] \in {"families", "mark"} => e.kind # "record"
        /\ pc'[q] # "mark"
  BY <1>5, <1>7, <1>8 DEF Calm
<1> QED
  BY <1>2, <1>3, <1>5, <1>6, <1>7, <1>9 DEF Calm

\* A deletion removes all that is left of its kind.
LEMMA CalmAtDelete ==
  ASSUME Typed, NEW r \in Requests, Frame(r), DeleteRecords(r) \/ DeleteFamilies(r), NEW j \in Uploaded,
         DeletesAt(r, j), Calm(j)
  PROVE  Calm(j)'
<1>1. pc \in [Requests -> Stages] /\ j \in Requests /\ live \subseteq Written
  BY DEF Typed, Uploaded, Stages
<1>2. UNCHANGED <<jobs, target, created, begun, replaced>>
  BY DEF DeleteRecords, DeleteFamilies, Delete, locals, history
<1>3. \/ pc[r] = "records" /\ pc'[r] = "families" /\ live' = live \ {e \in created[r] : e.kind = "record"}
      \/ pc[r] = "families" /\ pc'[r] = "mark" /\ live' = live \ {e \in created[r] : e.kind = "family"}
  BY <1>1 DEF DeleteRecords, DeleteFamilies, Delete, Goto
<1>4. \A e \in live' : Left(e, j)' => e \in live /\ Left(e, j)
  BY <1>2, <1>3 DEF Left
<1>5. \A q \in Requests : ~WritesAt(q, j)' /\ ~RunsAt(q, j)'
  <2>1. \A q \in Requests : ~RunsAt(q, j)
    BY DEF Calm
  <2> QED
    BY <1>3, <2>1 DEF Frame, WritesAt, RunsAt, Writing
<1>6. \A q \in Requests : q # r => (DeletesAt(q, j)' => DeletesAt(q, j) /\ pc'[q] = pc[q] /\ created'[q] = created[q])
  BY DEF Frame, DeletesAt
<1>7. \A e \in live' : Left(e, j)' => e \in created'[r] /\ e.kind # "record" /\ pc'[r] # "mark"
  <2>1. \A e \in live : Left(e, j) => e \in created[r] /\ (pc[r] = "families" => e.kind # "record")
    BY DEF Calm
  <2>2. \A e \in live : e.kind \in {"record", "family"}
    BY <1>1 DEF Written
  <2> QED
    BY <1>2, <1>3, <1>4, <2>1, <2>2
<1>8. \A q \in Requests : DeletesAt(q, j)' => \A e \in live' : Left(e, j)' =>
        /\ e \in created'[q]
        /\ pc'[q] \in {"families", "mark"} => e.kind # "record"
        /\ pc'[q] # "mark"
  BY <1>4, <1>6, <1>7 DEF Calm
<1> QED
  BY <1>2, <1>4, <1>5, <1>6, <1>8 DEF Calm

LEMMA CalmStep ==
  ASSUME IInv, NEW r \in Requests, Step(r)
  PROVE  CalmUnlessDisturbed'
<1>1. Typed /\ HeldOK /\ Provenance /\ CalmUnlessDisturbed /\ Frame(r)
  BY OwnLocals DEF IInv
<1>2. disturbed \subseteq disturbed'
  <2>1. CASE JobStep(r)
    BY <2>1 DEF JobStep, Upload, SaveColumnMapping, UpdateRow, Mark, EnterByHand, history, DisturbIf
  <2>2. CASE RunStep(r)
    BY <2>2 DEF RunStep, StartRun, Analyse, Begin, SkipRow, Household, InsertRecord, SaveProgress, Finish,
                history, DisturbIf
  <2>3. CASE RollStep(r)
    BY <2>3 DEF RollStep, Rollback, DeleteRecords, DeleteFamilies, Delete, MarkRolledBack, Abort, history,
                DisturbIf
  <2> QED
    BY <2>1, <2>2, <2>3 DEF Step
<1> SUFFICES ASSUME NEW j \in Uploaded', j \notin disturbed' PROVE Calm(j)'
  BY DEF CalmUnlessDisturbed
<1>3. j \in Requests
  BY DEF Uploaded
<1>4. CASE j \notin Uploaded
  <2>1. Upload(r) /\ j = r
    BY <1>1, <1>4, NewJob
  <2>2. pc'[r] = "done" /\ jobs'[j].status = "UPLOADED"
    BY <1>1, <2>1 DEF Upload, Goto, Typed
  <2>3. \A q \in Requests : ~RunsAt(q, j) /\ ~DeletesAt(q, j)
    BY <1>1, <1>4 DEF HeldOK, RunsAt, DeletesAt, Writing, Deleting
  <2> QED
    BY <1>1, <1>3, <2>2, <2>3, CalmAlone
<1>5. CASE j \in Uploaded
  <2>1. Calm(j)
    BY <1>1, <1>2, <1>5 DEF CalmUnlessDisturbed
  <2>2. \/ jobs'[j].status = jobs[j].status /\ jobs'[j].listed = jobs[j].listed
        \/ /\ jobs'[j].status \in {"UPLOADED", "PREVIEWED", "VALIDATED"} /\ pc'[r] = "done"
           /\ j \in disturbed' \/ \A q \in Requests : ~RunsAt(q, j) /\ ~DeletesAt(q, j)
        \/ j = target[r] /\ (Begin(r) \/ SaveProgress(r) \/ Finish(r) \/ MarkRolledBack(r))
    BY <1>1, <1>5, JobMoves
  <2>3. /\ WritesAt(r, j)' => WritesAt(r, j) \/ Begin(r)
        /\ RunsAt(r, j)' => RunsAt(r, j) \/ StartRun(r)
        /\ DeletesAt(r, j)' => \/ Rollback(r)
                               \/ DeletesAt(r, j) /\ (DeleteRecords(r) \/ DeleteFamilies(r))
                               \/ DeletesAt(r, j) /\ pc'[r] = pc[r] /\ created'[r] = created[r]
    BY <1>1, RoleMoves
  <2>4. CASE Begin(r) /\ j = target[r]
    <3>1. RunsAt(r, j) /\ ~DeletesAt(r, j)'
      BY <1>1, <2>4 DEF Begin, Goto, RunsAt, DeletesAt, Deleting, Typed
    <3>2. jobs'[j].status = "IMPORTING"
      <4>1. jobs[j] \in [status: Status, sheet: Seq(Rows), listed: SUBSET Written, rolledBack: BOOLEAN]
        BY <1>1, <1>5 DEF Typed, Uploaded, Jobs
      <4> QED
        BY <1>1, <1>3, <2>4, <4>1 DEF Begin, List, Typed
    <3> QED
      BY <1>1, <1>3, <2>1, <3>1, <3>2, CalmWhileWriting
  <2>5. CASE Finish(r) /\ j = target[r]
    BY <1>1, <1>5, <2>1, <2>5, CalmAtFinish
  <2>6. CASE MarkRolledBack(r) /\ j = target[r]
    BY <1>1, <1>5, <2>1, <2>6, CalmAtMark
  <2>7. CASE WritesAt(r, j) /\ ~Finish(r)
    <3>1. jobs[j].status = "IMPORTING" /\ RunsAt(r, j) /\ pc[r] \in Writing
      BY <2>1, <2>7 DEF Calm, WritesAt, RunsAt
    <3>2. ~Begin(r) /\ ~MarkRolledBack(r) /\ ~Rollback(r) /\ ~DeletesAt(r, j)
      BY <3>1 DEF Begin, MarkRolledBack, Rollback, DeletesAt, Writing, Deleting
    <3>3. jobs'[j].status = jobs[j].status
      <4>1. CASE SaveProgress(r) /\ j = target[r]
        <5>1. jobs[j] \in [status: Status, sheet: Seq(Rows), listed: SUBSET Written, rolledBack: BOOLEAN]
          BY <1>1, <1>5 DEF Typed, Uploaded, Jobs
        <5> QED
          BY <1>1, <1>3, <4>1, <5>1 DEF SaveProgress, List, Typed
      <4> QED
        BY <2>2, <2>7, <3>1, <3>2, <4>1
    <3> QED
      BY <1>1, <1>3, <2>1, <2>3, <3>1, <3>2, <3>3, CalmWhileWriting
  <2>8. CASE StartRun(r) /\ RunsAt(r, j)'
    BY <1>1, <1>5, <2>1, <2>8, CalmAtStart
  <2>9. CASE Rollback(r) /\ DeletesAt(r, j)'
    BY <1>1, <1>5, <2>1, <2>9, CalmAtRollback
  <2>10. CASE DeletesAt(r, j) /\ (DeleteRecords(r) \/ DeleteFamilies(r))
    BY <1>1, <1>5, <2>1, <2>10, CalmAtDelete
  <2>11. CASE /\ ~(Begin(r) /\ j = target[r]) /\ ~(Finish(r) /\ j = target[r])
              /\ ~(MarkRolledBack(r) /\ j = target[r]) /\ ~WritesAt(r, j)
              /\ ~(StartRun(r) /\ RunsAt(r, j)') /\ ~(Rollback(r) /\ DeletesAt(r, j)')
              /\ ~(DeletesAt(r, j) /\ (DeleteRecords(r) \/ DeleteFamilies(r)))
    <3>1. \A e \in live' : Left(e, j)' => e \in live /\ Left(e, j)
      BY <1>1, <1>3, <2>11, LeftMoves
    <3>2. ~(SaveProgress(r) /\ j = target[r])
      BY <2>11 DEF SaveProgress, WritesAt, Writing
    <3>3. WritesAt(r, j)' => WritesAt(r, j)
      BY <1>1, <2>3, <2>11 DEF Begin, WritesAt
    <3>4. CASE jobs'[j].status = jobs[j].status /\ jobs'[j].listed = jobs[j].listed
      BY <1>1, <1>3, <2>1, <2>3, <2>11, <3>1, <3>3, <3>4, CalmKept
    <3>5. CASE /\ jobs'[j].status \in {"UPLOADED", "PREVIEWED", "VALIDATED"} /\ pc'[r] = "done"
               /\ j \in disturbed' \/ \A q \in Requests : ~RunsAt(q, j) /\ ~DeletesAt(q, j)
      BY <1>1, <1>3, <3>5, CalmAlone
    <3> QED
      BY <2>2, <2>11, <3>2, <3>4, <3>5
  <2>12. WritesAt(r, j) /\ Finish(r) => j = target[r]
    BY DEF WritesAt
  <2> QED
    BY <2>4, <2>5, <2>6, <2>7, <2>8, <2>9, <2>10, <2>11, <2>12
<1> QED
  BY <1>4, <1>5

-----------------------------------------------------------------------------
(* Theorems *)

LEMMA InitInv == Init => IInv
<1> SUFFICES ASSUME Init PROVE IInv
  OBVIOUS
<1> USE DEF Init
<1>1. Typed
  <2>1. <<>> \in Seq(Rows)
    OBVIOUS
  <2> QED
    BY <2>1 DEF Typed
<1>2. HeldOK
  BY DEF HeldOK
<1>3. Provenance
  BY DEF Provenance, Uploaded
<1>4. CalmUnlessDisturbed
  BY DEF CalmUnlessDisturbed, Uploaded
<1>5. Fresh
  BY DEF Fresh, Uploaded
<1> QED
  BY <1>1, <1>2, <1>3, <1>4, <1>5 DEF IInv

LEMMA InvStep == IInv /\ [Next]_vars => IInv'
<1> SUFFICES ASSUME IInv, [Next]_vars PROVE IInv'
  OBVIOUS
<1>1. CASE UNCHANGED vars
  BY <1>1 DEF IInv, Typed, HeldOK, Provenance, CalmUnlessDisturbed, Calm, Left, WritesAt, RunsAt,
              DeletesAt, Fresh, Uploaded, vars, locals, history
<1>2. ASSUME NEW r \in Requests, Step(r) PROVE IInv'
  BY <1>2, TypeStep, HeldStep, ProvenanceStep, CalmStep, FreshStep DEF IInv
<1> QED
  BY <1>1, <1>2, Steps

\* The strengthened invariant holds in every state.
THEOREM Safety == Spec => []IInv
  BY InitInv, InvStep, PTL DEF Spec

\* A run of any length keeps the tables and what each call holds in their types.
THEOREM TypeCorrect == Spec => []TypeOK
<1>1. IInv => TypeOK
  BY DEF IInv, Typed, Fresh, TypeOK
<1> QED
  BY <1>1, Safety, PTL

\* However many calls are made, two runs are at one job only where a call changed the job
\* while another was at it.
THEOREM RunsOneAtATime == Spec => []OneRunAtATime
<1>1. IInv => OneRunAtATime
  <2> SUFFICES ASSUME IInv, NEW j \in Requests, j \notin disturbed PROVE ~(Cardinality(Importing(j)) > 1)
    BY DEF OneRunAtATime
  <2>1. \A q1, q2 \in Importing(j) : q1 = q2
    <3>1. CASE j \in Uploaded
      BY <3>1 DEF IInv, CalmUnlessDisturbed, Calm, Importing, At, RunsAt, Writing
    <3>2. CASE j \notin Uploaded
      BY <3>2 DEF IInv, HeldOK, Importing, At
    <3> QED
      BY <3>1, <3>2
  <2>2. CASE Importing(j) = {}
    BY <2>2, FS_EmptySet
  <2>3. CASE Importing(j) # {}
    <3>1. PICK q : Importing(j) = {q}
      BY <2>1, <2>3
    <3>2. Cardinality(Importing(j)) = 1
      BY <3>1, FS_Singleton, Zenon
    <3> QED
      BY <3>2
  <2> QED
    BY <2>2, <2>3
<1> QED
  BY <1>1, Safety, PTL

\* What a rollback of any sheet leaves of its job was written by a run whose list another
\* run replaced.
THEOREM RollbacksRemoveAll == Spec => []RollbackRemovesAll
<1>1. IInv => RollbackRemovesAll
  BY DEF IInv, CalmUnlessDisturbed, Calm, Left, RollbackRemovesAll, Uploaded
<1> QED
  BY <1>1, Safety, PTL

\* Whatever other calls write meanwhile, a rollback deletes no record of another job, and
\* none of the staff's.
THEOREM RollbacksKeepToTheirJob == Spec => RollbackKeepsToItsJob
<1> DEFINE Keeps == \A e \in live \ live' :
       e.kind = "record" => \E r \in Requests : pc[r] = "records" /\ e.by \in begun[target[r]]
<1>1. IInv /\ [Next]_vars => [Keeps]_vars
  <2> SUFFICES ASSUME IInv, NEW r \in Requests, Step(r) PROVE Keeps
    BY Steps
  <2>1. CASE DeleteRecords(r)
    <3>1. pc[r] = "records" /\ live' = live \ {e \in created[r] : e.kind = "record"}
      BY <2>1 DEF DeleteRecords, Delete
    <3>2. \A e \in created[r] : e.kind = "record" => e.by \in begun[target[r]]
      BY <3>1 DEF IInv, Provenance
    <3> QED
      BY <3>1, <3>2
  <2>2. CASE DeleteFamilies(r)
    BY <2>2 DEF DeleteFamilies, Delete
  <2>3. CASE live \subseteq live'
    BY <2>3
  <2>4. CASE Household(r) \/ InsertRecord(r)
    BY <2>3, <2>4, RunAdds DEF IInv
  <2>5. CASE JobStep(r)
    BY <2>3, <2>5 DEF JobStep, Upload, SaveColumnMapping, UpdateRow, Mark, EnterByHand
  <2>6. CASE RunStep(r)
    BY <2>3, <2>4, <2>6 DEF RunStep, StartRun, Analyse, Begin, SkipRow, SaveProgress, Finish
  <2>7. CASE RollStep(r)
    BY <2>1, <2>2, <2>3, <2>7 DEF RollStep, Rollback, MarkRolledBack, Abort
  <2> QED
    BY <2>5, <2>6, <2>7 DEF Step
<1>2. Keeps <=> \A e \in live \ live' :
        e.kind = "record" => \E r \in Requests : pc[r] = "records" /\ e.by \in begun[target[r]]
  OBVIOUS
<1> HIDE DEF Keeps
<1> QED
  BY <1>1, <1>2, Safety, PTL DEF Spec, RollbackKeepsToItsJob
===============================================================================
