--------------------------- MODULE PublishingProofs ---------------------------
(***************************************************************************)
(* Proofs about Publishing, for any number of campaigns, reports, runs,    *)
(* calls and faults: the types, and how a mail comes to go out twice.      *)
(***************************************************************************)
EXTENDS Publishing, TLAPS

PostRows     == [status: Statuses \cup {"none"}, date: Dates]
CampaignRows == [status: {"none", "DRAFT", "SCHEDULED", "SENT"}, date: Dates]
Current      == (Reports \X {"sent", "failed"}) \cup {<<None, "idle">>}

\* Who mails has a campaign; the rest of what a run holds is in TypeOK.
Holding == \A p \in Procs : pc[p] \in {"mail", "mark"} => item[p] \in Campaigns
Typed   == TypeOK /\ Holding

\* At first there are no rows, and nothing runs.
LEMMA InitTyped == Init => Typed
<1> SUFFICES ASSUME Init PROVE Typed
  OBVIOUS
<1>1. [status |-> "none", date |-> "none"] \in PostRows \cap CampaignRows
  BY DEF PostRows, CampaignRows, Statuses, Dates
<1>2. /\ post \in [Posts -> PostRows] /\ campaign \in [Campaigns -> CampaignRows]
      /\ report \in [Reports -> [date: Dates, live: BOOLEAN]]
  BY <1>1 DEF Init, Dates
<1>3. /\ mailed \in [Campaigns -> [Subscribers -> Nat]] /\ refused = {} /\ sent \in [Reports -> Nat]
      /\ pc \in [Procs -> {"idle"}] /\ todo \in [Ticks -> SUBSET Campaigns]
      /\ item \in [Procs -> Campaigns \cup {None}] /\ left \in [Procs -> SUBSET Subscribers]
  BY DEF Init
<1>4. /\ running = FALSE /\ queue = {} /\ current = <<None, "idle">>
      /\ faults \in 0 .. MaxFaults /\ again = {} /\ asked = {}
  BY BoundAssumption DEF Init
<1> QED
  BY <1>2, <1>3, <1>4 DEF Typed, TypeOK, Holding, PostRows, CampaignRows

-----------------------------------------------------------------------------
(* The types *)

\* The parts of the state that only the staff and the clock write.
Rows ==
  /\ post \in [Posts -> PostRows] /\ campaign \in [Campaigns -> CampaignRows]
  /\ report \in [Reports -> [date: Dates, live: BOOLEAN]]
\* What the runs and calls hold.
Runs ==
  /\ mailed \in [Campaigns -> [Subscribers -> Nat]]
  /\ refused \subseteq Campaigns \X Subscribers
  /\ pc \in [Procs -> {"idle", "next", "mail", "mark", "done"}]
  /\ todo \in [Ticks -> SUBSET Campaigns] /\ item \in [Procs -> Campaigns \cup {None}]
  /\ left \in [Procs -> SUBSET Subscribers]
  /\ Holding
\* What the loop over the reports holds.
Loop ==
  /\ sent \in [Reports -> Nat]
  /\ running \in BOOLEAN /\ queue \subseteq Reports /\ current \in Current
  /\ ~running => queue = {} /\ current = <<None, "idle">>
\* The bound on faults, and the history.
Marks == faults \in 0 .. MaxFaults /\ again \subseteq Campaigns \cup Reports /\ asked \subseteq Posts

\* The types in four parts, each of which few steps write.
LEMMA Parts == Typed <=> (Rows /\ Runs /\ Loop /\ Marks)
  BY DEF Typed, TypeOK, Rows, Runs, Loop, Marks, PostRows, CampaignRows, Current

\* The same of the next state.
LEMMA PartsNext == Typed' <=> (Rows' /\ Runs' /\ Loop' /\ Marks')
  BY DEF Typed, TypeOK, Rows, Runs, Loop, Marks, PostRows, CampaignRows, Current

\* An edit of the staff, or the clock, leaves rows.
LEMMA StaffTyped ==
  ASSUME Typed, \/ \E c \in Posts : CreatePost(c) \/ DeletePost(c)
                \/ \E k \in Campaigns : CreateCampaign(k)
                \/ \E s \in Reports : CreateReport(s) \/ RemoveReport(s)
                \/ \E r \in Requests : EditPost(r) \/ ApproveContent(r)
                \/ FallDue
  PROVE  Typed'
<1> USE DEF mails, site, procs, jobs, Goto
<1>1. Rows /\ Runs /\ Loop /\ Marks
  BY Parts
<1>2. ASSUME NEW c \in Posts, CreatePost(c) PROVE Typed'
  <2>1. Rows'
    BY <1>1, <1>2 DEF CreatePost, Rows, PostRows, Dates
  <2> QED
    BY <1>1, <1>2, <2>1, PartsNext DEF CreatePost, Runs, Holding, Loop, Marks
<1>3. ASSUME NEW c \in Posts, DeletePost(c) PROVE Typed'
  <2>1. Rows'
    BY <1>1, <1>3 DEF DeletePost, Rows, PostRows, Dates
  <2> QED
    BY <1>1, <1>3, <2>1, PartsNext DEF DeletePost, Runs, Holding, Loop, Marks
<1>4. ASSUME NEW k \in Campaigns, CreateCampaign(k) PROVE Typed'
  <2>1. Rows'
    BY <1>1, <1>4 DEF CreateCampaign, Rows, CampaignRows, Dates
  <2> QED
    BY <1>1, <1>4, <2>1, PartsNext DEF CreateCampaign, Runs, Holding, Loop, Marks
<1>5. ASSUME NEW s \in Reports, CreateReport(s) \/ RemoveReport(s) PROVE Typed'
  <2>1. /\ [date |-> "later", live |-> TRUE] \in [date: Dates, live: BOOLEAN]
        /\ [report[s] EXCEPT !.live = FALSE] \in [date: Dates, live: BOOLEAN]
    BY <1>1 DEF Rows, Dates
  <2>2. report' \in [Reports -> [date: Dates, live: BOOLEAN]]
    BY <1>1, <1>5, <2>1 DEF CreateReport, RemoveReport, Rows
  <2>3. Rows'
    BY <1>1, <1>5, <2>2 DEF CreateReport, RemoveReport, Rows
  <2> QED
    BY <1>1, <1>5, <2>3, PartsNext DEF CreateReport, RemoveReport, Runs, Holding, Loop, Marks
<1>6. ASSUME NEW r \in Requests, EditPost(r) \/ ApproveContent(r) PROVE Typed'
  <2>1. r \in Procs
    BY DEF Procs
  <2>2. Rows'
    <3>1. CASE EditPost(r)
      <4>1. PICK c \in Posts, s \in Statuses : \E d \in {post[c].date, "later"} :
              post' = [post EXCEPT ![c] = [status |-> s, date |-> d]]
        BY <3>1 DEF EditPost
      <4> PICK d \in {post[c].date, "later"} : post' = [post EXCEPT ![c] = [status |-> s, date |-> d]]
        BY <4>1
      <4>2. d \in Dates
        BY <1>1 DEF Rows, PostRows, Dates
      <4>3. [status |-> s, date |-> d] \in PostRows
        BY <4>2 DEF PostRows
      <4> QED
        BY <1>1, <3>1, <4>3 DEF EditPost, Rows
    <3>2. CASE ApproveContent(r)
      <4>1. PICK c \in Posts, d \in {"PUBLISHED", "DRAFT"} : post' = [post EXCEPT ![c].status = d]
        BY <3>2 DEF ApproveContent
      <4>2. [post[c] EXCEPT !.status = d] \in PostRows
        BY <1>1 DEF Rows, PostRows, Statuses
      <4> QED
        BY <1>1, <3>2, <4>1, <4>2 DEF ApproveContent, Rows
    <3> QED
      BY <1>6, <3>1, <3>2
  <2>3. asked' \subseteq Posts
    BY <1>1, <1>6 DEF EditPost, ApproveContent, Marks
  <2>4. pc' = [pc EXCEPT ![r] = "done"]
    BY <1>6 DEF EditPost, ApproveContent
  <2>5. Runs'
    BY <1>1, <1>6, <2>1, <2>4 DEF EditPost, ApproveContent, Runs, Holding
  <2> QED
    BY <1>1, <1>6, <2>2, <2>3, <2>5, PartsNext DEF EditPost, ApproveContent, Loop, Marks
<1>7. CASE FallDue
  <2>1. ASSUME NEW c \in Posts, post' = [post EXCEPT ![c].date = "due"], UNCHANGED <<campaign, report>> PROVE Rows'
    <3>1. [post[c] EXCEPT !.date = "due"] \in PostRows
      BY <1>1 DEF Rows, PostRows, Dates
    <3> QED
      BY <1>1, <2>1, <3>1 DEF Rows
  <2>2. ASSUME NEW k \in Campaigns, campaign' = [campaign EXCEPT ![k].date = "due"], UNCHANGED <<post, report>> PROVE Rows'
    <3>1. [campaign[k] EXCEPT !.date = "due"] \in CampaignRows
      BY <1>1 DEF Rows, CampaignRows, Dates
    <3> QED
      BY <1>1, <2>2, <3>1 DEF Rows
  <2>3. ASSUME NEW s \in Reports, report' = [report EXCEPT ![s].date = "due"], UNCHANGED <<post, campaign>> PROVE Rows'
    <3>1. [report[s] EXCEPT !.date = "due"] \in [date: Dates, live: BOOLEAN]
      BY <1>1 DEF Rows, Dates
    <3> QED
      BY <1>1, <2>3, <3>1 DEF Rows
  <2>4. Rows'
    BY <1>7, <2>1, <2>2, <2>3 DEF FallDue
  <2> QED
    BY <1>1, <1>7, <2>4, PartsNext DEF FallDue, Runs, Holding, Loop, Marks
<1> QED
  BY <1>2, <1>3, <1>4, <1>5, <1>6, <1>7

\* To take a campaign up, or let it go, is right for what is held.
LEMMA MailTyped ==
  ASSUME Typed, NEW p \in Procs,
         \/ p \in Requests /\ SendCampaign(p)
         \/ p \in Ticks /\ Run(p)
         \/ Mail(p) \/ MarkSent(p)
  PROVE  Typed'
<1> USE DEF mails, site, procs, jobs, Goto
<1>1. Rows /\ Runs /\ Loop /\ Marks
  BY Parts
<1>2. ASSUME NEW k \in Campaigns, StartMail(p, k), todo' \in [Ticks -> SUBSET Campaigns],
             UNCHANGED <<post, campaign, mails, asked, jobs, faults>>
      PROVE  Typed'
  <2>1. Runs'
    BY <1>1, <1>2 DEF StartMail, Runs, Holding
  <2>2. again' \subseteq Campaigns \cup Reports
    BY <1>1, <1>2 DEF StartMail, Marks
  <2> QED
    BY <1>1, <1>2, <2>1, <2>2, PartsNext DEF Rows, Loop, Marks
<1>3. CASE p \in Requests /\ SendCampaign(p)
  <2>1. PICK k \in Campaigns : StartMail(p, k)
    BY <1>3 DEF SendCampaign
  <2>2. todo' \in [Ticks -> SUBSET Campaigns] /\ UNCHANGED <<post, campaign, mails, asked, jobs, faults>>
    BY <1>1, <1>3 DEF SendCampaign, Runs
  <2> QED
    BY <1>2, <2>1, <2>2
<1>4. CASE p \in Ticks /\ NextCampaign(p)
  <2>1. PICK k \in todo[p] : StartMail(p, k) /\ todo' = [todo EXCEPT ![p] = @ \ {k}]
    BY <1>4 DEF NextCampaign
  <2>2. k \in Campaigns /\ todo' \in [Ticks -> SUBSET Campaigns]
    BY <1>1, <1>4, <2>1 DEF Runs
  <2>3. UNCHANGED <<post, campaign, mails, asked, jobs, faults>>
    BY <1>4 DEF NextCampaign
  <2> QED
    BY <1>2, <2>1, <2>2, <2>3
<1>5. CASE p \in Ticks /\ PublishDue(p)
  <2>1. ASSUME NEW c \in Posts PROVE [post[c] EXCEPT !.status = "PUBLISHED"] \in PostRows
    BY <1>1 DEF Rows, PostRows, Statuses
  <2>2. Rows'
    BY <1>1, <1>5, <2>1 DEF PublishDue, Rows
  <2>3. /\ todo' = [todo EXCEPT ![p] = {k \in Campaigns : Due(campaign[k])}]
        /\ \E s \in {"idle", "next"} : pc' = [pc EXCEPT ![p] = s]
    BY <1>5 DEF PublishDue, Onward
  <2>4. Runs'
    BY <1>1, <1>5, <2>3 DEF PublishDue, Runs, Holding
  <2> QED
    BY <1>1, <1>5, <2>2, <2>4, PartsNext DEF PublishDue, Loop, Marks
<1>6. CASE Mail(p)
  <2>1. PICK u \in left[p] :
          /\ \/ mailed' = [mailed EXCEPT ![item[p]][u] = @ + 1] /\ UNCHANGED refused
             \/ refused' = refused \cup {<<item[p], u>>} /\ UNCHANGED mailed
          /\ left' = [left EXCEPT ![p] = @ \ {u}]
          /\ pc' = [pc EXCEPT ![p] = "mark"] \/ pc' = pc
    BY <1>6 DEF Mail
  <2>2. item[p] \in Campaigns /\ u \in Subscribers
    BY <1>1, <1>6 DEF Mail, Runs, Holding
  <2>a. <<item[p], u>> \in Campaigns \X Subscribers
    BY <2>2
  <2>b. mailed' \in [Campaigns -> [Subscribers -> Nat]]
    <3>1. mailed \in [Campaigns -> [Subscribers -> Nat]]
      BY <1>1 DEF Runs
    <3> QED
      BY <2>1, <2>2, <3>1
  <2>c. refused' \subseteq Campaigns \X Subscribers
    <3>1. refused \subseteq Campaigns \X Subscribers
      BY <1>1 DEF Runs
    <3> QED
      BY <2>1, <2>a, <3>1
  <2>3. mailed' \in [Campaigns -> [Subscribers -> Nat]] /\ refused' \subseteq Campaigns \X Subscribers
    BY <2>b, <2>c
  <2>4. Runs'
    BY <1>1, <1>6, <2>1, <2>2, <2>3 DEF Mail, Runs, Holding
  <2> QED
    BY <1>1, <1>6, <2>4, PartsNext DEF Mail, Rows, Loop, Marks
<1>7. CASE MarkSent(p)
  <2>1. item[p] \in Campaigns
    BY <1>1, <1>7 DEF MarkSent, Runs, Holding
  <2>2. [campaign[item[p]] EXCEPT !.status = "SENT"] \in CampaignRows
    BY <1>1, <2>1 DEF Rows, CampaignRows
  <2>3. Rows'
    BY <1>1, <1>7, <2>1, <2>2 DEF MarkSent, Rows
  <2>4. /\ item' = [item EXCEPT ![p] = None]
        /\ \E s \in {"idle", "next", "done"} : pc' = [pc EXCEPT ![p] = s]
    BY <1>7 DEF MarkSent, Release, Onward
  <2>5. Runs'
    BY <1>1, <1>7, <2>4 DEF MarkSent, Runs, Holding
  <2> QED
    BY <1>1, <1>7, <2>3, <2>5, PartsNext DEF MarkSent, Loop, Marks
<1> QED
  BY <1>3, <1>4, <1>5, <1>6, <1>7 DEF Run

\* The loop over the reports has one report at a time.
LEMMA ReportTyped == ASSUME Typed, Reporting PROVE Typed'
<1> USE DEF mails, site, procs, jobs, Fault
<1>1. Rows /\ Runs /\ Loop /\ Marks
  BY Parts
<1>2. CASE FindReports
  BY <1>1, <1>2, PartsNext DEF FindReports, Rows, Runs, Holding, Loop, Marks
<1>3. CASE RunReport
  <2>1. PICK s \in queue :
          /\ queue' = queue \ {s}
          /\ \/ /\ sent' \in {[sent EXCEPT ![s] = @ + 1], sent}
                /\ current' = <<s, "sent">> /\ UNCHANGED faults
             \/ faults < MaxFaults /\ faults' = faults + 1 /\ current' = <<s, "failed">> /\ UNCHANGED sent
    BY <1>3 DEF RunReport
  <2>2. s \in Reports /\ current' \in Current /\ running /\ running' = running
    BY <1>1, <1>3, <2>1 DEF Loop, Current, RunReport
  <2>3. Loop'
    BY <1>1, <2>1, <2>2 DEF Loop
  <2>4. faults' \in 0 .. MaxFaults
    BY <1>1, <2>1, BoundAssumption DEF Marks
  <2> QED
    BY <1>1, <1>3, <2>3, <2>4, PartsNext DEF RunReport, Rows, Runs, Holding, Marks
<1>4. CASE RecordRun
  <2> DEFINE s == current[1]
  <2>1. s \in Reports /\ running
    BY <1>1, <1>4 DEF RecordRun, Loop, Current
  <2>2. CASE report' = [report EXCEPT ![s].date = "later"] /\ sent' = [sent EXCEPT ![s] = 0]
             /\ current' = <<None, "idle">> /\ UNCHANGED faults
    <3>1. Rows'
      BY <1>1, <1>4, <2>1, <2>2 DEF RecordRun, Rows, Dates
    <3>2. Loop'
      BY <1>1, <1>4, <2>1, <2>2 DEF RecordRun, Loop, Current
    <3> QED
      BY <1>1, <1>4, <2>2, <3>1, <3>2, PartsNext DEF RecordRun, Runs, Holding, Marks
  <2>3. CASE faults < MaxFaults /\ faults' = faults + 1 /\ current' = <<s, "failed">> /\ UNCHANGED <<report, sent>>
    <3>1. Loop'
      BY <1>1, <1>4, <2>1, <2>3 DEF RecordRun, Loop, Current
    <3>2. faults' \in 0 .. MaxFaults
      BY <1>1, <2>3, BoundAssumption DEF Marks
    <3> QED
      BY <1>1, <1>4, <2>3, <3>1, <3>2, PartsNext DEF RecordRun, Rows, Runs, Holding, Marks
  <2> QED
    BY <1>4, <2>2, <2>3 DEF RecordRun
<1>5. CASE EndReports
  BY <1>1, <1>5, PartsNext DEF EndReports, Rows, Runs, Holding, Loop, Marks
<1> QED
  BY <1>2, <1>3, <1>4, <1>5 DEF Reporting

\* A fault takes what runs away, and the flag with the loop.
LEMMA FaultTyped ==
  ASSUME Typed, FailReports \/ Restart \/ \E p \in Procs : Fail(p)
  PROVE  Typed'
<1> USE DEF mails, site, procs, jobs, Fault
<1>1. Rows /\ Runs /\ Loop /\ Marks
  BY Parts
<1>2. ASSUME NEW gone \in SUBSET Active, End(gone) PROVE Cut(gone) \subseteq Campaigns /\ (UNCHANGED mails => Runs')
  <2>1. gone \subseteq Procs
    BY DEF Active
  <2>2. Cut(gone) \subseteq Campaigns
    BY <1>1, <2>1 DEF Cut, Runs, Holding
  <2> QED
    BY <1>1, <1>2, <2>1, <2>2 DEF End, Runs, Holding
<1>3. faults' \in 0 .. MaxFaults
  <2>1. faults < MaxFaults /\ faults' = faults + 1
    BY DEF FailReports, Restart, Fail
  <2> QED
    BY <1>1, <2>1, BoundAssumption DEF Marks
<1>4. {current[1]} \ {None} \subseteq Reports
  BY <1>1 DEF Loop, Current
<1>5. ASSUME NEW p \in Procs, Fail(p) PROVE Typed'
  <2>1. {p} \in SUBSET Active
    BY <1>5 DEF Fail
  <2> QED
    BY <1>1, <1>2, <1>3, <1>5, <2>1, PartsNext DEF Fail, Rows, Loop, Marks
<1>6. CASE FailReports
  BY <1>1, <1>3, <1>4, <1>6, PartsNext DEF FailReports, Rows, Runs, Holding, Loop, Current, Marks
<1>7. CASE Restart
  BY <1>1, <1>2, <1>3, <1>4, <1>7, PartsNext DEF Restart, Rows, Loop, Current, Marks
<1> QED
  BY <1>5, <1>6, <1>7

\* Every step keeps the types.
LEMMA NextTyped == Typed /\ [Next]_vars => Typed'
<1> SUFFICES ASSUME Typed, [Next]_vars PROVE Typed'
  OBVIOUS
<1>1. CASE UNCHANGED vars
  BY <1>1 DEF vars, mails, site, procs, jobs, Typed, TypeOK, Holding
<1>2. CASE Staff
  BY <1>2, StaffTyped, MailTyped DEF Staff, Procs
<1>3. CASE \E t \in Ticks : Run(t)
  BY <1>3, MailTyped DEF Procs
<1> QED
  BY <1>1, <1>2, <1>3, StaffTyped, MailTyped, ReportTyped, FaultTyped DEF Next

\* The rows, and what each run and call holds, keep their types.
THEOREM TypeCorrect == Spec => []TypeOK
<1>1. Typed => TypeOK
  BY DEF Typed
<1> QED
  BY InitTyped, NextTyped, <1>1, PTL DEF Spec

-----------------------------------------------------------------------------
(* How a mail comes to go out twice *)

\* A campaign that neither a fault nor a second hand touched is with one run or call at
\* most, and has gone to none of those it has still to reach.
Once(k) ==
  /\ \A p, q \in Sending(k) : p = q
  /\ \A u \in Subscribers : mailed[k][u] <= 1
  /\ \A p \in Sending(k) : \A u \in left[p] : mailed[k][u] = 0
  /\ Sending(k) = {} /\ campaign[k].status # "SENT" => \A u \in Subscribers : mailed[k][u] = 0
CampaignsOnce == \A k \in Campaigns : k \in again \/ Once(k)

\* A report that was mailed and not recorded is the one the loop is at.
ReportsOnce ==
  \A s \in Reports : s \in again \/ sent[s] = 0 \/ (sent[s] = 1 /\ current[1] = s)

\* Where neither the campaigns nor who mails them change, nothing goes out.
LEMMA OnceKept ==
  ASSUME CampaignsOnce, again \subseteq again', UNCHANGED <<mailed, left>>,
         \A k \in Campaigns : Sending(k)' = Sending(k),
         \A k \in Campaigns : campaign'[k].status = "SENT" <=> campaign[k].status = "SENT"
  PROVE  CampaignsOnce'
<1> SUFFICES ASSUME NEW k \in Campaigns, k \notin again', Once(k) PROVE Once(k)'
  BY DEF CampaignsOnce
<1> QED
  BY DEF Once

\* A step of the staff or the clock.
LEMMA StaffOnce ==
  ASSUME Typed, CampaignsOnce, \/ \E c \in Posts : CreatePost(c) \/ DeletePost(c)
                               \/ \E k \in Campaigns : CreateCampaign(k)
                               \/ \E s \in Reports : CreateReport(s) \/ RemoveReport(s)
                               \/ FallDue
  PROVE  CampaignsOnce'
<1> USE DEF mails, site, procs, jobs
<1>1. campaign \in [Campaigns -> CampaignRows]
  BY DEF Typed, TypeOK, CampaignRows
<1>2. UNCHANGED <<mailed, pc, item, left, again>>
  BY DEF CreatePost, DeletePost, CreateCampaign, CreateReport, RemoveReport, FallDue
<1>3. \A k \in Campaigns : campaign'[k].status = "SENT" <=> campaign[k].status = "SENT"
  <2>1. ASSUME NEW k \in Campaigns, CreateCampaign(k) PROVE \A j \in Campaigns : campaign'[j].status = "SENT" <=> campaign[j].status = "SENT"
    BY <1>1, <2>1 DEF CreateCampaign
  <2>2. CASE \E k \in Campaigns : campaign' = [campaign EXCEPT ![k].date = "due"]
    BY <1>1, <2>2 DEF CampaignRows
  <2>3. CASE UNCHANGED campaign
    BY <2>3
  <2> QED
    BY <2>1, <2>2, <2>3 DEF CreatePost, DeletePost, CreateReport, RemoveReport, FallDue
<1>4. \A k \in Campaigns : Sending(k)' = Sending(k)
  BY <1>2 DEF Sending
<1> QED
  BY <1>2, <1>3, <1>4, OnceKept

\* A campaign is taken up for the first time only when nobody has mailed it.
LEMMA StartOnce ==
  ASSUME Typed, CampaignsOnce, NEW p \in Procs, pc[p] \in {"idle", "next"}, NEW k \in Campaigns,
         StartMail(p, k), UNCHANGED <<campaign, mailed>>
  PROVE  CampaignsOnce'
<1>1. /\ item' = [item EXCEPT ![p] = k] /\ left' = [left EXCEPT ![p] = Subscribers]
      /\ again \subseteq again' /\ pc' \in {[pc EXCEPT ![p] = "mail"], [pc EXCEPT ![p] = "mark"]}
      /\ DOMAIN pc = Procs /\ DOMAIN item = Procs /\ DOMAIN left = Procs
  BY DEF StartMail, Goto, Typed, TypeOK
<1>2. ASSUME NEW j \in Campaigns, j # k, Once(j) PROVE Once(j)'
  <2>1. Sending(j)' = Sending(j) /\ p \notin Sending(j)
    BY <1>1, <1>2 DEF Sending
  <2>2. \A q \in Sending(j) : left'[q] = left[q]
    BY <1>1, <2>1 DEF Sending
  <2> QED
    BY <1>2, <2>1, <2>2 DEF Once
<1>3. ASSUME k \notin again', Once(k) PROVE Once(k)'
  <2>1. Sending(k) = {} /\ campaign[k].status # "SENT"
    BY <1>3 DEF StartMail
  <2>2. \A u \in Subscribers : mailed[k][u] = 0
    BY <1>3, <2>1 DEF Once
  <2>3. \A q \in Sending(k)' : q = p /\ left'[q] = Subscribers
    BY <1>1, <2>1 DEF Sending
  <2> QED
    BY <2>2, <2>3 DEF Once
<1> QED
  BY <1>1, <1>2, <1>3 DEF CampaignsOnce

\* Each mail is to one it has still to reach.
LEMMA MailOnce == ASSUME Typed, CampaignsOnce, NEW p \in Procs, Mail(p) PROVE CampaignsOnce'
<1>0. item[p] \in Campaigns
  BY DEF Mail, Typed, Holding
<1> PICK k \in Campaigns : k = item[p]
  BY <1>0
<1>1. k \in Campaigns /\ pc[p] = "mail" /\ again' = again /\ campaign' = campaign /\ item' = item
  BY DEF Mail
<1>2. PICK u \in left[p] : /\ mailed' = [mailed EXCEPT ![k][u] = @ + 1] \/ UNCHANGED mailed
                           /\ left' = [left EXCEPT ![p] = @ \ {u}]
                           /\ pc' = [pc EXCEPT ![p] = "mark"] \/ pc' = pc
  BY DEF Mail, Goto
<1>3. /\ u \in Subscribers /\ mailed \in [Campaigns -> [Subscribers -> Nat]]
      /\ left \in [Procs -> SUBSET Subscribers] /\ DOMAIN pc = Procs
  BY DEF Typed, TypeOK
<1>4. \A j : Sending(j)' = Sending(j)
  BY <1>1, <1>2, <1>3 DEF Sending
<1>5. p \in Sending(k)
  BY <1>1 DEF Sending
<1>6. ASSUME NEW j \in Campaigns, j # k, Once(j) PROVE Once(j)'
  <2>1. p \notin Sending(j)
    BY <1>6 DEF Sending
  <2>2. mailed'[j] = mailed[j] /\ \A q \in Sending(j) : left'[q] = left[q]
    BY <1>1, <1>2, <1>3, <1>6, <2>1 DEF Sending
  <2> QED
    BY <1>1, <1>4, <1>6, <2>2 DEF Once
<1>7. ASSUME Once(k) PROVE Once(k)'
  <2>1. mailed[k][u] = 0 /\ mailed'[k][u] \in {0, 1}
    BY <1>1, <1>2, <1>3, <1>5, <1>7 DEF Once
  <2>2. \A v \in Subscribers \ {u} : mailed'[k][v] = mailed[k][v]
    BY <1>1, <1>2, <1>3
  <2>3. left'[p] = left[p] \ {u} /\ \A q \in Sending(k) : q = p
    BY <1>2, <1>3, <1>5, <1>7 DEF Once
  <2> QED
    BY <1>3, <1>4, <1>5, <1>7, <2>1, <2>2, <2>3 DEF Once
<1> QED
  BY <1>1, <1>6, <1>7 DEF CampaignsOnce

\* A campaign it was the only one to mail is marked.
LEMMA MarkOnce == ASSUME Typed, CampaignsOnce, NEW p \in Procs, MarkSent(p) PROVE CampaignsOnce'
<1>0. item[p] \in Campaigns
  BY DEF MarkSent, Typed, Holding
<1> PICK k \in Campaigns : k = item[p]
  BY <1>0
<1>1. /\ k \in Campaigns /\ pc[p] = "mark" /\ campaign' = [campaign EXCEPT ![k].status = "SENT"]
      /\ UNCHANGED <<mailed, left, again>>
      /\ item' = [item EXCEPT ![p] = None] /\ \E s \in {"idle", "next", "done"} : pc' = [pc EXCEPT ![p] = s]
  BY DEF MarkSent, Release, Goto, Onward, mails
<1>2. DOMAIN pc = Procs /\ DOMAIN item = Procs /\ campaign \in [Campaigns -> CampaignRows]
  BY DEF Typed, TypeOK, CampaignRows
<1>3. ASSUME NEW j \in Campaigns, j # k, Once(j) PROVE Once(j)'
  <2>1. Sending(j)' = Sending(j) /\ campaign'[j] = campaign[j]
    BY <1>1, <1>2, <1>3 DEF Sending
  <2> QED
    BY <1>1, <1>3, <2>1 DEF Once
<1>4. ASSUME Once(k) PROVE Once(k)'
  <2>1. Sending(k)' = Sending(k) \ {p} /\ campaign'[k].status = "SENT"
    BY <1>1, <1>2 DEF Sending, CampaignRows
  <2> QED
    BY <1>1, <1>4, <2>1 DEF Once
<1> QED
  BY <1>1, <1>3, <1>4 DEF CampaignsOnce

\* Who is cut off while it mails a campaign leaves it to be mailed again.
LEMMA CutOnce ==
  ASSUME Typed, CampaignsOnce, NEW gone \in SUBSET Procs, End(gone),
         again \cup Cut(gone) \subseteq again', UNCHANGED <<campaign, mailed>>
  PROVE  CampaignsOnce'
<1> SUFFICES ASSUME NEW k \in Campaigns, k \notin again', Once(k) PROVE Once(k)'
  BY DEF CampaignsOnce
<1>1. gone \cap Sending(k) = {}
  BY DEF Cut, Sending
<1>2. /\ Sending(k)' = Sending(k)
      /\ \A p \in Sending(k) : left'[p] = left[p]
  BY <1>1 DEF End, Sending
<1> QED
  BY <1>2 DEF Once

\* A run or call that mails nothing sends nothing twice.
LEMMA IdleOnce ==
  ASSUME Typed, CampaignsOnce, UNCHANGED <<campaign, mailed, item, left, again>>, NEW p \in Procs,
         pc[p] = "idle", \E s \in {"idle", "next", "done"} : pc' = [pc EXCEPT ![p] = s]
  PROVE  CampaignsOnce'
<1>1. \A k \in Campaigns : Sending(k)' = Sending(k)
  BY DEF Sending, Typed, TypeOK
<1> QED
  BY <1>1, OnceKept

\* Every step of the website's job, its staff and its faults.
LEMMA CampaignStep == ASSUME Typed, CampaignsOnce, [Next]_vars PROVE CampaignsOnce'
<1> USE DEF mails, site, procs, jobs
<1>1. CASE UNCHANGED vars \/ Reporting \/ FailReports
  <2>1. UNCHANGED <<campaign, mailed, pc, item, left>> /\ again \subseteq again'
    BY <1>1 DEF vars, Reporting, FindReports, RunReport, RecordRun, EndReports, FailReports
  <2>2. \A k \in Campaigns : Sending(k)' = Sending(k)
    BY <2>1 DEF Sending
  <2> QED
    BY <2>1, <2>2, OnceKept
<1>2. ASSUME NEW r \in Requests, EditPost(r) \/ ApproveContent(r) \/ SendCampaign(r) PROVE CampaignsOnce'
  <2>1. r \in Procs
    BY DEF Procs
  <2>2. CASE SendCampaign(r)
    BY <2>1, <2>2, StartOnce DEF SendCampaign
  <2>3. CASE EditPost(r) \/ ApproveContent(r)
    BY <2>1, <2>3, IdleOnce DEF EditPost, ApproveContent, Goto
  <2> QED
    BY <1>2, <2>2, <2>3
<1>3. ASSUME NEW t \in Ticks, Run(t) PROVE CampaignsOnce'
  <2>1. t \in Procs
    BY DEF Procs
  <2>2. CASE PublishDue(t)
    BY <2>1, <2>2, IdleOnce DEF PublishDue, Goto, Onward
  <2>3. CASE NextCampaign(t)
    <3>1. PICK k \in todo[t] : StartMail(t, k)
      BY <2>3 DEF NextCampaign
    <3>2. k \in Campaigns
      BY <3>1 DEF Typed, TypeOK
    <3> QED
      BY <2>1, <2>3, <3>1, <3>2, StartOnce DEF NextCampaign
  <2> QED
    BY <1>3, <2>2, <2>3 DEF Run
<1>4. ASSUME NEW p \in Procs, Mail(p) \/ MarkSent(p) \/ Fail(p) PROVE CampaignsOnce'
  <2>1. CASE Fail(p)
    <3>1. {p} \in SUBSET Procs
      OBVIOUS
    <3> QED
      BY <2>1, <3>1, CutOnce DEF Fail
  <2> QED
    BY <1>4, <2>1, MailOnce, MarkOnce
<1>5. CASE Restart
  <2>1. Active \in SUBSET Procs
    BY DEF Active
  <2> QED
    BY <1>5, <2>1, CutOnce DEF Restart
<1> QED
  BY <1>1, <1>2, <1>3, <1>4, <1>5, StaffOnce DEF Next, Staff

\* Every step of the loop over the reports.
LEMMA ReportStep == ASSUME Typed, ReportsOnce, [Next]_vars PROVE ReportsOnce'
<1> USE DEF mails, site, procs, jobs, Fault
<1>1. sent \in [Reports -> Nat] /\ queue \subseteq Reports /\ current \in Current
  BY DEF Typed, TypeOK, Current
<1>2. CASE UNCHANGED <<sent, current>> /\ again \subseteq again'
  BY <1>2 DEF ReportsOnce
<1>3. CASE RunReport
  <2>1. PICK s \in queue : /\ current'[1] = s
                           /\ sent' = [sent EXCEPT ![s] = @ + 1] \/ UNCHANGED sent
    BY <1>3 DEF RunReport
  <2>2. current[1] = None /\ again' = again
    BY <1>3 DEF RunReport
  <2>3. \A o \in Reports : o \in again \/ sent[o] = 0
    BY <2>2, ProcsAssumption DEF ReportsOnce
  <2> QED
    BY <1>1, <2>1, <2>2, <2>3 DEF ReportsOnce
<1>4. CASE RecordRun
  <2> DEFINE s == current[1]
  <2>1. \/ sent' = [sent EXCEPT ![s] = 0]
        \/ current' = <<s, "failed">> /\ UNCHANGED sent
    BY <1>4 DEF RecordRun
  <2>2. s \in Reports /\ again' = again
    BY <1>1, <1>4 DEF RecordRun, Current
  <2> QED
    BY <1>1, <2>1, <2>2 DEF ReportsOnce
<1>5. CASE FailReports \/ Restart
  <2>1. current[1] = None \/ current[1] \in again'
    BY <1>5 DEF FailReports, Restart
  <2>2. again \subseteq again' /\ UNCHANGED sent
    BY <1>5 DEF FailReports, Restart
  <2> QED
    BY <2>1, <2>2, ProcsAssumption DEF ReportsOnce
<1>6. CASE FindReports \/ EndReports
  BY <1>2, <1>6 DEF FindReports, EndReports
<1>7. CASE Staff \/ FallDue
  BY <1>2, <1>7 DEF Staff, CreatePost, DeletePost, CreateCampaign, CreateReport, RemoveReport,
                    EditPost, ApproveContent, SendCampaign, StartMail, FallDue
<1>8. ASSUME NEW p \in Procs, Run(p) \/ Mail(p) \/ MarkSent(p) \/ Fail(p) PROVE ReportsOnce'
  BY <1>2, <1>8 DEF Run, PublishDue, NextCampaign, StartMail, Mail, MarkSent, Fail
<1>9. CASE UNCHANGED vars
  BY <1>2, <1>9 DEF vars
<1> QED
  BY <1>3, <1>4, <1>5, <1>6, <1>7, <1>8, <1>9 DEF Next, Reporting, Procs

-----------------------------------------------------------------------------
(* What the mark SENT says *)

\* The provider was asked to mail a campaign to a subscriber, and took the mail or refused.
Tried(k, u) == mailed[k][u] > 0 \/ <<k, u>> \in refused

\* Who mails a campaign has tried all but those it has left, none at the mark; what is
\* marked was tried on all.
Trying ==
  /\ \A p \in Procs : pc[p] \in {"mail", "mark"} =>
       \A u \in Subscribers : u \in left[p] \/ Tried(item[p], u)
  /\ \A p \in Procs : pc[p] = "mark" => left[p] = {}
  /\ SentIsTried

\* Nothing is untried.
LEMMA TriedStays ==
  ASSUME Typed, [Next]_vars
  PROVE  \A k \in Campaigns, u \in Subscribers : Tried(k, u) => Tried(k, u)'
<1> USE DEF mails, site, procs, jobs
<1>1. CASE UNCHANGED mails
  BY <1>1 DEF Tried
<1>2. ASSUME NEW p \in Procs, Mail(p)
      PROVE  \A k \in Campaigns, u \in Subscribers : Tried(k, u) => Tried(k, u)'
  <2>1. PICK j \in Campaigns, v \in Subscribers :
          \/ mailed' = [mailed EXCEPT ![j][v] = @ + 1] /\ UNCHANGED refused
          \/ refused' = refused \cup {<<j, v>>} /\ UNCHANGED mailed
    BY <1>2 DEF Mail, Typed, TypeOK, Holding
  <2>2. mailed \in [Campaigns -> [Subscribers -> Nat]]
    BY DEF Typed, TypeOK
  <2>3. \A k \in Campaigns, u \in Subscribers : mailed'[k][u] >= mailed[k][u] /\ mailed[k][u] \in Nat
    BY <2>1, <2>2
  <2> QED
    BY <2>1, <2>2, <2>3 DEF Tried
<1>3. UNCHANGED mails \/ \E p \in Procs : Mail(p)
  BY DEF Next, vars, Staff, Run, Reporting, CreatePost, DeletePost, CreateCampaign, CreateReport,
         RemoveReport, EditPost, ApproveContent, SendCampaign, StartMail, FallDue, FindReports,
         RunReport, RecordRun, EndReports, FailReports, Restart, PublishDue, NextCampaign,
         MarkSent, Fail
<1> QED
  BY <1>1, <1>2, <1>3

\* Steps that start, mark or mail nothing.
LEMMA TryingKept ==
  ASSUME Typed, Trying, [Next]_vars,
         \A p \in Procs : pc'[p] \in {"mail", "mark"} =>
           pc'[p] = pc[p] /\ item'[p] = item[p] /\ left'[p] = left[p],
         \A k \in Campaigns : campaign'[k].status = "SENT" => campaign[k].status = "SENT"
  PROVE  Trying'
<1>1. ASSUME NEW p \in Procs, pc'[p] \in {"mail", "mark"}
      PROVE  /\ \A u \in Subscribers : u \in left'[p] \/ Tried(item[p], u)'
             /\ pc'[p] = "mark" => left'[p] = {}
  <2>1. item[p] \in Campaigns /\ pc[p] = pc'[p] /\ left'[p] = left[p]
    BY <1>1 DEF Typed, Holding
  <2> QED
    BY <1>1, <2>1, TriedStays DEF Trying
<1>2. SentIsTried'
  BY TriedStays DEF Trying, SentIsTried, Tried
<1> QED
  BY <1>1, <1>2 DEF Trying, Tried

\* A campaign is marked by who tried it on all that were left.
LEMMA TryingStep == ASSUME Typed, Trying, [Next]_vars PROVE Trying'
<1> USE DEF mails, site, procs, jobs, Goto
<1>1. /\ pc \in [Procs -> {"idle", "next", "mail", "mark", "done"}]
      /\ item \in [Procs -> Campaigns \cup {None}] /\ left \in [Procs -> SUBSET Subscribers]
      /\ campaign \in [Campaigns -> CampaignRows]
      /\ \A p \in Procs : pc[p] \in {"mail", "mark"} => item[p] \in Campaigns
  BY DEF Typed, TypeOK, Holding, CampaignRows
<1>2. ASSUME NEW p \in Procs, NEW k \in Campaigns, StartMail(p, k), UNCHANGED <<campaign, mails>>
      PROVE  Trying'
  <2>1. /\ item' = [item EXCEPT ![p] = k] /\ left' = [left EXCEPT ![p] = Subscribers]
        /\ pc' = [pc EXCEPT ![p] = IF Subscribers = {} THEN "mark" ELSE "mail"]
    BY <1>2 DEF StartMail
  <2>2. \A j, u : Tried(j, u)' = Tried(j, u)
    BY <1>2 DEF Tried
  <2>3. ASSUME NEW q \in Procs, pc'[q] \in {"mail", "mark"}
        PROVE  /\ \A u \in Subscribers : u \in left'[q] \/ Tried(item'[q], u)
               /\ pc'[q] = "mark" => left'[q] = {}
    <3>1. CASE q = p
      BY <1>1, <2>1, <3>1
    <3>2. CASE q # p
      BY <1>1, <2>1, <2>3, <3>2 DEF Trying
    <3> QED
      BY <3>1, <3>2
  <2>4. SentIsTried'
    BY <1>2 DEF Trying, SentIsTried
  <2> QED
    BY <1>2, <2>3, <2>4 DEF Trying, Tried
<1>3. ASSUME NEW p \in Procs, Mail(p) PROVE Trying'
  <2>1. item[p] \in Campaigns /\ pc[p] = "mail" /\ UNCHANGED <<item, campaign>>
    BY <1>1, <1>3 DEF Mail
  <2>2. PICK v \in left[p] :
          /\ \/ mailed' = [mailed EXCEPT ![item[p]][v] = @ + 1]
             \/ refused' = refused \cup {<<item[p], v>>}
          /\ left' = [left EXCEPT ![p] = @ \ {v}]
          /\ IF left[p] = {v} THEN pc' = [pc EXCEPT ![p] = "mark"] ELSE pc' = pc
    BY <1>3 DEF Mail
  <2>3. v \in Subscribers /\ Tried(item[p], v)'
    BY <1>1, <2>1, <2>2 DEF Tried, Typed, TypeOK
  <2>4. ASSUME NEW q \in Procs, pc'[q] \in {"mail", "mark"}
        PROVE  /\ \A u \in Subscribers : u \in left'[q] \/ Tried(item[q], u)'
               /\ pc'[q] = "mark" => left'[q] = {}
    <3>1. pc[q] \in {"mail", "mark"} /\ item[q] \in Campaigns
      BY <1>1, <2>1, <2>2, <2>4
    <3>2. ASSUME NEW u \in Subscribers PROVE u \in left'[q] \/ Tried(item[q], u)'
      <4>1. item[q] = item'[q] /\ (u \in left[q] \/ Tried(item[q], u))
        BY <2>1, <3>1 DEF Trying
      <4>2. CASE u \in left[q] /\ u \notin left'[q]
        <5>1. q = p /\ u = v
          BY <1>1, <2>2, <4>2
        <5> QED
          BY <2>3, <5>1
      <4>3. CASE Tried(item[q], u)
        BY <2>1, <3>1, <4>1, <4>3, TriedStays DEF Tried
      <4> QED
        BY <4>1, <4>2, <4>3
    <3>3. pc'[q] = "mark" => left'[q] = {}
      BY <1>1, <2>1, <2>2, <2>4 DEF Trying
    <3> QED
      BY <3>2, <3>3
  <2>5. SentIsTried'
    BY <2>1, TriedStays DEF Trying, SentIsTried, Tried
  <2> QED
    BY <2>1, <2>4, <2>5 DEF Trying, Tried
<1>4. ASSUME NEW p \in Procs, MarkSent(p) PROVE Trying'
  <2>1. PICK k \in Campaigns : k = item[p]
    BY <1>1, <1>4 DEF MarkSent
  <2>2. /\ pc[p] = "mark" /\ campaign' = [campaign EXCEPT ![k].status = "SENT"] /\ UNCHANGED <<left, mails>>
        /\ item' = [item EXCEPT ![p] = None] /\ \E s \in {"idle", "next", "done"} : pc' = [pc EXCEPT ![p] = s]
    BY <1>4, <2>1 DEF MarkSent, Release, Onward
  <2>3. \A u \in Subscribers : Tried(k, u)
    BY <2>1, <2>2 DEF Trying
  <2>4. SentIsTried'
    BY <1>1, <2>2, <2>3 DEF Trying, SentIsTried, Tried, CampaignRows
  <2>5. ASSUME NEW q \in Procs, pc'[q] \in {"mail", "mark"}
        PROVE  /\ \A u \in Subscribers : u \in left'[q] \/ Tried(item'[q], u)
               /\ pc'[q] = "mark" => left'[q] = {}
    <3>1. q # p /\ pc'[q] = pc[q] /\ item'[q] = item[q] /\ item[q] \in Campaigns
      BY <1>1, <2>2, <2>5
    <3>2. pc[q] \in {"mail", "mark"} /\ left'[q] = left[q]
      BY <2>2, <2>5, <3>1
    <3>3. \A u \in Subscribers : u \in left[q] \/ Tried(item[q], u)
      BY <3>2 DEF Trying
    <3>4. pc[q] = "mark" => left[q] = {}
      BY DEF Trying
    <3> QED
      BY <3>1, <3>2, <3>3, <3>4
  <2> QED
    BY <2>2, <2>4, <2>5 DEF Trying, Tried
<1>5. ASSUME NEW gone \in SUBSET Procs, End(gone), UNCHANGED campaign PROVE Trying'
  BY <1>5, TryingKept DEF End
<1>6. CASE UNCHANGED <<pc, item, left>> /\ \A k \in Campaigns : campaign'[k].status = "SENT" => campaign[k].status = "SENT"
  BY <1>6, TryingKept
<1>7. ASSUME NEW p \in Procs, UNCHANGED <<campaign, item, left>>,
             \E s \in {"idle", "next", "done"} : pc' = [pc EXCEPT ![p] = s]
      PROVE  Trying'
  BY <1>1, <1>7, TryingKept
<1>8. CASE Staff
  <2>1. ASSUME NEW r \in Requests, EditPost(r) \/ ApproveContent(r) PROVE Trying'
    BY <1>7, <2>1 DEF EditPost, ApproveContent, Procs
  <2>2. ASSUME NEW r \in Requests, SendCampaign(r) PROVE Trying'
    BY <1>2, <2>2 DEF SendCampaign, Procs
  <2>3. ASSUME NEW k \in Campaigns, CreateCampaign(k) PROVE Trying'
    BY <1>1, <1>6, <2>3 DEF CreateCampaign
  <2>4. ASSUME NEW c \in Posts, CreatePost(c) \/ DeletePost(c) PROVE Trying'
    BY <1>6, <2>4 DEF CreatePost, DeletePost
  <2>5. ASSUME NEW s \in Reports, CreateReport(s) \/ RemoveReport(s) PROVE Trying'
    BY <1>6, <2>5 DEF CreateReport, RemoveReport
  <2> QED
    BY <1>8, <2>1, <2>2, <2>3, <2>4, <2>5 DEF Staff
<1>9. CASE FallDue
  <2>1. \A k \in Campaigns : campaign'[k].status = "SENT" => campaign[k].status = "SENT"
    <3>1. CASE \E k \in Campaigns : campaign' = [campaign EXCEPT ![k].date = "due"]
      BY <1>1, <3>1 DEF CampaignRows
    <3>2. CASE UNCHANGED campaign
      BY <3>2
    <3> QED
      BY <1>9, <3>1, <3>2 DEF FallDue
  <2> QED
    BY <1>6, <1>9, <2>1 DEF FallDue
<1>10. CASE Reporting \/ FailReports \/ UNCHANGED vars
  BY <1>6, <1>10 DEF vars, Reporting, FindReports, RunReport, RecordRun, EndReports, FailReports
<1>11. CASE Restart
  BY <1>5, <1>11 DEF Restart, Active
<1>12. ASSUME NEW p \in Procs, Fail(p) PROVE Trying'
  BY <1>5, <1>12 DEF Fail
<1>13. ASSUME NEW t \in Ticks, Run(t) PROVE Trying'
  <2>1. CASE PublishDue(t)
    BY <1>7, <2>1 DEF PublishDue, Onward, Procs
  <2>2. CASE NextCampaign(t)
    <3>1. PICK k \in todo[t] : StartMail(t, k)
      BY <2>2 DEF NextCampaign
    <3>2. k \in Campaigns /\ t \in Procs /\ UNCHANGED <<campaign, mails>>
      BY <2>2, <3>1 DEF Typed, TypeOK, NextCampaign, Procs
    <3> QED
      BY <1>2, <3>1, <3>2
  <2> QED
    BY <1>13, <2>1, <2>2 DEF Run
<1> QED
  BY <1>3, <1>4, <1>8, <1>9, <1>10, <1>11, <1>12, <1>13 DEF Next

\* The inductive invariant.
IInv == Typed /\ CampaignsOnce /\ ReportsOnce /\ Trying

\* At first nothing was mailed.
LEMMA InitIInv == Init => IInv
<1> SUFFICES ASSUME Init PROVE IInv
  OBVIOUS
<1>1. /\ \A k \in Campaigns, u \in Subscribers : mailed[k][u] = 0
      /\ \A k : Sending(k) = {}
      /\ \A s \in Reports : sent[s] = 0
      /\ \A p \in Procs : pc[p] = "idle"
      /\ \A k \in Campaigns : campaign[k].status = "none"
  BY DEF Init, Sending
<1> QED
  BY <1>1, InitTyped DEF IInv, CampaignsOnce, Once, ReportsOnce, Trying, SentIsTried

\* Every step keeps it.
LEMMA NextIInv == IInv /\ [Next]_vars => IInv'
  BY NextTyped, CampaignStep, ReportStep, TryingStep DEF IInv

\* The inductive invariant holds of every behaviour.
THEOREM Safety == Spec => []IInv
  BY InitIInv, NextIInv, PTL DEF Spec

\* Who gets a campaign twice gets it after a run was cut, beside another, or from one that
\* took it up after it was sent; a report goes out twice for one date only when its run was
\* cut (cms.service.ts 2165-2176, report-schedule.service.ts 121-217).
THEOREM MailsGoOutOnce == Spec => []MailedOnce
<1>1. IInv => MailedOnce
  <2> SUFFICES ASSUME IInv PROVE MailedOnce
    OBVIOUS
  <2>1. /\ mailed \in [Campaigns -> [Subscribers -> Nat]] /\ sent \in [Reports -> Nat]
        /\ \A k \in Campaigns : k \in again \/ Once(k)
        /\ ReportsOnce
    BY DEF IInv, Typed, TypeOK, CampaignsOnce
  <2>2. ASSUME NEW k \in Campaigns, NEW u \in Subscribers, mailed[k][u] > 1 PROVE k \in again
    <3>1. ~(mailed[k][u] <= 1)
      BY <2>1, <2>2
    <3> QED
      BY <2>1, <3>1 DEF Once
  <2>3. ASSUME NEW s \in Reports, sent[s] > 1 PROVE s \in again
    BY <2>1, <2>3 DEF ReportsOnce
  <2> QED
    BY <2>2, <2>3 DEF MailedOnce
<1> QED
  BY Safety, <1>1, PTL

\* A campaign marked SENT was offered to the provider for each subscriber, however its runs
\* were cut and whoever sent it; whether it was taken is not looked at (2013-2037, 2165-2176).
THEOREM SentWasTried == Spec => []SentIsTried
<1>1. IInv => SentIsTried
  BY DEF IInv, Trying
<1> QED
  BY Safety, <1>1, PTL
===============================================================================
