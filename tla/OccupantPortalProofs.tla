------------------------- MODULE OccupantPortalProofs -------------------------
(***************************************************************************)
(* Proofs about OccupantPortal, for any number of requests, flushes, rooms *)
(* and faults: what the screen told is kept, and the API writes a request  *)
(* once.  That every row is tried needs fairness and stays with TLC.       *)
(***************************************************************************)
EXTENDS OccupantPortal, TLAPS

\* The request is in the office's table.
InTable(i) == \E q \in records : q.id = i

\* A call somebody waits for is the one he made, and has no answer yet.
Waited(c) ==
  /\ c.by \in Ids => c.id = c.by /\ submit[c.by] = "posting"
  /\ c.by \in Flushes => c.id = current[c.by] /\ pc[c.by] = "posting"
  /\ c.by \in Callers => reply[c.by] = "none"
Waiting == \A c \in calls : Waited(c)

\* Nobody waits for two calls.
OneCall == \A c, d \in calls : c.by = d.by /\ c.by \in Callers => c = d

\* "ok" means that the request is in the table (portalCreateMaintenance 1096-1129), and
\* only who is posting has an answer.
Truthful ==
  /\ \A i \in Ids : /\ reply[i] = "ok" => InTable(i)
                    /\ submit[i] # "posting" => reply[i] = "none"
  /\ \A f \in Flushes : /\ reply[f] = "ok" => InTable(current[f])
                        /\ pc[f] # "posting" => reply[f] = "none"
                        /\ pc[f] = "posting" => current[f] \in Ids

\* Two calls for one room that both passed the look-up, or one and a request that can
\* still be found, were under way together.
Noted ==
  /\ \A c, d \in calls : c.id = d.id /\ c.room = d.room /\ c.room # NoRoom /\ c # d => c.id \in twice
  /\ \A c \in calls, q \in records :
       c.id = q.id /\ c.room = q.room /\ q.marked => c.id \in twice

IInv == TypeOK /\ Waiting /\ OneCall /\ Truthful /\ Noted /\ NothingLost /\ WrittenOnce

\* Nothing is under way at first.
LEMMA InitIInv == Init => IInv
<1> SUFFICES ASSUME Init PROVE IInv
  OBVIOUS
<1>1. TypeOK
  <2>1. faults \in 0 .. MaxFaults
    BY BoundAssumption DEF Init
  <2>2. /\ calls = {} /\ records = {} /\ twice = {}
        /\ home \in Rooms \cup {NoRoom} /\ online \in BOOLEAN
        /\ current \in [Flushes -> Ids \cup {NoId}] /\ list \in [Flushes -> SUBSET Ids]
    BY DEF Init
  <2>3. /\ queue \in [Ids -> {"absent", "pending", "failed"}]
        /\ submit \in [Ids -> {"idle", "posting", "synced", "queued", "killed"}]
        /\ pc \in [Flushes -> {"idle", "next", "posting"}]
        /\ reply \in [Callers -> {"none", "ok", "error"}]
    BY DEF Init
  <2> QED
    BY <2>1, <2>2, <2>3 DEF TypeOK
<1>2. calls = {} /\ records = {}
  BY DEF Init
<1>3. Waiting /\ OneCall /\ Noted /\ WrittenOnce
  BY <1>2 DEF Waiting, OneCall, Noted, WrittenOnce
<1>4. Truthful /\ NothingLost
  BY DEF Init, Truthful, NothingLost, Callers
<1> QED
  BY <1>1, <1>3, <1>4 DEF IInv

\* Everybody who may wait is a submission or a flush, and no one is both.
LEMMA Who == ASSUME NEW x \in Callers PROVE /\ x \in Ids \/ x \in Flushes
                                            /\ x # "lost"
                                            /\ x \in Ids => x \notin Flushes
  BY CallersAssumption DEF Callers

\* A fault is counted within its bound.
LEMMA Counted == ASSUME TypeOK, Fault \/ UNCHANGED faults PROVE faults' \in 0 .. MaxFaults
  BY BoundAssumption DEF TypeOK, Fault

\* The screen takes the answer to its submission: it tells that the request is in, or
\* queues it.
LEMMA PhoneStep ==
  ASSUME IInv, NEW i \in Ids,
         Submitted(i) \/ SubmitFailed(i) \/ RefreshFailed(i)
  PROVE  IInv'
<1>1. /\ reply' = [reply EXCEPT ![i] = "none"] /\ submit[i] = "posting" /\ reply[i] # "none"
      /\ UNCHANGED <<online, pc, list, current, calls, records, twice, home>>
  BY DEF Submitted, SubmitFailed, RefreshFailed, Save, api
<1>2. faults' \in 0 .. MaxFaults
  BY Counted DEF Submitted, SubmitFailed, RefreshFailed, IInv
<1>3. i \in Callers /\ i \notin Flushes
  BY CallersAssumption DEF Callers
<1>4. \/ submit' = [submit EXCEPT ![i] = "synced"] /\ queue' = queue /\ reply[i] = "ok"
      \/ submit' = [submit EXCEPT ![i] = "queued"] /\ queue' = [queue EXCEPT ![i] = "pending"]
  BY DEF Submitted, SubmitFailed, RefreshFailed, Save
<1>5. TypeOK'
  BY <1>1, <1>2, <1>3, <1>4 DEF IInv, TypeOK
<1>6. Waiting'
  <2> SUFFICES ASSUME NEW c \in calls PROVE Waited(c)'
    BY <1>1 DEF Waiting
  <2>1. Waited(c) /\ c.by # i
    BY <1>1, <1>3 DEF IInv, Waiting, Waited
  <2> QED
    BY <1>1, <1>4, <2>1 DEF Waited, IInv, TypeOK, Callers
<1>7. Truthful'
  BY <1>1, <1>3, <1>4 DEF IInv, TypeOK, Truthful, InTable, Callers
<1>8. NothingLost'
  BY <1>1, <1>4 DEF IInv, TypeOK, Truthful, InTable, NothingLost
<1>9. OneCall' /\ Noted' /\ WrittenOnce'
  BY <1>1 DEF IInv, OneCall, Noted, WrittenOnce
<1> QED
  BY <1>5, <1>6, <1>7, <1>8, <1>9 DEF IInv

\* Sending a call for which x waits from now on.
LEMMA SendStep ==
  ASSUME IInv, NEW i \in Ids, NEW x \in Callers, Send(i, x),
         UNCHANGED <<online, queue, records, twice, home, faults>>,
         \/ /\ x = i /\ submit[i] = "idle" /\ submit' = [submit EXCEPT ![i] = "posting"]
            /\ UNCHANGED <<pc, list, current>>
         \/ /\ x \in Flushes /\ pc[x] = "next" /\ pc' = [pc EXCEPT ![x] = "posting"]
            /\ current' = [current EXCEPT ![x] = i] /\ list' \in [Flushes -> SUBSET Ids]
            /\ UNCHANGED submit
  PROVE  IInv'
<1> DEFINE new == [id |-> i, from |-> x, at |-> faults, by |-> x, room |-> NoRoom]
<1>1. \/ calls' = calls \cup {new} /\ reply' = reply
      \/ calls' = calls /\ reply' = [reply EXCEPT ![x] = "error"]
  BY Who DEF Send, Post, Answer
<1>2. \A c \in calls : c.by # x
  BY Who DEF IInv, Waiting, Waited
<1>3. /\ new \in [id: Ids, from: Callers, at: 0 .. MaxFaults, by: Callers \cup {"lost"},
                  room: Rooms \cup {NoRoom}]
      /\ new.id = i /\ new.by = x /\ new.room = NoRoom
  BY DEF IInv, TypeOK
<1> HIDE DEF new
<1>4. reply[x] = "none"
  BY Who DEF IInv, Truthful
<1>5. TypeOK'
  <2>1. calls' \subseteq [id: Ids, from: Callers, at: 0 .. MaxFaults, by: Callers \cup {"lost"},
                  room: Rooms \cup {NoRoom}]
    BY <1>1, <1>3 DEF IInv, TypeOK
  <2> QED
    BY <1>1, <2>1 DEF IInv, TypeOK
<1>6. Waiting'
  <2> SUFFICES ASSUME NEW c \in calls' PROVE Waited(c)'
    BY DEF Waiting
  <2>1. CASE c \in calls
    <3>1. Waited(c) /\ c.by # x
      BY <2>1, <1>2 DEF IInv, Waiting
    <3> QED
      BY <1>1, <3>1, Who DEF Waited, IInv, TypeOK, Callers
  <2>2. CASE c = new /\ c \notin calls
    BY <1>1, <1>3, <1>4, <2>2, Who DEF Waited, IInv, TypeOK
  <2> QED
    BY <1>1, <2>1, <2>2
<1>7. OneCall'
  BY <1>1, <1>2, <1>3 DEF IInv, OneCall
<1>8. Noted'
  <2>1. ASSUME NEW q \in records PROVE q.room # NoRoom
    BY NullAssumption DEF IInv, TypeOK
  <2> QED
    BY <1>1, <1>3, <2>1 DEF IInv, Noted
<1>9. Truthful'
  <2>1. CASE x = i /\ submit' = [submit EXCEPT ![i] = "posting"] /\ UNCHANGED <<pc, list, current>>
    BY <1>1, <1>4, <2>1, Who DEF IInv, Truthful, InTable, TypeOK, Callers
  <2>2. CASE /\ x \in Flushes /\ pc' = [pc EXCEPT ![x] = "posting"]
             /\ current' = [current EXCEPT ![x] = i] /\ UNCHANGED submit
    BY <1>1, <1>4, <2>2, Who DEF IInv, Truthful, InTable, TypeOK, Callers
  <2> QED
    BY <2>1, <2>2
<1>10. NothingLost' /\ WrittenOnce'
  BY DEF IInv, NothingLost, WrittenOnce, TypeOK
<1> QED
  BY <1>5, <1>6, <1>7, <1>8, <1>9, <1>10 DEF IInv

\* The screen's refresh and the loop of flushSyncQueue, but for the call it makes.
LEMMA FlushStep ==
  ASSUME IInv, NEW f \in Flushes, StartFlush(f) \/ Mark(f) \/ EndFlush(f)
  PROVE  IInv'
<1>1. /\ UNCHANGED <<online, submit, current, calls, records, twice, home, faults>>
      /\ list' \in [Flushes -> SUBSET Ids]
      /\ \E s \in {"idle", "next"} : pc' = [pc EXCEPT ![f] = s]
      /\ \/ UNCHANGED <<queue, reply>> /\ pc[f] # "posting"
         \/ /\ Mark(f) /\ reply[f] # "none" /\ reply' = [reply EXCEPT ![f] = "none"]
  BY DEF StartFlush, Mark, EndFlush, api, IInv, TypeOK
<1>2. f \in Callers /\ f \notin Ids
  BY CallersAssumption DEF Callers
<1>3. /\ queue' \in [Ids -> {"absent", "pending", "failed"}]
      /\ \A i \in Ids : queue'[i] = "absent" => queue[i] = "absent" \/ InTable(i)
  <2>1. CASE UNCHANGED queue
    BY <2>1 DEF IInv, TypeOK
  <2>2. CASE Mark(f)
    <3>1. current[f] \in Ids /\ (reply[f] = "ok" => InTable(current[f]))
      BY <2>2 DEF Mark, IInv, Truthful
    <3>2. \/ queue' = [queue EXCEPT ![current[f]] = "absent"] /\ reply[f] = "ok"
          \/ queue' = [queue EXCEPT ![current[f]] = "failed"] /\ queue[current[f]] # "absent"
          \/ queue' = queue
      BY <2>2 DEF Mark, Done, Failed
    <3> QED
      BY <3>1, <3>2 DEF IInv, TypeOK
  <2> QED
    BY <1>1, <2>1, <2>2
<1>4. TypeOK'
  BY <1>1, <1>2, <1>3 DEF IInv, TypeOK
<1>5. Waiting'
  <2> SUFFICES ASSUME NEW c \in calls PROVE Waited(c)'
    BY <1>1 DEF Waiting
  <2>1. Waited(c) /\ c.by # f
    BY <1>1, <1>2 DEF IInv, Waiting, Waited
  <2> QED
    BY <1>1, <2>1 DEF Waited, IInv, TypeOK, Callers
<1>6. Truthful'
  BY <1>1, <1>2 DEF IInv, TypeOK, Truthful, InTable, Callers
<1>7. NothingLost'
  BY <1>1, <1>3 DEF IInv, NothingLost, InTable
<1>8. OneCall' /\ Noted' /\ WrittenOnce'
  BY <1>1 DEF IInv, OneCall, Noted, WrittenOnce
<1> QED
  BY <1>4, <1>5, <1>6, <1>7, <1>8 DEF IInv

\* The API answers a call: whoever waits for it gets an answer that is true.
LEMMA AnswerStep ==
  ASSUME IInv, NEW c \in calls, NEW a \in {"ok", "error"},
         calls' = calls \ {c}, Answer(c.by, a), UNCHANGED phone,
         a = "ok" => InTable(c.id)',
         \A i \in Ids : InTable(i) => InTable(i)'
  PROVE  Truthful' /\ OneCall' /\ Waiting' /\ reply' \in [Callers -> {"none", "ok", "error"}]
<1>1. c.by \in Callers \cup {"lost"} /\ c.id \in Ids /\ Waited(c)
  BY DEF IInv, TypeOK, Waiting
<1>2. \/ c.by = "lost" /\ reply' = reply
      \/ c.by \in Callers /\ reply' = [reply EXCEPT ![c.by] = a]
  BY <1>1 DEF Answer
<1>3. reply' \in [Callers -> {"none", "ok", "error"}]
  BY <1>2 DEF IInv, TypeOK
<1>4. OneCall'
  BY DEF IInv, OneCall
<1>5. Waiting'
  <2> SUFFICES ASSUME NEW d \in calls, d # c PROVE Waited(d)'
    BY DEF Waiting
  <2>1. Waited(d) /\ (d.by \in Callers => d.by # c.by)
    BY DEF IInv, Waiting, OneCall
  <2> QED
    BY <1>2, <2>1 DEF Waited, phone, IInv, TypeOK
<1>6. Truthful'
  <2>1. ASSUME NEW i \in Ids
        PROVE  (reply'[i] = "ok" => InTable(i)') /\ (submit'[i] # "posting" => reply'[i] = "none")
    <3>1. i \in Callers
      BY DEF Callers
    <3>2. CASE c.by = i
      BY <1>1, <1>2, <3>1, <3>2 DEF Waited, phone, IInv, TypeOK
    <3>3. CASE c.by # i
      BY <1>2, <3>1, <3>3 DEF IInv, TypeOK, Truthful, phone
    <3> QED
      BY <3>2, <3>3
  <2>2. ASSUME NEW f \in Flushes
        PROVE  /\ reply'[f] = "ok" => \E q \in records' : q.id = current'[f]
               /\ pc'[f] # "posting" => reply'[f] = "none"
               /\ pc'[f] = "posting" => current'[f] \in Ids
    <3>1. f \in Callers /\ UNCHANGED <<current, pc>>
      BY DEF Callers, phone
    <3>2. CASE c.by = f
      <4>1. c.id = current[f] /\ pc[f] = "posting"
        BY <1>1, <3>2 DEF Waited
      <4>2. reply'[f] = a
        BY <1>2, <3>1, <3>2, Who DEF IInv, TypeOK
      <4>3. a = "ok" => \E q \in records' : q.id = c.id
        BY DEF InTable
      <4> QED
        BY <1>1, <3>1, <4>1, <4>2, <4>3
    <3>3. CASE c.by # f
      <4>1. reply'[f] = reply[f]
        BY <1>2, <3>1, <3>3 DEF IInv, TypeOK
      <4>2. pc[f] = "posting" => current[f] \in Ids /\ (reply[f] = "ok" => InTable(current[f]))
        BY DEF IInv, Truthful
      <4>3. pc[f] = "posting" /\ reply[f] = "ok" => \E q \in records' : q.id = current[f]
        BY <4>2 DEF InTable
      <4> QED
        BY <3>1, <4>1, <4>2, <4>3 DEF IInv, Truthful
    <3> QED
      BY <3>2, <3>3
  <2> QED
    BY <2>1, <2>2 DEF Truthful, InTable
<1> QED
  BY <1>3, <1>4, <1>5, <1>6

\* The look-up of portalCreateMaintenance: a call that finds its request is answered, one
\* that does not goes on with the occupant's room.
LEMMA CheckStep == ASSUME IInv, NEW c \in calls, Check(c) PROVE IInv'
<1>1. /\ c.room = NoRoom /\ UNCHANGED <<online, phone, records, home, faults>>
      /\ c.id \in Ids /\ c.by \in Callers \cup {"lost"}
  BY DEF Check, IInv, TypeOK
<1>2. NothingLost' /\ WrittenOnce'
  <2>1. twice \subseteq twice'
    BY DEF Check
  <2> QED
    BY <1>1, <2>1 DEF phone, IInv, NothingLost, WrittenOnce
<1>3. CASE home = NoRoom \/ Found(c.id, home)
  <2> DEFINE a == IF home = NoRoom THEN "error" ELSE "ok"
  <2>1. calls' = calls \ {c} /\ Answer(c.by, a) /\ twice' = twice
    BY <1>3 DEF Check
  <2>2. a = "ok" => InTable(c.id)'
    BY <1>1, <1>3 DEF Found, InTable
  <2>3. a \in {"ok", "error"} /\ \A i \in Ids : InTable(i) => InTable(i)'
    BY <1>1 DEF InTable
  <2> HIDE DEF a
  <2>4. Truthful' /\ OneCall' /\ Waiting' /\ reply' \in [Callers -> {"none", "ok", "error"}]
    BY <1>1, <2>1, <2>2, <2>3, AnswerStep
  <2>5. TypeOK'
    BY <1>1, <2>1, <2>4 DEF IInv, TypeOK, phone
  <2>6. Noted'
    BY <1>1, <2>1 DEF IInv, Noted
  <2> QED
    BY <1>2, <2>4, <2>5, <2>6 DEF IInv
<1>4. CASE home # NoRoom /\ ~Found(c.id, home)
  <2> DEFINE new == [c EXCEPT !.room = home]
  <2>1. /\ calls' = (calls \ {c}) \cup {new} /\ reply' = reply
        /\ twice' = IF \E d \in calls : d.id = c.id /\ d.room = home THEN twice \cup {c.id} ELSE twice
    BY <1>4 DEF Check
  <2>2. /\ new \in [id: Ids, from: Callers, at: 0 .. MaxFaults, by: Callers \cup {"lost"},
                    room: Rooms \cup {NoRoom}]
        /\ new.id = c.id /\ new.by = c.by /\ new.room = home
    BY DEF IInv, TypeOK
  <2> HIDE DEF new
  <2>3. TypeOK'
    <3>1. calls' \subseteq [id: Ids, from: Callers, at: 0 .. MaxFaults, by: Callers \cup {"lost"},
                            room: Rooms \cup {NoRoom}]
      BY <2>1, <2>2 DEF IInv, TypeOK
    <3>2. twice' \subseteq Ids
      BY <1>1, <2>1 DEF IInv, TypeOK
    <3> QED
      BY <1>1, <2>1, <3>1, <3>2 DEF IInv, TypeOK, phone
  <2>4. Waiting'
    <3> SUFFICES ASSUME NEW d \in calls' PROVE Waited(d)'
      BY DEF Waiting
    <3>1. PICK e \in calls : e.id = d.id /\ e.by = d.by
      BY <2>1, <2>2
    <3>2. Waited(e)
      BY DEF IInv, Waiting
    <3> QED
      BY <1>1, <2>1, <3>1, <3>2 DEF Waited, phone
  <2>5. OneCall'
    BY <2>1, <2>2 DEF IInv, OneCall
  <2>6. Noted'
    <3>1. ASSUME NEW d \in calls', NEW e \in calls', d.id = e.id, d.room = e.room,
                 d.room # NoRoom, d # e
          PROVE  d.id \in twice'
      <4>1. CASE d \in calls /\ e \in calls
        BY <2>1, <3>1, <4>1 DEF IInv, Noted
      <4>2. CASE d = new \/ e = new
        <5>1. PICK o \in calls : o.id = c.id /\ o.room = home
          BY <2>1, <2>2, <3>1, <4>2
        <5> QED
          BY <2>1, <2>2, <3>1, <4>2, <5>1
      <4> QED
        BY <2>1, <4>1, <4>2
    <3>2. ASSUME NEW d \in calls', NEW q \in records', d.id = q.id, d.room = q.room, q.marked
          PROVE  d.id \in twice'
      <4>1. CASE d \in calls
        BY <1>1, <2>1, <3>2, <4>1 DEF IInv, Noted
      <4>2. CASE d = new
        BY <1>1, <1>4, <2>2, <3>2, <4>2 DEF Found
      <4> QED
        BY <2>1, <4>1, <4>2
    <3> QED
      BY <3>1, <3>2 DEF Noted
  <2>7. Truthful'
    BY <1>1, <2>1 DEF IInv, Truthful, InTable, phone
  <2> QED
    BY <1>2, <2>3, <2>4, <2>5, <2>6, <2>7 DEF IInv
<1> QED
  BY <1>3, <1>4

\* The insert of portalCreateMaintenance: another request for the room under the same id
\* was looked up at the same time, or can no longer be found.
LEMMA InsertStep == ASSUME IInv, NEW c \in calls, Insert(c) PROVE IInv'
<1> DEFINE new == [id |-> c.id, from |-> c.from, at |-> c.at, room |-> c.room, marked |-> TRUE]
<1>1. /\ c.room # NoRoom /\ calls' = calls \ {c} /\ records' = records \cup {new}
      /\ Answer(c.by, "ok") /\ UNCHANGED <<online, phone, twice, home, faults>>
  BY DEF Insert
<1>2. /\ new \in [id: Ids, from: Callers, at: 0 .. MaxFaults, room: Rooms, marked: BOOLEAN]
      /\ new.id = c.id /\ new.room = c.room
  BY <1>1 DEF IInv, TypeOK
<1> HIDE DEF new
<1>3. InTable(c.id)' /\ \A i \in Ids : InTable(i) => InTable(i)'
  BY <1>1, <1>2 DEF InTable
<1>4. Truthful' /\ OneCall' /\ Waiting' /\ reply' \in [Callers -> {"none", "ok", "error"}]
  BY <1>1, <1>3, AnswerStep
<1>5. TypeOK'
  <2>1. records' \subseteq [id: Ids, from: Callers, at: 0 .. MaxFaults, room: Rooms, marked: BOOLEAN]
    BY <1>1, <1>2 DEF IInv, TypeOK
  <2> QED
    BY <1>1, <1>4, <2>1 DEF IInv, TypeOK, phone
<1>6. Noted'
  BY <1>1, <1>2 DEF IInv, Noted
<1>7. NothingLost'
  BY <1>1, <1>3 DEF IInv, NothingLost, phone, InTable
<1>8. WrittenOnce'
  BY <1>1, <1>2 DEF IInv, WrittenOnce, Noted
<1> QED
  BY <1>4, <1>5, <1>6, <1>7, <1>8 DEF IInv

\* A query of the API fails.
LEMMA ErrorStep == ASSUME IInv, NEW c \in calls, ServerError(c) PROVE IInv'
<1>1. /\ calls' = calls \ {c} /\ Answer(c.by, "error")
      /\ UNCHANGED <<online, phone, records, twice, home>>
      /\ faults' \in 0 .. MaxFaults
  BY Counted DEF ServerError, IInv
<1>2. \A i \in Ids : InTable(i) => InTable(i)'
  BY <1>1 DEF InTable
<1>3. Truthful' /\ OneCall' /\ Waiting' /\ reply' \in [Callers -> {"none", "ok", "error"}]
  BY <1>1, <1>2, AnswerStep
<1>4. TypeOK'
  BY <1>1, <1>3 DEF IInv, TypeOK, phone
<1>5. Noted' /\ NothingLost' /\ WrittenOnce'
  BY <1>1 DEF IInv, Noted, NothingLost, WrittenOnce, phone
<1> QED
  BY <1>3, <1>4, <1>5 DEF IInv

\* A call whose caller is gone is the call it was, with nobody waiting.
LEMMA OrphanStep ==
  ASSUME IInv, Orphaned, UNCHANGED <<records, twice>>
  PROVE  /\ calls' \subseteq [id: Ids, from: Callers, at: 0 .. MaxFaults, by: Callers \cup {"lost"},
                              room: Rooms \cup {NoRoom}]
         /\ OneCall' /\ Waiting' /\ Noted' /\ WrittenOnce'
<1>1. PICK got \in SUBSET calls : calls' = {[c EXCEPT !.by = "lost"] : c \in got}
  BY DEF Orphaned
<1>2. ASSUME NEW d \in calls'
      PROVE  /\ d.by = "lost"
             /\ d \in [id: Ids, from: Callers, at: 0 .. MaxFaults, by: Callers \cup {"lost"},
                       room: Rooms \cup {NoRoom}]
             /\ \E c \in calls : c.id = d.id /\ c.room = d.room /\ d = [c EXCEPT !.by = "lost"]
  <2>1. PICK c \in got : d = [c EXCEPT !.by = "lost"]
    BY <1>1
  <2>2. c \in [id: Ids, from: Callers, at: 0 .. MaxFaults, by: Callers \cup {"lost"},
               room: Rooms \cup {NoRoom}]
    BY DEF IInv, TypeOK
  <2> QED
    BY <2>1, <2>2
<1>3. OneCall' /\ Waiting'
  <2>1. "lost" \notin Ids /\ "lost" \notin Flushes /\ "lost" \notin Callers
    BY CallersAssumption DEF Callers
  <2> QED
    BY <1>2, <2>1 DEF OneCall, Waiting, Waited
<1>4. Noted'
  <2>1. ASSUME NEW d \in calls', NEW e \in calls', d.id = e.id, d.room = e.room,
               d.room # NoRoom, d # e
        PROVE  d.id \in twice'
    <3>1. PICK c \in calls : c.id = d.id /\ c.room = d.room /\ d = [c EXCEPT !.by = "lost"]
      BY <1>2
    <3>2. PICK b \in calls : b.id = e.id /\ b.room = e.room /\ e = [b EXCEPT !.by = "lost"]
      BY <1>2
    <3> QED
      BY <2>1, <3>1, <3>2 DEF IInv, Noted
  <2>2. ASSUME NEW d \in calls', NEW q \in records', d.id = q.id, d.room = q.room, q.marked
        PROVE  d.id \in twice'
    <3>1. PICK c \in calls : c.id = d.id /\ c.room = d.room
      BY <1>2
    <3> QED
      BY <2>2, <3>1 DEF IInv, Noted
  <2> QED
    BY <2>1, <2>2 DEF Noted
<1> QED
  BY <1>2, <1>3, <1>4 DEF IInv, WrittenOnce

\* The connection is lost: whoever waits gets an error.
LEMMA DisconnectStep == ASSUME IInv, Disconnect PROVE IInv'
<1>1. /\ Orphaned /\ UNCHANGED <<phone, records, twice, home>> /\ online' = FALSE
      /\ reply' = [c \in Callers |-> IF \E d \in calls : d.by = c THEN "error" ELSE reply[c]]
      /\ faults' \in 0 .. MaxFaults
  BY Counted DEF Disconnect, IInv
<1>2. /\ calls' \subseteq [id: Ids, from: Callers, at: 0 .. MaxFaults, by: Callers \cup {"lost"},
                           room: Rooms \cup {NoRoom}]
      /\ OneCall' /\ Waiting' /\ Noted' /\ WrittenOnce'
  BY <1>1, OrphanStep
<1>3. TypeOK'
  BY <1>1, <1>2 DEF IInv, TypeOK, phone
<1>4. Truthful'
  <2>1. ASSUME NEW i \in Ids
        PROVE  (reply'[i] = "ok" => InTable(i)) /\ (submit[i] # "posting" => reply'[i] = "none")
    <3>1. i \in Callers
      BY DEF Callers
    <3>2. CASE \E d \in calls : d.by = i
      BY <1>1, <3>1, <3>2 DEF IInv, Waiting, Waited
    <3>3. CASE ~\E d \in calls : d.by = i
      BY <1>1, <3>1, <3>3 DEF IInv, Truthful
    <3> QED
      BY <3>2, <3>3
  <2>2. ASSUME NEW f \in Flushes
        PROVE  /\ reply'[f] = "ok" => InTable(current[f])
               /\ pc[f] # "posting" => reply'[f] = "none"
               /\ pc[f] = "posting" => current[f] \in Ids
    <3>1. f \in Callers
      BY DEF Callers
    <3>2. CASE \E d \in calls : d.by = f
      BY <1>1, <3>1, <3>2 DEF IInv, Waiting, Waited, Truthful
    <3>3. CASE ~\E d \in calls : d.by = f
      BY <1>1, <3>1, <3>3 DEF IInv, Truthful
    <3> QED
      BY <3>2, <3>3
  <2> QED
    BY <1>1, <2>1, <2>2 DEF Truthful, InTable, phone
<1>5. NothingLost'
  BY <1>1 DEF IInv, NothingLost, phone
<1> QED
  BY <1>2, <1>3, <1>4, <1>5 DEF IInv

\* The app is killed: what was told stands, and the queue is on disk.
LEMMA KillStep == ASSUME IInv, Kill PROVE IInv'
<1>1. /\ Orphaned /\ UNCHANGED <<online, queue, current, records, twice, home>>
      /\ submit' = [i \in Ids |-> IF submit[i] = "posting" THEN "killed" ELSE submit[i]]
      /\ pc' = [f \in Flushes |-> "idle"] /\ list' = [f \in Flushes |-> {}]
      /\ reply' = [c \in Callers |-> "none"]
      /\ faults' \in 0 .. MaxFaults
  BY Counted DEF Kill, IInv
<1>2. /\ calls' \subseteq [id: Ids, from: Callers, at: 0 .. MaxFaults, by: Callers \cup {"lost"},
                           room: Rooms \cup {NoRoom}]
      /\ OneCall' /\ Waiting' /\ Noted' /\ WrittenOnce'
  BY <1>1, OrphanStep
<1>3. TypeOK'
  BY <1>1, <1>2 DEF IInv, TypeOK
<1>4. Truthful' /\ NothingLost'
  BY <1>1 DEF IInv, Truthful, NothingLost, InTable, Callers
<1> QED
  BY <1>2, <1>3, <1>4 DEF IInv

\* The connection comes back, or the occupant's room changes.
LEMMA OutsideStep == ASSUME IInv, Reconnect \/ Move PROVE IInv'
<1>1. /\ UNCHANGED <<phone, reply, api>>
      /\ online' \in BOOLEAN /\ home' \in Rooms \cup {NoRoom} /\ faults' \in 0 .. MaxFaults
  BY Counted DEF Reconnect, Move, IInv, TypeOK
<1> QED
  BY <1>1 DEF IInv, TypeOK, Waiting, Waited, OneCall, Truthful, InTable, Noted, NothingLost,
              WrittenOnce, phone, api

\* patchMaintenance: a request whose notes are replaced is there, but not to be found.
LEMMA EditStep == ASSUME IInv, NEW q \in records, EditNotes(q) PROVE IInv'
<1> DEFINE new == [q EXCEPT !.marked = FALSE]
<1>1. /\ records' = (records \ {q}) \cup {new} /\ faults' \in 0 .. MaxFaults
      /\ UNCHANGED <<online, phone, reply, calls, twice, home>>
  BY Counted DEF EditNotes, IInv
<1>2. /\ new \in [id: Ids, from: Callers, at: 0 .. MaxFaults, room: Rooms, marked: BOOLEAN]
      /\ new.id = q.id /\ ~new.marked
  BY DEF IInv, TypeOK
<1> HIDE DEF new
<1>3. \A i : InTable(i) <=> \E p \in records' : p.id = i
  BY <1>1, <1>2 DEF InTable
<1>4. TypeOK'
  <2>1. records' \subseteq [id: Ids, from: Callers, at: 0 .. MaxFaults, room: Rooms, marked: BOOLEAN]
    BY <1>1, <1>2 DEF IInv, TypeOK
  <2> QED
    BY <1>1, <2>1 DEF IInv, TypeOK, phone
<1>5. Waiting' /\ OneCall'
  BY <1>1 DEF IInv, Waiting, Waited, OneCall, phone
<1>6. Truthful' /\ NothingLost'
  BY <1>1, <1>3 DEF IInv, Truthful, NothingLost, InTable, phone
<1>7. Noted' /\ WrittenOnce'
  BY <1>1, <1>2 DEF IInv, Noted, WrittenOnce
<1> QED
  BY <1>4, <1>5, <1>6, <1>7 DEF IInv

\* Every step of the phone, the API and the office keeps the inductive invariant.
LEMMA NextIInv == IInv /\ [Next]_vars => IInv'
<1> SUFFICES ASSUME IInv, [Next]_vars PROVE IInv'
  OBVIOUS
<1>1. CASE UNCHANGED vars
  BY <1>1 DEF IInv, TypeOK, Waiting, Waited, OneCall, Truthful, InTable, Noted, NothingLost,
              WrittenOnce, vars, phone, api
<1>2. ASSUME NEW i \in Ids, Submit(i) PROVE IInv'
  <2>1. i \in Callers
    BY DEF Callers
  <2> QED
    BY <1>2, <2>1, SendStep DEF Submit
<1>3. ASSUME NEW i \in Ids, Submitted(i) \/ SubmitFailed(i) \/ RefreshFailed(i) PROVE IInv'
  BY <1>3, PhoneStep
<1>4. ASSUME NEW f \in Flushes, PostNext(f) PROVE IInv'
  <2>1. f \in Callers
    BY DEF Callers
  <2>2. PICK i \in list[f] : /\ list' = [list EXCEPT ![f] = @ \ {i}]
                             /\ current' = [current EXCEPT ![f] = i] /\ Send(i, f)
    BY <1>4 DEF PostNext
  <2>3. i \in Ids /\ list' \in [Flushes -> SUBSET Ids]
    BY <2>2 DEF IInv, TypeOK
  <2> QED
    BY <1>4, <2>1, <2>2, <2>3, SendStep DEF PostNext
<1>5. ASSUME NEW f \in Flushes, StartFlush(f) \/ Mark(f) \/ EndFlush(f) PROVE IInv'
  BY <1>5, FlushStep
<1>6. ASSUME NEW c \in calls, Check(c) \/ Insert(c) \/ ServerError(c) PROVE IInv'
  BY <1>6, CheckStep, InsertStep, ErrorStep
<1>7. ASSUME NEW q \in records, EditNotes(q) PROVE IInv'
  BY <1>7, EditStep
<1>8. CASE Disconnect \/ Kill \/ Reconnect \/ Move
  BY <1>8, DisconnectStep, KillStep, OutsideStep
<1> QED
  BY <1>1, <1>2, <1>3, <1>4, <1>5, <1>6, <1>7, <1>8 DEF Next, Phone, Serve

\* The inductive invariant holds of every behaviour: a caller waits for one call, an answer
\* is true, and two look-ups for one room overlapped.
THEOREM Safety == Spec => []IInv
  BY InitIInv, NextIInv, PTL DEF Spec

\* The queue, the calls and the table keep their types.
THEOREM TypeCorrect == Spec => []TypeOK
<1>1. IInv => TypeOK
  BY DEF IInv
<1> QED
  BY Safety, <1>1, PTL

\* What the screen told is kept through every fault and any number of flushes
\* (occupant-portal.ts 117-187).
THEOREM ToldIsKept == Spec => []NothingLost
<1>1. IInv => NothingLost
  BY DEF IInv
<1> QED
  BY Safety, <1>1, PTL

\* portalCreateMaintenance (1096-1129) writes a request once for a room, unless two calls
\* overlapped in it or the notes of the earlier one were replaced.
THEOREM RequestsWrittenOnce == Spec => []WrittenOnce
<1>1. IInv => WrittenOnce
  BY DEF IInv
<1> QED
  BY Safety, <1>1, PTL
===============================================================================
