---------------------------- MODULE OccupantPortal ----------------------------
(***************************************************************************)
(* Maintenance requests an occupant makes on the phone, offline or not:    *)
(* apps/mobile/lib/occupant-portal.ts (submitMaintenanceRequest,           *)
(* flushSyncQueue) over the queue of lib/sqlite-db.ts, the portal screen   *)
(* that starts a flush, and the API's portalCreateMaintenance.             *)
(***************************************************************************)
EXTENDS Naturals, FiniteSets

CONSTANTS
  Ids,          \* the requests made, each under a clientRequestId of its own
  Flushes,      \* runs of the screen's refresh that may be under way together
  Rooms, NoRoom, NoId,
  MaxFaults     \* bound on faults, moves of the occupant and edits of notes

ASSUME BoundAssumption == MaxFaults \in Nat
ASSUME NullAssumption  == NoRoom \notin Rooms /\ NoId \notin Ids
\* A caller is a submission, a flush, or "lost" when nobody waits any more.
ASSUME CallersAssumption == Ids \cap Flushes = {} /\ "lost" \notin Ids \cup Flushes

VARIABLES
  online,    \* useNetworkOnline
  queue,     \* sync_queue: the status of each row, "absent" for none
  submit,    \* the stage of each submission, and what the screen told
  pc,        \* the stage of each flush
  list,      \* the rows a flush has still to send
  current,   \* the row it is sending
  reply,     \* what the API answered a caller
  calls,     \* the calls the API is serving: what they ask, who made them and when,
             \* who waits, and the room once the handler has found it
  records,   \* AccommodationMaintenanceRequest, with the call that inserted it
  home,      \* the room of the occupant's active allocation
  faults,    \* how many of these so far
  twice      \* history: ids for which two handlers overlapped

phone == <<queue, submit, pc, list, current>>
api   == <<calls, records, twice>>
vars  == <<online, phone, reply, api, home, faults>>

Callers == Ids \cup Flushes

Post(i, c)   == calls' = calls \cup {[id |-> i, from |-> c, at |-> faults, by |-> c, room |-> NoRoom]}
Answer(c, a) == reply' = IF c = "lost" THEN reply ELSE [reply EXCEPT ![c] = a]
Fault        == faults < MaxFaults /\ faults' = faults + 1

-----------------------------------------------------------------------------
(* submitMaintenanceRequest *)

\* Offline the fetch fails at once.
Send(i, c) ==
  IF online THEN Post(i, c) /\ UNCHANGED reply
            ELSE Answer(c, "error") /\ UNCHANGED calls

Submit(i) ==
  /\ submit[i] = "idle"
  /\ submit' = [submit EXCEPT ![i] = "posting"]
  /\ Send(i, i)
  /\ UNCHANGED <<online, queue, pc, list, current, records, twice, home, faults>>

\* "Maintenance request submitted."
Submitted(i) ==
  /\ submit[i] = "posting" /\ reply[i] = "ok" /\ online
  /\ submit' = [submit EXCEPT ![i] = "synced"]
  /\ reply' = [reply EXCEPT ![i] = "none"]
  /\ UNCHANGED <<online, queue, pc, list, current, api, home, faults>>

\* "Saved offline": enqueueSync
Save(i) ==
  /\ queue' = [queue EXCEPT ![i] = "pending"]
  /\ submit' = [submit EXCEPT ![i] = "queued"]
  /\ reply' = [reply EXCEPT ![i] = "none"]
  /\ UNCHANGED <<online, pc, list, current, api, home>>

SubmitFailed(i) ==
  /\ submit[i] = "posting" /\ reply[i] = "error"
  /\ Save(i)
  /\ UNCHANGED faults

\* The request is in, but the refresh that follows it in the same try fails.
RefreshFailed(i) ==
  /\ submit[i] = "posting" /\ reply[i] = "ok"
  /\ Save(i)
  /\ IF online THEN Fault ELSE UNCHANGED faults

-----------------------------------------------------------------------------
(* flushSyncQueue *)

StartFlush(f) ==
  /\ pc[f] = "idle" /\ online
  /\ list' = [list EXCEPT ![f] = {i \in Ids : queue[i] = "pending"}]
  /\ pc' = [pc EXCEPT ![f] = "next"]
  /\ UNCHANGED <<online, queue, submit, current, reply, api, home, faults>>

PostNext(f) ==
  /\ pc[f] = "next"
  /\ \E i \in list[f] :
       /\ list' = [list EXCEPT ![f] = @ \ {i}]
       /\ current' = [current EXCEPT ![f] = i]
       /\ Send(i, f)
  /\ pc' = [pc EXCEPT ![f] = "posting"]
  /\ UNCHANGED <<online, queue, submit, records, twice, home, faults>>

\* markSyncDone deletes the row.
Done(q, i) == [q EXCEPT ![i] = "absent"]

\* Mutant: the row is deleted whatever the API answered.
Dropped(q, i) == [q EXCEPT ![i] = "absent"]

\* Mutant: a failed row stays pending.
Kept(q, i) == q

\* markSyncFailed updates the row, if it is still there.
Failed(q, i) == IF q[i] = "absent" THEN q ELSE [q EXCEPT ![i] = "failed"]

Mark(f) ==
  /\ pc[f] = "posting" /\ reply[f] # "none"
  /\ queue' = IF reply[f] = "ok" THEN Done(queue, current[f]) ELSE Failed(queue, current[f])
  /\ reply' = [reply EXCEPT ![f] = "none"]
  /\ pc' = [pc EXCEPT ![f] = "next"]
  /\ UNCHANGED <<online, submit, list, current, api, home, faults>>

EndFlush(f) ==
  /\ pc[f] = "next" /\ list[f] = {}
  /\ pc' = [pc EXCEPT ![f] = "idle"]
  /\ UNCHANGED <<online, queue, submit, list, current, reply, api, home, faults>>

-----------------------------------------------------------------------------
(* portalCreateMaintenance: the allocation and the earlier request are looked *)
(* up by the clientRequestId in its notes, then the request is inserted.     *)

\* Mutant: the earlier request is not looked up.
NeverFound(i, rm) == FALSE

Found(i, rm) == \E q \in records : q.id = i /\ q.room = rm /\ q.marked

Check(c) ==
  /\ c.room = NoRoom
  /\ IF home = NoRoom \/ Found(c.id, home)
       THEN /\ calls' = calls \ {c}
            /\ Answer(c.by, IF home = NoRoom THEN "error" ELSE "ok")
            /\ UNCHANGED twice
       ELSE /\ calls' = (calls \ {c}) \cup {[c EXCEPT !.room = home]}
            /\ twice' = IF \E d \in calls : d.id = c.id /\ d.room = home
                        THEN twice \cup {c.id} ELSE twice
            /\ UNCHANGED reply
  /\ UNCHANGED <<online, phone, records, home, faults>>

Insert(c) ==
  /\ c.room # NoRoom
  /\ calls' = calls \ {c}
  /\ records' = records \cup {[id |-> c.id, from |-> c.from, at |-> c.at, room |-> c.room,
                            marked |-> TRUE]}
  /\ Answer(c.by, "ok")
  /\ UNCHANGED <<online, phone, twice, home, faults>>

-----------------------------------------------------------------------------
(* Faults, and the office *)

\* A query fails.
ServerError(c) ==
  /\ Fault
  /\ calls' = calls \ {c}
  /\ Answer(c.by, "error")
  /\ UNCHANGED <<online, phone, records, twice, home>>

\* The calls the phone was waiting for, when it no longer is: the API has got some
\* and serves them to the end.
Orphaned == \E got \in SUBSET calls : calls' = {[c EXCEPT !.by = "lost"] : c \in got}

Disconnect ==
  /\ online /\ Fault
  /\ online' = FALSE
  /\ Orphaned
  /\ reply' = [c \in Callers |->
       IF \E d \in calls : d.by = c THEN "error" ELSE reply[c]]
  /\ UNCHANGED <<phone, records, twice, home>>

Reconnect ==
  /\ ~online
  /\ online' = TRUE
  /\ UNCHANGED <<phone, reply, api, home, faults>>

\* The app is killed; the queue is on disk.
Kill ==
  /\ Fault
  /\ Orphaned
  /\ submit' = [i \in Ids |-> IF submit[i] = "posting" THEN "killed" ELSE submit[i]]
  /\ pc' = [f \in Flushes |-> "idle"]
  /\ list' = [f \in Flushes |-> {}]
  /\ reply' = [c \in Callers |-> "none"]
  /\ UNCHANGED <<online, queue, current, records, twice, home>>

\* The office allocates, vacates or transfers.
Move ==
  /\ Fault
  /\ \E rm \in (Rooms \cup {NoRoom}) \ {home} : home' = rm
  /\ UNCHANGED <<online, phone, reply, api>>

\* patchMaintenance by the office, with new notes.
EditNotes(q) ==
  /\ Fault
  /\ records' = (records \ {q}) \cup {[q EXCEPT !.marked = FALSE]}
  /\ UNCHANGED <<online, phone, reply, calls, twice, home>>

Init ==
  /\ online = TRUE
  /\ queue = [i \in Ids |-> "absent"]
  /\ submit = [i \in Ids |-> "idle"]
  /\ pc = [f \in Flushes |-> "idle"]
  /\ list = [f \in Flushes |-> {}]
  /\ current = [f \in Flushes |-> NoId]
  /\ reply = [c \in Callers |-> "none"]
  /\ calls = {} /\ records = {} /\ twice = {}
  /\ home \in Rooms
  /\ faults = 0

Phone ==
  \/ \E i \in Ids : Submitted(i) \/ SubmitFailed(i)
  \/ \E f \in Flushes : PostNext(f) \/ Mark(f) \/ EndFlush(f)

Serve == \E c \in calls : Check(c) \/ Insert(c)

Next ==
  \/ \E i \in Ids : Submit(i) \/ RefreshFailed(i)
  \/ \E f \in Flushes : StartFlush(f)
  \/ Phone \/ Serve
  \/ \E q \in records : EditNotes(q)
  \/ \E c \in calls : ServerError(c)
  \/ Disconnect \/ Reconnect \/ Kill \/ Move

Spec == Init /\ [][Next]_vars

\* The app and the API go on, the connection comes back and the occupant opens the
\* screen again; nobody need make a request.
Fairness ==
  /\ \A i \in Ids : WF_vars(Submitted(i) \/ SubmitFailed(i))
  /\ \A f \in Flushes : WF_vars(StartFlush(f) \/ PostNext(f) \/ Mark(f) \/ EndFlush(f))
  /\ WF_vars(Serve) /\ WF_vars(Reconnect)

FairSpec == Spec /\ Fairness

-----------------------------------------------------------------------------
(* Properties *)

\* The queue, the calls and the table have the types the code gives them.
TypeOK ==
  /\ online \in BOOLEAN /\ faults \in 0 .. MaxFaults
  /\ queue \in [Ids -> {"absent", "pending", "failed"}]
  /\ submit \in [Ids -> {"idle", "posting", "synced", "queued", "killed"}]
  /\ pc \in [Flushes -> {"idle", "next", "posting"}]
  /\ list \in [Flushes -> SUBSET Ids]
  /\ current \in [Flushes -> Ids \cup {NoId}]
  /\ reply \in [Callers -> {"none", "ok", "error"}]
  /\ calls \subseteq [id: Ids, from: Callers, at: 0 .. MaxFaults, by: Callers \cup {"lost"},
                      room: Rooms \cup {NoRoom}]
  /\ records \subseteq [id: Ids, from: Callers, at: 0 .. MaxFaults, room: Rooms,
                        marked: BOOLEAN]
  /\ home \in Rooms \cup {NoRoom} /\ twice \subseteq Ids

\* What the screen told is kept through every fault and every pair of flushes: a
\* request "submitted" is in the table, one "saved offline" is there or in the queue.
NothingLost ==
  \A i \in Ids :
    /\ submit[i] = "synced" => \E q \in records : q.id = i
    /\ submit[i] = "queued" /\ queue[i] = "absent" => \E q \in records : q.id = i

\* portalCreateMaintenance (1096-1105): a request sent again and again is written once
\* for a room, unless two calls carrying it were served at the same time, or the office
\* replaced the notes the earlier one is found by.
WrittenOnce ==
  \A p, q \in records :
    p.id = q.id /\ p.room = q.room /\ p # q => p.id \in twice \/ ~p.marked \/ ~q.marked

\* No pending row waits for ever: a flush sends it and marks what came of it.
EveryRowTried == \A i \in Ids : queue[i] = "pending" ~> queue[i] # "pending"
===============================================================================
