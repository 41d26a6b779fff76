------------------------- MODULE ParishCalendarProofs -------------------------
(***************************************************************************)
(* Proofs about ParishCalendar, for any number of requests and hours: the  *)
(* types, who may have the hall, the Masses the schedule writes, what      *)
(* stands on the website and what the app shows.                           *)
(***************************************************************************)
EXTENDS ParishCalendar, TLAPS

\* What a request may hold.
Things == Plans \cup Bookings \cup Changes \cup Hours \cup Copies \cup {NoWork}

\* At first no request has begun and every table but the schedule is empty.
LEMMA InitType == Init => TypeOK
<1> SUFFICES ASSUME Init PROVE TypeOK
  OBVIOUS
<1>1. Current \subseteq Slots /\ Now \in Copies
  BY DEF Now, Current, season, Copies, Seasons
<1>2. TablesOK
  <2>1. turns \in Nat /\ entries \subseteq Rows /\ mobile \in Copies
    BY <1>1 DEF Init
  <2>2. /\ mass \in [Keys -> {"none", "plain", "hall", "scheduled"}]
        /\ booking \in [Requests -> Bookings \cup {NoBooking}]
        /\ event \in [Keys -> Events \cup {NoEvent}]
    BY DEF Init
  <2>3. /\ site \in [Keys -> Nat] /\ before \in [Requests -> SUBSET Requests]
        /\ changed \subseteq Requests \cup Keys /\ cut \subseteq Keys
        /\ stale \subseteq Reading /\ lags \in BOOLEAN
    BY DEF Init
  <2> QED
    BY <2>1, <2>2, <2>3 DEF TablesOK
<1>4. work \in [Requests -> Things] /\ \A r \in Requests : pc[r] = "idle"
  BY DEF Init, Things
<1>3. pc \in [Requests -> {"idle"}]
  BY DEF Init
<1> QED
  BY <1>2, <1>3, <1>4 DEF TypeOK, HoldsOK, Stages, Things

\* What a step does to its request's locals, and to no other's: stage s is right for what
\* it holds then, w.
Moves(r, s, w) ==
  /\ s \in Stages /\ w \in Things
  /\ pc' = [pc EXCEPT ![r] = s] \/ (pc' = pc /\ s = pc[r])
  /\ work' = [work EXCEPT ![r] = w] \/ (work' = work /\ w = work[r])
  /\ s \in {"mass", "massBooking", "massEvent", "link"} => w \in Plans
  /\ s \in {"book", "bookingEvent"} => w \in Bookings
  /\ s \in {"update", "publish"} => w \in Changes /\ w.key \in Written'
  /\ s \in {"sync", "syncEvent", "syncMass"} => w \in Hours
  /\ s \in {"syncEvent", "syncMass"} => w.hour \in Slots
  /\ s = "upsert" => w \in Copies

\* No event row goes away (a deleted one is kept with its date of deletion), so that a
\* step that moves one request keeps what the others hold.
LEMMA MovesKeep ==
  ASSUME TypeOK, TablesOK', Written \subseteq Written', NEW r \in Requests,
         NEW s, NEW w, Moves(r, s, w)
  PROVE  TypeOK'
<1>1. ASSUME NEW q \in Requests PROVE HoldsOK(q)'
  <2>1. CASE q = r
    BY <2>1 DEF Moves, HoldsOK, TypeOK
  <2>2. CASE q # r
    <3>1. pc'[q] = pc[q] /\ work'[q] = work[q] /\ HoldsOK(q)
      BY <2>2 DEF Moves, TypeOK
    <3> QED
      BY <3>1 DEF HoldsOK
  <2> QED
    BY <2>1, <2>2
<1> QED
  BY <1>1 DEF TypeOK, Moves, Things

\* A row of an event written or changed is an event, and no row goes away.
LEMMA EventKept ==
  ASSUME TypeOK, NEW k \in Keys, NEW e \in Events, event' = [event EXCEPT ![k] = e]
  PROVE  event' \in [Keys -> Events \cup {NoEvent}] /\ Written \subseteq Written'
  BY NullsAssumption DEF TypeOK, TablesOK, Written

\* createMass.
PlanStep(r) ==
  \/ CreateMass(r) \/ InsertMass(r) \/ BookForMass(r) \/ PutOnCalendar(r) \/ LinkBooking(r)
\* The hall bookings.
HallStep(r) ==
  \/ CreateHallBooking(r) \/ BookingEvent(r) \/ BookHall(r) \/ UpdateHallBookingStatus(r)
\* The calendar events.
EventStep(r) ==
  \/ CreateCalendarEvent(r) \/ UpdateCalendarEvent(r) \/ WriteEvent(r)
  \/ SyncCalendarToWebsite(r) \/ DeleteCalendarEvent(r)
\* The weekly schedule.
ScheduleStep(r) ==
  \/ SyncCalendar(r) \/ NextHour(r) \/ SyncEvent(r) \/ SyncMass(r)
  \/ EditSchedule(r) \/ ReadEntries(r) \/ UpsertConfig(r) \/ Abort(r)
\* A query of a request.
Query(r) == PlanStep(r) \/ HallStep(r) \/ EventStep(r) \/ ScheduleStep(r)

\* The rows of events: a step writes or changes one at most.
LEMMA EventRow ==
  ASSUME TypeOK, NEW r \in Requests, Query(r)
  PROVE  UNCHANGED event \/ \E k \in Keys, e \in Events : event' = [event EXCEPT ![k] = e]
<1> USE DEF Begin, Start, Goto, Hold, End, Fail, schedule, diary, lag, history
<1>1. HoldsOK(r)
  BY DEF TypeOK
<1>2. CASE PutOnCalendar(r)
  <2>1. PICK at \in {work[r].slot, NoSlot} :
          event' = [event EXCEPT ![<<r, work[r].slot>>] = [at |-> at, live |-> TRUE, web |-> FALSE]]
    BY <1>2 DEF PutOnCalendar
  <2>2. <<r, work[r].slot>> \in Keys /\ [at |-> at, live |-> TRUE, web |-> FALSE] \in Events
    BY <1>1, <1>2 DEF PutOnCalendar, HoldsOK, Plans, Keys, Events
  <2> QED
    BY <2>1, <2>2
<1>3. CASE BookingEvent(r)
  <2>1. <<r, work[r].slot>> \in Keys /\ [at |-> NoSlot, live |-> TRUE, web |-> FALSE] \in Events
    BY <1>1, <1>3 DEF BookingEvent, HoldsOK, Bookings, Keys, Events
  <2> QED
    BY <1>3, <2>1 DEF BookingEvent
<1>4. CASE CreateCalendarEvent(r)
  <2>1. PICK s \in Slots, w \in BOOLEAN : \E at \in {s, NoSlot} :
          event' = [event EXCEPT ![<<r, s>>] = [at |-> at, live |-> TRUE, web |-> w]]
    BY <1>4 DEF CreateCalendarEvent
  <2>2. <<r, s>> \in Keys /\ \A at \in {s, NoSlot} : [at |-> at, live |-> TRUE, web |-> w] \in Events
    BY DEF Keys, Events
  <2> QED
    BY <2>1, <2>2
<1>5. CASE WriteEvent(r)
  <2> DEFINE k == work[r].key
  <2>1. k \in Keys /\ event[k] \in Events
    BY <1>1, <1>5, NullsAssumption DEF WriteEvent, HoldsOK, Written, TypeOK, TablesOK
  <2>2. PICK at \in Slots \cup {NoSlot}, w \in BOOLEAN :
          event' = [event EXCEPT ![k].at = at, ![k].web = w]
    BY <1>5 DEF WriteEvent
  <2>3. [event[k] EXCEPT !.at = at, !.web = w] \in Events
    BY <2>1 DEF Events
  <2>4. event' = [event EXCEPT ![k] = [event[k] EXCEPT !.at = at, !.web = w]]
    BY <2>1, <2>2 DEF TypeOK, TablesOK
  <2> QED
    BY <2>1, <2>3, <2>4
<1>6. CASE DeleteCalendarEvent(r)
  <2>1. PICK k \in Written : event' = [event EXCEPT ![k].live = FALSE]
    BY <1>6 DEF DeleteCalendarEvent
  <2>2. k \in Keys /\ event[k] \in Events
    BY NullsAssumption DEF Written, TypeOK, TablesOK
  <2>3. [event[k] EXCEPT !.live = FALSE] \in Events
    BY <2>2 DEF Events
  <2> QED
    BY <2>1, <2>2, <2>3
<1>7. CASE SyncEvent(r)
  <2>1. work[r].hour \in Slots
    BY <1>1, <1>7 DEF SyncEvent, HoldsOK
  <2>2. event' = [event EXCEPT ![<<r, work[r].hour>>] = [at |-> work[r].hour, live |-> TRUE, web |-> TRUE]]
    BY <1>7 DEF SyncEvent
  <2>3. <<r, work[r].hour>> \in Keys /\ [at |-> work[r].hour, live |-> TRUE, web |-> TRUE] \in Events
    BY <2>1 DEF Keys, Events
  <2> QED
    BY <2>2, <2>3
<1>8. CASE \/ CreateMass(r) \/ InsertMass(r) \/ BookForMass(r) \/ LinkBooking(r)
           \/ CreateHallBooking(r) \/ BookHall(r) \/ UpdateHallBookingStatus(r)
           \/ UpdateCalendarEvent(r) \/ SyncCalendarToWebsite(r)
           \/ SyncCalendar(r) \/ NextHour(r) \/ SyncMass(r) \/ EditSchedule(r)
           \/ ReadEntries(r) \/ UpsertConfig(r) \/ Abort(r)
  BY <1>8 DEF CreateMass, InsertMass, BookForMass, LinkBooking, CreateHallBooking, BookHall,
              UpdateHallBookingStatus, UpdateCalendarEvent, SyncCalendarToWebsite, SyncCalendar,
              NextHour, SyncMass, EditSchedule, ReadEntries, UpsertConfig, Abort
<1> QED
  BY <1>2, <1>3, <1>4, <1>5, <1>6, <1>7, <1>8 DEF Query, PlanStep, HallStep, EventStep, ScheduleStep

\* No step takes the row of an event away.
LEMMA EventsKept ==
  ASSUME TypeOK, NEW r \in Requests, Query(r)
  PROVE  event' \in [Keys -> Events \cup {NoEvent}] /\ Written \subseteq Written'
<1>1. CASE UNCHANGED event
  BY <1>1 DEF TypeOK, TablesOK, Written
<1>2. CASE \E k \in Keys, e \in Events : event' = [event EXCEPT ![k] = e]
  BY <1>2, EventKept
<1> QED
  BY <1>1, <1>2, EventRow

\* Every query moves its own request, to a stage that fits what it holds.
LEMMA Moved == ASSUME TypeOK, NEW r \in Requests, Query(r)
               PROVE  \E s, w : Moves(r, s, w)
<1> USE DEF Begin, Start, Goto, Hold, End, Fail, Stages, Things, schedule, diary, lag, history
<1>1. HoldsOK(r) /\ work[r] \in Things
  BY DEF TypeOK, Things
<1>2. CASE CreateMass(r)
  <2>1. \/ \E w \in Plans : Moves(r, "mass", w)
        \/ Moves(r, "failed", NoWork)
    BY <1>1, <1>2 DEF CreateMass, Moves, HoldsOK, TypeOK, TablesOK, Plans, Bookings, Changes,
       Hours, Copies, Keys,
           Statuses
  <2> QED
    BY <2>1
<1>3. CASE InsertMass(r)
  <2>1. \/ Moves(r, "massBooking", work[r])
        \/ Moves(r, "massEvent", work[r])
        \/ Moves(r, "done", NoWork)
    BY <1>1, <1>3 DEF InsertMass, Moves, HoldsOK, TypeOK, TablesOK, Plans, Bookings, Changes,
       Hours, Copies, Keys,
           Statuses
  <2> QED
    BY <2>1
<1>4. CASE BookForMass(r)
  <2>1. \/ Moves(r, "failed", NoWork)
        \/ Moves(r, "massEvent", work[r])
        \/ Moves(r, "done", NoWork)
    BY <1>1, <1>4 DEF BookForMass, Moves, HoldsOK, TypeOK, TablesOK, Plans, Bookings, Changes,
       Hours, Copies, Keys,
           Statuses
  <2> QED
    BY <2>1
<1>5. CASE PutOnCalendar(r)
  <2>1. \/ Moves(r, "link", work[r])
        \/ Moves(r, "done", NoWork)
    BY <1>1, <1>5 DEF PutOnCalendar, Moves, HoldsOK, TypeOK, TablesOK, Plans, Bookings, Changes,
       Hours, Copies, Keys,
           Statuses
  <2> QED
    BY <2>1
<1>6. CASE LinkBooking(r)
  <2>1. Moves(r, "done", NoWork)
    BY <1>1, <1>6 DEF LinkBooking, Moves, HoldsOK, TypeOK, TablesOK, Plans, Bookings, Changes,
       Hours, Copies, Keys,
           Statuses
  <2> QED
    BY <2>1
<1>7. CASE CreateHallBooking(r)
  <2>1. \/ \E w \in Bookings : Moves(r, "bookingEvent", w) \/ Moves(r, "book", w)
        \/ Moves(r, "failed", NoWork)
    BY <1>1, <1>7 DEF CreateHallBooking, Moves, HoldsOK, TypeOK, TablesOK, Plans, Bookings,
       Changes, Hours, Copies, Keys,
           Statuses
  <2> QED
    BY <2>1
<1>8. CASE BookingEvent(r)
  <2>1. Moves(r, "book", [work[r] EXCEPT !.event = <<r, work[r].slot>>])
    BY <1>1, <1>8 DEF BookingEvent, Moves, HoldsOK, TypeOK, TablesOK, Plans, Bookings, Changes,
       Hours, Copies, Keys,
           Statuses
  <2> QED
    BY <2>1
<1>9. CASE BookHall(r)
  <2>1. Moves(r, "failed", NoWork) \/ Moves(r, "done", NoWork)
    BY <1>1, <1>9 DEF BookHall, Moves, HoldsOK, TypeOK, TablesOK, Plans, Bookings, Changes,
       Hours, Copies, Keys,
           Statuses
  <2> QED
    BY <2>1
<1>10. CASE UpdateHallBookingStatus(r)
  <2>1. Moves(r, "done", NoWork)
    BY <1>1, <1>10 DEF UpdateHallBookingStatus, Moves, HoldsOK, TypeOK, TablesOK, Plans,
       Bookings, Changes, Hours, Copies, Keys,
           Statuses
  <2> QED
    BY <2>1
<1>11. CASE CreateCalendarEvent(r)
  <2>1. PICK s \in Slots, w \in BOOLEAN, at \in Slots \cup {NoSlot} :
          /\ event' = [event EXCEPT ![<<r, s>>] = [at |-> at, live |-> TRUE, web |-> w]]
          /\ \/ w /\ pc' = [pc EXCEPT ![r] = "publish"]
                  /\ work' = [work EXCEPT ![r] = [key |-> <<r, s>>, was |-> FALSE]]
             \/ ~w /\ pc' = [pc EXCEPT ![r] = "done"] /\ work' = [work EXCEPT ![r] = NoWork]
    BY <1>11 DEF CreateCalendarEvent
  <2>2. [at |-> at, live |-> TRUE, web |-> w] \in Events /\ <<r, s>> \in Keys
    BY DEF Events, Keys
  <2>3. <<r, s>> \in Written'
    BY <2>1, <2>2, NullsAssumption DEF Written, TypeOK, TablesOK
  <2>4. [key |-> <<r, s>>, was |-> FALSE] \in Changes /\ [key |-> <<r, s>>, was |-> FALSE].key = <<r, s>>
    BY <2>2 DEF Changes
  <2>5. Moves(r, "publish", [key |-> <<r, s>>, was |-> FALSE]) \/ Moves(r, "done", NoWork)
    BY <2>1, <2>3, <2>4 DEF Moves
  <2> QED
    BY <2>5
<1>12. CASE UpdateCalendarEvent(r)
  <2>1. PICK k \in Written : /\ pc' = [pc EXCEPT ![r] = "update"]
                             /\ work' = [work EXCEPT ![r] = [key |-> k, was |-> event[k].web]]
                             /\ event' = event
    BY <1>12 DEF UpdateCalendarEvent
  <2>2. k \in Keys /\ k \in Written' /\ event[k].web \in BOOLEAN
    BY <2>1 DEF Written, TypeOK, TablesOK, Events
  <2>3. [key |-> k, was |-> event[k].web] \in Changes /\ [key |-> k, was |-> event[k].web].key = k
    BY <2>2 DEF Changes
  <2>4. Moves(r, "update", [key |-> k, was |-> event[k].web])
    BY <2>1, <2>2, <2>3 DEF Moves
  <2> QED
    BY <2>4
<1>13. CASE WriteEvent(r)
  <2>1. Written \subseteq Written'
    BY <1>13, EventsKept DEF Query, EventStep
  <2>2. work[r] \in Changes /\ work[r].key \in Written
    BY <1>1, <1>13 DEF WriteEvent, HoldsOK
  <2>3. Moves(r, "publish", work[r]) \/ Moves(r, "done", NoWork)
    BY <1>1, <1>13, <2>1, <2>2 DEF WriteEvent, Moves
  <2> QED
    BY <2>3
<1>14. CASE SyncCalendarToWebsite(r)
  <2>1. Moves(r, "done", NoWork)
    BY <1>1, <1>14 DEF SyncCalendarToWebsite, Moves, HoldsOK, TypeOK, TablesOK, Plans, Bookings,
       Changes, Hours, Copies, Keys,
           Statuses
  <2> QED
    BY <2>1
<1>15. CASE DeleteCalendarEvent(r)
  <2>1. Moves(r, "done", NoWork)
    BY <1>1, <1>15 DEF DeleteCalendarEvent, Moves, HoldsOK, TypeOK, TablesOK, Plans, Bookings,
       Changes, Hours, Copies, Keys,
           Statuses
  <2> QED
    BY <2>1
<1>16. CASE SyncCalendar(r)
  <2>1. Moves(r, "sync", [hours |-> Current, hour |-> NoSlot])
    BY <1>1, <1>16 DEF SyncCalendar, Current, Moves, HoldsOK, TypeOK, TablesOK, Plans, Bookings,
       Changes, Hours, Copies, Keys,
           Statuses
  <2> QED
    BY <2>1
<1>17. CASE NextHour(r)
  <2>1. work[r] \in Hours /\ pc[r] = "sync"
    BY <1>1, <1>17 DEF NextHour, HoldsOK
  <2>2. CASE work[r].hours = {} /\ pc' = [pc EXCEPT ![r] = "config"] /\ work' = [work EXCEPT ![r] = NoWork]
    <3>1. Moves(r, "config", NoWork)
      BY <2>2 DEF Moves
    <3> QED
      BY <3>1
  <2>3. ASSUME NEW s \in work[r].hours,
               \/ pc' = pc /\ work' = [work EXCEPT ![r] = [hours |-> work[r].hours \ {s}, hour |-> NoSlot]]
               \/ /\ pc' = [pc EXCEPT ![r] = "syncEvent"]
                  /\ work' = [work EXCEPT ![r] = [hours |-> work[r].hours \ {s}, hour |-> s]]
        PROVE  \E t, w : Moves(r, t, w)
    <3>1. s \in Slots /\ work[r].hours \ {s} \in SUBSET Slots
      BY <2>1 DEF Hours
    <3>2. /\ [hours |-> work[r].hours \ {s}, hour |-> NoSlot] \in Hours
          /\ [hours |-> work[r].hours \ {s}, hour |-> s] \in Hours
      BY <3>1 DEF Hours
    <3>3. \/ Moves(r, "sync", [hours |-> work[r].hours \ {s}, hour |-> NoSlot])
          \/ Moves(r, "syncEvent", [hours |-> work[r].hours \ {s}, hour |-> s])
      BY <2>1, <2>3, <3>1, <3>2 DEF Moves
    <3> QED
      BY <3>3
  <2> QED
    BY <1>17, <2>2, <2>3 DEF NextHour
<1>18. CASE SyncEvent(r)
  <2>1. Moves(r, "syncMass", work[r])
    BY <1>1, <1>18 DEF SyncEvent, Moves, HoldsOK, TypeOK, TablesOK, Plans, Bookings, Changes,
       Hours, Copies, Keys,
           Statuses
  <2> QED
    BY <2>1
<1>19. CASE SyncMass(r)
  <2>1. work[r] \in Hours
    BY <1>1, <1>19 DEF SyncMass, HoldsOK
  <2>2. PICK w : w = [work[r] EXCEPT !.hour = NoSlot]
    OBVIOUS
  <2>3. w \in Hours
    BY <2>1, <2>2 DEF Hours
  <2>4. pc' = [pc EXCEPT ![r] = "sync"] /\ work' = [work EXCEPT ![r] = w]
    BY <1>19, <2>2 DEF SyncMass
  <2>5. Moves(r, "sync", w)
    BY <1>1, <2>3, <2>4 DEF Moves
  <2> QED
    BY <2>5
<1>20. CASE EditSchedule(r)
  <2>1. Moves(r, "config", work[r])
    BY <1>1, <1>20 DEF EditSchedule, Moves, HoldsOK, TypeOK, TablesOK, Plans, Bookings, Changes,
       Hours, Copies, Keys,
           Statuses
  <2> QED
    BY <2>1
<1>21. CASE ReadEntries(r)
  <2>1. Moves(r, "upsert", Now)
    BY <1>1, <1>21 DEF ReadEntries, Now, Current, season, Seasons, Moves, HoldsOK, TypeOK,
       TablesOK, Plans, Bookings, Changes, Hours, Copies, Keys,
           Statuses
  <2> QED
    BY <2>1
<1>22. CASE UpsertConfig(r)
  <2>1. Moves(r, "done", NoWork)
    BY <1>1, <1>22 DEF UpsertConfig, Moves, HoldsOK, TypeOK, TablesOK, Plans, Bookings, Changes,
       Hours, Copies, Keys,
           Statuses
  <2> QED
    BY <2>1
<1>23. CASE Abort(r)
  <2>1. Moves(r, "failed", NoWork)
    BY <1>1, <1>23 DEF Abort, Moves, HoldsOK, TypeOK, TablesOK, Plans, Bookings, Changes, Hours,
       Copies, Keys,
           Statuses
  <2> QED
    BY <2>1
<1> QED
  BY <1>2, <1>3, <1>4, <1>5, <1>6, <1>7, <1>8, <1>9, <1>10, <1>11, <1>12, <1>13, <1>14, <1>15,
     <1>16, <1>17, <1>18, <1>19, <1>20, <1>21, <1>22, <1>23 DEF Query, PlanStep, HallStep, EventStep,
     ScheduleStep

\* Only a request that is about to write for the app can have read too early.
LEMMA LagTyped ==
  ASSUME TypeOK, NEW r \in Requests, Query(r)
  PROVE  cut' \subseteq Keys /\ stale' \subseteq Reading' /\ lags' \in BOOLEAN
<1> USE DEF Begin, Start, Goto, Hold, End, Fail, schedule, diary, lag, history
<1>1. /\ HoldsOK(r) /\ pc \in [Requests -> Stages] /\ cut \subseteq Keys
      /\ stale \subseteq Reading /\ lags \in BOOLEAN
  BY DEF TypeOK, TablesOK
<1>2. CASE UpsertConfig(r)
  BY <1>1, <1>2 DEF UpsertConfig, Reading
<1>3. CASE Abort(r)
  <2>1. cut' \subseteq Keys
    BY <1>1, <1>3 DEF Abort, HoldsOK, Changes, Keys
  <2>2. stale' \subseteq Reading'
    BY <1>1, <1>3 DEF Abort, Reading, Telling
  <2>3. lags' \in BOOLEAN
    BY <1>1, <1>3 DEF Abort, Telling
  <2> QED
    BY <2>1, <2>2, <2>3
<1>4. ASSUME ~UpsertConfig(r), ~Abort(r) PROVE UNCHANGED <<cut, lag>> /\ pc[r] # "upsert"
  BY <1>4 DEF Query, PlanStep, HallStep, EventStep, ScheduleStep, CreateMass, InsertMass, BookForMass,
         PutOnCalendar, LinkBooking, CreateHallBooking, BookingEvent, BookHall,
         UpdateHallBookingStatus, CreateCalendarEvent, UpdateCalendarEvent, WriteEvent,
         SyncCalendarToWebsite, DeleteCalendarEvent, SyncCalendar, NextHour, SyncEvent,
         SyncMass, EditSchedule, ReadEntries, history
<1>5. ASSUME UNCHANGED <<cut, lag>>, pc[r] # "upsert" PROVE cut' \subseteq Keys /\ stale' \subseteq Reading' /\ lags' \in BOOLEAN
  <2>1. PICK s, w : Moves(r, s, w)
    BY Moved
  <2>2. \A q \in Requests \ {r} : pc'[q] = pc[q]
    BY <1>1, <2>1 DEF Moves
  <2> QED
    BY <1>1, <1>5, <2>2 DEF Reading, lag
<1> QED
  BY <1>2, <1>3, <1>4, <1>5

\* Every query writes rows of the right type.
LEMMA RowsTyped ==
  ASSUME TypeOK, NEW r \in Requests, Query(r)
  PROVE  TablesOK'
<1> USE DEF Begin, Start, Goto, Hold, End, Fail, schedule, diary, lag, history
<1>1. HoldsOK(r) /\ TablesOK
  BY DEF TypeOK
<1>2. /\ event' \in [Keys -> Events \cup {NoEvent}]
      /\ cut' \subseteq Keys /\ stale' \subseteq Reading' /\ lags' \in BOOLEAN
  BY EventsKept, LagTyped
<1>3. before' \in [Requests -> SUBSET Requests]
  <2>1. before' = before \/ before' = [before EXCEPT ![r] = Ended]
    BY DEF Query, PlanStep, HallStep, EventStep, ScheduleStep, CreateMass, InsertMass, BookForMass,
           PutOnCalendar, LinkBooking, CreateHallBooking, BookingEvent, BookHall,
           UpdateHallBookingStatus, CreateCalendarEvent, UpdateCalendarEvent, WriteEvent,
           SyncCalendarToWebsite, DeleteCalendarEvent, SyncCalendar, NextHour, SyncEvent,
           SyncMass, EditSchedule, ReadEntries, UpsertConfig, Abort
  <2>2. Ended \subseteq Requests
    BY DEF Ended
  <2> QED
    BY <1>1, <2>1, <2>2 DEF TablesOK
<1>4. CASE PlanStep(r)
  <2>1. booking' \in [Requests -> Bookings \cup {NoBooking}]
    <3>1. CASE BookForMass(r)
      <4> DEFINE b == [slot |-> work[r].slot, status |-> "CONFIRMED", mass |-> <<r, work[r].slot>>,
                       event |-> NoEvent]
      <4>1. b \in Bookings
        BY <1>1, <3>1 DEF BookForMass, HoldsOK, Plans, Bookings, Statuses, Keys
      <4>2. booking' = booking \/ booking' = [booking EXCEPT ![r] = b]
        BY <3>1 DEF BookForMass
      <4> HIDE DEF b
      <4> QED
        BY <1>1, <4>1, <4>2 DEF TablesOK
    <3>2. CASE LinkBooking(r)
      <4> DEFINE m == <<r, work[r].slot>>
      <4>1. m \in Keys
        BY <1>1, <3>2 DEF LinkBooking, HoldsOK, Plans, Keys
      <4> HIDE DEF m
      <4>2. ASSUME NEW b \in BookingOf(m) PROVE [booking[b] EXCEPT !.event = m] \in Bookings
        BY <1>1, <4>1 DEF BookingOf, Booked, TablesOK, Bookings
      <4>3. booking' = [b \in Requests |-> IF b \in BookingOf(m) THEN [booking[b] EXCEPT !.event = m]
                                           ELSE booking[b]]
        BY <3>2 DEF LinkBooking, m
      <4> QED
        BY <1>1, <4>2, <4>3 DEF TablesOK
    <3>3. CASE CreateMass(r) \/ InsertMass(r) \/ PutOnCalendar(r)
      BY <1>1, <3>3 DEF CreateMass, InsertMass, PutOnCalendar, TablesOK
    <3> QED
      BY <1>4, <3>1, <3>2, <3>3 DEF PlanStep
  <2>2. /\ mass' \in [Keys -> {"none", "plain", "hall", "scheduled"}]
        /\ UNCHANGED <<turns, entries, mobile, site, changed>>
    BY <1>1, <1>4 DEF PlanStep, CreateMass, InsertMass, BookForMass, PutOnCalendar, LinkBooking,
       TablesOK
  <2> QED
    BY <1>1, <1>2, <1>3, <2>1, <2>2 DEF TablesOK
<1>5. CASE HallStep(r)
  <2>1. booking' \in [Requests -> Bookings \cup {NoBooking}] /\ changed' \subseteq Requests \cup Keys
    <3>1. CASE UpdateHallBookingStatus(r)
      <4>1. PICK b \in Booked, t \in Statuses : /\ booking' = [booking EXCEPT ![b].status = t]
                                                /\ changed' \in {changed, changed \cup {b}}
        BY <3>1 DEF UpdateHallBookingStatus
      <4>2. b \in Requests /\ [booking[b] EXCEPT !.status = t] \in Bookings
        BY <1>1 DEF Booked, TablesOK, Bookings
      <4> QED
        BY <1>1, <4>1, <4>2 DEF TablesOK
    <3>2. CASE CreateHallBooking(r) \/ BookingEvent(r)
      BY <1>1, <3>2 DEF CreateHallBooking, BookingEvent, TablesOK
    <3>3. CASE BookHall(r)
      <4>1. \/ UNCHANGED booking
            \/ \E m \in Keys \cup {NoMass} : booking' = [booking EXCEPT ![r] = [work[r] EXCEPT !.mass = m]]
        BY <3>3 DEF BookHall
      <4>2. \A m \in Keys \cup {NoMass} : [work[r] EXCEPT !.mass = m] \in Bookings
        BY <1>1, <3>3 DEF BookHall, HoldsOK, Bookings
      <4> QED
        BY <1>1, <3>3, <4>1, <4>2 DEF BookHall, TablesOK
    <3> QED
      BY <1>5, <3>1, <3>2, <3>3 DEF HallStep
  <2>2. UNCHANGED <<turns, entries, mobile, site, mass>>
    BY <1>5 DEF HallStep, CreateHallBooking, BookingEvent, BookHall, UpdateHallBookingStatus
  <2> QED
    BY <1>1, <1>2, <1>3, <2>1, <2>2 DEF TablesOK
<1>6. CASE EventStep(r)
  <2>1. changed' \subseteq Requests \cup Keys
    <3>1. changed' = changed \/ \E k \in Written : changed' = changed \cup {k}
      BY <1>1, <1>6 DEF EventStep, CreateCalendarEvent, UpdateCalendarEvent, WriteEvent,
                        SyncCalendarToWebsite, DeleteCalendarEvent, HoldsOK
    <3> QED
      BY <1>1, <3>1 DEF TablesOK, Written
  <2>2. site' \in [Keys -> Nat] /\ UNCHANGED <<turns, entries, mobile, mass, booking>>
    BY <1>1, <1>6 DEF EventStep, CreateCalendarEvent, UpdateCalendarEvent, WriteEvent,
                      SyncCalendarToWebsite, DeleteCalendarEvent, TablesOK, HoldsOK, Written
  <2> QED
    BY <1>1, <1>2, <1>3, <2>1, <2>2 DEF TablesOK
<1>7. CASE ScheduleStep(r)
  <2>1. /\ turns' \in Nat /\ entries' \subseteq Rows /\ mobile' \in Copies
        /\ mass' \in [Keys -> {"none", "plain", "hall", "scheduled"}]
        /\ UNCHANGED <<site, booking, changed>>
    BY <1>1, <1>7 DEF ScheduleStep, SyncCalendar, NextHour, SyncEvent, SyncMass, EditSchedule,
       Edited,
                      ReadEntries, UpsertConfig, Abort, HoldsOK, Hours, TablesOK
  <2> QED
    BY <1>1, <1>2, <1>3, <2>1 DEF TablesOK
<1> QED
  BY <1>4, <1>5, <1>6, <1>7 DEF Query

\* A step is a turn of the season or a query of a request.
LEMMA Steps == Next <=> TurnSeason \/ \E r \in Requests : Query(r)
  BY DEF Next, Query, PlanStep, HallStep, EventStep, ScheduleStep

\* Every step keeps the types.
LEMMA TypeStep == ASSUME TypeOK, [Next]_vars PROVE TypeOK'
<1>1. CASE UNCHANGED vars
  BY <1>1 DEF vars, schedule, diary, lag, history, TypeOK, TablesOK, HoldsOK, Written, Reading
<1>3. CASE TurnSeason
  <2>1. TablesOK'
    BY <1>3 DEF TurnSeason, diary, TypeOK, TablesOK, Reading
  <2>2. \A r \in Requests : HoldsOK(r)'
    BY <1>3 DEF TurnSeason, diary, TypeOK, HoldsOK, Written
  <2> QED
    BY <1>3, <2>1, <2>2 DEF TurnSeason, TypeOK
<1>2. ASSUME NEW r \in Requests, Query(r)
      PROVE  TypeOK'
  BY <1>2, Moved, RowsTyped, EventsKept, MovesKeep
<1> QED
  BY <1>1, <1>2, <1>3, Steps

\* Rows and locals keep their types for any requests and hours.
THEOREM TypeCorrect == Spec => []TypeOK
  BY InitType, TypeStep, PTL DEF Spec

-----------------------------------------------------------------------------
\* What a query leaves alone: the other requests, and the past.
LEMMA Frame ==
  ASSUME TypeOK, NEW r \in Requests, Query(r)
  PROVE  /\ pc[r] \notin {"done", "failed"} /\ pc'[r] # "idle"
         /\ \A q \in Requests \ {r} : pc'[q] = pc[q] /\ work'[q] = work[q] /\ before'[q] = before[q]
         /\ before'[r] \in {before[r], Ended} /\ (pc[r] # "idle" => before'[r] = before[r])
         /\ changed \subseteq changed' /\ cut \subseteq cut'
<1>1. PICK s, w : Moves(r, s, w)
  BY Moved
<1>2. \A q \in Requests \ {r} : pc'[q] = pc[q] /\ work'[q] = work[q]
  BY <1>1 DEF Moves, TypeOK
<1>3. /\ pc[r] \notin {"done", "failed"} /\ changed \subseteq changed' /\ cut \subseteq cut'
      /\ \/ UNCHANGED before
         \/ pc[r] = "idle" /\ before' = [before EXCEPT ![r] = Ended]
  BY DEF Query, PlanStep, HallStep, EventStep, ScheduleStep, CreateMass, InsertMass, BookForMass,
         PutOnCalendar, LinkBooking, CreateHallBooking, BookingEvent, BookHall,
         UpdateHallBookingStatus, CreateCalendarEvent, UpdateCalendarEvent, WriteEvent,
         SyncCalendarToWebsite, DeleteCalendarEvent, SyncCalendar, NextHour, SyncEvent,
         SyncMass, EditSchedule, ReadEntries, UpsertConfig, Abort, Begin, Start, history, lag
<1>4. /\ \A q \in Requests \ {r} : before'[q] = before[q]
      /\ before'[r] \in {before[r], Ended} /\ (pc[r] # "idle" => before'[r] = before[r])
  BY <1>3 DEF TypeOK, TablesOK
<1>5. pc'[r] # "idle"
  BY DEF Query, PlanStep, HallStep, EventStep, ScheduleStep, CreateMass, InsertMass, BookForMass,
         PutOnCalendar, LinkBooking, CreateHallBooking, BookingEvent, BookHall,
         UpdateHallBookingStatus, CreateCalendarEvent, UpdateCalendarEvent, WriteEvent,
         SyncCalendarToWebsite, DeleteCalendarEvent, SyncCalendar, NextHour, SyncEvent,
         SyncMass, EditSchedule, ReadEntries, UpsertConfig, Abort, Goto, End, Fail, TypeOK
<1> QED
  BY <1>2, <1>3, <1>4, <1>5

\* What a query may do to the bookings: write its own at the hour it looked for, or change
\* what stands, the status by hand only.
LEMMA BookingRows ==
  ASSUME TypeOK, NEW r \in Requests, Query(r)
  PROVE  \/ /\ pc[r] \in {"massBooking", "book"} /\ pc'[r] \in {"massEvent", "done"}
            /\ \E b \in Bookings : b.slot = work[r].slot /\ booking' = [booking EXCEPT ![r] = b]
         \/ \A b \in Requests :
              /\ booking'[b] = NoBooking <=> booking[b] = NoBooking
              /\ booking[b] # NoBooking =>
                   /\ booking'[b].slot = booking[b].slot /\ booking'[b].mass = booking[b].mass
                   /\ booking'[b].status = booking[b].status \/ b \in changed'
<1>1. HoldsOK(r) /\ TablesOK
  BY DEF TypeOK
<1>2. CASE BookForMass(r)
  <2> DEFINE b == [slot |-> work[r].slot, status |-> "CONFIRMED", mass |-> <<r, work[r].slot>>,
                   event |-> NoEvent]
  <2>1. b \in Bookings /\ b.slot = work[r].slot
    BY <1>1, <1>2 DEF BookForMass, HoldsOK, Plans, Bookings, Statuses, Keys
  <2>2. \/ booking' = booking
        \/ booking' = [booking EXCEPT ![r] = b] /\ pc[r] = "massBooking" /\ pc'[r] \in {"massEvent", "done"}
    BY <1>2 DEF BookForMass, Goto, End, TypeOK
  <2> HIDE DEF b
  <2> QED
    BY <2>1, <2>2
<1>3. CASE BookHall(r)
  <2>1. \A m \in Keys \cup {NoMass} : /\ [work[r] EXCEPT !.mass = m] \in Bookings
                                     /\ [work[r] EXCEPT !.mass = m].slot = work[r].slot
    BY <1>1, <1>3 DEF BookHall, HoldsOK, Bookings
  <2>2. pc[r] = "book" /\ (pc'[r] = "done" \/ UNCHANGED booking)
    BY <1>3 DEF BookHall, Goto, End, TypeOK
  <2>3. \/ UNCHANGED booking
        \/ \E m \in Keys \cup {NoMass} : booking' = [booking EXCEPT ![r] = [work[r] EXCEPT !.mass = m]]
    BY <1>3 DEF BookHall
  <2> QED
    BY <2>1, <2>2, <2>3
<1>4. CASE LinkBooking(r)
  <2> DEFINE m == <<r, work[r].slot>>
  <2>1. m \in Keys
    BY <1>1, <1>4 DEF LinkBooking, HoldsOK, Plans, Keys
  <2>2. booking' = [b \in Requests |-> IF b \in BookingOf(m) THEN [booking[b] EXCEPT !.event = m]
                                       ELSE booking[b]]
    BY <1>4 DEF LinkBooking
  <2> HIDE DEF m
  <2>3. ASSUME NEW b \in BookingOf(m)
        PROVE  /\ [booking[b] EXCEPT !.event = m] \in Bookings /\ booking[b] # NoBooking
               /\ [booking[b] EXCEPT !.event = m].slot = booking[b].slot
               /\ [booking[b] EXCEPT !.event = m].mass = booking[b].mass
               /\ [booking[b] EXCEPT !.event = m].status = booking[b].status
    BY <1>1, <2>1 DEF BookingOf, Booked, TablesOK, Bookings
  <2> QED
    BY <2>2, <2>3, NullsAssumption
<1>5. CASE UpdateHallBookingStatus(r)
  <2>1. PICK b \in Booked, t \in Statuses : /\ booking' = [booking EXCEPT ![b].status = t]
                                            /\ t # booking[b].status => changed' = changed \cup {b}
    BY <1>5 DEF UpdateHallBookingStatus
  <2>2. /\ b \in Requests /\ [booking[b] EXCEPT !.status = t] \in Bookings
        /\ [booking[b] EXCEPT !.status = t].slot = booking[b].slot
        /\ [booking[b] EXCEPT !.status = t].mass = booking[b].mass
    BY <1>1 DEF Booked, TablesOK, Bookings
  <2> QED
    BY <1>1, <2>1, <2>2, NullsAssumption DEF TablesOK, Booked
<1>6. CASE UNCHANGED booking
  BY <1>6
<1> QED
  BY <1>2, <1>3, <1>4, <1>5, <1>6
     DEF Query, PlanStep, HallStep, EventStep, ScheduleStep, CreateMass, InsertMass, PutOnCalendar,
         CreateHallBooking, BookingEvent, CreateCalendarEvent, UpdateCalendarEvent, WriteEvent,
         SyncCalendarToWebsite, DeleteCalendarEvent, SyncCalendar, NextHour, SyncEvent,
         SyncMass, EditSchedule, ReadEntries, UpsertConfig, Abort, diary

\* The stages of the calls that write Masses, once the first query is done.
PlanStages == {"massBooking", "massEvent", "link"}
SyncStages == {"sync", "syncEvent", "syncMass", "config", "upsert"}

\* A request stays in the call it serves, and looks at the Masses by the queries of its own.
LEMMA MassRows ==
  ASSUME TypeOK, NEW r \in Requests, Query(r)
  PROVE  /\ pc[r] \in PlanStages => pc'[r] \in PlanStages \cup {"done", "failed"}
         /\ pc[r] \in SyncStages => pc'[r] \in SyncStages \cup {"done", "failed"}
         /\ \/ UNCHANGED mass
            \/ /\ pc[r] = "mass" /\ InsertMass(r) /\ pc'[r] \in PlanStages \cup {"done"}
               /\ \E v \in {"hall", "plain"} :
                    /\ mass' = [mass EXCEPT ![<<r, work[r].slot>>] = v]
                    /\ v = "hall" => pc'[r] = "massBooking" /\ work'[r].slot = work[r].slot
            \/ /\ pc[r] = "syncMass" /\ SyncMass(r) /\ pc'[r] = "sync"
               /\ mass' = [mass EXCEPT ![<<r, work[r].hour>>] = "scheduled"]
<1> USE DEF Begin, Start, Goto, Hold, End, Fail, PlanStages, SyncStages, schedule, diary, lag, history
<1>1. CASE InsertMass(r)
  BY <1>1 DEF InsertMass, TypeOK
<1>2. CASE SyncMass(r)
  BY <1>2 DEF SyncMass, TypeOK
<1>3. CASE \/ CreateMass(r) \/ BookForMass(r) \/ PutOnCalendar(r) \/ LinkBooking(r)
           \/ HallStep(r) \/ EventStep(r)
           \/ SyncCalendar(r) \/ NextHour(r) \/ SyncEvent(r) \/ EditSchedule(r)
           \/ ReadEntries(r) \/ UpsertConfig(r) \/ Abort(r)
  BY <1>3 DEF HallStep, EventStep, CreateMass, BookForMass, PutOnCalendar, LinkBooking,
         CreateHallBooking, BookingEvent, BookHall, UpdateHallBookingStatus,
         CreateCalendarEvent, UpdateCalendarEvent, WriteEvent, SyncCalendarToWebsite,
         DeleteCalendarEvent, SyncCalendar, NextHour, SyncEvent, EditSchedule, ReadEntries,
         UpsertConfig, Abort, TypeOK
<1> QED
  BY <1>1, <1>2, <1>3 DEF Query, PlanStep, ScheduleStep

\* The Mass a query writes is of its own request and at an hour.
LEMMA MassKey ==
  ASSUME TypeOK, NEW r \in Requests
  PROVE  /\ pc[r] \in {"mass", "massBooking", "massEvent", "link"} => work[r].slot \in Slots
         /\ pc[r] \in {"syncEvent", "syncMass"} => work[r].hour \in Slots
<1>1. HoldsOK(r)
  BY DEF TypeOK
<1>2. pc[r] \in {"mass", "massBooking", "massEvent", "link"} => work[r].slot \in Slots
  BY <1>1 DEF HoldsOK, Plans
<1>3. pc[r] \in {"syncEvent", "syncMass"} => work[r].hour \in Slots
  BY <1>1 DEF HoldsOK, Hours
<1> QED
  BY <1>2, <1>3

\* A request that wrote has written: rows of Masses and bookings do not go away.
LEMMA RowsStay ==
  ASSUME TypeOK, NEW r \in Requests, Query(r),
         NEW q \in Requests, q # r, Wrote(q)
  PROVE  Wrote(q)'
<1>1. TablesOK
  BY DEF TypeOK
<1>2. CASE booking[q] # NoBooking
  <2>1. booking'[q] # NoBooking
    <3>1. CASE \E b \in Bookings : booking' = [booking EXCEPT ![r] = b]
      BY <1>1, <1>2, <3>1 DEF TablesOK
    <3>2. CASE \A b \in Requests : booking'[b] = NoBooking <=> booking[b] = NoBooking
      BY <1>2, <3>2
    <3> QED
      BY <3>1, <3>2, BookingRows
  <2> QED
    BY <2>1 DEF Wrote
<1>3. ASSUME NEW s \in Slots, mass[<<q, s>>] # "none" PROVE mass'[<<q, s>>] # "none"
  BY <1>1, <1>3, MassRows, MassKey DEF TablesOK, Keys
<1> QED
  BY <1>2, <1>3 DEF Wrote

\* Who had ended when a request began has ended.
Past == \A r \in Requests : before[r] \subseteq Ended

\* A request that began earlier than another ended stays so.
LEMMA PastStep ==
  ASSUME TypeOK, Past, NEW r \in Requests, Query(r)
  PROVE  /\ Past' /\ r \notin Ended /\ Ended \subseteq Ended'
         /\ \A q \in Requests : r \notin before[q]
         /\ \A q, o \in Requests : pc[q] # "idle" /\ pc[o] # "idle" /\ Overlapped(q, o) => Overlapped(q, o)'
<1>1. r \notin Ended /\ Ended \subseteq Ended'
  BY Frame, RowsStay DEF Ended
<1>2. Past'
  BY <1>1, Frame DEF Past
<1>3. \A q \in Requests : r \notin before[q]
  BY <1>1 DEF Past
<1>4. \A q, o \in Requests : pc[q] # "idle" /\ pc[o] # "idle" /\ Overlapped(q, o) => Overlapped(q, o)'
  BY Frame DEF Overlapped
<1> QED
  BY <1>1, <1>2, <1>3, <1>4

\* A request that has looked for the hall, or means to book it for its Mass.
AtHall(r) == (pc[r] = "mass" /\ work[r].hall) \/ pc[r] \in {"massBooking", "bookingEvent", "book"}

\* The hall was free when it looked: who held the hour before is cancelled, or was set by
\* hand since.
Clear ==
  \A r \in Requests : AtHall(r) =>
    \A b \in Booked \cap before[r] :
      booking[b].slot = work[r].slot => booking[b].status = "CANCELLED" \/ b \in changed

\* A request has written no booking before it does.
Unbooked == \A r \in Requests :
  pc[r] \in {"idle", "mass", "massBooking", "bookingEvent", "book"} => booking[r] = NoBooking

\* A request comes to the hall with nobody there, or was there already.
LEMMA HallLooked ==
  ASSUME TypeOK, NEW r \in Requests, Query(r)
  PROVE  /\ AtHall(r)' => \/ pc[r] = "idle" /\ ~Conflict(work'[r].slot) /\ UNCHANGED booking
                          \/ AtHall(r) /\ pc[r] # "idle" /\ work'[r].slot = work[r].slot
         /\ pc'[r] \in {"mass", "massBooking", "bookingEvent", "book"} =>
              pc[r] \in {"idle", "mass", "massBooking", "bookingEvent", "book"} /\ UNCHANGED booking
<1> USE DEF Begin, Start, Goto, Hold, End, Fail, schedule, diary, lag, history
<1>1. HoldsOK(r)
  BY DEF TypeOK
<1>2. CASE CreateMass(r)
  BY <1>2 DEF CreateMass, AtHall, TypeOK
<1>3. CASE CreateHallBooking(r)
  BY <1>3 DEF CreateHallBooking, AtHall, TypeOK
<1>4. CASE InsertMass(r)
  BY <1>4 DEF InsertMass, AtHall, TypeOK
<1>5. CASE BookingEvent(r)
  BY <1>1, <1>5 DEF BookingEvent, HoldsOK, Bookings, AtHall, TypeOK
<1>6. CASE \/ BookForMass(r) \/ PutOnCalendar(r) \/ LinkBooking(r) \/ BookHall(r)
           \/ UpdateHallBookingStatus(r) \/ EventStep(r) \/ ScheduleStep(r)
  BY <1>6 DEF EventStep, ScheduleStep, BookForMass, PutOnCalendar, LinkBooking, BookHall,
         UpdateHallBookingStatus, CreateCalendarEvent, UpdateCalendarEvent, WriteEvent,
         SyncCalendarToWebsite, DeleteCalendarEvent, SyncCalendar, NextHour, SyncEvent,
         SyncMass, EditSchedule, ReadEntries, UpsertConfig, Abort, AtHall, TypeOK
<1> QED
  BY <1>2, <1>3, <1>4, <1>5, <1>6 DEF Query, PlanStep, HallStep

\* Two bookings of one hour are of requests that overlapped, or were set by hand.
LEMMA HallStepKeeps ==
  ASSUME TypeOK, Past, Clear, Unbooked, HallGivenOnce, NEW r \in Requests, Query(r)
  PROVE  Clear' /\ Unbooked' /\ HallGivenOnce'
<1> DEFINE Writes == /\ pc[r] \in {"massBooking", "book"} /\ pc'[r] \in {"massEvent", "done"}
                     /\ \E b \in Bookings : b.slot = work[r].slot /\ booking' = [booking EXCEPT ![r] = b]
           Keeps == \A b \in Requests :
              /\ booking'[b] = NoBooking <=> booking[b] = NoBooking
              /\ booking[b] # NoBooking =>
                   /\ booking'[b].slot = booking[b].slot /\ booking'[b].mass = booking[b].mass
                   /\ booking'[b].status = booking[b].status \/ b \in changed'
<1>1. Writes \/ Keeps
  BY BookingRows
<1>2. \A b \in Requests : b # r => \/ booking'[b] = booking[b]
                                   \/ Keeps
  BY <1>1 DEF TypeOK, TablesOK
<1>3. /\ pc[r] \notin {"done", "failed"} /\ changed \subseteq changed'
      /\ \A q \in Requests \ {r} : pc'[q] = pc[q] /\ work'[q] = work[q] /\ before'[q] = before[q]
      /\ before'[r] \in {before[r], Ended} /\ (pc[r] # "idle" => before'[r] = before[r])
  BY Frame
<1>4. \A q \in Requests : r \notin before[q]
  BY PastStep
<1>5. Unbooked'
  <2> SUFFICES ASSUME NEW q \in Requests,
                      pc'[q] \in {"idle", "mass", "massBooking", "bookingEvent", "book"}
               PROVE  booking'[q] = NoBooking
    BY DEF Unbooked
  <2>1. CASE q = r
    BY <2>1, HallLooked, Frame DEF Unbooked
  <2>2. CASE q # r
    BY <1>2, <1>3, <2>2 DEF Unbooked
  <2> QED
    BY <2>1, <2>2
<1>6. Clear'
  <2> SUFFICES ASSUME NEW q \in Requests, AtHall(q)', NEW b \in Booked', b \in before'[q],
                      booking'[b].slot = work'[q].slot
               PROVE  booking'[b].status = "CANCELLED" \/ b \in changed'
    BY DEF Clear
  <2>1. b \in Requests
    BY DEF Booked
  <2>2. CASE q = r /\ pc[r] = "idle"
    <3>1. ~Conflict(work'[r].slot) /\ booking' = booking
      BY <2>2, HallLooked DEF AtHall
    <3>2. booking[b].status \in Statuses /\ b \in Booked
      BY <2>1, <3>1 DEF TypeOK, TablesOK, Booked, Bookings
    <3> QED
      BY <2>2, <3>1, <3>2 DEF Conflict, Statuses
  <2>3. CASE ~(q = r /\ pc[r] = "idle")
    <3>1. AtHall(q) /\ work'[q].slot = work[q].slot /\ before'[q] = before[q]
      <4>1. CASE q = r
        BY <1>3, <2>3, <4>1, HallLooked
      <4>2. CASE q # r
        BY <1>3, <4>2 DEF AtHall
      <4> QED
        BY <4>1, <4>2
    <3>2. b # r
      BY <1>4, <3>1
    <3>3. CASE booking'[b] = booking[b]
      BY <1>3, <2>1, <3>1, <3>3 DEF Clear, Booked
    <3>4. CASE Keeps
      BY <1>3, <2>1, <3>1, <3>4 DEF Clear, Booked
    <3> QED
      BY <1>2, <2>1, <3>2, <3>3, <3>4
  <2> QED
    BY <2>2, <2>3
<1>7. HallGivenOnce'
  <2> SUFFICES ASSUME NEW a \in Booked', NEW b \in Booked', a # b,
                      booking'[a].slot = booking'[b].slot,
                      booking'[a].status # "CANCELLED", booking'[b].status # "CANCELLED"
               PROVE  Overlapped(a, b)' \/ a \in changed' \/ b \in changed'
    BY DEF HallGivenOnce
  <2>1. a \in Requests /\ b \in Requests
    BY DEF Booked
  <2>2. CASE Keeps
    <3>1. a \in Booked /\ b \in Booked /\ booking[a].slot = booking[b].slot
      BY <2>1, <2>2 DEF Booked
    <3>2. \/ a \in changed' \/ b \in changed'
          \/ booking[a].status # "CANCELLED" /\ booking[b].status # "CANCELLED"
      BY <2>1, <2>2, <3>1 DEF Booked
    <3>3. pc[a] # "idle" /\ pc[b] # "idle"
      BY <3>1 DEF Unbooked, Booked
    <3> QED
      BY <1>3, <2>1, <3>1, <3>2, <3>3, PastStep DEF HallGivenOnce
  <2>3. CASE Writes
    <3>1. PICK n \in Bookings : n.slot = work[r].slot /\ booking' = [booking EXCEPT ![r] = n]
      BY <2>3
    <3>2. ASSUME NEW c \in Requests, c # r, c \in Booked', booking'[c].slot = booking'[r].slot,
                 booking'[c].status # "CANCELLED"
          PROVE  Overlapped(c, r)' \/ c \in changed'
      <4>1. /\ booking'[c] = booking[c] /\ c \in Booked /\ booking'[r] = n
        BY <3>1, <3>2 DEF TypeOK, TablesOK, Booked
      <4>2. pc[r] # "idle" /\ AtHall(r)
        BY <2>3 DEF AtHall
      <4>3. CASE c \in before[r]
        BY <1>3, <3>1, <3>2, <4>1, <4>2, <4>3 DEF Clear
      <4>4. CASE c \notin before[r]
        BY <1>3, <1>4, <3>2, <4>2, <4>4 DEF Overlapped
      <4> QED
        BY <4>3, <4>4
    <3>3. CASE a = r \/ b = r
      BY <2>1, <3>2, <3>3 DEF Overlapped
    <3>4. CASE a # r /\ b # r
      <4>1. a \in Booked /\ b \in Booked /\ booking'[a] = booking[a] /\ booking'[b] = booking[b]
        BY <2>1, <3>1, <3>4 DEF TypeOK, TablesOK, Booked
      <4>2. pc[a] # "idle" /\ pc[b] # "idle"
        BY <4>1 DEF Unbooked, Booked
      <4> QED
        BY <1>3, <2>1, <4>1, <4>2, PastStep DEF HallGivenOnce
    <3> QED
      BY <3>3, <3>4
  <2> QED
    BY <1>1, <2>2, <2>3
<1> QED
  BY <1>5, <1>6, <1>7

-----------------------------------------------------------------------------
\* A Mass is written by the call its request serves, after it began.
MassByCall ==
  \A r \in Requests, s \in Slots :
    /\ mass[<<r, s>>] \in {"plain", "hall"} => pc[r] \in PlanStages \cup {"done", "failed"}
    /\ mass[<<r, s>>] = "scheduled" => pc[r] \in SyncStages \cup {"done", "failed"}

\* A Mass in the hall has its booking, or its request is about to write it.
HallMass ==
  \A r \in Requests, s \in Slots : mass[<<r, s>>] = "hall" =>
    \/ \E b \in BookingOf(<<r, s>>) : b = r => booking[b].slot = s
    \/ pc[r] = "failed"
    \/ pc[r] = "massBooking" /\ work[r].slot = s

\* createMass books the hall for the Mass it wrote there (129-179), or fails.
LEMMA MassStepKeeps ==
  ASSUME TypeOK, Unbooked, MassByCall, HallMass, NEW r \in Requests, Query(r)
  PROVE  MassByCall' /\ HallMass'
<1>1. \A q \in Requests \ {r} : pc'[q] = pc[q] /\ work'[q] = work[q]
  BY Frame
<1>2. mass \in [Keys -> {"none", "plain", "hall", "scheduled"}]
  BY DEF TypeOK, TablesOK
<1>3. ASSUME NEW q \in Requests, NEW s \in Slots, q # r PROVE mass'[<<q, s>>] = mass[<<q, s>>]
  BY <1>2, <1>3, MassRows, MassKey DEF Keys
<1>4. MassByCall'
  <2> SUFFICES ASSUME NEW q \in Requests, NEW s \in Slots
               PROVE  /\ mass'[<<q, s>>] \in {"plain", "hall"} => pc'[q] \in PlanStages \cup {"done", "failed"}
                      /\ mass'[<<q, s>>] = "scheduled" => pc'[q] \in SyncStages \cup {"done", "failed"}
    BY DEF MassByCall
  <2>1. CASE q # r
    BY <1>1, <1>3, <2>1 DEF MassByCall
  <2>2. CASE q = r /\ UNCHANGED mass
    BY <2>2, MassRows, Frame DEF MassByCall
  <2>3. CASE q = r /\ pc[r] = "mass" /\ pc'[r] \in PlanStages \cup {"done"}
             /\ \E v \in {"hall", "plain"} : mass' = [mass EXCEPT ![<<r, work[r].slot>>] = v]
    <3>1. mass[<<r, s>>] = "none"
      BY <1>2, <2>3 DEF MassByCall, PlanStages, SyncStages, Keys
    <3> QED
      BY <1>2, <2>3, <3>1 DEF Keys
  <2>4. CASE q = r /\ pc[r] = "syncMass" /\ pc'[r] = "sync"
             /\ mass' = [mass EXCEPT ![<<r, work[r].hour>>] = "scheduled"]
    <3>1. mass[<<r, s>>] \notin {"plain", "hall"}
      BY <1>2, <2>4 DEF MassByCall, PlanStages
    <3> QED
      BY <1>2, <2>4, <3>1 DEF Keys, SyncStages
  <2> QED
    BY <2>1, <2>2, <2>3, <2>4, MassRows
<1>5. HallMass'
  <2> SUFFICES ASSUME NEW q \in Requests, NEW s \in Slots, mass'[<<q, s>>] = "hall"
               PROVE  \/ \E b \in BookingOf(<<q, s>>)' : b = q => booking'[b].slot = s
                      \/ pc'[q] = "failed"
                      \/ pc'[q] = "massBooking" /\ work'[q].slot = s
    BY DEF HallMass
  <2>1. ASSUME NEW b \in BookingOf(<<q, s>>), b = q => booking[b].slot = s
        PROVE  b \in BookingOf(<<q, s>>)' /\ (b = q => booking'[b].slot = s)
    <3>1. b \in Requests /\ booking[b] # NoBooking
      BY DEF BookingOf, Booked
    <3>2. CASE pc[r] \in {"massBooking", "book"} /\ \E n \in Bookings : booking' = [booking EXCEPT ![r] = n]
      <4>1. b # r
        BY <3>1, <3>2 DEF Unbooked
      <4> QED
        BY <2>1, <3>1, <3>2, <4>1 DEF BookingOf, Booked, TypeOK, TablesOK
    <3>3. CASE booking'[b] # NoBooking /\ booking'[b].slot = booking[b].slot /\ booking'[b].mass = booking[b].mass
      BY <2>1, <3>1, <3>3 DEF BookingOf, Booked
    <3> QED
      BY <3>1, <3>2, <3>3, BookingRows
  <2>2. CASE mass[<<q, s>>] = "hall" /\ ~(q = r /\ pc[r] = "massBooking")
    <3>1. CASE \E b \in BookingOf(<<q, s>>) : b = q => booking[b].slot = s
      BY <2>1, <3>1
    <3>2. CASE pc[q] = "failed" \/ (pc[q] = "massBooking" /\ work[q].slot = s)
      BY <1>1, <2>2, <3>2, Frame
    <3> QED
      BY <2>2, <3>1, <3>2 DEF HallMass
  <2>3. CASE mass[<<q, s>>] = "hall" /\ q = r /\ pc[r] = "massBooking"
    <3>1. CASE \E b \in BookingOf(<<q, s>>) : b = q => booking[b].slot = s
      BY <2>1, <3>1
    <3>2. CASE work[r].slot = s /\ Abort(r)
      BY <2>3, <3>2 DEF Abort, Fail, Goto, TypeOK
    <3>3. CASE work[r].slot = s /\ BookForMass(r)
      <4>1. CASE BookingOf(<<r, s>>) # {}
        BY <2>3, <3>3, <4>1 DEF BookForMass, Fail, Goto, TypeOK
      <4>2. CASE BookingOf(<<r, s>>) = {}
        <5> DEFINE n == [slot |-> s, status |-> "CONFIRMED", mass |-> <<r, s>>, event |-> NoEvent]
        <5>1. booking' = [booking EXCEPT ![r] = n]
          BY <3>3, <4>2 DEF BookForMass
        <5>2. n.slot = s /\ n.mass = <<r, s>> /\ n \in Bookings
          BY DEF Bookings, Statuses, Keys
        <5> HIDE DEF n
        <5>3. booking'[r] = n /\ n # NoBooking
          BY <5>1, <5>2, NullsAssumption DEF TypeOK, TablesOK
        <5> QED
          BY <2>3, <5>2, <5>3 DEF BookingOf, Booked
      <4> QED
        BY <4>1, <4>2
    <3>4. Abort(r) \/ BookForMass(r)
      BY <2>3 DEF Query, PlanStep, HallStep, EventStep, ScheduleStep, CreateMass, InsertMass,
         PutOnCalendar, LinkBooking, CreateHallBooking, BookingEvent, BookHall,
         UpdateHallBookingStatus, CreateCalendarEvent, UpdateCalendarEvent, WriteEvent,
         SyncCalendarToWebsite, DeleteCalendarEvent, SyncCalendar, NextHour, SyncEvent,
         SyncMass, EditSchedule, ReadEntries, UpsertConfig, Begin, Start
    <3> QED
      BY <2>3, <3>1, <3>2, <3>3, <3>4 DEF HallMass
  <2>4. CASE mass[<<q, s>>] # "hall"
    <3>1. q = r
      BY <1>3, <2>4
    <3>2. PICK v \in {"hall", "plain"} :
            /\ mass' = [mass EXCEPT ![<<r, work[r].slot>>] = v] /\ pc[r] = "mass"
            /\ v = "hall" => pc'[r] = "massBooking" /\ work'[r].slot = work[r].slot
      BY <1>2, <2>4, <3>1, MassRows, MassKey DEF Keys
    <3> QED
      BY <1>2, <2>4, <3>1, <3>2, MassKey DEF Keys
  <2> QED
    BY <2>2, <2>3, <2>4
<1> QED
  BY <1>4, <1>5

-----------------------------------------------------------------------------
\* The event stands on the calendar at hour s under the schedule's title, or was moved,
\* retitled or deleted.
Standing(q, s) == \/ event[<<q, s>>] # NoEvent /\ event[<<q, s>>].live /\ event[<<q, s>>].at = s
                  \/ <<q, s>> \in changed

\* An event stands until it is moved, retitled or deleted; no other request writes its row.
LEMMA StandingKept ==
  ASSUME TypeOK, NEW r \in Requests, Query(r),
         NEW q \in Requests, NEW s \in Slots, Standing(q, s),
         q = r => pc[r] \in SyncStages \cup {"done", "failed"}
  PROVE  Standing(q, s)'
<1> USE DEF Begin, Start, Goto, Hold, End, Fail, SyncStages, schedule, diary, lag, history
<1> DEFINE k == <<q, s>>
<1>1. k \in Keys
  BY DEF Keys
<1>2. HoldsOK(r) /\ event \in [Keys -> Events \cup {NoEvent}] /\ changed \subseteq changed'
  BY Frame DEF TypeOK, TablesOK
<1>3. CASE event'[k] = event[k]
  BY <1>2, <1>3 DEF Standing
<1>4. CASE k \in changed'
  BY <1>4 DEF Standing
<1>5. CASE SyncEvent(r)
  <2>1. event' = [event EXCEPT ![<<r, work[r].hour>>] = [at |-> work[r].hour, live |-> TRUE, web |-> TRUE]]
    BY <1>5 DEF SyncEvent
  <2>2. [at |-> work[r].hour, live |-> TRUE, web |-> TRUE] \in Events
    BY <1>2, <1>5 DEF SyncEvent, HoldsOK, Events
  <2>3. CASE k = <<r, work[r].hour>>
    BY <1>1, <1>2, <2>1, <2>2, <2>3, NullsAssumption DEF Standing
  <2>4. CASE k # <<r, work[r].hour>>
    BY <1>1, <1>2, <1>3, <2>1, <2>4
  <2> QED
    BY <2>3, <2>4
<1>6. CASE WriteEvent(r)
  <2> DEFINE j == work[r].key
  <2>1. PICK at \in Slots \cup {NoSlot}, w \in BOOLEAN :
          /\ event' = [event EXCEPT ![j].at = at, ![j].web = w]
          /\ changed' = IF at # event[j].at THEN changed \cup {j} ELSE changed
    BY <1>6 DEF WriteEvent
  <2>2. j \in Keys /\ event[j] \in Events
    BY <1>2, <1>6, NullsAssumption DEF WriteEvent, HoldsOK, Written
  <2> HIDE DEF j
  <2>3. CASE k = j
    <3>1. /\ event'[k].live = event[k].live /\ event'[k].at = at
          /\ event'[k] = [event[k] EXCEPT !.at = at, !.web = w]
      BY <1>2, <2>1, <2>2, <2>3 DEF Events
    <3>2. event'[k] \in Events
      BY <2>2, <2>3, <3>1 DEF Events
    <3> QED
      BY <1>4, <2>1, <2>3, <3>1, <3>2, NullsAssumption DEF Standing
  <2>4. CASE k # j
    BY <1>1, <1>2, <1>3, <2>1, <2>2, <2>4
  <2> QED
    BY <2>3, <2>4
<1>7. CASE DeleteCalendarEvent(r)
  <2>1. PICK j \in Written : event' = [event EXCEPT ![j].live = FALSE] /\ changed' = changed \cup {j}
    BY <1>7 DEF DeleteCalendarEvent
  <2> QED
    BY <1>1, <1>2, <1>3, <1>4, <2>1
<1>8. CASE PutOnCalendar(r) \/ BookingEvent(r) \/ CreateCalendarEvent(r)
  <2>1. q # r
    BY <1>8 DEF PutOnCalendar, BookingEvent, CreateCalendarEvent
  <2>2. \E t, e : event' = [event EXCEPT ![<<r, t>>] = e]
    BY <1>8 DEF PutOnCalendar, BookingEvent, CreateCalendarEvent
  <2> QED
    BY <1>1, <1>2, <1>3, <2>1, <2>2
<1>9. CASE UNCHANGED event
  BY <1>3, <1>9
<1> QED
  BY <1>5, <1>6, <1>7, <1>8, <1>9
     DEF Query, PlanStep, HallStep, EventStep, ScheduleStep, CreateMass, InsertMass, BookForMass, LinkBooking,
         CreateHallBooking, BookHall, UpdateHallBookingStatus, UpdateCalendarEvent,
         SyncCalendarToWebsite, SyncCalendar, NextHour, SyncMass, EditSchedule, ReadEntries,
         UpsertConfig, Abort

\* A scheduled Mass has its event, and so has one about to be written.
Shown ==
  \A r \in Requests, s \in Slots :
    mass[<<r, s>>] = "scheduled" \/ (pc[r] = "syncMass" /\ work[r].hour = s) => Standing(r, s)

\* A run that goes to write an hour found no event of an earlier run there.
Unseen ==
  \A r \in Requests : pc[r] \in {"syncEvent", "syncMass"} =>
    \A q \in before[r] : mass[<<q, work[r].hour>>] = "scheduled" => <<q, work[r].hour>> \in changed

\* How a run comes to write an hour: it looked, and wrote the event before the Mass.
LEMMA HourTaken ==
  ASSUME TypeOK, NEW r \in Requests, Query(r)
  PROVE  /\ pc'[r] = "syncEvent" =>
              pc[r] = "sync" /\ ~OnCalendar(work'[r].hour) /\ UNCHANGED <<event, mass>>
         /\ pc'[r] = "syncMass" =>
              pc[r] = "syncEvent" /\ SyncEvent(r) /\ work'[r].hour = work[r].hour /\ UNCHANGED mass
<1> USE DEF Begin, Start, Goto, Hold, End, Fail, schedule, diary, lag, history
<1>1. CASE NextHour(r)
  BY <1>1 DEF NextHour, TypeOK
<1>2. CASE SyncEvent(r)
  BY <1>2 DEF SyncEvent, TypeOK
<1>3. CASE \/ PlanStep(r) \/ HallStep(r) \/ EventStep(r)
           \/ SyncCalendar(r) \/ SyncMass(r) \/ EditSchedule(r)
           \/ ReadEntries(r) \/ UpsertConfig(r) \/ Abort(r)
  BY <1>3 DEF PlanStep, HallStep, EventStep, CreateMass, InsertMass, BookForMass, PutOnCalendar,
         LinkBooking, CreateHallBooking, BookingEvent, BookHall, UpdateHallBookingStatus,
         CreateCalendarEvent, UpdateCalendarEvent, WriteEvent, SyncCalendarToWebsite,
         DeleteCalendarEvent, SyncCalendar, SyncMass, EditSchedule, ReadEntries,
         UpsertConfig, Abort, TypeOK
<1> QED
  BY <1>1, <1>2, <1>3 DEF Query, ScheduleStep

\* A run of syncCalendar (256-299) writes an hour that an earlier one wrote only after the
\* event of the first was moved, retitled or deleted.
LEMMA ScheduleStepKeeps ==
  ASSUME TypeOK, Past, MassByCall, Shown, Unseen, ScheduledOnce, NEW r \in Requests, Query(r)
  PROVE  Shown' /\ Unseen' /\ ScheduledOnce'
<1>1. /\ \A q \in Requests \ {r} : pc'[q] = pc[q] /\ work'[q] = work[q] /\ before'[q] = before[q]
      /\ before'[r] \in {before[r], Ended} /\ (pc[r] # "idle" => before'[r] = before[r])
      /\ pc[r] \notin {"done", "failed"} /\ changed \subseteq changed'
  BY Frame
<1>2. \A q \in Requests : r \notin before[q]
  BY PastStep
<1>3. mass \in [Keys -> {"none", "plain", "hall", "scheduled"}] /\ before \in [Requests -> SUBSET Requests]
  BY DEF TypeOK, TablesOK
<1>4. ASSUME NEW q \in Requests, NEW s \in Slots, mass'[<<q, s>>] = "scheduled"
      PROVE  mass[<<q, s>>] = "scheduled" \/ (q = r /\ s = work[r].hour /\ pc[r] = "syncMass")
  <2>1. CASE UNCHANGED mass
    BY <1>4, <2>1
  <2>2. CASE pc[r] = "mass" /\ \E v \in {"hall", "plain"} : mass' = [mass EXCEPT ![<<r, work[r].slot>>] = v]
    <3>1. <<q, s>> \in Keys /\ <<r, work[r].slot>> \in Keys
      BY <2>2, MassKey DEF Keys
    <3> QED
      BY <1>3, <1>4, <2>2, <3>1
  <2>3. CASE pc[r] = "syncMass" /\ mass' = [mass EXCEPT ![<<r, work[r].hour>>] = "scheduled"]
    <3>1. <<q, s>> \in Keys /\ <<r, work[r].hour>> \in Keys
      BY <2>3, MassKey DEF Keys
    <3> QED
      BY <1>3, <1>4, <2>3, <3>1
  <2> QED
    BY <2>1, <2>2, <2>3, MassRows
<1>5. \A q \in Requests \ {r} : work'[q].hour = work[q].hour
  BY <1>1
<1>6. Shown'
  <2> SUFFICES ASSUME NEW q \in Requests, NEW s \in Slots,
                      mass'[<<q, s>>] = "scheduled" \/ (pc'[q] = "syncMass" /\ work'[q].hour = s)
               PROVE  Standing(q, s)'
    BY DEF Shown
  <2>1. CASE mass[<<q, s>>] = "scheduled" \/ (pc[q] = "syncMass" /\ work[q].hour = s)
    <3>1. q = r => pc[r] \in SyncStages \cup {"done", "failed"}
      BY <2>1 DEF MassByCall, SyncStages
    <3>2. Standing(q, s)
      BY <2>1 DEF Shown
    <3> QED
      BY <3>1, <3>2, StandingKept
  <2>2. CASE q = r /\ SyncEvent(r) /\ work[r].hour = s
    <3>1. /\ event' = [event EXCEPT ![<<r, s>>] = [at |-> s, live |-> TRUE, web |-> TRUE]]
          /\ <<r, s>> \in Keys /\ [at |-> s, live |-> TRUE, web |-> TRUE] \in Events
      BY <2>2 DEF SyncEvent, Keys, Events
    <3> QED
      BY <2>2, <3>1, NullsAssumption DEF Standing, TypeOK, TablesOK
  <2> QED
    BY <1>1, <1>4, <1>5, <2>1, <2>2, HourTaken
<1>7. Unseen'
  <2> SUFFICES ASSUME NEW q \in Requests, pc'[q] \in {"syncEvent", "syncMass"}, NEW o \in before'[q],
                      mass'[<<o, work'[q].hour>>] = "scheduled"
               PROVE  <<o, work'[q].hour>> \in changed'
    BY DEF Unseen
  <2>1. before'[q] = before[q] /\ pc[q] \in {"sync", "syncEvent", "syncMass"}
    BY <1>1, HourTaken
  <2>2. o \in Requests /\ o # r /\ work'[q].hour \in Slots
    <3>1. work'[q].hour \in Slots
      <4>1. TypeOK'
        BY Moved, RowsTyped, EventsKept, MovesKeep
      <4>2. HoldsOK(q)'
        BY <4>1 DEF TypeOK
      <4> QED
        BY <4>2 DEF HoldsOK
    <3> QED
      BY <1>2, <1>3, <2>1, <3>1
  <2>3. mass[<<o, work'[q].hour>>] = "scheduled"
    BY <1>4, <2>2
  <2>4. CASE pc[q] \in {"syncEvent", "syncMass"}
    <3>1. work'[q].hour = work[q].hour
      BY <1>1, <2>4, HourTaken
    <3> QED
      BY <1>1, <2>1, <2>3, <2>4, <3>1 DEF Unseen
  <2>5. CASE pc[q] = "sync"
    <3>1. q = r /\ ~OnCalendar(work'[r].hour) /\ UNCHANGED event
      BY <1>1, <2>5, HourTaken
    <3>2. Standing(o, work'[r].hour)
      BY <2>2, <2>3, <3>1 DEF Shown
    <3>3. <<o, work'[r].hour>> \in Keys
      BY <2>2, <3>1 DEF Keys
    <3> QED
      BY <1>1, <3>1, <3>2, <3>3 DEF Standing, OnCalendar, Written
  <2> QED
    BY <2>1, <2>4, <2>5
<1>8. ScheduledOnce'
  <2> SUFFICES ASSUME NEW q \in Requests, NEW s \in Slots, mass'[<<q, s>>] = "scheduled",
                      NEW o \in before'[q], mass'[<<o, s>>] = "scheduled"
               PROVE  <<o, s>> \in changed'
    BY DEF ScheduledOnce
  <2>1. o \in Requests /\ o # r
    BY <1>1, <1>2, <1>3, PastStep DEF Ended
  <2>2. mass[<<o, s>>] = "scheduled"
    BY <1>4, <2>1
  <2>3. CASE mass[<<q, s>>] = "scheduled"
    <3>1. pc[q] # "idle"
      BY <2>3 DEF MassByCall, SyncStages
    <3>2. o \in before[q]
      BY <1>1, <3>1
    <3> QED
      BY <1>1, <2>2, <2>3, <3>2 DEF ScheduledOnce
  <2>4. CASE q = r /\ s = work[r].hour /\ pc[r] = "syncMass"
    BY <1>1, <2>2, <2>4 DEF Unseen
  <2> QED
    BY <1>4, <2>3, <2>4
<1> QED
  BY <1>6, <1>7, <1>8

-----------------------------------------------------------------------------
\* An event that is public is on the website, or its copy is on the way or was cut off, or
\* it is the schedule's.
Excused(q, s) ==
  \/ site[<<q, s>>] > 0
  \/ mass[<<q, s>>] = "scheduled"
  \/ pc[q] = "syncMass" /\ work[q].hour = s
  \/ <<q, s>> \in cut
  \/ \E r \in Requests : pc[r] = "publish" /\ work[r].key = <<q, s>>

\* What a request read as public is excused too.
Published ==
  /\ \A q \in Requests, s \in Slots :
       event[<<q, s>>] # NoEvent /\ event[<<q, s>>].web => Excused(q, s)
  /\ \A r \in Requests, q \in Requests, s \in Slots :
       pc[r] = "update" /\ work[r].was /\ work[r].key = <<q, s>> => Excused(q, s)

\* What holds while an event is on its way to the website is made up for when it arrives.
LEMMA ExcusedKept ==
  ASSUME TypeOK, MassByCall, NEW r \in Requests, Query(r),
         NEW q \in Requests, NEW s \in Slots, Excused(q, s)
  PROVE  Excused(q, s)'
<1> USE DEF Begin, Start, Goto, Hold, End, Fail, schedule, diary, lag, history
<1> DEFINE k == <<q, s>>
<1>1. /\ k \in Keys /\ site \in [Keys -> Nat] /\ HoldsOK(r)
      /\ pc \in [Requests -> Stages] /\ mass \in [Keys -> {"none", "plain", "hall", "scheduled"}]
  BY DEF Keys, TypeOK, TablesOK
<1>2. /\ \A o \in Requests \ {r} : pc'[o] = pc[o] /\ work'[o] = work[o]
      /\ pc[r] \notin {"done", "failed"} /\ cut \subseteq cut'
  BY Frame
<1>3. CASE site[k] > 0
  <2>1. CASE SyncCalendarToWebsite(r)
    <3>1. work[r].key \in Keys
      BY <1>1, <2>1 DEF SyncCalendarToWebsite, HoldsOK, Changes
    <3>2. site' = [site EXCEPT ![work[r].key] = @ + 1]
      BY <2>1 DEF SyncCalendarToWebsite
    <3>3. site'[k] > 0
      BY <1>1, <1>3, <3>1, <3>2
    <3> QED
      BY <3>3 DEF Excused
  <2>2. CASE UNCHANGED site
    BY <1>3, <2>2 DEF Excused
  <2> QED
    BY <2>1, <2>2 DEF Query, PlanStep, HallStep, EventStep, ScheduleStep, CreateMass, InsertMass,
       BookForMass,
       PutOnCalendar, LinkBooking, CreateHallBooking, BookingEvent, BookHall, UpdateHallBookingStatus,
       CreateCalendarEvent, UpdateCalendarEvent, WriteEvent, DeleteCalendarEvent, SyncCalendar,
       NextHour, SyncEvent, SyncMass, EditSchedule, ReadEntries, UpsertConfig, Abort
<1>4. CASE mass[k] = "scheduled"
  <2>1. pc[q] \in SyncStages \cup {"done", "failed"}
    BY <1>4 DEF MassByCall
  <2>2. mass'[k] = "scheduled"
    <3>1. CASE UNCHANGED mass
      BY <1>4, <3>1
    <3>2. CASE pc[r] = "mass" /\ \E v \in {"hall", "plain"} : mass' = [mass EXCEPT ![<<r, work[r].slot>>] = v]
      BY <1>1, <1>4, <2>1, <3>2 DEF SyncStages
    <3>3. CASE mass' = [mass EXCEPT ![<<r, work[r].hour>>] = "scheduled"]
      BY <1>1, <1>4, <3>3
    <3> QED
      BY <3>1, <3>2, <3>3, MassRows
  <2> QED
    BY <2>2 DEF Excused
<1>5. CASE pc[q] = "syncMass" /\ work[q].hour = s
  <2>1. CASE q # r
    BY <1>2, <1>5, <2>1 DEF Excused
  <2>2. CASE q = r
    <3>1. SyncMass(r) \/ Abort(r)
      BY <1>5, <2>2 DEF Query, PlanStep, HallStep, EventStep, ScheduleStep, CreateMass, InsertMass,
         BookForMass,
         PutOnCalendar, LinkBooking, CreateHallBooking, BookingEvent, BookHall, UpdateHallBookingStatus,
         CreateCalendarEvent, UpdateCalendarEvent, WriteEvent, SyncCalendarToWebsite, DeleteCalendarEvent,
         SyncCalendar, NextHour, SyncEvent, EditSchedule, ReadEntries, UpsertConfig
    <3>2. SyncMass(r) => mass'[k] = "scheduled"
      BY <1>1, <1>5, <2>2 DEF SyncMass
    <3>3. Abort(r) => k \in cut'
      BY <1>5, <2>2 DEF Abort
    <3> QED
      BY <3>1, <3>2, <3>3 DEF Excused
  <2> QED
    BY <2>1, <2>2
<1>6. ASSUME NEW o \in Requests, pc[o] = "publish", work[o].key = k
      PROVE  Excused(q, s)'
  <2>1. CASE o # r
    BY <1>2, <1>6, <2>1 DEF Excused
  <2>2. CASE o = r
    <3>1. SyncCalendarToWebsite(r) \/ Abort(r)
      BY <1>2, <1>6, <2>2 DEF Query, PlanStep, HallStep, EventStep, ScheduleStep, CreateMass,
         InsertMass, BookForMass,
         PutOnCalendar, LinkBooking, CreateHallBooking, BookingEvent, BookHall, UpdateHallBookingStatus,
         CreateCalendarEvent, UpdateCalendarEvent, WriteEvent, DeleteCalendarEvent,
         SyncCalendar, NextHour, SyncEvent, SyncMass, EditSchedule, ReadEntries, UpsertConfig
    <3>2. ASSUME SyncCalendarToWebsite(r) PROVE site'[k] > 0
      BY <1>1, <1>2, <1>6, <2>2, <3>2 DEF SyncCalendarToWebsite
    <3>3. Abort(r) => k \in cut'
      BY <1>6, <2>2 DEF Abort
    <3> QED
      BY <3>1, <3>2, <3>3 DEF Excused
  <2> QED
    BY <2>1, <2>2
<1>7. CASE k \in cut
  BY <1>2, <1>7 DEF Excused
<1> QED
  BY <1>3, <1>4, <1>5, <1>6, <1>7 DEF Excused

\* An event becomes public on the way to the website, or from the hands of the schedule,
\* and is read as public only when it is.
LEMMA WebRows ==
  ASSUME TypeOK, NEW r \in Requests, Query(r),
         NEW q \in Requests, NEW s \in Slots
  PROVE  /\ event'[<<q, s>>] # NoEvent /\ event'[<<q, s>>].web =>
              \/ event[<<q, s>>] # NoEvent /\ event[<<q, s>>].web
              \/ pc'[r] = "publish" /\ work'[r].key = <<q, s>>
              \/ pc[r] = "update" /\ work[r].was /\ work[r].key = <<q, s>>
              \/ q = r /\ pc'[r] = "syncMass" /\ work'[r].hour = s
         /\ pc'[r] = "update" /\ work'[r].was /\ work'[r].key = <<q, s>> =>
              event[<<q, s>>] # NoEvent /\ event[<<q, s>>].web
<1> USE DEF Begin, Start, Goto, Hold, End, Fail, schedule, diary, lag, history
<1> DEFINE k == <<q, s>>
<1>1. /\ k \in Keys /\ HoldsOK(r) /\ event \in [Keys -> Events \cup {NoEvent}]
      /\ pc \in [Requests -> Stages] /\ work[r] = work[r]
      /\ DOMAIN work = Requests
  BY DEF Keys, TypeOK, TablesOK
<1>2. CASE PutOnCalendar(r)
  <2>1. /\ \E at \in {work[r].slot, NoSlot} :
             event' = [event EXCEPT ![<<r, work[r].slot>>] = [at |-> at, live |-> TRUE, web |-> FALSE]]
        /\ pc'[r] # "update"
    BY <1>1, <1>2 DEF PutOnCalendar
  <2> QED
    BY <1>1, <2>1
<1>3. CASE BookingEvent(r)
  <2>1. /\ event' = [event EXCEPT ![<<r, work[r].slot>>] = [at |-> NoSlot, live |-> TRUE, web |-> FALSE]]
        /\ pc'[r] # "update"
    BY <1>1, <1>3 DEF BookingEvent
  <2> QED
    BY <1>1, <2>1
<1>4. CASE CreateCalendarEvent(r)
  <2>1. PICK t \in Slots, w \in BOOLEAN, at \in Slots \cup {NoSlot} :
          /\ event' = [event EXCEPT ![<<r, t>>] = [at |-> at, live |-> TRUE, web |-> w]]
          /\ \/ /\ w /\ pc' = [pc EXCEPT ![r] = "publish"]
                /\ work' = [work EXCEPT ![r] = [key |-> <<r, t>>, was |-> FALSE]]
             \/ ~w /\ pc' = [pc EXCEPT ![r] = "done"]
    BY <1>4 DEF CreateCalendarEvent
  <2>2. CASE k = <<r, t>>
    BY <1>1, <2>1, <2>2
  <2>3. CASE k # <<r, t>>
    BY <1>1, <2>1, <2>3
  <2> QED
    BY <2>2, <2>3
<1>5. CASE UpdateCalendarEvent(r)
  <2>1. PICK j \in Written : pc' = [pc EXCEPT ![r] = "update"] /\ event' = event
                             /\ work' = [work EXCEPT ![r] = [key |-> j, was |-> event[j].web]]
    BY <1>5 DEF UpdateCalendarEvent
  <2>2. work'[r].key = j /\ work'[r].was = event[j].web
    BY <1>1, <2>1
  <2> QED
    BY <2>1, <2>2 DEF Written
<1>6. CASE WriteEvent(r)
  <2> DEFINE j == work[r].key
  <2>1. PICK at \in Slots \cup {NoSlot}, w \in BOOLEAN :
          /\ event' = [event EXCEPT ![j].at = at, ![j].web = w]
          /\ pc'[r] \in {"publish", "done"} /\ pc[r] = "update"
          /\ w /\ ~work[r].was => pc'[r] = "publish" /\ work' = work
    BY <1>1, <1>6 DEF WriteEvent
  <2>2. j \in Keys /\ event[j] \in Events
    BY <1>1, <1>6, NullsAssumption DEF WriteEvent, HoldsOK, Written
  <2> HIDE DEF j
  <2>3. CASE k = j
    <3>1. event'[k].web = w
      BY <1>1, <2>1, <2>2, <2>3 DEF Events
    <3> QED
      BY <2>1, <2>3, <3>1 DEF j
  <2>4. CASE k # j
    BY <1>1, <2>1, <2>2, <2>4
  <2> QED
    BY <2>3, <2>4
<1>7. CASE DeleteCalendarEvent(r)
  <2>1. PICK j \in Written : event' = [event EXCEPT ![j].live = FALSE] /\ pc'[r] = "done"
    BY <1>1, <1>7 DEF DeleteCalendarEvent
  <2>2. j \in Keys /\ event[j] \in Events /\ event[j] # NoEvent
    BY <1>1 DEF Written
  <2>3. CASE k = j
    <3>1. event'[k].web = event[k].web
      BY <1>1, <2>1, <2>2, <2>3 DEF Events
    <3> QED
      BY <2>1, <2>2, <2>3, <3>1
  <2>4. CASE k # j
    BY <1>1, <2>1, <2>2, <2>4
  <2> QED
    BY <2>3, <2>4
<1>8. CASE SyncEvent(r)
  <2>1. /\ event' = [event EXCEPT ![<<r, work[r].hour>>] = [at |-> work[r].hour, live |-> TRUE, web |-> TRUE]]
        /\ pc'[r] = "syncMass" /\ work'[r].hour = work[r].hour
    BY <1>1, <1>8 DEF SyncEvent
  <2>2. CASE k = <<r, work[r].hour>>
    BY <2>1, <2>2
  <2>3. CASE k # <<r, work[r].hour>>
    BY <1>1, <2>1, <2>3
  <2> QED
    BY <2>2, <2>3
<1>9. CASE UNCHANGED event /\ pc'[r] # "update"
  BY <1>9
<1>10. CASE \/ CreateMass(r) \/ InsertMass(r) \/ BookForMass(r) \/ LinkBooking(r)
            \/ CreateHallBooking(r) \/ BookHall(r) \/ UpdateHallBookingStatus(r) \/ SyncCalendarToWebsite(r)
            \/ SyncCalendar(r) \/ NextHour(r) \/ SyncMass(r) \/ EditSchedule(r) \/ ReadEntries(r)
            \/ UpsertConfig(r) \/ Abort(r)
  <2>1. UNCHANGED event /\ pc'[r] # "update"
    BY <1>1, <1>10 DEF CreateMass, InsertMass, BookForMass, LinkBooking, CreateHallBooking,
       BookHall,
       UpdateHallBookingStatus, SyncCalendarToWebsite, SyncCalendar, NextHour, SyncMass, EditSchedule,
       ReadEntries, UpsertConfig, Abort
  <2> QED
    BY <1>9, <2>1
<1> QED
  BY <1>2, <1>3, <1>4, <1>5, <1>6, <1>7, <1>8, <1>10 DEF Query, PlanStep, HallStep, EventStep, ScheduleStep

\* updateCalendarEvent (1361-1363) puts an event on the website when it becomes public.
LEMMA PublishedKept ==
  ASSUME TypeOK, MassByCall, Published, NEW r \in Requests, Query(r)
  PROVE  Published'
<1>1. \A o \in Requests \ {r} : pc'[o] = pc[o] /\ work'[o] = work[o]
  BY Frame
<1>2. ASSUME NEW q \in Requests, NEW s \in Slots, event'[<<q, s>>] # NoEvent /\ event'[<<q, s>>].web
      PROVE  Excused(q, s)'
  <2>1. CASE Excused(q, s)
    BY <2>1, ExcusedKept
  <2>2. CASE pc'[r] = "publish" /\ work'[r].key = <<q, s>>
    BY <2>2 DEF Excused
  <2>3. CASE q = r /\ pc'[r] = "syncMass" /\ work'[r].hour = s
    BY <2>3 DEF Excused
  <2> QED
    BY <1>2, <2>1, <2>2, <2>3, WebRows DEF Published
<1>3. ASSUME NEW o \in Requests, NEW q \in Requests, NEW s \in Slots,
             pc'[o] = "update" /\ work'[o].was /\ work'[o].key = <<q, s>>
      PROVE  Excused(q, s)'
  <2>1. CASE o = r
    <3>1. event[<<q, s>>] # NoEvent /\ event[<<q, s>>].web
      BY <1>3, <2>1, WebRows
    <3> QED
      BY <3>1, ExcusedKept DEF Published
  <2>2. CASE o # r
    <3>1. pc[o] = "update" /\ work[o].was /\ work[o].key = <<q, s>>
      BY <1>1, <1>3, <2>2
    <3> QED
      BY <3>1, ExcusedKept DEF Published
  <2> QED
    BY <2>1, <2>2
<1> QED
  BY <1>2, <1>3 DEF Published

-----------------------------------------------------------------------------
\* The app shows the schedule there is, or somebody is about to tell it; who is about to
\* write for it read what there is, or another is about to tell it too.
Told ==
  /\ AppShowsSchedule
  /\ \A r \in Requests : pc[r] = "upsert" =>
       work[r] = Now \/ r \in stale \/ \E q \in Requests \ {r} : Telling(q)

\* syncMobileAppConfig (323-384) ends every edit of the schedule.
LEMMA ToldKept ==
  ASSUME TypeOK, Told, NEW r \in Requests, Query(r)
  PROVE  Told'
<1> USE DEF Begin, Start, Goto, Hold, End, Fail, schedule, diary, lag, history
<1>1. /\ \A o \in Requests \ {r} : pc'[o] = pc[o] /\ work'[o] = work[o]
      /\ \A o \in Requests \ {r} : Telling(o)' <=> Telling(o)
  BY Frame DEF Telling
<1>2. DOMAIN pc = Requests /\ DOMAIN work = Requests
  BY DEF TypeOK
<1>3. UNCHANGED <<turns, entries>> => Now' = Now
  BY DEF Now, Current, season
<1>4. CASE EditSchedule(r)
  <2>1. pc[r] = "idle" /\ Telling(r)' /\ pc'[r] # "upsert" /\ UNCHANGED <<turns, mobile, lag>>
    BY <1>2, <1>4 DEF EditSchedule, Telling
  <2> QED
    BY <1>1, <2>1 DEF Told, AppShowsSchedule
<1>5. CASE UpsertConfig(r)
  <2>1. /\ pc[r] = "upsert" /\ mobile' = work[r] /\ Now' = Now /\ pc'[r] = "done"
        /\ stale' = Reading \ {r} /\ lags' = (r \in stale)
    BY <1>2, <1>3, <1>5 DEF UpsertConfig
  <2>2. AppShowsSchedule'
    BY <1>1, <2>1 DEF Told, AppShowsSchedule
  <2>3. \A o \in Requests : pc'[o] = "upsert" => o \in stale'
    BY <1>1, <2>1 DEF Reading
  <2> QED
    BY <2>2, <2>3 DEF Told
<1>6. CASE ReadEntries(r)
  <2>1. /\ pc'[r] = "upsert" /\ work'[r] = Now /\ Now' = Now /\ UNCHANGED <<mobile, stale, lags>>
        /\ Telling(r) /\ Telling(r)'
    BY <1>2, <1>3, <1>6 DEF ReadEntries, Telling
  <2>2. AppShowsSchedule'
    BY <2>1 DEF AppShowsSchedule
  <2>3. ASSUME NEW o \in Requests, pc'[o] = "upsert"
        PROVE  work'[o] = Now' \/ o \in stale' \/ \E q \in Requests \ {o} : Telling(q)'
    BY <1>1, <2>1, <2>3
  <2> QED
    BY <2>2, <2>3 DEF Told
<1>7. CASE Abort(r)
  <2>1. CASE Telling(r)
    <3>1. pc'[r] = "failed" /\ stale' = Reading \ {r} /\ lags'
      BY <1>2, <1>7, <2>1 DEF Abort
    <3>2. \A o \in Requests : pc'[o] = "upsert" => o \in stale'
      BY <1>1, <3>1 DEF Reading
    <3> QED
      BY <3>1, <3>2 DEF Told, AppShowsSchedule
  <2>2. CASE ~Telling(r)
    <3>1. /\ pc'[r] = "failed" /\ Now' = Now /\ UNCHANGED <<mobile, stale>> /\ (lags => lags')
          /\ ~Telling(r)'
      BY <1>2, <1>3, <1>7, <2>2 DEF Abort, Telling
    <3> QED
      BY <1>1, <2>2, <3>1 DEF Told, AppShowsSchedule
  <2> QED
    BY <2>1, <2>2
<1>8. CASE PlanStep(r) \/ HallStep(r) \/ EventStep(r) \/ SyncCalendar(r) \/ NextHour(r) \/ SyncEvent(r) \/ SyncMass(r)
  <2>1. pc[r] \notin {"config", "upsert"} /\ pc'[r] # "upsert" /\ UNCHANGED <<turns, entries, mobile, stale, lags>>
    BY <1>2, <1>8 DEF PlanStep, HallStep, EventStep, CreateMass, InsertMass, BookForMass,
       PutOnCalendar, LinkBooking, CreateHallBooking, BookingEvent, BookHall, UpdateHallBookingStatus,
       CreateCalendarEvent, UpdateCalendarEvent, WriteEvent, SyncCalendarToWebsite, DeleteCalendarEvent,
       SyncCalendar, NextHour, SyncEvent, SyncMass
  <2>2. ~Telling(r) /\ Now' = Now
    BY <1>3, <2>1 DEF Telling
  <2> QED
    BY <1>1, <2>1, <2>2 DEF Told, AppShowsSchedule
<1> QED
  BY <1>4, <1>5, <1>6, <1>7, <1>8 DEF Query, ScheduleStep

\* A turn of the season makes every reading of the schedule an old one.
LEMMA ToldTurns == ASSUME TypeOK, Told, TurnSeason PROVE Told'
<1>1. UNCHANGED <<pc, work>> /\ stale' = Reading /\ lags'
  BY DEF TurnSeason
<1> QED
  BY <1>1 DEF Told, AppShowsSchedule, Reading

-----------------------------------------------------------------------------
\* The inductive invariant: what a request found when it looked still binds the rows that
\* were there before it began.
IInv ==
  /\ TypeOK /\ Past
  /\ Clear /\ Unbooked /\ HallGivenOnce
  /\ MassByCall /\ HallMass
  /\ Shown /\ Unseen /\ ScheduledOnce
  /\ Published /\ Told

\* With empty tables and no request begun, nothing is to be shown.
LEMMA InitIInv == Init => IInv
<1> SUFFICES ASSUME Init PROVE IInv
  OBVIOUS
<1>1. TypeOK
  BY InitType
<1>2. /\ \A r \in Requests : pc[r] = "idle" /\ before[r] = {} /\ booking[r] = NoBooking
      /\ \A r \in Requests, s \in Slots : mass[<<r, s>>] = "none"
      /\ \A r \in Requests, s \in Slots : event[<<r, s>>] = NoEvent
      /\ Booked = {} /\ mobile = Now
  BY DEF Init, Keys, Booked
<1>3. Told
  BY <1>2 DEF Told, AppShowsSchedule
<1> QED
  BY <1>1, <1>2, <1>3 DEF IInv, Published, Past, Clear, AtHall, Unbooked, HallGivenOnce,
     MassByCall, HallMass, Shown, Unseen, ScheduledOnce

\* What the inductive invariant says of the diary is not the season's affair.
LEMMA DiaryStays ==
  ASSUME IInv, UNCHANGED <<diary, pc, work, before, changed, cut>>, TypeOK', Told'
  PROVE  IInv'
<1> USE DEF diary
<1>1. (Past /\ Clear /\ Unbooked /\ HallGivenOnce)'
  BY DEF IInv, Past, Ended, Wrote, Clear, AtHall, Booked, Unbooked, HallGivenOnce, Overlapped
<1>2. (MassByCall /\ HallMass)'
  <2>1. \A m : BookingOf(m)' = BookingOf(m)
    BY DEF BookingOf, Booked
  <2>2. MassByCall'
    BY DEF IInv, MassByCall
  <2>3. HallMass'
    BY <2>1 DEF IInv, HallMass
  <2> QED
    BY <2>2, <2>3
<1>3. (Shown /\ Unseen /\ ScheduledOnce)'
  BY DEF IInv, Shown, Standing, Unseen, ScheduledOnce
<1>4. Published'
  <2>1. \A q, s : Excused(q, s)' = Excused(q, s)
    BY DEF Excused
  <2> QED
    BY <2>1 DEF IInv, Published
<1> QED
  BY <1>1, <1>2, <1>3, <1>4 DEF IInv

\* Every step keeps the inductive invariant.
LEMMA NextIInv == IInv /\ [Next]_vars => IInv'
<1> SUFFICES ASSUME IInv, [Next]_vars PROVE IInv'
  OBVIOUS
<1>1. TypeOK'
  BY TypeStep DEF IInv
<1>2. CASE UNCHANGED vars
  <2>1. Told'
    BY <1>2 DEF vars, schedule, history, lag, IInv, Told, AppShowsSchedule, Telling, Now,
       Current, season
  <2> QED
    BY <1>1, <1>2, <2>1, DiaryStays DEF vars, history
<1>3. CASE TurnSeason
  <2>1. Told'
    BY <1>3, ToldTurns DEF IInv
  <2> QED
    BY <1>1, <1>3, <2>1, DiaryStays DEF TurnSeason
<1>4. ASSUME NEW r \in Requests, Query(r)
      PROVE  IInv'
  <2>1. Past'
    BY <1>4, PastStep DEF IInv
  <2>2. Clear' /\ Unbooked' /\ HallGivenOnce'
    BY <1>4, HallStepKeeps DEF IInv
  <2>3. MassByCall' /\ HallMass'
    BY <1>4, MassStepKeeps DEF IInv
  <2>4. Shown' /\ Unseen' /\ ScheduledOnce'
    BY <1>4, ScheduleStepKeeps DEF IInv
  <2>5. Published' /\ Told'
    BY <1>4, PublishedKept, ToldKept DEF IInv
  <2> QED
    BY <1>1, <2>1, <2>2, <2>3, <2>4, <2>5 DEF IInv
<1> QED
  BY <1>2, <1>3, <1>4, Steps

\* The inductive invariant holds of every behaviour.
THEOREM Safety == Spec => []IInv
  BY InitIInv, NextIInv, PTL DEF Spec

\* The hall is given once at an hour, but for requests that overlapped and statuses set by
\* hand: createMass and createHallBooking look before they write (103-125, 813-838).
THEOREM HallsGivenOnce == Spec => []HallGivenOnce
<1>1. IInv => HallGivenOnce
  BY DEF IInv
<1> QED
  BY Safety, <1>1, PTL

\* A Mass in the hall has its booking unless its request was cut (129-179).
THEOREM HallMassesBooked == Spec => []MassHasHall
<1>1. IInv => MassHasHall
  BY DEF IInv, HallMass, MassHasHall
<1> QED
  BY Safety, <1>1, PTL

\* A run of syncCalendar (256-299) writes again what an earlier run wrote only when the
\* event of the first was moved, retitled or deleted: the look-up is by hour and title.
THEOREM HoursScheduledOnce == Spec => []ScheduledOnce
<1>1. IInv => ScheduledOnce
  BY DEF IInv
<1> QED
  BY Safety, <1>1, PTL

\* A public event is on the website, or it is the schedule's, or the request that made it
\* public is about to copy it or was cut before it did (1328-1332, 1361-1363).
THEOREM PublicEventsOnSite == Spec => []PublicOnSite
<1>1. IInv => PublicOnSite
  <2> SUFFICES ASSUME IInv, NEW k \in Written, event[k].web, site[k] = 0
               PROVE  \/ mass[k] = "scheduled" \/ (pc[k[1]] = "syncMass" /\ work[k[1]].hour = k[2])
                      \/ k \in cut
                      \/ \E r \in Requests : pc[r] = "publish" /\ work[r].key = k
    BY DEF PublicOnSite
  <2>1. PICK q \in Requests, s \in Slots : k = <<q, s>>
    BY DEF Written, Keys
  <2>2. Excused(q, s) /\ ~(site[<<q, s>>] > 0) /\ k[1] = q /\ k[2] = s
    BY <2>1 DEF Written, IInv, Published
  <2> QED
    BY <2>1, <2>2 DEF Excused
<1> QED
  BY Safety, <1>1, PTL

\* The app shows the schedule of the season, or somebody is about to tell it, unless since
\* what it shows was read another told it, was cut on the way to, or the season turned
\* (323-384).
THEOREM AppIsTold == Spec => []AppShowsSchedule
<1>1. IInv => AppShowsSchedule
  BY DEF IInv, Told
<1> QED
  BY Safety, <1>1, PTL
===============================================================================
