--------------------------- MODULE ActivityWriter ---------------------------
(***************************************************************************)
(* The activity writer of src/src/activity.rs: the data plane publishes an *)
(* activity stamp in the route registry and queues it for persistence; one *)
(* worker persists the queued stamps, newest per route, one route at a     *)
(* time; flush waits until everything accepted before it has been tried.   *)
(*                                                                         *)
(* The registry appears through the two calls the writer makes,            *)
(* observe_activity and persist_observed_activity, each one step (module   *)
(* RouteRegistry has their interleavings), and through routes coming and   *)
(* going under the writer.                                                 *)
(***************************************************************************)
EXTENDS Integers, Sequences, FiniteSets

CONSTANTS
    Keys,        \* normalised route keys
    Times,       \* time stamps
    Recorders,   \* data-plane threads that call record_at
    Flushers,    \* callers of flush, each calls it once
    Capacity,    \* pending_capacity
    MaxAccepted, \* bound: how many observations are accepted
    None         \* Rust's None

ASSUME StampAssumption == Times \subseteq Int
ASSUME PendingCapacityAssumption == Capacity \in Nat \ {0}
ASSUME MaxAcceptedAssumption == MaxAccepted \in Nat

(* A sequence number counts from 1; 0 is an Option<u64> that is None.      *)
NoSequence == 0
Sequence == Nat \ {NoSequence}

PendingActivity == [latest : Times, pending_oldest : Nat, in_flight_oldest : Nat]
Observation == [key : Keys, at : Times]
Acceptance == [seq : Sequence, key : Keys, at : Times]
Flights == [key : Keys, at : Times, seq : Sequence, written : BOOLEAN]
Flush == [place : {"idle", "arming", "checking", "refused", "parked", "returned"},
          watermark : Nat,
          notified : BOOLEAN]

ASSUME NoneIsNoValue ==
    None \notin Times \cup PendingActivity \cup Observation \cup Flights

VARIABLES
    route,            \* the published stamp of each route, None without a route
    persisted,        \* the stamp the backing store holds for it
    by_key,           \* PendingActivities.by_key
    ready,            \* PendingActivities.ready
    accepted_through, \* PendingActivities.accepted_through
    wake,             \* whether the wake-up channel of capacity 1 holds a token
    worker,           \* where the worker task is: "asleep", "looking" or "flying"
    flight,           \* what it is persisting while it is flying
    recorder,         \* the observation a thread is about to queue
    waking,           \* the threads about to send the wake-up token
    flusher,          \* the flush calls
    owed,             \* history: what was accepted and not tried to the end
    carried,          \* history: those the persist under way stands for
    counted           \* history: the routes whose activity a drop or a failure
                      \* counted since they were added

registryVars == <<route, persisted, counted>>
queueVars == <<by_key, ready, accepted_through, owed>>
workerVars == <<worker, flight, carried>>
recorderVars == <<recorder, waking>>
writerVars == <<registryVars, queueVars, wake, workerVars, recorderVars, flusher>>

Newest(s, t) == IF s >= t THEN s ELSE t

Resident == {k \in Keys : by_key[k] # None}

WriterInit ==
    /\ route \in [Keys -> Times \cup {None}]
    /\ persisted = route
    /\ by_key = [k \in Keys |-> None]
    /\ ready = <<>>
    /\ accepted_through = 0
    /\ wake = FALSE
    /\ worker = "asleep"
    /\ flight = None
    /\ recorder = [r \in Recorders |-> None]
    /\ waking = {}
    /\ flusher = [f \in Flushers |-> [place |-> "idle", watermark |-> 0, notified |-> FALSE]]
    /\ owed = {}
    /\ carried = {}
    /\ counted = {}

(***************************************************************************)
(* record_at.                                                              *)
(***************************************************************************)

(* observe_activity publishes a newer stamp and returns true; when it      *)
(* returns false, record_at does nothing more.                             *)
Observe(r, k, at) ==
    /\ recorder[r] = None
    /\ r \notin waking
    /\ route[k] # None
    /\ route[k] < at
    /\ route' = [route EXCEPT ![k] = at]
    /\ recorder' = [recorder EXCEPT ![r] = [key |-> k, at |-> at]]
    /\ UNCHANGED <<persisted, counted, queueVars, wake, workerVars, waking, flusher>>

MutantHasRoom(k) == Cardinality(Resident) < Capacity + 1  \* off by one

HasRoom(k) == by_key[k] # None \/ Cardinality(Resident) < Capacity

(* The map is full of other routes: the observation is dropped (and        *)
(* counted).                                                               *)
Drop(r) ==
    /\ recorder[r] # None
    /\ ~HasRoom(recorder[r].key)
    /\ recorder' = [recorder EXCEPT ![r] = None]
    /\ counted' = counted \cup {recorder[r].key}
    /\ UNCHANGED <<route, persisted, queueVars, wake, workerVars, waking, flusher>>

MutantCoalesced(p, at, seq) ==  \* the youngest acceptance instead of the oldest
    [p EXCEPT !.latest = Newest(@, at), !.pending_oldest = seq]
MutantCoalescedStamp(p, at, seq) ==  \* the last writer wins
    [p EXCEPT !.latest = at, !.pending_oldest = IF @ = NoSequence THEN seq ELSE @]

(* A route that is already pending keeps the oldest sequence not yet taken *)
(* by the worker (get_or_insert) and the newest stamp.                     *)
Coalesced(p, at, seq) ==
    [p EXCEPT !.latest = Newest(@, at), !.pending_oldest = IF @ = NoSequence THEN seq ELSE @]

Accept(r) ==
    LET k == recorder[r].key
        at == recorder[r].at
        seq == accepted_through + 1
    IN  /\ recorder[r] # None
        /\ HasRoom(k)
        /\ accepted_through < MaxAccepted
        /\ accepted_through' = seq
        /\ IF by_key[k] # None
           THEN /\ by_key' = [by_key EXCEPT ![k] = Coalesced(@, at, seq)]
                /\ UNCHANGED ready
           ELSE /\ by_key' = [by_key EXCEPT ![k] =
                        [latest |-> at, pending_oldest |-> seq, in_flight_oldest |-> NoSequence]]
                /\ ready' = Append(ready, k)
        /\ owed' = owed \cup {[seq |-> seq, key |-> k, at |-> at]}
        /\ recorder' = [recorder EXCEPT ![r] = None]
        /\ waking' = waking \cup {r}
        /\ UNCHANGED <<registryVars, wake, workerVars, flusher>>

(* wake.try_send: a full channel already holds a token.                    *)
Wake(r) ==
    /\ r \in waking
    /\ waking' = waking \ {r}
    /\ wake' = TRUE
    /\ UNCHANGED <<registryVars, queueVars, workerVars, recorder, flusher>>

(***************************************************************************)
(* flush.  A Notified is told of every notify_waiters since its creation,  *)
(* so the check that follows cannot miss one.                              *)
(***************************************************************************)
MutantListening == {"parked"}  \* subscribes only after the check
Listening == {"checking", "refused", "parked"}

NotifyWaiters ==
    flusher' = [f \in Flushers |->
        IF flusher[f].place \in Listening THEN [flusher[f] EXCEPT !.notified = TRUE] ELSE flusher[f]]

FlushStart(f) ==
    /\ flusher[f].place = "idle"
    /\ flusher' = [flusher EXCEPT ![f].place = "arming", ![f].watermark = accepted_through]
    /\ UNCHANGED <<registryVars, queueVars, wake, workerVars, recorderVars>>

FlushArm(f) ==
    /\ flusher[f].place = "arming"
    /\ flusher' = [flusher EXCEPT ![f].place = "checking", ![f].notified = FALSE]
    /\ UNCHANGED <<registryVars, queueVars, wake, workerVars, recorderVars>>

Passed(seq, watermark) == seq = NoSequence \/ seq > watermark

MutantWaitsForAll(watermark) == Resident = {}  \* no watermark

WatermarkIsComplete(watermark) ==
    \A k \in Resident : /\ Passed(by_key[k].in_flight_oldest, watermark)
                        /\ Passed(by_key[k].pending_oldest, watermark)

FlushCheck(f) ==
    /\ flusher[f].place = "checking"
    /\ flusher' = [flusher EXCEPT ![f].place =
                    IF WatermarkIsComplete(flusher[f].watermark) THEN "returned" ELSE "refused"]
    /\ UNCHANGED <<registryVars, queueVars, wake, workerVars, recorderVars>>

FlushPark(f) ==
    /\ flusher[f].place = "refused"
    /\ flusher' = [flusher EXCEPT ![f].place = "parked"]
    /\ UNCHANGED <<registryVars, queueVars, wake, workerVars, recorderVars>>

FlushWake(f) ==
    /\ flusher[f].place = "parked"
    /\ flusher[f].notified
    /\ flusher' = [flusher EXCEPT ![f].place = "arming"]
    /\ UNCHANGED <<registryVars, queueVars, wake, workerVars, recorderVars>>

(***************************************************************************)
(* The worker.                                                             *)
(***************************************************************************)
WorkerWakes ==
    /\ worker = "asleep"
    /\ wake
    /\ wake' = FALSE
    /\ worker' = "looking"
    /\ UNCHANGED <<registryVars, queueVars, flight, carried, recorderVars, flusher>>

WorkerSleeps ==
    /\ worker = "looking"
    /\ ready = <<>>
    /\ worker' = "asleep"
    /\ NotifyWaiters
    /\ UNCHANGED <<registryVars, queueVars, wake, flight, carried, recorderVars>>

(* The worker's expect calls hold: the key is resident and has a pending   *)
(* acceptance (ReadyIsExact).                                              *)
WorkerPops ==
    LET k == Head(ready)
        p == by_key[k]
    IN  /\ worker = "looking"
        /\ ready # <<>>
        /\ worker' = "flying"
        /\ ready' = Tail(ready)
        /\ by_key' = [by_key EXCEPT ![k].pending_oldest = NoSequence,
                                    ![k].in_flight_oldest = p.pending_oldest]
        /\ flight' = [key |-> k, at |-> p.latest, seq |-> p.pending_oldest, written |-> FALSE]
        /\ carried' = {e \in owed : e.key = k}
        /\ UNCHANGED <<registryVars, accepted_through, owed, wake, recorderVars, flusher>>

(* What persist_observed_activity leaves in the store, if the route is     *)
(* still there and the store takes it.                                     *)
PersistObserved(k, at) ==
    IF route[k] = None THEN persisted ELSE [persisted EXCEPT ![k] = Newest(route[k], at)]

(* persist_observed_activity is over: it has persisted the stamp, or       *)
(* failed (counted; an indeterminate failure may have persisted it).       *)
WorkerPersists ==
    /\ worker = "flying"
    /\ ~flight.written
    /\ \/ /\ persisted' = PersistObserved(flight.key, flight.at)
          /\ UNCHANGED counted
       \/ /\ persisted' \in {persisted, PersistObserved(flight.key, flight.at)}
          /\ counted' = counted \cup {flight.key}
    /\ flight' = [flight EXCEPT !.written = TRUE]
    /\ UNCHANGED <<route, queueVars, wake, worker, carried, recorderVars, flusher>>

MutantForgets(p) == FALSE  \* forgets what arrived meanwhile
MutantRequeues(p) == TRUE  \* puts the route back whatever arrived

HasLaterActivity(p) == p.pending_oldest # NoSequence

WorkerFinishes ==
    LET k == flight.key IN
    /\ worker = "flying"
    /\ flight.written
    /\ worker' = "looking"
    /\ flight' = None
    /\ IF HasLaterActivity(by_key[k])
       THEN /\ by_key' = [by_key EXCEPT ![k].in_flight_oldest = NoSequence]
            /\ ready' = Append(ready, k)
       ELSE /\ by_key' = [by_key EXCEPT ![k] = None]
            /\ UNCHANGED ready
    /\ owed' = owed \ carried
    /\ carried' = {}
    /\ NotifyWaiters
    /\ UNCHANGED <<registryVars, accepted_through, wake, recorderVars>>

(***************************************************************************)
(* Routes come and go: RouteRegistry::add and delete.                      *)
(***************************************************************************)
RouteAdded(k, at) ==
    /\ route[k] = None
    /\ route' = [route EXCEPT ![k] = at]
    /\ persisted' = [persisted EXCEPT ![k] = at]
    /\ UNCHANGED <<counted, queueVars, wake, workerVars, recorderVars, flusher>>

RouteDeleted(k) ==
    /\ route[k] # None
    /\ route' = [route EXCEPT ![k] = None]
    /\ persisted' = [persisted EXCEPT ![k] = None]
    /\ counted' = counted \ {k}
    /\ UNCHANGED <<queueVars, wake, workerVars, recorderVars, flusher>>

-----------------------------------------------------------------------------
RecorderStep(r) == Drop(r) \/ Accept(r) \/ Wake(r)

WorkerStep == WorkerWakes \/ WorkerSleeps \/ WorkerPops \/ WorkerPersists \/ WorkerFinishes

FlusherStep(f) == FlushArm(f) \/ FlushCheck(f) \/ FlushPark(f) \/ FlushWake(f)

WriterNext ==
    \/ \E r \in Recorders :
        \/ \E k \in Keys, at \in Times : Observe(r, k, at)
        \/ RecorderStep(r)
    \/ WorkerStep
    \/ \E f \in Flushers : FlushStart(f) \/ FlusherStep(f)
    \/ \E k \in Keys :
        \/ \E at \in Times : RouteAdded(k, at)
        \/ RouteDeleted(k)

WriterSpec == WriterInit /\ [][WriterNext]_writerVars

(* Threads run on; Tokio polls the woken worker and the woken flush; a     *)
(* persist ends because registry mutations do (MutationsFinish).           *)
WriterFairness ==
    /\ \A r \in Recorders : WF_writerVars(RecorderStep(r))
    /\ WF_writerVars(WorkerStep)
    /\ \A f \in Flushers : WF_writerVars(FlusherStep(f))

FairWriterSpec == WriterSpec /\ WriterFairness

-----------------------------------------------------------------------------
(* The types of the writer's state; the map of pending routes never        *)
(* outgrows pending_capacity, however the accepting threads interleave.    *)
WriterTypeOK ==
    /\ route \in [Keys -> Times \cup {None}]
    /\ persisted \in [Keys -> Times \cup {None}]
    /\ by_key \in [Keys -> PendingActivity \cup {None}]
    /\ Cardinality(Resident) <= Capacity
    /\ ready \in Seq(Keys)
    /\ accepted_through \in Nat
    /\ wake \in BOOLEAN
    /\ worker \in {"asleep", "looking", "flying"}
    /\ flight \in Flights \cup {None}
    /\ recorder \in [Recorders -> Observation \cup {None}]
    /\ waking \in SUBSET Recorders
    /\ flusher \in [Flushers -> Flush]
    /\ owed \in SUBSET Acceptance
    /\ carried \in SUBSET Acceptance
    /\ counted \in SUBSET Keys

InFlight(k) == worker = "flying" /\ flight.key = k

(* The ready queue holds exactly the resident routes that have something   *)
(* pending and are not being persisted, each once: the worker's two expect *)
(* calls cannot fail, no route is persisted twice at a time and none is    *)
(* stranded in the map.                                                    *)
ReadyIsExact ==
    /\ \A i, j \in DOMAIN ready : ready[i] = ready[j] => i = j
    /\ \A k \in Keys :
        (\E i \in DOMAIN ready : ready[i] = k) <=>
            /\ by_key[k] # None
            /\ by_key[k].pending_oldest # NoSequence
            /\ ~InFlight(k)

(* The one stamp the worker persists for a route is at least as new as     *)
(* every observation it stands for, although threads queue their           *)
(* observations in another order than they published them.                 *)
CoalescingKeepsNewest == \A e \in carried : flight.at >= e.at

(* "Wait until all activity accepted before this observation has drained": *)
(* when flush has returned, persistence of everything accepted before it   *)
(* was called has been tried to the end.                                   *)
FlushCoversAccepted ==
    \A f \in Flushers : flusher[f].place = "returned" =>
        \A e \in owed : e.seq > flusher[f].watermark

(* Flush waits for nothing else: a route whose activity keeps advancing    *)
(* does not hold up a flush that was called before.                        *)
FlushWaitsOnlyForAccepted ==
    [][\A f \in Flushers :
        (flusher[f].place = "checking" /\ flusher'[f].place = "refused") =>
            \E e \in owed : e.seq <= flusher[f].watermark]_writerVars

(* No observation is lost silently: once a route has nothing queued and    *)
(* neither a drop nor a persistence failure was counted for it, the store  *)
(* has caught up with the stamp the data plane published.                  *)
UncountedIsPersisted ==
    \A k \in Keys :
        (/\ route[k] # None
         /\ k \notin counted
         /\ by_key[k] = None
         /\ \A r \in Recorders : recorder[r] # None => recorder[r].key # k)
            => persisted[k] >= route[k]

(* No flush waits forever: it misses no notification.                      *)
FlushReturns ==
    \A f \in Flushers : flusher[f].place = "arming" ~> flusher[f].place = "returned"

(* Whatever was accepted is tried: no wake-up is lost between the bounded  *)
(* channel, the queue and the worker going to sleep.                       *)
AcceptedIsTried ==
    \A n \in 1 .. MaxAccepted :
        (\E e \in owed : e.seq = n) ~> ~(\E e \in owed : e.seq = n)

=============================================================================
