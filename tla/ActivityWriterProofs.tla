------------------------ MODULE ActivityWriterProofs ------------------------
(***************************************************************************)
(* The safety properties of ActivityWriter for any number of routes,       *)
(* threads, flushes and observations, and any pending capacity.  Three     *)
(* invariants, each resting on the one before it:                          *)
(*   - QueueInv: the shape of the pending map, the ready queue and the     *)
(*     worker's flight;                                                    *)
(*   - HistoryInv: where every acceptance that is still owed is found;     *)
(*   - CoverInv: who carries a published stamp the store does not have.    *)
(***************************************************************************)
EXTENDS ActivityWriter, FiniteSetTheorems, TLAPS

FlightInv ==
    /\ worker = "flying" <=> flight # None
    /\ worker # "flying" => carried = {}
    /\ \A k \in Keys : InFlight(k) => by_key[k] # None
    /\ \A k \in Keys : by_key[k] # None =>
        IF InFlight(k)
        THEN by_key[k].in_flight_oldest = flight.seq
        ELSE by_key[k].in_flight_oldest = NoSequence /\ by_key[k].pending_oldest # NoSequence

QueueInv ==
    /\ WriterTypeOK
    /\ IsFiniteSet(Resident)
    /\ FlightInv
    /\ ReadyIsExact

OwedInFlight ==
    \A e \in carried : /\ e \in owed
                       /\ InFlight(e.key)
                       /\ flight.seq <= e.seq
                       /\ flight.at >= e.at

OwedPending ==
    \A e \in owed \ carried : /\ by_key[e.key] # None
                              /\ by_key[e.key].pending_oldest # NoSequence
                              /\ by_key[e.key].pending_oldest <= e.seq
                              /\ by_key[e.key].latest >= e.at

SequencesAreOwed ==
    /\ \A k \in Keys : (by_key[k] # None /\ by_key[k].pending_oldest # NoSequence) =>
        \E e \in owed \ carried : e.key = k /\ e.seq = by_key[k].pending_oldest
    /\ worker = "flying" => \E e \in carried : e.seq = flight.seq

WatermarksAreOld ==
    /\ \A e \in owed : e.seq <= accepted_through
    /\ \A f \in Flushers : flusher[f].watermark <= accepted_through

HistoryInv ==
    /\ OwedInFlight
    /\ OwedPending
    /\ SequencesAreOwed
    /\ WatermarksAreOld
    /\ FlushCoversAccepted

(* Somebody will bring the store up to the published stamp of k.           *)
Underway(k) ==
    \/ \E r \in Recorders : /\ recorder[r] # None
                            /\ recorder[r].key = k
                            /\ recorder[r].at >= route[k]
    \/ /\ by_key[k] # None
       /\ by_key[k].pending_oldest # NoSequence
       /\ by_key[k].latest >= route[k]
    \/ InFlight(k) /\ ~flight.written /\ flight.at >= route[k]

CoverInv ==
    \A k \in Keys : (route[k] # None /\ k \notin counted) =>
        (persisted[k] # None /\ persisted[k] >= route[k]) \/ Underway(k)

-----------------------------------------------------------------------------
(* A step that leaves the map, the queue and the flight alone keeps their  *)
(* shape, whether the worker sleeps or looks (record_at before the lock,   *)
(* flush, route changes).                                                  *)
LEMMA ShapeStays ==
    ASSUME QueueInv,
           UNCHANGED <<by_key, ready, flight, carried>>,
           worker' = worker \/ (worker # "flying" /\ worker' # "flying")
    PROVE  /\ IsFiniteSet(Resident)' /\ (Cardinality(Resident) <= Capacity)'
           /\ FlightInv' /\ ReadyIsExact'
<1>1. Resident' = Resident
    BY DEF Resident
<1>2. IsFiniteSet(Resident)' /\ (Cardinality(Resident) <= Capacity)'
    BY <1>1 DEF QueueInv, WriterTypeOK
<1>3. \A k : InFlight(k)' <=> InFlight(k)
    BY DEF InFlight
<1>4. FlightInv'
    BY <1>3 DEF QueueInv, FlightInv
<1>5. ReadyIsExact'
    BY <1>3 DEF QueueInv, ReadyIsExact
<1> QED BY <1>2, <1>4, <1>5

(* notify_waiters only marks flush calls.                                  *)
LEMMA NotifyTypes ==
    ASSUME flusher \in [Flushers -> Flush], NotifyWaiters
    PROVE  /\ flusher' \in [Flushers -> Flush]
           /\ \A f \in Flushers : /\ flusher'[f].place = flusher[f].place
                                  /\ flusher'[f].watermark = flusher[f].watermark
BY Zenon DEF NotifyWaiters, Flush

(* Coalescing keeps an entry of the pending map well formed.               *)
LEMMA CoalescedFields ==
    ASSUME NEW p \in PendingActivity, NEW at \in Times, NEW seq \in Sequence
    PROVE  LET c == Coalesced(p, at, seq) IN
           /\ c \in PendingActivity
           /\ c.latest \in Times /\ c.latest >= at /\ c.latest >= p.latest
           /\ c.pending_oldest = IF p.pending_oldest = NoSequence THEN seq ELSE p.pending_oldest
           /\ c.pending_oldest # NoSequence
           /\ c.in_flight_oldest = p.in_flight_oldest
<1> DEFINE c == Coalesced(p, at, seq)
           oldest == IF p.pending_oldest = NoSequence THEN seq ELSE p.pending_oldest
<1>1. /\ p.latest \in Times /\ p.latest \in Int /\ at \in Int
      /\ p.pending_oldest \in Nat /\ p.in_flight_oldest \in Nat
    BY Zenon, StampAssumption DEF PendingActivity
<1>2. /\ c.latest = Newest(p.latest, at)
      /\ c.pending_oldest = oldest
      /\ c.in_flight_oldest = p.in_flight_oldest
    BY DEF Coalesced, PendingActivity
<1>3. /\ Newest(p.latest, at) \in Times
      /\ Newest(p.latest, at) >= at /\ Newest(p.latest, at) >= p.latest
    BY <1>1 DEF Newest
<1>4. oldest \in Nat /\ oldest # NoSequence
    BY <1>1 DEF Sequence, NoSequence
<1>5. c \in PendingActivity
    BY Zenon, <1>1, <1>3, <1>4 DEF Coalesced, PendingActivity
<1> QED BY <1>1, <1>2, <1>3, <1>4, <1>5

LEMMA QueueInit == WriterInit => QueueInv
<1> SUFFICES ASSUME WriterInit PROVE QueueInv
    OBVIOUS
<1>1. Resident = {}
    BY DEF WriterInit, Resident
<1>2. IsFiniteSet(Resident) /\ Cardinality(Resident) <= Capacity
    BY <1>1, FS_EmptySet, PendingCapacityAssumption
<1>3. WriterTypeOK
    <2>1. /\ by_key \in [Keys -> PendingActivity \cup {None}]
          /\ recorder \in [Recorders -> Observation \cup {None}]
          /\ flusher \in [Flushers -> Flush]
        BY DEF WriterInit, Flush
    <2>2. ready \in Seq(Keys) /\ accepted_through \in Nat
        BY DEF WriterInit
    <2> QED BY Zenon, <1>2, <2>1, <2>2 DEF WriterInit, WriterTypeOK
<1>4. FlightInv /\ ReadyIsExact
    BY DEF WriterInit, FlightInv, ReadyIsExact, InFlight
<1> QED BY <1>2, <1>3, <1>4 DEF QueueInv

(* An accepted observation enters the map under the lock.                  *)
LEMMA QueueAccept ==
    ASSUME QueueInv, NEW r \in Recorders, Accept(r)
    PROVE  QueueInv'
<1> DEFINE k == recorder[r].key
           at == recorder[r].at
           seq == accepted_through + 1
<1>1. recorder[r] \in Observation /\ k \in Keys /\ at \in Times
    BY DEF QueueInv, WriterTypeOK, Accept, Observation
<1>2. seq \in Sequence /\ accepted_through' \in Nat
    BY DEF QueueInv, WriterTypeOK, Accept, Sequence, NoSequence
<1>3. /\ recorder' \in [Recorders -> Observation \cup {None}]
      /\ waking' \in SUBSET Recorders
      /\ owed' \in SUBSET Acceptance
    BY <1>1, <1>2 DEF QueueInv, WriterTypeOK, Accept, Acceptance
<1>4. \A x : InFlight(x)' <=> InFlight(x)
    BY DEF Accept, workerVars, InFlight
<1>5. CASE by_key[k] # None
    <2> DEFINE c == Coalesced(by_key[k], at, seq)
    <2>1. by_key[k] \in PendingActivity
        BY <1>1, <1>5 DEF QueueInv, WriterTypeOK
    <2>2. /\ c \in PendingActivity
          /\ c.pending_oldest # NoSequence
          /\ c.pending_oldest = IF by_key[k].pending_oldest = NoSequence
                                THEN seq ELSE by_key[k].pending_oldest
          /\ c.in_flight_oldest = by_key[k].in_flight_oldest
        BY <2>1, <1>1, <1>2, CoalescedFields
    <2>3. c # None
        BY <2>2, NoneIsNoValue
    <2>4. by_key' = [by_key EXCEPT ![k] = c] /\ ready' = ready
        BY <1>5 DEF Accept
    <2>5. Resident' = Resident
        BY ZenonT(30), <1>1, <1>5, <2>3, <2>4 DEF QueueInv, WriterTypeOK, Resident
    <2>6. WriterTypeOK'
        BY ZenonT(30), <1>1, <1>2, <1>3, <2>2, <2>4, <2>5
        DEF QueueInv, WriterTypeOK, Accept, registryVars, workerVars
    <2>7. FlightInv'
        BY ZenonT(30), <1>1, <1>4, <1>5, <2>1, <2>2, <2>3, <2>4
        DEF QueueInv, WriterTypeOK, FlightInv, Accept, workerVars
    <2>8. ReadyIsExact'
        <3>1. k \in Keys /\ ~InFlight(k) => by_key[k].pending_oldest # NoSequence
            BY <1>5 DEF QueueInv, FlightInv
        <3> QED BY <1>1, <1>4, <1>5, <2>2, <2>3, <2>4, <3>1
                DEF QueueInv, WriterTypeOK, ReadyIsExact
    <2> QED BY <2>5, <2>6, <2>7, <2>8 DEF QueueInv
<1>6. CASE by_key[k] = None
    <2> DEFINE c == [latest |-> at, pending_oldest |-> seq, in_flight_oldest |-> NoSequence]
    <2>1. c \in PendingActivity /\ c # None
        BY <1>1, <1>2, NoneIsNoValue DEF PendingActivity, Sequence, NoSequence
    <2>2. by_key' = [by_key EXCEPT ![k] = c] /\ ready' = Append(ready, k)
        BY <1>6 DEF Accept
    <2>3. Resident' = Resident \cup {k} /\ k \notin Resident
        BY <1>1, <1>6, <2>1, <2>2 DEF QueueInv, WriterTypeOK, Resident
    <2>4. Cardinality(Resident) < Capacity
        BY <1>6 DEF Accept, HasRoom
    <2>5. /\ IsFiniteSet(Resident)'
          /\ Cardinality(Resident)' = Cardinality(Resident) + 1
        BY Zenon, <2>3, FS_AddElement DEF QueueInv
    <2>6. Cardinality(Resident) \in Nat
        BY FS_CardinalityType DEF QueueInv
    <2>7. (Cardinality(Resident) <= Capacity)'
        BY <2>4, <2>5, <2>6, PendingCapacityAssumption
    <2>8. WriterTypeOK'
        BY <1>1, <1>2, <1>3, <2>1, <2>2, <2>7
        DEF QueueInv, WriterTypeOK, Accept, registryVars, workerVars
    <2>9. ~InFlight(k)
        BY <1>1, <1>6 DEF QueueInv, FlightInv
    <2>10. FlightInv'
        BY <1>1, <1>2, <1>4, <2>1, <2>2, <2>9
        DEF QueueInv, WriterTypeOK, FlightInv, Accept, workerVars, Sequence, NoSequence
    <2>11. ReadyIsExact'
        <3>1. ready \in Seq(Keys) /\ \A i \in DOMAIN ready : ready[i] # k
            BY <1>1, <1>6 DEF QueueInv, WriterTypeOK, ReadyIsExact
        <3>2. /\ DOMAIN ready' = 1 .. Len(ready) + 1 /\ DOMAIN ready = 1 .. Len(ready)
              /\ Len(ready) \in Nat
              /\ \A i \in DOMAIN ready : ready'[i] = ready[i]
              /\ ready'[Len(ready) + 1] = k
            BY <1>1, <2>2, <3>1
        <3>3. \A i, j \in DOMAIN ready' : ready'[i] = ready'[j] => i = j
            BY <3>1, <3>2 DEF QueueInv, ReadyIsExact
        <3>4. \A x : (\E i \in DOMAIN ready' : ready'[i] = x)
                        <=> (x = k \/ \E i \in DOMAIN ready : ready[i] = x)
            BY <3>2
        <3>5. c.pending_oldest # NoSequence
            BY <1>2 DEF Sequence
        <3>6. \A x \in Keys : by_key'[x] = IF x = k THEN c ELSE by_key[x]
            BY <1>1, <2>2 DEF QueueInv, WriterTypeOK
        <3> QED BY <1>1, <1>4, <2>1, <2>9, <3>3, <3>4, <3>5, <3>6 DEF QueueInv, ReadyIsExact
    <2> QED BY <2>5, <2>8, <2>10, <2>11 DEF QueueInv
<1> QED BY <1>5, <1>6

(* The worker takes the oldest ready route; its expect calls hold.         *)
LEMMA QueuePops ==
    ASSUME QueueInv, WorkerPops
    PROVE  /\ QueueInv'
           /\ Head(ready) \in Keys
           /\ by_key[Head(ready)] \in PendingActivity
           /\ by_key[Head(ready)].pending_oldest \in Sequence
<1> DEFINE k == Head(ready)
           p == by_key[k]
<1>1. ready \in Seq(Keys) /\ ready # <<>> /\ k \in Keys /\ Len(ready) \in Nat /\ Len(ready) >= 1
    BY DEF QueueInv, WriterTypeOK, WorkerPops
<1>2. 1 \in DOMAIN ready /\ ready[1] = k
    BY <1>1
<1>3. p # None /\ p.pending_oldest # NoSequence /\ p \in PendingActivity
    BY <1>1, <1>2 DEF QueueInv, WriterTypeOK, ReadyIsExact
<1>4. p.pending_oldest \in Sequence /\ p.latest \in Times
    BY <1>3 DEF PendingActivity, Sequence
<1> DEFINE c == [p EXCEPT !.pending_oldest = NoSequence, !.in_flight_oldest = p.pending_oldest]
<1>5. /\ c \in PendingActivity
      /\ c.pending_oldest = NoSequence
      /\ c.in_flight_oldest = p.pending_oldest
    BY Zenon, <1>3, <1>4 DEF PendingActivity, Sequence, NoSequence
<1>6. c # None
    BY <1>5, NoneIsNoValue
<1>7. /\ by_key' \in [Keys -> PendingActivity \cup {None}]
      /\ \A x \in Keys : by_key'[x] = IF x = k THEN c ELSE by_key[x]
    <2>1. by_key' = [by_key EXCEPT ![k] = c]
        BY Zenon, <1>1 DEF WorkerPops, QueueInv, WriterTypeOK
    <2> QED BY <1>1, <1>5, <2>1 DEF QueueInv, WriterTypeOK
<1>8. /\ worker = "looking" /\ worker' = "flying"
      /\ flight' = [key |-> k, at |-> p.latest, seq |-> p.pending_oldest, written |-> FALSE]
    BY DEF WorkerPops
<1>9. flight' \in Flights /\ flight' # None /\ flight'.key = k /\ flight'.seq = p.pending_oldest
    <2>1. flight' \in Flights
        BY <1>1, <1>4, <1>8 DEF Flights
    <2> QED BY Zenon, <1>8, <2>1, NoneIsNoValue
<1>10. Resident' = Resident
    BY <1>3, <1>6, <1>7 DEF Resident
<1>11. ready' \in Seq(Keys)
    BY <1>1 DEF WorkerPops
<1>12. WriterTypeOK'
    BY <1>7, <1>8, <1>9, <1>10, <1>11
    DEF QueueInv, WriterTypeOK, WorkerPops, registryVars, recorderVars
<1>13. \A x : ~InFlight(x) /\ (InFlight(x)' <=> x = k)
    BY <1>8, <1>9 DEF InFlight
<1>14. FlightInv'
    BY Zenon, <1>1, <1>5, <1>6, <1>7, <1>8, <1>9, <1>13 DEF QueueInv, FlightInv
<1>15. ReadyIsExact'
    <2>1. /\ DOMAIN ready' = 1 .. Len(ready) - 1 /\ DOMAIN ready = 1 .. Len(ready)
          /\ \A i \in DOMAIN ready' : i + 1 \in DOMAIN ready /\ ready'[i] = ready[i + 1]
        BY <1>1 DEF WorkerPops
    <2>2. \A i, j \in DOMAIN ready : ready[i] = ready[j] => i = j
        BY DEF QueueInv, ReadyIsExact
    <2>3. \A i, j \in DOMAIN ready' : ready'[i] = ready'[j] => i = j
        BY <1>1, <2>1, <2>2
    <2>4. \A x : (\E i \in DOMAIN ready' : ready'[i] = x)
                    <=> (x # k /\ \E i \in DOMAIN ready : ready[i] = x)
        <3>1. ASSUME NEW i \in DOMAIN ready' PROVE ready'[i] # k /\ i + 1 \in DOMAIN ready
            BY <1>1, <1>2, <2>1, <2>2
        <3>2. ASSUME NEW i \in DOMAIN ready, ready[i] # k
              PROVE  i - 1 \in DOMAIN ready' /\ ready'[i - 1] = ready[i]
            <4>1. i \in Int /\ i # 1 /\ i - 1 \in DOMAIN ready' /\ (i - 1) + 1 = i
                BY <1>1, <1>2, <2>1, <3>2
            <4> QED BY <2>1, <4>1
        <3> QED BY <2>1, <3>1, <3>2
    <2> QED BY Zenon, <1>5, <1>7, <1>13, <2>3, <2>4 DEF QueueInv, ReadyIsExact
<1> QED BY <1>1, <1>3, <1>4, <1>10, <1>12, <1>14, <1>15 DEF QueueInv

(* A persist that is over leaves the queue alone.                          *)
LEMMA QueuePersists ==
    ASSUME QueueInv, WorkerPersists
    PROVE  /\ QueueInv'
           /\ flight \in Flights /\ flight' \in Flights
           /\ flight'.key = flight.key /\ flight'.seq = flight.seq /\ flight'.at = flight.at
           /\ flight'.written
<1>1. flight \in Flights
    BY DEF QueueInv, WriterTypeOK, FlightInv, WorkerPersists
<1>2. /\ flight' \in Flights
      /\ flight'.key = flight.key /\ flight'.seq = flight.seq /\ flight'.at = flight.at
      /\ flight'.written
    BY Zenon, <1>1 DEF WorkerPersists, Flights
<1>3. flight' # None
    BY <1>2, NoneIsNoValue
<1>4. \A x : InFlight(x)' <=> InFlight(x)
    BY <1>2 DEF WorkerPersists, InFlight
<1>5. persisted' \in [Keys -> Times \cup {None}] /\ counted' \in SUBSET Keys
    <2>1. flight.key \in Keys /\ flight.at \in Times
        BY <1>1 DEF Flights
    <2>2. route[flight.key] # None => Newest(route[flight.key], flight.at) \in Times
        BY <2>1 DEF QueueInv, WriterTypeOK, Newest
    <2>3. PersistObserved(flight.key, flight.at) \in [Keys -> Times \cup {None}]
        BY <2>1, <2>2 DEF PersistObserved, QueueInv, WriterTypeOK
    <2> QED BY <2>1, <2>3 DEF WorkerPersists, QueueInv, WriterTypeOK
<1>6. Resident' = Resident
    BY DEF WorkerPersists, queueVars, Resident
<1>7. WriterTypeOK'
    BY <1>2, <1>5, <1>6 DEF QueueInv, WriterTypeOK, WorkerPersists, queueVars, recorderVars
<1>8. FlightInv'
    BY <1>2, <1>3, <1>4 DEF QueueInv, FlightInv, WorkerPersists, queueVars
<1>9. ReadyIsExact'
    BY <1>4 DEF QueueInv, ReadyIsExact, WorkerPersists, queueVars
<1> QED BY <1>1, <1>2, <1>6, <1>7, <1>8, <1>9 DEF QueueInv

(* The worker is done with a route: it leaves the map, or goes back to the *)
(* queue when activity arrived meanwhile.                                  *)
LEMMA QueueFinishes ==
    ASSUME QueueInv, WorkerFinishes
    PROVE  /\ QueueInv'
           /\ flight \in Flights /\ by_key[flight.key] \in PendingActivity
<1> DEFINE k == flight.key
           p == by_key[k]
<1>1. worker = "flying" /\ flight \in Flights /\ k \in Keys
    BY DEF QueueInv, WriterTypeOK, FlightInv, WorkerFinishes, Flights
<1>2. p # None /\ p \in PendingActivity
    BY <1>1 DEF QueueInv, WriterTypeOK, FlightInv, InFlight
<1>3. worker' = "looking" /\ flight' = None /\ carried' = {}
    BY DEF WorkerFinishes
<1>4. \A x : (InFlight(x) <=> x = k) /\ ~InFlight(x)'
    BY <1>1, <1>3 DEF InFlight
<1>5. /\ flusher' \in [Flushers -> Flush]
      /\ owed' \in SUBSET Acceptance /\ carried' \in SUBSET Acceptance
    BY <1>3, NotifyTypes DEF QueueInv, WriterTypeOK, WorkerFinishes
<1>6. \A i \in DOMAIN ready : ready[i] # k
    BY <1>1, <1>4 DEF QueueInv, WriterTypeOK, ReadyIsExact
<1>7. CASE HasLaterActivity(p)
    <2> DEFINE c == [p EXCEPT !.in_flight_oldest = NoSequence]
    <2>1. /\ c \in PendingActivity
          /\ c.in_flight_oldest = NoSequence
          /\ c.pending_oldest = p.pending_oldest
          /\ c.pending_oldest # NoSequence
        BY <1>2, <1>7 DEF PendingActivity, NoSequence, HasLaterActivity
    <2>2. c # None
        BY <2>1, NoneIsNoValue
    <2>3. by_key' = [by_key EXCEPT ![k] = c] /\ ready' = Append(ready, k)
        BY <1>1, <1>7 DEF WorkerFinishes, QueueInv, WriterTypeOK
    <2>4. /\ by_key' \in [Keys -> PendingActivity \cup {None}]
          /\ \A x \in Keys : by_key'[x] = IF x = k THEN c ELSE by_key[x]
        BY <1>1, <2>1, <2>3 DEF QueueInv, WriterTypeOK
    <2>5. Resident' = Resident
        BY <1>2, <2>2, <2>4 DEF Resident
    <2>6. WriterTypeOK'
        BY <1>1, <1>3, <1>5, <2>3, <2>4, <2>5
        DEF QueueInv, WriterTypeOK, WorkerFinishes, registryVars, recorderVars
    <2>7. FlightInv'
        BY Zenon, <1>3, <1>4, <2>1, <2>4 DEF QueueInv, FlightInv
    <2>8. ReadyIsExact'
        <3>1. /\ DOMAIN ready' = 1 .. Len(ready) + 1 /\ DOMAIN ready = 1 .. Len(ready)
              /\ Len(ready) \in Nat
              /\ \A i \in DOMAIN ready : ready'[i] = ready[i]
              /\ ready'[Len(ready) + 1] = k
            BY <1>1, <2>3 DEF QueueInv, WriterTypeOK
        <3>2. \A i, j \in DOMAIN ready' : ready'[i] = ready'[j] => i = j
            BY <1>6, <3>1 DEF QueueInv, ReadyIsExact
        <3>3. \A x : (\E i \in DOMAIN ready' : ready'[i] = x)
                        <=> (x = k \/ \E i \in DOMAIN ready : ready[i] = x)
            BY <3>1
        <3> QED BY Zenon, <1>4, <2>1, <2>2, <2>4, <3>2, <3>3 DEF QueueInv, ReadyIsExact
    <2> QED BY <1>1, <1>2, <2>5, <2>6, <2>7, <2>8 DEF QueueInv
<1>8. CASE ~HasLaterActivity(p)
    <2>1. by_key' = [by_key EXCEPT ![k] = None] /\ ready' = ready
        BY <1>8 DEF WorkerFinishes
    <2>2. /\ by_key' \in [Keys -> PendingActivity \cup {None}]
          /\ \A x \in Keys : by_key'[x] = IF x = k THEN None ELSE by_key[x]
        BY <1>1, <2>1 DEF QueueInv, WriterTypeOK
    <2>3. Resident' = Resident \ {k} /\ k \in Resident
        BY <1>1, <1>2, <2>2 DEF Resident
    <2>4. IsFiniteSet(Resident)' /\ Cardinality(Resident)' = Cardinality(Resident) - 1
        BY <2>3, FS_RemoveElement DEF QueueInv
    <2>5. Cardinality(Resident) \in Nat
        BY FS_CardinalityType DEF QueueInv
    <2>6. (Cardinality(Resident) <= Capacity)'
        BY <2>4, <2>5, PendingCapacityAssumption DEF QueueInv, WriterTypeOK
    <2>7. WriterTypeOK'
        BY <1>3, <1>5, <2>1, <2>2, <2>6
        DEF QueueInv, WriterTypeOK, WorkerFinishes, registryVars, recorderVars
    <2>8. FlightInv'
        BY <1>3, <1>4, <2>2 DEF QueueInv, FlightInv
    <2>9. ReadyIsExact'
        BY <1>4, <1>6, <2>1, <2>2 DEF QueueInv, ReadyIsExact
    <2> QED BY <1>1, <1>2, <2>4, <2>7, <2>8, <2>9 DEF QueueInv
<1> QED BY <1>7, <1>8

LEMMA QueueStep == QueueInv /\ [WriterNext]_writerVars => QueueInv'
<1> SUFFICES ASSUME QueueInv, [WriterNext]_writerVars PROVE QueueInv'
    OBVIOUS
<1> DEFINE Shape == /\ UNCHANGED <<by_key, ready, flight, carried>>
                    /\ worker' = worker \/ (worker # "flying" /\ worker' # "flying")
<1>1. Shape /\ WriterTypeOK' => QueueInv'
    BY ShapeStays DEF QueueInv
<1>2. Shape => Resident' = Resident
    BY DEF Resident
<1>3. ASSUME NEW r \in Recorders, NEW k \in Keys, NEW at \in Times, Observe(r, k, at)
      PROVE  QueueInv'
    <2>1. [key |-> k, at |-> at] \in Observation
        BY DEF Observation
    <2>2. Shape
        BY <1>3 DEF Observe, queueVars, workerVars
    <2>3. WriterTypeOK'
        BY <1>2, <1>3, <2>1, <2>2 DEF QueueInv, WriterTypeOK, Observe, queueVars, workerVars
    <2> QED BY <1>1, <2>2, <2>3
<1>4. ASSUME NEW r \in Recorders, Drop(r) PROVE QueueInv'
    <2>1. recorder[r].key \in Keys
        BY <1>4 DEF Drop, QueueInv, WriterTypeOK, Observation
    <2>2. Shape
        BY <1>4 DEF Drop, queueVars, workerVars
    <2>3. WriterTypeOK'
        BY <1>2, <1>4, <2>1, <2>2 DEF QueueInv, WriterTypeOK, Drop, queueVars, workerVars
    <2> QED BY <1>1, <2>2, <2>3
<1>5. ASSUME NEW r \in Recorders, Accept(r) PROVE QueueInv'
    BY <1>5, QueueAccept
<1>6. ASSUME NEW r \in Recorders, Wake(r) PROVE QueueInv'
    <2>1. Shape
        BY <1>6 DEF Wake, queueVars, workerVars
    <2>2. WriterTypeOK'
        BY <1>2, <1>6, <2>1 DEF QueueInv, WriterTypeOK, Wake, registryVars, queueVars, workerVars
    <2> QED BY <1>1, <2>1, <2>2
<1>7. CASE WorkerWakes
    <2>1. Shape
        BY <1>7 DEF WorkerWakes, queueVars
    <2>2. WriterTypeOK'
        BY Zenon, <1>2, <1>7, <2>1 DEF QueueInv, WriterTypeOK, WorkerWakes, registryVars, queueVars, recorderVars
    <2> QED BY <1>1, <2>1, <2>2
<1>8. CASE WorkerSleeps
    <2>1. Shape
        BY <1>8 DEF WorkerSleeps, queueVars
    <2>2. flusher' \in [Flushers -> Flush]
        BY <1>8, NotifyTypes DEF WorkerSleeps, QueueInv, WriterTypeOK
    <2>3. WriterTypeOK'
        BY <1>2, <1>8, <2>1, <2>2 DEF QueueInv, WriterTypeOK, WorkerSleeps, registryVars, queueVars, recorderVars
    <2> QED BY <1>1, <2>1, <2>3
<1>9. CASE WorkerPops
    BY <1>9, QueuePops
<1>10. CASE WorkerPersists
    BY <1>10, QueuePersists
<1>11. CASE WorkerFinishes
    BY <1>11, QueueFinishes
<1>12. ASSUME NEW f \in Flushers, FlushStart(f) \/ FlusherStep(f) PROVE QueueInv'
    <2>1. Shape
        BY <1>12 DEF FlushStart, FlusherStep, FlushArm, FlushCheck, FlushPark, FlushWake, queueVars, workerVars
    <2>2. flusher' \in [Flushers -> Flush]
        <3>1. flusher[f] \in Flush /\ accepted_through \in Nat /\ flusher \in [Flushers -> Flush]
            BY DEF QueueInv, WriterTypeOK
        <3>2. CASE FlushStart(f)
            BY Zenon, <3>1, <3>2 DEF FlushStart, Flush
        <3>3. CASE FlushArm(f)
            BY Zenon, <3>1, <3>3 DEF FlushArm, Flush
        <3>4. CASE FlushCheck(f)
            BY <3>1, <3>4 DEF FlushCheck, Flush
        <3>5. CASE FlushPark(f) \/ FlushWake(f)
            BY <3>1, <3>5 DEF FlushPark, FlushWake, Flush
        <3> QED BY <1>12, <3>2, <3>3, <3>4, <3>5 DEF FlusherStep
    <2>3. WriterTypeOK'
        BY <1>2, <1>12, <2>1, <2>2
        DEF QueueInv, WriterTypeOK, FlushStart, FlusherStep, FlushArm, FlushCheck, FlushPark, FlushWake,
            registryVars, queueVars, workerVars, recorderVars
    <2> QED BY <1>1, <2>1, <2>3
<1>13. ASSUME NEW k \in Keys, RouteDeleted(k) \/ \E at \in Times : RouteAdded(k, at)
       PROVE  QueueInv'
    <2>1. Shape
        BY <1>13 DEF RouteDeleted, RouteAdded, queueVars, workerVars
    <2>2. /\ route' \in [Keys -> Times \cup {None}]
          /\ persisted' \in [Keys -> Times \cup {None}]
          /\ counted' \in SUBSET Keys
        BY ZenonT(30), <1>13 DEF QueueInv, WriterTypeOK, RouteDeleted, RouteAdded
    <2>3. UNCHANGED <<queueVars, wake, workerVars, recorderVars, flusher>>
        BY <1>13 DEF RouteDeleted, RouteAdded
    <2>4. WriterTypeOK'
        BY <1>2, <2>1, <2>2, <2>3 DEF QueueInv, WriterTypeOK, queueVars, workerVars, recorderVars
    <2> QED BY <1>1, <2>1, <2>4
<1>14. CASE UNCHANGED writerVars
    <2>1. Shape /\ WriterTypeOK'
        BY <1>2, <1>14 DEF QueueInv, WriterTypeOK, writerVars, registryVars, queueVars, workerVars, recorderVars
    <2> QED BY <1>1, <2>1
<1> QED BY <1>3, <1>4, <1>5, <1>6, <1>7, <1>8, <1>9, <1>10, <1>11, <1>12, <1>13, <1>14
        DEF WriterNext, RecorderStep, WorkerStep

(* The bounded map never outgrows pending_capacity and the ready queue is  *)
(* exact in every reachable state, so the worker's two expect calls in     *)
(* start_with_metrics never panic.                                         *)
THEOREM QueueInvariant == WriterSpec => [](WriterTypeOK /\ ReadyIsExact)
<1>1. QueueInv => WriterTypeOK /\ ReadyIsExact
    BY DEF QueueInv
<1> QED BY <1>1, QueueInit, QueueStep, PTL DEF WriterSpec

-----------------------------------------------------------------------------
LEMMA HistoryInit == WriterInit => HistoryInv
BY DEF WriterInit, HistoryInv, OwedInFlight, OwedPending, SequencesAreOwed, WatermarksAreOld,
       FlushCoversAccepted, Flush

(* Nothing happens to the acceptances while the map and the flight stay;   *)
(* what a flush call may do then is to return when all it waits for is     *)
(* gone.                                                                   *)
LEMMA HistoryStays ==
    ASSUME QueueInv, HistoryInv,
           UNCHANGED <<by_key, owed, accepted_through, carried>>,
           \/ worker' = worker /\ flight' = flight
           \/ worker # "flying" /\ worker' # "flying"
           \/ /\ worker' = worker
              /\ flight'.key = flight.key /\ flight'.seq = flight.seq /\ flight'.at = flight.at,
           \A f \in Flushers : flusher'[f].watermark \in {flusher[f].watermark, accepted_through},
           FlushCoversAccepted'
    PROVE  HistoryInv'
<1>1. \A x : InFlight(x)' <=> InFlight(x)
    BY DEF InFlight
<1>2. carried # {} => worker = "flying"
    BY DEF QueueInv, FlightInv
<1>3. OwedInFlight'
    BY <1>1, <1>2 DEF HistoryInv, OwedInFlight
<1>4. OwedPending'
    BY DEF HistoryInv, OwedPending
<1>5. SequencesAreOwed'
    BY DEF HistoryInv, SequencesAreOwed
<1>6. WatermarksAreOld'
    BY DEF HistoryInv, WatermarksAreOld, QueueInv, WriterTypeOK
<1> QED BY <1>3, <1>4, <1>5, <1>6 DEF HistoryInv

(* A new acceptance is younger than every other and than every watermark.  *)
LEMMA HistoryAccept ==
    ASSUME QueueInv, HistoryInv, NEW r \in Recorders, Accept(r)
    PROVE  HistoryInv'
<1> DEFINE k == recorder[r].key
           at == recorder[r].at
           seq == accepted_through + 1
           new == [seq |-> seq, key |-> k, at |-> at]
<1>1. /\ k \in Keys /\ at \in Times /\ at \in Int
      /\ accepted_through \in Nat /\ seq \in Sequence /\ seq > accepted_through
    <2>1. recorder[r] \in Observation /\ accepted_through \in Nat
        BY DEF QueueInv, WriterTypeOK, Accept
    <2>2. k \in Keys /\ at \in Times
        BY <2>1 DEF Observation
    <2>3. at \in Int
        BY Zenon, <2>2, StampAssumption
    <2>4. seq \in Sequence /\ seq > accepted_through
        BY <2>1 DEF Sequence, NoSequence
    <2> QED BY ZenonT(30), <2>1, <2>2, <2>3, <2>4
<1>2. /\ owed' = owed \cup {new} /\ accepted_through' = seq
      /\ UNCHANGED <<worker, flight, carried, flusher>>
    BY DEF Accept, workerVars
<1>3. \A x : InFlight(x)' <=> InFlight(x)
    BY <1>2 DEF InFlight
<1>4. /\ owed \subseteq Acceptance /\ carried \subseteq owed
      /\ \A e \in owed : e.seq \in Nat /\ e.seq <= accepted_through /\ e.key \in Keys
                         /\ e.at \in Int
      /\ new \notin owed
    <2>1. owed \subseteq Acceptance /\ carried \subseteq owed
        BY DEF QueueInv, WriterTypeOK, HistoryInv, OwedInFlight
    <2>2. \A e \in owed : e.seq \in Nat /\ e.key \in Keys /\ e.at \in Int
        BY Zenon, <2>1, StampAssumption DEF Acceptance, Sequence
    <2>3. \A e \in owed : e.seq <= accepted_through
        BY DEF HistoryInv, WatermarksAreOld
    <2>4. new.seq = seq /\ ~(seq <= accepted_through)
        BY <1>1
    <2> QED BY <2>1, <2>2, <2>3, <2>4
<1>5. OwedInFlight'
    BY <1>2, <1>3 DEF HistoryInv, OwedInFlight
<1>6. WatermarksAreOld'
    <2>1. \A f \in Flushers : flusher[f].watermark \in Nat
        BY ZenonT(30) DEF QueueInv, WriterTypeOK, Flush
    <2> QED BY <1>1, <1>2, <1>4, <2>1 DEF HistoryInv, WatermarksAreOld
<1>7. FlushCoversAccepted'
    <2>1. \A f \in Flushers : flusher[f].watermark \in Nat /\ flusher[f].watermark < seq
        BY <1>1 DEF QueueInv, WriterTypeOK, Flush, HistoryInv, WatermarksAreOld
    <2> QED BY <1>2, <2>1 DEF HistoryInv, FlushCoversAccepted
<1> DEFINE c == by_key'[k]
<1>8. /\ by_key' = [by_key EXCEPT ![k] = c]
      /\ c # None
      /\ c.pending_oldest = IF by_key[k] # None /\ by_key[k].pending_oldest # NoSequence
                            THEN by_key[k].pending_oldest ELSE seq
      /\ c.latest \in Int /\ c.latest >= at
      /\ c.pending_oldest # NoSequence
      /\ by_key[k] # None => c.latest >= by_key[k].latest
    <2>1. CASE by_key[k] # None
        <3>1. by_key[k] \in PendingActivity
            BY <1>1, <2>1 DEF QueueInv, WriterTypeOK
        <3>2. by_key' = [by_key EXCEPT ![k] = Coalesced(by_key[k], at, seq)]
            BY <2>1 DEF Accept
        <3>3. c = Coalesced(by_key[k], at, seq)
            BY ZenonT(30), <1>1, <3>2 DEF QueueInv, WriterTypeOK
        <3> HIDE DEF c
        <3>4. /\ c \in PendingActivity /\ c.latest \in Times /\ c.latest >= at
              /\ c.latest >= by_key[k].latest
              /\ c.pending_oldest = IF by_key[k].pending_oldest = NoSequence
                                    THEN seq ELSE by_key[k].pending_oldest
              /\ c.pending_oldest # NoSequence
            BY <1>1, <3>1, <3>3, CoalescedFields
        <3>5. c # None
            BY <3>4, NoneIsNoValue
        <3> QED BY Zenon, <2>1, <3>2, <3>3, <3>4, <3>5, StampAssumption
    <2>2. CASE by_key[k] = None
        <3> DEFINE d == [latest |-> at, pending_oldest |-> seq, in_flight_oldest |-> NoSequence]
        <3>1. by_key' = [by_key EXCEPT ![k] = d]
            BY ZenonT(30), <2>2 DEF Accept
        <3>2. c = d
            BY <1>1, <3>1 DEF QueueInv, WriterTypeOK
        <3>3. d \in PendingActivity /\ d # None
            BY <1>1, NoneIsNoValue DEF PendingActivity, Sequence, NoSequence
        <3>4. d.latest = at /\ d.pending_oldest = seq /\ seq # NoSequence /\ at >= at
            BY <1>1 DEF Sequence
        <3> HIDE DEF c, d
        <3> QED BY ZenonT(30), <1>1, <2>2, <3>1, <3>2, <3>3, <3>4
    <2> QED BY <2>1, <2>2
<1>9. \A x \in Keys : by_key'[x] = IF x = k THEN c ELSE by_key[x]
    BY ZenonT(30), <1>1, <1>8 DEF QueueInv, WriterTypeOK
<1>10. new \notin carried
    BY <1>4
<1> HIDE DEF c
<1>11. OwedPending'
    <2> SUFFICES ASSUME NEW e \in owed' \ carried'
                 PROVE  /\ by_key'[e.key] # None
                        /\ by_key'[e.key].pending_oldest # NoSequence
                        /\ by_key'[e.key].pending_oldest <= e.seq
                        /\ by_key'[e.key].latest >= e.at
        BY DEF OwedPending
    <2>1. CASE e = new
        <3>1. by_key[k] # None /\ by_key[k].pending_oldest # NoSequence
                => by_key[k].pending_oldest \in Nat /\ by_key[k].pending_oldest <= accepted_through
            <4>1. by_key[k] # None => by_key[k].pending_oldest \in Nat
                BY ZenonT(30), <1>1 DEF QueueInv, WriterTypeOK, PendingActivity
            <4> QED BY <1>1, <1>4, <4>1 DEF HistoryInv, SequencesAreOwed
        <3>2. c.pending_oldest <= seq
            BY <1>1, <1>8, <3>1 DEF Sequence
        <3>3. e.key = k /\ e.seq = seq /\ e.at = at
            BY <2>1
        <3> QED BY ZenonT(30), <1>1, <1>8, <1>9, <3>2, <3>3
    <2>2. CASE e # new
        <3>1. e \in owed \ carried
            BY ZenonT(30), <1>2, <2>2
        <3>2. /\ by_key[e.key] # None
              /\ by_key[e.key].pending_oldest # NoSequence
              /\ by_key[e.key].pending_oldest <= e.seq
              /\ by_key[e.key].latest >= e.at
              /\ e.key \in Keys /\ e.at \in Int
            BY <1>4, <3>1 DEF HistoryInv, OwedPending
        <3>3. by_key[e.key].latest \in Int
            BY Zenon, <3>2, StampAssumption DEF QueueInv, WriterTypeOK, PendingActivity
        <3>4. CASE e.key = k
            BY <1>8, <1>9, <3>2, <3>3, <3>4
        <3> QED BY <1>9, <3>2, <3>4
    <2> QED BY <2>1, <2>2
<1>12. SequencesAreOwed'
    <2>1. worker' = "flying" => \E e \in carried' : e.seq = flight'.seq
        BY <1>2 DEF HistoryInv, SequencesAreOwed
    <2>2. ASSUME NEW x \in Keys, by_key'[x] # None, by_key'[x].pending_oldest # NoSequence
          PROVE  \E e \in owed' \ carried' : e.key = x /\ e.seq = by_key'[x].pending_oldest
        <3>1. CASE by_key[x] # None /\ by_key[x].pending_oldest # NoSequence
            <4>1. PICK e \in owed \ carried : e.key = x /\ e.seq = by_key[x].pending_oldest
                BY <3>1 DEF HistoryInv, SequencesAreOwed
            <4>2. by_key'[x].pending_oldest = by_key[x].pending_oldest
                BY ZenonT(30), <1>8, <1>9, <3>1
            <4> QED BY <1>2, <4>1, <4>2
        <3>2. CASE ~(by_key[x] # None /\ by_key[x].pending_oldest # NoSequence)
            <4>1. x = k /\ by_key'[x].pending_oldest = seq
                BY <1>8, <1>9, <2>2, <3>2
            <4> QED BY <1>2, <1>10, <4>1
        <3> QED BY <3>1, <3>2
    <2> QED BY <2>1, <2>2 DEF SequencesAreOwed
<1> QED BY <1>5, <1>6, <1>7, <1>11, <1>12 DEF HistoryInv

(* The worker takes all that is owed for the route.                        *)
LEMMA HistoryPops ==
    ASSUME QueueInv, HistoryInv, WorkerPops
    PROVE  HistoryInv'
<1> DEFINE k == Head(ready)
           p == by_key[k]
<1>1. k \in Keys /\ p \in PendingActivity /\ p.pending_oldest \in Sequence /\ p # None
    BY QueuePops, NoneIsNoValue
<1>2. /\ worker = "looking" /\ worker' = "flying"
      /\ carried' = {e \in owed : e.key = k} /\ owed' = owed
      /\ UNCHANGED <<accepted_through, flusher>>
    BY DEF WorkerPops
<1>3. flight'.key = k /\ flight'.at = p.latest /\ flight'.seq = p.pending_oldest
    BY ZenonT(30) DEF WorkerPops
<1>4. carried = {}
    BY <1>2 DEF QueueInv, FlightInv
<1>5. \A x \in Keys : x # k => by_key'[x] = by_key[x]
    BY DEF WorkerPops, QueueInv, WriterTypeOK
<1>6. by_key'[k].pending_oldest = NoSequence
    <2>1. by_key'[k] = [p EXCEPT !.pending_oldest = NoSequence, !.in_flight_oldest = p.pending_oldest]
        BY Zenon, <1>1 DEF WorkerPops, QueueInv, WriterTypeOK
    <2> QED BY <1>1, <2>1 DEF PendingActivity
<1>7. \A e \in owed : e.key \in Keys
    BY ZenonT(30) DEF QueueInv, WriterTypeOK, Acceptance
<1>8. OwedInFlight'
    <2>1. \A e \in carried' : p.pending_oldest <= e.seq /\ p.latest >= e.at
        BY <1>2, <1>4 DEF HistoryInv, OwedPending
    <2> QED BY <1>2, <1>3, <2>1 DEF OwedInFlight, InFlight
<1>9. OwedPending'
    <2>1. \A e \in owed' \ carried' : e \in owed \ carried /\ e.key # k /\ e.key \in Keys
        BY <1>2, <1>4, <1>7
    <2> QED BY <1>5, <2>1 DEF HistoryInv, OwedPending
<1>10. SequencesAreOwed'
    <2>1. PICK o \in owed : o.key = k /\ o.seq = p.pending_oldest
        BY <1>1 DEF HistoryInv, SequencesAreOwed, Sequence
    <2>2. o \in carried' /\ o.seq = flight'.seq
        BY <1>2, <1>3, <2>1
    <2>3. ASSUME NEW x \in Keys, by_key'[x] # None, by_key'[x].pending_oldest # NoSequence
          PROVE  \E e \in owed' \ carried' : e.key = x /\ e.seq = by_key'[x].pending_oldest
        <3>1. x # k /\ by_key'[x] = by_key[x]
            BY <1>5, <1>6, <2>3
        <3>2. PICK e \in owed \ carried : e.key = x /\ e.seq = by_key[x].pending_oldest
            BY <2>3, <3>1 DEF HistoryInv, SequencesAreOwed
        <3> QED BY <1>2, <3>1, <3>2
    <2> QED BY <2>2, <2>3 DEF SequencesAreOwed
<1>11. WatermarksAreOld' /\ FlushCoversAccepted'
    BY <1>2 DEF HistoryInv, WatermarksAreOld, FlushCoversAccepted
<1> QED BY <1>8, <1>9, <1>10, <1>11 DEF HistoryInv

(* What the persist stood for is no longer owed.                           *)
LEMMA HistoryFinishes ==
    ASSUME QueueInv, HistoryInv, WorkerFinishes
    PROVE  HistoryInv'
<1> DEFINE k == flight.key
           p == by_key[k]
<1>1. flight \in Flights /\ k \in Keys /\ p \in PendingActivity /\ p # None
    BY QueueFinishes, NoneIsNoValue DEF Flights
<1>2. /\ worker' = "looking" /\ carried' = {} /\ owed' = owed \ carried
      /\ accepted_through' = accepted_through
    BY DEF WorkerFinishes
<1>3. \A f \in Flushers : /\ flusher'[f].place = flusher[f].place
                          /\ flusher'[f].watermark = flusher[f].watermark
    BY NotifyTypes DEF QueueInv, WriterTypeOK, WorkerFinishes
<1>4. \A x \in Keys : x # k => by_key'[x] = by_key[x]
    BY DEF WorkerFinishes, QueueInv, WriterTypeOK
<1>5. IF p.pending_oldest # NoSequence
      THEN by_key'[k] # None /\ by_key'[k].pending_oldest = p.pending_oldest
                             /\ by_key'[k].latest = p.latest
      ELSE by_key'[k] = None
    <2>1. CASE p.pending_oldest # NoSequence
        <3> DEFINE c == [p EXCEPT !.in_flight_oldest = NoSequence]
        <3>1. by_key'[k] = c
            BY <1>1, <2>1 DEF WorkerFinishes, HasLaterActivity, QueueInv, WriterTypeOK
        <3>2. c \in PendingActivity /\ c.pending_oldest = p.pending_oldest /\ c.latest = p.latest
            BY <1>1 DEF PendingActivity, NoSequence
        <3> QED BY <2>1, <3>1, <3>2, NoneIsNoValue
    <2>2. CASE p.pending_oldest = NoSequence
        BY <1>1, <2>2 DEF WorkerFinishes, HasLaterActivity, QueueInv, WriterTypeOK
    <2> QED BY <2>1, <2>2
<1>6. OwedInFlight'
    BY <1>2 DEF OwedInFlight
<1>7. \A e \in owed : e.key \in Keys
    BY DEF QueueInv, WriterTypeOK, Acceptance
<1>8. OwedPending'
    BY <1>2, <1>4, <1>5, <1>7 DEF HistoryInv, OwedPending
<1>9. SequencesAreOwed'
    <2>1. ASSUME NEW x \in Keys, by_key'[x] # None, by_key'[x].pending_oldest # NoSequence
          PROVE  \E e \in owed' \ carried' : e.key = x /\ e.seq = by_key'[x].pending_oldest
        <3>1. /\ by_key[x] # None
              /\ by_key[x].pending_oldest # NoSequence
              /\ by_key'[x].pending_oldest = by_key[x].pending_oldest
            BY <1>1, <1>4, <1>5, <2>1
        <3>2. PICK e \in owed \ carried : e.key = x /\ e.seq = by_key[x].pending_oldest
            BY <3>1 DEF HistoryInv, SequencesAreOwed
        <3> QED BY <1>2, <3>1, <3>2
    <2> QED BY <1>2, <2>1 DEF SequencesAreOwed
<1>10. WatermarksAreOld' /\ FlushCoversAccepted'
    BY <1>2, <1>3 DEF HistoryInv, WatermarksAreOld, FlushCoversAccepted
<1> QED BY <1>6, <1>8, <1>9, <1>10 DEF HistoryInv

(* The watermark test of flush looks at the map, and sees every acceptance *)
(* that is still owed.                                                     *)
LEMMA TestIsExact ==
    ASSUME QueueInv, HistoryInv, NEW w \in Nat
    PROVE  WatermarkIsComplete(w) <=> \A e \in owed : e.seq > w
<1>1. /\ \A e \in owed : e.seq \in Nat /\ e.key \in Keys
      /\ \A k \in Keys : by_key[k] # None => by_key[k] \in PendingActivity
    BY DEF QueueInv, WriterTypeOK, Acceptance, Sequence
<1>2. \A k \in Keys : by_key[k] # None => /\ by_key[k].pending_oldest \in Nat
                                         /\ by_key[k].in_flight_oldest \in Nat
    BY <1>1 DEF PendingActivity
<1>3. ASSUME WatermarkIsComplete(w), NEW e \in owed PROVE e.seq > w
    <2>1. CASE e \in carried
        <3>1. InFlight(e.key) /\ flight.seq <= e.seq
            BY <2>1 DEF HistoryInv, OwedInFlight
        <3>2. /\ by_key[e.key] # None /\ by_key[e.key].in_flight_oldest = flight.seq
              /\ flight.seq \in Nat /\ flight.seq # NoSequence
            BY <1>1, <3>1 DEF QueueInv, WriterTypeOK, FlightInv, InFlight, Flights, Sequence
        <3>3. flight.seq > w
            BY <1>1, <1>3, <3>2 DEF WatermarkIsComplete, Resident, Passed
        <3> QED BY <1>1, <3>1, <3>2, <3>3
    <2>2. CASE e \notin carried
        <3>1. /\ by_key[e.key] # None
              /\ by_key[e.key].pending_oldest # NoSequence
              /\ by_key[e.key].pending_oldest <= e.seq
            BY <2>2 DEF HistoryInv, OwedPending
        <3>2. by_key[e.key].pending_oldest > w
            BY <1>1, <1>3, <3>1 DEF WatermarkIsComplete, Resident, Passed
        <3> QED BY <1>1, <1>2, <3>1, <3>2
    <2> QED BY <2>1, <2>2
<1>4. ASSUME \A e \in owed : e.seq > w, NEW k \in Resident
      PROVE  Passed(by_key[k].in_flight_oldest, w) /\ Passed(by_key[k].pending_oldest, w)
    <2>1. k \in Keys /\ by_key[k] # None
        BY DEF Resident
    <2>2. Passed(by_key[k].pending_oldest, w)
        BY <1>4, <2>1 DEF HistoryInv, SequencesAreOwed, Passed
    <2>3. CASE InFlight(k)
        <3>1. PICK e \in carried : e.seq = flight.seq
            BY <2>3 DEF HistoryInv, SequencesAreOwed, InFlight
        <3>2. e \in owed /\ by_key[k].in_flight_oldest = flight.seq
            BY <2>1, <2>3, <3>1 DEF HistoryInv, OwedInFlight, QueueInv, FlightInv
        <3> QED BY <1>4, <2>2, <3>1, <3>2 DEF Passed
    <2>4. CASE ~InFlight(k)
        BY <2>1, <2>2, <2>4 DEF QueueInv, FlightInv, Passed
    <2> QED BY <2>3, <2>4
<1> QED BY <1>3, <1>4 DEF WatermarkIsComplete

LEMMA HistoryStep == QueueInv /\ HistoryInv /\ [WriterNext]_writerVars => HistoryInv'
<1> SUFFICES ASSUME QueueInv, HistoryInv, [WriterNext]_writerVars PROVE HistoryInv'
    OBVIOUS
<1> DEFINE Still == UNCHANGED <<by_key, owed, accepted_through, carried>>
           SameWorker == \/ worker' = worker /\ flight' = flight
                         \/ worker # "flying" /\ worker' # "flying"
                         \/ /\ worker' = worker
                            /\ flight'.key = flight.key /\ flight'.seq = flight.seq
                            /\ flight'.at = flight.at
           SameFlushes == \A f \in Flushers : /\ flusher'[f].place = flusher[f].place
                                             /\ flusher'[f].watermark = flusher[f].watermark
<1>1. Still /\ SameWorker /\ SameFlushes => HistoryInv'
    <2>1. Still /\ SameFlushes => FlushCoversAccepted'
        BY DEF HistoryInv, FlushCoversAccepted
    <2> QED BY <2>1, HistoryStays
<1>2. ASSUME NEW r \in Recorders, NEW k \in Keys, NEW at \in Times, Observe(r, k, at)
      PROVE  HistoryInv'
    BY <1>1, <1>2 DEF Observe, queueVars, workerVars
<1>3. ASSUME NEW r \in Recorders, Drop(r) \/ Wake(r) PROVE HistoryInv'
    BY <1>1, <1>3 DEF Drop, Wake, queueVars, workerVars
<1>4. ASSUME NEW r \in Recorders, Accept(r) PROVE HistoryInv'
    BY <1>4, HistoryAccept
<1>5. CASE WorkerWakes
    BY <1>1, <1>5 DEF WorkerWakes, queueVars
<1>6. CASE WorkerSleeps
    <2>1. SameFlushes
        BY <1>6, NotifyTypes DEF WorkerSleeps, QueueInv, WriterTypeOK
    <2> QED BY Zenon, <1>1, <1>6, <2>1 DEF WorkerSleeps, queueVars
<1>7. CASE WorkerPops
    BY <1>7, HistoryPops
<1>8. CASE WorkerPersists
    BY <1>1, <1>8, QueuePersists DEF WorkerPersists, queueVars
<1>9. CASE WorkerFinishes
    BY <1>9, HistoryFinishes
<1>10. ASSUME NEW f \in Flushers, FlushStart(f) \/ FlusherStep(f) PROVE HistoryInv'
    <2>1. Still /\ SameWorker
        BY <1>10 DEF FlushStart, FlusherStep, FlushArm, FlushCheck, FlushPark, FlushWake, queueVars, workerVars
    <2>2. flusher \in [Flushers -> Flush] /\ flusher[f] \in Flush
        BY DEF QueueInv, WriterTypeOK
    <2>3. CASE FlushCheck(f)
        <3>1. /\ \A g \in Flushers : flusher'[g].watermark = flusher[g].watermark
              /\ \A g \in Flushers : g # f => flusher'[g] = flusher[g]
              /\ flusher'[f].place = "returned" => WatermarkIsComplete(flusher[f].watermark)
            BY <2>2, <2>3 DEF FlushCheck, Flush
        <3>2. flusher'[f].place = "returned" => \A e \in owed : e.seq > flusher[f].watermark
            BY <2>2, <3>1, TestIsExact DEF Flush
        <3>3. FlushCoversAccepted'
            BY <2>1, <3>1, <3>2 DEF HistoryInv, FlushCoversAccepted
        <3> QED BY <2>1, <3>1, <3>3, HistoryStays
    <2>4. CASE FlushStart(f) \/ FlushArm(f) \/ FlushPark(f) \/ FlushWake(f)
        <3>1. /\ \A g \in Flushers : flusher'[g].watermark \in {flusher[g].watermark, accepted_through}
              /\ \A g \in Flushers : g # f => flusher'[g] = flusher[g]
              /\ flusher'[f].place # "returned"
            BY <2>2, <2>4 DEF FlushStart, FlushArm, FlushPark, FlushWake, Flush
        <3>2. FlushCoversAccepted'
            BY <2>1, <3>1 DEF HistoryInv, FlushCoversAccepted
        <3> QED BY <2>1, <3>1, <3>2, HistoryStays
    <2> QED BY <1>10, <2>3, <2>4 DEF FlusherStep
<1>11. ASSUME NEW k \in Keys, RouteDeleted(k) \/ \E at \in Times : RouteAdded(k, at)
       PROVE  HistoryInv'
    BY <1>1, <1>11 DEF RouteDeleted, RouteAdded, queueVars, workerVars
<1>12. CASE UNCHANGED writerVars
    BY <1>1, <1>12 DEF writerVars, queueVars, workerVars
<1> QED BY <1>2, <1>3, <1>4, <1>5, <1>6, <1>7, <1>8, <1>9, <1>10, <1>11, <1>12
        DEF WriterNext, RecorderStep, WorkerStep

(* What was accepted is kept: the stamp being persisted is the newest of   *)
(* those it stands for, and a flush that has returned left nothing behind  *)
(* that was accepted before it was called.                                 *)
THEOREM AcceptancesAreKept == WriterSpec => [](CoalescingKeepsNewest /\ FlushCoversAccepted)
<1>1. HistoryInv => CoalescingKeepsNewest /\ FlushCoversAccepted
    BY DEF HistoryInv, OwedInFlight, CoalescingKeepsNewest
<1> QED BY <1>1, QueueInit, QueueStep, HistoryInit, HistoryStep, PTL DEF WriterSpec

(* flush waits only while something accepted before it was called is owed, *)
(* so newer activity never holds it up.                                    *)
THEOREM FlushIsNotStarved == WriterSpec => FlushWaitsOnlyForAccepted
<1> DEFINE Waits ==
        \A f \in Flushers :
            (flusher[f].place = "checking" /\ flusher'[f].place = "refused") =>
                \E e \in owed : e.seq <= flusher[f].watermark
<1>1. QueueInv /\ HistoryInv /\ [WriterNext]_writerVars => [Waits]_writerVars
    <2> SUFFICES ASSUME QueueInv, HistoryInv, [WriterNext]_writerVars, NEW f \in Flushers,
                        flusher[f].place = "checking", flusher'[f].place = "refused"
                 PROVE  \E e \in owed : e.seq <= flusher[f].watermark
        BY ZenonT(30)
    <2>1. flusher \in [Flushers -> Flush] /\ flusher[f].watermark \in Nat
        BY ZenonT(30) DEF QueueInv, WriterTypeOK, Flush
    <2>2. FlushCheck(f)
        <3>1. flusher' # flusher
            OBVIOUS
        <3>2. ~NotifyWaiters
            BY <2>1, NotifyTypes
        <3>3. PICK g \in Flushers : FlushStart(g) \/ FlusherStep(g)
            BY Zenon, <3>1, <3>2
            DEF WriterNext, RecorderStep, WorkerStep, Observe, Drop, Accept, Wake, WorkerWakes,
                WorkerSleeps, WorkerPops, WorkerPersists, WorkerFinishes, RouteAdded, RouteDeleted, writerVars
        <3>4. g = f
            BY <2>1, <3>3 DEF FlushStart, FlusherStep, FlushArm, FlushCheck, FlushPark, FlushWake
        <3>5. CASE FlushArm(f) \/ FlushPark(f) \/ FlushWake(f) \/ FlushStart(f)
            BY <2>1, <3>5 DEF FlushStart, FlushArm, FlushPark, FlushWake
        <3> QED BY <3>3, <3>4, <3>5 DEF FlusherStep
    <2>3. ~WatermarkIsComplete(flusher[f].watermark)
        BY <2>1, <2>2 DEF FlushCheck, Flush
    <2>4. PICK e \in owed : ~(e.seq > flusher[f].watermark)
        BY <2>1, <2>3, TestIsExact
    <2>5. e.seq \in Nat
        BY DEF QueueInv, WriterTypeOK, Acceptance, Sequence
    <2> QED BY <2>1, <2>4, <2>5
<1> QED BY <1>1, QueueInit, QueueStep, HistoryInit, HistoryStep, PTL
        DEF WriterSpec, FlushWaitsOnlyForAccepted

-----------------------------------------------------------------------------
LEMMA CoverInit == QueueInv /\ WriterInit => CoverInv
<1> SUFFICES ASSUME WriterInit, NEW k \in Keys, route[k] # None
             PROVE  persisted[k] # None /\ persisted[k] >= route[k]
    BY DEF CoverInv
<1>1. route[k] \in Int /\ persisted[k] = route[k]
    BY Zenon, StampAssumption DEF WriterInit
<1> QED BY <1>1

(* The store catches up, or the stamp moves from hand to hand: thread,     *)
(* pending map, worker.                                                    *)
LEMMA CoverStep == QueueInv /\ CoverInv /\ [WriterNext]_writerVars => CoverInv'
<1> SUFFICES ASSUME QueueInv, CoverInv, [WriterNext]_writerVars,
                    NEW x \in Keys, (route[x] # None /\ x \notin counted)'
             PROVE  (persisted'[x] # None /\ persisted'[x] >= route'[x]) \/ Underway(x)'
    BY DEF CoverInv
<1> DEFINE Done == persisted[x] # None /\ persisted[x] >= route[x]
<1>1. /\ \A k \in Keys : route[k] # None => route[k] \in Times /\ route[k] \in Int
      /\ \A k \in Keys : persisted[k] # None => persisted[k] \in Int
      /\ \A k \in Keys : by_key[k] # None => by_key[k] \in PendingActivity /\ by_key[k].latest \in Int
      /\ \A r \in Recorders : recorder[r] # None =>
            recorder[r].key \in Keys /\ recorder[r].at \in Times /\ recorder[r].at \in Int
    BY Zenon, StampAssumption DEF QueueInv, WriterTypeOK, PendingActivity, Observation
<1>2. (route[x] # None /\ x \notin counted) => Done \/ Underway(x)
    BY DEF CoverInv
<1>3. ASSUME NEW r \in Recorders, NEW k \in Keys, NEW at \in Times, Observe(r, k, at)
      PROVE  Done' \/ Underway(x)'
    <2>1. recorder'[r] = [key |-> k, at |-> at] /\ recorder[r] = None /\ at \in Int
        BY <1>3, StampAssumption DEF Observe, QueueInv, WriterTypeOK
    <2>2. recorder'[r] # None
        <3>1. recorder'[r] \in Observation
            BY <2>1 DEF Observation
        <3> QED BY <3>1, NoneIsNoValue
    <2>3. CASE x = k
        <3>1. route'[x] = at
            BY ZenonT(30), <1>3, <2>3 DEF Observe, QueueInv, WriterTypeOK
        <3>2. recorder'[r].key = x /\ recorder'[r].at >= route'[x]
            BY <2>1, <2>3, <3>1
        <3> QED BY <2>2, <3>2 DEF Underway
    <2>4. CASE x # k
        <3>1. /\ route'[x] = route[x] /\ x \notin counted
              /\ UNCHANGED <<persisted, by_key, worker, flight>>
              /\ \A q \in Recorders : q # r => recorder'[q] = recorder[q]
            BY ZenonT(30), <1>3, <2>4 DEF Observe, QueueInv, WriterTypeOK, queueVars, workerVars
        <3>2. Underway(x) => Underway(x)'
            BY ZenonT(30), <2>1, <3>1 DEF Underway, InFlight
        <3> QED BY <1>2, <3>1, <3>2
    <2> QED BY ZenonT(30), <2>3, <2>4
<1>4. ASSUME NEW r \in Recorders, Drop(r) PROVE Done' \/ Underway(x)'
    <2>1. /\ x # recorder[r].key /\ x \notin counted
          /\ UNCHANGED <<route, persisted, by_key, worker, flight>>
          /\ \A q \in Recorders : q # r => recorder'[q] = recorder[q]
        BY <1>4 DEF Drop, QueueInv, WriterTypeOK, queueVars, workerVars
    <2>2. Underway(x) => Underway(x)'
        BY Zenon, <2>1 DEF Underway, InFlight
    <2> QED BY <1>2, <2>1, <2>2
<1>5. ASSUME NEW r \in Recorders, Accept(r) PROVE Done' \/ Underway(x)'
    <2> DEFINE k == recorder[r].key
               at == recorder[r].at
               seq == accepted_through + 1
    <2>1. k \in Keys /\ at \in Times /\ at \in Int /\ seq \in Sequence
        <3>1. recorder[r] # None
            BY <1>5 DEF Accept
        <3>2. k \in Keys /\ at \in Times /\ at \in Int
            BY <1>1, <3>1
        <3>3. accepted_through \in Nat
            BY DEF QueueInv, WriterTypeOK
        <3>4. seq \in Sequence
            BY <3>3 DEF Sequence, NoSequence
        <3> QED BY ZenonT(30), <3>2, <3>4
    <2>2. /\ UNCHANGED <<route, persisted, counted, worker, flight>>
          /\ \A q \in Recorders : q # r => recorder'[q] = recorder[q]
          /\ \A y \in Keys : y # k => by_key'[y] = by_key[y]
        BY ZenonT(30), <1>5 DEF Accept, QueueInv, WriterTypeOK, registryVars, workerVars
    <2>3. CASE x # k
        <3>1. Underway(x) => Underway(x)'
            BY <2>2, <2>3 DEF Underway, InFlight
        <3> QED BY <1>2, <2>2, <3>1
    <2>4. CASE x = k
        <3>1. /\ by_key'[k] # None
              /\ by_key'[k].pending_oldest # NoSequence
              /\ by_key'[k].latest \in Int /\ by_key'[k].latest >= at
              /\ by_key[k] # None => by_key'[k].latest >= by_key[k].latest
            <4>1. CASE by_key[k] # None
                <5> DEFINE c == Coalesced(by_key[k], at, seq)
                <5>1. by_key'[k] = c
                    BY Zenon, <1>5, <2>1, <4>1 DEF Accept, QueueInv, WriterTypeOK
                <5>2. /\ c \in PendingActivity /\ c.pending_oldest # NoSequence
                      /\ c.latest \in Times /\ c.latest >= at /\ c.latest >= by_key[k].latest
                    BY Zenon, <1>1, <2>1, <4>1, CoalescedFields
                <5>3. c # None /\ c.latest \in Int
                    BY Zenon, <5>2, NoneIsNoValue, StampAssumption
                <5> HIDE DEF c
                <5> QED BY <5>1, <5>2, <5>3
            <4>2. CASE by_key[k] = None
                <5> DEFINE d == [latest |-> at, pending_oldest |-> seq, in_flight_oldest |-> NoSequence]
                <5>1. by_key'[k] = d
                    BY Zenon, <1>5, <2>1, <4>2 DEF Accept, QueueInv, WriterTypeOK
                <5>2. d \in PendingActivity
                    BY Zenon, <2>1 DEF PendingActivity, Sequence, NoSequence
                <5>3. d # None
                    BY <5>2, NoneIsNoValue
                <5>4. d.latest = at /\ d.pending_oldest = seq /\ seq # NoSequence /\ at >= at
                    BY <2>1 DEF Sequence
                <5> HIDE DEF d
                <5> QED BY <2>1, <4>2, <5>1, <5>3, <5>4
            <4> QED BY Zenon, <4>1, <4>2
        <3>2. route[x] \in Int
            BY <1>1, <2>2
        <3>3. CASE Done
            BY ZenonT(30), <2>2, <3>3
        <3>4. CASE \E q \in Recorders : recorder[q] # None /\ recorder[q].key = x /\ recorder[q].at >= route[x]
            <4>1. PICK q \in Recorders : recorder[q] # None /\ recorder[q].key = x /\ recorder[q].at >= route[x]
                BY ZenonT(30), <3>4
            <4>2. CASE q = r
                <5>1. by_key'[x].latest >= route'[x]
                    BY <2>1, <2>2, <2>4, <3>1, <3>2, <4>1, <4>2
                <5> QED BY ZenonT(30), <2>4, <3>1, <5>1 DEF Underway
            <4>3. CASE q # r
                BY ZenonT(30), <2>2, <4>1, <4>3 DEF Underway
            <4> QED BY <4>2, <4>3
        <3>5. CASE by_key[x] # None /\ by_key[x].latest >= route[x]
            <4>1. by_key'[x].latest >= route'[x]
                <5>1. by_key[x].latest \in Int
                    BY <1>1, <3>5
                <5>2. by_key'[x].latest \in Int /\ by_key'[x].latest >= by_key[x].latest
                    BY <2>4, <3>1, <3>5
                <5>3. route'[x] = route[x]
                    BY <2>2
                <5>4. by_key[x].latest >= route[x]
                    BY <3>5
                <5> QED BY <3>2, <5>1, <5>2, <5>3, <5>4
            <4> QED BY <2>4, <3>1, <4>1 DEF Underway
        <3>6. CASE InFlight(x) /\ ~flight.written /\ flight.at >= route[x]
            BY <2>2, <3>6 DEF Underway, InFlight
        <3> QED BY Zenon, <1>2, <2>2, <3>3, <3>4, <3>5, <3>6 DEF Underway
    <2> QED BY <2>3, <2>4
<1>6. CASE WorkerPops
    <2> DEFINE k == Head(ready)
               p == by_key[k]
    <2>1. k \in Keys /\ p \in PendingActivity
        BY <1>6, QueuePops
    <2>2. /\ UNCHANGED <<route, persisted, counted, recorder>>
          /\ worker = "looking" /\ worker' = "flying"
          /\ flight'.key = k /\ flight'.at = p.latest /\ ~flight'.written
          /\ \A y \in Keys : y # k => by_key'[y] = by_key[y]
        BY <1>6 DEF WorkerPops, QueueInv, WriterTypeOK, registryVars, recorderVars
    <2>3. CASE x = k
        BY <1>2, <2>2, <2>3 DEF Underway, InFlight
    <2>4. CASE x # k
        BY <1>2, <2>2, <2>4 DEF Underway, InFlight
    <2> QED BY <2>3, <2>4
<1>7. CASE WorkerPersists
    <2>1. /\ flight \in Flights /\ flight'.key = flight.key /\ flight.key \in Keys /\ flight.at \in Int
        BY Zenon, <1>7, QueuePersists, StampAssumption DEF Flights
    <2>2. UNCHANGED <<route, by_key, recorder, worker>>
        BY <1>7 DEF WorkerPersists, queueVars, recorderVars
    <2>3. CASE x # flight.key
        <3>1. persisted'[x] = persisted[x] /\ x \notin counted
            BY <1>7, <2>1, <2>3 DEF WorkerPersists, PersistObserved, QueueInv, WriterTypeOK
        <3>2. Underway(x) => Underway(x)'
            BY <2>1, <2>2, <2>3 DEF Underway, InFlight
        <3> QED BY <1>2, <2>2, <3>1, <3>2
    <2>4. CASE x = flight.key
        <3>1. persisted' = PersistObserved(x, flight.at)
            BY <1>7, <2>4 DEF WorkerPersists
        <3>2. route[x] # None /\ route[x] \in Int
            BY <1>1, <2>2
        <3>3. persisted'[x] = Newest(route[x], flight.at)
            BY <3>1, <3>2 DEF PersistObserved, QueueInv, WriterTypeOK
        <3>4. persisted'[x] \in Times /\ persisted'[x] >= route[x]
            BY <1>1, <2>1, <3>2, <3>3 DEF Newest, Flights
        <3> QED BY <2>2, <3>4, NoneIsNoValue
    <2> QED BY <2>3, <2>4
<1>8. CASE WorkerFinishes
    <2>1. /\ flight \in Flights /\ flight.key \in Keys /\ by_key[flight.key] \in PendingActivity
          /\ worker = "flying" /\ flight.written
        BY <1>8, QueueFinishes DEF Flights, WorkerFinishes
    <2>2. UNCHANGED <<route, persisted, counted, recorder>>
        BY <1>8 DEF WorkerFinishes, registryVars, recorderVars
    <2>3. ASSUME by_key[x] # None, by_key[x].pending_oldest # NoSequence
          PROVE  /\ by_key'[x] # None
                 /\ by_key'[x].pending_oldest # NoSequence
                 /\ by_key'[x].latest = by_key[x].latest
        <3>1. CASE x # flight.key
            BY <1>8, <2>3, <3>1 DEF WorkerFinishes, QueueInv, WriterTypeOK
        <3>2. CASE x = flight.key
            <4> DEFINE c == [by_key[x] EXCEPT !.in_flight_oldest = NoSequence]
            <4>1. by_key'[x] = c
                BY <1>8, <2>1, <2>3, <3>2 DEF WorkerFinishes, HasLaterActivity, QueueInv, WriterTypeOK
            <4>2. /\ c \in PendingActivity /\ c.latest = by_key[x].latest
                  /\ c.pending_oldest = by_key[x].pending_oldest
                BY ZenonT(30), <2>1, <3>2 DEF PendingActivity, NoSequence
            <4> QED BY <2>3, <4>1, <4>2, NoneIsNoValue
        <3> QED BY <3>1, <3>2
    <2> QED BY <1>2, <2>1, <2>2, <2>3 DEF Underway, InFlight
<1>9. ASSUME UNCHANGED <<route, persisted, counted, by_key, recorder, flight>>,
             worker' = worker \/ (worker # "flying" /\ worker' # "flying")
      PROVE  Done' \/ Underway(x)'
    BY <1>2, <1>9 DEF Underway, InFlight
<1>10. ASSUME NEW r \in Recorders, Wake(r) PROVE Done' \/ Underway(x)'
    BY <1>9, <1>10 DEF Wake, registryVars, queueVars, workerVars
<1>11. CASE WorkerWakes \/ WorkerSleeps
    BY <1>9, <1>11 DEF WorkerWakes, WorkerSleeps, registryVars, queueVars, recorderVars
<1>12. ASSUME NEW f \in Flushers, FlushStart(f) \/ FlusherStep(f) PROVE Done' \/ Underway(x)'
    BY <1>9, <1>12 DEF FlushStart, FlusherStep, FlushArm, FlushCheck, FlushPark, FlushWake,
                       registryVars, queueVars, workerVars, recorderVars
<1>13. ASSUME NEW k \in Keys, RouteDeleted(k) \/ \E at \in Times : RouteAdded(k, at)
       PROVE  Done' \/ Underway(x)'
    <2>1. UNCHANGED <<by_key, recorder, worker, flight>>
        BY ZenonT(30), <1>13 DEF RouteDeleted, RouteAdded, queueVars, workerVars, recorderVars
    <2>2. CASE x # k
        <3>1. route'[x] = route[x] /\ persisted'[x] = persisted[x] /\ x \notin counted
            BY Zenon, <1>13, <2>2 DEF RouteDeleted, RouteAdded, QueueInv, WriterTypeOK
        <3> QED BY <1>2, <2>1, <3>1 DEF Underway, InFlight
    <2>3. CASE x = k
        <3>1. PICK at \in Times : RouteAdded(k, at)
            BY <1>13, <2>3 DEF RouteDeleted, QueueInv, WriterTypeOK
        <3>2. route'[x] = at /\ persisted'[x] = at /\ at \in Int /\ at # None
            BY <2>3, <3>1, StampAssumption, NoneIsNoValue DEF RouteAdded, QueueInv, WriterTypeOK
        <3> QED BY <3>2
    <2> QED BY <2>2, <2>3
<1>14. CASE UNCHANGED writerVars
    BY Zenon, <1>9, <1>14 DEF writerVars, registryVars, queueVars, workerVars, recorderVars
<1> QED BY Zenon, <1>3, <1>4, <1>5, <1>6, <1>7, <1>8, <1>10, <1>11, <1>12, <1>13, <1>14
        DEF WriterNext, RecorderStep, WorkerStep

(* No published activity is lost silently: a route with nothing queued,    *)
(* and no drop or failure counted, has its stamp in the backing store.     *)
THEOREM NothingLostSilently == WriterSpec => []UncountedIsPersisted
<1>1. QueueInv /\ CoverInv => UncountedIsPersisted
    <2> SUFFICES ASSUME QueueInv, CoverInv, NEW k \in Keys,
                        route[k] # None, k \notin counted, by_key[k] = None,
                        \A r \in Recorders : recorder[r] # None => recorder[r].key # k
                 PROVE  persisted[k] >= route[k]
        BY DEF UncountedIsPersisted
    <2>1. ~InFlight(k)
        BY DEF QueueInv, FlightInv
    <2>2. ~Underway(k)
        BY <2>1 DEF Underway
    <2> QED BY <2>2 DEF CoverInv
<1>2. WriterInit => CoverInv
    BY QueueInit, CoverInit
<1> QED BY <1>1, <1>2, QueueInit, QueueStep, CoverStep, PTL DEF WriterSpec

(* The pending map never exceeds its capacity and every variable keeps its *)
(* type, whatever recorders, flushers and the worker do.                   *)
THEOREM WriterTypeCorrect == WriterSpec => []WriterTypeOK
  BY QueueInvariant, PTL

(* The stamp the worker persists for a route is not older than any stamp   *)
(* of the acceptances it persists it for.                                  *)
THEOREM CoalescingIsSafe == WriterSpec => []CoalescingKeepsNewest
  BY AcceptancesAreKept, PTL
=============================================================================
