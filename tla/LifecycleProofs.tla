--------------------------- MODULE LifecycleProofs ---------------------------
(***************************************************************************)
(* The safety properties of the two lifecycles a shutdown goes through:    *)
(* that of the traffic (TrafficLifecycle), for any finite set of requests, *)
(* and that of the process (ProcessLifecycle), for any command lines.      *)
(***************************************************************************)
EXTENDS ProcessLifecycle, TrafficLifecycle, FiniteSetTheorems, TLAPS

(* What the coordinator may conclude from a clean wait for the stop.       *)
TrafficStopInv ==
    /\ exit_guard # "armed" => ~accepting
    /\ accepts_stopped => exit_guard # "armed"
    /\ (phase # "stop" /\ "stop" \notin timed_out) => accepts_stopped

TrafficInv == TrafficTypeOK /\ ActiveIsExact /\ TrafficStopInv /\ DrainIsFinal

LEMMA CountedFinite == IsFiniteSet(Counted) /\ Cardinality(Counted) \in Nat
<1>1. Counted \subseteq Requests
    BY Zenon DEF Counted
<1>2. IsFiniteSet(Counted)
    BY Zenon, <1>1, FS_Subset, RequestsAssumption
<1> QED BY Zenon, <1>2, FS_CardinalityType

(* A request that moves changes the set of counted requests by itself only.*)
LEMMA CountedMoves ==
    ASSUME TrafficTypeOK, NEW r \in Requests, NEW p \in Places, Go(r, p)
    PROVE  /\ p \in {"rechecking", "served", "loading", "swapping"} /\ r \notin Counted
                => Cardinality(Counted') = Cardinality(Counted) + 1
           /\ p \notin {"rechecking", "served", "loading", "swapping"} /\ r \in Counted
                => Cardinality(Counted') = Cardinality(Counted) - 1
           /\ (p \in {"rechecking", "served", "loading", "swapping"} <=> r \in Counted)
                => Counted' = Counted
           /\ place' \in [Requests -> Places]
           /\ place'[r] = p
           /\ \A q \in Requests : q # r => place'[q] = place[q]
<1>1. /\ place' \in [Requests -> Places]
      /\ place'[r] = p
      /\ \A q \in Requests : q # r => place'[q] = place[q]
    BY Zenon DEF Go, TrafficTypeOK
<1>2. CASE p \in {"rechecking", "served", "loading", "swapping"} /\ r \notin Counted
    <2>1. Counted' = Counted \cup {r}
        BY Zenon, <1>1, <1>2 DEF Counted
    <2>2. Cardinality(Counted') = Cardinality(Counted) + 1
        BY Zenon, <1>2, <2>1, CountedFinite, FS_AddElement
    <2> QED BY Zenon, <1>1, <1>2, <2>2
<1>3. CASE p \notin {"rechecking", "served", "loading", "swapping"} /\ r \in Counted
    <2>1. Counted' = Counted \ {r}
        BY Zenon, <1>1, <1>3 DEF Counted
    <2>2. Cardinality(Counted') = Cardinality(Counted) - 1
        BY Zenon, <1>3, <2>1, CountedFinite, FS_RemoveElement
    <2> QED BY Zenon, <1>1, <1>3, <2>2
<1>4. CASE p \in {"rechecking", "served", "loading", "swapping"} <=> r \in Counted
    <2>1. Counted' = Counted
        BY Zenon, <1>1, <1>4 DEF Counted
    <2> QED BY Zenon, <1>1, <1>4, <2>1
<1> QED BY Zenon, <1>2, <1>3, <1>4

LEMMA TrafficInitial == TrafficInit => TrafficInv
<1> SUFFICES ASSUME TrafficInit PROVE TrafficInv
    BY Zenon
<1>1. TrafficTypeOK
    BY Zenon DEF TrafficInit, TrafficTypeOK, Places
<1>2. Counted = {}
    BY Zenon DEF TrafficInit, Counted
<1>3. ActiveIsExact
    BY Zenon, <1>2, FS_EmptySet DEF ActiveIsExact, TrafficInit
<1>4. TrafficStopInv /\ DrainIsFinal
    BY Zenon DEF TrafficInit, TrafficStopInv, DrainIsFinal
<1> QED BY Zenon, <1>1, <1>3, <1>4 DEF TrafficInv

LEMMA TrafficStep == TrafficInv /\ [TrafficNext]_trafficVars => TrafficInv'
<1> SUFFICES ASSUME TrafficInv, [TrafficNext]_trafficVars PROVE TrafficInv'
    BY Zenon
<1> USE DEF TrafficInv
<1>1. Cardinality(Counted) \in Nat
    BY Zenon, CountedFinite
<1>2. ASSUME NEW r \in Requests, AdmitLoad(r) PROVE TrafficInv'
    <2> DEFINE p == IF accepting THEN "adding" ELSE "closing"
    <2>1. Go(r, p) /\ p \in Places /\ p \in {"adding", "closing"} /\ r \notin Counted
        BY Zenon, <1>2 DEF AdmitLoad, Places, Counted
    <2> HIDE DEF p
    <2>2. /\ Counted' = Counted /\ place' \in [Requests -> Places] /\ place'[r] # "served"
          /\ \A q \in Requests : q # r => place'[q] = place[q]
        BY Zenon, <2>1, CountedMoves
    <2>3. TrafficTypeOK'
        BY Zenon, <1>2, <2>2 DEF AdmitLoad, TrafficTypeOK, lifecycleVars, coordinatorVars
    <2>4. ActiveIsExact' /\ TrafficStopInv' /\ DrainIsFinal'
        BY Zenon, <1>2, <2>2 DEF AdmitLoad, ActiveIsExact, TrafficStopInv, DrainIsFinal, lifecycleVars, coordinatorVars
    <2> QED BY Zenon, <2>3, <2>4
<1>3. ASSUME NEW r \in Requests, AdmitAdd(r) PROVE TrafficInv'
    <2>1. Go(r, "rechecking") /\ "rechecking" \in Places /\ r \notin Counted
        BY Zenon, <1>3 DEF AdmitAdd, Places, Counted
    <2>2. /\ Cardinality(Counted') = Cardinality(Counted) + 1
          /\ place' \in [Requests -> Places] /\ place'[r] = "rechecking" /\ place[r] = "adding"
          /\ \A q \in Requests : q # r => place'[q] = place[q]
        BY Zenon, <1>3, <2>1, CountedMoves DEF AdmitAdd
    <2>3. TrafficTypeOK'
        BY <1>3, <2>2 DEF AdmitAdd, TrafficTypeOK, coordinatorVars
    <2>4. ActiveIsExact' /\ TrafficStopInv' /\ DrainIsFinal'
        BY Zenon, <1>3, <2>2 DEF AdmitAdd, ActiveIsExact, TrafficStopInv, DrainIsFinal, coordinatorVars
    <2> QED BY Zenon, <2>3, <2>4
<1>4. ASSUME NEW r \in Requests, AdmitRecheck(r) PROVE TrafficInv'
    <2> DEFINE p == IF accepting THEN "served" ELSE "loading"
    <2>1. /\ Go(r, p) /\ p \in Places /\ p \in {"served", "loading"} /\ r \in Counted
          /\ place[r] = "rechecking" /\ (p = "served" <=> accepting)
        BY Zenon, <1>4 DEF AdmitRecheck, Places, Counted, StillAccepting
    <2>2. traffic_admission' = [traffic_admission EXCEPT ![r] = accepting]
        BY Zenon, <1>4, <2>1 DEF AdmitRecheck, StillAccepting, TrafficTypeOK
    <2> HIDE DEF p
    <2>3. /\ Counted' = Counted /\ place' \in [Requests -> Places] /\ place'[r] = p
          /\ \A q \in Requests : q # r => place'[q] = place[q]
        BY Zenon, <2>1, CountedMoves
    <2>4. TrafficTypeOK'
        BY Zenon, <1>4, <2>1, <2>2, <2>3 DEF AdmitRecheck, TrafficTypeOK, lifecycleVars, coordinatorVars
    <2>5. ActiveIsExact' /\ TrafficStopInv'
        BY Zenon, <1>4, <2>3 DEF AdmitRecheck, ActiveIsExact, TrafficStopInv, lifecycleVars, coordinatorVars
    <2>6. DrainIsFinal'
        BY Zenon, <1>4, <2>1, <2>3 DEF AdmitRecheck, TrafficStopInv, DrainIsFinal, lifecycleVars, coordinatorVars
    <2> QED BY Zenon, <2>4, <2>5, <2>6
<1>5. ASSUME NEW r \in Requests, ReleaseAdmission(r) PROVE TrafficInv'
    <2> DEFINE p == IF traffic_admission[r] THEN "loading" ELSE "gone"
    <2>1. traffic_admission[r] <=> place[r] = "served"
        BY Zenon DEF TrafficTypeOK
    <2>2. /\ Go(r, p) /\ p \in Places /\ p # "served"
          /\ (p \in {"rechecking", "served", "loading", "swapping"} <=> r \in Counted)
        BY Zenon, <1>5, <2>1 DEF ReleaseAdmission, Places, Counted
    <2>3. traffic_admission' = [traffic_admission EXCEPT ![r] = FALSE]
        BY Zenon, <1>5 DEF ReleaseAdmission, Taken
    <2> HIDE DEF p
    <2>4. /\ Counted' = Counted /\ place' \in [Requests -> Places] /\ place'[r] # "served"
          /\ \A q \in Requests : q # r => place'[q] = place[q]
        BY Zenon, <2>2, CountedMoves
    <2>5. TrafficTypeOK'
        BY <1>5, <2>3, <2>4 DEF ReleaseAdmission, TrafficTypeOK, lifecycleVars, coordinatorVars
    <2>6. ActiveIsExact' /\ TrafficStopInv' /\ DrainIsFinal'
        BY Zenon, <1>5, <2>4 DEF ReleaseAdmission, ActiveIsExact, TrafficStopInv, DrainIsFinal, lifecycleVars, coordinatorVars
    <2> QED BY Zenon, <2>5, <2>6
<1>6. ASSUME NEW r \in Requests, r \in Counted PROVE active \in Nat /\ active # 0
    <2>1. Cardinality(Counted) # 0
        BY Zenon, <1>6, CountedFinite, FS_EmptySet
    <2> QED BY Zenon, <1>1, <2>1 DEF ActiveIsExact
<1>7. ASSUME NEW r \in Requests, FinishLoad(r) PROVE TrafficInv'
    <2>1. r \in Counted /\ place[r] = "loading"
        BY Zenon, <1>7 DEF FinishLoad, Counted
    <2>2. active \in Nat /\ active # 0
        BY Zenon, <1>6, <2>1
    <2>3. Go(r, "swapping") /\ "swapping" \in Places
        BY Zenon, <1>7, <2>2 DEF FinishLoad, Places
    <2>4. /\ Counted' = Counted /\ place' \in [Requests -> Places] /\ place'[r] = "swapping"
          /\ \A q \in Requests : q # r => place'[q] = place[q]
        BY Zenon, <2>1, <2>3, CountedMoves
    <2>5. seen' \in [Requests -> Nat]
        BY Zenon, <1>7, <2>2 DEF FinishLoad, TrafficTypeOK
    <2>6. TrafficTypeOK'
        BY Zenon, <1>7, <2>1, <2>4, <2>5 DEF FinishLoad, TrafficTypeOK, lifecycleVars, coordinatorVars
    <2>7. ActiveIsExact' /\ TrafficStopInv' /\ DrainIsFinal'
        BY Zenon, <1>7, <2>4 DEF FinishLoad, ActiveIsExact, TrafficStopInv, DrainIsFinal, lifecycleVars, coordinatorVars
    <2> QED BY Zenon, <2>6, <2>7
<1>8. ASSUME NEW r \in Requests, FinishSwap(r) PROVE TrafficInv'
    <2>1. r \in Counted /\ place[r] = "swapping"
        BY Zenon, <1>8 DEF FinishSwap, Counted
    <2>2. active \in Nat /\ active # 0
        BY Zenon, <1>6, <2>1
    <2>3. CASE seen[r] = active
        <3> DEFINE p == IF ReachesZero(seen[r]) THEN "notifying" ELSE "closing"
        <3>1. Go(r, p) /\ p \in Places /\ p \in {"notifying", "closing"} /\ active' = active - 1 /\ seen' = seen
            BY Zenon, <1>8, <2>3 DEF FinishSwap, Places
        <3> HIDE DEF p
        <3>2. /\ Cardinality(Counted') = Cardinality(Counted) - 1
              /\ place' \in [Requests -> Places] /\ place'[r] # "served"
              /\ \A q \in Requests : q # r => place'[q] = place[q]
            BY Zenon, <2>1, <3>1, CountedMoves
        <3>3. active' \in Nat
            BY <2>2, <3>1
        <3>4. TrafficTypeOK'
            BY <1>8, <2>1, <3>1, <3>2, <3>3 DEF FinishSwap, TrafficTypeOK, coordinatorVars
        <3>5. ActiveIsExact' /\ TrafficStopInv' /\ DrainIsFinal'
            BY Zenon, <1>8, <3>1, <3>2 DEF FinishSwap, ActiveIsExact, TrafficStopInv, DrainIsFinal, coordinatorVars
        <3> QED BY Zenon, <3>4, <3>5
    <2>4. CASE seen[r] # active
        <3>1. Go(r, "swapping") /\ "swapping" \in Places /\ active' = active /\ seen' = [seen EXCEPT ![r] = active]
            BY Zenon, <1>8, <2>2, <2>4 DEF FinishSwap, Places
        <3>2. /\ Counted' = Counted /\ place' \in [Requests -> Places] /\ place'[r] = "swapping"
              /\ \A q \in Requests : q # r => place'[q] = place[q]
            BY Zenon, <2>1, <3>1, CountedMoves
        <3>3. seen' \in [Requests -> Nat]
            BY Zenon, <2>2, <3>1 DEF TrafficTypeOK
        <3>4. TrafficTypeOK'
            BY Zenon, <1>8, <2>1, <3>1, <3>2, <3>3 DEF FinishSwap, TrafficTypeOK, coordinatorVars
        <3>5. ActiveIsExact' /\ TrafficStopInv' /\ DrainIsFinal'
            BY Zenon, <1>8, <3>1, <3>2 DEF FinishSwap, ActiveIsExact, TrafficStopInv, DrainIsFinal, coordinatorVars
        <3> QED BY Zenon, <3>4, <3>5
    <2> QED BY Zenon, <2>3, <2>4
<1>9. ASSUME NEW r \in Requests, FinishNotify(r) PROVE TrafficInv'
    <2>1. Go(r, "closing") /\ "closing" \in Places /\ r \notin Counted /\ place[r] = "notifying"
        BY Zenon, <1>9 DEF FinishNotify, Places, Counted
    <2>2. /\ Counted' = Counted /\ place' \in [Requests -> Places] /\ place'[r] = "closing"
          /\ \A q \in Requests : q # r => place'[q] = place[q]
        BY Zenon, <2>1, CountedMoves
    <2>3. notified' \in BOOLEAN
        BY Zenon, <1>9 DEF FinishNotify, NotifyWaiters
    <2>4. TrafficTypeOK'
        BY Zenon, <1>9, <2>1, <2>2, <2>3 DEF FinishNotify, TrafficTypeOK, lifecycleVars
    <2>5. ActiveIsExact' /\ TrafficStopInv' /\ DrainIsFinal'
        BY Zenon, <1>9, <2>2 DEF FinishNotify, ActiveIsExact, TrafficStopInv, DrainIsFinal, lifecycleVars
    <2> QED BY Zenon, <2>4, <2>5
<1>10. CASE ExitGuardStep
    <2>1. Counted' = Counted
        BY Zenon, <1>10 DEF ExitGuardStep, StopAccepting, AcknowledgeStopped, NotifyStopped, requestVars, Counted
    <2>2. notified' \in BOOLEAN
        BY Zenon, <1>10 DEF ExitGuardStep, StopAccepting, AcknowledgeStopped, NotifyStopped, NotifyWaiters,
                     coordinatorVars, TrafficTypeOK
    <2>3. TrafficTypeOK'
        BY Zenon, <1>10, <2>2 DEF ExitGuardStep, StopAccepting, AcknowledgeStopped, NotifyStopped,
                     requestVars, coordinatorVars, lifecycleVars, TrafficTypeOK
    <2>4. ActiveIsExact' /\ TrafficStopInv' /\ DrainIsFinal'
        BY <1>10, <2>1 DEF ExitGuardStep, StopAccepting, AcknowledgeStopped, NotifyStopped,
                     requestVars, coordinatorVars, lifecycleVars, ActiveIsExact, TrafficStopInv, DrainIsFinal
    <2> QED BY Zenon, <2>3, <2>4
<1>11. CASE Arm \/ Park \/ WakeUp
    <2>1. Counted' = Counted
        BY Zenon, <1>11 DEF Arm, Park, WakeUp, requestVars, Counted
    <2>2. TrafficTypeOK'
        BY Zenon, <1>11 DEF Arm, Park, WakeUp, requestVars, lifecycleVars, TrafficTypeOK
    <2>3. ActiveIsExact' /\ TrafficStopInv' /\ DrainIsFinal'
        BY <1>11, <2>1 DEF Arm, Park, WakeUp, requestVars, lifecycleVars, ActiveIsExact, TrafficStopInv, DrainIsFinal
    <2> QED BY Zenon, <2>2, <2>3
<1>12. CASE Check
    <2>1. Counted' = Counted /\ UNCHANGED <<lifecycleVars, requestVars, exit_guard, notified, timed_out>>
        BY Zenon, <1>12 DEF Check, requestVars, Counted
    <2>2. TrafficTypeOK'
        BY Zenon, <1>12, <2>1 DEF Check, WaitOver, requestVars, lifecycleVars, TrafficTypeOK
    <2>3. ActiveIsExact' /\ TrafficStopInv'
        BY <1>12, <2>1 DEF Check, Satisfied, WaitOver, requestVars, lifecycleVars, ActiveIsExact,
                           TrafficStopInv, TrafficTypeOK
    <2>4. DrainIsFinal'
        <3>1. CASE phase' = "done"
            <4>1. active = 0
                BY Zenon, <1>12, <3>1 DEF Check, Satisfied, WaitOver
            <4>2. Counted = {}
                BY Zenon, <4>1, CountedFinite, FS_EmptySet DEF ActiveIsExact
            <4> QED BY Zenon, <2>1, <4>2 DEF DrainIsFinal, Counted, requestVars
        <3>2. CASE phase' # "done"
            BY Zenon, <3>2 DEF DrainIsFinal
        <3> QED BY Zenon, <3>1, <3>2
    <2> QED BY Zenon, <2>2, <2>3, <2>4
<1>13. CASE TimeOut
    <2>1. Counted' = Counted
        BY Zenon, <1>13 DEF TimeOut, requestVars, Counted
    <2>2. TrafficTypeOK'
        BY Zenon, <1>13 DEF TimeOut, WaitOver, requestVars, lifecycleVars, TrafficTypeOK
    <2>3. ActiveIsExact' /\ TrafficStopInv' /\ DrainIsFinal'
        BY Zenon, <1>13, <2>1 DEF TimeOut, WaitOver, requestVars, lifecycleVars, ActiveIsExact, TrafficStopInv, DrainIsFinal
    <2> QED BY Zenon, <2>2, <2>3
<1>14. CASE UNCHANGED trafficVars
    <2>1. Counted' = Counted
        BY Zenon, <1>14 DEF trafficVars, requestVars, Counted
    <2> QED BY Zenon, <1>14, <2>1 DEF trafficVars, requestVars, lifecycleVars, coordinatorVars,
                               TrafficTypeOK, ActiveIsExact, TrafficStopInv, DrainIsFinal
<1> QED BY Zenon, <1>2, <1>3, <1>4, <1>5, <1>7, <1>8, <1>9, <1>10, <1>11, <1>12, <1>13, <1>14
        DEF TrafficNext, Admit, FinishStep, CoordinatorStep

(* The count of active requests is exact: each admission is released once, *)
(* whatever logging, cancellation and drops do, so finish never finds 0.   *)
THEOREM TrafficInvariant == TrafficSpec => [](TrafficTypeOK /\ ActiveIsExact)
<1>1. TrafficInv => TrafficTypeOK /\ ActiveIsExact
    BY Zenon DEF TrafficInv
<1> QED BY <1>1, TrafficInitial, TrafficStep, PTL DEF TrafficSpec

(* After a clean stop and a clean drain no request is served: a try_admit  *)
(* that overlaps the stop backs out, however many requests there are.      *)
THEOREM CleanDrainIsFinal == TrafficSpec => []DrainIsFinal
<1>1. TrafficInv => DrainIsFinal
    BY Zenon DEF TrafficInv
<1> QED BY <1>1, TrafficInitial, TrafficStep, PTL DEF TrafficSpec

(* A request holds an admission exactly while it is served, and every      *)
(* variable keeps its type.                                                *)
THEOREM TrafficTypeCorrect == TrafficSpec => []TrafficTypeOK
  BY TrafficInvariant, PTL

-----------------------------------------------------------------------------
-----------------------------------------------------------------------------
(* The inductive invariant, one conjunct for each argument.                *)

Stages == {"config", "paths", "pid", "store", "api", "metrics", "redirect", "public", "run"}

(* Startup: what is held, and what has been accepted.                      *)
StartupInv ==
    /\ cli \in Clis
    /\ stage \in Stages
    /\ proc \in {"starting", "running", "unwinding", "ok", "error"}
    /\ proc = "starting" => stage # "run"
    /\ stage # "config" => TryFrom(cli) = None
    /\ proc = "starting" /\ stage \in {"config", "paths", "pid"} => held = {}
    /\ (/\ proc \in {"starting", "running"}
        /\ stage \notin {"config", "paths", "pid"}
        /\ Has(cli, "pid-file")) => "pid" \in held
    /\ PidOutlivesListeners

(* The public service: who owns the descriptor at each of its stages.      *)
ServiceInv ==
    /\ proc = "starting" => public = "reserved"
    /\ proc # "running" => public \in {"reserved", "done"}
    /\ public = "reserved" => fd = "owned"
    /\ public = "polling" => fd = "raw" /\ armed
    /\ public \in {"verifying", "serving"} => fd = "listener"
    /\ public = "finishing" => fd = "listener" \/ (fd = "raw" /\ armed)
    /\ public = "judging" => fd = "closed" \/ (fd = "raw" /\ armed)
    /\ public = "done" => fd = "closed"

(* What it reports.                                                        *)
ReportInv ==
    /\ outcome \in {None, "Exited"} \/ public \in {"finishing", "judging"} \/ failed
    /\ proc = "running" /\ public = "done" => failed \/ shutdown
    /\ proc = "ok" => ~failed
    /\ failed \in BOOLEAN
    /\ ready \in BOOLEAN
    /\ ready => verified
    /\ api = "serving" => verified

(* The clock: each phase began when those before it were over.             *)
TimeInv ==
    /\ now \in Nat /\ phaseStart \in Nat
    /\ coordinator \in {"waiting", "accepts", "drain", "flush", "traffic", "done"}
    /\ coordinator = "waiting" => now = 0
    /\ coordinator = "accepts" => phaseStart = 0 /\ now <= 1
    /\ coordinator = "drain" => phaseStart <= 1 /\ now <= phaseStart + 5
    /\ coordinator = "flush" => phaseStart <= 6 /\ now <= phaseStart + 1
    /\ coordinator = "traffic" => phaseStart <= 7 /\ now <= phaseStart + 2
    /\ GraceContainsPhases

(* The acknowledgement that ends the first phase.                          *)
StopInv ==
    /\ macked => stopRequested
    /\ coordinator \in {"drain", "flush", "traffic", "done"} => late \/ macked

ProcessInv == StartupInv /\ ServiceInv /\ ReportInv /\ TimeInv /\ StopInv

-----------------------------------------------------------------------------
(* try_from makes 21 checks, and the 11th is the overflow of the default   *)
(* API port.                                                               *)
LEMMA ChecksAre ==
    ASSUME NEW c
    PROVE  DOMAIN Checks(c) = 1..21 /\ Checks(c)[11][1] = ApiPortOverflow(c)
  BY DEF Checks

-----------------------------------------------------------------------------
(* What the groups of actions leave alone.                                 *)

PublicAction ==
    \/ HandOver \/ FirstPollReturns \/ SecondPoll \/ VerifyReady \/ VerifyFails \/ ServiceEnds
    \/ Finish \/ Relay \/ EndpointStops

PublicEnds == StartRefused \/ Judge

ApiAction ==
    \/ ApiStarts \/ HandshakeStarts \/ HandshakeFails \/ AcceptConnection \/ ConnectionCloses
    \/ RequestStop \/ AcknowledgeStop

CoordinatorAction == CoordinatorStarts \/ PhaseEnds \/ PhaseTimesOut

LEMMA ActionsAre ==
    ProcessNext <=> \/ StartupStep \/ StartupFails \/ Unwind \/ PublicAction \/ PublicEnds
                    \/ ApiAction \/ ApiEnds \/ CoordinatorAction
                    \/ Signal \/ ShutdownBegins \/ Tick \/ Teardown
  BY Zenon DEF ProcessNext, Due, PublicAction, PublicEnds, ApiAction, CoordinatorAction

LEMMA PublicActionFrame ==
    ASSUME PublicAction
    PROVE  UNCHANGED <<cli, stage, error, held, proc, failed, signalled, apiVars, clockVars>>
<1> USE DEF Rest, startupVars
<1>1. CASE HandOver \/ FirstPollReturns \/ SecondPoll
    BY Zenon, <1>1 DEF HandOver, FirstPollReturns, SecondPoll
<1>2. CASE VerifyReady \/ VerifyFails \/ ServiceEnds
    BY Zenon, <1>2 DEF VerifyReady, VerifyFails, ServiceEnds
<1>3. CASE Finish \/ Relay \/ EndpointStops
    BY Zenon, <1>3 DEF Finish, Relay, EndpointStops
<1> QED BY Zenon, <1>1, <1>2, <1>3 DEF PublicAction

LEMMA PublicEndsFrame ==
    ASSUME PublicEnds
    PROVE  /\ UNCHANGED <<cli, stage, error, proc, apiVars, clockVars, ready, verified, outcome>>
           /\ held' = held \ {"public"} /\ public' = "done"
<1> USE DEF Rest, startupVars
<1>1. CASE StartRefused
    BY Zenon, <1>1 DEF StartRefused
<1>2. CASE Judge
    BY Zenon, <1>2 DEF Judge
<1> QED BY Zenon, <1>1, <1>2 DEF PublicEnds

LEMMA ApiActionFrame ==
    ASSUME ApiAction
    PROVE  UNCHANGED <<cli, stage, error, held, proc, publicVars, signalled, clockVars>>
<1> USE DEF ApiRest, startupVars
<1>1. CASE ApiStarts \/ HandshakeStarts \/ HandshakeFails
    BY Zenon, <1>1 DEF ApiStarts, HandshakeStarts, HandshakeFails
<1>2. CASE AcceptConnection \/ ConnectionCloses
    BY Zenon, <1>2 DEF AcceptConnection, ConnectionCloses
<1>3. CASE RequestStop \/ AcknowledgeStop
    BY Zenon, <1>3 DEF RequestStop, AcknowledgeStop
<1> QED BY Zenon, <1>1, <1>2, <1>3 DEF ApiAction

LEMMA CoordinatorFrame ==
    ASSUME CoordinatorAction
    PROVE  UNCHANGED <<cli, stage, error, held, proc, publicVars, signalled, apiVars,
                       shutdown, now>>
<1> USE DEF Else, startupVars
<1>1. CASE CoordinatorStarts
    BY Zenon, <1>1 DEF CoordinatorStarts
<1>2. CASE PhaseEnds
    BY Zenon, <1>2 DEF PhaseEnds
<1>3. CASE PhaseTimesOut
    BY ZenonT(30), <1>3 DEF PhaseTimesOut
<1> QED BY Zenon, <1>1, <1>2, <1>3 DEF CoordinatorAction

-----------------------------------------------------------------------------
(* Each conjunct is kept.                                                  *)

LEMMA StartupKept ==
    ASSUME StartupInv, [ProcessNext]_processVars
    PROVE  StartupInv'
<1> USE DEF StartupInv, PidOutlivesListeners, Has
<1>1. CASE StartupStep
  <2>1. /\ proc = "starting" /\ Refusal(stage) = None /\ cli' = cli
        /\ held' = IF Takes(stage) THEN held \cup {stage} ELSE held
        /\ stage' = NextStage[stage]
        /\ proc' = IF stage' = "run" THEN "running" ELSE proc
    BY Zenon, <1>1 DEF StartupStep
  <2>2. CASE stage \in {"config", "paths"}
    <3>1. stage' \in {"paths", "pid"} /\ proc' = "starting"
        BY <2>1, <2>2 DEF NextStage
    <3>2. held' = {}
        BY Zenon, <2>1, <2>2 DEF Takes
    <3>3. TryFrom(cli) = None
        BY Zenon, <2>1, <2>2 DEF Refusal
    <3> QED BY Zenon, <2>1, <3>1, <3>2, <3>3 DEF Stages
  <2>3. CASE stage = "pid"
    <3>1. stage' = "store" /\ proc' = "starting" /\ held = {}
        BY Zenon, <2>1, <2>3 DEF NextStage
    <3>2. held' = IF "pid-file" \in cli.given THEN {"pid"} ELSE {}
        BY Zenon, <2>1, <2>3, <3>1 DEF Takes
    <3> QED BY Zenon, <2>1, <2>3, <3>1, <3>2 DEF Stages
  <2>4. CASE stage \notin {"config", "paths", "pid"}
    <3>1. stage' \in {"api", "metrics", "redirect", "public", "run"} /\ stage # "run"
        BY <2>1, <2>4 DEF NextStage, Stages
    <3>2. held \subseteq held' /\ ("pid-file" \in cli.given => "pid" \in held)
        BY Zenon, <2>1, <2>4
    <3> QED BY Zenon, <2>1, <2>4, <3>1, <3>2 DEF Stages
  <2> QED BY Zenon, <2>2, <2>3, <2>4
<1>2. CASE StartupFails
    BY Zenon, <1>2 DEF StartupFails
<1>3. CASE Unwind
  <2>1. proc = "unwinding" /\ UNCHANGED <<cli, stage>> /\ proc' \in {"unwinding", "ok", "error"}
    BY Zenon, <1>3 DEF Unwind, startupVars
  <2>2. PidOutlivesListeners'
    BY Zenon, <1>3, <2>1 DEF Unwind, DropsBefore
  <2> QED BY Zenon, <2>1, <2>2
<1>4. CASE PublicAction
    BY Zenon, <1>4, PublicActionFrame
<1>5. CASE PublicEnds
    BY Zenon, <1>5, PublicEndsFrame
<1>6. CASE ApiAction
    BY Zenon, <1>6, ApiActionFrame
<1>7. CASE ApiEnds
    BY Zenon, <1>7 DEF ApiEnds, startupVars
<1>8. CASE CoordinatorAction
    BY Zenon, <1>8, CoordinatorFrame
<1>9. CASE Signal \/ ShutdownBegins \/ Tick
    BY Zenon, <1>9 DEF Signal, ShutdownBegins, Tick, startupVars
<1>10. CASE Teardown
    BY Zenon, <1>10 DEF Teardown, Running, startupVars
<1>11. CASE UNCHANGED processVars
    BY SMTT(30), <1>11 DEF processVars, startupVars
<1> QED BY Zenon, <1>1, <1>2, <1>3, <1>4, <1>5, <1>6, <1>7, <1>8, <1>9, <1>10, <1>11, ActionsAre

LEMMA ServiceKept ==
    ASSUME ServiceInv, [ProcessNext]_processVars, StartupInv
    PROVE  ServiceInv'
<1> USE DEF ServiceInv
<1>1. CASE StartupStep \/ StartupFails \/ Unwind
    BY Zenon, <1>1 DEF StartupStep, StartupFails, Unwind, publicVars
<1>2. CASE HandOver
    BY Zenon, <1>2 DEF HandOver, Running, Rest, Arms
<1>3. CASE FirstPollReturns
    BY Zenon, <1>3 DEF FirstPollReturns, Rest
<1>4. CASE SecondPoll
    BY Zenon, <1>4 DEF SecondPoll, Rest
<1>5. CASE VerifyReady \/ VerifyFails
    BY Zenon, <1>5 DEF VerifyReady, VerifyFails, Rest
<1>6. CASE ServiceEnds
    BY Zenon, <1>6 DEF ServiceEnds, Rest
<1>7. CASE Finish
    BY Zenon, <1>7 DEF Finish, Rest
<1>8. CASE Relay \/ EndpointStops
    BY Zenon, <1>8 DEF Relay, EndpointStops, Rest
<1>9. CASE StartRefused
    BY Zenon, <1>9 DEF StartRefused, Running, Rest
<1>10. CASE Judge
    BY Zenon, <1>10 DEF Judge, Rest
<1>11. CASE ApiAction
    BY Zenon, <1>11, ApiActionFrame DEF publicVars
<1>12. CASE ApiEnds
    BY Zenon, <1>12 DEF ApiEnds, publicVars
<1>13. CASE CoordinatorAction
    BY Zenon, <1>13, CoordinatorFrame DEF publicVars
<1>14. CASE Signal \/ ShutdownBegins \/ Tick
    BY Zenon, <1>14 DEF Signal, ShutdownBegins, Tick, publicVars
<1>15. CASE Teardown
    BY SMTT(30), <1>15 DEF Teardown
<1>16. CASE UNCHANGED processVars
    BY ZenonT(30), <1>16 DEF processVars, publicVars
<1> QED BY Zenon, <1>1, <1>2, <1>3, <1>4, <1>5, <1>6, <1>7, <1>8, <1>9, <1>10, <1>11, <1>12, <1>13,
           <1>14, <1>15, <1>16, ActionsAre DEF PublicAction, PublicEnds

LEMMA ReportKept ==
    ASSUME ReportInv, ServiceInv, StartupInv, [ProcessNext]_processVars
    PROVE  ReportInv'
<1> USE DEF ReportInv
<1>1. CASE StartupStep
    BY Zenon, <1>1 DEF StartupStep, publicVars, apiVars, clockVars, ServiceInv
<1>2. CASE StartupFails
    BY Zenon, <1>2 DEF StartupFails, publicVars, apiVars, clockVars
<1>3. CASE Unwind
    BY Zenon, <1>3 DEF Unwind, publicVars, apiVars, clockVars
<1>4. CASE PublicAction
  <2>1. UNCHANGED <<proc, failed, api, shutdown>>
    BY Zenon, <1>4, PublicActionFrame DEF apiVars, clockVars
  <2>2. CASE HandOver \/ FirstPollReturns
    BY <2>1, <2>2 DEF HandOver, FirstPollReturns
  <2>3. CASE SecondPoll
    BY <2>1, <2>3 DEF SecondPoll
  <2>4. CASE VerifyReady
    <3>1. ready' = TRUE /\ verified' = TRUE /\ public' = "serving" /\ outcome' = outcome
          /\ public = "verifying"
        BY Zenon, <2>4 DEF VerifyReady
    <3> QED BY Zenon, <2>1, <3>1
  <2>5. CASE VerifyFails
    BY <2>1, <2>5 DEF VerifyFails
  <2>6. CASE ServiceEnds
    BY <2>1, <2>6 DEF ServiceEnds
  <2>7. CASE Finish
    BY <2>1, <2>7 DEF Finish, ReadyWhenDropped
  <2>8. CASE Relay \/ EndpointStops
    BY <2>1, <2>8 DEF Relay, EndpointStops
  <2> QED BY Zenon, <1>4, <2>2, <2>3, <2>4, <2>5, <2>6, <2>7, <2>8 DEF PublicAction
<1>5. CASE StartRefused
  <2>1. proc = "running" /\ failed' = TRUE /\ public' = "done"
        /\ UNCHANGED <<ready, verified, outcome, proc, api, shutdown>>
    BY Zenon, <1>5 DEF StartRefused, Running, SignalFailure, Rest, apiVars, clockVars
  <2> QED BY Zenon, <2>1
<1>6. CASE Judge
  <2>1. public = "judging" /\ public' = "done"
        /\ UNCHANGED <<ready, verified, outcome, proc, api, shutdown>>
    BY Zenon, <1>6 DEF Judge, Rest, apiVars, clockVars
  <2>2. proc = "running"
    BY Zenon, <2>1 DEF ServiceInv
  <2>3. CASE Unexpected
    <3>1. failed' = TRUE
        BY Zenon, <1>6, <2>3 DEF Judge, SignalFailure
    <3> QED BY Zenon, <2>1, <2>2, <3>1
  <2>4. CASE ~Unexpected
    <3>1. failed' = failed /\ outcome = "Exited" /\ shutdown
        BY Zenon, <1>6, <2>4 DEF Judge, Unexpected
    <3> QED BY Zenon, <2>1, <2>2, <3>1
  <2> QED BY Zenon, <2>3, <2>4
<1>7. CASE ApiAction
  <2>1. UNCHANGED <<proc, failed, ready, verified, outcome, public, shutdown>>
    BY Zenon, <1>7, ApiActionFrame DEF publicVars, clockVars
  <2>2. api' = "serving" => api = "serving" \/ ready
    BY Zenon, <1>7 DEF ApiAction, ApiStarts, HandshakeStarts, HandshakeFails, AcceptConnection,
                ConnectionCloses, RequestStop, AcknowledgeStop
  <2> QED BY Zenon, <2>1, <2>2
<1>8. CASE ApiEnds
    BY Zenon, <1>8 DEF ApiEnds, publicVars, clockVars
<1>9. CASE CoordinatorAction
    BY <1>9, CoordinatorFrame DEF publicVars, apiVars
<1>10. CASE Signal \/ ShutdownBegins \/ Tick
    BY <1>10 DEF Signal, ShutdownBegins, Tick, publicVars, apiVars, clockVars
<1>11. CASE Teardown
    BY Zenon, <1>11 DEF Teardown
<1>12. CASE UNCHANGED processVars
    BY ZenonT(30), <1>12 DEF processVars, publicVars, apiVars, clockVars
<1> QED BY Zenon, <1>1, <1>2, <1>3, <1>4, <1>5, <1>6, <1>7, <1>8, <1>9, <1>10, <1>11, <1>12, ActionsAre
        DEF PublicEnds

LEMMA TimeKept ==
    ASSUME TimeInv, StartupInv, [ProcessNext]_processVars
    PROVE  TimeInv'
<1> USE DEF TimeInv, GraceContainsPhases
<1>1. CASE StartupStep
  <2>1. proc = "starting" /\ UNCHANGED <<now, coordinator, phaseStart>>
        /\ (stage' = "run" => proc' = "running")
    BY Zenon, <1>1 DEF StartupStep, clockVars
  <2> QED BY Zenon, <2>1
<1>2. CASE StartupFails
    BY Zenon, <1>2 DEF StartupFails, clockVars, StartupInv
<1>3. CASE Unwind
    BY Zenon, <1>3 DEF Unwind, startupVars, clockVars
<1>4. CASE PublicAction \/ PublicEnds
    BY Zenon, <1>4, PublicActionFrame, PublicEndsFrame DEF clockVars
<1>5. CASE ApiAction
    BY Zenon, <1>5, ApiActionFrame DEF clockVars
<1>6. CASE ApiEnds
    BY Zenon, <1>6 DEF ApiEnds, startupVars, clockVars
<1>7. CASE CoordinatorAction
  <2>1. UNCHANGED <<proc, stage, now>> /\ proc = "running"
    BY Zenon, <1>7, CoordinatorFrame
       DEF CoordinatorAction, CoordinatorStarts, PhaseEnds, PhaseTimesOut, Running
  <2>2. CASE CoordinatorStarts
    BY SMTT(30), <2>1, <2>2 DEF CoordinatorStarts
  <2>3. CASE PhaseEnds \/ PhaseTimesOut
    <3>1. /\ coordinator \in {"accepts", "drain", "flush", "traffic"}
          /\ coordinator' = NextPhase[coordinator] /\ phaseStart' = now
        BY Zenon, <2>3 DEF PhaseEnds, PhaseTimesOut, InPhase, PhaseDeadline
    <3>2. CASE coordinator = "accepts"
        BY <2>1, <3>1, <3>2 DEF NextPhase
    <3>3. CASE coordinator = "drain"
        BY <2>1, <3>1, <3>3 DEF NextPhase
    <3>4. CASE coordinator = "flush"
        BY <2>1, <3>1, <3>4 DEF NextPhase
    <3>5. CASE coordinator = "traffic"
        BY Zenon, <2>1, <3>1, <3>5 DEF NextPhase
    <3> QED BY ZenonT(30), <3>1, <3>2, <3>3, <3>4, <3>5
  <2> QED BY Zenon, <1>7, <2>2, <2>3 DEF CoordinatorAction
<1>8. CASE Signal \/ ShutdownBegins
    BY Zenon, <1>8 DEF Signal, ShutdownBegins, startupVars, clockVars
<1>9. CASE Tick
  <2>1. /\ now' = now + 1 /\ UNCHANGED <<proc, stage, coordinator, phaseStart>>
        /\ coordinator # "waiting"
        /\ InPhase => now < phaseStart + PhaseDeadline[coordinator]
    BY Zenon, <1>9 DEF Tick, startupVars
  <2>2. CASE coordinator = "accepts"
    BY <2>1, <2>2 DEF InPhase, PhaseDeadline
  <2>3. CASE coordinator = "drain"
    BY <2>1, <2>3 DEF InPhase, PhaseDeadline
  <2>4. CASE coordinator = "flush"
    BY <2>1, <2>4 DEF InPhase, PhaseDeadline
  <2>5. CASE coordinator = "traffic"
    BY <2>1, <2>5 DEF InPhase, PhaseDeadline
  <2>6. CASE coordinator = "done"
    BY <2>1, <2>6
  <2> QED BY Zenon, <2>1, <2>2, <2>3, <2>4, <2>5, <2>6
<1>10. CASE Teardown
  <2>1. GracePeriod = 10
    BY DEF GracePeriod, PhaseDeadline
  <2>2. now = 10 /\ UNCHANGED <<stage, now, coordinator, phaseStart>>
    BY Zenon, <1>10, <2>1 DEF Teardown, startupVars, clockVars
  <2> QED BY <2>2
<1>11. CASE UNCHANGED processVars
    BY Zenon, <1>11 DEF processVars, startupVars, clockVars
<1> QED BY Zenon, <1>1, <1>2, <1>3, <1>4, <1>5, <1>6, <1>7, <1>8, <1>9, <1>10, <1>11, ActionsAre

LEMMA StopKept ==
    ASSUME StopInv, TimeInv, [ProcessNext]_processVars
    PROVE  StopInv'
<1> USE DEF StopInv
<1>1. CASE StartupStep \/ StartupFails \/ Unwind
    BY <1>1 DEF StartupStep, StartupFails, Unwind, apiVars, clockVars
<1>2. CASE PublicAction \/ PublicEnds
    BY <1>2, PublicActionFrame, PublicEndsFrame DEF apiVars, clockVars
<1>3. CASE ApiAction
  <2>1. UNCHANGED <<coordinator, late>>
    BY Zenon, <1>3, ApiActionFrame DEF clockVars
  <2>2. CASE ApiStarts \/ HandshakeStarts \/ HandshakeFails \/ AcceptConnection \/ ConnectionCloses
    BY <2>1, <2>2 DEF ApiStarts, HandshakeStarts, HandshakeFails, AcceptConnection, ConnectionCloses
  <2>3. CASE RequestStop
    BY Zenon, <2>1, <2>3 DEF RequestStop
  <2>4. CASE AcknowledgeStop
    BY Zenon, <2>1, <2>4 DEF AcknowledgeStop, Acknowledges
  <2> QED BY Zenon, <1>3, <2>2, <2>3, <2>4 DEF ApiAction
<1>4. CASE ApiEnds
    BY Zenon, <1>4 DEF ApiEnds, clockVars
<1>5. CASE CoordinatorAction
  <2>1. UNCHANGED <<stopRequested, macked>>
    BY Zenon, <1>5, CoordinatorFrame DEF apiVars
  <2>2. CASE CoordinatorStarts
    BY Zenon, <2>1, <2>2 DEF CoordinatorStarts
  <2>3. CASE PhaseEnds
    BY Zenon, <2>1, <2>3 DEF PhaseEnds, InPhase, PhaseDeadline, TimeInv
  <2>4. CASE PhaseTimesOut
    BY Zenon, <2>1, <2>4 DEF PhaseTimesOut, InPhase, PhaseDeadline, TimeInv
  <2> QED BY Zenon, <1>5, <2>2, <2>3, <2>4 DEF CoordinatorAction
<1>6. CASE Signal \/ ShutdownBegins \/ Tick \/ Teardown
    BY <1>6 DEF Signal, ShutdownBegins, Tick, Teardown, apiVars, clockVars
<1>7. CASE UNCHANGED processVars
    BY Zenon, <1>7 DEF processVars, apiVars, clockVars
<1> QED BY Zenon, <1>1, <1>2, <1>3, <1>4, <1>5, <1>6, <1>7, ActionsAre

-----------------------------------------------------------------------------
(* A command line that try_from accepts fails none of its checks.          *)

LEMMA LeastExists ==
    ASSUME NEW S, S \subseteq Nat, S # {}
    PROVE  \E i \in S : \A j \in S : i <= j
<1> DEFINE R == OpToRel(<, Nat)
<1>1. IsWellFoundedOn(R, Nat)
    BY Zenon, NatLessThanWellFounded
<1>2. \A x, y \in Nat : <<y, x>> \in R <=> y < x
    BY Zenon DEF OpToRel
<1> HIDE DEF R
<1>3. PICK x \in S : \A y \in S : ~ (<<y, x>> \in R)
    BY Zenon, <1>1, WFMin
<1>4. \A y \in S : x \in Nat /\ y \in Nat /\ ~ (y < x)
    BY Zenon, <1>2, <1>3
<1> QED BY <1>3, <1>4

LEMMA AcceptedIsRight ==
    ASSUME NEW c \in Clis, TryFrom(c) = None
    PROVE  ~ApiPortOverflow(c)
<1> DEFINE wrong == {i \in DOMAIN Checks(c) : Checks(c)[i][1]}
           first == CHOOSE i \in wrong : \A j \in wrong : i <= j
<1>1. DOMAIN Checks(c) = 1..21 /\ Checks(c)[11][1] = ApiPortOverflow(c)
    BY Zenon, ChecksAre
<1>2. SUFFICES wrong = {}
    BY <1>1
<1>3. SUFFICES ASSUME wrong # {} PROVE FALSE
    BY Zenon
<1>4. wrong \subseteq Nat
    BY <1>1
<1>5. first \in wrong
    BY Zenon, <1>3, <1>4, LeastExists
<1>6. TryFrom(c) = Checks(c)[first][2]
    BY Zenon, <1>3 DEF TryFrom
<1>7. Checks(c)[first][2] # None
    BY Zenon, <1>5, CliAssumption
<1> QED BY ZenonT(30), <1>6, <1>7

LEMMA PortsAreRight ==
    ASSUME StartupInv
    PROVE  DefaultPortsDistinct
<1> SUFFICES ASSUME stage # "config", ApiListener(cli).kind = "tcp"
             PROVE  /\ ApiListener(cli).port \in 1..MaxPort
                    /\ NonzeroPort(cli.apiPort) = Unset /\ PublicListener(cli).kind = "tcp"
                          => ApiListener(cli).port # PublicListener(cli).port
    BY Zenon DEF DefaultPortsDistinct
<1>1. cli \in Clis /\ ~ApiPortOverflow(cli)
    BY Zenon, AcceptedIsRight DEF StartupInv
<1>2. ~Has(cli, "api-socket") /\ ApiListener(cli).port = ApiPort(cli)
    BY Zenon DEF ApiListener, Unix, Tcp
<1>3. ~(ApiPort(cli) > MaxPort)
    BY Zenon, <1>1, <1>2 DEF ApiPortOverflow
<1>4. MaxPort \in Nat /\ 8000 \in 1..MaxPort /\ 8001 \in 1..MaxPort
    BY SMT DEF MaxPort
<1>5. /\ NonzeroPort(cli.port) = Unset \/ NonzeroPort(cli.port) \in 1..MaxPort
      /\ NonzeroPort(cli.apiPort) = Unset \/ NonzeroPort(cli.apiPort) \in 1..MaxPort
  <2>1. cli.port \in {Unset} \cup 0..MaxPort /\ cli.apiPort \in {Unset} \cup 0..MaxPort
    BY <1>1, CliAssumption
  <2>2. \A p \in 0..MaxPort : p = 0 \/ p \in 1..MaxPort
    BY <1>4, SMT
  <2> QED BY Zenon, <2>1, <2>2 DEF NonzeroPort
<1>6. PublicPort(cli) \in 1..MaxPort
    BY <1>4, <1>5 DEF PublicPort, PortOr
<1>7. CASE NonzeroPort(cli.apiPort) = Unset
  <2>1. ApiPort(cli) = IF Has(cli, "socket") THEN 8001 ELSE PublicPort(cli) + 1
    BY <1>7 DEF ApiPort, PortOr
  <2>2. ApiPort(cli) \in 1..MaxPort
    BY <1>3, <1>4, <1>6, <2>1, SMT
  <2>3. PublicListener(cli).kind = "tcp" =>
            ~Has(cli, "socket") /\ PublicListener(cli).port = PublicPort(cli)
    BY DEF PublicListener, Unix, Tcp
  <2>4. PublicPort(cli) + 1 # PublicPort(cli)
    BY <1>4, <1>6, SMT
  <2> QED BY <1>2, <2>1, <2>2, <2>3, <2>4
<1>8. CASE NonzeroPort(cli.apiPort) # Unset
    BY <1>2, <1>4, <1>5, <1>8 DEF ApiPort, PortOr
<1> QED BY Zenon, <1>7, <1>8

-----------------------------------------------------------------------------
LEMMA ProcessBegins == ProcessInit => ProcessInv
<1> SUFFICES ASSUME ProcessInit PROVE ProcessInv
    BY Zenon
<1> USE DEF ProcessInit
<1>1. StartupInv
    BY Zenon DEF StartupInv, Stages, PidOutlivesListeners
<1>2. ServiceInv
    BY Zenon DEF ServiceInv
<1>3. ReportInv
    BY Zenon DEF ReportInv
<1>4. TimeInv
    BY Zenon DEF TimeInv, GraceContainsPhases
<1>5. StopInv
    BY Zenon DEF StopInv
<1> QED BY Zenon, <1>1, <1>2, <1>3, <1>4, <1>5 DEF ProcessInv

(* Startup, the public service, the management listener, the coordinator   *)
(* and the clock keep the inductive invariant in every interleaving.       *)
THEOREM ProcessInvariant == ProcessSpec => []ProcessInv
<1>1. ProcessInv /\ [ProcessNext]_processVars => ProcessInv'
    BY Zenon, StartupKept, ServiceKept, ReportKept, TimeKept, StopKept DEF ProcessInv
<1> QED BY <1>1, ProcessBegins, PTL DEF ProcessSpec

(* The management API never serves beside a public listener that was not   *)
(* adopted and found at its path.                                          *)
THEOREM ReadinessVerified == ProcessSpec => []ReadinessIsVerified
<1>1. ProcessInv => ReadinessIsVerified
    BY Zenon DEF ProcessInv, ReportInv, ReadinessIsVerified
<1> QED BY <1>1, ProcessInvariant, PTL

(* The public service never ends with its listening descriptor open.       *)
THEOREM DescriptorIsReleased == ProcessSpec => []DescriptorReleased
<1>1. ProcessInv => DescriptorReleased
    BY Zenon DEF ProcessInv, ServiceInv, DescriptorReleased
<1> QED BY <1>1, ProcessInvariant, PTL

(* A failure of the public service is recorded before the service is gone, *)
(* and the process does not report success after one.                      *)
THEOREM FailureReported == ProcessSpec => []FailureIsReported
<1>1. ProcessInv => FailureIsReported
    BY Zenon DEF ProcessInv, ReportInv, ServiceInv, FailureIsReported, Running
<1> QED BY <1>1, ProcessInvariant, PTL

(* The runtimes are torn down only after the ordered shutdown.             *)
THEOREM GraceIsEnough == ProcessSpec => []GraceContainsPhases
<1>1. ProcessInv => GraceContainsPhases
    BY Zenon DEF ProcessInv, TimeInv
<1> QED BY <1>1, ProcessInvariant, PTL

(* The PID file is there as long as a listener is bound.                   *)
THEOREM PidFileOutlives == ProcessSpec => []PidOutlivesListeners
<1>1. ProcessInv => PidOutlivesListeners
    BY Zenon DEF ProcessInv, StartupInv
<1> QED BY <1>1, ProcessInvariant, PTL

(* For every pair of u16 ports that try_from accepts, the default API port *)
(* is a port, and not the public one.                                      *)
THEOREM PortsDistinct == ProcessSpec => []DefaultPortsDistinct
<1>1. ProcessInv => DefaultPortsDistinct
    BY Zenon, PortsAreRight DEF ProcessInv
<1> QED BY <1>1, ProcessInvariant, PTL

(* No management connection is accepted after the accept phase has ended   *)
(* in time.                                                                *)
THEOREM AcceptsStop == ProcessSpec => AcceptsStopBeforeDrain
<1>1. ProcessInv /\ [ProcessNext]_processVars =>
          [AcceptConnection => coordinator \in {"waiting", "accepts"} \/ late]_processVars
    BY Zenon DEF ProcessInv, TimeInv, StopInv, AcceptConnection, MayAccept
<1> QED BY <1>1, ProcessInvariant, PTL DEF ProcessSpec, AcceptsStopBeforeDrain
=============================================================================
