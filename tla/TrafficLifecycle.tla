-------------------------- MODULE TrafficLifecycle --------------------------
(***************************************************************************)
(* Admission of public traffic and its drain: TrafficLifecycle of          *)
(* src/src/api_server.rs, the request contexts of src/src/proxy.rs that    *)
(* hold an admission, the PublicExitGuard that stops admission, and the    *)
(* two waits of the shutdown coordinator (src/src/shutdown.rs).  Every     *)
(* atomic operation is a step of its own; atomics are sequentially         *)
(* consistent here, the code asks for Acquire and Release.                 *)
(***************************************************************************)
EXTENDS Integers, FiniteSets

CONSTANT Requests  \* request contexts

ASSUME RequestsAssumption == IsFiniteSet(Requests)

VARIABLES
    accepting,         \* TrafficLifecycle.accepting
    active,            \* TrafficLifecycle.active
    accepts_stopped,   \* TrafficLifecycle.accepts_stopped
    place,             \* where each request context is
    seen,              \* the local `active` of its finish()
    traffic_admission, \* whether RequestContext.traffic_admission is Some
    exit_guard,        \* where the drop of PublicExitGuard is
    phase,             \* the coordinator waits for "stop", then "drain", then is "done"
    wait,              \* where its wait loop is
    notified,          \* whether its Notified has heard a notify_waiters
    timed_out          \* the phases that ended by their timeout

lifecycleVars == <<accepting, active, accepts_stopped>>
requestVars == <<place, seen, traffic_admission>>
coordinatorVars == <<phase, wait, notified, timed_out>>
trafficVars == <<lifecycleVars, requestVars, exit_guard, coordinatorVars>>

Places == {"new", "adding", "rechecking", "served", "loading", "swapping", "notifying",
           "closing", "gone"}

TrafficInit ==
    /\ accepting = TRUE
    /\ active = 0
    /\ accepts_stopped = FALSE
    /\ place = [r \in Requests |-> "new"]
    /\ seen = [r \in Requests |-> 0]
    /\ traffic_admission = [r \in Requests |-> FALSE]
    /\ exit_guard = "armed"
    /\ phase = "stop"
    /\ wait = "arming"
    /\ notified = FALSE
    /\ timed_out = {}

Go(r, p) == place' = [place EXCEPT ![r] = p]

MutantListening == {"parked"}  \* subscribes only after the check
Listening == {"checking", "refused", "parked"}

NotifyWaiters == notified' = (notified \/ wait \in Listening)

(***************************************************************************)
(* request_filter: try_admit.  A refused request is answered 503.          *)
(***************************************************************************)
AdmitLoad(r) ==
    /\ place[r] = "new"
    /\ Go(r, IF accepting THEN "adding" ELSE "closing")
    /\ UNCHANGED <<lifecycleVars, seen, traffic_admission, exit_guard, coordinatorVars>>

AdmitAdd(r) ==
    /\ place[r] = "adding"
    /\ active' = active + 1
    /\ Go(r, "rechecking")
    /\ UNCHANGED <<accepting, accepts_stopped, seen, traffic_admission, exit_guard, coordinatorVars>>

MutantStillAccepting == TRUE  \* no second look
StillAccepting == accepting

AdmitRecheck(r) ==
    /\ place[r] = "rechecking"
    /\ IF StillAccepting
       THEN Go(r, "served") /\ traffic_admission' = [traffic_admission EXCEPT ![r] = TRUE]
       ELSE Go(r, "loading") /\ UNCHANGED traffic_admission
    /\ UNCHANGED <<lifecycleVars, seen, exit_guard, coordinatorVars>>

(***************************************************************************)
(* release_traffic_admission, called by logging and again when the context *)
(* is dropped, or only when it is dropped.                                 *)
(***************************************************************************)
MutantTaken == TRUE  \* reads the admission without taking it
Taken == FALSE

ReleaseAdmission(r) ==
    /\ place[r] \in {"served", "closing"}
    /\ traffic_admission' = [traffic_admission EXCEPT ![r] = @ /\ Taken]
    /\ Go(r, IF traffic_admission[r] THEN "loading" ELSE "gone")
    /\ UNCHANGED <<lifecycleVars, seen, exit_guard, coordinatorVars>>

(* finish: a loop of compare_exchange_weak; a count that is 0 already is   *)
(* an over-release, which is logged.                                       *)
FinishLoad(r) ==
    /\ place[r] = "loading"
    /\ seen' = [seen EXCEPT ![r] = active]
    /\ Go(r, IF active # 0 THEN "swapping" ELSE "closing")
    /\ UNCHANGED <<lifecycleVars, traffic_admission, exit_guard, coordinatorVars>>

MutantReachesZero(s) == s = 0  \* forgets that seen is the count before
ReachesZero(s) == s = 1

FinishSwap(r) ==
    /\ place[r] = "swapping"
    /\ IF seen[r] = active
       THEN /\ active' = active - 1
            /\ Go(r, IF ReachesZero(seen[r]) THEN "notifying" ELSE "closing")
            /\ UNCHANGED seen
       ELSE /\ seen' = [seen EXCEPT ![r] = active]
            /\ Go(r, IF active # 0 THEN "swapping" ELSE "closing")
            /\ UNCHANGED active
    /\ UNCHANGED <<accepting, accepts_stopped, traffic_admission, exit_guard, coordinatorVars>>

FinishNotify(r) ==
    /\ place[r] = "notifying"
    /\ Go(r, "closing")
    /\ NotifyWaiters
    /\ UNCHANGED <<lifecycleVars, seen, traffic_admission, exit_guard, phase, wait, timed_out>>

(***************************************************************************)
(* acknowledge_accepts_stopped, when the public service ends for whatever  *)
(* reason and its PublicExitGuard is dropped.                              *)
(***************************************************************************)
StopAccepting ==
    /\ exit_guard = "armed"
    /\ accepting' = FALSE
    /\ exit_guard' = "stopping"
    /\ UNCHANGED <<active, accepts_stopped, requestVars, coordinatorVars>>

AcknowledgeStopped ==
    /\ exit_guard = "stopping"
    /\ accepts_stopped' = TRUE
    /\ exit_guard' = "notifying"
    /\ UNCHANGED <<accepting, active, requestVars, coordinatorVars>>

NotifyStopped ==
    /\ exit_guard = "notifying"
    /\ NotifyWaiters
    /\ exit_guard' = "dropped"
    /\ UNCHANGED <<lifecycleVars, requestVars, phase, wait, timed_out>>

(***************************************************************************)
(* The coordinator: wait_for_accepts_stopped, then (after the mutation     *)
(* drain and the activity flush) wait_for_drain, each in a timeout.        *)
(***************************************************************************)
Arm ==
    /\ phase # "done"
    /\ wait = "arming"
    /\ wait' = "checking"
    /\ notified' = FALSE
    /\ UNCHANGED <<lifecycleVars, requestVars, exit_guard, phase, timed_out>>

Satisfied == IF phase = "stop" THEN accepts_stopped ELSE active = 0

WaitOver ==
    /\ phase' = IF phase = "stop" THEN "drain" ELSE "done"
    /\ wait' = "arming"

Check ==
    /\ phase # "done"
    /\ wait = "checking"
    /\ IF Satisfied THEN WaitOver ELSE wait' = "refused" /\ UNCHANGED phase
    /\ UNCHANGED <<lifecycleVars, requestVars, exit_guard, notified, timed_out>>

Park ==
    /\ phase # "done"
    /\ wait = "refused"
    /\ wait' = "parked"
    /\ UNCHANGED <<lifecycleVars, requestVars, exit_guard, phase, notified, timed_out>>

WakeUp ==
    /\ phase # "done"
    /\ wait = "parked"
    /\ notified
    /\ wait' = "arming"
    /\ UNCHANGED <<lifecycleVars, requestVars, exit_guard, phase, notified, timed_out>>

(* A timeout ends a wait that is parked.                                   *)
TimeOut ==
    /\ phase # "done"
    /\ wait = "parked"
    /\ timed_out' = timed_out \cup {phase}
    /\ WaitOver
    /\ UNCHANGED <<lifecycleVars, requestVars, exit_guard, notified>>

-----------------------------------------------------------------------------
Admit(r) == AdmitLoad(r) \/ AdmitAdd(r) \/ AdmitRecheck(r)

FinishStep(r) == FinishLoad(r) \/ FinishSwap(r) \/ FinishNotify(r)

ExitGuardStep == StopAccepting \/ AcknowledgeStopped \/ NotifyStopped

CoordinatorStep == Arm \/ Check \/ Park \/ WakeUp

TrafficNext ==
    \/ \E r \in Requests : Admit(r) \/ ReleaseAdmission(r) \/ FinishStep(r)
    \/ ExitGuardStep
    \/ CoordinatorStep
    \/ TimeOut

TrafficSpec == TrafficInit /\ [][TrafficNext]_trafficVars

(* Threads run on inside finish and inside the guard's drop, and Tokio     *)
(* polls the woken coordinator.  Nothing obliges a request to end, the     *)
(* public service to stop, or a timeout to fire.                           *)
TrafficFairness ==
    /\ \A r \in Requests : WF_trafficVars(FinishStep(r))
    /\ WF_trafficVars(AcknowledgeStopped \/ NotifyStopped)
    /\ WF_trafficVars(CoordinatorStep)

FairTrafficSpec == TrafficSpec /\ TrafficFairness

-----------------------------------------------------------------------------
(* The types of the lifecycle's state; a context holds an admission from   *)
(* the moment try_admit returns true until it is released.                 *)
TrafficTypeOK ==
    /\ accepting \in BOOLEAN
    /\ active \in Nat
    /\ accepts_stopped \in BOOLEAN
    /\ place \in [Requests -> Places]
    /\ seen \in [Requests -> Nat]
    /\ traffic_admission = [r \in Requests |-> place[r] = "served"]
    /\ exit_guard \in {"armed", "stopping", "notifying", "dropped"}
    /\ phase \in {"stop", "drain", "done"}
    /\ wait \in {"arming", "checking", "refused", "parked"}
    /\ notified \in BOOLEAN
    /\ timed_out \subseteq {"stop", "drain"}

Counted == {r \in Requests : place[r] \in {"rechecking", "served", "loading", "swapping"}}

(* The counter is the number of requests between their fetch_add and their *)
(* decrement: logging, cancellation and the drop of the context release an *)
(* admission exactly once, so finish never finds a count of 0.             *)
ActiveIsExact == active = Cardinality(Counted)

(* When shutdown saw admission stop and then the traffic drain, both       *)
(* without a timeout, no request is being served and none ever will be:    *)
(* a request that passed the first check of try_admit before the stop      *)
(* backs out.                                                              *)
DrainIsFinal ==
    (phase = "done" /\ timed_out = {}) => \A r \in Requests : place[r] # "served"

(* The coordinator does not sleep through the stop of the listener.        *)
StopIsHeard == accepts_stopped ~> phase # "stop"

(* Nor through the end of the last request: it waits forever only if the   *)
(* count is nonzero again and again.                                       *)
DrainIsHeard == <>[](phase = "drain") => []<>(active # 0)

=============================================================================
