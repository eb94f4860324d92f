--------------------------- MODULE RouteRegistry ---------------------------
(***************************************************************************)
(* The route registry of src/src/route_table.rs: a persistence-backed map  *)
(* of routes with lock-free reads.  A mutation is admitted by the tracker, *)
(* runs in a task of its own that serialises on one mutex, commits to the  *)
(* backing store first and then publishes a new immutable snapshot with a  *)
(* compare-and-swap loop.  The data plane advances activity stamps in the  *)
(* snapshot without taking that mutex.  A caller may go away at any time;  *)
(* a store panic or an unknown store outcome seals the registry for good.  *)
(*                                                                         *)
(* The matcher built over a snapshot (mutation order, trie, resolve) is    *)
(* the subject of module RouteMatcher; here a snapshot is its route map.   *)
(***************************************************************************)
EXTENDS Integers, Sequences, FiniteSets

CONSTANTS
    Keys,        \* normalised route keys
    Targets,     \* target URLs (and the rest of a record but its stamp)
    Times,       \* time stamps
    Calls,       \* mutation calls, each made at most once
    Observers,   \* data-plane threads that observe activity
    Capacity,    \* DETACHED_MUTATION_DIAGNOSTIC_CAPACITY
    MaxDrains,   \* bound: how often drain_mutations is called
    None         \* Rust's None

Route == [target : Targets, last_activity : Times]
Routes == [Keys -> Route \cup {None}]

(* The mutations and their arguments.  "replace" is add and put, which     *)
(* differ in who stamps the record: the clock inside the store for add,    *)
(* the caller for put.  Nothing orders the wall clock, so either stamp is  *)
(* any time.  "update" is update_activity, "persist" is                    *)
(* persist_observed_activity.                                              *)
Requests ==
    [kind : {"replace"}, key : Keys, target : Targets, at : Times]
        \cup [kind : {"update", "persist"}, key : Keys, at : Times]
        \cup [kind : {"delete"}, key : Keys]

Observations == [key : Keys, at : Times]

ASSUME TimesAssumption == Times \subseteq Int
ASSUME MaxDrainsAssumption == MaxDrains \in Nat
ASSUME CapacityAssumption == Capacity \in Nat \ {0}
ASSUME ProcessAssumption == Calls \cap Observers = {}
ASSUME NoneAssumption ==
    None \notin Route \cup Routes \cup Calls \cup Requests \cup Observations

Seals == {"Open", "Shutdown", "BackendPanic", "Indeterminate"}
TerminalSeals == {"BackendPanic", "Indeterminate"}

(* Where a mutation task is.  "queued" waits for the mutex; "running" has  *)
(* passed the fence; "sampled" is inside the store call; "committed" is in *)
(* merge_and_publish; "sealing" has seen a panic or an indeterminate       *)
(* error; "responding" waits for its caller; "finished" has left the       *)
(* tracker but still holds the mutex.                                      *)
Working == {"running", "sampled", "committed", "sealing", "responding"}
Holding == Working \cup {"finished"}
Live == Working \cup {"queued"}
Places == Holding \cup {"queued", "unstarted", "rejected", "done"}

(* What the store reported, or the seal whose error was returned instead.  *)
Outcomes == {"none", "ok", "failure", "indeterminate", "panic"} \cup Seals

DiagnosticKinds == {"failure", "panic"}

VARIABLES
    store,        \* the backing store's map
    snapshot,     \* RouteRegistry.snapshot
    base,         \* the snapshot each compare-and-swap loop has loaded
    stale,        \* the loops whose loaded snapshot has been replaced since
    lock,         \* RouteRegistry.mutation: its holder
    pc,           \* where each call's task is
    request,      \* the arguments of each call; "at" becomes the final stamp
    outcome,      \* the result of each call
    caller,       \* the receiving side of each call
    seal,         \* MutationTrackerState.seal
    active,       \* MutationTrackerState.active
    diagnostics,  \* MutationTrackerState.diagnostics
    dropped,      \* dropped_detached_failures and dropped_detached_panics
    drain,        \* the caller of drain_mutations, with its last outcome
    reported,     \* history: what all drains so far have returned
    suspect,      \* history: keys whose last mutation may be in the store or not
    observer      \* the observe_activity call of each data-plane thread

casVars == <<snapshot, base, stale>>
taskVars == <<pc, request, outcome>>
trackerVars == <<seal, active, diagnostics, dropped>>
drainVars == <<drain, reported>>
vars == <<store, suspect, casVars, lock, taskVars, caller, trackerVars, drainVars, observer>>

Processes == Calls \cup Observers

Later(s, t) == IF s >= t THEN s ELSE t

(***************************************************************************)
(* Init: RouteRegistry::load publishes whatever map the store holds.       *)
(***************************************************************************)
Init ==
    /\ store \in Routes
    /\ snapshot = store
    /\ suspect = {}
    /\ base = [p \in Processes |-> None]
    /\ stale = {}
    /\ lock = None
    /\ pc = [c \in Calls |-> "unstarted"]
    /\ request = [c \in Calls |-> None]
    /\ outcome = [c \in Calls |-> "none"]
    /\ caller = [c \in Calls |-> "waiting"]
    /\ seal = "Open"
    /\ active = 0
    /\ diagnostics = <<>>
    /\ dropped = [d \in DiagnosticKinds |-> 0]
    /\ drain = [at |-> "idle", calls |-> 0, timed_out |-> FALSE, active |-> 0]
    /\ reported = [d \in DiagnosticKinds |-> 0]
    /\ observer = [o \in Observers |-> None]

(***************************************************************************)
(* Reads and the operations on a route map.                                *)
(***************************************************************************)

(* RouteRegistry::get; all and resolve are masked in the same way.         *)
Get(k) == IF seal = "Indeterminate" THEN None ELSE snapshot[k]

Record(r) == [target |-> r.target, last_activity |-> r.at]

(* OrderedRoutes::replace_preserving_activity and update_activity, on the  *)
(* record they find under the key.                                         *)
PreservingActivity(record, found) ==
    IF found = None THEN record
    ELSE [record EXCEPT !.last_activity = Later(@, found.last_activity)]

AdvancedTo(found, at) ==
    IF found = None THEN None ELSE [found EXCEPT !.last_activity = Later(@, at)]

(* What a mutation leaves in the backing store under its key when it takes *)
(* effect there, once its stamp has been settled: trait Store's contract.  *)
Stored(r, found) ==
    IF r.kind = "replace" THEN Record(r)
    ELSE IF r.kind = "delete" \/ found = None THEN None
    ELSE [found EXCEPT !.last_activity = r.at]

MutantPublished(r, found) == Stored(r, found)  \* the stamp is not merged

(* What a mutation publishes: the closure given to merge_and_publish.      *)
Published(r, found) ==
    IF r.kind = "replace" THEN PreservingActivity(Record(r), found)
    ELSE IF r.kind = "delete" THEN None
    ELSE AdvancedTo(found, r.at)

(***************************************************************************)
(* The compare-and-swap loop over the snapshot pointer.  A loaded snapshot *)
(* is pinned by its Arc, so a swap succeeds exactly when no other swap has *)
(* happened since the load.                                                *)
(***************************************************************************)
LoadFull(p) ==
    /\ base[p] = None
    /\ base' = [base EXCEPT ![p] = snapshot]
    /\ UNCHANGED <<snapshot, stale>>

MutantPointerUnchanged(p) == TRUE  \* a plain store

PointerUnchanged(p) == p \notin stale

CompareAndSwap(p, next) ==
    /\ PointerUnchanged(p)
    /\ snapshot' = next
    /\ base' = [base EXCEPT ![p] = None]
    /\ stale' = {q \in Processes \ {p} : base[q] # None}

(* The swap found another pointer: the loop starts over.                   *)
SwapFails(p) ==
    /\ base[p] # None
    /\ p \in stale
    /\ base' = [base EXCEPT ![p] = None]
    /\ stale' = stale \ {p}
    /\ UNCHANGED <<store, suspect, snapshot, lock, taskVars, caller, trackerVars, drainVars, observer>>

(***************************************************************************)
(* run_mutation: admission, the registry-owned task and its caller.        *)
(***************************************************************************)

(* MutationTracker::begin, and the task is spawned.                        *)
Begin(c, r) ==
    /\ pc[c] = "unstarted"
    /\ seal = "Open"
    /\ pc' = [pc EXCEPT ![c] = "queued"]
    /\ request' = [request EXCEPT ![c] = r]
    /\ active' = active + 1
    /\ UNCHANGED <<store, suspect, casVars, lock, outcome, caller, seal, diagnostics, dropped,
                   drainVars, observer>>

(* begin refuses with the error of the seal in force.                      *)
BeginSealed(c) ==
    /\ pc[c] = "unstarted"
    /\ seal # "Open"
    /\ pc' = [pc EXCEPT ![c] = "rejected"]
    /\ outcome' = [outcome EXCEPT ![c] = seal]
    /\ UNCHANGED <<store, suspect, casVars, lock, request, caller, trackerVars, drainVars, observer>>

MutantPanicFence == seal = "BackendPanic"
MutantNoFence == FALSE

(* reject_if_terminally_failed refuses.                                    *)
Fenced == seal \in TerminalSeals

(* The task gets the mutex and passes the fence, or not.                   *)
Acquire(c) ==
    /\ pc[c] = "queued"
    /\ lock = None
    /\ lock' = c
    /\ \/ /\ ~Fenced
          /\ pc' = [pc EXCEPT ![c] = "running"]
          /\ UNCHANGED outcome
       \/ /\ Fenced
          /\ pc' = [pc EXCEPT ![c] = "responding"]
          /\ outcome' = [outcome EXCEPT ![c] = seal]
    /\ UNCHANGED <<store, suspect, casVars, request, caller, trackerVars, drainVars, observer>>

(* The snapshot is read before the store commits: the activity floor of    *)
(* add and put, and the current record of persist_observed_activity, which *)
(* has nothing to persist when the route is gone.                          *)
Sample(c) ==
    LET r == request[c]
        current == Get(r.key)
    IN  /\ pc[c] = "running"
        /\ \/ /\ r.kind \in {"replace", "persist"}
              /\ current # None
              /\ request' = [request EXCEPT ![c].at = Later(@, current.last_activity)]
              /\ pc' = [pc EXCEPT ![c] = "sampled"]
              /\ UNCHANGED outcome
           \/ /\ r.kind \in {"update", "delete"} \/ (r.kind = "replace" /\ current = None)
              /\ pc' = [pc EXCEPT ![c] = "sampled"]
              /\ UNCHANGED <<request, outcome>>
           \/ /\ r.kind = "persist"
              /\ current = None
              /\ pc' = [pc EXCEPT ![c] = "responding"]
              /\ outcome' = [outcome EXCEPT ![c] = "ok"]
              /\ UNCHANGED request
        /\ UNCHANGED <<store, suspect, casVars, lock, caller, trackerVars, drainVars, observer>>

Persist(r) == [store EXCEPT ![r.key] = Stored(r, @)]

MutantUnpublished(r) == TRUE  \* answers as soon as the store has committed

(* Persisted activity is not published again: the observation already was. *)
Unpublished(r) == r.kind = "persist"

(* The store commits and says so.                                          *)
StoreCommit(c) ==
    /\ pc[c] = "sampled"
    /\ store' = Persist(request[c])
    /\ IF Unpublished(request[c])
       THEN /\ pc' = [pc EXCEPT ![c] = "responding"]
            /\ outcome' = [outcome EXCEPT ![c] = "ok"]
       ELSE /\ pc' = [pc EXCEPT ![c] = "committed"]
            /\ UNCHANGED outcome
    /\ UNCHANGED <<suspect, casVars, lock, request, caller, trackerVars, drainVars, observer>>

(* An ordinary error: the store is as it was.                              *)
StoreFail(c) ==
    /\ pc[c] = "sampled"
    /\ pc' = [pc EXCEPT ![c] = "responding"]
    /\ outcome' = [outcome EXCEPT ![c] = "failure"]
    /\ UNCHANGED <<store, suspect, casVars, lock, request, caller, trackerVars, drainVars, observer>>

(* StoreError::Indeterminate, or a panic inside the store: the mutation    *)
(* may or may not have taken effect.                                       *)
StoreBreak(c) ==
    /\ pc[c] = "sampled"
    /\ store' \in {store, Persist(request[c])}
    /\ suspect' = suspect \cup {request[c].key}
    /\ pc' = [pc EXCEPT ![c] = "sealing"]
    /\ \E o \in {"indeterminate", "panic"} : outcome' = [outcome EXCEPT ![c] = o]
    /\ UNCHANGED <<casVars, lock, request, caller, trackerVars, drainVars, observer>>

MutantSealAfter(o) ==  \* like seal_and_drain, leaves a sealed registry alone
    IF seal # "Open" THEN seal ELSE IF o = "panic" THEN "BackendPanic" ELSE "Indeterminate"

(* panic_seal and indeterminate_seal.                                      *)
SealAfter(o) == IF o = "panic" THEN "BackendPanic" ELSE "Indeterminate"

(* The seal is installed while the mutex is still held.                    *)
InstallSeal(c) ==
    /\ pc[c] = "sealing"
    /\ seal' = SealAfter(outcome[c])
    /\ pc' = [pc EXCEPT ![c] = "responding"]
    /\ UNCHANGED <<store, suspect, casVars, lock, request, outcome, caller, active, diagnostics,
                   dropped, drainVars, observer>>

(* merge_and_publish.                                                      *)
PublishLoad(c) ==
    /\ pc[c] = "committed"
    /\ LoadFull(c)
    /\ UNCHANGED <<store, suspect, lock, taskVars, caller, trackerVars, drainVars, observer>>

PublishSwap(c) ==
    /\ pc[c] = "committed"
    /\ base[c] # None
    /\ CompareAndSwap(c, [base[c] EXCEPT ![request[c].key] = Published(request[c], @)])
    /\ pc' = [pc EXCEPT ![c] = "responding"]
    /\ outcome' = [outcome EXCEPT ![c] = "ok"]
    /\ UNCHANGED <<store, suspect, lock, request, caller, trackerVars, drainVars, observer>>

(* The caller takes the response and acknowledges it.                      *)
Receive(c) ==
    /\ pc[c] = "responding"
    /\ caller[c] = "waiting"
    /\ caller' = [caller EXCEPT ![c] = "answered"]
    /\ UNCHANGED <<store, suspect, casVars, lock, taskVars, trackerVars, drainVars, observer>>

(* The caller's future is dropped before it has acknowledged.              *)
Cancel(c) ==
    /\ pc[c] \in Live
    /\ caller[c] = "waiting"
    /\ caller' = [caller EXCEPT ![c] = "gone"]
    /\ UNCHANGED <<store, suspect, casVars, lock, taskVars, trackerVars, drainVars, observer>>

MutantRingFull == Len(diagnostics) > Capacity  \* off by one

(* MutationTrackerState::push_diagnostic.                                  *)
RingFull == Len(diagnostics) = Capacity

PushDiagnostic(d) ==
    IF RingFull
    THEN /\ diagnostics' = Append(Tail(diagnostics), d)
         /\ dropped' = [dropped EXCEPT ![Head(diagnostics)] = @ + 1]
    ELSE /\ diagnostics' = Append(diagnostics, d)
         /\ UNCHANGED dropped

DiagnosticOf(o) == IF o = "panic" THEN "panic" ELSE "failure"

MutantWaitIsOver(c) == caller[c] = "answered"  \* misses a dropped caller

(* acknowledgment.await has returned, or response.send failed.             *)
WaitIsOver(c) == caller[c] # "waiting"

(* MutationTracker::finish: a failure nobody received is kept for a drain. *)
Finish(c) ==
    /\ pc[c] = "responding"
    /\ WaitIsOver(c)
    /\ pc' = [pc EXCEPT ![c] = "finished"]
    /\ active' = active - 1
    /\ IF caller[c] = "gone" /\ outcome[c] # "ok"
       THEN PushDiagnostic(DiagnosticOf(outcome[c]))
       ELSE UNCHANGED <<diagnostics, dropped>>
    /\ UNCHANGED <<store, suspect, casVars, lock, request, outcome, caller, seal, drainVars, observer>>

(* The task ends; its closure and its mutex guard are dropped.             *)
Release(c) ==
    /\ pc[c] = "finished"
    /\ pc' = [pc EXCEPT ![c] = "done"]
    /\ request' = [request EXCEPT ![c] = None]
    /\ lock' = None
    /\ UNCHANGED <<store, suspect, casVars, outcome, caller, trackerVars, drainVars, observer>>

(***************************************************************************)
(* seal_and_drain.                                                         *)
(***************************************************************************)
Retained(d) == Cardinality({i \in DOMAIN diagnostics : diagnostics[i] = d})

MutantDroppedAfterTake == dropped  \* the counts survive the drain
DroppedAfterTake == [d \in DiagnosticKinds |-> 0]

(* MutationTrackerState::take_outcome.                                     *)
TakeOutcome(calls, timed_out) ==
    /\ drain' = [at |-> "returned", calls |-> calls, timed_out |-> timed_out, active |-> active]
    /\ reported' = [d \in DiagnosticKinds |-> reported[d] + dropped[d] + Retained(d)]
    /\ diagnostics' = <<>>
    /\ dropped' = DroppedAfterTake
    /\ UNCHANGED active

MutantDrainSeal == "Shutdown"
DrainSeal == IF seal = "Open" THEN "Shutdown" ELSE seal

DrainStart ==
    /\ drain.at # "waiting"
    /\ drain.calls < MaxDrains
    /\ seal' = DrainSeal
    /\ IF active = 0
       THEN TakeOutcome(drain.calls + 1, FALSE)
       ELSE /\ drain' = [drain EXCEPT !.at = "waiting", !.calls = @ + 1]
            /\ UNCHANGED <<active, diagnostics, dropped, reported>>
    /\ UNCHANGED <<store, suspect, casVars, lock, taskVars, caller, observer>>

DrainObserve ==
    /\ drain.at = "waiting"
    /\ active = 0
    /\ TakeOutcome(drain.calls, FALSE)
    /\ UNCHANGED <<store, suspect, casVars, lock, taskVars, caller, seal, observer>>

MutantStillActive == FALSE

(* The deadline branch reads the count again under the tracker's lock.     *)
StillActive == active # 0

DrainDeadline ==
    /\ drain.at = "waiting"
    /\ TakeOutcome(drain.calls, StillActive)
    /\ UNCHANGED <<store, suspect, casVars, lock, taskVars, caller, seal, observer>>

(***************************************************************************)
(* observe_activity, by the data plane, without the mutex.                 *)
(***************************************************************************)
ObserveStart(o, k, at) ==
    /\ observer[o] = None
    /\ seal # "Indeterminate"
    /\ observer' = [observer EXCEPT ![o] = [key |-> k, at |-> at]]
    /\ UNCHANGED <<store, suspect, casVars, lock, taskVars, caller, trackerVars, drainVars>>

(* The route is gone, or already as recent: observe_activity returns false.*)
Outdated(routes, k, at) == routes[k] = None \/ routes[k].last_activity >= at

ObserveLoad(o) ==
    /\ observer[o] # None
    /\ IF Outdated(snapshot, observer[o].key, observer[o].at)
       THEN /\ base[o] = None
            /\ observer' = [observer EXCEPT ![o] = None]
            /\ UNCHANGED casVars
       ELSE /\ LoadFull(o)
            /\ UNCHANGED observer
    /\ UNCHANGED <<store, suspect, lock, taskVars, caller, trackerVars, drainVars>>

ObserveSwap(o) ==
    /\ observer[o] # None
    /\ base[o] # None
    /\ CompareAndSwap(o, [base[o] EXCEPT ![observer[o].key] = AdvancedTo(@, observer[o].at)])
    /\ observer' = [observer EXCEPT ![o] = None]
    /\ UNCHANGED <<store, suspect, lock, taskVars, caller, trackerVars, drainVars>>

-----------------------------------------------------------------------------
TaskStep(c) ==
    \/ Sample(c) \/ StoreCommit(c) \/ StoreFail(c) \/ StoreBreak(c)
    \/ InstallSeal(c) \/ PublishLoad(c) \/ PublishSwap(c) \/ SwapFails(c)
    \/ Finish(c) \/ Release(c)

CallerStep(c) == Receive(c) \/ Cancel(c)

ObserverStep(o) == ObserveLoad(o) \/ ObserveSwap(o) \/ SwapFails(o)

(* Every call has been made and has ended: the registry waits.             *)
Idle ==
    /\ \A c \in Calls : pc[c] \in {"rejected", "done"}
    /\ \A o \in Observers : observer[o] = None
    /\ drain.at # "waiting"
    /\ UNCHANGED vars

Next ==
    \/ \E c \in Calls :
        \/ \E r \in Requests : Begin(c, r)
        \/ BeginSealed(c) \/ Acquire(c) \/ TaskStep(c) \/ CallerStep(c)
    \/ DrainStart \/ DrainObserve \/ DrainDeadline
    \/ \E o \in Observers :
        \/ \E k \in Keys, at \in Times : ObserveStart(o, k, at)
        \/ ObserverStep(o)
    \/ Idle

(* Tokio polls a ready task and its mutex is granted in FIFO order; stores *)
(* bound every operation by a timeout; a caller's future is polled again   *)
(* or dropped.                                                             *)
Fairness ==
    /\ \A c \in Calls :
        /\ WF_vars(TaskStep(c)) /\ SF_vars(Acquire(c)) /\ WF_vars(CallerStep(c))
    /\ \A o \in Observers : WF_vars(ObserverStep(o))

Spec == Init /\ [][Next]_vars

FairSpec == Spec /\ Fairness

-----------------------------------------------------------------------------
(* The types of the registry's state; the diagnostic ring that             *)
(* push_diagnostic fills never holds more than its capacity.               *)
TypeOK ==
    /\ store \in Routes
    /\ snapshot \in Routes
    /\ suspect \in SUBSET Keys
    /\ base \in [Processes -> Routes \cup {None}]
    /\ stale \in SUBSET Processes
    /\ lock \in Calls \cup {None}
    /\ pc \in [Calls -> Places]
    /\ request \in [Calls -> Requests \cup {None}]
    /\ outcome \in [Calls -> Outcomes]
    /\ caller \in [Calls -> {"waiting", "answered", "gone"}]
    /\ seal \in Seals
    /\ active \in Nat
    /\ diagnostics \in Seq(DiagnosticKinds)
    /\ Len(diagnostics) <= Capacity
    /\ dropped \in [DiagnosticKinds -> Nat]
    /\ drain \in [at : {"idle", "waiting", "returned"}, calls : Nat, timed_out : BOOLEAN, active : Nat]
    /\ reported \in [DiagnosticKinds -> Nat]
    /\ observer \in [Observers -> Observations \cup {None}]

FailStop(c) == outcome[c] \in {"panic", "indeterminate"}

(* The key of a mutation the store has taken but the snapshot has not.     *)
InFlux(k) == \E c \in Calls : pc[c] = "committed" /\ request[c].key = k

SameRoute(a, b) == (a = None <=> b = None) /\ (a # None => a.target = b.target)

(* A step that writes nothing to the store and publishes stamps at most.   *)
RoutesKept ==
    /\ store' = store
    /\ \A k \in Keys : SameRoute(snapshot[k], snapshot'[k])

(* What readers are served is what a restart would load: outside of the    *)
(* interval between a commit and its publication, every key whose          *)
(* mutations all had a known outcome is present in the snapshot exactly    *)
(* when it is in the store, with the same target.  (run_mutation holds the *)
(* mutex across commit and publication; merge_and_publish and              *)
(* observe_activity do not overwrite each other.)                          *)
SnapshotMatchesStore ==
    \A k \in Keys \ suspect : InFlux(k) \/ SameRoute(store[k], snapshot[k])

(* While a successful mutation waits for its caller to take the response,  *)
(* store and snapshot both show it: a caller that reads back its own write *)
(* on receiving Ok finds it, whatever else was queued.  (The mutex is held *)
(* until the acknowledgement.)                                             *)
ResponseReflectsRoutes ==
    \A c \in Calls : pc[c] = "responding" /\ outcome[c] = "ok" =>
        LET r == request[c] IN
        /\ r.kind = "replace" =>
            /\ store[r.key] = Record(r)
            /\ snapshot[r.key] # None
            /\ snapshot[r.key].target = r.target
            /\ snapshot[r.key].last_activity >= r.at
        /\ r.kind = "delete" => store[r.key] = None /\ snapshot[r.key] = None
        /\ r.kind = "update" /\ snapshot[r.key] # None =>
            snapshot[r.key].last_activity >= r.at

(* The activity stamp readers see never goes back while a route stays      *)
(* published, although replacements and observations race.                 *)
ActivityNeverRegresses ==
    [][\A k \in Keys : snapshot[k] # None /\ snapshot'[k] # None =>
            snapshot'[k].last_activity >= snapshot[k].last_activity]_vars

(* At most one store operation per registry panics or ends indeterminate:  *)
(* work already admitted is fenced off as well ("quarantined ... at most   *)
(* once per registry", docs/compatibility.md).                             *)
AtMostOneFailStop == \A c, d \in Calls : FailStop(c) /\ FailStop(d) => c = d

(* Once a panic or an indeterminate outcome has sealed the registry, no    *)
(* step changes the store, nor adds, removes or retargets a published      *)
(* route.                                                                  *)
FailStopFreezesRoutes ==
    [][(seal \in TerminalSeals) => RoutesKept]_vars

(* A terminal seal is final, although three places assign the seal and two *)
(* of them do so unconditionally.                                          *)
TerminalSealIsFinal == [][(seal \in TerminalSeals) => seal' = seal]_vars

(* When a caller has been told that its mutation is indeterminate, no read *)
(* returns cached routes any more, also when a drain had sealed first.     *)
KnownIndeterminateIsMasked ==
    (\E c \in Calls : outcome[c] = "indeterminate" /\ caller[c] = "answered")
        => \A k \in Keys : Get(k) = None

(* After a drain that did not time out nothing touches the store or the    *)
(* set of published routes again: it is safe to let the runtime go.        *)
CleanDrainIsFinal ==
    [][drain.at = "returned" /\ ~drain.timed_out => RoutesKept]_vars

(* Every failure or panic whose caller went away is accounted for exactly  *)
(* once: in what drains have returned, in the ring, or in the overflow     *)
(* counts.                                                                 *)
DiagnosticsAccounted ==
    \A d \in DiagnosticKinds :
        reported[d] + dropped[d] + Retained(d) =
            Cardinality({c \in Calls : /\ pc[c] \in {"finished", "done"}
                                       /\ caller[c] = "gone"
                                       /\ outcome[c] # "ok"
                                       /\ DiagnosticOf(outcome[c]) = d})

(* Every admitted mutation ends, whether its caller waits or goes away and *)
(* whatever happens to the mutations before it.                            *)
MutationsFinish == \A c \in Calls : pc[c] = "queued" ~> pc[c] = "done"

(* "Sealing is terminal: this registry rejects every later mutation with   *)
(* MUTATION_ADMISSION_SEALED_ERROR" (drain_mutations): after a drain was   *)
(* started, a refused mutation gets the shutdown error.                    *)
DrainSealsWithShutdownError ==
    [][\A c \in Calls :
        drain.at # "idle" /\ pc[c] = "unstarted" /\ pc'[c] = "rejected"
            => outcome'[c] = "Shutdown"]_vars

=============================================================================
