------------------------ MODULE RouteRegistryProofs ------------------------
(***************************************************************************)
(* Proofs about RouteRegistry, for any sets of keys, targets, stamps,      *)
(* calls and observers and any ring capacity: seals, exchanges, drains,    *)
(* the agreement of store, snapshot and responses, and the diagnostics.    *)
(***************************************************************************)
EXTENDS RouteRegistryTypeProofs

(***************************************************************************)
(* The layers of the inductive invariant above the types.                  *)
(***************************************************************************)
(* A panic or an indeterminate outcome is followed by its seal before the  *)
(* mutex is released, and a terminal seal leaves nobody past the fence.    *)
SealInv ==
    /\ \A c \in Calls :
        /\ pc[c] \in {"unstarted", "queued", "running", "sampled", "committed"} =>
            outcome[c] = "none"
        /\ pc[c] = "sealing" => FailStop(c)
        /\ FailStop(c) /\ pc[c] # "sealing" => seal = SealAfter(outcome[c])
        /\ seal \in TerminalSeals =>
            pc[c] \notin {"running", "sampled", "committed", "sealing"}
        /\ caller[c] = "answered" => pc[c] \in {"responding", "finished", "done"}
    /\ AtMostOneFailStop
    /\ suspect # {} => \E c \in Calls : FailStop(c)

(* A loaded snapshot that is not stale is the current one.                 *)
CasInv == \A p \in Processes \ stale : base[p] # None => base[p] = snapshot

(* The store holds what a committed task is about to publish.              *)
CommitInv ==
    \A c \in Calls : pc[c] = "committed" =>
        LET r == request[c] IN
        /\ r.kind = "replace" => store[r.key] = Record(r)
        /\ r.kind = "delete" => store[r.key] = None
        /\ r.kind = "update" => SameRoute(store[r.key], snapshot[r.key])

(* A drain has sealed admission; one that did not time out saw nobody left.*)
DrainInv ==
    /\ drain.at # "idle" => seal # "Open"
    /\ drain.at = "returned" /\ ~drain.timed_out => LiveCalls = {}

(***************************************************************************)
(* Seals.                                                                  *)
(***************************************************************************)
LEMMA SealInit == Init => SealInv
    BY DEF Init, SealInv, FailStop, AtMostOneFailStop, TerminalSeals

(* Steps that change nothing SealInv mentions.                             *)
LEMMA SealKept ==
    ASSUME SealInv, UNCHANGED <<pc, outcome, caller, seal, suspect>>
    PROVE  SealInv'
    BY DEF SealInv, FailStop, AtMostOneFailStop, SealAfter

LEMMA SealStep == TypeInv /\ SealInv /\ [Next]_vars => SealInv'
  <1>. SUFFICES ASSUME TypeInv, SealInv, [Next]_vars PROVE SealInv'
    BY SMTT(30)
  <1>. USE DEF TypeInv, TypeOK, SealInv, FailStop, AtMostOneFailStop, SealAfter, TerminalSeals
  <1>1. ASSUME NEW c \in Calls, NEW r \in Requests, Begin(c, r) PROVE SealInv'
    BY SMTT(30), <1>1 DEF Begin
  <1>2. ASSUME NEW c \in Calls, BeginSealed(c) PROVE SealInv'
    BY SMTT(30), <1>2 DEF BeginSealed, trackerVars, Seals
  <1>3. ASSUME NEW c \in Calls, Acquire(c) PROVE SealInv'
    <2>1. CASE Fenced
      <3>1. /\ pc' = [pc EXCEPT ![c] = "responding"] /\ outcome' = [outcome EXCEPT ![c] = seal]
            /\ seal \in TerminalSeals /\ UNCHANGED <<caller, seal, suspect>> /\ pc[c] = "queued"
        BY <1>3, <2>1 DEF Acquire, Fenced, trackerVars
      <3>. QED  BY <3>1
    <2>2. CASE ~Fenced
      BY <1>3, <2>2 DEF Acquire, Fenced, trackerVars
    <2>. QED  BY SMTT(30), <2>1, <2>2
  <1>4. ASSUME NEW c \in Calls, Sample(c) PROVE SealInv'
    <2>1. CASE /\ pc' = [pc EXCEPT ![c] = "sampled"]
               /\ outcome' = outcome
      BY <1>4, <2>1 DEF Sample, trackerVars
    <2>2. CASE /\ pc' = [pc EXCEPT ![c] = "responding"]
               /\ outcome' = [outcome EXCEPT ![c] = "ok"]
      <3>1. pc[c] = "running" /\ UNCHANGED <<caller, seal, suspect>>
        BY SMTT(30), <1>4 DEF Sample, trackerVars
      <3>. QED  BY <2>2, <3>1
    <2>. QED  BY <1>4, <2>1, <2>2 DEF Sample
  <1>5. ASSUME NEW c \in Calls, StoreCommit(c) PROVE SealInv'
    <2>1. pc[c] = "sampled" /\ UNCHANGED <<caller, seal, suspect>>
      BY <1>5 DEF StoreCommit, trackerVars
    <2>2. CASE /\ pc' = [pc EXCEPT ![c] = "committed"]
               /\ outcome' = outcome
      BY SMTT(30), <2>1, <2>2
    <2>3. CASE /\ pc' = [pc EXCEPT ![c] = "responding"]
               /\ outcome' = [outcome EXCEPT ![c] = "ok"]
      BY SMTT(30), <2>1, <2>3
    <2>. QED  BY <1>5, <2>2, <2>3 DEF StoreCommit
  <1>6. ASSUME NEW c \in Calls, StoreFail(c) PROVE SealInv'
    BY SMTT(30), <1>6 DEF StoreFail, trackerVars
  <1>7. ASSUME NEW c \in Calls, StoreBreak(c) PROVE SealInv'
    BY SMTT(30), <1>7 DEF StoreBreak, TaskInv, Holding, Working, trackerVars
  <1>8. ASSUME NEW c \in Calls, InstallSeal(c) PROVE SealInv'
    BY SMTT(30), <1>8 DEF InstallSeal, TaskInv, Holding, Working
  <1>9. ASSUME NEW c \in Calls, PublishLoad(c) PROVE SealInv'
    BY SMTT(30), <1>9, SealKept DEF PublishLoad, taskVars, trackerVars
  <1>10. ASSUME NEW c \in Calls, PublishSwap(c) PROVE SealInv'
    BY <1>10 DEF PublishSwap, trackerVars
  <1>11. ASSUME NEW c \in Calls, SwapFails(c) PROVE SealInv'
    BY SMTT(30), <1>11, SealKept DEF SwapFails, taskVars, trackerVars
  <1>12. ASSUME NEW c \in Calls, Receive(c) PROVE SealInv'
    BY SMTT(30), <1>12 DEF Receive, taskVars, trackerVars
  <1>13. ASSUME NEW c \in Calls, Cancel(c) PROVE SealInv'
    BY SMTT(30), <1>13 DEF Cancel, taskVars, trackerVars
  <1>14. ASSUME NEW c \in Calls, Finish(c) PROVE SealInv'
    BY <1>14 DEF Finish
  <1>15. ASSUME NEW c \in Calls, Release(c) PROVE SealInv'
    BY <1>15 DEF Release, trackerVars
  <1>16. CASE DrainStart
    BY SMTT(30), <1>16 DEF DrainStart, DrainSeal, taskVars
  <1>17. CASE DrainObserve \/ DrainDeadline
    BY ZenonT(30), <1>17, SealKept DEF DrainObserve, DrainDeadline, taskVars
  <1>18. ASSUME NEW o \in Observers, NEW k \in Keys, NEW at \in Times, ObserveStart(o, k, at)
         PROVE  SealInv'
    BY SMTT(30), <1>18, SealKept DEF ObserveStart, taskVars, trackerVars
  <1>19. ASSUME NEW o \in Observers, ObserverStep(o) PROVE SealInv'
    BY Zenon, <1>19, SealKept
    DEF ObserverStep, ObserveLoad, ObserveSwap, SwapFails, taskVars, trackerVars
  <1>20. CASE UNCHANGED vars
    BY <1>20, SealKept DEF vars, taskVars, trackerVars
  <1>. QED
    BY Zenon, <1>1, <1>2, <1>3, <1>4, <1>5, <1>6, <1>7, <1>8, <1>9, <1>10, <1>11, <1>12, <1>13, <1>14,
       <1>15, <1>16, <1>17, <1>18, <1>19, <1>20
    DEF Next, TaskStep, CallerStep, Idle

(* The seal of a panic or an indeterminate error is in force before the    *)
(* mutex is released, and no task is past the fence under such a seal.     *)
THEOREM SealInvariant == Spec => []SealInv
    BY TypeInvariant, SealInit, SealStep, PTL DEF Spec

(* At most one call per registry ends in a store panic or an indeterminate *)
(* outcome, whatever was queued behind it when the seal was installed.     *)
THEOREM FailStopOnce == Spec => []AtMostOneFailStop
  <1>1. SealInv => AtMostOneFailStop
    BY DEF SealInv
  <1>. QED  BY <1>1, SealInvariant, PTL

(* No step leaves a terminal seal: neither a drain, which seals only an    *)
(* open registry, nor a second failing task, which the fence excludes.     *)
THEOREM TerminalSealStays == Spec => TerminalSealIsFinal
  <1>1. SealInv /\ [Next]_vars => (seal \in TerminalSeals => seal' = seal) \/ UNCHANGED vars
    <2>. SUFFICES ASSUME SealInv, Next, seal \in TerminalSeals PROVE seal' = seal
      BY DEF vars, trackerVars
    <2>. QED
      BY Zenon
      DEF SealInv, Next, TaskStep, CallerStep, ObserverStep, TerminalSeals, Begin, BeginSealed,
             Acquire, Sample, StoreCommit, StoreFail, StoreBreak, InstallSeal, PublishLoad,
             PublishSwap, SwapFails, Receive, Cancel, Finish, Release, DrainStart, DrainSeal,
             DrainObserve, DrainDeadline, ObserveStart, ObserveLoad, ObserveSwap, Idle, vars,
             trackerVars
  <1>2. SealInv /\ [Next]_vars => [(seal \in TerminalSeals) => seal' = seal]_vars
    BY <1>1
  <1>. QED  BY <1>2, SealInvariant, PTL DEF Spec, TerminalSealIsFinal

(* Once its caller has been told, an indeterminate outcome masks all reads.*)
THEOREM IndeterminateMasksReads == Spec => []KnownIndeterminateIsMasked
  <1>1. SealInv => KnownIndeterminateIsMasked
    BY DEF SealInv, KnownIndeterminateIsMasked, Get, FailStop, SealAfter
  <1>. QED  BY <1>1, SealInvariant, PTL

(***************************************************************************)
(* The compare-and-swap loop.                                              *)
(***************************************************************************)
LEMMA CasInit == Init => CasInv
    BY DEF Init, CasInv

LEMMA CasKept ==
    ASSUME CasInv, UNCHANGED casVars
    PROVE  CasInv'
    BY DEF CasInv, casVars

LEMMA LoadKeepsCas ==
    ASSUME TypeOK, CasInv, NEW p \in Processes, LoadFull(p)
    PROVE  CasInv'
    BY DEF CasInv, LoadFull, TypeOK

LEMMA SwapKeepsCas ==
    ASSUME TypeOK, CasInv, NEW p \in Processes, NEW m, CompareAndSwap(p, m)
    PROVE  CasInv'
    BY DEF CasInv, CompareAndSwap, TypeOK

LEMMA FailedSwapKeepsCas ==
    ASSUME TypeOK, CasInv, NEW p \in Processes, SwapFails(p)
    PROVE  CasInv' /\ snapshot' = snapshot
    BY DEF CasInv, SwapFails, TypeOK

LEMMA CasStep == TypeInv /\ CasInv /\ [Next]_vars => CasInv'
  <1>. SUFFICES ASSUME TypeOK, CasInv, [Next]_vars PROVE CasInv'
    BY DEF TypeInv
  <1>1. ASSUME NEW c \in Calls, PublishLoad(c) PROVE CasInv'
    BY <1>1, LoadKeepsCas DEF PublishLoad, Processes
  <1>2. ASSUME NEW c \in Calls, PublishSwap(c) PROVE CasInv'
    BY <1>2, SwapKeepsCas DEF PublishSwap, Processes
  <1>3. ASSUME NEW p \in Processes, SwapFails(p) PROVE CasInv'
    BY <1>3, FailedSwapKeepsCas
  <1>4. ASSUME NEW o \in Observers, ObserveLoad(o) PROVE CasInv'
    BY <1>4, LoadKeepsCas, CasKept DEF ObserveLoad, Processes
  <1>5. ASSUME NEW o \in Observers, ObserveSwap(o) PROVE CasInv'
    BY <1>5, SwapKeepsCas DEF ObserveSwap, Processes
  <1>6. CASE UNCHANGED casVars
    BY <1>6, CasKept
  <1>. QED
    BY Zenon, <1>1, <1>2, <1>3, <1>4, <1>5, <1>6
    DEF Next, TaskStep, CallerStep, ObserverStep, Processes, Begin, BeginSealed, Acquire, Sample,
        StoreCommit, StoreFail, StoreBreak, InstallSeal, Receive, Cancel, Finish, Release,
        DrainStart, DrainObserve, DrainDeadline, ObserveStart, Idle, vars

(* A compare-and-swap of merge_and_publish or observe_activity succeeds    *)
(* only on the snapshot it was computed from.                              *)
THEOREM CasInvariant == Spec => []CasInv
    BY TypeInvariant, CasInit, CasStep, PTL DEF Spec

(* A successful swap was computed from the snapshot it replaces.           *)
LEMMA SwapFromCurrent ==
    ASSUME TypeOK, CasInv, NEW p \in Processes, NEW m, base[p] # None, CompareAndSwap(p, m)
    PROVE  base[p] = snapshot
    BY DEF CasInv, CompareAndSwap, PointerUnchanged

LEMMA AdvancedKeepsRoute ==
    ASSUME NEW found \in Route \cup {None}, NEW at \in Times
    PROVE  /\ SameRoute(found, AdvancedTo(found, at))
           /\ found # None => AdvancedTo(found, at).last_activity >= found.last_activity
           /\ found # None => AdvancedTo(found, at).last_activity >= at
    BY SMTT(30), LaterType, NoneFacts DEF SameRoute, AdvancedTo, Route

(* An observation publishes a stamp, and nothing else.                     *)
LEMMA ObserveSwapEffect ==
    ASSUME TypeOK, CasInv, NEW o \in Observers, ObserveSwap(o)
    PROVE  /\ store' = store
           /\ \A k \in Keys :
                \/ snapshot'[k] = snapshot[k]
                \/ \E at \in Times : snapshot'[k] = AdvancedTo(snapshot[k], at)
  <1>1. base[o] = snapshot /\ observer[o] \in Observations
    BY SMTT(20), SwapFromCurrent DEF ObserveSwap, Processes, TypeOK
  <1>2. snapshot' = [snapshot EXCEPT ![observer[o].key] = AdvancedTo(@, observer[o].at)]
    BY <1>1 DEF ObserveSwap, CompareAndSwap
  <1>. QED  BY ZenonT(30), <1>1, <1>2 DEF ObserveSwap, Observations, TypeOK, Routes

(* Only a task past the fence changes what is routed where.                *)
LEMMA OnlyTasksChangeRoutes ==
    ASSUME TypeInv, CasInv, [Next]_vars
    PROVE  RoutesKept \/ \E c \in Calls : pc[c] \in {"sampled", "committed"}
  <1>1. CASE UNCHANGED <<store, snapshot>>
    BY SMTT(30), <1>1 DEF RoutesKept, SameRoute
  <1>2. ASSUME NEW o \in Observers, ObserveSwap(o) PROVE RoutesKept
    <2>1. ASSUME NEW k \in Keys PROVE SameRoute(snapshot[k], snapshot'[k])
      <3>1. snapshot[k] \in Route \cup {None}
        BY DEF TypeInv, TypeOK, Routes
      <3>2. CASE snapshot'[k] = snapshot[k]
        BY <3>2 DEF SameRoute
      <3>3. ASSUME NEW at \in Times, snapshot'[k] = AdvancedTo(snapshot[k], at)
            PROVE  SameRoute(snapshot[k], snapshot'[k])
        BY <3>1, <3>3, AdvancedKeepsRoute
      <3>. QED  BY <1>2, <3>2, <3>3, ObserveSwapEffect DEF TypeInv
    <2>. QED  BY SMTT(30), <1>2, <2>1, ObserveSwapEffect DEF RoutesKept, TypeInv
  <1>3. ASSUME NEW p \in Processes, SwapFails(p) PROVE UNCHANGED <<store, snapshot>>
    BY <1>3 DEF SwapFails
  <1>. QED
    BY ZenonT(30), <1>1, <1>2, <1>3
    DEF Next, TaskStep, CallerStep, ObserverStep, Processes, Begin, BeginSealed, Acquire, Sample,
        StoreCommit, StoreFail, StoreBreak, InstallSeal, PublishLoad, PublishSwap, Receive, Cancel,
        Finish, Release, DrainStart, DrainObserve, DrainDeadline, ObserveStart, ObserveLoad,
        LoadFull, Idle, vars, casVars

(* After a panic or an indeterminate outcome has sealed the registry, the  *)
(* store is not written again and no route is added, removed or retargeted.*)
THEOREM FailStopFreezes == Spec => FailStopFreezesRoutes
  <1>1. TypeInv /\ CasInv /\ SealInv /\ [Next]_vars =>
            [(seal \in TerminalSeals) => RoutesKept]_vars
    BY OnlyTasksChangeRoutes DEF SealInv
  <1>. QED
    BY <1>1, TypeInvariant, CasInvariant, SealInvariant, PTL DEF Spec, FailStopFreezesRoutes

(***************************************************************************)
(* Drains.                                                                 *)
(***************************************************************************)
LEMMA DrainInit == Init => DrainInv
    BY DEF Init, DrainInv

LEMMA DrainStepInv == TypeInv /\ DrainInv /\ [Next]_vars => DrainInv'
  <1>. SUFFICES ASSUME TypeInv, DrainInv, [Next]_vars PROVE DrainInv'
    OBVIOUS
  <1>1. active = 0 => LiveCalls = {}
    BY Zenon, FS_EmptySet DEF TypeInv, CountInv
  <1>2. CASE DrainStart
    <2>1. seal' # "Open" /\ LiveCalls' = LiveCalls
      BY <1>2 DEF DrainStart, DrainSeal, LiveCalls, taskVars
    <2>2. active = 0 \/ drain'.at = "waiting"
      BY Zenon, <1>2 DEF DrainStart, TypeInv, TypeOK
    <2>. QED  BY <1>1, <2>1, <2>2 DEF DrainInv
  <1>3. CASE DrainObserve
    <2>1. seal' = seal /\ LiveCalls' = LiveCalls /\ active = 0 /\ drain.at # "idle"
      BY <1>3 DEF DrainObserve, LiveCalls, taskVars
    <2>. QED  BY <1>1, <2>1 DEF DrainInv
  <1>4. CASE DrainDeadline
    <2>1. seal' = seal /\ LiveCalls' = LiveCalls /\ drain.at # "idle"
      BY <1>4 DEF DrainDeadline, LiveCalls, taskVars
    <2>2. drain'.timed_out = (active # 0)
      BY <1>4 DEF DrainDeadline, TakeOutcome, StillActive
    <2>. QED  BY Zenon, <1>1, <2>1, <2>2 DEF DrainInv
  <1>5. ASSUME NEW c \in Calls, NEW r \in Requests, Begin(c, r) PROVE DrainInv'
    BY <1>5 DEF Begin, DrainInv, TypeInv, TypeOK, drainVars
  <1>6. ASSUME drain' = drain, seal # "Open" => seal' # "Open", LiveCalls' \subseteq LiveCalls
        PROVE  DrainInv'
    BY <1>6 DEF DrainInv
  <1>7. ASSUME NEW c \in Calls, BeginSealed(c) \/ Acquire(c) \/ TaskStep(c) \/ CallerStep(c)
        PROVE  drain' = drain /\ (seal # "Open" => seal' # "Open") /\ LiveCalls' \subseteq LiveCalls
    BY ZenonT(30), <1>7
    DEF TypeInv, TypeOK, LiveCalls, Live, Working, TaskStep, CallerStep, BeginSealed, Acquire,
        Sample, StoreCommit, StoreFail, StoreBreak, InstallSeal, SealAfter, PublishLoad,
        PublishSwap, SwapFails, Receive, Cancel, Finish, Release, taskVars, trackerVars, drainVars
  <1>8. ASSUME NEW o \in Observers,
               ObserverStep(o) \/ \E k \in Keys, at \in Times : ObserveStart(o, k, at)
        PROVE  drain' = drain /\ seal' = seal /\ LiveCalls' = LiveCalls
    BY Zenon, <1>8
    DEF ObserverStep, ObserveStart, ObserveLoad, ObserveSwap, SwapFails, LiveCalls, taskVars,
        trackerVars, drainVars
  <1>9. ASSUME UNCHANGED vars PROVE DrainInv'
    BY <1>9 DEF vars, DrainInv, LiveCalls, taskVars, trackerVars, drainVars
  <1>. QED
    BY <1>2, <1>3, <1>4, <1>5, <1>6, <1>7, <1>8, <1>9 DEF Next, Idle

(* drain_mutations has sealed admission before it waits, and a drain that  *)
(* did not time out has left no admitted mutation unfinished.              *)
THEOREM DrainInvariant == Spec => []DrainInv
    BY TypeInvariant, DrainInit, DrainStepInv, PTL DEF Spec

(* A drain that did not time out is the end of all writes: no later step   *)
(* changes the store, nor what is routed where.                            *)
THEOREM CleanDrainEndsWrites == Spec => CleanDrainIsFinal
  <1>1. TypeInv /\ CasInv /\ DrainInv /\ [Next]_vars =>
            [drain.at = "returned" /\ ~drain.timed_out => RoutesKept]_vars
    BY OnlyTasksChangeRoutes DEF DrainInv, LiveCalls, Live, Working
  <1>. QED
    BY <1>1, TypeInvariant, CasInvariant, DrainInvariant, PTL DEF Spec, CleanDrainIsFinal

(***************************************************************************)
(* What is published.                                                      *)
(***************************************************************************)
LEMMA PublishedFields ==
    ASSUME NEW r \in Requests, NEW found \in Route \cup {None}
    PROVE  LET record == Published(r, found) IN
           /\ record \in Route \cup {None}
           /\ record # None /\ found # None => record.last_activity >= found.last_activity
           /\ r.kind = "replace" => record # None /\ record.target = r.target
                                    /\ record.last_activity >= r.at
           /\ r.kind = "delete" => record = None
           /\ r.kind = "update" => SameRoute(found, record)
           /\ r.kind = "update" /\ record # None => record.last_activity >= r.at
  <1>. DEFINE record == Published(r, found)
  <1>1. CASE r.kind = "replace"
    <2>1. Record(r) \in Route /\ Record(r).target = r.target /\ Record(r).last_activity = r.at
          /\ r.at \in Times
      BY <1>1, RequestFields, RecordFields
    <2>2. CASE found = None
      BY <1>1, <2>1, <2>2, NoneFacts, TimesAssumption DEF Published, PreservingActivity
    <2>3. CASE found # None
      <3>. DEFINE t == Later(r.at, found.last_activity)
      <3>1. found.last_activity \in Times
        BY <2>3 DEF Route
      <3>2. t \in Times /\ t >= r.at /\ t >= found.last_activity
        BY <2>1, <3>1, LaterType
      <3>3. record = [target |-> r.target, last_activity |-> t]
        BY <1>1, <2>1, <2>3 DEF Published, PreservingActivity, Record
      <3>4. record \in Route
        BY SMTT(30), <2>1, <3>2, <3>3 DEF Route
      <3>. QED  BY SMTT(30), <1>1, <3>2, <3>3, <3>4, NoneFacts
    <2>. QED  BY Zenon, <2>2, <2>3
  <1>2. CASE r.kind = "delete"
    BY Zenon, <1>2 DEF Published
  <1>3. CASE r.kind \in {"update", "persist"}
    <2>1. record = AdvancedTo(found, r.at) /\ r.at \in Times
      BY <1>3, RequestFields DEF Published
    <2>. QED  BY SMTT(30), <1>3, <2>1, AdvancedType, AdvancedKeepsRoute DEF SameRoute
  <1>. QED  BY Zenon, <1>1, <1>2, <1>3, RequestFields

(* A task's swap replaces the record under its key, and nothing else.      *)
LEMMA PublishSwapEffect ==
    ASSUME TypeInv, CasInv, NEW c \in Calls, PublishSwap(c)
    PROVE  LET r == request[c] IN
           /\ r \in Requests
           /\ r.key \in Keys
           /\ snapshot' = [snapshot EXCEPT ![r.key] = Published(r, @)]
           /\ UNCHANGED <<store, request, suspect>>
  <1>1. base[c] = snapshot
    BY Zenon, SwapFromCurrent DEF PublishSwap, Processes, TypeInv
  <1>2. request[c] \in Requests /\ request[c].key \in Keys
    BY Zenon, RequestFields DEF PublishSwap, TypeInv, TaskInv, Holding, Working
  <1>. QED  BY <1>1, <1>2 DEF PublishSwap, CompareAndSwap

(* Steps other than the two swaps leave the snapshot alone.                *)
LEMMA OnlySwapsPublish ==
    ASSUME [Next]_vars
    PROVE  \/ snapshot' = snapshot
           \/ \E c \in Calls : PublishSwap(c)
           \/ \E o \in Observers : ObserveSwap(o)
    BY ZenonT(30) DEF Next, TaskStep, CallerStep, ObserverStep, Begin, BeginSealed, Acquire, Sample,
        StoreCommit, StoreFail, StoreBreak, InstallSeal, PublishLoad, SwapFails, Receive, Cancel,
        Finish, Release, DrainStart, DrainObserve, DrainDeadline, ObserveStart, ObserveLoad,
        LoadFull, Idle, vars, casVars

(* While a route stays published its stamp does not go back, whichever way *)
(* replacements, updates and observations interleave.                      *)
THEOREM ActivityIsMonotone == Spec => ActivityNeverRegresses
  <1>1. ASSUME TypeInv, CasInv, [Next]_vars, NEW k \in Keys, snapshot[k] # None, snapshot'[k] # None
        PROVE  snapshot'[k].last_activity >= snapshot[k].last_activity
    <2>1. snapshot[k] \in Route /\ snapshot[k].last_activity \in Times
      BY <1>1 DEF TypeInv, TypeOK, Routes, Route
    <2>2. CASE snapshot'[k] = snapshot[k]
      <3>. DEFINE t == snapshot[k].last_activity
      <3>1. t \in Int
        BY Zenon, <2>1, TimesAssumption
      <3>2. snapshot'[k].last_activity = t
        BY <2>2
      <3>. HIDE DEF t
      <3>3. t >= t
        BY <3>1
      <3>. QED  BY <3>2, <3>3 DEF t
    <2>3. ASSUME NEW c \in Calls, PublishSwap(c)
          PROVE  snapshot'[k].last_activity >= snapshot[k].last_activity
      <3>. DEFINE r == request[c]
      <3>1. /\ r \in Requests /\ r.key \in Keys
            /\ snapshot' = [snapshot EXCEPT ![r.key] = Published(r, @)]
        BY <1>1, <2>3, PublishSwapEffect
      <3>2. CASE r.key = k
        <4>1. snapshot'[k] = Published(r, snapshot[k])
          BY Zenon, <1>1, <3>1, <3>2 DEF TypeInv, TypeOK, Routes
        <4>. QED  BY <1>1, <2>1, <3>1, <4>1, PublishedFields
      <3>3. CASE r.key # k
        BY ZenonT(30), <1>1, <2>2, <3>1, <3>3 DEF TypeInv, TypeOK, Routes
      <3>. QED  BY <3>2, <3>3
    <2>4. ASSUME NEW o \in Observers, ObserveSwap(o)
          PROVE  snapshot'[k].last_activity >= snapshot[k].last_activity
      <3>1. ASSUME NEW at \in Times, snapshot'[k] = AdvancedTo(snapshot[k], at)
            PROVE  snapshot'[k].last_activity >= snapshot[k].last_activity
        BY <1>1, <2>1, <3>1, AdvancedKeepsRoute
      <3>. QED  BY <1>1, <2>2, <2>4, <3>1, ObserveSwapEffect DEF TypeInv
    <2>. QED  BY SMTT(20), <1>1, <2>2, <2>3, <2>4, OnlySwapsPublish
  <1>2. TypeInv /\ CasInv /\ [Next]_vars =>
            [\A k \in Keys : snapshot[k] # None /\ snapshot'[k] # None =>
                snapshot'[k].last_activity >= snapshot[k].last_activity]_vars
    BY <1>1
  <1>. QED
    BY <1>2, TypeInvariant, CasInvariant, PTL DEF Spec, ActivityNeverRegresses

(***************************************************************************)
(* Store and snapshot.                                                     *)
(***************************************************************************)
AgreeInv == CommitInv /\ SnapshotMatchesStore /\ ResponseReflectsRoutes

LEMMA AgreeInit == Init => AgreeInv
    BY Zenon DEF Init, AgreeInv, CommitInv, SnapshotMatchesStore, ResponseReflectsRoutes, SameRoute

(* Steps that neither write nor publish, and move no task into or out of   *)
(* the places AgreeInv speaks of.                                          *)
LEMMA AgreeKept ==
    ASSUME AgreeInv, UNCHANGED <<store, snapshot, suspect>>,
           \A d \in Calls :
            /\ pc[d] = "committed" <=> pc'[d] = "committed"
            /\ pc'[d] = "committed" => request'[d] = request[d]
            /\ pc'[d] = "responding" /\ outcome'[d] = "ok" =>
                \/ pc[d] = "responding" /\ outcome[d] = "ok" /\ request'[d] = request[d]
                \/ request'[d].kind = "persist"
    PROVE  AgreeInv'
  <1>1. CommitInv'
    BY ZenonT(30) DEF AgreeInv, CommitInv, SameRoute
  <1>2. SnapshotMatchesStore'
    <2>1. \A k \in Keys : InFlux(k) => InFlux(k)'
      BY Zenon DEF InFlux
    <2>. QED  BY Zenon, <2>1 DEF AgreeInv, SnapshotMatchesStore, SameRoute
  <1>3. ResponseReflectsRoutes'
    BY DEF AgreeInv, ResponseReflectsRoutes
  <1>. QED  BY <1>1, <1>2, <1>3 DEF AgreeInv

(* While a task is in its store call nothing is in doubt and nobody else   *)
(* is between a commit and a response.                                     *)
LEMMA SampledAlone ==
    ASSUME TypeInv, SealInv, NEW c \in Calls, pc[c] = "sampled"
    PROVE  /\ suspect = {}
           /\ \A d \in Calls : pc[d] \notin {"committed", "responding"}
           /\ \A k \in Keys : ~InFlux(k)
  <1>1. \A d \in Calls : d # c => pc[d] \notin Holding
    BY DEF TypeInv, TaskInv, Holding, Working
  <1>2. \A d \in Calls : ~FailStop(d)
    BY <1>1 DEF SealInv, FailStop, SealAfter, TerminalSeals, Holding, Working
  <1>3. \A d \in Calls : pc[d] \notin {"committed", "responding"}
    BY <1>1 DEF Holding, Working
  <1>. QED  BY Zenon, <1>2, <1>3 DEF SealInv, InFlux

LEMMA StoredKeepsRoute ==
    ASSUME NEW r \in Requests, r.kind \in {"update", "persist"}, NEW found \in Route \cup {None}
    PROVE  SameRoute(found, Stored(r, found))
  <1>1. r.at \in Times
    BY RequestFields
  <1>2. CASE found = None
    BY <1>2 DEF Stored, SameRoute
  <1>3. CASE found \in Route
    <2>1. Stored(r, found) = [found EXCEPT !.last_activity = r.at]
      BY <1>3, NoneFacts DEF Stored
    <2>2. [found EXCEPT !.last_activity = r.at] \in Route
          /\ [found EXCEPT !.last_activity = r.at].target = found.target
      BY <1>1, <1>3 DEF Route
    <2>. QED  BY <1>3, <2>1, <2>2, NoneFacts DEF SameRoute
  <1>. QED  BY <1>2, <1>3

LEMMA AgreeStoreCommit ==
    ASSUME TypeInv, SealInv, AgreeInv, NEW c \in Calls, StoreCommit(c)
    PROVE  AgreeInv'
  <1>. DEFINE r == request[c]
  <1>1. /\ r \in Requests /\ r.key \in Keys
        /\ store' = [store EXCEPT ![r.key] = Stored(r, @)]
        /\ UNCHANGED <<snapshot, request, suspect>>
        /\ pc[c] = "sampled"
    BY Zenon, RequestFields DEF StoreCommit, Persist, TypeInv, TaskInv, Holding, Working, casVars
  <1>2. /\ suspect = {}
        /\ \A d \in Calls : pc[d] \notin {"committed", "responding"}
        /\ \A k \in Keys : SameRoute(store[k], snapshot[k])
    BY Zenon, <1>1, SampledAlone DEF AgreeInv, SnapshotMatchesStore
  <1>3. \A d \in Calls : d # c => pc'[d] \notin {"committed", "responding"}
    BY SMTT(30), <1>1, <1>2 DEF StoreCommit, TypeInv, TypeOK
  <1>4. \A k \in Keys : k # r.key => store'[k] = store[k]
    BY SMTT(20), <1>1 DEF TypeInv, TypeOK, Routes
  <1>5. store'[r.key] = Stored(r, store[r.key])
    BY SMTT(30), <1>1 DEF TypeInv, TypeOK, Routes
  <1>6. r.kind \in {"update", "persist"} => SameRoute(store'[r.key], snapshot[r.key])
    <2>. SUFFICES ASSUME r.kind \in {"update", "persist"}
                  PROVE  SameRoute(store'[r.key], snapshot[r.key])
      BY SMTT(20)
    <2>1. store[r.key] \in Route \cup {None}
      BY ZenonT(30), <1>1 DEF TypeInv, TypeOK, Routes
    <2>2. SameRoute(store[r.key], store'[r.key])
      BY Zenon, <1>1, <1>5, <2>1, StoredKeepsRoute
    <2>. QED  BY ZenonT(30), <1>1, <1>2, <2>2 DEF SameRoute
  <1>7. CASE pc' = [pc EXCEPT ![c] = "committed"]
    <2>1. pc'[c] = "committed"
      BY ZenonT(30), <1>7 DEF TypeInv, TypeOK
    <2>2. CommitInv'
      BY ZenonT(30), <1>1, <1>3, <1>5, <1>6 DEF CommitInv, Stored
    <2>3. SnapshotMatchesStore'
      BY <1>1, <1>2, <1>4, <2>1 DEF SnapshotMatchesStore, InFlux
    <2>4. ResponseReflectsRoutes'
      BY SMTT(30), <1>3, <2>1 DEF ResponseReflectsRoutes
    <2>. QED  BY <2>2, <2>3, <2>4 DEF AgreeInv
  <1>8. CASE r.kind = "persist" /\ pc' = [pc EXCEPT ![c] = "responding"]
    <2>1. pc'[c] = "responding"
      BY SMTT(30), <1>8 DEF TypeInv, TypeOK
    <2>2. CommitInv'
      BY <1>3, <2>1 DEF CommitInv
    <2>3. SnapshotMatchesStore'
      BY Zenon, <1>1, <1>2, <1>4, <1>6, <1>8 DEF SnapshotMatchesStore
    <2>4. ResponseReflectsRoutes'
      BY Zenon, <1>1, <1>3, <1>8 DEF ResponseReflectsRoutes
    <2>. QED  BY <2>2, <2>3, <2>4 DEF AgreeInv
  <1>. QED  BY <1>7, <1>8 DEF StoreCommit, Unpublished

LEMMA AgreeStoreBreak ==
    ASSUME TypeInv, SealInv, AgreeInv, NEW c \in Calls, StoreBreak(c)
    PROVE  AgreeInv'
  <1>. DEFINE r == request[c]
  <1>1. /\ r \in Requests /\ r.key \in Keys
        /\ store' \in {store, [store EXCEPT ![r.key] = Stored(r, @)]}
        /\ suspect' = suspect \cup {r.key}
        /\ UNCHANGED <<snapshot, request>>
        /\ pc[c] = "sampled" /\ pc' = [pc EXCEPT ![c] = "sealing"]
    BY Zenon, RequestFields DEF StoreBreak, Persist, TypeInv, TaskInv, Holding, Working, casVars
  <1>2. /\ suspect = {}
        /\ \A d \in Calls : pc[d] \notin {"committed", "responding"}
        /\ \A k \in Keys : SameRoute(store[k], snapshot[k])
    BY Zenon, <1>1, SampledAlone DEF AgreeInv, SnapshotMatchesStore
  <1>3. \A d \in Calls : pc'[d] \notin {"committed", "responding"}
    BY <1>1, <1>2 DEF TypeInv, TypeOK
  <1>4. \A k \in Keys \ suspect' : store'[k] = store[k]
    BY Zenon, <1>1 DEF TypeInv, TypeOK, Routes
  <1>5. SnapshotMatchesStore'
    BY ZenonT(30), <1>1, <1>2, <1>4 DEF SnapshotMatchesStore
  <1>. QED  BY Zenon, <1>3, <1>5 DEF AgreeInv, CommitInv, ResponseReflectsRoutes

LEMMA AgreePublishSwap ==
    ASSUME TypeInv, CasInv, SealInv, AgreeInv, NEW c \in Calls, PublishSwap(c)
    PROVE  AgreeInv'
  <1>. DEFINE r == request[c]
              published == Published(r, snapshot[r.key])
  <1>1. /\ r \in Requests /\ r.key \in Keys
        /\ snapshot' = [snapshot EXCEPT ![r.key] = published]
        /\ UNCHANGED <<store, request, suspect>>
        /\ pc[c] = "committed" /\ pc' = [pc EXCEPT ![c] = "responding"]
    BY Zenon, PublishSwapEffect DEF PublishSwap
  <1>2. r.kind # "persist"
    BY ZenonT(30), <1>1 DEF TypeInv, TaskInv
  <1>3. \A d \in Calls : d # c => pc[d] \notin {"committed", "responding"}
    BY Zenon, <1>1 DEF TypeInv, TaskInv, Holding, Working
  <1>4. \A d \in Calls : /\ pc'[d] # "committed"
                         /\ d # c => pc'[d] # "responding"
    BY <1>1, <1>3 DEF TypeInv, TypeOK
  <1>5. snapshot'[r.key] = published /\ \A k \in Keys : k # r.key => snapshot'[k] = snapshot[k]
    BY Zenon, <1>1 DEF TypeInv, TypeOK, Routes
  <1>6. /\ r.kind = "replace" => published # None /\ published.target = r.target
                                 /\ published.last_activity >= r.at
        /\ r.kind = "delete" => published = None
        /\ r.kind = "update" => SameRoute(snapshot[r.key], published)
        /\ r.kind = "update" /\ published # None => published.last_activity >= r.at
    <2>1. snapshot[r.key] \in Route \cup {None}
      BY ZenonT(30), <1>1 DEF TypeInv, TypeOK, Routes
    <2>. QED  BY Zenon, <1>1, <2>1, PublishedFields
  <1>7. /\ r.kind = "replace" => store[r.key] = Record(r)
        /\ r.kind = "delete" => store[r.key] = None
        /\ r.kind = "update" => SameRoute(store[r.key], snapshot[r.key])
    BY ZenonT(30), <1>1 DEF AgreeInv, CommitInv
  <1>8. SnapshotMatchesStore'
    <2>. SUFFICES ASSUME NEW k \in Keys \ suspect PROVE SameRoute(store[k], snapshot'[k])
      BY <1>1 DEF SnapshotMatchesStore
    <2>1. CASE k = r.key
      <3>1. CASE r.kind = "replace"
        <4>1. store[k] # None /\ store[k].target = r.target
          BY Zenon, <1>1, <1>7, <2>1, <3>1, RecordFields
        <4>. QED  BY Zenon, <1>5, <1>6, <2>1, <3>1, <4>1 DEF SameRoute
      <3>2. CASE r.kind = "delete"
        BY ZenonT(30), <1>5, <1>6, <1>7, <2>1, <3>2 DEF SameRoute
      <3>3. CASE r.kind = "update"
        BY ZenonT(30), <1>5, <1>6, <1>7, <2>1, <3>3 DEF SameRoute
      <3>. QED  BY Zenon, <1>1, <1>2, <3>1, <3>2, <3>3, RequestFields
    <2>2. CASE k # r.key
      <3>1. ~InFlux(k)
        BY <1>3, <2>2 DEF InFlux
      <3>. QED  BY <1>5, <2>2, <3>1 DEF AgreeInv, SnapshotMatchesStore
    <2>. QED  BY ZenonT(30), <2>1, <2>2
  <1>9. ResponseReflectsRoutes'
    BY Zenon, <1>1, <1>2, <1>4, <1>5, <1>6, <1>7 DEF ResponseReflectsRoutes
  <1>. QED  BY Zenon, <1>4, <1>8, <1>9 DEF AgreeInv, CommitInv

LEMMA AgreeObserveSwap ==
    ASSUME TypeInv, CasInv, AgreeInv, NEW o \in Observers, ObserveSwap(o)
    PROVE  AgreeInv'
  <1>1. UNCHANGED <<store, suspect, pc, request, outcome>>
    BY Zenon DEF ObserveSwap, taskVars
  <1>2. \A k \in Keys : /\ SameRoute(snapshot[k], snapshot'[k])
                        /\ snapshot[k] # None => snapshot'[k].last_activity >= snapshot[k].last_activity
    <2>. SUFFICES ASSUME NEW k \in Keys
                  PROVE  /\ SameRoute(snapshot[k], snapshot'[k])
                         /\ snapshot[k] # None =>
                                snapshot'[k].last_activity >= snapshot[k].last_activity
      BY Zenon
    <2>1. snapshot[k] \in Route \cup {None}
      BY ZenonT(30) DEF TypeInv, TypeOK, Routes
    <2>2. CASE snapshot'[k] = snapshot[k]
      <3>1. ASSUME snapshot[k] # None PROVE snapshot[k].last_activity \in Int
        BY Zenon, <2>1, <3>1, TimesAssumption DEF Route
      <3>2. \A t \in Int : t >= t
        OBVIOUS
      <3>. QED  BY <2>2, <3>1, <3>2 DEF SameRoute
    <2>3. ASSUME NEW at \in Times, snapshot'[k] = AdvancedTo(snapshot[k], at)
          PROVE  /\ SameRoute(snapshot[k], snapshot'[k])
                 /\ snapshot[k] # None => snapshot'[k].last_activity >= snapshot[k].last_activity
      <3>1. SameRoute(snapshot[k], snapshot'[k])
        BY Zenon, <2>1, <2>3, AdvancedKeepsRoute
      <3>2. ASSUME snapshot[k] # None PROVE snapshot'[k].last_activity >= snapshot[k].last_activity
        BY <2>1, <2>3, <3>2, TimesAssumption DEF AdvancedTo, Later, Route
      <3>. QED  BY <3>1, <3>2
    <2>. QED  BY Zenon, <2>2, <2>3, ObserveSwapEffect DEF TypeInv
  <1>3. CommitInv'
    <2>1. \A c \in Calls : pc[c] = "committed" => request[c].key \in Keys
      BY Zenon, RequestFields DEF TypeInv, TaskInv, Holding, Working
    <2>. QED  BY Zenon, <1>1, <1>2, <2>1 DEF AgreeInv, CommitInv, SameRoute
  <1>4. SnapshotMatchesStore'
    BY <1>1, <1>2 DEF AgreeInv, SnapshotMatchesStore, SameRoute, InFlux
  <1>5. ResponseReflectsRoutes'
    <2>. SUFFICES ASSUME NEW c \in Calls, pc[c] = "responding", outcome[c] = "ok"
                  PROVE  LET r == request[c] IN
                         /\ r.kind = "replace" =>
                             /\ store[r.key] = Record(r)
                             /\ snapshot'[r.key] # None
                             /\ snapshot'[r.key].target = r.target
                             /\ snapshot'[r.key].last_activity >= r.at
                         /\ r.kind = "delete" => store[r.key] = None /\ snapshot'[r.key] = None
                         /\ r.kind = "update" /\ snapshot'[r.key] # None =>
                             snapshot'[r.key].last_activity >= r.at
      BY Zenon, <1>1 DEF ResponseReflectsRoutes
    <2>. DEFINE r == request[c]
    <2>0. TypeInv'
      BY Zenon, TypeStep DEF Next, ObserverStep
    <2>1. r \in Requests /\ r.key \in Keys
      BY RequestFields DEF TypeInv, TaskInv, Holding, Working
    <2>2. /\ snapshot[r.key] \in Route \cup {None} /\ snapshot'[r.key] \in Route \cup {None}
          /\ r.kind \in {"replace", "update"} => r.at \in Times
      BY Zenon, <2>1, RequestFields, <2>0 DEF TypeInv, TypeOK, Routes
    <2>3. SameRoute(snapshot[r.key], snapshot'[r.key])
      BY ZenonT(30), <1>2, <2>1
    <2>4. ASSUME snapshot[r.key] # None, r.at \in Times, snapshot[r.key].last_activity >= r.at
          PROVE  snapshot'[r.key].last_activity >= r.at
      <3>1. /\ r.at \in Int /\ snapshot[r.key].last_activity \in Int
            /\ snapshot'[r.key].last_activity \in Int
        BY Zenon, <2>2, <2>3, <2>4, TimesAssumption DEF SameRoute, Route
      <3>2. snapshot'[r.key].last_activity >= snapshot[r.key].last_activity
        BY <1>2, <2>1, <2>4
      <3>3. \A i, j, l \in Int : i >= j /\ j >= l => i >= l
        OBVIOUS
      <3>. QED  BY <2>4, <3>1, <3>2, <3>3
    <2>5. CASE r.kind = "replace"
      BY Zenon, <2>2, <2>3, <2>4, <2>5 DEF AgreeInv, ResponseReflectsRoutes, SameRoute
    <2>6. CASE r.kind = "delete"
      BY Zenon, <2>3, <2>6 DEF AgreeInv, ResponseReflectsRoutes, SameRoute
    <2>7. CASE r.kind = "update"
      BY Zenon, <2>2, <2>3, <2>4, <2>7 DEF AgreeInv, ResponseReflectsRoutes, SameRoute
    <2>. QED  BY Zenon, <2>5, <2>6, <2>7
  <1>. QED  BY <1>3, <1>4, <1>5 DEF AgreeInv

LEMMA AgreeStep ==
    TypeInv /\ SealInv /\ CasInv /\ AgreeInv /\ [Next]_vars => AgreeInv'
  <1>. SUFFICES ASSUME TypeInv, SealInv, CasInv, AgreeInv, [Next]_vars PROVE AgreeInv'
    OBVIOUS
  <1>1. ASSUME NEW c \in Calls, StoreCommit(c) PROVE AgreeInv'
    BY <1>1, AgreeStoreCommit
  <1>2. ASSUME NEW c \in Calls, StoreBreak(c) PROVE AgreeInv'
    BY <1>2, AgreeStoreBreak
  <1>3. ASSUME NEW c \in Calls, PublishSwap(c) PROVE AgreeInv'
    BY <1>3, AgreePublishSwap
  <1>4. ASSUME NEW o \in Observers, ObserveSwap(o) PROVE AgreeInv'
    BY <1>4, AgreeObserveSwap
  <1>5. CASE UNCHANGED <<store, snapshot, suspect, pc, request, outcome>>
    BY ZenonT(30), <1>5, AgreeKept
  <1>6. ASSUME NEW c \in Calls, NEW r \in Requests, Begin(c, r) PROVE AgreeInv'
    BY ZenonT(30), <1>6, AgreeKept DEF Begin, casVars, TypeInv, TypeOK
  <1>7. ASSUME NEW c \in Calls, BeginSealed(c) PROVE AgreeInv'
    BY ZenonT(30), <1>7, AgreeKept DEF BeginSealed, casVars, TypeInv, TypeOK
  <1>8. ASSUME NEW c \in Calls, Acquire(c) PROVE AgreeInv'
    BY <1>8, AgreeKept DEF Acquire, casVars, TypeInv, TypeOK, Seals
  <1>9. ASSUME NEW c \in Calls, Sample(c) PROVE AgreeInv'
    BY ZenonT(30), <1>9, AgreeKept DEF Sample, casVars, TypeInv, TypeOK
  <1>10. ASSUME NEW c \in Calls, StoreFail(c) PROVE AgreeInv'
    BY ZenonT(30), <1>10, AgreeKept DEF StoreFail, casVars, TypeInv, TypeOK
  <1>11. ASSUME NEW c \in Calls, InstallSeal(c) PROVE AgreeInv'
    <2>1. outcome[c] # "ok"
      BY ZenonT(30), <1>11 DEF InstallSeal, SealInv, FailStop
    <2>. QED  BY ZenonT(30), <1>11, <2>1, AgreeKept DEF InstallSeal, casVars, TypeInv, TypeOK
  <1>12. ASSUME NEW c \in Calls, Finish(c) PROVE AgreeInv'
    BY ZenonT(30), <1>12, AgreeKept DEF Finish, casVars, TypeInv, TypeOK
  <1>13. ASSUME NEW c \in Calls, Release(c) PROVE AgreeInv'
    BY <1>13, AgreeKept DEF Release, casVars, TypeInv, TypeOK
  <1>. QED
    BY Zenon, <1>1, <1>2, <1>3, <1>4, <1>5, <1>6, <1>7, <1>8, <1>9, <1>10, <1>11, <1>12, <1>13
    DEF Next, TaskStep, CallerStep, ObserverStep, PublishLoad, SwapFails, LoadFull, Receive, Cancel,
        DrainStart, DrainObserve, DrainDeadline, ObserveStart, ObserveLoad, Idle, vars, casVars,
        taskVars

(* The layer that relates the store, the snapshot and the responses is an  *)
(* invariant: what run_mutation commits, publishes and answers agree.      *)
THEOREM AgreeInvariant == Spec => []AgreeInv
  <1>1. TypeInv /\ SealInv /\ CasInv /\ AgreeInv /\ [Next]_vars => AgreeInv'
    BY AgreeStep
  <1>. QED
    BY <1>1, AgreeInit, TypeInvariant, SealInvariant, CasInvariant, PTL DEF Spec

(* What readers are served is what a restart would load, for any number of *)
(* routes, calls and observers (commit and publication under one mutex).   *)
THEOREM SnapshotAgrees == Spec => []SnapshotMatchesStore
  <1>1. AgreeInv => SnapshotMatchesStore
    BY DEF AgreeInv
  <1>. QED  BY <1>1, AgreeInvariant, PTL

(* A successful mutation is visible in store and snapshot while its caller *)
(* takes the response, for any number of calls and observers.              *)
THEOREM ResponsesAreTrue == Spec => []ResponseReflectsRoutes
  <1>1. AgreeInv => ResponseReflectsRoutes
    BY DEF AgreeInv
  <1>. QED  BY <1>1, AgreeInvariant, PTL

(***************************************************************************)
(* Diagnostics: a sum over the ring, the overflow counts and what drains   *)
(* have returned, against the set of calls abandoned with a failure.       *)
(***************************************************************************)
Positions(s, d) == {i \in DOMAIN s : s[i] = d}

Abandoned(d) ==
    {c \in Calls : /\ pc[c] \in {"finished", "done"}
                   /\ caller[c] = "gone"
                   /\ outcome[c] # "ok"
                   /\ DiagnosticOf(outcome[c]) = d}

AccountInv ==
    \A d \in DiagnosticKinds :
        /\ IsFiniteSet(Abandoned(d))
        /\ reported[d] + dropped[d] + Retained(d) = Cardinality(Abandoned(d))

LEMMA PositionsFinite ==
    ASSUME NEW S, NEW s \in Seq(S), NEW d
    PROVE  IsFiniteSet(Positions(s, d)) /\ Cardinality(Positions(s, d)) \in Nat
  <1>1. IsFiniteSet(1 .. Len(s))
    BY FS_Interval
  <1>2. Positions(s, d) \subseteq 1 .. Len(s)
    BY DEF Positions
  <1>. QED  BY <1>1, <1>2, FS_Subset, FS_CardinalityType

(* push_back adds one occurrence of the diagnostic pushed.                 *)
LEMMA AppendCounts ==
    ASSUME NEW S, NEW s \in Seq(S), NEW e \in S, NEW d
    PROVE  Cardinality(Positions(Append(s, e), d)) =
               Cardinality(Positions(s, d)) + (IF e = d THEN 1 ELSE 0)
  <1>1. CASE e = d
    <2>1. Positions(Append(s, e), d) = Positions(s, d) \cup {Len(s) + 1}
      BY <1>1 DEF Positions
    <2>2. Len(s) + 1 \notin Positions(s, d)
      BY DEF Positions
    <2>. QED  BY Zenon, <1>1, <2>1, <2>2, PositionsFinite, FS_AddElement
  <1>2. CASE e # d
    <2>1. Positions(Append(s, e), d) = Positions(s, d)
      BY <1>2 DEF Positions
    <2>. QED  BY <1>2, <2>1, PositionsFinite
  <1>. QED  BY <1>1, <1>2

(* pop_front takes one occurrence of the oldest diagnostic away.           *)
LEMMA TailCounts ==
    ASSUME NEW S, NEW s \in Seq(S), s # <<>>, NEW d
    PROVE  Cardinality(Positions(Tail(s), d)) + (IF Head(s) = d THEN 1 ELSE 0) =
               Cardinality(Positions(s, d))
  <1>. DEFINE P == Positions(Tail(s), d)
              Q == Positions(s, d)
              f == [i \in P |-> i + 1]
  <1>1. P \subseteq Nat
    BY DEF Positions
  <1>2. f \in [P -> Q \ {1}]
    BY DEF Positions
  <1>3. \A i, j \in P : f[i] = f[j] => i = j
    BY <1>1
  <1>4. \A j \in Q \ {1} : j - 1 \in P
    BY DEF Positions
  <1>5. \A j \in Q \ {1} : j - 1 \in P /\ f[j - 1] = j
    <2>1. Q \subseteq Nat
      BY DEF Positions
    <2>. HIDE DEF P, Q
    <2>. QED  BY <1>4, <2>1
  <1>6. f \in Bijection(P, Q \ {1})
    <2>. HIDE DEF f, P, Q
    <2>. QED  BY <1>2, <1>3, <1>5 DEF Bijection, Injection, Surjection, IsInjective
  <1>7. Cardinality(Q \ {1}) = Cardinality(P)
    <2>1. IsFiniteSet(P)
      <3>1. Tail(s) \in Seq(S)
        OBVIOUS
      <3>. QED  BY Zenon, <3>1, PositionsFinite
    <2>2. ExistsBijection(P, Q \ {1})
      BY Zenon, <1>6 DEF ExistsBijection
    <2>. HIDE DEF P, Q
    <2>. QED  BY <2>1, <2>2, FS_Bijection
  <1>8. 1 \in Q <=> Head(s) = d
    BY DEF Positions
  <1>9. IsFiniteSet(Q) /\ Cardinality(Q) \in Nat
    BY PositionsFinite
  <1>. HIDE DEF P, Q
  <1>10. Cardinality(Q \ {1}) = IF 1 \in Q THEN Cardinality(Q) - 1 ELSE Cardinality(Q)
    BY ZenonT(30), <1>9, FS_RemoveElement
  <1>. QED  BY <1>7, <1>8, <1>9, <1>10 DEF P, Q

(* push_diagnostic adds one to what is retained or dropped of its kind,    *)
(* also when the full ring gives up its oldest diagnostic.                 *)
LEMMA PushCounts ==
    ASSUME TypeOK, NEW d \in DiagnosticKinds, PushDiagnostic(d), NEW k \in DiagnosticKinds
    PROVE  dropped'[k] + Retained(k)' = dropped[k] + Retained(k) + (IF d = k THEN 1 ELSE 0)
  <1>. DEFINE q == diagnostics
  <1>0. /\ q \in Seq(DiagnosticKinds) /\ dropped \in [DiagnosticKinds -> Nat]
        /\ Retained(k) = Cardinality(Positions(q, k))
        /\ Retained(k)' = Cardinality(Positions(q', k))
    BY ZenonT(30) DEF TypeOK, Retained, Positions
  <1>1. CASE RingFull
    <2>1. /\ q # <<>> /\ Tail(q) \in Seq(DiagnosticKinds) /\ Head(q) \in DiagnosticKinds
      BY <1>0, <1>1, CapacityAssumption DEF RingFull
    <2>2. q' = Append(Tail(q), d) /\ dropped' = [dropped EXCEPT ![Head(q)] = @ + 1]
      BY <1>1 DEF PushDiagnostic
    <2>3. dropped'[k] = dropped[k] + (IF Head(q) = k THEN 1 ELSE 0)
      BY <1>0, <2>1, <2>2
    <2>4. Cardinality(Positions(Append(Tail(q), d), k)) =
              Cardinality(Positions(Tail(q), k)) + (IF d = k THEN 1 ELSE 0)
      <3>. DEFINE rest == Tail(q)
      <3>1. rest \in Seq(DiagnosticKinds)
        BY <2>1
      <3>. HIDE DEF rest
      <3>2. Cardinality(Positions(Append(rest, d), k)) =
                Cardinality(Positions(rest, k)) + (IF d = k THEN 1 ELSE 0)
        BY <3>1, AppendCounts
      <3>. QED  BY <3>2 DEF rest
    <2>5. Cardinality(Positions(Tail(q), k)) + (IF Head(q) = k THEN 1 ELSE 0) =
              Cardinality(Positions(q, k))
      BY <1>0, <2>1, TailCounts
    <2>6. Cardinality(Positions(Tail(q), k)) \in Nat /\ Cardinality(Positions(q, k)) \in Nat
      BY Zenon, <1>0, <2>1, PositionsFinite
    <2>. QED  BY <1>0, <2>2, <2>3, <2>4, <2>5, <2>6
  <1>2. CASE ~RingFull
    <2>1. q' = Append(q, d) /\ dropped' = dropped
      BY <1>2 DEF PushDiagnostic
    <2>2. Cardinality(Positions(Append(q, d), k)) =
              Cardinality(Positions(q, k)) + (IF d = k THEN 1 ELSE 0)
      BY <1>0, AppendCounts
    <2>3. Cardinality(Positions(q, k)) \in Nat
      BY SMTT(30), <1>0, PositionsFinite
    <2>. QED  BY <1>0, <2>1, <2>2, <2>3
  <1>. QED  BY ZenonT(30), <1>1, <1>2

LEMMA AccountKept ==
    ASSUME AccountInv, \A d \in DiagnosticKinds : Abandoned(d)' = Abandoned(d), drainVars' = drainVars,
           diagnostics' = diagnostics, dropped' = dropped
    PROVE  AccountInv'
    BY DEF AccountInv, drainVars, Retained

(* take_outcome moves the ring and the overflow counts to what is returned.*)
LEMMA AccountTaken ==
    ASSUME TypeOK, AccountInv, \A d \in DiagnosticKinds : Abandoned(d)' = Abandoned(d),
           NEW n, NEW t, TakeOutcome(n, t)
    PROVE  AccountInv'
  <1>. SUFFICES ASSUME NEW d \in DiagnosticKinds
                PROVE  reported'[d] + dropped'[d] + Retained(d)' = reported[d] + dropped[d] + Retained(d)
    BY Zenon DEF AccountInv
  <1>1. Retained(d)' = 0
    <2>1. {i \in DOMAIN diagnostics' : diagnostics'[i] = d} = {}
      BY SMTT(30) DEF TakeOutcome
    <2>. QED  BY ZenonT(30), <2>1, FS_EmptySet DEF Retained
  <1>2. reported'[d] = reported[d] + dropped[d] + Retained(d) /\ dropped'[d] = 0
    BY DEF TakeOutcome, DroppedAfterTake
  <1>3. reported[d] \in Nat /\ dropped[d] \in Nat /\ Retained(d) \in Nat
    BY SMTT(30), RetainedType DEF TypeOK
  <1>. QED  BY <1>1, <1>2, <1>3

LEMMA SumGrows ==
    ASSUME NEW r \in Nat, NEW x \in Nat, NEW y \in Nat, NEW n \in Nat, r + x + y = n,
           NEW u \in Nat, NEW v \in Nat, NEW k \in Nat, u + v = x + y + k
    PROVE  r + u + v = n + k
    BY SMTT(30)

(* finish: the call joins the abandoned ones exactly when it pushes.       *)
LEMMA AccountFinish ==
    ASSUME TypeOK, AccountInv, NEW c \in Calls, Finish(c)
    PROVE  AccountInv'
  <1>. SUFFICES ASSUME NEW d \in DiagnosticKinds
                PROVE  /\ IsFiniteSet(Abandoned(d)')
                       /\ reported'[d] + dropped'[d] + Retained(d)' = Cardinality(Abandoned(d)')
    BY Zenon DEF AccountInv
  <1>. DEFINE kind == DiagnosticOf(outcome[c])
              pushes == caller[c] = "gone" /\ outcome[c] # "ok"
  <1>1. /\ IsFiniteSet(Abandoned(d)) /\ reported' = reported
        /\ reported[d] + dropped[d] + Retained(d) = Cardinality(Abandoned(d))
    BY SMTT(30) DEF AccountInv, Finish, drainVars
  <1>2. reported[d] \in Nat /\ dropped[d] \in Nat /\ Retained(d) \in Nat
    BY ZenonT(30), RetainedType DEF TypeOK
  <1>3. c \notin Abandoned(d)
    BY ZenonT(30) DEF Finish, Abandoned
  <1>4. Abandoned(d)' = IF pushes /\ kind = d THEN Abandoned(d) \cup {c} ELSE Abandoned(d)
    BY DEF TypeOK, Finish, Abandoned
  <1>5. CASE pushes
    <2>1. kind \in DiagnosticKinds /\ PushDiagnostic(kind)
      BY ZenonT(30), <1>5 DEF Finish, DiagnosticOf, DiagnosticKinds
    <2>2. dropped'[d] + Retained(d)' = dropped[d] + Retained(d) + (IF kind = d THEN 1 ELSE 0)
      BY SMTT(30), <2>1, PushCounts
    <2>3. dropped'[d] \in Nat /\ Retained(d)' \in Nat
      <3>1. /\ diagnostics' \in Seq(DiagnosticKinds)
            /\ dropped' \in [DiagnosticKinds -> Nat]
        BY <2>1, PushType DEF TypeOK
      <3>2. Retained(d)' = Cardinality(Positions(diagnostics', d))
        BY DEF Retained, Positions
      <3>. QED  BY ZenonT(30), <3>1, <3>2, PositionsFinite
    <2>. HIDE DEF kind
    <2>4. CASE kind = d
      <3>1. /\ IsFiniteSet(Abandoned(d) \cup {c})
            /\ Cardinality(Abandoned(d) \cup {c}) = Cardinality(Abandoned(d)) + 1
        BY <1>1, <1>3, FS_AddElement
      <3>2. Abandoned(d)' = Abandoned(d) \cup {c}
        BY Zenon, <1>4, <1>5, <2>4
      <3>3. dropped'[d] + Retained(d)' = dropped[d] + Retained(d) + 1
        BY Zenon, <2>2, <2>4
      <3>4. reported[d] + dropped'[d] + Retained(d)' = Cardinality(Abandoned(d)) + 1
        <4>. DEFINE r == reported[d]
                    x == dropped[d]
                    y == Retained(d)
                    u == dropped'[d]
                    v == Retained(d)'
                    n == Cardinality(Abandoned(d))
        <4>1. /\ r \in Nat /\ x \in Nat /\ y \in Nat /\ n \in Nat /\ u \in Nat /\ v \in Nat
              /\ r + x + y = n /\ u + v = x + y + 1
          BY Zenon, <1>1, <1>2, <2>3, <3>3, FS_CardinalityType
        <4>. HIDE DEF r, x, y, u, v, n
        <4>2. r + u + v = n + 1
          BY <4>1, SumGrows
        <4>. QED  BY Zenon, <4>2 DEF r, u, v, n
      <3>. QED  BY Zenon, <1>1, <3>1, <3>2, <3>4
    <2>5. CASE kind # d
      <3>1. Abandoned(d)' = Abandoned(d)
        BY Zenon, <1>4, <2>5
      <3>2. dropped'[d] + Retained(d)' = dropped[d] + Retained(d) + 0
        BY Zenon, <2>2, <2>5
      <3>3. reported[d] + dropped'[d] + Retained(d)' = Cardinality(Abandoned(d)) + 0
        <4>. DEFINE r == reported[d]
                    x == dropped[d]
                    y == Retained(d)
                    u == dropped'[d]
                    v == Retained(d)'
                    n == Cardinality(Abandoned(d))
        <4>1. /\ r \in Nat /\ x \in Nat /\ y \in Nat /\ n \in Nat /\ u \in Nat /\ v \in Nat
              /\ r + x + y = n /\ u + v = x + y + 0
          BY ZenonT(30), <1>1, <1>2, <2>3, <3>2, FS_CardinalityType
        <4>. HIDE DEF r, x, y, u, v, n
        <4>2. r + u + v = n + 0
          BY <4>1, SumGrows
        <4>. QED  BY Zenon, <4>2 DEF r, u, v, n
      <3>4. Cardinality(Abandoned(d)) + 0 = Cardinality(Abandoned(d))
        BY SMTT(30), <1>1, FS_CardinalityType
      <3>. QED  BY Zenon, <1>1, <3>1, <3>3, <3>4
    <2>. QED  BY <2>4, <2>5
  <1>6. CASE ~pushes
    <2>1. diagnostics' = diagnostics /\ dropped' = dropped
      BY Zenon, <1>6 DEF Finish
    <2>2. Retained(d)' = Retained(d)
      BY <2>1 DEF Retained
    <2>. QED  BY <1>1, <1>4, <1>6, <2>1, <2>2
  <1>. QED  BY ZenonT(30), <1>5, <1>6

LEMMA AccountStep == TypeInv /\ AccountInv /\ [Next]_vars => AccountInv'
  <1>. SUFFICES ASSUME TypeInv, AccountInv, [Next]_vars PROVE AccountInv'
    OBVIOUS
  <1>0. TypeOK
    BY DEF TypeInv
  <1>1. ASSUME NEW c \in Calls, Finish(c) PROVE AccountInv'
    BY <1>0, <1>1, AccountFinish
  <1>2. CASE DrainStart \/ DrainObserve \/ DrainDeadline
    <2>1. \A d \in DiagnosticKinds : Abandoned(d)' = Abandoned(d)
      BY ZenonT(30), <1>2 DEF DrainStart, DrainObserve, DrainDeadline, Abandoned, taskVars
    <2>2. ASSUME NEW n, NEW t, TakeOutcome(n, t) PROVE AccountInv'
      BY ZenonT(30), <1>0, <2>1, <2>2, AccountTaken
    <2>3. ASSUME UNCHANGED <<active, diagnostics, dropped, reported>> PROVE AccountInv'
      BY <2>1, <2>3 DEF AccountInv, Retained
    <2>. QED  BY Zenon, <1>2, <2>2, <2>3 DEF DrainStart, DrainObserve, DrainDeadline
  <1>3. ASSUME NEW c \in Calls,
               \/ \E r \in Requests : Begin(c, r)
               \/ BeginSealed(c) \/ Acquire(c) \/ CallerStep(c)
               \/ Sample(c) \/ StoreCommit(c) \/ StoreFail(c) \/ StoreBreak(c) \/ InstallSeal(c)
               \/ PublishLoad(c) \/ PublishSwap(c) \/ SwapFails(c) \/ Release(c)
        PROVE  AccountInv'
    <2>1. \A e \in Calls \ {c} : pc'[e] = pc[e] /\ caller'[e] = caller[e] /\ outcome'[e] = outcome[e]
      BY ZenonT(30), <1>0, <1>3
      DEF TypeOK, Begin, BeginSealed, Acquire, CallerStep, Receive, Cancel, Sample, StoreCommit,
          StoreFail, StoreBreak, InstallSeal, PublishLoad, PublishSwap, SwapFails, Release, taskVars
    <2>2. \/ /\ pc[c] \notin {"finished", "done"}
             /\ pc'[c] \notin {"finished", "done"}
          \/ /\ pc[c] \in {"finished", "done"} /\ pc'[c] \in {"finished", "done"}
             /\ caller'[c] = caller[c] /\ outcome'[c] = outcome[c]
      BY SMTT(30), <1>0, <1>3
      DEF TypeOK, Begin, BeginSealed, Acquire, CallerStep, Receive, Cancel, Sample, StoreCommit,
          StoreFail, StoreBreak, InstallSeal, PublishLoad, PublishSwap, SwapFails, Release, taskVars,
          Live, Working
    <2>3. diagnostics' = diagnostics /\ dropped' = dropped /\ drainVars' = drainVars
      BY ZenonT(30), <1>3
      DEF Begin, BeginSealed, Acquire, CallerStep, Receive, Cancel, Sample, StoreCommit,
          StoreFail, StoreBreak, InstallSeal, PublishLoad, PublishSwap, SwapFails, Release,
          trackerVars
    <2>4. \A d \in DiagnosticKinds : Abandoned(d)' = Abandoned(d)
      BY ZenonT(30), <2>1, <2>2 DEF Abandoned, DiagnosticOf
    <2>. QED  BY <2>3, <2>4, AccountKept
  <1>4. ASSUME UNCHANGED <<taskVars, caller, trackerVars, drainVars>> PROVE AccountInv'
    <2>1. diagnostics' = diagnostics /\ dropped' = dropped /\ drainVars' = drainVars
      BY SMTT(30), <1>4 DEF trackerVars
    <2>2. \A d \in DiagnosticKinds : Abandoned(d)' = Abandoned(d)
      BY Zenon, <1>4 DEF Abandoned, taskVars
    <2>. QED  BY <2>1, <2>2, AccountKept
  <1>5. ASSUME NEW o \in Observers,
               ObserverStep(o) \/ \E k \in Keys, at \in Times : ObserveStart(o, k, at)
        PROVE  UNCHANGED <<taskVars, caller, trackerVars, drainVars>>
    BY Zenon, <1>5 DEF ObserverStep, ObserveStart, ObserveLoad, ObserveSwap, SwapFails
  <1>6. ASSUME UNCHANGED vars PROVE UNCHANGED <<taskVars, caller, trackerVars, drainVars>>
    BY <1>6 DEF vars
  <1>. QED
    BY Zenon, <1>1, <1>2, <1>3, <1>4, <1>5, <1>6 DEF Next, TaskStep, Idle

(* For any number of calls and drains and any ring capacity, a failure     *)
(* whose caller went away is in exactly one of the ring, the overflow      *)
(* counts and what drain_mutations has returned (finish, take_outcome).    *)
THEOREM DiagnosticsAreAccounted == Spec => []DiagnosticsAccounted
  <1>1. Init => AccountInv
    <2>. SUFFICES ASSUME Init, NEW d \in DiagnosticKinds
                  PROVE  /\ IsFiniteSet(Abandoned(d))
                         /\ reported[d] + dropped[d] + Retained(d) = Cardinality(Abandoned(d))
      BY ZenonT(30) DEF AccountInv
    <2>1. Abandoned(d) = {} /\ {i \in DOMAIN diagnostics : diagnostics[i] = d} = {}
      BY DEF Init, Abandoned
    <2>2. reported[d] = 0 /\ dropped[d] = 0
      BY ZenonT(30) DEF Init
    <2>. QED  BY <2>1, <2>2, FS_EmptySet DEF Retained
  <1>2. AccountInv => DiagnosticsAccounted
    BY DEF AccountInv, DiagnosticsAccounted, Abandoned
  <1>. QED  BY <1>1, <1>2, AccountStep, TypeInvariant, PTL DEF Spec

=============================================================================
