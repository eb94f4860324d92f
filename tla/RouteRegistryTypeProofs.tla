---------------------- MODULE RouteRegistryTypeProofs ----------------------
(***************************************************************************)
(* Proofs about RouteRegistry, for any sets of keys, targets, stamps,      *)
(* calls and observers and any ring capacity: the operators on route       *)
(* records, the types, the mutex and the active count.                     *)
(***************************************************************************)
EXTENDS RouteRegistry, FiniteSetTheorems, TLAPS

(***************************************************************************)
(* The operators on route records.                                         *)
(***************************************************************************)
LEMMA RequestFields ==
    ASSUME NEW r \in Requests
    PROVE  /\ r.kind \in {"replace", "update", "persist", "delete"}
           /\ r.key \in Keys
           /\ r.kind = "replace" => Record(r) \in Route /\ r.at \in Times
           /\ r.kind # "delete" => r.at \in Times
    BY DEF Requests, Record, Route

LEMMA RecordFields ==
    ASSUME NEW r \in Requests, r.kind = "replace"
    PROVE  /\ Record(r) \in Route /\ Record(r) # None
           /\ Record(r).target = r.target
           /\ Record(r).last_activity = r.at
  <1>1. Record(r) \in Route
    BY RequestFields
  <1>2. Record(r) # None
    BY <1>1, NoneAssumption
  <1>. QED  BY <1>1, <1>2 DEF Record

LEMMA LaterType ==
    ASSUME NEW s \in Times, NEW t \in Times
    PROVE  /\ Later(s, t) \in Times
           /\ Later(s, t) >= s
           /\ Later(s, t) >= t
    BY TimesAssumption DEF Later

LEMMA StoredType ==
    ASSUME NEW r \in Requests, NEW found \in Route \cup {None}
    PROVE  Stored(r, found) \in Route \cup {None}
    BY RequestFields DEF Stored, Route

LEMMA AdvancedType ==
    ASSUME NEW found \in Route \cup {None}, NEW at \in Times
    PROVE  AdvancedTo(found, at) \in Route \cup {None}
    BY LaterType DEF AdvancedTo, Route

LEMMA PublishedType ==
    ASSUME NEW r \in Requests, NEW found \in Route \cup {None}
    PROVE  Published(r, found) \in Route \cup {None}
    BY RequestFields, LaterType, AdvancedType DEF Published, PreservingActivity, Route, Record

(***************************************************************************)
(* The first layer of the inductive invariant.                             *)
(***************************************************************************)

(* The mutex is held by the one task past "queued"; a task in flight has   *)
(* its arguments; persist_observed_activity never reaches publication.     *)
TaskInv ==
    \A c \in Calls :
        /\ pc[c] \in Holding <=> lock = c
        /\ pc[c] \in Holding \cup {"queued"} => request[c] \in Requests
        /\ pc[c] = "committed" => request[c].kind # "persist"

LiveCalls == {c \in Calls : pc[c] \in Live}

(* MutationTrackerState.active counts the admitted, unfinished mutations.  *)
CountInv == IsFiniteSet(LiveCalls) /\ active = Cardinality(LiveCalls)

(***************************************************************************)
(* Types, the mutex and the active count.                                  *)
(***************************************************************************)
TypeInv == TypeOK /\ TaskInv /\ CountInv

LEMMA RetainedType ==
    ASSUME diagnostics \in Seq(DiagnosticKinds), NEW d
    PROVE  Retained(d) \in Nat
  <1>1. IsFiniteSet(1 .. Len(diagnostics))
    BY FS_Interval
  <1>2. {i \in DOMAIN diagnostics : diagnostics[i] = d} \subseteq 1 .. Len(diagnostics)
    OBVIOUS
  <1>. QED  BY <1>1, <1>2, FS_Subset, FS_CardinalityType DEF Retained

LEMMA TypeInit == Init => TypeInv
  <1>. SUFFICES ASSUME Init PROVE TypeInv
    OBVIOUS
  <1>. USE DEF Init
  <1>1. TypeOK
    BY CapacityAssumption DEF TypeOK, Places, Holding, Working, Outcomes, Seals, DiagnosticKinds
  <1>2. TaskInv
    BY NoneAssumption DEF TaskInv, Holding, Working
  <1>3. CountInv
    <2>1. LiveCalls = {}
      BY DEF LiveCalls, Live, Working
    <2>. QED  BY <2>1, FS_EmptySet DEF CountInv
  <1>. QED  BY <1>1, <1>2, <1>3 DEF TypeInv

LEMMA NoneFacts ==
    /\ None \notin Calls
    /\ None \notin Requests
    /\ None \notin Routes
    /\ None \notin Route
    /\ None \notin Observations
    BY NoneAssumption

LEMMA RestampedRequest ==
    ASSUME NEW r \in Requests, r.kind # "delete", NEW t \in Times
    PROVE  /\ [r EXCEPT !.at = t] \in Requests
           /\ [r EXCEPT !.at = t].kind = r.kind
           /\ [r EXCEPT !.at = t].key = r.key
           /\ [r EXCEPT !.at = t].at = t
    BY DEF Requests

LEMMA AppendType ==
    ASSUME NEW S, NEW s \in Seq(S), NEW e \in S
    PROVE  Append(s, e) \in Seq(S) /\ Len(Append(s, e)) = Len(s) + 1
    OBVIOUS

LEMMA PushType ==
    ASSUME diagnostics \in Seq(DiagnosticKinds), Len(diagnostics) <= Capacity,
           dropped \in [DiagnosticKinds -> Nat],
           NEW d \in DiagnosticKinds, PushDiagnostic(d)
    PROVE  /\ diagnostics' \in Seq(DiagnosticKinds)
           /\ Len(diagnostics') <= Capacity
           /\ dropped' \in [DiagnosticKinds -> Nat]
  <1>1. CASE RingFull
    <2>. DEFINE rest == Tail(diagnostics)
    <2>1. /\ diagnostics # <<>>
          /\ rest \in Seq(DiagnosticKinds)
          /\ Len(rest) = Capacity - 1
          /\ Head(diagnostics) \in DiagnosticKinds
      BY <1>1, CapacityAssumption DEF RingFull
    <2>2. diagnostics' = Append(rest, d) /\ dropped' = [dropped EXCEPT ![Head(diagnostics)] = @ + 1]
      BY <1>1 DEF PushDiagnostic
    <2>. HIDE DEF rest
    <2>. QED  BY <2>1, <2>2, AppendType, CapacityAssumption
  <1>2. CASE ~RingFull
    <2>1. diagnostics' = Append(diagnostics, d) /\ dropped' = dropped
      BY <1>2 DEF PushDiagnostic
    <2>2. Len(diagnostics) < Capacity
      BY <1>2, CapacityAssumption DEF RingFull
    <2>. QED  BY <2>1, <2>2, AppendType, CapacityAssumption
  <1>. QED  BY <1>1, <1>2

LEMMA TakeOutcomeType ==
    ASSUME TypeOK, NEW n \in Nat, NEW t \in BOOLEAN, TakeOutcome(n, t)
    PROVE  /\ drain' \in [at : {"idle", "waiting", "returned"}, calls : Nat, timed_out : BOOLEAN,
                          active : Nat]
           /\ diagnostics' \in Seq(DiagnosticKinds)
           /\ Len(diagnostics') <= Capacity
           /\ dropped' \in [DiagnosticKinds -> Nat]
           /\ reported' \in [DiagnosticKinds -> Nat]
           /\ active' = active
  <1>1. \A d \in DiagnosticKinds : reported[d] + dropped[d] + Retained(d) \in Nat
    BY RetainedType DEF TypeOK
  <1>. QED  BY <1>1, CapacityAssumption DEF TakeOutcome, TypeOK, DroppedAfterTake

(* Steps that leave the set of live calls and the count alone.             *)
LEMMA CountKept ==
    ASSUME CountInv, active' = active, LiveCalls' = LiveCalls
    PROVE  CountInv'
    BY DEF CountInv

LEMMA TypeStep == TypeInv /\ [Next]_vars => TypeInv'
  <1>. SUFFICES ASSUME TypeInv, [Next]_vars PROVE TypeInv'
    OBVIOUS
  <1>. USE DEF TypeInv
  <1>1. ASSUME NEW c \in Calls, NEW r \in Requests, Begin(c, r) PROVE TypeInv'
    <2>. USE <1>1 DEF Begin, casVars, taskVars, trackerVars, drainVars
    <2>1. TypeOK'
      BY DEF TypeOK, Places, Holding
    <2>2. TaskInv'
      BY DEF TypeOK, TaskInv, Holding, Working
    <2>3. CountInv'
      <3>1. LiveCalls' = LiveCalls \cup {c} /\ c \notin LiveCalls
        BY DEF TypeOK, LiveCalls, Live, Working
      <3>. QED  BY <3>1, FS_AddElement DEF CountInv
    <2>. QED  BY ZenonT(30), <2>1, <2>2, <2>3
  <1>2. ASSUME NEW c \in Calls, BeginSealed(c) PROVE TypeInv'
    <2>. USE <1>2 DEF BeginSealed, casVars, taskVars, trackerVars, drainVars
    <2>1. TypeOK'
      BY DEF TypeOK, Outcomes, Places, Holding, Working
    <2>2. TaskInv'
      BY DEF TypeOK, TaskInv, Outcomes, Holding, Working
    <2>3. CountInv'
      <3>1. LiveCalls' = LiveCalls
        BY DEF TypeOK, LiveCalls, Live, Working
      <3>. QED  BY ZenonT(30), <3>1, CountKept
    <2>. QED  BY ZenonT(30), <2>1, <2>2, <2>3
  <1>3. ASSUME NEW c \in Calls, Acquire(c) PROVE TypeInv'
    <2>. USE <1>3 DEF Acquire, casVars, taskVars, trackerVars, drainVars
    <2>1. TypeOK'
      <3>1. seal \in Outcomes /\ {"running", "responding"} \subseteq Places
        BY DEF TypeOK, Outcomes, Places, Holding, Working
      <3>2. pc' \in {[pc EXCEPT ![c] = "running"], [pc EXCEPT ![c] = "responding"]}
        OBVIOUS
      <3>3. outcome' \in {outcome, [outcome EXCEPT ![c] = seal]}
        OBVIOUS
      <3>4. pc' \in [Calls -> Places]
        BY Zenon, <3>1, <3>2 DEF TypeOK
      <3>5. outcome' \in [Calls -> Outcomes]
        BY Zenon, <3>1, <3>3 DEF TypeOK
      <3>. QED  BY <3>4, <3>5 DEF TypeOK
    <2>2. TaskInv'
      BY NoneFacts DEF TypeOK, TaskInv, Outcomes, Holding, Working
    <2>3. CountInv'
      <3>1. LiveCalls' = LiveCalls
        BY DEF TypeOK, LiveCalls, Live, Working
      <3>. QED  BY ZenonT(30), <3>1, CountKept
    <2>. QED  BY ZenonT(30), <2>1, <2>2, <2>3
  <1>4. ASSUME NEW c \in Calls, Sample(c) PROVE TypeInv'
    <2>. DEFINE r == request[c]
    <2>. USE <1>4 DEF casVars, taskVars, trackerVars, drainVars
    <2>1. r \in Requests /\ pc[c] = "running" /\ r.key \in Keys
      BY RequestFields DEF Sample, TaskInv, Holding, Working
    <2>2. request' \in [Calls -> Requests \cup {None}] /\ request'[c] \in Requests
          /\ \A d \in Calls : request'[d].kind = request[d].kind /\ (d # c => request'[d] = request[d])
      <3>1. CASE request' = request
        BY <2>1, <3>1 DEF TypeOK
      <3>2. CASE /\ r.kind \in {"replace", "persist"}
                 /\ Get(r.key) # None
                 /\ request' = [request EXCEPT ![c].at = Later(@, Get(r.key).last_activity)]
        <4>. DEFINE t == Later(r.at, Get(r.key).last_activity)
        <4>1. Get(r.key).last_activity \in Times
          BY <2>1, <3>2 DEF Get, TypeOK, Routes, Route
        <4>2. t \in Times
          BY <2>1, <3>2, <4>1, RequestFields, LaterType
        <4>. DEFINE q == [r EXCEPT !.at = t]
        <4>3. request' = [request EXCEPT ![c] = q]
          BY <3>2
        <4>4. q \in Requests /\ q.kind = r.kind
          BY <2>1, <3>2, <4>2, RestampedRequest
        <4>. HIDE DEF q
        <4>. QED  BY <2>1, <4>3, <4>4 DEF TypeOK
      <3>. QED  BY <3>1, <3>2 DEF Sample
    <2>3. TypeOK'
      BY Zenon, <2>2 DEF Sample, TypeOK, Outcomes, Places, Holding, Working
    <2>4. TaskInv'
      BY <2>2 DEF Sample, TypeOK, TaskInv, Holding, Working
    <2>5. CountInv'
      <3>1. LiveCalls' = LiveCalls
        BY DEF Sample, TypeOK, LiveCalls, Live, Working
      <3>. QED  BY <3>1, CountKept DEF Sample
    <2>. QED  BY ZenonT(30), <2>3, <2>4, <2>5
  <1>5. ASSUME NEW c \in Calls, StoreCommit(c) PROVE TypeInv'
    <2>. USE <1>5 DEF StoreCommit, casVars, taskVars, trackerVars, drainVars
    <2>1. TypeOK'
      BY Zenon, StoredType
      DEF TypeOK, Outcomes, Persist, Routes, TaskInv, Unpublished, Places, Holding, Working
    <2>2. TaskInv'
      BY DEF TypeOK, TaskInv, Outcomes, Persist, Routes, TaskInv, Unpublished, Holding, Working
    <2>3. CountInv'
      <3>1. LiveCalls' = LiveCalls
        BY DEF TypeOK, LiveCalls, Live, Working
      <3>. QED  BY ZenonT(30), <3>1, CountKept
    <2>. QED  BY ZenonT(30), <2>1, <2>2, <2>3
  <1>6. ASSUME NEW c \in Calls, StoreFail(c) PROVE TypeInv'
    <2>. USE <1>6 DEF StoreFail, casVars, taskVars, trackerVars, drainVars
    <2>1. TypeOK'
      BY DEF TypeOK, Outcomes, Places, Holding, Working
    <2>2. TaskInv'
      BY DEF TypeOK, TaskInv, Outcomes, Holding, Working
    <2>3. CountInv'
      <3>1. LiveCalls' = LiveCalls
        BY DEF TypeOK, LiveCalls, Live, Working
      <3>. QED  BY ZenonT(30), <3>1, CountKept
    <2>. QED  BY ZenonT(30), <2>1, <2>2, <2>3
  <1>7. ASSUME NEW c \in Calls, StoreBreak(c) PROVE TypeInv'
    <2>. USE <1>7 DEF StoreBreak, casVars, taskVars, trackerVars, drainVars
    <2>1. TypeOK'
      BY StoredType, RequestFields
      DEF TypeOK, Outcomes, Persist, Routes, TaskInv, Places, Holding, Working
    <2>2. TaskInv'
      BY DEF TypeOK, TaskInv, Outcomes, Persist, Routes, TaskInv, Holding, Working
    <2>3. CountInv'
      <3>1. LiveCalls' = LiveCalls
        BY DEF TypeOK, LiveCalls, Live, Working
      <3>. QED  BY ZenonT(30), <3>1, CountKept
    <2>. QED  BY ZenonT(30), <2>1, <2>2, <2>3
  <1>8. ASSUME NEW c \in Calls, InstallSeal(c) PROVE TypeInv'
    <2>. USE <1>8 DEF InstallSeal, casVars, taskVars, trackerVars, drainVars
    <2>1. TypeOK'
      BY DEF TypeOK, SealAfter, Seals, Places, Holding, Working
    <2>2. TaskInv'
      BY DEF TypeOK, TaskInv, SealAfter, Seals, Holding, Working
    <2>3. CountInv'
      <3>1. LiveCalls' = LiveCalls
        BY DEF TypeOK, LiveCalls, Live, Working
      <3>. QED  BY ZenonT(30), <3>1, CountKept
    <2>. QED  BY ZenonT(30), <2>1, <2>2, <2>3
  <1>9. ASSUME NEW c \in Calls, PublishLoad(c) PROVE TypeInv'
    <2>. USE <1>9 DEF PublishLoad, casVars, taskVars, trackerVars, drainVars
    <2>1. TypeOK'
      BY DEF TypeOK, LoadFull, Processes, Places, Holding, Working
    <2>2. TaskInv'
      BY DEF TypeOK, TaskInv, LoadFull, Processes, Holding, Working
    <2>3. CountInv'
      <3>1. LiveCalls' = LiveCalls
        BY DEF TypeOK, LiveCalls, Live, Working
      <3>. QED  BY ZenonT(30), <3>1, CountKept
    <2>. QED  BY ZenonT(30), <2>1, <2>2, <2>3
  <1>10. ASSUME NEW c \in Calls, PublishSwap(c) PROVE TypeInv'
    <2>. USE <1>10 DEF PublishSwap, CompareAndSwap, casVars, taskVars, trackerVars, drainVars
    <2>1. snapshot' \in Routes
      <3>1. base[c] \in Routes /\ request[c] \in Requests
        BY DEF TypeOK, TaskInv, Holding, Working, Processes
      <3>. QED  BY Zenon, <3>1, PublishedType DEF Routes
    <2>2. TypeOK'
      BY Zenon, <2>1 DEF TypeOK, Outcomes, Places, Holding, Working
    <2>3. TaskInv'
      BY SMTT(20) DEF TypeOK, TaskInv, Holding, Working
    <2>4. CountInv'
      <3>1. LiveCalls' = LiveCalls
        BY DEF TypeOK, LiveCalls, Live, Working
      <3>. QED  BY ZenonT(30), <3>1, CountKept
    <2>. QED  BY ZenonT(30), <2>2, <2>3, <2>4
  <1>11. ASSUME NEW c \in Calls, SwapFails(c) PROVE TypeInv'
    <2>. USE <1>11 DEF SwapFails, casVars, taskVars, trackerVars, drainVars
    <2>1. TypeOK'
      BY DEF TypeOK, Places, Holding, Working
    <2>2. TaskInv'
      BY DEF TypeOK, TaskInv, Holding, Working
    <2>3. CountInv'
      <3>1. LiveCalls' = LiveCalls
        BY DEF TypeOK, LiveCalls, Live, Working
      <3>. QED  BY ZenonT(30), <3>1, CountKept
    <2>. QED  BY ZenonT(30), <2>1, <2>2, <2>3
  <1>12. ASSUME NEW c \in Calls, Receive(c) PROVE TypeInv'
    <2>. USE <1>12 DEF Receive, casVars, taskVars, trackerVars, drainVars
    <2>1. TypeOK'
      BY DEF TypeOK, Places, Holding, Working
    <2>2. TaskInv'
      BY DEF TypeOK, TaskInv, Holding, Working
    <2>3. CountInv'
      <3>1. LiveCalls' = LiveCalls
        BY DEF TypeOK, LiveCalls, Live, Working
      <3>. QED  BY ZenonT(30), <3>1, CountKept
    <2>. QED  BY ZenonT(30), <2>1, <2>2, <2>3
  <1>13. ASSUME NEW c \in Calls, Cancel(c) PROVE TypeInv'
    <2>. USE <1>13 DEF Cancel, casVars, taskVars, trackerVars, drainVars
    <2>1. TypeOK'
      BY DEF TypeOK, Places, Holding, Working
    <2>2. TaskInv'
      BY DEF TypeOK, TaskInv, Holding, Working
    <2>3. CountInv'
      <3>1. LiveCalls' = LiveCalls
        BY DEF TypeOK, LiveCalls, Live, Working
      <3>. QED  BY ZenonT(30), <3>1, CountKept
    <2>. QED  BY ZenonT(30), <2>1, <2>2, <2>3
  <1>14. ASSUME NEW c \in Calls, Finish(c) PROVE TypeInv'
    <2>. USE <1>14 DEF Finish, casVars, taskVars, drainVars
    <2>1. /\ diagnostics' \in Seq(DiagnosticKinds)
          /\ Len(diagnostics') <= Capacity
          /\ dropped' \in [DiagnosticKinds -> Nat]
      <3>1. CASE UNCHANGED <<diagnostics, dropped>>
        BY <3>1 DEF TypeOK
      <3>2. CASE PushDiagnostic(DiagnosticOf(outcome[c]))
        BY <3>2, PushType DEF TypeOK, DiagnosticOf, DiagnosticKinds
      <3>. QED  BY <3>1, <3>2
    <2>2. CountInv' /\ active' \in Nat
      <3>1. LiveCalls' = LiveCalls \ {c} /\ c \in LiveCalls
        BY ZenonT(30) DEF TypeOK, LiveCalls, Live, Working
      <3>2. IsFiniteSet(LiveCalls') /\ active' = Cardinality(LiveCalls')
        BY <3>1, FS_RemoveElement DEF CountInv
      <3>. QED  BY <3>2, FS_CardinalityType DEF CountInv
    <2>3. TypeOK'
      BY <2>1, <2>2 DEF TypeOK, Places, Holding
    <2>4. TaskInv'
      BY DEF TypeOK, TaskInv, Holding, Working
    <2>. QED  BY ZenonT(30), <2>2, <2>3, <2>4
  <1>15. ASSUME NEW c \in Calls, Release(c) PROVE TypeInv'
    <2>. USE <1>15 DEF Release, casVars, taskVars, trackerVars, drainVars
    <2>1. TypeOK'
      BY DEF TypeOK, Places, Holding, Working
    <2>2. TaskInv'
      BY NoneFacts DEF TypeOK, TaskInv, Holding, Working
    <2>3. CountInv'
      <3>1. LiveCalls' = LiveCalls
        BY DEF TypeOK, LiveCalls, Live, Working
      <3>. QED  BY ZenonT(30), <3>1, CountKept
    <2>. QED  BY ZenonT(30), <2>1, <2>2, <2>3
  <1>16. ASSUME DrainStart PROVE TypeInv'
    <2>. USE <1>16 DEF DrainStart, casVars, taskVars
    <2>1. TypeOK' /\ active' = active
      <3>1. drain.calls + 1 \in Nat /\ DrainSeal \in Seals
        BY DEF TypeOK, DrainSeal, Seals
      <3>2. CASE active = 0
        BY Zenon, <3>1, <3>2, TakeOutcomeType DEF TypeOK
      <3>3. CASE active # 0
        BY Zenon, <3>1, <3>3 DEF TypeOK
      <3>. QED  BY <3>2, <3>3
    <2>2. TaskInv'
      BY DEF TaskInv
    <2>3. CountInv'
      BY <2>1, CountKept DEF LiveCalls
    <2>. QED  BY ZenonT(30), <2>1, <2>2, <2>3
  <1>17. ASSUME DrainObserve PROVE TypeInv'
    <2>. USE <1>17 DEF DrainObserve, casVars, taskVars
    <2>1. TypeOK' /\ active' = active
      BY Zenon, TakeOutcomeType DEF TypeOK
    <2>2. TaskInv'
      BY DEF TaskInv
    <2>3. CountInv'
      BY <2>1, CountKept DEF LiveCalls
    <2>. QED  BY ZenonT(30), <2>1, <2>2, <2>3
  <1>18. ASSUME DrainDeadline PROVE TypeInv'
    <2>. USE <1>18 DEF DrainDeadline, casVars, taskVars
    <2>1. TypeOK' /\ active' = active
      BY Zenon, TakeOutcomeType DEF TypeOK, StillActive
    <2>2. TaskInv'
      BY DEF TaskInv
    <2>3. CountInv'
      BY <2>1, CountKept DEF LiveCalls
    <2>. QED  BY ZenonT(30), <2>1, <2>2, <2>3
  <1>19. ASSUME NEW o \in Observers, NEW k \in Keys, NEW at \in Times, ObserveStart(o, k, at) PROVE TypeInv'
    <2>. USE <1>19 DEF ObserveStart, casVars, taskVars, trackerVars, drainVars
    <2>1. TypeOK'
      BY ZenonT(30) DEF TypeOK, Observations, Places, Holding, Working
    <2>2. TaskInv'
      BY DEF TypeOK, TaskInv, Observations, Holding, Working
    <2>3. CountInv'
      <3>1. LiveCalls' = LiveCalls
        BY DEF TypeOK, LiveCalls, Live, Working
      <3>. QED  BY ZenonT(30), <3>1, CountKept
    <2>. QED  BY ZenonT(30), <2>1, <2>2, <2>3
  <1>20. ASSUME NEW o \in Observers, ObserveLoad(o) PROVE TypeInv'
    <2>. USE <1>20 DEF ObserveLoad, casVars, taskVars, trackerVars, drainVars
    <2>1. TypeOK'
      BY Zenon DEF TypeOK, Processes, LoadFull, Places, Holding, Working
    <2>2. TaskInv'
      BY DEF TypeOK, TaskInv, Processes, LoadFull, Holding, Working
    <2>3. CountInv'
      <3>1. LiveCalls' = LiveCalls
        BY DEF TypeOK, LiveCalls, Live, Working
      <3>. QED  BY ZenonT(30), <3>1, CountKept
    <2>. QED  BY ZenonT(30), <2>1, <2>2, <2>3
  <1>21. ASSUME NEW o \in Observers, ObserveSwap(o) PROVE TypeInv'
    <2>1. /\ observer[o] # None /\ base[o] # None
          /\ snapshot' = [base[o] EXCEPT ![observer[o].key] = AdvancedTo(@, observer[o].at)]
          /\ base' = [base EXCEPT ![o] = None]
          /\ stale' \subseteq Processes
          /\ observer' = [observer EXCEPT ![o] = None]
          /\ UNCHANGED <<store, suspect, lock, pc, request, outcome, caller, seal, active,
                         diagnostics, dropped, drain, reported>>
      BY ZenonT(30), <1>21 DEF ObserveSwap, CompareAndSwap, taskVars, trackerVars, drainVars
    <2>2. snapshot' \in Routes
      <3>1. /\ base[o] \in [Keys -> Route \cup {None}]
            /\ observer[o].key \in Keys /\ observer[o].at \in Times
        BY <2>1 DEF TypeOK, Observations, Processes, Routes
      <3>. DEFINE found == base[o]
                  advanced == AdvancedTo(found[observer[o].key], observer[o].at)
      <3>2. found \in [Keys -> Route \cup {None}] /\ advanced \in Route \cup {None}
        BY <3>1, AdvancedType
      <3>3. snapshot' = [found EXCEPT ![observer[o].key] = advanced]
        BY Zenon, <2>1
      <3>. HIDE DEF found, advanced
      <3>. QED  BY ZenonT(30), <3>2, <3>3 DEF Routes
    <2>3. /\ base' \in [Processes -> Routes \cup {None}]
          /\ observer' \in [Observers -> Observations \cup {None}]
      BY ZenonT(30), <2>1 DEF TypeOK
    <2>4. TypeOK'
      BY ZenonT(30), <2>1, <2>2, <2>3 DEF TypeOK
    <2>5. TaskInv'
      BY Zenon, <2>1 DEF TaskInv
    <2>6. CountInv'
      <3>1. LiveCalls' = LiveCalls
        BY Zenon, <2>1 DEF LiveCalls
      <3>. QED  BY Zenon, <2>1, <3>1, CountKept
    <2>. QED  BY Zenon, <2>4, <2>5, <2>6 DEF TypeInv
  <1>22. ASSUME NEW o \in Observers, SwapFails(o) PROVE TypeInv'
    <2>. USE <1>22 DEF SwapFails, casVars, taskVars, trackerVars, drainVars
    <2>1. TypeOK'
      BY DEF TypeOK, Places, Holding, Working
    <2>2. TaskInv'
      BY ZenonT(30) DEF TypeOK, TaskInv, Holding, Working
    <2>3. CountInv'
      <3>1. LiveCalls' = LiveCalls
        BY ZenonT(30) DEF TypeOK, LiveCalls, Live, Working
      <3>. QED  BY ZenonT(30), <3>1, CountKept
    <2>. QED  BY ZenonT(30), <2>1, <2>2, <2>3
  <1>23. ASSUME UNCHANGED vars PROVE TypeInv'
    BY <1>23
    DEF vars, casVars, taskVars, trackerVars, drainVars, TypeOK, TaskInv, CountInv, LiveCalls
  <1>. QED
    BY ZenonT(30), <1>1, <1>2, <1>3, <1>4, <1>5, <1>6, <1>7, <1>8, <1>9, <1>10, <1>11, <1>12, <1>13, <1>14,
       <1>15, <1>16, <1>17, <1>18, <1>19, <1>20, <1>21, <1>22, <1>23
    DEF Next, TaskStep, CallerStep, ObserverStep, Idle

(* The state has its types in every reachable state; in particular the     *)
(* diagnostic ring never outgrows its capacity.                            *)
THEOREM TypeCorrect == Spec => []TypeOK
  <1>1. TypeInv => TypeOK
    BY DEF TypeInv
  <1>. QED  BY <1>1, TypeInit, TypeStep, PTL DEF Spec

(* The mutex serialises the registry-owned tasks of run_mutation, and      *)
(* MutationTrackerState.active counts exactly the unfinished ones.         *)
THEOREM TypeInvariant == Spec => []TypeInv
    BY TypeInit, TypeStep, PTL DEF Spec

============================================================================
