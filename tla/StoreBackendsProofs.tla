------------------------- MODULE StoreBackendsProofs -------------------------
(***************************************************************************)
(* That each backend implements StoreContract, for any keys, targets,      *)
(* stamps and number of attempts, and that the Redis pool is clean.        *)
(***************************************************************************)
EXTENDS StoreBackends, TLAPS

-----------------------------------------------------------------------------
(* The inductive invariant.                                                *)

Pcs == {"idle", "abandoned", "locked", "unlocked", "take", "ping", "watch", "read",
        "send", "unwatch", "wait", "load", "loaded", "attempt"}

ClientTypeOK ==
    /\ store \in [Keys -> Contents]
    /\ floor \in [Keys -> Times]
    /\ pc \in Pcs
    /\ request \in Requests \cup {None}
    /\ stamp \in Times
    /\ outcome \in {"unsent", "sent", "refused", "done"}
    /\ value \in Values
    /\ changed \in BOOLEAN
    /\ backend \in {"memory", "redis", "sidecar"}

(* The stamp of a replacement has been observed, and is as large as the    *)
(* floor the call began with once the command is on its way.               *)
StampInv ==
    (pc # "idle" \/ outcome = "sent") =>
        /\ request \in Requests
        /\ request.floor <= floor[request.key]
        /\ stamp >= request.data.at
        /\ stamp = request.data.at \/ stamp <= floor[request.key]
        /\ outcome = "sent" /\ request.op = "replace" => stamp >= request.floor

MemoryInv ==
    /\ pc \in {"idle", "locked", "unlocked"}
    /\ \A k \in Keys : store[k] # Corrupt
    /\ pc = "locked" => outcome = "unsent"
    /\ pc = "unlocked" => outcome = "done" /\ Clean(value)
    /\ outcome # "sent"

(* Where each Redis operation may be.                                      *)
RedisPlace ==
    /\ pc \notin {"locked", "unlocked", "attempt"}
    /\ pc = "watch" => request.op \in {"replace", "update"}
    /\ pc = "read" => request.op \in {"update", "delete"}
    /\ pc = "ping" => request.op = "put"
    /\ pc = "unwatch" => request.op = "update"
    /\ pc \in {"load", "loaded"} => request.op = "snapshot"
    /\ pc \in {"send", "wait", "abandoned"} => request.op # "snapshot"

RedisOutcome ==
    /\ pc \in {"take", "ping", "watch", "read", "send", "load"} => outcome = "unsent"
    /\ pc = "unwatch" => outcome = "done" /\ value = None /\ ~changed
    /\ pc = "loaded" => outcome = "done" /\ Clean(value)
    /\ outcome = "sent" => pc \in {"wait", "abandoned"}
    /\ pc = "wait" => outcome # "unsent"
    /\ pc = "wait" /\ outcome = "done" => Clean(value)

(* What the command on its way was computed from.                          *)
Commanded == pc = "send" \/ outcome = "sent"

SeenInv ==
    /\ seen \in Contents
    /\ Commanded /\ request.op = "delete" => seen # Corrupt
    /\ Commanded /\ request.op = "update" =>
          /\ seen \in Records
          /\ ~dirty => store[request.key] = seen
    /\ (Commanded \/ pc = "read") /\ request.op = "update" => watching

(* Who has a WATCH outstanding.                                            *)
WatchInv ==
    /\ conn \in {"pooled", "held", "none"}
    /\ watching \in BOOLEAN /\ dirty \in BOOLEAN
    /\ pc \in {"idle", "take", "ping", "watch", "load", "loaded"} => ~watching /\ ~dirty
    /\ pc = "wait" /\ outcome # "sent" => ~watching /\ ~dirty
    /\ pc \notin {"idle", "take", "abandoned"} => conn = "held"
    /\ pc = "abandoned" => conn = "none"

RedisInv == RedisPlace /\ RedisOutcome /\ SeenInv /\ WatchInv

SidecarInv ==
    /\ pc \in {"idle", "attempt", "wait", "abandoned"}
    /\ pc = "attempt" => outcome = "unsent"
    /\ pc = "wait" => outcome # "unsent"
    /\ pc = "abandoned" => request.op # "snapshot"
    /\ pc = "idle" /\ outcome = "sent" => request.op = "snapshot"
    /\ pc = "wait" /\ outcome = "done" /\ request.op = "snapshot" => ~changed

BackendInv ==
    /\ ClientTypeOK
    /\ StampInv
    /\ backend = "memory" => MemoryInv
    /\ backend = "redis" => RedisInv
    /\ backend = "sidecar" => SidecarInv
    /\ backend # "redis" => conn = "pooled" /\ ~watching /\ ~dirty

-----------------------------------------------------------------------------
(* Facts about the definitions.                                            *)

LEMMA LargerIs ==
    ASSUME NEW a \in Times, NEW b \in Times
    PROVE  /\ Larger(a, b) \in Times
           /\ Larger(a, b) >= a /\ Larger(a, b) >= b
           /\ Larger(a, b) = a \/ Larger(a, b) = b
  BY StoreAssumption DEF Larger, Times

LEMMA RequestFields ==
    ASSUME NEW c \in Requests
    PROVE  /\ c.op \in Ops /\ c.key \in Keys /\ c.floor \in Times
           /\ c.data \in Records /\ c.data.at \in Times /\ c.data.target \in Targets
           /\ c # None
  BY StoreAssumption DEF Requests, Records

LEMMA RecordIs ==
    ASSUME NEW t \in Targets, NEW a \in Times
    PROVE  /\ [target |-> t, at |-> a] \in Records
           /\ [target |-> t, at |-> a] \in Contents
           /\ [target |-> t, at |-> a] # Corrupt
           /\ [target |-> t, at |-> a] \in Values
  BY StoreAssumption DEF Records, Contents, Values

LEMMA Restamped ==
    ASSUME NEW r \in Records, NEW a \in Times
    PROVE  [r EXCEPT !.at = a] \in Records
  BY DEF Records

LEMMA ContentsAre ==
    ASSUME NEW r \in Contents
    PROVE  r \in Records \/ r = None \/ r = Corrupt
  BY DEF Contents

LEMMA ArgumentsTyped ==
    ASSUME NEW op \in Ops
    PROVE  Arguments(op) \subseteq Records
<1>1. CASE op \in {"replace", "put"}
    BY <1>1 DEF Arguments
<1>2. CASE op \notin {"replace", "put"}
    <2>1. (CHOOSE t \in Targets : TRUE) \in Targets
        BY StoreAssumption
    <2>2. 0 \in Times
        BY StoreAssumption DEF Times
    <2> QED BY <1>2, <2>1, <2>2 DEF Arguments, Records
<1> QED BY <1>1, <1>2

(* A call begins with the floor of its key and the stamp it was given.     *)
LEMMA CallBegins ==
    ASSUME ClientTypeOK, NEW first \in Pcs, Call(first), backend' = backend
    PROVE  /\ ClientTypeOK'
           /\ StampInv'
           /\ pc = "idle" /\ pc' = first
           /\ request' \in Requests
           /\ request'.floor = floor[request'.key]
           /\ outcome' = "unsent" /\ value' = None /\ ~changed'
           /\ store' = store /\ floor' = floor
<1>1. PICK op \in Ops, k \in Keys, d \in Records :
          /\ request' = [op |-> op, key |-> k, data |-> d, floor |-> floor[k]]
          /\ stamp' = d.at
    BY ArgumentsTyped DEF Call
<1>2. d \in Records /\ d.at \in Times
    BY <1>1 DEF Records
<1>3. floor[k] \in Times
    BY <1>1 DEF ClientTypeOK
<1>4. request' \in Requests
    BY <1>1, <1>2, <1>3 DEF Requests
<1>5. request'.floor = floor[request'.key] /\ stamp' = request'.data.at
    BY <1>1
<1>6. pc = "idle" /\ pc' = first /\ outcome' = "unsent" /\ value' = None /\ changed' = FALSE
      /\ store' = store /\ floor' = floor
    BY DEF Call
<1>7. None \in Values
    BY DEF Values, Contents
<1>8. ClientTypeOK'
    BY Zenon, <1>1, <1>2, <1>4, <1>6, <1>7 DEF ClientTypeOK
<1>9. StampInv'
  <2>1. request'.key \in Keys /\ floor[request'.key] \in Times /\ request'.data.at \in Times
    BY <1>4, RequestFields DEF ClientTypeOK
  <2> QED BY <2>1, <1>4, <1>5, <1>6, StoreAssumption DEF StampInv, Times
<1> QED BY <1>4, <1>5, <1>6, <1>8, <1>9

(* An observation raises a floor and nothing else.                         *)
LEMMA ObservationRaises ==
    ASSUME ClientTypeOK, StampInv, Observes, backend' = backend
    PROVE  /\ ClientTypeOK'
           /\ StampInv'
           /\ UNCHANGED <<store, pc, request, stamp, outcome, value, changed, response>>
<1>1. PICK k \in Keys, t \in Times : t > floor[k] /\ floor' = [floor EXCEPT ![k] = t]
    BY Zenon DEF Observes
<1>2. UNCHANGED <<store, pc, request, stamp, outcome, value, changed, response>>
    BY DEF Observes, commandVars
<1>3. ClientTypeOK'
    BY <1>1, <1>2 DEF ClientTypeOK
<1>4. \A j \in Keys : floor[j] \in Times /\ floor'[j] \in Times /\ floor'[j] >= floor[j]
    BY <1>1, StoreAssumption DEF ClientTypeOK, Times
<1>5. StampInv'
  <2> SUFFICES ASSUME pc # "idle" \/ outcome = "sent"
               PROVE  StampInv'
    BY <1>2 DEF StampInv
  <2>1. request \in Requests
    BY DEF StampInv
  <2>2. request.key \in Keys /\ request.floor \in Times /\ stamp \in Times
    BY <2>1, RequestFields DEF ClientTypeOK
  <2> QED BY <1>2, <1>4, <2>1, <2>2, StoreAssumption DEF StampInv, Times
<1> QED BY <1>2, <1>3, <1>5

(* A command leaves with a stamp that covers the floor.                    *)
LEMMA StampSent ==
    ASSUME ClientTypeOK, StampInv, pc # "idle", pc' # "idle",
           stamp' = IF request.op = "replace" THEN Larger(stamp, floor[request.key]) ELSE stamp,
           UNCHANGED <<floor, request>>
    PROVE  stamp' \in Times /\ StampInv'
<1>1. request \in Requests
    BY DEF StampInv
<1>2. /\ request.key \in Keys /\ request.floor \in Times /\ request.data.at \in Times
      /\ floor[request.key] \in Times /\ stamp \in Times
    BY <1>1, RequestFields DEF ClientTypeOK
<1>3. CASE request.op = "replace"
  <2>1. stamp' \in Times /\ stamp' >= stamp /\ (stamp' = stamp \/ stamp' = floor[request.key])
        /\ stamp' >= floor[request.key]
    BY <1>2, <1>3, LargerIs
  <2> QED BY <1>1, <1>2, <2>1, StoreAssumption DEF StampInv, Times
<1>4. CASE request.op # "replace"
    BY <1>1, <1>2, <1>4 DEF StampInv
<1> QED BY <1>3, <1>4

-----------------------------------------------------------------------------
(* When a step of a backend is a step of the contract.                     *)

LEMMA InvokeRefines ==
    ASSUME ClientTypeOK, NEW first \in Pcs, Call(first), backend' = backend,
           first # "idle", first # "abandoned"
    PROVE  Contract!Invoke
<1>1. /\ request' \in Requests /\ request'.floor = floor[request'.key]
      /\ pc = "idle" /\ pc' = first /\ outcome' = "unsent" /\ store' = store /\ floor' = floor
    BY CallBegins
<1>2. response.kind # "indeterminate" /\ response' = Silent
    BY DEF Call
<1>3. request' \in Contract!Calls
    BY <1>1 DEF Contract!Calls, Requests, Contract!Ops, Ops, Contract!Records, Records,
                Contract!Times, Times
<1> QED BY <1>1, <1>2, <1>3 DEF Contract!Invoke, InProgress, Contract!Silent, Silent

LEMMA StutterRefines ==
    ASSUME InProgress, InProgress', outcome # "done", outcome' # "done",
           UNCHANGED <<store, floor, request, response>>
    PROVE  UNCHANGED Contract!contractVars
  BY DEF Contract!contractVars, InProgress

LEMMA CommitRefines ==
    ASSUME InProgress, InProgress', request \in Requests,
           UNCHANGED <<floor, request, response>>,
           outcome # "done", outcome' = "done",
           Contract!Performs(request, store, store', floor),
           value' = Contract!Returned(request, store, store'),
           changed' = (store' # store)
    PROVE  Contract!Commit
<1>1. request # None
    BY RequestFields
<1> QED BY <1>1 DEF Contract!Commit, InProgress

LEMMA SucceedRefines ==
    ASSUME InProgress, request \in Requests, value \in Values, changed \in BOOLEAN,
           outcome = "done", Clean(value), AnswerOk, UNCHANGED <<store, floor>>
    PROVE  Contract!Succeed
<1>1. request # None
    BY RequestFields
<1>2. [value |-> value, changed |-> changed] # None
    BY StoreAssumption
<1>3. Contract!Decodable(request, value)
    BY DEF Contract!Decodable, Clean
<1> QED BY <1>1, <1>2, <1>3 DEF Contract!Succeed, InProgress, AnswerOk, Answer

LEMMA FailRefines ==
    ASSUME InProgress, request \in Requests,
           outcome = "done" => ~changed, AnswerErr, UNCHANGED <<store, floor>>
    PROVE  Contract!FailUnchanged
<1>1. request # None
    BY RequestFields
<1> QED BY <1>1 DEF Contract!FailUnchanged, InProgress, AnswerErr, Answer

LEMMA AbandonRefines ==
    ASSUME InProgress, request \in Requests, AnswerIndeterminate,
           UNCHANGED <<store, floor, request, outcome>>
    PROVE  Contract!Abandon
<1>1. request # None
    BY RequestFields
<1> QED BY <1>1 DEF Contract!Abandon, InProgress, AnswerIndeterminate, Answer

LEMMA LateRefines ==
    ASSUME pc = "abandoned", request \in Requests, UNCHANGED <<floor, pc, request, response>>,
           outcome = "sent", outcome' # "sent",
           Contract!Performs(request, store, store', floor) \/ store' = store
    PROVE  Contract!LateCommit
<1>1. request # None
    BY RequestFields
<1> QED BY <1>1 DEF Contract!LateCommit, InProgress

LEMMA ObserveRefines ==
    ASSUME Observes
    PROVE  Contract!Observe
  BY Zenon DEF Observes, commandVars, Contract!Observe, InProgress, Contract!Times, Times

LEMMA OthersRefine ==
    ASSUME NEW k \in Keys, NEW r \in Contents, OtherWriter(k, r)
    PROVE  Contract!OthersWrite
  BY Zenon DEF OtherWriter, commandVars, Contract!OthersWrite, InProgress,
         Contract!Contents, Contents, Contract!Records, Records, Contract!Times, Times

-----------------------------------------------------------------------------
(* What performing each operation comes to.                                *)

LEMMA PerformsReplace ==
    ASSUME request \in Requests, request.op = "replace", store \in [Keys -> Contents],
           NEW t \in Times, t >= request.data.at, t >= request.floor,
           \/ t = request.data.at \/ t <= floor[request.key]
           \/ store[request.key] \in Records /\ t = store[request.key].at,
           store' = [store EXCEPT ![request.key] = [target |-> request.data.target, at |-> t]]
    PROVE  /\ Contract!Performs(request, store, store', floor)
           /\ Contract!Returned(request, store, store')
                = [target |-> request.data.target, at |-> t]
<1>1. request.key \in Keys
    BY RequestFields
<1>2. t \in Contract!Stamps(request, store, floor)
    BY DEF Contract!Stamps, Contract!Times, Times, Contract!Records, Records
<1>3. Contract!Performs(request, store, store', floor)
    BY Zenon, <1>2 DEF Contract!Performs
<1> QED BY <1>1, <1>3 DEF Contract!Returned

LEMMA PerformsPut ==
    ASSUME request.op = "put", store' = [store EXCEPT ![request.key] = request.data]
    PROVE  /\ Contract!Performs(request, store, store', floor)
           /\ Contract!Returned(request, store, store') = None
  BY DEF Contract!Performs, Contract!Returned

LEMMA PerformsUpdate ==
    ASSUME request.op = "update",
           \/ store[request.key] = None /\ store' = store
           \/ /\ store[request.key] \in Records
              /\ store' = [store EXCEPT ![request.key] =
                             [store[request.key] EXCEPT !.at = request.data.at]]
    PROVE  /\ Contract!Performs(request, store, store', floor)
           /\ Contract!Returned(request, store, store') = None
  BY DEF Contract!Performs, Contract!Returned, Contract!Records, Records, Contract!Times, Times

LEMMA PerformsDelete ==
    ASSUME request.op = "delete", store' = [store EXCEPT ![request.key] = None]
    PROVE  /\ Contract!Performs(request, store, store', floor)
           /\ Contract!Returned(request, store, store') = store[request.key]
  BY DEF Contract!Performs, Contract!Returned

LEMMA PerformsSnapshot ==
    ASSUME request.op = "snapshot", store' = store
    PROVE  /\ Contract!Performs(request, store, store', floor)
           /\ Contract!Returned(request, store, store') = store
  BY DEF Contract!Performs, Contract!Returned

-----------------------------------------------------------------------------
(* memory.rs.                                                              *)

(* What MemoryPerform writes and returns is what the contract says.        *)
LEMMA MemoryPerforms ==
    ASSUME ClientTypeOK, StampInv, MemoryInv, MemoryPerform
    PROVE  /\ Contract!Performs(request, store, store', floor)
           /\ value' = Contract!Returned(request, store, store')
           /\ changed' = (store' # store)
           /\ value' \in Values /\ Clean(value')
           /\ store' \in [Keys -> {None} \cup Records]
<1> DEFINE k == request.key
           r == [target |-> request.data.target, at |-> Larger(stamp, floor[k])]
<1>1. request \in Requests /\ pc = "locked"
    BY DEF MemoryPerform, StampInv
<1>2. /\ request.op \in Ops /\ k \in Keys /\ request.floor \in Times
      /\ request.data \in Records /\ request.data.at \in Times /\ request.data.target \in Targets
    BY <1>1, RequestFields
<1>3. store \in [Keys -> {None} \cup Records]
    BY DEF ClientTypeOK, MemoryInv, Contents
<1>4. store \in [Keys -> Contents] /\ floor[k] \in Times /\ stamp \in Times
    BY <1>2 DEF ClientTypeOK
<1>5. changed' = (store' # store)
    BY DEF MemoryPerform, Apply
<1>6. None # Corrupt /\ None \in Values /\ Records \subseteq Values
    BY StoreAssumption DEF Values, Contents
<1>7. CASE request.op = "replace"
  <2>1. store' = [store EXCEPT ![k] = r] /\ value' = r
    BY <1>7 DEF MemoryPerform, Apply
  <2>2. Larger(stamp, floor[k]) \in Times /\ Larger(stamp, floor[k]) >= stamp
        /\ Larger(stamp, floor[k]) >= floor[k]
        /\ (Larger(stamp, floor[k]) = stamp \/ Larger(stamp, floor[k]) = floor[k])
    BY <1>4, LargerIs
  <2>3. Larger(stamp, floor[k]) >= request.data.at /\ Larger(stamp, floor[k]) >= request.floor
        /\ (Larger(stamp, floor[k]) = request.data.at \/ Larger(stamp, floor[k]) <= floor[k])
    BY <1>1, <1>2, <1>4, <2>2, StoreAssumption DEF StampInv, Times
  <2>4. Contract!Performs(request, store, store', floor)
        /\ Contract!Returned(request, store, store') = r
    BY Zenon, <1>1, <1>4, <1>7, <2>1, <2>2, <2>3, PerformsReplace
  <2>5. r \in Records /\ r # Corrupt /\ r \in Values
    BY <1>2, <2>2, RecordIs
  <2>6. Clean(value')
    BY <1>7, <2>1, <2>5 DEF Clean
  <2> QED BY <1>2, <1>3, <1>5, <2>1, <2>4, <2>5, <2>6
<1>8. CASE request.op = "put"
  <2>1. store' = [store EXCEPT ![k] = request.data] /\ value' = None
    BY <1>8 DEF MemoryPerform, Apply
  <2>2. Clean(value')
    BY <1>6, <1>8, <2>1 DEF Clean
  <2> QED BY <1>2, <1>3, <1>5, <1>6, <1>8, <2>1, <2>2, PerformsPut
<1>9. CASE request.op = "update"
  <2>1. value' = None
    BY <1>9 DEF MemoryPerform, Apply
  <2>2. Clean(value')
    BY <1>6, <1>9, <2>1 DEF Clean
  <2>3. CASE store[k] = None
    <3>1. store' = [store EXCEPT ![k] = store[k]]
        BY <1>9, <2>3 DEF MemoryPerform, Apply
    <3>2. store' = store
        BY <3>1, <1>3
    <3> QED BY <1>3, <1>5, <1>6, <1>9, <2>1, <2>2, <2>3, <3>2, PerformsUpdate
  <2>4. CASE store[k] # None
    <3>1. store[k] \in Records
        BY <1>2, <1>3, <2>4
    <3>2. store' = [store EXCEPT ![k] = [store[k] EXCEPT !.at = request.data.at]]
        BY <1>9, <2>4 DEF MemoryPerform, Apply
    <3>3. [store[k] EXCEPT !.at = request.data.at] \in Records
        BY <1>2, <3>1, Restamped
    <3>4. store' \in [Keys -> {None} \cup Records]
        BY <1>2, <1>3, <3>2, <3>3
    <3> QED BY <1>5, <1>6, <1>9, <2>1, <2>2, <3>1, <3>2, <3>4, PerformsUpdate
  <2> QED BY <2>3, <2>4
<1>10. CASE request.op = "delete"
  <2>1. store' = [store EXCEPT ![k] = None] /\ value' = store[k]
    BY <1>10 DEF MemoryPerform, Apply
  <2>2. store[k] \in {None} \cup Records
    BY <1>2, <1>3
  <2>3. Clean(value') /\ value' \in Values
    BY <1>6, <1>10, <2>1, <2>2, StoreAssumption DEF Clean
  <2> QED BY <1>2, <1>3, <1>5, <1>10, <2>1, <2>3, PerformsDelete
<1>11. CASE request.op = "snapshot"
  <2>1. store' = [store EXCEPT ![k] = store[k]] /\ value' = store
    BY <1>11 DEF MemoryPerform, Apply
  <2>2. store' = store
    BY <2>1, <1>3
  <2>3. value' \in Values /\ value' # Corrupt
    BY <1>4, <2>1, StoreAssumption DEF Values
  <2>4. Clean(value')
    <3>1. request.op = "snapshot" => \A j \in Keys : value'[j] # Corrupt
        BY <2>1 DEF MemoryInv
    <3> QED BY <2>3, <3>1 DEF Clean, MemoryPerform
  <2> QED BY Zenon, <1>3, <1>5, <1>11, <2>1, <2>2, <2>3, <2>4, PerformsSnapshot
<1> QED BY <1>2, <1>7, <1>8, <1>9, <1>10, <1>11 DEF Ops

LEMMA MemoryKeeps ==
    ASSUME BackendInv, Memory, backend' = backend
    PROVE  BackendInv' /\ [Contract!ContractNext]_(Contract!contractVars)
<1>1. /\ ClientTypeOK /\ StampInv /\ MemoryInv /\ backend = "memory"
      /\ conn = "pooled" /\ ~watching /\ ~dirty
      /\ MemoryNext /\ UNCHANGED ownVars
    BY DEF BackendInv, Memory
<1>2. conn' = "pooled" /\ ~watching' /\ ~dirty'
    BY <1>1 DEF ownVars, connVars
<1> SUFFICES /\ ClientTypeOK' /\ StampInv' /\ MemoryInv'
             /\ Contract!ContractNext \/ UNCHANGED Contract!contractVars
    BY <1>1, <1>2 DEF BackendInv
<1>3. CASE Call("locked")
  <2>1. /\ ClientTypeOK' /\ StampInv' /\ pc' = "locked" /\ outcome' = "unsent"
        /\ store' = store
    BY <1>1, <1>3, CallBegins DEF Pcs
  <2>2. MemoryInv'
    BY <1>1, <2>1 DEF MemoryInv
  <2>3. Contract!Invoke
    BY <1>1, <1>3, InvokeRefines DEF Pcs
  <2> QED BY <2>1, <2>2, <2>3 DEF Contract!ContractNext
<1>4. CASE MemoryPerform
  <2>1. /\ pc = "locked" /\ pc' = "unlocked" /\ outcome' = "done"
        /\ UNCHANGED <<floor, request, stamp, response>>
    BY <1>4 DEF MemoryPerform, Apply
  <2>2. /\ Contract!Performs(request, store, store', floor)
        /\ value' = Contract!Returned(request, store, store')
        /\ changed' = (store' # store)
        /\ value' \in Values /\ Clean(value')
        /\ store' \in [Keys -> {None} \cup Records]
    BY <1>1, <1>4, MemoryPerforms
  <2>3. ClientTypeOK'
    <3>1. store' \in [Keys -> Contents]
        BY <2>2 DEF Contents
    <3>2. changed' \in BOOLEAN
        BY <2>2
    <3> QED BY <1>1, <2>1, <2>2, <3>1, <3>2 DEF ClientTypeOK, Pcs
  <2>4. StampInv'
    BY <1>1, <2>1 DEF StampInv, MemoryInv
  <2>5. MemoryInv'
    <3>1. \A j \in Keys : store'[j] # Corrupt
        BY <2>2, StoreAssumption
    <3> QED BY <2>1, <2>2, <3>1 DEF MemoryInv, Clean
  <2>6. request \in Requests /\ outcome # "done"
    BY <1>1, <2>1 DEF StampInv, MemoryInv
  <2>7. Contract!Commit
    BY <2>1, <2>2, <2>6, CommitRefines DEF InProgress
  <2> QED BY <2>3, <2>4, <2>5, <2>7 DEF Contract!ContractNext
<1>5. CASE MemoryReturn
  <2>1. /\ pc = "unlocked" /\ pc' = "idle" /\ AnswerOk
        /\ UNCHANGED <<store, floor, request, stamp, outcome, value, changed>>
    BY <1>5 DEF MemoryReturn, AnswerOk, commandVars
  <2>2. ClientTypeOK' /\ StampInv' /\ MemoryInv'
    BY <1>1, <2>1 DEF ClientTypeOK, StampInv, MemoryInv, Pcs
  <2>3. Contract!Succeed
    <3>1. InProgress /\ request \in Requests /\ outcome = "done" /\ Clean(value)
          /\ value \in Values /\ changed \in BOOLEAN
        BY <1>1, <2>1 DEF InProgress, StampInv, MemoryInv, ClientTypeOK
    <3> QED BY <2>1, <3>1, SucceedRefines
  <2> QED BY <2>2, <2>3 DEF Contract!ContractNext
<1>6. CASE Observes
  <2>1. ClientTypeOK' /\ StampInv'
        /\ UNCHANGED <<store, pc, request, stamp, outcome, value, changed, response>>
    BY <1>1, <1>6, ObservationRaises
  <2>2. MemoryInv'
    BY <1>1, <2>1 DEF MemoryInv, Clean
  <2>3. Contract!Observe
    BY <1>6, ObserveRefines
  <2> QED BY <2>1, <2>2, <2>3 DEF Contract!ContractNext
<1> QED BY <1>1, <1>3, <1>4, <1>5, <1>6 DEF MemoryNext

-----------------------------------------------------------------------------
(* sidecar.rs.                                                             *)

(* What the sidecar does and returns is what the contract says.            *)
LEMMA SidecarPerforms ==
    ASSUME ClientTypeOK, StampInv, Serve
    PROVE  /\ Contract!Performs(request, store, store', floor)
           /\ value' = Contract!Returned(request, store, store')
           /\ changed' = (store' # store)
           /\ value' \in Values
           /\ store' \in [Keys -> Contents]
           /\ request.op = "snapshot" => store' = store
<1> DEFINE k == request.key
           old == store[k]
           at == IF old \in Records THEN Larger(stamp, old.at) ELSE stamp
           r == [target |-> request.data.target, at |-> at]
<1>1. request \in Requests /\ outcome = "sent"
    BY DEF Serve, StampInv
<1>2. /\ request.op \in Ops /\ k \in Keys /\ request.floor \in Times
      /\ request.data \in Records /\ request.data.at \in Times /\ request.data.target \in Targets
    BY <1>1, RequestFields
<1>3. store \in [Keys -> Contents] /\ old \in Contents /\ floor[k] \in Times /\ stamp \in Times
    BY <1>2 DEF ClientTypeOK
<1>4. changed' = (store' # store)
    BY DEF Serve, Apply
<1>5. None \in Values /\ None \in Contents /\ Contents \subseteq Values /\ Records \subseteq Contents
    BY DEF Values, Contents
<1>6. CASE request.op = "replace"
  <2>1. store' = [store EXCEPT ![k] = r] /\ value' = r
    BY <1>6 DEF Serve, Apply
  <2>2. at \in Times /\ at >= stamp /\ (at = stamp \/ (old \in Records /\ at = old.at))
    <3>1. CASE old \in Records
      <4>1. old.at \in Times
        BY <3>1 DEF Records
      <4> QED BY <1>3, <3>1, <4>1, LargerIs
    <3>2. CASE old \notin Records
      BY <1>3, <3>2, StoreAssumption DEF Times
    <3> QED BY <3>1, <3>2
  <2>3. at >= request.data.at /\ at >= request.floor
        /\ (at = request.data.at \/ at <= floor[k] \/ (old \in Records /\ at = old.at))
    <3> HIDE DEF at
    <3> QED BY <1>1, <1>2, <1>3, <1>6, <2>2, StoreAssumption DEF StampInv, Times
  <2>4. Contract!Performs(request, store, store', floor)
        /\ Contract!Returned(request, store, store') = r
    <3> HIDE DEF at
    <3> QED BY Zenon, <1>1, <1>3, <1>6, <2>1, <2>2, <2>3, PerformsReplace
  <2>5. r \in Contents /\ r \in Values
    <3> HIDE DEF at
    <3> QED BY <1>2, <2>2, RecordIs
  <2> HIDE DEF r
  <2> QED BY <1>2, <1>3, <1>4, <1>6, <2>1, <2>4, <2>5
<1>7. CASE request.op = "put"
  <2>1. store' = [store EXCEPT ![k] = request.data] /\ value' = None
    BY <1>7 DEF Serve, Apply
  <2> QED BY <1>2, <1>3, <1>4, <1>5, <1>7, <2>1, PerformsPut
<1>8. CASE request.op = "update"
  <2>1. value' = None /\ old # Corrupt
    BY <1>8 DEF Serve, Apply
  <2>2. CASE old = None
    <3>1. store' = [store EXCEPT ![k] = old]
        BY <1>8, <2>2 DEF Serve, Apply
    <3>2. store' = store
        BY <3>1, <1>3
    <3> QED BY <1>3, <1>4, <1>5, <1>8, <2>1, <2>2, <3>2, PerformsUpdate
  <2>3. CASE old # None
    <3>1. old \in Records
        BY <1>3, <2>1, <2>3, ContentsAre
    <3>2. store' = [store EXCEPT ![k] = [old EXCEPT !.at = request.data.at]]
        BY <1>8, <2>3 DEF Serve, Apply
    <3>3. [old EXCEPT !.at = request.data.at] \in Contents
        BY <1>2, <1>5, <3>1, Restamped
    <3>4. store' \in [Keys -> Contents]
        BY <1>2, <1>3, <3>2, <3>3
    <3> QED BY <1>4, <1>5, <1>8, <2>1, <3>1, <3>2, <3>4, PerformsUpdate
  <2> QED BY <2>2, <2>3
<1>9. CASE request.op = "delete"
  <2>1. store' = [store EXCEPT ![k] = None] /\ value' = old
    BY <1>9 DEF Serve, Apply
  <2> QED BY <1>2, <1>3, <1>4, <1>5, <1>9, <2>1, PerformsDelete
<1>10. CASE request.op = "snapshot"
  <2>1. store' = [store EXCEPT ![k] = old] /\ value' = store
    BY <1>10 DEF Serve, Apply
  <2>2. store' = store
    BY <2>1, <1>3
  <2>3. value' \in Values
    BY <1>3, <2>1 DEF Values
  <2> QED BY Zenon, <1>3, <1>4, <1>10, <2>1, <2>2, <2>3, PerformsSnapshot
<1> QED BY <1>2, <1>6, <1>7, <1>8, <1>9, <1>10 DEF Ops

LEMMA SidecarKeeps ==
    ASSUME BackendInv, Sidecar, backend' = backend
    PROVE  BackendInv' /\ [Contract!ContractNext]_(Contract!contractVars)
<1>1. /\ ClientTypeOK /\ StampInv /\ SidecarInv /\ backend = "sidecar"
      /\ conn = "pooled" /\ ~watching /\ ~dirty
      /\ SidecarNext /\ UNCHANGED <<connVars, seen, expired>>
    BY DEF BackendInv, Sidecar
<1>2. conn' = "pooled" /\ ~watching' /\ ~dirty'
    BY <1>1 DEF connVars
<1> SUFFICES /\ ClientTypeOK' /\ StampInv' /\ SidecarInv'
             /\ Contract!ContractNext \/ UNCHANGED Contract!contractVars
    BY <1>1, <1>2 DEF BackendInv
<1>3. CASE SidecarCall
  <2>1. Call("attempt")
    BY <1>3 DEF SidecarCall
  <2>2. /\ ClientTypeOK' /\ StampInv' /\ pc' = "attempt" /\ outcome' = "unsent"
    BY <1>1, <2>1, CallBegins DEF Pcs
  <2>3. SidecarInv'
    BY <2>2 DEF SidecarInv
  <2>4. Contract!Invoke
    BY <1>1, <2>1, InvokeRefines DEF Pcs
  <2> QED BY <2>2, <2>3, <2>4 DEF Contract!ContractNext
<1>4. CASE Attempts
  <2>1. /\ pc = "attempt" /\ pc' = "wait" /\ outcome' = "sent"
        /\ UNCHANGED <<store, floor, request, value, changed, response>>
        /\ stamp' = IF request.op = "replace" THEN Larger(stamp, floor[request.key]) ELSE stamp
    BY <1>4 DEF Attempts
  <2>2. request \in Requests /\ outcome = "unsent"
    BY <1>1, <2>1 DEF StampInv, SidecarInv
  <2>3. stamp' \in Times /\ StampInv'
    BY <1>1, <2>1, StampSent
  <2>4. ClientTypeOK'
    BY <1>1, <2>1, <2>3 DEF ClientTypeOK, Pcs
  <2>5. SidecarInv'
    BY <2>1 DEF SidecarInv
  <2>6. UNCHANGED Contract!contractVars
    BY <2>1, <2>2, StutterRefines DEF InProgress
  <2> QED BY <2>3, <2>4, <2>5, <2>6
<1>5. ASSUME AnswerErr, pc \in {"attempt", "wait"}, outcome' = outcome,
             UNCHANGED <<store, floor, request, stamp, value, changed>>,
             outcome = "done" => ~changed,
             outcome = "sent" => request.op = "snapshot"
      PROVE  /\ ClientTypeOK' /\ StampInv' /\ SidecarInv'
             /\ Contract!ContractNext
  <2>1. request \in Requests /\ pc' = "idle" /\ InProgress
    BY <1>1, <1>5 DEF StampInv, AnswerErr, InProgress
  <2>2. ClientTypeOK' /\ StampInv' /\ SidecarInv'
    BY <1>1, <1>5, <2>1 DEF ClientTypeOK, StampInv, SidecarInv, Pcs
  <2>3. Contract!FailUnchanged
    BY <1>5, <2>1, FailRefines
  <2> QED BY <2>2, <2>3 DEF Contract!ContractNext
<1>6. CASE Unsendable
  <2>1. outcome = "unsent"
    BY <1>1, <1>6 DEF Unsendable, SidecarInv
  <2> QED BY <1>5, <1>6, <2>1 DEF Unsendable, commandVars
<1>7. CASE Acknowledged
  <2>1. /\ pc = "wait" /\ outcome = "done" /\ Clean(value) /\ AnswerOk /\ pc' = "idle"
        /\ UNCHANGED <<store, floor, request, stamp, outcome, value, changed>>
    BY <1>7 DEF Acknowledged, AnswerOk, commandVars
  <2>2. ClientTypeOK' /\ StampInv' /\ SidecarInv'
    BY <1>1, <2>1 DEF ClientTypeOK, StampInv, SidecarInv, Pcs
  <2>3. InProgress /\ request \in Requests /\ value \in Values /\ changed \in BOOLEAN
    BY <1>1, <2>1 DEF InProgress, StampInv, ClientTypeOK
  <2>4. Contract!Succeed
    BY <2>1, <2>3, SucceedRefines
  <2> QED BY <2>2, <2>4 DEF Contract!ContractNext
<1>8. ASSUME RetryOrFail, pc = "wait",
             outcome = "done" => ~changed,
             outcome = "sent" => request.op = "snapshot"
      PROVE  /\ ClientTypeOK' /\ StampInv' /\ SidecarInv'
             /\ Contract!ContractNext \/ UNCHANGED Contract!contractVars
  <2>1. UNCHANGED <<store, floor, request, stamp, value, changed>>
    BY <1>8 DEF RetryOrFail
  <2>2. CASE attempt + 1 < MaxAttempts
    <3>1. pc' = "attempt" /\ outcome' = "unsent" /\ UNCHANGED response
        BY <1>8, <2>2 DEF RetryOrFail
    <3>2. ClientTypeOK' /\ StampInv' /\ SidecarInv'
        BY <1>1, <1>8, <2>1, <3>1 DEF ClientTypeOK, StampInv, SidecarInv, Pcs
    <3>3. CASE outcome = "done"
        <4>1. [value |-> value, changed |-> changed] # None
            BY <1>1, StoreAssumption DEF ClientTypeOK
        <4>2. Contract!Forget
            BY <1>8, <2>1, <3>1, <3>3, <4>1 DEF Contract!Forget, InProgress
        <4> QED BY <3>2, <4>2 DEF Contract!ContractNext
    <3>4. CASE outcome # "done"
        BY <1>8, <2>1, <3>1, <3>2, <3>4, StutterRefines DEF InProgress
    <3> QED BY <3>3, <3>4
  <2>3. CASE ~(attempt + 1 < MaxAttempts)
    BY <1>5, <1>8, <2>1, <2>3 DEF RetryOrFail
  <2> QED BY <2>2, <2>3
<1>9. CASE ServerError
    BY <1>8, <1>9 DEF ServerError
<1>10. CASE ClientError
    BY <1>5, <1>10 DEF ClientError, commandVars
<1>11. CASE GetReplyLost \/ GetReplyUnusable
  <2>1. pc = "wait" /\ request.op = "snapshot" /\ (outcome = "done" => ~changed)
    BY <1>1, <1>11 DEF GetReplyLost, GetReplyUnusable, Mutation, SidecarInv
  <2> QED BY <1>5, <1>8, <1>11, <2>1 DEF GetReplyLost, GetReplyUnusable, commandVars
<1>12. CASE MutationReplyUnusable
  <2>1. /\ pc = "wait" /\ request.op # "snapshot" /\ AnswerIndeterminate /\ pc' = "abandoned"
        /\ UNCHANGED <<store, floor, request, stamp, outcome, value, changed>>
    BY <1>12 DEF MutationReplyUnusable, Mutation, Unusable, AnswerIndeterminate, commandVars
  <2>2. ClientTypeOK' /\ StampInv' /\ SidecarInv'
    BY <1>1, <2>1 DEF ClientTypeOK, StampInv, SidecarInv, Pcs
  <2>3. InProgress /\ request \in Requests
    BY <1>1, <2>1 DEF InProgress, StampInv
  <2>4. Contract!Abandon
    BY <2>1, <2>3, AbandonRefines
  <2> QED BY <2>2, <2>4 DEF Contract!ContractNext
<1>13. CASE Serve
  <2>1. /\ outcome = "sent" /\ outcome' = "done"
        /\ UNCHANGED <<floor, pc, request, stamp, response>>
    BY <1>13 DEF Serve, Apply
  <2>2. /\ Contract!Performs(request, store, store', floor)
        /\ value' = Contract!Returned(request, store, store')
        /\ changed' = (store' # store)
        /\ value' \in Values
        /\ store' \in [Keys -> Contents]
        /\ request.op = "snapshot" => store' = store
    BY <1>1, <1>13, SidecarPerforms
  <2>3. ClientTypeOK'
    <3>1. changed' \in BOOLEAN
        BY <2>2
    <3> QED BY <1>1, <2>1, <2>2, <3>1 DEF ClientTypeOK
  <2>4. request \in Requests
    BY <1>1, <2>1 DEF StampInv
  <2>5. StampInv'
    BY <1>1, <2>1 DEF StampInv
  <2>6. SidecarInv'
    BY Zenon, <1>1, <2>1, <2>2 DEF SidecarInv
  <2>7. CASE pc = "wait"
    BY <2>1, <2>2, <2>3, <2>4, <2>5, <2>6, <2>7, CommitRefines DEF InProgress, Contract!ContractNext
  <2>8. CASE pc = "abandoned"
    BY <2>1, <2>2, <2>3, <2>4, <2>5, <2>6, <2>8, LateRefines DEF Contract!ContractNext
  <2>9. CASE pc = "idle"
    <3>1. store' = store
        BY <1>1, <2>1, <2>2, <2>9 DEF SidecarInv
    <3>2. UNCHANGED Contract!contractVars
        BY <2>1, <2>9, <3>1 DEF Contract!contractVars, InProgress
    <3> QED BY <2>3, <2>5, <2>6, <3>2
  <2> QED BY <1>1, <2>1, <2>7, <2>8, <2>9 DEF SidecarInv
<1>14. CASE Refuse
  <2>1. /\ outcome = "sent" /\ outcome' = "refused"
        /\ UNCHANGED <<store, floor, pc, request, stamp, value, changed, response>>
    BY <1>14 DEF Refuse
  <2>2. ClientTypeOK' /\ StampInv' /\ SidecarInv' /\ request \in Requests
    BY <1>1, <2>1 DEF ClientTypeOK, StampInv, SidecarInv
  <2>3. CASE pc = "abandoned"
    BY <2>1, <2>2, <2>3, LateRefines DEF Contract!ContractNext
  <2>4. CASE pc # "abandoned"
    BY <2>1, <2>2, <2>4 DEF Contract!contractVars, InProgress
  <2> QED BY <2>3, <2>4
<1>15. CASE OtherSidecarWriter
  <2>1. PICK k \in Keys, r \in Contents : OtherWriter(k, r)
    BY <1>15 DEF OtherSidecarWriter
  <2>2. /\ store' \in [Keys -> Contents]
        /\ UNCHANGED <<floor, pc, request, stamp, outcome, value, changed, response>>
    BY <1>1, <2>1 DEF OtherWriter, commandVars, ClientTypeOK
  <2>3. ClientTypeOK' /\ StampInv' /\ SidecarInv'
    BY <1>1, <2>2 DEF ClientTypeOK, StampInv, SidecarInv
  <2>4. Contract!OthersWrite
    BY <2>1, OthersRefine
  <2> QED BY <2>3, <2>4 DEF Contract!ContractNext
<1>16. CASE SidecarObserves
  <2>1. Observes
    BY <1>16 DEF SidecarObserves
  <2>2. ClientTypeOK' /\ StampInv'
        /\ UNCHANGED <<store, pc, request, stamp, outcome, value, changed, response>>
    BY <1>1, <2>1, ObservationRaises
  <2>3. SidecarInv'
    BY <1>1, <2>2 DEF SidecarInv
  <2>4. Contract!Observe
    BY <2>1, ObserveRefines
  <2> QED BY <2>2, <2>3, <2>4 DEF Contract!ContractNext
<1> QED BY <1>1, <1>3, <1>4, <1>6, <1>7, <1>9, <1>10, <1>11, <1>12, <1>13, <1>14, <1>15, <1>16
        DEF SidecarNext, SidecarStep

-----------------------------------------------------------------------------
(* redis.rs.                                                               *)

LEMMA LoopStartIs ==
    ASSUME request \in Requests
    PROVE  /\ LoopStart \in {"watch", "read", "ping", "load"}
           /\ LoopStart = "watch" => request.op \in {"replace", "update"}
           /\ LoopStart = "read" => request.op = "delete"
           /\ LoopStart = "ping" => request.op = "put"
           /\ LoopStart = "load" => request.op = "snapshot"
<1>1. request.op \in Ops
    BY ZenonT(30), RequestFields
<1> QED BY SMTT(30), <1>1 DEF LoopStart, Ops

(* What the server executes and returns is what the contract says: a       *)
(* command that was computed from a record finds that record unchanged.    *)
LEMMA RedisPerforms ==
    ASSUME ClientTypeOK, StampInv, RedisInv, Execute, ~Refused
    PROVE  /\ Contract!Performs(request, store, store', floor)
           /\ value' = Contract!Returned(request, store, store')
           /\ changed' = (store' # store)
           /\ value' \in Values /\ Clean(value')
           /\ store' \in [Keys -> Contents]
<1> DEFINE k == request.key
           r == [target |-> request.data.target, at |-> stamp]
<1>1. request \in Requests /\ outcome = "sent" /\ request.op # "snapshot"
    BY DEF Execute, StampInv, RedisInv, RedisOutcome, RedisPlace
<1>2. /\ request.op \in Ops /\ k \in Keys /\ request.floor \in Times
      /\ request.data \in Records /\ request.data.at \in Times /\ request.data.target \in Targets
    BY <1>1, RequestFields
<1>3. store \in [Keys -> Contents] /\ floor[k] \in Times /\ stamp \in Times
    BY <1>2 DEF ClientTypeOK
<1>4. /\ changed' = (store' # store)
      /\ store' = [store EXCEPT ![k] = NewRecord]
      /\ value' = CASE request.op = "replace" -> NewRecord
                    [] request.op = "delete" -> seen
                    [] OTHER -> None
    BY DEF Execute, Apply
<1>5. /\ None \in Values /\ None \in Contents /\ Contents \subseteq Values
      /\ Records \subseteq Contents /\ None # Corrupt
    BY StoreAssumption DEF Values, Contents
<1>6. CASE request.op = "replace"
  <2>1. store' = [store EXCEPT ![k] = r] /\ value' = r
    BY <1>4, <1>6 DEF NewRecord
  <2>2. stamp >= request.data.at /\ stamp >= request.floor
        /\ (stamp = request.data.at \/ stamp <= floor[k])
    BY SMTT(30), <1>1, <1>6 DEF StampInv
  <2>3. Contract!Performs(request, store, store', floor)
        /\ Contract!Returned(request, store, store') = r
    BY Zenon, <1>1, <1>3, <1>6, <2>1, <2>2, PerformsReplace
  <2>4. r \in Contents /\ r \in Values /\ r # Corrupt
    BY <1>2, <1>3, RecordIs
  <2>5. Clean(value')
    BY <1>6, <2>1, <2>4 DEF Clean
  <2> QED BY <1>2, <1>3, <1>4, <2>1, <2>3, <2>4, <2>5
<1>7. CASE request.op = "put"
  <2>1. store' = [store EXCEPT ![k] = request.data] /\ value' = None
    BY <1>4, <1>7 DEF NewRecord
  <2>2. Clean(value')
    BY <1>5, <1>7, <2>1 DEF Clean
  <2> QED BY Zenon, <1>2, <1>3, <1>4, <1>5, <1>7, <2>1, <2>2, PerformsPut
<1>8. CASE request.op = "update"
  <2>1. store' = [store EXCEPT ![k] = [seen EXCEPT !.at = request.data.at]] /\ value' = None
    BY <1>4, <1>8 DEF NewRecord
  <2>2. ~dirty
    BY <1>8 DEF Refused
  <2>3. seen \in Records /\ store[k] = seen
    BY <1>1, <1>8, <2>2 DEF RedisInv, SeenInv, Commanded
  <2>4. [seen EXCEPT !.at = request.data.at] \in Contents
    BY <1>2, <1>5, <2>3, Restamped
  <2>5. Clean(value')
    BY <1>5, <1>8, <2>1 DEF Clean
  <2>6. Contract!Performs(request, store, store', floor)
        /\ Contract!Returned(request, store, store') = None
    BY <1>8, <2>1, <2>3, PerformsUpdate
  <2>7. store' \in [Keys -> Contents]
    BY <1>2, <1>3, <2>1, <2>4
  <2> QED BY <1>4, <1>5, <2>1, <2>5, <2>6, <2>7
<1>9. CASE request.op = "delete"
  <2>1. store' = [store EXCEPT ![k] = None] /\ value' = seen
    BY <1>4, <1>9 DEF NewRecord
  <2>2. store[k] = seen
    BY <1>9 DEF Refused
  <2>3. seen \in Contents /\ seen # Corrupt
    BY <1>1, <1>9 DEF RedisInv, SeenInv, Commanded
  <2>4. Clean(value')
    BY <1>9, <2>1, <2>3 DEF Clean
  <2> QED BY Zenon, <1>2, <1>3, <1>4, <1>5, <1>9, <2>1, <2>2, <2>3, <2>4, PerformsDelete
<1> QED BY <1>1, <1>2, <1>6, <1>7, <1>8, <1>9 DEF Ops

(* The call's own steps that change neither a record nor the answer.       *)
LEMMA RedisAdvances ==
    ASSUME ClientTypeOK, StampInv, RedisInv, backend' = backend,
           TakeConnection \/ Ping \/ Watch \/ DeleteRead \/ Conflict \/ Send
    PROVE  /\ ClientTypeOK' /\ StampInv' /\ RedisInv'
           /\ UNCHANGED Contract!contractVars
<1>1. CASE TakeConnection \/ Conflict
  <2>1. /\ pc \in {"take", "wait"} /\ pc' = LoopStart
        /\ UNCHANGED <<store, floor, request, stamp, value, changed, response, watching, dirty, seen>>
        /\ outcome \in {"unsent", "refused"} /\ outcome' = "unsent"
        /\ ~watching /\ ~dirty /\ conn' = "held"
    <3>1. CASE TakeConnection
        BY <3>1 DEF TakeConnection, commandVars, RedisInv, RedisOutcome, WatchInv
    <3>2. CASE Conflict
        BY ZenonT(30), <3>2 DEF Conflict, connVars, RedisInv, WatchInv
    <3> QED BY <1>1, <3>1, <3>2
  <2>2. request \in Requests
    BY <2>1 DEF StampInv
  <2>3. /\ pc' \in {"watch", "read", "ping", "load"}
        /\ pc' = "watch" => request.op \in {"replace", "update"}
        /\ pc' = "read" => request.op = "delete"
        /\ pc' = "ping" => request.op = "put"
        /\ pc' = "load" => request.op = "snapshot"
    BY <2>1, <2>2, LoopStartIs
  <2>4. ClientTypeOK'
    BY <2>1, <2>3 DEF ClientTypeOK, Pcs
  <2>5. StampInv'
    BY <2>1, <2>2 DEF StampInv
  <2>6. RedisInv'
    <3>1. RedisPlace' /\ RedisOutcome'
        BY <2>1, <2>3 DEF RedisPlace, RedisOutcome
    <3>2. SeenInv'
        BY <2>1, <2>3 DEF RedisInv, SeenInv, Commanded
    <3>3. WatchInv'
        BY <2>1, <2>3 DEF RedisInv, WatchInv
    <3> QED BY <3>1, <3>2, <3>3 DEF RedisInv
  <2>7. UNCHANGED Contract!contractVars
    BY <2>1, <2>3, StutterRefines DEF InProgress
  <2> QED BY <2>4, <2>5, <2>6, <2>7
<1>2. CASE Ping \/ Watch \/ DeleteRead
  <2>1. /\ pc \in {"ping", "watch", "read"}
        /\ UNCHANGED <<store, floor, request, stamp, outcome, value, changed, response, conn, dirty>>
        /\ pc' \in {"send", "read"}
    BY ZenonT(30), <1>2 DEF Ping, Watch, DeleteRead, commandVars, connVars
  <2>2. request \in Requests /\ outcome = "unsent" /\ conn = "held"
    BY <2>1 DEF StampInv, RedisInv, RedisOutcome, WatchInv
  <2>3. ClientTypeOK' /\ StampInv'
    BY <2>1, <2>2 DEF ClientTypeOK, StampInv, Pcs
  <2>4. UNCHANGED Contract!contractVars
    BY <2>1, <2>2, StutterRefines DEF InProgress
  <2>5. CASE Ping
    <3>1. pc = "ping" /\ pc' = "send" /\ UNCHANGED <<watching, seen>> /\ request.op = "put"
        BY <2>5 DEF Ping, connVars, RedisInv, RedisPlace
    <3>2. RedisPlace' /\ RedisOutcome'
        BY <2>1, <2>2, <3>1 DEF RedisPlace, RedisOutcome
    <3>3. SeenInv' /\ WatchInv'
        BY <2>1, <2>2, <3>1 DEF RedisInv, SeenInv, WatchInv, Commanded
    <3> QED BY <2>3, <2>4, <3>2, <3>3 DEF RedisInv
  <2>6. CASE Watch
    <3>1. /\ pc = "watch" /\ watching' = TRUE /\ seen' = seen
          /\ request.op \in {"replace", "update"}
          /\ pc' = IF request.op = "replace" THEN "send" ELSE "read"
        BY <2>6 DEF Watch, RedisInv, RedisPlace
    <3>2. RedisPlace' /\ RedisOutcome'
        BY <2>1, <2>2, <3>1 DEF RedisPlace, RedisOutcome
    <3>3. SeenInv' /\ WatchInv'
        BY <2>1, <2>2, <3>1 DEF RedisInv, SeenInv, WatchInv, Commanded
    <3> QED BY <2>3, <2>4, <3>2, <3>3 DEF RedisInv
  <2>7. CASE DeleteRead
    <3>1. /\ pc = "read" /\ pc' = "send" /\ request.op = "delete" /\ UNCHANGED watching
          /\ seen' = store[request.key] /\ store[request.key] # Corrupt
        BY SMTT(30), <2>7 DEF DeleteRead, connVars
    <3>2. seen' \in Contents
        BY <2>2, <3>1, RequestFields DEF ClientTypeOK
    <3>3. RedisPlace' /\ RedisOutcome'
        BY <2>1, <2>2, <3>1 DEF RedisPlace, RedisOutcome
    <3>4. SeenInv' /\ WatchInv'
        BY <2>1, <2>2, <3>1, <3>2 DEF RedisInv, SeenInv, WatchInv, Commanded
    <3> QED BY <2>3, <2>4, <3>3, <3>4 DEF RedisInv
  <2> QED BY ZenonT(30), <1>2, <2>5, <2>6, <2>7
<1>3. CASE Send
  <2>1. /\ pc = "send" /\ pc' = "wait" /\ outcome' = "sent"
        /\ UNCHANGED <<store, floor, request, value, changed, response, conn, watching, dirty, seen>>
        /\ stamp' = IF request.op = "replace" THEN Larger(stamp, floor[request.key]) ELSE stamp
    BY <1>3 DEF Send, connVars
  <2>2. outcome = "unsent" /\ request.op # "snapshot" /\ conn = "held"
    BY <2>1 DEF RedisInv, RedisOutcome, RedisPlace, WatchInv
  <2>3. stamp' \in Times /\ StampInv'
    BY <2>1, StampSent
  <2>4. ClientTypeOK'
    BY <2>1, <2>3 DEF ClientTypeOK, Pcs
  <2>5. RedisPlace' /\ RedisOutcome'
    BY <2>1, <2>2 DEF RedisPlace, RedisOutcome
  <2>6. SeenInv' /\ WatchInv'
    BY <2>1, <2>2 DEF RedisInv, SeenInv, WatchInv, Commanded
  <2>7. UNCHANGED Contract!contractVars
    BY <2>1, <2>2, StutterRefines DEF InProgress
  <2> QED BY SMTT(30), <2>3, <2>4, <2>5, <2>6, <2>7 DEF RedisInv
<1> QED BY <1>1, <1>2, <1>3

(* The steps that perform the call, or end it.                             *)
LEMMA RedisConcludes ==
    ASSUME ClientTypeOK, StampInv, RedisInv, backend' = backend,
           UpdateRead \/ Load \/ RedisFail \/ Unwatch \/ Committed \/ Loaded \/ ReplyLost
    PROVE  /\ ClientTypeOK' /\ StampInv' /\ RedisInv'
           /\ Contract!ContractNext \/ UNCHANGED Contract!contractVars
<1>1. CASE UpdateRead
  <2>1. /\ pc = "read" /\ request.op = "update"
        /\ seen' = store[request.key] /\ store[request.key] # Corrupt
        /\ UNCHANGED <<floor, request, stamp, response, conn, watching, dirty>>
    BY <1>1 DEF UpdateRead, connVars
  <2>2. request \in Requests /\ outcome = "unsent" /\ conn = "held" /\ watching
    BY <2>1 DEF StampInv, RedisInv, RedisOutcome, SeenInv, WatchInv
  <2>3. seen' \in Contents /\ (seen' = None \/ seen' \in Records)
    BY <2>1, <2>2, RequestFields, ContentsAre DEF ClientTypeOK
  <2>4. CASE seen' = None
    <3>1. /\ pc' = "unwatch" /\ outcome' = "done" /\ value' = None /\ changed' = FALSE
          /\ store' = store
        BY <1>1, <2>4 DEF UpdateRead, Read
    <3>2. None \in Values
        BY DEF Values, Contents
    <3>3. ClientTypeOK' /\ StampInv'
        BY Zenon, <2>1, <2>2, <3>1, <3>2 DEF ClientTypeOK, StampInv, Pcs
    <3>4. RedisPlace' /\ RedisOutcome'
        BY SMTT(30), <2>1, <3>1 DEF RedisPlace, RedisOutcome
    <3>5. SeenInv' /\ WatchInv'
        BY <2>1, <2>2, <2>3, <3>1 DEF RedisInv, SeenInv, WatchInv, Commanded
    <3>6. /\ Contract!Performs(request, store, store', floor)
          /\ Contract!Returned(request, store, store') = None
        BY SMTT(30), <2>1, <2>4, <3>1, PerformsUpdate
    <3>7. Contract!Commit
        BY Zenon, <2>1, <2>2, <3>1, <3>6, CommitRefines DEF InProgress
    <3> QED BY <3>3, <3>4, <3>5, <3>7 DEF RedisInv, Contract!ContractNext
  <2>5. CASE seen' # None
    <3>1. pc' = "send" /\ UNCHANGED <<store, outcome, value, changed>>
        BY ZenonT(30), <1>1, <2>5 DEF UpdateRead, commandVars
    <3>2. ClientTypeOK' /\ StampInv'
        BY <2>1, <2>2, <3>1 DEF ClientTypeOK, StampInv, Pcs
    <3>3. RedisPlace' /\ RedisOutcome'
        BY ZenonT(30), <2>1, <2>2, <3>1 DEF RedisPlace, RedisOutcome
    <3>4. SeenInv' /\ WatchInv'
        BY <2>1, <2>2, <2>3, <2>5, <3>1 DEF RedisInv, SeenInv, WatchInv, Commanded
    <3>5. UNCHANGED Contract!contractVars
        BY <2>1, <2>2, <3>1, StutterRefines DEF InProgress
    <3> QED BY ZenonT(30), <3>2, <3>3, <3>4, <3>5 DEF RedisInv
  <2> QED BY <2>4, <2>5
<1>2. CASE Load
  <2>1. /\ pc = "load" /\ pc' = "loaded" /\ Clean(store)
        /\ outcome' = "done" /\ value' = store /\ changed' = FALSE /\ store' = store
        /\ UNCHANGED <<floor, request, stamp, response, conn, watching, dirty, seen>>
    BY SMTT(30), <1>2 DEF Load, Read, connVars
  <2>2. request \in Requests /\ outcome = "unsent" /\ request.op = "snapshot"
    BY <2>1 DEF StampInv, RedisInv, RedisOutcome, RedisPlace
  <2>3. ClientTypeOK' /\ StampInv'
    <3>1. store \in Values
        BY DEF ClientTypeOK, Values
    <3> QED BY Zenon, <2>1, <2>2, <3>1 DEF ClientTypeOK, StampInv, Pcs
  <2>4. RedisPlace' /\ RedisOutcome'
    BY <2>1, <2>2 DEF RedisPlace, RedisOutcome, Clean
  <2>5. SeenInv' /\ WatchInv'
    BY <2>1, <2>2 DEF RedisInv, SeenInv, WatchInv, Commanded
  <2>6. /\ Contract!Performs(request, store, store', floor)
        /\ Contract!Returned(request, store, store') = store
    BY <2>1, <2>2, PerformsSnapshot
  <2>7. Contract!Commit
    BY Zenon, <2>1, <2>2, <2>6, CommitRefines DEF InProgress
  <2> QED BY <2>3, <2>4, <2>5, <2>7 DEF RedisInv, Contract!ContractNext
<1>3. ASSUME pc' = "idle", pc \notin {"idle", "abandoned"}, outcome # "sent",
             UNCHANGED <<store, floor, request, stamp, outcome, value, changed, seen>>,
             conn' \in {"pooled", "none"}, watching' = FALSE, dirty' = FALSE
      PROVE  ClientTypeOK' /\ StampInv' /\ RedisInv'
  <2>1. ClientTypeOK' /\ StampInv'
    BY <1>3 DEF ClientTypeOK, StampInv, Pcs
  <2>2. RedisPlace' /\ RedisOutcome'
    BY <1>3 DEF RedisPlace, RedisOutcome
  <2>3. SeenInv' /\ WatchInv'
    BY Zenon, <1>3 DEF RedisInv, SeenInv, WatchInv, Commanded
  <2> QED BY <2>1, <2>2, <2>3 DEF RedisInv
<1>4. CASE RedisFail
  <2>1. /\ pc \in {"take", "ping", "watch", "read", "send", "unwatch", "load"}
        /\ AnswerErr /\ pc' = "idle" /\ conn' = "none" /\ watching' = FALSE /\ dirty' = FALSE
        /\ UNCHANGED <<store, floor, request, stamp, outcome, value, changed, seen>>
    BY <1>4 DEF RedisFail, AnswerErr, DropConnection, commandVars
  <2>2. request \in Requests /\ outcome # "sent" /\ (outcome = "done" => ~changed)
    BY <2>1 DEF StampInv, RedisInv, RedisOutcome
  <2>3. Contract!FailUnchanged
    BY <2>1, <2>2, FailRefines DEF InProgress
  <2> QED BY Zenon, <1>3, <2>1, <2>2, <2>3 DEF Contract!ContractNext
<1>5. CASE Unwatch \/ Committed \/ Loaded
  <2>1. /\ pc \in {"unwatch", "wait", "loaded"} /\ (pc = "wait" => outcome = "done")
        /\ AnswerOk /\ pc' = "idle" /\ conn' = "pooled"
        /\ UNCHANGED <<store, floor, request, stamp, outcome, value, changed, seen>>
    BY <1>5 DEF Unwatch, Committed, Loaded, AnswerOk, ReturnConnection, commandVars
  <2>2. request \in Requests /\ outcome = "done" /\ value \in Values /\ changed \in BOOLEAN
    BY <2>1 DEF StampInv, RedisInv, RedisOutcome, ClientTypeOK
  <2>3. Clean(value)
    <3>1. CASE pc = "unwatch"
        BY <3>1, StoreAssumption DEF RedisInv, RedisOutcome, RedisPlace, Clean
    <3>2. CASE pc # "unwatch"
        BY <2>1, <2>2, <3>2 DEF RedisInv, RedisOutcome
    <3> QED BY ZenonT(30), <3>1, <3>2
  <2>4. watching' = FALSE /\ dirty' = FALSE
    <3>1. CASE Unwatch
        BY <3>1 DEF Unwatch, Unwatched
    <3>2. CASE Committed
        BY <3>2 DEF Committed, ReturnConnection, RedisInv, WatchInv
    <3>3. CASE Loaded
        BY <3>3 DEF Loaded, ReturnConnection, RedisInv, WatchInv
    <3> QED BY <1>5, <3>1, <3>2, <3>3
  <2>5. Contract!Succeed
    BY <2>1, <2>2, <2>3, SucceedRefines DEF InProgress
  <2> QED BY Zenon, <1>3, <2>1, <2>2, <2>4, <2>5 DEF Contract!ContractNext
<1>6. CASE ReplyLost
  <2>1. /\ pc = "wait" /\ pc' = "abandoned" /\ AnswerIndeterminate /\ conn' = "none"
        /\ UNCHANGED <<store, floor, request, stamp, outcome, value, changed, seen, watching, dirty>>
    BY <1>6 DEF ReplyLost, LostAnswer, AnswerIndeterminate, commandVars
  <2>2. request \in Requests /\ request.op # "snapshot"
    BY ZenonT(30), <2>1 DEF StampInv, RedisInv, RedisPlace
  <2>3. ClientTypeOK' /\ StampInv'
    BY <2>1 DEF ClientTypeOK, StampInv, Pcs
  <2>4. RedisPlace' /\ RedisOutcome'
    BY <2>1, <2>2 DEF RedisPlace, RedisOutcome
  <2>5. SeenInv' /\ WatchInv'
    BY <2>1 DEF RedisInv, SeenInv, WatchInv, Commanded
  <2>6. Contract!Abandon
    BY <2>1, <2>2, AbandonRefines DEF InProgress
  <2> QED BY <2>3, <2>4, <2>5, <2>6 DEF RedisInv, Contract!ContractNext
<1> QED BY <1>1, <1>2, <1>4, <1>5, <1>6

(* The server, the deadline, the other clients and the observations.       *)
LEMMA RedisSurroundings ==
    ASSUME ClientTypeOK, StampInv, RedisInv, backend' = backend,
           Execute \/ Expire \/ OtherRedisWriter \/ RedisObserves
    PROVE  /\ ClientTypeOK' /\ StampInv' /\ RedisInv'
           /\ Contract!ContractNext \/ UNCHANGED Contract!contractVars
<1>1. CASE Execute
  <2>1. /\ outcome = "sent" /\ outcome' \in {"done", "refused"}
        /\ watching' = FALSE /\ dirty' = FALSE
        /\ UNCHANGED <<floor, pc, request, stamp, response, conn, seen>>
    BY ZenonT(30), <1>1 DEF Execute, Apply
  <2>2. request \in Requests /\ request.op # "snapshot" /\ pc \in {"wait", "abandoned"}
    BY SMTT(30), <2>1 DEF StampInv, RedisInv, RedisOutcome, RedisPlace
  <2>3. StampInv' /\ RedisPlace'
    BY <2>1 DEF StampInv, RedisInv, RedisPlace
  <2>4. SeenInv' /\ WatchInv'
    BY Zenon, <2>1, <2>2 DEF RedisInv, SeenInv, WatchInv, Commanded
  <2>5. CASE Refused
    <3>1. outcome' = "refused" /\ UNCHANGED <<store, value, changed>>
        BY <1>1, <2>5 DEF Execute
    <3>2. ClientTypeOK' /\ RedisOutcome'
        BY <2>1, <2>2, <3>1 DEF ClientTypeOK, RedisOutcome
    <3>3. CASE pc = "wait"
        <4>1. UNCHANGED Contract!contractVars
            BY <2>1, <3>1, <3>3, StutterRefines DEF InProgress
        <4> QED BY <2>3, <2>4, <3>2, <4>1 DEF RedisInv
    <3>4. CASE pc = "abandoned"
        <4>1. Contract!LateCommit
            BY <2>1, <2>2, <3>1, <3>4, LateRefines
        <4> QED BY <2>3, <2>4, <3>2, <4>1 DEF RedisInv, Contract!ContractNext
    <3> QED BY <2>2, <3>3, <3>4
  <2>6. CASE ~Refused
    <3>1. outcome' = "done"
        BY <1>1, <2>6 DEF Execute, Apply
    <3>2. /\ Contract!Performs(request, store, store', floor)
          /\ value' = Contract!Returned(request, store, store')
          /\ changed' = (store' # store)
          /\ value' \in Values /\ Clean(value')
          /\ store' \in [Keys -> Contents]
        BY <1>1, <2>6, RedisPerforms
    <3>3. changed' \in BOOLEAN
        BY SMTT(30), <3>2
    <3>4. ClientTypeOK'
        BY ZenonT(30), <2>1, <3>1, <3>2, <3>3 DEF ClientTypeOK
    <3>5. RedisOutcome'
        BY <2>1, <2>2, <3>1, <3>2 DEF RedisOutcome, Clean
    <3>6. CASE pc = "wait"
        <4>1. Contract!Commit
            BY <2>1, <2>2, <3>1, <3>2, <3>6, CommitRefines DEF InProgress
        <4> QED BY <2>3, <2>4, <3>4, <3>5, <4>1 DEF RedisInv, Contract!ContractNext
    <3>7. CASE pc = "abandoned"
        <4>1. Contract!LateCommit
            BY <2>1, <2>2, <3>1, <3>2, <3>7, LateRefines
        <4> QED BY <2>3, <2>4, <3>4, <3>5, <4>1 DEF RedisInv, Contract!ContractNext
    <3> QED BY <2>2, <3>6, <3>7
  <2> QED BY <2>5, <2>6
<1>2. CASE Expire
  <2>1. UNCHANGED <<store, floor, pc, request, stamp, outcome, value, changed, response,
                    conn, watching, dirty, seen>>
    BY SMTT(30), <1>2 DEF Expire, clientVars, connVars
  <2>2. ClientTypeOK' /\ StampInv'
    BY SMTT(30), <2>1 DEF ClientTypeOK, StampInv
  <2>3. RedisPlace' /\ RedisOutcome'
    BY ZenonT(30), <2>1 DEF RedisInv, RedisPlace, RedisOutcome, Clean
  <2>4. SeenInv' /\ WatchInv'
    BY <2>1 DEF RedisInv, SeenInv, WatchInv, Commanded
  <2>5. UNCHANGED Contract!contractVars
    BY <2>1 DEF Contract!contractVars, InProgress
  <2> QED BY SMTT(30), <2>2, <2>3, <2>4, <2>5 DEF RedisInv
<1>3. CASE OtherRedisWriter
  <2>1. PICK k \in Keys, r \in Contents : OtherWriter(k, r)
    BY <1>3 DEF OtherRedisWriter
  <2>2. /\ store' \in [Keys -> Contents]
        /\ dirty' = (dirty \/ watching)
        /\ UNCHANGED <<floor, pc, request, stamp, outcome, value, changed, response,
                       conn, watching, seen>>
    BY ZenonT(30), <1>3, <2>1 DEF OtherRedisWriter, OtherWriter, commandVars, ClientTypeOK
  <2>3. ClientTypeOK' /\ StampInv'
    BY SMTT(30), <2>2 DEF ClientTypeOK, StampInv
  <2>4. RedisPlace' /\ RedisOutcome'
    BY ZenonT(30), <2>2 DEF RedisInv, RedisPlace, RedisOutcome, Clean
  <2>5. SeenInv' /\ WatchInv'
    BY <2>2 DEF RedisInv, SeenInv, WatchInv, Commanded
  <2>6. Contract!OthersWrite
    BY <2>1, OthersRefine
  <2> QED BY <2>3, <2>4, <2>5, <2>6 DEF RedisInv, Contract!ContractNext
<1>4. CASE RedisObserves
  <2>1. Observes /\ UNCHANGED <<conn, watching, dirty, seen>>
    BY <1>4 DEF RedisObserves, connVars
  <2>2. ClientTypeOK' /\ StampInv'
        /\ UNCHANGED <<store, pc, request, stamp, outcome, value, changed, response>>
    BY ZenonT(30), <2>1, ObservationRaises
  <2>3. RedisPlace' /\ RedisOutcome'
    BY ZenonT(30), <2>2 DEF RedisInv, RedisPlace, RedisOutcome, Clean
  <2>4. SeenInv' /\ WatchInv'
    BY <2>1, <2>2 DEF RedisInv, SeenInv, WatchInv, Commanded
  <2>5. Contract!Observe
    BY <2>1, ObserveRefines
  <2> QED BY <2>2, <2>3, <2>4, <2>5 DEF RedisInv, Contract!ContractNext
<1> QED BY <1>1, <1>2, <1>3, <1>4

LEMMA RedisKeeps ==
    ASSUME BackendInv, Redis, backend' = backend
    PROVE  BackendInv' /\ [Contract!ContractNext]_(Contract!contractVars)
<1>1. ClientTypeOK /\ StampInv /\ RedisInv /\ backend = "redis" /\ RedisNext
    BY DEF BackendInv, Redis
<1> SUFFICES /\ ClientTypeOK' /\ StampInv' /\ RedisInv'
             /\ Contract!ContractNext \/ UNCHANGED Contract!contractVars
    BY <1>1 DEF BackendInv
<1>2. CASE RedisCall
  <2>1. Call("take") /\ UNCHANGED <<conn, watching, dirty, seen>>
    BY SMTT(30), <1>2 DEF RedisCall, connVars
  <2>2. /\ ClientTypeOK' /\ StampInv' /\ pc = "idle" /\ pc' = "take" /\ outcome' = "unsent"
    BY Zenon, <1>1, <2>1, CallBegins DEF Pcs
  <2>3. RedisPlace' /\ RedisOutcome'
    BY <2>2 DEF RedisPlace, RedisOutcome
  <2>4. SeenInv' /\ WatchInv'
    BY <1>1, <2>1, <2>2 DEF RedisInv, SeenInv, WatchInv, Commanded
  <2>5. Contract!Invoke
    BY <1>1, <2>1, InvokeRefines DEF Pcs
  <2> QED BY <2>2, <2>3, <2>4, <2>5 DEF RedisInv, Contract!ContractNext
<1>3. CASE TakeConnection \/ Ping \/ Watch \/ DeleteRead \/ Conflict \/ Send
    BY <1>1, <1>3, RedisAdvances
<1>4. CASE UpdateRead \/ Load \/ RedisFail \/ Unwatch \/ Committed \/ Loaded \/ ReplyLost
    BY <1>1, <1>4, RedisConcludes
<1>5. CASE Execute \/ Expire \/ OtherRedisWriter \/ RedisObserves
    BY <1>1, <1>5, RedisSurroundings
<1> QED BY <1>1, <1>2, <1>3, <1>4, <1>5 DEF RedisNext, RedisStep

-----------------------------------------------------------------------------
(* The backends together.                                                  *)

LEMMA BackendBegins ==
    ASSUME BackendInit
    PROVE  BackendInv /\ Contract!ContractInit
<1>1. /\ store \in [Keys -> {None} \cup Records]
      /\ floor = [k \in Keys |-> 0] /\ pc = "idle" /\ request = None /\ stamp = 0
      /\ outcome = "unsent" /\ value = None /\ changed = FALSE /\ response = Silent
      /\ conn = "pooled" /\ watching = FALSE /\ dirty = FALSE /\ seen = None
      /\ backend \in {"memory", "redis", "sidecar"}
    BY DEF BackendInit, ClientInit, RedisInit
<1>2. 0 \in Times /\ None \in Values /\ None \in Contents /\ Records \subseteq Contents
    BY StoreAssumption DEF Times, Values, Contents
<1>3. store \in [Keys -> Contents] /\ floor \in [Keys -> Times]
    BY <1>1, <1>2
<1>4. ClientTypeOK /\ StampInv
    BY Zenon, <1>1, <1>2, <1>3 DEF ClientTypeOK, StampInv, Pcs
<1>5. MemoryInv
  <2>1. \A k \in Keys : store[k] # Corrupt
    BY <1>1, StoreAssumption
  <2> QED BY <1>1, <2>1 DEF MemoryInv
<1>6. RedisInv
    BY Zenon, <1>1, <1>2 DEF RedisInv, RedisPlace, RedisOutcome, SeenInv, WatchInv, Commanded
<1>7. SidecarInv
    BY ZenonT(30), <1>1 DEF SidecarInv
<1>8. Contract!ContractInit
    BY <1>1, <1>3 DEF Contract!ContractInit, InProgress, Contract!Silent, Silent,
       Contract!Contents, Contents, Contract!Records, Records, Contract!Times, Times
<1> QED BY <1>1, <1>4, <1>5, <1>6, <1>7, <1>8 DEF BackendInv

LEMMA BackendSteps ==
    ASSUME BackendInv, [BackendNext]_backendVars
    PROVE  BackendInv' /\ [Contract!ContractNext]_(Contract!contractVars)
<1>1. CASE BackendNext
  <2>1. backend' = backend
    BY <1>1 DEF BackendNext
  <2> QED BY <1>1, <2>1, MemoryKeeps, RedisKeeps, SidecarKeeps DEF BackendNext
<1>2. CASE UNCHANGED backendVars
  <2>1. UNCHANGED <<store, floor, pc, request, stamp, outcome, value, changed, response,
                    conn, watching, dirty, seen, backend>>
    BY ZenonT(30), <1>2 DEF backendVars, clientVars, ownVars, connVars
  <2>2. ClientTypeOK' /\ StampInv'
    BY SMTT(30), <2>1 DEF BackendInv, ClientTypeOK, StampInv
  <2>3. backend = "memory" => MemoryInv'
    BY ZenonT(30), <2>1 DEF BackendInv, MemoryInv, Clean
  <2>4. backend = "redis" => RedisInv'
    BY <2>1 DEF BackendInv, RedisInv, RedisPlace, RedisOutcome, SeenInv, WatchInv, Commanded, Clean
  <2>5. backend = "sidecar" => SidecarInv'
    BY <2>1 DEF BackendInv, SidecarInv
  <2>6. UNCHANGED Contract!contractVars
    BY <2>1 DEF Contract!contractVars, InProgress
  <2> QED BY SMTT(30), <2>1, <2>2, <2>3, <2>4, <2>5, <2>6 DEF BackendInv
<1> QED BY <1>1, <1>2

(* In every behaviour of every backend the command in progress was         *)
(* computed from what the contract lets it be computed from: the record    *)
(* watched or compared is the one stored, the stamp of a replacement was   *)
(* observed, and a deadline or a failure leaves nothing half done.         *)
THEOREM BackendInvariant == BackendSpec => []BackendInv
<1>1. BackendInit => BackendInv
    BY BackendBegins
<1>2. BackendInv /\ [BackendNext]_backendVars => BackendInv'
    BY BackendSteps
<1> QED BY <1>1, <1>2, PTL DEF BackendSpec

(* No connection goes back to the Redis pool with a WATCH outstanding.     *)
THEOREM PoolIsClean == BackendSpec => []PooledConnectionIsClean
<1>1. BackendInv => PooledConnectionIsClean
  <2> SUFFICES ASSUME BackendInv, conn = "pooled"
               PROVE  ~watching /\ ~dirty
    BY DEF PooledConnectionIsClean
  <2>1. CASE backend = "redis"
    BY <2>1 DEF BackendInv, RedisInv, WatchInv
  <2>2. CASE backend # "redis"
    BY <2>2 DEF BackendInv
  <2> QED BY <2>1, <2>2
<1> QED BY <1>1, BackendInvariant, PTL

(* The memory, Redis and sidecar backends implement the contract of the    *)
(* Store trait (store/mod.rs 83-114): every step of a backend is a step of *)
(* StoreContract or leaves its state alone.                                *)
THEOREM BackendsImplementContract == BackendSpec => ImplementsContract
<1>1. BackendInit => Contract!ContractInit
    BY BackendBegins
<1>2. BackendInv /\ [BackendNext]_backendVars
        => [Contract!ContractNext]_(Contract!contractVars)
    BY BackendSteps
<1> QED BY <1>1, <1>2, BackendInvariant, PTL
        DEF BackendSpec, ImplementsContract, Contract!ContractSpec
=============================================================================
