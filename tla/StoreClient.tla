----------------------------- MODULE StoreClient -----------------------------
(***************************************************************************)
(* What every backend of src/src/store has in common: the records, the     *)
(* activity floor of src/src/store/mod.rs, the one call in progress and    *)
(* its answer, the writes of other processes, and the refinement of        *)
(* StoreContract.  The in-memory backend, whose calls hold its lock from   *)
(* beginning to end, is here too.  A call that was sent and given up is    *)
(* left in place, because the server may still perform it; the registry    *)
(* makes no call after it.                                                 *)
(***************************************************************************)
EXTENDS Integers

CONSTANTS Keys, Targets, MaxTime, None, Corrupt

VARIABLES
    store,     \* the records of the backend
    floor,     \* ActivityFloor::current of each key
    pc,        \* where the call is
    request,   \* its arguments
    stamp,     \* the last_activity a replacement has come to
    outcome,   \* what became of its command: "unsent", "sent", "refused", "done"
    value,     \* what the command returned
    changed,   \* whether it changed a record
    response   \* the last answer to the registry

commandVars == <<outcome, value, changed>>
clientVars == <<store, floor, pc, request, stamp, outcome, value, changed, response>>

Times == 0 .. MaxTime
Records == [target : Targets, at : Times]
Contents == Records \cup {None, Corrupt}
Ops == {"replace", "put", "update", "delete", "snapshot"}
Requests == [op : Ops, key : Keys, data : Records, floor : Times]

Values == [Keys -> Contents] \cup Contents

(* None and Corrupt are none of the values they stand beside.              *)
ASSUME StoreAssumption ==
    /\ MaxTime \in Nat
    /\ Targets # {}
    /\ None # Corrupt
    /\ None \notin Records \cup Requests \cup [Keys -> Contents]
    /\ None \notin [value : Values, changed : BOOLEAN]
    /\ Corrupt \notin Records \cup [Keys -> Contents]

Larger(a, b) == IF a >= b THEN a ELSE b

Silent == [kind |-> "none", value |-> None]

ClientInit ==
    /\ store \in [Keys -> {None} \cup Records]
    /\ floor = [k \in Keys |-> 0]
    /\ pc = "idle"
    /\ request = None
    /\ stamp = 0
    /\ outcome = "unsent" /\ value = None /\ changed = FALSE
    /\ response = Silent

(* The arguments an operation does not look at are left at one value.      *)
Arguments(op) ==
    CASE op \in {"replace", "put"} -> Records
      [] op = "update" -> [target : {CHOOSE t \in Targets : TRUE}, at : Times]
      [] OTHER -> [target : {CHOOSE t \in Targets : TRUE}, at : {0}]

Call(first) ==
    /\ pc = "idle"
    /\ response.kind # "indeterminate"
    /\ \E op \in Ops : \E k \in Keys : \E d \in Arguments(op) :
          /\ request' = [op |-> op, key |-> k, data |-> d, floor |-> floor[k]]
          /\ stamp' = d.at
    /\ pc' = first
    /\ outcome' = "unsent" /\ value' = None /\ changed' = FALSE
    /\ response' = Silent
    /\ UNCHANGED <<store, floor>>

(* The answers, when the call is over.  Err(Indeterminate) leaves it in    *)
(* place if its command is still on its way.                               *)
Answer(kind, v) == response' = [kind |-> kind, value |-> v]

AnswerOk == pc' = "idle" /\ Answer("ok", value)

AnswerErr == pc' = "idle" /\ Answer("ordinary", None)

AnswerIndeterminate == pc' = "abandoned" /\ Answer("indeterminate", None)

Clean(v) ==
    /\ v # Corrupt
    /\ request.op = "snapshot" => \A k \in Keys : v[k] # Corrupt

(* The command has its effect: record r is written at the request's key.   *)
Apply(r, v) ==
    /\ store' = [store EXCEPT ![request.key] = r]
    /\ outcome' = "done"
    /\ value' = v
    /\ changed' = (store' # store)

Read(v) == outcome' = "done" /\ value' = v /\ changed' = FALSE /\ UNCHANGED store

Observes ==
    /\ \E k \in Keys : \E t \in Times :
          t > floor[k] /\ floor' = [floor EXCEPT ![k] = t]
    /\ UNCHANGED <<store, pc, request, stamp, commandVars, response>>

OtherWriter(k, r) ==
    /\ r # store[k]
    /\ store' = [store EXCEPT ![k] = r]
    /\ UNCHANGED <<floor, pc, request, stamp, commandVars, response>>

(***************************************************************************)
(* memory.rs: one step under the write lock, which never fails, and no     *)
(* other process.                                                          *)
(***************************************************************************)
MemoryPerform ==
    /\ pc = "locked"
    /\ LET k == request.key
           old == store[k]
           new == CASE request.op = "replace" ->
                         [target |-> request.data.target, at |-> Larger(stamp, floor[k])]
                    [] request.op = "put" -> request.data
                    [] request.op = "update" /\ old # None -> [old EXCEPT !.at = request.data.at]
                    [] request.op = "delete" -> None
                    [] OTHER -> old
       IN Apply(new, CASE request.op = "replace" -> new
                       [] request.op = "delete" -> old
                       [] request.op = "snapshot" -> store
                       [] OTHER -> None)
    /\ pc' = "unlocked"
    /\ UNCHANGED <<floor, request, stamp, response>>

MemoryReturn ==
    /\ pc = "unlocked"
    /\ AnswerOk
    /\ UNCHANGED <<store, floor, request, stamp, commandVars>>

MemoryNext == Call("locked") \/ MemoryPerform \/ MemoryReturn \/ Observes

(***************************************************************************)
(* The refinement.                                                         *)
(***************************************************************************)
InProgress == pc \notin {"idle", "abandoned"}

Contract == INSTANCE StoreContract WITH
    db <- store,
    call <- IF InProgress THEN request ELSE None,
    commit <- IF InProgress /\ outcome = "done"
              THEN [value |-> value, changed |-> changed] ELSE None,
    reply <- response,
    limbo <- IF pc = "abandoned" /\ outcome = "sent" THEN request ELSE None

(* Every backend implements the contract of the Store trait: a success     *)
(* returns exactly what one atomic mutation committed, an ordinary error   *)
(* left the backend unchanged, and only an indeterminate error leaves the  *)
(* outcome open (store/mod.rs 83-114).                                     *)
ImplementsContract == Contract!ContractSpec
=============================================================================
