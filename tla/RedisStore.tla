------------------------------ MODULE RedisStore ------------------------------
(***************************************************************************)
(* The Redis backend, src/src/store/redis.rs: one hash, one pooled         *)
(* connection, and optimistic transactions that are repeated until the     *)
(* deadline of the operation.  The server, the network and the other       *)
(* clients of the hash are external.  Every await is a point at which they *)
(* may act; a command whose reply is lost or late may have been executed,  *)
(* or may still be.                                                        *)
(***************************************************************************)
EXTENDS StoreClient

VARIABLES
    conn,      \* the connection: "pooled", "held" by the call, or "none"
    watching,  \* whether it has an outstanding WATCH on the hash
    dirty,     \* whether the hash was written since
    seen,      \* what HGET returned
    expired    \* whether the deadline has passed

connVars == <<conn, watching, dirty>>
redisVars == <<clientVars, connVars, seen, expired>>

RedisInit ==
    /\ conn = "pooled" /\ watching = FALSE /\ dirty = FALSE
    /\ seen = None
    /\ expired = FALSE

(* Where each operation begins, and where it begins again.                 *)
LoopStart == CASE request.op \in {"replace", "update"} -> "watch"
               [] request.op = "delete" -> "read"
               [] request.op = "put" -> "ping"
               [] OTHER -> "load"

TakeConnection ==
    /\ pc = "take"
    /\ conn' = "held"
    /\ pc' = LoopStart
    /\ expired' = FALSE
    /\ UNCHANGED <<store, floor, request, stamp, commandVars, response, watching, dirty, seen>>

(* use_remaining_timeout; put and snapshot have no deadline of their own.  *)
MutantInTime == TRUE  \* retries for ever
InTime == ~expired \/ request.op \in {"put", "snapshot"}

Expire ==
    /\ InProgress
    /\ ~expired
    /\ expired' = TRUE
    /\ UNCHANGED <<clientVars, connVars, seen>>

ReturnConnection == conn' = "pooled" /\ UNCHANGED <<watching, dirty>>

DropConnection == conn' = "none" /\ watching' = FALSE /\ dirty' = FALSE

(* A failure before the mutation is sent: no connection, a deadline, an    *)
(* error reply, a record that cannot be decoded.  The connection is        *)
(* dropped with the call.                                                  *)
RedisFail ==
    /\ pc \in {"take", "ping", "watch", "read", "send", "unwatch", "load"}
    /\ pc = "take" => conn = "none"
    /\ AnswerErr
    /\ DropConnection
    /\ UNCHANGED <<store, floor, request, stamp, commandVars, seen, expired>>

Ping ==
    /\ pc = "ping"
    /\ pc' = "send"
    /\ UNCHANGED <<store, floor, request, stamp, commandVars, response, connVars, seen, expired>>

Watch ==
    /\ pc = "watch" /\ InTime
    /\ watching' = TRUE
    /\ pc' = IF request.op = "replace" THEN "send" ELSE "read"
    /\ UNCHANGED <<store, floor, request, stamp, commandVars, response, conn, dirty, seen, expired>>

(* HGET of update_activity, which may find nothing to update,              *)
UpdateRead ==
    /\ pc = "read" /\ request.op = "update" /\ InTime
    /\ store[request.key] # Corrupt
    /\ seen' = store[request.key]
    /\ IF seen' = None
       THEN pc' = "unwatch" /\ Read(None)
       ELSE pc' = "send" /\ UNCHANGED <<store, commandVars>>
    /\ UNCHANGED <<floor, request, stamp, response, connVars, expired>>

(* and of delete.                                                          *)
DeleteRead ==
    /\ pc = "read" /\ request.op = "delete" /\ InTime
    /\ store[request.key] # Corrupt
    /\ seen' = store[request.key]
    /\ pc' = "send"
    /\ UNCHANGED <<store, floor, request, stamp, commandVars, response, connVars, expired>>

MutantUnwatched == UNCHANGED <<watching, dirty>>  \* no UNWATCH
Unwatched == watching' = FALSE /\ dirty' = FALSE

Unwatch ==
    /\ pc = "unwatch" /\ InTime
    /\ AnswerOk
    /\ conn' = "pooled" /\ Unwatched
    /\ UNCHANGED <<store, floor, request, stamp, commandVars, seen, expired>>

(* The command that changes the hash leaves: MULTI HSET EXEC, HSET or      *)
(* EVAL.  A replacement samples the floor in every attempt.                *)
Send ==
    /\ pc = "send" /\ InTime
    /\ stamp' = IF request.op = "replace" THEN Larger(stamp, floor[request.key]) ELSE stamp
    /\ outcome' = "sent"
    /\ pc' = "wait"
    /\ UNCHANGED <<store, floor, request, value, changed, response, connVars, seen, expired>>

(* External: the server executes it.  EXEC is refused when the watched     *)
(* hash was written, the script when the record is not the one it expects. *)
Refused == \/ request.op \in {"replace", "update"} /\ dirty
           \/ request.op = "delete" /\ store[request.key] # seen

NewRecord ==
    CASE request.op = "replace" -> [target |-> request.data.target, at |-> stamp]
      [] request.op = "update" -> [seen EXCEPT !.at = request.data.at]
      [] request.op = "put" -> request.data
      [] OTHER -> None

Execute ==
    /\ outcome = "sent"
    /\ IF Refused
       THEN outcome' = "refused" /\ UNCHANGED <<store, value, changed>>
       ELSE Apply(NewRecord, CASE request.op = "replace" -> NewRecord
                               [] request.op = "delete" -> seen
                               [] OTHER -> None)
    /\ watching' = FALSE /\ dirty' = FALSE
    /\ UNCHANGED <<floor, pc, request, stamp, response, conn, seen, expired>>

Committed ==
    /\ pc = "wait" /\ outcome = "done"
    /\ AnswerOk
    /\ ReturnConnection
    /\ UNCHANGED <<store, floor, request, stamp, commandVars, seen, expired>>

Conflict ==
    /\ pc = "wait" /\ outcome = "refused"
    /\ pc' = LoopStart
    /\ outcome' = "unsent"
    /\ UNCHANGED <<store, floor, request, stamp, value, changed, response, connVars, seen, expired>>

(* The reply is lost, late or not what the script returns.                 *)
MutantLostAnswer == AnswerErr  \* reported as an ordinary failure
LostAnswer == AnswerIndeterminate

ReplyLost ==
    /\ pc = "wait"
    /\ LostAnswer
    /\ conn' = "none"
    /\ UNCHANGED <<store, floor, request, stamp, commandVars, watching, dirty, seen, expired>>

(* snapshot: HGETALL.                                                      *)
Load ==
    /\ pc = "load"
    /\ Clean(store)
    /\ Read(store)
    /\ pc' = "loaded"
    /\ UNCHANGED <<floor, request, stamp, response, connVars, seen, expired>>

Loaded ==
    /\ pc = "loaded"
    /\ AnswerOk
    /\ ReturnConnection
    /\ UNCHANGED <<store, floor, request, stamp, commandVars, seen, expired>>

(* External: another client writes the hash.                               *)
OtherRedisWriter ==
    /\ \E k \in Keys : \E r \in Contents : OtherWriter(k, r)
    /\ dirty' = (dirty \/ watching)
    /\ UNCHANGED <<conn, watching, seen, expired>>

RedisCall == Call("take") /\ UNCHANGED <<connVars, seen, expired>>

RedisObserves == Observes /\ UNCHANGED <<connVars, seen, expired>>

RedisStep ==
    \/ TakeConnection \/ RedisFail \/ Ping \/ Watch \/ UpdateRead \/ DeleteRead \/ Unwatch
    \/ Send \/ Committed \/ Conflict \/ ReplyLost \/ Load \/ Loaded

RedisNext == RedisCall \/ RedisStep \/ Execute \/ Expire \/ OtherRedisWriter \/ RedisObserves

(* The connection in the pool has no outstanding WATCH: a call that ends   *)
(* without EXEC either sends UNWATCH or drops the connection (redis.rs     *)
(* 195-198, 362-371).                                                      *)
PooledConnectionIsClean == conn = "pooled" => ~watching /\ ~dirty
=============================================================================
