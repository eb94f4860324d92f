---------------------------- MODULE StoreBackends ----------------------------
(***************************************************************************)
(* The three backends together: the configuration chooses one, which       *)
(* serves the registry for the life of the process.                        *)
(***************************************************************************)
EXTENDS RedisStore, SidecarStore

VARIABLE backend  \* AppConfig.store

ownVars == <<connVars, seen, expired, attempt, status>>
backendVars == <<clientVars, ownVars, backend>>

BackendInit ==
    /\ backend \in {"memory", "redis", "sidecar"}
    /\ ClientInit /\ RedisInit /\ SidecarInit

Memory == backend = "memory" /\ MemoryNext /\ UNCHANGED ownVars
Redis == backend = "redis" /\ RedisNext /\ UNCHANGED <<attempt, status>>
Sidecar == backend = "sidecar" /\ SidecarNext /\ UNCHANGED <<connVars, seen, expired>>

BackendNext == (Memory \/ Redis \/ Sidecar) /\ UNCHANGED backend

(* The client's own steps are taken by a running task, a reply that does   *)
(* not come is given up by the response timeout, and deadlines pass.  The  *)
(* server and the other clients owe nothing.                               *)
ClientStep ==
    /\ \/ backend = "memory" /\ (MemoryPerform \/ MemoryReturn) /\ UNCHANGED ownVars
       \/ backend = "redis" /\ RedisStep /\ UNCHANGED <<attempt, status>>
       \/ backend = "sidecar" /\ SidecarStep /\ UNCHANGED <<connVars, seen, expired>>
    /\ UNCHANGED backend

BackendSpec ==
    /\ BackendInit /\ [][BackendNext]_backendVars
    /\ WF_backendVars(ClientStep)
    /\ WF_backendVars(backend = "redis" /\ Expire /\ UNCHANGED <<attempt, status, backend>>)

(* Every call returns, however often other clients write in between: the   *)
(* Redis loops end by their deadline (redis.rs 200-211) and the sidecar's  *)
(* attempts are bounded (sidecar.rs 300), so no mutation holds the         *)
(* registry's mutex for ever.                                              *)
CallsReturn == InProgress ~> ~InProgress
=============================================================================
