---------------------------- MODULE ErrorResolver ----------------------------
(***************************************************************************)
(* The custom error page over HTTP of src/src/errors.rs: the requests that *)
(* render one (custom_error, bounded_request), the mutex that serializes   *)
(* them, and the BoundedResolver they share: its cache with generations    *)
(* and one lease, its bounded queue and its worker.  A step of a request   *)
(* runs from one await, or from one lock of the cache, to the next; the    *)
(* total deadline can drop a request only where it awaits.                 *)
(***************************************************************************)
EXTENDS Naturals, Sequences, FiniteSets

CONSTANTS
    Requests,       \* requests whose error page may be rendered
    QueueCapacity,  \* RESOLVER_QUEUE_CAPACITY
    MaxGeneration,  \* bound: successful lookups
    None

ASSUME ResolverAssumption ==
    /\ QueueCapacity \in Nat \ {0}
    /\ MaxGeneration \in Nat
    /\ None \notin Requests /\ None \notin Nat

VARIABLES
    current,            \* ResolverCache.current: None or its generation
    expired,            \* whether current is past its expires_at
    generation,         \* ResolverCache.generation
    leased_generation,  \* ResolverCache.leased_generation
    receiver,           \* the queue of ResolveRequests
    worker,             \* where the worker is: "recv", "fresh", "lookup" or "answer"
    first,              \* the ResolveRequest it received first
    result,             \* its result: a generation, or 0 for an error
    response,           \* the oneshot of each request: None, or the result sent
    serialization,      \* who holds request_serialization
    step,               \* where each request is
    attempt,            \* the generation of its ResolverAttempt
    connected,          \* the generation of the addresses its connector was given
    rendered,           \* the requests whose custom page was received
    failed              \* history: generations whose attempt did not succeed

cacheVars == <<current, expired, generation, leased_generation>>
workerVars == <<receiver, worker, first, result>>
callerVars == <<serialization, step, attempt, connected, rendered, failed>>
resolverVars == <<cacheVars, workerVars, response, callerVars>>

Generations == 1..MaxGeneration
Steps == {"idle", "locking", "ensuring", "sending", "resolving", "attempting", "calling",
          "exchanging", "unlocking", "done"}

ResolverInit ==
    /\ current = None /\ expired = FALSE
    /\ generation = 0
    /\ leased_generation = None
    /\ receiver = <<>>
    /\ worker = "recv" /\ first = None /\ result = None
    /\ response = [r \in Requests |-> None]
    /\ serialization = None
    /\ step = [r \in Requests |-> "idle"]
    /\ attempt = [r \in Requests |-> None]
    /\ connected = [r \in Requests |-> None]
    /\ rendered = {}
    /\ failed = {}

Goes(r, s) == step' = [step EXCEPT ![r] = s]

(***************************************************************************)
(* ResolverCache.  Fresh is what fresh() leaves in current and returns.    *)
(***************************************************************************)
MutantFresh == IF expired THEN None ELSE current  \* expires under a lease
Fresh == IF expired /\ leased_generation # current THEN None ELSE current

MutantMayLease(g) == leased_generation = None  \* whatever is cached by now
MayLease(g) == current # None /\ current = g /\ leased_generation = None

FinishLease(g, succeeded) ==
    /\ leased_generation' = IF leased_generation = g THEN None ELSE leased_generation
    /\ current' = IF ~succeeded /\ current = g THEN None ELSE current
    /\ expired' = (expired /\ current' # None)

(* Time passes RESOLVER_CACHE_TTL.                                         *)
Expire ==
    /\ current # None /\ ~expired
    /\ expired' = TRUE
    /\ UNCHANGED <<current, generation, leased_generation, workerVars, response, callerVars>>

(***************************************************************************)
(* A request: custom_error starts the deadline and bounded_request waits   *)
(* for the serialization lock.                                             *)
(***************************************************************************)
CustomError(r) ==
    /\ step[r] = "idle"
    /\ Goes(r, "locking")
    /\ UNCHANGED <<cacheVars, workerVars, response, serialization, attempt, connected,
                   rendered, failed>>

Lock(r) ==
    /\ step[r] = "locking"
    /\ serialization = None
    /\ serialization' = r
    /\ Goes(r, "ensuring")
    /\ UNCHANGED <<cacheVars, workerVars, response, attempt, connected, rendered, failed>>

(* The end of ensure_cached: the lease, or an error.                       *)
TakeLease(r, g) ==
    IF MayLease(g)
    THEN /\ leased_generation' = g
         /\ attempt' = [attempt EXCEPT ![r] = g]
         /\ Goes(r, "attempting")
    ELSE /\ UNCHANGED <<leased_generation, attempt>>
         /\ Goes(r, "unlocking")

EnsureCached(r) ==
    /\ step[r] = "ensuring"
    /\ current' = Fresh
    /\ expired' = (expired /\ Fresh # None)
    /\ IF Fresh # None
       THEN TakeLease(r, Fresh)
       ELSE Goes(r, "sending") /\ UNCHANGED <<leased_generation, attempt>>
    /\ UNCHANGED <<generation, workerVars, response, serialization, connected, rendered, failed>>

(* try_send: a full queue is an error at once.                             *)
QueueTakes == Len(receiver) < QueueCapacity

Send(r) ==
    /\ step[r] = "sending"
    /\ IF QueueTakes
       THEN receiver' = Append(receiver, r) /\ Goes(r, "resolving")
       ELSE UNCHANGED receiver /\ Goes(r, "unlocking")
    /\ UNCHANGED <<cacheVars, worker, first, result, response, serialization, attempt,
                   connected, rendered, failed>>

(* The end of a ResolverAttempt: its Drop returns the lease, and the       *)
(* serialization guard is dropped after it.                                *)
DropAttempt(r, succeeded) ==
    /\ FinishLease(attempt[r], succeeded)
    /\ attempt' = [attempt EXCEPT ![r] = None]
    /\ rendered' = IF succeeded THEN rendered \cup {r} ELSE rendered
    /\ failed' = IF succeeded THEN failed ELSE failed \cup {attempt[r]}
    /\ Goes(r, "unlocking")

(* Both awaits of a oneshot: that of ensure_cached, and that of call.      *)
Answered(r) ==
    /\ step[r] \in {"resolving", "calling"}
    /\ response[r] # None
    /\ response' = [response EXCEPT ![r] = None]
    /\ IF step[r] = "resolving"
       THEN /\ IF response[r] = 0
               THEN Goes(r, "unlocking") /\ UNCHANGED <<leased_generation, attempt>>
               ELSE TakeLease(r, response[r])
            /\ UNCHANGED <<current, expired, connected, rendered, failed>>
       ELSE IF response[r] = 0
       THEN DropAttempt(r, FALSE) /\ UNCHANGED connected
       ELSE /\ connected' = [connected EXCEPT ![r] = response[r]]
            /\ Goes(r, "exchanging")
            /\ UNCHANGED <<current, expired, leased_generation, attempt, rendered, failed>>
    /\ UNCHANGED <<generation, workerVars, serialization>>

(* The connector resolves its host with BoundedResolver::call.             *)
Call(r) ==
    /\ step[r] = "attempting"
    /\ IF Fresh # None
       THEN /\ connected' = [connected EXCEPT ![r] = Fresh]
            /\ Goes(r, "exchanging")
            /\ UNCHANGED <<cacheVars, receiver, attempt, rendered, failed>>
       ELSE /\ IF QueueTakes
               THEN /\ receiver' = Append(receiver, r)
                    /\ Goes(r, "calling")
                    /\ current' = None /\ expired' = FALSE
                    /\ UNCHANGED <<leased_generation, attempt, rendered, failed>>
               ELSE DropAttempt(r, FALSE) /\ UNCHANGED receiver
            /\ UNCHANGED <<generation, connected>>
    /\ UNCHANGED <<worker, first, result, response, serialization>>

(* The rest of bounded_request_inner: connect, write, read and parse.      *)
Exchange(r) ==
    /\ step[r] = "exchanging"
    /\ \E succeeded \in BOOLEAN : DropAttempt(r, succeeded)
    /\ UNCHANGED <<generation, workerVars, response, serialization, connected>>

Unlock(r) ==
    /\ step[r] = "unlocking"
    /\ serialization' = None
    /\ Goes(r, "done")
    /\ UNCHANGED <<cacheVars, workerVars, response, attempt, connected, rendered, failed>>

(* ERROR_TOTAL_TIMEOUT: bounded_request is dropped where it awaits.        *)
Deadline(r) ==
    /\ \/ /\ step[r] = "locking"
          /\ Goes(r, "done")
          /\ UNCHANGED <<current, expired, leased_generation, attempt, rendered, failed>>
       \/ /\ step[r] = "resolving"
          /\ Goes(r, "unlocking")
          /\ UNCHANGED <<current, expired, leased_generation, attempt, rendered, failed>>
       \/ /\ step[r] \in {"calling", "exchanging"}
          /\ DropAttempt(r, FALSE)
    /\ UNCHANGED <<generation, workerVars, response, serialization, connected>>

(***************************************************************************)
(* The worker of start_with_lookup.                                        *)
(***************************************************************************)
Recv ==
    /\ worker = "recv" /\ receiver # <<>>
    /\ first' = Head(receiver)
    /\ receiver' = Tail(receiver)
    /\ worker' = "fresh"
    /\ UNCHANGED <<cacheVars, result, response, callerVars>>

WorkerFresh ==
    /\ worker = "fresh"
    /\ current' = Fresh
    /\ expired' = (expired /\ Fresh # None)
    /\ result' = Fresh
    /\ worker' = IF Fresh # None THEN "answer" ELSE "lookup"
    /\ UNCHANGED <<generation, leased_generation, receiver, first, response, callerVars>>

(* The lookup fails or finds no address, or replaces the cache.            *)
LookupFails ==
    /\ worker = "lookup"
    /\ result' = 0
    /\ worker' = "answer"
    /\ UNCHANGED <<cacheVars, receiver, first, response, callerVars>>

LookupSucceeds ==
    /\ worker = "lookup"
    /\ generation < MaxGeneration
    /\ generation' = generation + 1
    /\ current' = generation'
    /\ expired' = FALSE
    /\ result' = generation'
    /\ worker' = "answer"
    /\ UNCHANGED <<leased_generation, receiver, first, response, callerVars>>

(* resolver_batch_count and take_resolver_batch: those queued by now get   *)
(* the same answer, but for the last when the queue is full.               *)
Waiting == IF Len(receiver) < QueueCapacity THEN Len(receiver) ELSE QueueCapacity - 1

Batch == {first} \cup {receiver[i] : i \in 1..Waiting}

Listens(r) == step[r] \in {"resolving", "calling"}

Answer ==
    /\ worker = "answer"
    /\ response' = [r \in Requests |->
                       IF r \in Batch /\ Listens(r) THEN result ELSE response[r]]
    /\ receiver' = SubSeq(receiver, Waiting + 1, Len(receiver))
    /\ worker' = "recv"
    /\ first' = None /\ result' = None
    /\ UNCHANGED <<cacheVars, callerVars>>

WorkerStep == Recv \/ WorkerFresh \/ LookupFails \/ LookupSucceeds \/ Answer

RenderStep(r) ==
    \/ Lock(r) \/ EnsureCached(r) \/ Send(r) \/ Answered(r) \/ Call(r) \/ Exchange(r)
    \/ Unlock(r) \/ Deadline(r)

ResolverNext ==
    \/ Expire
    \/ WorkerStep
    \/ \E r \in Requests : CustomError(r) \/ RenderStep(r)

ResolverSpec == ResolverInit /\ [][ResolverNext]_resolverVars

(***************************************************************************)
(* Properties.                                                             *)
(***************************************************************************)
(* The one lease belongs to the one attempt in progress, its generation is *)
(* the cached one, and the attempt's connector was given just those        *)
(* addresses: no interleaving with the worker, the deadline or the expiry  *)
(* of the cache leaks a lease (every later custom page would fail) or      *)
(* replaces the addresses under it (BoundedResolver, ResolverAttempt).     *)
LeaseIsHonoured ==
    /\ leased_generation # None =>
          /\ current = leased_generation
          /\ \E r \in Requests : attempt[r] = leased_generation
    /\ \A r \in Requests : attempt[r] # None =>
          /\ serialization = r
          /\ leased_generation = attempt[r]
          /\ step[r] = "exchanging" => connected[r] = attempt[r]

(* Addresses an attempt has failed with are looked up again before anybody *)
(* connects to them once more, even when the worker still answers waiting  *)
(* requests with them (ResolverCache::finish_lease and lease).             *)
FailedIsNotRetried == \A r \in Requests : attempt[r] # None => attempt[r] \notin failed
=============================================================================
