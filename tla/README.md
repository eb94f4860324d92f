# A TLA+ model of pingora-reverse-proxy

The proxy forwards public HTTP and WebSocket traffic along routes that a
management API adds and removes at run time. Routes live in a backing store
(memory, Redis or an HTTP sidecar) and are served from an immutable in-memory
snapshot. This directory holds TLA+ models of the concurrent core, the TLC
configurations that check them on small instances, and TLAPS proofs for every
value of the constants. `PROJECT.json` lists the runs, the theorems, the
hazards, and the source lines each definition stands for.

## The system

| Part | Source | State | Operations | Module |
| --- | --- | --- | --- | --- |
| Route registry | `route_table.rs` | snapshot pointer, mutation mutex, tracker (seal, active count, ring of diagnostics) | add, put, update_activity, persist_observed_activity, delete, observe_activity, drain_mutations, reads | `RouteRegistry` |
| `Store` trait | `store/mod.rs` | route map, activity floor | what an operation may do and answer | `StoreContract` |
| Memory store | `store/memory.rs` | route map | one step under its lock | `StoreClient` |
| Redis store | `store/redis.rs` | hash, pooled connection, WATCH | optimistic transactions, delete script, deadline | `RedisStore` |
| Sidecar store | `store/sidecar.rs` | remote map | retried HTTP mutations | `SidecarStore` |
| The store chosen | `config.rs`, `store/` | which of the three | the composition | `StoreBackends` |
| Activity writer | `activity.rs` | pending map, ready queue, sequence numbers, wake channel | record_at, worker loop, flush | `ActivityWriter` |
| Traffic lifecycle | `api_server.rs`, `proxy.rs` | accepting, active, accepts_stopped, request contexts | try_admit, finish, acknowledge_accepts_stopped, two waits | `TrafficLifecycle` |
| Owned paths, PID file | `path_ownership.rs`, `shutdown.rs` | directory entries, inode identity, pins | publish, quarantine, verify, remove, restore | `OwnedPath` |
| Configuration | `config.rs` | none | the checks of `AppConfig::try_from` | `AppConfig` |
| Entry point, public service, management server, shutdown coordinator | `main.rs`, `api_server.rs`, `shutdown.rs` | resources held, descriptor, readiness, handshakes, acknowledgements, phases, clock | startup, handover, adoption, accept, stop, phases, teardown | `ProcessLifecycle` |
| Error responder | `errors.rs` | resolver cache, lease, queue, serialization lock | resolve, lease, exchange, finish | `ErrorResolver` |
| Route matcher | `route_table.rs`, `route.rs` | trie in mutation order | normalise, resolve | `RouteMatcher` |
| Proxy callbacks, request metrics | `proxy.rs`, `errors.rs`, `metrics.rs` | request context, counters, credits | request_filter to logging | `PublicProxy` |
| API handlers, upstream peers | `api.rs`, `upstream.rs` | none of their own | parsing, one registry call, formatting | not modelled |

How they interact: an API handler calls the registry; the registry commits to
the store and then publishes a snapshot. A proxied request is admitted by the
traffic lifecycle, resolved in the snapshot, and reported to the activity
writer, which advances the stamp in the snapshot at once and persists it later
through the registry. On shutdown the coordinator waits until the listeners
stopped accepting, seals and drains the registry, flushes the activity writer
and waits for admitted traffic.

What makes it hard: mutation tasks outlive their callers; the data plane
replaces the snapshot without the mutex; a store call may panic or end with an
unknown outcome; three places write the seal; bounded queues and rings
overflow; waits race notifications and timeouts. `hazards` in `PROJECT.json`
names the line of each, and the properties that cover it or what is missing.

## The modules

**`RouteRegistry`** has one action per step of `run_mutation` and its task.
`Begin`/`BeginSealed` are `MutationTracker::begin`; `Acquire` takes the mutex
and passes the fence `reject_if_terminally_failed`; `Sample` reads the activity
floor inside the store call; `StoreCommit`, `StoreFail` and `StoreBreak` are the
outcomes of the store; `PublishLoad`, `PublishSwap` and `SwapFails` are the
compare-and-swap loop; `InstallSeal` is `panic_seal` or `indeterminate_seal`;
`Receive`, `Cancel`, `Finish` and `Release` are the end of a call. The observer
actions are `observe_activity`, the drain actions `seal_and_drain`. A route is
its target and its stamp; `put` and `add` are one request kind, "replace",
whose stamp is any time, because nothing orders the wall clock. `suspect`
and `reported` are history variables. `stale` says which loops hold a pointer
that was replaced: a pinned `Arc` is never reused, so pointer equality is "no
swap since the load".

**`ActivityWriter`** has one action per critical section of `record_at`, of the
worker and of `flush`. The registry appears as the two calls the writer makes,
one step each, with routes coming and going beneath it. `owed`, `carried` and
`counted` are history variables: accepted observations, those the persist under
way stands for, and routes with a counted drop or failure.

**`TrafficLifecycle`** has one action per atomic operation. A request context
is admitted by `try_admit`, and released by the logging phase or when dropped;
`finish` is its loop of compare-and-exchange; the exit guard of the public
service stops admission; the coordinator waits for the stop and for the drain.
The atomics are sequentially consistent in the model; the code asks for Acquire
and Release.

A Tokio `Notified` hears every `notify_waiters` since it was created, so
"checking", "refused" and "parked" waits all listen; this is external behaviour,
taken from how the code relies on it.

**`StoreContract`** is the abstract specification of the `Store` trait. A call
takes effect at one moment or not at all. A replacement carries a stamp that is
not older than the floor observed when the call began, and that nobody made up.
An ordinary error leaves the store as it was; only `Indeterminate` hides whether
the call took effect, and such a command may still arrive later. A call returns
what it wrote, removed or read at its one moment. Others may write the same
records.

**`StoreClient`** has the state of one call and the memory backend.
**`RedisStore`** has one action per round trip: taking the one pooled connection
or making one, WATCH, the read, MULTI/EXEC or the delete script, UNWATCH, the
reply or its loss, and the deadline that is checked before each. **`SidecarStore`**
has one action per attempt and per kind of reply; after a server error the
mutation is sent again, after a lost reply it is not. Record contents are a target and a
stamp, or `Corrupt`, which stands for whatever does not decode.
**`StoreBackends`** composes the three under the backend chosen at start, and
maps their state to that of `StoreContract` (`ImplementsContract`).

**`OwnedPath`** has one action per system call of publication and cleanup, for
the socket and for the PID file. An inode number is free again as soon as
nothing links it and no descriptor pins it, so identity by number is only as
good as the pin. `maker` (who made an inode), `hindered` and `reported` are
history variables. The code's check and its `rmdir` of a private directory are
one step; the code's own comment says the window cannot be closed.

**`AppConfig`** is pure: the list of checks of `try_from` with their errors, and
the listeners that result. **`ProcessLifecycle`** runs a command line through
`run`: each startup stage takes a resource or fails and everything held is
dropped in reverse; the public service hands its descriptor to Pingora, is
polled, adopts, is verified and becomes ready, or ends in one of its outcomes;
the management server starts on readiness; the coordinator takes its phases; the
clock counts seconds and lets what is due happen first; Pingora tears the
runtimes down after the grace period. How long the drain, flush and traffic
phases take is left open between zero and their deadline: their content is in
the three modules above.

**`ErrorResolver`** has the custom error request (serialization lock, lease,
exchange, deadline) and the resolver's worker, with the requests waiting in its
queue and batched. A generation is a number; `failed` is a history variable.
**`RouteMatcher`** is pure: keys and paths are sequences of tokens. Its loops
(splitting, `retain`, building the trie, walking down it) are recursive functions
of the number of turns taken, which is what the proofs reason about. A node of
the trie is the sequence of segments that leads to it.
**`PublicProxy`** extends both and has one action per Pingora callback of
`proxy.rs`; a request that ends in a rendered error goes through the resolver.
`due` is a history variable: the deepest route of the table at the lookup,
defined without the trie.

Each `MC...` module adds symmetry sets or the inputs for TLC. Definitions named
`Mutant...` are plausible bugs placed before the definition they would replace.
They are not used by any specification and exist to show that each property can
fail.

## The runs

| Run | Instance | Checks |
| --- | --- | --- |
| `RegistryMaps` | 2 keys, 2 targets, 2 times, 2 mutations, 1 observer | `TypeOK`, `SnapshotMatchesStore`, `ResponseReflectsRoutes`, `ActivityNeverRegresses` |
| `RegistrySeals` | 1 key, 3 mutations, 2 drains, ring of 1 | `AtMostOneFailStop`, `FailStopFreezesRoutes`, `TerminalSealIsFinal`, `KnownIndeterminateIsMasked`, `CleanDrainIsFinal`, `DiagnosticsAccounted` |
| `RegistryLive` | 1 key, 2 mutations, 1 observer, fair | `MutationsFinish` |
| `RegistryShutdownError` | 1 key, 2 mutations, 1 drain | violates `DrainSealsWithShutdownError` |
| `ActivityQueue` | 2 keys, 3 times, 2 recorders, capacity 1 | `WriterTypeOK`, `ReadyIsExact`, `CoalescingKeepsNewest`, `UncountedIsPersisted` |
| `ActivityFlush` | 2 keys, 1 recorder, 1 flush, capacity 2, fair | `FlushCoversAccepted`, `FlushWaitsOnlyForAccepted`, `FlushReturns`, `AcceptedIsTried` |
| `TrafficDrain` | 3 requests, fair | `TrafficTypeOK`, `ActiveIsExact`, `DrainIsFinal`, `StopIsHeard`, `DrainIsHeard` |
| `StoreBackends` | each backend; 1 key, 2 targets, times up to 2, 2 attempts, fair | `PooledConnectionIsClean`, `ImplementsContract`, `CallsReturn` |
| `OwnedPath` | socket and PID file, 5 inodes | `NothingLeftBehind`, `ForeignSurvives` |
| `ProcessLifecycle` | 36 command lines, 2 handshakes, fair | `ReadinessIsVerified`, `DescriptorReleased`, `FailureIsReported`, `GraceContainsPhases`, `PidOutlivesListeners`, `DefaultPortsDistinct`, `AcceptsStopBeforeDrain`, `ShutdownEnds` |
| `RedirectAddress` | the same command lines | violates `RedirectNeedsOnlyTcp` |
| `PublicProxy` | 3 requests sharing the resolver, or 1 request of any kind over 5 keys, queue of 2 | `LeaseIsHonoured`, `FailedIsNotRetried`, `RequestAccounted` |

Why the bounds are enough to be interesting. Two mutations and an observer give
every overlap of a commit, a publication and an observation; two times decide
which stamp is newer. Three mutations and two drains with a ring of one
overflow the ring, queue work behind a fail-stop, and drain again after a
timeout. A capacity of one makes the pending map full with one route; three
acceptances let one arrive while the key is in flight and another behind it.
Three requests give one that races the stop, one being served and one that is
the last to leave. Every call is made at most once (`Calls`), drains at most
`MaxDrains` times, acceptances at most `MaxAccepted`; these are the named
bounds. `MaxAccepted` stops recorders in the guard of `Accept`; the proofs
hold for every value of it.

One key is enough for the stores, whose operations touch one record each; two
targets and three stamps tell the writes of this and of another client apart.
Two attempts give one retry. Five inodes are the staging directory, our entry,
the quarantine directory, a foreign entry and one to replace them with. Two
handshakes reach the bound of the accept loop. The command lines hold one for
each way startup refuses, and the ports 0, 1 and 65535, where defaulting and
overflow bite. The five keys of the table hold two spellings of the same
segments, an empty segment, a nested route and one that starts with a host; the
table changes once (`MaxEvents`) around the lookup, the proxy retries once
(`MaxRetries`), and lookups succeed up to `MaxGeneration` times. The shared
rendering and the lone routed request are separate initial states, because
requests interact only through the resolver.

`TrafficDrain`, `ProcessLifecycle`, `RedirectAddress` and `PublicProxy` switch
off TLC's deadlock check: requests leave and processes exit, and then the
modelled part really stops.

What `RegistryShutdownError` shows: the documentation of `drain_mutations`
promises the shutdown error to every mutation refused after it. A panic or an
indeterminate outcome overwrites the shutdown seal, and a drain leaves such a
seal in place, so the refusal may carry another error. The refusal itself is
right.

What `RedirectAddress` shows: `redirect_configuration` parses the public address
as a socket address. Without `--ip`, or with a host name in it, the address is
`:8000` or `name:8000` and does not parse, so a valid command line with
`--redirect-port` is refused with "redirect listener requires a TCP public
listener" although the public listener is TCP.

## Fairness

* Mutation tasks: weak fairness of a task's next step, since Tokio polls a
  ready task and each store bounds its operations by a timeout; strong fairness
  of `Acquire`, since Tokio's mutex is FIFO; weak fairness of the caller, whose
  future is polled again or dropped. No fairness of admission or of drains.
* Writer: a recording thread runs on; Tokio polls the woken worker and the woken
  flush; a persist ends because mutations do (`MutationsFinish`).
* Traffic: threads run on inside `finish` and inside the exit guard; the woken
  coordinator is polled. No request has to end, the service does not have to
  stop and no timeout has to fire.
* Stores: the task of a call runs on, a reply that does not come is given up
  after the response timeout, and the deadline passes. The server and the other
  clients owe nothing; in particular another client may make every optimistic
  transaction fail until the deadline.
* Process: what is due happens, timers fire, and Pingora's accept tasks notice
  the shutdown. Connections, handshakes and phases need not end by themselves.

## The proofs

TLAPS checks these for any sets of keys, targets, times, calls, observers,
recorders, flushes, requests, inodes and command lines, and any capacities. The
assumptions are the named `ASSUME`s of the modules: stamps are integers,
capacities are positive, `None` is no other value, requests are finitely many,
ports are `u16`, keys are normalised, keys and paths are sequences.

**`RouteRegistryTypeProofs`** and **`RouteRegistryProofs`**, which extends it,
build the inductive invariant in layers, each proved from the ones before; the
first module has the first layer.

1. `TypeInv` adds to `TypeOK` that a live task has a request, that only the
   holder of the mutex is at work, and that `active` counts the live tasks.
   `TypeCorrect` and `TypeInvariant` follow.
2. `SealInv`: a fail-stop outcome belongs to the mutex holder or has already
   sealed the registry, and at most one task ever has it. From it come
   `FailStopOnce`, `TerminalSealStays`, `IndeterminateMasksReads`, and, with
   `CasInv`, `FailStopFreezes`.
3. `CasInv`: a loop that is not stale holds the current snapshot. Without it a
   swap could publish anything.
4. `DrainInv`: a clean drain leaves no task alive and the seal closed. This
   gives `CleanDrainEndsWrites`.
5. `AgreeInv`: the store holds what a committed task is about to publish
   (`CommitInv`), and store and snapshot agree except on a key being published
   or suspect. It gives `SnapshotAgrees` and `ResponsesAreTrue`;
   `ActivityIsMonotone` needs `CasInv`.
6. `AccountInv`: the set of calls that ended abandoned with a failure is finite
   and as large as the sum of ring, overflow counts and what drains returned.
   The lemmas count what pushing to and popping from the ring does. This gives
   `DiagnosticsAreAccounted`.

**`ActivityWriterProofs`** proves `QueueInv` (`WriterTypeOK`, `ReadyIsExact`
and the link between the worker, its flight and the map), then `HistoryInv`
(every owed acceptance is represented in the map by a sequence number no
younger and a stamp no older than its own) and `CoverInv` (the store is only
behind the published stamp where something is queued or counted). They give
`QueueInvariant`, `WriterTypeCorrect`, `AcceptancesAreKept`,
`CoalescingIsSafe`, `FlushIsNotStarved` and `NothingLostSilently`.

**`LifecycleProofs`** has two independent halves. For the traffic lifecycle it
proves `TrafficInv`: `ActiveIsExact` together with the fact that, once the stop was seen without a timeout, `accepting` is
false for good. `DrainIsFinal` is not inductive without it: a request counted
after the drain must be known to back out. The theorems are `TrafficInvariant`,
`TrafficTypeCorrect` and `CleanDrainIsFinal`.

**`StoreBackendsProofs`** proves the refinement `BackendsImplementContract`:
every initial state is one of `StoreContract`, every step of a backend is a step
of the contract or a stutter. The inductive invariant `BackendInv` says what each
place in each protocol may rely on. `StampInv`: a stamp was observed and is not
below the floor once the command is sent. `SeenInv`: unless the watch is dirty,
the record a Redis command was computed from is the one stored; without it EXEC
could commit an update of a record that has changed. `WatchInv`: no watch is
outstanding where a connection can be pooled (`PoolIsClean`). `SidecarInv` relates
the place of a call to what the sidecar has done with it.

**`OwnedPathProofs`** proves `PathInv`: until the path is cleaned up the entry's
descriptor is open, so no other file can have its inode number (`PinInv`), and
what private names and identities refer to is ours (`OursInv`). Without the pin
the verified number might be a stranger's. `ForeignEntriesSurvive` follows;
`NothingIsLeftBehind` needs `LeftInv`, which says what stage, quarantine and
entry still exist at each step of an owner that nothing hindered.

For the process `LifecycleProofs` proves `ProcessInv`, a conjunction of what
startup holds, who owns the descriptor at each stage of the service, what is
reported, when each phase began (`TimeInv`: a phase begins no later than the sum
of the deadlines before it) and the accept stop. Seven theorems follow, one per
safety property of the run.

**`PublicPartsProofs`** is about what a public request uses.

* The matcher. `MatcherIsRight`: for any table, path and tokens `resolve` returns
  the deepest route that is a prefix of the path, the last mutated of those that
  spell the same segments, and nothing only when no key matches. The argument
  gives the two loops a closed form: after i routes the trie is `TrieAfter`, after
  i segments the walk is `WalkAfter`. `TrieStep` and `WalkStep` show that one turn
  leads from one closed form to the next. Induction over the turns is by least
  counterexample (`UpTo`), since the library's induction theorems cannot be
  instantiated; `Iteration` shows that the recursive functions exist. That the
  walk may stop at the first missing child rests on every node having its parent.
* The resolver. `ResolverInv`: only the holder of the serialization lock has an
  attempt, the lease is on the cached generation and is that attempt's, the worker
  looks up only while nothing is cached, and what is cached has not failed.
  `LeaseHonoured` and `FailedNotRetried` follow. It also shows that the connector
  never has to ask the worker (the queue branch of `Call`): under a lease the
  addresses are cached.
* Their composition. `PublicImplementsResolver`: seen from the resolver, every
  behaviour of `PublicProxy` is one of `ResolverSpec`. So both properties hold of
  the requests of the proxy too (`PublicLeaseHonoured`, `PublicFailedNotRetried`).

**`PublicProxyProofs`** proves `ProxyInv`, the types and four facts about each
request. `Untouched`: nothing has happened to a request that arrives.
`RoutedAsDue`: its key is the one it is due, and only a miss is classified as one;
this is where `MatcherIsRight` enters, at the lookup, and it must outlast the
mutations of the table that follow. `CreditedOnce`: no more is credited than the
two claims of the context say, each to the route it is due; without the claims the
number of credits is not inductive. `CountedOnce`: whoever may still count a
response has not counted one. A request that fails without a written header was
not counted, unless its client left, and then `fail_to_proxy` does not count
either; without this a retried or rendered request might be counted twice. There
is one lemma per callback, and since a callback changes only what belongs to its
request (`Frames`) the others keep their invariant. `ProxyInvariant` and
`RequestsAreAccounted` follow, for any number of requests at once; the run has one
request of any kind, or several that share the resolver.

Only model-checked: the liveness properties (`MutationsFinish`, `FlushReturns`,
`AcceptedIsTried`, `StopIsHeard`, `DrainIsHeard`, `CallsReturn`, `ShutdownEnds`),
because the prover does not handle liveness under fairness. Every safety property
of every passing run is also proved.

## Assumptions about what is outside

* Pingora calls the filters in the order of its documentation, polls the public
  service's future until it has adopted the descriptor in the second poll, and
  tears its runtimes down when the grace period is over.
* A filtered response header is written before a later upstream error surfaces;
  errors of writing to the client carry the downstream source; informational
  upstream responses are left out.
* A host in an error target that is an IP literal skips the resolver. The
  resolver's worker lives as long as the renderer, so its queue is never closed.
* Redis executes EXEC, HSET and a script atomically, and EXEC fails when a
  watched key was written since WATCH.
* A sidecar answers 4xx or 5xx only when it has not performed the mutation, as
  `docs/sidecar-store.md` requires of it.
* The file system gives a new file an inode number that nothing links or pins,
  and `renameat2` with NOREPLACE is atomic.
* The coordinator seals the registry before it flushes the activity writer.
  Activity not persisted by then fails with the shutdown error and is counted;
  the flush ends because the queue empties, not because everything was stored.

## Not modelled

* API handlers: they check their input, call one registry operation and format
  the answer. They have no state; parsing JSON and dates is string handling.
* Upstream peers and header rewriting: pure conversions of URLs, headers and
  certificates.
* The exchange with the error server beyond success and failure, static error
  pages, duration summaries and the text exposition of metrics.
* A runtime torn down under a mutation task (`ActiveMutation::drop`).
* The vendored Pingora crates, OpenSSL, hyper and the Redis client, which are
  third-party; `mgmt_api.rs`, `redis_utils.rs` and `utils.rs`, which the crate
  does not include.
* Executions of weak memory models: the atomics of `TrafficLifecycle` are
  sequentially consistent.
