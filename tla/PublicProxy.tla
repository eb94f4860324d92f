----------------------------- MODULE PublicProxy -----------------------------
(***************************************************************************)
(* The public requests: the ProxyHttp callbacks of src/src/proxy.rs from   *)
(* request_filter to logging, over the matcher (RouteMatcher) and, when    *)
(* the error target is an HTTP one, the shared renderer (ErrorResolver).   *)
(* Pingora, which calls them, is modelled by the orders it may call them   *)
(* in.  The admission of a request is TrafficLifecycle's; here it is the   *)
(* flag it reads.                                                          *)
(***************************************************************************)
EXTENDS ErrorResolver, RouteMatcher

CONSTANTS
    KeyOrder,    \* route keys a table may hold, ascending
    BadTargets,  \* the keys whose target does not parse
    Paths,       \* paths of requests
    HealthPath,  \* HEALTH_PATH
    Hosts,       \* Host headers without their port
    MaxRetries,  \* bound: max_retries of Pingora
    MaxEvents    \* bound: changes of the registry and of admission

ASSUME ProxyAssumption ==
    /\ MaxRetries \in Nat /\ MaxEvents \in Nat
    /\ KeyOrder \in Seq(Range(KeyOrder))
    /\ BadTargets \subseteq Range(KeyOrder)
    /\ \A key \in Range(KeyOrder) : key = Normalize(key)
    /\ \A tokens \in Range(KeyOrder) \cup Paths : tokens \in Seq(Range(tokens))

VARIABLES
    host_routing,   \* ProxyOptions.host_routing
    error_target,   \* whether the renderer has an HTTP error target
    routes,         \* the snapshot: keys in mutation order
    consistent,     \* consistency_status() is not Indeterminate
    accepting,      \* what try_admit reads
    events,         \* changes of these three that may still happen
    request,        \* the path, host and kind of each request
    place,          \* the callback it is at
    ctx,            \* its RequestContext
    error,          \* the error Pingora holds for it, by its source
    retries,        \* retries left
    answered,       \* the status fail_to_proxy or request_filter answers with
    written,        \* response_written
    counted,        \* statuses record_proxy_request counted for it
    arrivals,       \* how often record_web_request or record_ws_request counted it
    credited,       \* the keys its activity was recorded for
    due             \* history: the route it should use, from the table at its lookup

sharedVars == <<host_routing, error_target, routes, consistent, accepting, events>>
accountVars == <<counted, arrivals, credited>>
proxyVars == <<sharedVars, request, place, ctx, error, retries, answered, written,
               accountVars, due>>
publicVars == <<resolverVars, proxyVars>>

Statuses == {101, 200, 302}  \* of upstream responses

PublicInit ==
    /\ ResolverInit
    /\ host_routing \in BOOLEAN
    /\ error_target \in BOOLEAN
    /\ \E keys \in SUBSET Range(KeyOrder) : routes = Retain(KeyOrder, keys)
    /\ consistent = TRUE
    /\ accepting = TRUE
    /\ events \in 0..MaxEvents
    /\ request \in [Requests -> [path : Paths, host : Hosts, upgrade : BOOLEAN]]
    /\ place \in [Requests -> {"arriving", "absent"}]
    /\ ctx = [r \in Requests |-> [key |-> NoRoute, class |-> None,
                                  request_activity |-> FALSE, response_activity |-> FALSE]]
    /\ error = [r \in Requests |-> None]
    /\ retries = [r \in Requests |-> MaxRetries]
    /\ answered = [r \in Requests |-> 0]
    /\ written = [r \in Requests |-> 0]
    /\ counted = [r \in Requests |-> <<>>]
    /\ arrivals = [r \in Requests |-> 0]
    /\ credited = [r \in Requests |-> <<>>]
    /\ due = [r \in Requests |-> NoRoute]

At(r, p) == place' = [place EXCEPT ![r] = p]
Counts(r, status) == counted' = [counted EXCEPT ![r] = Append(@, status)]
Arrives(r) == arrivals' = [arrivals EXCEPT ![r] = @ + 1]
Fails(r, source) == error' = [error EXCEPT ![r] = source] /\ At(r, "failing")
Classified(c, class) == [c EXCEPT !.class = class]

(* A response header is written, or the client is gone.                    *)
Writes(r, status) ==
    \/ written' = [written EXCEPT ![r] = status] /\ At(r, "logging") /\ UNCHANGED error
    \/ Fails(r, "client") /\ UNCHANGED written

(***************************************************************************)
(* request_filter.                                                         *)
(***************************************************************************)
Refuse(r) ==
    /\ place[r] = "arriving"
    /\ ~accepting \/ ~consistent
    /\ Arrives(r) /\ Counts(r, 503)
    /\ Writes(r, 503)
    /\ UNCHANGED <<resolverVars, sharedVars, request, ctx, retries, answered, credited, due>>

IsHealth(r) == request[r].path = HealthPath

SendHealth(r) ==
    /\ place[r] = "arriving" /\ accepting /\ consistent
    /\ IsHealth(r)
    /\ Writes(r, 200)
    /\ UNCHANGED <<resolverVars, sharedVars, request, ctx, retries, answered, accountVars, due>>

(* route_for_request: what it looks up, with the host in front when hosts  *)
(* are routed.                                                             *)
LookupPath(r) ==
    LET decoded == PercentDecode(request[r].path)
    IN  IF decoded = Undecodable THEN Undecodable
        ELSE IF host_routing THEN <<"/", request[r].host>> \o decoded ELSE decoded

RouteForRequest(r) ==
    /\ place[r] = "arriving" /\ accepting /\ consistent
    /\ ~IsHealth(r)
    /\ Arrives(r)
    /\ LET path == LookupPath(r)
           key == IF path = Undecodable THEN NoRoute ELSE Resolve(routes, path)
       IN  /\ due' = [due EXCEPT ![r] = IF path = Undecodable THEN NoRoute
                                        ELSE DeepestRoute(routes, path)]
           /\ \/ /\ path = Undecodable \/ key \in BadTargets
                 /\ ctx' = [ctx EXCEPT ![r] = Classified(@, 500)]
                 /\ Fails(r, "internal")
                 /\ UNCHANGED <<counted, answered>>
              \/ /\ path # Undecodable /\ key = NoRoute
                 /\ ctx' = [ctx EXCEPT ![r] = Classified(@, 404)]
                 /\ Counts(r, 404)
                 /\ answered' = [answered EXCEPT ![r] = 404]
                 /\ At(r, "rendering")
                 /\ UNCHANGED error
              \/ /\ path # Undecodable /\ key # NoRoute /\ key \notin BadTargets
                 /\ ctx' = [ctx EXCEPT ![r].key = key]
                 /\ At(r, "peer")
                 /\ UNCHANGED <<counted, answered, error>>
    /\ UNCHANGED <<resolverVars, sharedVars, request, retries, written, credited>>

(***************************************************************************)
(* ProxyErrorRenderer::respond: with an HTTP error target the page comes   *)
(* through the resolver, otherwise it is at hand.  A write that fails is   *)
(* an error of request_filter, and nothing to fail_to_proxy.               *)
(***************************************************************************)
Respond(r) ==
    /\ place[r] = "rendering"
    /\ IF error_target THEN step[r] = "done" ELSE step[r] = "idle"
    /\ \/ Writes(r, answered[r]) /\ error[r] = None
       \/ /\ error[r] # None
          /\ written' \in {written, [written EXCEPT ![r] = answered[r]]}
          /\ At(r, "logging")
          /\ UNCHANGED error
    /\ UNCHANGED <<resolverVars, sharedVars, request, ctx, retries, answered, accountVars, due>>

StartRender(r) ==
    /\ place[r] = "rendering" /\ error_target
    /\ CustomError(r)
    /\ UNCHANGED proxyVars

(***************************************************************************)
(* The upstream: upstream_peer, fail_to_connect, upstream_request_filter.  *)
(***************************************************************************)
UpstreamPeer(r) ==
    /\ place[r] = "peer"
    /\ \/ At(r, "connecting") /\ UNCHANGED <<ctx, error>>
       \/ ctx' = [ctx EXCEPT ![r] = Classified(@, 503)] /\ Fails(r, "upstream")
       \/ ctx' = [ctx EXCEPT ![r] = Classified(@, 500)] /\ Fails(r, "internal")
    /\ UNCHANGED <<resolverVars, sharedVars, request, retries, answered, written, accountVars, due>>

FailToConnect(r) ==
    /\ place[r] = "connecting"
    /\ ctx' = [ctx EXCEPT ![r] = Classified(@, 503)]
    /\ Fails(r, "upstream")
    /\ UNCHANGED <<resolverVars, sharedVars, request, retries, answered, written, accountVars, due>>

UpstreamRequestFilter(r) ==
    /\ place[r] = "connecting"
    /\ \/ At(r, "proxying") /\ UNCHANGED <<ctx, error>>
       \/ ctx' = [ctx EXCEPT ![r] = Classified(@, 500)] /\ Fails(r, "internal")
    /\ UNCHANGED <<resolverVars, sharedVars, request, retries, answered, written, accountVars, due>>

(***************************************************************************)
(* Data and headers while the request is proxied.                          *)
(***************************************************************************)
PublishActivity(r) ==
    credited' = [credited EXCEPT ![r] = IF ctx[r].key = NoRoute THEN @ ELSE Append(@, ctx[r].key)]

RequestBodyFilter(r) ==
    /\ place[r] = "proxying"
    /\ ~ctx[r].request_activity
    /\ ctx' = [ctx EXCEPT ![r].request_activity = TRUE]
    /\ PublishActivity(r)
    /\ UNCHANGED <<resolverVars, sharedVars, request, place, error, retries, answered, written,
                   counted, arrivals, due>>

UpstreamResponseBodyFilter(r) ==
    /\ place[r] = "proxying" /\ written[r] # 0
    /\ request[r].upgrade
    /\ ~ctx[r].response_activity
    /\ ctx' = [ctx EXCEPT ![r].response_activity = TRUE]
    /\ PublishActivity(r)
    /\ UNCHANGED <<resolverVars, sharedVars, request, place, error, retries, answered, written,
                   counted, arrivals, due>>

(* upstream_response_filter, and the header written to the client at once. *)
UpstreamResponseFilter(r) ==
    /\ place[r] = "proxying" /\ written[r] = 0
    /\ \/ /\ \E status \in {s \in Statuses : s = 101 => request[r].upgrade} :
                /\ IF status = 101 THEN UNCHANGED counted ELSE Counts(r, status)
                /\ \/ written' = [written EXCEPT ![r] = status] /\ UNCHANGED <<place, error>>
                   \/ Fails(r, "client") /\ UNCHANGED written
          /\ UNCHANGED ctx
       \/ /\ ctx' = [ctx EXCEPT ![r] = Classified(@, 500)]
          /\ Fails(r, "internal")
          /\ UNCHANGED <<counted, written>>
    /\ UNCHANGED <<resolverVars, sharedVars, request, retries, answered, arrivals, credited, due>>

(* error_while_proxy: an upstream error on a reused connection is retried  *)
(* with a new peer while nothing was answered.                             *)
ErrorWhileProxy(r) ==
    /\ place[r] = "proxying"
    /\ \E source \in {"client", "request", "upstream"} :
          /\ ctx' = [ctx EXCEPT ![r] = IF @.class = None /\ source = "upstream"
                                       THEN Classified(@, 503) ELSE @]
          /\ \/ Fails(r, source) /\ UNCHANGED retries
             \/ /\ source = "upstream" /\ written[r] = 0 /\ retries[r] > 0
                /\ retries' = [retries EXCEPT ![r] = @ - 1]
                /\ At(r, "peer")
                /\ UNCHANGED error
    /\ UNCHANGED <<resolverVars, sharedVars, request, answered, written, accountVars, due>>

Completes(r) ==
    /\ place[r] = "proxying" /\ written[r] # 0
    /\ At(r, "logging")
    /\ UNCHANGED <<resolverVars, sharedVars, request, ctx, error, retries, answered, written,
                   accountVars, due>>

(***************************************************************************)
(* fail_to_proxy and logging.                                              *)
(***************************************************************************)
MutantNothingToAnswer(r) == error[r] = "client"  \* forgets response_written
NothingToAnswer(r) == written[r] # 0 \/ error[r] = "client"

Status(r) ==
    IF ctx[r].class # None THEN ctx[r].class ELSE IF error[r] = "upstream" THEN 503 ELSE 500

FailToProxy(r) ==
    /\ place[r] = "failing"
    /\ \/ /\ NothingToAnswer(r)
          /\ At(r, "logging")
          /\ UNCHANGED <<counted, answered, written>>
       \/ /\ ~NothingToAnswer(r)
          /\ Counts(r, Status(r))
          /\ answered' = [answered EXCEPT ![r] = Status(r)]
          /\ \/ /\ request[r].upgrade
                /\ written' \in {written, [written EXCEPT ![r] = Status(r)]}
                /\ At(r, "logging")
             \/ ~request[r].upgrade /\ At(r, "rendering") /\ UNCHANGED written
    /\ UNCHANGED <<resolverVars, sharedVars, request, ctx, error, retries, arrivals, credited, due>>

Logging(r) ==
    /\ place[r] = "logging"
    /\ IF /\ error[r] = None /\ written[r] # 0 /\ written[r] < 300
          /\ ~request[r].upgrade
          /\ ~ctx[r].request_activity
       THEN PublishActivity(r) /\ ctx' = [ctx EXCEPT ![r].request_activity = TRUE]
       ELSE UNCHANGED <<credited, ctx>>
    /\ At(r, "gone")
    /\ UNCHANGED <<resolverVars, sharedVars, request, error, retries, answered, written,
                   counted, arrivals, due>>

(***************************************************************************)
(* What else happens to the registry and to admission meanwhile.           *)
(***************************************************************************)
Event ==
    /\ events > 0
    /\ events' = events - 1
    /\ UNCHANGED <<resolverVars, host_routing, error_target, request, place, ctx, error, retries,
                   answered, written, accountVars, due>>

ReplaceRoute(key) ==
    /\ Event
    /\ routes' = Replace(routes, key)
    /\ UNCHANGED <<consistent, accepting>>

RemoveRoute(key) ==
    /\ Event
    /\ key \in Range(routes)
    /\ routes' = RemoveKey(routes, key)
    /\ UNCHANGED <<consistent, accepting>>

BecomesIndeterminate ==
    /\ Event
    /\ consistent' = FALSE
    /\ UNCHANGED <<routes, accepting>>

AcceptsStop ==
    /\ Event
    /\ accepting' = FALSE
    /\ UNCHANGED <<routes, consistent>>

ProxyStep(r) ==
    \/ Refuse(r) \/ SendHealth(r) \/ RouteForRequest(r) \/ StartRender(r) \/ Respond(r)
    \/ UpstreamPeer(r) \/ FailToConnect(r) \/ UpstreamRequestFilter(r)
    \/ RequestBodyFilter(r) \/ UpstreamResponseFilter(r) \/ UpstreamResponseBodyFilter(r)
    \/ ErrorWhileProxy(r) \/ Completes(r) \/ FailToProxy(r) \/ Logging(r)

PublicNext ==
    \/ (Expire \/ WorkerStep) /\ UNCHANGED proxyVars
    \/ \E r \in Requests : ProxyStep(r) \/ (RenderStep(r) /\ UNCHANGED proxyVars)
    \/ \E key \in Range(KeyOrder) : ReplaceRoute(key) \/ RemoveRoute(key)
    \/ BecomesIndeterminate
    \/ AcceptsStop

PublicSpec == PublicInit /\ [][PublicNext]_publicVars

(***************************************************************************)
(* Properties.                                                             *)
(***************************************************************************)
(* A request is answered as it was routed and accounted for once: it is    *)
(* proxied to, and its activity credited to, no route but the deepest one  *)
(* of the table at its lookup, and misses only when there is none;         *)
(* activity is credited once per direction;                                *)
(* whatever retries, failures and renderings happen, a response the client *)
(* received is counted once, with its status, but for health checks and    *)
(* switched protocols (request_filter, upstream_response_filter,           *)
(* fail_to_proxy, logging; RouteSnapshot::resolve).                        *)
RequestAccounted ==
    \A r \in Requests :
        /\ ctx[r].key \in {NoRoute, due[r]}
        /\ place[r] \in {"peer", "connecting", "proxying"} => ctx[r].key = due[r]
        /\ answered[r] = 404 => due[r] = NoRoute
        /\ \A i \in DOMAIN credited[r] : credited[r][i] = due[r]
        /\ Len(credited[r]) <= IF request[r].upgrade THEN 2 ELSE 1
        /\ written[r] # 0 =>
              counted[r] = IF (IsHealth(r) /\ written[r] = 200) \/ written[r] = 101
                           THEN <<>> ELSE <<written[r]>>
        /\ place[r] = "gone" => arrivals[r] = IF IsHealth(r) /\ counted[r] = <<>> THEN 0 ELSE 1
=============================================================================
