-------------------------- MODULE PublicProxyProofs --------------------------
(***************************************************************************)
(* Proofs about the public requests (PublicProxy), for any set of          *)
(* requests, any table, paths and hosts, and any number of retries and     *)
(* events: each callback keeps the invariant of its request, hence every   *)
(* step that of all of them.                                               *)
(***************************************************************************)
EXTENDS PublicPartsProofs

(* Each callback keeps the invariant of its request.                       *)

(* What is known of a request that arrives.                                *)
LEMMA ArrivingIs ==
    ASSUME NEW q \in Requests, RequestInv(q), place[q] = "arriving"
    PROVE  /\ ctx[q].key = NoRoute /\ due[q] = NoRoute /\ ctx[q].class = None
           /\ ~ctx[q].request_activity /\ ~ctx[q].response_activity
           /\ answered[q] = 0 /\ written[q] = 0
           /\ counted[q] = <<>> /\ arrivals[q] = 0 /\ credited[q] = <<>>
  BY Zenon DEF RequestInv, Untouched

(* What is credited stays right when neither it nor its route changes.     *)
LEMMA CreditKept ==
    ASSUME NEW q \in Requests, RequestInv(q),
           credited'[q] = credited[q], due'[q] = due[q], request' = request,
           ctx'[q].request_activity = ctx[q].request_activity,
           ctx'[q].response_activity = ctx[q].response_activity
    PROVE  CreditedOnce(q)'
  BY Zenon DEF RequestInv, CreditedOnce

(* request_filter: no admission, the health check, and the lookup.         *)
LEMMA RefuseKeeps ==
    ASSUME RequestTypes, NEW q \in Requests, RequestInv(q), Refuse(q)
    PROVE  Frames(q) /\ RequestInv(q)'
<1>1. /\ place[q] = "arriving" /\ Arrives(q) /\ Counts(q, 503) /\ Writes(q, 503)
      /\ host_routing' = host_routing /\ routes' = routes /\ request' = request
      /\ ctx' = ctx /\ answered' = answered /\ credited' = credited /\ due' = due
    BY Zenon DEF Refuse, sharedVars
<1>2. Framed(arrivals, arrivals', Nat, q) /\ arrivals'[q] = arrivals[q] + 1
    BY Zenon, <1>1, ArrivesEffect
<1>3. Framed(counted, counted', Seq(Nat), q) /\ (counted[q] = <<>> => counted'[q] = <<503>>)
    BY <1>1, CountsEffect
<1>4. /\ Framed(place, place', Places, q) /\ Framed(error, error', Sources, q)
      /\ Framed(written, written', Nat, q)
      /\ \/ place'[q] = "logging" /\ error'[q] = error[q] /\ written'[q] = 503
         \/ place'[q] = "failing" /\ error'[q] = "client" /\ written'[q] = written[q]
    BY <1>1, WritesEffect
<1>5. Frames(q)
    BY Zenon, <1>1, <1>2, <1>3, <1>4, UnchangedIsFramed DEF Frames
<1>6. /\ ctx[q].key = NoRoute /\ due[q] = NoRoute /\ ctx[q].class = None
      /\ answered[q] = 0 /\ written[q] = 0 /\ counted[q] = <<>> /\ arrivals[q] = 0
    BY Zenon, <1>1, ArrivingIs
<1>7. place'[q] \in {"logging", "failing"}
    BY Zenon, <1>4
<1>8. Untouched(q)'
    BY Zenon, <1>7 DEF Untouched
<1>9. RoutedAsDue(q)'
    BY Zenon, <1>1, <1>6, <1>7 DEF RoutedAsDue, Routing
<1>10. CreditedOnce(q)'
    BY Zenon, <1>1, CreditKept
<1>11. arrivals'[q] = 1 /\ counted'[q] = <<503>> /\ <<503>> # <<>>
    BY <1>2, <1>3, <1>6
<1>12. CountedOnce(q)'
    BY <1>4, <1>6, <1>7, <1>11 DEF CountedOnce, Routing
<1> QED BY Zenon, <1>5, <1>8, <1>9, <1>10, <1>12 DEF RequestInv

LEMMA SendHealthKeeps ==
    ASSUME RequestTypes, NEW q \in Requests, RequestInv(q), SendHealth(q)
    PROVE  Frames(q) /\ RequestInv(q)'
<1>1. /\ place[q] = "arriving" /\ IsHealth(q) /\ Writes(q, 200)
      /\ host_routing' = host_routing /\ routes' = routes /\ request' = request
      /\ ctx' = ctx /\ answered' = answered /\ credited' = credited /\ due' = due
      /\ counted' = counted /\ arrivals' = arrivals
    BY Zenon DEF SendHealth, sharedVars, accountVars
<1>2. /\ Framed(place, place', Places, q) /\ Framed(error, error', Sources, q)
      /\ Framed(written, written', Nat, q)
      /\ \/ place'[q] = "logging" /\ error'[q] = error[q] /\ written'[q] = 200
         \/ place'[q] = "failing" /\ error'[q] = "client" /\ written'[q] = written[q]
    BY <1>1, WritesEffect
<1>3. Frames(q)
    BY Zenon, <1>1, <1>2, UnchangedIsFramed DEF Frames
<1>4. /\ ctx[q].key = NoRoute /\ due[q] = NoRoute /\ ctx[q].class = None
      /\ answered[q] = 0 /\ written[q] = 0 /\ counted[q] = <<>> /\ arrivals[q] = 0
    BY Zenon, <1>1, ArrivingIs
<1>5. place'[q] \in {"logging", "failing"}
    BY Zenon, <1>2
<1>6. Untouched(q)'
    BY Zenon, <1>5 DEF Untouched
<1>7. RoutedAsDue(q)'
    BY Zenon, <1>1, <1>4, <1>5 DEF RoutedAsDue, Routing
<1>8. CreditedOnce(q)'
    BY Zenon, <1>1, CreditKept
<1>9. IsHealth(q)' /\ arrivals'[q] = 0 /\ counted'[q] = <<>>
    BY Zenon, <1>1, <1>4 DEF IsHealth
<1>10. CountedOnce(q)'
    BY Zenon, <1>2, <1>4, <1>5, <1>9 DEF CountedOnce, Routing
<1> QED BY Zenon, <1>3, <1>6, <1>7, <1>8, <1>10 DEF RequestInv

(* What a request is due, and the key the matcher finds for it.            *)
DueKey(q) ==
    IF LookupPath(q) = Undecodable THEN NoRoute ELSE DeepestRoute(routes, LookupPath(q))
FoundKey(q) ==
    IF LookupPath(q) = Undecodable THEN NoRoute ELSE Resolve(routes, LookupPath(q))

LEMMA FoundIsDue ==
    ASSUME RequestTypes, NEW q \in Requests
    PROVE  FoundKey(q) = DueKey(q) /\ DueKey(q) \in Seq(Tokens)
<1>1. CASE LookupPath(q) = Undecodable
    BY Zenon, <1>1, TokensAre DEF FoundKey, DueKey
<1>2. CASE LookupPath(q) # Undecodable
  <2>1. /\ Resolve(routes, LookupPath(q)) = DeepestRoute(routes, LookupPath(q))
        /\ Resolve(routes, LookupPath(q)) \in Range(KeyOrder) \cup {NoRoute}
    BY Zenon, <1>2, LookupIsRight
  <2>2. FoundKey(q) = Resolve(routes, LookupPath(q)) /\ DueKey(q) = FoundKey(q)
    BY Zenon, <1>2, <2>1 DEF FoundKey, DueKey
  <2> QED BY Zenon, <2>1, <2>2, TokensAre
<1> QED BY Zenon, <1>1, <1>2

(* Its three outcomes.                                                     *)
RouteFails(q) ==
    Classifies(q, 500) /\ Fails(q, "internal") /\ UNCHANGED <<counted, answered>>
RouteMisses(q) ==
    /\ FoundKey(q) = NoRoute /\ Classifies(q, 404) /\ Counts(q, 404)
    /\ answered' = [answered EXCEPT ![q] = 404] /\ At(q, "rendering") /\ UNCHANGED error
RouteIsFound(q) ==
    ctx' = [ctx EXCEPT ![q].key = FoundKey(q)] /\ At(q, "peer") /\ UNCHANGED <<counted, answered, error>>

OutcomeFrames(q) ==
    /\ Framed(place, place', Places, q) /\ Framed(error, error', Sources, q)
    /\ Framed(ctx, ctx', Contexts, q) /\ Framed(counted, counted', Seq(Nat), q)
    /\ Framed(answered, answered', Answers \cup {0}, q)

LEMMA RouteOutcomes ==
    ASSUME NEW q \in Requests, RouteForRequest(q)
    PROVE  /\ place[q] = "arriving" /\ ~IsHealth(q) /\ Arrives(q)
           /\ due' = [due EXCEPT ![q] = DueKey(q)]
           /\ host_routing' = host_routing /\ routes' = routes /\ request' = request
           /\ written' = written /\ credited' = credited
           /\ RouteFails(q) \/ RouteMisses(q) \/ RouteIsFound(q)
<1>1. /\ place[q] = "arriving" /\ ~IsHealth(q) /\ Arrives(q)
      /\ due' = [due EXCEPT ![q] = DueKey(q)]
      /\ host_routing' = host_routing /\ routes' = routes /\ request' = request
      /\ written' = written /\ credited' = credited
    BY Zenon DEF RouteForRequest, DueKey, sharedVars
<1>2. RouteFails(q) \/ RouteMisses(q) \/ RouteIsFound(q)
    BY DEF RouteForRequest, FoundKey, RouteFails, RouteMisses, RouteIsFound, Classifies
<1> QED BY Zenon, <1>1, <1>2

LEMMA RouteFailsEffect ==
    ASSUME RequestTypes, NEW q \in Requests, RouteFails(q)
    PROVE  /\ OutcomeFrames(q)
           /\ place'[q] = "failing"
           /\ error'[q] = "internal"
           /\ ctx'[q].key = ctx[q].key /\ ctx'[q].class = 500
           /\ ctx'[q].request_activity = ctx[q].request_activity
           /\ ctx'[q].response_activity = ctx[q].response_activity
           /\ counted'[q] = counted[q]
           /\ answered'[q] = answered[q]
<1>1. Classifies(q, 500) /\ 500 \in Answers /\ Fails(q, "internal") /\ "internal" \in Sources
    BY DEF RouteFails, Answers, Sources
<1>2. counted' = counted /\ answered' = answered
    BY Zenon DEF RouteFails
<1>3. /\ Framed(place, place', Places, q) /\ place'[q] = "failing"
      /\ Framed(error, error', Sources, q) /\ error'[q] = "internal"
    BY Zenon, <1>1, FailsEffect
<1>4. /\ Framed(ctx, ctx', Contexts, q)
      /\ ctx'[q].key = ctx[q].key /\ ctx'[q].class = 500
      /\ ctx'[q].request_activity = ctx[q].request_activity
      /\ ctx'[q].response_activity = ctx[q].response_activity
    BY <1>1, ClassifiedEffect
<1> QED BY Zenon, <1>2, <1>3, <1>4, UnchangedIsFramed DEF OutcomeFrames

LEMMA RouteMissesEffect ==
    ASSUME RequestTypes, NEW q \in Requests, RouteMisses(q)
    PROVE  /\ OutcomeFrames(q)
           /\ place'[q] = "rendering"
           /\ ctx'[q].key = ctx[q].key /\ ctx'[q].class = 404
           /\ ctx'[q].request_activity = ctx[q].request_activity
           /\ ctx'[q].response_activity = ctx[q].response_activity
           /\ counted[q] = <<>> => counted'[q] = <<404>>
           /\ answered'[q] = 404
<1>1. /\ Classifies(q, 404) /\ 404 \in Answers /\ AnswersWith(q, 404) /\ Counts(q, 404)
      /\ At(q, "rendering") /\ "rendering" \in Places /\ error' = error
    BY DEF RouteMisses, AnswersWith, Answers, Places
<1>2. Framed(answered, answered', Answers \cup {0}, q) /\ answered'[q] = 404
    BY <1>1, AnsweredEffect
<1>3. Framed(place, place', Places, q) /\ place'[q] = "rendering"
    BY Zenon, <1>1, AtEffect
<1>4. /\ Framed(ctx, ctx', Contexts, q)
      /\ ctx'[q].key = ctx[q].key /\ ctx'[q].class = 404
      /\ ctx'[q].request_activity = ctx[q].request_activity
      /\ ctx'[q].response_activity = ctx[q].response_activity
    BY <1>1, ClassifiedEffect
<1>5. Framed(counted, counted', Seq(Nat), q) /\ (counted[q] = <<>> => counted'[q] = <<404>>)
    BY <1>1, CountsEffect
<1> QED BY Zenon, <1>1, <1>2, <1>3, <1>4, <1>5, UnchangedIsFramed DEF OutcomeFrames

LEMMA RouteIsFoundEffect ==
    ASSUME RequestTypes, NEW q \in Requests, RouteIsFound(q)
    PROVE  /\ OutcomeFrames(q)
           /\ place'[q] = "peer"
           /\ ctx'[q].key = DueKey(q) /\ ctx'[q].class = ctx[q].class
           /\ ctx'[q].request_activity = ctx[q].request_activity
           /\ ctx'[q].response_activity = ctx[q].response_activity
           /\ counted'[q] = counted[q]
           /\ answered'[q] = answered[q]
<1>1. At(q, "peer") /\ "peer" \in Places /\ counted' = counted /\ answered' = answered /\ error' = error
    BY Zenon DEF RouteIsFound, Places, Routing
<1>2. ctx' = [ctx EXCEPT ![q].key = DueKey(q)] /\ DueKey(q) \in Seq(Tokens)
    BY Zenon, FoundIsDue DEF RouteIsFound
<1>3. Framed(place, place', Places, q) /\ place'[q] = "peer"
    BY Zenon, <1>1, AtEffect
<1>4. /\ Framed(ctx, ctx', Contexts, q)
      /\ ctx'[q].key = DueKey(q) /\ ctx'[q].class = ctx[q].class
      /\ ctx'[q].request_activity = ctx[q].request_activity
      /\ ctx'[q].response_activity = ctx[q].response_activity
    BY Zenon, <1>2, KeyEffect
<1> QED BY Zenon, <1>1, <1>3, <1>4, UnchangedIsFramed DEF OutcomeFrames

LEMMA RouteForRequestKeeps ==
    ASSUME RequestTypes, NEW q \in Requests, RequestInv(q), RouteForRequest(q)
    PROVE  Frames(q) /\ RequestInv(q)'
<1>1. /\ place[q] = "arriving" /\ ~IsHealth(q) /\ Arrives(q)
      /\ due' = [due EXCEPT ![q] = DueKey(q)]
      /\ host_routing' = host_routing /\ routes' = routes /\ request' = request
      /\ written' = written /\ credited' = credited
      /\ RouteFails(q) \/ RouteMisses(q) \/ RouteIsFound(q)
    BY Zenon, RouteOutcomes
<1>2. Framed(arrivals, arrivals', Nat, q) /\ arrivals'[q] = arrivals[q] + 1
    BY Zenon, <1>1, ArrivesEffect
<1>3. Framed(due, due', Seq(Tokens), q) /\ due'[q] = DueKey(q)
    BY Zenon, <1>1, FoundIsDue, UpdateIsFramed DEF RequestTypes
<1>4. /\ ctx[q].key = NoRoute /\ ctx[q].class = None
      /\ ~ctx[q].request_activity /\ ~ctx[q].response_activity
      /\ answered[q] = 0 /\ written[q] = 0
      /\ counted[q] = <<>> /\ arrivals[q] = 0 /\ credited[q] = <<>>
    BY Zenon, <1>1, ArrivingIs
<1>5. /\ arrivals'[q] = 1 /\ written'[q] = 0 /\ credited'[q] = <<>> /\ ~IsHealth(q)'
      /\ <<404>> # <<>>
    BY <1>1, <1>2, <1>4 DEF IsHealth
<1>6. ASSUME ~ctx'[q].request_activity, ~ctx'[q].response_activity
      PROVE  CreditedOnce(q)'
    BY <1>5, <1>6 DEF CreditedOnce
<1>7. CASE RouteFails(q)
  <2>1. OutcomeFrames(q)
    BY <1>7, RouteFailsEffect
  <2>2. /\ place'[q] = "failing" /\ error'[q] = "internal" /\ ctx'[q].class = 500
        /\ ctx'[q].key = NoRoute /\ counted'[q] = <<>> /\ answered'[q] = 0
        /\ ~ctx'[q].request_activity /\ ~ctx'[q].response_activity
    BY <1>4, <1>7, RouteFailsEffect
  <2>3. Frames(q)
    BY Zenon, <1>1, <1>2, <1>3, <2>1, UnchangedIsFramed DEF Frames, OutcomeFrames
  <2>4. Untouched(q)'
    BY Zenon, <2>2 DEF Untouched
  <2>5. RoutedAsDue(q)'
    BY <2>2 DEF RoutedAsDue, Routing
  <2>6. CountedOnce(q)'
    BY Zenon, <1>5, <2>2 DEF CountedOnce, Routing
  <2> QED BY Zenon, <1>6, <2>2, <2>3, <2>4, <2>5, <2>6 DEF RequestInv
<1>8. CASE RouteMisses(q)
  <2>1. OutcomeFrames(q)
    BY Zenon, <1>8, RouteMissesEffect
  <2>2. /\ place'[q] = "rendering" /\ ctx'[q].class = 404
        /\ ctx'[q].key = NoRoute /\ counted'[q] = <<404>> /\ answered'[q] = 404
        /\ ~ctx'[q].request_activity /\ ~ctx'[q].response_activity
    BY <1>4, <1>8, RouteMissesEffect
  <2>3. due'[q] = NoRoute
    BY Zenon, <1>3, <1>8, FoundIsDue DEF RouteMisses
  <2>4. Frames(q)
    BY Zenon, <1>1, <1>2, <1>3, <2>1, UnchangedIsFramed DEF Frames, OutcomeFrames
  <2>5. Untouched(q)'
    BY Zenon, <2>2 DEF Untouched
  <2>6. RoutedAsDue(q)'
    BY Zenon, <2>2, <2>3 DEF RoutedAsDue, Routing
  <2>7. CountedOnce(q)'
    BY <1>5, <2>2 DEF CountedOnce, Routing
  <2> QED BY Zenon, <1>6, <2>2, <2>4, <2>5, <2>6, <2>7 DEF RequestInv
<1>9. CASE RouteIsFound(q)
  <2>1. OutcomeFrames(q)
    BY Zenon, <1>9, RouteIsFoundEffect
  <2>2. /\ place'[q] = "peer" /\ ctx'[q].class = None
        /\ ctx'[q].key = due'[q] /\ counted'[q] = <<>> /\ answered'[q] = 0
        /\ ~ctx'[q].request_activity /\ ~ctx'[q].response_activity
    BY Zenon, <1>3, <1>4, <1>9, RouteIsFoundEffect
  <2>3. None # 404
    BY ResolverAssumption
  <2>4. Frames(q)
    BY Zenon, <1>1, <1>2, <1>3, <2>1, UnchangedIsFramed DEF Frames, OutcomeFrames
  <2>5. Untouched(q)'
    BY Zenon, <2>2 DEF Untouched
  <2>6. RoutedAsDue(q)'
    BY <1>5, <2>2, <2>3 DEF RoutedAsDue, Routing
  <2>7. CountedOnce(q)'
    BY Zenon, <1>5, <2>2 DEF CountedOnce, Routing
  <2> QED BY Zenon, <1>6, <2>2, <2>4, <2>5, <2>6, <2>7 DEF RequestInv
<1> QED BY Zenon, <1>1, <1>7, <1>8, <1>9

(* ProxyErrorRenderer::respond, after the page was rendered or not.        *)
LEMMA RespondEffect ==
    ASSUME RequestTypes, NEW q \in Requests, Respond(q)
    PROVE  /\ Framed(place, place', Places, q) /\ Framed(error, error', Sources, q)
           /\ Framed(written, written', Nat, q)
           /\ place'[q] = "logging" \/ (place'[q] = "failing" /\ error'[q] = "client")
           /\ written'[q] \in {written[q], answered[q]}
<1>1. "logging" \in Places /\ answered[q] \in Nat /\ written \in [Requests -> Nat]
  <2>1. answered[q] \in Answers \cup {0} /\ written \in [Requests -> Nat]
    BY Zenon DEF RequestTypes
  <2> QED BY <2>1 DEF Answers, Places
<1>2. CASE Writes(q, answered[q])
  <2>1. /\ Framed(place, place', Places, q) /\ Framed(error, error', Sources, q)
        /\ Framed(written, written', Nat, q)
        /\ \/ place'[q] = "logging" /\ error'[q] = error[q] /\ written'[q] = answered[q]
           \/ place'[q] = "failing" /\ error'[q] = "client" /\ written'[q] = written[q]
    BY Zenon, <1>1, <1>2, WritesEffect
  <2> QED BY Zenon, <2>1
<1>3. CASE /\ written' \in {written, [written EXCEPT ![q] = answered[q]]}
           /\ At(q, "logging") /\ UNCHANGED error
  <2>1. Framed(place, place', Places, q) /\ place'[q] = "logging"
    BY Zenon, <1>1, <1>3, AtEffect
  <2>2. Framed(error, error', Sources, q)
    BY Zenon, <1>3, UnchangedIsFramed
  <2>3. CASE written' = written
    BY Zenon, <2>1, <2>2, <2>3, UnchangedIsFramed
  <2>4. CASE written' = [written EXCEPT ![q] = answered[q]]
    <3>1. Framed(written, written', Nat, q) /\ written'[q] = answered[q]
      BY Zenon, <1>1, <2>4, UpdateIsFramed
    <3> QED BY Zenon, <2>1, <2>2, <3>1
  <2> QED BY Zenon, <1>3, <2>3, <2>4
<1> QED BY Zenon, <1>2, <1>3 DEF Respond

LEMMA RespondKeeps ==
    ASSUME RequestTypes, NEW q \in Requests, RequestInv(q), Respond(q)
    PROVE  Frames(q) /\ RequestInv(q)'
<1>1. /\ place[q] = "rendering"
      /\ host_routing' = host_routing /\ routes' = routes /\ request' = request
      /\ ctx' = ctx /\ answered' = answered /\ credited' = credited /\ due' = due
      /\ counted' = counted /\ arrivals' = arrivals
    BY Zenon DEF Respond, sharedVars, accountVars
<1>2. /\ Framed(place, place', Places, q) /\ Framed(error, error', Sources, q)
      /\ Framed(written, written', Nat, q)
    BY Zenon, RespondEffect
<1>3. /\ place'[q] = "logging" \/ (place'[q] = "failing" /\ error'[q] = "client")
      /\ written'[q] \in {written[q], answered[q]}
    BY Zenon, RespondEffect
<1>4. Frames(q)
    BY Zenon, <1>1, <1>2, UnchangedIsFramed DEF Frames
<1>5. /\ written[q] = 0 /\ counted[q] = <<answered[q]>>
      /\ arrivals[q] = IF IsHealth(q) /\ counted[q] = <<>> THEN 0 ELSE 1
    BY Zenon, <1>1 DEF RequestInv, CountedOnce
<1>6. /\ ctx[q].key \in {NoRoute, due[q]}
      /\ ctx[q].class = 404 \/ answered[q] = 404 => due[q] = NoRoute
    BY Zenon DEF RequestInv, RoutedAsDue
<1>7. answered[q] \in {0, 404, 500, 503}
    BY DEF RequestTypes, Answers
<1>8. IsHealth(q)' <=> IsHealth(q)
    BY Zenon, <1>1 DEF IsHealth
<1>9. Untouched(q)'
    BY Zenon, <1>3 DEF Untouched
<1>10. RoutedAsDue(q)'
    BY Zenon, <1>1, <1>3, <1>6 DEF RoutedAsDue, Routing
<1>11. CreditedOnce(q)'
    BY Zenon, <1>1, CreditKept
<1>12. counted'[q] = <<answered[q]>> /\ arrivals'[q] = 1
    BY <1>1, <1>5
<1>13. CountedOnce(q)'
    BY <1>3, <1>5, <1>7, <1>8, <1>12 DEF CountedOnce, Routing
<1> QED BY Zenon, <1>4, <1>9, <1>10, <1>11, <1>13 DEF RequestInv

(* A request goes from one upstream callback to another, or to             *)
(* fail_to_proxy, classified at most as a failure of ours or of the        *)
(* upstream.                                                               *)
MoveFrames(q) ==
    /\ Framed(place, place', Places, q) /\ Framed(error, error', Sources, q)
    /\ Framed(ctx, ctx', Contexts, q)
Moves(q) ==
    /\ UNCHANGED <<host_routing, routes, request, answered, written, counted, arrivals, credited, due>>
    /\ place[q] \in Routing
    /\ place'[q] \in Routing \cup {"failing"}
    /\ place'[q] \in {"peer", "connecting"} => written[q] = 0
    /\ ctx'[q].key = ctx[q].key
    /\ ctx'[q].class \in {ctx[q].class, 500, 503}
    /\ ctx'[q].request_activity = ctx[q].request_activity
    /\ ctx'[q].response_activity = ctx[q].response_activity

(* Such a step keeps the invariant of its request, which is not counted    *)
(* yet if no header was written.                                           *)
LEMMA MovesKeeps ==
    ASSUME RequestTypes, NEW q \in Requests, RequestInv(q), MoveFrames(q), Moves(q)
    PROVE  Frames(q) /\ RequestInv(q)'
<1>1. /\ host_routing' = host_routing /\ routes' = routes /\ request' = request
      /\ answered' = answered /\ written' = written /\ counted' = counted
      /\ arrivals' = arrivals /\ credited' = credited /\ due' = due
    BY Zenon DEF Moves
<1>2. /\ place[q] \in Routing /\ place'[q] \in Routing \cup {"failing"}
      /\ place'[q] \in {"peer", "connecting"} => written[q] = 0
      /\ ctx'[q].key = ctx[q].key
      /\ ctx'[q].class \in {ctx[q].class, 500, 503}
    BY Zenon DEF Moves
<1>3. Frames(q)
    BY Zenon, <1>1, UnchangedIsFramed DEF Frames, MoveFrames
<1>4. /\ ctx[q].key \in {NoRoute, due[q]} /\ ctx[q].key = due[q] /\ ~IsHealth(q)
      /\ ctx[q].class = 404 \/ answered[q] = 404 => due[q] = NoRoute
    BY Zenon, <1>2 DEF RequestInv, RoutedAsDue
<1>5. /\ written[q] = 0 => counted[q] = <<>>
      /\ written[q] # 0 =>
            counted[q] = IF (IsHealth(q) /\ written[q] = 200) \/ written[q] = 101
                         THEN <<>> ELSE <<written[q]>>
    BY Zenon, <1>2 DEF RequestInv, CountedOnce
<1>6. arrivals[q] = IF IsHealth(q) /\ counted[q] = <<>> THEN 0 ELSE 1
    BY Zenon, <1>2 DEF RequestInv, CountedOnce, Routing
<1>7. ~IsHealth(q)'
    BY Zenon, <1>1, <1>4 DEF IsHealth
<1>8. Untouched(q)'
    BY Zenon, <1>2 DEF Untouched, Routing
<1>9. RoutedAsDue(q)'
    BY <1>1, <1>2, <1>4, <1>7 DEF RoutedAsDue
<1>10. CreditedOnce(q)'
    BY Zenon, <1>1, CreditKept DEF Moves
<1>11. CountedOnce(q)'
    BY SMTT(30), <1>1, <1>2, <1>4, <1>5, <1>6, <1>7 DEF CountedOnce, Routing
<1> QED BY Zenon, <1>3, <1>8, <1>9, <1>10, <1>11 DEF RequestInv

LEMMA ClassifiesAndFails ==
    ASSUME RequestTypes, NEW q \in Requests, NEW class \in {500, 503},
           NEW source \in Sources, Classifies(q, class), Fails(q, source),
           place[q] \in Routing,
           UNCHANGED <<host_routing, routes, request, answered, written, counted, arrivals, credited, due>>
    PROVE  MoveFrames(q) /\ Moves(q)
<1>1. class \in Answers
    BY DEF Answers
<1>2. /\ Framed(place, place', Places, q) /\ place'[q] = "failing"
      /\ Framed(error, error', Sources, q)
    BY FailsEffect
<1>3. /\ Framed(ctx, ctx', Contexts, q)
      /\ ctx'[q].key = ctx[q].key /\ ctx'[q].class = class
      /\ ctx'[q].request_activity = ctx[q].request_activity
      /\ ctx'[q].response_activity = ctx[q].response_activity
    BY <1>1, ClassifiedEffect
<1>4. MoveFrames(q)
    BY Zenon, <1>2, <1>3 DEF MoveFrames
<1> QED BY <1>2, <1>3, <1>4 DEF Moves

LEMMA UpstreamPeerKeeps ==
    ASSUME RequestTypes, NEW q \in Requests, RequestInv(q), UpstreamPeer(q)
    PROVE  Frames(q) /\ RequestInv(q)'
<1>1. /\ place[q] = "peer" /\ place[q] \in Routing
      /\ UNCHANGED <<host_routing, routes, request, answered, written, counted, arrivals, credited, due>>
    BY Zenon DEF UpstreamPeer, sharedVars, accountVars, Routing
<1>2. CASE At(q, "connecting") /\ UNCHANGED <<ctx, error>>
  <2>1. "connecting" \in Places /\ "connecting" \in Routing
    BY Zenon DEF Places, Routing
  <2>2. Framed(place, place', Places, q) /\ place'[q] = "connecting"
    BY Zenon, <1>2, <2>1, AtEffect
  <2>3. written[q] = 0
    BY Zenon, <1>1 DEF RequestInv, CountedOnce
  <2>4. MoveFrames(q)
    BY Zenon, <1>2, <2>2, UnchangedIsFramed DEF MoveFrames
  <2>5. Moves(q)
    BY Zenon, <1>1, <1>2, <2>1, <2>2, <2>3 DEF Moves
  <2> QED BY Zenon, <2>4, <2>5, MovesKeeps
<1>3. CASE Classifies(q, 503) /\ Fails(q, "upstream")
  <2>1. 503 \in {500, 503} /\ "upstream" \in Sources
    BY Zenon DEF Sources
  <2>2. MoveFrames(q) /\ Moves(q)
    BY <1>1, <1>3, <2>1, ClassifiesAndFails
  <2> QED BY Zenon, <2>2, MovesKeeps
<1>4. CASE Classifies(q, 500) /\ Fails(q, "internal")
  <2>1. 500 \in {500, 503} /\ "internal" \in Sources
    BY DEF Sources
  <2>2. MoveFrames(q) /\ Moves(q)
    BY <1>1, <1>4, <2>1, ClassifiesAndFails
  <2> QED BY Zenon, <2>2, MovesKeeps
<1> QED BY Zenon, <1>2, <1>3, <1>4 DEF UpstreamPeer, Classifies

LEMMA FailToConnectKeeps ==
    ASSUME RequestTypes, NEW q \in Requests, RequestInv(q), FailToConnect(q)
    PROVE  Frames(q) /\ RequestInv(q)'
<1>1. /\ place[q] \in Routing
      /\ UNCHANGED <<host_routing, routes, request, answered, written, counted, arrivals, credited, due>>
    BY Zenon DEF FailToConnect, sharedVars, accountVars, Routing
<1>2. /\ Classifies(q, 503) /\ Fails(q, "upstream")
      /\ 503 \in {500, 503} /\ "upstream" \in Sources
    BY ZenonT(30) DEF FailToConnect, Classifies, Sources
<1>3. MoveFrames(q) /\ Moves(q)
    BY <1>1, <1>2, ClassifiesAndFails
<1> QED BY Zenon, <1>3, MovesKeeps

LEMMA UpstreamRequestFilterKeeps ==
    ASSUME RequestTypes, NEW q \in Requests, RequestInv(q), UpstreamRequestFilter(q)
    PROVE  Frames(q) /\ RequestInv(q)'
<1>1. /\ place[q] \in Routing
      /\ UNCHANGED <<host_routing, routes, request, answered, written, counted, arrivals, credited, due>>
    BY Zenon DEF UpstreamRequestFilter, sharedVars, accountVars, Routing
<1>2. CASE At(q, "proxying") /\ UNCHANGED <<ctx, error>>
  <2>1. "proxying" \in Places /\ "proxying" \in Routing
    BY Zenon DEF Places, Routing
  <2>2. Framed(place, place', Places, q) /\ place'[q] = "proxying"
    BY Zenon, <1>2, <2>1, AtEffect
  <2>3. MoveFrames(q)
    BY Zenon, <1>2, <2>2, UnchangedIsFramed DEF MoveFrames
  <2>4. Moves(q)
    BY Zenon, <1>1, <1>2, <2>1, <2>2 DEF Moves
  <2> QED BY Zenon, <2>3, <2>4, MovesKeeps
<1>3. CASE Classifies(q, 500) /\ Fails(q, "internal")
  <2>1. 500 \in {500, 503} /\ "internal" \in Sources
    BY Zenon DEF Sources
  <2>2. MoveFrames(q) /\ Moves(q)
    BY <1>1, <1>3, <2>1, ClassifiesAndFails
  <2> QED BY Zenon, <2>2, MovesKeeps
<1> QED BY Zenon, <1>2, <1>3 DEF UpstreamRequestFilter, Classifies

(* A failure after the connection, with its retry while nothing was        *)
(* written.                                                                *)
LEMMA ErrorWhileProxyKeeps ==
    ASSUME RequestTypes, NEW q \in Requests, RequestInv(q), ErrorWhileProxy(q)
    PROVE  Frames(q) /\ RequestInv(q)'
<1>1. /\ place[q] \in Routing
      /\ UNCHANGED <<host_routing, routes, request, answered, written, counted, arrivals, credited, due>>
    BY Zenon DEF ErrorWhileProxy, sharedVars, accountVars, Routing
<1>2. PICK source \in {"client", "request", "upstream"} :
         /\ ctx' = [ctx EXCEPT ![q] = IF @.class = None /\ source = "upstream"
                                      THEN Classified(@, 503) ELSE @]
         /\ \/ Fails(q, source)
            \/ written[q] = 0 /\ At(q, "peer") /\ UNCHANGED error
    BY ZenonT(30) DEF ErrorWhileProxy
<1>3. /\ Framed(ctx, ctx', Contexts, q)
      /\ ctx'[q].key = ctx[q].key /\ ctx'[q].class \in {ctx[q].class, 500, 503}
      /\ ctx'[q].request_activity = ctx[q].request_activity
      /\ ctx'[q].response_activity = ctx[q].response_activity
  <2>1. CASE ctx[q].class = None /\ source = "upstream"
    <3>1. Classifies(q, 503) /\ 503 \in Answers
      BY <1>2, <2>1 DEF Classifies, Answers
    <3> QED BY <3>1, ClassifiedEffect
  <2>2. CASE ~(ctx[q].class = None /\ source = "upstream")
    <3>1. ctx[q] \in Contexts /\ ctx' = [ctx EXCEPT ![q] = ctx[q]]
      BY Zenon, <1>2, <2>2 DEF RequestTypes
    <3>2. Framed(ctx, ctx', Contexts, q) /\ ctx'[q] = ctx[q]
      BY Zenon, <3>1, ContextEffect
    <3> QED BY <3>2
  <2> QED BY Zenon, <2>1, <2>2
<1>4. CASE Fails(q, source)
  <2>1. source \in Sources
    BY Zenon DEF Sources
  <2>2. /\ Framed(place, place', Places, q) /\ place'[q] = "failing"
        /\ Framed(error, error', Sources, q)
    BY Zenon, <1>4, <2>1, FailsEffect
  <2>3. MoveFrames(q)
    BY Zenon, <1>3, <2>2 DEF MoveFrames
  <2>4. Moves(q)
    BY <1>1, <1>3, <2>2 DEF Moves
  <2> QED BY Zenon, <2>3, <2>4, MovesKeeps
<1>5. CASE written[q] = 0 /\ At(q, "peer") /\ UNCHANGED error
  <2>1. "peer" \in Places /\ "peer" \in Routing
    BY Zenon DEF Places, Routing
  <2>2. Framed(place, place', Places, q) /\ place'[q] = "peer"
    BY Zenon, <1>5, <2>1, AtEffect
  <2>3. Framed(error, error', Sources, q)
    BY Zenon, <1>5, UnchangedIsFramed
  <2>4. MoveFrames(q)
    BY Zenon, <1>3, <2>2, <2>3 DEF MoveFrames
  <2>5. Moves(q)
    BY <1>1, <1>3, <1>5, <2>1, <2>2 DEF Moves
  <2> QED BY Zenon, <2>4, <2>5, MovesKeeps
<1> QED BY Zenon, <1>2, <1>4, <1>5

(* Activity is published for a direction that had not been claimed.        *)
PublishFrames(q) ==
    /\ Framed(place, place', Places, q) /\ Framed(ctx, ctx', Contexts, q)
    /\ Framed(credited, credited', Seq(Seq(Tokens)), q)
Publishes(q) ==
    /\ UNCHANGED <<host_routing, routes, request, error, answered, written, counted, arrivals, due>>
    /\ place'[q] = place[q] \/ (place[q] = "logging" /\ place'[q] = "gone")
    /\ ctx'[q].key = ctx[q].key /\ ctx'[q].class = ctx[q].class
    /\ CreditedOnce(q)'

LEMMA PublishesKeeps ==
    ASSUME RequestTypes, NEW q \in Requests, RequestInv(q), PublishFrames(q), Publishes(q),
           place[q] \notin {"arriving", "absent"}
    PROVE  Frames(q) /\ RequestInv(q)'
<1>1. /\ host_routing' = host_routing /\ routes' = routes /\ request' = request
      /\ error' = error /\ answered' = answered /\ written' = written
      /\ counted' = counted /\ arrivals' = arrivals /\ due' = due
    BY Zenon DEF Publishes
<1>2. /\ place'[q] = place[q] \/ (place[q] = "logging" /\ place'[q] = "gone")
      /\ ctx'[q].key = ctx[q].key /\ ctx'[q].class = ctx[q].class
    BY Zenon DEF Publishes
<1>3. Frames(q)
    BY Zenon, <1>1, UnchangedIsFramed DEF Frames, PublishFrames
<1>4. IsHealth(q)' <=> IsHealth(q)
    BY Zenon, <1>1 DEF IsHealth
<1>5. Untouched(q)'
    BY Zenon, <1>2 DEF Untouched
<1>6. RoutedAsDue(q)'
  <2>1. RoutedAsDue(q)
    BY Zenon DEF RequestInv
  <2> QED BY <1>1, <1>2, <1>4, <2>1 DEF RoutedAsDue, Routing
<1>7. CreditedOnce(q)'
    BY Zenon DEF Publishes
<1>8. CountedOnce(q)'
  <2>1. CountedOnce(q)
    BY Zenon DEF RequestInv
  <2> QED BY Zenon, <1>1, <1>2, <1>4, <2>1 DEF CountedOnce, Routing
<1> QED BY Zenon, <1>3, <1>5, <1>6, <1>7, <1>8 DEF RequestInv

(* The account after the activity of a direction is published.             *)
LEMMA CreditAdded ==
    ASSUME RequestTypes, NEW q \in Requests, RequestInv(q),
           due'[q] = due[q], request' = request,
           Framed(credited, credited', Seq(Seq(Tokens)), q),
           \A i \in DOMAIN credited'[q] : credited'[q][i] = due[q],
           Len(credited'[q]) <= Len(credited[q]) + 1,
           \/ /\ ~ctx[q].request_activity /\ ctx'[q].request_activity
              /\ ctx'[q].response_activity = ctx[q].response_activity
           \/ /\ ~ctx[q].response_activity /\ ctx'[q].response_activity
              /\ ctx'[q].request_activity = ctx[q].request_activity
              /\ request[q].upgrade
    PROVE  CreditedOnce(q)'
<1>1. /\ Len(credited[q]) <= (IF ctx[q].request_activity THEN 1 ELSE 0)
                               + (IF ctx[q].response_activity THEN 1 ELSE 0)
      /\ ctx[q].response_activity => request[q].upgrade
    BY Zenon DEF RequestInv, CreditedOnce
<1>2. Len(credited[q]) \in Nat /\ Len(credited'[q]) \in Nat
  <2>1. credited[q] \in Seq(Seq(Tokens)) /\ credited'[q] \in Seq(Seq(Tokens))
    BY Zenon DEF RequestTypes, Framed
  <2> QED BY <2>1
<1>3. \A i \in DOMAIN credited'[q] : credited'[q][i] = due'[q]
    BY Zenon
<1>4. /\ Len(credited'[q]) <= (IF ctx'[q].request_activity THEN 1 ELSE 0)
                                + (IF ctx'[q].response_activity THEN 1 ELSE 0)
      /\ ctx'[q].response_activity => request'[q].upgrade
    BY <1>1, <1>2
<1> QED BY Zenon, <1>3, <1>4 DEF CreditedOnce

LEMMA RequestBodyFilterKeeps ==
    ASSUME RequestTypes, NEW q \in Requests, RequestInv(q), RequestBodyFilter(q)
    PROVE  Frames(q) /\ RequestInv(q)'
<1>1. /\ place[q] = "proxying" /\ ~ctx[q].request_activity
      /\ ctx' = [ctx EXCEPT ![q].request_activity = TRUE] /\ PublishActivity(q)
      /\ UNCHANGED <<host_routing, routes, request, place, error, answered, written, counted, arrivals, due>>
    BY Zenon DEF RequestBodyFilter, sharedVars
<1>2. Framed(place, place', Places, q)
    BY Zenon, <1>1, UnchangedIsFramed
<1>3. /\ Framed(ctx, ctx', Contexts, q)
      /\ ctx'[q].key = ctx[q].key /\ ctx'[q].class = ctx[q].class
      /\ ctx'[q].request_activity
      /\ ctx'[q].response_activity = ctx[q].response_activity
    BY Zenon, <1>1, RequestActivityEffect
<1>4. /\ Framed(credited, credited', Seq(Seq(Tokens)), q)
      /\ \A i \in DOMAIN credited'[q] : credited'[q][i] = due[q]
      /\ Len(credited'[q]) <= Len(credited[q]) + 1
    BY Zenon, <1>1, PublishEffect
<1>5. CreditedOnce(q)'
    BY Zenon, <1>1, <1>3, <1>4, CreditAdded
<1>6. PublishFrames(q) /\ Publishes(q)
    BY Zenon, <1>1, <1>2, <1>3, <1>4, <1>5 DEF PublishFrames, Publishes
<1> QED BY Zenon, <1>1, <1>6, PublishesKeeps

LEMMA UpstreamResponseBodyFilterKeeps ==
    ASSUME RequestTypes, NEW q \in Requests, RequestInv(q), UpstreamResponseBodyFilter(q)
    PROVE  Frames(q) /\ RequestInv(q)'
<1>1. /\ place[q] = "proxying" /\ ~ctx[q].response_activity /\ request[q].upgrade
      /\ ctx' = [ctx EXCEPT ![q].response_activity = TRUE] /\ PublishActivity(q)
      /\ UNCHANGED <<host_routing, routes, request, place, error, answered, written, counted, arrivals, due>>
    BY Zenon DEF UpstreamResponseBodyFilter, sharedVars
<1>2. Framed(place, place', Places, q)
    BY Zenon, <1>1, UnchangedIsFramed
<1>3. /\ Framed(ctx, ctx', Contexts, q)
      /\ ctx'[q].key = ctx[q].key /\ ctx'[q].class = ctx[q].class
      /\ ctx'[q].request_activity = ctx[q].request_activity
      /\ ctx'[q].response_activity
    BY Zenon, <1>1, ResponseActivityEffect
<1>4. /\ Framed(credited, credited', Seq(Seq(Tokens)), q)
      /\ \A i \in DOMAIN credited'[q] : credited'[q][i] = due[q]
      /\ Len(credited'[q]) <= Len(credited[q]) + 1
    BY Zenon, <1>1, PublishEffect
<1>5. CreditedOnce(q)'
    BY Zenon, <1>1, <1>3, <1>4, CreditAdded
<1>6. PublishFrames(q) /\ Publishes(q)
    BY Zenon, <1>1, <1>2, <1>3, <1>4, <1>5 DEF PublishFrames, Publishes
<1> QED BY Zenon, <1>1, <1>6, PublishesKeeps

(* The last callback, which may credit a response that was not streamed.   *)
LEMMA LoggingKeeps ==
    ASSUME RequestTypes, NEW q \in Requests, RequestInv(q), Logging(q)
    PROVE  Frames(q) /\ RequestInv(q)'
<1>1. /\ place[q] = "logging" /\ At(q, "gone") /\ "gone" \in Places
      /\ UNCHANGED <<host_routing, routes, request, error, answered, written, counted, arrivals, due>>
    BY Zenon DEF Logging, sharedVars, Places
<1>2. Framed(place, place', Places, q) /\ place'[q] = "gone"
    BY Zenon, <1>1, AtEffect
<1>3. CASE ctx' = ctx /\ credited' = credited
  <2>1. CreditedOnce(q)'
    BY Zenon, <1>1, <1>3, CreditKept
  <2>2. PublishFrames(q)
    BY Zenon, <1>2, <1>3, UnchangedIsFramed DEF PublishFrames
  <2>3. Publishes(q)
    BY Zenon, <1>1, <1>2, <1>3, <2>1 DEF Publishes
  <2> QED BY Zenon, <1>1, <2>2, <2>3, PublishesKeeps
<1>4. CASE /\ ~ctx[q].request_activity /\ PublishActivity(q)
           /\ ctx' = [ctx EXCEPT ![q].request_activity = TRUE]
  <2>1. /\ Framed(ctx, ctx', Contexts, q)
        /\ ctx'[q].key = ctx[q].key /\ ctx'[q].class = ctx[q].class
        /\ ctx'[q].request_activity
        /\ ctx'[q].response_activity = ctx[q].response_activity
    BY Zenon, <1>4, RequestActivityEffect
  <2>2. /\ Framed(credited, credited', Seq(Seq(Tokens)), q)
        /\ \A i \in DOMAIN credited'[q] : credited'[q][i] = due[q]
        /\ Len(credited'[q]) <= Len(credited[q]) + 1
    BY Zenon, <1>4, PublishEffect
  <2>3. CreditedOnce(q)'
    BY Zenon, <1>1, <1>4, <2>1, <2>2, CreditAdded
  <2>4. PublishFrames(q) /\ Publishes(q)
    BY ZenonT(30), <1>1, <1>2, <2>1, <2>2, <2>3 DEF PublishFrames, Publishes
  <2> QED BY Zenon, <1>1, <2>4, PublishesKeeps
<1> QED BY Zenon, <1>3, <1>4 DEF Logging

LEMMA CompletesKeeps ==
    ASSUME RequestTypes, NEW q \in Requests, RequestInv(q), Completes(q)
    PROVE  Frames(q) /\ RequestInv(q)'
<1>1. /\ place[q] = "proxying" /\ At(q, "logging") /\ "logging" \in Places
      /\ host_routing' = host_routing /\ routes' = routes /\ request' = request
      /\ ctx' = ctx /\ error' = error /\ answered' = answered /\ written' = written
      /\ counted' = counted /\ arrivals' = arrivals /\ credited' = credited /\ due' = due
    BY Zenon DEF Completes, sharedVars, accountVars, Places
<1>2. Framed(place, place', Places, q) /\ place'[q] = "logging"
    BY Zenon, <1>1, AtEffect
<1>3. Frames(q)
    BY Zenon, <1>1, <1>2, UnchangedIsFramed DEF Frames
<1>4. IsHealth(q)' <=> IsHealth(q)
    BY Zenon, <1>1 DEF IsHealth
<1>5. RoutedAsDue(q) /\ CountedOnce(q)
    BY Zenon DEF RequestInv
<1>6. Untouched(q)'
    BY Zenon, <1>2 DEF Untouched
<1>7. RoutedAsDue(q)'
    BY Zenon, <1>1, <1>2, <1>5 DEF RoutedAsDue, Routing
<1>8. CreditedOnce(q)'
    BY Zenon, <1>1, CreditKept
<1>9. CountedOnce(q)'
    BY Zenon, <1>1, <1>2, <1>4, <1>5 DEF CountedOnce, Routing
<1> QED BY Zenon, <1>3, <1>6, <1>7, <1>8, <1>9 DEF RequestInv

(* A proxied request to which no header was written is not counted yet.    *)
LEMMA UnansweredIs ==
    ASSUME NEW q \in Requests, RequestInv(q), written[q] = 0,
           place[q] = "proxying" \/ (place[q] = "failing" /\ error[q] # "client")
    PROVE  ~IsHealth(q) /\ counted[q] = <<>> /\ arrivals[q] = 1
<1>1. CASE place[q] = "proxying"
    BY Zenon, <1>1 DEF RequestInv, RoutedAsDue, CountedOnce, Routing
<1>2. CASE place[q] = "failing" /\ error[q] # "client"
    BY Zenon, <1>2 DEF RequestInv, CountedOnce
<1> QED BY Zenon, <1>1, <1>2

(* A header of the upstream: counted, and written unless the client left.  *)
HeaderEffect(q) ==
    \E status \in Statuses :
       /\ IF status = 101 THEN UNCHANGED counted ELSE Counts(q, status)
       /\ \/ written' = [written EXCEPT ![q] = status] /\ UNCHANGED <<place, error>>
          \/ Fails(q, "client") /\ UNCHANGED written

LEMMA HeaderKeepsCount ==
    ASSUME RequestTypes, NEW q \in Requests, counted[q] = <<>>, HeaderEffect(q)
    PROVE  /\ Framed(counted, counted', Seq(Nat), q) /\ Framed(place, place', Places, q)
           /\ Framed(written, written', Nat, q) /\ Framed(error, error', Sources, q)
           /\ \E status \in Statuses :
                 /\ counted'[q] = IF status = 101 THEN <<>> ELSE <<status>>
                 /\ \/ written'[q] = status /\ place'[q] = place[q]
                    \/ /\ written'[q] = written[q]
                       /\ place'[q] = "failing" /\ error'[q] = "client"
<1>1. PICK status \in Statuses :
         /\ IF status = 101 THEN UNCHANGED counted ELSE Counts(q, status)
         /\ \/ written' = [written EXCEPT ![q] = status] /\ UNCHANGED <<place, error>>
            \/ Fails(q, "client") /\ UNCHANGED written
    BY Zenon DEF HeaderEffect
<1>2. status \in Nat /\ "client" \in Sources
    BY DEF Statuses, Sources
<1>3. /\ Framed(counted, counted', Seq(Nat), q)
      /\ counted'[q] = IF status = 101 THEN <<>> ELSE <<status>>
  <2>1. CASE status = 101
    BY Zenon, <1>1, <2>1, UnchangedIsFramed
  <2>2. CASE status # 101
    <3>1. Counts(q, status)
      BY Zenon, <1>1, <2>2
    <3> QED BY Zenon, <1>2, <2>2, <3>1, CountsEffect
  <2> QED BY Zenon, <2>1, <2>2
<1>4. CASE written' = [written EXCEPT ![q] = status] /\ UNCHANGED <<place, error>>
  <2>1. Framed(written, written', Nat, q) /\ written'[q] = status
    BY Zenon, <1>2, <1>4, UpdateIsFramed DEF RequestTypes
  <2>2. Framed(place, place', Places, q) /\ Framed(error, error', Sources, q) /\ place'[q] = place[q]
    BY Zenon, <1>4, UnchangedIsFramed
  <2> QED BY Zenon, <1>3, <2>1, <2>2
<1>5. CASE Fails(q, "client") /\ UNCHANGED written
  <2>1. /\ Framed(place, place', Places, q) /\ place'[q] = "failing"
        /\ Framed(error, error', Sources, q) /\ error'[q] = "client"
    BY Zenon, <1>2, <1>5, FailsEffect
  <2>2. Framed(written, written', Nat, q) /\ written'[q] = written[q]
    BY Zenon, <1>5, UnchangedIsFramed
  <2> QED BY Zenon, <1>3, <2>1, <2>2
<1> QED BY Zenon, <1>1, <1>4, <1>5

(* An upstream header is counted once: 101 not at all.                     *)
LEMMA UpstreamResponseFilterKeeps ==
    ASSUME RequestTypes, NEW q \in Requests, RequestInv(q), UpstreamResponseFilter(q)
    PROVE  Frames(q) /\ RequestInv(q)'
<1>1. /\ place[q] = "proxying" /\ place[q] \in Routing /\ written[q] = 0
      /\ host_routing' = host_routing /\ routes' = routes /\ request' = request
      /\ answered' = answered /\ arrivals' = arrivals /\ credited' = credited /\ due' = due
    BY Zenon DEF UpstreamResponseFilter, sharedVars, Routing
<1>2. ~IsHealth(q) /\ counted[q] = <<>> /\ arrivals[q] = 1
    BY Zenon, <1>1, UnansweredIs
<1>3. CASE HeaderEffect(q) /\ UNCHANGED ctx
  <2>1. /\ Framed(counted, counted', Seq(Nat), q) /\ Framed(place, place', Places, q)
        /\ Framed(written, written', Nat, q) /\ Framed(error, error', Sources, q)
    BY Zenon, <1>2, <1>3, HeaderKeepsCount
  <2>2. PICK status \in Statuses :
           /\ counted'[q] = IF status = 101 THEN <<>> ELSE <<status>>
           /\ \/ written'[q] = status /\ place'[q] = place[q]
              \/ /\ written'[q] = written[q]
                 /\ place'[q] = "failing" /\ error'[q] = "client"
    BY Zenon, <1>2, <1>3, HeaderKeepsCount
  <2>3. Frames(q)
    BY Zenon, <1>1, <1>3, <2>1, UnchangedIsFramed DEF Frames
  <2>4. place'[q] \in {"proxying", "failing"}
    BY Zenon, <1>1, <2>2
  <2>5. RoutedAsDue(q)
    BY Zenon DEF RequestInv
  <2>6. ~IsHealth(q)' /\ arrivals'[q] = 1
    BY Zenon, <1>1, <1>2 DEF IsHealth
  <2>7. Untouched(q)'
    BY Zenon, <2>4 DEF Untouched
  <2>8. RoutedAsDue(q)'
    BY Zenon, <1>1, <1>3, <2>4, <2>5, <2>6 DEF RoutedAsDue, Routing
  <2>9. CreditedOnce(q)'
    BY Zenon, <1>1, <1>3, CreditKept
  <2>10. status \in {101, 200, 302}
    BY Zenon DEF Statuses
  <2>11. CountedOnce(q)'
    BY <1>1, <2>2, <2>6, <2>10 DEF CountedOnce, Routing
  <2> QED BY Zenon, <2>3, <2>7, <2>8, <2>9, <2>11 DEF RequestInv
<1>4. CASE Classifies(q, 500) /\ Fails(q, "internal") /\ UNCHANGED <<counted, written>>
  <2>1. 500 \in {500, 503} /\ "internal" \in Sources
    BY Zenon DEF Sources
  <2>2. UNCHANGED <<host_routing, routes, request, answered, written, counted, arrivals, credited, due>>
    BY Zenon, <1>1, <1>4
  <2>3. MoveFrames(q) /\ Moves(q)
    BY <1>1, <1>4, <2>1, <2>2, ClassifiesAndFails
  <2> QED BY Zenon, <2>3, MovesKeeps
<1>5. (HeaderEffect(q) /\ UNCHANGED ctx)
        \/ (Classifies(q, 500) /\ Fails(q, "internal") /\ UNCHANGED <<counted, written>>)
    BY Zenon DEF UpstreamResponseFilter, HeaderEffect, Classifies
<1> QED BY <1>3, <1>4, <1>5

(* fail_to_proxy answers with the class of the error: 404 only for one     *)
(* that was classified so.                                                 *)
LEMMA StatusIs ==
    ASSUME RequestTypes, NEW q \in Requests
    PROVE  Status(q) \in Answers /\ (Status(q) = 404 => ctx[q].class = 404)
<1>1. ctx[q].class \in Answers \cup {None}
    BY Zenon DEF RequestTypes, Contexts
<1> QED BY <1>1 DEF Status, Answers

LEMMA AnswerEffect ==
    ASSUME RequestTypes, NEW q \in Requests, FailToProxy(q), ~NothingToAnswer(q)
    PROVE  /\ Framed(place, place', Places, q) /\ Framed(counted, counted', Seq(Nat), q)
           /\ Framed(answered, answered', Answers \cup {0}, q)
           /\ Framed(written, written', Nat, q)
           /\ counted[q] = <<>> => counted'[q] = <<Status(q)>>
           /\ answered'[q] = Status(q)
           /\ \/ place'[q] = "logging" /\ written'[q] \in {written[q], Status(q)}
              \/ place'[q] = "rendering" /\ written'[q] = written[q]
<1>1. /\ Counts(q, Status(q)) /\ AnswersWith(q, Status(q))
      /\ Status(q) \in Answers /\ "logging" \in Places /\ "rendering" \in Places
    BY Zenon, StatusIs DEF FailToProxy, AnswersWith, Places
<1>2. Status(q) \in Nat
    BY <1>1 DEF Answers
<1>3. /\ Framed(counted, counted', Seq(Nat), q)
      /\ counted[q] = <<>> => counted'[q] = <<Status(q)>>
    BY Zenon, <1>1, <1>2, CountsEffect
<1>4. Framed(answered, answered', Answers \cup {0}, q) /\ answered'[q] = Status(q)
    BY Zenon, <1>1, AnsweredEffect
<1>5. CASE written' = [written EXCEPT ![q] = Status(q)] /\ At(q, "logging")
  <2>1. Framed(written, written', Nat, q) /\ written'[q] = Status(q)
    BY Zenon, <1>2, <1>5, UpdateIsFramed DEF RequestTypes
  <2>2. Framed(place, place', Places, q) /\ place'[q] = "logging"
    BY Zenon, <1>1, <1>5, AtEffect
  <2> QED BY Zenon, <1>3, <1>4, <2>1, <2>2
<1>6. CASE written' = written /\ At(q, "logging")
  <2>1. Framed(written, written', Nat, q) /\ written'[q] = written[q]
    BY Zenon, <1>6, UnchangedIsFramed
  <2>2. Framed(place, place', Places, q) /\ place'[q] = "logging"
    BY Zenon, <1>1, <1>6, AtEffect
  <2> QED BY Zenon, <1>3, <1>4, <2>1, <2>2
<1>7. CASE written' = written /\ At(q, "rendering")
  <2>1. Framed(written, written', Nat, q) /\ written'[q] = written[q]
    BY Zenon, <1>7, UnchangedIsFramed
  <2>2. Framed(place, place', Places, q) /\ place'[q] = "rendering"
    BY Zenon, <1>1, <1>7, AtEffect
  <2> QED BY Zenon, <1>3, <1>4, <2>1, <2>2
<1> QED BY Zenon, <1>5, <1>6, <1>7 DEF FailToProxy

(* fail_to_proxy counts only for a request that nobody has counted.        *)
LEMMA FailToProxyKeeps ==
    ASSUME RequestTypes, NEW q \in Requests, RequestInv(q), FailToProxy(q)
    PROVE  Frames(q) /\ RequestInv(q)'
<1>1. /\ place[q] = "failing"
      /\ host_routing' = host_routing /\ routes' = routes /\ request' = request
      /\ ctx' = ctx /\ error' = error /\ arrivals' = arrivals /\ credited' = credited /\ due' = due
    BY Zenon DEF FailToProxy, sharedVars
<1>2. RoutedAsDue(q) /\ CountedOnce(q)
    BY Zenon DEF RequestInv
<1>3. IsHealth(q)' <=> IsHealth(q)
    BY Zenon, <1>1 DEF IsHealth
<1>4. CreditedOnce(q)'
    BY Zenon, <1>1, CreditKept
<1>5. CASE NothingToAnswer(q)
  <2>1. At(q, "logging") /\ UNCHANGED <<counted, answered, written>> /\ "logging" \in Places
    BY Zenon, <1>5 DEF FailToProxy, Places
  <2>2. Framed(place, place', Places, q) /\ place'[q] = "logging"
    BY Zenon, <2>1, AtEffect
  <2>3. Frames(q)
    BY ZenonT(30), <1>1, <2>1, <2>2, UnchangedIsFramed DEF Frames
  <2>4. Untouched(q)'
    BY Zenon, <2>2 DEF Untouched
  <2>5. RoutedAsDue(q)'
    BY <1>1, <1>2, <2>1, <2>2 DEF RoutedAsDue, Routing
  <2>6. CountedOnce(q)'
    BY ZenonT(30), <1>1, <1>2, <1>3, <2>1, <2>2 DEF CountedOnce, Routing
  <2> QED BY Zenon, <1>4, <2>3, <2>4, <2>5, <2>6 DEF RequestInv
<1>6. CASE ~NothingToAnswer(q)
  <2>1. /\ Framed(place, place', Places, q) /\ Framed(counted, counted', Seq(Nat), q)
        /\ Framed(answered, answered', Answers \cup {0}, q)
        /\ Framed(written, written', Nat, q)
    BY Zenon, <1>6, AnswerEffect
  <2>2. written[q] = 0 /\ error[q] # "client"
    BY Zenon, <1>6 DEF NothingToAnswer
  <2>3. ~IsHealth(q) /\ counted[q] = <<>> /\ arrivals[q] = 1
    BY Zenon, <1>1, <2>2, UnansweredIs
  <2>4. /\ counted'[q] = <<Status(q)>> /\ answered'[q] = Status(q)
        /\ \/ place'[q] = "logging" /\ written'[q] \in {written[q], Status(q)}
           \/ place'[q] = "rendering" /\ written'[q] = written[q]
    BY Zenon, <1>6, <2>3, AnswerEffect
  <2>5. Frames(q)
    BY Zenon, <1>1, <2>1, UnchangedIsFramed DEF Frames
  <2>6. Status(q) \in {404, 500, 503} /\ (Status(q) = 404 => ctx[q].class = 404)
    BY StatusIs DEF Answers
  <2>7. place'[q] \in {"logging", "rendering"} /\ ~IsHealth(q)' /\ arrivals'[q] = 1
    BY Zenon, <1>1, <1>3, <2>3, <2>4
  <2>8. Untouched(q)'
    BY Zenon, <2>7 DEF Untouched
  <2>9. RoutedAsDue(q)'
    BY <1>1, <1>2, <2>4, <2>6, <2>7 DEF RoutedAsDue, Routing
  <2>10. CountedOnce(q)'
    BY <2>2, <2>4, <2>6, <2>7 DEF CountedOnce, Routing
  <2> QED BY Zenon, <1>4, <2>5, <2>8, <2>9, <2>10 DEF RequestInv
<1> QED BY Zenon, <1>5, <1>6

-----------------------------------------------------------------------------
(* Every step keeps the invariant of every request.                        *)

LEMMA CallbackKeeps ==
    ASSUME RequestTypes, NEW q \in Requests, RequestInv(q), ProxyStep(q), ~StartRender(q)
    PROVE  Frames(q) /\ RequestInv(q)'
  BY ZenonT(30), RefuseKeeps, SendHealthKeeps, RouteForRequestKeeps, RespondKeeps, UpstreamPeerKeeps,
     FailToConnectKeeps, UpstreamRequestFilterKeeps, RequestBodyFilterKeeps,
     UpstreamResponseFilterKeeps, UpstreamResponseBodyFilterKeeps, ErrorWhileProxyKeeps,
     CompletesKeeps, FailToProxyKeeps, LoggingKeeps
     DEF ProxyStep

requestVars == <<request, place, ctx, error, answered, written, counted, arrivals, credited, due>>

LEMMA RequestsUntouched ==
    ASSUME ProxyInv, host_routing' = host_routing, routes' \in Seq(Range(KeyOrder)),
           UNCHANGED requestVars
    PROVE  ProxyInv'
<1>1. RequestTypes'
    BY Zenon DEF ProxyInv, RequestTypes, requestVars
<1>2. ASSUME NEW r \in Requests PROVE RequestInv(r)'
  <2>1. RequestInv(r)
    BY Zenon DEF ProxyInv
  <2>2. Untouched(r)' /\ RoutedAsDue(r)' /\ CreditedOnce(r)' /\ CountedOnce(r)'
    BY ZenonT(30), <2>1 DEF RequestInv, Untouched, RoutedAsDue, CreditedOnce, CountedOnce, IsHealth, requestVars
  <2> QED BY Zenon, <2>2 DEF RequestInv
<1> QED BY Zenon, <1>1, <1>2 DEF ProxyInv

(* The invariant holds at first.                                           *)
LEMMA ProxyInit == PublicInit => ProxyInv
<1> SUFFICES ASSUME PublicInit PROVE ProxyInv
    BY Zenon
<1>1. RequestTypes
  <2>1. PICK keys \in SUBSET Range(KeyOrder) : routes = Retain(KeyOrder, keys)
    BY Zenon DEF PublicInit
  <2>2. routes \in Seq(Range(KeyOrder))
    BY Zenon, <2>1, RetainType, ProxyAssumption
  <2>3. host_routing \in BOOLEAN /\ request \in [Requests -> [path : Paths, host : Hosts, upgrade : BOOLEAN]]
    BY Zenon DEF PublicInit
  <2>4. place \in [Requests -> Places]
    BY Zenon DEF PublicInit, Places
  <2>5. ctx \in [Requests -> Contexts]
    BY Zenon, TokensAre DEF PublicInit, Contexts
  <2>6. error \in [Requests -> Sources] /\ answered \in [Requests -> Answers \cup {0}]
    BY Zenon DEF PublicInit, Sources
  <2>7. /\ written \in [Requests -> Nat] /\ counted \in [Requests -> Seq(Nat)]
        /\ arrivals \in [Requests -> Nat] /\ credited \in [Requests -> Seq(Seq(Tokens))]
    BY DEF PublicInit
  <2>8. due \in [Requests -> Seq(Tokens)]
    BY Zenon, TokensAre DEF PublicInit
  <2> QED BY Zenon, <2>2, <2>3, <2>4, <2>5, <2>6, <2>7, <2>8 DEF RequestTypes
<1>2. ASSUME NEW r \in Requests PROVE RequestInv(r)
  <2>1. /\ place[r] \in {"arriving", "absent"} /\ ctx[r].key = NoRoute /\ due[r] = NoRoute
        /\ ctx[r].class = None /\ ~ctx[r].request_activity /\ ~ctx[r].response_activity
        /\ answered[r] = 0 /\ written[r] = 0
        /\ counted[r] = <<>> /\ arrivals[r] = 0 /\ credited[r] = <<>>
    BY Zenon DEF PublicInit
  <2>2. Untouched(r)
    BY Zenon, <2>1 DEF Untouched
  <2>3. RoutedAsDue(r)
    BY Zenon, <2>1 DEF RoutedAsDue, Routing
  <2>4. CreditedOnce(r)
    BY <2>1 DEF CreditedOnce
  <2>5. CountedOnce(r)
    BY Zenon, <2>1 DEF CountedOnce, Routing
  <2> QED BY Zenon, <2>2, <2>3, <2>4, <2>5 DEF RequestInv
<1> QED BY Zenon, <1>1, <1>2 DEF ProxyInv

LEMMA ProxyNext == ProxyInv /\ [PublicNext]_publicVars => ProxyInv'
<1> SUFFICES ASSUME ProxyInv, [PublicNext]_publicVars PROVE ProxyInv'
    BY Zenon
<1>1. RequestTypes /\ routes \in Seq(Range(KeyOrder))
    BY Zenon DEF ProxyInv, RequestTypes
<1>2. ASSUME UNCHANGED proxyVars PROVE ProxyInv'
  <2>1. host_routing' = host_routing /\ routes' = routes /\ UNCHANGED requestVars
    BY Zenon, <1>2 DEF proxyVars, sharedVars, accountVars, requestVars
  <2> QED BY Zenon, <1>1, <2>1, RequestsUntouched
<1>3. ASSUME NEW q \in Requests, ProxyStep(q) PROVE ProxyInv'
  <2>1. CASE StartRender(q)
    BY Zenon, <1>2, <2>1 DEF StartRender
  <2>2. CASE ~StartRender(q)
    <3>1. Frames(q) /\ RequestInv(q)'
      BY Zenon, <1>1, <1>3, <2>2, CallbackKeeps DEF ProxyInv
    <3>2. RequestTypes'
      BY Zenon, <1>1, <3>1, FramesKeepTypes
    <3>3. ASSUME NEW r \in Requests PROVE RequestInv(r)'
      <4>1. CASE r = q
        BY Zenon, <3>1, <4>1
      <4>2. CASE r # q
        BY Zenon, <3>1, <4>2, FramesKeepOthers DEF ProxyInv
      <4> QED BY Zenon, <4>1, <4>2
    <3> QED BY Zenon, <3>2, <3>3 DEF ProxyInv
  <2> QED BY Zenon, <2>1, <2>2
<1>4. ASSUME Event, routes' \in Seq(Range(KeyOrder)) PROVE ProxyInv'
  <2>1. host_routing' = host_routing /\ UNCHANGED requestVars
    BY Zenon, <1>4 DEF Event, accountVars, requestVars
  <2> QED BY Zenon, <1>4, <2>1, RequestsUntouched
<1>5. ASSUME NEW key \in Range(KeyOrder), ReplaceRoute(key) \/ RemoveRoute(key) PROVE ProxyInv'
  <2>1. RemoveKey(routes, key) \in Seq(Range(KeyOrder))
    BY Zenon, <1>1, RetainType DEF RemoveKey
  <2>2. Replace(routes, key) \in Seq(Range(KeyOrder))
    BY <2>1 DEF Replace
  <2> QED BY Zenon, <1>4, <1>5, <2>1, <2>2 DEF ReplaceRoute, RemoveRoute
<1>6. ASSUME BecomesIndeterminate \/ AcceptsStop PROVE ProxyInv'
    BY Zenon, <1>1, <1>4, <1>6 DEF BecomesIndeterminate, AcceptsStop
<1>7. CASE UNCHANGED publicVars
    BY Zenon, <1>2, <1>7 DEF publicVars
<1> QED BY Zenon, <1>2, <1>3, <1>5, <1>6, <1>7 DEF PublicNext

(* The inductive invariant of the public requests: whatever the upstream,  *)
(* the client, retries, failures, mutations of the table and renderings    *)
(* do, and in whatever order, each request is routed as due, credited once *)
(* per direction and counted at most once.                                 *)
THEOREM ProxyInvariant == PublicSpec => []ProxyInv
  BY ProxyInit, ProxyNext, PTL DEF PublicSpec

(* What the invariant says of a request is what RequestAccounted asks.     *)
LEMMA ProxyInvAccounts == ProxyInv => RequestAccounted
<1> SUFFICES ASSUME ProxyInv, NEW r \in Requests
             PROVE  /\ ctx[r].key \in {NoRoute, due[r]}
                    /\ place[r] \in {"peer", "connecting", "proxying"} => ctx[r].key = due[r]
                    /\ answered[r] = 404 => due[r] = NoRoute
                    /\ \A i \in DOMAIN credited[r] : credited[r][i] = due[r]
                    /\ Len(credited[r]) <= IF request[r].upgrade THEN 2 ELSE 1
                    /\ written[r] # 0 =>
                          counted[r] = IF (IsHealth(r) /\ written[r] = 200) \/ written[r] = 101
                                       THEN <<>> ELSE <<written[r]>>
                    /\ place[r] = "gone" =>
                          arrivals[r] = IF IsHealth(r) /\ counted[r] = <<>> THEN 0 ELSE 1
    BY Zenon DEF RequestAccounted
<1>1. RequestTypes /\ RequestInv(r)
    BY Zenon DEF ProxyInv
<1>2. /\ ctx[r].key \in {NoRoute, due[r]}
      /\ place[r] \in {"peer", "connecting", "proxying"} => ctx[r].key = due[r]
      /\ answered[r] = 404 => due[r] = NoRoute
    BY <1>1 DEF RequestInv, RoutedAsDue, Routing
<1>3. \A i \in DOMAIN credited[r] : credited[r][i] = due[r]
    BY Zenon, <1>1 DEF RequestInv, CreditedOnce
<1>4. Len(credited[r]) <= IF request[r].upgrade THEN 2 ELSE 1
  <2>1. credited[r] \in Seq(Seq(Tokens))
    BY Zenon, <1>1 DEF RequestTypes
  <2>2. Len(credited[r]) \in Nat
    BY <2>1
  <2>3. /\ Len(credited[r]) <= (IF ctx[r].request_activity THEN 1 ELSE 0)
                                 + (IF ctx[r].response_activity THEN 1 ELSE 0)
        /\ ctx[r].response_activity => request[r].upgrade
    BY Zenon, <1>1 DEF RequestInv, CreditedOnce
  <2> QED BY <2>2, <2>3
<1>5. /\ written[r] # 0 =>
            counted[r] = IF (IsHealth(r) /\ written[r] = 200) \/ written[r] = 101
                         THEN <<>> ELSE <<written[r]>>
      /\ place[r] = "gone" => arrivals[r] = IF IsHealth(r) /\ counted[r] = <<>> THEN 0 ELSE 1
    BY Zenon, <1>1 DEF RequestInv, CountedOnce
<1> QED BY Zenon, <1>2, <1>3, <1>4, <1>5

(* Every request is answered as it was routed and accounted for once, for  *)
(* any number of requests, any table, any paths and hosts, and any number  *)
(* of retries and events: proxied and credited to no route but the deepest *)
(* one at its lookup, missed only when there is none, and a response the   *)
(* client received counted once with its status.                           *)
THEOREM RequestsAreAccounted == PublicSpec => []RequestAccounted
  BY ProxyInvariant, ProxyInvAccounts, PTL
=============================================================================
