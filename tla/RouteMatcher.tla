---------------------------- MODULE RouteMatcher ----------------------------
(***************************************************************************)
(* Route keys and the matcher: RouteKey of src/src/route.rs, OrderedRoutes,*)
(* RouteSnapshot and its trie of src/src/route_table.rs, percent_decode of *)
(* src/src/proxy.rs.  A key or a path is a sequence of tokens: "/", the    *)
(* escapes "%2F" and "%", and names.  The data of a route is not looked    *)
(* at here: a route is its key.                                            *)
(***************************************************************************)
EXTENDS Sequences, FiniteSetsExt

NoRoute == <<"no route">>  \* None of Option<RouteMatch>
Undecodable == <<"not decodable">>
EmptySegment == ""

Front(tokens) == SubSeq(tokens, 1, Len(tokens) - 1)
Prefixes(segments) == {SubSeq(segments, 1, n) : n \in 0..Len(segments)}

(* RouteKey::normalize: one slash in front, one taken off the end.         *)
Normalize(input) ==
    LET rooted == IF input = <<>> \/ Head(input) # "/" THEN <<"/">> \o input ELSE input
    IN  IF Len(rooted) > 1 /\ rooted[Len(rooted)] = "/" THEN Front(rooted) ELSE rooted

(* percent_decode: an escaped slash becomes a slash, a truncated escape    *)
(* is refused.                                                             *)
PercentDecode(path) ==
    IF "%" \in Range(path) THEN Undecodable
    ELSE [i \in DOMAIN path |-> IF path[i] = "%2F" THEN "/" ELSE path[i]]

(* segments: trim every slash at both ends, split at the others.           *)
TrimMatches(path) ==
    LET named == {i \in DOMAIN path : path[i] # "/"}
    IN  IF named = {} THEN <<>> ELSE SubSeq(path, Min(named), Max(named))

Split(tokens) ==
    LET pieces[i \in 0..Len(tokens)] ==
            IF i = 0 THEN <<EmptySegment>>
            ELSE IF tokens[i] = "/" THEN Append(pieces[i - 1], EmptySegment)
            ELSE Append(Front(pieces[i - 1]), tokens[i])
    IN  pieces[Len(tokens)]

Segments(path) ==
    LET trimmed == TrimMatches(path)
    IN  IF trimmed = <<>> THEN <<>> ELSE Split(trimmed)

(***************************************************************************)
(* OrderedRoutes: the keys in the order of their last mutation.            *)
(***************************************************************************)
Retain(routes, keys) ==
    LET kept[i \in 0..Len(routes)] ==
            IF i = 0 THEN <<>>
            ELSE IF routes[i] \in keys THEN Append(kept[i - 1], routes[i])
            ELSE kept[i - 1]
    IN  kept[Len(routes)]

RemoveKey(routes, key) == Retain(routes, Range(routes) \ {key})

Replace(routes, key) == Append(RemoveKey(routes, key), key)

(***************************************************************************)
(* The trie: a node is the sequence of segments that leads to it; it       *)
(* exists when some key goes through it.                                   *)
(***************************************************************************)
EmptyTrie == [nodes |-> {<<>>}, route |-> [n \in {<<>>} |-> NoRoute]]

AddToTrie(trie, key) ==
    LET node == Segments(key)
        nodes == trie.nodes \cup Prefixes(node)
        route == [n \in nodes |-> IF n \in trie.nodes THEN trie.route[n] ELSE NoRoute]
    IN  [nodes |-> nodes, route |-> [route EXCEPT ![node] = key]]

(* The trie after each number of routes.                                   *)
Tries(routes) ==
    LET trie[i \in 0..Len(routes)] ==
            IF i = 0 THEN EmptyTrie ELSE AddToTrie(trie[i - 1], routes[i])
    IN  trie

FromOrderedRoutes(routes) == Tries(routes)[Len(routes)]

(* resolve: walk down while there is a child, remember the last route.     *)
Matched(old, new) == IF new # NoRoute THEN new ELSE old

Descend(trie, walk, segment) ==
    LET child == Append(walk.node, segment)
    IN  IF walk.stopped \/ child \notin trie.nodes
        THEN [node |-> walk.node, matched |-> walk.matched, stopped |-> TRUE]
        ELSE [node |-> child, matched |-> Matched(walk.matched, trie.route[child]),
              stopped |-> FALSE]

Walk(trie, segments) ==
    LET walk[i \in 0..Len(segments)] ==
            IF i = 0 THEN [node |-> <<>>, matched |-> trie.route[<<>>], stopped |-> FALSE]
            ELSE Descend(trie, walk[i - 1], segments[i])
    IN  walk

Resolve(routes, path) ==
    Walk(FromOrderedRoutes(routes), Segments(path))[Len(Segments(path))].matched

(***************************************************************************)
(* What resolve promises, without a trie: of the keys whose segments start *)
(* the path, the longest; of those that spell the same segments, the one   *)
(* mutated last.                                                           *)
(***************************************************************************)
DeepestRoute(routes, path) ==
    LET matching == {i \in DOMAIN routes : Segments(routes[i]) \in Prefixes(Segments(path))}
        depth == Max({Len(Segments(routes[i])) : i \in matching})
    IN  IF matching = {} THEN NoRoute
        ELSE routes[Max({i \in matching : Len(Segments(routes[i])) = depth})]
=============================================================================
