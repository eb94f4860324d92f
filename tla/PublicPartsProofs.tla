-------------------------- MODULE PublicPartsProofs --------------------------
(***************************************************************************)
(* Proofs about the parts a public request is made of: the matcher         *)
(* (RouteMatcher), for any table, any path and any tokens; the resolver of *)
(* the custom error page (ErrorResolver), for any set of requests, any     *)
(* queue capacity and any number of lookups, also when it is PublicProxy   *)
(* that uses it; and what the pieces of the callbacks of PublicProxy do,   *)
(* with the inductive invariant PublicProxyProofs proves.                  *)
(***************************************************************************)
EXTENDS PublicProxy, WellFoundedInduction, TLAPS

(* A set of numbers that is not empty has a least member.                  *)
LEMMA LeastExists ==
    ASSUME NEW S, S \subseteq Nat, S # {}
    PROVE  \E i \in S : \A j \in S : i <= j
<1> DEFINE R == OpToRel(<, Nat)
<1>1. IsWellFoundedOn(R, Nat)
    BY Zenon, NatLessThanWellFounded
<1>2. \A x, y \in Nat : <<y, x>> \in R <=> y < x
    BY Zenon DEF OpToRel
<1> HIDE DEF R
<1>3. PICK x \in S : \A y \in S : ~ (<<y, x>> \in R)
    BY Zenon, <1>1, WFMin
<1>4. \A y \in S : x \in Nat /\ y \in Nat /\ ~ (y < x)
    BY Zenon, <1>2, <1>3
<1> QED BY <1>3, <1>4

(* What holds of 0 and is handed on from i - 1 to i holds up to n.         *)
LEMMA UpTo ==
    ASSUME NEW n \in Nat, NEW S, 0 \in S, \A i \in 1..n : i - 1 \in S => i \in S
    PROVE  0..n \subseteq S
<1> SUFFICES ASSUME ~(0..n \subseteq S) PROVE FALSE
    BY Zenon
<1> DEFINE C == (0..n) \ S
<1>1. C \subseteq Nat /\ C # {}
    OBVIOUS
<1>2. PICK i \in C : \A j \in C : i <= j
    BY Zenon, <1>1, LeastExists
<1>3. i \in 1..n /\ i - 1 \in 0..n /\ i - 1 \notin C
    BY <1>2
<1> QED BY Zenon, <1>2, <1>3

(* Max and Min are what their names say, on bounded sets of numbers.       *)
LEMMA MaxIs ==
    ASSUME NEW S, S \subseteq Nat, S # {}, NEW n \in Nat, \A x \in S : x <= n
    PROVE  Max(S) \in S /\ \A y \in S : y <= Max(S)
<1> DEFINE D == {n - x : x \in S}
<1>1. D \subseteq Nat /\ D # {}
  <2>1. \A x \in S : n - x \in Nat
    OBVIOUS
  <2> QED BY Zenon, <2>1
<1>2. PICK d \in D : \A j \in D : d <= j
    BY Zenon, <1>1, LeastExists
<1>3. PICK x \in S : d = n - x
    BY Zenon, <1>2
<1>4. ASSUME NEW y \in S PROVE x >= y
  <2>1. n - y \in D /\ d <= n - y
    BY Zenon, <1>2
  <2> QED BY <1>3, <2>1
<1>5. Max(S) \in S /\ \A y \in S : Max(S) >= y
    BY Zenon, <1>4 DEF Max
<1> QED BY Zenon, <1>5

LEMMA MinIs ==
    ASSUME NEW S, S \subseteq Nat, S # {}
    PROVE  Min(S) \in S /\ \A y \in S : Min(S) <= y
  BY Zenon, LeastExists DEF Min

(* The runs of a loop of n turns that starts with a and takes x to         *)
(* g[i][x] in its i-th turn.  There is one.                                *)
Runs(T, a, g, n) ==
    {f \in [0..n -> T] : f[0] = a /\ \A i \in 1..n : f[i] = g[i][f[i - 1]]}

LEMMA Iteration ==
    ASSUME NEW T, NEW n \in Nat, NEW a \in T, NEW g \in [1..n -> [T -> T]]
    PROVE  Runs(T, a, g, n) # {}
<1> DEFINE S == {m \in 0..n : Runs(T, a, g, m) # {}}
<1>1. 0 \in S
  <2>1. [i \in 0..0 |-> a] \in Runs(T, a, g, 0)
    BY DEF Runs
  <2> QED BY <2>1
<1>2. ASSUME NEW m \in 1..n, m - 1 \in S PROVE m \in S
  <2>1. PICK f \in Runs(T, a, g, m - 1) : TRUE
    BY Zenon, <1>2
  <2> DEFINE h == [i \in 0..m |-> IF i = m THEN g[m][f[m - 1]] ELSE f[i]]
  <2>2. f \in [0..(m - 1) -> T] /\ m - 1 \in 0..(m - 1) /\ f[m - 1] \in T /\ g[m][f[m - 1]] \in T
    BY <2>1 DEF Runs
  <2>3. h \in [0..m -> T] /\ h[0] = a
    BY <2>1, <2>2 DEF Runs
  <2>4. ASSUME NEW i \in 1..m PROVE h[i] = g[i][h[i - 1]]
    <3>1. CASE i = m
        BY <3>1, <2>2
    <3>2. CASE i # m
      <4>1. i \in 1..(m - 1) /\ i - 1 \in 0..(m - 1) /\ i - 1 # m
        BY <3>2
      <4> QED BY <4>1, <2>1 DEF Runs
    <3> QED BY Zenon, <3>1, <3>2
  <2>5. h \in Runs(T, a, g, m)
    BY Zenon, <2>3, <2>4 DEF Runs
  <2> HIDE DEF h
  <2> QED BY <2>5
<1> HIDE DEF S
<1>3. 0..n \subseteq S
    BY Zenon, <1>1, <1>2, UpTo
<1>4. n \in S
    BY <1>3
<1> QED BY Zenon, <1>4 DEF S

(* Segments of a path over a set of tokens, and what Retain keeps of a     *)
(* table, are made of what they were given: the recursive functions of     *)
(* RouteMatcher exist, and stay within their types turn by turn.           *)
LEMMA SplitType ==
    ASSUME NEW Tok, EmptySegment \in Tok, NEW tokens \in Seq(Tok)
    PROVE  Split(tokens) \in Seq(Tok)
<1> DEFINE n == Len(tokens)
           T == Seq(Tok) \ {<<>>}
           next(i, x) == IF tokens[i] = "/" THEN Append(x, EmptySegment) ELSE Append(Front(x), tokens[i])
           Eq(f) == f = [i \in 0..n |-> IF i = 0 THEN <<EmptySegment>> ELSE next(i, f[i - 1])]
           P == CHOOSE f : Eq(f)
           g == [i \in 1..n |-> [x \in T |-> next(i, x)]]
<1>1. Split(tokens) = P[n]
    BY Zenon DEF Split
<1>2. n \in Nat
    OBVIOUS
<1>3. <<EmptySegment>> \in T
  <2>1. Len(<<EmptySegment>>) = 1 /\ <<EmptySegment>> \in Seq(Tok)
    OBVIOUS
  <2> QED BY Zenon, <2>1
<1>4. ASSUME NEW i \in 1..n, NEW x \in T PROVE next(i, x) \in T
  <2>1. Front(x) \in Seq(Tok) /\ tokens[i] \in Tok
    BY DEF Front
  <2>2. ASSUME NEW y \in Seq(Tok), NEW t \in Tok PROVE Append(y, t) \in T
    <3>1. Append(y, t) \in Seq(Tok) /\ Len(Append(y, t)) = Len(y) + 1 /\ Len(y) \in Nat
      OBVIOUS
    <3>2. Len(Append(y, t)) # 0
      BY <3>1
    <3> QED BY <3>1, <3>2
  <2> QED BY Zenon, <2>1, <2>2
<1> HIDE DEF next, T, n
<1>5. g \in [1..n -> [T -> T]]
    BY Zenon, <1>4
<1>6. PICK f \in [0..n -> T] : f[0] = <<EmptySegment>> /\ \A i \in 1..n : f[i] = g[i][f[i - 1]]
  <2> DEFINE a == <<EmptySegment>>
  <2>1. a \in T
    BY Zenon, <1>3
  <2> HIDE DEF g, a
  <2>2. Runs(T, a, g, n) # {}
    BY Zenon, <1>2, <2>1, <1>5, Iteration
  <2> QED BY Zenon, <2>2 DEF a, Runs
<1>7. ASSUME NEW i \in 1..n PROVE i - 1 \in 0..n /\ f[i] = next(i, f[i - 1])
  <2>1. i - 1 \in 0..n
    BY <1>2
  <2> QED BY Zenon, <2>1, <1>6
<1>8. Eq(f)
  <2>1. ASSUME NEW i \in 0..n
        PROVE  f[i] = IF i = 0 THEN <<EmptySegment>> ELSE next(i, f[i - 1])
    <3>1. i = 0 \/ i \in 1..n
      BY <1>2
    <3> QED BY Zenon, <3>1, <1>6, <1>7
  <2> QED BY Zenon, <1>6, <2>1
<1>9. Eq(P)
    BY Zenon, <1>8
<1> DEFINE S == {i \in 0..n : P[i] \in T}
<1> HIDE DEF P
<1>10. 0 \in S
    BY <1>2, <1>3, <1>9
<1>11. \A i \in 1..n : i - 1 \in S => i \in S
    BY <1>2, <1>4, <1>9
<1> HIDE DEF S
<1>12. 0..n \subseteq S
    BY Zenon, <1>2, <1>10, <1>11, UpTo
<1>13. P[n] \in T
    BY <1>2, <1>12 DEF S
<1> QED BY Zenon, <1>1, <1>13 DEF T

LEMMA SegmentsType ==
    ASSUME NEW Tok, EmptySegment \in Tok, NEW path \in Seq(Tok)
    PROVE  Segments(path) \in Seq(Tok)
<1> DEFINE named == {i \in DOMAIN path : path[i] # "/"}
<1>1. TrimMatches(path) \in Seq(Tok)
  <2>1. CASE named = {}
    BY <2>1 DEF TrimMatches
  <2>2. CASE named # {}
    <3>1. named \subseteq Nat /\ Len(path) \in Nat /\ \A i \in named : i <= Len(path)
      OBVIOUS
    <3> HIDE DEF named
    <3>2. Min(named) \in named /\ Max(named) \in named
      BY Zenon, <2>2, <3>1, MinIs, MaxIs
    <3>3. Min(named) \in 1..Len(path) /\ Max(named) \in 1..Len(path)
      BY <3>2 DEF named
    <3>4. SubSeq(path, Min(named), Max(named)) \in Seq(Tok)
      BY <3>3
    <3> QED BY Zenon, <2>2, <3>4 DEF TrimMatches, named
  <2> QED BY Zenon, <2>1, <2>2
<1>2. TrimMatches(path) = <<>> => Segments(path) = <<>>
    BY Zenon DEF Segments
<1>3. TrimMatches(path) # <<>> => Segments(path) = Split(TrimMatches(path))
    BY Zenon DEF Segments
<1>4. Split(TrimMatches(path)) \in Seq(Tok) /\ <<>> \in Seq(Tok)
    BY <1>1, SplitType
<1> QED BY Zenon, <1>2, <1>3, <1>4

LEMMA RetainType ==
    ASSUME NEW K, NEW table \in Seq(K), NEW keys
    PROVE  Retain(table, keys) \in Seq(K)
<1> DEFINE n == Len(table)
           T == Seq(K)
           next(i, x) == IF table[i] \in keys THEN Append(x, table[i]) ELSE x
           Eq(f) == f = [i \in 0..n |-> IF i = 0 THEN <<>> ELSE next(i, f[i - 1])]
           P == CHOOSE f : Eq(f)
           g == [i \in 1..n |-> [x \in T |-> next(i, x)]]
<1>1. Retain(table, keys) = P[n]
    BY Zenon DEF Retain
<1>2. n \in Nat
    OBVIOUS
<1>3. <<>> \in T
    OBVIOUS
<1>4. ASSUME NEW i \in 1..n, NEW x \in T PROVE next(i, x) \in T
    OBVIOUS
<1> HIDE DEF next, T, n
<1>5. g \in [1..n -> [T -> T]]
    BY Zenon, <1>4
<1>6. PICK f \in [0..n -> T] : f[0] = <<>> /\ \A i \in 1..n : f[i] = g[i][f[i - 1]]
  <2> HIDE DEF g
  <2>1. Runs(T, <<>>, g, n) # {}
    BY Zenon, <1>2, <1>3, <1>5, Iteration
  <2> QED BY Zenon, <2>1 DEF Runs
<1>7. ASSUME NEW i \in 1..n PROVE i - 1 \in 0..n /\ f[i] = next(i, f[i - 1])
  <2>1. i - 1 \in 0..n
    BY <1>2
  <2> QED BY Zenon, <2>1, <1>6
<1>8. Eq(f)
  <2>1. ASSUME NEW i \in 0..n PROVE f[i] = IF i = 0 THEN <<>> ELSE next(i, f[i - 1])
    <3>1. i = 0 \/ i \in 1..n
      BY <1>2
    <3> QED BY Zenon, <3>1, <1>6, <1>7
  <2> QED BY Zenon, <1>6, <2>1
<1>9. Eq(P)
    BY Zenon, <1>8
<1> DEFINE S == {i \in 0..n : P[i] \in T}
<1> HIDE DEF P
<1>10. 0 \in S
    BY <1>2, <1>3, <1>9
<1>11. \A i \in 1..n : i - 1 \in S => i \in S
    BY <1>2, <1>4, <1>9
<1> HIDE DEF S
<1>12. 0..n \subseteq S
    BY Zenon, <1>2, <1>10, <1>11, UpTo
<1>13. P[n] \in T
    BY <1>2, <1>12 DEF S
<1> QED BY Zenon, <1>1, <1>13 DEF T

-----------------------------------------------------------------------------
(* The prefixes of a sequence of segments.                                 *)
LEMMA PrefixFacts ==
    ASSUME NEW Tok, NEW s \in Seq(Tok)
    PROVE  /\ SubSeq(s, 1, 0) = <<>>
           /\ <<>> \in Prefixes(s)
           /\ s \in Prefixes(s)
           /\ \A i \in 1..Len(s) : Append(SubSeq(s, 1, i - 1), s[i]) = SubSeq(s, 1, i)
           /\ \A i \in 0..Len(s) : SubSeq(s, 1, i) \in Seq(Tok) /\ Len(SubSeq(s, 1, i)) = i
           /\ \A p \in Prefixes(s) : \A m \in 0..Len(p) : SubSeq(p, 1, m) \in Prefixes(s)
<1>1. SubSeq(s, 1, 0) = <<>> /\ 0 \in 0..Len(s)
    OBVIOUS
<1>2. SubSeq(s, 1, Len(s)) = s /\ Len(s) \in 0..Len(s)
    OBVIOUS
<1>3. \A i \in 0..Len(s) : SubSeq(s, 1, i) \in Seq(Tok) /\ Len(SubSeq(s, 1, i)) = i
    OBVIOUS
<1>4. \A i \in 1..Len(s) : Append(SubSeq(s, 1, i - 1), s[i]) = SubSeq(s, 1, i)
    OBVIOUS
<1>5. ASSUME NEW l \in 0..Len(s), NEW m \in 0..l
      PROVE  SubSeq(SubSeq(s, 1, l), 1, m) = SubSeq(s, 1, m)
    OBVIOUS
<1>6. \A p \in Prefixes(s) : \A m \in 0..Len(p) : SubSeq(p, 1, m) \in Prefixes(s)
    BY <1>3, <1>5 DEF Prefixes
<1>7. <<>> \in Prefixes(s) /\ s \in Prefixes(s)
    BY Zenon, <1>1, <1>2 DEF Prefixes
<1> QED BY Zenon, <1>1, <1>3, <1>4, <1>6, <1>7

(* The trie in closed form: after i routes its nodes are the prefixes of   *)
(* their segments, and the route of a node is the last one that spells it. *)
Spelling(table, i, node) == {j \in 1..i : Segments(table[j]) = node}

LastSpelled(table, i, node) ==
    IF Spelling(table, i, node) = {} THEN NoRoute ELSE table[Max(Spelling(table, i, node))]

Passed(table, i) == {<<>>} \cup UNION {Prefixes(Segments(table[j])) : j \in 1..i}

TrieAfter(table, i) ==
    [nodes |-> Passed(table, i),
     route |-> [node \in Passed(table, i) |-> LastSpelled(table, i, node)]]

(* Adding the next route leads from one closed form to the next.           *)
LEMMA TrieStep ==
    ASSUME NEW table, NEW i \in Nat \ {0},
           \A j \in 1..i : Segments(table[j]) \in Prefixes(Segments(table[j]))
    PROVE  AddToTrie(TrieAfter(table, i - 1), table[i]) = TrieAfter(table, i)
<1> DEFINE old == TrieAfter(table, i - 1)
           node == Segments(table[i])
           nodes == Passed(table, i)
<1>1. old.nodes \cup Prefixes(node) = nodes
  <2>1. 1..i = (1..(i - 1)) \cup {i}
    OBVIOUS
  <2> QED BY Zenon, <2>1 DEF Passed, TrieAfter
<1>2. node \in nodes
    BY DEF Passed
<1>3. LastSpelled(table, i, node) = table[i]
  <2>1. /\ Spelling(table, i, node) \subseteq Nat /\ i \in Spelling(table, i, node)
        /\ \A j \in Spelling(table, i, node) : j <= i
    BY DEF Spelling
  <2>2. /\ Max(Spelling(table, i, node)) \in Spelling(table, i, node)
        /\ i <= Max(Spelling(table, i, node))
    BY Zenon, <2>1, MaxIs
  <2>3. Max(Spelling(table, i, node)) = i
    BY <2>1, <2>2
  <2> QED BY Zenon, <2>1, <2>3 DEF LastSpelled
<1>4. ASSUME NEW n \in nodes, n # node
      PROVE  LastSpelled(table, i, n) = IF n \in old.nodes THEN old.route[n] ELSE NoRoute
  <2>1. Spelling(table, i, n) = Spelling(table, i - 1, n)
    BY <1>4 DEF Spelling
  <2>2. LastSpelled(table, i, n) = LastSpelled(table, i - 1, n)
    BY Zenon, <2>1 DEF LastSpelled
  <2>3. CASE n \in old.nodes
    BY Zenon, <2>2, <2>3 DEF TrieAfter
  <2>4. CASE n \notin old.nodes
    <3>1. Spelling(table, i - 1, n) = {}
      BY <2>4 DEF TrieAfter, Passed, Spelling
    <3> QED BY Zenon, <2>2, <2>4, <3>1 DEF LastSpelled
  <2> QED BY Zenon, <2>3, <2>4
<1> HIDE DEF old, node, nodes
<1> DEFINE blank == [n \in nodes |-> IF n \in old.nodes THEN old.route[n] ELSE NoRoute]
<1>5. [blank EXCEPT ![node] = table[i]] = [n \in nodes |-> LastSpelled(table, i, n)]
    BY Zenon, <1>2, <1>3, <1>4
<1>6. AddToTrie(old, table[i]) = [nodes |-> nodes, route |-> [blank EXCEPT ![node] = table[i]]]
    BY Zenon, <1>1 DEF AddToTrie, node
<1> QED BY Zenon, <1>5, <1>6 DEF TrieAfter, old, nodes

(* So the loop of from_ordered_routes builds the closed form.              *)
LEMMA TrieIs ==
    ASSUME NEW Tok, EmptySegment \in Tok, NEW table \in Seq(Seq(Tok))
    PROVE  FromOrderedRoutes(table) = TrieAfter(table, Len(table))
<1> DEFINE n == Len(table)
           Eq(f) == f = [i \in 0..n |-> IF i = 0 THEN EmptyTrie ELSE AddToTrie(f[i - 1], table[i])]
           P == CHOOSE f : Eq(f)
           w == [i \in 0..n |-> TrieAfter(table, i)]
<1>1. Tries(table) = P
    BY Zenon DEF Tries
<1>2. n \in Nat
    OBVIOUS
<1>3. TrieAfter(table, 0) = EmptyTrie
  <2>1. Passed(table, 0) = {<<>>} /\ LastSpelled(table, 0, <<>>) = NoRoute
    BY DEF Passed, LastSpelled, Spelling
  <2> QED BY Zenon, <2>1 DEF TrieAfter, EmptyTrie
<1>4. ASSUME NEW i \in 1..n
      PROVE  AddToTrie(TrieAfter(table, i - 1), table[i]) = TrieAfter(table, i)
  <2>1. ASSUME NEW j \in 1..i PROVE Segments(table[j]) \in Prefixes(Segments(table[j]))
    <3>1. table[j] \in Seq(Tok)
      OBVIOUS
    <3> QED BY Zenon, <3>1, SegmentsType, PrefixFacts
  <2> QED BY <2>1, TrieStep
<1> HIDE DEF n
<1>5. Eq(w)
  <2>1. ASSUME NEW i \in 0..n
        PROVE  w[i] = IF i = 0 THEN EmptyTrie ELSE AddToTrie(w[i - 1], table[i])
    <3>1. i = 0 \/ (i \in 1..n /\ i - 1 \in 0..n)
      BY <1>2
    <3> QED BY Zenon, <3>1, <1>3, <1>4
  <2> QED BY Zenon, <2>1
<1>6. Eq(P)
    BY Zenon, <1>5
<1> DEFINE S == {i \in 0..n : P[i] = TrieAfter(table, i)}
<1> HIDE DEF P
<1>7. 0 \in S
    BY <1>2, <1>3, <1>6
<1>8. \A i \in 1..n : i - 1 \in S => i \in S
    BY <1>2, <1>4, <1>6
<1> HIDE DEF S
<1>9. 0..n \subseteq S
    BY Zenon, <1>2, <1>7, <1>8, UpTo
<1>10. P[n] = TrieAfter(table, n)
    BY <1>2, <1>9 DEF S
<1> QED BY Zenon, <1>1, <1>10 DEF n, FromOrderedRoutes

(* The walk in closed form: after i segments it is at the deepest node     *)
(* reached, remembers the route of the deepest node with one, and has      *)
(* stopped if the node it would be at is missing.                          *)
Reached(trie, s, i) == {m \in 0..i : SubSeq(s, 1, m) \in trie.nodes}

Routed(trie, s, i) == {m \in Reached(trie, s, i) : trie.route[SubSeq(s, 1, m)] # NoRoute}

WalkAfter(trie, s, i) ==
    [node |-> SubSeq(s, 1, Max(Reached(trie, s, i))),
     matched |-> IF Routed(trie, s, i) = {} THEN NoRoute
                 ELSE trie.route[SubSeq(s, 1, Max(Routed(trie, s, i)))],
     stopped |-> SubSeq(s, 1, i) \notin trie.nodes]

(* A turn of the loop of resolve leads from one closed form to the next,   *)
(* in a trie whose nodes have their parents.                               *)
LEMMA WalkStep ==
    ASSUME NEW Tok, NEW s \in Seq(Tok), NEW trie, NEW i \in 1..Len(s),
           SubSeq(s, 1, i) \in trie.nodes => SubSeq(s, 1, i - 1) \in trie.nodes
    PROVE  Descend(trie, WalkAfter(trie, s, i - 1), s[i]) = WalkAfter(trie, s, i)
<1> DEFINE Match(m) == IF Routed(trie, s, m) = {} THEN NoRoute
                       ELSE trie.route[SubSeq(s, 1, Max(Routed(trie, s, m)))]
           Node(m) == SubSeq(s, 1, Max(Reached(trie, s, m)))
           Stop(m) == SubSeq(s, 1, m) \notin trie.nodes
           old == WalkAfter(trie, s, i - 1)
           child == Append(Node(i - 1), s[i])
<1>1. /\ Reached(trie, s, i) \subseteq Nat /\ \A m \in Reached(trie, s, i) : m <= i
      /\ Routed(trie, s, i) \subseteq Nat /\ \A m \in Routed(trie, s, i) : m <= i
      /\ Reached(trie, s, i - 1) \subseteq Nat /\ \A m \in Reached(trie, s, i - 1) : m <= i - 1
      /\ i \in Nat /\ i - 1 \in Nat
    BY DEF Reached, Routed
<1>2. /\ old = [node |-> Node(i - 1), matched |-> Match(i - 1), stopped |-> Stop(i - 1)]
      /\ WalkAfter(trie, s, i) = [node |-> Node(i), matched |-> Match(i), stopped |-> Stop(i)]
    BY Zenon DEF WalkAfter
<1>3. ASSUME ~Stop(i - 1) PROVE child = SubSeq(s, 1, i)
  <2>1. i - 1 \in 0..(i - 1)
    BY <1>1
  <2>2. i - 1 \in Reached(trie, s, i - 1)
    BY Zenon, <1>3, <2>1 DEF Reached
  <2>3. Max(Reached(trie, s, i - 1)) = i - 1
    BY <1>1, <2>2, MaxIs
  <2> QED BY Zenon, <2>3, PrefixFacts
<1>4. ASSUME Stop(i) PROVE Reached(trie, s, i) = Reached(trie, s, i - 1)
    BY <1>1, <1>4 DEF Reached
<1>5. ASSUME ~Stop(i) PROVE i \in Reached(trie, s, i) /\ Max(Reached(trie, s, i)) = i
  <2>1. i \in Reached(trie, s, i)
    BY <1>5, <1>1 DEF Reached
  <2> QED BY <1>1, <2>1, MaxIs
<1>6. ASSUME ~Stop(i), trie.route[SubSeq(s, 1, i)] = NoRoute
      PROVE  Routed(trie, s, i) = Routed(trie, s, i - 1)
  <2>1. \A m \in 0..i : m = i \/ m \in 0..(i - 1)
    BY <1>1
  <2>2. \A m \in 0..(i - 1) : m \in 0..i
    BY <1>1
  <2> QED BY Zenon, <1>1, <1>6, <2>1, <2>2 DEF Routed, Reached
<1>7. CASE Stop(i)
  <2>1. Node(i) = Node(i - 1) /\ Match(i) = Match(i - 1)
    BY Zenon, <1>4, <1>7 DEF Routed
  <2>2. Stop(i) = TRUE /\ (Stop(i - 1) \/ child \notin trie.nodes)
    BY Zenon, <1>3, <1>7
  <2> HIDE DEF Node, Match, Stop, child, old
  <2>3. old.node = Node(i - 1) /\ old.matched = Match(i - 1) /\ old.stopped = Stop(i - 1)
    BY Zenon, <1>2
  <2>4. Descend(trie, old, s[i]) = [node |-> Node(i), matched |-> Match(i), stopped |-> TRUE]
    BY Zenon, <2>1, <2>2, <2>3 DEF Descend, child
  <2> QED BY Zenon, <1>2, <2>2, <2>4 DEF old
<1>8. CASE ~Stop(i)
  <2>1. ~Stop(i - 1) /\ child = SubSeq(s, 1, i) /\ child \in trie.nodes
    BY Zenon, <1>3, <1>8
  <2>2. Node(i) = child /\ Stop(i) = FALSE /\ Stop(i - 1) = FALSE
    BY Zenon, <1>5, <1>8, <2>1
  <2>3. Match(i) = Matched(Match(i - 1), trie.route[child])
    <3>1. CASE trie.route[child] # NoRoute
      <4>1. i \in Routed(trie, s, i)
        BY Zenon, <1>5, <1>8, <2>1, <3>1 DEF Routed
      <4>2. Max(Routed(trie, s, i)) = i
        BY <1>1, <4>1, MaxIs
      <4> QED BY Zenon, <2>1, <3>1, <4>1, <4>2 DEF Matched
    <3>2. CASE trie.route[child] = NoRoute
        BY Zenon, <1>6, <1>8, <2>1, <3>2 DEF Matched
    <3> QED BY Zenon, <3>1, <3>2
  <2> HIDE DEF Node, Match, Stop, child, old
  <2>4. old.node = Node(i - 1) /\ old.matched = Match(i - 1) /\ ~old.stopped
    BY Zenon, <1>2, <2>2
  <2>5. Descend(trie, old, s[i]) = [node |-> Node(i), matched |-> Match(i), stopped |-> FALSE]
    BY Zenon, <2>1, <2>2, <2>3, <2>4 DEF Descend, child
  <2> QED BY Zenon, <1>2, <2>2, <2>5 DEF old
<1> QED BY Zenon, <1>7, <1>8

(* So the loop of resolve ends with the closed form.                       *)
LEMMA WalkIs ==
    ASSUME NEW Tok, NEW s \in Seq(Tok), NEW trie, <<>> \in trie.nodes,
           \A i \in 1..Len(s) : SubSeq(s, 1, i) \in trie.nodes => SubSeq(s, 1, i - 1) \in trie.nodes
    PROVE  Walk(trie, s)[Len(s)] = WalkAfter(trie, s, Len(s))
<1> DEFINE n == Len(s)
           begin == [node |-> <<>>, matched |-> trie.route[<<>>], stopped |-> FALSE]
           Eq(f) == f = [i \in 0..n |-> IF i = 0 THEN begin ELSE Descend(trie, f[i - 1], s[i])]
           P == CHOOSE f : Eq(f)
           w == [i \in 0..n |-> WalkAfter(trie, s, i)]
<1>1. Walk(trie, s) = P
    BY Zenon DEF Walk
<1>2. n \in Nat
    OBVIOUS
<1>3. WalkAfter(trie, s, 0) = begin
  <2>1. SubSeq(s, 1, 0) = <<>>
    BY Zenon, PrefixFacts
  <2>2. 0..0 = {0}
    OBVIOUS
  <2>3. Reached(trie, s, 0) = {0}
    BY Zenon, <2>1, <2>2 DEF Reached
  <2>4. Max({0}) = 0
    BY MaxIs
  <2>5. trie.route[<<>>] # NoRoute => Routed(trie, s, 0) = {0}
    BY Zenon, <2>1, <2>3 DEF Routed
  <2>6. trie.route[<<>>] = NoRoute => Routed(trie, s, 0) = {}
    BY Zenon, <2>1, <2>3 DEF Routed
  <2>7. (SubSeq(s, 1, 0) \notin trie.nodes) = FALSE
    BY Zenon, <2>1
  <2> QED BY Zenon, <2>1, <2>3, <2>4, <2>5, <2>6, <2>7 DEF WalkAfter
<1>4. ASSUME NEW i \in 1..n
      PROVE  Descend(trie, WalkAfter(trie, s, i - 1), s[i]) = WalkAfter(trie, s, i)
    BY Zenon, WalkStep
<1> HIDE DEF n, begin
<1>5. Eq(w)
  <2>1. ASSUME NEW i \in 0..n
        PROVE  w[i] = IF i = 0 THEN begin ELSE Descend(trie, w[i - 1], s[i])
    <3>1. i = 0 \/ (i \in 1..n /\ i - 1 \in 0..n)
      BY <1>2
    <3> QED BY Zenon, <3>1, <1>3, <1>4
  <2> QED BY Zenon, <2>1
<1>6. Eq(P)
    BY Zenon, <1>5
<1> DEFINE S == {i \in 0..n : P[i] = WalkAfter(trie, s, i)}
<1> HIDE DEF P
<1>7. 0 \in S
    BY <1>2, <1>3, <1>6
<1>8. \A i \in 1..n : i - 1 \in S => i \in S
    BY <1>2, <1>4, <1>6
<1> HIDE DEF S
<1>9. 0..n \subseteq S
    BY Zenon, <1>2, <1>7, <1>8, UpTo
<1>10. P[n] = WalkAfter(trie, s, n)
    BY <1>2, <1>9 DEF S
<1> QED BY Zenon, <1>1, <1>10 DEF n

(* The route RouteSnapshot::resolve finds by walking the trie of           *)
(* from_ordered_routes is, for any table, any path and any tokens, the one *)
(* of the deepest key that is a prefix of the path, segment by segment,    *)
(* the last mutated one of those that spell the same segments, and there   *)
(* is none only when no key matches.                                       *)
THEOREM MatcherIsRight ==
    ASSUME NEW Tok, EmptySegment \in Tok, NEW table \in Seq(Seq(Tok)), NEW path \in Seq(Tok),
           \A i \in 1..Len(table) : table[i] # NoRoute
    PROVE  /\ Resolve(table, path) = DeepestRoute(table, path)
           /\ Resolve(table, path) \in Range(table) \cup {NoRoute}
<1> DEFINE n == Len(table)
           s == Segments(path)
           trie == TrieAfter(table, n)
           Spelled(m) == Spelling(table, n, SubSeq(s, 1, m))
           depths == {m \in 0..Len(s) : Spelled(m) # {}}
           matching == {i \in DOMAIN table : Segments(table[i]) \in Prefixes(s)}
           lengths == {Len(Segments(table[i])) : i \in matching}
           longest == {i \in matching : Len(Segments(table[i])) = Max(lengths)}
<1>1. n \in Nat /\ DOMAIN table = 1..n
    OBVIOUS
<1>2. s \in Seq(Tok)
    BY Zenon, SegmentsType
<1>3. \A i \in 1..n : table[i] \in Seq(Tok) /\ Segments(table[i]) \in Seq(Tok)
    BY SegmentsType
<1> HIDE DEF s
<1>4. \A i \in 1..n : Segments(table[i]) \in Prefixes(Segments(table[i]))
    BY Zenon, <1>3, PrefixFacts
<1>5. trie.nodes = Passed(table, n) /\ <<>> \in trie.nodes
    BY Zenon DEF TrieAfter, Passed
<1>6. ASSUME NEW i \in 1..Len(s), SubSeq(s, 1, i) \in trie.nodes
      PROVE  SubSeq(s, 1, i - 1) \in trie.nodes
  <2>1. SubSeq(s, 1, i) # <<>> /\ Len(SubSeq(s, 1, i)) = i
    BY <1>2
  <2>2. PICK j \in 1..n : SubSeq(s, 1, i) \in Prefixes(Segments(table[j]))
    BY <1>5, <1>6, <2>1 DEF Passed
  <2>3. SubSeq(SubSeq(s, 1, i), 1, i - 1) \in Prefixes(Segments(table[j]))
    <3>1. /\ \A p \in Prefixes(Segments(table[j])) : \A m \in 0..Len(p) :
                SubSeq(p, 1, m) \in Prefixes(Segments(table[j]))
          /\ i - 1 \in 0..i
      BY <1>3, PrefixFacts
    <3> QED BY Zenon, <2>1, <2>2, <3>1
  <2>4. SubSeq(SubSeq(s, 1, i), 1, i - 1) = SubSeq(s, 1, i - 1)
    BY <1>2
  <2> QED BY Zenon, <1>5, <2>3, <2>4 DEF Passed
<1>7. Resolve(table, path) = WalkAfter(trie, s, Len(s)).matched
  <2>1. FromOrderedRoutes(table) = trie
    BY Zenon, TrieIs
  <2> HIDE DEF trie
  <2>2. Walk(trie, s)[Len(s)] = WalkAfter(trie, s, Len(s))
    BY Zenon, <1>2, <1>5, <1>6, WalkIs
  <2> QED BY Zenon, <2>1, <2>2 DEF Resolve, s
<1>8. ASSUME NEW node
      PROVE  /\ Spelling(table, n, node) # {} => node \in trie.nodes
             /\ node \in trie.nodes =>
                   trie.route[node] = IF Spelling(table, n, node) = {} THEN NoRoute
                                      ELSE table[Max(Spelling(table, n, node))]
             /\ Spelling(table, n, node) # {} =>
                   table[Max(Spelling(table, n, node))] # NoRoute
  <2>1. Spelling(table, n, node) # {} => node \in trie.nodes
    BY Zenon, <1>4, <1>5 DEF Spelling, Passed
  <2>2. node \in trie.nodes => trie.route[node] = LastSpelled(table, n, node)
    BY Zenon DEF TrieAfter
  <2>3. Spelling(table, n, node) \subseteq 1..n
    BY Zenon DEF Spelling
  <2>4. Spelling(table, n, node) # {} => Max(Spelling(table, n, node)) \in 1..n
    <3> DEFINE X == Spelling(table, n, node)
    <3>1. X \subseteq Nat /\ \A x \in X : x <= n
      BY <1>1, <2>3
    <3> HIDE DEF X, n
    <3>2. X # {} => Max(X) \in X
      BY Zenon, <1>1, <3>1, MaxIs
    <3> QED BY Zenon, <2>3, <3>2 DEF X, n
  <2> QED BY Zenon, <2>1, <2>2, <2>4 DEF LastSpelled
<1>9. Routed(trie, s, Len(s)) = depths
    BY Zenon, <1>8 DEF Routed, Reached
<1>10. depths # {} => Max(depths) \in depths
  <2>1. depths \subseteq Nat /\ (\A m \in depths : m <= Len(s)) /\ Len(s) \in Nat
    BY <1>2
  <2> HIDE DEF depths
  <2> QED BY Zenon, <2>1, MaxIs
<1>11. Resolve(table, path) = IF depths = {} THEN NoRoute ELSE table[Max(Spelled(Max(depths)))]
  <2>1. depths # {} => /\ SubSeq(s, 1, Max(depths)) \in trie.nodes
                       /\ trie.route[SubSeq(s, 1, Max(depths))] = table[Max(Spelled(Max(depths)))]
    BY Zenon, <1>8, <1>10
  <2> HIDE DEF depths, Spelled, trie
  <2> QED BY Zenon, <1>7, <1>9, <2>1 DEF WalkAfter
<1>12. ASSUME NEW i \in 1..n
       PROVE  /\ i \in matching <=> \E m \in 0..Len(s) : Segments(table[i]) = SubSeq(s, 1, m)
              /\ \A m \in 0..Len(s) : Segments(table[i]) = SubSeq(s, 1, m)
                    => Len(Segments(table[i])) = m
  <2>1. \A m \in 0..Len(s) : Len(SubSeq(s, 1, m)) = m
    BY Zenon, <1>2, PrefixFacts
  <2>2. i \in matching <=> Segments(table[i]) \in Prefixes(s)
    BY Zenon, <1>1
  <2> HIDE DEF matching
  <2>3. Segments(table[i]) \in Prefixes(s)
           <=> \E m \in 0..Len(s) : Segments(table[i]) = SubSeq(s, 1, m)
    BY Zenon DEF Prefixes
  <2> QED BY Zenon, <2>1, <2>2, <2>3
<1>13. lengths = depths
  <2>1. ASSUME NEW m \in lengths PROVE m \in depths
    BY Zenon, <1>1, <1>12 DEF Spelling
  <2>2. ASSUME NEW m \in depths PROVE m \in lengths
    BY Zenon, <1>1, <1>12 DEF Spelling
  <2> QED BY Zenon, <2>1, <2>2
<1>14. matching = {} <=> depths = {}
    BY Zenon, <1>13
<1>15. matching # {} => longest = Spelled(Max(depths))
  <2> SUFFICES ASSUME matching # {} PROVE longest = Spelled(Max(depths))
    BY Zenon
  <2> DEFINE d == Max(depths)
  <2>1. d \in 0..Len(s)
    BY Zenon, <1>10, <1>14
  <2>2. longest = {i \in matching : Len(Segments(table[i])) = d}
    BY Zenon, <1>13
  <2>3. matching \subseteq 1..n
    BY Zenon, <1>1
  <2> HIDE DEF d, longest, depths, matching
  <2>4. ASSUME NEW i \in longest PROVE i \in Spelled(d)
    BY Zenon, <1>12, <2>2, <2>3 DEF Spelling
  <2>5. ASSUME NEW i \in Spelled(d) PROVE i \in longest
    BY Zenon, <1>12, <2>1, <2>2 DEF Spelling
  <2> QED BY Zenon, <2>4, <2>5 DEF d
<1>16. DeepestRoute(table, path) = IF matching = {} THEN NoRoute ELSE table[Max(longest)]
    BY Zenon DEF DeepestRoute, s
<1>17. matching # {} => table[Max(longest)] \in Range(table)
  <2> SUFFICES ASSUME matching # {} PROVE table[Max(longest)] \in Range(table)
    BY Zenon
  <2>1. Spelled(Max(depths)) # {} /\ Spelled(Max(depths)) \subseteq 1..n
    BY Zenon, <1>10, <1>14 DEF Spelling
  <2>2. longest # {} /\ longest \subseteq 1..n
    BY Zenon, <1>15, <2>1
  <2> HIDE DEF longest, n
  <2>3. Max(longest) \in longest
    <3>1. longest \subseteq Nat /\ \A i \in longest : i <= n
      BY <1>1, <2>2
    <3> QED BY Zenon, <1>1, <2>2, <3>1, MaxIs
  <2> QED BY Zenon, <1>1, <2>2, <2>3 DEF Range, n
<1> HIDE DEF matching, depths, longest
<1>18. Resolve(table, path) = DeepestRoute(table, path)
    BY <1>11, <1>14, <1>15, <1>16
<1> QED BY Zenon, <1>16, <1>17, <1>18

-----------------------------------------------------------------------------
(* The inductive invariant of the resolver.                                *)
Present == Nat \ {0}  \* generations there can be

Holding == {"ensuring", "sending", "resolving", "attempting", "calling", "exchanging",
            "unlocking"}

ResolverTypeOK ==
    /\ current \in Present \cup {None}
    /\ expired \in BOOLEAN
    /\ generation \in Nat
    /\ leased_generation \in Present \cup {None}
    /\ receiver \in Seq(Requests)
    /\ worker \in {"recv", "fresh", "lookup", "answer"}
    /\ first \in Requests \cup {None}
    /\ result \in Nat \cup {None}
    /\ response \in [Requests -> Nat \cup {None}]
    /\ serialization \in Requests \cup {None}
    /\ step \in [Requests -> Steps]
    /\ attempt \in [Requests -> Present \cup {None}]
    /\ connected \in [Requests -> Nat \cup {None}]
    /\ failed \subseteq Nat

(* Who holds the serialization lock, and who has an attempt under it.      *)
LockInv ==
    \A r \in Requests :
        /\ step[r] \in Holding <=> serialization = r
        /\ attempt[r] # None <=> step[r] \in {"attempting", "exchanging"}
        /\ step[r] # "calling"
        /\ step[r] = "exchanging" => connected[r] = attempt[r]

(* The lease is on the cached generation and is that of an attempt.        *)
LeaseInv ==
    /\ leased_generation # None =>
          /\ current = leased_generation
          /\ \E r \in Requests : attempt[r] = leased_generation
    /\ \A r \in Requests : attempt[r] # None => leased_generation = attempt[r]

(* The worker looks up only while nothing is cached, and what is cached    *)
(* has not failed.                                                         *)
CacheInv ==
    /\ worker = "lookup" => current = None
    /\ current # None => current \notin failed /\ current <= generation
    /\ \A g \in failed : g <= generation

ResolverInv == ResolverTypeOK /\ LockInv /\ LeaseInv /\ CacheInv

LEMMA ResolverInvInit == ResolverInit => ResolverInv
  <1> SUFFICES ASSUME ResolverInit PROVE ResolverInv
    BY Zenon
  <1> USE ResolverAssumption DEF ResolverInit
  <1>1. ResolverTypeOK
    <2>1. receiver \in Seq(Requests)
      OBVIOUS
    <2>2. /\ response \in [Requests -> Nat \cup {None}]
          /\ connected \in [Requests -> Nat \cup {None}]
          /\ attempt \in [Requests -> Present \cup {None}]
      BY Zenon
    <2>3. step \in [Requests -> Steps]
      BY Zenon DEF Steps
    <2> QED
      BY Zenon, <2>1, <2>2, <2>3 DEF ResolverTypeOK
  <1>2. LockInv /\ LeaseInv /\ CacheInv
    BY Zenon DEF LockInv, LeaseInv, CacheInv, Holding
  <1> QED
    BY Zenon, <1>1, <1>2 DEF ResolverInv

(* Nothing about a request changes: what the worker and time do.           *)
LEMMA WorkerKeepsInv ==
    ASSUME ResolverInv, WorkerStep \/ Expire
    PROVE  ResolverInv'
  <1> USE ResolverAssumption DEF ResolverInv, ResolverTypeOK, callerVars, Present
  <1>1. ASSUME Expire PROVE ResolverInv'
    <2> USE <1>1 DEF Expire, workerVars
    <2>1. ResolverTypeOK'
      BY Zenon
    <2>2. (LockInv /\ LeaseInv /\ CacheInv)'
      BY Zenon DEF LockInv, LeaseInv, CacheInv
    <2> QED
      BY Zenon, <2>1, <2>2
  <1>2. ASSUME Recv PROVE ResolverInv'
    <2> USE <1>2 DEF Recv, cacheVars
    <2>1. ResolverTypeOK'
      OBVIOUS
    <2>2. (LockInv /\ LeaseInv /\ CacheInv)'
      BY Zenon DEF LockInv, LeaseInv, CacheInv
    <2> QED
      BY Zenon, <2>1, <2>2
  <1>3. ASSUME WorkerFresh PROVE ResolverInv'
    <2> USE <1>3 DEF WorkerFresh
    <2>1. ResolverTypeOK'
      BY Zenon DEF Fresh
    <2>2. LockInv'
      BY Zenon DEF LockInv
    <2>3. LeaseInv'
      BY Zenon DEF LeaseInv, Fresh
    <2>4. CacheInv'
      BY Zenon DEF CacheInv, Fresh
    <2> QED
      BY Zenon, <2>1, <2>2, <2>3, <2>4
  <1>4. ASSUME LookupFails PROVE ResolverInv'
    <2> USE <1>4 DEF LookupFails, cacheVars
    <2>1. ResolverTypeOK'
      BY Zenon
    <2>2. (LockInv /\ LeaseInv /\ CacheInv)'
      BY Zenon DEF LockInv, LeaseInv, CacheInv
    <2> QED
      BY Zenon, <2>1, <2>2
  <1>5. ASSUME LookupSucceeds PROVE ResolverInv'
    <2> USE <1>5 DEF LookupSucceeds
    <2>1. current = None /\ leased_generation = None
      BY Zenon DEF CacheInv, LeaseInv
    <2>2. ResolverTypeOK'
      <3>1. generation + 1 \in Nat /\ generation + 1 # 0
        OBVIOUS
      <3> QED
        BY Zenon, <3>1
    <2>3. LockInv'
      BY Zenon DEF LockInv
    <2>4. LeaseInv'
      BY Zenon, <2>1 DEF LeaseInv
    <2>5. CacheInv'
      BY DEF CacheInv
    <2> QED
      BY Zenon, <2>2, <2>3, <2>4, <2>5
  <1>6. ASSUME Answer PROVE ResolverInv'
    <2> USE <1>6 DEF Answer, cacheVars
    <2>1. Waiting \in 0..Len(receiver)
      BY DEF Waiting
    <2>2. receiver' \in Seq(Requests)
      BY <2>1
    <2>3. response' \in [Requests -> Nat \cup {None}]
      BY Zenon
    <2>4. ResolverTypeOK'
      BY Zenon, <2>2, <2>3
    <2>5. (LockInv /\ LeaseInv /\ CacheInv)'
      BY Zenon DEF LockInv, LeaseInv, CacheInv
    <2> QED
      BY Zenon, <2>4, <2>5
  <1> QED
    BY Zenon, <1>1, <1>2, <1>3, <1>4, <1>5, <1>6 DEF WorkerStep

(***************************************************************************)
(* The steps of a request.                                                 *)
(***************************************************************************)
(* Only the lock changes hands, or a request moves without its attempt.    *)
LEMMA MovesKeepInv ==
    ASSUME ResolverInv, NEW r \in Requests,
           CustomError(r) \/ Lock(r) \/ Send(r) \/ Unlock(r)
    PROVE  ResolverInv'
  <1> USE ResolverAssumption DEF ResolverInv, ResolverTypeOK, Goes, cacheVars, workerVars
  <1>1. /\ step' \in [Requests -> Steps]
        /\ UNCHANGED <<cacheVars, worker, response, attempt, connected, rendered, failed>>
        /\ \A q \in Requests \ {r} : step'[q] = step[q]
    BY Zenon DEF CustomError, Lock, Send, Unlock, Steps
  <1>2. receiver' \in Seq(Requests) /\ serialization' \in Requests \cup {None}
    <2>1. Append(receiver, r) \in Seq(Requests)
      OBVIOUS
    <2>2. receiver' \in {receiver, Append(receiver, r)}
      BY Zenon DEF CustomError, Lock, Send, Unlock
    <2>3. serialization' \in {serialization, r, None}
      BY Zenon DEF CustomError, Lock, Send, Unlock
    <2> QED
      BY Zenon, <2>1, <2>2, <2>3
  <1>3. ResolverTypeOK'
    BY Zenon, <1>1, <1>2 DEF CustomError, Lock, Send, Unlock
  <1>4. LockInv'
    <2>1. CASE CustomError(r)
      BY <1>1, <2>1 DEF CustomError, LockInv, Holding
    <2>2. CASE Lock(r)
      BY <1>1, <2>2 DEF Lock, LockInv, Holding
    <2>3. CASE Send(r)
      BY <1>1, <2>3 DEF Send, LockInv, Holding
    <2>4. CASE Unlock(r)
      BY <1>1, <2>4 DEF Unlock, LockInv, Holding
    <2> QED
      BY Zenon, <2>1, <2>2, <2>3, <2>4
  <1>5. LeaseInv' /\ CacheInv'
    BY Zenon, <1>1 DEF LeaseInv, CacheInv
  <1> QED
    BY Zenon, <1>3, <1>4, <1>5

(* A request that holds the lock and has no attempt is alone with the      *)
(* cache: nobody has a lease.                                              *)
LEMMA HolderIsAlone ==
    ASSUME ResolverInv, NEW r \in Requests, step[r] \in Holding
    PROVE  /\ serialization = r
           /\ \A q \in Requests \ {r} : attempt[q] = None /\ step[q] \notin Holding
           /\ attempt[r] = None => leased_generation = None
  BY Zenon DEF ResolverInv, LockInv, LeaseInv, Holding

(* Taking the lease on what is cached by now, or giving up.                *)
LEMMA TakeLeaseKeepsInv ==
    ASSUME ResolverInv, NEW r \in Requests, NEW g,
           step[r] \in {"ensuring", "resolving"},
           TakeLease(r, g),
           UNCHANGED <<current, expired, generation, workerVars, serialization, connected,
                       rendered, failed>>,
           response' \in [Requests -> Nat \cup {None}]
    PROVE  ResolverInv'
  <1> USE ResolverAssumption DEF ResolverInv, ResolverTypeOK, workerVars, TakeLease, Goes, MayLease
  <1>1. step[r] \in Holding /\ attempt[r] = None
    BY Zenon DEF LockInv, Holding
  <1>2. /\ serialization = r
        /\ \A q \in Requests \ {r} : attempt[q] = None /\ step[q] \notin Holding
        /\ leased_generation = None
    BY Zenon, <1>1, HolderIsAlone
  <1>3. ResolverTypeOK'
    <2>1. step' \in [Requests -> Steps]
      <3>1. PICK s \in {"attempting", "unlocking"} : step' = [step EXCEPT ![r] = s]
        BY Zenon
      <3>2. s \in Steps
        BY Zenon DEF Steps
      <3> QED
        BY Zenon, <3>1, <3>2
    <2>2. CASE MayLease(g)
      <3>1. g \in Present
        BY Zenon, <2>2
      <3>2. attempt' \in [Requests -> Present \cup {None}] /\ leased_generation' = g
        BY <2>2, <3>1
      <3> QED
        BY Zenon, <2>1, <3>1, <3>2
    <2>3. CASE ~MayLease(g)
      BY Zenon, <2>1, <2>3
    <2> QED
      BY Zenon, <2>2, <2>3
  <1>4. LockInv'
    BY <1>1, <1>2 DEF LockInv, Holding
  <1>5. LeaseInv'
    BY <1>1, <1>2 DEF LeaseInv
  <1>6. CacheInv'
    BY Zenon DEF CacheInv
  <1> QED
    BY Zenon, <1>3, <1>4, <1>5, <1>6

(* Without a lease on it, an expired generation may be thrown away.        *)
LEMMA EnsureKeepsInv ==
    ASSUME ResolverInv, NEW r \in Requests, EnsureCached(r)
    PROVE  ResolverInv'
  <1> USE ResolverAssumption DEF ResolverInv, EnsureCached
  <1>1. step[r] \in Holding /\ attempt[r] = None
    BY Zenon DEF LockInv, Holding
  <1>2. leased_generation = None
    BY Zenon, <1>1, HolderIsAlone
  <1>3. CASE Fresh # None
    <2>1. current' = current /\ expired' = expired
      BY Zenon, <1>2, <1>3 DEF Fresh, ResolverTypeOK
    <2>2. TakeLease(r, Fresh)
      BY Zenon, <1>3
    <2>3. response' \in [Requests -> Nat \cup {None}]
      BY Zenon DEF ResolverTypeOK
    <2> QED
      BY <2>1, <2>2, <2>3, TakeLeaseKeepsInv
  <1>4. CASE Fresh = None
    <2> USE <1>4 DEF Goes, workerVars
    <2>1. ResolverTypeOK'
      BY Zenon DEF ResolverTypeOK, Steps
    <2>2. LockInv'
      BY <1>1 DEF LockInv, Holding, ResolverTypeOK
    <2>3. LeaseInv' /\ CacheInv'
      BY Zenon, <1>2 DEF LeaseInv, CacheInv
    <2> QED
      BY Zenon, <2>1, <2>2, <2>3
  <1> QED
    BY Zenon, <1>3, <1>4

(* The end of an attempt returns the lease, and evicts what failed.        *)
LEMMA DropKeepsInv ==
    ASSUME ResolverInv, NEW r \in Requests, NEW succeeded \in BOOLEAN,
           step[r] = "exchanging", DropAttempt(r, succeeded),
           UNCHANGED <<generation, workerVars, response, serialization, connected>>
    PROVE  ResolverInv'
  <1> USE ResolverAssumption DEF ResolverInv, ResolverTypeOK, DropAttempt, FinishLease, Goes,
                                 workerVars, Present
  <1>1. step[r] \in Holding /\ attempt[r] # None /\ leased_generation = attempt[r]
    BY Zenon DEF LockInv, LeaseInv, Holding
  <1>2. current = attempt[r] /\ attempt[r] \in Present
    BY Zenon, <1>1 DEF LeaseInv
  <1>3. /\ serialization = r
        /\ \A q \in Requests \ {r} : attempt[q] = None /\ step[q] \notin Holding
    BY Zenon, <1>1, HolderIsAlone
  <1>4. /\ leased_generation' = None
        /\ current' = IF succeeded THEN current ELSE None
        /\ failed' = IF succeeded THEN failed ELSE failed \cup {current}
    BY Zenon, <1>1, <1>2
  <1>5. ResolverTypeOK'
    BY Zenon, <1>2, <1>4 DEF Steps
  <1>6. LockInv'
    BY Zenon, <1>1, <1>3 DEF LockInv, Holding
  <1>7. LeaseInv'
    BY Zenon, <1>3, <1>4 DEF LeaseInv
  <1>8. CacheInv'
    BY Zenon, <1>2, <1>4 DEF CacheInv
  <1> QED
    BY Zenon, <1>5, <1>6, <1>7, <1>8

(* Under its lease the connector finds the cached addresses, expired or    *)
(* not, and never waits for the worker.                                    *)
LEMMA CallKeepsInv ==
    ASSUME ResolverInv, NEW r \in Requests, Call(r)
    PROVE  ResolverInv'
  <1> USE ResolverAssumption DEF ResolverInv, ResolverTypeOK, Call, Goes, cacheVars, Present
  <1>1. attempt[r] # None /\ leased_generation = attempt[r] /\ current = attempt[r]
    BY Zenon DEF LockInv, LeaseInv
  <1>2. Fresh = attempt[r]
    BY Zenon, <1>1 DEF Fresh
  <1>3. /\ connected' = [connected EXCEPT ![r] = attempt[r]]
        /\ step' = [step EXCEPT ![r] = "exchanging"]
        /\ UNCHANGED <<cacheVars, receiver, attempt, rendered, failed>>
    BY Zenon, <1>1, <1>2
  <1>4. ResolverTypeOK'
    BY Zenon, <1>3 DEF Steps
  <1>5. LockInv'
    BY <1>1, <1>3 DEF LockInv, Holding
  <1>6. LeaseInv' /\ CacheInv'
    BY Zenon, <1>3 DEF LeaseInv, CacheInv
  <1> QED
    BY Zenon, <1>4, <1>5, <1>6

LEMMA AnsweredKeepsInv ==
    ASSUME ResolverInv, NEW r \in Requests, Answered(r)
    PROVE  ResolverInv'
  <1> USE ResolverAssumption DEF Answered
  <1>1. step[r] = "resolving"
    BY Zenon DEF ResolverInv, LockInv
  <1>2. response' \in [Requests -> Nat \cup {None}]
    BY Zenon DEF ResolverInv, ResolverTypeOK
  <1>3. CASE response[r] = 0
    <2> USE <1>1, <1>3 DEF ResolverInv, Goes, workerVars
    <2>1. ResolverTypeOK'
      BY Zenon, <1>2 DEF ResolverTypeOK, Steps
    <2>2. LockInv'
      BY DEF LockInv, Holding, ResolverTypeOK
    <2>3. LeaseInv' /\ CacheInv'
      BY DEF LeaseInv, CacheInv
    <2> QED
      BY Zenon, <2>1, <2>2, <2>3
  <1>4. CASE response[r] # 0
    BY <1>1, <1>2, <1>4, TakeLeaseKeepsInv
  <1> QED
    BY Zenon, <1>3, <1>4

LEMMA DeadlineKeepsInv ==
    ASSUME ResolverInv, NEW r \in Requests, Deadline(r)
    PROVE  ResolverInv'
  <1> USE ResolverAssumption DEF Deadline
  <1>1. step[r] # "calling"
    BY Zenon DEF ResolverInv, LockInv
  <1>2. CASE step[r] = "exchanging"
    BY Zenon, <1>2, DropKeepsInv
  <1>3. CASE step[r] \in {"locking", "resolving"}
    <2> USE <1>3 DEF ResolverInv, Goes, workerVars
    <2>1. ResolverTypeOK'
      BY ZenonT(30) DEF ResolverTypeOK, Steps
    <2>2. LockInv'
      <3>1. /\ \A q \in Requests \ {r} : step'[q] = step[q]
            /\ step'[r] = IF step[r] = "locking" THEN "done" ELSE "unlocking"
            /\ UNCHANGED <<serialization, attempt, connected>>
        BY Zenon DEF ResolverTypeOK
      <3> QED
        BY <3>1 DEF LockInv, Holding
    <2>3. LeaseInv' /\ CacheInv'
      BY Zenon DEF LeaseInv, CacheInv
    <2> QED
      BY Zenon, <2>1, <2>2, <2>3
  <1> QED
    BY Zenon, <1>1, <1>2, <1>3

LEMMA ResolverInvStep == ResolverInv /\ [ResolverNext]_resolverVars => ResolverInv'
  <1> SUFFICES ASSUME ResolverInv, [ResolverNext]_resolverVars
               PROVE  ResolverInv'
    BY Zenon
  <1>1. CASE Expire \/ WorkerStep
    BY Zenon, <1>1, WorkerKeepsInv
  <1>2. ASSUME NEW r \in Requests, CustomError(r) \/ RenderStep(r)
        PROVE  ResolverInv'
    <2>1. CASE CustomError(r) \/ Lock(r) \/ Send(r) \/ Unlock(r)
      BY Zenon, <2>1, MovesKeepInv
    <2>2. CASE EnsureCached(r)
      BY Zenon, <2>2, EnsureKeepsInv
    <2>3. CASE Answered(r)
      BY Zenon, <2>3, AnsweredKeepsInv
    <2>4. CASE Call(r)
      BY Zenon, <2>4, CallKeepsInv
    <2>5. CASE Exchange(r)
      BY Zenon, <2>5, DropKeepsInv DEF Exchange
    <2>6. CASE Deadline(r)
      BY Zenon, <2>6, DeadlineKeepsInv
    <2> QED
      BY Zenon, <1>2, <2>1, <2>2, <2>3, <2>4, <2>5, <2>6 DEF RenderStep
  <1>3. CASE UNCHANGED resolverVars
    BY Zenon, <1>3 DEF ResolverInv, ResolverTypeOK, LockInv, LeaseInv, CacheInv, resolverVars,
                cacheVars, workerVars, callerVars
  <1> QED
    BY Zenon, <1>1, <1>2, <1>3 DEF ResolverNext

(* The inductive invariant of the resolver.                                *)
THEOREM ResolverInvariant == ResolverSpec => []ResolverInv
  BY ResolverInvInit, ResolverInvStep, PTL DEF ResolverSpec

(* However requests, the worker, deadlines and the expiry of the cache     *)
(* interleave, the one lease is that of the one attempt in progress, and   *)
(* that attempt connects to the addresses it leased.                       *)
THEOREM LeaseHonoured == ResolverSpec => []LeaseIsHonoured
  <1>1. ResolverInv => LeaseIsHonoured
    BY Zenon DEF ResolverInv, LockInv, LeaseInv, LeaseIsHonoured, Holding
  <1> QED
    BY <1>1, ResolverInvariant, PTL

(* Addresses an attempt has failed with are never leased again, whatever   *)
(* the worker still answers with.                                          *)
THEOREM FailedNotRetried == ResolverSpec => []FailedIsNotRetried
  <1>1. ResolverInv => FailedIsNotRetried
    BY Zenon DEF ResolverInv, LeaseInv, CacheInv, FailedIsNotRetried
  <1> QED
    BY <1>1, ResolverInvariant, PTL

(***************************************************************************)
(* The resolver is the same component whoever renders: what the requests   *)
(* of the proxy do to it, ResolverSpec allows.                             *)
(***************************************************************************)
LEMMA CallbackUsesResolver ==
    ASSUME NEW q \in Requests, ProxyStep(q)
    PROVE  CustomError(q) \/ UNCHANGED resolverVars
<1>1. CASE Refuse(q) \/ SendHealth(q) \/ RouteForRequest(q)
    BY Zenon, <1>1 DEF Refuse, SendHealth, RouteForRequest
<1>2. CASE StartRender(q)
    BY Zenon, <1>2 DEF StartRender
<1>3. CASE Respond(q) \/ UpstreamPeer(q) \/ FailToConnect(q) \/ UpstreamRequestFilter(q)
    BY Zenon, <1>3 DEF Respond, UpstreamPeer, FailToConnect, UpstreamRequestFilter
<1>4. CASE RequestBodyFilter(q) \/ UpstreamResponseFilter(q) \/ UpstreamResponseBodyFilter(q)
    BY Zenon, <1>4 DEF RequestBodyFilter, UpstreamResponseFilter, UpstreamResponseBodyFilter
<1>5. CASE ErrorWhileProxy(q) \/ Completes(q) \/ FailToProxy(q) \/ Logging(q)
    BY Zenon, <1>5 DEF ErrorWhileProxy, Completes, FailToProxy, Logging
<1> QED BY Zenon, <1>1, <1>2, <1>3, <1>4, <1>5 DEF ProxyStep

LEMMA PublicStepIsResolverStep ==
    [PublicNext]_publicVars => [ResolverNext]_resolverVars
<1> SUFFICES ASSUME [PublicNext]_publicVars PROVE [ResolverNext]_resolverVars
    BY Zenon
<1>1. CASE UNCHANGED publicVars
    BY Zenon, <1>1 DEF publicVars
<1>2. CASE Expire \/ WorkerStep
    BY Zenon, <1>2 DEF ResolverNext
<1>3. ASSUME NEW q \in Requests, ProxyStep(q) \/ RenderStep(q) PROVE [ResolverNext]_resolverVars
    BY Zenon, <1>3, CallbackUsesResolver DEF ResolverNext
<1>4. CASE Event
    BY Zenon, <1>4 DEF Event
<1> QED BY Zenon, <1>1, <1>2, <1>3, <1>4
        DEF PublicNext, ReplaceRoute, RemoveRoute, BecomesIndeterminate, AcceptsStop

(* The proxy uses the resolver of the custom error page as it is meant to  *)
(* be used: every behaviour of the public requests is, seen from the       *)
(* resolver, one of ResolverSpec.                                          *)
THEOREM PublicImplementsResolver == PublicSpec => ResolverSpec
<1>1. PublicInit => ResolverInit
    BY Zenon DEF PublicInit
<1> QED BY <1>1, PublicStepIsResolverStep, PTL DEF PublicSpec, ResolverSpec

(* So the lease is honoured whatever the requests of the proxy go through  *)
(* when they come to render their error page.                              *)
THEOREM PublicLeaseHonoured == PublicSpec => []LeaseIsHonoured
  BY PublicImplementsResolver, LeaseHonoured, PTL

(* And no request is given addresses an earlier one has failed with.       *)
THEOREM PublicFailedNotRetried == PublicSpec => []FailedIsNotRetried
  BY PublicImplementsResolver, FailedNotRetried, PTL

-----------------------------------------------------------------------------
(* The concatenation of two sequences.                                     *)
LEMMA ConcatProperties ==
    ASSUME NEW S, NEW s \in Seq(S), NEW t \in Seq(S)
    PROVE  /\ s \o t \in Seq(S)
           /\ Len(s \o t) = Len(s) + Len(t)
           /\ \A i \in 1..(Len(s) + Len(t)) :
                 (s \o t)[i] = IF i <= Len(s) THEN s[i] ELSE t[i - Len(s)]
  OBVIOUS

(* The inductive invariant of the requests: their types, and four facts    *)
(* about each of them that the callbacks hand on.                          *)
Tokens ==
    {EmptySegment, "/", "no route", "not decodable"} \cup Hosts
        \cup UNION {Range(tokens) : tokens \in Range(KeyOrder) \cup Paths}

Routing == {"peer", "connecting", "proxying"}
Places == Routing \cup {"arriving", "absent", "rendering", "failing", "logging", "gone"}
Answers == {404, 500, 503}
Sources == {None, "internal", "upstream", "client", "request"}

Contexts == [key : Seq(Tokens), class : Answers \cup {None},
             request_activity : BOOLEAN, response_activity : BOOLEAN]

RequestTypes ==
    /\ host_routing \in BOOLEAN
    /\ routes \in Seq(Range(KeyOrder))
    /\ request \in [Requests -> [path : Paths, host : Hosts, upgrade : BOOLEAN]]
    /\ place \in [Requests -> Places]
    /\ ctx \in [Requests -> Contexts]
    /\ error \in [Requests -> Sources]
    /\ answered \in [Requests -> Answers \cup {0}]
    /\ written \in [Requests -> Nat]
    /\ counted \in [Requests -> Seq(Nat)]
    /\ arrivals \in [Requests -> Nat]
    /\ credited \in [Requests -> Seq(Seq(Tokens))]
    /\ due \in [Requests -> Seq(Tokens)]

(* Nothing has happened to a request that arrives.                         *)
Untouched(r) ==
    place[r] \in {"arriving", "absent"} =>
        /\ ctx[r].key = NoRoute /\ due[r] = NoRoute
        /\ ctx[r].class = None
        /\ ~ctx[r].request_activity /\ ~ctx[r].response_activity
        /\ answered[r] = 0 /\ written[r] = 0
        /\ counted[r] = <<>> /\ arrivals[r] = 0 /\ credited[r] = <<>>

(* It is routed where it is due, and only a miss is classified or answered *)
(* as one.                                                                 *)
RoutedAsDue(r) ==
    /\ ctx[r].key \in {NoRoute, due[r]}
    /\ place[r] \in Routing => ctx[r].key = due[r] /\ ~IsHealth(r)
    /\ ctx[r].class = 404 \/ answered[r] = 404 => due[r] = NoRoute

(* Each direction that was claimed, and no other, may have been credited.  *)
CreditedOnce(r) ==
    /\ \A i \in DOMAIN credited[r] : credited[r][i] = due[r]
    /\ Len(credited[r]) <= (IF ctx[r].request_activity THEN 1 ELSE 0)
                             + (IF ctx[r].response_activity THEN 1 ELSE 0)
    /\ ctx[r].response_activity => request[r].upgrade

(* Whoever may still count a response has not counted one.                 *)
CountedOnce(r) ==
    /\ place[r] \in {"peer", "connecting"} => written[r] = 0
    /\ place[r] \in Routing \/ (place[r] = "failing" /\ error[r] # "client")
          => (written[r] = 0 => counted[r] = <<>>)
    /\ place[r] = "rendering" =>
          written[r] = 0 /\ answered[r] # 0 /\ counted[r] = <<answered[r]>>
    /\ place[r] = "failing" /\ IsHealth(r) => error[r] = "client"
    /\ written[r] # 0 =>
          counted[r] = IF (IsHealth(r) /\ written[r] = 200) \/ written[r] = 101
                       THEN <<>> ELSE <<written[r]>>
    /\ place[r] \notin {"arriving", "absent"} =>
          arrivals[r] = IF IsHealth(r) /\ counted[r] = <<>> THEN 0 ELSE 1

RequestInv(r) == Untouched(r) /\ RoutedAsDue(r) /\ CreditedOnce(r) /\ CountedOnce(r)

ProxyInv == RequestTypes /\ \A r \in Requests : RequestInv(r)

(* Keys and paths are made of the tokens, and no key is NoRoute, which no  *)
(* normalization leaves as it is.                                          *)
LEMMA TokensAre ==
    /\ EmptySegment \in Tokens
    /\ NoRoute \in Seq(Tokens)
    /\ Range(KeyOrder) \cup Paths \subseteq Seq(Tokens)
    /\ NoRoute \notin Range(KeyOrder)
<1>1. EmptySegment \in Tokens /\ NoRoute \in Seq(Tokens)
    BY DEF Tokens, NoRoute
<1>2. ASSUME NEW tokens \in Range(KeyOrder) \cup Paths PROVE tokens \in Seq(Tokens)
  <2>1. tokens \in Seq(Range(tokens))
    BY Zenon, ProxyAssumption
  <2>2. Range(tokens) \subseteq Tokens
    BY Zenon DEF Tokens
  <2> HIDE DEF Tokens
  <2> QED BY <2>1, <2>2
<1>3. Normalize(NoRoute) # NoRoute
  <2> DEFINE rooted == <<"/">> \o NoRoute
  <2>1. NoRoute # <<>> /\ Head(NoRoute) # "/" /\ Len(NoRoute) = 1
    BY DEF NoRoute
  <2>2. Len(rooted) = 2 /\ rooted[2] # "/"
    <3>1. <<"/">> \in Seq(Tokens) /\ Len(<<"/">>) = 1 /\ NoRoute[1] # "/"
      BY DEF Tokens, NoRoute
    <3>2. /\ Len(rooted) = 1 + 1
          /\ \A i \in 1..(1 + 1) : rooted[i] = IF i <= 1 THEN <<"/">>[i] ELSE NoRoute[i - 1]
      BY <1>1, <2>1, <3>1, ConcatProperties
    <3>3. rooted[2] = NoRoute[2 - 1] /\ 2 - 1 = 1
      BY <3>2
    <3> QED BY <3>1, <3>2, <3>3
  <2> HIDE DEF rooted
  <2>3. Normalize(NoRoute) = rooted
    BY Zenon, <2>1, <2>2 DEF Normalize, rooted
  <2> QED BY <2>1, <2>2, <2>3
<1> QED BY Zenon, <1>1, <1>2, <1>3, ProxyAssumption

(* The lookup of a request finds what it is due, in any table there can    *)
(* be.                                                                     *)
LEMMA LookupIsRight ==
    ASSUME RequestTypes, NEW r \in Requests, LookupPath(r) # Undecodable
    PROVE  /\ Resolve(routes, LookupPath(r)) = DeepestRoute(routes, LookupPath(r))
           /\ Resolve(routes, LookupPath(r)) \in Range(KeyOrder) \cup {NoRoute}
<1> DEFINE decoded == PercentDecode(request[r].path)
<1>1. request[r].path \in Seq(Tokens) /\ request[r].host \in Tokens /\ "/" \in Tokens
    BY Zenon, TokensAre DEF RequestTypes, Tokens
<1>2. decoded # Undecodable => decoded \in Seq(Tokens)
    BY <1>1 DEF PercentDecode
<1> HIDE DEF decoded
<1>3. LookupPath(r) \in Seq(Tokens)
  <2>1. <<"/", request[r].host>> \in Seq(Tokens)
    BY <1>1
  <2> QED BY <1>2, <2>1 DEF LookupPath, decoded
<1>4. routes \in Seq(Seq(Tokens)) /\ \A i \in 1..Len(routes) : routes[i] # NoRoute
  <2>1. routes \in Seq(Range(KeyOrder))
    BY Zenon DEF RequestTypes
  <2> QED BY <2>1, TokensAre
<1>5. Range(routes) \subseteq Range(KeyOrder)
  <2>1. routes \in Seq(Range(KeyOrder))
    BY Zenon DEF RequestTypes
  <2>2. \A i \in DOMAIN routes : routes[i] \in Range(KeyOrder)
    BY <2>1
  <2> QED BY Zenon, <2>2 DEF Range
<1> QED BY Zenon, <1>3, <1>4, <1>5, TokensAre, MatcherIsRight

(* v' is v but for q.                                                      *)
Framed(v, w, T, q) == w \in [Requests -> T] /\ \A r \in Requests \ {q} : w[r] = v[r]

(* A step of q: what else it changes belongs to q.                         *)
Frames(q) ==
    /\ UNCHANGED <<host_routing, routes, request>>
    /\ Framed(place, place', Places, q)
    /\ Framed(ctx, ctx', Contexts, q)
    /\ Framed(error, error', Sources, q)
    /\ Framed(answered, answered', Answers \cup {0}, q)
    /\ Framed(written, written', Nat, q)
    /\ Framed(counted, counted', Seq(Nat), q)
    /\ Framed(arrivals, arrivals', Nat, q)
    /\ Framed(credited, credited', Seq(Seq(Tokens)), q)
    /\ Framed(due, due', Seq(Tokens), q)

LEMMA UpdateIsFramed ==
    ASSUME NEW T, NEW v \in [Requests -> T], NEW q \in Requests, NEW x \in T
    PROVE  Framed(v, [v EXCEPT ![q] = x], T, q) /\ [v EXCEPT ![q] = x][q] = x
  BY Zenon DEF Framed

LEMMA UnchangedIsFramed ==
    ASSUME RequestTypes, NEW q \in Requests
    PROVE  /\ place' = place => Framed(place, place', Places, q)
           /\ ctx' = ctx => Framed(ctx, ctx', Contexts, q)
           /\ error' = error => Framed(error, error', Sources, q)
           /\ answered' = answered => Framed(answered, answered', Answers \cup {0}, q)
           /\ written' = written => Framed(written, written', Nat, q)
           /\ counted' = counted => Framed(counted, counted', Seq(Nat), q)
           /\ arrivals' = arrivals => Framed(arrivals, arrivals', Nat, q)
           /\ credited' = credited => Framed(credited, credited', Seq(Seq(Tokens)), q)
           /\ due' = due => Framed(due, due', Seq(Tokens), q)
<1>1. ASSUME NEW T, NEW v \in [Requests -> T] PROVE Framed(v, v, T, q)
    BY Zenon DEF Framed
<1> QED BY Zenon, <1>1 DEF RequestTypes

(* Such a step keeps the types, and whatever holds of the other requests.  *)
LEMMA FramesKeepTypes ==
    ASSUME RequestTypes, NEW q \in Requests, Frames(q)
    PROVE  RequestTypes'
  BY Zenon DEF Frames, Framed, RequestTypes

LEMMA FramesKeepOthers ==
    ASSUME NEW q \in Requests, Frames(q), NEW r \in Requests \ {q}, RequestInv(r)
    PROVE  RequestInv(r)'
<1>1. /\ place'[r] = place[r] /\ ctx'[r] = ctx[r] /\ error'[r] = error[r]
      /\ answered'[r] = answered[r] /\ written'[r] = written[r] /\ counted'[r] = counted[r]
      /\ arrivals'[r] = arrivals[r] /\ credited'[r] = credited[r] /\ due'[r] = due[r]
      /\ request'[r] = request[r]
    BY Zenon DEF Frames, Framed
<1>2. IsHealth(r)' <=> IsHealth(r)
    BY Zenon, <1>1 DEF IsHealth
<1>3. Untouched(r)'
    BY Zenon, <1>1 DEF RequestInv, Untouched
<1>4. RoutedAsDue(r)'
    BY <1>1, <1>2 DEF RequestInv, RoutedAsDue
<1>5. CreditedOnce(r)'
    BY Zenon, <1>1 DEF RequestInv, CreditedOnce
<1>6. CountedOnce(r)'
    BY <1>1, <1>2 DEF RequestInv, CountedOnce
<1> QED BY Zenon, <1>3, <1>4, <1>5, <1>6 DEF RequestInv

-----------------------------------------------------------------------------
(* What the pieces of an action do to the request that takes it.           *)

LEMMA AtEffect ==
    ASSUME RequestTypes, NEW q \in Requests, NEW p \in Places, At(q, p)
    PROVE  Framed(place, place', Places, q) /\ place'[q] = p
  BY Zenon, UpdateIsFramed DEF At, RequestTypes

LEMMA FailsEffect ==
    ASSUME RequestTypes, NEW q \in Requests, NEW source \in Sources, Fails(q, source)
    PROVE  /\ Framed(place, place', Places, q) /\ place'[q] = "failing"
           /\ Framed(error, error', Sources, q) /\ error'[q] = source
<1>1. At(q, "failing") /\ "failing" \in Places
    BY Zenon DEF Fails, Places
<1>2. Framed(error, error', Sources, q) /\ error'[q] = source
    BY Zenon, UpdateIsFramed DEF Fails, RequestTypes
<1> QED BY Zenon, <1>1, <1>2, AtEffect

LEMMA WritesEffect ==
    ASSUME RequestTypes, NEW q \in Requests, NEW status \in Nat, Writes(q, status)
    PROVE  /\ Framed(place, place', Places, q)
           /\ Framed(error, error', Sources, q)
           /\ Framed(written, written', Nat, q)
           /\ \/ place'[q] = "logging" /\ error'[q] = error[q] /\ written'[q] = status
              \/ place'[q] = "failing" /\ error'[q] = "client" /\ written'[q] = written[q]
<1>1. "logging" \in Places /\ "client" \in Sources
    BY Zenon DEF Places, Sources
<1>2. CASE /\ written' = [written EXCEPT ![q] = status]
           /\ At(q, "logging") /\ UNCHANGED error
  <2>1. Framed(written, written', Nat, q) /\ written'[q] = status
    BY Zenon, <1>2, UpdateIsFramed DEF RequestTypes
  <2> QED BY Zenon, <1>1, <1>2, <2>1, AtEffect, UnchangedIsFramed
<1>3. CASE Fails(q, "client") /\ UNCHANGED written
    BY Zenon, <1>1, <1>3, FailsEffect, UnchangedIsFramed
<1> QED BY Zenon, <1>2, <1>3 DEF Writes

LEMMA CountsEffect ==
    ASSUME RequestTypes, NEW q \in Requests, NEW status \in Nat, Counts(q, status)
    PROVE  /\ Framed(counted, counted', Seq(Nat), q)
           /\ counted[q] = <<>> => counted'[q] = <<status>>
<1>1. counted \in [Requests -> Seq(Nat)] /\ Append(counted[q], status) \in Seq(Nat)
    BY DEF RequestTypes
<1>2. Framed(counted, counted', Seq(Nat), q) /\ counted'[q] = Append(counted[q], status)
    BY Zenon, <1>1, UpdateIsFramed DEF Counts
<1>3. Append(<<>>, status) = <<status>>
    OBVIOUS
<1> QED BY Zenon, <1>2, <1>3

LEMMA ArrivesEffect ==
    ASSUME RequestTypes, NEW q \in Requests, Arrives(q)
    PROVE  Framed(arrivals, arrivals', Nat, q) /\ arrivals'[q] = arrivals[q] + 1
<1>1. arrivals \in [Requests -> Nat] /\ arrivals[q] + 1 \in Nat
    BY DEF RequestTypes
<1> QED BY Zenon, <1>1, UpdateIsFramed DEF Arrives

AnswersWith(q, status) == answered' = [answered EXCEPT ![q] = status]

LEMMA AnsweredEffect ==
    ASSUME RequestTypes, NEW q \in Requests, NEW status \in Answers, AnswersWith(q, status)
    PROVE  Framed(answered, answered', Answers \cup {0}, q) /\ answered'[q] = status
  BY Zenon, UpdateIsFramed DEF RequestTypes, AnswersWith

LEMMA ContextEffect ==
    ASSUME RequestTypes, NEW q \in Requests, NEW c \in Contexts, ctx' = [ctx EXCEPT ![q] = c]
    PROVE  Framed(ctx, ctx', Contexts, q) /\ ctx'[q] = c
  BY Zenon, UpdateIsFramed DEF RequestTypes

Classifies(q, class) == ctx' = [ctx EXCEPT ![q] = Classified(@, class)]

LEMMA ClassifiedEffect ==
    ASSUME RequestTypes, NEW q \in Requests, NEW class \in Answers, Classifies(q, class)
    PROVE  /\ Framed(ctx, ctx', Contexts, q)
           /\ ctx'[q].key = ctx[q].key /\ ctx'[q].class = class
           /\ ctx'[q].request_activity = ctx[q].request_activity
           /\ ctx'[q].response_activity = ctx[q].response_activity
<1> DEFINE c == Classified(ctx[q], class)
<1>1. ctx \in [Requests -> Contexts] /\ ctx[q] \in Contexts
    BY Zenon DEF RequestTypes
<1>2. /\ c \in Contexts /\ c.key = ctx[q].key /\ c.class = class
      /\ c.request_activity = ctx[q].request_activity
      /\ c.response_activity = ctx[q].response_activity
    BY Zenon, <1>1 DEF Classified, Contexts
<1> HIDE DEF c
<1>3. ctx' = [ctx EXCEPT ![q] = c]
    BY Zenon DEF Classifies, c
<1>4. Framed(ctx, ctx', Contexts, q) /\ ctx'[q] = c
    BY Zenon, <1>2, <1>3, ContextEffect
<1> QED BY Zenon, <1>2, <1>4

LEMMA KeyEffect ==
    ASSUME RequestTypes, NEW q \in Requests, NEW key \in Seq(Tokens),
           ctx' = [ctx EXCEPT ![q].key = key]
    PROVE  /\ Framed(ctx, ctx', Contexts, q)
           /\ ctx'[q].key = key /\ ctx'[q].class = ctx[q].class
           /\ ctx'[q].request_activity = ctx[q].request_activity
           /\ ctx'[q].response_activity = ctx[q].response_activity
<1> DEFINE c == [ctx[q] EXCEPT !.key = key]
<1>1. ctx \in [Requests -> Contexts] /\ ctx[q] \in Contexts
    BY Zenon DEF RequestTypes
<1>2. /\ c \in Contexts /\ c.key = key /\ c.class = ctx[q].class
      /\ c.request_activity = ctx[q].request_activity
      /\ c.response_activity = ctx[q].response_activity
    BY Zenon, <1>1 DEF Contexts
<1>3. ctx' = [ctx EXCEPT ![q] = c]
    BY Zenon
<1> HIDE DEF c
<1>4. Framed(ctx, ctx', Contexts, q) /\ ctx'[q] = c
    BY Zenon, <1>2, <1>3, ContextEffect
<1> QED BY Zenon, <1>2, <1>4

LEMMA RequestActivityEffect ==
    ASSUME RequestTypes, NEW q \in Requests, ctx' = [ctx EXCEPT ![q].request_activity = TRUE]
    PROVE  /\ Framed(ctx, ctx', Contexts, q)
           /\ ctx'[q].key = ctx[q].key /\ ctx'[q].class = ctx[q].class
           /\ ctx'[q].request_activity
           /\ ctx'[q].response_activity = ctx[q].response_activity
<1> DEFINE c == [ctx[q] EXCEPT !.request_activity = TRUE]
<1>1. ctx \in [Requests -> Contexts] /\ ctx[q] \in Contexts
    BY Zenon DEF RequestTypes
<1>2. /\ c \in Contexts /\ c.key = ctx[q].key /\ c.class = ctx[q].class
      /\ c.request_activity
      /\ c.response_activity = ctx[q].response_activity
    BY Zenon, <1>1 DEF Contexts
<1>3. ctx' = [ctx EXCEPT ![q] = c]
    BY Zenon
<1> HIDE DEF c
<1>4. Framed(ctx, ctx', Contexts, q) /\ ctx'[q] = c
    BY Zenon, <1>2, <1>3, ContextEffect
<1> QED BY Zenon, <1>2, <1>4

LEMMA ResponseActivityEffect ==
    ASSUME RequestTypes, NEW q \in Requests, ctx' = [ctx EXCEPT ![q].response_activity = TRUE]
    PROVE  /\ Framed(ctx, ctx', Contexts, q)
           /\ ctx'[q].key = ctx[q].key /\ ctx'[q].class = ctx[q].class
           /\ ctx'[q].request_activity = ctx[q].request_activity
           /\ ctx'[q].response_activity
<1> DEFINE c == [ctx[q] EXCEPT !.response_activity = TRUE]
<1>1. ctx \in [Requests -> Contexts] /\ ctx[q] \in Contexts
    BY Zenon DEF RequestTypes
<1>2. /\ c \in Contexts /\ c.key = ctx[q].key /\ c.class = ctx[q].class
      /\ c.request_activity = ctx[q].request_activity
      /\ c.response_activity
    BY Zenon, <1>1 DEF Contexts
<1>3. ctx' = [ctx EXCEPT ![q] = c]
    BY Zenon
<1> HIDE DEF c
<1>4. Framed(ctx, ctx', Contexts, q) /\ ctx'[q] = c
    BY Zenon, <1>2, <1>3, ContextEffect
<1> QED BY Zenon, <1>2, <1>4

(* A request on its way is credited to the route it is due.                *)
LEMMA PublishEffect ==
    ASSUME RequestTypes, NEW q \in Requests, RequestInv(q), PublishActivity(q)
    PROVE  /\ Framed(credited, credited', Seq(Seq(Tokens)), q)
           /\ \A i \in DOMAIN credited'[q] : credited'[q][i] = due[q]
           /\ Len(credited'[q]) <= Len(credited[q]) + 1
<1> DEFINE old == credited[q]
           key == ctx[q].key
           new == IF key = NoRoute THEN old ELSE Append(old, key)
<1>1. /\ credited \in [Requests -> Seq(Seq(Tokens))] /\ old \in Seq(Seq(Tokens))
      /\ key \in Seq(Tokens)
    BY Zenon DEF RequestTypes, Contexts
<1>2. key \in {NoRoute, due[q]} /\ \A i \in DOMAIN old : old[i] = due[q]
    BY Zenon DEF RequestInv, RoutedAsDue, CreditedOnce
<1>3. credited' = [credited EXCEPT ![q] = new]
    BY Zenon DEF PublishActivity
<1> HIDE DEF old, key
<1>4. /\ new \in Seq(Seq(Tokens)) /\ Len(new) <= Len(old) + 1
      /\ \A i \in DOMAIN new : new[i] = due[q]
    BY <1>1, <1>2
<1> HIDE DEF new
<1>5. Framed(credited, credited', Seq(Seq(Tokens)), q) /\ credited'[q] = new
    BY Zenon, <1>1, <1>3, <1>4, UpdateIsFramed
<1> QED BY Zenon, <1>4, <1>5 DEF old
=============================================================================
