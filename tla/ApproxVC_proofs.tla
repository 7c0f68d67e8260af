---------------------------- MODULE ApproxVC_proofs ----------------------------
(* Proofs about the approximate solvers, for every graph the parser accepts.   *)
EXTENDS ApproxVC, FiniteSetTheorems, WellFoundedInduction, TLAPS

(* A non-empty set of naturals has a least element.                            *)
LEMMA LeastOf ==
    ASSUME NEW S, S \subseteq Nat, S # {}
    PROVE  \E m \in S : \A x \in S : m <= x
<1>1. PICK m \in S : \A x \in S : ~ (<<x, m>> \in OpToRel(<, Nat))
  BY NatLessThanWellFounded, WFMin
<1>2. \A x \in S : ~ (x < m)
  BY <1>1 DEF OpToRel
<1> QED
  BY <1>2

(* The number of neighbours of a vertex is a natural number: they lie between  *)
(* 0 and the size of the graph.                                                *)
LEMMA DegreeType ==
    ASSUME n \in Nat, edges \subseteq (0 .. n) \X (0 .. n), NEW v
    PROVE  Degree(v) \in 0 .. n + 1
<1>1. Connections(v, edges) \in SUBSET (0 .. n)
  BY DEF Connections
<1>2. IsFiniteSet(0 .. n) /\ Cardinality(0 .. n) = n + 1
  BY FS_Interval
<1>3. IsFiniteSet(Connections(v, edges)) /\ Cardinality(Connections(v, edges)) <= n + 1
  BY <1>1, <1>2, FS_Subset
<1>4. Cardinality(Connections(v, edges)) \in Nat
  BY <1>3, FS_CardinalityType
<1> QED
  BY <1>3, <1>4 DEF Degree

(* max_element always finds a vertex of the graph (MyGraph.cpp:362).           *)
LEMMA HighestExists ==
    ASSUME n \in Nat \ {0}, edges \subseteq (0 .. n) \X (0 .. n)
    PROVE  HighestDegree \in 1 .. n /\ IsHighest(HighestDegree)
<1> DEFINE short(v) == n + 1 - Degree(v)
           S == {short(v) : v \in 1 .. n}
<1>1. \A v \in 1 .. n : Degree(v) \in 0 .. n + 1
  BY DegreeType
<1>2. S \subseteq Nat /\ S # {}
  BY <1>1
<1>3. PICK m \in S : \A x \in S : m <= x
  BY <1>2, LeastOf
<1> DEFINE T == {v \in 1 .. n : short(v) = m}
<1>4. T \subseteq Nat /\ T # {}
  BY <1>3
<1>5. PICK w \in T : \A x \in T : w <= x
  BY <1>4, LeastOf
<1>6. w \in 1 .. n /\ short(w) = m
  BY <1>5
<1>7. ASSUME NEW u \in 1 .. n
      PROVE  Degree(u) < Degree(w) \/ (Degree(u) = Degree(w) /\ w <= u)
  <2>1. short(w) <= short(u)
    BY <1>3, <1>6
  <2>2. Degree(u) \in Nat /\ Degree(w) \in Nat /\ n \in Nat
    BY <1>1, <1>6
  <2>3. Degree(u) <= Degree(w)
    BY <2>1, <2>2
  <2>4. Degree(u) = Degree(w) => u \in T
    BY <1>6
  <2> QED
    BY <2>2, <2>3, <2>4, <1>5
<1>8. IsHighest(w)
  BY <1>7 DEF IsHighest
<1> QED
  BY <1>6, <1>8 DEF HighestDegree

-------------------------------------------------------------------------------
(* Every edge of the original graph ends in a vertex of 0 .. n, and is still   *)
(* there or touched by a vertex of the list.                                   *)
InputFits == given \subseteq (0 .. n) \X (0 .. n)

Touched == \A p \in given : p \in edges \/ p[1] \in Range(picked) \/ p[2] \in Range(picked)

IInv ==
    /\ TypeOK /\ InputFits /\ Touched
    /\ pc = "done" => edges = {} /\ cover = Range(picked)

(* Picking a vertex of the graph keeps the invariant: the edges that go are    *)
(* those the vertex touches, and a list that is cut loses nothing.             *)
LEMMA PickKeepsInv ==
    ASSUME IInv, pc = "loop", NEW v \in 1 .. n, Pick(v)
    PROVE  IInv'
<1> USE DEF IInv, TypeOK
<1>1. edges' = ClearConnections(v, edges) /\ edges' \subseteq edges
  BY DEF Pick, ClearConnections
<1>2. n' = n /\ given' = given /\ solver' = solver /\ cover' = cover /\ pc' = pc
  BY DEF Pick
<1>3. picked' \in Seq(1 .. n) /\ Range(picked) \subseteq Range(picked')
      /\ (edges' # edges => v \in Range(picked'))
  <2>1. CASE Full(v)
    BY <2>1, <1>1 DEF Pick, Full
  <2>2. CASE ~Full(v)
    <3>1. picked' = Append(picked, v)
      BY <2>2 DEF Pick
    <3>2. picked' \in Seq(1 .. n) /\ Len(picked') = Len(picked) + 1
          /\ picked'[Len(picked) + 1] = v
          /\ \A i \in 1 .. Len(picked) : picked'[i] = picked[i]
      BY <3>1
    <3>3. DOMAIN picked = 1 .. Len(picked) /\ DOMAIN picked' = 1 .. Len(picked) + 1
          /\ Len(picked) \in Nat
      BY <3>2
    <3> QED
      BY <3>2, <3>3 DEF Range
  <2> QED
    BY <2>1, <2>2
<1>4. Touched'
  <2> SUFFICES ASSUME NEW p \in given, p \notin edges'
               PROVE  p[1] \in Range(picked') \/ p[2] \in Range(picked')
    BY <1>2 DEF Touched
  <2>1. CASE p \in edges
    <3>1. p[1] = v \/ p[2] = v
      BY <2>1, <1>1 DEF ClearConnections
    <3>2. edges' # edges
      BY <2>1
    <3> QED
      BY <3>1, <3>2, <1>3
  <2>2. CASE p \notin edges
    BY <2>2, <1>3 DEF Touched
  <2> QED
    BY <2>1, <2>2
<1>5. InputFits'
  BY <1>2 DEF InputFits
<1> QED
  BY <1>1, <1>2, <1>3, <1>4, <1>5

(* The invariant holds when a function is called on a parsed graph ...         *)
LEMMA InitIInv == Init => IInv
<1> SUFFICES ASSUME Init PROVE IInv
  OBVIOUS
<1>1. PICK g \in Inputs : n = g.n /\ given = g.edges
  BY DEF Init
<1>2. g \in ParsedGraph
  BY InputsAssumption
<1>3. n \in Nat \ {0} /\ given \subseteq Nat \X Nat
      /\ \A p \in given : p[1] <= n /\ p[2] <= n
  BY <1>1, <1>2 DEF ParsedGraph
<1>4. InputFits
  BY <1>3 DEF InputFits
<1>5. <<>> \in Seq(1 .. n) /\ {} \subseteq 1 .. n
  OBVIOUS
<1> QED
  BY <1>3, <1>4, <1>5 DEF Init, IInv, TypeOK, Touched

(* ... and every step keeps it.                                                *)
LEMMA NextIInv == IInv /\ [Next]_vars => IInv'
<1> SUFFICES ASSUME IInv, [Next]_vars PROVE IInv'
  OBVIOUS
<1>1. CASE PickHighest
  <2>1. edges \subseteq (0 .. n) \X (0 .. n)
    BY DEF IInv, TypeOK, InputFits
  <2>2. HighestDegree \in 1 .. n
    BY <2>1, HighestExists DEF IInv, TypeOK
  <2> QED
    BY <1>1, <2>2, PickKeepsInv DEF PickHighest
<1>2. CASE PickRandom
  <2>1. PICK v \in Connected : Pick(v)
    BY <1>2 DEF PickRandom
  <2>2. v \in 1 .. n
    BY DEF Connected
  <2> QED
    BY <1>2, <2>1, <2>2, PickKeepsInv DEF PickRandom
<1>3. CASE Return
  <2>1. Range(picked) \subseteq 1 .. n
    BY DEF IInv, TypeOK, Range
  <2> QED
    BY <1>3, <2>1 DEF Return, IInv, TypeOK, InputFits, Touched
<1>4. CASE UNCHANGED vars
  BY <1>4 DEF vars, IInv, TypeOK, InputFits, Touched
<1> QED
  BY <1>1, <1>2, <1>3, <1>4 DEF Next

(* Edges only ever disappear, and only vertices of the graph are picked.       *)
THEOREM ApproxTypes == Spec => []TypeOK
<1>1. IInv => TypeOK
  BY DEF IInv
<1> QED
  BY <1>1, InitIInv, NextIInv, PTL DEF Spec

(* Both functions only ever return a cover of the graph they were called on,   *)
(* made of vertices of that graph, whatever bytes /dev/urandom delivers.       *)
THEOREM ApproxCovers == Spec => []CoverOnReturn
<1>1. IInv => CoverOnReturn
  <2> SUFFICES ASSUME IInv PROVE CoverOnReturn
    OBVIOUS
  <2>1. ASSUME NEW p \in given \ edges PROVE Covers(Range(picked), {p})
    BY DEF IInv, Touched, Covers
  <2>2. pc = "done" => Covers(cover, given)
    BY DEF IInv, Touched, Covers
  <2> QED
    BY <2>1, <2>2 DEF CoverOnReturn
<1> QED
  BY <1>1, InitIInv, NextIInv, PTL DEF Spec

(* On the edge <0,0>, which the parser lets through (helpers.cpp:104), neither *)
(* function ever returns, whatever else is in the graph: README.md:7 promises  *)
(* that the process ends when no edges remain, and this one always does.       *)
THEOREM ApproxSpins == Spec => []SpinsOnZeroZero
<1>1. IInv => SpinsOnZeroZero
  <2> SUFFICES ASSUME IInv, <<0, 0>> \in given, pc = "done" PROVE FALSE
    BY DEF SpinsOnZeroZero, IInv, TypeOK
  <2>1. Covers(cover, given) /\ cover \subseteq 1 .. n /\ n \in Nat
    BY DEF IInv, Touched, Covers, TypeOK
  <2>2. 0 \in cover
    BY <2>1 DEF Covers
  <2> QED
    BY <2>1, <2>2
<1> QED
  BY <1>1, InitIInv, NextIInv, PTL DEF Spec

-------------------------------------------------------------------------------
(* Why no pick is wasted: what was picked touches no edge that is left, so the *)
(* next vertex, which does, is a new one; and so is its neighbour.             *)
Simple == \A p \in given : p[1] # p[2] /\ 0 \notin {p[1], p[2]}

Distinct == \A i, j \in DOMAIN picked : picked[i] = picked[j] => i = j

Apart == \A p \in edges : p[1] \notin Range(picked) /\ p[2] \notin Range(picked)

JInv ==
    <<0, 0>> \notin given =>
        /\ Apart /\ Distinct
        /\ Len(picked) <= Cardinality(given \ edges)
        /\ Simple => \E u \in 1 .. n : u \notin Range(picked)

(* The graph has finitely many edges.                                          *)
LEMMA FiniteEdges ==
    ASSUME IInv
    PROVE  IsFiniteSet(given)
<1>1. n \in Nat /\ given \in SUBSET ((0 .. n) \X (0 .. n))
  BY DEF IInv, TypeOK, InputFits
<1>2. IsFiniteSet(0 .. n)
  BY <1>1, FS_Interval
<1>3. IsFiniteSet((0 .. n) \X (0 .. n))
  BY <1>2, FS_Product
<1> QED
  BY <1>1, <1>3, FS_Subset

(* Without <0,0> a vertex of highest degree has a neighbour while an edge is   *)
(* left: each edge has an end in 1 .. n.                                       *)
LEMMA HighestHasEdge ==
    ASSUME IInv, <<0, 0>> \notin given, edges # {}
    PROVE  HighestDegree \in 1 .. n /\ Connections(HighestDegree, edges) # {}
<1> DEFINE h == HighestDegree
<1>1. n \in Nat \ {0} /\ edges \subseteq (0 .. n) \X (0 .. n) /\ edges \subseteq given
  BY DEF IInv, TypeOK, InputFits
<1>2. h \in 1 .. n /\ IsHighest(h)
  BY <1>1, HighestExists
<1>3. PICK x \in 1 .. n : Connections(x, edges) # {}
  <2>1. PICK p \in edges : TRUE
    OBVIOUS
  <2>2. p[1] \in 1 .. n \/ p[2] \in 1 .. n
    <3>1. p \in (0 .. n) \X (0 .. n) /\ p # <<0, 0>>
      BY <1>1
    <3> QED
      BY <3>1, <1>1
  <2>3. p[2] \in Connections(p[1], edges) /\ p[1] \in Connections(p[2], edges)
    BY DEF Connections
  <2> QED
    BY <2>2, <2>3
<1>4. IsFiniteSet(Connections(x, edges)) /\ IsFiniteSet(Connections(h, edges))
  <2>1. Connections(x, edges) \in SUBSET (0 .. n) /\ Connections(h, edges) \in SUBSET (0 .. n)
    BY <1>1 DEF Connections
  <2>2. IsFiniteSet(0 .. n)
    BY <1>1, FS_Interval
  <2> QED
    BY <2>1, <2>2, FS_Subset
<1>5. Degree(x) # 0 /\ Degree(x) \in Nat /\ Degree(h) \in Nat
  <2>1. Degree(x) \in Nat /\ Degree(h) \in Nat
    BY <1>1, DegreeType
  <2>2. Cardinality(Connections(x, edges)) # 0
    BY <1>3, <1>4, FS_EmptySet
  <2> QED
    BY <2>1, <2>2 DEF Degree
<1>6. Degree(h) # 0
  <2>1. Degree(x) < Degree(h) \/ Degree(x) = Degree(h)
    BY <1>2 DEF IsHighest
  <2> QED
    BY <2>1, <1>5
<1>7. Cardinality(Connections(h, edges)) # 0
  BY <1>6 DEF Degree
<1> QED
  BY <1>2, <1>7, FS_EmptySet

(* Picking a vertex that still has an edge keeps the invariant.                *)
LEMMA PickProgresses ==
    ASSUME IInv, JInv, <<0, 0>> \notin given, pc = "loop",
           NEW v \in 1 .. n, Connections(v, edges) # {}, Pick(v)
    PROVE  JInv'
<1>1. n \in Nat \ {0} /\ picked \in Seq(1 .. n) /\ edges \subseteq given
      /\ edges \subseteq (0 .. n) \X (0 .. n)
  BY DEF IInv, TypeOK, InputFits
<1>2. PICK p \in edges : p[1] = v \/ p[2] = v
  BY DEF Connections
<1>3. edges' = ClearConnections(v, edges) /\ edges' \subseteq edges /\ p \notin edges'
  BY <1>2 DEF Pick, ClearConnections
<1>4. ~Full(v)
  BY <1>2, <1>3 DEF Full
<1>5. picked' = Append(picked, v) /\ n' = n /\ given' = given
  BY <1>4 DEF Pick
<1>6. /\ Len(picked') = Len(picked) + 1 /\ Len(picked) \in Nat
      /\ DOMAIN picked = 1 .. Len(picked) /\ DOMAIN picked' = 1 .. Len(picked) + 1
      /\ picked'[Len(picked) + 1] = v
      /\ \A i \in 1 .. Len(picked) : picked'[i] = picked[i]
  BY <1>5, <1>1
<1>7. Range(picked') = Range(picked) \union {v}
  BY <1>6 DEF Range
<1>8. v \notin Range(picked)
  BY <1>2 DEF JInv, Apart
<1>9. Apart'
  BY <1>7, <1>3 DEF JInv, Apart, ClearConnections
<1>10. Distinct'
  <2> SUFFICES ASSUME NEW i \in DOMAIN picked', NEW j \in DOMAIN picked',
                      picked'[i] = picked'[j]
               PROVE  i = j
    BY DEF Distinct
  <2>1. \A m \in 1 .. Len(picked) : picked[m] # v
    BY <1>6, <1>8 DEF Range
  <2>2. \A m \in DOMAIN picked' : m = Len(picked) + 1 \/ m \in 1 .. Len(picked)
    BY <1>6
  <2>3. \A a, b \in 1 .. Len(picked) : picked[a] = picked[b] => a = b
    BY <1>6 DEF JInv, Distinct
  <2> QED
    BY <2>1, <2>2, <2>3, <1>6
<1>11. Len(picked') <= Cardinality((given \ edges)')
  <2> DEFINE gone == given \ edges
  <2>1. IsFiniteSet(given)
    BY FiniteEdges
  <2>2. IsFiniteSet(gone) /\ IsFiniteSet(given \ edges')
    BY <2>1, FS_Difference
  <2>3. IsFiniteSet(gone \union {p}) /\ Cardinality(gone \union {p}) = Cardinality(gone) + 1
    <3>1. p \notin gone
      BY <1>2
    <3> QED
      BY <3>1, <2>2, FS_AddElement
  <2>4. gone \union {p} \in SUBSET (given \ edges')
    BY <1>1, <1>2, <1>3
  <2>5. Cardinality(gone \union {p}) <= Cardinality(given \ edges')
    BY <2>2, <2>4, FS_Subset
  <2>6. Cardinality(gone) \in Nat /\ Cardinality(given \ edges') \in Nat
    BY <2>2, FS_CardinalityType
  <2>7. Len(picked) <= Cardinality(gone)
    BY DEF JInv
  <2> QED
    BY <2>3, <2>5, <2>6, <2>7, <1>5, <1>6
<1>12. Simple' => \E u \in 1 .. n' : u \notin Range(picked')
  <2> SUFFICES ASSUME Simple PROVE \E u \in 1 .. n : u \notin Range(picked')
    BY <1>5 DEF Simple
  <2>1. p[1] # p[2] /\ p[1] \in 1 .. n /\ p[2] \in 1 .. n
    <3>1. p \in (0 .. n) \X (0 .. n) /\ p[1] # p[2] /\ p[1] # 0 /\ p[2] # 0
      BY <1>1, <1>2 DEF Simple
    <3> QED
      BY <3>1, <1>1
  <2>2. p[1] \notin Range(picked) /\ p[2] \notin Range(picked)
    BY <1>2 DEF JInv, Apart
  <2> QED
    BY <2>1, <2>2, <1>2, <1>7
<1> QED
  BY <1>9, <1>10, <1>11, <1>12, <1>5 DEF JInv

(* On a graph without <0,0> no vertex is picked twice, every pick removes an   *)
(* edge, and on a simple graph the cover leaves a vertex out: the two loops    *)
(* make at most as many rounds as there are edges.                             *)
THEOREM ApproxProgresses == Spec => []PicksProgress
<1>1. Init => IInv /\ JInv
  <2> SUFFICES ASSUME Init PROVE JInv
    BY InitIInv
  <2>1. picked = <<>> /\ edges = given /\ n \in Nat \ {0}
    BY InitIInv DEF Init, IInv, TypeOK
  <2>2. Len(picked) = 0 /\ Range(picked) = {} /\ DOMAIN picked = {}
    BY <2>1 DEF Range
  <2>3. Cardinality(given \ edges) = 0
    <3>1. given \ edges = {}
      BY <2>1
    <3> QED
      BY <3>1, FS_EmptySet
  <2>4. 1 \in 1 .. n
    BY <2>1
  <2> QED
    BY <2>2, <2>3, <2>4 DEF JInv, Apart, Distinct
<1>2. IInv /\ JInv /\ [Next]_vars => JInv'
  <2> SUFFICES ASSUME IInv, JInv, [Next]_vars PROVE JInv'
    OBVIOUS
  <2>1. CASE UNCHANGED vars
    BY <2>1 DEF vars, JInv, Apart, Distinct, Simple
  <2>2. CASE Return
    BY <2>2 DEF Return, JInv, Apart, Distinct, Simple
  <2>3. ASSUME <<0, 0>> \notin given, PickHighest PROVE JInv'
    <3>1. HighestDegree \in 1 .. n /\ Connections(HighestDegree, edges) # {}
      BY <2>3, HighestHasEdge DEF PickHighest
    <3> QED
      BY <2>3, <3>1, PickProgresses DEF PickHighest
  <2>4. ASSUME <<0, 0>> \notin given, PickRandom PROVE JInv'
    <3>1. PICK v \in Connected : Pick(v)
      BY <2>4 DEF PickRandom
    <3>2. v \in 1 .. n /\ Connections(v, edges) # {}
      BY DEF Connected
    <3> QED
      BY <2>4, <3>1, <3>2, PickProgresses DEF PickRandom
  <2>5. given' = given
    BY DEF Next, PickHighest, PickRandom, Return, Pick, vars
  <2>6. CASE <<0, 0>> \in given
    BY <2>5, <2>6 DEF JInv
  <2> QED
    BY <2>1, <2>2, <2>3, <2>4, <2>6 DEF Next
<1>3. IInv /\ JInv => PicksProgress
  <2> SUFFICES ASSUME IInv, JInv, <<0, 0>> \notin given, Simple
               PROVE  Len(picked) < n
    BY DEF JInv, PicksProgress, Distinct, Simple
  <2>1. n \in Nat \ {0} /\ picked \in Seq(1 .. n)
    BY DEF IInv, TypeOK
  <2>2. PICK u \in 1 .. n : u \notin Range(picked)
    BY DEF JInv
  <2>3. picked \in Injection(1 .. Len(picked), (1 .. n) \ {u})
    <3>1. picked \in [1 .. Len(picked) -> 1 .. n]
      BY <2>1
    <3>2. \A i \in 1 .. Len(picked) : picked[i] # u
      BY <2>2, <3>1 DEF Range
    <3>3. picked \in [1 .. Len(picked) -> (1 .. n) \ {u}]
      BY <3>1, <3>2
    <3> QED
      BY <3>1, <3>3 DEF JInv, Distinct, Injection, IsInjective
  <2>4. IsFiniteSet(1 .. n) /\ Cardinality(1 .. n) = n
    BY <2>1, FS_Interval
  <2>5. IsFiniteSet((1 .. n) \ {u}) /\ Cardinality((1 .. n) \ {u}) = n - 1
    BY <2>4, FS_RemoveElement
  <2>6. Cardinality(1 .. Len(picked)) <= n - 1
    BY <2>3, <2>5, FS_Injection
  <2>7. Cardinality(1 .. Len(picked)) = Len(picked)
    <3>1. ASSUME NEW m \in Nat PROVE Cardinality(1 .. m) = m
      <4>1. Cardinality(1 .. m) = IF 1 > m THEN 0 ELSE m - 1 + 1
        BY FS_Interval
      <4> QED
        BY <4>1
    <3> QED
      BY <2>1, <3>1
  <2> QED
    BY <2>1, <2>6, <2>7
<1> QED
  BY <1>1, <1>2, <1>3, InitIInv, NextIInv, PTL DEF Spec

-------------------------------------------------------------------------------
(* The greedy bound.  Every vertex of a cover S starts with 25 tokens, which is *)
(* 12 * H(4), and may keep 12 * H(d) of them while d neighbours are left.  A    *)
(* pick of the greedy algorithm frees at least 12: all that the picked vertex  *)
(* has if it is in S, and otherwise 12/d or more of each of its d neighbours,  *)
(* which then are in S and have at most d neighbours themselves.               *)

Share(d) == IF d = 0 THEN 0 ELSE IF d = 1 THEN 12 ELSE IF d = 2 THEN 18 ELSE IF d = 3 THEN 22
            ELSE 25

Tokens(S, es) == {t \in S \X (1 .. 25) : t[2] <= Share(Cardinality(Connections(t[1], es)))}

FewNeighbours == \A v \in 1 .. n : Cardinality(Connections(v, given)) <= 4

Bounded(S) == 12 * Len(picked) + Cardinality(Tokens(S, edges)) <= 25 * Cardinality(S)

GInv == solver = "approxCv1" /\ FewNeighbours => \A S \in CoversOf(n, given) : Bounded(S)

LEMMA CountTo ==
    ASSUME NEW m \in Nat
    PROVE  IsFiniteSet(1 .. m) /\ Cardinality(1 .. m) = m
<1>1. IsFiniteSet(1 .. m) /\ Cardinality(1 .. m) = IF 1 > m THEN 0 ELSE m - 1 + 1
  BY FS_Interval
<1> QED
  BY <1>1

LEMMA TokensAreFinite ==
    ASSUME n \in Nat, NEW S \in SUBSET (1 .. n), NEW es
    PROVE  /\ IsFiniteSet(S) /\ Cardinality(S) \in Nat
           /\ IsFiniteSet(Tokens(S, es)) /\ Cardinality(Tokens(S, es)) \in Nat
           /\ Cardinality(Tokens(S, es)) <= 25 * Cardinality(S)
<1>1. IsFiniteSet(1 .. n) /\ IsFiniteSet(1 .. 25) /\ Cardinality(1 .. 25) = 25
  BY CountTo, 25 \in Nat
<1>2. IsFiniteSet(S) /\ Cardinality(S) \in Nat
  BY <1>1, FS_Subset, FS_CardinalityType
<1>3. /\ IsFiniteSet(S \X (1 .. 25))
      /\ Cardinality(S \X (1 .. 25)) = Cardinality(S) * Cardinality(1 .. 25)
  BY <1>1, <1>2, FS_Product
<1>4. Tokens(S, es) \in SUBSET (S \X (1 .. 25))
  BY DEF Tokens
<1>5. /\ IsFiniteSet(Tokens(S, es)) /\ Cardinality(Tokens(S, es)) \in Nat
      /\ Cardinality(Tokens(S, es)) <= Cardinality(S \X (1 .. 25))
  BY <1>3, <1>4, FS_Subset, FS_CardinalityType
<1> QED
  BY <1>1, <1>2, <1>3, <1>5

\* The neighbours that are left when the edges of h are gone.
LEMMA NeighboursLeft ==
    ASSUME NEW es, NEW h
    PROVE  /\ Connections(h, ClearConnections(h, es)) = {}
           /\ \A v : v # h =>
                Connections(v, ClearConnections(h, es)) = Connections(v, es) \ {h}
BY DEF Connections, ClearConnections

\* A set of tokens that are freed is at most as large as what the tokens lose.
LEMMA FreedCount ==
    ASSUME NEW T, NEW U, NEW F, IsFiniteSet(T), U \subseteq T, F \subseteq T \ U,
           Cardinality(F) = 12
    PROVE  Cardinality(U) + 12 <= Cardinality(T)
<1>1. IsFiniteSet(U) /\ Cardinality(U) \in Nat /\ Cardinality(T) \in Nat /\ IsFiniteSet(F)
  <2>1. U \in SUBSET T /\ F \in SUBSET T
    OBVIOUS
  <2> QED
    BY <2>1, FS_Subset, FS_CardinalityType
<1>2. Cardinality(U \cup F) = Cardinality(U) + Cardinality(F) - Cardinality(U \cap F)
  <2>1. IsFiniteSet(U) /\ IsFiniteSet(F)
    BY <1>1
  <2> QED
    BY <2>1, FS_Union
<1>3. U \cap F = {}
  OBVIOUS
<1>4. Cardinality(U \cap F) = 0
  BY <1>3, FS_EmptySet
<1>5. Cardinality(U \cup F) <= Cardinality(T)
  <2>1. U \cup F \in SUBSET T
    OBVIOUS
  <2> QED
    BY <2>1, FS_Subset
<1> QED
  BY <1>1, <1>2, <1>4, <1>5

\* Twelve tokens are freed when d vertices lose q each.
LEMMA TwelveFreed ==
    ASSUME NEW N, IsFiniteSet(N), NEW q \in 1 .. 12, Cardinality(N) * q = 12, NEW F, NEW a,
           \A t : t \in F <=> \E u \in N, i \in 1 .. q : t = <<u, a[u] + i>>,
           \A u \in N : a[u] \in Nat
    PROVE  Cardinality(F) = 12
<1> DEFINE P == N \X (1 .. q)
           f == [p \in P |-> <<p[1], a[p[1]] + p[2]>>]
<1>1. IsFiniteSet(1 .. q) /\ Cardinality(1 .. q) = q
  BY CountTo, q \in Nat
<1>2. IsFiniteSet(P) /\ Cardinality(P) = 12
  BY <1>1, FS_Product
<1>3. f \in Bijection(P, F)
  <2>1. \A p \in P : f[p] = <<p[1], a[p[1]] + p[2]>> /\ p[1] \in N /\ p[2] \in 1 .. q /\ p = <<p[1], p[2]>>
    OBVIOUS
  <2>2. f \in [P -> F]
    BY <2>1
  <2>3. ASSUME NEW x \in P, NEW y \in P, f[x] = f[y]
        PROVE  x = y
    <3>1. x[1] = y[1] /\ a[x[1]] + x[2] = a[y[1]] + y[2]
      BY <2>1, <2>3
    <3>2. x[2] = y[2]
      BY <2>1, <3>1
    <3> QED
      BY <2>1, <3>1, <3>2
  <2>4. ASSUME NEW t \in F
        PROVE  \E p \in P : f[p] = t
    <3>1. PICK u \in N, i \in 1 .. q : t = <<u, a[u] + i>>
      OBVIOUS
    <3>2. <<u, i>> \in P /\ f[<<u, i>>] = t
      BY <3>1
    <3> QED
      BY <3>2
  <2> HIDE DEF f
  <2> QED
    BY <2>2, <2>3, <2>4 DEF Bijection, Injection, Surjection, IsInjective
<1> QED
  BY <1>2, <1>3, FS_Bijection DEF ExistsBijection

LEMMA PickFreesTokens ==
    ASSUME IInv, FewNeighbours, NEW S \in CoversOf(n, given), edges # {}
    PROVE  Cardinality(Tokens(S, ClearConnections(HighestDegree, edges))) + 12
             <= Cardinality(Tokens(S, edges))
<1> DEFINE h  == HighestDegree
           es == ClearConnections(h, edges)
           N  == Connections(h, edges)
           T  == Tokens(S, edges)
           U  == Tokens(S, es)
           deg(v) == Cardinality(Connections(v, edges))
           left(v) == Cardinality(Connections(v, es))
<1>1. /\ n \in Nat \ {0} /\ edges \subseteq (0 .. n) \X (0 .. n) /\ edges \subseteq given
      /\ S \in SUBSET (1 .. n) /\ Covers(S, given)
  BY DEF IInv, TypeOK, InputFits, CoversOf
<1>2. <<0, 0>> \notin given
  BY <1>1 DEF Covers
<1>3. h \in 1 .. n /\ N # {} /\ IsHighest(h)
  BY <1>1, <1>2, HighestHasEdge, HighestExists
<1>4. ASSUME NEW v
      PROVE  /\ IsFiniteSet(Connections(v, edges)) /\ deg(v) \in Nat
             /\ v \in 1 .. n => deg(v) <= 4
  <2>1. /\ Connections(v, edges) \in SUBSET Connections(v, given)
        /\ Connections(v, given) \in SUBSET (0 .. n)
    BY <1>1 DEF Connections, IInv, InputFits
  <2>2. IsFiniteSet(0 .. n)
    BY <1>1, FS_Interval
  <2>3. IsFiniteSet(Connections(v, given)) /\ Cardinality(Connections(v, given)) \in Nat
    BY <2>1, <2>2, FS_Subset, FS_CardinalityType
  <2>4. /\ IsFiniteSet(Connections(v, edges)) /\ deg(v) \in Nat
        /\ deg(v) <= Cardinality(Connections(v, given))
    BY <2>1, <2>3, FS_Subset, FS_CardinalityType
  <2> QED
    BY <2>3, <2>4 DEF FewNeighbours
<1>5. /\ left(h) = 0
      /\ \A v : v # h => left(v) = IF h \in Connections(v, edges) THEN deg(v) - 1 ELSE deg(v)
  <2>1. left(h) = 0
    BY NeighboursLeft, FS_EmptySet
  <2>2. ASSUME NEW v, v # h
        PROVE  left(v) = IF h \in Connections(v, edges) THEN deg(v) - 1 ELSE deg(v)
    <3>1. Connections(v, es) = Connections(v, edges) \ {h}
      BY <2>2, NeighboursLeft
    <3> QED
      BY <1>4, <3>1, FS_RemoveElement
  <2> QED
    BY <2>1, <2>2
<1>6. IsFiniteSet(T)
  BY <1>1, TokensAreFinite
<1>7. /\ \A t : t \in T <=> t \in S \X (1 .. 25) /\ t[2] <= Share(deg(t[1]))
      /\ \A t : t \in U <=> t \in S \X (1 .. 25) /\ t[2] <= Share(left(t[1]))
  BY DEF Tokens
<1>8. \A v \in 1 .. n : deg(v) <= deg(h)
  <2>1. \A v \in 1 .. n : deg(v) < deg(h) \/ deg(v) = deg(h)
    BY <1>3 DEF IsHighest, Degree
  <2> QED
    BY <1>4, <2>1
<1>9. deg(h) \in 1 .. 4
  <2>1. deg(h) # 0
    BY <1>3, <1>4, FS_EmptySet
  <2> QED
    BY <1>3, <1>4, <2>1
<1>10. \A u \in N : h \in Connections(u, edges)
  BY DEF Connections
<1>11. ASSUME h \notin S
       PROVE  N \subseteq S \ {h}
  <2> SUFFICES ASSUME NEW u \in N PROVE u \in S
    BY <1>11
  <2>1. PICK p \in edges : (p[1] = h /\ p[2] = u) \/ (p[1] = u /\ p[2] = h)
    BY DEF Connections
  <2>2. p[1] \in S \/ p[2] \in S
    BY <1>1 DEF Covers
  <2> QED
    BY <1>11, <2>1, <2>2
<1> HIDE DEF h, es, N, T, U, deg, left
<1>12. U \subseteq T
  <2> SUFFICES ASSUME NEW t \in U PROVE t \in T
    OBVIOUS
  <2>1. t \in S \X (1 .. 25) /\ t[2] <= Share(left(t[1]))
    BY <1>7
  <2>2. t[2] \in 1 .. 25
    BY <2>1
  <2>3. Share(left(t[1])) <= Share(deg(t[1]))
    <3> DEFINE v == t[1]
    <3>1. v \in 1 .. n /\ deg(v) \in 0 .. 4
      <4>1. t[1] \in S
        BY <2>1
      <4>2. v \in 1 .. n
        BY <1>1, <4>1
      <4> HIDE DEF v
      <4>3. deg(v) \in Nat /\ deg(v) <= 4
        BY <1>4, <4>2
      <4> QED
        BY <4>2, <4>3
    <3>2. left(v) = 0 \/ left(v) = deg(v) \/ left(v) = deg(v) - 1
      BY <1>5
    <3>3. left(v) \in 0 .. 4
      <4>1. v # h => (h \in Connections(v, edges) => deg(v) # 0)
        BY <1>4, FS_EmptySet DEF deg
      <4> QED
        BY <1>5, <3>1, <4>1
    <3> HIDE DEF v
    <3>4. Share(left(v)) <= Share(deg(v))
      BY <3>1, <3>2, <3>3 DEF Share
    <3> QED
      BY <3>4 DEF v
  <2>4. Share(left(t[1])) \in 0 .. 25 /\ Share(deg(t[1])) \in 0 .. 25
    BY DEF Share
  <2> QED
    BY <1>7, <2>1, <2>2, <2>3, <2>4
<1>13. CASE h \in S
  <2> DEFINE F == {h} \X (1 .. 12)
  <2>1. Cardinality(F) = 12
    <3>1. IsFiniteSet({h}) /\ Cardinality({h}) = 1
      BY FS_Singleton
    <3>2. IsFiniteSet(1 .. 12) /\ Cardinality(1 .. 12) = 12
      BY CountTo, 12 \in Nat
    <3>3. Cardinality(F) = Cardinality({h}) * Cardinality(1 .. 12)
      BY <3>1, <3>2, FS_Product
    <3> QED
      BY <3>1, <3>2, <3>3
  <2>2. F \subseteq T \ U
    <3> SUFFICES ASSUME NEW t \in F PROVE t \in T /\ t \notin U
      OBVIOUS
    <3>1. t[1] = h /\ t[2] \in 1 .. 12 /\ t \in S \X (1 .. 25)
      BY <1>13
    <3>2. Share(deg(h)) \in 12 .. 25 /\ Share(left(h)) = 0
      BY <1>5, <1>9 DEF Share
    <3>3. t[2] <= Share(deg(t[1])) /\ ~ (t[2] <= Share(left(t[1])))
      BY <3>1, <3>2
    <3> QED
      BY <1>7, <3>1, <3>3
  <2> QED
    BY <1>6, <1>12, <2>1, <2>2, FreedCount DEF T, U, es, h
<1>14. CASE h \notin S
  <2> DEFINE d == deg(h)
             q == IF d = 1 THEN 12 ELSE IF d = 2 THEN 6 ELSE IF d = 3 THEN 4 ELSE 3
             a == [u \in N |-> Share(deg(u) - 1)]
             F == {<<u, a[u] + i>> : u \in N, i \in 1 .. q}
  <2>1. q \in 1 .. 12 /\ d * q = 12
    BY <1>9
  <2>2. IsFiniteSet(N) /\ Cardinality(N) = d
    BY <1>4 DEF N, deg
  <2>3. ASSUME NEW u \in N
        PROVE  /\ u \in S /\ left(u) = deg(u) - 1 /\ deg(u) \in 1 .. d
               /\ a[u] \in Nat /\ a[u] = Share(left(u)) /\ a[u] + q <= Share(deg(u))
               /\ Share(deg(u)) <= 25
    <3>1. u \in S /\ u # h /\ u \in 1 .. n
      BY <1>1, <1>11, <1>14
    <3>2. left(u) = deg(u) - 1
      BY <1>5, <1>10, <3>1
    <3>3. deg(u) \in 1 .. d
      <4>1. deg(u) # 0
        BY <1>4, <1>10, FS_EmptySet DEF deg
      <4> QED
        BY <1>4, <1>8, <3>1, <4>1
    <3>4. a[u] = Share(left(u)) /\ a[u] = Share(deg(u) - 1)
      BY <3>2
    <3> HIDE DEF a
    <3>5. a[u] \in Nat /\ a[u] + q <= Share(deg(u)) /\ Share(deg(u)) <= 25
      <4>1. d \in 1 .. 4
        BY <1>9
      <4> HIDE DEF d
      <4>2. deg(u) \in 1 .. 4
        BY <3>3, <4>1
      <4> QED
        BY <3>3, <3>4, <4>1, <4>2 DEF Share
    <3> QED
      BY <3>1, <3>2, <3>3, <3>4, <3>5
  <2>4. Cardinality(F) = 12
    <3>1. \A u \in N : a[u] \in Nat
      BY <2>3
    <3> HIDE DEF a, q, d
    <3>2. q \in 1 .. 12 /\ IsFiniteSet(N) /\ Cardinality(N) * q = 12
      BY <2>1, <2>2
    <3>3. \A t : t \in F <=> \E u \in N, i \in 1 .. q : t = <<u, a[u] + i>>
      OBVIOUS
    <3> HIDE DEF F
    <3> QED
      BY <3>1, <3>2, <3>3, TwelveFreed
  <2>5. F \subseteq T \ U
    <3> SUFFICES ASSUME NEW t \in F PROVE t \in T /\ t \notin U
      OBVIOUS
    <3>1. PICK u \in N, i \in 1 .. q : t = <<u, a[u] + i>>
      OBVIOUS
    <3> HIDE DEF a, q, F, d
    <3>2. /\ t[1] = u /\ t[2] = a[u] + i /\ a[u] \in Nat /\ a[u] + q <= Share(deg(u))
          /\ Share(deg(u)) <= 25 /\ a[u] = Share(left(u)) /\ u \in S /\ i \in Nat /\ i >= 1
          /\ i <= q /\ q \in Nat
      BY <2>1, <2>3, <3>1
    <3>3. Share(deg(u)) \in Nat
      BY DEF Share
    <3>4. t[2] \in 1 .. 25 /\ t[2] <= Share(deg(u)) /\ ~ (t[2] <= Share(left(u)))
      BY <3>2, <3>3
    <3>5. t \in S \X (1 .. 25)
      BY <3>1, <3>2, <3>4
    <3> QED
      BY <1>7, <3>2, <3>4, <3>5
  <2> HIDE DEF F
  <2> QED
    BY <1>6, <1>12, <2>4, <2>5, FreedCount DEF T, U, es, h
<1> QED
  BY <1>13, <1>14

LEMMA GreedyInit == Init => GInv
<1> SUFFICES ASSUME Init, NEW S \in CoversOf(n, given) PROVE Bounded(S)
  BY DEF GInv
<1>1. n \in Nat /\ S \in SUBSET (1 .. n) /\ Len(picked) = 0
  BY InitIInv DEF Init, IInv, TypeOK, CoversOf
<1> QED
  BY <1>1, TokensAreFinite DEF Bounded

LEMMA GreedyNext == IInv /\ GInv /\ [Next]_vars => GInv'
<1> SUFFICES ASSUME IInv, GInv, [Next]_vars, solver' = "approxCv1", FewNeighbours',
                    NEW S \in CoversOf(n', given')
             PROVE  Bounded(S)'
  BY DEF GInv
<1>1. UNCHANGED <<solver, n, given>>
  BY DEF Next, PickHighest, PickRandom, Return, Pick, vars
<1>2. S \in CoversOf(n, given) /\ FewNeighbours /\ Bounded(S) /\ S \in SUBSET (1 .. n) /\ n \in Nat
  BY <1>1 DEF GInv, FewNeighbours, CoversOf, IInv, TypeOK
<1>3. CASE UNCHANGED <<picked, edges>>
  BY <1>2, <1>3 DEF Bounded
<1>4. CASE PickHighest
  <2>1. edges # {} /\ edges' = ClearConnections(HighestDegree, edges)
        /\ (picked' = picked \/ picked' = Append(picked, HighestDegree))
    BY <1>4 DEF PickHighest, Pick
  <2>2. Cardinality(Tokens(S, edges')) + 12 <= Cardinality(Tokens(S, edges))
    BY <1>2, <2>1, PickFreesTokens
  <2>3. HighestDegree \in 1 .. n
    BY HighestExists DEF IInv, TypeOK, InputFits
  <2>4. Len(picked) \in Nat /\ (Len(picked') = Len(picked) \/ Len(picked') = Len(picked) + 1)
    <3>1. picked \in Seq(1 .. n)
      BY DEF IInv, TypeOK
    <3> QED
      BY <2>1, <2>3, <3>1
  <2>5. /\ Cardinality(Tokens(S, edges')) \in Nat /\ Cardinality(Tokens(S, edges)) \in Nat
        /\ Cardinality(S) \in Nat
    BY <1>2, TokensAreFinite
  <2> QED
    BY <1>2, <2>2, <2>4, <2>5 DEF Bounded
<1>5. ~PickRandom
  BY <1>1 DEF PickRandom
<1> QED
  BY <1>3, <1>4, <1>5 DEF Next, Return, vars

(* approxCv1 is the greedy algorithm (MyGraph.cpp:352-369): on every graph     *)
(* whose vertices have at most four neighbours its cover is at most            *)
(* H(4) = 25/12 times as large as any other, whatever vertex of highest degree *)
(* is taken first.                                                             *)
THEOREM ApproxIsGreedy == Spec => []GreedyBound
<1>1. IInv /\ GInv => GreedyBound
  <2> SUFFICES ASSUME IInv, GInv, pc = "done", solver = "approxCv1", FewNeighbours,
                      NEW S \in CoversOf(n, given)
               PROVE  12 * Cardinality(cover) <= 25 * Cardinality(S)
    BY DEF GreedyBound, FewNeighbours
  <2>1. n \in Nat /\ S \in SUBSET (1 .. n) /\ picked \in Seq(1 .. n) /\ cover = Range(picked)
    BY DEF IInv, TypeOK, CoversOf
  <2>2. Cardinality(cover) <= Len(picked)
    <3>1. picked \in [1 .. Len(picked) -> Range(picked)] /\ DOMAIN picked = 1 .. Len(picked)
      BY <2>1 DEF Range
    <3>2. picked \in Surjection(1 .. Len(picked), Range(picked))
      BY <3>1 DEF Surjection, Range
    <3>3. Len(picked) \in Nat
      BY <2>1
    <3> QED
      BY <2>1, <3>2, <3>3, FS_SurjCardinalityBound DEF ExistsSurjection
  <2>3. Bounded(S)
    BY DEF GInv
  <2>4. /\ Cardinality(Tokens(S, edges)) \in Nat /\ Cardinality(S) \in Nat
        /\ Cardinality(cover) \in Nat /\ Len(picked) \in Nat
    <3>1. IsFiniteSet(1 .. n) /\ cover \in SUBSET (1 .. n)
      BY <2>1, FS_Interval DEF IInv, TypeOK
    <3> QED
      BY <2>1, <3>1, TokensAreFinite, FS_Subset, FS_CardinalityType
  <2> QED
    BY <2>2, <2>3, <2>4 DEF Bounded
<1> QED
  BY <1>1, InitIInv, NextIInv, GreedyInit, GreedyNext, PTL DEF Spec
===============================================================================
