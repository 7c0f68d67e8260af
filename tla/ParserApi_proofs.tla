---------------------------- MODULE ParserApi_proofs ----------------------------
(* Proofs about the parser, for every set of lines and every size of an int:   *)
(* of ParserApi, and of ShortestPath, which does nothing else to the graph and *)
(* whose search ends, with a shortest path if there is one.                    *)
EXTENDS ShortestPath, Recursion_proofs

-------------------------------------------------------------------------------
(* What reading one line does to a graph, for every line and every size of an  *)
(* int.                                                                        *)

(* What every graph satisfies that the parser leaves behind: edges only where  *)
(* there are vertices, and none that names a vertex above the size.            *)
Fits(g) == g.edges # {} => /\ g.n > 0
                           /\ \A p \in g.edges : p[1] <= g.n /\ p[2] <= g.n

(* Reading a line keeps the graph well typed, its size an int and its edges in *)
(* range (helpers.cpp:16-138).                                                 *)
LEMMA ParseKeepsGraph ==
    ASSUME NEW g \in Graph, g.n <= IntMax, Fits(g), NEW line \in Line
    PROVE  Parse(line, g) \in Graph /\ Parse(line, g).n <= IntMax /\ Fits(Parse(line, g))
<1> DEFINE command == GetCommand(line, g)
           h       == Parse(line, g)
<1> USE IntMaxAssumption DEF Graph, Pair
<1>1. CASE command = "V"
  <2>1. h = SetNoVertices(g, ReadNumber(line.num))
    BY <1>1 DEF Parse
  <2>2. ReadNumber(line.num) \in Nat /\ ReadNumber(line.num) <= IntMax
    BY DEF Line, ReadNumber
  <2> QED
    BY <2>1, <2>2 DEF SetNoVertices, SetSize, ResetEverything, Fits
<1>2. CASE command = "E"
  <2>1. g.n > 0
    BY <1>2 DEF GetCommand
  <2>2. CASE AllValid(line, g)
    <3>1. h = SetEdges(g, Range(line.pairs))
      BY <1>2, <2>2 DEF Parse
    <3>2. line.pairs \in Seq(Nat \X Nat)
      BY DEF Line
    <3>3. Range(line.pairs) \subseteq Nat \X Nat
      BY <3>2 DEF Range
    <3>4. \A p \in Range(line.pairs) : p[1] <= g.n /\ p[2] <= g.n
      BY <2>2 DEF Range, AllValid, ValidPair
    <3>5. h = [g EXCEPT !.edges = Range(line.pairs), !.tried = FALSE]
      BY <3>1 DEF SetEdges, ResetEverything
    <3> QED
      BY <3>5, <3>3, <3>4, <2>1 DEF Fits
  <2>3. CASE ~AllValid(line, g)
    BY <1>2, <2>3 DEF Parse
  <2> QED
    BY <2>2, <2>3
<1>3. CASE command # "V" /\ command # "E"
  <2>1. h = AfterGetCommand(line, g)
    BY <1>3 DEF Parse
  <2> QED
    BY <2>1 DEF AfterGetCommand, RejectsEdges, Fits
<1> QED
  BY <1>1, <1>2, <1>3

-------------------------------------------------------------------------------
IInv == TypeOK /\ Fits(graph)

LEMMA InitIInv == Init => IInv
<1> SUFFICES ASSUME Init PROVE IInv
  OBVIOUS
<1>1. graph = EmptyGraph /\ crashed = FALSE
  BY DEF Init
<1>2. EmptyGraph \in Graph /\ EmptyGraph.n <= IntMax
  BY IntMaxAssumption DEF EmptyGraph, Graph
<1>3. Fits(EmptyGraph)
  BY DEF Fits, EmptyGraph
<1> QED
  BY <1>1, <1>2, <1>3 DEF IInv, TypeOK

LEMMA NextIInv == IInv /\ [Next]_vars => IInv'
<1> SUFFICES ASSUME IInv, [Next]_vars PROVE IInv'
  OBVIOUS
<1> USE DEF IInv, TypeOK
<1>1. ASSUME NEW line \in Lines, ReadLine(line) PROVE IInv'
  <2>1. line \in Line
    BY LinesAssumption
  <2>2. Parse(line, graph) \in Graph /\ Parse(line, graph).n <= IntMax
        /\ Fits(Parse(line, graph))
    BY <2>1, ParseKeepsGraph
  <2>3. crashed' \in BOOLEAN
    BY <1>1 DEF ReadLine, Throws
  <2> QED
    BY <1>1, <2>2, <2>3 DEF ReadLine
<1>2. CASE ClearEdges
  BY <1>2 DEF ClearEdges, Graph, Fits
<1>3. CASE ResetAnswered
  <2>1. graph'.n = 0 /\ graph'.edges = {} /\ graph' \in Graph
    BY <1>3 DEF ResetAnswered, SetSize, ResetEverything, Graph
  <2>2. crashed' = crashed
    BY <1>3 DEF ResetAnswered
  <2> QED
    BY <2>1, <2>2, IntMaxAssumption DEF Fits
<1>4. CASE UNCHANGED vars
  BY <1>4 DEF vars, Fits
<1> QED
  BY <1>1, <1>2, <1>3, <1>4 DEF Next

(* Every reachable graph is well typed and its size fits an int: the number of *)
(* a V line saturates (helpers.cpp:83-92).                                     *)
THEOREM ParserTypes == Spec => []TypeOK
BY InitIInv, NextIInv, PTL DEF Spec, IInv

(* No stored edge names a vertex above the size of its graph, the fact the     *)
(* encoding relies on when it indexes its matrix by vertex.                    *)
THEOREM GraphStaysInRange == Spec => []EdgesInRange
<1>1. IInv => EdgesInRange
  BY DEF IInv, EdgesInRange, Fits
<1> QED
  BY <1>1, InitIInv, NextIInv, PTL DEF Spec

-------------------------------------------------------------------------------
(* What a line does to a graph that may not take edges.                        *)

LEMMA OnlyVChanges ==
    ASSUME NEW g \in Graph, ~MayDefineEdges(g), NEW line \in Line
    PROVE  \/ GetCommand(line, g) = "V"
           \/ /\ Parse(line, g) = IF RejectsEdges(line, g) THEN [g EXCEPT !.tried = TRUE] ELSE g
              /\ g.tried => Parse(line, g) = g
<1> SUFFICES ASSUME GetCommand(line, g) # "V"
             PROVE  /\ Parse(line, g) = AfterGetCommand(line, g)
                    /\ g.tried => AfterGetCommand(line, g) = g
  BY DEF AfterGetCommand
<1>1. GetCommand(line, g) # "E"
  BY DEF GetCommand
<1>2. Parse(line, g) = AfterGetCommand(line, g)
  BY <1>1 DEF Parse
<1>3. g.tried => [g EXCEPT !.tried = TRUE] = g
  BY DEF Graph
<1> QED
  BY <1>2, <1>3 DEF AfterGetCommand

LEMMA VStartsAgain ==
    ASSUME NEW g \in Graph, NEW line \in Line, GetCommand(line, g) = "V"
    PROVE  /\ ReadNumber(line.num) \in 0 .. IntMax
           /\ Parse(line, g) = SetNoVertices(g, ReadNumber(line.num))
           /\ Parse(line, g).edges = {}
<1>1. ReadNumber(line.num) \in 0 .. IntMax
  BY IntMaxAssumption DEF Line, ReadNumber
<1>2. Parse(line, g) = SetNoVertices(g, ReadNumber(line.num))
  BY DEF Parse
<1> QED
  BY <1>1, <1>2 DEF SetNoVertices, SetSize, ResetEverything, Graph

(* Once a malformed edge line was rejected, only a V line changes the graph    *)
(* (helpers.cpp:29-76): it has no edges a launch could clear or an answer      *)
(* reset.                                                                      *)
NoEdgesAfterRejection == graph.tried => graph.edges = {}

THEOREM OnlyVEndsRejection == Spec => RejectedUntilV
<1>1. Init => NoEdgesAfterRejection
  BY DEF Init, EmptyGraph, NoEdgesAfterRejection
<1>2. ASSUME IInv, NoEdgesAfterRejection, [Next]_vars
      PROVE  /\ NoEdgesAfterRejection'
             /\ graph.tried => \/ graph' = graph
                               \/ \E m \in 0 .. IntMax : graph' = SetNoVertices(graph, m)
  <2>1. graph \in Graph /\ IntMax \in Nat
    BY <1>2, IntMaxAssumption DEF IInv, TypeOK
  <2>2. ASSUME NEW line \in Lines, ReadLine(line), graph' # graph
        PROVE  /\ NoEdgesAfterRejection'
               /\ graph.tried => \E m \in 0 .. IntMax : graph' = SetNoVertices(graph, m)
    <3>1. line \in Line /\ graph' = Parse(line, graph)
      BY <2>2, LinesAssumption DEF ReadLine
    <3>2. CASE GetCommand(line, graph) = "V"
      BY <2>1, <3>1, <3>2, VStartsAgain DEF NoEdgesAfterRejection
    <3>3. CASE GetCommand(line, graph) # "V" /\ ~MayDefineEdges(graph)
      <4>1. ~graph.tried /\ graph.edges # {}
        BY <2>1, <2>2, <3>1, <3>3, OnlyVChanges DEF MayDefineEdges
      <4>2. graph' = graph
        BY <2>1, <3>1, <3>3, <4>1, OnlyVChanges DEF RejectsEdges
      <4> QED
        BY <2>2, <4>2
    <3>4. CASE GetCommand(line, graph) # "V" /\ MayDefineEdges(graph)
      <4>1. ~graph.tried /\ graph.edges = {}
        BY <3>4 DEF MayDefineEdges
      <4>2. graph' = SetEdges(graph, Range(line.pairs)) \/ graph' = AfterGetCommand(line, graph)
        BY <2>2, <3>1, <3>4 DEF Parse
      <4>3. graph'.tried => graph'.edges = {}
        BY <2>1, <4>1, <4>2 DEF SetEdges, ResetEverything, AfterGetCommand, Graph
      <4> QED
        BY <4>1, <4>3 DEF NoEdgesAfterRejection
    <3> QED
      BY <3>2, <3>3, <3>4
  <2>3. CASE ClearEdges
    BY <1>2, <2>1, <2>3 DEF ClearEdges, NoEdgesAfterRejection, Graph
  <2>4. CASE ResetAnswered
    BY <1>2, <2>1, <2>4
       DEF ResetAnswered, SetSize, ResetEverything, NoEdgesAfterRejection, Graph
  <2>5. CASE graph' = graph
    BY <1>2, <2>5 DEF NoEdgesAfterRejection
  <2> QED
    BY <1>2, <2>2, <2>3, <2>4, <2>5 DEF Next, vars
<1>3. IInv /\ NoEdgesAfterRejection /\ [Next]_vars =>
        [graph.tried => \/ graph' = graph
                        \/ \E n \in 0 .. IntMax : graph' = SetNoVertices(graph, n)]_vars
  BY <1>2
<1>4. IInv /\ NoEdgesAfterRejection /\ [Next]_vars => NoEdgesAfterRejection'
  BY <1>2
<1> QED
  BY <1>1, <1>3, <1>4, InitIInv, NextIInv, PTL DEF Spec, RejectedUntilV

(* A defined edge set is never replaced or extended in place: a second E line  *)
(* is ignored until V, a launch or a reset has emptied the graph               *)
(* (helpers.cpp:36-39).                                                        *)
THEOREM SecondEdgesIgnored == Spec => EdgesNotReplaced
<1>1. ASSUME IInv, [Next]_vars, graph.edges # {}, graph'.edges # {}, graph' # graph
      PROVE  FALSE
  <2>1. graph \in Graph /\ ~MayDefineEdges(graph)
    BY <1>1 DEF IInv, TypeOK, MayDefineEdges
  <2>2. CASE ClearEdges
    BY <1>1, <2>1, <2>2 DEF ClearEdges, Graph
  <2>3. CASE ResetAnswered
    BY <1>1, <2>1, <2>3 DEF ResetAnswered, SetSize, ResetEverything, Graph
  <2>4. ASSUME NEW line \in Lines, ReadLine(line) PROVE FALSE
    <3>1. line \in Line /\ graph' = Parse(line, graph)
      BY <1>1, <2>4, LinesAssumption DEF ReadLine
    <3>2. CASE GetCommand(line, graph) = "V"
      BY <1>1, <2>1, <3>1, <3>2, VStartsAgain
    <3>3. CASE GetCommand(line, graph) # "V"
      BY <1>1, <2>1, <3>1, <3>3, OnlyVChanges DEF RejectsEdges
    <3> QED
      BY <3>2, <3>3
  <2> QED
    BY <1>1, <2>2, <2>3, <2>4 DEF Next, vars
<1>2. IInv /\ [Next]_vars =>
        [graph.edges # {} /\ graph'.edges # {} => graph' = graph]_vars
  BY <1>1
<1> QED
  BY <1>2, InitIInv, NextIInv, PTL DEF Spec, EdgesNotReplaced

-------------------------------------------------------------------------------
(* The shortest path command reads the graph and keeps its answer beside it.   *)

(* Every behaviour with the shortest path command is one of ParserApi, with    *)
(* the searches as stuttering steps (helpers.cpp:113-133, MyGraph.cpp:124-187):*)
(* what is proved of the parser holds with them.                               *)
THEOREM SearchesOnlyRead == PathSpec => Spec
<1>1. PathInit => Init
  BY DEF PathInit
<1>2. [PathNext]_pathVars => [Next]_vars
  <2> SUFFICES ASSUME PathNext PROVE [Next]_vars
    BY DEF pathVars, vars
  <2>1. ASSUME NEW line \in Lines, Ask(line) PROVE UNCHANGED vars
    BY <2>1 DEF Ask, vars
  <2>2. ASSUME NEW line \in Lines, ReadOther(line) PROVE Next
    BY <2>2 DEF ReadOther, Next
  <2>3. CASE ClearEdgesOnly
    BY <2>3 DEF ClearEdgesOnly, Next
  <2>4. CASE ResetAfterAnswer
    BY <2>4 DEF ResetAfterAnswer, Next
  <2> QED
    BY <2>1, <2>2, <2>3, <2>4 DEF PathNext
<1> QED
  BY <1>1, <1>2, PTL DEF PathSpec, Spec

-------------------------------------------------------------------------------
(* Sequences of the search.                                                    *)

(* A finite set of numbers has an ascending sequence, by the rank of its       *)
(* members, and such a sequence has every member of the set.                   *)
LEMMA AscendingMembers ==
    ASSUME NEW S, S \subseteq Nat, IsFiniteSet(S)
    PROVE  Ascending(S) \in Seq(S) /\ Range(Ascending(S)) = S
<1> DEFINE n == Cardinality(S)
           upTo(v) == {u \in S : u <= v}
           rank == [v \in S |-> Cardinality(upTo(v))]
           up(s) == \A i, j \in 1 .. n : i < j => s[i] < s[j]
<1>1. n \in Nat /\ IsFiniteSet(1 .. n) /\ Cardinality(1 .. n) = n
  <2>1. n \in Nat
    BY FS_CardinalityType
  <2>2. IsFiniteSet(1 .. n) /\ Cardinality(1 .. n) = n
    <3> HIDE DEF n
    <3> QED
      BY <2>1, FS_Interval
  <2> QED
    BY <2>1, <2>2
<1>2. ASSUME NEW v \in S
      PROVE  /\ IsFiniteSet(upTo(v)) /\ rank[v] \in Nat /\ rank[v] \in 1 .. n
             /\ rank[v] = Cardinality(upTo(v))
  <2>1. upTo(v) \in SUBSET S /\ v \in upTo(v)
    OBVIOUS
  <2>2. IsFiniteSet(upTo(v)) /\ Cardinality(upTo(v)) <= n /\ Cardinality(upTo(v)) \in Nat
    <3> HIDE DEF upTo
    <3> QED
      BY <2>1, FS_Subset, FS_CardinalityType
  <2>3. Cardinality(upTo(v)) # 0
    <3> HIDE DEF upTo
    <3> QED
      BY <2>1, <2>2, FS_EmptySet
  <2>4. rank[v] = Cardinality(upTo(v))
    OBVIOUS
  <2> HIDE DEF rank, upTo, n
  <2> QED
    BY <1>1, <2>2, <2>3, <2>4
<1>3. ASSUME NEW u \in S, NEW v \in S, u < v
      PROVE  rank[u] < rank[v]
  <2>0. u \in Nat /\ v \in Nat /\ \A x \in S : x \in Nat
    OBVIOUS
  <2>1. upTo(u) \in SUBSET upTo(v) /\ v \in upTo(v) /\ v \notin upTo(u)
    <3>1. v \in upTo(v) /\ v \notin upTo(u)
      BY <1>3, <2>0
    <3>2. ASSUME NEW x \in upTo(u) PROVE x \in upTo(v)
      BY <1>3, <2>0
    <3> HIDE DEF upTo
    <3> QED
      BY <3>1, <3>2
  <2>2. rank[u] <= rank[v] /\ rank[u] # rank[v]
    <3> HIDE DEF upTo, rank
    <3> QED
      BY <1>2, <2>1, FS_Subset
  <2>3. rank[u] \in Nat /\ rank[v] \in Nat
    BY <1>2
  <2> HIDE DEF rank, n
  <2> QED
    BY <2>2, <2>3
<1>4. \A i \in 1 .. n : \E v \in S : rank[v] = i
  <2>1. rank \in Injection(S, 1 .. n)
    <3>1. rank \in [S -> 1 .. n]
      BY <1>2
    <3>2. ASSUME NEW u \in S, NEW v \in S, rank[u] = rank[v]
          PROVE  u = v
      <4>1. u \in Nat /\ v \in Nat /\ rank[u] \in Nat
        BY <1>2
      <4>2. ~(u < v) /\ ~(v < u)
        <5> HIDE DEF rank
        <5> QED
          BY <1>3, <3>2, <4>1
      <4> QED
        BY <4>1, <4>2
    <3> HIDE DEF rank
    <3> QED
      BY <3>1, <3>2 DEF Injection, IsInjective
  <2>2. rank \in Surjection(S, 1 .. n)
    <3> HIDE DEF rank
    <3> QED
      BY <1>1, <2>1, FS_Injection
  <2> HIDE DEF rank
  <2> QED
    BY <2>2 DEF Surjection
<1>5. \E s \in [1 .. n -> S] : up(s)
  <2> HIDE DEF rank
  <2> DEFINE s == [i \in 1 .. n |-> CHOOSE v \in S : rank[v] = i]
  <2>1. \A i \in 1 .. n : s[i] \in S /\ rank[s[i]] = i
    BY <1>4
  <2>2. s \in [1 .. n -> S]
    BY <2>1
  <2> HIDE DEF s
  <2>3. ASSUME NEW i \in 1 .. n, NEW j \in 1 .. n, i < j
        PROVE  s[i] < s[j]
    <3>0. s[i] \in S /\ s[j] \in S /\ rank[s[i]] = i /\ rank[s[j]] = j
      BY <2>1
    <3>1. s[i] \in Nat /\ s[j] \in Nat /\ s[i] # s[j]
      <4>1. s[i] \in Nat /\ s[j] \in Nat
        BY <3>0
      <4>2. i # j
        BY <1>1, <2>3
      <4> QED
        BY <3>0, <4>1, <4>2
    <3>2. ~(s[j] < s[i])
      <4>1. s[j] < s[i] => rank[s[j]] < rank[s[i]]
        BY <1>3, <3>0
      <4> QED
        BY <1>1, <2>3, <3>0, <4>1
    <3> QED
      BY <3>1, <3>2
  <2> QED
    BY <2>2, <2>3
<1>6. Ascending(S) \in [1 .. n -> S] /\ up(Ascending(S))
  <2>1. Ascending(S) = CHOOSE s \in [1 .. n -> S] : up(s)
    BY DEF Ascending
  <2> HIDE DEF n, up
  <2> QED
    BY <1>5, <2>1
<1> DEFINE a == Ascending(S)
<1> HIDE DEF n, rank, upTo
<1>7. a \in Injection(1 .. n, S)
  <2>1. ASSUME NEW i \in 1 .. n, NEW j \in 1 .. n, a[i] = a[j]
        PROVE  i = j
    <3>1. a[i] \in Nat /\ a[j] \in Nat
      BY <1>6
    <3>2. i < j => a[i] < a[j]
      BY <1>6
    <3>3. j < i => a[j] < a[i]
      BY <1>6
    <3> HIDE DEF a
    <3> QED
      BY <1>1, <2>1, <3>1, <3>2, <3>3
  <2> QED
    BY <1>6, <2>1 DEF Injection, IsInjective
<1>8. a \in Surjection(1 .. n, S)
  BY <1>1, <1>7, FS_Injection DEF n
<1>9. Range(a) = S
  BY <1>6, <1>8 DEF Surjection, Range
<1>10. a \in Seq(S)
  BY <1>1, <1>6
<1> QED
  BY <1>9, <1>10

-------------------------------------------------------------------------------
(* Vertices and distances.                                                     *)

Ends(E) == {p[1] : p \in E} \union {p[2] : p \in E}

LEMMA EndsAreFinite ==
    ASSUME NEW E, IsFiniteSet(E)
    PROVE  IsFiniteSet(Ends(E)) /\ Cardinality(Ends(E)) <= 2 * Cardinality(E)
<1> DEFINE A == {p[1] : p \in E}
           B == {p[2] : p \in E}
<1>1. IsFiniteSet(A) /\ Cardinality(A) <= Cardinality(E)
  <2> DEFINE f == [p \in E |-> p[1]]
  <2>1. f \in Surjection(E, A)
    BY DEF Surjection
  <2> HIDE DEF f, A
  <2> QED
    BY <2>1, FS_Surjection
<1>2. IsFiniteSet(B) /\ Cardinality(B) <= Cardinality(E)
  <2> DEFINE f == [p \in E |-> p[2]]
  <2>1. f \in Surjection(E, B)
    BY DEF Surjection
  <2> HIDE DEF f, B
  <2> QED
    BY <2>1, FS_Surjection
<1>3. Ends(E) = A \union B
  BY DEF Ends
<1> HIDE DEF A, B
<1>4. /\ IsFiniteSet(A \union B)
      /\ Cardinality(A \union B) = Cardinality(A) + Cardinality(B) - Cardinality(A \cap B)
  BY <1>1, <1>2, FS_Union
<1>5. /\ Cardinality(E) \in Nat /\ Cardinality(A) \in Nat /\ Cardinality(B) \in Nat
      /\ Cardinality(A \cap B) \in Nat
  <2>1. IsFiniteSet(A \cap B)
    BY <1>1, FS_Intersection
  <2> QED
    BY <1>1, <1>2, <2>1, FS_CardinalityType
<1>6. Cardinality(A \union B) <= 2 * Cardinality(E)
  BY <1>1, <1>2, <1>4, <1>5
<1> QED
  BY <1>3, <1>4, <1>6

LEMMA NeighboursType ==
    ASSUME NEW E, E \subseteq Pair, NEW v
    PROVE  /\ Neighbours(v, E) \subseteq Nat /\ Neighbours(v, E) \subseteq Ends(E)
           /\ IsFiniteSet(E) => IsFiniteSet(Neighbours(v, E))
<1>1. Neighbours(v, E) \subseteq Nat /\ Neighbours(v, E) \subseteq Ends(E)
  BY DEF Neighbours, Ends, Pair
<1>2. IsFiniteSet(E) => IsFiniteSet(Neighbours(v, E))
  <2> SUFFICES ASSUME IsFiniteSet(E) PROVE IsFiniteSet(Neighbours(v, E))
    OBVIOUS
  <2>1. IsFiniteSet(Ends(E)) /\ Neighbours(v, E) \in SUBSET Ends(E)
    BY <1>1, EndsAreFinite
  <2> QED
    BY <2>1, FS_Subset
<1> QED
  BY <1>1, <1>2

\* The vertices one edge further than those of B, with B.
Wider(B, E) == B \union UNION {Neighbours(x, E) : x \in B}

LEMMA WithinSteps ==
    ASSUME NEW E, E \subseteq Pair, NEW v \in Nat
    PROVE  /\ Within(v, 0, E) = {v}
           /\ \A k \in Nat : /\ Within(v, k, E) \subseteq Nat
                              /\ Within(v, k + 1, E) = Wider(Within(v, k, E), E)
<1> DEFINE ball[i \in Nat] == IF i = 0 THEN {v}
                              ELSE LET b == ball[i - 1]
                                   IN  b \union UNION {Neighbours(x, E) : x \in b}
           step == [k \in Nat |-> [B \in SUBSET Nat |-> Wider(B, E)]]
<1>1. \A B \in SUBSET Nat : Wider(B, E) \in SUBSET Nat
  BY NeighboursType DEF Wider
<1>2. step \in Steps(SUBSET Nat)
  BY <1>1 DEF Steps
<1>3. PICK f : Repeats(f, SUBSET Nat, {v}, step)
  <2> HIDE DEF step
  <2>1. {v} \in SUBSET Nat
    OBVIOUS
  <2> QED
    BY <1>2, <2>1, Iteration
<1>4. /\ f[0] = {v}
      /\ \A k \in Nat : f[k] \in SUBSET Nat /\ f[k + 1] = Wider(f[k], E)
  BY <1>3 DEF Repeats
<1>5. \E g : g = [i \in Nat |-> IF i = 0 THEN {v} ELSE Wider(g[i - 1], E)]
  <2> DEFINE g == [i \in Nat |-> f[i]]
  <2>1. ASSUME NEW i \in Nat
        PROVE  g[i] = IF i = 0 THEN {v} ELSE Wider(g[i - 1], E)
    <3>1. CASE i = 0
      BY <1>4, <3>1
    <3>2. CASE i # 0
      <4>1. i - 1 \in Nat /\ (i - 1) + 1 = i
        BY <3>2
      <4> QED
        BY <1>4, <3>2, <4>1
    <3> QED
      BY <3>1, <3>2
  <2>2. g = [i \in Nat |-> IF i = 0 THEN {v} ELSE Wider(g[i - 1], E)]
    BY <2>1
  <2> HIDE DEF g
  <2> QED
    BY <2>2
<1>6. ball = [i \in Nat |-> IF i = 0 THEN {v} ELSE Wider(ball[i - 1], E)]
  <2>1. ball = CHOOSE g : g = [i \in Nat |-> IF i = 0 THEN {v} ELSE Wider(g[i - 1], E)]
    BY DEF ball, Wider
  <2> HIDE DEF ball
  <2> QED
    BY <1>5, <2>1, Zenon
<1>7. \A k : Within(v, k, E) = ball[k]
  BY DEF Within
<1> HIDE DEF ball, step
<1>8. ball[0] = {v} /\ \A k \in Nat : ball[k + 1] = Wider(ball[k], E)
  <2>1. ball[0] = {v}
    BY <1>6
  <2>2. ASSUME NEW k \in Nat
        PROVE  ball[k + 1] = Wider(ball[k], E)
    <3>1. k + 1 \in Nat /\ k + 1 # 0 /\ (k + 1) - 1 = k
      OBVIOUS
    <3> QED
      BY <1>6, <3>1
  <2> QED
    BY <2>1, <2>2
<1>9. \A k \in Nat : ball[k] \in SUBSET Nat
  <2> DEFINE S == {k \in Nat : ball[k] \in SUBSET Nat}
  <2>1. 0 \in S /\ \A k \in Nat : k \in S => k + 1 \in S
    BY <1>1, <1>8
  <2>2. Nat \subseteq S
    <3> HIDE DEF S
    <3> QED
      BY <2>1, InductionOn
  <2> QED
    BY <2>2
<1> QED
  BY <1>7, <1>8, <1>9

LEMMA WithinGrows ==
    ASSUME NEW E, E \subseteq Pair, NEW v \in Nat
    PROVE  \A k \in Nat, m \in Nat : k <= m => Within(v, k, E) \subseteq Within(v, m, E)
<1> DEFINE S == {d \in Nat : \A k \in Nat : Within(v, k, E) \subseteq Within(v, k + d, E)}
<1>1. 0 \in S
  OBVIOUS
<1>2. ASSUME NEW d \in Nat, d \in S
      PROVE  d + 1 \in S
  <2> SUFFICES ASSUME NEW k \in Nat
               PROVE  Within(v, k, E) \subseteq Within(v, k + (d + 1), E)
    OBVIOUS
  <2>1. k + d \in Nat /\ (k + d) + 1 = k + (d + 1)
    OBVIOUS
  <2>2. Within(v, (k + d) + 1, E) = Wider(Within(v, k + d, E), E)
    BY <2>1, WithinSteps
  <2>3. Within(v, k, E) \subseteq Within(v, k + d, E)
    BY <1>2
  <2> QED
    BY <2>1, <2>2, <2>3 DEF Wider
<1>3. Nat \subseteq S
  <2> HIDE DEF S
  <2> QED
    BY <1>1, <1>2, InductionOn
<1> SUFFICES ASSUME NEW k \in Nat, NEW m \in Nat, k <= m
             PROVE  Within(v, k, E) \subseteq Within(v, m, E)
  OBVIOUS
<1>4. m - k \in Nat /\ k + (m - k) = m
  OBVIOUS
<1>5. m - k \in S
  <2> HIDE DEF S
  <2> QED
    BY <1>3, <1>4
<1> QED
  BY <1>4, <1>5

(* No more vertices can be reached than the edges have ends, and the start.    *)
LEMMA WithinIsFinite ==
    ASSUME NEW E, E \subseteq Pair, IsFiniteSet(E), NEW v \in Nat, NEW k \in Nat
    PROVE  /\ IsFiniteSet(Within(v, k, E)) /\ Cardinality(Within(v, k, E)) \in Nat
           /\ Cardinality(Within(v, k, E)) <= MaxTurns(E)
<1> DEFINE all == Ends(E) \union {v}
<1>1. IsFiniteSet(all) /\ Cardinality(all) <= MaxTurns(E) /\ MaxTurns(E) \in Nat
  <2>1. IsFiniteSet(Ends(E)) /\ Cardinality(Ends(E)) <= 2 * Cardinality(E)
    BY EndsAreFinite
  <2>2. Cardinality(Ends(E)) \in Nat /\ Cardinality(E) \in Nat
    BY <2>1, FS_CardinalityType
  <2>3. /\ IsFiniteSet(all)
        /\ Cardinality(all) = IF v \in Ends(E) THEN Cardinality(Ends(E)) ELSE Cardinality(Ends(E)) + 1
    BY <2>1, FS_AddElement
  <2> HIDE DEF all
  <2> QED
    BY <2>1, <2>2, <2>3 DEF MaxTurns
<1>2. Within(v, k, E) \subseteq all
  <2> DEFINE S == {i \in Nat : Within(v, i, E) \subseteq all}
  <2>1. 0 \in S
    BY WithinSteps
  <2>2. ASSUME NEW i \in Nat, i \in S
        PROVE  i + 1 \in S
    <3>1. Within(v, i + 1, E) = Wider(Within(v, i, E), E)
      BY WithinSteps
    <3>2. \A x : Neighbours(x, E) \subseteq all
      BY NeighboursType
    <3>3. Within(v, i + 1, E) \subseteq all
      BY <2>2, <3>1, <3>2 DEF Wider
    <3> QED
      BY <3>3
  <2>3. Nat \subseteq S
    <3> HIDE DEF S
    <3> QED
      BY <2>1, <2>2, InductionOn
  <2> QED
    BY <2>3
<1> HIDE DEF all
<1>3. Within(v, k, E) \in SUBSET all
  BY <1>2
<1>4. /\ IsFiniteSet(Within(v, k, E)) /\ Cardinality(Within(v, k, E)) <= Cardinality(all)
      /\ Cardinality(Within(v, k, E)) \in Nat /\ Cardinality(all) \in Nat
  BY <1>1, <1>3, FS_Subset, FS_CardinalityType
<1> QED
  BY <1>1, <1>4

-------------------------------------------------------------------------------
(* One turn of the loop.                                                       *)

TreeType    == [root : Nat, ancestors : Seq(Nat)]
SearchState == [trees : Seq(TreeType), visited : SUBSET Nat, path : Seq(Nat)]

InTrees(t, s) == t \in Range(s.trees)

Hit(s, end, E) == \E t : InTrees(t, s) /\ end \in Neighbours(t.root, E)

LEMMA TreesMembers ==
    ASSUME NEW s \in SearchState
    PROVE  \A t : InTrees(t, s) => /\ t \in TreeType /\ t.root \in Nat /\ t.ancestors \in Seq(Nat)
                                  /\ PathTo(t) \in Seq(Nat)
<1>1. s.trees \in Seq(TreeType)
  BY DEF SearchState
<1>2. \A t : InTrees(t, s) => t \in TreeType
  BY <1>1 DEF InTrees, Range
<1> QED
  BY <1>2 DEF TreeType, PathTo

LEMMA NextTreesMembers ==
    ASSUME NEW t \in TreeType, NEW V, NEW E, E \subseteq Pair, IsFiniteSet(E)
    PROVE  /\ NextTrees(t, V, E) \in Seq(TreeType)
           /\ \A u : u \in Range(NextTrees(t, V, E))
                      <=> \E w \in Neighbours(t.root, E) \ V : u = Tree(w, PathTo(t))
<1> DEFINE N == Neighbours(t.root, E) \ V
           new == Ascending(N)
<1>1. N \subseteq Nat /\ IsFiniteSet(N)
  <2>1. Neighbours(t.root, E) \subseteq Nat /\ IsFiniteSet(Neighbours(t.root, E))
    BY NeighboursType
  <2> QED
    BY <2>1, FS_Difference
<1>2. new \in Seq(N) /\ Range(new) = N
  <2> HIDE DEF N
  <2> QED
    BY <1>1, AscendingMembers
<1>3. NextTrees(t, V, E) = [c \in DOMAIN new |-> Tree(new[c], PathTo(t))]
  BY DEF NextTrees
<1>4. PathTo(t) \in Seq(Nat)
  BY DEF PathTo, TreeType
<1> HIDE DEF N, new
<1>5. \A w \in N : Tree(w, PathTo(t)) \in TreeType
  BY <1>1, <1>4 DEF Tree, TreeType
<1>6. DOMAIN new = 1 .. Len(new) /\ Len(new) \in Nat /\ \A c \in DOMAIN new : new[c] \in N
  BY <1>2
<1>7. NextTrees(t, V, E) \in Seq(TreeType)
  BY <1>3, <1>5, <1>6
<1>8. \A u : u \in Range(NextTrees(t, V, E)) <=> \E w \in N : u = Tree(w, PathTo(t))
  <2>1. \A w : w \in N <=> \E c \in DOMAIN new : w = new[c]
    BY <1>2 DEF Range
  <2> QED
    BY <1>3, <2>1 DEF Range
<1> QED
  BY <1>7, <1>8 DEF N

LEMMA CheckTreesMeans ==
    ASSUME NEW s \in SearchState, s.path = <<>>, NEW end \in Nat, NEW E, E \subseteq Pair
    PROVE  LET c == CheckTrees(s, Hits(s, end, E), end)
           IN  /\ c \in SearchState /\ c.trees = s.trees
               /\ ~Hit(s, end, E) =>
                    /\ c.path = <<>>
                    /\ \A x : x \in c.visited <=> x \in s.visited \/ \E t : InTrees(t, s) /\ t.root = x
               /\ Hit(s, end, E) =>
                    \E t : /\ InTrees(t, s) /\ end \in Neighbours(t.root, E)
                          /\ c.path = Append(PathTo(t), end)
<1> DEFINE hits == Hits(s, end, E)
           c == CheckTrees(s, hits, end)
<1>1. /\ s.trees \in Seq(TreeType) /\ s.visited \in SUBSET Nat /\ s.path \in Seq(Nat)
      /\ s = [trees |-> s.trees, visited |-> s.visited, path |-> s.path]
      /\ DOMAIN s.trees = 1 .. Len(s.trees) /\ Len(s.trees) \in Nat
  BY DEF SearchState
<1>2. \A i \in DOMAIN s.trees : InTrees(s.trees[i], s) /\ s.trees[i].root \in Nat
                               /\ PathTo(s.trees[i]) \in Seq(Nat)
  <2>1. \A i \in DOMAIN s.trees : InTrees(s.trees[i], s)
    BY DEF InTrees, Range
  <2> QED
    BY <2>1, TreesMembers
<1>3. /\ \A i : i \in hits <=> i \in DOMAIN s.trees /\ end \in Neighbours(s.trees[i].root, E)
      /\ Hit(s, end, E) <=> hits # {}
  BY DEF Hits, Hit, InTrees, Range
<1> HIDE DEF hits
<1>4. CASE hits = {}
  <2>1. c = [s EXCEPT !.visited = @ \union {s.trees[i].root : i \in DOMAIN s.trees}]
    BY <1>4 DEF CheckTrees
  <2>2. /\ c.trees = s.trees /\ c.path = s.path
        /\ c.visited = s.visited \union {s.trees[i].root : i \in DOMAIN s.trees}
    BY <1>1, <2>1
  <2>3. c \in SearchState
    BY <1>1, <1>2, <2>1 DEF SearchState
  <2>4. \A x : x \in c.visited <=> x \in s.visited \/ \E t : InTrees(t, s) /\ t.root = x
    BY <2>2 DEF InTrees, Range
  <2> QED
    BY <1>3, <1>4, <2>2, <2>3, <2>4 DEF hits
<1>5. CASE hits # {}
  <2> DEFINE i == Min(hits)
  <2>1. i \in hits
    <3>1. hits \subseteq Nat
      BY <1>1, <1>3
    <3>2. \E m \in hits : \A x \in hits : m <= x
      BY <1>5, <3>1, LeastMember
    <3> QED
      BY <3>2 DEF Min
  <2>2. c = [s EXCEPT !.visited = @ \union {s.trees[j].root : j \in 1 .. i - 1},
                      !.path = Append(PathTo(s.trees[i]), end)]
    BY <1>5 DEF CheckTrees
  <2> HIDE DEF i
  <2>3. /\ i \in DOMAIN s.trees /\ i \in Nat /\ end \in Neighbours(s.trees[i].root, E)
        /\ \A j \in 1 .. i - 1 : j \in DOMAIN s.trees
    BY <1>1, <1>3, <2>1
  <2>4. {s.trees[j].root : j \in 1 .. i - 1} \subseteq Nat
    BY <1>2, <2>3
  <2>5. Append(PathTo(s.trees[i]), end) \in Seq(Nat)
    BY <1>2, <2>3
  <2>6. c \in SearchState
    BY <1>1, <2>2, <2>4, <2>5 DEF SearchState
  <2>7. c.trees = s.trees /\ c.path = Append(PathTo(s.trees[i]), end)
    BY <1>1, <2>2
  <2> QED
    BY <1>2, <1>3, <1>5, <2>3, <2>6, <2>7 DEF hits
<1> QED
  BY <1>4, <1>5

LEMMA UnvisitedMeans ==
    ASSUME NEW s \in SearchState, NEW E, E \subseteq Pair, IsFiniteSet(E)
    PROVE  LET u == GetUnvisitedTrees(s, E)
           IN  /\ u \in SearchState /\ u.visited = s.visited /\ u.path = s.path
               /\ \A t : InTrees(t, u) <=>
                     \E r : /\ InTrees(r, s)
                           /\ \E w \in Neighbours(r.root, E) \ s.visited : t = Tree(w, PathTo(r))
<1> DEFINE next == [i \in DOMAIN s.trees |-> NextTrees(s.trees[i], s.visited, E)]
           u == GetUnvisitedTrees(s, E)
<1>1. /\ s.trees \in Seq(TreeType) /\ s.visited \in SUBSET Nat /\ s.path \in Seq(Nat)
      /\ s = [trees |-> s.trees, visited |-> s.visited, path |-> s.path]
      /\ DOMAIN s.trees = 1 .. Len(s.trees) /\ Len(s.trees) \in Nat
  BY DEF SearchState
<1>2. ASSUME NEW i \in DOMAIN s.trees
      PROVE  /\ next[i] \in Seq(TreeType)
             /\ \A t : t \in Range(next[i])
                        <=> \E w \in Neighbours(s.trees[i].root, E) \ s.visited : t = Tree(w, PathTo(s.trees[i]))
  <2>1. s.trees[i] \in TreeType
    BY <1>1
  <2>2. next[i] = NextTrees(s.trees[i], s.visited, E)
    OBVIOUS
  <2> HIDE DEF next
  <2> QED
    BY <2>1, <2>2, NextTreesMembers
<1>3. next \in Seq(Seq(TreeType)) /\ DOMAIN next = DOMAIN s.trees
  <2>1. next \in [1 .. Len(s.trees) -> Seq(TreeType)] /\ DOMAIN next = DOMAIN s.trees
    BY <1>1, <1>2
  <2> HIDE DEF next
  <2> QED
    BY <1>1, <2>1
<1>4. u = [s EXCEPT !.trees = FlattenSeq(next)]
  BY DEF GetUnvisitedTrees
<1> HIDE DEF next
<1>5. /\ FlattenSeq(next) \in Seq(TreeType)
      /\ \A t : t \in Range(FlattenSeq(next)) <=> \E i \in DOMAIN s.trees : t \in Range(next[i])
  BY <1>3, FlattenMembers
<1>6. u \in SearchState /\ u.visited = s.visited /\ u.path = s.path /\ u.trees = FlattenSeq(next)
  BY <1>1, <1>4, <1>5 DEF SearchState
<1>7. \A r : InTrees(r, s) <=> \E i \in DOMAIN s.trees : r = s.trees[i]
  BY DEF InTrees, Range
<1>8. \A t : InTrees(t, u) <=>
            \E r : /\ InTrees(r, s)
                  /\ \E w \in Neighbours(r.root, E) \ s.visited : t = Tree(w, PathTo(r))
  <2>1. \A t : InTrees(t, u) <=> \E i \in DOMAIN s.trees : t \in Range(next[i])
    BY <1>5, <1>6 DEF InTrees
  <2> HIDE DEF u
  <2>2. ASSUME NEW t, InTrees(t, u)
        PROVE  \E r : /\ InTrees(r, s)
                     /\ \E w \in Neighbours(r.root, E) \ s.visited : t = Tree(w, PathTo(r))
    <3>1. PICK i \in DOMAIN s.trees : t \in Range(next[i])
      BY <2>1, <2>2
    <3>2. \E w \in Neighbours(s.trees[i].root, E) \ s.visited : t = Tree(w, PathTo(s.trees[i]))
      BY <1>2, <3>1
    <3> QED
      BY <1>7, <3>2, Zenon
  <2>3. ASSUME NEW t, NEW r, InTrees(r, s),
               \E w \in Neighbours(r.root, E) \ s.visited : t = Tree(w, PathTo(r))
        PROVE  InTrees(t, u)
    <3>1. PICK i \in DOMAIN s.trees : r = s.trees[i]
      BY <1>7, <2>3
    <3>2. t \in Range(next[i])
      BY <1>2, <2>3, <3>1
    <3> QED
      BY <2>1, <3>2
  <2> QED
    BY <2>2, <2>3, Zenon
<1> QED
  BY <1>6, <1>8

LEMMA TurnMeans ==
    ASSUME NEW s \in SearchState, s.path = <<>>, s.trees # <<>>,
           NEW end \in Nat, NEW E, E \subseteq Pair, IsFiniteSet(E)
    PROVE  LET u == Turn(s, end, E)
           IN  /\ u \in SearchState
               /\ Hit(s, end, E) =>
                    \E t : /\ InTrees(t, s) /\ end \in Neighbours(t.root, E)
                          /\ u.path = Append(PathTo(t), end)
               /\ ~Hit(s, end, E) =>
                    /\ u.path = <<>>
                    /\ \A x : x \in u.visited <=> x \in s.visited \/ \E t : InTrees(t, s) /\ t.root = x
                    /\ \A t : InTrees(t, u) <=>
                          \E r : /\ InTrees(r, s)
                                /\ \E w \in Neighbours(r.root, E) \ u.visited : t = Tree(w, PathTo(r))
<1> DEFINE c == CheckTrees(s, Hits(s, end, E), end)
           u == Turn(s, end, E)
<1>1. u = GetUnvisitedTrees(c, E)
  BY DEF Turn
<1>2. /\ c \in SearchState /\ c.trees = s.trees
      /\ ~Hit(s, end, E) =>
           /\ c.path = <<>>
           /\ \A x : x \in c.visited <=> x \in s.visited \/ \E t : InTrees(t, s) /\ t.root = x
      /\ Hit(s, end, E) =>
           \E t : /\ InTrees(t, s) /\ end \in Neighbours(t.root, E)
                 /\ c.path = Append(PathTo(t), end)
  BY CheckTreesMeans
<1> HIDE DEF c
<1>3. /\ u \in SearchState /\ u.visited = c.visited /\ u.path = c.path
      /\ \A t : InTrees(t, u) <=>
            \E r : /\ InTrees(r, c)
                  /\ \E w \in Neighbours(r.root, E) \ c.visited : t = Tree(w, PathTo(r))
  BY <1>1, <1>2, UnvisitedMeans
<1>4. \A r : InTrees(r, c) <=> InTrees(r, s)
  BY <1>2 DEF InTrees
<1> HIDE DEF u
<1> QED
  BY <1>2, <1>3, <1>4 DEF u

FirstState(start) == [trees |-> <<Tree(start, <<>>)>>, visited |-> {}, path |-> <<>>]

LEMMA TurnType ==
    ASSUME NEW E, E \subseteq Pair, IsFiniteSet(E), NEW end \in Nat
    PROVE  \A s \in SearchState : Turn(s, end, E) \in SearchState
<1> SUFFICES ASSUME NEW s \in SearchState PROVE Turn(s, end, E) \in SearchState
  OBVIOUS
<1>1. CASE s.path # <<>> \/ s.trees = <<>>
  BY <1>1 DEF Turn
<1>2. CASE s.path = <<>> /\ s.trees # <<>>
  BY <1>2, TurnMeans
<1> QED
  BY <1>1, <1>2

LEMMA FirstStateMeans ==
    ASSUME NEW start \in Nat
    PROVE  /\ FirstState(start) \in SearchState
           /\ \A t : InTrees(t, FirstState(start)) <=> t = Tree(start, <<>>)
<1> DEFINE t0 == Tree(start, <<>>)
           s  == FirstState(start)
<1>1. t0 \in TreeType
  BY DEF Tree, TreeType
<1> HIDE DEF t0
<1>2. s.trees = <<t0>> /\ s.visited = {} /\ s.path = <<>>
  BY DEF FirstState, t0
<1>3. s \in SearchState
  BY <1>1 DEF FirstState, SearchState, t0
<1>4. \A t : t \in Range(<<t0>>) <=> t = t0
  BY DEF Range
<1> HIDE DEF s
<1>5. \A t : InTrees(t, s) <=> t = t0
  BY <1>2, <1>4 DEF InTrees
<1> QED
  BY <1>3, <1>5 DEF s, t0

LEMMA TurnSteps ==
    ASSUME NEW E, E \subseteq Pair, IsFiniteSet(E), NEW start \in Nat, NEW end \in Nat
    PROVE  /\ AfterTurns(0, start, end, E) = FirstState(start)
           /\ \A k \in Nat : /\ AfterTurns(k, start, end, E) \in SearchState
                              /\ AfterTurns(k + 1, start, end, E) = Turn(AfterTurns(k, start, end, E), end, E)
<1> DEFINE s0 == FirstState(start)
           round[i \in Nat] == IF i = 0 THEN s0 ELSE Turn(round[i - 1], end, E)
           step == [k \in Nat |-> [s \in SearchState |-> Turn(s, end, E)]]
<1>1. s0 \in SearchState
  BY FirstStateMeans
<1>2. step \in Steps(SearchState)
  BY TurnType DEF Steps
<1>3. \A k : AfterTurns(k, start, end, E) = round[k]
  BY DEF AfterTurns, FirstState
<1> HIDE DEF s0
<1>4. PICK f : Repeats(f, SearchState, s0, step)
  <2> HIDE DEF step
  <2> QED
    BY <1>1, <1>2, Iteration
<1>5. /\ f[0] = s0
      /\ \A k \in Nat : f[k] \in SearchState /\ f[k + 1] = Turn(f[k], end, E)
  BY <1>4 DEF Repeats
<1>6. \E g : g = [i \in Nat |-> IF i = 0 THEN s0 ELSE Turn(g[i - 1], end, E)]
  <2> DEFINE g == [i \in Nat |-> f[i]]
  <2>1. ASSUME NEW i \in Nat
        PROVE  g[i] = IF i = 0 THEN s0 ELSE Turn(g[i - 1], end, E)
    <3>1. CASE i = 0
      BY <1>5, <3>1
    <3>2. CASE i # 0
      <4>1. i - 1 \in Nat /\ (i - 1) + 1 = i
        BY <3>2
      <4> QED
        BY <1>5, <3>2, <4>1
    <3> QED
      BY <3>1, <3>2
  <2>2. g = [i \in Nat |-> IF i = 0 THEN s0 ELSE Turn(g[i - 1], end, E)]
    BY <2>1
  <2> HIDE DEF g
  <2> QED
    BY <2>2
<1>7. round = [i \in Nat |-> IF i = 0 THEN s0 ELSE Turn(round[i - 1], end, E)]
  <2>1. round = CHOOSE g : g = [i \in Nat |-> IF i = 0 THEN s0 ELSE Turn(g[i - 1], end, E)]
    BY DEF round
  <2> HIDE DEF round
  <2> QED
    BY <1>6, <2>1, Zenon
<1> HIDE DEF round, step
<1>8. round[0] = s0 /\ \A k \in Nat : round[k + 1] = Turn(round[k], end, E)
  <2>1. round[0] = s0
    BY <1>7
  <2>2. ASSUME NEW k \in Nat
        PROVE  round[k + 1] = Turn(round[k], end, E)
    <3>1. k + 1 \in Nat /\ k + 1 # 0 /\ (k + 1) - 1 = k
      OBVIOUS
    <3> QED
      BY <1>7, <3>1
  <2> QED
    BY <2>1, <2>2
<1>9. \A k \in Nat : round[k] \in SearchState
  <2> DEFINE S == {k \in Nat : round[k] \in SearchState}
  <2>1. 0 \in S /\ \A k \in Nat : k \in S => k + 1 \in S
    BY <1>1, <1>8, TurnType
  <2>2. Nat \subseteq S
    <3> HIDE DEF S
    <3> QED
      BY <2>1, InductionOn
  <2> QED
    BY <2>2
<1> QED
  BY <1>3, <1>8, <1>9 DEF s0

-------------------------------------------------------------------------------
(* What holds after k turns without a hit: each tree hangs on a walk of k      *)
(* edges; the visited vertices and the roots are the vertices within k edges,  *)
(* the roots being new; and the end is not among them.                         *)

Level(s, k, start, end, E) ==
    LET B == Within(start, k, E)
    IN  /\ \A t : InTrees(t, s) => /\ Len(t.ancestors) = k
                                  /\ IsWalk(PathTo(t), start, t.root, E)
                                  /\ t.root \in B /\ t.root \notin s.visited
        /\ \A x \in B : x \in s.visited \/ \E t : InTrees(t, s) /\ t.root = x
        /\ \A x \in s.visited : x \in B /\ Neighbours(x, E) \subseteq B
        /\ end \notin B
        /\ s.trees # <<>> => Cardinality(B) >= k + 1

Found(p, start, end, E) ==
    /\ Len(p) > 1 /\ IsWalk(p, start, end, E)
    /\ end \notin Within(start, Len(p) - 2, E)

SearchInv(s, k, start, end, E) ==
    IF s.path = <<>> THEN Level(s, k, start, end, E) ELSE Found(s.path, start, end, E)

\* A walk and one more edge.
LEMMA LongerWalk ==
    ASSUME NEW p \in Seq(Nat), p # <<>>, NEW start, NEW v, NEW w \in Nat, NEW E,
           IsWalk(p, start, v, E), w \in Neighbours(v, E)
    PROVE  IsWalk(Append(p, w), start, w, E) /\ Len(Append(p, w)) = Len(p) + 1
<1> DEFINE q == Append(p, w)
           n == Len(p)
<1>1. /\ n \in Nat \ {0} /\ Len(q) = n + 1 /\ q[n + 1] = w
      /\ \A i \in 1 .. n : q[i] = p[i]
  OBVIOUS
<1> HIDE DEF q, n
<1>2. p[1] = start /\ p[n] = v /\ \A i \in 1 .. n - 1 : p[i + 1] \in Neighbours(p[i], E)
  BY DEF IsWalk, n
<1>3. q[1] = start /\ q[Len(q)] = w
  BY <1>1, <1>2
<1>4. ASSUME NEW i \in 1 .. Len(q) - 1
      PROVE  q[i + 1] \in Neighbours(q[i], E)
  <2>1. i \in 1 .. n
    BY <1>1
  <2>2. CASE i = n
    BY <1>1, <1>2, <2>2
  <2>3. CASE i # n
    <3>1. i \in 1 .. n - 1 /\ i + 1 \in 1 .. n
      BY <1>1, <2>1, <2>3
    <3> QED
      BY <1>1, <1>2, <2>1, <3>1
  <2> QED
    BY <2>2, <2>3
<1>5. IsWalk(q, start, w, E)
  BY <1>3, <1>4 DEF IsWalk
<1> QED
  BY <1>1, <1>5 DEF q, n

LEMMA FirstLevel ==
    ASSUME NEW E, E \subseteq Pair, NEW start \in Nat, NEW end \in Nat, start # end
    PROVE  SearchInv(FirstState(start), 0, start, end, E)
<1> DEFINE s == FirstState(start)
           t0 == Tree(start, <<>>)
<1>1. s.path = <<>> /\ s.visited = {}
  BY DEF FirstState
<1>2. Within(start, 0, E) = {start} /\ Cardinality({start}) = 1
  BY WithinSteps, FS_Singleton
<1>3. t0.root = start /\ t0.ancestors = <<>> /\ PathTo(t0) = <<start>>
  BY DEF Tree, PathTo
<1>4. Len(t0.ancestors) = 0 /\ IsWalk(PathTo(t0), start, start, E)
  BY <1>3 DEF IsWalk
<1>5. \A t : InTrees(t, s) <=> t = t0
  BY FirstStateMeans
<1> HIDE DEF s, t0
<1>6. Level(s, 0, start, end, E)
  <2>1. Cardinality(Within(start, 0, E)) >= 0 + 1
    BY <1>2
  <2>2. \A t : InTrees(t, s) => /\ Len(t.ancestors) = 0
                               /\ IsWalk(PathTo(t), start, t.root, E)
                               /\ t.root \in Within(start, 0, E) /\ t.root \notin s.visited
    BY <1>1, <1>2, <1>3, <1>4, <1>5
  <2>3. \A x \in Within(start, 0, E) : x \in s.visited \/ \E t : InTrees(t, s) /\ t.root = x
    BY <1>2, <1>3, <1>5
  <2>4. \A x \in s.visited : x \in Within(start, 0, E) /\ Neighbours(x, E) \subseteq Within(start, 0, E)
    BY <1>1
  <2>5. end \notin Within(start, 0, E)
    BY <1>2
  <2> QED
    BY <2>1, <2>2, <2>3, <2>4, <2>5 DEF Level
<1> QED
  BY <1>1, <1>6 DEF SearchInv, s

LEMMA NextLevel ==
    ASSUME NEW E, E \subseteq Pair, IsFiniteSet(E), NEW start \in Nat, NEW end \in Nat,
           NEW k \in Nat, NEW s \in SearchState, SearchInv(s, k, start, end, E)
    PROVE  SearchInv(Turn(s, end, E), k + 1, start, end, E)
<1> DEFINE B == Within(start, k, E)
           C == Within(start, k + 1, E)
           u == Turn(s, end, E)
<1>1. B \subseteq Nat /\ \A y : y \in C <=> y \in B \/ \E x \in B : y \in Neighbours(x, E)
  <2>1. B \subseteq Nat /\ C = Wider(B, E)
    BY WithinSteps
  <2> HIDE DEF B, C
  <2> QED
    BY <2>1 DEF Wider
<1>2. /\ IsFiniteSet(B) /\ Cardinality(B) \in Nat
      /\ IsFiniteSet(C) /\ Cardinality(C) \in Nat
  <2>1. k + 1 \in Nat
    OBVIOUS
  <2> QED
    BY <2>1, WithinIsFinite
<1>3. CASE s.path # <<>>
  BY <1>3 DEF Turn, SearchInv
<1>4. CASE s.path = <<>> /\ s.trees = <<>>
  <2>1. u = s /\ Level(s, k, start, end, E)
    BY <1>4 DEF Turn, SearchInv
  <2>2. \A t : ~InTrees(t, s)
    BY <1>4 DEF InTrees, Range
  <2> HIDE DEF B, C
  <2>3. /\ \A x \in B : x \in s.visited
        /\ \A x \in s.visited : x \in B /\ Neighbours(x, E) \subseteq B
        /\ end \notin B
    BY <2>1, <2>2 DEF Level, B
  <2>4. C = B
    BY <1>1, <2>3
  <2>5. Level(s, k + 1, start, end, E)
    BY <1>4, <2>2, <2>3, <2>4 DEF Level, C
  <2> QED
    BY <1>4, <2>1, <2>5 DEF SearchInv
<1>5. CASE s.path = <<>> /\ s.trees # <<>>
  <2>1. Level(s, k, start, end, E)
    BY <1>5 DEF SearchInv
  <2>2. /\ \A t : InTrees(t, s) => /\ Len(t.ancestors) = k /\ t.ancestors \in Seq(Nat)
                                  /\ IsWalk(PathTo(t), start, t.root, E) /\ PathTo(t) \in Seq(Nat)
                                  /\ t.root \in B /\ t.root \notin s.visited
        /\ \A x \in B : x \in s.visited \/ \E t : InTrees(t, s) /\ t.root = x
        /\ \A x \in s.visited : x \in B /\ Neighbours(x, E) \subseteq B
        /\ end \notin B
        /\ Cardinality(B) >= k + 1
    BY <1>5, <2>1, TreesMembers DEF Level
  <2>3. \A t : InTrees(t, s) => Len(PathTo(t)) = k + 1 /\ PathTo(t) # <<>>
    <3> SUFFICES ASSUME NEW t, InTrees(t, s) PROVE Len(PathTo(t)) = k + 1 /\ PathTo(t) # <<>>
      OBVIOUS
    <3>1. t.ancestors \in Seq(Nat) /\ t.root \in Nat /\ Len(t.ancestors) = k
      BY <1>1, <2>2
    <3> DEFINE a == t.ancestors
               v == t.root
    <3>2. a \in Seq(Nat) /\ v \in Nat /\ Len(a) = k
      BY <3>1
    <3> HIDE DEF a, v
    <3>3. Len(Append(a, v)) = Len(a) + 1
      BY <3>2
    <3>4. Append(a, v) # <<>>
      BY <3>2, <3>3
    <3> QED
      BY <3>2, <3>3, <3>4 DEF PathTo, a, v
  <2>4. CASE Hit(s, end, E)
    <3>1. PICK t : /\ InTrees(t, s) /\ end \in Neighbours(t.root, E)
                   /\ u.path = Append(PathTo(t), end)
      BY <1>5, <2>4, TurnMeans
    <3>2. PathTo(t) \in Seq(Nat) /\ PathTo(t) # <<>> /\ IsWalk(PathTo(t), start, t.root, E)
          /\ Len(PathTo(t)) = k + 1
      BY <2>2, <2>3, <3>1
    <3>3. IsWalk(u.path, start, end, E) /\ Len(u.path) = (k + 1) + 1
      BY <3>1, <3>2, LongerWalk
    <3>4. u.path # <<>> /\ Len(u.path) > 1 /\ Len(u.path) - 2 = k
      BY <3>3
    <3> HIDE DEF u
    <3>5. Found(u.path, start, end, E)
      BY <2>2, <3>3, <3>4 DEF Found
    <3> QED
      BY <3>4, <3>5 DEF SearchInv, u
  <2>5. CASE ~Hit(s, end, E)
    <3>1. /\ u.path = <<>>
          /\ \A x : x \in u.visited <=> x \in s.visited \/ \E t : InTrees(t, s) /\ t.root = x
          /\ \A t : InTrees(t, u) <=>
                \E r : /\ InTrees(r, s)
                      /\ \E w \in Neighbours(r.root, E) \ u.visited : t = Tree(w, PathTo(r))
      BY <1>5, <2>5, TurnMeans
    <3>2. u \in SearchState
      BY TurnType
    <3> HIDE DEF u, B, C
    <3>3. \A x : x \in u.visited <=> x \in B
      BY <2>2, <3>1
    <3>4. ASSUME NEW t, InTrees(t, u)
          PROVE  /\ Len(t.ancestors) = k + 1 /\ IsWalk(PathTo(t), start, t.root, E)
                 /\ t.root \in C /\ t.root \notin u.visited
      <4>0. PICK r : /\ InTrees(r, s)
                     /\ \E w \in Neighbours(r.root, E) \ u.visited : t = Tree(w, PathTo(r))
        BY <3>1, <3>4
      <4>1. PICK w \in Neighbours(r.root, E) \ u.visited : t = Tree(w, PathTo(r))
        BY <4>0
      <4>2. t.root = w /\ t.ancestors = PathTo(r) /\ PathTo(t) = Append(PathTo(r), w)
        BY <4>1 DEF Tree, PathTo
      <4>3. w \in Nat
        BY <4>1, NeighboursType
      <4>4. IsWalk(Append(PathTo(r), w), start, w, E)
        BY <2>2, <2>3, <4>0, <4>1, <4>3, LongerWalk
      <4>5. w \in C
        BY <1>1, <2>2, <4>0, <4>1
      <4> QED
        BY <2>3, <4>0, <4>1, <4>2, <4>4, <4>5
    <3>5. ASSUME NEW y \in C, y \notin u.visited
          PROVE  \E t : InTrees(t, u) /\ t.root = y
      <4>1. y \notin B
        BY <3>3, <3>5
      <4>2. PICK x \in B : y \in Neighbours(x, E)
        BY <1>1, <4>1
      <4>3. x \notin s.visited
        BY <2>2, <4>1, <4>2
      <4>4. PICK r : InTrees(r, s) /\ r.root = x
        BY <2>2, <4>3
      <4>5. InTrees(Tree(y, PathTo(r)), u)
        BY <3>1, <3>5, <4>2, <4>4
      <4>6. Tree(y, PathTo(r)).root = y
        BY DEF Tree
      <4> QED
        BY <4>5, <4>6
    <3>6. \A x \in u.visited : x \in C /\ Neighbours(x, E) \subseteq C
      BY <1>1, <3>3
    <3>7. end \notin C
      <4> SUFFICES ASSUME NEW x \in B, end \in Neighbours(x, E) PROVE FALSE
        BY <1>1, <2>2
      <4>1. x \notin s.visited
        BY <2>2
      <4>2. PICK r : InTrees(r, s) /\ r.root = x
        BY <2>2, <4>1
      <4> QED
        BY <2>5, <4>2 DEF Hit
    <3>8. ASSUME u.trees # <<>> PROVE Cardinality(C) >= (k + 1) + 1
      <4>1. PICK t : InTrees(t, u)
        <5>1. u.trees \in Seq(TreeType)
          BY <3>2 DEF SearchState
        <5>2. 1 \in DOMAIN u.trees
          BY <3>8, <5>1
        <5> QED
          BY <5>2 DEF InTrees, Range
      <4>2. t.root \in C /\ t.root \notin B
        BY <3>3, <3>4, <4>1
      <4>3. B \in SUBSET C
        BY <1>1
      <4>4. Cardinality(B) <= Cardinality(C) /\ Cardinality(B) # Cardinality(C)
        BY <1>2, <4>2, <4>3, FS_Subset
      <4> QED
        BY <1>2, <2>2, <4>4
    <3>9. Level(u, k + 1, start, end, E)
      BY <3>4, <3>5, <3>6, <3>7, <3>8 DEF Level, C
    <3> QED
      BY <3>1, <3>9 DEF SearchInv, u
  <2> QED
    BY <2>4, <2>5
<1> QED
  BY <1>3, <1>4, <1>5

LEMMA EveryLevel ==
    ASSUME NEW E, E \subseteq Pair, IsFiniteSet(E), NEW start \in Nat, NEW end \in Nat,
           start # end
    PROVE  \A k \in Nat : SearchInv(AfterTurns(k, start, end, E), k, start, end, E)
<1> DEFINE S == {k \in Nat : SearchInv(AfterTurns(k, start, end, E), k, start, end, E)}
<1>1. 0 \in S
  BY TurnSteps, FirstLevel
<1>2. ASSUME NEW k \in Nat, k \in S
      PROVE  k + 1 \in S
  <2>1. /\ AfterTurns(k, start, end, E) \in SearchState
        /\ AfterTurns(k + 1, start, end, E) = Turn(AfterTurns(k, start, end, E), end, E)
    BY TurnSteps
  <2>2. SearchInv(AfterTurns(k + 1, start, end, E), k + 1, start, end, E)
    BY <1>2, <2>1, NextLevel
  <2> QED
    BY <2>2
<1>3. Nat \subseteq S
  <2> HIDE DEF S
  <2> QED
    BY <1>1, <1>2, InductionOn
<1> QED
  BY <1>3

LEMMA MaxTurnsType ==
    ASSUME NEW E, IsFiniteSet(E)
    PROVE  MaxTurns(E) \in Nat
BY FS_CardinalityType DEF MaxTurns

(* The search ends: with no path found, no tree is left after twice as many    *)
(* turns as there are edges and one more, since every turn that leaves a tree  *)
(* has reached another vertex (MyGraph.cpp:149-165).                           *)
THEOREM SearchEnds ==
    ASSUME NEW E, E \subseteq Pair, IsFiniteSet(E), NEW start \in Nat, NEW end \in Nat,
           start # end
    PROVE  LET s == AfterTurns(MaxTurns(E), start, end, E)
           IN  s.path # <<>> \/ s.trees = <<>>
<1> DEFINE s == AfterTurns(MaxTurns(E), start, end, E)
           B == Within(start, MaxTurns(E), E)
<1>1. MaxTurns(E) \in Nat
  BY MaxTurnsType
<1>2. SearchInv(s, MaxTurns(E), start, end, E)
  BY <1>1, EveryLevel
<1>3. Cardinality(B) \in Nat /\ Cardinality(B) <= MaxTurns(E)
  BY <1>1, WithinIsFinite
<1> SUFFICES ASSUME s.path = <<>>, s.trees # <<>> PROVE FALSE
  OBVIOUS
<1>4. Cardinality(B) >= MaxTurns(E) + 1
  BY <1>2 DEF SearchInv, Level
<1> HIDE DEF B
<1> QED
  BY <1>1, <1>3, <1>4

\* What the code means by an answer, at any distance.
PathOrNone(p, start, end, E) ==
    IF p = <<>> THEN ~InEdges(start, E) \/ \A k \in Nat : end \notin Within(start, k, E)
    ELSE (p = <<start>> /\ start = end) \/ Found(p, start, end, E)

LEMMA SearchAnswers ==
    ASSUME NEW E, E \subseteq Pair, IsFiniteSet(E), NEW start \in Nat, NEW end \in Nat,
           start # end
    PROVE  PathOrNone(Search(start, end, E), start, end, E)
<1> DEFINE m == MaxTurns(E)
           s == AfterTurns(m, start, end, E)
           B == Within(start, m, E)
<1>1. m \in Nat
  BY MaxTurnsType
<1>2. SearchInv(s, m, start, end, E)
  BY <1>1, EveryLevel
<1>3. s.path # <<>> \/ s.trees = <<>>
  BY SearchEnds
<1>4. Search(start, end, E) = s.path
  BY DEF Search
<1> HIDE DEF s, m
<1>5. CASE s.path # <<>>
  BY <1>2, <1>4, <1>5 DEF SearchInv, PathOrNone
<1>6. CASE s.path = <<>>
  <2>1. \A t : ~InTrees(t, s)
    BY <1>3, <1>6 DEF InTrees, Range
  <2>2. Level(s, m, start, end, E)
    BY <1>2, <1>6 DEF SearchInv
  <2>3. end \notin B /\ \A x \in B : Neighbours(x, E) \subseteq B
    BY <2>1, <2>2 DEF Level
  <2>4. ASSUME NEW k \in Nat
        PROVE  Within(start, k, E) \subseteq B
    <3> DEFINE S == {i \in Nat : Within(start, i, E) \subseteq B}
    <3>1. 0 \in S
      <4>1. 0 <= m
        BY <1>1
      <4> QED
        BY <1>1, <4>1, WithinGrows
    <3>2. ASSUME NEW i \in Nat, i \in S
          PROVE  i + 1 \in S
      <4>1. Within(start, i + 1, E) = Wider(Within(start, i, E), E)
        BY WithinSteps
      <4>2. Within(start, i, E) \subseteq B
        BY <3>2
      <4> HIDE DEF B
      <4>3. Within(start, i + 1, E) \subseteq B
        BY <2>3, <4>1, <4>2 DEF Wider
      <4> QED
        BY <4>3 DEF B
    <3>3. Nat \subseteq S
      <4> HIDE DEF S
      <4> QED
        BY <3>1, <3>2, InductionOn
    <3> QED
      BY <3>3
  <2>5. \A k \in Nat : end \notin Within(start, k, E)
    BY <2>3, <2>4
  <2> QED
    BY <1>4, <1>6, <2>5 DEF PathOrNone
<1> QED
  BY <1>5, <1>6

\* A vertex without edges: the first turn leaves no tree.
LEMMA NothingFromNowhere ==
    ASSUME NEW E, E \subseteq Pair, IsFiniteSet(E), NEW start \in Nat, NEW end \in Nat,
           ~InEdges(start, E)
    PROVE  Search(start, end, E) = <<>>
<1> DEFINE S == {k \in Nat : LET s == AfterTurns(k, start, end, E)
                             IN  s.path = <<>> /\ \A t : InTrees(t, s) => t.root = start}
<1>1. Neighbours(start, E) = {}
  BY DEF Neighbours, InEdges
<1>2. 0 \in S
  <2>1. /\ AfterTurns(0, start, end, E) = FirstState(start)
        /\ \A t : InTrees(t, FirstState(start)) <=> t = Tree(start, <<>>)
    BY TurnSteps, FirstStateMeans
  <2>2. Tree(start, <<>>).root = start /\ FirstState(start).path = <<>>
    BY DEF Tree, FirstState
  <2> QED
    BY <2>1, <2>2
<1>3. ASSUME NEW k \in Nat, k \in S
      PROVE  k + 1 \in S
  <2> DEFINE s == AfterTurns(k, start, end, E)
             u == Turn(s, end, E)
  <2>1. s \in SearchState /\ AfterTurns(k + 1, start, end, E) = u
    BY TurnSteps
  <2>2. s.path = <<>> /\ \A t : InTrees(t, s) => t.root = start
    BY <1>3
  <2> HIDE DEF s
  <2>3. ~Hit(s, end, E)
    BY <1>1, <2>2 DEF Hit
  <2>4. u.path = <<>> /\ \A t : InTrees(t, u) => t.root = start
    <3>1. CASE s.trees = <<>>
      BY <2>2, <3>1 DEF Turn
    <3>2. CASE s.trees # <<>>
      <4>1. /\ u.path = <<>>
            /\ \A t : InTrees(t, u) <=>
                  \E r : /\ InTrees(r, s)
                        /\ \E w \in Neighbours(r.root, E) \ u.visited : t = Tree(w, PathTo(r))
        BY <2>1, <2>2, <2>3, <3>2, TurnMeans
      <4> HIDE DEF u
      <4> QED
        BY <1>1, <2>2, <4>1
    <3> QED
      BY <3>1, <3>2
  <2> QED
    BY <2>1, <2>4
<1>4. Nat \subseteq S
  <2> HIDE DEF S
  <2> QED
    BY <1>2, <1>3, InductionOn
<1>5. MaxTurns(E) \in S
  <2>1. MaxTurns(E) \in Nat
    BY MaxTurnsType
  <2> HIDE DEF S
  <2> QED
    BY <1>4, <2>1
<1> QED
  BY <1>5 DEF Search

LEMMA PathIsRight ==
    ASSUME NEW E, E \subseteq Pair, IsFiniteSet(E), NEW start \in Nat, NEW end \in Nat
    PROVE  PathOrNone(FindShortestPath(start, end, E), start, end, E)
<1> DEFINE p == FindShortestPath(start, end, E)
<1>1. CASE start = end /\ InEdges(start, E)
  <2>1. p = <<start>> /\ p # <<>>
    BY <1>1 DEF FindShortestPath
  <2> QED
    BY <1>1, <2>1 DEF PathOrNone
<1>2. CASE start = end /\ ~InEdges(start, E)
  <2>1. p = <<>>
    BY <1>2, NothingFromNowhere DEF FindShortestPath
  <2> QED
    BY <1>2, <2>1 DEF PathOrNone
<1>3. CASE start # end
  <2>1. p = Search(start, end, E)
    BY <1>3 DEF FindShortestPath
  <2> QED
    BY <1>3, <2>1, SearchAnswers
<1> QED
  BY <1>1, <1>2, <1>3

-------------------------------------------------------------------------------
(* The searches of the parser.                                                 *)

(* The answer that is kept is right for the graph that is kept with it.        *)
AskedOf(g) == /\ asked[1] \in Nat /\ asked[2] \in Nat
              /\ PathOrNone(path, asked[1], asked[2], g.edges)

PathInv == /\ IInv
           /\ IsFiniteSet(graph.edges)
           /\ asked # <<>> => AskedOf(graph)

(* A line's edges are finitely many, and every other line keeps them or leaves *)
(* none.                                                                       *)
LEMMA ParseKeepsFinite ==
    ASSUME NEW g \in Graph, IsFiniteSet(g.edges), NEW line \in Line
    PROVE  IsFiniteSet(Parse(line, g).edges)
<1>1. CASE GetCommand(line, g) = "V"
  BY <1>1, VStartsAgain, FS_EmptySet
<1>2. CASE GetCommand(line, g) = "E" /\ AllValid(line, g)
  <2> DEFINE r == line.pairs
             n == Len(r)
  <2>1. r \in Seq(Pair)
    BY DEF Line
  <2>2. n \in Nat /\ DOMAIN r = 1 .. n /\ r \in [1 .. n -> Range(r)]
    BY <2>1 DEF Range
  <2>3. IsFiniteSet(1 .. n)
    <3> HIDE DEF n
    <3> QED
      BY <2>2, FS_Interval
  <2> HIDE DEF r, n
  <2>4. r \in Surjection(1 .. n, Range(r))
    BY <2>2 DEF Range, Surjection
  <2>5. IsFiniteSet(Range(r))
    BY <2>3, <2>4, FS_Surjection
  <2>6. Parse(line, g).edges = Range(r)
    BY <1>2 DEF Parse, SetEdges, ResetEverything, Graph, r
  <2> QED
    BY <2>5, <2>6
<1>3. CASE GetCommand(line, g) = "E" /\ ~AllValid(line, g)
  BY <1>3 DEF Parse
<1>4. CASE GetCommand(line, g) # "V" /\ GetCommand(line, g) # "E"
  <2>1. Parse(line, g).edges = g.edges
    BY <1>4 DEF Parse, AfterGetCommand, Graph
  <2> QED
    BY <2>1
<1> QED
  BY <1>1, <1>2, <1>3, <1>4

LEMMA PathInitInv == PathInit => PathInv
<1> SUFFICES ASSUME PathInit PROVE PathInv
  OBVIOUS
<1>1. IInv /\ asked = <<>>
  BY InitIInv DEF PathInit
<1>2. graph.edges = {}
  BY DEF PathInit, Init, EmptyGraph
<1> QED
  BY <1>1, <1>2, FS_EmptySet DEF PathInv

LEMMA AskInv ==
    ASSUME PathInv, NEW line \in Lines, Ask(line)
    PROVE  PathInv'
<1>1. UNCHANGED <<graph, crashed>> /\ graph \in Graph /\ GetCommand(line, graph) = "s"
  BY DEF Ask, PathInv, IInv, TypeOK
<1>2. line \in Line /\ line.pairs # <<>>
  <2>1. line.kind = "s"
    BY <1>1 DEF GetCommand
  <2> QED
    BY <2>1, LinesAssumption, AskedAssumption
<1> DEFINE start == line.pairs[1][1]
           end   == line.pairs[1][2]
<1>3. start \in Nat /\ end \in Nat
  <2>1. line.pairs \in Seq(Nat \X Nat)
    BY <1>2 DEF Line, Pair
  <2>2. line.pairs[1] \in Nat \X Nat
    BY <1>2, <2>1
  <2> QED
    BY <2>2
<1> HIDE DEF start, end
<1>4. PICK e \in EndsRead(start, end) :
             /\ path' = FindShortestPath(ReadNumber(start), e, graph.edges)
             /\ asked' = <<ReadNumber(start), e>>
  BY DEF Ask, start, end
<1>5. ReadNumber(start) \in Nat /\ e \in Nat
  BY <1>3, IntMaxAssumption DEF EndsRead, ReadNumber
<1>6. graph.edges \subseteq Pair /\ IsFiniteSet(graph.edges)
  BY <1>1 DEF Graph, PathInv
<1>7. PathOrNone(path', ReadNumber(start), e, graph.edges)
  BY <1>4, <1>5, <1>6, PathIsRight
<1>8. AskedOf(graph)'
  <2>1. asked'[1] = ReadNumber(start) /\ asked'[2] = e /\ graph' = graph
    BY <1>1, <1>4
  <2> QED
    BY <1>5, <1>7, <2>1 DEF AskedOf
<1>9. IInv'
  BY <1>1, NextIInv DEF PathInv, vars
<1> QED
  BY <1>1, <1>6, <1>8, <1>9 DEF PathInv

LEMMA ReadOtherInv ==
    ASSUME PathInv, NEW line \in Lines, ReadOther(line)
    PROVE  PathInv'
<1>1. graph \in Graph /\ line \in Line /\ IsFiniteSet(graph.edges) /\ ReadLine(line)
  BY LinesAssumption DEF PathInv, IInv, TypeOK, ReadOther
<1>2. IInv'
  BY <1>1, NextIInv DEF PathInv, Next
<1>3. IsFiniteSet(graph'.edges)
  BY <1>1, ParseKeepsFinite DEF ReadLine
<1>4. CASE asked' = <<>>
  BY <1>2, <1>3, <1>4 DEF PathInv
<1>5. CASE asked' # <<>>
  <2>1. graph'.edges = graph.edges /\ path' = path /\ asked' = asked
    BY <1>5 DEF ReadOther, Reset
  <2> QED
    BY <1>2, <1>3, <2>1 DEF PathInv, AskedOf
<1> QED
  BY <1>4, <1>5

LEMMA PathNextInv == PathInv /\ [PathNext]_pathVars => PathInv'
<1> SUFFICES ASSUME PathInv, [PathNext]_pathVars PROVE PathInv'
  OBVIOUS
<1>1. graph \in Graph
  BY DEF PathInv, IInv, TypeOK
<1>2. CASE ClearEdgesOnly
  <2>1. asked' = <<>> /\ graph'.edges = {}
    BY <1>1, <1>2 DEF ClearEdgesOnly, ClearEdges, Graph
  <2>2. IInv'
    BY <1>2, NextIInv DEF PathInv, ClearEdgesOnly, Next
  <2> QED
    BY <2>1, <2>2, FS_EmptySet DEF PathInv
<1>3. CASE ResetAfterAnswer
  <2>1. asked' = <<>> /\ graph'.edges = {}
    BY <1>1, <1>3
       DEF ResetAfterAnswer, Reset, ResetAnswered, SetSize, ResetEverything, Graph
  <2>2. IInv'
    BY <1>3, NextIInv DEF PathInv, ResetAfterAnswer, Next
  <2> QED
    BY <2>1, <2>2, FS_EmptySet DEF PathInv
<1>4. CASE UNCHANGED pathVars
  <2>1. graph' = graph /\ path' = path /\ asked' = asked /\ UNCHANGED vars
    BY <1>4 DEF pathVars, vars
  <2>2. IInv'
    BY <2>1, NextIInv DEF PathInv
  <2> QED
    BY <2>1, <2>2 DEF PathInv, AskedOf
<1> QED
  BY <1>2, <1>3, <1>4, AskInv, ReadOtherInv DEF PathNext

(* The path kept in the graph leads over its edges from the start that was     *)
(* asked for to the end and none is shorter (MyGraph.cpp:124-187).             *)
THEOREM PathsAreShortest == PathSpec => []PathIsShortest
<1>1. PathInv => PathIsShortest
  <2> SUFFICES ASSUME PathInv, asked # <<>> PROVE PathIsShortest
    BY DEF PathIsShortest
  <2> DEFINE start == asked[1]
             end   == asked[2]
             E     == graph.edges
  <2>1. start \in Nat /\ end \in Nat /\ PathOrNone(path, start, end, E) /\ IsFiniteSet(E)
    BY DEF PathInv, AskedOf
  <2> HIDE DEF start, end, E
  <2>2. CASE path = <<>>
    <3>1. MaxTurns(E) \in Nat
      BY <2>1, MaxTurnsType
    <3>2. ~InEdges(start, E) \/ end \notin Within(start, MaxTurns(E), E)
      BY <2>1, <2>2, <3>1 DEF PathOrNone
    <3> QED
      BY <2>2, <3>2 DEF PathIsShortest, start, end, E
  <2>3. CASE path # <<>>
    <3>1. /\ IsWalk(path, start, end, E)
          /\ Len(path) > 1 => end \notin Within(start, Len(path) - 2, E)
      <4>1. CASE path = <<start>> /\ start = end
        BY <4>1 DEF IsWalk
      <4>2. CASE Found(path, start, end, E)
        BY <4>2 DEF Found
      <4> QED
        BY <2>1, <2>3, <4>1, <4>2 DEF PathOrNone
    <3> QED
      BY <2>3, <3>1 DEF PathIsShortest, start, end, E
  <2> QED
    BY <2>2, <2>3
<1> QED
  BY <1>1, PathInitInv, PathNextInv, PTL DEF PathSpec

NoPathExists ==
    asked # <<>> /\ path = <<>> =>
        \/ ~InEdges(asked[1], graph.edges)
        \/ \A k \in Nat : asked[2] \notin Within(asked[1], k, graph.edges)

(* "Error: no path exists" is said only of a start without edges or an end     *)
(* that no walk of any length reaches (MyGraph.cpp:166-170).                   *)
THEOREM NoPathIsTrue == PathSpec => []NoPathExists
<1>1. PathInv => NoPathExists
  BY DEF PathInv, AskedOf, PathOrNone, NoPathExists
<1> QED
  BY <1>1, PathInitInv, PathNextInv, PTL DEF PathSpec
===============================================================================
