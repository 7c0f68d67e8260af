------------------------------- MODULE ApproxVC -------------------------------
(* MyGraph::approxCv1 and approxCv2: pick vertices and drop the edges they     *)
(* touch until no edge is left.  approxCv1 picks the vertex with the most      *)
(* neighbours, approxCv2 any vertex that still has one, chosen by a byte of    *)
(* /dev/urandom.                                                               *)
EXTENDS VertexCover, Sequences, Functions

CONSTANTS Inputs,        \* the graphs, as the parser lets them through
          ByteRange,     \* how many values a random byte has (256)
          MaxPicks       \* bound on the picks that remove nothing

ASSUME InputsAssumption    == Inputs \subseteq ParsedGraph
ASSUME ByteRangeAssumption == ByteRange \in Nat \ {0}
ASSUME MaxPicksAssumption  == MaxPicks \in Nat

VARIABLES
  solver,                \* which of the two functions runs
  n, given,              \* the graph it was called on
  edges,                 \* the edges left
  picked,                \* the local vertex_cover
  cover,                 \* this->vertex_cover, sorted, as a set
  pc

vars == <<solver, n, given, edges, picked, cover, pc>>

-------------------------------------------------------------------------------
\* getConnections: the distinct neighbours (a loop makes a vertex its own).
Connections(v, es) == {p[2] : p \in {q \in es : q[1] = v}}
                      \union {p[1] : p \in {q \in es : q[2] = v}}

Degree(v) == Cardinality(Connections(v, edges))

\* Mutants of ClearConnections: only the edges that start at the vertex go; the
\* edges at its neighbours go too.
ClearOutgoing(v, es) == {p \in es : p[1] # v}
ClearAround(v, es) ==
    {p \in es : {p[1], p[2]} \intersect (Connections(v, es) \union {v}) = {}}

ClearConnections(v, es) == {p \in es : p[1] # v /\ p[2] # v}

\* std::max_element returns the first of the largest, the lowest vertex.
IsHighest(v) ==
    \A u \in 1 .. n : Degree(u) < Degree(v) \/ (Degree(u) = Degree(v) /\ v <= u)

\* Mutants of HighestDegree: the index in the array instead of the vertex; the
\* fewest neighbours instead of the most.
HighestIndex == CHOOSE i \in 0 .. n - 1 : IsHighest(i + 1)
LowestDegree ==
    CHOOSE v \in 1 .. n :
        \A u \in 1 .. n : Degree(u) = 0 \/ (Degree(v) > 0 /\ Degree(v) <= Degree(u))

HighestDegree == CHOOSE v \in 1 .. n : IsHighest(v)

\* Mutant of Connected: the vertices of degree 0 are not removed.
AllVertices == 1 .. n

Connected == {v \in 1 .. n : Connections(v, edges) # {}}

\* rand_num as helpers.cpp defines it: the maximum comes first.
RandNum(maximum, minimum, byte) == (byte % (maximum - minimum + 1)) + minimum

\* num_connections[rand_vertex].first: the list is in increasing order.
Candidate(v, index) == Cardinality({u \in Connected : u < v}) = index

\* The list has no limit in the code; it is cut only while picks remove nothing.
Full(v) == Len(picked) >= MaxPicks /\ ClearConnections(v, edges) = edges

Pick(v) ==
    /\ picked' = IF Full(v) THEN picked ELSE Append(picked, v)
    /\ edges' = ClearConnections(v, edges)
    /\ UNCHANGED <<solver, n, given, cover, pc>>

Init ==
    /\ solver \in {"approxCv1", "approxCv2"}
    /\ \E g \in Inputs : n = g.n /\ given = g.edges
    /\ edges = given /\ picked = <<>> /\ cover = {} /\ pc = "loop"

\* With no edge at a vertex of 1 .. n (only <0,0> left) the first vertex is
\* picked again and again.
PickHighest ==
    /\ pc = "loop" /\ solver = "approxCv1" /\ edges # {}
    /\ Pick(HighestDegree)

\* With no candidate the loop goes round without doing anything.
PickRandom ==
    /\ pc = "loop" /\ solver = "approxCv2" /\ edges # {}
    /\ Connected # {}
    /\ \E byte \in 0 .. ByteRange - 1 : \E v \in Connected :
         /\ Candidate(v, RandNum(Cardinality(Connected) - 1, 0, byte))
         /\ Pick(v)

Return ==
    /\ pc = "loop" /\ edges = {}
    /\ cover' = Range(picked) /\ pc' = "done"
    /\ UNCHANGED <<solver, n, given, edges, picked>>

Next == PickHighest \/ PickRandom \/ Return

Spec == Init /\ [][Next]_vars

\* The loop is sequential code: it goes on as long as there is a next step.
FairSpec == Spec /\ WF_vars(Next)

-------------------------------------------------------------------------------
\* The local variables have the types of the code, edges only ever disappear.
TypeOK ==
    /\ solver \in {"approxCv1", "approxCv2"} /\ pc \in {"loop", "done"}
    /\ n \in Nat \ {0} /\ given \subseteq Nat \X Nat
    /\ edges \subseteq given
    /\ picked \in Seq(1 .. n) /\ cover \subseteq 1 .. n

\* No edge is lost: each is still there or touched by a picked vertex, so what
\* is returned covers the graph (MyGraph.cpp:352-369, 395-418).
CoverOnReturn ==
    /\ \A p \in given \ edges : Covers(Range(picked), {p})
    /\ pc = "done" => Covers(cover, given)

\* Without <0,0> no pick is wasted: no vertex is picked twice, every pick removed
\* an edge, and without loops one vertex at least stays out of the cover.
PicksProgress ==
    <<0, 0>> \notin given =>
        /\ \A i, j \in DOMAIN picked : picked[i] = picked[j] => i = j
        /\ Len(picked) <= Cardinality(given \ edges)
        /\ (\A p \in given : p[1] # p[2]) /\ (\A p \in given : 0 \notin {p[1], p[2]})
              => Len(picked) < n

\* approxCv1 is the greedy algorithm: with at most 4 neighbours per vertex its
\* cover is at most H(4) = 25/12 times as large as a minimum one.
GreedyBound ==
    /\ pc = "done" /\ solver = "approxCv1"
    /\ \A v \in 1 .. n : Cardinality(Connections(v, given)) <= 4
    => \A S \in CoversOf(n, given) : 12 * Cardinality(cover) <= 25 * Cardinality(S)

\* The edge <0,0>, which the parser accepts, is at no vertex the functions pick.
SpinsOnZeroZero == <<0, 0>> \in given => pc = "loop"

\* README.md:7 says that the process is repeated "until no edges remain": both
\* functions return on every graph without the edge <0,0>, and on no other.
ReturnsUnlessZeroZero == ((<<0, 0>> \notin given) ~> (pc = "done")) /\ []SpinsOnZeroZero
===============================================================================
