------------------------------ MODULE VertexCover ------------------------------
(* What the three solvers are asked: a vertex cover of a graph whose edges are *)
(* pairs of numbers, over the vertices 1 .. n.                                 *)
EXTENDS Naturals, FiniteSets

Covers(S, edges) == \A p \in edges : p[1] \in S \/ p[2] \in S

CoversOf(n, edges) == {S \in SUBSET (1 .. n) : Covers(S, edges)}

IsMinimumCover(S, n, edges) ==
    /\ S \in CoversOf(n, edges)
    /\ \A T \in CoversOf(n, edges) : Cardinality(S) <= Cardinality(T)

\* What the parser lets through: at least one edge, no vertex above n (0 is let
\* through too).
ParsedGraph ==
    {g \in [n : Nat \ {0}, edges : SUBSET (Nat \X Nat)] :
        g.edges # {} /\ \A p \in g.edges : p[1] <= g.n /\ p[2] <= g.n}
===============================================================================
