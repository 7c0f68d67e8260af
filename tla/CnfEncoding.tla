------------------------------ MODULE CnfEncoding ------------------------------
(* MyGraph::CnfSatVc: for k = 1, 2, ... state as clauses that the graph has a  *)
(* vertex cover of k vertices, one per column of an n by k matrix of variables, *)
(* until MiniSat finds them satisfiable.  MiniSat is taken at its word here:   *)
(* solve() is true exactly when some assignment satisfies the clauses, and the *)
(* model it leaves is one of those.                                            *)
EXTENDS VertexCover

CONSTANT Inputs          \* the graphs; an edge with the vertex 0 is undefined
                         \* behaviour in the fourth condition and left out

ASSUME InputsAssumption ==
    /\ Inputs \subseteq ParsedGraph
    /\ \A g \in Inputs : \A p \in g.edges : p[1] \in 1 .. g.n /\ p[2] \in 1 .. g.n

VARIABLES n, edges,      \* the graph
          k,             \* the loop variable: the size that is tried
          model,         \* the matrix positions that are true in the model
          pc

vars == <<n, edges, k, model, pc>>

-------------------------------------------------------------------------------
(* The clauses.  A literal is <<sign, row, column>>.                           *)

Lit(i, j)    == <<TRUE, i, j>>
NegLit(i, j) == <<FALSE, i, j>>

\* Every column has a vertex.
FirstCondition == {{Lit(i, j) : i \in 1 .. n} : j \in 1 .. k}

\* No vertex is in two columns.
SecondCondition ==
    {{NegLit(c[1], c[2]), NegLit(c[1], c[3])} :
        c \in {d \in (1 .. n) \X (1 .. k) \X (1 .. k) : d[2] < d[3]}}

\* Mutants of ThirdCondition: not stated; stated for a vertex and itself too.
NoCondition == {}
SelfExcluded ==
    {{NegLit(c[1], c[3]), NegLit(c[2], c[3])} :
        c \in {d \in (1 .. n) \X (1 .. n) \X (1 .. k) : d[1] <= d[2]}}

\* No column has two vertices.
ThirdCondition ==
    {{NegLit(c[1], c[3]), NegLit(c[2], c[3])} :
        c \in {d \in (1 .. n) \X (1 .. n) \X (1 .. k) : d[1] < d[2]}}

\* Every edge has an end in some column.
FourthCondition ==
    {{Lit(p[1], j) : j \in 1 .. k} \union {Lit(p[2], j) : j \in 1 .. k} : p \in edges}

Clauses == FirstCondition \union SecondCondition \union ThirdCondition \union FourthCondition

\* An assignment is the set of matrix positions that are true.
Assignments == SUBSET ((1 .. n) \X (1 .. k))

Holds(lit, A) == lit[1] = (<<lit[2], lit[3]>> \in A)

Satisfies(A, clauses) == \A c \in clauses : \E lit \in c : Holds(lit, A)

Models == LET clauses == Clauses IN {A \in Assignments : Satisfies(A, clauses)}

\* vertex_cover: the row of every true position, in the order of the rows.
Rows(A) == {a[1] : a \in A}

-------------------------------------------------------------------------------
Init ==
    /\ \E g \in Inputs : n = g.n /\ edges = g.edges
    /\ k = 1 /\ model = {} /\ pc = "loop"

Solved ==
    /\ pc = "loop" /\ model' \in Models
    /\ pc' = "done"
    /\ UNCHANGED <<n, edges, k>>

\* A new solver for the next k; after the last one vertex_cover stays empty.
TryNext(size) ==
    /\ k' = size
    /\ pc' = IF size > n THEN "none" ELSE "loop"
    /\ UNCHANGED <<n, edges, model>>

\* Mutant of Unsatisfied: a size is skipped.
UnsatisfiedSkips == pc = "loop" /\ Models = {} /\ TryNext(k + 2)

Unsatisfied == pc = "loop" /\ Models = {} /\ TryNext(k + 1)

Next == Solved \/ Unsatisfied

Spec == Init /\ [][Next]_vars

-------------------------------------------------------------------------------
\* A graph, a size and a model over its matrix; the loop never runs out of sizes,
\* n vertices always cover the graph.
TypeOK ==
    /\ n \in Nat \ {0} /\ edges \subseteq (1 .. n) \X (1 .. n)
    /\ k \in 1 .. n
    /\ model \in Assignments /\ (pc # "done" => model = {})
    /\ pc \in {"loop", "done"}

\* What is returned is a minimum vertex cover (MyGraph.cpp:268-309).
MinimumOnReturn == pc = "done" => IsMinimumCover(Rows(model), n, edges)

\* Every vertex of the cover is printed once, and k of them: the model is a
\* matching of the k columns with k rows.
PrintedOnce ==
    pc = "done" =>
        /\ \A a, b \in model : a[1] = b[1] => a = b
        /\ Cardinality(Rows(model)) = k
===============================================================================
