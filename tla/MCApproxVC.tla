------------------------------ MODULE MCApproxVC ------------------------------
(* Every set of edges over 0 .. 3 that goes upward, loops included; every      *)
(* simple graph on 4 vertices; and four graphs on 5 vertices, one of them with *)
(* an edge in both directions, where ByteRange is below the number of vertices *)
(* to choose from.                                                             *)
EXTENDS ApproxVC

Upward(low, high) == {p \in (low .. high) \X (low .. high) : p[1] <= p[2]}
Simple(high)      == {p \in (1 .. high) \X (1 .. high) : p[1] < p[2]}
Nonempty(S)       == (SUBSET S) \ {{}}
Graphs(size, es)  == [n : {size}, edges : es]

Star  == {<<i, 5>> : i \in 1 .. 4}
Path  == {<<i, i + 1>> : i \in 1 .. 4}
Ring  == Path \union {<<5, 1>>}
Twice == {<<1, 2>>, <<2, 1>>, <<2, 3>>, <<3, 3>>}

MCInputs ==
    UNION {Graphs(m, Nonempty(Upward(0, m))) : m \in 1 .. 3}
    \union Graphs(4, Nonempty(Simple(4)))
    \union Graphs(5, {Star, Path, Ring, Twice})
===============================================================================
