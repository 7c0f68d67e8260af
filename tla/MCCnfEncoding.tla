----------------------------- MODULE MCCnfEncoding -----------------------------
(* Every graph on at most 3 vertices with loops and both directions of an edge *)
(* told apart, and every simple graph on 4.                                    *)
EXTENDS CnfEncoding

Nonempty(S)      == (SUBSET S) \ {{}}
Graphs(size, es) == [n : {size}, edges : es]

MCInputs ==
    UNION {Graphs(m, Nonempty((1 .. m) \X (1 .. m))) : m \in 1 .. 3}
    \union Graphs(4, Nonempty({p \in (1 .. 4) \X (1 .. 4) : p[1] < p[2]}))
===============================================================================
