----------------------------- MODULE ShortestPath -----------------------------
(* The shortest path command of the parser: MyGraph::findShortestPath and      *)
(* BFStree, on top of the lines and resets of ParserApi.  shortest_path stays  *)
(* in the graph until the next search or reset.                                *)
EXTENDS ParserApi, SequencesExt

VARIABLES path,            \* MyGraph::shortest_path
          asked            \* start and end of the last search, <<>> after a reset

pathVars == <<graph, crashed, path, asked>>

\* The pattern of an s line captures two numbers.
ASSUME AskedAssumption == \A line \in Lines : line.kind = "s" => line.pairs # <<>>

-------------------------------------------------------------------------------
(* A tree is a vertex with the ancestors it was reached through; its children  *)
(* are the neighbours of the vertex, in ascending order.                       *)

InEdges(v, edges) == \E p \in edges : v \in {p[1], p[2]}

Neighbours(v, edges) == {p[2] : p \in {q \in edges : q[1] = v}}
                        \union {p[1] : p \in {q \in edges : q[2] = v}}

\* The members of a set of numbers in ascending order.
Ascending(S) ==
    CHOOSE s \in [1 .. Cardinality(S) -> S] :
        \A i, j \in 1 .. Cardinality(S) : i < j => s[i] < s[j]

Tree(v, ancestors) == [root |-> v, ancestors |-> ancestors]
PathTo(t)          == Append(t.ancestors, t.root)

\* checkTree() of one tree after the other, up to the first that has the end among
\* its children; the others' vertices become visited.
Hits(s, end, edges) == {i \in DOMAIN s.trees : end \in Neighbours(s.trees[i].root, edges)}

\* Mutant of CheckTrees: the root of the tree is left out.
WithoutRoot(s, hits, end) ==
    IF hits = {} THEN [s EXCEPT !.visited = @ \union {s.trees[i].root : i \in DOMAIN s.trees}]
    ELSE [s EXCEPT !.path = Append(s.trees[Min(hits)].ancestors, end)]

CheckTrees(s, hits, end) ==
    IF hits = {} THEN [s EXCEPT !.visited = @ \union {s.trees[i].root : i \in DOMAIN s.trees}]
    ELSE LET i == Min(hits)
         IN  [s EXCEPT !.visited = @ \union {s.trees[j].root : j \in 1 .. i - 1},
                       !.path = Append(PathTo(s.trees[i]), end)]

\* getUnvisitedTrees(): a tree for every child that is not visited.
NextTrees(t, visited, edges) ==
    LET new == Ascending(Neighbours(t.root, edges) \ visited)
    IN  [c \in DOMAIN new |-> Tree(new[c], PathTo(t))]

GetUnvisitedTrees(s, edges) ==
    [s EXCEPT !.trees = FlattenSeq([i \in DOMAIN s.trees |->
                                      NextTrees(s.trees[i], s.visited, edges)])]

\* One turn of the loop, none once a path is found or no tree is left.
Turn(s, end, edges) ==
    IF s.path # <<>> \/ s.trees = <<>> THEN s
    ELSE GetUnvisitedTrees(CheckTrees(s, Hits(s, end, edges), end), edges)

AfterTurns(k, start, end, edges) ==
    LET round[i \in Nat] ==
          IF i = 0 THEN [trees |-> <<Tree(start, <<>>)>>, visited |-> {}, path |-> <<>>]
          ELSE Turn(round[i - 1], end, edges)
    IN  round[k]

\* The loop has ended by then: each turn but the last reaches another vertex.
MaxTurns(edges) == 2 * Cardinality(edges) + 1

Search(start, end, edges) == AfterTurns(MaxTurns(edges), start, end, edges).path

FindShortestPath(start, end, edges) ==
    IF start = end /\ InEdges(start, edges) THEN <<start>> ELSE Search(start, end, edges)

-------------------------------------------------------------------------------
(* The actions of ParserApi, with what they do to shortest_path.               *)

\* "input >> start >> end": a number that does not fit saturates and stops the
\* reading, and end then keeps the indeterminate value it was declared with (any one
\* outside the range is like a vertex without edges).
EndsRead(start, end) == IF start > IntMax THEN 0 .. IntMax ELSE {ReadNumber(end)}

Ask(line) ==
    /\ ~crashed /\ GetCommand(line, graph) = "s"
    /\ LET start == line.pairs[1][1]
           end   == line.pairs[1][2]
       IN  \E e \in EndsRead(start, end) :
             /\ path' = FindShortestPath(ReadNumber(start), e, graph.edges)
             /\ asked' = <<ReadNumber(start), e>>
    /\ UNCHANGED <<graph, crashed>>

\* A V line, and an E line that is accepted, reset the graph and its path.
Reset == path' = <<>> /\ asked' = <<>>

ReadOther(line) ==
    /\ GetCommand(line, graph) # "s"
    /\ ReadLine(line)
    /\ IF GetCommand(line, graph) = "V" \/ graph'.edges # graph.edges THEN Reset
       ELSE UNCHANGED <<path, asked>>

\* main.cpp clears the edges alone: the path found in them stays.
ClearEdgesOnly == ClearEdges /\ UNCHANGED path /\ asked' = <<>>

ResetAfterAnswer == ResetAnswered /\ Reset

PathInit == Init /\ path = <<>> /\ asked = <<>>

PathNext ==
    \/ \E line \in Lines : Ask(line) \/ ReadOther(line)
    \/ ClearEdgesOnly
    \/ ResetAfterAnswer

PathSpec == PathInit /\ [][PathNext]_pathVars

-------------------------------------------------------------------------------
(* Property.                                                                   *)

\* The vertices at most k edges away from v.
Within(v, k, edges) ==
    LET ball[i \in Nat] ==
          IF i = 0 THEN {v}
          ELSE LET b == ball[i - 1]
               IN  b \union UNION {Neighbours(x, edges) : x \in b}
    IN  ball[k]

IsWalk(p, start, end, edges) ==
    /\ p[1] = start /\ p[Len(p)] = end
    /\ \A i \in 1 .. Len(p) - 1 : p[i + 1] \in Neighbours(p[i], edges)

\* The path kept from the last search leads over edges from its start to its end and
\* none is shorter; it is empty ("no path exists", MyGraph.cpp:167) only when the
\* end cannot be reached or the vertex is in no edge.
PathIsShortest ==
    asked # <<>> =>
        LET start == asked[1]
            end   == asked[2]
        IN  IF path = <<>>
            THEN ~InEdges(start, graph.edges)
                 \/ end \notin Within(start, MaxTurns(graph.edges), graph.edges)
            ELSE /\ IsWalk(path, start, end, graph.edges)
                 /\ Len(path) > 1 => end \notin Within(start, Len(path) - 2, graph.edges)
===============================================================================
