------------------------------- MODULE ParserApi -------------------------------
(* The clients of one MyGraph object: lines go through get_command and         *)
(* analyze_command (main.cpp and test.cpp), main clears the edges it has       *)
(* handed to the workers, and a worker (or a test) resets a graph it has       *)
(* answered.  An uncaught std::out_of_range ends the program.                  *)
EXTENDS LineParser

CONSTANT Lines           \* the lines a user may type

ASSUME LinesAssumption == Lines \subseteq Line

VARIABLES graph, crashed

vars == <<graph, crashed>>

Init == graph = EmptyGraph /\ crashed = FALSE

ReadLine(line) ==
    /\ ~crashed
    /\ crashed' = Throws(line, graph)
    /\ graph' = IF Throws(line, graph) THEN graph ELSE Parse(line, graph)

\* main.cpp: graph.edges.clear() once the copies are taken.
ClearEdges ==
    /\ ~crashed /\ graph.edges # {}
    /\ graph' = [graph EXCEPT !.edges = {}]
    /\ UNCHANGED crashed

\* resetEverything(); setSize(0) after an answer is printed.
ResetAnswered ==
    /\ ~crashed /\ graph.edges # {}
    /\ graph' = SetSize(ResetEverything(graph), 0)
    /\ UNCHANGED crashed

Next == (\E line \in Lines : ReadLine(line)) \/ ClearEdges \/ ResetAnswered

Spec == Init /\ [][Next]_vars

-------------------------------------------------------------------------------
\* The state has the types of the C++ fields.
TypeOK == graph \in Graph /\ graph.n <= IntMax /\ crashed \in BOOLEAN

\* Whatever lines were read, no stored edge names a vertex above the size of the
\* graph (the bound that keeps literals[i-1] of the encoding below its end), and
\* edges exist only in a graph that has vertices.
EdgesInRange ==
    graph.edges # {} => /\ graph.n > 0
                        /\ \A p \in graph.edges : p[1] <= graph.n /\ p[2] <= graph.n

\* Once a malformed edge line was rejected (helpers.cpp:72) no line defines edges:
\* the graph stays as it is until a V line starts a new one.
RejectedUntilV ==
    [][graph.tried => \/ graph' = graph
                      \/ \E n \in 0 .. IntMax : graph' = SetNoVertices(graph, n)]_vars

\* A defined edge set is never replaced or extended in place: a second E line is
\* ignored until V, a launch or a reset has emptied the graph.
EdgesNotReplaced ==
    [][graph.edges # {} /\ graph'.edges # {} => graph' = graph]_vars
===============================================================================
