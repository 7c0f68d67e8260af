------------------------------ MODULE MCPipeline ------------------------------
(* Instances of Pipeline.  TwoGraphs is the input the safety runs turn on: the *)
(* second E line needs no V, the vertices of the first graph are still there.  *)
EXTENDS Pipeline

V(n)      == [Blank EXCEPT !.kind = "V", !.num = n]
E(ps)     == [Blank EXCEPT !.kind = "E", !.pairs = ps]
Malformed == [Blank EXCEPT !.kind = "badE"]

Terminated(script) == script \o <<Blank>>

OneGraph   == <<V(2), E(<<<<1, 2>>>>)>>
TwoGraphs  == Terminated(OneGraph \o <<E(<<<<2, 1>>>>)>>)
VertexZero == Terminated(<<V(2), E(<<<<0, 1>>>>)>>)
ZeroZero   == Terminated(<<V(2), E(<<<<0, 0>>>>)>>)
TooLarge   == <<V(IntMax + 1), E(<<<<1, IntMax + 1>>>>)>>
AboveSize  == Terminated(<<V(2), E(<<<<1, 3>>>>)>>)
NoGraph    == <<V(2), Malformed, E(<<<<1, 2>>>>)>>

LivenessScripts    == {OneGraph, Terminated(OneGraph), VertexZero, ZeroZero, TooLarge,
                       AboveSize, NoGraph}
SafetyScripts      == (LivenessScripts \ {Terminated(OneGraph)}) \union {TwoGraphs}
TwoGraphScript     == {TwoGraphs}
UnterminatedScript == {OneGraph}
===============================================================================
