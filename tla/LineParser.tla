------------------------------ MODULE LineParser ------------------------------
(* The input language of the program: helpers.cpp (namespace line_parser) and  *)
(* the setters of MyGraph it calls.  A line is a record: the regular           *)
(* expression it matches and the numbers the capture groups deliver.  The      *)
(* operators take the graph a line is read against and return what the code    *)
(* leaves in it, so ParserApi and Pipeline share them.                         *)
EXTENDS Naturals, Sequences, Functions

CONSTANT IntMax          \* largest value of a C++ int

ASSUME IntMaxAssumption == IntMax \in Nat

\* "badE" matches E_only_pattern but not the edge pattern; "other" matches none.
Kinds == {"V", "E", "s", "badE", "other"}
Pair  == Nat \X Nat
Line  == [kind : Kinds, num : Nat, pairs : Seq(Pair)]
Blank == [kind |-> "other", num |-> 0, pairs |-> <<>>]

\* The fields of MyGraph the parser and the launcher look at.
Graph      == [n : Nat, tried : BOOLEAN, edges : SUBSET Pair]
EmptyGraph == [n |-> 0, tried |-> FALSE, edges |-> {}]

-------------------------------------------------------------------------------
(* MyGraph setters.                                                            *)

ResetEverything(g) == [g EXCEPT !.edges = {}, !.tried = FALSE]

SetSize(g, n) == [g EXCEPT !.n = n]

SetNoVertices(g, n) == ResetEverything(SetSize(g, n))

SetEdges(g, edges) == [ResetEverything(g) EXCEPT !.edges = edges]

-------------------------------------------------------------------------------
(* get_command: the command, and its one effect on the graph.                  *)

\* Mutants of MayDefineEdges: one of its two conditions lost.
HasNoEdges(g)  == g.edges = {}
NotRejected(g) == ~g.tried

MayDefineEdges(g) == g.edges = {} /\ ~g.tried

GetCommand(line, g) ==
    CASE line.kind = "V"    -> "V"
      [] line.kind = "E"    -> IF g.n = 0 THEN "Error"
                               ELSE IF MayDefineEdges(g) THEN "E" ELSE "No Command"
      [] line.kind = "s"    -> IF g.edges = {} THEN "Error" ELSE "s"
      [] line.kind = "badE" -> IF g.edges # {} THEN "No command" ELSE ""
      [] OTHER              -> ""

RejectsEdges(line, g) == line.kind = "badE" /\ g.edges = {}

AfterGetCommand(line, g) ==
    IF RejectsEdges(line, g) THEN [g EXCEPT !.tried = TRUE] ELSE g

-------------------------------------------------------------------------------
(* analyze_command.                                                            *)

\* Mutant of ReadNumber: no saturation.
AnyNumber(num) == num

\* "input >> number" saturates at INT_MAX when the digits do not fit.
ReadNumber(num) == IF num > IntMax THEN IntMax ELSE num

\* The only test an edge must pass (0 passes it).
ValidPair(p, g) == p[1] <= g.n /\ p[2] <= g.n

\* Mutant of AllValid: only the first vertex of a pair is tested.
FirstsValid(line, g) == \A i \in DOMAIN line.pairs : line.pairs[i][1] <= g.n

AllValid(line, g) == \A i \in DOMAIN line.pairs : ValidPair(line.pairs[i], g)

\* std::stoi throws on the first pair that is not valid, if the number it is
\* given does not fit; the second number is converted only if the first is valid.
Overflows(p, g) == p[1] > IntMax \/ (p[1] <= g.n /\ p[2] > IntMax)

Throws(line, g) ==
    /\ GetCommand(line, g) = "E"
    /\ \E i \in DOMAIN line.pairs :
         /\ Overflows(line.pairs[i], g)
         /\ \A j \in 1 .. i - 1 : ValidPair(line.pairs[j], g)

\* The graph after get_command and analyze_command have both returned.
Parse(line, g) ==
    LET command == GetCommand(line, g)
    IN  CASE command = "V" -> SetNoVertices(g, ReadNumber(line.num))
          [] command = "E" -> IF AllValid(line, g)
                              THEN SetEdges(g, Range(line.pairs)) ELSE g
          [] OTHER         -> AfterGetCommand(line, g)
===============================================================================
