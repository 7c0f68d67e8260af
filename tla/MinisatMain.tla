----------------------------- MODULE MinisatMain -----------------------------
(* The executables minisat_core and minisat (core/Main.cc, simp/Main.cc): the  *)
(* command line (utils/Options), the DIMACS file (core/Dimacs.h), the calls on *)
(* the solver, the signal handlers and limits, the exit status and the result  *)
(* file.  A program is a client whose script is made from its input.           *)
EXTENDS Minisat

\* The largest int.
CONSTANT IntMax

VARIABLES exit,      \* the exit status, NoExit while the process runs
          result     \* the contents of the result file

mainVars == <<vars, exit, result>>

NoExit   == -1
NoFile   == [status |-> "no file", lits |-> {}]
Contents(status, lits) == [status |-> status, lits |-> lits]

-------------------------------------------------------------------------------
(* The command line.  An argument is "--help", a flag, a value for an option,  *)
(* or a word; num is what strtol or strtod makes of a value's text.            *)

\* A long stored in an int.
Truncate(n) == ((n + IntMax + 1) % (2 * (IntMax + 1))) - IntMax - 1

Infinity == <<1, 0>>
LessThan(p, q) == p[1] * q[2] < q[1] * p[2]

Flag(def)             == [type |-> "bool", default |-> def]
Text                  == [type |-> "string", default |-> ""]
IntOption(def, lo, hi) == [type |-> "int", default |-> def, lo |-> lo, hi |-> hi]
\* Both bounds of a range of doubles are in it, or none.
DoubleOption(def, lo, hi, closed) ==
    [type |-> "double", default |-> def, lo |-> lo, hi |-> hi, closed |-> closed]

CoreOptions ==
    "var-decay"    :> DoubleOption(<<95, 100>>, <<0, 1>>, <<1, 1>>, FALSE) @@
    "cla-decay"    :> DoubleOption(<<999, 1000>>, <<0, 1>>, <<1, 1>>, FALSE) @@
    "rnd-freq"     :> DoubleOption(<<0, 1>>, <<0, 1>>, <<1, 1>>, TRUE) @@
    "rnd-seed"     :> DoubleOption(<<91648253, 1>>, <<0, 1>>, Infinity, FALSE) @@
    "ccmin-mode"   :> IntOption(2, 0, 2) @@
    "phase-saving" :> IntOption(2, 0, 2) @@
    "rnd-init"     :> Flag(FALSE) @@
    "luby"         :> Flag(TRUE) @@
    "rfirst"       :> IntOption(100, 1, IntMax) @@
    "rinc"         :> DoubleOption(<<2, 1>>, <<1, 1>>, Infinity, FALSE) @@
    "gc-frac"      :> DoubleOption(<<1, 5>>, <<0, 1>>, Infinity, FALSE) @@
    "min-learnts"  :> IntOption(0, 0, IntMax)

SimpOptions ==
    "asymm"        :> Flag(FALSE) @@
    "rcheck"       :> Flag(FALSE) @@
    "elim"         :> Flag(TRUE) @@
    "grow"         :> IntOption(0, -IntMax - 1, IntMax) @@
    "cl-lim"       :> IntOption(20, -1, IntMax) @@
    "sub-lim"      :> IntOption(1000, -1, IntMax) @@
    "simp-gc-frac" :> DoubleOption(<<1, 2>>, <<0, 1>>, Infinity, FALSE)

MainOptions ==
    "verb"    :> IntOption(1, 0, 2) @@
    "cpu-lim" :> IntOption(0, 0, IntMax) @@
    "mem-lim" :> IntOption(0, 0, IntMax) @@
    "strict"  :> Flag(FALSE)

SimpMainOptions ==
    "pre"    :> Flag(TRUE) @@
    "solve"  :> Flag(TRUE) @@
    "dimacs" :> Text

\* Every option registers itself, in the executable it is linked into.
OptionTable(simp) ==
    CoreOptions @@ MainOptions @@ IF simp THEN SimpOptions @@ SimpMainOptions ELSE <<>>

Matches(option, arg) == (option.type = "bool") = (arg.kind = "flag")

Read(option, arg) ==
    CASE option.type = "bool"   -> ~arg.no
      [] option.type = "string" -> arg.text
      [] option.type = "int"    -> Truncate(arg.num[1] \div arg.num[2])
      [] OTHER -> arg.num

InRange(option, x) ==
    CASE option.type = "int" -> option.lo <= x /\ x <= option.hi
      [] option.type = "double" ->
           IF option.closed THEN ~LessThan(x, option.lo) /\ ~LessThan(option.hi, x)
           ELSE LessThan(option.lo, x) /\ LessThan(x, option.hi)
      [] OTHER -> TRUE

\* One argument, strictly: an unknown flag or a value out of range ends the
\* program, and so does a request for help.
ParseArg(acc, arg, table) ==
    CASE acc.exit # NoExit -> acc
      [] arg.kind = "word" -> [acc EXCEPT !.words = @ + 1]
      [] arg.kind = "help" -> [acc EXCEPT !.exit = 0]
      [] arg.name \in DOMAIN table /\ Matches(table[arg.name], arg) ->
           IF InRange(table[arg.name], Read(table[arg.name], arg))
           THEN [acc EXCEPT !.values[arg.name] = Read(table[arg.name], arg)]
           ELSE [acc EXCEPT !.exit = 1]
      [] OTHER -> [acc EXCEPT !.exit = 1]

\* What is left of the command line: the values of the options, the number of words.
ParseOptions(table, args) ==
    LET parsed[i \in 0 .. Len(args)] ==
          IF i = 0 THEN [values |-> [name \in DOMAIN table |-> table[name].default],
                         words |-> 0, exit |-> NoExit]
          ELSE ParseArg(parsed[i - 1], args[i], table)
    IN  parsed[Len(args)]

\* The parameters of the solver that the options give, and those they do not.
CoreParameters(o) ==
    [ccmin |-> o["ccmin-mode"], phaseSaving |-> o["phase-saving"], luby |-> o["luby"],
     restartFirst |-> o["rfirst"], restartInc |-> o["rinc"], garbageFrac |-> o["gc-frac"],
     minLearnts |-> o["min-learnts"], rndPol |-> FALSE, learntsizeFactor |-> <<1, 3>>,
     learntsizeInc |-> <<11, 10>>, adjustStart |-> 100, adjustInc |-> <<3, 2>>]

SimpParameters(o) ==
    [asymm |-> o["asymm"], rcheck |-> o["rcheck"], elim |-> o["elim"], grow |-> o["grow"],
     clauseLim |-> o["cl-lim"], subsumptionLim |-> o["sub-lim"],
     simpGarbageFrac |-> o["simp-gc-frac"], extendModel |-> TRUE]

Parameters(o, simp) == CoreParameters(o) @@ IF simp THEN SimpParameters(o) ELSE <<>>

-------------------------------------------------------------------------------
(* The DIMACS file.  A token is a number, "p" (for "p cnf"), "bad p", "c" (a   *)
(* comment, to the end of its line) or "junk".                                 *)

NewVarCall    == [op |-> "newVar", upol |-> LUndef, dvar |-> TRUE]
AddCall(lits) == [op |-> "addClause", lits |-> lits]
Literal(n)    == IF n > 0 THEN MkLit(n - 1, FALSE) ELSE MkLit(-n - 1, TRUE)
AbsInt(n)     == IF n < 0 THEN -n ELSE n

\* The reader: the calls made, the number of variables, the literals of the clause
\* it is in, the numbers of a header still to come, the status of a parse error.
NewReader == [calls |-> <<>>, vars |-> 0, lits |-> <<>>, inClause |-> FALSE, header |-> 0,
              exit |-> NoExit]

ParseError(r) == [r EXCEPT !.exit = 3]

ReadLiteral(r, n) ==
    LET new == IF AbsInt(n) > r.vars THEN AbsInt(n) - r.vars ELSE 0
    IN  [r EXCEPT !.calls = @ \o [i \in 1 .. new |-> NewVarCall], !.vars = @ + new,
                  !.lits = Append(@, Literal(n)), !.inClause = TRUE]

EndClause(r) ==
    [r EXCEPT !.calls = Append(@, AddCall(r.lits)), !.lits = <<>>, !.inClause = FALSE]

\* The numbers of variables and clauses that a header states are not used.
ReadToken(r, token) ==
    CASE r.exit # NoExit -> r
      [] r.header > 0 ->
           IF token.kind = "number" THEN [r EXCEPT !.header = @ - 1] ELSE ParseError(r)
      [] token.kind = "number" -> IF token.num = 0 THEN EndClause(r) ELSE ReadLiteral(r, token.num)
      [] token.kind = "p" /\ ~r.inClause -> [r EXCEPT !.header = 2]
      [] token.kind = "c" /\ ~r.inClause -> r
      [] OTHER -> ParseError(r)

EndOfFile(r) ==
    IF r.exit = NoExit /\ (r.header > 0 \/ r.inClause) THEN ParseError(r) ELSE r

ReadFile(tokens) ==
    LET read[i \in 0 .. Len(tokens)] ==
          IF i = 0 THEN NewReader ELSE ReadToken(read[i - 1], tokens[i])
    IN  EndOfFile(read[Len(tokens)])

-------------------------------------------------------------------------------
(* The calls of main().                                                        *)

EliminateCall == [op |-> "eliminate", turnOff |-> TRUE]
SimplifyCall  == [op |-> "simplify", lits |-> <<>>]
SolveCall     == [op |-> "solve", lits |-> <<>>, simp |-> TRUE, turnOff |-> FALSE, limited |-> TRUE]
ToDimacsCall  == [op |-> "toDimacs", lits |-> <<>>]

Opening(o, simp) == IF simp /\ ~o["pre"] THEN <<EliminateCall>> ELSE <<>>

Solving(o, simp) ==
    IF simp THEN <<EliminateCall>> \o (IF o["solve"] THEN <<SolveCall>> ELSE <<>>)
                 \o (IF o["dimacs"] # "" THEN <<ToDimacsCall>> ELSE <<>>)
    ELSE <<SimplifyCall, SolveCall>>

\* A run of an executable: its arguments, the tokens of its input or Unreadable,
\* and whether signals may come.  Where the calls before the solver's handler is
\* installed end, and where those end that are made from the file.
Unreadable == <<[kind |-> "unreadable"]>>

Program(run, cl, o, file) ==
    LET opening == IF cl.exit = NoExit THEN Opening(o, run.simp) ELSE <<>>
        code == IF cl.exit # NoExit THEN cl.exit ELSE IF run.tokens = Unreadable THEN 1 ELSE file.exit
    IN  [simp |-> run.simp, opt |-> Parameters(o, run.simp), interrupts |-> run.signals,
         script |-> opening \o CASE code \notin {NoExit, 3} -> <<>>
                                 [] code = 3 -> file.calls
                                 [] OTHER -> file.calls \o Solving(o, run.simp),
         main |-> [run |-> run, code |-> code, opening |-> Len(opening), words |-> cl.words,
                   parsed |-> IF code \in {NoExit, 3} THEN Len(opening) + Len(file.calls)
                              ELSE Len(opening),
                   asked |-> cl.exit # NoExit \/ (run.simp /\ ~o["solve"]),
                   limited |-> o["mem-lim"] # 0]]

Main(run) ==
    LET cl == ParseOptions(OptionTable(run.simp), run.args)
    IN  Program(run, cl, cl.values, ReadFile(run.tokens))

IsProgram == "main" \in DOMAIN client
Running   == exit = NoExit

\* Everything of the file was read: the result file is open and the handlers only
\* notify the solver.
FileRead == client.main.code = NoExit /\ made >= client.main.parsed

ResultFile(contents) ==
    IF FileRead /\ client.main.words >= 2 THEN contents ELSE NoFile

\* Mutant of Verdict: whatever is not a model counts as a refutation.
NotTrue == IF answer.op = "solve" /\ answer.status = LTrue THEN LTrue ELSE LFalse

\* ret of main(): undefined unless solve was called and answered.
Verdict == IF answer.op = "solve" THEN answer.status ELSE LUndef

\* The simplification before the search refuted the problem.
SolvedBySimplification ==
    FileRead /\ made = client.main.parsed + 1 /\ answer.status = LFalse

\* toDimacs() is only called without a verdict.
NothingToWrite == made < Len(client.script) /\ Call.op = "toDimacs" /\ Verdict # LUndef

Leaves ==
    /\ IsProgram /\ Running /\ pc = "client"
    /\ (made = Len(client.script) \/ SolvedBySimplification \/ NothingToWrite)

ModelLits == {MkLit(v, s.model[v] = LFalse) : v \in {w \in DOMAIN s.model : s.model[w] # LUndef}}

ExitWith(code, contents) ==
    /\ exit' = code /\ result' = ResultFile(contents)
    /\ UNCHANGED <<client, s, pc, frame, made, answer, added, alias>>

\* main() ends.
Exit ==
    /\ Leaves
    /\ CASE ~FileRead -> ExitWith(client.main.code, NoFile)
         [] FileRead /\ (SolvedBySimplification \/ Verdict = LFalse) ->
              ExitWith(20, Contents("UNSAT", {}))
         [] FileRead /\ ~SolvedBySimplification /\ Verdict = LTrue ->
              ExitWith(10, Contents("SAT", ModelLits))
         [] OTHER -> ExitWith(0, Contents("INDET", {}))
    /\ clock' = 1 - clock

\* interrupt() from another thread of a client, while it is in a call.
Interruption ==
    /\ client.interrupts /\ ~IsProgram /\ pc # "client"
    /\ Interrupted
    /\ UNCHANGED <<exit, result>>

\* SIGINT, SIGTERM or SIGXCPU: kills the process until a handler is installed, then
\* exits at once, then interrupts the solver.  A handler is installed between two calls.
Signal ==
    /\ IsProgram /\ client.interrupts /\ Running
    /\ LET main == client.main IN
       \/ /\ made < main.opening \/ (made = main.opening /\ pc = "client")
          /\ ExitWith(130, NoFile) /\ UNCHANGED clock
       \/ /\ main.opening <= made /\ made <= main.parsed /\ pc = "client"
          /\ ExitWith(1, Contents("", {})) /\ UNCHANGED clock
       \/ FileRead /\ Interrupted /\ UNCHANGED <<exit, result>>

\* An allocation fails under -mem-lim.
OutOfMemory ==
    /\ IsProgram /\ Running /\ client.main.limited /\ ~Leaves
    /\ ExitWith(0, Contents("", {}))
    /\ UNCHANGED clock

\* The next step of a call, or the next call.
Proceed == Running /\ ~Leaves /\ Step /\ UNCHANGED <<exit, result>>

Done == IF IsProgram THEN ~Running ELSE pc = "client" /\ made = Len(client.script)

Idle == Done /\ UNCHANGED mainVars

MainInit == Init /\ exit = NoExit /\ result = NoFile

Next == Proceed \/ Exit \/ Signal \/ Interruption \/ OutOfMemory \/ Idle

\* The thread is scheduled again and again until its script is done: a step is
\* always possible until then.
Fairness == WF_clock(~Done /\ clock' = 1 - clock)

Spec == MainInit /\ [][Next]_mainVars /\ Fairness

-------------------------------------------------------------------------------
(* What the file says, read off its tokens: the numbers outside the headers,   *)
(* each 0 the end of a clause.                                                 *)

Tokens == client.main.run.tokens
InHeader(i) == \E d \in {1, 2} : i > d /\ Tokens[i - d].kind = "p"
Numbers == {i \in DOMAIN Tokens : Tokens[i].kind = "number" /\ ~InHeader(i)}
ClauseEnds == {i \in Numbers : Tokens[i].num = 0}
BetweenClauses(i) == \A j \in Numbers : j < i => \E e \in ClauseEnds : j <= e /\ e < i

WellFormed ==
    /\ BetweenClauses(Len(Tokens) + 1)
    /\ \A i \in DOMAIN Tokens \ Numbers :
         CASE Tokens[i].kind = "number" -> InHeader(i)
           [] Tokens[i].kind = "c" -> BetweenClauses(i) /\ ~InHeader(i)
           [] Tokens[i].kind = "p" ->
                /\ BetweenClauses(i) /\ ~InHeader(i) /\ i + 2 <= Len(Tokens)
                /\ \A d \in {1, 2} : Tokens[i + d].kind = "number"
           [] OTHER -> FALSE

FileClauses ==
    {{Literal(Tokens[j].num) : j \in {k \in Numbers \ ClauseEnds : k < e /\ ~\E f \in ClauseEnds : k < f /\ f < e}}
       : e \in ClauseEnds}

FileModels ==
    {m \in SUBSET UNION {{VarOf(p) : p \in c} : c \in FileClauses} :
        \A c \in FileClauses : Sat(m, c)}

\* The exit status and the result file tell the truth about the input file: 10
\* comes with literals that satisfy every clause of it, 20 only when nothing does,
\* 3 exactly when the file is malformed, and no verdict only when none was asked
\* for, memory ran out or a signal came.
ExitIsRight ==
    LET main == client.main IN
    IsProgram /\ ~Running =>
      /\ CASE exit = 10 -> WellFormed /\ \A c \in FileClauses : c \intersect ModelLits # {}
           [] exit = 20 -> WellFormed /\ FileModels = {}
           [] exit = 3  -> ~WellFormed
           [] exit = 0  -> main.asked \/ main.limited \/ s.interrupt
           [] exit = 1  -> main.code = 1 \/ (client.interrupts /\ made <= main.parsed)
           [] OTHER     -> client.interrupts /\ made <= main.opening
      /\ \/ result \in {NoFile, Contents("", {}), Contents("INDET", {})}
         \/ exit = 10 /\ result = Contents("SAT", ModelLits)
         \/ exit = 20 /\ result = Contents("UNSAT", {})

\* Every call returns and every program ends: restarts grow, reduceDB and the jumps
\* of search() never repeat a conflict for ever, and the elimination loop drains
\* its queues.  Only progress of the client's own thread is assumed.
EveryCallReturns == <>Done
===============================================================================
