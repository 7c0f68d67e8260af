------------------------------- MODULE MCMinisat -------------------------------
(* Clients over at most five variables.  Literals are written as in DIMACS.    *)
EXTENDS MinisatMain

\* Restarts and limits on learnt clauses are brought within reach of problems
\* of this size; the other values are the defaults of the options.
Opt == [ccmin |-> 2, phaseSaving |-> 2, rndPol |-> FALSE, luby |-> TRUE,
        restartFirst |-> 1, restartInc |-> <<2, 1>>, minLearnts |-> 0, garbageFrac |-> <<1, 5>>,
        learntsizeFactor |-> <<1, 3>>, learntsizeInc |-> <<11, 10>>, adjustStart |-> 2,
        adjustInc |-> <<3, 2>>, extendModel |-> TRUE, asymm |-> FALSE, rcheck |-> FALSE,
        elim |-> TRUE, grow |-> 0, clauseLim |-> 20, subsumptionLim |-> 1000,
        simpGarbageFrac |-> <<1, 2>>]

L(x)  == IF x > 0 THEN 2 * (x - 1) ELSE 2 * (-x - 1) + 1
Ls(q) == [i \in DOMAIN q |-> L(q[i])]

News(n)   == [i \in 1 .. n |-> [op |-> "newVar", upol |-> LUndef, dvar |-> TRUE]]
Adds(cs)  == [i \in DOMAIN cs |-> [op |-> "addClause", lits |-> Ls(cs[i])]]
Set(op, v, x) == <<[op |-> op, var |-> v - 1, value |-> x]>>
Limit(op, n)  == <<[op |-> op, value |-> n]>>
Plain(op)     == <<[op |-> op, lits |-> <<>>]>>
With(op, q)   == <<[op |-> op, lits |-> Ls(q)]>>
Release(x)    == <<[op |-> "releaseVar", lit |-> L(x)]>>
Subst(v, x) == <<[op |-> "substitute", var |-> v - 1, lit |-> L(x)]>>
Simp(off)     == <<[op |-> "eliminate", turnOff |-> off]>>
SolveWith(q, simp, off, limited) ==
    <<[op |-> "solve", lits |-> Ls(q), simp |-> simp, turnOff |-> off, limited |-> limited]>>
Solve   == SolveWith(<<>>, TRUE, FALSE, FALSE)
SolveA(q) == SolveWith(q, TRUE, FALSE, FALSE)
Limited == SolveWith(<<>>, TRUE, FALSE, TRUE)

Core(opt, script) == [simp |-> FALSE, opt |-> opt, script |-> script, interrupts |-> FALSE]
Simped(opt, script) == [simp |-> TRUE, opt |-> opt, script |-> script, interrupts |-> FALSE]

\* Every clause over three variables: a contradiction without a unit.
All3 == << <<1,2,3>>, <<1,2,-3>>, <<1,-2,3>>, <<1,-2,-3>>,
           <<-1,2,3>>, <<-1,2,-3>>, <<-1,-2,3>>, <<-1,-2,-3>> >>
Four == << <<1,2,3>>, <<-1,2,4>>, <<-2,3,-4>>, <<-3,4,1>>, <<-3,-4,-1>>, <<2,-3,-4>>,
           <<-2,-1,4>> >>
\* Three decisions deep: learnt clauses of three literals.
Five == << <<1,2,3,4>>, <<1,2,3,-4>>, <<-1,4,5>>, <<-2,-4,5>>, <<-3,-5,1>>, <<-5,-1,2>>,
           <<-5,-2,3>> >>

\* Learnt clauses of three and more literals that are reasons when the limit on
\* learnt clauses is reached.
Reasons == << <<4,-1,-5,-2>>, <<3,1,2>>, <<-3,-4,2,-1>>, <<2,4,-1>>, <<1,-5,3,-4>>,
              <<3,-2,1,4>>, <<-4,-3,-5>>, <<5,-4,-1>>, <<4,-2,-3>>, <<-4,-1,3,-5>>,
              <<-2,-3,-1,5>>, <<-3,5,-2>>, <<-3,1,-5,-2>>, <<-3,-4,-1>> >>

\* An activation literal, withdrawn, and its variable used again.
Reuse == News(4) \o Adds(<< <<-4,1,2>>, <<-1,3>>, <<-4,-3>> >>) \o SolveA(<<4>>) \o Release(-4)
         \o Plain("simplify") \o News(1) \o Adds(<< <<4,-2>> >>) \o SolveA(<<2>>)
\* A tautology, repeated literals, a unit, a clause that is true and an empty one.
Degenerate == News(3) \o Adds(<< <<1,-1>>, <<2,2,3>>, <<-2>>, <<3,1>> >>) \o Plain("simplify")
              \o With("implies", <<-3>>) \o Solve \o Adds(<< <<-3,2>> >>) \o Solve

CoreClients == <<
  Core(Opt, News(4) \o Adds(Four) \o Solve \o SolveA(<<1, -3>>) \o With("toDimacs", <<-3>>)),
  Core(Opt, News(3) \o Adds(All3) \o Solve \o Plain("toDimacs")),
  Core([Opt EXCEPT !.ccmin = 1], News(5) \o Adds(Five) \o SolveA(<<-1, -2>>) \o Solve),
  Core(Opt, Reuse),
  Core(Opt, Degenerate),
  Core([Opt EXCEPT !.phaseSaving = 1, !.luby = FALSE, !.ccmin = 0],
       News(4) \o Set("setPolarity", 2, LTrue) \o Set("setDecisionVar", 3, FALSE) \o Adds(Four)
       \o With("implies", <<1, 3>>) \o With("implies", <<1, 3, 2>>)
       \o Set("setDecisionVar", 3, TRUE) \o Limit("setConfBudget", 1) \o Limited
       \o Limit("setPropBudget", 2) \o Limited \o Solve),
  Core([Opt EXCEPT !.rndPol = TRUE], News(4) \o Adds(SubSeq(Four, 1, 2)) \o Solve),
  [Core([Opt EXCEPT !.phaseSaving = 0], News(3) \o Adds(SubSeq(All3, 1, 6)) \o Solve
         \o Limit("clearInterrupt", 0) \o Solve) EXCEPT !.interrupts = TRUE],
  Core([Opt EXCEPT !.restartFirst = 5, !.learntsizeFactor = <<0, 3>>, !.ccmin = 0],
       News(5) \o Adds(Reasons) \o Solve)
>>

SimpClients == <<
  Simped(Opt, News(4) \o Adds(Four) \o Set("setFrozen", 1, TRUE) \o Set("freezeVar", 3, TRUE)
              \o Solve \o SolveA(<<1, -3>>)),
  Simped(Opt, News(3) \o Adds(All3) \o Solve),
  Simped(Opt, News(5) \o Adds(Five) \o Simp(TRUE) \o Solve),
  Simped([Opt EXCEPT !.asymm = TRUE, !.rcheck = TRUE, !.grow = 8], News(5) \o Adds(Five) \o Simp(TRUE) \o Solve),
  Simped(Opt, News(4) \o Adds(SubSeq(Four, 1, 4)) \o Subst(4, -1) \o Solve),
  Simped(Opt, News(4) \o Set("freezeVar", 1, TRUE) \o Set("freezeVar", 2, TRUE) \o Adds(SubSeq(Four, 1, 5))
              \o Simp(FALSE) \o Adds(<< <<1, 2>> >>) \o Release(-1) \o Limit("thaw", 0) \o Simp(FALSE) \o Solve),
  [Simped(Opt, News(4) \o Adds(Four) \o Solve) EXCEPT !.interrupts = TRUE]
>>

Num(n)  == [kind |-> "number", num |-> n]
Tok(k)  == [kind |-> k]
Nums(q) == [i \in DOMAIN q |-> Num(q[i])]
File(cs) == <<Tok("c"), Tok("p"), Num(4), Num(Len(cs))>>
            \o FlattenSeq([i \in DOMAIN cs |-> Nums(cs[i] \o <<0>>)])

OnOff(name, no) == [kind |-> "flag", name |-> name, no |-> no]
ValueArg(name, q, text) == [kind |-> "value", name |-> name, num |-> q, text |-> text]
IntArg(name, n) == ValueArg(name, <<n, 1>>, "")
Word == [kind |-> "word"]
Run(simp, args, tokens) == [simp |-> simp, args |-> args, tokens |-> tokens, signals |-> FALSE]
Signalled(run) == [run EXCEPT !.signals = TRUE]

Quick == <<IntArg("rfirst", 1), Word, Word>>
Part  == SubSeq(Four, 1, 4)
Two   == << <<1,2>>, <<-1,2>>, <<1,-2>> >>

Runs == <<
  Run(FALSE, Quick, File(Four)), Run(TRUE, Quick, File(Four)),
  Run(FALSE, <<Word, Word>>, File(All3)), Run(TRUE, <<Word, Word>>, File(All3)),
  Run(TRUE, <<OnOff("elim", TRUE), ValueArg("gc-frac", <<1, 100>>, ""), Word>>, File(Part)),
  Run(TRUE, <<OnOff("pre", TRUE), OnOff("solve", TRUE), ValueArg("dimacs", <<0, 1>>, "out"), Word>>,
      File(Part)),
  Signalled(Run(TRUE, <<OnOff("elim", TRUE), OnOff("pre", TRUE), ValueArg("dimacs", <<0, 1>>, "out"), Word, Word>>,
                File(Two))),
  Signalled(Run(FALSE, <<>>, File(Two))),
  Run(TRUE, <<IntArg("mem-lim", 1), Word, Word>>, File(Two)),
  Run(FALSE, <<[kind |-> "help"]>>, File(Two)),
  Run(FALSE, <<OnOff("asymm", FALSE), Word>>, File(Two)),
  Run(FALSE, <<IntArg("ccmin-mode", 3)>>, File(Two)),
  Run(FALSE, <<ValueArg("rinc", <<1, 1>>, "")>>, File(Two)),
  Run(FALSE, <<ValueArg("rnd-freq", <<1, 1>>, ""), IntArg("phase-saving", 2 * IntMax + 3), Word, Word>>,
      Nums(<<1, 0, -1, 0>>)),
  Run(TRUE, <<>>, Unreadable),
  Run(FALSE, <<Word>>, Nums(<<1, -2, 0, 2>>)),
  Run(FALSE, <<Word>>, <<Num(1), Tok("c"), Num(0)>>),
  Run(TRUE, <<Word>>, <<Tok("p"), Num(2)>>),
  Run(TRUE, <<Word>>, <<Num(1), Num(0), Tok("bad p")>>),
  Run(FALSE, <<Word, Word>>, <<>>)
>>

MCClients == CoreClients \o SimpClients \o [i \in DOMAIN Runs |-> Main(Runs[i])]

\* Variable 2 is released and used again while the clause it was trimmed from
\* still has it as a blocker; then variable 1, before the clause was propagated.
ReuseTwice == News(6) \o Adds(<< <<1,-2,3>> >>) \o Release(2) \o Plain("simplify")
              \o News(1) \o Adds(<< <<-2>> >>) \o Release(-1) \o Adds(<< <<4>>, <<5>>, <<6>> >>)
              \o Plain("simplify") \o News(1) \o Set("setPolarity", 1, LFalse) \o Solve

ReuseClients == << Core(Opt, ReuseTwice) >>
===============================================================================
