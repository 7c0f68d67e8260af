-------------------------------- MODULE Minisat --------------------------------
(* A client of the MiniSat library: it makes the calls of a script, one at a   *)
(* time, on a Solver or a SimpSolver.  solve() and eliminate() take many       *)
(* steps, one per iteration of the loops in solve_(), search() and             *)
(* eliminate(); interrupt() may be called from a signal handler between any    *)
(* two of them.                                                                *)
EXTENDS SimpSolver

\* A sequence of clients.  A client is a record: the mode of operation of its solver,
\* whether that is a SimpSolver, the calls it makes, and whether a signal may
\* interrupt them.
CONSTANT Clients

VARIABLES client,    \* the client at work
          s,         \* the solver object
          pc,        \* where the running call is
          frame,     \* its local variables
          made,      \* how many calls of its script were made
          answer,    \* what the last call answered
          added,     \* the clauses the client has stated, as sets of literals
          alias,     \* the pairs <<v, x>> of substitute(v, x)
          clock      \* a bit the client's thread flips with every step it takes

vars == <<client, s, pc, frame, made, answer, added, alias, clock>>
asked == <<client, added, alias>>

NoFrame  == [simp |-> FALSE, turnOff |-> FALSE, search |-> FALSE, extraFrozen |-> <<>>,
             restarts |-> 0, conflicts |-> 0, limit |-> 0, after |-> "", elim |-> VarUndef,
             frozen |-> FALSE]
NoAnswer == [op |-> "none", status |-> LUndef, out |-> <<>>]

\* The call that is due.
Call == client.script[made + 1]

\* What the library asks of a call: variables it has made, and in clauses and
\* assumptions none that it has eliminated.
Vars    == 0 .. s.nextVar - 1
Lit     == 0 .. 2 * s.nextVar - 1
Kept(p) == ~client.simp \/ VarOf(p) \notin s.eliminated

Legal(c) ==
    CASE c.op \in {"addClause", "solve"} -> c.lits \in Seq({p \in Lit : Kept(p)})
      [] c.op \in {"implies", "toDimacs", "simplify"} -> c.lits \in Seq(Lit)
      [] c.op = "releaseVar" -> c.lit \in Lit
      [] c.op = "substitute" -> client.simp /\ c.var \in Vars /\ c.lit \in Lit
      [] c.op \in {"setPolarity", "setDecisionVar"} -> c.var \in Vars
      [] c.op \in {"setFrozen", "freezeVar"} -> client.simp /\ c.var \in Vars
      [] c.op = "thaw" -> client.simp
      [] OTHER -> TRUE

Init ==
    /\ client \in Range(Clients)
    /\ s = IF client.simp THEN NewSimpSolver(client.opt) ELSE NewSolver(client.opt)
    /\ pc = "client" /\ made = 0 /\ frame = NoFrame /\ answer = NoAnswer
    /\ added = {} /\ alias = {} /\ clock = 0

-------------------------------------------------------------------------------
(* Calls that return at once.                                                  *)

Calls(op) == pc = "client" /\ made < Len(client.script) /\ Call.op = op /\ Legal(Call)

Returns(op, status, out) ==
    /\ answer' = [op |-> op, status |-> status, out |-> out]
    /\ made' = made + 1
    /\ UNCHANGED <<client, pc, frame>>

\* A clause over a literal that a released variable had, once that is reused.
Known(c, v) == IF \E p \in c : VarOf(p) = v /\ Value(s, p) = LTrue THEN {}
               ELSE {{p \in c : VarOf(p) # v}}

CallNewVar ==
    /\ Calls("newVar")
    /\ LET c == Call IN
       s' = IF client.simp THEN SimpNewVar(s, c.upol, c.dvar) ELSE NewVar(s, c.upol, c.dvar)
    /\ added' = UNION {Known(c, FreshVar(s)) : c \in added}
    /\ Returns("newVar", LUndef, <<>>)
    /\ UNCHANGED alias

AddClause(o, lits) == IF client.simp THEN SimpAddClause(o, lits) ELSE CoreAddClause(o, lits)

CallAddClause ==
    /\ Calls("addClause")
    /\ s' = AddClause(s, Call.lits)
    /\ added' = added \union {ToSet(Call.lits)}
    /\ Returns("addClause", ToLbool(s'.ok), <<>>)
    /\ UNCHANGED alias

CallReleaseVar ==
    /\ Calls("releaseVar")
    /\ LET p == Call.lit IN
       /\ s' = IF client.simp THEN SimpReleaseVar(s, p) ELSE CoreReleaseVar(s, p)
       /\ added' = IF s.useSimp \/ Value(s, p) = LUndef THEN added \union {{p}} ELSE added
    /\ Returns("releaseVar", LUndef, <<>>)
    /\ UNCHANGED alias

\* The clauses of the client after v was replaced by x.
CallSubstitute ==
    /\ Calls("substitute")
    /\ LET v == Call.var
           x == Call.lit
           image(p) == IF VarOf(p) # v THEN p ELSE IF Sign(p) THEN Neg(x) ELSE x
       IN  /\ s' = Substitute(s, v, x)
           /\ added' = {{image(p) : p \in c} : c \in added}
           /\ alias' = alias \union {<<v, x>>}
    /\ Returns("substitute", ToLbool(s'.ok), <<>>)

\* The setters of the variable modes and the resource limits.
Setting(c) ==
    CASE c.op = "setPolarity"    -> SetPolarity(s, c.var, c.value)
      [] c.op = "setDecisionVar" -> SetDecisionVar(s, c.var, c.value)
      [] c.op = "setFrozen"      -> SetFrozen(s, c.var, c.value)
      [] c.op = "freezeVar"      -> FreezeVar(s, c.var)
      [] c.op = "thaw"           -> Thaw(s)
      [] c.op = "setConfBudget"  -> SetConfBudget(s, c.value)
      [] c.op = "setPropBudget"  -> SetPropBudget(s, c.value)
      [] c.op = "clearInterrupt" -> ClearInterrupt(s)

Setters == {"setPolarity", "setDecisionVar", "setFrozen", "freezeVar", "thaw",
            "setConfBudget", "setPropBudget", "clearInterrupt"}

CallSetter ==
    /\ \E op \in Setters : Calls(op)
    /\ s' = Setting(Call)
    /\ Returns(Call.op, LUndef, <<>>)
    /\ UNCHANGED <<added, alias>>

CallSimplify ==
    /\ Calls("simplify")
    /\ s' = Simplify(s)
    /\ Returns("simplify", ToLbool(s'.ok), <<>>)
    /\ UNCHANGED <<added, alias>>

\* implies(): what unit propagation derives from the assumptions.
AssumeNext(e, p) ==
    CASE e.clash \/ Value(e.s, p) = LTrue -> e
      [] ~e.clash /\ Value(e.s, p) = LFalse -> [s |-> e.s, clash |-> TRUE]
      [] OTHER -> [s |-> UncheckedEnqueue(e.s, p, CRefUndef), clash |-> e.clash]

EnqueueAssumed(o, lits) ==
    LET after[i \in 0 .. Len(lits)] ==
          IF i = 0 THEN [s |-> o, clash |-> FALSE] ELSE AssumeNext(after[i - 1], lits[i])
    IN  after[Len(lits)]

CallImplies ==
    /\ Calls("implies")
    /\ LET e == EnqueueAssumed(NewDecisionLevel(s), Call.lits)
           r == Propagate(e.s)
           clash == e.clash \/ r.confl # CRefUndef
       IN  /\ s' = CancelUntil(IF e.clash THEN e.s ELSE r.s, 0)
           /\ Returns("implies", ToLbool(~clash),
                      IF clash THEN <<>> ELSE SubSeq(r.s.trail, Len(e.s.trail) + 1, Len(r.s.trail)))
    /\ UNCHANGED <<added, alias>>

\* toDimacs(): the clauses not yet satisfied without their false literals, the
\* variables renumbered in the order they are met, and the assumptions first.
Written(lits) == SelectSeq(lits, LAMBDA p : Value(s, p) # LFalse)

ToDimacs(assumps) ==
    LET kept == SelectSeq(s.clauses, LAMBDA cr : ~Satisfied(s, Lits(s, cr)))
        clauses == [i \in DOMAIN kept |-> Written(Lits(s, kept[i]))]
        met == FlattenSeq(clauses) \o assumps
        first(v) == Min({i \in DOMAIN met : VarOf(met[i]) = v})
        number(v) == Cardinality({w \in VarsOf(met) : first(w) < first(v)})
        mapped(lits) == [i \in DOMAIN lits |-> MkLit(number(VarOf(lits[i])), Sign(lits[i]))]
    IN  IF ~s.ok THEN << <<0>>, <<1>> >>
        ELSE [i \in DOMAIN assumps |-> mapped(<<assumps[i]>>)]
             \o [i \in DOMAIN clauses |-> mapped(clauses[i])]

CallToDimacs ==
    /\ Calls("toDimacs")
    /\ Returns("toDimacs", LUndef, ToDimacs(Call.lits))
    /\ UNCHANGED <<s, added, alias>>

-------------------------------------------------------------------------------
(* eliminate(), alone or as the first part of SimpSolver::solve_().            *)

Busy(next) == pc' = next /\ UNCHANGED <<client, made, answer, added, alias>>

\* solve_() of a SimpSolver freezes the assumptions that are not frozen yet.
Thawed(assumps) ==
    SelectSeq(assumps, LAMBDA p : VarOf(p) \notin s.frozen)

FreezeAll(o, lits) ==
    FoldLeft(LAMBDA x, p : SetFrozen(x, VarOf(p), TRUE), o, lits)

\* The object a solve() starts from: its assumptions, and no budget unless the
\* call is a limited one.
Prepared(c) ==
    LET o == [s EXCEPT !.assumptions = c.lits]
    IN  IF c.limited THEN o ELSE BudgetOff(o)

\* Solver::solve_() up to its loop.
StartSearch(o) ==
    LET t == [o EXCEPT !.model = <<>>, !.conflict = {}]
        few == Mul(<<o.numClauses, 1>>, o.opt.learntsizeFactor)
    IN  IF ~t.ok THEN t
        ELSE [t EXCEPT !.maxLearnts = IF AtLeast(o.opt.minLearnts, few)
                                      THEN <<o.opt.minLearnts, 1>> ELSE few,
                       !.adjustConfl = <<o.opt.adjustStart, 1>>,
                       !.adjustCnt = o.opt.adjustStart]

\* luby(y, x) of Solver.cc is y^seq: the smallest finite subsequence that has x, of
\* length size = 2^(seq + 1) - 1, then the halves of it that x is in.
LubySequence(x) == CHOOSE seq \in 0 .. x : 2 ^ (seq + 1) > x + 1 /\ 2 ^ seq <= x + 1

LubyDown(l) ==
    LET half == (l.size - 1) \div 2
    IN  IF l.size - 1 = l.x THEN l ELSE [x |-> l.x % half, size |-> half, seq |-> l.seq - 1]

LubyExponent(x) ==
    LET n == LubySequence(x)
        down[i \in 0 .. n] ==
          IF i = 0 THEN [x |-> x, size |-> 2 ^ (n + 1) - 1, seq |-> n] ELSE LubyDown(down[i - 1])
    IN  down[n].seq

RestartLimit(o, restarts) ==
    LET exponent == IF o.opt.luby THEN LubyExponent(restarts) ELSE restarts
    IN  Floor(<<(o.opt.restartInc[1] ^ exponent) * o.opt.restartFirst,
                o.opt.restartInc[2] ^ exponent>>)

\* To the search loop, or straight to the result of a solver that is not ok.
EnterSearch(o, f) ==
    /\ s' = StartSearch(o)
    /\ frame' = [f EXCEPT !.restarts = 0, !.conflicts = 0, !.limit = RestartLimit(o, 0)]
    /\ Busy(IF o.ok THEN "search" ELSE "unsat")

CallSolve ==
    /\ Calls("solve")
    /\ LET c == Call
           simp == s.useSimp /\ c.simp
           extra == IF simp THEN Thawed(c.lits) ELSE <<>>
           o == Simplify(FreezeAll(Prepared(c), extra))
           f == [NoFrame EXCEPT !.simp = simp, !.turnOff = c.turnOff, !.search = TRUE,
                                !.extraFrozen = extra]
       IN  IF ~simp THEN EnterSearch(Prepared(c), f)
           ELSE /\ s' = o /\ frame' = f
                /\ Busy(IF o.ok THEN "subsume" ELSE "refuted")

CallEliminate ==
    /\ Calls("eliminate")
    /\ s' = Simplify(s)
    /\ frame' = [NoFrame EXCEPT !.turnOff = Call.turnOff]
    /\ Busy(IF s'.ok /\ s.useSimp THEN "subsume" ELSE "eliminated")

\* The head of the main loop of eliminate().
Subsume ==
    /\ pc = "subsume"
    /\ IF MoreToEliminate(s) THEN s' = GatherTouchedClauses(s) /\ Busy("check")
       ELSE s' = s /\ Busy("cleanup")
    /\ frame' = [frame EXCEPT !.after = "subsumed"]

\* One iteration of backwardSubsumptionCheck, which goes on to frame.after.
Check ==
    /\ pc = "check"
    /\ IF CheckDone(s) THEN s' = s /\ Busy(frame.after)
       ELSE IF s.interrupt THEN s' = DropQueue(s) /\ Busy(frame.after)
       ELSE s' = CheckRound(s) /\ Busy(IF s'.ok THEN "check" ELSE "cleanup")
    /\ UNCHANGED frame

Subsumed ==
    /\ pc = "subsumed"
    /\ IF s.interrupt THEN s' = [s EXCEPT !.elimHeap = {}] /\ Busy("cleanup")
       ELSE s' = s /\ Busy("eliminate")
    /\ UNCHANGED frame

\* The inner loop: the next variable, and asymmetric branching on it if that is
\* asked for.
TryVar(v) ==
    LET o == [s EXCEPT !.elimHeap = @ \ {v}]
        a == AsymmVar([o EXCEPT !.frozen = @ \union {v}], v)
    IN  IF s.interrupt THEN s' = o /\ Busy("subsume") /\ UNCHANGED frame
        ELSE IF Skipped(o, v) THEN s' = o /\ Busy("eliminate") /\ UNCHANGED frame
        ELSE /\ s' = IF o.opt.asymm THEN a ELSE o
             /\ frame' = [frame EXCEPT !.elim = v, !.after = "branched",
                                       !.frozen = v \in s.frozen]
             /\ Busy(IF ~s'.ok THEN "cleanup" ELSE IF o.opt.asymm THEN "check" ELSE "branched")

Eliminate ==
    /\ pc = "eliminate"
    /\ IF s.elimHeap = {} THEN s' = s /\ Busy("subsume") /\ UNCHANGED frame
       ELSE \E v \in Cheapest(s) : TryVar(v)

Branched ==
    /\ pc = "branched"
    /\ LET v == frame.elim
           o == IF frame.frozen THEN s ELSE [s EXCEPT !.frozen = @ \ {v}]
       IN  IF Eliminable(o, v)
           THEN s' = EliminateVar(o, v) /\ Busy(IF s'.ok THEN "check" ELSE "cleanup")
           ELSE s' = o /\ Busy("collect")
    /\ frame' = [frame EXCEPT !.after = "collect"]

Collect ==
    /\ pc = "collect"
    /\ s' = CheckGarbage(s, s.opt.simpGarbageFrac)
    /\ Busy("eliminate") /\ UNCHANGED frame

Cleanup ==
    /\ pc = "cleanup"
    /\ LET o == EliminateCleanup(s, frame.turnOff) IN
       IF frame.search /\ o.ok THEN EnterSearch(o, frame)
       ELSE /\ s' = o
            /\ Busy(IF frame.search THEN "refuted" ELSE "eliminated")
            /\ UNCHANGED frame

\* Back to the client, with the assumptions thawed again.
Finish(o, op, status) ==
    /\ s' = IF frame.simp
            THEN FoldLeft(LAMBDA x, p : SetFrozen(x, VarOf(p), FALSE), o, frame.extraFrozen)
            ELSE o
    /\ answer' = [op |-> op, status |-> status, out |-> <<>>]
    /\ pc' = "client" /\ made' = made + 1 /\ frame' = NoFrame
    /\ UNCHANGED asked

ReturnEliminated ==
    /\ pc = "eliminated"
    /\ Finish(s, "eliminate", ToLbool(s.ok))

\* eliminate() answered no: solve_() ends without touching model and conflict.
ReturnRefuted ==
    /\ pc = "refuted"
    /\ Finish(s, "solve", LFalse)

-------------------------------------------------------------------------------
(* search().                                                                   *)

\* The counter that lets the limit on learnt clauses grow.
Adjust(o) ==
    IF o.adjustCnt # 1 THEN [o EXCEPT !.adjustCnt = @ - 1]
    ELSE LET confl == Mul(o.adjustConfl, o.opt.adjustInc)
         IN  [o EXCEPT !.adjustConfl = confl, !.adjustCnt = Floor(confl),
                       !.maxLearnts = Mul(@, o.opt.learntsizeInc)]

\* The learnt clause is stored and its asserting literal enqueued.
Learn(o, a) ==
    LET t  == CancelUntil(o, a.btlevel)
        cr == t.ca.size
        stored == AttachClause([t EXCEPT !.ca = AllocClause(@, a.learnt, TRUE),
                                         !.learnts = Append(@, cr)], cr)
    IN  Adjust(IF Len(a.learnt) = 1 THEN UncheckedEnqueue(t, a.learnt[1], CRefUndef)
               ELSE UncheckedEnqueue(stored, a.learnt[1], cr))

\* Dummy decision levels for the assumptions that already hold.
SkipNext(o) ==
    IF DecisionLevel(o) < Len(o.assumptions)
       /\ Value(o, o.assumptions[DecisionLevel(o) + 1]) = LTrue
    THEN NewDecisionLevel(o) ELSE o

SkipHolding(o) ==
    LET after[i \in 0 .. Len(o.assumptions)] ==
          IF i = 0 THEN o ELSE SkipNext(after[i - 1])
    IN  after[Len(o.assumptions)]

\* pickBranchLit: any unassigned decision variable of the heap, in the polarity
\* that the user, the coin or the saved phase gives it.  The others found on the
\* way leave the heap.
Eligible(o) == {v \in o.heap \intersect o.decision : o.assigns[v] = LUndef}

BranchSigns(o, v) ==
    IF o.userPol[v] # LUndef THEN {o.userPol[v] = LTrue}
    ELSE IF o.opt.rndPol THEN BOOLEAN ELSE {o.polarity[v]}

Decide(o, p) == UncheckedEnqueue(NewDecisionLevel(o), p, CRefUndef)

\* The next decision: an assumption that is open, or a variable.
Branch(o) ==
    LET level == DecisionLevel(o)
        p == o.assumptions[level + 1]
    IN  IF level < Len(o.assumptions)
        THEN IF Value(o, p) = LFalse
             THEN s' = [o EXCEPT !.conflict = AnalyzeFinal(o, Neg(p))] /\ Busy("unsat")
             ELSE s' = Decide(o, p) /\ Busy("search")
        ELSE IF Eligible(o) = {} THEN s' = [o EXCEPT !.heap = {}] /\ Busy("sat")
        ELSE \E v \in Eligible(o) : \E sign \in BranchSigns(o, v) :
               s' = Decide([o EXCEPT !.heap = Eligible(o) \ {v}], MkLit(v, sign)) /\ Busy("search")

\* Too many learnt clauses for the current limit.
Crowded(o) == AtLeast(Len(o.learnts) - NAssigns(o), o.maxLearnts)

\* search() gave up: solve_() stops when the budget is spent, else restarts.
Restart(o) ==
    LET n == frame.restarts + 1
        f == [frame EXCEPT !.restarts = n, !.conflicts = 0, !.limit = RestartLimit(o, n)]
    IN  /\ s' = CancelUntil(o, 0)
        /\ IF WithinBudget(o) THEN frame' = f /\ Busy("search")
           ELSE frame' = frame /\ Busy("unknown")

Conflict(o, confl) ==
    IF DecisionLevel(o) = 0 THEN s' = o /\ frame' = frame /\ Busy("unsat")
    ELSE /\ s' = Learn(o, Analyze(o, confl))
         /\ frame' = [frame EXCEPT !.conflicts = @ + 1]
         /\ Busy("search")

\* No conflict and no limit reached.
Extend(o) ==
    IF ~o.ok THEN s' = o /\ Busy("unsat")
    ELSE \E victims \in IF Crowded(o) THEN Reducible(o) ELSE {{}} :
           Branch(SkipHolding(IF Crowded(o) THEN ReduceDB(o, victims) ELSE o))

\* The rest of an iteration, after propagation.
AfterPropagate(o, confl) ==
    IF confl # CRefUndef THEN Conflict([o EXCEPT !.confBudget = Spend(@, 1)], confl)
    ELSE IF frame.conflicts >= frame.limit \/ ~WithinBudget(o) THEN Restart(o)
    ELSE frame' = frame /\ Extend(IF DecisionLevel(o) = 0 THEN Simplify(o) ELSE o)

\* One iteration of the loop of search().
Search == pc = "search" /\ LET r == Propagate(s) IN AfterPropagate(r.s, r.confl)

-------------------------------------------------------------------------------
(* solve_() after its loop.                                                    *)

FoundModel ==
    /\ pc = "sat"
    /\ LET m == CancelUntil([s EXCEPT !.model = [v \in 0 .. s.nextVar - 1 |-> s.assigns[v]]], 0)
       IN  Finish(IF client.simp /\ s.opt.extendModel THEN ExtendModel(m) ELSE m, "solve", LTrue)

FoundUnsat ==
    /\ pc = "unsat"
    /\ Finish(CancelUntil([s EXCEPT !.ok = @ /\ s.conflict # {}], 0), "solve", LFalse)

GaveUp ==
    /\ pc = "unknown"
    /\ Finish(CancelUntil(s, 0), "solve", LUndef)

\* interrupt() from a handler.
Interrupted ==
    /\ ~s.interrupt
    /\ s' = Interrupt(s)
    /\ UNCHANGED <<pc, frame, made, answer, clock>> /\ UNCHANGED asked

MakeCall ==
    \/ CallNewVar \/ CallAddClause \/ CallReleaseVar \/ CallSubstitute \/ CallSetter
    \/ CallSimplify \/ CallImplies \/ CallToDimacs \/ CallSolve \/ CallEliminate

Work ==
    \/ Subsume \/ Check \/ Subsumed \/ Eliminate \/ Branched \/ Collect \/ Cleanup
    \/ ReturnEliminated \/ ReturnRefuted
    \/ Search \/ FoundModel \/ FoundUnsat \/ GaveUp

\* What the client's thread does next.
Step == (MakeCall \/ Work) /\ clock' = 1 - clock

-------------------------------------------------------------------------------
(* What the answers and the state are measured against: the assignments that   *)
(* satisfy what the client has stated.  An assignment is its set of true       *)
(* variables.                                                                  *)

Assignments == SUBSET (0 .. s.nextVar - 1)
Truth(m, p) == (VarOf(p) \in m) # Sign(p)
Sat(m, c)   == \E p \in c : Truth(m, p)
Models == {m \in Assignments : /\ \A c \in added : Sat(m, c)
                               /\ \A a \in alias : (a[1] \in m) = Truth(m, a[2])}
Under(M, lits) == {m \in M : \A p \in ToSet(lits) : Truth(m, p)}

Stored == {cr \in ToSet(s.clauses) : ~IsRemoved(s, cr)}
Attached == {cr \in ToSet(s.clauses) \union ToSet(s.learnts) : ~IsRemoved(s, cr)}
RootTrue(v) == s.assigns[v] # LUndef /\ s.level[v] = 0
RootFacts == {MkLit(v, s.assigns[v] = LFalse) : v \in {w \in 0 .. s.nextVar - 1 : RootTrue(w)}}
Eliminated == IF client.simp THEN s.eliminated ELSE {}

\* Between two iterations, with nothing left over from an interrupted one.
Settled == s.ok /\ ~s.interrupt /\ pc \in {"client", "eliminate", "search", "sat"}

\* The model solve() returns, extended to the eliminated variables, satisfies
\* every clause the client stated and its assumptions, and leaves no decision
\* variable open: the branching heap has missed none.
ModelFits ==
    LET holds(p) == LXor(s.model[VarOf(p)], Sign(p)) = LTrue
    IN  /\ \A c \in added : \E p \in c : holds(p)
        /\ \A p \in ToSet(s.assumptions) : holds(p)
        /\ \A v \in s.decision : s.model[v] # LUndef

\* The clause in conflict is over negated assumptions and follows.
ConflictFits ==
    /\ s.conflict \subseteq {Neg(p) : p \in ToSet(s.assumptions)}
    /\ \A m \in Models : Sat(m, s.conflict)

\* The clauses written are satisfiable exactly when the stated ones are.
WrittenFits ==
    LET n == Cardinality(UNION {VarsOf(answer.out[i]) : i \in DOMAIN answer.out})
        fits(m) == \A i \in DOMAIN answer.out : Sat(m, ToSet(answer.out[i]))
    IN  (\E m \in SUBSET (0 .. n - 1) : fits(m))
        = (Under(Models, client.script[made].lits) # {})

\* The last call was op, it has returned, and this was its status.
Answered(op, status) == pc = "client" /\ answer.op = op /\ answer.status = status

\* What the solver says no to does follow: a refusal is backed by a conflict over the
\* assumptions or by a contradiction, "undefined" means that a limit or an interrupt
\* stopped the search, and implies() answers what follows from its literals.
AnswerFollows ==
    LET A == Under(Models, client.script[made].lits) IN
    /\ Answered("solve", LFalse) => ~s.ok \/ ConflictFits
    /\ Answered("solve", LUndef) => ~WithinBudget(s)
    /\ Answered("implies", LTrue) =>
         \A m \in A : \A i \in DOMAIN answer.out : Truth(m, answer.out[i])
    /\ Answered("implies", LFalse) => A = {}

\* Solver.h:122: "If problem is satisfiable, this vector contains the model", for
\* clients that keep the promise of releaseVar() (48).
ModelIsOne == Answered("solve", LTrue) => ModelFits

\* Every answer is right: it follows, a model is one of the stated clauses under the
\* assumptions, and toDimacs() writes an equivalent problem.
AnswerIsRight ==
    /\ AnswerFollows
    /\ ModelIsOne
    /\ Answered("toDimacs", LUndef) => WrittenFits

\* Every stored, learnt or strengthened clause and every fact at the root follows
\* from what the client stated, and ok is given up only when nothing satisfies it.
EveryClauseFollows ==
    LET M == Models IN
    /\ \A cr \in Attached : \A m \in M : Sat(m, ToSet(Lits(s, cr)))
    /\ \A p \in RootFacts : \A m \in M : Truth(m, p)
    /\ ~s.ok => M = {}

\* Nothing is lost either: an assignment that satisfies the clauses still stored
\* and the facts at the root becomes a model of what was stated by changing no
\* variable but eliminated ones.
NothingLost ==
    LET fits(m) == /\ \A cr \in Stored : Sat(m, ToSet(Lits(s, cr)))
                   /\ \A p \in RootFacts : Truth(m, p)
        rest == {m \ Eliminated : m \in Models}
    IN  Settled => \A m \in Assignments : fits(m) => m \ Eliminated \in rest

\* Two-watched-literal scheme: a clause is watched once under the negation of
\* each of its first two literals and nowhere else, and when one of them has been
\* falsified and propagated the clause holds by a literal assigned no later.
Watchers(cr) ==
    {w \in (0 .. 2 * s.nextVar - 1) \X (1 .. Len(s.clauses) + Len(s.learnts)) :
        w[2] <= Len(s.watches.occs[w[1]]) /\ s.watches.occs[w[1]][w[2]].cref = cr}

Processed == {s.trail[i] : i \in 1 .. s.qhead}

NoMissedPropagation ==
    Settled => \A cr \in Attached :
      LET c == Lits(s, cr) IN
      /\ {w[1] : w \in Watchers(cr)} = {Neg(c[1]), Neg(c[2])}
      /\ Cardinality(Watchers(cr)) = 2
      /\ \A i \in 1 .. 2 : Neg(c[i]) \in Processed =>
            \E q \in ToSet(c) : Value(s, q) = LTrue /\ LevelOf(s, q) <= LevelOf(s, c[i])

\* The trail is in order: the first literal of a level is a decision, every other
\* one above the root has a reason, stands first in that clause, which was not
\* removed, and the other literals of it were falsified before, at its level or below.
TrailInOrder ==
    \A i \in DOMAIN s.trail :
      LET p == s.trail[i]
          cr == ReasonOf(s, p)
          before == {Neg(s.trail[j]) : j \in 1 .. i - 1} \union {Neg(q) : q \in RootFacts}
      IN  /\ Value(s, p) = LTrue
          /\ LevelOf(s, p) = Cardinality({l \in DOMAIN s.trailLim : s.trailLim[l] < i})
          /\ LevelOf(s, p) > 0 =>
               IF i - 1 \in ToSet(s.trailLim) THEN cr = CRefUndef
               ELSE /\ cr # CRefUndef /\ ~IsRemoved(s, cr)
                    /\ Lits(s, cr)[1] = p
                    /\ ToSet(Tail(Lits(s, cr))) \subseteq before

\* While variables are eliminated, the occurrence list of a variable has every
\* live clause it is in, once, and n_occ counts its literals exactly: else a
\* clause would survive the elimination of one of its variables.
OccursComplete ==
    client.simp /\ s.useSimp /\ s.ok => \A v \in 0 .. s.nextVar - 1 :
      LET in(p) == {cr \in Stored : Contains(Lits(s, cr), p)}
          times(cr) == Cardinality({i \in DOMAIN s.occurs.occs[v] : s.occurs.occs[v][i] = cr})
      IN  /\ \A sign \in BOOLEAN :
               s.nOcc[MkLit(v, sign)] = Cardinality(in(MkLit(v, sign)))
          /\ \A cr \in in(MkLit(v, FALSE)) \union in(MkLit(v, TRUE)) : times(cr) = 1
===============================================================================
