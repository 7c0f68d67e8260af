-------------------------------- MODULE Solver --------------------------------
(* minisat/core/Solver.{h,cc}.  A solver object is a record; an operator named *)
(* after a method takes the object and returns the object the method leaves.   *)
(* Activities are abstracted: the branching heap is the set of its variables   *)
(* and any of them may come first, so every order that bumping, decay,         *)
(* rescaling, random decisions or random initial activities induce is          *)
(* covered.  Budgets are kept as what is left of them.                         *)
EXTENDS SatTypes

\* A fraction is a pair <<numerator, denominator>>.
Times(n, q)   == <<n * q[1], q[2]>>
Mul(p, q)     == <<p[1] * q[1], p[2] * q[2]>>
Floor(q)      == q[1] \div q[2]
Exceeds(n, q) == n * q[2] > q[1]
AtLeast(n, q) == n * q[2] >= q[1]

Less(n, k) == IF n < k THEN 0 ELSE n - k

\* The object as its constructor leaves it; opt holds the mode of operation.
NewSolver(opt) ==
    [opt |-> opt, ca |-> EmptyRegion(FALSE), clauses |-> <<>>, learnts |-> <<>>,
     watches |-> EmptyOccLists, trail |-> <<>>, trailLim |-> <<>>, qhead |-> 0,
     assigns |-> <<>>, reason |-> <<>>, level |-> <<>>, polarity |-> <<>>,
     userPol |-> <<>>, decision |-> {}, heap |-> {}, ok |-> TRUE, nextVar |-> 0,
     releasedVars |-> <<>>, freeVars |-> <<>>, simpAssigns |-> -1, simpProps |-> 0,
     numClauses |-> 0, literals |-> 0, model |-> <<>>, conflict |-> {},
     assumptions |-> <<>>, maxLearnts |-> <<0, 1>>, adjustConfl |-> <<0, 1>>,
     adjustCnt |-> 0, confBudget |-> -1, propBudget |-> -1, interrupt |-> FALSE,
     removeSatisfied |-> TRUE, useSimp |-> FALSE]

DecisionLevel(s) == Len(s.trailLim)
NAssigns(s)      == Len(s.trail)
Value(s, p)      == LXor(s.assigns[VarOf(p)], Sign(p))
Lits(s, cr)      == s.ca.at[cr].lits
IsRemoved(s, cr) == s.ca.at[cr].mark = 1
WatcherDeleted(s) == {w \in Listed(s.watches) : IsRemoved(s, w.cref)}
LevelOf(s, p)    == s.level[VarOf(p)]
ReasonOf(s, p)   == s.reason[VarOf(p)]

Satisfied(s, lits) == \E i \in DOMAIN lits : Value(s, lits[i]) = LTrue

Locked(s, cr) ==
    LET p == Lits(s, cr)[1]
    IN  Value(s, p) = LTrue /\ ReasonOf(s, p) = cr

WithinBudget(s) == ~s.interrupt /\ s.confBudget # 0 /\ s.propBudget # 0

SetConfBudget(s, n) == [s EXCEPT !.confBudget = n]
SetPropBudget(s, n) == [s EXCEPT !.propBudget = n]
BudgetOff(s)        == [s EXCEPT !.confBudget = -1, !.propBudget = -1]
Interrupt(s)        == [s EXCEPT !.interrupt = TRUE]
ClearInterrupt(s)   == [s EXCEPT !.interrupt = FALSE]
SetPolarity(s, v, b) == [s EXCEPT !.userPol[v] = b]

\* What n more conflicts or propagations leave of a budget; -1 is no budget.
Spend(budget, n) == IF budget = -1 THEN -1 ELSE Less(budget, n)

-------------------------------------------------------------------------------
(* Variables.                                                                  *)

InsertVarOrder(s, v) ==
    IF v \in s.decision THEN [s EXCEPT !.heap = @ \union {v}] ELSE s

SetDecisionVar(s, v, b) ==
    InsertVarOrder([s EXCEPT !.decision = IF b THEN @ \union {v} ELSE @ \ {v}], v)

RebuildOrderHeap(s) ==
    [s EXCEPT !.heap = {v \in s.decision : s.assigns[v] = LUndef}]

\* The variable newVar returns: a released one if there is one.
FreshVar(s) == IF s.freeVars # <<>> THEN Last(s.freeVars) ELSE s.nextVar

NewVar(s, upol, dvar) ==
    LET v == FreshVar(s)
        fresh == [s EXCEPT !.freeVars = IF @ = <<>> THEN @ ELSE Front(@),
                           !.nextVar  = IF s.freeVars = <<>> THEN @ + 1 ELSE @,
                           !.watches  = InitOcc(InitOcc(@, 2 * v), 2 * v + 1),
                           !.assigns  = Updated(@, v, LUndef),
                           !.reason   = Updated(@, v, CRefUndef),
                           !.level    = Updated(@, v, 0),
                           !.polarity = Updated(@, v, TRUE),
                           !.userPol  = Updated(@, v, upol)]
    IN  SetDecisionVar(fresh, v, dvar)

-------------------------------------------------------------------------------
(* Assigning, attaching, propagating.                                          *)

UncheckedEnqueue(s, p, from) ==
    [s EXCEPT !.assigns[VarOf(p)] = ToLbool(~Sign(p)),
              !.reason[VarOf(p)] = from, !.level[VarOf(p)] = DecisionLevel(s),
              !.trail = Append(@, p)]

NewDecisionLevel(s) == [s EXCEPT !.trailLim = Append(@, Len(s.trail))]

Watcher(cr, p) == [cref |-> cr, blocker |-> p]

AttachClause(s, cr) ==
    LET c == s.ca.at[cr]
        n == Len(c.lits)
    IN  [s EXCEPT !.watches = PushOcc(PushOcc(@, Neg(c.lits[1]), Watcher(cr, c.lits[2])),
                                      Neg(c.lits[2]), Watcher(cr, c.lits[1])),
                  !.numClauses = IF c.learnt THEN @ ELSE @ + 1,
                  !.literals = @ + n]

Unwatch(ws, cr) == RemoveFirstMatch(ws, LAMBDA w : w.cref = cr)

DetachClause(s, cr, strict) ==
    LET c == s.ca.at[cr]
        watched == {Neg(c.lits[1]), Neg(c.lits[2])}
    IN  [s EXCEPT !.watches =
                    IF strict
                    THEN [@ EXCEPT !.occs = [p \in DOMAIN @ |-> IF p \in watched
                                               THEN Unwatch(@[p], cr) ELSE @[p]]]
                    ELSE Smudge(@, watched),
                  !.numClauses = IF c.learnt THEN @ ELSE @ - 1,
                  !.literals = @ - Len(c.lits)]

RemoveClause(s, cr) ==
    LET v == VarOf(Lits(s, cr)[1])
    IN  [DetachClause(s, cr, FALSE) EXCEPT
            !.reason[v] = IF Locked(s, cr) THEN CRefUndef ELSE @,
            !.ca = FreeClause([@ EXCEPT !.at[cr].mark = 1], cr)]

\* The watched literal ~p is put second.
FalseSecond(lits, p) == IF lits[1] = Neg(p) THEN Swap(lits, 1, 2) ELSE lits

\* A clause whose blocker does not hold, its false watched literal second.  acc:
\* the object, the watchers of the literal kept so far, the conflicting clause.
VisitClause(acc, w, lits) ==
    LET s == acc.s
        first == lits[1]
        open == {k \in 3 .. Len(lits) : Value(s, lits[k]) # LFalse}
        nw == Watcher(w.cref, first)
        put(q) == [s EXCEPT !.ca.at[w.cref].lits = q]
    IN  IF Value(s, first) = LTrue /\ first # w.blocker
        THEN [acc EXCEPT !.s = put(lits), !.kept = Append(@, nw)]
        ELSE IF open # {}
        THEN LET k == Min(open)
             IN  [acc EXCEPT !.s = [put(Swap(lits, 2, k)) EXCEPT
                                      !.watches = PushOcc(@, Neg(lits[k]), nw)]]
        ELSE IF Value(s, first) = LFalse
        THEN [s |-> [put(lits) EXCEPT !.qhead = Len(s.trail)],
              kept |-> Append(acc.kept, nw), confl |-> w.cref]
        ELSE [acc EXCEPT !.s = UncheckedEnqueue(put(lits), first, w.cref),
                         !.kept = Append(@, nw)]

\* Mutant of VisitWatcher: the blocker is trusted without a look at its value.
TrustBlocker(acc, w, p) ==
    IF acc.confl # CRefUndef \/ Value(acc.s, w.blocker) # LFalse
    THEN [acc EXCEPT !.kept = Append(@, w)]
    ELSE VisitClause(acc, w, FalseSecond(Lits(acc.s, w.cref), p))

\* One watcher w of a literal p that became true.
VisitWatcher(acc, w, p) ==
    IF acc.confl # CRefUndef \/ Value(acc.s, w.blocker) = LTrue
    THEN [acc EXCEPT !.kept = Append(@, w)]
    ELSE VisitClause(acc, w, FalseSecond(Lits(acc.s, w.cref), p))

\* p leaves the queue; removed clauses leave its watchers.
Dequeue(s, p) ==
    [s EXCEPT !.qhead = @ + 1, !.simpProps = Less(@, 1), !.propBudget = Spend(@, 1),
              !.watches = LookupOcc(@, p, WatcherDeleted(s))]

VisitAll(s, p, confl) ==
    LET ws == s.watches.occs[p]
        visited[i \in 0 .. Len(ws)] ==
          IF i = 0 THEN [s |-> s, kept |-> <<>>, confl |-> confl]
          ELSE VisitWatcher(visited[i - 1], ws[i], p)
    IN  visited[Len(ws)]

KeepWatchers(r, p) ==
    [s |-> [r.s EXCEPT !.watches.occs[p] = r.kept], confl |-> r.confl]

\* One iteration of propagate(), unless the queue is empty.
PropagateNext(r) ==
    LET p == r.s.trail[r.s.qhead + 1]
    IN  IF r.s.qhead >= Len(r.s.trail) THEN r
        ELSE KeepWatchers(VisitAll(Dequeue(r.s, p), p, r.confl), p)

\* Propagates until the queue is empty: a variable enters it once at most.
PropagateQueue(r) ==
    LET after[i \in 0 .. r.s.nextVar] ==
          IF i = 0 THEN r ELSE PropagateNext(after[i - 1])
    IN  after[r.s.nextVar]

\* The object, and the conflicting clause or CRefUndef.
Propagate(s) == PropagateQueue([s |-> s, confl |-> CRefUndef])

\* ok tells whether the propagation went without a conflict.
OkUnlessConflict(r) == [r.s EXCEPT !.ok = r.confl = CRefUndef]

\* Enqueue one fact at the root and propagate.
AssertUnit(s, p) == OkUnlessConflict(Propagate(UncheckedEnqueue(s, p, CRefUndef)))

CancelUntil(s, level) ==
    IF DecisionLevel(s) <= level THEN s
    ELSE LET keep == s.trailLim[level + 1]
             undone == keep + 1 .. Len(s.trail)
             vars == {VarOf(s.trail[i]) : i \in undone}
             saved == {VarOf(s.trail[i]) : i \in
                         {j \in undone : \/ s.opt.phaseSaving > 1
                                         \/ s.opt.phaseSaving = 1 /\ j - 1 > Last(s.trailLim)}}
             negative == {VarOf(s.trail[i]) : i \in {j \in undone : Sign(s.trail[j])}}
         IN  [s EXCEPT !.assigns = [v \in DOMAIN @ |-> IF v \in vars THEN LUndef ELSE @[v]],
                       !.polarity = [v \in DOMAIN @ |-> IF v \in saved THEN v \in negative
                                                        ELSE @[v]],
                       !.heap = @ \union (vars \intersect s.decision),
                       !.qhead = keep,
                       !.trail = SubSeq(@, 1, keep), !.trailLim = SubSeq(@, 1, level)]

-------------------------------------------------------------------------------
(* Memory.  garbageCollect is virtual: in a SimpSolver the occurrence lists,   *)
(* the subsumption queue and the temporary clause move before the rest.        *)

MovedTo(r, crs) == [i \in DOMAIN crs |-> r.moved[crs[i]]]

Live(s, crs) == Only(crs, {cr \in ToSet(crs) : ~IsRemoved(s, cr)})

\* A list per key, one after the other.
Concat(f, keys) == FlattenSeq([i \in 1 .. Len(keys) |-> f[keys[i]]])

Keys(n) == [i \in 1 .. n |-> i - 1]

\* Where r has put the references of s that only a SimpSolver has.
FollowSimp(s, r) ==
    [s |-> [s EXCEPT !.occurs.occs = [v \in DOMAIN @ |-> MovedTo(r, @[v])],
                     !.queue = MovedTo(r, @), !.tmpUnit = r.moved[@]],
     r |-> r]

RelocSimp(s, r) ==
    FollowSimp(s, RelocAllOf(s.ca, r, Concat(s.occurs.occs, Keys(s.nextVar)) \o s.queue
                                      \o <<s.tmpUnit>>))

\* SimpSolver::relocAll: occurrence lists without removed clauses, the
\* subsumption queue without marked ones, and the temporary unit clause.
SimpRelocAll(s, r) ==
    IF ~s.useSimp THEN [s |-> s, r |-> r]
    ELSE RelocSimp([s EXCEPT !.occurs.occs = [v \in DOMAIN @ |-> Live(s, @[v])],
                             !.occurs.dirty = {},
                             !.queue = Only(@, {cr \in ToSet(@) : s.ca.at[cr].mark = 0})], r)

\* The clauses that are watched, in the order of the literals.
Watching(s) ==
    Concat([p \in DOMAIN s.watches.occs |->
              [j \in DOMAIN s.watches.occs[p] |-> s.watches.occs[p][j].cref]],
           Keys(2 * s.nextVar))

\* The reasons that are still in use: of clauses that moved, or locked ones.
KeptReasons(s, r) ==
    {v \in VarsOf(s.trail) :
        /\ s.reason[v] # CRefUndef
        /\ s.reason[v] \in DOMAIN r.moved \/ Locked(s, s.reason[v])}

\* Where r has put the references of s; vs are the variables with a reason.
Follow(s, vs, r) ==
    [s EXCEPT !.ca = r.to,
              !.watches.occs = [p \in DOMAIN @ |-> [j \in DOMAIN @[p] |->
                                  Watcher(r.moved[@[p][j].cref], @[p][j].blocker)]],
              !.reason = [v \in DOMAIN @ |-> IF v \in vs THEN r.moved[@[v]] ELSE @[v]],
              !.learnts = MovedTo(r, @), !.clauses = MovedTo(r, @)]

\* The reasons move in the order of the trail, then the learnt and the other clauses.
RelocRest(s, vs, r) ==
    Follow(s, vs,
           RelocAllOf(s.ca, r, LET on == Only(s.trail, {p \in ToSet(s.trail) : VarOf(p) \in vs})
                               IN  [i \in DOMAIN on |-> ReasonOf(s, on[i])]
                                   \o s.learnts \o s.clauses))

RelocWatched(s, r) ==
    RelocRest([s EXCEPT !.learnts = Live(s, @), !.clauses = Live(s, @)], KeptReasons(s, r), r)

\* Solver::relocAll: the watchers come first.
RelocAll(s, r) ==
    LET t == [s EXCEPT !.watches = CleanAll(@, WatcherDeleted(s))]
    IN  RelocWatched(t, RelocAllOf(t.ca, r, Watching(t)))

GarbageCollect(s) ==
    LET m == SimpRelocAll(s, NoReloc(s.ca.extra)) IN RelocAll(m.s, m.r)

CheckGarbage(s, gf) ==
    IF Exceeds(s.ca.wasted, Times(s.ca.size, gf)) THEN GarbageCollect(s) ELSE s

-------------------------------------------------------------------------------
(* The clause database.                                                        *)

\* What addClause_ stores: no false literal, no duplicate, sorted.
Pruned(s, ps) == Only(Keys(2 * s.nextVar), {p \in ToSet(ps) : Value(s, p) # LFalse})

TriviallyTrue(s, ps) ==
    Satisfied(s, ps) \/ \E p \in ToSet(ps) : Value(s, p) = LUndef /\ Contains(ps, Neg(p))

AddPruned(s, lits) ==
    CASE Len(lits) = 0 -> [s EXCEPT !.ok = FALSE]
      [] Len(lits) = 1 -> AssertUnit(s, lits[1])
      [] OTHER -> AttachClause([s EXCEPT !.ca = AllocClause(@, lits, FALSE),
                                         !.clauses = Append(@, s.ca.size)], s.ca.size)

\* Solver::addClause_; the value it returns is the new ok.
CoreAddClause(s, ps) ==
    IF ~s.ok \/ TriviallyTrue(s, ps) THEN s ELSE AddPruned(s, Pruned(s, ps))

CoreReleaseVar(s, p) ==
    IF Value(s, p) # LUndef THEN s
    ELSE [CoreAddClause(s, <<p>>) EXCEPT !.releasedVars = Append(@, VarOf(p))]

\* Trims the false literals beyond the two watched ones, each replaced by the
\* last literal of the clause.  A step looks at literal k.
TrimAt(s, lits, k) ==
    IF k > Len(lits) THEN [lits |-> lits, k |-> k]
    ELSE IF Value(s, lits[k]) # LFalse THEN [lits |-> lits, k |-> k + 1]
    ELSE [lits |-> Front([lits EXCEPT ![k] = Last(lits)]), k |-> k]

Trim(s, lits) ==
    LET trimmed[i \in 0 .. Len(lits)] ==
          IF i = 0 THEN [lits |-> lits, k |-> 3]
          ELSE TrimAt(s, trimmed[i - 1].lits, trimmed[i - 1].k)
    IN  trimmed[Len(lits)].lits

\* removeSatisfied(cs): the object, and the clauses that stay in cs.
RemoveIfSatisfied(acc, cr) ==
    IF Satisfied(acc.s, Lits(acc.s, cr))
    THEN [s |-> RemoveClause(acc.s, cr), kept |-> acc.kept]
    ELSE [s |-> [acc.s EXCEPT !.ca.at[cr].lits = Trim(acc.s, @)],
          kept |-> Append(acc.kept, cr)]

RemoveSatisfied(s0, cs) ==
    LET after[i \in 0 .. Len(cs)] ==
          IF i = 0 THEN [s |-> s0, kept |-> <<>>] ELSE RemoveIfSatisfied(after[i - 1], cs[i])
    IN  after[Len(cs)]

\* Released variables leave the trail and become reusable.
Recycle(s) ==
    LET trail == Only(s.trail, {p \in ToSet(s.trail) : VarOf(p) \notin ToSet(s.releasedVars)})
    IN  [s EXCEPT !.trail = trail, !.qhead = Len(trail),
                  !.freeVars = @ \o s.releasedVars, !.releasedVars = <<>>]

WithLearnts(a) == [a.s EXCEPT !.learnts = a.kept]
WithClauses(b) == [b.s EXCEPT !.clauses = b.kept]

CleanOriginals(s) ==
    IF s.removeSatisfied THEN Recycle(WithClauses(RemoveSatisfied(s, s.clauses))) ELSE s

CleanClauses(s) == CleanOriginals(WithLearnts(RemoveSatisfied(s, s.learnts)))

\* The next clean-up waits for a new fact and for as many propagations as literals.
Simplified(s) == [s EXCEPT !.simpAssigns = NAssigns(s), !.simpProps = s.literals]

SimplifyPropagated(s, confl) ==
    IF confl # CRefUndef THEN [s EXCEPT !.ok = FALSE]
    ELSE IF NAssigns(s) = s.simpAssigns \/ s.simpProps > 0 THEN s
    ELSE Simplified(RebuildOrderHeap(CheckGarbage(CleanClauses(s), s.opt.garbageFrac)))

Simplify(s) ==
    IF ~s.ok THEN s ELSE LET r == Propagate(s) IN SimplifyPropagated(r.s, r.confl)

LongLearnts(s) == {cr \in ToSet(s.learnts) : Len(Lits(s, cr)) > 2}

\* Mutant of Reducible: the reason of an implied literal may go as well.
EvenLocked(s) ==
    {R \in SUBSET LongLearnts(s) :
        Cardinality(R) >= Min({Len(s.learnts) \div 2, Cardinality(LongLearnts(s))})}

\* What reduceDB may remove: activities put any half of the learnt clauses that
\* prefers long ones first, and let any other long clause fall below extra_lim.
Reducible(s) ==
    {{cr \in R : ~Locked(s, cr)} :
        R \in {Q \in SUBSET LongLearnts(s) :
                  Cardinality(Q) >= Min({Len(s.learnts) \div 2, Cardinality(LongLearnts(s))})}}

RemoveVictims(s0, victims) ==
    LET after[i \in 0 .. Len(s0.learnts)] ==
          IF i = 0 THEN s0
          ELSE IF s0.learnts[i] \in victims THEN RemoveClause(after[i - 1], s0.learnts[i])
          ELSE after[i - 1]
    IN  after[Len(s0.learnts)]

DropVictims(s, victims) == [s EXCEPT !.learnts = Only(@, ToSet(@) \ victims)]

ReduceDB(s, victims) ==
    CheckGarbage(DropVictims(RemoveVictims(s, victims), victims), s.opt.garbageFrac)

-------------------------------------------------------------------------------
(* Conflict analysis.                                                          *)

\* Resolves backwards along the trail to the first unique implication point: seen
\* are the variables to resolve on, lower the literals below the conflict level,
\* lits those of the next clause.
NewLits(s, lits, seen) == {q \in ToSet(lits) : VarOf(q) \notin seen /\ LevelOf(s, q) > 0}

LowerLits(s, lits, seen) ==
    Only(lits, {q \in NewLits(s, lits, seen) : LevelOf(s, q) < DecisionLevel(s)})

\* The literals of a clause are taken in.
TakeIn(s, acc, lits) ==
    [acc EXCEPT !.seen = @ \union {VarOf(q) : q \in NewLits(s, lits, acc.seen)},
                !.lower = @ \o LowerLits(s, lits, acc.seen)]

\* Literal p of the trail: resolved on, or the unique implication point if no other
\* variable of the conflict level is left.
ResolveOn(s, acc, p) ==
    LET rest == [acc EXCEPT !.seen = @ \ {VarOf(p)}]
    IN  IF acc.uip # LitUndef \/ VarOf(p) \notin acc.seen THEN acc
        ELSE IF \E v \in rest.seen : s.level[v] >= DecisionLevel(s)
        THEN TakeIn(s, rest, Tail(Lits(s, ReasonOf(s, p))))
        ELSE [acc EXCEPT !.uip = p]

\* The last n literals of the trail, from the end.
ResolveFrom(s, acc) ==
    LET n == Len(s.trail)
        resolved[i \in 0 .. n] ==
          IF i = 0 THEN acc ELSE ResolveOn(s, resolved[i - 1], s.trail[n + 1 - i])
    IN  resolved[n]

LearntOf(acc) == <<Neg(acc.uip)>> \o acc.lower

ResolveToUIP(s, lits) ==
    LearntOf(ResolveFrom(s, TakeIn(s, [seen |-> {}, lower |-> <<>>, uip |-> LitUndef], lits)))

\* The variables whose literals are redundant in a clause over the variables source:
\* those that the literals of source and the root already imply, in the order of
\* the trail.
Redundant(s, source) ==
    LET implied(p, known) ==
          /\ ReasonOf(s, p) # CRefUndef
          /\ \A l \in ToSet(Tail(Lits(s, ReasonOf(s, p)))) :
                LevelOf(s, l) = 0 \/ VarOf(l) \in source \union known
        known[i \in 0 .. Len(s.trail)] ==
          IF i = 0 THEN {}
          ELSE known[i - 1] \union {VarOf(p) : p \in {q \in {s.trail[i]} : implied(q, known[i - 1])}}
    IN  known[Len(s.trail)]

\* ccmin-mode 1: every other literal of the reason is in the clause or at level 0.
LocallyRedundant(s, p, source) ==
    /\ ReasonOf(s, p) # CRefUndef
    /\ \A l \in ToSet(Tail(Lits(s, ReasonOf(s, p)))) :
          LevelOf(s, l) = 0 \/ VarOf(l) \in source

Minimize(s, learnt) ==
    LET source == VarsOf(Tail(learnt))
        redundant == Redundant(s, source)
        drop == CASE s.opt.ccmin = 2 -> {q \in ToSet(Tail(learnt)) : VarOf(q) \in redundant}
                  [] s.opt.ccmin = 1 -> {q \in ToSet(Tail(learnt)) : LocallyRedundant(s, q, source)}
                  [] OTHER -> {}
    IN  <<learnt[1]>> \o Only(Tail(learnt), ToSet(Tail(learnt)) \ drop)

\* The learnt clause, its second literal the first of the highest remaining level,
\* and the level to jump back to.
Asserting(s, q) ==
    LET higher(i, j) == LevelOf(s, q[i]) > LevelOf(s, q[j])
        top == CHOOSE i \in 2 .. Len(q) : \A j \in 2 .. Len(q) \ {i} :
                  higher(i, j) \/ (i < j /\ ~higher(j, i))
    IN  IF Len(q) = 1 THEN [learnt |-> q, btlevel |-> 0]
        ELSE [learnt |-> Swap(q, 2, top), btlevel |-> LevelOf(s, q[top])]

Analyze(s, confl) == Asserting(s, Minimize(s, ResolveToUIP(s, Lits(s, confl))))

\* The assumptions, negated, that the seen variables were derived from.
FinalOn(s, acc, p) ==
    LET cr == ReasonOf(s, p)
        above == {q \in ToSet(Tail(Lits(s, cr))) : LevelOf(s, q) > 0}
    IN  IF VarOf(p) \notin acc.seen THEN acc
        ELSE IF cr = CRefUndef THEN [acc EXCEPT !.conflict = @ \union {Neg(p)}]
        ELSE [acc EXCEPT !.seen = @ \union {VarOf(q) : q \in above}]

\* Down the trail to the first decision.
FinalFrom(s, p) ==
    LET n == Len(s.trail)
        found[i \in 0 .. n - s.trailLim[1]] ==
          IF i = 0 THEN [seen |-> {VarOf(p)}, conflict |-> {p}]
          ELSE FinalOn(s, found[i - 1], s.trail[n + 1 - i])
    IN  found[n - s.trailLim[1]].conflict

AnalyzeFinal(s, p) == IF DecisionLevel(s) = 0 THEN {p} ELSE FinalFrom(s, p)
===============================================================================
