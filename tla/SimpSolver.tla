------------------------------ MODULE SimpSolver ------------------------------
(* minisat/simp/SimpSolver.{h,cc}: the solver with subsumption, asymmetric     *)
(* branching and variable elimination.  The object is a Solver record with     *)
(* more fields.  A step that finds a contradiction leaves ok false, which is   *)
(* what every caller up to eliminate() does with the FALSE it gets back.       *)
EXTENDS Solver

NewSimpSolver(opt) ==
    [occurs |-> EmptyOccLists, nOcc |-> <<>>, elimHeap |-> {}, queue |-> <<>>,
     touched |-> {}, frozen |-> {}, frozenVars |-> <<>>, eliminated |-> {},
     elimClauses |-> <<>>, bwdsubAssigns |-> 0, tmpUnit |-> 0, maxSimpVar |-> -1]
    @@ [NewSolver(opt) EXCEPT !.useSimp = TRUE, !.removeSatisfied = FALSE,
                              !.ca = AllocClause(EmptyRegion(TRUE), <<LitUndef>>, FALSE)]

ClauseDeleted(s) == {cr \in Listed(s.occurs) : IsRemoved(s, cr)}

\* The variables eliminate() may take next: those of least cost.
Cost(s, v) == s.nOcc[MkLit(v, FALSE)] * s.nOcc[MkLit(v, TRUE)]
Cheapest(s) == {v \in s.elimHeap : \A w \in s.elimHeap : Cost(s, v) <= Cost(s, w)}

UpdateElimHeap(s, v) ==
    IF v \in s.frozen \/ v \in s.eliminated \/ s.assigns[v] # LUndef THEN s
    ELSE [s EXCEPT !.elimHeap = @ \union {v}]

SetFrozen(s, v, b) ==
    IF b THEN [s EXCEPT !.frozen = @ \union {v}]
    ELSE LET t == [s EXCEPT !.frozen = @ \ {v}]
         IN  IF s.useSimp THEN UpdateElimHeap(t, v) ELSE t

FreezeVar(s, v) ==
    IF v \in s.frozen THEN s
    ELSE [s EXCEPT !.frozen = @ \union {v}, !.frozenVars = Append(@, v)]

Thaw(s) ==
    [FoldLeft(LAMBDA x, v : SetFrozen(x, v, FALSE), s, s.frozenVars) EXCEPT !.frozenVars = <<>>]

SimpNewVar(s, upol, dvar) ==
    LET v == FreshVar(s)
        t == [NewVar(s, upol, dvar) EXCEPT !.frozen = @ \ {v}, !.eliminated = @ \ {v}]
    IN  IF ~s.useSimp THEN t
        ELSE [t EXCEPT !.nOcc = (2 * v :> 0) @@ (2 * v + 1 :> 0) @@ @,
                       !.occurs = InitOcc(@, v), !.touched = @ \ {v},
                       !.elimHeap = @ \union {v}]

\* Outside the solver only variables newer than the last elimination are reused.
SimpReleaseVar(s, p) ==
    IF ~s.useSimp /\ VarOf(p) >= s.maxSimpVar THEN CoreReleaseVar(s, p)
    ELSE CoreAddClause(s, <<p>>)

-------------------------------------------------------------------------------
(* Adding, removing and strengthening clauses.                                 *)

\* implied(): the negated literals are enqueued, up to one that became true.
NegateNext(e, p) ==
    CASE e.holds \/ Value(e.s, p) = LFalse -> e
      [] ~e.holds /\ Value(e.s, p) = LTrue -> [e EXCEPT !.holds = TRUE]
      [] OTHER -> [e EXCEPT !.s = UncheckedEnqueue(@, Neg(p), CRefUndef)]

EnqueueNegated(s, lits) ==
    LET after[i \in 0 .. Len(lits)] ==
          IF i = 0 THEN [s |-> s, holds |-> FALSE] ELSE NegateNext(after[i - 1], lits[i])
    IN  after[Len(lits)]

ImpliedBy(e) ==
    IF e.holds THEN [s |-> CancelUntil(e.s, 0), holds |-> TRUE]
    ELSE LET r == Propagate(e.s) IN [s |-> CancelUntil(r.s, 0), holds |-> r.confl # CRefUndef]

Implied(s, lits) == ImpliedBy(EnqueueNegated(NewDecisionLevel(s), lits))

\* Mutant of Occurring: a new clause is not entered in the occurrence lists.
OnlyQueued(s, cr) == [s EXCEPT !.queue = Append(@, cr), !.touched = @ \union VarsOf(Lits(s, cr))]

Occurring(s, cr) ==
    LET lits == Lits(s, cr)
    IN  [s EXCEPT !.queue = Append(@, cr), !.touched = @ \union VarsOf(lits),
                  !.nOcc = [p \in DOMAIN @ |-> IF Contains(lits, p) THEN @[p] + 1 ELSE @[p]],
                  !.occurs.occs = [v \in DOMAIN @ |-> IF v \in VarsOf(lits)
                                                      THEN Append(@[v], cr) ELSE @[v]]]

\* t: the object after Solver::addClause_.
EnterIfStored(s, t) ==
    IF t.ok /\ s.useSimp /\ Len(t.clauses) = Len(s.clauses) + 1
    THEN Occurring(t, Last(t.clauses)) ELSE t

AddUnlessImplied(i, ps) ==
    IF i.holds THEN i.s ELSE EnterIfStored(i.s, CoreAddClause(i.s, ps))

SimpAddClause(s, ps) ==
    AddUnlessImplied(IF s.opt.rcheck THEN Implied(s, ps) ELSE [s |-> s, holds |-> FALSE], ps)

\* The n_occ and elim_heap part of removeClause, for every literal in lits.
Uncount(s, lits) ==
    FoldLeft(LAMBDA x, p : UpdateElimHeap([x EXCEPT !.nOcc[p] = @ - 1], VarOf(p)), s, lits)

SimpRemoveClause(s, cr) ==
    RemoveClause(IF ~s.useSimp THEN s
                 ELSE [Uncount(s, Lits(s, cr)) EXCEPT
                         !.occurs = Smudge(@, VarsOf(Lits(s, cr)))], cr)

Enqueue(s, p) ==
    CASE Value(s, p) = LUndef -> AssertUnit(s, p)
      [] Value(s, p) = LTrue  -> OkUnlessConflict(Propagate(s))
      [] OTHER                -> [s EXCEPT !.ok = FALSE]

CutLit(s, cr, l) == [s EXCEPT !.ca.at[cr] = Strengthen(@, l)]
EnqueueOnly(s, cr) == Enqueue(s, Lits(s, cr)[1])

StrengthenClause(s, cr, l) ==
    LET t == [s EXCEPT !.queue = Append(@, cr)]
        longer == [AttachClause(CutLit(DetachClause(t, cr, TRUE), cr, l), cr) EXCEPT
                      !.occurs.occs[VarOf(l)] = RemoveFirst(@, cr)]
    IN  IF Len(Lits(s, cr)) = 2 THEN EnqueueOnly(CutLit(SimpRemoveClause(t, cr), cr, l), cr)
        ELSE Uncount(longer, <<l>>)

-------------------------------------------------------------------------------
(* Backward subsumption.                                                       *)

\* Every clause of a touched variable enters the queue once.
GatherTouchedClauses(s) ==
    LET cleaned == FoldLeft(LAMBDA ol, v : LookupOcc(ol, v, ClauseDeleted(s)),
                            s.occurs, SetToSortSeq(s.touched, <))
        crs == Concat(cleaned.occs, SetToSortSeq(s.touched, <))
        add(q, cr) == IF Contains(q, cr) \/ s.ca.at[cr].mark # 0 THEN q ELSE Append(q, cr)
    IN  [s EXCEPT !.occurs = cleaned, !.touched = {}, !.queue = FoldLeft(add, @, crs)]

\* The first variable of the clause with the shortest occurrence list.
BestVar(s, lits) ==
    LET size(i) == Len(s.occurs.occs[VarOf(lits[i])])
    IN  VarOf(lits[Min({i \in DOMAIN lits : \A j \in DOMAIN lits : size(i) <= size(j)})])

\* Whether clause d in the list may be compared with cr.
Comparable(s, cr, d) ==
    /\ s.ca.at[d].mark = 0 /\ d # cr
    /\ s.opt.subsumptionLim = -1 \/ Len(Lits(s, d)) < s.opt.subsumptionLim

\* What the comparison with d does: l is what subsumes() answered.
UseSubsumption(s, d, l) ==
    CASE l = LitError -> s
      [] l = LitUndef -> SimpRemoveClause(s, d)
      [] OTHER        -> StrengthenClause(s, d, Neg(l))

\* Clause cr and position j of the occurrence list of best: the object and the
\* next position.
ScanAt(s, cr, best, j) ==
    LET d == s.occurs.occs[best][j]
        l == IF Comparable(s, cr, d) THEN Subsumes(s.ca.at[cr], s.ca.at[d]) ELSE LitError
    IN  IF ~s.ok \/ s.ca.at[cr].mark # 0 \/ j > Len(s.occurs.occs[best]) THEN [s |-> s, j |-> j]
        ELSE [s |-> UseSubsumption(s, d, l), j |-> IF l >= 0 /\ VarOf(l) = best THEN j ELSE j + 1]

\* One pass of cr over the list: a step moves on, shortens the list or removes the
\* clause it stays at.
ScanCandidates(s, cr, best) ==
    LET n == 2 * Len(s.occurs.occs[best])
        after[i \in 0 .. n] ==
          IF i = 0 THEN [s |-> s, j |-> 1] ELSE ScanAt(after[i - 1].s, cr, best, after[i - 1].j)
    IN  after[n].s

\* A new top-level assignment is checked as the temporary unit clause.
QueueUnit(s) ==
    LET lits == <<s.trail[s.bwdsubAssigns + 1]>>
    IN  [s EXCEPT !.bwdsubAssigns = @ + 1, !.queue = <<s.tmpUnit>>,
                  !.ca.at[s.tmpUnit].lits = lits,
                  !.ca.at[s.tmpUnit].abs = CalcAbstraction(lits)]

\* backwardSubsumptionCheck has nothing left to do.
CheckDone(s) == s.queue = <<>> /\ s.bwdsubAssigns >= Len(s.trail)

\* What it leaves when it notices an interrupt.
DropQueue(s) == [s EXCEPT !.queue = <<>>, !.bwdsubAssigns = Len(s.trail)]

ScanFrom(s, cr, best) ==
    ScanCandidates([s EXCEPT !.occurs = LookupOcc(@, best, ClauseDeleted(s))], cr, best)

\* Mutant of CheckHead: the clause stays at the head of the queue.
CheckHeadAgain(s) ==
    LET cr == Head(s.queue) IN
    IF s.ca.at[cr].mark # 0 THEN s ELSE ScanFrom(s, cr, BestVar(s, Lits(s, cr)))

CheckHead(s) ==
    LET cr == Head(s.queue)
        popped == [s EXCEPT !.queue = Tail(@)]
    IN  IF s.ca.at[cr].mark # 0 THEN popped ELSE ScanFrom(popped, cr, BestVar(s, Lits(s, cr)))

\* One iteration of its loop.
CheckRound(s) == CheckHead(IF s.queue = <<>> THEN QueueUnit(s) ELSE s)

-------------------------------------------------------------------------------
(* Asymmetric branching.                                                       *)

\* The negations of the unassigned literals of lits other than v's are enqueued.
EnqueueOther(s, p, v) ==
    IF VarOf(p) = v \/ Value(s, p) = LFalse THEN s ELSE UncheckedEnqueue(s, Neg(p), CRefUndef)

EnqueueOthers(s, lits, v) ==
    LET after[i \in 0 .. Len(lits)] ==
          IF i = 0 THEN s ELSE EnqueueOther(after[i - 1], lits[i], v)
    IN  after[Len(lits)]

\* The literal asymm deletes: the last one that is v's or already false.
AsymmLit(s, lits, v) ==
    SelectLastInSeq(lits, LAMBDA p : VarOf(p) = v \/ Value(s, p) = LFalse)

StrengthenIfConflict(r, cr, l) ==
    IF r.confl = CRefUndef THEN CancelUntil(r.s, 0) ELSE StrengthenClause(CancelUntil(r.s, 0), cr, l)

Asymm(s, v, cr) ==
    LET lits == Lits(s, cr)
    IN  IF s.ca.at[cr].mark # 0 \/ Satisfied(s, lits) THEN s
        ELSE StrengthenIfConflict(Propagate(EnqueueOthers(NewDecisionLevel(s), lits, v)),
                                  cr, lits[AsymmLit(s, lits, v)])

AsymmAt(s, v, i) ==
    IF ~s.ok \/ i > Len(s.occurs.occs[v]) THEN s ELSE Asymm(s, v, s.occurs.occs[v][i])

AsymmClauses(s, v) ==
    LET after[i \in 0 .. Len(s.occurs.occs[v])] ==
          IF i = 0 THEN s ELSE AsymmAt(after[i - 1], v, i)
    IN  after[Len(s.occurs.occs[v])]

\* asymmVar, up to the check it ends with.
AsymmVar(s, v) ==
    LET t == [s EXCEPT !.occurs = LookupOcc(@, v, ClauseDeleted(s))]
    IN  IF s.assigns[v] # LUndef THEN t ELSE AsymmClauses(t, v)

-------------------------------------------------------------------------------
(* Variable elimination.                                                       *)

\* merge(): the resolvent of two clauses on v, unless it is always satisfied.
Tautological(ps, qs, v) ==
    \E p \in ToSet(ps) : VarOf(p) # v /\ Contains(qs, Neg(p))

\* Mutant of Resolvent: the literals both clauses have are kept only once, from
\* the first, and the second clause's own are lost.
HalfResolvent(ps, qs, v) == SelectSeq(ps, LAMBDA p : VarOf(p) # v)

Resolvent(ps, qs, v) ==
    LET large == IF Len(ps) < Len(qs) THEN qs ELSE ps
        small == IF Len(ps) < Len(qs) THEN ps ELSE qs
    IN  SelectSeq(small, LAMBDA p : VarOf(p) # v /\ ~Contains(large, p))
        \o SelectSeq(large, LAMBDA p : VarOf(p) # v)

\* All pairs of a clause with v and one with ~v that have a resolvent.
ResolventsOf(s, pos, neg, v) ==
    LET pairs == FlattenSeq([i \in DOMAIN pos |-> [j \in DOMAIN neg |->
                                <<Lits(s, pos[i]), Lits(s, neg[j])>>]])
        useful == SelectSeq(pairs, LAMBDA x : ~Tautological(x[1], x[2], v))
    IN  [k \in DOMAIN useful |-> Resolvent(useful[k][1], useful[k][2], v)]

\* mkElimClause: the clause with v's literal moved to the front.
ElimClause(lits, v) == Swap(lits, 1, SelectInSeq(lits, LAMBDA p : VarOf(p) = v))

\* Mutant of StoredFor: the smaller side is stored, with the wrong default.
WrongDefault(s, pos, neg, v) ==
    IF Len(pos) > Len(neg)
    THEN [i \in DOMAIN neg |-> ElimClause(Lits(s, neg[i]), v)] \o << <<MkLit(v, TRUE)>> >>
    ELSE [i \in DOMAIN pos |-> ElimClause(Lits(s, pos[i]), v)] \o << <<MkLit(v, FALSE)>> >>

\* What extendModel needs of v: the smaller side and the opposite default.
StoredFor(s, pos, neg, v) ==
    IF Len(pos) > Len(neg)
    THEN [i \in DOMAIN neg |-> ElimClause(Lits(s, neg[i]), v)] \o << <<MkLit(v, FALSE)>> >>
    ELSE [i \in DOMAIN pos |-> ElimClause(Lits(s, pos[i]), v)] \o << <<MkLit(v, TRUE)>> >>

\* The resolvents are added until one makes the solver contradictory.
AddUntilContradiction(s, lits) == IF s.ok THEN SimpAddClause(s, lits) ELSE s

TooMany(s, resolvents, n) ==
    \/ Len(resolvents) > n + s.opt.grow
    \/ s.opt.clauseLim # -1 /\ \E i \in DOMAIN resolvents : Len(resolvents[i]) > s.opt.clauseLim

\* The clauses of v make way for the resolvents.
ForgetOccs(s, v) == IF s.ok THEN [s EXCEPT !.occurs.occs[v] = <<>>] ELSE s

Replace(s, v, cls, resolvents) ==
    ForgetOccs(FoldLeft(AddUntilContradiction, FoldLeft(SimpRemoveClause, s, cls), resolvents), v)

EliminateBy(s, v, pos, neg, resolvents) ==
    IF TooMany(s, resolvents, Len(s.occurs.occs[v])) THEN s
    ELSE Replace([SetDecisionVar(s, v, FALSE) EXCEPT
                     !.eliminated = @ \union {v},
                     !.elimClauses = @ \o StoredFor(s, pos, neg, v)],
                 v, s.occurs.occs[v], resolvents)

EliminateSplit(s, v, pos, neg) == EliminateBy(s, v, pos, neg, ResolventsOf(s, pos, neg, v))

EliminateLooked(s, v) ==
    LET has(cr) == Contains(Lits(s, cr), MkLit(v, FALSE))
    IN  EliminateSplit(s, v, SelectSeq(s.occurs.occs[v], has),
                       SelectSeq(s.occurs.occs[v], LAMBDA cr : ~has(cr)))

\* eliminateVar, up to the check it ends with.
EliminateVar(s, v) ==
    EliminateLooked([s EXCEPT !.occurs = LookupOcc(@, v, ClauseDeleted(s))], v)

\* substitute(v, x): every occurrence of v becomes x.
SubstituteIn(lits, v, x) ==
    [i \in DOMAIN lits |-> IF VarOf(lits[i]) # v THEN lits[i]
                           ELSE IF Sign(lits[i]) THEN Neg(x) ELSE x]

SubstituteAll(s, v, x) ==
    FoldLeft(LAMBDA t, cr : IF ~t.ok THEN t
                            ELSE SimpAddClause(SimpRemoveClause(t, cr), SubstituteIn(Lits(t, cr), v, x)),
             s, s.occurs.occs[v])

Substitute(s, v, x) ==
    IF ~s.ok THEN s
    ELSE SubstituteAll([SetDecisionVar(s, v, FALSE) EXCEPT
                           !.eliminated = @ \union {v},
                           !.occurs = LookupOcc(@, v, ClauseDeleted(s))], v, x)

\* extendModel: from the last stored clause to the first.
ExtendModel(s) ==
    LET holds(m, p) == LXor(m[VarOf(p)], Sign(p)) # LFalse
        fix(q, m) == IF \E i \in 2 .. Len(q) : holds(m, q[i]) THEN m
                     ELSE [m EXCEPT ![VarOf(q[1])] = ToLbool(~Sign(q[1]))]
    IN  [s EXCEPT !.model = FoldRight(fix, s.elimClauses, @)]

-------------------------------------------------------------------------------
(* The parts of eliminate().                                                   *)

MoreToEliminate(s) ==
    s.touched # {} \/ s.bwdsubAssigns < Len(s.trail) \/ s.elimHeap # {}

\* A variable from the heap that is worth a try, and one that may be eliminated.
Skipped(s, v)    == v \in s.eliminated \/ s.assigns[v] # LUndef
Eliminable(s, v) == s.opt.elim /\ s.assigns[v] = LUndef /\ v \notin s.frozen

\* The cleanup part; turning elimination off frees its data structures.
EliminateCleanup(s, turnOff) ==
    IF ~turnOff THEN CheckGarbage(s, s.opt.garbageFrac)
    ELSE GarbageCollect(RebuildOrderHeap(
            [s EXCEPT !.touched = {}, !.occurs = EmptyOccLists, !.nOcc = <<>>,
                      !.elimHeap = {}, !.queue = <<>>, !.useSimp = FALSE,
                      !.removeSatisfied = TRUE, !.ca.extra = FALSE,
                      !.maxSimpVar = s.nextVar]))
===============================================================================
