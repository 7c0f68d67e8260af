---------------------------- MODULE Solver_proofs -----------------------------
(* What the methods of Solver do to an object, whatever its size and its       *)
(* clauses: each leaves it good - its types, its watch lists, its trail and    *)
(* the reasons on it - so that no sequence of them can leave a watcher or a    *)
(* reason behind that does not fit its clause.  Minisat_proofs rests on these. *)
EXTENDS Solver, Recursion_proofs, SequenceTheorems

-------------------------------------------------------------------------------
(* What a solver object satisfies.                                             *)

LitsOf(n) == 0 .. 2 * n - 1
VarsUpTo(n) == 0 .. n - 1
Lbools == {LTrue, LFalse, LUndef}

\* The value of a literal under an assignment.
Val(assigns, p) == LXor(assigns[VarOf(p)], Sign(p))

Distinct(q) == \A i, j \in DOMAIN q : q[i] = q[j] => i = j

\* The fields of a solver object that a Solver has.
Fields == {"opt", "ca", "clauses", "learnts", "watches", "trail", "trailLim", "qhead", "assigns",
           "reason", "level", "polarity", "userPol", "decision", "heap", "ok", "nextVar",
           "releasedVars", "freeVars", "simpAssigns", "simpProps", "numClauses", "literals",
           "model", "conflict", "assumptions", "maxLearnts", "adjustConfl", "adjustCnt",
           "confBudget", "propBudget", "interrupt", "removeSatisfied", "useSimp"}

\* A reference to a clause, or CRefUndef.
Refs == Int

IsObject(o) == o = [f \in DOMAIN o |-> o[f]] /\ Fields \subseteq DOMAIN o

Types(o) ==
    /\ o.nextVar \in Nat
    /\ o.assigns \in [VarsUpTo(o.nextVar) -> Lbools]
    /\ o.reason \in [VarsUpTo(o.nextVar) -> Refs]
    /\ o.level \in [VarsUpTo(o.nextVar) -> Nat]
    /\ o.trail \in Seq(LitsOf(o.nextVar)) /\ o.trailLim \in Seq(Nat) /\ o.qhead \in Nat
    /\ o.freeVars \in Seq(VarsUpTo(o.nextVar)) /\ o.releasedVars \in Seq(VarsUpTo(o.nextVar))
    /\ o.decision \subseteq VarsUpTo(o.nextVar)
    /\ o.ok \in BOOLEAN /\ o.useSimp = FALSE

\* A clause of the region: two literals at least, none twice.
LongLits(lits, n) == lits \in Seq(LitsOf(n)) /\ Len(lits) >= 2 /\ Distinct(lits)

IsClause(c, n) ==
    /\ c = [lits |-> c.lits, learnt |-> c.learnt, mark |-> c.mark, extra |-> c.extra, abs |-> c.abs]
    /\ LongLits(c.lits, n)

Clauses(at, n) == \A cr \in DOMAIN at : IsClause(at[cr], n)

IsRegion(ca) ==
    ca = [at |-> ca.at, size |-> ca.size, wasted |-> ca.wasted, extra |-> ca.extra]

Region(ca, n) ==
    /\ IsRegion(ca) /\ ca.size \in Nat
    /\ DOMAIN ca.at \subseteq 0 .. ca.size - 1 /\ Clauses(ca.at, n)

\* A watcher in the list of literal p: its clause was removed and the list is dirty,
\* or ~p is one of the first two literals of its clause.
Watches(p, c, dirty) ==
    IF c.mark = 1 THEN p \in dirty ELSE Neg(p) \in {c.lits[1], c.lits[2]}

WatchersIn(at) == [cref : DOMAIN at, blocker : Int]

\* A list of watchers: no clause twice that was not removed.
WatchList(p, q, dirty, at) ==
    /\ q \in Seq(WatchersIn(at))
    /\ \A i \in DOMAIN q : Watches(p, at[q[i].cref], dirty)
    /\ \A i, j \in DOMAIN q : q[i].cref = q[j].cref => i = j \/ at[q[i].cref].mark = 1

Lists(occs, dirty, at, n) == \A p \in LitsOf(n) : WatchList(p, occs[p], dirty, at)

IsOccLists(ws, n) ==
    /\ ws = [occs |-> ws.occs, dirty |-> ws.dirty] /\ ws.dirty \subseteq LitsOf(n)
    /\ ws.occs = [p \in LitsOf(n) |-> ws.occs[p]]

Limits(lim, n) ==
    /\ \A l \in DOMAIN lim : lim[l] <= n
    /\ \A k, l \in DOMAIN lim : k <= l => lim[k] <= lim[l]

\* Position i of the trail is of level L.
AtLevel(L, lim, i) == L \in 0 .. Len(lim) /\ \A l \in DOMAIN lim : lim[l] < i <=> l <= L

OnTrail(trail, v) == \E i \in DOMAIN trail : VarOf(trail[i]) = v

OnceOn(trail) == \A i, j \in DOMAIN trail : VarOf(trail[i]) = VarOf(trail[j]) => i = j

TrailRight(trail, lim, assigns, level) ==
    /\ \A i \in DOMAIN trail : /\ Val(assigns, trail[i]) = LTrue
                               /\ AtLevel(level[VarOf(trail[i])], lim, i)
    /\ OnceOn(trail)
    /\ \A v \in DOMAIN assigns : assigns[v] # LUndef => level[v] = 0 \/ OnTrail(trail, v)
    /\ Limits(lim, Len(trail))

\* Literal q was falsified before position i of the trail, or at the root.
FalseBefore(q, i, trail, level, assigns) ==
    /\ Val(assigns, q) = LFalse
    /\ level[VarOf(q)] = 0 \/ \E j \in 1 .. i - 1 : trail[j] = Neg(q)

\* cr is a clause whose first literal is p.
IsReason(cr, p, at) == cr \in DOMAIN at /\ at[cr].mark # 1 /\ at[cr].lits[1] = p

AllFalse(lits, i, trail, level, assigns) ==
    \A k \in 2 .. Len(lits) : FalseBefore(lits[k], i, trail, level, assigns)

\* Position i above the root: a decision if it is the first of a level, else implied.
InOrder(i, lim, trail, level, assigns, cr, at) ==
    level[VarOf(trail[i])] > 0 =>
      /\ cr = CRefUndef <=> i - 1 \in Range(lim)
      /\ cr # CRefUndef => AllFalse(at[cr].lits, i, trail, level, assigns)

Reasons(trail, lim, reason, level, assigns, at, strict) ==
    \A i \in DOMAIN trail :
      LET cr == reason[VarOf(trail[i])] IN
      /\ cr # CRefUndef => IsReason(cr, trail[i], at)
      /\ strict => InOrder(i, lim, trail, level, assigns, cr, at)

Free(freeVars, assigns, trail) ==
    /\ Distinct(freeVars)
    /\ \A k \in DOMAIN freeVars : assigns[freeVars[k]] # LUndef /\ ~OnTrail(trail, freeVars[k])

Released(releasedVars, freeVars, assigns, level) ==
    /\ Distinct(releasedVars)
    /\ \A k \in DOMAIN releasedVars : /\ assigns[releasedVars[k]] # LUndef
                                      /\ level[releasedVars[k]] = 0
                                      /\ releasedVars[k] \notin Range(freeVars)

\* Everything but the watch lists; strict: the trail is in order.
GoodBut(o, strict) ==
    /\ IsObject(o) /\ Types(o)
    /\ Region(o.ca, o.nextVar)
    /\ o.clauses \in Seq(DOMAIN o.ca.at) /\ o.learnts \in Seq(DOMAIN o.ca.at)
    /\ IsOccLists(o.watches, o.nextVar)
    /\ TrailRight(o.trail, o.trailLim, o.assigns, o.level)
    /\ Reasons(o.trail, o.trailLim, o.reason, o.level, o.assigns, o.ca.at, strict)
    /\ Free(o.freeVars, o.assigns, o.trail)
    /\ o.ok => Released(o.releasedVars, o.freeVars, o.assigns, o.level)

Watched(o) == Lists(o.watches.occs, o.watches.dirty, o.ca.at, o.nextVar)

Good(o, strict) == GoodBut(o, strict) /\ Watched(o)

\* Everything on the trail was propagated; everything below the last level was.
Propagated(o) == o.qhead = Len(o.trail)
LevelQueued(o) ==
    /\ o.qhead <= Len(o.trail)
    /\ \A l \in DOMAIN o.trailLim : o.trailLim[l] <= o.qhead

(* Literals: a variable, its two literals and their values.                    *)
LEMMA LitFacts ==
    ASSUME NEW n \in Nat, NEW p \in LitsOf(n)
    PROVE  /\ p \in Nat /\ VarOf(p) \in VarsUpTo(n) /\ Neg(p) \in LitsOf(n) /\ Neg(Neg(p)) = p
           /\ VarOf(Neg(p)) = VarOf(p) /\ Neg(p) # p
           /\ Sign(Neg(p)) <=> ~Sign(p)
<1>1. p \in Nat /\ VarOf(p) \in VarsUpTo(n) /\ Neg(p) \in LitsOf(n) /\ Neg(Neg(p)) = p
      /\ VarOf(Neg(p)) = VarOf(p) /\ Neg(p) # p
  BY DEF LitsOf, VarsUpTo, VarOf, Neg
<1>2. Sign(Neg(p)) <=> ~Sign(p)
  BY DEF LitsOf, Neg, Sign
<1> QED
  BY <1>1, <1>2

\* Two literals of one variable are equal or opposite.
LEMMA SameVar ==
    ASSUME NEW n \in Nat, NEW p \in LitsOf(n), NEW q \in LitsOf(n), VarOf(p) = VarOf(q)
    PROVE  q = p \/ q = Neg(p)
BY DEF LitsOf, Neg, VarOf

\* The literals of a variable.
LEMMA MkLitFacts ==
    ASSUME NEW n \in Nat, NEW v \in VarsUpTo(n), NEW b \in BOOLEAN
    PROVE  MkLit(v, b) \in LitsOf(n) /\ VarOf(MkLit(v, b)) = v
BY DEF LitsOf, VarsUpTo, MkLit, VarOf

\* A variable of fewer is one of more.
LEMMA LitsGrow ==
    ASSUME NEW n \in Nat, NEW m \in Nat, n <= m
    PROVE  LitsOf(n) \subseteq LitsOf(m) /\ VarsUpTo(n) \subseteq VarsUpTo(m)
BY DEF LitsOf, VarsUpTo

\* The value of a literal and of its negation (Solver.h:350-351).
LEMMA ValFacts ==
    ASSUME NEW n \in Nat, NEW assigns \in [VarsUpTo(n) -> Lbools], NEW p \in LitsOf(n)
    PROVE  /\ Val(assigns, p) \in Lbools
           /\ Val(assigns, p) = LUndef <=> assigns[VarOf(p)] = LUndef
           /\ Val(assigns, p) = LTrue <=> Val(assigns, Neg(p)) = LFalse
           /\ Val(assigns, p) = LFalse <=> Val(assigns, Neg(p)) = LTrue
<1>1. assigns[VarOf(p)] \in Lbools /\ VarOf(Neg(p)) = VarOf(p) /\ (Sign(Neg(p)) <=> ~Sign(p))
  BY LitFacts
<1> QED
  BY <1>1 DEF Val, LXor, Lbools, LTrue, LFalse, LUndef

\* The assignment after p was enqueued, and the levels.
Assigned(assigns, p) == [assigns EXCEPT ![VarOf(p)] = ToLbool(~Sign(p))]
LevelSet(level, p, L) == [level EXCEPT ![VarOf(p)] = L]

\* Assigning p makes it true and changes no other variable.
LEMMA ValAssigned ==
    ASSUME NEW n \in Nat, NEW assigns \in [VarsUpTo(n) -> Lbools], NEW p \in LitsOf(n)
    PROVE  /\ Assigned(assigns, p) \in [VarsUpTo(n) -> Lbools]
           /\ Val(Assigned(assigns, p), p) = LTrue
           /\ \A q \in LitsOf(n) :
                VarOf(q) # VarOf(p) => Val(Assigned(assigns, p), q) = Val(assigns, q)
           /\ \A v \in VarsUpTo(n) : v # VarOf(p) => Assigned(assigns, p)[v] = assigns[v]
           /\ Assigned(assigns, p)[VarOf(p)] # LUndef
<1> DEFINE new == Assigned(assigns, p)
<1>0. new = [assigns EXCEPT ![VarOf(p)] = ToLbool(~Sign(p))]
  BY DEF Assigned
<1> HIDE DEF new
<1>1. VarOf(p) \in VarsUpTo(n) /\ \A q \in LitsOf(n) : VarOf(q) \in VarsUpTo(n)
  BY LitFacts
<1>2. ToLbool(~Sign(p)) \in {LTrue, LFalse} /\ LXor(ToLbool(~Sign(p)), Sign(p)) = LTrue
  BY DEF ToLbool, LXor, LTrue, LFalse, LUndef
<1>3. new[VarOf(p)] = ToLbool(~Sign(p))
  BY <1>0, <1>1
<1>4. \A v \in VarsUpTo(n) : v # VarOf(p) => new[v] = assigns[v]
  BY <1>0, <1>1
<1>5. new \in [VarsUpTo(n) -> Lbools]
  BY <1>0, <1>1, <1>2 DEF Lbools
<1>6. new[VarOf(p)] # LUndef
  BY <1>2, <1>3 DEF LTrue, LFalse, LUndef
<1>7. Val(new, p) = LTrue
  BY <1>2, <1>3 DEF Val
<1>8. \A q \in LitsOf(n) : VarOf(q) # VarOf(p) => Val(new, q) = Val(assigns, q)
  BY <1>1, <1>4 DEF Val
<1> QED
  BY <1>4, <1>5, <1>6, <1>7, <1>8 DEF new

-------------------------------------------------------------------------------
(* Sequences and functions.                                                    *)

\* What a sequence keeps of another: members of the set, each from a position of
\* its own, in order; every member is kept.
LEMMA OnlyFacts ==
    ASSUME NEW X, NEW q \in Seq(X), NEW S
    PROVE  /\ Only(q, S) \in Seq(X)
           /\ Range(Only(q, S)) = Range(q) \intersect S
           /\ Len(Only(q, S)) <= Len(q)
           /\ \E at \in [DOMAIN Only(q, S) -> DOMAIN q] :
                /\ \A i \in DOMAIN Only(q, S) : Only(q, S)[i] = q[at[i]]
                /\ \A i, j \in DOMAIN Only(q, S) : i < j => at[i] < at[j]
<1> DEFINE n == Len(q)
           step == [k \in Nat |-> [r \in Seq(X) |-> IF k + 1 \in 1 .. n /\ q[k + 1] \in S
                                                    THEN Append(r, q[k + 1]) ELSE r]]
           kept[i \in 0 .. n] == IF i = 0 THEN <<>>
                                 ELSE IF q[i] \in S THEN Append(kept[i - 1], q[i]) ELSE kept[i - 1]
<1>1. n \in Nat /\ DOMAIN q = 1 .. n /\ \A i \in 1 .. n : q[i] \in X
  OBVIOUS
<1>2. step \in Steps(Seq(X)) /\ <<>> \in Seq(X)
  <2>1. ASSUME NEW k \in Nat, NEW r \in Seq(X)
        PROVE  (IF k + 1 \in 1 .. n /\ q[k + 1] \in S THEN Append(r, q[k + 1]) ELSE r) \in Seq(X)
    BY <1>1
  <2> QED
    BY <2>1 DEF Steps
<1>3. PICK g : RepeatsUpTo(g, n, Seq(X), <<>>, step)
  <2> HIDE DEF n, step
  <2> QED
    BY <1>1, <1>2, IterationUpTo
<1>4. kept = [i \in 0 .. n |-> IF i = 0 THEN <<>>
                               ELSE IF q[i] \in S THEN Append(kept[i - 1], q[i]) ELSE kept[i - 1]]
  <2>1. g = [i \in 0 .. n |-> IF i = 0 THEN <<>>
                              ELSE IF q[i] \in S THEN Append(g[i - 1], q[i]) ELSE g[i - 1]]
    <3>1. g \in [0 .. n -> Seq(X)] /\ g[0] = <<>>
      BY <1>3 DEF RepeatsUpTo
    <3>2. ASSUME NEW i \in 1 .. n
          PROVE  g[i] = IF q[i] \in S THEN Append(g[i - 1], q[i]) ELSE g[i - 1]
      <4>1. i - 1 \in 0 .. n /\ g[i] = step[i - 1][g[i - 1]]
        BY <1>3 DEF RepeatsUpTo
      <4>2. g[i - 1] \in Seq(X) /\ i - 1 \in Nat /\ (i - 1) + 1 = i
        BY <3>1, <4>1
      <4> QED
        BY <4>1, <4>2
    <3>3. \A i \in 0 .. n : i = 0 \/ i \in 1 .. n
      BY <1>1
    <3> QED
      BY <3>1, <3>2, <3>3
  <2>2. \E h : h = [i \in 0 .. n |-> IF i = 0 THEN <<>>
                              ELSE IF q[i] \in S THEN Append(h[i - 1], q[i]) ELSE h[i - 1]]
    BY <2>1
  <2>3. kept = CHOOSE h : h = [i \in 0 .. n |-> IF i = 0 THEN <<>>
                              ELSE IF q[i] \in S THEN Append(h[i - 1], q[i]) ELSE h[i - 1]]
    BY DEF kept
  <2> HIDE DEF kept
  <2> QED
    BY <2>2, <2>3, Zenon
<1>5. Only(q, S) = kept[n]
  BY DEF Only
<1> HIDE DEF kept
<1> DEFINE Right(i, r) ==
             /\ r \in Seq(X) /\ Len(r) <= i
             /\ Range(r) = {q[j] : j \in 1 .. i} \intersect S
             /\ \E at \in [DOMAIN r -> 1 .. i] :
                  /\ \A j \in DOMAIN r : r[j] = q[at[j]]
                  /\ \A j, k \in DOMAIN r : j < k => at[j] < at[k]
           G == {i \in Nat : i <= n => Right(i, kept[i])}
<1>6. 0 \in G
  <2>1. kept[0] = <<>>
    BY <1>1, <1>4
  <2>2. Right(0, <<>>)
    <3>1. 1 .. 0 = {} /\ DOMAIN <<>> = {} /\ <<>> \in Seq(X) /\ Len(<<>>) = 0
      OBVIOUS
    <3>2. [x \in {} |-> x] \in [DOMAIN <<>> -> 1 .. 0]
      BY <3>1
    <3>3. Range(<<>>) = {}
      BY <3>1 DEF Range
    <3>4. \E at \in [DOMAIN <<>> -> 1 .. 0] :
            /\ \A j \in DOMAIN <<>> : <<>>[j] = q[at[j]]
            /\ \A j, k \in DOMAIN <<>> : j < k => at[j] < at[k]
      BY <3>1, <3>2
    <3>5. {q[j] : j \in 1 .. 0} \intersect S = {}
      BY <3>1
    <3>6. <<>> \in Seq(X) /\ Len(<<>>) <= 0
      BY <3>1
    <3>7. Range(<<>>) = {q[j] : j \in 1 .. 0} \intersect S
      BY <3>3, <3>5
    <3> QED
      BY <3>4, <3>6, <3>7, Zenon
  <2> QED
    BY <2>1, <2>2
<1>7. ASSUME NEW i \in Nat, i \in G
      PROVE  i + 1 \in G
  <2> SUFFICES ASSUME i + 1 <= n
               PROVE  Right(i + 1, kept[i + 1])
    OBVIOUS
  <2> DEFINE r == kept[i]
             e == q[i + 1]
  <2>1. Right(i, r) /\ i + 1 \in 1 .. n /\ i \in 0 .. n /\ e \in X
    BY <1>1, <1>7
  <2>2. kept[i + 1] = IF e \in S THEN Append(r, e) ELSE r
    <3>1. i + 1 \in 0 .. n /\ i + 1 # 0 /\ (i + 1) - 1 = i
      BY <1>1, <2>1
    <3> QED
      BY <1>4, <3>1
  <2>3. {q[j] : j \in 1 .. i + 1} = {q[j] : j \in 1 .. i} \union {e}
    <3>1. 1 .. i + 1 = 1 .. i \union {i + 1}
      OBVIOUS
    <3> QED
      BY <3>1
  <2>4. CASE e \notin S
    <3>1. kept[i + 1] = r
      BY <2>2, <2>4
    <3>2. Range(r) = {q[j] : j \in 1 .. i + 1} \intersect S
      BY <2>1, <2>3, <2>4
    <3>3. PICK at \in [DOMAIN r -> 1 .. i] :
                  /\ \A j \in DOMAIN r : r[j] = q[at[j]]
                  /\ \A j, k \in DOMAIN r : j < k => at[j] < at[k]
      BY <2>1
    <3>4. at \in [DOMAIN r -> 1 .. i + 1]
      BY <3>3
    <3>5. r \in Seq(X) /\ Len(r) <= i + 1
      BY <2>1
    <3> QED
      BY <3>1, <3>2, <3>3, <3>4, <3>5
  <2>5. CASE e \in S
    <3> DEFINE t == Append(r, e)
    <3>0. r \in Seq(X) /\ Len(r) <= i /\ Len(r) \in Nat
      BY <2>1
    <3>1. kept[i + 1] = t /\ t \in Seq(X) /\ Len(t) = Len(r) + 1 /\ DOMAIN t = 1 .. Len(r) + 1
          /\ t[Len(r) + 1] = e /\ (\A j \in 1 .. Len(r) : t[j] = r[j]) /\ DOMAIN r = 1 .. Len(r)
      BY <2>1, <2>2, <2>5, <3>0
    <3>2. PICK at \in [DOMAIN r -> 1 .. i] :
                  /\ \A j \in DOMAIN r : r[j] = q[at[j]]
                  /\ \A j, k \in DOMAIN r : j < k => at[j] < at[k]
      BY <2>1
    <3> DEFINE new == [j \in DOMAIN t |-> IF j = Len(r) + 1 THEN i + 1 ELSE at[j]]
    <3> HIDE DEF t, r, e
    <3>3. new \in [DOMAIN t -> 1 .. i + 1]
      BY <3>0, <3>1, <3>2
    <3>4. \A j \in DOMAIN t : t[j] = q[new[j]]
      BY <3>0, <3>1, <3>2 DEF e
    <3>5. \A j, k \in DOMAIN t : j < k => new[j] < new[k]
      BY <3>0, <3>1, <3>2
    <3>6. Range(t) = Range(r) \union {e}
      BY <3>0, <3>1 DEF Range
    <3>7. Range(t) = {q[j] : j \in 1 .. i + 1} \intersect S
      BY <2>1, <2>3, <2>5, <3>6
    <3>8. Len(t) <= i + 1
      BY <3>0, <3>1
    <3> HIDE DEF new
    <3>9. Right(i + 1, t)
      BY <3>1, <3>3, <3>4, <3>5, <3>7, <3>8
    <3> QED
      BY <3>1, <3>9
  <2> QED
    BY <2>4, <2>5
<1>8. Right(n, kept[n])
  <2> HIDE DEF G, Right
  <2>1. Nat \subseteq G
    BY <1>6, <1>7, InductionOn
  <2> QED
    BY <1>1, <2>1 DEF G
<1>9. {q[j] : j \in 1 .. n} = Range(q)
  BY <1>1 DEF Range
<1> HIDE DEF n
<1> QED
  BY <1>1, <1>5, <1>8, <1>9

-------------------------------------------------------------------------------
(* Watch lists.                                                                *)

\* The clauses of a list of p are still watched by it.
StillWatched(p, q, dirty2, at, at2) ==
    \A i \in DOMAIN q : /\ Watches(p, at2[q[i].cref], dirty2)
                        /\ at[q[i].cref].mark = 1 => at2[q[i].cref].mark = 1

\* q2 has clauses of q, at the positions m, none of them twice.
TakenFrom(q2, q, m) ==
    /\ m \in [DOMAIN q2 -> DOMAIN q]
    /\ \A i \in DOMAIN q2 : q2[i].cref = q[m[i]].cref
    /\ \A i, j \in DOMAIN q2 : m[i] = m[j] => i = j

\* A list stays right when the clauses in it are still watched by it.
LEMMA ListKept ==
    ASSUME NEW p, NEW q, NEW dirty, NEW at, NEW dirty2, NEW at2,
           WatchList(p, q, dirty, at), q \in Seq(WatchersIn(at2)),
           StillWatched(p, q, dirty2, at, at2)
    PROVE  WatchList(p, q, dirty2, at2)
<1> USE DEF WatchList, StillWatched
<1>1. ASSUME NEW i \in DOMAIN q, NEW j \in DOMAIN q, q[i].cref = q[j].cref
      PROVE  i = j \/ at2[q[i].cref].mark = 1
  BY <1>1
<1> QED
  BY <1>1

\* A list of watchers in a region is one in a larger region.
LEMMA WatchersGrow ==
    ASSUME NEW at, NEW at2, DOMAIN at \subseteq DOMAIN at2, NEW q \in Seq(WatchersIn(at))
    PROVE  q \in Seq(WatchersIn(at2))
<1>1. WatchersIn(at) \subseteq WatchersIn(at2)
  BY DEF WatchersIn
<1> QED
  BY <1>1

\* WatcherSet taken from a list, none twice.
LEMMA ListShrunk ==
    ASSUME NEW p, NEW q, NEW dirty, NEW at, WatchList(p, q, dirty, at),
           NEW q2 \in Seq(WatchersIn(at)), NEW m, TakenFrom(q2, q, m)
    PROVE  WatchList(p, q2, dirty, at)
<1> USE DEF WatchList, TakenFrom
<1>1. ASSUME NEW i \in DOMAIN q2, NEW j \in DOMAIN q2, q2[i].cref = q2[j].cref
      PROVE  i = j \/ at[q2[i].cref].mark = 1
  <2>1. q[m[i]].cref = q[m[j]].cref /\ m[i] \in DOMAIN q /\ m[j] \in DOMAIN q
    BY <1>1
  <2>2. m[i] = m[j] \/ at[q[m[i]].cref].mark = 1
    BY <2>1
  <2> QED
    BY <2>2
<1>2. ASSUME NEW i \in DOMAIN q2
      PROVE  Watches(p, at[q2[i].cref], dirty)
  <2>1. m[i] \in DOMAIN q /\ q2[i].cref = q[m[i]].cref
    OBVIOUS
  <2> QED
    BY <2>1
<1> QED
  BY <1>1, <1>2

\* A clause that is not in the list is put at its end.
LEMMA ListPushed ==
    ASSUME NEW p, NEW q, NEW dirty, NEW at, WatchList(p, q, dirty, at),
           NEW w \in WatchersIn(at), Watches(p, at[w.cref], dirty),
           \A i \in DOMAIN q : q[i].cref # w.cref
    PROVE  WatchList(p, Append(q, w), dirty, at)
<1> DEFINE t == Append(q, w)
<1> USE DEF WatchList
<1>1. /\ t \in Seq(WatchersIn(at)) /\ DOMAIN t = 1 .. Len(q) + 1 /\ DOMAIN q = 1 .. Len(q)
      /\ Len(q) \in Nat /\ t[Len(q) + 1] = w /\ \A i \in 1 .. Len(q) : t[i] = q[i]
  OBVIOUS
<1>2. \A i \in DOMAIN t : i \in 1 .. Len(q) \/ i = Len(q) + 1
  BY <1>1
<1> HIDE DEF t
<1>3. ASSUME NEW i \in DOMAIN t
      PROVE  Watches(p, at[t[i].cref], dirty)
  BY <1>1, <1>2
<1>4. ASSUME NEW i \in DOMAIN t, NEW j \in DOMAIN t, t[i].cref = t[j].cref
      PROVE  i = j \/ at[t[i].cref].mark = 1
  BY <1>1, <1>2, <1>4
<1> QED
  BY <1>1, <1>3, <1>4 DEF t

\* Every list stays right when a clause keeps its mark and its watched literals.
LEMMA ListsKept ==
    ASSUME NEW occs, NEW dirty, NEW at, NEW n, Lists(occs, dirty, at, n),
           NEW cr \in DOMAIN at, NEW c2, c2.mark = at[cr].mark,
           {c2.lits[1], c2.lits[2]} = {at[cr].lits[1], at[cr].lits[2]},
           NEW at2, at2 = [at EXCEPT ![cr] = c2]
    PROVE  Lists(occs, dirty, at2, n)
<1> SUFFICES ASSUME NEW p \in LitsOf(n)
             PROVE  WatchList(p, occs[p], dirty, at2)
  BY DEF Lists
<1> DEFINE q == occs[p]
<1>1. WatchList(p, q, dirty, at)
  BY DEF Lists
<1> HIDE DEF q
<1>2. DOMAIN at2 = DOMAIN at /\ at2[cr] = c2 /\ \A d \in DOMAIN at : d # cr => at2[d] = at[d]
  OBVIOUS
<1>3. q \in Seq(WatchersIn(at2)) /\ q \in Seq(WatchersIn(at))
  BY <1>1, <1>2, WatchersGrow DEF WatchList
<1>4. \A i \in DOMAIN q : q[i].cref \in DOMAIN at
  <2>1. \A i \in DOMAIN q : q[i] \in WatchersIn(at)
    BY <1>3
  <2> QED
    BY <2>1 DEF WatchersIn
<1>5. ASSUME NEW i \in DOMAIN q
      PROVE  /\ Watches(p, at2[q[i].cref], dirty)
             /\ at[q[i].cref].mark = 1 => at2[q[i].cref].mark = 1
  <2>1. Watches(p, at[q[i].cref], dirty)
    BY <1>1 DEF WatchList
  <2>2. CASE q[i].cref = cr
    BY <2>1, <2>2, <1>2 DEF Watches
  <2>3. CASE q[i].cref # cr
    BY <2>1, <2>3, <1>2, <1>4
  <2> QED
    BY <2>2, <2>3
<1>6. WatchList(p, q, dirty, at2)
  <2>1. StillWatched(p, q, dirty, at, at2)
    BY <1>5 DEF StillWatched
  <2> QED
    BY <1>1, <1>3, <2>1, ListKept
<1> QED
  BY <1>6 DEF q

\* The list of p is replaced by one of the same clauses.
LEMMA ListsReplaced ==
    ASSUME NEW occs, NEW dirty, NEW at, NEW n, Lists(occs, dirty, at, n),
           NEW p \in LitsOf(n), NEW q2, WatchList(p, q2, dirty, at),
           occs = [r \in LitsOf(n) |-> occs[r]]
    PROVE  Lists([occs EXCEPT ![p] = q2], dirty, at, n)
<1> SUFFICES ASSUME NEW r \in LitsOf(n)
             PROVE  WatchList(r, [occs EXCEPT ![p] = q2][r], dirty, at)
  BY DEF Lists
<1>1. WatchList(r, occs[r], dirty, at)
  BY DEF Lists
<1>2. [occs EXCEPT ![p] = q2][r] = IF r = p THEN q2 ELSE occs[r]
  OBVIOUS
<1> QED
  BY <1>1, <1>2

\* Watcher i of p goes to the list of ~l as w: its clause has become c2, watched
\* by f and l.
MovesTo(occs, at, p, i, f, l, c2, at2, q2, w) ==
    LET cr == occs[p][i].cref IN
    /\ i \in DOMAIN occs[p] /\ at[cr].mark # 1
    /\ {at[cr].lits[1], at[cr].lits[2]} \subseteq {f, Neg(p)} /\ l # f /\ l # Neg(p)
    /\ c2.mark = at[cr].mark /\ c2.lits[1] = f /\ c2.lits[2] = l
    /\ at2 = [at EXCEPT ![cr] = c2]
    /\ q2 \in Seq(WatchersIn(at)) /\ Len(q2) = Len(occs[p]) - 1
    /\ \A j \in 1 .. i - 1 : q2[j] = occs[p][j]
    /\ \A j \in i .. Len(q2) : q2[j] = occs[p][j + 1]
    /\ w \in WatchersIn(at) /\ w.cref = cr

\* A watch of a clause moves from the list of p to that of another literal.
LEMMA ListsMoved ==
    ASSUME NEW n \in Nat, NEW occs, NEW dirty, NEW at, Lists(occs, dirty, at, n),
           occs = [r \in LitsOf(n) |-> occs[r]], NEW p \in LitsOf(n), NEW l \in LitsOf(n),
           NEW i, NEW f, NEW c2, NEW at2, NEW q2, NEW w,
           MovesTo(occs, at, p, i, f, l, c2, at2, q2, w)
    PROVE  Lists([occs EXCEPT ![p] = q2, ![Neg(l)] = Append(@, w)], dirty, at2, n)
<1> DEFINE cr == occs[p][i].cref
           new == [occs EXCEPT ![p] = q2, ![Neg(l)] = Append(@, w)]
<1>a. /\ i \in DOMAIN occs[p] /\ at[cr].mark # 1
      /\ {at[cr].lits[1], at[cr].lits[2]} \subseteq {f, Neg(p)} /\ l # f /\ l # Neg(p)
      /\ c2.mark = at[cr].mark /\ c2.lits[1] = f /\ c2.lits[2] = l
      /\ at2 = [at EXCEPT ![cr] = c2]
      /\ q2 \in Seq(WatchersIn(at)) /\ Len(q2) = Len(occs[p]) - 1
      /\ w \in WatchersIn(at) /\ w.cref = cr
      /\ \A j \in 1 .. i - 1 : q2[j] = occs[p][j]
      /\ \A j \in i .. Len(q2) : q2[j] = occs[p][j + 1]
  BY DEF MovesTo
<1>b. cr = occs[p][i].cref /\ new = [occs EXCEPT ![p] = q2, ![Neg(l)] = Append(@, w)]
  OBVIOUS
<1> HIDE DEF cr, new
<1> USE <1>a, <1>b
<1> DEFINE q == occs[p]
<1>0. \A r \in LitsOf(n) : WatchList(r, occs[r], dirty, at) /\ occs[r] \in Seq(WatchersIn(at))
                          /\ \A j \in DOMAIN occs[r] : occs[r][j] \in WatchersIn(at)
  BY DEF Lists, WatchList
<1>1. WatchList(p, q, dirty, at) /\ q \in Seq(WatchersIn(at)) /\ q[i] \in WatchersIn(at)
  BY <1>0
<1>2. cr \in DOMAIN at
  BY <1>1 DEF WatchersIn
<1>3. DOMAIN at2 = DOMAIN at /\ at2[cr] = c2 /\ \A d \in DOMAIN at : d # cr => at2[d] = at[d]
  BY <1>2
<1>4. WatchersIn(at2) = WatchersIn(at)
  BY <1>3 DEF WatchersIn
<1>5. Neg(l) \in LitsOf(n) /\ Neg(Neg(l)) = l /\ Neg(Neg(p)) = p /\ Neg(l) # p
  BY LitFacts
<1>6. /\ new[p] = q2 /\ new[Neg(l)] = Append(occs[Neg(l)], w)
      /\ \A r \in LitsOf(n) : r # p /\ r # Neg(l) => new[r] = occs[r]
  BY <1>5
<1>7. ASSUME NEW r \in LitsOf(n), NEW j \in DOMAIN occs[r], occs[r][j].cref # cr
      PROVE  /\ Watches(r, at2[occs[r][j].cref], dirty)
             /\ at[occs[r][j].cref].mark = 1 => at2[occs[r][j].cref].mark = 1
  <2>1. occs[r][j].cref \in DOMAIN at
    BY <1>0 DEF WatchersIn
  <2>2. Watches(r, at[occs[r][j].cref], dirty)
    BY <1>0 DEF WatchList
  <2> QED
    BY <1>3, <1>7, <2>1, <2>2
<1>8. WatchList(p, q2, dirty, at2)
  <2> DEFINE m == [j \in DOMAIN q2 |-> IF j < i THEN j ELSE j + 1]
  <2>1. /\ Len(q) \in Nat /\ DOMAIN q = 1 .. Len(q) /\ i \in 1 .. Len(q) /\ DOMAIN q2 = 1 .. Len(q) - 1
    BY <1>1
  <2>2. m \in [DOMAIN q2 -> DOMAIN q] /\ \A j \in DOMAIN q2 : m[j] # i /\ q2[j] = q[m[j]]
    <3>1. ASSUME NEW j \in DOMAIN q2
          PROVE  m[j] \in DOMAIN q /\ m[j] # i /\ q2[j] = q[m[j]]
      <4>1. CASE j < i
        BY <2>1, <4>1
      <4>2. CASE j >= i
        BY <2>1, <4>2
      <4> QED
        BY <2>1, <4>1, <4>2
    <3> QED
      BY <3>1
  <2>3. \A j, k \in DOMAIN q2 : m[j] = m[k] => j = k
    BY <2>1
  <2> HIDE DEF m, q
  <2>4. WatchList(p, q2, dirty, at)
    <3>1. TakenFrom(q2, q, m)
      BY <2>2, <2>3 DEF TakenFrom
    <3> QED
      BY <1>1, <3>1, ListShrunk
  <2>5. ASSUME NEW j \in DOMAIN q2
        PROVE  q2[j].cref # cr
    <3>1. m[j] \in DOMAIN q /\ m[j] # i /\ q2[j] = q[m[j]] /\ i \in DOMAIN q
      BY <2>2 DEF q
    <3>2. q[m[j]].cref = q[i].cref => m[j] = i \/ at[q[m[j]].cref].mark = 1
      BY <1>1, <3>1 DEF WatchList
    <3>3. q[i].cref = cr
      BY DEF q
    <3> QED
      BY <3>1, <3>2, <3>3
  <2>6. StillWatched(p, q2, dirty, at, at2)
    <3>1. ASSUME NEW j \in DOMAIN q2
          PROVE  /\ Watches(p, at2[q2[j].cref], dirty)
                 /\ at[q2[j].cref].mark = 1 => at2[q2[j].cref].mark = 1
      <4>1. m[j] \in DOMAIN occs[p] /\ q2[j].cref = occs[p][m[j]].cref /\ occs[p][m[j]].cref # cr
        BY <2>2, <2>5 DEF q
      <4> DEFINE k == m[j]
      <4>2. k \in DOMAIN occs[p] /\ q2[j].cref = occs[p][k].cref /\ occs[p][k].cref # cr
        BY <4>1
      <4> HIDE DEF k
      <4>3. Watches(p, at2[occs[p][k].cref], dirty)
            /\ (at[occs[p][k].cref].mark = 1 => at2[occs[p][k].cref].mark = 1)
        BY <4>2, <1>7
      <4> QED
        BY <4>2, <4>3
    <3> QED
      BY <3>1 DEF StillWatched
  <2>7. q2 \in Seq(WatchersIn(at2))
    BY <1>4
  <2> QED
    BY <2>4, <2>6, <2>7, ListKept
<1>9. WatchList(Neg(l), Append(occs[Neg(l)], w), dirty, at2)
  <2> DEFINE r == Neg(l)
             t == occs[r]
  <2>1. WatchList(r, t, dirty, at) /\ t \in Seq(WatchersIn(at2)) /\ r \in LitsOf(n)
    BY <1>0, <1>4, <1>5
  <2>2. ASSUME NEW j \in DOMAIN t
        PROVE  t[j].cref # cr
    <3>1. Watches(r, at[t[j].cref], dirty)
      BY <2>1 DEF WatchList
    <3> QED
      BY <1>5, <3>1 DEF Watches
  <2>3. StillWatched(r, t, dirty, at, at2)
    BY <2>1, <2>2, <1>7 DEF StillWatched
  <2>4. Watches(r, at2[w.cref], dirty)
    BY <1>3, <1>5 DEF Watches
  <2>5. w \in WatchersIn(at2)
    BY <1>4
  <2> HIDE DEF r, t
  <2>6. WatchList(r, t, dirty, at2)
    BY <2>1, <2>3, ListKept
  <2>7. WatchList(r, Append(t, w), dirty, at2)
    BY <2>2, <2>4, <2>5, <2>6, ListPushed
  <2> QED
    BY <2>7 DEF r, t
<1>10. ASSUME NEW r \in LitsOf(n), r # p, r # Neg(l)
       PROVE  WatchList(r, occs[r], dirty, at2)
  <2> DEFINE t == occs[r]
  <2>1. WatchList(r, t, dirty, at) /\ t \in Seq(WatchersIn(at2))
    BY <1>0, <1>4
  <2>2. ASSUME NEW j \in DOMAIN t
        PROVE  /\ Watches(r, at2[t[j].cref], dirty)
               /\ at[t[j].cref].mark = 1 => at2[t[j].cref].mark = 1
    <3>1. Watches(r, at[t[j].cref], dirty)
      BY <2>1 DEF WatchList
    <3>2. CASE t[j].cref = cr
      <4>1. Neg(r) \in {f, Neg(p)}
        BY <3>1, <3>2 DEF Watches
      <4>2. Neg(r) # Neg(p)
        BY <1>5, <1>10, LitFacts
      <4> QED
        BY <1>3, <3>2, <4>1, <4>2 DEF Watches
    <3>3. CASE t[j].cref # cr
      BY <1>7, <3>3
    <3> QED
      BY <3>2, <3>3
  <2>4. StillWatched(r, t, dirty, at, at2)
    BY <2>2 DEF StillWatched
  <2> HIDE DEF t
  <2>3. WatchList(r, t, dirty, at2)
    BY <2>1, <2>4, ListKept
  <2> QED
    BY <2>3 DEF t
<1>11. Lists(new, dirty, at2, n)
  BY <1>6, <1>8, <1>9, <1>10 DEF Lists
<1> QED
  BY <1>11

-------------------------------------------------------------------------------
(* The trail.                                                                  *)

\* A later position is of no lower level.
LEMMA LevelsOrdered ==
    ASSUME NEW lim \in Seq(Nat), NEW i \in Nat, NEW j \in Nat, i <= j,
           NEW K, NEW L, AtLevel(K, lim, i), AtLevel(L, lim, j)
    PROVE  K <= L
<1>1. K \in 0 .. Len(lim) /\ L \in 0 .. Len(lim) /\ DOMAIN lim = 1 .. Len(lim) /\ Len(lim) \in Nat
  BY DEF AtLevel
<1> SUFFICES ASSUME L < K PROVE FALSE
  BY <1>1
<1>2. K \in DOMAIN lim
  BY <1>1
<1>3. lim[K] < i /\ lim[K] \in Nat
  BY <1>1, <1>2 DEF AtLevel
<1>4. lim[K] < j
  BY <1>3
<1>5. K <= L
  BY <1>2, <1>4 DEF AtLevel
<1> QED
  BY <1>1, <1>5

\* What is put on the trail next is of the last level.
LEMMA NewestLevel ==
    ASSUME NEW lim \in Seq(Nat), NEW n \in Nat, Limits(lim, n)
    PROVE  AtLevel(Len(lim), lim, n + 1)
<1>1. DOMAIN lim = 1 .. Len(lim) /\ Len(lim) \in Nat /\ \A l \in DOMAIN lim : lim[l] \in Nat
  OBVIOUS
<1>2. \A l \in DOMAIN lim : lim[l] <= n
  BY DEF Limits
<1> QED
  BY <1>1, <1>2 DEF AtLevel

\* A level has one number.
LEMMA OneLevelOnly ==
    ASSUME NEW lim \in Seq(Nat), NEW i \in Nat, NEW K, NEW L, AtLevel(K, lim, i), AtLevel(L, lim, i)
    PROVE  K = L
<1>1. K <= L /\ L <= K
  BY LevelsOrdered
<1> QED
  BY <1>1 DEF AtLevel

\* The literals of the trail, one more at its end.
LEMMA Appended ==
    ASSUME NEW X, NEW q \in Seq(X), NEW p \in X
    PROVE  /\ Append(q, p) \in Seq(X) /\ Len(q) \in Nat /\ Len(Append(q, p)) = Len(q) + 1
           /\ DOMAIN q = 1 .. Len(q) /\ DOMAIN Append(q, p) = 1 .. Len(q) + 1
           /\ Append(q, p)[Len(q) + 1] = p
           /\ \A i \in DOMAIN q : Append(q, p)[i] = q[i]
           /\ \A i \in DOMAIN Append(q, p) : i \in DOMAIN q \/ i = Len(q) + 1
<1>1. Append(q, p) \in Seq(X) /\ Len(q) \in Nat /\ Len(Append(q, p)) = Len(q) + 1
      /\ DOMAIN q = 1 .. Len(q) /\ DOMAIN Append(q, p) = 1 .. Len(q) + 1
      /\ Append(q, p)[Len(q) + 1] = p
      /\ \A i \in DOMAIN q : Append(q, p)[i] = q[i]
  OBVIOUS
<1>2. \A i \in DOMAIN Append(q, p) : i \in DOMAIN q \/ i = Len(q) + 1
  BY <1>1
<1> QED
  BY <1>1, <1>2

\* p was not assigned, so no literal of its variable is on the trail.
LEMMA NotOnTrail ==
    ASSUME NEW n \in Nat, NEW assigns \in [VarsUpTo(n) -> Lbools], NEW trail \in Seq(LitsOf(n)),
           NEW lim, NEW level, TrailRight(trail, lim, assigns, level),
           NEW p \in LitsOf(n), Val(assigns, p) = LUndef
    PROVE  /\ ~OnTrail(trail, VarOf(p)) /\ assigns[VarOf(p)] = LUndef
           /\ \A i \in DOMAIN trail : VarOf(trail[i]) # VarOf(p)
<1>1. assigns[VarOf(p)] = LUndef
  BY ValFacts
<1>2. ASSUME NEW i \in DOMAIN trail
      PROVE  VarOf(trail[i]) # VarOf(p)
  <2>1. trail[i] \in LitsOf(n) /\ Val(assigns, trail[i]) = LTrue
    BY DEF TrailRight
  <2>2. Val(assigns, trail[i]) # LUndef
    BY <2>1 DEF LTrue, LUndef
  <2> QED
    BY <1>1, <2>1, <2>2, ValFacts
<1> QED
  BY <1>1, <1>2 DEF OnTrail

\* A trail that gets an undefined literal stays right.
LEMMA TrailGrows ==
    ASSUME NEW n \in Nat, NEW assigns \in [VarsUpTo(n) -> Lbools], NEW trail \in Seq(LitsOf(n)),
           NEW lim \in Seq(Nat), NEW level \in [VarsUpTo(n) -> Nat],
           TrailRight(trail, lim, assigns, level),
           NEW p \in LitsOf(n), Val(assigns, p) = LUndef
    PROVE  TrailRight(Append(trail, p), lim, Assigned(assigns, p), LevelSet(level, p, Len(lim)))
<1> DEFINE t == Append(trail, p)
           new == Assigned(assigns, p)
           lv == LevelSet(level, p, Len(lim))
           m == Len(trail)
<1>1. /\ t \in Seq(LitsOf(n)) /\ m \in Nat /\ Len(t) = m + 1
      /\ DOMAIN trail = 1 .. m /\ DOMAIN t = 1 .. m + 1
      /\ t[m + 1] = p /\ (\A i \in DOMAIN trail : t[i] = trail[i])
      /\ \A i \in DOMAIN t : i \in DOMAIN trail \/ i = m + 1
  BY Appended
<1>2. /\ new \in [VarsUpTo(n) -> Lbools]
      /\ Val(new, p) = LTrue
      /\ \A q \in LitsOf(n) : VarOf(q) # VarOf(p) => Val(new, q) = Val(assigns, q)
      /\ \A v \in VarsUpTo(n) : v # VarOf(p) => new[v] = assigns[v]
  BY ValAssigned
<1>3. \A q \in LitsOf(n) : VarOf(q) \in VarsUpTo(n)
  BY LitFacts
<1>4. lv[VarOf(p)] = Len(lim) /\ \A v \in VarsUpTo(n) : v # VarOf(p) => lv[v] = level[v]
  BY <1>3 DEF LevelSet
<1>5. \A i \in DOMAIN trail : VarOf(trail[i]) # VarOf(p) /\ trail[i] \in LitsOf(n)
  BY NotOnTrail
<1> HIDE DEF t, new, lv, m
<1>6. ASSUME NEW i \in DOMAIN t
      PROVE  Val(new, t[i]) = LTrue /\ AtLevel(lv[VarOf(t[i])], lim, i)
  <2>1. CASE i \in DOMAIN trail
    <3>1. Val(assigns, trail[i]) = LTrue /\ AtLevel(level[VarOf(trail[i])], lim, i)
      BY <2>1 DEF TrailRight
    <3> QED
      BY <1>1, <1>2, <1>3, <1>4, <1>5, <2>1, <3>1
  <2>2. CASE i = m + 1
    <3>1. Limits(lim, m)
      BY DEF TrailRight, m
    <3>2. AtLevel(Len(lim), lim, m + 1)
      BY <1>1, <3>1, NewestLevel
    <3> QED
      BY <1>1, <1>2, <1>4, <2>2, <3>2
  <2> QED
    BY <1>1, <2>1, <2>2
<1>7. ASSUME NEW i \in DOMAIN t, NEW j \in DOMAIN t, VarOf(t[i]) = VarOf(t[j])
      PROVE  i = j
  <2>1. \A k, l \in DOMAIN trail : VarOf(trail[k]) = VarOf(trail[l]) => k = l
    BY DEF TrailRight, OnceOn
  <2> QED
    BY <1>1, <1>5, <1>7, <2>1
<1>8. ASSUME NEW v \in DOMAIN new, new[v] # LUndef
      PROVE  lv[v] = 0 \/ OnTrail(t, v)
  <2>1. v \in VarsUpTo(n)
    BY <1>2
  <2>2. CASE v = VarOf(p)
    BY <1>1, <2>2 DEF OnTrail
  <2>3. CASE v # VarOf(p)
    <3>1. assigns[v] # LUndef /\ lv[v] = level[v]
      BY <1>2, <1>4, <1>8, <2>1, <2>3
    <3>2. level[v] = 0 \/ OnTrail(trail, v)
      BY <2>1, <3>1 DEF TrailRight
    <3> QED
      BY <1>1, <3>1, <3>2 DEF OnTrail
  <2> QED
    BY <2>2, <2>3
<1>9. Limits(lim, Len(t))
  <2>1. Limits(lim, m) /\ \A l \in DOMAIN lim : lim[l] \in Nat
    BY DEF TrailRight, m
  <2> QED
    BY <1>1, <2>1 DEF Limits
<1>10. TrailRight(t, lim, new, lv)
  BY <1>6, <1>7, <1>8, <1>9 DEF TrailRight, OnceOn
<1> QED
  BY <1>10 DEF t, new, lv

\* What was false before a position still is.
LEMMA StaysFalseBefore ==
    ASSUME NEW n \in Nat, NEW assigns \in [VarsUpTo(n) -> Lbools], NEW trail \in Seq(LitsOf(n)),
           NEW level \in [VarsUpTo(n) -> Nat], NEW L, NEW i \in 1 .. Len(trail) + 1,
           NEW p \in LitsOf(n), Val(assigns, p) = LUndef,
           NEW q \in LitsOf(n), FalseBefore(q, i, trail, level, assigns)
    PROVE  FalseBefore(q, i, Append(trail, p), LevelSet(level, p, L), Assigned(assigns, p))
<1>1. Val(assigns, q) = LFalse
  BY DEF FalseBefore
<1>2. VarOf(q) # VarOf(p)
  <2>1. Val(assigns, q) # LUndef
    BY <1>1 DEF LFalse, LUndef
  <2> QED
    BY <2>1, ValFacts
<1>3. Val(Assigned(assigns, p), q) = LFalse
  BY <1>1, <1>2, ValAssigned
<1>4. LevelSet(level, p, L)[VarOf(q)] = level[VarOf(q)]
  BY <1>2, LitFacts DEF LevelSet
<1>5. CASE level[VarOf(q)] = 0
  BY <1>3, <1>4, <1>5 DEF FalseBefore
<1>6. CASE \E j \in 1 .. i - 1 : trail[j] = Neg(q)
  <2>1. PICK j \in 1 .. i - 1 : trail[j] = Neg(q)
    BY <1>6
  <2>2. j \in DOMAIN trail
    OBVIOUS
  <2>3. Append(trail, p)[j] = Neg(q)
    BY <2>1, <2>2, Appended
  <2> QED
    BY <1>3, <2>3 DEF FalseBefore
<1> QED
  BY <1>5, <1>6 DEF FalseBefore

\* What an early literal of the trail makes false stays false as the trail
\* grows.
LEMMA StaysAllFalse ==
    ASSUME NEW n \in Nat, NEW assigns \in [VarsUpTo(n) -> Lbools], NEW trail \in Seq(LitsOf(n)),
           NEW level \in [VarsUpTo(n) -> Nat], NEW L, NEW i \in 1 .. Len(trail) + 1,
           NEW p \in LitsOf(n), Val(assigns, p) = LUndef,
           NEW lits \in Seq(LitsOf(n)), AllFalse(lits, i, trail, level, assigns)
    PROVE  AllFalse(lits, i, Append(trail, p), LevelSet(level, p, L), Assigned(assigns, p))
<1> SUFFICES ASSUME NEW k \in 2 .. Len(lits)
             PROVE  FalseBefore(lits[k], i, Append(trail, p), LevelSet(level, p, L), Assigned(assigns, p))
  BY DEF AllFalse
<1>1. FalseBefore(lits[k], i, trail, level, assigns) /\ lits[k] \in LitsOf(n)
  BY DEF AllFalse
<1> QED
  BY <1>1, StaysFalseBefore

\* What the clause that implies p has to satisfy for p to be next on the trail.
MayFollow(p, from, trail, lim, level, assigns, at, strict) ==
    /\ from # CRefUndef => IsReason(from, p, at)
    /\ strict /\ Len(lim) > 0 =>
         /\ from = CRefUndef <=> Len(trail) \in Range(lim)
         /\ from # CRefUndef => AllFalse(at[from].lits, Len(trail) + 1, trail, level, assigns)

\* Reasons stay right when the trail gets one more literal, with a reason it
\* may follow.
LEMMA ReasonsGrow ==
    ASSUME NEW n \in Nat, NEW assigns \in [VarsUpTo(n) -> Lbools], NEW trail \in Seq(LitsOf(n)),
           NEW lim \in Seq(Nat), NEW level \in [VarsUpTo(n) -> Nat], NEW reason, DOMAIN reason = VarsUpTo(n),
           TrailRight(trail, lim, assigns, level), NEW strict, NEW at,
           Clauses(at, n), Reasons(trail, lim, reason, level, assigns, at, strict),
           NEW p \in LitsOf(n), Val(assigns, p) = LUndef, NEW from,
           MayFollow(p, from, trail, lim, level, assigns, at, strict)
    PROVE  Reasons(Append(trail, p), lim, [reason EXCEPT ![VarOf(p)] = from],
                   LevelSet(level, p, Len(lim)), Assigned(assigns, p), at, strict)
<1> DEFINE t == Append(trail, p)
           new == Assigned(assigns, p)
           lv == LevelSet(level, p, Len(lim))
           m == Len(trail)
           r == [reason EXCEPT ![VarOf(p)] = from]
<1>1. /\ t \in Seq(LitsOf(n)) /\ m \in Nat /\ Len(t) = m + 1
      /\ DOMAIN trail = 1 .. m /\ DOMAIN t = 1 .. m + 1
      /\ t[m + 1] = p /\ (\A i \in DOMAIN trail : t[i] = trail[i])
      /\ \A i \in DOMAIN t : i \in DOMAIN trail \/ i = m + 1
  BY Appended
<1>2. VarOf(p) \in VarsUpTo(n) /\ \A q \in LitsOf(n) : VarOf(q) \in VarsUpTo(n)
  BY LitFacts
<1>3. /\ lv[VarOf(p)] = Len(lim) /\ \A v \in VarsUpTo(n) : v # VarOf(p) => lv[v] = level[v]
      /\ r[VarOf(p)] = from /\ \A v \in VarsUpTo(n) : v # VarOf(p) => r[v] = reason[v]
  BY <1>2 DEF LevelSet
<1>5. \A cr \in DOMAIN at : at[cr].lits \in Seq(LitsOf(n))
  BY DEF Clauses, IsClause, LongLits
<1>6. ASSUME NEW i \in 1 .. m + 1, NEW cr \in DOMAIN at,
             AllFalse(at[cr].lits, i, trail, level, assigns)
      PROVE  AllFalse(at[cr].lits, i, t, lv, new)
  BY <1>5, <1>6, StaysAllFalse
<1> HIDE DEF t, new, lv, m, r
<1>4. \A i \in DOMAIN trail : VarOf(trail[i]) # VarOf(p) /\ trail[i] \in LitsOf(n)
  BY NotOnTrail
<1>7. ASSUME NEW i \in DOMAIN t
      PROVE  /\ r[VarOf(t[i])] # CRefUndef => IsReason(r[VarOf(t[i])], t[i], at)
             /\ strict => InOrder(i, lim, t, lv, new, r[VarOf(t[i])], at)
  <2>1. CASE i \in DOMAIN trail
    <3> DEFINE cr == reason[VarOf(trail[i])]
    <3>1. r[VarOf(t[i])] = cr /\ t[i] = trail[i] /\ lv[VarOf(t[i])] = level[VarOf(trail[i])]
      BY <1>1, <1>2, <1>3, <1>4, <2>1
    <3>2. /\ cr # CRefUndef => IsReason(cr, trail[i], at)
          /\ strict => InOrder(i, lim, trail, level, assigns, cr, at)
      BY <2>1 DEF Reasons
    <3> HIDE DEF cr
    <3>3. i \in 1 .. m + 1
      BY <1>1
    <3>4. cr # CRefUndef => cr \in DOMAIN at
      BY <3>2 DEF IsReason
    <3>5. ASSUME strict
          PROVE  InOrder(i, lim, t, lv, new, cr, at)
      BY <1>6, <3>1, <3>2, <3>3, <3>4, <3>5 DEF InOrder
    <3> QED
      BY <3>1, <3>2, <3>5
  <2>2. CASE i = m + 1
    <3>1. r[VarOf(t[i])] = from /\ t[i] = p /\ lv[VarOf(t[i])] = Len(lim) /\ i - 1 = m
      BY <1>1, <1>3, <2>2
    <3>2. from # CRefUndef => IsReason(from, p, at)
      BY DEF MayFollow
    <3>3. from # CRefUndef => from \in DOMAIN at
      BY <3>2 DEF IsReason
    <3>4. i \in 1 .. m + 1
      BY <1>1
    <3>5. ASSUME strict, Len(lim) > 0
          PROVE  /\ from = CRefUndef <=> m \in Range(lim)
                 /\ from # CRefUndef => AllFalse(at[from].lits, m + 1, trail, level, assigns)
      BY <3>5 DEF MayFollow, m
    <3>6. ASSUME strict
          PROVE  InOrder(i, lim, t, lv, new, from, at)
      <4> SUFFICES ASSUME Len(lim) > 0
                   PROVE  /\ from = CRefUndef <=> i - 1 \in Range(lim)
                          /\ from # CRefUndef => AllFalse(at[from].lits, i, t, lv, new)
        BY <3>1 DEF InOrder
      <4> QED
        BY <1>6, <2>2, <3>1, <3>3, <3>4, <3>5, <3>6
    <3> QED
      BY <3>1, <3>2, <3>6
  <2> QED
    BY <1>1, <2>1, <2>2
<1>8. Reasons(t, lim, r, lv, new, at, strict)
  BY <1>7 DEF Reasons
<1> QED
  BY <1>8 DEF t, new, lv, r

-------------------------------------------------------------------------------
(* Objects.                                                                    *)

\* t has the fields of o but those of fs.
Same(o, t, fs) == \A f \in Fields \ fs : t[f] = o[f]

\* The fields that the invariant is about.
Kernel == {"ca", "clauses", "learnts", "watches", "trail", "trailLim", "assigns", "reason", "level",
           "nextVar", "releasedVars", "freeVars", "decision", "ok", "useSimp"}

\* An object with the same fields is as good.
LEMMA AsGood ==
    ASSUME NEW o, NEW strict, GoodBut(o, strict), NEW t, IsObject(t), NEW fs, Same(o, t, fs),
           fs \intersect Kernel = {}, t.qhead \in Nat
    PROVE  GoodBut(t, strict) /\ (Watched(o) => Watched(t))
<1>1. /\ t.ca = o.ca /\ t.clauses = o.clauses /\ t.learnts = o.learnts /\ t.watches = o.watches
      /\ t.trail = o.trail /\ t.trailLim = o.trailLim /\ t.assigns = o.assigns
      /\ t.reason = o.reason /\ t.level = o.level /\ t.nextVar = o.nextVar
      /\ t.releasedVars = o.releasedVars /\ t.freeVars = o.freeVars /\ t.decision = o.decision
      /\ t.ok = o.ok /\ t.useSimp = o.useSimp
  BY DEF Same, Kernel, Fields
<1>2. Types(t)
  BY <1>1 DEF GoodBut, Types
<1> QED
  BY <1>1, <1>2 DEF GoodBut, Watched

EnqueueFields == {"assigns", "reason", "level", "trail"}

IsEnqueued(o, p, from, t) ==
    /\ IsObject(t) /\ t.assigns = Assigned(o.assigns, p)
    /\ t.reason = [o.reason EXCEPT ![VarOf(p)] = from]
    /\ t.level = LevelSet(o.level, p, Len(o.trailLim)) /\ t.trail = Append(o.trail, p)
    /\ Same(o, t, EnqueueFields)

\* The fields uncheckedEnqueue() writes (Solver.cc:486-492).
LEMMA Enqueued ==
    ASSUME NEW o, IsObject(o), NEW p, NEW from
    PROVE  IsEnqueued(o, p, from, UncheckedEnqueue(o, p, from))
BY DEF UncheckedEnqueue, IsObject, Fields, Same, Assigned, LevelSet, DecisionLevel, IsEnqueued, EnqueueFields

\* p may be enqueued.
Enqueueable(o, p, from, strict) ==
    /\ p \in LitsOf(o.nextVar) /\ Val(o.assigns, p) = LUndef /\ from \in Refs
    /\ MayFollow(p, from, o.trail, o.trailLim, o.level, o.assigns, o.ca.at, strict)

\* uncheckedEnqueue() of an undefined literal with a right reason keeps an
\* object good.
LEMMA EnqueueGood ==
    ASSUME NEW o, NEW strict, GoodBut(o, strict), NEW p, NEW from, Enqueueable(o, p, from, strict),
           NEW t, t = UncheckedEnqueue(o, p, from)
    PROVE  GoodBut(t, strict) /\ (Watched(o) => Watched(t))
<1> DEFINE n == o.nextVar
<1>1. /\ IsObject(t) /\ t.assigns = Assigned(o.assigns, p)
      /\ t.reason = [o.reason EXCEPT ![VarOf(p)] = from]
      /\ t.level = LevelSet(o.level, p, Len(o.trailLim)) /\ t.trail = Append(o.trail, p)
      /\ Same(o, t, EnqueueFields)
  <2>1. IsObject(o)
    BY DEF GoodBut
  <2>2. IsEnqueued(o, p, from, t)
    BY <2>1, Enqueued
  <2> QED
    BY <2>2 DEF IsEnqueued
<1>2. /\ t.ca = o.ca /\ t.clauses = o.clauses /\ t.learnts = o.learnts /\ t.watches = o.watches
      /\ t.trailLim = o.trailLim /\ t.nextVar = n /\ t.qhead = o.qhead
      /\ t.releasedVars = o.releasedVars /\ t.freeVars = o.freeVars /\ t.decision = o.decision
      /\ t.ok = o.ok /\ t.useSimp = o.useSimp
  BY <1>1 DEF Same, Fields, EnqueueFields
<1>3. /\ n \in Nat /\ o.assigns \in [VarsUpTo(n) -> Lbools] /\ o.level \in [VarsUpTo(n) -> Nat]
      /\ o.trail \in Seq(LitsOf(n)) /\ o.trailLim \in Seq(Nat) /\ o.reason \in [VarsUpTo(n) -> Refs]
  BY DEF GoodBut, Types
<1>4. p \in LitsOf(n) /\ Val(o.assigns, p) = LUndef /\ from \in Refs
      /\ MayFollow(p, from, o.trail, o.trailLim, o.level, o.assigns, o.ca.at, strict)
  BY DEF Enqueueable
<1>5. /\ TrailRight(o.trail, o.trailLim, o.assigns, o.level)
      /\ Reasons(o.trail, o.trailLim, o.reason, o.level, o.assigns, o.ca.at, strict)
      /\ Clauses(o.ca.at, n)
  BY DEF GoodBut, Region
<1> HIDE DEF n
<1>6. TrailRight(t.trail, t.trailLim, t.assigns, t.level)
  <2>1. TrailRight(Append(o.trail, p), o.trailLim, Assigned(o.assigns, p),
                   LevelSet(o.level, p, Len(o.trailLim)))
    BY <1>3, <1>4, <1>5, TrailGrows
  <2> QED
    BY <1>1, <1>2, <2>1
<1>7. Reasons(t.trail, t.trailLim, t.reason, t.level, t.assigns, t.ca.at, strict)
  <2>1. DOMAIN o.reason = VarsUpTo(n)
    BY <1>3
  <2>2. Reasons(Append(o.trail, p), o.trailLim, [o.reason EXCEPT ![VarOf(p)] = from],
                LevelSet(o.level, p, Len(o.trailLim)), Assigned(o.assigns, p), o.ca.at, strict)
    BY <1>3, <1>4, <1>5, <2>1, ReasonsGrow
  <2> QED
    BY <1>1, <1>2, <2>2
<1>8. VarOf(p) \in VarsUpTo(n) /\ (\A i \in DOMAIN o.trail : VarOf(o.trail[i]) # VarOf(p))
      /\ o.assigns[VarOf(p)] = LUndef
  <2>1. VarOf(p) \in VarsUpTo(n)
    BY <1>3, <1>4, LitFacts
  <2>2. (\A i \in DOMAIN o.trail : VarOf(o.trail[i]) # VarOf(p)) /\ o.assigns[VarOf(p)] = LUndef
    BY <1>3, <1>4, <1>5, NotOnTrail
  <2> QED
    BY <2>1, <2>2
<1>9. Types(t)
  <2>1. t.assigns \in [VarsUpTo(n) -> Lbools]
    <3>1. Assigned(o.assigns, p) \in [VarsUpTo(n) -> Lbools]
      BY <1>3, <1>4, ValAssigned
    <3> QED
      BY <1>1, <3>1
  <2>2. t.reason \in [VarsUpTo(n) -> Refs]
    BY <1>1, <1>3, <1>4, <1>8
  <2>3. t.level \in [VarsUpTo(n) -> Nat]
    BY <1>1, <1>3, <1>8 DEF LevelSet
  <2>4. t.trail \in Seq(LitsOf(n))
    BY <1>1, <1>3, <1>4
  <2> QED
    BY <1>2, <2>1, <2>2, <2>3, <2>4 DEF GoodBut, Types, n
<1>10. \A v \in VarsUpTo(n) : v # VarOf(p) => t.assigns[v] = o.assigns[v] /\ t.level[v] = o.level[v]
  <2>1. \A v \in VarsUpTo(n) : v # VarOf(p) => t.assigns[v] = o.assigns[v]
    <3>1. \A v \in VarsUpTo(n) : v # VarOf(p) => Assigned(o.assigns, p)[v] = o.assigns[v]
      BY <1>3, <1>4, ValAssigned
    <3> QED
      BY <1>1, <3>1
  <2>2. \A v \in VarsUpTo(n) : v # VarOf(p) => t.level[v] = o.level[v]
    BY <1>1, <1>3 DEF LevelSet
  <2> QED
    BY <2>1, <2>2
<1>11. Free(t.freeVars, t.assigns, t.trail)
  <2>1. Free(o.freeVars, o.assigns, o.trail) /\ o.freeVars \in Seq(VarsUpTo(n))
    BY DEF GoodBut, Types, n
  <2>2. ASSUME NEW k \in DOMAIN o.freeVars
        PROVE  t.assigns[o.freeVars[k]] # LUndef /\ ~OnTrail(t.trail, o.freeVars[k])
    <3> DEFINE v == o.freeVars[k]
    <3>1. o.assigns[v] # LUndef /\ ~OnTrail(o.trail, v) /\ v \in VarsUpTo(n)
      BY <2>1 DEF Free
    <3> HIDE DEF v
    <3>2. v # VarOf(p) /\ t.assigns[v] # LUndef
      BY <1>8, <1>10, <3>1
    <3>3. \A i \in DOMAIN t.trail : t.trail[i] = p \/ (i \in DOMAIN o.trail /\ t.trail[i] = o.trail[i])
      BY <1>1, <1>3, <1>4, Appended
    <3>4. ~OnTrail(t.trail, v)
      BY <3>1, <3>2, <3>3 DEF OnTrail
    <3> QED
      BY <3>2, <3>4 DEF v
  <2> QED
    BY <1>2, <2>1, <2>2 DEF Free
<1>12. t.ok => Released(t.releasedVars, t.freeVars, t.assigns, t.level)
  <2> SUFFICES ASSUME t.ok PROVE Released(t.releasedVars, t.freeVars, t.assigns, t.level)
    OBVIOUS
  <2>1. Released(o.releasedVars, o.freeVars, o.assigns, o.level) /\ o.releasedVars \in Seq(VarsUpTo(n))
    BY <1>2 DEF GoodBut, Types, n
  <2>2. ASSUME NEW k \in DOMAIN o.releasedVars
        PROVE  t.assigns[o.releasedVars[k]] # LUndef /\ t.level[o.releasedVars[k]] = 0
    <3>1. o.assigns[o.releasedVars[k]] # LUndef /\ o.level[o.releasedVars[k]] = 0
          /\ o.releasedVars[k] \in VarsUpTo(n)
      BY <2>1 DEF Released
    <3> QED
      BY <1>8, <1>10, <3>1
  <2> QED
    BY <1>2, <2>1, <2>2 DEF Released
<1>13. Region(t.ca, t.nextVar) /\ IsOccLists(t.watches, t.nextVar)
       /\ t.clauses \in Seq(DOMAIN t.ca.at) /\ t.learnts \in Seq(DOMAIN t.ca.at)
  BY <1>2 DEF GoodBut, n
<1>14. Watched(o) => Watched(t)
  BY <1>2 DEF Watched, n
<1> QED
  BY <1>1, <1>6, <1>7, <1>9, <1>11, <1>12, <1>13, <1>14 DEF GoodBut

-------------------------------------------------------------------------------
(* Changing the literals of a clause.                                          *)

\* Two literals of a clause exchanged.
LEMMA SwapFacts ==
    ASSUME NEW n, NEW q, LongLits(q, n), NEW i \in DOMAIN q, NEW j \in DOMAIN q
    PROVE  /\ LongLits(Swap(q, i, j), n) /\ Len(Swap(q, i, j)) = Len(q)
           /\ Swap(q, i, j)[i] = q[j] /\ Swap(q, i, j)[j] = q[i]
           /\ \A k \in DOMAIN q : k # i /\ k # j => Swap(q, i, j)[k] = q[k]
<1> DEFINE t == Swap(q, i, j)
<1>1. q \in Seq(LitsOf(n)) /\ Len(q) >= 2 /\ Len(q) \in Nat /\ DOMAIN q = 1 .. Len(q)
      /\ \A a, b \in DOMAIN q : q[a] = q[b] => a = b
  BY DEF LongLits, Distinct
<1>2. t \in Seq(LitsOf(n)) /\ Len(t) = Len(q) /\ DOMAIN t = DOMAIN q
  BY <1>1 DEF Swap
<1>3. \A k \in DOMAIN q : t[k] = IF k = j THEN q[i] ELSE IF k = i THEN q[j] ELSE q[k]
  BY <1>1 DEF Swap
<1> HIDE DEF t
<1>4. ASSUME NEW a \in DOMAIN t, NEW b \in DOMAIN t, t[a] = t[b]
      PROVE  a = b
  BY <1>1, <1>2, <1>3, <1>4
<1>5. LongLits(t, n)
  BY <1>1, <1>2, <1>4 DEF LongLits, Distinct
<1> QED
  BY <1>2, <1>3, <1>5 DEF t

\* The watched literal ~p of a clause is put second.
LEMMA FalseSecondFacts ==
    ASSUME NEW n, NEW q, LongLits(q, n), NEW p, Neg(p) \in {q[1], q[2]}
    PROVE  LET t == FalseSecond(q, p) IN
           /\ LongLits(t, n) /\ Len(t) = Len(q) /\ t[2] = Neg(p) /\ t[1] # Neg(p)
           /\ {t[1], t[2]} = {q[1], q[2]}
           /\ q[1] # Neg(p) => t = q
<1>1. 1 \in DOMAIN q /\ 2 \in DOMAIN q /\ q[1] # q[2]
  BY DEF LongLits, Distinct
<1>2. CASE q[1] = Neg(p)
  <2>1. FalseSecond(q, p) = Swap(q, 1, 2)
    BY <1>2 DEF FalseSecond
  <2>2. LongLits(Swap(q, 1, 2), n) /\ Len(Swap(q, 1, 2)) = Len(q)
        /\ Swap(q, 1, 2)[1] = q[2] /\ Swap(q, 1, 2)[2] = q[1]
    BY <1>1, SwapFacts
  <2> QED
    BY <1>1, <1>2, <2>1, <2>2
<1>3. CASE q[1] # Neg(p)
  BY <1>1, <1>3 DEF FalseSecond
<1> QED
  BY <1>2, <1>3

\* The clause at cr gets other literals.
Put(o, cr, lits) == [o EXCEPT !.ca.at[cr].lits = lits]

OnlyCa == {"ca"}

IsPut(o, cr, lits, t) ==
    /\ IsObject(t) /\ Same(o, t, OnlyCa)
    /\ IsRegion(t.ca) /\ t.ca.size = o.ca.size /\ t.ca.extra = o.ca.extra /\ t.ca.wasted = o.ca.wasted
    /\ t.ca.at = [o.ca.at EXCEPT ![cr] = [o.ca.at[cr] EXCEPT !.lits = lits]]

\* The fields a clause written back changes.
LEMMA PutFields ==
    ASSUME NEW o, IsObject(o), IsRegion(o.ca), NEW cr, NEW lits
    PROVE  IsPut(o, cr, lits, Put(o, cr, lits))
<1> DEFINE t == Put(o, cr, lits)
<1>1. IsObject(t) /\ Same(o, t, OnlyCa)
  BY DEF Put, IsObject, Fields, Same, OnlyCa
<1>2. t.ca = [o.ca EXCEPT !.at[cr].lits = lits]
  BY DEF Put, IsObject, Fields
<1>3. t.ca = [o.ca EXCEPT !.at = [o.ca.at EXCEPT ![cr] = [o.ca.at[cr] EXCEPT !.lits = lits]]]
  BY <1>2
<1> HIDE DEF t
<1>4. IsRegion(t.ca) /\ t.ca.size = o.ca.size /\ t.ca.extra = o.ca.extra /\ t.ca.wasted = o.ca.wasted
      /\ t.ca.at = [o.ca.at EXCEPT ![cr] = [o.ca.at[cr] EXCEPT !.lits = lits]]
  BY <1>3 DEF IsRegion
<1> QED
  BY <1>1, <1>4 DEF IsPut, t

\* new starts as old does, and its other literals are others of old.
Shrunk(new, old) ==
    new[1] = old[1] /\ \A k \in 2 .. Len(new) : \E m \in 2 .. Len(old) : new[k] = old[m]

\* A clause stays a clause when its literals become others of the same object.
LEMMA PutClauses ==
    ASSUME NEW n, NEW at, Clauses(at, n), NEW cr \in DOMAIN at, NEW lits, LongLits(lits, n)
    PROVE  Clauses([at EXCEPT ![cr] = [at[cr] EXCEPT !.lits = lits]], n)
<1> DEFINE c2 == [at[cr] EXCEPT !.lits = lits]
           new == [at EXCEPT ![cr] = c2]
<1>1. IsClause(at[cr], n)
  BY DEF Clauses
<1>2. IsClause(c2, n)
  BY <1>1 DEF IsClause
<1> HIDE DEF c2
<1>3. \A d \in DOMAIN new : d \in DOMAIN at /\ new[d] = IF d = cr THEN c2 ELSE at[d]
  OBVIOUS
<1> HIDE DEF new
<1>4. ASSUME NEW d \in DOMAIN new
      PROVE  IsClause(new[d], n)
  BY <1>2, <1>3 DEF Clauses
<1> QED
  BY <1>4 DEF Clauses, new, c2

\* Reasons stay right when a clause is rearranged, if the literal it implies
\* stays in front.
LEMMA PutReasons ==
    ASSUME NEW n, NEW trail, NEW lim, NEW reason, NEW level, NEW assigns, NEW at, NEW strict,
           Reasons(trail, lim, reason, level, assigns, at, strict),
           \A i \in DOMAIN trail : Val(assigns, trail[i]) = LTrue,
           Clauses(at, n), NEW cr \in DOMAIN at, NEW lits,
           Val(assigns, at[cr].lits[1]) = LTrue => Shrunk(lits, at[cr].lits),
           NEW at2, at2 = [at EXCEPT ![cr] = [at[cr] EXCEPT !.lits = lits]]
    PROVE  Reasons(trail, lim, reason, level, assigns, at2, strict)
<1> DEFINE old == at[cr].lits
<1>1. DOMAIN at2 = DOMAIN at /\ at2[cr] = [at[cr] EXCEPT !.lits = lits]
      /\ \A d \in DOMAIN at : d # cr => at2[d] = at[d]
  OBVIOUS
<1>2. at2[cr].lits = lits /\ at2[cr].mark = at[cr].mark
  <2>1. IsClause(at[cr], n)
    BY DEF Clauses
  <2> QED
    BY <1>1, <2>1 DEF IsClause
<1> SUFFICES ASSUME NEW i \in DOMAIN trail, NEW d, d = reason[VarOf(trail[i])], d # CRefUndef
             PROVE  /\ IsReason(d, trail[i], at2)
                    /\ strict => InOrder(i, lim, trail, level, assigns, d, at2)
  <2>1. ASSUME NEW i \in DOMAIN trail, NEW d, d = reason[VarOf(trail[i])], d = CRefUndef, strict
        PROVE  InOrder(i, lim, trail, level, assigns, d, at2)
    <3>1. InOrder(i, lim, trail, level, assigns, d, at)
      BY <2>1 DEF Reasons
    <3> QED
      BY <2>1, <3>1 DEF InOrder
  <2> QED
    BY <2>1 DEF Reasons
<1>3. IsReason(d, trail[i], at) /\ (strict => InOrder(i, lim, trail, level, assigns, d, at))
  BY DEF Reasons
<1>4. CASE d # cr
  <2>1. at2[d] = at[d] /\ d \in DOMAIN at2
    BY <1>1, <1>3, <1>4 DEF IsReason
  <2> QED
    BY <1>3, <2>1 DEF IsReason, InOrder
<1>5. CASE d = cr
  <2>1. old[1] = trail[i] /\ Val(assigns, old[1]) = LTrue
    BY <1>3, <1>5 DEF IsReason
  <2>2. Shrunk(lits, old)
    BY <2>1
  <2>3. IsReason(d, trail[i], at2)
    BY <1>1, <1>2, <1>3, <1>5, <2>2 DEF IsReason, Shrunk
  <2>4. ASSUME AllFalse(old, i, trail, level, assigns)
        PROVE  AllFalse(lits, i, trail, level, assigns)
    BY <2>2, <2>4 DEF AllFalse, Shrunk
  <2>5. strict => InOrder(i, lim, trail, level, assigns, d, at2)
    <3> HIDE DEF old
    <3>1. at[d].lits = old /\ at2[d].lits = lits
      BY <1>2, <1>5 DEF old
    <3> QED
      BY <1>3, <2>4, <3>1 DEF InOrder
  <2> QED
    BY <2>3, <2>5
<1> QED
  BY <1>4, <1>5

MayPut(o, cr, lits) ==
    /\ cr \in DOMAIN o.ca.at /\ LongLits(lits, o.nextVar)
    /\ Val(o.assigns, o.ca.at[cr].lits[1]) = LTrue => Shrunk(lits, o.ca.at[cr].lits)

\* An object stays good when a clause is rearranged that implies nothing, or
\* keeps its first literal.
LEMMA PutGood ==
    ASSUME NEW o, NEW strict, GoodBut(o, strict), NEW cr, NEW lits, MayPut(o, cr, lits)
    PROVE  GoodBut(Put(o, cr, lits), strict)
<1> DEFINE t == Put(o, cr, lits)
           n == o.nextVar
<1>1. IsPut(o, cr, lits, t)
  BY PutFields DEF GoodBut, Region
<1> HIDE DEF t, n
<1>2. /\ t.clauses = o.clauses /\ t.learnts = o.learnts /\ t.watches = o.watches
      /\ t.trail = o.trail /\ t.trailLim = o.trailLim /\ t.assigns = o.assigns
      /\ t.reason = o.reason /\ t.level = o.level /\ t.nextVar = o.nextVar /\ t.qhead = o.qhead
      /\ t.releasedVars = o.releasedVars /\ t.freeVars = o.freeVars /\ t.decision = o.decision
      /\ t.ok = o.ok /\ t.useSimp = o.useSimp
  BY <1>1 DEF Same, Fields, IsPut, OnlyCa
<1>3. /\ IsObject(t) /\ IsRegion(t.ca) /\ t.ca.size = o.ca.size
      /\ t.ca.at = [o.ca.at EXCEPT ![cr] = [o.ca.at[cr] EXCEPT !.lits = lits]]
  BY <1>1 DEF IsPut
<1>4. cr \in DOMAIN o.ca.at /\ LongLits(lits, o.nextVar)
      /\ (Val(o.assigns, o.ca.at[cr].lits[1]) = LTrue => Shrunk(lits, o.ca.at[cr].lits))
  BY DEF MayPut
<1>5. DOMAIN t.ca.at = DOMAIN o.ca.at
  BY <1>3
<1>6. Types(t)
  BY <1>2 DEF GoodBut, Types
<1>7. Region(t.ca, t.nextVar)
  <2>1. Region(o.ca, o.nextVar)
    BY DEF GoodBut
  <2>2. Clauses(t.ca.at, o.nextVar)
    BY <1>3, <1>4, <2>1, PutClauses DEF Region
  <2> QED
    BY <1>2, <1>3, <1>5, <2>1, <2>2 DEF Region
<1>8. Reasons(t.trail, t.trailLim, t.reason, t.level, t.assigns, t.ca.at, strict)
  <2>1. /\ Reasons(o.trail, o.trailLim, o.reason, o.level, o.assigns, o.ca.at, strict)
        /\ \A i \in DOMAIN o.trail : Val(o.assigns, o.trail[i]) = LTrue
        /\ Clauses(o.ca.at, o.nextVar)
    BY DEF GoodBut, TrailRight, Region
  <2>2. Reasons(o.trail, o.trailLim, o.reason, o.level, o.assigns, t.ca.at, strict)
    BY <1>3, <1>4, <2>1, PutReasons
  <2> QED
    BY <1>2, <2>2
<1>9. GoodBut(t, strict)
  BY <1>2, <1>3, <1>5, <1>6, <1>7, <1>8 DEF GoodBut
<1> QED
  BY <1>9 DEF t

-------------------------------------------------------------------------------
(* Visiting the watchers of a literal p that became true.                      *)

\* p is true, and its place on the trail is of the last level.
JustTrue(t, p) ==
    /\ p \in LitsOf(t.nextVar) /\ Val(t.assigns, p) = LTrue
    /\ \E i \in DOMAIN t.trail : t.trail[i] = p /\ \A l \in DOMAIN t.trailLim : t.trailLim[l] < i

\* The watch list of p is about to be q.
Visiting(t, p, q, strict) ==
    /\ GoodBut(t, strict) /\ JustTrue(t, p) /\ p \notin t.watches.dirty
    /\ Lists([t.watches.occs EXCEPT ![p] = q], t.watches.dirty, t.ca.at, t.nextVar)
    /\ t.qhead <= Len(t.trail)

\* Every literal of the clause is false, and one was falsified at the last level.
ConflictRight(t, cr) ==
    /\ cr \in DOMAIN t.ca.at
    /\ \A k \in DOMAIN t.ca.at[cr].lits : Val(t.assigns, t.ca.at[cr].lits[k]) = LFalse
    /\ \E k \in DOMAIN t.ca.at[cr].lits : t.level[VarOf(t.ca.at[cr].lits[k])] = Len(t.trailLim)

\* A false literal was falsified before what comes next on the trail.
LEMMA FalseIsBefore ==
    ASSUME NEW n \in Nat, NEW assigns \in [VarsUpTo(n) -> Lbools], NEW trail \in Seq(LitsOf(n)),
           NEW lim, NEW level, TrailRight(trail, lim, assigns, level),
           NEW q \in LitsOf(n), Val(assigns, q) = LFalse
    PROVE  FalseBefore(q, Len(trail) + 1, trail, level, assigns)
<1>1. VarOf(q) \in VarsUpTo(n) /\ assigns[VarOf(q)] # LUndef
  <2>1. Val(assigns, q) # LUndef
    BY DEF LFalse, LUndef
  <2> QED
    BY <2>1, ValFacts, LitFacts
<1>2. level[VarOf(q)] = 0 \/ OnTrail(trail, VarOf(q))
  BY <1>1 DEF TrailRight
<1>3. CASE OnTrail(trail, VarOf(q))
  <2>1. PICK j \in DOMAIN trail : VarOf(trail[j]) = VarOf(q)
    BY <1>3 DEF OnTrail
  <2>2. trail[j] \in LitsOf(n) /\ Val(assigns, trail[j]) = LTrue
    BY DEF TrailRight
  <2>3. trail[j] # q
    BY <2>2 DEF LTrue, LFalse
  <2>4. trail[j] = Neg(q)
    BY <2>1, <2>2, <2>3, SameVar
  <2>5. j \in 1 .. (Len(trail) + 1) - 1
    OBVIOUS
  <2> QED
    BY <2>4, <2>5 DEF FalseBefore
<1> QED
  BY <1>2, <1>3 DEF FalseBefore

\* The kernel's types, by name.
LEMMA KernelTypes ==
    ASSUME NEW o, NEW strict, GoodBut(o, strict)
    PROVE  /\ o.nextVar \in Nat /\ o.assigns \in [VarsUpTo(o.nextVar) -> Lbools]
           /\ o.level \in [VarsUpTo(o.nextVar) -> Nat] /\ o.trail \in Seq(LitsOf(o.nextVar))
           /\ o.trailLim \in Seq(Nat) /\ o.qhead \in Nat
           /\ TrailRight(o.trail, o.trailLim, o.assigns, o.level)
           /\ Clauses(o.ca.at, o.nextVar)
BY DEF GoodBut, Types, Region

\* The level of a literal that is just true is the last one.
LEMMA JustTrueLevel ==
    ASSUME NEW t, NEW strict, GoodBut(t, strict), NEW p, JustTrue(t, p)
    PROVE  /\ t.level[VarOf(p)] = Len(t.trailLim)
           /\ Len(t.trail) \notin Range(t.trailLim)
<1>1. PICK i \in DOMAIN t.trail : t.trail[i] = p /\ \A l \in DOMAIN t.trailLim : t.trailLim[l] < i
  BY DEF JustTrue
<1>2. t.trailLim \in Seq(Nat) /\ t.trail \in Seq(LitsOf(t.nextVar))
  BY KernelTypes
<1>3. AtLevel(t.level[VarOf(p)], t.trailLim, i)
  BY <1>1, KernelTypes DEF TrailRight
<1>4. t.level[VarOf(p)] = Len(t.trailLim)
  <2>1. DOMAIN t.trailLim = 1 .. Len(t.trailLim) /\ Len(t.trailLim) \in Nat
    BY <1>2
  <2>2. CASE Len(t.trailLim) = 0
    BY <1>3, <2>1, <2>2 DEF AtLevel
  <2>3. CASE Len(t.trailLim) > 0
    BY <1>1, <1>3, <2>1, <2>3 DEF AtLevel
  <2> QED
    BY <2>1, <2>2, <2>3
<1>5. \A l \in DOMAIN t.trailLim : t.trailLim[l] # Len(t.trail)
  <2>1. i <= Len(t.trail) /\ i \in Nat /\ Len(t.trail) \in Nat
    BY <1>2
  <2>2. \A l \in DOMAIN t.trailLim : t.trailLim[l] \in Nat
    BY <1>2
  <2> QED
    BY <1>1, <2>1, <2>2
<1> QED
  BY <1>4, <1>5 DEF Range

\* cr is the clause of a watcher of p, old are its literals and lits as visited.
WatchedAs(t, p, cr, old, lits) ==
    /\ cr \in DOMAIN t.ca.at /\ t.ca.at[cr].mark # 1 /\ old = t.ca.at[cr].lits
    /\ LongLits(old, t.nextVar) /\ LongLits(lits, t.nextVar) /\ Len(lits) = Len(old)
    /\ lits[2] = Neg(p) /\ lits[1] # Neg(p) /\ {lits[1], lits[2]} = {old[1], old[2]}
    /\ Val(t.assigns, old[1]) = LTrue => lits = old

\* The clause behind a watcher that propagate() visits: one with the false
\* literal in front.
LEMMA WatchedClause ==
    ASSUME NEW t, NEW p, NEW q, NEW strict, Visiting(t, p, q, strict), NEW i \in DOMAIN q,
           NEW cr, cr = q[i].cref, NEW old, old = Lits(t, cr),
           NEW lits, lits = FalseSecond(old, p)
    PROVE  /\ q \in Seq(WatchersIn(t.ca.at)) /\ q[i].blocker \in Int
           /\ WatchedAs(t, p, cr, old, lits)
<1> DEFINE n == t.nextVar
<1>1. p \in LitsOf(n) /\ Val(t.assigns, p) = LTrue /\ p \notin t.watches.dirty
  BY DEF Visiting, JustTrue
<1>2. WatchList(p, q, t.watches.dirty, t.ca.at)
  <2>1. WatchList(p, [t.watches.occs EXCEPT ![p] = q][p], t.watches.dirty, t.ca.at)
    BY <1>1 DEF Visiting, Lists
  <2>2. p \in DOMAIN t.watches.occs
    BY <1>1 DEF Visiting, GoodBut, IsOccLists
  <2> QED
    BY <2>1, <2>2
<1>3. q \in Seq(WatchersIn(t.ca.at)) /\ Watches(p, t.ca.at[cr], t.watches.dirty)
  BY <1>2 DEF WatchList
<1>4. q[i] \in WatchersIn(t.ca.at)
  BY <1>3
<1>5. cr \in DOMAIN t.ca.at /\ q[i].blocker \in Int
  BY <1>4 DEF WatchersIn
<1>6. t.ca.at[cr].mark # 1 /\ Neg(p) \in {old[1], old[2]}
  BY <1>1, <1>3 DEF Watches, Lits
<1>7. LongLits(old, n)
  <2>1. Clauses(t.ca.at, n)
    BY KernelTypes DEF Visiting
  <2> QED
    BY <1>5, <2>1 DEF Clauses, IsClause, Lits
<1> HIDE DEF n
<1>8. /\ LongLits(lits, n) /\ Len(lits) = Len(old) /\ lits[2] = Neg(p) /\ lits[1] # Neg(p)
      /\ {lits[1], lits[2]} = {old[1], old[2]}
      /\ (old[1] # Neg(p) => lits = old)
  BY <1>6, <1>7, FalseSecondFacts
<1>9. Val(t.assigns, Neg(p)) = LFalse
  <2>1. n \in Nat /\ t.assigns \in [VarsUpTo(n) -> Lbools]
    BY KernelTypes DEF Visiting, n
  <2> QED
    BY <1>1, <2>1, ValFacts
<1>10. Val(t.assigns, old[1]) = LTrue => lits = old
  BY <1>8, <1>9 DEF LTrue, LFalse
<1> QED
  BY <1>3, <1>5, <1>6, <1>7, <1>8, <1>10 DEF n, WatchedAs, Lits

\* Every list is right once the list of p is q2 instead of q.
LEMMA ListsOf ==
    ASSUME NEW n, NEW occs, occs = [r \in LitsOf(n) |-> occs[r]], NEW dirty, NEW at,
           NEW p \in LitsOf(n), NEW q, Lists([occs EXCEPT ![p] = q], dirty, at, n),
           NEW q2, WatchList(p, q2, dirty, at)
    PROVE  Lists([occs EXCEPT ![p] = q2], dirty, at, n)
<1> DEFINE f == [occs EXCEPT ![p] = q]
<1>1. f = [r \in LitsOf(n) |-> f[r]] /\ [f EXCEPT ![p] = q2] = [occs EXCEPT ![p] = q2]
  OBVIOUS
<1> HIDE DEF f
<1>2. Lists(f, dirty, at, n)
  BY DEF f
<1>3. Lists([f EXCEPT ![p] = q2], dirty, at, n)
  BY <1>1, <1>2, ListsReplaced
<1> QED
  BY <1>1, <1>3

\* A watcher is replaced by another of the same clause.
LEMMA ListRewatched ==
    ASSUME NEW p, NEW q, NEW dirty, NEW at, WatchList(p, q, dirty, at), NEW i \in DOMAIN q,
           NEW w \in WatchersIn(at), w.cref = q[i].cref
    PROVE  WatchList(p, [q EXCEPT ![i] = w], dirty, at)
<1> DEFINE q2 == [q EXCEPT ![i] = w]
           m == [j \in DOMAIN q2 |-> j]
<1>1. q \in Seq(WatchersIn(at))
  BY DEF WatchList
<1>2. q2 \in Seq(WatchersIn(at)) /\ DOMAIN q2 = DOMAIN q
  BY <1>1
<1>3. \A j \in DOMAIN q : q2[j] = IF j = i THEN w ELSE q[j]
  BY <1>1
<1> HIDE DEF q2
<1>4. TakenFrom(q2, q, m)
  BY <1>2, <1>3 DEF TakenFrom
<1> HIDE DEF m
<1>5. WatchList(p, q2, dirty, at)
  BY <1>2, <1>4, ListShrunk
<1> QED
  BY <1>5 DEF q2

\* The clause of a watcher changes its literals as visited, and the watcher its blocker.
LEMMA PutStep ==
    ASSUME NEW t, NEW p, NEW q, NEW strict, Visiting(t, p, q, strict), NEW i \in DOMAIN q,
           NEW cr, cr = q[i].cref, NEW old, old = Lits(t, cr),
           NEW lits, lits = FalseSecond(old, p), NEW b \in Int
    PROVE  Visiting(Put(t, cr, lits), p, [q EXCEPT ![i] = Watcher(cr, b)], strict)
<1> DEFINE u == Put(t, cr, lits)
           n == t.nextVar
           q2 == [q EXCEPT ![i] = Watcher(cr, b)]
           c2 == [t.ca.at[cr] EXCEPT !.lits = lits]
<1>1. /\ q \in Seq(WatchersIn(t.ca.at)) /\ cr \in DOMAIN t.ca.at
      /\ LongLits(old, n) /\ LongLits(lits, n)
      /\ {lits[1], lits[2]} = {old[1], old[2]}
      /\ Val(t.assigns, old[1]) = LTrue => lits = old
  <2>1. q \in Seq(WatchersIn(t.ca.at)) /\ WatchedAs(t, p, cr, old, lits)
    BY WatchedClause
  <2> QED
    BY <2>1 DEF WatchedAs, n
<1>2. old = t.ca.at[cr].lits
  BY DEF Lits
<1>3. Shrunk(old, old)
  BY DEF Shrunk
<1> HIDE DEF u, n
<1>4. MayPut(t, cr, lits)
  BY <1>1, <1>2, <1>3 DEF MayPut, n
<1>5. GoodBut(t, strict) /\ JustTrue(t, p) /\ p \notin t.watches.dirty
      /\ Lists([t.watches.occs EXCEPT ![p] = q], t.watches.dirty, t.ca.at, n)
      /\ t.qhead <= Len(t.trail)
  BY DEF Visiting, n
<1>6. GoodBut(u, strict)
  BY <1>4, <1>5, PutGood DEF u
<1>7. IsPut(t, cr, lits, u)
  BY <1>5, PutFields DEF GoodBut, Region, u
<1>8. /\ u.watches = t.watches /\ u.trail = t.trail /\ u.trailLim = t.trailLim
      /\ u.assigns = t.assigns /\ u.nextVar = n /\ u.qhead = t.qhead
  BY <1>7 DEF Same, Fields, IsPut, OnlyCa, n
<1>9. u.ca.at = [t.ca.at EXCEPT ![cr] = c2]
  BY <1>7 DEF IsPut
<1>10. c2.lits = lits /\ c2.mark = t.ca.at[cr].mark
  <2>1. IsClause(t.ca.at[cr], n)
    BY <1>1, <1>5, KernelTypes DEF Clauses, n
  <2> QED
    BY <2>1 DEF IsClause
<1> HIDE DEF c2
<1>11. Lists([t.watches.occs EXCEPT ![p] = q], t.watches.dirty, u.ca.at, n)
  <2> DEFINE f == [t.watches.occs EXCEPT ![p] = q]
             d == t.watches.dirty
             at == t.ca.at
  <2>1. Lists(f, d, at, n)
    BY <1>5
  <2>2. {c2.lits[1], c2.lits[2]} = {at[cr].lits[1], at[cr].lits[2]} /\ cr \in DOMAIN at
        /\ c2.mark = at[cr].mark /\ u.ca.at = [at EXCEPT ![cr] = c2]
    BY <1>1, <1>2, <1>9, <1>10
  <2> HIDE DEF f, d, at
  <2>3. Lists(f, d, u.ca.at, n)
    BY <2>1, <2>2, ListsKept
  <2> QED
    BY <2>3 DEF f, d
<1>12. p \in LitsOf(n) /\ t.watches.occs = [r \in LitsOf(n) |-> t.watches.occs[r]]
  BY <1>5 DEF JustTrue, GoodBut, IsOccLists, n
<1>13. WatchList(p, q, t.watches.dirty, u.ca.at)
  <2>1. WatchList(p, [t.watches.occs EXCEPT ![p] = q][p], t.watches.dirty, u.ca.at)
    BY <1>11, <1>12 DEF Lists
  <2>2. [t.watches.occs EXCEPT ![p] = q][p] = q
    BY <1>12
  <2> QED
    BY <2>1, <2>2
<1>14. Watcher(cr, b) \in WatchersIn(u.ca.at) /\ Watcher(cr, b).cref = cr
  BY <1>1, <1>9 DEF Watcher, WatchersIn
<1>15. WatchList(p, q2, t.watches.dirty, u.ca.at)
  BY <1>13, <1>14, ListRewatched
<1> HIDE DEF q2
<1>16. Lists([t.watches.occs EXCEPT ![p] = q2], t.watches.dirty, u.ca.at, n)
  BY <1>11, <1>12, <1>15, ListsOf
<1>17. JustTrue(u, p)
  BY <1>5, <1>8 DEF JustTrue, n
<1>18. Visiting(u, p, q2, strict)
  BY <1>5, <1>6, <1>8, <1>16, <1>17 DEF Visiting
<1> QED
  BY <1>18 DEF u, q2

Rewatch(o, ws) == [o EXCEPT !.watches = ws]
OnlyWatches == {"watches"}

\* The fields an object with other watch lists keeps.
LEMMA RewatchFields ==
    ASSUME NEW o, IsObject(o), NEW ws
    PROVE  IsObject(Rewatch(o, ws)) /\ Rewatch(o, ws).watches = ws /\ Same(o, Rewatch(o, ws), OnlyWatches)
BY DEF Rewatch, IsObject, Same, Fields, OnlyWatches

\* An object stays good, but for what is watched, with other lists of the right
\* type.
LEMMA RewatchGood ==
    ASSUME NEW o, NEW strict, GoodBut(o, strict), NEW ws, IsOccLists(ws, o.nextVar)
    PROVE  GoodBut(Rewatch(o, ws), strict)
<1> DEFINE t == Rewatch(o, ws)
<1>1. IsObject(o)
  BY DEF GoodBut
<1>2. IsObject(t) /\ t.watches = ws /\ Same(o, t, OnlyWatches)
  BY <1>1, RewatchFields
<1> HIDE DEF t
<1>3. /\ t.ca = o.ca /\ t.clauses = o.clauses /\ t.learnts = o.learnts
      /\ t.trail = o.trail /\ t.trailLim = o.trailLim /\ t.assigns = o.assigns
      /\ t.reason = o.reason /\ t.level = o.level /\ t.nextVar = o.nextVar
      /\ t.releasedVars = o.releasedVars /\ t.freeVars = o.freeVars /\ t.decision = o.decision
      /\ t.ok = o.ok /\ t.useSimp = o.useSimp /\ t.qhead = o.qhead
  BY <1>2 DEF Same, Fields, OnlyWatches
<1>4. Types(t)
  BY <1>3 DEF GoodBut, Types
<1>5. GoodBut(t, strict)
  BY <1>2, <1>3, <1>4 DEF GoodBut
<1> QED
  BY <1>5 DEF t

\* A watcher put at the end of a list.
IsPushed(ws, p, w, t, n) ==
    /\ IsOccLists(t, n) /\ t.occs = [ws.occs EXCEPT ![p] = Append(@, w)]
    /\ t.dirty = ws.dirty

\* What a watcher pushed onto one list leaves of the others.
LEMMA PushOccFields ==
    ASSUME NEW n, NEW ws, IsOccLists(ws, n), NEW p \in LitsOf(n), NEW w
    PROVE  IsPushed(ws, p, w, PushOcc(ws, p, w), n)
<1> DEFINE t == PushOcc(ws, p, w)
           f == [ws.occs EXCEPT ![p] = Append(@, w)]
<1>1. ws = [occs |-> ws.occs, dirty |-> ws.dirty] /\ ws.dirty \subseteq LitsOf(n)
      /\ ws.occs = [r \in LitsOf(n) |-> ws.occs[r]]
  BY DEF IsOccLists
<1>2. t = [ws EXCEPT !.occs = f]
  BY DEF PushOcc
<1>3. f = [r \in LitsOf(n) |-> f[r]]
  BY <1>1
<1> HIDE DEF t, f
<1>4. t = [occs |-> f, dirty |-> ws.dirty]
  BY <1>1, <1>2
<1>5. IsOccLists(t, n)
  BY <1>1, <1>3, <1>4 DEF IsOccLists
<1> QED
  BY <1>4, <1>5 DEF t, f, IsPushed

\* q2 is q without its element i.
Without(q, i, q2) ==
    /\ Len(q2) = Len(q) - 1
    /\ \A j \in 1 .. i - 1 : q2[j] = q[j]
    /\ \A j \in i .. Len(q2) : q2[j] = q[j + 1]

\* t is q with its second literal exchanged for the one at k.
SecondFrom(q, k, t, n) ==
    /\ LongLits(t, n) /\ t[1] = q[1] /\ t[2] = q[k]
    /\ k \in DOMAIN q /\ q[k] \in LitsOf(n) /\ q[k] # q[1] /\ q[k] # q[2]

\* The false literal exchanged for a later one (Solver.cc:539-543).
LEMMA SwapSecond ==
    ASSUME NEW n, NEW q, LongLits(q, n), NEW k \in 3 .. Len(q)
    PROVE  SecondFrom(q, k, Swap(q, 2, k), n)
<1>1. q \in Seq(LitsOf(n)) /\ Len(q) >= 2 /\ Distinct(q)
  BY DEF LongLits
<1>2. 1 \in DOMAIN q /\ 2 \in DOMAIN q /\ k \in DOMAIN q /\ q[k] \in LitsOf(n) /\ 1 # 2
      /\ 1 # k /\ 2 # k
  BY <1>1
<1>3. q[k] # q[1] /\ q[k] # q[2]
  BY <1>1, <1>2 DEF Distinct
<1>4. LongLits(Swap(q, 2, k), n)
  BY <1>2, SwapFacts
<1>5. Swap(q, 2, k)[2] = q[k]
  BY <1>2, SwapFacts
<1>6. Swap(q, 2, k)[1] = q[1]
  BY <1>2, SwapFacts
<1> QED
  BY <1>2, <1>3, <1>4, <1>5, <1>6 DEF SecondFrom

\* A clause whose second literal is exchanged for one that is not false moves to
\* the list of that one.
LEMMA MoveStep ==
    ASSUME NEW t, NEW p, NEW q, NEW strict, Visiting(t, p, q, strict), NEW i \in DOMAIN q,
           NEW cr, cr = q[i].cref, NEW old, old = Lits(t, cr),
           NEW lits, lits = FalseSecond(old, p), NEW b \in Int,
           Val(t.assigns, old[1]) # LTrue,
           NEW k \in 3 .. Len(lits),
           NEW q2, q2 \in Seq(WatchersIn(t.ca.at)), Without(q, i, q2),
           NEW o, o = Put(t, cr, Swap(lits, 2, k)),
           NEW u, u = Rewatch(o, PushOcc(o.watches, Neg(lits[k]), Watcher(cr, b)))
    PROVE  Visiting(u, p, q2, strict)
<1> DEFINE n == t.nextVar
           new == Swap(lits, 2, k)
           l == lits[k]
           f == lits[1]
           w == Watcher(cr, b)
           c2 == [t.ca.at[cr] EXCEPT !.lits = new]
           at == t.ca.at
           at2 == o.ca.at
           occs == [t.watches.occs EXCEPT ![p] = q]
           d == t.watches.dirty
<1>1. q \in Seq(WatchersIn(t.ca.at)) /\ WatchedAs(t, p, cr, old, lits)
  BY WatchedClause
<1>2. /\ cr \in DOMAIN at /\ at[cr].mark # 1 /\ old = at[cr].lits
      /\ LongLits(lits, n) /\ lits[2] = Neg(p) /\ {lits[1], lits[2]} = {old[1], old[2]}
  BY <1>1 DEF WatchedAs
<1>5. /\ LongLits(new, n) /\ new[1] = f /\ new[2] = l /\ k \in DOMAIN lits
      /\ l \in LitsOf(n) /\ l # f /\ l # Neg(p)
  <2>1. SecondFrom(lits, k, Swap(lits, 2, k), n)
    BY <1>2, SwapSecond
  <2> QED
    BY <1>2, <2>1 DEF SecondFrom
<1>6. GoodBut(t, strict) /\ JustTrue(t, p) /\ p \notin d /\ Lists(occs, d, at, n)
      /\ t.qhead <= Len(t.trail)
  BY DEF Visiting
<1>7. n \in Nat /\ p \in LitsOf(n) /\ IsOccLists(t.watches, n) /\ Clauses(at, n)
  BY <1>6, KernelTypes DEF GoodBut, JustTrue
<1> HIDE DEF new, l, f, c2, at, at2, occs, d, n
<1>8. GoodBut(o, strict) /\ IsPut(t, cr, new, o)
  <2>1. MayPut(t, cr, new)
    BY <1>2, <1>5 DEF MayPut, n, at
  <2>2. IsObject(t) /\ IsRegion(t.ca)
    BY <1>6 DEF GoodBut, Region
  <2> QED
    BY <1>6, <2>1, <2>2, PutGood, PutFields DEF new
<1>9. /\ o.watches = t.watches /\ o.trail = t.trail /\ o.trailLim = t.trailLim
      /\ o.assigns = t.assigns /\ o.nextVar = n /\ o.qhead = t.qhead
  BY <1>8 DEF Same, Fields, IsPut, OnlyCa, n
<1>10. at2 = [at EXCEPT ![cr] = c2]
  BY <1>8 DEF IsPut, at2, at, c2
<1>11. c2.mark = at[cr].mark /\ c2.lits[1] = f /\ c2.lits[2] = l
  <2>1. IsClause(at[cr], n)
    BY <1>2, <1>7 DEF Clauses
  <2> QED
    BY <1>5, <2>1 DEF IsClause, c2, at
<1> DEFINE ws == PushOcc(t.watches, Neg(l), w)
<1>12. /\ IsOccLists(ws, n) /\ ws.occs = [t.watches.occs EXCEPT ![Neg(l)] = Append(@, w)]
       /\ ws.dirty = d
  <2>1. Neg(l) \in LitsOf(n)
    BY <1>5, <1>7, LitFacts
  <2>2. IsPushed(t.watches, Neg(l), w, ws, n)
    BY <1>7, <2>1, PushOccFields
  <2> QED
    BY <2>2 DEF d, IsPushed
<1> HIDE DEF ws
<1>13. u = Rewatch(o, ws)
  BY <1>9 DEF ws, l
<1>14. GoodBut(u, strict)
  BY <1>8, <1>9, <1>12, <1>13, RewatchGood
<1>15. IsObject(u) /\ u.watches = ws /\ Same(o, u, OnlyWatches)
  BY <1>8, <1>13, RewatchFields DEF GoodBut
<1>16. /\ u.trail = t.trail /\ u.trailLim = t.trailLim
       /\ u.assigns = t.assigns /\ u.nextVar = n /\ u.qhead = t.qhead /\ u.ca.at = at2
  BY <1>9, <1>15 DEF Same, Fields, OnlyWatches, at2
<1>17. t.watches.occs = [r \in LitsOf(n) |-> t.watches.occs[r]] /\ occs = [r \in LitsOf(n) |-> occs[r]]
       /\ occs[p] = q
  BY <1>7 DEF IsOccLists, occs
<1>18. w \in WatchersIn(at) /\ w.cref = cr
  BY <1>2 DEF Watcher, WatchersIn
<1> HIDE DEF w
<1> DEFINE moved == [occs EXCEPT ![p] = q2, ![Neg(l)] = Append(@, w)]
<1>19. Lists(moved, d, at2, n)
  <2>1. {at[cr].lits[1], at[cr].lits[2]} \subseteq {f, Neg(p)}
    BY <1>2 DEF f
  <2>2. Len(q2) = Len(occs[p]) - 1 /\ (\A j \in 1 .. i - 1 : q2[j] = occs[p][j])
        /\ \A j \in i .. Len(q2) : q2[j] = occs[p][j + 1]
    BY <1>17 DEF Without
  <2>3. i \in DOMAIN occs[p] /\ cr = occs[p][i].cref
    BY <1>17
  <2>4. q2 \in Seq(WatchersIn(at))
    BY DEF at
  <2> HIDE DEF moved
  <2>5. MovesTo(occs, at, p, i, f, l, c2, at2, q2, w)
    BY <1>2, <1>5, <1>10, <1>11, <1>17, <1>18, <2>1, <2>2, <2>3, <2>4 DEF MovesTo
  <2>6. l \in LitsOf(n) /\ n \in Nat /\ p \in LitsOf(n) /\ Lists(occs, d, at, n)
        /\ occs = [r \in LitsOf(n) |-> occs[r]]
    BY <1>5, <1>6, <1>7, <1>17
  <2>7. Lists([occs EXCEPT ![p] = q2, ![Neg(l)] = Append(@, w)], d, at2, n)
    BY <2>5, <2>6, ListsMoved
  <2> QED
    BY <2>7 DEF moved
<1>20. [ws.occs EXCEPT ![p] = q2] = moved
  <2>1. Neg(l) \in LitsOf(n) /\ Neg(l) # p
    BY <1>5, <1>7, LitFacts
  <2> QED
    BY <1>7, <1>12, <1>17, <2>1 DEF occs
<1> HIDE DEF moved
<1>21. JustTrue(u, p)
  BY <1>6, <1>16 DEF JustTrue, n
<1> QED
  BY <1>6, <1>12, <1>14, <1>15, <1>16, <1>19, <1>20, <1>21 DEF Visiting

\* The clause is as visited, and its watches are in place.
Arranged(t, p, cr, lits, o) ==
    /\ cr \in DOMAIN o.ca.at /\ o.ca.at[cr].lits = lits /\ o.ca.at[cr].mark # 1
    /\ cr # CRefUndef /\ cr \in Int
    /\ LongLits(lits, o.nextVar) /\ lits[2] = Neg(p)
    /\ o.watches = t.watches /\ o.trail = t.trail /\ o.trailLim = t.trailLim
    /\ o.assigns = t.assigns /\ o.level = t.level /\ o.nextVar = t.nextVar
    /\ o.qhead = t.qhead /\ Same(t, o, OnlyCa)

\* The clause of a watcher may be written back with the false literal second
\* (Solver.cc:527-529).
LEMMA PutArranges ==
    ASSUME NEW t, NEW p, NEW q, NEW strict, Visiting(t, p, q, strict), NEW i \in DOMAIN q,
           NEW cr, cr = q[i].cref, NEW old, old = Lits(t, cr),
           NEW lits, lits = FalseSecond(old, p)
    PROVE  Arranged(t, p, cr, lits, Put(t, cr, lits))
<1> DEFINE o == Put(t, cr, lits)
<1>1. WatchedAs(t, p, cr, old, lits)
  BY WatchedClause
<1>2. cr \in DOMAIN t.ca.at /\ t.ca.at[cr].mark # 1 /\ LongLits(lits, t.nextVar) /\ lits[2] = Neg(p)
  BY <1>1 DEF WatchedAs
<1>3. IsObject(t) /\ IsRegion(t.ca) /\ DOMAIN t.ca.at \subseteq 0 .. t.ca.size - 1 /\ t.ca.size \in Nat
      /\ Clauses(t.ca.at, t.nextVar)
  BY DEF Visiting, GoodBut, Region
<1>4. IsPut(t, cr, lits, o)
  BY <1>3, PutFields
<1> HIDE DEF o
<1>5. o.ca.at = [t.ca.at EXCEPT ![cr] = [t.ca.at[cr] EXCEPT !.lits = lits]] /\ Same(t, o, OnlyCa)
  BY <1>4 DEF IsPut
<1>6. o.watches = t.watches /\ o.trail = t.trail /\ o.trailLim = t.trailLim
      /\ o.assigns = t.assigns /\ o.level = t.level /\ o.nextVar = t.nextVar
      /\ o.qhead = t.qhead
  BY <1>5 DEF Same, Fields, OnlyCa
<1>7. IsClause(t.ca.at[cr], t.nextVar)
  BY <1>2, <1>3 DEF Clauses
<1>8. cr \in DOMAIN o.ca.at /\ o.ca.at[cr].lits = lits /\ o.ca.at[cr].mark # 1
  BY <1>2, <1>5, <1>7 DEF IsClause
<1>9. cr # CRefUndef /\ cr \in Int
  BY <1>2, <1>3 DEF CRefUndef
<1> QED
  BY <1>2, <1>5, <1>6, <1>8, <1>9 DEF Arranged, o

\* All literals of the clause but the first are false.
OthersFalse(t, lits) == \A k \in 3 .. Len(lits) : Val(t.assigns, lits[k]) = LFalse

\* A clause whose other literals are false may be the reason of its first one.
LEMMA OthersAllFalse ==
    ASSUME NEW t, NEW strict, GoodBut(t, strict), NEW p \in LitsOf(t.nextVar),
           Val(t.assigns, p) = LTrue, NEW lits, LongLits(lits, t.nextVar), lits[2] = Neg(p),
           OthersFalse(t, lits)
    PROVE  AllFalse(lits, Len(t.trail) + 1, t.trail, t.level, t.assigns)
<1> SUFFICES ASSUME NEW k \in 2 .. Len(lits)
             PROVE  FalseBefore(lits[k], Len(t.trail) + 1, t.trail, t.level, t.assigns)
  BY DEF AllFalse
<1> DEFINE n == t.nextVar
<1>1. n \in Nat /\ t.assigns \in [VarsUpTo(n) -> Lbools] /\ t.trail \in Seq(LitsOf(n))
      /\ TrailRight(t.trail, t.trailLim, t.assigns, t.level)
  BY KernelTypes
<1>2. lits \in Seq(LitsOf(n)) /\ Len(lits) \in Nat /\ lits[k] \in LitsOf(n)
  BY DEF LongLits
<1>3. Val(t.assigns, lits[k]) = LFalse
  <2>1. CASE k = 2
    BY <1>1, <2>1, ValFacts
  <2>2. CASE k # 2
    <3>1. k \in 3 .. Len(lits)
      BY <1>2, <2>2
    <3> QED
      BY <3>1 DEF OthersFalse
  <2> QED
    BY <2>1, <2>2
<1> HIDE DEF n
<1> QED
  BY <1>1, <1>2, <1>3, FalseIsBefore

\* p stays just true when another literal is enqueued.
LEMMA JustTrueStays ==
    ASSUME NEW o, NEW strict, GoodBut(o, strict), NEW p, JustTrue(o, p), NEW l \in LitsOf(o.nextVar),
           Val(o.assigns, l) = LUndef, NEW u, u.assigns = Assigned(o.assigns, l),
           u.trail = Append(o.trail, l), u.trailLim = o.trailLim, u.nextVar = o.nextVar
    PROVE  JustTrue(u, p)
<1> DEFINE n == o.nextVar
<1>1. n \in Nat /\ o.assigns \in [VarsUpTo(n) -> Lbools] /\ o.trail \in Seq(LitsOf(n))
  BY KernelTypes
<1>2. p \in LitsOf(n) /\ Val(o.assigns, p) = LTrue
  BY DEF JustTrue
<1>3. PICK i \in DOMAIN o.trail : o.trail[i] = p /\ \A m \in DOMAIN o.trailLim : o.trailLim[m] < i
  BY DEF JustTrue
<1>4. VarOf(p) # VarOf(l)
  <2>1. o.assigns[VarOf(p)] # LUndef /\ o.assigns[VarOf(l)] = LUndef
    BY <1>1, <1>2, ValFacts DEF LTrue, LUndef
  <2> QED
    BY <2>1
<1>5. Val(u.assigns, p) = LTrue
  BY <1>1, <1>2, <1>4, ValAssigned
<1>6. i \in DOMAIN u.trail /\ u.trail[i] = p
  BY <1>1, <1>3, Appended
<1> QED
  BY <1>2, <1>3, <1>5, <1>6 DEF JustTrue

\* The first literal of a clause whose others are false is implied.
LEMMA EnqueueStep ==
    ASSUME NEW t, NEW p, NEW q, NEW strict, Visiting(t, p, q, strict), NEW i \in DOMAIN q,
           NEW cr, cr = q[i].cref, NEW old, old = Lits(t, cr),
           NEW lits, lits = FalseSecond(old, p), NEW b \in Int,
           Val(t.assigns, lits[1]) = LUndef, OthersFalse(t, lits),
           NEW u, u = UncheckedEnqueue(Put(t, cr, lits), lits[1], cr)
    PROVE  /\ Visiting(u, p, [q EXCEPT ![i] = Watcher(cr, b)], strict)
           /\ IsEnqueued(Put(t, cr, lits), lits[1], cr, u)
<1> DEFINE o == Put(t, cr, lits)
           f == lits[1]
           q2 == [q EXCEPT ![i] = Watcher(cr, b)]
<1>1. Visiting(o, p, q2, strict)
  BY PutStep
<1>2. Arranged(t, p, cr, lits, o)
  BY PutArranges
<1> HIDE DEF o, q2
<1>3. GoodBut(o, strict) /\ JustTrue(o, p) /\ p \notin o.watches.dirty /\ o.qhead <= Len(o.trail)
      /\ Lists([o.watches.occs EXCEPT ![p] = q2], o.watches.dirty, o.ca.at, o.nextVar)
  BY <1>1 DEF Visiting
<1>4. /\ cr \in DOMAIN o.ca.at /\ o.ca.at[cr].lits = lits /\ o.ca.at[cr].mark # 1
      /\ cr # CRefUndef /\ cr \in Int
      /\ LongLits(lits, o.nextVar) /\ lits[2] = Neg(p)
      /\ o.assigns = t.assigns
  BY <1>2 DEF Arranged
<1>5. p \in LitsOf(o.nextVar) /\ Val(o.assigns, p) = LTrue
  BY <1>3 DEF JustTrue
<1>6. AllFalse(o.ca.at[cr].lits, Len(o.trail) + 1, o.trail, o.level, o.assigns)
  <2>1. OthersFalse(o, lits)
    BY <1>4 DEF OthersFalse
  <2> QED
    BY <1>3, <1>4, <1>5, <2>1, OthersAllFalse
<1>7. Len(o.trail) \notin Range(o.trailLim)
  BY <1>3, JustTrueLevel
<1>8. f \in LitsOf(o.nextVar) /\ Val(o.assigns, f) = LUndef
  <2>1. lits \in Seq(LitsOf(o.nextVar)) /\ Len(lits) >= 2
    BY <1>4 DEF LongLits
  <2>2. 1 \in DOMAIN lits
    BY <2>1
  <2> QED
    BY <1>4, <2>1, <2>2
<1>9. Enqueueable(o, f, cr, strict)
  <2>1. IsReason(cr, f, o.ca.at)
    BY <1>4 DEF IsReason
  <2>2. MayFollow(f, cr, o.trail, o.trailLim, o.level, o.assigns, o.ca.at, strict)
    BY <1>4, <1>6, <1>7, <2>1 DEF MayFollow
  <2> QED
    BY <1>4, <1>8, <2>2 DEF Enqueueable, Refs
<1>10. u = UncheckedEnqueue(o, f, cr)
  BY DEF o
<1> HIDE DEF f
<1>11. GoodBut(u, strict)
  BY <1>3, <1>9, <1>10, EnqueueGood
<1>12. IsEnqueued(o, f, cr, u)
  BY <1>3, <1>10, Enqueued DEF GoodBut
<1>13. u.assigns = Assigned(o.assigns, f) /\ u.trail = Append(o.trail, f)
       /\ Same(o, u, EnqueueFields)
  BY <1>12 DEF IsEnqueued
<1>14. u.trailLim = o.trailLim /\ u.nextVar = o.nextVar /\ u.ca = o.ca /\ u.watches = o.watches
       /\ u.qhead = o.qhead
  BY <1>13 DEF Same, Fields, EnqueueFields
<1>15. JustTrue(u, p)
  BY <1>3, <1>8, <1>13, <1>14, JustTrueStays
<1>16. u.qhead <= Len(u.trail)
  <2>1. o.trail \in Seq(LitsOf(o.nextVar)) /\ o.qhead \in Nat
    BY <1>3, KernelTypes
  <2>2. Len(u.trail) = Len(o.trail) + 1 /\ Len(o.trail) \in Nat
    BY <1>8, <1>13, <2>1, Appended
  <2> QED
    BY <1>3, <1>14, <2>1, <2>2
<1>17. Visiting(u, p, q2, strict)
  BY <1>3, <1>11, <1>14, <1>15, <1>16 DEF Visiting
<1> QED
  BY <1>12, <1>17 DEF o, f, q2

OnlyHead == {"qhead"}
Headed(t, h) == [t EXCEPT !.qhead = h]

\* The queue's head moves.
LEMMA HeadMoves ==
    ASSUME NEW t, NEW p, NEW q, NEW strict, Visiting(t, p, q, strict), NEW h \in Nat,
           h <= Len(t.trail), NEW u, u = Headed(t, h)
    PROVE  Visiting(u, p, q, strict) /\ u.qhead = h /\ Same(t, u, OnlyHead) /\ IsObject(u)
<1>1. GoodBut(t, strict) /\ IsObject(t)
  BY DEF Visiting, GoodBut
<1>2. IsObject(u) /\ u.qhead = h /\ Same(t, u, OnlyHead)
  BY <1>1 DEF IsObject, Same, Fields, OnlyHead, Headed
<1>3. OnlyHead \intersect Kernel = {}
  BY DEF Kernel, OnlyHead
<1>4. /\ u.trail = t.trail /\ u.trailLim = t.trailLim /\ u.assigns = t.assigns
      /\ u.nextVar = t.nextVar /\ u.ca = t.ca /\ u.watches = t.watches
  BY <1>2 DEF Same, Fields, OnlyHead
<1>5. GoodBut(u, strict)
  BY <1>1, <1>2, <1>3, AsGood
<1>6. Visiting(u, p, q, strict)
  BY <1>2, <1>4, <1>5 DEF Visiting, JustTrue
<1> QED
  BY <1>2, <1>6

\* A clause all of whose literals are false.
LEMMA ConflictStep ==
    ASSUME NEW t, NEW p, NEW q, NEW strict, Visiting(t, p, q, strict), NEW i \in DOMAIN q,
           NEW cr, cr = q[i].cref, NEW old, old = Lits(t, cr),
           NEW lits, lits = FalseSecond(old, p), NEW b \in Int,
           Val(t.assigns, lits[1]) = LFalse, OthersFalse(t, lits),
           NEW u, u = Headed(Put(t, cr, lits), Len(t.trail))
    PROVE  /\ Visiting(u, p, [q EXCEPT ![i] = Watcher(cr, b)], strict)
           /\ ConflictRight(u, cr) /\ u.qhead = Len(u.trail)
           /\ IsObject(u) /\ Same(Put(t, cr, lits), u, OnlyHead)
<1> DEFINE o == Put(t, cr, lits)
           q2 == [q EXCEPT ![i] = Watcher(cr, b)]
           h == Len(t.trail)
<1>1. Visiting(o, p, q2, strict)
  BY PutStep
<1>2. Arranged(t, p, cr, lits, o)
  BY PutArranges
<1> HIDE DEF o, q2
<1>3. u = Headed(o, h) /\ h \in Nat /\ h <= Len(o.trail) /\ h = Len(o.trail)
  <2>1. t.trail \in Seq(LitsOf(t.nextVar))
    BY KernelTypes DEF Visiting
  <2> QED
    BY <1>2, <2>1 DEF o, Arranged, Headed
<1> HIDE DEF h
<1>4. Visiting(u, p, q2, strict) /\ u.qhead = h /\ Same(o, u, OnlyHead) /\ IsObject(u)
  BY <1>1, <1>3, HeadMoves
<1>5. /\ cr \in DOMAIN o.ca.at /\ o.ca.at[cr].lits = lits
      /\ LongLits(lits, o.nextVar) /\ lits[2] = Neg(p) /\ o.assigns = t.assigns
  BY <1>2 DEF Arranged
<1>6. u.ca = o.ca /\ u.assigns = o.assigns /\ u.level = o.level /\ u.trailLim = o.trailLim
      /\ u.trail = o.trail
  BY <1>4 DEF Same, Fields, OnlyHead
<1>7. GoodBut(o, strict) /\ JustTrue(o, p)
  BY <1>1 DEF Visiting
<1>8. o.level[VarOf(p)] = Len(o.trailLim) /\ p \in LitsOf(o.nextVar) /\ o.nextVar \in Nat
      /\ Val(o.assigns, p) = LTrue /\ o.assigns \in [VarsUpTo(o.nextVar) -> Lbools]
  BY <1>7, JustTrueLevel, KernelTypes DEF JustTrue
<1>9. 2 \in DOMAIN lits /\ VarOf(lits[2]) = VarOf(p)
  <2>1. lits \in Seq(LitsOf(o.nextVar)) /\ Len(lits) >= 2
    BY <1>5 DEF LongLits
  <2>2. 2 \in DOMAIN lits
    BY <2>1
  <2> QED
    BY <1>5, <1>8, <2>2, LitFacts
<1>10. ASSUME NEW k \in DOMAIN lits
       PROVE  Val(o.assigns, lits[k]) = LFalse
  <2>1. lits \in Seq(LitsOf(o.nextVar)) /\ Len(lits) \in Nat /\ DOMAIN lits = 1 .. Len(lits)
    BY <1>5 DEF LongLits
  <2>2. k = 1 \/ k = 2 \/ k \in 3 .. Len(lits)
    BY <2>1
  <2>3. Val(o.assigns, Neg(p)) = LFalse
    BY <1>8, ValFacts
  <2> QED
    BY <1>5, <2>2, <2>3 DEF OthersFalse
<1>11. ConflictRight(u, cr)
  BY <1>5, <1>6, <1>8, <1>9, <1>10 DEF ConflictRight
<1> QED
  BY <1>3, <1>4, <1>6, <1>11 DEF o, q2

\* What two steps leave alone, both leave alone.
LEMMA SameTwice ==
    ASSUME NEW o, NEW t, NEW u, NEW fs, NEW gs, NEW hs, Same(o, t, fs), Same(t, u, gs),
           fs \subseteq hs, gs \subseteq hs
    PROVE  Same(o, u, hs)
BY DEF Same

\* What a visit may change.
VisitFields == {"ca", "watches", "trail", "assigns", "reason", "level", "qhead"}

WatcherSet == [cref : Int, blocker : Int]

IsAcc(r) == r = [s |-> r.s, kept |-> r.kept, confl |-> r.confl]

VisitKept(a, r, p, q, i, strict) ==
    \E w \in WatcherSet : /\ r.kept = Append(a.kept, w)
                        /\ Visiting(r.s, p, [q EXCEPT ![i] = w], strict)

VisitMoved(a, r, p, q, i, strict) ==
    /\ r.kept = a.kept
    /\ \A q2 \in Seq(WatchersIn(a.s.ca.at)) : Without(q, i, q2) => Visiting(r.s, p, q2, strict)

VisitConfl(a, r) ==
    \/ r.confl = a.confl /\ (r.confl # CRefUndef => r.s = a.s) /\ r.s.qhead = a.s.qhead
    \/ /\ r.confl # CRefUndef /\ ConflictRight(r.s, r.confl) /\ r.s.qhead = Len(r.s.trail)
       /\ a.s.qhead <= r.s.qhead

\* The outcome of the visit of watcher i of the virtual list q.
Visits(a, r, p, q, i, strict) ==
    /\ IsAcc(r) /\ VisitConfl(a, r) /\ Same(a.s, r.s, VisitFields)
    /\ VisitKept(a, r, p, q, i, strict) \/ VisitMoved(a, r, p, q, i, strict)

\* The state of a visit, watcher i of q being next.
VisitAt(a, p, q, i, w, strict) ==
    /\ IsAcc(a) /\ Visiting(a.s, p, q, strict) /\ i \in DOMAIN q /\ q[i] = w /\ w \in WatcherSet

\* A watcher that is kept as it is: its blocker is true, or there is a conflict
\* (Solver.cc:520-521, 551-552).
LEMMA KeepVisits ==
    ASSUME NEW a, NEW p, NEW q, NEW i, NEW w, NEW strict, VisitAt(a, p, q, i, w, strict),
           NEW r, r = [a EXCEPT !.kept = Append(@, w)]
    PROVE  Visits(a, r, p, q, i, strict)
<1>1. IsAcc(a) /\ Visiting(a.s, p, q, strict) /\ i \in DOMAIN q /\ q[i] = w /\ w \in WatcherSet
  BY DEF VisitAt
<1>2. IsAcc(r) /\ r.s = a.s /\ r.kept = Append(a.kept, w) /\ r.confl = a.confl
  BY <1>1 DEF IsAcc
<1>3. [q EXCEPT ![i] = w] = q
  <2>1. q \in Seq(WatchersIn(a.s.ca.at))
    BY <1>1, WatchedClause
  <2> QED
    BY <1>1, <2>1
<1>4. VisitKept(a, r, p, q, i, strict)
  BY <1>1, <1>2, <1>3 DEF VisitKept
<1>5. VisitConfl(a, r)
  BY <1>2 DEF VisitConfl
<1>6. Same(a.s, r.s, VisitFields)
  BY <1>2 DEF Same
<1> QED
  BY <1>2, <1>4, <1>5, <1>6 DEF Visits

\* r is a with the object u, which differs from o in fs, and one more watcher kept.
PutMakes(a, r, w, o, u, fs) ==
    /\ IsObject(u) /\ Same(o, u, fs) /\ fs \subseteq VisitFields
    /\ IsAcc(r) /\ r.s = u /\ r.kept = Append(a.kept, w) /\ VisitConfl(a, r)

\* The accumulator with the object u and one more watcher.
KeptWith(a, u, w) == [a EXCEPT !.s = u, !.kept = Append(@, w)]

\* The clause is put back as visited.
LEMMA PutVisits ==
    ASSUME NEW a, NEW p, NEW q, NEW i, NEW w, NEW strict, VisitAt(a, p, q, i, w, strict),
           NEW lits, lits = FalseSecond(Lits(a.s, w.cref), p), NEW b \in Int,
           NEW o, o = Put(a.s, w.cref, lits), NEW u, NEW fs, NEW r,
           Visiting(u, p, [q EXCEPT ![i] = Watcher(w.cref, b)], strict),
           PutMakes(a, r, Watcher(w.cref, b), o, u, fs)
    PROVE  Visits(a, r, p, q, i, strict)
<1>0. /\ IsObject(u) /\ Same(o, u, fs) /\ fs \subseteq VisitFields
      /\ IsAcc(r) /\ r.s = u /\ r.kept = Append(a.kept, Watcher(w.cref, b)) /\ VisitConfl(a, r)
  BY DEF PutMakes
<1>1. Visiting(a.s, p, q, strict) /\ i \in DOMAIN q /\ q[i] = w /\ w \in WatcherSet
  BY DEF VisitAt
<1>2. Arranged(a.s, p, w.cref, lits, o)
  BY <1>1, PutArranges
<1>3. Same(a.s, o, OnlyCa) /\ OnlyCa \subseteq VisitFields
  BY <1>2 DEF Arranged, OnlyCa, VisitFields
<1>4. Same(a.s, u, VisitFields)
  BY <1>0, <1>3, SameTwice
<1>5. Watcher(w.cref, b) \in WatcherSet
  BY <1>1 DEF Watcher, WatcherSet
<1>6. VisitKept(a, r, p, q, i, strict)
  BY <1>0, <1>5 DEF VisitKept
<1> QED
  BY <1>0, <1>4, <1>6 DEF Visits

\* The value of the first literal, as visited.
LEMMA FirstIs ==
    ASSUME NEW a, NEW p, NEW q, NEW i, NEW w, NEW strict, VisitAt(a, p, q, i, w, strict),
           NEW lits, lits = FalseSecond(Lits(a.s, w.cref), p)
    PROVE  /\ lits[1] \in LitsOf(a.s.nextVar) /\ lits[1] \in Int
           /\ Val(a.s.assigns, lits[1]) \in Lbools
           /\ Val(a.s.assigns, lits[1]) # LTrue => Val(a.s.assigns, Lits(a.s, w.cref)[1]) # LTrue
           /\ IsObject(a.s) /\ lits \in Seq(LitsOf(a.s.nextVar))
<1> DEFINE t == a.s
           n == t.nextVar
           old == Lits(t, w.cref)
<1>1. Visiting(t, p, q, strict) /\ i \in DOMAIN q /\ q[i] = w /\ w \in WatcherSet
  BY DEF VisitAt
<1>2. WatchedAs(t, p, w.cref, old, lits)
  BY <1>1, WatchedClause
<1>3. LongLits(lits, n) /\ lits[2] = Neg(p) /\ {lits[1], lits[2]} = {old[1], old[2]}
  BY <1>2 DEF WatchedAs
<1>4. GoodBut(t, strict) /\ JustTrue(t, p)
  BY <1>1 DEF Visiting
<1>5. n \in Nat /\ t.assigns \in [VarsUpTo(n) -> Lbools] /\ IsObject(t)
      /\ p \in LitsOf(n) /\ Val(t.assigns, p) = LTrue
  BY <1>4, KernelTypes DEF GoodBut, JustTrue
<1> HIDE DEF t, n, old
<1>6. lits[1] \in LitsOf(n) /\ lits \in Seq(LitsOf(n))
  <2>1. lits \in Seq(LitsOf(n)) /\ Len(lits) >= 2
    BY <1>3 DEF LongLits
  <2> QED
    BY <2>1
<1>7. Val(t.assigns, lits[1]) \in Lbools /\ lits[1] \in Int
  BY <1>5, <1>6, ValFacts, LitFacts
<1>8. Val(t.assigns, Neg(p)) = LFalse
  BY <1>5, ValFacts
<1>9. Val(t.assigns, lits[1]) # LTrue => Val(t.assigns, old[1]) # LTrue
  BY <1>3, <1>8 DEF LTrue, LFalse
<1> QED
  BY <1>5, <1>6, <1>7, <1>9 DEF t, n, old

\* A watcher that moves to the list of another literal (Solver.cc:539-543).
LEMMA MoveVisits ==
    ASSUME NEW a, NEW p, NEW q, NEW i, NEW w, NEW strict, VisitAt(a, p, q, i, w, strict),
           NEW lits, lits = FalseSecond(Lits(a.s, w.cref), p),
           a.confl = CRefUndef, Val(a.s.assigns, lits[1]) # LTrue, NEW k \in 3 .. Len(lits),
           NEW o, o = Put(a.s, w.cref, Swap(lits, 2, k)),
           NEW u, u = Rewatch(o, PushOcc(o.watches, Neg(lits[k]), Watcher(w.cref, lits[1]))),
           NEW r, r = [a EXCEPT !.s = u]
    PROVE  Visits(a, r, p, q, i, strict)
<1> DEFINE t == a.s
           cr == w.cref
           old == Lits(t, cr)
<1>1. Visiting(t, p, q, strict) /\ i \in DOMAIN q /\ q[i] = w /\ w \in WatcherSet /\ IsAcc(a)
  BY DEF VisitAt
<1>2. lits[1] \in Int /\ Val(t.assigns, old[1]) # LTrue /\ IsObject(t)
  BY FirstIs
<1>3. cr = q[i].cref /\ old = Lits(t, cr) /\ lits = FalseSecond(old, p)
      /\ o = Put(t, cr, Swap(lits, 2, k))
      /\ u = Rewatch(o, PushOcc(o.watches, Neg(lits[k]), Watcher(cr, lits[1])))
  BY <1>1
<1>4. IsAcc(r) /\ r.s = u /\ r.kept = a.kept /\ r.confl = a.confl
  BY <1>1 DEF IsAcc
<1>5. IsRegion(t.ca)
  BY <1>1 DEF Visiting, GoodBut, Region
<1> HIDE DEF t, cr, old
<1>6. IsPut(t, cr, Swap(lits, 2, k), o)
  BY <1>2, <1>3, <1>5, PutFields
<1>7. IsObject(o) /\ Same(t, o, OnlyCa)
  BY <1>6 DEF IsPut
<1>8. IsObject(u) /\ Same(o, u, OnlyWatches)
  BY <1>3, <1>7, RewatchFields
<1>9. Same(t, u, VisitFields)
  <2>1. OnlyCa \subseteq VisitFields /\ OnlyWatches \subseteq VisitFields
    BY DEF OnlyCa, OnlyWatches, VisitFields
  <2> QED
    BY <1>7, <1>8, <2>1, SameTwice
<1>10. u.qhead = t.qhead
  BY <1>7, <1>8 DEF Same, Fields, OnlyCa, OnlyWatches
<1>11. VisitConfl(a, r)
  BY <1>4, <1>10 DEF VisitConfl, t
<1>12. VisitMoved(a, r, p, q, i, strict)
  <2>1. ASSUME NEW q2, q2 \in Seq(WatchersIn(t.ca.at)), Without(q, i, q2)
        PROVE  Visiting(u, p, q2, strict)
    BY <1>1, <1>2, <1>3, <2>1, MoveStep
  <2> QED
    BY <1>4, <2>1 DEF VisitMoved, t
<1> QED
  BY <1>4, <1>9, <1>11, <1>12 DEF Visits, t

\* A watcher whose clause is true: it is kept with a better blocker
\* (Solver.cc:535-536).
LEMMA TrueVisits ==
    ASSUME NEW a, NEW p, NEW q, NEW i, NEW w, NEW strict, VisitAt(a, p, q, i, w, strict),
           NEW lits, lits = FalseSecond(Lits(a.s, w.cref), p),
           a.confl = CRefUndef, NEW o, o = Put(a.s, w.cref, lits),
           NEW r, r = KeptWith(a, o, Watcher(w.cref, lits[1]))
    PROVE  Visits(a, r, p, q, i, strict)
<1>1. IsAcc(a) /\ lits[1] \in Int /\ IsObject(a.s) /\ Visiting(a.s, p, q, strict)
      /\ i \in DOMAIN q /\ q[i] = w /\ IsRegion(a.s.ca)
  BY FirstIs DEF VisitAt, Visiting, GoodBut, Region
<1>2. /\ IsAcc(r) /\ r.s = o /\ r.kept = Append(a.kept, Watcher(w.cref, lits[1]))
      /\ r.confl = a.confl
  BY <1>1 DEF IsAcc, KeptWith
<1>3. Visiting(o, p, [q EXCEPT ![i] = Watcher(w.cref, lits[1])], strict)
  BY <1>1, PutStep
<1>4. IsPut(a.s, w.cref, lits, o)
  BY <1>1, PutFields
<1>5. IsObject(o) /\ Same(a.s, o, OnlyCa)
  BY <1>4 DEF IsPut
<1>6. OnlyCa \subseteq VisitFields /\ Same(o, o, OnlyCa)
  BY DEF OnlyCa, VisitFields, Same
<1>7. o.qhead = a.s.qhead
  BY <1>5 DEF Same, Fields, OnlyCa
<1>8. VisitConfl(a, r)
  BY <1>2, <1>7 DEF VisitConfl
<1>9. PutMakes(a, r, Watcher(w.cref, lits[1]), o, o, OnlyCa)
  BY <1>2, <1>5, <1>6, <1>8 DEF PutMakes
<1> QED
  BY <1>1, <1>3, <1>9, PutVisits

\* A watcher whose clause is unit: its first literal follows
\* (Solver.cc:553-554).
LEMMA EnqueueVisits ==
    ASSUME NEW a, NEW p, NEW q, NEW i, NEW w, NEW strict, VisitAt(a, p, q, i, w, strict),
           NEW lits, lits = FalseSecond(Lits(a.s, w.cref), p),
           a.confl = CRefUndef, NEW o, o = Put(a.s, w.cref, lits),
           Val(a.s.assigns, lits[1]) = LUndef, OthersFalse(a.s, lits),
           NEW u, u = UncheckedEnqueue(o, lits[1], w.cref),
           NEW r, r = KeptWith(a, u, Watcher(w.cref, lits[1]))
    PROVE  Visits(a, r, p, q, i, strict)
<1>1. IsAcc(a) /\ lits[1] \in Int /\ Visiting(a.s, p, q, strict)
      /\ i \in DOMAIN q /\ q[i] = w
  BY FirstIs DEF VisitAt
<1>2. /\ IsAcc(r) /\ r.s = u /\ r.kept = Append(a.kept, Watcher(w.cref, lits[1]))
      /\ r.confl = a.confl
  BY <1>1 DEF IsAcc, KeptWith
<1>3. /\ Visiting(u, p, [q EXCEPT ![i] = Watcher(w.cref, lits[1])], strict)
      /\ IsEnqueued(o, lits[1], w.cref, u)
  BY <1>1, EnqueueStep
<1>4. IsObject(u) /\ Same(o, u, EnqueueFields)
  BY <1>3 DEF IsEnqueued
<1>5. Arranged(a.s, p, w.cref, lits, o)
  BY <1>1, PutArranges
<1>6. u.qhead = a.s.qhead
  BY <1>4, <1>5 DEF Same, Fields, EnqueueFields, Arranged
<1>7. VisitConfl(a, r)
  BY <1>2, <1>6 DEF VisitConfl
<1>8. EnqueueFields \subseteq VisitFields
  BY DEF EnqueueFields, VisitFields
<1>9. PutMakes(a, r, Watcher(w.cref, lits[1]), o, u, EnqueueFields)
  BY <1>2, <1>4, <1>7, <1>8 DEF PutMakes
<1> QED
  BY <1>1, <1>3, <1>9, PutVisits

\* A watcher whose clause is false: it is the conflict (Solver.cc:547-552).
LEMMA ConflictVisits ==
    ASSUME NEW a, NEW p, NEW q, NEW i, NEW w, NEW strict, VisitAt(a, p, q, i, w, strict),
           NEW lits, lits = FalseSecond(Lits(a.s, w.cref), p),
           NEW o, o = Put(a.s, w.cref, lits),
           Val(a.s.assigns, lits[1]) = LFalse, OthersFalse(a.s, lits),
           NEW u, u = Headed(o, Len(a.s.trail)),
           NEW r, r = [s |-> u, kept |-> Append(a.kept, Watcher(w.cref, lits[1])), confl |-> w.cref]
    PROVE  Visits(a, r, p, q, i, strict)
<1>1. lits[1] \in Int /\ Visiting(a.s, p, q, strict) /\ i \in DOMAIN q /\ q[i] = w
  BY FirstIs DEF VisitAt
<1>2. /\ IsAcc(r) /\ r.s = u /\ r.kept = Append(a.kept, Watcher(w.cref, lits[1]))
      /\ r.confl = w.cref
  BY DEF IsAcc
<1>3. /\ Visiting(u, p, [q EXCEPT ![i] = Watcher(w.cref, lits[1])], strict)
      /\ ConflictRight(u, w.cref) /\ u.qhead = Len(u.trail)
      /\ IsObject(u) /\ Same(o, u, OnlyHead)
  BY <1>1, ConflictStep
<1>4. Arranged(a.s, p, w.cref, lits, o)
  BY <1>1, PutArranges
<1>5. VisitConfl(a, r)
  <2>1. u.qhead = Len(u.trail) /\ u.trail = o.trail
    BY <1>3 DEF Same, Fields, OnlyHead
  <2>2. a.s.qhead <= u.qhead
    BY <1>1, <1>4, <2>1 DEF Visiting, Arranged
  <2> QED
    BY <1>2, <1>3, <1>4, <2>2 DEF VisitConfl, Arranged
<1>6. OnlyHead \subseteq VisitFields
  BY DEF OnlyHead, VisitFields
<1>9. PutMakes(a, r, Watcher(w.cref, lits[1]), o, u, OnlyHead)
  BY <1>2, <1>3, <1>5, <1>6 DEF PutMakes
<1> QED
  BY <1>1, <1>3, <1>9, PutVisits

\* The least of a set of positions.
LEMMA MinimumOf ==
    ASSUME NEW n, NEW S, S \subseteq 3 .. n, S # {}
    PROVE  Min(S) \in S
<1>1. S \subseteq Nat
  OBVIOUS
<1>2. PICK m \in S : \A x \in S : m <= x
  BY <1>1, LeastMember
<1> QED
  BY <1>2 DEF Min

\* One watcher of p is visited.
LEMMA WatcherVisits ==
    ASSUME NEW a, NEW p, NEW q, NEW i, NEW w, NEW strict, VisitAt(a, p, q, i, w, strict)
    PROVE  Visits(a, VisitWatcher(a, w, p), p, q, i, strict)
<1> DEFINE r == VisitWatcher(a, w, p)
           lits == FalseSecond(Lits(a.s, w.cref), p)
           open == {k \in 3 .. Len(lits) : Val(a.s.assigns, lits[k]) # LFalse}
           o == Put(a.s, w.cref, lits)
           nw == Watcher(w.cref, lits[1])
<1>1. \A l : Value(a.s, l) = Val(a.s.assigns, l)
  BY DEF Value, Val
<1>2. CASE a.confl # CRefUndef \/ Value(a.s, w.blocker) = LTrue
  <2>1. r = [a EXCEPT !.kept = Append(@, w)]
    BY <1>2 DEF VisitWatcher
  <2> HIDE DEF r
  <2>2. Visits(a, r, p, q, i, strict)
    BY <2>1, KeepVisits
  <2> QED
    BY <2>2 DEF r
<1>3. CASE ~(a.confl # CRefUndef \/ Value(a.s, w.blocker) = LTrue)
  <2>0. r = VisitClause(a, w, lits) /\ a.confl = CRefUndef /\ Val(a.s.assigns, w.blocker) # LTrue
    BY <1>1, <1>3 DEF VisitWatcher
  <2>1. lits[1] \in LitsOf(a.s.nextVar) /\ Val(a.s.assigns, lits[1]) \in Lbools
        /\ lits \in Seq(LitsOf(a.s.nextVar))
    BY FirstIs
  <2>2. lits = FalseSecond(Lits(a.s, w.cref), p) /\ o = Put(a.s, w.cref, lits)
        /\ nw = Watcher(w.cref, lits[1])
        /\ \A l : Put(a.s, w.cref, l) = [a.s EXCEPT !.ca.at[w.cref].lits = l]
    BY DEF Put
  <2>3. \A k \in 3 .. Len(lits) : k \in open <=> Val(a.s.assigns, lits[k]) # LFalse
    OBVIOUS
  <2>4. open \subseteq 3 .. Len(lits)
    OBVIOUS
  <2>5. open = {k \in 3 .. Len(lits) : Value(a.s, lits[k]) # LFalse}
    BY <1>1
  <2> HIDE DEF lits, open, o, nw, r
  <2>6. CASE Val(a.s.assigns, lits[1]) = LTrue
    <3>1. Value(a.s, lits[1]) = LTrue /\ lits[1] # w.blocker
      BY <1>1, <2>0, <2>6
    <3>2. r = KeptWith(a, o, nw)
      BY <2>0, <2>2, <3>1 DEF VisitClause, KeptWith
    <3> QED
      BY <2>0, <2>2, <3>2, TrueVisits DEF r
  <2>7. CASE Val(a.s.assigns, lits[1]) # LTrue /\ open # {}
    <3> DEFINE k == Min(open)
               oo == Put(a.s, w.cref, Swap(lits, 2, k))
               u == [oo EXCEPT !.watches = PushOcc(@, Neg(lits[k]), nw)]
    <3>1. Value(a.s, lits[1]) # LTrue
      BY <1>1, <2>7
    <3>2. k \in open
      BY <2>4, <2>7, MinimumOf
    <3>3. r = [a EXCEPT !.s = u]
      BY <2>0, <2>2, <2>5, <2>7, <3>1 DEF VisitClause
    <3> HIDE DEF k
    <3>4. k \in 3 .. Len(lits)
      BY <2>4, <3>2
    <3>5. u = Rewatch(oo, PushOcc(oo.watches, Neg(lits[k]), Watcher(w.cref, lits[1])))
      BY <2>2 DEF Rewatch
    <3> HIDE DEF u, oo
    <3>6. oo = Put(a.s, w.cref, Swap(lits, 2, k))
      BY DEF oo
    <3> QED
      BY <2>0, <2>2, <2>7, <3>3, <3>4, <3>5, <3>6, MoveVisits DEF r
  <2>8. CASE Val(a.s.assigns, lits[1]) # LTrue /\ open = {}
    <3>1. OthersFalse(a.s, lits)
      BY <2>3, <2>8 DEF OthersFalse
    <3>2. Value(a.s, lits[1]) = Val(a.s.assigns, lits[1])
      BY <1>1
    <3>3. CASE Val(a.s.assigns, lits[1]) = LFalse
      <4> DEFINE u == Headed(o, Len(a.s.trail))
      <4>1. r = [s |-> u, kept |-> Append(a.kept, nw), confl |-> w.cref]
        BY <2>0, <2>2, <2>5, <2>8, <3>2, <3>3 DEF VisitClause, Headed
      <4> QED
        BY <2>2, <3>1, <3>3, <4>1, ConflictVisits DEF r
    <3>4. CASE Val(a.s.assigns, lits[1]) # LFalse
      <4> DEFINE u == UncheckedEnqueue(o, lits[1], w.cref)
      <4>1. Val(a.s.assigns, lits[1]) = LUndef
        BY <2>1, <2>8, <3>4 DEF Lbools
      <4>2. r = KeptWith(a, u, nw)
        BY <2>0, <2>2, <2>5, <2>8, <3>2, <3>4 DEF VisitClause, KeptWith
      <4> HIDE DEF u
      <4>3. u = UncheckedEnqueue(o, lits[1], w.cref)
        BY DEF u
      <4> QED
        BY <2>0, <2>2, <3>1, <4>1, <4>2, <4>3, EnqueueVisits DEF r
    <3> QED
      BY <3>3, <3>4
  <2> QED
    BY <2>6, <2>7, <2>8
<1> QED
  BY <1>2, <1>3

VisitRun(g, s, p, confl, ws) ==
    /\ g[0] = [s |-> s, kept |-> <<>>, confl |-> confl]
    /\ \A i \in 1 .. Len(ws) : g[i] = VisitWatcher(g[i - 1], ws[i], p)

\* The loop over the watchers runs.
LEMMA VisitAllRuns ==
    ASSUME NEW s, NEW p, NEW confl, NEW ws, ws = s.watches.occs[p], Len(ws) \in Nat
    PROVE  \E g : VisitRun(g, s, p, confl, ws) /\ VisitAll(s, p, confl) = g[Len(ws)]
<1> DEFINE n == Len(ws)
           x0 == [s |-> s, kept |-> <<>>, confl |-> confl]
           visited[i \in 0 .. n] == IF i = 0 THEN x0 ELSE VisitWatcher(visited[i - 1], ws[i], p)
           S == {m \in Nat : \E g : g = [i \in 0 .. m |-> IF i = 0 THEN x0
                                                        ELSE VisitWatcher(g[i - 1], ws[i], p)]}
<1>1. VisitAll(s, p, confl) = visited[n]
  BY DEF VisitAll
<1> HIDE DEF x0
<1>2. 0 \in S
  <2> DEFINE g == [i \in 0 .. 0 |-> x0]
  <2>1. g = [i \in 0 .. 0 |-> IF i = 0 THEN x0 ELSE VisitWatcher(g[i - 1], ws[i], p)]
    OBVIOUS
  <2> HIDE DEF g
  <2> QED
    BY <2>1
<1>3. ASSUME NEW m \in Nat, m \in S
      PROVE  m + 1 \in S
  <2>1. PICK g : g = [i \in 0 .. m |-> IF i = 0 THEN x0 ELSE VisitWatcher(g[i - 1], ws[i], p)]
    BY <1>3
  <2> DEFINE h == [i \in 0 .. m + 1 |-> IF i = m + 1 THEN VisitWatcher(g[m], ws[m + 1], p) ELSE g[i]]
  <2>2. ASSUME NEW i \in 0 .. m + 1
        PROVE  h[i] = IF i = 0 THEN x0 ELSE VisitWatcher(h[i - 1], ws[i], p)
    <3>1. CASE i = m + 1
      <4>1. i - 1 = m /\ m \in 0 .. m + 1 /\ m # m + 1 /\ i # 0
        BY <3>1
      <4> QED
        BY <3>1, <4>1
    <3>2. CASE i # m + 1
      <4>1. i \in 0 .. m
        BY <3>2
      <4>2. h[i] = g[i] /\ g[i] = IF i = 0 THEN x0 ELSE VisitWatcher(g[i - 1], ws[i], p)
        BY <2>1, <3>2, <4>1
      <4>3. CASE i # 0
        <5>1. i - 1 \in 0 .. m + 1 /\ i - 1 # m + 1
          BY <4>1, <4>3
        <5>2. h[i - 1] = g[i - 1]
          BY <5>1
        <5> QED
          BY <4>2, <4>3, <5>2
      <4> QED
        BY <4>2, <4>3
    <3> QED
      BY <3>1, <3>2
  <2>3. h = [i \in 0 .. m + 1 |-> IF i = 0 THEN x0 ELSE VisitWatcher(h[i - 1], ws[i], p)]
    <3>1. h = [i \in 0 .. m + 1 |-> h[i]]
      OBVIOUS
    <3> HIDE DEF h
    <3> QED
      BY <2>2, <3>1
  <2>4. \E k : k = [i \in 0 .. m + 1 |-> IF i = 0 THEN x0 ELSE VisitWatcher(k[i - 1], ws[i], p)]
    <3> HIDE DEF h
    <3> QED
      BY <2>3
  <2> QED
    BY <2>4
<1>4. n \in S
  <2> HIDE DEF S
  <2>1. Nat \subseteq S
    BY <1>2, <1>3, InductionOn
  <2> QED
    BY <2>1
<1>5. visited = [i \in 0 .. n |-> IF i = 0 THEN x0 ELSE VisitWatcher(visited[i - 1], ws[i], p)]
  <2>1. \E g : g = [i \in 0 .. n |-> IF i = 0 THEN x0 ELSE VisitWatcher(g[i - 1], ws[i], p)]
    BY <1>4
  <2>2. visited = CHOOSE g : g = [i \in 0 .. n |-> IF i = 0 THEN x0
                                                 ELSE VisitWatcher(g[i - 1], ws[i], p)]
    BY DEF visited
  <2> HIDE DEF visited
  <2> QED
    BY <2>1, <2>2, Zenon
<1> HIDE DEF visited
<1>6. visited[0] = x0 /\ \A i \in 1 .. n : visited[i] = VisitWatcher(visited[i - 1], ws[i], p)
  <2>1. 0 \in 0 .. n /\ \A i \in 1 .. n : i \in 0 .. n /\ i # 0
    OBVIOUS
  <2> HIDE DEF n
  <2> QED
    BY <1>5, <2>1
<1>7. VisitRun(visited, s, p, confl, ws)
  BY <1>6 DEF VisitRun, x0
<1> QED
  BY <1>1, <1>7

\* The list that p will have if nothing more moves: those kept, then those to come.
Pending(kept, ws, i) == kept \o SubSeq(ws, i + 1, Len(ws))

IsPending(q, kept, ws, i, W) ==
    /\ q \in Seq(W) /\ Len(q) = Len(kept) + Len(ws) - i
    /\ \A j \in 1 .. Len(kept) + Len(ws) - i :
         q[j] = IF j <= Len(kept) THEN kept[j] ELSE ws[i + j - Len(kept)]

\* The kept watchers and those still to be visited, as one list.
LEMMA PendingFacts ==
    ASSUME NEW W, NEW kept \in Seq(W), NEW ws \in Seq(W), NEW i \in 0 .. Len(ws)
    PROVE  IsPending(Pending(kept, ws, i), kept, ws, i, W)
<1> DEFINE n == Len(ws)
           r == SubSeq(ws, i + 1, n)
<1>1. n \in Nat /\ i + 1 \in Int /\ i \in Int /\ Len(kept) \in Nat
      /\ \A j \in i + 1 .. n : ws[j] \in W
  OBVIOUS
<1> HIDE DEF n
<1>2. r \in Seq(W) /\ Len(r) = (IF i + 1 <= n THEN n - (i + 1) + 1 ELSE 0)
      /\ \A j \in 1 .. n - (i + 1) + 1 : r[j] = ws[(i + 1) + j - 1]
  BY <1>1, SubSeqProperties
<1>3. Len(r) = n - i /\ \A j \in 1 .. n - i : r[j] = ws[i + j]
  BY <1>1, <1>2 DEF n
<1> HIDE DEF r
<1>4. kept \o r \in Seq(W) /\ Len(kept \o r) = Len(kept) + Len(r)
      /\ \A j \in 1 .. Len(kept) + Len(r) : (kept \o r)[j] =
                                              IF j <= Len(kept) THEN kept[j] ELSE r[j - Len(kept)]
  BY <1>2, ConcatProperties
<1>5. ASSUME NEW j \in 1 .. Len(kept) + n - i
      PROVE  (kept \o r)[j] = IF j <= Len(kept) THEN kept[j] ELSE ws[i + j - Len(kept)]
  <2>1. CASE j <= Len(kept)
    BY <1>1, <1>3, <1>4, <2>1
  <2>2. CASE j > Len(kept)
    <3>1. j - Len(kept) \in 1 .. n - i /\ i + (j - Len(kept)) = i + j - Len(kept)
      BY <1>1, <2>2
    <3>2. r[j - Len(kept)] = ws[i + j - Len(kept)]
      BY <1>3, <3>1
    <3> QED
      BY <1>1, <1>3, <1>4, <2>2, <3>2
  <2>3. j <= Len(kept) \/ j > Len(kept)
    BY <1>1
  <2> QED
    BY <2>1, <2>2, <2>3, Zenon
<1> QED
  BY <1>1, <1>3, <1>4, <1>5 DEF Pending, IsPending, r, n

\* The next watcher is kept, maybe with another blocker, or moves away.
NextPending(q, j, kept, ws, i, W) ==
    /\ j \in DOMAIN q /\ q[j] = ws[i]
    /\ \A w \in W : [q EXCEPT ![j] = w] = Pending(Append(kept, w), ws, i)
    /\ Without(q, j, Pending(kept, ws, i))

\* One visit takes the next watcher off the pending list.
LEMMA PendingStep ==
    ASSUME NEW W, NEW kept \in Seq(W), NEW ws \in Seq(W), NEW i \in 1 .. Len(ws),
           NEW q, q = Pending(kept, ws, i - 1), NEW j, j = Len(kept) + 1
    PROVE  NextPending(q, j, kept, ws, i, W)
<1> DEFINE n == Len(ws)
           m == Len(kept)
           q0 == Pending(kept, ws, i)
<1>1. n \in Nat /\ m \in Nat /\ i - 1 \in 0 .. n /\ i \in 0 .. n /\ i - 1 + (m + 1) - m = i
  OBVIOUS
<1>2. /\ q \in Seq(W) /\ Len(q) = m + n - (i - 1)
      /\ \A k \in 1 .. m + n - (i - 1) : q[k] = IF k <= m THEN kept[k] ELSE ws[(i - 1) + k - m]
  <2>1. IsPending(q, kept, ws, i - 1, W)
    BY <1>1, PendingFacts
  <2> QED
    BY <2>1 DEF IsPending
<1>3. /\ q0 \in Seq(W) /\ Len(q0) = m + n - i
      /\ \A k \in 1 .. m + n - i : q0[k] = IF k <= m THEN kept[k] ELSE ws[i + k - m]
  <2>1. IsPending(q0, kept, ws, i, W)
    BY <1>1, PendingFacts
  <2> QED
    BY <2>1 DEF IsPending
<1> HIDE DEF q0
<1>4. j \in DOMAIN q /\ q[j] = ws[i]
  <2>1. j \in 1 .. m + n - (i - 1) /\ ~ (j <= m) /\ (i - 1) + j - m = i /\ DOMAIN q = 1 .. Len(q)
    BY <1>1, <1>2
  <2> HIDE DEF n, m
  <2> QED
    BY <1>2, <2>1
<1>5. ASSUME NEW w \in W
      PROVE  [q EXCEPT ![j] = w] = Pending(Append(kept, w), ws, i)
  <2> DEFINE a == Append(kept, w)
             l == [q EXCEPT ![j] = w]
             r == Pending(a, ws, i)
  <2>1. a \in Seq(W) /\ Len(a) = m + 1 /\ a[m + 1] = w /\ \A k \in 1 .. m : a[k] = kept[k]
    OBVIOUS
  <2> HIDE DEF a
  <2>2. /\ r \in Seq(W) /\ Len(r) = Len(a) + n - i
        /\ \A k \in 1 .. Len(a) + n - i : r[k] = IF k <= Len(a) THEN a[k] ELSE ws[i + k - Len(a)]
    <3>1. IsPending(r, a, ws, i, W)
      BY <1>1, <2>1, PendingFacts
    <3> HIDE DEF r
    <3> QED
      BY <3>1 DEF IsPending
  <2>3. l \in Seq(W) /\ Len(l) = Len(q) /\ \A k \in 1 .. Len(q) : l[k] = IF k = j THEN w ELSE q[k]
    BY <1>2, <1>4
  <2> HIDE DEF l, r
  <2>4. Len(l) = Len(r)
    BY <1>1, <1>2, <2>1, <2>2, <2>3
  <2>5. ASSUME NEW k \in 1 .. Len(l)
        PROVE  l[k] = r[k]
    <3>0. k \in 1 .. Len(a) + n - i /\ k \in 1 .. Len(q) /\ k \in 1 .. m + n - (i - 1)
      BY <1>1, <1>2, <2>1, <2>2, <2>3, <2>4
    <3>1. CASE k <= m
      <4>1. k # j /\ k <= Len(a) /\ k \in 1 .. m
        BY <1>1, <2>1, <3>0, <3>1
      <4> QED
        BY <1>2, <2>1, <2>2, <2>3, <3>0, <3>1, <4>1
    <3>2. CASE k = m + 1
      BY <1>1, <2>1, <2>2, <2>3, <3>0, <3>2
    <3>3. CASE k > m + 1
      <4>1. k # j /\ ~ (k <= m) /\ ~ (k <= Len(a)) /\ (i - 1) + k - m = i + k - Len(a)
        BY <1>1, <2>1, <3>0, <3>3
      <4> QED
        BY <1>2, <2>2, <2>3, <3>0, <4>1
    <3> QED
      BY <1>1, <3>0, <3>1, <3>2, <3>3
  <2>6. l = r
    BY <2>2, <2>3, <2>4, <2>5, SeqEqual
  <2> QED
    BY <2>6 DEF l, r, a
<1>6. Without(q, j, q0)
  <2>1. Len(q0) = Len(q) - 1
    BY <1>1, <1>2, <1>3
  <2>2. ASSUME NEW k \in 1 .. j - 1
        PROVE  q0[k] = q[k]
    <3>1. k \in 1 .. m + n - i /\ k \in 1 .. m + n - (i - 1) /\ k <= m
      BY <1>1
    <3> QED
      BY <1>2, <1>3, <3>1
  <2>3. ASSUME NEW k \in j .. Len(q0)
        PROVE  q0[k] = q[k + 1]
    <3>1. k \in 1 .. m + n - i /\ k + 1 \in 1 .. m + n - (i - 1) /\ ~ (k <= m) /\ ~ (k + 1 <= m)
          /\ i + k - m = (i - 1) + (k + 1) - m
      BY <1>1, <1>3
    <3> QED
      BY <1>2, <1>3, <3>1
  <2> QED
    BY <2>1, <2>2, <2>3 DEF Without
<1> QED
  BY <1>4, <1>5, <1>6 DEF q0, NextPending

\* What is left without an element is of the same set.
LEMMA WithoutIn ==
    ASSUME NEW X, NEW q \in Seq(X), NEW i \in DOMAIN q, NEW W, NEW q2 \in Seq(W), Without(q, i, q2)
    PROVE  q2 \in Seq(X)
<1>1. /\ Len(q2) = Len(q) - 1 /\ (\A j \in 1 .. i - 1 : q2[j] = q[j])
      /\ \A j \in i .. Len(q2) : q2[j] = q[j + 1]
  BY DEF Without
<1>2. /\ Len(q) \in Nat /\ DOMAIN q = 1 .. Len(q) /\ (\A j \in DOMAIN q : q[j] \in X)
      /\ Len(q2) \in Nat /\ q2 = [j \in 1 .. Len(q2) |-> q2[j]]
  OBVIOUS
<1>3. ASSUME NEW j \in 1 .. Len(q2)
      PROVE  q2[j] \in X
  <2>1. CASE j < i
    <3>1. j \in 1 .. i - 1 /\ j \in DOMAIN q
      BY <1>1, <1>2, <2>1
    <3> QED
      BY <1>1, <1>2, <3>1
  <2>2. CASE j >= i
    <3>1. j \in i .. Len(q2) /\ j + 1 \in DOMAIN q
      BY <1>1, <1>2, <2>2
    <3> QED
      BY <1>1, <1>2, <3>1
  <2>3. j < i \/ j >= i
    BY <1>2
  <2> QED
    BY <2>1, <2>2, <2>3
<1> QED
  BY <1>2, <1>3

\* What was assigned stays assigned.
Grown(a, b) == \A v \in DOMAIN a : a[v] # LUndef => v \in DOMAIN b /\ b[v] # LUndef

\* A visit assigns the first literal of the clause, or nothing.
LEMMA WatcherGrows ==
    ASSUME NEW a, NEW p, NEW q, NEW i, NEW w, NEW strict, VisitAt(a, p, q, i, w, strict)
    PROVE  Grown(a.s.assigns, VisitWatcher(a, w, p).s.assigns)
<1> DEFINE s == a.s
           r == VisitWatcher(a, w, p)
           lits == FalseSecond(Lits(s, w.cref), p)
           open == {k \in 3 .. Len(lits) : Value(s, lits[k]) # LFalse}
           o == Put(s, w.cref, lits)
           e == UncheckedEnqueue(o, lits[1], w.cref)
           k == Min(open)
           oo == Put(s, w.cref, Swap(lits, 2, k))
<1>1. IsObject(s) /\ IsRegion(s.ca) /\ IsAcc(a)
  BY DEF VisitAt, Visiting, GoodBut, Region
<1>2. ASSUME NEW l
      PROVE  Put(s, w.cref, l).assigns = s.assigns /\ IsObject(Put(s, w.cref, l))
  <2>1. IsPut(s, w.cref, l, Put(s, w.cref, l))
    BY <1>1, PutFields
  <2> QED
    BY <2>1 DEF IsPut, Same, Fields, OnlyCa
<1>3. Grown(s.assigns, e.assigns)
  <2>1. o.assigns = s.assigns /\ IsObject(o)
    BY <1>2
  <2> HIDE DEF o
  <2>2. e.assigns = [o.assigns EXCEPT ![VarOf(lits[1])] = ToLbool(~Sign(lits[1]))]
    <3>1. IsEnqueued(o, lits[1], w.cref, e)
      BY <2>1, Enqueued
    <3> QED
      BY <3>1 DEF IsEnqueued, Assigned
  <2>3. ToLbool(~Sign(lits[1])) # LUndef
    BY DEF ToLbool, LTrue, LFalse, LUndef
  <2> HIDE DEF e
  <2> QED
    BY <2>1, <2>2, <2>3 DEF Grown
<1>4. Grown(s.assigns, s.assigns)
  BY DEF Grown
<1>5. r.s.assigns = s.assigns \/ r.s = e
  <2>1. CASE a.confl # CRefUndef \/ Value(s, w.blocker) = LTrue
    <3>1. r = [a EXCEPT !.kept = Append(@, w)]
      BY <2>1 DEF VisitWatcher
    <3> QED
      BY <1>1, <3>1 DEF IsAcc
  <2>2. CASE ~(a.confl # CRefUndef \/ Value(s, w.blocker) = LTrue)
    <3>0. r = VisitClause(a, w, lits)
      BY <2>2 DEF VisitWatcher
    <3> HIDE DEF r
    <3>1. \A l : Put(s, w.cref, l) = [s EXCEPT !.ca.at[w.cref].lits = l]
      BY DEF Put
    <3>2. /\ o = Put(s, w.cref, lits) /\ open = {m \in 3 .. Len(lits) : Value(s, lits[m]) # LFalse}
          /\ e = UncheckedEnqueue(o, lits[1], w.cref) /\ oo = Put(s, w.cref, Swap(lits, 2, k))
          /\ k = Min(open) /\ s = a.s
      OBVIOUS
    <3>3. o.assigns = s.assigns /\ IsObject(o) /\ oo.assigns = s.assigns /\ IsObject(oo)
      BY <1>2
    <3> HIDE DEF lits, open, o, e, k, oo, s
    <3>4. CASE Value(s, lits[1]) = LTrue /\ lits[1] # w.blocker
      <4>1. r = [a EXCEPT !.s = o, !.kept = Append(@, Watcher(w.cref, lits[1]))]
        BY <3>0, <3>1, <3>2, <3>4 DEF VisitClause
      <4>2. r.s = o
        BY <1>1, <4>1 DEF IsAcc
      <4> QED
        BY <3>3, <4>2
    <3>5. CASE ~(Value(s, lits[1]) = LTrue /\ lits[1] # w.blocker) /\ open # {}
      <4> DEFINE u == [oo EXCEPT !.watches = PushOcc(@, Neg(lits[k]), Watcher(w.cref, lits[1]))]
      <4>1. r = [a EXCEPT !.s = u]
        BY <3>0, <3>1, <3>2, <3>5 DEF VisitClause
      <4>2. u.assigns = oo.assigns
        BY <3>3 DEF IsObject, Fields
      <4> HIDE DEF u
      <4>3. r.s = u
        BY <1>1, <4>1 DEF IsAcc
      <4> QED
        BY <3>3, <4>2, <4>3
    <3>6. CASE ~(Value(s, lits[1]) = LTrue /\ lits[1] # w.blocker) /\ open = {}
               /\ Value(s, lits[1]) = LFalse
      <4> DEFINE u == [o EXCEPT !.qhead = Len(s.trail)]
      <4>1. r.s = u
        BY <3>0, <3>1, <3>2, <3>6 DEF VisitClause
      <4>2. u.assigns = o.assigns
        BY <3>3 DEF IsObject, Fields
      <4> QED
        BY <3>3, <4>1, <4>2
    <3>7. CASE ~(Value(s, lits[1]) = LTrue /\ lits[1] # w.blocker) /\ open = {}
               /\ Value(s, lits[1]) # LFalse
      <4>1. r = [a EXCEPT !.s = e, !.kept = Append(@, Watcher(w.cref, lits[1]))]
        BY <3>0, <3>1, <3>2, <3>7 DEF VisitClause
      <4>2. r.s = e
        BY <1>1, <4>1 DEF IsAcc
      <4> QED
        BY <4>2
    <3> QED
      BY <3>4, <3>5, <3>6, <3>7
  <2> QED
    BY <2>1, <2>2
<1> HIDE DEF r, e
<1>6. Grown(s.assigns, r.s.assigns)
  BY <1>3, <1>4, <1>5
<1> QED
  BY <1>6 DEF r

\* What stays assigned after what stays assigned.
LEMMA GrownTwice ==
    ASSUME NEW a, NEW b, NEW c, Grown(a, b), Grown(b, c)
    PROVE  Grown(a, c)
BY DEF Grown

\* The first i watchers of p were visited, from the object t.
VisitedTo(a, t, p, ws, i, strict) ==
    /\ IsAcc(a) /\ a.kept \in Seq(WatcherSet)
    /\ Visiting(a.s, p, Pending(a.kept, ws, i), strict)
    /\ Same(t, a.s, VisitFields)
    /\ a.confl = CRefUndef => a.s.qhead = t.qhead
    /\ a.confl # CRefUndef => ConflictRight(a.s, a.confl) /\ a.s.qhead = Len(a.s.trail)
    /\ t.qhead <= a.s.qhead /\ Grown(t.assigns, a.s.assigns)

\* A visit of one watcher, whichever way it goes, keeps what the visits before
\* have reached.
LEMMA VisitNext ==
    ASSUME NEW t, t.qhead \in Nat, NEW p, NEW ws \in Seq(WatcherSet), NEW i \in 1 .. Len(ws), NEW strict,
           NEW a, VisitedTo(a, t, p, ws, i - 1, strict), NEW r, r = VisitWatcher(a, ws[i], p)
    PROVE  VisitedTo(r, t, p, ws, i, strict)
<1> DEFINE q == Pending(a.kept, ws, i - 1)
           j == Len(a.kept) + 1
           q0 == Pending(a.kept, ws, i)
<1>1. /\ IsAcc(a) /\ a.kept \in Seq(WatcherSet) /\ Visiting(a.s, p, q, strict)
      /\ Same(t, a.s, VisitFields)
      /\ (a.confl = CRefUndef => a.s.qhead = t.qhead)
      /\ (a.confl # CRefUndef => ConflictRight(a.s, a.confl) /\ a.s.qhead = Len(a.s.trail))
      /\ t.qhead <= a.s.qhead /\ Grown(t.assigns, a.s.assigns)
  BY DEF VisitedTo
<1>2. q = Pending(a.kept, ws, i - 1) /\ j = Len(a.kept) + 1 /\ q0 = Pending(a.kept, ws, i)
  OBVIOUS
<1> HIDE DEF q, j, q0
<1>3. j \in DOMAIN q /\ q[j] = ws[i] /\ Without(q, j, q0)
      /\ \A w \in WatcherSet : [q EXCEPT ![j] = w] = Pending(Append(a.kept, w), ws, i)
  <2>1. NextPending(q, j, a.kept, ws, i, WatcherSet)
    BY <1>1, <1>2, PendingStep
  <2> QED
    BY <1>2, <2>1 DEF NextPending
<1>4. ws[i] \in WatcherSet /\ i \in 0 .. Len(ws)
  OBVIOUS
<1>5. VisitAt(a, p, q, j, ws[i], strict)
  BY <1>1, <1>3, <1>4 DEF VisitAt
<1>6. Visits(a, r, p, q, j, strict)
  BY <1>5, WatcherVisits
<1>7. IsAcc(r) /\ VisitConfl(a, r) /\ Same(a.s, r.s, VisitFields)
      /\ (VisitKept(a, r, p, q, j, strict) \/ VisitMoved(a, r, p, q, j, strict))
  BY <1>6 DEF Visits
<1>8. Same(t, r.s, VisitFields)
  BY <1>1, <1>7, SameTwice
<1>9. r.kept \in Seq(WatcherSet) /\ Visiting(r.s, p, Pending(r.kept, ws, i), strict)
  <2>1. CASE VisitKept(a, r, p, q, j, strict)
    <3>1. PICK w \in WatcherSet : /\ r.kept = Append(a.kept, w)
                                /\ Visiting(r.s, p, [q EXCEPT ![j] = w], strict)
      BY <2>1 DEF VisitKept
    <3> QED
      BY <1>1, <1>3, <3>1
  <2>2. CASE VisitMoved(a, r, p, q, j, strict)
    <3>1. q0 \in Seq(WatcherSet)
      <4>1. IsPending(q0, a.kept, ws, i, WatcherSet)
        BY <1>1, <1>2, <1>4, PendingFacts
      <4> QED
        BY <4>1 DEF IsPending
    <3>2. q \in Seq(WatchersIn(a.s.ca.at))
      BY <1>1, <1>3, WatchedClause
    <3>3. q0 \in Seq(WatchersIn(a.s.ca.at))
      BY <1>3, <3>1, <3>2, WithoutIn
    <3>4. r.kept = a.kept /\ Visiting(r.s, p, q0, strict)
      BY <1>3, <2>2, <3>3 DEF VisitMoved
    <3> QED
      BY <1>1, <1>2, <3>4
  <2> QED
    BY <1>7, <2>1, <2>2
<1>10. /\ r.confl = CRefUndef => r.s.qhead = t.qhead
       /\ r.confl # CRefUndef => ConflictRight(r.s, r.confl) /\ r.s.qhead = Len(r.s.trail)
       /\ t.qhead <= r.s.qhead
  <2>1. CASE r.confl = a.confl /\ (r.confl # CRefUndef => r.s = a.s) /\ r.s.qhead = a.s.qhead
    BY <1>1, <2>1
  <2>2. CASE /\ r.confl # CRefUndef /\ ConflictRight(r.s, r.confl) /\ r.s.qhead = Len(r.s.trail)
             /\ a.s.qhead <= r.s.qhead
    <3>1. a.s.qhead \in Nat /\ r.s.qhead \in Nat
      BY <1>1, <1>9, KernelTypes DEF Visiting
    <3> QED
      BY <1>1, <2>2, <3>1
  <2> QED
    BY <1>7, <2>1, <2>2 DEF VisitConfl
<1>11. Grown(t.assigns, r.s.assigns)
  <2>1. Grown(a.s.assigns, r.s.assigns)
    BY <1>5, WatcherGrows
  <2> QED
    BY <1>1, <2>1, GrownTwice
<1> QED
  BY <1>7, <1>8, <1>9, <1>10, <1>11 DEF VisitedTo

\* All watchers of p are visited.
LEMMA VisitAllGood ==
    ASSUME NEW t, NEW p, NEW strict, NEW ws, ws = t.watches.occs[p],
           Visiting(t, p, ws, strict)
    PROVE  VisitedTo(VisitAll(t, p, CRefUndef), t, p, ws, Len(ws), strict)
<1> DEFINE n == Len(ws)
<1>1. ws \in Seq(WatcherSet) /\ n \in Nat
  <2>1. WatchList(p, ws, t.watches.dirty, t.ca.at)
    <3>1. p \in LitsOf(t.nextVar) /\ p \in DOMAIN t.watches.occs
      BY DEF Visiting, JustTrue, GoodBut, IsOccLists
    <3>2. WatchList(p, [t.watches.occs EXCEPT ![p] = ws][p], t.watches.dirty, t.ca.at)
      BY <3>1 DEF Visiting, Lists
    <3> QED
      BY <3>1, <3>2
  <2>2. ws \in Seq(WatchersIn(t.ca.at))
    BY <2>1 DEF WatchList
  <2>3. DOMAIN t.ca.at \subseteq Int
    BY DEF Visiting, GoodBut, Region
  <2>4. WatchersIn(t.ca.at) \subseteq WatcherSet
    BY <2>3 DEF WatchersIn, WatcherSet
  <2> QED
    BY <2>2, <2>4
<1>2. PICK g : VisitRun(g, t, p, CRefUndef, ws) /\ VisitAll(t, p, CRefUndef) = g[n]
  BY <1>1, VisitAllRuns
<1>3. /\ g[0] = [s |-> t, kept |-> <<>>, confl |-> CRefUndef]
      /\ \A i \in 1 .. n : g[i] = VisitWatcher(g[i - 1], ws[i], p)
  BY <1>2 DEF VisitRun
<1>4. t.qhead \in Nat
  BY KernelTypes DEF Visiting
<1> DEFINE S == {i \in Nat : i <= n => VisitedTo(g[i], t, p, ws, i, strict)}
<1>5. 0 \in S
  <2> DEFINE a == g[0]
  <2>1. IsAcc(a) /\ a.s = t /\ a.kept = <<>> /\ a.confl = CRefUndef
    BY <1>3 DEF IsAcc
  <2> HIDE DEF a
  <2>2. Pending(<<>>, ws, 0) = ws
    <3>1. SubSeq(ws, 0 + 1, Len(ws)) = ws
      BY <1>1, SubSeqFull
    <3> QED
      BY <1>1, <3>1, ConcatEmptySeq DEF Pending
  <2>3. a.kept \in Seq(WatcherSet)
    BY <2>1
  <2>4. Same(t, a.s, VisitFields)
    BY <2>1 DEF Same
  <2>5. VisitedTo(a, t, p, ws, 0, strict)
    BY <1>4, <2>1, <2>2, <2>3, <2>4 DEF VisitedTo, Grown
  <2> QED
    BY <2>5 DEF a
<1>6. ASSUME NEW i \in Nat, i \in S
      PROVE  i + 1 \in S
  <2> SUFFICES ASSUME i + 1 <= n PROVE VisitedTo(g[i + 1], t, p, ws, i + 1, strict)
    OBVIOUS
  <2> DEFINE k == i + 1
  <2>1. k \in 1 .. Len(ws) /\ k - 1 = i /\ i <= n
    BY <1>1
  <2> HIDE DEF k
  <2>2. VisitedTo(g[k - 1], t, p, ws, k - 1, strict)
    BY <1>6, <2>1
  <2>3. g[k] = VisitWatcher(g[k - 1], ws[k], p)
    BY <1>3, <2>1
  <2>4. VisitedTo(g[k], t, p, ws, k, strict)
    BY <1>1, <1>4, <2>1, <2>2, <2>3, VisitNext
  <2> QED
    BY <2>4 DEF k
<1>7. n \in S
  <2> HIDE DEF S
  <2>1. Nat \subseteq S
    BY <1>5, <1>6, InductionOn
  <2> QED
    BY <1>1, <2>1
<1> QED
  BY <1>1, <1>2, <1>7

-------------------------------------------------------------------------------
(* Dirty lists are cleaned.                                                    *)

\* The watchers of p whose clauses were removed leave its list.
LEMMA ListCleaned ==
    ASSUME NEW p, NEW q, NEW dirty, NEW at, WatchList(p, q, dirty, at), NEW deleted,
           \A i \in DOMAIN q : at[q[i].cref].mark = 1 => q[i] \in deleted, NEW d2
    PROVE  WatchList(p, Present(q, deleted), d2, at)
<1> DEFINE S == ToSet(q) \ deleted
           r == Only(q, S)
<1>1. q \in Seq(WatchersIn(at))
  BY DEF WatchList
<1>2. Present(q, deleted) = r
  BY DEF Present
<1> HIDE DEF S
<1>3. r \in Seq(WatchersIn(at)) /\ Range(r) = Range(q) \intersect S
  BY <1>1, OnlyFacts
<1>4. PICK m \in [DOMAIN r -> DOMAIN q] :
                /\ \A i \in DOMAIN r : r[i] = q[m[i]]
                /\ \A i, j \in DOMAIN r : i < j => m[i] < m[j]
  BY <1>1, OnlyFacts
<1> HIDE DEF r
<1>5. TakenFrom(r, q, m)
  <2>1. DOMAIN r \subseteq Nat /\ DOMAIN q \subseteq Nat
    BY <1>1, <1>3
  <2>2. ASSUME NEW i \in DOMAIN r, NEW j \in DOMAIN r, m[i] = m[j]
        PROVE  i = j
    <3>1. m[i] \in Nat /\ m[j] \in Nat /\ i \in Nat /\ j \in Nat
      BY <1>4, <2>1
    <3> QED
      BY <1>4, <2>2, <3>1
  <2> QED
    BY <1>4, <2>2 DEF TakenFrom
<1>6. WatchList(p, r, dirty, at)
  BY <1>3, <1>5, ListShrunk
<1>7. ASSUME NEW i \in DOMAIN r
      PROVE  at[r[i].cref].mark # 1
  <2>1. r[i] \in S
    BY <1>3 DEF Range
  <2>2. m[i] \in DOMAIN q /\ r[i] = q[m[i]]
    BY <1>4
  <2> QED
    BY <2>1, <2>2 DEF S
<1>8. WatchList(p, r, d2, at)
  <2>1. ASSUME NEW i \in DOMAIN r
        PROVE  Watches(p, at[r[i].cref], d2)
    <3>1. Watches(p, at[r[i].cref], dirty)
      BY <1>6 DEF WatchList
    <3> QED
      BY <1>7, <3>1 DEF Watches
  <2> QED
    BY <1>6, <2>1 DEF WatchList
<1> QED
  BY <1>2, <1>8

\* deleted are the listed watchers of removed clauses.
Deletes(deleted, ws, at) ==
    \A p \in ws.dirty : \A i \in DOMAIN ws.occs[p] :
      at[ws.occs[p][i].cref].mark = 1 => ws.occs[p][i] \in deleted

\* The watchers that clean() removes are those of removed clauses.
LEMMA DeletesListed ==
    ASSUME NEW s
    PROVE  Deletes(WatcherDeleted(s), s.watches, s.ca.at)
<1> SUFFICES ASSUME NEW p \in s.watches.dirty, NEW i \in DOMAIN s.watches.occs[p],
                    s.ca.at[s.watches.occs[p][i].cref].mark = 1
             PROVE  s.watches.occs[p][i] \in WatcherDeleted(s)
  BY DEF Deletes
<1>1. s.watches.occs[p][i] \in ToSet(s.watches.occs[p])
  BY DEF ToSet
<1>2. s.watches.occs[p][i] \in Listed(s.watches)
  BY <1>1 DEF Listed
<1> QED
  BY <1>2 DEF WatcherDeleted, IsRemoved

\* ws2 are lists as right, with p clean.
CleanAt(ws2, p, at, n) ==
    /\ IsOccLists(ws2, n) /\ p \notin ws2.dirty /\ Lists(ws2.occs, ws2.dirty, at, n)

\* lookup() leaves no watcher of a removed clause in the list
\* (SolverTypes.h:340).
LEMMA LookupCleans ==
    ASSUME NEW n, NEW ws, IsOccLists(ws, n), NEW at, Lists(ws.occs, ws.dirty, at, n),
           NEW deleted, Deletes(deleted, ws, at), NEW p \in LitsOf(n)
    PROVE  CleanAt(LookupOcc(ws, p, deleted), p, at, n)
<1>1. CASE p \notin ws.dirty
  <2>1. LookupOcc(ws, p, deleted) = ws
    BY <1>1 DEF LookupOcc
  <2> QED
    BY <1>1, <2>1 DEF CleanAt
<1>2. CASE p \in ws.dirty
  <2> DEFINE f == [ws.occs EXCEPT ![p] = Present(@, deleted)]
             d == ws.dirty \ {p}
             u == LookupOcc(ws, p, deleted)
  <2>1. u = [occs |-> f, dirty |-> d]
    BY <1>2 DEF LookupOcc, Clean
  <2>2. ws.occs = [r \in LitsOf(n) |-> ws.occs[r]] /\ ws.dirty \subseteq LitsOf(n)
    BY DEF IsOccLists
  <2>3. f = [r \in LitsOf(n) |-> f[r]] /\ f[p] = Present(ws.occs[p], deleted)
        /\ \A r \in LitsOf(n) : r # p => f[r] = ws.occs[r]
    BY <2>2
  <2>4. p \notin d /\ d \subseteq LitsOf(n) /\ \A r : r # p => (r \in d <=> r \in ws.dirty)
    BY <2>2
  <2> HIDE DEF f, d, u
  <2>5. ASSUME NEW r \in LitsOf(n)
        PROVE  WatchList(r, f[r], d, at)
    <3>1. WatchList(r, ws.occs[r], ws.dirty, at)
      BY DEF Lists
    <3>2. CASE r = p
      <4>1. \A i \in DOMAIN ws.occs[p] :
               at[ws.occs[p][i].cref].mark = 1 => ws.occs[p][i] \in deleted
        BY <1>2 DEF Deletes
      <4>2. WatchList(p, Present(ws.occs[p], deleted), d, at)
        BY <3>1, <3>2, <4>1, ListCleaned
      <4> QED
        BY <2>3, <3>2, <4>2
    <3>3. CASE r # p
      <4>1. \A c : Watches(r, c, ws.dirty) <=> Watches(r, c, d)
        BY <2>4, <3>3 DEF Watches
      <4> QED
        BY <2>3, <3>1, <3>3, <4>1 DEF WatchList
    <3> QED
      BY <3>2, <3>3
  <2>6. Lists(f, d, at, n)
    BY <2>5 DEF Lists
  <2>7. IsOccLists(u, n)
    BY <2>1, <2>3, <2>4 DEF IsOccLists
  <2>8. u.occs = f /\ u.dirty = d
    BY <2>1
  <2>9. CleanAt(u, p, at, n)
    BY <2>4, <2>6, <2>7, <2>8 DEF CleanAt
  <2> QED
    BY <2>9 DEF u
<1> QED
  BY <1>1, <1>2

-------------------------------------------------------------------------------
(* propagate().                                                                *)

\* Dequeue, its new lists given.
Dequeued(s, ws) ==
    [s EXCEPT !.qhead = @ + 1, !.simpProps = Less(@, 1), !.propBudget = Spend(@, 1), !.watches = ws]

DequeueFields == {"qhead", "simpProps", "propBudget", "watches"}
CountFields == {"qhead", "simpProps", "propBudget"}

\* The fields that the next literal of the queue changes (Solver.cc:512-515).
LEMMA DequeuedFields ==
    ASSUME NEW s, IsObject(s), NEW ws
    PROVE  /\ IsObject(Dequeued(s, ws)) /\ Dequeued(s, ws).watches = ws
           /\ Dequeued(s, ws).qhead = s.qhead + 1
           /\ Same(s, Dequeued(s, ws), DequeueFields)
           /\ Same(Rewatch(s, ws), Dequeued(s, ws), CountFields)
<1> DEFINE t == Dequeued(s, ws)
<1>1. IsObject(t) /\ t.watches = ws /\ t.qhead = s.qhead + 1 /\ Same(s, t, DequeueFields)
  BY DEF Dequeued, IsObject, Same, Fields, DequeueFields
<1>2. Rewatch(s, ws).watches = ws /\ Same(s, Rewatch(s, ws), OnlyWatches)
  BY RewatchFields
<1> DEFINE u == Rewatch(s, ws)
<1> HIDE DEF t, u
<1>3. Same(u, t, CountFields)
  <2> SUFFICES ASSUME NEW f \in Fields \ CountFields PROVE t[f] = u[f]
    BY DEF Same
  <2>1. CASE f = "watches"
    BY <1>1, <1>2, <2>1 DEF u
  <2>2. CASE f # "watches"
    <3>1. f \in Fields \ DequeueFields /\ f \in Fields \ OnlyWatches
      BY <2>2 DEF CountFields, DequeueFields, OnlyWatches
    <3>2. t[f] = s[f] /\ u[f] = s[f]
      BY <1>1, <1>2, <3>1 DEF Same, u
    <3> QED
      BY <3>2
  <2> QED
    BY <2>1, <2>2
<1> QED
  BY <1>1, <1>3 DEF t, u

\* The queue is not empty.
Queued(s) == s.qhead < Len(s.trail)

\* The first of the queue is just true.
LEMMA HeadJustTrue ==
    ASSUME NEW s, NEW strict, GoodBut(s, strict), LevelQueued(s), Queued(s)
    PROVE  JustTrue(s, s.trail[s.qhead + 1])
<1> DEFINE i == s.qhead + 1
<1>1. s.trail \in Seq(LitsOf(s.nextVar)) /\ s.qhead \in Nat /\ s.trailLim \in Seq(Nat)
      /\ TrailRight(s.trail, s.trailLim, s.assigns, s.level)
  BY KernelTypes
<1>2. i \in DOMAIN s.trail /\ s.trail[i] \in LitsOf(s.nextVar)
  BY <1>1 DEF Queued
<1>3. Val(s.assigns, s.trail[i]) = LTrue
  BY <1>1, <1>2 DEF TrailRight
<1>4. ASSUME NEW l \in DOMAIN s.trailLim
      PROVE  s.trailLim[l] < i
  <2>1. s.trailLim[l] <= s.qhead /\ s.trailLim[l] \in Nat
    BY <1>1 DEF LevelQueued
  <2> QED
    BY <1>1, <2>1
<1> HIDE DEF i
<1>5. JustTrue(s, s.trail[i])
  BY <1>2, <1>3, <1>4 DEF JustTrue
<1> QED
  BY <1>5 DEF i

\* With the next literal dequeued, its list is clean and ready to be visited.
LEMMA DequeueVisiting ==
    ASSUME NEW s, NEW strict, Good(s, strict), LevelQueued(s), Queued(s),
           NEW p, p = s.trail[s.qhead + 1], NEW t, t = Dequeue(s, p)
    PROVE  /\ Visiting(t, p, t.watches.occs[p], strict) /\ Same(s, t, DequeueFields)
           /\ t.qhead = s.qhead + 1 /\ s.qhead \in Nat
<1> DEFINE n == s.nextVar
           ws == LookupOcc(s.watches, p, WatcherDeleted(s))
           u == Rewatch(s, ws)
<1>1. GoodBut(s, strict) /\ IsOccLists(s.watches, n) /\ IsObject(s)
      /\ Lists(s.watches.occs, s.watches.dirty, s.ca.at, n)
  BY DEF Good, Watched, GoodBut
<1>2. JustTrue(s, p)
  BY <1>1, HeadJustTrue
<1>3. t = Dequeued(s, ws)
  BY DEF Dequeue, Dequeued
<1>4. CleanAt(ws, p, s.ca.at, n)
  <2>1. Deletes(WatcherDeleted(s), s.watches, s.ca.at) /\ p \in LitsOf(n)
    BY <1>2, DeletesListed DEF JustTrue
  <2> HIDE DEF n
  <2> QED
    BY <1>1, <2>1, LookupCleans
<1> HIDE DEF ws, u
<1>5. IsOccLists(ws, n) /\ p \notin ws.dirty /\ Lists(ws.occs, ws.dirty, s.ca.at, n)
  BY <1>4 DEF CleanAt
<1>6. GoodBut(u, strict)
  BY <1>1, <1>5, RewatchGood DEF u
<1>7. /\ IsObject(t) /\ t.watches = ws /\ t.qhead = s.qhead + 1
      /\ Same(s, t, DequeueFields) /\ Same(u, t, CountFields)
  BY <1>1, <1>3, DequeuedFields DEF u
<1>8. s.qhead \in Nat /\ s.trail \in Seq(LitsOf(n))
  BY <1>1, KernelTypes
<1>9. GoodBut(t, strict)
  <2>1. CountFields \intersect Kernel = {}
    BY DEF CountFields, Kernel
  <2> QED
    BY <1>6, <1>7, <1>8, <2>1, AsGood
<1>10. /\ t.trail = s.trail /\ t.trailLim = s.trailLim /\ t.assigns = s.assigns
       /\ t.nextVar = n /\ t.ca = s.ca
  BY <1>7 DEF Same, Fields, DequeueFields
<1>11. JustTrue(t, p)
  BY <1>2, <1>10 DEF JustTrue
<1>12. t.qhead <= Len(t.trail)
  <2>1. Len(s.trail) \in Nat /\ s.qhead < Len(s.trail)
    BY <1>8 DEF Queued
  <2> QED
    BY <1>7, <1>8, <1>10, <2>1
<1>13. [t.watches.occs EXCEPT ![p] = t.watches.occs[p]] = t.watches.occs
  BY <1>5, <1>7 DEF IsOccLists
<1>14. Visiting(t, p, t.watches.occs[p], strict)
  BY <1>5, <1>7, <1>9, <1>10, <1>11, <1>12, <1>13 DEF Visiting
<1> QED
  BY <1>7, <1>8, <1>14

\* The kept watchers become the list of p.
KeptIn(ws, p, q) == [ws EXCEPT !.occs[p] = q]

\* The list of one literal cut to what is kept (Solver.cc:558).
LEMMA KeptLists ==
    ASSUME NEW n, NEW ws, IsOccLists(ws, n), NEW p \in LitsOf(n), NEW q
    PROVE  /\ IsOccLists(KeptIn(ws, p, q), n) /\ KeptIn(ws, p, q).dirty = ws.dirty
           /\ KeptIn(ws, p, q).occs = [ws.occs EXCEPT ![p] = q]
<1> DEFINE t == KeptIn(ws, p, q)
           f == [ws.occs EXCEPT ![p] = q]
<1>1. ws = [occs |-> ws.occs, dirty |-> ws.dirty] /\ ws.dirty \subseteq LitsOf(n)
      /\ ws.occs = [r \in LitsOf(n) |-> ws.occs[r]]
  BY DEF IsOccLists
<1>2. t = [ws EXCEPT !.occs = f]
  BY DEF KeptIn
<1>3. f = [r \in LitsOf(n) |-> f[r]]
  BY <1>1
<1> HIDE DEF t, f
<1>4. t = [occs |-> f, dirty |-> ws.dirty]
  BY <1>1, <1>2
<1>5. IsOccLists(t, n)
  BY <1>1, <1>3, <1>4 DEF IsOccLists
<1> QED
  BY <1>4, <1>5 DEF t, f

KeptFor(s, p, q) == [s EXCEPT !.watches.occs[p] = q]

\* The kept watchers written back: a good object again.
LEMMA KeepGood ==
    ASSUME NEW s, NEW p, NEW q, NEW strict, Visiting(s, p, q, strict), NEW t, t = KeptFor(s, p, q)
    PROVE  Good(t, strict) /\ IsObject(t) /\ Same(s, t, OnlyWatches)
<1> DEFINE ws == KeptIn(s.watches, p, q)
<1>1. GoodBut(s, strict) /\ IsObject(s) /\ IsOccLists(s.watches, s.nextVar) /\ p \in LitsOf(s.nextVar)
      /\ Lists([s.watches.occs EXCEPT ![p] = q], s.watches.dirty, s.ca.at, s.nextVar)
  BY DEF Visiting, GoodBut, JustTrue
<1>2. t = Rewatch(s, ws)
  BY DEF Rewatch, KeptIn, KeptFor
<1>3. IsOccLists(ws, s.nextVar) /\ ws.dirty = s.watches.dirty /\ ws.occs = [s.watches.occs EXCEPT ![p] = q]
  BY <1>1, KeptLists
<1> HIDE DEF ws
<1>4. GoodBut(t, strict)
  BY <1>1, <1>2, <1>3, RewatchGood
<1>5. IsObject(t) /\ t.watches = ws /\ Same(s, t, OnlyWatches)
  BY <1>1, <1>2, RewatchFields
<1>6. t.ca = s.ca /\ t.nextVar = s.nextVar
  BY <1>5 DEF Same, Fields, OnlyWatches
<1> QED
  BY <1>1, <1>3, <1>4, <1>5, <1>6 DEF Good, Watched

PropRun(g, r, n) == g[0] = r /\ \A i \in 1 .. n : g[i] = PropagateNext(g[i - 1])

\* The loop over the queue runs.
LEMMA PropagateRuns ==
    ASSUME NEW r, NEW n \in Nat, n = r.s.nextVar
    PROVE  \E g : PropRun(g, r, n) /\ PropagateQueue(r) = g[n]
<1> DEFINE x0 == r
           loop[i \in 0 .. n] == IF i = 0 THEN x0 ELSE PropagateNext(loop[i - 1])
           S == {m \in Nat : \E g : g = [i \in 0 .. m |-> IF i = 0 THEN x0
                                                        ELSE PropagateNext(g[i - 1])]}
<1>1. PropagateQueue(r) = loop[n]
  BY DEF PropagateQueue
<1> HIDE DEF x0
<1>2. 0 \in S
  <2> DEFINE g == [i \in 0 .. 0 |-> x0]
  <2>1. g = [i \in 0 .. 0 |-> IF i = 0 THEN x0 ELSE PropagateNext(g[i - 1])]
    OBVIOUS
  <2> HIDE DEF g
  <2> QED
    BY <2>1
<1>3. ASSUME NEW m \in Nat, m \in S
      PROVE  m + 1 \in S
  <2>1. PICK g : g = [i \in 0 .. m |-> IF i = 0 THEN x0 ELSE PropagateNext(g[i - 1])]
    BY <1>3
  <2> DEFINE h == [i \in 0 .. m + 1 |-> IF i = m + 1 THEN PropagateNext(g[m]) ELSE g[i]]
  <2>2. ASSUME NEW i \in 0 .. m + 1
        PROVE  h[i] = IF i = 0 THEN x0 ELSE PropagateNext(h[i - 1])
    <3>1. CASE i = m + 1
      <4>1. i - 1 = m /\ m \in 0 .. m + 1 /\ m # m + 1 /\ i # 0
        BY <3>1
      <4>2. h[i - 1] = g[m]
        BY <2>1, <4>1
      <4> QED
        BY <3>1, <4>1, <4>2
    <3>2. CASE i # m + 1
      <4>1. i \in 0 .. m
        BY <3>2
      <4>2. h[i] = g[i] /\ g[i] = IF i = 0 THEN x0 ELSE PropagateNext(g[i - 1])
        BY <2>1, <3>2, <4>1
      <4>3. CASE i # 0
        <5>1. i - 1 \in 0 .. m + 1 /\ i - 1 # m + 1
          BY <4>1, <4>3
        <5>2. h[i - 1] = g[i - 1]
          BY <5>1
        <5> QED
          BY <4>2, <4>3, <5>2
      <4> QED
        BY <4>2, <4>3
    <3> QED
      BY <3>1, <3>2
  <2>3. h = [i \in 0 .. m + 1 |-> IF i = 0 THEN x0 ELSE PropagateNext(h[i - 1])]
    <3>1. h = [i \in 0 .. m + 1 |-> h[i]]
      OBVIOUS
    <3> HIDE DEF h
    <3> QED
      BY <2>2, <3>1
  <2>4. \E k : k = [i \in 0 .. m + 1 |-> IF i = 0 THEN x0 ELSE PropagateNext(k[i - 1])]
    <3> HIDE DEF h
    <3> QED
      BY <2>3
  <2> QED
    BY <2>4
<1>4. n \in S
  <2> HIDE DEF S
  <2>1. Nat \subseteq S
    BY <1>2, <1>3, InductionOn
  <2> QED
    BY <2>1
<1>5. loop = [i \in 0 .. n |-> IF i = 0 THEN x0 ELSE PropagateNext(loop[i - 1])]
  <2>1. \E g : g = [i \in 0 .. n |-> IF i = 0 THEN x0 ELSE PropagateNext(g[i - 1])]
    BY <1>4
  <2>2. loop = CHOOSE g : g = [i \in 0 .. n |-> IF i = 0 THEN x0
                                              ELSE PropagateNext(g[i - 1])]
    BY DEF loop
  <2> HIDE DEF loop
  <2> QED
    BY <2>1, <2>2, Zenon
<1> HIDE DEF loop
<1>6. loop[0] = x0 /\ \A i \in 1 .. n : loop[i] = PropagateNext(loop[i - 1])
  <2>1. 0 \in 0 .. n /\ \A i \in 1 .. n : i \in 0 .. n /\ i # 0
    OBVIOUS
  <2> QED
    BY <1>5, <2>1
<1>7. PropRun(loop, r, n)
  BY <1>6 DEF PropRun, x0
<1> QED
  BY <1>1, <1>7

\* What propagation may change.
PropFields == VisitFields \union {"simpProps", "propBudget"}

\* The outcome of a part of propagation from o.
PropAt(r, o, k, strict) ==
    /\ r = [s |-> r.s, confl |-> r.confl]
    /\ Good(r.s, strict) /\ LevelQueued(r.s) /\ Same(o, r.s, PropFields)
    /\ r.confl # CRefUndef => ConflictRight(r.s, r.confl) /\ Propagated(r.s)
    /\ Grown(o.assigns, r.s.assigns)
    /\ Propagated(r.s) \/ k <= r.s.qhead

\* One round of propagate() keeps what the rounds before have reached.
LEMMA PropagateRound ==
    ASSUME NEW o, NEW strict, NEW r, NEW k \in Nat, PropAt(r, o, k, strict), Queued(r.s)
    PROVE  PropAt(PropagateNext(r), o, k + 1, strict)
<1> DEFINE s == r.s
           p == s.trail[s.qhead + 1]
           t == Dequeue(s, p)
           ws == t.watches.occs[p]
           a == VisitAll(t, p, CRefUndef)
           u == KeptFor(a.s, p, a.kept)
<1>1. /\ r = [s |-> r.s, confl |-> r.confl]
      /\ Good(s, strict) /\ LevelQueued(s) /\ Same(o, s, PropFields)
      /\ (r.confl # CRefUndef => Propagated(s))
      /\ (Propagated(s) \/ k <= s.qhead)
  BY DEF PropAt
<1>18. Grown(o.assigns, s.assigns)
  BY DEF PropAt
<1>2. s.qhead \in Nat /\ s.trail \in Seq(LitsOf(s.nextVar)) /\ s.trailLim \in Seq(Nat)
  BY <1>1, KernelTypes DEF Good
<1>3. ~Propagated(s) /\ r.confl = CRefUndef /\ k <= s.qhead /\ ~(s.qhead >= Len(s.trail))
  BY <1>1, <1>2 DEF Queued, Propagated
<1>4. PropagateNext(r) = [s |-> u, confl |-> a.confl]
  BY <1>3 DEF PropagateNext, KeepWatchers, KeptFor
<1>5. p = s.trail[s.qhead + 1] /\ t = Dequeue(s, p) /\ ws = t.watches.occs[p]
      /\ u = KeptFor(a.s, p, a.kept) /\ a = VisitAll(t, p, CRefUndef)
      /\ Queued(s)
  OBVIOUS
<1> HIDE DEF s, p, t, ws, a, u
<1>6. Visiting(t, p, ws, strict) /\ Same(s, t, DequeueFields) /\ t.qhead = s.qhead + 1
  BY <1>1, <1>5, DequeueVisiting
<1>7. VisitedTo(a, t, p, ws, Len(ws), strict)
  BY <1>5, <1>6, VisitAllGood
<1>8. /\ a.kept \in Seq(WatcherSet) /\ Visiting(a.s, p, Pending(a.kept, ws, Len(ws)), strict)
      /\ Same(t, a.s, VisitFields)
      /\ (a.confl # CRefUndef => ConflictRight(a.s, a.confl) /\ a.s.qhead = Len(a.s.trail))
      /\ t.qhead <= a.s.qhead
  BY <1>7 DEF VisitedTo
<1>9. Pending(a.kept, ws, Len(ws)) = a.kept
  <2>1. ws \in Seq(WatchersIn(t.ca.at)) \/ Len(ws) \in Nat
    <3>1. p \in LitsOf(t.nextVar) /\ p \in DOMAIN t.watches.occs
      BY <1>6 DEF Visiting, JustTrue, GoodBut, IsOccLists
    <3>2. WatchList(p, [t.watches.occs EXCEPT ![p] = ws][p], t.watches.dirty, t.ca.at)
      BY <1>6, <3>1 DEF Visiting, Lists
    <3> QED
      BY <3>1, <3>2 DEF WatchList
  <2>2. Len(ws) \in Nat
    BY <2>1
  <2>3. SubSeq(ws, Len(ws) + 1, Len(ws)) = <<>>
    BY <2>2, SubSeqEmpty
  <2> QED
    BY <1>8, <2>3, ConcatEmptySeq DEF Pending
<1>10. Good(u, strict) /\ IsObject(u) /\ Same(a.s, u, OnlyWatches)
  BY <1>5, <1>8, <1>9, KeepGood
<1>11. /\ u.trail = a.s.trail /\ u.trailLim = a.s.trailLim /\ u.qhead = a.s.qhead /\ u.ca = a.s.ca
       /\ u.assigns = a.s.assigns /\ u.level = a.s.level
  BY <1>10 DEF Same, Fields, OnlyWatches
<1>12. u.trailLim = s.trailLim
  BY <1>6, <1>8, <1>11 DEF Same, Fields, VisitFields, DequeueFields
<1>13. Same(o, u, PropFields)
  <2>1. /\ DequeueFields \subseteq PropFields /\ VisitFields \subseteq PropFields
        /\ OnlyWatches \subseteq PropFields /\ PropFields \subseteq PropFields
    BY DEF DequeueFields, VisitFields, OnlyWatches, PropFields
  <2>2. Same(o, t, PropFields)
    BY <1>1, <1>6, <2>1, SameTwice
  <2>3. Same(o, a.s, PropFields)
    BY <1>8, <2>1, <2>2, SameTwice
  <2> QED
    BY <1>10, <2>1, <2>3, SameTwice
<1>14. a.s.qhead \in Nat /\ a.s.qhead <= Len(a.s.trail)
  BY <1>8, KernelTypes DEF Visiting
<1>15. LevelQueued(u) /\ k + 1 <= u.qhead
  <2>1. ASSUME NEW l \in DOMAIN u.trailLim
        PROVE  u.trailLim[l] <= u.qhead
    <3>1. s.trailLim[l] <= s.qhead /\ s.trailLim[l] \in Nat
      BY <1>1, <1>2, <1>12 DEF LevelQueued
    <3> QED
      BY <1>2, <1>6, <1>8, <1>11, <1>12, <1>14, <3>1
  <2>2. k + 1 <= u.qhead
    BY <1>2, <1>3, <1>6, <1>8, <1>11, <1>14
  <2> QED
    BY <1>11, <1>14, <2>1, <2>2 DEF LevelQueued
<1>16. a.confl # CRefUndef => ConflictRight(u, a.confl) /\ Propagated(u)
  BY <1>8, <1>11 DEF ConflictRight, Propagated
<1>17. Grown(o.assigns, u.assigns)
  <2>1. Grown(o.assigns, s.assigns) /\ Grown(t.assigns, a.s.assigns)
    BY <1>7, <1>18 DEF VisitedTo
  <2>2. t.assigns = s.assigns
    BY <1>6 DEF Same, Fields, DequeueFields
  <2> QED
    BY <1>11, <2>1, <2>2, GrownTwice
<1>19. PropAt([s |-> u, confl |-> a.confl], o, k + 1, strict)
  BY <1>10, <1>13, <1>15, <1>16, <1>17 DEF PropAt
<1> QED
  BY <1>4, <1>19

\* No more literals are true than there are variables.
LEMMA TrailFits ==
    ASSUME NEW o, NEW strict, GoodBut(o, strict)
    PROVE  Len(o.trail) <= o.nextVar
<1> DEFINE n == o.nextVar
           f == [i \in 1 .. Len(o.trail) |-> VarOf(o.trail[i])]
<1>1. n \in Nat /\ o.trail \in Seq(LitsOf(n)) /\ OnceOn(o.trail)
  BY KernelTypes DEF TrailRight
<1>2. Len(o.trail) \in Nat /\ DOMAIN o.trail = 1 .. Len(o.trail)
      /\ \A i \in 1 .. Len(o.trail) : o.trail[i] \in LitsOf(n)
  BY <1>1
<1> HIDE DEF n
<1>3. \A i \in 1 .. Len(o.trail) : VarOf(o.trail[i]) \in VarsUpTo(n)
  BY <1>1, <1>2, LitFacts
<1>4. f \in [1 .. Len(o.trail) -> VarsUpTo(n)]
  BY <1>3
<1>5. \A i, j \in 1 .. Len(o.trail) : f[i] = f[j] => i = j
  BY <1>1, <1>2 DEF OnceOn
<1> HIDE DEF f
<1>6. f \in Injection(1 .. Len(o.trail), VarsUpTo(n))
  BY <1>4, <1>5 DEF Injection, IsInjective
<1>7. IsFiniteSet(0 .. n - 1) /\ Cardinality(0 .. n - 1) = n
  <2>1. 0 \in Int /\ n - 1 \in Int
    BY <1>1
  <2>2. IsFiniteSet(0 .. n - 1) /\ Cardinality(0 .. n - 1) = IF 0 > n - 1 THEN 0 ELSE (n - 1) - 0 + 1
    BY <2>1, FS_Interval
  <2> QED
    BY <1>1, <2>2
<1>8. Cardinality(1 .. Len(o.trail)) <= Cardinality(VarsUpTo(n))
  BY <1>6, <1>7, FS_Injection DEF VarsUpTo
<1>9. Cardinality(1 .. Len(o.trail)) = Len(o.trail)
  <2>1. 1 \in Int /\ Len(o.trail) \in Int
    BY <1>2
  <2>2. Cardinality(1 .. Len(o.trail)) = IF 1 > Len(o.trail) THEN 0 ELSE Len(o.trail) - 1 + 1
    BY <2>1, FS_Interval
  <2> QED
    BY <1>2, <2>2
<1> QED
  BY <1>7, <1>8, <1>9 DEF VarsUpTo, n

\* The outcome of propagate().
Propagates(o, r, strict) ==
    /\ r = [s |-> r.s, confl |-> r.confl]
    /\ Good(r.s, strict) /\ Propagated(r.s) /\ Same(o, r.s, PropFields)
    /\ r.confl # CRefUndef => ConflictRight(r.s, r.confl)
    /\ Grown(o.assigns, r.s.assigns)

\* propagate() keeps a good object good, and leaves everything propagated or a
\* conflict.
THEOREM PropagateGood ==
    ASSUME NEW o, NEW strict, Good(o, strict), LevelQueued(o)
    PROVE  Propagates(o, Propagate(o), strict)
<1> DEFINE r0 == [s |-> o, confl |-> CRefUndef]
           n == o.nextVar
<1>1. n \in Nat /\ r0.s = o /\ r0.confl = CRefUndef /\ Propagate(o) = PropagateQueue(r0)
      /\ n = r0.s.nextVar /\ o.qhead \in Nat /\ r0 = [s |-> r0.s, confl |-> r0.confl]
  BY KernelTypes DEF Good, Propagate
<1> HIDE DEF r0, n
<1>2. PICK g : PropRun(g, r0, n) /\ PropagateQueue(r0) = g[n]
  BY <1>1, PropagateRuns
<1>3. g[0] = r0 /\ \A i \in 1 .. n : g[i] = PropagateNext(g[i - 1])
  BY <1>2 DEF PropRun
<1> DEFINE S == {i \in Nat : i <= n => PropAt(g[i], o, o.qhead + i, strict)}
<1>4. 0 \in S
  <2>1. Same(o, o, PropFields) /\ o.qhead + 0 <= o.qhead
    BY <1>1 DEF Same
  <2>2. PropAt(r0, o, o.qhead + 0, strict)
    BY <1>1, <2>1 DEF PropAt, Grown
  <2> QED
    BY <1>3, <2>2
<1>5. ASSUME NEW i \in Nat, i \in S
      PROVE  i + 1 \in S
  <2> SUFFICES ASSUME i + 1 <= n PROVE PropAt(g[i + 1], o, o.qhead + (i + 1), strict)
    OBVIOUS
  <2> DEFINE r == g[i]
             k == o.qhead + i
  <2>1. PropAt(r, o, k, strict) /\ k \in Nat /\ k + 1 = o.qhead + (i + 1)
    BY <1>1, <1>5
  <2>2. g[i + 1] = PropagateNext(r)
    <3>1. i + 1 \in 1 .. n /\ (i + 1) - 1 = i
      BY <1>1
    <3> QED
      BY <1>3, <3>1
  <2> HIDE DEF r, k
  <2>3. CASE Queued(r.s)
    BY <2>1, <2>2, <2>3, PropagateRound
  <2>4. CASE ~Queued(r.s)
    <3>1. Good(r.s, strict) /\ LevelQueued(r.s)
      BY <2>1 DEF PropAt
    <3>2. r.s.qhead \in Nat /\ Len(r.s.trail) \in Nat
      <4>1. r.s.qhead \in Nat /\ r.s.trail \in Seq(LitsOf(r.s.nextVar))
        BY <3>1, KernelTypes DEF Good
      <4> QED
        BY <4>1
    <3>3. Propagated(r.s) /\ r.s.qhead >= Len(r.s.trail)
      BY <2>4, <3>1, <3>2 DEF Queued, LevelQueued, Propagated
    <3>4. PropagateNext(r) = r
      BY <3>3 DEF PropagateNext
    <3>5. PropAt(r, o, k + 1, strict)
      BY <2>1, <3>3 DEF PropAt
    <3> QED
      BY <2>1, <2>2, <3>4, <3>5
  <2> QED
    BY <2>3, <2>4
<1>6. n \in S
  <2> HIDE DEF S
  <2>1. Nat \subseteq S
    BY <1>4, <1>5, InductionOn
  <2> QED
    BY <1>1, <2>1
<1> DEFINE r == g[n]
<1>7. PropAt(r, o, o.qhead + n, strict)
  BY <1>1, <1>6
<1>8. r = Propagate(o)
  BY <1>1, <1>2
<1> HIDE DEF r
<1>9. Good(r.s, strict) /\ LevelQueued(r.s) /\ Same(o, r.s, PropFields)
      /\ (Propagated(r.s) \/ o.qhead + n <= r.s.qhead)
      /\ r = [s |-> r.s, confl |-> r.confl]
      /\ (r.confl # CRefUndef => ConflictRight(r.s, r.confl)) /\ Grown(o.assigns, r.s.assigns)
  BY <1>7 DEF PropAt
<1>10. Propagated(r.s)
  <2>1. Len(r.s.trail) <= r.s.nextVar /\ r.s.qhead \in Nat /\ r.s.trail \in Seq(LitsOf(r.s.nextVar))
    BY <1>9, TrailFits, KernelTypes DEF Good
  <2>2. r.s.nextVar = n
    BY <1>9 DEF Same, Fields, PropFields, VisitFields, n
  <2>3. Len(r.s.trail) \in Nat /\ r.s.qhead <= Len(r.s.trail)
    BY <1>9, <2>1 DEF LevelQueued
  <2> QED
    BY <1>1, <1>9, <2>1, <2>2, <2>3 DEF Propagated
<1> QED
  BY <1>8, <1>9, <1>10 DEF Propagates

-------------------------------------------------------------------------------
(* cancelUntil().                                                              *)

\* The variables of the literals beyond position keep are unassigned.
Undone(trail, keep) == {VarOf(trail[i]) : i \in keep + 1 .. Len(trail)}
Unassigned(assigns, vars) == [v \in DOMAIN assigns |-> IF v \in vars THEN LUndef ELSE assigns[v]]

\* Level k ends at position keep: it is not the last one.
EndsAt(lim, k, keep) == k \in 0 .. Len(lim) - 1 /\ keep = lim[k + 1]

\* A prefix of a sequence.
LEMMA Prefix ==
    ASSUME NEW X, NEW q \in Seq(X), NEW m \in 0 .. Len(q)
    PROVE  /\ SubSeq(q, 1, m) \in Seq(X) /\ Len(SubSeq(q, 1, m)) = m /\ DOMAIN SubSeq(q, 1, m) = 1 .. m
           /\ \A i \in 1 .. m : SubSeq(q, 1, m)[i] = q[i] /\ i \in DOMAIN q
           /\ m \in Nat /\ Len(q) \in Nat /\ DOMAIN q = 1 .. Len(q)
<1>1. Len(q) \in Nat /\ DOMAIN q = 1 .. Len(q) /\ m \in Nat /\ m <= Len(q)
  OBVIOUS
<1>2. \A i \in 1 .. m : q[i] \in X /\ i \in DOMAIN q
  BY <1>1
<1>3. SubSeq(q, 1, m) = [i \in 1 .. m |-> q[i]]
  BY <1>1, <1>2
<1> QED
  BY <1>1, <1>2, <1>3

\* What the positions up to keep have, and no undone one.
KeptPart(trail, lim, k, keep, level) ==
    /\ keep \in 0 .. Len(trail)
    /\ \A i \in DOMAIN trail : i <= keep => VarOf(trail[i]) \notin Undone(trail, keep)
    /\ \A v \in Undone(trail, keep) : level[v] \in Nat /\ level[v] > k
    /\ \A i \in DOMAIN trail : i <= keep => level[VarOf(trail[i])] <= k
    /\ \A l \in DOMAIN lim : l <= k <=> ~(keep <= lim[l]) \/ (l <= k /\ lim[l] = keep)

\* The literals above a level are exactly those at the end of the trail.
LEMMA UndoneAbove ==
    ASSUME NEW n \in Nat, NEW assigns, NEW trail \in Seq(LitsOf(n)), NEW lim \in Seq(Nat),
           NEW level \in [VarsUpTo(n) -> Nat], TrailRight(trail, lim, assigns, level),
           NEW k \in Nat, NEW keep, EndsAt(lim, k, keep)
    PROVE  KeptPart(trail, lim, k, keep, level)
<1>1. /\ Len(lim) \in Nat /\ DOMAIN lim = 1 .. Len(lim) /\ \A l \in DOMAIN lim : lim[l] \in Nat
  OBVIOUS
<1>2. k + 1 \in DOMAIN lim /\ keep = lim[k + 1] /\ keep \in Nat
  BY <1>1 DEF EndsAt
<1>3. Len(trail) \in Nat /\ DOMAIN trail = 1 .. Len(trail)
      /\ \A i \in DOMAIN trail : trail[i] \in LitsOf(n) /\ VarOf(trail[i]) \in VarsUpTo(n)
  BY LitFacts
<1>4. (\A l \in DOMAIN lim : lim[l] <= Len(trail))
      /\ \A j, l \in DOMAIN lim : j <= l => lim[j] <= lim[l]
  BY DEF TrailRight, Limits
<1>5. \A i \in DOMAIN trail : AtLevel(level[VarOf(trail[i])], lim, i)
  BY DEF TrailRight
<1>6. \A i, j \in DOMAIN trail : VarOf(trail[i]) = VarOf(trail[j]) => i = j
  BY DEF TrailRight, OnceOn
<1>7. keep \in 0 .. Len(trail)
  BY <1>2, <1>3, <1>4
<1>8. ASSUME NEW i \in DOMAIN trail
      PROVE  /\ i <= keep => VarOf(trail[i]) \notin Undone(trail, keep)
             /\ i <= keep => level[VarOf(trail[i])] <= k
             /\ keep < i => level[VarOf(trail[i])] > k
  <2>1. level[VarOf(trail[i])] \in Nat /\ (lim[k + 1] < i <=> k + 1 <= level[VarOf(trail[i])])
    BY <1>2, <1>3, <1>5 DEF AtLevel
  <2>2. ASSUME i <= keep, VarOf(trail[i]) \in Undone(trail, keep)
        PROVE  FALSE
    <3>1. PICK j \in keep + 1 .. Len(trail) : VarOf(trail[i]) = VarOf(trail[j])
      BY <2>2 DEF Undone
    <3>2. j \in DOMAIN trail /\ j # i
      BY <1>2, <1>3, <2>2, <3>1
    <3> QED
      BY <1>6, <3>1, <3>2
  <2>3. i \in Nat
    BY <1>3
  <2> QED
    BY <1>2, <2>1, <2>2, <2>3
<1>9. ASSUME NEW v \in Undone(trail, keep)
      PROVE  level[v] \in Nat /\ level[v] > k
  <2>1. PICK j \in keep + 1 .. Len(trail) : v = VarOf(trail[j])
    BY DEF Undone
  <2>2. j \in DOMAIN trail /\ keep < j
    BY <1>2, <1>3, <2>1
  <2> QED
    BY <1>3, <1>8, <2>1, <2>2
<1>10. ASSUME NEW l \in DOMAIN lim
       PROVE  l <= k <=> ~(keep <= lim[l]) \/ (l <= k /\ lim[l] = keep)
  <2>1. l \in Nat /\ lim[l] \in Nat
    BY <1>1
  <2>2. l <= k => l <= k + 1
    BY <2>1
  <2>3. l <= k => lim[l] <= keep
    BY <1>2, <1>4, <2>2
  <2>4. ~(l <= k) => k + 1 <= l
    BY <2>1
  <2>5. ~(l <= k) => keep <= lim[l]
    BY <1>2, <1>4, <2>4
  <2> QED
    BY <1>2, <2>1, <2>3, <2>5
<1> QED
  BY <1>7, <1>8, <1>9, <1>10 DEF KeptPart

\* a is the assignment without that of vars.
Unassigns(n, assigns, vars, a) ==
    /\ a \in [VarsUpTo(n) -> Lbools]
    /\ \A v \in VarsUpTo(n) : v \notin vars => a[v] = assigns[v]
    /\ \A v \in VarsUpTo(n) : v \in vars => a[v] = LUndef
    /\ \A p \in LitsOf(n) : VarOf(p) \notin vars => Val(a, p) = Val(assigns, p)

\* The values of what stays assigned.
LEMMA StaysAssigned ==
    ASSUME NEW n \in Nat, NEW assigns \in [VarsUpTo(n) -> Lbools], NEW vars
    PROVE  Unassigns(n, assigns, vars, Unassigned(assigns, vars))
<1> DEFINE a == Unassigned(assigns, vars)
<1>1. /\ a \in [VarsUpTo(n) -> Lbools]
      /\ \A v \in VarsUpTo(n) : v \notin vars => a[v] = assigns[v]
      /\ \A v \in VarsUpTo(n) : v \in vars => a[v] = LUndef
  BY DEF Unassigned, Lbools
<1>2. \A p \in LitsOf(n) : VarOf(p) \in VarsUpTo(n)
  BY LitFacts
<1>3. \A p \in LitsOf(n) : VarOf(p) \notin vars => Val(a, p) = Val(assigns, p)
  BY <1>1, <1>2 DEF Val
<1> QED
  BY <1>1, <1>3 DEF Unassigns

\* The trail without its levels above k.
LEMMA TrailCut ==
    ASSUME NEW n \in Nat, NEW assigns \in [VarsUpTo(n) -> Lbools], NEW trail \in Seq(LitsOf(n)),
           NEW lim \in Seq(Nat), NEW level \in [VarsUpTo(n) -> Nat],
           TrailRight(trail, lim, assigns, level), NEW k \in Nat, NEW keep, EndsAt(lim, k, keep)
    PROVE  TrailRight(SubSeq(trail, 1, keep), SubSeq(lim, 1, k),
                      Unassigned(assigns, Undone(trail, keep)), level)
<1> DEFINE U == Undone(trail, keep)
           t == SubSeq(trail, 1, keep)
           m == SubSeq(lim, 1, k)
           a == Unassigned(assigns, U)
<1>1. KeptPart(trail, lim, k, keep, level)
  BY UndoneAbove
<1>2. /\ keep \in 0 .. Len(trail)
      /\ \A i \in DOMAIN trail : i <= keep => VarOf(trail[i]) \notin U
      /\ \A v \in U : level[v] \in Nat /\ level[v] > k
      /\ \A i \in DOMAIN trail : i <= keep => level[VarOf(trail[i])] <= k
  BY <1>1 DEF KeptPart
<1>3. \A l \in DOMAIN lim : l <= k => lim[l] <= keep
  <2>1. keep \in Nat /\ \A l \in DOMAIN lim : lim[l] \in Nat
    BY <1>2
  <2> QED
    BY <1>1, <2>1 DEF KeptPart
<1>4. k \in 0 .. Len(lim) /\ Len(lim) \in Nat
  BY DEF EndsAt
<1>5. /\ t \in Seq(LitsOf(n)) /\ Len(t) = keep /\ DOMAIN t = 1 .. keep
      /\ \A i \in 1 .. keep : t[i] = trail[i] /\ i \in DOMAIN trail
      /\ keep \in Nat
  BY <1>2, Prefix
<1>6. /\ m \in Seq(Nat) /\ Len(m) = k /\ DOMAIN m = 1 .. k
      /\ \A l \in 1 .. k : m[l] = lim[l] /\ l \in DOMAIN lim
  BY <1>4, Prefix
<1>7. /\ \A v \in VarsUpTo(n) : v \notin U => a[v] = assigns[v]
      /\ \A v \in VarsUpTo(n) : v \in U => a[v] = LUndef
      /\ \A p \in LitsOf(n) : VarOf(p) \notin U => Val(a, p) = Val(assigns, p)
      /\ a \in [VarsUpTo(n) -> Lbools]
  <2>1. Unassigns(n, assigns, U, Unassigned(assigns, U))
    BY StaysAssigned
  <2> QED
    BY <2>1 DEF Unassigns
<1> HIDE DEF U, t, m, a
<1>8. ASSUME NEW i \in DOMAIN t
      PROVE  Val(a, t[i]) = LTrue /\ AtLevel(level[VarOf(t[i])], m, i)
  <2>1. i \in DOMAIN trail /\ t[i] = trail[i] /\ i <= keep /\ t[i] \in LitsOf(n)
    BY <1>5
  <2>2. Val(assigns, trail[i]) = LTrue /\ AtLevel(level[VarOf(trail[i])], lim, i)
    BY <2>1 DEF TrailRight
  <2>3. VarOf(trail[i]) \notin U /\ level[VarOf(trail[i])] <= k
    BY <1>2, <2>1
  <2>4. Val(a, t[i]) = LTrue
    BY <1>7, <2>1, <2>2, <2>3
  <2>5. AtLevel(level[VarOf(trail[i])], m, i)
    <3> DEFINE L == level[VarOf(trail[i])]
    <3>1. L \in Nat /\ L <= k
      BY <2>2, <2>3, <1>4 DEF AtLevel
    <3>2. \A l \in 1 .. k : m[l] < i <=> l <= L
      BY <1>6, <2>2 DEF AtLevel
    <3> HIDE DEF L
    <3>3. AtLevel(L, m, i)
      BY <1>6, <3>1, <3>2 DEF AtLevel
    <3> QED
      BY <3>3 DEF L
  <2> QED
    BY <2>1, <2>4, <2>5
<1>9. OnceOn(t)
  BY <1>5 DEF TrailRight, OnceOn
<1>10. ASSUME NEW v \in DOMAIN a, a[v] # LUndef
       PROVE  level[v] = 0 \/ OnTrail(t, v)
  <2>1. v \in VarsUpTo(n) /\ v \notin U /\ assigns[v] # LUndef
    BY <1>7, <1>10
  <2>2. level[v] = 0 \/ OnTrail(trail, v)
    BY <2>1 DEF TrailRight
  <2>3. ASSUME OnTrail(trail, v)
        PROVE  OnTrail(t, v)
    <3>1. PICK i \in DOMAIN trail : VarOf(trail[i]) = v
      BY <2>3 DEF OnTrail
    <3>2. i \in 1 .. Len(trail) /\ Len(trail) \in Nat
      OBVIOUS
    <3>3. ~(i \in keep + 1 .. Len(trail))
      BY <2>1, <3>1 DEF U, Undone
    <3>4. i \in 1 .. keep
      BY <1>5, <3>2, <3>3
    <3> QED
      BY <1>5, <3>1, <3>4 DEF OnTrail
  <2> QED
    BY <2>2, <2>3
<1>11. Limits(m, Len(t))
  <2>1. \A l \in DOMAIN m : m[l] <= keep
    BY <1>3, <1>6
  <2>2. \A j, l \in DOMAIN m : j <= l => m[j] <= m[l]
    BY <1>6 DEF TrailRight, Limits
  <2> QED
    BY <1>5, <2>1, <2>2 DEF Limits
<1>12. TrailRight(t, m, a, level)
  BY <1>8, <1>9, <1>10, <1>11 DEF TrailRight
<1> QED
  BY <1>12 DEF t, m, a, U

\* The reasons of what stays.
LEMMA ReasonsCut ==
    ASSUME NEW n \in Nat, NEW assigns \in [VarsUpTo(n) -> Lbools], NEW trail \in Seq(LitsOf(n)),
           NEW lim \in Seq(Nat), NEW level \in [VarsUpTo(n) -> Nat],
           TrailRight(trail, lim, assigns, level), NEW k \in Nat, NEW keep, EndsAt(lim, k, keep),
           NEW reason, NEW at, Clauses(at, n), NEW strict,
           Reasons(trail, lim, reason, level, assigns, at, strict)
    PROVE  Reasons(SubSeq(trail, 1, keep), SubSeq(lim, 1, k), reason, level,
                   Unassigned(assigns, Undone(trail, keep)), at, strict)
<1> DEFINE U == Undone(trail, keep)
           t == SubSeq(trail, 1, keep)
           m == SubSeq(lim, 1, k)
           a == Unassigned(assigns, U)
<1>1. KeptPart(trail, lim, k, keep, level)
  BY UndoneAbove
<1>2. /\ keep \in 0 .. Len(trail)
      /\ \A i \in DOMAIN trail : i <= keep => VarOf(trail[i]) \notin U
      /\ \A v \in U : level[v] \in Nat /\ level[v] > k
  BY <1>1 DEF KeptPart
<1>3. k \in 0 .. Len(lim) /\ Len(lim) \in Nat
  BY DEF EndsAt
<1>4. /\ DOMAIN t = 1 .. keep
      /\ \A i \in 1 .. keep : t[i] = trail[i] /\ i \in DOMAIN trail
      /\ keep \in Nat
  BY <1>2, Prefix
<1>5. /\ m \in Seq(Nat) /\ DOMAIN m = 1 .. k /\ \A l \in 1 .. k : m[l] = lim[l] /\ l \in DOMAIN lim
  BY <1>3, Prefix
<1>6. \A p \in LitsOf(n) : VarOf(p) \notin U => Val(a, p) = Val(assigns, p)
  <2>1. Unassigns(n, assigns, U, Unassigned(assigns, U))
    BY StaysAssigned
  <2> QED
    BY <2>1 DEF Unassigns
<1>7. \A l \in DOMAIN lim : ~(l <= k) => keep <= lim[l]
  <2>1. keep \in Nat /\ \A l \in DOMAIN lim : lim[l] \in Nat
    BY <1>2
  <2> QED
    BY <1>1, <2>1 DEF KeptPart
<1> HIDE DEF U, t, m, a
<1>8. ASSUME NEW i \in 1 .. keep, NEW cr, cr = reason[VarOf(trail[i])]
      PROVE  /\ cr # CRefUndef => IsReason(cr, trail[i], at)
             /\ strict => InOrder(i, m, t, level, a, cr, at)
  <2>1. i \in DOMAIN trail /\ t[i] = trail[i] /\ i <= keep /\ i \in Nat
    BY <1>4
  <2>2. /\ cr # CRefUndef => IsReason(cr, trail[i], at)
        /\ strict => InOrder(i, lim, trail, level, assigns, cr, at)
    BY <1>8, <2>1 DEF Reasons
  <2>3. ASSUME strict, level[VarOf(t[i])] > 0
        PROVE  /\ cr = CRefUndef <=> i - 1 \in Range(m)
               /\ cr # CRefUndef => AllFalse(at[cr].lits, i, t, level, a)
    <3>1. /\ cr = CRefUndef <=> i - 1 \in Range(lim)
          /\ cr # CRefUndef => AllFalse(at[cr].lits, i, trail, level, assigns)
      BY <2>1, <2>2, <2>3 DEF InOrder
    <3>2. i - 1 \in Range(lim) <=> i - 1 \in Range(m)
      <4>1. ASSUME NEW l \in DOMAIN lim, lim[l] = i - 1
            PROVE  i - 1 \in Range(m)
        <5>1. l <= k
          BY <1>4, <1>7, <2>1, <4>1
        <5>2. l \in DOMAIN m /\ m[l] = i - 1
          BY <1>3, <1>5, <4>1, <5>1
        <5> QED
          BY <5>2 DEF Range
      <4>2. ASSUME NEW l \in DOMAIN m, m[l] = i - 1
            PROVE  i - 1 \in Range(lim)
        BY <1>5, <4>2 DEF Range
      <4>3. i - 1 \in Range(lim) => \E l \in DOMAIN lim : lim[l] = i - 1
        BY DEF Range
      <4>4. i - 1 \in Range(m) => \E l \in DOMAIN m : m[l] = i - 1
        BY DEF Range
      <4> QED
        BY <4>1, <4>2, <4>3, <4>4
    <3>3. ASSUME cr # CRefUndef, NEW j \in 2 .. Len(at[cr].lits)
          PROVE  FalseBefore(at[cr].lits[j], i, t, level, a)
      <4> DEFINE q == at[cr].lits[j]
      <4>1. at[cr].lits \in Seq(LitsOf(n)) /\ cr \in DOMAIN at
        BY <2>2, <3>3 DEF IsReason, Clauses, IsClause, LongLits
      <4>2. q \in LitsOf(n)
        BY <4>1
      <4>3. FalseBefore(q, i, trail, level, assigns)
        BY <3>1, <3>3 DEF AllFalse
      <4> HIDE DEF q
      <4>4. Val(assigns, q) = LFalse
        BY <4>3 DEF FalseBefore
      <4>5. ASSUME level[VarOf(q)] = 0
            PROVE  FalseBefore(q, i, t, level, a)
        <5>1. VarOf(q) \notin U
          BY <1>2, <4>5
        <5> QED
          BY <1>6, <4>2, <4>4, <4>5, <5>1 DEF FalseBefore
      <4>6. ASSUME \E h \in 1 .. i - 1 : trail[h] = Neg(q)
            PROVE  FalseBefore(q, i, t, level, a)
        <5>1. PICK h \in 1 .. i - 1 : trail[h] = Neg(q)
          BY <4>6
        <5>2. h \in 1 .. keep /\ h <= keep
          BY <1>4, <2>1
        <5>3. t[h] = Neg(q) /\ VarOf(trail[h]) \notin U
          BY <1>2, <1>4, <5>1, <5>2
        <5>4. VarOf(q) \notin U
          BY <4>2, <5>1, <5>3, LitFacts
        <5> QED
          BY <1>6, <4>2, <4>4, <5>3, <5>4 DEF FalseBefore
      <4>7. FalseBefore(q, i, t, level, a)
        BY <4>3, <4>5, <4>6 DEF FalseBefore
      <4> QED
        BY <4>7 DEF q
    <3>4. cr # CRefUndef => AllFalse(at[cr].lits, i, t, level, a)
      BY <3>3 DEF AllFalse
    <3>5. cr = CRefUndef <=> i - 1 \in Range(m)
      BY <3>1, <3>2
    <3> QED
      BY <3>4, <3>5
  <2> QED
    BY <2>2, <2>3 DEF InOrder
<1>9. Reasons(t, m, reason, level, a, at, strict)
  BY <1>4, <1>8 DEF Reasons
<1> QED
  BY <1>9 DEF t, m, a, U

CancelFields == {"assigns", "polarity", "heap", "qhead", "trail", "trailLim"}

\* t is o without its levels above k; keep is where level k ends.
IsCancelled(o, k, keep, t) ==
    /\ IsObject(t) /\ t.assigns = Unassigned(o.assigns, Undone(o.trail, keep))
    /\ t.trail = SubSeq(o.trail, 1, keep) /\ t.trailLim = SubSeq(o.trailLim, 1, k)
    /\ t.qhead = keep /\ Same(o, t, CancelFields)

\* The fields cancelUntil() writes (Solver.cc:231-242).
LEMMA CancelledFields ==
    ASSUME NEW o, IsObject(o), NEW k \in Nat, k < Len(o.trailLim), Len(o.trailLim) \in Nat
    PROVE  IsCancelled(o, k, o.trailLim[k + 1], CancelUntil(o, k))
<1>1. ~(DecisionLevel(o) <= k)
  BY DEF DecisionLevel
<1> QED
  BY <1>1 DEF CancelUntil, IsObject, Fields, Same, Unassigned, Undone, IsCancelled, CancelFields

\* Only what is undone is unassigned, and what is at the root stays.
LEMMA FreeCut ==
    ASSUME NEW n \in Nat, NEW assigns \in [VarsUpTo(n) -> Lbools], NEW trail \in Seq(LitsOf(n)),
           NEW keep \in 0 .. Len(trail), NEW free \in Seq(VarsUpTo(n)), Free(free, assigns, trail)
    PROVE  Free(free, Unassigned(assigns, Undone(trail, keep)), SubSeq(trail, 1, keep))
<1> DEFINE U == Undone(trail, keep)
           a == Unassigned(assigns, U)
           t == SubSeq(trail, 1, keep)
<1>1. \A v \in VarsUpTo(n) : v \notin U => a[v] = assigns[v]
  <2>1. Unassigns(n, assigns, U, Unassigned(assigns, U))
    BY StaysAssigned
  <2> QED
    BY <2>1 DEF Unassigns
<1>2. DOMAIN t = 1 .. keep /\ \A i \in 1 .. keep : t[i] = trail[i] /\ i \in DOMAIN trail
  BY Prefix
<1>3. \A v \in U : OnTrail(trail, v)
  <2> SUFFICES ASSUME NEW v \in U PROVE OnTrail(trail, v)
    OBVIOUS
  <2>1. PICK i \in keep + 1 .. Len(trail) : v = VarOf(trail[i])
    BY DEF Undone, U
  <2>2. i \in DOMAIN trail
    OBVIOUS
  <2> QED
    BY <2>1, <2>2 DEF OnTrail
<1> HIDE DEF U, a, t
<1>4. ASSUME NEW j \in DOMAIN free
      PROVE  a[free[j]] # LUndef /\ ~OnTrail(t, free[j])
  <2>1. free[j] \in VarsUpTo(n) /\ assigns[free[j]] # LUndef /\ ~OnTrail(trail, free[j])
    BY DEF Free
  <2>2. ~OnTrail(t, free[j])
    BY <1>2, <2>1 DEF OnTrail
  <2> QED
    BY <1>1, <1>3, <2>1, <2>2
<1>5. Free(free, a, t)
  BY <1>4 DEF Free
<1> QED
  BY <1>5 DEF a, t, U

\* What cancelUntil does to an object: a good one stays good, its queue is empty.
CancelGoodTo(o, k, t, strict) ==
    /\ GoodBut(t, strict) /\ (Watched(o) => Watched(t)) /\ Propagated(t)
    /\ IsCancelled(o, k, o.trailLim[k + 1], t) /\ Len(t.trailLim) = k

\* cancelUntil() keeps an object good and undoes whole levels.
LEMMA CancelGood ==
    ASSUME NEW o, NEW strict, GoodBut(o, strict), NEW k \in Nat, k < Len(o.trailLim)
    PROVE  CancelGoodTo(o, k, CancelUntil(o, k), strict)
<1> DEFINE n == o.nextVar
           t == CancelUntil(o, k)
           keep == o.trailLim[k + 1]
           a == Unassigned(o.assigns, Undone(o.trail, keep))
<1>1. /\ n \in Nat /\ o.assigns \in [VarsUpTo(n) -> Lbools] /\ o.level \in [VarsUpTo(n) -> Nat]
      /\ o.trail \in Seq(LitsOf(n)) /\ o.trailLim \in Seq(Nat) /\ o.reason \in [VarsUpTo(n) -> Refs]
  BY DEF GoodBut, Types
<1>2. Len(o.trailLim) \in Nat /\ IsObject(o)
  BY <1>1 DEF GoodBut
<1>3. IsCancelled(o, k, keep, t)
  BY <1>2, CancelledFields
<1>4. /\ IsObject(t) /\ t.assigns = a
      /\ t.trail = SubSeq(o.trail, 1, keep) /\ t.trailLim = SubSeq(o.trailLim, 1, k)
      /\ t.qhead = keep /\ Same(o, t, CancelFields)
  BY <1>3 DEF IsCancelled
<1>5. /\ t.ca = o.ca /\ t.clauses = o.clauses /\ t.learnts = o.learnts /\ t.watches = o.watches
      /\ t.reason = o.reason /\ t.level = o.level /\ t.nextVar = n
      /\ t.releasedVars = o.releasedVars /\ t.freeVars = o.freeVars /\ t.decision = o.decision
      /\ t.ok = o.ok /\ t.useSimp = o.useSimp
  BY <1>4 DEF Same, Fields, CancelFields
<1>6. /\ TrailRight(o.trail, o.trailLim, o.assigns, o.level)
      /\ Reasons(o.trail, o.trailLim, o.reason, o.level, o.assigns, o.ca.at, strict)
      /\ Clauses(o.ca.at, n)
  BY DEF GoodBut, Region
<1>7. EndsAt(o.trailLim, k, keep)
  BY <1>2 DEF EndsAt
<1>8. keep \in 0 .. Len(o.trail) /\ \A v \in Undone(o.trail, keep) : o.level[v] > k
  <2>1. KeptPart(o.trail, o.trailLim, k, keep, o.level)
    BY <1>1, <1>6, <1>7, UndoneAbove
  <2> QED
    BY <2>1 DEF KeptPart
<1> HIDE DEF n, t, keep, a
<1>9. TrailRight(t.trail, t.trailLim, t.assigns, t.level)
  <2>1. TrailRight(SubSeq(o.trail, 1, keep), SubSeq(o.trailLim, 1, k),
                   Unassigned(o.assigns, Undone(o.trail, keep)), o.level)
    BY <1>1, <1>6, <1>7, TrailCut
  <2> QED
    BY <1>4, <1>5, <2>1 DEF a
<1>10. Reasons(t.trail, t.trailLim, t.reason, t.level, t.assigns, t.ca.at, strict)
  <2>1. Reasons(SubSeq(o.trail, 1, keep), SubSeq(o.trailLim, 1, k), o.reason, o.level,
                Unassigned(o.assigns, Undone(o.trail, keep)), o.ca.at, strict)
    BY <1>1, <1>6, <1>7, ReasonsCut
  <2> QED
    BY <1>4, <1>5, <2>1 DEF a
<1>11. /\ a \in [VarsUpTo(n) -> Lbools]
       /\ \A v \in VarsUpTo(n) : v \notin Undone(o.trail, keep) => a[v] = o.assigns[v]
  <2> DEFINE U == Undone(o.trail, keep)
  <2>1. Unassigns(n, o.assigns, U, Unassigned(o.assigns, U))
    BY <1>1, StaysAssigned
  <2> QED
    BY <2>1 DEF a, Unassigns
<1>12. t.trail \in Seq(LitsOf(n)) /\ Len(t.trail) = keep /\ keep \in Nat
  BY <1>1, <1>4, <1>8, Prefix
<1>13. t.trailLim \in Seq(Nat) /\ Len(t.trailLim) = k
  <2>1. k \in 0 .. Len(o.trailLim)
    BY <1>2
  <2> QED
    BY <1>1, <1>4, <2>1, Prefix
<1>14. Types(t)
  BY <1>4, <1>5, <1>11, <1>12, <1>13 DEF GoodBut, Types, n
<1>15. Free(t.freeVars, t.assigns, t.trail)
  <2>1. o.freeVars \in Seq(VarsUpTo(n)) /\ Free(o.freeVars, o.assigns, o.trail)
    BY DEF GoodBut, Types, n
  <2>2. Free(o.freeVars, Unassigned(o.assigns, Undone(o.trail, keep)), SubSeq(o.trail, 1, keep))
    BY <1>1, <1>8, <2>1, FreeCut
  <2> QED
    BY <1>4, <1>5, <2>2 DEF a
<1>16. t.ok => Released(t.releasedVars, t.freeVars, t.assigns, t.level)
  <2> SUFFICES ASSUME t.ok PROVE Released(t.releasedVars, t.freeVars, t.assigns, t.level)
    OBVIOUS
  <2>1. Released(o.releasedVars, o.freeVars, o.assigns, o.level) /\ o.releasedVars \in Seq(VarsUpTo(n))
    BY <1>5 DEF GoodBut, Types, n
  <2>2. ASSUME NEW j \in DOMAIN o.releasedVars
        PROVE  t.assigns[o.releasedVars[j]] # LUndef
    <3>1. o.assigns[o.releasedVars[j]] # LUndef /\ o.level[o.releasedVars[j]] = 0
          /\ o.releasedVars[j] \in VarsUpTo(n)
      BY <2>1 DEF Released
    <3>2. o.releasedVars[j] \notin Undone(o.trail, keep)
      BY <1>8, <3>1
    <3> QED
      BY <1>4, <1>11, <3>1, <3>2
  <2> QED
    BY <1>5, <2>1, <2>2 DEF Released
<1>17. /\ IsRegion(t.ca) /\ Region(t.ca, t.nextVar) /\ IsOccLists(t.watches, t.nextVar)
       /\ t.clauses \in Seq(DOMAIN t.ca.at) /\ t.learnts \in Seq(DOMAIN t.ca.at)
  BY <1>5 DEF GoodBut, Region, n
<1>18. GoodBut(t, strict)
  BY <1>4, <1>9, <1>10, <1>14, <1>15, <1>16, <1>17 DEF GoodBut
<1>19. (Watched(o) => Watched(t)) /\ Propagated(t)
  BY <1>4, <1>5, <1>12 DEF Watched, Propagated, n
<1> QED
  BY <1>3, <1>13, <1>18, <1>19 DEF CancelGoodTo, t, keep

\* A propagated object, back at level k at most.
BackAt(o, k, t, strict) ==
    /\ Good(t, strict) /\ Propagated(t) /\ Len(t.trailLim) <= k /\ Same(o, t, CancelFields)

\* After cancelUntil() everything that is left on the trail is propagated.
THEOREM CancelBack ==
    ASSUME NEW o, NEW strict, Good(o, strict), NEW k \in Nat, Propagated(o) \/ k < Len(o.trailLim)
    PROVE  BackAt(o, k, CancelUntil(o, k), strict)
<1>1. o.trailLim \in Seq(Nat)
  BY KernelTypes DEF Good
<1>2. CASE k < Len(o.trailLim)
  <2>1. CancelGoodTo(o, k, CancelUntil(o, k), strict)
    BY <1>2, CancelGood DEF Good
  <2> HIDE DEF CancelUntil
  <2>2. Len(CancelUntil(o, k).trailLim) <= k
    BY <2>1 DEF CancelGoodTo
  <2> QED
    BY <2>1, <2>2 DEF CancelGoodTo, BackAt, Good, IsCancelled
<1>3. CASE ~(k < Len(o.trailLim))
  <2>1. DecisionLevel(o) <= k
    BY <1>1, <1>3 DEF DecisionLevel
  <2>2. CancelUntil(o, k) = o
    BY <2>1 DEF CancelUntil
  <2> QED
    BY <1>3, <2>1, <2>2 DEF BackAt, Same, DecisionLevel
<1> QED
  BY <1>2, <1>3

-------------------------------------------------------------------------------
(* New levels and new variables.                                               *)

OnlyLimits == {"trailLim"}

IsOpened(o, t) ==
    /\ IsObject(t) /\ t.trailLim = Append(o.trailLim, Len(o.trail)) /\ Same(o, t, OnlyLimits)

\* The fields newDecisionLevel() writes (Solver.h:346).
LEMMA OpenedFields ==
    ASSUME NEW o, IsObject(o)
    PROVE  IsOpened(o, NewDecisionLevel(o))
BY DEF NewDecisionLevel, IsObject, Fields, Same, IsOpened, OnlyLimits

\* A level that starts after the trail takes nothing of it.
LEMMA LevelOpens ==
    ASSUME NEW n \in Nat, NEW assigns, NEW trail \in Seq(LitsOf(n)), NEW lim \in Seq(Nat),
           NEW level, TrailRight(trail, lim, assigns, level), NEW lim2, lim2 = Append(lim, Len(trail))
    PROVE  /\ TrailRight(trail, lim2, assigns, level)
           /\ \A i \in DOMAIN trail : i - 1 \in Range(lim2) <=> i - 1 \in Range(lim)
<1> DEFINE m == Len(trail)
           k == Len(lim)
<1>1. m \in Nat /\ DOMAIN trail = 1 .. m /\ k \in Nat /\ \A i \in DOMAIN trail : i \in Nat /\ i <= m
  OBVIOUS
<1> HIDE DEF m
<1>2. /\ Append(lim, m) \in Seq(Nat) /\ Len(Append(lim, m)) = k + 1
      /\ DOMAIN lim = 1 .. k /\ DOMAIN Append(lim, m) = 1 .. k + 1
      /\ Append(lim, m)[k + 1] = m
      /\ \A i \in DOMAIN lim : Append(lim, m)[i] = lim[i]
      /\ \A i \in DOMAIN Append(lim, m) : i \in DOMAIN lim \/ i = k + 1
  BY <1>1, Appended
<1>3. /\ lim2 \in Seq(Nat) /\ Len(lim2) = k + 1
      /\ DOMAIN lim = 1 .. k /\ DOMAIN lim2 = 1 .. k + 1
      /\ lim2[k + 1] = m
      /\ \A i \in DOMAIN lim : lim2[i] = lim[i] /\ lim[i] \in Nat
      /\ \A i \in DOMAIN lim2 : i \in DOMAIN lim \/ i = k + 1
  BY <1>2 DEF m
<1> HIDE DEF k
<1>4. ASSUME NEW i \in DOMAIN trail
      PROVE  AtLevel(level[VarOf(trail[i])], lim2, i)
  <2> DEFINE L == level[VarOf(trail[i])]
  <2>1. L \in 0 .. k /\ \A l \in DOMAIN lim : lim[l] < i <=> l <= L
    <3>1. AtLevel(L, lim, i) /\ k = Len(lim)
      BY DEF TrailRight, k
    <3> HIDE DEF L
    <3> QED
      BY <3>1 DEF AtLevel
  <2> HIDE DEF L
  <2>2. ASSUME NEW l \in DOMAIN lim2
        PROVE  lim2[l] < i <=> l <= L
    <3>1. CASE l \in DOMAIN lim
      BY <1>3, <2>1, <3>1
    <3>2. CASE l = k + 1
      BY <1>1, <1>3, <2>1, <3>2
    <3> QED
      BY <1>3, <3>1, <3>2
  <2>3. L \in 0 .. Len(lim2)
    BY <1>1, <1>3, <2>1
  <2>4. AtLevel(L, lim2, i)
    BY <2>2, <2>3 DEF AtLevel
  <2> QED
    BY <2>4 DEF L
<1>5. Limits(lim2, Len(trail))
  <2>1. /\ \A l \in DOMAIN lim : lim[l] <= m
        /\ \A i, l \in DOMAIN lim : i <= l => lim[i] <= lim[l]
    BY DEF TrailRight, Limits, m
  <2>2. ASSUME NEW l \in DOMAIN lim2
        PROVE  lim2[l] <= m
    BY <1>1, <1>3, <2>1
  <2>3. ASSUME NEW i \in DOMAIN lim2, NEW l \in DOMAIN lim2, i <= l
        PROVE  lim2[i] <= lim2[l]
    <3>1. CASE l = k + 1
      BY <1>3, <2>2, <3>1
    <3>2. CASE l \in DOMAIN lim
      <4>1. i \in DOMAIN lim
        BY <1>1, <1>3, <2>3, <3>2
      <4> QED
        BY <1>3, <2>1, <2>3, <3>2, <4>1
    <3> QED
      BY <1>3, <3>1, <3>2
  <2> QED
    BY <2>2, <2>3 DEF Limits, m
<1>6. ASSUME NEW i \in DOMAIN trail
      PROVE  i - 1 \in Range(lim2) <=> i - 1 \in Range(lim)
  <2>1. i - 1 # m
    BY <1>1
  <2>2. ASSUME NEW l \in DOMAIN lim2, lim2[l] = i - 1
        PROVE  \E j \in DOMAIN lim : lim[j] = i - 1
    BY <1>3, <2>1, <2>2
  <2>3. ASSUME NEW l \in DOMAIN lim, lim[l] = i - 1
        PROVE  \E j \in DOMAIN lim2 : lim2[j] = i - 1
    <3>1. l \in DOMAIN lim2
      BY <1>1, <1>3
    <3> QED
      BY <1>3, <2>3, <3>1
  <2>4. i - 1 \in Range(lim2) <=> \E j \in DOMAIN lim2 : lim2[j] = i - 1
    BY DEF Range
  <2>5. i - 1 \in Range(lim) <=> \E j \in DOMAIN lim : lim[j] = i - 1
    BY DEF Range
  <2> QED
    BY <2>2, <2>3, <2>4, <2>5
<1>7. TrailRight(trail, lim2, assigns, level)
  BY <1>4, <1>5 DEF TrailRight
<1> QED
  BY <1>6, <1>7

\* The outcome of newDecisionLevel().
LevelNew(o, t, strict) ==
    /\ GoodBut(t, strict) /\ (Watched(o) => Watched(t)) /\ IsOpened(o, t)
    /\ Propagated(o) => LevelQueued(t) /\ Propagated(t)
    /\ Len(t.trail) \in Range(t.trailLim) /\ Len(t.trailLim) = Len(o.trailLim) + 1

\* newDecisionLevel() keeps an object good.
LEMMA NewLevelGood ==
    ASSUME NEW o, NEW strict, GoodBut(o, strict)
    PROVE  LevelNew(o, NewDecisionLevel(o), strict)
<1> DEFINE t == NewDecisionLevel(o)
           n == o.nextVar
<1>1. /\ n \in Nat /\ o.assigns \in [VarsUpTo(n) -> Lbools] /\ o.level \in [VarsUpTo(n) -> Nat]
      /\ o.trail \in Seq(LitsOf(n)) /\ o.trailLim \in Seq(Nat)
      /\ TrailRight(o.trail, o.trailLim, o.assigns, o.level) /\ o.qhead \in Nat
  BY KernelTypes
<1>2. IsOpened(o, t)
  <2>1. IsObject(o)
    BY DEF GoodBut
  <2> QED
    BY <2>1, OpenedFields
<1>3. IsObject(t) /\ t.trailLim = Append(o.trailLim, Len(o.trail)) /\ Same(o, t, OnlyLimits)
  BY <1>2 DEF IsOpened
<1>4. /\ t.ca = o.ca /\ t.clauses = o.clauses /\ t.learnts = o.learnts /\ t.watches = o.watches
      /\ t.reason = o.reason /\ t.level = o.level /\ t.nextVar = n /\ t.assigns = o.assigns
      /\ t.releasedVars = o.releasedVars /\ t.freeVars = o.freeVars /\ t.decision = o.decision
      /\ t.ok = o.ok /\ t.useSimp = o.useSimp /\ t.trail = o.trail /\ t.qhead = o.qhead
  BY <1>3 DEF Same, Fields, OnlyLimits
<1> HIDE DEF t, n
<1>5. /\ TrailRight(o.trail, t.trailLim, o.assigns, o.level)
      /\ \A i \in DOMAIN o.trail : i - 1 \in Range(t.trailLim) <=> i - 1 \in Range(o.trailLim)
  BY <1>1, <1>3, LevelOpens
<1>6. Len(o.trail) \in Nat /\ Len(o.trailLim) \in Nat
  BY <1>1
<1>7. /\ t.trailLim \in Seq(Nat) /\ Len(t.trailLim) = Len(o.trailLim) + 1
      /\ DOMAIN t.trailLim = 1 .. Len(o.trailLim) + 1
      /\ t.trailLim[Len(o.trailLim) + 1] = Len(o.trail)
  BY <1>1, <1>3, <1>6, Appended
<1>8. Reasons(t.trail, t.trailLim, t.reason, t.level, t.assigns, t.ca.at, strict)
  <2>1. Reasons(o.trail, o.trailLim, o.reason, o.level, o.assigns, o.ca.at, strict)
    BY DEF GoodBut
  <2>2. ASSUME NEW i \in DOMAIN o.trail, NEW cr
        PROVE  InOrder(i, o.trailLim, o.trail, o.level, o.assigns, cr, o.ca.at)
                 => InOrder(i, t.trailLim, o.trail, o.level, o.assigns, cr, o.ca.at)
    BY <1>5 DEF InOrder
  <2> QED
    BY <1>4, <2>1, <2>2 DEF Reasons
<1>9. Types(t)
  BY <1>1, <1>4, <1>7 DEF GoodBut, Types, n
<1>10. GoodBut(t, strict)
  BY <1>3, <1>4, <1>5, <1>8, <1>9 DEF GoodBut, n
<1>11. Watched(o) => Watched(t)
  BY <1>4 DEF Watched, n
<1>12. ASSUME Propagated(o)
       PROVE  LevelQueued(t) /\ Propagated(t)
  <2>1. \A l \in DOMAIN t.trailLim : t.trailLim[l] <= Len(t.trail)
    BY <1>4, <1>5 DEF TrailRight, Limits
  <2> QED
    BY <1>4, <1>6, <1>12, <2>1 DEF LevelQueued, Propagated
<1>13. Len(t.trail) \in Range(t.trailLim)
  <2>1. Len(o.trailLim) + 1 \in DOMAIN t.trailLim
    BY <1>6, <1>7
  <2> QED
    BY <1>4, <1>7, <2>1 DEF Range
<1>14. LevelNew(o, t, strict)
  BY <1>2, <1>7, <1>10, <1>11, <1>12, <1>13 DEF LevelNew
<1> QED
  BY <1>14 DEF t

BranchFields == {"decision", "heap"}

\* setDecisionVar(): v becomes a decision variable, or stops to be one.
DecisionSet(o, v, t) ==
    /\ IsObject(t) /\ Same(o, t, BranchFields) /\ t.decision \subseteq o.decision \union {v}

\* The fields setDecisionVar() writes (Solver.h:361-368).
LEMMA DecisionSetFields ==
    ASSUME NEW o, IsObject(o), NEW v, NEW b
    PROVE  DecisionSet(o, v, SetDecisionVar(o, v, b))
<1> DEFINE d == [o EXCEPT !.decision = IF b THEN @ \union {v} ELSE @ \ {v}]
<1>1. IsObject(d) /\ Same(o, d, BranchFields) /\ d.decision \subseteq o.decision \union {v}
  BY DEF IsObject, Fields, Same, BranchFields
<1>2. SetDecisionVar(o, v, b) = InsertVarOrder(d, v)
  BY DEF SetDecisionVar
<1> HIDE DEF d
<1>3. CASE v \in d.decision
  <2>1. InsertVarOrder(d, v) = [d EXCEPT !.heap = @ \union {v}]
    BY <1>3 DEF InsertVarOrder
  <2> DEFINE t == [d EXCEPT !.heap = @ \union {v}]
  <2>2. IsObject(t) /\ t.decision = d.decision /\ \A f \in Fields : f # "heap" => t[f] = d[f]
    BY <1>1 DEF IsObject, Fields
  <2> HIDE DEF t
  <2>3. Same(o, t, BranchFields)
    BY <1>1, <2>2 DEF Same, BranchFields
  <2>4. DecisionSet(o, v, t)
    BY <1>1, <2>2, <2>3 DEF DecisionSet
  <2> QED
    BY <1>2, <2>1, <2>4 DEF t
<1>4. CASE v \notin d.decision
  <2>1. InsertVarOrder(d, v) = d
    BY <1>4 DEF InsertVarOrder
  <2> QED
    BY <1>1, <1>2, <2>1 DEF DecisionSet
<1> QED
  BY <1>3, <1>4

\* setDecisionVar() keeps an object good.
LEMMA DecisionSetGood ==
    ASSUME NEW o, NEW strict, GoodBut(o, strict), NEW v \in VarsUpTo(o.nextVar), NEW t,
           DecisionSet(o, v, t)
    PROVE  GoodBut(t, strict) /\ (Watched(o) => Watched(t))
<1>1. IsObject(t) /\ Same(o, t, BranchFields) /\ t.decision \subseteq o.decision \union {v}
  BY DEF DecisionSet
<1>2. /\ t.ca = o.ca /\ t.clauses = o.clauses /\ t.learnts = o.learnts /\ t.watches = o.watches
      /\ t.trail = o.trail /\ t.trailLim = o.trailLim /\ t.assigns = o.assigns
      /\ t.reason = o.reason /\ t.level = o.level /\ t.nextVar = o.nextVar /\ t.qhead = o.qhead
      /\ t.releasedVars = o.releasedVars /\ t.freeVars = o.freeVars
      /\ t.ok = o.ok /\ t.useSimp = o.useSimp
  BY <1>1 DEF Same, Fields, BranchFields
<1>3. Types(t)
  <2>1. t.decision \subseteq VarsUpTo(o.nextVar)
    BY <1>1 DEF GoodBut, Types
  <2> QED
    BY <1>2, <2>1 DEF GoodBut, Types
<1> QED
  BY <1>1, <1>2, <1>3 DEF GoodBut, Watched

-------------------------------------------------------------------------------
(* newVar().                                                                   *)

\* The fields of an object that a Solver has and newVar changes, before the variable
\* becomes a decision variable.
FreshFields == {"freeVars", "nextVar", "watches", "assigns", "reason", "level", "polarity", "userPol"}

EmptyLists(ws, v) == InitOcc(InitOcc(ws, 2 * v), 2 * v + 1)

IsFresh(o, v, t) ==
    /\ IsObject(t) /\ Same(o, t, FreshFields)
    /\ t.freeVars = (IF o.freeVars = <<>> THEN o.freeVars ELSE Front(o.freeVars))
    /\ t.nextVar = (IF o.freeVars = <<>> THEN o.nextVar + 1 ELSE o.nextVar)
    /\ t.watches = EmptyLists(o.watches, v) /\ t.assigns = Updated(o.assigns, v, LUndef)
    /\ t.reason = Updated(o.reason, v, CRefUndef) /\ t.level = Updated(o.level, v, 0)

\* newVar() is a fresh variable, then setDecisionVar() (Solver.cc:119-140).
LEMMA NewVarFresh ==
    ASSUME NEW o, IsObject(o), NEW upol, NEW dvar
    PROVE  \E t : IsFresh(o, FreshVar(o), t) /\ NewVar(o, upol, dvar) = SetDecisionVar(t, FreshVar(o), dvar)
<1> DEFINE v == FreshVar(o)
           t == [o EXCEPT !.freeVars = IF @ = <<>> THEN @ ELSE Front(@),
                          !.nextVar  = IF o.freeVars = <<>> THEN @ + 1 ELSE @,
                          !.watches  = InitOcc(InitOcc(@, 2 * v), 2 * v + 1),
                          !.assigns  = Updated(@, v, LUndef),
                          !.reason   = Updated(@, v, CRefUndef),
                          !.level    = Updated(@, v, 0),
                          !.polarity = Updated(@, v, TRUE),
                          !.userPol  = Updated(@, v, upol)]
<1>1. NewVar(o, upol, dvar) = SetDecisionVar(t, v, dvar)
  BY DEF NewVar
<1> HIDE DEF v
<1>2. IsFresh(o, v, t)
  BY DEF IsFresh, IsObject, Fields, Same, FreshFields, EmptyLists
<1> HIDE DEF t
<1> QED
  BY <1>1, <1>2 DEF v

\* The variable that is made: the next one, or a released one.
FreshFor(o, v, n2) ==
    /\ v \in VarsUpTo(n2) /\ n2 \in Nat /\ o.nextVar <= n2
    /\ VarsUpTo(n2) = VarsUpTo(o.nextVar) \union {v}
    /\ \/ v = o.nextVar /\ n2 = o.nextVar + 1 /\ o.freeVars = <<>>
       \/ n2 = o.nextVar /\ o.freeVars # <<>> /\ v = o.freeVars[Len(o.freeVars)]

\* The variable newVar() takes is new, or free: on no trail and in no clause.
LEMMA FreshIsFree ==
    ASSUME NEW o, o.nextVar \in Nat, o.freeVars \in Seq(VarsUpTo(o.nextVar)),
           NEW v, v = FreshVar(o), NEW n2,
           n2 = IF o.freeVars = <<>> THEN o.nextVar + 1 ELSE o.nextVar
    PROVE  FreshFor(o, v, n2)
<1>1. CASE o.freeVars = <<>>
  <2>1. v = o.nextVar /\ n2 = o.nextVar + 1
    BY <1>1 DEF FreshVar
  <2>2. VarsUpTo(n2) = VarsUpTo(o.nextVar) \union {v} /\ v \in VarsUpTo(n2)
    BY <2>1 DEF VarsUpTo
  <2> QED
    BY <1>1, <2>1, <2>2 DEF FreshFor
<1>2. CASE o.freeVars # <<>>
  <2>1. v = Last(o.freeVars) /\ n2 = o.nextVar
    BY <1>2 DEF FreshVar
  <2>2. v = o.freeVars[Len(o.freeVars)] /\ Len(o.freeVars) \in DOMAIN o.freeVars
    BY <1>2, <2>1 DEF Last
  <2>3. v \in VarsUpTo(o.nextVar)
    BY <2>2
  <2>4. VarsUpTo(n2) = VarsUpTo(o.nextVar) \union {v}
    BY <2>1, <2>3
  <2> QED
    BY <1>2, <2>1, <2>2, <2>3, <2>4 DEF FreshFor
<1> QED
  BY <1>1, <1>2

\* No literal of the trail, no other released variable is of that variable.
LEMMA FreshOffTrail ==
    ASSUME NEW o, NEW strict, GoodBut(o, strict), NEW v, NEW n2, FreshFor(o, v, n2)
    PROVE  /\ \A i \in DOMAIN o.trail : VarOf(o.trail[i]) # v
           /\ \A j \in DOMAIN o.freeVars : j # Len(o.freeVars) => o.freeVars[j] # v
           /\ o.ok => \A j \in DOMAIN o.releasedVars : o.releasedVars[j] # v
<1> DEFINE n == o.nextVar
<1>1. /\ n \in Nat /\ o.trail \in Seq(LitsOf(n)) /\ o.freeVars \in Seq(VarsUpTo(n))
      /\ o.releasedVars \in Seq(VarsUpTo(n))
  BY DEF GoodBut, Types
<1>2. Free(o.freeVars, o.assigns, o.trail)
      /\ (o.ok => Released(o.releasedVars, o.freeVars, o.assigns, o.level))
  BY DEF GoodBut
<1>3. (\A i \in DOMAIN o.trail : VarOf(o.trail[i]) \in VarsUpTo(n))
      /\ (\A j \in DOMAIN o.freeVars : o.freeVars[j] \in VarsUpTo(n))
      /\ (\A j \in DOMAIN o.releasedVars : o.releasedVars[j] \in VarsUpTo(n))
  BY <1>1, LitFacts
<1>4. CASE v = n
  <2>1. v \notin VarsUpTo(n)
    BY <1>1, <1>4 DEF VarsUpTo
  <2> QED
    BY <1>3, <2>1
<1>5. CASE o.freeVars # <<>> /\ v = o.freeVars[Len(o.freeVars)]
  <2>1. Len(o.freeVars) \in DOMAIN o.freeVars
    BY <1>1, <1>5
  <2>2. ~OnTrail(o.trail, v) /\ \A j \in DOMAIN o.freeVars : j # Len(o.freeVars) => o.freeVars[j] # v
    BY <1>2, <1>5, <2>1 DEF Free, Distinct
  <2>3. v \in Range(o.freeVars)
    BY <1>5, <2>1 DEF Range
  <2>4. o.ok => \A j \in DOMAIN o.releasedVars : o.releasedVars[j] # v
    BY <1>2, <2>3 DEF Released
  <2> QED
    BY <2>2, <2>4 DEF OnTrail
<1> QED
  BY <1>4, <1>5 DEF FreshFor

\* A sequence over a set is one over a larger set.
LEMMA SeqGrows ==
    ASSUME NEW X, NEW Y, X \subseteq Y, NEW q \in Seq(X)
    PROVE  q \in Seq(Y)
<1>1. Len(q) \in Nat /\ DOMAIN q = 1 .. Len(q) /\ \A i \in 1 .. Len(q) : q[i] \in Y
  OBVIOUS
<1>2. q = [i \in 1 .. Len(q) |-> q[i]]
  OBVIOUS
<1> QED
  BY <1>1, <1>2

\* u is f with x at k.
IsUpdated(f, k, x, u) ==
    /\ DOMAIN u = DOMAIN f \union {k} /\ u[k] = x
    /\ \A j \in DOMAIN f : j # k => u[j] = f[j]
    /\ u = [j \in DOMAIN u |-> u[j]]

\* A function updated, or extended, at one place.
LEMMA UpdatedIs ==
    ASSUME NEW f, NEW k, NEW x
    PROVE  IsUpdated(f, k, x, Updated(f, k, x))
BY DEF IsUpdated, Updated

\* The literals of fewer variables and of one more.
LEMMA LitsOfFresh ==
    ASSUME NEW n \in Nat, NEW n2 \in Nat, NEW v, v \in VarsUpTo(n2),
           VarsUpTo(n2) = VarsUpTo(n) \union {v}
    PROVE  LitsOf(n2) = LitsOf(n) \union {2 * v, 2 * v + 1} /\ v \in Nat
<1>1. v \in Nat /\ v < n2
  BY DEF VarsUpTo
<1>2. ASSUME NEW p \in LitsOf(n2)
      PROVE  p \in LitsOf(n) \union {2 * v, 2 * v + 1}
  <2>1. p \in Nat /\ VarOf(p) \in VarsUpTo(n2) /\ (p = 2 * VarOf(p) \/ p = 2 * VarOf(p) + 1)
    <3>1. p \in Nat
      BY LitFacts
    <3> QED
      BY <3>1, LitFacts DEF VarOf
  <2>2. VarOf(p) = v \/ (VarOf(p) \in Nat /\ VarOf(p) < n)
    BY <2>1 DEF VarsUpTo
  <2> DEFINE w == VarOf(p)
  <2>3. w = v \/ (w \in Nat /\ w < n)
    BY <2>2
  <2>4. p = 2 * w \/ p = 2 * w + 1
    BY <2>1
  <2> HIDE DEF w
  <2> QED
    BY <2>1, <2>3, <2>4 DEF LitsOf
<1>3. LitsOf(n) \subseteq LitsOf(n2)
  <2>1. n <= n2
    <3>1. n = 0 \/ n - 1 \in VarsUpTo(n2)
      BY DEF VarsUpTo
    <3> QED
      BY <3>1 DEF VarsUpTo
  <2> QED
    BY <2>1, LitsGrow
<1>4. 2 * v \in LitsOf(n2) /\ 2 * v + 1 \in LitsOf(n2)
  BY <1>1 DEF LitsOf
<1> QED
  BY <1>1, <1>2, <1>3, <1>4

\* The two lists of the variable are empty, the others as they were.
LEMMA FreshLists ==
    ASSUME NEW n \in Nat, NEW n2 \in Nat, NEW v, v \in VarsUpTo(n2),
           VarsUpTo(n2) = VarsUpTo(n) \union {v}, NEW ws, IsOccLists(ws, n), NEW at,
           Lists(ws.occs, ws.dirty, at, n), NEW u, u = EmptyLists(ws, v)
    PROVE  IsOccLists(u, n2) /\ Lists(u.occs, u.dirty, at, n2)
<1>1. LitsOf(n2) = LitsOf(n) \union {2 * v, 2 * v + 1} /\ v \in Nat
  BY LitsOfFresh
<1>2. /\ ws = [occs |-> ws.occs, dirty |-> ws.dirty] /\ ws.dirty \subseteq LitsOf(n)
      /\ DOMAIN ws.occs = LitsOf(n)
  BY DEF IsOccLists
<1> DEFINE a == InitOcc(ws, 2 * v)
<1>3. /\ a = [occs |-> a.occs, dirty |-> a.dirty] /\ a.dirty = ws.dirty
      /\ a.occs = Updated(ws.occs, 2 * v, <<>>)
  BY <1>2 DEF InitOcc
<1>4. u = InitOcc(a, 2 * v + 1)
  BY DEF EmptyLists
<1> HIDE DEF a
<1>5. /\ u = [occs |-> u.occs, dirty |-> u.dirty] /\ u.dirty = ws.dirty
      /\ u.occs = Updated(a.occs, 2 * v + 1, <<>>)
  BY <1>3, <1>4 DEF InitOcc
<1>6. /\ DOMAIN a.occs = LitsOf(n) \union {2 * v} /\ a.occs[2 * v] = <<>>
      /\ \A p \in LitsOf(n) : p # 2 * v => a.occs[p] = ws.occs[p]
  <2>1. IsUpdated(ws.occs, 2 * v, <<>>, a.occs)
    BY <1>3, UpdatedIs
  <2> QED
    BY <1>2, <2>1 DEF IsUpdated
<1>7. /\ DOMAIN u.occs = DOMAIN a.occs \union {2 * v + 1} /\ u.occs[2 * v + 1] = <<>>
      /\ \A p \in DOMAIN a.occs : p # 2 * v + 1 => u.occs[p] = a.occs[p]
      /\ u.occs = [p \in DOMAIN u.occs |-> u.occs[p]]
  <2>1. IsUpdated(a.occs, 2 * v + 1, <<>>, u.occs)
    BY <1>5, UpdatedIs
  <2> QED
    BY <2>1 DEF IsUpdated
<1>8. DOMAIN u.occs = LitsOf(n2)
  BY <1>1, <1>6, <1>7
<1>9. 2 * v # 2 * v + 1
  BY <1>1
<1>10. ASSUME NEW p \in LitsOf(n2)
       PROVE  WatchList(p, u.occs[p], u.dirty, at)
  <2>1. CASE p = 2 * v \/ p = 2 * v + 1
    <3>1. u.occs[p] = <<>>
      BY <1>6, <1>7, <1>9, <2>1
    <3> QED
      BY <3>1 DEF WatchList
  <2>2. CASE p \in LitsOf(n) /\ p # 2 * v /\ p # 2 * v + 1
    <3>1. u.occs[p] = ws.occs[p]
      BY <1>6, <1>7, <2>2
    <3> QED
      BY <1>5, <2>2, <3>1 DEF Lists
  <2> QED
    BY <1>1, <2>1, <2>2
<1> QED
  BY <1>1, <1>2, <1>5, <1>7, <1>8, <1>10 DEF IsOccLists, Lists

\* At the root, an object stays good when a fresh variable is made.
LEMMA FreshGood ==
    ASSUME NEW o, NEW strict, Good(o, strict), o.trailLim = <<>>, NEW v, NEW t, IsFresh(o, v, t),
           FreshFor(o, v, t.nextVar)
    PROVE  Good(t, strict) /\ t.trailLim = <<>> /\ t.trail = o.trail /\ t.qhead = o.qhead
<1> DEFINE n == o.nextVar
           n2 == t.nextVar
<1>1. /\ IsObject(t) /\ Same(o, t, FreshFields)
      /\ t.freeVars = (IF o.freeVars = <<>> THEN o.freeVars ELSE Front(o.freeVars))
      /\ t.watches = EmptyLists(o.watches, v) /\ t.assigns = Updated(o.assigns, v, LUndef)
      /\ t.reason = Updated(o.reason, v, CRefUndef) /\ t.level = Updated(o.level, v, 0)
  BY DEF IsFresh
<1>2. /\ t.ca = o.ca /\ t.clauses = o.clauses /\ t.learnts = o.learnts
      /\ t.trail = o.trail /\ t.trailLim = <<>> /\ t.qhead = o.qhead
      /\ t.releasedVars = o.releasedVars /\ t.decision = o.decision
      /\ t.ok = o.ok /\ t.useSimp = o.useSimp
  BY <1>1 DEF Same, Fields, FreshFields
<1>3. GoodBut(o, strict) /\ Watched(o)
  BY DEF Good
<1>4. Types(o) /\ n \in Nat /\ o.trail \in Seq(LitsOf(n)) /\ o.freeVars \in Seq(VarsUpTo(n))
      /\ o.releasedVars \in Seq(VarsUpTo(n))
      /\ DOMAIN o.assigns = VarsUpTo(n) /\ DOMAIN o.reason = VarsUpTo(n) /\ DOMAIN o.level = VarsUpTo(n)
  BY <1>3 DEF GoodBut, Types
<1>5. /\ \A w \in VarsUpTo(n) : o.assigns[w] \in Lbools /\ o.reason[w] \in Refs /\ o.level[w] \in Nat
  BY <1>4 DEF Types
<1>6. /\ v \in VarsUpTo(n2) /\ n2 \in Nat /\ n <= n2 /\ VarsUpTo(n2) = VarsUpTo(n) \union {v}
  BY DEF FreshFor
<1>7. LitsOf(n) \subseteq LitsOf(n2) /\ VarsUpTo(n) \subseteq VarsUpTo(n2)
  BY <1>4, <1>6, LitsGrow
<1>8. /\ \A i \in DOMAIN o.trail : VarOf(o.trail[i]) # v
      /\ \A j \in DOMAIN o.freeVars : j # Len(o.freeVars) => o.freeVars[j] # v
      /\ o.ok => \A j \in DOMAIN o.releasedVars : o.releasedVars[j] # v
  BY <1>3, FreshOffTrail
<1>9. /\ DOMAIN t.assigns = VarsUpTo(n2) /\ t.assigns[v] = LUndef
      /\ (\A w \in VarsUpTo(n) : w # v => t.assigns[w] = o.assigns[w])
      /\ t.assigns = [w \in DOMAIN t.assigns |-> t.assigns[w]]
  <2>1. IsUpdated(o.assigns, v, LUndef, t.assigns)
    BY <1>1, UpdatedIs
  <2> QED
    BY <1>4, <1>6, <2>1 DEF IsUpdated
<1>10. /\ DOMAIN t.reason = VarsUpTo(n2) /\ t.reason[v] = CRefUndef
       /\ (\A w \in VarsUpTo(n) : w # v => t.reason[w] = o.reason[w])
       /\ t.reason = [w \in DOMAIN t.reason |-> t.reason[w]]
  <2>1. IsUpdated(o.reason, v, CRefUndef, t.reason)
    BY <1>1, UpdatedIs
  <2> QED
    BY <1>4, <1>6, <2>1 DEF IsUpdated
<1>11. /\ DOMAIN t.level = VarsUpTo(n2) /\ t.level[v] = 0
       /\ (\A w \in VarsUpTo(n) : w # v => t.level[w] = o.level[w])
       /\ t.level = [w \in DOMAIN t.level |-> t.level[w]]
  <2>1. IsUpdated(o.level, v, 0, t.level)
    BY <1>1, UpdatedIs
  <2> QED
    BY <1>4, <1>6, <2>1 DEF IsUpdated
<1> HIDE DEF n, n2
<1>12. \A i \in DOMAIN o.trail : /\ o.trail[i] \in LitsOf(n) /\ VarOf(o.trail[i]) \in VarsUpTo(n)
                                 /\ t.assigns[VarOf(o.trail[i])] = o.assigns[VarOf(o.trail[i])]
                                 /\ t.level[VarOf(o.trail[i])] = o.level[VarOf(o.trail[i])]
  <2>1. \A i \in DOMAIN o.trail : o.trail[i] \in LitsOf(n)
    BY <1>4
  <2>3. \A i \in DOMAIN o.trail : VarOf(o.trail[i]) \in VarsUpTo(n)
    BY <1>4, <2>1, LitFacts
  <2> QED
    BY <1>8, <1>9, <1>11, <2>1, <2>3
<1>13. TrailRight(o.trail, <<>>, o.assigns, o.level)
  BY <1>3 DEF GoodBut
<1>14. TrailRight(t.trail, t.trailLim, t.assigns, t.level)
  <2>1. \A i \in DOMAIN o.trail : /\ Val(t.assigns, o.trail[i]) = LTrue
                                  /\ AtLevel(t.level[VarOf(o.trail[i])], <<>>, i)
    BY <1>12, <1>13 DEF TrailRight, Val
  <2>2. ASSUME NEW w \in DOMAIN t.assigns, t.assigns[w] # LUndef
        PROVE  t.level[w] = 0 \/ OnTrail(o.trail, w)
    <3>1. w \in VarsUpTo(n) /\ w # v
      BY <1>6, <1>9, <2>2
    <3>2. o.assigns[w] # LUndef /\ t.level[w] = o.level[w] /\ w \in DOMAIN o.assigns
      BY <1>4, <1>9, <1>11, <2>2, <3>1
    <3> QED
      BY <1>13, <3>2 DEF TrailRight
  <2> QED
    BY <1>2, <1>13, <2>1, <2>2 DEF TrailRight
<1>15. Reasons(t.trail, t.trailLim, t.reason, t.level, t.assigns, t.ca.at, strict)
  <2>1. ASSUME NEW i \in DOMAIN o.trail, NEW cr, cr = t.reason[VarOf(o.trail[i])]
        PROVE  /\ cr # CRefUndef => IsReason(cr, o.trail[i], o.ca.at)
               /\ strict => InOrder(i, <<>>, o.trail, t.level, t.assigns, cr, o.ca.at)
    <3>1. cr = o.reason[VarOf(o.trail[i])]
      BY <1>8, <1>10, <1>12, <2>1
    <3>2. cr # CRefUndef => IsReason(cr, o.trail[i], o.ca.at)
      BY <1>3, <3>1 DEF GoodBut, Reasons
    <3>3. t.level[VarOf(o.trail[i])] = 0
      <4>1. AtLevel(o.level[VarOf(o.trail[i])], <<>>, i)
        BY <1>13 DEF TrailRight
      <4>2. o.level[VarOf(o.trail[i])] = 0
        BY <4>1 DEF AtLevel
      <4> QED
        BY <1>12, <4>2
    <3> QED
      BY <3>2, <3>3 DEF InOrder
  <2> QED
    BY <1>2, <2>1 DEF Reasons
<1>16. t.freeVars \in Seq(VarsUpTo(n)) /\ Len(t.freeVars) \in Nat
       /\ \A j \in DOMAIN t.freeVars : /\ j \in DOMAIN o.freeVars /\ t.freeVars[j] = o.freeVars[j]
                                       /\ j # Len(o.freeVars)
  <2>1. CASE o.freeVars = <<>>
    BY <1>1, <2>1
  <2>2. CASE o.freeVars # <<>>
    <3>1. t.freeVars = Front(o.freeVars)
      BY <1>1, <2>2
    <3>2. Len(o.freeVars) \in Nat /\ Len(o.freeVars) - 1 \in 0 .. Len(o.freeVars)
      BY <1>4, <2>2
    <3>3. t.freeVars = SubSeq(o.freeVars, 1, Len(o.freeVars) - 1)
      BY <3>1 DEF Front
    <3>4. t.freeVars \in Seq(VarsUpTo(n)) /\ DOMAIN t.freeVars = 1 .. Len(o.freeVars) - 1
          /\ Len(t.freeVars) = Len(o.freeVars) - 1 /\ DOMAIN o.freeVars = 1 .. Len(o.freeVars)
          /\ \A j \in 1 .. Len(o.freeVars) - 1 : t.freeVars[j] = o.freeVars[j]
      BY <1>4, <3>2, <3>3, Prefix
    <3> QED
      BY <3>2, <3>4
  <2> QED
    BY <2>1, <2>2
<1>17. Free(t.freeVars, t.assigns, t.trail)
  <2>1. Free(o.freeVars, o.assigns, o.trail)
    BY <1>3 DEF GoodBut
  <2>2. ASSUME NEW j \in DOMAIN t.freeVars
        PROVE  t.assigns[t.freeVars[j]] # LUndef /\ ~OnTrail(t.trail, t.freeVars[j])
    <3>1. j \in DOMAIN o.freeVars /\ t.freeVars[j] = o.freeVars[j] /\ o.freeVars[j] # v
          /\ o.freeVars[j] \in VarsUpTo(n)
      BY <1>4, <1>8, <1>16
    <3> QED
      BY <1>2, <1>9, <2>1, <3>1 DEF Free
  <2>3. Distinct(t.freeVars)
    BY <1>16, <2>1 DEF Free, Distinct
  <2> QED
    BY <2>2, <2>3 DEF Free
<1>18. t.ok => Released(t.releasedVars, t.freeVars, t.assigns, t.level)
  <2> SUFFICES ASSUME t.ok PROVE Released(t.releasedVars, t.freeVars, t.assigns, t.level)
    OBVIOUS
  <2>1. Released(o.releasedVars, o.freeVars, o.assigns, o.level) /\ o.ok
    BY <1>2, <1>3 DEF GoodBut
  <2>2. ASSUME NEW j \in DOMAIN o.releasedVars
        PROVE  /\ t.assigns[o.releasedVars[j]] # LUndef /\ t.level[o.releasedVars[j]] = 0
               /\ o.releasedVars[j] \notin Range(t.freeVars)
    <3>1. o.releasedVars[j] \in VarsUpTo(n) /\ o.releasedVars[j] # v
      BY <1>4, <1>8, <2>1
    <3>2. o.releasedVars[j] \notin Range(o.freeVars)
      BY <2>1 DEF Released
    <3>3. o.releasedVars[j] \notin Range(t.freeVars)
      BY <1>16, <3>2 DEF Range
    <3> QED
      BY <1>9, <1>11, <2>1, <3>1, <3>3 DEF Released
  <2> QED
    BY <1>2, <2>1, <2>2 DEF Released
<1>19. Region(t.ca, n2)
  <2>1. Region(o.ca, n)
    BY <1>3 DEF GoodBut, n
  <2>2. \A lits : LongLits(lits, n) => LongLits(lits, n2)
    BY <1>7, SeqGrows DEF LongLits
  <2>3. Clauses(o.ca.at, n2)
    BY <2>1, <2>2 DEF Region, Clauses, IsClause
  <2> QED
    BY <1>2, <2>1, <2>3 DEF Region
<1>20. IsOccLists(t.watches, n2) /\ Lists(t.watches.occs, t.watches.dirty, t.ca.at, n2)
  <2>1. IsOccLists(o.watches, n) /\ Lists(o.watches.occs, o.watches.dirty, o.ca.at, n)
    BY <1>3 DEF GoodBut, Watched, n
  <2> QED
    BY <1>1, <1>2, <1>4, <1>6, <2>1, FreshLists
<1>21. Types(t)
  <2>1. t.assigns \in [VarsUpTo(n2) -> Lbools]
    BY <1>5, <1>6, <1>9 DEF Lbools
  <2>2. t.reason \in [VarsUpTo(n2) -> Refs]
    <3>1. CRefUndef \in Refs
      BY DEF Refs, CRefUndef
    <3> QED
      BY <1>5, <1>6, <1>10, <3>1
  <2>3. t.level \in [VarsUpTo(n2) -> Nat]
    <3>1. 0 \in Nat
      OBVIOUS
    <3>2. \A w \in VarsUpTo(n2) : t.level[w] \in Nat
      BY <1>5, <1>6, <1>11, <3>1
    <3> QED
      BY <1>11, <3>2
  <2>4. t.trail \in Seq(LitsOf(n2)) /\ t.freeVars \in Seq(VarsUpTo(n2))
        /\ t.releasedVars \in Seq(VarsUpTo(n2))
    BY <1>2, <1>4, <1>7, <1>16, SeqGrows
  <2>5. t.trailLim \in Seq(Nat) /\ t.qhead \in Nat /\ t.decision \subseteq VarsUpTo(n2)
        /\ t.ok \in BOOLEAN /\ t.useSimp = FALSE
    BY <1>2, <1>4, <1>7 DEF Types, n
  <2> QED
    BY <1>6, <2>1, <2>2, <2>3, <2>4, <2>5 DEF Types, n2
<1>22. t.clauses \in Seq(DOMAIN t.ca.at) /\ t.learnts \in Seq(DOMAIN t.ca.at)
  BY <1>2, <1>3 DEF GoodBut
<1> QED
  BY <1>1, <1>2, <1>14, <1>15, <1>17, <1>18, <1>19, <1>20, <1>21, <1>22 DEF Good, GoodBut, Watched, n2

\* What a call at the root leaves.
AtRoot(t, strict) == Good(t, strict) /\ t.trailLim = <<>>
Idling(t, strict) == AtRoot(t, strict) /\ Propagated(t)

\* newVar() keeps an object good.
THEOREM NewVarGood ==
    ASSUME NEW o, NEW strict, Idling(o, strict), NEW upol, NEW dvar
    PROVE  Idling(NewVar(o, upol, dvar), strict)
<1> DEFINE v == FreshVar(o)
<1>1. Good(o, strict) /\ o.trailLim = <<>> /\ IsObject(o) /\ Types(o) /\ o.qhead = Len(o.trail)
  BY DEF Good, GoodBut, Idling, AtRoot, Propagated
<1>2. PICK t : IsFresh(o, v, t) /\ NewVar(o, upol, dvar) = SetDecisionVar(t, v, dvar)
  BY <1>1, NewVarFresh
<1>3. t.nextVar = (IF o.freeVars = <<>> THEN o.nextVar + 1 ELSE o.nextVar) /\ IsObject(t)
  BY <1>2 DEF IsFresh
<1>4. FreshFor(o, v, t.nextVar)
  BY <1>1, <1>3, FreshIsFree DEF Types
<1> HIDE DEF v
<1>5. Good(t, strict) /\ t.trailLim = <<>> /\ t.trail = o.trail /\ t.qhead = o.qhead
  BY <1>1, <1>2, <1>4, FreshGood
<1> DEFINE u == SetDecisionVar(t, v, dvar)
<1>6. DecisionSet(t, v, u)
  BY <1>3, DecisionSetFields
<1>7. v \in VarsUpTo(t.nextVar)
  BY <1>4 DEF FreshFor
<1> HIDE DEF u
<1>8. GoodBut(u, strict) /\ Watched(u)
  BY <1>5, <1>6, <1>7, DecisionSetGood DEF Good
<1>9. u.trailLim = t.trailLim /\ u.trail = t.trail /\ u.qhead = t.qhead
  BY <1>6 DEF DecisionSet, Same, Fields, BranchFields
<1>10. Idling(u, strict)
  BY <1>1, <1>5, <1>8, <1>9 DEF Idling, AtRoot, Good, Propagated
<1> QED
  BY <1>2, <1>10 DEF u

-------------------------------------------------------------------------------
(* Storing and attaching a clause.                                             *)

\* b is the region ca with a clause of the literals lits at its end.
IsAlloced(ca, lits, b) ==
    /\ IsRegion(b) /\ b.size \in Nat /\ b.size > ca.size
    /\ \E c : IsUpdated(ca.at, ca.size, c, b.at) /\ c.lits = lits /\ c.mark = 0
              /\ c = [lits |-> c.lits, learnt |-> c.learnt, mark |-> c.mark, extra |-> c.extra, abs |-> c.abs]

\* What the allocation of a clause changes in a region (SolverTypes.h:245-254).
LEMMA AllocFields ==
    ASSUME NEW ca, IsRegion(ca), ca.size \in Nat, NEW lits, Len(lits) \in Nat, NEW learnt
    PROVE  IsAlloced(ca, lits, AllocClause(ca, lits, learnt))
<1> DEFINE c == NewClause(lits, learnt, learnt \/ ca.extra)
           w == ClauseWord32Size(Len(lits), learnt \/ ca.extra)
           b == [ca EXCEPT !.at = Updated(@, ca.size, c), !.size = @ + w]
<1>1. /\ c.lits = lits /\ c.mark = 0 /\ c.extra = (learnt \/ ca.extra)
      /\ c = [lits |-> c.lits, learnt |-> c.learnt, mark |-> c.mark, extra |-> c.extra, abs |-> c.abs]
  BY DEF NewClause
<1>2. AllocClause(ca, lits, learnt) = b
  BY <1>1 DEF AllocClause, PutClause
<1>3. w \in Nat /\ w > 0
  BY DEF ClauseWord32Size
<1> HIDE DEF w, c
<1>4. b.at = Updated(ca.at, ca.size, c) /\ b.size = ca.size + w /\ IsRegion(b)
  <2> DEFINE new == Updated(ca.at, ca.size, c)
  <2>1. b = [ca EXCEPT !.at = new, !.size = @ + w]
    OBVIOUS
  <2> HIDE DEF b, new
  <2>2. b.at = new /\ b.size = ca.size + w /\ IsRegion(b)
    BY <2>1 DEF IsRegion
  <2> QED
    BY <2>2 DEF new
<1> HIDE DEF b
<1>5. IsUpdated(ca.at, ca.size, c, b.at)
  BY <1>4, UpdatedIs
<1>6. b.size \in Nat /\ b.size > ca.size
  BY <1>3, <1>4
<1>7. IsAlloced(ca, lits, b)
  BY <1>1, <1>4, <1>5, <1>6 DEF IsAlloced
<1> QED
  BY <1>2, <1>7

StoreFields == {"ca", "clauses", "learnts"}

\* t is o with a new clause, that is not watched yet.
IsStored(o, lits, t) ==
    /\ IsObject(t) /\ IsAlloced(o.ca, lits, t.ca) /\ Same(o, t, StoreFields)
    /\ t.clauses = o.clauses \/ t.clauses = Append(o.clauses, o.ca.size)
    /\ t.learnts = o.learnts \/ t.learnts = Append(o.learnts, o.ca.size)

\* No list has clause cr.
Unlisted(o, cr) ==
    \A p \in LitsOf(o.nextVar) : \A i \in DOMAIN o.watches.occs[p] : o.watches.occs[p][i].cref # cr

\* What holds of a stored clause.
NewlyStored(o, lits, t, strict) ==
    /\ Good(t, strict) /\ Unlisted(t, o.ca.size) /\ o.ca.size \in DOMAIN t.ca.at /\ o.ca.size \in Nat
    /\ t.ca.at[o.ca.size].lits = lits /\ t.ca.at[o.ca.size].mark = 0
    /\ Same(o, t, StoreFields)

\* A new clause that nothing watches yet leaves an object good, but for its
\* watchers.
LEMMA StoreGood ==
    ASSUME NEW o, NEW strict, Good(o, strict), NEW lits, LongLits(lits, o.nextVar), NEW t,
           IsStored(o, lits, t)
    PROVE  NewlyStored(o, lits, t, strict)
<1> DEFINE n == o.nextVar
           sz == o.ca.size
<1>1. /\ GoodBut(o, strict) /\ Watched(o) /\ Types(o) /\ Region(o.ca, n) /\ n \in Nat
  BY DEF Good, GoodBut, Types
<1>2. sz \in Nat /\ DOMAIN o.ca.at \subseteq 0 .. sz - 1 /\ Clauses(o.ca.at, n)
  BY <1>1 DEF Region
<1>3. /\ IsObject(t) /\ Same(o, t, StoreFields) /\ IsRegion(t.ca) /\ t.ca.size \in Nat /\ t.ca.size > sz
      /\ t.clauses = o.clauses \/ t.clauses = Append(o.clauses, sz)
      /\ t.learnts = o.learnts \/ t.learnts = Append(o.learnts, sz)
  BY DEF IsStored, IsAlloced
<1>4. PICK c : IsUpdated(o.ca.at, sz, c, t.ca.at) /\ c.lits = lits /\ c.mark = 0
              /\ c = [lits |-> c.lits, learnt |-> c.learnt, mark |-> c.mark, extra |-> c.extra, abs |-> c.abs]
  BY DEF IsStored, IsAlloced
<1>5. /\ t.watches = o.watches /\ t.trail = o.trail /\ t.trailLim = o.trailLim /\ t.assigns = o.assigns
      /\ t.reason = o.reason /\ t.level = o.level /\ t.nextVar = n /\ t.qhead = o.qhead
      /\ t.releasedVars = o.releasedVars /\ t.freeVars = o.freeVars /\ t.decision = o.decision
      /\ t.ok = o.ok /\ t.useSimp = o.useSimp
  BY <1>3 DEF Same, Fields, StoreFields
<1> HIDE DEF n, sz
<1>6. sz \notin DOMAIN o.ca.at
  BY <1>2
<1>7. /\ DOMAIN t.ca.at = DOMAIN o.ca.at \union {sz} /\ t.ca.at[sz] = c
      /\ \A cr \in DOMAIN o.ca.at : t.ca.at[cr] = o.ca.at[cr]
  BY <1>4, <1>6 DEF IsUpdated
<1>8. Region(t.ca, n)
  <2>1. IsClause(c, n)
    BY <1>4 DEF IsClause, n
  <2>2. Clauses(t.ca.at, n)
    BY <1>2, <1>7, <2>1 DEF Clauses
  <2>3. DOMAIN t.ca.at \subseteq 0 .. t.ca.size - 1
    BY <1>2, <1>3, <1>7
  <2> QED
    BY <1>3, <2>2, <2>3 DEF Region
<1>9. t.clauses \in Seq(DOMAIN t.ca.at) /\ t.learnts \in Seq(DOMAIN t.ca.at)
  <2>1. o.clauses \in Seq(DOMAIN o.ca.at) /\ o.learnts \in Seq(DOMAIN o.ca.at)
    BY <1>1 DEF GoodBut
  <2>2. DOMAIN o.ca.at \subseteq DOMAIN t.ca.at /\ sz \in DOMAIN t.ca.at
    BY <1>7
  <2>3. o.clauses \in Seq(DOMAIN t.ca.at) /\ o.learnts \in Seq(DOMAIN t.ca.at)
    BY <2>1, <2>2, SeqGrows
  <2>4. Append(o.clauses, sz) \in Seq(DOMAIN t.ca.at) /\ Append(o.learnts, sz) \in Seq(DOMAIN t.ca.at)
    BY <2>2, <2>3, Appended
  <2> QED
    BY <1>3, <2>3, <2>4
<1>10. Reasons(t.trail, t.trailLim, t.reason, t.level, t.assigns, t.ca.at, strict)
  <2>1. Reasons(o.trail, o.trailLim, o.reason, o.level, o.assigns, o.ca.at, strict)
    BY <1>1 DEF GoodBut
  <2>2. ASSUME NEW cr, NEW p, IsReason(cr, p, o.ca.at)
        PROVE  IsReason(cr, p, t.ca.at) /\ t.ca.at[cr] = o.ca.at[cr]
    BY <1>7, <2>2 DEF IsReason
  <2>3. ASSUME NEW i \in DOMAIN o.trail, NEW cr, cr = o.reason[VarOf(o.trail[i])]
        PROVE  /\ cr # CRefUndef => IsReason(cr, o.trail[i], t.ca.at)
               /\ strict => InOrder(i, o.trailLim, o.trail, o.level, o.assigns, cr, t.ca.at)
    <3>1. /\ cr # CRefUndef => IsReason(cr, o.trail[i], o.ca.at)
          /\ strict => InOrder(i, o.trailLim, o.trail, o.level, o.assigns, cr, o.ca.at)
      BY <2>1, <2>3 DEF Reasons
    <3>2. CASE cr = CRefUndef
      BY <3>1, <3>2 DEF InOrder
    <3>3. CASE cr # CRefUndef
      <4>1. IsReason(cr, o.trail[i], t.ca.at) /\ t.ca.at[cr] = o.ca.at[cr]
        BY <2>2, <3>1, <3>3
      <4> QED
        BY <3>1, <4>1 DEF InOrder
    <3> QED
      BY <3>2, <3>3
  <2> QED
    BY <1>5, <2>3 DEF Reasons
<1>11. ASSUME NEW p \in LitsOf(n)
       PROVE  /\ WatchList(p, o.watches.occs[p], o.watches.dirty, t.ca.at)
              /\ \A i \in DOMAIN o.watches.occs[p] : o.watches.occs[p][i].cref # sz
  <2> DEFINE q == o.watches.occs[p]
  <2>1. WatchList(p, q, o.watches.dirty, o.ca.at)
    BY <1>1 DEF Watched, Lists, n
  <2> HIDE DEF q
  <2>2. q \in Seq(WatchersIn(o.ca.at)) /\ \A i \in DOMAIN q : Watches(p, o.ca.at[q[i].cref], o.watches.dirty)
    BY <2>1 DEF WatchList
  <2>3. DOMAIN o.ca.at \subseteq DOMAIN t.ca.at
    BY <1>7
  <2>4. q \in Seq(WatchersIn(t.ca.at))
    BY <2>2, <2>3, WatchersGrow
  <2>5. \A i \in DOMAIN q : q[i].cref \in DOMAIN o.ca.at
    <3>1. \A i \in DOMAIN q : q[i] \in WatchersIn(o.ca.at)
      BY <2>2
    <3> QED
      BY <3>1 DEF WatchersIn
  <2>6. StillWatched(p, q, o.watches.dirty, o.ca.at, t.ca.at)
    BY <1>7, <2>2, <2>5 DEF StillWatched
  <2>7. WatchList(p, q, o.watches.dirty, t.ca.at)
    BY <2>1, <2>4, <2>6, ListKept
  <2>8. \A i \in DOMAIN q : q[i].cref # sz
    BY <1>6, <2>5
  <2> QED
    BY <2>7, <2>8 DEF q
<1>12. Watched(t) /\ Unlisted(t, sz)
  BY <1>5, <1>11 DEF Watched, Lists, Unlisted
<1>13. Types(t)
  BY <1>1, <1>5 DEF Types, n
<1>14. GoodBut(t, strict)
  BY <1>1, <1>3, <1>5, <1>8, <1>9, <1>10, <1>13 DEF GoodBut, n
<1> QED
  BY <1>2, <1>3, <1>4, <1>7, <1>12, <1>14 DEF NewlyStored, Good, sz

AttachFields == {"watches", "numClauses", "literals"}

AttachedLists(ws, a, b, cr) == PushOcc(PushOcc(ws, Neg(a), Watcher(cr, b)), Neg(b), Watcher(cr, a))

IsAttached(o, cr, t) ==
    /\ IsObject(t) /\ Same(o, t, AttachFields)
    /\ t.watches = AttachedLists(o.watches, o.ca.at[cr].lits[1], o.ca.at[cr].lits[2], cr)

\* The fields attachClause() writes (Solver.cc:184-191).
LEMMA AttachedFields ==
    ASSUME NEW o, IsObject(o), NEW cr
    PROVE  IsAttached(o, cr, AttachClause(o, cr))
BY DEF AttachClause, IsObject, Fields, Same, IsAttached, AttachFields, AttachedLists

\* A clause in no list is put into those of its first two literals.
LEMMA AttachLists ==
    ASSUME NEW n \in Nat, NEW ws, IsOccLists(ws, n), NEW at, Lists(ws.occs, ws.dirty, at, n),
           NEW cr \in DOMAIN at, at[cr].mark # 1,
           NEW a, NEW b, a = at[cr].lits[1], b = at[cr].lits[2], a \in LitsOf(n), b \in LitsOf(n), a # b,
           \A p \in LitsOf(n) : \A i \in DOMAIN ws.occs[p] : ws.occs[p][i].cref # cr,
           NEW u, u = AttachedLists(ws, a, b, cr)
    PROVE  IsOccLists(u, n) /\ Lists(u.occs, u.dirty, at, n)
<1> DEFINE x == PushOcc(ws, Neg(a), Watcher(cr, b))
<1>1. /\ Neg(a) \in LitsOf(n) /\ Neg(Neg(a)) = a /\ Neg(b) \in LitsOf(n) /\ Neg(Neg(b)) = b
      /\ a \in Int /\ b \in Int
  <2>1. Neg(a) \in LitsOf(n) /\ Neg(Neg(a)) = a /\ Neg(b) \in LitsOf(n) /\ Neg(Neg(b)) = b
    BY LitFacts
  <2> QED
    BY <2>1 DEF LitsOf
<1>2. Neg(a) # Neg(b)
  BY <1>1
<1>3. IsPushed(ws, Neg(a), Watcher(cr, b), x, n)
  BY <1>1, PushOccFields
<1>4. u = PushOcc(x, Neg(b), Watcher(cr, a))
  BY DEF AttachedLists
<1> HIDE DEF x
<1>5. IsOccLists(x, n) /\ x.occs = [ws.occs EXCEPT ![Neg(a)] = Append(@, Watcher(cr, b))] /\ x.dirty = ws.dirty
  BY <1>3 DEF IsPushed
<1>6. IsPushed(x, Neg(b), Watcher(cr, a), u, n)
  <2>1. IsPushed(x, Neg(b), Watcher(cr, a), PushOcc(x, Neg(b), Watcher(cr, a)), n)
    BY <1>1, <1>5, PushOccFields
  <2> QED
    BY <1>4, <2>1
<1>7. IsOccLists(u, n) /\ u.occs = [x.occs EXCEPT ![Neg(b)] = Append(@, Watcher(cr, a))] /\ u.dirty = ws.dirty
  BY <1>5, <1>6 DEF IsPushed
<1>8. Watcher(cr, b) \in WatchersIn(at) /\ Watcher(cr, a) \in WatchersIn(at)
      /\ Watcher(cr, b).cref = cr /\ Watcher(cr, a).cref = cr
  BY <1>1 DEF Watcher, WatchersIn
<1>9. Watches(Neg(a), at[cr], ws.dirty) /\ Watches(Neg(b), at[cr], ws.dirty)
  BY <1>1 DEF Watches
<1>10. DOMAIN ws.occs = LitsOf(n) /\ DOMAIN x.occs = LitsOf(n)
  BY <1>5 DEF IsOccLists
<1>11. ASSUME NEW p \in LitsOf(n)
       PROVE  WatchList(p, u.occs[p], ws.dirty, at)
  <2>1. WatchList(p, ws.occs[p], ws.dirty, at) /\ \A i \in DOMAIN ws.occs[p] : ws.occs[p][i].cref # cr
    BY DEF Lists
  <2>2. CASE p = Neg(a)
    <3>1. u.occs[p] = Append(ws.occs[p], Watcher(cr, b))
      BY <1>1, <1>2, <1>5, <1>7, <1>10, <2>2
    <3>2. WatchList(p, Append(ws.occs[p], Watcher(cr, b)), ws.dirty, at)
      <4> DEFINE w == Watcher(cr, b)
      <4>1. w \in WatchersIn(at) /\ w.cref = cr /\ Watches(p, at[w.cref], ws.dirty)
        BY <1>8, <1>9, <2>2
      <4> HIDE DEF w
      <4>2. WatchList(p, Append(ws.occs[p], w), ws.dirty, at)
        BY <2>1, <4>1, ListPushed
      <4> QED
        BY <4>2 DEF w
    <3> QED
      BY <3>1, <3>2
  <2>3. CASE p = Neg(b)
    <3>1. u.occs[p] = Append(ws.occs[p], Watcher(cr, a))
      BY <1>1, <1>2, <1>5, <1>7, <1>10, <2>3
    <3>2. WatchList(p, Append(ws.occs[p], Watcher(cr, a)), ws.dirty, at)
      <4> DEFINE w == Watcher(cr, a)
      <4>1. w \in WatchersIn(at) /\ w.cref = cr /\ Watches(p, at[w.cref], ws.dirty)
        BY <1>8, <1>9, <2>3
      <4> HIDE DEF w
      <4>2. WatchList(p, Append(ws.occs[p], w), ws.dirty, at)
        BY <2>1, <4>1, ListPushed
      <4> QED
        BY <4>2 DEF w
    <3> QED
      BY <3>1, <3>2
  <2>4. CASE p # Neg(a) /\ p # Neg(b)
    <3>1. u.occs[p] = ws.occs[p]
      BY <1>5, <1>7, <1>10, <2>4
    <3> QED
      BY <2>1, <3>1
  <2> QED
    BY <2>2, <2>3, <2>4
<1> QED
  BY <1>7, <1>11 DEF Lists

\* attachClause() keeps an object good.
LEMMA AttachGood ==
    ASSUME NEW o, NEW strict, Good(o, strict), NEW cr \in DOMAIN o.ca.at, o.ca.at[cr].mark # 1,
           Unlisted(o, cr), NEW t, t = AttachClause(o, cr)
    PROVE  Good(t, strict) /\ IsAttached(o, cr, t)
<1> DEFINE n == o.nextVar
           a == o.ca.at[cr].lits[1]
           b == o.ca.at[cr].lits[2]
<1>1. GoodBut(o, strict) /\ Watched(o) /\ IsObject(o) /\ n \in Nat /\ Clauses(o.ca.at, n) /\ Types(o)
      /\ IsOccLists(o.watches, n)
  BY DEF Good, GoodBut, Types, Region
<1>2. IsAttached(o, cr, t)
  BY <1>1, AttachedFields
<1>3. IsObject(t) /\ Same(o, t, AttachFields) /\ t.watches = AttachedLists(o.watches, a, b, cr)
  BY <1>2 DEF IsAttached
<1>4. /\ t.ca = o.ca /\ t.clauses = o.clauses /\ t.learnts = o.learnts
      /\ t.trail = o.trail /\ t.trailLim = o.trailLim /\ t.assigns = o.assigns
      /\ t.reason = o.reason /\ t.level = o.level /\ t.nextVar = n /\ t.qhead = o.qhead
      /\ t.releasedVars = o.releasedVars /\ t.freeVars = o.freeVars /\ t.decision = o.decision
      /\ t.ok = o.ok /\ t.useSimp = o.useSimp
  BY <1>3 DEF Same, Fields, AttachFields
<1>5. a \in LitsOf(n) /\ b \in LitsOf(n) /\ a # b
  <2>1. LongLits(o.ca.at[cr].lits, n)
    BY <1>1 DEF Clauses, IsClause
  <2>2. 1 \in DOMAIN o.ca.at[cr].lits /\ 2 \in DOMAIN o.ca.at[cr].lits
    BY <2>1 DEF LongLits
  <2> QED
    BY <2>1, <2>2 DEF LongLits, Distinct
<1>6. \A p \in LitsOf(n) : \A i \in DOMAIN o.watches.occs[p] : o.watches.occs[p][i].cref # cr
  BY DEF Unlisted
<1>7. Lists(o.watches.occs, o.watches.dirty, o.ca.at, n)
  BY <1>1 DEF Watched
<1>8. a = o.ca.at[cr].lits[1] /\ b = o.ca.at[cr].lits[2]
  OBVIOUS
<1> HIDE DEF n, a, b
<1>9. IsOccLists(t.watches, n) /\ Lists(t.watches.occs, t.watches.dirty, o.ca.at, n)
  BY <1>1, <1>3, <1>5, <1>6, <1>7, <1>8, AttachLists
<1>10. Types(t)
  BY <1>1, <1>4 DEF Types, n
<1>11. GoodBut(t, strict)
  BY <1>1, <1>3, <1>4, <1>9, <1>10 DEF GoodBut, n
<1> QED
  BY <1>2, <1>4, <1>9, <1>11 DEF Good, Watched

-------------------------------------------------------------------------------
(* Removing a clause.                                                          *)

RemoveFields == {"watches", "numClauses", "literals", "reason", "ca"}

Smudged(ws, a, b) == Smudge(ws, {Neg(a), Neg(b)})

\* The region with clause cr marked as removed.
Marked(at, cr) == [at EXCEPT ![cr] = [@ EXCEPT !.mark = 1]]

\* t is o with clause cr removed.
ClauseRemoved(o, cr, t) ==
    /\ IsObject(t) /\ Same(o, t, RemoveFields)
    /\ t.watches = Smudged(o.watches, o.ca.at[cr].lits[1], o.ca.at[cr].lits[2])
    /\ IsRegion(t.ca) /\ t.ca.size = o.ca.size /\ t.ca.at = Marked(o.ca.at, cr)
    /\ t.reason = IF Locked(o, cr) THEN [o.reason EXCEPT ![VarOf(o.ca.at[cr].lits[1])] = CRefUndef]
                  ELSE o.reason

\* The fields removeClause() writes (Solver.cc:212-219).
LEMMA RemovedFields ==
    ASSUME NEW o, IsObject(o), IsRegion(o.ca), NEW n, o.reason \in [VarsUpTo(n) -> Refs], NEW cr,
           VarOf(o.ca.at[cr].lits[1]) \in VarsUpTo(n)
    PROVE  ClauseRemoved(o, cr, RemoveClause(o, cr))
<1> DEFINE v == VarOf(o.ca.at[cr].lits[1])
           d == DetachClause(o, cr, FALSE)
           DetachFields == {"watches", "numClauses", "literals"}
<1>1. /\ IsObject(d) /\ Same(o, d, DetachFields)
      /\ d.watches = Smudged(o.watches, o.ca.at[cr].lits[1], o.ca.at[cr].lits[2])
  BY DEF DetachClause, IsObject, Fields, Same, Smudged
<1>2. d.reason = o.reason /\ d.ca = o.ca
  BY <1>1 DEF Same, Fields
<1> DEFINE why == IF Locked(o, cr) THEN CRefUndef ELSE o.reason[v]
           ca2 == FreeClause([o.ca EXCEPT !.at[cr].mark = 1], cr)
           t == [d EXCEPT !.reason[v] = why, !.ca = ca2]
<1>3. RemoveClause(o, cr) = t
  BY <1>2 DEF RemoveClause, Lits
<1> HIDE DEF d
<1>4. IsRegion(ca2) /\ ca2.size = o.ca.size /\ ca2.at = Marked(o.ca.at, cr)
  <2> DEFINE ca1 == [o.ca EXCEPT !.at[cr].mark = 1]
  <2>1. IsRegion(ca1) /\ ca1.size = o.ca.size /\ ca1.at = Marked(o.ca.at, cr)
    BY DEF IsRegion, Marked
  <2> HIDE DEF ca1
  <2>2. IsRegion(FreeClause(ca1, cr)) /\ FreeClause(ca1, cr).size = ca1.size
        /\ FreeClause(ca1, cr).at = ca1.at
    BY <2>1 DEF FreeClause, IsRegion
  <2> QED
    BY <2>1, <2>2 DEF ca1
<1> HIDE DEF ca2, why
<1>5. /\ IsObject(t) /\ t.ca = ca2 /\ t.reason = [d.reason EXCEPT ![v] = why]
      /\ t.watches = d.watches /\ \A f \in Fields : f \notin {"reason", "ca"} => t[f] = d[f]
  BY <1>1 DEF IsObject, Fields
<1> HIDE DEF t
<1>6. Same(o, t, RemoveFields)
  BY <1>1, <1>5 DEF Same, RemoveFields
<1>7. t.reason = IF Locked(o, cr) THEN [o.reason EXCEPT ![v] = CRefUndef] ELSE o.reason
  <2>1. CASE Locked(o, cr)
    BY <1>2, <1>5, <2>1 DEF why
  <2>2. CASE ~Locked(o, cr)
    <3>1. t.reason = [o.reason EXCEPT ![v] = o.reason[v]]
      BY <1>2, <1>5, <2>2 DEF why
    <3> QED
      BY <2>2, <3>1
  <2> QED
    BY <2>1, <2>2
<1>8. ClauseRemoved(o, cr, t)
  BY <1>1, <1>4, <1>5, <1>6, <1>7 DEF ClauseRemoved
<1> QED
  BY <1>3, <1>8

\* The clause of a reason is locked.
LEMMA ReasonLocked ==
    ASSUME NEW o, NEW strict, GoodBut(o, strict), NEW i \in DOMAIN o.trail,
           NEW cr, cr = o.reason[VarOf(o.trail[i])], cr # CRefUndef
    PROVE  Locked(o, cr) /\ IsReason(cr, o.trail[i], o.ca.at)
<1>1. IsReason(cr, o.trail[i], o.ca.at) /\ Val(o.assigns, o.trail[i]) = LTrue
  BY DEF GoodBut, Reasons, TrailRight
<1>2. Lits(o, cr)[1] = o.trail[i] /\ Value(o, o.trail[i]) = LTrue
  BY <1>1 DEF IsReason, Lits, Value, Val
<1> QED
  BY <1>1, <1>2 DEF Locked, ReasonOf

\* A clause may be removed unless it implies a literal above the root.
MayRemove(o, cr, strict) ==
    cr \in DOMAIN o.ca.at /\ (strict /\ Len(o.trailLim) > 0 => ~Locked(o, cr))

\* A removed clause is the reason of no literal above the root.
LEMMA RemovedReasons ==
    ASSUME NEW o, NEW strict, GoodBut(o, strict), NEW cr, MayRemove(o, cr, strict), NEW t,
           ClauseRemoved(o, cr, t)
    PROVE  Reasons(o.trail, o.trailLim, t.reason, o.level, o.assigns, t.ca.at, strict)
<1> DEFINE n == o.nextVar
<1>1. /\ n \in Nat /\ o.trail \in Seq(LitsOf(n)) /\ o.trailLim \in Seq(Nat)
      /\ TrailRight(o.trail, o.trailLim, o.assigns, o.level) /\ DOMAIN o.reason = VarsUpTo(n)
  BY DEF GoodBut, Types
<1>2. Reasons(o.trail, o.trailLim, o.reason, o.level, o.assigns, o.ca.at, strict)
  BY DEF GoodBut
<1>3. t.ca.at = Marked(o.ca.at, cr)
      /\ t.reason = IF Locked(o, cr) THEN [o.reason EXCEPT ![VarOf(o.ca.at[cr].lits[1])] = CRefUndef]
                  ELSE o.reason
  BY DEF ClauseRemoved
<1>4. DOMAIN t.ca.at = DOMAIN o.ca.at /\ \A d \in DOMAIN o.ca.at : d # cr => t.ca.at[d] = o.ca.at[d]
  BY <1>3 DEF Marked
<1> SUFFICES ASSUME NEW i \in DOMAIN o.trail, NEW why, why = t.reason[VarOf(o.trail[i])]
             PROVE  /\ why # CRefUndef => IsReason(why, o.trail[i], t.ca.at)
                    /\ strict => InOrder(i, o.trailLim, o.trail, o.level, o.assigns, why, t.ca.at)
  BY DEF Reasons
<1>5. VarOf(o.trail[i]) \in DOMAIN o.reason
  <2>1. o.trail[i] \in LitsOf(n)
    BY <1>1
  <2> QED
    BY <1>1, <2>1, LitFacts
<1> DEFINE old == o.reason[VarOf(o.trail[i])]
<1>6. /\ old # CRefUndef => IsReason(old, o.trail[i], o.ca.at)
      /\ strict => InOrder(i, o.trailLim, o.trail, o.level, o.assigns, old, o.ca.at)
  BY <1>2 DEF Reasons
<1>7. CASE old = cr /\ old # CRefUndef
  <2>1. Locked(o, cr) /\ IsReason(cr, o.trail[i], o.ca.at)
    BY <1>7, ReasonLocked
  <2>2. o.ca.at[cr].lits[1] = o.trail[i]
    BY <2>1 DEF IsReason
  <2>3. why = CRefUndef
    BY <1>3, <1>5, <2>1, <2>2
  <2>4. ASSUME strict
        PROVE  o.level[VarOf(o.trail[i])] = 0
    <3>1. ~(Len(o.trailLim) > 0)
      BY <2>1, <2>4 DEF MayRemove
    <3>2. AtLevel(o.level[VarOf(o.trail[i])], o.trailLim, i)
      BY <1>1 DEF TrailRight
    <3> QED
      BY <1>1, <3>1, <3>2 DEF AtLevel
  <2> QED
    BY <2>3, <2>4 DEF InOrder
<1>8. CASE ~(old = cr /\ old # CRefUndef)
  <2>1. ASSUME old = CRefUndef
        PROVE  why = CRefUndef
    BY <1>3, <1>5, <2>1
  <2>2. ASSUME old # CRefUndef, Locked(o, cr)
        PROVE  VarOf(o.trail[i]) # VarOf(o.ca.at[cr].lits[1])
    <3>1. o.reason[VarOf(o.ca.at[cr].lits[1])] = cr
      BY <2>2 DEF Locked, ReasonOf, Lits
    <3> QED
      BY <1>8, <2>2, <3>1
  <2>3. why = old
    <3>1. CASE Locked(o, cr)
      BY <1>3, <1>5, <2>1, <2>2, <3>1
    <3>2. CASE ~Locked(o, cr)
      BY <1>3, <3>2
    <3> QED
      BY <3>1, <3>2
  <2> HIDE DEF old
  <2>4. CASE old = CRefUndef
    BY <1>6, <2>3, <2>4 DEF InOrder
  <2>5. CASE old # CRefUndef
    <3>1. t.ca.at[old] = o.ca.at[old] /\ IsReason(old, o.trail[i], t.ca.at)
      BY <1>4, <1>6, <1>8, <2>5 DEF IsReason
    <3> QED
      BY <1>6, <2>3, <3>1 DEF InOrder
  <2> QED
    BY <2>4, <2>5
<1> QED
  BY <1>7, <1>8

\* The lists of a removed clause are dirty.
LEMMA SmudgedLists ==
    ASSUME NEW n \in Nat, NEW ws, IsOccLists(ws, n), NEW at, Lists(ws.occs, ws.dirty, at, n),
           NEW cr \in DOMAIN at, NEW a, NEW b, a = at[cr].lits[1], b = at[cr].lits[2],
           a \in LitsOf(n), b \in LitsOf(n), IsClause(at[cr], n),
           NEW u, u = Smudged(ws, a, b)
    PROVE  IsOccLists(u, n) /\ Lists(u.occs, u.dirty, Marked(at, cr), n)
<1>1. Neg(a) \in LitsOf(n) /\ Neg(Neg(a)) = a /\ Neg(b) \in LitsOf(n) /\ Neg(Neg(b)) = b
  BY LitFacts
<1>2. /\ u.occs = ws.occs /\ u.dirty = ws.dirty \union {Neg(a), Neg(b)}
      /\ u = [occs |-> u.occs, dirty |-> u.dirty]
  BY DEF Smudged, Smudge, IsOccLists
<1>3. IsOccLists(u, n)
  BY <1>1, <1>2 DEF IsOccLists
<1> DEFINE at2 == Marked(at, cr)
<1>4. /\ DOMAIN at2 = DOMAIN at /\ at2[cr].mark = 1
      /\ \A d \in DOMAIN at : d # cr => at2[d] = at[d]
  BY DEF Marked, IsClause
<1> HIDE DEF at2
<1>5. ASSUME NEW p \in LitsOf(n)
      PROVE  WatchList(p, u.occs[p], u.dirty, at2)
  <2> DEFINE q == ws.occs[p]
  <2>1. WatchList(p, q, ws.dirty, at)
    BY DEF Lists
  <2> HIDE DEF q
  <2>2. q \in Seq(WatchersIn(at)) /\ \A i \in DOMAIN q : Watches(p, at[q[i].cref], ws.dirty)
    BY <2>1 DEF WatchList
  <2>3. \A i \in DOMAIN q : q[i].cref \in DOMAIN at
    <3>1. \A i \in DOMAIN q : q[i] \in WatchersIn(at)
      BY <2>2
    <3> QED
      BY <3>1 DEF WatchersIn
  <2>4. ASSUME NEW i \in DOMAIN q
        PROVE  /\ Watches(p, at2[q[i].cref], u.dirty)
               /\ at[q[i].cref].mark = 1 => at2[q[i].cref].mark = 1
    <3>1. CASE q[i].cref = cr
      <4>1. p \in u.dirty
        <5>1. Watches(p, at[cr], ws.dirty)
          BY <2>2, <3>1
        <5>2. CASE at[cr].mark = 1
          BY <1>2, <5>1, <5>2 DEF Watches
        <5>3. CASE at[cr].mark # 1
          <6>1. Neg(p) = a \/ Neg(p) = b
            BY <5>1, <5>3 DEF Watches
          <6>2. Neg(Neg(p)) = p
            BY LitFacts
          <6> QED
            BY <1>2, <6>1, <6>2
        <5> QED
          BY <5>2, <5>3
      <4> QED
        BY <1>4, <3>1, <4>1 DEF Watches
    <3>2. CASE q[i].cref # cr
      BY <1>2, <1>4, <2>2, <2>3, <3>2 DEF Watches
    <3> QED
      BY <3>1, <3>2
  <2>5. StillWatched(p, q, u.dirty, at, at2)
    BY <2>4 DEF StillWatched
  <2>6. q \in Seq(WatchersIn(at2))
    BY <1>4, <2>2 DEF WatchersIn
  <2>7. WatchList(p, q, u.dirty, at2)
    BY <2>1, <2>5, <2>6, ListKept
  <2> QED
    BY <1>2, <2>7 DEF q
<1> QED
  BY <1>3, <1>5 DEF Lists, at2

\* removeClause() keeps an object good.
LEMMA RemoveGood ==
    ASSUME NEW o, NEW strict, Good(o, strict), NEW cr, MayRemove(o, cr, strict),
           NEW t, t = RemoveClause(o, cr)
    PROVE  Good(t, strict) /\ ClauseRemoved(o, cr, t)
<1> DEFINE n == o.nextVar
           a == o.ca.at[cr].lits[1]
           b == o.ca.at[cr].lits[2]
<1>1. /\ GoodBut(o, strict) /\ Watched(o) /\ IsObject(o) /\ n \in Nat /\ Types(o)
      /\ IsOccLists(o.watches, n) /\ Region(o.ca, n) /\ cr \in DOMAIN o.ca.at
      /\ o.reason \in [VarsUpTo(n) -> Refs]
  BY DEF Good, GoodBut, Types, MayRemove
<1>2. Clauses(o.ca.at, n) /\ IsClause(o.ca.at[cr], n) /\ IsRegion(o.ca) /\ o.ca.size \in Nat
      /\ DOMAIN o.ca.at \subseteq 0 .. o.ca.size - 1
  BY <1>1 DEF Region, Clauses
<1>3. a \in LitsOf(n) /\ b \in LitsOf(n)
  BY <1>2 DEF IsClause, LongLits
<1>4. VarOf(a) \in VarsUpTo(n)
  BY <1>1, <1>3, LitFacts
<1>5. ClauseRemoved(o, cr, t)
  <2>1. ClauseRemoved(o, cr, RemoveClause(o, cr))
    BY <1>1, <1>2, <1>4, RemovedFields
  <2> QED
    BY <2>1
<1>6. /\ IsObject(t) /\ Same(o, t, RemoveFields) /\ t.watches = Smudged(o.watches, a, b)
      /\ IsRegion(t.ca) /\ t.ca.size = o.ca.size /\ t.ca.at = Marked(o.ca.at, cr)
      /\ t.reason = IF Locked(o, cr) THEN [o.reason EXCEPT ![VarOf(a)] = CRefUndef] ELSE o.reason
  BY <1>5 DEF ClauseRemoved
<1>7. /\ t.clauses = o.clauses /\ t.learnts = o.learnts
      /\ t.trail = o.trail /\ t.trailLim = o.trailLim /\ t.assigns = o.assigns
      /\ t.level = o.level /\ t.nextVar = n /\ t.qhead = o.qhead
      /\ t.releasedVars = o.releasedVars /\ t.freeVars = o.freeVars /\ t.decision = o.decision
      /\ t.ok = o.ok /\ t.useSimp = o.useSimp
  BY <1>6 DEF Same, Fields, RemoveFields
<1>8. a = o.ca.at[cr].lits[1] /\ b = o.ca.at[cr].lits[2] /\ Lists(o.watches.occs, o.watches.dirty, o.ca.at, n)
  BY <1>1 DEF Watched
<1> HIDE DEF n, a, b
<1>9. IsOccLists(t.watches, n) /\ Lists(t.watches.occs, t.watches.dirty, Marked(o.ca.at, cr), n)
  BY <1>1, <1>2, <1>3, <1>6, <1>8, SmudgedLists
<1>10. Reasons(t.trail, t.trailLim, t.reason, t.level, t.assigns, t.ca.at, strict)
  <2>1. Reasons(o.trail, o.trailLim, t.reason, o.level, o.assigns, t.ca.at, strict)
    BY <1>1, <1>5, RemovedReasons
  <2> QED
    BY <1>7, <2>1
<1>11. DOMAIN t.ca.at = DOMAIN o.ca.at /\ Clauses(t.ca.at, n)
  <2>1. DOMAIN t.ca.at = DOMAIN o.ca.at
    BY <1>6 DEF Marked
  <2>2. IsClause([o.ca.at[cr] EXCEPT !.mark = 1], n)
    BY <1>2 DEF IsClause
  <2>3. t.ca.at[cr] = [o.ca.at[cr] EXCEPT !.mark = 1]
        /\ \A d \in DOMAIN o.ca.at : d # cr => t.ca.at[d] = o.ca.at[d]
    BY <1>1, <1>6 DEF Marked
  <2> QED
    BY <1>2, <2>1, <2>2, <2>3 DEF Clauses
<1>12. Region(t.ca, n)
  BY <1>2, <1>6, <1>11 DEF Region
<1>13. Types(t)
  <2>1. t.reason \in [VarsUpTo(n) -> Refs]
    <3>1. CRefUndef \in Refs
      BY DEF CRefUndef, Refs
    <3> QED
      BY <1>1, <1>6, <3>1
  <2> QED
    BY <1>1, <1>7, <2>1 DEF Types, n
<1>14. GoodBut(t, strict)
  BY <1>1, <1>6, <1>7, <1>9, <1>10, <1>11, <1>12, <1>13 DEF GoodBut, n
<1> QED
  BY <1>5, <1>6, <1>7, <1>9, <1>14 DEF Good, Watched

-------------------------------------------------------------------------------
(* removeSatisfied().                                                          *)

TrimRun(g, s, lits) ==
    g[0] = [lits |-> lits, k |-> 3]
    /\ \A i \in 1 .. Len(lits) : g[i] = TrimAt(s, g[i - 1].lits, g[i - 1].k)

\* The loop over the literals of a clause runs.
LEMMA TrimRuns ==
    ASSUME NEW s, NEW lits, Len(lits) \in Nat
    PROVE  \E g : TrimRun(g, s, lits) /\ Trim(s, lits) = g[Len(lits)].lits
<1> DEFINE n == Len(lits)
           x0 == [lits |-> lits, k |-> 3]
           loop[i \in 0 .. n] == IF i = 0 THEN x0 ELSE TrimAt(s, loop[i - 1].lits, loop[i - 1].k)
           S == {m \in Nat : \E g : g = [i \in 0 .. m |-> IF i = 0 THEN x0
                                                        ELSE TrimAt(s, g[i - 1].lits, g[i - 1].k)]}
<1>1. Trim(s, lits) = loop[n].lits
  BY DEF Trim
<1> HIDE DEF x0
<1>2. 0 \in S
  <2> DEFINE g == [i \in 0 .. 0 |-> x0]
  <2>1. g = [i \in 0 .. 0 |-> IF i = 0 THEN x0 ELSE TrimAt(s, g[i - 1].lits, g[i - 1].k)]
    OBVIOUS
  <2> HIDE DEF g
  <2> QED
    BY <2>1
<1>3. ASSUME NEW m \in Nat, m \in S
      PROVE  m + 1 \in S
  <2>1. PICK g : g = [i \in 0 .. m |-> IF i = 0 THEN x0 ELSE TrimAt(s, g[i - 1].lits, g[i - 1].k)]
    BY <1>3
  <2> DEFINE h == [i \in 0 .. m + 1 |-> IF i = m + 1 THEN TrimAt(s, g[m].lits, g[m].k) ELSE g[i]]
  <2>2. ASSUME NEW i \in 0 .. m + 1
        PROVE  h[i] = IF i = 0 THEN x0 ELSE TrimAt(s, h[i - 1].lits, h[i - 1].k)
    <3>1. CASE i = m + 1
      <4>1. i - 1 = m /\ m \in 0 .. m + 1 /\ m # m + 1 /\ i # 0
        BY <3>1
      <4>2. h[i - 1] = g[m]
        BY <2>1, <4>1
      <4> QED
        BY <3>1, <4>1, <4>2
    <3>2. CASE i # m + 1
      <4>1. i \in 0 .. m
        BY <3>2
      <4>2. h[i] = g[i] /\ g[i] = IF i = 0 THEN x0 ELSE TrimAt(s, g[i - 1].lits, g[i - 1].k)
        BY <2>1, <3>2, <4>1
      <4>3. CASE i # 0
        <5>1. i - 1 \in 0 .. m + 1 /\ i - 1 # m + 1
          BY <4>1, <4>3
        <5>2. h[i - 1] = g[i - 1]
          BY <5>1
        <5> QED
          BY <4>2, <4>3, <5>2
      <4> QED
        BY <4>2, <4>3
    <3> QED
      BY <3>1, <3>2
  <2>3. h = [i \in 0 .. m + 1 |-> IF i = 0 THEN x0 ELSE TrimAt(s, h[i - 1].lits, h[i - 1].k)]
    <3>1. h = [i \in 0 .. m + 1 |-> h[i]]
      OBVIOUS
    <3> HIDE DEF h
    <3> QED
      BY <2>2, <3>1
  <2>4. \E k : k = [i \in 0 .. m + 1 |-> IF i = 0 THEN x0 ELSE TrimAt(s, k[i - 1].lits, k[i - 1].k)]
    <3> HIDE DEF h
    <3> QED
      BY <2>3
  <2> QED
    BY <2>4
<1>4. n \in S
  <2> HIDE DEF S
  <2>1. Nat \subseteq S
    BY <1>2, <1>3, InductionOn
  <2> QED
    BY <2>1
<1>5. loop = [i \in 0 .. n |-> IF i = 0 THEN x0 ELSE TrimAt(s, loop[i - 1].lits, loop[i - 1].k)]
  <2>1. \E g : g = [i \in 0 .. n |-> IF i = 0 THEN x0 ELSE TrimAt(s, g[i - 1].lits, g[i - 1].k)]
    BY <1>4
  <2>2. loop = CHOOSE g : g = [i \in 0 .. n |-> IF i = 0 THEN x0
                                              ELSE TrimAt(s, g[i - 1].lits, g[i - 1].k)]
    BY DEF loop
  <2> HIDE DEF loop
  <2> QED
    BY <2>1, <2>2, Zenon
<1> HIDE DEF loop
<1>6. loop[0] = x0 /\ \A i \in 1 .. n : loop[i] = TrimAt(s, loop[i - 1].lits, loop[i - 1].k)
  <2>1. 0 \in 0 .. n /\ \A i \in 1 .. n : i \in 0 .. n /\ i # 0
    OBVIOUS
  <2> HIDE DEF n
  <2> QED
    BY <1>5, <2>1
<1>7. TrimRun(loop, s, lits)
  BY <1>6 DEF TrimRun, x0
<1> QED
  BY <1>1, <1>7

\* new are literals of old, the first two of them the same.
Trimmed(new, old, n) ==
    /\ LongLits(new, n) /\ new[1] = old[1] /\ new[2] = old[2]
    /\ \A j \in 2 .. Len(new) : \E m \in 2 .. Len(old) : new[j] = old[m]

TrimmedTo(x, old, n) ==
    x = [lits |-> x.lits, k |-> x.k] /\ x.k \in Nat /\ x.k >= 3 /\ Trimmed(x.lits, old, n)

\* One literal beyond the second is replaced by the last one.
LEMMA TrimStep ==
    ASSUME NEW s, NEW n, NEW x, NEW old, TrimmedTo(x, old, n)
    PROVE  TrimmedTo(TrimAt(s, x.lits, x.k), old, n)
<1> DEFINE q == x.lits
           k == x.k
           m == Len(q)
<1>1. /\ k \in Nat /\ k >= 3 /\ LongLits(q, n) /\ q[1] = old[1] /\ q[2] = old[2]
      /\ \A j \in 2 .. m : \E h \in 2 .. Len(old) : q[j] = old[h]
  BY DEF TrimmedTo, Trimmed
<1>2. q \in Seq(LitsOf(n)) /\ m >= 2 /\ m \in Nat /\ DOMAIN q = 1 .. m
      /\ \A i, j \in 1 .. m : q[i] = q[j] => i = j
  BY <1>1 DEF LongLits, Distinct
<1> HIDE DEF q, k, m
<1>3. CASE k > m
  <2>1. TrimAt(s, q, k) = [lits |-> q, k |-> k]
    BY <1>3 DEF TrimAt, m
  <2>2. TrimmedTo([lits |-> q, k |-> k], old, n)
    BY <1>1 DEF TrimmedTo, Trimmed, m
  <2> QED
    BY <2>1, <2>2 DEF q, k
<1>4. CASE ~(k > m) /\ Value(s, q[k]) # LFalse
  <2>1. TrimAt(s, q, k) = [lits |-> q, k |-> k + 1]
    BY <1>4 DEF TrimAt, m
  <2>2. k + 1 \in Nat /\ k + 1 >= 3
    BY <1>1
  <2>3. TrimmedTo([lits |-> q, k |-> k + 1], old, n)
    BY <1>1, <2>2 DEF TrimmedTo, Trimmed, m
  <2> QED
    BY <2>1, <2>3 DEF q, k
<1>5. CASE ~(k > m) /\ ~(Value(s, q[k]) # LFalse)
  <2> DEFINE e == [q EXCEPT ![k] = Last(q)]
             new == Front(e)
  <2>1. TrimAt(s, q, k) = [lits |-> new, k |-> k]
    BY <1>5 DEF TrimAt, m
  <2>2. k \in 1 .. m /\ m >= 3 /\ m - 1 \in Nat
    BY <1>1, <1>2, <1>5
  <2>3. Last(q) = q[m] /\ q[m] \in LitsOf(n)
    BY <1>2, <2>2 DEF Last, m
  <2>4. e \in Seq(LitsOf(n)) /\ Len(e) = m /\ DOMAIN e = 1 .. m
        /\ e[k] = q[m] /\ \A j \in 1 .. m : j # k => e[j] = q[j]
    <3>1. DOMAIN e = 1 .. m /\ e[k] = q[m] /\ (\A j \in 1 .. m : j # k => e[j] = q[j])
          /\ e = [j \in 1 .. m |-> e[j]]
      BY <1>2, <2>2, <2>3
    <3>2. \A j \in 1 .. m : e[j] \in LitsOf(n)
      BY <1>2, <2>3, <3>1
    <3> HIDE DEF e
    <3>3. e \in Seq(LitsOf(n))
      BY <1>2, <3>1, <3>2
    <3>4. Len(e) = m
      BY <1>2, <3>1, <3>3
    <3> QED
      BY <3>1, <3>3, <3>4
  <2> HIDE DEF e
  <2>5. new = SubSeq(e, 1, m - 1) /\ m - 1 \in 0 .. Len(e)
    BY <2>2, <2>4 DEF Front
  <2>6. new \in Seq(LitsOf(n)) /\ Len(new) = m - 1 /\ DOMAIN new = 1 .. m - 1
        /\ \A j \in 1 .. m - 1 : new[j] = e[j]
    <3> DEFINE r == m - 1
    <3>1. r \in 0 .. Len(e) /\ new = SubSeq(e, 1, r) /\ e \in Seq(LitsOf(n))
      BY <2>4, <2>5
    <3> HIDE DEF r, new
    <3>2. new \in Seq(LitsOf(n)) /\ Len(new) = r /\ DOMAIN new = 1 .. r
          /\ \A j \in 1 .. r : new[j] = e[j]
      BY <3>1, Prefix
    <3> QED
      BY <3>2 DEF r
  <2> HIDE DEF new
  <2>7. \A j \in 1 .. m - 1 : new[j] = IF j = k THEN q[m] ELSE q[j]
    <3>1. \A j \in 1 .. m - 1 : j \in 1 .. m
      BY <1>2
    <3> QED
      BY <2>4, <2>6, <3>1
  <2>8. Distinct(new)
    <3> SUFFICES ASSUME NEW i \in 1 .. m - 1, NEW j \in 1 .. m - 1, new[i] = new[j]
                 PROVE  i = j
      BY <2>6 DEF Distinct
    <3>1. i \in 1 .. m /\ j \in 1 .. m /\ m \in 1 .. m /\ i # m /\ j # m
      BY <1>2, <2>2
    <3> QED
      BY <1>2, <2>7, <3>1
  <2>9. new[1] = q[1] /\ new[2] = q[2]
    <3>1. 1 \in 1 .. m - 1 /\ 2 \in 1 .. m - 1 /\ k # 1 /\ k # 2
      BY <1>1, <1>2, <2>2
    <3> QED
      BY <2>7, <3>1
  <2>10. ASSUME NEW j \in 2 .. Len(new)
         PROVE  \E h \in 2 .. Len(old) : new[j] = old[h]
    <3>1. j \in 1 .. m - 1 /\ j \in 2 .. m /\ m \in 2 .. m
      BY <1>2, <2>2, <2>6
    <3> QED
      BY <1>1, <2>7, <3>1
  <2>11. Len(new) >= 2
    BY <1>2, <2>2, <2>6
  <2>12. TrimmedTo([lits |-> new, k |-> k], old, n)
    BY <1>1, <2>6, <2>8, <2>9, <2>10, <2>11 DEF TrimmedTo, Trimmed, LongLits
  <2> QED
    BY <2>1, <2>12 DEF q, k
<1> QED
  BY <1>3, <1>4, <1>5

\* Trimming keeps the watched literals and adds none.
LEMMA TrimKeeps ==
    ASSUME NEW s, NEW n, NEW lits, LongLits(lits, n)
    PROVE  Trimmed(Trim(s, lits), lits, n)
<1>1. Len(lits) \in Nat
  BY DEF LongLits
<1>2. PICK g : TrimRun(g, s, lits) /\ Trim(s, lits) = g[Len(lits)].lits
  BY <1>1, TrimRuns
<1> DEFINE S == {i \in Nat : i <= Len(lits) => TrimmedTo(g[i], lits, n)}
<1>3. 0 \in S
  <2>1. g[0] = [lits |-> lits, k |-> 3]
    BY <1>2 DEF TrimRun
  <2>2. TrimmedTo([lits |-> lits, k |-> 3], lits, n)
    BY DEF TrimmedTo, Trimmed, LongLits
  <2> QED
    BY <2>1, <2>2
<1>4. ASSUME NEW i \in Nat, i \in S
      PROVE  i + 1 \in S
  <2> SUFFICES ASSUME i + 1 <= Len(lits) PROVE TrimmedTo(g[i + 1], lits, n)
    OBVIOUS
  <2>1. i + 1 \in 1 .. Len(lits) /\ (i + 1) - 1 = i /\ i <= Len(lits)
    BY <1>1
  <2>2. g[i + 1] = TrimAt(s, g[i].lits, g[i].k)
    BY <1>2, <2>1 DEF TrimRun
  <2>3. TrimmedTo(g[i], lits, n)
    BY <1>4, <2>1
  <2>4. TrimmedTo(TrimAt(s, g[i].lits, g[i].k), lits, n)
    BY <2>3, TrimStep
  <2> QED
    BY <2>2, <2>4
<1>5. Len(lits) \in S
  <2> HIDE DEF S
  <2> QED
    BY <1>1, <1>3, <1>4, InductionOn
<1> QED
  BY <1>1, <1>2, <1>5 DEF TrimmedTo

\* The literals of a clause are trimmed.
LEMMA TrimGood ==
    ASSUME NEW o, NEW strict, Good(o, strict), NEW cr \in DOMAIN o.ca.at,
           NEW lits, Trimmed(lits, o.ca.at[cr].lits, o.nextVar), NEW t, t = Put(o, cr, lits)
    PROVE  Good(t, strict) /\ IsPut(o, cr, lits, t)
<1>1. GoodBut(o, strict) /\ Watched(o) /\ IsObject(o) /\ IsRegion(o.ca) /\ Clauses(o.ca.at, o.nextVar)
  BY DEF Good, GoodBut, Region
<1>2. /\ LongLits(lits, o.nextVar) /\ lits[1] = o.ca.at[cr].lits[1] /\ lits[2] = o.ca.at[cr].lits[2]
      /\ \A j \in 2 .. Len(lits) : \E m \in 2 .. Len(o.ca.at[cr].lits) : lits[j] = o.ca.at[cr].lits[m]
  BY DEF Trimmed
<1>3. MayPut(o, cr, lits)
  BY <1>2 DEF MayPut, Shrunk
<1>4. GoodBut(t, strict)
  BY <1>1, <1>3, PutGood
<1>5. IsPut(o, cr, lits, t)
  BY <1>1, PutFields
<1>6. /\ t.watches = o.watches /\ t.nextVar = o.nextVar
      /\ t.ca.at = [o.ca.at EXCEPT ![cr] = [o.ca.at[cr] EXCEPT !.lits = lits]]
  BY <1>5 DEF IsPut, Same, Fields, OnlyCa
<1>7. Watched(t)
  <2> DEFINE c == o.ca.at[cr]
             c2 == [c EXCEPT !.lits = lits]
  <2>1. IsClause(c, o.nextVar)
    BY <1>1 DEF Clauses
  <2>2. c2.mark = c.mark /\ {c2.lits[1], c2.lits[2]} = {c.lits[1], c.lits[2]}
    BY <1>2, <2>1 DEF IsClause
  <2>3. t.ca.at = [o.ca.at EXCEPT ![cr] = c2]
    BY <1>6
  <2>4. Lists(o.watches.occs, o.watches.dirty, o.ca.at, o.nextVar)
    BY <1>1 DEF Watched
  <2> HIDE DEF c2
  <2>5. Lists(o.watches.occs, o.watches.dirty, t.ca.at, o.nextVar)
    <3> DEFINE f == o.watches.occs
               d == o.watches.dirty
               at == o.ca.at
               n == o.nextVar
    <3>1. Lists(f, d, at, n) /\ cr \in DOMAIN at /\ c2.mark = at[cr].mark
          /\ {c2.lits[1], c2.lits[2]} = {at[cr].lits[1], at[cr].lits[2]}
          /\ t.ca.at = [at EXCEPT ![cr] = c2]
      BY <2>2, <2>3, <2>4
    <3> HIDE DEF f, d, at, n
    <3>2. Lists(f, d, t.ca.at, n)
      BY <3>1, ListsKept
    <3> QED
      BY <3>2 DEF f, d, n
  <2> QED
    BY <1>6, <2>5 DEF Watched
<1> QED
  BY <1>4, <1>5, <1>7 DEF Good

SatisfiedRun(g, s0, cs) ==
    g[0] = [s |-> s0, kept |-> <<>>] /\ \A i \in 1 .. Len(cs) : g[i] = RemoveIfSatisfied(g[i - 1], cs[i])

\* The loop over a list of clauses runs.
LEMMA RemoveSatisfiedRuns ==
    ASSUME NEW s0, NEW cs, Len(cs) \in Nat
    PROVE  \E g : SatisfiedRun(g, s0, cs) /\ RemoveSatisfied(s0, cs) = g[Len(cs)]
<1> DEFINE n == Len(cs)
           x0 == [s |-> s0, kept |-> <<>>]
           loop[i \in 0 .. n] == IF i = 0 THEN x0 ELSE RemoveIfSatisfied(loop[i - 1], cs[i])
           S == {m \in Nat : \E g : g = [i \in 0 .. m |-> IF i = 0 THEN x0
                                                        ELSE RemoveIfSatisfied(g[i - 1], cs[i])]}
<1>1. RemoveSatisfied(s0, cs) = loop[n]
  BY DEF RemoveSatisfied
<1> HIDE DEF x0
<1>2. 0 \in S
  <2> DEFINE g == [i \in 0 .. 0 |-> x0]
  <2>1. g = [i \in 0 .. 0 |-> IF i = 0 THEN x0 ELSE RemoveIfSatisfied(g[i - 1], cs[i])]
    OBVIOUS
  <2> HIDE DEF g
  <2> QED
    BY <2>1
<1>3. ASSUME NEW m \in Nat, m \in S
      PROVE  m + 1 \in S
  <2>1. PICK g : g = [i \in 0 .. m |-> IF i = 0 THEN x0 ELSE RemoveIfSatisfied(g[i - 1], cs[i])]
    BY <1>3
  <2> DEFINE h == [i \in 0 .. m + 1 |-> IF i = m + 1 THEN RemoveIfSatisfied(g[m], cs[(m + 1)]) ELSE g[i]]
  <2>2. ASSUME NEW i \in 0 .. m + 1
        PROVE  h[i] = IF i = 0 THEN x0 ELSE RemoveIfSatisfied(h[i - 1], cs[i])
    <3>1. CASE i = m + 1
      <4>1. i - 1 = m /\ m \in 0 .. m + 1 /\ m # m + 1 /\ i # 0
        BY <3>1
      <4>2. h[i - 1] = g[m]
        BY <2>1, <4>1
      <4> QED
        BY <3>1, <4>1, <4>2
    <3>2. CASE i # m + 1
      <4>1. i \in 0 .. m
        BY <3>2
      <4>2. h[i] = g[i] /\ g[i] = IF i = 0 THEN x0 ELSE RemoveIfSatisfied(g[i - 1], cs[i])
        BY <2>1, <3>2, <4>1
      <4>3. CASE i # 0
        <5>1. i - 1 \in 0 .. m + 1 /\ i - 1 # m + 1
          BY <4>1, <4>3
        <5>2. h[i - 1] = g[i - 1]
          BY <5>1
        <5> QED
          BY <4>2, <4>3, <5>2
      <4> QED
        BY <4>2, <4>3
    <3> QED
      BY <3>1, <3>2
  <2>3. h = [i \in 0 .. m + 1 |-> IF i = 0 THEN x0 ELSE RemoveIfSatisfied(h[i - 1], cs[i])]
    <3>1. h = [i \in 0 .. m + 1 |-> h[i]]
      OBVIOUS
    <3> HIDE DEF h
    <3> QED
      BY <2>2, <3>1
  <2>4. \E k : k = [i \in 0 .. m + 1 |-> IF i = 0 THEN x0 ELSE RemoveIfSatisfied(k[i - 1], cs[i])]
    <3> HIDE DEF h
    <3> QED
      BY <2>3
  <2> QED
    BY <2>4
<1>4. n \in S
  <2> HIDE DEF S
  <2>1. Nat \subseteq S
    BY <1>2, <1>3, InductionOn
  <2> QED
    BY <2>1
<1>5. loop = [i \in 0 .. n |-> IF i = 0 THEN x0 ELSE RemoveIfSatisfied(loop[i - 1], cs[i])]
  <2>1. \E g : g = [i \in 0 .. n |-> IF i = 0 THEN x0 ELSE RemoveIfSatisfied(g[i - 1], cs[i])]
    BY <1>4
  <2>2. loop = CHOOSE g : g = [i \in 0 .. n |-> IF i = 0 THEN x0
                                              ELSE RemoveIfSatisfied(g[i - 1], cs[i])]
    BY DEF loop
  <2> HIDE DEF loop
  <2> QED
    BY <2>1, <2>2, Zenon
<1> HIDE DEF loop
<1>6. loop[0] = x0 /\ \A i \in 1 .. n : loop[i] = RemoveIfSatisfied(loop[i - 1], cs[i])
  <2>1. 0 \in 0 .. n /\ \A i \in 1 .. n : i \in 0 .. n /\ i # 0
    OBVIOUS
  <2> HIDE DEF n
  <2> QED
    BY <1>5, <2>1
<1>7. SatisfiedRun(loop, s0, cs)
  BY <1>6 DEF SatisfiedRun, x0
<1> QED
  BY <1>1, <1>7

\* What removeSatisfied leaves of an object o at the root.
SatisfiedGone(a, o, strict) ==
    /\ Good(a.s, strict) /\ Same(o, a.s, RemoveFields) /\ DOMAIN a.s.ca.at = DOMAIN o.ca.at
    /\ a.kept \in Seq(DOMAIN o.ca.at)

\* One clause is removed, or trimmed and kept.
LEMMA SatisfiedStep ==
    ASSUME NEW o, o.trailLim = <<>>, NEW strict, NEW a, SatisfiedGone(a, o, strict),
           NEW cr \in DOMAIN o.ca.at
    PROVE  SatisfiedGone(RemoveIfSatisfied(a, cr), o, strict)
<1> DEFINE s == a.s
<1>1. /\ Good(s, strict) /\ Same(o, s, RemoveFields) /\ DOMAIN s.ca.at = DOMAIN o.ca.at
      /\ a.kept \in Seq(DOMAIN o.ca.at)
  BY DEF SatisfiedGone
<1>2. s.trailLim = <<>> /\ cr \in DOMAIN s.ca.at
  BY <1>1 DEF Same, Fields, RemoveFields
<1>3. RemoveFields \subseteq RemoveFields /\ OnlyCa \subseteq RemoveFields
  BY DEF OnlyCa, RemoveFields
<1>4. CASE Satisfied(s, Lits(s, cr))
  <2> DEFINE t == RemoveClause(s, cr)
  <2>1. RemoveIfSatisfied(a, cr) = [s |-> t, kept |-> a.kept]
    BY <1>4 DEF RemoveIfSatisfied
  <2>2. MayRemove(s, cr, strict)
    BY <1>2 DEF MayRemove
  <2>3. t = RemoveClause(s, cr)
    OBVIOUS
  <2> HIDE DEF t, s
  <2>4. Good(t, strict) /\ ClauseRemoved(s, cr, t)
    BY <1>1, <2>2, <2>3, RemoveGood
  <2>5. Same(s, t, RemoveFields) /\ t.ca.at = Marked(s.ca.at, cr)
    BY <2>4 DEF ClauseRemoved
  <2>6. Same(o, t, RemoveFields)
    BY <1>1, <1>3, <2>5, SameTwice
  <2>7. DOMAIN t.ca.at = DOMAIN o.ca.at
    BY <1>1, <2>5 DEF Marked
  <2> QED
    BY <1>1, <2>1, <2>4, <2>6, <2>7 DEF SatisfiedGone
<1>5. CASE ~Satisfied(s, Lits(s, cr))
  <2> DEFINE lits == Trim(s, s.ca.at[cr].lits)
             t == Put(s, cr, lits)
  <2>1. RemoveIfSatisfied(a, cr) = [s |-> t, kept |-> Append(a.kept, cr)]
    BY <1>5 DEF RemoveIfSatisfied, Put, Lits
  <2>2. LongLits(s.ca.at[cr].lits, s.nextVar)
    BY <1>1, <1>2 DEF Good, GoodBut, Region, Clauses, IsClause
  <2>3. Trimmed(lits, s.ca.at[cr].lits, s.nextVar)
    BY <2>2, TrimKeeps
  <2>4. t = Put(s, cr, lits)
    OBVIOUS
  <2> HIDE DEF lits, t, s
  <2>5. Good(t, strict) /\ IsPut(s, cr, lits, t)
    BY <1>1, <1>2, <2>3, <2>4, TrimGood
  <2>6. Same(s, t, OnlyCa) /\ DOMAIN t.ca.at = DOMAIN s.ca.at
    BY <2>5 DEF IsPut
  <2>7. Same(o, t, RemoveFields)
    BY <1>1, <1>3, <2>6, SameTwice
  <2>8. Append(a.kept, cr) \in Seq(DOMAIN o.ca.at)
    BY <1>1, Appended
  <2> QED
    BY <1>1, <2>1, <2>5, <2>6, <2>7, <2>8 DEF SatisfiedGone
<1> QED
  BY <1>4, <1>5

\* removeSatisfied() keeps an object good, at the root.
LEMMA RemoveSatisfiedGood ==
    ASSUME NEW o, NEW strict, Good(o, strict), o.trailLim = <<>>, NEW cs \in Seq(DOMAIN o.ca.at)
    PROVE  SatisfiedGone(RemoveSatisfied(o, cs), o, strict)
<1>1. Len(cs) \in Nat /\ \A i \in 1 .. Len(cs) : cs[i] \in DOMAIN o.ca.at
  OBVIOUS
<1>2. PICK g : SatisfiedRun(g, o, cs) /\ RemoveSatisfied(o, cs) = g[Len(cs)]
  BY <1>1, RemoveSatisfiedRuns
<1> DEFINE S == {i \in Nat : i <= Len(cs) => SatisfiedGone(g[i], o, strict)}
<1>3. 0 \in S
  <2>1. g[0] = [s |-> o, kept |-> <<>>]
    BY <1>2 DEF SatisfiedRun
  <2>2. SatisfiedGone([s |-> o, kept |-> <<>>], o, strict)
    BY DEF SatisfiedGone, Same
  <2> QED
    BY <2>1, <2>2
<1>4. ASSUME NEW i \in Nat, i \in S
      PROVE  i + 1 \in S
  <2> SUFFICES ASSUME i + 1 <= Len(cs) PROVE SatisfiedGone(g[i + 1], o, strict)
    OBVIOUS
  <2>1. i + 1 \in 1 .. Len(cs) /\ (i + 1) - 1 = i /\ i <= Len(cs)
    BY <1>1
  <2>2. g[i + 1] = RemoveIfSatisfied(g[i], cs[i + 1])
    BY <1>2, <2>1 DEF SatisfiedRun
  <2>3. SatisfiedGone(g[i], o, strict)
    BY <1>4, <2>1
  <2>4. cs[i + 1] \in DOMAIN o.ca.at
    BY <1>1, <2>1
  <2>5. SatisfiedGone(RemoveIfSatisfied(g[i], cs[i + 1]), o, strict)
    BY <2>3, <2>4, SatisfiedStep
  <2> QED
    BY <2>2, <2>5
<1>5. Len(cs) \in S
  <2> HIDE DEF S
  <2> QED
    BY <1>1, <1>3, <1>4, InductionOn
<1> QED
  BY <1>1, <1>2, <1>5

-------------------------------------------------------------------------------
(* simplify(), up to the garbage collection.                                   *)

OnlyLists == {"clauses", "learnts"}

\* t is o with other lists of clauses.
Relisted(o, t) ==
    /\ IsObject(t) /\ Same(o, t, OnlyLists)
    /\ t.clauses \in Seq(DOMAIN o.ca.at) /\ t.learnts \in Seq(DOMAIN o.ca.at)

\* The lists of clauses may be any.
LEMMA RelistGood ==
    ASSUME NEW o, NEW strict, Good(o, strict), NEW t, Relisted(o, t)
    PROVE  Good(t, strict)
<1>1. /\ IsObject(t) /\ Same(o, t, OnlyLists)
      /\ t.clauses \in Seq(DOMAIN o.ca.at) /\ t.learnts \in Seq(DOMAIN o.ca.at)
  BY DEF Relisted
<1>2. /\ t.ca = o.ca /\ t.watches = o.watches
      /\ t.trail = o.trail /\ t.trailLim = o.trailLim /\ t.assigns = o.assigns
      /\ t.reason = o.reason /\ t.level = o.level /\ t.nextVar = o.nextVar /\ t.qhead = o.qhead
      /\ t.releasedVars = o.releasedVars /\ t.freeVars = o.freeVars /\ t.decision = o.decision
      /\ t.ok = o.ok /\ t.useSimp = o.useSimp
  BY <1>1 DEF Same, Fields, OnlyLists
<1>3. Types(t)
  BY <1>2 DEF Good, GoodBut, Types
<1> QED
  BY <1>1, <1>2, <1>3 DEF Good, GoodBut, Watched

RecycleFields == {"trail", "qhead", "freeVars", "releasedVars"}

\* The literals of the trail whose variables were not released.
Unreleased(o) == {p \in ToSet(o.trail) : VarOf(p) \notin ToSet(o.releasedVars)}

IsRecycled(o, t) ==
    /\ IsObject(t) /\ Same(o, t, RecycleFields)
    /\ t.trail = Only(o.trail, Unreleased(o)) /\ t.qhead = Len(t.trail)
    /\ t.freeVars = o.freeVars \o o.releasedVars /\ t.releasedVars = <<>>

\* The fields simplify() writes when it recycles released variables
\* (Solver.cc:656-677).
LEMMA RecycledFields ==
    ASSUME NEW o, IsObject(o)
    PROVE  IsRecycled(o, Recycle(o))
BY DEF Recycle, IsRecycled, IsObject, Fields, Same, RecycleFields, Unreleased

\* What is left of a sequence: each member from a position of its own.
LeftOf(new, q, S) ==
    /\ DOMAIN new = 1 .. Len(new) /\ Len(new) \in Nat
    /\ Range(new) = Range(q) \intersect S
    /\ \E at \in [DOMAIN new -> DOMAIN q] : /\ \A i \in DOMAIN new : new[i] = q[at[i]]
                                            /\ \A i, j \in DOMAIN new : i < j => at[i] < at[j]

\* A sequence filtered: its elements are those in the set, in their order.
LEMMA OnlyLeft ==
    ASSUME NEW X, NEW q \in Seq(X), NEW S
    PROVE  Only(q, S) \in Seq(X) /\ LeftOf(Only(q, S), q, S)
<1>1. /\ Only(q, S) \in Seq(X)
      /\ Range(Only(q, S)) = Range(q) \intersect S
      /\ \E at \in [DOMAIN Only(q, S) -> DOMAIN q] :
                /\ \A i \in DOMAIN Only(q, S) : Only(q, S)[i] = q[at[i]]
                /\ \A i, j \in DOMAIN Only(q, S) : i < j => at[i] < at[j]
  BY OnlyFacts
<1>2. DOMAIN Only(q, S) = 1 .. Len(Only(q, S)) /\ Len(Only(q, S)) \in Nat
  BY <1>1
<1> QED
  BY <1>1, <1>2 DEF LeftOf

\* What comes first of a concatenation, and what comes next.
Joins(c, a, b) ==
    \A i \in DOMAIN c : \/ i \in DOMAIN a /\ c[i] = a[i]
                        \/ i \notin DOMAIN a /\ i - Len(a) \in DOMAIN b /\ c[i] = b[i - Len(a)]

\* Where the elements of two joined sequences are.
LEMMA Concatenated ==
    ASSUME NEW X, NEW a \in Seq(X), NEW b \in Seq(X)
    PROVE  Joins(a \o b, a, b)
<1>1. Len(a) \in Nat /\ Len(b) \in Nat /\ DOMAIN a = 1 .. Len(a) /\ DOMAIN b = 1 .. Len(b)
      /\ DOMAIN (a \o b) = 1 .. Len(a) + Len(b)
  OBVIOUS
<1>2. \A i \in 1 .. Len(a) + Len(b) :
        (a \o b)[i] = IF i <= Len(a) THEN a[i] ELSE b[i - Len(a)]
  OBVIOUS
<1> QED
  BY <1>1, <1>2 DEF Joins

\* At the root: released variables leave the trail and are free.
LEMMA RecycleGood ==
    ASSUME NEW o, NEW strict, Good(o, strict), o.trailLim = <<>>, o.ok, NEW t, IsRecycled(o, t)
    PROVE  Good(t, strict)
<1> DEFINE n == o.nextVar
           S == Unreleased(o)
<1>1. /\ IsObject(t) /\ Same(o, t, RecycleFields)
      /\ t.trail = Only(o.trail, S) /\ t.qhead = Len(t.trail)
      /\ t.freeVars = o.freeVars \o o.releasedVars /\ t.releasedVars = <<>>
  BY DEF IsRecycled
<1>2. /\ t.ca = o.ca /\ t.watches = o.watches /\ t.clauses = o.clauses /\ t.learnts = o.learnts
      /\ t.trailLim = <<>> /\ t.assigns = o.assigns
      /\ t.reason = o.reason /\ t.level = o.level /\ t.nextVar = n
      /\ t.decision = o.decision /\ t.ok = o.ok /\ t.useSimp = o.useSimp
  BY <1>1 DEF Same, Fields, RecycleFields
<1>3. /\ GoodBut(o, strict) /\ Watched(o) /\ Types(o) /\ n \in Nat /\ o.trail \in Seq(LitsOf(n))
      /\ o.freeVars \in Seq(VarsUpTo(n)) /\ o.releasedVars \in Seq(VarsUpTo(n))
      /\ DOMAIN o.assigns = VarsUpTo(n)
  BY DEF Good, GoodBut, Types
<1>4. TrailRight(o.trail, <<>>, o.assigns, o.level) /\ Free(o.freeVars, o.assigns, o.trail)
      /\ Reasons(o.trail, <<>>, o.reason, o.level, o.assigns, o.ca.at, strict)
      /\ Released(o.releasedVars, o.freeVars, o.assigns, o.level)
  BY <1>3 DEF GoodBut
<1> HIDE DEF n, S
<1>5. t.trail \in Seq(LitsOf(n)) /\ LeftOf(t.trail, o.trail, S)
  <2>1. Only(o.trail, S) \in Seq(LitsOf(n)) /\ LeftOf(Only(o.trail, S), o.trail, S)
    BY <1>3, OnlyLeft
  <2> QED
    BY <1>1, <2>1
<1>6. PICK at \in [DOMAIN t.trail -> DOMAIN o.trail] :
            /\ \A i \in DOMAIN t.trail : t.trail[i] = o.trail[at[i]]
            /\ \A i, j \in DOMAIN t.trail : i < j => at[i] < at[j]
  BY <1>5 DEF LeftOf
<1>7. DOMAIN t.trail = 1 .. Len(t.trail) /\ Len(t.trail) \in Nat
      /\ Range(t.trail) = Range(o.trail) \intersect S
  BY <1>5 DEF LeftOf
<1>8. \A i \in DOMAIN t.trail : at[i] \in DOMAIN o.trail
  BY <1>6
<1>9. \A i \in DOMAIN o.trail : o.level[VarOf(o.trail[i])] = 0
  <2> SUFFICES ASSUME NEW i \in DOMAIN o.trail PROVE o.level[VarOf(o.trail[i])] = 0
    OBVIOUS
  <2>1. AtLevel(o.level[VarOf(o.trail[i])], <<>>, i)
    BY <1>4 DEF TrailRight
  <2> QED
    BY <2>1 DEF AtLevel
<1>10. TrailRight(t.trail, <<>>, o.assigns, o.level)
  <2>1. ASSUME NEW i \in DOMAIN t.trail
        PROVE  Val(o.assigns, t.trail[i]) = LTrue /\ AtLevel(o.level[VarOf(t.trail[i])], <<>>, i)
    <3>1. Val(o.assigns, o.trail[at[i]]) = LTrue
      BY <1>4, <1>8 DEF TrailRight
    <3>2. o.level[VarOf(t.trail[i])] = 0
      BY <1>6, <1>8, <1>9
    <3> QED
      BY <1>6, <3>1, <3>2 DEF AtLevel
  <2>2. OnceOn(t.trail)
    <3> SUFFICES ASSUME NEW i \in DOMAIN t.trail, NEW j \in DOMAIN t.trail,
                        VarOf(t.trail[i]) = VarOf(t.trail[j])
                 PROVE  i = j
      BY DEF OnceOn
    <3>1. at[i] = at[j]
      BY <1>4, <1>6, <1>8 DEF TrailRight, OnceOn
    <3>2. i \in Nat /\ j \in Nat /\ at[i] \in Nat
      BY <1>3, <1>7, <1>8
    <3>3. ~(at[i] < at[j]) /\ ~(at[j] < at[i])
      BY <3>1, <3>2
    <3>4. ~(i < j) /\ ~(j < i)
      BY <1>6, <3>3
    <3> QED
      BY <3>2, <3>4
  <2>3. ASSUME NEW v \in DOMAIN o.assigns, o.assigns[v] # LUndef
        PROVE  o.level[v] = 0
    <3>1. o.level[v] = 0 \/ OnTrail(o.trail, v)
      BY <1>4, <2>3 DEF TrailRight
    <3> QED
      BY <1>9, <3>1 DEF OnTrail
  <2>4. Limits(<<>>, Len(t.trail))
    BY DEF Limits
  <2> QED
    BY <2>1, <2>2, <2>3, <2>4 DEF TrailRight
<1>11. Reasons(t.trail, <<>>, o.reason, o.level, o.assigns, o.ca.at, strict)
  <2> SUFFICES ASSUME NEW i \in DOMAIN t.trail, NEW cr, cr = o.reason[VarOf(t.trail[i])]
               PROVE  /\ cr # CRefUndef => IsReason(cr, t.trail[i], o.ca.at)
                      /\ strict => InOrder(i, <<>>, t.trail, o.level, o.assigns, cr, o.ca.at)
    BY DEF Reasons
  <2>1. t.trail[i] = o.trail[at[i]] /\ at[i] \in DOMAIN o.trail
    BY <1>6, <1>8
  <2>2. cr # CRefUndef => IsReason(cr, o.trail[at[i]], o.ca.at)
    BY <1>4, <2>1 DEF Reasons
  <2>3. o.level[VarOf(t.trail[i])] = 0
    BY <1>9, <2>1
  <2> QED
    BY <2>1, <2>2, <2>3 DEF InOrder
<1>12. \A v \in ToSet(o.releasedVars) : ~OnTrail(t.trail, v)
  <2> SUFFICES ASSUME NEW v \in ToSet(o.releasedVars), NEW i \in DOMAIN t.trail, VarOf(t.trail[i]) = v
               PROVE  FALSE
    BY DEF OnTrail
  <2>1. t.trail[i] \in Range(t.trail)
    BY DEF Range
  <2>2. t.trail[i] \in S
    BY <1>7, <2>1
  <2> QED
    BY <2>2 DEF S, Unreleased
<1>13. t.freeVars \in Seq(VarsUpTo(n)) /\ Free(t.freeVars, o.assigns, t.trail)
  <2> DEFINE a == o.freeVars
             b == o.releasedVars
  <2>1. a \in Seq(VarsUpTo(n)) /\ b \in Seq(VarsUpTo(n)) /\ t.freeVars = a \o b
        /\ Distinct(a) /\ Distinct(b) /\ \A k \in DOMAIN b : b[k] \notin Range(a)
    BY <1>1, <1>3, <1>4 DEF Free, Released
  <2>2. \A k \in DOMAIN a : o.assigns[a[k]] # LUndef /\ ~OnTrail(t.trail, a[k])
    <3> SUFFICES ASSUME NEW k \in DOMAIN a PROVE o.assigns[a[k]] # LUndef /\ ~OnTrail(t.trail, a[k])
      OBVIOUS
    <3>1. o.assigns[a[k]] # LUndef /\ ~OnTrail(o.trail, a[k])
      BY <1>4 DEF Free
    <3>2. ~OnTrail(t.trail, a[k])
      BY <1>6, <1>8, <3>1 DEF OnTrail
    <3> QED
      BY <3>1, <3>2
  <2>3. \A k \in DOMAIN b : o.assigns[b[k]] # LUndef /\ ~OnTrail(t.trail, b[k])
    <3> SUFFICES ASSUME NEW k \in DOMAIN b PROVE o.assigns[b[k]] # LUndef /\ ~OnTrail(t.trail, b[k])
      OBVIOUS
    <3>1. b[k] \in ToSet(b) /\ o.assigns[b[k]] # LUndef
      BY <1>4 DEF Released, ToSet
    <3> QED
      BY <1>12, <3>1
  <2> HIDE DEF a, b
  <2>4. \A i \in DOMAIN (a \o b) :
          \/ i \in DOMAIN a /\ (a \o b)[i] = a[i]
          \/ i \notin DOMAIN a /\ i - Len(a) \in DOMAIN b /\ (a \o b)[i] = b[i - Len(a)]
    <3>1. Joins(a \o b, a, b)
      BY <2>1, Concatenated
    <3> QED
      BY <3>1 DEF Joins
  <2>5. Distinct(a \o b)
    <3> SUFFICES ASSUME NEW i \in DOMAIN (a \o b), NEW j \in DOMAIN (a \o b), (a \o b)[i] = (a \o b)[j]
                 PROVE  i = j
      BY DEF Distinct
    <3>1. i \in Int /\ j \in Int /\ Len(a) \in Nat
      BY <2>1
    <3>2. \A h \in DOMAIN a : \A k \in DOMAIN b : a[h] # b[k]
      BY <2>1 DEF Range
    <3>3. CASE i \in DOMAIN a
      BY <2>1, <2>4, <3>2, <3>3 DEF Distinct
    <3>4. CASE i \notin DOMAIN a
      <4>1. j \notin DOMAIN a
        BY <2>4, <3>2, <3>4
      <4>2. i - Len(a) = j - Len(a)
        BY <2>1, <2>4, <3>4, <4>1 DEF Distinct
      <4> QED
        BY <3>1, <4>2
    <3> QED
      BY <3>3, <3>4
  <2>6. a \o b \in Seq(VarsUpTo(n))
    BY <2>1
  <2>7. \A i \in DOMAIN (a \o b) : o.assigns[(a \o b)[i]] # LUndef /\ ~OnTrail(t.trail, (a \o b)[i])
    BY <2>2, <2>3, <2>4
  <2> QED
    BY <2>1, <2>5, <2>6, <2>7 DEF Free
<1>14. Released(<<>>, t.freeVars, o.assigns, o.level)
  BY DEF Released, Distinct
<1>15. Types(t)
  BY <1>1, <1>2, <1>3, <1>5, <1>7, <1>13 DEF Types, n
<1>16. /\ IsRegion(t.ca) /\ Region(t.ca, n) /\ IsOccLists(t.watches, n)
       /\ t.clauses \in Seq(DOMAIN t.ca.at) /\ t.learnts \in Seq(DOMAIN t.ca.at)
  BY <1>2, <1>3 DEF GoodBut, Region, n
<1>17. GoodBut(t, strict)
  BY <1>1, <1>2, <1>10, <1>11, <1>13, <1>14, <1>15, <1>16 DEF GoodBut
<1> QED
  BY <1>2, <1>3, <1>17 DEF Good, Watched, n

\* The fields that cleaning the clause database changes.
CleanFields == RemoveFields \union OnlyLists \union RecycleFields

\* What is left of an object at the root that is not in conflict.
Cleaned(o, t, strict) == Idling(t, strict) /\ t.ok /\ Same(o, t, CleanFields)

\* The learnt clauses that are not satisfied are kept.
LEMMA WithLearntsGood ==
    ASSUME NEW o, NEW strict, Idling(o, strict), o.ok, NEW a, SatisfiedGone(a, o, strict)
    PROVE  Cleaned(o, WithLearnts(a), strict)
<1> DEFINE t == WithLearnts(a)
<1>1. Good(a.s, strict) /\ Same(o, a.s, RemoveFields) /\ DOMAIN a.s.ca.at = DOMAIN o.ca.at
      /\ a.kept \in Seq(DOMAIN o.ca.at)
  BY DEF SatisfiedGone
<1>2. IsObject(a.s) /\ a.s.clauses \in Seq(DOMAIN a.s.ca.at)
  BY <1>1 DEF Good, GoodBut
<1>3. IsObject(t) /\ Same(a.s, t, OnlyLists) /\ t.learnts = a.kept /\ t.clauses = a.s.clauses
      /\ t.trail = a.s.trail /\ t.qhead = a.s.qhead
  BY <1>2 DEF WithLearnts, IsObject, Fields, Same, OnlyLists
<1>4. Relisted(a.s, t)
  BY <1>1, <1>2, <1>3 DEF Relisted
<1> HIDE DEF t
<1>5. Good(t, strict)
  BY <1>1, <1>4, RelistGood
<1>6. RemoveFields \subseteq CleanFields /\ OnlyLists \subseteq CleanFields
  BY DEF CleanFields
<1>7. Same(o, t, CleanFields)
  BY <1>1, <1>3, <1>6, SameTwice
<1>8. t.trailLim = o.trailLim /\ t.ok = o.ok
  BY <1>7 DEF Same, Fields, CleanFields, RemoveFields, OnlyLists, RecycleFields
<1>9. a.s.trail = o.trail /\ a.s.qhead = o.qhead
  BY <1>1 DEF Same, Fields, RemoveFields
<1> QED
  BY <1>3, <1>5, <1>7, <1>8, <1>9 DEF Cleaned, Idling, AtRoot, Propagated, t

\* The original clauses that are not satisfied are kept.
LEMMA WithClausesGood ==
    ASSUME NEW o, NEW strict, Idling(o, strict), o.ok, NEW a, SatisfiedGone(a, o, strict)
    PROVE  Cleaned(o, WithClauses(a), strict)
<1> DEFINE t == WithClauses(a)
<1>1. Good(a.s, strict) /\ Same(o, a.s, RemoveFields) /\ DOMAIN a.s.ca.at = DOMAIN o.ca.at
      /\ a.kept \in Seq(DOMAIN o.ca.at)
  BY DEF SatisfiedGone
<1>2. IsObject(a.s) /\ a.s.learnts \in Seq(DOMAIN a.s.ca.at)
  BY <1>1 DEF Good, GoodBut
<1>3. IsObject(t) /\ Same(a.s, t, OnlyLists) /\ t.clauses = a.kept /\ t.learnts = a.s.learnts
      /\ t.trail = a.s.trail /\ t.qhead = a.s.qhead
  BY <1>2 DEF WithClauses, IsObject, Fields, Same, OnlyLists
<1>4. Relisted(a.s, t)
  BY <1>1, <1>2, <1>3 DEF Relisted
<1> HIDE DEF t
<1>5. Good(t, strict)
  BY <1>1, <1>4, RelistGood
<1>6. RemoveFields \subseteq CleanFields /\ OnlyLists \subseteq CleanFields
  BY DEF CleanFields
<1>7. Same(o, t, CleanFields)
  BY <1>1, <1>3, <1>6, SameTwice
<1>8. t.trailLim = o.trailLim /\ t.ok = o.ok
  BY <1>7 DEF Same, Fields, CleanFields, RemoveFields, OnlyLists, RecycleFields
<1>9. a.s.trail = o.trail /\ a.s.qhead = o.qhead
  BY <1>1 DEF Same, Fields, RemoveFields
<1> QED
  BY <1>3, <1>5, <1>7, <1>8, <1>9 DEF Cleaned, Idling, AtRoot, Propagated, t

\* Cleaning after cleaning.
LEMMA CleanedTwice ==
    ASSUME NEW o, NEW t, NEW u, NEW strict, Cleaned(o, t, strict), Cleaned(t, u, strict)
    PROVE  Cleaned(o, u, strict)
<1>1. Same(o, t, CleanFields) /\ Same(t, u, CleanFields) /\ CleanFields \subseteq CleanFields
  BY DEF Cleaned
<1>2. Same(o, u, CleanFields)
  BY <1>1, SameTwice
<1> QED
  BY <1>2 DEF Cleaned

\* Released variables are recycled.
LEMMA RecycleCleans ==
    ASSUME NEW o, NEW strict, Idling(o, strict), o.ok
    PROVE  Cleaned(o, Recycle(o), strict)
<1> DEFINE t == Recycle(o)
<1>1. Good(o, strict) /\ o.trailLim = <<>>
  BY DEF Idling, AtRoot
<1>2. IsObject(o)
  BY <1>1 DEF Good, GoodBut
<1>3. IsRecycled(o, t)
  BY <1>2, RecycledFields
<1> HIDE DEF t
<1>4. Good(t, strict)
  BY <1>1, <1>3, RecycleGood
<1>5. Same(o, t, RecycleFields) /\ t.qhead = Len(t.trail)
  BY <1>3 DEF IsRecycled
<1>6. t.trailLim = o.trailLim /\ t.ok = o.ok
  BY <1>5 DEF Same, Fields, RecycleFields
<1>7. Same(o, t, CleanFields)
  BY <1>5 DEF Same, CleanFields
<1> QED
  BY <1>1, <1>4, <1>5, <1>6, <1>7 DEF Cleaned, Idling, AtRoot, Propagated, t

\* The clean-up of the clause database keeps an object good.
LEMMA CleanClausesGood ==
    ASSUME NEW o, NEW strict, Idling(o, strict), o.ok
    PROVE  Cleaned(o, CleanClauses(o), strict)
<1> DEFINE t == WithLearnts(RemoveSatisfied(o, o.learnts))
           u == WithClauses(RemoveSatisfied(t, t.clauses))
<1>1. Good(o, strict) /\ o.trailLim = <<>> /\ o.learnts \in Seq(DOMAIN o.ca.at)
  BY DEF Idling, AtRoot, Good, GoodBut
<1>2. SatisfiedGone(RemoveSatisfied(o, o.learnts), o, strict)
  BY <1>1, RemoveSatisfiedGood
<1>3. Cleaned(o, t, strict)
  BY <1>2, WithLearntsGood
<1>4. CleanClauses(o) = IF t.removeSatisfied THEN Recycle(u) ELSE t
  BY DEF CleanClauses, CleanOriginals
<1> HIDE DEF t
<1>5. Idling(t, strict) /\ t.ok
  BY <1>3 DEF Cleaned
<1>6. Good(t, strict) /\ t.trailLim = <<>> /\ t.clauses \in Seq(DOMAIN t.ca.at)
  BY <1>5 DEF Idling, AtRoot, Good, GoodBut
<1>7. SatisfiedGone(RemoveSatisfied(t, t.clauses), t, strict)
  BY <1>6, RemoveSatisfiedGood
<1>8. Cleaned(t, u, strict)
  BY <1>5, <1>7, WithClausesGood
<1> HIDE DEF u
<1>9. Idling(u, strict) /\ u.ok
  BY <1>8 DEF Cleaned
<1>10. Cleaned(u, Recycle(u), strict)
  BY <1>9, RecycleCleans
<1>11. Cleaned(o, Recycle(u), strict)
  <2>1. Cleaned(o, u, strict)
    BY <1>3, <1>8, CleanedTwice
  <2> QED
    BY <1>10, <2>1, CleanedTwice
<1> QED
  BY <1>3, <1>4, <1>11

-------------------------------------------------------------------------------
(* Moving the clauses to another region.                                       *)

\* b is the region ca with clause c at its end.
IsPutAt(ca, c, b) ==
    IsRegion(b) /\ b.size \in Nat /\ b.size > ca.size /\ IsUpdated(ca.at, ca.size, c, b.at)

\* What a clause copied into a region changes (SolverTypes.h:256-261).
LEMMA PutAtFields ==
    ASSUME NEW ca, IsRegion(ca), ca.size \in Nat, NEW c, Len(c.lits) \in Nat
    PROVE  IsPutAt(ca, c, PutClause(ca, c))
<1> DEFINE w == ClauseWord32Size(Len(c.lits), c.extra)
           new == Updated(ca.at, ca.size, c)
           b == [ca EXCEPT !.at = new, !.size = @ + w]
<1>1. PutClause(ca, c) = b
  BY DEF PutClause
<1>2. w \in Nat /\ w > 0
  <2>1. \A l \in Nat : \A x : ClauseWord32Size(l, x) \in Nat /\ ClauseWord32Size(l, x) > 0
    <3> TAKE l \in Nat
    <3> TAKE x
    <3>1. CASE x
      BY <3>1 DEF ClauseWord32Size
    <3>2. CASE ~x
      BY <3>2 DEF ClauseWord32Size
    <3> QED
      BY <3>1, <3>2
  <2> QED
    BY <2>1
<1> HIDE DEF w, new
<1>3. b.at = new /\ b.size = ca.size + w /\ IsRegion(b)
  <2>1. b = [ca EXCEPT !.at = new, !.size = @ + w]
    OBVIOUS
  <2> HIDE DEF b
  <2> QED
    BY <2>1 DEF IsRegion
<1> HIDE DEF b
<1>4. IsUpdated(ca.at, ca.size, c, b.at)
  <2>1. IsUpdated(ca.at, ca.size, c, new)
    BY UpdatedIs DEF new
  <2> QED
    BY <1>3, <2>1
<1>5. b.size \in Nat /\ b.size > ca.size
  BY <1>2, <1>3
<1>6. IsPutAt(ca, c, b)
  BY <1>3, <1>4, <1>5 DEF IsPutAt
<1> QED
  BY <1>1, <1>6

\* Clause c is at k of at.
AsMoved(c, at, k) == k \in DOMAIN at /\ at[k].lits = c.lits /\ at[k].mark = c.mark

\* r is a relocation of clauses of at: each has a place of its own.
Relocation(at, r, n) ==
    /\ r = [to |-> r.to, moved |-> r.moved] /\ Region(r.to, n)
    /\ DOMAIN r.moved \subseteq DOMAIN at
    /\ \A cr \in DOMAIN r.moved : AsMoved(at[cr], r.to.at, r.moved[cr])
    /\ \A cr, cs \in DOMAIN r.moved : r.moved[cr] = r.moved[cs] => cr = cs

\* The relocation goes on: what was moved stays so.
Further(at, r, r2, n) == Relocation(at, r2, n) /\ DOMAIN r.moved \subseteq DOMAIN r2.moved

\* A clause is moved unless it was before.
LEMMA RelocStep ==
    ASSUME NEW ca, NEW n, Clauses(ca.at, n), NEW r, Relocation(ca.at, r, n), NEW cr \in DOMAIN ca.at
    PROVE  Further(ca.at, r, Reloc(ca, r, cr), n) /\ cr \in DOMAIN Reloc(ca, r, cr).moved
<1>1. CASE cr \in DOMAIN r.moved
  BY <1>1 DEF Reloc, Further
<1>2. CASE cr \notin DOMAIN r.moved
  <2> DEFINE keeps == ca.at[cr].learnt \/ r.to.extra
             abs2 == IF keeps THEN ca.at[cr].abs ELSE {}
             c == [ca.at[cr] EXCEPT !.extra = keeps, !.abs = abs2]
             k == r.to.size
             b == PutClause(r.to, c)
             m == Updated(r.moved, cr, k)
             r2 == [to |-> b, moved |-> m]
  <2>1. Reloc(ca, r, cr) = r2
    BY <1>2 DEF Reloc
  <2>2. IsClause(ca.at[cr], n)
    BY DEF Clauses
  <2> HIDE DEF keeps, abs2
  <2>3. c.lits = ca.at[cr].lits /\ c.mark = ca.at[cr].mark /\ IsClause(c, n)
    <3> DEFINE c0 == ca.at[cr]
    <3>1. IsClause(c0, n) /\ c = [c0 EXCEPT !.extra = keeps, !.abs = abs2]
      BY <2>2
    <3> HIDE DEF c0, c
    <3>2. c.lits = c0.lits /\ c.mark = c0.mark /\ IsClause(c, n)
      BY <3>1 DEF IsClause
    <3> QED
      BY <3>2 DEF c0
  <2>4. Len(c.lits) \in Nat
    BY <2>3 DEF IsClause, LongLits
  <2> HIDE DEF c
  <2>5. /\ IsRegion(r.to) /\ r.to.size \in Nat
        /\ DOMAIN r.to.at \subseteq 0 .. r.to.size - 1 /\ Clauses(r.to.at, n)
    BY DEF Relocation, Region
  <2>6. IsPutAt(r.to, c, b)
    BY <2>4, <2>5, PutAtFields
  <2>7. IsUpdated(r.moved, cr, k, m)
    BY UpdatedIs
  <2> HIDE DEF b, m
  <2>8. /\ IsRegion(b) /\ b.size \in Nat /\ b.size > k
        /\ DOMAIN b.at = DOMAIN r.to.at \union {k} /\ b.at[k] = c
        /\ \A j \in DOMAIN r.to.at : j # k => b.at[j] = r.to.at[j]
    BY <2>6 DEF IsPutAt, IsUpdated
  <2>9. /\ DOMAIN m = DOMAIN r.moved \union {cr} /\ m[cr] = k
        /\ \A j \in DOMAIN r.moved : m[j] = r.moved[j]
    BY <1>2, <2>7 DEF IsUpdated
  <2>10. k \notin DOMAIN r.to.at /\ k \in Nat
    BY <2>5
  <2> HIDE DEF k
  <2>11. Region(b, n)
    <3>1. DOMAIN b.at \subseteq 0 .. b.size - 1
      BY <2>5, <2>8, <2>10 DEF k
    <3>2. Clauses(b.at, n)
      BY <2>3, <2>5, <2>8 DEF Clauses
    <3> QED
      BY <2>8, <3>1, <3>2 DEF Region
  <2>12. \A j \in DOMAIN m : AsMoved(ca.at[j], b.at, m[j])
    <3> SUFFICES ASSUME NEW j \in DOMAIN m PROVE AsMoved(ca.at[j], b.at, m[j])
      OBVIOUS
    <3>1. CASE j = cr
      BY <2>3, <2>8, <2>9, <3>1 DEF AsMoved
    <3>2. CASE j # cr
      <4>1. j \in DOMAIN r.moved /\ m[j] = r.moved[j]
        BY <2>9, <3>2
      <4>2. AsMoved(ca.at[j], r.to.at, r.moved[j])
        BY <4>1 DEF Relocation
      <4> QED
        BY <2>8, <2>10, <4>1, <4>2 DEF AsMoved
    <3> QED
      BY <3>1, <3>2
  <2>13. \A i, j \in DOMAIN m : m[i] = m[j] => i = j
    <3>1. \A j \in DOMAIN r.moved : m[j] = r.moved[j] /\ r.moved[j] # k
      <4> SUFFICES ASSUME NEW j \in DOMAIN r.moved PROVE m[j] = r.moved[j] /\ r.moved[j] # k
        OBVIOUS
      <4>1. AsMoved(ca.at[j], r.to.at, r.moved[j])
        BY DEF Relocation
      <4> QED
        BY <2>9, <2>10, <4>1 DEF AsMoved
    <3>2. \A i, j \in DOMAIN r.moved : r.moved[i] = r.moved[j] => i = j
      BY DEF Relocation
    <3> QED
      BY <2>9, <3>1, <3>2
  <2>14. DOMAIN m \subseteq DOMAIN ca.at
    BY <2>9 DEF Relocation
  <2>15. r2.to = b /\ r2.moved = m
    OBVIOUS
  <2>16. Relocation(ca.at, r2, n)
    <3>1. r2 = [to |-> r2.to, moved |-> r2.moved]
      OBVIOUS
    <3> HIDE DEF r2
    <3> QED
      BY <2>11, <2>12, <2>13, <2>14, <2>15, <3>1 DEF Relocation
  <2> HIDE DEF r2
  <2> QED
    BY <2>1, <2>9, <2>15, <2>16 DEF Further
<1> QED
  BY <1>1, <1>2

RelocRun(g, ca, r, crs) == g[0] = r /\ \A i \in 1 .. Len(crs) : g[i] = Reloc(ca, g[i - 1], crs[i])

\* The loop over the references runs.
LEMMA RelocRuns ==
    ASSUME NEW ca, NEW r, NEW crs, Len(crs) \in Nat
    PROVE  \E g : RelocRun(g, ca, r, crs) /\ RelocAllOf(ca, r, crs) = g[Len(crs)]
<1> DEFINE n == Len(crs)
           x0 == r
           loop[i \in 0 .. n] == IF i = 0 THEN x0 ELSE Reloc(ca, loop[i - 1], crs[i])
           S == {m \in Nat : \E g : g = [i \in 0 .. m |-> IF i = 0 THEN x0
                                                        ELSE Reloc(ca, g[i - 1], crs[i])]}
<1>1. RelocAllOf(ca, r, crs) = loop[n]
  BY DEF RelocAllOf
<1> HIDE DEF x0
<1>2. 0 \in S
  <2> DEFINE g == [i \in 0 .. 0 |-> x0]
  <2>1. g = [i \in 0 .. 0 |-> IF i = 0 THEN x0 ELSE Reloc(ca, g[i - 1], crs[i])]
    OBVIOUS
  <2> HIDE DEF g
  <2> QED
    BY <2>1
<1>3. ASSUME NEW m \in Nat, m \in S
      PROVE  m + 1 \in S
  <2>1. PICK g : g = [i \in 0 .. m |-> IF i = 0 THEN x0 ELSE Reloc(ca, g[i - 1], crs[i])]
    BY <1>3
  <2> DEFINE h == [i \in 0 .. m + 1 |-> IF i = m + 1 THEN Reloc(ca, g[m], crs[(m + 1)]) ELSE g[i]]
  <2>2. ASSUME NEW i \in 0 .. m + 1
        PROVE  h[i] = IF i = 0 THEN x0 ELSE Reloc(ca, h[i - 1], crs[i])
    <3>1. CASE i = m + 1
      <4>1. i - 1 = m /\ m \in 0 .. m + 1 /\ m # m + 1 /\ i # 0
        BY <3>1
      <4>2. h[i - 1] = g[m]
        BY <2>1, <4>1
      <4> QED
        BY <3>1, <4>1, <4>2
    <3>2. CASE i # m + 1
      <4>1. i \in 0 .. m
        BY <3>2
      <4>2. h[i] = g[i] /\ g[i] = IF i = 0 THEN x0 ELSE Reloc(ca, g[i - 1], crs[i])
        BY <2>1, <3>2, <4>1
      <4>3. CASE i # 0
        <5>1. i - 1 \in 0 .. m + 1 /\ i - 1 # m + 1
          BY <4>1, <4>3
        <5>2. h[i - 1] = g[i - 1]
          BY <5>1
        <5> QED
          BY <4>2, <4>3, <5>2
      <4> QED
        BY <4>2, <4>3
    <3> QED
      BY <3>1, <3>2
  <2>3. h = [i \in 0 .. m + 1 |-> IF i = 0 THEN x0 ELSE Reloc(ca, h[i - 1], crs[i])]
    <3>1. h = [i \in 0 .. m + 1 |-> h[i]]
      OBVIOUS
    <3> HIDE DEF h
    <3> QED
      BY <2>2, <3>1
  <2>4. \E k : k = [i \in 0 .. m + 1 |-> IF i = 0 THEN x0 ELSE Reloc(ca, k[i - 1], crs[i])]
    <3> HIDE DEF h
    <3> QED
      BY <2>3
  <2> QED
    BY <2>4
<1>4. n \in S
  <2> HIDE DEF S
  <2>1. Nat \subseteq S
    BY <1>2, <1>3, InductionOn
  <2> QED
    BY <2>1
<1>5. loop = [i \in 0 .. n |-> IF i = 0 THEN x0 ELSE Reloc(ca, loop[i - 1], crs[i])]
  <2>1. \E g : g = [i \in 0 .. n |-> IF i = 0 THEN x0 ELSE Reloc(ca, g[i - 1], crs[i])]
    BY <1>4
  <2>2. loop = CHOOSE g : g = [i \in 0 .. n |-> IF i = 0 THEN x0
                                              ELSE Reloc(ca, g[i - 1], crs[i])]
    BY DEF loop
  <2> HIDE DEF loop
  <2> QED
    BY <2>1, <2>2, Zenon
<1> HIDE DEF loop
<1>6. loop[0] = x0 /\ \A i \in 1 .. n : loop[i] = Reloc(ca, loop[i - 1], crs[i])
  <2>1. 0 \in 0 .. n /\ \A i \in 1 .. n : i \in 0 .. n /\ i # 0
    OBVIOUS
  <2> HIDE DEF n
  <2> QED
    BY <1>5, <2>1
<1>7. RelocRun(loop, ca, r, crs)
  BY <1>6 DEF RelocRun, x0
<1> QED
  BY <1>1, <1>7

\* All the clauses of a sequence are moved.
MovedAll(at, r, crs, r2, n) ==
    Further(at, r, r2, n) /\ \A i \in DOMAIN crs : crs[i] \in DOMAIN r2.moved

\* A sequence of clauses relocated one by one: each once, and to where all its
\* readers go.
LEMMA RelocAllMoves ==
    ASSUME NEW ca, NEW n, Clauses(ca.at, n), NEW r, Relocation(ca.at, r, n),
           NEW crs \in Seq(DOMAIN ca.at)
    PROVE  MovedAll(ca.at, r, crs, RelocAllOf(ca, r, crs), n)
<1>1. Len(crs) \in Nat /\ DOMAIN crs = 1 .. Len(crs) /\ \A i \in 1 .. Len(crs) : crs[i] \in DOMAIN ca.at
  OBVIOUS
<1>2. PICK g : RelocRun(g, ca, r, crs) /\ RelocAllOf(ca, r, crs) = g[Len(crs)]
  BY <1>1, RelocRuns
<1> DEFINE P(i) == /\ Further(ca.at, r, g[i], n)
                   /\ \A j \in 1 .. Len(crs) : j <= i => crs[j] \in DOMAIN g[i].moved
           S == {i \in Nat : i <= Len(crs) => P(i)}
<1>3. 0 \in S
  <2>1. g[0] = r
    BY <1>2 DEF RelocRun
  <2>2. \A j \in 1 .. Len(crs) : ~(j <= 0)
    BY <1>1
  <2> QED
    BY <2>1, <2>2 DEF Further
<1>4. ASSUME NEW i \in Nat, i \in S
      PROVE  i + 1 \in S
  <2> SUFFICES ASSUME i + 1 <= Len(crs) PROVE P(i + 1)
    OBVIOUS
  <2>1. i + 1 \in 1 .. Len(crs) /\ (i + 1) - 1 = i /\ i <= Len(crs)
    BY <1>1
  <2>2. g[i + 1] = Reloc(ca, g[i], crs[i + 1])
    BY <1>2, <2>1 DEF RelocRun
  <2>3. P(i)
    BY <1>4, <2>1
  <2>4. crs[i + 1] \in DOMAIN ca.at
    BY <1>1, <2>1
  <2>5. Relocation(ca.at, g[i], n)
    BY <2>3 DEF Further
  <2>6. Further(ca.at, g[i], g[i + 1], n) /\ crs[i + 1] \in DOMAIN g[i + 1].moved
    BY <2>2, <2>4, <2>5, RelocStep
  <2>7. \A j \in 1 .. Len(crs) : j <= i + 1 => j <= i \/ j = i + 1
    BY <1>1
  <2>8. \A j \in 1 .. Len(crs) : j <= i + 1 => crs[j] \in DOMAIN g[i + 1].moved
    BY <2>3, <2>6, <2>7 DEF Further
  <2> QED
    BY <2>3, <2>6, <2>8 DEF Further
<1>5. Len(crs) \in S
  <2> HIDE DEF S
  <2> QED
    BY <1>1, <1>3, <1>4, InductionOn
<1>6. P(Len(crs))
  BY <1>1, <1>5
<1> QED
  BY <1>1, <1>2, <1>6 DEF MovedAll

-------------------------------------------------------------------------------
(* Garbage collection.                                                         *)

\* ws2 are the lists of ws, all clean.
AllClean(ws2, at, n) == IsOccLists(ws2, n) /\ ws2.dirty = {} /\ Lists(ws2.occs, {}, at, n)

\* cleanAll() leaves no watcher of a removed clause in any list
\* (SolverTypes.h:360-367).
LEMMA CleanAllCleans ==
    ASSUME NEW n, NEW ws, IsOccLists(ws, n), NEW at, Lists(ws.occs, ws.dirty, at, n),
           NEW deleted, Deletes(deleted, ws, at)
    PROVE  AllClean(CleanAll(ws, deleted), at, n)
<1> DEFINE cleaned(p) == IF p \in ws.dirty THEN Present(ws.occs[p], deleted) ELSE ws.occs[p]
           u == CleanAll(ws, deleted)
<1>1. ws.occs = [p \in LitsOf(n) |-> ws.occs[p]]
  BY DEF IsOccLists
<1>2. DOMAIN ws.occs = LitsOf(n)
  BY <1>1
<1>3. u = [occs |-> [p \in LitsOf(n) |-> cleaned(p)], dirty |-> {}]
  BY <1>2 DEF CleanAll
<1> HIDE DEF u
<1>4. u.dirty = {} /\ u.occs = [p \in LitsOf(n) |-> cleaned(p)] /\ u = [occs |-> u.occs, dirty |-> u.dirty]
  BY <1>3
<1>5. ASSUME NEW p \in LitsOf(n)
      PROVE  WatchList(p, u.occs[p], {}, at)
  <2>1. WatchList(p, ws.occs[p], ws.dirty, at) /\ u.occs[p] = cleaned(p)
    BY <1>4 DEF Lists
  <2>2. CASE p \in ws.dirty
    <3> DEFINE q == ws.occs[p]
    <3>1. \A i \in DOMAIN q : at[q[i].cref].mark = 1 => q[i] \in deleted
      BY <2>2 DEF Deletes
    <3>2. WatchList(p, q, ws.dirty, at) /\ u.occs[p] = Present(q, deleted)
      BY <2>1, <2>2
    <3> HIDE DEF q
    <3>3. WatchList(p, Present(q, deleted), {}, at)
      BY <3>1, <3>2, ListCleaned
    <3> QED
      BY <3>2, <3>3
  <2>3. CASE p \notin ws.dirty
    <3> DEFINE q == ws.occs[p]
    <3>1. WatchList(p, q, ws.dirty, at) /\ u.occs[p] = q
      BY <2>1, <2>3
    <3> HIDE DEF q
    <3>2. \A i \in DOMAIN q : Watches(p, at[q[i].cref], ws.dirty)
      BY <3>1 DEF WatchList
    <3>3. \A i \in DOMAIN q : Watches(p, at[q[i].cref], {})
      BY <2>3, <3>2 DEF Watches
    <3>4. WatchList(p, q, {}, at)
      BY <3>1, <3>3 DEF WatchList
    <3> QED
      BY <3>1, <3>4
  <2> QED
    BY <2>2, <2>3
<1>6. IsOccLists(u, n)
  <2>1. u.occs = [p \in LitsOf(n) |-> u.occs[p]]
    BY <1>4
  <2> QED
    BY <1>4, <2>1 DEF IsOccLists
<1> QED
  BY <1>4, <1>5, <1>6 DEF AllClean, Lists, u

\* The lists of watchers that follow a relocation.
FollowList(q, r) == [j \in DOMAIN q |-> Watcher(r.moved[q[j].cref], q[j].blocker)]
FollowLists(ws, r) == [ws EXCEPT !.occs = [p \in DOMAIN @ |-> FollowList(@[p], r)]]
FollowReasons(reason, vs, r) ==
    [v \in DOMAIN reason |-> IF v \in vs THEN r.moved[reason[v]] ELSE reason[v]]

MoveFields == {"ca", "watches", "reason", "learnts", "clauses"}

IsFollowed(o, vs, r, t) ==
    /\ IsObject(t) /\ Same(o, t, MoveFields)
    /\ t.ca = r.to /\ t.watches = FollowLists(o.watches, r)
    /\ t.reason = FollowReasons(o.reason, vs, r)
    /\ t.learnts = MovedTo(r, o.learnts) /\ t.clauses = MovedTo(r, o.clauses)

\* The fields of an object whose references follow a relocation.
LEMMA FollowedFields ==
    ASSUME NEW o, IsObject(o), NEW n, IsOccLists(o.watches, n), NEW vs, NEW r
    PROVE  IsFollowed(o, vs, r, Follow(o, vs, r))
<1> DEFINE f == [p \in DOMAIN o.watches.occs |-> FollowList(o.watches.occs[p], r)]
           g == FollowReasons(o.reason, vs, r)
           l == MovedTo(r, o.learnts)
           c == MovedTo(r, o.clauses)
           t == [o EXCEPT !.ca = r.to, !.watches.occs = f, !.reason = g, !.learnts = l, !.clauses = c]
<1>1. Follow(o, vs, r) = t
  BY DEF Follow, FollowReasons, FollowList
<1>2. FollowLists(o.watches, r) = [o.watches EXCEPT !.occs = f]
  BY DEF FollowLists
<1> HIDE DEF f, g, l, c
<1>3. /\ IsObject(t) /\ Same(o, t, MoveFields) /\ t.ca = r.to /\ t.reason = g /\ t.learnts = l
      /\ t.clauses = c /\ t.watches = [o.watches EXCEPT !.occs = f]
  BY DEF IsObject, Fields, Same, MoveFields
<1> HIDE DEF t
<1>4. IsFollowed(o, vs, r, t)
  BY <1>2, <1>3 DEF IsFollowed, g, l, c
<1> QED
  BY <1>1, <1>4

\* A list follows a relocation that moved its clauses.
LEMMA ListFollows ==
    ASSUME NEW at, NEW r, NEW n, Relocation(at, r, n), NEW p, NEW q, WatchList(p, q, {}, at),
           \A i \in DOMAIN q : q[i].cref \in DOMAIN r.moved
    PROVE  WatchList(p, FollowList(q, r), {}, r.to.at)
<1> DEFINE q2 == FollowList(q, r)
<1>1. q \in Seq(WatchersIn(at))
  BY DEF WatchList
<1>2. DOMAIN q2 = DOMAIN q /\ DOMAIN q = 1 .. Len(q) /\ Len(q) \in Nat
  BY <1>1 DEF FollowList
<1>3. ASSUME NEW i \in DOMAIN q
      PROVE  /\ q2[i].cref = r.moved[q[i].cref] /\ q2[i] \in WatchersIn(r.to.at)
             /\ AsMoved(at[q[i].cref], r.to.at, q2[i].cref)
  <2>1. q2[i] = [cref |-> r.moved[q[i].cref], blocker |-> q[i].blocker]
    BY DEF FollowList, Watcher
  <2>2. AsMoved(at[q[i].cref], r.to.at, r.moved[q[i].cref])
    BY DEF Relocation
  <2>3. q[i] \in WatchersIn(at)
    BY <1>1
  <2>4. q[i].blocker \in Int
    BY <2>3 DEF WatchersIn
  <2> QED
    BY <2>1, <2>2, <2>4 DEF AsMoved, WatchersIn
<1>4. q2 \in Seq(WatchersIn(r.to.at))
  <2>1. q2 = [i \in 1 .. Len(q) |-> q2[i]]
    BY <1>2 DEF FollowList
  <2> HIDE DEF q2
  <2> QED
    BY <1>2, <1>3, <2>1
<1> HIDE DEF q2
<1>5. \A i \in DOMAIN q2 : Watches(p, r.to.at[q2[i].cref], {})
  <2> SUFFICES ASSUME NEW i \in DOMAIN q PROVE Watches(p, r.to.at[q2[i].cref], {})
    BY <1>2
  <2>1. Watches(p, at[q[i].cref], {})
    BY DEF WatchList
  <2>2. AsMoved(at[q[i].cref], r.to.at, q2[i].cref)
    BY <1>3
  <2> QED
    BY <2>1, <2>2 DEF AsMoved, Watches
<1>6. \A i, j \in DOMAIN q2 : q2[i].cref = q2[j].cref => i = j \/ r.to.at[q2[i].cref].mark = 1
  <2> SUFFICES ASSUME NEW i \in DOMAIN q, NEW j \in DOMAIN q, q2[i].cref = q2[j].cref
               PROVE  i = j \/ r.to.at[q2[i].cref].mark = 1
    BY <1>2
  <2>1. r.moved[q[i].cref] = r.moved[q[j].cref]
    BY <1>3
  <2>2. q[i].cref = q[j].cref
    BY <2>1 DEF Relocation
  <2>3. i = j \/ at[q[i].cref].mark = 1
    BY <2>2 DEF WatchList
  <2>4. AsMoved(at[q[i].cref], r.to.at, q2[i].cref)
    BY <1>3
  <2> QED
    BY <2>3, <2>4 DEF AsMoved
<1> QED
  BY <1>4, <1>5, <1>6 DEF WatchList, q2

\* Every list of watchers follows.
LEMMA ListsFollow ==
    ASSUME NEW at, NEW r, NEW n, Relocation(at, r, n), NEW ws, IsOccLists(ws, n),
           ws.dirty = {}, Lists(ws.occs, {}, at, n),
           \A p \in LitsOf(n) : \A i \in DOMAIN ws.occs[p] : ws.occs[p][i].cref \in DOMAIN r.moved,
           NEW u, u = FollowLists(ws, r)
    PROVE  IsOccLists(u, n) /\ u.dirty = {} /\ Lists(u.occs, u.dirty, r.to.at, n)
<1> DEFINE f == [p \in LitsOf(n) |-> FollowList(ws.occs[p], r)]
<1>1. ws = [occs |-> ws.occs, dirty |-> ws.dirty] /\ ws.occs = [p \in LitsOf(n) |-> ws.occs[p]]
  BY DEF IsOccLists
<1>2. DOMAIN ws.occs = LitsOf(n)
  BY <1>1
<1>3. u = [ws EXCEPT !.occs = f]
  BY <1>2 DEF FollowLists
<1>4. \A p \in LitsOf(n) : f[p] = FollowList(ws.occs[p], r)
  OBVIOUS
<1>5. f = [p \in LitsOf(n) |-> f[p]]
  OBVIOUS
<1> HIDE DEF f
<1>6. u.occs = f /\ u.dirty = {} /\ u = [occs |-> u.occs, dirty |-> u.dirty]
  BY <1>1, <1>3
<1>7. IsOccLists(u, n)
  BY <1>5, <1>6 DEF IsOccLists
<1>8. ASSUME NEW p \in LitsOf(n)
      PROVE  WatchList(p, u.occs[p], {}, r.to.at)
  <2> DEFINE q == ws.occs[p]
  <2>1. WatchList(p, q, {}, at) /\ \A i \in DOMAIN q : q[i].cref \in DOMAIN r.moved
    BY DEF Lists
  <2>2. u.occs[p] = FollowList(q, r)
    BY <1>4, <1>6
  <2> HIDE DEF q
  <2>3. WatchList(p, FollowList(q, r), {}, r.to.at)
    BY <2>1, ListFollows
  <2> QED
    BY <2>2, <2>3
<1> QED
  BY <1>6, <1>7, <1>8 DEF Lists

\* vs are the variables of the trail with a reason, and the reasons were moved.
Follows(trail, reason, vs, r) ==
    /\ \A i \in DOMAIN trail : reason[VarOf(trail[i])] # CRefUndef =>
         VarOf(trail[i]) \in vs /\ reason[VarOf(trail[i])] \in DOMAIN r.moved
    /\ \A v \in vs : reason[v] # CRefUndef /\ reason[v] \in DOMAIN r.moved

\* The reasons follow.
LEMMA ReasonsFollow ==
    ASSUME NEW n, NEW at, NEW r, Relocation(at, r, n), NEW trail \in Seq(LitsOf(n)), NEW lim, NEW reason,
           DOMAIN reason = VarsUpTo(n), n \in Nat,
           NEW level, NEW assigns, NEW strict, Reasons(trail, lim, reason, level, assigns, at, strict),
           NEW vs, Follows(trail, reason, vs, r), NEW rs, rs = FollowReasons(reason, vs, r)
    PROVE  Reasons(trail, lim, rs, level, assigns, r.to.at, strict)
<1> SUFFICES ASSUME NEW i \in DOMAIN trail, NEW v, v = VarOf(trail[i])
             PROVE  /\ rs[v] # CRefUndef => IsReason(rs[v], trail[i], r.to.at)
                    /\ strict => InOrder(i, lim, trail, level, assigns, rs[v], r.to.at)
  BY DEF Reasons
<1>1. trail[i] \in LitsOf(n)
  OBVIOUS
<1>2. v \in VarsUpTo(n)
  BY <1>1, LitFacts
<1>3. rs[v] = IF v \in vs THEN r.moved[reason[v]] ELSE reason[v]
  BY <1>2 DEF FollowReasons
<1>4. /\ reason[v] # CRefUndef => IsReason(reason[v], trail[i], at)
      /\ strict => InOrder(i, lim, trail, level, assigns, reason[v], at)
  BY DEF Reasons
<1>5. CASE reason[v] = CRefUndef
  <2>1. v \notin vs
    BY <1>5 DEF Follows
  <2>2. rs[v] = CRefUndef
    BY <1>3, <1>5, <2>1
  <2> QED
    BY <1>4, <1>5, <2>2 DEF InOrder
<1>6. CASE reason[v] # CRefUndef
  <2> DEFINE old == reason[v]
             new == r.moved[old]
  <2>1. rs[v] = new /\ old \in DOMAIN r.moved
    BY <1>3, <1>6 DEF Follows
  <2>2. AsMoved(at[old], r.to.at, new)
    BY <2>1 DEF Relocation
  <2>3. new # CRefUndef
    <3>1. new \in 0 .. r.to.size - 1 /\ r.to.size \in Nat
      BY <2>2 DEF AsMoved, Relocation, Region
    <3> QED
      BY <3>1 DEF CRefUndef
  <2> HIDE DEF new
  <2>4. IsReason(new, trail[i], r.to.at)
    BY <1>4, <1>6, <2>2 DEF IsReason, AsMoved
  <2>5. at[old].lits = r.to.at[new].lits
    BY <2>2 DEF AsMoved
  <2>6. strict => InOrder(i, lim, trail, level, assigns, new, r.to.at)
    BY <1>4, <1>6, <2>3, <2>5 DEF InOrder
  <2> QED
    BY <2>1, <2>4, <2>6
<1> QED
  BY <1>5, <1>6

\* The references of a sequence follow.
LEMMA MovedSeq ==
    ASSUME NEW at, NEW r, NEW n, Relocation(at, r, n), NEW q, q \in Seq(DOMAIN at),
           \A i \in DOMAIN q : q[i] \in DOMAIN r.moved
    PROVE  MovedTo(r, q) \in Seq(DOMAIN r.to.at)
<1>1. ASSUME NEW i \in DOMAIN q
      PROVE  r.moved[q[i]] \in DOMAIN r.to.at
  <2>1. AsMoved(at[q[i]], r.to.at, r.moved[q[i]])
    BY DEF Relocation
  <2> QED
    BY <2>1 DEF AsMoved
<1>2. DOMAIN q = 1 .. Len(q) /\ Len(q) \in Nat
  OBVIOUS
<1>3. MovedTo(r, q) = [i \in 1 .. Len(q) |-> r.moved[q[i]]]
  BY <1>2 DEF MovedTo
<1> QED
  BY <1>1, <1>2, <1>3

\* All that refers to clauses of o refers to clauses that r moved.
MovedFor(o, vs, r) ==
    /\ Relocation(o.ca.at, r, o.nextVar)
    /\ \A p \in LitsOf(o.nextVar) : \A i \in DOMAIN o.watches.occs[p] :
          o.watches.occs[p][i].cref \in DOMAIN r.moved
    /\ Follows(o.trail, o.reason, vs, r)
    /\ \A i \in DOMAIN o.clauses : o.clauses[i] \in DOMAIN r.moved
    /\ \A i \in DOMAIN o.learnts : o.learnts[i] \in DOMAIN r.moved

\* An object whose references follow a relocation stays good.
LEMMA FollowGood ==
    ASSUME NEW o, NEW strict, Good(o, strict), o.watches.dirty = {}, NEW vs, NEW r, MovedFor(o, vs, r),
           NEW t, t = Follow(o, vs, r)
    PROVE  Good(t, strict) /\ Same(o, t, MoveFields)
<1> DEFINE n == o.nextVar
           at == o.ca.at
<1>1. /\ GoodBut(o, strict) /\ Watched(o) /\ IsObject(o) /\ IsOccLists(o.watches, n) /\ Types(o)
      /\ o.clauses \in Seq(DOMAIN at) /\ o.learnts \in Seq(DOMAIN at)
      /\ Reasons(o.trail, o.trailLim, o.reason, o.level, o.assigns, at, strict)
  BY DEF Good, GoodBut
<1>2. /\ Relocation(at, r, n) /\ Follows(o.trail, o.reason, vs, r)
      /\ \A p \in LitsOf(n) : \A i \in DOMAIN o.watches.occs[p] :
            o.watches.occs[p][i].cref \in DOMAIN r.moved
      /\ \A i \in DOMAIN o.clauses : o.clauses[i] \in DOMAIN r.moved
      /\ \A i \in DOMAIN o.learnts : o.learnts[i] \in DOMAIN r.moved
  BY DEF MovedFor
<1> HIDE DEF n, at
<1>3. IsFollowed(o, vs, r, t)
  BY <1>1, FollowedFields
<1>4. /\ IsObject(t) /\ Same(o, t, MoveFields)
      /\ t.ca = r.to /\ t.watches = FollowLists(o.watches, r)
      /\ t.reason = FollowReasons(o.reason, vs, r)
      /\ t.learnts = MovedTo(r, o.learnts) /\ t.clauses = MovedTo(r, o.clauses)
  BY <1>3 DEF IsFollowed
<1>5. /\ t.trail = o.trail /\ t.trailLim = o.trailLim /\ t.assigns = o.assigns /\ t.level = o.level
      /\ t.nextVar = o.nextVar /\ t.qhead = o.qhead /\ t.freeVars = o.freeVars
      /\ t.releasedVars = o.releasedVars /\ t.decision = o.decision /\ t.ok = o.ok /\ t.useSimp = o.useSimp
  BY <1>4 DEF Same, Fields, MoveFields
<1>6. /\ n \in Nat /\ o.trail \in Seq(LitsOf(n)) /\ o.reason \in [VarsUpTo(n) -> Refs]
      /\ DOMAIN o.reason = VarsUpTo(n)
  BY <1>1 DEF Types, n
<1>7. IsOccLists(t.watches, n) /\ Lists(t.watches.occs, t.watches.dirty, r.to.at, n)
  <2>1. Lists(o.watches.occs, {}, at, n)
    BY <1>1 DEF Watched, at, n
  <2> QED
    BY <1>1, <1>2, <1>4, <2>1, ListsFollow
<1>8. Reasons(o.trail, o.trailLim, t.reason, o.level, o.assigns, r.to.at, strict)
  BY <1>1, <1>2, <1>4, <1>6, ReasonsFollow
<1>9. MovedTo(r, o.learnts) \in Seq(DOMAIN r.to.at)
  BY <1>1, <1>2, MovedSeq
<1>10. MovedTo(r, o.clauses) \in Seq(DOMAIN r.to.at)
  BY <1>1, <1>2, MovedSeq
<1>11. t.reason \in [VarsUpTo(n) -> Refs]
  <2>1. ASSUME NEW v \in VarsUpTo(n)
        PROVE  (IF v \in vs THEN r.moved[o.reason[v]] ELSE o.reason[v]) \in Refs
    <3>1. CASE v \in vs
      <4>1. o.reason[v] \in DOMAIN r.moved
        BY <1>2, <3>1 DEF Follows
      <4>2. AsMoved(at[o.reason[v]], r.to.at, r.moved[o.reason[v]])
        BY <1>2, <4>1 DEF Relocation
      <4>3. r.moved[o.reason[v]] \in 0 .. r.to.size - 1 /\ r.to.size \in Nat
        BY <1>2, <4>2 DEF AsMoved, Relocation, Region
      <4> QED
        BY <3>1, <4>3 DEF Refs
    <3>2. CASE v \notin vs
      BY <1>6, <3>2
    <3> QED
      BY <3>1, <3>2
  <2> QED
    BY <1>4, <1>6, <2>1 DEF FollowReasons
<1>12. Types(t)
  BY <1>1, <1>5, <1>11 DEF Types, n
<1>13. Region(t.ca, n)
  BY <1>2, <1>4 DEF Relocation
<1>14. /\ TrailRight(t.trail, t.trailLim, t.assigns, t.level) /\ Free(t.freeVars, t.assigns, t.trail)
       /\ (t.ok => Released(t.releasedVars, t.freeVars, t.assigns, t.level))
  BY <1>1, <1>5 DEF GoodBut
<1>15. GoodBut(t, strict)
  BY <1>4, <1>5, <1>7, <1>8, <1>9, <1>10, <1>12, <1>13, <1>14 DEF GoodBut, n
<1> QED
  BY <1>4, <1>5, <1>7, <1>15 DEF Good, Watched, n

\* The watched clauses are clauses, and all of them are listed.
WatchingAll(o, crs) ==
    /\ crs \in Seq(DOMAIN o.ca.at)
    /\ \A p \in LitsOf(o.nextVar) : \A i \in DOMAIN o.watches.occs[p] :
          o.watches.occs[p][i].cref \in Range(crs)

\* relocAll() visits every clause that is watched (Solver.cc:1012-1019).
LEMMA WatchingIsAll ==
    ASSUME NEW o, NEW strict, Good(o, strict)
    PROVE  WatchingAll(o, Watching(o))
<1> DEFINE n == o.nextVar
           occs == o.watches.occs
           at == o.ca.at
           crefs(p) == [j \in DOMAIN occs[p] |-> occs[p][j].cref]
           f == [p \in DOMAIN occs |-> crefs(p)]
           keys == Keys(2 * n)
           lists == [i \in 1 .. Len(keys) |-> f[keys[i]]]
<1>1. Watching(o) = FlattenSeq(lists)
  BY DEF Watching, Concat
<1>2. /\ n \in Nat /\ occs = [p \in LitsOf(n) |-> occs[p]]
      /\ \A p \in LitsOf(n) : WatchList(p, occs[p], o.watches.dirty, at)
  BY DEF Good, GoodBut, Types, IsOccLists, Watched, Lists
<1>3. DOMAIN occs = LitsOf(n)
  BY <1>2
<1>4. \A p \in LitsOf(n) : occs[p] \in Seq(WatchersIn(at))
  BY <1>2 DEF WatchList
<1> HIDE DEF n, occs, at
<1>5. ASSUME NEW p \in LitsOf(n)
      PROVE  crefs(p) \in Seq(DOMAIN at) /\ \A j \in DOMAIN occs[p] : occs[p][j].cref \in Range(crefs(p))
  <2> DEFINE q == occs[p]
  <2>1. q \in Seq(WatchersIn(at))
    BY <1>4
  <2> HIDE DEF q
  <2>2. DOMAIN q = 1 .. Len(q) /\ Len(q) \in Nat /\ \A j \in DOMAIN q : q[j] \in WatchersIn(at)
    BY <2>1
  <2>3. \A j \in DOMAIN q : q[j].cref \in DOMAIN at
    BY <2>2 DEF WatchersIn
  <2> DEFINE c == [j \in DOMAIN q |-> q[j].cref]
  <2>4. c \in Seq(DOMAIN at)
    BY <2>2, <2>3
  <2>5. \A j \in DOMAIN q : q[j].cref \in Range(c)
    BY DEF Range
  <2> QED
    BY <2>4, <2>5 DEF q
<1> HIDE DEF crefs
<1>6. keys = [i \in 1 .. 2 * n |-> i - 1]
  BY DEF Keys
<1>7. Len(keys) = 2 * n /\ 2 * n \in Nat
  BY <1>2, <1>6
<1> HIDE DEF keys
<1>8. \A i \in 1 .. 2 * n : keys[i] = i - 1 /\ keys[i] \in LitsOf(n)
  BY <1>2, <1>6 DEF LitsOf
<1>9. \A p \in LitsOf(n) : f[p] = crefs(p)
  BY <1>3
<1> HIDE DEF f
<1>10. lists \in Seq(Seq(DOMAIN at)) /\ DOMAIN lists = 1 .. 2 * n
       /\ \A i \in 1 .. 2 * n : lists[i] = crefs(keys[i])
  BY <1>5, <1>7, <1>8, <1>9
<1> HIDE DEF lists
<1>11. /\ FlattenSeq(lists) \in Seq(DOMAIN at)
       /\ \A x : x \in Range(FlattenSeq(lists)) <=> \E i \in DOMAIN lists : x \in Range(lists[i])
  BY <1>10, FlattenMembers
<1>12. ASSUME NEW p \in LitsOf(n), NEW j \in DOMAIN occs[p]
       PROVE  occs[p][j].cref \in Range(FlattenSeq(lists))
  <2>1. p + 1 \in 1 .. 2 * n /\ (p + 1) - 1 = p
    BY <1>2 DEF LitsOf
  <2>2. keys[p + 1] = p
    BY <1>8, <2>1
  <2>3. lists[p + 1] = crefs(p) /\ p + 1 \in DOMAIN lists
    BY <1>10, <2>1, <2>2
  <2>4. occs[p][j].cref \in Range(crefs(p))
    BY <1>5
  <2> QED
    BY <1>11, <2>3, <2>4
<1> QED
  BY <1>1, <1>11, <1>12 DEF WatchingAll, n, occs, at

\* The reasons that are moved after the watched clauses.
RestReasons(s, vs) ==
    LET on == Only(s.trail, {p \in ToSet(s.trail) : VarOf(p) \in vs})
    IN  [i \in DOMAIN on |-> ReasonOf(s, on[i])]

\* vs are variables of the trail with a reason.
HaveReasons(o, vs) ==
    \A v \in vs : /\ o.reason[v] # CRefUndef
                  /\ \E i \in DOMAIN o.trail : VarOf(o.trail[i]) = v

RestIsAll(o, vs, crs) ==
    /\ crs \in Seq(DOMAIN o.ca.at)
    /\ \A i \in DOMAIN o.trail : VarOf(o.trail[i]) \in vs => o.reason[VarOf(o.trail[i])] \in Range(crs)

\* relocAll() visits every reason that is left (Solver.cc:1021-1032).
LEMMA RestReasonsAll ==
    ASSUME NEW o, NEW strict, GoodBut(o, strict), NEW vs, HaveReasons(o, vs)
    PROVE  RestIsAll(o, vs, RestReasons(o, vs))
<1> DEFINE trail == o.trail
           S == {p \in ToSet(trail) : VarOf(p) \in vs}
           on == Only(trail, S)
           crs == [i \in DOMAIN on |-> ReasonOf(o, on[i])]
<1>1. RestReasons(o, vs) = crs
  BY DEF RestReasons
<1>2. trail \in Seq(LitsOf(o.nextVar))
  BY KernelTypes
<1>3. \A i \in DOMAIN trail : o.reason[VarOf(trail[i])] # CRefUndef
                                => IsReason(o.reason[VarOf(trail[i])], trail[i], o.ca.at)
  BY DEF GoodBut, Reasons
<1> HIDE DEF trail
<1>4. \A x : x \in Range(trail) <=> \E i \in DOMAIN trail : trail[i] = x
  BY DEF Range
<1>5. ToSet(trail) = Range(trail)
  BY DEF ToSet, Range
<1>6. on \in Seq(LitsOf(o.nextVar)) /\ LeftOf(on, trail, S)
  BY <1>2, OnlyLeft
<1>7. on \in Seq(LitsOf(o.nextVar)) /\ Range(on) = Range(trail) \intersect S /\ DOMAIN on = 1 .. Len(on)
      /\ Len(on) \in Nat
  BY <1>6 DEF LeftOf
<1> HIDE DEF on
<1>8. \A x : x \in Range(on) <=> \E i \in DOMAIN on : on[i] = x
  BY DEF Range
<1>9. ASSUME NEW i \in DOMAIN on
      PROVE  ReasonOf(o, on[i]) \in DOMAIN o.ca.at
  <2>1. on[i] \in S
    BY <1>7, <1>8
  <2>2. PICK k \in DOMAIN trail : trail[k] = on[i]
    BY <1>4, <1>5, <2>1 DEF S
  <2>3. VarOf(trail[k]) \in vs
    BY <2>1, <2>2 DEF S
  <2>4. o.reason[VarOf(trail[k])] # CRefUndef
    BY <2>3 DEF HaveReasons
  <2>5. IsReason(o.reason[VarOf(trail[k])], trail[k], o.ca.at)
    BY <1>3, <2>4
  <2> QED
    BY <2>2, <2>5 DEF IsReason, ReasonOf
<1>10. crs \in Seq(DOMAIN o.ca.at)
  BY <1>7, <1>9
<1>11. ASSUME NEW i \in DOMAIN trail, VarOf(trail[i]) \in vs
       PROVE  o.reason[VarOf(trail[i])] \in Range(crs)
  <2>1. trail[i] \in Range(trail)
    BY <1>4
  <2>2. trail[i] \in S
    BY <1>5, <1>11, <2>1
  <2>3. PICK k \in DOMAIN on : on[k] = trail[i]
    BY <1>7, <1>8, <2>1, <2>2
  <2>4. crs[k] = o.reason[VarOf(trail[i])] /\ k \in DOMAIN crs
    BY <2>3 DEF ReasonOf
  <2> QED
    BY <2>4 DEF Range
<1> QED
  BY <1>1, <1>10, <1>11 DEF RestIsAll, trail

\* A relocation begins with an empty region.
LEMMA NoRelocation ==
    ASSUME NEW at, NEW n, NEW extra
    PROVE  Relocation(at, NoReloc(extra), n)
<1> DEFINE r == NoReloc(extra)
<1>1. r.moved = <<>> /\ r.to = [at |-> <<>>, size |-> 0, wasted |-> 0, extra |-> extra]
      /\ r = [to |-> r.to, moved |-> r.moved]
  BY DEF NoReloc, EmptyRegion
<1> HIDE DEF r
<1>2. DOMAIN r.moved = {} /\ r.to.at = <<>> /\ DOMAIN r.to.at = {} /\ r.to.size = 0 /\ IsRegion(r.to)
  BY <1>1 DEF IsRegion
<1>3. Region(r.to, n)
  BY <1>2 DEF Region, Clauses
<1> QED
  BY <1>1, <1>2, <1>3 DEF Relocation, r

\* The variables of the trail with a reason.
ReasonVars(o) == {v \in VarsOf(o.trail) : o.reason[v] # CRefUndef}

\* All reasons of the trail are in use.
LEMMA AllReasonsKept ==
    ASSUME NEW o, NEW strict, GoodBut(o, strict), NEW r
    PROVE  KeptReasons(o, r) = ReasonVars(o)
<1>1. ASSUME NEW v \in VarsOf(o.trail), o.reason[v] # CRefUndef
      PROVE  Locked(o, o.reason[v])
  <2>1. PICK i \in DOMAIN o.trail : v = VarOf(o.trail[i])
    BY DEF VarsOf
  <2> QED
    BY <1>1, <2>1, ReasonLocked
<1> QED
  BY <1>1 DEF KeptReasons, ReasonVars

\* The rest of a relocation: all reasons, then the lists of clauses.
LEMMA RestMoves ==
    ASSUME NEW o, NEW strict, Good(o, strict), NEW r, Relocation(o.ca.at, r, o.nextVar),
           \A p \in LitsOf(o.nextVar) : \A i \in DOMAIN o.watches.occs[p] :
              o.watches.occs[p][i].cref \in DOMAIN r.moved,
           NEW vs, vs = ReasonVars(o),
           NEW crs, crs = RestReasons(o, vs) \o o.learnts \o o.clauses
    PROVE  MovedFor(o, vs, RelocAllOf(o.ca, r, crs))
<1> DEFINE at == o.ca.at
           a == RestReasons(o, vs)
           b == o.learnts
           c == o.clauses
           r2 == RelocAllOf(o.ca, r, crs)
<1>1. GoodBut(o, strict) /\ Clauses(at, o.nextVar) /\ b \in Seq(DOMAIN at) /\ c \in Seq(DOMAIN at)
  BY DEF Good, GoodBut, Region
<1>2. HaveReasons(o, vs)
  BY DEF HaveReasons, ReasonVars, VarsOf
<1>3. RestIsAll(o, vs, a)
  BY <1>1, <1>2, RestReasonsAll
<1>4. a \in Seq(DOMAIN at)
      /\ \A i \in DOMAIN o.trail : VarOf(o.trail[i]) \in vs => o.reason[VarOf(o.trail[i])] \in Range(a)
  BY <1>3 DEF RestIsAll
<1>5. crs = (a \o b) \o c
  OBVIOUS
<1>6. Relocation(at, r, o.nextVar)
  OBVIOUS
<1> HIDE DEF a, b, c, r2
<1>7. a \o b \in Seq(DOMAIN at) /\ crs \in Seq(DOMAIN at)
  BY <1>1, <1>4, <1>5
<1>8. \A x : x \in Range(crs) <=> x \in Range(a \o b) \/ x \in Range(c)
  <2> DEFINE ab == a \o b
  <2>1. ab \in Seq(DOMAIN at) /\ c \in Seq(DOMAIN at) /\ crs = ab \o c
    BY <1>1, <1>5, <1>7
  <2> HIDE DEF ab
  <2>2. \A x : x \in Range(ab \o c) <=> x \in Range(ab) \/ x \in Range(c)
    BY <2>1, RangeOfConcatenation
  <2>3. Range(crs) = Range(ab \o c)
    BY <2>1
  <2>4. \A x : x \in Range(crs) <=> x \in Range(ab) \/ x \in Range(c)
    BY <2>2, <2>3
  <2> QED
    BY <2>4 DEF ab
<1>9. \A x : x \in Range(a \o b) <=> x \in Range(a) \/ x \in Range(b)
  BY <1>1, <1>4, RangeOfConcatenation
<1>10. MovedAll(at, r, crs, r2, o.nextVar)
  <2>1. MovedAll(o.ca.at, r, crs, RelocAllOf(o.ca, r, crs), o.nextVar)
    BY <1>1, <1>6, <1>7, RelocAllMoves
  <2> QED
    BY <2>1 DEF r2
<1>11. /\ Relocation(at, r2, o.nextVar) /\ DOMAIN r.moved \subseteq DOMAIN r2.moved
       /\ \A i \in DOMAIN crs : crs[i] \in DOMAIN r2.moved
  BY <1>10 DEF MovedAll, Further
<1>12. \A x : x \in Range(crs) => x \in DOMAIN r2.moved
  BY <1>11 DEF Range
<1>13. /\ \A i \in DOMAIN b : b[i] \in DOMAIN r2.moved
       /\ \A i \in DOMAIN c : c[i] \in DOMAIN r2.moved
  BY <1>8, <1>9, <1>12 DEF Range
<1>14. \A i \in DOMAIN o.trail : VarOf(o.trail[i]) \in vs => o.reason[VarOf(o.trail[i])] \in DOMAIN r2.moved
  BY <1>4, <1>8, <1>9, <1>12
<1>15. Follows(o.trail, o.reason, vs, r2)
  <2>1. ASSUME NEW i \in DOMAIN o.trail, o.reason[VarOf(o.trail[i])] # CRefUndef
        PROVE  VarOf(o.trail[i]) \in vs
    BY <2>1 DEF ReasonVars, VarsOf
  <2>2. ASSUME NEW v \in vs
        PROVE  o.reason[v] \in DOMAIN r2.moved
    <3>1. PICK i \in DOMAIN o.trail : VarOf(o.trail[i]) = v
      BY <1>2 DEF HaveReasons
    <3> QED
      BY <1>14, <3>1
  <2>3. \A v \in vs : o.reason[v] # CRefUndef
    BY <1>2 DEF HaveReasons
  <2> QED
    BY <1>14, <2>1, <2>2, <2>3 DEF Follows
<1>16. \A p \in LitsOf(o.nextVar) : \A i \in DOMAIN o.watches.occs[p] :
          o.watches.occs[p][i].cref \in DOMAIN r2.moved
  BY <1>11
<1>17. MovedFor(o, vs, r2)
  BY <1>11, <1>13, <1>15, <1>16 DEF MovedFor, b, c
<1> QED
  BY <1>17 DEF r2

\* The live clauses of the lists.
LiveLists(s) == [s EXCEPT !.learnts = Live(s, @), !.clauses = Live(s, @)]

\* The clause lists without removed clauses (Solver.cc:1034-1051) keep an
\* object good.
LEMMA LiveListsGood ==
    ASSUME NEW o, NEW strict, Good(o, strict)
    PROVE  Good(LiveLists(o), strict) /\ Same(o, LiveLists(o), OnlyLists)
<1> DEFINE l == Live(o, o.learnts)
           c == Live(o, o.clauses)
           t == [o EXCEPT !.learnts = l, !.clauses = c]
<1>1. LiveLists(o) = t
  BY DEF LiveLists
<1>2. IsObject(o) /\ o.learnts \in Seq(DOMAIN o.ca.at) /\ o.clauses \in Seq(DOMAIN o.ca.at)
  BY DEF Good, GoodBut
<1>3. l \in Seq(DOMAIN o.ca.at)
  BY <1>2, OnlyLeft DEF Live
<1>4. c \in Seq(DOMAIN o.ca.at)
  BY <1>2, OnlyLeft DEF Live
<1> HIDE DEF l, c
<1>5. IsObject(t) /\ Same(o, t, OnlyLists) /\ t.learnts = l /\ t.clauses = c
  BY <1>2 DEF IsObject, Fields, Same, OnlyLists
<1> HIDE DEF t
<1>6. Relisted(o, t)
  BY <1>3, <1>4, <1>5 DEF Relisted
<1>7. Good(t, strict)
  BY <1>6, RelistGood
<1> QED
  BY <1>1, <1>5, <1>7

\* garbageCollect() keeps an object good: every reference follows its clause.
THEOREM GarbageCollectGood ==
    ASSUME NEW o, NEW strict, Good(o, strict)
    PROVE  Good(GarbageCollect(o), strict) /\ Same(o, GarbageCollect(o), MoveFields)
<1> DEFINE ws == CleanAll(o.watches, WatcherDeleted(o))
           t == Rewatch(o, ws)
           r0 == NoReloc(o.ca.extra)
           r1 == RelocAllOf(t.ca, r0, Watching(t))
           u == LiveLists(t)
           vs == KeptReasons(t, r1)
           crs == RestReasons(u, vs) \o u.learnts \o u.clauses
           r2 == RelocAllOf(u.ca, r1, crs)
           g == Follow(u, vs, r2)
<1>1. GoodBut(o, strict) /\ Watched(o) /\ IsObject(o) /\ IsOccLists(o.watches, o.nextVar)
      /\ o.useSimp = FALSE
  BY DEF Good, GoodBut, Types
<1>2. GarbageCollect(o) = RelocAll(o, r0)
  BY <1>1 DEF GarbageCollect, SimpRelocAll
<1>3. RelocAll(o, r0) = g
  BY DEF RelocAll, RelocWatched, RelocRest, RestReasons, LiveLists, Rewatch
<1> HIDE DEF g, r2, crs, vs, u, r1, r0
<1>4. AllClean(ws, o.ca.at, o.nextVar)
  <2>1. Lists(o.watches.occs, o.watches.dirty, o.ca.at, o.nextVar)
    BY <1>1 DEF Watched
  <2>2. Deletes(WatcherDeleted(o), o.watches, o.ca.at)
    BY DeletesListed
  <2> QED
    BY <1>1, <2>1, <2>2, CleanAllCleans
<1> HIDE DEF ws
<1>5. IsOccLists(ws, o.nextVar) /\ ws.dirty = {} /\ Lists(ws.occs, {}, o.ca.at, o.nextVar)
  BY <1>4 DEF AllClean
<1>6. GoodBut(t, strict)
  BY <1>1, <1>5, RewatchGood
<1>7. IsObject(t) /\ t.watches = ws /\ Same(o, t, OnlyWatches)
  BY <1>1, RewatchFields
<1> HIDE DEF t
<1>8. t.ca = o.ca /\ t.nextVar = o.nextVar
  BY <1>7 DEF Same, Fields, OnlyWatches
<1>9. Good(t, strict) /\ t.watches.dirty = {}
  BY <1>5, <1>6, <1>7, <1>8 DEF Good, Watched
<1>10. WatchingAll(t, Watching(t))
  BY <1>9, WatchingIsAll
<1>11. Clauses(t.ca.at, t.nextVar)
  BY <1>6, KernelTypes
<1>12. MovedAll(t.ca.at, r0, Watching(t), r1, t.nextVar)
  <2>1. Relocation(t.ca.at, r0, t.nextVar)
    BY NoRelocation DEF r0
  <2>2. Watching(t) \in Seq(DOMAIN t.ca.at)
    BY <1>10 DEF WatchingAll
  <2>3. MovedAll(t.ca.at, r0, Watching(t), RelocAllOf(t.ca, r0, Watching(t)), t.nextVar)
    BY <1>11, <2>1, <2>2, RelocAllMoves
  <2> QED
    BY <2>3 DEF r1
<1>13. Relocation(t.ca.at, r1, t.nextVar)
       /\ \A i \in DOMAIN Watching(t) : Watching(t)[i] \in DOMAIN r1.moved
  BY <1>12 DEF MovedAll, Further
<1>14. \A p \in LitsOf(t.nextVar) : \A i \in DOMAIN t.watches.occs[p] :
          t.watches.occs[p][i].cref \in DOMAIN r1.moved
  BY <1>10, <1>13 DEF WatchingAll, Range
<1>15. Good(u, strict) /\ Same(t, u, OnlyLists)
  BY <1>9, LiveListsGood DEF u
<1>16. u.ca = t.ca /\ u.nextVar = t.nextVar /\ u.watches = t.watches /\ u.trail = t.trail
       /\ u.reason = t.reason
  BY <1>15 DEF Same, Fields, OnlyLists
<1>17. vs = ReasonVars(u)
  <2>1. vs = ReasonVars(t)
    BY <1>6, AllReasonsKept DEF vs
  <2> QED
    BY <1>16, <2>1 DEF ReasonVars
<1>18. MovedFor(u, vs, r2)
  <2>1. MovedFor(u, vs, RelocAllOf(u.ca, r1, crs))
    BY <1>13, <1>14, <1>15, <1>16, <1>17, RestMoves DEF crs
  <2> QED
    BY <2>1 DEF r2
<1>19. Good(g, strict) /\ Same(u, g, MoveFields)
  BY <1>9, <1>15, <1>16, <1>18, FollowGood DEF g
<1>20. OnlyLists \subseteq MoveFields /\ OnlyWatches \subseteq MoveFields /\ MoveFields \subseteq MoveFields
  BY DEF OnlyLists, OnlyWatches, MoveFields
<1>21. Same(o, u, MoveFields)
  BY <1>7, <1>15, <1>20, SameTwice
<1>22. Same(o, g, MoveFields)
  BY <1>19, <1>20, <1>21, SameTwice
<1> QED
  BY <1>2, <1>3, <1>19, <1>22

\* checkGarbage() as well.
LEMMA CheckGarbageGood ==
    ASSUME NEW o, NEW strict, Good(o, strict), NEW gf
    PROVE  Good(CheckGarbage(o, gf), strict) /\ Same(o, CheckGarbage(o, gf), MoveFields)
<1>1. CheckGarbage(o, gf) = o \/ CheckGarbage(o, gf) = GarbageCollect(o)
  BY DEF CheckGarbage
<1>2. Same(o, o, MoveFields)
  BY DEF Same
<1> QED
  BY <1>1, <1>2, GarbageCollectGood

-------------------------------------------------------------------------------
(* simplify().                                                                 *)

\* t is as good as o, with the same trail and queue.
AsIs(o, t, strict) ==
    /\ Good(t, strict) /\ t.trailLim = o.trailLim
    /\ t.trail = o.trail /\ t.qhead = o.qhead /\ t.ok = o.ok /\ t.nextVar = o.nextVar

\* Fields that the invariant is not about may change.
LEMMA TouchedGood ==
    ASSUME NEW o, NEW strict, Good(o, strict), NEW t, IsObject(t), NEW fs, Same(o, t, fs),
           fs \intersect (Kernel \union {"qhead"}) = {}
    PROVE  AsIs(o, t, strict)
<1>1. GoodBut(o, strict) /\ Watched(o) /\ o.qhead \in Nat
  BY DEF Good, GoodBut, Types
<1>2. /\ t.trailLim = o.trailLim /\ t.trail = o.trail /\ t.qhead = o.qhead /\ t.ok = o.ok
      /\ t.nextVar = o.nextVar
  BY DEF Same, Fields, Kernel
<1>3. fs \intersect Kernel = {} /\ t.qhead \in Nat
  BY <1>1, <1>2
<1>4. GoodBut(t, strict) /\ Watched(t)
  BY <1>1, <1>3, AsGood
<1> QED
  BY <1>2, <1>4 DEF AsIs, Good

\* An idle object stays idle when nothing of its trail changes.
LEMMA AsIsIdles ==
    ASSUME NEW o, NEW strict, Idling(o, strict), NEW t, AsIs(o, t, strict)
    PROVE  Idling(t, strict)
BY DEF Idling, AtRoot, AsIs, Propagated

SimplifyFields == PropFields \union CleanFields \union MoveFields
                  \union {"heap", "simpAssigns", "simpProps", "ok"}

\* What simplify() leaves.
SimplifiedTo(o, t, strict) == Idling(t, strict) /\ Same(o, t, SimplifyFields)

HeapFields == {"heap", "simpAssigns", "simpProps"}
OnlyOk == {"ok"}

\* The clean-up of an object in which no conflict was found.
LEMMA CleanedUp ==
    ASSUME NEW o, NEW strict, Idling(o, strict), o.ok, NEW gf,
           NEW t, t = Simplified(RebuildOrderHeap(CheckGarbage(CleanClauses(o), gf)))
    PROVE  SimplifiedTo(o, t, strict)
<1> DEFINE a == CleanClauses(o)
           b == CheckGarbage(a, gf)
           h == {v \in b.decision : b.assigns[v] = LUndef}
           n == Len(b.trail)
<1>1. Cleaned(o, a, strict)
  BY CleanClausesGood
<1> HIDE DEF a
<1>2. Idling(a, strict) /\ Same(o, a, CleanFields)
  BY <1>1 DEF Cleaned
<1>3. Good(a, strict) /\ a.trailLim = <<>> /\ Propagated(a)
  BY <1>2 DEF Idling, AtRoot
<1>4. Good(b, strict) /\ Same(a, b, MoveFields)
  BY <1>3, CheckGarbageGood
<1> HIDE DEF b
<1>5. b.trailLim = a.trailLim /\ b.trail = a.trail /\ b.qhead = a.qhead
  BY <1>4 DEF Same, Fields, MoveFields
<1>6. Idling(b, strict)
  BY <1>3, <1>4, <1>5 DEF Idling, AtRoot, Propagated
<1>7. IsObject(b)
  BY <1>4 DEF Good, GoodBut
<1>8. t = [b EXCEPT !.heap = h, !.simpAssigns = n, !.simpProps = b.literals]
  <2> DEFINE c == [b EXCEPT !.heap = h]
  <2>1. RebuildOrderHeap(b) = c /\ t = Simplified(c)
    BY DEF RebuildOrderHeap, a, b
  <2> HIDE DEF h
  <2>2. c.trail = b.trail /\ c.literals = b.literals
    BY <1>7 DEF IsObject, Fields
  <2> HIDE DEF c
  <2>3. t = [c EXCEPT !.simpAssigns = n, !.simpProps = b.literals]
    BY <2>1, <2>2 DEF Simplified, NAssigns
  <2> QED
    BY <2>3 DEF c
<1> HIDE DEF h, n
<1>9. IsObject(t) /\ Same(b, t, HeapFields)
  BY <1>7, <1>8 DEF IsObject, Fields, Same, HeapFields
<1>10. HeapFields \intersect (Kernel \union {"qhead"}) = {}
  BY DEF HeapFields, Kernel
<1>11. AsIs(b, t, strict)
  BY <1>4, <1>9, <1>10, TouchedGood
<1>12. Idling(t, strict)
  BY <1>6, <1>11, AsIsIdles
<1>13. CleanFields \subseteq SimplifyFields /\ MoveFields \subseteq SimplifyFields
       /\ HeapFields \subseteq SimplifyFields /\ SimplifyFields \subseteq SimplifyFields
  BY DEF SimplifyFields, HeapFields
<1>14. Same(o, b, SimplifyFields)
  BY <1>2, <1>4, <1>13, SameTwice
<1>15. Same(o, t, SimplifyFields)
  BY <1>9, <1>13, <1>14, SameTwice
<1> QED
  BY <1>12, <1>15 DEF SimplifiedTo

\* ok is given up.
LEMMA GivenUp ==
    ASSUME NEW o, NEW strict, Good(o, strict), NEW t, t = [o EXCEPT !.ok = FALSE]
    PROVE  /\ Good(t, strict) /\ t.trailLim = o.trailLim /\ t.trail = o.trail /\ t.qhead = o.qhead
           /\ t.ok = FALSE /\ Same(o, t, OnlyOk)
<1>1. GoodBut(o, strict) /\ IsObject(o) /\ Watched(o) /\ Types(o)
  BY DEF Good, GoodBut
<1>2. IsObject(t) /\ t.ok = FALSE /\ Same(o, t, OnlyOk)
  BY <1>1 DEF IsObject, Fields, Same, OnlyOk
<1>3. /\ t.ca = o.ca /\ t.clauses = o.clauses /\ t.learnts = o.learnts /\ t.watches = o.watches
      /\ t.trail = o.trail /\ t.trailLim = o.trailLim /\ t.assigns = o.assigns /\ t.reason = o.reason
      /\ t.level = o.level /\ t.nextVar = o.nextVar /\ t.freeVars = o.freeVars
      /\ t.releasedVars = o.releasedVars /\ t.decision = o.decision /\ t.useSimp = o.useSimp
      /\ t.qhead = o.qhead
  BY <1>2 DEF Same, Fields, OnlyOk
<1>4. Types(t)
  BY <1>1, <1>2, <1>3 DEF Types
<1>5. GoodBut(t, strict)
  BY <1>1, <1>2, <1>3, <1>4 DEF GoodBut
<1>6. Watched(t)
  BY <1>1, <1>3 DEF Watched
<1> QED
  BY <1>2, <1>3, <1>5, <1>6 DEF Good

\* simplify() keeps an idle object idle.
THEOREM SimplifyGood ==
    ASSUME NEW o, NEW strict, Idling(o, strict)
    PROVE  SimplifiedTo(o, Simplify(o), strict)
<1> DEFINE r == Propagate(o)
           p == r.s
           c == Simplified(RebuildOrderHeap(CheckGarbage(CleanClauses(p), p.opt.garbageFrac)))
           f == [p EXCEPT !.ok = FALSE]
<1>1. Good(o, strict) /\ o.trailLim = <<>> /\ Propagated(o)
  BY DEF Idling, AtRoot
<1>2. CASE ~o.ok
  <2>1. Simplify(o) = o
    BY <1>2 DEF Simplify
  <2> QED
    BY <2>1 DEF SimplifiedTo, Same
<1>3. CASE o.ok
  <2>1. Simplify(o) \in {p, f, c}
    BY <1>3 DEF Simplify, SimplifyPropagated
  <2>2. LevelQueued(o)
    <3>1. o.trail \in Seq(LitsOf(o.nextVar))
      BY <1>1, KernelTypes DEF Good
    <3>2. DOMAIN o.trailLim = {} /\ Len(o.trail) \in Nat
      BY <1>1, <3>1
    <3> QED
      BY <1>1, <3>2 DEF LevelQueued, Propagated
  <2>3. Propagates(o, r, strict)
    BY <1>1, <2>2, PropagateGood
  <2> HIDE DEF r
  <2>4. Good(p, strict) /\ Propagated(p) /\ Same(o, p, PropFields)
    BY <2>3 DEF Propagates
  <2>5. p.trailLim = <<>> /\ p.ok = o.ok
    BY <1>1, <2>4 DEF Same, Fields, PropFields, VisitFields
  <2>6. Idling(p, strict)
    BY <2>4, <2>5 DEF Idling, AtRoot
  <2> HIDE DEF p
  <2>7. PropFields \subseteq SimplifyFields /\ SimplifyFields \subseteq SimplifyFields
        /\ OnlyOk \subseteq SimplifyFields
    BY DEF SimplifyFields, OnlyOk
  <2>8. SimplifiedTo(o, p, strict)
    BY <2>4, <2>6, <2>7 DEF SimplifiedTo, Same
  <2>9. SimplifiedTo(p, c, strict)
    BY <1>3, <2>5, <2>6, CleanedUp
  <2> HIDE DEF c
  <2>10. SimplifiedTo(o, c, strict)
    <3>1. Same(o, c, SimplifyFields)
      BY <2>4, <2>7, <2>9, SameTwice DEF SimplifiedTo
    <3> QED
      BY <2>9, <3>1 DEF SimplifiedTo
  <2>11. /\ Good(f, strict) /\ f.trailLim = p.trailLim /\ f.trail = p.trail /\ f.qhead = p.qhead
         /\ Same(p, f, OnlyOk)
    BY <2>4, GivenUp
  <2> HIDE DEF f
  <2>12. SimplifiedTo(o, f, strict)
    <3>1. Same(o, f, SimplifyFields)
      BY <2>4, <2>7, <2>11, SameTwice
    <3>2. Idling(f, strict)
      BY <2>4, <2>5, <2>11 DEF Idling, AtRoot, Propagated
    <3> QED
      BY <3>1, <3>2 DEF SimplifiedTo
  <2> QED
    BY <2>1, <2>8, <2>10, <2>12
<1> QED
  BY <1>2, <1>3

-------------------------------------------------------------------------------
(* reduceDB().                                                                 *)

VictimNext(s0, victims, x, i) ==
    IF s0.learnts[i] \in victims THEN RemoveClause(x, s0.learnts[i]) ELSE x

VictimsRun(g, s0, victims) ==
    g[0] = s0 /\ \A i \in 1 .. Len(s0.learnts) : g[i] = VictimNext(s0, victims, g[i - 1], i)

\* The loop over the learnt clauses runs.
LEMMA RemoveVictimsRuns ==
    ASSUME NEW s0, NEW victims, Len(s0.learnts) \in Nat
    PROVE  \E g : VictimsRun(g, s0, victims) /\ RemoveVictims(s0, victims) = g[Len(s0.learnts)]
<1> DEFINE n == Len(s0.learnts)
           x0 == s0
           loop[i \in 0 .. n] == IF i = 0 THEN x0 ELSE VictimNext(s0, victims, loop[i - 1], i)
           S == {m \in Nat : \E g : g = [i \in 0 .. m |-> IF i = 0 THEN x0
                                                        ELSE VictimNext(s0, victims, g[i - 1], i)]}
<1>1. RemoveVictims(s0, victims) = loop[n]
  BY DEF RemoveVictims, VictimNext
<1> HIDE DEF x0
<1>2. 0 \in S
  <2> DEFINE g == [i \in 0 .. 0 |-> x0]
  <2>1. g = [i \in 0 .. 0 |-> IF i = 0 THEN x0 ELSE VictimNext(s0, victims, g[i - 1], i)]
    OBVIOUS
  <2> HIDE DEF g
  <2> QED
    BY <2>1
<1>3. ASSUME NEW m \in Nat, m \in S
      PROVE  m + 1 \in S
  <2>1. PICK g : g = [i \in 0 .. m |-> IF i = 0 THEN x0 ELSE VictimNext(s0, victims, g[i - 1], i)]
    BY <1>3
  <2> DEFINE h == [i \in 0 .. m + 1 |-> IF i = m + 1 THEN VictimNext(s0, victims, g[m], (m + 1)) ELSE g[i]]
  <2>2. ASSUME NEW i \in 0 .. m + 1
        PROVE  h[i] = IF i = 0 THEN x0 ELSE VictimNext(s0, victims, h[i - 1], i)
    <3>1. CASE i = m + 1
      <4>1. i - 1 = m /\ m \in 0 .. m + 1 /\ m # m + 1 /\ i # 0
        BY <3>1
      <4>2. h[i - 1] = g[m]
        BY <2>1, <4>1
      <4> QED
        BY <3>1, <4>1, <4>2
    <3>2. CASE i # m + 1
      <4>1. i \in 0 .. m
        BY <3>2
      <4>2. h[i] = g[i] /\ g[i] = IF i = 0 THEN x0 ELSE VictimNext(s0, victims, g[i - 1], i)
        BY <2>1, <3>2, <4>1
      <4>3. CASE i # 0
        <5>1. i - 1 \in 0 .. m + 1 /\ i - 1 # m + 1
          BY <4>1, <4>3
        <5>2. h[i - 1] = g[i - 1]
          BY <5>1
        <5> QED
          BY <4>2, <4>3, <5>2
      <4> QED
        BY <4>2, <4>3
    <3> QED
      BY <3>1, <3>2
  <2>3. h = [i \in 0 .. m + 1 |-> IF i = 0 THEN x0 ELSE VictimNext(s0, victims, h[i - 1], i)]
    <3>1. h = [i \in 0 .. m + 1 |-> h[i]]
      OBVIOUS
    <3> HIDE DEF h
    <3> QED
      BY <2>2, <3>1
  <2>4. \E k : k = [i \in 0 .. m + 1 |-> IF i = 0 THEN x0 ELSE VictimNext(s0, victims, k[i - 1], i)]
    <3> HIDE DEF h
    <3> QED
      BY <2>3
  <2> QED
    BY <2>4
<1>4. n \in S
  <2> HIDE DEF S
  <2>1. Nat \subseteq S
    BY <1>2, <1>3, InductionOn
  <2> QED
    BY <2>1
<1>5. loop = [i \in 0 .. n |-> IF i = 0 THEN x0 ELSE VictimNext(s0, victims, loop[i - 1], i)]
  <2>1. \E g : g = [i \in 0 .. n |-> IF i = 0 THEN x0 ELSE VictimNext(s0, victims, g[i - 1], i)]
    BY <1>4
  <2>2. loop = CHOOSE g : g = [i \in 0 .. n |-> IF i = 0 THEN x0
                                              ELSE VictimNext(s0, victims, g[i - 1], i)]
    BY DEF loop
  <2> HIDE DEF loop
  <2> QED
    BY <2>1, <2>2, Zenon
<1> HIDE DEF loop
<1>6. loop[0] = x0 /\ \A i \in 1 .. n : loop[i] = VictimNext(s0, victims, loop[i - 1], i)
  <2>1. 0 \in 0 .. n /\ \A i \in 1 .. n : i \in 0 .. n /\ i # 0
    OBVIOUS
  <2> HIDE DEF n
  <2> QED
    BY <1>5, <2>1
<1>7. VictimsRun(loop, s0, victims)
  BY <1>6 DEF VictimsRun, x0
<1> QED
  BY <1>1, <1>7

\* What removing victims, none of them locked, leaves.
VictimsGone(a, o, strict) ==
    /\ Good(a, strict) /\ Same(o, a, RemoveFields) /\ a.reason = o.reason
    /\ DOMAIN a.ca.at = DOMAIN o.ca.at
    /\ \A cr \in DOMAIN o.ca.at : a.ca.at[cr].lits = o.ca.at[cr].lits

\* victims are clauses that imply nothing.
Unlocked(o, victims) == \A cr \in victims : cr \in DOMAIN o.ca.at /\ ~Locked(o, cr)

\* One victim is removed.
LEMMA VictimStep ==
    ASSUME NEW o, NEW strict, NEW a, VictimsGone(a, o, strict), NEW cr \in DOMAIN o.ca.at, ~Locked(o, cr)
    PROVE  VictimsGone(RemoveClause(a, cr), o, strict)
<1> DEFINE t == RemoveClause(a, cr)
<1>1. /\ Good(a, strict) /\ Same(o, a, RemoveFields) /\ a.reason = o.reason
      /\ DOMAIN a.ca.at = DOMAIN o.ca.at
      /\ \A c \in DOMAIN o.ca.at : a.ca.at[c].lits = o.ca.at[c].lits
  BY DEF VictimsGone
<1>2. a.assigns = o.assigns
  BY <1>1 DEF Same, Fields, RemoveFields
<1>3. ~Locked(a, cr)
  BY <1>1, <1>2 DEF Locked, Lits, Value, ReasonOf
<1>4. MayRemove(a, cr, strict)
  BY <1>1, <1>3 DEF MayRemove
<1>5. Good(t, strict) /\ ClauseRemoved(a, cr, t)
  BY <1>1, <1>4, RemoveGood
<1> HIDE DEF t
<1>6. Same(a, t, RemoveFields) /\ t.ca.at = Marked(a.ca.at, cr) /\ t.reason = a.reason
  BY <1>3, <1>5 DEF ClauseRemoved
<1>7. RemoveFields \subseteq RemoveFields
  OBVIOUS
<1>8. Same(o, t, RemoveFields)
  BY <1>1, <1>6, <1>7, SameTwice
<1>9. DOMAIN t.ca.at = DOMAIN o.ca.at
  BY <1>1, <1>6 DEF Marked
<1>10. \A c \in DOMAIN o.ca.at : t.ca.at[c].lits = o.ca.at[c].lits
  <2> SUFFICES ASSUME NEW c \in DOMAIN o.ca.at PROVE t.ca.at[c].lits = o.ca.at[c].lits
    OBVIOUS
  <2>1. a.ca.at[c].lits = o.ca.at[c].lits /\ c \in DOMAIN a.ca.at
    BY <1>1
  <2>2. IsClause(a.ca.at[c], a.nextVar)
    BY <1>1, <2>1, KernelTypes DEF Good, Clauses
  <2>3. t.ca.at[c].lits = a.ca.at[c].lits
    <3> DEFINE x == a.ca.at[c]
               y == [x EXCEPT !.mark = 1]
    <3>1. t.ca.at[c] = IF c = cr THEN y ELSE x
      BY <1>6, <2>1 DEF Marked
    <3>2. IsClause(x, a.nextVar)
      BY <2>2
    <3> HIDE DEF x
    <3>3. y.lits = x.lits
      BY <3>2 DEF IsClause
    <3> HIDE DEF y
    <3>4. t.ca.at[c].lits = x.lits
      BY <3>1, <3>3
    <3> QED
      BY <3>4 DEF x
  <2> QED
    BY <2>1, <2>3
<1>11. t.reason = o.reason
  BY <1>1, <1>6
<1> QED
  BY <1>5, <1>8, <1>9, <1>10, <1>11 DEF VictimsGone, t

\* All victims are removed.
LEMMA RemoveVictimsGood ==
    ASSUME NEW o, NEW strict, Good(o, strict), NEW victims, Unlocked(o, victims)
    PROVE  VictimsGone(RemoveVictims(o, victims), o, strict)
<1>1. o.learnts \in Seq(DOMAIN o.ca.at)
  BY DEF Good, GoodBut
<1>2. Len(o.learnts) \in Nat
  BY <1>1
<1>3. PICK g : VictimsRun(g, o, victims) /\ RemoveVictims(o, victims) = g[Len(o.learnts)]
  BY <1>2, RemoveVictimsRuns
<1> DEFINE S == {i \in Nat : i <= Len(o.learnts) => VictimsGone(g[i], o, strict)}
<1>4. 0 \in S
  <2>1. g[0] = o
    BY <1>3 DEF VictimsRun
  <2>2. VictimsGone(o, o, strict)
    BY DEF VictimsGone, Same
  <2> QED
    BY <2>1, <2>2
<1>5. ASSUME NEW i \in Nat, i \in S
      PROVE  i + 1 \in S
  <2> SUFFICES ASSUME i + 1 <= Len(o.learnts) PROVE VictimsGone(g[i + 1], o, strict)
    OBVIOUS
  <2>1. i + 1 \in 1 .. Len(o.learnts) /\ (i + 1) - 1 = i /\ i <= Len(o.learnts)
    BY <1>2
  <2>2. g[i + 1] = VictimNext(o, victims, g[i], i + 1)
    BY <1>3, <2>1 DEF VictimsRun
  <2>3. VictimsGone(g[i], o, strict)
    BY <1>5, <2>1
  <2>4. CASE o.learnts[i + 1] \in victims
    <3> DEFINE cr == o.learnts[i + 1]
    <3>1. cr \in DOMAIN o.ca.at /\ ~Locked(o, cr)
      BY <2>4 DEF Unlocked
    <3>2. g[i + 1] = RemoveClause(g[i], cr)
      BY <2>2, <2>4 DEF VictimNext
    <3> HIDE DEF cr
    <3>3. VictimsGone(RemoveClause(g[i], cr), o, strict)
      BY <2>3, <3>1, VictimStep
    <3> QED
      BY <3>2, <3>3
  <2>5. CASE o.learnts[i + 1] \notin victims
    BY <2>2, <2>3, <2>5 DEF VictimNext
  <2> QED
    BY <2>4, <2>5
<1>6. Len(o.learnts) \in S
  <2> HIDE DEF S
  <2> QED
    BY <1>2, <1>4, <1>5, InductionOn
<1> QED
  BY <1>2, <1>3, <1>6

ReduceFields == RemoveFields \union OnlyLists \union MoveFields

\* The fields of the trail and the queue are as they were.
Reduced(o, t, strict) ==
    /\ Good(t, strict) /\ Same(o, t, ReduceFields)

\* reduceDB() keeps an object good.
THEOREM ReduceGood ==
    ASSUME NEW o, NEW strict, Good(o, strict), NEW victims, Unlocked(o, victims)
    PROVE  Reduced(o, ReduceDB(o, victims), strict)
<1> DEFINE a == RemoveVictims(o, victims)
           l == Only(a.learnts, ToSet(a.learnts) \ victims)
           b == [a EXCEPT !.learnts = l]
           t == CheckGarbage(b, b.opt.garbageFrac)
<1>1. VictimsGone(a, o, strict)
  BY RemoveVictimsGood
<1>2. ReduceDB(o, victims) = CheckGarbage(b, a.opt.garbageFrac)
  <2> HIDE DEF a
  <2>0. ReduceDB(o, victims) = CheckGarbage(DropVictims(RemoveVictims(o, victims), victims), o.opt.garbageFrac)
    BY DEF ReduceDB
  <2>1. a.opt = o.opt
    BY <1>1 DEF VictimsGone, Same, Fields, RemoveFields
  <2> QED
    BY <2>0, <2>1 DEF DropVictims, a
<1> HIDE DEF a
<1>3. /\ Good(a, strict) /\ Same(o, a, RemoveFields)
      /\ a.learnts \in Seq(DOMAIN a.ca.at) /\ a.clauses \in Seq(DOMAIN a.ca.at) /\ IsObject(a)
  BY <1>1 DEF VictimsGone, Good, GoodBut
<1>4. l \in Seq(DOMAIN a.ca.at)
  BY <1>3, OnlyLeft
<1> HIDE DEF l
<1>5. IsObject(b) /\ Same(a, b, OnlyLists) /\ b.learnts = l /\ b.clauses = a.clauses
  BY <1>3 DEF IsObject, Fields, Same, OnlyLists
<1> HIDE DEF b
<1>6. Relisted(a, b)
  BY <1>3, <1>4, <1>5 DEF Relisted
<1>7. Good(b, strict)
  BY <1>3, <1>6, RelistGood
<1> DEFINE u == CheckGarbage(b, a.opt.garbageFrac)
<1>8. Good(u, strict) /\ Same(b, u, MoveFields)
  BY <1>7, CheckGarbageGood
<1> HIDE DEF u
<1>9. RemoveFields \subseteq ReduceFields /\ OnlyLists \subseteq ReduceFields
      /\ MoveFields \subseteq ReduceFields /\ ReduceFields \subseteq ReduceFields
  BY DEF ReduceFields
<1>10. Same(o, b, ReduceFields)
  BY <1>3, <1>5, <1>9, SameTwice
<1>11. Same(o, u, ReduceFields)
  BY <1>8, <1>9, <1>10, SameTwice
<1> QED
  BY <1>2, <1>8, <1>11 DEF Reduced, u

\* What may be removed implies nothing.
LEMMA ReducibleUnlocked ==
    ASSUME NEW o, NEW strict, Good(o, strict), NEW victims \in Reducible(o)
    PROVE  Unlocked(o, victims)
<1>1. o.learnts \in Seq(DOMAIN o.ca.at)
  BY DEF Good, GoodBut
<1>2. \A cr \in ToSet(o.learnts) : cr \in DOMAIN o.ca.at
  BY <1>1 DEF ToSet
<1>3. PICK R : R \in SUBSET LongLearnts(o) /\ victims = {cr \in R : ~Locked(o, cr)}
  BY DEF Reducible
<1> QED
  BY <1>2, <1>3 DEF LongLearnts, Unlocked

-------------------------------------------------------------------------------
(* addClause().                                                                *)

\* ok may only be given up.
LEMMA OkGood ==
    ASSUME NEW o, NEW strict, Good(o, strict), NEW b \in BOOLEAN, b => o.ok,
           NEW t, t = [o EXCEPT !.ok = b]
    PROVE  /\ Good(t, strict) /\ t.trailLim = o.trailLim /\ t.trail = o.trail /\ t.qhead = o.qhead
           /\ t.ok = b /\ Same(o, t, OnlyOk)
<1>1. GoodBut(o, strict) /\ IsObject(o) /\ Watched(o) /\ Types(o)
  BY DEF Good, GoodBut
<1>2. IsObject(t) /\ t.ok = b /\ Same(o, t, OnlyOk)
  BY <1>1 DEF IsObject, Fields, Same, OnlyOk
<1>3. /\ t.ca = o.ca /\ t.clauses = o.clauses /\ t.learnts = o.learnts /\ t.watches = o.watches
      /\ t.trail = o.trail /\ t.trailLim = o.trailLim /\ t.assigns = o.assigns /\ t.reason = o.reason
      /\ t.level = o.level /\ t.nextVar = o.nextVar /\ t.freeVars = o.freeVars
      /\ t.releasedVars = o.releasedVars /\ t.decision = o.decision /\ t.useSimp = o.useSimp
      /\ t.qhead = o.qhead
  BY <1>2 DEF Same, Fields, OnlyOk
<1>4. Types(t)
  BY <1>1, <1>2, <1>3 DEF Types
<1>5. GoodBut(t, strict)
  BY <1>1, <1>2, <1>3, <1>4 DEF GoodBut
<1>6. Watched(t)
  BY <1>1, <1>3 DEF Watched
<1> QED
  BY <1>2, <1>3, <1>5, <1>6 DEF Good

\* The literals of a clause that is stored or asserted.
PrunedTo(o, lits) ==
    /\ lits \in Seq(LitsOf(o.nextVar)) /\ Distinct(lits)
    /\ \A i \in DOMAIN lits : Val(o.assigns, lits[i]) = LUndef

\* Of a clause that is not trivially true, the open literals are left, each once.
LEMMA PrunedFacts ==
    ASSUME NEW o, NEW strict, GoodBut(o, strict), NEW ps \in Seq(LitsOf(o.nextVar)),
           ~TriviallyTrue(o, ps)
    PROVE  PrunedTo(o, Pruned(o, ps))
<1> DEFINE n == o.nextVar
           S == {p \in ToSet(ps) : Value(o, p) # LFalse}
           keys == Keys(2 * n)
           lits == Only(keys, S)
<1>1. n \in Nat /\ o.assigns \in [VarsUpTo(n) -> Lbools]
  BY KernelTypes
<1>2. keys \in Seq(LitsOf(n)) /\ DOMAIN keys = 1 .. 2 * n /\ \A i \in 1 .. 2 * n : keys[i] = i - 1
  <2>1. 2 * n \in Nat
    BY <1>1
  <2>2. keys = [i \in 1 .. 2 * n |-> i - 1]
    BY DEF Keys
  <2>3. \A i \in 1 .. 2 * n : i - 1 \in LitsOf(n)
    BY <1>1 DEF LitsOf
  <2> HIDE DEF keys
  <2> QED
    BY <2>1, <2>2, <2>3
<1> HIDE DEF keys
<1>3. lits \in Seq(LitsOf(n)) /\ LeftOf(lits, keys, S)
  BY <1>2, OnlyLeft
<1>4. Pruned(o, ps) = lits
  BY DEF Pruned, keys
<1> HIDE DEF lits
<1>5. Distinct(lits)
  <2>1. PICK at \in [DOMAIN lits -> DOMAIN keys] :
               /\ \A i \in DOMAIN lits : lits[i] = keys[at[i]]
               /\ \A i, j \in DOMAIN lits : i < j => at[i] < at[j]
    BY <1>3 DEF LeftOf
  <2>2. ASSUME NEW i \in DOMAIN lits, NEW j \in DOMAIN lits, lits[i] = lits[j]
        PROVE  i = j
    <3>1. at[i] \in 1 .. 2 * n /\ at[j] \in 1 .. 2 * n
      BY <1>2, <2>1
    <3>2. at[i] - 1 = at[j] - 1
      BY <1>2, <2>1, <2>2, <3>1
    <3>3. at[i] = at[j] /\ at[i] \in Int
      BY <1>1, <3>1, <3>2
    <3>4. i \in Int /\ j \in Int
      BY <1>3 DEF LeftOf
    <3>5. ~(i < j) /\ ~(j < i)
      BY <2>1, <3>3
    <3> QED
      BY <3>4, <3>5
  <2> QED
    BY <2>2 DEF Distinct
<1>6. ASSUME NEW i \in DOMAIN lits
      PROVE  Val(o.assigns, lits[i]) = LUndef
  <2>1. lits[i] \in S
    <3>1. lits[i] \in Range(lits)
      BY DEF Range
    <3> QED
      BY <1>3, <3>1 DEF LeftOf
  <2>2. lits[i] \in ToSet(ps) /\ Val(o.assigns, lits[i]) # LFalse
    BY <2>1 DEF Value, Val
  <2>3. \E k \in DOMAIN ps : ps[k] = lits[i]
    BY <2>2 DEF ToSet
  <2>4. Val(o.assigns, lits[i]) # LTrue
    BY <2>3 DEF TriviallyTrue, Satisfied, Value, Val
  <2>5. lits[i] \in LitsOf(n)
    BY <1>3
  <2>6. Val(o.assigns, lits[i]) \in Lbools
    BY <1>1, <2>5, ValFacts
  <2> QED
    BY <2>2, <2>4, <2>6 DEF Lbools
<1> QED
  BY <1>3, <1>4, <1>5, <1>6 DEF PrunedTo

AddFields == PropFields \union EnqueueFields \union StoreFields \union AttachFields \union {"ok"}

\* What adding a clause to an idle object leaves.
AddedTo(o, t, strict) == Idling(t, strict) /\ Same(o, t, AddFields)

\* A fact that is asserted at the root is propagated.
LEMMA AssertUnitGood ==
    ASSUME NEW o, NEW strict, Idling(o, strict), o.ok, NEW p \in LitsOf(o.nextVar),
           Val(o.assigns, p) = LUndef
    PROVE  AddedTo(o, AssertUnit(o, p), strict) /\ AssertUnit(o, p).assigns[VarOf(p)] # LUndef
<1> DEFINE e == UncheckedEnqueue(o, p, CRefUndef)
           r == Propagate(e)
           b == (r.confl = CRefUndef)
           t == [r.s EXCEPT !.ok = b]
<1>1. Good(o, strict) /\ o.trailLim = <<>> /\ Propagated(o)
  BY DEF Idling, AtRoot
<1>2. GoodBut(o, strict) /\ IsObject(o) /\ Watched(o) /\ o.trail \in Seq(LitsOf(o.nextVar))
  BY <1>1, KernelTypes DEF Good, GoodBut
<1>3. Enqueueable(o, p, CRefUndef, strict)
  <2>1. ~(Len(o.trailLim) > 0) /\ CRefUndef \in Refs
    BY <1>1 DEF CRefUndef, Refs
  <2> QED
    BY <2>1 DEF Enqueueable, MayFollow
<1>4. Good(e, strict)
  BY <1>2, <1>3, EnqueueGood DEF Good
<1>5. IsEnqueued(o, p, CRefUndef, e)
  BY <1>2, Enqueued
<1> HIDE DEF e
<1>6. e.trail = Append(o.trail, p) /\ Same(o, e, EnqueueFields)
  BY <1>5 DEF IsEnqueued
<1>7. e.trailLim = <<>> /\ e.qhead = o.qhead /\ e.ok
  BY <1>1, <1>6 DEF Same, Fields, EnqueueFields
<1>8. LevelQueued(e)
  <2>1. Len(e.trail) = Len(o.trail) + 1 /\ Len(o.trail) \in Nat
    BY <1>2, <1>6
  <2>2. DOMAIN e.trailLim = {}
    BY <1>7
  <2> QED
    BY <1>1, <1>7, <2>1, <2>2 DEF LevelQueued, Propagated
<1>9. Propagates(e, r, strict)
  BY <1>4, <1>8, PropagateGood
<1> HIDE DEF r
<1>10. Good(r.s, strict) /\ Propagated(r.s) /\ Same(e, r.s, PropFields)
  BY <1>9 DEF Propagates
<1>11. r.s.trailLim = <<>> /\ r.s.ok
  BY <1>7, <1>10 DEF Same, Fields, PropFields, VisitFields
<1>12. b \in BOOLEAN
  OBVIOUS
<1> HIDE DEF b
<1>13. /\ Good(t, strict) /\ t.trailLim = r.s.trailLim /\ t.trail = r.s.trail /\ t.qhead = r.s.qhead
       /\ Same(r.s, t, OnlyOk)
  BY <1>10, <1>11, <1>12, OkGood
<1>14. AssertUnit(o, p) = t
  BY DEF AssertUnit, OkUnlessConflict, e, r, b
<1> HIDE DEF t
<1>15. Idling(t, strict)
  BY <1>10, <1>11, <1>13 DEF Idling, AtRoot, Propagated
<1>16. EnqueueFields \subseteq AddFields /\ PropFields \subseteq AddFields /\ OnlyOk \subseteq AddFields
       /\ AddFields \subseteq AddFields
  BY DEF AddFields, OnlyOk
<1>17. Same(o, r.s, AddFields)
  BY <1>6, <1>10, <1>16, SameTwice
<1>18. Same(o, t, AddFields)
  BY <1>13, <1>16, <1>17, SameTwice
<1>19. t.assigns[VarOf(p)] # LUndef
  <2>1. o.nextVar \in Nat /\ o.assigns \in [VarsUpTo(o.nextVar) -> Lbools]
    BY <1>2, KernelTypes
  <2>2. e.assigns = Assigned(o.assigns, p)
    BY <1>5 DEF IsEnqueued
  <2>3. VarOf(p) \in DOMAIN e.assigns /\ e.assigns[VarOf(p)] # LUndef
    <3>1. VarOf(p) \in VarsUpTo(o.nextVar)
      BY <2>1, LitFacts
    <3>2. /\ Assigned(o.assigns, p) \in [VarsUpTo(o.nextVar) -> Lbools]
          /\ Assigned(o.assigns, p)[VarOf(p)] # LUndef
      BY <2>1, ValAssigned
    <3> QED
      BY <2>2, <3>1, <3>2
  <2>4. Grown(e.assigns, r.s.assigns)
    BY <1>9 DEF Propagates
  <2>5. t.assigns = r.s.assigns
    BY <1>13 DEF Same, Fields, OnlyOk
  <2> QED
    BY <2>3, <2>4, <2>5 DEF Grown
<1> QED
  BY <1>14, <1>15, <1>18, <1>19 DEF AddedTo

\* The clause is allocated and listed.
StoredAs(o, lits) ==
    [o EXCEPT !.ca = AllocClause(@, lits, FALSE), !.clauses = Append(@, o.ca.size)]

\* A clause of two literals at least is stored and attached.
LEMMA StoreClauseGood ==
    ASSUME NEW o, NEW strict, Idling(o, strict), NEW lits, LongLits(lits, o.nextVar)
    PROVE  AddedTo(o, AttachClause(StoredAs(o, lits), o.ca.size), strict)
<1> DEFINE cr == o.ca.size
           t == StoredAs(o, lits)
           u == AttachClause(t, cr)
<1>1. Good(o, strict) /\ o.trailLim = <<>> /\ Propagated(o)
  BY DEF Idling, AtRoot
<1>2. IsObject(o) /\ IsRegion(o.ca) /\ o.ca.size \in Nat
  BY <1>1 DEF Good, GoodBut, Region
<1>3. IsStored(o, lits, t)
  <2> DEFINE ca == AllocClause(o.ca, lits, FALSE)
             cs == Append(o.clauses, cr)
  <2>1. Len(lits) \in Nat
    BY DEF LongLits
  <2>2. IsAlloced(o.ca, lits, ca)
    BY <1>2, <2>1, AllocFields
  <2>3. t = [o EXCEPT !.ca = ca, !.clauses = cs]
    BY DEF StoredAs
  <2> HIDE DEF ca, cs, t
  <2>4. IsObject(t) /\ t.ca = ca /\ t.clauses = cs /\ t.learnts = o.learnts /\ Same(o, t, StoreFields)
    BY <1>2, <2>3 DEF IsObject, Fields, Same, StoreFields
  <2> QED
    BY <2>2, <2>4 DEF IsStored, cs
<1> HIDE DEF t
<1>4. NewlyStored(o, lits, t, strict)
  BY <1>1, <1>3, StoreGood
<1>5. /\ Good(t, strict) /\ Unlisted(t, cr) /\ cr \in DOMAIN t.ca.at /\ t.ca.at[cr].mark # 1
      /\ Same(o, t, StoreFields)
  BY <1>4 DEF NewlyStored
<1>6. Good(u, strict) /\ IsAttached(t, cr, u)
  BY <1>5, AttachGood
<1> HIDE DEF u
<1>7. Same(t, u, AttachFields)
  BY <1>6 DEF IsAttached
<1>8. StoreFields \subseteq AddFields /\ AttachFields \subseteq AddFields
  BY DEF AddFields
<1>9. Same(o, u, AddFields)
  BY <1>5, <1>7, <1>8, SameTwice
<1>10. t.trailLim = o.trailLim /\ t.trail = o.trail /\ t.qhead = o.qhead
  BY <1>5 DEF Same, Fields, StoreFields
<1>11. u.trailLim = t.trailLim /\ u.trail = t.trail /\ u.qhead = t.qhead
  BY <1>7 DEF Same, Fields, AttachFields
<1>12. Idling(u, strict)
  BY <1>1, <1>6, <1>10, <1>11 DEF Idling, AtRoot, Propagated
<1> QED
  BY <1>9, <1>12 DEF AddedTo, u, t

\* addClause() keeps an idle object idle.
THEOREM AddClauseGood ==
    ASSUME NEW o, NEW strict, Idling(o, strict), NEW ps \in Seq(LitsOf(o.nextVar))
    PROVE  AddedTo(o, CoreAddClause(o, ps), strict)
<1> DEFINE lits == Pruned(o, ps)
<1>1. Good(o, strict) /\ o.trailLim = <<>> /\ Propagated(o) /\ GoodBut(o, strict)
  BY DEF Idling, AtRoot, Good
<1>2. CASE ~o.ok \/ TriviallyTrue(o, ps)
  <2>1. CoreAddClause(o, ps) = o
    BY <1>2 DEF CoreAddClause
  <2> QED
    BY <2>1 DEF AddedTo, Same
<1>3. CASE ~(~o.ok \/ TriviallyTrue(o, ps))
  <2>1. CoreAddClause(o, ps) = AddPruned(o, lits) /\ o.ok
    BY <1>3 DEF CoreAddClause
  <2>2. PrunedTo(o, lits)
    BY <1>1, <1>3, PrunedFacts
  <2> HIDE DEF lits
  <2>3. lits \in Seq(LitsOf(o.nextVar)) /\ Distinct(lits) /\ Len(lits) \in Nat
        /\ \A i \in DOMAIN lits : Val(o.assigns, lits[i]) = LUndef
    BY <2>2 DEF PrunedTo
  <2>4. CASE Len(lits) = 0
    <3> DEFINE t == [o EXCEPT !.ok = FALSE]
    <3>1. AddPruned(o, lits) = t
      BY <2>4 DEF AddPruned
    <3>2. /\ Good(t, strict) /\ t.trailLim = o.trailLim /\ t.trail = o.trail /\ t.qhead = o.qhead
          /\ Same(o, t, OnlyOk)
      BY <1>1, GivenUp
    <3> HIDE DEF t
    <3>3. Idling(t, strict)
      BY <1>1, <3>2 DEF Idling, AtRoot, Propagated
    <3>4. Same(o, t, AddFields)
      BY <3>2 DEF Same, AddFields, OnlyOk
    <3> QED
      BY <2>1, <3>1, <3>3, <3>4 DEF AddedTo
  <2>5. CASE Len(lits) = 1
    <3>1. AddPruned(o, lits) = AssertUnit(o, lits[1])
      BY <2>5 DEF AddPruned
    <3>2. 1 \in DOMAIN lits /\ lits[1] \in LitsOf(o.nextVar) /\ Val(o.assigns, lits[1]) = LUndef
      <4>1. lits \in Seq(LitsOf(o.nextVar))
        BY <2>3
      <4>2. 1 \in DOMAIN lits
        BY <2>5, <4>1
      <4>3. lits[1] \in LitsOf(o.nextVar)
        BY <4>1, <4>2
      <4> QED
        BY <2>3, <4>2, <4>3
    <3>3. AddedTo(o, AssertUnit(o, lits[1]), strict)
      BY <2>1, <3>2, AssertUnitGood
    <3> QED
      BY <2>1, <3>1, <3>3
  <2>6. CASE Len(lits) # 0 /\ Len(lits) # 1
    <3>1. AddPruned(o, lits) = AttachClause(StoredAs(o, lits), o.ca.size)
      BY <2>6 DEF AddPruned, StoredAs
    <3>2. LongLits(lits, o.nextVar)
      <4>1. Len(lits) >= 2
        <5> DEFINE m == Len(lits)
        <5>1. m \in Nat /\ m # 0 /\ m # 1
          BY <2>3, <2>6
        <5> HIDE DEF m
        <5>2. m >= 2
          BY <5>1
        <5> QED
          BY <5>2 DEF m
      <4> QED
        BY <2>3, <4>1 DEF LongLits
    <3>3. AddedTo(o, AttachClause(StoredAs(o, lits), o.ca.size), strict)
      BY <3>2, StoreClauseGood
    <3> QED
      BY <2>1, <3>1, <3>3
  <2> QED
    BY <2>4, <2>5, <2>6
<1> QED
  BY <1>2, <1>3

-------------------------------------------------------------------------------
(* releaseVar().                                                               *)

\* The clause of one open literal is that literal.
LEMMA UnitPruned ==
    ASSUME NEW o, NEW strict, GoodBut(o, strict), NEW p \in LitsOf(o.nextVar),
           Val(o.assigns, p) = LUndef
    PROVE  ~TriviallyTrue(o, <<p>>) /\ Len(Pruned(o, <<p>>)) = 1 /\ Pruned(o, <<p>>)[1] = p
<1> DEFINE n == o.nextVar
           ps == <<p>>
           S == {q \in ToSet(ps) : Value(o, q) # LFalse}
           keys == Keys(2 * n)
           lits == Only(keys, S)
<1>1. n \in Nat /\ o.assigns \in [VarsUpTo(n) -> Lbools]
  BY KernelTypes
<1>2. ps \in Seq(LitsOf(n)) /\ DOMAIN ps = {1} /\ ps[1] = p /\ ToSet(ps) = {p}
  <2>1. DOMAIN ps = {1} /\ ps[1] = p
    OBVIOUS
  <2>2. ToSet(ps) = {p}
    BY <2>1 DEF ToSet
  <2> QED
    BY <2>1, <2>2
<1>3. Value(o, p) = LUndef
  BY DEF Value, Val
<1> HIDE DEF ps
<1>4. ~TriviallyTrue(o, ps)
  <2>1. ~Satisfied(o, ps)
    BY <1>2, <1>3 DEF Satisfied, LTrue, LUndef
  <2>2. Neg(p) # p
    BY <1>1, LitFacts
  <2>3. ~Contains(ps, Neg(p))
    BY <1>2, <2>2 DEF Contains
  <2> QED
    BY <1>2, <2>1, <2>3 DEF TriviallyTrue
<1>5. PrunedTo(o, Pruned(o, ps))
  BY <1>2, <1>4, PrunedFacts
<1>6. p \in Nat /\ p + 1 \in 1 .. 2 * n /\ (p + 1) - 1 = p
  BY <1>1 DEF LitsOf
<1>7. keys \in Seq(Int) /\ DOMAIN keys = 1 .. 2 * n /\ keys[p + 1] = p
  <2>1. 2 * n \in Nat
    BY <1>1
  <2>2. keys = [i \in 1 .. 2 * n |-> i - 1]
    BY DEF Keys
  <2>3. \A i \in 1 .. 2 * n : i - 1 \in Int
    BY <1>1
  <2> HIDE DEF keys
  <2> QED
    BY <1>6, <2>1, <2>2, <2>3
<1>8. Pruned(o, ps) = lits
  BY DEF Pruned, keys
<1> HIDE DEF keys
<1>9. LeftOf(lits, keys, S)
  BY <1>7, OnlyLeft
<1>10. S = {p}
  BY <1>2, <1>3 DEF LUndef, LFalse
<1> HIDE DEF lits, S
<1>11. Range(lits) = {p}
  <2>1. Range(lits) = Range(keys) \intersect {p}
    BY <1>9, <1>10 DEF LeftOf
  <2>2. p \in Range(keys)
    BY <1>6, <1>7 DEF Range
  <2> QED
    BY <2>1, <2>2
<1>12. \A i \in DOMAIN lits : lits[i] = p
  BY <1>11 DEF Range
<1>13. DOMAIN lits # {}
  BY <1>11 DEF Range
<1>14. lits \in Seq(LitsOf(n)) /\ Distinct(lits) /\ Len(lits) \in Nat /\ DOMAIN lits = 1 .. Len(lits)
  BY <1>5, <1>8 DEF PrunedTo
<1>15. Len(lits) = 1
  <2> DEFINE m == Len(lits)
  <2>1. m \in Nat /\ 1 .. m # {}
    BY <1>13, <1>14
  <2>2. ~(m >= 2)
    <3> SUFFICES ASSUME m >= 2 PROVE FALSE
      OBVIOUS
    <3>1. 1 \in DOMAIN lits /\ 2 \in DOMAIN lits
      BY <1>14
    <3> QED
      BY <1>12, <1>14, <3>1 DEF Distinct
  <2> HIDE DEF m
  <2>3. m = 1
    BY <2>1, <2>2
  <2> QED
    BY <2>3 DEF m
<1>16. lits[1] = p
  BY <1>12, <1>14, <1>15
<1> QED
  BY <1>4, <1>8, <1>15, <1>16 DEF ps

\* The fields of an object that a released variable touches.
OnlyReleased == {"releasedVars"}

\* At the root, an assigned variable is of level 0.
LEMMA RootLevels ==
    ASSUME NEW o, NEW strict, GoodBut(o, strict), o.trailLim = <<>>, NEW v \in VarsUpTo(o.nextVar),
           o.assigns[v] # LUndef
    PROVE  o.level[v] = 0
<1>1. /\ o.assigns \in [VarsUpTo(o.nextVar) -> Lbools] /\ o.trail \in Seq(LitsOf(o.nextVar))
      /\ TrailRight(o.trail, o.trailLim, o.assigns, o.level)
  BY KernelTypes
<1>2. o.level[v] = 0 \/ OnTrail(o.trail, v)
  BY <1>1 DEF TrailRight
<1>3. CASE OnTrail(o.trail, v)
  <2>1. PICK i \in DOMAIN o.trail : VarOf(o.trail[i]) = v
    BY <1>3 DEF OnTrail
  <2>2. AtLevel(o.level[v], <<>>, i)
    BY <1>1, <2>1 DEF TrailRight
  <2> QED
    BY <2>2 DEF AtLevel
<1> QED
  BY <1>2, <1>3

\* A released variable is a fact at the root that was open before.
LEMMA ReleasedMore ==
    ASSUME NEW o, NEW strict, Good(o, strict), o.trailLim = <<>>, NEW v \in VarsUpTo(o.nextVar),
           o.ok => /\ o.assigns[v] # LUndef
                   /\ v \notin Range(o.releasedVars) /\ v \notin Range(o.freeVars),
           NEW t, t = [o EXCEPT !.releasedVars = Append(@, v)]
    PROVE  Good(t, strict) /\ Same(o, t, OnlyReleased)
<1> DEFINE rel == Append(o.releasedVars, v)
           old == o.releasedVars
<1>1. GoodBut(o, strict) /\ IsObject(o) /\ Watched(o) /\ Types(o)
  BY DEF Good, GoodBut
<1>2. t = [o EXCEPT !.releasedVars = rel] /\ old \in Seq(VarsUpTo(o.nextVar))
  BY <1>1 DEF Types
<1> HIDE DEF rel
<1>3. IsObject(t) /\ t.releasedVars = rel /\ Same(o, t, OnlyReleased)
  BY <1>1, <1>2 DEF IsObject, Fields, Same, OnlyReleased
<1>4. /\ t.ca = o.ca /\ t.clauses = o.clauses /\ t.learnts = o.learnts /\ t.watches = o.watches
      /\ t.trail = o.trail /\ t.trailLim = o.trailLim /\ t.assigns = o.assigns /\ t.reason = o.reason
      /\ t.level = o.level /\ t.nextVar = o.nextVar /\ t.freeVars = o.freeVars
      /\ t.ok = o.ok /\ t.decision = o.decision /\ t.useSimp = o.useSimp
      /\ t.qhead = o.qhead
  BY <1>3 DEF Same, Fields, OnlyReleased
<1>5. /\ rel \in Seq(VarsUpTo(o.nextVar)) /\ DOMAIN old = 1 .. Len(old) /\ Len(old) \in Nat
      /\ rel[Len(old) + 1] = v /\ \A i \in DOMAIN old : rel[i] = old[i]
      /\ \A i \in DOMAIN rel : i \in DOMAIN old \/ i = Len(old) + 1
  BY <1>2, Appended DEF rel
<1>6. Types(t)
  BY <1>1, <1>3, <1>4, <1>5 DEF Types
<1>7. o.ok => Released(rel, o.freeVars, o.assigns, o.level)
  <2> SUFFICES ASSUME o.ok PROVE Released(rel, o.freeVars, o.assigns, o.level)
    OBVIOUS
  <2>1. Released(old, o.freeVars, o.assigns, o.level)
    BY <1>1 DEF GoodBut
  <2>2. o.level[v] = 0
    BY <1>1, RootLevels
  <2>3. \A k \in DOMAIN old : old[k] # v
    BY DEF Range
  <2>4. Distinct(rel)
    <3>1. ASSUME NEW i \in DOMAIN rel, NEW j \in DOMAIN rel, rel[i] = rel[j]
          PROVE  i = j
      <4>1. CASE i \in DOMAIN old /\ j \in DOMAIN old
        BY <1>5, <2>1, <3>1, <4>1 DEF Released, Distinct
      <4>2. CASE i \in DOMAIN old /\ j \notin DOMAIN old
        BY <1>5, <2>3, <3>1, <4>2
      <4>3. CASE i \notin DOMAIN old /\ j \in DOMAIN old
        BY <1>5, <2>3, <3>1, <4>3
      <4>4. CASE i \notin DOMAIN old /\ j \notin DOMAIN old
        BY <1>5, <4>4
      <4> QED
        BY <4>1, <4>2, <4>3, <4>4
    <3> QED
      BY <3>1 DEF Distinct
  <2>5. ASSUME NEW k \in DOMAIN rel
        PROVE  /\ o.assigns[rel[k]] # LUndef /\ o.level[rel[k]] = 0
               /\ rel[k] \notin Range(o.freeVars)
    <3>1. CASE k \in DOMAIN old
      BY <1>5, <2>1, <3>1 DEF Released
    <3>2. CASE k = Len(old) + 1
      BY <1>5, <2>2, <3>2
    <3> QED
      BY <1>5, <3>1, <3>2
  <2> QED
    BY <2>4, <2>5 DEF Released
<1>8. GoodBut(t, strict)
  BY <1>1, <1>3, <1>4, <1>6, <1>7 DEF GoodBut
<1>9. Watched(t)
  BY <1>1, <1>4 DEF Watched
<1> QED
  BY <1>3, <1>8, <1>9 DEF Good

\* releaseVar() keeps an idle object idle.
LEMMA ReleaseGood ==
    ASSUME NEW o, NEW strict, Idling(o, strict), NEW p \in LitsOf(o.nextVar)
    PROVE  Idling(CoreReleaseVar(o, p), strict)
<1> DEFINE c == CoreAddClause(o, <<p>>)
           v == VarOf(p)
           t == [c EXCEPT !.releasedVars = Append(@, v)]
           n == o.nextVar
<1>1. Good(o, strict) /\ GoodBut(o, strict)
  BY DEF Idling, AtRoot, Good
<1>2. CASE Value(o, p) # LUndef
  BY <1>2 DEF CoreReleaseVar
<1>3. CASE Value(o, p) = LUndef
  <2>1. CoreReleaseVar(o, p) = t /\ Val(o.assigns, p) = LUndef
    BY <1>3 DEF CoreReleaseVar, Value, Val
  <2>2. <<p>> \in Seq(LitsOf(o.nextVar))
    OBVIOUS
  <2>3. AddedTo(o, c, strict)
    BY <2>2, AddClauseGood
  <2>4. o.ok => c.assigns[v] # LUndef
    <3> SUFFICES ASSUME o.ok PROVE c.assigns[v] # LUndef
      OBVIOUS
    <3>1. ~TriviallyTrue(o, <<p>>) /\ Len(Pruned(o, <<p>>)) = 1 /\ Pruned(o, <<p>>)[1] = p
      BY <1>1, <2>1, UnitPruned
    <3>2. c = AssertUnit(o, p)
      BY <3>1 DEF CoreAddClause, AddPruned
    <3> HIDE DEF c
    <3>3. AssertUnit(o, p).assigns[VarOf(p)] # LUndef
      BY <2>1, AssertUnitGood
    <3> QED
      BY <3>2, <3>3
  <2>5. ~o.ok => c = o
    BY DEF CoreAddClause
  <2> HIDE DEF c
  <2>6. Good(c, strict) /\ c.trailLim = <<>> /\ Propagated(c) /\ Same(o, c, AddFields)
    BY <2>3 DEF AddedTo, Idling, AtRoot
  <2>7. c.nextVar = n /\ c.releasedVars = o.releasedVars /\ c.freeVars = o.freeVars
    BY <2>6 DEF Same, Fields, AddFields, PropFields, VisitFields, EnqueueFields, StoreFields, AttachFields
  <2>8. n \in Nat /\ o.assigns \in [VarsUpTo(n) -> Lbools] /\ v \in VarsUpTo(n) /\ o.assigns[v] = LUndef
    <3>1. n \in Nat /\ o.assigns \in [VarsUpTo(n) -> Lbools]
      BY <1>1, KernelTypes
    <3>2. v \in VarsUpTo(n)
      BY <3>1, LitFacts
    <3> QED
      BY <2>1, <3>1, <3>2, ValFacts
  <2>9. o.ok => v \notin Range(o.releasedVars) /\ v \notin Range(o.freeVars)
    BY <1>1, <2>8 DEF GoodBut, Released, Free, Range
  <2>10. c.ok => /\ c.assigns[v] # LUndef
                 /\ v \notin Range(c.releasedVars) /\ v \notin Range(c.freeVars)
    BY <2>4, <2>5, <2>7, <2>9
  <2>11. Good(t, strict) /\ Same(c, t, OnlyReleased)
    <3>1. v \in VarsUpTo(c.nextVar)
      BY <2>7, <2>8
    <3> HIDE DEF v
    <3> QED
      BY <2>6, <2>10, <3>1, ReleasedMore
  <2> HIDE DEF t
  <2>12. t.trailLim = c.trailLim /\ t.trail = c.trail /\ t.qhead = c.qhead
    BY <2>11 DEF Same, Fields, OnlyReleased
  <2>13. Idling(t, strict)
    BY <2>6, <2>11, <2>12 DEF Idling, AtRoot, Propagated
  <2> QED
    BY <2>1, <2>13
<1> QED
  BY <1>2, <1>3

-------------------------------------------------------------------------------
(* Fields that the invariant is not about.                                     *)

TouchFields == {"polarity", "userPol", "heap", "model", "conflict", "assumptions", "maxLearnts",
                "adjustConfl", "adjustCnt", "confBudget", "propBudget", "interrupt"}

IsTouched(o, t) == IsObject(t) /\ Same(o, t, TouchFields)

\* An object is as good as before when only these change.
LEMMA TouchGood ==
    ASSUME NEW o, NEW strict, Good(o, strict), NEW t, IsTouched(o, t)
    PROVE  AsIs(o, t, strict)
<1>1. TouchFields \intersect (Kernel \union {"qhead"}) = {}
  BY DEF TouchFields, Kernel
<1> QED
  BY <1>1, TouchedGood DEF IsTouched

\* The setters and what a solve() sets before its loop.
LEMMA SettersTouch ==
    ASSUME NEW o, IsObject(o), NEW x, NEW y
    PROVE  /\ IsTouched(o, SetPolarity(o, x, y))
           /\ IsTouched(o, SetConfBudget(o, x)) /\ IsTouched(o, SetPropBudget(o, x))
           /\ IsTouched(o, BudgetOff(o))
           /\ IsTouched(o, Interrupt(o)) /\ IsTouched(o, ClearInterrupt(o))
<1>1. IsTouched(o, SetPolarity(o, x, y))
  <2> DEFINE p == [o.userPol EXCEPT ![x] = y]
  <2>1. SetPolarity(o, x, y) = [o EXCEPT !.userPol = p]
    BY DEF SetPolarity
  <2> HIDE DEF p
  <2> QED
    BY <2>1 DEF IsTouched, IsObject, Same, TouchFields, Fields
<1>2. IsTouched(o, SetConfBudget(o, x))
  BY DEF SetConfBudget, IsTouched, IsObject, Same, TouchFields, Fields
<1>3. IsTouched(o, SetPropBudget(o, x))
  BY DEF SetPropBudget, IsTouched, IsObject, Same, TouchFields, Fields
<1>4. IsTouched(o, BudgetOff(o))
  BY DEF BudgetOff, IsTouched, IsObject, Same, TouchFields, Fields
<1>5. IsTouched(o, Interrupt(o))
  BY DEF Interrupt, IsTouched, IsObject, Same, TouchFields, Fields
<1>6. IsTouched(o, ClearInterrupt(o))
  BY DEF ClearInterrupt, IsTouched, IsObject, Same, TouchFields, Fields
<1> QED
  BY <1>1, <1>2, <1>3, <1>4, <1>5, <1>6

\* One field is set.
LEMMA FieldsTouch ==
    ASSUME NEW o, IsObject(o), NEW x
    PROVE  /\ IsTouched(o, [o EXCEPT !.assumptions = x]) /\ IsTouched(o, [o EXCEPT !.model = x])
           /\ IsTouched(o, [o EXCEPT !.conflict = x]) /\ IsTouched(o, [o EXCEPT !.heap = x])
           /\ IsTouched(o, [o EXCEPT !.confBudget = x]) /\ IsTouched(o, [o EXCEPT !.adjustCnt = x])
<1>1. IsTouched(o, [o EXCEPT !.assumptions = x])
  BY DEF IsTouched, IsObject, Same, TouchFields, Fields
<1>2. IsTouched(o, [o EXCEPT !.model = x])
  BY DEF IsTouched, IsObject, Same, TouchFields, Fields
<1>3. IsTouched(o, [o EXCEPT !.conflict = x])
  BY DEF IsTouched, IsObject, Same, TouchFields, Fields
<1>4. IsTouched(o, [o EXCEPT !.heap = x])
  BY DEF IsTouched, IsObject, Same, TouchFields, Fields
<1>5. IsTouched(o, [o EXCEPT !.confBudget = x])
  BY DEF IsTouched, IsObject, Same, TouchFields, Fields
<1>6. IsTouched(o, [o EXCEPT !.adjustCnt = x])
  BY DEF IsTouched, IsObject, Same, TouchFields, Fields
<1> QED
  BY <1>1, <1>2, <1>3, <1>4, <1>5, <1>6

\* Touched twice.
LEMMA TouchTwice ==
    ASSUME NEW o, NEW t, NEW u, IsTouched(o, t), IsTouched(t, u)
    PROVE  IsTouched(o, u)
BY DEF IsTouched, Same

-------------------------------------------------------------------------------
(* analyze(): resolving backwards along the trail.                             *)

VarsApart(q) == \A i, j \in DOMAIN q : VarOf(q[i]) = VarOf(q[j]) => i = j

\* A variable of the first m literals of the trail.
OnFirst(trail, v, m) == \E j \in DOMAIN trail : j <= m /\ VarOf(trail[j]) = v

\* The literals of a clause that is false by the first m literals of the trail.
Resolvable(o, lits, m) ==
    /\ lits \in Seq(LitsOf(o.nextVar)) /\ Distinct(lits)
    /\ \A k \in DOMAIN lits :
         /\ Val(o.assigns, lits[k]) = LFalse
         /\ o.level[VarOf(lits[k])] > 0 => OnFirst(o.trail, VarOf(lits[k]), m)

\* A false literal of a level between the root and the last one.
LowerLit(o, q) ==
    /\ q \in LitsOf(o.nextVar) /\ Val(o.assigns, q) = LFalse
    /\ o.level[VarOf(q)] > 0 /\ o.level[VarOf(q)] < Len(o.trailLim)

LowerRight(o, q) ==
    /\ q \in Seq(LitsOf(o.nextVar)) /\ VarsApart(q)
    /\ \A k \in DOMAIN q : LowerLit(o, q[k])

\* A seen variable is above the root; one of the last level is among the first m.
SeenRight(o, v, m) ==
    /\ v \in VarsUpTo(o.nextVar) /\ o.level[v] > 0
    /\ o.level[v] >= Len(o.trailLim) => OnFirst(o.trail, v, m)

IsResolved(x) == x = [seen |-> x.seen, lower |-> x.lower, uip |-> x.uip]

\* The clause resolved so far, when m literals of the trail are left.
Side(o, x, m) ==
    /\ IsResolved(x) /\ \A v \in x.seen : SeenRight(o, v, m)
    /\ LowerRight(o, x.lower)
    /\ \A k \in DOMAIN x.lower : VarOf(x.lower[k]) \in x.seen

Took(o, x, t, lits) ==
    /\ x.seen \subseteq t.seen /\ t.uip = x.uip
    /\ \A k \in DOMAIN lits : o.level[VarOf(lits[k])] > 0 => VarOf(lits[k]) \in t.seen

\* Literals that are false are of one variable only if they are the same.
LEMMA FalseApart ==
    ASSUME NEW n \in Nat, NEW assigns \in [VarsUpTo(n) -> Lbools],
           NEW p \in LitsOf(n), NEW q \in LitsOf(n), VarOf(p) = VarOf(q),
           Val(assigns, p) = LFalse, Val(assigns, q) = LFalse
    PROVE  p = q
<1>1. q = p \/ q = Neg(p)
  BY SameVar
<1>2. Val(assigns, Neg(p)) = LTrue
  BY ValFacts
<1> QED
  BY <1>1, <1>2 DEF LTrue, LFalse

\* The literals of a conflicting or implying clause that are below the last level
\* and were not seen.
LEMMA LowerTaken ==
    ASSUME NEW o, NEW strict, GoodBut(o, strict), NEW lits, NEW m, Resolvable(o, lits, m), NEW seen
    PROVE  LowerRight(o, LowerLits(o, lits, seen))
           /\ \A k \in DOMAIN LowerLits(o, lits, seen) :
                LowerLits(o, lits, seen)[k] \in NewLits(o, lits, seen)
<1> DEFINE n == o.nextVar
           N == NewLits(o, lits, seen)
           X == {q \in N : LevelOf(o, q) < DecisionLevel(o)}
           L == Only(lits, X)
<1>1. n \in Nat /\ o.assigns \in [VarsUpTo(n) -> Lbools]
  BY KernelTypes
<1>2. lits \in Seq(LitsOf(n)) /\ Distinct(lits)
      /\ \A k \in DOMAIN lits : Val(o.assigns, lits[k]) = LFalse
  BY DEF Resolvable
<1>3. LowerLits(o, lits, seen) = L
  BY DEF LowerLits
<1>4. L \in Seq(LitsOf(n)) /\ LeftOf(L, lits, X)
  BY <1>2, OnlyLeft
<1> HIDE DEF L
<1>5. PICK at \in [DOMAIN L -> DOMAIN lits] :
               /\ \A i \in DOMAIN L : L[i] = lits[at[i]]
               /\ \A i, j \in DOMAIN L : i < j => at[i] < at[j]
  BY <1>4 DEF LeftOf
<1>6. ASSUME NEW i \in DOMAIN L
      PROVE  LowerLit(o, L[i]) /\ L[i] \in N
  <2>1. L[i] \in X
    <3>1. L[i] \in Range(L)
      BY DEF Range
    <3> QED
      BY <1>4, <3>1 DEF LeftOf
  <2>2. L[i] \in LitsOf(n)
    BY <1>4
  <2>3. Val(o.assigns, L[i]) = LFalse
    BY <1>2, <1>5
  <2> QED
    BY <2>1, <2>2, <2>3 DEF LowerLit, NewLits, LevelOf, DecisionLevel
<1>7. VarsApart(L)
  <2>1. ASSUME NEW i \in DOMAIN L, NEW j \in DOMAIN L, VarOf(L[i]) = VarOf(L[j])
        PROVE  i = j
    <3>1. L[i] = L[j]
      BY <1>1, <1>6, <2>1, FalseApart DEF LowerLit
    <3>2. at[i] = at[j] /\ at[i] \in Int
      <4>1. at[i] \in DOMAIN lits /\ at[j] \in DOMAIN lits
        BY <1>5
      <4>2. lits[at[i]] = lits[at[j]]
        BY <1>5, <3>1
      <4>3. at[i] = at[j]
        BY <1>2, <4>1, <4>2 DEF Distinct
      <4> QED
        BY <1>2, <4>1, <4>3
    <3>3. i \in Int /\ j \in Int
      BY <1>4 DEF LeftOf
    <3>4. ~(i < j) /\ ~(j < i)
      BY <1>5, <3>2
    <3> QED
      BY <3>3, <3>4
  <2> QED
    BY <2>1 DEF VarsApart
<1> QED
  BY <1>3, <1>4, <1>6, <1>7 DEF LowerRight

\* A clause is taken in.
LEMMA TakeInKeeps ==
    ASSUME NEW o, NEW strict, GoodBut(o, strict), NEW x, NEW m, Side(o, x, m),
           NEW lits, Resolvable(o, lits, m)
    PROVE  Side(o, TakeIn(o, x, lits), m) /\ Took(o, x, TakeIn(o, x, lits), lits)
<1> DEFINE n == o.nextVar
           N == NewLits(o, lits, x.seen)
           L == LowerLits(o, lits, x.seen)
           seen == x.seen \union {VarOf(q) : q \in N}
           lower == x.lower \o L
           t == TakeIn(o, x, lits)
<1>1. IsResolved(x) /\ (\A v \in x.seen : SeenRight(o, v, m)) /\ LowerRight(o, x.lower)
      /\ \A k \in DOMAIN x.lower : VarOf(x.lower[k]) \in x.seen
  BY DEF Side
<1>2. n \in Nat /\ o.assigns \in [VarsUpTo(n) -> Lbools]
  BY KernelTypes
<1>3. LowerRight(o, L) /\ \A k \in DOMAIN L : L[k] \in N
  BY LowerTaken
<1>4. lits \in Seq(LitsOf(n))
      /\ \A k \in DOMAIN lits : o.level[VarOf(lits[k])] > 0 => OnFirst(o.trail, VarOf(lits[k]), m)
  BY DEF Resolvable
<1>5. \A q : q \in N <=> /\ \E k \in DOMAIN lits : lits[k] = q
                         /\ VarOf(q) \notin x.seen /\ o.level[VarOf(q)] > 0
  BY DEF NewLits, LevelOf, ToSet
<1>6. t = [x EXCEPT !.seen = seen, !.lower = lower]
  BY DEF TakeIn
<1> HIDE DEF N, L
<1>7. \A v : v \in seen <=> v \in x.seen \/ \E q \in N : v = VarOf(q)
  OBVIOUS
<1>8. x.lower \in Seq(LitsOf(n)) /\ L \in Seq(LitsOf(n)) /\ VarsApart(x.lower) /\ VarsApart(L)
      /\ (\A k \in DOMAIN x.lower : LowerLit(o, x.lower[k])) /\ \A k \in DOMAIN L : LowerLit(o, L[k])
  BY <1>1, <1>3 DEF LowerRight
<1>9. lower \in Seq(LitsOf(n)) /\ Joins(lower, x.lower, L)
  BY <1>8, Concatenated
<1> HIDE DEF seen, lower, t
<1>10. t.seen = seen /\ t.lower = lower /\ t.uip = x.uip /\ IsResolved(t)
  BY <1>1, <1>6 DEF IsResolved
<1>11. ASSUME NEW v \in seen
       PROVE  SeenRight(o, v, m)
  <2>1. CASE v \in x.seen
    BY <1>1, <2>1
  <2>2. CASE v \notin x.seen
    <3>1. PICK q \in N : v = VarOf(q)
      BY <1>7, <2>2
    <3>2. PICK k \in DOMAIN lits : lits[k] = q
      BY <1>5, <3>1
    <3>3. q \in LitsOf(n)
      BY <1>4, <3>2
    <3>4. v \in VarsUpTo(n)
      BY <1>2, <3>1, <3>3, LitFacts
    <3> QED
      BY <1>4, <1>5, <3>1, <3>2, <3>4 DEF SeenRight
  <2> QED
    BY <2>1, <2>2
<1>12. ASSUME NEW k \in DOMAIN lower
       PROVE  VarOf(lower[k]) \in seen /\ LowerLit(o, lower[k])
  <2>1. CASE k \in DOMAIN x.lower /\ lower[k] = x.lower[k]
    BY <1>1, <1>7, <1>8, <2>1
  <2>2. CASE k - Len(x.lower) \in DOMAIN L /\ lower[k] = L[k - Len(x.lower)]
    <3>1. lower[k] \in N
      BY <1>3, <2>2
    <3> QED
      BY <1>7, <1>8, <2>2, <3>1
  <2> QED
    BY <1>9, <2>1, <2>2 DEF Joins
<1>13. VarsApart(lower)
  <2>1. ASSUME NEW i \in DOMAIN lower, NEW j \in DOMAIN lower, VarOf(lower[i]) = VarOf(lower[j])
        PROVE  i = j
    <3> DEFINE len == Len(x.lower)
    <3>1. len \in Int /\ i \in Int /\ j \in Int
      BY <1>8, <1>9
    <3> HIDE DEF len
    <3>2. \A k \in DOMAIN lower : \/ k \in DOMAIN x.lower /\ lower[k] = x.lower[k]
                                  \/ k \notin DOMAIN x.lower /\ k - len \in DOMAIN L /\ lower[k] = L[k - len]
      BY <1>9 DEF Joins, len
    <3>3. CASE i \in DOMAIN x.lower /\ j \in DOMAIN x.lower
      BY <1>8, <2>1, <3>2, <3>3 DEF VarsApart
    <3>4. CASE i \notin DOMAIN x.lower /\ j \notin DOMAIN x.lower
      <4>1. i - len = j - len
        BY <1>8, <2>1, <3>2, <3>4 DEF VarsApart
      <4> QED
        BY <3>1, <4>1
    <3>5. \A a, b \in DOMAIN lower : a \in DOMAIN x.lower /\ b \notin DOMAIN x.lower
                                     => VarOf(lower[a]) # VarOf(lower[b])
      <4>1. \A a \in DOMAIN lower : a \in DOMAIN x.lower => VarOf(lower[a]) \in x.seen
        BY <1>1, <3>2
      <4>2. \A b \in DOMAIN lower : b \notin DOMAIN x.lower => VarOf(lower[b]) \notin x.seen
        BY <1>3, <1>5, <3>2
      <4> QED
        BY <4>1, <4>2
    <3> QED
      BY <2>1, <3>3, <3>4, <3>5
  <2> QED
    BY <2>1 DEF VarsApart
<1>14. Side(o, t, m)
  BY <1>9, <1>10, <1>11, <1>12, <1>13 DEF Side, LowerRight
<1>15. Took(o, x, t, lits)
  <2>1. x.seen \subseteq seen
    BY <1>7
  <2>2. ASSUME NEW k \in DOMAIN lits, o.level[VarOf(lits[k])] > 0
        PROVE  VarOf(lits[k]) \in seen
    BY <1>5, <1>7, <2>2
  <2> QED
    BY <1>10, <2>1, <2>2 DEF Took
<1> QED
  BY <1>14, <1>15 DEF t

\* What comes after the first of a sequence.
Follows1(t, q) ==
    /\ DOMAIN t = 1 .. Len(q) - 1
    /\ \A k \in DOMAIN t : k + 1 \in DOMAIN q /\ t[k] = q[k + 1]
    /\ \A k \in DOMAIN q : k # 1 => k - 1 \in DOMAIN t /\ t[k - 1] = q[k]

\* The elements of a tail are those of the sequence, one place on.
LEMMA TailFacts ==
    ASSUME NEW X, NEW q \in Seq(X), Len(q) >= 1
    PROVE  Tail(q) \in Seq(X) /\ Len(Tail(q)) = Len(q) - 1 /\ Follows1(Tail(q), q)
<1> DEFINE t == Tail(q)
<1>1. t \in Seq(X) /\ Len(t) = Len(q) - 1 /\ Len(q) \in Nat /\ DOMAIN q = 1 .. Len(q)
  <2>1. q # <<>>
    OBVIOUS
  <2> QED
    BY <2>1
<1>2. \A k \in 1 .. Len(q) - 1 : t[k] = q[k + 1]
  OBVIOUS
<1> HIDE DEF t
<1>3. DOMAIN t = 1 .. Len(q) - 1
  BY <1>1
<1>4. \A k \in DOMAIN t : k + 1 \in DOMAIN q /\ t[k] = q[k + 1]
  BY <1>1, <1>2, <1>3
<1>5. ASSUME NEW k \in DOMAIN q, k # 1
      PROVE  k - 1 \in DOMAIN t /\ t[k - 1] = q[k]
  <2>1. k - 1 \in 1 .. Len(q) - 1 /\ (k - 1) + 1 = k
    BY <1>1, <1>5
  <2> QED
    BY <1>2, <1>3, <2>1
<1> QED
  BY <1>1, <1>3, <1>4, <1>5 DEF Follows1, t

\* The literals of a reason are false by what comes before on the trail.
LEMMA ReasonResolvable ==
    ASSUME NEW o, NEW strict, GoodBut(o, strict), NEW m \in DOMAIN o.trail,
           NEW lits, LongLits(lits, o.nextVar), AllFalse(lits, m, o.trail, o.level, o.assigns)
    PROVE  Resolvable(o, Tail(lits), m - 1)
<1> DEFINE n == o.nextVar
           t == Tail(lits)
<1>1. n \in Nat /\ o.trail \in Seq(LitsOf(n)) /\ o.level \in [VarsUpTo(n) -> Nat]
  BY KernelTypes
<1>2. lits \in Seq(LitsOf(n)) /\ Len(lits) >= 1 /\ Len(lits) \in Nat /\ Distinct(lits)
      /\ DOMAIN lits = 1 .. Len(lits)
  BY DEF LongLits
<1>3. t \in Seq(LitsOf(n)) /\ Follows1(t, lits)
  BY <1>2, TailFacts
<1> HIDE DEF t
<1>4. DOMAIN t = 1 .. Len(lits) - 1 /\ \A k \in DOMAIN t : k + 1 \in DOMAIN lits /\ t[k] = lits[k + 1]
  BY <1>3 DEF Follows1
<1>5. Distinct(t)
  <2>1. ASSUME NEW i \in DOMAIN t, NEW j \in DOMAIN t, t[i] = t[j]
        PROVE  i = j
    <3>1. i + 1 = j + 1
      BY <1>2, <1>4, <2>1 DEF Distinct
    <3> QED
      BY <1>2, <1>4, <3>1
  <2> QED
    BY <2>1 DEF Distinct
<1>6. ASSUME NEW k \in DOMAIN t
      PROVE  /\ Val(o.assigns, t[k]) = LFalse
             /\ o.level[VarOf(t[k])] > 0 => OnFirst(o.trail, VarOf(t[k]), m - 1)
  <2>1. k + 1 \in 2 .. Len(lits) /\ t[k] = lits[k + 1]
    BY <1>2, <1>4
  <2>2. FalseBefore(t[k], m, o.trail, o.level, o.assigns)
    BY <2>1 DEF AllFalse
  <2>3. t[k] \in LitsOf(n)
    BY <1>3
  <2>4. Val(o.assigns, t[k]) = LFalse
    BY <2>2 DEF FalseBefore
  <2>5. ASSUME o.level[VarOf(t[k])] > 0
        PROVE  OnFirst(o.trail, VarOf(t[k]), m - 1)
    <3>1. PICK j \in 1 .. m - 1 : o.trail[j] = Neg(t[k])
      <4>1. o.level[VarOf(t[k])] # 0
        BY <2>5
      <4> QED
        BY <2>2, <4>1 DEF FalseBefore
    <3>2. j \in DOMAIN o.trail /\ j <= m - 1
      BY <1>1
    <3>3. VarOf(Neg(t[k])) = VarOf(t[k])
      BY <1>1, <2>3, LitFacts
    <3> QED
      BY <3>1, <3>2, <3>3 DEF OnFirst
  <2> QED
    BY <2>4, <2>5
<1> QED
  BY <1>3, <1>5, <1>6 DEF Resolvable, t

\* The implication point: true, of the last level.
UipRight(o, p) ==
    p \in LitsOf(o.nextVar) /\ Val(o.assigns, p) = LTrue /\ o.level[VarOf(p)] = Len(o.trailLim)

\* m literals of the trail are left.
ResolvedTo(o, x, m) ==
    /\ IsResolved(x) /\ LowerRight(o, x.lower)
    /\ x.uip = LitUndef => Side(o, x, m) /\ \E v \in x.seen : o.level[v] >= Len(o.trailLim)
    /\ x.uip # LitUndef => UipRight(o, x.uip)

Others(x, u) == [x EXCEPT !.seen = @ \ {u}]

\* A seen variable that is not the one at position m.
LEMMA SeenEarlier ==
    ASSUME NEW o, NEW strict, GoodBut(o, strict), NEW m \in DOMAIN o.trail, NEW v,
           SeenRight(o, v, m), VarOf(o.trail[m]) # v
    PROVE  SeenRight(o, v, m - 1)
<1>1. o.trail \in Seq(LitsOf(o.nextVar))
  BY KernelTypes
<1>2. ASSUME o.level[v] >= Len(o.trailLim)
      PROVE  OnFirst(o.trail, v, m - 1)
  <2>1. PICK j \in DOMAIN o.trail : j <= m /\ VarOf(o.trail[j]) = v
    BY <1>2 DEF SeenRight, OnFirst
  <2>2. j # m
    BY <2>1
  <2>3. j <= m - 1
    BY <1>1, <2>1, <2>2
  <2> QED
    BY <2>1, <2>3 DEF OnFirst
<1> QED
  BY <1>2 DEF SeenRight

\* The variable at position m is seen: it is of the last level.
LEMMA SeenLast ==
    ASSUME NEW o, NEW strict, GoodBut(o, strict), NEW m \in DOMAIN o.trail, NEW v,
           SeenRight(o, v, m), o.level[v] >= Len(o.trailLim)
    PROVE  o.level[VarOf(o.trail[m])] = Len(o.trailLim)
<1> DEFINE u == VarOf(o.trail[m])
<1>1. /\ o.trail \in Seq(LitsOf(o.nextVar)) /\ o.trailLim \in Seq(Nat) /\ o.nextVar \in Nat
      /\ TrailRight(o.trail, o.trailLim, o.assigns, o.level)
  BY KernelTypes
<1>2. PICK j \in DOMAIN o.trail : j <= m /\ VarOf(o.trail[j]) = v
  BY DEF SeenRight, OnFirst
<1>3. AtLevel(o.level[v], o.trailLim, j) /\ AtLevel(o.level[u], o.trailLim, m)
  BY <1>1, <1>2 DEF TrailRight
<1>4. m \in Nat /\ j \in Nat
  BY <1>1
<1>5. o.level[v] <= o.level[u]
  BY <1>1, <1>2, <1>3, <1>4, LevelsOrdered
<1>6. o.level[u] \in 0 .. Len(o.trailLim) /\ o.level[v] \in 0 .. Len(o.trailLim)
  BY <1>3 DEF AtLevel
<1> HIDE DEF u
<1>7. Len(o.trailLim) \in Nat
  BY <1>1
<1>8. o.level[u] = Len(o.trailLim)
  BY <1>5, <1>6, <1>7
<1> QED
  BY <1>8 DEF u

\* A literal of the last level that is not its first has a reason, whose other
\* literals are false by what comes before.
LEMMA LastHasReason ==
    ASSUME NEW o, GoodBut(o, TRUE), NEW m \in DOMAIN o.trail, NEW v,
           SeenRight(o, v, m - 1), o.level[v] >= Len(o.trailLim), Len(o.trailLim) > 0,
           o.level[VarOf(o.trail[m])] = Len(o.trailLim)
    PROVE  Resolvable(o, Tail(Lits(o, ReasonOf(o, o.trail[m]))), m - 1)
<1> DEFINE p == o.trail[m]
           cr == o.reason[VarOf(p)]
           lits == o.ca.at[cr].lits
<1>1. /\ o.trail \in Seq(LitsOf(o.nextVar)) /\ o.trailLim \in Seq(Nat) /\ o.nextVar \in Nat
      /\ TrailRight(o.trail, o.trailLim, o.assigns, o.level) /\ Clauses(o.ca.at, o.nextVar)
  BY KernelTypes
<1>2. PICK j \in DOMAIN o.trail : j <= m - 1 /\ VarOf(o.trail[j]) = v
  BY DEF SeenRight, OnFirst
<1>3. AtLevel(o.level[v], o.trailLim, j)
  BY <1>1, <1>2 DEF TrailRight
<1>4. m - 1 \notin Range(o.trailLim)
  <2>1. ASSUME NEW l \in DOMAIN o.trailLim
        PROVE  o.trailLim[l] # m - 1
    <3>1. o.trailLim[l] < j
      <4>1. l <= Len(o.trailLim) /\ l \in Nat /\ Len(o.trailLim) \in Nat
        BY <1>1
      <4>2. o.level[v] \in 0 .. Len(o.trailLim)
        BY <1>3 DEF AtLevel
      <4>3. l <= o.level[v]
        BY <4>1, <4>2
      <4> QED
        BY <1>3, <4>3 DEF AtLevel
    <3>2. o.trailLim[l] \in Nat /\ j \in Nat /\ m \in Nat
      BY <1>1
    <3> QED
      BY <1>2, <3>1, <3>2
  <2> QED
    BY <2>1 DEF Range
<1>5. InOrder(m, o.trailLim, o.trail, o.level, o.assigns, cr, o.ca.at)
      /\ (cr # CRefUndef => IsReason(cr, p, o.ca.at))
  BY DEF GoodBut, Reasons
<1>6. cr # CRefUndef /\ AllFalse(lits, m, o.trail, o.level, o.assigns)
  BY <1>4, <1>5 DEF InOrder
<1>7. LongLits(lits, o.nextVar)
  BY <1>1, <1>5, <1>6 DEF IsReason, Clauses, IsClause
<1>8. Lits(o, ReasonOf(o, p)) = lits
  BY DEF Lits, ReasonOf
<1> HIDE DEF lits, p
<1>9. Resolvable(o, Tail(lits), m - 1)
  BY <1>6, <1>7, ReasonResolvable
<1> QED
  BY <1>8, <1>9 DEF p

\* One literal of the trail is looked at.
LEMMA ResolveStep ==
    ASSUME NEW o, GoodBut(o, TRUE), Len(o.trailLim) > 0, NEW m \in DOMAIN o.trail, NEW x,
           ResolvedTo(o, x, m)
    PROVE  ResolvedTo(o, ResolveOn(o, x, o.trail[m]), m - 1)
<1> DEFINE p == o.trail[m]
           u == VarOf(p)
           y == Others(x, u)
           r == ResolveOn(o, x, p)
           DL == Len(o.trailLim)
<1>1. /\ o.trail \in Seq(LitsOf(o.nextVar)) /\ o.trailLim \in Seq(Nat) /\ o.nextVar \in Nat
      /\ TrailRight(o.trail, o.trailLim, o.assigns, o.level)
      /\ o.level \in [VarsUpTo(o.nextVar) -> Nat]
  BY KernelTypes
<1>2. p \in LitsOf(o.nextVar)
  BY <1>1
<1>3. u \in VarsUpTo(o.nextVar) /\ p \in Nat /\ Val(o.assigns, p) = LTrue
  BY <1>1, <1>2, LitFacts DEF TrailRight
<1>4. IsResolved(x) /\ LowerRight(o, x.lower)
  BY DEF ResolvedTo
<1>5. CASE x.uip # LitUndef
  <2>1. r = x
    BY <1>5 DEF ResolveOn
  <2> HIDE DEF r
  <2>2. ResolvedTo(o, r, m - 1)
    BY <1>5, <2>1 DEF ResolvedTo
  <2> QED
    BY <2>2 DEF r
<1>6. CASE x.uip = LitUndef
  <2>0. Side(o, x, m) /\ \E v \in x.seen : o.level[v] >= DL
    BY <1>6 DEF ResolvedTo
  <2>1. (\A v \in x.seen : SeenRight(o, v, m)) /\ \A k \in DOMAIN x.lower : VarOf(x.lower[k]) \in x.seen
    BY <2>0 DEF Side
  <2>2. PICK w \in x.seen : o.level[w] >= DL
    BY <2>0
  <2>3. CASE u \notin x.seen
    <3>1. r = x
      BY <2>3 DEF ResolveOn
    <3>2. \A v \in x.seen : SeenRight(o, v, m - 1)
      BY <2>1, <2>3, SeenEarlier
    <3>3. Side(o, x, m - 1)
      BY <1>4, <2>1, <3>2 DEF Side
    <3> HIDE DEF r
    <3>4. ResolvedTo(o, r, m - 1)
      BY <1>4, <1>6, <2>2, <3>1, <3>3 DEF ResolvedTo
    <3> QED
      BY <3>4 DEF r
  <2>4. CASE u \in x.seen
    <3>1. o.level[u] = DL
      BY <2>1, <2>2, SeenLast
    <3>2. y.seen = x.seen \ {u} /\ y.lower = x.lower /\ y.uip = x.uip /\ IsResolved(y)
      <4> DEFINE rest == x.seen \ {u}
      <4>1. y = [x EXCEPT !.seen = rest]
        BY DEF Others
      <4> HIDE DEF rest, y
      <4>2. y.seen = rest /\ y.lower = x.lower /\ y.uip = x.uip /\ IsResolved(y)
        BY <1>4, <4>1 DEF IsResolved
      <4> QED
        BY <4>2 DEF rest
    <3>3. y = [x EXCEPT !.seen = @ \ {VarOf(p)}]
      BY DEF Others
    <3> HIDE DEF y
    <3>4. \A v \in y.seen : SeenRight(o, v, m - 1)
      BY <2>1, <3>2, SeenEarlier
    <3>5. \A k \in DOMAIN y.lower : VarOf(y.lower[k]) \in y.seen
      <4>1. ASSUME NEW k \in DOMAIN x.lower
            PROVE  VarOf(x.lower[k]) # u
        <5>1. o.level[VarOf(x.lower[k])] < DL
          BY <1>4 DEF LowerRight, LowerLit
        <5>2. DL \in Nat
          BY <1>1
        <5> QED
          BY <3>1, <5>1, <5>2
      <4> QED
        BY <2>1, <3>2, <4>1
    <3>6. Side(o, y, m - 1)
      BY <1>4, <3>2, <3>4, <3>5 DEF Side
    <3>7. CASE \E v \in y.seen : o.level[v] >= DL
      <4> DEFINE lits == Tail(Lits(o, ReasonOf(o, p)))
                 z == TakeIn(o, y, lits)
      <4>1. PICK v \in y.seen : o.level[v] >= DL
        BY <3>7
      <4>2. Resolvable(o, lits, m - 1)
        BY <3>1, <3>4, <4>1, LastHasReason
      <4>3. r = z
        BY <1>6, <2>4, <3>3, <3>7 DEF ResolveOn, DecisionLevel
      <4> HIDE DEF lits, r
      <4>4. Side(o, z, m - 1) /\ Took(o, y, z, lits)
        BY <3>6, <4>2, TakeInKeeps
      <4> HIDE DEF z
      <4>5. z.uip = LitUndef /\ v \in z.seen
        BY <1>6, <3>2, <4>4 DEF Took
      <4>6. IsResolved(z) /\ LowerRight(o, z.lower)
        BY <4>4 DEF Side
      <4>7. ResolvedTo(o, z, m - 1)
        BY <4>1, <4>4, <4>5, <4>6 DEF ResolvedTo
      <4> QED
        BY <4>3, <4>7 DEF r
    <3>8. CASE ~\E v \in y.seen : o.level[v] >= DL
      <4>1. r = [x EXCEPT !.uip = p]
        BY <1>6, <2>4, <3>3, <3>8 DEF ResolveOn, DecisionLevel
      <4> HIDE DEF r
      <4>2. r.uip = p /\ r.lower = x.lower /\ IsResolved(r)
        BY <1>4, <4>1 DEF IsResolved
      <4>3. p # LitUndef
        BY <1>3 DEF LitUndef
      <4>4. UipRight(o, p)
        BY <1>2, <1>3, <3>1 DEF UipRight
      <4>5. ResolvedTo(o, r, m - 1)
        BY <1>4, <4>2, <4>3, <4>4 DEF ResolvedTo
      <4> QED
        BY <4>5 DEF r
    <3> QED
      BY <3>7, <3>8
  <2> QED
    BY <2>3, <2>4
<1> QED
  BY <1>5, <1>6

ResolveRun(g, s, acc) ==
    /\ g[0] = acc
    /\ \A i \in 1 .. Len(s.trail) : g[i] = ResolveOn(s, g[i - 1], s.trail[Len(s.trail) + 1 - i])

\* The loop down the trail runs.
LEMMA ResolveRuns ==
    ASSUME NEW s, NEW acc, Len(s.trail) \in Nat
    PROVE  \E g : ResolveRun(g, s, acc) /\ ResolveFrom(s, acc) = g[Len(s.trail)]
<1> DEFINE n == Len(s.trail)
           x0 == acc
           loop[i \in 0 .. n] == IF i = 0 THEN x0 ELSE ResolveOn(s, loop[i - 1], s.trail[Len(s.trail) + 1 - i])
           S == {m \in Nat : \E g : g = [i \in 0 .. m |-> IF i = 0 THEN x0
                                                        ELSE ResolveOn(s, g[i - 1], s.trail[Len(s.trail) + 1 - i])]}
<1>1. ResolveFrom(s, acc) = loop[n]
  BY DEF ResolveFrom
<1> HIDE DEF x0
<1>2. 0 \in S
  <2> DEFINE g == [i \in 0 .. 0 |-> x0]
  <2>1. g = [i \in 0 .. 0 |-> IF i = 0 THEN x0 ELSE ResolveOn(s, g[i - 1], s.trail[Len(s.trail) + 1 - i])]
    OBVIOUS
  <2> HIDE DEF g
  <2> QED
    BY <2>1
<1>3. ASSUME NEW m \in Nat, m \in S
      PROVE  m + 1 \in S
  <2>1. PICK g : g = [i \in 0 .. m |-> IF i = 0 THEN x0 ELSE ResolveOn(s, g[i - 1], s.trail[Len(s.trail) + 1 - i])]
    BY <1>3
  <2> DEFINE h == [i \in 0 .. m + 1 |-> IF i = m + 1 THEN ResolveOn(s, g[m], s.trail[Len(s.trail) + 1 - (m + 1)]) ELSE g[i]]
  <2>2. ASSUME NEW i \in 0 .. m + 1
        PROVE  h[i] = IF i = 0 THEN x0 ELSE ResolveOn(s, h[i - 1], s.trail[Len(s.trail) + 1 - i])
    <3>1. CASE i = m + 1
      <4>1. i - 1 = m /\ m \in 0 .. m + 1 /\ m # m + 1 /\ i # 0
        BY <3>1
      <4>2. h[i - 1] = g[m]
        BY <2>1, <4>1
      <4> QED
        BY <3>1, <4>1, <4>2
    <3>2. CASE i # m + 1
      <4>1. i \in 0 .. m
        BY <3>2
      <4>2. h[i] = g[i] /\ g[i] = IF i = 0 THEN x0 ELSE ResolveOn(s, g[i - 1], s.trail[Len(s.trail) + 1 - i])
        BY <2>1, <3>2, <4>1
      <4>3. CASE i # 0
        <5>1. i - 1 \in 0 .. m + 1 /\ i - 1 # m + 1
          BY <4>1, <4>3
        <5>2. h[i - 1] = g[i - 1]
          BY <5>1
        <5> QED
          BY <4>2, <4>3, <5>2
      <4> QED
        BY <4>2, <4>3
    <3> QED
      BY <3>1, <3>2
  <2>3. h = [i \in 0 .. m + 1 |-> IF i = 0 THEN x0 ELSE ResolveOn(s, h[i - 1], s.trail[Len(s.trail) + 1 - i])]
    <3>1. h = [i \in 0 .. m + 1 |-> h[i]]
      OBVIOUS
    <3> HIDE DEF h
    <3> QED
      BY <2>2, <3>1
  <2>4. \E k : k = [i \in 0 .. m + 1 |-> IF i = 0 THEN x0 ELSE ResolveOn(s, k[i - 1], s.trail[Len(s.trail) + 1 - i])]
    <3> HIDE DEF h
    <3> QED
      BY <2>3
  <2> QED
    BY <2>4
<1>4. n \in S
  <2> HIDE DEF S
  <2>1. Nat \subseteq S
    BY <1>2, <1>3, InductionOn
  <2> QED
    BY <2>1
<1>5. loop = [i \in 0 .. n |-> IF i = 0 THEN x0 ELSE ResolveOn(s, loop[i - 1], s.trail[Len(s.trail) + 1 - i])]
  <2>1. \E g : g = [i \in 0 .. n |-> IF i = 0 THEN x0 ELSE ResolveOn(s, g[i - 1], s.trail[Len(s.trail) + 1 - i])]
    BY <1>4
  <2>2. loop = CHOOSE g : g = [i \in 0 .. n |-> IF i = 0 THEN x0
                                              ELSE ResolveOn(s, g[i - 1], s.trail[Len(s.trail) + 1 - i])]
    BY DEF loop
  <2> HIDE DEF loop
  <2> QED
    BY <2>1, <2>2, Zenon
<1> HIDE DEF loop
<1>6. loop[0] = x0 /\ \A i \in 1 .. n : loop[i] = ResolveOn(s, loop[i - 1], s.trail[Len(s.trail) + 1 - i])
  <2>1. 0 \in 0 .. n /\ \A i \in 1 .. n : i \in 0 .. n /\ i # 0
    OBVIOUS
  <2> HIDE DEF n
  <2> QED
    BY <1>5, <2>1
<1>7. ResolveRun(loop, s, acc)
  BY <1>6 DEF ResolveRun, x0
<1> QED
  BY <1>1, <1>7

\* A first literal that is false of the last level, and lower ones.
LearntRight(o, q) ==
    /\ q \in Seq(LitsOf(o.nextVar)) /\ Len(q) >= 1 /\ VarsApart(q)
    /\ Val(o.assigns, q[1]) = LFalse /\ o.level[VarOf(q[1])] = Len(o.trailLim)
    /\ \A k \in 2 .. Len(q) : LowerLit(o, q[k])

\* A literal is put before lower ones.
LEMMA LearntJoined ==
    ASSUME NEW o, NEW p \in LitsOf(o.nextVar), Val(o.assigns, p) = LFalse,
           o.level[VarOf(p)] = Len(o.trailLim), Len(o.trailLim) \in Nat, NEW q, LowerRight(o, q)
    PROVE  LearntRight(o, <<p>> \o q)
<1> DEFINE t == <<p>> \o q
<1>1. q \in Seq(LitsOf(o.nextVar)) /\ VarsApart(q) /\ \A k \in DOMAIN q : LowerLit(o, q[k])
  BY DEF LowerRight
<1>2. <<p>> \in Seq(LitsOf(o.nextVar)) /\ Len(<<p>>) = 1 /\ DOMAIN <<p>> = {1} /\ <<p>>[1] = p
  OBVIOUS
<1>3. /\ t \in Seq(LitsOf(o.nextVar)) /\ Len(t) = Len(q) + 1 /\ Len(q) \in Nat
      /\ DOMAIN t = 1 .. Len(q) + 1 /\ DOMAIN q = 1 .. Len(q)
  BY <1>1
<1>4. t[1] = p /\ \A k \in 1 .. Len(q) : t[k + 1] = q[k]
  BY <1>1
<1> HIDE DEF t
<1>5. ASSUME NEW k \in DOMAIN t, k # 1
      PROVE  k - 1 \in DOMAIN q /\ t[k] = q[k - 1] /\ LowerLit(o, t[k])
  <2>1. k - 1 \in 1 .. Len(q) /\ (k - 1) + 1 = k
    BY <1>3, <1>5
  <2>2. t[k] = q[k - 1] /\ k - 1 \in DOMAIN q
    BY <1>3, <1>4, <2>1
  <2> QED
    BY <1>1, <2>2
<1>6. \A k \in 2 .. Len(t) : LowerLit(o, t[k])
  BY <1>3, <1>5
<1>7. VarsApart(t)
  <2>1. \A k \in DOMAIN t : k # 1 => VarOf(t[k]) # VarOf(p)
    <3>1. ASSUME NEW k \in DOMAIN t, k # 1
          PROVE  VarOf(t[k]) # VarOf(p)
      <4>1. o.level[VarOf(t[k])] < Len(o.trailLim)
        BY <1>5, <3>1 DEF LowerLit
      <4> QED
        BY <4>1
    <3> QED
      BY <3>1
  <2>2. ASSUME NEW i \in DOMAIN t, NEW j \in DOMAIN t, VarOf(t[i]) = VarOf(t[j])
        PROVE  i = j
    <3>1. CASE i # 1 /\ j # 1
      <4>1. i - 1 = j - 1
        BY <1>1, <1>5, <2>2, <3>1 DEF VarsApart
      <4> QED
        BY <1>3, <4>1
    <3>2. CASE i = 1 \/ j = 1
      BY <1>4, <2>1, <2>2, <3>2
    <3> QED
      BY <3>1, <3>2
  <2> QED
    BY <2>2 DEF VarsApart
<1>8. LearntRight(o, t)
  BY <1>3, <1>4, <1>6, <1>7 DEF LearntRight
<1> QED
  BY <1>8 DEF t

\* What comes after the first literal.
LEMMA LearntTail ==
    ASSUME NEW o, NEW q, LearntRight(o, q)
    PROVE  LowerRight(o, Tail(q)) /\ q[1] \in LitsOf(o.nextVar)
<1> DEFINE t == Tail(q)
<1>1. /\ q \in Seq(LitsOf(o.nextVar)) /\ Len(q) >= 1 /\ VarsApart(q)
      /\ \A k \in 2 .. Len(q) : LowerLit(o, q[k])
  BY DEF LearntRight
<1>2. t \in Seq(LitsOf(o.nextVar)) /\ Follows1(t, q) /\ DOMAIN q = 1 .. Len(q) /\ Len(q) \in Nat
  BY <1>1, TailFacts
<1> HIDE DEF t
<1>3. DOMAIN t = 1 .. Len(q) - 1 /\ \A k \in DOMAIN t : k + 1 \in DOMAIN q /\ t[k] = q[k + 1]
  BY <1>2 DEF Follows1
<1>4. ASSUME NEW k \in DOMAIN t
      PROVE  LowerLit(o, t[k])
  <2>1. k + 1 \in 2 .. Len(q)
    BY <1>2, <1>3
  <2> QED
    BY <1>1, <1>3, <2>1
<1>5. VarsApart(t)
  <2>1. ASSUME NEW i \in DOMAIN t, NEW j \in DOMAIN t, VarOf(t[i]) = VarOf(t[j])
        PROVE  i = j
    <3>1. i + 1 = j + 1
      BY <1>1, <1>3, <2>1 DEF VarsApart
    <3> QED
      BY <1>2, <1>3, <3>1
  <2> QED
    BY <2>1 DEF VarsApart
<1>6. LowerRight(o, t)
  BY <1>2, <1>4, <1>5 DEF LowerRight
<1>7. q[1] \in LitsOf(o.nextVar)
  BY <1>1, <1>2
<1> QED
  BY <1>6, <1>7 DEF t

\* Some of the lower literals.
LEMMA LowerOnly ==
    ASSUME NEW o, NEW q, LowerRight(o, q), NEW S
    PROVE  LowerRight(o, Only(q, S))
<1> DEFINE t == Only(q, S)
<1>1. q \in Seq(LitsOf(o.nextVar)) /\ VarsApart(q) /\ \A k \in DOMAIN q : LowerLit(o, q[k])
  BY DEF LowerRight
<1>2. t \in Seq(LitsOf(o.nextVar)) /\ LeftOf(t, q, S)
  BY <1>1, OnlyLeft
<1> HIDE DEF t
<1>3. PICK at \in [DOMAIN t -> DOMAIN q] : /\ \A i \in DOMAIN t : t[i] = q[at[i]]
                                           /\ \A i, j \in DOMAIN t : i < j => at[i] < at[j]
  BY <1>2 DEF LeftOf
<1>4. \A k \in DOMAIN t : LowerLit(o, t[k])
  BY <1>1, <1>3
<1>5. VarsApart(t)
  <2>1. ASSUME NEW i \in DOMAIN t, NEW j \in DOMAIN t, VarOf(t[i]) = VarOf(t[j])
        PROVE  i = j
    <3>1. at[i] \in DOMAIN q /\ at[j] \in DOMAIN q
      BY <1>3
    <3>2. at[i] = at[j]
      BY <1>1, <1>3, <2>1, <3>1 DEF VarsApart
    <3>3. at[i] \in Int /\ i \in Int /\ j \in Int
      BY <1>1, <1>2, <3>1 DEF LeftOf
    <3>4. ~(i < j) /\ ~(j < i)
      BY <1>3, <3>2, <3>3
    <3> QED
      BY <3>3, <3>4
  <2> QED
    BY <2>1 DEF VarsApart
<1>6. LowerRight(o, t)
  BY <1>2, <1>4, <1>5 DEF LowerRight
<1> QED
  BY <1>6 DEF t

\* The clause in conflict is false by what is on the trail.
LEMMA ConflictResolvable ==
    ASSUME NEW o, NEW strict, GoodBut(o, strict), NEW cr, ConflictRight(o, cr)
    PROVE  Resolvable(o, Lits(o, cr), Len(o.trail))
<1> DEFINE lits == o.ca.at[cr].lits
           n == o.nextVar
<1>1. /\ n \in Nat /\ o.assigns \in [VarsUpTo(n) -> Lbools] /\ o.trail \in Seq(LitsOf(n))
      /\ o.level \in [VarsUpTo(n) -> Nat]
      /\ TrailRight(o.trail, o.trailLim, o.assigns, o.level) /\ Clauses(o.ca.at, n)
  BY KernelTypes
<1>2. cr \in DOMAIN o.ca.at /\ \A k \in DOMAIN lits : Val(o.assigns, lits[k]) = LFalse
  BY DEF ConflictRight
<1>3. lits \in Seq(LitsOf(n)) /\ Distinct(lits)
  BY <1>1, <1>2 DEF Clauses, IsClause, LongLits
<1> HIDE DEF lits
<1>4. ASSUME NEW k \in DOMAIN lits, o.level[VarOf(lits[k])] > 0
      PROVE  OnFirst(o.trail, VarOf(lits[k]), Len(o.trail))
  <2> DEFINE v == VarOf(lits[k])
  <2>1. lits[k] \in LitsOf(n)
    BY <1>3
  <2>2. v \in VarsUpTo(n)
    BY <1>1, <2>1, LitFacts
  <2>3. o.assigns[v] # LUndef
    <3>1. Val(o.assigns, lits[k]) # LUndef
      BY <1>2 DEF LFalse, LUndef
    <3> QED
      BY <1>1, <2>1, <3>1, ValFacts
  <2>4. o.level[v] # 0
    BY <1>1, <1>4, <2>2
  <2> HIDE DEF v
  <2>5. OnTrail(o.trail, v)
    BY <1>1, <2>2, <2>3, <2>4 DEF TrailRight
  <2>6. OnFirst(o.trail, v, Len(o.trail))
    <3>1. PICK i \in DOMAIN o.trail : VarOf(o.trail[i]) = v
      BY <2>5 DEF OnTrail
    <3>2. i <= Len(o.trail)
      BY <1>1
    <3> QED
      BY <3>1, <3>2 DEF OnFirst
  <2> QED
    BY <2>6 DEF v
<1>5. Resolvable(o, lits, Len(o.trail))
  BY <1>2, <1>3, <1>4 DEF Resolvable
<1> QED
  BY <1>5 DEF Lits, lits

\* The clause in conflict is where the resolution starts.
LEMMA ResolveStarts ==
    ASSUME NEW o, NEW strict, GoodBut(o, strict), NEW cr, ConflictRight(o, cr), Len(o.trailLim) > 0,
           NEW x, x = [seen |-> {}, lower |-> <<>>, uip |-> LitUndef]
    PROVE  ResolvedTo(o, TakeIn(o, x, Lits(o, cr)), Len(o.trail))
<1> DEFINE lits == Lits(o, cr)
           y == TakeIn(o, x, lits)
           n == Len(o.trail)
<1>1. x.seen = {} /\ x.lower = <<>> /\ x.uip = LitUndef /\ IsResolved(x)
  BY DEF IsResolved
<1>2. Side(o, x, n)
  <2>1. LowerRight(o, x.lower)
    BY <1>1 DEF LowerRight, VarsApart
  <2> QED
    BY <1>1, <2>1 DEF Side
<1>3. Resolvable(o, lits, n)
  BY ConflictResolvable
<1>4. PICK k \in DOMAIN lits : o.level[VarOf(lits[k])] = Len(o.trailLim)
  BY DEF ConflictRight, Lits
<1> HIDE DEF lits
<1>5. Side(o, y, n) /\ Took(o, x, y, lits)
  BY <1>2, <1>3, TakeInKeeps
<1> HIDE DEF y
<1>6. VarOf(lits[k]) \in y.seen /\ y.uip = LitUndef
  BY <1>1, <1>4, <1>5 DEF Took
<1>7. o.trailLim \in Seq(Nat)
  BY KernelTypes
<1>8. o.level[VarOf(lits[k])] >= Len(o.trailLim)
  BY <1>4, <1>7
<1>9. IsResolved(y) /\ LowerRight(o, y.lower)
  BY <1>5 DEF Side
<1>10. ResolvedTo(o, y, n)
  BY <1>5, <1>6, <1>8, <1>9 DEF ResolvedTo
<1> QED
  BY <1>10 DEF y, lits

\* Resolution ends at an implication point.
LEMMA ResolveEnds ==
    ASSUME NEW o, GoodBut(o, TRUE), Len(o.trailLim) > 0, NEW x, ResolvedTo(o, x, Len(o.trail))
    PROVE  LET r == ResolveFrom(o, x) IN LowerRight(o, r.lower) /\ UipRight(o, r.uip)
<1> DEFINE n == Len(o.trail)
<1>a. o.trail \in Seq(LitsOf(o.nextVar))
  BY KernelTypes
<1>1. n \in Nat /\ DOMAIN o.trail = 1 .. n
  BY <1>a
<1>2. PICK g : ResolveRun(g, o, x) /\ ResolveFrom(o, x) = g[n]
  BY <1>1, ResolveRuns
<1>3. g[0] = x /\ \A i \in 1 .. n : g[i] = ResolveOn(o, g[i - 1], o.trail[n + 1 - i])
  BY <1>2 DEF ResolveRun
<1> DEFINE S == {i \in Nat : i <= n => ResolvedTo(o, g[i], n - i)}
<1>4. 0 \in S
  <2>1. n - 0 = n
    BY <1>1
  <2> QED
    BY <1>3, <2>1
<1>5. ASSUME NEW i \in Nat, i \in S
      PROVE  i + 1 \in S
  <2> SUFFICES ASSUME i + 1 <= n PROVE ResolvedTo(o, g[i + 1], n - (i + 1))
    OBVIOUS
  <2> DEFINE m == n - i
             y == g[i]
  <2>1. m \in DOMAIN o.trail /\ m - 1 = n - (i + 1) /\ n + 1 - (i + 1) = m /\ i + 1 \in 1 .. n
        /\ (i + 1) - 1 = i /\ i <= n
    <3> HIDE DEF n
    <3>1. m \in 1 .. n /\ m - 1 = n - (i + 1) /\ n + 1 - (i + 1) = m /\ i + 1 \in 1 .. n
          /\ (i + 1) - 1 = i /\ i <= n
      BY <1>1
    <3> QED
      BY <1>1, <3>1
  <2>2. ResolvedTo(o, y, m)
    BY <1>5, <2>1
  <2>3. g[i + 1] = ResolveOn(o, y, o.trail[m])
    BY <1>3, <2>1
  <2> HIDE DEF m, y
  <2>4. ResolvedTo(o, ResolveOn(o, y, o.trail[m]), m - 1)
    BY <2>1, <2>2, ResolveStep
  <2> QED
    BY <2>1, <2>3, <2>4
<1>6. n \in S
  <2> HIDE DEF S
  <2>1. Nat \subseteq S
    BY <1>4, <1>5, InductionOn
  <2> QED
    BY <1>1, <2>1
<1> DEFINE r == g[n]
<1>7. ResolvedTo(o, r, 0)
  <2>1. n - n = 0
    BY <1>1
  <2> QED
    BY <1>1, <1>6, <2>1
<1> HIDE DEF r
<1>8. r.uip # LitUndef
  <2> SUFFICES ASSUME r.uip = LitUndef PROVE FALSE
    OBVIOUS
  <2>1. Side(o, r, 0) /\ \E v \in r.seen : o.level[v] >= Len(o.trailLim)
    BY <1>7 DEF ResolvedTo
  <2>2. PICK v \in r.seen : o.level[v] >= Len(o.trailLim)
    BY <2>1
  <2>3. OnFirst(o.trail, v, 0)
    BY <2>1, <2>2 DEF Side, SeenRight
  <2> QED
    BY <1>1, <2>3 DEF OnFirst
<1>9. LowerRight(o, r.lower) /\ UipRight(o, r.uip)
  BY <1>7, <1>8 DEF ResolvedTo
<1> QED
  BY <1>2, <1>9 DEF r

\* The clause resolved to the first implication point.
LEMMA ResolveGood ==
    ASSUME NEW o, GoodBut(o, TRUE), NEW cr, ConflictRight(o, cr), Len(o.trailLim) > 0
    PROVE  LearntRight(o, ResolveToUIP(o, Lits(o, cr)))
<1> DEFINE x == [seen |-> {}, lower |-> <<>>, uip |-> LitUndef]
           y == TakeIn(o, x, Lits(o, cr))
           r == ResolveFrom(o, y)
           p == Neg(r.uip)
<1>1. ResolvedTo(o, y, Len(o.trail))
  BY ResolveStarts
<1>2. ResolveToUIP(o, Lits(o, cr)) = LearntOf(r)
  BY DEF ResolveToUIP
<1> HIDE DEF y
<1>3. LowerRight(o, r.lower) /\ UipRight(o, r.uip)
  BY <1>1, ResolveEnds
<1> HIDE DEF r
<1>4. o.nextVar \in Nat /\ o.assigns \in [VarsUpTo(o.nextVar) -> Lbools] /\ o.trailLim \in Seq(Nat)
  BY KernelTypes
<1>5. r.uip \in LitsOf(o.nextVar) /\ Val(o.assigns, r.uip) = LTrue
      /\ o.level[VarOf(r.uip)] = Len(o.trailLim)
  BY <1>3 DEF UipRight
<1>6. p \in LitsOf(o.nextVar) /\ VarOf(p) = VarOf(r.uip)
  BY <1>4, <1>5, LitFacts
<1>7. Val(o.assigns, p) = LFalse
  BY <1>4, <1>5, ValFacts
<1>8. Len(o.trailLim) \in Nat
  BY <1>4
<1> HIDE DEF p
<1>9. LearntRight(o, <<p>> \o r.lower)
  BY <1>3, <1>5, <1>6, <1>7, <1>8, LearntJoined
<1> QED
  BY <1>2, <1>9 DEF LearntOf, p

\* Redundant literals are dropped.
LEMMA MinimizeKeeps ==
    ASSUME NEW o, NEW strict, GoodBut(o, strict), NEW q, LearntRight(o, q)
    PROVE  LearntRight(o, Minimize(o, q))
<1>1. PICK S : Minimize(o, q) = <<q[1]>> \o Only(Tail(q), S)
  BY DEF Minimize
<1>2. LowerRight(o, Tail(q)) /\ q[1] \in LitsOf(o.nextVar)
  BY LearntTail
<1>3. LowerRight(o, Only(Tail(q), S))
  BY <1>2, LowerOnly
<1>4. Val(o.assigns, q[1]) = LFalse /\ o.level[VarOf(q[1])] = Len(o.trailLim)
  BY DEF LearntRight
<1>5. Len(o.trailLim) \in Nat
  BY KernelTypes
<1>6. LearntRight(o, <<q[1]>> \o Only(Tail(q), S))
  BY <1>2, <1>3, <1>4, <1>5, LearntJoined
<1> QED
  BY <1>1, <1>6

\* Of the positions 2 to m, i is the first at which f is greatest.
Topmost(f, m, i) ==
    i \in 2 .. m /\ \A j \in 2 .. m \ {i} : f[i] > f[j] \/ (i < j /\ ~(f[j] > f[i]))

\* There is one.
LEMMA TopExists ==
    ASSUME NEW n \in Nat, n >= 2, NEW f, \A j \in 2 .. n : f[j] \in Nat
    PROVE  \E i : Topmost(f, n, i)
<1> DEFINE S == {k \in Nat : k + 2 <= n => \E i : Topmost(f, k + 2, i)}
<1>1. 0 \in S
  <2>1. Topmost(f, 2, 2)
    BY DEF Topmost
  <2> QED
    BY <2>1
<1>2. ASSUME NEW k \in Nat, k \in S
      PROVE  k + 1 \in S
  <2> SUFFICES ASSUME (k + 1) + 2 <= n PROVE \E i : Topmost(f, (k + 1) + 2, i)
    OBVIOUS
  <2> DEFINE m == k + 2
  <2>1. m \in Nat /\ m >= 2 /\ (k + 1) + 2 = m + 1 /\ m + 1 <= n
    OBVIOUS
  <2>2. PICK i : Topmost(f, m, i)
    BY <1>2, <2>1
  <2> HIDE DEF m
  <2>3. i \in 2 .. m /\ \A j \in 2 .. m \ {i} : f[i] > f[j] \/ (i < j /\ ~(f[j] > f[i]))
    BY <2>2 DEF Topmost
  <2>4. \A j \in 2 .. m + 1 : f[j] \in Nat
    BY <2>1
  <2>5. CASE f[m + 1] > f[i]
    <3>1. ASSUME NEW j \in 2 .. m + 1 \ {m + 1}
          PROVE  f[m + 1] > f[j]
      <4>1. j \in 2 .. m /\ f[j] \in Nat /\ f[i] \in Nat /\ f[m + 1] \in Nat
        BY <2>1, <2>3, <2>4
      <4>2. j = i \/ f[i] > f[j] \/ ~(f[j] > f[i])
        BY <2>3, <4>1
      <4> QED
        BY <2>5, <4>1, <4>2
    <3>2. Topmost(f, m + 1, m + 1)
      BY <2>1, <3>1 DEF Topmost
    <3> QED
      BY <2>1, <3>2
  <2>6. CASE ~(f[m + 1] > f[i])
    <3>1. ASSUME NEW j \in 2 .. m + 1 \ {i}
          PROVE  f[i] > f[j] \/ (i < j /\ ~(f[j] > f[i]))
      <4>1. CASE j = m + 1
        BY <2>1, <2>3, <2>6, <4>1
      <4>2. CASE j # m + 1
        <5>1. j \in 2 .. m \ {i}
          BY <2>1, <4>2
        <5> QED
          BY <2>3, <5>1
      <4> QED
        BY <4>1, <4>2
    <3>2. i \in 2 .. m + 1
      BY <2>1, <2>3
    <3>3. Topmost(f, m + 1, i)
      BY <3>1, <3>2 DEF Topmost
    <3> QED
      BY <2>1, <3>3
  <2> QED
    BY <2>5, <2>6
<1>3. n - 2 \in S /\ n - 2 \in Nat /\ (n - 2) + 2 = n
  <2> HIDE DEF S
  <2>1. Nat \subseteq S
    BY <1>1, <1>2, InductionOn
  <2> QED
    BY <2>1
<1> QED
  BY <1>3

\* The clause to learn and the level to go back to: that of its second literal, which
\* none of the others is above.
AssertingRight(o, a) ==
    /\ LearntRight(o, a.learnt)
    /\ a.btlevel \in Nat /\ a.btlevel < Len(o.trailLim)
    /\ Len(a.learnt) = 1 => a.btlevel = 0
    /\ Len(a.learnt) # 1 => /\ a.btlevel > 0 /\ o.level[VarOf(a.learnt[2])] = a.btlevel
                            /\ \A k \in 2 .. Len(a.learnt) : o.level[VarOf(a.learnt[k])] <= a.btlevel

\* The literals of a learnt clause of two literals at least.
LEMMA LearntLong ==
    ASSUME NEW o, NEW q, LearntRight(o, q), Len(q) # 1
    PROVE  LongLits(q, o.nextVar) /\ Len(q) \in Nat /\ Len(q) >= 2 /\ DOMAIN q = 1 .. Len(q)
<1>1. q \in Seq(LitsOf(o.nextVar)) /\ Len(q) >= 1 /\ VarsApart(q)
  BY DEF LearntRight
<1>2. Len(q) \in Nat /\ DOMAIN q = 1 .. Len(q)
  BY <1>1
<1>3. Len(q) >= 2
  <2> DEFINE m == Len(q)
  <2>1. m \in Nat /\ m >= 1 /\ m # 1
    BY <1>1, <1>2
  <2> HIDE DEF m
  <2>2. m >= 2
    BY <2>1
  <2> QED
    BY <2>2 DEF m
<1>4. Distinct(q)
  BY <1>1 DEF VarsApart, Distinct
<1> QED
  BY <1>1, <1>2, <1>3, <1>4 DEF LongLits

\* The second literal changes places with another.
LEMMA LearntSwapped ==
    ASSUME NEW o, NEW q, LearntRight(o, q), Len(q) # 1, NEW i \in 2 .. Len(q), NEW t, t = Swap(q, 2, i)
    PROVE  LearntRight(o, t) /\ Len(t) = Len(q) /\ t[2] = q[i]
           /\ \A k \in 2 .. Len(t) : \E j \in 2 .. Len(q) : t[k] = q[j]
<1> DEFINE n == Len(q)
           at(k) == IF k = 2 THEN i ELSE IF k = i THEN 2 ELSE k
<1>1. LongLits(q, o.nextVar) /\ n \in Nat /\ n >= 2 /\ DOMAIN q = 1 .. n
  BY LearntLong
<1> HIDE DEF n
<1>a. i \in 2 .. n
  BY DEF n
<1>2. 2 \in DOMAIN q /\ i \in DOMAIN q
  BY <1>1, <1>a
<1>3. LongLits(t, o.nextVar) /\ Len(t) = n /\ t[2] = q[i] /\ t[i] = q[2]
      /\ \A k \in DOMAIN q : k # 2 /\ k # i => t[k] = q[k]
  <2>1. LongLits(Swap(q, 2, i), o.nextVar)
    BY <1>1, <1>2, SwapFacts
  <2>2. Len(Swap(q, 2, i)) = Len(q)
    BY <1>1, <1>2, SwapFacts
  <2>3. Swap(q, 2, i)[2] = q[i] /\ Swap(q, 2, i)[i] = q[2]
    BY <1>1, <1>2, SwapFacts
  <2>4. \A k \in DOMAIN q : k # 2 /\ k # i => Swap(q, 2, i)[k] = q[k]
    <3>1. q \in Seq(LitsOf(o.nextVar))
      BY DEF LearntRight
    <3> QED
      BY <1>2, <3>1 DEF Swap
  <2> QED
    BY <2>1, <2>2, <2>3, <2>4 DEF n
<1>4. t \in Seq(LitsOf(o.nextVar)) /\ DOMAIN t = 1 .. n
  BY <1>3 DEF LongLits
<1>5. \A k \in DOMAIN t : t[k] = q[at(k)] /\ at(k) \in DOMAIN q
  BY <1>1, <1>2, <1>3, <1>4
<1>6. \A k, j \in DOMAIN t : at(k) = at(j) => k = j
  OBVIOUS
<1>7. at(1) = 1 /\ \A k \in 2 .. n : at(k) \in 2 .. n
  BY <1>1, <1>a
<1> HIDE DEF at
<1>8. VarsApart(q) /\ \A k \in 2 .. n : LowerLit(o, q[k])
  BY DEF LearntRight, n
<1>9. VarsApart(t)
  BY <1>5, <1>6, <1>8 DEF VarsApart
<1>10. 1 \in DOMAIN t /\ \A k \in 2 .. n : k \in DOMAIN t
  BY <1>1, <1>4
<1>11. t[1] = q[1] /\ \A k \in 2 .. n : LowerLit(o, t[k])
  BY <1>5, <1>7, <1>8, <1>10
<1>12. \A k \in 2 .. n : \E j \in 2 .. n : t[k] = q[j]
  BY <1>5, <1>7, <1>10
<1>13. LearntRight(o, t)
  BY <1>1, <1>3, <1>4, <1>9, <1>11 DEF LearntRight
<1> QED
  BY <1>3, <1>12, <1>13 DEF n

\* The clause analyze() returns asserts its first literal at the level to go
\* back to.
LEMMA AssertingGood ==
    ASSUME NEW o, NEW strict, GoodBut(o, strict), Len(o.trailLim) > 0, NEW q, LearntRight(o, q)
    PROVE  AssertingRight(o, Asserting(o, q))
<1>1. o.trailLim \in Seq(Nat) /\ o.level \in [VarsUpTo(o.nextVar) -> Nat] /\ o.nextVar \in Nat
  BY KernelTypes
<1>2. CASE Len(q) = 1
  <2>1. Asserting(o, q) = [learnt |-> q, btlevel |-> 0]
    BY <1>2 DEF Asserting
  <2> QED
    BY <1>2, <2>1 DEF AssertingRight
<1>3. CASE Len(q) # 1
  <2> DEFINE f == [j \in 2 .. Len(q) |-> LevelOf(o, q[j])]
             top == CHOOSE i \in 2 .. Len(q) : \A j \in 2 .. Len(q) \ {i} :
                      LevelOf(o, q[i]) > LevelOf(o, q[j]) \/ (i < j /\ ~(LevelOf(o, q[j]) > LevelOf(o, q[i])))
             t == Swap(q, 2, top)
  <2>1. Asserting(o, q) = [learnt |-> t, btlevel |-> LevelOf(o, q[top])]
    BY <1>3 DEF Asserting
  <2>2. Len(q) \in Nat /\ Len(q) >= 2 /\ DOMAIN q = 1 .. Len(q) /\ LongLits(q, o.nextVar)
    BY <1>3, LearntLong
  <2>3. \A j \in 2 .. Len(q) : LowerLit(o, q[j])
    BY DEF LearntRight
  <2>4. \A j \in 2 .. Len(q) : /\ LevelOf(o, q[j]) \in Nat /\ LevelOf(o, q[j]) > 0
                               /\ LevelOf(o, q[j]) < Len(o.trailLim)
    <3>1. TAKE j \in 2 .. Len(q)
    <3>2. q[j] \in LitsOf(o.nextVar) /\ o.level[VarOf(q[j])] > 0 /\ o.level[VarOf(q[j])] < Len(o.trailLim)
      BY <2>3 DEF LowerLit
    <3>3. VarOf(q[j]) \in VarsUpTo(o.nextVar)
      BY <1>1, <3>2, LitFacts
    <3>4. o.level[VarOf(q[j])] \in Nat
      BY <1>1, <3>3
    <3> QED
      BY <3>2, <3>4 DEF LevelOf
  <2>5. \E i : Topmost(f, Len(q), i)
    <3>1. \A j \in 2 .. Len(q) : f[j] \in Nat
      BY <2>4
    <3> HIDE DEF f
    <3> QED
      BY <2>2, <3>1, TopExists
  <2>6. \E i \in 2 .. Len(q) : \A j \in 2 .. Len(q) \ {i} :
            LevelOf(o, q[i]) > LevelOf(o, q[j]) \/ (i < j /\ ~(LevelOf(o, q[j]) > LevelOf(o, q[i])))
    <3>1. PICK i : Topmost(f, Len(q), i)
      BY <2>5
    <3>2. i \in 2 .. Len(q) /\ \A j \in 2 .. Len(q) \ {i} : f[i] > f[j] \/ (i < j /\ ~(f[j] > f[i]))
      BY <3>1 DEF Topmost
    <3>3. f[i] = LevelOf(o, q[i]) /\ \A j \in 2 .. Len(q) : f[j] = LevelOf(o, q[j])
      BY <3>2
    <3> HIDE DEF f
    <3>4. \A j \in 2 .. Len(q) \ {i} :
            LevelOf(o, q[i]) > LevelOf(o, q[j]) \/ (i < j /\ ~(LevelOf(o, q[j]) > LevelOf(o, q[i])))
      BY <3>2, <3>3
    <3> QED
      BY <3>2, <3>4
  <2>7. top \in 2 .. Len(q) /\ \A j \in 2 .. Len(q) \ {top} :
            LevelOf(o, q[top]) > LevelOf(o, q[j]) \/ (top < j /\ ~(LevelOf(o, q[j]) > LevelOf(o, q[top])))
    BY <2>6
  <2> HIDE DEF top, f
  <2>8. \A j \in 2 .. Len(q) : LevelOf(o, q[j]) <= LevelOf(o, q[top])
    <3>1. TAKE j \in 2 .. Len(q)
    <3>2. LevelOf(o, q[j]) \in Nat /\ LevelOf(o, q[top]) \in Nat
      BY <2>4, <2>7
    <3>3. j = top \/ LevelOf(o, q[top]) > LevelOf(o, q[j]) \/ ~(LevelOf(o, q[j]) > LevelOf(o, q[top]))
      BY <2>7
    <3> QED
      BY <3>2, <3>3
  <2>9. LearntRight(o, t) /\ Len(t) = Len(q) /\ t[2] = q[top]
        /\ \A k \in 2 .. Len(t) : \E j \in 2 .. Len(q) : t[k] = q[j]
    BY <1>3, <2>7, LearntSwapped
  <2> HIDE DEF t
  <2> DEFINE L == LevelOf(o, q[top])
  <2>10. L \in Nat /\ L > 0 /\ L < Len(o.trailLim)
    BY <2>4, <2>7
  <2>11. \A k \in 2 .. Len(t) : LevelOf(o, t[k]) <= L
    BY <2>8, <2>9
  <2>12. LevelOf(o, t[2]) = L
    BY <2>9
  <2> HIDE DEF L
  <2>13. AssertingRight(o, [learnt |-> t, btlevel |-> L])
    BY <1>3, <2>9, <2>10, <2>11, <2>12 DEF AssertingRight, LevelOf
  <2> QED
    BY <2>1, <2>13 DEF L
<1> QED
  BY <1>2, <1>3

\* analyze(): what is learnt from a conflict above the root.
THEOREM AnalyzeGood ==
    ASSUME NEW o, GoodBut(o, TRUE), NEW cr, ConflictRight(o, cr), Len(o.trailLim) > 0
    PROVE  AssertingRight(o, Analyze(o, cr))
<1> DEFINE q == ResolveToUIP(o, Lits(o, cr))
           m == Minimize(o, q)
<1>1. LearntRight(o, q)
  BY ResolveGood
<1> HIDE DEF q
<1>2. LearntRight(o, m)
  BY <1>1, MinimizeKeeps
<1> HIDE DEF m
<1>3. AssertingRight(o, Asserting(o, m))
  BY <1>2, AssertingGood
<1> QED
  BY <1>3 DEF Analyze, q, m
===============================================================================
