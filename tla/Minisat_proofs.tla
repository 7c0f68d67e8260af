---------------------------- MODULE Minisat_proofs ----------------------------
(* The clients of a Solver: whatever they call, and whenever they are          *)
(* interrupted, the trail is in order, every clause that is attached follows   *)
(* from those that were added, and so do the answers that are no model.        *)
(* Clients of a SimpSolver are checked on instances only.                      *)
EXTENDS MinisatMain, Solver_proofs, FiniteSetTheorems

-------------------------------------------------------------------------------
(* Learning a clause.                                                          *)

\* Back at the level of the learnt clause: its first literal is open, the others false.
LearnBack(o, a, t) ==
    /\ CancelGoodTo(o, a.btlevel, t, TRUE)
    /\ Val(t.assigns, a.learnt[1]) = LUndef
    /\ \A j \in 2 .. Len(a.learnt) : Val(t.assigns, a.learnt[j]) = LFalse
    /\ Len(a.learnt) # 1 => Len(t.trail) \notin Range(t.trailLim)

\* A false literal above the root is on the trail, at its level.
LEMMA FalseOnTrail ==
    ASSUME NEW o, NEW strict, GoodBut(o, strict), NEW q \in LitsOf(o.nextVar),
           Val(o.assigns, q) = LFalse, o.level[VarOf(q)] > 0
    PROVE  \E i \in DOMAIN o.trail : /\ VarOf(o.trail[i]) = VarOf(q)
                                     /\ AtLevel(o.level[VarOf(q)], o.trailLim, i)
<1>1. /\ o.nextVar \in Nat /\ o.assigns \in [VarsUpTo(o.nextVar) -> Lbools]
      /\ TrailRight(o.trail, o.trailLim, o.assigns, o.level)
  BY KernelTypes
<1>2. VarOf(q) \in VarsUpTo(o.nextVar)
  BY <1>1, LitFacts
<1>3. Val(o.assigns, q) # LUndef
  BY DEF LFalse, LUndef
<1>4. o.assigns[VarOf(q)] # LUndef
  BY <1>1, <1>3, ValFacts
<1>5. VarOf(q) \in DOMAIN o.assigns
  BY <1>1, <1>2
<1>6. o.level[VarOf(q)] = 0 \/ OnTrail(o.trail, VarOf(q))
  BY <1>1, <1>4, <1>5 DEF TrailRight
<1>7. o.level[VarOf(q)] # 0
  OBVIOUS
<1>8. PICK i \in DOMAIN o.trail : VarOf(o.trail[i]) = VarOf(q)
  BY <1>6, <1>7 DEF OnTrail
<1>9. AtLevel(o.level[VarOf(o.trail[i])], o.trailLim, i)
  BY <1>1 DEF TrailRight
<1> QED
  BY <1>8, <1>9

\* Back at the level of a learnt clause, its first literal is undefined and the
\* others are false.
LEMMA LearnBackGood ==
    ASSUME NEW o, GoodBut(o, TRUE), NEW a, AssertingRight(o, a)
    PROVE  LearnBack(o, a, CancelUntil(o, a.btlevel))
<1> DEFINE k == a.btlevel
           keep == o.trailLim[k + 1]
           t == CancelUntil(o, k)
           q == a.learnt
           n == o.nextVar
           U == Undone(o.trail, keep)
<1>1. /\ n \in Nat /\ o.assigns \in [VarsUpTo(n) -> Lbools]
      /\ o.level \in [VarsUpTo(n) -> Nat] /\ o.trail \in Seq(LitsOf(n))
      /\ o.trailLim \in Seq(Nat) /\ TrailRight(o.trail, o.trailLim, o.assigns, o.level)
  BY KernelTypes
<1>2. k \in Nat /\ k < Len(o.trailLim) /\ LearntRight(o, q)
  BY DEF AssertingRight
<1>3. CancelGoodTo(o, k, t, TRUE)
  BY <1>2, CancelGood
<1> HIDE DEF t
<1>4. IsCancelled(o, k, keep, t) /\ Len(t.trailLim) = k
  BY <1>3 DEF CancelGoodTo
<1>5. EndsAt(o.trailLim, k, keep)
  <2>1. Len(o.trailLim) \in Nat
    BY <1>1
  <2> QED
    BY <1>2, <2>1 DEF EndsAt
<1> HIDE DEF keep
<1>6. KeptPart(o.trail, o.trailLim, k, keep, o.level)
  BY <1>1, <1>2, <1>5, UndoneAbove
<1>7. /\ \A v \in U : o.level[v] \in Nat /\ o.level[v] > k
      /\ \A i \in DOMAIN o.trail : i <= keep => o.level[VarOf(o.trail[i])] <= k
      /\ keep \in 0 .. Len(o.trail)
  BY <1>6 DEF KeptPart
<1>8. Unassigns(n, o.assigns, U, t.assigns)
  <2>1. t.assigns = Unassigned(o.assigns, U)
    BY <1>4 DEF IsCancelled
  <2>2. Unassigns(n, o.assigns, U, Unassigned(o.assigns, U))
    BY <1>1, StaysAssigned
  <2> QED
    BY <2>1, <2>2
<1>9. /\ t.assigns \in [VarsUpTo(n) -> Lbools]
      /\ \A v \in VarsUpTo(n) : v \in U => t.assigns[v] = LUndef
      /\ \A p \in LitsOf(n) : VarOf(p) \notin U => Val(t.assigns, p) = Val(o.assigns, p)
  BY <1>8 DEF Unassigns
<1>10. Val(t.assigns, q[1]) = LUndef
  <2> DEFINE p == q[1]
             L == Len(o.trailLim)
  <2>a. q \in Seq(LitsOf(n)) /\ Len(q) >= 1
    BY <1>2 DEF LearntRight
  <2>b. 1 \in DOMAIN q
    BY <2>a
  <2>1. p \in LitsOf(n)
    BY <2>a, <2>b
  <2>2. Val(o.assigns, p) = LFalse /\ o.level[VarOf(p)] = L
    BY <1>2 DEF LearntRight
  <2> HIDE DEF p
  <2>3. L \in Nat /\ L > k
    BY <1>1, <1>2
  <2> HIDE DEF L
  <2>4. o.level[VarOf(p)] > 0
    BY <1>2, <2>2, <2>3
  <2>5. PICK i \in DOMAIN o.trail : VarOf(o.trail[i]) = VarOf(p)
    BY <2>1, <2>2, <2>4, FalseOnTrail
  <2>6. ~(i <= keep)
    BY <1>2, <1>7, <2>2, <2>3, <2>5
  <2>7. i \in keep + 1 .. Len(o.trail)
    <3>1. DOMAIN o.trail = 1 .. Len(o.trail)
      BY <1>1
    <3> QED
      BY <1>7, <2>6, <3>1
  <2>8. VarOf(p) \in U
    BY <2>5, <2>7 DEF Undone
  <2>9. VarOf(p) \in VarsUpTo(n)
    BY <1>1, <2>1, LitFacts
  <2> HIDE DEF U
  <2>10. t.assigns[VarOf(p)] = LUndef
    BY <1>9, <2>8, <2>9
  <2>11. Val(t.assigns, p) = LUndef
    BY <1>1, <1>9, <2>1, <2>10, ValFacts
  <2> QED
    BY <2>11 DEF p
<1>11. ASSUME NEW j \in 2 .. Len(q)
       PROVE  LowerLit(o, q[j]) /\ o.level[VarOf(q[j])] <= k /\ Len(q) # 1
  <2>1. LowerLit(o, q[j])
    BY <1>2 DEF LearntRight
  <2>2. Len(q) # 1
    <3> DEFINE m == Len(q)
    <3>1. j \in 2 .. m
      OBVIOUS
    <3> HIDE DEF m
    <3>2. m # 1
      BY <3>1
    <3> QED
      BY <3>2 DEF m
  <2>3. o.level[VarOf(q[j])] <= k
    BY <1>11, <2>2 DEF AssertingRight
  <2> QED
    BY <2>1, <2>2, <2>3
<1>12. ASSUME NEW j \in 2 .. Len(q)
       PROVE  Val(t.assigns, q[j]) = LFalse
  <2>1. q[j] \in LitsOf(n) /\ Val(o.assigns, q[j]) = LFalse
    BY <1>11 DEF LowerLit
  <2>2. VarOf(q[j]) \notin U
    <3>1. o.level[VarOf(q[j])] <= k
      BY <1>11
    <3> HIDE DEF U
    <3> QED
      BY <1>2, <1>7, <3>1
  <2> QED
    BY <1>9, <2>1, <2>2
<1>13. ASSUME Len(q) # 1
       PROVE  Len(t.trail) \notin Range(t.trailLim)
  <2>1. k > 0 /\ o.level[VarOf(q[2])] = k
    BY <1>13 DEF AssertingRight
  <2>2. Len(q) >= 2
    BY <1>2, <1>13, LearntLong
  <2>3. 2 \in 2 .. Len(q)
    <3>1. Len(q) \in Nat
      BY <1>2, <1>13, LearntLong
    <3> QED
      BY <2>2, <3>1
  <2>4. q[2] \in LitsOf(n) /\ Val(o.assigns, q[2]) = LFalse /\ o.level[VarOf(q[2])] > 0
    BY <1>11, <2>3 DEF LowerLit
  <2>5. PICK i \in DOMAIN o.trail : /\ VarOf(o.trail[i]) = VarOf(q[2])
                                    /\ AtLevel(o.level[VarOf(q[2])], o.trailLim, i)
    BY <2>4, FalseOnTrail
  <2>6. AtLevel(k, o.trailLim, i)
    BY <2>1, <2>5
  <2>7. \A l \in DOMAIN o.trailLim : o.trailLim[l] < i <=> l <= k
    BY <2>6 DEF AtLevel
  <2>8. k + 1 \in DOMAIN o.trailLim /\ keep \in Nat /\ i \in Nat
    <3>1. Len(o.trailLim) \in Nat /\ DOMAIN o.trailLim = 1 .. Len(o.trailLim)
      BY <1>1
    <3>2. i \in Nat
      <4>1. DOMAIN o.trail = 1 .. Len(o.trail)
        BY <1>1
      <4> QED
        BY <4>1
    <3> QED
      BY <1>2, <1>7, <3>1, <3>2
  <2>9. i <= keep
    <3>1. ~(o.trailLim[k + 1] < i)
      BY <1>2, <2>7, <2>8
    <3> QED
      BY <2>8, <3>1 DEF keep
  <2>10. t.trailLim = SubSeq(o.trailLim, 1, k) /\ t.trail = SubSeq(o.trail, 1, keep)
    BY <1>4 DEF IsCancelled
  <2>11. Len(t.trail) = keep
    <3>1. Len(SubSeq(o.trail, 1, keep)) = keep
      BY <1>1, <1>7, Prefix
    <3> QED
      BY <2>10, <3>1
  <2>12. DOMAIN t.trailLim = 1 .. k /\ \A l \in 1 .. k : t.trailLim[l] = o.trailLim[l] /\ l \in DOMAIN o.trailLim
    <3>1. k \in 0 .. Len(o.trailLim)
      BY <1>1, <1>2
    <3>2. DOMAIN SubSeq(o.trailLim, 1, k) = 1 .. k
      BY <1>1, <3>1, Prefix
    <3>3. \A l \in 1 .. k : SubSeq(o.trailLim, 1, k)[l] = o.trailLim[l] /\ l \in DOMAIN o.trailLim
      BY <1>1, <3>1, Prefix
    <3> QED
      BY <2>10, <3>2, <3>3
  <2>13. ASSUME NEW l \in DOMAIN t.trailLim
         PROVE  t.trailLim[l] # keep
    <3>1. l \in 1 .. k /\ l \in DOMAIN o.trailLim /\ t.trailLim[l] = o.trailLim[l]
      BY <2>12
    <3>2. o.trailLim[l] < i /\ o.trailLim[l] \in Nat
      BY <1>1, <1>2, <2>7, <3>1
    <3> QED
      BY <2>8, <2>9, <3>1, <3>2
  <2> QED
    BY <2>11, <2>13 DEF Range
<1> QED
  BY <1>3, <1>10, <1>12, <1>13 DEF LearnBack, t

LearnFields == CancelFields \union StoreFields \union AttachFields \union EnqueueFields
               \union {"adjustCnt", "adjustConfl", "maxLearnts"}

\* The outcome of learning a clause.
LearntGood(o, t) == Good(t, TRUE) /\ LevelQueued(t) /\ Same(o, t, LearnFields)

\* The counter that lets the limit on learnt clauses grow.
LEMMA AdjustTouches ==
    ASSUME NEW o, IsObject(o)
    PROVE  IsTouched(o, Adjust(o)) /\ Same(o, Adjust(o), {"adjustCnt", "adjustConfl", "maxLearnts"})
<1> DEFINE one == [o EXCEPT !.adjustCnt = @ - 1]
           confl == Mul(o.adjustConfl, o.opt.adjustInc)
           most == Mul(o.maxLearnts, o.opt.learntsizeInc)
           cnt == Floor(confl)
           all == [o EXCEPT !.adjustConfl = confl, !.adjustCnt = cnt, !.maxLearnts = most]
           F == {"adjustCnt", "adjustConfl", "maxLearnts"}
<1>1. Adjust(o) = IF o.adjustCnt # 1 THEN one ELSE all
  BY DEF Adjust
<1>2. F \subseteq TouchFields
  BY DEF TouchFields
<1>3. IsObject(one) /\ Same(o, one, F)
  BY DEF IsObject, Same, Fields
<1> HIDE DEF confl, most, cnt
<1>4. IsObject(all) /\ Same(o, all, F)
  BY DEF IsObject, Same, Fields
<1> HIDE DEF one, all
<1>5. IsTouched(o, one) /\ IsTouched(o, all)
  BY <1>2, <1>3, <1>4 DEF IsTouched, Same
<1> QED
  BY <1>1, <1>3, <1>4, <1>5

\* A learnt clause of one literal is a fact at the root.
LEMMA LearnUnit ==
    ASSUME NEW o, Good(o, TRUE), NEW a, AssertingRight(o, a), Len(a.learnt) = 1,
           NEW t, LearnBack(o, a, t)
    PROVE  LearntGood(o, UncheckedEnqueue(t, a.learnt[1], CRefUndef))
<1> DEFINE p == a.learnt[1]
           u == UncheckedEnqueue(t, p, CRefUndef)
<1>1. CancelGoodTo(o, a.btlevel, t, TRUE) /\ Val(t.assigns, p) = LUndef /\ a.btlevel = 0
  BY DEF LearnBack, AssertingRight
<1>2. /\ GoodBut(t, TRUE) /\ Watched(t) /\ Propagated(t)
      /\ IsCancelled(o, a.btlevel, o.trailLim[a.btlevel + 1], t) /\ Len(t.trailLim) = 0
  BY <1>1 DEF CancelGoodTo, Good
<1>3. Same(o, t, CancelFields)
  BY <1>2 DEF IsCancelled
<1>4. t.nextVar = o.nextVar
  BY <1>3 DEF Same, Fields, CancelFields
<1>5. p \in LitsOf(t.nextVar)
  <2>1. a.learnt \in Seq(LitsOf(o.nextVar)) /\ Len(a.learnt) >= 1
    BY DEF AssertingRight, LearntRight
  <2>2. 1 \in DOMAIN a.learnt
    BY <2>1
  <2> QED
    BY <1>4, <2>1, <2>2
<1> HIDE DEF p
<1>6. Enqueueable(t, p, CRefUndef, TRUE)
  <2>1. CRefUndef \in Refs
    BY DEF CRefUndef, Refs
  <2>2. MayFollow(p, CRefUndef, t.trail, t.trailLim, t.level, t.assigns, t.ca.at, TRUE)
    BY <1>2 DEF MayFollow
  <2> QED
    BY <1>1, <1>5, <2>1, <2>2 DEF Enqueueable
<1>7. IsObject(t)
  BY <1>2 DEF GoodBut
<1>8. IsEnqueued(t, p, CRefUndef, u)
  BY <1>7, Enqueued
<1>9. Good(u, TRUE)
  BY <1>2, <1>6, EnqueueGood DEF Good
<1> HIDE DEF u
<1>10. Same(t, u, EnqueueFields) /\ u.trail = Append(t.trail, p)
  BY <1>8 DEF IsEnqueued
<1>11. u.trailLim = t.trailLim /\ u.qhead = t.qhead
  BY <1>10 DEF Same, Fields, EnqueueFields
<1>12. t.trail \in Seq(LitsOf(t.nextVar)) /\ t.trailLim \in Seq(Nat)
  BY <1>2, KernelTypes
<1>13. LevelQueued(u)
  <2>1. Len(t.trail) \in Nat /\ Len(u.trail) = Len(t.trail) + 1
    BY <1>5, <1>10, <1>12
  <2>2. u.qhead = Len(t.trail)
    BY <1>2, <1>11 DEF Propagated
  <2>3. DOMAIN u.trailLim = {}
    BY <1>2, <1>11, <1>12
  <2> QED
    BY <2>1, <2>2, <2>3 DEF LevelQueued
<1>14. CancelFields \subseteq LearnFields /\ EnqueueFields \subseteq LearnFields
  BY DEF LearnFields
<1>15. Same(o, u, LearnFields)
  BY <1>3, <1>10, <1>14, SameTwice
<1> QED
  BY <1>9, <1>13, <1>15 DEF LearntGood, u, p

\* A learnt clause is stored and attached.
LearntStored(t, lits) == [t EXCEPT !.ca = AllocClause(@, lits, TRUE), !.learnts = Append(@, t.ca.size)]

\* A longer learnt clause is stored, attached, and implies its first literal.
LearntAttached(o, t, u) ==
    LET cr == t.ca.size IN
    /\ Good(u, TRUE) /\ cr \in DOMAIN u.ca.at /\ cr \in Nat /\ u.ca.at[cr].mark = 0
    /\ Same(t, u, StoreFields \union AttachFields)

\* A learnt clause stored and attached keeps an object good (Solver.cc:724-726).
LEMMA LearnAttach ==
    ASSUME NEW t, Good(t, TRUE), NEW lits, LongLits(lits, t.nextVar), NEW u,
           u = AttachClause(LearntStored(t, lits), t.ca.size), NEW o
    PROVE  LearntAttached(o, t, u) /\ u.ca.at[t.ca.size].lits = lits
<1> DEFINE cr == t.ca.size
           v == LearntStored(t, lits)
<1>2. IsObject(t) /\ IsRegion(t.ca) /\ t.ca.size \in Nat
  BY DEF Good, GoodBut, Region
<1>3. IsStored(t, lits, v)
  <2> DEFINE ca == AllocClause(t.ca, lits, TRUE)
             cs == Append(t.learnts, cr)
  <2>1. Len(lits) \in Nat
    BY DEF LongLits
  <2>2. IsAlloced(t.ca, lits, ca)
    BY <1>2, <2>1, AllocFields
  <2>3. v = [t EXCEPT !.ca = ca, !.learnts = cs]
    BY DEF LearntStored
  <2> HIDE DEF ca, cs, v
  <2>4. IsObject(v) /\ v.ca = ca /\ v.learnts = cs /\ v.clauses = t.clauses /\ Same(t, v, StoreFields)
    BY <1>2, <2>3 DEF IsObject, Fields, Same, StoreFields
  <2> QED
    BY <2>2, <2>4 DEF IsStored, cs
<1>0. u = AttachClause(v, cr)
  OBVIOUS
<1> HIDE DEF v
<1>4. NewlyStored(t, lits, v, TRUE)
  BY <1>3, StoreGood
<1>b. v.ca.at[cr].mark = 0 /\ v.ca.at[cr].lits = lits
  BY <1>4 DEF NewlyStored
<1>c. Good(v, TRUE) /\ Unlisted(v, cr) /\ cr \in DOMAIN v.ca.at /\ Same(t, v, StoreFields)
  BY <1>4 DEF NewlyStored
<1>d. v.ca.at[cr].mark # 1
  BY <1>b
<1>5. /\ Good(v, TRUE) /\ Unlisted(v, cr) /\ cr \in DOMAIN v.ca.at /\ v.ca.at[cr].mark # 1
      /\ Same(t, v, StoreFields)
  BY <1>c, <1>d
<1>6. Good(u, TRUE) /\ IsAttached(v, cr, u)
  BY <1>0, <1>5, AttachGood
<1>7. Same(v, u, AttachFields)
  BY <1>6 DEF IsAttached
<1>8. u.ca = v.ca
  BY <1>7 DEF Same, Fields, AttachFields
<1>9. Same(t, u, StoreFields \union AttachFields)
  <2> DEFINE hs == StoreFields \union AttachFields
  <2>1. StoreFields \subseteq hs /\ AttachFields \subseteq hs
    OBVIOUS
  <2> HIDE DEF hs
  <2>2. Same(t, u, hs)
    BY <1>5, <1>7, <2>1, SameTwice
  <2> QED
    BY <2>2 DEF hs
<1> QED
  BY <1>2, <1>5, <1>b, <1>6, <1>8, <1>9 DEF LearntAttached

\* A learnt clause of several literals may be the reason of its first one
\* (Solver.cc:724-728).
LEMMA LearnLong ==
    ASSUME NEW o, Good(o, TRUE), NEW a, AssertingRight(o, a), Len(a.learnt) # 1,
           NEW t, LearnBack(o, a, t), NEW u,
           u = AttachClause(LearntStored(t, a.learnt), t.ca.size)
    PROVE  LearntGood(o, UncheckedEnqueue(u, a.learnt[1], t.ca.size))
<1> DEFINE q == a.learnt
           p == q[1]
           cr == t.ca.size
           e == UncheckedEnqueue(u, p, cr)
<1>1. CancelGoodTo(o, a.btlevel, t, TRUE) /\ Val(t.assigns, p) = LUndef
      /\ (\A j \in 2 .. Len(q) : Val(t.assigns, q[j]) = LFalse)
      /\ Len(t.trail) \notin Range(t.trailLim)
  BY DEF LearnBack
<1>2. /\ GoodBut(t, TRUE) /\ Watched(t) /\ Propagated(t)
      /\ IsCancelled(o, a.btlevel, o.trailLim[a.btlevel + 1], t)
  BY <1>1 DEF CancelGoodTo, Good
<1>3. Same(o, t, CancelFields)
  BY <1>2 DEF IsCancelled
<1>4. t.nextVar = o.nextVar
  BY <1>3 DEF Same, Fields, CancelFields
<1>5. LearntRight(o, q)
  BY DEF AssertingRight
<1>6. LongLits(q, t.nextVar) /\ Len(q) \in Nat /\ Len(q) >= 2 /\ DOMAIN q = 1 .. Len(q)
  BY <1>4, <1>5, LearntLong
<1>7. q \in Seq(LitsOf(t.nextVar))
  BY <1>6 DEF LongLits
<1>8. p \in LitsOf(t.nextVar)
  <2>1. 1 \in DOMAIN q
    BY <1>6
  <2> QED
    BY <1>7, <2>1
<1>9. LearntAttached(o, t, u) /\ u.ca.at[cr].lits = q
  <2>1. Good(t, TRUE)
    BY <1>2 DEF Good
  <2> QED
    BY <1>6, <2>1, LearnAttach
<1>10. /\ Good(u, TRUE) /\ cr \in DOMAIN u.ca.at /\ cr \in Nat /\ u.ca.at[cr].mark = 0
       /\ Same(t, u, StoreFields \union AttachFields)
  BY <1>9 DEF LearntAttached
<1>11. /\ u.nextVar = t.nextVar /\ u.assigns = t.assigns /\ u.trail = t.trail /\ u.trailLim = t.trailLim
       /\ u.level = t.level /\ u.qhead = t.qhead
  BY <1>10 DEF Same, Fields, StoreFields, AttachFields
<1>12. /\ t.nextVar \in Nat /\ t.assigns \in [VarsUpTo(t.nextVar) -> Lbools]
       /\ t.trail \in Seq(LitsOf(t.nextVar)) /\ t.trailLim \in Seq(Nat)
       /\ TrailRight(t.trail, t.trailLim, t.assigns, t.level)
  BY <1>2, KernelTypes
<1>13. AllFalse(q, Len(t.trail) + 1, t.trail, t.level, t.assigns)
  <2>1. ASSUME NEW j \in 2 .. Len(q)
        PROVE  FalseBefore(q[j], Len(t.trail) + 1, t.trail, t.level, t.assigns)
    <3>1. j \in DOMAIN q
      BY <1>6
    <3>2. q[j] \in LitsOf(t.nextVar)
      BY <1>7, <3>1
    <3>3. Val(t.assigns, q[j]) = LFalse
      BY <1>1
    <3> QED
      BY <1>12, <3>2, <3>3, FalseIsBefore
  <2> QED
    BY <2>1 DEF AllFalse
<1> HIDE DEF p
<1>14. Enqueueable(u, p, cr, TRUE)
  <2>1. cr \in Refs /\ cr # CRefUndef
    BY <1>10 DEF CRefUndef, Refs
  <2>2. IsReason(cr, p, u.ca.at)
    BY <1>9, <1>10 DEF IsReason, p
  <2>3. Len(u.trail) \notin Range(u.trailLim)
    BY <1>1, <1>11
  <2>4. AllFalse(u.ca.at[cr].lits, Len(u.trail) + 1, u.trail, u.level, u.assigns)
    BY <1>9, <1>11, <1>13
  <2>5. MayFollow(p, cr, u.trail, u.trailLim, u.level, u.assigns, u.ca.at, TRUE)
    BY <2>1, <2>2, <2>3, <2>4 DEF MayFollow
  <2>6. p \in LitsOf(u.nextVar) /\ Val(u.assigns, p) = LUndef
    BY <1>1, <1>8, <1>11 DEF p
  <2> QED
    BY <2>1, <2>5, <2>6 DEF Enqueueable
<1>15. IsObject(u) /\ GoodBut(u, TRUE) /\ Watched(u)
  BY <1>10 DEF Good, GoodBut
<1> HIDE DEF cr
<1>16. IsEnqueued(u, p, cr, e)
  BY <1>15, Enqueued
<1>17. Good(e, TRUE)
  BY <1>14, <1>15, EnqueueGood DEF Good
<1> HIDE DEF e
<1>18. Same(u, e, EnqueueFields) /\ e.trail = Append(u.trail, p)
  BY <1>16 DEF IsEnqueued
<1>19. e.trailLim = t.trailLim /\ e.qhead = t.qhead
  BY <1>11, <1>18 DEF Same, Fields, EnqueueFields
<1>20. LevelQueued(e)
  <2>1. Len(t.trail) \in Nat /\ Len(e.trail) = Len(t.trail) + 1
    BY <1>8, <1>11, <1>12, <1>18
  <2>2. e.qhead = Len(t.trail)
    BY <1>2, <1>19 DEF Propagated
  <2>3. \A l \in DOMAIN e.trailLim : e.trailLim[l] <= Len(t.trail)
    BY <1>12, <1>19 DEF TrailRight, Limits
  <2> QED
    BY <2>1, <2>2, <2>3 DEF LevelQueued
<1> DEFINE gs == StoreFields \union AttachFields
<1>21. Same(t, u, gs)
  BY <1>10
<1>22. CancelFields \subseteq LearnFields /\ EnqueueFields \subseteq LearnFields /\ gs \subseteq LearnFields
  BY DEF LearnFields
<1> HIDE DEF gs
<1>23. Same(o, u, LearnFields)
  BY <1>3, <1>21, <1>22, SameTwice
<1>24. LearnFields \subseteq LearnFields
  OBVIOUS
<1>25. Same(o, e, LearnFields)
  BY <1>18, <1>22, <1>23, <1>24, SameTwice
<1> QED
  BY <1>17, <1>20, <1>25 DEF LearntGood, e, cr, p

\* What is learnt from a conflict keeps the object good.
THEOREM LearnGood ==
    ASSUME NEW o, Good(o, TRUE), NEW a, AssertingRight(o, a)
    PROVE  LearntGood(o, Learn(o, a))
<1> DEFINE t == CancelUntil(o, a.btlevel)
           cr == t.ca.size
           u == AttachClause(LearntStored(t, a.learnt), cr)
           x == IF Len(a.learnt) = 1 THEN UncheckedEnqueue(t, a.learnt[1], CRefUndef)
                ELSE UncheckedEnqueue(u, a.learnt[1], cr)
           F == {"adjustCnt", "adjustConfl", "maxLearnts"}
<1>1. Learn(o, a) = Adjust(x)
  BY DEF Learn, LearntStored
<1>2. LearnBack(o, a, t)
  BY LearnBackGood DEF Good
<1> HIDE DEF t
<1>3. LearntGood(o, x)
  BY <1>2, LearnUnit, LearnLong
<1> HIDE DEF x
<1>4. Good(x, TRUE) /\ LevelQueued(x) /\ Same(o, x, LearnFields) /\ IsObject(x)
  BY <1>3 DEF LearntGood, Good, GoodBut
<1> DEFINE y == Adjust(x)
<1>5. IsTouched(x, y) /\ Same(x, y, F)
  BY <1>4, AdjustTouches
<1> HIDE DEF y
<1>6. AsIs(x, y, TRUE)
  BY <1>4, <1>5, TouchGood
<1>7. Good(y, TRUE) /\ LevelQueued(y)
  BY <1>4, <1>6 DEF AsIs, LevelQueued
<1>8. F \subseteq LearnFields /\ LearnFields \subseteq LearnFields
  BY DEF LearnFields
<1> HIDE DEF F
<1>9. Same(o, y, LearnFields)
  BY <1>4, <1>5, <1>8, SameTwice
<1> QED
  BY <1>1, <1>7, <1>9 DEF LearntGood, y

-------------------------------------------------------------------------------
(* Assumptions: those that hold open a level of their own, implies() enqueues  *)
(* all of them at one.                                                         *)
SkipRun(g, o) == g[0] = o /\ \A i \in 1 .. Len(o.assumptions) : g[i] = SkipNext(g[i - 1])

\* The loop over the assumptions that hold runs.
LEMMA SkipRuns ==
    ASSUME NEW o, Len(o.assumptions) \in Nat
    PROVE  \E g : SkipRun(g, o) /\ SkipHolding(o) = g[Len(o.assumptions)]
<1> DEFINE n == Len(o.assumptions)
           x0 == o
           loop[i \in 0 .. n] == IF i = 0 THEN x0 ELSE SkipNext(loop[i - 1])
           S == {m \in Nat : \E g : g = [i \in 0 .. m |-> IF i = 0 THEN x0
                                                        ELSE SkipNext(g[i - 1])]}
<1>1. SkipHolding(o) = loop[n]
  BY DEF SkipHolding
<1> HIDE DEF x0
<1>2. 0 \in S
  <2> DEFINE g == [i \in 0 .. 0 |-> x0]
  <2>1. g = [i \in 0 .. 0 |-> IF i = 0 THEN x0 ELSE SkipNext(g[i - 1])]
    OBVIOUS
  <2> HIDE DEF g
  <2> QED
    BY <2>1
<1>3. ASSUME NEW m \in Nat, m \in S
      PROVE  m + 1 \in S
  <2>1. PICK g : g = [i \in 0 .. m |-> IF i = 0 THEN x0 ELSE SkipNext(g[i - 1])]
    BY <1>3
  <2> DEFINE h == [i \in 0 .. m + 1 |-> IF i = m + 1 THEN SkipNext(g[m]) ELSE g[i]]
  <2>2. ASSUME NEW i \in 0 .. m + 1
        PROVE  h[i] = IF i = 0 THEN x0 ELSE SkipNext(h[i - 1])
    <3>1. CASE i = m + 1
      <4>1. i - 1 = m /\ m \in 0 .. m + 1 /\ m # m + 1 /\ i # 0
        BY <3>1
      <4>2. h[i - 1] = g[m]
        BY <2>1, <4>1
      <4> QED
        BY <3>1, <4>1, <4>2
    <3>2. CASE i # m + 1
      <4>1. i \in 0 .. m
        BY <3>2
      <4>2. h[i] = g[i] /\ g[i] = IF i = 0 THEN x0 ELSE SkipNext(g[i - 1])
        BY <2>1, <3>2, <4>1
      <4>3. CASE i # 0
        <5>1. i - 1 \in 0 .. m + 1 /\ i - 1 # m + 1
          BY <4>1, <4>3
        <5>2. h[i - 1] = g[i - 1]
          BY <5>1
        <5> QED
          BY <4>2, <4>3, <5>2
      <4> QED
        BY <4>2, <4>3
    <3> QED
      BY <3>1, <3>2
  <2>3. h = [i \in 0 .. m + 1 |-> IF i = 0 THEN x0 ELSE SkipNext(h[i - 1])]
    <3>1. h = [i \in 0 .. m + 1 |-> h[i]]
      OBVIOUS
    <3> HIDE DEF h
    <3> QED
      BY <2>2, <3>1
  <2>4. \E k : k = [i \in 0 .. m + 1 |-> IF i = 0 THEN x0 ELSE SkipNext(k[i - 1])]
    <3> HIDE DEF h
    <3> QED
      BY <2>3
  <2> QED
    BY <2>4
<1>4. n \in S
  <2> HIDE DEF S
  <2>1. Nat \subseteq S
    BY <1>2, <1>3, InductionOn
  <2> QED
    BY <2>1
<1>5. loop = [i \in 0 .. n |-> IF i = 0 THEN x0 ELSE SkipNext(loop[i - 1])]
  <2>1. \E g : g = [i \in 0 .. n |-> IF i = 0 THEN x0 ELSE SkipNext(g[i - 1])]
    BY <1>4
  <2>2. loop = CHOOSE g : g = [i \in 0 .. n |-> IF i = 0 THEN x0
                                              ELSE SkipNext(g[i - 1])]
    BY DEF loop
  <2> HIDE DEF loop
  <2> QED
    BY <2>1, <2>2, Zenon
<1> HIDE DEF loop
<1>6. loop[0] = x0 /\ \A i \in 1 .. n : loop[i] = SkipNext(loop[i - 1])
  <2>1. 0 \in 0 .. n /\ \A i \in 1 .. n : i \in 0 .. n /\ i # 0
    OBVIOUS
  <2> HIDE DEF n
  <2> QED
    BY <1>5, <2>1
<1>7. SkipRun(loop, o)
  BY <1>6 DEF SkipRun, x0
<1> QED
  BY <1>1, <1>7

\* No assumption that holds is next.
Stuck(o) ==
    ~ (Len(o.trailLim) < Len(o.assumptions)
       /\ Val(o.assigns, o.assumptions[Len(o.trailLim) + 1]) = LTrue)

\* Levels were opened for i assumptions at least, or for all that hold.
SkippedTo(o, x, i) ==
    /\ Good(x, TRUE) /\ Propagated(x) /\ Same(o, x, OnlyLimits)
    /\ i <= Len(x.trailLim) \/ Stuck(x)

\* One assumption that holds already opens one dummy level (Solver.cc:766-768).
LEMMA SkipStep ==
    ASSUME NEW o, NEW x, NEW i \in Nat, SkippedTo(o, x, i)
    PROVE  SkippedTo(o, SkipNext(x), i + 1)
<1>1. Good(x, TRUE) /\ Propagated(x) /\ Same(o, x, OnlyLimits) /\ (i <= Len(x.trailLim) \/ Stuck(x))
  BY DEF SkippedTo
<1>2. CASE Stuck(x)
  <2>1. SkipNext(x) = x
    BY <1>2 DEF Stuck, SkipNext, DecisionLevel, Value, Val
  <2> QED
    BY <1>1, <1>2, <2>1 DEF SkippedTo
<1>3. CASE ~Stuck(x)
  <2> DEFINE y == NewDecisionLevel(x)
  <2>1. SkipNext(x) = y
    BY <1>3 DEF Stuck, SkipNext, DecisionLevel, Value, Val
  <2>2. LevelNew(x, y, TRUE)
    BY <1>1, NewLevelGood DEF Good
  <2> HIDE DEF y
  <2>3. Good(y, TRUE) /\ Propagated(y) /\ Same(x, y, OnlyLimits) /\ Len(y.trailLim) = Len(x.trailLim) + 1
    BY <1>1, <2>2 DEF LevelNew, Good, IsOpened
  <2>4. x.trailLim \in Seq(Nat)
    BY <1>1, KernelTypes DEF Good
  <2>5. i + 1 <= Len(y.trailLim)
    <3>1. Len(x.trailLim) \in Nat /\ i <= Len(x.trailLim)
      BY <1>1, <1>3, <2>4
    <3> QED
      BY <2>3, <3>1
  <2>6. OnlyLimits \subseteq OnlyLimits
    OBVIOUS
  <2>7. Same(o, y, OnlyLimits)
    BY <1>1, <2>3, <2>6, SameTwice
  <2> QED
    BY <2>1, <2>3, <2>5, <2>7 DEF SkippedTo
<1> QED
  BY <1>2, <1>3

\* The loop ends where no assumption that holds is next.
SkippedGood(o, t) ==
    Good(t, TRUE) /\ Propagated(t) /\ Same(o, t, OnlyLimits) /\ Stuck(t)

\* The assumptions that hold leave an object good, each with a level of its own.
LEMMA SkipGood ==
    ASSUME NEW o, Good(o, TRUE), Propagated(o), Len(o.assumptions) \in Nat
    PROVE  SkippedGood(o, SkipHolding(o))
<1> DEFINE n == Len(o.assumptions)
<1>1. PICK g : SkipRun(g, o) /\ SkipHolding(o) = g[n]
  BY SkipRuns
<1>2. g[0] = o /\ \A i \in 1 .. n : g[i] = SkipNext(g[i - 1])
  BY <1>1 DEF SkipRun
<1> HIDE DEF n
<1>a. n \in Nat
  BY DEF n
<1> DEFINE S == {i \in Nat : i <= n => SkippedTo(o, g[i], i)}
<1>3. 0 \in S
  <2>1. o.trailLim \in Seq(Nat)
    BY KernelTypes DEF Good
  <2>2. 0 <= Len(o.trailLim)
    BY <2>1
  <2>3. Same(o, o, OnlyLimits)
    BY DEF Same
  <2>4. SkippedTo(o, o, 0)
    BY <2>2, <2>3 DEF SkippedTo
  <2> QED
    BY <1>2, <2>4
<1>4. ASSUME NEW i \in Nat, i \in S
      PROVE  i + 1 \in S
  <2> SUFFICES ASSUME i + 1 <= n PROVE SkippedTo(o, g[i + 1], i + 1)
    OBVIOUS
  <2>1. i + 1 \in 1 .. n /\ (i + 1) - 1 = i /\ i <= n
    BY <1>a
  <2> DEFINE y == g[i]
  <2>2. SkippedTo(o, y, i) /\ g[i + 1] = SkipNext(y)
    BY <1>2, <1>4, <2>1
  <2> HIDE DEF y
  <2>3. SkippedTo(o, SkipNext(y), i + 1)
    BY <2>2, SkipStep
  <2> QED
    BY <2>2, <2>3
<1>5. n \in S
  <2> HIDE DEF S
  <2>1. Nat \subseteq S
    BY <1>3, <1>4, InductionOn
  <2> QED
    BY <1>a, <2>1
<1> DEFINE t == g[n]
<1>6. SkippedTo(o, t, n)
  BY <1>a, <1>5
<1> HIDE DEF t
<1>7. Good(t, TRUE) /\ Propagated(t) /\ Same(o, t, OnlyLimits) /\ (n <= Len(t.trailLim) \/ Stuck(t))
  BY <1>6 DEF SkippedTo
<1>8. t.assumptions = o.assumptions
  BY <1>7 DEF Same, Fields, OnlyLimits
<1>9. Stuck(t)
  <2> SUFFICES ASSUME n <= Len(t.trailLim) PROVE Stuck(t)
    BY <1>7
  <2>1. t.trailLim \in Seq(Nat)
    BY <1>7, KernelTypes DEF Good
  <2>2. Len(t.trailLim) \in Nat /\ ~(Len(t.trailLim) < n)
    BY <1>a, <2>1
  <2> QED
    BY <1>8, <2>2 DEF Stuck, n
<1> QED
  BY <1>1, <1>7, <1>9 DEF SkippedGood, t
-------------------------------------------------------------------------------
(* implies().                                                                  *)
AssumeRun(g, o, lits) ==
    /\ g[0] = [s |-> o, clash |-> FALSE]
    /\ \A i \in 1 .. Len(lits) : g[i] = AssumeNext(g[i - 1], lits[i])

\* The loop over the assumptions of implies() runs.
LEMMA AssumeRuns ==
    ASSUME NEW o, NEW lits, Len(lits) \in Nat
    PROVE  \E g : AssumeRun(g, o, lits) /\ EnqueueAssumed(o, lits) = g[Len(lits)]
<1> DEFINE n == Len(lits)
           x0 == [s |-> o, clash |-> FALSE]
           loop[i \in 0 .. n] == IF i = 0 THEN x0 ELSE AssumeNext(loop[i - 1], lits[i])
           S == {m \in Nat : \E g : g = [i \in 0 .. m |-> IF i = 0 THEN x0
                                                        ELSE AssumeNext(g[i - 1], lits[i])]}
<1>1. EnqueueAssumed(o, lits) = loop[n]
  BY DEF EnqueueAssumed
<1> HIDE DEF x0
<1>2. 0 \in S
  <2> DEFINE g == [i \in 0 .. 0 |-> x0]
  <2>1. g = [i \in 0 .. 0 |-> IF i = 0 THEN x0 ELSE AssumeNext(g[i - 1], lits[i])]
    OBVIOUS
  <2> HIDE DEF g
  <2> QED
    BY <2>1
<1>3. ASSUME NEW m \in Nat, m \in S
      PROVE  m + 1 \in S
  <2>1. PICK g : g = [i \in 0 .. m |-> IF i = 0 THEN x0 ELSE AssumeNext(g[i - 1], lits[i])]
    BY <1>3
  <2> DEFINE h == [i \in 0 .. m + 1 |-> IF i = m + 1 THEN AssumeNext(g[m], lits[(m + 1)]) ELSE g[i]]
  <2>2. ASSUME NEW i \in 0 .. m + 1
        PROVE  h[i] = IF i = 0 THEN x0 ELSE AssumeNext(h[i - 1], lits[i])
    <3>1. CASE i = m + 1
      <4>1. i - 1 = m /\ m \in 0 .. m + 1 /\ m # m + 1 /\ i # 0
        BY <3>1
      <4>2. h[i - 1] = g[m]
        BY <2>1, <4>1
      <4> QED
        BY <3>1, <4>1, <4>2
    <3>2. CASE i # m + 1
      <4>1. i \in 0 .. m
        BY <3>2
      <4>2. h[i] = g[i] /\ g[i] = IF i = 0 THEN x0 ELSE AssumeNext(g[i - 1], lits[i])
        BY <2>1, <3>2, <4>1
      <4>3. CASE i # 0
        <5>1. i - 1 \in 0 .. m + 1 /\ i - 1 # m + 1
          BY <4>1, <4>3
        <5>2. h[i - 1] = g[i - 1]
          BY <5>1
        <5> QED
          BY <4>2, <4>3, <5>2
      <4> QED
        BY <4>2, <4>3
    <3> QED
      BY <3>1, <3>2
  <2>3. h = [i \in 0 .. m + 1 |-> IF i = 0 THEN x0 ELSE AssumeNext(h[i - 1], lits[i])]
    <3>1. h = [i \in 0 .. m + 1 |-> h[i]]
      OBVIOUS
    <3> HIDE DEF h
    <3> QED
      BY <2>2, <3>1
  <2>4. \E k : k = [i \in 0 .. m + 1 |-> IF i = 0 THEN x0 ELSE AssumeNext(k[i - 1], lits[i])]
    <3> HIDE DEF h
    <3> QED
      BY <2>3
  <2> QED
    BY <2>4
<1>4. n \in S
  <2> HIDE DEF S
  <2>1. Nat \subseteq S
    BY <1>2, <1>3, InductionOn
  <2> QED
    BY <2>1
<1>5. loop = [i \in 0 .. n |-> IF i = 0 THEN x0 ELSE AssumeNext(loop[i - 1], lits[i])]
  <2>1. \E g : g = [i \in 0 .. n |-> IF i = 0 THEN x0 ELSE AssumeNext(g[i - 1], lits[i])]
    BY <1>4
  <2>2. loop = CHOOSE g : g = [i \in 0 .. n |-> IF i = 0 THEN x0
                                              ELSE AssumeNext(g[i - 1], lits[i])]
    BY DEF loop
  <2> HIDE DEF loop
  <2> QED
    BY <2>1, <2>2, Zenon
<1> HIDE DEF loop
<1>6. loop[0] = x0 /\ \A i \in 1 .. n : loop[i] = AssumeNext(loop[i - 1], lits[i])
  <2>1. 0 \in 0 .. n /\ \A i \in 1 .. n : i \in 0 .. n /\ i # 0
    OBVIOUS
  <2> HIDE DEF n
  <2> QED
    BY <1>5, <2>1
<1>7. AssumeRun(loop, o, lits)
  BY <1>6 DEF AssumeRun, x0
<1> QED
  BY <1>1, <1>7

\* Assumptions were enqueued at the first level.
Assumed(o, e) ==
    /\ e = [s |-> e.s, clash |-> e.clash] /\ e.clash \in BOOLEAN
    /\ Good(e.s, FALSE) /\ LevelQueued(e.s) /\ Same(o, e.s, EnqueueFields)

\* What the assumptions of implies() have done so far.
LEMMA AssumedMade ==
    ASSUME NEW o, NEW x, Good(x, FALSE), LevelQueued(x), Same(o, x, EnqueueFields), NEW b \in BOOLEAN
    PROVE  Assumed(o, [s |-> x, clash |-> b])
<1> DEFINE e == [s |-> x, clash |-> b]
<1>1. e = [s |-> e.s, clash |-> e.clash] /\ e.clash \in BOOLEAN /\ e.s = x
  OBVIOUS
<1> HIDE DEF e
<1>2. Assumed(o, e)
  BY <1>1 DEF Assumed
<1> QED
  BY <1>2 DEF e

\* One of them.
LEMMA AssumeStep ==
    ASSUME NEW o, NEW e, Assumed(o, e), NEW p \in LitsOf(o.nextVar)
    PROVE  Assumed(o, AssumeNext(e, p))
<1> DEFINE x == e.s
           u == UncheckedEnqueue(x, p, CRefUndef)
<1>1. e = [s |-> x, clash |-> e.clash] /\ e.clash \in BOOLEAN
      /\ Good(x, FALSE) /\ LevelQueued(x) /\ Same(o, x, EnqueueFields)
  BY DEF Assumed
<1> HIDE DEF x
<1>2. GoodBut(x, FALSE) /\ Watched(x) /\ IsObject(x)
  BY <1>1 DEF Good, GoodBut
<1>3. x.nextVar = o.nextVar
  BY <1>1 DEF Same, Fields, EnqueueFields
<1>4. CASE e.clash \/ Val(x.assigns, p) = LTrue
  <2>1. AssumeNext(e, p) = e
    BY <1>4 DEF AssumeNext, Value, Val, x, LTrue, LFalse
  <2> QED
    BY <2>1
<1>5. CASE ~e.clash /\ Val(x.assigns, p) = LFalse
  <2>1. ~(Val(x.assigns, p) = LTrue)
    BY <1>5 DEF LTrue, LFalse
  <2>2. AssumeNext(e, p) = [s |-> x, clash |-> TRUE]
    BY <1>5, <2>1 DEF AssumeNext, Value, Val, x
  <2> QED
    BY <1>1, <2>2, AssumedMade
<1>6. CASE ~e.clash /\ Val(x.assigns, p) # LTrue /\ Val(x.assigns, p) # LFalse
  <2>1. AssumeNext(e, p) = [s |-> u, clash |-> e.clash]
    BY <1>6 DEF AssumeNext, Value, Val, x
  <2>2. x.nextVar \in Nat /\ x.assigns \in [VarsUpTo(x.nextVar) -> Lbools]
        /\ x.trail \in Seq(LitsOf(x.nextVar))
    BY <1>2, KernelTypes
  <2>3. p \in LitsOf(x.nextVar)
    BY <1>3
  <2>4. Val(x.assigns, p) = LUndef
    <3>1. Val(x.assigns, p) \in Lbools
      BY <2>2, <2>3, ValFacts
    <3> QED
      BY <1>6, <3>1 DEF Lbools
  <2>5. Enqueueable(x, p, CRefUndef, FALSE)
    <3>1. CRefUndef \in Refs
      BY DEF CRefUndef, Refs
    <3>2. MayFollow(p, CRefUndef, x.trail, x.trailLim, x.level, x.assigns, x.ca.at, FALSE)
      BY DEF MayFollow
    <3> QED
      BY <2>3, <2>4, <3>1, <3>2 DEF Enqueueable
  <2>6. Good(u, FALSE)
    BY <1>2, <2>5, EnqueueGood DEF Good
  <2>7. IsEnqueued(x, p, CRefUndef, u)
    BY <1>2, Enqueued
  <2> HIDE DEF u
  <2>8. Same(x, u, EnqueueFields) /\ u.trail = Append(x.trail, p)
    BY <2>7 DEF IsEnqueued
  <2>9. u.trailLim = x.trailLim /\ u.qhead = x.qhead
    BY <2>8 DEF Same, Fields, EnqueueFields
  <2>10. x.qhead \in Nat
    BY <1>2, KernelTypes
  <2>11. LevelQueued(u)
    <3>1. Len(x.trail) \in Nat /\ Len(u.trail) = Len(x.trail) + 1
      BY <2>2, <2>3, <2>8
    <3>2. x.qhead <= Len(x.trail) /\ \A l \in DOMAIN x.trailLim : x.trailLim[l] <= x.qhead
      BY <1>1 DEF LevelQueued
    <3> QED
      BY <2>9, <2>10, <3>1, <3>2 DEF LevelQueued
  <2>12. EnqueueFields \subseteq EnqueueFields
    OBVIOUS
  <2>13. Same(o, u, EnqueueFields)
    BY <1>1, <2>8, <2>12, SameTwice
  <2> QED
    BY <1>1, <2>1, <2>6, <2>11, <2>13, AssumedMade
<1> QED
  BY <1>4, <1>5, <1>6

\* The assumptions of implies() enqueued on one level keep an object good
\* (Solver.cc:889-898).
LEMMA AssumeGood ==
    ASSUME NEW o, Good(o, FALSE), LevelQueued(o), NEW lits \in Seq(LitsOf(o.nextVar))
    PROVE  Assumed(o, EnqueueAssumed(o, lits))
<1> DEFINE n == Len(lits)
<1>a. n \in Nat /\ DOMAIN lits = 1 .. n
  OBVIOUS
<1>1. PICK g : AssumeRun(g, o, lits) /\ EnqueueAssumed(o, lits) = g[n]
  BY <1>a, AssumeRuns
<1>2. g[0] = [s |-> o, clash |-> FALSE] /\ \A i \in 1 .. n : g[i] = AssumeNext(g[i - 1], lits[i])
  BY <1>1 DEF AssumeRun
<1> HIDE DEF n
<1> DEFINE S == {i \in Nat : i <= n => Assumed(o, g[i])}
<1>3. 0 \in S
  <2> DEFINE e == [s |-> o, clash |-> FALSE]
  <2>1. e = [s |-> e.s, clash |-> e.clash] /\ e.clash \in BOOLEAN /\ e.s = o
    OBVIOUS
  <2>2. Same(o, o, EnqueueFields)
    BY DEF Same
  <2> HIDE DEF e
  <2>3. Assumed(o, e)
    BY <2>1, <2>2 DEF Assumed
  <2> QED
    BY <1>2, <2>3 DEF e
<1>4. ASSUME NEW i \in Nat, i \in S
      PROVE  i + 1 \in S
  <2> SUFFICES ASSUME i + 1 <= n PROVE Assumed(o, g[i + 1])
    OBVIOUS
  <2>1. i + 1 \in 1 .. n /\ (i + 1) - 1 = i /\ i <= n
    BY <1>a
  <2> DEFINE y == g[i]
             p == lits[i + 1]
  <2>2. Assumed(o, y) /\ g[i + 1] = AssumeNext(y, p)
    BY <1>2, <1>4, <2>1
  <2>3. p \in LitsOf(o.nextVar)
    BY <1>a, <2>1
  <2> HIDE DEF y, p
  <2>4. Assumed(o, AssumeNext(y, p))
    BY <2>2, <2>3, AssumeStep
  <2> QED
    BY <2>2, <2>4
<1>5. n \in S
  <2> HIDE DEF S
  <2>1. Nat \subseteq S
    BY <1>3, <1>4, InductionOn
  <2> QED
    BY <1>a, <2>1
<1> QED
  BY <1>1, <1>5, <1>a

\* At the root every object is in order.
LEMMA RootStrict ==
    ASSUME NEW o, NEW strict, Good(o, strict), o.trailLim = <<>>
    PROVE  Good(o, TRUE)
<1>1. GoodBut(o, strict) /\ Watched(o)
  BY DEF Good
<1>2. o.trail \in Seq(LitsOf(o.nextVar)) /\ TrailRight(o.trail, o.trailLim, o.assigns, o.level)
  BY <1>1, KernelTypes
<1>3. Reasons(o.trail, o.trailLim, o.reason, o.level, o.assigns, o.ca.at, strict)
  BY <1>1 DEF GoodBut
<1>4. ASSUME NEW i \in DOMAIN o.trail
      PROVE  ~(o.level[VarOf(o.trail[i])] > 0)
  <2>1. AtLevel(o.level[VarOf(o.trail[i])], o.trailLim, i)
    BY <1>2 DEF TrailRight
  <2>2. o.level[VarOf(o.trail[i])] \in 0 .. 0
    BY <2>1 DEF AtLevel
  <2> QED
    BY <2>2
<1>5. Reasons(o.trail, o.trailLim, o.reason, o.level, o.assigns, o.ca.at, TRUE)
  BY <1>3, <1>4 DEF Reasons, InOrder
<1> QED
  BY <1>1, <1>5 DEF Good, GoodBut

\* What is only asked of an object that is in order less than in order.
LEMMA Loosened ==
    ASSUME NEW o, Good(o, TRUE)
    PROVE  Good(o, FALSE)
<1>1. GoodBut(o, TRUE) /\ Watched(o)
  BY DEF Good
<1>2. Reasons(o.trail, o.trailLim, o.reason, o.level, o.assigns, o.ca.at, TRUE)
  BY <1>1 DEF GoodBut
<1>3. Reasons(o.trail, o.trailLim, o.reason, o.level, o.assigns, o.ca.at, FALSE)
  BY <1>2 DEF Reasons
<1> QED
  BY <1>1, <1>3 DEF Good, GoodBut

\* implies() leaves an idle object idle.
THEOREM ImpliesGood ==
    ASSUME NEW o, Idling(o, TRUE), NEW lits \in Seq(LitsOf(o.nextVar)),
           NEW e, e = EnqueueAssumed(NewDecisionLevel(o), lits), NEW t,
           t = CancelUntil(IF e.clash THEN e.s ELSE Propagate(e.s).s, 0)
    PROVE  Idling(t, TRUE)
<1> DEFINE d == NewDecisionLevel(o)
           r == Propagate(e.s)
           x == IF e.clash THEN e.s ELSE r.s
<1>1. Good(o, FALSE) /\ Propagated(o)
  BY Loosened DEF Idling, AtRoot
<1>2. LevelNew(o, d, FALSE)
  BY <1>1, NewLevelGood DEF Good
<1>3. e = EnqueueAssumed(d, lits)
  OBVIOUS
<1>12. t = CancelUntil(x, 0)
  OBVIOUS
<1> HIDE DEF d
<1>4. Good(d, FALSE) /\ LevelQueued(d) /\ Same(o, d, OnlyLimits) /\ Len(d.trailLim) = Len(o.trailLim) + 1
  BY <1>1, <1>2 DEF LevelNew, Good, IsOpened
<1>5. d.nextVar = o.nextVar
  BY <1>4 DEF Same, Fields, OnlyLimits
<1>6. Assumed(d, e)
  BY <1>3, <1>4, <1>5, AssumeGood
<1>7. Good(e.s, FALSE) /\ LevelQueued(e.s) /\ Same(d, e.s, EnqueueFields) /\ e.clash \in BOOLEAN
  BY <1>6 DEF Assumed
<1>8. e.s.trailLim = d.trailLim
  BY <1>7 DEF Same, Fields, EnqueueFields
<1>9. Propagates(e.s, r, FALSE)
  BY <1>7, PropagateGood
<1> HIDE DEF r
<1>10. Good(r.s, FALSE) /\ Propagated(r.s)
  BY <1>9 DEF Propagates
<1>11. Good(x, FALSE) /\ (Propagated(x) \/ 0 < Len(x.trailLim))
  <2>1. CASE e.clash
    <3>1. Len(o.trailLim) = 0
      BY DEF Idling, AtRoot
    <3>2. Len(d.trailLim) = Len(o.trailLim) + 1
      BY <1>4
    <3>3. Len(e.s.trailLim) = 1
      BY <1>8, <3>1, <3>2
    <3>4. x = e.s
      BY <2>1
    <3> HIDE DEF x
    <3>5. Good(x, FALSE)
      BY <1>7, <3>4
    <3>6. Len(x.trailLim) = 1
      BY <3>3, <3>4
    <3>7. 0 < Len(x.trailLim)
      BY <3>6
    <3> QED
      BY <3>5, <3>7
  <2>2. CASE ~e.clash
    BY <1>10, <2>2
  <2> QED
    BY <2>1, <2>2
<1> HIDE DEF x
<1>13. BackAt(x, 0, t, FALSE)
  <2>1. BackAt(x, 0, CancelUntil(x, 0), FALSE)
    BY <1>11, CancelBack
  <2> QED
    BY <1>12, <2>1
<1>14. Good(t, FALSE) /\ Propagated(t) /\ Len(t.trailLim) <= 0
  BY <1>13 DEF BackAt
<1>15. t.trailLim \in Seq(Nat)
  BY <1>14, KernelTypes DEF Good
<1>16. t.trailLim = <<>>
  BY <1>14, <1>15
<1>17. Good(t, TRUE)
  BY <1>14, <1>16, RootStrict
<1> QED
  BY <1>14, <1>16, <1>17 DEF Idling, AtRoot

-------------------------------------------------------------------------------
(* solve(): what holds of the object where the call is.                        *)

\* The object in the search loop: what was learnt or decided last is still queued.
Searching(o) ==
    /\ Good(o, TRUE) /\ LevelQueued(o) /\ o.ok
    /\ o.assumptions \in Seq(LitsOf(o.nextVar))

\* The object when a loop was left.
Stopped(o) == Good(o, TRUE) /\ Propagated(o)

\* An object with its search not begun.
LEMMA IdleSearches ==
    ASSUME NEW o, Idling(o, TRUE), o.ok, o.assumptions \in Seq(LitsOf(o.nextVar))
    PROVE  Searching(o)
<1>1. Good(o, TRUE) /\ o.trailLim = <<>> /\ o.qhead = Len(o.trail)
  BY DEF Idling, AtRoot, Propagated
<1>2. o.trail \in Seq(LitsOf(o.nextVar))
  BY <1>1, KernelTypes DEF Good
<1>3. LevelQueued(o)
  <2>1. Len(o.trail) \in Nat
    BY <1>2
  <2> QED
    BY <1>1, <2>1 DEF LevelQueued
<1> QED
  BY <1>1, <1>3 DEF Searching

\* The object that Solver::solve_() starts from.
StartFields == {"model", "conflict", "maxLearnts", "adjustConfl", "adjustCnt"}

\* The fields a call of solve_() sets before it searches (Solver.cc:841-852).
LEMMA StartFresh ==
    ASSUME NEW o, IsObject(o)
    PROVE  IsTouched(o, StartSearch(o)) /\ Same(o, StartSearch(o), StartFields)
<1> DEFINE t == [o EXCEPT !.model = <<>>, !.conflict = {}]
           few == Mul(<<o.numClauses, 1>>, o.opt.learntsizeFactor)
           a == IF AtLeast(o.opt.minLearnts, few) THEN <<o.opt.minLearnts, 1>> ELSE few
           b == <<o.opt.adjustStart, 1>>
           c == o.opt.adjustStart
           u == [t EXCEPT !.maxLearnts = a, !.adjustConfl = b, !.adjustCnt = c]
<1>1. StartSearch(o) = IF ~t.ok THEN t ELSE u
  BY DEF StartSearch
<1> HIDE DEF a, b, c
<1>2. IsObject(t) /\ Same(o, t, StartFields)
  BY DEF IsObject, Same, Fields, StartFields
<1> HIDE DEF t
<1>3. IsObject(u) /\ Same(t, u, StartFields)
  BY <1>2 DEF IsObject, Same, Fields, StartFields
<1> HIDE DEF u
<1>4. StartFields \subseteq StartFields
  OBVIOUS
<1>5. Same(o, u, StartFields)
  BY <1>2, <1>3, <1>4, SameTwice
<1>6. StartFields \subseteq TouchFields
  BY DEF StartFields, TouchFields
<1>7. IsTouched(o, t) /\ IsTouched(o, u)
  BY <1>2, <1>3, <1>5, <1>6 DEF IsTouched, Same
<1> QED
  BY <1>1, <1>2, <1>5, <1>7

\* The object enters the loop, or is refuted already.
LEMMA StartGood ==
    ASSUME NEW o, Idling(o, TRUE), o.assumptions \in Seq(LitsOf(o.nextVar)), NEW t, t = StartSearch(o)
    PROVE  Stopped(t) /\ (o.ok => Searching(t))
<1>1. Good(o, TRUE) /\ IsObject(o)
  BY DEF Idling, AtRoot, Good, GoodBut
<1>2. IsTouched(o, t) /\ Same(o, t, StartFields)
  BY <1>1, StartFresh
<1>3. AsIs(o, t, TRUE)
  BY <1>1, <1>2, TouchGood
<1>4. Idling(t, TRUE)
  BY <1>3, AsIsIdles
<1>5. t.assumptions = o.assumptions
  BY <1>2 DEF Same, Fields, StartFields
<1>6. t.ok = o.ok /\ t.nextVar = o.nextVar
  BY <1>3 DEF AsIs
<1>7. o.ok => Searching(t)
  BY <1>4, <1>5, <1>6, IdleSearches
<1> QED
  BY <1>4, <1>7 DEF Idling, AtRoot, Stopped
-------------------------------------------------------------------------------
(* The next decision.                                                          *)

\* The literals of a variable, whatever the sign.
LEMMA MkLitIn ==
    ASSUME NEW n \in Nat, NEW v \in VarsUpTo(n), NEW b
    PROVE  MkLit(v, b) \in LitsOf(n) /\ VarOf(MkLit(v, b)) = v
<1> DEFINE c == IF b THEN 1 ELSE 0
<1>1. c \in {0, 1}
  OBVIOUS
<1>2. MkLit(v, b) = 2 * v + c
  BY DEF MkLit
<1> HIDE DEF c
<1>3. CASE c = 0
  <2>1. MkLit(v, b) = MkLit(v, FALSE)
    BY <1>2, <1>3 DEF MkLit
  <2> QED
    BY <2>1, MkLitFacts
<1>4. CASE c = 1
  <2>1. MkLit(v, b) = MkLit(v, TRUE)
    BY <1>2, <1>4 DEF MkLit
  <2> QED
    BY <2>1, MkLitFacts
<1> QED
  BY <1>1, <1>3, <1>4

\* An open literal is decided at a level of its own.
LEMMA DecideGood ==
    ASSUME NEW o, Good(o, TRUE), Propagated(o), o.ok, o.assumptions \in Seq(LitsOf(o.nextVar)),
           NEW p \in LitsOf(o.nextVar), Val(o.assigns, p) = LUndef
    PROVE  Searching(Decide(o, p))
<1> DEFINE d == NewDecisionLevel(o)
           u == UncheckedEnqueue(d, p, CRefUndef)
<1>1. Decide(o, p) = u
  BY DEF Decide
<1>2. LevelNew(o, d, TRUE)
  BY NewLevelGood DEF Good
<1> HIDE DEF d
<1>3. /\ GoodBut(d, TRUE) /\ Watched(d) /\ IsOpened(o, d) /\ LevelQueued(d)
      /\ Len(d.trail) \in Range(d.trailLim)
  BY <1>2 DEF LevelNew, Good
<1>4. Same(o, d, OnlyLimits) /\ IsObject(d)
  BY <1>3 DEF IsOpened
<1>5. d.nextVar = o.nextVar /\ d.assigns = o.assigns /\ d.ok = o.ok /\ d.assumptions = o.assumptions
  BY <1>4 DEF Same, Fields, OnlyLimits
<1>6. Enqueueable(d, p, CRefUndef, TRUE)
  <2>1. CRefUndef \in Refs
    BY DEF CRefUndef, Refs
  <2>2. MayFollow(p, CRefUndef, d.trail, d.trailLim, d.level, d.assigns, d.ca.at, TRUE)
    BY <1>3 DEF MayFollow
  <2> QED
    BY <1>5, <2>1, <2>2 DEF Enqueueable
<1>7. Good(u, TRUE)
  BY <1>3, <1>6, EnqueueGood DEF Good
<1>8. IsEnqueued(d, p, CRefUndef, u)
  BY <1>4, Enqueued
<1> HIDE DEF u
<1>9. Same(d, u, EnqueueFields) /\ u.trail = Append(d.trail, p)
  BY <1>8 DEF IsEnqueued
<1>10. u.trailLim = d.trailLim /\ u.qhead = d.qhead /\ u.ok = d.ok /\ u.assumptions = d.assumptions
       /\ u.nextVar = d.nextVar
  BY <1>9 DEF Same, Fields, EnqueueFields
<1>11. d.trail \in Seq(LitsOf(d.nextVar)) /\ d.qhead \in Nat
  BY <1>3, KernelTypes
<1>12. LevelQueued(u)
  <2>1. p \in LitsOf(d.nextVar)
    BY <1>5
  <2>2. Len(d.trail) \in Nat /\ Len(u.trail) = Len(d.trail) + 1
    BY <1>9, <1>11, <2>1
  <2>3. d.qhead <= Len(d.trail) /\ \A l \in DOMAIN d.trailLim : d.trailLim[l] <= d.qhead
    BY <1>3 DEF LevelQueued
  <2> QED
    BY <1>10, <1>11, <2>2, <2>3 DEF LevelQueued
<1> QED
  BY <1>1, <1>5, <1>7, <1>10, <1>12 DEF Searching

\* Another heap.
LEMMA HeapGood ==
    ASSUME NEW o, Good(o, TRUE), Propagated(o), NEW h, NEW t, t = [o EXCEPT !.heap = h]
    PROVE  AsIs(o, t, TRUE) /\ Propagated(t) /\ t.assigns = o.assigns /\ t.assumptions = o.assumptions
<1>1. IsObject(o)
  BY DEF Good, GoodBut
<1>2. IsTouched(o, t)
  BY <1>1, FieldsTouch
<1>3. AsIs(o, t, TRUE)
  BY <1>2, TouchGood
<1>4. t.assigns = o.assigns
  BY <1>2 DEF IsTouched, Same, Fields, TouchFields
<1>5. t.assumptions = o.assumptions
  <2>1. "assumptions" \in DOMAIN o
    BY <1>1 DEF IsObject, Fields
  <2> QED
    BY <2>1
<1> QED
  BY <1>3, <1>4, <1>5 DEF AsIs, Propagated

\* What the next decision may leave: the object in the loop, or out of it.
LEMMA DecisionGood ==
    ASSUME NEW o, Good(o, TRUE), Propagated(o), o.ok, o.assumptions \in Seq(LitsOf(o.nextVar)),
           Stuck(o)
    PROVE  /\ DecisionLevel(o) < Len(o.assumptions) /\ Value(o, o.assumptions[DecisionLevel(o) + 1]) # LFalse
                => Searching(Decide(o, o.assumptions[DecisionLevel(o) + 1]))
           /\ \A v \in Eligible(o) : \A sign : \A h :
                Searching(Decide([o EXCEPT !.heap = h], MkLit(v, sign)))
<1>1. /\ o.nextVar \in Nat /\ o.assigns \in [VarsUpTo(o.nextVar) -> Lbools]
      /\ o.trailLim \in Seq(Nat)
  BY KernelTypes DEF Good
<1>2. o.decision \subseteq VarsUpTo(o.nextVar)
  BY DEF Good, GoodBut, Types
<1>3. ASSUME DecisionLevel(o) < Len(o.assumptions),
             Value(o, o.assumptions[DecisionLevel(o) + 1]) # LFalse
      PROVE  Searching(Decide(o, o.assumptions[DecisionLevel(o) + 1]))
  <2> DEFINE L == Len(o.trailLim)
             p == o.assumptions[L + 1]
  <2>1. L < Len(o.assumptions) /\ Val(o.assigns, p) # LFalse /\ DecisionLevel(o) = L
    BY <1>3 DEF DecisionLevel, Value, Val
  <2>2. Val(o.assigns, p) # LTrue
    BY <2>1 DEF Stuck
  <2>3. L + 1 \in DOMAIN o.assumptions
    <3>1. L \in Nat /\ Len(o.assumptions) \in Nat /\ DOMAIN o.assumptions = 1 .. Len(o.assumptions)
      BY <1>1
    <3> HIDE DEF L
    <3> QED
      BY <2>1, <3>1
  <2>4. p \in LitsOf(o.nextVar)
    BY <2>3
  <2> HIDE DEF p
  <2>5. Val(o.assigns, p) \in Lbools
    BY <1>1, <2>4, ValFacts
  <2>6. Val(o.assigns, p) = LUndef
    BY <2>1, <2>2, <2>5 DEF Lbools
  <2>7. Searching(Decide(o, p))
    BY <2>4, <2>6, DecideGood
  <2> QED
    BY <2>1, <2>7 DEF p
<1>4. ASSUME NEW v \in Eligible(o), NEW sign, NEW h
      PROVE  Searching(Decide([o EXCEPT !.heap = h], MkLit(v, sign)))
  <2> DEFINE t == [o EXCEPT !.heap = h]
             p == MkLit(v, sign)
  <2>1. v \in o.decision /\ o.assigns[v] = LUndef
    BY DEF Eligible
  <2>2. v \in VarsUpTo(o.nextVar)
    BY <1>2, <2>1
  <2>3. p \in LitsOf(o.nextVar) /\ VarOf(p) = v
    BY <1>1, <2>2, MkLitIn
  <2> HIDE DEF p
  <2>4. Val(o.assigns, p) = LUndef
    BY <1>1, <2>1, <2>3, ValFacts
  <2>5. AsIs(o, t, TRUE) /\ Propagated(t) /\ t.assigns = o.assigns /\ t.assumptions = o.assumptions
    BY HeapGood
  <2> HIDE DEF t
  <2>6. Good(t, TRUE) /\ t.ok /\ t.nextVar = o.nextVar
    BY <2>5 DEF AsIs
  <2>7. Searching(Decide(t, p))
    BY <2>3, <2>4, <2>5, <2>6, DecideGood
  <2> QED
    BY <2>7 DEF t, p
<1> QED
  BY <1>3, <1>4

-------------------------------------------------------------------------------
(* One iteration of search().                                                  *)

\* The object after propagation.
Ready(o) == Stopped(o) /\ o.ok /\ o.assumptions \in Seq(LitsOf(o.nextVar))

\* What the parts of an iteration do not change.
LEMMA StaysReady ==
    ASSUME NEW o, Ready(o), NEW t, Stopped(t), NEW fs, Same(o, t, fs),
           {"assumptions", "nextVar", "ok"} \intersect fs = {}
    PROVE  Ready(t)
<1>1. t.assumptions = o.assumptions /\ t.nextVar = o.nextVar /\ t.ok = o.ok
  BY DEF Same, Fields
<1> QED
  BY <1>1 DEF Ready

\* After propagate() a searching object is ready for its conflict, or for a
\* decision.
LEMMA PropagateReady ==
    ASSUME NEW o, Searching(o), NEW r, r = Propagate(o)
    PROVE  Ready(r.s) /\ (r.confl # CRefUndef => ConflictRight(r.s, r.confl))
<1>1. Propagates(o, r, TRUE)
  BY PropagateGood DEF Searching
<1>2. Good(r.s, TRUE) /\ Propagated(r.s) /\ Same(o, r.s, PropFields)
      /\ (r.confl # CRefUndef => ConflictRight(r.s, r.confl))
  BY <1>1 DEF Propagates
<1>3. r.s.assumptions = o.assumptions /\ r.s.nextVar = o.nextVar /\ r.s.ok = o.ok
  BY <1>2 DEF Same, Fields, PropFields, VisitFields
<1> QED
  BY <1>2, <1>3 DEF Searching, Ready, Stopped

\* A conflict is counted against the budget and, above the root, learnt from.
LEMMA ConflictLearnt ==
    ASSUME NEW o, Ready(o), NEW cr, ConflictRight(o, cr), NEW b, NEW t, t = [o EXCEPT !.confBudget = b]
    PROVE  Stopped(t) /\ (DecisionLevel(t) # 0 => Searching(Learn(t, Analyze(t, cr))))
<1>1. Good(o, TRUE) /\ Propagated(o) /\ IsObject(o)
  BY DEF Ready, Stopped, Good, GoodBut
<1>2. IsTouched(o, t)
  BY <1>1, FieldsTouch
<1>3. AsIs(o, t, TRUE)
  BY <1>1, <1>2, TouchGood
<1>4. Good(t, TRUE) /\ t.trailLim = o.trailLim /\ t.trail = o.trail /\ t.qhead = o.qhead /\ t.ok = o.ok
      /\ t.nextVar = o.nextVar
  BY <1>3 DEF AsIs
<1>5. t.ca = o.ca /\ t.assigns = o.assigns /\ t.level = o.level
  BY <1>2 DEF IsTouched, Same, Fields, TouchFields
<1>6. t.assumptions = o.assumptions
  <2>1. "assumptions" \in DOMAIN o
    BY <1>1 DEF IsObject, Fields
  <2> QED
    BY <2>1
<1>7. ConflictRight(t, cr)
  BY <1>4, <1>5 DEF ConflictRight
<1>8. Stopped(t)
  BY <1>1, <1>4 DEF Stopped, Propagated
<1>9. ASSUME DecisionLevel(t) # 0
      PROVE  Searching(Learn(t, Analyze(t, cr)))
  <2> DEFINE a == Analyze(t, cr)
             u == Learn(t, a)
  <2>1. GoodBut(t, TRUE)
    BY <1>4 DEF Good
  <2>2. Len(t.trailLim) > 0
    <3>1. t.trailLim \in Seq(Nat)
      BY <2>1, KernelTypes
    <3>2. Len(t.trailLim) \in Nat /\ Len(t.trailLim) # 0
      BY <1>9, <3>1 DEF DecisionLevel
    <3> QED
      BY <3>2
  <2>3. AssertingRight(t, a)
    BY <1>7, <2>1, <2>2, AnalyzeGood
  <2> HIDE DEF a
  <2>4. LearntGood(t, u)
    BY <1>4, <2>3, LearnGood
  <2> HIDE DEF u
  <2>5. Good(u, TRUE) /\ LevelQueued(u) /\ Same(t, u, LearnFields)
    BY <2>4 DEF LearntGood
  <2>6. u.ok = t.ok /\ u.assumptions = t.assumptions /\ u.nextVar = t.nextVar
    BY <2>5 DEF Same, Fields, LearnFields, CancelFields, StoreFields, AttachFields, EnqueueFields
  <2>7. Searching(u)
    BY <1>4, <1>6, <2>5, <2>6 DEF Searching, Ready
  <2> QED
    BY <2>7 DEF u, a
<1> QED
  BY <1>8, <1>9

\* A restart.
LEMMA RestartGood ==
    ASSUME NEW o, Ready(o)
    PROVE  Stopped(CancelUntil(o, 0)) /\ Searching(CancelUntil(o, 0))
<1> DEFINE t == CancelUntil(o, 0)
<1>1. Good(o, TRUE) /\ Propagated(o)
  BY DEF Ready, Stopped
<1>2. BackAt(o, 0, t, TRUE)
  BY <1>1, CancelBack
<1> HIDE DEF t
<1>3. Good(t, TRUE) /\ Propagated(t) /\ Len(t.trailLim) <= 0 /\ Same(o, t, CancelFields)
  BY <1>2 DEF BackAt
<1>4. t.trailLim \in Seq(Nat)
  BY <1>3, KernelTypes DEF Good
<1>5. t.trailLim = <<>>
  BY <1>3, <1>4
<1>6. Idling(t, TRUE)
  BY <1>3, <1>5 DEF Idling, AtRoot
<1>7. t.ok = o.ok /\ t.assumptions = o.assumptions /\ t.nextVar = o.nextVar
  BY <1>3 DEF Same, Fields, CancelFields
<1>8. Searching(t)
  BY <1>6, <1>7, IdleSearches DEF Ready
<1> QED
  BY <1>3, <1>8 DEF Stopped, t

\* At the root the clauses are simplified.
LEMMA SimplifyReady ==
    ASSUME NEW o, Ready(o), NEW t, t = IF DecisionLevel(o) = 0 THEN Simplify(o) ELSE o
    PROVE  Stopped(t) /\ (t.ok => Ready(t))
<1>1. CASE DecisionLevel(o) = 0
  <2>1. t = Simplify(o) /\ Good(o, TRUE) /\ Propagated(o)
    BY <1>1 DEF Ready, Stopped
  <2>2. o.trailLim \in Seq(Nat)
    BY <2>1, KernelTypes DEF Good
  <2>3. o.trailLim = <<>>
    BY <1>1, <2>2 DEF DecisionLevel
  <2>4. Idling(o, TRUE)
    BY <2>1, <2>3 DEF Idling, AtRoot
  <2>5. SimplifiedTo(o, Simplify(o), TRUE)
    BY <2>4, SimplifyGood
  <2>6. Idling(t, TRUE) /\ Same(o, t, SimplifyFields)
    BY <2>1, <2>5 DEF SimplifiedTo
  <2>7. t.assumptions = o.assumptions /\ t.nextVar = o.nextVar
    BY <2>6 DEF Same, Fields, SimplifyFields, PropFields, VisitFields, CleanFields, MoveFields,
                RemoveFields, OnlyLists, RecycleFields
  <2>8. Stopped(t)
    BY <2>6 DEF Idling, AtRoot, Stopped
  <2> QED
    BY <2>7, <2>8 DEF Ready
<1>2. CASE DecisionLevel(o) # 0
  <2>1. t = o
    BY <1>2
  <2> QED
    BY <2>1 DEF Ready
<1> QED
  BY <1>1, <1>2

\* Learnt clauses are removed.
LEMMA ReduceReady ==
    ASSUME NEW o, Ready(o), NEW victims \in Reducible(o)
    PROVE  Ready(ReduceDB(o, victims))
<1> DEFINE t == ReduceDB(o, victims)
<1>1. Good(o, TRUE) /\ Propagated(o)
  BY DEF Ready, Stopped
<1>2. Unlocked(o, victims)
  BY <1>1, ReducibleUnlocked
<1>3. Reduced(o, t, TRUE)
  BY <1>1, <1>2, ReduceGood
<1> HIDE DEF t
<1>4. Good(t, TRUE) /\ Same(o, t, ReduceFields)
  BY <1>3 DEF Reduced
<1>5. t.trail = o.trail /\ t.qhead = o.qhead
  BY <1>4 DEF Same, Fields, ReduceFields, RemoveFields, OnlyLists, MoveFields
<1>6. Stopped(t)
  BY <1>1, <1>4, <1>5 DEF Stopped, Propagated
<1>7. {"assumptions", "nextVar", "ok"} \intersect ReduceFields = {}
  BY DEF ReduceFields, RemoveFields, OnlyLists, MoveFields
<1>8. Ready(t)
  BY <1>4, <1>6, <1>7, StaysReady
<1> QED
  BY <1>8 DEF t

\* Levels for the assumptions that hold.
LEMMA SkipReady ==
    ASSUME NEW o, Ready(o)
    PROVE  Ready(SkipHolding(o)) /\ Stuck(SkipHolding(o))
<1> DEFINE t == SkipHolding(o)
<1>a. o.assumptions \in Seq(LitsOf(o.nextVar))
  BY DEF Ready
<1>b. Len(o.assumptions) \in Nat
  BY <1>a
<1>1. Good(o, TRUE) /\ Propagated(o) /\ Len(o.assumptions) \in Nat
  BY <1>b DEF Ready, Stopped
<1>2. SkippedGood(o, t)
  BY <1>1, SkipGood
<1> HIDE DEF t
<1>3. Stopped(t) /\ Same(o, t, OnlyLimits) /\ Stuck(t)
  BY <1>2 DEF SkippedGood, Stopped
<1>4. {"assumptions", "nextVar", "ok"} \intersect OnlyLimits = {}
  BY DEF OnlyLimits
<1>5. Ready(t)
  BY <1>3, <1>4, StaysReady
<1> QED
  BY <1>3, <1>5 DEF t

-------------------------------------------------------------------------------
(* The invariant.                                                              *)

CorePcs == {"client", "eliminated", "search", "sat", "unsat", "unknown"}

\* What holds of the object o when the call is at position at.
Fits(o, at) ==
    /\ at \in CorePcs
    /\ at = "search" => Searching(o)
    /\ at # "search" => Stopped(o)
    /\ at \in {"client", "eliminated"} => o.trailLim = <<>>

CoreInv ==
    /\ client \in Range(Clients) /\ client.simp = FALSE
    /\ frame.simp = FALSE /\ Fits(s, pc)

\* A step of solve() to another part of it.
LEMMA FitsSearching ==
    ASSUME NEW o, Searching(o)
    PROVE  Fits(o, "search")
BY DEF Fits, CorePcs

\* A search that has stopped may report any of its answers.
LEMMA FitsStopped ==
    ASSUME NEW o, Stopped(o)
    PROVE  Fits(o, "unsat") /\ Fits(o, "sat") /\ Fits(o, "unknown")
BY DEF Fits, CorePcs

\* An idle object may return to its client.
LEMMA FitsIdle ==
    ASSUME NEW o, Idling(o, TRUE)
    PROVE  Fits(o, "client") /\ Fits(o, "eliminated")
BY DEF Fits, CorePcs, Idling, AtRoot, Stopped

\* The same the other way round.
LEMMA IdleFits ==
    ASSUME NEW o, Fits(o, "client") \/ Fits(o, "eliminated")
    PROVE  Idling(o, TRUE)
BY DEF Fits, CorePcs, Idling, AtRoot, Stopped

-------------------------------------------------------------------------------
(* The steps of the search keep the invariant.                                 *)

\* What the steps of a call leave alone.
LEMMA BusyKeeps ==
    ASSUME CoreInv, NEW next, Busy(next), frame'.simp = FALSE, Fits(s', next)
    PROVE  CoreInv'
<1>1. pc' = next /\ client' = client
  BY DEF Busy
<1> QED
  BY <1>1 DEF CoreInv

\* The next decision.
LEMMA BranchKeeps ==
    ASSUME CoreInv, NEW o, Ready(o), Stuck(o), Branch(o), frame' = frame
    PROVE  CoreInv'
<1> DEFINE level == DecisionLevel(o)
           p == o.assumptions[level + 1]
<1>1. Good(o, TRUE) /\ Propagated(o) /\ o.ok /\ o.assumptions \in Seq(LitsOf(o.nextVar)) /\ IsObject(o)
  BY DEF Ready, Stopped, Good, GoodBut
<1>2. frame'.simp = FALSE
  BY DEF CoreInv
<1>3. /\ level < Len(o.assumptions) /\ Value(o, p) # LFalse => Searching(Decide(o, p))
      /\ \A v \in Eligible(o) : \A sign : \A h :
           Searching(Decide([o EXCEPT !.heap = h], MkLit(v, sign)))
  BY <1>1, DecisionGood
<1>4. CASE level < Len(o.assumptions) /\ Value(o, p) = LFalse
  <2> DEFINE c == AnalyzeFinal(o, Neg(p))
             t == [o EXCEPT !.conflict = c]
  <2>1. s' = t /\ Busy("unsat")
    BY <1>4 DEF Branch
  <2> HIDE DEF c
  <2>2. IsTouched(o, t)
    BY <1>1, FieldsTouch
  <2>3. AsIs(o, t, TRUE)
    BY <1>1, <2>2, TouchGood
  <2> HIDE DEF t
  <2>4. Stopped(t)
    BY <1>1, <2>3 DEF AsIs, Stopped, Propagated
  <2>5. Fits(t, "unsat")
    BY <2>4, FitsStopped
  <2>6. Fits(s', "unsat")
    BY <2>1, <2>5
  <2> QED
    BY <1>2, <2>1, <2>6, BusyKeeps
<1>5. CASE level < Len(o.assumptions) /\ Value(o, p) # LFalse
  <2>1. s' = Decide(o, p) /\ Busy("search")
    BY <1>5 DEF Branch
  <2>2. Searching(s')
    BY <1>3, <1>5, <2>1
  <2>3. Fits(s', "search")
    BY <2>2, FitsSearching
  <2> QED
    BY <1>2, <2>1, <2>3, BusyKeeps
<1>6. CASE ~(level < Len(o.assumptions)) /\ Eligible(o) = {}
  <2> DEFINE t == [o EXCEPT !.heap = {}]
  <2>1. s' = t /\ Busy("sat")
    BY <1>6 DEF Branch
  <2>2. AsIs(o, t, TRUE) /\ Propagated(t)
    BY <1>1, HeapGood
  <2> HIDE DEF t
  <2>3. Stopped(t)
    BY <2>2 DEF AsIs, Stopped
  <2>4. Fits(t, "sat")
    BY <2>3, FitsStopped
  <2>5. Fits(s', "sat")
    BY <2>1, <2>4
  <2> QED
    BY <1>2, <2>1, <2>5, BusyKeeps
<1>7. CASE ~(level < Len(o.assumptions)) /\ Eligible(o) # {}
  <2>1. \E v \in Eligible(o) : \E sign \in BranchSigns(o, v) :
           s' = Decide([o EXCEPT !.heap = Eligible(o) \ {v}], MkLit(v, sign)) /\ Busy("search")
    BY <1>7 DEF Branch
  <2>2. PICK v \in Eligible(o) : \E sign \in BranchSigns(o, v) :
           s' = Decide([o EXCEPT !.heap = Eligible(o) \ {v}], MkLit(v, sign)) /\ Busy("search")
    BY <2>1
  <2>3. PICK sign \in BranchSigns(o, v) :
           s' = Decide([o EXCEPT !.heap = Eligible(o) \ {v}], MkLit(v, sign)) /\ Busy("search")
    BY <2>2
  <2> DEFINE h == Eligible(o) \ {v}
  <2>4. s' = Decide([o EXCEPT !.heap = h], MkLit(v, sign)) /\ Busy("search")
    BY <2>3
  <2> HIDE DEF h
  <2>5. Searching(Decide([o EXCEPT !.heap = h], MkLit(v, sign)))
    BY <1>3
  <2>6. Searching(s')
    BY <2>4, <2>5
  <2>7. Fits(s', "search")
    BY <2>6, FitsSearching
  <2> QED
    BY <1>2, <2>4, <2>7, BusyKeeps
<1> QED
  BY <1>4, <1>5, <1>6, <1>7

\* No conflict and no limit reached.
LEMMA ExtendKeeps ==
    ASSUME CoreInv, NEW o, Stopped(o), o.ok => Ready(o), o.ok \in BOOLEAN, Extend(o), frame' = frame
    PROVE  CoreInv'
<1>1. CASE ~o.ok
  <2>1. s' = o /\ Busy("unsat")
    BY <1>1 DEF Extend
  <2>2. Fits(s', "unsat")
    BY <2>1, FitsStopped
  <2>3. frame'.simp = FALSE
    BY DEF CoreInv
  <2> QED
    BY <2>1, <2>2, <2>3, BusyKeeps
<1>2. CASE o.ok
  <2>1. Ready(o)
    BY <1>2
  <2>2. PICK victims \in IF Crowded(o) THEN Reducible(o) ELSE {{}} :
           Branch(SkipHolding(IF Crowded(o) THEN ReduceDB(o, victims) ELSE o))
    BY <1>2 DEF Extend
  <2> DEFINE x == IF Crowded(o) THEN ReduceDB(o, victims) ELSE o
             y == SkipHolding(x)
  <2>3. Ready(x)
    <3>1. CASE Crowded(o)
      <4>1. victims \in Reducible(o)
        BY <2>2, <3>1
      <4>2. Ready(ReduceDB(o, victims))
        BY <2>1, <4>1, ReduceReady
      <4> QED
        BY <3>1, <4>2
    <3>2. CASE ~Crowded(o)
      BY <2>1, <3>2
    <3> QED
      BY <3>1, <3>2
  <2>4. Branch(y)
    BY <2>2
  <2> HIDE DEF x
  <2>5. Ready(y) /\ Stuck(y)
    BY <2>3, SkipReady
  <2> HIDE DEF y
  <2> QED
    BY <2>4, <2>5, BranchKeeps
<1> QED
  BY <1>1, <1>2

\* A step of search() keeps the invariant, whichever way it goes.
LEMMA SearchKeeps ==
    ASSUME CoreInv, Search
    PROVE  CoreInv'
<1> DEFINE r == Propagate(s)
           o == r.s
           confl == r.confl
<1>1. pc = "search" /\ AfterPropagate(o, confl)
  BY DEF Search
<1>2. Searching(s)
  BY <1>1 DEF CoreInv, Fits
<1>3. Ready(o) /\ (confl # CRefUndef => ConflictRight(o, confl))
  BY <1>2, PropagateReady
<1> HIDE DEF r
<1> HIDE DEF o, confl
<1>4. CASE confl # CRefUndef
  <2> DEFINE b == Spend(o.confBudget, 1)
             t == [o EXCEPT !.confBudget = b]
  <2>1. Conflict(t, confl)
    BY <1>1, <1>4 DEF AfterPropagate
  <2> HIDE DEF b
  <2>2. Stopped(t) /\ (DecisionLevel(t) # 0 => Searching(Learn(t, Analyze(t, confl))))
    BY <1>3, <1>4, ConflictLearnt
  <2> HIDE DEF t
  <2>3. CASE DecisionLevel(t) = 0
    <3>1. s' = t /\ frame' = frame /\ Busy("unsat")
      BY <2>1, <2>3 DEF Conflict
    <3>2. Fits(s', "unsat")
      BY <2>2, <3>1, FitsStopped
    <3>3. frame'.simp = FALSE
      BY <3>1 DEF CoreInv
    <3> QED
      BY <3>1, <3>2, <3>3, BusyKeeps
  <2>4. CASE DecisionLevel(t) # 0
    <3>1. s' = Learn(t, Analyze(t, confl)) /\ frame' = [frame EXCEPT !.conflicts = @ + 1] /\ Busy("search")
      BY <2>1, <2>4 DEF Conflict
    <3>2. Searching(s')
      BY <2>2, <2>4, <3>1
    <3>3. Fits(s', "search")
      BY <3>2, FitsSearching
    <3>4. frame'.simp = FALSE
      BY <3>1 DEF CoreInv
    <3> QED
      BY <3>1, <3>3, <3>4, BusyKeeps
  <2> QED
    BY <2>3, <2>4
<1>5. CASE confl = CRefUndef /\ (frame.conflicts >= frame.limit \/ ~WithinBudget(o))
  <2> DEFINE n == frame.restarts + 1
             l == RestartLimit(o, n)
             f == [frame EXCEPT !.restarts = n, !.conflicts = 0, !.limit = l]
             t == CancelUntil(o, 0)
  <2>1. Restart(o)
    BY <1>1, <1>5 DEF AfterPropagate
  <2>2. s' = t /\ ((frame' = f /\ Busy("search")) \/ (frame' = frame /\ Busy("unknown")))
    <3>1. s' = t /\ IF WithinBudget(o) THEN frame' = f /\ Busy("search")
                    ELSE frame' = frame /\ Busy("unknown")
      BY <2>1, Zenon DEF Restart
    <3> HIDE DEF f, t
    <3> QED
      BY <3>1
  <2>3. Stopped(t) /\ Searching(t)
    BY <1>3, RestartGood
  <2> HIDE DEF t, n, l
  <2>4. f.simp = frame.simp
    OBVIOUS
  <2>5. frame'.simp = FALSE
    BY <2>2, <2>4 DEF CoreInv
  <2>6. Fits(s', "search") /\ Fits(s', "unknown")
    BY <2>2, <2>3, FitsSearching, FitsStopped
  <2>7. Busy("search") \/ Busy("unknown")
    BY <2>2
  <2> QED
    BY <2>5, <2>6, <2>7, BusyKeeps
<1>6. CASE confl = CRefUndef /\ ~(frame.conflicts >= frame.limit \/ ~WithinBudget(o))
  <2> DEFINE x == IF DecisionLevel(o) = 0 THEN Simplify(o) ELSE o
  <2>1. frame' = frame /\ Extend(x)
    BY <1>1, <1>6 DEF AfterPropagate
  <2>2. Stopped(x) /\ (x.ok => Ready(x))
    BY <1>3, SimplifyReady
  <2> HIDE DEF x
  <2>3. x.ok \in BOOLEAN
    BY <2>2 DEF Stopped, Good, GoodBut, Types
  <2> QED
    BY <2>1, <2>2, <2>3, ExtendKeeps
<1> QED
  BY <1>4, <1>5, <1>6
-------------------------------------------------------------------------------
(* solve() returns.                                                            *)

\* Back to the client.
LEMMA FinishKeeps ==
    ASSUME CoreInv, NEW o, NEW op, NEW status, Idling(o, TRUE), Finish(o, op, status)
    PROVE  CoreInv'
<1>1. s' = o /\ pc' = "client" /\ frame' = NoFrame /\ client' = client
  BY DEF Finish, CoreInv, asked
<1>2. Fits(s', "client")
  BY <1>1, FitsIdle
<1>3. frame'.simp = FALSE
  BY <1>1 DEF NoFrame
<1> QED
  BY <1>1, <1>2, <1>3 DEF CoreInv

\* Back at the root.
LEMMA BackAtRoot ==
    ASSUME NEW o, Stopped(o)
    PROVE  Idling(CancelUntil(o, 0), TRUE)
<1> DEFINE t == CancelUntil(o, 0)
<1>1. BackAt(o, 0, t, TRUE)
  BY CancelBack DEF Stopped
<1> HIDE DEF t
<1>2. Good(t, TRUE) /\ Propagated(t) /\ Len(t.trailLim) <= 0
  BY <1>1 DEF BackAt
<1>3. t.trailLim \in Seq(Nat)
  BY <1>2, KernelTypes DEF Good
<1>4. t.trailLim = <<>>
  BY <1>2, <1>3
<1>5. Idling(t, TRUE)
  BY <1>2, <1>4 DEF Idling, AtRoot
<1> QED
  BY <1>5 DEF t

\* The end of a search with a model keeps the invariant (Solver.cc:875-883).
LEMMA FoundModelKeeps ==
    ASSUME CoreInv, FoundModel
    PROVE  CoreInv'
<1> DEFINE model == [v \in 0 .. s.nextVar - 1 |-> s.assigns[v]]
           t == [s EXCEPT !.model = model]
           m == CancelUntil(t, 0)
<1>1. pc = "sat" /\ Finish(m, "solve", LTrue)
  BY DEF FoundModel, CoreInv
<1>2. Good(s, TRUE) /\ Propagated(s) /\ IsObject(s)
  BY <1>1 DEF CoreInv, Fits, Stopped, Good, GoodBut
<1> HIDE DEF model
<1>3. IsTouched(s, t)
  BY <1>2, FieldsTouch
<1>4. AsIs(s, t, TRUE)
  BY <1>2, <1>3, TouchGood
<1> HIDE DEF t
<1>5. Stopped(t)
  BY <1>2, <1>4 DEF AsIs, Stopped, Propagated
<1>6. Idling(m, TRUE)
  BY <1>5, BackAtRoot
<1> HIDE DEF m
<1> QED
  BY <1>1, <1>6, FinishKeeps

\* The end of a search without one keeps the invariant (Solver.cc:879-883).
LEMMA FoundUnsatKeeps ==
    ASSUME CoreInv, FoundUnsat
    PROVE  CoreInv'
<1> DEFINE b == s.ok /\ s.conflict # {}
           t == [s EXCEPT !.ok = b]
           m == CancelUntil(t, 0)
<1>1. pc = "unsat" /\ Finish(m, "solve", LFalse)
  BY DEF FoundUnsat
<1>2. Good(s, TRUE) /\ Propagated(s)
  BY <1>1 DEF CoreInv, Fits, Stopped
<1>3. b \in BOOLEAN /\ (b => s.ok)
  BY <1>2 DEF Good, GoodBut, Types
<1> HIDE DEF b
<1>4. Good(t, TRUE) /\ t.trail = s.trail /\ t.qhead = s.qhead
  BY <1>2, <1>3, OkGood
<1> HIDE DEF t
<1>5. Stopped(t)
  BY <1>2, <1>4 DEF Stopped, Propagated
<1>6. Idling(m, TRUE)
  BY <1>5, BackAtRoot
<1> HIDE DEF m
<1> QED
  BY <1>1, <1>6, FinishKeeps

\* The end of a search that ran out of budget keeps the invariant.
LEMMA GaveUpKeeps ==
    ASSUME CoreInv, GaveUp
    PROVE  CoreInv'
<1> DEFINE m == CancelUntil(s, 0)
<1>1. pc = "unknown" /\ Finish(m, "solve", LUndef)
  BY DEF GaveUp
<1>2. Stopped(s)
  BY <1>1 DEF CoreInv, Fits
<1>3. Idling(m, TRUE)
  BY <1>2, BackAtRoot
<1> HIDE DEF m
<1> QED
  BY <1>1, <1>3, FinishKeeps

\* A return from elimination keeps the invariant.
LEMMA ReturnEliminatedKeeps ==
    ASSUME CoreInv, ReturnEliminated
    PROVE  CoreInv'
<1>1. pc = "eliminated" /\ Finish(s, "eliminate", ToLbool(s.ok))
  BY DEF ReturnEliminated
<1>2. Fits(s, "eliminated")
  BY <1>1 DEF CoreInv
<1>3. Idling(s, TRUE)
  BY <1>2, IdleFits
<1> QED
  BY <1>1, <1>3, FinishKeeps

-------------------------------------------------------------------------------
(* The calls of a client keep the invariant.                                   *)

\* Between two calls the object is idle.
LEMMA ClientIdle ==
    ASSUME CoreInv, pc = "client"
    PROVE  Idling(s, TRUE) /\ client.simp = FALSE
<1>1. Fits(s, "client")
  BY DEF CoreInv
<1> QED
  BY <1>1, IdleFits DEF CoreInv

\* A call that returns at once.
LEMMA ReturnsKeeps ==
    ASSUME CoreInv, pc = "client", NEW op, NEW status, NEW out, Returns(op, status, out),
           Idling(s', TRUE)
    PROVE  CoreInv'
<1>1. client' = client /\ pc' = "client" /\ frame' = frame
  BY DEF Returns
<1>2. Fits(s', "client")
  BY FitsIdle
<1> QED
  BY <1>1, <1>2 DEF CoreInv

\* A call of newVar() keeps the invariant.
LEMMA NewVarKeeps ==
    ASSUME CoreInv, CallNewVar
    PROVE  CoreInv'
<1> DEFINE upol == Call.upol
           dvar == Call.dvar
<1>1. pc = "client" /\ Returns("newVar", LUndef, <<>>)
  BY DEF CallNewVar, Calls
<1>2. Idling(s, TRUE) /\ client.simp = FALSE
  BY <1>1, ClientIdle
<1>3. s' = NewVar(s, upol, dvar)
  BY <1>2 DEF CallNewVar
<1> HIDE DEF upol, dvar
<1>4. Idling(s', TRUE)
  BY <1>2, <1>3, NewVarGood
<1> QED
  BY <1>1, <1>4, ReturnsKeeps

\* Literals that the library may be given.
LEMMA LegalLits ==
    ASSUME NEW lits \in Seq({p \in Lit : Kept(p)})
    PROVE  lits \in Seq(LitsOf(s.nextVar))
<1>1. {p \in Lit : Kept(p)} \subseteq LitsOf(s.nextVar)
  BY DEF Lit, LitsOf
<1> QED
  BY <1>1, SeqGrows

\* A call of addClause_() keeps the invariant.
LEMMA AddClauseKeeps ==
    ASSUME CoreInv, CallAddClause
    PROVE  CoreInv'
<1> DEFINE lits == Call.lits
<1>1. pc = "client" /\ Returns("addClause", ToLbool(s'.ok), <<>>)
  BY DEF CallAddClause, Calls
<1>2. Idling(s, TRUE) /\ client.simp = FALSE
  BY <1>1, ClientIdle
<1>3. s' = CoreAddClause(s, lits)
  BY <1>2 DEF CallAddClause, AddClause
<1>4. lits \in Seq({p \in Lit : Kept(p)})
  BY DEF CallAddClause, Calls, Legal
<1> HIDE DEF lits
<1>5. lits \in Seq(LitsOf(s.nextVar))
  BY <1>4, LegalLits
<1>6. AddedTo(s, CoreAddClause(s, lits), TRUE)
  BY <1>2, <1>5, AddClauseGood
<1>7. Idling(s', TRUE)
  BY <1>3, <1>6 DEF AddedTo
<1> QED
  BY <1>1, <1>7, ReturnsKeeps

\* A call of releaseVar() keeps the invariant.
LEMMA ReleaseVarKeeps ==
    ASSUME CoreInv, CallReleaseVar
    PROVE  CoreInv'
<1> DEFINE p == Call.lit
<1>1. pc = "client" /\ Returns("releaseVar", LUndef, <<>>)
  BY DEF CallReleaseVar, Calls
<1>2. Idling(s, TRUE) /\ client.simp = FALSE
  BY <1>1, ClientIdle
<1>3. s' = CoreReleaseVar(s, p)
  BY <1>2 DEF CallReleaseVar
<1>4. p \in Lit
  BY DEF CallReleaseVar, Calls, Legal
<1>5. p \in LitsOf(s.nextVar)
  BY <1>4 DEF Lit, LitsOf
<1> HIDE DEF p
<1>6. Idling(CoreReleaseVar(s, p), TRUE)
  BY <1>2, <1>5, ReleaseGood
<1>7. Idling(s', TRUE)
  BY <1>3, <1>6
<1> QED
  BY <1>1, <1>7, ReturnsKeeps

\* A Solver has no substitute().
LEMMA SubstituteKeeps ==
    ASSUME CoreInv, CallSubstitute
    PROVE  CoreInv'
<1>1. client.simp
  BY DEF CallSubstitute, Calls, Legal
<1> QED
  BY <1>1 DEF CoreInv

\* A setter that touches only what the invariant is not about.
LEMMA TouchedIdle ==
    ASSUME NEW o, Idling(o, TRUE), NEW t, IsTouched(o, t)
    PROVE  Idling(t, TRUE)
<1>1. Good(o, TRUE)
  BY DEF Idling, AtRoot
<1>2. AsIs(o, t, TRUE)
  BY <1>1, TouchGood
<1> QED
  BY <1>2, AsIsIdles

\* A call of a setter keeps the invariant.
LEMMA SetterKeeps ==
    ASSUME CoreInv, CallSetter
    PROVE  CoreInv'
<1> DEFINE c == Call
<1>1. PICK op \in Setters : Calls(op)
  BY DEF CallSetter
<1>2. pc = "client" /\ c.op \in Setters /\ Legal(c)
  BY <1>1 DEF Calls
<1>3. s' = Setting(c) /\ Returns(c.op, LUndef, <<>>)
  BY DEF CallSetter
<1> HIDE DEF c
<1>4. Idling(s, TRUE) /\ client.simp = FALSE
  BY <1>2, ClientIdle
<1>5. IsObject(s) /\ GoodBut(s, TRUE) /\ Watched(s)
  BY <1>4 DEF Idling, AtRoot, Good, GoodBut
<1> DEFINE x == c.var
           y == c.value
<1>6. c.op \in {"setPolarity", "setDecisionVar", "setConfBudget", "setPropBudget", "clearInterrupt"}
  <2>1. c.op \notin {"setFrozen", "freezeVar", "thaw"}
    BY <1>2, <1>4 DEF Legal
  <2> QED
    BY <1>2, <2>1 DEF Setters
<1>7. CASE c.op = "setDecisionVar"
  <2> DEFINE t == SetDecisionVar(s, x, y)
  <2>1. s' = t
    BY <1>3, <1>7 DEF Setting
  <2>2. x \in VarsUpTo(s.nextVar)
    BY <1>2, <1>7 DEF Legal, Vars, VarsUpTo
  <2> HIDE DEF x, y
  <2>3. DecisionSet(s, x, t)
    BY <1>5, DecisionSetFields
  <2> HIDE DEF t
  <2>4. Good(t, TRUE)
    BY <1>5, <2>2, <2>3, DecisionSetGood DEF Good
  <2>5. t.trailLim = s.trailLim /\ t.trail = s.trail /\ t.qhead = s.qhead
    BY <2>3 DEF DecisionSet, Same, Fields, BranchFields
  <2>6. Idling(t, TRUE)
    BY <1>4, <2>4, <2>5 DEF Idling, AtRoot, Propagated
  <2> QED
    BY <1>2, <1>3, <2>1, <2>6, ReturnsKeeps
<1>8. CASE c.op # "setDecisionVar"
  <2>1. s' \in {SetPolarity(s, x, y), SetConfBudget(s, y), SetPropBudget(s, y), ClearInterrupt(s)}
    BY <1>3, <1>6, <1>8 DEF Setting
  <2> HIDE DEF x, y
  <2>2. IsTouched(s, SetPolarity(s, x, y))
    BY <1>5, SettersTouch
  <2>3. IsTouched(s, SetConfBudget(s, y))
    BY <1>5, SettersTouch
  <2>4. IsTouched(s, SetPropBudget(s, y))
    BY <1>5, SettersTouch
  <2>5. IsTouched(s, ClearInterrupt(s))
    BY <1>5, SettersTouch
  <2>6. IsTouched(s, s')
    BY <2>1, <2>2, <2>3, <2>4, <2>5
  <2>7. Idling(s', TRUE)
    BY <1>4, <2>6, TouchedIdle
  <2> QED
    BY <1>2, <1>3, <2>7, ReturnsKeeps
<1> QED
  BY <1>7, <1>8

\* A call of simplify() keeps the invariant.
LEMMA SimplifyKeeps ==
    ASSUME CoreInv, CallSimplify
    PROVE  CoreInv'
<1>1. pc = "client" /\ s' = Simplify(s) /\ Returns("simplify", ToLbool(s'.ok), <<>>)
  BY DEF CallSimplify, Calls
<1>2. Idling(s, TRUE)
  BY <1>1, ClientIdle
<1>3. SimplifiedTo(s, Simplify(s), TRUE)
  BY <1>2, SimplifyGood
<1>4. Idling(s', TRUE)
  BY <1>1, <1>3 DEF SimplifiedTo
<1> QED
  BY <1>1, <1>4, ReturnsKeeps

\* A call of implies() keeps the invariant.
LEMMA ImpliesKeeps ==
    ASSUME CoreInv, CallImplies
    PROVE  CoreInv'
<1> DEFINE lits == Call.lits
           e == EnqueueAssumed(NewDecisionLevel(s), lits)
           r == Propagate(e.s)
           t == CancelUntil(IF e.clash THEN e.s ELSE r.s, 0)
<1>1. pc = "client"
  BY DEF CallImplies, Calls
<1>2. s' = t /\ \E status, out : Returns("implies", status, out)
  BY DEF CallImplies
<1>3. PICK status, out : Returns("implies", status, out)
  BY <1>2
<1>4. Idling(s, TRUE)
  BY <1>1, ClientIdle
<1>5. lits \in Seq(Lit)
  BY DEF CallImplies, Calls, Legal
<1>6. lits \in Seq(LitsOf(s.nextVar))
  BY <1>5 DEF Lit, LitsOf
<1> HIDE DEF lits
<1>7. Idling(t, TRUE)
  BY <1>4, <1>6, ImpliesGood
<1> HIDE DEF t
<1>8. Idling(s', TRUE)
  BY <1>2, <1>7
<1> QED
  BY <1>1, <1>3, <1>8, ReturnsKeeps

\* A call of toDimacs() keeps the invariant.
LEMMA ToDimacsKeeps ==
    ASSUME CoreInv, CallToDimacs
    PROVE  CoreInv'
<1>1. pc = "client" /\ s' = s
  BY DEF CallToDimacs, Calls
<1>2. PICK out : Returns("toDimacs", LUndef, out)
  BY DEF CallToDimacs
<1>3. Idling(s', TRUE)
  BY <1>1, ClientIdle
<1> QED
  BY <1>1, <1>2, <1>3, ReturnsKeeps

\* A Solver has no eliminate(): no core client makes that call.
LEMMA EliminateKeeps ==
    ASSUME CoreInv, CallEliminate
    PROVE  CoreInv'
<1> DEFINE turnOff == Call.turnOff
           t == Simplify(s)
<1>1. pc = "client" /\ s' = t /\ frame' = [NoFrame EXCEPT !.turnOff = turnOff]
      /\ Busy(IF s'.ok /\ s.useSimp THEN "subsume" ELSE "eliminated")
  BY DEF CallEliminate, Calls
<1>2. Idling(s, TRUE)
  BY <1>1, ClientIdle
<1>3. s.useSimp = FALSE
  BY <1>2 DEF Idling, AtRoot, Good, GoodBut, Types
<1>4. Busy("eliminated")
  BY <1>1, <1>3
<1>5. SimplifiedTo(s, t, TRUE)
  BY <1>2, SimplifyGood
<1> HIDE DEF t, turnOff
<1>6. Fits(s', "eliminated")
  BY <1>1, <1>5, FitsIdle DEF SimplifiedTo
<1>7. frame'.simp = FALSE
  BY <1>1 DEF NoFrame
<1> QED
  BY <1>4, <1>6, <1>7, BusyKeeps

\* The object a solve() starts from.
LEMMA PreparedGood ==
    ASSUME Idling(s, TRUE), NEW c, c.lits \in Seq(LitsOf(s.nextVar))
    PROVE  Idling(Prepared(c), TRUE) /\ Prepared(c).assumptions \in Seq(LitsOf(Prepared(c).nextVar))
<1> DEFINE lits == c.lits
           o == [s EXCEPT !.assumptions = lits]
           u == BudgetOff(o)
           t == Prepared(c)
<1>1. t = o \/ t = u
  BY DEF Prepared
<1>2. IsObject(s)
  BY DEF Idling, AtRoot, Good, GoodBut
<1> HIDE DEF t, lits
<1>3. IsTouched(s, o)
  BY <1>2, FieldsTouch
<1>4. o.assumptions = lits
  <2>1. "assumptions" \in DOMAIN s
    BY <1>2 DEF IsObject, Fields
  <2> QED
    BY <2>1
<1>5. o.nextVar = s.nextVar
  OBVIOUS
<1> HIDE DEF o
<1>6. IsObject(o)
  BY <1>3 DEF IsTouched
<1>7. IsTouched(o, u)
  BY <1>6, SettersTouch
<1>8. u.assumptions = o.assumptions /\ u.nextVar = o.nextVar
  BY DEF BudgetOff
<1> HIDE DEF u
<1>9. IsTouched(s, u)
  BY <1>3, <1>7, TouchTwice
<1>10. IsTouched(s, t)
  BY <1>1, <1>3, <1>9
<1>11. Idling(t, TRUE)
  BY <1>10, TouchedIdle
<1>12. t.assumptions = lits /\ t.nextVar = s.nextVar
  BY <1>1, <1>4, <1>5, <1>8
<1>13. t.assumptions \in Seq(LitsOf(t.nextVar))
  BY <1>12 DEF lits
<1> QED
  BY <1>11, <1>13 DEF t

\* The entry into a search keeps the invariant, from an object that is idle.
LEMMA EnterKeeps ==
    ASSUME CoreInv, NEW o, Idling(o, TRUE), o.assumptions \in Seq(LitsOf(o.nextVar)),
           NEW f, f.simp = FALSE, EnterSearch(o, f)
    PROVE  CoreInv'
<1> DEFINE t == StartSearch(o)
           limit == RestartLimit(o, 0)
<1>1. s' = t /\ frame' = [f EXCEPT !.restarts = 0, !.conflicts = 0, !.limit = limit]
      /\ Busy(IF o.ok THEN "search" ELSE "unsat")
  BY DEF EnterSearch
<1>2. Stopped(t) /\ (o.ok => Searching(t))
  BY StartGood
<1> HIDE DEF t, limit
<1>3. frame'.simp = FALSE
  BY <1>1
<1>4. CASE o.ok
  <2>1. Busy("search")
    BY <1>1, <1>4
  <2>2. Fits(s', "search")
    BY <1>1, <1>2, <1>4, FitsSearching
  <2> QED
    BY <1>3, <2>1, <2>2, BusyKeeps
<1>5. CASE ~o.ok
  <2>1. Busy("unsat")
    BY <1>1, <1>5
  <2>2. Fits(s', "unsat")
    BY <1>1, <1>2, FitsStopped
  <2> QED
    BY <1>3, <2>1, <2>2, BusyKeeps
<1> QED
  BY <1>4, <1>5

\* A call of solve() keeps the invariant.
LEMMA SolveKeeps ==
    ASSUME CoreInv, CallSolve
    PROVE  CoreInv'
<1> DEFINE c == Call
           f == [NoFrame EXCEPT !.simp = FALSE, !.turnOff = c.turnOff, !.search = TRUE,
                                !.extraFrozen = <<>>]
<1>1. pc = "client"
  BY DEF CallSolve, Calls
<1>2. Idling(s, TRUE)
  BY <1>1, ClientIdle
<1>3. s.useSimp = FALSE
  BY <1>2 DEF Idling, AtRoot, Good, GoodBut, Types
<1>4. EnterSearch(Prepared(c), f)
  BY <1>3 DEF CallSolve
<1>5. c.lits \in Seq({p \in Lit : Kept(p)})
  BY DEF CallSolve, Calls, Legal
<1>6. f.simp = FALSE
  BY DEF NoFrame
<1> HIDE DEF c, f
<1>7. c.lits \in Seq(LitsOf(s.nextVar))
  BY <1>5, LegalLits
<1> DEFINE o == Prepared(c)
<1>8. Idling(o, TRUE) /\ o.assumptions \in Seq(LitsOf(o.nextVar))
  BY <1>2, <1>7, PreparedGood
<1>9. EnterSearch(o, f)
  BY <1>4
<1> HIDE DEF o
<1> QED
  BY <1>6, <1>8, <1>9, EnterKeeps

\* A Solver is never in the steps of the elimination.
LEMMA NoElimination ==
    ASSUME CoreInv, Subsume \/ Check \/ Subsumed \/ Eliminate \/ Branched \/ Collect \/ Cleanup
                    \/ ReturnRefuted
    PROVE  FALSE
<1>1. pc \in CorePcs
  BY DEF CoreInv, Fits
<1>2. pc \in {"subsume", "check", "subsumed", "eliminate", "branched", "collect", "cleanup", "refuted"}
  BY DEF Subsume, Check, Subsumed, Eliminate, Branched, Collect, Cleanup, ReturnRefuted
<1> QED
  BY <1>1, <1>2 DEF CorePcs

\* A step of the client's thread.
LEMMA StepKeeps ==
    ASSUME CoreInv, Step
    PROVE  CoreInv'
<1>1. CASE MakeCall
  BY <1>1, NewVarKeeps, AddClauseKeeps, ReleaseVarKeeps, SubstituteKeeps, SetterKeeps, SimplifyKeeps,
     ImpliesKeeps, ToDimacsKeeps, SolveKeeps, EliminateKeeps DEF MakeCall
<1>2. CASE Work
  BY <1>2, NoElimination, ReturnEliminatedKeeps, SearchKeeps, FoundModelKeeps, FoundUnsatKeeps,
     GaveUpKeeps DEF Work
<1> QED
  BY <1>1, <1>2 DEF Step

\* interrupt() from a handler.
LEMMA InterruptedKeeps ==
    ASSUME CoreInv, Interrupted
    PROVE  CoreInv'
<1> DEFINE t == Interrupt(s)
<1>1. s' = t /\ pc' = pc /\ frame' = frame /\ client' = client
  BY DEF Interrupted, asked
<1>2. Good(s, TRUE) /\ IsObject(s)
  BY DEF CoreInv, Fits, Searching, Stopped, Good, GoodBut
<1>3. t.assumptions = s.assumptions
  BY DEF Interrupt
<1>4. IsTouched(s, t)
  BY <1>2, SettersTouch
<1> HIDE DEF t
<1>5. AsIs(s, t, TRUE)
  BY <1>2, <1>4, TouchGood
<1>6. Good(t, TRUE) /\ t.trailLim = s.trailLim /\ t.trail = s.trail /\ t.qhead = s.qhead
      /\ t.ok = s.ok /\ t.nextVar = s.nextVar
  BY <1>5 DEF AsIs
<1>7. Searching(s) => Searching(t)
  BY <1>3, <1>6 DEF Searching, LevelQueued
<1>8. Stopped(s) => Stopped(t)
  BY <1>6 DEF Stopped, Propagated
<1>9. Fits(t, pc)
  BY <1>6, <1>7, <1>8 DEF CoreInv, Fits
<1> QED
  BY <1>1, <1>9 DEF CoreInv

-------------------------------------------------------------------------------
(* The first object.                                                           *)

\* A new object is idle, and everything in it is propagated.
LEMMA NewSolverIdle ==
    ASSUME NEW opt
    PROVE  Idling(NewSolver(opt), TRUE)
<1> DEFINE o == NewSolver(opt)
<1>1. IsObject(o)
  BY DEF NewSolver, IsObject, Fields
<1>2. /\ o.nextVar = 0 /\ o.assigns = <<>> /\ o.reason = <<>> /\ o.level = <<>> /\ o.trail = <<>>
      /\ o.trailLim = <<>> /\ o.qhead = 0 /\ o.freeVars = <<>> /\ o.releasedVars = <<>>
      /\ o.decision = {} /\ o.ok = TRUE /\ o.useSimp = FALSE
  BY DEF NewSolver
<1>3. o.ca = EmptyRegion(FALSE) /\ o.clauses = <<>> /\ o.learnts = <<>> /\ o.watches = EmptyOccLists
  BY DEF NewSolver
<1> HIDE DEF o
<1>4. VarsUpTo(0) = {} /\ LitsOf(0) = {}
  BY DEF VarsUpTo, LitsOf
<1>5. \A X : <<>> \in [{} -> X]
  OBVIOUS
<1>6. Types(o)
  <2>1. o.assigns \in [VarsUpTo(o.nextVar) -> Lbools]
    BY <1>2, <1>4, <1>5
  <2>2. o.reason \in [VarsUpTo(o.nextVar) -> Refs]
    BY <1>2, <1>4, <1>5
  <2>3. o.level \in [VarsUpTo(o.nextVar) -> Nat]
    BY <1>2, <1>4, <1>5
  <2>4. o.nextVar \in Nat /\ o.qhead \in Nat
    BY <1>2
  <2>8. o.ok \in BOOLEAN
    <3>1. o.ok = TRUE
      BY <1>2
    <3> QED
      BY <3>1, Zenon
  <2>9. o.useSimp = FALSE
    BY <1>2
  <2>5. o.trail \in Seq(LitsOf(o.nextVar)) /\ o.trailLim \in Seq(Nat)
    BY <1>2
  <2>6. o.freeVars \in Seq(VarsUpTo(o.nextVar)) /\ o.releasedVars \in Seq(VarsUpTo(o.nextVar))
    BY <1>2
  <2>7. o.decision \subseteq VarsUpTo(o.nextVar)
    BY <1>2
  <2> QED
    BY <2>1, <2>2, <2>3, <2>4, <2>5, <2>6, <2>7, <2>8, <2>9 DEF Types
<1>7. o.ca.size = 0 /\ IsRegion(o.ca) /\ DOMAIN o.ca.at = {}
  BY <1>3 DEF EmptyRegion, IsRegion
<1>8. Region(o.ca, o.nextVar)
  BY <1>7 DEF Region, Clauses
<1>9. IsOccLists(o.watches, o.nextVar)
  <2>1. o.watches = [occs |-> o.watches.occs, dirty |-> o.watches.dirty] /\ o.watches.dirty = {}
        /\ DOMAIN o.watches.occs = {}
    BY <1>3 DEF EmptyOccLists
  <2>2. o.watches.occs = <<>>
    BY <1>3 DEF EmptyOccLists
  <2>3. <<>> = [p \in {} |-> o.watches.occs[p]]
    OBVIOUS
  <2> QED
    BY <1>2, <1>4, <2>1, <2>2, <2>3 DEF IsOccLists
<1>10. TrailRight(o.trail, o.trailLim, o.assigns, o.level)
  BY <1>2 DEF TrailRight, OnceOn, Limits
<1>11. Reasons(o.trail, o.trailLim, o.reason, o.level, o.assigns, o.ca.at, TRUE)
  BY <1>2 DEF Reasons
<1>12. Free(o.freeVars, o.assigns, o.trail)
  BY <1>2 DEF Free, Distinct
<1>13. Released(o.releasedVars, o.freeVars, o.assigns, o.level)
  BY <1>2 DEF Released, Distinct
<1>14. o.clauses \in Seq(DOMAIN o.ca.at) /\ o.learnts \in Seq(DOMAIN o.ca.at)
  BY <1>3
<1>15. Watched(o)
  BY <1>2, <1>4 DEF Watched, Lists
<1>16. Good(o, TRUE)
  BY <1>1, <1>6, <1>8, <1>9, <1>10, <1>11, <1>12, <1>13, <1>14, <1>15 DEF Good, GoodBut
<1>17. Propagated(o)
  BY <1>2 DEF Propagated
<1> QED
  BY <1>2, <1>16, <1>17 DEF Idling, AtRoot, o
-------------------------------------------------------------------------------
(* An object that is in order has its trail in order.                          *)

\* The negation of a literal that is false at the root is a fact at the root.
LEMMA RootFact ==
    ASSUME s.nextVar \in Nat, s.assigns \in [VarsUpTo(s.nextVar) -> Lbools],
           NEW q \in LitsOf(s.nextVar), Val(s.assigns, q) = LFalse, s.level[VarOf(q)] = 0
    PROVE  Neg(q) \in RootFacts
<1> DEFINE v == VarOf(q)
           a == s.assigns[v]
<1>1. v \in 0 .. s.nextVar - 1 /\ q \in Nat
  BY LitFacts DEF VarsUpTo
<1>2. a # LUndef
  <2>1. Val(s.assigns, q) # LUndef
    BY DEF LFalse, LUndef
  <2> QED
    BY <2>1, ValFacts
<1>3. RootTrue(v)
  BY <1>2 DEF RootTrue
<1>4. MkLit(v, a = LFalse) = Neg(q)
  <2>1. a \in Lbools
    BY <1>1 DEF VarsUpTo
  <2>2. LXor(a, Sign(q)) = LFalse
    BY DEF Val
  <2> HIDE DEF a
  <2>3. (a = LFalse) <=> ~Sign(q)
    BY <1>2, <2>1, <2>2 DEF LXor, Lbools, LTrue, LFalse, LUndef
  <2>4. v = q \div 2
    BY DEF VarOf
  <2> HIDE DEF v
  <2>5. CASE Sign(q)
    <3>1. q % 2 = 1
      BY <2>5 DEF Sign
    <3>2. Neg(q) = q - 1
      BY <3>1 DEF Neg
    <3>3. MkLit(v, a = LFalse) = 2 * v
      BY <1>1, <2>3, <2>4, <2>5 DEF MkLit
    <3> QED
      BY <1>1, <2>4, <3>1, <3>2, <3>3
  <2>6. CASE ~Sign(q)
    <3>1. q % 2 = 0
      BY <1>1, <2>6 DEF Sign
    <3>2. Neg(q) = q + 1
      BY <3>1 DEF Neg
    <3>3. MkLit(v, a = LFalse) = 2 * v + 1
      BY <1>1, <2>3, <2>4, <2>6 DEF MkLit
    <3> QED
      BY <1>1, <2>4, <3>1, <3>2, <3>3
  <2> QED
    BY <2>5, <2>6
<1> QED
  BY <1>1, <1>3, <1>4 DEF RootFacts

\* The number of a level is the number of the levels that start before.
LEMMA LevelCounts ==
    ASSUME NEW lim \in Seq(Nat), NEW i, NEW L, AtLevel(L, lim, i)
    PROVE  L = Cardinality({l \in DOMAIN lim : lim[l] < i})
<1>1. L \in 0 .. Len(lim) /\ (\A l \in DOMAIN lim : lim[l] < i <=> l <= L)
  BY DEF AtLevel
<1>2. Len(lim) \in Nat /\ DOMAIN lim = 1 .. Len(lim)
  OBVIOUS
<1>3. L \in Nat /\ L <= Len(lim)
  BY <1>1, <1>2
<1>4. {l \in DOMAIN lim : lim[l] < i} = {l \in DOMAIN lim : l <= L}
  BY <1>1
<1>5. {l \in DOMAIN lim : l <= L} = 1 .. L
  BY <1>2, <1>3
<1>6. Cardinality(1 .. L) = IF 1 > L THEN 0 ELSE L - 1 + 1
  BY <1>3, FS_Interval
<1>7. Cardinality(1 .. L) = L
  BY <1>3, <1>6
<1> QED
  BY <1>4, <1>5, <1>7

\* A good object has its trail in order.
LEMMA InOrderOnTrail ==
    ASSUME Good(s, TRUE)
    PROVE  TrailInOrder
<1>1. /\ s.nextVar \in Nat /\ s.assigns \in [VarsUpTo(s.nextVar) -> Lbools]
      /\ s.trail \in Seq(LitsOf(s.nextVar)) /\ s.trailLim \in Seq(Nat)
      /\ TrailRight(s.trail, s.trailLim, s.assigns, s.level) /\ Clauses(s.ca.at, s.nextVar)
  BY KernelTypes DEF Good
<1>2. Reasons(s.trail, s.trailLim, s.reason, s.level, s.assigns, s.ca.at, TRUE)
  BY DEF Good, GoodBut
<1> SUFFICES ASSUME NEW i \in DOMAIN s.trail
             PROVE  LET p == s.trail[i]
                        cr == ReasonOf(s, p)
                        before == {Neg(s.trail[j]) : j \in 1 .. i - 1} \union {Neg(q) : q \in RootFacts}
                    IN  /\ Value(s, p) = LTrue
                        /\ LevelOf(s, p) = Cardinality({l \in DOMAIN s.trailLim : s.trailLim[l] < i})
                        /\ LevelOf(s, p) > 0 =>
                             IF i - 1 \in ToSet(s.trailLim) THEN cr = CRefUndef
                             ELSE /\ cr # CRefUndef /\ ~IsRemoved(s, cr)
                                  /\ Lits(s, cr)[1] = p
                                  /\ ToSet(Tail(Lits(s, cr))) \subseteq before
  BY DEF TrailInOrder
<1> DEFINE p == s.trail[i]
           cr == ReasonOf(s, p)
           before == {Neg(s.trail[j]) : j \in 1 .. i - 1} \union {Neg(q) : q \in RootFacts}
<1>3. Value(s, p) = LTrue
  BY <1>1 DEF TrailRight, Value, Val
<1>4. LevelOf(s, p) = Cardinality({l \in DOMAIN s.trailLim : s.trailLim[l] < i})
  <2>1. AtLevel(LevelOf(s, p), s.trailLim, i)
    BY <1>1 DEF TrailRight, LevelOf
  <2> QED
    BY <1>1, <2>1, LevelCounts
<1>5. ASSUME LevelOf(s, p) > 0
      PROVE  IF i - 1 \in ToSet(s.trailLim) THEN cr = CRefUndef
             ELSE /\ cr # CRefUndef /\ ~IsRemoved(s, cr)
                  /\ Lits(s, cr)[1] = p
                  /\ ToSet(Tail(Lits(s, cr))) \subseteq before
  <2>1. /\ cr # CRefUndef => IsReason(cr, p, s.ca.at)
        /\ InOrder(i, s.trailLim, s.trail, s.level, s.assigns, cr, s.ca.at)
    BY <1>2 DEF Reasons, ReasonOf
  <2>2. /\ cr = CRefUndef <=> i - 1 \in Range(s.trailLim)
        /\ cr # CRefUndef => AllFalse(s.ca.at[cr].lits, i, s.trail, s.level, s.assigns)
    BY <1>5, <2>1 DEF InOrder, LevelOf
  <2>3. ToSet(s.trailLim) = Range(s.trailLim)
    BY DEF ToSet, Range
  <2>4. CASE i - 1 \in ToSet(s.trailLim)
    BY <2>2, <2>3, <2>4
  <2>5. CASE i - 1 \notin ToSet(s.trailLim)
    <3> DEFINE lits == s.ca.at[cr].lits
    <3>1. cr # CRefUndef
      BY <2>2, <2>3, <2>5
    <3>2. /\ cr \in DOMAIN s.ca.at /\ s.ca.at[cr].mark # 1 /\ lits[1] = p
          /\ AllFalse(lits, i, s.trail, s.level, s.assigns)
      BY <2>1, <2>2, <3>1 DEF IsReason
    <3>3. LongLits(lits, s.nextVar)
      BY <1>1, <3>2 DEF Clauses, IsClause
    <3>4. ~IsRemoved(s, cr) /\ Lits(s, cr) = lits
      BY <3>2 DEF IsRemoved, Lits
    <3> HIDE DEF cr
    <3> HIDE DEF lits
    <3>5. lits \in Seq(LitsOf(s.nextVar)) /\ Len(lits) >= 2
      BY <3>3 DEF LongLits
    <3>6. Follows1(Tail(lits), lits) /\ Len(lits) \in Nat /\ DOMAIN lits = 1 .. Len(lits)
      <4>1. Len(lits) \in Nat /\ DOMAIN lits = 1 .. Len(lits)
        BY <3>5
      <4>2. Len(lits) >= 1
        BY <3>5, <4>1
      <4>3. Follows1(Tail(lits), lits)
        BY <3>5, <4>2, TailFacts
      <4> QED
        BY <4>1, <4>3
    <3>7. ASSUME NEW k \in DOMAIN Tail(lits)
          PROVE  Tail(lits)[k] \in before
      <4> DEFINE q == lits[k + 1]
      <4>1. Tail(lits)[k] = q /\ k + 1 \in DOMAIN lits /\ k \in 1 .. Len(lits) - 1
        BY <3>6 DEF Follows1
      <4>2. k + 1 \in 2 .. Len(lits)
        BY <3>6, <4>1
      <4>3. q \in LitsOf(s.nextVar)
        BY <3>5, <4>1
      <4>4. FalseBefore(q, i, s.trail, s.level, s.assigns)
        BY <3>2, <4>2 DEF AllFalse
      <4> HIDE DEF q
      <4>5. Neg(Neg(q)) = q
        BY <1>1, <4>3, LitFacts
      <4>6. CASE s.level[VarOf(q)] = 0
        <5>1. Val(s.assigns, q) = LFalse
          BY <4>4 DEF FalseBefore
        <5>2. Neg(q) \in RootFacts
          BY <1>1, <4>3, <4>6, <5>1, RootFact
        <5> QED
          BY <4>1, <4>5, <5>2
      <4>7. CASE s.level[VarOf(q)] # 0
        <5>1. PICK j \in 1 .. i - 1 : s.trail[j] = Neg(q)
          BY <4>4, <4>7 DEF FalseBefore
        <5>2. q = Neg(s.trail[j])
          BY <4>5, <5>1
        <5> QED
          BY <4>1, <5>2
      <4> QED
        BY <4>6, <4>7
    <3> HIDE DEF before
    <3>8. ToSet(Tail(lits)) \subseteq before
      BY <3>7 DEF ToSet
    <3> QED
      BY <2>5, <3>1, <3>2, <3>4, <3>8
  <2> QED
    BY <2>4, <2>5
<1> HIDE DEF before, cr
<1> QED
  BY <1>3, <1>4, <1>5 DEF p, cr, before
-------------------------------------------------------------------------------
(* The theorem.                                                                *)

\* The invariant holds when the program starts.
LEMMA CoreInvInit ==
    ASSUME \A i \in DOMAIN Clients : Clients[i].simp = FALSE, MainInit
    PROVE  CoreInv
<1>1. client \in Range(Clients) /\ client.simp = FALSE
  BY DEF MainInit, Init, Range
<1> DEFINE opt == client.opt
<1>2. s = NewSolver(opt) /\ pc = "client" /\ frame = NoFrame
  BY <1>1 DEF MainInit, Init
<1> HIDE DEF opt
<1>3. Idling(s, TRUE)
  BY <1>2, NewSolverIdle
<1>4. Fits(s, "client")
  BY <1>3, FitsIdle
<1> QED
  BY <1>1, <1>2, <1>4 DEF CoreInv, NoFrame

\* Every step of the program keeps the invariant.
LEMMA CoreInvNext ==
    ASSUME CoreInv, [Next]_mainVars
    PROVE  CoreInv'
<1>1. CASE Proceed
  BY <1>1, StepKeeps DEF Proceed
<1>2. CASE UNCHANGED <<client, s, pc, frame>>
  BY <1>2 DEF CoreInv
<1>3. CASE Interrupted
  BY <1>3, InterruptedKeeps
<1>4. CASE Exit
  <2>1. UNCHANGED <<client, s, pc, frame>>
    BY <1>4 DEF Exit, ExitWith
  <2> QED
    BY <1>2, <2>1
<1>5. CASE Signal
  <2>1. Interrupted \/ UNCHANGED <<client, s, pc, frame>>
    BY <1>5 DEF Signal, ExitWith
  <2> QED
    BY <1>2, <1>3, <2>1
<1>6. CASE Interruption
  BY <1>3, <1>6 DEF Interruption
<1>7. CASE OutOfMemory
  <2>1. UNCHANGED <<client, s, pc, frame>>
    BY <1>7 DEF OutOfMemory, ExitWith
  <2> QED
    BY <1>2, <2>1
<1>8. CASE Idle \/ UNCHANGED mainVars
  <2>1. UNCHANGED <<client, s, pc, frame>>
    BY <1>8 DEF Idle, mainVars, vars
  <2> QED
    BY <1>2, <2>1
<1> QED
  BY <1>1, <1>4, <1>5, <1>6, <1>7, <1>8 DEF Next

\* The trail of a Solver is in order in every state of every client.
THEOREM TrailStaysInOrder ==
    ASSUME \A i \in DOMAIN Clients : Clients[i].simp = FALSE
    PROVE  Spec => []TrailInOrder
<1>1. MainInit => CoreInv
  BY CoreInvInit
<1>2. CoreInv /\ [Next]_mainVars => CoreInv'
  BY CoreInvNext
<1>3. CoreInv => TrailInOrder
  <2>1. CoreInv => Good(s, TRUE)
    BY DEF CoreInv, Fits, Searching, Stopped
  <2> QED
    BY <2>1, InOrderOnTrail
<1> QED
  BY <1>1, <1>2, <1>3, PTL DEF Spec

-------------------------------------------------------------------------------
(* What follows from the clauses a client has stated: an assignment m that     *)
(* satisfies them satisfies what the solver keeps.                             *)

\* The clauses that were not removed are listed.
Lives(o) == {cr \in DOMAIN o.ca.at : o.ca.at[cr].mark # 1}
AllListed(o) == Lives(o) \subseteq Range(o.clauses) \union Range(o.learnts)

\* m agrees with the facts at the root.
RootHolds(o, m) ==
    \A p \in LitsOf(o.nextVar) : Val(o.assigns, p) = LTrue /\ o.level[VarOf(p)] = 0 => Truth(m, p)

\* m satisfies the clause, by a literal whose variable cannot be reused.
Holds(m, lits, free) == \E i \in DOMAIN lits : Truth(m, lits[i]) /\ VarOf(lits[i]) \notin free
LiveHolds(o, m) == \A cr \in Lives(o) : Holds(m, o.ca.at[cr].lits, Range(o.freeVars))

\* What the object keeps follows from clauses that m satisfies.
Fine(o, m) == AllListed(o) /\ RootHolds(o, m) /\ LiveHolds(o, m)

\* The fields Fine is about.
FineFields == {"ca", "clauses", "learnts", "assigns", "level", "nextVar", "freeVars"}

\* An object with the same clauses and facts is as fine.
LEMMA FineSame ==
    ASSUME NEW o, NEW m, Fine(o, m), NEW t, NEW fs, Same(o, t, fs), fs \intersect FineFields = {}
    PROVE  Fine(t, m)
<1>1. /\ t.ca = o.ca /\ t.clauses = o.clauses /\ t.learnts = o.learnts /\ t.assigns = o.assigns
      /\ t.level = o.level /\ t.nextVar = o.nextVar /\ t.freeVars = o.freeVars
  BY DEF Same, FineFields, Fields
<1> QED
  BY <1>1 DEF Fine, AllListed, Lives, RootHolds, LiveHolds

\* An assignment makes a literal true or its negation.
LEMMA TruthFacts ==
    ASSUME NEW n \in Nat, NEW p \in LitsOf(n), NEW m
    PROVE  /\ Truth(m, Neg(p)) <=> ~Truth(m, p)
           /\ Truth(m, p) <=> (VarOf(p) \in m <=> ~Sign(p))
<1>1. VarOf(Neg(p)) = VarOf(p) /\ (Sign(Neg(p)) <=> ~Sign(p))
  BY LitFacts
<1>2. Sign(p) \in BOOLEAN /\ Sign(Neg(p)) \in BOOLEAN
  BY DEF Sign
<1>3. \A q : Sign(q) \in BOOLEAN => (Truth(m, q) <=> (VarOf(q) \in m <=> ~Sign(q)))
  BY DEF Truth
<1> QED
  BY <1>1, <1>2, <1>3

\* A literal that is false at the root is false in m.
LEMMA RootFalse ==
    ASSUME NEW o, NEW strict, GoodBut(o, strict), NEW m, RootHolds(o, m),
           NEW q \in LitsOf(o.nextVar), Val(o.assigns, q) = LFalse, o.level[VarOf(q)] = 0
    PROVE  ~Truth(m, q)
<1>1. o.nextVar \in Nat /\ o.assigns \in [VarsUpTo(o.nextVar) -> Lbools]
  BY KernelTypes
<1>2. Neg(q) \in LitsOf(o.nextVar) /\ VarOf(Neg(q)) = VarOf(q)
  BY <1>1, LitFacts
<1>3. Val(o.assigns, Neg(q)) = LTrue
  BY <1>1, ValFacts
<1>4. Truth(m, Neg(q))
  BY <1>2, <1>3 DEF RootHolds
<1> QED
  BY <1>1, <1>4, TruthFacts

\* A clause of false literals has one above the root that m makes true.
LEMMA FalseButTrue ==
    ASSUME NEW o, NEW strict, GoodBut(o, strict), NEW m, Fine(o, m), NEW cr \in Lives(o)
    PROVE  \E k \in DOMAIN o.ca.at[cr].lits :
             /\ Truth(m, o.ca.at[cr].lits[k]) /\ o.ca.at[cr].lits[k] \in LitsOf(o.nextVar)
             /\ Val(o.assigns, o.ca.at[cr].lits[k]) = LFalse => o.level[VarOf(o.ca.at[cr].lits[k])] > 0
<1> DEFINE lits == o.ca.at[cr].lits
<1>1. PICK k \in DOMAIN lits : Truth(m, lits[k])
  BY DEF Fine, LiveHolds, Holds
<1>2. lits \in Seq(LitsOf(o.nextVar))
  BY KernelTypes DEF Lives, Clauses, IsClause, LongLits
<1>3. lits[k] \in LitsOf(o.nextVar)
  BY <1>1, <1>2
<1>4. ASSUME Val(o.assigns, lits[k]) = LFalse
      PROVE  o.level[VarOf(lits[k])] > 0
  <2>1. o.level[VarOf(lits[k])] # 0
    BY <1>1, <1>3, <1>4, RootFalse DEF Fine
  <2>2. o.level[VarOf(lits[k])] \in Nat
    BY <1>3, KernelTypes, LitFacts
  <2> QED
    BY <2>1, <2>2
<1> QED
  BY <1>1, <1>3, <1>4

\* Exchanging two literals of a clause leaves the literals it has.
LEMMA SwapRange ==
    ASSUME NEW n, NEW q, LongLits(q, n), NEW i \in DOMAIN q, NEW j \in DOMAIN q
    PROVE  Range(Swap(q, i, j)) = Range(q)
<1> DEFINE t == Swap(q, i, j)
<1>1. /\ LongLits(t, n) /\ Len(t) = Len(q) /\ t[i] = q[j] /\ t[j] = q[i]
      /\ \A k \in DOMAIN q : k # i /\ k # j => t[k] = q[k]
  BY SwapFacts
<1> HIDE DEF t
<1>2. DOMAIN t = DOMAIN q
  BY <1>1 DEF LongLits
<1>3. \A k \in DOMAIN q : (\E l \in DOMAIN q : t[l] = q[k]) /\ (\E l \in DOMAIN q : q[l] = t[k])
  BY <1>1
<1>4. Range(t) = Range(q)
  BY <1>2, <1>3 DEF Range
<1> QED
  BY <1>4 DEF t

\* t is o with the literals of a clause in another order.
Reordered(o, t, cr, lits) ==
    /\ cr \in Lives(o) /\ lits \in Seq(LitsOf(o.nextVar)) /\ Len(lits) >= 2
    /\ Range(lits) = Range(o.ca.at[cr].lits)
    /\ t.ca.at = [o.ca.at EXCEPT ![cr] = [o.ca.at[cr] EXCEPT !.lits = lits]]

\* The first literal of clause cr is enqueued: the others are false.
Implies(o, t, cr, lits) ==
    /\ Val(o.assigns, lits[1]) = LUndef
    /\ \A k \in 2 .. Len(lits) : Val(o.assigns, lits[k]) = LFalse
    /\ t.assigns = Assigned(o.assigns, lits[1])
    /\ t.level = LevelSet(o.level, lits[1], Len(o.trailLim))
    /\ t.reason = [o.reason EXCEPT ![VarOf(lits[1])] = cr]

\* What the visit of a watcher does to the clauses and the facts.
VisitDoes(a, w, r) ==
    \/ r.s = a.s /\ r.confl = a.confl
    \/ \E lits : /\ Reordered(a.s, r.s, w.cref, lits) /\ r.confl \in {a.confl, w.cref}
                 /\ \/ r.s.assigns = a.s.assigns /\ r.s.level = a.s.level /\ r.s.reason = a.s.reason
                    \/ Implies(a.s, r.s, w.cref, lits)

-------------------------------------------------------------------------------
(* propagate() keeps what follows.                                             *)

\* A visit reorders a clause and enqueues its first literal, or does nothing.
LEMMA VisitIs ==
    ASSUME NEW a, NEW p, NEW q, NEW i, NEW w, NEW strict, VisitAt(a, p, q, i, w, strict)
    PROVE  VisitDoes(a, w, VisitWatcher(a, w, p))
<1> DEFINE x == a.s
           n == x.nextVar
           r == VisitWatcher(a, w, p)
           old == Lits(x, w.cref)
           lits == FalseSecond(old, p)
           open == {k \in 3 .. Len(lits) : Val(x.assigns, lits[k]) # LFalse}
           o == Put(x, w.cref, lits)
           e == UncheckedEnqueue(o, lits[1], w.cref)
           k == Min(open)
           oo == Put(x, w.cref, Swap(lits, 2, k))
<1>1. IsObject(x) /\ IsRegion(x.ca) /\ IsAcc(a) /\ Visiting(x, p, q, strict) /\ i \in DOMAIN q /\ q[i] = w
  BY DEF VisitAt, Visiting, GoodBut, Region
<1>2. WatchedAs(x, p, w.cref, old, lits)
  BY Zenon, <1>1, WatchedClause
<1>3. /\ w.cref \in Lives(x) /\ old = x.ca.at[w.cref].lits
      /\ LongLits(old, n) /\ LongLits(lits, n) /\ lits[2] = Neg(p)
  BY Zenon, <1>2 DEF WatchedAs, Lives
<1>4. Range(lits) = Range(old)
  <2>1. 1 \in DOMAIN old /\ 2 \in DOMAIN old
    BY <1>3 DEF LongLits
  <2>2. Range(Swap(old, 1, 2)) = Range(old)
    BY <1>3, <2>1, SwapRange
  <2> QED
    BY <2>2 DEF FalseSecond
<1>5. Val(x.assigns, lits[2]) = LFalse
  <2>1. p \in LitsOf(n) /\ Val(x.assigns, p) = LTrue
    BY <1>1 DEF Visiting, JustTrue
  <2>2. n \in Nat /\ x.assigns \in [VarsUpTo(n) -> Lbools]
    BY Zenon, <1>1, KernelTypes DEF Visiting
  <2> QED
    BY <1>3, <2>1, <2>2, ValFacts
<1>6. ASSUME NEW l, LongLits(l, n), Range(l) = Range(old)
      PROVE  /\ IsPut(x, w.cref, l, Put(x, w.cref, l)) /\ IsObject(Put(x, w.cref, l))
             /\ Put(x, w.cref, l).assigns = x.assigns /\ Put(x, w.cref, l).level = x.level
             /\ Put(x, w.cref, l).trailLim = x.trailLim /\ Put(x, w.cref, l).reason = x.reason
             /\ Reordered(x, Put(x, w.cref, l), w.cref, l)
  <2>1. IsPut(x, w.cref, l, Put(x, w.cref, l))
    BY <1>1, PutFields
  <2> QED
    BY <1>3, <1>6, <2>1 DEF IsPut, Same, Fields, OnlyCa, Reordered, LongLits
<1>7. \A l : Value(x, l) = Val(x.assigns, l)
  BY DEF Value, Val
<1>8. CASE a.confl # CRefUndef \/ Value(x, w.blocker) = LTrue
  <2>1. r = [a EXCEPT !.kept = Append(@, w)]
    BY <1>8 DEF VisitWatcher
  <2>2. r.s = a.s /\ r.confl = a.confl
    BY <1>1, <2>1 DEF IsAcc
  <2> QED
    BY <2>2 DEF VisitDoes
<1>9. CASE ~(a.confl # CRefUndef \/ Value(x, w.blocker) = LTrue)
  <2>1. r = VisitClause(a, w, lits)
    BY <1>9 DEF VisitWatcher
  <2>2. \A l : Put(x, w.cref, l) = [x EXCEPT !.ca.at[w.cref].lits = l]
    BY DEF Put
  <2>3. /\ o = Put(x, w.cref, lits) /\ open = {j \in 3 .. Len(lits) : Value(x, lits[j]) # LFalse}
        /\ e = UncheckedEnqueue(o, lits[1], w.cref) /\ oo = Put(x, w.cref, Swap(lits, 2, k))
        /\ k = Min(open) /\ x = a.s
    BY <1>7
  <2>9. /\ open \subseteq 3 .. Len(lits)
        /\ \A j \in 3 .. Len(lits) : j \in open <=> Val(x.assigns, lits[j]) # LFalse
    OBVIOUS
  <2>4. /\ IsObject(o) /\ o.assigns = x.assigns /\ o.level = x.level /\ o.trailLim = x.trailLim
        /\ o.reason = x.reason
        /\ Reordered(x, o, w.cref, lits) /\ IsPut(x, w.cref, lits, o)
    BY Zenon, <1>3, <1>4, <1>6
  <2> HIDE DEF x, n, old, lits, open, o, e, k, oo, r
  <2>5. CASE Value(x, lits[1]) = LTrue /\ lits[1] # w.blocker
    <3>1. r = [a EXCEPT !.s = o, !.kept = Append(@, Watcher(w.cref, lits[1]))]
      BY <2>1, <2>2, <2>3, <2>5 DEF VisitClause
    <3>2. r.s = o /\ r.confl = a.confl
      BY <1>1, <3>1 DEF IsAcc
    <3> QED
      BY <2>3, <2>4, <3>2 DEF VisitDoes, r
  <2>6. CASE ~(Value(x, lits[1]) = LTrue /\ lits[1] # w.blocker) /\ open # {}
    <3> DEFINE u == [oo EXCEPT !.watches = PushOcc(@, Neg(lits[k]), Watcher(w.cref, lits[1]))]
    <3>1. r = [a EXCEPT !.s = u]
      BY <2>1, <2>2, <2>3, <2>6 DEF VisitClause
    <3>2. k \in open
      BY <2>3, <2>6, <2>9, MinimumOf
    <3>3. k \in DOMAIN lits /\ 2 \in DOMAIN lits
      BY <1>3, <2>9, <3>2 DEF LongLits
    <3>4. LongLits(Swap(lits, 2, k), n) /\ Range(Swap(lits, 2, k)) = Range(old)
      BY <1>3, <1>4, <3>3, SwapFacts, SwapRange
    <3>5. /\ IsObject(oo) /\ oo.assigns = x.assigns /\ oo.level = x.level /\ oo.reason = x.reason
          /\ Reordered(x, oo, w.cref, Swap(lits, 2, k))
      BY <1>6, <2>3, <3>4
    <3>6. u.assigns = oo.assigns /\ u.level = oo.level /\ u.ca = oo.ca /\ u.reason = oo.reason
      BY <3>5 DEF IsObject, Fields
    <3> HIDE DEF u
    <3>7. r.s = u /\ r.confl = a.confl
      BY <1>1, <3>1 DEF IsAcc
    <3>8. Reordered(x, r.s, w.cref, Swap(lits, 2, k)) /\ r.s.assigns = x.assigns /\ r.s.level = x.level
          /\ r.s.reason = x.reason
      BY <3>5, <3>6, <3>7 DEF Reordered
    <3> QED
      BY <2>3, <3>7, <3>8 DEF VisitDoes, r
  <2>7. CASE ~(Value(x, lits[1]) = LTrue /\ lits[1] # w.blocker) /\ open = {}
               /\ Value(x, lits[1]) = LFalse
    <3> DEFINE u == [o EXCEPT !.qhead = Len(x.trail)]
    <3>1. r.s = u /\ r.confl = w.cref
      BY <2>1, <2>2, <2>3, <2>7 DEF VisitClause
    <3>2. u.assigns = o.assigns /\ u.level = o.level /\ u.ca = o.ca /\ u.reason = o.reason
      BY <2>4 DEF IsObject, Fields
    <3> HIDE DEF u
    <3>3. Reordered(x, r.s, w.cref, lits) /\ r.s.assigns = x.assigns /\ r.s.level = x.level
          /\ r.s.reason = x.reason
      BY <2>4, <3>1, <3>2 DEF Reordered
    <3> QED
      BY <2>3, <3>1, <3>3 DEF VisitDoes, r
  <2>8. CASE ~(Value(x, lits[1]) = LTrue /\ lits[1] # w.blocker) /\ open = {}
               /\ Value(x, lits[1]) # LFalse
    <3>1. r = [a EXCEPT !.s = e, !.kept = Append(@, Watcher(w.cref, lits[1]))]
      BY <2>1, <2>2, <2>3, <2>8 DEF VisitClause
    <3>2. r.s = e /\ r.confl = a.confl
      BY <1>1, <3>1 DEF IsAcc
    <3>3. IsEnqueued(o, lits[1], w.cref, e)
      BY <2>3, <2>4, Enqueued
    <3>4. /\ e.assigns = Assigned(x.assigns, lits[1])
          /\ e.level = LevelSet(x.level, lits[1], Len(x.trailLim)) /\ e.ca = o.ca
          /\ e.reason = [x.reason EXCEPT ![VarOf(lits[1])] = w.cref]
      BY <2>4, <3>3 DEF IsEnqueued, Same, Fields, EnqueueFields
    <3>5. Reordered(x, r.s, w.cref, lits)
      BY <2>4, <3>2, <3>4 DEF Reordered
    <3>6. CASE Value(x, lits[1]) = LUndef
      <4>1. Val(x.assigns, lits[1]) = LUndef
        BY <1>7, <3>6
      <4>2. ASSUME NEW j \in 2 .. Len(lits)
            PROVE  Val(x.assigns, lits[j]) = LFalse
        <5>1. Len(lits) \in Nat
          BY <1>3 DEF LongLits
        <5>2. j = 2 \/ j \in 3 .. Len(lits)
          BY <5>1
        <5> QED
          BY <1>5, <2>8, <2>9, <5>2
      <4>3. Implies(x, r.s, w.cref, lits)
        BY <3>2, <3>4, <4>1, <4>2 DEF Implies
      <4> QED
        BY <2>3, <3>2, <3>5, <4>3 DEF VisitDoes, r
    <3>7. CASE Value(x, lits[1]) # LUndef
      <4>1. lits[1] \in LitsOf(n)
        BY <1>3 DEF LongLits
      <4>2. n \in Nat /\ x.assigns \in [VarsUpTo(n) -> Lbools]
        BY <1>1, KernelTypes DEF Visiting, n
      <4>3. Val(x.assigns, lits[1]) = LTrue
        BY <1>7, <2>8, <3>7, <4>1, <4>2, ValFacts DEF Lbools
      <4>4. lits[1] = w.blocker
        BY <1>7, <2>8, <4>3
      <4> QED
        BY <1>7, <1>9, <2>3, <4>3, <4>4
    <3> QED
      BY <3>6, <3>7
  <2> QED
    BY <2>5, <2>6, <2>7, <2>8
<1> QED
  BY <1>8, <1>9

\* At the root, what is enqueued has to follow.
LEMMA RootEnqueued ==
    ASSUME NEW o, NEW strict, GoodBut(o, strict), NEW m, RootHolds(o, m), NEW p \in LitsOf(o.nextVar),
           Len(o.trailLim) = 0 => Truth(m, p),
           NEW t, t.assigns = Assigned(o.assigns, p), t.nextVar = o.nextVar,
           t.level = LevelSet(o.level, p, Len(o.trailLim))
    PROVE  RootHolds(t, m)
<1> DEFINE n == o.nextVar
<1>1. n \in Nat /\ o.assigns \in [VarsUpTo(n) -> Lbools] /\ o.level \in [VarsUpTo(n) -> Nat]
  BY KernelTypes
<1>2. /\ Val(t.assigns, p) = LTrue
      /\ \A q \in LitsOf(n) : VarOf(q) # VarOf(p) => Val(t.assigns, q) = Val(o.assigns, q)
  BY <1>1, ValAssigned
<1>3. SUFFICES ASSUME NEW q \in LitsOf(n), Val(t.assigns, q) = LTrue, t.level[VarOf(q)] = 0
               PROVE  Truth(m, q)
  BY DEF RootHolds
<1>4. VarOf(q) \in VarsUpTo(n) /\ VarOf(p) \in VarsUpTo(n)
  BY <1>1, LitFacts
<1>5. CASE VarOf(q) # VarOf(p)
  <2>1. o.level[VarOf(q)] = 0 /\ Val(o.assigns, q) = LTrue
    BY <1>1, <1>2, <1>3, <1>4, <1>5 DEF LevelSet
  <2> QED
    BY <1>3, <2>1 DEF RootHolds
<1>6. CASE VarOf(q) = VarOf(p)
  <2>1. t.level[VarOf(q)] = Len(o.trailLim)
    BY <1>1, <1>4, <1>6 DEF LevelSet
  <2>2. Truth(m, p)
    BY <1>3, <2>1
  <2>3. q # Neg(p)
    <3>1. \A f \in [VarsUpTo(n) -> Lbools] : Val(f, p) = LTrue => Val(f, Neg(p)) = LFalse
      BY <1>1, ValFacts
    <3>2. t.assigns \in [VarsUpTo(n) -> Lbools]
      BY <1>1, ValAssigned
    <3> QED
      BY <1>2, <1>3, <3>1, <3>2 DEF LTrue, LFalse
  <2>4. q = p
    BY <1>1, <1>3, <1>6, <2>3, SameVar
  <2> QED
    BY <2>2, <2>4
<1> QED
  BY <1>5, <1>6

\* A clause in another order is live and holds as before.
LEMMA ReorderedHolds ==
    ASSUME NEW o, NEW strict, GoodBut(o, strict), NEW m, Fine(o, m), NEW t, NEW cr, NEW lits,
           Reordered(o, t, cr, lits), Same(o, t, VisitFields)
    PROVE  Lives(t) = Lives(o) /\ AllListed(t) /\ LiveHolds(t, m)
<1>1. /\ cr \in Lives(o) /\ Range(lits) = Range(o.ca.at[cr].lits)
      /\ t.ca.at = [o.ca.at EXCEPT ![cr] = [o.ca.at[cr] EXCEPT !.lits = lits]]
  BY DEF Reordered
<1>2. t.clauses = o.clauses /\ t.learnts = o.learnts /\ t.freeVars = o.freeVars
  BY DEF Same, Fields, VisitFields
<1>3. \A k \in DOMAIN o.ca.at : t.ca.at[k].mark = o.ca.at[k].mark
      /\ (k # cr => t.ca.at[k] = o.ca.at[k]) /\ (k = cr => t.ca.at[k].lits = lits)
  <2>1. \A k \in DOMAIN o.ca.at : IsClause(o.ca.at[k], o.nextVar)
    BY KernelTypes DEF Clauses
  <2> QED
    BY <1>1, <2>1 DEF IsClause, Lives
<1>4. DOMAIN t.ca.at = DOMAIN o.ca.at
  BY <1>1
<1>5. Lives(t) = Lives(o)
  BY <1>3, <1>4 DEF Lives
<1>6. AllListed(t)
  BY <1>2, <1>5 DEF Fine, AllListed
<1>7. ASSUME NEW k \in Lives(t)
      PROVE  Holds(m, t.ca.at[k].lits, Range(t.freeVars))
  <2>1. Holds(m, o.ca.at[k].lits, Range(o.freeVars))
    BY <1>5 DEF Fine, LiveHolds
  <2>2. PICK i \in DOMAIN o.ca.at[k].lits :
          Truth(m, o.ca.at[k].lits[i]) /\ VarOf(o.ca.at[k].lits[i]) \notin Range(o.freeVars)
    BY <2>1 DEF Holds
  <2>3. CASE k # cr
    <3>1. t.ca.at[k] = o.ca.at[k]
      BY <1>3, <1>5, <2>3 DEF Lives
    <3> QED
      BY <1>2, <2>1, <3>1
  <2>4. CASE k = cr
    <3>1. t.ca.at[k].lits = lits
      BY <1>3, <1>5, <2>4 DEF Lives
    <3>5. o.ca.at[k].lits[i] \in Range(o.ca.at[k].lits)
      BY DEF Range
    <3>6. o.ca.at[k].lits[i] \in Range(lits)
      BY <1>1, <2>4, <3>5
    <3>2. PICK j \in DOMAIN lits : lits[j] = o.ca.at[k].lits[i]
      BY <3>6 DEF Range
    <3>3. Truth(m, lits[j]) /\ VarOf(lits[j]) \notin Range(t.freeVars)
      BY <1>2, <2>2, <3>2
    <3>4. Holds(m, lits, Range(t.freeVars))
      BY <3>3 DEF Holds
    <3> QED
      BY <3>1, <3>4
  <2> QED
    BY <2>3, <2>4
<1> QED
  BY <1>5, <1>6, <1>7 DEF LiveHolds

\* The facts that a visit enqueues at the root follow.
LEMMA ImpliedHolds ==
    ASSUME NEW o, NEW strict, GoodBut(o, strict), NEW m, Fine(o, m), NEW t, NEW cr, NEW lits,
           Reordered(o, t, cr, lits), Implies(o, t, cr, lits), t.nextVar = o.nextVar
    PROVE  RootHolds(t, m)
<1>1. /\ cr \in Lives(o) /\ Range(lits) = Range(o.ca.at[cr].lits) /\ lits \in Seq(LitsOf(o.nextVar))
      /\ Len(lits) >= 2
  BY DEF Reordered
<1>2. /\ \A k \in 2 .. Len(lits) : Val(o.assigns, lits[k]) = LFalse
      /\ t.assigns = Assigned(o.assigns, lits[1])
      /\ t.level = LevelSet(o.level, lits[1], Len(o.trailLim))
  BY DEF Implies
<1>3. DOMAIN lits = 1 .. Len(lits) /\ Len(lits) \in Nat
  BY <1>1
<1>4. 1 \in DOMAIN lits /\ lits[1] \in LitsOf(o.nextVar)
  BY <1>1, <1>3
<1>5. ASSUME Len(o.trailLim) = 0
      PROVE  Truth(m, lits[1])
  <2>1. o.trailLim = <<>>
    BY <1>5, KernelTypes
  <2>2. PICK i \in DOMAIN o.ca.at[cr].lits : Truth(m, o.ca.at[cr].lits[i])
    BY <1>1 DEF Fine, LiveHolds, Holds
  <2>3. PICK j \in DOMAIN lits : lits[j] = o.ca.at[cr].lits[i]
    BY <1>1 DEF Range
  <2>4. Truth(m, lits[j]) /\ lits[j] \in LitsOf(o.nextVar)
    BY <1>1, <2>2, <2>3
  <2>5. CASE j # 1
    <3>1. Val(o.assigns, lits[j]) = LFalse
      BY <1>2, <1>3, <2>5
    <3>2. o.nextVar \in Nat /\ o.assigns \in [VarsUpTo(o.nextVar) -> Lbools]
      BY KernelTypes
    <3>3. VarOf(lits[j]) \in VarsUpTo(o.nextVar) /\ o.assigns[VarOf(lits[j])] # LUndef
      BY <2>4, <3>1, <3>2, LitFacts, ValFacts DEF LFalse, LUndef
    <3>4. o.level[VarOf(lits[j])] = 0
      BY <2>1, <3>3, RootLevels
    <3> QED
      BY <2>4, <3>1, <3>4, RootFalse DEF Fine
  <2> QED
    BY <2>4, <2>5
<1> QED
  BY <1>2, <1>4, <1>5, RootEnqueued DEF Fine

\* The object is fine, and a clause in conflict is live.
FineWith(o, confl, m) == Fine(o, m) /\ (confl # CRefUndef => confl \in Lives(o))

\* Everything that is assigned holds in m.
AllHold(o, m) == \A p \in LitsOf(o.nextVar) : Val(o.assigns, p) = LTrue => Truth(m, p)

\* On the levels of the assumptions nothing but assumptions was decided.
AssumedFirst(o) ==
    \A p \in LitsOf(o.nextVar) :
      /\ Val(o.assigns, p) = LTrue /\ o.reason[VarOf(p)] = CRefUndef
      /\ o.level[VarOf(p)] \in 1 .. Len(o.assumptions)
      => p \in ToSet(o.assumptions)

\* What propagation is to keep: what follows from clauses that m satisfies, with or
\* without all that is assigned, or what was decided first.
Lasting(o, m, what) ==
    /\ what # "assumed" => Fine(o, m)
    /\ what = "all" => AllHold(o, m)
    /\ what = "assumed" => AssumedFirst(o)

LastingWith(o, confl, m, what) ==
    Lasting(o, m, what) /\ (what # "assumed" /\ confl # CRefUndef => confl \in Lives(o))

\* An object in which nothing of that was changed.
LEMMA LastingSame ==
    ASSUME NEW o, NEW m, NEW what, Lasting(o, m, what), NEW t, NEW fs, Same(o, t, fs),
           fs \intersect (FineFields \union {"reason", "assumptions"}) = {}
    PROVE  Lasting(t, m, what)
<1>1. t.nextVar = o.nextVar /\ t.assigns = o.assigns /\ t.reason = o.reason /\ t.level = o.level
      /\ t.assumptions = o.assumptions
  BY DEF Same, FineFields, Fields
<1>2. fs \intersect FineFields = {}
  OBVIOUS
<1>3. what # "assumed" => Fine(t, m)
  BY <1>2, FineSame DEF Lasting
<1> QED
  BY <1>1, <1>3 DEF Lasting, AllHold, AssumedFirst

\* What is enqueued holds too.
LEMMA ImpliedAll ==
    ASSUME NEW o, NEW strict, GoodBut(o, strict), NEW m, Fine(o, m), AllHold(o, m), NEW t, NEW cr,
           NEW lits, Reordered(o, t, cr, lits), Implies(o, t, cr, lits), t.nextVar = o.nextVar
    PROVE  AllHold(t, m)
<1>1. /\ cr \in Lives(o) /\ Range(lits) = Range(o.ca.at[cr].lits) /\ lits \in Seq(LitsOf(o.nextVar))
      /\ Len(lits) >= 2
  BY DEF Reordered
<1>2. /\ \A k \in 2 .. Len(lits) : Val(o.assigns, lits[k]) = LFalse
      /\ t.assigns = Assigned(o.assigns, lits[1])
  BY DEF Implies
<1>3. DOMAIN lits = 1 .. Len(lits) /\ Len(lits) \in Nat
  BY <1>1
<1>4. 1 \in DOMAIN lits /\ lits[1] \in LitsOf(o.nextVar)
  BY <1>1, <1>3
<1>5. o.nextVar \in Nat /\ o.assigns \in [VarsUpTo(o.nextVar) -> Lbools]
  BY KernelTypes
<1>6. Truth(m, lits[1])
  <2>1. PICK i \in DOMAIN o.ca.at[cr].lits : Truth(m, o.ca.at[cr].lits[i])
    BY <1>1 DEF Fine, LiveHolds, Holds
  <2>2. PICK j \in DOMAIN lits : lits[j] = o.ca.at[cr].lits[i]
    BY <1>1 DEF Range
  <2>3. Truth(m, lits[j]) /\ lits[j] \in LitsOf(o.nextVar)
    BY <1>1, <2>1, <2>2
  <2>4. CASE j # 1
    <3>1. Val(o.assigns, lits[j]) = LFalse
      BY <1>2, <1>3, <2>4
    <3>2. Val(o.assigns, Neg(lits[j])) = LTrue /\ Neg(lits[j]) \in LitsOf(o.nextVar)
      BY <1>5, <2>3, <3>1, ValFacts, LitFacts
    <3>3. Truth(m, Neg(lits[j]))
      BY <3>2 DEF AllHold
    <3> QED
      BY <1>5, <2>3, <3>3, TruthFacts
  <2> QED
    BY <2>3, <2>4
<1>7. ASSUME NEW q \in LitsOf(o.nextVar), Val(t.assigns, q) = LTrue
      PROVE  Truth(m, q)
  <2>1. CASE VarOf(q) # VarOf(lits[1])
    <3>1. Val(o.assigns, q) = LTrue
      BY <1>2, <1>4, <1>5, <1>7, <2>1, ValAssigned
    <3> QED
      BY <3>1 DEF AllHold
  <2>2. CASE VarOf(q) = VarOf(lits[1])
    <3>1. t.assigns \in [VarsUpTo(o.nextVar) -> Lbools] /\ Val(t.assigns, lits[1]) = LTrue
      BY <1>2, <1>4, <1>5, ValAssigned
    <3>2. Val(t.assigns, Neg(lits[1])) = LFalse
      BY <1>4, <1>5, <3>1, ValFacts
    <3>3. q # Neg(lits[1])
      BY <1>7, <3>2 DEF LTrue, LFalse
    <3>4. q = lits[1]
      BY <1>4, <1>5, <2>2, <3>3, SameVar
    <3> QED
      BY <1>6, <3>4
  <2> QED
    BY <2>1, <2>2
<1> QED
  BY <1>7 DEF AllHold

\* t is o with p enqueued, as far as decisions go.
Enqueues(o, t, p, cr) ==
    /\ p \in LitsOf(o.nextVar) /\ t.nextVar = o.nextVar /\ t.assumptions = o.assumptions
    /\ t.assigns = Assigned(o.assigns, p) /\ t.level = LevelSet(o.level, p, Len(o.trailLim))
    /\ t.reason = [o.reason EXCEPT ![VarOf(p)] = cr]

\* What is enqueued with a reason, is an assumption or is beyond their levels.
LEMMA FirstEnqueued ==
    ASSUME NEW o, NEW strict, GoodBut(o, strict), AssumedFirst(o), NEW t, NEW cr, NEW p,
           Enqueues(o, t, p, cr),
           cr # CRefUndef \/ p \in ToSet(o.assumptions) \/ Len(o.trailLim) \notin 1 .. Len(o.assumptions)
    PROVE  AssumedFirst(t)
<1>a. /\ p \in LitsOf(o.nextVar) /\ t.nextVar = o.nextVar /\ t.assumptions = o.assumptions
      /\ t.assigns = Assigned(o.assigns, p) /\ t.level = LevelSet(o.level, p, Len(o.trailLim))
      /\ t.reason = [o.reason EXCEPT ![VarOf(p)] = cr]
  BY DEF Enqueues
<1>1. /\ o.nextVar \in Nat /\ o.assigns \in [VarsUpTo(o.nextVar) -> Lbools]
      /\ o.level \in [VarsUpTo(o.nextVar) -> Nat] /\ o.reason \in [VarsUpTo(o.nextVar) -> Refs]
  BY DEF GoodBut, Types
<1> SUFFICES ASSUME NEW q \in LitsOf(o.nextVar), Val(t.assigns, q) = LTrue,
                    t.reason[VarOf(q)] = CRefUndef, t.level[VarOf(q)] \in 1 .. Len(t.assumptions)
             PROVE  q \in ToSet(t.assumptions)
  BY <1>a DEF AssumedFirst
<1>2. VarOf(q) \in VarsUpTo(o.nextVar) /\ VarOf(p) \in VarsUpTo(o.nextVar)
  BY <1>a, <1>1, LitFacts
<1>3. CASE VarOf(q) # VarOf(p)
  <2>1. o.reason[VarOf(q)] = CRefUndef /\ o.level[VarOf(q)] = t.level[VarOf(q)]
    BY <1>a, <1>1, <1>2, <1>3 DEF LevelSet
  <2>2. Val(o.assigns, q) = LTrue
    BY <1>a, <1>1, <1>3, ValAssigned
  <2> QED
    BY <1>a, <2>1, <2>2 DEF AssumedFirst
<1>4. CASE VarOf(q) = VarOf(p)
  <2>1. cr = CRefUndef /\ t.level[VarOf(q)] = Len(o.trailLim)
    BY <1>a, <1>1, <1>2, <1>4 DEF LevelSet
  <2>2. p \in ToSet(o.assumptions)
    BY <1>a, <2>1
  <2>3. t.assigns \in [VarsUpTo(o.nextVar) -> Lbools] /\ Val(t.assigns, p) = LTrue
    BY <1>a, <1>1, ValAssigned
  <2>4. Val(t.assigns, Neg(p)) = LFalse
    BY <1>a, <1>1, <2>3, ValFacts
  <2>5. q = p
    BY <1>a, <1>1, <1>4, <2>4, SameVar DEF LTrue, LFalse
  <2> QED
    BY <1>a, <2>2, <2>5
<1> QED
  BY <1>3, <1>4

\* A visit of a watcher keeps it.
LEMMA VisitLasts ==
    ASSUME NEW a, NEW p, NEW q, NEW i, NEW w, NEW strict, VisitAt(a, p, q, i, w, strict),
           NEW m, NEW what, LastingWith(a.s, a.confl, m, what), NEW r, r = VisitWatcher(a, w, p)
    PROVE  LastingWith(r.s, r.confl, m, what)
<1>1. VisitDoes(a, w, r)
  BY VisitIs
<1>2. Same(a.s, r.s, VisitFields)
  BY WatcherVisits DEF Visits
<1>3. GoodBut(a.s, strict) /\ Lasting(a.s, m, what)
      /\ (what # "assumed" /\ a.confl # CRefUndef => a.confl \in Lives(a.s))
  BY DEF VisitAt, Visiting, LastingWith
<1>4. r.s.nextVar = a.s.nextVar /\ r.s.assumptions = a.s.assumptions
  BY <1>2 DEF Same, Fields, VisitFields
<1>5. CASE r.s = a.s /\ r.confl = a.confl
  BY <1>5
<1>6. CASE ~(r.s = a.s /\ r.confl = a.confl)
  <2>1. PICK lits : /\ Reordered(a.s, r.s, w.cref, lits) /\ r.confl \in {a.confl, w.cref}
                    /\ \/ r.s.assigns = a.s.assigns /\ r.s.level = a.s.level /\ r.s.reason = a.s.reason
                       \/ Implies(a.s, r.s, w.cref, lits)
    BY <1>1, <1>6 DEF VisitDoes
  <2>2. w.cref \in Lives(a.s) /\ lits[1] \in LitsOf(a.s.nextVar)
    BY <2>1 DEF Reordered
  <2>3. ASSUME what # "assumed"
        PROVE  Fine(r.s, m) /\ (r.confl # CRefUndef => r.confl \in Lives(r.s))
    <3>1. Fine(a.s, m) /\ (a.confl # CRefUndef => a.confl \in Lives(a.s))
      BY <1>3, <2>3 DEF Lasting
    <3>2. Lives(r.s) = Lives(a.s) /\ AllListed(r.s) /\ LiveHolds(r.s, m)
      BY <1>2, <1>3, <2>1, <3>1, ReorderedHolds
    <3>3. RootHolds(r.s, m)
      <4>1. CASE r.s.assigns = a.s.assigns /\ r.s.level = a.s.level /\ r.s.reason = a.s.reason
        BY <1>4, <3>1, <4>1 DEF Fine, RootHolds
      <4>2. CASE Implies(a.s, r.s, w.cref, lits)
        BY <1>3, <1>4, <2>1, <3>1, <4>2, ImpliedHolds
      <4> QED
        BY <2>1, <4>1, <4>2
    <3> QED
      BY <2>1, <2>2, <3>1, <3>2, <3>3 DEF Fine
  <2>4. ASSUME what = "all"
        PROVE  AllHold(r.s, m)
    <3>1. Fine(a.s, m) /\ AllHold(a.s, m)
      BY <1>3, <2>4 DEF Lasting
    <3>2. CASE r.s.assigns = a.s.assigns /\ r.s.level = a.s.level /\ r.s.reason = a.s.reason
      BY <1>4, <3>1, <3>2 DEF AllHold
    <3>3. CASE Implies(a.s, r.s, w.cref, lits)
      BY <1>3, <1>4, <2>1, <3>1, <3>3, ImpliedAll
    <3> QED
      BY <2>1, <3>2, <3>3
  <2>5. ASSUME what = "assumed"
        PROVE  AssumedFirst(r.s)
    <3>1. AssumedFirst(a.s)
      BY <1>3, <2>5 DEF Lasting
    <3>2. CASE r.s.assigns = a.s.assigns /\ r.s.level = a.s.level /\ r.s.reason = a.s.reason
      BY <1>4, <3>1, <3>2 DEF AssumedFirst
    <3>3. CASE Implies(a.s, r.s, w.cref, lits)
      <4>1. w.cref # CRefUndef
        <5>1. w.cref \in Nat
          BY <1>3, <2>2 DEF Lives, GoodBut, Region
        <5> QED
          BY <5>1 DEF CRefUndef
      <4>2. Enqueues(a.s, r.s, lits[1], w.cref)
        BY <1>4, <2>2, <3>3 DEF Implies, Enqueues
      <4> QED
        BY <1>3, <3>1, <4>1, <4>2, FirstEnqueued
    <3> QED
      BY <2>1, <3>2, <3>3
  <2> QED
    BY <2>3, <2>4, <2>5 DEF LastingWith, Lasting
<1> QED
  BY <1>5, <1>6

\* The visit of all watchers of a literal keeps it.
LEMMA VisitAllLasts ==
    ASSUME NEW t, NEW p, NEW strict, NEW ws, ws = t.watches.occs[p], Visiting(t, p, ws, strict),
           NEW m, NEW what, Lasting(t, m, what)
    PROVE  LastingWith(VisitAll(t, p, CRefUndef).s, VisitAll(t, p, CRefUndef).confl, m, what)
<1> DEFINE n == Len(ws)
<1>1. ws \in Seq(WatcherSet) /\ n \in Nat
  <2>1. WatchList(p, ws, t.watches.dirty, t.ca.at)
    <3>1. p \in LitsOf(t.nextVar) /\ p \in DOMAIN t.watches.occs
      BY DEF Visiting, JustTrue, GoodBut, IsOccLists
    <3>2. WatchList(p, [t.watches.occs EXCEPT ![p] = ws][p], t.watches.dirty, t.ca.at)
      BY <3>1 DEF Visiting, Lists
    <3> QED
      BY <3>1, <3>2
  <2>2. ws \in Seq(WatchersIn(t.ca.at))
    BY <2>1 DEF WatchList
  <2>3. DOMAIN t.ca.at \subseteq Int
    BY DEF Visiting, GoodBut, Region
  <2>4. WatchersIn(t.ca.at) \subseteq WatcherSet
    BY <2>3 DEF WatchersIn, WatcherSet
  <2> QED
    BY <2>2, <2>4
<1>2. PICK g : VisitRun(g, t, p, CRefUndef, ws) /\ VisitAll(t, p, CRefUndef) = g[n]
  BY <1>1, VisitAllRuns
<1>3. /\ g[0] = [s |-> t, kept |-> <<>>, confl |-> CRefUndef]
      /\ \A i \in 1 .. n : g[i] = VisitWatcher(g[i - 1], ws[i], p)
  BY <1>2 DEF VisitRun
<1>4. t.qhead \in Nat
  BY KernelTypes DEF Visiting
<1> DEFINE S == {i \in Nat : i <= n => /\ VisitedTo(g[i], t, p, ws, i, strict)
                                       /\ LastingWith(g[i].s, g[i].confl, m, what)}
<1>5. 0 \in S
  <2> DEFINE a == g[0]
  <2>1. IsAcc(a) /\ a.s = t /\ a.kept = <<>> /\ a.confl = CRefUndef
    BY <1>3 DEF IsAcc
  <2> HIDE DEF a
  <2>2. Pending(<<>>, ws, 0) = ws
    <3>1. SubSeq(ws, 0 + 1, Len(ws)) = ws
      BY <1>1, SubSeqFull
    <3> QED
      BY <1>1, <3>1, ConcatEmptySeq DEF Pending
  <2>3. a.kept \in Seq(WatcherSet)
    BY <2>1
  <2>4. Same(t, a.s, VisitFields)
    BY <2>1 DEF Same
  <2>5. VisitedTo(a, t, p, ws, 0, strict)
    BY <1>4, <2>1, <2>2, <2>3, <2>4 DEF VisitedTo, Grown
  <2>6. LastingWith(a.s, a.confl, m, what)
    BY <2>1 DEF LastingWith
  <2> QED
    BY <2>5, <2>6 DEF a
<1>6. ASSUME NEW i \in Nat, i \in S
      PROVE  i + 1 \in S
  <2> SUFFICES ASSUME i + 1 <= n
               PROVE  /\ VisitedTo(g[i + 1], t, p, ws, i + 1, strict)
                      /\ LastingWith(g[i + 1].s, g[i + 1].confl, m, what)
    OBVIOUS
  <2> DEFINE k == i + 1
             a == g[k - 1]
             q == Pending(a.kept, ws, k - 1)
             j == Len(a.kept) + 1
  <2>1. k \in 1 .. Len(ws) /\ k - 1 = i /\ i <= n
    BY <1>1
  <2>2. VisitedTo(a, t, p, ws, k - 1, strict) /\ LastingWith(a.s, a.confl, m, what)
    BY <1>6, <2>1
  <2>3. g[k] = VisitWatcher(a, ws[k], p)
    BY <1>3, <2>1
  <2>4. q = Pending(a.kept, ws, k - 1) /\ j = Len(a.kept) + 1
    OBVIOUS
  <2> HIDE DEF k, a, q, j
  <2>5. VisitedTo(g[k], t, p, ws, k, strict)
    BY <1>1, <1>4, <2>1, <2>2, <2>3, VisitNext
  <2>6. IsAcc(a) /\ a.kept \in Seq(WatcherSet) /\ Visiting(a.s, p, q, strict)
    BY <2>2, <2>4 DEF VisitedTo
  <2>7. j \in DOMAIN q /\ q[j] = ws[k]
    <3>1. NextPending(q, j, a.kept, ws, k, WatcherSet)
      BY <1>1, <2>1, <2>4, <2>6, PendingStep
    <3> QED
      BY <3>1 DEF NextPending
  <2>8. ws[k] \in WatcherSet
    BY <1>1, <2>1
  <2>9. VisitAt(a, p, q, j, ws[k], strict)
    BY <2>6, <2>7, <2>8 DEF VisitAt
  <2>10. LastingWith(g[k].s, g[k].confl, m, what)
    BY <2>2, <2>3, <2>9, VisitLasts
  <2> QED
    BY <2>5, <2>10 DEF k
<1>7. n \in S
  <2> HIDE DEF S
  <2>1. Nat \subseteq S
    BY <1>5, <1>6, InductionOn
  <2> QED
    BY <1>1, <2>1
<1> QED
  BY <1>1, <1>2, <1>7

\* One round of propagate() keeps it.
LEMMA RoundLasts ==
    ASSUME NEW o, NEW strict, NEW r, NEW k \in Nat, PropAt(r, o, k, strict), Queued(r.s),
           NEW m, NEW what, LastingWith(r.s, r.confl, m, what), NEW u, u = PropagateNext(r)
    PROVE  LastingWith(u.s, u.confl, m, what)
<1> DEFINE x == r.s
           p == x.trail[x.qhead + 1]
           t == Dequeue(x, p)
           ws == t.watches.occs[p]
           a == VisitAll(t, p, CRefUndef)
           v == KeptFor(a.s, p, a.kept)
<1>1. Good(x, strict) /\ LevelQueued(x) /\ (r.confl # CRefUndef => Propagated(x))
  BY DEF PropAt
<1>2. x.qhead \in Nat /\ x.trail \in Seq(LitsOf(x.nextVar))
  BY <1>1, KernelTypes DEF Good
<1>3. r.confl = CRefUndef /\ ~(x.qhead >= Len(x.trail))
  <2>1. x.qhead < Len(x.trail)
    BY DEF Queued
  <2>2. Len(x.trail) \in Nat
    BY Zenon, <1>2, LenProperties
  <2> HIDE DEF x
  <2>3. ~(x.qhead >= Len(x.trail)) /\ x.qhead # Len(x.trail)
    BY <1>2, <2>1, <2>2
  <2> QED
    BY Zenon, <1>1, <2>3 DEF Propagated
<1>4. u = [s |-> v, confl |-> a.confl]
  BY Zenon, <1>3 DEF PropagateNext, KeepWatchers, KeptFor
<1>5. p = x.trail[x.qhead + 1] /\ t = Dequeue(x, p) /\ ws = t.watches.occs[p]
      /\ v = KeptFor(a.s, p, a.kept) /\ a = VisitAll(t, p, CRefUndef)
      /\ Queued(x) /\ Lasting(x, m, what)
  BY Zenon DEF LastingWith
<1> HIDE DEF x, p, t, ws, a, v
<1>6. Visiting(t, p, ws, strict) /\ Same(x, t, DequeueFields)
  BY Zenon, <1>1, <1>5, DequeueVisiting
<1>7. Lasting(t, m, what)
  <2>1. DequeueFields \intersect (FineFields \union {"reason", "assumptions"}) = {}
    BY DEF DequeueFields, FineFields
  <2> QED
    BY <1>5, <1>6, <2>1, LastingSame
<1>8. LastingWith(a.s, a.confl, m, what)
  BY <1>5, <1>6, <1>7, VisitAllLasts
<1>9. Same(a.s, v, OnlyWatches)
  <2>1. IsObject(a.s)
    BY Zenon, <1>5, <1>6, VisitAllGood DEF VisitedTo, Visiting, GoodBut
  <2>2. v = Rewatch(a.s, KeptIn(a.s.watches, p, a.kept))
    BY <1>5 DEF Rewatch, KeptIn, KeptFor
  <2> QED
    BY <2>1, <2>2, RewatchFields
<1>10. Lasting(v, m, what)
  <2>1. OnlyWatches \intersect (FineFields \union {"reason", "assumptions"}) = {}
    BY DEF OnlyWatches, FineFields
  <2> QED
    BY <1>8, <1>9, <2>1, LastingSame DEF LastingWith
<1>11. Lives(v) = Lives(a.s)
  BY <1>9 DEF Same, Fields, OnlyWatches, Lives
<1>12. LastingWith(v, a.confl, m, what)
  BY <1>8, <1>10, <1>11 DEF LastingWith
<1> QED
  BY <1>4, <1>12

\* propagate() keeps it, and its conflict is a live clause.
LEMMA PropagateLasts ==
    ASSUME NEW o, NEW strict, Good(o, strict), LevelQueued(o), NEW m, NEW what, Lasting(o, m, what)
    PROVE  LastingWith(Propagate(o).s, Propagate(o).confl, m, what)
<1> DEFINE r0 == [s |-> o, confl |-> CRefUndef]
           n == o.nextVar
<1>1. n \in Nat /\ r0.s = o /\ r0.confl = CRefUndef /\ Propagate(o) = PropagateQueue(r0)
      /\ n = r0.s.nextVar /\ o.qhead \in Nat /\ r0 = [s |-> r0.s, confl |-> r0.confl]
  BY KernelTypes DEF Good, Propagate
<1> HIDE DEF r0, n
<1>2. PICK g : PropRun(g, r0, n) /\ PropagateQueue(r0) = g[n]
  BY <1>1, PropagateRuns
<1>3. g[0] = r0 /\ \A i \in 1 .. n : g[i] = PropagateNext(g[i - 1])
  BY <1>2 DEF PropRun
<1> DEFINE S == {i \in Nat : i <= n => /\ PropAt(g[i], o, o.qhead + i, strict)
                                       /\ LastingWith(g[i].s, g[i].confl, m, what)}
<1>4. 0 \in S
  <2>1. Same(o, o, PropFields) /\ o.qhead + 0 <= o.qhead
    BY <1>1 DEF Same
  <2>2. PropAt(r0, o, o.qhead + 0, strict)
    BY <1>1, <2>1 DEF PropAt, Grown
  <2>3. LastingWith(r0.s, r0.confl, m, what)
    BY <1>1 DEF LastingWith
  <2> QED
    BY <1>3, <2>2, <2>3
<1>5. ASSUME NEW i \in Nat, i \in S
      PROVE  i + 1 \in S
  <2> SUFFICES ASSUME i + 1 <= n
               PROVE  /\ PropAt(g[i + 1], o, o.qhead + (i + 1), strict)
                      /\ LastingWith(g[i + 1].s, g[i + 1].confl, m, what)
    OBVIOUS
  <2> DEFINE r == g[i]
             k == o.qhead + i
  <2>1. PropAt(r, o, k, strict) /\ k \in Nat /\ k + 1 = o.qhead + (i + 1) /\ LastingWith(r.s, r.confl, m, what)
    BY <1>1, <1>5
  <2>2. g[i + 1] = PropagateNext(r)
    <3>1. i + 1 \in 1 .. n /\ (i + 1) - 1 = i
      BY <1>1
    <3> QED
      BY <1>3, <3>1
  <2> HIDE DEF r, k
  <2>3. CASE Queued(r.s)
    BY <2>1, <2>2, <2>3, PropagateRound, RoundLasts
  <2>4. CASE ~Queued(r.s)
    <3>1. Good(r.s, strict) /\ LevelQueued(r.s)
      BY <2>1 DEF PropAt
    <3>2. r.s.qhead \in Nat /\ Len(r.s.trail) \in Nat
      <4>1. r.s.qhead \in Nat /\ r.s.trail \in Seq(LitsOf(r.s.nextVar))
        BY <3>1, KernelTypes DEF Good
      <4> QED
        BY <4>1
    <3>3. Propagated(r.s) /\ r.s.qhead >= Len(r.s.trail)
      BY <2>4, <3>1, <3>2 DEF Queued, LevelQueued, Propagated
    <3>4. PropagateNext(r) = r
      BY <3>3 DEF PropagateNext
    <3>5. PropAt(r, o, k + 1, strict)
      BY <2>1, <3>3 DEF PropAt
    <3> QED
      BY <2>1, <2>2, <3>4, <3>5
  <2> QED
    BY <2>3, <2>4
<1>6. n \in S
  <2> HIDE DEF S
  <2>1. Nat \subseteq S
    BY <1>4, <1>5, InductionOn
  <2> QED
    BY <1>1, <2>1
<1> QED
  BY <1>1, <1>2, <1>6

\* propagate() keeps what follows, and its conflict is a live clause.
THEOREM PropagateFine ==
    ASSUME NEW o, NEW strict, Good(o, strict), LevelQueued(o), NEW m, Fine(o, m)
    PROVE  FineWith(Propagate(o).s, Propagate(o).confl, m)
<1>1. Lasting(o, m, "follows")
  BY DEF Lasting
<1>2. LastingWith(Propagate(o).s, Propagate(o).confl, m, "follows")
  BY <1>1, PropagateLasts
<1> QED
  BY <1>2 DEF LastingWith, Lasting, FineWith

\* At the root there is no conflict if m satisfies the clauses.
LEMMA NoRootConflict ==
    ASSUME NEW o, NEW strict, GoodBut(o, strict), Len(o.trailLim) = 0, NEW m, NEW cr, cr # CRefUndef,
           FineWith(o, cr, m), ConflictRight(o, cr)
    PROVE  FALSE
<1>1. Fine(o, m) /\ cr \in Lives(o) /\ o.trailLim = <<>>
  BY KernelTypes DEF FineWith
<1>2. PICK k \in DOMAIN o.ca.at[cr].lits :
        /\ o.ca.at[cr].lits[k] \in LitsOf(o.nextVar)
        /\ Val(o.assigns, o.ca.at[cr].lits[k]) = LFalse => o.level[VarOf(o.ca.at[cr].lits[k])] > 0
  BY <1>1, FalseButTrue
<1> DEFINE q == o.ca.at[cr].lits[k]
<1>3. q \in LitsOf(o.nextVar) /\ Val(o.assigns, q) = LFalse /\ o.level[VarOf(q)] > 0
  BY <1>2 DEF ConflictRight
<1> HIDE DEF q
<1>4. o.nextVar \in Nat /\ o.assigns \in [VarsUpTo(o.nextVar) -> Lbools]
  BY KernelTypes
<1>5. VarOf(q) \in VarsUpTo(o.nextVar) /\ o.assigns[VarOf(q)] # LUndef
  BY <1>3, <1>4, LitFacts, ValFacts DEF LFalse, LUndef
<1>6. o.level[VarOf(q)] = 0
  BY <1>1, <1>5, RootLevels
<1> QED
  BY <1>3, <1>6

\* What is enqueued above the root, or follows, keeps what follows.
LEMMA EnqueueFine ==
    ASSUME NEW o, NEW strict, GoodBut(o, strict), NEW m, Fine(o, m), NEW p \in LitsOf(o.nextVar),
           Len(o.trailLim) = 0 => Truth(m, p), NEW from
    PROVE  Fine(UncheckedEnqueue(o, p, from), m)
<1> DEFINE t == UncheckedEnqueue(o, p, from)
<1>1. IsEnqueued(o, p, from, t)
  BY Enqueued DEF GoodBut
<1> HIDE DEF t
<1>2. /\ t.assigns = Assigned(o.assigns, p) /\ t.level = LevelSet(o.level, p, Len(o.trailLim))
      /\ t.nextVar = o.nextVar /\ t.ca = o.ca /\ t.clauses = o.clauses /\ t.learnts = o.learnts
      /\ t.freeVars = o.freeVars
  BY <1>1 DEF IsEnqueued, Same, Fields, EnqueueFields
<1>3. RootHolds(t, m)
  BY <1>2, RootEnqueued DEF Fine
<1>4. AllListed(t) /\ LiveHolds(t, m)
  BY <1>2 DEF Fine, AllListed, Lives, LiveHolds
<1> QED
  BY <1>3, <1>4 DEF Fine, t

\* A new decision level keeps what follows.
LEMMA OpenFine ==
    ASSUME NEW o, IsObject(o), NEW m, Fine(o, m)
    PROVE  Fine(NewDecisionLevel(o), m)
<1>1. Same(o, NewDecisionLevel(o), OnlyLimits)
  BY OpenedFields DEF IsOpened
<1>2. OnlyLimits \intersect FineFields = {}
  BY DEF OnlyLimits, FineFields
<1> QED
  BY <1>1, <1>2, FineSame

\* cancelUntil() keeps what follows.
LEMMA CancelFine ==
    ASSUME NEW o, NEW strict, GoodBut(o, strict), NEW m, Fine(o, m), NEW k \in Nat
    PROVE  Fine(CancelUntil(o, k), m)
<1> DEFINE keep == o.trailLim[k + 1]
           t == CancelUntil(o, k)
           n == o.nextVar
           U == Undone(o.trail, keep)
<1>1. /\ n \in Nat /\ o.assigns \in [VarsUpTo(n) -> Lbools] /\ o.trailLim \in Seq(Nat)
      /\ Len(o.trailLim) \in Nat
  BY KernelTypes
<1>2. CASE Len(o.trailLim) <= k
  BY <1>2 DEF CancelUntil, DecisionLevel
<1>3. CASE ~(Len(o.trailLim) <= k)
  <2>1. k \in Nat /\ k < Len(o.trailLim)
    BY <1>1, <1>3
  <2>2. CancelGoodTo(o, k, t, strict)
    BY <2>1, CancelGood
  <2> HIDE DEF t, keep
  <2>3. t.assigns = Unassigned(o.assigns, U) /\ Same(o, t, CancelFields)
    BY <2>2 DEF CancelGoodTo, IsCancelled, keep
  <2>4. /\ t.ca = o.ca /\ t.clauses = o.clauses /\ t.learnts = o.learnts /\ t.level = o.level
        /\ t.nextVar = o.nextVar /\ t.freeVars = o.freeVars
    BY <2>3 DEF Same, Fields, CancelFields
  <2>5. \A p \in LitsOf(n) : Val(t.assigns, p) = LTrue => Val(o.assigns, p) = LTrue
    <3> SUFFICES ASSUME NEW p \in LitsOf(n), Val(t.assigns, p) = LTrue
                 PROVE  Val(o.assigns, p) = LTrue
      OBVIOUS
    <3>1. VarOf(p) \in DOMAIN o.assigns
      BY <1>1, LitFacts
    <3>2. t.assigns[VarOf(p)] = IF VarOf(p) \in U THEN LUndef ELSE o.assigns[VarOf(p)]
      BY <2>3, <3>1 DEF Unassigned
    <3>3. t.assigns[VarOf(p)] # LUndef
      BY DEF Val, LXor, LTrue, LUndef
    <3> QED
      BY <3>2, <3>3 DEF Val
  <2>6. RootHolds(t, m)
    BY <2>4, <2>5 DEF Fine, RootHolds
  <2>7. AllListed(t) /\ LiveHolds(t, m)
    BY <2>4 DEF Fine, AllListed, Lives, LiveHolds
  <2> QED
    BY <2>6, <2>7 DEF Fine, t
<1> QED
  BY <1>2, <1>3

-------------------------------------------------------------------------------
(* What analyze() returns follows.                                             *)

\* m makes a literal of the clause true.
SomeTrue(m, lits) == \E k \in DOMAIN lits : Truth(m, lits[k])

\* m makes the false literal of one of the variables true.
Blamed(o, vs, m) ==
    \E q \in LitsOf(o.nextVar) : VarOf(q) \in vs /\ Val(o.assigns, q) = LFalse /\ Truth(m, q)

\* The seen variables below the last level are those of the lower literals.
Lowered(o, x) ==
    \A v \in x.seen : o.level[v] < Len(o.trailLim) => \E j \in DOMAIN x.lower : VarOf(x.lower[j]) = v

\* The clause resolved so far follows.
Blames(o, x, m) ==
    IF x.uip = LitUndef THEN Blamed(o, x.seen, m) /\ Lowered(o, x) ELSE SomeTrue(m, LearntOf(x))

\* Where the elements of joined sequences come to be.
LEMMA JoinedAt ==
    ASSUME NEW X, NEW a \in Seq(X), NEW b \in Seq(X)
    PROVE  /\ \A i \in DOMAIN a : i \in DOMAIN (a \o b) /\ (a \o b)[i] = a[i]
           /\ \A j \in DOMAIN b : Len(a) + j \in DOMAIN (a \o b) /\ (a \o b)[Len(a) + j] = b[j]
<1>1. Len(a) \in Nat /\ Len(b) \in Nat /\ DOMAIN a = 1 .. Len(a) /\ DOMAIN b = 1 .. Len(b)
      /\ DOMAIN (a \o b) = 1 .. Len(a) + Len(b)
  OBVIOUS
<1>2. \A i \in 1 .. Len(a) + Len(b) :
        (a \o b)[i] = IF i <= Len(a) THEN a[i] ELSE b[i - Len(a)]
  OBVIOUS
<1>3. ASSUME NEW j \in DOMAIN b
      PROVE  Len(a) + j \in DOMAIN (a \o b) /\ (a \o b)[Len(a) + j] = b[j]
  <2>1. Len(a) + j \in 1 .. Len(a) + Len(b) /\ ~(Len(a) + j <= Len(a)) /\ (Len(a) + j) - Len(a) = j
    BY <1>1
  <2> QED
    BY <1>1, <1>2, <2>1
<1>4. ASSUME NEW i \in DOMAIN a
      PROVE  i \in DOMAIN (a \o b) /\ (a \o b)[i] = a[i]
  <2>1. i \in 1 .. Len(a) + Len(b) /\ i <= Len(a)
    BY <1>1
  <2> QED
    BY <1>1, <1>2, <2>1
<1> QED
  BY <1>3, <1>4

\* A clause taken in adds its lower literals.
LEMMA TakeInLowers ==
    ASSUME NEW o, NEW strict, GoodBut(o, strict), NEW x, NEW i, Side(o, x, i),
           NEW lits, Resolvable(o, lits, i), Lowered(o, x)
    PROVE  Lowered(o, TakeIn(o, x, lits))
<1> DEFINE n == o.nextVar
           N == NewLits(o, lits, x.seen)
           X == {q \in N : LevelOf(o, q) < DecisionLevel(o)}
           L == Only(lits, X)
           seen == x.seen \union {VarOf(q) : q \in N}
           lower == x.lower \o L
           t == TakeIn(o, x, lits)
<1>1. IsResolved(x) /\ LowerRight(o, x.lower)
  BY DEF Side
<1>2. x.lower \in Seq(LitsOf(n)) /\ lits \in Seq(LitsOf(n))
  BY <1>1 DEF LowerRight, Resolvable
<1>3. LowerLits(o, lits, x.seen) = L
  BY DEF LowerLits
<1>4. t = [x EXCEPT !.seen = seen, !.lower = lower]
  BY <1>3 DEF TakeIn
<1>5. L \in Seq(LitsOf(n)) /\ LeftOf(L, lits, X)
  BY <1>2, OnlyLeft
<1>6. \A q \in N : q \in Range(lits)
  BY DEF NewLits, ToSet, Range
<1>7. \A q : q \in X <=> q \in N /\ o.level[VarOf(q)] < Len(o.trailLim)
  BY DEF LevelOf, DecisionLevel
<1>8. \A v : v \in seen <=> v \in x.seen \/ \E q \in N : v = VarOf(q)
  OBVIOUS
<1> HIDE DEF N, X, L
<1>9. /\ \A i1 \in DOMAIN x.lower : i1 \in DOMAIN lower /\ lower[i1] = x.lower[i1]
      /\ \A j1 \in DOMAIN L : Len(x.lower) + j1 \in DOMAIN lower /\ lower[Len(x.lower) + j1] = L[j1]
  BY <1>2, <1>5, JoinedAt
<1> HIDE DEF seen, lower, t
<1>10. t.seen = seen /\ t.lower = lower
  BY <1>1, <1>4 DEF IsResolved
<1>11. ASSUME NEW v \in seen, o.level[v] < Len(o.trailLim)
       PROVE  \E j \in DOMAIN lower : VarOf(lower[j]) = v
  <2>1. CASE v \in x.seen
    <3>1. PICK j \in DOMAIN x.lower : VarOf(x.lower[j]) = v
      BY <1>11, <2>1 DEF Lowered
    <3> QED
      BY <1>9, <3>1
  <2>2. CASE v \notin x.seen
    <3>1. PICK q \in N : v = VarOf(q)
      BY <1>8, <2>2
    <3>2. q \in X /\ q \in Range(lits)
      BY <1>6, <1>7, <1>11, <3>1
    <3>3. q \in Range(L)
      BY <1>5, <3>2 DEF LeftOf
    <3>4. PICK j \in DOMAIN L : L[j] = q
      BY <3>3 DEF Range
    <3> QED
      BY <1>9, <3>1, <3>4
  <2> QED
    BY <2>1, <2>2
<1>12. Lowered(o, t)
  BY <1>10, <1>11 DEF Lowered
<1> QED
  BY <1>12 DEF t

\* A live clause whose literals are false: one of them is blamed.
LEMMA ConflictBlames ==
    ASSUME NEW o, NEW strict, GoodBut(o, strict), NEW m, Fine(o, m), NEW cr \in Lives(o),
           ConflictRight(o, cr), NEW x, x = [seen |-> {}, lower |-> <<>>, uip |-> LitUndef]
    PROVE  Blames(o, TakeIn(o, x, Lits(o, cr)), m)
<1> DEFINE lits == Lits(o, cr)
           y == TakeIn(o, x, lits)
           n == Len(o.trail)
<1>1. x.seen = {} /\ x.lower = <<>> /\ x.uip = LitUndef /\ IsResolved(x)
  BY DEF IsResolved
<1>2. Side(o, x, n)
  <2>1. LowerRight(o, x.lower)
    BY <1>1 DEF LowerRight, VarsApart
  <2> QED
    BY <1>1, <2>1 DEF Side
<1>3. Resolvable(o, lits, n)
  BY ConflictResolvable
<1>4. lits = o.ca.at[cr].lits
  BY DEF Lits
<1>5. PICK k \in DOMAIN lits :
         /\ Truth(m, lits[k]) /\ lits[k] \in LitsOf(o.nextVar)
         /\ Val(o.assigns, lits[k]) = LFalse => o.level[VarOf(lits[k])] > 0
  BY <1>4, FalseButTrue
<1>6. Val(o.assigns, lits[k]) = LFalse
  BY <1>3 DEF Resolvable
<1> HIDE DEF lits
<1>7. Side(o, y, n) /\ Took(o, x, y, lits)
  BY <1>2, <1>3, TakeInKeeps
<1>8. Lowered(o, x)
  BY <1>1 DEF Lowered
<1>9. Lowered(o, y)
  BY <1>2, <1>3, <1>8, TakeInLowers
<1> HIDE DEF y
<1>10. VarOf(lits[k]) \in y.seen /\ y.uip = LitUndef
  BY <1>1, <1>5, <1>6, <1>7 DEF Took
<1>11. Blamed(o, y.seen, m)
  BY <1>5, <1>6, <1>10 DEF Blamed
<1>12. Blames(o, y, m)
  BY <1>9, <1>10, <1>11 DEF Blames
<1> QED
  BY <1>12 DEF y, lits

\* The reason of a literal that m makes false has another that m makes true.
LEMMA ReasonBlames ==
    ASSUME NEW o, NEW strict, GoodBut(o, strict), NEW m, Fine(o, m), NEW i \in DOMAIN o.trail,
           ReasonOf(o, o.trail[i]) # CRefUndef, ~Truth(m, o.trail[i])
    PROVE  LET t == Tail(Lits(o, ReasonOf(o, o.trail[i]))) IN
           \E k \in DOMAIN t :
             /\ Truth(m, t[k]) /\ t[k] \in LitsOf(o.nextVar)
             /\ Val(o.assigns, t[k]) = LFalse => o.level[VarOf(t[k])] > 0
<1> DEFINE p == o.trail[i]
           cr == o.reason[VarOf(p)]
           lits == o.ca.at[cr].lits
           t == Tail(lits)
<1>1. ReasonOf(o, o.trail[i]) = cr /\ Lits(o, cr) = lits
  BY DEF Lits, ReasonOf
<1>a. cr # CRefUndef
  BY <1>1
<1>b. cr # CRefUndef => IsReason(cr, p, o.ca.at)
  BY DEF GoodBut, Reasons
<1>2. IsReason(cr, p, o.ca.at)
  BY <1>a, <1>b
<1>3. cr \in Lives(o) /\ lits[1] = p
  BY Zenon, <1>2 DEF IsReason, Lives
<1>4. LongLits(lits, o.nextVar)
  BY <1>3, KernelTypes DEF Lives, Clauses, IsClause
<1>5. lits \in Seq(LitsOf(o.nextVar)) /\ Len(lits) >= 1
  <2> HIDE DEF lits
  <2>1. lits \in Seq(LitsOf(o.nextVar)) /\ Len(lits) >= 2 /\ Len(lits) \in Nat
    BY <1>4 DEF LongLits
  <2> QED
    BY <2>1
<1>6. Follows1(t, lits)
  BY Zenon, <1>5, TailFacts
<1>7. PICK k \in DOMAIN lits :
         /\ Truth(m, lits[k]) /\ lits[k] \in LitsOf(o.nextVar)
         /\ Val(o.assigns, lits[k]) = LFalse => o.level[VarOf(lits[k])] > 0
  BY Zenon, <1>3, FalseButTrue
<1>8. k # 1
  BY Zenon, <1>3, <1>7
<1>9. k - 1 \in DOMAIN t /\ t[k - 1] = lits[k]
  BY Zenon, <1>6, <1>8 DEF Follows1
<1> HIDE DEF t, lits, cr
<1>10. /\ Truth(m, t[k - 1]) /\ t[k - 1] \in LitsOf(o.nextVar)
       /\ Val(o.assigns, t[k - 1]) = LFalse => o.level[VarOf(t[k - 1])] > 0
  BY <1>7, <1>9
<1>11. Tail(Lits(o, ReasonOf(o, o.trail[i]))) = t
  BY <1>1 DEF t
<1> QED
  BY <1>9, <1>10, <1>11

\* A literal of the last level with another one of it before is not its first.
LEMMA NoLimitBefore ==
    ASSUME NEW o, NEW strict, GoodBut(o, strict), NEW i \in DOMAIN o.trail, NEW v,
           SeenRight(o, v, i - 1), o.level[v] >= Len(o.trailLim)
    PROVE  i - 1 \notin Range(o.trailLim)
<1>1. /\ o.trail \in Seq(LitsOf(o.nextVar)) /\ o.trailLim \in Seq(Nat)
      /\ TrailRight(o.trail, o.trailLim, o.assigns, o.level)
  BY KernelTypes
<1>2. PICK j \in DOMAIN o.trail : j <= i - 1 /\ VarOf(o.trail[j]) = v
  BY DEF SeenRight, OnFirst
<1>3. AtLevel(o.level[v], o.trailLim, j)
  BY <1>1, <1>2 DEF TrailRight
<1>4. ASSUME NEW l \in DOMAIN o.trailLim
      PROVE  o.trailLim[l] # i - 1
  <2>1. l <= Len(o.trailLim) /\ l \in Nat /\ Len(o.trailLim) \in Nat
    BY <1>1
  <2>2. o.level[v] \in 0 .. Len(o.trailLim)
    BY <1>3 DEF AtLevel
  <2>3. l <= o.level[v]
    BY <2>1, <2>2
  <2>4. o.trailLim[l] < j
    BY <1>3, <2>3 DEF AtLevel
  <2>5. o.trailLim[l] \in Nat /\ j \in Nat /\ i \in Nat
    BY <1>1
  <2> QED
    BY <1>2, <2>4, <2>5
<1> QED
  BY <1>4 DEF Range

\* One literal of the trail is looked at.
LEMMA ResolveBlames ==
    ASSUME NEW o, GoodBut(o, TRUE), Len(o.trailLim) > 0, NEW m, Fine(o, m), NEW i \in DOMAIN o.trail,
           NEW x, ResolvedTo(o, x, i), Blames(o, x, m)
    PROVE  Blames(o, ResolveOn(o, x, o.trail[i]), m)
<1> DEFINE p == o.trail[i]
           u == VarOf(p)
           y == Others(x, u)
           r == ResolveOn(o, x, p)
           DL == Len(o.trailLim)
<1>1. /\ o.trail \in Seq(LitsOf(o.nextVar)) /\ o.trailLim \in Seq(Nat) /\ o.nextVar \in Nat
      /\ o.assigns \in [VarsUpTo(o.nextVar) -> Lbools]
      /\ o.level \in [VarsUpTo(o.nextVar) -> Nat]
      /\ TrailRight(o.trail, o.trailLim, o.assigns, o.level)
  BY KernelTypes
<1>2. p \in LitsOf(o.nextVar) /\ Val(o.assigns, p) = LTrue /\ DL \in Nat
  BY <1>1 DEF TrailRight
<1>3. u \in VarsUpTo(o.nextVar) /\ p \in Nat
  BY <1>1, <1>2, LitFacts
<1>4. IsResolved(x) /\ LowerRight(o, x.lower)
  BY DEF ResolvedTo
<1>5. CASE x.uip # LitUndef \/ u \notin x.seen
  <2>1. r = x
    BY <1>5 DEF ResolveOn
  <2> QED
    BY <2>1
<1>6. CASE x.uip = LitUndef /\ u \in x.seen
  <2>1. Side(o, x, i) /\ \E v \in x.seen : o.level[v] >= DL
    BY <1>6 DEF ResolvedTo
  <2>2. (\A v \in x.seen : SeenRight(o, v, i)) /\ \A k \in DOMAIN x.lower : VarOf(x.lower[k]) \in x.seen
    BY <2>1 DEF Side
  <2>3. Blamed(o, x.seen, m) /\ Lowered(o, x)
    BY <1>6 DEF Blames
  <2>4. PICK q \in LitsOf(o.nextVar) : VarOf(q) \in x.seen /\ Val(o.assigns, q) = LFalse /\ Truth(m, q)
    BY <2>3 DEF Blamed
  <2>5. o.level[u] = DL
    <3>1. PICK w \in x.seen : o.level[w] >= DL
      BY <2>1
    <3> QED
      BY <2>2, <3>1, SeenLast
  <2>6. y.seen = x.seen \ {u} /\ y.lower = x.lower /\ y.uip = x.uip /\ IsResolved(y)
    <3> DEFINE rest == x.seen \ {u}
    <3>1. y = [x EXCEPT !.seen = rest]
      BY DEF Others
    <3> HIDE DEF rest, y
    <3>2. y.seen = rest /\ y.lower = x.lower /\ y.uip = x.uip /\ IsResolved(y)
      BY <1>4, <3>1 DEF IsResolved
    <3> QED
      BY <3>2 DEF rest
  <2>7. y = [x EXCEPT !.seen = @ \ {VarOf(p)}]
    BY DEF Others
  <2> HIDE DEF y
  <2>8. VarOf(q) = u => q = Neg(p)
    <3> SUFFICES ASSUME VarOf(q) = u PROVE q = Neg(p)
      OBVIOUS
    <3>1. q = p \/ q = Neg(p)
      BY <1>1, <1>2, SameVar
    <3> QED
      BY <1>2, <2>4, <3>1 DEF LTrue, LFalse
  <2>9. CASE \E v \in y.seen : o.level[v] >= DL
    <3> DEFINE lits == Tail(Lits(o, ReasonOf(o, p)))
               z == TakeIn(o, y, lits)
    <3>1. r = z
      BY <1>6, <2>7, <2>9 DEF ResolveOn, DecisionLevel
    <3>2. PICK v \in y.seen : o.level[v] >= DL
      BY <2>9
    <3>3. \A w \in y.seen : SeenRight(o, w, i - 1)
      BY <2>2, <2>6, SeenEarlier
    <3>4. Resolvable(o, lits, i - 1)
      BY <2>5, <3>2, <3>3, LastHasReason
    <3>5. \A k \in DOMAIN y.lower : VarOf(y.lower[k]) \in y.seen
      <4>1. ASSUME NEW k \in DOMAIN x.lower
            PROVE  VarOf(x.lower[k]) # u
        <5>1. o.level[VarOf(x.lower[k])] < DL
          BY <1>4 DEF LowerRight, LowerLit
        <5> QED
          BY <1>2, <2>5, <5>1
      <4> QED
        BY <2>2, <2>6, <4>1
    <3>6. Side(o, y, i - 1)
      BY <1>4, <2>6, <3>3, <3>5 DEF Side
    <3>7. Lowered(o, y)
      BY <2>3, <2>6 DEF Lowered
    <3>8. Side(o, z, i - 1) /\ Took(o, y, z, lits)
      BY <3>4, <3>6, TakeInKeeps
    <3>9. Lowered(o, z)
      BY <3>4, <3>6, <3>7, TakeInLowers
    <3>10. ReasonOf(o, p) # CRefUndef
      <4> DEFINE cr == o.reason[u]
      <4>1. InOrder(i, o.trailLim, o.trail, o.level, o.assigns, cr, o.ca.at)
        BY DEF GoodBut, Reasons
      <4>2. cr = CRefUndef <=> i - 1 \in Range(o.trailLim)
        BY <1>2, <2>5, <4>1 DEF InOrder
      <4>3. i - 1 \notin Range(o.trailLim)
        BY <2>5, <3>2, <3>3, NoLimitBefore
      <4> QED
        BY <4>2, <4>3 DEF ReasonOf
    <3> HIDE DEF z
    <3>11. Blamed(o, z.seen, m)
      <4>1. CASE VarOf(q) # u
        <5>1. VarOf(q) \in z.seen
          BY <2>4, <2>6, <3>8, <4>1 DEF Took
        <5> QED
          BY <2>4, <5>1 DEF Blamed
      <4>2. CASE VarOf(q) = u
        <5>1. ~Truth(m, p)
          BY <1>1, <1>2, <2>4, <2>8, <4>2, TruthFacts
        <5>2. PICK k \in DOMAIN lits :
                /\ Truth(m, lits[k]) /\ lits[k] \in LitsOf(o.nextVar)
                /\ Val(o.assigns, lits[k]) = LFalse => o.level[VarOf(lits[k])] > 0
          BY <3>10, <5>1, ReasonBlames
        <5>3. Val(o.assigns, lits[k]) = LFalse
          BY <3>4 DEF Resolvable
        <5>4. VarOf(lits[k]) \in z.seen
          BY <3>8, <5>2, <5>3 DEF Took
        <5> QED
          BY <5>2, <5>3, <5>4 DEF Blamed
      <4> QED
        BY <4>1, <4>2
    <3>12. z.uip = LitUndef
      BY <1>6, <2>6, <3>8 DEF Took
    <3>13. Blames(o, z, m)
      BY <3>9, <3>11, <3>12 DEF Blames
    <3> QED
      BY <3>1, <3>13
  <2>10. CASE ~\E v \in y.seen : o.level[v] >= DL
    <3>1. r = [x EXCEPT !.uip = p]
      BY <1>6, <2>7, <2>10 DEF ResolveOn, DecisionLevel
    <3> HIDE DEF r
    <3>2. r.uip = p /\ r.lower = x.lower
      BY <1>4, <3>1 DEF IsResolved
    <3>3. p # LitUndef
      BY <1>3 DEF LitUndef
    <3> DEFINE c == <<Neg(p)>> \o x.lower
    <3>4. LearntOf(r) = c
      BY <3>2 DEF LearntOf
    <3>5. Neg(p) \in LitsOf(o.nextVar) /\ x.lower \in Seq(LitsOf(o.nextVar))
      BY <1>1, <1>2, <1>4, LitFacts DEF LowerRight
    <3>6. /\ 1 \in DOMAIN c /\ c[1] = Neg(p)
          /\ \A j \in DOMAIN x.lower : 1 + j \in DOMAIN c /\ c[1 + j] = x.lower[j]
      <4>1. <<Neg(p)>> \in Seq(LitsOf(o.nextVar)) /\ Len(<<Neg(p)>>) = 1 /\ <<Neg(p)>>[1] = Neg(p)
            /\ 1 \in DOMAIN <<Neg(p)>>
        BY <3>5
      <4> QED
        BY <3>5, <4>1, JoinedAt
    <3> HIDE DEF c
    <3>7. SomeTrue(m, c)
      <4>1. CASE VarOf(q) = u
        BY <2>4, <2>8, <3>6, <4>1 DEF SomeTrue
      <4>2. CASE VarOf(q) # u
        <5>1. VarOf(q) \in y.seen
          BY <2>4, <2>6, <4>2
        <5>2. VarOf(q) \in VarsUpTo(o.nextVar)
          BY <1>1, <2>4, LitFacts
        <5>3. o.level[VarOf(q)] \in Nat /\ ~(o.level[VarOf(q)] >= DL)
          BY <1>1, <2>10, <5>1, <5>2
        <5>4. o.level[VarOf(q)] < DL
          BY <1>2, <5>3
        <5>5. PICK j \in DOMAIN x.lower : VarOf(x.lower[j]) = VarOf(q)
          BY <2>3, <2>4, <5>4 DEF Lowered
        <5>6. x.lower[j] \in LitsOf(o.nextVar) /\ Val(o.assigns, x.lower[j]) = LFalse
          BY <1>4 DEF LowerRight, LowerLit
        <5>7. x.lower[j] = q
          BY <1>1, <2>4, <5>5, <5>6, FalseApart
        <5> QED
          BY <2>4, <3>6, <5>7 DEF SomeTrue
      <4> QED
        BY <4>1, <4>2
    <3>8. Blames(o, r, m)
      BY <3>2, <3>3, <3>4, <3>7 DEF Blames
    <3> QED
      BY <3>8 DEF r
  <2> QED
    BY <2>9, <2>10
<1> QED
  BY <1>5, <1>6

\* Resolution down the trail: a literal of the clause it ends with follows.
LEMMA ResolvedBlames ==
    ASSUME NEW o, GoodBut(o, TRUE), Len(o.trailLim) > 0, NEW m, Fine(o, m),
           NEW x, ResolvedTo(o, x, Len(o.trail)), Blames(o, x, m)
    PROVE  SomeTrue(m, LearntOf(ResolveFrom(o, x)))
<1> DEFINE n == Len(o.trail)
<1>a. o.trail \in Seq(LitsOf(o.nextVar))
  BY KernelTypes
<1>1. n \in Nat /\ DOMAIN o.trail = 1 .. n
  BY <1>a
<1>2. PICK g : ResolveRun(g, o, x) /\ ResolveFrom(o, x) = g[n]
  BY <1>1, ResolveRuns
<1>3. g[0] = x /\ \A i \in 1 .. n : g[i] = ResolveOn(o, g[i - 1], o.trail[n + 1 - i])
  BY <1>2 DEF ResolveRun
<1> DEFINE S == {i \in Nat : i <= n => ResolvedTo(o, g[i], n - i) /\ Blames(o, g[i], m)}
<1>4. 0 \in S
  <2>1. n - 0 = n
    BY <1>1
  <2> QED
    BY <1>3, <2>1
<1>5. ASSUME NEW i \in Nat, i \in S
      PROVE  i + 1 \in S
  <2> SUFFICES ASSUME i + 1 <= n PROVE ResolvedTo(o, g[i + 1], n - (i + 1)) /\ Blames(o, g[i + 1], m)
    OBVIOUS
  <2> DEFINE j == n - i
             y == g[i]
  <2>1. j \in DOMAIN o.trail /\ j - 1 = n - (i + 1) /\ n + 1 - (i + 1) = j /\ i + 1 \in 1 .. n
        /\ (i + 1) - 1 = i /\ i <= n
    <3> HIDE DEF n
    <3>1. j \in 1 .. n /\ j - 1 = n - (i + 1) /\ n + 1 - (i + 1) = j /\ i + 1 \in 1 .. n
          /\ (i + 1) - 1 = i /\ i <= n
      BY <1>1
    <3> QED
      BY <1>1, <3>1
  <2>2. ResolvedTo(o, y, j) /\ Blames(o, y, m)
    BY <1>5, <2>1
  <2>3. g[i + 1] = ResolveOn(o, y, o.trail[j])
    BY <1>3, <2>1
  <2> HIDE DEF j, y
  <2>4. ResolvedTo(o, ResolveOn(o, y, o.trail[j]), j - 1)
    BY <2>1, <2>2, ResolveStep
  <2>5. Blames(o, ResolveOn(o, y, o.trail[j]), m)
    BY <2>1, <2>2, ResolveBlames
  <2> QED
    BY <2>1, <2>3, <2>4, <2>5
<1>6. n \in S
  <2> HIDE DEF S
  <2>1. Nat \subseteq S
    BY <1>4, <1>5, InductionOn
  <2> QED
    BY <1>1, <2>1
<1> DEFINE r == g[n]
<1>7. Blames(o, r, m)
  BY <1>1, <1>6
<1>8. r.uip # LitUndef
  <2>1. LET z == ResolveFrom(o, x) IN LowerRight(o, z.lower) /\ UipRight(o, z.uip)
    BY ResolveEnds
  <2>2. UipRight(o, r.uip)
    BY <1>2, <2>1
  <2>3. r.uip \in LitsOf(o.nextVar) /\ o.nextVar \in Nat
    BY <2>2, KernelTypes DEF UipRight
  <2>4. r.uip \in Nat
    BY <2>3, LitFacts
  <2> QED
    BY <2>4 DEF LitUndef
<1> HIDE DEF r
<1>9. SomeTrue(m, LearntOf(r))
  BY <1>7, <1>8 DEF Blames
<1> QED
  BY <1>2, <1>9 DEF r

\* The clause resolved to the first implication point follows.
LEMMA ResolveFollows ==
    ASSUME NEW o, GoodBut(o, TRUE), Len(o.trailLim) > 0, NEW m, Fine(o, m), NEW cr \in Lives(o),
           ConflictRight(o, cr)
    PROVE  SomeTrue(m, ResolveToUIP(o, Lits(o, cr)))
<1> DEFINE x == [seen |-> {}, lower |-> <<>>, uip |-> LitUndef]
           y == TakeIn(o, x, Lits(o, cr))
<1>1. ResolvedTo(o, y, Len(o.trail))
  BY ResolveStarts
<1>2. Blames(o, y, m)
  BY ConflictBlames
<1>3. ResolveToUIP(o, Lits(o, cr)) = LearntOf(ResolveFrom(o, y))
  BY DEF ResolveToUIP
<1> HIDE DEF y
<1>4. SomeTrue(m, LearntOf(ResolveFrom(o, y)))
  BY <1>1, <1>2, ResolvedBlames
<1> QED
  BY <1>3, <1>4

\* The variables known to be redundant, when the i-th literal of the trail was looked at.
RedundantNext(o, source, known, i) ==
    known \union {VarOf(p) : p \in {q \in {o.trail[i]} :
      /\ ReasonOf(o, q) # CRefUndef
      /\ \A l \in ToSet(Tail(Lits(o, ReasonOf(o, q)))) :
            LevelOf(o, l) = 0 \/ VarOf(l) \in source \union known}}

\* Those sets, up the trail.
RedundantRun(g, o, source) ==
    /\ g[0] = {}
    /\ \A i \in 1 .. Len(o.trail) : g[i] = RedundantNext(o, source, g[i - 1], i)

\* The loop up the trail runs.
LEMMA RedundantRuns ==
    ASSUME NEW o, NEW source, Len(o.trail) \in Nat
    PROVE  \E g : RedundantRun(g, o, source) /\ Redundant(o, source) = g[Len(o.trail)]
<1> DEFINE n == Len(o.trail)
           x0 == {}
           loop[i \in 0 .. n] == IF i = 0 THEN x0 ELSE RedundantNext(o, source, loop[i - 1], i)
           S == {m \in Nat : \E g : g = [i \in 0 .. m |-> IF i = 0 THEN x0
                                                        ELSE RedundantNext(o, source, g[i - 1], i)]}
<1>1. Redundant(o, source) = loop[n]
  BY DEF Redundant, RedundantNext
<1> HIDE DEF x0
<1>2. 0 \in S
  <2> DEFINE g == [i \in 0 .. 0 |-> x0]
  <2>1. g = [i \in 0 .. 0 |-> IF i = 0 THEN x0 ELSE RedundantNext(o, source, g[i - 1], i)]
    OBVIOUS
  <2> HIDE DEF g
  <2> QED
    BY <2>1
<1>3. ASSUME NEW m \in Nat, m \in S
      PROVE  m + 1 \in S
  <2>1. PICK g : g = [i \in 0 .. m |-> IF i = 0 THEN x0 ELSE RedundantNext(o, source, g[i - 1], i)]
    BY <1>3
  <2> DEFINE h == [i \in 0 .. m + 1 |-> IF i = m + 1 THEN RedundantNext(o, source, g[m], m + 1) ELSE g[i]]
  <2>2. ASSUME NEW i \in 0 .. m + 1
        PROVE  h[i] = IF i = 0 THEN x0 ELSE RedundantNext(o, source, h[i - 1], i)
    <3>1. CASE i = m + 1
      <4>1. i - 1 = m /\ m \in 0 .. m + 1 /\ m # m + 1 /\ i # 0
        BY <3>1
      <4>2. h[i - 1] = g[m]
        BY <2>1, <4>1
      <4> QED
        BY <3>1, <4>1, <4>2
    <3>2. CASE i # m + 1
      <4>1. i \in 0 .. m
        BY <3>2
      <4>2. h[i] = g[i] /\ g[i] = IF i = 0 THEN x0 ELSE RedundantNext(o, source, g[i - 1], i)
        BY <2>1, <3>2, <4>1
      <4>3. CASE i # 0
        <5>1. i - 1 \in 0 .. m + 1 /\ i - 1 # m + 1
          BY <4>1, <4>3
        <5>2. h[i - 1] = g[i - 1]
          BY <5>1
        <5> QED
          BY <4>2, <4>3, <5>2
      <4> QED
        BY <4>2, <4>3
    <3> QED
      BY <3>1, <3>2
  <2>3. h = [i \in 0 .. m + 1 |-> IF i = 0 THEN x0 ELSE RedundantNext(o, source, h[i - 1], i)]
    <3>1. h = [i \in 0 .. m + 1 |-> h[i]]
      OBVIOUS
    <3> HIDE DEF h
    <3> QED
      BY <2>2, <3>1
  <2>4. \E k : k = [i \in 0 .. m + 1 |-> IF i = 0 THEN x0 ELSE RedundantNext(o, source, k[i - 1], i)]
    <3> HIDE DEF h
    <3> QED
      BY <2>3
  <2> QED
    BY <2>4
<1>4. n \in S
  <2> HIDE DEF S
  <2>1. Nat \subseteq S
    BY <1>2, <1>3, InductionOn
  <2> QED
    BY <2>1
<1>5. loop = [i \in 0 .. n |-> IF i = 0 THEN x0 ELSE RedundantNext(o, source, loop[i - 1], i)]
  <2>1. \E g : g = [i \in 0 .. n |-> IF i = 0 THEN x0 ELSE RedundantNext(o, source, g[i - 1], i)]
    BY <1>4
  <2>2. loop = CHOOSE g : g = [i \in 0 .. n |-> IF i = 0 THEN x0
                                              ELSE RedundantNext(o, source, g[i - 1], i)]
    BY DEF loop
  <2> HIDE DEF loop
  <2> QED
    BY <2>1, <2>2, Zenon
<1> HIDE DEF loop
<1>6. loop[0] = x0 /\ \A i \in 1 .. n : loop[i] = RedundantNext(o, source, loop[i - 1], i)
  <2>1. 0 \in 0 .. n /\ \A i \in 1 .. n : i \in 0 .. n /\ i # 0
    OBVIOUS
  <2> HIDE DEF n
  <2> QED
    BY <1>5, <2>1
<1>7. RedundantRun(loop, o, source)
  BY <1>6 DEF RedundantRun, x0
<1> QED
  BY <1>1, <1>7


\* Each of the variables has a reason over source, other variables of vs and the root.
Justified(o, source, vs) ==
    \A v \in vs : /\ o.reason[v] # CRefUndef
                  /\ \A l \in Range(Tail(Lits(o, o.reason[v]))) :
                       o.level[VarOf(l)] = 0 \/ VarOf(l) \in source \union vs

\* The variables that are redundant are justified.
LEMMA RedundantJustified ==
    ASSUME NEW o, Len(o.trail) \in Nat, NEW source
    PROVE  Justified(o, source, Redundant(o, source))
<1> DEFINE n == Len(o.trail)
<1>1. PICK g : RedundantRun(g, o, source) /\ Redundant(o, source) = g[n]
  BY RedundantRuns
<1>2. g[0] = {} /\ \A i \in 1 .. n : g[i] = RedundantNext(o, source, g[i - 1], i)
  BY <1>1 DEF RedundantRun
<1> DEFINE S == {i \in Nat : i <= n => Justified(o, source, g[i])}
<1>3. 0 \in S
  BY <1>2 DEF Justified
<1>4. ASSUME NEW i \in Nat, i \in S
      PROVE  i + 1 \in S
  <2> SUFFICES ASSUME i + 1 <= n PROVE Justified(o, source, g[i + 1])
    OBVIOUS
  <2> DEFINE K == g[i]
             k == i + 1
             K2 == RedundantNext(o, source, K, k)
             q == o.trail[k]
  <2>1. k \in 1 .. n /\ k - 1 = i /\ i <= n
    OBVIOUS
  <2>2. Justified(o, source, K) /\ g[k] = K2
    BY <1>2, <1>4, <2>1
  <2> HIDE DEF K, k
  <2>3. K \subseteq K2
    BY DEF RedundantNext
  <2>4. ASSUME NEW v \in K2, v \notin K
        PROVE  /\ v = VarOf(q) /\ ReasonOf(o, q) # CRefUndef
               /\ \A l \in ToSet(Tail(Lits(o, ReasonOf(o, q)))) :
                     LevelOf(o, l) = 0 \/ VarOf(l) \in source \union K
    BY <2>4 DEF RedundantNext
  <2> HIDE DEF K2
  <2>5. ASSUME NEW v \in K2
        PROVE  /\ o.reason[v] # CRefUndef
               /\ \A l \in Range(Tail(Lits(o, o.reason[v]))) :
                    o.level[VarOf(l)] = 0 \/ VarOf(l) \in source \union K2
    <3>1. CASE v \in K
      BY <2>2, <2>3, <3>1 DEF Justified
    <3>2. CASE v \notin K
      <4>1. /\ v = VarOf(q) /\ ReasonOf(o, q) # CRefUndef
            /\ \A l \in ToSet(Tail(Lits(o, ReasonOf(o, q)))) :
                  LevelOf(o, l) = 0 \/ VarOf(l) \in source \union K
        BY <2>4, <3>2
      <4>2. ReasonOf(o, q) = o.reason[v]
        BY <4>1 DEF ReasonOf
      <4>3. \A f : ToSet(f) = Range(f)
        BY DEF ToSet, Range
      <4> QED
        BY <2>3, <4>1, <4>2, <4>3 DEF LevelOf
    <3> QED
      BY <3>1, <3>2
  <2>6. Justified(o, source, K2)
    BY <2>5 DEF Justified
  <2> QED
    BY <2>2, <2>6 DEF k
<1>5. n \in S
  <2> HIDE DEF S
  <2>1. Nat \subseteq S
    BY <1>3, <1>4, InductionOn
  <2> QED
    BY <2>1
<1> QED
  BY <1>1, <1>5

\* The literals of a clause that are not kept are of justified variables.
Minimized(o, q, t, source, vs) ==
    /\ Justified(o, source, vs) /\ 1 \in DOMAIN t /\ t[1] = q[1]
    /\ \A k \in DOMAIN q : k # 1 =>
         VarOf(q[k]) \in source /\ (VarOf(q[k]) \in vs \/ \E j \in DOMAIN t : t[j] = q[k])
    /\ \A v \in source : \E k \in DOMAIN q : k # 1 /\ VarOf(q[k]) = v

\* What the three modes of minimization drop.
LEMMA MinimizeDrops ==
    ASSUME NEW o, NEW strict, GoodBut(o, strict), NEW q, LearntRight(o, q)
    PROVE  \E vs : Minimized(o, q, Minimize(o, q), VarsOf(Tail(q)), vs)
<1> DEFINE t == Tail(q)
           source == VarsOf(t)
           red == Redundant(o, source)
           local == {p \in ToSet(t) : LocallyRedundant(o, p, source)}
           drop == CASE o.opt.ccmin = 2 -> {p \in ToSet(t) : VarOf(p) \in red}
                     [] o.opt.ccmin = 1 -> local
                     [] OTHER -> {}
           vs == CASE o.opt.ccmin = 2 -> red
                   [] o.opt.ccmin = 1 -> {VarOf(p) : p \in local}
                   [] OTHER -> {}
           kept == Only(t, ToSet(t) \ drop)
           r == <<q[1]>> \o kept
<1>1. Minimize(o, q) = r
  BY DEF Minimize
<1>2. /\ q \in Seq(LitsOf(o.nextVar)) /\ Len(q) >= 1
  BY DEF LearntRight
<1>3. t \in Seq(LitsOf(o.nextVar)) /\ Follows1(t, q) /\ q[1] \in LitsOf(o.nextVar)
  <2>1. 1 \in DOMAIN q
    BY <1>2
  <2> QED
    BY <1>2, <2>1, TailFacts
<1>4. o.trail \in Seq(LitsOf(o.nextVar))
  BY KernelTypes
<1>5. Justified(o, source, red)
  <2>1. Len(o.trail) \in Nat
    BY <1>4
  <2> QED
    BY <2>1, RedundantJustified
<1>6. \A f : ToSet(f) = Range(f)
  BY DEF ToSet, Range
<1> HIDE DEF t, source, red
<1>7. Justified(o, source, {VarOf(p) : p \in local})
  <2>1. ASSUME NEW p \in local
        PROVE  /\ o.reason[VarOf(p)] # CRefUndef
               /\ \A l \in Range(Tail(Lits(o, o.reason[VarOf(p)]))) :
                    o.level[VarOf(l)] = 0 \/ VarOf(l) \in source
    BY <1>6 DEF LocallyRedundant, LevelOf, ReasonOf
  <2> HIDE DEF local
  <2> QED
    BY <2>1 DEF Justified
<1>8. Justified(o, source, vs)
  <2>1. CASE o.opt.ccmin = 2
    BY <1>5, <2>1
  <2>2. CASE o.opt.ccmin = 1
    BY <1>7, <2>2
  <2>3. CASE o.opt.ccmin # 2 /\ o.opt.ccmin # 1
    BY <2>3 DEF Justified
  <2> QED
    BY <2>1, <2>2, <2>3
<1>9. \A p \in drop : VarOf(p) \in vs
  <2>1. CASE o.opt.ccmin = 2
    BY <2>1
  <2>2. CASE o.opt.ccmin = 1
    BY <2>2
  <2>3. CASE o.opt.ccmin # 2 /\ o.opt.ccmin # 1
    BY <2>3
  <2> QED
    BY <2>1, <2>2, <2>3
<1> HIDE DEF drop, vs, local
<1>10. kept \in Seq(LitsOf(o.nextVar)) /\ Range(kept) = Range(t) \intersect (ToSet(t) \ drop)
  BY <1>3, OnlyLeft DEF LeftOf
<1> HIDE DEF kept
<1>11. <<q[1]>> \in Seq(LitsOf(o.nextVar)) /\ 1 \in DOMAIN <<q[1]>> /\ <<q[1]>>[1] = q[1]
  BY <1>3
<1>12. /\ 1 \in DOMAIN r /\ r[1] = q[1]
       /\ \A j \in DOMAIN kept : Len(<<q[1]>>) + j \in DOMAIN r /\ r[Len(<<q[1]>>) + j] = kept[j]
  BY <1>10, <1>11, JoinedAt
<1> HIDE DEF r
<1>13. ASSUME NEW k \in DOMAIN q, k # 1
       PROVE  VarOf(q[k]) \in source /\ (VarOf(q[k]) \in vs \/ \E j \in DOMAIN r : r[j] = q[k])
  <2>1. k - 1 \in DOMAIN t /\ t[k - 1] = q[k]
    BY <1>3, <1>13 DEF Follows1
  <2>2. q[k] \in Range(t)
    BY <2>1 DEF Range
  <2>3. VarOf(q[k]) \in source
    BY <2>1 DEF source, VarsOf
  <2>4. CASE q[k] \in drop
    BY <1>9, <2>3, <2>4
  <2>5. CASE q[k] \notin drop
    <3>1. q[k] \in Range(kept)
      BY <1>6, <1>10, <2>2, <2>5
    <3>2. PICK j \in DOMAIN kept : kept[j] = q[k]
      BY <3>1 DEF Range
    <3> QED
      BY <1>12, <2>3, <3>2
  <2> QED
    BY <2>4, <2>5
<1>14. ASSUME NEW v \in source
       PROVE  \E k \in DOMAIN q : k # 1 /\ VarOf(q[k]) = v
  <2>1. PICK i \in DOMAIN t : VarOf(t[i]) = v
    BY DEF source, VarsOf
  <2>2. i + 1 \in DOMAIN q /\ t[i] = q[i + 1]
    BY <1>3, <2>1 DEF Follows1
  <2>3. i + 1 # 1
    BY <1>3, <2>1 DEF Follows1
  <2> QED
    BY <2>1, <2>2, <2>3
<1>15. Minimized(o, q, r, source, vs)
  BY <1>8, <1>12, <1>13, <1>14 DEF Minimized
<1> QED
  BY <1>1, <1>15 DEF source, t

\* If m falsifies what is kept, it falsifies all that was dropped.
LEMMA DroppedFalse ==
    ASSUME NEW o, GoodBut(o, TRUE), NEW m, Fine(o, m), NEW q, LearntRight(o, q), NEW t, NEW source, NEW vs,
           Minimized(o, q, t, source, vs), ~SomeTrue(m, t),
           NEW i \in DOMAIN o.trail, VarOf(o.trail[i]) \in source \union vs
    PROVE  Truth(m, o.trail[i])
<1> DEFINE n == o.nextVar
           all == source \union vs
           S == {k \in Nat : \A j \in DOMAIN o.trail : j <= k /\ VarOf(o.trail[j]) \in all => Truth(m, o.trail[j])}
<1>1. /\ o.trail \in Seq(LitsOf(n)) /\ n \in Nat /\ o.assigns \in [VarsUpTo(n) -> Lbools]
      /\ o.level \in [VarsUpTo(n) -> Nat]
      /\ TrailRight(o.trail, o.trailLim, o.assigns, o.level) /\ Clauses(o.ca.at, n)
  BY KernelTypes
<1>2. /\ Justified(o, source, vs)
      /\ \A k \in DOMAIN q : k # 1 =>
           VarOf(q[k]) \in source /\ (VarOf(q[k]) \in vs \/ \E j \in DOMAIN t : t[j] = q[k])
      /\ \A v \in source : \E k \in DOMAIN q : k # 1 /\ VarOf(q[k]) = v
  BY DEF Minimized
<1>3. q \in Seq(LitsOf(n)) /\ \A k \in DOMAIN q : Val(o.assigns, q[k]) = LFalse
  <2>1. q \in Seq(LitsOf(n)) /\ Val(o.assigns, q[1]) = LFalse /\ \A k \in 2 .. Len(q) : LowerLit(o, q[k])
    BY DEF LearntRight
  <2>2. \A k \in DOMAIN q : k = 1 \/ k \in 2 .. Len(q)
    BY <2>1
  <2> QED
    BY <2>1, <2>2 DEF LowerLit
<1>4. 0 \in S
  BY <1>1
<1>5. ASSUME NEW k \in Nat, k \in S
      PROVE  k + 1 \in S
  <2>1. SUFFICES ASSUME NEW j \in DOMAIN o.trail, j = k + 1, VarOf(o.trail[j]) \in all
                 PROVE  Truth(m, o.trail[j])
    BY <1>1, <1>5
  <2> DEFINE p == o.trail[j]
             v == VarOf(p)
  <2>2. p \in LitsOf(n) /\ Val(o.assigns, p) = LTrue
    BY <1>1 DEF TrailRight
  <2>3. v \in VarsUpTo(n)
    BY <1>1, <2>2, LitFacts
  <2>4. CASE o.level[v] = 0
    BY <2>2, <2>4 DEF Fine, RootHolds
  <2>5. CASE o.level[v] # 0 /\ v \in vs
    <3> DEFINE cr == o.reason[v]
               lits == o.ca.at[cr].lits
               u == Tail(lits)
    <3>1. cr # CRefUndef /\ \A l \in Range(u) : o.level[VarOf(l)] = 0 \/ VarOf(l) \in all
      BY <1>2, <2>5 DEF Justified, Lits
    <3>2. InOrder(j, o.trailLim, o.trail, o.level, o.assigns, cr, o.ca.at)
          /\ (cr # CRefUndef => IsReason(cr, p, o.ca.at))
      BY DEF GoodBut, Reasons
    <3>3. AllFalse(lits, j, o.trail, o.level, o.assigns)
      <4>1. o.level[v] \in Nat /\ o.level[v] # 0
        BY Zenon, <1>1, <2>3, <2>5
      <4>2. o.level[v] > 0
        BY <4>1
      <4> QED
        BY Zenon, <3>1, <3>2, <4>2 DEF InOrder
    <3>4. LongLits(lits, n)
      BY Zenon, <1>1, <3>1, <3>2 DEF IsReason, Clauses, IsClause
    <3>5. ReasonOf(o, o.trail[j]) = cr /\ Lits(o, cr) = lits
      BY DEF ReasonOf, Lits
    <3> HIDE DEF lits, cr
    <3>6. lits \in Seq(LitsOf(n)) /\ Len(lits) \in Nat /\ Len(lits) >= 1 /\ DOMAIN lits = 1 .. Len(lits)
      <4>1. lits \in Seq(LitsOf(n)) /\ Len(lits) >= 2
        BY <3>4 DEF LongLits
      <4>2. Len(lits) \in Nat /\ DOMAIN lits = 1 .. Len(lits)
        BY <4>1
      <4> QED
        BY <4>1, <4>2
    <3>7. Follows1(u, lits) /\ u \in Seq(LitsOf(n))
      BY <3>6, TailFacts
    <3> HIDE DEF u
    <3>8. ASSUME NEW x \in DOMAIN u
          PROVE  ~Truth(m, u[x])
      <4>1. x + 1 \in 2 .. Len(lits) /\ u[x] = lits[x + 1] /\ u[x] \in LitsOf(n)
        <5>1. x + 1 \in DOMAIN lits /\ u[x] = lits[x + 1] /\ x \in 1 .. Len(lits) - 1
          BY <3>7 DEF Follows1
        <5> QED
          BY <3>6, <3>7, <5>1
      <4>2. FalseBefore(u[x], j, o.trail, o.level, o.assigns)
        BY <3>3, <4>1 DEF AllFalse
      <4>3. Val(o.assigns, u[x]) = LFalse
        BY <4>2 DEF FalseBefore
      <4>4. CASE o.level[VarOf(u[x])] = 0
        BY <4>1, <4>3, <4>4, RootFalse DEF Fine
      <4>5. CASE o.level[VarOf(u[x])] # 0
        <5>1. PICK y \in 1 .. j - 1 : o.trail[y] = Neg(u[x])
          BY <4>2, <4>5 DEF FalseBefore
        <5>2. VarOf(Neg(u[x])) = VarOf(u[x])
          BY <1>1, <4>1, LitFacts
        <5>3. u[x] \in Range(u)
          BY DEF Range
        <5>4. VarOf(o.trail[y]) \in all
          BY <3>1, <4>5, <5>1, <5>2, <5>3
        <5>5. y \in DOMAIN o.trail /\ y <= k
          BY <1>1, <2>1
        <5>6. Truth(m, o.trail[y])
          BY <1>5, <5>4, <5>5
        <5> QED
          BY <1>1, <4>1, <5>1, <5>6, TruthFacts
      <4> QED
        BY <4>4, <4>5
    <3>9. ASSUME ~Truth(m, p)
          PROVE  FALSE
      <4>1. Tail(Lits(o, ReasonOf(o, o.trail[j]))) = u
        BY <3>5 DEF u
      <4>2. \E x \in DOMAIN u : Truth(m, u[x])
        BY <3>1, <3>5, <3>9, <4>1, ReasonBlames
      <4> QED
        BY <3>8, <4>2
    <3> QED
      BY <3>9
  <2>6. CASE v \notin vs
    <3>1. PICK x \in DOMAIN q : x # 1 /\ VarOf(q[x]) = v
      BY <1>2, <2>1, <2>6
    <3>2. PICK y \in DOMAIN t : t[y] = q[x]
      BY <1>2, <2>6, <3>1
    <3>3. ~Truth(m, q[x])
      BY <3>2 DEF SomeTrue
    <3>4. q[x] \in LitsOf(n) /\ Val(o.assigns, q[x]) = LFalse
      BY <1>3
    <3>5. q[x] = p \/ q[x] = Neg(p)
      BY <1>1, <2>2, <3>1, <3>4, SameVar
    <3>6. q[x] = Neg(p)
      BY <2>2, <3>4, <3>5 DEF LTrue, LFalse
    <3> QED
      BY <1>1, <2>2, <3>3, <3>6, TruthFacts
  <2> QED
    BY <2>4, <2>5, <2>6
<1>6. i \in S
  <2> HIDE DEF S
  <2>1. Nat \subseteq S
    BY <1>4, <1>5, InductionOn
  <2> QED
    BY <1>1, <2>1
<1> QED
  BY <1>1, <1>6

\* The minimized clause follows as the clause does.
LEMMA MinimizeFollows ==
    ASSUME NEW o, GoodBut(o, TRUE), NEW m, Fine(o, m), NEW q, LearntRight(o, q), SomeTrue(m, q)
    PROVE  SomeTrue(m, Minimize(o, q))
<1> DEFINE t == Minimize(o, q)
           source == VarsOf(Tail(q))
           n == o.nextVar
<1>1. PICK vs : Minimized(o, q, t, source, vs)
  BY MinimizeDrops
<1>2. SUFFICES ASSUME ~SomeTrue(m, t) PROVE FALSE
  OBVIOUS
<1> HIDE DEF t, source
<1>3. PICK k \in DOMAIN q : Truth(m, q[k])
  BY DEF SomeTrue
<1>4. k # 1
  BY <1>1, <1>2, <1>3 DEF Minimized, SomeTrue
<1>5. VarOf(q[k]) \in source \union vs
  BY <1>1, <1>4 DEF Minimized
<1>6. LowerLit(o, q[k])
  <2>1. q \in Seq(LitsOf(n)) /\ \A x \in 2 .. Len(q) : LowerLit(o, q[x])
    BY DEF LearntRight
  <2>2. k \in 2 .. Len(q)
    BY <1>4, <2>1
  <2> QED
    BY <2>1, <2>2
<1>7. q[k] \in LitsOf(n) /\ Val(o.assigns, q[k]) = LFalse /\ o.level[VarOf(q[k])] > 0
  BY <1>6 DEF LowerLit
<1>8. PICK i \in DOMAIN o.trail : VarOf(o.trail[i]) = VarOf(q[k])
  BY <1>7, FalseOnTrail
<1>9. Truth(m, o.trail[i])
  BY <1>1, <1>2, <1>5, <1>8, DroppedFalse
<1>10. /\ o.trail \in Seq(LitsOf(n)) /\ n \in Nat /\ TrailRight(o.trail, o.trailLim, o.assigns, o.level)
  BY KernelTypes
<1>11. o.trail[i] \in LitsOf(n) /\ Val(o.assigns, o.trail[i]) = LTrue
  BY <1>10 DEF TrailRight
<1>12. q[k] = o.trail[i] \/ q[k] = Neg(o.trail[i])
  BY <1>7, <1>8, <1>10, <1>11, SameVar
<1>13. q[k] = Neg(o.trail[i])
  BY <1>7, <1>11, <1>12 DEF LTrue, LFalse
<1> QED
  BY <1>3, <1>9, <1>10, <1>11, <1>13, TruthFacts

\* The clause to learn has the same literals.
LEMMA AssertingFollows ==
    ASSUME NEW o, NEW strict, GoodBut(o, strict), Len(o.trailLim) > 0, NEW m,
           NEW q, LearntRight(o, q), SomeTrue(m, q)
    PROVE  SomeTrue(m, Asserting(o, q).learnt)
<1>1. CASE Len(q) = 1
  <2>1. Asserting(o, q).learnt = q
    BY <1>1 DEF Asserting
  <2> QED
    BY <2>1
<1>2. CASE Len(q) # 1
  <2> DEFINE f == [j \in 2 .. Len(q) |-> LevelOf(o, q[j])]
             top == CHOOSE i \in 2 .. Len(q) : \A j \in 2 .. Len(q) \ {i} :
                      LevelOf(o, q[i]) > LevelOf(o, q[j]) \/ (i < j /\ ~(LevelOf(o, q[j]) > LevelOf(o, q[i])))
             t == Swap(q, 2, top)
  <2>1. Asserting(o, q).learnt = t
    BY <1>2 DEF Asserting
  <2>2. Len(q) \in Nat /\ Len(q) >= 2 /\ DOMAIN q = 1 .. Len(q) /\ LongLits(q, o.nextVar)
    BY <1>2, LearntLong
  <2>3. \A j \in 2 .. Len(q) : LowerLit(o, q[j])
    BY DEF LearntRight
  <2>4. \A j \in 2 .. Len(q) : LevelOf(o, q[j]) \in Nat
    <3>1. TAKE j \in 2 .. Len(q)
    <3>2. q[j] \in LitsOf(o.nextVar)
      BY <2>3 DEF LowerLit
    <3> QED
      BY <3>2, KernelTypes, LitFacts DEF LevelOf
  <2>5. \E i : Topmost(f, Len(q), i)
    <3>1. \A j \in 2 .. Len(q) : f[j] \in Nat
      BY <2>4
    <3> HIDE DEF f
    <3> QED
      BY <2>2, <3>1, TopExists
  <2>6. \E i \in 2 .. Len(q) : \A j \in 2 .. Len(q) \ {i} :
            LevelOf(o, q[i]) > LevelOf(o, q[j]) \/ (i < j /\ ~(LevelOf(o, q[j]) > LevelOf(o, q[i])))
    <3>1. PICK i : Topmost(f, Len(q), i)
      BY <2>5
    <3>2. i \in 2 .. Len(q) /\ \A j \in 2 .. Len(q) \ {i} : f[i] > f[j] \/ (i < j /\ ~(f[j] > f[i]))
      BY <3>1 DEF Topmost
    <3>3. f[i] = LevelOf(o, q[i]) /\ \A j \in 2 .. Len(q) : f[j] = LevelOf(o, q[j])
      BY <3>2
    <3> HIDE DEF f
    <3>4. \A j \in 2 .. Len(q) \ {i} :
            LevelOf(o, q[i]) > LevelOf(o, q[j]) \/ (i < j /\ ~(LevelOf(o, q[j]) > LevelOf(o, q[i])))
      BY <3>2, <3>3
    <3> QED
      BY <3>2, <3>4
  <2>7. top \in 2 .. Len(q)
    BY <2>6
  <2> HIDE DEF top, f
  <2>8. top \in DOMAIN q /\ 2 \in DOMAIN q
    BY <2>2, <2>7
  <2>9. Range(t) = Range(q)
    BY <2>2, <2>8, SwapRange
  <2> HIDE DEF t
  <2>10. SomeTrue(m, t)
    <3>1. PICK k \in DOMAIN q : Truth(m, q[k])
      BY DEF SomeTrue
    <3>2. q[k] \in Range(t)
      BY <2>9, <3>1 DEF Range
    <3>3. PICK j \in DOMAIN t : t[j] = q[k]
      BY <3>2 DEF Range
    <3> QED
      BY <3>1, <3>3 DEF SomeTrue
  <2> QED
    BY <2>1, <2>10
<1> QED
  BY <1>1, <1>2

\* analyze(): every model of the clauses makes a literal of the clause it
\* returns true.
THEOREM AnalyzeFollows ==
    ASSUME NEW o, GoodBut(o, TRUE), NEW cr \in Lives(o), ConflictRight(o, cr), Len(o.trailLim) > 0,
           NEW m, Fine(o, m)
    PROVE  SomeTrue(m, Analyze(o, cr).learnt)
<1> DEFINE q == ResolveToUIP(o, Lits(o, cr))
           d == Minimize(o, q)
<1>1. LearntRight(o, q) /\ SomeTrue(m, q)
  BY ResolveGood, ResolveFollows
<1> HIDE DEF q
<1>2. LearntRight(o, d) /\ SomeTrue(m, d)
  BY <1>1, MinimizeKeeps, MinimizeFollows
<1> HIDE DEF d
<1>3. SomeTrue(m, Asserting(o, d).learnt)
  BY <1>2, AssertingFollows
<1> QED
  BY <1>3 DEF Analyze, q, d

-------------------------------------------------------------------------------
(* What is learnt or stated is stored.                                         *)

\* A list that got a reference has it and those it had.
LEMMA AppendedRange ==
    ASSUME NEW X, NEW q \in Seq(X), NEW x
    PROVE  Range(q) \subseteq Range(Append(q, x)) /\ x \in Range(Append(q, x))
<1>1. q \in Seq(X \union {x}) /\ x \in X \union {x}
  <2>1. X \subseteq X \union {x}
    OBVIOUS
  <2> QED
    BY <2>1, SeqGrows
<1>2. /\ Len(q) \in Nat /\ DOMAIN q = 1 .. Len(q) /\ DOMAIN Append(q, x) = 1 .. Len(q) + 1
      /\ Append(q, x)[Len(q) + 1] = x /\ \A i \in DOMAIN q : Append(q, x)[i] = q[i]
  BY <1>1, Appended
<1> DEFINE u == Append(q, x)
<1>3. DOMAIN q \subseteq DOMAIN u /\ Len(q) + 1 \in DOMAIN u
  BY <1>2
<1> HIDE DEF u
<1>4. \A i \in DOMAIN q : u[i] = q[i] /\ i \in DOMAIN u
  BY <1>2, <1>3 DEF u
<1>5. Range(q) \subseteq Range(u)
  BY <1>4 DEF Range
<1>6. x \in Range(u)
  BY <1>2, <1>3 DEF Range, u
<1> QED
  BY <1>5, <1>6 DEF u

\* A clause that every model satisfies is stored.
LEMMA StoreFine ==
    ASSUME NEW o, NEW strict, GoodBut(o, strict), NEW m, Fine(o, m), NEW lits,
           Holds(m, lits, Range(o.freeVars)), NEW t, IsStored(o, lits, t),
           o.ca.size \in Range(t.clauses) \union Range(t.learnts)
    PROVE  Fine(t, m)
<1> DEFINE sz == o.ca.size
<1>1. PICK c : IsUpdated(o.ca.at, sz, c, t.ca.at) /\ c.lits = lits /\ c.mark = 0
  BY DEF IsStored, IsAlloced
<1>2. /\ t.assigns = o.assigns /\ t.level = o.level /\ t.nextVar = o.nextVar /\ t.freeVars = o.freeVars
  BY DEF IsStored, Same, Fields, StoreFields
<1>3. RootHolds(t, m)
  BY <1>2 DEF Fine, RootHolds
<1>4. sz \notin DOMAIN o.ca.at
  <2>1. sz \in Nat /\ DOMAIN o.ca.at \subseteq 0 .. sz - 1
    BY DEF GoodBut, Region
  <2> HIDE DEF sz
  <2> QED
    BY <2>1
<1>5. Range(o.clauses) \union Range(o.learnts) \subseteq Range(t.clauses) \union Range(t.learnts)
  <2>1. o.clauses \in Seq(DOMAIN o.ca.at) /\ o.learnts \in Seq(DOMAIN o.ca.at)
    BY DEF GoodBut
  <2>2. Range(o.clauses) \subseteq Range(Append(o.clauses, sz))
        /\ Range(o.learnts) \subseteq Range(Append(o.learnts, sz))
    BY <2>1, AppendedRange
  <2>3. /\ t.clauses = o.clauses \/ t.clauses = Append(o.clauses, sz)
        /\ t.learnts = o.learnts \/ t.learnts = Append(o.learnts, sz)
    BY DEF IsStored
  <2> QED
    BY <2>2, <2>3
<1> HIDE DEF sz
<1>6. ASSUME NEW cr \in Lives(t)
      PROVE  cr \in Range(t.clauses) \union Range(t.learnts) /\ Holds(m, t.ca.at[cr].lits, Range(t.freeVars))
  <2>1. cr \in DOMAIN t.ca.at /\ t.ca.at[cr].mark # 1
    BY DEF Lives
  <2>2. CASE cr = sz
    BY <1>1, <1>2, <2>2 DEF IsUpdated, sz
  <2>3. CASE cr # sz
    <3>1. cr \in DOMAIN o.ca.at /\ t.ca.at[cr] = o.ca.at[cr]
      BY <1>1, <2>1, <2>3 DEF IsUpdated
    <3>2. cr \in Lives(o)
      BY <2>1, <3>1 DEF Lives
    <3>3. cr \in Range(o.clauses) \union Range(o.learnts) /\ Holds(m, o.ca.at[cr].lits, Range(o.freeVars))
      BY <3>2 DEF Fine, AllListed, LiveHolds
    <3> QED
      BY <1>2, <1>5, <3>1, <3>3
  <2> QED
    BY <2>2, <2>3
<1>7. AllListed(t) /\ LiveHolds(t, m)
  BY <1>6 DEF AllListed, LiveHolds
<1> QED
  BY <1>3, <1>7 DEF Fine

\* A learnt clause is stored at the end of the region.
LEMMA LearntIsStored ==
    ASSUME NEW t, GoodBut(t, TRUE), NEW lits, Len(lits) \in Nat
    PROVE  IsStored(t, lits, LearntStored(t, lits)) /\ t.ca.size \in Range(LearntStored(t, lits).learnts)
           /\ IsObject(LearntStored(t, lits))
<1> DEFINE v == LearntStored(t, lits)
           ca == AllocClause(t.ca, lits, TRUE)
           cs == Append(t.learnts, t.ca.size)
<1>1. IsObject(t) /\ IsRegion(t.ca) /\ t.ca.size \in Nat /\ t.learnts \in Seq(DOMAIN t.ca.at)
  BY DEF GoodBut, Region
<1>2. IsAlloced(t.ca, lits, ca)
  BY <1>1, AllocFields
<1>3. v = [t EXCEPT !.ca = ca, !.learnts = cs]
  BY DEF LearntStored
<1>4. t.ca.size \in Range(cs)
  BY <1>1, AppendedRange
<1> HIDE DEF ca, cs, v
<1>5. IsObject(v) /\ v.ca = ca /\ v.learnts = cs /\ v.clauses = t.clauses /\ Same(t, v, StoreFields)
  BY <1>1, <1>3 DEF IsObject, Fields, Same, StoreFields
<1>6. IsStored(t, lits, v)
  BY <1>2, <1>5 DEF IsStored, cs
<1> QED
  BY <1>4, <1>5, <1>6 DEF v

\* What analyze() returns, and that every model satisfies it, can be learnt.
LEMMA LearnFine ==
    ASSUME NEW o, Good(o, TRUE), NEW m, Fine(o, m), NEW a, AssertingRight(o, a), SomeTrue(m, a.learnt)
    PROVE  Fine(Learn(o, a), m)
<1> DEFINE n == o.nextVar
           q == a.learnt
           t == CancelUntil(o, a.btlevel)
           p == q[1]
           cr == t.ca.size
           w == LearntStored(t, q)
           x == AttachClause(w, cr)
           one == UncheckedEnqueue(t, p, CRefUndef)
           long == UncheckedEnqueue(x, p, cr)
<1>1. /\ GoodBut(o, TRUE) /\ Watched(o) /\ a.btlevel \in Nat /\ LearntRight(o, q)
      /\ a.btlevel < Len(o.trailLim)
  BY DEF Good, AssertingRight
<1>2. Fine(t, m)
  BY <1>1, CancelFine
<1>3. LearnBack(o, a, t)
  BY <1>1, LearnBackGood
<1> HIDE DEF t
<1>4. /\ GoodBut(t, TRUE) /\ Watched(t) /\ Len(t.trailLim) = a.btlevel
      /\ IsCancelled(o, a.btlevel, o.trailLim[a.btlevel + 1], t)
  BY <1>1, <1>3 DEF LearnBack, CancelGoodTo
<1>5. t.nextVar = n /\ t.freeVars = o.freeVars
  BY <1>4 DEF IsCancelled, Same, Fields, CancelFields
<1>6. q \in Seq(LitsOf(n)) /\ Len(q) >= 1 /\ p \in LitsOf(n)
  <2>1. q \in Seq(LitsOf(n)) /\ Len(q) >= 1
    BY <1>1 DEF LearntRight
  <2>2. 1 \in DOMAIN q
    BY <2>1
  <2> QED
    BY <2>1, <2>2
<1>7. CASE Len(q) = 1
  <2>1. Truth(m, p)
    <3>1. PICK k \in DOMAIN q : Truth(m, q[k])
      BY DEF SomeTrue
    <3>2. k = 1
      BY <1>6, <1>7, <3>1
    <3> QED
      BY <3>1, <3>2
  <2> HIDE DEF p
  <2>2. Fine(one, m)
    BY <1>2, <1>4, <1>5, <1>6, <2>1, EnqueueFine
  <2>3. IsObject(one)
    BY <1>4, Enqueued DEF GoodBut, IsEnqueued
  <2> HIDE DEF one
  <2>4. Fine(Adjust(one), m)
    <3>1. Same(one, Adjust(one), {"adjustCnt", "adjustConfl", "maxLearnts"})
      BY <2>3, AdjustTouches
    <3>2. {"adjustCnt", "adjustConfl", "maxLearnts"} \intersect FineFields = {}
      BY DEF FineFields
    <3> QED
      BY <2>2, <3>1, <3>2, FineSame
  <2> QED
    BY <1>7, <2>4 DEF Learn, one, t, p
<1>8. CASE Len(q) # 1
  <2>1. LongLits(q, n) /\ Len(q) \in Nat /\ Len(q) >= 2 /\ DOMAIN q = 1 .. Len(q)
    BY <1>1, <1>8, LearntLong
  <2>2. Holds(m, q, Range(t.freeVars))
    <3>1. PICK k \in DOMAIN q : Truth(m, q[k])
      BY DEF SomeTrue
    <3>2. q[k] \in LitsOf(n) /\ Val(o.assigns, q[k]) = LFalse /\ o.level[VarOf(q[k])] > 0
      <4>1. CASE k = 1
        <5>1. Val(o.assigns, q[1]) = LFalse /\ o.level[VarOf(q[1])] = Len(o.trailLim)
          BY <1>1 DEF LearntRight
        <5>2. Len(o.trailLim) > 0
          <6>1. Len(o.trailLim) \in Nat
            BY <1>1, KernelTypes
          <6> QED
            BY <1>1, <6>1
        <5> QED
          BY <1>6, <4>1, <5>1, <5>2
      <4>2. CASE k # 1
        <5>1. k \in 2 .. Len(q)
          BY <2>1, <3>1, <4>2
        <5>2. LowerLit(o, q[k])
          BY <1>1, <5>1 DEF LearntRight
        <5> QED
          BY <5>2 DEF LowerLit
      <4> QED
        BY <4>1, <4>2
    <3>3. OnTrail(o.trail, VarOf(q[k]))
      BY <1>1, <3>2, FalseOnTrail DEF OnTrail
    <3>4. VarOf(q[k]) \notin Range(o.freeVars)
      BY <1>1, <3>3 DEF GoodBut, Free, Range
    <3> QED
      BY <1>5, <3>1, <3>4 DEF Holds
  <2>3. IsStored(t, q, w) /\ cr \in Range(w.learnts) /\ IsObject(w)
    BY <1>4, <2>1, LearntIsStored
  <2>4. Fine(w, m)
    BY <1>2, <1>4, <2>2, <2>3, StoreFine
  <2>5. Good(x, TRUE) /\ Same(t, x, StoreFields \union AttachFields)
    <3>1. Good(t, TRUE) /\ LongLits(q, t.nextVar)
      BY <1>4, <1>5, <2>1 DEF Good
    <3>2. LearntAttached(o, t, x)
      BY <3>1, LearnAttach
    <3> QED
      BY <3>2 DEF LearntAttached
  <2>6. Fine(x, m)
    <3>1. Same(w, x, AttachFields)
      BY <2>3, AttachedFields DEF IsAttached
    <3>2. AttachFields \intersect FineFields = {}
      BY DEF AttachFields, FineFields
    <3> QED
      BY <2>4, <3>1, <3>2, FineSame
  <2>7. x.nextVar = n /\ x.trailLim = t.trailLim
    BY <1>5, <2>5 DEF Same, Fields, StoreFields, AttachFields
  <2>8. Len(x.trailLim) # 0
    <3>1. a.btlevel > 0
      BY <1>8 DEF AssertingRight
    <3> QED
      BY <1>1, <1>4, <2>7, <3>1
  <2>9. GoodBut(x, TRUE)
    BY <2>5 DEF Good
  <2> HIDE DEF x, p, cr
  <2>10. Fine(long, m)
    BY <1>6, <2>6, <2>7, <2>8, <2>9, EnqueueFine
  <2>11. IsObject(long)
    BY <2>9, Enqueued DEF GoodBut, IsEnqueued
  <2> HIDE DEF long
  <2>12. Fine(Adjust(long), m)
    <3>1. Same(long, Adjust(long), {"adjustCnt", "adjustConfl", "maxLearnts"})
      BY <2>11, AdjustTouches
    <3>2. {"adjustCnt", "adjustConfl", "maxLearnts"} \intersect FineFields = {}
      BY DEF FineFields
    <3> QED
      BY <2>10, <3>1, <3>2, FineSame
  <2>13. Learn(o, a) = Adjust(long)
    <3>1. Len(q) # 1
      BY <1>8
    <3> HIDE DEF q
    <3> QED
      BY <3>1 DEF Learn, LearntStored, long, x, w, t, p, cr, q
  <2> QED
    BY <2>12, <2>13
<1> QED
  BY <1>7, <1>8

\* An object whose other fields were touched is as fine.
LEMMA TouchFine ==
    ASSUME NEW o, NEW m, Fine(o, m), NEW t, IsTouched(o, t)
    PROVE  Fine(t, m)
<1>1. TouchFields \intersect FineFields = {}
  BY DEF TouchFields, FineFields
<1> QED
  BY <1>1, FineSame DEF IsTouched

\* At the root an assigned literal is as m says.
LEMMA RootTruth ==
    ASSUME NEW o, NEW strict, GoodBut(o, strict), o.trailLim = <<>>, NEW m, Fine(o, m),
           NEW p \in LitsOf(o.nextVar)
    PROVE  /\ Val(o.assigns, p) = LTrue => Truth(m, p)
           /\ Val(o.assigns, p) = LFalse => ~Truth(m, p)
<1>1. o.nextVar \in Nat /\ o.assigns \in [VarsUpTo(o.nextVar) -> Lbools]
  BY KernelTypes
<1>2. ASSUME Val(o.assigns, p) # LUndef
      PROVE  o.level[VarOf(p)] = 0
  <2>1. VarOf(p) \in VarsUpTo(o.nextVar) /\ o.assigns[VarOf(p)] # LUndef
    BY <1>1, <1>2, LitFacts, ValFacts
  <2> QED
    BY <2>1, RootLevels
<1>3. ASSUME Val(o.assigns, p) = LTrue
      PROVE  Truth(m, p)
  <2>1. o.level[VarOf(p)] = 0
    BY <1>2, <1>3 DEF LTrue, LUndef
  <2> QED
    BY <1>3, <2>1 DEF Fine, RootHolds
<1>4. ASSUME Val(o.assigns, p) = LFalse
      PROVE  ~Truth(m, p)
  <2>1. o.level[VarOf(p)] = 0
    BY <1>2, <1>4 DEF LFalse, LUndef
  <2> QED
    BY <1>4, <2>1, RootFalse DEF Fine
<1> QED
  BY <1>3, <1>4

\* A fact that m agrees with is asserted without a conflict.
LEMMA AssertUnitFine ==
    ASSUME NEW o, NEW strict, Idling(o, strict), NEW m, Fine(o, m), NEW p \in LitsOf(o.nextVar),
           Val(o.assigns, p) = LUndef, Truth(m, p)
    PROVE  Fine(AssertUnit(o, p), m) /\ AssertUnit(o, p).ok
<1> DEFINE e == UncheckedEnqueue(o, p, CRefUndef)
           r == Propagate(e)
           b == (r.confl = CRefUndef)
           t == [r.s EXCEPT !.ok = b]
<1>1. Good(o, strict) /\ o.trailLim = <<>> /\ Propagated(o)
  BY DEF Idling, AtRoot
<1>2. GoodBut(o, strict) /\ IsObject(o) /\ Watched(o) /\ o.trail \in Seq(LitsOf(o.nextVar))
  BY <1>1, KernelTypes DEF Good, GoodBut
<1>3. Enqueueable(o, p, CRefUndef, strict)
  <2>1. ~(Len(o.trailLim) > 0) /\ CRefUndef \in Refs
    BY <1>1 DEF CRefUndef, Refs
  <2> QED
    BY <2>1 DEF Enqueueable, MayFollow
<1>4. Good(e, strict)
  BY <1>2, <1>3, EnqueueGood DEF Good
<1>5. IsEnqueued(o, p, CRefUndef, e)
  BY <1>2, Enqueued
<1>6. Fine(e, m)
  BY <1>2, EnqueueFine
<1> HIDE DEF e
<1>7. e.trail = Append(o.trail, p) /\ Same(o, e, EnqueueFields)
  BY <1>5 DEF IsEnqueued
<1>8. e.trailLim = <<>> /\ e.qhead = o.qhead
  BY <1>1, <1>7 DEF Same, Fields, EnqueueFields
<1>9. LevelQueued(e)
  <2>1. Len(e.trail) = Len(o.trail) + 1 /\ Len(o.trail) \in Nat
    BY <1>2, <1>7
  <2>2. DOMAIN e.trailLim = {}
    BY <1>8
  <2> QED
    BY <1>1, <1>8, <2>1, <2>2 DEF LevelQueued, Propagated
<1>10. Propagates(e, r, strict) /\ FineWith(r.s, r.confl, m)
  BY <1>4, <1>6, <1>9, PropagateGood, PropagateFine
<1> HIDE DEF r
<1>11. GoodBut(r.s, strict) /\ IsObject(r.s) /\ Same(e, r.s, PropFields) /\ Fine(r.s, m)
       /\ (r.confl # CRefUndef => ConflictRight(r.s, r.confl))
  BY <1>10 DEF Propagates, Good, GoodBut, FineWith
<1>12. r.s.trailLim = <<>>
  BY <1>8, <1>11 DEF Same, Fields, PropFields, VisitFields
<1>13. r.confl = CRefUndef
  <2>1. Len(r.s.trailLim) = 0
    BY <1>12
  <2> QED
    BY <1>10, <1>11, <2>1, NoRootConflict
<1> HIDE DEF b
<1>14. t.ok = b /\ Same(r.s, t, OnlyOk)
  BY <1>11 DEF IsObject, Fields, Same, OnlyOk
<1>15. AssertUnit(o, p) = t
  BY DEF AssertUnit, OkUnlessConflict, e, r, b
<1> HIDE DEF t
<1>16. OnlyOk \intersect FineFields = {}
  BY DEF OnlyOk, FineFields
<1>17. Fine(t, m)
  BY <1>11, <1>14, <1>16, FineSame
<1> QED
  BY <1>13, <1>14, <1>15, <1>17 DEF b

\* A literal that is not false stays in the clause.
LEMMA PrunedHas ==
    ASSUME NEW o, o.nextVar \in Nat, NEW ps, NEW k \in DOMAIN ps, ps[k] \in LitsOf(o.nextVar),
           Value(o, ps[k]) # LFalse
    PROVE  ps[k] \in Range(Pruned(o, ps))
<1> DEFINE n == o.nextVar
           S == {p \in ToSet(ps) : Value(o, p) # LFalse}
           keys == Keys(2 * n)
           lits == Only(keys, S)
           p == ps[k]
<1>1. p \in S
  BY DEF ToSet
<1>2. p \in Nat /\ p + 1 \in 1 .. 2 * n /\ (p + 1) - 1 = p
  BY DEF LitsOf
<1> HIDE DEF p
<1>3. keys \in Seq(Int) /\ DOMAIN keys = 1 .. 2 * n /\ keys[p + 1] = p
  <2>1. 2 * n \in Nat
    OBVIOUS
  <2>2. keys = [i \in 1 .. 2 * n |-> i - 1]
    BY DEF Keys
  <2>3. \A i \in 1 .. 2 * n : i - 1 \in Int
    OBVIOUS
  <2> HIDE DEF keys
  <2> QED
    BY <1>2, <2>1, <2>2, <2>3
<1>4. Pruned(o, ps) = lits
  BY DEF Pruned
<1> HIDE DEF keys, S
<1>5. Range(lits) = Range(keys) \intersect S
  BY <1>3, OnlyLeft DEF LeftOf
<1>6. p \in Range(keys)
  BY <1>2, <1>3 DEF Range
<1> QED
  BY <1>1, <1>4, <1>5, <1>6 DEF p

\* A stated clause is stored at the end of the region.
LEMMA StatedIsStored ==
    ASSUME NEW o, NEW strict, GoodBut(o, strict), NEW lits, Len(lits) \in Nat
    PROVE  IsStored(o, lits, StoredAs(o, lits)) /\ o.ca.size \in Range(StoredAs(o, lits).clauses)
           /\ IsObject(StoredAs(o, lits))
<1> DEFINE t == StoredAs(o, lits)
           ca == AllocClause(o.ca, lits, FALSE)
           cs == Append(o.clauses, o.ca.size)
<1>1. IsObject(o) /\ IsRegion(o.ca) /\ o.ca.size \in Nat /\ o.clauses \in Seq(DOMAIN o.ca.at)
  BY DEF GoodBut, Region
<1>2. IsAlloced(o.ca, lits, ca)
  BY <1>1, AllocFields
<1>3. t = [o EXCEPT !.ca = ca, !.clauses = cs]
  BY DEF StoredAs
<1>4. o.ca.size \in Range(cs)
  BY <1>1, AppendedRange
<1> HIDE DEF ca, cs, t
<1>5. IsObject(t) /\ t.ca = ca /\ t.clauses = cs /\ t.learnts = o.learnts /\ Same(o, t, StoreFields)
  BY <1>1, <1>3 DEF IsObject, Fields, Same, StoreFields
<1>6. IsStored(o, lits, t)
  BY <1>2, <1>5 DEF IsStored, cs
<1> QED
  BY <1>4, <1>5, <1>6 DEF t

\* addClause() of a clause that m satisfies keeps what follows, and does not give up ok.
THEOREM AddClauseFine ==
    ASSUME NEW o, NEW strict, Idling(o, strict), o.ok, NEW m, Fine(o, m),
           NEW ps \in Seq(LitsOf(o.nextVar)), SomeTrue(m, ps)
    PROVE  Fine(CoreAddClause(o, ps), m) /\ CoreAddClause(o, ps).ok
<1> DEFINE n == o.nextVar
           lits == Pruned(o, ps)
<1>1. Good(o, strict) /\ o.trailLim = <<>> /\ GoodBut(o, strict)
  BY DEF Idling, AtRoot, Good
<1>2. n \in Nat /\ o.assigns \in [VarsUpTo(n) -> Lbools] /\ IsObject(o)
  BY <1>1, KernelTypes DEF GoodBut
<1>3. CASE TriviallyTrue(o, ps)
  BY <1>3 DEF CoreAddClause
<1>4. CASE ~TriviallyTrue(o, ps)
  <2>1. CoreAddClause(o, ps) = AddPruned(o, lits)
    BY <1>4 DEF CoreAddClause
  <2>2. PrunedTo(o, lits)
    BY <1>1, <1>4, PrunedFacts
  <2>3. PICK k \in DOMAIN ps : Truth(m, ps[k])
    BY DEF SomeTrue
  <2>4. ps[k] \in LitsOf(n)
    BY <2>3
  <2>5. Val(o.assigns, ps[k]) # LFalse
    BY <1>1, <2>3, <2>4, RootTruth
  <2>6. ps[k] \in Range(lits)
    BY <1>2, <2>4, <2>5, PrunedHas DEF Value, Val
  <2> HIDE DEF lits
  <2>7. PICK i \in DOMAIN lits : lits[i] = ps[k]
    BY <2>6 DEF Range
  <2>8. lits \in Seq(LitsOf(n)) /\ Distinct(lits) /\ Len(lits) \in Nat /\ DOMAIN lits = 1 .. Len(lits)
        /\ (\A j \in DOMAIN lits : Val(o.assigns, lits[j]) = LUndef)
    BY <2>2 DEF PrunedTo
  <2>9. Len(lits) # 0
    <3> DEFINE x == Len(lits)
    <3>1. i \in 1 .. x
      BY <2>7, <2>8
    <3> HIDE DEF x
    <3>2. x # 0
      BY <3>1
    <3> QED
      BY <3>2 DEF x
  <2>10. CASE Len(lits) = 1
    <3>1. AddPruned(o, lits) = AssertUnit(o, lits[1])
      BY <2>10 DEF AddPruned
    <3>2. i = 1
      BY <2>7, <2>8, <2>10
    <3>3. Truth(m, lits[1]) /\ lits[1] \in LitsOf(n) /\ Val(o.assigns, lits[1]) = LUndef
      BY <2>3, <2>4, <2>7, <2>8, <3>2
    <3> QED
      BY <2>1, <3>1, <3>3, AssertUnitFine
  <2>11. CASE Len(lits) # 1
    <3> DEFINE t == StoredAs(o, lits)
               u == AttachClause(t, o.ca.size)
    <3>1. AddPruned(o, lits) = u
      BY <2>9, <2>11 DEF AddPruned, StoredAs
    <3>2. IsStored(o, lits, t) /\ o.ca.size \in Range(t.clauses) /\ IsObject(t)
      BY <1>1, <2>8, StatedIsStored
    <3> HIDE DEF t
    <3>3. Holds(m, lits, Range(o.freeVars))
      <4>1. lits[i] \in LitsOf(n) /\ Val(o.assigns, lits[i]) = LUndef
        BY <2>4, <2>7, <2>8
      <4>2. o.assigns[VarOf(lits[i])] = LUndef
        BY <1>2, <4>1, ValFacts
      <4>3. VarOf(lits[i]) \notin Range(o.freeVars)
        BY <1>1, <4>2 DEF GoodBut, Free, Range
      <4> QED
        BY <2>3, <2>7, <4>3 DEF Holds
    <3>4. Fine(t, m)
      BY <1>1, <3>2, <3>3, StoreFine
    <3>5. Same(t, u, AttachFields)
      BY <3>2, AttachedFields DEF IsAttached
    <3> HIDE DEF u
    <3>6. AttachFields \intersect FineFields = {}
      BY DEF AttachFields, FineFields
    <3>7. Fine(u, m)
      BY <3>4, <3>5, <3>6, FineSame
    <3>8. t.ok = o.ok
      BY <3>2 DEF IsStored, Same, Fields, StoreFields
    <3>9. u.ok = t.ok
      BY <3>5 DEF Same, Fields, AttachFields
    <3> QED
      BY <2>1, <3>1, <3>7, <3>8, <3>9
  <2> QED
    BY <2>10, <2>11
<1> QED
  BY <1>3, <1>4

\* releaseVar() of a literal that m agrees with, if it is open.
LEMMA ReleaseFine ==
    ASSUME NEW o, NEW strict, Idling(o, strict), o.ok, NEW m, Fine(o, m), NEW p \in LitsOf(o.nextVar),
           Value(o, p) = LUndef => Truth(m, p)
    PROVE  Fine(CoreReleaseVar(o, p), m) /\ CoreReleaseVar(o, p).ok
<1> DEFINE c == CoreAddClause(o, <<p>>)
           t == [c EXCEPT !.releasedVars = Append(@, VarOf(p))]
<1>1. CASE Value(o, p) # LUndef
  BY <1>1 DEF CoreReleaseVar
<1>2. CASE Value(o, p) = LUndef
  <2>1. <<p>> \in Seq(LitsOf(o.nextVar))
    OBVIOUS
  <2>2. SomeTrue(m, <<p>>)
    <3>1. 1 \in DOMAIN <<p>> /\ <<p>>[1] = p
      OBVIOUS
    <3> QED
      BY <1>2, <3>1 DEF SomeTrue
  <2>3. Fine(c, m) /\ c.ok
    BY <2>1, <2>2, AddClauseFine
  <2>4. IsObject(c)
    BY <2>1, AddClauseGood DEF AddedTo, Idling, AtRoot, Good, GoodBut
  <2> HIDE DEF c
  <2>5. Same(c, t, OnlyReleased) /\ t.ok = c.ok
    <3> DEFINE rel == Append(c.releasedVars, VarOf(p))
    <3>1. t = [c EXCEPT !.releasedVars = rel]
      OBVIOUS
    <3> HIDE DEF rel, t
    <3> QED
      BY <2>4, <3>1 DEF IsObject, Fields, Same, OnlyReleased
  <2>6. OnlyReleased \intersect FineFields = {}
    BY DEF OnlyReleased, FineFields
  <2>7. CoreReleaseVar(o, p) = t
    BY <1>2 DEF CoreReleaseVar, c
  <2> HIDE DEF t
  <2> QED
    BY <2>3, <2>5, <2>6, <2>7, FineSame
<1> QED
  BY <1>1, <1>2

\* The levels of the assumptions that hold.
LEMMA SkipFine ==
    ASSUME NEW o, Good(o, TRUE), Propagated(o), Len(o.assumptions) \in Nat, NEW m, Fine(o, m)
    PROVE  Fine(SkipHolding(o), m)
<1>1. Same(o, SkipHolding(o), OnlyLimits)
  BY SkipGood DEF SkippedGood
<1>2. OnlyLimits \intersect FineFields = {}
  BY DEF OnlyLimits, FineFields
<1> QED
  BY <1>1, <1>2, FineSame

\* A decision is above the root.
LEMMA DecideFine ==
    ASSUME NEW o, GoodBut(o, TRUE), NEW m, Fine(o, m), NEW p \in LitsOf(o.nextVar)
    PROVE  Fine(Decide(o, p), m)
<1> DEFINE t == NewDecisionLevel(o)
<1>1. IsObject(o) /\ o.trailLim \in Seq(Nat)
  BY KernelTypes DEF GoodBut
<1>2. Fine(t, m)
  BY <1>1, OpenFine
<1>3. LevelNew(o, t, TRUE)
  BY NewLevelGood
<1> HIDE DEF t
<1>4. GoodBut(t, TRUE) /\ Same(o, t, OnlyLimits) /\ Len(t.trailLim) = Len(o.trailLim) + 1
  BY <1>3 DEF LevelNew, IsOpened
<1>5. t.nextVar = o.nextVar
  BY <1>4 DEF Same, Fields, OnlyLimits
<1>6. Len(t.trailLim) # 0
  BY <1>1, <1>4
<1>7. Fine(UncheckedEnqueue(t, p, CRefUndef), m)
  BY <1>2, <1>4, <1>5, <1>6, EnqueueFine
<1> QED
  BY <1>7 DEF Decide, t

-------------------------------------------------------------------------------
(* The clean-up of the clause database.                                        *)

\* The literals that are not false stay.
KeepsOpen(o, new, old) ==
    \A i \in DOMAIN old : Value(o, old[i]) # LFalse => \E j \in DOMAIN new : new[j] = old[i]

\* A false literal beyond the second is replaced by the last one.
LEMMA TrimStepKeeps ==
    ASSUME NEW o, NEW n, NEW x, NEW old, TrimmedTo(x, old, n), KeepsOpen(o, x.lits, old)
    PROVE  KeepsOpen(o, TrimAt(o, x.lits, x.k).lits, old)
<1> DEFINE q == x.lits
           k == x.k
           c == Len(q)
<1>1. k \in Nat /\ k >= 3 /\ LongLits(q, n)
  BY DEF TrimmedTo, Trimmed
<1>2. q \in Seq(LitsOf(n)) /\ c >= 2 /\ c \in Nat /\ DOMAIN q = 1 .. c
  BY <1>1 DEF LongLits
<1> HIDE DEF q, k, c
<1>3. CASE k > c
  <2>1. TrimAt(o, q, k) = [lits |-> q, k |-> k]
    BY <1>3 DEF TrimAt, c
  <2> QED
    BY <2>1 DEF q, k
<1>4. CASE ~(k > c) /\ Value(o, q[k]) # LFalse
  <2>1. TrimAt(o, q, k) = [lits |-> q, k |-> k + 1]
    BY <1>4 DEF TrimAt, c
  <2> QED
    BY <2>1 DEF q, k
<1>5. CASE ~(k > c) /\ ~(Value(o, q[k]) # LFalse)
  <2> DEFINE e == [q EXCEPT ![k] = Last(q)]
             new == Front(e)
  <2>1. TrimAt(o, q, k).lits = new
    BY <1>5 DEF TrimAt, c
  <2>2. k \in 1 .. c /\ c >= 3 /\ c - 1 \in Nat
    BY <1>1, <1>2, <1>5
  <2>3. Last(q) = q[c] /\ q[c] \in LitsOf(n)
    BY <1>2, <2>2 DEF Last, c
  <2>4. e \in Seq(LitsOf(n)) /\ Len(e) = c /\ DOMAIN e = 1 .. c
        /\ e[k] = q[c] /\ \A j \in 1 .. c : j # k => e[j] = q[j]
    <3>1. DOMAIN e = 1 .. c /\ e[k] = q[c] /\ (\A j \in 1 .. c : j # k => e[j] = q[j])
          /\ e = [j \in 1 .. c |-> e[j]]
      BY <1>2, <2>2, <2>3
    <3>2. \A j \in 1 .. c : e[j] \in LitsOf(n)
      BY <1>2, <2>3, <3>1
    <3> HIDE DEF e
    <3>3. e \in Seq(LitsOf(n))
      BY <1>2, <3>1, <3>2
    <3>4. Len(e) = c
      BY <1>2, <3>1, <3>3
    <3> QED
      BY <3>1, <3>3, <3>4
  <2> HIDE DEF e
  <2>5. DOMAIN new = 1 .. c - 1 /\ \A j \in 1 .. c - 1 : new[j] = e[j]
    <3> DEFINE r == c - 1
    <3>1. r \in 0 .. Len(e) /\ new = SubSeq(e, 1, r) /\ e \in Seq(LitsOf(n))
      BY <2>2, <2>4 DEF Front
    <3> HIDE DEF r, new
    <3>2. DOMAIN new = 1 .. r /\ \A j \in 1 .. r : new[j] = e[j]
      BY <3>1, Prefix
    <3> QED
      BY <3>2 DEF r
  <2> HIDE DEF new
  <2>6. ASSUME NEW i \in DOMAIN old, Value(o, old[i]) # LFalse
        PROVE  \E j \in DOMAIN new : new[j] = old[i]
    <3>1. PICK j \in DOMAIN q : q[j] = old[i]
      BY <2>6 DEF KeepsOpen, q
    <3>2. j \in 1 .. c /\ j # k
      BY <1>2, <1>5, <2>6, <3>1
    <3>3. CASE j = c
      <4>1. k \in 1 .. c - 1 /\ k \in 1 .. c
        BY <1>2, <2>2, <3>2, <3>3
      <4>2. new[k] = q[c] /\ k \in DOMAIN new
        BY <2>4, <2>5, <4>1
      <4> QED
        BY <3>1, <3>3, <4>2
    <3>4. CASE j # c
      <4>1. j \in 1 .. c - 1
        BY <1>2, <3>2, <3>4
      <4>2. new[j] = q[j] /\ j \in DOMAIN new
        BY <2>4, <2>5, <3>2, <4>1
      <4> QED
        BY <3>1, <4>2
    <3> QED
      BY <3>3, <3>4
  <2>7. KeepsOpen(o, new, old)
    BY <2>6 DEF KeepsOpen
  <2> QED
    BY <2>1, <2>7 DEF q, k
<1> QED
  BY <1>3, <1>4, <1>5

\* Trimming drops false literals only.
LEMMA TrimHas ==
    ASSUME NEW o, NEW n, NEW lits, LongLits(lits, n)
    PROVE  KeepsOpen(o, Trim(o, lits), lits) /\ Range(Trim(o, lits)) \subseteq Range(lits)
<1>1. Len(lits) \in Nat /\ DOMAIN lits = 1 .. Len(lits) /\ Len(lits) >= 2
  BY DEF LongLits
<1>2. PICK g : TrimRun(g, o, lits) /\ Trim(o, lits) = g[Len(lits)].lits
  BY <1>1, TrimRuns
<1> DEFINE S == {i \in Nat : i <= Len(lits) => TrimmedTo(g[i], lits, n) /\ KeepsOpen(o, g[i].lits, lits)}
<1>3. 0 \in S
  <2>1. g[0] = [lits |-> lits, k |-> 3]
    BY <1>2 DEF TrimRun
  <2>2. TrimmedTo([lits |-> lits, k |-> 3], lits, n)
    BY DEF TrimmedTo, Trimmed, LongLits
  <2>3. KeepsOpen(o, lits, lits)
    BY DEF KeepsOpen
  <2> QED
    BY <2>1, <2>2, <2>3
<1>4. ASSUME NEW i \in Nat, i \in S
      PROVE  i + 1 \in S
  <2> SUFFICES ASSUME i + 1 <= Len(lits)
               PROVE  TrimmedTo(g[i + 1], lits, n) /\ KeepsOpen(o, g[i + 1].lits, lits)
    OBVIOUS
  <2>1. i + 1 \in 1 .. Len(lits) /\ (i + 1) - 1 = i /\ i <= Len(lits)
    BY <1>1
  <2> DEFINE y == g[i]
  <2>2. g[i + 1] = TrimAt(o, y.lits, y.k)
    BY <1>2, <2>1 DEF TrimRun
  <2>3. TrimmedTo(y, lits, n) /\ KeepsOpen(o, y.lits, lits)
    BY <1>4, <2>1
  <2> HIDE DEF y
  <2>4. TrimmedTo(TrimAt(o, y.lits, y.k), lits, n) /\ KeepsOpen(o, TrimAt(o, y.lits, y.k).lits, lits)
    BY <2>3, TrimStep, TrimStepKeeps
  <2> QED
    BY <2>2, <2>4
<1>5. Len(lits) \in S
  <2> HIDE DEF S
  <2>1. Nat \subseteq S
    BY <1>3, <1>4, InductionOn
  <2> QED
    BY <1>1, <2>1
<1>6. KeepsOpen(o, Trim(o, lits), lits)
  BY <1>1, <1>2, <1>5
<1> DEFINE new == Trim(o, lits)
<1>7. Trimmed(new, lits, n)
  BY TrimKeeps
<1> HIDE DEF new, S
<1>8. /\ new[1] = lits[1] /\ DOMAIN new = 1 .. Len(new) /\ Len(new) \in Nat
      /\ \A j \in 2 .. Len(new) : \E k \in 2 .. Len(lits) : new[j] = lits[k]
  BY <1>7 DEF Trimmed, LongLits
<1>9. ASSUME NEW j \in DOMAIN new
      PROVE  \E k \in DOMAIN lits : new[j] = lits[k]
  <2>1. CASE j = 1
    <3>1. 1 \in DOMAIN lits
      BY <1>1
    <3> QED
      BY <1>8, <2>1, <3>1
  <2>2. CASE j # 1
    <3>1. j \in 2 .. Len(new)
      BY <1>8, <2>2
    <3>2. PICK k \in 2 .. Len(lits) : new[j] = lits[k]
      BY <1>8, <3>1
    <3>3. k \in DOMAIN lits
      BY <1>1
    <3> QED
      BY <3>2, <3>3
  <2> QED
    BY <2>1, <2>2
<1>10. Range(new) \subseteq Range(lits)
  BY <1>9 DEF Range
<1> QED
  BY <1>6, <1>10 DEF new

\* The live clauses of t were clauses of o, with all of their literals.
Thinned(o, t) ==
    \A cr \in Lives(t) : cr \in Lives(o) /\ Range(t.ca.at[cr].lits) \subseteq Range(o.ca.at[cr].lits)

\* Thinned twice.
LEMMA ThinnedTwice ==
    ASSUME NEW o, NEW t, NEW u, Thinned(o, t), Thinned(t, u)
    PROVE  Thinned(o, u)
<1> SUFFICES ASSUME NEW cr \in Lives(u)
             PROVE  cr \in Lives(o) /\ Range(u.ca.at[cr].lits) \subseteq Range(o.ca.at[cr].lits)
  BY DEF Thinned
<1>1. cr \in Lives(t) /\ Range(u.ca.at[cr].lits) \subseteq Range(t.ca.at[cr].lits)
  BY DEF Thinned
<1>2. cr \in Lives(o) /\ Range(t.ca.at[cr].lits) \subseteq Range(o.ca.at[cr].lits)
  BY <1>1 DEF Thinned
<1> QED
  BY <1>1, <1>2

\* A clause with fewer literals is not satisfied if it was not.
LEMMA StillOpen ==
    ASSUME NEW o, NEW t, t.assigns = o.assigns, NEW q, NEW r, Range(q) \subseteq Range(r), ~Satisfied(o, r)
    PROVE  ~Satisfied(t, q)
<1> SUFFICES ASSUME NEW i \in DOMAIN q, Value(t, q[i]) = LTrue PROVE FALSE
  BY DEF Satisfied
<1>1. q[i] \in Range(q)
  BY DEF Range
<1>2. q[i] \in Range(r)
  BY <1>1
<1>3. PICK j \in DOMAIN r : r[j] = q[i]
  BY <1>2 DEF Range
<1>4. Value(o, r[j]) = LTrue
  BY <1>3 DEF Value
<1> QED
  BY <1>4 DEF Satisfied

\* A clause is removed.
LEMMA RemoveFine ==
    ASSUME NEW o, NEW m, Fine(o, m), NEW cr \in DOMAIN o.ca.at, NEW n, Clauses(o.ca.at, n),
           NEW t, ClauseRemoved(o, cr, t)
    PROVE  Fine(t, m) /\ Thinned(o, t) /\ cr \notin Lives(t) /\ t.assigns = o.assigns
<1>1. /\ t.clauses = o.clauses /\ t.learnts = o.learnts /\ t.assigns = o.assigns /\ t.level = o.level
      /\ t.nextVar = o.nextVar /\ t.freeVars = o.freeVars /\ t.ca.at = Marked(o.ca.at, cr)
  BY DEF ClauseRemoved, Same, Fields, RemoveFields
<1>2. DOMAIN t.ca.at = DOMAIN o.ca.at /\ \A k \in DOMAIN o.ca.at : k # cr => t.ca.at[k] = o.ca.at[k]
  BY <1>1 DEF Marked
<1>3. t.ca.at[cr].mark = 1
  BY <1>1 DEF Marked, Clauses, IsClause
<1>4. \A k \in Lives(t) : k \in Lives(o) /\ t.ca.at[k] = o.ca.at[k]
  BY <1>2, <1>3 DEF Lives
<1>5. cr \notin Lives(t)
  BY <1>3 DEF Lives
<1>6. Thinned(o, t)
  BY <1>4 DEF Thinned
<1>7. RootHolds(t, m)
  BY <1>1 DEF Fine, RootHolds
<1>8. AllListed(t) /\ LiveHolds(t, m)
  BY <1>1, <1>4 DEF Fine, AllListed, LiveHolds
<1> QED
  BY <1>1, <1>5, <1>6, <1>7, <1>8 DEF Fine

\* A clause is trimmed at the root.
LEMMA TrimFine ==
    ASSUME NEW o, NEW strict, GoodBut(o, strict), o.trailLim = <<>>, NEW m, Fine(o, m),
           NEW cr \in DOMAIN o.ca.at, NEW t, IsPut(o, cr, Trim(o, o.ca.at[cr].lits), t)
    PROVE  /\ Fine(t, m) /\ Thinned(o, t) /\ t.assigns = o.assigns
           /\ Range(t.ca.at[cr].lits) \subseteq Range(o.ca.at[cr].lits)
<1> DEFINE n == o.nextVar
           old == o.ca.at[cr].lits
           new == Trim(o, old)
<1>1. LongLits(old, n) /\ Clauses(o.ca.at, n)
  BY DEF GoodBut, Region, Clauses, IsClause
<1>2. KeepsOpen(o, new, old) /\ Range(new) \subseteq Range(old)
  BY <1>1, TrimHas
<1>3. /\ t.clauses = o.clauses /\ t.learnts = o.learnts /\ t.assigns = o.assigns /\ t.level = o.level
      /\ t.nextVar = n /\ t.freeVars = o.freeVars
      /\ t.ca.at = [o.ca.at EXCEPT ![cr] = [o.ca.at[cr] EXCEPT !.lits = new]]
  BY DEF IsPut, Same, Fields, OnlyCa
<1> HIDE DEF new
<1>4. DOMAIN t.ca.at = DOMAIN o.ca.at /\ \A k \in DOMAIN o.ca.at : k # cr => t.ca.at[k] = o.ca.at[k]
  BY <1>3
<1>5. t.ca.at[cr].mark = o.ca.at[cr].mark /\ t.ca.at[cr].lits = new
  BY <1>1, <1>3 DEF Clauses, IsClause
<1>6. \A k \in Lives(t) : k \in Lives(o)
  BY <1>4, <1>5 DEF Lives
<1>7. Thinned(o, t)
  BY <1>2, <1>4, <1>5, <1>6 DEF Thinned, Lives
<1>8. RootHolds(t, m)
  BY <1>3 DEF Fine, RootHolds
<1>9. AllListed(t)
  BY <1>3, <1>6 DEF Fine, AllListed
<1>10. ASSUME NEW k \in Lives(t)
       PROVE  Holds(m, t.ca.at[k].lits, Range(t.freeVars))
  <2>1. Holds(m, o.ca.at[k].lits, Range(o.freeVars)) /\ k \in DOMAIN o.ca.at
    BY <1>6 DEF Fine, LiveHolds, Lives
  <2>2. CASE k # cr
    BY <1>3, <1>4, <2>1, <2>2
  <2>3. CASE k = cr
    <3>1. PICK i \in DOMAIN old : Truth(m, old[i]) /\ VarOf(old[i]) \notin Range(o.freeVars)
      BY <2>1, <2>3 DEF Holds
    <3>2. old[i] \in LitsOf(n)
      BY <1>1, <3>1 DEF LongLits
    <3>3. Val(o.assigns, old[i]) # LFalse
      BY <3>1, <3>2, RootTruth
    <3> HIDE DEF old
    <3>4. PICK j \in DOMAIN new : new[j] = old[i]
      BY <1>2, <3>1, <3>3 DEF KeepsOpen, Value, Val
    <3>5. Holds(m, new, Range(o.freeVars))
      BY <3>1, <3>4 DEF Holds
    <3> QED
      BY <1>3, <1>5, <2>3, <3>5
  <2> QED
    BY <2>2, <2>3
<1>11. LiveHolds(t, m)
  BY <1>10 DEF LiveHolds
<1> QED
  BY <1>2, <1>3, <1>5, <1>7, <1>8, <1>9, <1>11 DEF Fine

\* Clause cr is gone, or listed in kept and not satisfied.
LeftOpen(t, kept, cr) ==
    cr \in Lives(t) => cr \in Range(kept) /\ ~Satisfied(t, t.ca.at[cr].lits)

\* i clauses of the list were looked at.
SatisfiedTo(a, o, cs, i, m) ==
    /\ Fine(a.s, m) /\ Thinned(o, a.s)
    /\ \A j \in 1 .. i : LeftOpen(a.s, a.kept, cs[j])

\* One clause is removed, or trimmed and kept.
LEMMA SatisfiedStepFine ==
    ASSUME NEW o, o.trailLim = <<>>, NEW strict, NEW a, SatisfiedGone(a, o, strict), NEW cs,
           NEW i \in Nat, cs[i + 1] \in DOMAIN o.ca.at, NEW m, SatisfiedTo(a, o, cs, i, m)
    PROVE  SatisfiedTo(RemoveIfSatisfied(a, cs[i + 1]), o, cs, i + 1, m)
<1> DEFINE x == a.s
           cr == cs[i + 1]
           b == RemoveIfSatisfied(a, cr)
<1>1. /\ Good(x, strict) /\ Same(o, x, RemoveFields) /\ DOMAIN x.ca.at = DOMAIN o.ca.at
      /\ a.kept \in Seq(DOMAIN o.ca.at)
  BY DEF SatisfiedGone
<1>2. x.trailLim = <<>> /\ cr \in DOMAIN x.ca.at /\ GoodBut(x, strict) /\ Clauses(x.ca.at, x.nextVar)
  BY <1>1 DEF Same, Fields, RemoveFields, Good, GoodBut, Region
<1>3. Fine(x, m) /\ Thinned(o, x) /\ \A j \in 1 .. i : LeftOpen(x, a.kept, cs[j])
  BY DEF SatisfiedTo
<1>4. SUFFICES /\ Fine(b.s, m) /\ Thinned(x, b.s) /\ b.s.assigns = x.assigns
               /\ Range(a.kept) \subseteq Range(b.kept) /\ LeftOpen(b.s, b.kept, cr)
  <2> DEFINE t == b.s
  <2>1. /\ Fine(t, m) /\ Thinned(x, t) /\ t.assigns = x.assigns
        /\ Range(a.kept) \subseteq Range(b.kept) /\ LeftOpen(t, b.kept, cr)
    BY <1>4
  <2> HIDE DEF t, b, x
  <2>2. Thinned(o, t)
    BY <1>3, <2>1, ThinnedTwice
  <2>3. ASSUME NEW j \in 1 .. i + 1
        PROVE  LeftOpen(t, b.kept, cs[j])
    <3>1. CASE j = i + 1
      BY <2>1, <3>1
    <3>2. CASE j # i + 1
      <4> DEFINE k == cs[j]
      <4>1. LeftOpen(x, a.kept, k)
        <5>1. j \in 1 .. i
          BY <3>2
        <5> QED
          BY <1>3, <5>1
      <4> HIDE DEF k
      <4> SUFFICES ASSUME k \in Lives(t)
                   PROVE  k \in Range(b.kept) /\ ~Satisfied(t, t.ca.at[k].lits)
        BY DEF LeftOpen, k
      <4>2. k \in Lives(x) /\ Range(t.ca.at[k].lits) \subseteq Range(x.ca.at[k].lits)
        BY <2>1 DEF Thinned
      <4>3. k \in Range(a.kept) /\ ~Satisfied(x, x.ca.at[k].lits)
        BY <4>1, <4>2 DEF LeftOpen
      <4>4. ~Satisfied(t, t.ca.at[k].lits)
        <5>1. t.assigns = x.assigns
          BY <2>1
        <5> DEFINE q == t.ca.at[k].lits
                   old == x.ca.at[k].lits
        <5>2. Range(q) \subseteq Range(old) /\ ~Satisfied(x, old)
          BY <4>2, <4>3
        <5> HIDE DEF q, old
        <5>3. ~Satisfied(t, q)
          BY Zenon, <5>1, <5>2, StillOpen
        <5> QED
          BY <5>3 DEF q
      <4> QED
        BY <2>1, <4>3, <4>4
    <3> QED
      BY <3>1, <3>2
  <2>4. SatisfiedTo(b, o, cs, i + 1, m)
    BY <2>1, <2>2, <2>3 DEF SatisfiedTo, t
  <2> QED
    BY <2>4 DEF b
<1>5. CASE Satisfied(x, Lits(x, cr))
  <2> DEFINE t == RemoveClause(x, cr)
  <2>1. b = [s |-> t, kept |-> a.kept]
    BY <1>5 DEF RemoveIfSatisfied
  <2>2. MayRemove(x, cr, strict)
    BY <1>2 DEF MayRemove
  <2>3. t = RemoveClause(x, cr)
    OBVIOUS
  <2> HIDE DEF t, x, cr
  <2>4. ClauseRemoved(x, cr, t)
    BY <1>1, <2>2, <2>3, RemoveGood
  <2>5. Fine(t, m) /\ Thinned(x, t) /\ cr \notin Lives(t) /\ t.assigns = x.assigns
    BY <1>2, <1>3, <2>4, RemoveFine
  <2>6. LeftOpen(t, a.kept, cr)
    BY <2>5 DEF LeftOpen
  <2> QED
    BY <2>1, <2>5, <2>6
<1>6. CASE ~Satisfied(x, Lits(x, cr))
  <2> DEFINE lits == Trim(x, x.ca.at[cr].lits)
             t == Put(x, cr, lits)
             kept == Append(a.kept, cr)
  <2>1. b = [s |-> t, kept |-> kept]
    BY <1>6 DEF RemoveIfSatisfied, Put, Lits
  <2>2. IsPut(x, cr, lits, t)
    <3>1. IsObject(x) /\ IsRegion(x.ca)
      BY <1>2 DEF GoodBut, Region
    <3>2. IsClause(x.ca.at[cr], x.nextVar)
      BY <1>2 DEF Clauses
    <3> HIDE DEF lits, x, cr
    <3> QED
      BY <1>2, <3>1, <3>2, PutFields
  <2>3. Range(a.kept) \subseteq Range(kept) /\ cr \in Range(kept)
    BY <1>1, AppendedRange
  <2> HIDE DEF t, kept
  <2>4. /\ Fine(t, m) /\ Thinned(x, t) /\ t.assigns = x.assigns
        /\ Range(t.ca.at[cr].lits) \subseteq Range(x.ca.at[cr].lits)
    BY <1>2, <1>3, <2>2, TrimFine
  <2>5. ~Satisfied(x, x.ca.at[cr].lits)
    BY <1>6 DEF Lits
  <2> HIDE DEF x, cr
  <2>6. ~Satisfied(t, t.ca.at[cr].lits)
    BY <2>4, <2>5, StillOpen
  <2>7. LeftOpen(t, kept, cr)
    BY <2>3, <2>6 DEF LeftOpen
  <2> QED
    BY <2>1, <2>3, <2>4, <2>7
<1> QED
  BY <1>5, <1>6

\* removeSatisfied() keeps what follows; the clauses of the list that are left are
\* not satisfied.
LEMMA RemoveSatisfiedFine ==
    ASSUME NEW o, NEW strict, Good(o, strict), o.trailLim = <<>>, NEW cs \in Seq(DOMAIN o.ca.at),
           NEW m, Fine(o, m)
    PROVE  SatisfiedTo(RemoveSatisfied(o, cs), o, cs, Len(cs), m)
<1>1. Len(cs) \in Nat /\ \A i \in 1 .. Len(cs) : cs[i] \in DOMAIN o.ca.at
  OBVIOUS
<1>2. PICK g : SatisfiedRun(g, o, cs) /\ RemoveSatisfied(o, cs) = g[Len(cs)]
  BY <1>1, RemoveSatisfiedRuns
<1> DEFINE S == {i \in Nat : i <= Len(cs) => SatisfiedGone(g[i], o, strict) /\ SatisfiedTo(g[i], o, cs, i, m)}
<1>3. 0 \in S
  <2> DEFINE y == [s |-> o, kept |-> <<>>]
  <2>1. g[0] = y
    BY <1>2 DEF SatisfiedRun
  <2>2. SatisfiedGone(y, o, strict)
    BY DEF SatisfiedGone, Same
  <2>3. SatisfiedTo(y, o, cs, 0, m)
    <3>1. y.s = o
      OBVIOUS
    <3>2. Thinned(o, o)
      BY DEF Thinned
    <3> HIDE DEF y
    <3> QED
      BY <3>1, <3>2 DEF SatisfiedTo
  <2> QED
    BY <2>1, <2>2, <2>3
<1>4. ASSUME NEW i \in Nat, i \in S
      PROVE  i + 1 \in S
  <2> SUFFICES ASSUME i + 1 <= Len(cs)
               PROVE  SatisfiedGone(g[i + 1], o, strict) /\ SatisfiedTo(g[i + 1], o, cs, i + 1, m)
    OBVIOUS
  <2>1. i + 1 \in 1 .. Len(cs) /\ (i + 1) - 1 = i /\ i <= Len(cs)
    BY <1>1
  <2> DEFINE y == g[i]
  <2>2. g[i + 1] = RemoveIfSatisfied(y, cs[i + 1])
    BY <1>2, <2>1 DEF SatisfiedRun
  <2>3. SatisfiedGone(y, o, strict) /\ SatisfiedTo(y, o, cs, i, m)
    BY <1>4, <2>1
  <2>4. cs[i + 1] \in DOMAIN o.ca.at
    BY <1>1, <2>1
  <2> HIDE DEF y
  <2>5. SatisfiedGone(RemoveIfSatisfied(y, cs[i + 1]), o, strict)
        /\ SatisfiedTo(RemoveIfSatisfied(y, cs[i + 1]), o, cs, i + 1, m)
    BY <2>3, <2>4, SatisfiedStep, SatisfiedStepFine
  <2> QED
    BY <2>2, <2>5
<1>5. Len(cs) \in S
  <2> HIDE DEF S
  <2>1. Nat \subseteq S
    BY <1>3, <1>4, InductionOn
  <2> QED
    BY <1>1, <2>1
<1> QED
  BY <1>1, <1>2, <1>5

\* A live learnt clause is not satisfied.
LearntsOpen(t) ==
    \A cr \in Lives(t) :
        cr \in Range(t.clauses) \/ (cr \in Range(t.learnts) /\ ~Satisfied(t, t.ca.at[cr].lits))

\* The learnt clauses that are left.
LEMMA WithLearntsFine ==
    ASSUME NEW o, NEW strict, Good(o, strict), o.trailLim = <<>>, NEW m, Fine(o, m)
    PROVE  Fine(WithLearnts(RemoveSatisfied(o, o.learnts)), m)
           /\ LearntsOpen(WithLearnts(RemoveSatisfied(o, o.learnts)))
<1> DEFINE a == RemoveSatisfied(o, o.learnts)
           t == WithLearnts(a)
<1>1. o.learnts \in Seq(DOMAIN o.ca.at)
  BY DEF Good, GoodBut
<1>2. SatisfiedGone(a, o, strict) /\ SatisfiedTo(a, o, o.learnts, Len(o.learnts), m)
  BY <1>1, RemoveSatisfiedGood, RemoveSatisfiedFine
<1> HIDE DEF a
<1>3. Good(a.s, strict) /\ Same(o, a.s, RemoveFields) /\ Fine(a.s, m) /\ IsObject(a.s)
  BY <1>2 DEF SatisfiedGone, SatisfiedTo, Good, GoodBut
<1>4. a.s.learnts = o.learnts
  BY <1>3 DEF Same, Fields, RemoveFields
<1>5. ASSUME NEW cr \in Lives(a.s), cr \in Range(o.learnts)
      PROVE  cr \in Range(a.kept) /\ ~Satisfied(a.s, a.s.ca.at[cr].lits)
  <2>1. PICK j \in DOMAIN o.learnts : o.learnts[j] = cr
    BY <1>5 DEF Range
  <2>2. j \in 1 .. Len(o.learnts)
    BY <1>1, <2>1
  <2> QED
    BY <1>2, <1>5, <2>1, <2>2 DEF SatisfiedTo, LeftOpen
<1>6. /\ t.learnts = a.kept /\ t.clauses = a.s.clauses /\ t.ca = a.s.ca /\ t.assigns = a.s.assigns
      /\ t.level = a.s.level /\ t.nextVar = a.s.nextVar /\ t.freeVars = a.s.freeVars
  BY <1>3 DEF WithLearnts, IsObject, Fields
<1> HIDE DEF t
<1>7. Lives(t) = Lives(a.s) /\ RootHolds(t, m) /\ LiveHolds(t, m)
  BY <1>3, <1>6 DEF Fine, Lives, RootHolds, LiveHolds
<1>8. ASSUME NEW cr \in Lives(t)
      PROVE  cr \in Range(t.clauses)
             \/ (cr \in Range(t.learnts) /\ ~Satisfied(t, t.ca.at[cr].lits))
  <2>1. cr \in Range(a.s.clauses) \/ cr \in Range(o.learnts)
    BY Zenon, <1>3, <1>4, <1>7 DEF Fine, AllListed
  <2>2. Satisfied(t, t.ca.at[cr].lits) => Satisfied(a.s, a.s.ca.at[cr].lits)
    BY Zenon, <1>6 DEF Satisfied, Value
  <2> QED
    BY <1>5, <1>6, <1>7, <2>1, <2>2
<1>9. LearntsOpen(t) /\ AllListed(t)
  BY <1>8 DEF LearntsOpen, AllListed
<1>10. Fine(t, m)
  BY <1>7, <1>9 DEF Fine
<1> QED
  BY <1>9, <1>10 DEF t, a

\* No live clause is satisfied.
AllOpen(t) == \A cr \in Lives(t) : ~Satisfied(t, t.ca.at[cr].lits)

\* The original clauses that are left.
LEMMA WithClausesFine ==
    ASSUME NEW o, NEW strict, Good(o, strict), o.trailLim = <<>>, NEW m, Fine(o, m), LearntsOpen(o)
    PROVE  Fine(WithClauses(RemoveSatisfied(o, o.clauses)), m)
           /\ AllOpen(WithClauses(RemoveSatisfied(o, o.clauses)))
<1> DEFINE a == RemoveSatisfied(o, o.clauses)
           t == WithClauses(a)
<1>1. o.clauses \in Seq(DOMAIN o.ca.at)
  BY DEF Good, GoodBut
<1>2. SatisfiedGone(a, o, strict) /\ SatisfiedTo(a, o, o.clauses, Len(o.clauses), m)
  BY <1>1, RemoveSatisfiedGood, RemoveSatisfiedFine
<1> HIDE DEF a
<1>3. Good(a.s, strict) /\ Same(o, a.s, RemoveFields) /\ Fine(a.s, m) /\ IsObject(a.s) /\ Thinned(o, a.s)
  BY <1>2 DEF SatisfiedGone, SatisfiedTo, Good, GoodBut
<1>4. a.s.clauses = o.clauses /\ a.s.learnts = o.learnts /\ a.s.assigns = o.assigns
  BY <1>3 DEF Same, Fields, RemoveFields
<1>5. ASSUME NEW cr \in Lives(a.s), cr \in Range(o.clauses)
      PROVE  cr \in Range(a.kept) /\ ~Satisfied(a.s, a.s.ca.at[cr].lits)
  <2>1. PICK j \in DOMAIN o.clauses : o.clauses[j] = cr
    BY <1>5 DEF Range
  <2>2. j \in 1 .. Len(o.clauses)
    BY <1>1, <2>1
  <2> QED
    BY <1>2, <1>5, <2>1, <2>2 DEF SatisfiedTo, LeftOpen
<1>6. /\ t.clauses = a.kept /\ t.learnts = a.s.learnts /\ t.ca = a.s.ca /\ t.assigns = a.s.assigns
      /\ t.level = a.s.level /\ t.nextVar = a.s.nextVar /\ t.freeVars = a.s.freeVars
  BY <1>3 DEF WithClauses, IsObject, Fields
<1> HIDE DEF t
<1>7. Lives(t) = Lives(a.s) /\ RootHolds(t, m) /\ LiveHolds(t, m)
  BY <1>3, <1>6 DEF Fine, Lives, RootHolds, LiveHolds
<1>8. ASSUME NEW cr \in Lives(t)
      PROVE  /\ cr \in Range(t.clauses) \/ cr \in Range(t.learnts)
             /\ ~Satisfied(t, t.ca.at[cr].lits)
  <2>1. cr \in Range(o.clauses) \/ cr \in Range(o.learnts)
    BY Zenon, <1>3, <1>4, <1>7 DEF Fine, AllListed
  <2>2. Satisfied(t, t.ca.at[cr].lits) => Satisfied(a.s, a.s.ca.at[cr].lits)
    BY <1>6 DEF Satisfied, Value
  <2>3. CASE cr \in Range(o.clauses)
    BY <1>5, <1>6, <1>7, <2>2, <2>3
  <2>4. CASE cr \notin Range(o.clauses)
    <3>1. cr \in Lives(o) /\ Range(a.s.ca.at[cr].lits) \subseteq Range(o.ca.at[cr].lits)
      BY <1>3, <1>7 DEF Thinned
    <3>2. ~Satisfied(o, o.ca.at[cr].lits)
      BY <2>4, <3>1 DEF LearntsOpen
    <3>3. ~Satisfied(a.s, a.s.ca.at[cr].lits)
      <4> DEFINE x == a.s
                 q == x.ca.at[cr].lits
                 r == o.ca.at[cr].lits
      <4>1. x.assigns = o.assigns /\ Range(q) \subseteq Range(r) /\ ~Satisfied(o, r)
        BY <1>4, <3>1, <3>2
      <4> HIDE DEF x, q, r
      <4>2. ~Satisfied(x, q)
        BY <4>1, StillOpen
      <4> QED
        BY <4>2 DEF x, q
    <3>4. ~Satisfied(t, t.ca.at[cr].lits)
      BY <2>2, <3>3
    <3>5. t.learnts = o.learnts
      BY <1>4, <1>6
    <3>6. cr \in Range(t.learnts)
      BY <2>1, <2>4, <3>5
    <3> QED
      BY <3>4, <3>6
  <2> QED
    BY <2>3, <2>4
<1>9. AllOpen(t) /\ AllListed(t)
  BY <1>8 DEF AllOpen, AllListed
<1>10. Fine(t, m)
  BY <1>7, <1>9 DEF Fine
<1> QED
  BY <1>9, <1>10 DEF t, a

\* Released variables occur in satisfied clauses only: they can be free.
LEMMA RecycleFine ==
    ASSUME NEW o, NEW strict, Good(o, strict), o.ok, o.trailLim = <<>>, NEW m, Fine(o, m), AllOpen(o),
           NEW t, IsRecycled(o, t)
    PROVE  Fine(t, m)
<1>1. /\ t.ca = o.ca /\ t.clauses = o.clauses /\ t.learnts = o.learnts /\ t.assigns = o.assigns
      /\ t.level = o.level /\ t.nextVar = o.nextVar /\ t.freeVars = o.freeVars \o o.releasedVars
  BY DEF IsRecycled, Same, Fields, RecycleFields
<1>2. Lives(t) = Lives(o) /\ AllListed(t) /\ RootHolds(t, m)
  BY <1>1 DEF Fine, Lives, AllListed, RootHolds
<1>3. /\ o.freeVars \in Seq(VarsUpTo(o.nextVar)) /\ o.releasedVars \in Seq(VarsUpTo(o.nextVar))
      /\ GoodBut(o, strict) /\ o.nextVar \in Nat
      /\ Released(o.releasedVars, o.freeVars, o.assigns, o.level)
  BY DEF Good, GoodBut, Types
<1>4. ASSUME NEW v \in Range(t.freeVars)
      PROVE  v \in Range(o.freeVars) \/ \E k \in DOMAIN o.releasedVars : o.releasedVars[k] = v
  <2> DEFINE a == o.freeVars
             b == o.releasedVars
  <2>1. Joins(a \o b, a, b)
    BY <1>3, Concatenated
  <2>2. PICK i \in DOMAIN t.freeVars : t.freeVars[i] = v
    BY DEF Range
  <2>3. i \in DOMAIN (a \o b) /\ (a \o b)[i] = v
    BY <1>1, <2>2
  <2> HIDE DEF a, b
  <2>4. (i \in DOMAIN a /\ a[i] = v) \/ \E k \in DOMAIN b : b[k] = v
    BY <2>1, <2>3 DEF Joins
  <2> QED
    BY <2>4 DEF Range, a, b
<1>5. ASSUME NEW cr \in Lives(o)
      PROVE  Holds(m, o.ca.at[cr].lits, Range(t.freeVars))
  <2> DEFINE lits == o.ca.at[cr].lits
  <2>1. PICK i \in DOMAIN lits : Truth(m, lits[i]) /\ VarOf(lits[i]) \notin Range(o.freeVars)
    BY DEF Fine, LiveHolds, Holds
  <2>2. lits \in Seq(LitsOf(o.nextVar))
    BY <1>3, KernelTypes DEF Lives, Clauses, IsClause, LongLits
  <2>3. lits[i] \in LitsOf(o.nextVar)
    BY <2>1, <2>2
  <2>4. ASSUME NEW k \in DOMAIN o.releasedVars, o.releasedVars[k] = VarOf(lits[i])
        PROVE  FALSE
    <3>1. o.assigns[VarOf(lits[i])] # LUndef
      BY <1>3, <2>4 DEF Released
    <3>2. Val(o.assigns, lits[i]) # LFalse
      BY <1>3, <2>1, <2>3, RootTruth DEF Fine
    <3>3. o.assigns \in [VarsUpTo(o.nextVar) -> Lbools] /\ VarOf(lits[i]) \in VarsUpTo(o.nextVar)
      BY <1>3, <2>3, KernelTypes, LitFacts
    <3>4. Val(o.assigns, lits[i]) = LTrue
      <4> DEFINE p == lits[i]
      <4>1. p \in LitsOf(o.nextVar) /\ o.assigns[VarOf(p)] # LUndef /\ Val(o.assigns, p) # LFalse
        BY <2>3, <3>1, <3>2
      <4> HIDE DEF p
      <4>2. Val(o.assigns, p) \in Lbools /\ Val(o.assigns, p) # LUndef
        BY <1>3, <3>3, <4>1, ValFacts
      <4>3. Val(o.assigns, p) = LTrue
        BY <4>1, <4>2 DEF Lbools, LTrue, LFalse, LUndef
      <4> QED
        BY <4>3 DEF p
    <3>5. Satisfied(o, lits)
      BY <2>1, <3>4 DEF Satisfied, Value, Val
    <3> QED
      BY <3>5 DEF AllOpen
  <2> HIDE DEF lits
  <2>5. VarOf(lits[i]) \notin Range(t.freeVars)
    BY <1>4, <2>1, <2>4
  <2>6. Holds(m, lits, Range(t.freeVars))
    BY <2>1, <2>5 DEF Holds
  <2> QED
    BY <2>6 DEF lits
<1>6. LiveHolds(t, m)
  BY <1>1, <1>2, <1>5 DEF LiveHolds
<1> QED
  BY <1>2, <1>6 DEF Fine

\* The clean-up of the clause database keeps what follows.
LEMMA CleanClausesFine ==
    ASSUME NEW o, NEW strict, Idling(o, strict), o.ok, NEW m, Fine(o, m)
    PROVE  Fine(CleanClauses(o), m)
<1> DEFINE t == WithLearnts(RemoveSatisfied(o, o.learnts))
           u == WithClauses(RemoveSatisfied(t, t.clauses))
<1>1. Good(o, strict) /\ o.trailLim = <<>> /\ o.learnts \in Seq(DOMAIN o.ca.at)
  BY DEF Idling, AtRoot, Good, GoodBut
<1>2. SatisfiedGone(RemoveSatisfied(o, o.learnts), o, strict)
  BY <1>1, RemoveSatisfiedGood
<1>3. Cleaned(o, t, strict) /\ Fine(t, m) /\ LearntsOpen(t)
  BY <1>1, <1>2, WithLearntsGood, WithLearntsFine
<1>4. CleanClauses(o) = IF t.removeSatisfied THEN Recycle(u) ELSE t
  BY DEF CleanClauses, CleanOriginals
<1> HIDE DEF t
<1>5. Idling(t, strict) /\ t.ok
  BY <1>3 DEF Cleaned
<1>6. Good(t, strict) /\ t.trailLim = <<>> /\ t.clauses \in Seq(DOMAIN t.ca.at)
  BY <1>5 DEF Idling, AtRoot, Good, GoodBut
<1>7. SatisfiedGone(RemoveSatisfied(t, t.clauses), t, strict)
  BY <1>6, RemoveSatisfiedGood
<1>8. Cleaned(t, u, strict) /\ Fine(u, m) /\ AllOpen(u)
  BY <1>3, <1>5, <1>6, <1>7, WithClausesGood, WithClausesFine
<1> HIDE DEF u
<1>9. Good(u, strict) /\ u.ok /\ u.trailLim = <<>> /\ IsObject(u)
  BY <1>8 DEF Cleaned, Idling, AtRoot, Good, GoodBut
<1> DEFINE w == Recycle(u)
<1>10. IsRecycled(u, w)
  BY <1>9, RecycledFields
<1> HIDE DEF w
<1>11. Fine(w, m)
  BY <1>8, <1>9, <1>10, RecycleFine
<1> QED
  BY <1>3, <1>4, <1>11 DEF w

-------------------------------------------------------------------------------
(* garbageCollect() and reduceDB() keep what follows.                          *)

\* Every clause of the new region was moved there.
Onto(r) == \A k \in DOMAIN r.to.at : \E cr \in DOMAIN r.moved : r.moved[cr] = k

\* An empty region has no clauses.
LEMMA NothingMoved ==
    ASSUME NEW extra
    PROVE  Onto(NoReloc(extra))
<1> DEFINE r == NoReloc(extra)
<1>1. r.to = [at |-> <<>>, size |-> 0, wasted |-> 0, extra |-> extra]
  BY DEF NoReloc, EmptyRegion
<1> HIDE DEF r
<1>2. r.to.at = <<>>
  BY <1>1
<1>3. DOMAIN r.to.at = {}
  BY <1>2
<1>4. Onto(r)
  BY <1>3 DEF Onto
<1> QED
  BY <1>4 DEF r

\* A clause moved is the only one that is new.
LEMMA RelocStepOnto ==
    ASSUME NEW ca, NEW n, Clauses(ca.at, n), NEW r, Relocation(ca.at, r, n), NEW cr \in DOMAIN ca.at,
           Onto(r)
    PROVE  Onto(Reloc(ca, r, cr))
<1>1. CASE cr \in DOMAIN r.moved
  BY <1>1 DEF Reloc
<1>2. CASE cr \notin DOMAIN r.moved
  <2> DEFINE keeps == ca.at[cr].learnt \/ r.to.extra
             abs2 == IF keeps THEN ca.at[cr].abs ELSE {}
             c == [ca.at[cr] EXCEPT !.extra = keeps, !.abs = abs2]
             k == r.to.size
             b == PutClause(r.to, c)
             g == Updated(r.moved, cr, k)
             r2 == [to |-> b, moved |-> g]
  <2>1. Reloc(ca, r, cr) = r2
    BY <1>2 DEF Reloc
  <2>2. IsClause(ca.at[cr], n)
    BY DEF Clauses
  <2> HIDE DEF keeps, abs2
  <2>3. c.lits = ca.at[cr].lits
    BY <2>2 DEF IsClause
  <2>4. Len(c.lits) \in Nat
    BY <2>2, <2>3 DEF IsClause, LongLits
  <2> HIDE DEF c
  <2>5. IsRegion(r.to) /\ r.to.size \in Nat
    BY DEF Relocation, Region
  <2>6. IsPutAt(r.to, c, b)
    BY <2>4, <2>5, PutAtFields
  <2>7. IsUpdated(r.moved, cr, k, g)
    BY UpdatedIs
  <2> HIDE DEF b, g
  <2>8. DOMAIN b.at = DOMAIN r.to.at \union {k}
    BY <2>6 DEF IsPutAt, IsUpdated
  <2>9. /\ DOMAIN g = DOMAIN r.moved \union {cr} /\ g[cr] = k
        /\ \A j \in DOMAIN r.moved : g[j] = r.moved[j]
    BY <1>2, <2>7 DEF IsUpdated
  <2>10. r2.to = b /\ r2.moved = g
    OBVIOUS
  <2> HIDE DEF r2, k
  <2>11. \A h \in DOMAIN b.at : \E j \in DOMAIN g : g[j] = h
    BY <2>8, <2>9 DEF Onto
  <2>12. Onto(r2)
    BY <2>10, <2>11 DEF Onto
  <2> QED
    BY <2>1, <2>12
<1> QED
  BY <1>1, <1>2

\* So it is for a sequence of clauses.
LEMMA RelocAllOnto ==
    ASSUME NEW ca, NEW n, Clauses(ca.at, n), NEW r, Relocation(ca.at, r, n), Onto(r),
           NEW crs \in Seq(DOMAIN ca.at)
    PROVE  Onto(RelocAllOf(ca, r, crs))
<1>1. Len(crs) \in Nat /\ \A i \in 1 .. Len(crs) : crs[i] \in DOMAIN ca.at
  OBVIOUS
<1>2. PICK g : RelocRun(g, ca, r, crs) /\ RelocAllOf(ca, r, crs) = g[Len(crs)]
  BY <1>1, RelocRuns
<1> DEFINE S == {i \in Nat : i <= Len(crs) => Relocation(ca.at, g[i], n) /\ Onto(g[i])}
<1>3. 0 \in S
  <2>1. g[0] = r
    BY <1>2 DEF RelocRun
  <2> QED
    BY <2>1
<1>4. ASSUME NEW i \in Nat, i \in S
      PROVE  i + 1 \in S
  <2> SUFFICES ASSUME i + 1 <= Len(crs) PROVE Relocation(ca.at, g[i + 1], n) /\ Onto(g[i + 1])
    OBVIOUS
  <2>1. i + 1 \in 1 .. Len(crs) /\ (i + 1) - 1 = i /\ i <= Len(crs)
    BY <1>1
  <2> DEFINE y == g[i]
             z == Reloc(ca, y, crs[i + 1])
  <2>2. g[i + 1] = z
    BY <1>2, <2>1 DEF RelocRun
  <2>3. Relocation(ca.at, y, n) /\ Onto(y)
    BY <1>4, <2>1
  <2>4. crs[i + 1] \in DOMAIN ca.at
    BY <1>1, <2>1
  <2> HIDE DEF y
  <2>5. Onto(z) /\ Further(ca.at, y, z, n)
    BY <2>3, <2>4, RelocStep, RelocStepOnto
  <2> HIDE DEF z
  <2> QED
    BY <2>2, <2>5 DEF Further
<1>5. Len(crs) \in S
  <2> HIDE DEF S
  <2>1. Nat \subseteq S
    BY <1>3, <1>4, InductionOn
  <2> QED
    BY <1>1, <2>1
<1> QED
  BY <1>1, <1>2, <1>5

\* The references follow: what the clauses say does not change.
LEMMA FollowFine ==
    ASSUME NEW o, NEW strict, Good(o, strict), NEW m, Fine(o, m), NEW vs, NEW r, MovedFor(o, vs, r),
           Onto(r), NEW t, t = Follow(o, vs, r)
    PROVE  Fine(t, m)
<1>1. IsObject(o) /\ IsOccLists(o.watches, o.nextVar)
  BY DEF Good, GoodBut
<1>2. IsFollowed(o, vs, r, t)
  BY <1>1, FollowedFields
<1>3. /\ t.ca = r.to /\ t.assigns = o.assigns /\ t.level = o.level /\ t.nextVar = o.nextVar
      /\ t.freeVars = o.freeVars
      /\ t.learnts = MovedTo(r, o.learnts) /\ t.clauses = MovedTo(r, o.clauses)
  BY <1>2 DEF IsFollowed, Same, Fields, MoveFields
<1>4. /\ DOMAIN r.moved \subseteq DOMAIN o.ca.at
      /\ \A cr \in DOMAIN r.moved : AsMoved(o.ca.at[cr], r.to.at, r.moved[cr])
  BY DEF MovedFor, Relocation
<1>5. ASSUME NEW k \in Lives(t)
      PROVE  \E cr \in Lives(o) : r.moved[cr] = k /\ t.ca.at[k].lits = o.ca.at[cr].lits
  <2>1. k \in DOMAIN r.to.at /\ t.ca.at[k] = r.to.at[k] /\ r.to.at[k].mark # 1
    BY <1>3 DEF Lives
  <2>2. PICK cr \in DOMAIN r.moved : r.moved[cr] = k
    BY <2>1 DEF Onto
  <2>3. AsMoved(o.ca.at[cr], r.to.at, k) /\ cr \in DOMAIN o.ca.at
    BY <1>4, <2>2
  <2>4. r.to.at[k].lits = o.ca.at[cr].lits /\ r.to.at[k].mark = o.ca.at[cr].mark
    BY <2>3 DEF AsMoved
  <2>5. cr \in Lives(o)
    BY <2>1, <2>3, <2>4 DEF Lives
  <2> QED
    BY <2>1, <2>2, <2>4, <2>5
<1>6. \A q : \A cr \in Range(q) : r.moved[cr] \in Range(MovedTo(r, q))
  <2> TAKE q
  <2> SUFFICES ASSUME NEW i \in DOMAIN q PROVE r.moved[q[i]] \in Range(MovedTo(r, q))
    BY DEF Range
  <2>1. i \in DOMAIN MovedTo(r, q) /\ MovedTo(r, q)[i] = r.moved[q[i]]
    BY DEF MovedTo
  <2> QED
    BY <2>1 DEF Range
<1>7. ASSUME NEW k \in Lives(t)
      PROVE  k \in Range(t.clauses) \/ k \in Range(t.learnts)
  <2>1. PICK cr \in Lives(o) : r.moved[cr] = k
    BY <1>5
  <2>2. cr \in Range(o.clauses) \/ cr \in Range(o.learnts)
    BY DEF Fine, AllListed
  <2> QED
    BY <1>3, <1>6, <2>1, <2>2
<1>8. AllListed(t)
  BY <1>7 DEF AllListed
<1>9. RootHolds(t, m)
  BY <1>3 DEF Fine, RootHolds
<1>10. ASSUME NEW k \in Lives(t)
       PROVE  Holds(m, t.ca.at[k].lits, Range(t.freeVars))
  <2>1. PICK cr \in Lives(o) : t.ca.at[k].lits = o.ca.at[cr].lits
    BY <1>5
  <2>2. Holds(m, o.ca.at[cr].lits, Range(o.freeVars))
    BY DEF Fine, LiveHolds
  <2> QED
    BY <1>3, <2>1, <2>2
<1>11. LiveHolds(t, m)
  BY <1>10 DEF LiveHolds
<1> QED
  BY <1>8, <1>9, <1>11 DEF Fine

\* The lists lose the removed clauses only.
LEMMA LiveListsFine ==
    ASSUME NEW o, NEW strict, Good(o, strict), NEW m, Fine(o, m)
    PROVE  Fine(LiveLists(o), m)
<1> DEFINE l == Live(o, o.learnts)
           c == Live(o, o.clauses)
           t == [o EXCEPT !.learnts = l, !.clauses = c]
<1>1. LiveLists(o) = t
  BY DEF LiveLists
<1>2. IsObject(o) /\ o.learnts \in Seq(DOMAIN o.ca.at) /\ o.clauses \in Seq(DOMAIN o.ca.at)
  BY DEF Good, GoodBut
<1>3. ASSUME NEW q \in Seq(DOMAIN o.ca.at)
      PROVE  \A cr \in Lives(o) : cr \in Range(q) => cr \in Range(Live(o, q))
  <2> DEFINE S == {cr \in ToSet(q) : ~IsRemoved(o, cr)}
  <2>1. LeftOf(Only(q, S), q, S)
    BY OnlyLeft
  <2>2. Range(Only(q, S)) = Range(q) \intersect S
    BY <2>1 DEF LeftOf
  <2>3. \A cr \in Lives(o) : cr \in Range(q) => cr \in S
    BY DEF Lives, IsRemoved, Range, ToSet
  <2> HIDE DEF S
  <2>4. \A cr \in Lives(o) : cr \in Range(q) => cr \in Range(Only(q, S))
    BY <2>2, <2>3
  <2> QED
    BY <2>4 DEF Live, S
<1>4. \A cr \in Lives(o) : cr \in Range(o.learnts) => cr \in Range(l)
  BY <1>2, <1>3
<1>5. \A cr \in Lives(o) : cr \in Range(o.clauses) => cr \in Range(c)
  BY <1>2, <1>3
<1> HIDE DEF l, c
<1>6. /\ t.learnts = l /\ t.clauses = c /\ t.ca = o.ca /\ t.assigns = o.assigns
      /\ t.level = o.level /\ t.nextVar = o.nextVar /\ t.freeVars = o.freeVars
  BY <1>2 DEF IsObject, Fields
<1> HIDE DEF t
<1>7. Lives(t) = Lives(o) /\ RootHolds(t, m) /\ LiveHolds(t, m)
  BY <1>6 DEF Fine, Lives, RootHolds, LiveHolds
<1>8. AllListed(t)
  BY <1>4, <1>5, <1>6, <1>7 DEF Fine, AllListed
<1> QED
  BY <1>1, <1>7, <1>8 DEF Fine

\* garbageCollect() keeps what follows: every live clause is moved, and nothing else.
THEOREM GarbageCollectFine ==
    ASSUME NEW o, NEW strict, Good(o, strict), NEW m, Fine(o, m)
    PROVE  Fine(GarbageCollect(o), m)
<1> DEFINE ws == CleanAll(o.watches, WatcherDeleted(o))
           t == Rewatch(o, ws)
           r0 == NoReloc(o.ca.extra)
           r1 == RelocAllOf(t.ca, r0, Watching(t))
           u == LiveLists(t)
           vs == KeptReasons(t, r1)
           crs == RestReasons(u, vs) \o u.learnts \o u.clauses
           r2 == RelocAllOf(u.ca, r1, crs)
           g == Follow(u, vs, r2)
<1>1. GoodBut(o, strict) /\ Watched(o) /\ IsObject(o) /\ IsOccLists(o.watches, o.nextVar)
      /\ o.useSimp = FALSE
  BY DEF Good, GoodBut, Types
<1>2. GarbageCollect(o) = RelocAll(o, r0)
  BY <1>1 DEF GarbageCollect, SimpRelocAll
<1>3. RelocAll(o, r0) = g
  BY DEF RelocAll, RelocWatched, RelocRest, RestReasons, LiveLists, Rewatch
<1> HIDE DEF g, r2, crs, vs, u, r1, r0
<1>4. AllClean(ws, o.ca.at, o.nextVar)
  <2>1. Lists(o.watches.occs, o.watches.dirty, o.ca.at, o.nextVar)
    BY <1>1 DEF Watched
  <2>2. Deletes(WatcherDeleted(o), o.watches, o.ca.at)
    BY DeletesListed
  <2> QED
    BY <1>1, <2>1, <2>2, CleanAllCleans
<1> HIDE DEF ws
<1>5. IsOccLists(ws, o.nextVar) /\ ws.dirty = {} /\ Lists(ws.occs, {}, o.ca.at, o.nextVar)
  BY <1>4 DEF AllClean
<1>6. GoodBut(t, strict)
  BY <1>1, <1>5, RewatchGood
<1>7. IsObject(t) /\ t.watches = ws /\ Same(o, t, OnlyWatches)
  BY <1>1, RewatchFields
<1> HIDE DEF t
<1>8. t.ca = o.ca /\ t.nextVar = o.nextVar
  BY <1>7 DEF Same, Fields, OnlyWatches
<1>9. Good(t, strict) /\ t.watches.dirty = {}
  BY <1>5, <1>6, <1>7, <1>8 DEF Good, Watched
<1>10. WatchingAll(t, Watching(t))
  BY <1>9, WatchingIsAll
<1>11. Clauses(t.ca.at, t.nextVar)
  BY <1>6, KernelTypes
<1>12. Relocation(t.ca.at, r0, t.nextVar) /\ Onto(r0) /\ Watching(t) \in Seq(DOMAIN t.ca.at)
  <2>1. Relocation(t.ca.at, r0, t.nextVar)
    BY NoRelocation DEF r0
  <2>2. Watching(t) \in Seq(DOMAIN t.ca.at)
    BY <1>10 DEF WatchingAll
  <2>3. Onto(r0)
    BY NothingMoved DEF r0
  <2> QED
    BY <2>1, <2>2, <2>3
<1>13. MovedAll(t.ca.at, r0, Watching(t), r1, t.nextVar) /\ Onto(r1)
  <2>1. MovedAll(t.ca.at, r0, Watching(t), RelocAllOf(t.ca, r0, Watching(t)), t.nextVar)
    BY <1>11, <1>12, RelocAllMoves
  <2>2. Onto(RelocAllOf(t.ca, r0, Watching(t)))
    BY <1>11, <1>12, RelocAllOnto
  <2> QED
    BY <2>1, <2>2 DEF r1
<1>14. Relocation(t.ca.at, r1, t.nextVar)
       /\ \A i \in DOMAIN Watching(t) : Watching(t)[i] \in DOMAIN r1.moved
  BY <1>13 DEF MovedAll, Further
<1>15. \A p \in LitsOf(t.nextVar) : \A i \in DOMAIN t.watches.occs[p] :
          t.watches.occs[p][i].cref \in DOMAIN r1.moved
  BY <1>10, <1>14 DEF WatchingAll, Range
<1>16. Fine(t, m)
  <2>1. OnlyWatches \intersect FineFields = {}
    BY DEF OnlyWatches, FineFields
  <2> QED
    BY <1>7, <2>1, FineSame
<1>17. Good(u, strict) /\ Same(t, u, OnlyLists) /\ Fine(u, m)
  BY <1>9, <1>16, LiveListsGood, LiveListsFine DEF u
<1>18. u.ca = t.ca /\ u.nextVar = t.nextVar /\ u.watches = t.watches /\ u.trail = t.trail
       /\ u.reason = t.reason
  BY <1>17 DEF Same, Fields, OnlyLists
<1>19. vs = ReasonVars(u)
  <2>1. vs = ReasonVars(t)
    BY <1>6, AllReasonsKept DEF vs
  <2> QED
    BY <1>18, <2>1 DEF ReasonVars
<1>20. MovedFor(u, vs, r2)
  <2>1. MovedFor(u, vs, RelocAllOf(u.ca, r1, crs))
    BY <1>14, <1>15, <1>17, <1>18, <1>19, RestMoves DEF crs
  <2> QED
    BY <2>1 DEF r2
<1>21. crs \in Seq(DOMAIN u.ca.at)
  <2>1. u.learnts \in Seq(DOMAIN u.ca.at) /\ u.clauses \in Seq(DOMAIN u.ca.at) /\ GoodBut(u, strict)
    BY <1>17 DEF Good, GoodBut
  <2>2. HaveReasons(u, vs)
    BY <1>19 DEF HaveReasons, ReasonVars, VarsOf
  <2>3. RestReasons(u, vs) \in Seq(DOMAIN u.ca.at)
    BY <2>1, <2>2, RestReasonsAll DEF RestIsAll
  <2> DEFINE a == RestReasons(u, vs)
             b == u.learnts
             c == u.clauses
             X == DOMAIN u.ca.at
  <2>4. crs = (a \o b) \o c /\ a \in Seq(X) /\ b \in Seq(X) /\ c \in Seq(X)
    BY <2>1, <2>3 DEF crs
  <2> HIDE DEF a, b, c, X
  <2>5. crs \in Seq(X)
    BY <2>4
  <2> QED
    BY <2>5 DEF X
<1>22. Onto(r2)
  <2>1. Relocation(u.ca.at, r1, u.nextVar) /\ Clauses(u.ca.at, u.nextVar)
    BY <1>11, <1>14, <1>18
  <2>2. Onto(RelocAllOf(u.ca, r1, crs))
    BY <1>13, <1>21, <2>1, RelocAllOnto
  <2> QED
    BY <2>2 DEF r2
<1>23. Fine(g, m)
  BY <1>17, <1>20, <1>22, FollowFine DEF g
<1> QED
  BY <1>2, <1>3, <1>23

\* checkGarbage() as well.
LEMMA CheckGarbageFine ==
    ASSUME NEW o, NEW strict, Good(o, strict), NEW m, Fine(o, m), NEW gf
    PROVE  Fine(CheckGarbage(o, gf), m)
<1>1. CheckGarbage(o, gf) = o \/ CheckGarbage(o, gf) = GarbageCollect(o)
  BY DEF CheckGarbage
<1> QED
  BY <1>1, GarbageCollectFine

\* The victims among the first i learnt clauses are gone.
GoneTo(x, o, victims, i, m) ==
    /\ Fine(x, m)
    /\ \A j \in 1 .. i : o.learnts[j] \in victims => o.learnts[j] \notin Lives(x)

\* One learnt clause is looked at.
LEMMA VictimStepFine ==
    ASSUME NEW o, NEW strict, NEW victims, Unlocked(o, victims), NEW x, VictimsGone(x, o, strict),
           NEW i \in Nat, NEW m, GoneTo(x, o, victims, i, m)
    PROVE  GoneTo(VictimNext(o, victims, x, i + 1), o, victims, i + 1, m)
<1> DEFINE cr == o.learnts[i + 1]
           t == VictimNext(o, victims, x, i + 1)
<1>1. Good(x, strict) /\ Same(o, x, RemoveFields) /\ x.reason = o.reason /\ DOMAIN x.ca.at = DOMAIN o.ca.at
      /\ \A c \in DOMAIN o.ca.at : x.ca.at[c].lits = o.ca.at[c].lits
  BY DEF VictimsGone
<1>2. Fine(x, m) /\ \A j \in 1 .. i : o.learnts[j] \in victims => o.learnts[j] \notin Lives(x)
  BY DEF GoneTo
<1>3. \A j \in 1 .. i + 1 : j \in 1 .. i \/ j = i + 1
  OBVIOUS
<1>4. CASE cr \notin victims
  <2>1. t = x
    BY <1>4 DEF VictimNext
  <2> QED
    BY <1>2, <1>3, <1>4, <2>1 DEF GoneTo
<1>5. CASE cr \in victims
  <2>1. t = RemoveClause(x, cr)
    BY <1>5 DEF VictimNext
  <2>2. cr \in DOMAIN o.ca.at /\ ~Locked(o, cr)
    BY <1>5 DEF Unlocked
  <2> HIDE DEF cr, t
  <2>3. x.assigns = o.assigns
    BY <1>1 DEF Same, Fields, RemoveFields
  <2>4. ~Locked(x, cr)
    BY <1>1, <2>2, <2>3 DEF Locked, Lits, Value, ReasonOf
  <2>5. MayRemove(x, cr, strict)
    BY <1>1, <2>2, <2>4 DEF MayRemove
  <2>6. ClauseRemoved(x, cr, t)
    BY <1>1, <2>1, <2>5, RemoveGood
  <2>7. Clauses(x.ca.at, x.nextVar) /\ cr \in DOMAIN x.ca.at
    BY <1>1, <2>2, KernelTypes DEF Good
  <2>8. Fine(t, m) /\ Thinned(x, t) /\ cr \notin Lives(t)
    BY <1>2, <2>6, <2>7, RemoveFine
  <2>9. \A j \in 1 .. i + 1 : o.learnts[j] \in victims => o.learnts[j] \notin Lives(t)
    BY <1>2, <1>3, <2>8 DEF Thinned, cr
  <2>10. GoneTo(t, o, victims, i + 1, m)
    BY <2>8, <2>9 DEF GoneTo
  <2> QED
    BY <2>10 DEF t
<1> QED
  BY <1>4, <1>5

\* All victims are removed.
LEMMA RemoveVictimsFine ==
    ASSUME NEW o, NEW strict, Good(o, strict), NEW victims, Unlocked(o, victims), NEW m, Fine(o, m)
    PROVE  GoneTo(RemoveVictims(o, victims), o, victims, Len(o.learnts), m)
<1>1. Len(o.learnts) \in Nat
  BY DEF Good, GoodBut
<1>2. PICK g : VictimsRun(g, o, victims) /\ RemoveVictims(o, victims) = g[Len(o.learnts)]
  BY <1>1, RemoveVictimsRuns
<1> DEFINE S == {i \in Nat : i <= Len(o.learnts) =>
                    VictimsGone(g[i], o, strict) /\ GoneTo(g[i], o, victims, i, m)}
<1>3. 0 \in S
  <2>1. g[0] = o
    BY <1>2 DEF VictimsRun
  <2>2. VictimsGone(o, o, strict)
    BY DEF VictimsGone, Same
  <2>3. GoneTo(o, o, victims, 0, m)
    BY DEF GoneTo
  <2> QED
    BY <2>1, <2>2, <2>3
<1>4. ASSUME NEW i \in Nat, i \in S
      PROVE  i + 1 \in S
  <2> SUFFICES ASSUME i + 1 <= Len(o.learnts)
               PROVE  VictimsGone(g[i + 1], o, strict) /\ GoneTo(g[i + 1], o, victims, i + 1, m)
    OBVIOUS
  <2>1. i + 1 \in 1 .. Len(o.learnts) /\ (i + 1) - 1 = i /\ i <= Len(o.learnts)
    BY <1>1
  <2> DEFINE y == g[i]
             z == VictimNext(o, victims, y, i + 1)
  <2>2. g[i + 1] = z
    BY <1>2, <2>1 DEF VictimsRun
  <2>3. VictimsGone(y, o, strict) /\ GoneTo(y, o, victims, i, m)
    BY <1>4, <2>1
  <2> HIDE DEF y
  <2>4. GoneTo(z, o, victims, i + 1, m)
    BY <2>3, VictimStepFine
  <2>5. VictimsGone(z, o, strict)
    <3> DEFINE cr == o.learnts[i + 1]
    <3>1. CASE cr \in victims
      <4>1. cr \in DOMAIN o.ca.at /\ ~Locked(o, cr)
        BY <3>1 DEF Unlocked
      <4>2. z = RemoveClause(y, cr)
        BY <3>1 DEF VictimNext
      <4> HIDE DEF cr, z
      <4>3. VictimsGone(RemoveClause(y, cr), o, strict)
        BY <2>3, <4>1, VictimStep
      <4> QED
        BY <4>2, <4>3
    <3>2. CASE cr \notin victims
      BY <2>3, <3>2 DEF VictimNext
    <3> QED
      BY <3>1, <3>2
  <2> QED
    BY <2>2, <2>4, <2>5
<1>5. Len(o.learnts) \in S
  <2> HIDE DEF S
  <2>1. Nat \subseteq S
    BY <1>3, <1>4, InductionOn
  <2> QED
    BY <1>1, <2>1
<1> QED
  BY <1>1, <1>2, <1>5

\* reduceDB() keeps what follows.
LEMMA ReduceFine ==
    ASSUME NEW o, NEW strict, Good(o, strict), NEW victims, Unlocked(o, victims), NEW m, Fine(o, m)
    PROVE  Fine(ReduceDB(o, victims), m)
<1> DEFINE a == RemoveVictims(o, victims)
           l == Only(a.learnts, ToSet(a.learnts) \ victims)
           b == [a EXCEPT !.learnts = l]
<1>1. VictimsGone(a, o, strict) /\ GoneTo(a, o, victims, Len(o.learnts), m)
  BY RemoveVictimsGood, RemoveVictimsFine
<1>2. ReduceDB(o, victims) = CheckGarbage(b, o.opt.garbageFrac)
  BY DEF ReduceDB, DropVictims
<1> HIDE DEF a
<1>3. /\ Good(a, strict) /\ Same(o, a, RemoveFields) /\ Fine(a, m)
      /\ a.learnts \in Seq(DOMAIN a.ca.at) /\ a.clauses \in Seq(DOMAIN a.ca.at) /\ IsObject(a)
  BY <1>1 DEF VictimsGone, Good, GoodBut, GoneTo
<1>4. l \in Seq(DOMAIN a.ca.at) /\ LeftOf(l, a.learnts, ToSet(a.learnts) \ victims)
  BY <1>3, OnlyLeft
<1> HIDE DEF l
<1>5. IsObject(b) /\ Same(a, b, OnlyLists) /\ b.learnts = l /\ b.clauses = a.clauses
  BY <1>3 DEF IsObject, Fields, Same, OnlyLists
<1> HIDE DEF b
<1>6. Relisted(a, b)
  BY <1>3, <1>4, <1>5 DEF Relisted
<1>7. Good(b, strict)
  BY <1>3, <1>6, RelistGood
<1>8. /\ b.ca = a.ca /\ b.assigns = a.assigns /\ b.level = a.level /\ b.nextVar = a.nextVar
      /\ b.freeVars = a.freeVars
  BY <1>5 DEF Same, Fields, OnlyLists
<1>9. a.learnts = o.learnts
  BY <1>3 DEF Same, Fields, RemoveFields
<1>10. ASSUME NEW cr \in Lives(a), cr \in Range(a.learnts)
       PROVE  cr \in Range(l)
  <2>1. PICK j \in DOMAIN o.learnts : o.learnts[j] = cr
    BY <1>9, <1>10 DEF Range
  <2>2. j \in 1 .. Len(o.learnts)
    BY <1>3, <1>9, <2>1
  <2>3. cr \notin victims
    BY <1>1, <2>1, <2>2 DEF GoneTo
  <2>4. cr \in ToSet(a.learnts)
    BY <1>10 DEF Range, ToSet
  <2> QED
    BY <1>4, <1>10, <2>3, <2>4 DEF LeftOf
<1>11. Lives(b) = Lives(a) /\ RootHolds(b, m) /\ LiveHolds(b, m)
  BY <1>3, <1>8 DEF Fine, Lives, RootHolds, LiveHolds
<1>12. AllListed(b)
  BY <1>3, <1>5, <1>10, <1>11 DEF Fine, AllListed
<1>13. Fine(b, m)
  BY <1>11, <1>12 DEF Fine
<1>14. Fine(CheckGarbage(b, o.opt.garbageFrac), m)
  BY <1>7, <1>13, CheckGarbageFine
<1> QED
  BY <1>2, <1>14

\* The clean-up of an object in which no conflict was found.
LEMMA CleanedUpFine ==
    ASSUME NEW o, NEW strict, Idling(o, strict), o.ok, NEW m, Fine(o, m), NEW gf,
           NEW t, t = Simplified(RebuildOrderHeap(CheckGarbage(CleanClauses(o), gf)))
    PROVE  Fine(t, m) /\ t.ok
<1> DEFINE a == CleanClauses(o)
           b == CheckGarbage(a, gf)
           c == RebuildOrderHeap(b)
<1>1. Cleaned(o, a, strict) /\ Fine(a, m)
  BY CleanClausesGood, CleanClausesFine
<1>2. t = Simplified(c)
  OBVIOUS
<1> HIDE DEF a
<1>3. Good(a, strict) /\ a.ok
  BY <1>1 DEF Cleaned, Idling, AtRoot
<1>4. Good(b, strict) /\ Same(a, b, MoveFields) /\ Fine(b, m)
  BY <1>1, <1>3, CheckGarbageGood, CheckGarbageFine
<1> HIDE DEF b
<1>5. IsObject(b) /\ b.ok
  BY <1>3, <1>4 DEF Good, GoodBut, Same, Fields, MoveFields
<1>6. IsObject(c) /\ Same(b, c, HeapFields)
  BY <1>5 DEF RebuildOrderHeap, IsObject, Fields, Same, HeapFields
<1> HIDE DEF c
<1>7. IsObject(t) /\ Same(c, t, HeapFields)
  BY <1>2, <1>6 DEF Simplified, IsObject, Fields, Same, HeapFields
<1>8. HeapFields \intersect FineFields = {}
  BY DEF HeapFields, FineFields
<1>9. Fine(c, m)
  BY <1>4, <1>6, <1>8, FineSame
<1>10. Fine(t, m)
  BY <1>7, <1>8, <1>9, FineSame
<1>11. c.ok = b.ok /\ t.ok = c.ok
  BY <1>6, <1>7 DEF Same, Fields, HeapFields
<1> QED
  BY <1>5, <1>10, <1>11

\* An object at the root whose queue is done can propagate.
LEMMA IdleQueued ==
    ASSUME NEW o, NEW strict, Idling(o, strict)
    PROVE  LevelQueued(o) /\ Good(o, strict) /\ GoodBut(o, strict) /\ o.trailLim = <<>> /\ Propagated(o)
<1>1. Good(o, strict) /\ o.trailLim = <<>> /\ Propagated(o) /\ GoodBut(o, strict)
  BY DEF Idling, AtRoot, Good
<1>2. o.trail \in Seq(LitsOf(o.nextVar))
  BY <1>1, KernelTypes
<1>3. DOMAIN o.trailLim = {} /\ Len(o.trail) \in Nat
  BY <1>1, <1>2
<1> QED
  BY <1>1, <1>3 DEF LevelQueued, Propagated

\* simplify() keeps what follows, and finds no contradiction if there is a model.
THEOREM SimplifyFine ==
    ASSUME NEW o, NEW strict, Idling(o, strict), o.ok, NEW m, Fine(o, m)
    PROVE  Fine(Simplify(o), m) /\ Simplify(o).ok
<1> DEFINE r == Propagate(o)
           p == r.s
           c == Simplified(RebuildOrderHeap(CheckGarbage(CleanClauses(p), p.opt.garbageFrac)))
<1>1. LevelQueued(o) /\ Good(o, strict) /\ o.trailLim = <<>>
  BY IdleQueued
<1>2. Simplify(o) = SimplifyPropagated(p, r.confl)
  BY DEF Simplify
<1>3. Propagates(o, r, strict) /\ FineWith(p, r.confl, m)
  BY <1>1, PropagateGood, PropagateFine
<1> HIDE DEF r
<1>4. Good(p, strict) /\ Propagated(p) /\ Same(o, p, PropFields)
  BY <1>3 DEF Propagates
<1>5. p.trailLim = <<>> /\ p.ok
  BY <1>1, <1>4 DEF Same, Fields, PropFields, VisitFields
<1>6. Idling(p, strict)
  BY <1>4, <1>5 DEF Idling, AtRoot
<1>7. r.confl = CRefUndef
  <2> SUFFICES ASSUME r.confl # CRefUndef PROVE FALSE
    OBVIOUS
  <2>1. ConflictRight(p, r.confl)
    BY <1>3 DEF Propagates
  <2>2. Len(p.trailLim) = 0 /\ GoodBut(p, strict)
    BY <1>4, <1>5 DEF Good
  <2> HIDE DEF p
  <2>3. FineWith(p, r.confl, m)
    BY <1>3
  <2> QED
    BY <2>1, <2>2, <2>3, NoRootConflict
<1>8. Fine(p, m)
  BY <1>3 DEF FineWith
<1>9. Simplify(o) = p \/ Simplify(o) = c
  BY <1>2, <1>7 DEF SimplifyPropagated
<1> HIDE DEF p
<1>10. Fine(c, m) /\ c.ok
  BY <1>5, <1>6, <1>8, CleanedUpFine
<1> QED
  BY <1>5, <1>8, <1>9, <1>10

-------------------------------------------------------------------------------
(* newVar(): what is known of the variable that is made.                       *)

\* m and m2 give the same value to every variable but v.
AgreeBut(m, m2, v) == \A w : w # v => (w \in m <=> w \in m2)

\* Literals of other variables are as true.
LEMMA AgreeTruth ==
    ASSUME NEW m, NEW m2, NEW v, AgreeBut(m, m2, v), NEW p, VarOf(p) # v
    PROVE  Truth(m, p) = Truth(m2, p)
<1>1. VarOf(p) \in m <=> VarOf(p) \in m2
  BY DEF AgreeBut
<1>2. (VarOf(p) \in m) = (VarOf(p) \in m2)
  BY <1>1
<1> QED
  BY <1>2 DEF Truth

\* An assignment that satisfies what is known without v satisfies the clause when
\* v takes its value.
LEMMA KnownSat ==
    ASSUME NEW c, NEW v, NEW m, NEW m2, AgreeBut(m, m2, v), \A d \in Known(c, v) : Sat(m, d),
           \A p \in c : VarOf(p) = v /\ Value(s, p) = LTrue => Truth(m2, p)
    PROVE  Sat(m2, c)
<1>1. CASE \E p \in c : VarOf(p) = v /\ Value(s, p) = LTrue
  BY <1>1 DEF Sat
<1>2. CASE ~\E p \in c : VarOf(p) = v /\ Value(s, p) = LTrue
  <2> DEFINE d == {p \in c : VarOf(p) # v}
  <2>1. Known(c, v) = {d}
    BY <1>2 DEF Known
  <2>2. Sat(m, d)
    BY <2>1
  <2>3. PICK p \in d : Truth(m, p)
    BY <2>2 DEF Sat
  <2>4. p \in c /\ VarOf(p) # v
    BY <2>3
  <2>5. Truth(m2, p)
    BY <2>3, <2>4, AgreeTruth
  <2> QED
    BY <2>4, <2>5 DEF Sat
<1> QED
  BY <1>1, <1>2

\* The facts at the root without the variable.
LEMMA FreshRoots ==
    ASSUME NEW o, NEW strict, GoodBut(o, strict), NEW v, NEW t, IsFresh(o, v, t),
           FreshFor(o, v, t.nextVar), NEW m, NEW m2, AgreeBut(m, m2, v), RootHolds(o, m2)
    PROVE  RootHolds(t, m)
<1> SUFFICES ASSUME NEW p \in LitsOf(t.nextVar), Val(t.assigns, p) = LTrue, t.level[VarOf(p)] = 0
             PROVE  Truth(m, p)
  BY DEF RootHolds
<1> DEFINE w == VarOf(p)
<1>1. /\ o.nextVar \in Nat /\ t.nextVar \in Nat /\ DOMAIN o.assigns = VarsUpTo(o.nextVar)
      /\ DOMAIN o.level = VarsUpTo(o.nextVar) /\ v \in VarsUpTo(t.nextVar)
      /\ VarsUpTo(t.nextVar) = VarsUpTo(o.nextVar) \union {v}
  BY KernelTypes DEF FreshFor
<1>2. IsUpdated(o.assigns, v, LUndef, t.assigns) /\ IsUpdated(o.level, v, 0, t.level)
  BY UpdatedIs DEF IsFresh
<1>3. w # v
  <2> SUFFICES ASSUME w = v PROVE FALSE
    OBVIOUS
  <2>1. t.assigns[w] = LUndef
    BY <1>2 DEF IsUpdated
  <2>2. Val(t.assigns, p) = LUndef
    BY <2>1 DEF Val, LXor
  <2> QED
    BY <2>2 DEF LTrue, LUndef
<1>4. LitsOf(t.nextVar) = LitsOf(o.nextVar) \union {2 * v, 2 * v + 1} /\ v \in Nat
  BY <1>1, LitsOfFresh
<1>5. VarOf(2 * v) = v /\ VarOf(2 * v + 1) = v
  BY <1>4 DEF VarOf
<1>6. p \in LitsOf(o.nextVar)
  BY <1>3, <1>4, <1>5
<1>7. w \in VarsUpTo(o.nextVar)
  BY <1>1, <1>6, LitFacts
<1>8. t.assigns[w] = o.assigns[w] /\ t.level[w] = o.level[w]
  BY <1>1, <1>2, <1>3, <1>7 DEF IsUpdated
<1>9. Val(o.assigns, p) = LTrue /\ o.level[VarOf(p)] = 0
  BY <1>8 DEF Val
<1>10. Truth(m2, p)
  BY <1>6, <1>9 DEF RootHolds
<1> QED
  BY <1>3, <1>10, AgreeTruth

\* The clauses do not need it.
LEMMA FreshLive ==
    ASSUME NEW o, NEW strict, GoodBut(o, strict), NEW v, NEW t, IsFresh(o, v, t),
           FreshFor(o, v, t.nextVar), NEW m, NEW m2, AgreeBut(m, m2, v), LiveHolds(o, m2)
    PROVE  LiveHolds(t, m)
<1>1. t.ca = o.ca
  BY DEF IsFresh, Same, Fields, FreshFields
<1>2. o.freeVars \in Seq(VarsUpTo(o.nextVar)) /\ o.nextVar \in Nat
  BY DEF GoodBut, Types
<1>3. Range(t.freeVars) \subseteq Range(o.freeVars)
  <2>1. CASE o.freeVars = <<>>
    BY <2>1 DEF IsFresh
  <2>2. CASE o.freeVars # <<>>
    <3>1. t.freeVars = Front(o.freeVars)
      BY <2>2 DEF IsFresh
    <3>2. t.freeVars = SubSeq(o.freeVars, 1, Len(o.freeVars) - 1)
      BY <3>1 DEF Front
    <3>3. \A i \in DOMAIN t.freeVars : i \in DOMAIN o.freeVars /\ t.freeVars[i] = o.freeVars[i]
      BY <1>2, <2>2, <3>2
    <3> QED
      BY <3>3 DEF Range
  <2> QED
    BY <2>1, <2>2
<1> SUFFICES ASSUME NEW cr \in Lives(t)
             PROVE  Holds(m, t.ca.at[cr].lits, Range(t.freeVars))
  BY DEF LiveHolds
<1> DEFINE lits == o.ca.at[cr].lits
<1>4. cr \in Lives(o) /\ t.ca.at[cr].lits = lits
  BY <1>1 DEF Lives
<1>5. PICK i \in DOMAIN lits : Truth(m2, lits[i]) /\ VarOf(lits[i]) \notin Range(o.freeVars)
  BY <1>4 DEF LiveHolds, Holds
<1>6. lits \in Seq(LitsOf(o.nextVar))
  BY <1>4, KernelTypes DEF Lives, Clauses, IsClause, LongLits
<1>7. lits[i] \in LitsOf(o.nextVar)
  BY <1>5, <1>6
<1> HIDE DEF lits
<1>8. VarOf(lits[i]) \in VarsUpTo(o.nextVar)
  BY <1>2, <1>7, LitFacts
<1>9. VarOf(lits[i]) # v
  <2>1. CASE v = o.nextVar
    <3>1. v \notin VarsUpTo(o.nextVar)
      BY <1>2, <2>1 DEF VarsUpTo
    <3> QED
      BY <1>8, <3>1
  <2>2. CASE o.freeVars # <<>> /\ v = o.freeVars[Len(o.freeVars)]
    <3>1. Len(o.freeVars) \in DOMAIN o.freeVars
      BY <1>2, <2>2
    <3>2. v \in Range(o.freeVars)
      BY <2>2, <3>1 DEF Range
    <3> QED
      BY <1>5, <3>2
  <2> QED
    BY <2>1, <2>2 DEF FreshFor
<1>10. Truth(m, lits[i])
  BY <1>5, <1>9, AgreeTruth
<1>11. VarOf(lits[i]) \notin Range(t.freeVars)
  BY <1>3, <1>5
<1>12. Holds(m, lits, Range(t.freeVars))
  BY <1>5, <1>10, <1>11 DEF Holds
<1> QED
  BY <1>4, <1>12

\* newVar(): whatever value the variable that is made or reused takes, what
\* followed still does: no clause needs that variable.
THEOREM NewVarFine ==
    ASSUME NEW o, NEW strict, Idling(o, strict), NEW upol, NEW dvar, NEW m, NEW m2,
           AgreeBut(m, m2, FreshVar(o)), Fine(o, m2)
    PROVE  Fine(NewVar(o, upol, dvar), m) /\ NewVar(o, upol, dvar).ok = o.ok
<1> DEFINE v == FreshVar(o)
<1>1. GoodBut(o, strict) /\ IsObject(o) /\ Types(o)
  BY DEF Good, GoodBut, Idling, AtRoot
<1>2. PICK t : IsFresh(o, v, t) /\ NewVar(o, upol, dvar) = SetDecisionVar(t, v, dvar)
  BY <1>1, NewVarFresh
<1>3. t.nextVar = (IF o.freeVars = <<>> THEN o.nextVar + 1 ELSE o.nextVar) /\ IsObject(t)
  BY <1>2 DEF IsFresh
<1>4. FreshFor(o, v, t.nextVar)
  BY <1>1, <1>3, FreshIsFree DEF Types
<1> HIDE DEF v
<1>5. RootHolds(t, m) /\ LiveHolds(t, m)
  BY <1>1, <1>2, <1>4, FreshRoots, FreshLive DEF Fine, v
<1>6. t.ca = o.ca /\ t.clauses = o.clauses /\ t.learnts = o.learnts /\ t.ok = o.ok
  BY <1>2 DEF IsFresh, Same, Fields, FreshFields
<1>7. Fine(t, m)
  BY <1>5, <1>6 DEF Fine, AllListed, Lives
<1> DEFINE u == SetDecisionVar(t, v, dvar)
<1>8. DecisionSet(t, v, u)
  BY <1>3, DecisionSetFields
<1> HIDE DEF u
<1>9. Same(t, u, BranchFields) /\ u.ok = t.ok
  BY <1>8 DEF DecisionSet, Same, Fields, BranchFields
<1>10. BranchFields \intersect FineFields = {}
  BY DEF BranchFields, FineFields
<1>11. Fine(u, m)
  BY <1>7, <1>9, <1>10, FineSame
<1> QED
  BY <1>2, <1>6, <1>9, <1>11 DEF u

-------------------------------------------------------------------------------
(* What analyzeFinal() answers with.                                           *)

\* Where analyzeFinal() starts.
FinalStart(p) == [seen |-> {VarOf(p)}, conflict |-> {p}]

\* What it has found, down the trail to the first decision.
FinalRun(g, o, p, k) ==
    /\ g[0] = FinalStart(p)
    /\ \A i \in 1 .. k : g[i] = FinalOn(o, g[i - 1], o.trail[Len(o.trail) + 1 - i])

\* The loop of analyzeFinal() runs.
LEMMA FinalRuns ==
    ASSUME NEW o, NEW p, NEW k \in Nat, k = Len(o.trail) - o.trailLim[1]
    PROVE  \E g : FinalRun(g, o, p, k) /\ FinalFrom(o, p) = g[k].conflict
<1> DEFINE n == Len(o.trail)
           x0 == FinalStart(p)
           loop[i \in 0 .. k] == IF i = 0 THEN x0 ELSE FinalOn(o, loop[i - 1], o.trail[n + 1 - i])
           S == {j \in Nat : \E g : g = [i \in 0 .. j |-> IF i = 0 THEN x0
                                                        ELSE FinalOn(o, g[i - 1], o.trail[n + 1 - i])]}
<1>1. FinalFrom(o, p) = loop[k].conflict
  BY DEF FinalFrom, FinalStart
<1> HIDE DEF x0, n
<1>2. 0 \in S
  <2> DEFINE g == [i \in 0 .. 0 |-> x0]
  <2>1. g = [i \in 0 .. 0 |-> IF i = 0 THEN x0 ELSE FinalOn(o, g[i - 1], o.trail[n + 1 - i])]
    OBVIOUS
  <2> HIDE DEF g
  <2> QED
    BY <2>1
<1>3. ASSUME NEW j \in Nat, j \in S
      PROVE  j + 1 \in S
  <2>1. PICK g : g = [i \in 0 .. j |-> IF i = 0 THEN x0 ELSE FinalOn(o, g[i - 1], o.trail[n + 1 - i])]
    BY <1>3
  <2> DEFINE h == [i \in 0 .. j + 1 |-> IF i = j + 1 THEN FinalOn(o, g[j], o.trail[n + 1 - (j + 1)])
                                        ELSE g[i]]
  <2>2. ASSUME NEW i \in 0 .. j + 1
        PROVE  h[i] = IF i = 0 THEN x0 ELSE FinalOn(o, h[i - 1], o.trail[n + 1 - i])
    <3>1. CASE i = j + 1
      <4>1. i - 1 = j /\ j \in 0 .. j + 1 /\ j # j + 1 /\ i # 0
        BY <3>1
      <4>2. h[i - 1] = g[j]
        BY <2>1, <4>1
      <4> QED
        BY <3>1, <4>1, <4>2
    <3>2. CASE i # j + 1
      <4>1. i \in 0 .. j
        BY <3>2
      <4>2. h[i] = g[i] /\ g[i] = IF i = 0 THEN x0 ELSE FinalOn(o, g[i - 1], o.trail[n + 1 - i])
        BY <2>1, <3>2, <4>1
      <4>3. CASE i # 0
        <5>1. i - 1 \in 0 .. j + 1 /\ i - 1 # j + 1
          BY <4>1, <4>3
        <5>2. h[i - 1] = g[i - 1]
          BY <5>1
        <5> QED
          BY <4>2, <4>3, <5>2
      <4> QED
        BY <4>2, <4>3
    <3> QED
      BY <3>1, <3>2
  <2>3. h = [i \in 0 .. j + 1 |-> IF i = 0 THEN x0 ELSE FinalOn(o, h[i - 1], o.trail[n + 1 - i])]
    <3>1. h = [i \in 0 .. j + 1 |-> h[i]]
      OBVIOUS
    <3> HIDE DEF h
    <3> QED
      BY <2>2, <3>1
  <2>4. \E q : q = [i \in 0 .. j + 1 |-> IF i = 0 THEN x0 ELSE FinalOn(o, q[i - 1], o.trail[n + 1 - i])]
    <3> HIDE DEF h
    <3> QED
      BY <2>3
  <2> QED
    BY <2>4
<1>4. k \in S
  <2> HIDE DEF S
  <2>1. Nat \subseteq S
    BY <1>2, <1>3, InductionOn
  <2> QED
    BY <2>1
<1>5. loop = [i \in 0 .. k |-> IF i = 0 THEN x0 ELSE FinalOn(o, loop[i - 1], o.trail[n + 1 - i])]
  <2>1. \E g : g = [i \in 0 .. k |-> IF i = 0 THEN x0 ELSE FinalOn(o, g[i - 1], o.trail[n + 1 - i])]
    BY <1>4
  <2>2. loop = CHOOSE g : g = [i \in 0 .. k |-> IF i = 0 THEN x0
                                              ELSE FinalOn(o, g[i - 1], o.trail[n + 1 - i])]
    BY DEF loop
  <2> HIDE DEF loop
  <2> QED
    BY <2>1, <2>2, Zenon
<1> HIDE DEF loop
<1>6. loop[0] = x0 /\ \A i \in 1 .. k : loop[i] = FinalOn(o, loop[i - 1], o.trail[n + 1 - i])
  <2>1. 0 \in 0 .. k /\ \A i \in 1 .. k : i \in 0 .. k /\ i # 0
    OBVIOUS
  <2> QED
    BY <1>5, <2>1
<1>7. FinalRun(loop, o, p, k)
  BY <1>6 DEF FinalRun, x0, n
<1> QED
  BY <1>1, <1>7

\* The negations of the assumptions.
Negated(o) == {Neg(p) : p \in ToSet(o.assumptions)}

\* m makes a seen literal false that was assigned above the root, by place i of the trail.
OpenBlame(o, vs, i, m) ==
    \E j \in DOMAIN o.trail : /\ j <= i /\ ~Truth(m, o.trail[j]) /\ VarOf(o.trail[j]) \in vs
                              /\ o.level[VarOf(o.trail[j])] > 0

\* What analyzeFinal() has found is over the assumptions, and m satisfies it or makes
\* something false that is still to be explained.
FinalFits(o, acc, i, m) == Fine(o, m) => Sat(m, acc.conflict) \/ OpenBlame(o, acc.seen, i, m)

FinalAt(o, acc, p, i) ==
    /\ acc = [seen |-> acc.seen, conflict |-> acc.conflict]
    /\ \A m : FinalFits(o, acc, i, m)
    /\ AssumedFirst(o) /\ Len(o.trailLim) < Len(o.assumptions) => acc.conflict \subseteq Negated(o) \union {p}

\* A literal that was decided above the root, on the levels of the assumptions, is one.
LEMMA DecidedAssumed ==
    ASSUME NEW o, NEW strict, GoodBut(o, strict), NEW i \in DOMAIN o.trail, 1 \in DOMAIN o.trailLim,
           o.trailLim[1] < i, ReasonOf(o, o.trail[i]) = CRefUndef, AssumedFirst(o),
           Len(o.trailLim) < Len(o.assumptions)
    PROVE  Neg(o.trail[i]) \in Negated(o)
<1> DEFINE q == o.trail[i]
<1>1. /\ o.trail \in Seq(LitsOf(o.nextVar)) /\ o.trailLim \in Seq(Nat)
      /\ TrailRight(o.trail, o.trailLim, o.assigns, o.level)
  BY KernelTypes
<1>2. q \in LitsOf(o.nextVar) /\ Val(o.assigns, q) = LTrue /\ AtLevel(o.level[VarOf(q)], o.trailLim, i)
  BY <1>1 DEF TrailRight
<1> HIDE DEF q
<1>3. o.level[VarOf(q)] \in 0 .. Len(o.trailLim) /\ 1 <= o.level[VarOf(q)]
  BY <1>2 DEF AtLevel
<1>4. Len(o.trailLim) \in Nat
  BY <1>1
<1>5. o.level[VarOf(q)] \in 1 .. Len(o.assumptions)
  <2> DEFINE L == o.level[VarOf(q)]
             k == Len(o.assumptions)
             n == Len(o.trailLim)
  <2>1. L \in 0 .. n /\ 1 <= L /\ n \in Nat /\ n < k
    BY <1>3, <1>4
  <2> HIDE DEF L, n
  <2> QED
    BY <2>1 DEF L
<1>6. o.reason[VarOf(q)] = CRefUndef
  BY DEF ReasonOf, q
<1>7. q \in ToSet(o.assumptions)
  BY <1>2, <1>5, <1>6 DEF AssumedFirst
<1> QED
  BY <1>7 DEF Negated, q

\* What explains a literal that m makes false: another one that it does, assigned before.
LEMMA FinalExplains ==
    ASSUME NEW o, GoodBut(o, TRUE), NEW m, Fine(o, m), NEW i \in DOMAIN o.trail,
           ReasonOf(o, o.trail[i]) # CRefUndef, ~Truth(m, o.trail[i]), o.level[VarOf(o.trail[i])] > 0,
           NEW vs,
           \A q \in ToSet(Tail(Lits(o, ReasonOf(o, o.trail[i])))) : LevelOf(o, q) > 0 => VarOf(q) \in vs
    PROVE  OpenBlame(o, vs, i - 1, m)
<1> DEFINE p == o.trail[i]
           cr == ReasonOf(o, p)
           lits == Lits(o, cr)
           t == Tail(lits)
<1>1. /\ o.nextVar \in Nat /\ o.assigns \in [VarsUpTo(o.nextVar) -> Lbools]
      /\ o.trail \in Seq(LitsOf(o.nextVar)) /\ TrailRight(o.trail, o.trailLim, o.assigns, o.level)
      /\ Clauses(o.ca.at, o.nextVar)
  BY KernelTypes
<1>2. PICK k \in DOMAIN t :
         /\ Truth(m, t[k]) /\ t[k] \in LitsOf(o.nextVar)
         /\ Val(o.assigns, t[k]) = LFalse => o.level[VarOf(t[k])] > 0
  BY ReasonBlames
<1>3. /\ cr # CRefUndef => IsReason(cr, p, o.ca.at)
      /\ InOrder(i, o.trailLim, o.trail, o.level, o.assigns, cr, o.ca.at)
  BY DEF Reasons, ReasonOf, GoodBut
<1>4. /\ IsReason(cr, p, o.ca.at) /\ cr \in DOMAIN o.ca.at
      /\ AllFalse(o.ca.at[cr].lits, i, o.trail, o.level, o.assigns)
  BY <1>3 DEF InOrder, IsReason
<1>5. lits = o.ca.at[cr].lits /\ LongLits(lits, o.nextVar)
  BY <1>1, <1>4 DEF Clauses, IsClause, Lits
<1> HIDE DEF cr
<1>6. AllFalse(lits, i, o.trail, o.level, o.assigns)
  BY <1>4, <1>5
<1> HIDE DEF lits
<1>7. lits \in Seq(LitsOf(o.nextVar)) /\ Len(lits) >= 2 /\ Len(lits) \in Nat /\ DOMAIN lits = 1 .. Len(lits)
  BY <1>5 DEF LongLits
<1>8. Follows1(t, lits)
  <2>1. Len(lits) >= 1
    BY <1>7
  <2> QED
    BY <1>7, <2>1, TailFacts
<1>9. t[k] = lits[k + 1] /\ k + 1 \in DOMAIN lits /\ k \in 1 .. Len(lits) - 1
  BY <1>7, <1>8 DEF Follows1
<1>10. k + 1 \in 2 .. Len(lits)
  BY <1>7, <1>9
<1> DEFINE q == t[k]
<1>11. FalseBefore(q, i, o.trail, o.level, o.assigns)
  BY <1>6, <1>9, <1>10 DEF AllFalse
<1>12. q \in ToSet(t) /\ Truth(m, q) /\ q \in LitsOf(o.nextVar)
       /\ (Val(o.assigns, q) = LFalse => o.level[VarOf(q)] > 0)
  BY <1>2 DEF ToSet
<1>13. LevelOf(o, q) > 0 => VarOf(q) \in vs
  BY <1>12 DEF t, lits, cr
<1> HIDE DEF q, t
<1>14. o.level[VarOf(q)] > 0 /\ VarOf(q) \in vs
  BY <1>11, <1>12, <1>13 DEF FalseBefore, LevelOf
<1>15. PICK j \in 1 .. i - 1 : o.trail[j] = Neg(q)
  BY <1>11, <1>14 DEF FalseBefore
<1>16. ~Truth(m, Neg(q)) /\ VarOf(Neg(q)) = VarOf(q)
  BY <1>1, <1>12, TruthFacts, LitFacts
<1>17. j \in DOMAIN o.trail /\ j <= i - 1
  BY <1>1, <1>15
<1> QED
  BY <1>14, <1>15, <1>16, <1>17 DEF OpenBlame

\* More variables seen, and m falsifies no literal at the place left behind that is.
LEMMA BlameBelow ==
    ASSUME NEW o, o.trail \in Seq(LitsOf(o.nextVar)), NEW i \in DOMAIN o.trail, NEW m, NEW vs, NEW ws,
           vs \subseteq ws, OpenBlame(o, vs, i, m),
           OpenBlame(o, ws, i - 1, m)
           \/ ~(~Truth(m, o.trail[i]) /\ VarOf(o.trail[i]) \in vs /\ o.level[VarOf(o.trail[i])] > 0)
    PROVE  OpenBlame(o, ws, i - 1, m)
<1>1. PICK j \in DOMAIN o.trail : /\ j <= i /\ ~Truth(m, o.trail[j]) /\ VarOf(o.trail[j]) \in vs
                                  /\ o.level[VarOf(o.trail[j])] > 0
  BY DEF OpenBlame
<1>2. CASE j = i
  BY <1>1, <1>2
<1>3. CASE j # i
  <2>1. j <= i - 1
    BY <1>1, <1>3
  <2> QED
    BY <1>1, <2>1 DEF OpenBlame
<1> QED
  BY <1>2, <1>3

\* One literal of the trail.
LEMMA FinalOnFits ==
    ASSUME NEW o, GoodBut(o, TRUE), NEW i \in DOMAIN o.trail, NEW acc, NEW c, NEW ws, NEW m,
           FinalFits(o, acc, i, m), acc.seen \subseteq ws, acc.conflict \subseteq c,
           VarOf(o.trail[i]) \in acc.seen =>
             IF ReasonOf(o, o.trail[i]) = CRefUndef THEN Neg(o.trail[i]) \in c
             ELSE \A q \in ToSet(Tail(Lits(o, ReasonOf(o, o.trail[i])))) :
                    LevelOf(o, q) > 0 => VarOf(q) \in ws,
           NEW t, t = [seen |-> ws, conflict |-> c]
    PROVE  FinalFits(o, t, i - 1, m)
<1> DEFINE p == o.trail[i]
<1> SUFFICES ASSUME Fine(o, m), ~Sat(m, t.conflict) PROVE OpenBlame(o, t.seen, i - 1, m)
  BY DEF FinalFits
<1>1. t.seen = ws /\ t.conflict = c
  OBVIOUS
<1>2. ~Sat(m, acc.conflict)
  BY <1>1 DEF Sat
<1>3. OpenBlame(o, acc.seen, i, m)
  BY <1>2 DEF FinalFits
<1>4. o.nextVar \in Nat /\ o.trail \in Seq(LitsOf(o.nextVar))
  BY KernelTypes
<1>5. p \in LitsOf(o.nextVar)
  BY <1>4
<1>6. CASE ~Truth(m, p) /\ VarOf(p) \in acc.seen /\ o.level[VarOf(p)] > 0
  <2>1. CASE ReasonOf(o, p) = CRefUndef
    <3>1. Truth(m, Neg(p)) /\ Neg(p) \in c
      BY <1>4, <1>5, <1>6, <2>1, TruthFacts
    <3> QED
      BY <1>1, <3>1 DEF Sat
  <2>2. CASE ReasonOf(o, p) # CRefUndef
    BY <1>1, <1>6, <2>2, FinalExplains
  <2> QED
    BY <2>1, <2>2
<1>7. CASE ~(~Truth(m, p) /\ VarOf(p) \in acc.seen /\ o.level[VarOf(p)] > 0)
  BY <1>1, <1>3, <1>4, <1>7, BlameBelow
<1> QED
  BY <1>6, <1>7

\* One literal of the trail, above the root.
LEMMA FinalOnKeeps ==
    ASSUME NEW o, GoodBut(o, TRUE), NEW i \in DOMAIN o.trail, 1 \in DOMAIN o.trailLim, o.trailLim[1] < i,
           NEW p, NEW acc, FinalAt(o, acc, p, i)
    PROVE  FinalAt(o, FinalOn(o, acc, o.trail[i]), p, i - 1)
<1> DEFINE q == o.trail[i]
           cr == ReasonOf(o, q)
           above == {x \in ToSet(Tail(Lits(o, cr))) : LevelOf(o, x) > 0}
           more == acc.seen \union {VarOf(x) : x \in above}
           t == FinalOn(o, acc, q)
           ws == IF VarOf(q) \in acc.seen /\ cr # CRefUndef THEN more ELSE acc.seen
           c == IF VarOf(q) \in acc.seen /\ cr = CRefUndef THEN acc.conflict \union {Neg(q)} ELSE acc.conflict
<1>1. acc = [seen |-> acc.seen, conflict |-> acc.conflict]
  BY DEF FinalAt
<1>2. t = [seen |-> ws, conflict |-> c]
  <2>1. CASE VarOf(q) \notin acc.seen
    BY <1>1, <2>1 DEF FinalOn
  <2>2. CASE VarOf(q) \in acc.seen /\ cr = CRefUndef
    <3>1. t = [acc EXCEPT !.conflict = acc.conflict \union {Neg(q)}]
      BY <2>2 DEF FinalOn
    <3>2. t = [seen |-> acc.seen, conflict |-> acc.conflict \union {Neg(q)}]
      BY <1>1, <3>1
    <3>3. ws = acc.seen /\ c = acc.conflict \union {Neg(q)}
      BY <2>2
    <3> QED
      BY <3>2, <3>3
  <2>3. CASE VarOf(q) \in acc.seen /\ cr # CRefUndef
    <3>1. t = [acc EXCEPT !.seen = more]
      BY <2>3 DEF FinalOn
    <3> HIDE DEF more
    <3>2. t = [seen |-> more, conflict |-> acc.conflict]
      BY <1>1, <3>1
    <3>3. ws = more /\ c = acc.conflict
      BY <2>3
    <3> QED
      BY <3>2, <3>3
  <2> QED
    BY <2>1, <2>2, <2>3
<1>3. /\ acc.seen \subseteq ws /\ acc.conflict \subseteq c
      /\ VarOf(q) \in acc.seen =>
           IF cr = CRefUndef THEN Neg(q) \in c
           ELSE \A x \in ToSet(Tail(Lits(o, cr))) : LevelOf(o, x) > 0 => VarOf(x) \in ws
  OBVIOUS
<1>4. AssumedFirst(o) /\ Len(o.trailLim) < Len(o.assumptions) => c \subseteq Negated(o) \union {p}
  <2> SUFFICES ASSUME AssumedFirst(o), Len(o.trailLim) < Len(o.assumptions)
               PROVE  c \subseteq Negated(o) \union {p}
    OBVIOUS
  <2>1. acc.conflict \subseteq Negated(o) \union {p}
    BY DEF FinalAt
  <2>2. cr = CRefUndef => Neg(q) \in Negated(o)
    BY DecidedAssumed
  <2> QED
    BY <2>1, <2>2
<1> HIDE DEF t, ws, c
<1>5. \A m : FinalFits(o, t, i - 1, m)
  <2> SUFFICES ASSUME NEW m PROVE FinalFits(o, t, i - 1, m)
    OBVIOUS
  <2>1. FinalFits(o, acc, i, m)
    BY DEF FinalAt
  <2> QED
    BY <1>2, <1>3, <2>1, FinalOnFits
<1>6. t = [seen |-> t.seen, conflict |-> t.conflict] /\ t.conflict = c
  BY <1>2
<1> QED
  BY <1>4, <1>5, <1>6 DEF FinalAt, t

\* A true literal above the root is on the trail.
LEMMA TrueOnTrail ==
    ASSUME NEW o, NEW strict, GoodBut(o, strict), NEW p \in LitsOf(o.nextVar),
           Val(o.assigns, p) = LTrue, o.level[VarOf(p)] # 0
    PROVE  \E i \in DOMAIN o.trail : o.trail[i] = p
<1>1. /\ o.nextVar \in Nat /\ o.assigns \in [VarsUpTo(o.nextVar) -> Lbools]
      /\ o.trail \in Seq(LitsOf(o.nextVar)) /\ TrailRight(o.trail, o.trailLim, o.assigns, o.level)
  BY KernelTypes
<1>2. VarOf(p) \in DOMAIN o.assigns /\ o.assigns[VarOf(p)] # LUndef
  BY <1>1, LitFacts, ValFacts DEF LTrue, LUndef
<1>3. PICK i \in DOMAIN o.trail : VarOf(o.trail[i]) = VarOf(p)
  BY <1>1, <1>2 DEF TrailRight, OnTrail
<1>4. o.trail[i] \in LitsOf(o.nextVar) /\ Val(o.assigns, o.trail[i]) = LTrue
  BY <1>1 DEF TrailRight
<1>5. Val(o.assigns, Neg(p)) = LFalse
  BY <1>1, ValFacts
<1>6. o.trail[i] # Neg(p)
  BY <1>4, <1>5 DEF LTrue, LFalse
<1>7. o.trail[i] = p
  BY <1>1, <1>3, <1>4, <1>6, SameVar
<1> QED
  BY <1>7

\* Where it starts.
LEMMA FinalStarts ==
    ASSUME NEW o, NEW strict, GoodBut(o, strict), NEW p \in LitsOf(o.nextVar), Val(o.assigns, p) = LTrue
    PROVE  FinalAt(o, FinalStart(p), p, Len(o.trail))
<1> DEFINE x == FinalStart(p)
<1>1. x = [seen |-> x.seen, conflict |-> x.conflict] /\ x.seen = {VarOf(p)} /\ x.conflict = {p}
  BY DEF FinalStart
<1>2. o.trail \in Seq(LitsOf(o.nextVar)) /\ o.nextVar \in Nat /\ o.level \in [VarsUpTo(o.nextVar) -> Nat]
  BY KernelTypes
<1> HIDE DEF x
<1>3. ASSUME NEW m, Fine(o, m), ~Sat(m, x.conflict)
      PROVE  OpenBlame(o, x.seen, Len(o.trail), m)
  <2>1. ~Truth(m, p)
    BY <1>1, <1>3 DEF Sat
  <2>2. o.level[VarOf(p)] # 0
    BY <1>3, <2>1 DEF Fine, RootHolds
  <2>3. PICK j \in DOMAIN o.trail : o.trail[j] = p
    BY <2>2, TrueOnTrail
  <2>a. VarOf(p) \in VarsUpTo(o.nextVar)
    BY <1>2, LitFacts
  <2>b. o.level[VarOf(p)] \in Nat
    BY <1>2, <2>a
  <2>c. j <= Len(o.trail)
    BY <1>2
  <2>4. o.level[VarOf(p)] \in Nat /\ j <= Len(o.trail)
    BY <2>b, <2>c
  <2>5. o.level[VarOf(p)] > 0
    BY <2>2, <2>4
  <2> QED
    BY <1>1, <2>1, <2>3, <2>4, <2>5 DEF OpenBlame
<1>4. \A m : FinalFits(o, x, Len(o.trail), m)
  BY <1>3 DEF FinalFits
<1> QED
  BY <1>1, <1>4 DEF FinalAt, x

\* What analyzeFinal() is to answer when p is why an assumption was refused.
FinalRight(o, p) ==
    /\ \A m : Fine(o, m) => Sat(m, AnalyzeFinal(o, p))
    /\ AssumedFirst(o) /\ Len(o.trailLim) < Len(o.assumptions)
         => AnalyzeFinal(o, p) \subseteq Negated(o) \union {p}

\* The clause in conflict that analyzeFinal() answers with follows, and is over the
\* negated assumptions.
THEOREM FinalFollows ==
    ASSUME NEW o, GoodBut(o, TRUE), NEW p \in LitsOf(o.nextVar), Val(o.assigns, p) = LTrue
    PROVE  FinalRight(o, p)
<1>0. /\ o.nextVar \in Nat /\ o.assigns \in [VarsUpTo(o.nextVar) -> Lbools]
      /\ o.trailLim \in Seq(Nat) /\ o.trail \in Seq(LitsOf(o.nextVar))
      /\ TrailRight(o.trail, o.trailLim, o.assigns, o.level) /\ Limits(o.trailLim, Len(o.trail))
  BY KernelTypes DEF TrailRight
<1>1. CASE DecisionLevel(o) = 0
  <2>1. o.trailLim = <<>> /\ AnalyzeFinal(o, p) = {p}
    BY <1>0, <1>1 DEF DecisionLevel, AnalyzeFinal
  <2>2. VarOf(p) \in VarsUpTo(o.nextVar) /\ o.assigns[VarOf(p)] # LUndef
    BY <1>0, LitFacts, ValFacts DEF LTrue, LUndef
  <2>3. o.level[VarOf(p)] = 0
    BY <2>1, <2>2, RootLevels
  <2>4. \A m : Fine(o, m) => Sat(m, AnalyzeFinal(o, p))
    BY <2>1, <2>3 DEF Fine, RootHolds, Sat
  <2> QED
    BY <2>1, <2>4 DEF FinalRight
<1>2. CASE DecisionLevel(o) # 0
  <2> DEFINE k == Len(o.trail) - o.trailLim[1]
             n == Len(o.trail)
  <2>1. 1 \in DOMAIN o.trailLim
    BY <1>0, <1>2 DEF DecisionLevel
  <2>2. o.trailLim[1] \in Nat /\ n \in Nat /\ o.trailLim[1] <= n
    BY <1>0, <2>1 DEF Limits
  <2>3. k \in Nat
    BY <2>2
  <2>4. PICK g : FinalRun(g, o, p, k) /\ FinalFrom(o, p) = g[k].conflict
    BY <2>3, FinalRuns
  <2> DEFINE S == {i \in Nat : i <= k => FinalAt(o, g[i], p, n - i)}
  <2>5. 0 \in S
    <3>a. n - 0 = n
      BY <2>2
    <3>b. FinalAt(o, FinalStart(p), p, n)
      BY FinalStarts
    <3>1. FinalAt(o, FinalStart(p), p, n - 0)
      BY <3>a, <3>b
    <3> QED
      BY <2>4, <3>1 DEF FinalRun
  <2>6. ASSUME NEW i \in Nat, i \in S
        PROVE  i + 1 \in S
    <3> SUFFICES ASSUME i + 1 <= k PROVE FinalAt(o, g[i + 1], p, n - (i + 1))
      OBVIOUS
    <3> DEFINE j == n - i
    <3>1. /\ i + 1 \in 1 .. k /\ (i + 1) - 1 = i /\ i <= k /\ n + 1 - (i + 1) = j /\ n - (i + 1) = j - 1
          /\ o.trailLim[1] < j /\ j \in 1 .. n
      <4> DEFINE l == o.trailLim[1]
      <4>1. l \in Nat /\ n \in Nat /\ i + 1 <= n - l
        BY <2>2
      <4> HIDE DEF l, n
      <4>2. /\ i + 1 \in 1 .. (n - l) /\ (i + 1) - 1 = i /\ i <= n - l /\ n + 1 - (i + 1) = n - i
            /\ n - (i + 1) = (n - i) - 1 /\ l < n - i /\ n - i \in 1 .. n
        BY <4>1
      <4> QED
        BY <4>2 DEF l, n
    <3>2. g[i + 1] = FinalOn(o, g[i], o.trail[j])
      BY <2>4, <3>1 DEF FinalRun
    <3>3. FinalAt(o, g[i], p, j)
      BY <2>6, <3>1
    <3>4. j \in DOMAIN o.trail
      BY <1>0, <3>1
    <3> HIDE DEF j
    <3>5. FinalAt(o, FinalOn(o, g[i], o.trail[j]), p, j - 1)
      BY <2>1, <3>1, <3>3, <3>4, FinalOnKeeps
    <3> QED
      BY <3>1, <3>2, <3>5
  <2>7. FinalAt(o, g[k], p, o.trailLim[1])
    <3> HIDE DEF S
    <3>1. Nat \subseteq S
      BY <2>5, <2>6, InductionOn
    <3>2. n - k = o.trailLim[1] /\ k <= k
      BY <2>2
    <3> HIDE DEF n, k
    <3>3. FinalAt(o, g[k], p, n - k)
      BY <2>3, <3>1, <3>2 DEF S
    <3> QED
      BY <3>2, <3>3
  <2>8. AnalyzeFinal(o, p) = g[k].conflict
    BY <1>2, <2>4 DEF AnalyzeFinal
  <2> DEFINE y == g[k]
  <2>9. FinalAt(o, y, p, o.trailLim[1]) /\ AnalyzeFinal(o, p) = y.conflict
    BY <2>7, <2>8
  <2> HIDE DEF y, S
  <2>10. ASSUME NEW m, Fine(o, m)
         PROVE  Sat(m, y.conflict)
    <3>1. Sat(m, y.conflict) \/ OpenBlame(o, y.seen, o.trailLim[1], m)
      BY <2>9, <2>10 DEF FinalAt, FinalFits
    <3>2. ASSUME OpenBlame(o, y.seen, o.trailLim[1], m)
          PROVE  FALSE
      <4>1. PICK j \in DOMAIN o.trail : j <= o.trailLim[1] /\ o.level[VarOf(o.trail[j])] > 0
        BY <3>2 DEF OpenBlame
      <4> DEFINE L == o.level[VarOf(o.trail[j])]
      <4>2. AtLevel(L, o.trailLim, j)
        BY <1>0 DEF TrailRight
      <4>3. L \in 0 .. Len(o.trailLim) /\ (o.trailLim[1] < j <=> 1 <= L) /\ L > 0
        BY <2>1, <4>1, <4>2 DEF AtLevel
      <4> HIDE DEF L
      <4>4. j \in Nat
        BY <1>0
      <4> QED
        BY <2>2, <4>1, <4>3, <4>4
    <3> QED
      BY <3>1, <3>2
  <2> QED
    BY <2>9, <2>10 DEF FinalAt, FinalRight
<1> QED
  BY <1>1, <1>2

-------------------------------------------------------------------------------
(* implies().                                                                  *)

\* What is kept while the assumptions of implies() are enqueued.
AssumedFine(o, e, m) == Assumed(o, e) /\ Fine(e.s, m)

\* One assumption.
LEMMA AssumeStepFine ==
    ASSUME NEW o, Len(o.trailLim) > 0, NEW e, NEW m, AssumedFine(o, e, m), NEW p \in LitsOf(o.nextVar)
    PROVE  AssumedFine(o, AssumeNext(e, p), m)
<1> DEFINE u == UncheckedEnqueue(e.s, p, CRefUndef)
<1>1. Assumed(o, AssumeNext(e, p))
  BY AssumeStep DEF AssumedFine
<1>2. GoodBut(e.s, FALSE) /\ Same(o, e.s, EnqueueFields) /\ Fine(e.s, m)
  BY DEF AssumedFine, Assumed, Good
<1>3. e.s.nextVar = o.nextVar /\ e.s.trailLim = o.trailLim
  BY <1>2 DEF Same, Fields, EnqueueFields
<1>4. Len(e.s.trailLim) # 0
  <2>1. e.s.trailLim \in Seq(Nat)
    BY <1>2, KernelTypes
  <2> QED
    BY <1>3, <2>1
<1>5. Fine(u, m)
  BY <1>2, <1>3, <1>4, EnqueueFine
<1> HIDE DEF u
<1>6. AssumeNext(e, p) = e \/ AssumeNext(e, p) = [s |-> e.s, clash |-> TRUE]
      \/ AssumeNext(e, p) = [s |-> u, clash |-> e.clash]
  <2>1. CASE e.clash \/ Value(e.s, p) = LTrue
    BY <2>1 DEF AssumeNext
  <2>2. CASE ~(e.clash \/ Value(e.s, p) = LTrue) /\ Value(e.s, p) = LFalse
    BY <2>2 DEF AssumeNext
  <2>3. CASE ~(e.clash \/ Value(e.s, p) = LTrue) /\ Value(e.s, p) # LFalse
    BY <2>3 DEF AssumeNext, u
  <2> QED
    BY <2>1, <2>2, <2>3
<1>7. AssumeNext(e, p).s = e.s \/ AssumeNext(e, p).s = u
  BY <1>6
<1> QED
  BY <1>1, <1>2, <1>5, <1>7 DEF AssumedFine

\* All of them.
LEMMA AssumeFine ==
    ASSUME NEW o, Good(o, FALSE), LevelQueued(o), Len(o.trailLim) > 0, NEW m, Fine(o, m),
           NEW lits \in Seq(LitsOf(o.nextVar))
    PROVE  AssumedFine(o, EnqueueAssumed(o, lits), m)
<1> DEFINE n == Len(lits)
<1>a. n \in Nat /\ DOMAIN lits = 1 .. n
  OBVIOUS
<1>1. PICK g : AssumeRun(g, o, lits) /\ EnqueueAssumed(o, lits) = g[n]
  BY <1>a, AssumeRuns
<1>2. g[0] = [s |-> o, clash |-> FALSE] /\ \A i \in 1 .. n : g[i] = AssumeNext(g[i - 1], lits[i])
  BY <1>1 DEF AssumeRun
<1> HIDE DEF n
<1> DEFINE S == {i \in Nat : i <= n => AssumedFine(o, g[i], m)}
<1>3. 0 \in S
  <2> DEFINE e == [s |-> o, clash |-> FALSE]
  <2>1. Same(o, o, EnqueueFields)
    BY DEF Same
  <2>2. Assumed(o, e) /\ e.s = o
    BY <2>1, AssumedMade
  <2> HIDE DEF e
  <2>3. AssumedFine(o, e, m)
    BY <2>2 DEF AssumedFine
  <2> QED
    BY <1>2, <2>3 DEF e
<1>4. ASSUME NEW i \in Nat, i \in S
      PROVE  i + 1 \in S
  <2> SUFFICES ASSUME i + 1 <= n PROVE AssumedFine(o, g[i + 1], m)
    OBVIOUS
  <2>1. i + 1 \in 1 .. n /\ (i + 1) - 1 = i /\ i <= n
    BY <1>a
  <2> DEFINE y == g[i]
             p == lits[i + 1]
  <2>2. AssumedFine(o, y, m) /\ g[i + 1] = AssumeNext(y, p)
    BY <1>2, <1>4, <2>1
  <2>3. p \in LitsOf(o.nextVar)
    BY <1>a, <2>1
  <2> HIDE DEF y, p
  <2>4. AssumedFine(o, AssumeNext(y, p), m)
    BY <2>2, <2>3, AssumeStepFine
  <2> QED
    BY <2>2, <2>4
<1>5. n \in S
  <2> HIDE DEF S
  <2>1. Nat \subseteq S
    BY <1>3, <1>4, InductionOn
  <2> QED
    BY <1>a, <2>1
<1> QED
  BY <1>1, <1>5, <1>a

\* t is o after implies(): the same verdict and variables, and all that followed still does.
KeepsAll(o, t) == t.ok = o.ok /\ t.nextVar = o.nextVar /\ \A m : Fine(o, m) => Fine(t, m)

\* implies() keeps what follows.
LEMMA ImpliesFine ==
    ASSUME NEW o, Idling(o, TRUE), NEW lits \in Seq(LitsOf(o.nextVar)),
           NEW e, e = EnqueueAssumed(NewDecisionLevel(o), lits), NEW t,
           t = CancelUntil(IF e.clash THEN e.s ELSE Propagate(e.s).s, 0)
    PROVE  KeepsAll(o, t)
<1> DEFINE d == NewDecisionLevel(o)
           r == Propagate(e.s)
           x == IF e.clash THEN e.s ELSE r.s
<1>1. Good(o, FALSE) /\ Propagated(o) /\ o.trailLim = <<>> /\ IsObject(o)
  BY Loosened DEF Idling, AtRoot, Good, GoodBut
<1>2. LevelNew(o, d, FALSE) /\ \A m : Fine(o, m) => Fine(d, m)
  BY <1>1, NewLevelGood, OpenFine DEF Good
<1>3. e = EnqueueAssumed(d, lits) /\ t = CancelUntil(x, 0)
  OBVIOUS
<1> HIDE DEF d
<1>4. Good(d, FALSE) /\ LevelQueued(d) /\ Same(o, d, OnlyLimits) /\ Len(d.trailLim) = Len(o.trailLim) + 1
  BY <1>1, <1>2 DEF LevelNew, Good, IsOpened
<1>5. d.nextVar = o.nextVar /\ d.ok = o.ok
  BY <1>4 DEF Same, Fields, OnlyLimits
<1>6. Len(d.trailLim) > 0
  BY <1>1, <1>4
<1>7. Assumed(d, e) /\ \A m : Fine(d, m) => Fine(e.s, m)
  <2>1. Assumed(d, e)
    BY <1>3, <1>4, <1>5, AssumeGood
  <2>2. \A m : Fine(d, m) => AssumedFine(d, e, m)
    BY <1>3, <1>4, <1>5, <1>6, AssumeFine
  <2> QED
    BY <2>1, <2>2 DEF AssumedFine
<1>8. Good(e.s, FALSE) /\ LevelQueued(e.s) /\ Same(d, e.s, EnqueueFields) /\ e.clash \in BOOLEAN
  BY <1>7 DEF Assumed
<1>9. e.s.trailLim = d.trailLim /\ e.s.nextVar = d.nextVar /\ e.s.ok = d.ok
  BY <1>8 DEF Same, Fields, EnqueueFields
<1>10. Propagates(e.s, r, FALSE) /\ \A m : Fine(e.s, m) => FineWith(r.s, r.confl, m)
  BY <1>8, PropagateGood, PropagateFine
<1> HIDE DEF r
<1>11. Good(r.s, FALSE) /\ Propagated(r.s) /\ Same(e.s, r.s, PropFields)
       /\ \A m : Fine(e.s, m) => Fine(r.s, m)
  BY <1>10 DEF Propagates, FineWith
<1>12. r.s.nextVar = e.s.nextVar /\ r.s.ok = e.s.ok
  BY <1>11 DEF Same, Fields, PropFields, VisitFields
<1>13. Good(x, FALSE) /\ x.nextVar = o.nextVar /\ x.ok = o.ok
  BY <1>5, <1>8, <1>9, <1>11, <1>12
<1>14. \A m : Fine(o, m) => Fine(x, m)
  BY <1>2, <1>7, <1>11
<1>15. Propagated(x) \/ 0 < Len(x.trailLim)
  BY <1>6, <1>8, <1>9, <1>11
<1> HIDE DEF x
<1>16. BackAt(x, 0, t, FALSE)
  BY <1>3, <1>13, <1>15, CancelBack
<1>17. \A m : Fine(x, m) => Fine(t, m)
  BY <1>3, <1>13, CancelFine DEF Good
<1>18. t.nextVar = x.nextVar /\ t.ok = x.ok
  BY <1>16 DEF BackAt, Same, Fields, CancelFields
<1> QED
  BY <1>13, <1>14, <1>17, <1>18 DEF KeepsAll

-------------------------------------------------------------------------------
(* solve(): each step of the search keeps what follows.                        *)

\* From o the code gets to t, where it is at position at: what followed follows, and
\* the search only answers no with a conflict that follows.
Reaches(o, t, at) ==
    /\ t.nextVar = o.nextVar
    /\ \A m : o.ok /\ Fine(o, m) => t.ok /\ Fine(t, m) /\ (at = "unsat" => Sat(m, t.conflict))

\* One after the other.
LEMMA ReachTwice ==
    ASSUME NEW o, NEW x, NEW t, NEW at, Reaches(o, x, "search"), Reaches(x, t, at)
    PROVE  Reaches(o, t, at)
BY DEF Reaches

\* A change of other fields.
LEMMA ReachSame ==
    ASSUME NEW o, NEW t, NEW fs, Same(o, t, fs), fs \intersect FineFields = {}, t.ok = o.ok,
           NEW at, at = "unsat" => \A m : Fine(o, m) => Sat(m, t.conflict)
    PROVE  Reaches(o, t, at)
<1>1. t.nextVar = o.nextVar
  BY DEF Same, Fields, FineFields
<1>2. \A m : Fine(o, m) => Fine(t, m)
  BY FineSame
<1> QED
  BY <1>1, <1>2 DEF Reaches

\* A change of fields the invariant is not about.
LEMMA ReachTouched ==
    ASSUME NEW o, NEW t, IsTouched(o, t),
           NEW at, at = "unsat" => \A m : Fine(o, m) => Sat(m, t.conflict)
    PROVE  Reaches(o, t, at)
<1>1. Same(o, t, TouchFields) /\ t.ok = o.ok
  BY DEF IsTouched, Same, Fields, TouchFields
<1>2. TouchFields \intersect FineFields = {}
  BY DEF TouchFields, FineFields
<1> QED
  BY <1>1, <1>2, ReachSame

\* A decision.
LEMMA DecideReaches ==
    ASSUME NEW o, GoodBut(o, TRUE), NEW p \in LitsOf(o.nextVar)
    PROVE  Reaches(o, Decide(o, p), "search")
<1> DEFINE d == NewDecisionLevel(o)
           t == UncheckedEnqueue(d, p, CRefUndef)
<1>1. Decide(o, p) = t
  BY DEF Decide
<1>2. IsObject(o)
  BY DEF GoodBut
<1>3. IsOpened(o, d)
  BY <1>2, OpenedFields
<1> HIDE DEF d
<1>4. IsEnqueued(d, p, CRefUndef, t)
  BY <1>3, Enqueued DEF IsOpened
<1> HIDE DEF t
<1>5. t.nextVar = o.nextVar /\ t.ok = o.ok
  BY <1>3, <1>4 DEF IsOpened, IsEnqueued, Same, Fields, OnlyLimits, EnqueueFields
<1>6. \A m : Fine(o, m) => Fine(Decide(o, p), m)
  BY DecideFine
<1> QED
  BY <1>1, <1>5, <1>6 DEF Reaches

\* A decision on a variable of the heap.
LEMMA PickReaches ==
    ASSUME NEW o, Good(o, TRUE), Propagated(o), NEW v \in Eligible(o), NEW h, NEW sign
    PROVE  Reaches(o, Decide([o EXCEPT !.heap = h], MkLit(v, sign)), "search")
<1> DEFINE t == [o EXCEPT !.heap = h]
           p == MkLit(v, sign)
<1>1. o.nextVar \in Nat /\ o.decision \subseteq VarsUpTo(o.nextVar) /\ v \in o.decision /\ IsObject(o)
  BY DEF Good, GoodBut, Types, Eligible
<1>2. p \in LitsOf(o.nextVar)
  BY <1>1, MkLitIn
<1> HIDE DEF p
<1>3. IsTouched(o, t)
  BY <1>1, FieldsTouch
<1>4. AsIs(o, t, TRUE)
  BY <1>3, TouchGood
<1> HIDE DEF t
<1>5. GoodBut(t, TRUE) /\ t.nextVar = o.nextVar
  BY <1>4 DEF AsIs, Good
<1>6. Reaches(o, t, "search")
  BY <1>3, ReachTouched
<1>7. Reaches(t, Decide(t, p), "search")
  BY <1>2, <1>5, DecideReaches
<1>8. Reaches(o, Decide(t, p), "search")
  BY <1>6, <1>7, ReachTwice
<1> QED
  BY <1>8 DEF t, p

\* The assumption that is due is a literal.
LEMMA NextAssumption ==
    ASSUME NEW o, NEW strict, GoodBut(o, strict), o.assumptions \in Seq(LitsOf(o.nextVar)),
           DecisionLevel(o) < Len(o.assumptions)
    PROVE  /\ o.assumptions[DecisionLevel(o) + 1] \in LitsOf(o.nextVar)
           /\ o.assumptions[DecisionLevel(o) + 1] \in ToSet(o.assumptions)
<1> DEFINE level == DecisionLevel(o)
<1>1. level \in Nat
  BY KernelTypes DEF DecisionLevel
<1> HIDE DEF level
<1>2. level + 1 \in DOMAIN o.assumptions
  BY <1>1 DEF level
<1> QED
  BY <1>2 DEF ToSet, level

\* The next decision, or the answer.
LEMMA BranchReaches ==
    ASSUME NEW o, Ready(o), Branch(o)
    PROVE  Reaches(o, s', pc') /\ added' = added
<1> DEFINE level == DecisionLevel(o)
           p == o.assumptions[level + 1]
<1>1. Good(o, TRUE) /\ Propagated(o) /\ o.assumptions \in Seq(LitsOf(o.nextVar)) /\ IsObject(o)
      /\ GoodBut(o, TRUE)
  BY DEF Ready, Stopped, Good, GoodBut
<1>2. CASE level < Len(o.assumptions) /\ Value(o, p) = LFalse
  <2> DEFINE q == Neg(p)
             c == AnalyzeFinal(o, q)
             t == [o EXCEPT !.conflict = c]
  <2>1. s' = t /\ Busy("unsat")
    BY <1>2 DEF Branch
  <2>a. p \in LitsOf(o.nextVar) /\ Val(o.assigns, p) = LFalse /\ o.nextVar \in Nat
        /\ o.assigns \in [VarsUpTo(o.nextVar) -> Lbools]
    BY <1>1, <1>2, NextAssumption, KernelTypes DEF Value, Val
  <2> HIDE DEF p
  <2>b. q \in LitsOf(o.nextVar) /\ Val(o.assigns, q) = LTrue
    BY <2>a, LitFacts, ValFacts
  <2> HIDE DEF q
  <2>2. \A m : Fine(o, m) => Sat(m, c)
    BY <1>1, <2>b, FinalFollows DEF FinalRight
  <2> HIDE DEF c
  <2>3. IsTouched(o, t)
    BY <1>1, FieldsTouch
  <2>4. t.conflict = c
    BY <1>1 DEF IsObject, Fields
  <2> HIDE DEF t
  <2>5. Reaches(o, t, "unsat")
    BY <2>2, <2>3, <2>4, ReachTouched
  <2> QED
    BY <2>1, <2>5 DEF Busy
<1>3. CASE level < Len(o.assumptions) /\ Value(o, p) # LFalse
  <2>1. s' = Decide(o, p) /\ Busy("search")
    BY <1>3 DEF Branch
  <2>2. p \in LitsOf(o.nextVar)
    BY <1>1, <1>3, NextAssumption
  <2> HIDE DEF p
  <2>3. Reaches(o, Decide(o, p), "search")
    BY <1>1, <2>2, DecideReaches
  <2> QED
    BY <2>1, <2>3 DEF Busy
<1>4. CASE ~(level < Len(o.assumptions)) /\ Eligible(o) = {}
  <2> DEFINE h == {}
             t == [o EXCEPT !.heap = h]
  <2>1. s' = t /\ Busy("sat")
    BY <1>4 DEF Branch
  <2> HIDE DEF h
  <2>2. IsTouched(o, t)
    BY <1>1, FieldsTouch
  <2> HIDE DEF t
  <2>3. Reaches(o, t, "sat")
    BY <2>2, ReachTouched
  <2> QED
    BY <2>1, <2>3 DEF Busy
<1>5. CASE ~(level < Len(o.assumptions)) /\ Eligible(o) # {}
  <2>1. \E v \in Eligible(o) : \E sign \in BranchSigns(o, v) :
           s' = Decide([o EXCEPT !.heap = Eligible(o) \ {v}], MkLit(v, sign)) /\ Busy("search")
    BY <1>5 DEF Branch
  <2>2. PICK v \in Eligible(o) : \E sign \in BranchSigns(o, v) :
           s' = Decide([o EXCEPT !.heap = Eligible(o) \ {v}], MkLit(v, sign)) /\ Busy("search")
    BY <2>1
  <2>3. PICK sign \in BranchSigns(o, v) :
           s' = Decide([o EXCEPT !.heap = Eligible(o) \ {v}], MkLit(v, sign)) /\ Busy("search")
    BY <2>2
  <2> DEFINE h == Eligible(o) \ {v}
  <2>4. s' = Decide([o EXCEPT !.heap = h], MkLit(v, sign)) /\ Busy("search")
    BY <2>3
  <2> HIDE DEF h
  <2>5. Reaches(o, Decide([o EXCEPT !.heap = h], MkLit(v, sign)), "search")
    BY <1>1, PickReaches
  <2>6. Reaches(o, s', "search")
    BY <2>4, <2>5
  <2> QED
    BY <2>4, <2>6 DEF Busy
<1> QED
  BY <1>2, <1>3, <1>4, <1>5

\* Learnt clauses are removed.
LEMMA ReduceReaches ==
    ASSUME NEW o, Ready(o), NEW victims \in Reducible(o)
    PROVE  Reaches(o, ReduceDB(o, victims), "search")
<1> DEFINE t == ReduceDB(o, victims)
<1>1. Good(o, TRUE)
  BY DEF Ready, Stopped
<1>2. Unlocked(o, victims)
  BY <1>1, ReducibleUnlocked
<1>3. Reduced(o, t, TRUE)
  BY <1>1, <1>2, ReduceGood
<1>4. \A m : Fine(o, m) => Fine(t, m)
  BY <1>1, <1>2, ReduceFine
<1> HIDE DEF t
<1>5. t.ok = o.ok /\ t.nextVar = o.nextVar
  BY <1>3 DEF Reduced, Same, Fields, ReduceFields, RemoveFields, OnlyLists, MoveFields
<1>6. Reaches(o, t, "search")
  BY <1>4, <1>5 DEF Reaches
<1> QED
  BY <1>6 DEF t

\* The assumptions that hold are skipped.
LEMMA SkipReaches ==
    ASSUME NEW o, Ready(o)
    PROVE  Reaches(o, SkipHolding(o), "search")
<1>1. Good(o, TRUE) /\ Propagated(o) /\ o.assumptions \in Seq(LitsOf(o.nextVar))
  BY DEF Ready, Stopped
<1>2. Len(o.assumptions) \in Nat
  BY <1>1
<1>3. Same(o, SkipHolding(o), OnlyLimits)
  BY <1>1, <1>2, SkipGood DEF SkippedGood
<1>4. OnlyLimits \intersect FineFields = {} /\ SkipHolding(o).ok = o.ok
  BY <1>3 DEF OnlyLimits, FineFields, Same, Fields
<1> QED
  BY <1>3, <1>4, ReachSame

\* No conflict and no limit reached.
LEMMA ExtendReaches ==
    ASSUME NEW o, o.ok => Ready(o), o.ok \in BOOLEAN, Extend(o)
    PROVE  Reaches(o, s', pc') /\ added' = added
<1>1. CASE ~o.ok
  <2>1. s' = o /\ Busy("unsat")
    BY <1>1 DEF Extend
  <2> QED
    BY <1>1, <2>1 DEF Reaches, Busy
<1>2. CASE o.ok
  <2>1. Ready(o)
    BY <1>2
  <2>2. PICK victims \in IF Crowded(o) THEN Reducible(o) ELSE {{}} :
           Branch(SkipHolding(IF Crowded(o) THEN ReduceDB(o, victims) ELSE o))
    BY <1>2 DEF Extend
  <2> DEFINE x == IF Crowded(o) THEN ReduceDB(o, victims) ELSE o
             y == SkipHolding(x)
  <2>3. Ready(x) /\ Reaches(o, x, "search")
    <3>1. CASE Crowded(o)
      <4>1. victims \in Reducible(o)
        BY <2>2, <3>1
      <4>2. Ready(ReduceDB(o, victims)) /\ Reaches(o, ReduceDB(o, victims), "search")
        BY <2>1, <4>1, ReduceReady, ReduceReaches
      <4> QED
        BY <3>1, <4>2
    <3>2. CASE ~Crowded(o)
      BY <2>1, <3>2 DEF Reaches
    <3> QED
      BY <3>1, <3>2
  <2>4. Branch(y)
    BY <2>2
  <2> HIDE DEF x
  <2>5. Ready(y) /\ Reaches(x, y, "search")
    BY <2>3, SkipReady, SkipReaches
  <2> HIDE DEF y
  <2>6. Reaches(y, s', pc') /\ added' = added
    BY <2>4, <2>5, BranchReaches
  <2>7. Reaches(x, s', pc')
    BY <2>5, <2>6, ReachTwice
  <2> QED
    BY <2>3, <2>6, <2>7, ReachTwice
<1> QED
  BY <1>1, <1>2

\* The clauses are simplified at the root.
LEMMA SimplifyReaches ==
    ASSUME NEW o, Idling(o, TRUE), NEW at, at # "unsat"
    PROVE  Reaches(o, Simplify(o), at)
<1> DEFINE t == Simplify(o)
<1>1. SimplifiedTo(o, t, TRUE)
  BY SimplifyGood
<1>2. \A m : o.ok /\ Fine(o, m) => t.ok /\ Fine(t, m)
  BY SimplifyFine
<1> HIDE DEF t
<1>3. t.nextVar = o.nextVar
  BY <1>1 DEF SimplifiedTo, Same, Fields, SimplifyFields, PropFields, VisitFields, CleanFields,
              MoveFields, RemoveFields, OnlyLists, RecycleFields
<1>4. Reaches(o, t, at)
  BY <1>2, <1>3 DEF Reaches
<1> QED
  BY <1>4 DEF t

\* In the loop, that is done at the root only.
LEMMA RootReaches ==
    ASSUME NEW o, Ready(o), NEW t, t = IF DecisionLevel(o) = 0 THEN Simplify(o) ELSE o
    PROVE  Reaches(o, t, "search")
<1>1. CASE DecisionLevel(o) = 0
  <2>1. t = Simplify(o) /\ Good(o, TRUE) /\ Propagated(o)
    BY <1>1 DEF Ready, Stopped
  <2>2. o.trailLim \in Seq(Nat)
    BY <2>1, KernelTypes DEF Good
  <2>3. o.trailLim = <<>>
    BY <1>1, <2>2 DEF DecisionLevel
  <2>4. Idling(o, TRUE)
    BY <2>1, <2>3 DEF Idling, AtRoot
  <2> QED
    BY <2>1, <2>4, SimplifyReaches
<1>2. CASE DecisionLevel(o) # 0
  <2>1. t = o
    BY <1>2
  <2> QED
    BY <2>1 DEF Reaches
<1> QED
  BY <1>1, <1>2

\* Back to a level.
LEMMA CancelReaches ==
    ASSUME NEW o, Good(o, TRUE), Propagated(o), NEW at, at # "unsat"
    PROVE  Reaches(o, CancelUntil(o, 0), at)
<1> DEFINE t == CancelUntil(o, 0)
<1>1. BackAt(o, 0, t, TRUE)
  BY CancelBack
<1>2. \A m : Fine(o, m) => Fine(t, m)
  BY CancelFine DEF Good
<1> HIDE DEF t
<1>3. t.nextVar = o.nextVar /\ t.ok = o.ok
  BY <1>1 DEF BackAt, Same, Fields, CancelFields
<1>4. Reaches(o, t, at)
  BY <1>2, <1>3 DEF Reaches
<1> QED
  BY <1>4 DEF t

\* A conflict at the root: nothing satisfies the clauses.  Above it, what is learnt
\* follows.
LEMMA ConflictFine ==
    ASSUME NEW o, Good(o, TRUE), NEW cr, cr # CRefUndef, ConflictRight(o, cr), NEW m, FineWith(o, cr, m)
    PROVE  DecisionLevel(o) # 0 /\ Fine(Learn(o, Analyze(o, cr)), m)
<1> DEFINE a == Analyze(o, cr)
<1>1. GoodBut(o, TRUE) /\ o.trailLim \in Seq(Nat)
  BY KernelTypes DEF Good
<1>2. Len(o.trailLim) # 0
  BY <1>1, NoRootConflict
<1>3. Len(o.trailLim) > 0
  BY <1>1, <1>2
<1>4. cr \in Lives(o) /\ Fine(o, m)
  BY DEF FineWith
<1>5. AssertingRight(o, a)
  BY <1>1, <1>3, AnalyzeGood
<1>6. SomeTrue(m, a.learnt)
  BY <1>1, <1>3, <1>4, AnalyzeFollows
<1> HIDE DEF a
<1>7. Fine(Learn(o, a), m)
  BY <1>4, <1>5, <1>6, LearnFine
<1> QED
  BY <1>2, <1>7 DEF a, DecisionLevel

\* What is learnt changes neither the number of variables nor ok.
LEMMA LearnCounts ==
    ASSUME NEW o, Good(o, TRUE), NEW cr, ConflictRight(o, cr), DecisionLevel(o) # 0
    PROVE  /\ Learn(o, Analyze(o, cr)).nextVar = o.nextVar
           /\ Learn(o, Analyze(o, cr)).ok = o.ok
<1> DEFINE a == Analyze(o, cr)
           u == Learn(o, a)
<1>1. GoodBut(o, TRUE) /\ o.trailLim \in Seq(Nat)
  BY KernelTypes DEF Good
<1>2. Len(o.trailLim) > 0
  BY <1>1 DEF DecisionLevel
<1>3. AssertingRight(o, a)
  BY <1>1, <1>2, AnalyzeGood
<1> HIDE DEF a
<1>4. LearntGood(o, u)
  BY <1>3, LearnGood
<1> HIDE DEF u
<1>5. u.nextVar = o.nextVar /\ u.ok = o.ok
  BY <1>4 DEF LearntGood, Same, Fields, LearnFields, CancelFields, StoreFields, AttachFields,
              EnqueueFields
<1> QED
  BY <1>5 DEF u, a

\* An object after propagation, with its conflict.
PropagatedTo(o, r) ==
    /\ r.s.nextVar = o.nextVar /\ r.s.ok = o.ok
    /\ \A m : Fine(o, m) => FineWith(r.s, r.confl, m)

\* Propagation in the search keeps what follows.
LEMMA PropagateReaches ==
    ASSUME NEW o, Searching(o)
    PROVE  PropagatedTo(o, Propagate(o))
<1> DEFINE r == Propagate(o)
<1>1. Good(o, TRUE) /\ LevelQueued(o)
  BY DEF Searching
<1>2. Propagates(o, r, TRUE)
  BY <1>1, PropagateGood
<1>3. \A m : Fine(o, m) => FineWith(r.s, r.confl, m)
  BY <1>1, PropagateFine
<1> HIDE DEF r
<1>4. r.s.nextVar = o.nextVar /\ r.s.ok = o.ok
  BY <1>2 DEF Propagates, Same, Fields, PropFields, VisitFields
<1>5. PropagatedTo(o, r)
  BY <1>3, <1>4 DEF PropagatedTo
<1> QED
  BY <1>5 DEF r

\* A conflict in the search.
LEMMA ConflictReaches ==
    ASSUME NEW x, NEW o, Ready(o), NEW confl, confl # CRefUndef, ConflictRight(o, confl),
           o.nextVar = x.nextVar, o.ok = x.ok, \A m : Fine(x, m) => FineWith(o, confl, m),
           NEW b, Conflict([o EXCEPT !.confBudget = b], confl)
    PROVE  Reaches(x, s', pc') /\ added' = added
<1> DEFINE t == [o EXCEPT !.confBudget = b]
<1>1. Good(o, TRUE) /\ IsObject(o)
  BY DEF Ready, Stopped, Good, GoodBut
<1>2. Conflict(t, confl)
  OBVIOUS
<1>3. IsTouched(o, t)
  BY <1>1, FieldsTouch
<1> HIDE DEF t
<1>4. AsIs(o, t, TRUE)
  BY <1>1, <1>3, TouchGood
<1>5. Good(t, TRUE) /\ t.trailLim = o.trailLim /\ t.trail = o.trail /\ t.ok = o.ok /\ t.nextVar = o.nextVar
  BY <1>4 DEF AsIs
<1>6. t.ca = o.ca /\ t.assigns = o.assigns /\ t.level = o.level
  BY <1>3 DEF IsTouched, Same, Fields, TouchFields
<1>7. ConflictRight(t, confl)
  BY <1>5, <1>6 DEF ConflictRight
<1>8. ASSUME NEW m, Fine(x, m)
      PROVE  DecisionLevel(t) # 0 /\ Fine(Learn(t, Analyze(t, confl)), m)
  <2>1. FineWith(o, confl, m)
    BY <1>8
  <2>2. Fine(t, m)
    BY <1>3, <2>1, TouchFine DEF FineWith
  <2>3. confl \in Lives(t)
    BY <1>6, <2>1 DEF FineWith, Lives
  <2>4. FineWith(t, confl, m)
    BY <2>2, <2>3 DEF FineWith
  <2> QED
    BY <1>5, <1>7, <2>4, ConflictFine
<1>9. CASE DecisionLevel(t) = 0
  <2>1. s' = t /\ Busy("unsat")
    BY <1>2, <1>9 DEF Conflict
  <2>2. \A m : ~Fine(x, m)
    BY <1>8, <1>9
  <2>3. Reaches(x, t, "unsat")
    BY <1>5, <2>2 DEF Reaches
  <2> QED
    BY <2>1, <2>3 DEF Busy
<1>10. CASE DecisionLevel(t) # 0
  <2> DEFINE u == Learn(t, Analyze(t, confl))
  <2>1. s' = u /\ Busy("search")
    BY <1>2, <1>10 DEF Conflict
  <2>2. u.nextVar = t.nextVar /\ u.ok = t.ok
    BY <1>5, <1>7, <1>10, LearnCounts
  <2>3. \A m : Fine(x, m) => Fine(u, m)
    BY <1>8
  <2> HIDE DEF u
  <2>4. Reaches(x, u, "search")
    BY <1>5, <2>2, <2>3 DEF Reaches
  <2> QED
    BY <2>1, <2>4 DEF Busy
<1> QED
  BY <1>9, <1>10

\* A step of search() keeps what follows, whichever way it goes.
LEMMA SearchReaches ==
    ASSUME CoreInv, Search
    PROVE  Reaches(s, s', pc') /\ added' = added
<1> DEFINE r == Propagate(s)
           o == r.s
           confl == r.confl
<1>1. pc = "search" /\ AfterPropagate(o, confl)
  BY DEF Search
<1>2. Searching(s)
  BY <1>1 DEF CoreInv, Fits
<1>3. Ready(o) /\ (confl # CRefUndef => ConflictRight(o, confl))
  BY <1>2, PropagateReady
<1>4. PropagatedTo(s, r)
  BY <1>2, PropagateReaches
<1> HIDE DEF r
<1>5. o.nextVar = s.nextVar /\ o.ok = s.ok /\ \A m : Fine(s, m) => FineWith(o, confl, m)
  BY <1>4 DEF PropagatedTo
<1> HIDE DEF o, confl
<1>6. Reaches(s, o, "search")
  BY <1>5 DEF Reaches, FineWith
<1>7. CASE confl # CRefUndef
  <2> DEFINE b == Spend(o.confBudget, 1)
  <2>1. Conflict([o EXCEPT !.confBudget = b], confl)
    BY <1>1, <1>7 DEF AfterPropagate
  <2> HIDE DEF b
  <2> QED
    BY <1>3, <1>5, <1>7, <2>1, ConflictReaches
<1>8. CASE confl = CRefUndef /\ (frame.conflicts >= frame.limit \/ ~WithinBudget(o))
  <2> DEFINE t == CancelUntil(o, 0)
  <2>1. Restart(o)
    BY <1>1, <1>8 DEF AfterPropagate
  <2>2. s' = t /\ (Busy("search") \/ Busy("unknown"))
    BY <2>1, Zenon DEF Restart
  <2>3. Reaches(o, t, "search") /\ Reaches(o, t, "unknown")
    BY <1>3, CancelReaches DEF Ready, Stopped
  <2> HIDE DEF t
  <2>4. pc' \in {"search", "unknown"} /\ added' = added
    BY <2>2 DEF Busy
  <2>5. Reaches(o, s', pc')
    BY <2>2, <2>3, <2>4
  <2> QED
    BY <1>6, <2>4, <2>5, ReachTwice
<1>9. CASE confl = CRefUndef /\ ~(frame.conflicts >= frame.limit \/ ~WithinBudget(o))
  <2> DEFINE x == IF DecisionLevel(o) = 0 THEN Simplify(o) ELSE o
  <2>1. Extend(x)
    BY <1>1, <1>9 DEF AfterPropagate
  <2>2. Stopped(x) /\ (x.ok => Ready(x)) /\ Reaches(o, x, "search")
    BY <1>3, SimplifyReady, RootReaches
  <2> HIDE DEF x
  <2>3. x.ok \in BOOLEAN
    BY <2>2 DEF Stopped, Good, GoodBut, Types
  <2>4. Reaches(x, s', pc') /\ added' = added
    BY <2>1, <2>2, <2>3, ExtendReaches
  <2>5. Reaches(s, x, "search")
    BY <1>6, <2>2, ReachTwice
  <2> QED
    BY <2>4, <2>5, ReachTwice
<1> QED
  BY <1>7, <1>8, <1>9

-------------------------------------------------------------------------------
(* The invariant, with what the client has stated.                             *)

\* What o keeps at position at of a call follows from the clauses cs.
FollowsFrom(o, cs, at) ==
    /\ cs \subseteq SUBSET LitsOf(o.nextVar)
    /\ \A m : (\A c \in cs : Sat(m, c)) => o.ok /\ Fine(o, m) /\ (at = "unsat" => Sat(m, o.conflict))

\* The inductive invariant: the object is in order, and what it keeps follows.
FineInv == CoreInv /\ FollowsFrom(s, added, pc)

\* A step that adds no clause.
LEMMA FollowReach ==
    ASSUME NEW o, NEW cs, NEW at, FollowsFrom(o, cs, at), NEW t, NEW next, Reaches(o, t, next)
    PROVE  FollowsFrom(t, cs, next)
BY DEF FollowsFrom, Reaches

\* The end of a search with a model.
LEMMA FoundModelFollows ==
    ASSUME FineInv, FoundModel
    PROVE  FollowsFrom(s', added', pc')
<1> DEFINE model == [v \in 0 .. s.nextVar - 1 |-> s.assigns[v]]
           t == [s EXCEPT !.model = model]
           m == CancelUntil(t, 0)
<1>1. pc = "sat" /\ Finish(m, "solve", LTrue) /\ CoreInv /\ client.simp = FALSE
  BY DEF FoundModel, FineInv, CoreInv
<1>2. Good(s, TRUE) /\ Propagated(s) /\ IsObject(s) /\ frame.simp = FALSE
  BY <1>1 DEF CoreInv, Fits, Stopped, Good, GoodBut
<1> HIDE DEF model
<1>3. IsTouched(s, t)
  BY <1>2, FieldsTouch
<1>4. AsIs(s, t, TRUE)
  BY <1>2, <1>3, TouchGood
<1> HIDE DEF t
<1>5. Good(t, TRUE) /\ Propagated(t)
  BY <1>2, <1>4 DEF AsIs, Propagated
<1>6. Reaches(s, t, "search")
  BY <1>3, ReachTouched
<1>7. Reaches(t, m, "client")
  BY <1>5, CancelReaches
<1> HIDE DEF m
<1>8. Reaches(s, m, "client")
  BY <1>6, <1>7, ReachTwice
<1>9. s' = m /\ pc' = "client" /\ added' = added
  BY <1>1, <1>2 DEF Finish, asked
<1>10. FollowsFrom(m, added, "client")
  BY <1>8, FollowReach DEF FineInv
<1> QED
  BY <1>9, <1>10

\* The end of a search without one: ok is given up only if the conflict is empty.
LEMMA FoundUnsatFollows ==
    ASSUME FineInv, FoundUnsat
    PROVE  FollowsFrom(s', added', pc')
<1> DEFINE b == s.ok /\ s.conflict # {}
           t == [s EXCEPT !.ok = b]
           m == CancelUntil(t, 0)
<1>1. pc = "unsat" /\ Finish(m, "solve", LFalse) /\ CoreInv
  BY DEF FoundUnsat, FineInv
<1>2. Good(s, TRUE) /\ Propagated(s) /\ frame.simp = FALSE /\ IsObject(s)
  BY <1>1 DEF CoreInv, Fits, Stopped, Good, GoodBut
<1>3. FollowsFrom(s, added, "unsat")
  BY <1>1 DEF FineInv
<1>4. b \in BOOLEAN /\ (b => s.ok) /\ (\A w : s.ok /\ Sat(w, s.conflict) => b)
  BY <1>2 DEF Good, GoodBut, Types, Sat
<1> HIDE DEF b
<1>5. Good(t, TRUE) /\ t.trail = s.trail /\ t.qhead = s.qhead
  BY <1>2, <1>4, OkGood
<1>6. Same(s, t, OnlyOk) /\ t.ok = b
  BY <1>2 DEF Same, Fields, OnlyOk, IsObject
<1> HIDE DEF t
<1>7. OnlyOk \intersect FineFields = {} /\ t.nextVar = s.nextVar
  BY <1>6 DEF OnlyOk, FineFields, Same, Fields
<1>8. \A w : Fine(s, w) => Fine(t, w)
  BY <1>6, <1>7, FineSame
<1>9. FollowsFrom(t, added, "client")
  BY <1>3, <1>4, <1>6, <1>7, <1>8 DEF FollowsFrom
<1>10. Good(t, TRUE) /\ Propagated(t)
  BY <1>2, <1>5 DEF Propagated
<1>11. Reaches(t, m, "client")
  BY <1>10, CancelReaches
<1> HIDE DEF m
<1>12. s' = m /\ pc' = "client" /\ added' = added
  BY <1>1, <1>2 DEF Finish, asked
<1>13. FollowsFrom(m, added, "client")
  BY <1>9, <1>11, FollowReach
<1> QED
  BY <1>12, <1>13

\* The end of a search that ran out of budget.
LEMMA GaveUpFollows ==
    ASSUME FineInv, GaveUp
    PROVE  FollowsFrom(s', added', pc')
<1> DEFINE m == CancelUntil(s, 0)
<1>1. pc = "unknown" /\ Finish(m, "solve", LUndef) /\ CoreInv
  BY DEF GaveUp, FineInv
<1>2. Good(s, TRUE) /\ Propagated(s) /\ frame.simp = FALSE
  BY <1>1 DEF CoreInv, Fits, Stopped
<1>3. Reaches(s, m, "client")
  BY <1>2, CancelReaches
<1> HIDE DEF m
<1>4. s' = m /\ pc' = "client" /\ added' = added
  BY <1>1, <1>2 DEF Finish, asked
<1>5. FollowsFrom(m, added, "client")
  BY <1>3, FollowReach DEF FineInv
<1> QED
  BY <1>4, <1>5

\* An object as it was.
LEMMA StillFollows ==
    ASSUME NEW o, NEW cs, NEW at, FollowsFrom(o, cs, at), NEW next, next # "unsat"
    PROVE  FollowsFrom(o, cs, next)
BY DEF FollowsFrom

\* A return from elimination.
LEMMA ReturnEliminatedFollows ==
    ASSUME FineInv, ReturnEliminated
    PROVE  FollowsFrom(s', added', pc')
<1>1. frame.simp = FALSE /\ FollowsFrom(s, added, pc)
  BY DEF FineInv, CoreInv
<1>2. s' = s /\ pc' = "client" /\ added' = added
  BY <1>1 DEF ReturnEliminated, Finish, asked
<1>3. FollowsFrom(s, added, "client")
  BY <1>1, StillFollows
<1> QED
  BY <1>2, <1>3

-------------------------------------------------------------------------------
(* The calls.                                                                  *)

\* What holds when a call is made.
LEMMA CallFollows ==
    ASSUME FineInv, pc = "client"
    PROVE  /\ Idling(s, TRUE) /\ client.simp = FALSE /\ FollowsFrom(s, added, "client")
           /\ s.useSimp = FALSE /\ s.nextVar \in Nat /\ s.assigns \in [VarsUpTo(s.nextVar) -> Lbools]
           /\ added \subseteq SUBSET LitsOf(s.nextVar)
<1>1. Idling(s, TRUE) /\ client.simp = FALSE
  BY ClientIdle DEF FineInv
<1>2. s.useSimp = FALSE /\ s.nextVar \in Nat /\ s.assigns \in [VarsUpTo(s.nextVar) -> Lbools]
  BY <1>1 DEF Idling, AtRoot, Good, GoodBut, Types
<1>3. FollowsFrom(s, added, "client")
  BY DEF FineInv
<1> QED
  BY <1>1, <1>2, <1>3 DEF FollowsFrom

\* The value that a variable has joins an assignment.
WithValue(m, v) == IF s.assigns[v] = LTrue THEN m \union {v} ELSE m \ {v}

\* With its value, the literal that the solver makes true is true.
LEMMA ValueJoined ==
    ASSUME NEW n \in Nat, n = s.nextVar, s.assigns \in [VarsUpTo(n) -> Lbools], NEW m, NEW v,
           NEW p \in LitsOf(n), VarOf(p) = v, Value(s, p) = LTrue
    PROVE  Truth(WithValue(m, v), p)
<1>1. s.assigns[v] \in Lbools
  BY LitFacts
<1>2. CASE Sign(p)
  <2>1. s.assigns[v] = LFalse
    BY <1>1, <1>2 DEF Value, LXor, Lbools, LTrue, LFalse, LUndef
  <2>2. v \notin WithValue(m, v)
    BY <2>1 DEF WithValue, LTrue, LFalse
  <2>3. (v \in WithValue(m, v)) = FALSE /\ Sign(p) = TRUE
    BY <1>2, <2>2 DEF Sign
  <2> QED
    BY <2>3 DEF Truth
<1>3. CASE ~Sign(p)
  <2>1. s.assigns[v] = LTrue
    BY <1>1, <1>3 DEF Value, LXor, Lbools, LTrue, LFalse, LUndef
  <2>2. v \in WithValue(m, v)
    BY <2>1 DEF WithValue
  <2>3. (v \in WithValue(m, v)) = TRUE /\ Sign(p) = FALSE
    BY <1>3, <2>2 DEF Sign
  <2> QED
    BY <2>3 DEF Truth
<1> QED
  BY <1>2, <1>3

\* newVar().
LEMMA NewVarFollows ==
    ASSUME FineInv, CallNewVar
    PROVE  FollowsFrom(s', added', pc')
<1> DEFINE upol == Call.upol
           dvar == Call.dvar
           v == FreshVar(s)
           t == NewVar(s, upol, dvar)
           n == s.nextVar
<1>1. pc = "client" /\ pc' = "client"
  BY DEF CallNewVar, Calls, Returns
<1>2. /\ Idling(s, TRUE) /\ client.simp = FALSE /\ FollowsFrom(s, added, "client") /\ n \in Nat
      /\ s.assigns \in [VarsUpTo(n) -> Lbools] /\ added \subseteq SUBSET LitsOf(n)
  BY <1>1, CallFollows
<1>3. s' = t /\ added' = UNION {Known(c, v) : c \in added}
  BY <1>2 DEF CallNewVar
<1> HIDE DEF upol, dvar
<1>4. t.nextVar \in Nat /\ n <= t.nextVar
  <2>1. IsObject(s) /\ Types(s)
    BY <1>2 DEF Idling, AtRoot, Good, GoodBut
  <2>2. PICK x : IsFresh(s, v, x) /\ t = SetDecisionVar(x, v, dvar)
    BY <2>1, NewVarFresh
  <2> HIDE DEF v, t
  <2>3. IsObject(x) /\ x.nextVar = (IF s.freeVars = <<>> THEN n + 1 ELSE n)
    BY <2>2 DEF IsFresh
  <2>4. DecisionSet(x, v, t)
    BY <2>2, <2>3, DecisionSetFields
  <2>5. t.nextVar = x.nextVar
    BY <2>4 DEF DecisionSet, Same, Fields, BranchFields
  <2> QED
    BY <1>2, <2>3, <2>5
<1>5. \A c \in added : Known(c, v) \subseteq SUBSET c
  BY DEF Known
<1>6. added' \subseteq SUBSET LitsOf(t.nextVar)
  <2>1. LitsOf(n) \subseteq LitsOf(t.nextVar)
    BY <1>2, <1>4, LitsGrow
  <2> HIDE DEF t, v, n
  <2>2. \A d \in added' : \E c \in added : d \subseteq c
    BY <1>3, <1>5
  <2> QED
    BY <1>2, <2>1, <2>2
<1>7. ASSUME NEW m, \A c \in added' : Sat(m, c)
      PROVE  t.ok /\ Fine(t, m)
  <2> DEFINE m2 == WithValue(m, v)
  <2>1. AgreeBut(m, m2, v)
    BY DEF AgreeBut, WithValue
  <2>2. ASSUME NEW c \in added
        PROVE  Sat(m2, c)
    <3>1. \A d \in Known(c, v) : d \in added'
      BY <1>3
    <3>2. \A d \in Known(c, v) : Sat(m, d)
      BY <1>7, <3>1
    <3>3. c \subseteq LitsOf(n)
      BY <1>2
    <3>4. \A p \in c : VarOf(p) = v /\ Value(s, p) = LTrue => Truth(m2, p)
      BY <1>2, <3>3, ValueJoined
    <3> HIDE DEF m2, v
    <3> QED
      BY <2>1, <3>2, <3>4, KnownSat
  <2> HIDE DEF m2
  <2>3. s.ok /\ Fine(s, m2)
    BY <1>2, <2>2 DEF FollowsFrom
  <2>4. Fine(t, m) /\ t.ok = s.ok
    BY <1>2, <2>1, <2>3, NewVarFine
  <2> QED
    BY <2>3, <2>4
<1> HIDE DEF t, v
<1>8. FollowsFrom(t, added', "client")
  BY <1>6, <1>7 DEF FollowsFrom
<1> QED
  BY <1>1, <1>3, <1>8

\* addClause_().
LEMMA AddClauseFollows ==
    ASSUME FineInv, CallAddClause
    PROVE  FollowsFrom(s', added', pc')
<1> DEFINE lits == Call.lits
           t == CoreAddClause(s, lits)
<1>1. pc = "client" /\ pc' = "client" /\ added' = added \union {ToSet(lits)}
  BY DEF CallAddClause, Calls, Returns
<1>2. Idling(s, TRUE) /\ client.simp = FALSE /\ FollowsFrom(s, added, "client")
      /\ added \subseteq SUBSET LitsOf(s.nextVar)
  BY <1>1, CallFollows
<1>3. s' = t
  BY <1>2 DEF CallAddClause, AddClause
<1>4. lits \in Seq({p \in Lit : Kept(p)})
  BY DEF CallAddClause, Calls, Legal
<1> HIDE DEF lits
<1>5. lits \in Seq(LitsOf(s.nextVar))
  BY <1>4, LegalLits
<1>6. AddedTo(s, t, TRUE)
  BY <1>2, <1>5, AddClauseGood
<1>7. t.nextVar = s.nextVar
  <2> HIDE DEF t
  <2> QED
    BY <1>6 DEF AddedTo, Same, Fields, AddFields, PropFields, VisitFields, EnqueueFields, StoreFields,
                AttachFields
<1>8. ToSet(lits) \subseteq LitsOf(s.nextVar)
  BY <1>5 DEF ToSet
<1>9. ASSUME NEW m, \A c \in added' : Sat(m, c)
      PROVE  t.ok /\ Fine(t, m)
  <2>1. (\A c \in added : Sat(m, c)) /\ Sat(m, ToSet(lits))
    BY <1>1, <1>9
  <2>2. s.ok /\ Fine(s, m)
    BY <1>2, <2>1 DEF FollowsFrom
  <2>3. SomeTrue(m, lits)
    BY <2>1 DEF Sat, ToSet, SomeTrue
  <2> QED
    BY <1>2, <1>5, <2>2, <2>3, AddClauseFine
<1> HIDE DEF t
<1>10. added' \subseteq SUBSET LitsOf(t.nextVar)
  BY <1>1, <1>2, <1>7, <1>8
<1>11. FollowsFrom(t, added', "client")
  BY <1>9, <1>10 DEF FollowsFrom
<1> QED
  BY <1>1, <1>3, <1>11

\* releaseVar().
LEMMA ReleaseVarFollows ==
    ASSUME FineInv, CallReleaseVar
    PROVE  FollowsFrom(s', added', pc')
<1> DEFINE p == Call.lit
           t == CoreReleaseVar(s, p)
           c == CoreAddClause(s, <<p>>)
<1>1. pc = "client" /\ pc' = "client"
      /\ added' = IF s.useSimp \/ Value(s, p) = LUndef THEN added \union {{p}} ELSE added
  BY DEF CallReleaseVar, Calls, Returns
<1>2. Idling(s, TRUE) /\ client.simp = FALSE /\ FollowsFrom(s, added, "client") /\ s.useSimp = FALSE
      /\ added \subseteq SUBSET LitsOf(s.nextVar)
  BY <1>1, CallFollows
<1>3. s' = t
  BY <1>2 DEF CallReleaseVar
<1>4. p \in Lit
  BY DEF CallReleaseVar, Calls, Legal
<1>5. p \in LitsOf(s.nextVar)
  BY <1>4 DEF Lit, LitsOf
<1>6. added' = IF Value(s, p) = LUndef THEN added \union {{p}} ELSE added
  BY <1>1, <1>2
<1> HIDE DEF p
<1>7. t.nextVar = s.nextVar
  <2>1. <<p>> \in Seq(LitsOf(s.nextVar))
    BY <1>5
  <2>2. AddedTo(s, c, TRUE)
    BY <1>2, <2>1, AddClauseGood
  <2>3. t = s \/ t.nextVar = c.nextVar
    BY DEF CoreReleaseVar
  <2> HIDE DEF t, c
  <2>4. c.nextVar = s.nextVar
    BY <2>2 DEF AddedTo, Same, Fields, AddFields, PropFields, VisitFields, EnqueueFields, StoreFields,
                AttachFields
  <2> QED
    BY <2>3, <2>4
<1>8. ASSUME NEW m, \A d \in added' : Sat(m, d)
      PROVE  t.ok /\ Fine(t, m)
  <2>1. \A d \in added : Sat(m, d)
    BY <1>6, <1>8
  <2>2. s.ok /\ Fine(s, m)
    BY <1>2, <2>1 DEF FollowsFrom
  <2>3. Value(s, p) = LUndef => Truth(m, p)
    <3>1. Value(s, p) = LUndef => Sat(m, {p})
      BY <1>6, <1>8
    <3> QED
      BY <3>1 DEF Sat
  <2> QED
    BY <1>2, <1>5, <2>2, <2>3, ReleaseFine
<1> HIDE DEF t
<1>9. added' \subseteq SUBSET LitsOf(t.nextVar)
  BY <1>2, <1>5, <1>6, <1>7
<1>10. FollowsFrom(t, added', "client")
  BY <1>8, <1>9 DEF FollowsFrom
<1> QED
  BY <1>1, <1>3, <1>10

\* A call that adds no clause and returns.
LEMMA ReturnsFollow ==
    ASSUME FineInv, pc = "client", Reaches(s, s', "client"), pc' = "client", added' = added
    PROVE  FollowsFrom(s', added', pc')
BY FollowReach DEF FineInv

\* The setters.
LEMMA SetterFollows ==
    ASSUME FineInv, CallSetter
    PROVE  FollowsFrom(s', added', pc')
<1> DEFINE c == Call
<1>1. PICK op \in Setters : Calls(op)
  BY DEF CallSetter
<1>2. pc = "client" /\ c.op \in Setters /\ Legal(c)
  BY <1>1 DEF Calls
<1>3. s' = Setting(c) /\ pc' = "client" /\ added' = added
  BY <1>2 DEF CallSetter, Returns
<1> HIDE DEF c
<1>4. Idling(s, TRUE) /\ client.simp = FALSE
  BY <1>2, CallFollows
<1>5. IsObject(s)
  BY <1>4 DEF Idling, AtRoot, Good, GoodBut
<1> DEFINE x == c.var
           y == c.value
<1>6. c.op \in {"setPolarity", "setDecisionVar", "setConfBudget", "setPropBudget", "clearInterrupt"}
  <2>1. c.op \notin {"setFrozen", "freezeVar", "thaw"}
    BY <1>2, <1>4 DEF Legal
  <2> QED
    BY <1>2, <2>1 DEF Setters
<1>7. CASE c.op = "setDecisionVar"
  <2> DEFINE t == SetDecisionVar(s, x, y)
  <2>1. s' = t
    BY <1>3, <1>7 DEF Setting
  <2> HIDE DEF x, y
  <2>2. DecisionSet(s, x, t)
    BY <1>5, DecisionSetFields
  <2> HIDE DEF t
  <2>3. Same(s, t, BranchFields) /\ t.ok = s.ok /\ BranchFields \intersect FineFields = {}
    BY <2>2 DEF DecisionSet, Same, Fields, BranchFields, FineFields
  <2>4. Reaches(s, t, "client")
    BY <2>3, ReachSame
  <2> QED
    BY <1>2, <1>3, <2>1, <2>4, ReturnsFollow
<1>8. CASE c.op # "setDecisionVar"
  <2>1. s' \in {SetPolarity(s, x, y), SetConfBudget(s, y), SetPropBudget(s, y), ClearInterrupt(s)}
    BY <1>3, <1>6, <1>8 DEF Setting
  <2> HIDE DEF x, y
  <2>2. IsTouched(s, SetPolarity(s, x, y))
    BY <1>5, SettersTouch
  <2>3. IsTouched(s, SetConfBudget(s, y))
    BY <1>5, SettersTouch
  <2>4. IsTouched(s, SetPropBudget(s, y))
    BY <1>5, SettersTouch
  <2>5. IsTouched(s, ClearInterrupt(s))
    BY <1>5, SettersTouch
  <2>6. IsTouched(s, s')
    BY <2>1, <2>2, <2>3, <2>4, <2>5
  <2>7. Reaches(s, s', "client")
    BY <2>6, ReachTouched
  <2> QED
    BY <1>2, <1>3, <2>7, ReturnsFollow
<1> QED
  BY <1>7, <1>8

\* simplify().
LEMMA SimplifyFollows ==
    ASSUME FineInv, CallSimplify
    PROVE  FollowsFrom(s', added', pc')
<1>1. pc = "client" /\ s' = Simplify(s) /\ pc' = "client" /\ added' = added
  BY DEF CallSimplify, Calls, Returns
<1>2. Idling(s, TRUE)
  BY <1>1, CallFollows
<1>3. Reaches(s, Simplify(s), "client")
  BY <1>2, SimplifyReaches
<1> QED
  BY <1>1, <1>3, ReturnsFollow

\* implies().
LEMMA ImpliesFollows ==
    ASSUME FineInv, CallImplies
    PROVE  FollowsFrom(s', added', pc')
<1> DEFINE lits == Call.lits
           e == EnqueueAssumed(NewDecisionLevel(s), lits)
           r == Propagate(e.s)
           t == CancelUntil(IF e.clash THEN e.s ELSE r.s, 0)
<1>1. pc = "client" /\ pc' = "client" /\ added' = added
  BY DEF CallImplies, Calls, Returns
<1>2. s' = t
  BY DEF CallImplies
<1>3. Idling(s, TRUE)
  BY <1>1, CallFollows
<1>4. lits \in Seq(Lit)
  BY DEF CallImplies, Calls, Legal
<1>5. lits \in Seq(LitsOf(s.nextVar))
  BY <1>4 DEF Lit, LitsOf
<1>6. e = EnqueueAssumed(NewDecisionLevel(s), lits)
      /\ t = CancelUntil(IF e.clash THEN e.s ELSE Propagate(e.s).s, 0)
  OBVIOUS
<1> HIDE DEF lits, e, t
<1>7. KeepsAll(s, t)
  BY <1>3, <1>5, <1>6, ImpliesFine
<1>8. Reaches(s, t, "client")
  BY <1>7 DEF Reaches, KeepsAll
<1>9. s' = t
  BY <1>2 DEF t, e, lits
<1> QED
  BY <1>1, <1>8, <1>9, ReturnsFollow

\* toDimacs().
LEMMA ToDimacsFollows ==
    ASSUME FineInv, CallToDimacs
    PROVE  FollowsFrom(s', added', pc')
<1>1. pc = "client" /\ s' = s /\ pc' = "client" /\ added' = added
  BY DEF CallToDimacs, Calls, Returns
<1>2. FollowsFrom(s, added, "client")
  BY <1>1, CallFollows
<1> QED
  BY <1>1, <1>2

\* eliminate(), which a Solver does not have.
LEMMA EliminateFollows ==
    ASSUME FineInv, CallEliminate
    PROVE  FollowsFrom(s', added', pc')
<1>1. pc = "client" /\ s' = Simplify(s) /\ Busy(IF s'.ok /\ s.useSimp THEN "subsume" ELSE "eliminated")
  BY DEF CallEliminate, Calls
<1>2. Idling(s, TRUE) /\ s.useSimp = FALSE
  BY <1>1, CallFollows
<1>3. pc' = "eliminated" /\ added' = added
  BY <1>1, <1>2 DEF Busy
<1>4. Reaches(s, Simplify(s), "eliminated")
  BY <1>2, SimplifyReaches
<1>5. Reaches(s, s', pc')
  BY <1>1, <1>3, <1>4
<1> QED
  BY <1>3, <1>5, FollowReach DEF FineInv

\* The entry into a search.
LEMMA EnterReaches ==
    ASSUME NEW o, IsObject(o), NEW f, EnterSearch(o, f)
    PROVE  Reaches(o, s', pc') /\ added' = added
<1> DEFINE t == StartSearch(o)
<1>1. s' = t /\ added' = added /\ pc' = (IF o.ok THEN "search" ELSE "unsat")
  BY DEF EnterSearch, Busy
<1>2. IsTouched(o, t)
  BY StartFresh
<1> HIDE DEF t
<1>3. CASE o.ok
  <2>1. Reaches(o, t, "search")
    BY <1>2, ReachTouched
  <2> QED
    BY <1>1, <1>3, <2>1
<1>4. CASE ~o.ok
  <2>1. t.nextVar = o.nextVar
    BY <1>2 DEF IsTouched, Same, Fields, TouchFields
  <2>2. Reaches(o, t, "unsat")
    BY <1>4, <2>1 DEF Reaches
  <2> QED
    BY <1>1, <1>4, <2>2
<1> QED
  BY <1>3, <1>4

\* The object a solve() starts from.
LEMMA PreparedReaches ==
    ASSUME IsObject(s), NEW c
    PROVE  Reaches(s, Prepared(c), "search") /\ IsObject(Prepared(c))
<1> DEFINE lits == c.lits
           o == [s EXCEPT !.assumptions = lits]
           u == BudgetOff(o)
           t == Prepared(c)
<1>1. t = o \/ t = u
  BY DEF Prepared
<1> HIDE DEF t, lits
<1>2. IsTouched(s, o)
  BY FieldsTouch
<1> HIDE DEF o
<1>3. IsObject(o)
  BY <1>2 DEF IsTouched
<1>4. IsTouched(o, u)
  BY <1>3, SettersTouch
<1> HIDE DEF u
<1>5. IsTouched(s, u)
  BY <1>2, <1>4, TouchTwice
<1>6. IsTouched(s, t)
  BY <1>1, <1>2, <1>5
<1>7. Reaches(s, t, "search") /\ IsObject(t)
  BY <1>6, ReachTouched DEF IsTouched
<1> QED
  BY <1>7 DEF t

\* solve().
LEMMA SolveFollows ==
    ASSUME FineInv, CallSolve
    PROVE  FollowsFrom(s', added', pc')
<1> DEFINE c == Call
           f == [NoFrame EXCEPT !.simp = FALSE, !.turnOff = c.turnOff, !.search = TRUE,
                                !.extraFrozen = <<>>]
           o == Prepared(c)
<1>1. pc = "client"
  BY DEF CallSolve, Calls
<1>2. Idling(s, TRUE) /\ s.useSimp = FALSE
  BY <1>1, CallFollows
<1>3. EnterSearch(o, f)
  BY <1>2 DEF CallSolve
<1>4. IsObject(s)
  BY <1>2 DEF Idling, AtRoot, Good, GoodBut
<1> HIDE DEF c, f
<1>5. Reaches(s, o, "search") /\ IsObject(o)
  BY <1>4, PreparedReaches
<1> HIDE DEF o
<1>6. Reaches(o, s', pc') /\ added' = added
  BY <1>3, <1>5, EnterReaches
<1>7. Reaches(s, s', pc')
  BY <1>5, <1>6, ReachTwice
<1> QED
  BY <1>6, <1>7, FollowReach DEF FineInv

-------------------------------------------------------------------------------
(* The theorem.                                                                *)

\* A step of the client's thread.
LEMMA StepFollows ==
    ASSUME FineInv, Step
    PROVE  FollowsFrom(s', added', pc')
<1>0. CoreInv
  BY DEF FineInv
<1>1. CASE CallSubstitute
  BY <1>0, <1>1 DEF CallSubstitute, Calls, Legal, CoreInv
<1>2. CASE MakeCall
  BY <1>1, <1>2, NewVarFollows, AddClauseFollows, ReleaseVarFollows, SetterFollows, SimplifyFollows,
     ImpliesFollows, ToDimacsFollows, SolveFollows, EliminateFollows DEF MakeCall
<1>3. CASE Search
  <2>1. Reaches(s, s', pc') /\ added' = added
    BY <1>0, <1>3, SearchReaches
  <2> QED
    BY <2>1, FollowReach DEF FineInv
<1>4. CASE Work
  BY <1>0, <1>3, <1>4, NoElimination, ReturnEliminatedFollows, FoundModelFollows, FoundUnsatFollows,
     GaveUpFollows DEF Work
<1> QED
  BY <1>2, <1>4 DEF Step

\* interrupt() from a handler.
LEMMA InterruptedFollows ==
    ASSUME FineInv, Interrupted
    PROVE  FollowsFrom(s', added', pc')
<1> DEFINE t == Interrupt(s)
<1>1. s' = t /\ pc' = pc /\ added' = added
  BY DEF Interrupted, asked
<1>2. IsObject(s)
  BY DEF FineInv, CoreInv, Fits, Searching, Stopped, Good, GoodBut
<1>3. IsTouched(s, t)
  BY <1>2, SettersTouch
<1>4. t.conflict = s.conflict
  BY DEF Interrupt
<1> HIDE DEF t
<1>5. FollowsFrom(s, added, pc)
  BY DEF FineInv
<1>6. t.ok = s.ok /\ t.nextVar = s.nextVar
  BY <1>3 DEF IsTouched, Same, Fields, TouchFields
<1>7. \A m : Fine(s, m) => Fine(t, m)
  BY <1>3, TouchFine
<1>8. FollowsFrom(t, added, pc)
  BY <1>4, <1>5, <1>6, <1>7 DEF FollowsFrom
<1> QED
  BY <1>1, <1>8

\* The invariant holds when the program starts.
LEMMA FineInvInit ==
    ASSUME \A i \in DOMAIN Clients : Clients[i].simp = FALSE, MainInit
    PROVE  FineInv
<1>1. CoreInv
  BY CoreInvInit
<1> DEFINE opt == client.opt
<1>2. s = NewSolver(opt) /\ pc = "client" /\ added = {}
  BY <1>1 DEF MainInit, Init, CoreInv
<1> HIDE DEF opt
<1>3. /\ s.nextVar = 0 /\ s.ok = TRUE /\ s.ca = EmptyRegion(FALSE) /\ s.freeVars = <<>>
  BY <1>2 DEF NewSolver
<1>4. Lives(s) = {} /\ LitsOf(s.nextVar) = {}
  BY <1>3 DEF Lives, EmptyRegion, LitsOf
<1>5. \A m : Fine(s, m)
  BY <1>4 DEF Fine, AllListed, RootHolds, LiveHolds
<1> QED
  BY <1>1, <1>2, <1>3, <1>5 DEF FineInv, FollowsFrom

\* Every step of the program keeps the invariant.
LEMMA FineInvNext ==
    ASSUME FineInv, [Next]_mainVars
    PROVE  FineInv'
<1>1. CoreInv'
  BY CoreInvNext DEF FineInv
<1>2. CASE Proceed
  BY <1>1, <1>2, StepFollows DEF Proceed, FineInv
<1>3. CASE UNCHANGED <<s, pc, added>>
  BY <1>1, <1>3 DEF FineInv
<1>4. CASE Interrupted
  BY <1>1, <1>4, InterruptedFollows DEF FineInv
<1>5. CASE Exit
  <2>1. UNCHANGED <<s, pc, added>>
    BY <1>5 DEF Exit, ExitWith
  <2> QED
    BY <1>3, <2>1
<1>6. CASE Signal
  <2>1. Interrupted \/ UNCHANGED <<s, pc, added>>
    BY <1>6 DEF Signal, ExitWith
  <2> QED
    BY <1>3, <1>4, <2>1
<1>7. CASE Interruption
  BY <1>4, <1>7 DEF Interruption
<1>8. CASE OutOfMemory
  <2>1. UNCHANGED <<s, pc, added>>
    BY <1>8 DEF OutOfMemory, ExitWith
  <2> QED
    BY <1>3, <2>1
<1>9. CASE Idle \/ UNCHANGED mainVars
  <2>1. UNCHANGED <<s, pc, added>>
    BY <1>9 DEF Idle, mainVars, vars
  <2> QED
    BY <1>3, <2>1
<1> QED
  BY <1>2, <1>5, <1>6, <1>7, <1>8, <1>9 DEF Next

\* What the invariant says of the clauses that are attached and of the root.
LEMMA FineInvFollows ==
    ASSUME FineInv
    PROVE  EveryClauseFollows
<1>1. ASSUME NEW m \in Models
      PROVE  s.ok /\ Fine(s, m)
  <2>1. \A c \in added : Sat(m, c)
    BY <1>1 DEF Models
  <2> QED
    BY <2>1 DEF FineInv, FollowsFrom
<1>2. Good(s, TRUE)
  BY DEF FineInv, CoreInv, Fits, Searching, Stopped
<1>3. /\ s.nextVar \in Nat /\ s.assigns \in [VarsUpTo(s.nextVar) -> Lbools]
      /\ s.clauses \in Seq(DOMAIN s.ca.at) /\ s.learnts \in Seq(DOMAIN s.ca.at)
  BY <1>2, KernelTypes DEF Good, GoodBut
<1>4. ASSUME NEW cr \in Attached, NEW m \in Models
      PROVE  Sat(m, ToSet(Lits(s, cr)))
  <2>1. (cr \in ToSet(s.clauses) \/ cr \in ToSet(s.learnts)) /\ s.ca.at[cr].mark # 1
    BY DEF Attached, IsRemoved
  <2>2. cr \in DOMAIN s.ca.at
    BY <1>3, <2>1 DEF ToSet
  <2>3. cr \in Lives(s)
    BY <2>1, <2>2 DEF Lives
  <2>4. Holds(m, s.ca.at[cr].lits, Range(s.freeVars))
    BY <1>1, <2>3 DEF Fine, LiveHolds
  <2> QED
    BY <2>4 DEF Holds, Sat, ToSet, Lits
<1>5. ASSUME NEW p \in RootFacts, NEW m \in Models
      PROVE  Truth(m, p)
  <2>1. PICK v \in 0 .. s.nextVar - 1 : RootTrue(v) /\ p = MkLit(v, s.assigns[v] = LFalse)
    BY DEF RootFacts
  <2> DEFINE b == s.assigns[v] = LFalse
  <2>2. v \in VarsUpTo(s.nextVar) /\ s.assigns[v] # LUndef /\ s.level[v] = 0 /\ s.assigns[v] \in Lbools
    BY <1>3, <2>1 DEF RootTrue, VarsUpTo
  <2>3. b \in BOOLEAN /\ p = MkLit(v, b)
    BY <2>1
  <2> HIDE DEF b
  <2>4. p \in LitsOf(s.nextVar) /\ VarOf(p) = v
    BY <1>3, <2>2, <2>3, MkLitIn
  <2>5. Sign(p) <=> b
    <3>1. v \in Nat
      BY <2>2 DEF VarsUpTo
    <3> QED
      BY <2>3, <3>1 DEF MkLit, Sign
  <2>6. Val(s.assigns, p) = LTrue
    <3>1. Val(s.assigns, p) = LXor(s.assigns[v], Sign(p))
      BY <2>4 DEF Val
    <3>2. b <=> s.assigns[v] = LFalse
      BY DEF b
    <3> QED
      BY <2>2, <2>5, <3>1, <3>2 DEF LXor, Lbools, LTrue, LFalse, LUndef
  <2> QED
    BY <1>1, <2>2, <2>4, <2>6 DEF Fine, RootHolds
<1>6. ~s.ok => Models = {}
  BY <1>1
<1> HIDE DEF FineInv
<1> QED
  BY <1>4, <1>5, <1>6 DEF EveryClauseFollows

\* Every clause that a Solver keeps or learns and every fact at its root follows from
\* the clauses its client has stated, and ok is given up only when nothing
\* satisfies them.
THEOREM ClausesFollow ==
    ASSUME \A i \in DOMAIN Clients : Clients[i].simp = FALSE
    PROVE  Spec => []EveryClauseFollows
<1>1. MainInit => FineInv
  BY FineInvInit
<1>2. FineInv /\ [Next]_mainVars => FineInv'
  BY FineInvNext
<1>3. FineInv => EveryClauseFollows
  BY FineInvFollows
<1> QED
  BY <1>1, <1>2, <1>3, PTL DEF Spec
-------------------------------------------------------------------------------
(* What the answer no is made of.                                              *)

\* Where the decisions and the assumptions are kept.
FirstFields == {"nextVar", "assigns", "level", "reason", "assumptions"}

\* They are as they were.
LEMMA FirstSame ==
    ASSUME NEW o, AssumedFirst(o), NEW t, NEW fs, Same(o, t, fs), fs \intersect FirstFields = {}
    PROVE  AssumedFirst(t)
<1>1. t.nextVar = o.nextVar /\ t.assigns = o.assigns /\ t.level = o.level /\ t.reason = o.reason
      /\ t.assumptions = o.assumptions
  BY DEF Same, Fields, FirstFields
<1> QED
  BY <1>1 DEF AssumedFirst

\* At the root nothing was decided.
LEMMA FirstAtRoot ==
    ASSUME NEW o, NEW strict, GoodBut(o, strict), o.trailLim = <<>>
    PROVE  AssumedFirst(o)
<1>1. o.nextVar \in Nat /\ o.assigns \in [VarsUpTo(o.nextVar) -> Lbools]
  BY KernelTypes
<1>2. ASSUME NEW p \in LitsOf(o.nextVar), Val(o.assigns, p) = LTrue
      PROVE  o.level[VarOf(p)] = 0
  <2>1. VarOf(p) \in VarsUpTo(o.nextVar) /\ o.assigns[VarOf(p)] # LUndef
    BY <1>1, <1>2, LitFacts, ValFacts DEF LTrue, LUndef
  <2> QED
    BY <2>1, RootLevels
<1> QED
  BY <1>2 DEF AssumedFirst

\* The clauses were moved, and the reasons with them.
LEMMA FirstMoved ==
    ASSUME NEW o, GoodBut(o, TRUE), AssumedFirst(o), NEW t, GoodBut(t, TRUE), t.nextVar = o.nextVar,
           t.trail = o.trail, t.trailLim = o.trailLim, t.level = o.level, t.assumptions = o.assumptions
    PROVE  AssumedFirst(t)
<1> SUFFICES ASSUME NEW p \in LitsOf(t.nextVar), Val(t.assigns, p) = LTrue,
                    t.reason[VarOf(p)] = CRefUndef, t.level[VarOf(p)] \in 1 .. Len(t.assumptions)
             PROVE  p \in ToSet(t.assumptions)
  BY DEF AssumedFirst
<1>1. t.level[VarOf(p)] > 0 /\ t.level[VarOf(p)] # 0
  OBVIOUS
<1>2. PICK i \in DOMAIN t.trail : t.trail[i] = p
  BY <1>1, TrueOnTrail
<1>3. InOrder(i, t.trailLim, t.trail, t.level, t.assigns, t.reason[VarOf(p)], t.ca.at)
  BY <1>2 DEF GoodBut, Reasons
<1>4. InOrder(i, o.trailLim, o.trail, o.level, o.assigns, o.reason[VarOf(p)], o.ca.at)
  BY <1>2 DEF GoodBut, Reasons
<1>5. o.reason[VarOf(p)] = CRefUndef
  BY <1>1, <1>2, <1>3, <1>4 DEF InOrder
<1>6. Val(o.assigns, p) = LTrue
  BY <1>2, KernelTypes DEF TrailRight
<1> QED
  BY <1>5, <1>6 DEF AssumedFirst

\* The code enqueues one.
LEMMA FirstUnchecked ==
    ASSUME NEW o, NEW strict, GoodBut(o, strict), AssumedFirst(o), NEW cr, NEW p \in LitsOf(o.nextVar),
           cr # CRefUndef \/ p \in ToSet(o.assumptions) \/ Len(o.trailLim) \notin 1 .. Len(o.assumptions)
    PROVE  AssumedFirst(UncheckedEnqueue(o, p, cr))
<1> DEFINE t == UncheckedEnqueue(o, p, cr)
<1>1. IsEnqueued(o, p, cr, t)
  BY Enqueued DEF GoodBut
<1> HIDE DEF t
<1>2. Enqueues(o, t, p, cr)
  BY <1>1 DEF Enqueues, IsEnqueued, Same, Fields, EnqueueFields
<1>3. AssumedFirst(t)
  BY <1>2, FirstEnqueued
<1> QED
  BY <1>3 DEF t

\* cancelUntil() takes decisions back.
LEMMA FirstCancelled ==
    ASSUME NEW o, NEW strict, GoodBut(o, strict), AssumedFirst(o), NEW k \in Nat
    PROVE  AssumedFirst(CancelUntil(o, k))
<1> DEFINE keep == o.trailLim[k + 1]
           t == CancelUntil(o, k)
           n == o.nextVar
           U == Undone(o.trail, keep)
<1>1. /\ n \in Nat /\ o.assigns \in [VarsUpTo(n) -> Lbools] /\ o.trailLim \in Seq(Nat)
      /\ Len(o.trailLim) \in Nat
  BY KernelTypes
<1>2. CASE Len(o.trailLim) <= k
  BY <1>2 DEF CancelUntil, DecisionLevel
<1>3. CASE ~(Len(o.trailLim) <= k)
  <2>1. k \in Nat /\ k < Len(o.trailLim)
    BY <1>1, <1>3
  <2>2. CancelGoodTo(o, k, t, strict)
    BY <2>1, CancelGood
  <2> HIDE DEF t, keep
  <2>3. t.assigns = Unassigned(o.assigns, U) /\ Same(o, t, CancelFields)
    BY <2>2 DEF CancelGoodTo, IsCancelled, keep
  <2>4. t.nextVar = n /\ t.level = o.level /\ t.reason = o.reason /\ t.assumptions = o.assumptions
    BY <2>3 DEF Same, Fields, CancelFields
  <2>5. \A p \in LitsOf(n) : Val(t.assigns, p) = LTrue => Val(o.assigns, p) = LTrue
    <3> SUFFICES ASSUME NEW p \in LitsOf(n), Val(t.assigns, p) = LTrue
                 PROVE  Val(o.assigns, p) = LTrue
      OBVIOUS
    <3>1. VarOf(p) \in DOMAIN o.assigns
      BY <1>1, LitFacts
    <3>2. t.assigns[VarOf(p)] = IF VarOf(p) \in U THEN LUndef ELSE o.assigns[VarOf(p)]
      BY <2>3, <3>1 DEF Unassigned
    <3>3. t.assigns[VarOf(p)] # LUndef
      BY DEF Val, LXor, LTrue, LUndef
    <3> QED
      BY <3>2, <3>3 DEF Val
  <2>6. AssumedFirst(t)
    BY <2>4, <2>5 DEF AssumedFirst
  <2> QED
    BY <2>6 DEF t
<1> QED
  BY <1>2, <1>3

\* A decision: the assumption that is due, or any literal once all of them hold.
LEMMA FirstDecided ==
    ASSUME NEW o, GoodBut(o, TRUE), AssumedFirst(o), NEW p \in LitsOf(o.nextVar),
           p \in ToSet(o.assumptions) \/ ~(DecisionLevel(o) < Len(o.assumptions)),
           o.assumptions \in Seq(LitsOf(o.nextVar))
    PROVE  AssumedFirst(Decide(o, p))
<1> DEFINE d == NewDecisionLevel(o)
<1>1. IsObject(o) /\ o.trailLim \in Seq(Nat)
  BY KernelTypes DEF GoodBut
<1>2. IsOpened(o, d)
  BY <1>1, OpenedFields
<1>3. Decide(o, p) = UncheckedEnqueue(d, p, CRefUndef)
  BY DEF Decide
<1> HIDE DEF d
<1>4. AssumedFirst(d)
  <2>1. OnlyLimits \intersect FirstFields = {}
    BY DEF OnlyLimits, FirstFields
  <2> QED
    BY <1>2, <2>1, FirstSame DEF IsOpened
<1>5. d.trailLim = Append(o.trailLim, Len(o.trail)) /\ d.assumptions = o.assumptions
      /\ d.nextVar = o.nextVar
  BY <1>2 DEF IsOpened, Same, Fields, OnlyLimits
<1>6. Len(d.trailLim) = Len(o.trailLim) + 1
  BY <1>1, <1>5
<1>7. p \in ToSet(d.assumptions) \/ Len(d.trailLim) \notin 1 .. Len(d.assumptions)
  <2>1. CASE p \in ToSet(o.assumptions)
    BY <1>5, <2>1
  <2>2. CASE ~(DecisionLevel(o) < Len(o.assumptions))
    <3>1. Len(o.trailLim) \in Nat /\ Len(o.assumptions) \in Nat
      BY <1>1
    <3>2. ~(Len(o.trailLim) < Len(o.assumptions))
      BY <2>2 DEF DecisionLevel
    <3> QED
      BY <1>5, <1>6, <3>1, <3>2
  <2> QED
    BY <2>1, <2>2
<1>8. GoodBut(d, TRUE)
  BY NewLevelGood DEF LevelNew, d
<1> QED
  BY <1>3, <1>4, <1>5, <1>7, <1>8, FirstUnchecked

\* What is learnt is enqueued with its clause, or at the root.
LEMMA FirstLearnt ==
    ASSUME NEW o, Good(o, TRUE), AssumedFirst(o), NEW a, AssertingRight(o, a)
    PROVE  AssumedFirst(Learn(o, a))
<1> DEFINE n == o.nextVar
           q == a.learnt
           t == CancelUntil(o, a.btlevel)
           p == q[1]
           cr == t.ca.size
           w == LearntStored(t, q)
           x == AttachClause(w, cr)
           one == UncheckedEnqueue(t, p, CRefUndef)
           long == UncheckedEnqueue(x, p, cr)
           F == {"adjustCnt", "adjustConfl", "maxLearnts"}
<1>1. /\ GoodBut(o, TRUE) /\ Watched(o) /\ a.btlevel \in Nat /\ LearntRight(o, q)
      /\ a.btlevel < Len(o.trailLim)
  BY DEF Good, AssertingRight
<1>2. AssumedFirst(t)
  BY <1>1, FirstCancelled
<1>3. LearnBack(o, a, t)
  BY <1>1, LearnBackGood
<1> HIDE DEF t
<1>4. /\ GoodBut(t, TRUE) /\ Watched(t) /\ Len(t.trailLim) = a.btlevel
      /\ IsCancelled(o, a.btlevel, o.trailLim[a.btlevel + 1], t)
  BY <1>1, <1>3 DEF LearnBack, CancelGoodTo
<1>5. t.nextVar = n
  BY <1>4 DEF IsCancelled, Same, Fields, CancelFields
<1>6. q \in Seq(LitsOf(n)) /\ p \in LitsOf(n)
  <2>1. q \in Seq(LitsOf(n)) /\ Len(q) >= 1
    BY <1>1 DEF LearntRight
  <2>2. 1 \in DOMAIN q
    BY <2>1
  <2> QED
    BY <2>1, <2>2
<1>7. F \intersect FirstFields = {}
  BY DEF FirstFields
<1>8. CASE Len(q) = 1
  <2>1. Len(t.trailLim) \notin 1 .. Len(t.assumptions)
    BY <1>4, <1>8 DEF AssertingRight
  <2> HIDE DEF p
  <2>2. AssumedFirst(one)
    BY <1>2, <1>4, <1>5, <1>6, <2>1, FirstUnchecked
  <2>3. IsObject(one)
    BY <1>4, Enqueued DEF GoodBut, IsEnqueued
  <2> HIDE DEF one, F
  <2>4. AssumedFirst(Adjust(one))
    BY <1>7, <2>2, <2>3, AdjustTouches, FirstSame DEF F
  <2> QED
    BY <1>8, <2>4 DEF Learn, one, t, p
<1>9. CASE Len(q) # 1
  <2>1. LongLits(q, n)
    BY <1>1, <1>9, LearntLong
  <2>2. Good(x, TRUE) /\ Same(t, x, StoreFields \union AttachFields)
    <3>1. Good(t, TRUE) /\ LongLits(q, t.nextVar)
      BY <1>4, <1>5, <2>1 DEF Good
    <3>2. LearntAttached(o, t, x)
      BY <3>1, LearnAttach
    <3> QED
      BY <3>2 DEF LearntAttached
  <2>3. cr # CRefUndef
    BY <1>4 DEF GoodBut, Region, IsRegion, CRefUndef
  <2> HIDE DEF x, p, cr
  <2>4. AssumedFirst(x) /\ x.nextVar = n
    <3>1. (StoreFields \union AttachFields) \intersect FirstFields = {}
      BY DEF StoreFields, AttachFields, FirstFields
    <3>2. x.nextVar = t.nextVar
      BY <2>2 DEF Same, Fields, StoreFields, AttachFields
    <3> QED
      BY <1>2, <1>5, <2>2, <3>1, <3>2, FirstSame
  <2>5. GoodBut(x, TRUE)
    BY <2>2 DEF Good
  <2>6. AssumedFirst(long)
    BY <1>6, <2>3, <2>4, <2>5, FirstUnchecked
  <2>7. IsObject(long)
    BY <2>5, Enqueued DEF GoodBut, IsEnqueued
  <2> HIDE DEF long, F
  <2>8. AssumedFirst(Adjust(long))
    BY <1>7, <2>6, <2>7, AdjustTouches, FirstSame DEF F
  <2>9. Learn(o, a) = Adjust(long)
    <3>1. Len(q) # 1
      BY <1>9
    <3> HIDE DEF q
    <3> QED
      BY <3>1 DEF Learn, LearntStored, long, x, w, t, p, cr, q
  <2> QED
    BY <2>8, <2>9
<1> QED
  BY <1>8, <1>9

\* What holds of o when the search is at position at: the decisions of the assumptions'
\* levels are assumptions, a conflict is over them, and it gives up for a limit only.
Backed(o, at) ==
    /\ at = "search" => AssumedFirst(o)
    /\ at \in {"search", "unsat"} => o.conflict \subseteq Negated(o)
    /\ at = "unknown" => ~WithinBudget(o)

\* The fields that say what the conflict is, and whether a limit is reached.
AskFields == {"assumptions", "conflict"}
LimitFields == {"interrupt", "confBudget", "propBudget"}

\* An object with the same conflict, in which the decisions still are assumptions.
LEMMA BackedSame ==
    ASSUME NEW o, NEW t, o.conflict \subseteq Negated(o), NEW fs, Same(o, t, fs),
           fs \intersect AskFields = {}, NEW at, at = "search" => AssumedFirst(t), at # "unknown"
    PROVE  Backed(t, at)
<1>1. t.assumptions = o.assumptions /\ t.conflict = o.conflict
  BY DEF Same, Fields, AskFields
<1> QED
  BY <1>1 DEF Backed, Negated

\* A limit that was reached still is.
LEMMA BudgetSame ==
    ASSUME NEW o, NEW t, NEW fs, Same(o, t, fs), fs \intersect LimitFields = {}
    PROVE  WithinBudget(t) = WithinBudget(o)
<1>1. t.interrupt = o.interrupt /\ t.confBudget = o.confBudget /\ t.propBudget = o.propBudget
  BY DEF Same, Fields, LimitFields
<1> QED
  BY <1>1 DEF WithinBudget

\* The next decision, or the answer.
LEMMA BranchBacked ==
    ASSUME NEW o, Ready(o), Branch(o), Backed(o, "search")
    PROVE  Backed(s', pc')
<1> DEFINE level == DecisionLevel(o)
           p == o.assumptions[level + 1]
<1>1. Good(o, TRUE) /\ o.assumptions \in Seq(LitsOf(o.nextVar)) /\ IsObject(o) /\ GoodBut(o, TRUE)
  BY DEF Ready, Stopped, Good, GoodBut
<1>2. o.nextVar \in Nat /\ o.assigns \in [VarsUpTo(o.nextVar) -> Lbools]
  BY <1>1, KernelTypes
<1>3. AssumedFirst(o) /\ o.conflict \subseteq Negated(o)
  BY DEF Backed
<1>4. CASE level < Len(o.assumptions) /\ Value(o, p) = LFalse
  <2> DEFINE q == Neg(p)
             c == AnalyzeFinal(o, q)
             t == [o EXCEPT !.conflict = c]
  <2>1. s' = t /\ pc' = "unsat"
    BY <1>4 DEF Branch, Busy
  <2>2. p \in LitsOf(o.nextVar) /\ Val(o.assigns, p) = LFalse /\ p \in ToSet(o.assumptions)
        /\ Len(o.trailLim) < Len(o.assumptions)
    BY <1>1, <1>4, NextAssumption DEF Value, Val, DecisionLevel
  <2>3. t.conflict = c /\ t.assumptions = o.assumptions
    BY <1>1 DEF IsObject, Fields
  <2> HIDE DEF p, t
  <2>4. q \in LitsOf(o.nextVar) /\ Val(o.assigns, q) = LTrue /\ q \in Negated(o)
    BY <1>2, <2>2, LitFacts, ValFacts DEF Negated
  <2> HIDE DEF q
  <2>5. c \subseteq Negated(o) \union {q}
    BY <1>1, <1>3, <2>2, <2>4, FinalFollows DEF FinalRight
  <2> HIDE DEF c
  <2>6. t.conflict \subseteq Negated(t)
    BY <2>3, <2>4, <2>5 DEF Negated
  <2> QED
    BY <2>1, <2>6 DEF Backed
<1>5. ASSUME NEW t, NEW x \in LitsOf(o.nextVar), IsTouched(o, t), Same(o, t, {"heap"}),
             x \in ToSet(o.assumptions) \/ ~(level < Len(o.assumptions))
      PROVE  Backed(Decide(t, x), "search")
  <2> HIDE DEF level, p
  <2>1. AsIs(o, t, TRUE)
    BY <1>1, <1>5, TouchGood
  <2>2. GoodBut(t, TRUE) /\ t.nextVar = o.nextVar /\ DecisionLevel(t) = level
    BY <2>1 DEF AsIs, Good, DecisionLevel, level
  <2>3. t.assumptions = o.assumptions /\ t.conflict = o.conflict
    BY <1>5 DEF Same, Fields
  <2>4. AssumedFirst(t)
    <3>1. {"heap"} \intersect FirstFields = {}
      BY DEF FirstFields
    <3> QED
      BY <1>3, <1>5, <3>1, FirstSame
  <2>5. AssumedFirst(Decide(t, x))
    BY <1>1, <1>5, <2>2, <2>3, <2>4, FirstDecided
  <2> DEFINE u == Decide(t, x)
             d == NewDecisionLevel(t)
  <2>6. IsOpened(t, d)
    BY <2>2, OpenedFields DEF GoodBut
  <2>7. u = UncheckedEnqueue(d, x, CRefUndef)
    BY DEF Decide
  <2> HIDE DEF u, d
  <2>8. IsEnqueued(d, x, CRefUndef, u)
    BY <2>6, <2>7, Enqueued DEF IsOpened
  <2>9. u.assumptions = t.assumptions /\ u.conflict = t.conflict
    BY <2>6, <2>8 DEF IsOpened, IsEnqueued, Same, Fields, OnlyLimits, EnqueueFields
  <2>10. u.conflict \subseteq Negated(u)
    BY <1>3, <2>3, <2>9 DEF Negated
  <2> QED
    BY <2>5, <2>10 DEF Backed, u
<1>6. CASE level < Len(o.assumptions) /\ Value(o, p) # LFalse
  <2>1. s' = Decide(o, p) /\ pc' = "search"
    BY <1>6 DEF Branch, Busy
  <2>2. p \in LitsOf(o.nextVar) /\ p \in ToSet(o.assumptions)
    BY <1>1, <1>6, NextAssumption
  <2> HIDE DEF p
  <2>3. IsTouched(o, o) /\ Same(o, o, {"heap"})
    BY <1>1 DEF IsTouched, Same
  <2>4. Backed(Decide(o, p), "search")
    BY <1>5, <2>2, <2>3
  <2> QED
    BY <2>1, <2>4
<1>7. CASE ~(level < Len(o.assumptions)) /\ Eligible(o) = {}
  <2>1. pc' = "sat"
    BY <1>7 DEF Branch, Busy
  <2> QED
    BY <2>1 DEF Backed
<1>8. CASE ~(level < Len(o.assumptions)) /\ Eligible(o) # {}
  <2>1. \E v \in Eligible(o) : \E sign \in BranchSigns(o, v) :
           s' = Decide([o EXCEPT !.heap = Eligible(o) \ {v}], MkLit(v, sign)) /\ Busy("search")
    BY <1>8 DEF Branch
  <2>2. PICK v \in Eligible(o) : \E sign \in BranchSigns(o, v) :
           s' = Decide([o EXCEPT !.heap = Eligible(o) \ {v}], MkLit(v, sign)) /\ Busy("search")
    BY <2>1
  <2>3. PICK sign \in BranchSigns(o, v) :
           s' = Decide([o EXCEPT !.heap = Eligible(o) \ {v}], MkLit(v, sign)) /\ Busy("search")
    BY <2>2
  <2> DEFINE h == Eligible(o) \ {v}
             t == [o EXCEPT !.heap = h]
             x == MkLit(v, sign)
  <2>4. s' = Decide(t, x) /\ pc' = "search"
    BY <2>3 DEF Busy
  <2>5. x \in LitsOf(o.nextVar)
    <3>1. v \in VarsUpTo(o.nextVar)
      BY <1>1 DEF Good, GoodBut, Types, Eligible
    <3> QED
      BY <1>2, <3>1, MkLitIn
  <2> HIDE DEF h, x
  <2>6. IsTouched(o, t)
    BY <1>1, FieldsTouch
  <2>7. Same(o, t, {"heap"})
    BY <1>1 DEF IsObject, Same, Fields
  <2> HIDE DEF t
  <2>8. Backed(Decide(t, x), "search")
    BY <1>5, <1>8, <2>5, <2>6, <2>7
  <2> QED
    BY <2>4, <2>8
<1> QED
  BY <1>4, <1>6, <1>7, <1>8

\* Learnt clauses are removed.
LEMMA ReduceBacked ==
    ASSUME NEW o, Ready(o), NEW victims \in Reducible(o), Backed(o, "search")
    PROVE  Backed(ReduceDB(o, victims), "search")
<1> DEFINE t == ReduceDB(o, victims)
<1>1. Good(o, TRUE)
  BY DEF Ready, Stopped
<1>2. Unlocked(o, victims)
  BY <1>1, ReducibleUnlocked
<1>3. Reduced(o, t, TRUE)
  BY <1>1, <1>2, ReduceGood
<1> HIDE DEF t
<1>4. GoodBut(t, TRUE) /\ Same(o, t, ReduceFields) /\ GoodBut(o, TRUE)
  BY <1>1, <1>3 DEF Reduced, Good
<1>5. /\ t.nextVar = o.nextVar /\ t.trail = o.trail /\ t.trailLim = o.trailLim /\ t.level = o.level
      /\ t.assumptions = o.assumptions
  BY <1>4 DEF Same, Fields, ReduceFields, RemoveFields, OnlyLists, MoveFields
<1>6. AssumedFirst(t)
  BY <1>4, <1>5, FirstMoved DEF Backed
<1>7. ReduceFields \intersect AskFields = {}
  BY DEF ReduceFields, RemoveFields, OnlyLists, MoveFields, AskFields
<1>8. Backed(t, "search")
  BY <1>4, <1>6, <1>7, BackedSame DEF Backed
<1> QED
  BY <1>8 DEF t

\* The levels of assumptions that hold already decide nothing.
LEMMA SkipBacked ==
    ASSUME NEW o, Ready(o), Backed(o, "search")
    PROVE  Backed(SkipHolding(o), "search")
<1>1. Good(o, TRUE) /\ Propagated(o) /\ o.assumptions \in Seq(LitsOf(o.nextVar))
  BY DEF Ready, Stopped
<1>2. Len(o.assumptions) \in Nat
  BY <1>1
<1>3. Same(o, SkipHolding(o), OnlyLimits)
  BY <1>1, <1>2, SkipGood DEF SkippedGood
<1>4. OnlyLimits \intersect FirstFields = {} /\ OnlyLimits \intersect AskFields = {}
  BY DEF OnlyLimits, FirstFields, AskFields
<1>5. AssumedFirst(SkipHolding(o))
  BY <1>3, <1>4, FirstSame DEF Backed
<1> QED
  BY <1>3, <1>4, <1>5, BackedSame DEF Backed

\* No conflict and no limit reached.
LEMMA ExtendBacked ==
    ASSUME NEW o, o.ok => Ready(o), Extend(o), Backed(o, "search")
    PROVE  Backed(s', pc')
<1>1. CASE ~o.ok
  <2>1. s' = o /\ pc' = "unsat"
    BY <1>1 DEF Extend, Busy
  <2> QED
    BY <2>1 DEF Backed
<1>2. CASE o.ok
  <2>1. Ready(o)
    BY <1>2
  <2>2. PICK victims \in IF Crowded(o) THEN Reducible(o) ELSE {{}} :
           Branch(SkipHolding(IF Crowded(o) THEN ReduceDB(o, victims) ELSE o))
    BY <1>2 DEF Extend
  <2> DEFINE x == IF Crowded(o) THEN ReduceDB(o, victims) ELSE o
             y == SkipHolding(x)
  <2>3. Ready(x) /\ Backed(x, "search")
    <3>1. CASE Crowded(o)
      <4>1. victims \in Reducible(o)
        BY <2>2, <3>1
      <4>2. Ready(ReduceDB(o, victims)) /\ Backed(ReduceDB(o, victims), "search")
        BY <2>1, <4>1, ReduceReady, ReduceBacked
      <4> QED
        BY <3>1, <4>2
    <3>2. CASE ~Crowded(o)
      BY <2>1, <3>2
    <3> QED
      BY <3>1, <3>2
  <2>4. Branch(y)
    BY <2>2
  <2> HIDE DEF x
  <2>5. Ready(y) /\ Backed(y, "search")
    BY <2>3, SkipReady, SkipBacked
  <2> HIDE DEF y
  <2> QED
    BY <2>4, <2>5, BranchBacked
<1> QED
  BY <1>1, <1>2

\* At the root, a simplification.
LEMMA SimplifyBacked ==
    ASSUME NEW o, Ready(o), Backed(o, "search"),
           NEW t, t = IF DecisionLevel(o) = 0 THEN Simplify(o) ELSE o
    PROVE  Backed(t, "search")
<1>1. CASE DecisionLevel(o) = 0
  <2>1. t = Simplify(o) /\ Good(o, TRUE) /\ Propagated(o)
    BY <1>1 DEF Ready, Stopped
  <2>2. o.trailLim \in Seq(Nat)
    BY <2>1, KernelTypes DEF Good
  <2>3. o.trailLim = <<>>
    BY <1>1, <2>2 DEF DecisionLevel
  <2>4. Idling(o, TRUE)
    BY <2>1, <2>3 DEF Idling, AtRoot
  <2>5. SimplifiedTo(o, t, TRUE)
    BY <2>1, <2>4, SimplifyGood
  <2>6. Same(o, t, SimplifyFields) /\ GoodBut(t, TRUE) /\ t.trailLim = <<>>
    BY <2>5 DEF SimplifiedTo, Idling, AtRoot, Good
  <2>7. SimplifyFields \intersect AskFields = {}
    BY DEF SimplifyFields, PropFields, VisitFields, CleanFields, MoveFields, RemoveFields, OnlyLists,
           RecycleFields, AskFields
  <2>8. AssumedFirst(t)
    BY <2>6, FirstAtRoot
  <2> QED
    BY <2>6, <2>7, <2>8, BackedSame DEF Backed
<1>2. CASE DecisionLevel(o) # 0
  BY <1>2
<1> QED
  BY <1>1, <1>2

\* A conflict in the search.
LEMMA ConflictBacked ==
    ASSUME NEW o, Ready(o), NEW confl, ConflictRight(o, confl), Backed(o, "search"),
           NEW b, Conflict([o EXCEPT !.confBudget = b], confl)
    PROVE  Backed(s', pc')
<1> DEFINE t == [o EXCEPT !.confBudget = b]
<1>1. Good(o, TRUE) /\ IsObject(o)
  BY DEF Ready, Stopped, Good, GoodBut
<1>2. Conflict(t, confl)
  OBVIOUS
<1>3. IsTouched(o, t) /\ Same(o, t, {"confBudget"})
  BY <1>1, FieldsTouch DEF IsObject, Same, Fields
<1> HIDE DEF t
<1>4. AsIs(o, t, TRUE)
  BY <1>1, <1>3, TouchGood
<1>5. Good(t, TRUE) /\ t.trailLim = o.trailLim
  BY <1>4 DEF AsIs
<1>6. t.ca = o.ca /\ t.assigns = o.assigns /\ t.level = o.level
  BY <1>3 DEF IsTouched, Same, Fields, TouchFields
<1>7. ConflictRight(t, confl)
  BY <1>5, <1>6 DEF ConflictRight
<1>8. AssumedFirst(t) /\ t.conflict \subseteq Negated(t)
  <2>1. {"confBudget"} \intersect FirstFields = {} /\ {"confBudget"} \intersect AskFields = {}
    BY DEF FirstFields, AskFields
  <2>2. AssumedFirst(t)
    BY <1>3, <2>1, FirstSame DEF Backed
  <2>3. Backed(t, "search")
    BY <1>3, <2>1, <2>2, BackedSame DEF Backed
  <2> QED
    BY <2>2, <2>3 DEF Backed
<1>9. CASE DecisionLevel(t) = 0
  <2>1. s' = t /\ pc' = "unsat"
    BY <1>2, <1>9 DEF Conflict, Busy
  <2> QED
    BY <1>8, <2>1 DEF Backed
<1>10. CASE DecisionLevel(t) # 0
  <2> DEFINE a == Analyze(t, confl)
             u == Learn(t, a)
  <2>1. s' = u /\ pc' = "search"
    BY <1>2, <1>10 DEF Conflict, Busy
  <2>2. Len(t.trailLim) > 0
    <3>1. t.trailLim \in Seq(Nat)
      BY <1>5, KernelTypes DEF Good
    <3> QED
      BY <1>10, <3>1 DEF DecisionLevel
  <2>3. AssertingRight(t, a)
    BY <1>5, <1>7, <2>2, AnalyzeGood DEF Good
  <2> HIDE DEF a
  <2>4. LearntGood(t, u) /\ AssumedFirst(u)
    BY <1>5, <1>8, <2>3, LearnGood, FirstLearnt
  <2>5. Same(t, u, LearnFields) /\ LearnFields \intersect AskFields = {}
    BY <2>4 DEF LearntGood, LearnFields, CancelFields, StoreFields, AttachFields, EnqueueFields, AskFields
  <2> HIDE DEF u
  <2>6. Backed(u, "search")
    BY <1>8, <2>4, <2>5, BackedSame
  <2> QED
    BY <2>1, <2>6
<1> QED
  BY <1>9, <1>10

\* A step of search(), whichever way it goes.
LEMMA SearchBacked ==
    ASSUME CoreInv, Search, Backed(s, "search")
    PROVE  Backed(s', pc')
<1> DEFINE r == Propagate(s)
           o == r.s
           confl == r.confl
<1>1. pc = "search" /\ AfterPropagate(o, confl)
  BY DEF Search
<1>2. Searching(s)
  BY <1>1 DEF CoreInv, Fits
<1>3. Ready(o) /\ (confl # CRefUndef => ConflictRight(o, confl))
  BY <1>2, PropagateReady
<1>4. AssumedFirst(o)
  <2>1. Lasting(s, {}, "assumed")
    BY DEF Lasting, Backed
  <2>2. LastingWith(o, confl, {}, "assumed")
    BY <1>2, <2>1, PropagateLasts DEF Searching
  <2> QED
    BY <2>2 DEF LastingWith, Lasting
<1>5. Same(s, o, PropFields)
  BY <1>2, PropagateGood DEF Searching, Propagates
<1> HIDE DEF r, o, confl
<1>6. Backed(o, "search")
  <2>1. PropFields \intersect AskFields = {}
    BY DEF PropFields, VisitFields, AskFields
  <2> QED
    BY <1>4, <1>5, <2>1, BackedSame DEF Backed
<1>7. CASE confl # CRefUndef
  <2> DEFINE b == Spend(o.confBudget, 1)
  <2>1. Conflict([o EXCEPT !.confBudget = b], confl)
    BY <1>1, <1>7 DEF AfterPropagate
  <2> HIDE DEF b
  <2> QED
    BY <1>3, <1>6, <1>7, <2>1, ConflictBacked
<1>8. CASE confl = CRefUndef /\ (frame.conflicts >= frame.limit \/ ~WithinBudget(o))
  <2> DEFINE t == CancelUntil(o, 0)
  <2>1. Restart(o)
    BY <1>1, <1>8 DEF AfterPropagate
  <2>2. s' = t /\ (pc' = "search" \/ (pc' = "unknown" /\ ~WithinBudget(o)))
    BY <2>1 DEF Restart, Busy
  <2>3. Good(o, TRUE) /\ Propagated(o)
    BY <1>3 DEF Ready, Stopped
  <2>4. Same(o, t, CancelFields)
    BY <2>3, CancelBack DEF BackAt
  <2>5. AssumedFirst(t)
    BY <1>4, <2>3, FirstCancelled DEF Good
  <2> HIDE DEF t
  <2>6. CancelFields \intersect AskFields = {} /\ CancelFields \intersect LimitFields = {}
    BY DEF CancelFields, AskFields, LimitFields
  <2>7. Backed(t, "search")
    BY <1>6, <2>4, <2>5, <2>6, BackedSame DEF Backed
  <2>8. WithinBudget(t) = WithinBudget(o)
    BY <2>4, <2>6, BudgetSame
  <2> QED
    BY <2>2, <2>7, <2>8 DEF Backed
<1>9. CASE confl = CRefUndef /\ ~(frame.conflicts >= frame.limit \/ ~WithinBudget(o))
  <2> DEFINE x == IF DecisionLevel(o) = 0 THEN Simplify(o) ELSE o
  <2>1. Extend(x)
    BY <1>1, <1>9 DEF AfterPropagate
  <2>2. (x.ok => Ready(x)) /\ Backed(x, "search")
    BY <1>3, <1>6, SimplifyReady, SimplifyBacked
  <2> HIDE DEF x
  <2> QED
    BY <2>1, <2>2, ExtendBacked
<1> QED
  BY <1>7, <1>8, <1>9

-------------------------------------------------------------------------------
(* What implies() answers.                                                     *)

\* m makes all literals of a sequence true.
AllTrue(m, lits) == \A i \in DOMAIN lits : Truth(m, lits[i])

\* What is enqueued and holds leaves all that is assigned holding.
LEMMA EnqueuedAll ==
    ASSUME NEW o, NEW strict, GoodBut(o, strict), NEW m, AllHold(o, m), NEW p \in LitsOf(o.nextVar),
           Truth(m, p), NEW from
    PROVE  AllHold(UncheckedEnqueue(o, p, from), m)
<1> DEFINE t == UncheckedEnqueue(o, p, from)
           n == o.nextVar
<1>1. IsEnqueued(o, p, from, t)
  BY Enqueued DEF GoodBut
<1> HIDE DEF t
<1>2. t.assigns = Assigned(o.assigns, p) /\ t.nextVar = n
  BY <1>1 DEF IsEnqueued, Same, Fields, EnqueueFields
<1>3. n \in Nat /\ o.assigns \in [VarsUpTo(n) -> Lbools]
  BY KernelTypes
<1>4. ASSUME NEW q \in LitsOf(n), Val(t.assigns, q) = LTrue
      PROVE  Truth(m, q)
  <2>1. CASE VarOf(q) # VarOf(p)
    <3>1. Val(o.assigns, q) = LTrue
      BY <1>2, <1>3, <1>4, <2>1, ValAssigned
    <3> QED
      BY <3>1 DEF AllHold
  <2>2. CASE VarOf(q) = VarOf(p)
    <3>1. t.assigns \in [VarsUpTo(n) -> Lbools] /\ Val(t.assigns, p) = LTrue
      BY <1>2, <1>3, ValAssigned
    <3>2. Val(t.assigns, Neg(p)) = LFalse
      BY <1>3, <3>1, ValFacts
    <3>3. q = p
      BY <1>3, <1>4, <2>2, <3>2, SameVar DEF LTrue, LFalse
    <3> QED
      BY <3>3
  <2> QED
    BY <2>1, <2>2
<1>5. AllHold(t, m)
  BY <1>2, <1>4 DEF AllHold
<1> QED
  BY <1>5 DEF t

\* At the root all that is assigned holds, and on a new level too.
LEMMA OpenedAll ==
    ASSUME NEW o, NEW strict, GoodBut(o, strict), o.trailLim = <<>>, NEW m, Fine(o, m)
    PROVE  AllHold(NewDecisionLevel(o), m)
<1> DEFINE d == NewDecisionLevel(o)
<1>1. IsOpened(o, d)
  BY OpenedFields DEF GoodBut
<1> HIDE DEF d
<1>2. d.nextVar = o.nextVar /\ d.assigns = o.assigns
  BY <1>1 DEF IsOpened, Same, Fields, OnlyLimits
<1>3. AllHold(d, m)
  BY <1>2, RootTruth DEF AllHold
<1> QED
  BY <1>3 DEF d

\* The assumptions of implies() that hold in m meet no literal that is false.
AssumedHold(o, e, m) == AssumedFine(o, e, m) /\ ~e.clash /\ AllHold(e.s, m)

\* One assumption.
LEMMA AssumeStepHolds ==
    ASSUME NEW o, Len(o.trailLim) > 0, NEW e, NEW m, AssumedHold(o, e, m),
           NEW p \in LitsOf(o.nextVar), Truth(m, p)
    PROVE  AssumedHold(o, AssumeNext(e, p), m)
<1> DEFINE u == UncheckedEnqueue(e.s, p, CRefUndef)
<1>1. AssumedFine(o, AssumeNext(e, p), m)
  BY AssumeStepFine DEF AssumedHold
<1>2. GoodBut(e.s, FALSE) /\ Same(o, e.s, EnqueueFields) /\ AllHold(e.s, m) /\ ~e.clash
  BY DEF AssumedHold, AssumedFine, Assumed, Good
<1>3. e.s.nextVar = o.nextVar
  BY <1>2 DEF Same, Fields, EnqueueFields
<1>4. AllHold(u, m)
  BY <1>2, <1>3, EnqueuedAll
<1> HIDE DEF u
<1>5. Value(e.s, p) # LFalse
  <2>1. /\ e.s.nextVar \in Nat /\ e.s.assigns \in [VarsUpTo(e.s.nextVar) -> Lbools]
        /\ p \in LitsOf(e.s.nextVar)
    BY <1>2, <1>3, KernelTypes
  <2>2. Val(e.s.assigns, p) = LFalse => Val(e.s.assigns, Neg(p)) = LTrue
    BY <2>1, ValFacts
  <2>3. Neg(p) \in LitsOf(e.s.nextVar)
    BY <2>1, LitFacts
  <2>4. Val(e.s.assigns, p) # LFalse
    BY <1>2, <2>1, <2>2, <2>3, TruthFacts DEF AllHold
  <2> QED
    BY <2>4 DEF Value, Val
<1>6. AssumeNext(e, p) = e \/ AssumeNext(e, p) = [s |-> u, clash |-> e.clash]
  <2>1. CASE Value(e.s, p) = LTrue
    <3>1. AssumeNext(e, p) = e
      BY <2>1, <1>5 DEF AssumeNext
    <3> QED
      BY <3>1
  <2>2. CASE Value(e.s, p) # LTrue
    BY <1>2, <1>5, <2>2 DEF AssumeNext, u
  <2> QED
    BY <2>1, <2>2
<1>7. ~AssumeNext(e, p).clash /\ AllHold(AssumeNext(e, p).s, m)
  BY <1>2, <1>4, <1>6
<1> QED
  BY <1>1, <1>7 DEF AssumedHold

\* All of them.
LEMMA AssumeHolds ==
    ASSUME NEW o, Good(o, FALSE), LevelQueued(o), Len(o.trailLim) > 0, NEW m, Fine(o, m),
           AllHold(o, m), NEW lits \in Seq(LitsOf(o.nextVar)), AllTrue(m, lits)
    PROVE  AssumedHold(o, EnqueueAssumed(o, lits), m)
<1> DEFINE n == Len(lits)
<1>a. n \in Nat /\ DOMAIN lits = 1 .. n
  OBVIOUS
<1>1. PICK g : AssumeRun(g, o, lits) /\ EnqueueAssumed(o, lits) = g[n]
  BY <1>a, AssumeRuns
<1>2. g[0] = [s |-> o, clash |-> FALSE] /\ \A i \in 1 .. n : g[i] = AssumeNext(g[i - 1], lits[i])
  BY <1>1 DEF AssumeRun
<1> HIDE DEF n
<1> DEFINE S == {i \in Nat : i <= n => AssumedHold(o, g[i], m)}
<1>3. 0 \in S
  <2> DEFINE e == [s |-> o, clash |-> FALSE]
  <2>1. Same(o, o, EnqueueFields)
    BY DEF Same
  <2>2. Assumed(o, e) /\ e.s = o /\ ~e.clash
    BY <2>1, AssumedMade
  <2> HIDE DEF e
  <2>3. AssumedHold(o, e, m)
    BY <2>2 DEF AssumedHold, AssumedFine
  <2> QED
    BY <1>2, <2>3 DEF e
<1>4. ASSUME NEW i \in Nat, i \in S
      PROVE  i + 1 \in S
  <2> SUFFICES ASSUME i + 1 <= n PROVE AssumedHold(o, g[i + 1], m)
    OBVIOUS
  <2>1. i + 1 \in 1 .. n /\ (i + 1) - 1 = i /\ i <= n
    BY <1>a
  <2> DEFINE y == g[i]
             p == lits[i + 1]
  <2>2. AssumedHold(o, y, m) /\ g[i + 1] = AssumeNext(y, p)
    BY <1>2, <1>4, <2>1
  <2>3. p \in LitsOf(o.nextVar) /\ Truth(m, p)
    BY <1>a, <2>1 DEF AllTrue
  <2> HIDE DEF y, p
  <2>4. AssumedHold(o, AssumeNext(y, p), m)
    BY <2>2, <2>3, AssumeStepHolds
  <2> QED
    BY <2>2, <2>4
<1>5. n \in S
  <2> HIDE DEF S
  <2>1. Nat \subseteq S
    BY <1>3, <1>4, InductionOn
  <2> QED
    BY <1>a, <2>1
<1> QED
  BY <1>1, <1>5, <1>a

\* When all that is assigned holds in m, no clause is in conflict.
LEMMA NoConflictHolds ==
    ASSUME NEW o, NEW strict, GoodBut(o, strict), NEW m, AllHold(o, m), NEW cr, FineWith(o, cr, m),
           cr # CRefUndef, ConflictRight(o, cr)
    PROVE  FALSE
<1>1. Fine(o, m) /\ cr \in Lives(o)
  BY DEF FineWith
<1>2. PICK k \in DOMAIN o.ca.at[cr].lits :
        Truth(m, o.ca.at[cr].lits[k]) /\ o.ca.at[cr].lits[k] \in LitsOf(o.nextVar)
  BY <1>1, FalseButTrue
<1> DEFINE q == o.ca.at[cr].lits[k]
<1>3. Truth(m, q) /\ q \in LitsOf(o.nextVar) /\ Val(o.assigns, q) = LFalse
  BY <1>2 DEF ConflictRight
<1> HIDE DEF q
<1>4. o.nextVar \in Nat /\ o.assigns \in [VarsUpTo(o.nextVar) -> Lbools]
  BY KernelTypes
<1>5. Neg(q) \in LitsOf(o.nextVar) /\ Val(o.assigns, Neg(q)) = LTrue
  BY <1>3, <1>4, LitFacts, ValFacts
<1> QED
  BY <1>3, <1>4, <1>5, TruthFacts DEF AllHold

\* What implies() finds in o from literals: a contradiction, or what it has enqueued.
Contradicts(e, r) == e.clash \/ r.confl # CRefUndef
Derived(e, r) == SubSeq(r.s.trail, Len(e.s.trail) + 1, Len(r.s.trail))

\* If m satisfies the clauses and the literals, implies() finds no contradiction, and
\* what it answers holds in m (Solver.cc:885-914).
THEOREM ImpliesRight ==
    ASSUME NEW o, Idling(o, TRUE), NEW m, Fine(o, m), NEW lits \in Seq(LitsOf(o.nextVar)),
           AllTrue(m, lits), NEW e, e = EnqueueAssumed(NewDecisionLevel(o), lits),
           NEW r, r = Propagate(e.s)
    PROVE  ~Contradicts(e, r) /\ AllTrue(m, Derived(e, r))
<1> DEFINE d == NewDecisionLevel(o)
<1>1. Good(o, FALSE) /\ Propagated(o) /\ o.trailLim = <<>> /\ IsObject(o)
  BY Loosened DEF Idling, AtRoot, Good, GoodBut
<1>2. LevelNew(o, d, FALSE) /\ Fine(d, m) /\ AllHold(d, m)
  BY <1>1, NewLevelGood, OpenFine, OpenedAll DEF Good
<1>3. e = EnqueueAssumed(d, lits)
  OBVIOUS
<1> HIDE DEF d
<1>4. Good(d, FALSE) /\ LevelQueued(d) /\ Same(o, d, OnlyLimits) /\ Len(d.trailLim) = Len(o.trailLim) + 1
  BY <1>1, <1>2 DEF LevelNew, Good, IsOpened
<1>5. d.nextVar = o.nextVar
  BY <1>4 DEF Same, Fields, OnlyLimits
<1>6. Len(d.trailLim) > 0
  BY <1>1, <1>4
<1>7. AssumedHold(d, e, m)
  BY <1>2, <1>3, <1>4, <1>5, <1>6, AssumeHolds
<1>8. Good(e.s, FALSE) /\ LevelQueued(e.s) /\ Fine(e.s, m) /\ AllHold(e.s, m) /\ ~e.clash
  BY <1>7 DEF AssumedHold, AssumedFine, Assumed
<1>9. Propagates(e.s, r, FALSE) /\ FineWith(r.s, r.confl, m)
  BY <1>8, PropagateGood, PropagateFine
<1>10. AllHold(r.s, m)
  <2>1. Lasting(e.s, m, "all")
    BY <1>8 DEF Lasting
  <2>2. LastingWith(r.s, r.confl, m, "all")
    BY <1>8, <2>1, PropagateLasts
  <2> QED
    BY <2>2 DEF LastingWith, Lasting
<1>11. GoodBut(r.s, FALSE) /\ (r.confl # CRefUndef => ConflictRight(r.s, r.confl))
  BY <1>9 DEF Propagates, Good
<1>12. r.confl = CRefUndef
  BY <1>9, <1>10, <1>11, NoConflictHolds
<1> DEFINE tr == r.s.trail
           k == Len(e.s.trail)
           out == Derived(e, r)
<1>13. tr \in Seq(LitsOf(r.s.nextVar)) /\ k \in Nat /\ TrailRight(tr, r.s.trailLim, r.s.assigns, r.s.level)
  <2>1. e.s.trail \in Seq(LitsOf(e.s.nextVar))
    BY <1>8, KernelTypes DEF Good
  <2>2. k \in Nat
    BY <2>1
  <2>3. tr \in Seq(LitsOf(r.s.nextVar)) /\ TrailRight(tr, r.s.trailLim, r.s.assigns, r.s.level)
    BY <1>11, KernelTypes
  <2> QED
    BY <2>2, <2>3
<1>14. ASSUME NEW i \in DOMAIN out
       PROVE  Truth(m, out[i])
  <2> DEFINE j == k + i
  <2>1. out = SubSeq(tr, k + 1, Len(tr)) /\ Len(tr) \in Nat
    BY <1>13 DEF Derived
  <2> HIDE DEF out, tr, k
  <2>2. i \in 1 .. Len(tr) - k /\ out[i] = tr[k + i]
    BY <1>13, <1>14, <2>1
  <2>3. j \in DOMAIN tr
    BY <1>13, <2>1, <2>2
  <2> HIDE DEF j
  <2>4. tr[j] \in LitsOf(r.s.nextVar) /\ Val(r.s.assigns, tr[j]) = LTrue
    BY <1>13, <2>3 DEF TrailRight
  <2>5. out[i] = tr[j]
    BY <2>2 DEF j
  <2> QED
    BY <1>10, <2>4, <2>5 DEF AllHold
<1> HIDE DEF out
<1>15. AllTrue(m, out)
  BY <1>14 DEF AllTrue
<1> QED
  BY <1>8, <1>12, <1>15 DEF Contradicts, out

-------------------------------------------------------------------------------
(* The answers.                                                                *)

\* The inductive invariant of the answers: what the solver keeps follows, the
\* search is backed for the answer it may come to, and the last answer follows.
AnswerInv == FineInv /\ Backed(s, pc) /\ AnswerFollows

\* Nothing is asked of an object where no search has answered.
LEMMA BackedElse ==
    ASSUME NEW o, NEW at, at \notin {"search", "unsat", "unknown"}
    PROVE  Backed(o, at)
BY DEF Backed

\* A call that says nothing of what follows, or a call that is still at work.
LEMMA OtherAnswer ==
    ASSUME pc' # "client" \/ answer'.op \notin {"solve", "implies"}
    PROVE  AnswerFollows'
BY DEF AnswerFollows, Answered

\* The answer stays, and so does what it is about.
LEMMA SameAnswer ==
    ASSUME AnswerFollows, UNCHANGED <<pc, made, answer>>, UNCHANGED asked, s'.ok = s.ok,
           s'.nextVar = s.nextVar, s'.conflict = s.conflict, s'.assumptions = s.assumptions,
           ~WithinBudget(s) => ~WithinBudget(s')
    PROVE  AnswerFollows'
<1>1. Models' = Models
  BY DEF Models, Assignments, asked
<1>2. ConflictFits' <=> ConflictFits
  BY <1>1 DEF ConflictFits
<1>3. \A op, status : Answered(op, status)' <=> Answered(op, status)
  BY DEF Answered
<1>4. client' = client
  BY DEF asked
<1> QED
  BY <1>1, <1>2, <1>3, <1>4 DEF AnswerFollows, Under

\* The steps of the search do not return to the client.
LEMMA SearchStays ==
    ASSUME Search
    PROVE  pc' # "client"
<1>1. ASSUME NEW o, Branch(o)
      PROVE  pc' # "client"
  <2>1. \E next \in {"unsat", "search", "sat"} : pc' = next
    BY <1>1 DEF Branch, Busy
  <2> QED
    BY <2>1
<1>2. ASSUME NEW o, Extend(o)
      PROVE  pc' # "client"
  <2>1. CASE ~o.ok
    BY <1>2, <2>1 DEF Extend, Busy
  <2>2. CASE o.ok
    <3>1. \E x : Branch(x)
      BY <1>2, <2>2 DEF Extend
    <3> QED
      BY <1>1, <3>1
  <2> QED
    BY <2>1, <2>2
<1>3. ASSUME NEW o, Restart(o)
      PROVE  pc' # "client"
  BY <1>3 DEF Restart, Busy
<1>4. ASSUME NEW o, NEW confl, Conflict(o, confl)
      PROVE  pc' # "client"
  BY <1>4 DEF Conflict, Busy
<1>5. PICK o, confl : AfterPropagate(o, confl)
  BY DEF Search
<1>6. (\E x : Conflict(x, confl)) \/ Restart(o) \/ \E x : Extend(x)
  BY <1>5 DEF AfterPropagate
<1> QED
  BY <1>2, <1>3, <1>4, <1>6

\* A call enters a search at the root, with no conflict.
LEMMA EnterBacked ==
    ASSUME NEW o, Idling(o, TRUE), NEW f, EnterSearch(o, f)
    PROVE  Backed(s', pc') /\ pc' # "client"
<1> DEFINE t == StartSearch(o)
<1>1. s' = t /\ pc' = (IF o.ok THEN "search" ELSE "unsat")
  BY DEF EnterSearch, Busy
<1>2. Good(o, TRUE) /\ o.trailLim = <<>> /\ IsObject(o)
  BY DEF Idling, AtRoot, Good, GoodBut
<1>3. t.conflict = {}
  <2> DEFINE x == [o EXCEPT !.model = <<>>, !.conflict = {}]
  <2>1. x.conflict = {} /\ IsObject(x)
    BY <1>2 DEF IsObject, Fields
  <2>2. t = x \/ \E a, b, c : t = [x EXCEPT !.maxLearnts = a, !.adjustConfl = b, !.adjustCnt = c]
    BY DEF StartSearch
  <2> HIDE DEF x, t
  <2> QED
    BY <2>1, <2>2 DEF IsObject, Fields
<1>4. IsTouched(o, t)
  BY <1>2, StartFresh
<1> HIDE DEF t
<1>5. AsIs(o, t, TRUE)
  BY <1>2, <1>4, TouchGood
<1>6. GoodBut(t, TRUE) /\ t.trailLim = <<>>
  BY <1>2, <1>5 DEF AsIs, Good
<1>7. AssumedFirst(t)
  BY <1>6, FirstAtRoot
<1> QED
  BY <1>1, <1>3, <1>7 DEF Backed

\* A call of solve() begins its search.
LEMMA SolveBacked ==
    ASSUME CoreInv, CallSolve
    PROVE  Backed(s', pc') /\ pc' # "client"
<1> DEFINE c == Call
           o == Prepared(c)
           f == [NoFrame EXCEPT !.simp = FALSE, !.turnOff = c.turnOff, !.search = TRUE,
                                !.extraFrozen = <<>>]
<1>1. pc = "client"
  BY DEF CallSolve, Calls
<1>2. Idling(s, TRUE)
  BY <1>1, ClientIdle
<1>3. s.useSimp = FALSE
  BY <1>2 DEF Idling, AtRoot, Good, GoodBut, Types
<1>4. EnterSearch(o, f)
  BY <1>3 DEF CallSolve
<1>5. c.lits \in Seq({p \in Lit : Kept(p)})
  BY DEF CallSolve, Calls, Legal
<1> HIDE DEF c, f
<1>6. c.lits \in Seq(LitsOf(s.nextVar))
  BY <1>5, LegalLits
<1>7. Idling(o, TRUE)
  BY <1>2, <1>6, PreparedGood
<1> HIDE DEF o
<1> QED
  BY <1>4, <1>7, EnterBacked

\* The calls that answer nothing of what follows.
LEMMA PlainAnswers ==
    ASSUME CallNewVar \/ CallAddClause \/ CallReleaseVar \/ CallSetter \/ CallSimplify \/ CallToDimacs
    PROVE  Backed(s', pc') /\ AnswerFollows'
<1>1. \E op, status, out : pc = "client" /\ op \notin {"solve", "implies"} /\ Returns(op, status, out)
  <2>1. CASE CallNewVar
    BY <2>1 DEF CallNewVar, Calls
  <2>2. CASE CallAddClause
    BY <2>2 DEF CallAddClause, Calls
  <2>3. CASE CallReleaseVar
    BY <2>3 DEF CallReleaseVar, Calls
  <2>4. CASE CallSetter
    <3>1. pc = "client" /\ Call.op \in Setters /\ Returns(Call.op, LUndef, <<>>)
      BY <2>4 DEF CallSetter, Calls
    <3>2. Call.op \notin {"solve", "implies"}
      BY <3>1 DEF Setters
    <3> QED
      BY <3>1, <3>2
  <2>5. CASE CallSimplify
    BY <2>5 DEF CallSimplify, Calls
  <2>6. CASE CallToDimacs
    BY <2>6 DEF CallToDimacs, Calls
  <2> QED
    BY <2>1, <2>2, <2>3, <2>4, <2>5, <2>6
<1>2. PICK op, status, out : pc = "client" /\ op \notin {"solve", "implies"} /\ Returns(op, status, out)
  BY <1>1
<1>3. pc' = "client" /\ answer'.op \notin {"solve", "implies"}
  BY <1>2 DEF Returns
<1> QED
  BY <1>3, BackedElse, OtherAnswer

\* The models of what the client stated satisfy what the solver keeps.
LEMMA ModelsFine ==
    ASSUME FineInv, NEW m \in Models
    PROVE  s.ok /\ Fine(s, m) /\ (pc = "unsat" => Sat(m, s.conflict))
<1>1. \A c \in added : Sat(m, c)
  BY DEF Models
<1> QED
  BY <1>1 DEF FineInv, FollowsFrom

\* implies() answers what follows.
LEMMA ImpliesAnswers ==
    ASSUME FineInv, CallImplies
    PROVE  Backed(s', pc') /\ AnswerFollows'
<1> DEFINE lits == Call.lits
           e == EnqueueAssumed(NewDecisionLevel(s), lits)
           r == Propagate(e.s)
           t == CancelUntil(IF e.clash THEN e.s ELSE r.s, 0)
           out == IF Contradicts(e, r) THEN <<>> ELSE Derived(e, r)
<1>1. /\ pc = "client" /\ pc' = "client" /\ s' = t /\ UNCHANGED asked /\ made' = made + 1
      /\ answer' = [op |-> "implies", status |-> ToLbool(~Contradicts(e, r)), out |-> out]
  BY DEF CallImplies, Calls, Returns, asked, Contradicts, Derived
<1>2. Idling(s, TRUE)
  BY <1>1, CallFollows
<1>3. lits \in Seq(Lit)
  BY DEF CallImplies, Calls, Legal
<1>4. lits \in Seq(LitsOf(s.nextVar))
  BY <1>3 DEF Lit, LitsOf
<1>5. client'.script[made'].lits = lits
  BY <1>1 DEF asked, Call
<1>6. e = EnqueueAssumed(NewDecisionLevel(s), lits) /\ r = Propagate(e.s)
      /\ t = CancelUntil(IF e.clash THEN e.s ELSE Propagate(e.s).s, 0)
  OBVIOUS
<1> HIDE DEF lits, e, r, t, out
<1>7. t.nextVar = s.nextVar
  <2>1. KeepsAll(s, t)
    BY <1>2, <1>4, <1>6, ImpliesFine
  <2> QED
    BY <2>1 DEF KeepsAll
<1>8. Models' = Models
  BY <1>1, <1>7 DEF Models, Assignments, asked
<1>9. ASSUME NEW m \in Under(Models, lits)
      PROVE  ~Contradicts(e, r) /\ AllTrue(m, out)
  <2>1. m \in Models /\ AllTrue(m, lits)
    BY <1>9 DEF Under, AllTrue, ToSet
  <2>2. Fine(s, m)
    BY <2>1, ModelsFine
  <2>3. ~Contradicts(e, r) /\ AllTrue(m, Derived(e, r))
    BY <1>2, <1>4, <1>6, <2>1, <2>2, ImpliesRight
  <2> QED
    BY <2>3 DEF out
<1>10. Under(Models, client.script[made].lits)' = Under(Models, lits)
  BY <1>5, <1>8 DEF Under
<1>11. answer'.op = "implies" /\ answer'.out = out
       /\ (answer'.status = LFalse => Contradicts(e, r))
  BY <1>1 DEF ToLbool, LTrue, LFalse
<1>12. AnswerFollows'
  <2>1. \A m \in Under(Models, lits) : \A i \in DOMAIN out : Truth(m, out[i])
    BY <1>9 DEF AllTrue
  <2>2. Contradicts(e, r) => Under(Models, lits) = {}
    BY <1>9
  <2> QED
    BY <1>10, <1>11, <2>1, <2>2 DEF AnswerFollows, Answered
<1> QED
  BY <1>1, <1>12, BackedElse

\* A search that found a model.
LEMMA FoundModelAnswers ==
    ASSUME FoundModel
    PROVE  Backed(s', pc') /\ AnswerFollows'
<1>1. pc' = "client" /\ answer'.op = "solve" /\ answer'.status = LTrue
  BY DEF FoundModel, Finish
<1>2. AnswerFollows'
  BY <1>1 DEF AnswerFollows, Answered, LTrue, LFalse, LUndef
<1> QED
  BY <1>1, <1>2, BackedElse

\* A search that found that there is none: the conflict is over the assumptions, and
\* follows.
LEMMA FoundUnsatAnswers ==
    ASSUME AnswerInv, FoundUnsat
    PROVE  Backed(s', pc') /\ AnswerFollows'
<1> DEFINE b == s.ok /\ s.conflict # {}
           t == [s EXCEPT !.ok = b]
           m == CancelUntil(t, 0)
<1>1. pc = "unsat" /\ Finish(m, "solve", LFalse) /\ CoreInv /\ FineInv
  BY DEF FoundUnsat, AnswerInv, FineInv
<1>2. Good(s, TRUE) /\ Propagated(s) /\ frame.simp = FALSE /\ IsObject(s)
  BY <1>1 DEF CoreInv, Fits, Stopped, Good, GoodBut
<1>3. b \in BOOLEAN /\ (b => s.ok)
  BY <1>2 DEF Good, GoodBut, Types
<1> HIDE DEF b
<1>4. Good(t, TRUE) /\ t.trail = s.trail /\ t.qhead = s.qhead
  BY <1>2, <1>3, OkGood
<1>5. t.assumptions = s.assumptions /\ t.conflict = s.conflict /\ t.nextVar = s.nextVar
  OBVIOUS
<1> HIDE DEF t
<1>6. Propagated(t)
  BY <1>2, <1>4 DEF Propagated
<1>7. Same(t, m, CancelFields)
  BY <1>4, <1>6, CancelBack DEF BackAt
<1> HIDE DEF m
<1>8. m.assumptions = s.assumptions /\ m.conflict = s.conflict /\ m.nextVar = s.nextVar
  BY <1>5, <1>7 DEF Same, Fields, CancelFields
<1>9. /\ s' = m /\ pc' = "client" /\ UNCHANGED asked /\ answer'.op = "solve"
      /\ answer'.status = LFalse
  BY <1>1, <1>2 DEF Finish
<1>10. Models' = Models
  BY <1>8, <1>9 DEF Models, Assignments, asked
<1>11. s.conflict \subseteq Negated(s) /\ \A w \in Models : Sat(w, s.conflict)
  BY <1>1, ModelsFine DEF AnswerInv, Backed
<1>12. ConflictFits'
  BY <1>8, <1>9, <1>10, <1>11 DEF ConflictFits, Negated
<1>13. AnswerFollows'
  BY <1>9, <1>12 DEF AnswerFollows, Answered, LTrue, LFalse, LUndef
<1> QED
  BY <1>9, <1>13, BackedElse

\* A search that gave up, for a limit that still is reached.
LEMMA GaveUpAnswers ==
    ASSUME AnswerInv, GaveUp
    PROVE  Backed(s', pc') /\ AnswerFollows'
<1> DEFINE m == CancelUntil(s, 0)
<1>1. pc = "unknown" /\ Finish(m, "solve", LUndef) /\ CoreInv
  BY DEF GaveUp, AnswerInv, FineInv
<1>2. Good(s, TRUE) /\ Propagated(s) /\ frame.simp = FALSE
  BY <1>1 DEF CoreInv, Fits, Stopped
<1>3. Same(s, m, CancelFields)
  BY <1>2, CancelBack DEF BackAt
<1> HIDE DEF m
<1>4. CancelFields \intersect LimitFields = {}
  BY DEF CancelFields, LimitFields
<1>5. WithinBudget(m) = WithinBudget(s)
  BY <1>3, <1>4, BudgetSame
<1>6. ~WithinBudget(m)
  BY <1>1, <1>5 DEF AnswerInv, Backed
<1>7. s' = m /\ pc' = "client" /\ answer'.op = "solve" /\ answer'.status = LUndef
  BY <1>1, <1>2 DEF Finish
<1>8. ~WithinBudget(s)'
  BY <1>6, <1>7 DEF WithinBudget
<1>9. AnswerFollows'
  BY <1>7, <1>8 DEF AnswerFollows, Answered, LTrue, LFalse, LUndef
<1> QED
  BY <1>7, <1>9, BackedElse

\* A call of eliminate(), and its return.
LEMMA EliminateAnswers ==
    ASSUME CoreInv, CallEliminate \/ ReturnEliminated
    PROVE  Backed(s', pc') /\ AnswerFollows'
<1>1. CASE CallEliminate
  <2>1. \E next \in {"subsume", "eliminated"} : pc' = next
    BY <1>1 DEF CallEliminate, Busy
  <2> QED
    BY <2>1, BackedElse, OtherAnswer
<1>2. CASE ReturnEliminated
  <2>1. pc' = "client" /\ answer'.op = "eliminate"
    BY <1>2 DEF ReturnEliminated, Finish
  <2> QED
    BY <2>1, BackedElse, OtherAnswer
<1> QED
  BY <1>1, <1>2

\* A step of the client's thread.
LEMMA StepAnswers ==
    ASSUME AnswerInv, Step
    PROVE  Backed(s', pc') /\ AnswerFollows'
<1>0. FineInv /\ CoreInv
  BY DEF AnswerInv, FineInv
<1>1. CASE CallSubstitute
  BY <1>0, <1>1 DEF CallSubstitute, Calls, Legal, CoreInv
<1>2. CASE CallSolve
  BY <1>0, <1>2, SolveBacked, OtherAnswer
<1>3. CASE MakeCall
  BY <1>0, <1>1, <1>2, <1>3, PlainAnswers, ImpliesAnswers, EliminateAnswers DEF MakeCall
<1>4. CASE Search
  <2>1. pc = "search"
    BY <1>4 DEF Search
  <2>2. Backed(s, "search")
    BY <2>1 DEF AnswerInv
  <2> QED
    BY <1>0, <1>4, <2>2, SearchBacked, SearchStays, OtherAnswer
<1>5. CASE Work
  BY <1>0, <1>4, <1>5, NoElimination, EliminateAnswers, FoundModelAnswers, FoundUnsatAnswers,
     GaveUpAnswers DEF Work
<1> QED
  BY <1>3, <1>5 DEF Step

\* interrupt() from a handler changes no answer.
LEMMA InterruptedAnswers ==
    ASSUME AnswerInv, Interrupted
    PROVE  Backed(s', pc') /\ AnswerFollows'
<1> DEFINE t == Interrupt(s)
<1>1. s' = t /\ UNCHANGED <<pc, made, answer>> /\ UNCHANGED asked
  BY DEF Interrupted
<1>2. IsObject(s)
  BY DEF AnswerInv, FineInv, CoreInv, Fits, Searching, Stopped, Good, GoodBut
<1>3. t.interrupt = TRUE /\ Same(s, t, {"interrupt"})
  BY <1>2 DEF Interrupt, IsObject, Same, Fields
<1> HIDE DEF t
<1>4. ~WithinBudget(t)
  BY <1>3 DEF WithinBudget
<1>5. /\ t.ok = s.ok /\ t.nextVar = s.nextVar /\ t.conflict = s.conflict
      /\ t.assumptions = s.assumptions
  BY <1>3 DEF Same, Fields
<1>6. AnswerFollows'
  BY <1>1, <1>4, <1>5, SameAnswer DEF AnswerInv
<1>7. pc = "search" => AssumedFirst(t)
  <2>1. {"interrupt"} \intersect FirstFields = {}
    BY DEF FirstFields
  <2> QED
    BY <1>3, <2>1, FirstSame DEF AnswerInv, Backed
<1>8. Backed(t, pc)
  BY <1>4, <1>5, <1>7 DEF AnswerInv, Backed, Negated
<1> QED
  BY <1>1, <1>6, <1>8

\* The invariant holds when the program starts.
LEMMA AnswerInvInit ==
    ASSUME \A i \in DOMAIN Clients : Clients[i].simp = FALSE, MainInit
    PROVE  AnswerInv
<1>1. FineInv
  BY FineInvInit
<1>2. pc = "client" /\ answer = NoAnswer
  BY DEF MainInit, Init
<1>3. answer.op \notin {"solve", "implies"}
  BY <1>2 DEF NoAnswer
<1>4. AnswerFollows
  BY <1>3 DEF AnswerFollows, Answered
<1> QED
  BY <1>1, <1>2, <1>4, BackedElse DEF AnswerInv

\* Every step of the program keeps the invariant.
LEMMA AnswerInvNext ==
    ASSUME AnswerInv, [Next]_mainVars
    PROVE  AnswerInv'
<1>1. FineInv'
  BY FineInvNext DEF AnswerInv
<1>2. SUFFICES Backed(s', pc') /\ AnswerFollows'
  BY <1>1 DEF AnswerInv, Backed, AssumedFirst, Negated, WithinBudget
<1> DEFINE still == UNCHANGED <<client, s, pc, made, answer, added, alias>>
<1>3. CASE Proceed
  BY <1>3, StepAnswers DEF Proceed
<1>4. CASE still
  <2>1. UNCHANGED asked /\ UNCHANGED <<pc, made, answer>> /\ s' = s
    BY <1>4 DEF asked
  <2>2. AnswerFollows'
    BY <2>1, SameAnswer DEF AnswerInv
  <2> QED
    BY <2>1, <2>2 DEF AnswerInv
<1>5. CASE Interrupted
  BY <1>5, InterruptedAnswers
<1>6. CASE Exit
  <2>1. still
    BY <1>6 DEF Exit, ExitWith, vars
  <2> QED
    BY <1>4, <2>1
<1>7. CASE Signal
  <2>1. Interrupted \/ still
    BY <1>7 DEF Signal, ExitWith, vars
  <2> QED
    BY <1>4, <1>5, <2>1
<1>8. CASE Interruption
  BY <1>5, <1>8 DEF Interruption
<1>9. CASE OutOfMemory
  <2>1. still
    BY <1>9 DEF OutOfMemory, ExitWith, vars
  <2> QED
    BY <1>4, <2>1
<1>10. CASE Idle \/ UNCHANGED mainVars
  <2>1. still
    BY <1>10 DEF Idle, mainVars, vars
  <2> QED
    BY <1>4, <2>1
<1> QED
  BY <1>3, <1>6, <1>7, <1>8, <1>9, <1>10 DEF Next

\* Whatever its client asks, a Solver answers no, "undefined", and what is implied only
\* when it follows from the clauses its client has stated and the assumptions of the
\* call: the conflict of a refusal is over negated assumptions and follows, or nothing
\* satisfies the clauses; a search gives up for a limit or an interrupt only; and
\* implies() answers what holds in every model, or refuses when there is none.
THEOREM AnswersFollow ==
    ASSUME \A i \in DOMAIN Clients : Clients[i].simp = FALSE
    PROVE  Spec => []AnswerFollows
<1>1. MainInit => AnswerInv
  BY AnswerInvInit
<1>2. AnswerInv /\ [Next]_mainVars => AnswerInv'
  BY AnswerInvNext
<1>3. AnswerInv => AnswerFollows
  BY DEF AnswerInv
<1> QED
  BY <1>1, <1>2, <1>3, PTL DEF Spec
===============================================================================
