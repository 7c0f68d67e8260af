------------------------------- MODULE Mtl_proofs -------------------------------
(* Containers of mtl for every value of the constants: whatever calls a client *)
(* makes, each keeps its representation and does what Containers promises.     *)
(* First come the facts about a region, a vector, a hash table and sort(),     *)
(* then those about a queue, a set, a heap and the client's calls.             *)
EXTENDS MtlClient, Recursion_proofs, SequenceTheorems

-------------------------------------------------------------------------------
(* Regions.                                                                    *)

RegionBox == [sz : Nat, cap : 0 .. WordMax, wasted : Nat, fail : BOOLEAN]

\* r with another capacity: failed, or no smaller.
Recapped(c, r) ==
    /\ c \in RegionBox /\ c.sz = r.sz /\ c.wasted = r.wasted
    /\ c.fail \/ c.cap >= r.cap

\* Words do not leave their range.
LEMMA WrapMeans ==
    ASSUME NEW n \in Nat
    PROVE  /\ Wrap(n) \in 0 .. WordMax
           /\ n <= WordMax => Wrap(n) = n
           /\ Wrap(n) <= n
<1>1. WordMax + 1 \in Nat \ {0}
  BY SizesAssumption
<1>2. \A w \in Nat \ {0} : n % w \in 0 .. w - 1 /\ (n < w => n % w = n) /\ n % w <= n
  <2>1. ASSUME NEW w \in Nat \ {0}
        PROVE  n % w \in 0 .. w - 1 /\ (n < w => n % w = n)
    OBVIOUS
  <2>2. ASSUME NEW w \in Nat \ {0}
        PROVE  n % w <= n
    <3>1. CASE n < w
      BY <2>1, <3>1
    <3>2. CASE n >= w
      BY <2>1, <3>2
    <3> QED
      BY <3>1, <3>2
  <2> QED
    BY <2>1, <2>2
<1>3. WordMax \in Nat
  BY SizesAssumption
<1> QED
  BY <1>1, <1>2, <1>3 DEF Wrap

\* A capacity stays a word.
LEMMA EnlargeType ==
    ASSUME NEW c \in Nat
    PROVE  Enlarge(c) \in 0 .. WordMax
<1>1. (c \div 2) + (c \div 8) + 2 \in Nat
  OBVIOUS
<1>2. \A n \in Nat : n - (n % 2) \in Nat
  OBVIOUS
<1>3. c + Even((c \div 2) + (c \div 8) + 2) \in Nat
  BY <1>1, <1>2 DEF Even
<1> QED
  BY <1>3, WrapMeans DEF Enlarge

\* One round of capacity(); a failure is kept.
LEMMA CapacityRoundKeeps ==
    ASSUME NEW r \in RegionBox, NEW least \in Nat, NEW x, Recapped(x, r)
    PROVE  Recapped(CapacityRound(x, r.cap, least), r)
<1> DEFINE y == CapacityRound(x, r.cap, least)
<1>1. x.cap \in Nat /\ x.fail \in BOOLEAN /\ r.cap \in Nat
  BY SizesAssumption DEF Recapped, RegionBox
<1>2. CASE x.cap >= least \/ x.fail
  BY <1>2 DEF CapacityRound
<1>3. CASE ~ (x.cap >= least \/ x.fail)
  <2> DEFINE e == Enlarge(x.cap)
             f == e <= r.cap
  <2>1. e \in 0 .. WordMax /\ f \in BOOLEAN
    BY <1>1, EnlargeType
  <2>2. y = [x EXCEPT !.cap = e, !.fail = f]
    BY <1>3 DEF CapacityRound
  <2>3. f \/ e >= r.cap
    BY <1>1, <2>1, SizesAssumption
  <2> HIDE DEF e, f, y
  <2>4. y = [sz |-> x.sz, cap |-> e, wasted |-> x.wasted, fail |-> f]
    BY <2>2 DEF Recapped, RegionBox
  <2>5. x.sz \in Nat /\ x.wasted \in Nat /\ x.sz = r.sz /\ x.wasted = r.wasted
    BY DEF Recapped, RegionBox
  <2> QED
    BY <2>1, <2>3, <2>4, <2>5 DEF Recapped, RegionBox, y
<1> QED
  BY <1>2, <1>3

\* The rounds of capacity().
CapacityRounds(g, r, least, n) ==
    g[0] = r /\ \A i \in 1 .. n : i - 1 \in 0 .. n /\ g[i] = CapacityRound(g[i - 1], r.cap, least)

\* The rounds of capacity() can be looked at one by one.
LEMMA CapacityRoundsExist ==
    ASSUME NEW r \in RegionBox, NEW least \in Nat
    PROVE  \E n \in Nat : \E g : CapacityRounds(g, r, least, n) /\ RegionCapacity(r, least) = g[n]
<1> DEFINE rounds == WordMax \div 2 + 1
           grown[n \in 0 .. rounds] == IF n = 0 THEN r ELSE CapacityRound(grown[n - 1], r.cap, least)
           X == {x \in RegionBox : Recapped(x, r)}
           step == [k \in Nat |-> [x \in X |-> CapacityRound(x, r.cap, least)]]
<1>1. RegionCapacity(r, least) = grown[rounds]
  BY DEF RegionCapacity
<1>2. rounds \in Nat
  BY SizesAssumption
<1> HIDE DEF rounds
<1>3. r \in X
  <2>1. r.cap \in Nat
    BY SizesAssumption DEF RegionBox
  <2> QED
    BY <2>1 DEF Recapped
<1>4. step \in Steps(X)
  <2>1. ASSUME NEW x \in X
        PROVE  CapacityRound(x, r.cap, least) \in X
    BY CapacityRoundKeeps DEF Recapped
  <2> HIDE DEF X
  <2> QED
    BY <2>1 DEF Steps
<1> HIDE DEF X
<1>5. PICK g : RepeatsUpTo(g, rounds, X, r, step)
  <2> HIDE DEF step
  <2> QED
    BY <1>2, <1>3, <1>4, IterationUpTo
<1>6. ASSUME NEW i \in 1 .. rounds
      PROVE  i - 1 \in 0 .. rounds /\ g[i] = CapacityRound(g[i - 1], r.cap, least)
  <2>1. i - 1 \in Nat
    BY <1>2
  <2>2. i - 1 \in 0 .. rounds /\ g[i] = step[i - 1][g[i - 1]] /\ g[i - 1] \in X
    BY <1>5 DEF RepeatsUpTo
  <2> QED
    BY <2>1, <2>2
<1>7. g = [i \in 0 .. rounds |-> IF i = 0 THEN r ELSE CapacityRound(g[i - 1], r.cap, least)]
  <2>1. \A i \in 0 .. rounds : i # 0 => i \in 1 .. rounds
    BY <1>2
  <2>2. g = [i \in 0 .. rounds |-> g[i]] /\ g[0] = r
    BY <1>5 DEF RepeatsUpTo
  <2> QED
    BY <1>6, <2>1, <2>2
<1>8. grown = [i \in 0 .. rounds |-> IF i = 0 THEN r ELSE CapacityRound(grown[i - 1], r.cap, least)]
  <2>1. grown = CHOOSE f : f = [i \in 0 .. rounds |-> IF i = 0 THEN r ELSE CapacityRound(f[i - 1], r.cap, least)]
    BY DEF grown
  <2>2. \E f : f = [i \in 0 .. rounds |-> IF i = 0 THEN r ELSE CapacityRound(f[i - 1], r.cap, least)]
    BY <1>7
  <2> HIDE DEF grown
  <2> QED
    BY <2>1, <2>2, Zenon
<1> HIDE DEF grown, step
<1>9. CapacityRounds(grown, r, least, rounds)
  <2>1. grown[0] = r
    BY <1>2, <1>8
  <2>2. ASSUME NEW i \in 1 .. rounds
        PROVE  i - 1 \in 0 .. rounds /\ grown[i] = CapacityRound(grown[i - 1], r.cap, least)
    <3>1. i \in 0 .. rounds /\ i # 0 /\ i - 1 \in 0 .. rounds
      BY <1>2
    <3> QED
      BY <1>8, <3>1
  <2> QED
    BY <2>1, <2>2 DEF CapacityRounds
<1> QED
  BY <1>1, <1>2, <1>9

\* What every round keeps, capacity() keeps.
LEMMA CapacityKeeps ==
    ASSUME NEW r \in RegionBox, NEW least \in Nat, NEW P, r \in P,
           \A x \in P : CapacityRound(x, r.cap, least) \in P
    PROVE  RegionCapacity(r, least) \in P
<1>n. PICK n \in Nat : \E g : CapacityRounds(g, r, least, n) /\ RegionCapacity(r, least) = g[n]
  BY CapacityRoundsExist
<1>1. PICK g : CapacityRounds(g, r, least, n) /\ RegionCapacity(r, least) = g[n]
  BY <1>n
<1> DEFINE S == {i \in Nat : i <= n => g[i] \in P}
<1>2. 0 \in S
  BY <1>1 DEF CapacityRounds
<1>3. ASSUME NEW i \in Nat, i \in S
      PROVE  i + 1 \in S
  <2> SUFFICES ASSUME i + 1 <= n PROVE g[i + 1] \in P
    OBVIOUS
  <2>1. i + 1 \in 1 .. n /\ (i + 1) - 1 = i /\ i <= n
    OBVIOUS
  <2>2. g[i + 1] = CapacityRound(g[i], r.cap, least)
    BY <1>1, <2>1 DEF CapacityRounds
  <2>3. g[i] \in P
    BY <1>3, <2>1
  <2> QED
    BY <2>2, <2>3
<1>4. Nat \subseteq S
  <2> HIDE DEF S
  <2> QED
    BY <1>2, <1>3, InductionOn
<1> QED
  BY <1>1, <1>4

\* capacity() changes the capacity only.
LEMMA CapacityRecaps ==
    ASSUME NEW r \in RegionBox, NEW least \in Nat
    PROVE  Recapped(RegionCapacity(r, least), r)
<1> DEFINE P == {x \in RegionBox : Recapped(x, r)}
<1>1. r \in P
  <2>1. r.cap \in Nat
    BY SizesAssumption DEF RegionBox
  <2> QED
    BY <2>1 DEF Recapped
<1>2. ASSUME NEW x \in P
      PROVE  CapacityRound(x, r.cap, least) \in P
  BY CapacityRoundKeeps DEF Recapped
<1>3. RegionCapacity(r, least) \in P
  <2> HIDE DEF P
  <2> QED
    BY <1>1, <1>2, CapacityKeeps
<1> QED
  BY <1>3

\* A capacity that is enough, or that has failed, is left alone.
LEMMA CapacityEnough ==
    ASSUME NEW r \in RegionBox, NEW least \in Nat, r.fail \/ r.cap >= least
    PROVE  RegionCapacity(r, least) = r
<1>1. r \in {r}
  OBVIOUS
<1>2. \A x \in {r} : CapacityRound(x, r.cap, least) \in {r}
  BY DEF CapacityRound
<1>3. RegionCapacity(r, least) \in {r}
  BY <1>1, <1>2, CapacityKeeps
<1> QED
  BY <1>3

\* A capacity wraps around only near the end of the words.
LEMMA EnlargeWraps ==
    ASSUME NEW c \in Nat, Enlarge(c) <= c
    PROVE  13 * c > 8 * (WordMax - 2)
<1> DEFINE q == (c \div 2) + (c \div 8) + 2
           e == Even(q)
<1>1. q \in Nat /\ q >= 2 /\ 8 * q <= 5 * c + 16
  OBVIOUS
<1>2. \A n \in Nat : n - (n % 2) \in Nat /\ n - (n % 2) <= n /\ (n >= 2 => n - (n % 2) >= 2)
  OBVIOUS
<1> HIDE DEF q
<1>3. e \in Nat /\ e <= q /\ e >= 2
  BY <1>1, <1>2 DEF Even
<1>4. Enlarge(c) = Wrap(c + e)
  BY DEF Enlarge, q
<1> HIDE DEF e
<1>5. ~ (c + e <= WordMax)
  <2>1. c + e \in Nat /\ c + e <= WordMax => Wrap(c + e) = c + e
    BY <1>3, WrapMeans
  <2> QED
    BY <1>3, <1>4, <2>1
<1>6. WordMax \in Nat
  BY SizesAssumption
<1> QED
  BY <1>1, <1>3, <1>5, <1>6

\* capacity() throws only when what is asked for is near the end of the words.
LEMMA CapacityThrows ==
    ASSUME NEW r \in RegionBox, ~r.fail, NEW least \in Nat, RegionCapacity(r, least).fail
    PROVE  13 * least > 8 * (WordMax - 2)
<1> DEFINE P == {x \in RegionBox : Recapped(x, r) /\ (x.fail => 13 * least > 8 * (WordMax - 2))}
<1>1. r \in P
  <2>1. r.cap \in Nat
    BY SizesAssumption DEF RegionBox
  <2> QED
    BY <2>1 DEF Recapped
<1>2. ASSUME NEW x \in P
      PROVE  CapacityRound(x, r.cap, least) \in P
  <2> DEFINE y == CapacityRound(x, r.cap, least)
  <2>1. Recapped(y, r) /\ y \in RegionBox
    BY CapacityRoundKeeps DEF Recapped
  <2>2. CASE x.cap >= least \/ x.fail
    <3>1. y = x
      BY <2>2 DEF CapacityRound
    <3> QED
      BY <3>1
  <2>3. CASE ~ (x.cap >= least \/ x.fail)
    <3>1. x.cap \in Nat /\ r.cap \in Nat /\ x.cap >= r.cap /\ x.cap < least
      BY <2>3, SizesAssumption DEF Recapped, RegionBox
    <3>2. y.fail = (Enlarge(x.cap) <= r.cap)
      BY <2>3 DEF CapacityRound, RegionBox
    <3>3. Enlarge(x.cap) \in Nat
      BY <3>1, EnlargeType, SizesAssumption
    <3>4. y.fail => 13 * x.cap > 8 * (WordMax - 2)
      <4>1. y.fail => Enlarge(x.cap) <= x.cap
        <5> DEFINE e == Enlarge(x.cap)
                   c == x.cap
                   f == r.cap
        <5>1. e \in Nat /\ c \in Nat /\ f \in Nat /\ f <= c
          BY <3>1, <3>3
        <5>2. y.fail => e <= f
          BY <3>2
        <5> HIDE DEF y, e, c, f
        <5>3. y.fail => e <= c
          BY <5>1, <5>2
        <5> QED
          BY <5>3 DEF e, c
      <4> QED
        BY <3>1, <4>1, EnlargeWraps
    <3>5. y.fail => 13 * least > 8 * (WordMax - 2)
      BY <3>1, <3>4, SizesAssumption
    <3> QED
      BY <2>1, <3>5
  <2> QED
    BY <2>2, <2>3
<1>3. RegionCapacity(r, least) \in P
  <2> HIDE DEF P
  <2> QED
    BY <1>1, <1>2, CapacityKeeps
<1> QED
  BY <1>3

\* The words in use and those given back are within the capacity, until a call threw.
RegionRep(r) == r \in RegionBox /\ (r.fail \/ (r.wasted <= r.sz /\ r.sz <= r.cap))

\* The types of a region.
LEMMA RegionTypes ==
    ASSUME NEW r \in RegionBox
    PROVE  /\ r.sz \in Nat /\ r.cap \in Nat /\ r.cap <= WordMax /\ r.wasted \in Nat /\ r.fail \in BOOLEAN
           /\ r = [sz |-> r.sz, cap |-> r.cap, wasted |-> r.wasted, fail |-> r.fail]
BY SizesAssumption DEF RegionBox

Words(r) == [used |-> r.sz, freed |-> r.wasted]

\* A region of no words.
LEMMA NoRegionRep == NoRegion \in RegionBox /\ RegionRep(NoRegion) /\ ~NoRegion.fail
BY SizesAssumption DEF NoRegion, RegionBox, RegionRep

\* A new region has no words in use.
LEMMA NewRegionRep ==
    ASSUME NEW start \in Nat
    PROVE  RegionRep(NewRegion(start)) /\ Words(NewRegion(start)) = [used |-> 0, freed |-> 0]
<1> DEFINE c == NewRegion(start)
<1>1. Recapped(c, NoRegion)
  BY NoRegionRep, CapacityRecaps DEF NewRegion
<1> HIDE DEF c
<1>2. c \in RegionBox /\ c.sz = 0 /\ c.wasted = 0
  BY <1>1 DEF Recapped, NoRegion
<1>3. c.cap \in Nat
  BY <1>2, RegionTypes
<1> QED
  BY <1>2, <1>3 DEF RegionRep, Words, c

\* alloc() hands out the words behind those in use, or throws.
LEMMA AllocMeans ==
    ASSUME NEW r, RegionRep(r), ~r.fail, NEW n \in 0 .. WordMax, CapacityEnds(r, Wrap(r.sz + n))
    PROVE  LET a == RegionAlloc(r, n)
           IN  /\ RegionRep(a)
               /\ a.fail => 13 * (r.sz + n) > 8 * (WordMax - 2)
               /\ ~a.fail => Words(a) = [used |-> r.sz + n, freed |-> r.wasted]
<1> DEFINE a == RegionAlloc(r, n)
           w == Wrap(r.sz + n)
           c == RegionCapacity(r, w)
<1>1. /\ r \in RegionBox /\ r.sz \in Nat /\ r.wasted \in Nat /\ r.cap \in Nat /\ r.cap <= WordMax
      /\ r.wasted <= r.sz /\ r.sz <= r.cap /\ n \in Nat /\ n <= WordMax /\ WordMax \in Nat
  BY RegionTypes, SizesAssumption DEF RegionRep
<1>2. /\ w \in Nat /\ w <= WordMax /\ w <= r.sz + n
      /\ r.sz + n <= WordMax => w = r.sz + n
  <2>1. r.sz + n \in Nat
    BY <1>1
  <2> QED
    BY <1>1, <2>1, WrapMeans
<1>3. r.sz + n > WordMax => w < r.sz
  <2>2. r.sz + n \in Nat /\ r.sz + n < 2 * (WordMax + 1)
    BY <1>1
  <2>3. r.sz + n > WordMax => w = (r.sz + n) - (WordMax + 1)
    <3>1. WordMax + 1 \in Nat \ {0}
      BY <1>1
    <3>2. (r.sz + n) % (WordMax + 1) = IF r.sz + n < WordMax + 1 THEN r.sz + n
                                       ELSE (r.sz + n) - (WordMax + 1)
      BY <2>2, <3>1, OneTurn
    <3> QED
      BY <1>1, <3>2 DEF Wrap
  <2> QED
    BY <1>1, <2>3
<1>4. a = IF c.fail THEN c ELSE [c EXCEPT !.sz = Wrap(@ + n), !.fail = w < r.sz]
  BY DEF RegionAlloc
<1>5. Recapped(c, r) /\ (c.fail => 13 * w > 8 * (WordMax - 2)) /\ (c.fail \/ c.cap >= w)
  BY <1>1, <1>2, CapacityRecaps, CapacityThrows DEF CapacityEnds
<1>6. /\ c \in RegionBox /\ c.sz = r.sz /\ c.wasted = r.wasted
      /\ c.cap \in Nat /\ c.cap <= WordMax /\ c.fail \in BOOLEAN
      /\ c = [sz |-> c.sz, cap |-> c.cap, wasted |-> c.wasted, fail |-> c.fail]
  BY <1>5, RegionTypes DEF Recapped
<1>7. CASE c.fail
  <2>1. a = c
    BY <1>4, <1>7
  <2>2. 13 * (r.sz + n) > 8 * (WordMax - 2)
    <3> HIDE DEF c, w
    <3> QED
      BY <1>1, <1>2, <1>5, <1>7
  <2> HIDE DEF a, c
  <2> QED
    BY <1>6, <1>7, <2>1, <2>2 DEF RegionRep, a
<1>8. CASE ~c.fail
  <2>1. a = [c EXCEPT !.sz = w, !.fail = w < r.sz]
    BY <1>4, <1>6, <1>8
  <2> HIDE DEF a, c, w
  <2>2. a = [sz |-> w, cap |-> c.cap, wasted |-> r.wasted, fail |-> w < r.sz]
    BY <1>6, <2>1
  <2>3. a \in RegionBox
    BY <1>1, <1>2, <1>6, <2>2 DEF RegionBox
  <2>4. a.fail <=> w < r.sz
    BY <2>2
  <2>5. a.fail => 13 * (r.sz + n) > 8 * (WordMax - 2)
    BY <1>1, <1>2, <2>4
  <2>6. ~a.fail => a.sz = r.sz + n /\ a.wasted = r.wasted /\ a.sz <= a.cap
    BY <1>1, <1>2, <1>3, <1>5, <1>8, <2>2, <2>4
  <2>7. ~a.fail => a.wasted <= a.sz
    BY <1>1, <2>6
  <2> QED
    BY <2>3, <2>5, <2>6, <2>7 DEF RegionRep, Words, a
<1> QED
  BY <1>7, <1>8

\* free() only counts.
LEMMA FreeMeans ==
    ASSUME NEW r, RegionRep(r), ~r.fail, NEW n \in Nat, r.wasted + n <= r.sz
    PROVE  /\ RegionRep(RegionFree(r, n))
           /\ Words(RegionFree(r, n)) = [used |-> r.sz, freed |-> r.wasted + n]
<1> DEFINE a == RegionFree(r, n)
<1>1. /\ r.sz \in Nat /\ r.wasted \in Nat /\ r.cap \in Nat /\ r.cap <= WordMax /\ r.fail \in BOOLEAN
      /\ r.sz <= r.cap /\ WordMax \in Nat
      /\ r = [sz |-> r.sz, cap |-> r.cap, wasted |-> r.wasted, fail |-> r.fail]
  BY RegionTypes, SizesAssumption DEF RegionRep
<1>2. r.wasted + n \in Nat /\ r.wasted + n <= WordMax
  BY <1>1
<1>3. Wrap(r.wasted + n) = r.wasted + n
  BY <1>2, WrapMeans
<1>4. a = [r EXCEPT !.wasted = r.wasted + n]
  BY <1>1, <1>3 DEF RegionFree
<1> HIDE DEF a
<1>5. a = [sz |-> r.sz, cap |-> r.cap, wasted |-> r.wasted + n, fail |-> r.fail]
  BY <1>1, <1>4
<1> QED
  BY <1>1, <1>2, <1>5 DEF RegionRep, RegionBox, Words, a

\* moveTo() leaves what is in use, with nothing given back.
LEMMA MoveMeans ==
    ASSUME NEW r, RegionRep(r), ~r.fail, CapacityEnds(NoRegion, r.sz - r.wasted)
    PROVE  LET a == RegionMove(r)
           IN  /\ RegionRep(a)
               /\ a.fail => 13 * (r.sz - r.wasted) > 8 * (WordMax - 2)
               /\ ~a.fail => Words(a) = [used |-> r.sz - r.wasted, freed |-> 0]
<1> DEFINE n == r.sz - r.wasted
           to == NewRegion(n)
           a == RegionMove(r)
<1>1. r.sz \in Nat /\ r.wasted \in Nat /\ r.wasted <= r.sz /\ r.sz <= WordMax /\ WordMax \in Nat
  BY RegionTypes, SizesAssumption DEF RegionRep
<1>2. n \in Nat /\ n <= WordMax /\ Wrap(n) = n /\ (n = 0 <=> r.sz = r.wasted)
  <2>1. n \in Nat /\ n <= WordMax /\ (n = 0 <=> r.sz = r.wasted)
    BY <1>1
  <2> HIDE DEF n
  <2> QED
    BY <2>1, WrapMeans
<1>3. a = IF r.sz = r.wasted THEN to ELSE RegionAlloc(to, n)
  BY <1>2 DEF RegionMove
<1>4. CapacityEnds(NoRegion, n)
  OBVIOUS
<1> HIDE DEF n
<1>5. /\ RegionRep(to) /\ to \in RegionBox /\ to.sz = 0 /\ to.wasted = 0
      /\ to.fail => 13 * n > 8 * (WordMax - 2)
      /\ to.fail \/ to.cap >= n
  <2>1. RegionRep(to) /\ Words(to) = [used |-> 0, freed |-> 0]
    BY <1>2, NewRegionRep
  <2>2. to.fail => 13 * n > 8 * (WordMax - 2)
    BY <1>2, NoRegionRep, CapacityThrows DEF NewRegion
  <2>3. to.fail \/ to.cap >= n
    BY <1>4 DEF CapacityEnds, NewRegion
  <2> QED
    BY <2>1, <2>2, <2>3 DEF Words, RegionRep
<1> HIDE DEF to
<1>6. Wrap(to.sz + n) = n
  <2>1. 0 + n = n
    BY <1>2
  <2> QED
    BY <1>2, <1>5, <2>1
<1>7. RegionCapacity(to, n) = to
  BY <1>2, <1>5, CapacityEnough
<1>8. CASE r.sz = r.wasted
  <2>1. a = to /\ n = 0
    BY <1>2, <1>3, <1>8
  <2> QED
    BY <1>5, <2>1 DEF Words, n
<1>9. CASE r.sz # r.wasted
  <2>1. a = RegionAlloc(to, n)
    BY <1>3, <1>9
  <2>2. CASE to.fail
    <3>1. a = to
      BY <1>6, <1>7, <2>1, <2>2 DEF RegionAlloc
    <3> QED
      BY <1>5, <2>2, <3>1 DEF n
  <2>3. CASE ~to.fail
    <3>1. CapacityEnds(to, Wrap(to.sz + n))
      BY <1>5, <1>6, <1>7 DEF CapacityEnds
    <3>2. n \in 0 .. WordMax /\ to.sz + n = n
      BY <1>1, <1>2, <1>5
    <3>3. /\ RegionRep(a) /\ (a.fail => 13 * (to.sz + n) > 8 * (WordMax - 2))
          /\ ~a.fail => Words(a) = [used |-> to.sz + n, freed |-> to.wasted]
      BY <1>5, <2>1, <2>3, <3>1, <3>2, AllocMeans
    <3> QED
      BY <1>5, <3>2, <3>3 DEF n
  <2> QED
    BY <2>2, <2>3
<1> QED
  BY <1>8, <1>9

-------------------------------------------------------------------------------
(* Vectors.                                                                    *)

\* What VecOK says of a vector, with its types.
VecRep(v) ==
    /\ v \in [data : Seq(Values), cap : Nat, fail : BOOLEAN]
    /\ Len(v.data) <= v.cap /\ v.cap <= IntMax /\ v.cap % 2 = 0

\* The types of a vector.
LEMMA VecTypes ==
    ASSUME NEW v, VecRep(v)
    PROVE  /\ v.data \in Seq(Values) /\ Len(v.data) \in Nat /\ v.cap \in Nat /\ v.fail \in BOOLEAN
           /\ Len(v.data) <= v.cap /\ v.cap <= IntMax /\ v.cap % 2 = 0 /\ IntMax \in Nat
           /\ v = [data |-> v.data, cap |-> v.cap, fail |-> v.fail]
BY SizesAssumption DEF VecRep

\* A vector begins empty.
LEMMA EmptyVecRep == VecRep(EmptyVec) /\ EmptyVec.data = <<>> /\ ~EmptyVec.fail
BY SizesAssumption DEF VecRep, EmptyVec

\* Growth is even and enough; half as much again, or what was asked for.
LEMMA GrownMeans ==
    ASSUME NEW c \in Nat, NEW n \in Nat, c < n, n - c < IntMax
    PROVE  /\ Grown(c, n) \in Nat /\ Grown(c, n) >= n - c /\ Grown(c, n) % 2 = 0
           /\ 2 * (c + Grown(c, n)) <= 3 * n + 4
<1> DEFINE a == n - c + 1
           b == c \div 2 + 2
<1>1. \A x \in Nat : /\ x - (x % 2) \in Nat /\ (x - (x % 2)) % 2 = 0
                     /\ x - (x % 2) <= x /\ x - (x % 2) >= x - 1
  OBVIOUS
<1>2. a \in Nat /\ b \in Nat /\ 2 * b <= c + 4
  OBVIOUS
<1> DEFINE e == Even(a)
           f == Even(b)
<1>0. WrapInt(n - c + 1) = a
  BY SizesAssumption DEF WrapInt
<1>3. Grown(c, n) = IF e > f THEN e ELSE f
  BY <1>0 DEF Grown, Larger
<1>4. a = n - c + 1
  OBVIOUS
<1> HIDE DEF a, b
<1>5. e \in Nat /\ e % 2 = 0 /\ e <= a /\ e >= a - 1 /\ f \in Nat /\ f % 2 = 0 /\ f <= b
  BY <1>1, <1>2 DEF Even
<1> HIDE DEF e, f
<1> DEFINE g == Grown(c, n)
<1>6. g = IF e > f THEN e ELSE f
  BY <1>3
<1> HIDE DEF g
<1>7. CASE e > f
  BY <1>2, <1>4, <1>5, <1>6, <1>7 DEF g
<1>8. CASE ~ (e > f)
  BY <1>2, <1>4, <1>5, <1>6, <1>8 DEF g
<1> QED
  BY <1>7, <1>8

\* capacity() makes room, or throws near the largest int.
LEMMA CapacityMeans ==
    ASSUME NEW v, VecRep(v), ~v.fail, NEW n \in Nat, StepFits(v, n)
    PROVE  /\ VecRep(Capacity(v, n)) /\ Capacity(v, n).data = v.data
           /\ ~Capacity(v, n).fail => Capacity(v, n).cap >= n
           /\ Capacity(v, n).fail => 3 * n + 4 > 2 * IntMax
<1>1. /\ v.data \in Seq(Values) /\ Len(v.data) \in Nat /\ v.cap \in Nat /\ v.fail = FALSE
      /\ Len(v.data) <= v.cap /\ v.cap <= IntMax /\ v.cap % 2 = 0 /\ IntMax \in Nat
      /\ v = [data |-> v.data, cap |-> v.cap, fail |-> v.fail]
  BY VecTypes
<1> DEFINE w == Capacity(v, n)
           g == Grown(v.cap, n)
<1>2. CASE v.cap >= n
  <2>1. w = v
    BY <1>2 DEF Capacity
  <2> QED
    BY <1>1, <1>2, <2>1
<1>3. CASE v.cap < n
  <2>1. g \in Nat /\ g >= n - v.cap /\ g % 2 = 0 /\ 2 * (v.cap + g) <= 3 * n + 4
    BY <1>1, <1>3, GrownMeans DEF StepFits
  <2>2. w = IF g > IntMax - v.cap THEN [v EXCEPT !.fail = TRUE] ELSE [v EXCEPT !.cap = @ + g]
    BY <1>1, <1>3 DEF Capacity
  <2> HIDE DEF g, w
  <2>3. CASE g > IntMax - v.cap
    <3>1. w = [data |-> v.data, cap |-> v.cap, fail |-> TRUE]
      BY <1>1, <2>2, <2>3
    <3>2. 3 * n + 4 > 2 * IntMax
      BY <1>1, <2>1, <2>3
    <3> QED
      BY <1>1, <3>1, <3>2 DEF VecRep, w
  <2>4. CASE ~ (g > IntMax - v.cap)
    <3>1. w = [data |-> v.data, cap |-> v.cap + g, fail |-> FALSE]
      BY <1>1, <2>2, <2>4
    <3>2. v.cap + g \in Nat /\ v.cap + g <= IntMax /\ v.cap + g >= n /\ Len(v.data) <= v.cap + g
      BY <1>1, <1>3, <2>1, <2>4
    <3>3. (v.cap + g) % 2 = 0
      <4>1. \A x, y \in Nat : x % 2 = 0 /\ y % 2 = 0 => (x + y) % 2 = 0
        OBVIOUS
      <4> QED
        BY <1>1, <2>1, <4>1
    <3> QED
      BY <1>1, <3>1, <3>2, <3>3 DEF VecRep, w
  <2> QED
    BY <2>3, <2>4
<1> QED
  BY <1>1, <1>2, <1>3

\* The elements may be replaced by no more than there is room for.
LEMMA WithData ==
    ASSUME NEW v, VecRep(v), NEW s \in Seq(Values), Len(s) <= v.cap
    PROVE  LET w == [v EXCEPT !.data = s]
           IN  VecRep(w) /\ w.data = s /\ w.fail = v.fail
<1>1. v = [data |-> v.data, cap |-> v.cap, fail |-> v.fail]
  BY VecTypes
<1>2. [v EXCEPT !.data = s] = [data |-> s, cap |-> v.cap, fail |-> v.fail]
  BY <1>1
<1> QED
  BY <1>2, VecTypes DEF VecRep

\* push() appends, or throws near the largest int.
LEMMA PushMeans ==
    ASSUME NEW v, VecRep(v), ~v.fail, NEW x \in Values
    PROVE  LET w == VecPush(v, x)
           IN  /\ VecRep(w)
               /\ ~w.fail => w.data = Append(v.data, x)
               /\ w.fail => 3 * (Len(v.data) + 1) + 4 > 2 * IntMax
<1> DEFINE n == Len(v.data)
           c == IF n = v.cap THEN Capacity(v, n + 1) ELSE v
           w == VecPush(v, x)
<1>1. n \in Nat /\ v.data \in Seq(Values) /\ n <= v.cap /\ v.cap \in Nat
  BY VecTypes
<1>2. /\ VecRep(c) /\ c.data = v.data /\ (~c.fail => c.cap >= n + 1)
      /\ c.fail => 3 * (n + 1) + 4 > 2 * IntMax
  <2>1. CASE n = v.cap
    <3>1. n + 1 \in Nat /\ c = Capacity(v, n + 1) /\ StepFits(v, n + 1)
      BY <1>1, <2>1, IntAssumption DEF StepFits
    <3> QED
      BY <3>1, CapacityMeans
  <2>2. CASE n # v.cap
    BY <1>1, <2>2
  <2> QED
    BY <2>1, <2>2
<1>3. w = IF c.fail THEN c ELSE [c EXCEPT !.data = Append(c.data, x)]
  BY DEF VecPush, VecSize, IfNotFailed
<1> HIDE DEF c, w
<1>4. Append(v.data, x) \in Seq(Values) /\ Len(Append(v.data, x)) = n + 1
  BY <1>1
<1> HIDE DEF n
<1>5. CASE c.fail
  BY <1>2, <1>3, <1>5 DEF w, n
<1>6. CASE ~c.fail
  <2>1. w = [c EXCEPT !.data = Append(v.data, x)]
    BY <1>2, <1>3, <1>6
  <2>2. VecRep(w) /\ w.data = Append(v.data, x) /\ w.fail = c.fail
    BY <1>2, <1>4, <1>6, <2>1, WithData
  <2> QED
    BY <1>6, <2>2 DEF w
<1> QED
  BY <1>5, <1>6

\* shrink() drops the last elements.
LEMMA ShrinkMeans ==
    ASSUME NEW v, VecRep(v), ~v.fail, NEW n \in 0 .. Len(v.data)
    PROVE  LET w == VecShrink(v, n)
           IN  VecRep(w) /\ ~w.fail /\ w.data = SubSeq(v.data, 1, Len(v.data) - n)
<1> DEFINE s == SubSeq(v.data, 1, Len(v.data) - n)
<1>1. Len(v.data) \in Nat /\ v.data \in Seq(Values) /\ Len(v.data) <= v.cap /\ v.cap \in Nat
  BY VecTypes
<1>2. s \in Seq(Values) /\ Len(s) = Len(v.data) - n
  BY <1>1
<1>3. VecShrink(v, n) = [v EXCEPT !.data = s]
  BY DEF VecShrink
<1> HIDE DEF s
<1>4. Len(s) <= v.cap
  BY <1>1, <1>2
<1> QED
  BY <1>2, <1>3, <1>4, WithData DEF s

\* growTo() keeps the elements and adds copies of the pad.
Padded(s, n, pad) == s \o [i \in 1 .. n - Len(s) |-> pad]

\* A sequence padded up to n elements.
LEMMA PaddedMeans ==
    ASSUME NEW s \in Seq(Values), NEW n \in Nat, n > Len(s), NEW pad \in Values
    PROVE  LET t == Padded(s, n, pad)
           IN  /\ t \in Seq(Values) /\ Len(t) = n /\ SubSeq(t, 1, Len(s)) = s
               /\ \A i \in DOMAIN t \ DOMAIN s : t[i] = pad
<1> DEFINE p == [i \in 1 .. n - Len(s) |-> pad]
           t == s \o p
           m == Len(s)
<1>1. m \in Nat /\ p \in Seq(Values) /\ Len(p) = n - m /\ \A i \in 1 .. n - m : p[i] = pad
  OBVIOUS
<1> HIDE DEF p
<1>2. /\ t \in Seq(Values) /\ Len(t) = m + (n - m)
      /\ \A i \in 1 .. m + (n - m) : t[i] = IF i <= m THEN s[i] ELSE p[i - m]
  BY <1>1, ConcatProperties
<1>3. m + (n - m) = n /\ n > m
  BY <1>1
<1> HIDE DEF t, m
<1>4. t \in Seq(Values) /\ Len(t) = n /\ \A i \in 1 .. n : t[i] = IF i <= m THEN s[i] ELSE p[i - m]
  BY <1>2, <1>3
<1>5. SubSeq(t, 1, m) = s
  <2>1. SubSeq(t, 1, m) \in Seq(Values) /\ Len(SubSeq(t, 1, m)) = m
        /\ \A i \in 1 .. m : SubSeq(t, 1, m)[i] = t[i]
    BY <1>1, <1>3, <1>4
  <2>2. \A i \in 1 .. m : SubSeq(t, 1, m)[i] = s[i]
    BY <1>1, <1>3, <1>4, <2>1
  <2> QED
    BY <2>1, <2>2, SeqEqual DEF m
<1>6. ASSUME NEW i \in DOMAIN t \ DOMAIN s
      PROVE  t[i] = pad
  <2>1. i \in 1 .. n /\ ~ (i \in 1 .. m)
    BY <1>4 DEF m
  <2>2. ~ (i <= m) /\ i - m \in 1 .. n - m
    BY <1>1, <1>3, <2>1
  <2> QED
    BY <1>1, <1>4, <2>1, <2>2
<1> QED
  BY <1>4, <1>5, <1>6 DEF Padded, t, p, m

\* growTo() keeps the elements and pads.
LEMMA GrowToMeans ==
    ASSUME NEW v, VecRep(v), ~v.fail, NEW n \in Nat, NEW pad \in Values, StepFits(v, n)
    PROVE  LET w == VecGrowTo(v, n, pad)
           IN  /\ VecRep(w)
               /\ w.fail => 3 * n + 4 > 2 * IntMax
               /\ ~w.fail => /\ SubSeq(w.data, 1, Len(v.data)) = v.data
                             /\ \A i \in DOMAIN w.data \ DOMAIN v.data : w.data[i] = pad
                             /\ Len(w.data) = IF n > Len(v.data) THEN n ELSE Len(v.data)
<1> DEFINE m == Len(v.data)
           c == Capacity(v, n)
           w == VecGrowTo(v, n, pad)
<1>1. m \in Nat /\ v.data \in Seq(Values)
  BY VecTypes
<1>2. /\ VecRep(c) /\ c.data = v.data /\ (~c.fail => c.cap >= n)
      /\ c.fail => 3 * n + 4 > 2 * IntMax
  BY CapacityMeans
<1> HIDE DEF c
<1>3. w = IF m >= n THEN v ELSE IF c.fail THEN c ELSE [c EXCEPT !.data = Padded(v.data, n, pad)]
  BY <1>2 DEF VecGrowTo, VecSize, IfNotFailed, Padded, c
<1> HIDE DEF w
<1>4. CASE m >= n
  <2>1. w = v
    BY <1>3, <1>4
  <2>2. SubSeq(v.data, 1, m) = v.data
    BY <1>1
  <2>3. ~ (n > m)
    BY <1>1, <1>4
  <2> QED
    BY <2>1, <2>2, <2>3 DEF w
<1>5. CASE ~ (m >= n) /\ c.fail
  BY <1>2, <1>3, <1>5 DEF w
<1>6. CASE ~ (m >= n) /\ ~c.fail
  <2> DEFINE t == Padded(v.data, n, pad)
  <2>1. n > m
    BY <1>1, <1>6
  <2>2. /\ t \in Seq(Values) /\ Len(t) = n /\ SubSeq(t, 1, m) = v.data
        /\ \A i \in DOMAIN t \ DOMAIN v.data : t[i] = pad
    BY <1>1, <2>1, PaddedMeans
  <2>3. w = [c EXCEPT !.data = t]
    BY <1>3, <1>6
  <2> HIDE DEF t
  <2>4. VecRep(w) /\ w.data = t /\ ~w.fail
    BY <1>2, <1>6, <2>2, <2>3, WithData
  <2> QED
    BY <2>1, <2>2, <2>4 DEF w
<1> QED
  BY <1>4, <1>5, <1>6

\* clear() leaves no element.
LEMMA ClearMeans ==
    ASSUME NEW v, VecRep(v), ~v.fail, NEW free \in BOOLEAN
    PROVE  VecRep(VecClear(v, free)) /\ VecClear(v, free).data = <<>>
<1>1. <<>> \in Seq(Values) /\ Len(<<>>) <= v.cap
  BY VecTypes
<1>2. VecRep([v EXCEPT !.data = <<>>]) /\ [v EXCEPT !.data = <<>>].data = <<>>
  BY <1>1, WithData
<1> QED
  BY <1>2, EmptyVecRep DEF VecClear

\* copyTo() makes the same elements.
LEMMA CopyMeans ==
    ASSUME NEW v, VecRep(v), ~v.fail
    PROVE  LET w == VecCopy(v, EmptyVec)
           IN  /\ VecRep(w)
               /\ w.fail => 3 * Len(v.data) + 4 > 2 * IntMax
               /\ ~w.fail => w.data = v.data
<1> DEFINE n == Len(v.data)
           c == Capacity(EmptyVec, n)
           w == VecCopy(v, EmptyVec)
<1>1. [EmptyVec EXCEPT !.data = <<>>] = EmptyVec
  BY DEF EmptyVec
<1>2. n \in Nat /\ v.data \in Seq(Values)
  BY VecTypes
<1>0. StepFits(EmptyVec, n)
  <2>1. n <= v.cap /\ v.cap \in Nat /\ v.cap <= IntMax /\ v.cap % 2 = 0 /\ IntMax \in Nat
    BY VecTypes
  <2>2. v.cap # IntMax
    BY <2>1, IntAssumption
  <2> QED
    BY <1>2, <2>1, <2>2 DEF StepFits, EmptyVec
<1>3. VecRep(c) /\ (~c.fail => c.cap >= n) /\ (c.fail => 3 * n + 4 > 2 * IntMax)
  BY <1>0, <1>2, EmptyVecRep, CapacityMeans
<1>4. w = IF c.fail THEN c ELSE [c EXCEPT !.data = v.data]
  BY <1>1 DEF VecCopy, VecSize, IfNotFailed
<1> HIDE DEF c, w
<1>5. CASE c.fail
  BY <1>3, <1>4, <1>5 DEF w
<1>6. CASE ~c.fail
  <2>1. w = [c EXCEPT !.data = v.data] /\ n <= c.cap
    <3>1. c.cap \in Nat
      BY <1>3, VecTypes
    <3> QED
      BY <1>2, <1>3, <1>4, <1>6, <3>1
  <2>2. VecRep(w) /\ w.data = v.data /\ ~w.fail
    BY <1>2, <1>3, <1>6, <2>1, WithData
  <2> QED
    BY <2>2 DEF w
<1> QED
  BY <1>5, <1>6

Vecs == {w \in [data : Seq(Values), cap : Nat, fail : BOOLEAN] : VecRep(w)}

PushNext(w, x) == IfNotFailed(w, VecPush(w, x))

\* A push keeps a vector one, also one that has failed.
LEMMA PushNextRep ==
    ASSUME NEW w, VecRep(w), NEW x \in Values
    PROVE  VecRep(PushNext(w, x))
<1>1. w.fail \in BOOLEAN
  BY VecTypes
<1>2. CASE w.fail
  BY <1>2 DEF PushNext, IfNotFailed
<1>3. CASE ~w.fail
  BY <1>3, PushMeans DEF PushNext, IfNotFailed
<1> QED
  BY <1>1, <1>2, <1>3

\* The pushes of append().
Pushes(g, from, to, n) ==
    g[0] = to /\ \A i \in 1 .. n : i - 1 \in 0 .. n /\ g[i] = PushNext(g[i - 1], from.data[i])

\* The pushes of append() can be looked at one by one.
LEMMA PushesExist ==
    ASSUME NEW from, VecRep(from), NEW to, VecRep(to)
    PROVE  \E g : Pushes(g, from, to, Len(from.data)) /\ VecAppend(from, to) = g[Len(from.data)]
<1> DEFINE n == VecSize(from)
           pushed[i \in 0 .. VecSize(from)] ==
              IF i = 0 THEN to ELSE IfNotFailed(pushed[i - 1], VecPush(pushed[i - 1], from.data[i]))
           step == [r \in Nat |-> [w \in Vecs |->
                      IF r + 1 <= n THEN PushNext(w, from.data[r + 1]) ELSE w]]
<1>1. VecAppend(from, to) = pushed[n]
  BY DEF VecAppend
<1>2. n \in Nat /\ n = Len(from.data) /\ from.data \in Seq(Values)
  BY VecTypes DEF VecSize
<1> HIDE DEF n
<1>3. to \in Vecs
  BY DEF Vecs, VecRep
<1>4. step \in Steps(Vecs)
  <2>1. ASSUME NEW r \in Nat, NEW w \in Vecs, r + 1 <= n
        PROVE  PushNext(w, from.data[r + 1]) \in Vecs
    <3>1. from.data[r + 1] \in Values
      BY <1>2, <2>1
    <3>2. VecRep(PushNext(w, from.data[r + 1]))
      BY <3>1, PushNextRep DEF Vecs
    <3> QED
      BY <3>2 DEF Vecs, VecRep
  <2> QED
    BY <2>1 DEF Steps
<1>5. PICK g : RepeatsUpTo(g, n, Vecs, to, step)
  <2> HIDE DEF step
  <2> QED
    BY <1>2, <1>3, <1>4, IterationUpTo
<1>6. ASSUME NEW i \in 1 .. n
      PROVE  g[i] = PushNext(g[i - 1], from.data[i])
  <2>1. i - 1 \in Nat /\ (i - 1) + 1 = i /\ i <= n
    BY <1>2
  <2>2. g[i] = step[i - 1][g[i - 1]] /\ g[i - 1] \in Vecs
    BY <1>5 DEF RepeatsUpTo
  <2>3. g[i] = IF (i - 1) + 1 <= n THEN PushNext(g[i - 1], from.data[(i - 1) + 1]) ELSE g[i - 1]
    BY <2>1, <2>2
  <2> QED
    BY <2>1, <2>3
<1>7. g = [i \in 0 .. n |-> IF i = 0 THEN to ELSE PushNext(g[i - 1], from.data[i])]
  <2>1. \A i \in 0 .. n : i # 0 => i \in 1 .. n
    BY <1>2
  <2>2. g = [i \in 0 .. n |-> g[i]] /\ g[0] = to
    BY <1>5 DEF RepeatsUpTo
  <2> QED
    BY <1>6, <2>1, <2>2
<1>8. pushed = [i \in 0 .. n |-> IF i = 0 THEN to ELSE PushNext(pushed[i - 1], from.data[i])]
  <2>1. pushed = CHOOSE f : f = [i \in 0 .. n |-> IF i = 0 THEN to ELSE PushNext(f[i - 1], from.data[i])]
    BY DEF pushed, PushNext, n
  <2>2. \E f : f = [i \in 0 .. n |-> IF i = 0 THEN to ELSE PushNext(f[i - 1], from.data[i])]
    BY <1>7
  <2> HIDE DEF pushed
  <2> QED
    BY <2>1, <2>2, Zenon
<1> HIDE DEF pushed, step
<1>9. Pushes(pushed, from, to, n)
  <2>1. pushed[0] = to
    BY <1>2, <1>8
  <2>2. ASSUME NEW i \in 1 .. n
        PROVE  i - 1 \in 0 .. n /\ pushed[i] = PushNext(pushed[i - 1], from.data[i])
    <3>1. i \in 0 .. n /\ i # 0 /\ i - 1 \in 0 .. n
      BY <1>2
    <3> QED
      BY <1>8, <3>1
  <2> QED
    BY <2>1, <2>2 DEF Pushes
<1> QED
  BY <1>1, <1>2, <1>9

\* append() puts the elements behind those there are, or throws on the way.
LEMMA AppendMeans ==
    ASSUME NEW from, VecRep(from), NEW to, VecRep(to), ~to.fail
    PROVE  LET w == VecAppend(from, to)
           IN  /\ VecRep(w)
               /\ ~w.fail => w.data = to.data \o from.data
               /\ w.fail => 3 * (Len(to.data) + Len(from.data)) + 4 > 2 * IntMax
<1> DEFINE n == Len(from.data)
           m == Len(to.data)
           s == from.data
<1>1. n \in Nat /\ m \in Nat /\ s \in Seq(Values) /\ to.data \in Seq(Values) /\ IntMax \in Nat
  BY VecTypes
<1>2. PICK g : Pushes(g, from, to, n) /\ VecAppend(from, to) = g[n]
  BY PushesExist
<1> DEFINE Done(w, i) == /\ VecRep(w)
                         /\ ~w.fail => w.data = to.data \o SubSeq(s, 1, i)
                         /\ w.fail => 3 * (m + n) + 4 > 2 * IntMax
           S == {i \in Nat : i <= n => Done(g[i], i)}
<1>3. 0 \in S
  <2>1. to.data \o SubSeq(s, 1, 0) = to.data
    BY <1>1
  <2>2. g[0] = to
    BY <1>2 DEF Pushes
  <2> QED
    BY <2>1, <2>2
<1>4. ASSUME NEW i \in Nat, i + 1 <= n, Done(g[i], i)
      PROVE  Done(g[i + 1], i + 1)
  <2> DEFINE w == g[i]
             x == s[i + 1]
  <2>1. i + 1 \in 1 .. n /\ (i + 1) - 1 = i /\ x \in Values
    BY <1>1, <1>4
  <2>2. g[i + 1] = PushNext(w, x)
    BY <1>2, <2>1 DEF Pushes
  <2>3. VecRep(w) /\ w.fail \in BOOLEAN
    BY <1>4, VecTypes
  <2>4. CASE w.fail
    <3>1. g[i + 1] = w
      BY <2>2, <2>4 DEF PushNext, IfNotFailed
    <3> QED
      BY <1>4, <2>4, <3>1
  <2>5. CASE ~w.fail
    <3> DEFINE z == VecPush(w, x)
               k == Len(w.data)
    <3>1. g[i + 1] = z
      BY <2>2, <2>5 DEF PushNext, IfNotFailed
    <3>2. VecRep(z) /\ (~z.fail => z.data = Append(w.data, x)) /\ (z.fail => 3 * (k + 1) + 4 > 2 * IntMax)
      BY <2>1, <2>3, <2>5, PushMeans
    <3>3. w.data = to.data \o SubSeq(s, 1, i)
      BY <1>4, <2>5
    <3>4. k = m + i
      <4>1. SubSeq(s, 1, i) \in Seq(Values) /\ Len(SubSeq(s, 1, i)) = i
        BY <1>1, <2>1
      <4>2. Len(to.data \o SubSeq(s, 1, i)) = m + Len(SubSeq(s, 1, i))
        BY <1>1, <4>1
      <4> QED
        BY <3>3, <4>1, <4>2
    <3>5. Append(w.data, x) = to.data \o SubSeq(s, 1, i + 1)
      <4>1. SubSeq(s, 1, i + 1) = Append(SubSeq(s, 1, i), x)
        BY <1>1, <2>1
      <4>2. SubSeq(s, 1, i) \in Seq(Values)
        BY <1>1, <2>1
      <4>3. \A a, b \in Seq(Values) : Append(a \o b, x) = a \o Append(b, x)
        BY <2>1
      <4> QED
        BY <1>1, <3>3, <4>1, <4>2, <4>3
    <3> HIDE DEF z, k, m, n, s
    <3>6. z.fail => 3 * (m + n) + 4 > 2 * IntMax
      BY <1>1, <1>4, <3>2, <3>4
    <3> QED
      BY <3>1, <3>2, <3>5, <3>6
  <2> QED
    BY <2>3, <2>4, <2>5
<1>5. Nat \subseteq S
  <2>1. ASSUME NEW i \in Nat, i \in S
        PROVE  i + 1 \in S
    <3>1. i + 1 <= n => i <= n
      BY <1>1
    <3> HIDE DEF Done
    <3> QED
      BY <1>4, <2>1, <3>1
  <2> HIDE DEF S
  <2> QED
    BY <1>3, <2>1, InductionOn
<1>6. Done(g[n], n)
  <2> HIDE DEF Done
  <2>1. n \in S /\ n <= n
    BY <1>1, <1>5
  <2> QED
    BY <2>1
<1>7. SubSeq(s, 1, n) = s
  BY <1>1
<1> QED
  BY <1>2, <1>6, <1>7

\* remove() takes the first such element away.
LEMMA RemoveMeans ==
    ASSUME NEW s \in Seq(Values), NEW x \in Range(s)
    PROVE  /\ RemoveElem(s, x) \in Seq(Values) /\ Len(RemoveElem(s, x)) < Len(s)
           /\ Promise!WithoutFirst(RemoveElem(s, x), s, x)
<1> DEFINE n == Len(s)
           P == {i \in DOMAIN s : s[i] = x}
           j == Min(P)
           r == RemoveElem(s, x)
<1>1. n \in Nat /\ DOMAIN s = 1 .. n /\ P \subseteq Nat /\ P # {}
  BY DEF Range
<1>2. j \in P /\ \A i \in P : j <= i
  <2>1. \E m \in P : \A i \in P : m <= i
    BY <1>1, LeastMember
  <2> HIDE DEF P
  <2> QED
    BY <2>1 DEF Min
<1>3. j \in 1 .. n /\ s[j] = x /\ \A i \in 1 .. j - 1 : s[i] # x
  <2>1. j \in 1 .. n /\ s[j] = x
    BY <1>1, <1>2
  <2>2. ASSUME NEW i \in 1 .. j - 1, s[i] = x
        PROVE  FALSE
    <3>1. i \in P
      BY <1>1, <2>1, <2>2
    <3>2. j <= i
      BY <1>2, <3>1
    <3> HIDE DEF j
    <3> QED
      BY <1>1, <2>1, <3>2
  <2> QED
    BY <2>1, <2>2
<1>4. r = [i \in 1 .. n - 1 |-> IF i < j THEN s[i] ELSE s[i + 1]]
  BY DEF RemoveElem
<1> HIDE DEF P, j, r, n
<1>5. n - 1 \in Nat /\ \A i \in 1 .. n - 1 : i \in 1 .. n /\ i + 1 \in 1 .. n
  BY <1>1, <1>3
<1>6. \A i \in 1 .. n - 1 : r[i] \in Values
  BY <1>1, <1>4, <1>5
<1>7. r \in Seq(Values) /\ Len(r) = n - 1
  BY <1>4, <1>5, <1>6
<1> DEFINE a == SubSeq(s, 1, j - 1)
           b == SubSeq(s, j + 1, n)
<1>8. /\ a \in Seq(Values) /\ Len(a) = j - 1 /\ (\A i \in 1 .. j - 1 : a[i] = s[i])
      /\ b \in Seq(Values) /\ Len(b) = n - j /\ (\A i \in 1 .. n - j : b[i] = s[j + i])
  <2>1. a \in Seq(Values) /\ Len(a) = j - 1 /\ (\A i \in 1 .. j - 1 : a[i] = s[i])
    BY <1>1, <1>3 DEF n
  <2>2. b \in Seq(Values) /\ Len(b) = n - j
    <3>1. j + 1 \in Int /\ n \in Int /\ \A i \in j + 1 .. n : s[i] \in Values
      BY <1>1, <1>3 DEF n
    <3>2. b \in Seq(Values) /\ Len(b) = IF j + 1 <= n THEN n - (j + 1) + 1 ELSE 0
      BY <3>1, SubSeqProperties
    <3> QED
      BY <1>1, <1>3, <3>2
  <2>3. \A i \in 1 .. n - j : b[i] = s[(j + 1) + i - 1] /\ (j + 1) + i - 1 = j + i
    BY <1>1, <1>3 DEF n
  <2> HIDE DEF a, b
  <2> QED
    BY <2>1, <2>2, <2>3
<1> HIDE DEF a, b
<1>9. r = a \o b
  <2>1. /\ a \o b \in Seq(Values) /\ Len(a \o b) = Len(a) + Len(b)
        /\ \A i \in 1 .. Len(a) + Len(b) : (a \o b)[i] = IF i <= Len(a) THEN a[i] ELSE b[i - Len(a)]
    BY <1>8, ConcatProperties
  <2>2. Len(a) + Len(b) = n - 1 /\ j \in Nat /\ n \in Nat
    BY <1>1, <1>3, <1>8
  <2>3. ASSUME NEW i \in 1 .. n - 1
        PROVE  r[i] = (a \o b)[i]
    <3>1. (a \o b)[i] = IF i <= j - 1 THEN a[i] ELSE b[i - (j - 1)]
      BY <1>8, <2>1, <2>2
    <3>2. r[i] = IF i < j THEN s[i] ELSE s[i + 1]
      BY <1>4
    <3>3. CASE i < j
      <4>1. i \in 1 .. j - 1 /\ i <= j - 1
        BY <2>2, <3>3
      <4> QED
        BY <1>8, <3>1, <3>2, <3>3, <4>1
    <3>4. CASE ~ (i < j)
      <4>1. i - (j - 1) \in 1 .. n - j /\ j + (i - (j - 1)) = i + 1 /\ ~ (i <= j - 1)
        BY <2>2, <3>4
      <4> QED
        BY <1>8, <3>1, <3>2, <3>4, <4>1
    <3> QED
      BY <3>3, <3>4
  <2> QED
    BY <1>7, <2>1, <2>2, <2>3, SeqEqual
<1>10. Promise!WithoutFirst(r, s, x)
  BY <1>1, <1>3, <1>9 DEF Promise!WithoutFirst, a, b, n
<1>11. n - 1 < n
  BY <1>1
<1> QED
  BY <1>7, <1>10, <1>11 DEF r, n

-------------------------------------------------------------------------------
(* Permutations of sequences.                                                  *)

Permutes(p, q, n) ==
    /\ p \in [1 .. n -> 1 .. n] /\ q \in [1 .. n -> 1 .. n]
    /\ \A i \in 1 .. n : q[p[i]] = i /\ p[q[i]] = i

Permuted(s, t) ==
    /\ Len(s) = Len(t)
    /\ \E p, q : Permutes(p, q, Len(t)) /\ \A i \in 1 .. Len(t) : s[i] = t[p[i]]

\* A sequence is a permutation of itself,
LEMMA PermutedSelf ==
    ASSUME NEW X, NEW s \in Seq(X)
    PROVE  Permuted(s, s)
<1> DEFINE n == Len(s)
           p == [i \in 1 .. n |-> i]
<1>1. Permutes(p, p, n) /\ \A i \in 1 .. n : s[i] = s[p[i]]
  BY DEF Permutes
<1> HIDE DEF p
<1> QED
  BY <1>1 DEF Permuted

\* and one of what its permutations permute.
LEMMA PermutedThen ==
    ASSUME NEW X, NEW s \in Seq(X), NEW t \in Seq(X), NEW u \in Seq(X),
           Permuted(s, t), Permuted(t, u)
    PROVE  Permuted(s, u)
<1> DEFINE n == Len(u)
<1>1. Len(s) = n /\ Len(t) = n
  BY DEF Permuted
<1>2. PICK p, q : Permutes(p, q, n) /\ \A i \in 1 .. n : s[i] = t[p[i]]
  BY <1>1 DEF Permuted
<1>3. PICK a, b : Permutes(a, b, n) /\ \A i \in 1 .. n : t[i] = u[a[i]]
  BY DEF Permuted
<1> DEFINE c == [i \in 1 .. n |-> a[p[i]]]
           d == [i \in 1 .. n |-> q[b[i]]]
<1> HIDE DEF n
<1>4. Permutes(c, d, n)
  <2>1. \A i \in 1 .. n : p[i] \in 1 .. n /\ q[i] \in 1 .. n /\ q[p[i]] = i /\ p[q[i]] = i
    BY <1>2 DEF Permutes
  <2>2. \A i \in 1 .. n : a[i] \in 1 .. n /\ b[i] \in 1 .. n /\ b[a[i]] = i /\ a[b[i]] = i
    BY <1>3 DEF Permutes
  <2>3. c \in [1 .. n -> 1 .. n] /\ d \in [1 .. n -> 1 .. n]
    BY <2>1, <2>2
  <2>4. \A i \in 1 .. n : d[c[i]] = i /\ c[d[i]] = i
    BY <2>1, <2>2
  <2> HIDE DEF c, d
  <2> QED
    BY <2>3, <2>4 DEF Permutes
<1>5. \A i \in 1 .. n : s[i] = u[c[i]]
  BY <1>2, <1>3 DEF Permutes
<1> HIDE DEF c, d
<1> QED
  BY <1>1, <1>4, <1>5 DEF Permuted, n

\* An exchange is a permutation, which moves two elements only.
LEMMA ExchangePermutes ==
    ASSUME NEW X, NEW t \in Seq(X), NEW i \in 0 .. Len(t) - 1, NEW j \in 0 .. Len(t) - 1
    PROVE  /\ Exchange(t, i, j) \in Seq(X) /\ Permuted(Exchange(t, i, j), t)
           /\ At(Exchange(t, i, j), i) = At(t, j) /\ At(Exchange(t, i, j), j) = At(t, i)
           /\ \A k \in 0 .. Len(t) - 1 : k # i /\ k # j => At(Exchange(t, i, j), k) = At(t, k)
<1> DEFINE n == Len(t)
           s == Exchange(t, i, j)
           p == [k \in 1 .. n |-> IF k = i + 1 THEN j + 1 ELSE IF k = j + 1 THEN i + 1 ELSE k]
<1>1. n \in Nat /\ DOMAIN t = 1 .. n /\ i + 1 \in 1 .. n /\ j + 1 \in 1 .. n
  OBVIOUS
<1>2. s \in Seq(X) /\ Len(s) = n
  BY <1>1 DEF Exchange, Put, At
<1>3. \A k \in 1 .. n : s[k] = t[p[k]]
  BY <1>1 DEF Exchange, Put, At
<1>4. Permutes(p, p, n)
  BY <1>1 DEF Permutes
<1>5. \A k \in 0 .. n - 1 : k + 1 \in 1 .. n
  OBVIOUS
<1>6. /\ At(s, i) = At(t, j) /\ At(s, j) = At(t, i)
      /\ \A k \in 0 .. n - 1 : k # i /\ k # j => At(s, k) = At(t, k)
  <2> HIDE DEF s, n
  <2>1. p[i + 1] = j + 1 /\ p[j + 1] = i + 1
    BY <1>1
  <2>2. \A k \in 0 .. n - 1 : k # i /\ k # j => p[k + 1] = k + 1
    BY <1>5
  <2> HIDE DEF p
  <2> QED
    BY <1>1, <1>3, <1>5, <2>1, <2>2 DEF At
<1> HIDE DEF p, s
<1>7. Permuted(s, t)
  BY <1>2, <1>3, <1>4 DEF Permuted
<1> QED
  BY <1>2, <1>6, <1>7 DEF s

\* Parts are permuted each for itself.
LEMMA ConcatenationPermutes ==
    ASSUME NEW X, NEW s \in Seq(X), NEW t \in Seq(X), Permuted(s, t),
           NEW u \in Seq(X), NEW v \in Seq(X), Permuted(u, v)
    PROVE  Permuted(s \o u, t \o v)
<1> DEFINE m == Len(t)
           n == Len(v)
<1>1. m \in Nat /\ n \in Nat /\ Len(s) = m /\ Len(u) = n
  BY DEF Permuted
<1>2. /\ Len(s \o u) = m + n /\ Len(t \o v) = m + n
      /\ \A i \in 1 .. m + n : /\ (s \o u)[i] = IF i <= m THEN s[i] ELSE u[i - m]
                               /\ (t \o v)[i] = IF i <= m THEN t[i] ELSE v[i - m]
  BY <1>1
<1>3. PICK p, q : Permutes(p, q, m) /\ \A i \in 1 .. m : s[i] = t[p[i]]
  BY DEF Permuted
<1>4. PICK a, b : Permutes(a, b, n) /\ \A i \in 1 .. n : u[i] = v[a[i]]
  BY DEF Permuted
<1> HIDE DEF m, n
<1> DEFINE c == [i \in 1 .. m + n |-> IF i <= m THEN p[i] ELSE m + a[i - m]]
           d == [i \in 1 .. m + n |-> IF i <= m THEN q[i] ELSE m + b[i - m]]
<1>5. /\ \A i \in 1 .. m + n : i <= m => i \in 1 .. m
      /\ \A i \in 1 .. m + n : ~(i <= m) => i - m \in 1 .. n /\ m + (i - m) = i
      /\ \A i \in 1 .. m : i \in 1 .. m + n /\ i <= m
      /\ \A i \in 1 .. n : m + i \in 1 .. m + n /\ ~(m + i <= m) /\ (m + i) - m = i
  BY <1>1
<1>6. /\ \A i \in 1 .. m : p[i] \in 1 .. m /\ q[i] \in 1 .. m /\ q[p[i]] = i /\ p[q[i]] = i
      /\ \A i \in 1 .. n : a[i] \in 1 .. n /\ b[i] \in 1 .. n /\ b[a[i]] = i /\ a[b[i]] = i
  BY <1>3, <1>4 DEF Permutes
<1>7. /\ \A i \in 1 .. m : c[i] = p[i] /\ d[i] = q[i]
      /\ \A i \in 1 .. n : c[m + i] = m + a[i] /\ d[m + i] = m + b[i]
  BY <1>5
<1>8. c \in [1 .. m + n -> 1 .. m + n] /\ d \in [1 .. m + n -> 1 .. m + n]
  <2>1. ASSUME NEW i \in 1 .. m + n
        PROVE  c[i] \in 1 .. m + n /\ d[i] \in 1 .. m + n
    BY <1>5, <1>6
  <2> QED
    BY <2>1
<1> HIDE DEF c, d
<1>9. ASSUME NEW i \in 1 .. m + n
      PROVE  d[c[i]] = i /\ c[d[i]] = i /\ (s \o u)[i] = (t \o v)[c[i]]
  <2>1. CASE i <= m
    <3>1. i \in 1 .. m /\ p[i] \in 1 .. m /\ q[i] \in 1 .. m
      BY <1>5, <1>6, <2>1
    <3>2. d[c[i]] = i /\ c[d[i]] = i
      BY <1>6, <1>7, <3>1
    <3>3. c[i] = p[i] /\ p[i] <= m /\ p[i] \in 1 .. m + n
      BY <1>5, <1>7, <3>1
    <3>4. (s \o u)[i] = s[i] /\ (t \o v)[p[i]] = t[p[i]]
      BY <1>2, <2>1, <3>3
    <3> QED
      BY <1>3, <3>1, <3>2, <3>3, <3>4
  <2>2. CASE ~(i <= m)
    <3>1. PICK k \in 1 .. n : k = i - m /\ i = m + k
      BY <1>5, <2>2
    <3>2. a[k] \in 1 .. n /\ b[k] \in 1 .. n
      BY <1>6
    <3>3. d[c[i]] = i /\ c[d[i]] = i
      BY <1>6, <1>7, <3>1, <3>2
    <3>4. c[i] = m + a[k] /\ ~(m + a[k] <= m) /\ m + a[k] \in 1 .. m + n /\ (m + a[k]) - m = a[k]
      BY <1>5, <1>7, <3>1, <3>2
    <3>5. (s \o u)[i] = u[k] /\ (t \o v)[c[i]] = v[a[k]]
      BY <1>2, <2>2, <3>1, <3>4
    <3> QED
      BY <1>4, <3>3, <3>5
  <2> QED
    BY <2>1, <2>2
<1>10. Permutes(c, d, m + n)
  BY <1>8, <1>9 DEF Permutes
<1>11. Len(s \o u) = Len(t \o v) /\ Len(t \o v) = m + n
  BY <1>2
<1> DEFINE su == s \o u
           tv == t \o v
<1> HIDE DEF su, tv
<1>12. \A i \in 1 .. m + n : su[i] = tv[c[i]]
  BY <1>9 DEF su, tv
<1>13. Permuted(su, tv)
  BY <1>10, <1>11, <1>12 DEF Permuted, su, tv
<1> QED
  BY <1>13 DEF su, tv

\* A permutation has the same elements,
LEMMA PermutedRange ==
    ASSUME NEW X, NEW s \in Seq(X), NEW t \in Seq(X), Permuted(s, t)
    PROVE  Range(s) = Range(t)
<1> DEFINE n == Len(t)
<1>1. DOMAIN s = 1 .. n /\ DOMAIN t = 1 .. n
  BY DEF Permuted
<1>2. PICK p, q : Permutes(p, q, n) /\ \A i \in 1 .. n : s[i] = t[p[i]]
  BY DEF Permuted
<1> HIDE DEF n
<1>3. \A i \in 1 .. n : p[i] \in 1 .. n /\ q[i] \in 1 .. n /\ p[q[i]] = i
  BY <1>2 DEF Permutes
<1> QED
  BY <1>1, <1>2, <1>3 DEF Range

\* Containers has its own name for the size of a set.
LEMMA SameCardinality == \A S : Promise!Cardinality(S) = Cardinality(S)
BY DEF Promise!Cardinality, Cardinality

\* each as many times.
LEMMA PermutedTimes ==
    ASSUME NEW X, NEW s \in Seq(X), NEW t \in Seq(X), Permuted(s, t), NEW x
    PROVE  Promise!Times(s, x) = Promise!Times(t, x)
<1> DEFINE n == Len(t)
           S == {i \in DOMAIN s : s[i] = x}
           T == {i \in DOMAIN t : t[i] = x}
<1>1. n \in Nat /\ DOMAIN s = 1 .. n /\ DOMAIN t = 1 .. n
  BY DEF Permuted
<1>2. PICK p, q : Permutes(p, q, n) /\ \A i \in 1 .. n : s[i] = t[p[i]]
  BY DEF Permuted
<1> HIDE DEF n
<1>3. \A i \in 1 .. n : p[i] \in 1 .. n /\ q[i] \in 1 .. n /\ p[q[i]] = i /\ q[p[i]] = i
  BY <1>2 DEF Permutes
<1> DEFINE f == [i \in S |-> p[i]]
<1>4. f \in Bijection(S, T)
  <2>1. f \in [S -> T]
    BY <1>1, <1>2, <1>3
  <2>2. \A i, j \in S : f[i] = f[j] => i = j
    BY <1>1, <1>3
  <2>3. ASSUME NEW k \in T
        PROVE  \E i \in S : f[i] = k
    <3>1. q[k] \in S
      BY <1>1, <1>2, <1>3
    <3>2. f[q[k]] = k
      BY <1>1, <1>3, <3>1
    <3> QED
      BY <3>1, <3>2
  <2> HIDE DEF f, S, T
  <2> QED
    BY <2>1, <2>2, <2>3 DEF Bijection, Injection, Surjection, IsInjective
<1>5. IsFiniteSet(S) /\ IsFiniteSet(T)
  <2>1. IsFiniteSet(1 .. n)
    BY <1>1, FS_Interval
  <2>2. S \subseteq 1 .. n /\ T \subseteq 1 .. n
    BY <1>1
  <2> QED
    BY <2>1, <2>2, FS_Subset
<1>6. ExistsBijection(S, T)
  BY <1>4 DEF ExistsBijection
<1> HIDE DEF S, T
<1>7. Cardinality(S) = Cardinality(T)
  BY <1>5, <1>6, FS_Bijection
<1> QED
  BY <1>7, SameCardinality DEF S, T, Promise!Times

-------------------------------------------------------------------------------
(* Sort.h: a comparison that orders the members of R by their weights.         *)

Compares(lt, w, R) ==
    \A x \in R : w[x] \in Nat /\ \A y \in R : <<x, y>> \in lt <=> w[x] < w[y]

Ascending(s, w) == \A i, j \in DOMAIN s : i < j => w[s[i]] <= w[s[j]]

\* The first i elements are where they belong.
SortedUpTo(s, w, i) == \A p \in 1 .. i : \A q \in DOMAIN s : p < q => w[s[p]] <= w[s[q]]

\* The element a round of selectionSort() looks for is a least one.
LEMMA BestIsLeast ==
    ASSUME NEW R, NEW w, NEW lt, Compares(lt, w, R), NEW s \in Seq(R), NEW i \in 0 .. Len(s) - 1
    PROVE  /\ BestFrom(s, i, lt) \in i .. Len(s) - 1
           /\ \A k \in i .. Len(s) - 1 : w[At(s, BestFrom(s, i, lt))] <= w[At(s, k)]
<1> DEFINE n == Len(s)
           I == i .. n - 1
           W == {w[At(s, k)] : k \in I}
           P == {j \in I : \A k \in I : <<At(s, k), At(s, j)>> \notin lt}
<1>1. n \in Nat /\ i \in I /\ I \subseteq Nat /\ \A k \in I : k + 1 \in 1 .. n
  OBVIOUS
<1>2. \A k \in I : At(s, k) \in R
  BY <1>1 DEF At
<1>3. \A j, k \in I : w[At(s, k)] \in Nat /\ (<<At(s, k), At(s, j)>> \in lt <=> w[At(s, k)] < w[At(s, j)])
  BY <1>2 DEF Compares
<1>4. BestFrom(s, i, lt) = Min(P)
  BY DEF BestFrom
<1> HIDE DEF n, I
<1>5. PICK j \in I : \A k \in I : w[At(s, j)] <= w[At(s, k)]
  <2>1. W \subseteq Nat /\ W # {}
    BY <1>1, <1>3
  <2>2. PICK v \in W : \A u \in W : v <= u
    BY <2>1, LeastMember
  <2> QED
    BY <2>2
<1>6. j \in P
  <2>1. ASSUME NEW k \in I
        PROVE  <<At(s, k), At(s, j)>> \notin lt
    <3>1. w[At(s, k)] \in Nat /\ w[At(s, j)] \in Nat /\ w[At(s, j)] <= w[At(s, k)]
      BY <1>3, <1>5
    <3>2. ~ (w[At(s, k)] < w[At(s, j)])
      BY <3>1
    <3> QED
      BY <1>3, <3>2
  <2> QED
    BY <2>1
<1>7. Min(P) \in P
  <2>1. P \subseteq Nat /\ P # {}
    BY <1>1, <1>6
  <2>2. \E m \in P : \A k \in P : m <= k
    BY <2>1, LeastMember
  <2> HIDE DEF P
  <2> QED
    BY <2>2 DEF Min
<1>8. Min(P) \in I /\ \A k \in I : ~ (w[At(s, k)] < w[At(s, Min(P))])
  <2> DEFINE b == Min(P)
  <2>1. b \in I /\ \A k \in I : <<At(s, k), At(s, b)>> \notin lt
    BY <1>7
  <2> HIDE DEF b
  <2>2. \A k \in I : ~ (w[At(s, k)] < w[At(s, b)])
    BY <1>3, <2>1
  <2> QED
    BY <2>1, <2>2 DEF b
<1>9. \A k \in I : w[At(s, Min(P))] <= w[At(s, k)]
  <2> HIDE DEF P
  <2>1. \A k \in I : w[At(s, Min(P))] \in Nat /\ w[At(s, k)] \in Nat
    BY <1>3, <1>8
  <2> QED
    BY <1>8, <2>1
<1> HIDE DEF P
<1> QED
  BY <1>4, <1>8, <1>9 DEF I, n

\* What a part of the array sorted is of the array.
Rearranged(s, a, R) == s \in Seq(R) /\ Permuted(s, a)

\* A round puts it in its place.
LEMMA SelectionRoundSorts ==
    ASSUME NEW R, NEW w, NEW lt, Compares(lt, w, R), NEW a \in Seq(R),
           NEW s, Rearranged(s, a, R), NEW i \in 0 .. Len(a) - 1, SortedUpTo(s, w, i)
    PROVE  LET t == Exchange(s, i, BestFrom(s, i, lt))
           IN  Rearranged(t, a, R) /\ SortedUpTo(t, w, i + 1)
<1> DEFINE n == Len(a)
           b == BestFrom(s, i, lt)
           t == Exchange(s, i, b)
<1>1. n \in Nat /\ s \in Seq(R) /\ Len(s) = n /\ i \in 0 .. n - 1 /\ i \in Nat
  BY DEF Rearranged, Permuted
<1>2. b \in i .. n - 1 /\ \A k \in i .. n - 1 : w[At(s, b)] <= w[At(s, k)]
  BY <1>1, BestIsLeast
<1> HIDE DEF b, n
<1>3. b \in 0 .. n - 1
  BY <1>1, <1>2
<1>4. /\ t \in Seq(R) /\ Permuted(t, s) /\ At(t, i) = At(s, b) /\ At(t, b) = At(s, i)
      /\ \A k \in 0 .. n - 1 : k # i /\ k # b => At(t, k) = At(s, k)
  BY <1>1, <1>3, ExchangePermutes
<1> HIDE DEF t
<1>5. Rearranged(t, a, R)
  BY <1>1, <1>4, PermutedThen DEF Rearranged
<1>6. Len(t) = n /\ DOMAIN t = 1 .. n /\ DOMAIN s = 1 .. n
  BY <1>1, <1>4 DEF Permuted
<1>7. \A k \in 1 .. n : s[k] \in R /\ w[s[k]] \in Nat
  BY <1>1, <1>6 DEF Compares
<1> DEFINE c == i + 1
           d == b + 1
<1>8. /\ c \in 1 .. n /\ d \in c .. n /\ \A k \in c .. n : k \in 1 .. n
      /\ \A k \in c .. n : w[s[d]] <= w[s[k]]
  <2>1. \A k \in c .. n : k - 1 \in i .. n - 1 /\ (k - 1) + 1 = k
    BY <1>1
  <2>2. \A k \in c .. n : w[At(s, b)] <= w[At(s, k - 1)]
    BY <1>2, <2>1
  <2> QED
    BY <1>1, <1>2, <2>1, <2>2 DEF At
<1>9. t[c] = s[d] /\ t[d] = s[c] /\ \A k \in 1 .. n : k # c /\ k # d => t[k] = s[k]
  <2>1. t[c] = s[d] /\ t[d] = s[c]
    BY <1>4 DEF At
  <2>2. ASSUME NEW k \in 1 .. n, k # c, k # d
        PROVE  t[k] = s[k]
    <3>1. k - 1 \in 0 .. n - 1 /\ k - 1 # i /\ k - 1 # b /\ (k - 1) + 1 = k
      BY <1>1, <1>3, <2>2
    <3> QED
      BY <1>4, <3>1 DEF At
  <2> QED
    BY <2>1, <2>2
<1>10. ASSUME NEW p \in 1 .. c, NEW q \in 1 .. n, p < q
       PROVE  w[t[p]] <= w[t[q]]
  <2> DEFINE q1 == IF q = c THEN d ELSE IF q = d THEN c ELSE q
  <2>1. c \in Nat /\ d \in Nat /\ n \in Nat /\ c <= d /\ c \in 1 .. n /\ d \in 1 .. n /\ p \in 1 .. n
    BY <1>1, <1>8, <1>10
  <2> HIDE DEF c, d
  <2>2. t[q] = s[q1] /\ q1 \in 1 .. n
    BY <1>9, <2>1
  <2>3. CASE p < c
    <3>1. p < q1 /\ p # c /\ p # d
      BY <1>10, <2>1, <2>3
    <3>2. t[p] = s[p]
      BY <1>9, <2>1, <3>1
    <3>3. p \in 1 .. i
      BY <1>1, <2>3 DEF c
    <3> HIDE DEF q1
    <3> QED
      BY <1>6, <2>2, <3>1, <3>2, <3>3 DEF SortedUpTo
  <2>4. CASE p = c
    <3>1. q1 \in c .. n
      BY <1>10, <2>1, <2>4
    <3> HIDE DEF q1
    <3> QED
      BY <1>8, <1>9, <2>2, <2>4, <3>1
  <2>5. p < c \/ p = c
    BY <2>1
  <2> QED
    BY <2>3, <2>4, <2>5
<1>11. SortedUpTo(t, w, i + 1)
  BY <1>6, <1>10 DEF SortedUpTo
<1> QED
  BY <1>5, <1>11 DEF t, b

\* The rounds of selectionSort().
SelectionRounds(x, a, lt) ==
    /\ x[0] = a
    /\ \A r \in Nat : r + 1 <= Len(a) => x[r + 1] = Exchange(x[r], r, BestFrom(x[r], r, lt))

\* The rounds of selectionSort() (Sort.h:39-51) can be looked at one by one.
LEMMA SelectionRoundsExist ==
    ASSUME NEW R, NEW w, NEW lt, Compares(lt, w, R), NEW a \in Seq(R)
    PROVE  \E x : SelectionRounds(x, a, lt) /\ SelectionSort(a, lt) = x[Len(a)]
<1> DEFINE n == Len(a)
           X == {s \in Seq(R) : Len(s) = n}
           z(s, r) == Exchange(s, r, BestFrom(s, r, lt))
           sorted[i \in 0 .. Len(a)] == IF i = 0 THEN a ELSE z(sorted[i - 1], i - 1)
           step == [r \in Nat |-> [s \in X |-> IF r + 1 <= n THEN z(s, r) ELSE s]]
<1>1. n \in Nat /\ a \in X
  OBVIOUS
<1>2. SelectionSort(a, lt) = sorted[n]
  BY DEF SelectionSort
<1>3. step \in Steps(X)
  <2>1. ASSUME NEW r \in Nat, NEW s \in X, r + 1 <= n
        PROVE  z(s, r) \in X
    <3>1. s \in Seq(R) /\ Len(s) = n /\ r \in 0 .. Len(s) - 1
      BY <1>1, <2>1
    <3>2. BestFrom(s, r, lt) \in r .. Len(s) - 1
      BY <3>1, BestIsLeast
    <3>3. BestFrom(s, r, lt) \in 0 .. Len(s) - 1
      BY <3>1, <3>2
    <3>4. z(s, r) \in Seq(R) /\ Permuted(z(s, r), s)
      BY <3>1, <3>3, ExchangePermutes
    <3> QED
      BY <3>1, <3>4 DEF Permuted
  <2> HIDE DEF X, z
  <2> QED
    BY <2>1 DEF Steps
<1> HIDE DEF X, z
<1>4. PICK g : RepeatsUpTo(g, n, X, a, step)
  <2> HIDE DEF step, n
  <2> QED
    BY <1>1, <1>3, IterationUpTo
<1> HIDE DEF n
<1>5. g = [i \in 0 .. n |-> IF i = 0 THEN a ELSE z(g[i - 1], i - 1)]
  <2>1. ASSUME NEW i \in 0 .. n
        PROVE  g[i] = IF i = 0 THEN a ELSE z(g[i - 1], i - 1)
    <3>1. CASE i = 0
      BY <1>4, <3>1 DEF RepeatsUpTo
    <3>2. CASE i # 0
      <4>1. i \in 1 .. n /\ i - 1 \in Nat /\ (i - 1) + 1 <= n
        BY <1>1, <3>2
      <4>2. g[i] = step[i - 1][g[i - 1]] /\ g[i - 1] \in X
        BY <1>4, <4>1 DEF RepeatsUpTo
      <4> QED
        BY <3>2, <4>1, <4>2
    <3> QED
      BY <3>1, <3>2
  <2> QED
    BY <1>4, <2>1 DEF RepeatsUpTo
<1>6. sorted = [i \in 0 .. n |-> IF i = 0 THEN a ELSE z(sorted[i - 1], i - 1)]
  <2>1. sorted = CHOOSE f : f = [i \in 0 .. n |-> IF i = 0 THEN a ELSE z(f[i - 1], i - 1)]
    BY DEF n, sorted
  <2>2. \E f : f = [i \in 0 .. n |-> IF i = 0 THEN a ELSE z(f[i - 1], i - 1)]
    BY <1>5
  <2> HIDE DEF sorted
  <2> QED
    BY <2>1, <2>2, Zenon
<1> HIDE DEF sorted
<1>7. sorted[0] = a
  BY <1>1, <1>6
<1>8. ASSUME NEW r \in Nat, r + 1 <= n
      PROVE  sorted[r + 1] = z(sorted[r], r)
  <2>1. r + 1 \in 0 .. n /\ r + 1 # 0 /\ (r + 1) - 1 = r
    BY <1>1, <1>8
  <2> QED
    BY <1>6, <2>1
<1>9. SelectionRounds(sorted, a, lt)
  BY <1>7, <1>8 DEF SelectionRounds, z, n
<1> QED
  BY <1>2, <1>9 DEF n

\* selectionSort() sorts.
LEMMA SelectionSorts ==
    ASSUME NEW R, NEW w, NEW lt, Compares(lt, w, R), NEW a \in Seq(R)
    PROVE  Rearranged(SelectionSort(a, lt), a, R) /\ Ascending(SelectionSort(a, lt), w)
<1> DEFINE n == Len(a)
<1>1. n \in Nat
  OBVIOUS
<1>2. PICK x : SelectionRounds(x, a, lt) /\ SelectionSort(a, lt) = x[n]
  BY SelectionRoundsExist
<1> DEFINE S == {r \in Nat : r <= n => Rearranged(x[r], a, R) /\ SortedUpTo(x[r], w, r)}
<1>3. 0 \in S
  <2>1. x[0] = a /\ Rearranged(a, a, R)
    BY <1>2, PermutedSelf DEF SelectionRounds, Rearranged
  <2>2. SortedUpTo(a, w, 0)
    BY DEF SortedUpTo
  <2> QED
    BY <2>1, <2>2
<1>4. ASSUME NEW r \in Nat, r \in S
      PROVE  r + 1 \in S
  <2> SUFFICES ASSUME r + 1 <= n
               PROVE  Rearranged(x[r + 1], a, R) /\ SortedUpTo(x[r + 1], w, r + 1)
    OBVIOUS
  <2>1. r \in 0 .. Len(a) - 1 /\ Rearranged(x[r], a, R) /\ SortedUpTo(x[r], w, r)
    BY <1>1, <1>4
  <2>2. x[r + 1] = Exchange(x[r], r, BestFrom(x[r], r, lt))
    BY <1>2 DEF SelectionRounds
  <2> DEFINE y == x[r]
  <2>3. Rearranged(Exchange(y, r, BestFrom(y, r, lt)), a, R) /\ SortedUpTo(Exchange(y, r, BestFrom(y, r, lt)), w, r + 1)
    <3> HIDE DEF y
    <3>1. Rearranged(y, a, R) /\ SortedUpTo(y, w, r)
      BY <2>1 DEF y
    <3> QED
      BY <2>1, <3>1, SelectionRoundSorts
  <2> QED
    BY <2>2, <2>3
<1>5. Rearranged(x[n], a, R) /\ SortedUpTo(x[n], w, n)
  <2>1. Nat \subseteq S
    <3> HIDE DEF S
    <3> QED
      BY <1>3, <1>4, InductionOn
  <2>2. n \in S
    BY <1>1, <2>1
  <2> QED
    BY <1>1, <2>2
<1>6. DOMAIN x[n] = 1 .. n
  BY <1>1, <1>5 DEF Rearranged, Permuted
<1>7. Ascending(x[n], w)
  BY <1>5, <1>6 DEF Ascending, SortedUpTo
<1> QED
  BY <1>2, <1>5, <1>7

-------------------------------------------------------------------------------
(* Partition: the two ends of the array move towards each other.               *)

\* The first n elements are at most v, those from position n on are at least v.
Low(s, w, v, n)  == \A k \in 0 .. n - 1 : w[At(s, k)] <= w[v]
High(s, w, v, n) == \A k \in n .. Len(s) - 1 : w[v] <= w[At(s, k)]

FirstNotBelow(s, lo, v, lt) == Min({k \in lo .. Len(s) - 1 : <<At(s, k), v>> \notin lt})
LastNotAbove(s, hi, v, lt)  == Max({k \in 0 .. hi : <<v, At(s, k)>> \notin lt})

\* Going up stops at a sentinel at the latest.
LEMMA ScanUp ==
    ASSUME NEW R, NEW w, NEW lt, Compares(lt, w, R), NEW s \in Seq(R), NEW v \in R,
           NEW lo \in Nat, NEW m \in lo .. Len(s) - 1, w[v] <= w[At(s, m)]
    PROVE  LET i == FirstNotBelow(s, lo, v, lt)
           IN  /\ i \in lo .. m /\ w[v] <= w[At(s, i)]
               /\ \A k \in lo .. i - 1 : w[At(s, k)] <= w[v]
<1> DEFINE n == Len(s)
           I == lo .. n - 1
           P == {k \in I : <<At(s, k), v>> \notin lt}
           i == Min(P)
<1>1. n \in Nat /\ m \in I /\ I \subseteq Nat /\ \A k \in I : k + 1 \in 1 .. n
  OBVIOUS
<1>2. \A k \in I : At(s, k) \in R
  BY <1>1 DEF At
<1>3. /\ w[v] \in Nat
      /\ \A k \in I : w[At(s, k)] \in Nat /\ (<<At(s, k), v>> \in lt <=> w[At(s, k)] < w[v])
  BY <1>2 DEF Compares
<1>4. FirstNotBelow(s, lo, v, lt) = i
  BY DEF FirstNotBelow
<1> HIDE DEF n, I
<1>5. m \in P
  <2>1. w[At(s, m)] \in Nat /\ w[v] \in Nat /\ w[v] <= w[At(s, m)]
    BY <1>1, <1>3
  <2>2. ~ (w[At(s, m)] < w[v])
    BY <2>1
  <2> QED
    BY <1>1, <1>3, <2>2
<1>6. i \in P /\ \A k \in P : i <= k
  <2>1. P \subseteq Nat /\ P # {}
    BY <1>1, <1>5
  <2>2. \E l \in P : \A k \in P : l <= k
    BY <2>1, LeastMember
  <2> HIDE DEF P
  <2> QED
    BY <2>2 DEF Min
<1> HIDE DEF i
<1>7. i \in I /\ i <= m /\ ~ (w[At(s, i)] < w[v])
  BY <1>3, <1>5, <1>6
<1>8. w[v] <= w[At(s, i)]
  <2>1. w[At(s, i)] \in Nat /\ w[v] \in Nat
    BY <1>3, <1>7
  <2> QED
    BY <1>7, <2>1
<1>9. ASSUME NEW k \in lo .. i - 1
      PROVE  w[At(s, k)] <= w[v]
  <2>1. k \in I /\ ~ (i <= k)
    BY <1>1, <1>7 DEF I
  <2>2. k \notin P
    BY <1>6, <2>1
  <2>3. w[At(s, k)] < w[v]
    BY <1>3, <2>1, <2>2
  <2>4. w[At(s, k)] \in Nat /\ w[v] \in Nat
    BY <1>3, <2>1
  <2> QED
    BY <2>3, <2>4
<1>10. i \in lo .. m
  BY <1>7 DEF I
<1> QED
  BY <1>4, <1>8, <1>9, <1>10

\* The scan from above stops within the array, at an element not above the pivot.
LEMMA ScanDown ==
    ASSUME NEW R, NEW w, NEW lt, Compares(lt, w, R), NEW s \in Seq(R), NEW v \in R,
           NEW hi \in Nat, hi < Len(s), NEW m \in 0 .. hi, w[At(s, m)] <= w[v]
    PROVE  LET j == LastNotAbove(s, hi, v, lt)
           IN  /\ j \in m .. hi /\ w[At(s, j)] <= w[v]
               /\ \A k \in j + 1 .. hi : w[v] <= w[At(s, k)]
<1> DEFINE n == Len(s)
           I == 0 .. hi
           P == {k \in I : <<v, At(s, k)>> \notin lt}
           j == Max(P)
<1>1. n \in Nat /\ m \in I /\ I \subseteq Nat /\ \A k \in I : k + 1 \in 1 .. n
  OBVIOUS
<1>2. \A k \in I : At(s, k) \in R
  BY <1>1 DEF At
<1>3. /\ w[v] \in Nat
      /\ \A k \in I : w[At(s, k)] \in Nat /\ (<<v, At(s, k)>> \in lt <=> w[v] < w[At(s, k)])
  BY <1>2 DEF Compares
<1>4. LastNotAbove(s, hi, v, lt) = j
  BY DEF LastNotAbove
<1> HIDE DEF n
<1>5. m \in P
  <2>1. w[At(s, m)] \in Nat /\ w[v] \in Nat /\ w[At(s, m)] <= w[v]
    BY <1>1, <1>3
  <2>2. ~ (w[v] < w[At(s, m)])
    BY <2>1
  <2> QED
    BY <1>1, <1>3, <2>2
<1>6. j \in P /\ \A k \in P : k <= j
  <2>1. P \subseteq 0 .. hi /\ P # {}
    BY <1>5
  <2>2. \E l \in P : \A k \in P : k <= l
    <3> HIDE DEF P
    <3> QED
      BY <2>1, GreatestMember
  <2> HIDE DEF P
  <2> QED
    BY <2>2 DEF Max
<1> HIDE DEF j
<1>7. j \in I /\ m <= j /\ ~ (w[v] < w[At(s, j)])
  <2> HIDE DEF I
  <2> QED
    BY <1>3, <1>5, <1>6
<1>8. w[At(s, j)] <= w[v]
  <2> HIDE DEF I
  <2>1. w[At(s, j)] \in Nat /\ w[v] \in Nat
    BY <1>3, <1>7
  <2> QED
    BY <1>7, <2>1
<1>9. ASSUME NEW k \in j + 1 .. hi
      PROVE  w[v] <= w[At(s, k)]
  <2>1. k \in I /\ ~ (k <= j)
    BY <1>1, <1>7
  <2> HIDE DEF I
  <2>2. k \notin P
    BY <1>6, <2>1
  <2>3. w[v] < w[At(s, k)]
    BY <1>3, <2>1, <2>2
  <2>4. w[At(s, k)] \in Nat /\ w[v] \in Nat
    BY <1>3, <2>1
  <2> QED
    BY <2>3, <2>4
<1>10. j \in m .. hi
  BY <1>7
<1> QED
  BY <1>4, <1>8, <1>9, <1>10

\* An array a of R that is being split around v: nothing has been found yet and v is in
\* the middle, or the last two elements exchanged stop the next round.
Splits(R, n) == [a : {s \in Seq(R) : Len(s) = n}, i : Int, j : Int]

Working(x, a, w, v, R) ==
    /\ x \in Splits(R, Len(a)) /\ Rearranged(x.a, a, R) /\ x.i < x.j
    /\ Low(x.a, w, v, x.i + 1) /\ High(x.a, w, v, x.j)
    /\ \/ x.i = -1 /\ x.j = Len(a) /\ At(x.a, Len(a) \div 2) = v
       \/ x.i >= 0 /\ x.j < Len(a)

\* Split in two parts, neither of them empty.
Parted(x, a, w, v, R) ==
    /\ x \in Splits(R, Len(a)) /\ Rearranged(x.a, a, R) /\ x.i >= x.j
    /\ x.i \in 1 .. Len(a) - 1 /\ Low(x.a, w, v, x.i) /\ High(x.a, w, v, x.i)

\* A round after the last one changes nothing.
LEMMA SplitDone ==
    ASSUME NEW R, NEW a, NEW w, NEW v, NEW lt, NEW x, Parted(x, a, w, v, R)
    PROVE  Split(x, v, lt) = x
BY DEF Split, Parted

EndsAt(x, i, j) == [x EXCEPT !.i = i, !.j = j]

\* The record of a round with other ends.
LEMMA NewEnds ==
    ASSUME NEW R, NEW n, NEW x \in Splits(R, n), NEW i, NEW j
    PROVE  EndsAt(x, i, j) = [a |-> x.a, i |-> i, j |-> j]
<1> DEFINE y == [x EXCEPT !.i = i]
<1>1. y = [a |-> x.a, i |-> i, j |-> x.j]
  BY DEF Splits
<1> HIDE DEF y
<1>2. [y EXCEPT !.j = j] = [a |-> x.a, i |-> i, j |-> j]
  BY <1>1
<1> QED
  BY <1>2, Zenon DEF y, EndsAt

\* A round, in the words of its two scans.
LEMMA SplitMeans ==
    ASSUME NEW x, NEW v, NEW lt, ~ (x.i >= x.j)
    PROVE  LET i == FirstNotBelow(x.a, x.i + 1, v, lt)
               j == LastNotAbove(x.a, x.j - 1, v, lt)
           IN  Split(x, v, lt) = IF i >= j THEN EndsAt(x, i, j)
                                 ELSE [a |-> Exchange(x.a, i, j), i |-> i, j |-> j]
BY DEF Split, FirstNotBelow, LastNotAbove, EndsAt

Closer(y, x) == y.j - y.i <= (x.j - x.i) - 2

\* A round brings the ends closer, or is the last one.
LEMMA SplitKeeps ==
    ASSUME NEW R, NEW w, NEW lt, Compares(lt, w, R), NEW a \in Seq(R), Len(a) >= 2, NEW v \in R,
           NEW x, Working(x, a, w, v, R)
    PROVE  LET y == Split(x, v, lt)
           IN  Parted(y, a, w, v, R) \/ (Working(y, a, w, v, R) /\ Closer(y, x))
<1> DEFINE n == Len(a)
           s == x.a
           lo == x.i + 1
           hi == x.j - 1
           h == n \div 2
           i == FirstNotBelow(s, lo, v, lt)
           j == LastNotAbove(s, hi, v, lt)
           y == Split(x, v, lt)
<1>1. /\ n \in Nat /\ n >= 2 /\ s \in Seq(R) /\ Len(s) = n /\ x.i \in Int /\ x.j \in Int /\ x.i < x.j
      /\ x = [a |-> s, i |-> x.i, j |-> x.j] /\ Rearranged(s, a, R)
  BY DEF Working, Splits
<1>2. h \in 1 .. n - 1
  BY <1>1
<1>3. /\ Low(s, w, v, lo) /\ High(s, w, v, x.j)
      /\ (x.i = -1 /\ x.j = n /\ At(s, h) = v) \/ (x.i >= 0 /\ x.j < n)
  BY DEF Working
<1>4. y = IF i >= j THEN EndsAt(x, i, j) ELSE [a |-> Exchange(s, i, j), i |-> i, j |-> j]
  <2>1. ~ (x.i >= x.j)
    BY <1>1
  <2> QED
    BY <2>1, SplitMeans
<1>5. w[v] \in Nat /\ \A k \in 0 .. n - 1 : At(s, k) \in R /\ w[At(s, k)] \in Nat
  <2>1. \A k \in 0 .. n - 1 : At(s, k) \in R
    BY <1>1 DEF At
  <2> QED
    BY <2>1 DEF Compares
<1> HIDE DEF n, s, h, y
<1>6. \E p \in lo .. n - 1, q \in 0 .. hi :
          /\ w[v] <= w[At(s, p)] /\ w[At(s, q)] <= w[v]
          /\ (p = h /\ q = h) \/ (x.i >= 0 /\ x.j < n)
  <2>1. CASE x.i = -1 /\ x.j = n /\ At(s, h) = v
    <3>1. h \in lo .. n - 1 /\ h \in 0 .. hi
      BY <1>1, <1>2, <2>1
    <3>2. w[v] <= w[At(s, h)] /\ w[At(s, h)] <= w[v]
      BY <1>5, <2>1
    <3> QED
      BY <3>1, <3>2
  <2>2. CASE x.i >= 0 /\ x.j < n
    <3>1. x.j \in lo .. n - 1 /\ x.i \in 0 .. hi /\ x.j \in x.j .. n - 1 /\ x.i \in 0 .. lo - 1
      BY <1>1, <2>2
    <3>2. w[v] <= w[At(s, x.j)]
      BY <1>1, <1>3, <3>1 DEF High
    <3>3. w[At(s, x.i)] <= w[v]
      BY <1>3, <3>1 DEF Low
    <3> QED
      BY <2>2, <3>1, <3>2, <3>3
  <2> QED
    BY <1>3, <2>1, <2>2
<1>7. PICK p \in lo .. n - 1, q \in 0 .. hi :
          /\ w[v] <= w[At(s, p)] /\ w[At(s, q)] <= w[v]
          /\ (p = h /\ q = h) \/ (x.i >= 0 /\ x.j < n)
  BY <1>6
<1>8. lo \in Nat /\ hi \in Nat /\ hi < n /\ lo = x.i + 1 /\ hi = x.j - 1 /\ x.j <= n /\ p \in Nat /\ q \in Nat
  BY <1>1, <1>3, <1>7
<1> HIDE DEF lo, hi
<1>9. i \in lo .. p /\ w[v] <= w[At(s, i)] /\ \A k \in lo .. i - 1 : w[At(s, k)] <= w[v]
  BY <1>1, <1>7, <1>8, ScanUp
<1>10. j \in q .. hi /\ w[At(s, j)] <= w[v] /\ \A k \in j + 1 .. hi : w[v] <= w[At(s, k)]
  BY <1>1, <1>7, <1>8, ScanDown
<1> HIDE DEF i, j
<1>11. i \in 0 .. n - 1 /\ j \in 0 .. n - 1 /\ i \in Nat /\ j \in Nat
  BY <1>1, <1>7, <1>8, <1>9, <1>10
<1>12. Low(s, w, v, i)
  <2>1. ASSUME NEW k \in 0 .. i - 1
        PROVE  w[At(s, k)] <= w[v]
    <3>1. k \in 0 .. lo - 1 \/ k \in lo .. i - 1
      BY <1>8, <1>11
    <3> QED
      BY <1>3, <1>9, <3>1 DEF Low
  <2> QED
    BY <2>1 DEF Low
<1>13. High(s, w, v, j + 1)
  <2>1. ASSUME NEW k \in j + 1 .. n - 1
        PROVE  w[v] <= w[At(s, k)]
    <3>1. k \in x.j .. n - 1 \/ k \in j + 1 .. hi
      BY <1>1, <1>8, <1>11
    <3> QED
      BY <1>1, <1>3, <1>10, <3>1 DEF High
  <2> QED
    BY <1>1, <2>1 DEF High
<1>14. CASE i >= j
  <2>1. y = [a |-> s, i |-> i, j |-> j]
    <3>1. y = EndsAt(x, i, j)
      BY <1>4, <1>14
    <3>2. x \in Splits(R, n)
      BY DEF Working, n
    <3>3. EndsAt(x, i, j) = [a |-> x.a, i |-> i, j |-> j]
      BY <3>2, NewEnds
    <3> QED
      BY <3>1, <3>3 DEF s
  <2>2. y \in Splits(R, n)
    BY <1>1, <1>11, <2>1 DEF Splits
  <2>3. i \in 1 .. n - 1
    <3>1. CASE p = h /\ q = h
      <4>1. i = h
        BY <1>2, <1>9, <1>10, <1>11, <1>14, <3>1
      <4> QED
        BY <1>2, <4>1
    <3>2. CASE x.i >= 0 /\ x.j < n
      BY <1>1, <1>7, <1>8, <1>9, <3>2
    <3> QED
      BY <1>7, <3>1, <3>2
  <2>4. High(s, w, v, i)
    <3>1. ASSUME NEW k \in i .. n - 1
          PROVE  w[v] <= w[At(s, k)]
      <4>1. k = i \/ k \in j + 1 .. n - 1
        BY <1>11, <1>14, <3>1
      <4> QED
        BY <1>1, <1>9, <1>13, <4>1 DEF High
    <3> QED
      BY <1>1, <3>1 DEF High
  <2>5. Parted(y, a, w, v, R)
    BY <1>1, <1>12, <1>14, <2>1, <2>2, <2>3, <2>4 DEF Parted, n
  <2> QED
    BY <2>5 DEF y
<1>15. CASE ~ (i >= j)
  <2> DEFINE t == Exchange(s, i, j)
  <2>1. y = [a |-> t, i |-> i, j |-> j] /\ i < j
    BY <1>4, <1>11, <1>15
  <2>2. /\ t \in Seq(R) /\ Permuted(t, s) /\ At(t, i) = At(s, j) /\ At(t, j) = At(s, i)
        /\ \A k \in 0 .. n - 1 : k # i /\ k # j => At(t, k) = At(s, k)
    BY <1>1, <1>11, ExchangePermutes
  <2> HIDE DEF t
  <2>3. Len(t) = n
    BY <1>1, <2>2 DEF Permuted
  <2>4. Rearranged(t, a, R)
    BY <1>1, <2>2, PermutedThen DEF Rearranged
  <2>5. y \in Splits(R, n)
    BY <1>11, <2>1, <2>2, <2>3 DEF Splits
  <2>6. Low(t, w, v, i + 1)
    <3>1. ASSUME NEW k \in 0 .. (i + 1) - 1
          PROVE  w[At(t, k)] <= w[v]
      <4>1. CASE k = i
        BY <1>10, <2>2, <4>1
      <4>2. CASE k # i
        <5>1. k \in 0 .. i - 1 /\ k # j /\ k \in 0 .. n - 1
          BY <1>1, <1>11, <2>1, <4>2
        <5> QED
          BY <1>12, <2>2, <4>2, <5>1 DEF Low
      <4> QED
        BY <4>1, <4>2
    <3> QED
      BY <3>1 DEF Low
  <2>7. High(t, w, v, j)
    <3>1. ASSUME NEW k \in j .. n - 1
          PROVE  w[v] <= w[At(t, k)]
      <4>1. CASE k = j
        BY <1>9, <2>2, <4>1
      <4>2. CASE k # j
        <5>1. k \in j + 1 .. n - 1 /\ k # i /\ k \in 0 .. n - 1
          BY <1>1, <1>11, <2>1, <4>2
        <5> QED
          BY <1>1, <1>13, <2>2, <4>2, <5>1 DEF High
      <4> QED
        BY <4>1, <4>2
    <3> QED
      BY <2>3, <3>1 DEF High
  <2>8. i >= 0 /\ j < n
    BY <1>1, <1>11
  <2>9. Working(y, a, w, v, R)
    BY <2>1, <2>4, <2>5, <2>6, <2>7, <2>8 DEF Working, n
  <2>10. Closer(y, x)
    <3>1. j - i <= (x.j - x.i) - 2
      BY <1>1, <1>8, <1>9, <1>10, <1>11
    <3> QED
      BY <2>1, <3>1 DEF Closer
  <2> QED
    BY <2>9, <2>10 DEF y
<1> QED
  BY <1>14, <1>15 DEF y

\* The rounds of the loop that splits an array around v.
SplitRounds(x, a, v, lt) ==
    /\ x[0] = [a |-> a, i |-> -1, j |-> Len(a)]
    /\ \A r \in Nat : r + 1 <= Len(a) => x[r + 1] = Split(x[r], v, lt)

\* The first round has an element on either side that stops it: the pivot.
LEMMA SplitStarts ==
    ASSUME NEW R, NEW w, NEW lt, Compares(lt, w, R), NEW a \in Seq(R), Len(a) >= 2
    PROVE  /\ At(a, Len(a) \div 2) \in R
           /\ Working([a |-> a, i |-> -1, j |-> Len(a)], a, w, At(a, Len(a) \div 2), R)
<1> DEFINE n == Len(a)
           h == n \div 2
           v == At(a, h)
           x == [a |-> a, i |-> -1, j |-> n]
<1>1. n \in Nat /\ n >= 2 /\ h \in 1 .. n - 1
  OBVIOUS
<1>2. v \in R
  BY <1>1 DEF At
<1> HIDE DEF h
<1>3. Rearranged(a, a, R)
  BY PermutedSelf DEF Rearranged
<1>4. x \in Splits(R, n) /\ x.a = a /\ x.i = -1 /\ x.j = n
  BY <1>1 DEF Splits
<1> HIDE DEF x
<1>5. Low(a, w, v, -1 + 1) /\ High(a, w, v, n)
  BY <1>1 DEF Low, High
<1> HIDE DEF v
<1>6. Low(x.a, w, v, x.i + 1) /\ High(x.a, w, v, x.j) /\ Rearranged(x.a, a, R)
  BY <1>3, <1>4, <1>5
<1>7. x.i < x.j /\ At(x.a, n \div 2) = v
  BY <1>1, <1>4 DEF v, h
<1>8. Working(x, a, w, v, R)
  BY <1>4, <1>6, <1>7 DEF Working
<1> QED
  BY <1>2, <1>8 DEF v, x, h

\* The rounds of the loop (Sort.h:68-76) can be looked at one by one.
LEMMA SplitRoundsExist ==
    ASSUME NEW R, NEW w, NEW lt, Compares(lt, w, R), NEW a \in Seq(R), Len(a) >= 2
    PROVE  \E x : SplitRounds(x, a, At(a, Len(a) \div 2), lt) /\ Partition(a, lt) = x[Len(a)]
<1> DEFINE n == Len(a)
           v == At(a, n \div 2)
           x0 == [a |-> a, i |-> -1, j |-> n]
           X == {x \in Splits(R, n) : Working(x, a, w, v, R) \/ Parted(x, a, w, v, R)}
           after[k \in 0 .. n] == IF k = 0 THEN x0 ELSE Split(after[k - 1], v, lt)
           step == [r \in Nat |-> [x \in X |-> Split(x, v, lt)]]
<1>1. n \in Nat /\ n >= 2
  OBVIOUS
<1>2. v \in R /\ Working(x0, a, w, v, R) /\ x0 \in X
  BY SplitStarts DEF Working
<1>3. Partition(a, lt) = after[n]
  BY DEF Partition
<1> HIDE DEF v, x0
<1>4. step \in Steps(X)
  <2>1. ASSUME NEW x \in X
        PROVE  Split(x, v, lt) \in X
    <3>1. CASE Parted(x, a, w, v, R)
      BY <2>1, <3>1, SplitDone
    <3>2. CASE Working(x, a, w, v, R)
      <4> DEFINE y == Split(x, v, lt)
      <4>1. Parted(y, a, w, v, R) \/ (Working(y, a, w, v, R) /\ Closer(y, x))
        BY <1>2, <3>2, SplitKeeps
      <4> QED
        BY <4>1 DEF Parted, Working
    <3> QED
      BY <2>1, <3>1, <3>2
  <2> HIDE DEF X
  <2> QED
    BY <2>1 DEF Steps
<1> HIDE DEF X
<1>5. PICK g : RepeatsUpTo(g, n, X, x0, step)
  <2> HIDE DEF step, n
  <2> QED
    BY <1>1, <1>2, <1>4, IterationUpTo
<1> HIDE DEF n
<1>6. g = [k \in 0 .. n |-> IF k = 0 THEN x0 ELSE Split(g[k - 1], v, lt)]
  <2>1. ASSUME NEW k \in 0 .. n
        PROVE  g[k] = IF k = 0 THEN x0 ELSE Split(g[k - 1], v, lt)
    <3>1. CASE k = 0
      BY <1>5, <3>1 DEF RepeatsUpTo
    <3>2. CASE k # 0
      <4>1. k \in 1 .. n /\ k - 1 \in Nat
        BY <1>1, <3>2
      <4>2. g[k] = step[k - 1][g[k - 1]] /\ g[k - 1] \in X
        BY <1>5, <4>1 DEF RepeatsUpTo
      <4> QED
        BY <3>2, <4>1, <4>2
    <3> QED
      BY <3>1, <3>2
  <2> QED
    BY <1>5, <2>1 DEF RepeatsUpTo
<1>7. after = [k \in 0 .. n |-> IF k = 0 THEN x0 ELSE Split(after[k - 1], v, lt)]
  <2>1. after = CHOOSE f : f = [k \in 0 .. n |-> IF k = 0 THEN x0 ELSE Split(f[k - 1], v, lt)]
    BY DEF after
  <2>2. \E f : f = [k \in 0 .. n |-> IF k = 0 THEN x0 ELSE Split(f[k - 1], v, lt)]
    BY <1>6
  <2> HIDE DEF after
  <2> QED
    BY <2>1, <2>2, Zenon
<1> HIDE DEF after
<1>8. after[0] = x0
  BY <1>1, <1>7
<1>9. ASSUME NEW r \in Nat, r + 1 <= n
      PROVE  after[r + 1] = Split(after[r], v, lt)
  <2>1. r + 1 \in 0 .. n /\ r + 1 # 0 /\ (r + 1) - 1 = r
    BY <1>1, <1>9
  <2> QED
    BY <1>7, <2>1
<1>10. SplitRounds(after, a, v, lt)
  BY <1>8, <1>9 DEF SplitRounds, x0, n
<1> QED
  BY <1>3, <1>10 DEF v, n

\* The array has been split when the rounds are over.
LEMMA Partitions ==
    ASSUME NEW R, NEW w, NEW lt, Compares(lt, w, R), NEW a \in Seq(R), Len(a) >= 2
    PROVE  \E v \in R : Parted(Partition(a, lt), a, w, v, R)
<1> DEFINE n == Len(a)
           v == At(a, n \div 2)
           x0 == [a |-> a, i |-> -1, j |-> n]
<1>1. n \in Nat /\ n >= 2
  OBVIOUS
<1>2. v \in R /\ Working(x0, a, w, v, R)
  BY SplitStarts
<1>3. x0.i = -1 /\ x0.j = n
  OBVIOUS
<1>4. PICK x : SplitRounds(x, a, v, lt) /\ Partition(a, lt) = x[n]
  BY SplitRoundsExist
<1>5. x[0] = x0 /\ \A r \in Nat : r + 1 <= n => x[r + 1] = Split(x[r], v, lt)
  BY <1>4 DEF SplitRounds
<1> HIDE DEF v, x0, n
<1> DEFINE Near(y, r) == y.j - y.i <= (n + 1) - 2 * r
           S == {r \in Nat : r <= n => \/ Parted(x[r], a, w, v, R)
                                       \/ Working(x[r], a, w, v, R) /\ Near(x[r], r)}
<1>6. 0 \in S
  <2>1. x0.j - x0.i <= (n + 1) - 2 * 0
    BY <1>1, <1>3
  <2> QED
    BY <1>2, <1>5, <2>1
<1>7. ASSUME NEW r \in Nat, r \in S
      PROVE  r + 1 \in S
  <2> DEFINE y == x[r]
             z == x[r + 1]
  <2> SUFFICES ASSUME r + 1 <= n
               PROVE  Parted(z, a, w, v, R) \/ (Working(z, a, w, v, R) /\ Near(z, r + 1))
    OBVIOUS
  <2>1. r <= n
    BY <1>1
  <2>2. Parted(y, a, w, v, R) \/ (Working(y, a, w, v, R) /\ Near(y, r))
    BY <1>7, <2>1
  <2>3. z = Split(y, v, lt)
    BY <1>5
  <2> HIDE DEF y, z
  <2>4. CASE Parted(y, a, w, v, R)
    BY <2>3, <2>4, SplitDone
  <2>5. CASE Working(y, a, w, v, R) /\ Near(y, r)
    <3>1. Parted(z, a, w, v, R) \/ (Working(z, a, w, v, R) /\ Closer(z, y))
      BY <1>1, <1>2, <2>3, <2>5, SplitKeeps DEF n
    <3>2. ASSUME Working(z, a, w, v, R), Closer(z, y)
          PROVE  Near(z, r + 1)
      <4>1. y.i \in Int /\ y.j \in Int /\ z.i \in Int /\ z.j \in Int
        BY <2>5, <3>2 DEF Working, Splits
      <4>2. y.j - y.i <= (n + 1) - 2 * r /\ z.j - z.i <= (y.j - y.i) - 2
        BY <2>5, <3>2 DEF Closer
      <4> QED
        BY <1>1, <4>1, <4>2
    <3> QED
      BY <3>1, <3>2
  <2> QED
    BY <2>2, <2>4, <2>5
<1>8. Parted(x[n], a, w, v, R)
  <2>1. Nat \subseteq S
    <3> HIDE DEF S
    <3> QED
      BY <1>6, <1>7, InductionOn
  <2>2. Parted(x[n], a, w, v, R) \/ (Working(x[n], a, w, v, R) /\ Near(x[n], n))
    <3>1. n \in S
      BY <1>1, <2>1
    <3> QED
      BY <1>1, <3>1
  <2>3. ASSUME Working(x[n], a, w, v, R), Near(x[n], n)
        PROVE  FALSE
    <3>1. x[n].i \in Int /\ x[n].j \in Int /\ x[n].i < x[n].j
      BY <2>3 DEF Working, Splits
    <3> QED
      BY <1>1, <2>3, <3>1
  <2> QED
    BY <2>2, <2>3
<1> QED
  BY <1>2, <1>4, <1>8

\* What the two recursive calls are given.
LowerPart(a, lt) == SubSeq(Partition(a, lt).a, 1, Partition(a, lt).i)
UpperPart(a, lt) == SubSeq(Partition(a, lt).a, Partition(a, lt).i + 1, Len(a))

\* The two parts are shorter than the array, a permutation of it together, and on
\* either side of the pivot.
LEMMA PartsMean ==
    ASSUME NEW R, NEW w, NEW lt, Compares(lt, w, R), NEW a \in Seq(R), Len(a) >= 2
    PROVE  LET p == LowerPart(a, lt)
               q == UpperPart(a, lt)
           IN  /\ p \in Seq(R) /\ Len(p) < Len(a) /\ q \in Seq(R) /\ Len(q) < Len(a)
               /\ Permuted(p \o q, a)
               /\ \E v \in R : /\ \A i \in DOMAIN p : w[p[i]] <= w[v]
                               /\ \A i \in DOMAIN q : w[v] <= w[q[i]]
<1> DEFINE n == Len(a)
           x == Partition(a, lt)
           s == x.a
           m == x.i
           p == LowerPart(a, lt)
           q == UpperPart(a, lt)
<1>1. PICK v \in R : Parted(x, a, w, v, R)
  BY Partitions
<1>2. /\ n \in Nat /\ m \in 1 .. n - 1 /\ s \in Seq(R) /\ Len(s) = n /\ Permuted(s, a)
      /\ Low(s, w, v, m) /\ High(s, w, v, m)
  BY <1>1 DEF Parted, Splits, Rearranged
<1>3. p = SubSeq(s, 1, m) /\ q = SubSeq(s, m + 1, n)
  BY DEF LowerPart, UpperPart
<1> HIDE DEF p, q, n, x, s, m
<1>4. /\ p \in Seq(R) /\ Len(p) = m /\ \A i \in 1 .. m : p[i] = s[i]
      /\ q \in Seq(R) /\ Len(q) = n - m /\ \A i \in 1 .. n - m : q[i] = s[m + i]
  <2>1. /\ m \in Int /\ m + 1 \in Int /\ n \in Int /\ \A i \in 1 .. n : s[i] \in R
        /\ \A i \in 1 .. m : i \in 1 .. n
        /\ \A i \in m + 1 .. n : i \in 1 .. n
    BY <1>2
  <2>2. p \in Seq(R) /\ Len(p) = m /\ \A i \in 1 .. m : p[i] = s[i]
    BY <1>2, <1>3, <2>1
  <2>3. q \in Seq(R) /\ Len(q) = n - m
    <3>1. q \in Seq(R) /\ Len(q) = IF m + 1 <= n THEN n - (m + 1) + 1 ELSE 0
      BY <1>2, <1>3, <2>1, SubSeqProperties
    <3> QED
      BY <1>2, <3>1
  <2>4. \A i \in 1 .. n - m : q[i] = s[(m + 1) + i - 1] /\ (m + 1) + i - 1 = m + i
    BY <1>2, <1>3
  <2> QED
    BY <2>2, <2>3, <2>4
<1>5. p \o q = s
  <2>1. /\ p \o q \in Seq(R) /\ Len(p \o q) = Len(p) + Len(q)
        /\ \A i \in 1 .. Len(p) + Len(q) : (p \o q)[i] = IF i <= Len(p) THEN p[i] ELSE q[i - Len(p)]
    BY <1>4, ConcatProperties
  <2>2. Len(p) + Len(q) = n /\ Len(p) = m
    BY <1>2, <1>4
  <2>3. ASSUME NEW i \in 1 .. n
        PROVE  (p \o q)[i] = s[i]
    <3>1. (p \o q)[i] = IF i <= m THEN p[i] ELSE q[i - m]
      BY <2>1, <2>2
    <3>2. CASE i <= m
      <4>1. i \in 1 .. m
        BY <1>2, <3>2
      <4> QED
        BY <1>4, <3>1, <3>2, <4>1
    <3>3. CASE ~ (i <= m)
      <4>1. i - m \in 1 .. n - m /\ m + (i - m) = i
        BY <1>2, <3>3
      <4> QED
        BY <1>4, <3>1, <3>3, <4>1
    <3> QED
      BY <3>2, <3>3
  <2> QED
    BY <1>2, <2>1, <2>2, <2>3, SeqEqual
<1>6. \A i \in DOMAIN p : w[p[i]] <= w[v]
  <2>1. DOMAIN p = 1 .. m
    BY <1>4
  <2>2. \A i \in 1 .. m : i - 1 \in 0 .. m - 1 /\ (i - 1) + 1 = i
    BY <1>2
  <2>3. \A i \in 1 .. m : w[At(s, i - 1)] <= w[v]
    BY <1>2, <2>2 DEF Low
  <2> QED
    BY <1>4, <2>1, <2>2, <2>3 DEF At
<1>7. \A i \in DOMAIN q : w[v] <= w[q[i]]
  <2>1. DOMAIN q = 1 .. n - m
    BY <1>2, <1>4
  <2>2. \A i \in 1 .. n - m : m + i - 1 \in m .. n - 1 /\ (m + i - 1) + 1 = m + i
    BY <1>2
  <2>3. \A i \in 1 .. n - m : w[v] <= w[At(s, m + i - 1)]
    BY <1>2, <2>2 DEF High
  <2>4. \A i \in 1 .. n - m : At(s, m + i - 1) = q[i]
    BY <1>4, <2>2 DEF At
  <2> QED
    BY <2>1, <2>3, <2>4
<1>8. Len(p) < n /\ Len(q) < n
  BY <1>2, <1>4
<1> QED
  BY <1>2, <1>4, <1>5, <1>6, <1>7, <1>8 DEF p, q, n

\* Two sorted parts on either side of a pivot are sorted together.
LEMMA AscendingParts ==
    ASSUME NEW R, NEW w, NEW v \in R, \A x \in R : w[x] \in Nat,
           NEW s \in Seq(R), Ascending(s, w), \A i \in DOMAIN s : w[s[i]] <= w[v],
           NEW t \in Seq(R), Ascending(t, w), \A i \in DOMAIN t : w[v] <= w[t[i]]
    PROVE  Ascending(s \o t, w)
<1> DEFINE m == Len(s)
           n == Len(t)
           u == s \o t
<1>1. /\ m \in Nat /\ n \in Nat /\ DOMAIN s = 1 .. m /\ DOMAIN t = 1 .. n /\ DOMAIN u = 1 .. m + n
      /\ \A i \in 1 .. m : u[i] = s[i]
      /\ \A i \in 1 .. n : u[m + i] = t[i]
      /\ \A i \in 1 .. m : s[i] \in R
      /\ \A i \in 1 .. n : t[i] \in R
  OBVIOUS
<1> HIDE DEF m, n, u
<1>2. ASSUME NEW i \in 1 .. m + n, NEW j \in 1 .. m + n, i < j
      PROVE  w[u[i]] <= w[u[j]]
  <2>1. CASE j <= m
    <3>1. i \in 1 .. m /\ j \in 1 .. m
      BY <1>1, <1>2, <2>1
    <3> QED
      BY <1>1, <1>2, <3>1 DEF Ascending
  <2>2. CASE i > m
    <3>1. PICK k \in 1 .. n, l \in 1 .. n : i = m + k /\ j = m + l /\ k < l
      <4>1. i - m \in 1 .. n /\ j - m \in 1 .. n /\ i = m + (i - m) /\ j = m + (j - m) /\ i - m < j - m
        BY <1>1, <1>2, <2>2
      <4> QED
        BY <4>1
    <3> QED
      BY <1>1, <3>1 DEF Ascending
  <2>3. CASE i <= m /\ j > m
    <3>1. i \in 1 .. m
      BY <1>1, <2>3
    <3>2. PICK l \in 1 .. n : j = m + l
      <4>1. j - m \in 1 .. n /\ j = m + (j - m)
        BY <1>1, <2>3
      <4> QED
        BY <4>1
    <3>3. w[s[i]] <= w[v] /\ w[v] <= w[t[l]] /\ w[s[i]] \in Nat /\ w[v] \in Nat /\ w[t[l]] \in Nat
      BY <1>1, <3>1
    <3>4. w[s[i]] <= w[t[l]]
      BY <3>3
    <3> QED
      BY <1>1, <3>1, <3>2, <3>4
  <2> QED
    BY <1>1, <2>1, <2>2, <2>3
<1> QED
  BY <1>1, <1>2 DEF Ascending, u

\* sort() of an array: by selection when it is short, of its two parts when it is long.
Sorts(f, R, lt) ==
    \A a \in Seq(R) :
        f[a] = IF Len(a) <= SortThreshold THEN SelectionSort(a, lt)
               ELSE f[LowerPart(a, lt)] \o f[UpperPart(a, lt)]

\* The recursive function exists.
LEMMA SortExists ==
    ASSUME NEW array, NEW w, NEW lt, Compares(lt, w, Range(array))
    PROVE  \E f : Sorts(f, Range(array), lt) /\ Sort(array, lt) = f[array]
<1> DEFINE R == Range(array)
           D == Seq(R)
           Big == {a \in D : ~ (Len(a) <= SortThreshold)}
           l == [a \in D |-> IF a \in Big THEN LowerPart(a, lt) ELSE a]
           r == [a \in D |-> IF a \in Big THEN UpperPart(a, lt) ELSE a]
           size == [a \in D |-> Len(a)]
           comb == [p \in D \X D |-> p[1] \o p[2]]
           base == [a \in D |-> SelectionSort(a, lt)]
           body(f, a) == IF Len(a) <= SortThreshold THEN SelectionSort(a, lt)
                         ELSE f[LowerPart(a, lt)] \o f[UpperPart(a, lt)]
           sort[a \in D] == IF Len(a) <= SortThreshold THEN SelectionSort(a, lt)
                            ELSE sort[LowerPart(a, lt)] \o sort[UpperPart(a, lt)]
<1>1. Sort(array, lt) = sort[array]
  BY DEF Sort, LowerPart, UpperPart
<1>2. \A a \in D : Len(a) \in Nat /\ SelectionSort(a, lt) \in D
  BY SelectionSorts DEF Rearranged
<1> HIDE DEF R
<1>3. ASSUME NEW a \in Big
      PROVE  /\ a \in D /\ LowerPart(a, lt) \in D /\ Len(LowerPart(a, lt)) < Len(a)
             /\ UpperPart(a, lt) \in D /\ Len(UpperPart(a, lt)) < Len(a)
  <2>1. a \in Seq(R) /\ Len(a) >= 2
    BY SizesAssumption
  <2> QED
    BY <2>1, PartsMean DEF R
<1> HIDE DEF D, Big
<1>4. l \in [D -> D] /\ r \in [D -> D] /\ size \in [D -> Nat]
  BY <1>2, <1>3
<1>5. \A a \in D : a \in Big => size[l[a]] < size[a] /\ size[r[a]] < size[a]
  <2>1. ASSUME NEW a \in D, a \in Big
        PROVE  size[l[a]] < size[a] /\ size[r[a]] < size[a]
    <3>1. l[a] = LowerPart(a, lt) /\ r[a] = UpperPart(a, lt) /\ l[a] \in D /\ r[a] \in D
      BY <1>3, <2>1
    <3>2. size[l[a]] = Len(l[a]) /\ size[r[a]] = Len(r[a]) /\ size[a] = Len(a)
      BY <2>1, <3>1
    <3> QED
      BY <1>3, <2>1, <3>1, <3>2
  <2> QED
    BY <2>1
<1>6. comb \in [D \X D -> D]
  <2>1. \A s, t \in D : s \o t \in D
    BY DEF D
  <2> QED
    BY <2>1
<1>7. base \in [D -> D]
  BY <1>2
<1>8. PICK f \in [D -> D] : SplitRecursive(f, D, Big, l, r, comb, base)
  <2> HIDE DEF l, r, size, comb, base
  <2>1. SmallerParts(D, Big, l, r, size)
    BY <1>4, <1>5 DEF SmallerParts
  <2> QED
    BY <1>6, <1>7, <2>1, SplitRecursion
<1>9. ASSUME NEW a \in D
      PROVE  f[a] = body(f, a)
  <2>1. f[a] = IF a \in Big THEN comb[<<f[l[a]], f[r[a]]>>] ELSE base[a]
    <3> HIDE DEF l, r, comb, base
    <3>1. f = [b \in D |-> IF b \in Big THEN comb[<<f[l[b]], f[r[b]]>>] ELSE base[b]]
      BY <1>8 DEF SplitRecursive, OneLevel
    <3> QED
      BY <3>1
  <2>2. CASE a \in Big
    <3>1. l[a] = LowerPart(a, lt) /\ r[a] = UpperPart(a, lt) /\ l[a] \in D /\ r[a] \in D
      BY <1>3, <2>2
    <3>2. f[l[a]] \in D /\ f[r[a]] \in D
      BY <1>8, <3>1
    <3>3. comb[<<f[l[a]], f[r[a]]>>] = f[l[a]] \o f[r[a]]
      <4> HIDE DEF l, r
      <4>1. \A s, t \in D : comb[<<s, t>>] = s \o t
        OBVIOUS
      <4> HIDE DEF comb
      <4> QED
        BY <3>2, <4>1
    <3>4. ~ (Len(a) <= SortThreshold)
      BY <2>2 DEF Big
    <3> QED
      BY <2>1, <2>2, <3>1, <3>3, <3>4
  <2>3. CASE a \notin Big
    <3>1. Len(a) <= SortThreshold
      BY <2>3 DEF Big
    <3> QED
      BY <2>1, <2>3, <3>1
  <2> QED
    BY <2>2, <2>3
<1>10. f = [a \in D |-> body(f, a)]
  <2> HIDE DEF body
  <2> QED
    BY <1>8, <1>9
<1>11. sort = [a \in D |-> body(sort, a)]
  <2>1. sort = CHOOSE g : g = [a \in D |-> body(g, a)]
    BY DEF sort
  <2>2. \E g : g = [a \in D |-> body(g, a)]
    BY <1>10
  <2> HIDE DEF sort, body
  <2> QED
    BY <2>1, <2>2, Zenon
<1>12. Sorts(sort, R, lt)
  <2> HIDE DEF sort
  <2>1. \A a \in D : sort[a] = body(sort, a)
    <3> HIDE DEF body
    <3> QED
      BY <1>11
  <2> QED
    BY <2>1 DEF Sorts, D
<1> HIDE DEF sort
<1> QED
  BY <1>1, <1>12 DEF R

SortedFrom(s, a, w, R) == Rearranged(s, a, R) /\ Ascending(s, w)

\* The parts are sorted, so the array is.
LEMMA PartsSorted ==
    ASSUME NEW R, NEW w, NEW lt, Compares(lt, w, R), NEW a \in Seq(R), Len(a) >= 2,
           NEW s, SortedFrom(s, LowerPart(a, lt), w, R), NEW t, SortedFrom(t, UpperPart(a, lt), w, R)
    PROVE  SortedFrom(s \o t, a, w, R)
<1> DEFINE p == LowerPart(a, lt)
           q == UpperPart(a, lt)
<1>1. p \in Seq(R) /\ q \in Seq(R) /\ Permuted(p \o q, a)
  BY PartsMean
<1>2. PICK v \in R : (\A i \in DOMAIN p : w[p[i]] <= w[v]) /\ (\A i \in DOMAIN q : w[v] <= w[q[i]])
  BY PartsMean
<1>3. s \in Seq(R) /\ Permuted(s, p) /\ Ascending(s, w) /\ t \in Seq(R) /\ Permuted(t, q) /\ Ascending(t, w)
  BY DEF SortedFrom, Rearranged
<1> HIDE DEF p, q
<1>4. Range(s) = Range(p) /\ Range(t) = Range(q)
  BY <1>1, <1>3, PermutedRange
<1>5. \A i \in DOMAIN s : w[s[i]] <= w[v]
  <2>1. \A i \in DOMAIN s : \E j \in DOMAIN p : s[i] = p[j]
    BY <1>4 DEF Range
  <2> QED
    BY <1>2, <2>1
<1>6. \A i \in DOMAIN t : w[v] <= w[t[i]]
  <2>1. \A i \in DOMAIN t : \E j \in DOMAIN q : t[i] = q[j]
    BY <1>4 DEF Range
  <2> QED
    BY <1>2, <2>1
<1>7. \A x \in R : w[x] \in Nat
  BY DEF Compares
<1>8. Ascending(s \o t, w)
  BY <1>3, <1>5, <1>6, <1>7, AscendingParts
<1>9. Permuted(s \o t, p \o q)
  BY <1>1, <1>3, ConcatenationPermutes
<1>10. s \o t \in Seq(R) /\ p \o q \in Seq(R)
  BY <1>1, <1>3
<1>11. Permuted(s \o t, a)
  BY <1>1, <1>9, <1>10, PermutedThen
<1> QED
  BY <1>8, <1>10, <1>11 DEF SortedFrom, Rearranged

\* sort() only rearranges, and the result ascends.
LEMMA SortMeans ==
    ASSUME NEW R, NEW w, NEW lt, Compares(lt, w, R), NEW f, Sorts(f, R, lt), NEW array \in Seq(R)
    PROVE  SortedFrom(f[array], array, w, R)
<1> DEFINE S == {k \in Nat : \A a \in Seq(R) : Len(a) <= k => SortedFrom(f[a], a, w, R)}
<1>1. ASSUME NEW a \in Seq(R), Len(a) <= SortThreshold
      PROVE  SortedFrom(f[a], a, w, R)
  <2>1. f[a] = SelectionSort(a, lt)
    BY <1>1 DEF Sorts
  <2> QED
    BY <2>1, SelectionSorts DEF SortedFrom
<1>2. 0 \in S
  <2>1. \A a \in Seq(R) : Len(a) <= 0 => Len(a) <= SortThreshold
    BY SizesAssumption
  <2> QED
    BY <1>1, <2>1
<1>3. ASSUME NEW k \in Nat, k \in S
      PROVE  k + 1 \in S
  <2> SUFFICES ASSUME NEW a \in Seq(R), Len(a) <= k + 1
               PROVE  SortedFrom(f[a], a, w, R)
    OBVIOUS
  <2>1. CASE ~ (Len(a) <= SortThreshold)
    <3> DEFINE p == LowerPart(a, lt)
               q == UpperPart(a, lt)
    <3>1. Len(a) >= 2 /\ Len(a) \in Nat
      BY <2>1, SizesAssumption
    <3>2. p \in Seq(R) /\ Len(p) < Len(a) /\ q \in Seq(R) /\ Len(q) < Len(a)
      BY <3>1, PartsMean
    <3>3. f[a] = f[p] \o f[q]
      BY <2>1 DEF Sorts
    <3> HIDE DEF p, q
    <3>4. Len(p) <= k /\ Len(q) <= k
      BY <3>1, <3>2
    <3>5. SortedFrom(f[p], p, w, R) /\ SortedFrom(f[q], q, w, R)
      BY <1>3, <3>2, <3>4
    <3> QED
      BY <3>1, <3>3, <3>5, PartsSorted DEF p, q
  <2> QED
    BY <1>1, <2>1
<1>4. Len(array) \in S
  <2>1. Nat \subseteq S
    <3> HIDE DEF S
    <3> QED
      BY <1>2, <1>3, InductionOn
  <2> QED
    BY <2>1
<1> QED
  BY <1>4

\* What the client is promised of a vector that is sorted by the halves of its numbers.
LEMMA SortIsPromised ==
    ASSUME NEW s \in Seq(Values)
    PROVE  /\ Sort(s, LowerHalf) \in Seq(Values) /\ Len(Sort(s, LowerHalf)) = Len(s)
           /\ Promise!SortOf(Sort(s, LowerHalf), s)
<1> DEFINE R == Range(s)
           w == [x \in Nat |-> x \div 2]
           lt == LowerHalf
           t == Sort(s, lt)
<1>1. R \subseteq Values /\ s \in Seq(R)
  <2>1. Len(s) \in Nat /\ DOMAIN s = 1 .. Len(s) /\ \A i \in 1 .. Len(s) : s[i] \in Values
    OBVIOUS
  <2>2. \A i \in 1 .. Len(s) : s[i] \in R
    BY <2>1 DEF Range
  <2>3. s = [i \in 1 .. Len(s) |-> s[i]]
    OBVIOUS
  <2> HIDE DEF R
  <2>4. s \in Seq(R)
    BY <2>1, <2>2, <2>3
  <2> QED
    BY <2>1, <2>4 DEF R, Range
<1>2. Compares(lt, w, R)
  <2>1. \A x \in R : x \in Nat /\ x \in Values
    BY <1>1, SizesAssumption
  <2>2. \A x \in Nat : w[x] = x \div 2 /\ w[x] \in Nat
    <3>1. \A x \in Nat : x \div 2 \in Nat
      OBVIOUS
    <3> QED
      BY <3>1
  <2> HIDE DEF w, R
  <2>3. ASSUME NEW x \in R, NEW y \in R
        PROVE  <<x, y>> \in lt <=> w[x] < w[y]
    <3>1. <<x, y>> \in lt <=> x \div 2 < y \div 2
      BY <2>1 DEF LowerHalf
    <3> QED
      BY <2>1, <2>2, <3>1
  <2> QED
    BY <2>1, <2>2, <2>3 DEF Compares
<1>3. PICK f : Sorts(f, R, lt) /\ t = f[s]
  BY <1>2, SortExists
<1> HIDE DEF R, w, t, lt
<1>4. SortedFrom(t, s, w, R)
  BY <1>1, <1>2, <1>3, SortMeans
<1>5. t \in Seq(R) /\ Permuted(t, s) /\ Ascending(t, w)
  BY <1>4 DEF SortedFrom, Rearranged
<1>6. t \in Seq(Values) /\ Len(t) = Len(s)
  BY <1>1, <1>5 DEF Permuted
<1>7. \A i \in DOMAIN s : Promise!Times(t, s[i]) = Promise!Times(s, s[i])
  BY <1>1, <1>5, PermutedTimes
<1>8. \A i, j \in DOMAIN t : i < j => t[i] \div 2 <= t[j] \div 2
  <2>1. \A i \in DOMAIN t : t[i] \in Nat
    <3>1. \A i \in DOMAIN t : t[i] \in Values
      BY <1>6
    <3> QED
      BY <3>1, SizesAssumption
  <2>2. \A i \in DOMAIN t : w[t[i]] = t[i] \div 2
    BY <2>1 DEF w
  <2> QED
    BY <1>5, <2>2 DEF Ascending
<1>9. Promise!SortOf(t, s)
  BY <1>6, <1>7, <1>8 DEF Promise!SortOf
<1> QED
  BY <1>6, <1>9 DEF t, lt

-------------------------------------------------------------------------------
(* Maps: the pairs of a table.                                                 *)

AllPairs == Keys \X Data
BucketOf(n, k) == (k % n) + 1

\* The pairs of bucket b of n: their keys belong there and differ.
RowOf(row, b, n) ==
    /\ row \in Seq(AllPairs)
    /\ \A i \in DOMAIN row : /\ BucketOf(n, row[i][1]) = b
                             /\ \A j \in DOMAIN row : row[i][1] = row[j][1] => i = j

Hashed(t) == t \in Seq(Seq(AllPairs)) /\ \A b \in 1 .. Len(t) : RowOf(t[b], b, Len(t))

PairSet(t) == Range(FlattenSeq(t))
Count(t)   == Len(FlattenSeq(t))

\* A table has the pairs of its buckets.
LEMMA PairSetMeans ==
    ASSUME NEW t, Hashed(t)
    PROVE  /\ FlattenSeq(t) \in Seq(AllPairs) /\ Count(t) \in Nat /\ PairSet(t) \subseteq AllPairs
           /\ \A p : p \in PairSet(t) <=> \E b \in 1 .. Len(t) : p \in Range(t[b])
<1>1. t \in Seq(Seq(AllPairs)) /\ DOMAIN t = 1 .. Len(t)
  BY DEF Hashed
<1>2. FlattenSeq(t) \in Seq(AllPairs)
      /\ \A p : p \in Range(FlattenSeq(t)) <=> \E b \in DOMAIN t : p \in Range(t[b])
  BY <1>1, FlattenMembers
<1> DEFINE f == FlattenSeq(t)
<1> HIDE DEF f
<1>3. Range(f) \subseteq AllPairs /\ Len(f) \in Nat
  <2>1. f \in Seq(AllPairs)
    BY <1>2 DEF f
  <2> QED
    BY <2>1 DEF Range
<1> QED
  BY <1>1, <1>2, <1>3 DEF PairSet, Count, f

\* A key is looked for in one bucket.
LEMMA KeyInBucket ==
    ASSUME NEW t, Hashed(t), Len(t) # 0, NEW k \in Keys
    PROVE  /\ BucketOf(Len(t), k) \in 1 .. Len(t)
           /\ \A d : <<k, d>> \in PairSet(t) <=> <<k, d>> \in Range(t[BucketOf(Len(t), k)])
<1> DEFINE n == Len(t)
           b == BucketOf(n, k)
<1>1. n \in Nat \ {0} /\ k \in Nat
  BY SizesAssumption DEF Hashed
<1>2. b \in 1 .. n
  <2>1. k % n \in 0 .. n - 1
    <3> HIDE DEF n
    <3> QED
      BY <1>1
  <2> HIDE DEF n
  <2> QED
    BY <1>1, <2>1 DEF BucketOf
<1>3. ASSUME NEW c \in 1 .. n, NEW d, <<k, d>> \in Range(t[c])
      PROVE  c = b
  <2>1. RowOf(t[c], c, n)
    BY <1>3 DEF Hashed
  <2>2. PICK i \in DOMAIN t[c] : t[c][i] = <<k, d>>
    BY <1>3 DEF Range
  <2>3. BucketOf(n, t[c][i][1]) = c
    BY <2>1 DEF RowOf
  <2>4. t[c][i][1] = k
    BY <2>2
  <2> QED
    BY <2>3, <2>4
<1> HIDE DEF b
<1>4. \A p : p \in PairSet(t) <=> \E c \in 1 .. n : p \in Range(t[c])
  BY PairSetMeans
<1> HIDE DEF n
<1>5. \A d : <<k, d>> \in PairSet(t) <=> <<k, d>> \in Range(t[b])
  BY <1>2, <1>3, <1>4
<1> QED
  BY <1>2, <1>5 DEF b, n

\* No key has two data.
LEMMA OneData ==
    ASSUME NEW t, Hashed(t), NEW k, NEW d, NEW e, <<k, d>> \in PairSet(t), <<k, e>> \in PairSet(t)
    PROVE  d = e
<1> DEFINE n == Len(t)
           b == BucketOf(n, k)
<1>1. k \in Keys
  <2>1. <<k, d>> \in AllPairs
    BY PairSetMeans
  <2> QED
    BY <2>1 DEF AllPairs
<1>2. n # 0
  <2>1. n \in Nat /\ \E c \in 1 .. n : <<k, d>> \in Range(t[c])
    BY PairSetMeans DEF Hashed
  <2> HIDE DEF n
  <2> QED
    BY <2>1
<1>3. b \in 1 .. n /\ <<k, d>> \in Range(t[b]) /\ <<k, e>> \in Range(t[b])
  BY <1>1, <1>2, KeyInBucket
<1>4. RowOf(t[b], b, n)
  BY <1>3 DEF Hashed
<1>5. PICK i, j \in DOMAIN t[b] : t[b][i] = <<k, d>> /\ t[b][j] = <<k, e>>
  <2> HIDE DEF b
  <2> QED
    BY <1>3 DEF Range
<1>6. t[b][i][1] = k /\ t[b][j][1] = k
  BY <1>5
<1>7. i = j
  BY <1>4, <1>6 DEF RowOf
<1> HIDE DEF b, n
<1>8. <<k, d>> = <<k, e>>
  BY <1>5, <1>7
<1> QED
  BY <1>8

\* A row is replaced by another one for the same bucket.
LEMMA RowChange ==
    ASSUME NEW t, Hashed(t), NEW b \in 1 .. Len(t), NEW row, RowOf(row, b, Len(t))
    PROVE  LET u == [t EXCEPT ![b] = row]
           IN  /\ Hashed(u) /\ Len(u) = Len(t)
               /\ \A p : p \in PairSet(u) <=> p \in Range(row) \/ (p \in PairSet(t) /\ p \notin Range(t[b]))
               /\ Count(u) + Len(t[b]) = Count(t) + Len(row)
<1> DEFINE n == Len(t)
           u == [t EXCEPT ![b] = row]
<1>1. n \in Nat /\ t \in Seq(Seq(AllPairs)) /\ \A c \in 1 .. n : RowOf(t[c], c, n)
  BY DEF Hashed
<1>2. row \in Seq(AllPairs)
  BY DEF RowOf
<1>3. u \in Seq(Seq(AllPairs)) /\ Len(u) = n /\ u[b] = row /\ \A c \in 1 .. n : c # b => u[c] = t[c]
  BY <1>1, <1>2
<1> HIDE DEF u
<1>4. \A c \in 1 .. n : RowOf(u[c], c, n)
  BY <1>1, <1>3
<1>5. Hashed(u)
  BY <1>3, <1>4 DEF Hashed
<1>6. /\ \A p : p \in PairSet(t) <=> \E c \in 1 .. n : p \in Range(t[c])
      /\ \A p : p \in PairSet(u) <=> \E c \in 1 .. n : p \in Range(u[c])
  BY <1>3, <1>5, PairSetMeans
<1>7. ASSUME NEW p, NEW c \in 1 .. n, p \in Range(t[c]), p \in Range(t[b])
      PROVE  c = b
  <2>1. PICK i \in DOMAIN t[c], j \in DOMAIN t[b] : t[c][i] = p /\ t[b][j] = p
    BY <1>7 DEF Range
  <2>2. BucketOf(n, t[c][i][1]) = c /\ BucketOf(n, t[b][j][1]) = b
    BY <1>1 DEF RowOf
  <2> QED
    BY <2>1, <2>2
<1>8. Count(u) + Len(t[b]) = Count(t) + Len(row)
  <2>1. \A c \in 1 .. n : c # b => t[c] = u[c]
    BY <1>3
  <2>2. Len(FlattenSeq(t)) + Len(u[b]) = Len(FlattenSeq(u)) + Len(t[b])
    BY <1>1, <1>3, <2>1, FlatLength
  <2>3. Len(FlattenSeq(t)) \in Nat /\ Len(FlattenSeq(u)) \in Nat
    BY <1>5, PairSetMeans DEF Count
  <2> QED
    BY <1>3, <2>2, <2>3 DEF Count
<1>9. \A p : p \in PairSet(u) <=> p \in Range(row) \/ (p \in PairSet(t) /\ p \notin Range(t[b]))
  <2> HIDE DEF n
  <2>1. b \in 1 .. n
    BY DEF n
  <2> QED
    BY <1>3, <1>6, <1>7, <2>1
<1> QED
  BY <1>3, <1>5, <1>8, <1>9 DEF u

\* A table that counts no pairs has none.
LEMMA NoPairs ==
    ASSUME NEW t, Hashed(t)
    PROVE  Count(t) = 0 <=> PairSet(t) = {}
<1> DEFINE f == FlattenSeq(t)
<1>1. f \in Seq(AllPairs)
  BY PairSetMeans
<1> HIDE DEF f
<1>2. Len(f) \in Nat /\ DOMAIN f = 1 .. Len(f)
  BY <1>1
<1>3. Len(f) # 0 => f[1] \in Range(f)
  BY <1>2 DEF Range
<1>4. Len(f) = 0 => Range(f) = {}
  BY <1>2 DEF Range
<1> QED
  BY <1>3, <1>4 DEF Count, PairSet, f

\* A new table has none.
LEMMA EmptyTable ==
    ASSUME NEW n \in Nat
    PROVE  LET t == [b \in 1 .. n |-> <<>>]
           IN  Hashed(t) /\ Len(t) = n /\ PairSet(t) = {} /\ Count(t) = 0
<1> DEFINE t == [b \in 1 .. n |-> <<>>]
<1>1. t \in Seq(Seq(AllPairs)) /\ Len(t) = n /\ \A b \in 1 .. n : t[b] = <<>>
  <2>1. <<>> \in Seq(AllPairs)
    OBVIOUS
  <2> QED
    BY <2>1
<1> HIDE DEF t
<1>2. Hashed(t)
  <2>1. <<>> \in Seq(AllPairs) /\ DOMAIN <<>> = {}
    OBVIOUS
  <2>2. \A b \in 1 .. n : RowOf(t[b], b, n)
    BY <1>1, <2>1 DEF RowOf
  <2> QED
    BY <1>1, <2>2 DEF Hashed
<1>3. PairSet(t) = {}
  <2>1. \A b \in 1 .. n : Range(t[b]) = {}
    BY <1>1 DEF Range
  <2> QED
    BY <1>1, <1>2, <2>1, PairSetMeans
<1>4. Count(t) = 0
  BY <1>2, <1>3, NoPairs
<1> QED
  BY <1>1, <1>2, <1>3, <1>4 DEF t

NoKey(t, k) == \A e : <<k, e>> \notin PairSet(t)

AddedTo(t, k, d) ==
    [t EXCEPT ![BucketOf(Len(t), k)] = Append(t[BucketOf(Len(t), k)], <<k, d>>)]

\* A pair whose key the table has not is added to its bucket.
LEMMA AddedMeans ==
    ASSUME NEW t, Hashed(t), Len(t) # 0, NEW k \in Keys, NEW d \in Data, NoKey(t, k)
    PROVE  LET u == AddedTo(t, k, d)
           IN  /\ Hashed(u) /\ Len(u) = Len(t) /\ Count(u) = Count(t) + 1
               /\ PairSet(u) = PairSet(t) \cup {<<k, d>>}
<1> DEFINE n == Len(t)
           b == BucketOf(n, k)
           old == t[b]
           p == <<k, d>>
           row == Append(old, p)
           u == AddedTo(t, k, d)
           l == Len(old)
<1>1. b \in 1 .. n
  BY KeyInBucket
<1>2. RowOf(old, b, n)
  BY <1>1 DEF Hashed
<1>3. p \in AllPairs /\ p[1] = k
  BY DEF AllPairs
<1>4. u = [t EXCEPT ![b] = row]
  BY DEF AddedTo
<1>5. \A q \in Range(old) : q \in PairSet(t)
  <2>1. \A q : q \in PairSet(t) <=> \E c \in 1 .. n : q \in Range(t[c])
    BY PairSetMeans
  <2> HIDE DEF n
  <2> QED
    BY <1>1, <2>1
<1> HIDE DEF n, old, p, row, u
<1>6. old \in Seq(AllPairs) /\ l \in Nat /\ DOMAIN old = 1 .. l
  BY <1>2 DEF RowOf
<1>7. /\ row \in Seq(AllPairs) /\ Len(row) = l + 1 /\ DOMAIN row = 1 .. l + 1 /\ row[l + 1] = p
      /\ \A i \in 1 .. l : row[i] = old[i]
  BY <1>3, <1>6 DEF row
<1>8. ASSUME NEW i \in 1 .. l
      PROVE  old[i][1] # k
  <2>1. old[i] \in AllPairs /\ old[i] \in Range(old)
    BY <1>6 DEF Range
  <2>2. old[i] = <<old[i][1], old[i][2]>>
    BY <2>1 DEF AllPairs
  <2>3. old[i] \in PairSet(t)
    BY <1>5, <2>1
  <2> QED
    BY <2>2, <2>3 DEF NoKey
<1>9. RowOf(row, b, n)
  <2>1. BucketOf(n, k) = b
    OBVIOUS
  <2> HIDE DEF b, l
  <2>2. ASSUME NEW i \in 1 .. l + 1
        PROVE  BucketOf(n, row[i][1]) = b
    <3>1. CASE i = l + 1
      BY <1>3, <1>7, <2>1, <3>1
    <3>2. CASE i # l + 1
      <4>1. i \in 1 .. l
        BY <1>6, <3>2
      <4> QED
        BY <1>2, <1>6, <1>7, <4>1 DEF RowOf
    <3> QED
      BY <3>1, <3>2
  <2>3. ASSUME NEW i \in 1 .. l + 1, NEW j \in 1 .. l + 1, row[i][1] = row[j][1]
        PROVE  i = j
    <3>1. \A x \in 1 .. l + 1 : x = l + 1 \/ x \in 1 .. l
      BY <1>6
    <3>2. CASE i = l + 1 /\ j # l + 1
      <4>1. row[i][1] = k /\ row[j][1] = old[j][1] /\ j \in 1 .. l
        BY <1>3, <1>7, <3>1, <3>2
      <4> QED
        BY <1>8, <2>3, <4>1
    <3>3. CASE i # l + 1 /\ j = l + 1
      <4>1. row[j][1] = k /\ row[i][1] = old[i][1] /\ i \in 1 .. l
        BY <1>3, <1>7, <3>1, <3>3
      <4> QED
        BY <1>8, <2>3, <4>1
    <3>4. CASE i # l + 1 /\ j # l + 1
      <4>1. row[i] = old[i] /\ row[j] = old[j] /\ i \in 1 .. l /\ j \in 1 .. l
        BY <1>7, <3>1, <3>4
      <4> QED
        BY <1>2, <1>6, <2>3, <4>1 DEF RowOf
    <3> QED
      BY <3>2, <3>3, <3>4
  <2> QED
    BY <1>7, <2>2, <2>3 DEF RowOf
<1> HIDE DEF b, l
<1>10. \A q : q \in Range(row) <=> q \in Range(old) \/ q = p
  <2>1. \A q : q \in Range(row) <=> \E i \in 1 .. l + 1 : row[i] = q
    BY <1>7 DEF Range
  <2>2. \A q : q \in Range(old) <=> \E i \in 1 .. l : old[i] = q
    BY <1>6 DEF Range
  <2>3. \A i : i \in 1 .. l + 1 <=> i \in 1 .. l \/ i = l + 1
    BY <1>6
  <2> QED
    BY <1>7, <2>1, <2>2, <2>3
<1>11. /\ Hashed(u) /\ Len(u) = Len(t)
       /\ \A q : q \in PairSet(u) <=> q \in Range(row) \/ (q \in PairSet(t) /\ q \notin Range(old))
       /\ Count(u) + Len(old) = Count(t) + Len(row)
  BY <1>1, <1>4, <1>9, RowChange DEF n, old
<1>12. PairSet(u) = PairSet(t) \cup {p}
  BY <1>5, <1>10, <1>11
<1>13. Count(u) = Count(t) + 1
  <2>1. Count(u) \in Nat /\ Count(t) \in Nat
    BY <1>11, PairSetMeans
  <2>2. Count(u) + l = Count(t) + (l + 1)
    BY <1>7, <1>11 DEF l
  <2> QED
    BY <1>6, <2>1, <2>2
<1> QED
  BY <1>11, <1>12, <1>13 DEF u, p

\* The bucket that a removal leaves: the last pair fills the gap.
ClosedUp(row, j) == Front([row EXCEPT ![j] = Last(row)])

\* The last pair of a bucket takes the place of the pair removed (Map.h:154-163).
LEMMA ClosedUpMeans ==
    ASSUME NEW b, NEW n, NEW row, RowOf(row, b, n), NEW j \in DOMAIN row
    PROVE  /\ RowOf(ClosedUp(row, j), b, n) /\ Len(ClosedUp(row, j)) = Len(row) - 1
           /\ \A p : p \in Range(ClosedUp(row, j)) <=> p \in Range(row) /\ p # row[j]
<1> DEFINE l == Len(row)
           r == ClosedUp(row, j)
           q == [row EXCEPT ![j] = Last(row)]
           from(i) == IF i = j THEN l ELSE i
<1>1. row \in Seq(AllPairs) /\ l \in Nat /\ DOMAIN row = 1 .. l /\ j \in 1 .. l
  BY DEF RowOf
<1>2. Last(row) = row[l]
  BY DEF Last
<1>3. q \in Seq(AllPairs) /\ Len(q) = l /\ \A i \in 1 .. l : q[i] = row[from(i)]
  BY <1>1, <1>2
<1>4. r = Front(q)
  BY DEF ClosedUp
<1> HIDE DEF q, r
<1>5. r \in Seq(AllPairs) /\ Len(r) = l - 1 /\ \A i \in 1 .. l - 1 : r[i] = q[i]
  <2>1. q # <<>>
    BY <1>1, <1>3
  <2> HIDE DEF l
  <2>2. r = SubSeq(q, 1, l - 1)
    BY <1>3, <1>4 DEF Front
  <2>3. l - 1 \in Nat /\ \A i \in 1 .. l - 1 : i \in 1 .. l
    BY <1>1
  <2> QED
    BY <1>1, <1>3, <2>2, <2>3
<1> HIDE DEF l
<1>6. DOMAIN r = 1 .. l - 1 /\ l - 1 \in Nat
  BY <1>1, <1>5
<1>7. \A i \in 1 .. l - 1 : from(i) \in 1 .. l /\ from(i) # j /\ r[i] = row[from(i)]
  <2>1. \A i \in 1 .. l - 1 : i \in 1 .. l /\ i # l
    BY <1>1
  <2>2. \A i \in 1 .. l - 1 : from(i) \in 1 .. l /\ from(i) # j
    BY <1>1, <2>1
  <2>3. \A i \in 1 .. l - 1 : r[i] = row[from(i)]
    <3> HIDE DEF from
    <3> QED
      BY <1>3, <1>5, <2>1
  <2> QED
    BY <2>2, <2>3
<1>8. \A i \in 1 .. l : i # j => \E m \in 1 .. l - 1 : from(m) = i
  <2>1. ASSUME NEW i \in 1 .. l, i # j
        PROVE  \E m \in 1 .. l - 1 : from(m) = i
    <3>1. CASE i = l
      <4>1. j \in 1 .. l - 1 /\ from(j) = i
        BY <1>1, <2>1, <3>1
      <4> QED
        BY <4>1
    <3>2. CASE i # l
      <4>1. i \in 1 .. l - 1 /\ from(i) = i
        BY <1>1, <2>1, <3>2
      <4> QED
        BY <4>1
    <3> QED
      BY <3>1, <3>2
  <2> QED
    BY <2>1
<1>9. \A i, m \in 1 .. l - 1 : from(i) = from(m) => i = m
  BY <1>1
<1> HIDE DEF from
<1>10. \A i, m \in 1 .. l : row[i][1] = row[m][1] => i = m
  BY <1>1 DEF RowOf
<1>11. RowOf(r, b, n)
  <2>1. \A i \in 1 .. l - 1 : BucketOf(n, r[i][1]) = b
    BY <1>1, <1>7 DEF RowOf
  <2>2. \A i, m \in 1 .. l - 1 : r[i][1] = r[m][1] => i = m
    BY <1>7, <1>9, <1>10
  <2> QED
    BY <1>5, <1>6, <2>1, <2>2 DEF RowOf
<1>12. \A i \in 1 .. l : row[i] = row[j] => i = j
  BY <1>1, <1>10
<1>13. \A p : p \in Range(r) <=> p \in Range(row) /\ p # row[j]
  <2>1. /\ \A p : p \in Range(r) <=> \E i \in 1 .. l - 1 : r[i] = p
        /\ \A p : p \in Range(row) <=> \E i \in 1 .. l : row[i] = p
    BY <1>1, <1>6 DEF Range
  <2>2. ASSUME NEW i \in 1 .. l - 1
        PROVE  r[i] \in Range(row) /\ r[i] # row[j]
    BY <1>7, <1>12, <2>1
  <2>3. ASSUME NEW i \in 1 .. l, row[i] # row[j]
        PROVE  \E m \in 1 .. l - 1 : r[m] = row[i]
    <3>1. i # j
      BY <2>3
    <3> QED
      BY <1>7, <1>8, <3>1
  <2> QED
    BY <2>1, <2>2, <2>3
<1> QED
  BY <1>5, <1>11, <1>13 DEF l, r

-------------------------------------------------------------------------------
(* The pairs of all buckets have different keys, whatever the buckets.         *)

DistinctKeys(s) == \A i, j \in DOMAIN s : s[i][1] = s[j][1] => i = j

\* Rows of different keys, with no key in common, are a row of different keys.
LEMMA DistinctParts ==
    ASSUME NEW s \in Seq(AllPairs), DistinctKeys(s), NEW t \in Seq(AllPairs), DistinctKeys(t),
           \A i \in DOMAIN s : \A j \in DOMAIN t : s[i][1] # t[j][1]
    PROVE  DistinctKeys(s \o t)
<1> DEFINE m == Len(s)
           n == Len(t)
           u == s \o t
<1>1. /\ m \in Nat /\ n \in Nat /\ DOMAIN s = 1 .. m /\ DOMAIN t = 1 .. n /\ DOMAIN u = 1 .. m + n
      /\ \A i \in 1 .. m : u[i] = s[i]
      /\ \A i \in 1 .. n : u[m + i] = t[i]
  OBVIOUS
<1> HIDE DEF m, n, u
<1>2. \A i \in 1 .. m + n : i \in 1 .. m \/ \E k \in 1 .. n : i = m + k
  <2>1. ASSUME NEW i \in 1 .. m + n, i \notin 1 .. m
        PROVE  i - m \in 1 .. n /\ i = m + (i - m)
    BY <1>1, <2>1
  <2> QED
    BY <2>1
<1>3. ASSUME NEW i \in 1 .. m + n, NEW j \in 1 .. m + n, u[i][1] = u[j][1]
      PROVE  i = j
  <2>1. CASE i \in 1 .. m /\ j \in 1 .. m
    BY <1>1, <1>3, <2>1 DEF DistinctKeys
  <2>2. CASE i \in 1 .. m /\ \E k \in 1 .. n : j = m + k
    <3>1. PICK k \in 1 .. n : j = m + k
      BY <2>2
    <3>2. s[i][1] = t[k][1]
      BY <1>1, <1>3, <2>2, <3>1
    <3>3. i \in DOMAIN s /\ k \in DOMAIN t
      BY <1>1, <2>2
    <3> QED
      BY <3>2, <3>3
  <2>3. CASE (\E k \in 1 .. n : i = m + k) /\ j \in 1 .. m
    <3>1. PICK k \in 1 .. n : i = m + k
      BY <2>3
    <3>2. s[j][1] = t[k][1]
      BY <1>1, <1>3, <2>3, <3>1
    <3>3. j \in DOMAIN s /\ k \in DOMAIN t
      BY <1>1, <2>3
    <3> QED
      BY <3>2, <3>3
  <2>4. CASE (\E k \in 1 .. n : i = m + k) /\ (\E k \in 1 .. n : j = m + k)
    <3>1. PICK k, o \in 1 .. n : i = m + k /\ j = m + o
      BY <2>4
    <3>2. t[k][1] = t[o][1]
      BY <1>1, <1>3, <3>1
    <3> QED
      BY <1>1, <3>1, <3>2 DEF DistinctKeys
  <2> QED
    BY <1>2, <2>1, <2>2, <2>3, <2>4
<1> QED
  BY <1>1, <1>3 DEF DistinctKeys, u

\* No key is twice in a table.
LEMMA AllKeysDiffer ==
    ASSUME NEW t, Hashed(t)
    PROVE  DistinctKeys(FlattenSeq(t))
<1> DEFINE n == Len(t)
           Q(k) == {s \in Seq(AllPairs) : DistinctKeys(s) /\ \A i \in DOMAIN s : BucketOf(n, s[i][1]) <= k}
           P == [k \in 1 .. n |-> Q(k)]
<1>1. t \in Seq(Seq(AllPairs)) /\ n \in Nat /\ \A b \in 1 .. n : RowOf(t[b], b, n)
  BY DEF Hashed
<1>2. CASE t = <<>>
  <2>1. FlattenSeq(t) = <<>>
    BY <1>2 DEF FlattenSeq
  <2> QED
    BY <2>1 DEF DistinctKeys
<1>3. CASE t # <<>>
  <2>1. n \in Nat \ {0}
    BY <1>1, <1>3
  <2>2. PICK F : Flattens(F, t)
    BY <1>1, <1>3, FlatteningExists
  <2>3. F[n] = FlattenSeq(t)
    BY <2>2 DEF Flattens
  <2> HIDE DEF n
  <2>4. t[1] \in P[1]
    <3>1. 1 \in 1 .. n
      BY <2>1
    <3>2. RowOf(t[1], 1, n)
      BY <1>1, <3>1
    <3>3. t[1] \in Seq(AllPairs) /\ DistinctKeys(t[1])
      BY <3>2 DEF RowOf, DistinctKeys
    <3>4. \A i \in DOMAIN t[1] : BucketOf(n, t[1][i][1]) <= 1
      BY <3>2 DEF RowOf
    <3>5. t[1] \in Q(1)
      BY <3>3, <3>4
    <3> HIDE DEF Q
    <3> QED
      BY <3>1, <3>5
  <2>5. ASSUME NEW k \in 1 .. n - 1, F[k] \in P[k]
        PROVE  F[k] \o t[k + 1] \in P[k + 1]
    <3> DEFINE s == F[k]
               r == t[k + 1]
               u == s \o r
    <3>1. k \in 1 .. n /\ k + 1 \in 1 .. n /\ k \in Nat
      BY <2>1
    <3>2. s \in Q(k)
      <4> HIDE DEF Q
      <4> QED
        BY <2>5, <3>1
    <3>3. RowOf(r, k + 1, n)
      BY <1>1, <3>1
    <3>4. /\ s \in Seq(AllPairs) /\ DistinctKeys(s) /\ \A i \in DOMAIN s : BucketOf(n, s[i][1]) <= k
      BY <3>2
    <3>5. /\ r \in Seq(AllPairs) /\ DistinctKeys(r) /\ \A i \in DOMAIN r : BucketOf(n, r[i][1]) = k + 1
      BY <3>3 DEF RowOf, DistinctKeys
    <3> HIDE DEF s, r
    <3>6. ~ (k + 1 <= k)
      BY <3>1
    <3>7. \A i \in DOMAIN s : \A j \in DOMAIN r : s[i][1] # r[j][1]
      BY <3>4, <3>5, <3>6
    <3>8. DistinctKeys(u) /\ u \in Seq(AllPairs)
      BY <3>4, <3>5, <3>7, DistinctParts
    <3>9. \A i \in DOMAIN u : BucketOf(n, u[i][1]) <= k + 1
      <4>1. Range(u) = Range(s) \cup Range(r)
        BY <3>4, <3>5, RangeOfConcatenation
      <4>2. \A p \in Range(s) : BucketOf(n, p[1]) <= k
        BY <3>4 DEF Range
      <4>3. \A p \in Range(r) : BucketOf(n, p[1]) = k + 1
        BY <3>5 DEF Range
      <4>4. \A i \in DOMAIN u : u[i] \in Range(u)
        BY DEF Range
      <4>5. \A i \in DOMAIN s : BucketOf(n, s[i][1]) <= k + 1
        <5>1. ASSUME NEW i \in DOMAIN s PROVE BucketOf(n, s[i][1]) <= k + 1
          <6>1. BucketOf(n, s[i][1]) \in Int
            <7>1. s[i] \in AllPairs
              BY <3>4
            <7>2. s[i][1] \in Nat
              BY <7>1, SizesAssumption DEF AllPairs
            <7> QED
              BY <2>1, <7>2 DEF BucketOf
          <6>2. BucketOf(n, s[i][1]) <= k
            BY <3>4
          <6> QED
            BY <3>1, <6>1, <6>2
        <5> QED
          BY <5>1
      <4>6. \A p \in Range(s) : BucketOf(n, p[1]) <= k + 1
        BY <4>5 DEF Range
      <4>7. k + 1 <= k + 1
        BY <3>1
      <4> HIDE DEF u
      <4> QED
        BY <4>1, <4>3, <4>4, <4>6, <4>7
    <3>10. u \in Q(k + 1)
      BY <3>8, <3>9
    <3> HIDE DEF Q, u
    <3> QED
      BY <3>1, <3>10 DEF u, s, r
  <2>6. F[n] \in P[n]
    <3> HIDE DEF P
    <3>1. \A k \in 1 .. n : F[k] \in P[k]
      BY <1>1, <1>3, <2>2, <2>4, <2>5, FlatteningKeeps DEF n
    <3> QED
      BY <2>1, <3>1
  <2>7. F[n] \in Q(n)
    <3> HIDE DEF Q
    <3> QED
      BY <2>1, <2>6
  <2> QED
    BY <2>3, <2>7
<1> QED
  BY <1>2, <1>3

-------------------------------------------------------------------------------
(* Maps.                                                                       *)

\* What MapOK says of a map, with its types.
MapRep(m) ==
    /\ m \in [table : Seq(Seq(AllPairs)), size : Nat]
    /\ Hashed(m.table) /\ m.size = Count(m.table)

MapTable(n) == {t \in Seq(Seq(AllPairs)) : Len(t) = n}

\* A map begins empty.
LEMMA EmptyMapRep == MapRep(EmptyMap) /\ PairSet(EmptyMap.table) = {}
<1>1. EmptyMap.table = <<>> /\ EmptyMap.size = 0 /\ EmptyMap \in [table : Seq(Seq(AllPairs)), size : Nat]
  BY DEF EmptyMap
<1>2. FlattenSeq(<<>>) = <<>>
  BY DEF FlattenSeq
<1>3. Hashed(<<>>) /\ Count(<<>>) = 0
  BY <1>2 DEF Hashed, Count
<1>4. PairSet(<<>>) = {}
  BY <1>3, NoPairs
<1> QED
  BY <1>1, <1>3, <1>4 DEF MapRep

\* peek() and [] find the data of a key.
LEMMA LookMeans ==
    ASSUME NEW m, MapRep(m), NEW k \in Keys
    PROVE  /\ MapPeek(m, k) = {d \in Data : <<k, d>> \in PairSet(m.table)}
           /\ \A d : <<k, d>> \in PairSet(m.table) => MapIndex(m, k) = d
<1> DEFINE t == m.table
           n == Len(t)
           b == BucketOf(n, k)
           row == t[b]
           at == {j \in DOMAIN row : row[j][1] = k}
<1>1. Hashed(t) /\ n \in Nat /\ m.size = Count(t)
  BY DEF MapRep, Hashed
<1>2. Pairs(m, k) = row
  BY DEF Pairs, Bucket, BucketOf
<1>3. /\ MapPeek(m, k) = IF m.size = 0 THEN {} ELSE IF at = {} THEN {} ELSE {row[Min(at)][2]}
      /\ MapIndex(m, k) = row[Max(at)][2]
  BY <1>2 DEF MapPeek, MapIndex
<1> HIDE DEF t, n
<1>4. CASE m.size = 0
  <2>1. PairSet(t) = {}
    BY <1>1, <1>4, NoPairs
  <2> QED
    BY <1>3, <1>4, <2>1 DEF t
<1>5. CASE m.size # 0
  <2>1. n # 0
    <3>1. n = 0 => PairSet(t) = {}
      BY <1>1, PairSetMeans DEF n
    <3> QED
      BY <1>1, <1>5, <3>1, NoPairs
  <2>2. b \in 1 .. n /\ \A d : <<k, d>> \in PairSet(t) <=> <<k, d>> \in Range(row)
    BY <1>1, <2>1, KeyInBucket DEF n
  <2>3. RowOf(row, b, n)
    BY <1>1, <2>2 DEF Hashed, n
  <2> HIDE DEF row, b
  <2>4. row \in Seq(AllPairs) /\ \A i, j \in DOMAIN row : row[i][1] = row[j][1] => i = j
    BY <2>3 DEF RowOf
  <2>5. \A i \in DOMAIN row : i \in Nat /\ row[i] = <<row[i][1], row[i][2]>> /\ row[i][2] \in Data
    BY <2>4 DEF AllPairs
  <2>6. CASE at = {}
    <3>1. \A d : <<k, d>> \notin Range(row)
      <4>1. ASSUME NEW d, <<k, d>> \in Range(row)
            PROVE  FALSE
        <5>1. PICK j \in DOMAIN row : row[j] = <<k, d>>
          BY <4>1 DEF Range
        <5>2. j \in at
          BY <5>1
        <5> QED
          BY <2>6, <5>2
      <4> QED
        BY <4>1
    <3>2. MapPeek(m, k) = {}
      BY <1>3, <1>5, <2>6
    <3> QED
      BY <2>2, <3>1, <3>2 DEF t
  <2>7. CASE at # {}
    <3>1. PICK j : j \in at
      BY <2>7
    <3>2. at = {j}
      BY <2>4, <3>1
    <3>3. j \in Nat /\ j \in DOMAIN row /\ row[j][1] = k
      BY <2>5, <3>1
    <3>4. Min(at) = j /\ Max(at) = j
      <4> HIDE DEF at
      <4> QED
        BY <3>2, <3>3, MinOfOne, MaxOfOne
    <3>5. MapPeek(m, k) = {row[j][2]} /\ MapIndex(m, k) = row[j][2]
      <4> HIDE DEF at
      <4> QED
        BY <1>3, <1>5, <2>7, <3>4
    <3>6. \A d : <<k, d>> \in Range(row) <=> d = row[j][2]
      <4>1. <<k, row[j][2]>> \in Range(row)
        BY <2>5, <3>3 DEF Range
      <4>2. ASSUME NEW d, <<k, d>> \in Range(row)
            PROVE  d = row[j][2]
        <5>1. PICK i \in DOMAIN row : row[i] = <<k, d>>
          BY <4>2 DEF Range
        <5>2. row[i][1] = k /\ row[i][2] = d
          BY <5>1
        <5>3. i = j
          BY <2>4, <3>3, <5>2
        <5> QED
          BY <5>2, <5>3
      <4> QED
        BY <4>1, <4>2
    <3>7. row[j][2] \in Data
      BY <2>5, <3>3
    <3> HIDE DEF at
    <3> QED
      BY <2>2, <3>5, <3>6, <3>7 DEF t
  <2> QED
    BY <2>6, <2>7
<1> QED
  BY <1>4, <1>5

\* A pair is added to a table of n buckets, uncounted.
LEMMA AddPairMeans ==
    ASSUME NEW n \in Nat \ {0}, NEW z \in Nat, NEW x \in [table : MapTable(n), size : {z}],
           NEW k \in Keys, NEW d \in Data
    PROVE  /\ AddPair(x, k, d) = [table |-> AddedTo(x.table, k, d), size |-> z]
           /\ AddPair(x, k, d) \in [table : MapTable(n), size : {z}]
<1> DEFINE t == x.table
           b == BucketOf(n, k)
           row == Append(t[b], <<k, d>>)
<1>1. t \in Seq(Seq(AllPairs)) /\ Len(t) = n /\ x.size = z /\ x = [table |-> t, size |-> z]
  BY DEF MapTable
<1>2. b \in 1 .. n
  <2>1. k % n \in 0 .. n - 1
    BY SizesAssumption
  <2> QED
    BY <2>1 DEF BucketOf
<1>3. AddPair(x, k, d) = [table |-> [t EXCEPT ![b] = row], size |-> z]
  <2>1. Bucket(x, k) = b
    BY <1>1 DEF Bucket, BucketOf
  <2>2. AddPair(x, k, d) = [x EXCEPT !.table[b] = Append(x.table[b], <<k, d>>)]
    <3> HIDE DEF b
    <3> QED
      BY <2>1 DEF AddPair
  <2> DEFINE r == row
  <2>3. AddPair(x, k, d) = [x EXCEPT !.table[b] = r]
    BY <2>2
  <2> HIDE DEF row, t, b
  <2> QED
    BY <1>1, <2>3
<1>4. AddedTo(t, k, d) = [t EXCEPT ![b] = row]
  BY <1>1 DEF AddedTo
<1>5. row \in Seq(AllPairs)
  <2>1. t[b] \in Seq(AllPairs) /\ <<k, d>> \in AllPairs
    BY <1>1, <1>2 DEF AllPairs
  <2> QED
    BY <2>1
<1> HIDE DEF row, b, t
<1>6. [t EXCEPT ![b] = row] \in MapTable(n)
  BY <1>1, <1>2, <1>5 DEF MapTable
<1> QED
  BY <1>3, <1>4, <1>6 DEF t

\* A table gets some buckets.
LEMMA NextPrimeType ==
    ASSUME NEW c \in Nat
    PROVE  NextPrime(c) \in Nat \ {0}
<1> DEFINE larger == {i \in DOMAIN Primes : Primes[i] > c}
<1>1. Len(Primes) \in Nat \ {0} /\ \A i \in DOMAIN Primes : i \in Nat /\ Primes[i] \in Nat \ {0}
  BY PrimesAssumption
<1>2. CASE larger = {}
  <2>1. Len(Primes) \in DOMAIN Primes
    BY <1>1, PrimesAssumption
  <2>2. NextPrime(c) = Primes[Len(Primes)]
    BY <1>2 DEF NextPrime, Last
  <2> QED
    BY <1>1, <2>1, <2>2
<1>3. CASE larger # {}
  <2>1. larger \subseteq Nat
    BY <1>1
  <2>2. NextPrime(c) = Primes[Min(larger)]
    BY <1>3 DEF NextPrime
  <2>3. \E i \in larger : \A j \in larger : i <= j
    BY <1>3, <2>1, LeastMember
  <2>4. Min(larger) \in larger
    <3> HIDE DEF larger
    <3> QED
      BY <2>3 DEF Min
  <2>5. Min(larger) \in DOMAIN Primes
    BY <2>4
  <2> HIDE DEF larger
  <2> QED
    BY <1>1, <2>2, <2>5
<1> QED
  BY <1>2, <1>3

\* The pairs that rehash() inserts one after the other into an empty table.
Reinserts(x, m, old) ==
    /\ x[0] = [table |-> [b \in 1 .. NextPrime(Len(m.table)) |-> <<>>], size |-> m.size]
    /\ \A r \in Nat : r + 1 <= Len(old) => x[r + 1] = AddPair(x[r], old[r + 1][1], old[r + 1][2])

\* The insertions of rehash() can be looked at one by one.
LEMMA ReinsertsExist ==
    ASSUME NEW m, MapRep(m)
    PROVE  LET old == FlattenSeq(m.table)
           IN  \E x : Reinserts(x, m, old) /\ Rehash(m) = x[Len(old)]
<1> DEFINE old == FlattenSeq(m.table)
           l == Len(old)
           n == NextPrime(Len(m.table))
           z == m.size
           X == [table : MapTable(n), size : {z}]
           x0 == [table |-> [b \in 1 .. n |-> <<>>], size |-> z]
           next(x, r) == AddPair(x, old[r + 1][1], old[r + 1][2])
           added[i \in 0 .. Len(old)] ==
              IF i = 0 THEN [m EXCEPT !.table = [b \in 1 .. NextPrime(Len(m.table)) |-> <<>>]]
              ELSE AddPair(added[i - 1], old[i][1], old[i][2])
           step == [r \in Nat |-> [x \in X |-> IF r + 1 <= l THEN next(x, r) ELSE x]]
<1>1. Rehash(m) = added[l]
  BY DEF Rehash
<1>2. /\ old \in Seq(AllPairs) /\ l \in Nat /\ z \in Nat /\ Len(m.table) \in Nat
      /\ m = [table |-> m.table, size |-> m.size]
  <2>1. Hashed(m.table) /\ m \in [table : Seq(Seq(AllPairs)), size : Nat]
    BY DEF MapRep
  <2> QED
    BY <2>1, PairSetMeans DEF Count, Hashed
<1>3. [m EXCEPT !.table = [b \in 1 .. NextPrime(Len(m.table)) |-> <<>>]] = x0
  <2> DEFINE e == [b \in 1 .. NextPrime(Len(m.table)) |-> <<>>]
  <2> HIDE DEF e
  <2>1. [m EXCEPT !.table = e] = [table |-> e, size |-> m.size]
    BY <1>2
  <2> QED
    BY <2>1 DEF e
<1>4. n \in Nat \ {0}
  BY <1>2, NextPrimeType
<1> HIDE DEF old, l, n, z
<1>5. x0 \in X
  <2> DEFINE t == [b \in 1 .. n |-> <<>>]
  <2>1. Hashed(t) /\ Len(t) = n
    BY <1>4, EmptyTable
  <2> HIDE DEF t
  <2>2. t \in MapTable(n)
    BY <2>1 DEF Hashed, MapTable
  <2>3. [table |-> t, size |-> z] \in X
    BY <2>2
  <2> QED
    BY <2>3 DEF t
<1>6. step \in Steps(X)
  <2>1. ASSUME NEW r \in Nat, NEW x \in X, r + 1 <= l
        PROVE  next(x, r) \in X
    <3>1. r + 1 \in 1 .. l
      BY <1>2, <2>1
    <3>2. old[r + 1] \in AllPairs
      BY <1>2, <3>1 DEF l
    <3>3. old[r + 1][1] \in Keys /\ old[r + 1][2] \in Data
      BY <3>2 DEF AllPairs
    <3> QED
      BY <1>2, <1>4, <2>1, <3>3, AddPairMeans
  <2> HIDE DEF X, next
  <2> QED
    BY <2>1 DEF Steps
<1> HIDE DEF X, x0, next
<1>7. PICK g : RepeatsUpTo(g, l, X, x0, step)
  <2> HIDE DEF step
  <2> QED
    BY <1>2, <1>5, <1>6, IterationUpTo
<1> DEFINE also(f, i) == AddPair(f[i - 1], old[i][1], old[i][2])
<1>8. g = [i \in 0 .. l |-> IF i = 0 THEN x0 ELSE also(g, i)]
  <2>1. ASSUME NEW i \in 0 .. l
        PROVE  g[i] = IF i = 0 THEN x0 ELSE also(g, i)
    <3>1. CASE i = 0
      BY <1>7, <3>1 DEF RepeatsUpTo
    <3>2. CASE i # 0
      <4>1. i \in 1 .. l /\ i - 1 \in Nat /\ (i - 1) + 1 <= l /\ (i - 1) + 1 = i
        BY <1>2, <3>2
      <4>2. g[i] = step[i - 1][g[i - 1]] /\ g[i - 1] \in X
        BY <1>7, <4>1 DEF RepeatsUpTo
      <4>3. g[i] = next(g[i - 1], i - 1)
        BY <4>1, <4>2
      <4> QED
        BY <3>2, <4>1, <4>3 DEF next
    <3> QED
      BY <3>1, <3>2
  <2> HIDE DEF also
  <2> QED
    BY <1>7, <2>1 DEF RepeatsUpTo
<1>9. added = [i \in 0 .. l |-> IF i = 0 THEN x0 ELSE also(added, i)]
  <2>1. added = CHOOSE f : f = [i \in 0 .. l |->
                   IF i = 0 THEN [m EXCEPT !.table = [b \in 1 .. NextPrime(Len(m.table)) |-> <<>>]]
                   ELSE also(f, i)]
    BY DEF added, l
  <2>2. added = CHOOSE f : f = [i \in 0 .. l |-> IF i = 0 THEN x0 ELSE also(f, i)]
    <3> HIDE DEF added, also
    <3> QED
      BY <1>3, <2>1
  <2>3. \E f : f = [i \in 0 .. l |-> IF i = 0 THEN x0 ELSE also(f, i)]
    BY <1>8
  <2> HIDE DEF added, also
  <2> QED
    BY <2>2, <2>3, Zenon
<1> HIDE DEF added
<1>10. added[0] = x0
  BY <1>2, <1>9
<1>11. ASSUME NEW r \in Nat, r + 1 <= l
       PROVE  added[r + 1] = AddPair(added[r], old[r + 1][1], old[r + 1][2])
  <2>1. r + 1 \in 0 .. l /\ r + 1 # 0 /\ (r + 1) - 1 = r
    BY <1>2, <1>11
  <2> QED
    BY <1>9, <2>1
<1>12. Reinserts(added, m, old)
  BY <1>10, <1>11 DEF Reinserts, x0, n, z, l
<1> QED
  BY <1>1, <1>12 DEF l, old

\* The first r pairs of old are in a table of n buckets.
Holds(x, old, n, z, r) ==
    /\ x \in [table : MapTable(n), size : {z}] /\ Hashed(x.table)
    /\ Count(x.table) = r /\ PairSet(x.table) = {old[j] : j \in 1 .. r}

\* One of them adds its pair, whatever number of buckets the table has.
LEMMA ReinsertKeeps ==
    ASSUME NEW n \in Nat \ {0}, NEW z \in Nat, NEW old \in Seq(AllPairs), DistinctKeys(old),
           NEW r \in Nat, r + 1 <= Len(old), NEW x, Holds(x, old, n, z, r)
    PROVE  Holds(AddPair(x, old[r + 1][1], old[r + 1][2]), old, n, z, r + 1)
<1> DEFINE k == old[r + 1][1]
           d == old[r + 1][2]
           y == AddPair(x, k, d)
<1>1. r + 1 \in DOMAIN old /\ \A j \in 1 .. r : j \in DOMAIN old /\ j # r + 1
  OBVIOUS
<1>2. /\ x \in [table : MapTable(n), size : {z}] /\ Hashed(x.table) /\ Len(x.table) = n
      /\ Count(x.table) = r /\ PairSet(x.table) = {old[j] : j \in 1 .. r}
  BY DEF Holds, MapTable
<1>3. old[r + 1] \in AllPairs
  BY <1>1
<1>4. k \in Keys /\ d \in Data /\ old[r + 1] = <<k, d>>
  BY <1>3 DEF AllPairs
<1>5. NoKey(x.table, k)
  <2>1. ASSUME NEW e, <<k, e>> \in PairSet(x.table)
        PROVE  FALSE
    <3>1. PICK j \in 1 .. r : <<k, e>> = old[j]
      <4> HIDE DEF k
      <4> QED
        BY <1>2, <2>1
    <3>2. old[j][1] = k
      <4> HIDE DEF k
      <4>1. <<k, e>>[1] = k
        OBVIOUS
      <4> QED
        BY <3>1, <4>1
    <3> QED
      BY <1>1, <3>2 DEF DistinctKeys
  <2> HIDE DEF k
  <2> QED
    BY <2>1 DEF NoKey
<1> HIDE DEF k, d
<1>6. y = [table |-> AddedTo(x.table, k, d), size |-> z] /\ y \in [table : MapTable(n), size : {z}]
  BY <1>2, <1>4, AddPairMeans
<1> HIDE DEF y
<1>7. /\ Hashed(y.table) /\ Count(y.table) = r + 1
      /\ PairSet(y.table) = PairSet(x.table) \cup {<<k, d>>}
  <2> DEFINE u == AddedTo(x.table, k, d)
  <2>1. Hashed(u) /\ Count(u) = Count(x.table) + 1 /\ PairSet(u) = PairSet(x.table) \cup {<<k, d>>}
    BY <1>2, <1>4, <1>5, AddedMeans
  <2> HIDE DEF u
  <2>2. y.table = u
    BY <1>6 DEF u
  <2> QED
    BY <1>2, <2>1, <2>2
<1>8. \A j : j \in 1 .. r + 1 <=> j \in 1 .. r \/ j = r + 1
  OBVIOUS
<1>9. PairSet(y.table) = {old[j] : j \in 1 .. r + 1}
  BY <1>2, <1>4, <1>7, <1>8
<1> QED
  BY <1>6, <1>7, <1>9 DEF Holds, y, k, d

\* A rehash keeps the pairs.
LEMMA RehashMeans ==
    ASSUME NEW m, MapRep(m)
    PROVE  /\ MapRep(Rehash(m)) /\ Rehash(m).size = m.size /\ Len(Rehash(m).table) # 0
           /\ PairSet(Rehash(m).table) = PairSet(m.table)
<1> DEFINE old == FlattenSeq(m.table)
           l == Len(old)
           n == NextPrime(Len(m.table))
           z == m.size
<1>1. PICK x : Reinserts(x, m, old) /\ Rehash(m) = x[l]
  BY ReinsertsExist
<1>2. /\ Hashed(m.table) /\ z \in Nat /\ z = Count(m.table) /\ Len(m.table) \in Nat
  BY DEF MapRep, Hashed
<1>3. old \in Seq(AllPairs) /\ DistinctKeys(old) /\ l \in Nat /\ z = l /\ PairSet(m.table) = Range(old)
  BY <1>2, PairSetMeans, AllKeysDiffer DEF Count, PairSet
<1>4. n \in Nat \ {0}
  BY <1>2, NextPrimeType
<1>5. /\ x[0] = [table |-> [b \in 1 .. n |-> <<>>], size |-> z]
      /\ \A r \in Nat : r + 1 <= l => x[r + 1] = AddPair(x[r], old[r + 1][1], old[r + 1][2])
  BY <1>1 DEF Reinserts
<1> HIDE DEF old, n, z, l
<1> DEFINE S == {r \in Nat : r <= l => Holds(x[r], old, n, z, r)}
<1>6. 0 \in S
  <2> DEFINE t == [b \in 1 .. n |-> <<>>]
  <2>1. Hashed(t) /\ Len(t) = n /\ PairSet(t) = {} /\ Count(t) = 0
    BY <1>4, EmptyTable
  <2> HIDE DEF t
  <2>2. x[0] = [table |-> t, size |-> z]
    BY <1>5 DEF t
  <2>3. x[0].table = t /\ x[0] \in [table : MapTable(n), size : {z}]
    BY <2>1, <2>2 DEF Hashed, MapTable
  <2>4. {old[j] : j \in 1 .. 0} = {}
    OBVIOUS
  <2>5. Holds(x[0], old, n, z, 0)
    BY <2>1, <2>3, <2>4 DEF Holds
  <2> QED
    BY <2>5
<1>7. ASSUME NEW r \in Nat, r \in S
      PROVE  r + 1 \in S
  <2> SUFFICES ASSUME r + 1 <= l PROVE Holds(x[r + 1], old, n, z, r + 1)
    OBVIOUS
  <2> DEFINE y == x[r]
  <2>1. Holds(y, old, n, z, r)
    BY <1>3, <1>7
  <2>2. x[r + 1] = AddPair(y, old[r + 1][1], old[r + 1][2])
    BY <1>5
  <2> HIDE DEF y
  <2>3. r + 1 <= Len(old)
    BY DEF l
  <2> QED
    BY <1>2, <1>3, <1>4, <2>1, <2>2, <2>3, ReinsertKeeps
<1>8. Holds(x[l], old, n, z, l)
  <2>1. Nat \subseteq S
    <3> HIDE DEF S
    <3> QED
      BY <1>6, <1>7, InductionOn
  <2>2. l \in S
    BY <1>3, <2>1
  <2> QED
    BY <1>3, <2>2
<1> DEFINE y == x[l]
<1> HIDE DEF y
<1>9. /\ y \in [table : MapTable(n), size : {z}] /\ Hashed(y.table)
      /\ Count(y.table) = l /\ PairSet(y.table) = {old[j] : j \in 1 .. l}
  BY <1>8 DEF Holds, y
<1>10. PairSet(y.table) = Range(old)
  <2>1. DOMAIN old = 1 .. l
    BY <1>3 DEF l
  <2> QED
    BY <1>9, <2>1 DEF Range
<1>11. y.size = z /\ Len(y.table) = n /\ y \in [table : Seq(Seq(AllPairs)), size : Nat]
  BY <1>2, <1>9 DEF MapTable
<1>12. MapRep(y)
  BY <1>3, <1>9, <1>11 DEF MapRep
<1> QED
  BY <1>1, <1>3, <1>4, <1>10, <1>11, <1>12 DEF y, z

\* insert() adds a pair.
LEMMA MapInsertMeans ==
    ASSUME NEW m, MapRep(m), NEW k \in Keys, NEW d \in Data, MapPeek(m, k) = {}
    PROVE  LET u == MapInsert(m, k, d)
           IN  MapRep(u) /\ PairSet(u.table) = PairSet(m.table) \cup {<<k, d>>}
<1> DEFINE r == IF m.size + 1 > Len(m.table) THEN Rehash(m) ELSE m
           u == MapInsert(m, k, d)
<1>1. /\ Hashed(m.table) /\ m.size \in Nat /\ Len(m.table) \in Nat
  BY DEF MapRep, Hashed
<1>2. MapRep(r) /\ Len(r.table) # 0 /\ PairSet(r.table) = PairSet(m.table)
  <2>1. CASE m.size + 1 > Len(m.table)
    BY <2>1, RehashMeans
  <2>2. CASE ~ (m.size + 1 > Len(m.table))
    BY <1>1, <2>2
  <2> QED
    BY <2>1, <2>2
<1>3. NoKey(m.table, k)
  <2>1. \A e : <<k, e>> \in PairSet(m.table) => e \in Data
    BY <1>1, PairSetMeans DEF AllPairs
  <2>2. {e \in Data : <<k, e>> \in PairSet(m.table)} = {}
    BY LookMeans
  <2> QED
    BY <2>1, <2>2 DEF NoKey
<1>4. u = [AddPair(r, k, d) EXCEPT !.size = @ + 1]
  BY DEF MapInsert
<1> HIDE DEF r, u
<1> DEFINE n == Len(r.table)
           z == r.size
           t == AddedTo(r.table, k, d)
<1>5. n \in Nat \ {0} /\ z \in Nat /\ r \in [table : MapTable(n), size : {z}] /\ Hashed(r.table)
      /\ z = Count(r.table) /\ NoKey(r.table, k)
  BY <1>2, <1>3 DEF MapRep, Hashed, MapTable, NoKey
<1>6. AddPair(r, k, d) = [table |-> t, size |-> z]
  <2> HIDE DEF n, z, t
  <2> QED
    BY <1>5, AddPairMeans DEF t
<1>7. u = [table |-> t, size |-> z + 1]
  <2> HIDE DEF n, z, t
  <2> QED
    BY <1>4, <1>6
<1>8. Hashed(t) /\ Count(t) = Count(r.table) + 1 /\ PairSet(t) = PairSet(r.table) \cup {<<k, d>>}
  BY <1>5, AddedMeans
<1> HIDE DEF n, z, t
<1>9. u.table = t /\ u.size = z + 1 /\ u \in [table : Seq(Seq(AllPairs)), size : Nat]
  BY <1>5, <1>7, <1>8 DEF Hashed
<1>10. MapRep(u)
  BY <1>5, <1>8, <1>9 DEF MapRep
<1> QED
  BY <1>2, <1>8, <1>9, <1>10 DEF u

\* remove() takes the pair of a key away.
LEMMA MapRemoveMeans ==
    ASSUME NEW m, MapRep(m), NEW k \in Keys, MapPeek(m, k) # {}
    PROVE  LET u == MapRemove(m, k)
           IN  /\ MapRep(u)
               /\ \A p : p \in PairSet(u.table) <=> p \in PairSet(m.table) /\ p[1] # k
<1> DEFINE t == m.table
           n == Len(t)
           b == BucketOf(n, k)
           row == t[b]
           at == {i \in DOMAIN row : row[i][1] = k}
           j == Min(at)
           u == MapRemove(m, k)
           new == ClosedUp(row, j)
           v == [t EXCEPT ![b] = new]
<1>1. /\ Hashed(t) /\ n \in Nat /\ m.size = Count(t) /\ m.size \in Nat
      /\ m = [table |-> t, size |-> m.size]
  BY DEF MapRep, Hashed
<1>2. Pairs(m, k) = row /\ Bucket(m, k) = b
  BY DEF Pairs, Bucket, BucketOf
<1>3. PICK d : <<k, d>> \in PairSet(t)
  BY LookMeans
<1>4. n # 0
  BY <1>1, <1>3, PairSetMeans
<1>5. b \in 1 .. n /\ <<k, d>> \in Range(row)
  BY <1>1, <1>3, <1>4, KeyInBucket
<1>6. RowOf(row, b, n)
  BY <1>1, <1>5 DEF Hashed
<1>7. u = [m EXCEPT !.table[b] = Front([@ EXCEPT ![j] = Last(row)]), !.size = @ - 1]
  BY <1>2 DEF MapRemove
<1> HIDE DEF t, n, b, u
<1>8. u = [table |-> v, size |-> m.size - 1]
  <2>1. m.table = t
    BY DEF t
  <2> QED
    BY <1>1, <1>7, <2>1 DEF ClosedUp
<1> HIDE DEF row
<1>9. j \in DOMAIN row /\ row[j][1] = k
  <2>1. PICK i \in DOMAIN row : row[i] = <<k, d>>
    BY <1>5 DEF Range
  <2>2. i \in at
    BY <2>1
  <2>3. at \subseteq Nat
    BY <1>6 DEF RowOf
  <2>4. \E i1 \in at : \A i2 \in at : i1 <= i2
    BY <2>2, <2>3, LeastMember
  <2>5. j \in at
    <3> HIDE DEF at
    <3> QED
      BY <2>4 DEF Min
  <2> QED
    BY <2>5
<1> HIDE DEF at, j
<1>10. /\ RowOf(new, b, n) /\ Len(new) = Len(row) - 1
       /\ \A p : p \in Range(new) <=> p \in Range(row) /\ p # row[j]
  BY <1>6, <1>9, ClosedUpMeans
<1> HIDE DEF new
<1>11. /\ Hashed(v) /\ Count(v) + Len(row) = Count(t) + Len(new)
       /\ \A p : p \in PairSet(v) <=> p \in Range(new) \/ (p \in PairSet(t) /\ p \notin Range(row))
  BY <1>1, <1>5, <1>10, RowChange DEF n, row
<1> HIDE DEF v
<1>12. Count(v) = m.size - 1 /\ m.size - 1 \in Nat
  <2>1. Count(v) \in Nat /\ Len(row) \in Nat
    BY <1>6, <1>11, PairSetMeans DEF RowOf
  <2> QED
    BY <1>1, <1>10, <1>11, <2>1
<1>13. MapRep(u) /\ u.table = v
  BY <1>8, <1>11, <1>12 DEF MapRep, Hashed
<1>14. \A p : p \in Range(row) => p \in PairSet(t)
  <2>1. \A p : p \in PairSet(t) <=> \E c \in 1 .. n : p \in Range(t[c])
    BY <1>1, PairSetMeans DEF n
  <2> QED
    BY <1>5, <2>1 DEF row
<1>15. ASSUME NEW p \in PairSet(t)
       PROVE  p = row[j] <=> p[1] = k
  <2>1. row[j] \in AllPairs /\ p \in AllPairs
    BY <1>1, <1>6, <1>9, PairSetMeans DEF RowOf
  <2>2. row[j] = <<k, row[j][2]>> /\ p = <<p[1], p[2]>>
    BY <1>9, <2>1 DEF AllPairs
  <2>3. row[j] \in PairSet(t)
    BY <1>9, <1>14 DEF Range
  <2>4. ASSUME p[1] = k PROVE p = row[j]
    <3>1. <<k, p[2]>> \in PairSet(t) /\ <<k, row[j][2]>> \in PairSet(t)
      BY <2>2, <2>3, <2>4
    <3>2. p[2] = row[j][2]
      BY <1>1, <3>1, OneData
    <3> QED
      BY <2>2, <2>4, <3>2
  <2> QED
    BY <1>9, <2>4
<1>16. \A p : p \in PairSet(v) <=> p \in PairSet(t) /\ p[1] # k
  <2>1. row[j] \in Range(row)
    BY <1>9 DEF Range
  <2> QED
    BY <1>10, <1>11, <1>14, <1>15, <2>1
<1> QED
  BY <1>13, <1>16 DEF u, t

-------------------------------------------------------------------------------
(* Queues.                                                                     *)

Elems == Data \cup {0}

QueueType(q) ==
    /\ q \in [buf : Seq(Elems), first : Nat, end : Nat]
    /\ q.first < Len(q.buf) /\ q.end < Len(q.buf)

\* The elements of a queue, as Contents has them.
Queued(q) == [i \in 1 .. QueueSize(q) |-> QueueAt(q, i - 1)]

\* Where the element i places behind the first is, counted from 1.
Slot(q, i) == IF q.first + i < Len(q.buf) THEN (q.first + i) + 1
              ELSE ((q.first + i) - Len(q.buf)) + 1

\* The types of a queue, its size and its elements.
LEMMA QueueSizes ==
    ASSUME NEW q, QueueType(q)
    PROVE  /\ Len(q.buf) \in Nat \ {0} /\ q.buf \in Seq(Elems)
           /\ q.first \in 0 .. Len(q.buf) - 1 /\ q.end \in 0 .. Len(q.buf) - 1
           /\ QueueSize(q) \in 0 .. Len(q.buf) - 1
           /\ QueueSize(q) = IF q.end >= q.first THEN q.end - q.first
                             ELSE (q.end - q.first) + Len(q.buf)
<1>1. /\ Len(q.buf) \in Nat \ {0} /\ q.buf \in Seq(Elems)
      /\ q.first \in 0 .. Len(q.buf) - 1 /\ q.end \in 0 .. Len(q.buf) - 1
  BY DEF QueueType
<1> QED
  BY <1>1 DEF QueueSize

\* The elements of a queue are in their slots.
LEMMA QueueElements ==
    ASSUME NEW q, QueueType(q)
    PROVE  /\ \A i \in 0 .. Len(q.buf) - 1 :
                Slot(q, i) \in 1 .. Len(q.buf) /\ QueueAt(q, i) = q.buf[Slot(q, i)]
           /\ Queued(q) \in Seq(Elems) /\ Len(Queued(q)) = QueueSize(q)
<1> USE QueueSizes
<1>1. ASSUME NEW i \in 0 .. Len(q.buf) - 1
      PROVE  Slot(q, i) \in 1 .. Len(q.buf) /\ QueueAt(q, i) = q.buf[Slot(q, i)]
  <2> DEFINE n == Len(q.buf)
             a == q.first + i
  <2>1. a \in Nat /\ n \in Nat \ {0} /\ a < 2 * n
    OBVIOUS
  <2>2. QueueAt(q, i) = q.buf[(a % n) + 1] /\ Slot(q, i) = IF a < n THEN a + 1 ELSE (a - n) + 1
    BY DEF QueueAt, At, Slot
  <2> HIDE DEF n, a
  <2>3. a % n = IF a < n THEN a ELSE a - n
    BY <2>1, OneTurn
  <2>4. Slot(q, i) = (a % n) + 1 /\ a % n \in 0 .. n - 1
    <3>1. CASE a < n
      BY <2>1, <2>2, <2>3, <3>1
    <3>2. CASE ~(a < n)
      BY <2>1, <2>2, <2>3, <3>2
    <3> QED
      BY <3>1, <3>2
  <2>5. QueueAt(q, i) = q.buf[Slot(q, i)] /\ Slot(q, i) \in 1 .. n
    BY <2>1, <2>2, <2>4
  <2> QED
    BY <2>5 DEF n
<1>2. \A i \in 1 .. QueueSize(q) : QueueAt(q, i - 1) \in Elems
  <2> TAKE i \in 1 .. QueueSize(q)
  <2>1. i - 1 \in 0 .. Len(q.buf) - 1
    OBVIOUS
  <2>2. Slot(q, i - 1) \in 1 .. Len(q.buf) /\ QueueAt(q, i - 1) = q.buf[Slot(q, i - 1)]
    BY <1>1, <2>1
  <2> QED
    BY <2>2
<1>3. Queued(q) \in Seq(Elems) /\ Len(Queued(q)) = QueueSize(q)
  BY <1>2 DEF Queued
<1> QED
  BY <1>1, <1>3

\* insert() before it looks whether the buffer is full.
Stored(q, x) == [q EXCEPT !.buf = Put(@, q.end, x), !.end = Around(q, @ + 1)]

\* insert() stores the element behind the last one.
LEMMA StoredIsLast ==
    ASSUME NEW q, QueueType(q), NEW x \in Data
    PROVE  /\ QueueType(Stored(q, x))
           /\ Len(Stored(q, x).buf) = Len(q.buf) /\ Stored(q, x).first = q.first
           /\ Stored(q, x).end = IF q.end + 1 = Len(q.buf) THEN 0 ELSE q.end + 1
           /\ \A i \in 1 .. QueueSize(q) + 1 :
                Stored(q, x).buf[Slot(q, i - 1)] = Append(Queued(q), x)[i]
<1> DEFINE n == Len(q.buf)
           p == Stored(q, x)
<1>1. /\ n \in Nat \ {0} /\ q.first \in 0 .. n - 1 /\ q.end \in 0 .. n - 1 /\ q.buf \in Seq(Elems)
      /\ QueueSize(q) \in 0 .. n - 1
      /\ QueueSize(q) = IF q.end >= q.first THEN q.end - q.first ELSE (q.end - q.first) + n
  BY QueueSizes
<1>2. /\ p.buf = [q.buf EXCEPT ![q.end + 1] = x] /\ p.first = q.first
      /\ p.end = IF q.end + 1 = n THEN 0 ELSE q.end + 1
      /\ p = [buf |-> p.buf, first |-> p.first, end |-> p.end]
  <2>1. q = [buf |-> q.buf, first |-> q.first, end |-> q.end]
    BY DEF QueueType
  <2> DEFINE b == Put(q.buf, q.end, x)
             e == Around(q, q.end + 1)
  <2>2. p = [q EXCEPT !.buf = b, !.end = e]
    BY <2>1 DEF Stored
  <2> HIDE DEF p
  <2>3. b = [q.buf EXCEPT ![q.end + 1] = x] /\ e = IF q.end + 1 = n THEN 0 ELSE q.end + 1
    BY DEF Put, Around
  <2> HIDE DEF b, e
  <2>4. p = [buf |-> b, first |-> q.first, end |-> e]
    BY <2>1, <2>2
  <2> QED
    BY <2>3, <2>4
<1> HIDE DEF p
<1>3. p.buf \in Seq(Elems) /\ Len(p.buf) = n
  <2>1. q.end + 1 \in 1 .. n /\ x \in Elems
    BY <1>1 DEF Elems
  <2>2. [q.buf EXCEPT ![q.end + 1] = x] \in Seq(Elems) /\ Len([q.buf EXCEPT ![q.end + 1] = x]) = n
    BY <1>1, <2>1
  <2> QED
    BY <1>2, <2>2
<1>4. QueueType(p)
  <2> HIDE DEF n
  <2>1. p.end \in Nat /\ p.end < n /\ p.first \in Nat /\ p.first < n
    BY <1>1, <1>2
  <2>2. p.first < Len(p.buf) /\ p.end < Len(p.buf)
    BY <1>3, <2>1
  <2>3. p = [buf |-> p.buf, first |-> p.first, end |-> p.end]
    BY <1>2
  <2>4. p \in [buf : Seq(Elems), first : Nat, end : Nat]
    BY <1>3, <2>1, <2>3
  <2> QED
    BY <2>2, <2>4 DEF QueueType
<1>5. ASSUME NEW i \in 1 .. QueueSize(q) + 1
      PROVE  p.buf[Slot(q, i - 1)] = Append(Queued(q), x)[i]
  <2>1. Queued(q) \in Seq(Elems) /\ Len(Queued(q)) = QueueSize(q) /\ x \in Elems
    BY QueueElements DEF Elems
  <2>2. i - 1 \in 0 .. n - 1
    BY <1>1
  <2>3. Slot(q, i - 1) \in 1 .. n /\ QueueAt(q, i - 1) = q.buf[Slot(q, i - 1)]
    BY <2>2, QueueElements
  <2>4. CASE i = QueueSize(q) + 1
    <3>1. Slot(q, i - 1) = q.end + 1
      <4>1. Slot(q, i - 1) = IF q.first + QueueSize(q) < n THEN (q.first + QueueSize(q)) + 1
                             ELSE ((q.first + QueueSize(q)) - n) + 1
        <5>1. i - 1 = QueueSize(q)
          BY <1>1, <2>4
        <5> QED
          BY <5>1 DEF Slot
      <4> HIDE DEF n
      <4>2. CASE q.end >= q.first
        BY <1>1, <4>1, <4>2
      <4>3. CASE q.end < q.first
        BY <1>1, <4>1, <4>3
      <4> QED
        BY <1>1, <4>2, <4>3
    <3> QED
      BY <1>1, <1>2, <2>1, <2>4, <3>1
  <2>5. CASE i \in 1 .. QueueSize(q)
    <3>1. Slot(q, i - 1) # q.end + 1
      BY <1>1, <2>5 DEF Slot
    <3>2. p.buf[Slot(q, i - 1)] = q.buf[Slot(q, i - 1)]
      BY <1>1, <1>2, <2>3, <3>1
    <3>3. Queued(q)[i] = QueueAt(q, i - 1)
      BY <2>5 DEF Queued
    <3> QED
      BY <2>1, <2>3, <2>5, <3>2, <3>3
  <2>6. i = QueueSize(q) + 1 \/ i \in 1 .. QueueSize(q)
    BY <1>1
  <2> QED
    BY <2>4, <2>5, <2>6
<1> QED
  BY <1>2, <1>3, <1>4, <1>5 DEF p

\* A resize makes room.
LEMMA ResizeGrows ==
    ASSUME NEW n \in Nat \ {0}
    PROVE  (n * 3 + 1) \div 2 \in Nat /\ (n * 3 + 1) \div 2 > n
OBVIOUS

\* A resize keeps the order of the elements.
LEMMA ResizeKeepsOrder ==
    ASSUME NEW p, QueueType(p), p.first = p.end, ResizeFits(p)
    PROVE  /\ QueueType(Resize(p)) /\ QueueSize(Resize(p)) = Len(p.buf)
           /\ \A i \in 1 .. Len(p.buf) : QueueAt(Resize(p), i - 1) = p.buf[Slot(p, i - 1)]
<1> DEFINE n == Len(p.buf)
           m == (n * 3 + 1) \div 2
           kept == SubSeq(p.buf, p.first + 1, n) \o SubSeq(p.buf, 1, p.end)
           pad == [i \in 1 .. m - Len(kept) |-> 0]
           r == Resize(p)
<1>1. n \in Nat \ {0} /\ p.buf \in Seq(Elems) /\ p.first \in 0 .. n - 1 /\ p.end = p.first
  BY QueueSizes
<1>2. m \in Nat /\ m > n
  BY <1>1, ResizeGrows
<1>3. /\ kept \in Seq(Elems) /\ Len(kept) = n
      /\ \A i \in 1 .. n : kept[i] = p.buf[Slot(p, i - 1)]
  <2> DEFINE back == SubSeq(p.buf, p.first + 1, n)
             front == SubSeq(p.buf, 1, p.end)
  <2>1. /\ back \in Seq(Elems) /\ Len(back) = n - p.first
        /\ \A i \in 1 .. n - p.first : back[i] = p.buf[p.first + i]
    BY <1>1
  <2>2. /\ front \in Seq(Elems) /\ Len(front) = p.first
        /\ \A i \in 1 .. p.first : front[i] = p.buf[i]
    BY <1>1
  <2>3. kept = back \o front
    OBVIOUS
  <2> HIDE DEF n, back, front, kept
  <2>4. /\ kept \in Seq(Elems) /\ Len(kept) = n
        /\ \A i \in 1 .. n :
              kept[i] = IF i <= n - p.first THEN back[i] ELSE front[i - (n - p.first)]
    <3>1. /\ back \o front \in Seq(Elems) /\ Len(back \o front) = Len(back) + Len(front)
          /\ \A i \in 1 .. Len(back) + Len(front) :
                (back \o front)[i] = IF i <= Len(back) THEN back[i] ELSE front[i - Len(back)]
      BY <2>1, <2>2, ConcatProperties
    <3>2. Len(back) = n - p.first /\ Len(front) = p.first /\ Len(back) + Len(front) = n
      BY <1>1, <2>1, <2>2
    <3> QED
      BY <2>3, <3>1, <3>2
  <2>5. ASSUME NEW i \in 1 .. n
        PROVE  kept[i] = p.buf[Slot(p, i - 1)]
    <3>1. Slot(p, i - 1) = IF i <= n - p.first THEN p.first + i ELSE i - (n - p.first)
      BY <1>1 DEF Slot, n
    <3>2. CASE i <= n - p.first
      <4>1. i \in 1 .. n - p.first
        BY <1>1, <3>2
      <4> QED
        BY <2>1, <2>4, <3>1, <3>2, <4>1
    <3>3. CASE ~ (i <= n - p.first)
      <4>1. i - (n - p.first) \in 1 .. p.first
        BY <1>1, <3>3
      <4> QED
        BY <2>2, <2>4, <3>1, <3>3, <4>1
    <3> QED
      BY <3>2, <3>3
  <2> QED
    BY <2>4, <2>5
<1>4. r = [buf |-> kept \o pad, first |-> 0, end |-> n]
  <2> DEFINE l == n * 3 + 1
  <2>1. l \in Nat /\ IntMax \in Nat /\ l <= IntMax
    BY <1>1, SizesAssumption DEF ResizeFits
  <2>2. r = [buf |-> kept \o [i \in 1 .. (WrapInt(l) \div 2) - Len(kept) |-> 0],
             first |-> 0, end |-> n]
    BY DEF Resize
  <2> HIDE DEF l
  <2>3. WrapInt(l) = l
    BY <2>1 DEF WrapInt
  <2> QED
    BY <2>2, <2>3 DEF l
<1> HIDE DEF n, m, kept
<1>5. pad \in Seq(Elems) /\ Len(pad) = m - n
  BY <1>1, <1>2, <1>3 DEF Elems
<1> HIDE DEF pad, r
<1>6. r.buf \in Seq(Elems) /\ Len(r.buf) = m /\ \A i \in 1 .. n : r.buf[i] = kept[i]
  <2>1. r.buf = kept \o pad
    BY <1>4
  <2>2. /\ kept \o pad \in Seq(Elems) /\ Len(kept \o pad) = Len(kept) + Len(pad)
        /\ \A i \in 1 .. Len(kept) + Len(pad) :
              (kept \o pad)[i] = IF i <= Len(kept) THEN kept[i] ELSE pad[i - Len(kept)]
    BY <1>3, <1>5, ConcatProperties
  <2>3. Len(kept) + Len(pad) = m /\ \A i \in 1 .. n : i \in 1 .. m /\ i <= n
    BY <1>1, <1>2, <1>3, <1>5
  <2> QED
    BY <1>3, <2>1, <2>2, <2>3
<1>7. QueueType(r)
  BY <1>1, <1>2, <1>4, <1>6 DEF QueueType
<1>8. QueueSize(r) = n
  BY <1>1, <1>4 DEF QueueSize
<1>9. ASSUME NEW i \in 1 .. n
      PROVE  QueueAt(r, i - 1) = p.buf[Slot(p, i - 1)]
  <2>1. i - 1 \in 0 .. Len(r.buf) - 1
    BY <1>1, <1>2, <1>6
  <2>2. Slot(r, i - 1) = i
    BY <1>1, <1>2, <1>4, <1>6 DEF Slot
  <2> QED
    BY <1>3, <1>6, <1>7, <2>1, <2>2, QueueElements
<1> QED
  BY <1>7, <1>8, <1>9 DEF n, r

\* insert() puts its element behind all others, whether the buffer had room or not.
LEMMA InsertAppends ==
    ASSUME NEW q, QueueType(q), NEW x \in Data, InsertFits(q)
    PROVE  QueueType(QueueInsert(q, x)) /\ Queued(QueueInsert(q, x)) = Append(Queued(q), x)
<1> DEFINE n == Len(q.buf)
           k == QueueSize(q)
           p == Stored(q, x)
           r == QueueInsert(q, x)
           after == Append(Queued(q), x)
<1>1. /\ n \in Nat \ {0} /\ q.first \in 0 .. n - 1 /\ q.end \in 0 .. n - 1
      /\ k \in 0 .. n - 1
      /\ k = IF q.end >= q.first THEN q.end - q.first ELSE (q.end - q.first) + n
  BY QueueSizes
<1>2. /\ QueueType(p) /\ Len(p.buf) = n /\ p.first = q.first
      /\ p.end = IF q.end + 1 = n THEN 0 ELSE q.end + 1
      /\ \A i \in 1 .. k + 1 : p.buf[Slot(q, i - 1)] = after[i]
  BY StoredIsLast
<1>3. \A i \in 1 .. k + 1 : Slot(p, i - 1) = Slot(q, i - 1)
  BY <1>2 DEF Slot
<1>4. r = IF p.first = p.end THEN Resize(p) ELSE p
  BY DEF QueueInsert, Stored
<1>5. Queued(q) \in Seq(Elems) /\ Len(Queued(q)) = k /\ x \in Elems
  BY QueueElements DEF Elems
<1>6. after \in Seq(Elems) /\ Len(after) = k + 1
  BY <1>1, <1>5, AppendProperties
<1> HIDE DEF n, k, p, r, after
<1>7. QueueType(r) /\ QueueSize(r) = k + 1 /\ \A i \in 1 .. k + 1 : QueueAt(r, i - 1) = after[i]
  <2>1. CASE p.first = p.end
    <3>1. k + 1 = n
      BY <1>1, <1>2, <2>1
    <3>2. ResizeFits(p)
      <4>1. ~ (QueueSize(q) + 1 < Len(q.buf))
        BY <1>1, <3>1 DEF n, k
      <4>2. ResizeFits(q) /\ Len(p.buf) = Len(q.buf)
        BY <1>2, <4>1 DEF InsertFits, n
      <4> QED
        BY <4>2 DEF ResizeFits
    <3>3. /\ QueueType(Resize(p)) /\ QueueSize(Resize(p)) = n
          /\ \A i \in 1 .. n : QueueAt(Resize(p), i - 1) = p.buf[Slot(p, i - 1)]
      BY <1>2, <2>1, <3>2, ResizeKeepsOrder
    <3> QED
      BY <1>2, <1>3, <1>4, <2>1, <3>1, <3>3
  <2>2. CASE p.first # p.end
    <3>1. r = p
      BY <1>4, <2>2
    <3>2. QueueSize(p) = k + 1
      <4>1. QueueSize(p) = IF p.end >= p.first THEN p.end - p.first ELSE (p.end - p.first) + n
        BY <1>2, QueueSizes
      <4> QED
        BY <1>1, <1>2, <2>2, <4>1
    <3>3. ASSUME NEW i \in 1 .. k + 1
          PROVE  QueueAt(p, i - 1) = after[i]
      <4>1. i - 1 \in 0 .. Len(p.buf) - 1
        BY <1>1, <1>2
      <4>2. QueueAt(p, i - 1) = p.buf[Slot(p, i - 1)]
        BY <1>2, <4>1, QueueElements
      <4> QED
        BY <1>2, <1>3, <4>2
    <3> QED
      BY <1>2, <3>1, <3>2, <3>3
  <2> QED
    BY <2>1, <2>2
<1>8. Queued(r) = after
  <2>1. /\ Queued(r) \in Seq(Elems) /\ Len(Queued(r)) = k + 1
        /\ \A i \in 1 .. k + 1 : Queued(r)[i] = after[i]
    BY <1>7, QueueElements DEF Queued
  <2> QED
    BY <1>1, <1>6, <2>1, SeqEqual
<1> QED
  BY <1>7, <1>8 DEF r, after

\* pop() takes the first element away, peek() and [] read what the contents have.
LEMMA PopTakesFirst ==
    ASSUME NEW q, QueueType(q), q.first # q.end
    PROVE  /\ QueueType(QueuePop(q)) /\ Queued(QueuePop(q)) = Tail(Queued(q))
           /\ Queued(q) # <<>>
<1> DEFINE n == Len(q.buf)
           k == QueueSize(q)
           r == QueuePop(q)
           rest == Tail(Queued(q))
<1>1. /\ n \in Nat \ {0} /\ q.first \in 0 .. n - 1 /\ q.end \in 0 .. n - 1
      /\ k \in 0 .. n - 1 /\ q.buf \in Seq(Elems)
      /\ k = IF q.end >= q.first THEN q.end - q.first ELSE (q.end - q.first) + n
  BY QueueSizes
<1>2. k \in 1 .. n - 1
  BY <1>1
<1>3. /\ r = [buf |-> q.buf, first |-> r.first, end |-> q.end]
      /\ r.first = IF q.first + 1 = n THEN 0 ELSE q.first + 1
  BY DEF QueuePop, Around, QueueType
<1> HIDE DEF r
<1>4. QueueType(r)
  <2>1. r.first \in 0 .. n - 1
    BY <1>1, <1>3
  <2> QED
    BY <1>1, <1>3, <2>1 DEF QueueType
<1>5. Queued(q) \in Seq(Elems) /\ Len(Queued(q)) = k
  BY QueueElements
<1>6. /\ rest \in Seq(Elems) /\ Len(rest) = k - 1 /\ Queued(q) # <<>>
      /\ \A i \in 1 .. k - 1 : rest[i] = Queued(q)[i + 1]
  BY <1>2, <1>5
<1>7. QueueSize(r) = k - 1
  <2>1. QueueSize(r) = IF r.end >= r.first THEN r.end - r.first ELSE (r.end - r.first) + n
    BY <1>3, <1>4, QueueSizes
  <2>2. r.end = q.end
    BY <1>3
  <2> HIDE DEF n, k
  <2> QED
    BY <1>1, <1>2, <1>3, <2>1, <2>2
<1>8. ASSUME NEW i \in 1 .. k - 1
      PROVE  QueueAt(r, i - 1) = QueueAt(q, i)
  <2>1. Slot(r, i - 1) = Slot(q, i)
    <3>1. /\ Slot(r, i - 1) = IF r.first + (i - 1) < n THEN (r.first + (i - 1)) + 1
                              ELSE ((r.first + (i - 1)) - n) + 1
          /\ Slot(q, i) = IF q.first + i < n THEN (q.first + i) + 1 ELSE ((q.first + i) - n) + 1
      BY <1>3 DEF Slot
    <3>2. i \in Nat /\ i >= 1 /\ i < n /\ n \in Nat /\ q.first \in Nat
      BY <1>1
    <3> HIDE DEF n, k
    <3>3. CASE q.first + 1 = n
      <4>0. r.first = 0
        BY <1>3, <3>3
      <4>1. r.first + (i - 1) = i - 1 /\ (q.first + i) - n = i - 1 /\ i - 1 < n /\ ~(q.first + i < n)
        BY <3>2, <3>3, <4>0
      <4> QED
        BY <3>1, <4>1
    <3>4. CASE q.first + 1 # n
      <4>1. r.first + (i - 1) = q.first + i
        BY <1>3, <3>2, <3>4
      <4> QED
        BY <3>1, <4>1
    <3> QED
      BY <3>3, <3>4
  <2>2. i \in 0 .. n - 1 /\ i - 1 \in 0 .. n - 1
    BY <1>1
  <2>3. QueueAt(q, i) = q.buf[Slot(q, i)] /\ QueueAt(r, i - 1) = r.buf[Slot(r, i - 1)]
    BY <1>3, <1>4, <2>2, QueueElements
  <2> QED
    BY <1>3, <2>1, <2>3
<1>9. Queued(r) = rest
  <2>1. Queued(r) \in Seq(Elems) /\ Len(Queued(r)) = k - 1
    BY <1>4, <1>7, QueueElements
  <2>2. ASSUME NEW i \in 1 .. k - 1
        PROVE  Queued(r)[i] = rest[i]
    <3>1. Queued(r)[i] = QueueAt(r, i - 1)
      BY <1>7 DEF Queued
    <3>2. i + 1 \in 1 .. k /\ (i + 1) - 1 = i
      BY <1>1
    <3>3. Queued(q)[i + 1] = QueueAt(q, i)
      BY <3>2 DEF Queued
    <3> QED
      BY <1>6, <1>8, <3>1, <3>3
  <2> HIDE DEF rest
  <2> QED
    BY <1>6, <2>1, <2>2, SeqEqual
<1> QED
  BY <1>4, <1>6, <1>9 DEF r

\* A queue begins empty.
LEMMA EmptyQueueType == QueueType(EmptyQueue) /\ Queued(EmptyQueue) = <<>>
<1>1. EmptyQueue = [buf |-> <<0>>, first |-> 0, end |-> 0]
  BY DEF EmptyQueue
<1>2. QueueType(EmptyQueue) /\ QueueSize(EmptyQueue) = 0
  BY <1>1 DEF QueueType, QueueSize, Elems
<1>3. Queued(EmptyQueue) \in Seq(Elems) /\ Len(Queued(EmptyQueue)) = 0
  BY <1>2, QueueElements
<1> QED
  BY <1>2, <1>3

QInv == kind = "queue" => QueueType(obj)

\* Every method does to the contents of a queue what Containers says of it.
LEMMA QueueMethods ==
    ASSUME QInv, UseQueue
    PROVE  QInv' /\ Promise!QueueStep
<1>1. kind = "queue" /\ kind' = "queue" /\ QueueType(obj)
  BY DEF UseQueue, Is, QInv
<1>2. Contents = Queued(obj) /\ Contents' = Queued(obj')
  BY <1>1 DEF Contents, Queued
<1>3. \A i \in 0 .. QueueSize(obj) - 1 : Queued(obj)[i + 1] = QueueAt(obj, i)
  <2>1. QueueSize(obj) \in Nat
    BY <1>1, QueueSizes
  <2> QED
    BY <2>1 DEF Queued
<1> USE DEF Promise!Of, Promise!Called, Promise!Kept, Returns
<1>4. CASE InsertElem
  <2>1. PICK x \in Data : obj' = QueueInsert(obj, x) /\ Returns("insert", x, None)
    BY <1>4 DEF InsertElem
  <2>2. QueueType(obj') /\ Queued(obj') = Append(Queued(obj), x)
    BY <1>1, <1>4, <2>1, InsertAppends DEF InsertElem
  <2> QED
    BY <1>1, <1>2, <2>1, <2>2 DEF QInv, Promise!QueueStep
<1>5. CASE PopElem
  <2>1. QueueType(obj') /\ Queued(obj') = Tail(Queued(obj)) /\ ret'.op = "pop"
    BY <1>1, <1>5, PopTakesFirst DEF PopElem
  <2> QED
    BY <1>1, <1>2, <2>1 DEF QInv, Promise!QueueStep
<1>6. CASE PeekElem
  <2>1. obj' = obj /\ ret'.op = "peek" /\ ret'.val = Peek(obj) /\ obj.first # obj.end
    BY <1>6 DEF PeekElem
  <2>2. QueueSize(obj) # 0 /\ QueueSize(obj) \in Nat
    BY <1>1, <2>1, QueueSizes
  <2>3. Queued(obj) \in Seq(Elems) /\ Len(Queued(obj)) # 0 /\ Head(Queued(obj)) = Queued(obj)[1]
    BY <1>1, <2>2, QueueElements
  <2>4. Queued(obj)[1] = QueueAt(obj, 0)
    BY <1>3, <2>2
  <2>5. QueueAt(obj, 0) = Peek(obj)
    <3>1. QueueAt(obj, 0) = obj.buf[Slot(obj, 0)] /\ Slot(obj, 0) = obj.first + 1
      BY <1>1, QueueSizes, QueueElements DEF Slot
    <3> QED
      BY <3>1 DEF Peek, At
  <2>6. ret'.val = Head(Queued(obj)) /\ Queued(obj') = Queued(obj)
    BY <2>1, <2>3, <2>4, <2>5
  <2> QED
    BY <1>1, <1>2, <2>1, <2>6 DEF QInv, Promise!QueueStep
<1>7. CASE ElemAt
  <2>1. PICK i \in 0 .. QueueSize(obj) - 1 :
          obj' = obj /\ ret'.op = "at" /\ ret'.arg = i /\ ret'.val = QueueAt(obj, i)
    BY <1>7 DEF ElemAt
  <2>2. ret'.val = Queued(obj)[ret'.arg + 1] /\ Queued(obj') = Queued(obj)
    BY <1>3, <2>1
  <2> QED
    BY <1>1, <1>2, <2>1, <2>2 DEF QInv, Promise!QueueStep
<1>8. CASE ClearQueue
  <2>1. obj' = EmptyQueue /\ ret'.op = "clear"
    BY <1>8 DEF ClearQueue, QueueClear, EmptyQueue
  <2> QED
    BY <1>1, <1>2, <2>1, EmptyQueueType DEF QInv, Promise!QueueStep
<1> QED
  BY <1>4, <1>5, <1>6, <1>7, <1>8 DEF UseQueue

\* A client begins with no queue.
LEMMA QueueInit == Init => QInv
BY DEF Init, QInv

\* Every step keeps a queue one.
LEMMA QueueNext ==
    ASSUME QInv, [Next]_vars
    PROVE  QInv'
<1>1. CASE New
  BY <1>1, EmptyQueueType DEF New, Empty, QInv
<1>2. CASE UseQueue
  BY <1>2, QueueMethods
<1>3. CASE UseHeap \/ UseMap \/ UseSet \/ UseVec \/ UseRegion
  BY <1>3 DEF UseHeap, UseMap, UseSet, UseVec, UseRegion, Is, QInv
<1>4. CASE UNCHANGED vars
  BY <1>4 DEF vars, QInv
<1> QED
  BY <1>1, <1>2, <1>3, <1>4 DEF Next

(* A queue never fills its buffer, so first = end always says that it is empty *)
(* (Queue.h:49), as long as the length of a new buffer fits an int.            *)
THEOREM QueueKeepsFreeSlot == Spec => [](kind = "queue" => QueueOK)
<1>1. QInv => (kind = "queue" => QueueOK)
  BY QueueSizes DEF QInv, QueueOK, QueueType
<1> QED
  BY <1>1, QueueInit, QueueNext, PTL DEF Spec

QueueCalled == kind = "queue" /\ kind' = "queue"
QueueStarts == kind = "queue" /\ Contents = <<>> /\ ret.op = "new"

(* While a queue is used, its calls are those of the sequence in Containers:   *)
(* it keeps the order of its elements over the end of its buffer and through   *)
(* every resize (Queue.h:52-61).                                               *)
THEOREM QueueImplementsSequence ==
    Spec => [][QueueCalled => Promise!QueueStep \/ QueueStarts']_vars
<1>1. ASSUME QInv, [Next]_vars
      PROVE  [QueueCalled => Promise!QueueStep \/ QueueStarts']_vars
  <2>1. CASE UseQueue
    <3>1. Promise!QueueStep
      BY <1>1, <2>1, QueueMethods
    <3> QED
      BY <3>1
  <2>2. CASE New
    <3> SUFFICES ASSUME QueueCalled PROVE QueueStarts'
      OBVIOUS
    <3>1. obj' = EmptyQueue /\ kind' = "queue" /\ ret'.op = "new"
      BY <2>2 DEF New, Empty, QueueCalled, Returns
    <3>2. Contents' = Queued(obj')
      BY <3>1 DEF Contents, Queued
    <3> QED
      BY <3>1, <3>2, EmptyQueueType DEF QueueStarts
  <2>3. CASE UseHeap \/ UseMap \/ UseSet \/ UseVec \/ UseRegion
    BY <2>3 DEF UseHeap, UseMap, UseSet, UseVec, UseRegion, Is, QueueCalled
  <2> QED
    BY <1>1, <2>1, <2>2, <2>3 DEF Next
<1> QED
  BY <1>1, QueueInit, QueueNext, PTL DEF Spec

-------------------------------------------------------------------------------
(* Integer sets.                                                               *)

Members(s) == Range(s.xs)

\* What SetOK says of a set, and that no member lies beyond the flags: the flags a
\* longer map adds are those of keys that are no members.
SetRep(s) ==
    /\ s \in [flags : Seq(BOOLEAN), xs : Seq(Nat)]
    /\ \A x \in Members(s) : x < Len(s.flags)
    /\ \A i \in DOMAIN s.flags : s.flags[i] <=> i - 1 \in Members(s)
    /\ \A i, j \in DOMAIN s.xs : s.xs[i] = s.xs[j] => i = j

\* An integer set begins empty.
LEMMA EmptySetRep == SetRep(EmptySet) /\ Members(EmptySet) = {}
<1>1. EmptySet = [flags |-> <<>>, xs |-> <<>>]
  BY DEF EmptySet
<1>2. Members(EmptySet) = {}
  BY <1>1 DEF Members, Range
<1> QED
  BY <1>1, <1>2 DEF SetRep

\* A longer map has the flag of the key, and the same members.
LEMMA TouchKeepsRep ==
    ASSUME NEW s, SetRep(s), NEW k \in Nat
    PROVE  /\ SetRep(Touch(s, k)) /\ Touch(s, k).xs = s.xs
           /\ k < Len(Touch(s, k).flags)
           /\ SetHas(Touch(s, k), k) <=> k \in Members(s)
<1> DEFINE m == Larger(Len(s.flags), k + 1)
           f == Reserve(s.flags, k, FALSE)
           t == Touch(s, k)
<1>1. s.flags \in Seq(BOOLEAN) /\ s.xs \in Seq(Nat) /\ Len(s.flags) \in Nat
  BY DEF SetRep
<1>2. m \in Nat /\ m >= Len(s.flags) /\ m >= k + 1
  BY <1>1 DEF Larger
<1>3. f = [i \in 1 .. m |-> IF i <= Len(s.flags) THEN s.flags[i] ELSE FALSE]
  BY DEF Reserve
<1>4. t = [flags |-> f, xs |-> s.xs]
  <2> HIDE DEF f
  <2>1. s = [flags |-> s.flags, xs |-> s.xs]
    BY DEF SetRep
  <2>2. t = [s EXCEPT !.flags = f]
    BY DEF Touch, f
  <2> QED
    BY <2>1, <2>2
<1> HIDE DEF m, f, t
<1>5. f \in Seq(BOOLEAN) /\ Len(f) = m /\ DOMAIN f = 1 .. m
  <2>1. \A i \in 1 .. m : i <= Len(s.flags) => s.flags[i] \in BOOLEAN
    BY <1>1
  <2>2. f \in [1 .. m -> BOOLEAN]
    BY <1>3, <2>1
  <2> QED
    BY <1>2, <2>2
<1>6. Members(t) = Members(s)
  BY <1>4 DEF Members
<1>7. \A x \in Members(t) : x < Len(t.flags)
  <2> TAKE x \in Members(t)
  <2>1. x < Len(s.flags) /\ x \in Nat
    <3>1. x \in Members(s)
      BY <1>6
    <3>2. x \in Nat
      BY <1>1, <3>1 DEF Members, Range
    <3> QED
      BY <3>1, <3>2 DEF SetRep
  <2> QED
    BY <1>1, <1>2, <1>4, <1>5, <2>1
<1>8. ASSUME NEW i \in DOMAIN t.flags
      PROVE  t.flags[i] <=> i - 1 \in Members(t)
  <2>1. i \in 1 .. m /\ t.flags[i] = IF i <= Len(s.flags) THEN s.flags[i] ELSE FALSE
    BY <1>3, <1>4, <1>5
  <2>2. CASE i <= Len(s.flags)
    <3>1. i \in DOMAIN s.flags
      BY <1>1, <2>1, <2>2
    <3>2. s.flags[i] <=> i - 1 \in Members(s)
      BY <3>1 DEF SetRep
    <3> QED
      BY <1>6, <2>1, <2>2, <3>2
  <2>3. CASE ~ (i <= Len(s.flags))
    <3>1. ~ (i - 1 < Len(s.flags))
      BY <1>1, <2>1, <2>3
    <3>2. i - 1 \notin Members(s)
      BY <3>1 DEF SetRep
    <3> QED
      BY <1>6, <2>1, <2>3, <3>2
  <2> QED
    BY <2>2, <2>3
<1>9. SetRep(t)
  <2>1. t \in [flags : Seq(BOOLEAN), xs : Seq(Nat)] /\ t.xs = s.xs
    BY <1>1, <1>4, <1>5
  <2> QED
    BY <1>7, <1>8, <2>1 DEF SetRep
<1>10. k + 1 \in DOMAIN t.flags /\ (k + 1) - 1 = k /\ k < Len(t.flags)
  BY <1>2, <1>4, <1>5
<1>11. SetHas(t, k) <=> k \in Members(s)
  BY <1>6, <1>8, <1>10 DEF SetHas, At
<1> QED
  BY <1>4, <1>9, <1>10, <1>11 DEF t

\* insert() adds a key, unless it is there, to both.
LEMMA SetInsertAdds ==
    ASSUME NEW s, SetRep(s), NEW k \in Nat
    PROVE  SetRep(SetInsert(s, k)) /\ Members(SetInsert(s, k)) = Members(s) \cup {k}
<1> DEFINE t == Touch(s, k)
           r == SetInsert(s, k)
<1>1. SetRep(t) /\ t.xs = s.xs /\ k < Len(t.flags) /\ (SetHas(t, k) <=> k \in Members(s))
  BY TouchKeepsRep
<1>2. r = IF SetHas(t, k) THEN t ELSE [flags |-> Put(t.flags, k, TRUE), xs |-> Append(t.xs, k)]
  BY DEF SetInsert
<1>3. Members(t) = Members(s)
  BY <1>1 DEF Members
<1> HIDE DEF t, r
<1>4. CASE SetHas(t, k)
  BY <1>1, <1>2, <1>3, <1>4 DEF r
<1>5. CASE ~SetHas(t, k)
  <2> DEFINE n == Len(t.xs)
  <2>1. t.flags \in Seq(BOOLEAN) /\ t.xs \in Seq(Nat) /\ Len(t.flags) \in Nat /\ n \in Nat
    BY <1>1 DEF SetRep
  <2>2. /\ r.flags = [t.flags EXCEPT ![k + 1] = TRUE] /\ r.xs = Append(t.xs, k)
        /\ r = [flags |-> r.flags, xs |-> r.xs]
    BY <1>2, <1>5 DEF Put
  <2>3. /\ r.flags \in Seq(BOOLEAN) /\ Len(r.flags) = Len(t.flags)
        /\ DOMAIN r.flags = DOMAIN t.flags
        /\ \A i \in DOMAIN t.flags : r.flags[i] <=> (i = k + 1 \/ t.flags[i])
    BY <1>1, <2>1, <2>2
  <2>4. /\ r.xs \in Seq(Nat) /\ DOMAIN r.xs = 1 .. n + 1 /\ DOMAIN t.xs = 1 .. n
        /\ r.xs[n + 1] = k /\ \A i \in 1 .. n : r.xs[i] = t.xs[i]
    BY <2>1, <2>2
  <2>5. Members(r) = Members(t) \cup {k}
    <3> HIDE DEF n
    <3>1. \A i \in 1 .. n + 1 : i = n + 1 \/ i \in 1 .. n
      BY <2>1
    <3>2. n + 1 \in 1 .. n + 1 /\ \A i \in 1 .. n : i \in 1 .. n + 1
      BY <2>1
    <3> QED
      BY <2>4, <3>1, <3>2 DEF Members, Range
  <2>6. \A x \in Members(r) : x < Len(r.flags)
    BY <1>1, <2>3, <2>5 DEF SetRep
  <2>7. ASSUME NEW i \in DOMAIN r.flags
        PROVE  r.flags[i] <=> i - 1 \in Members(r)
    <3>1. i \in Nat /\ (i = k + 1 <=> i - 1 = k)
      BY <2>1, <2>3
    <3>2. t.flags[i] <=> i - 1 \in Members(t)
      BY <1>1, <2>3 DEF SetRep
    <3> QED
      BY <2>3, <2>5, <3>1, <3>2
  <2>8. ASSUME NEW i \in DOMAIN r.xs, NEW j \in DOMAIN r.xs, r.xs[i] = r.xs[j]
        PROVE  i = j
    <3>1. k \notin Members(t)
      BY <1>1, <1>3, <1>5
    <3>2. \A m \in 1 .. n : t.xs[m] # k
      BY <2>4, <3>1 DEF Members, Range
    <3>3. \A a, b \in 1 .. n : t.xs[a] = t.xs[b] => a = b
      BY <1>1, <2>4 DEF SetRep
    <3> HIDE DEF n
    <3>4. /\ i = n + 1 \/ i \in 1 .. n
          /\ j = n + 1 \/ j \in 1 .. n
      BY <2>1, <2>4
    <3> QED
      BY <2>4, <2>8, <3>2, <3>3, <3>4
  <2>9. SetRep(r)
    <3>1. r \in [flags : Seq(BOOLEAN), xs : Seq(Nat)]
      BY <2>2, <2>3, <2>4
    <3> QED
      BY <2>6, <2>7, <2>8, <3>1 DEF SetRep
  <2> QED
    BY <1>3, <2>5, <2>9 DEF r
<1> QED
  BY <1>4, <1>5 DEF r

\* clear() only has to look at the members: every flag that is set is one of theirs.
LEMMA SetClearEmpties ==
    ASSUME NEW s, SetRep(s), NEW free \in BOOLEAN
    PROVE  SetRep(SetClear(s, free)) /\ Members(SetClear(s, free)) = {}
<1> DEFINE r == SetClear(s, free)
<1>1. r = [flags |-> r.flags, xs |-> <<>>]
  BY DEF SetClear
<1>2. Members(r) = {}
  BY <1>1 DEF Members, Range
<1>3. /\ r.flags \in Seq(BOOLEAN)
      /\ \A i \in DOMAIN r.flags : r.flags[i] = FALSE
  <2>1. CASE free
    BY <2>1 DEF SetClear
  <2>2. CASE ~free
    <3>1. s.flags \in Seq(BOOLEAN) /\ Len(s.flags) \in Nat /\ DOMAIN s.flags = 1 .. Len(s.flags)
      BY DEF SetRep
    <3>2. r.flags = [i \in DOMAIN s.flags |-> s.flags[i] /\ ~Find(s.xs, i - 1)]
      BY <2>2 DEF SetClear
    <3>3. \A i \in DOMAIN s.flags : (s.flags[i] /\ ~Find(s.xs, i - 1)) = FALSE
      <4> TAKE i \in DOMAIN s.flags
      <4>1. s.flags[i] <=> i - 1 \in Members(s)
        BY DEF SetRep
      <4>2. i - 1 \in Members(s) => Find(s.xs, i - 1)
        BY DEF Members, Range, Find
      <4> QED
        BY <4>1, <4>2
    <3>4. r.flags = [i \in 1 .. Len(s.flags) |-> FALSE]
      BY <3>1, <3>2, <3>3
    <3> QED
      BY <3>1, <3>4
  <2> QED
    BY <2>1, <2>2
<1> HIDE DEF r
<1>4. \A i \in DOMAIN r.flags : r.flags[i] <=> i - 1 \in Members(r)
  BY <1>2, <1>3
<1>5. r \in [flags : Seq(BOOLEAN), xs : Seq(Nat)] /\ r.xs = <<>>
  <2>1. r.xs = <<>> /\ <<>> \in Seq(Nat)
    BY <1>1
  <2> QED
    BY <1>1, <1>3, <2>1
<1> QED
  BY <1>2, <1>4, <1>5 DEF SetRep, r

SInv == kind = "set" => SetRep(obj)

\* Every method does to the members of a set what Containers says of it.
LEMMA SetMethods ==
    ASSUME SInv, UseSet
    PROVE  SInv' /\ Promise!SetStep
<1>1. kind = "set" /\ kind' = "set" /\ SetRep(obj)
  BY DEF UseSet, Is, SInv
<1>2. Contents = Members(obj) /\ Contents' = Members(obj')
  BY <1>1 DEF Contents, Members
<1>3. Keys \subseteq Nat
  BY SizesAssumption
<1> USE DEF Promise!Of, Promise!Called, Promise!Kept, Returns
<1>4. CASE InsertMember
  <2>1. PICK k \in Keys : obj' = SetInsert(obj, k) /\ ret'.op = "insert" /\ ret'.arg = k
    BY <1>4 DEF InsertMember
  <2>2. SetRep(obj') /\ Members(obj') = Members(obj) \cup {k}
    BY <1>1, <1>3, <2>1, SetInsertAdds
  <2> QED
    BY <1>1, <1>2, <2>1, <2>2 DEF SInv, Promise!SetStep
<1>5. CASE HasMember
  <2>1. PICK k \in Keys : /\ obj' = Touch(obj, k) /\ ret'.op = "has" /\ ret'.arg = k
                          /\ ret'.val = SetHas(Touch(obj, k), k)
    BY <1>5 DEF HasMember
  <2>2. SetRep(obj') /\ obj'.xs = obj.xs /\ (SetHas(obj', k) <=> k \in Members(obj))
    BY <1>1, <1>3, <2>1, TouchKeepsRep
  <2>3. k + 1 \in DOMAIN obj'.flags /\ SetHas(obj', k) \in BOOLEAN
    <3>1. k < Len(obj'.flags) /\ k \in Nat
      BY <1>1, <1>3, <2>1, TouchKeepsRep
    <3>2. obj'.flags \in Seq(BOOLEAN) /\ Len(obj'.flags) \in Nat
      BY <2>2 DEF SetRep
    <3>3. k + 1 \in 1 .. Len(obj'.flags)
      BY <3>1, <3>2
    <3> QED
      BY <3>2, <3>3 DEF SetHas, At
  <2>4. ret'.val = (ret'.arg \in Members(obj)) /\ Members(obj') = Members(obj)
    BY <2>1, <2>2, <2>3 DEF Members
  <2> QED
    BY <1>1, <1>2, <2>1, <2>2, <2>4 DEF SInv, Promise!SetStep
<1>6. CASE ClearMembers
  <2>1. PICK free \in BOOLEAN : obj' = SetClear(obj, free) /\ ret'.op = "clear"
    BY <1>6 DEF ClearMembers
  <2>2. SetRep(obj') /\ Members(obj') = {}
    BY <1>1, <2>1, SetClearEmpties
  <2> QED
    BY <1>1, <1>2, <2>1, <2>2 DEF SInv, Promise!SetStep
<1> QED
  BY <1>4, <1>5, <1>6 DEF UseSet

\* A client begins with no integer set.
LEMMA SetInit == Init => SInv
BY DEF Init, SInv

\* Every step keeps an integer set one.
LEMMA SetNext ==
    ASSUME SInv, [Next]_vars
    PROVE  SInv'
<1>1. CASE New
  BY <1>1, EmptySetRep DEF New, Empty, SInv
<1>2. CASE UseSet
  BY <1>2, SetMethods
<1>3. CASE UseHeap \/ UseMap \/ UseQueue \/ UseVec \/ UseRegion
  BY <1>3 DEF UseHeap, UseMap, UseQueue, UseVec, UseRegion, Is, SInv
<1>4. CASE UNCHANGED vars
  BY <1>4 DEF vars, SInv
<1> QED
  BY <1>1, <1>2, <1>3, <1>4 DEF Next

(* The flags of an integer set say of a key whether the vector has it, and the *)
(* vector has it once (IntMap.h:67-85), for every set of keys.                *)
THEOREM SetFlagsMatch == Spec => [](kind = "set" => SetOK)
<1>1. ASSUME SInv, kind = "set"
      PROVE  SetOK
  <2>1. SetRep(obj)
    BY <1>1 DEF SInv
  <2>2. ASSUME NEW i \in DOMAIN obj.flags
        PROVE  obj.flags[i] = Find(obj.xs, i - 1)
    <3>1. obj.flags[i] \in BOOLEAN
      BY <2>1 DEF SetRep
    <3>2. obj.flags[i] <=> i - 1 \in Members(obj)
      BY <2>1 DEF SetRep
    <3>3. i - 1 \in Members(obj) <=> Find(obj.xs, i - 1)
      BY DEF Members, Range, Find
    <3>4. Find(obj.xs, i - 1) \in BOOLEAN
      BY DEF Find
    <3> QED
      BY <3>1, <3>2, <3>3, <3>4
  <2> QED
    BY <2>1, <2>2 DEF SetOK, SetRep
<1> QED
  BY <1>1, SetInit, SetNext, PTL DEF Spec

SetCalled == kind = "set" /\ kind' = "set"
SetStarts == kind = "set" /\ Contents = {} /\ ret.op = "new"

(* While an integer set is used, its calls are those of the set in Containers: *)
(* has() is asked about keys beyond the map, and clear() resets the flags of   *)
(* the members only.                                                           *)
THEOREM SetImplementsSet == Spec => [][SetCalled => Promise!SetStep \/ SetStarts']_vars
<1>1. ASSUME SInv, [Next]_vars
      PROVE  [SetCalled => Promise!SetStep \/ SetStarts']_vars
  <2>1. CASE UseSet
    <3>1. Promise!SetStep
      BY <1>1, <2>1, SetMethods
    <3> QED
      BY <3>1
  <2>2. CASE New
    <3> SUFFICES ASSUME SetCalled PROVE SetStarts'
      OBVIOUS
    <3>1. obj' = EmptySet /\ kind' = "set" /\ ret'.op = "new"
      BY <2>2 DEF New, Empty, SetCalled, Returns
    <3>2. Contents' = Members(obj')
      BY <3>1 DEF Contents, Members
    <3> QED
      BY <3>1, <3>2, EmptySetRep DEF SetStarts
  <2>3. CASE UseHeap \/ UseMap \/ UseQueue \/ UseVec \/ UseRegion
    BY <2>3 DEF UseHeap, UseMap, UseQueue, UseVec, UseRegion, Is, SetCalled
  <2> QED
    BY <1>1, <2>1, <2>2, <2>3 DEF Next
<1> QED
  BY <1>1, SetInit, SetNext, PTL DEF Spec

-------------------------------------------------------------------------------
(* Heaps.  A heap at work has a hole, and a key k that will fill it at last:   *)
(* every lemma about a round speaks of the heap as if the hole were filled.    *)

\* Heaps of n keys with positions for m, and such a heap with a hole at i.
HeapBox(n, m) == [heap : [1 .. n -> Keys], indices : [1 .. m -> Int]]
HoleBox(n, m) == [h : HeapBox(n, m), i : 0 .. n - 1]

\* The heap with its hole filled.
Filled(x, k) == Place(x.h, x.i, k)

\* The positions are those of the keys, and only of them.
Positions(h) ==
    /\ \A i \in DOMAIN h.heap :
          h.heap[i] + 1 \in DOMAIN h.indices /\ h.indices[h.heap[i] + 1] = i - 1
    /\ \A j \in DOMAIN h.indices :
          h.indices[j] >= 0 =>
             h.indices[j] + 1 \in DOMAIN h.heap /\ h.heap[h.indices[j] + 1] = j - 1

\* Keys index the positions.
LEMMA KeysAreNumbers == Keys \subseteq Nat
BY SizesAssumption

\* s and t differ by the exchange of their elements i and j.
Exchanged(s, t, i, j) ==
    /\ t[i] = s[j] /\ t[j] = s[i]
    /\ \A l \in DOMAIN s : l # i /\ l # j => t[l] = s[l]

\* Place() keeps the types.
LEMMA PlaceMeans ==
    ASSUME NEW n \in Nat, NEW m \in Nat, NEW h \in HeapBox(n, m), NEW i \in 0 .. n - 1,
           NEW k \in Keys
    PROVE  Place(h, i, k) \in HeapBox(n, m)
<1>1. h.heap \in [1 .. n -> Keys] /\ h.indices \in [1 .. m -> Int]
  BY DEF HeapBox
<1>2. [h.heap EXCEPT ![i + 1] = k] \in [1 .. n -> Keys]
  BY <1>1
<1>3. [h.indices EXCEPT ![k + 1] = i] \in [1 .. m -> Int]
  <2> DEFINE f == h.indices
             c == k + 1
  <2>1. i \in Int /\ f \in [1 .. m -> Int]
    BY <1>1
  <2> HIDE DEF f, c
  <2>2. [f EXCEPT ![c] = i] \in [1 .. m -> Int]
    BY <2>1
  <2> QED
    BY <2>2 DEF f, c
<1> QED
  BY <1>2, <1>3 DEF Place, Put, HeapBox

\* Moving the hole to j and the key there into the hole exchanges the two.
LEMMA HoleMoves ==
    ASSUME NEW n \in Nat, NEW m \in Nat, NEW x \in HoleBox(n, m), NEW k \in Keys, k + 1 \in 1 .. m,
           Positions(Filled(x, k)), NEW j \in 0 .. n - 1, j # x.i
    PROVE  LET v == Filled(x, k)
               y == [h |-> Place(x.h, x.i, At(x.h.heap, j)), i |-> j]
               w == Filled(y, k)
           IN  /\ At(x.h.heap, j) = v.heap[j + 1] /\ v.heap[x.i + 1] = k
               /\ y \in HoleBox(n, m) /\ w \in HeapBox(n, m) /\ Positions(w)
               /\ Exchanged(v.heap, w.heap, x.i + 1, j + 1)
<1> DEFINE v == Filled(x, k)
           i == x.i
           a == At(x.h.heap, j)
           y == [h |-> Place(x.h, i, a), i |-> j]
           w == Filled(y, k)
<1>1. x.h \in HeapBox(n, m) /\ i \in 0 .. n - 1 /\ x.h.heap \in [1 .. n -> Keys]
      /\ x.h.indices \in [1 .. m -> Int]
  BY DEF HoleBox, HeapBox
<1>2. /\ v \in HeapBox(n, m) /\ v.heap = [x.h.heap EXCEPT ![i + 1] = k]
      /\ v.indices = [x.h.indices EXCEPT ![k + 1] = i]
  <2>1. v \in HeapBox(n, m)
    BY <1>1, PlaceMeans DEF Filled
  <2> QED
    BY <2>1 DEF Filled, Place, Put
<1> HIDE DEF i, v
<1>3. /\ DOMAIN v.heap = 1 .. n /\ DOMAIN v.indices = 1 .. m
      /\ v.heap \in [1 .. n -> Keys] /\ v.indices \in [1 .. m -> Int]
  BY <1>2 DEF HeapBox
<1>4. i + 1 \in 1 .. n /\ j + 1 \in 1 .. n /\ i + 1 # j + 1 /\ i \in Int /\ j \in Int
  BY <1>1 DEF i
<1>5. /\ v.heap[i + 1] = k /\ v.heap[j + 1] = a /\ a \in Keys
      /\ \A l \in 1 .. n : l # i + 1 => v.heap[l] = x.h.heap[l]
      /\ \A l \in 1 .. m : l # k + 1 => v.indices[l] = x.h.indices[l]
  BY <1>1, <1>2, <1>4 DEF At
<1> HIDE DEF a
<1>6. /\ \A l \in 1 .. n : v.heap[l] + 1 \in 1 .. m /\ v.indices[v.heap[l] + 1] = l - 1
      /\ \A l \in 1 .. m : v.indices[l] >= 0 =>
             v.indices[l] + 1 \in 1 .. n /\ v.heap[v.indices[l] + 1] = l - 1
  BY <1>3 DEF Positions, v
<1>7. a + 1 \in 1 .. m /\ a # k /\ a \in Nat /\ k \in Nat
  BY <1>4, <1>5, <1>6, KeysAreNumbers
<1>8. /\ y.h \in HeapBox(n, m) /\ y.i = j /\ y \in HoleBox(n, m)
      /\ y.h.heap = [x.h.heap EXCEPT ![i + 1] = a]
      /\ y.h.indices = [x.h.indices EXCEPT ![a + 1] = i]
  <2>1. /\ Place(x.h, i, a) \in HeapBox(n, m)
        /\ Place(x.h, i, a).heap = [x.h.heap EXCEPT ![i + 1] = a]
        /\ Place(x.h, i, a).indices = [x.h.indices EXCEPT ![a + 1] = i]
    <3>1. Place(x.h, i, a) \in HeapBox(n, m)
      BY <1>1, <1>5, PlaceMeans
    <3> QED
      BY <3>1 DEF Place, Put
  <2> QED
    BY <2>1 DEF HoleBox
<1> HIDE DEF y
<1>9. /\ w \in HeapBox(n, m) /\ w.heap = [y.h.heap EXCEPT ![j + 1] = k]
      /\ w.indices = [y.h.indices EXCEPT ![k + 1] = j]
  <2>1. w \in HeapBox(n, m)
    BY <1>8, PlaceMeans DEF Filled
  <2> QED
    BY <1>8, <2>1 DEF Filled, Place, Put
<1> HIDE DEF w
<1>10. /\ DOMAIN w.heap = 1 .. n /\ DOMAIN w.indices = 1 .. m
       /\ w.heap[i + 1] = a /\ w.heap[j + 1] = k
       /\ \A l \in 1 .. n : l # i + 1 /\ l # j + 1 => w.heap[l] = v.heap[l]
       /\ w.indices[a + 1] = i /\ w.indices[k + 1] = j
       /\ \A l \in 1 .. m : l # a + 1 /\ l # k + 1 => w.indices[l] = v.indices[l]
  <2>1. w.heap[i + 1] = a /\ w.heap[j + 1] = k
    BY <1>1, <1>4, <1>8, <1>9
  <2>2. \A l \in 1 .. n : l # i + 1 /\ l # j + 1 => w.heap[l] = v.heap[l]
    BY <1>1, <1>4, <1>5, <1>8, <1>9
  <2>3. w.indices[a + 1] = i /\ w.indices[k + 1] = j
    BY <1>1, <1>7, <1>8, <1>9
  <2>4. \A l \in 1 .. m : l # a + 1 /\ l # k + 1 => w.indices[l] = v.indices[l]
    <3>1. \A l \in 1 .. m : l # k + 1 => w.indices[l] = y.h.indices[l]
      BY <1>1, <1>8, <1>9
    <3>2. \A l \in 1 .. m : l # a + 1 => y.h.indices[l] = x.h.indices[l]
      BY <1>1, <1>8
    <3> QED
      BY <1>5, <3>1, <3>2
  <2>5. DOMAIN w.heap = 1 .. n /\ DOMAIN w.indices = 1 .. m
    BY <1>9 DEF HeapBox
  <2> QED
    BY <2>1, <2>2, <2>3, <2>4, <2>5
<1>11. Exchanged(v.heap, w.heap, i + 1, j + 1)
  BY <1>3, <1>5, <1>10 DEF Exchanged
<1>12. ASSUME NEW l \in 1 .. n
       PROVE  w.heap[l] + 1 \in 1 .. m /\ w.indices[w.heap[l] + 1] = l - 1
  <2>1. CASE l = i + 1
    BY <1>4, <1>7, <1>10, <2>1
  <2>2. CASE l = j + 1
    BY <1>4, <1>10, <2>2
  <2>3. CASE l # i + 1 /\ l # j + 1
    <3> DEFINE b == v.heap[l]
    <3>1. b \in Nat /\ b + 1 \in 1 .. m /\ v.indices[b + 1] = l - 1
      BY <1>3, <1>6, KeysAreNumbers
    <3>2. b # a /\ b # k
      <4>1. v.indices[a + 1] = (j + 1) - 1 /\ v.indices[k + 1] = (i + 1) - 1
        BY <1>4, <1>5, <1>6
      <4> HIDE DEF b
      <4> QED
        BY <1>4, <2>3, <3>1, <4>1
    <3>3. w.heap[l] = b
      BY <1>10, <2>3
    <3> HIDE DEF b
    <3>4. b + 1 # a + 1 /\ b + 1 # k + 1
      BY <1>7, <3>1, <3>2
    <3> QED
      BY <1>10, <3>1, <3>3, <3>4
  <2> QED
    BY <2>1, <2>2, <2>3
<1>13. ASSUME NEW l \in 1 .. m, w.indices[l] >= 0
       PROVE  w.indices[l] + 1 \in 1 .. n /\ w.heap[w.indices[l] + 1] = l - 1
  <2>1. CASE l = a + 1
    BY <1>4, <1>7, <1>10, <2>1
  <2>2. CASE l = k + 1
    BY <1>4, <1>7, <1>10, <2>2
  <2>3. CASE l # a + 1 /\ l # k + 1
    <3> DEFINE q == v.indices[l]
    <3>1. w.indices[l] = q /\ q \in Int
      BY <1>3, <1>10, <2>3
    <3>2. q + 1 \in 1 .. n /\ v.heap[q + 1] = l - 1
      BY <1>6, <1>13, <3>1
    <3> HIDE DEF q
    <3>3. q + 1 # i + 1 /\ q + 1 # j + 1
      BY <1>5, <1>7, <2>3, <3>2
    <3> QED
      BY <1>10, <3>1, <3>2, <3>3
  <2> QED
    BY <2>1, <2>2, <2>3
<1>14. Positions(w)
  BY <1>10, <1>12, <1>13 DEF Positions
<1> QED
  BY <1>5, <1>8, <1>9, <1>11, <1>14 DEF v, i, a, y, w

-------------------------------------------------------------------------------
(* Order.                                                                      *)

\* The comparison of a heap whose keys have priorities pr.
LessBy(pr) == {p \in Keys \X Keys : pr[p[1]] < pr[p[2]]}

\* Every child whose parent is at lo or below it in the array is at least its parent.
Ordered(s, pr, lo) ==
    \A i \in DOMAIN s : i > 1 /\ i \div 2 >= lo => pr[s[i \div 2]] <= pr[s[i]]

\* The key at j may be less than its parent, but its children are not.
OrderedAbove(s, pr, j) ==
    /\ \A i \in DOMAIN s : i > 1 /\ i # j => pr[s[i \div 2]] <= pr[s[i]]
    /\ \A i \in DOMAIN s : i > 1 /\ i \div 2 = j /\ j > 1 => pr[s[j \div 2]] <= pr[s[i]]

\* The key at j may be greater than its children, but its parent is not.
OrderedBelow(s, pr, lo, j) ==
    /\ \A i \in DOMAIN s : i > 1 /\ i \div 2 >= lo /\ i \div 2 # j => pr[s[i \div 2]] <= pr[s[i]]
    /\ \A i \in DOMAIN s : i > 1 /\ i \div 2 = j /\ j > 1 /\ j \div 2 >= lo =>
          pr[s[j \div 2]] <= pr[s[i]]

\* A child at i, counted from 1, has its parent at i \div 2.
LEMMA Halves ==
    ASSUME NEW i \in Nat, i > 1
    PROVE  /\ i \div 2 \in Nat /\ i \div 2 >= 1 /\ i \div 2 < i
           /\ (i - 2) \div 2 + 1 = i \div 2
           /\ \A j \in Nat : i \div 2 = j <=> i = 2 * j \/ i = 2 * j + 1
OBVIOUS

\* The same, counted from 0 as the code does.
LEMMA ParentPosition ==
    ASSUME NEW i \in Nat, i # 0
    PROVE  (i - 1) \div 2 \in Nat /\ (i - 1) \div 2 < i /\ (i - 1) \div 2 + 1 = (i + 1) \div 2
OBVIOUS

\* A key less than its parent changes places with it.
LEMMA UpStep ==
    ASSUME NEW n \in Nat, NEW pr \in [Keys -> Nat], NEW s \in [1 .. n -> Keys],
           NEW t \in [1 .. n -> Keys], NEW j \in 1 .. n, j > 1,
           OrderedAbove(s, pr, j), pr[s[j]] < pr[s[j \div 2]], Exchanged(s, t, j, j \div 2)
    PROVE  OrderedAbove(t, pr, j \div 2)
<1> DEFINE p == j \div 2
           a(i) == pr[s[i]]
           b(i) == pr[t[i]]
<1>1. p \in 1 .. n /\ p < j
  BY Halves
<1> HIDE DEF p
<1>2. /\ \A i \in 1 .. n : a(i) \in Nat /\ b(i) \in Nat
      /\ b(j) = a(p) /\ b(p) = a(j) /\ a(j) < a(p)
      /\ \A i \in 1 .. n : i # j /\ i # p => b(i) = a(i)
      /\ \A i \in 1 .. n : i > 1 => i \div 2 \in 1 .. n /\ i \div 2 < i
      /\ \A i \in 1 .. n : i > 1 /\ i # j => a(i \div 2) <= a(i)
      /\ \A i \in 1 .. n : i > 1 /\ i \div 2 = j => a(p) <= a(i)
  <2>1. \A i \in 1 .. n : i > 1 => i \div 2 \in 1 .. n /\ i \div 2 < i
    BY Halves
  <2> QED
    BY <1>1, <2>1 DEF Exchanged, OrderedAbove, p
<1> HIDE DEF a, b
<1>3. ASSUME NEW i \in 1 .. n, i > 1, i # p
      PROVE  b(i \div 2) <= b(i)
  <2>1. CASE i = j
    BY <1>1, <1>2, <2>1 DEF p
  <2>2. CASE i # j /\ i \div 2 = j
    BY <1>1, <1>2, <1>3, <2>2
  <2>3. CASE i # j /\ i \div 2 = p
    <3>1. a(i \div 2) <= a(i) /\ b(i) = a(i)
      BY <1>2, <1>3, <2>3
    <3>2. a(p) <= b(i) /\ b(i \div 2) = a(j)
      BY <1>2, <2>3, <3>1
    <3>3. a(j) \in Nat /\ a(p) \in Nat /\ b(i) \in Nat /\ a(j) < a(p)
      BY <1>1, <1>2
    <3> QED
      BY <3>2, <3>3
  <2>4. CASE i # j /\ i \div 2 # j /\ i \div 2 # p
    BY <1>1, <1>2, <1>3, <2>4
  <2> QED
    BY <2>1, <2>2, <2>3, <2>4
<1>4. ASSUME NEW i \in 1 .. n, i > 1, i \div 2 = p, p > 1
      PROVE  b(p \div 2) <= b(i)
  <2>1. p \div 2 \in 1 .. n /\ p \div 2 < p /\ b(p \div 2) = a(p \div 2) /\ a(p \div 2) <= a(p)
    BY <1>1, <1>2, <1>4
  <2>2. CASE i = j
    BY <1>1, <1>2, <2>1, <2>2
  <2>3. CASE i # j
    <3>0. a(i \div 2) <= a(i)
      BY <1>2, <1>4, <2>3
    <3>1. a(i \div 2) <= a(i) /\ i # p
      BY <1>1, <1>2, <1>4, <3>0
    <3>2. a(p) <= a(i) /\ b(i) = a(i)
      BY <1>2, <1>4, <2>3, <3>1
    <3>3. a(p) \in Nat /\ a(i) \in Nat /\ a(p \div 2) \in Nat
      BY <1>1, <1>2, <2>1
    <3> QED
      BY <2>1, <3>2, <3>3
  <2> QED
    BY <2>2, <2>3
<1> QED
  BY <1>1, <1>3, <1>4 DEF OrderedAbove, b, p

\* No sibling of the key at c is less.
LeastChild(s, pr, c) == \A i \in DOMAIN s : i \div 2 = c \div 2 => pr[s[c]] <= pr[s[i]]

\* A key greater than its lesser child changes places with it.
LEMMA DownStep ==
    ASSUME NEW n \in Nat, NEW pr \in [Keys -> Nat], NEW s \in [1 .. n -> Keys],
           NEW t \in [1 .. n -> Keys], NEW j \in 1 .. n, NEW lo \in Nat, j >= lo,
           NEW c \in 1 .. n, c > 1, c \div 2 = j,
           LeastChild(s, pr, c),
           OrderedBelow(s, pr, lo, j), pr[s[c]] < pr[s[j]], Exchanged(s, t, j, c)
    PROVE  OrderedBelow(t, pr, lo, c) /\ c >= lo
<1> DEFINE a(i) == pr[s[i]]
           b(i) == pr[t[i]]
<1>1. j < c
  BY Halves
<1>2. /\ \A i \in 1 .. n : a(i) \in Nat /\ b(i) \in Nat
      /\ b(j) = a(c) /\ b(c) = a(j) /\ a(c) < a(j)
      /\ \A i \in 1 .. n : i # j /\ i # c => b(i) = a(i)
      /\ \A i \in 1 .. n : i > 1 => i \div 2 \in 1 .. n /\ i \div 2 < i
      /\ \A i \in 1 .. n : i > 1 /\ i \div 2 = j => a(c) <= a(i)
      /\ \A i \in 1 .. n : i > 1 /\ i \div 2 >= lo /\ i \div 2 # j => a(i \div 2) <= a(i)
      /\ j > 1 /\ j \div 2 >= lo => a(j \div 2) <= a(c)
  <2>1. \A i \in 1 .. n : i > 1 => i \div 2 \in 1 .. n /\ i \div 2 < i
    BY Halves
  <2> QED
    BY <1>1, <2>1 DEF Exchanged, OrderedBelow, LeastChild
<1> HIDE DEF a, b
<1>3. ASSUME NEW i \in 1 .. n, i > 1, i \div 2 >= lo, i \div 2 # c
      PROVE  b(i \div 2) <= b(i)
  <2>1. CASE i \div 2 = j
    <3>1. a(c) <= a(i) /\ a(c) \in Nat /\ a(j) \in Nat /\ b(i \div 2) = a(c)
      BY <1>1, <1>2, <1>3, <2>1
    <3>2. CASE i = c
      BY <1>2, <3>1, <3>2
    <3>3. CASE i # c
      <4>1. i # j
        BY <1>2, <1>3, <2>1
      <4> QED
        BY <1>2, <3>1, <3>3, <4>1
    <3> QED
      BY <3>2, <3>3
  <2>2. CASE i = j
    BY <1>1, <1>2, <1>3, <2>2
  <2>3. CASE i # j /\ i \div 2 # j
    BY <1>1, <1>2, <1>3, <2>3
  <2> QED
    BY <2>1, <2>2, <2>3
<1>4. ASSUME NEW i \in 1 .. n, i > 1, i \div 2 = c
      PROVE  b(c \div 2) <= b(i)
  <2>1. i # j /\ i # c
    BY <1>1, <1>2, <1>4
  <2>2. a(c) <= a(i)
    BY <1>1, <1>2, <1>4
  <2> QED
    BY <1>2, <2>1, <2>2
<1>5. c >= lo
  BY <1>1
<1> QED
  BY <1>3, <1>4, <1>5 DEF OrderedBelow, b

\* An exchange loses no key.
LEMMA ExchangedRange ==
    ASSUME NEW n \in Nat, NEW s \in [1 .. n -> Keys], NEW t \in [1 .. n -> Keys],
           NEW i \in 1 .. n, NEW j \in 1 .. n, Exchanged(s, t, i, j)
    PROVE  Range(t) = Range(s)
<1>1. \A l \in 1 .. n : t[l] \in Range(s)
  BY DEF Exchanged, Range
<1>2. \A l \in 1 .. n : s[l] \in Range(t)
  <2> SUFFICES ASSUME NEW l \in 1 .. n PROVE \E e \in 1 .. n : t[e] = s[l]
    BY DEF Range
  <2>1. CASE l = i
    BY <2>1 DEF Exchanged
  <2>2. CASE l = j
    BY <2>2 DEF Exchanged
  <2>3. CASE l # i /\ l # j
    BY <2>3 DEF Exchanged
  <2> QED
    BY <2>1, <2>2, <2>3
<1> QED
  BY <1>1, <1>2 DEF Range

\* A hole that may be filled with k: the keys and positions are then those of h.
HoleOf(x, k, h, n, m) ==
    /\ x \in HoleBox(n, m) /\ Filled(x, k) \in HeapBox(n, m)
    /\ Positions(Filled(x, k)) /\ Range(Filled(x, k).heap) = Range(h.heap)

\* What a hole that may be filled with k tells of the keys.
LEMMA HoleFacts ==
    ASSUME NEW n \in Nat, NEW m \in Nat, NEW h, NEW x, NEW k \in Keys, HoleOf(x, k, h, n, m)
    PROVE  /\ x.i \in 0 .. n - 1 /\ Len(x.h.heap) = n
           /\ Filled(x, k).heap \in [1 .. n -> Keys] /\ Filled(x, k).heap[x.i + 1] = k
           /\ k + 1 \in 1 .. m
<1>1. x.i \in 0 .. n - 1 /\ x.h.heap \in [1 .. n -> Keys] /\ x.h.indices \in [1 .. m -> Int]
  BY DEF HoleOf, HoleBox, HeapBox
<1>2. Len(x.h.heap) = n
  BY <1>1
<1>3. /\ Filled(x, k).heap \in [1 .. n -> Keys] /\ Filled(x, k).indices \in [1 .. m -> Int]
      /\ Positions(Filled(x, k))
  BY DEF HoleOf, HeapBox
<1>4. Filled(x, k).heap[x.i + 1] = k
  BY <1>1 DEF Filled, Place, Put
<1>5. k + 1 \in 1 .. m
  <2>1. x.i + 1 \in 1 .. n
    BY <1>1
  <2> QED
    BY <1>3, <1>4, <2>1 DEF Positions
<1> QED
  BY <1>1, <1>2, <1>3, <1>4, <1>5

\* Elsewhere the heap has its keys already.
LEMMA OutsideHole ==
    ASSUME NEW n \in Nat, NEW m \in Nat, NEW h, NEW x, NEW k \in Keys, HoleOf(x, k, h, n, m),
           NEW j \in 0 .. n - 1, j # x.i
    PROVE  At(x.h.heap, j) = Filled(x, k).heap[j + 1]
<1>1. x.i \in 0 .. n - 1 /\ x.h.heap \in [1 .. n -> Keys]
  BY DEF HoleOf, HoleBox, HeapBox
<1>2. j + 1 \in 1 .. n /\ j + 1 # x.i + 1
  BY <1>1
<1>3. Filled(x, k).heap = [x.h.heap EXCEPT ![x.i + 1] = k]
  BY DEF Filled, Place, Put
<1> QED
  BY <1>1, <1>2, <1>3 DEF At

\* A hole that moves stays one, and two keys change places.
LEMMA HoleMovesTo ==
    ASSUME NEW n \in Nat, NEW m \in Nat, NEW h, NEW x, NEW k \in Keys, HoleOf(x, k, h, n, m),
           NEW j \in 0 .. n - 1, j # x.i
    PROVE  LET y == [h |-> Place(x.h, x.i, At(x.h.heap, j)), i |-> j]
           IN  /\ HoleOf(y, k, h, n, m)
               /\ Exchanged(Filled(x, k).heap, Filled(y, k).heap, x.i + 1, j + 1)
<1> DEFINE y == [h |-> Place(x.h, x.i, At(x.h.heap, j)), i |-> j]
           v == Filled(x, k)
           w == Filled(y, k)
<1>1. x \in HoleBox(n, m) /\ Positions(v) /\ k + 1 \in 1 .. m /\ x.i + 1 \in 1 .. n /\ j + 1 \in 1 .. n
  BY HoleFacts DEF HoleOf
<1>2. /\ y \in HoleBox(n, m) /\ w \in HeapBox(n, m) /\ Positions(w)
      /\ Exchanged(v.heap, w.heap, x.i + 1, j + 1)
  BY <1>1, HoleMoves
<1> HIDE DEF y, v, w
<1>3. v.heap \in [1 .. n -> Keys] /\ w.heap \in [1 .. n -> Keys] /\ Range(v.heap) = Range(h.heap)
  BY <1>2 DEF HoleOf, HeapBox, v
<1>4. Range(w.heap) = Range(v.heap)
  <2> DEFINE s == v.heap
             t == w.heap
  <2>1. /\ s \in [1 .. n -> Keys] /\ t \in [1 .. n -> Keys] /\ Exchanged(s, t, x.i + 1, j + 1)
        /\ x.i + 1 \in 1 .. n /\ j + 1 \in 1 .. n
    BY <1>1, <1>2, <1>3
  <2> HIDE DEF s, t
  <2>2. Range(t) = Range(s)
    BY <2>1, ExchangedRange
  <2> QED
    BY <2>2 DEF s, t
<1>5. HoleOf(y, k, h, n, m)
  BY <1>2, <1>3, <1>4 DEF HoleOf, w
<1> QED
  BY <1>2, <1>5 DEF y, v, w

\* The comparison of two keys is that of their priorities.
LEMMA LessMeans ==
    ASSUME NEW pr \in [Keys -> Nat], NEW a \in Keys, NEW b \in Keys
    PROVE  <<a, b>> \in LessBy(pr) <=> pr[a] < pr[b]
BY DEF LessBy

\* What is left of the rounds of percolateUp(): none once the order is restored.
UpState(x, k, pr, h, n, m, r) ==
    /\ HoleOf(x, k, h, n, m)
    /\ OrderedAbove(Filled(x, k).heap, pr, x.i + 1)
    /\ Ordered(Filled(x, k).heap, pr, 1) \/ x.i + r < n

\* A round of percolateUp() keeps what it needs for the next.
LEMMA RoundUpKeeps ==
    ASSUME NEW n \in Nat \ {0}, NEW m \in Nat, NEW pr \in [Keys -> Nat], NEW h, NEW x,
           NEW k \in Keys, NEW r \in Nat, UpState(x, k, pr, h, n, m, r)
    PROVE  UpState(RoundUp(x, k, LessBy(pr)), k, pr, h, n, m, r + 1)
<1> DEFINE v == Filled(x, k)
           s == v.heap
           p == (x.i - 1) \div 2
           y == RoundUp(x, k, LessBy(pr))
           j == x.i + 1
<1>1. /\ HoleOf(x, k, h, n, m) /\ OrderedAbove(s, pr, j)
      /\ Ordered(s, pr, 1) \/ x.i + r < n
  BY DEF UpState
<1>2. x.i \in 0 .. n - 1 /\ s \in [1 .. n -> Keys] /\ s[j] = k /\ j \in 1 .. n
  BY <1>1, HoleFacts
<1>3. ASSUME x.i # 0
      PROVE  p \in 0 .. n - 1 /\ p < x.i /\ p + 1 = j \div 2 /\ At(x.h.heap, p) = s[p + 1]
  <2>1. p \in Nat /\ p < x.i /\ p + 1 = j \div 2
    <3>1. x.i \in Nat
      BY <1>2
    <3> QED
      BY <1>3, <3>1, ParentPosition
  <2> HIDE DEF p
  <2>2. p \in 0 .. n - 1 /\ p # x.i /\ n \in Nat
    BY <1>2, <2>1
  <2>3. \A e \in 0 .. n - 1 : e # x.i => At(x.h.heap, e) = Filled(x, k).heap[e + 1]
    BY <1>1, <2>2, OutsideHole
  <2>4. At(x.h.heap, p) = s[p + 1]
    BY <2>2, <2>3
  <2> QED
    BY <2>1, <2>2, <2>4
<1> HIDE DEF p
<1>4. CASE x.i = 0 \/ <<k, At(x.h.heap, p)>> \notin LessBy(pr)
  <2>1. y = x
    BY <1>4 DEF RoundUp, p
  <2>2. Ordered(s, pr, 1)
    <3> SUFFICES ASSUME NEW i \in 1 .. n, i > 1 PROVE pr[s[i \div 2]] <= pr[s[i]]
      BY <1>2 DEF Ordered
    <3>1. CASE i # j
      BY <1>1, <1>2, <3>1 DEF OrderedAbove
    <3>2. CASE i = j
      <4>1. x.i # 0
        BY <3>2, <1>2
      <4>2. s[p + 1] \in Keys /\ <<k, s[p + 1]>> \notin LessBy(pr)
        <5>1. p \in 0 .. n - 1 /\ At(x.h.heap, p) = s[p + 1]
          BY <1>3, <4>1
        <5>2. p + 1 \in 1 .. n
          BY <5>1
        <5>3. s[p + 1] \in Keys
          BY <1>2, <5>2
        <5> QED
          BY <1>4, <4>1, <5>1, <5>3
      <4>3. ~(pr[k] < pr[s[p + 1]])
        BY <4>2, LessMeans
      <4>4. pr[k] \in Nat /\ pr[s[p + 1]] \in Nat
        BY <4>2
      <4>5. s[i \div 2] = s[p + 1] /\ s[i] = k
        <5>1. p + 1 = j \div 2
          BY <1>3, <4>1
        <5> HIDE DEF s, j
        <5> QED
          BY <1>2, <3>2, <5>1
      <4> QED
        BY <4>3, <4>4, <4>5
    <3> QED
      BY <3>1, <3>2
  <2> QED
    BY <1>1, <2>1, <2>2 DEF UpState
<1>5. CASE x.i # 0 /\ <<k, At(x.h.heap, p)>> \in LessBy(pr)
  <2>1. y = [h |-> Place(x.h, x.i, At(x.h.heap, p)), i |-> p]
    BY <1>5 DEF RoundUp, p
  <2>2. p \in 0 .. n - 1 /\ p < x.i /\ p # x.i /\ p + 1 = j \div 2 /\ At(x.h.heap, p) = s[p + 1]
    BY <1>2, <1>3, <1>5
  <2> DEFINE t == Filled(y, k).heap
  <2>3. HoleOf(y, k, h, n, m) /\ Exchanged(s, t, j, p + 1) /\ y.i = p
    BY <1>1, <2>1, <2>2, HoleMovesTo
  <2>4. t \in [1 .. n -> Keys]
    BY <2>3, HoleFacts
  <2>5. pr[s[j]] < pr[s[j \div 2]]
    <3>1. s[p + 1] \in Keys
      <4>1. p + 1 \in 1 .. n
        BY <2>2
      <4> QED
        BY <1>2, <4>1
    <3> QED
      BY <1>2, <1>5, <2>2, <3>1, LessMeans
  <2>6. OrderedAbove(t, pr, j \div 2)
    <3> HIDE DEF s, t, j, y, v
    <3>1. j > 1 /\ Exchanged(s, t, j, j \div 2)
      BY <1>2, <1>5, <2>2, <2>3 DEF j
    <3> QED
      BY <1>1, <1>2, <2>4, <2>5, <3>1, UpStep
  <2>7. Ordered(t, pr, 1) \/ y.i + (r + 1) < n
    <3>1. CASE x.i + r < n
      BY <1>2, <2>2, <2>3, <3>1
    <3>2. CASE Ordered(s, pr, 1)
      <4>1. pr[s[j \div 2]] <= pr[s[j]] /\ pr[s[j]] \in Nat /\ pr[s[j \div 2]] \in Nat
        <5>1. j \in DOMAIN s /\ j > 1 /\ j \div 2 >= 1 /\ j \div 2 \in 1 .. n
          <6>1. p + 1 = j \div 2 /\ p + 1 \in 1 .. n /\ p + 1 >= 1 /\ j > 1 /\ DOMAIN s = 1 .. n
            BY <1>2, <1>5, <2>2
          <6> HIDE DEF s, j
          <6> QED
            BY <1>2, <6>1
        <5> HIDE DEF s, j
        <5> QED
          BY <1>2, <3>2, <5>1 DEF Ordered
      <4> QED
        BY <2>5, <4>1
    <3> QED
      BY <1>1, <3>1, <3>2
  <2>8. OrderedAbove(t, pr, y.i + 1)
    <3> HIDE DEF y, t, j
    <3> QED
      BY <2>2, <2>3, <2>6
  <2> HIDE DEF y
  <2> QED
    BY <2>3, <2>7, <2>8 DEF UpState, y
<1> QED
  BY <1>4, <1>5

\* The children of i, counted from 0, are at 2i + 1 and 2i + 2.
LEMMA ChildPositions ==
    ASSUME NEW i \in Nat
    PROVE  /\ (2 * i + 2) \div 2 = i + 1 /\ (2 * i + 3) \div 2 = i + 1
           /\ \A e \in Nat : e \div 2 = i + 1 => e = 2 * i + 2 \/ e = 2 * i + 3
OBVIOUS

\* The child that percolateDown() looks at.
LesserOf(x, lt) ==
    LET left == 2 * x.i + 1
        right == left + 1
    IN  IF right < Len(x.h.heap) /\ <<At(x.h.heap, right), At(x.h.heap, left)>> \in lt
        THEN right ELSE left

\* It is a child, and no sibling is less.
LEMMA LesserChild ==
    ASSUME NEW n \in Nat, NEW m \in Nat, NEW pr \in [Keys -> Nat], NEW h, NEW x,
           NEW k \in Keys, HoleOf(x, k, h, n, m), 2 * x.i + 1 < n
    PROVE  LET c == LesserOf(x, LessBy(pr))
               s == Filled(x, k).heap
           IN  /\ c \in 0 .. n - 1 /\ c > x.i /\ (c + 1) \div 2 = x.i + 1
               /\ At(x.h.heap, c) = s[c + 1] /\ LeastChild(s, pr, c + 1)
<1> DEFINE c == LesserOf(x, LessBy(pr))
           s == Filled(x, k).heap
           left == 2 * x.i + 1
           right == 2 * x.i + 2
           rights == right < n /\ <<At(x.h.heap, right), At(x.h.heap, left)>> \in LessBy(pr)
<1>0. x.i \in 0 .. n - 1 /\ s \in [1 .. n -> Keys] /\ Len(x.h.heap) = n
  BY HoleFacts
<1>1. x.i \in Nat /\ x.i < n /\ s \in [1 .. n -> Keys] /\ Len(x.h.heap) = n
  <2> HIDE DEF s
  <2> QED
    BY <1>0
<1>2. \A e \in 0 .. n - 1 : e # x.i => At(x.h.heap, e) = s[e + 1]
  BY OutsideHole
<1>3. left \in 0 .. n - 1 /\ left # x.i /\ left + 1 \in 1 .. n /\ left > x.i
  BY <1>1
<1>4. right < n => right \in 0 .. n - 1 /\ right # x.i /\ right + 1 \in 1 .. n
  <2> HIDE DEF s, c, rights
  <2>1. \A f \in Nat : 2 * f + 2 < n =>
            2 * f + 2 \in 0 .. n - 1 /\ 2 * f + 2 # f /\ (2 * f + 2) + 1 \in 1 .. n
    OBVIOUS
  <2> QED
    BY <1>1, <2>1
<1>5. (left + 1) \div 2 = x.i + 1 /\ (right + 1) \div 2 = x.i + 1 /\ right > x.i
  <2>1. left + 1 = 2 * x.i + 2 /\ right + 1 = 2 * x.i + 3
    BY <1>1
  <2> HIDE DEF left, right
  <2>2. right > x.i
    BY <1>1 DEF right
  <2> QED
    BY <1>1, <2>1, <2>2, ChildPositions
<1>6. \A i \in 1 .. n : i \div 2 = x.i + 1 => i = left + 1 \/ (i = right + 1 /\ right < n)
  <2> SUFFICES ASSUME NEW i \in 1 .. n, i \div 2 = x.i + 1
               PROVE  i = left + 1 \/ (i = right + 1 /\ right < n)
    OBVIOUS
  <2>1. i \in Nat /\ i <= n
    BY <1>1
  <2>2. i = 2 * x.i + 2 \/ i = 2 * x.i + 3
    BY <1>1, <2>1, ChildPositions
  <2> DEFINE e == x.i
  <2>3. e \in Nat
    BY <1>1
  <2> HIDE DEF rights, e
  <2>4. \A f \in Nat : i = 2 * f + 2 \/ i = 2 * f + 3 =>
            i = (2 * f + 1) + 1 \/ (i = (2 * f + 2) + 1 /\ 2 * f + 2 < n)
    BY <2>1
  <2> QED
    BY <1>1, <2>2, <2>4
<1>7. left \in Nat /\ right \in Nat
  BY <1>1
<1>8. (rights /\ c = right) \/ (~rights /\ c = left)
  <2>1. right = left + 1
    BY <1>1
  <2> QED
    BY <1>1, <2>1 DEF LesserOf
<1> HIDE DEF left, right
<1>9. At(x.h.heap, left) = s[left + 1] /\ s[left + 1] \in Keys
  BY <1>1, <1>2, <1>3
<1>10. right < n => At(x.h.heap, right) = s[right + 1] /\ s[right + 1] \in Keys
  BY <1>1, <1>2, <1>4
<1>11. rights <=> right < n /\ pr[s[right + 1]] < pr[s[left + 1]]
  BY <1>9, <1>10, LessMeans
<1>12. /\ c \in 0 .. n - 1 /\ c > x.i /\ (c + 1) \div 2 = x.i + 1
       /\ At(x.h.heap, c) = s[c + 1]
  BY <1>3, <1>4, <1>5, <1>8, <1>9, <1>10, <1>11
<1> HIDE DEF s, c
<1>13. ASSUME NEW i \in 1 .. n, i \div 2 = x.i + 1
       PROVE  pr[s[c + 1]] <= pr[s[i]]
  <2>0. pr[s[left + 1]] \in Nat /\ (right < n => pr[s[right + 1]] \in Nat)
    BY <1>9, <1>10
  <2>1. i = left + 1 \/ (i = right + 1 /\ right < n)
    BY <1>6, <1>13
  <2> HIDE DEF rights
  <2> QED
    BY <1>8, <1>11, <2>0, <2>1
<1>14. LeastChild(s, pr, c + 1)
  BY <1>1, <1>12, <1>13 DEF LeastChild
<1> QED
  BY <1>12, <1>14 DEF s, c

\* What is left of the rounds of percolateDown(): the hole goes down with every one.
DownState(x, k, pr, h, n, m, lo, r) ==
    /\ HoleOf(x, k, h, n, m) /\ x.i + 1 >= lo
    /\ OrderedBelow(Filled(x, k).heap, pr, lo, x.i + 1)
    /\ Ordered(Filled(x, k).heap, pr, lo) \/ r <= x.i

\* A round of percolateDown() keeps what it needs for the next.
LEMMA RoundDownKeeps ==
    ASSUME NEW n \in Nat \ {0}, NEW m \in Nat, NEW pr \in [Keys -> Nat], NEW h, NEW x,
           NEW k \in Keys, NEW lo \in Nat, NEW r \in Nat, DownState(x, k, pr, h, n, m, lo, r)
    PROVE  DownState(RoundDown(x, k, LessBy(pr)), k, pr, h, n, m, lo, r + 1)
<1> DEFINE s == Filled(x, k).heap
           left == 2 * x.i + 1
           child == LesserOf(x, LessBy(pr))
           y == RoundDown(x, k, LessBy(pr))
           j == x.i + 1
           c == child + 1
<1>1. /\ HoleOf(x, k, h, n, m) /\ OrderedBelow(s, pr, lo, j) /\ j >= lo
      /\ Ordered(s, pr, lo) \/ r <= x.i
  BY DEF DownState
<1>2. /\ x.i \in 0 .. n - 1 /\ s \in [1 .. n -> Keys] /\ s[j] = k /\ j \in 1 .. n
      /\ Len(x.h.heap) = n /\ n \in Nat
  BY <1>1, HoleFacts
<1>3. y = IF left >= n \/ <<At(x.h.heap, child), k>> \notin LessBy(pr) THEN x
          ELSE [h |-> Place(x.h, x.i, At(x.h.heap, child)), i |-> child]
  BY <1>2 DEF RoundDown, LesserOf
<1>4. ASSUME left < n
      PROVE  /\ child \in 0 .. n - 1 /\ child > x.i /\ c \div 2 = j /\ c \in 1 .. n /\ c > 1
             /\ At(x.h.heap, child) = s[c] /\ s[c] \in Keys
             /\ LeastChild(s, pr, c)
  <2>1. /\ child \in 0 .. n - 1 /\ child > x.i /\ c \div 2 = j /\ At(x.h.heap, child) = s[c]
        /\ LeastChild(s, pr, c)
    BY <1>1, <1>2, <1>4, LesserChild
  <2> HIDE DEF child, s
  <2>2. c \in 1 .. n /\ c > 1
    BY <1>2, <2>1
  <2> QED
    BY <1>2, <2>1, <2>2
<1>5. ASSUME NEW i \in 1 .. n, i \div 2 = j PROVE left < n
  BY <1>2, <1>5
<1>6. \A i \in 1 .. n : i > 1 => i \div 2 \in 1 .. n
  BY <1>2
<1> HIDE DEF child, y, s
<1>7. CASE left >= n \/ <<At(x.h.heap, child), k>> \notin LessBy(pr)
  <2>1. y = x
    BY <1>3, <1>7
  <2>2. ASSUME NEW i \in 1 .. n, i > 1, i \div 2 >= lo
        PROVE  pr[s[i \div 2]] <= pr[s[i]]
    <3>1. CASE i \div 2 # j
      BY <1>1, <1>2, <2>2, <3>1 DEF OrderedBelow
    <3>2. CASE i \div 2 = j
      <4>1. left < n
        BY <1>5, <3>2
      <4>2. ~(left >= n)
        BY <1>2, <4>1
      <4>3. ~(pr[s[c]] < pr[k]) /\ s[c] \in Keys
        BY <1>4, <1>7, <4>1, <4>2, LessMeans
      <4>4. pr[s[c]] <= pr[s[i]]
        <5>1. LeastChild(s, pr, c) /\ c \div 2 = j
          BY <1>4, <4>1
        <5> QED
          BY <1>2, <3>2, <5>1 DEF LeastChild
      <4>5. pr[s[c]] \in Nat /\ pr[k] \in Nat /\ pr[s[i]] \in Nat
        BY <1>2, <4>3
      <4>6. pr[k] <= pr[s[i]]
        BY <4>3, <4>4, <4>5
      <4> QED
        BY <1>2, <3>2, <4>6
    <3> QED
      BY <3>1, <3>2
  <2>3. Ordered(s, pr, lo)
    BY <1>2, <2>2 DEF Ordered
  <2>4. DownState(x, k, pr, h, n, m, lo, r + 1)
    BY <1>1, <2>3 DEF DownState, s
  <2> QED
    BY <2>1, <2>4 DEF y
<1>8. CASE ~(left >= n) /\ <<At(x.h.heap, child), k>> \in LessBy(pr)
  <2>1. y = [h |-> Place(x.h, x.i, At(x.h.heap, child)), i |-> child]
    BY <1>3, <1>8
  <2>2. left < n
    BY <1>2, <1>8
  <2>3. /\ child \in 0 .. n - 1 /\ child > x.i /\ c \div 2 = j /\ c \in 1 .. n /\ c > 1
        /\ At(x.h.heap, child) = s[c] /\ s[c] \in Keys
        /\ LeastChild(s, pr, c)
    BY <1>4, <2>2
  <2> DEFINE t == Filled(y, k).heap
  <2>4. HoleOf(y, k, h, n, m) /\ Exchanged(s, t, j, c) /\ y.i = child
    <3>1. child # x.i
      BY <1>2, <2>3
    <3> QED
      BY <1>1, <1>2, <2>1, <2>3, <3>1, HoleMovesTo DEF s
  <2>5. t \in [1 .. n -> Keys]
    BY <1>2, <2>4, HoleFacts
  <2>6. pr[s[c]] < pr[s[j]]
    BY <1>2, <1>8, <2>3, LessMeans
  <2> HIDE DEF t
  <2>7. OrderedBelow(t, pr, lo, c) /\ c >= lo
    <3> DEFINE cc == c
               jj == j
    <3>1. /\ jj \in 1 .. n /\ jj >= lo /\ cc \in 1 .. n /\ cc > 1 /\ cc \div 2 = jj
          /\ LeastChild(s, pr, cc)
          /\ OrderedBelow(s, pr, lo, jj) /\ pr[s[cc]] < pr[s[jj]] /\ Exchanged(s, t, jj, cc)
      BY <1>1, <1>2, <2>3, <2>4, <2>6
    <3> HIDE DEF cc, jj
    <3>2. OrderedBelow(t, pr, lo, cc) /\ cc >= lo
      <4> HIDE DEF s
      <4> QED
        BY <1>2, <2>5, <3>1, DownStep
    <3> QED
      BY <3>2 DEF cc
  <2>8. r + 1 <= y.i
    <3>1. r <= x.i
      <4>1. ~Ordered(s, pr, lo)
        <5>1. c \in DOMAIN s /\ c > 1 /\ c \div 2 >= lo
          BY <1>1, <1>2, <2>3
        <5>2. pr[s[j]] \in Nat /\ pr[s[c]] \in Nat
          BY <1>2, <2>3
        <5> HIDE DEF c, j
        <5> QED
          BY <2>3, <2>6, <5>1, <5>2 DEF Ordered
      <4> QED
        BY <1>1, <4>1
    <3> QED
      BY <1>2, <2>3, <2>4, <3>1
  <2>9. OrderedBelow(t, pr, lo, y.i + 1) /\ y.i + 1 >= lo
    BY <2>4, <2>7
  <2>10. DownState(y, k, pr, h, n, m, lo, r + 1)
    BY <2>4, <2>8, <2>9 DEF DownState, t
  <2> QED
    BY <2>10 DEF y
<1> QED
  BY <1>7, <1>8

\* Every round of percolateUp() leaves a heap with a hole.
LEMMA RoundUpType ==
    ASSUME NEW n \in Nat \ {0}, NEW m \in Nat, NEW x \in HoleBox(n, m), NEW k, NEW lt
    PROVE  RoundUp(x, k, lt) \in HoleBox(n, m)
<1> DEFINE p == (x.i - 1) \div 2
<1>1. x.h \in HeapBox(n, m) /\ x.i \in 0 .. n - 1 /\ x.h.heap \in [1 .. n -> Keys] /\ n \in Nat
  BY DEF HoleBox, HeapBox
<1>2. CASE x.i = 0 \/ <<k, At(x.h.heap, p)>> \notin lt
  BY <1>2 DEF RoundUp
<1>3. CASE x.i # 0 /\ <<k, At(x.h.heap, p)>> \in lt
  <2>1. RoundUp(x, k, lt) = [h |-> Place(x.h, x.i, At(x.h.heap, p)), i |-> p]
    BY <1>3 DEF RoundUp
  <2>2. p \in Nat /\ p < x.i
    <3>1. x.i \in Nat
      BY <1>1
    <3> QED
      BY <1>3, <3>1, ParentPosition
  <2> HIDE DEF p
  <2>3. p \in 0 .. n - 1 /\ p + 1 \in 1 .. n
    BY <1>1, <2>2
  <2>4. At(x.h.heap, p) \in Keys
    BY <1>1, <2>3 DEF At
  <2>5. Place(x.h, x.i, At(x.h.heap, p)) \in HeapBox(n, m)
    BY <1>1, <2>4, PlaceMeans
  <2> QED
    BY <2>1, <2>3, <2>5 DEF HoleBox
<1> QED
  BY <1>2, <1>3

\* So does every round of percolateDown().
LEMMA RoundDownType ==
    ASSUME NEW n \in Nat \ {0}, NEW m \in Nat, NEW x \in HoleBox(n, m), NEW k, NEW lt
    PROVE  RoundDown(x, k, lt) \in HoleBox(n, m)
<1> DEFINE left == 2 * x.i + 1
           c == LesserOf(x, lt)
<1>1. x.h \in HeapBox(n, m) /\ x.i \in 0 .. n - 1 /\ x.h.heap \in [1 .. n -> Keys] /\ n \in Nat
  BY DEF HoleBox, HeapBox
<1>2. Len(x.h.heap) = n
  BY <1>1
<1>3. RoundDown(x, k, lt) = IF left >= n \/ <<At(x.h.heap, c), k>> \notin lt THEN x
                            ELSE [h |-> Place(x.h, x.i, At(x.h.heap, c)), i |-> c]
  BY <1>2 DEF RoundDown, LesserOf
<1>4. CASE left >= n \/ <<At(x.h.heap, c), k>> \notin lt
  BY <1>3, <1>4
<1>5. CASE ~(left >= n) /\ <<At(x.h.heap, c), k>> \in lt
  <2>1. c = left \/ (c = left + 1 /\ left + 1 < n)
    BY <1>2 DEF LesserOf
  <2>2. left \in Nat /\ left < n
    BY <1>1, <1>5
  <2> HIDE DEF left, c
  <2>3. c \in 0 .. n - 1 /\ c + 1 \in 1 .. n
    BY <1>1, <2>1, <2>2
  <2>4. At(x.h.heap, c) \in Keys
    BY <1>1, <2>3 DEF At
  <2>5. Place(x.h, x.i, At(x.h.heap, c)) \in HeapBox(n, m)
    BY <1>1, <2>4, PlaceMeans
  <2> QED
    BY <1>3, <1>5, <2>3, <2>5 DEF HoleBox
<1> QED
  BY <1>4, <1>5

\* Filling a hole with the key that was there changes nothing.
LEMMA FilledAgain ==
    ASSUME NEW n \in Nat, NEW m \in Nat, NEW h \in HeapBox(n, m), Positions(h),
           NEW i \in 0 .. n - 1
    PROVE  LET x == [h |-> h, i |-> i]
               k == At(h.heap, i)
           IN  /\ x \in HoleBox(n, m) /\ k \in Keys /\ k = h.heap[i + 1] /\ Filled(x, k) = h
               /\ HoleOf(x, k, h, n, m)
<1> DEFINE x == [h |-> h, i |-> i]
           k == At(h.heap, i)
<1>1. /\ h.heap \in [1 .. n -> Keys] /\ h.indices \in [1 .. m -> Int] /\ i + 1 \in 1 .. n
      /\ h = [heap |-> h.heap, indices |-> h.indices]
  BY DEF HeapBox
<1>2. k = h.heap[i + 1] /\ k \in Keys /\ k + 1 \in 1 .. m /\ h.indices[k + 1] = i
  <2>1. k = h.heap[i + 1] /\ k \in Keys
    BY <1>1 DEF At
  <2>2. (i + 1) - 1 = i
    OBVIOUS
  <2> HIDE DEF k
  <2> QED
    BY <1>1, <2>1, <2>2 DEF Positions
<1> HIDE DEF k
<1>3. [h.heap EXCEPT ![i + 1] = k] = h.heap
  BY <1>1, <1>2
<1>4. [h.indices EXCEPT ![k + 1] = i] = h.indices
  <2> DEFINE f == h.indices
             c == k + 1
  <2>1. f \in [1 .. m -> Int] /\ f[c] = i
    BY <1>1, <1>2
  <2> HIDE DEF f, c
  <2>2. [f EXCEPT ![c] = i] = f
    BY <2>1
  <2> QED
    BY <2>2 DEF f, c
<1>5. Filled(x, k) = h
  BY <1>1, <1>3, <1>4 DEF Filled, Place, Put
<1>6. x \in HoleBox(n, m)
  BY DEF HoleBox
<1>7. HoleOf(x, k, h, n, m)
  BY <1>5, <1>6 DEF HoleOf
<1> QED
  BY <1>2, <1>5, <1>6, <1>7 DEF k

\* What percolateUp() and percolateDown() leave alone.
SameKeys(g, h, n, m) == g \in HeapBox(n, m) /\ Positions(g) /\ Range(g.heap) = Range(h.heap)

\* The rounds of percolateUp().
RoundsUp(x, h, i, n, lt) ==
    /\ x[0] = [h |-> h, i |-> i]
    /\ \A r \in Nat : r + 1 <= n => x[r + 1] = RoundUp(x[r], At(h.heap, i), lt)

\* The recursive function exists, and its last value is what percolateUp() fills.
LEMMA RoundsUpExist ==
    ASSUME NEW n \in Nat \ {0}, NEW m \in Nat, NEW h \in HeapBox(n, m), NEW i \in 0 .. n - 1, NEW lt
    PROVE  \E x : /\ RoundsUp(x, h, i, n, lt)
                  /\ PercolateUp(h, i, lt) = Filled(x[n], At(h.heap, i))
<1> DEFINE k == At(h.heap, i)
           x0 == [h |-> h, i |-> i]
           x[r \in 0 .. Len(h.heap)] == IF r = 0 THEN x0 ELSE RoundUp(x[r - 1], k, lt)
           step == [r \in Nat |-> [y \in HoleBox(n, m) |-> RoundUp(y, k, lt)]]
<1>1. x0 \in HoleBox(n, m) /\ n \in Nat
  BY DEF HoleBox
<1>2. Len(h.heap) = n
  BY DEF HeapBox
<1>3. PercolateUp(h, i, lt) = Filled(x[n], k)
  BY <1>2 DEF PercolateUp, Filled
<1>4. step \in Steps(HoleBox(n, m))
  BY RoundUpType DEF Steps
<1> HIDE DEF k, x0
<1>5. PICK g : RepeatsUpTo(g, n, HoleBox(n, m), x0, step)
  <2> HIDE DEF step
  <2> QED
    BY <1>1, <1>4, IterationUpTo
<1>6. g = [r \in 0 .. n |-> IF r = 0 THEN x0 ELSE RoundUp(g[r - 1], k, lt)]
  <2>1. ASSUME NEW r \in 0 .. n
        PROVE  g[r] = IF r = 0 THEN x0 ELSE RoundUp(g[r - 1], k, lt)
    <3>1. CASE r = 0
      BY <1>5, <3>1 DEF RepeatsUpTo
    <3>2. CASE r # 0
      <4>1. r \in 1 .. n /\ r - 1 \in Nat
        BY <1>1, <3>2
      <4>2. g[r] = step[r - 1][g[r - 1]] /\ g[r - 1] \in HoleBox(n, m)
        BY <1>5, <4>1 DEF RepeatsUpTo
      <4> QED
        BY <3>2, <4>1, <4>2
    <3> QED
      BY <3>1, <3>2
  <2> QED
    BY <1>5, <2>1 DEF RepeatsUpTo
<1>7. x = [r \in 0 .. n |-> IF r = 0 THEN x0 ELSE RoundUp(x[r - 1], k, lt)]
  <2>1. x = CHOOSE f : f = [r \in 0 .. n |-> IF r = 0 THEN x0 ELSE RoundUp(f[r - 1], k, lt)]
    BY <1>2 DEF x
  <2>2. \E f : f = [r \in 0 .. n |-> IF r = 0 THEN x0 ELSE RoundUp(f[r - 1], k, lt)]
    BY <1>6
  <2> HIDE DEF x
  <2> QED
    BY <2>1, <2>2, Zenon
<1> HIDE DEF x
<1>8. x[0] = x0
  BY <1>1, <1>7
<1>9. ASSUME NEW r \in Nat, r + 1 <= n
      PROVE  x[r + 1] = RoundUp(x[r], k, lt)
  <2>1. r + 1 \in 0 .. n /\ r + 1 # 0 /\ (r + 1) - 1 = r
    BY <1>1, <1>9
  <2> QED
    BY <1>7, <2>1
<1>10. RoundsUp(x, h, i, n, lt)
  BY <1>8, <1>9 DEF RoundsUp, k, x0
<1> QED
  BY <1>3, <1>10 DEF k

\* A key that is less than its parent goes up to where it belongs.
LEMMA PercolatesUp ==
    ASSUME NEW n \in Nat \ {0}, NEW m \in Nat, NEW pr \in [Keys -> Nat], NEW h \in HeapBox(n, m),
           Positions(h), NEW i \in 0 .. n - 1,
           OrderedAbove(h.heap, pr, i + 1)
    PROVE  /\ SameKeys(PercolateUp(h, i, LessBy(pr)), h, n, m)
           /\ Ordered(PercolateUp(h, i, LessBy(pr)).heap, pr, 1)
<1> DEFINE lt == LessBy(pr)
           k == At(h.heap, i)
           x0 == [h |-> h, i |-> i]
<1>1. /\ x0 \in HoleBox(n, m) /\ k \in Keys /\ k = h.heap[i + 1] /\ Filled(x0, k) = h
      /\ HoleOf(x0, k, h, n, m) /\ n \in Nat
  <2>1. n \in Nat
    OBVIOUS
  <2> QED
    BY <2>1, FilledAgain
<1>2. PICK x : RoundsUp(x, h, i, n, lt) /\ PercolateUp(h, i, lt) = Filled(x[n], k)
  BY RoundsUpExist
<1>3. x0.i = i /\ i \in Nat /\ x[0] = x0
  BY <1>2 DEF RoundsUp
<1>4. \A r \in Nat : r + 1 <= n => x[r + 1] = RoundUp(x[r], k, lt)
  BY <1>2 DEF RoundsUp
<1> HIDE DEF lt, k, x0
<1> DEFINE S == {r \in Nat : r <= n => UpState(x[r], k, pr, h, n, m, r)}
<1>5. 0 \in S
  <2>1. OrderedAbove(Filled(x0, k).heap, pr, x0.i + 1) /\ x0.i + 0 < n
    BY <1>1, <1>3
  <2> QED
    BY <1>1, <1>3, <2>1 DEF UpState
<1>6. ASSUME NEW r \in Nat, r \in S
      PROVE  r + 1 \in S
  <2> SUFFICES ASSUME r + 1 <= n PROVE UpState(x[r + 1], k, pr, h, n, m, r + 1)
    OBVIOUS
  <2>1. UpState(x[r], k, pr, h, n, m, r)
    BY <1>1, <1>6
  <2>2. x[r + 1] = RoundUp(x[r], k, lt)
    BY <1>4
  <2> QED
    BY <1>1, <2>1, <2>2, RoundUpKeeps DEF lt
<1>7. UpState(x[n], k, pr, h, n, m, n)
  <2>1. Nat \subseteq S
    <3> HIDE DEF S
    <3> QED
      BY <1>5, <1>6, InductionOn
  <2>2. n \in S
    BY <1>1, <2>1
  <2> QED
    BY <1>1, <2>2
<1>8. HoleOf(x[n], k, h, n, m) /\ Ordered(Filled(x[n], k).heap, pr, 1)
  <2>1. HoleOf(x[n], k, h, n, m)
    BY <1>7 DEF UpState
  <2>2. x[n].i \in 0 .. n - 1
    BY <1>1, <2>1, HoleFacts
  <2>3. ~(x[n].i + n < n)
    BY <1>1, <2>2
  <2> QED
    BY <1>7, <2>1, <2>3 DEF UpState
<1> QED
  BY <1>2, <1>8 DEF SameKeys, HoleOf, lt

\* The rounds of percolateDown().
RoundsDown(x, h, i, n, lt) ==
    /\ x[0] = [h |-> h, i |-> i]
    /\ \A r \in Nat : r + 1 <= n => x[r + 1] = RoundDown(x[r], At(h.heap, i), lt)

\* The same of percolateDown().
LEMMA RoundsDownExist ==
    ASSUME NEW n \in Nat \ {0}, NEW m \in Nat, NEW h \in HeapBox(n, m), NEW i \in 0 .. n - 1, NEW lt
    PROVE  \E x : /\ RoundsDown(x, h, i, n, lt)
                  /\ PercolateDown(h, i, lt) = Filled(x[n], At(h.heap, i))
<1> DEFINE k == At(h.heap, i)
           x0 == [h |-> h, i |-> i]
           x[r \in 0 .. Len(h.heap)] == IF r = 0 THEN x0 ELSE RoundDown(x[r - 1], k, lt)
           step == [r \in Nat |-> [y \in HoleBox(n, m) |-> RoundDown(y, k, lt)]]
<1>1. x0 \in HoleBox(n, m) /\ n \in Nat
  BY DEF HoleBox
<1>2. Len(h.heap) = n
  BY DEF HeapBox
<1>3. PercolateDown(h, i, lt) = Filled(x[n], k)
  BY <1>2 DEF PercolateDown, Filled
<1>4. step \in Steps(HoleBox(n, m))
  BY RoundDownType DEF Steps
<1> HIDE DEF k, x0
<1>5. PICK g : RepeatsUpTo(g, n, HoleBox(n, m), x0, step)
  <2> HIDE DEF step
  <2> QED
    BY <1>1, <1>4, IterationUpTo
<1>6. g = [r \in 0 .. n |-> IF r = 0 THEN x0 ELSE RoundDown(g[r - 1], k, lt)]
  <2>1. ASSUME NEW r \in 0 .. n
        PROVE  g[r] = IF r = 0 THEN x0 ELSE RoundDown(g[r - 1], k, lt)
    <3>1. CASE r = 0
      BY <1>5, <3>1 DEF RepeatsUpTo
    <3>2. CASE r # 0
      <4>1. r \in 1 .. n /\ r - 1 \in Nat
        BY <1>1, <3>2
      <4>2. g[r] = step[r - 1][g[r - 1]] /\ g[r - 1] \in HoleBox(n, m)
        BY <1>5, <4>1 DEF RepeatsUpTo
      <4> QED
        BY <3>2, <4>1, <4>2
    <3> QED
      BY <3>1, <3>2
  <2> QED
    BY <1>5, <2>1 DEF RepeatsUpTo
<1>7. x = [r \in 0 .. n |-> IF r = 0 THEN x0 ELSE RoundDown(x[r - 1], k, lt)]
  <2>1. x = CHOOSE f : f = [r \in 0 .. n |-> IF r = 0 THEN x0 ELSE RoundDown(f[r - 1], k, lt)]
    BY <1>2 DEF x
  <2>2. \E f : f = [r \in 0 .. n |-> IF r = 0 THEN x0 ELSE RoundDown(f[r - 1], k, lt)]
    BY <1>6
  <2> HIDE DEF x
  <2> QED
    BY <2>1, <2>2, Zenon
<1> HIDE DEF x
<1>8. x[0] = x0
  BY <1>1, <1>7
<1>9. ASSUME NEW r \in Nat, r + 1 <= n
      PROVE  x[r + 1] = RoundDown(x[r], k, lt)
  <2>1. r + 1 \in 0 .. n /\ r + 1 # 0 /\ (r + 1) - 1 = r
    BY <1>1, <1>9
  <2> QED
    BY <1>7, <2>1
<1>10. RoundsDown(x, h, i, n, lt)
  BY <1>8, <1>9 DEF RoundsDown, k, x0
<1> QED
  BY <1>3, <1>10 DEF k

\* A key that is greater than a child goes down to where it belongs.
LEMMA PercolatesDown ==
    ASSUME NEW n \in Nat \ {0}, NEW m \in Nat, NEW pr \in [Keys -> Nat], NEW h \in HeapBox(n, m),
           Positions(h), NEW i \in 0 .. n - 1,
           NEW lo \in Nat, i + 1 >= lo, OrderedBelow(h.heap, pr, lo, i + 1)
    PROVE  /\ SameKeys(PercolateDown(h, i, LessBy(pr)), h, n, m)
           /\ Ordered(PercolateDown(h, i, LessBy(pr)).heap, pr, lo)
<1> DEFINE lt == LessBy(pr)
           k == At(h.heap, i)
           x0 == [h |-> h, i |-> i]
<1>1. /\ x0 \in HoleBox(n, m) /\ k \in Keys /\ k = h.heap[i + 1] /\ Filled(x0, k) = h
      /\ HoleOf(x0, k, h, n, m) /\ n \in Nat
  <2>1. n \in Nat
    OBVIOUS
  <2> QED
    BY <2>1, FilledAgain
<1>2. PICK x : RoundsDown(x, h, i, n, lt) /\ PercolateDown(h, i, lt) = Filled(x[n], k)
  BY RoundsDownExist
<1>3. x0.i = i /\ i \in Nat /\ x[0] = x0
  BY <1>2 DEF RoundsDown
<1>4. \A r \in Nat : r + 1 <= n => x[r + 1] = RoundDown(x[r], k, lt)
  BY <1>2 DEF RoundsDown
<1> HIDE DEF lt, k, x0
<1> DEFINE S == {r \in Nat : r <= n => DownState(x[r], k, pr, h, n, m, lo, r)}
<1>5. 0 \in S
  <2>1. OrderedBelow(Filled(x0, k).heap, pr, lo, x0.i + 1) /\ x0.i + 1 >= lo /\ 0 <= x0.i
    BY <1>1, <1>3
  <2> QED
    BY <1>1, <1>3, <2>1 DEF DownState
<1>6. ASSUME NEW r \in Nat, r \in S
      PROVE  r + 1 \in S
  <2> SUFFICES ASSUME r + 1 <= n PROVE DownState(x[r + 1], k, pr, h, n, m, lo, r + 1)
    OBVIOUS
  <2>1. DownState(x[r], k, pr, h, n, m, lo, r)
    BY <1>1, <1>6
  <2>2. x[r + 1] = RoundDown(x[r], k, lt)
    BY <1>4
  <2> QED
    BY <1>1, <2>1, <2>2, RoundDownKeeps DEF lt
<1>7. DownState(x[n], k, pr, h, n, m, lo, n)
  <2>1. Nat \subseteq S
    <3> HIDE DEF S
    <3> QED
      BY <1>5, <1>6, InductionOn
  <2>2. n \in S
    BY <1>1, <2>1
  <2> QED
    BY <1>1, <2>2
<1>8. HoleOf(x[n], k, h, n, m) /\ Ordered(Filled(x[n], k).heap, pr, lo)
  <2>1. HoleOf(x[n], k, h, n, m)
    BY <1>7 DEF DownState
  <2>2. x[n].i \in 0 .. n - 1
    BY <1>1, <2>1, HoleFacts
  <2>3. ~(n <= x[n].i)
    BY <1>1, <2>2
  <2> QED
    BY <1>7, <2>1, <2>3 DEF DownState
<1> QED
  BY <1>2, <1>8 DEF SameKeys, HoleOf, lt

-------------------------------------------------------------------------------
(* The methods.                                                                *)

\* What HeapOK says of a heap, with the types of its keys and positions; below lo
\* only, while build() is at work.
HeapBelow(h, pr, n, m, lo) ==
    h \in HeapBox(n, m) /\ Positions(h) /\ Ordered(h.heap, pr, lo)

HeapRep(h, pr) == \E n, m \in Nat : HeapBelow(h, pr, n, m, 1)

HeapKeys(h) == Range(h.heap)

\* What follows of a heap whose positions are right: no key is in it twice.
LEMMA HeapFacts ==
    ASSUME NEW n \in Nat, NEW m \in Nat, NEW h \in HeapBox(n, m), Positions(h)
    PROVE  /\ h.heap \in [1 .. n -> Keys] /\ h.indices \in [1 .. m -> Int]
           /\ h = [heap |-> h.heap, indices |-> h.indices]
           /\ Len(h.heap) = n /\ Len(h.indices) = m /\ DOMAIN h.heap = 1 .. n
           /\ h.heap \in Seq(Keys) /\ h.indices \in Seq(Int)
           /\ \A l \in 1 .. n : h.heap[l] \in Nat /\ h.heap[l] + 1 \in 1 .. m
                                /\ h.indices[h.heap[l] + 1] = l - 1
           /\ \A l \in 1 .. m : h.indices[l] >= 0 =>
                    h.indices[l] + 1 \in 1 .. n /\ h.heap[h.indices[l] + 1] = l - 1
           /\ IsInjective(h.heap)
<1>1. /\ h.heap \in [1 .. n -> Keys] /\ h.indices \in [1 .. m -> Int]
      /\ h = [heap |-> h.heap, indices |-> h.indices]
  BY DEF HeapBox
<1>2. Len(h.heap) = n /\ Len(h.indices) = m /\ h.heap \in Seq(Keys) /\ h.indices \in Seq(Int)
  BY <1>1
<1>3. \A l \in 1 .. n : h.heap[l] \in Nat
  BY <1>1, KeysAreNumbers
<1>4. /\ \A l \in 1 .. n : h.heap[l] + 1 \in 1 .. m /\ h.indices[h.heap[l] + 1] = l - 1
      /\ \A l \in 1 .. m : h.indices[l] >= 0 =>
               h.indices[l] + 1 \in 1 .. n /\ h.heap[h.indices[l] + 1] = l - 1
  BY <1>1 DEF Positions
<1>5. IsInjective(h.heap)
  <2> SUFFICES ASSUME NEW i \in 1 .. n, NEW j \in 1 .. n, h.heap[i] = h.heap[j] PROVE i = j
    BY <1>1 DEF IsInjective
  <2>1. i - 1 = j - 1
    BY <1>4
  <2> QED
    BY <2>1
<1> QED
  BY <1>1, <1>2, <1>3, <1>4, <1>5

\* inHeap() tells the keys.
LEMMA InHeapMeans ==
    ASSUME NEW n \in Nat, NEW m \in Nat, NEW h \in HeapBox(n, m), Positions(h), NEW k \in Keys
    PROVE  /\ InHeap(h, k) <=> k \in HeapKeys(h)
           /\ InHeap(h, k) => /\ k + 1 \in 1 .. m /\ At(h.indices, k) = h.indices[k + 1]
                              /\ At(h.indices, k) \in 0 .. n - 1 /\ At(h.heap, At(h.indices, k)) = k
                              /\ h.heap[At(h.indices, k) + 1] = k
<1>1. k \in Nat /\ (k + 1) - 1 = k
  BY KeysAreNumbers
<1>2. InHeap(h, k) <=> k + 1 \in 1 .. m /\ h.indices[k + 1] >= 0
  BY <1>1, HeapFacts DEF InHeap, At
<1>3. ASSUME InHeap(h, k)
      PROVE  /\ k + 1 \in 1 .. m /\ h.indices[k + 1] + 1 \in 1 .. n
             /\ h.heap[h.indices[k + 1] + 1] = k
  BY <1>1, <1>2, <1>3, HeapFacts
<1>4. ASSUME InHeap(h, k)
      PROVE  h.indices[k + 1] \in 0 .. n - 1
  <2>1. h.indices[k + 1] \in Int
    BY <1>3, <1>4, HeapFacts
  <2> QED
    BY <1>3, <1>4, <2>1
<1>5. ASSUME k \in HeapKeys(h) PROVE InHeap(h, k)
  <2>0. DOMAIN h.heap = 1 .. n
    BY HeapFacts
  <2>1. PICK l \in 1 .. n : h.heap[l] = k
    BY <1>5, <2>0 DEF HeapKeys, Range
  <2>2. k + 1 \in 1 .. m /\ h.indices[k + 1] = l - 1
    BY <2>1, HeapFacts
  <2> QED
    BY <1>2, <2>1, <2>2
<1>6. ASSUME InHeap(h, k) PROVE k \in HeapKeys(h)
  BY <1>3, <1>6, HeapFacts DEF HeapKeys, Range
<1> QED
  BY <1>3, <1>4, <1>5, <1>6 DEF At

KeyAt(h, k, i, n) == i \in 0 .. n - 1 /\ i + 1 \in 1 .. n /\ h.heap[i + 1] = k

\* The position of a key inside is where it is.
LEMMA PositionOf ==
    ASSUME NEW n \in Nat, NEW m \in Nat, NEW h \in HeapBox(n, m), Positions(h), NEW k \in Keys,
           InHeap(h, k)
    PROVE  KeyAt(h, k, At(h.indices, k), n)
<1>1. At(h.indices, k) \in 0 .. n - 1 /\ h.heap[At(h.indices, k) + 1] = k
  BY InHeapMeans
<1> DEFINE i == At(h.indices, k)
<1> HIDE DEF i
<1>2. i \in 0 .. n - 1 => i + 1 \in 1 .. n
  OBVIOUS
<1> QED
  BY <1>1, <1>2 DEF i, KeyAt

\* A parent is not greater than its child, nor than the child of that.
LEMMA OrderedAll ==
    ASSUME NEW n \in Nat, NEW pr \in [Keys -> Nat], NEW s \in [1 .. n -> Keys], Ordered(s, pr, 1)
    PROVE  \A i \in 1 .. n : i > 1 => i \div 2 \in 1 .. n /\ i \div 2 < i /\ pr[s[i \div 2]] <= pr[s[i]]
<1> SUFFICES ASSUME NEW i \in 1 .. n, i > 1
             PROVE  i \div 2 \in 1 .. n /\ i \div 2 < i /\ pr[s[i \div 2]] <= pr[s[i]]
  OBVIOUS
<1>1. i \div 2 \in 1 .. n /\ i \div 2 < i /\ i \div 2 >= 1
  BY Halves
<1> QED
  BY <1>1 DEF Ordered

\* The keys have the same priorities, but for the one at j.
SameBut(s, pr, q, j) == \A i \in DOMAIN s : i # j => q[s[i]] = pr[s[i]]

\* A key that went down has its children above it, one that went up its parent below.
LEMMA OrderedAround ==
    ASSUME NEW n \in Nat, NEW pr \in [Keys -> Nat], NEW s \in [1 .. n -> Keys], NEW lo \in Nat,
           NEW j \in 1 .. n, Ordered(s, pr, 1),
           NEW q \in [Keys -> Nat], SameBut(s, pr, q, j)
    PROVE  /\ q[s[j]] <= pr[s[j]] => OrderedAbove(s, q, j)
           /\ q[s[j]] >= pr[s[j]] => OrderedBelow(s, q, 1, j)
<1> DEFINE a(i) == pr[s[i]]
           b(i) == q[s[i]]
<1>1. /\ \A i \in 1 .. n : a(i) \in Nat /\ b(i) \in Nat
      /\ \A i \in 1 .. n : i # j => b(i) = a(i)
      /\ \A i \in 1 .. n : i > 1 => i \div 2 \in 1 .. n /\ i \div 2 < i /\ a(i \div 2) <= a(i)
  BY OrderedAll DEF SameBut
<1> HIDE DEF a, b
<1>2. ASSUME NEW i \in 1 .. n, i > 1, i \div 2 = j, j > 1
      PROVE  b(j \div 2) <= b(i)
  <2>1. j \div 2 \in 1 .. n /\ j \div 2 < j /\ a(j \div 2) <= a(j)
    BY <1>1, <1>2
  <2>2. i # j /\ a(j) <= a(i)
    <3> DEFINE p == i \div 2
    <3>1. p < i /\ a(p) <= a(i) /\ p = j
      BY <1>1, <1>2
    <3> HIDE DEF p
    <3> QED
      BY <3>1
  <2>3. a(j \div 2) \in Nat /\ a(j) \in Nat /\ a(i) \in Nat
    BY <1>1, <2>1
  <2>4. b(j \div 2) = a(j \div 2) /\ b(i) = a(i)
    BY <1>1, <2>1, <2>2
  <2> QED
    BY <2>1, <2>2, <2>3, <2>4
<1>3. ASSUME b(j) <= a(j), NEW i \in 1 .. n, i > 1, i # j
      PROVE  b(i \div 2) <= b(i)
  <2> DEFINE p == i \div 2
  <2>1. p \in 1 .. n /\ a(p) <= a(i)
    BY <1>1, <1>3
  <2> HIDE DEF p
  <2>2. a(p) \in Nat /\ b(p) \in Nat /\ a(i) \in Nat /\ b(i) = a(i)
    BY <1>1, <1>3, <2>1
  <2>3. b(p) <= a(p)
    <3>1. CASE p = j
      BY <1>3, <3>1
    <3>2. CASE p # j
      BY <1>1, <2>1, <2>2, <3>2
    <3> QED
      BY <3>1, <3>2
  <2>4. b(p) <= b(i)
    BY <2>1, <2>2, <2>3
  <2> QED
    BY <2>4 DEF p
<1>4. ASSUME b(j) >= a(j), NEW i \in 1 .. n, i > 1, i \div 2 # j
      PROVE  b(i \div 2) <= b(i)
  <2> DEFINE p == i \div 2
  <2>1. p \in 1 .. n /\ a(p) <= a(i) /\ p # j
    BY <1>1, <1>4
  <2> HIDE DEF p
  <2>2. a(p) \in Nat /\ b(i) \in Nat /\ a(i) \in Nat /\ b(p) = a(p)
    BY <1>1, <1>4, <2>1
  <2>3. a(i) <= b(i)
    BY <1>1, <1>4, <2>2
  <2>4. b(p) <= b(i)
    BY <2>1, <2>2, <2>3
  <2> QED
    BY <2>4 DEF p
<1> QED
  BY <1>2, <1>3, <1>4 DEF OrderedAbove, OrderedBelow, a, b

\* No key is less than the first.
LEMMA FirstIsLeast ==
    ASSUME NEW n \in Nat, NEW pr \in [Keys -> Nat], NEW s \in [1 .. n -> Keys], Ordered(s, pr, 1)
    PROVE  \A i \in 1 .. n : pr[s[1]] <= pr[s[i]]
<1> DEFINE a(i) == pr[s[i]]
           S == {d \in Nat : \A i \in 1 .. n : i <= d => a(1) <= a(i)}
<1>1. /\ \A i \in 1 .. n : a(i) \in Nat
      /\ \A i \in 1 .. n : i > 1 => i \div 2 \in 1 .. n /\ i \div 2 < i /\ a(i \div 2) <= a(i)
  BY OrderedAll
<1> HIDE DEF a
<1>2. 0 \in S
  OBVIOUS
<1>3. ASSUME NEW d \in Nat, d \in S
      PROVE  d + 1 \in S
  <2> SUFFICES ASSUME NEW i \in 1 .. n, i <= d + 1 PROVE a(1) <= a(i)
    OBVIOUS
  <2>1. CASE i = 1
    BY <1>1, <2>1
  <2>2. CASE i # 1
    <3>1. i > 1 /\ 1 \in 1 .. n
      BY <2>2
    <3>2. i \div 2 \in 1 .. n /\ i \div 2 <= d /\ a(i \div 2) <= a(i)
      BY <1>1, <3>1
    <3>3. a(1) <= a(i \div 2)
      BY <1>3, <3>2
    <3>4. a(1) \in Nat /\ a(i) \in Nat /\ a(i \div 2) \in Nat
      BY <1>1, <3>1, <3>2
    <3> QED
      BY <3>2, <3>3, <3>4
  <2> QED
    BY <2>1, <2>2
<1>4. n \in S
  <2>1. Nat \subseteq S
    <3> HIDE DEF S
    <3> QED
      BY <1>2, <1>3, InductionOn
  <2> QED
    BY <2>1
<1> QED
  BY <1>4 DEF a

\* insert(): the heap is longer by the key, the positions by -1 up to the key.
WithLast(h, k) ==
    [heap |-> Append(h.heap, k), indices |-> Put(Reserve(h.indices, k, -1), k, Len(h.heap))]

\* Only the new last key may be out of order.
LEMMA InsertedAtEnd ==
    ASSUME NEW n \in Nat, NEW m \in Nat, NEW h \in HeapBox(n, m), Positions(h),
           NEW k \in Keys, k \notin HeapKeys(h), NEW pr \in [Keys -> Nat], Ordered(h.heap, pr, 1)
    PROVE  /\ WithLast(h, k) \in HeapBox(n + 1, Larger(m, k + 1)) /\ Larger(m, k + 1) \in Nat
           /\ Positions(WithLast(h, k)) /\ HeapKeys(WithLast(h, k)) = HeapKeys(h) \cup {k}
           /\ OrderedAbove(WithLast(h, k).heap, pr, n + 1)
<1> DEFINE M == Larger(m, k + 1)
           f == Reserve(h.indices, k, -1)
           w == WithLast(h, k)
<1>1. /\ h.heap \in [1 .. n -> Keys] /\ h.indices \in [1 .. m -> Int]
      /\ Len(h.heap) = n /\ Len(h.indices) = m /\ h.heap \in Seq(Keys) /\ h.indices \in Seq(Int)
      /\ \A l \in 1 .. n : h.heap[l] \in Nat /\ h.heap[l] + 1 \in 1 .. m
                           /\ h.indices[h.heap[l] + 1] = l - 1
      /\ \A l \in 1 .. m : h.indices[l] >= 0 =>
               h.indices[l] + 1 \in 1 .. n /\ h.heap[h.indices[l] + 1] = l - 1
      /\ DOMAIN h.heap = 1 .. n
  BY HeapFacts
<1>2. k \in Nat
  BY KeysAreNumbers
<1>3. M \in Nat /\ M >= m /\ k + 1 \in 1 .. M /\ (\A l \in 1 .. m : l \in 1 .. M)
  BY <1>2 DEF Larger
<1>4. f = [l \in 1 .. M |-> IF l <= m THEN h.indices[l] ELSE -1]
  BY <1>1 DEF Reserve
<1> HIDE DEF M, f
<1>5. f \in [1 .. M -> Int] /\ (\A l \in 1 .. M : f[l] = IF l <= m THEN h.indices[l] ELSE -1)
  <2>1. \A l \in 1 .. M : (IF l <= m THEN h.indices[l] ELSE -1) \in Int
    <3> TAKE l \in 1 .. M
    <3>1. l <= m => l \in 1 .. m
      BY <1>3
    <3> QED
      BY <1>1, <3>1
  <2> QED
    BY <1>4, <2>1
<1>6. /\ w.heap = Append(h.heap, k) /\ w.indices = [f EXCEPT ![k + 1] = n]
      /\ w = [heap |-> w.heap, indices |-> w.indices]
  BY <1>1 DEF Put, WithLast, f
<1> HIDE DEF w
<1>7. /\ w.heap \in [1 .. n + 1 -> Keys] /\ w.heap[n + 1] = k /\ DOMAIN w.heap = 1 .. n + 1
      /\ \A l \in 1 .. n : l \in 1 .. n + 1 /\ w.heap[l] = h.heap[l]
  <2>1. Append(h.heap, k) \in Seq(Keys) /\ Len(Append(h.heap, k)) = n + 1
    BY <1>1
  <2>2. Append(h.heap, k)[n + 1] = k /\ \A l \in 1 .. n : Append(h.heap, k)[l] = h.heap[l]
    BY <1>1
  <2>3. DOMAIN Append(h.heap, k) = 1 .. n + 1
    BY <1>1
  <2>4. Append(h.heap, k) \in [1 .. n + 1 -> Keys]
    <3> DEFINE a == Append(h.heap, k)
               N == n + 1
    <3>1. a \in Seq(Keys) /\ Len(a) = N
      BY <2>1
    <3> HIDE DEF a, N
    <3>2. a \in [1 .. N -> Keys]
      BY <3>1
    <3> QED
      BY <3>2 DEF a, N
  <2> QED
    BY <1>6, <2>2, <2>3, <2>4
<1>8. /\ w.indices \in [1 .. M -> Int] /\ w.indices[k + 1] = n /\ DOMAIN w.indices = 1 .. M
      /\ \A l \in 1 .. M : l # k + 1 => w.indices[l] = f[l]
  <2> DEFINE c == k + 1
  <2>1. c \in 1 .. M /\ n \in Int
    BY <1>3
  <2> HIDE DEF c
  <2>2. w.indices = [f EXCEPT ![c] = n]
    BY <1>6 DEF c
  <2>3. /\ w.indices \in [1 .. M -> Int] /\ w.indices[c] = n
        /\ \A l \in 1 .. M : l # c => w.indices[l] = f[l]
    BY <1>5, <2>1, <2>2
  <2> QED
    BY <2>3 DEF c
<1>9. w \in HeapBox(n + 1, M)
  BY <1>6, <1>7, <1>8 DEF HeapBox
<1>10. \A l \in 1 .. n + 1 : l = n + 1 \/ l \in 1 .. n
  OBVIOUS
<1>11. \A l \in 1 .. n : h.heap[l] # k
  BY <1>1 DEF HeapKeys, Range
<1>12. ASSUME NEW l \in 1 .. n + 1
       PROVE  w.heap[l] + 1 \in 1 .. M /\ w.indices[w.heap[l] + 1] = l - 1
  <2>1. CASE l = n + 1
    BY <1>3, <1>7, <1>8, <2>1
  <2>2. CASE l \in 1 .. n
    <3> DEFINE b == h.heap[l]
    <3>1. b \in Nat /\ b + 1 \in 1 .. m /\ h.indices[b + 1] = l - 1 /\ w.heap[l] = b /\ b # k
      BY <1>1, <1>7, <1>11, <2>2
    <3> HIDE DEF b
    <3>2. b + 1 \in 1 .. M /\ b + 1 # k + 1 /\ b + 1 <= m
      BY <1>2, <1>3, <3>1
    <3>3. w.indices[b + 1] = h.indices[b + 1]
      BY <1>5, <1>8, <3>2
    <3> QED
      BY <3>1, <3>2, <3>3
  <2> QED
    BY <1>10, <2>1, <2>2
<1>13. ASSUME NEW l \in 1 .. M, w.indices[l] >= 0
       PROVE  w.indices[l] + 1 \in 1 .. n + 1 /\ w.heap[w.indices[l] + 1] = l - 1
  <2>1. CASE l = k + 1
    <3>1. w.indices[l] = n /\ n + 1 \in 1 .. n + 1 /\ k = l - 1
      BY <1>2, <1>8, <2>1
    <3> QED
      BY <1>7, <3>1
  <2>2. CASE l # k + 1
    <3>1. w.indices[l] = IF l <= m THEN h.indices[l] ELSE -1
      BY <1>5, <1>8, <2>2
    <3>2. l \in 1 .. m /\ w.indices[l] = h.indices[l]
      BY <1>3, <1>13, <3>1
    <3>3. h.indices[l] + 1 \in 1 .. n /\ h.heap[h.indices[l] + 1] = l - 1
      BY <1>1, <1>13, <3>2
    <3> QED
      BY <1>7, <3>2, <3>3
  <2> QED
    BY <2>1, <2>2
<1>14. Positions(w)
  BY <1>7, <1>8, <1>12, <1>13 DEF Positions
<1>15. HeapKeys(w) = HeapKeys(h) \cup {k}
  <2>1. /\ \A x : x \in HeapKeys(w) <=> \E l \in 1 .. n + 1 : w.heap[l] = x
        /\ \A x : x \in HeapKeys(h) <=> \E l \in 1 .. n : h.heap[l] = x
    BY <1>1, <1>7 DEF HeapKeys, Range
  <2>2. n + 1 \in 1 .. n + 1
    OBVIOUS
  <2> QED
    BY <1>7, <1>10, <2>1, <2>2
<1>16. OrderedAbove(w.heap, pr, n + 1)
  <2>1. ASSUME NEW i \in 1 .. n + 1, i > 1, i # n + 1
        PROVE  pr[w.heap[i \div 2]] <= pr[w.heap[i]]
    <3>1. i \in 1 .. n
      BY <1>10, <2>1
    <3>2. i \div 2 \in 1 .. n /\ pr[h.heap[i \div 2]] <= pr[h.heap[i]]
      BY <1>1, <2>1, <3>1, OrderedAll
    <3> QED
      BY <1>7, <3>1, <3>2
  <2>2. ASSUME NEW i \in 1 .. n + 1, i > 1
        PROVE  i \div 2 # n + 1
    BY <2>2
  <2> QED
    BY <1>7, <2>1, <2>2 DEF OrderedAbove
<1> QED
  BY <1>3, <1>9, <1>14, <1>15, <1>16 DEF w, M, f

\* insert() puts the key where it belongs.
LEMMA InsertAddsKey ==
    ASSUME NEW h, NEW pr \in [Keys -> Nat], HeapRep(h, pr), NEW k \in Keys, k \notin HeapKeys(h)
    PROVE  /\ HeapRep(HeapInsert(h, k, LessBy(pr)), pr)
           /\ HeapKeys(HeapInsert(h, k, LessBy(pr))) = HeapKeys(h) \cup {k}
<1>1. PICK n \in Nat, m \in Nat : HeapBelow(h, pr, n, m, 1)
  BY DEF HeapRep
<1> DEFINE w == WithLast(h, k)
           M == Larger(m, k + 1)
           r == HeapInsert(h, k, LessBy(pr))
<1>2. h \in HeapBox(n, m) /\ Positions(h) /\ Ordered(h.heap, pr, 1)
  BY <1>1 DEF HeapBelow
<1>3. /\ w \in HeapBox(n + 1, M) /\ M \in Nat /\ Positions(w)
      /\ HeapKeys(w) = HeapKeys(h) \cup {k} /\ OrderedAbove(w.heap, pr, n + 1)
  BY <1>2, InsertedAtEnd
<1>4. r = PercolateUp(w, n, LessBy(pr))
  <2>1. Len(h.heap) = n
    BY <1>2, HeapFacts
  <2> QED
    BY <2>1 DEF HeapInsert, WithLast
<1> HIDE DEF w, M, r
<1>5. n + 1 \in Nat \ {0} /\ n \in 0 .. (n + 1) - 1
  OBVIOUS
<1>6. SameKeys(r, w, n + 1, M) /\ Ordered(r.heap, pr, 1)
  BY <1>3, <1>4, <1>5, PercolatesUp
<1>7. HeapBelow(r, pr, n + 1, M, 1) /\ HeapKeys(r) = HeapKeys(w)
  BY <1>6 DEF SameKeys, HeapBelow, HeapKeys
<1>8. HeapRep(r, pr)
  BY <1>3, <1>5, <1>7 DEF HeapRep
<1> QED
  BY <1>3, <1>7, <1>8 DEF r

\* A key that is not less than its parent stays where it is.
LEMMA StaysUp ==
    ASSUME NEW n \in Nat \ {0}, NEW m \in Nat, NEW pr \in [Keys -> Nat], NEW h \in HeapBox(n, m),
           Positions(h), NEW i \in 0 .. n - 1,
           i # 0 => ~(pr[h.heap[i + 1]] < pr[h.heap[(i + 1) \div 2]])
    PROVE  PercolateUp(h, i, LessBy(pr)) = h
<1> DEFINE lt == LessBy(pr)
           k == At(h.heap, i)
           x0 == [h |-> h, i |-> i]
           p == (i - 1) \div 2
<1>1. /\ k \in Keys /\ k = h.heap[i + 1] /\ Filled(x0, k) = h /\ n \in Nat
      /\ h.heap \in [1 .. n -> Keys]
  <2>1. n \in Nat
    OBVIOUS
  <2> QED
    BY <2>1, FilledAgain DEF HeapBox
<1>2. RoundUp(x0, k, lt) = x0
  <2>1. RoundUp(x0, k, lt) = IF i = 0 \/ <<k, At(h.heap, p)>> \notin lt THEN x0
                             ELSE [h |-> Place(h, i, At(h.heap, p)), i |-> p]
    BY DEF RoundUp
  <2>2. ASSUME i # 0 PROVE <<k, At(h.heap, p)>> \notin lt
    <3>1. i \in Nat
      OBVIOUS
    <3>2. p \in Nat /\ p < i /\ p + 1 = (i + 1) \div 2
      BY <2>2, <3>1, ParentPosition
    <3> HIDE DEF p
    <3>3. p + 1 \in 1 .. n
      BY <1>1, <3>2
    <3>4. At(h.heap, p) = h.heap[(i + 1) \div 2] /\ At(h.heap, p) \in Keys
      BY <1>1, <3>2, <3>3 DEF At
    <3>5. ~(pr[k] < pr[At(h.heap, p)])
      BY <1>1, <2>2, <3>4
    <3> HIDE DEF k
    <3> QED
      BY <1>1, <3>4, <3>5, LessMeans
  <2> HIDE DEF p, x0, k, lt
  <2> QED
    BY <2>1, <2>2
<1>3. PICK x : RoundsUp(x, h, i, n, lt) /\ PercolateUp(h, i, lt) = Filled(x[n], k)
  BY RoundsUpExist
<1>4. x[0] = x0 /\ \A r \in Nat : r + 1 <= n => x[r + 1] = RoundUp(x[r], k, lt)
  BY <1>3 DEF RoundsUp
<1> HIDE DEF lt, k, x0
<1> DEFINE S == {r \in Nat : r <= n => x[r] = x0}
<1>5. 0 \in S
  BY <1>4
<1>6. \A r \in Nat : r \in S => r + 1 \in S
  <2> SUFFICES ASSUME NEW r \in Nat, r \in S, r + 1 <= n PROVE x[r + 1] = x0
    OBVIOUS
  <2>1. x[r] = x0
    BY <1>1
  <2> QED
    BY <1>2, <1>4, <2>1
<1>7. Nat \subseteq S
  <2> HIDE DEF S
  <2> QED
    BY <1>5, <1>6, InductionOn
<1>8. x[n] = x0
  BY <1>1, <1>7
<1> QED
  BY <1>1, <1>3, <1>8 DEF lt

\* Only the priority of k has changed.
OnlyFor(k, pr, q) == \A x \in Keys : x # k => q[x] = pr[x]

\* No other place of the heap has the key.
LEMMA OthersKept ==
    ASSUME NEW n \in Nat, NEW m \in Nat, NEW h \in HeapBox(n, m), Positions(h), NEW k \in Keys,
           NEW pr \in [Keys -> Nat], NEW q \in [Keys -> Nat], OnlyFor(k, pr, q),
           NEW j \in 1 .. n, h.heap[j] = k
    PROVE  SameBut(h.heap, pr, q, j)
<1>1. h.heap \in [1 .. n -> Keys] /\ IsInjective(h.heap)
  BY HeapFacts
<1>2. \A i \in 1 .. n : i # j => h.heap[i] \in Keys /\ h.heap[i] # k
  BY <1>1 DEF IsInjective
<1> QED
  BY <1>1, <1>2 DEF OnlyFor, SameBut

\* A key has gone down or up by its new priority: decrease() and increase().
LEMMA DecreaseKeeps ==
    ASSUME NEW h, NEW pr \in [Keys -> Nat], HeapRep(h, pr), NEW k \in Keys, InHeap(h, k),
           NEW q \in [Keys -> Nat], OnlyFor(k, pr, q), q[k] <= pr[k]
    PROVE  /\ HeapRep(Decrease(h, k, LessBy(q)), q)
           /\ HeapKeys(Decrease(h, k, LessBy(q))) = HeapKeys(h)
<1>1. PICK n \in Nat, m \in Nat : HeapBelow(h, pr, n, m, 1)
  BY DEF HeapRep
<1> DEFINE i == At(h.indices, k)
           j == i + 1
           r == Decrease(h, k, LessBy(q))
<1>2. h \in HeapBox(n, m) /\ Positions(h) /\ Ordered(h.heap, pr, 1) /\ h.heap \in [1 .. n -> Keys]
  BY <1>1 DEF HeapBelow, HeapBox
<1>3. i \in 0 .. n - 1 /\ j \in 1 .. n /\ h.heap[j] = k
  BY <1>2, PositionOf DEF KeyAt
<1>4. r = PercolateUp(h, i, LessBy(q))
  BY DEF Decrease
<1> HIDE DEF i, r
<1>5. n \in Nat \ {0}
  BY <1>3
<1>7. OrderedAbove(h.heap, q, j)
  <2> HIDE DEF j
  <2>1. SameBut(h.heap, pr, q, j)
    BY <1>2, <1>3, OthersKept
  <2>2. q[h.heap[j]] <= pr[h.heap[j]]
    BY <1>3
  <2> QED
    BY <1>2, <1>3, <2>1, <2>2, OrderedAround
<1>8. SameKeys(r, h, n, m) /\ Ordered(r.heap, q, 1)
  BY <1>2, <1>3, <1>4, <1>5, <1>7, PercolatesUp
<1> QED
  BY <1>8 DEF SameKeys, HeapRep, HeapBelow, HeapKeys, r

\* The same of a priority that went up.
LEMMA IncreaseKeeps ==
    ASSUME NEW h, NEW pr \in [Keys -> Nat], HeapRep(h, pr), NEW k \in Keys, InHeap(h, k),
           NEW q \in [Keys -> Nat], OnlyFor(k, pr, q), q[k] >= pr[k]
    PROVE  /\ HeapRep(Increase(h, k, LessBy(q)), q)
           /\ HeapKeys(Increase(h, k, LessBy(q))) = HeapKeys(h)
<1>1. PICK n \in Nat, m \in Nat : HeapBelow(h, pr, n, m, 1)
  BY DEF HeapRep
<1> DEFINE i == At(h.indices, k)
           j == i + 1
           r == Increase(h, k, LessBy(q))
<1>2. h \in HeapBox(n, m) /\ Positions(h) /\ Ordered(h.heap, pr, 1) /\ h.heap \in [1 .. n -> Keys]
  BY <1>1 DEF HeapBelow, HeapBox
<1>3. i \in 0 .. n - 1 /\ j \in 1 .. n /\ h.heap[j] = k
  BY <1>2, PositionOf DEF KeyAt
<1>4. r = PercolateDown(h, i, LessBy(q))
  BY DEF Increase
<1> HIDE DEF i, r
<1>5. n \in Nat \ {0} /\ i + 1 >= 1
  BY <1>3
<1>7. OrderedBelow(h.heap, q, 1, j)
  <2> HIDE DEF j
  <2>1. SameBut(h.heap, pr, q, j)
    BY <1>2, <1>3, OthersKept
  <2>2. q[h.heap[j]] >= pr[h.heap[j]] /\ 1 \in Nat
    BY <1>3
  <2> QED
    BY <1>2, <1>3, <2>1, <2>2, OrderedAround
<1>8. SameKeys(r, h, n, m) /\ Ordered(r.heap, q, 1)
  BY <1>2, <1>3, <1>4, <1>5, <1>7, PercolatesDown
<1> QED
  BY <1>8 DEF SameKeys, HeapRep, HeapBelow, HeapKeys, r

\* A key outside the heap may have any priority.
LEMMA OutsideKeepsOrder ==
    ASSUME NEW h, NEW pr \in [Keys -> Nat], HeapRep(h, pr), NEW k \in Keys, k \notin HeapKeys(h),
           NEW q \in [Keys -> Nat], OnlyFor(k, pr, q)
    PROVE  HeapRep(h, q)
<1>1. PICK n \in Nat, m \in Nat : HeapBelow(h, pr, n, m, 1)
  BY DEF HeapRep
<1>2. h \in HeapBox(n, m) /\ Positions(h) /\ Ordered(h.heap, pr, 1) /\ h.heap \in [1 .. n -> Keys]
  BY <1>1 DEF HeapBelow, HeapBox
<1>3. \A i \in 1 .. n : q[h.heap[i]] = pr[h.heap[i]]
  BY <1>2 DEF OnlyFor, HeapKeys, Range
<1>4. Ordered(h.heap, q, 1)
  <2> SUFFICES ASSUME NEW i \in 1 .. n, i > 1 PROVE q[h.heap[i \div 2]] <= q[h.heap[i]]
    BY <1>2 DEF Ordered
  <2>1. i \div 2 \in 1 .. n /\ pr[h.heap[i \div 2]] <= pr[h.heap[i]]
    BY <1>2, OrderedAll
  <2> QED
    BY <1>3, <2>1
<1> QED
  BY <1>2, <1>4 DEF HeapRep, HeapBelow

\* update() moves the key up and then down: one of the two leaves it where it is.
LEMMA UpdateKeeps ==
    ASSUME NEW h, NEW pr \in [Keys -> Nat], HeapRep(h, pr), NEW k \in Keys,
           NEW q \in [Keys -> Nat], OnlyFor(k, pr, q)
    PROVE  /\ HeapRep(Update(h, k, LessBy(q)), q)
           /\ HeapKeys(Update(h, k, LessBy(q))) = HeapKeys(h) \cup {k}
<1>1. PICK n \in Nat, m \in Nat : HeapBelow(h, pr, n, m, 1)
  BY DEF HeapRep
<1>2. h \in HeapBox(n, m) /\ Positions(h) /\ Ordered(h.heap, pr, 1) /\ h.heap \in [1 .. n -> Keys]
  BY <1>1 DEF HeapBelow, HeapBox
<1>3. InHeap(h, k) <=> k \in HeapKeys(h)
  BY <1>2, InHeapMeans
<1>4. CASE ~InHeap(h, k)
  <2>1. Update(h, k, LessBy(q)) = HeapInsert(h, k, LessBy(q))
    BY <1>4 DEF Update
  <2>2. HeapRep(h, q)
    BY <1>3, <1>4, OutsideKeepsOrder
  <2> QED
    BY <1>3, <1>4, <2>1, <2>2, InsertAddsKey
<1>5. CASE InHeap(h, k)
  <2> DEFINE up == Decrease(h, k, LessBy(q))
  <2>1. Update(h, k, LessBy(q)) = Increase(up, k, LessBy(q)) /\ HeapKeys(h) = HeapKeys(h) \cup {k}
    BY <1>3, <1>5 DEF Update
  <2>2. q[k] \in Nat /\ pr[k] \in Nat
    OBVIOUS
  <2>3. CASE q[k] <= pr[k]
    <3>1. HeapRep(up, q) /\ HeapKeys(up) = HeapKeys(h)
      BY <1>5, <2>3, DecreaseKeeps
    <3> HIDE DEF up
    <3>2. PICK a \in Nat, b \in Nat : HeapBelow(up, q, a, b, 1)
      BY <3>1 DEF HeapRep
    <3>3. InHeap(up, k)
      BY <1>3, <1>5, <3>1, <3>2, InHeapMeans DEF HeapBelow
    <3>4. OnlyFor(k, q, q) /\ q[k] >= q[k]
      BY <2>2 DEF OnlyFor
    <3> QED
      BY <2>1, <3>1, <3>3, <3>4, IncreaseKeeps
  <2>4. CASE q[k] > pr[k]
    <3> DEFINE i == At(h.indices, k)
               j == i + 1
    <3>1. i \in 0 .. n - 1 /\ j \in 1 .. n /\ h.heap[j] = k
      BY <1>2, <1>5, PositionOf DEF KeyAt
    <3>2. up = PercolateUp(h, i, LessBy(q))
      BY DEF Decrease
    <3> HIDE DEF i, up
    <3>3. n \in Nat \ {0} /\ j \in 1 .. n
      BY <3>1
    <3>4. ASSUME i # 0 PROVE ~(q[h.heap[j]] < q[h.heap[j \div 2]])
      <4>1. j > 1
        BY <3>1, <3>4
      <4> HIDE DEF j
      <4>2. j \div 2 \in 1 .. n /\ j \div 2 < j /\ pr[h.heap[j \div 2]] <= pr[k]
        BY <1>2, <3>1, <3>3, <4>1, OrderedAll
      <4> DEFINE p == j \div 2
      <4> HIDE DEF p
      <4>3. p \in 1 .. n /\ p # j /\ pr[h.heap[p]] <= pr[k]
        BY <4>2 DEF p
      <4>4. q[h.heap[p]] = pr[h.heap[p]]
        <5>1. SameBut(h.heap, pr, q, j)
          BY <1>2, <3>1, OthersKept
        <5> QED
          BY <1>2, <4>3, <5>1 DEF SameBut
      <4>5. pr[h.heap[p]] \in Nat
        BY <1>2, <4>3
      <4>6. ~(q[k] < q[h.heap[p]])
        BY <2>2, <2>4, <4>3, <4>4, <4>5
      <4> QED
        BY <3>1, <4>6 DEF p
    <3>5. up = h
      BY <1>2, <3>1, <3>2, <3>3, <3>4, StaysUp
    <3> QED
      BY <1>5, <2>1, <2>2, <2>4, <3>5, IncreaseKeeps
  <2> QED
    BY <2>2, <2>3, <2>4
<1> QED
  BY <1>4, <1>5

\* removeMin(): the last key stands where the first was.
LastFirst(h) ==
    LET moved == Place(h, 0, Last(h.heap))
    IN  [heap |-> Front(moved.heap), indices |-> Put(moved.indices, At(h.heap, 0), -1)]

\* The heap lost its first key, also where that was the last.
LEMMA LastFirstMeans ==
    ASSUME NEW n \in Nat \ {0}, NEW m \in Nat, NEW h \in HeapBox(n, m), Positions(h)
    PROVE  /\ LastFirst(h) \in HeapBox(n - 1, m) /\ Positions(LastFirst(h))
           /\ \A l \in 1 .. n - 1 : LastFirst(h).heap[l] = IF l = 1 THEN h.heap[n] ELSE h.heap[l]
           /\ HeapKeys(LastFirst(h)) = HeapKeys(h) \ {h.heap[1]}
<1> DEFINE top == h.heap[1]
           last == h.heap[n]
           w == LastFirst(h)
           s == [h.heap EXCEPT ![1] = last]
           f == [[h.indices EXCEPT ![last + 1] = 0] EXCEPT ![top + 1] = -1]
<1>0. n \in Nat /\ n >= 1 /\ 1 \in 1 .. n /\ n \in 1 .. n
  OBVIOUS
<1>1. /\ h.heap \in [1 .. n -> Keys] /\ h.indices \in [1 .. m -> Int]
      /\ Len(h.heap) = n /\ IsInjective(h.heap) /\ DOMAIN h.heap = 1 .. n
      /\ \A l \in 1 .. n : h.heap[l] \in Nat /\ h.heap[l] + 1 \in 1 .. m
                           /\ h.indices[h.heap[l] + 1] = l - 1
  BY <1>0, HeapFacts
<1>2. \A l \in 1 .. m : h.indices[l] >= 0 =>
               h.indices[l] + 1 \in 1 .. n /\ h.heap[h.indices[l] + 1] = l - 1
  BY <1>0, HeapFacts
<1>3. /\ top \in Keys /\ last \in Keys /\ top \in Nat /\ last \in Nat
      /\ top + 1 \in 1 .. m /\ last + 1 \in 1 .. m
  BY <1>0, <1>1
<1>4. \A l \in 1 .. n : /\ h.heap[l] = top => l = 1
                        /\ h.heap[l] = last => l = n
  BY <1>0, <1>1 DEF IsInjective
<1>5. /\ s \in [1 .. n -> Keys] /\ Len(s) = n
      /\ \A l \in 1 .. n : s[l] = IF l = 1 THEN last ELSE h.heap[l]
  <2> HIDE DEF last
  <2> QED
    BY <1>0, <1>1, <1>3
<1>6. w = [heap |-> SubSeq(s, 1, n - 1), indices |-> f]
  <2>1. Last(h.heap) = last /\ At(h.heap, 0) = top
    BY <1>1 DEF Last, At
  <2>2. Place(h, 0, Last(h.heap)) = [heap |-> s, indices |-> [h.indices EXCEPT ![last + 1] = 0]]
    <3> HIDE DEF last
    <3> QED
      BY <2>1 DEF Place, Put
  <2> DEFINE moved == Place(h, 0, Last(h.heap))
  <2>3. moved.heap = s /\ moved.indices = [h.indices EXCEPT ![last + 1] = 0]
    BY <2>2
  <2>4. LastFirst(h) = [heap |-> Front(moved.heap), indices |-> Put(moved.indices, top, -1)]
    BY <2>1 DEF LastFirst
  <2>5. Front(s) = SubSeq(s, 1, n - 1)
    BY <1>5 DEF Front
  <2> HIDE DEF s, top, last, moved
  <2> QED
    BY <2>3, <2>4, <2>5 DEF Put
<1> HIDE DEF s
<1>7. /\ w.heap \in [1 .. n - 1 -> Keys] /\ DOMAIN w.heap = 1 .. n - 1
      /\ \A l \in 1 .. n - 1 : w.heap[l] = s[l]
  <2> DEFINE N == n - 1
  <2>1. N \in Nat /\ N <= n
    BY <1>0
  <2> HIDE DEF N
  <2>2. s \in Seq(Keys)
    BY <1>5
  <2>3. /\ SubSeq(s, 1, N) \in [1 .. N -> Keys]
        /\ \A l \in 1 .. N : SubSeq(s, 1, N)[l] = s[l]
    <3> DEFINE b == SubSeq(s, 1, N)
    <3>1. b \in Seq(Keys) /\ Len(b) = N /\ \A l \in 1 .. N : b[l] = s[l]
      BY <1>0, <1>5, <2>1, <2>2
    <3> HIDE DEF b
    <3>2. b \in [1 .. N -> Keys]
      BY <2>1, <3>1
    <3> QED
      BY <3>1, <3>2 DEF b
  <2> QED
    BY <1>6, <2>3 DEF N
<1>8. /\ \A l \in 1 .. n - 1 : /\ l \in 1 .. n /\ l # n
                               /\ w.heap[l] = IF l = 1 THEN last ELSE h.heap[l]
      /\ \A l \in 1 .. n - 1 : w.heap[l] \in Keys
  BY <1>0, <1>5, <1>7
<1>9. w.indices = f
  BY <1>6
<1> HIDE DEF w
<1>10. /\ f \in [1 .. m -> Int] /\ f[top + 1] = -1
       /\ last # top => f[last + 1] = 0
       /\ \A l \in 1 .. m : l # top + 1 /\ l # last + 1 => f[l] = h.indices[l]
  <2> DEFINE a == top + 1
             b == last + 1
             g == [h.indices EXCEPT ![b] = 0]
  <2>1. a \in 1 .. m /\ b \in 1 .. m /\ (last # top => a # b)
    BY <1>3
  <2> HIDE DEF a, b
  <2>2. g \in [1 .. m -> Int] /\ g[b] = 0 /\ \A l \in 1 .. m : l # b => g[l] = h.indices[l]
    <3>1. h.indices \in [1 .. m -> Int] /\ b \in 1 .. m
      BY <1>1, <2>1
    <3>2. \A y \in [1 .. m -> Int] : /\ [y EXCEPT ![b] = 0] \in [1 .. m -> Int]
                                     /\ [y EXCEPT ![b] = 0][b] = 0
                                     /\ \A l \in 1 .. m : l # b => [y EXCEPT ![b] = 0][l] = y[l]
      BY <3>1
    <3> QED
      BY <3>1, <3>2
  <2>3. f = [g EXCEPT ![a] = -1]
    BY DEF a, b
  <2> HIDE DEF g, f
  <2>4. f \in [1 .. m -> Int] /\ f[a] = -1 /\ \A l \in 1 .. m : l # a => f[l] = g[l]
    BY <2>1, <2>2, <2>3
  <2> QED
    BY <2>1, <2>2, <2>4 DEF a, b
<1> HIDE DEF f
<1>11. w \in HeapBox(n - 1, m)
  BY <1>6, <1>7, <1>9, <1>10 DEF HeapBox
<1>12. ASSUME NEW l \in 1 .. n - 1
       PROVE  w.heap[l] + 1 \in 1 .. m /\ f[w.heap[l] + 1] = l - 1
  <2>1. CASE l = 1
    <3>1. w.heap[l] = last /\ last # top
      BY <1>0, <1>4, <1>8, <2>1
    <3> QED
      BY <1>3, <1>10, <2>1, <3>1
  <2>2. CASE l # 1
    <3> DEFINE b == h.heap[l]
    <3>1. w.heap[l] = b /\ b # top /\ b # last /\ b \in Nat /\ b + 1 \in 1 .. m /\ h.indices[b + 1] = l - 1
      BY <1>1, <1>4, <1>8, <2>2
    <3> HIDE DEF b, top, last
    <3>2. b + 1 # top + 1 /\ b + 1 # last + 1
      BY <1>3, <3>1
    <3> QED
      BY <1>10, <3>1, <3>2
  <2> QED
    BY <2>1, <2>2
<1>13. ASSUME NEW l \in 1 .. m, f[l] >= 0
       PROVE  f[l] + 1 \in 1 .. n - 1 /\ w.heap[f[l] + 1] = l - 1
  <2>1. l # top + 1
    BY <1>10, <1>13
  <2>2. CASE l = last + 1
    <3>1. last # top
      BY <2>1, <2>2
    <3>2. f[l] = 0 /\ n # 1
      BY <1>10, <2>2, <3>1
    <3>3. 1 \in 1 .. n - 1 /\ l - 1 = last
      BY <1>0, <1>3, <2>2, <3>2
    <3>4. w.heap[1] = last
      BY <1>8, <3>3
    <3> QED
      BY <3>2, <3>3, <3>4
  <2>3. CASE l # last + 1
    <3> DEFINE v == h.indices[l]
    <3>1. f[l] = v /\ v \in Int
      BY <1>1, <1>10, <2>1, <2>3
    <3>2. v + 1 \in 1 .. n /\ h.heap[v + 1] = l - 1
      BY <1>2, <1>13, <3>1
    <3> HIDE DEF v
    <3>3. v + 1 # 1
      BY <1>3, <2>1, <3>2
    <3>4. v + 1 # n
      BY <1>3, <2>3, <3>2
    <3>5. v + 1 \in 1 .. n - 1
      BY <1>0, <3>1, <3>2, <3>4
    <3> QED
      BY <1>8, <3>1, <3>2, <3>3, <3>5
  <2> QED
    BY <2>2, <2>3
<1>14. Positions(w)
  BY <1>7, <1>9, <1>10, <1>12, <1>13 DEF Positions
<1>15. HeapKeys(w) = HeapKeys(h) \ {top}
  <2>1. /\ \A x : x \in HeapKeys(w) <=> \E l \in 1 .. n - 1 : w.heap[l] = x
        /\ \A x : x \in HeapKeys(h) <=> \E l \in 1 .. n : h.heap[l] = x
    BY <1>1, <1>7 DEF HeapKeys, Range
  <2>2. ASSUME NEW l \in 1 .. n - 1
        PROVE  w.heap[l] # top /\ \E e \in 1 .. n : h.heap[e] = w.heap[l]
    BY <1>0, <1>4, <1>8
  <2>3. ASSUME NEW l \in 1 .. n, h.heap[l] # top
        PROVE  \E e \in 1 .. n - 1 : w.heap[e] = h.heap[l]
    <3>1. l # 1
      BY <2>3
    <3>2. CASE l = n
      <4>1. 1 \in 1 .. n - 1 /\ w.heap[1] = last
        BY <1>0, <1>8, <3>1, <3>2
      <4> QED
        BY <3>2, <4>1
    <3>3. CASE l # n
      <4>1. l \in 1 .. n - 1
        BY <1>0, <3>3
      <4> QED
        BY <1>8, <3>1, <4>1
    <3> QED
      BY <3>2, <3>3
  <2> HIDE DEF top
  <2> QED
    BY <2>1, <2>2, <2>3
<1> QED
  BY <1>8, <1>11, <1>14, <1>15 DEF w

\* removeMin() gives up a key that none is before.
LEMMA RemoveMinTakesLeast ==
    ASSUME NEW h, NEW pr \in [Keys -> Nat], HeapRep(h, pr), h.heap # <<>>
    PROVE  /\ HeapRep(RemoveMin(h, LessBy(pr)), pr)
           /\ HeapKeys(RemoveMin(h, LessBy(pr))) = HeapKeys(h) \ {At(h.heap, 0)}
           /\ At(h.heap, 0) \in HeapKeys(h)
           /\ \A k \in HeapKeys(h) : pr[At(h.heap, 0)] <= pr[k]
<1>1. PICK n \in Nat, m \in Nat : HeapBelow(h, pr, n, m, 1)
  BY DEF HeapRep
<1> DEFINE r == RemoveMin(h, LessBy(pr))
           w == LastFirst(h)
           N == n - 1
<1>2. h \in HeapBox(n, m) /\ Positions(h) /\ Ordered(h.heap, pr, 1)
  BY <1>1 DEF HeapBelow
<1>3. h.heap \in [1 .. n -> Keys] /\ DOMAIN h.heap = 1 .. n /\ Len(h.heap) = n
  BY <1>2, HeapFacts
<1>4. n \in Nat \ {0} /\ 1 \in 1 .. n /\ N \in Nat
  <2>1. n # 0
    BY <1>3
  <2> QED
    BY <2>1
<1>5. At(h.heap, 0) = h.heap[1]
  BY DEF At
<1>6. /\ w \in HeapBox(N, m) /\ Positions(w)
      /\ \A l \in 1 .. N : w.heap[l] = IF l = 1 THEN h.heap[n] ELSE h.heap[l]
      /\ HeapKeys(w) = HeapKeys(h) \ {h.heap[1]}
  BY <1>2, <1>4, LastFirstMeans
<1>7. r = IF Len(w.heap) > 1 THEN PercolateDown(w, 0, LessBy(pr)) ELSE w
  BY DEF RemoveMin, LastFirst
<1> HIDE DEF r, w
<1>8. w.heap \in [1 .. N -> Keys] /\ Len(w.heap) = N
  <2> HIDE DEF N
  <2> QED
    BY <1>4, <1>6, HeapFacts
<1>9. ASSUME NEW i \in 1 .. N, i > 1, i \div 2 # 1
      PROVE  pr[w.heap[i \div 2]] <= pr[w.heap[i]]
  <2> DEFINE p == i \div 2
  <2>1. i \in 1 .. n
    BY <1>4
  <2>2. p \in 1 .. n /\ p < i /\ pr[h.heap[p]] <= pr[h.heap[i]] /\ p # 1
    BY <1>2, <1>3, <1>9, <2>1, OrderedAll
  <2> HIDE DEF p
  <2>3. p \in 1 .. N /\ i # 1
    BY <1>4, <1>9, <2>2
  <2>4. w.heap[p] = h.heap[p] /\ w.heap[i] = h.heap[i]
    BY <1>6, <2>2, <2>3
  <2>5. pr[w.heap[p]] <= pr[w.heap[i]]
    BY <2>2, <2>4
  <2> QED
    BY <2>5 DEF p
<1>10. HeapRep(r, pr) /\ HeapKeys(r) = HeapKeys(w)
  <2>1. CASE N > 1
    <3>1. N \in Nat \ {0} /\ 0 \in 0 .. N - 1 /\ 0 + 1 >= 1 /\ 1 \in Nat /\ 0 + 1 = 1
      BY <1>4, <2>1
    <3>2. OrderedBelow(w.heap, pr, 1, 0 + 1)
      BY <1>8, <1>9, <3>1 DEF OrderedBelow
    <3>3. r = PercolateDown(w, 0, LessBy(pr))
      BY <1>7, <1>8, <2>1
    <3> HIDE DEF N
    <3>4. SameKeys(r, w, N, m) /\ Ordered(r.heap, pr, 1)
      BY <1>6, <3>1, <3>2, <3>3, PercolatesDown
    <3> QED
      BY <3>1, <3>4 DEF SameKeys, HeapRep, HeapBelow, HeapKeys
  <2>2. CASE ~(N > 1)
    <3>1. r = w
      BY <1>7, <1>8, <2>2
    <3>2. Ordered(w.heap, pr, 1)
      BY <1>4, <1>8, <2>2 DEF Ordered
    <3> QED
      BY <1>4, <1>6, <3>1, <3>2 DEF HeapRep, HeapBelow
  <2> QED
    BY <2>1, <2>2
<1>11. \A i \in 1 .. n : pr[h.heap[1]] <= pr[h.heap[i]]
  BY <1>2, <1>3, FirstIsLeast
<1>12. h.heap[1] \in HeapKeys(h) /\ \A k \in HeapKeys(h) : pr[h.heap[1]] <= pr[k]
  BY <1>3, <1>4, <1>11 DEF HeapKeys, Range
<1> QED
  BY <1>5, <1>6, <1>10, <1>12 DEF r

\* clear() takes the positions of all keys, which are all the positions there are.
LEMMA HeapClearMeans ==
    ASSUME NEW n \in Nat, NEW m \in Nat, NEW h \in HeapBox(n, m), Positions(h)
    PROVE  /\ HeapClear(h) \in HeapBox(0, m) /\ Positions(HeapClear(h))
           /\ HeapClear(h).heap = <<>> /\ HeapKeys(HeapClear(h)) = {}
           /\ \A l \in 1 .. m : HeapClear(h).indices[l] < 0
<1> DEFINE r == HeapClear(h)
<1>1. /\ h.heap \in [1 .. n -> Keys] /\ h.indices \in [1 .. m -> Int] /\ DOMAIN h.heap = 1 .. n
      /\ \A l \in 1 .. m : h.indices[l] >= 0 =>
               h.indices[l] + 1 \in 1 .. n /\ h.heap[h.indices[l] + 1] = l - 1
  BY HeapFacts
<1>2. r = [heap |-> <<>>, indices |-> [l \in 1 .. m |-> IF Find(h.heap, l - 1) THEN -1 ELSE h.indices[l]]]
  BY <1>1 DEF HeapClear
<1> HIDE DEF r
<1>3. ASSUME NEW l \in 1 .. m
      PROVE  r.indices[l] \in Int /\ r.indices[l] < 0
  <2>1. r.indices[l] = IF Find(h.heap, l - 1) THEN -1 ELSE h.indices[l]
    BY <1>2
  <2>2. h.indices[l] \in Int
    BY <1>1
  <2>3. h.indices[l] >= 0 => Find(h.heap, l - 1)
    BY <1>1 DEF Find
  <2> QED
    BY <2>1, <2>2, <2>3
<1>4. r.heap = <<>> /\ DOMAIN r.indices = 1 .. m /\ r = [heap |-> r.heap, indices |-> r.indices]
  BY <1>2
<1>5. r.indices \in [1 .. m -> Int]
  <2>1. r.indices = [l \in 1 .. m |-> r.indices[l]]
    BY <1>2
  <2> QED
    BY <1>3, <2>1
<1>6. DOMAIN r.heap = {} /\ r.heap \in [1 .. 0 -> Keys]
  <2>1. 1 .. 0 = {} /\ <<>> \in Seq(Keys) /\ DOMAIN <<>> = {}
    OBVIOUS
  <2>2. r.heap \in [DOMAIN r.heap -> Keys]
    BY <1>4
  <2> QED
    BY <1>4, <2>1, <2>2
<1>7. r \in HeapBox(0, m)
  BY <1>4, <1>5, <1>6 DEF HeapBox
<1>8. Positions(r)
  <2>1. \A l \in 1 .. m : ~(r.indices[l] >= 0)
    BY <1>3
  <2> QED
    BY <1>4, <1>6, <2>1 DEF Positions
<1>9. HeapKeys(r) = {}
  BY <1>6 DEF HeapKeys, Range
<1> QED
  BY <1>3, <1>4, <1>7, <1>8, <1>9 DEF r

\* An empty heap is in order.
LEMMA HeapClearEmpties ==
    ASSUME NEW h, NEW pr \in [Keys -> Nat], HeapRep(h, pr)
    PROVE  HeapRep(HeapClear(h), pr) /\ HeapKeys(HeapClear(h)) = {}
<1>1. PICK n \in Nat, m \in Nat : h \in HeapBox(n, m) /\ Positions(h)
  BY DEF HeapRep, HeapBelow
<1>2. /\ HeapClear(h) \in HeapBox(0, m) /\ Positions(HeapClear(h))
      /\ HeapClear(h).heap = <<>> /\ HeapKeys(HeapClear(h)) = {}
  BY <1>1, HeapClearMeans
<1>3. Ordered(HeapClear(h).heap, pr, 1)
  BY <1>2 DEF Ordered
<1>4. HeapBelow(HeapClear(h), pr, 0, m, 1) /\ 0 \in Nat
  BY <1>2, <1>3 DEF HeapBelow
<1> QED
  BY <1>1, <1>2, <1>4 DEF HeapRep

\* The sequence of a finite set has each member once.
LEMMA SequenceOf ==
    ASSUME NEW S, IsFiniteSet(S)
    PROVE  /\ Cardinality(S) \in Nat /\ SetToSeq(S) \in [1 .. Cardinality(S) -> S]
           /\ IsInjective(SetToSeq(S)) /\ Range(SetToSeq(S)) = S
<1> DEFINE n == Cardinality(S)
<1>1. n \in Nat /\ ExistsBijection(1 .. n, S)
  BY FS_CardinalityType
<1>2. \E f \in [1 .. n -> S] : IsInjective(f)
  BY <1>1 DEF ExistsBijection, Bijection, Injection, IsInjective
<1>3. SetToSeq(S) \in [1 .. n -> S] /\ IsInjective(SetToSeq(S))
  BY <1>2 DEF SetToSeq
<1> HIDE DEF n
<1>4. SetToSeq(S) \in Injection(1 .. n, S)
  BY <1>3 DEF Injection
<1>5. Cardinality(1 .. n) = n
  <2>1. Cardinality(1 .. n) = IF 1 > n THEN 0 ELSE n - 1 + 1
    BY <1>1, FS_Interval
  <2> QED
    BY <1>1, <2>1
<1>6. SetToSeq(S) \in Surjection(1 .. n, S)
  <2>1. Cardinality(1 .. n) = Cardinality(S) <=> SetToSeq(S) \in Surjection(1 .. n, S)
    BY <1>4, FS_Injection
  <2> QED
    BY <1>5, <2>1 DEF n
<1>7. Range(SetToSeq(S)) = S
  <2> DEFINE f == SetToSeq(S)
  <2>1. f \in [1 .. n -> S] /\ \A t \in S : \E l \in 1 .. n : f[l] = t
    BY <1>6 DEF Surjection
  <2> HIDE DEF f
  <2>2. Range(f) = S
    BY <2>1 DEF Range
  <2> QED
    BY <2>2 DEF f
<1> QED
  BY <1>1, <1>3, <1>7 DEF n

\* build(): the positions of all keys are taken, those of the new ones set.
Refilled(h, ns) ==
    LET c == HeapClear(h)
    IN  [heap |-> ns, indices |-> [i \in DOMAIN c.indices |->
           IF Find(ns, i - 1) THEN Min({j \in DOMAIN ns : ns[j] = i - 1}) - 1
           ELSE c.indices[i]]]

\* The positions are right before anything is ordered.
LEMMA RefilledMeans ==
    ASSUME NEW n0 \in Nat, NEW m \in Nat, NEW h \in HeapBox(n0, m), Positions(h), NEW n \in Nat,
           NEW ns \in [1 .. n -> Keys], IsInjective(ns), \A l \in 1 .. n : ns[l] < m
    PROVE  Refilled(h, ns) \in HeapBox(n, m) /\ Positions(Refilled(h, ns)) /\ Refilled(h, ns).heap = ns
<1> DEFINE c == HeapClear(h)
           r == Refilled(h, ns)
<1>1. c.indices \in [1 .. m -> Int] /\ \A l \in 1 .. m : c.indices[l] < 0
  BY HeapClearMeans DEF HeapBox
<1>2. r = [heap |-> ns, indices |-> [i \in 1 .. m |->
               IF Find(ns, i - 1) THEN Min({j \in 1 .. n : ns[j] = i - 1}) - 1 ELSE c.indices[i]]]
  BY <1>1 DEF Refilled
<1> HIDE DEF c, r
<1>3. r.heap = ns /\ DOMAIN r.indices = 1 .. m /\ r = [heap |-> r.heap, indices |-> r.indices]
  BY <1>2
<1>4. ASSUME NEW i \in 1 .. n
      PROVE  ns[i] + 1 \in 1 .. m /\ r.indices[ns[i] + 1] = i - 1
  <2>1. ns[i] \in Nat /\ ns[i] < m /\ ns[i] + 1 \in 1 .. m /\ (ns[i] + 1) - 1 = ns[i]
    <3>1. ns[i] \in Keys /\ ns[i] < m
      OBVIOUS
    <3>2. ns[i] \in Nat
      BY <3>1, KeysAreNumbers
    <3> QED
      BY <3>1, <3>2
  <2>2. Find(ns, ns[i])
    BY DEF Find
  <2>3. {j \in 1 .. n : ns[j] = ns[i]} = {i}
    BY DEF IsInjective
  <2>4. Min({j \in 1 .. n : ns[j] = ns[i]}) = i
    BY <2>3, MinOfOne
  <2> DEFINE k == ns[i] + 1
  <2>5. k \in 1 .. m /\ k - 1 = ns[i]
    BY <2>1
  <2> HIDE DEF k
  <2>6. r.indices[k] = IF Find(ns, k - 1) THEN Min({j \in 1 .. n : ns[j] = k - 1}) - 1 ELSE c.indices[k]
    BY <1>2, <2>5
  <2>7. r.indices[k] = i - 1
    BY <2>2, <2>4, <2>5, <2>6
  <2> QED
    BY <2>1, <2>7 DEF k
<1>5. ASSUME NEW l \in 1 .. m
      PROVE  \/ Find(ns, l - 1) /\ \E i \in 1 .. n : ns[i] = l - 1 /\ r.indices[l] = i - 1
             \/ r.indices[l] = c.indices[l]
  <2>1. CASE Find(ns, l - 1)
    <3>1. PICK i \in 1 .. n : ns[i] = l - 1
      BY <2>1 DEF Find
    <3>2. ns[i] + 1 = l
      BY <3>1
    <3> QED
      BY <1>4, <2>1, <3>1, <3>2
  <2>2. CASE ~ Find(ns, l - 1)
    BY <1>2, <2>2
  <2> QED
    BY <2>1, <2>2
<1>6. r \in HeapBox(n, m)
  <2>1. ASSUME NEW l \in 1 .. m
        PROVE  r.indices[l] \in Int
    BY <1>1, <1>5
  <2>2. r.indices = [l \in 1 .. m |-> r.indices[l]]
    BY <1>2
  <2>3. r.indices \in [1 .. m -> Int]
    BY <2>1, <2>2
  <2> QED
    BY <1>3, <2>3 DEF HeapBox
<1>7. ASSUME NEW l \in 1 .. m, r.indices[l] >= 0
      PROVE  r.indices[l] + 1 \in 1 .. n /\ ns[r.indices[l] + 1] = l - 1
  <2>1. c.indices[l] < 0 /\ c.indices[l] \in Int
    BY <1>1
  <2>2. r.indices[l] # c.indices[l]
    BY <1>7, <2>1
  <2>3. PICK i \in 1 .. n : ns[i] = l - 1 /\ r.indices[l] = i - 1
    BY <1>5, <2>2
  <2>4. r.indices[l] + 1 = i
    BY <2>3
  <2> QED
    BY <2>3, <2>4
<1>8. Positions(r)
  BY <1>3, <1>4, <1>7 DEF Positions
<1> QED
  BY <1>3, <1>6, <1>8 DEF r

\* What is done once the keys below lo are in order: build() goes from the last key
\* with a child up to the first.
BuiltTo(y, ns, pr, n, m, lo) == SameKeys(y, [heap |-> ns], n, m) /\ Ordered(y.heap, pr, lo)

\* It orders one more subtree, as the two below it are in order.
LEMMA BuildRoundKeeps ==
    ASSUME NEW n \in Nat \ {0}, NEW m \in Nat, NEW pr \in [Keys -> Nat], NEW y, NEW ns,
           NEW p \in Nat, p < n, BuiltTo(y, ns, pr, n, m, p + 2)
    PROVE  BuiltTo(PercolateDown(y, p, LessBy(pr)), ns, pr, n, m, p + 1)
<1> DEFINE lo == p + 1
           z == PercolateDown(y, p, LessBy(pr))
<1>1. /\ y \in HeapBox(n, m) /\ Positions(y) /\ Range(y.heap) = Range(ns)
      /\ Ordered(y.heap, pr, p + 2)
  BY DEF BuiltTo, SameKeys
<1>2. p \in 0 .. n - 1 /\ lo \in Nat /\ p + 1 >= lo /\ lo >= 1 /\ p + 2 = lo + 1 /\ p + 1 = lo
  OBVIOUS
<1>3. y.heap \in [1 .. n -> Keys] /\ DOMAIN y.heap = 1 .. n
  BY <1>1 DEF HeapBox
<1> HIDE DEF lo, z
<1>4. OrderedBelow(y.heap, pr, lo, lo)
  <2>1. ASSUME NEW i \in 1 .. n, i > 1, i \div 2 >= lo, i \div 2 # lo
        PROVE  pr[y.heap[i \div 2]] <= pr[y.heap[i]]
    <3>1. i \div 2 \in Nat
      OBVIOUS
    <3> DEFINE q == i \div 2
    <3>2. q >= lo + 1
      BY <1>2, <2>1, <3>1
    <3> QED
      BY <1>1, <1>2, <1>3, <2>1, <3>2 DEF Ordered
  <2>2. ~ (lo > 1 /\ lo \div 2 >= lo)
    BY <1>2
  <2> QED
    BY <1>3, <2>1, <2>2 DEF OrderedBelow
<1>5. SameKeys(z, y, n, m) /\ Ordered(z.heap, pr, lo)
  <2>1. OrderedBelow(y.heap, pr, lo, p + 1)
    BY <1>2, <1>4
  <2> QED
    BY <1>1, <1>2, <2>1, PercolatesDown DEF z
<1>6. BuiltTo(z, ns, pr, n, m, lo)
  BY <1>1, <1>5 DEF BuiltTo, SameKeys
<1> QED
  BY <1>2, <1>6 DEF z

\* The rounds of build(), as long as they leave a heap.
BuildRounds(b, y0, half, n, m, lt) ==
    /\ b[0] = y0
    /\ \A i \in 1 .. half : PercolateDown(b[i - 1], half - i, lt) \in HeapBox(n, m) =>
           b[i] = PercolateDown(b[i - 1], half - i, lt)

\* They all do.
LEMMA BuildRoundsKeep ==
    ASSUME NEW n \in Nat, NEW m \in Nat, NEW pr \in [Keys -> Nat], NEW ns,
           NEW half \in Nat, 2 * half <= n, NEW y0, BuiltTo(y0, ns, pr, n, m, half + 1),
           NEW b, BuildRounds(b, y0, half, n, m, LessBy(pr))
    PROVE  \A i \in 0 .. half : /\ BuiltTo(b[i], ns, pr, n, m, half - i + 1)
                                /\ i # 0 => b[i] = PercolateDown(b[i - 1], half - i, LessBy(pr))
<1> DEFINE lt == LessBy(pr)
           z(i) == PercolateDown(b[i], half - (i + 1), lt)
           S == {i \in Nat : i <= half => BuiltTo(b[i], ns, pr, n, m, half - i + 1)}
<1> HIDE DEF lt
<1>1. 0 \in S
  <2>1. half - 0 + 1 = half + 1 /\ b[0] = y0
    BY DEF BuildRounds
  <2> QED
    BY <2>1
<1>2. ASSUME NEW i \in Nat, i + 1 <= half, BuiltTo(b[i], ns, pr, n, m, half - i + 1)
      PROVE  BuiltTo(b[i + 1], ns, pr, n, m, half - (i + 1) + 1) /\ b[i + 1] = z(i)
  <2> DEFINE p == half - (i + 1)
             y == b[i]
  <2>1. /\ p \in Nat /\ p < n /\ n \in Nat \ {0} /\ half - i + 1 = p + 2
        /\ half - (i + 1) + 1 = p + 1
    BY <1>2
  <2>2. i + 1 \in 1 .. half /\ (i + 1) - 1 = i
    BY <1>2
  <2> HIDE DEF p, y
  <2>3. BuiltTo(y, ns, pr, n, m, p + 2)
    BY <1>2, <2>1 DEF y
  <2>4. BuiltTo(PercolateDown(y, p, LessBy(pr)), ns, pr, n, m, p + 1)
    BY <2>1, <2>3, BuildRoundKeeps
  <2>5. PercolateDown(y, p, lt) \in HeapBox(n, m)
    BY <2>4 DEF BuiltTo, SameKeys, lt
  <2>6. b[i + 1] = PercolateDown(y, p, lt)
    <3>1. PercolateDown(b[(i + 1) - 1], half - (i + 1), lt) \in HeapBox(n, m) =>
             b[i + 1] = PercolateDown(b[(i + 1) - 1], half - (i + 1), lt)
      BY <2>2 DEF BuildRounds, lt
    <3> QED
      BY <2>2, <2>5, <3>1 DEF p, y
  <2>7. BuiltTo(b[i + 1], ns, pr, n, m, p + 1)
    BY <2>4, <2>6 DEF lt
  <2> QED
    BY <2>1, <2>6, <2>7 DEF p, y
<1>3. Nat \subseteq S
  <2>1. ASSUME NEW i \in Nat, i \in S
        PROVE  i + 1 \in S
    <3>1. i + 1 <= half => i <= half
      OBVIOUS
    <3> QED
      BY <1>2, <2>1, <3>1
  <2> HIDE DEF S
  <2> QED
    BY <1>1, <2>1, InductionOn
<1>4. ASSUME NEW i \in 0 .. half
      PROVE  BuiltTo(b[i], ns, pr, n, m, half - i + 1)
  <2>1. i \in Nat /\ i <= half
    OBVIOUS
  <2>2. i \in S
    BY <1>3, <2>1
  <2> QED
    BY <2>1, <2>2
<1>5. ASSUME NEW i \in 0 .. half, i # 0
      PROVE  b[i] = PercolateDown(b[i - 1], half - i, lt)
  <2> DEFINE j == i - 1
  <2>1. j \in Nat /\ j + 1 <= half /\ j + 1 = i /\ j \in 0 .. half
    BY <1>5
  <2> HIDE DEF j
  <2>2. BuiltTo(b[j], ns, pr, n, m, half - j + 1)
    BY <1>4, <2>1
  <2>3. b[j + 1] = z(j)
    BY <1>2, <2>1, <2>2
  <2>4. b[i] = PercolateDown(b[j], half - i, lt)
    BY <2>1, <2>3
  <2> QED
    BY <2>4 DEF j
<1> QED
  BY <1>4, <1>5 DEF lt

\* build() makes a heap of the keys it is given, in whatever order they come.
LEMMA BuildOrders ==
    ASSUME NEW n0 \in Nat, NEW m \in Nat, NEW h \in HeapBox(n0, m), Positions(h), NEW n \in Nat,
           NEW ns \in [1 .. n -> Keys], IsInjective(ns), \A l \in 1 .. n : ns[l] < m,
           NEW pr \in [Keys -> Nat]
    PROVE  BuiltTo(Build(h, ns, LessBy(pr)), ns, pr, n, m, 1)
<1> DEFINE half == Len(ns) \div 2
           lt == LessBy(pr)
           filled == Refilled(h, ns)
           built[i \in 0 .. half] == IF i = 0 THEN filled ELSE PercolateDown(built[i - 1], half - i, lt)
           X == HeapBox(n, m)
           step == [r \in Nat |-> [y \in X |->
                      IF PercolateDown(y, half - (r + 1), lt) \in X
                      THEN PercolateDown(y, half - (r + 1), lt) ELSE y]]
<1>1. Build(h, ns, LessBy(pr)) = built[half]
  BY DEF Build, Refilled
<1>2. filled \in X /\ Positions(filled) /\ filled.heap = ns
  BY RefilledMeans
<1>3. Len(ns) = n
  OBVIOUS
<1>4. half \in Nat /\ 2 * half <= n /\ \A i \in 1 .. n : i > 1 => ~ (i \div 2 >= half + 1)
  BY <1>3
<1> HIDE DEF lt, filled
<1>5. BuiltTo(filled, ns, pr, n, m, half + 1)
  <2>1. DOMAIN ns = 1 .. n
    OBVIOUS
  <2>2. Ordered(ns, pr, half + 1)
    BY <1>4, <2>1 DEF Ordered
  <2> QED
    BY <1>2, <2>2 DEF BuiltTo, SameKeys
<1>6. step \in Steps(X)
  BY DEF Steps
<1> HIDE DEF X, half
<1>7. PICK g : RepeatsUpTo(g, half, X, filled, step)
  <2> HIDE DEF step
  <2> QED
    BY <1>2, <1>4, <1>6, IterationUpTo
<1>8. BuildRounds(g, filled, half, n, m, lt)
  <2>1. ASSUME NEW i \in 1 .. half, PercolateDown(g[i - 1], half - i, lt) \in X
        PROVE  g[i] = PercolateDown(g[i - 1], half - i, lt)
    <3>1. i - 1 \in Nat /\ (i - 1) + 1 = i
      BY <1>4
    <3>2. g[i] = step[i - 1][g[i - 1]] /\ g[i - 1] \in X
      BY <1>7 DEF RepeatsUpTo
    <3>3. g[i] = IF PercolateDown(g[i - 1], half - ((i - 1) + 1), lt) \in X
                 THEN PercolateDown(g[i - 1], half - ((i - 1) + 1), lt) ELSE g[i - 1]
      BY <3>1, <3>2
    <3> QED
      BY <2>1, <3>1, <3>3
  <2>2. g[0] = filled
    BY <1>7 DEF RepeatsUpTo
  <2> QED
    BY <2>1, <2>2 DEF BuildRounds, X
<1>9. g = [i \in 0 .. half |-> IF i = 0 THEN filled ELSE PercolateDown(g[i - 1], half - i, lt)]
  <2>1. \A i \in 0 .. half : i # 0 => g[i] = PercolateDown(g[i - 1], half - i, lt)
    BY <1>4, <1>5, <1>8, BuildRoundsKeep DEF lt
  <2>2. g = [i \in 0 .. half |-> g[i]] /\ g[0] = filled
    BY <1>7 DEF RepeatsUpTo
  <2> QED
    BY <2>1, <2>2
<1>10. built = [i \in 0 .. half |-> IF i = 0 THEN filled ELSE PercolateDown(built[i - 1], half - i, lt)]
  <2>1. built = CHOOSE f : f = [i \in 0 .. half |-> IF i = 0 THEN filled ELSE PercolateDown(f[i - 1], half - i, lt)]
    BY DEF built
  <2>2. \E f : f = [i \in 0 .. half |-> IF i = 0 THEN filled ELSE PercolateDown(f[i - 1], half - i, lt)]
    BY <1>9
  <2> HIDE DEF built
  <2> QED
    BY <2>1, <2>2, Zenon
<1> HIDE DEF built, step
<1>11. BuildRounds(built, filled, half, n, m, lt)
  <2>1. built[0] = filled
    BY <1>4, <1>10
  <2>2. ASSUME NEW i \in 1 .. half
        PROVE  built[i] = PercolateDown(built[i - 1], half - i, lt)
    <3>1. i \in 0 .. half /\ i # 0
      BY <1>4
    <3> QED
      BY <1>10, <3>1
  <2> QED
    BY <2>1, <2>2 DEF BuildRounds
<1>12. BuiltTo(built[half], ns, pr, n, m, half - half + 1)
  <2>1. half \in 0 .. half
    BY <1>4
  <2> QED
    BY <1>4, <1>5, <1>11, <2>1, BuildRoundsKeep DEF lt
<1>13. half - half + 1 = 1
  BY <1>4
<1> QED
  BY <1>1, <1>12, <1>13 DEF lt

\* The keys of the new heap are those asked for, each once.
LEMMA BuildMakesHeap ==
    ASSUME NEW h, NEW pr \in [Keys -> Nat], HeapRep(h, pr),
           NEW ks \in SUBSET {k \in Keys : k < Len(h.indices)}
    PROVE  /\ HeapRep(Build(h, SetToSeq(ks), LessBy(pr)), pr)
           /\ HeapKeys(Build(h, SetToSeq(ks), LessBy(pr))) = ks
<1> DEFINE ns == SetToSeq(ks)
           n == Cardinality(ks)
           r == Build(h, ns, LessBy(pr))
<1>1. PICK n0 \in Nat, m \in Nat : h \in HeapBox(n0, m) /\ Positions(h)
  BY DEF HeapRep, HeapBelow
<1>2. Len(h.indices) = m
  BY <1>1, HeapFacts
<1>3. IsFiniteSet(ks)
  <2>1. ks \in SUBSET Nat /\ \A k \in ks : k <= m
    BY <1>2, KeysAreNumbers
  <2> QED
    BY <2>1, FS_BoundedSetOfNaturals
<1>4. n \in Nat /\ ns \in [1 .. n -> ks] /\ IsInjective(ns) /\ Range(ns) = ks
  BY <1>3, SequenceOf
<1> HIDE DEF n, ns
<1>5. ns \in [1 .. n -> Keys] /\ \A l \in 1 .. n : ns[l] < m
  BY <1>2, <1>4
<1>6. BuiltTo(r, ns, pr, n, m, 1)
  BY <1>1, <1>4, <1>5, BuildOrders
<1> HIDE DEF r
<1>7. HeapBelow(r, pr, n, m, 1) /\ HeapKeys(r) = ks
  BY <1>4, <1>6 DEF BuiltTo, SameKeys, HeapBelow, HeapKeys
<1>8. HeapRep(r, pr)
  BY <1>1, <1>4, <1>7 DEF HeapRep
<1> QED
  BY <1>7, <1>8 DEF r, ns

\* A new heap is one.
LEMMA EmptyHeapRep ==
    ASSUME NEW pr \in [Keys -> Nat]
    PROVE  HeapRep(EmptyHeap, pr) /\ HeapKeys(EmptyHeap) = {}
<1>1. /\ EmptyHeap.heap = <<>> /\ EmptyHeap.indices = <<>> /\ DOMAIN <<>> = {}
      /\ 1 .. 0 = {} /\ <<>> \in [1 .. 0 -> Keys] /\ <<>> \in [1 .. 0 -> Int] /\ 0 \in Nat
  <2>1. <<>> \in Seq(Keys) /\ <<>> \in Seq(Int) /\ DOMAIN <<>> = {} /\ 1 .. 0 = {}
    OBVIOUS
  <2> QED
    BY <2>1 DEF EmptyHeap
<1>2. EmptyHeap \in HeapBox(0, 0)
  BY <1>1 DEF HeapBox, EmptyHeap
<1>3. Positions(EmptyHeap) /\ Ordered(EmptyHeap.heap, pr, 1)
  BY <1>1 DEF Positions, Ordered
<1>4. HeapBelow(EmptyHeap, pr, 0, 0, 1)
  BY <1>2, <1>3 DEF HeapBelow
<1> QED
  BY <1>1, <1>4 DEF HeapRep, HeapKeys, Range

\* The priorities a client begins with.
LEMMA FirstPriorities == [k \in Keys |-> Min(Prios)] \in [Keys -> Nat]
<1>1. PICK x \in Prios : \A y \in Prios : x <= y
  BY SizesAssumption, LeastMember
<1>2. Min(Prios) \in Prios
  BY <1>1 DEF Min
<1> QED
  BY <1>2, SizesAssumption

HInv == prio \in [Keys -> Nat] /\ (kind = "heap" => HeapRep(obj, prio))

\* A key is given a priority.
LEMMA SetPrioMeans ==
    ASSUME prio \in [Keys -> Nat], NEW k \in Keys, NEW p \in Prios, SetPrio(k, p)
    PROVE  prio' \in [Keys -> Nat] /\ OnlyFor(k, prio, prio') /\ prio'[k] = p
<1>1. p \in Nat
  BY SizesAssumption
<1> QED
  BY <1>1 DEF SetPrio, OnlyFor

\* A client asks inHeap() of the heap it has.
LEMMA InsideMeans ==
    ASSUME HeapRep(obj, prio), NEW k \in Keys
    PROVE  InHeap(obj, k) <=> k \in HeapKeys(obj)
<1>1. PICK n \in Nat, m \in Nat : obj \in HeapBox(n, m) /\ Positions(obj)
  BY DEF HeapRep, HeapBelow
<1> QED
  BY <1>1, InHeapMeans

\* Every method does to the keys of a heap what Containers says of it.
LEMMA HeapMethods ==
    ASSUME HInv, UseHeap
    PROVE  HInv' /\ Promise!HeapStep
<1>1. kind = "heap" /\ kind' = "heap" /\ HeapRep(obj, prio) /\ prio \in [Keys -> Nat]
  BY DEF UseHeap, Is, HInv
<1>2. Contents = HeapKeys(obj) /\ Contents' = HeapKeys(obj')
  BY <1>1 DEF Contents, HeapKeys
<1>3. Before = LessBy(prio) /\ BeforeNow = LessBy(prio')
  BY DEF Before, BeforeNow, LessBy
<1> USE DEF Promise!Of, Promise!Called, Promise!Kept, Returns
<1>4. CASE InsertKey
  <2>1. PICK k \in Keys : /\ ~InHeap(obj, k) /\ obj' = HeapInsert(obj, k, Before)
                          /\ ret'.op = "insert" /\ ret'.arg = k /\ prio' = prio
    BY <1>4 DEF InsertKey, InsideKeys
  <2>2. k \notin HeapKeys(obj)
    BY <1>1, <2>1, InsideMeans
  <2>3. HeapRep(obj', prio) /\ HeapKeys(obj') = HeapKeys(obj) \cup {k}
    BY <1>1, <1>3, <2>1, <2>2, InsertAddsKey
  <2> QED
    BY <1>1, <1>2, <2>1, <2>3 DEF HInv, Promise!HeapStep
<1>5. CASE DecreaseKey
  <2>1. PICK k \in Keys, p \in Prios :
           /\ InHeap(obj, k) /\ p <= prio[k] /\ SetPrio(k, p)
           /\ obj' = Decrease(obj, k, BeforeNow) /\ ret'.op = "decrease"
    BY <1>5 DEF DecreaseKey, InsideKeys
  <2>2. prio' \in [Keys -> Nat] /\ OnlyFor(k, prio, prio') /\ prio'[k] <= prio[k]
    BY <1>1, <2>1, SetPrioMeans
  <2>3. HeapRep(obj', prio') /\ HeapKeys(obj') = HeapKeys(obj)
    BY <1>1, <1>3, <2>1, <2>2, DecreaseKeeps
  <2> QED
    BY <1>1, <1>2, <2>1, <2>2, <2>3 DEF HInv, Promise!HeapStep
<1>6. CASE IncreaseKey
  <2>1. PICK k \in Keys, p \in Prios :
           /\ InHeap(obj, k) /\ p >= prio[k] /\ SetPrio(k, p)
           /\ obj' = Increase(obj, k, BeforeNow) /\ ret'.op = "increase"
    BY <1>6 DEF IncreaseKey, InsideKeys
  <2>2. prio' \in [Keys -> Nat] /\ OnlyFor(k, prio, prio') /\ prio'[k] >= prio[k]
    BY <1>1, <2>1, SetPrioMeans
  <2>3. HeapRep(obj', prio') /\ HeapKeys(obj') = HeapKeys(obj)
    BY <1>1, <1>3, <2>1, <2>2, IncreaseKeeps
  <2> QED
    BY <1>1, <1>2, <2>1, <2>2, <2>3 DEF HInv, Promise!HeapStep
<1>7. CASE UpdateKey
  <2>1. PICK k \in Keys, p \in Prios :
           SetPrio(k, p) /\ obj' = Update(obj, k, BeforeNow) /\ ret'.op = "update" /\ ret'.arg = k
    BY <1>7 DEF UpdateKey
  <2>2. prio' \in [Keys -> Nat] /\ OnlyFor(k, prio, prio')
    BY <1>1, <2>1, SetPrioMeans
  <2>3. HeapRep(obj', prio') /\ HeapKeys(obj') = HeapKeys(obj) \cup {k}
    BY <1>1, <1>3, <2>1, <2>2, UpdateKeeps
  <2> QED
    BY <1>1, <1>2, <2>1, <2>2, <2>3 DEF HInv, Promise!HeapStep
<1>8. CASE TakeMin
  <2>1. /\ obj.heap # <<>> /\ obj' = RemoveMin(obj, Before) /\ prio' = prio
        /\ ret'.op = "removeMin" /\ ret'.val = At(obj.heap, 0)
    BY <1>8 DEF TakeMin
  <2>2. /\ HeapRep(obj', prio) /\ HeapKeys(obj') = HeapKeys(obj) \ {ret'.val}
        /\ ret'.val \in HeapKeys(obj) /\ \A k \in HeapKeys(obj) : prio[ret'.val] <= prio[k]
    BY <1>1, <1>3, <2>1, RemoveMinTakesLeast
  <2> QED
    BY <1>1, <1>2, <2>1, <2>2 DEF HInv, Promise!HeapStep, Promise!Least
<1>9. CASE AskKey
  <2>1. PICK k \in Keys : /\ ret'.op = "inHeap" /\ ret'.arg = k /\ ret'.val = InHeap(obj, k)
                          /\ obj' = obj /\ prio' = prio
    BY <1>9 DEF AskKey, Same
  <2>2. ret'.val = (ret'.arg \in HeapKeys(obj))
    <3>1. InHeap(obj, k) <=> k \in HeapKeys(obj)
      BY <1>1, InsideMeans
    <3>2. InHeap(obj, k) \in BOOLEAN
      BY DEF InHeap
    <3> QED
      BY <2>1, <3>1, <3>2
  <2> QED
    BY <1>1, <1>2, <2>1, <2>2 DEF HInv, Promise!HeapStep
<1>10. CASE BuildHeap
  <2>1. PICK ks \in SUBSET {k \in Keys : k < Len(obj.indices)} :
           /\ obj' = Build(obj, SetToSeq(ks), Before) /\ prio' = prio
           /\ ret'.op = "build" /\ ret'.arg = ks
    BY <1>10 DEF BuildHeap
  <2>2. HeapRep(obj', prio) /\ HeapKeys(obj') = ks
    BY <1>1, <1>3, <2>1, BuildMakesHeap
  <2> QED
    BY <1>1, <1>2, <2>1, <2>2 DEF HInv, Promise!HeapStep
<1>11. CASE ClearHeap
  <2>1. obj' = HeapClear(obj) /\ prio' = prio /\ ret'.op = "clear"
    BY <1>11 DEF ClearHeap
  <2>2. HeapRep(obj', prio) /\ HeapKeys(obj') = {}
    BY <1>1, <2>1, HeapClearEmpties
  <2> QED
    BY <1>1, <1>2, <2>1, <2>2 DEF HInv, Promise!HeapStep
<1> QED
  BY <1>4, <1>5, <1>6, <1>7, <1>8, <1>9, <1>10, <1>11 DEF UseHeap

\* A client begins with a heap that is one.
LEMMA HeapInit == Init => HInv
BY FirstPriorities DEF Init, HInv

\* Every step keeps it one.
LEMMA HeapNext ==
    ASSUME HInv, [Next]_vars
    PROVE  HInv'
<1>1. CASE New
  <2>1. prio' \in [Keys -> Nat] /\ (kind' = "heap" => obj' = EmptyHeap)
    BY <1>1, FirstPriorities DEF New, Empty
  <2> QED
    BY <2>1, EmptyHeapRep DEF HInv
<1>2. CASE UseHeap
  BY <1>2, HeapMethods
<1>3. CASE UseQueue \/ UseMap \/ UseSet \/ UseVec \/ UseRegion
  BY <1>3 DEF UseQueue, UseMap, UseSet, UseVec, UseRegion, Is, HInv
<1>4. CASE UNCHANGED vars
  BY <1>4 DEF vars, HInv
<1> QED
  BY <1>1, <1>2, <1>3, <1>4 DEF Next

(* Whatever keys go up, down, in and out, the heap stays ordered by the       *)
(* comparison and its positions stay inverse to it, so that decrease() and    *)
(* the like find their key (Heap.h:47-158), for all keys and priorities.      *)
THEOREM HeapKeepsOrder == Spec => [](kind = "heap" => HeapOK)
<1>1. ASSUME HInv, kind = "heap"
      PROVE  HeapOK
  <2>1. HeapRep(obj, prio) /\ prio \in [Keys -> Nat]
    BY <1>1 DEF HInv
  <2>2. PICK n \in Nat, m \in Nat :
           obj \in HeapBox(n, m) /\ Positions(obj) /\ Ordered(obj.heap, prio, 1)
    BY <2>1 DEF HeapRep, HeapBelow
  <2>3. /\ obj.heap \in [1 .. n -> Keys] /\ DOMAIN obj.heap = 1 .. n /\ DOMAIN obj.indices = 1 .. m
        /\ \A l \in 1 .. n : At(obj.indices, obj.heap[l]) = l - 1
        /\ \A l \in 1 .. m : obj.indices[l] >= 0 => At(obj.heap, obj.indices[l]) = l - 1
    BY <2>2, HeapFacts DEF At
  <2>4. ASSUME NEW i \in 1 .. n, i > 1
        PROVE  <<obj.heap[i], obj.heap[i \div 2]>> \notin Before
    <3>1. i \div 2 \in 1 .. n /\ prio[obj.heap[i \div 2]] <= prio[obj.heap[i]]
      BY <2>1, <2>2, <2>3, <2>4, OrderedAll
    <3>2. /\ prio[obj.heap[i]] \in Nat /\ prio[obj.heap[i \div 2]] \in Nat
      BY <2>1, <2>3, <3>1
    <3>3. ~ (prio[obj.heap[i]] < prio[obj.heap[i \div 2]])
      BY <3>1, <3>2
    <3> QED
      BY <3>3 DEF Before
  <2> QED
    BY <2>3, <2>4 DEF HeapOK
<1> QED
  BY <1>1, HeapInit, HeapNext, PTL DEF Spec

HeapCalled == kind = "heap" /\ kind' = "heap"
HeapStarts == kind = "heap" /\ Contents = {} /\ ret.op = "new"

(* While a heap is used, its calls are those of the set of keys in Containers: *)
(* removeMin() gives up a key that none is before, insert() and update() add   *)
(* one, the other methods lose none (Heap.h:83-158).                           *)
THEOREM HeapImplementsSet == Spec => [][HeapCalled => Promise!HeapStep \/ HeapStarts']_vars
<1>1. ASSUME HInv, [Next]_vars
      PROVE  [HeapCalled => Promise!HeapStep \/ HeapStarts']_vars
  <2>1. CASE UseHeap
    <3>1. Promise!HeapStep
      BY <1>1, <2>1, HeapMethods
    <3> QED
      BY <3>1
  <2>2. CASE New
    <3> SUFFICES ASSUME HeapCalled PROVE HeapStarts'
      OBVIOUS
    <3>1. obj' = EmptyHeap /\ kind' = "heap" /\ ret'.op = "new"
      BY <2>2 DEF New, Empty, HeapCalled, Returns
    <3>2. Contents' = HeapKeys(obj')
      BY <3>1 DEF Contents, HeapKeys
    <3>3. HeapKeys(EmptyHeap) = {}
      BY <1>1, EmptyHeapRep DEF HInv
    <3> QED
      BY <3>1, <3>2, <3>3 DEF HeapStarts
  <2>3. CASE UseQueue \/ UseMap \/ UseSet \/ UseVec \/ UseRegion
    BY <2>3 DEF UseQueue, UseMap, UseSet, UseVec, UseRegion, Is, HeapCalled
  <2> QED
    BY <1>1, <2>1, <2>2, <2>3 DEF Next
<1> QED
  BY <1>1, HeapInit, HeapNext, PTL DEF Spec
-------------------------------------------------------------------------------
(* Regions.                                                                    *)

RInv == kind = "region" => RegionRep(obj)

\* Every method does to the words of a region what Containers says of it.
LEMMA RegionMethods ==
    ASSUME RInv, UseRegion
    PROVE  RInv' /\ Promise!RegionStep
<1>1. kind = "region" /\ kind' = "region" /\ RegionRep(obj) /\ ~obj.fail
  BY DEF UseRegion, Is, RInv
<1>2. Contents = Words(obj) /\ Contents' = Words(obj')
  BY <1>1 DEF Contents, Words
<1>3. /\ obj.sz \in Nat /\ obj.wasted \in Nat /\ obj.wasted <= obj.sz /\ WordMax \in Nat
      /\ Contents.used = obj.sz /\ Contents.freed = obj.wasted
      /\ Contents = [used |-> obj.sz, freed |-> obj.wasted]
  BY <1>1, <1>2, RegionTypes, SizesAssumption DEF RegionRep, Words
<1> USE DEF Promise!Of, Promise!Called, Promise!Kept, Returns
<1>4. CASE AllocWords
  <2>1. PICK n \in Sizes : /\ CapacityEnds(obj, Wrap(obj.sz + n)) /\ obj' = RegionAlloc(obj, n)
                           /\ IF obj'.fail THEN Returns("throw", n, None)
                                           ELSE Returns("alloc", n, obj.sz)
    BY <1>4 DEF AllocWords, Grows
  <2>2. n \in 0 .. WordMax
    BY SizesAssumption
  <2>3. /\ RegionRep(obj')
        /\ obj'.fail => 13 * (obj.sz + n) > 8 * (WordMax - 2)
        /\ ~obj'.fail => Words(obj') = [used |-> obj.sz + n, freed |-> obj.wasted]
    BY <1>1, <2>1, <2>2, AllocMeans
  <2>4. CASE obj'.fail
    <3>1. ret'.op = "throw" /\ ret'.arg = n
      BY <2>1, <2>4
    <3> QED
      BY <1>1, <1>3, <2>3, <2>4, <3>1 DEF RInv, Promise!RegionStep
  <2>5. CASE ~obj'.fail
    <3>1. ret'.op = "alloc" /\ ret'.arg = n /\ ret'.val = obj.sz
      BY <2>1, <2>5
    <3>2. Contents' = [Contents EXCEPT !.used = @ + n]
      BY <1>2, <1>3, <2>3, <2>5
    <3> QED
      BY <1>1, <1>3, <2>3, <3>1, <3>2 DEF RInv, Promise!RegionStep
  <2> QED
    BY <2>4, <2>5
<1>5. CASE FreeWords
  <2>1. PICK n \in Sizes : obj.wasted + n <= obj.sz /\ obj' = RegionFree(obj, n)
                           /\ ret'.op = "free" /\ ret'.arg = n
    BY <1>5 DEF FreeWords
  <2>2. n \in Nat
    BY SizesAssumption
  <2>3. RegionRep(obj') /\ Words(obj') = [used |-> obj.sz, freed |-> obj.wasted + n]
    BY <1>1, <2>1, <2>2, FreeMeans
  <2>4. Contents' = [Contents EXCEPT !.freed = @ + n]
    BY <1>2, <1>3, <2>3
  <2> QED
    BY <1>1, <2>1, <2>3, <2>4 DEF RInv, Promise!RegionStep
<1>6. CASE MoveRegion
  <2> DEFINE n == obj.sz - obj.wasted
  <2>1. /\ CapacityEnds(NoRegion, n) /\ obj' = RegionMove(obj)
        /\ IF obj'.fail THEN Returns("throw", n, None) ELSE Returns("move", None, None)
    BY <1>6 DEF MoveRegion, Grows
  <2>2. /\ RegionRep(obj')
        /\ obj'.fail => 13 * n > 8 * (WordMax - 2)
        /\ ~obj'.fail => Words(obj') = [used |-> n, freed |-> 0]
    BY <1>1, <2>1, MoveMeans
  <2>3. CASE obj'.fail
    <3>1. ret'.op = "throw" /\ ret'.arg = n
      BY <2>1, <2>3
    <3>2. 13 * (Contents.used + n) > 8 * (WordMax - 2)
      BY <1>3, <2>2, <2>3
    <3> QED
      BY <1>1, <2>2, <3>1, <3>2 DEF RInv, Promise!RegionStep
  <2>4. CASE ~obj'.fail
    <3>1. ret'.op = "move" /\ Contents' = [used |-> Contents.used - Contents.freed, freed |-> 0]
      BY <1>2, <1>3, <2>1, <2>2, <2>4
    <3> QED
      BY <1>1, <2>2, <3>1 DEF RInv, Promise!RegionStep
  <2> QED
    BY <2>3, <2>4
<1> QED
  BY <1>4, <1>5, <1>6 DEF UseRegion

\* A client begins with no region.
LEMMA RegionInit == Init => RInv
BY DEF Init, RInv

\* The region a client is given.
LEMMA StartRep == RegionRep(NewRegion(StartCap)) /\ Words(NewRegion(StartCap)) = [used |-> 0, freed |-> 0]
BY StartCapAssumption, NewRegionRep

\* Every step keeps a region one.
LEMMA RegionNext ==
    ASSUME RInv, [Next]_vars
    PROVE  RInv'
<1>1. CASE New
  BY <1>1, StartRep DEF New, Empty, RInv
<1>2. CASE UseRegion
  BY <1>2, RegionMethods
<1>3. CASE UseHeap \/ UseQueue \/ UseMap \/ UseSet \/ UseVec
  BY <1>3 DEF UseHeap, UseQueue, UseMap, UseSet, UseVec, Is, RInv
<1>4. CASE UNCHANGED vars
  BY <1>4 DEF vars, RInv
<1> QED
  BY <1>1, <1>2, <1>3, <1>4 DEF Next

\* The representation is what RegionOK says.
LEMMA RegionRepOK ==
    ASSUME RInv, kind = "region"
    PROVE  RegionOK
<1>1. RegionRep(obj)
  BY DEF RInv
<1> QED
  BY <1>1, RegionTypes DEF RegionOK, RegionRep

(* A region that has not thrown has no more words in use than it has, and no   *)
(* more wasted than used, and its capacity is one a word can hold              *)
(* (Alloc.h:86-125), for words of every width.                                 *)
THEOREM RegionStaysInWords == Spec => [](kind = "region" => RegionOK)
<1>1. RInv => (kind = "region" => RegionOK)
  BY RegionRepOK
<1> QED
  BY <1>1, RegionInit, RegionNext, PTL DEF Spec

-------------------------------------------------------------------------------
(* Vectors.                                                                    *)

VInv == kind = "vec" => VecRep(obj)

\* Every method does to the elements of a vector what Containers says of it.
LEMMA VecMethods ==
    ASSUME VInv, UseVec
    PROVE  VInv' /\ Promise!VecStep
<1>1. kind = "vec" /\ kind' = "vec" /\ VecRep(obj) /\ ~obj.fail
  BY DEF UseVec, Is, VInv
<1>2. Contents = obj.data /\ Contents' = obj'.data
  BY <1>1 DEF Contents
<1>3. /\ obj.data \in Seq(Values) /\ Len(obj.data) \in Nat /\ Len(obj.data) <= obj.cap
      /\ IntMax \in Nat /\ MaxSize \in Nat
  BY <1>1, VecTypes, SizesAssumption
<1> DEFINE n == Len(obj.data)
<1> USE DEF Promise!Of, Promise!Called, Promise!Kept, Returns
<1>throw. ASSUME NEW m, VecRep(obj'), ret' = [op |-> "throw", arg |-> m, val |-> None],
                 3 * m + 4 > 2 * IntMax
          PROVE  VInv' /\ Promise!VecStep
  <2>1. VInv'
    BY <1>throw DEF VInv
  <2>2. ret'.op = "throw" /\ ret'.arg = m
    BY <1>throw
  <2>3. 3 * ret'.arg + 4 > 2 * IntMax
    BY <1>throw, <2>2
  <2> QED
    BY <1>1, <2>1, <2>2, <2>3, Zenon DEF Promise!VecStep
<1>4. CASE PushValue
  <2>1. PICK x \in Values : /\ obj' = VecPush(obj, x)
                            /\ IF obj'.fail THEN Returns("throw", n + 1, None)
                                            ELSE Returns("push", x, None)
    BY <1>4 DEF PushValue, Grows, VecSize
  <2>2. /\ VecRep(obj')
        /\ ~obj'.fail => obj'.data = Append(obj.data, x)
        /\ obj'.fail => 3 * (n + 1) + 4 > 2 * IntMax
    BY <1>1, <2>1, PushMeans
  <2>3. CASE obj'.fail
    <3>1. ret' = [op |-> "throw", arg |-> n + 1, val |-> None] /\ 3 * (n + 1) + 4 > 2 * IntMax
      BY <2>1, <2>2, <2>3
    <3> HIDE DEF n
    <3> QED
      BY <1>throw, <2>2, <3>1
  <2>4. CASE ~obj'.fail
    <3>1. ret'.op = "push" /\ ret'.arg = x /\ Contents' = Append(Contents, x)
      BY <1>2, <2>1, <2>2, <2>4
    <3> QED
      BY <1>1, <2>2, <3>1 DEF VInv, Promise!VecStep
  <2> QED
    BY <2>3, <2>4
<1>5. ASSUME NEW m \in 0 .. n, obj' = VecShrink(obj, m), ret'.op \in {"pop", "shrink"}, ret'.arg = m
      PROVE  VInv' /\ Promise!VecStep
  <2>1. VecRep(obj') /\ obj'.data = SubSeq(obj.data, 1, n - m)
    BY <1>1, <1>5, ShrinkMeans
  <2> QED
    BY <1>1, <1>2, <1>5, <2>1 DEF VInv, Promise!VecStep
<1>6. CASE PopValue \/ ShrinkVec
  <2>1. \E m \in 0 .. n : obj' = VecShrink(obj, m) /\ ret'.op \in {"pop", "shrink"} /\ ret'.arg = m
    <3>1. CASE PopValue
      <4>1. 1 \in 0 .. n
        BY <1>3, <3>1 DEF PopValue, ShrinkBy, VecSize
      <4> QED
        BY <3>1, <4>1 DEF PopValue, ShrinkBy
    <3>2. CASE ShrinkVec
      BY <3>2 DEF ShrinkVec, ShrinkBy, VecSize
    <3> QED
      BY <1>6, <3>1, <3>2
  <2> QED
    BY <1>5, <2>1
<1>7. CASE GrowVec
  <2>1. PICK m \in (0 .. MaxSize) \cup {IntMax}, x \in Values :
            /\ StepFits(obj, m) /\ obj' = VecGrowTo(obj, m, x)
            /\ IF obj'.fail THEN Returns("throw", m, None) ELSE Returns("growTo", m, x)
    BY <1>7 DEF GrowVec, Grows
  <2>2. m \in Nat
    BY <1>3
  <2>3. /\ VecRep(obj')
        /\ obj'.fail => 3 * m + 4 > 2 * IntMax
        /\ ~obj'.fail => /\ SubSeq(obj'.data, 1, n) = obj.data
                         /\ \A i \in DOMAIN obj'.data \ DOMAIN obj.data : obj'.data[i] = x
                         /\ Len(obj'.data) = IF m > n THEN m ELSE n
    BY <1>1, <2>1, <2>2, GrowToMeans
  <2>4. CASE obj'.fail
    <3>1. ret' = [op |-> "throw", arg |-> m, val |-> None] /\ 3 * m + 4 > 2 * IntMax
      BY <2>1, <2>3, <2>4
    <3> QED
      BY <1>throw, <2>3, <3>1
  <2>5. CASE ~obj'.fail
    <3>1. ret'.op = "growTo" /\ ret'.arg = m /\ ret'.val = x
      BY <2>1, <2>5
    <3>2. /\ SubSeq(Contents', 1, Len(Contents)) = Contents
          /\ \A i \in DOMAIN Contents' \ DOMAIN Contents : Contents'[i] = x
          /\ Len(Contents') = IF m > Len(Contents) THEN m ELSE Len(Contents)
      BY <1>2, <2>3, <2>5
    <3>3. VInv'
      BY <2>3 DEF VInv
    <3> QED
      BY <1>1, <3>1, <3>2, <3>3, Zenon DEF Promise!VecStep
  <2> QED
    BY <2>4, <2>5
<1>8. CASE ClearVec
  <2>1. PICK free \in BOOLEAN : obj' = VecClear(obj, free) /\ ret'.op = "clear"
    BY <1>8 DEF ClearVec
  <2>2. VecRep(obj') /\ obj'.data = <<>>
    BY <1>1, <2>1, ClearMeans
  <2> QED
    BY <1>1, <1>2, <2>1, <2>2 DEF VInv, Promise!VecStep
<1>9. CASE CopyVec
  <2>1. /\ obj' = VecCopy(obj, EmptyVec)
        /\ IF obj'.fail THEN Returns("throw", n, None) ELSE Returns("copyTo", None, None)
    BY <1>9 DEF CopyVec, Grows, VecSize
  <2>2. /\ VecRep(obj')
        /\ obj'.fail => 3 * n + 4 > 2 * IntMax
        /\ ~obj'.fail => obj'.data = obj.data
    BY <1>1, <2>1, CopyMeans
  <2>3. CASE obj'.fail
    <3>1. ret' = [op |-> "throw", arg |-> n, val |-> None] /\ 3 * n + 4 > 2 * IntMax
      BY <2>1, <2>2, <2>3
    <3> HIDE DEF n
    <3> QED
      BY <1>throw, <2>2, <3>1
  <2>4. CASE ~obj'.fail
    <3>1. ret'.op = "copyTo" /\ Contents' = Contents
      BY <1>2, <2>1, <2>2, <2>4
    <3> QED
      BY <1>1, <2>2, <3>1 DEF VInv, Promise!VecStep
  <2> QED
    BY <2>3, <2>4
<1>10. CASE MoveVec
  BY <1>1, <1>2, <1>10 DEF MoveVec, VInv, Promise!VecStep
<1>11. CASE Doubled
  <2>1. /\ obj' = VecAppend(obj, obj)
        /\ IF obj'.fail THEN Returns("throw", 2 * n, None) ELSE Returns("append", None, None)
    BY <1>11 DEF Doubled, Grows, VecSize
  <2>2. /\ VecRep(obj')
        /\ ~obj'.fail => obj'.data = obj.data \o obj.data
        /\ obj'.fail => 3 * (n + n) + 4 > 2 * IntMax
    BY <1>1, <2>1, AppendMeans
  <2>3. n + n = 2 * n
    BY <1>3
  <2>4. CASE obj'.fail
    <3>1. ret' = [op |-> "throw", arg |-> 2 * n, val |-> None] /\ 3 * (2 * n) + 4 > 2 * IntMax
      BY <2>1, <2>2, <2>3, <2>4
    <3> HIDE DEF n
    <3> QED
      BY <1>throw, <2>2, <3>1
  <2>5. CASE ~obj'.fail
    <3>1. ret'.op = "append" /\ Contents' = Contents \o Contents
      BY <1>2, <2>1, <2>2, <2>5
    <3> QED
      BY <1>1, <2>2, <3>1 DEF VInv, Promise!VecStep
  <2> QED
    BY <2>4, <2>5
<1>12. CASE SortVec
  <2> DEFINE t == Sort(obj.data, LowerHalf)
  <2>1. obj' = [obj EXCEPT !.data = t] /\ ret'.op = "sort"
    BY <1>12 DEF SortVec
  <2>2. t \in Seq(Values) /\ Len(t) = n /\ Promise!SortOf(t, obj.data)
    BY <1>3, SortIsPromised
  <2> HIDE DEF t
  <2>3. VecRep(obj') /\ obj'.data = t
    BY <1>1, <1>3, <2>1, <2>2, WithData
  <2> QED
    BY <1>1, <1>2, <2>1, <2>2, <2>3 DEF VInv, Promise!VecStep
<1>13. CASE RemoveValue
  <2>1. PICK x \in Range(obj.data) : obj' = [obj EXCEPT !.data = RemoveElem(obj.data, x)]
                                      /\ ret'.op = "remove" /\ ret'.arg = x
    BY <1>13 DEF RemoveValue
  <2> DEFINE t == RemoveElem(obj.data, x)
  <2>2. t \in Seq(Values) /\ Len(t) < n /\ Promise!WithoutFirst(t, obj.data, x)
    BY <1>3, RemoveMeans
  <2>3. Len(t) <= obj.cap
    <3>1. Len(t) \in Nat /\ obj.cap \in Nat
      BY <1>1, <2>2, VecTypes
    <3> HIDE DEF t
    <3> QED
      BY <1>3, <2>2, <3>1
  <2>4. obj' = [obj EXCEPT !.data = t]
    BY <2>1
  <2> HIDE DEF t
  <2>5. VecRep(obj') /\ obj'.data = t
    BY <1>1, <2>2, <2>3, <2>4, WithData
  <2> QED
    BY <1>1, <1>2, <2>1, <2>2, <2>5 DEF VInv, Promise!VecStep
<1>14. CASE FindValue
  BY <1>1, <1>2, <1>14 DEF FindValue, Find, VInv, Promise!VecStep
<1> QED
  BY <1>4, <1>6, <1>7, <1>8, <1>9, <1>10, <1>11, <1>12, <1>13, <1>14 DEF UseVec

\* A client begins with a vector.
LEMMA VecInit == Init => VInv
BY EmptyVecRep DEF Init, Empty, VInv

\* Every step keeps a vector one.
LEMMA VecNext ==
    ASSUME VInv, [Next]_vars
    PROVE  VInv'
<1>1. CASE New
  BY <1>1, EmptyVecRep DEF New, Empty, VInv
<1>2. CASE UseVec
  BY <1>2, VecMethods
<1>3. CASE UseHeap \/ UseQueue \/ UseMap \/ UseSet \/ UseRegion
  BY <1>3 DEF UseHeap, UseQueue, UseMap, UseSet, UseRegion, Is, VInv
<1>4. CASE UNCHANGED vars
  BY <1>4 DEF vars, VInv
<1> QED
  BY <1>1, <1>2, <1>3, <1>4 DEF Next

\* The representation is what VecOK says.
LEMMA VecRepOK ==
    ASSUME VInv, kind = "vec"
    PROVE  VecOK
<1>1. VecRep(obj)
  BY DEF VInv
<1> QED
  BY <1>1, VecTypes DEF VecOK, VecSize

\* Why the client leaves one call out: a vector without a buffer that is asked for
\* the largest int does not throw.  The step wraps around to 2, and growTo() writes
\* IntMax elements into a buffer of two (Vec.h:100-113).
THEOREM LargestIntOverruns ==
    ASSUME NEW x \in Values
    PROVE  LET w == VecGrowTo(EmptyVec, IntMax, x)
           IN  /\ ~StepFits(EmptyVec, IntMax)
               /\ ~w.fail /\ w.cap = 2 /\ VecSize(w) = IntMax /\ w.cap < IntMax
<1> DEFINE w == VecGrowTo(EmptyVec, IntMax, x)
           v == [data |-> <<>>, cap |-> 2, fail |-> FALSE]
<1>1. EmptyVec = [data |-> <<>>, cap |-> 0, fail |-> FALSE] /\ IntMax \in Nat /\ IntMax > 2
  <2>1. IntMax # 2
    BY IntAssumption
  <2> QED
    BY <2>1, SizesAssumption, IntAssumption DEF EmptyVec
<1>2. Grown(0, IntMax) = 2
  <2>1. WrapInt(IntMax - 0 + 1) = -(IntMax + 1)
    BY <1>1 DEF WrapInt
  <2>2. Even(-(IntMax + 1)) <= 0 /\ Even(-(IntMax + 1)) \in Int
    BY <1>1 DEF Even
  <2>3. Even(0 \div 2 + 2) = 2
    BY DEF Even
  <2> QED
    BY <2>1, <2>2, <2>3 DEF Grown, Larger
<1>3. Capacity(EmptyVec, IntMax) = v
  <2>1. Capacity(EmptyVec, IntMax) = [EmptyVec EXCEPT !.cap = @ + 2]
    <3>1. EmptyVec.cap = 0 /\ ~ (0 >= IntMax) /\ ~ (2 > IntMax - 0)
      BY <1>1
    <3>2. Grown(EmptyVec.cap, IntMax) = 2
      BY <1>2, <3>1
    <3> HIDE DEF v, w
    <3> QED
      BY <3>1, <3>2, Zenon DEF Capacity
  <2>2. [EmptyVec EXCEPT !.cap = @ + 2] = [EmptyVec EXCEPT !.cap = 2]
    <3>1. EmptyVec.cap + 2 = 2
      BY <1>1
    <3> QED
      BY <3>1, Zenon
  <2>3. [EmptyVec EXCEPT !.cap = 2] = v
    <3>1. EmptyVec = [data |-> EmptyVec.data, cap |-> EmptyVec.cap, fail |-> EmptyVec.fail]
      BY DEF EmptyVec
    <3>2. EmptyVec.data = <<>> /\ EmptyVec.fail = FALSE
      BY DEF EmptyVec
    <3>3. [EmptyVec EXCEPT !.cap = 2] = [data |-> EmptyVec.data, cap |-> 2, fail |-> EmptyVec.fail]
      BY <3>1
    <3> QED
      BY <3>2, <3>3, Zenon
  <2> HIDE DEF v
  <2> QED
    BY <2>1, <2>2, <2>3, Zenon
<1> DEFINE t == Padded(<<>>, IntMax, x)
<1>4. w = [v EXCEPT !.data = t]
  <2>1. VecSize(EmptyVec) = 0 /\ v.data = <<>> /\ v.fail = FALSE
    BY <1>1 DEF VecSize
  <2>2. ~ (VecSize(EmptyVec) >= IntMax)
    BY <1>1, <2>1
  <2> QED
    BY <1>3, <2>1, <2>2 DEF VecGrowTo, IfNotFailed, Padded
<1>5. t \in Seq(Values) /\ Len(t) = IntMax
  <2> DEFINE e == <<>>
  <2>1. e \in Seq(Values) /\ IntMax \in Nat /\ IntMax > Len(e)
    BY <1>1
  <2> HIDE DEF e
  <2>2. Padded(e, IntMax, x) \in Seq(Values) /\ Len(Padded(e, IntMax, x)) = IntMax
    BY <2>1, PaddedMeans
  <2> QED
    BY <2>2 DEF e
<1> HIDE DEF t
<1>6. w = [data |-> t, cap |-> 2, fail |-> FALSE]
  BY <1>4
<1> HIDE DEF w
<1>7. w.cap = 2 /\ w.fail = FALSE /\ VecSize(w) = IntMax
  BY <1>5, <1>6 DEF VecSize
<1> QED
  BY <1>1, <1>7 DEF StepFits, w

(* A vector has room for its elements and an even capacity (Vec.h:79-85), so   *)
(* that push() does not overflow an int, for ints of every width: every call   *)
(* makes room or throws, but for the one of LargestIntOverruns.                *)
THEOREM VecKeepsCapacity == Spec => [](kind = "vec" => VecOK)
<1>1. VInv => (kind = "vec" => VecOK)
  BY VecRepOK
<1> QED
  BY <1>1, VecInit, VecNext, PTL DEF Spec

-------------------------------------------------------------------------------
(* Maps.                                                                       *)

MInv == kind = "map" => MapRep(obj)

\* The function of keys to data that a map stands for, as Contents has it.
Mapping(m) == [k \in {x \in Keys : MapPeek(m, x) # {}} |-> MapIndex(m, k)]

\* f has the pairs of the set P.
GraphOf(f, P) ==
    /\ f = [k \in DOMAIN f |-> f[k]]
    /\ \A k, d : <<k, d>> \in P <=> k \in DOMAIN f /\ f[k] = d

\* Two functions with the same pairs are the same.
LEMMA SameGraph ==
    ASSUME NEW f, NEW g, NEW P, GraphOf(f, P), GraphOf(g, P)
    PROVE  f = g
<1>1. \A k : k \in DOMAIN f => <<k, f[k]>> \in P
  BY DEF GraphOf
<1>2. \A k : k \in DOMAIN g => <<k, g[k]>> \in P
  BY DEF GraphOf
<1>3. \A k : k \in DOMAIN f => k \in DOMAIN g /\ g[k] = f[k]
  BY <1>1 DEF GraphOf
<1>4. \A k : k \in DOMAIN g => k \in DOMAIN f
  BY <1>2 DEF GraphOf
<1>5. DOMAIN f = DOMAIN g /\ \A k \in DOMAIN f : f[k] = g[k]
  BY <1>3, <1>4
<1> QED
  BY <1>5 DEF GraphOf

\* The function of a map has the pairs of its table.
LEMMA MappingMeans ==
    ASSUME NEW m, MapRep(m)
    PROVE  GraphOf(Mapping(m), PairSet(m.table))
<1> DEFINE P == PairSet(m.table)
           D == {x \in Keys : MapPeek(m, x) # {}}
           f == Mapping(m)
<1>1. DOMAIN f = D /\ f = [k \in D |-> f[k]] /\ \A k \in D : f[k] = MapIndex(m, k)
  BY DEF Mapping
<1>2. \A k \in Keys : /\ MapPeek(m, k) = {d \in Data : <<k, d>> \in P}
                      /\ \A d : <<k, d>> \in P => MapIndex(m, k) = d
  BY LookMeans
<1>3. \A k, d : <<k, d>> \in P => k \in Keys /\ d \in Data
  <2>1. P \subseteq AllPairs
    BY PairSetMeans DEF MapRep
  <2> HIDE DEF P
  <2> QED
    BY <2>1 DEF AllPairs
<1> HIDE DEF P, f
<1>4. ASSUME NEW k, NEW d, <<k, d>> \in P
      PROVE  k \in D /\ f[k] = d
  BY <1>1, <1>2, <1>3, <1>4
<1>5. ASSUME NEW k \in D
      PROVE  <<k, f[k]>> \in P
  <2>1. PICK d \in Data : <<k, d>> \in P
    BY <1>2
  <2> QED
    BY <1>4, <2>1
<1> HIDE DEF D
<1>6. \A k, d : <<k, d>> \in P <=> k \in DOMAIN f /\ f[k] = d
  BY <1>1, <1>4, <1>5
<1>7. GraphOf(f, P)
  BY <1>1, <1>6 DEF GraphOf
<1> QED
  BY <1>7 DEF P, f

\* A function with one more pair.
LEMMA WithGraph ==
    ASSUME NEW f, NEW P, GraphOf(f, P), NEW k, NEW d, \A e : <<k, e>> \notin P
    PROVE  GraphOf(Promise!With(f, k, d), P \cup {<<k, d>>})
<1> DEFINE g == Promise!With(f, k, d)
<1>1. DOMAIN g = DOMAIN f \cup {k} /\ g = [x \in DOMAIN g |-> g[x]]
      /\ \A x \in DOMAIN g : g[x] = IF x = k THEN d ELSE f[x]
  BY DEF Promise!With
<1> HIDE DEF g
<1>2. k \notin DOMAIN f
  BY DEF GraphOf
<1>3. \A x, e : <<x, e>> \in P \cup {<<k, d>>} <=> x \in DOMAIN g /\ g[x] = e
  <2> TAKE x, e
  <2>1. <<x, e>> \in P <=> x \in DOMAIN f /\ f[x] = e
    BY DEF GraphOf
  <2>2. <<x, e>> = <<k, d>> <=> x = k /\ e = d
    OBVIOUS
  <2> QED
    BY <1>1, <1>2, <2>1, <2>2
<1> QED
  BY <1>1, <1>3 DEF GraphOf, g

\* A function without the pairs of a key.
LEMMA WithoutGraph ==
    ASSUME NEW f, NEW P, GraphOf(f, P), NEW k, NEW Q,
           \A p : p \in Q <=> p \in P /\ p[1] # k
    PROVE  GraphOf(Promise!Without(f, k), Q)
<1> DEFINE g == Promise!Without(f, k)
<1>1. DOMAIN g = DOMAIN f \ {k} /\ g = [x \in DOMAIN g |-> g[x]]
      /\ \A x \in DOMAIN g : g[x] = f[x]
  BY DEF Promise!Without
<1> HIDE DEF g
<1>3. \A x, e : <<x, e>> \in Q <=> x \in DOMAIN g /\ g[x] = e
  <2> TAKE x, e
  <2>1. <<x, e>> \in P <=> x \in DOMAIN f /\ f[x] = e
    BY DEF GraphOf
  <2>2. <<x, e>>[1] = x
    OBVIOUS
  <2>3. <<x, e>> \in Q <=> <<x, e>> \in P /\ x # k
    BY <2>2
  <2> QED
    BY <1>1, <2>1, <2>3
<1> QED
  BY <1>1, <1>3 DEF GraphOf, g

\* The empty function is the empty sequence.
LEMMA NoGraph ==
    ASSUME NEW f, GraphOf(f, {})
    PROVE  f = <<>>
<1>1. GraphOf(<<>>, {})
  <2>1. DOMAIN <<>> = {} /\ <<>> = [i \in DOMAIN <<>> |-> <<>>[i]]
    OBVIOUS
  <2> QED
    BY <2>1 DEF GraphOf
<1> QED
  BY <1>1, SameGraph

\* A map begins as the empty function.
LEMMA EmptyMapping == MapRep(EmptyMap) /\ Mapping(EmptyMap) = <<>>
BY EmptyMapRep, MappingMeans, NoGraph

\* Every method does to the pairs of a map what Containers says of it.
LEMMA MapMethods ==
    ASSUME MInv, UseMap
    PROVE  MInv' /\ Promise!MapStep
<1>1. kind = "map" /\ kind' = "map" /\ MapRep(obj)
  BY DEF UseMap, Is, MInv
<1>2. Contents = Mapping(obj) /\ Contents' = Mapping(obj')
  BY <1>1 DEF Contents, Mapping
<1> DEFINE P == PairSet(obj.table)
<1>3. GraphOf(Contents, P)
  BY <1>1, <1>2, MappingMeans
<1> USE DEF Promise!Of, Promise!Called, Promise!Kept, Returns
<1>4. CASE InsertPair
  <2>1. PICK k \in Keys, d \in Data : /\ MapPeek(obj, k) = {} /\ obj' = MapInsert(obj, k, d)
                                      /\ ret'.op = "insert" /\ ret'.arg = k /\ ret'.val = d
    BY <1>4 DEF InsertPair
  <2>2. MapRep(obj') /\ PairSet(obj'.table) = P \cup {<<k, d>>}
    BY <1>1, <2>1, MapInsertMeans
  <2>3. \A e : <<k, e>> \notin P
    <3>1. MapPeek(obj, k) = {e \in Data : <<k, e>> \in P}
      BY <1>1, LookMeans
    <3>2. P \subseteq AllPairs
      BY <1>1, PairSetMeans DEF MapRep
    <3> HIDE DEF P
    <3> QED
      BY <2>1, <3>1, <3>2 DEF AllPairs
  <2>4. GraphOf(Contents', P \cup {<<k, d>>})
    BY <1>2, <2>2, MappingMeans
  <2>5. GraphOf(Promise!With(Contents, k, d), P \cup {<<k, d>>})
    BY <1>3, <2>3, WithGraph
  <2>6. Contents' = Promise!With(Contents, k, d)
    BY <2>4, <2>5, SameGraph
  <2> QED
    BY <1>1, <2>1, <2>2, <2>6 DEF MInv, Promise!MapStep
<1>5. CASE RemovePair
  <2>1. PICK k \in Keys : /\ MapPeek(obj, k) # {} /\ obj' = MapRemove(obj, k)
                          /\ ret'.op = "remove" /\ ret'.arg = k
    BY <1>5 DEF RemovePair
  <2>2. MapRep(obj') /\ \A p : p \in PairSet(obj'.table) <=> p \in P /\ p[1] # k
    BY <1>1, <2>1, MapRemoveMeans
  <2>3. GraphOf(Contents', PairSet(obj'.table))
    BY <1>2, <2>2, MappingMeans
  <2>4. GraphOf(Promise!Without(Contents, k), PairSet(obj'.table))
    BY <1>3, <2>2, WithoutGraph
  <2>5. Contents' = Promise!Without(Contents, k)
    BY <2>3, <2>4, SameGraph
  <2> QED
    BY <1>1, <2>1, <2>2, <2>5 DEF MInv, Promise!MapStep
<1>6. CASE PeekPair
  <2>1. PICK k \in Keys : /\ ret'.op = "peek" /\ ret'.arg = k /\ ret'.val = MapPeek(obj, k)
                          /\ obj' = obj
    BY <1>6 DEF PeekPair
  <2>2. MapPeek(obj, k) = {d \in Data : <<k, d>> \in P}
    BY <1>1, LookMeans
  <2>3. P \subseteq AllPairs
    BY <1>1, PairSetMeans DEF MapRep
  <2> HIDE DEF P
  <2>4. \A d : d \in MapPeek(obj, k) <=> k \in DOMAIN Contents /\ Contents[k] = d
    BY <1>3, <2>2, <2>3 DEF GraphOf, AllPairs
  <2>5. MapPeek(obj, k) = {Contents[x] : x \in DOMAIN Contents \cap {k}}
    BY <2>4
  <2>6. ret'.val = {Contents[x] : x \in DOMAIN Contents \cap {ret'.arg}}
    BY <2>1, <2>5
  <2> QED
    BY <1>1, <1>2, <2>1, <2>6 DEF MInv, Promise!MapStep
<1>7. CASE IndexPair
  <2>1. PICK k \in Keys : /\ MapPeek(obj, k) # {} /\ obj' = obj
                          /\ ret'.op = "index" /\ ret'.arg = k /\ ret'.val = MapIndex(obj, k)
    BY <1>7 DEF IndexPair
  <2>2. /\ MapPeek(obj, k) = {d \in Data : <<k, d>> \in P}
        /\ \A d : <<k, d>> \in P => MapIndex(obj, k) = d
    BY <1>1, LookMeans
  <2>3. PICK d : <<k, d>> \in P
    BY <2>1, <2>2
  <2>4. MapIndex(obj, k) = d /\ Contents[k] = d
    BY <1>3, <2>2, <2>3 DEF GraphOf
  <2> QED
    BY <1>1, <1>2, <2>1, <2>4 DEF MInv, Promise!MapStep
<1>8. CASE ClearMap
  <2>1. obj' = EmptyMap /\ ret'.op = "clear"
    BY <1>8 DEF ClearMap
  <2>2. MapRep(obj') /\ Contents' = <<>>
    BY <1>2, <2>1, EmptyMapping
  <2> QED
    BY <1>1, <2>1, <2>2 DEF MInv, Promise!MapStep
<1> QED
  BY <1>4, <1>5, <1>6, <1>7, <1>8 DEF UseMap

\* A client begins with no map.
LEMMA MapInit == Init => MInv
BY DEF Init, MInv

\* Every step keeps a map one.
LEMMA MapNext ==
    ASSUME MInv, [Next]_vars
    PROVE  MInv'
<1>1. CASE New
  BY <1>1, EmptyMapping DEF New, Empty, MInv
<1>2. CASE UseMap
  BY <1>2, MapMethods
<1>3. CASE UseHeap \/ UseQueue \/ UseSet \/ UseVec \/ UseRegion
  BY <1>3 DEF UseHeap, UseQueue, UseSet, UseVec, UseRegion, Is, MInv
<1>4. CASE UNCHANGED vars
  BY <1>4 DEF vars, MInv
<1> QED
  BY <1>1, <1>2, <1>3, <1>4 DEF Next

\* The representation is what MapOK says.
LEMMA MapRepOK ==
    ASSUME MInv, kind = "map"
    PROVE  MapOK
<1>1. Hashed(obj.table) /\ obj.size = Len(FlattenSeq(obj.table))
  BY DEF MInv, MapRep, Count
<1>2. DOMAIN obj.table = 1 .. Len(obj.table)
  BY <1>1 DEF Hashed
<1>3. ASSUME NEW b \in DOMAIN obj.table, NEW i \in DOMAIN obj.table[b]
      PROVE  /\ Bucket(obj, obj.table[b][i][1]) = b
             /\ \A j \in DOMAIN obj.table[b] :
                   obj.table[b][i][1] = obj.table[b][j][1] => i = j
  <2>1. RowOf(obj.table[b], b, Len(obj.table))
    BY <1>1, <1>2 DEF Hashed
  <2> QED
    BY <2>1 DEF RowOf, Bucket, BucketOf
<1> QED
  BY <1>1, <1>3 DEF MapOK

(* Every pair of a map is in the bucket of its key, no key twice, and all are  *)
(* counted (Map.h:74-97), for every sequence of table sizes.                   *)
THEOREM MapKeepsBuckets == Spec => [](kind = "map" => MapOK)
<1>1. MInv => (kind = "map" => MapOK)
  BY MapRepOK
<1> QED
  BY <1>1, MapInit, MapNext, PTL DEF Spec

-------------------------------------------------------------------------------
(* All containers.                                                             *)

\* The representations of all containers.
ContainersInv == QInv /\ SInv /\ HInv /\ RInv /\ VInv /\ MInv

\* A client begins with a container in its representation.
LEMMA ContainersInit == Init => ContainersInv
BY QueueInit, SetInit, HeapInit, RegionInit, VecInit, MapInit DEF ContainersInv

\* Every step keeps it so.
LEMMA ContainersNext ==
    ASSUME ContainersInv, [Next]_vars
    PROVE  ContainersInv'
<1>1. QInv' /\ SInv' /\ HInv'
  BY QueueNext, SetNext, HeapNext DEF ContainersInv
<1>2. RInv' /\ VInv' /\ MInv'
  BY RegionNext, VecNext, MapNext DEF ContainersInv
<1> QED
  BY <1>1, <1>2 DEF ContainersInv

(* Every container keeps the representation its next method relies on,         *)
(* whatever calls a client makes: heap order and positions (Heap.h), a free    *)
(* slot (Queue.h:49), pairs in their buckets (Map.h), flags that agree with    *)
(* the vector (IntMap.h), even capacities (Vec.h:79-82) and words within the   *)
(* capacity (Alloc.h), for all keys, data, table sizes and widths of words.    *)
THEOREM ContainersKeepRep == Spec => []RepOK
<1>1. Spec => [](kind = "heap" => HeapOK)
  BY HeapKeepsOrder
<1>2. Spec => [](kind = "queue" => QueueOK)
  BY QueueKeepsFreeSlot
<1>3. Spec => [](kind = "set" => SetOK)
  BY SetFlagsMatch
<1>4. (kind = "heap" => HeapOK) /\ (kind = "queue" => QueueOK) /\ (kind = "map" => MapOK)
      /\ (kind = "set" => SetOK) /\ (kind = "vec" => VecOK) /\ (kind = "region" => RegionOK)
      => RepOK
  BY DEF RepOK
<1> QED
  BY <1>1, <1>2, <1>3, <1>4, RegionStaysInWords, VecKeepsCapacity, MapKeepsBuckets, PTL

\* A client begins with what Containers begins with.
LEMMA FreshAtFirst == Init => Promise!Fresh
<1> SUFFICES ASSUME Init PROVE Promise!Fresh
  OBVIOUS
<1>1. kind = "vec" /\ obj = EmptyVec /\ ret.op = "new"
  BY DEF Init, Empty
<1>2. Contents = <<>>
  BY <1>1, EmptyVecRep DEF Contents
<1> QED
  BY <1>1, <1>2 DEF Promise!Fresh, Promise!Kinds, Promise!Empty

\* A new container of any kind is an empty one.
LEMMA NewIsNew ==
    ASSUME ContainersInv, New
    PROVE  Promise!New
<1>1. kind' \in Kinds /\ obj' = Empty(kind') /\ ret'.op = "new"
  BY DEF New, Returns
<1>2. CASE kind' = "heap"
  <2>1. obj' = EmptyHeap /\ Contents' = HeapKeys(obj')
    BY <1>1, <1>2 DEF Empty, Contents, HeapKeys
  <2>2. HeapKeys(EmptyHeap) = {}
    BY EmptyHeapRep DEF ContainersInv, HInv
  <2> QED
    BY <1>1, <1>2, <2>1, <2>2 DEF Promise!New, Promise!Called, Promise!Kinds, Promise!Empty
<1>3. CASE kind' = "queue"
  <2>1. obj' = EmptyQueue /\ Contents' = Queued(obj')
    BY <1>1, <1>3 DEF Empty, Contents, Queued
  <2> QED
    BY <1>1, <1>3, <2>1, EmptyQueueType DEF Promise!New, Promise!Called, Promise!Kinds, Promise!Empty
<1>4. CASE kind' = "map"
  <2>1. obj' = EmptyMap /\ Contents' = Mapping(obj')
    BY <1>1, <1>4 DEF Empty, Contents, Mapping
  <2> QED
    BY <1>1, <1>4, <2>1, EmptyMapping DEF Promise!New, Promise!Called, Promise!Kinds, Promise!Empty
<1>5. CASE kind' = "set"
  <2>1. obj' = EmptySet /\ Contents' = Members(obj')
    BY <1>1, <1>5 DEF Empty, Contents, Members
  <2> QED
    BY <1>1, <1>5, <2>1, EmptySetRep DEF Promise!New, Promise!Called, Promise!Kinds, Promise!Empty
<1>6. CASE kind' = "vec"
  <2>1. obj' = EmptyVec /\ Contents' = obj'.data
    BY <1>1, <1>6 DEF Empty, Contents
  <2> QED
    BY <1>1, <1>6, <2>1, EmptyVecRep DEF Promise!New, Promise!Called, Promise!Kinds, Promise!Empty
<1>7. CASE kind' = "region"
  <2>1. obj' = NewRegion(StartCap) /\ Contents' = Words(obj')
    BY <1>1, <1>7 DEF Empty, Contents, Words
  <2> QED
    BY <1>1, <1>7, <2>1, StartRep DEF Promise!New, Promise!Called, Promise!Kinds, Promise!Empty
<1> QED
  BY <1>1, <1>2, <1>3, <1>4, <1>5, <1>6, <1>7 DEF Kinds

\* Every call is one of Containers.
LEMMA CallIsPromised ==
    ASSUME ContainersInv, [Next]_vars
    PROVE  [Promise!Next]_(Promise!vars)
<1>1. CASE New
  BY <1>1, NewIsNew DEF Promise!Next
<1>2. CASE UseHeap
  BY <1>2, HeapMethods DEF ContainersInv, Promise!Next
<1>3. CASE UseQueue
  BY <1>3, QueueMethods DEF ContainersInv, Promise!Next
<1>4. CASE UseMap
  BY <1>4, MapMethods DEF ContainersInv, Promise!Next
<1>5. CASE UseSet
  BY <1>5, SetMethods DEF ContainersInv, Promise!Next
<1>6. CASE UseVec
  BY <1>6, VecMethods DEF ContainersInv, Promise!Next
<1>7. CASE UseRegion
  BY <1>7, RegionMethods DEF ContainersInv, Promise!Next
<1>8. CASE UNCHANGED vars
  BY <1>8 DEF vars, Promise!vars, Contents
<1> QED
  BY <1>1, <1>2, <1>3, <1>4, <1>5, <1>6, <1>7, <1>8 DEF Next

(* The containers of mtl are those of Containers: every call changes and       *)
(* answers what a client is promised, for every value of the constants.  A     *)
(* heap gives up a least key, a queue keeps its order, a map its pairs through *)
(* rehash() (Map.h:79-97), sort() only permutes and sorts by halves           *)
(* (Sort.h:39-79), no address is handed out twice (Alloc.h:110-125).           *)
THEOREM ContainersKeepPromise == Spec => Implements
<1>1. Spec => []ContainersInv
  BY ContainersInit, ContainersNext, PTL DEF Spec
<1> QED
  BY <1>1, FreshAtFirst, CallIsPromised, PTL DEF Spec, Implements, Promise!Spec
===============================================================================
