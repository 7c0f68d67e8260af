---------------------------- MODULE Recursion_proofs ----------------------------
(* Recursive functions and inductions over data.  The induction theorems of    *)
(* the library take an operator; here an induction is about a set, by its      *)
(* least counterexample, and a recursive function is the sequence that         *)
(* repeating a step defines, or repeating it for both of two smaller parts.    *)
EXTENDS Naturals, Sequences, Functions, SequencesExt, FiniteSetTheorems, WellFoundedInduction, TLAPS

(* What holds of 0 and passes from k to k + 1 holds of every natural number.   *)
LEMMA InductionOn ==
    ASSUME NEW S, 0 \in S, \A k \in Nat : k \in S => k + 1 \in S
    PROVE  Nat \subseteq S
<1> SUFFICES ASSUME Nat \ S # {} PROVE FALSE
  OBVIOUS
<1>1. PICK m \in Nat \ S : \A x \in Nat \ S : ~ (<<x, m>> \in OpToRel(<, Nat))
  BY NatLessThanWellFounded, WFMin
<1>2. m - 1 \in Nat /\ m - 1 \in S
  <2>1. m # 0
    OBVIOUS
  <2>2. m - 1 \in Nat /\ m - 1 < m
    BY <2>1
  <2> QED
    BY <1>1, <2>2 DEF OpToRel
<1> QED
  BY <1>2

LEMMA LeastMember ==
    ASSUME NEW S, S \subseteq Nat, S # {}
    PROVE  \E m \in S : \A x \in S : m <= x
<1>1. PICK m \in S : \A x \in S : ~ (<<x, m>> \in OpToRel(<, Nat))
  BY NatLessThanWellFounded, WFMin
<1>2. \A x \in S : ~ (x < m)
  BY <1>1 DEF OpToRel
<1> QED
  BY <1>2

(* A step repeated from a starting point defines a sequence: what a function   *)
(* defined by recursion needs to exist.                                        *)
Steps(X) == [Nat -> [X -> X]]

Repeats(f, X, x0, step) ==
    f \in [Nat -> X] /\ f[0] = x0 /\ \A k \in Nat : f[k + 1] = step[k][f[k]]

LEMMA Iteration ==
    ASSUME NEW X, NEW x0 \in X, NEW step \in Steps(X)
    PROVE  \E f : Repeats(f, X, x0, step)
<1>0. step \in [Nat -> [X -> X]]
  BY DEF Steps
<1> DEFINE Runs(m) == {g \in [Nat -> X] : /\ g[0] = x0
                                          /\ \A k \in 0 .. m - 1 : g[k + 1] = step[k][g[k]]}
           S == {m \in Nat : Runs(m) # {}}
           U == {m \in Nat : \A g, h \in Runs(m) : g[m] = h[m]}
           run(m) == CHOOSE g : g \in Runs(m)
           f == [m \in Nat |-> run(m)[m]]
<1>1. ASSUME NEW m \in Nat
      PROVE  /\ Runs(m + 1) \subseteq Runs(m)
             /\ \A g \in Runs(m + 1) : g[m + 1] = step[m][g[m]]
  <2>1. \A k \in 0 .. m - 1 : k \in 0 .. (m + 1) - 1
    OBVIOUS
  <2>2. m \in 0 .. (m + 1) - 1
    OBVIOUS
  <2> QED
    BY <2>1, <2>2
<1>2. 0 \in S
  <2>1. [k \in Nat |-> x0] \in Runs(0)
    OBVIOUS
  <2> QED
    BY <2>1
<1>3. ASSUME NEW m \in Nat, m \in S
      PROVE  m + 1 \in S
  <2>1. PICK g : g \in Runs(m)
    BY <1>3
  <2> DEFINE h == [g EXCEPT ![m + 1] = step[m][g[m]]]
  <2>2. h \in [Nat -> X]
    BY <1>0, <2>1
  <2>3. h[m + 1] = step[m][g[m]] /\ \A k \in 0 .. m : h[k] = g[k]
    BY <2>1
  <2>4. h[0] = x0
    BY <2>1, <2>3
  <2>5. ASSUME NEW k \in 0 .. (m + 1) - 1
        PROVE  h[k + 1] = step[k][h[k]]
    <3>1. CASE k = m
      BY <2>3, <3>1
    <3>2. CASE k # m
      <4>1. k \in 0 .. m - 1 /\ k + 1 \in 0 .. m /\ k \in 0 .. m
        BY <3>2
      <4> QED
        BY <2>1, <2>3, <4>1
    <3> QED
      BY <3>1, <3>2
  <2> HIDE DEF h
  <2>6. h \in Runs(m + 1)
    BY <2>2, <2>4, <2>5
  <2> QED
    BY <2>6
<1>4. 0 \in U
  OBVIOUS
<1>5. ASSUME NEW m \in Nat, m \in U
      PROVE  m + 1 \in U
  <2> SUFFICES ASSUME NEW g \in Runs(m + 1), NEW h \in Runs(m + 1)
               PROVE  g[m + 1] = h[m + 1]
    OBVIOUS
  <2>1. g \in Runs(m) /\ h \in Runs(m)
    BY <1>1
  <2>2. g[m] = h[m]
    BY <1>5, <2>1
  <2>3. g[m + 1] = step[m][g[m]] /\ h[m + 1] = step[m][h[m]]
    BY <1>1
  <2> QED
    BY <2>2, <2>3
<1>6. Nat \subseteq S /\ Nat \subseteq U
  <2> HIDE DEF S, U
  <2> QED
    BY <1>2, <1>3, <1>4, <1>5, InductionOn
<1>7. \A m \in Nat : run(m) \in Runs(m)
  <2>1. \A m \in Nat : \E g : g \in Runs(m)
    BY <1>6
  <2> HIDE DEF Runs
  <2> QED
    BY <2>1
<1>8. f \in [Nat -> X] /\ f[0] = x0
  <2>1. \A m \in Nat : run(m)[m] \in X /\ run(0)[0] = x0
    <3> HIDE DEF run
    <3> QED
      BY <1>7
  <2> HIDE DEF run
  <2> QED
    BY <2>1
<1>9. ASSUME NEW m \in Nat
      PROVE  f[m + 1] = step[m][f[m]]
  <2> HIDE DEF run
  <2>1. run(m + 1) \in Runs(m + 1) /\ run(m + 1) \in Runs(m) /\ run(m) \in Runs(m)
    <3>1. run(m + 1) \in Runs(m + 1) /\ run(m) \in Runs(m)
      BY <1>7
    <3> QED
      BY <1>1, <3>1
  <2>2. run(m + 1)[m] = run(m)[m]
    <3>1. m \in U
      BY <1>6
    <3> QED
      BY <2>1, <3>1
  <2>3. run(m + 1)[m + 1] = step[m][run(m + 1)[m]]
    BY <1>1, <2>1
  <2> QED
    BY <2>2, <2>3
<1> QED
  BY <1>8, <1>9 DEF Repeats

(* The same up to a bound, as a recursive function over an interval has it.    *)
RepeatsUpTo(g, n, X, x0, step) ==
    /\ g \in [0 .. n -> X] /\ g[0] = x0
    /\ \A i \in 1 .. n : i - 1 \in 0 .. n /\ g[i] = step[i - 1][g[i - 1]]

LEMMA IterationUpTo ==
    ASSUME NEW X, NEW x0 \in X, NEW step \in Steps(X), NEW n \in Nat
    PROVE  \E g : RepeatsUpTo(g, n, X, x0, step)
<1>1. PICK f : Repeats(f, X, x0, step)
  BY Iteration
<1> DEFINE g == [i \in 0 .. n |-> f[i]]
<1>2. g \in [0 .. n -> X] /\ g[0] = x0
  BY <1>1 DEF Repeats
<1>3. ASSUME NEW i \in 1 .. n
      PROVE  i - 1 \in 0 .. n /\ g[i] = step[i - 1][g[i - 1]]
  <2>1. i - 1 \in Nat /\ (i - 1) + 1 = i /\ i - 1 \in 0 .. n /\ i \in 0 .. n
    OBVIOUS
  <2>2. f[(i - 1) + 1] = step[i - 1][f[i - 1]]
    BY <1>1, <2>1 DEF Repeats
  <2> QED
    BY <2>1, <2>2
<1> HIDE DEF g
<1> QED
  BY <1>2, <1>3 DEF RepeatsUpTo

-------------------------------------------------------------------------------
(* Concatenations.                                                             *)

LEMMA RangeOfConcatenation ==
    ASSUME NEW X, NEW s \in Seq(X), NEW t \in Seq(X)
    PROVE  \A x : x \in Range(s \o t) <=> x \in Range(s) \/ x \in Range(t)
<1> DEFINE m == Len(s)
           n == Len(t)
           st == s \o t
<1>1. /\ m \in Nat /\ n \in Nat /\ DOMAIN st = 1 .. m + n /\ DOMAIN s = 1 .. m /\ DOMAIN t = 1 .. n
      /\ \A i \in 1 .. m : st[i] = s[i]
      /\ \A i \in 1 .. n : st[m + i] = t[i]
  OBVIOUS
<1> HIDE DEF m, n, st
<1>2. /\ \A x : x \in Range(st) <=> \E i \in 1 .. m + n : st[i] = x
      /\ \A x : x \in Range(s) <=> \E i \in 1 .. m : s[i] = x
      /\ \A x : x \in Range(t) <=> \E i \in 1 .. n : t[i] = x
  BY <1>1 DEF Range
<1>3. ASSUME NEW i \in 1 .. m
      PROVE  i \in 1 .. m + n /\ st[i] = s[i]
  BY <1>1
<1>4. ASSUME NEW i \in 1 .. n
      PROVE  m + i \in 1 .. m + n /\ st[m + i] = t[i]
  BY <1>1
<1>5. ASSUME NEW i \in 1 .. m + n
      PROVE  (\E j \in 1 .. m : s[j] = st[i]) \/ (\E j \in 1 .. n : t[j] = st[i])
  <2>1. CASE i <= m
    <3>1. i \in 1 .. m
      BY <1>1, <2>1
    <3> QED
      BY <1>3, <3>1
  <2>2. CASE i > m
    <3>1. i - m \in 1 .. n /\ m + (i - m) = i
      BY <1>1, <2>2
    <3> QED
      BY <1>4, <3>1
  <2> QED
    BY <1>1, <2>1, <2>2
<1>6. \A x : x \in Range(st) <=> x \in Range(s) \/ x \in Range(t)
  BY <1>2, <1>3, <1>4, <1>5
<1> QED
  BY <1>6 DEF st

LEMMA PartialConcatenations ==
    ASSUME NEW X, NEW s \in Seq(Seq(X)), s # <<>>
    PROVE  \E F : F = [i \in 1 .. Len(s) |-> IF i = 1 THEN s[i] ELSE F[i - 1] \o s[i]]
<1> DEFINE n == Len(s)
           step == [k \in Nat |-> [q \in Seq(X) |-> IF k + 2 <= n THEN q \o s[k + 2] ELSE q]]
<1>1. n \in Nat \ {0} /\ \A i \in 1 .. n : s[i] \in Seq(X)
  OBVIOUS
<1> HIDE DEF n
<1>2. step \in [Nat -> [Seq(X) -> Seq(X)]]
  <2>1. ASSUME NEW k \in Nat, NEW q \in Seq(X)
        PROVE  (IF k + 2 <= n THEN q \o s[k + 2] ELSE q) \in Seq(X)
    <3>1. k + 2 <= n => s[k + 2] \in Seq(X)
      BY <1>1
    <3> QED
      BY <3>1
  <2> QED
    BY <2>1
<1>3. PICK f \in [Nat -> Seq(X)] : f[0] = s[1] /\ \A k \in Nat : f[k + 1] = step[k][f[k]]
  <2>1. s[1] \in Seq(X)
    BY <1>1
  <2> HIDE DEF step
  <2>2. step \in Steps(Seq(X))
    BY <1>2 DEF Steps
  <2>3. \E f : Repeats(f, Seq(X), s[1], step)
    BY <2>1, <2>2, Iteration
  <2> QED
    BY <2>3 DEF Repeats
<1>4. ASSUME NEW i \in 1 .. n, i # 1
      PROVE  i - 1 \in 1 .. n /\ f[i - 1] = f[i - 2] \o s[i]
  <2> DEFINE k == i - 2
  <2>1. k \in Nat /\ k + 1 = i - 1 /\ k + 2 = i /\ k = i - 2 /\ k + 2 <= n /\ i - 1 \in 1 .. n
    BY <1>1, <1>4
  <2> HIDE DEF k
  <2>2. f[k + 1] = f[k] \o s[k + 2]
    BY <1>3, <2>1
  <2> QED
    BY <2>1, <2>2
<1> DEFINE F == [i \in 1 .. n |-> f[i - 1]]
<1>5. F = [i \in 1 .. n |-> IF i = 1 THEN s[i] ELSE F[i - 1] \o s[i]]
  <2>1. ASSUME NEW i \in 1 .. n
        PROVE  F[i] = IF i = 1 THEN s[i] ELSE F[i - 1] \o s[i]
    <3>1. CASE i = 1
      BY <1>3, <3>1
    <3>2. CASE i # 1
      <4>1. (i - 1) - 1 = i - 2
        BY <1>1
      <4>2. i - 1 \in 1 .. n /\ f[i - 1] = f[i - 2] \o s[i]
        BY <1>4, <3>2
      <4> QED
        BY <3>2, <4>1, <4>2
    <3> QED
      BY <3>1, <3>2
  <2> QED
    BY <2>1
<1> HIDE DEF F
<1> QED
  BY <1>5 DEF n

(* Flattening keeps the members.                                               *)
LEMMA FlattenMembers ==
    ASSUME NEW X, NEW s \in Seq(Seq(X))
    PROVE  /\ FlattenSeq(s) \in Seq(X)
           /\ \A x : x \in Range(FlattenSeq(s)) <=> \E i \in DOMAIN s : x \in Range(s[i])
<1>1. CASE s = <<>>
  <2>1. FlattenSeq(s) = <<>>
    BY <1>1 DEF FlattenSeq
  <2>2. DOMAIN s = {} /\ DOMAIN FlattenSeq(s) = {}
    BY <1>1, <2>1
  <2>3. FlattenSeq(s) \in Seq(X)
    BY <2>1
  <2> QED
    BY <2>2, <2>3 DEF Range
<1>2. CASE s # <<>>
  <2> DEFINE n == Len(s)
             flatten[i \in 1 .. n] == IF i = 1 THEN s[i] ELSE flatten[i - 1] \o s[i]
  <2>1. n \in Nat \ {0} /\ \A i \in 1 .. n : s[i] \in Seq(X)
    BY <1>2
  <2>2. \E F : F = [i \in 1 .. n |-> IF i = 1 THEN s[i] ELSE F[i - 1] \o s[i]]
    BY <1>2, PartialConcatenations
  <2> HIDE DEF n
  <2>3. flatten = [i \in 1 .. n |-> IF i = 1 THEN s[i] ELSE flatten[i - 1] \o s[i]]
    <3>1. flatten = CHOOSE g : g = [i \in 1 .. n |-> IF i = 1 THEN s[i] ELSE g[i - 1] \o s[i]]
      BY DEF flatten
    <3>2. \E g : g = [i \in 1 .. n |-> IF i = 1 THEN s[i] ELSE g[i - 1] \o s[i]]
      <4> HIDE DEF flatten
      <4> QED
        BY <2>2, Zenon
    <3> HIDE DEF flatten
    <3> QED
      BY <3>1, <3>2, Zenon
  <2>7. FlattenSeq(s) = flatten[n]
    <3>1. Len(s) # 0
      BY <2>1 DEF n
    <3> QED
      BY <3>1 DEF FlattenSeq, n
  <2> HIDE DEF flatten
  <2> DEFINE G == {k \in Nat : k + 1 <= n =>
                     /\ flatten[k + 1] \in Seq(X)
                     /\ \A x : x \in Range(flatten[k + 1]) <=> \E i \in 1 .. k + 1 : x \in Range(s[i])}
  <2>8. 0 \in G
    <3>1. flatten[1] = s[1]
      BY <2>1, <2>3
    <3>2. 1 \in 1 .. n /\ \A i : i \in 1 .. 1 <=> i = 1
      BY <2>1
    <3>3. flatten[1] \in Seq(X) /\ \A x : x \in Range(flatten[1]) <=> \E i \in 1 .. 1 : x \in Range(s[i])
      BY <2>1, <3>1, <3>2
    <3>4. 0 + 1 = 1
      OBVIOUS
    <3> QED
      BY <3>3, <3>4
  <2>9. ASSUME NEW k \in Nat, k \in G
        PROVE  k + 1 \in G
    <3> SUFFICES ASSUME k + 2 <= n
                 PROVE  /\ flatten[k + 2] \in Seq(X)
                        /\ \A x : x \in Range(flatten[k + 2]) <=> \E i \in 1 .. k + 2 : x \in Range(s[i])
      OBVIOUS
    <3>1. k + 1 \in 1 .. n /\ k + 2 \in 1 .. n /\ k + 2 # 1 /\ (k + 2) - 1 = k + 1
      BY <2>1
    <3>2. flatten[k + 2] = flatten[k + 1] \o s[k + 2]
      BY <2>3, <3>1
    <3>3. /\ flatten[k + 1] \in Seq(X) /\ s[k + 2] \in Seq(X)
          /\ \A x : x \in Range(flatten[k + 1]) <=> \E i \in 1 .. k + 1 : x \in Range(s[i])
      <4>1. k + 1 <= n
        BY <2>1
      <4>2. s[k + 2] \in Seq(X)
        BY <2>1, <3>1
      <4> QED
        BY <2>9, <4>1, <4>2
    <3>4. \A x : x \in Range(flatten[k + 1] \o s[k + 2])
                     <=> x \in Range(flatten[k + 1]) \/ x \in Range(s[k + 2])
      BY <3>3, RangeOfConcatenation
    <3>5. \A i : i \in 1 .. k + 2 <=> i \in 1 .. k + 1 \/ i = k + 2
      OBVIOUS
    <3>6. flatten[k + 2] \in Seq(X)
      BY <3>2, <3>3
    <3> QED
      BY <3>2, <3>3, <3>4, <3>5, <3>6
  <2>10. n - 1 \in G
    <3>1. Nat \subseteq G
      <4> HIDE DEF G
      <4> QED
        BY <2>8, <2>9, InductionOn
    <3>2. n - 1 \in Nat
      BY <2>1
    <3> HIDE DEF G
    <3> QED
      BY <3>1, <3>2
  <2>11. (n - 1) + 1 = n /\ DOMAIN s = 1 .. n
    BY <2>1 DEF n
  <2>12. /\ flatten[n] \in Seq(X)
         /\ \A x : x \in Range(flatten[n]) <=> \E i \in 1 .. n : x \in Range(s[i])
    BY <2>1, <2>10, <2>11
  <2> QED
    BY <2>7, <2>11, <2>12
<1> QED
  BY <1>1, <1>2
-------------------------------------------------------------------------------
(* Numbers.                                                                    *)

\* Less than two turns of a buffer need one subtraction.
LEMMA OneTurn ==
    ASSUME NEW n \in Nat \ {0}, NEW a \in Nat, a < 2 * n
    PROVE  a % n = IF a < n THEN a ELSE a - n
<1>1. CASE a < n
  BY <1>1
<1>2. CASE a >= n
  <2>1. a % n = (a - n) % n
    OBVIOUS
  <2> QED
    BY <1>2, <2>1
<1> QED
  BY <1>1, <1>2

\* The least of one number.
LEMMA MinOfOne ==
    ASSUME NEW j \in Int
    PROVE  Min({j}) = j
BY DEF Min

\* The greatest of one number.
LEMMA MaxOfOne ==
    ASSUME NEW j \in Nat
    PROVE  Max({j}) = j
BY DEF Max

\* A set of numbers up to n has a greatest one.
LEMMA GreatestMember ==
    ASSUME NEW n \in Nat, NEW S, S \subseteq 0 .. n, S # {}
    PROVE  \E m \in S : \A x \in S : x <= m
<1> DEFINE T == {n - x : x \in S}
<1>1. \A x \in S : x \in Nat /\ n - x \in Nat
  OBVIOUS
<1>2. T \subseteq Nat /\ T # {}
  BY <1>1
<1>3. PICK t \in T : \A u \in T : t <= u
  BY <1>2, LeastMember
<1>4. PICK m \in S : t = n - m
  BY <1>3
<1>5. ASSUME NEW x \in S
      PROVE  x <= m
  <2>1. n - m <= n - x
    BY <1>3, <1>4
  <2> QED
    BY <1>1, <2>1
<1> QED
  BY <1>5

-------------------------------------------------------------------------------
(* Recursion on two smaller parts.                                             *)

\* What f computes from g, one level further.
OneLevel(g, D, Big, l, r, comb, base) ==
    [a \in D |-> IF a \in Big THEN comb[<<g[l[a]], g[r[a]]>>] ELSE base[a]]

SmallerParts(D, Big, l, r, size) ==
    /\ l \in [D -> D] /\ r \in [D -> D] /\ size \in [D -> Nat]
    /\ \A a \in D : a \in Big => size[l[a]] < size[a] /\ size[r[a]] < size[a]

Levels(G, D, X, Big, l, r, comb, base) ==
    /\ G \in [Nat -> [D -> X]]
    /\ \A k \in Nat : G[k + 1] = OneLevel(G[k], D, Big, l, r, comb, base)

HasSettled(G, D, size) == \A k \in Nat : \A a \in D : size[a] + 1 <= k => G[k + 1][a] = G[k][a]

\* After as many levels as a is large, one more level changes nothing at a.
LEMMA LevelsSettle ==
    ASSUME NEW D, NEW X, NEW Big, NEW l, NEW r, NEW size, SmallerParts(D, Big, l, r, size),
           NEW comb \in [X \X X -> X], NEW base \in [D -> X],
           NEW G, Levels(G, D, X, Big, l, r, comb, base)
    PROVE  HasSettled(G, D, size)
<1> DEFINE S == {k \in Nat : \A a \in D : size[a] + 1 <= k => G[k + 1][a] = G[k][a]}
<1>1. l \in [D -> D] /\ r \in [D -> D] /\ size \in [D -> Nat]
  BY DEF SmallerParts
<1>2. 0 \in S
  BY <1>1
<1>3. ASSUME NEW k \in Nat, k \in S
      PROVE  k + 1 \in S
  <2> SUFFICES ASSUME NEW a \in D, size[a] + 1 <= k + 1
               PROVE  G[(k + 1) + 1][a] = G[k + 1][a]
    OBVIOUS
  <2>1. /\ G[(k + 1) + 1][a] = IF a \in Big THEN comb[<<G[k + 1][l[a]], G[k + 1][r[a]]>>] ELSE base[a]
        /\ G[k + 1][a] = IF a \in Big THEN comb[<<G[k][l[a]], G[k][r[a]]>>] ELSE base[a]
    <3>1. k + 1 \in Nat
      OBVIOUS
    <3>2. /\ G[(k + 1) + 1] = OneLevel(G[k + 1], D, Big, l, r, comb, base)
          /\ G[k + 1] = OneLevel(G[k], D, Big, l, r, comb, base)
      BY <3>1 DEF Levels
    <3>3. ASSUME NEW g
          PROVE  OneLevel(g, D, Big, l, r, comb, base)[a]
                   = IF a \in Big THEN comb[<<g[l[a]], g[r[a]]>>] ELSE base[a]
      BY DEF OneLevel
    <3> QED
      BY <3>2, <3>3
  <2>2. CASE a \in Big
    <3>1. l[a] \in D /\ r[a] \in D /\ size[l[a]] < size[a] /\ size[r[a]] < size[a]
      BY <1>1, <2>2 DEF SmallerParts
    <3>2. size[l[a]] + 1 <= k /\ size[r[a]] + 1 <= k
      BY <1>1, <3>1
    <3>3. G[k + 1][l[a]] = G[k][l[a]] /\ G[k + 1][r[a]] = G[k][r[a]]
      BY <1>3, <3>1, <3>2
    <3> QED
      BY <2>1, <3>3
  <2>3. CASE a \notin Big
    BY <2>1, <2>3
  <2> QED
    BY <2>2, <2>3
<1>4. Nat \subseteq S
  <2> HIDE DEF S
  <2> QED
    BY <1>2, <1>3, InductionOn
<1> QED
  BY <1>4 DEF HasSettled

SplitRecursive(f, D, Big, l, r, comb, base) == f = OneLevel(f, D, Big, l, r, comb, base)

\* A function defined by recursion on two smaller parts exists.
LEMMA SplitRecursion ==
    ASSUME NEW D, NEW X, NEW Big, NEW l, NEW r, NEW size, SmallerParts(D, Big, l, r, size),
           NEW comb \in [X \X X -> X], NEW base \in [D -> X]
    PROVE  \E f \in [D -> X] : SplitRecursive(f, D, Big, l, r, comb, base)
<1> DEFINE F == [D -> X]
           next(g) == OneLevel(g, D, Big, l, r, comb, base)
           step == [k \in Nat |-> [g \in F |-> next(g)]]
<1>1. l \in [D -> D] /\ r \in [D -> D] /\ size \in [D -> Nat]
  BY DEF SmallerParts
<1>2. \A g \in F : next(g) \in F
  BY <1>1 DEF OneLevel
<1>3. step \in Steps(F) /\ base \in F
  <2> HIDE DEF next, F
  <2>1. step \in Steps(F)
    BY <1>2 DEF Steps
  <2> QED
    BY <2>1 DEF F
<1> HIDE DEF F, next
<1>4. PICK G : Repeats(G, F, base, step)
  <2> HIDE DEF step
  <2> QED
    BY <1>3, Iteration
<1>5. G \in [Nat -> F] /\ \A k \in Nat : G[k + 1] = next(G[k])
  BY <1>4 DEF Repeats
<1>6. \A k \in Nat : \A a \in D : size[a] + 1 <= k => G[k + 1][a] = G[k][a]
  <2>1. Levels(G, D, X, Big, l, r, comb, base)
    BY <1>5 DEF F, next, Levels
  <2> HIDE DEF step
  <2>2. HasSettled(G, D, size)
    BY <2>1, LevelsSettle
  <2> QED
    BY <2>2 DEF HasSettled
<1> DEFINE f == [a \in D |-> G[size[a] + 1][a]]
<1>7. ASSUME NEW a \in D, NEW k \in Nat, size[a] + 1 <= k
      PROVE  G[k][a] = f[a]
  <2> DEFINE b == size[a] + 1
             S == {d \in Nat : G[b + d][a] = G[b][a]}
  <2>1. b \in Nat /\ b <= k /\ f[a] = G[b][a]
    BY <1>1, <1>7
  <2>2. \A d \in Nat : G[(b + d) + 1][a] = G[b + d][a]
    <3> HIDE DEF b
    <3>1. \A d \in Nat : b + d \in Nat /\ b <= b + d
      BY <2>1
    <3> QED
      BY <1>6, <3>1 DEF b
  <2> HIDE DEF b, f
  <2>3. 0 \in S
    BY <2>1
  <2>4. ASSUME NEW d \in Nat, d \in S
        PROVE  d + 1 \in S
    <3>1. b + (d + 1) = (b + d) + 1
      BY <2>1
    <3> QED
      BY <2>2, <2>4, <3>1
  <2>5. Nat \subseteq S
    <3> HIDE DEF S
    <3> QED
      BY <2>3, <2>4, InductionOn
  <2>6. k - b \in Nat /\ b + (k - b) = k
    BY <2>1
  <2>7. G[b + (k - b)][a] = G[b][a]
    BY <2>5, <2>6
  <2> QED
    BY <2>1, <2>6, <2>7
<1>8. f \in [D -> X]
  <2>1. \A a \in D : size[a] + 1 \in Nat
    BY <1>1
  <2> QED
    BY <1>5, <2>1 DEF F
<1>9. ASSUME NEW a \in D
      PROVE  f[a] = IF a \in Big THEN comb[<<f[l[a]], f[r[a]]>>] ELSE base[a]
  <2> DEFINE k == size[a]
  <2>1. k \in Nat /\ f[a] = G[k + 1][a]
    BY <1>1
  <2>2. f[a] = IF a \in Big THEN comb[<<G[k][l[a]], G[k][r[a]]>>] ELSE base[a]
    BY <1>5, <2>1 DEF next, OneLevel
  <2>3. a \in Big => G[k][l[a]] = f[l[a]] /\ G[k][r[a]] = f[r[a]]
    <3> SUFFICES ASSUME a \in Big PROVE G[k][l[a]] = f[l[a]] /\ G[k][r[a]] = f[r[a]]
      OBVIOUS
    <3>1. l[a] \in D /\ r[a] \in D /\ size[l[a]] < size[a] /\ size[r[a]] < size[a]
      BY <1>1 DEF SmallerParts
    <3>2. size[l[a]] + 1 <= k /\ size[r[a]] + 1 <= k
      BY <1>1, <3>1
    <3> HIDE DEF f, k
    <3> QED
      BY <1>7, <2>1, <3>1, <3>2
  <2> HIDE DEF f, k
  <2> QED
    BY <2>2, <2>3
<1> HIDE DEF f
<1>10. f = OneLevel(f, D, Big, l, r, comb, base)
  BY <1>8, <1>9 DEF OneLevel
<1> QED
  BY <1>8, <1>10 DEF SplitRecursive

-------------------------------------------------------------------------------
(* The concatenation of the members of a sequence.                             *)

\* FlattenSeq concatenates the sequences one after the other.
Flattens(F, s) ==
    /\ F[1] = s[1] /\ FlattenSeq(s) = F[Len(s)]
    /\ \A k \in 1 .. Len(s) - 1 : F[k + 1] = F[k] \o s[k + 1]

\* The concatenation has its partial results.
LEMMA FlatteningExists ==
    ASSUME NEW X, NEW s \in Seq(Seq(X)), s # <<>>
    PROVE  \E F : Flattens(F, s)
<1> DEFINE n == Len(s)
           flatten[i \in 1 .. n] == IF i = 1 THEN s[i] ELSE flatten[i - 1] \o s[i]
<1>1. n \in Nat \ {0}
  OBVIOUS
<1>2. FlattenSeq(s) = flatten[n]
  BY <1>1 DEF FlattenSeq
<1>3. \E F : F = [i \in 1 .. n |-> IF i = 1 THEN s[i] ELSE F[i - 1] \o s[i]]
  BY PartialConcatenations
<1> HIDE DEF n
<1>4. flatten = [i \in 1 .. n |-> IF i = 1 THEN s[i] ELSE flatten[i - 1] \o s[i]]
  <2>1. flatten = CHOOSE g : g = [i \in 1 .. n |-> IF i = 1 THEN s[i] ELSE g[i - 1] \o s[i]]
    BY DEF flatten
  <2> HIDE DEF flatten
  <2> QED
    BY <1>3, <2>1, Zenon
<1> HIDE DEF flatten
<1>5. flatten[1] = s[1]
  BY <1>1, <1>4
<1>6. ASSUME NEW k \in 1 .. n - 1
      PROVE  flatten[k + 1] = flatten[k] \o s[k + 1]
  <2>1. k + 1 \in 1 .. n /\ k + 1 # 1 /\ (k + 1) - 1 = k
    BY <1>1
  <2> QED
    BY <1>4, <2>1
<1> QED
  BY <1>2, <1>5, <1>6 DEF Flattens, n

\* What a concatenation has when all it is made from has it.
LEMMA FlatteningKeeps ==
    ASSUME NEW X, NEW s \in Seq(Seq(X)), s # <<>>, NEW F, Flattens(F, s),
           NEW P, s[1] \in P[1],
           \A k \in 1 .. Len(s) - 1 : F[k] \in P[k] => F[k] \o s[k + 1] \in P[k + 1]
    PROVE  \A k \in 1 .. Len(s) : F[k] \in P[k]
<1> DEFINE n == Len(s)
           S == {k \in Nat : k + 1 <= n => F[k + 1] \in P[k + 1]}
<1>1. n \in Nat \ {0}
  OBVIOUS
<1>2. F[1] = s[1] /\ \A k \in 1 .. n - 1 : F[k + 1] = F[k] \o s[k + 1]
  BY DEF Flattens
<1>3. \A k \in 1 .. n - 1 : F[k] \in P[k] => F[k] \o s[k + 1] \in P[k + 1]
  OBVIOUS
<1> HIDE DEF n
<1>4. 0 \in S
  <2>1. F[0 + 1] \in P[0 + 1]
    <3>1. 0 + 1 = 1
      OBVIOUS
    <3> QED
      BY <1>2, <3>1
  <2> QED
    BY <2>1
<1>5. ASSUME NEW k \in Nat, k \in S
      PROVE  k + 1 \in S
  <2> SUFFICES ASSUME (k + 1) + 1 <= n PROVE F[(k + 1) + 1] \in P[(k + 1) + 1]
    OBVIOUS
  <2> DEFINE l == k + 1
  <2>1. l \in 1 .. n - 1 /\ F[l] \in P[l]
    BY <1>1, <1>5
  <2> HIDE DEF l
  <2>2. F[l + 1] \in P[l + 1]
    BY <1>2, <1>3, <2>1
  <2> QED
    BY <2>2 DEF l
<1>6. Nat \subseteq S
  <2> HIDE DEF S
  <2> QED
    BY <1>4, <1>5, InductionOn
<1>7. ASSUME NEW k \in 1 .. n
      PROVE  F[k] \in P[k]
  <2>1. k - 1 \in Nat /\ (k - 1) + 1 = k
    BY <1>1
  <2>2. k - 1 \in S
    BY <1>6, <2>1
  <2> QED
    BY <2>1, <2>2
<1> QED
  BY <1>7 DEF n

\* A change of one bucket changes the length by as much.
LEMMA FlatLength ==
    ASSUME NEW X, NEW s \in Seq(Seq(X)), NEW t \in Seq(Seq(X)), Len(s) = Len(t),
           NEW b \in 1 .. Len(s), \A i \in 1 .. Len(s) : i # b => s[i] = t[i]
    PROVE  /\ FlattenSeq(s) \in Seq(X) /\ FlattenSeq(t) \in Seq(X)
           /\ Len(FlattenSeq(s)) + Len(t[b]) = Len(FlattenSeq(t)) + Len(s[b])
<1> DEFINE n == Len(s)
           ls == Len(s[b])
           lt == Len(t[b])
           more(k) == IF b <= k THEN ls ELSE 0
           then(k) == IF b <= k THEN lt ELSE 0
<1>1. n \in Nat \ {0} /\ s # <<>> /\ t # <<>> /\ Len(t) = n /\ b \in 1 .. n
  OBVIOUS
<1>2. /\ \A i \in 1 .. n : s[i] \in Seq(X) /\ t[i] \in Seq(X) /\ Len(s[i]) \in Nat /\ Len(t[i]) \in Nat
      /\ ls \in Nat /\ lt \in Nat
  OBVIOUS
<1>3. PICK F : Flattens(F, s)
  BY <1>1, FlatteningExists
<1>4. PICK G : Flattens(G, t)
  BY <1>1, FlatteningExists
<1>5. FlattenSeq(s) = F[n] /\ FlattenSeq(t) = G[n]
  BY <1>1, <1>3, <1>4 DEF Flattens
<1>6. /\ F[1] = s[1] /\ \A k \in 1 .. n - 1 : F[k + 1] = F[k] \o s[k + 1]
      /\ G[1] = t[1] /\ \A k \in 1 .. n - 1 : G[k + 1] = G[k] \o t[k + 1]
  BY <1>1, <1>3, <1>4 DEF Flattens
<1>0. \A i \in 1 .. n : i # b => s[i] = t[i]
  OBVIOUS
<1> HIDE DEF n, ls, lt
<1>7. \A i \in 1 .. n : Len(s[i]) + (IF i = b THEN lt ELSE 0) = Len(t[i]) + (IF i = b THEN ls ELSE 0)
  <2>1. ASSUME NEW i \in 1 .. n, i = b
        PROVE  Len(s[i]) + lt = Len(t[i]) + ls
    <3>1. Len(s[i]) = ls /\ Len(t[i]) = lt
      BY <2>1 DEF ls, lt
    <3> QED
      BY <1>2, <3>1
  <2> QED
    BY <1>0, <2>1
<1> DEFINE Good(k) == /\ F[k] \in Seq(X) /\ G[k] \in Seq(X)
                      /\ Len(F[k]) + then(k) = Len(G[k]) + more(k)
           S == {k \in Nat : k + 1 <= n => Good(k + 1)}
<1>8. 0 \in S
  <2>1. Good(1)
    <3>1. 1 \in 1 .. n /\ (b <= 1 <=> 1 = b)
      BY <1>1
    <3> QED
      BY <1>2, <1>6, <1>7, <3>1
  <2>2. 0 + 1 = 1
    OBVIOUS
  <2> HIDE DEF Good
  <2> QED
    BY <2>1, <2>2
<1>9. ASSUME NEW k \in Nat, k \in S
      PROVE  k + 1 \in S
  <2> SUFFICES ASSUME (k + 1) + 1 <= n PROVE Good((k + 1) + 1)
    OBVIOUS
  <2> DEFINE l == k + 1
             c == l + 1
  <2>1. l \in 1 .. n - 1 /\ Good(l) /\ c \in 1 .. n /\ l \in Nat
    BY <1>1, <1>9
  <2> HIDE DEF l
  <2>2. F[c] = F[l] \o s[c] /\ G[c] = G[l] \o t[c]
    BY <1>6, <2>1
  <2>3. Len(F[l]) + then(l) = Len(G[l]) + more(l) /\ F[l] \in Seq(X) /\ G[l] \in Seq(X)
    BY <2>1
  <2>4. /\ F[c] \in Seq(X) /\ G[c] \in Seq(X)
        /\ Len(F[c]) = Len(F[l]) + Len(s[c]) /\ Len(G[c]) = Len(G[l]) + Len(t[c])
    BY <1>2, <2>1, <2>2, <2>3
  <2>5. Len(F[c]) + then(c) = Len(G[c]) + more(c)
    <3>1. Len(s[c]) + (IF c = b THEN lt ELSE 0) = Len(t[c]) + (IF c = b THEN ls ELSE 0)
      BY <1>7, <2>1
    <3>2. /\ Len(F[l]) \in Nat /\ Len(G[l]) \in Nat /\ Len(s[c]) \in Nat /\ Len(t[c]) \in Nat
          /\ ls \in Nat /\ lt \in Nat /\ b \in Nat
      BY <1>1, <1>2, <2>1, <2>3
    <3>3. then(c) = then(l) + (IF c = b THEN lt ELSE 0) /\ more(c) = more(l) + (IF c = b THEN ls ELSE 0)
      BY <2>1, <3>2
    <3>4. then(l) \in Nat /\ more(l) \in Nat
      BY <3>2
    <3> DEFINE dt == IF c = b THEN lt ELSE 0
               ds == IF c = b THEN ls ELSE 0
               fl == Len(F[l])
               gl == Len(G[l])
               sc == Len(s[c])
               tc == Len(t[c])
               tl == then(l)
               ml == more(l)
    <3>5. dt \in Nat /\ ds \in Nat /\ fl \in Nat /\ gl \in Nat /\ sc \in Nat /\ tc \in Nat
          /\ tl \in Nat /\ ml \in Nat
      BY <3>2, <3>4
    <3>6. /\ fl + tl = gl + ml /\ sc + dt = tc + ds
          /\ then(c) = tl + dt /\ more(c) = ml + ds /\ Len(F[c]) = fl + sc /\ Len(G[c]) = gl + tc
      BY <2>3, <2>4, <3>1, <3>3
    <3> HIDE DEF then, more, c, dt, ds, fl, gl, sc, tc, tl, ml
    <3>7. (fl + sc) + (tl + dt) = (gl + tc) + (ml + ds)
      BY <3>5, <3>6
    <3> QED
      BY <3>6, <3>7
  <2>6. Good(c)
    BY <2>4, <2>5
  <2> HIDE DEF Good
  <2> QED
    BY <2>6 DEF l
<1>10. Good(n)
  <2>1. Nat \subseteq S
    <3> HIDE DEF S
    <3> QED
      BY <1>8, <1>9, InductionOn
  <2>2. n - 1 \in Nat /\ (n - 1) + 1 = n
    BY <1>1
  <2>3. n - 1 \in S
    BY <2>1, <2>2
  <2> HIDE DEF Good
  <2> QED
    BY <2>2, <2>3
<1>11. then(n) = lt /\ more(n) = ls
  BY <1>1
<1> QED
  BY <1>5, <1>10, <1>11 DEF n, ls, lt
===============================================================================
