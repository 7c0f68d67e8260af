--------------------------- MODULE CnfEncoding_proofs ---------------------------
(* Proofs about the encoding of vertex cover as clauses, for every graph.      *)
EXTENDS CnfEncoding, FiniteSetTheorems, TLAPS

-------------------------------------------------------------------------------
(* What the four conditions say of an assignment: a matching of the columns    *)
(* with rows that touch every edge.                                            *)

EveryColumn(A)  == \A j \in 1 .. k : \E i \in 1 .. n : <<i, j>> \in A
ColumnOnce(A)   == \A i \in 1 .. n : \A j, m \in 1 .. k : j < m => ~(<<i, j>> \in A /\ <<i, m>> \in A)
RowOnce(A)      == \A i, h \in 1 .. n : \A j \in 1 .. k : i < h => ~(<<i, j>> \in A /\ <<h, j>> \in A)
TouchesEdges(A) == \A p \in edges : \E j \in 1 .. k : <<p[1], j>> \in A \/ <<p[2], j>> \in A

LEMMA LitHolds ==
    ASSUME NEW A, NEW i, NEW j
    PROVE  (Holds(Lit(i, j), A) <=> <<i, j>> \in A) /\ (Holds(NegLit(i, j), A) <=> <<i, j>> \notin A)
<1> DEFINE pos == Lit(i, j)
           neg == NegLit(i, j)
<1>1. /\ pos[1] = TRUE /\ pos[2] = i /\ pos[3] = j
      /\ neg[1] = FALSE /\ neg[2] = i /\ neg[3] = j
  BY DEF Lit, NegLit
<1> HIDE DEF pos, neg
<1>2. (Holds(pos, A) <=> <<i, j>> \in A) /\ (Holds(neg, A) <=> <<i, j>> \notin A)
  <2>1. Holds(pos, A) = (TRUE = (<<i, j>> \in A)) /\ Holds(neg, A) = (FALSE = (<<i, j>> \in A))
    BY <1>1 DEF Holds
  <2>2. (TRUE = (<<i, j>> \in A)) <=> <<i, j>> \in A
    OBVIOUS
  <2>3. (FALSE = (<<i, j>> \in A)) <=> <<i, j>> \notin A
    OBVIOUS
  <2> QED
    BY <2>1, <2>2, <2>3
<1> QED
  BY <1>2 DEF pos, neg

LEMMA FirstMeans ==
    ASSUME NEW A
    PROVE  Satisfies(A, FirstCondition) <=> EveryColumn(A)
<1> DEFINE clause(j) == {Lit(i, j) : i \in 1 .. n}
<1>1. Satisfies(A, FirstCondition) <=> \A j \in 1 .. k : \E lit \in clause(j) : Holds(lit, A)
  BY DEF Satisfies, FirstCondition
<1>2. ASSUME NEW j
      PROVE  (\E lit \in clause(j) : Holds(lit, A)) <=> \E i \in 1 .. n : <<i, j>> \in A
  <2>1. \A i : Holds(Lit(i, j), A) <=> <<i, j>> \in A
    BY LitHolds
  <2> QED
    BY <2>1, Zenon
<1> QED
  BY <1>1, <1>2 DEF EveryColumn

LEMMA SecondMeans ==
    ASSUME NEW A
    PROVE  Satisfies(A, SecondCondition) <=> ColumnOnce(A)
<1> DEFINE D == {d \in (1 .. n) \X (1 .. k) \X (1 .. k) : d[2] < d[3]}
           clause(c) == {NegLit(c[1], c[2]), NegLit(c[1], c[3])}
<1>1. Satisfies(A, SecondCondition) <=> \A c \in D : \E lit \in clause(c) : Holds(lit, A)
  <2>1. SecondCondition = {clause(c) : c \in D}
    BY DEF SecondCondition
  <2> HIDE DEF D, clause
  <2> QED
    BY <2>1 DEF Satisfies
<1>2. ASSUME NEW c
      PROVE  (\E lit \in clause(c) : Holds(lit, A))
               <=> ~(<<c[1], c[2]>> \in A /\ <<c[1], c[3]>> \in A)
  BY LitHolds
<1>3. ASSUME NEW i \in 1 .. n, NEW j \in 1 .. k, NEW m \in 1 .. k, j < m
      PROVE  <<i, j, m>> \in D
  BY <1>3
<1>4. ASSUME NEW c \in D
      PROVE  c[1] \in 1 .. n /\ c[2] \in 1 .. k /\ c[3] \in 1 .. k /\ c[2] < c[3]
  OBVIOUS
<1> HIDE DEF D, clause
<1>5. ASSUME \A c \in D : ~(<<c[1], c[2]>> \in A /\ <<c[1], c[3]>> \in A)
      PROVE  ColumnOnce(A)
  <2> SUFFICES ASSUME NEW i \in 1 .. n, NEW j \in 1 .. k, NEW m \in 1 .. k, j < m
               PROVE  ~(<<i, j>> \in A /\ <<i, m>> \in A)
    BY DEF ColumnOnce
  <2> DEFINE c == <<i, j, m>>
  <2>1. c \in D /\ c[1] = i /\ c[2] = j /\ c[3] = m
    BY <1>3
  <2> QED
    BY <1>5, <2>1
<1>6. ASSUME ColumnOnce(A), NEW c \in D
      PROVE  ~(<<c[1], c[2]>> \in A /\ <<c[1], c[3]>> \in A)
  BY <1>4, <1>6 DEF ColumnOnce
<1> QED
  BY <1>1, <1>2, <1>5, <1>6

LEMMA ThirdMeans ==
    ASSUME NEW A
    PROVE  Satisfies(A, ThirdCondition) <=> RowOnce(A)
<1> DEFINE D == {d \in (1 .. n) \X (1 .. n) \X (1 .. k) : d[1] < d[2]}
           clause(c) == {NegLit(c[1], c[3]), NegLit(c[2], c[3])}
<1>1. Satisfies(A, ThirdCondition) <=> \A c \in D : \E lit \in clause(c) : Holds(lit, A)
  <2>1. ThirdCondition = {clause(c) : c \in D}
    BY DEF ThirdCondition
  <2> HIDE DEF D, clause
  <2> QED
    BY <2>1 DEF Satisfies
<1>2. ASSUME NEW c
      PROVE  (\E lit \in clause(c) : Holds(lit, A))
               <=> ~(<<c[1], c[3]>> \in A /\ <<c[2], c[3]>> \in A)
  BY LitHolds
<1>3. ASSUME NEW i \in 1 .. n, NEW h \in 1 .. n, NEW j \in 1 .. k, i < h
      PROVE  <<i, h, j>> \in D
  BY <1>3
<1>4. ASSUME NEW c \in D
      PROVE  c[1] \in 1 .. n /\ c[2] \in 1 .. n /\ c[3] \in 1 .. k /\ c[1] < c[2]
  OBVIOUS
<1> HIDE DEF D, clause
<1>5. ASSUME \A c \in D : ~(<<c[1], c[3]>> \in A /\ <<c[2], c[3]>> \in A)
      PROVE  RowOnce(A)
  <2> SUFFICES ASSUME NEW i \in 1 .. n, NEW h \in 1 .. n, NEW j \in 1 .. k, i < h
               PROVE  ~(<<i, j>> \in A /\ <<h, j>> \in A)
    BY DEF RowOnce
  <2> DEFINE c == <<i, h, j>>
  <2>1. c \in D /\ c[1] = i /\ c[2] = h /\ c[3] = j
    BY <1>3
  <2> QED
    BY <1>5, <2>1
<1>6. ASSUME RowOnce(A), NEW c \in D
      PROVE  ~(<<c[1], c[3]>> \in A /\ <<c[2], c[3]>> \in A)
  BY <1>4, <1>6 DEF RowOnce
<1> QED
  BY <1>1, <1>2, <1>5, <1>6

LEMMA FourthMeans ==
    ASSUME NEW A
    PROVE  Satisfies(A, FourthCondition) <=> TouchesEdges(A)
<1> DEFINE clause(p) == {Lit(p[1], j) : j \in 1 .. k} \union {Lit(p[2], j) : j \in 1 .. k}
<1>1. Satisfies(A, FourthCondition) <=> \A p \in edges : \E lit \in clause(p) : Holds(lit, A)
  BY DEF Satisfies, FourthCondition
<1>2. ASSUME NEW p
      PROVE  (\E lit \in clause(p) : Holds(lit, A))
               <=> \E j \in 1 .. k : <<p[1], j>> \in A \/ <<p[2], j>> \in A
  <2>1. \A i, j : Holds(Lit(i, j), A) <=> <<i, j>> \in A
    BY LitHolds
  <2> QED
    BY <2>1, Zenon
<1> QED
  BY <1>1, <1>2 DEF TouchesEdges

(* The models of the clauses, in the terms of the matrix.                      *)
LEMMA ModelsAre ==
    ASSUME NEW A
    PROVE  A \in Models <=> /\ A \in Assignments
                            /\ EveryColumn(A) /\ ColumnOnce(A) /\ RowOnce(A) /\ TouchesEdges(A)
<1>1. Satisfies(A, Clauses) <=>
        /\ Satisfies(A, FirstCondition) /\ Satisfies(A, SecondCondition)
        /\ Satisfies(A, ThirdCondition) /\ Satisfies(A, FourthCondition)
  BY DEF Satisfies, Clauses
<1>2. A \in Models <=> A \in Assignments /\ Satisfies(A, Clauses)
  BY DEF Models
<1> QED
  BY <1>1, <1>2, FirstMeans, SecondMeans, ThirdMeans, FourthMeans

-------------------------------------------------------------------------------
(* A graph, and a size that is tried.                                          *)
Tried == n \in Nat \ {0} /\ edges \subseteq (1 .. n) \X (1 .. n) /\ k \in 1 .. n

LEMMA CoversAreFinite ==
    ASSUME n \in Nat \ {0}, NEW T \in CoversOf(n, edges)
    PROVE  IsFiniteSet(T) /\ Cardinality(T) \in Nat /\ Cardinality(T) <= n
<1>1. IsFiniteSet(1 .. n) /\ Cardinality(1 .. n) = n
  BY FS_Interval
<1>2. T \in SUBSET (1 .. n)
  BY DEF CoversOf
<1> QED
  BY <1>1, <1>2, FS_Subset, FS_CardinalityType

(* Soundness: the rows of a model are a cover of k vertices.                   *)
LEMMA ModelIsCover ==
    ASSUME Tried, NEW A \in Models
    PROVE  /\ Rows(A) \in CoversOf(n, edges)
           /\ \A a, b \in A : a[1] = b[1] => a = b
           /\ Cardinality(Rows(A)) = k
<1>1. A \in SUBSET ((1 .. n) \X (1 .. k)) /\ EveryColumn(A) /\ ColumnOnce(A) /\ RowOnce(A) /\ TouchesEdges(A)
  BY ModelsAre DEF Assignments
<1>2. \A a \in A : a[1] \in 1 .. n /\ a[2] \in 1 .. k /\ a = <<a[1], a[2]>>
  BY <1>1
<1>3. n \in Nat /\ k \in Nat
  BY DEF Tried
<1>4. Rows(A) \in CoversOf(n, edges)
  <2>1. Rows(A) \subseteq 1 .. n
    BY <1>2 DEF Rows
  <2>2. ASSUME NEW i, NEW j, <<i, j>> \in A
        PROVE  i \in Rows(A)
    BY <2>2 DEF Rows
  <2>3. Covers(Rows(A), edges)
    BY <1>1, <2>2 DEF TouchesEdges, Covers
  <2> QED
    BY <2>1, <2>3 DEF CoversOf
<1>5. ASSUME NEW a \in A, NEW b \in A, a[1] = b[1]
      PROVE  a = b
  <2>1. ~(a[2] < b[2]) /\ ~(b[2] < a[2])
    BY <1>1, <1>2, <1>5 DEF ColumnOnce
  <2>2. a[2] = b[2]
    BY <1>2, <1>3, <2>1
  <2> QED
    BY <1>2, <1>5, <2>2
<1>6. Cardinality(Rows(A)) = k
  <2> DEFINE f == [j \in 1 .. k |-> CHOOSE i \in 1 .. n : <<i, j>> \in A]
  <2>1. \A j \in 1 .. k : f[j] \in 1 .. n /\ <<f[j], j>> \in A
    BY <1>1 DEF EveryColumn
  <2>2. f \in [1 .. k -> Rows(A)]
    <3>1. \A j \in 1 .. k : f[j] \in Rows(A)
      <4> TAKE j \in 1 .. k
      <4>1. <<f[j], j>> \in A /\ <<f[j], j>>[1] = f[j]
        BY <2>1
      <4> HIDE DEF f
      <4> QED
        BY <4>1 DEF Rows
    <3> QED
      BY <3>1
  <2> HIDE DEF f
  <2>3. f \in Injection(1 .. k, Rows(A))
    <3>1. ASSUME NEW j \in 1 .. k, NEW m \in 1 .. k, f[j] = f[m]
          PROVE  j = m
      <4> DEFINE a == <<f[j], j>>
                 b == <<f[m], m>>
      <4>1. a \in A /\ b \in A /\ a[1] = b[1]
        BY <2>1, <3>1
      <4>2. a = b
        BY <1>5, <4>1
      <4> QED
        BY <4>2
    <3> QED
      BY <2>2, <3>1 DEF Injection, IsInjective
  <2>4. f \in Surjection(1 .. k, Rows(A))
    <3>1. ASSUME NEW r \in Rows(A)
          PROVE  \E j \in 1 .. k : f[j] = r
      <4>1. PICK a \in A : a[1] = r
        BY DEF Rows
      <4>2. a[2] \in 1 .. k /\ <<r, a[2]>> \in A /\ r \in 1 .. n
        BY <1>2, <4>1
      <4>3. f[a[2]] \in 1 .. n /\ <<f[a[2]], a[2]>> \in A
        BY <2>1, <4>2
      <4>4. ~(f[a[2]] < r) /\ ~(r < f[a[2]])
        BY <1>1, <4>2, <4>3 DEF RowOnce
      <4>5. f[a[2]] = r
        BY <1>3, <4>2, <4>3, <4>4
      <4> QED
        BY <4>2, <4>5
    <3> QED
      BY <2>2, <3>1 DEF Surjection
  <2>5. ExistsBijection(1 .. k, Rows(A))
    BY <2>3, <2>4 DEF ExistsBijection, Bijection
  <2> QED
    BY <1>3, <2>5, FS_CountingElements
<1> QED
  BY <1>4, <1>5, <1>6

(* Completeness: a cover of k vertices is the rows of a model.                 *)
LEMMA CoverIsModel ==
    ASSUME Tried, NEW T \in CoversOf(n, edges), Cardinality(T) = k
    PROVE  Models # {}
<1>1. n \in Nat /\ k \in Nat /\ T \in SUBSET (1 .. n) /\ Covers(T, edges)
  BY DEF Tried, CoversOf
<1>2. IsFiniteSet(T)
  BY CoversAreFinite DEF Tried
<1>3. PICK f : f \in Bijection(1 .. k, T)
  BY <1>2, FS_CardinalityType DEF ExistsBijection
<1>4. /\ f \in [1 .. k -> T]
      /\ \A j, m \in 1 .. k : f[j] = f[m] => j = m
      /\ \A t \in T : \E j \in 1 .. k : f[j] = t
  BY <1>3 DEF Bijection, Injection, Surjection, IsInjective
<1> DEFINE A == {<<f[j], j>> : j \in 1 .. k}
<1>5. \A i, j : <<i, j>> \in A <=> j \in 1 .. k /\ i = f[j]
  OBVIOUS
<1>6. A \in Assignments
  BY <1>1, <1>4 DEF Assignments
<1> HIDE DEF A
<1>7. EveryColumn(A)
  BY <1>1, <1>4, <1>5 DEF EveryColumn
<1>8. ColumnOnce(A)
  <2> SUFFICES ASSUME NEW i \in 1 .. n, NEW j \in 1 .. k, NEW m \in 1 .. k, j < m,
                      <<i, j>> \in A, <<i, m>> \in A
               PROVE  FALSE
    BY DEF ColumnOnce
  <2>1. j = m
    BY <1>4, <1>5
  <2> QED
    BY <1>1, <2>1
<1>9. RowOnce(A)
  <2> SUFFICES ASSUME NEW i \in 1 .. n, NEW h \in 1 .. n, NEW j \in 1 .. k, i < h,
                      <<i, j>> \in A, <<h, j>> \in A
               PROVE  FALSE
    BY DEF RowOnce
  <2>1. i = h
    BY <1>5
  <2> QED
    BY <1>1, <2>1
<1>10. TouchesEdges(A)
  <2> SUFFICES ASSUME NEW p \in edges
               PROVE  \E j \in 1 .. k : <<p[1], j>> \in A \/ <<p[2], j>> \in A
    BY DEF TouchesEdges
  <2>1. PICK t \in T : t = p[1] \/ t = p[2]
    BY <1>1 DEF Covers
  <2>2. PICK j \in 1 .. k : f[j] = t
    BY <1>4
  <2> QED
    BY <1>5, <2>1, <2>2
<1> QED
  BY <1>6, <1>7, <1>8, <1>9, <1>10, ModelsAre

-------------------------------------------------------------------------------
(* The loop: no cover is smaller than the size that is tried.                  *)
NoneSmaller == \A T \in CoversOf(n, edges) : k <= Cardinality(T)

IInv == TypeOK /\ NoneSmaller /\ (pc = "done" => model \in Models)

LEMMA InitIInv == Init => IInv
<1> SUFFICES ASSUME Init PROVE IInv
  OBVIOUS
<1>1. PICK g \in Inputs : n = g.n /\ edges = g.edges
  BY DEF Init
<1>2. g \in ParsedGraph /\ \A p \in g.edges : p[1] \in 1 .. g.n /\ p[2] \in 1 .. g.n
  BY InputsAssumption
<1>3. n \in Nat \ {0} /\ edges \subseteq (1 .. n) \X (1 .. n) /\ edges # {}
  BY <1>1, <1>2 DEF ParsedGraph
<1>4. k = 1 /\ model = {} /\ pc = "loop"
  BY DEF Init
<1>5. NoneSmaller
  <2> SUFFICES ASSUME NEW T \in CoversOf(n, edges) PROVE 1 <= Cardinality(T)
    BY <1>4 DEF NoneSmaller
  <2>1. IsFiniteSet(T) /\ Cardinality(T) \in Nat
    BY <1>3, CoversAreFinite
  <2>2. T # {}
    BY <1>3 DEF CoversOf, Covers
  <2>3. Cardinality(T) # 0
    BY <2>1, <2>2, FS_EmptySet
  <2> QED
    BY <2>1, <2>3
<1> QED
  BY <1>3, <1>4, <1>5 DEF IInv, TypeOK, Assignments

LEMMA NextIInv == IInv /\ [Next]_vars => IInv'
<1> SUFFICES ASSUME IInv, [Next]_vars PROVE IInv'
  OBVIOUS
<1>0. Tried
  BY DEF IInv, TypeOK, Tried
<1>1. CASE Solved
  <2>1. UNCHANGED <<n, edges, k>> /\ pc' = "done" /\ model' \in Models
    BY <1>1 DEF Solved
  <2>2. Models' = Models /\ Assignments' = Assignments
    BY <2>1 DEF Models, Clauses, Assignments, FirstCondition, SecondCondition, ThirdCondition,
                FourthCondition
  <2>3. model' \in Assignments
    BY <2>1 DEF Models
  <2> QED
    BY <2>1, <2>2, <2>3 DEF IInv, TypeOK, NoneSmaller
<1>2. CASE Unsatisfied
  <2>1. pc = "loop" /\ Models = {} /\ k' = k + 1 /\ UNCHANGED <<n, edges, model>>
        /\ pc' = IF k + 1 > n THEN "none" ELSE "loop"
    BY <1>2 DEF Unsatisfied, TryNext
  <2>2. n \in Nat /\ k \in Nat
    BY <1>0 DEF Tried
  <2>3. ASSUME NEW T \in CoversOf(n, edges)
        PROVE  k + 1 <= Cardinality(T) /\ Cardinality(T) <= n
    <3>1. Cardinality(T) \in Nat /\ Cardinality(T) <= n
      BY <1>0, CoversAreFinite DEF Tried
    <3>2. k <= Cardinality(T) /\ Cardinality(T) # k
      BY <1>0, <2>1, CoverIsModel DEF IInv, NoneSmaller
    <3> QED
      BY <2>2, <3>1, <3>2
  <2>4. 1 .. n \in CoversOf(n, edges)
    BY <1>0 DEF Tried, CoversOf, Covers
  <2>5. k + 1 <= n
    <3>1. Cardinality(1 .. n) \in Nat
      BY <1>0, <2>4, CoversAreFinite DEF Tried
    <3> QED
      BY <2>2, <2>3, <2>4, <3>1
  <2>6. pc' = "loop" /\ k' \in 1 .. n /\ model' = {}
    BY <2>1, <2>2, <2>5 DEF IInv, TypeOK
  <2>7. NoneSmaller'
    BY <2>1, <2>3 DEF NoneSmaller
  <2> QED
    BY <2>1, <2>6, <2>7 DEF IInv, TypeOK, Assignments
<1>3. CASE UNCHANGED vars
  BY <1>3 DEF vars, IInv, TypeOK, NoneSmaller, Models, Clauses, Assignments, FirstCondition,
              SecondCondition, ThirdCondition, FourthCondition
<1> QED
  BY <1>1, <1>2, <1>3 DEF Next

(* The loop of CnfSatVc never runs out of sizes: n vertices always cover the   *)
(* graph, so it ends with a model (MyGraph.cpp:268-309).                       *)
THEOREM EncodingTypes == Spec => []TypeOK
<1>1. IInv => TypeOK
  BY DEF IInv
<1> QED
  BY <1>1, InitIInv, NextIInv, PTL DEF Spec

(* What CNF-SAT-VC returns is a minimum vertex cover, for every graph: the     *)
(* four conditions are satisfiable exactly when a cover of k vertices exists,  *)
(* and all smaller k were tried before.                                        *)
THEOREM EncodingFindsMinimum == Spec => []MinimumOnReturn
<1>1. IInv => MinimumOnReturn
  <2> SUFFICES ASSUME IInv, pc = "done" PROVE IsMinimumCover(Rows(model), n, edges)
    BY DEF MinimumOnReturn
  <2>1. Rows(model) \in CoversOf(n, edges) /\ Cardinality(Rows(model)) = k
    BY ModelIsCover DEF IInv, TypeOK, Tried
  <2> QED
    BY <2>1 DEF IsMinimumCover, IInv, NoneSmaller
<1> QED
  BY <1>1, InitIInv, NextIInv, PTL DEF Spec

(* Every vertex of the cover is printed once, and there are k of them.         *)
THEOREM EncodingPrintsOnce == Spec => []PrintedOnce
<1>1. IInv => PrintedOnce
  BY ModelIsCover DEF IInv, TypeOK, Tried, PrintedOnce
<1> QED
  BY <1>1, InitIInv, NextIInv, PTL DEF Spec
===============================================================================
