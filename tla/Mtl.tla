---------------------------------- MODULE Mtl ----------------------------------
(* The containers of minisat/mtl: Vec.h, Sort.h, Alg.h, Heap.h, Queue.h, Map.h, *)
(* IntMap.h and Alloc.h.  A container is a record; an operator named after a    *)
(* method takes the record and returns the one the method leaves.  Positions    *)
(* count from 0, as in the code.                                                *)
EXTENDS Integers, Sequences, SequencesExt, FiniteSetsExt, Functions, TLC

CONSTANTS IntMax,          \* the largest int
          WordMax,         \* the largest unsigned word of a region
          Primes,          \* the sizes of a hash table
          SortThreshold    \* the longest array that is sorted by selection

ASSUME PrimesAssumption == Primes \in Seq(Nat \ {0}) /\ Primes # <<>>

At(a, i)     == a[i + 1]
Put(a, i, x) == [a EXCEPT ![i + 1] = x]
Exchange(a, i, j) == Put(Put(a, i, At(a, j)), j, At(a, i))

Even(n) == n - (n % 2)
Larger(m, n) == IF m > n THEN m ELSE n

\* An int that passes the largest one wraps around: what the build does, though the
\* language leaves it undefined.
WrapInt(n) == IF n > IntMax THEN n - 2 * (IntMax + 1) ELSE n

-------------------------------------------------------------------------------
(* Vec.h.  fail is set when OutOfMemoryException is thrown.                     *)

EmptyVec == [data |-> <<>>, cap |-> 0, fail |-> FALSE]
VecSize(v) == Len(v.data)

\* The step by which a vector of capacity cap grows to hold at least n elements.
\* For the largest int and no capacity it wraps around and is 2.
Grown(cap, n) == Larger(Even(WrapInt(n - cap + 1)), Even(cap \div 2 + 2))

StepFits(v, n) == v.cap >= n \/ n - v.cap < IntMax

Capacity(v, n) ==
    IF v.cap >= n THEN v
    ELSE IF Grown(v.cap, n) > IntMax - v.cap THEN [v EXCEPT !.fail = TRUE]
    ELSE [v EXCEPT !.cap = @ + Grown(v.cap, n)]

\* What follows a change of capacity, unless that has thrown.
IfNotFailed(v, w) == IF v.fail THEN v ELSE w

VecPush(v, x) ==
    LET w == IF VecSize(v) = v.cap THEN Capacity(v, VecSize(v) + 1) ELSE v
    IN  IfNotFailed(w, [w EXCEPT !.data = Append(@, x)])

VecPop(v) == [v EXCEPT !.data = Front(@)]

VecShrink(v, n) == [v EXCEPT !.data = SubSeq(@, 1, Len(@) - n)]

VecGrowTo(v, n, pad) ==
    LET w == Capacity(v, n)
    IN  IF VecSize(v) >= n THEN v
        ELSE IfNotFailed(w, [w EXCEPT !.data = @ \o [i \in 1 .. n - Len(@) |-> pad]])

VecClear(v, dealloc) == IF dealloc THEN EmptyVec ELSE [v EXCEPT !.data = <<>>]

\* copyTo() fills a cleared vector.
VecCopy(v, into) ==
    LET w == Capacity([into EXCEPT !.data = <<>>], VecSize(v))
    IN  IfNotFailed(w, [w EXCEPT !.data = v.data])

\* Alg.h: remove() closes the gap that the first such element leaves.
RemoveElem(a, x) ==
    LET j == Min({i \in DOMAIN a : a[i] = x})
    IN  [i \in 1 .. Len(a) - 1 |-> IF i < j THEN a[i] ELSE a[i + 1]]

\* copy() and append() push the elements one by one.
VecAppend(from, to) ==
    LET pushed[i \in 0 .. VecSize(from)] ==
          IF i = 0 THEN to ELSE IfNotFailed(pushed[i - 1], VecPush(pushed[i - 1], from.data[i]))
    IN  pushed[VecSize(from)]

Find(a, x) == \E i \in DOMAIN a : a[i] = x

-------------------------------------------------------------------------------
(* Sort.h.  A comparison lt is the set of the pairs for which it says true.     *)

\* The first of the least elements from position i on.
BestFrom(a, i, lt) ==
    Min({j \in i .. Len(a) - 1 : \A k \in i .. Len(a) - 1 : <<At(a, k), At(a, j)>> \notin lt})

SelectionSort(a, lt) ==
    LET sorted[i \in 0 .. Len(a)] ==
          IF i = 0 THEN a ELSE Exchange(sorted[i - 1], i - 1, BestFrom(sorted[i - 1], i - 1, lt))
    IN  sorted[Len(a)]

\* One round of the loop that splits an array around a pivot: i goes up to the next
\* element not below the pivot, j down to the next one not above it.
Split(x, pivot, lt) ==
    LET i == Min({k \in x.i + 1 .. Len(x.a) - 1 : <<At(x.a, k), pivot>> \notin lt})
        j == Max({k \in 0 .. x.j - 1 : <<pivot, At(x.a, k)>> \notin lt})
    IN  IF x.i >= x.j THEN x
        ELSE IF i >= j THEN [x EXCEPT !.i = i, !.j = j]
        ELSE [a |-> Exchange(x.a, i, j), i |-> i, j |-> j]

Partition(a, lt) ==
    LET after[n \in 0 .. Len(a)] ==
          IF n = 0 THEN [a |-> a, i |-> -1, j |-> Len(a)]
          ELSE Split(after[n - 1], At(a, Len(a) \div 2), lt)
    IN  after[Len(a)]

Sort(array, lt) ==
    LET sort[a \in Seq(Range(array))] ==
          IF Len(a) <= SortThreshold THEN SelectionSort(a, lt)
          ELSE LET x == Partition(a, lt)
               IN  sort[SubSeq(x.a, 1, x.i)] \o sort[SubSeq(x.a, x.i + 1, Len(a))]
    IN  sort[array]

-------------------------------------------------------------------------------
(* Heap.h: the keys in heap order, and the position of every key, -1 outside.   *)

EmptyHeap == [heap |-> <<>>, indices |-> <<>>]

InHeap(h, k)   == k < Len(h.indices) /\ At(h.indices, k) >= 0
Place(h, i, k) == [heap |-> Put(h.heap, i, k), indices |-> Put(h.indices, k, i)]

\* Every round moves one key, or none when the place was found; the hole at i is
\* filled last.
RoundUp(x, k, lt) ==
    LET p == (x.i - 1) \div 2
    IN  IF x.i = 0 \/ <<k, At(x.h.heap, p)>> \notin lt THEN x
        ELSE [h |-> Place(x.h, x.i, At(x.h.heap, p)), i |-> p]

RoundDown(x, k, lt) ==
    LET n == Len(x.h.heap)
        left == 2 * x.i + 1
        right == left + 1
        child == IF right < n /\ <<At(x.h.heap, right), At(x.h.heap, left)>> \in lt THEN right ELSE left
    IN  IF left >= n \/ <<At(x.h.heap, child), k>> \notin lt THEN x
        ELSE [h |-> Place(x.h, x.i, At(x.h.heap, child)), i |-> child]

PercolateUp(h, i, lt) ==
    LET k == At(h.heap, i)
        x[n \in 0 .. Len(h.heap)] ==
          IF n = 0 THEN [h |-> h, i |-> i] ELSE RoundUp(x[n - 1], k, lt)
    IN  Place(x[Len(h.heap)].h, x[Len(h.heap)].i, k)

PercolateDown(h, i, lt) ==
    LET k == At(h.heap, i)
        x[n \in 0 .. Len(h.heap)] ==
          IF n = 0 THEN [h |-> h, i |-> i] ELSE RoundDown(x[n - 1], k, lt)
    IN  Place(x[Len(h.heap)].h, x[Len(h.heap)].i, k)

Decrease(h, k, lt) == PercolateUp(h, At(h.indices, k), lt)
Increase(h, k, lt) == PercolateDown(h, At(h.indices, k), lt)

\* IntMap.h: reserve() pads the map up to a key.
Reserve(map, k, pad) ==
    [i \in 1 .. Larger(Len(map), k + 1) |-> IF i <= Len(map) THEN map[i] ELSE pad]

HeapInsert(h, k, lt) ==
    PercolateUp([heap |-> Append(h.heap, k),
                 indices |-> Put(Reserve(h.indices, k, -1), k, Len(h.heap))], Len(h.heap), lt)

Update(h, k, lt) ==
    IF ~InHeap(h, k) THEN HeapInsert(h, k, lt)
    ELSE Increase(Decrease(h, k, lt), k, lt)

\* The last key takes the place of the first; its position is set before that of
\* the key removed, for they may be the same.
RemoveMin(h, lt) ==
    LET moved == Place(h, 0, Last(h.heap))
        rest == [heap |-> Front(moved.heap), indices |-> Put(moved.indices, At(h.heap, 0), -1)]
    IN  IF Len(rest.heap) > 1 THEN PercolateDown(rest, 0, lt) ELSE rest

HeapClear(h) ==
    [heap |-> <<>>,
     indices |-> [i \in DOMAIN h.indices |-> IF Find(h.heap, i - 1) THEN -1 ELSE h.indices[i]]]

Build(h, ns, lt) ==
    LET c == HeapClear(h)
        filled == [heap |-> ns, indices |-> [i \in DOMAIN c.indices |->
                     IF Find(ns, i - 1) THEN Min({j \in DOMAIN ns : ns[j] = i - 1}) - 1
                     ELSE c.indices[i]]]
        half == Len(ns) \div 2
        built[i \in 0 .. half] ==
          IF i = 0 THEN filled ELSE PercolateDown(built[i - 1], half - i, lt)
    IN  built[half]

-------------------------------------------------------------------------------
(* Queue.h: a ring buffer in which the slot at end is always free.              *)

EmptyQueue == [buf |-> <<0>>, first |-> 0, end |-> 0]

QueueSize(q) ==
    IF q.end >= q.first THEN q.end - q.first ELSE q.end - q.first + Len(q.buf)

QueueAt(q, i) == At(q.buf, (q.first + i) % Len(q.buf))
Peek(q)       == At(q.buf, q.first)
Around(q, i)  == IF i = Len(q.buf) THEN 0 ELSE i
QueuePop(q)   == [q EXCEPT !.first = Around(q, @ + 1)]

\* Mutant of Resize: the elements keep their slots.
ResizeInPlace(q) ==
    LET n == WrapInt(Len(q.buf) * 3 + 1) \div 2
    IN  [buf |-> q.buf \o [i \in 1 .. n - Len(q.buf) |-> 0], first |-> 0, end |-> Len(q.buf)]

\* The full buffer is copied in order to a longer one, unless the length wraps around.
Resize(q) ==
    LET n == WrapInt(Len(q.buf) * 3 + 1) \div 2
        kept == SubSeq(q.buf, q.first + 1, Len(q.buf)) \o SubSeq(q.buf, 1, q.end)
    IN  [buf |-> kept \o [i \in 1 .. n - Len(kept) |-> 0], first |-> 0, end |-> Len(q.buf)]

ResizeFits(q) == Len(q.buf) * 3 + 1 <= IntMax
InsertFits(q) == QueueSize(q) + 1 < Len(q.buf) \/ ResizeFits(q)

QueueClear(q) == [buf |-> <<0>>, first |-> 0, end |-> 0]

QueueInsert(q, x) ==
    LET p == [q EXCEPT !.buf = Put(@, q.end, x), !.end = Around(q, @ + 1)]
    IN  IF p.first = p.end THEN Resize(p) ELSE p

-------------------------------------------------------------------------------
(* Map.h: a table of buckets of pairs.                                          *)

EmptyMap == [table |-> <<>>, size |-> 0]

Bucket(m, k)  == (k % Len(m.table)) + 1
Pairs(m, k)   == m.table[Bucket(m, k)]
AddPair(m, k, d) == [m EXCEPT !.table[Bucket(m, k)] = Append(@, <<k, d>>)]

\* The first prime above the old capacity, or else the last prime.
NextPrime(cap) ==
    LET larger == {i \in DOMAIN Primes : Primes[i] > cap}
    IN  IF larger = {} THEN Last(Primes) ELSE Primes[Min(larger)]

\* Mutant of Rehash: the pairs keep their buckets.
KeepBuckets(m) ==
    [m EXCEPT !.table = [b \in 1 .. NextPrime(Len(@)) |-> IF b <= Len(@) THEN @[b] ELSE <<>>]]

Rehash(m) ==
    LET old == FlattenSeq(m.table)
        added[i \in 0 .. Len(old)] ==
          IF i = 0 THEN [m EXCEPT !.table = [b \in 1 .. NextPrime(Len(m.table)) |-> <<>>]]
          ELSE AddPair(added[i - 1], old[i][1], old[i][2])
    IN  added[Len(old)]

MapInsert(m, k, d) ==
    LET r == IF m.size + 1 > Len(m.table) THEN Rehash(m) ELSE m
    IN  [AddPair(r, k, d) EXCEPT !.size = @ + 1]

\* The data of a key, as a set: peek() takes the first pair, [] the last.
MapPeek(m, k) ==
    IF m.size = 0 THEN {}
    ELSE LET at == {j \in DOMAIN Pairs(m, k) : Pairs(m, k)[j][1] = k}
         IN  IF at = {} THEN {} ELSE {Pairs(m, k)[Min(at)][2]}

MapIndex(m, k) ==
    Pairs(m, k)[Max({j \in DOMAIN Pairs(m, k) : Pairs(m, k)[j][1] = k})][2]

MapRemove(m, k) ==
    LET j == Min({i \in DOMAIN Pairs(m, k) : Pairs(m, k)[i][1] = k})
    IN  [m EXCEPT !.table[Bucket(m, k)] = Front([@ EXCEPT ![j] = Last(Pairs(m, k))]), !.size = @ - 1]

-------------------------------------------------------------------------------
(* IntMap.h: a set of keys, as flags and as a vector.                           *)

EmptySet == [flags |-> <<>>, xs |-> <<>>]

Touch(s, k)  == [s EXCEPT !.flags = Reserve(@, k, FALSE)]
SetHas(s, k) == At(s.flags, k)

SetInsert(s, k) ==
    LET t == Touch(s, k)
    IN  IF SetHas(t, k) THEN t ELSE [flags |-> Put(t.flags, k, TRUE), xs |-> Append(t.xs, k)]

\* Without free the flags are reset one by one.
SetClear(s, free) ==
    [flags |-> IF free THEN <<>>
               ELSE [i \in DOMAIN s.flags |-> s.flags[i] /\ ~Find(s.xs, i - 1)],
     xs |-> <<>>]

-------------------------------------------------------------------------------
(* Alloc.h: a region of words, addressed by unsigned words of limited width.    *)

Wrap(n) == n % (WordMax + 1)

\* One round of the loop of capacity(): about 13/8 as much.
Enlarge(cap) == Wrap(cap + Even((cap \div 2) + (cap \div 8) + 2))

\* The loop stops when the capacity is enough, or throws when it has wrapped around
\* to at most where it began.
CapacityRound(x, first, least) ==
    IF x.cap >= least \/ x.fail THEN x
    ELSE [x EXCEPT !.cap = Enlarge(@), !.fail = Enlarge(x.cap) <= first]

\* Capacities are even: what the loop has not reached after a round for every even
\* word it never reaches, and goes around for ever.
RegionCapacity(r, least) ==
    LET rounds == WordMax \div 2 + 1
        grown[n \in 0 .. rounds] ==
          IF n = 0 THEN r ELSE CapacityRound(grown[n - 1], r.cap, least)
    IN  grown[rounds]

CapacityEnds(r, least) ==
    LET c == RegionCapacity(r, least) IN c.fail \/ c.cap >= least

NoRegion         == [sz |-> 0, cap |-> 0, wasted |-> 0, fail |-> FALSE]
NewRegion(start) == RegionCapacity(NoRegion, start)

\* A size that wraps around is only noticed after the capacity was asked for.
RegionAlloc(r, n) ==
    LET c == RegionCapacity(r, Wrap(r.sz + n))
    IN  IF c.fail THEN c ELSE [c EXCEPT !.sz = Wrap(@ + n), !.fail = Wrap(r.sz + n) < r.sz]

RegionFree(r, n) == [r EXCEPT !.wasted = Wrap(@ + n)]

\* What is still used moves to a region made for it, which replaces r.
RegionMove(r) ==
    LET to == NewRegion(Wrap(r.sz - r.wasted))
    IN  IF r.sz = r.wasted THEN to ELSE RegionAlloc(to, Wrap(r.sz - r.wasted))
================================================================================
