------------------------------- MODULE MtlClient ------------------------------
(* A client of one container at a time, which makes every legal call in every  *)
(* order.  The guards are the assertions and the preconditions the methods     *)
(* state.  ret is the last call and its answer.                                *)
EXTENDS Mtl

CONSTANTS Keys,            \* the keys of heaps, maps and sets
          Prios,           \* the priorities of the keys of a heap
          Data,            \* the elements of queues and the data of maps
          Values,          \* the elements of vectors
          MaxSize,         \* how many elements a client puts into a container
          StartCap,        \* the capacity a region begins with
          Sizes            \* the sizes a client asks a region for

ASSUME SizesAssumption ==
    /\ Keys \subseteq Nat /\ Values \subseteq Nat /\ Sizes \subseteq 1 .. WordMax
    /\ Prios \subseteq Nat /\ Prios # {} /\ MaxSize \in 0 .. IntMax
    /\ IntMax \in Nat /\ WordMax \in Nat /\ SortThreshold \in Nat \ {0}

\* The largest int is odd (Vec.h:85), and the positions 2i + 2 of a heap's children
\* (Heap.h:40-41) are ints.
ASSUME IntAssumption ==
    IntMax > 1 /\ IntMax % 2 = 1 /\ \A k \in Keys : 2 * k + 2 <= IntMax

\* A megaword of the 2^32: the first capacity of a region leaves room to grow.
ASSUME StartCapAssumption == StartCap \in Nat /\ 13 * StartCap <= 8 * (WordMax - 2)

VARIABLES kind, obj, prio, ret

vars == <<kind, obj, prio, ret>>

\* ret has no influence on the calls that follow: two states are the same for TLC if
\* they differ in it only.  The refinement is checked on every step all the same.
view == <<kind, obj, prio>>

Kinds == {"heap", "queue", "map", "set", "vec", "region"}

Empty(k) ==
    CASE k = "heap" -> EmptyHeap [] k = "queue" -> EmptyQueue [] k = "map" -> EmptyMap
      [] k = "set" -> EmptySet [] k = "vec" -> EmptyVec [] k = "region" -> NewRegion(StartCap)

Returns(op, arg, val) == ret' = [op |-> op, arg |-> arg, val |-> val]
Is(k)   == kind = k /\ UNCHANGED kind
Same    == UNCHANGED <<obj, prio>>
None    == "none"

Init ==
    /\ kind = "vec" /\ obj = Empty(kind)
    /\ prio = [k \in Keys |-> Min(Prios)]
    /\ ret = [op |-> "new", arg |-> None, val |-> None]

New ==
    /\ kind' \in Kinds /\ obj' = Empty(kind') /\ prio' = [k \in Keys |-> Min(Prios)]
    /\ Returns("new", None, None)

-------------------------------------------------------------------------------
(* Heaps.  The comparison reads the priorities, which only the client changes: *)
(* it then says whether a key has gone down or up, or asks for an update.      *)

Before     == {p \in Keys \X Keys : prio[p[1]] < prio[p[2]]}
BeforeNow  == {p \in Keys \X Keys : prio'[p[1]] < prio'[p[2]]}
InsideKeys == {k \in Keys : InHeap(obj, k)}

InsertKey ==
    \E k \in Keys \ InsideKeys :
        obj' = HeapInsert(obj, k, Before) /\ Returns("insert", k, None) /\ UNCHANGED prio

SetPrio(k, p) == prio' = [prio EXCEPT ![k] = p]

DecreaseKey ==
    \E k \in InsideKeys, p \in Prios :
        /\ p <= prio[k] /\ SetPrio(k, p)
        /\ obj' = Decrease(obj, k, BeforeNow) /\ Returns("decrease", k, None)

IncreaseKey ==
    \E k \in InsideKeys, p \in Prios :
        /\ p >= prio[k] /\ SetPrio(k, p)
        /\ obj' = Increase(obj, k, BeforeNow) /\ Returns("increase", k, None)

UpdateKey ==
    \E k \in Keys, p \in Prios :
        SetPrio(k, p) /\ obj' = Update(obj, k, BeforeNow) /\ Returns("update", k, None)

TakeMin ==
    /\ obj.heap # <<>>
    /\ obj' = RemoveMin(obj, Before) /\ Returns("removeMin", None, At(obj.heap, 0))
    /\ UNCHANGED prio

AskKey ==
    \E k \in Keys : Returns("inHeap", k, InHeap(obj, k)) /\ Same

BuildHeap ==
    \E ks \in SUBSET {k \in Keys : k < Len(obj.indices)} :
        /\ obj' = Build(obj, SetToSeq(ks), Before)
        /\ Returns("build", ks, None) /\ UNCHANGED prio

ClearHeap == obj' = HeapClear(obj) /\ Returns("clear", None, None) /\ UNCHANGED prio

UseHeap ==
    /\ Is("heap")
    /\ InsertKey \/ DecreaseKey \/ IncreaseKey \/ UpdateKey \/ TakeMin \/ AskKey \/ BuildHeap
          \/ ClearHeap

-------------------------------------------------------------------------------
\* A queue whose new length overflows the int writes outside its buffer
\* (Queue.h:53-57): the client makes no such call.
InsertElem ==
    /\ QueueSize(obj) < MaxSize /\ InsertFits(obj)
    /\ \E x \in Data : obj' = QueueInsert(obj, x) /\ Returns("insert", x, None)

PopElem == obj.first # obj.end /\ obj' = QueuePop(obj) /\ Returns("pop", None, None)

PeekElem ==
    obj.first # obj.end /\ Returns("peek", None, Peek(obj)) /\ UNCHANGED obj

ElemAt ==
    \E i \in 0 .. QueueSize(obj) - 1 : Returns("at", i, QueueAt(obj, i)) /\ UNCHANGED obj

ClearQueue ==
    \E free \in BOOLEAN : obj' = QueueClear(obj) /\ Returns("clear", None, None)

UseQueue ==
    /\ Is("queue") /\ UNCHANGED prio
    /\ InsertElem \/ PopElem \/ PeekElem \/ ElemAt \/ ClearQueue

-------------------------------------------------------------------------------
InsertPair ==
    \E k \in Keys, d \in Data :
        MapPeek(obj, k) = {} /\ obj' = MapInsert(obj, k, d) /\ Returns("insert", k, d)

RemovePair ==
    \E k \in Keys :
        MapPeek(obj, k) # {} /\ obj' = MapRemove(obj, k) /\ Returns("remove", k, None)

PeekPair == \E k \in Keys : Returns("peek", k, MapPeek(obj, k)) /\ UNCHANGED obj

IndexPair ==
    \E k \in Keys :
        MapPeek(obj, k) # {} /\ Returns("index", k, MapIndex(obj, k)) /\ UNCHANGED obj

ClearMap == obj' = EmptyMap /\ Returns("clear", None, None)

UseMap ==
    /\ Is("map") /\ UNCHANGED prio
    /\ InsertPair \/ RemovePair \/ PeekPair \/ IndexPair \/ ClearMap

-------------------------------------------------------------------------------
InsertMember == \E k \in Keys : obj' = SetInsert(obj, k) /\ Returns("insert", k, None)

HasMember ==
    \E k \in Keys : obj' = Touch(obj, k) /\ Returns("has", k, SetHas(Touch(obj, k), k))

ClearMembers ==
    \E free \in BOOLEAN : obj' = SetClear(obj, free) /\ Returns("clear", None, None)

UseSet == Is("set") /\ UNCHANGED prio /\ (InsertMember \/ HasMember \/ ClearMembers)

-------------------------------------------------------------------------------
(* Vectors.  A call that asks for n elements may throw.                         *)

Grows(w, n, op, arg, val) ==
    /\ obj' = w
    /\ IF w.fail THEN Returns("throw", n, None) ELSE Returns(op, arg, val)

PushValue ==
    /\ VecSize(obj) < MaxSize
    /\ \E x \in Values : Grows(VecPush(obj, x), VecSize(obj) + 1, "push", x, None)

ShrinkBy(n) == n <= VecSize(obj) /\ obj' = VecShrink(obj, n)

PopValue    == ShrinkBy(1) /\ Returns("pop", 1, None)
ShrinkVec   == \E n \in 0 .. VecSize(obj) : ShrinkBy(n) /\ Returns("shrink", n, None)

\* Nor does it ask a vector without a buffer for the largest int: the step overflows
\* (Vec.h:100), nothing is thrown, and growTo() writes past a buffer of two.
GrowVec ==
    \E n \in (0 .. MaxSize) \cup {IntMax}, x \in Values :
        StepFits(obj, n) /\ Grows(VecGrowTo(obj, n, x), n, "growTo", n, x)

ClearVec == \E free \in BOOLEAN : obj' = VecClear(obj, free) /\ Returns("clear", None, None)

\* The client goes on with a copy of the vector, or with the vector moved.
CopyVec  == Grows(VecCopy(obj, EmptyVec), VecSize(obj), "copyTo", None, None)
MoveVec  == UNCHANGED obj /\ Returns("moveTo", None, None)

Doubled  ==
    /\ 2 * VecSize(obj) <= MaxSize + 1
    /\ Grows(VecAppend(obj, obj), 2 * VecSize(obj), "append", None, None)

LowerHalf == {p \in Values \X Values : p[1] \div 2 < p[2] \div 2}

SortVec ==
    /\ obj' = [obj EXCEPT !.data = Sort(@, LowerHalf)]
    /\ Returns("sort", None, None)

RemoveValue ==
    \E x \in Range(obj.data) :
        obj' = [obj EXCEPT !.data = RemoveElem(@, x)] /\ Returns("remove", x, None)

FindValue == \E x \in Values : Returns("find", x, Find(obj.data, x)) /\ UNCHANGED obj

UseVec ==
    /\ Is("vec") /\ ~obj.fail /\ UNCHANGED prio
    /\ PushValue \/ PopValue \/ ShrinkVec \/ GrowVec \/ ClearVec \/ CopyVec \/ MoveVec
          \/ Doubled \/ SortVec \/ RemoveValue \/ FindValue

-------------------------------------------------------------------------------
\* A call whose loop does not end does not return, and is no step of the client.
AllocWords ==
    \E n \in Sizes :
        /\ CapacityEnds(obj, Wrap(obj.sz + n))
        /\ Grows(RegionAlloc(obj, n), n, "alloc", n, obj.sz)

FreeWords ==
    \E n \in Sizes :
        /\ obj.wasted + n <= obj.sz
        /\ obj' = RegionFree(obj, n) /\ Returns("free", n, None)

MoveRegion ==
    LET used == obj.sz - obj.wasted
    IN  /\ CapacityEnds(NoRegion, used)
        /\ Grows(RegionMove(obj), used, "move", None, None)

UseRegion ==
    Is("region") /\ ~obj.fail /\ UNCHANGED prio /\ (AllocWords \/ FreeWords \/ MoveRegion)

-------------------------------------------------------------------------------
Next == New \/ UseHeap \/ UseQueue \/ UseMap \/ UseSet \/ UseVec \/ UseRegion

Spec == Init /\ [][Next]_vars

-------------------------------------------------------------------------------
(* Invariant.                                                                  *)

\* Every child is at least its parent, and the positions are those of the keys.
HeapOK ==
    /\ \A i \in DOMAIN obj.heap : i > 1 => <<obj.heap[i], obj.heap[i \div 2]>> \notin Before
    /\ \A i \in DOMAIN obj.heap : At(obj.indices, obj.heap[i]) = i - 1
    /\ \A i \in DOMAIN obj.indices :
          obj.indices[i] >= 0 => At(obj.heap, obj.indices[i]) = i - 1

\* The slot at end is free: the buffer is never full.
QueueOK ==
    obj.first < Len(obj.buf) /\ obj.end < Len(obj.buf) /\ QueueSize(obj) < Len(obj.buf)

\* Every pair is in the bucket of its key, no key is in it twice, all are counted.
MapOK ==
    /\ \A b \in DOMAIN obj.table : \A i \in DOMAIN obj.table[b] :
          /\ Bucket(obj, obj.table[b][i][1]) = b
          /\ \A j \in DOMAIN obj.table[b] :
                obj.table[b][i][1] = obj.table[b][j][1] => i = j
    /\ obj.size = Len(FlattenSeq(obj.table))

\* A key is flagged if and only if the vector has it, once.
SetOK ==
    /\ \A i \in DOMAIN obj.flags : obj.flags[i] = Find(obj.xs, i - 1)
    /\ \A i, j \in DOMAIN obj.xs : obj.xs[i] = obj.xs[j] => i = j

\* A capacity is even, so that it never is the largest int and size + 1 does not
\* overflow.
VecOK == VecSize(obj) <= obj.cap /\ obj.cap <= IntMax /\ obj.cap % 2 = 0

RegionOK == obj.fail \/ (obj.wasted <= obj.sz /\ obj.sz <= obj.cap /\ obj.cap <= WordMax)

\* Whatever calls a client makes, every container keeps the representation its next
\* method relies on: heap order with positions inverse to it (Heap.h), one free slot
\* in a queue (Queue.h:49), pairs in their buckets (Map.h), flags that agree with
\* the vector (IntMap.h), even capacities (Vec.h:79-82), words within the capacity
\* (Alloc.h).
RepOK ==
    /\ kind = "heap" => HeapOK
    /\ kind = "queue" => QueueOK
    /\ kind = "map" => MapOK
    /\ kind = "set" => SetOK
    /\ kind = "vec" => VecOK
    /\ kind = "region" => RegionOK

-------------------------------------------------------------------------------
(* Refinement.                                                                 *)

Contents ==
    CASE kind = "heap"   -> Range(obj.heap)
      [] kind = "queue"  -> [i \in 1 .. QueueSize(obj) |-> QueueAt(obj, i - 1)]
      [] kind = "map"    -> [k \in {x \in Keys : MapPeek(obj, x) # {}} |-> MapIndex(obj, k)]
      [] kind = "set"    -> Range(obj.xs)
      [] kind = "vec"    -> obj.data
      [] kind = "region" -> [used |-> obj.sz, freed |-> obj.wasted]

Promise == INSTANCE Containers WITH abs <- Contents

\* Every call does to the contents, and answers, what a client is promised: the heap
\* gives up a least key, the queue keeps its order over the end of its buffer and
\* through a resize, the map keeps its pairs through a rehash, sort() only permutes,
\* an address is never handed out twice, and a container throws only when it is
\* near the largest int or word.
Implements == Promise!Spec
===============================================================================
