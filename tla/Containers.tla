------------------------------ MODULE Containers ------------------------------
(* What the containers of minisat/mtl promise their clients: a heap is a set   *)
(* of keys that gives up a least one, a queue and a vector are sequences, a    *)
(* map is a function, an integer set is a set, and a region hands out          *)
(* addresses one after the other.  ret is the last call: its name, its         *)
(* argument and its answer; "throw" says that memory ran out.                  *)
EXTENDS Integers, Sequences, FiniteSets

CONSTANTS IntMax, WordMax

VARIABLES kind, abs, prio, ret

vars == <<kind, abs, prio, ret>>

Kinds == {"heap", "queue", "map", "set", "vec", "region"}

Empty(k) ==
    CASE k \in {"heap", "set"} -> {}
      [] k = "region"          -> [used |-> 0, freed |-> 0]
      [] OTHER                 -> <<>>

Fresh == kind \in Kinds /\ abs = Empty(kind) /\ ret.op = "new"

Of(k)     == kind = k /\ kind' = k
Called(s) == ret'.op \in s
Kept      == abs' = abs

New == Called({"new"}) /\ kind' \in Kinds /\ abs' = Empty(kind')

-------------------------------------------------------------------------------
Least(k) == \A other \in abs : prio[k] <= prio[other]

HeapStep ==
    /\ Of("heap")
    /\ \/ Called({"insert", "update"}) /\ abs' = abs \cup {ret'.arg}
       \/ Called({"decrease", "increase"}) /\ Kept
       \/ /\ Called({"removeMin"})
          /\ ret'.val \in abs /\ Least(ret'.val)
          /\ abs' = abs \ {ret'.val}
       \/ Called({"inHeap"}) /\ ret'.val = (ret'.arg \in abs) /\ Kept
       \/ Called({"build"}) /\ abs' = ret'.arg
       \/ Called({"clear"}) /\ abs' = {}

QueueStep ==
    /\ Of("queue")
    /\ \/ Called({"insert"}) /\ abs' = Append(abs, ret'.arg)
       \/ Called({"pop"}) /\ abs' = Tail(abs)
       \/ Called({"peek"}) /\ ret'.val = Head(abs) /\ Kept
       \/ Called({"at"}) /\ ret'.val = abs[ret'.arg + 1] /\ Kept
       \/ Called({"clear"}) /\ abs' = <<>>

With(f, k, d) == [x \in DOMAIN f \cup {k} |-> IF x = k THEN d ELSE f[x]]
Without(f, k) == [x \in DOMAIN f \ {k} |-> f[x]]

MapStep ==
    /\ Of("map")
    /\ \/ Called({"insert"}) /\ abs' = With(abs, ret'.arg, ret'.val)
       \/ Called({"remove"}) /\ abs' = Without(abs, ret'.arg)
       \/ /\ Called({"peek"}) /\ Kept
          /\ ret'.val = {abs[k] : k \in DOMAIN abs \cap {ret'.arg}}
       \/ Called({"index"}) /\ ret'.val = abs[ret'.arg] /\ Kept
       \/ Called({"clear"}) /\ abs' = <<>>

SetStep ==
    /\ Of("set")
    /\ \/ Called({"insert"}) /\ abs' = abs \cup {ret'.arg}
       \/ Called({"has"}) /\ ret'.val = (ret'.arg \in abs) /\ Kept
       \/ Called({"clear"}) /\ abs' = {}

-------------------------------------------------------------------------------
Times(s, x) == Cardinality({i \in DOMAIN s : s[i] = x})

\* s has the elements of t, the halves of the numbers ascending.
SortOf(s, t) ==
    /\ Len(s) = Len(t)
    /\ \A i \in DOMAIN t : Times(s, t[i]) = Times(t, t[i])
    /\ \A i, j \in DOMAIN s : i < j => s[i] \div 2 <= s[j] \div 2

\* s is t without its first x.
WithoutFirst(s, t, x) ==
    \E i \in DOMAIN t :
        /\ t[i] = x /\ \A j \in 1 .. i - 1 : t[j] # x
        /\ s = SubSeq(t, 1, i - 1) \o SubSeq(t, i + 1, Len(t))

\* A vector may throw when 3/2 of the size asked for, and 2, exceed an int.
VecStep ==
    /\ Of("vec")
    /\ \/ Called({"push"}) /\ abs' = Append(abs, ret'.arg)
       \/ Called({"pop", "shrink"}) /\ abs' = SubSeq(abs, 1, Len(abs) - ret'.arg)
       \/ /\ Called({"growTo"}) /\ SubSeq(abs', 1, Len(abs)) = abs
          /\ \A i \in DOMAIN abs' \ DOMAIN abs : abs'[i] = ret'.val
          /\ Len(abs') = IF ret'.arg > Len(abs) THEN ret'.arg ELSE Len(abs)
       \/ Called({"clear"}) /\ abs' = <<>>
       \/ Called({"copyTo", "moveTo"}) /\ Kept
       \/ Called({"append"}) /\ abs' = abs \o abs
       \/ Called({"sort"}) /\ SortOf(abs', abs)
       \/ Called({"remove"}) /\ WithoutFirst(abs', abs, ret'.arg)
       \/ Called({"find"}) /\ ret'.val = (\E i \in DOMAIN abs : abs[i] = ret'.arg) /\ Kept
       \/ Called({"throw"}) /\ 3 * ret'.arg + 4 > 2 * IntMax

\* A region may throw when it would use about 8/13 of the words.
RegionStep ==
    /\ Of("region")
    /\ \/ /\ Called({"alloc"}) /\ ret'.val = abs.used
          /\ abs' = [abs EXCEPT !.used = @ + ret'.arg]
       \/ Called({"free"}) /\ abs' = [abs EXCEPT !.freed = @ + ret'.arg]
       \/ Called({"move"}) /\ abs' = [used |-> abs.used - abs.freed, freed |-> 0]
       \/ Called({"throw"}) /\ 13 * (abs.used + ret'.arg) > 8 * (WordMax - 2)

Next == New \/ HeapStep \/ QueueStep \/ MapStep \/ SetStep \/ VecStep \/ RegionStep

Spec == Fresh /\ [][Next]_vars
===============================================================================
