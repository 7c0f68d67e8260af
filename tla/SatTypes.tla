------------------------------- MODULE SatTypes -------------------------------
(* minisat/core/SolverTypes.h: literals, lifted booleans, clauses, the region  *)
(* the clauses live in and the occurrence lists with lazy deletion.  A         *)
(* literal is the integer the code stores (2v + sign), a CRef is the offset of *)
(* a clause in its region, counted in 32-bit words.                            *)
EXTENDS Integers, Sequences, SequencesExt

LitUndef == -2
LitError == -1
VarUndef == -1
CRefUndef == -1

MkLit(v, sign) == 2 * v + (IF sign THEN 1 ELSE 0)
Neg(p)   == IF p % 2 = 0 THEN p + 1 ELSE p - 1
Sign(p)  == p % 2 = 1
VarOf(p) == p \div 2

\* The lifted booleans; XOR keeps "undefined" undefined.
LTrue  == 0
LFalse == 1
LUndef == 2
LXor(b, sign) == IF b = LUndef \/ ~sign THEN b ELSE 1 - b
ToLbool(b)    == IF b THEN LTrue ELSE LFalse

VarsOf(lits) == {VarOf(lits[i]) : i \in DOMAIN lits}

\* Exchanges two elements of a sequence.
Swap(q, i, j) == [q EXCEPT ![i] = q[j], ![j] = q[i]]

\* The elements of a sequence that are in a set, in their order.
Only(q, set) ==
    LET kept[i \in 0 .. Len(q)] ==
          IF i = 0 THEN <<>>
          ELSE IF q[i] \in set THEN Append(kept[i - 1], q[i]) ELSE kept[i - 1]
    IN  kept[Len(q)]

\* The function f, with value x at k.
Updated(f, k, x) == [j \in DOMAIN f \union {k} |-> IF j = k THEN x ELSE f[j]]

-------------------------------------------------------------------------------
(* Clause.  mark 1 is a removed clause, 2 the temporary mark of                *)
(* gatherTouchedClauses; abs is the set of the bits set in the signature.      *)

CalcAbstraction(lits) == {v % 32 : v \in VarsOf(lits)}

NewClause(lits, learnt, extra) ==
    [lits |-> lits, learnt |-> learnt, mark |-> 0, extra |-> extra,
     abs |-> IF extra /\ ~learnt THEN CalcAbstraction(lits) ELSE {}]

\* LitUndef: c subsumes d; LitError: it does not help; p: the literal ~p can be
\* deleted from d.
Subsumes(c, d) ==
    LET missing == {l \in ToSet(c.lits) : ~Contains(d.lits, l)}
    IN  IF Len(d.lits) < Len(c.lits) \/ ~(c.abs \subseteq d.abs) THEN LitError
        ELSE IF missing = {} THEN LitUndef
        ELSE LET l == CHOOSE x \in missing : TRUE
             IN  IF missing = {l} /\ Contains(d.lits, Neg(l)) THEN l ELSE LitError

Strengthen(c, p) ==
    LET lits == RemoveFirst(c.lits, p)
    IN  [c EXCEPT !.lits = lits, !.abs = CalcAbstraction(lits)]

-------------------------------------------------------------------------------
(* ClauseAllocator: at[cr] is the clause at offset cr, freed ones included.    *)

ClauseWord32Size(size, extra) == 1 + size + (IF extra THEN 1 ELSE 0)

EmptyRegion(extra) == [at |-> <<>>, size |-> 0, wasted |-> 0, extra |-> extra]

\* The clause is put at the end of the region: its CRef is the old size.
PutClause(ca, c) ==
    [ca EXCEPT !.at = Updated(@, ca.size, c),
               !.size = @ + ClauseWord32Size(Len(c.lits), c.extra)]

AllocClause(ca, lits, learnt) ==
    PutClause(ca, NewClause(lits, learnt, learnt \/ ca.extra))

FreeClause(ca, cr) ==
    [ca EXCEPT !.wasted = @ + ClauseWord32Size(Len(ca.at[cr].lits), ca.at[cr].extra)]

\* A relocation in progress: the target region and where each clause went.
NoReloc(extra) == [to |-> EmptyRegion(extra), moved |-> <<>>]

Reloc(ca, r, cr) ==
    IF cr \in DOMAIN r.moved THEN r
    ELSE LET c == ca.at[cr]
             keeps == c.learnt \/ r.to.extra
         IN  [to    |-> PutClause(r.to, [c EXCEPT !.extra = keeps,
                                                  !.abs = IF keeps THEN @ ELSE {}]),
              moved |-> Updated(r.moved, cr, r.to.size)]

RelocAllOf(ca, r, crs) ==
    LET after[i \in 0 .. Len(crs)] ==
          IF i = 0 THEN r ELSE Reloc(ca, after[i - 1], crs[i])
    IN  after[Len(crs)]

-------------------------------------------------------------------------------
(* OccLists: occs[k] may list deleted elements while k is dirty; deleted is the *)
(* set of them.                                                                *)

EmptyOccLists == [occs |-> <<>>, dirty |-> {}]

\* init(): the list is emptied; a dirty flag already set is kept.
InitOcc(ol, k) == [ol EXCEPT !.occs = Updated(@, k, <<>>)]

PushOcc(ol, k, x) == [ol EXCEPT !.occs[k] = Append(@, x)]

Smudge(ol, ks) == [ol EXCEPT !.dirty = @ \union ks]

\* What dirty lists list.
Listed(ol) == UNION {ToSet(ol.occs[k]) : k \in ol.dirty}

Present(q, deleted) == Only(q, ToSet(q) \ deleted)

Clean(ol, k, deleted) ==
    [occs  |-> [ol.occs EXCEPT ![k] = Present(@, deleted)],
     dirty |-> ol.dirty \ {k}]

\* lookup(): the list of k without deleted elements.
LookupOcc(ol, k, deleted) == IF k \in ol.dirty THEN Clean(ol, k, deleted) ELSE ol

CleanAll(ol, deleted) ==
    [occs  |-> [k \in DOMAIN ol.occs |->
                  IF k \in ol.dirty THEN Present(ol.occs[k], deleted) ELSE ol.occs[k]],
     dirty |-> {}]
===============================================================================
