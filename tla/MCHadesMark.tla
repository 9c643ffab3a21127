----------------------------- MODULE MCHadesMark -----------------------------
(* Small instances of HadesMark.                                            *)
EXTENDS HadesMark, TLC

Symmetry == Permutations(Cells)

Pointing(p) == [f \in Fields |-> p]

\* Every heap in which the weak map entries form a chain, the value of one being
\* the key of the next, the cells of the chain in any way the same or not, with
\* every choice of roots; weak references refer to the last value of the chain,
\* and the fields of a map that is the only root may point to it too.
Entry(m, k, v) == [map |-> m, owner |-> m, key |-> k, value |-> v]
LastSlot == CHOOSE s \in EntrySlots : TRUE
WeakHeaps ==
    {[old |-> {m, a, b, c} \cup r, regs |-> r,
      field |-> [d \in Cells |-> Pointing(IF d = m THEN e ELSE Null)],
      weak  |-> [w \in WeakSlots |-> c],
      entry |-> [s \in EntrySlots |->
                  IF s = LastSlot THEN Entry(m, b, c) ELSE Entry(m, a, b)]] :
        m \in Cells, a \in Cells, b \in Cells, c \in Cells,
        r \in SUBSET Cells, e \in Cells \cup {Null}}
MCWeakHeaps ==
    {h \in WeakHeaps : /\ WellFormed(h) /\ h.regs # {}
                       /\ \A d \in Cells, f \in Fields, w \in WeakSlots :
                             h.field[d][f] # Null =>
                                 h.field[d][f] = h.weak[w] /\ h.regs = {d}}
==============================================================================
