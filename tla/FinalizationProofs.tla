------------------------- MODULE FinalizationProofs -------------------------
(* Proofs about FinalizationRegistry and FinalizationCheckpoint, for any      *)
(* numbers of records, tokens and registries.                                 *)
(*                                                                            *)
(* Of a registry: the free list is a sequence of the free slots (FreeInv), a  *)
(* record is in one slot at most (ArrayInv), has one fate (FateInv), and what *)
(* a cleanup still has to call back is at or behind its index, in the array   *)
(* that it reads (CleanupInv).  That array may be an old one, of which the    *)
(* part behind the index agrees with the new one only as long as no callback  *)
(* unregisters a record: hence the hypothesis ~UnregistersDetached.           *)
(*                                                                            *)
(* Of a checkpoint: VisitedInOrder counts the places of a registry; what the  *)
(* steps keep is that two places hold the same only if they are empty         *)
(* (ListInv), and that the registry being cleaned up, which is pinned, stays  *)
(* where it is while others come and go (LoopInv).                            *)
EXTENDS FinalizationRegistry, FinalizationCheckpoint, FiniteSetTheorems,
        SequenceTheorems, WellFoundedInduction, TLAPS

------------------------------------------------------------------------------
(* Sets of numbers.                                                           *)

\* e lists the n members of J in ascending order.
Ascends(e, n, J) ==
    /\ e \in [1 .. n -> J]
    /\ \A j, k \in 1 .. n : j < k => e[j] < e[k]
    /\ \A x \in J : \E k \in 1 .. n : e[k] = x

\* A bounded set of numbers can be listed in ascending order.
LEMMA Enumeration ==
    ASSUME NEW N \in Nat, NEW J \in SUBSET (1 .. N)
    PROVE  \E n \in Nat : \E e : Ascends(e, n, J) /\ Cardinality(J) = n
<1> DEFINE Listed(S) == \E n \in Nat : \E e : Ascends(e, n, S)
           Bad == {m \in Nat : \E S \in SUBSET (1 .. m) : ~Listed(S)}
           Less == OpToRel(<, Nat)
<1>1. IsWellFoundedOn(Less, Nat)
  BY NatLessThanWellFounded
<1>2. \A s, t \in Nat : t < s => <<t, s>> \in Less
  BY DEF OpToRel
<1> HIDE DEF Less
<1>3. Bad = {}
  <2> SUFFICES ASSUME Bad # {}
               PROVE  FALSE
    OBVIOUS
  <2>1. Bad \subseteq Nat
    OBVIOUS
  <2>2. \E m \in Bad : \A t \in Bad : ~(<<t, m>> \in Less)
    <3> HIDE DEF Bad
    <3> QED
      BY <1>1, <2>1, WFMin
  <2>3. PICK m \in Bad : \A t \in Bad : ~(<<t, m>> \in Less)
    BY <2>2
  <2>4. PICK S \in SUBSET (1 .. m) : ~Listed(S)
    BY <2>3
  <2>5. CASE m = 0
    <3>1. S = {}
      BY <2>4, <2>5
    <3>2. Ascends(<<>>, 0, S)
      BY <3>1 DEF Ascends
    <3> QED
      BY <2>4, <3>2
  <2>6. CASE m # 0
    <3>1. m - 1 \in Nat /\ m - 1 < m
      BY <2>1, <2>3, <2>6
    <3>2. m - 1 \notin Bad
      BY <1>2, <2>1, <2>3, <3>1
    <3>3. S \ {m} \in SUBSET (1 .. m - 1)
      BY <2>1, <2>3, <2>4, <3>1
    <3>4. Listed(S \ {m})
      BY <3>1, <3>2, <3>3
    <3>5. PICK n, e : n \in Nat /\ Ascends(e, n, S \ {m})
      BY <3>4
    <3> n \in Nat
      BY <3>5
    <3>6. CASE m \notin S
      BY <2>4, <3>5, <3>6
    <3>7. CASE m \in S
      <4> DEFINE d == [k \in 1 .. n + 1 |-> IF k = n + 1 THEN m ELSE e[k]]
      <4>0. m \in Nat /\ n \in Nat /\ n + 1 \in 1 .. n + 1
        BY <2>1, <2>3, <3>5
      <4>1. \A k \in 1 .. n : e[k] \in S /\ e[k] \in 1 .. m - 1 /\ d[k] = e[k]
        <5> SUFFICES ASSUME NEW k \in 1 .. n
                     PROVE  e[k] \in S /\ e[k] \in 1 .. m - 1 /\ d[k] = e[k]
          OBVIOUS
        <5>1. e[k] \in S \ {m}
          BY <3>5 DEF Ascends
        <5>2. k \in 1 .. n + 1 /\ k # n + 1
          BY <4>0
        <5>3. d[k] = e[k]
          BY <5>2
        <5> QED
          BY <3>3, <5>1, <5>3
      <4>2. d \in [1 .. n + 1 -> S] /\ d[n + 1] = m
        <5>1. \A k \in 1 .. n + 1 : k = n + 1 \/ k \in 1 .. n
          BY <4>0
        <5>2. \A k \in 1 .. n + 1 : (IF k = n + 1 THEN m ELSE e[k]) \in S
          BY <3>7, <4>1, <5>1
        <5> QED
          BY <4>0, <5>2
      <4>3. \A j, k \in 1 .. n + 1 : j < k => d[j] < d[k]
        <5> SUFFICES ASSUME NEW j \in 1 .. n + 1, NEW k \in 1 .. n + 1, j < k
                     PROVE  d[j] < d[k]
          OBVIOUS
        <5>1. j \in 1 .. n
          OBVIOUS
        <5>2. CASE k = n + 1
          <6>1. e[j] \in 1 .. m - 1 /\ d[j] = e[j] /\ d[k] = m
            BY <4>1, <4>2, <5>1, <5>2
          <6> QED
            BY <2>1, <2>3, <6>1
        <5>3. CASE k # n + 1
          <6>1. k \in 1 .. n
            BY <5>3
          <6>2. e[j] < e[k] /\ d[j] = e[j] /\ d[k] = e[k]
            BY <3>5, <4>1, <5>1, <6>1 DEF Ascends
          <6> QED
            BY <6>2
        <5> QED
          BY <5>2, <5>3
      <4>4. \A x \in S : \E k \in 1 .. n + 1 : d[k] = x
        <5>1. n + 1 \in 1 .. n + 1 /\ 1 .. n \subseteq 1 .. n + 1
          OBVIOUS
        <5> QED
          BY <3>5, <4>1, <4>2, <5>1 DEF Ascends
      <4> HIDE DEF d
      <4>5. Ascends(d, n + 1, S)
        BY <4>2, <4>3, <4>4 DEF Ascends
      <4> QED
        BY <2>4, <4>5
    <3> QED
      BY <3>6, <3>7
  <2> QED
    BY <2>5, <2>6
<1>4. Listed(J)
  BY <1>3
<1>5. PICK n, e : n \in Nat /\ Ascends(e, n, J)
  BY <1>4
<1> n \in Nat
  BY <1>5
<1>6. e \in Bijection(1 .. n, J)
  <2>1. e \in [1 .. n -> J] /\ \A x \in J : \E k \in 1 .. n : e[k] = x
    BY <1>5 DEF Ascends
  <2>2. \A j, k \in 1 .. n : e[j] = e[k] => j = k
    <3> SUFFICES ASSUME NEW j \in 1 .. n, NEW k \in 1 .. n, e[j] = e[k], j # k
                 PROVE  FALSE
      OBVIOUS
    <3>0. e[j] \in J
      BY <2>1
    <3>1. e[j] \in 1 .. N
      BY <3>0
    <3>2. j < k \/ k < j
      BY <1>5
    <3>3. e[j] < e[k] \/ e[k] < e[j]
      BY <1>5, <3>2 DEF Ascends
    <3> QED
      BY <3>1, <3>3
  <2> QED
    BY <2>1, <2>2 DEF Bijection, Injection, Surjection, IsInjective
<1>7. Cardinality(J) = n
  BY <1>6, FS_CountingElements DEF ExistsBijection
<1> QED
  BY <1>5, <1>7

\* The largest member of a set of numbers.
LEMMA MaxIs ==
    ASSUME NEW S, NEW m \in S, \A x \in S : x \in Int /\ x <= m
    PROVE  Max(S) = m
<1>1. \E x \in S : \A y \in S : x >= y
  BY DEF Max
<1>2. Max(S) \in S /\ \A y \in S : Max(S) >= y
  BY <1>1 DEF Max
<1>3. m >= Max(S) /\ Max(S) >= m
  BY <1>2
<1> QED
  BY <1>2, <1>3

------------------------------------------------------------------------------
(* A registry: its array and the free list in it.                             *)

\* p lists the n free slots from the last one to the first of the free list.
FreeList(n, p) ==
    /\ p \in [1 .. n -> FreeSlots]
    /\ \A k \in 1 .. n : cells[p[k]] = (IF k = 1 THEN p[1] ELSE p[k - 1])
    /\ \A j, k \in 1 .. n : p[j] = p[k] => j = k
    /\ \A x \in FreeSlots : \E k \in 1 .. n : p[k] = x
    /\ nextFree = (IF n = 0 THEN 0 ELSE p[n])

FreeInv == \E n \in Nat : \E p : FreeList(n, p)

\* Two slots with the same record are the same slot.
OneSlot == \A j, k \in UsedSlots : cells[j] = cells[k] => j = k

\* A record whose registration failed is in no slot.
Apart == failed \subseteq Records /\ \A j \in UsedSlots : cells[j] \notin failed

CountInv ==
    /\ numUsedCells = Cardinality(UsedSlots) + Cardinality(failed)
    /\ Len(cells) <= Cardinality(Records)
    /\ OneSlot /\ Apart

\* The array's part of TypeOK, and the rest.
ArrayType ==
    /\ cells \in Seq(Slot) /\ capacity \in Nat /\ Len(cells) <= capacity
    /\ nextFree \in 0 .. Len(cells) /\ numUsedCells \in 0 .. IndexRange - 1

LoopType ==
    /\ lvCells \in Seq(Slot)
    /\ pc \in {"idle", "loop", "callback"} /\ i \in Nat /\ detached \in BOOLEAN
    /\ token \in [Records -> Tokens \cup {None}]
    /\ dead \subseteq registered /\ registered \subseteq Records
    /\ unregistered \subseteq Records /\ due \subseteq Records
    /\ called \in [Records -> Nat] /\ failed \subseteq Records \ registered

ArrayInv == ArrayType /\ FreeInv /\ CountInv

\* A record is in a slot.
InSlot(r) == \E j \in UsedSlots : cells[j] = r

\* A registered record is in a slot, or unregistered, or called back once.
FateInv ==
    \A r \in Records :
        /\ r \in registered <=> InSlot(r) \/ r \in unregistered \/ called[r] = 1
        /\ InSlot(r) => r \notin unregistered
        /\ \/ called[r] = 0
           \/ called[r] = 1 /\ r \in dead /\ r \notin unregistered /\ ~InSlot(r)

\* What the loop has not seen begins here.
Border == IF pc = "callback" THEN i + 1 ELSE i

\* The loop will come to r.
Pending(r) ==
    \E j \in UsedSlots :
        cells[j] = r /\ j >= Border /\ (detached => j <= Len(lvCells))

\* When the array was replaced, nothing behind the border has changed since.
CleanupInv ==
    /\ pc = "idle" => due = {} /\ ~detached
    /\ pc # "idle" => i >= 1
    /\ due \subseteq dead
    /\ \A r \in due : called[r] > 0 \/ r \in unregistered \/ Pending(r)
    /\ detached =>
         /\ Len(lvCells) <= Len(cells)
         /\ \A j \in 1 .. Len(cells) : j >= Border => cells[j] \in Records
         /\ \A j \in 1 .. Len(lvCells) : j >= Border => cells[j] = lvCells[j]

IInv == ArrayInv /\ LoopType /\ FateInv /\ CleanupInv

\* What the array may hold.
LEMMA SlotFacts ==
    ASSUME cells \in Seq(Slot)
    PROVE  /\ Len(cells) \in Nat
           /\ \A j \in 1 .. Len(cells) : cells[j] \in Slot
           /\ UsedSlots \subseteq 1 .. Len(cells)
           /\ FreeSlots \subseteq 1 .. Len(cells)
           /\ \A j \in FreeSlots : cells[j] \in Nat \ {0}
           /\ \A j \in UsedSlots : cells[j] \in Records
           /\ IsFiniteSet(UsedSlots) /\ Cardinality(UsedSlots) \in Nat
<1>1. Len(cells) \in Nat /\ \A j \in 1 .. Len(cells) : cells[j] \in Slot
  OBVIOUS
<1>2. UsedSlots \subseteq 1 .. Len(cells) /\ FreeSlots \subseteq 1 .. Len(cells)
  BY DEF UsedSlots, FreeSlots
<1>3. \A j \in FreeSlots : cells[j] \in Nat \ {0}
  BY <1>1 DEF UsedSlots, FreeSlots, Slot
<1>4. \A j \in UsedSlots : cells[j] \in Records
  BY DEF UsedSlots
<1>5. IsFiniteSet(UsedSlots) /\ Cardinality(UsedSlots) \in Nat
  <2>1. IsFiniteSet(1 .. Len(cells))
    BY <1>1, FS_Interval
  <2> QED
    BY <1>2, <2>1, FS_Subset, FS_CardinalityType
<1> QED
  BY <1>1, <1>2, <1>3, <1>4, <1>5

\* There are fewer used slots and failed registrations than indices.
LEMMA FewSlots ==
    ASSUME cells \in Seq(Slot), OneSlot, Apart
    PROVE  /\ Cardinality(failed) \in Nat
           /\ Cardinality(UsedSlots) + Cardinality(failed) <= Cardinality(Records)
<1> DEFINE f == [j \in UsedSlots |-> cells[j]]
           Others == Records \ failed
<1>1. f \in [UsedSlots -> Others]
  BY DEF UsedSlots, Apart
<1>2. \A j, k \in UsedSlots : f[j] = f[k] => j = k
  BY DEF OneSlot
<1>3. f \in Injection(UsedSlots, Others)
  BY <1>1, <1>2 DEF Injection, IsInjective
<1>4. /\ IsFiniteSet(failed) /\ Cardinality(failed) \in Nat
      /\ IsFiniteSet(Others) /\ Cardinality(Others) \in Nat
      /\ Cardinality(Others) = Cardinality(Records) - Cardinality(failed)
  <2>1. IsFiniteSet(failed) /\ failed \cap Records = failed
    BY RecordsAssumption, FS_Subset DEF Apart
  <2>2. /\ IsFiniteSet(Others)
        /\ Cardinality(Others) = Cardinality(Records) - Cardinality(Records \cap failed)
    BY <2>1, RecordsAssumption, FS_Difference
  <2>3. Records \cap failed = failed
    BY DEF Apart
  <2> QED
    BY <2>1, <2>2, <2>3, FS_CardinalityType
<1>5. Cardinality(UsedSlots) <= Cardinality(Others)
  BY <1>3, <1>4, FS_Injection
<1>6. Cardinality(UsedSlots) \in Nat /\ Cardinality(Records) \in Nat
  BY SlotFacts, RecordsAssumption, FS_CardinalityType
<1> HIDE DEF Others
<1> QED
  BY <1>4, <1>5, <1>6

\* What is less than the range does not wrap around.
LEMMA NoWrap ==
    ASSUME NEW m \in Nat, NEW n \in 0 .. m - 1
    PROVE  n % m = n
OBVIOUS

\* The number of records is less than the range of the indices.
LEMMA RecordsCount ==
    /\ Cardinality(Records) \in Nat /\ IndexRange \in Nat
    /\ Cardinality(Records) < IndexRange
BY RecordsAssumption, SizeAssumption, FS_CardinalityType

\* The free list is empty exactly when there is no free slot.
LEMMA NoFreeSlot ==
    ASSUME FreeInv, nextFree = 0, cells \in Seq(Slot)
    PROVE  FreeSlots = {}
<1>1. PICK n, p : n \in Nat /\ FreeList(n, p)
  BY DEF FreeInv
<1> n \in Nat
  BY <1>1
<1>2. CASE n = 0
  BY <1>1, <1>2 DEF FreeList
<1>3. CASE n # 0
  <2>1. n \in 1 .. n
    BY <1>1, <1>3
  <2>2. p[n] \in FreeSlots /\ p[n] = 0
    BY <1>1, <1>3, <2>1 DEF FreeList
  <2>3. p[n] \in 1 .. Len(cells)
    BY <2>2, SlotFacts
  <2> QED
    BY <2>2, <2>3, SlotFacts
<1> QED
  BY <1>2, <1>3

------------------------------------------------------------------------------
(* free().                                                                    *)

\* The last of the slots in ascending order is the largest.
LEMMA LastIsMax ==
    ASSUME NEW N \in Nat, NEW J \in SUBSET (1 .. N), NEW m \in Nat \ {0}, NEW e,
           Ascends(e, m, J)
    PROVE  Max(J) = e[m]
<1>0. m \in 1 .. m
  OBVIOUS
<1>1. e[m] \in J /\ e[m] \in 1 .. N
  BY <1>0 DEF Ascends
<1>2. \A x \in J : x \in Int /\ x <= e[m]
  <2> SUFFICES ASSUME NEW x \in J
               PROVE  x \in Int /\ x <= e[m]
    OBVIOUS
  <2>1. PICK k \in 1 .. m : e[k] = x
    BY DEF Ascends
  <2>2. k < m \/ k = m
    OBVIOUS
  <2>3. e[k] < e[m] \/ e[k] = e[m]
    BY <1>0, <2>2 DEF Ascends
  <2>4. x \in Int /\ e[m] \in Int
    BY <1>1
  <2> QED
    BY <2>1, <2>3, <2>4
<1> QED
  BY <1>1, <1>2, MaxIs

\* A freed slot gets the index of the one freed before it.
LEMMA FreedSlotIs ==
    ASSUME NEW J \in SUBSET Nat, NEW m \in Nat, NEW e, Ascends(e, m, J),
           NEW t \in 1 .. m
    PROVE  FreedSlot(e[t], J) =
             IF t = 1 THEN (IF nextFree # 0 THEN nextFree ELSE e[1]) ELSE e[t - 1]
<1>1. e[t] \in J /\ e[t] \in Nat
  BY DEF Ascends
<1>2. CASE t = 1
  <2>1. ASSUME NEW k \in J, k < e[t]
        PROVE  FALSE
    <3>1. PICK s \in 1 .. m : e[s] = k
      BY DEF Ascends
    <3>2. s = t \/ t < s
      BY <1>2
    <3>3. e[t] < e[s] \/ e[s] = e[t]
      BY <3>2 DEF Ascends
    <3>4. k \in Int /\ e[t] \in Int
      BY <1>1
    <3> QED
      BY <2>1, <3>1, <3>3, <3>4
  <2> QED
    BY <1>2, <2>1 DEF FreedSlot
<1>3. CASE t # 1
  <2> DEFINE K == {k \in J : k < e[t]}
  <2>1. t - 1 \in 1 .. m /\ t - 1 < t
    BY <1>3
  <2>2. e[t - 1] \in J /\ e[t - 1] < e[t]
    BY <2>1 DEF Ascends
  <2>3. \A x \in K : x \in Int /\ x <= e[t - 1]
    <3> SUFFICES ASSUME NEW x \in J, x < e[t]
                 PROVE  x \in Int /\ x <= e[t - 1]
      OBVIOUS
    <3>1. PICK s \in 1 .. m : e[s] = x
      BY DEF Ascends
    <3>2. s < t - 1 \/ s = t - 1 \/ s = t \/ t < s
      BY <2>1
    <3>3. e[s] < e[t - 1] \/ e[s] = e[t - 1] \/ e[s] = e[t] \/ e[t] < e[s]
      BY <2>1, <3>2 DEF Ascends
    <3>4. \A y \in J : y \in Int
      OBVIOUS
    <3>5. x \in Int /\ e[t] \in Int /\ e[t - 1] \in Int
      BY <1>1, <2>2, <3>4
    <3> QED
      BY <3>1, <3>3, <3>5
  <2>4. Max(K) = e[t - 1]
    BY <2>2, <2>3, MaxIs
  <2>5. \E k \in J : k < e[t]
    BY <2>2
  <2> QED
    BY <1>3, <2>4, <2>5 DEF FreedSlot
<1> QED
  BY <1>2, <1>3

\* What free() does to the slots.
LEMMA FreeEffect ==
    ASSUME ArrayType, NEW J \in SUBSET UsedSlots, Free(J)
    PROVE  /\ cells' \in Seq(Slot) /\ Len(cells') = Len(cells)
           /\ \A j \in 1 .. Len(cells) : j \notin J => cells'[j] = cells[j]
           /\ \A j \in J : cells'[j] = FreedSlot(j, J) /\ cells'[j] \in Nat \ {0}
           /\ UsedSlots' = UsedSlots \ J /\ FreeSlots' = FreeSlots \cup J
<1>1. cells \in Seq(Slot) /\ Len(cells) \in Nat /\ nextFree \in Nat
  BY DEF ArrayType
<1>2. J \in SUBSET (1 .. Len(cells)) /\ UsedSlots \subseteq 1 .. Len(cells)
  BY <1>1, SlotFacts
<1>3. PICK m, e : m \in Nat /\ Ascends(e, m, J)
  BY <1>1, <1>2, Enumeration
<1> m \in Nat
  BY <1>3
<1>4. \A j \in J : FreedSlot(j, J) \in Nat \ {0}
  <2> SUFFICES ASSUME NEW j \in J
               PROVE  FreedSlot(j, J) \in Nat \ {0}
    OBVIOUS
  <2>1. PICK t \in 1 .. m : e[t] = j
    BY <1>3 DEF Ascends
  <2>2. FreedSlot(e[t], J) =
          IF t = 1 THEN (IF nextFree # 0 THEN nextFree ELSE e[1]) ELSE e[t - 1]
    <3>1. J \in SUBSET Nat
      BY <1>1, <1>2
    <3> QED
      BY <1>3, <2>1, <3>1, FreedSlotIs
  <2>3. 1 \in 1 .. m /\ (t # 1 => t - 1 \in 1 .. m)
    BY <1>3
  <2>4. e[1] \in J /\ (t # 1 => e[t - 1] \in J)
    BY <1>3, <2>3 DEF Ascends
  <2>5. \A y \in J : y \in Nat \ {0}
    BY <1>2
  <2> QED
    BY <1>1, <2>1, <2>2, <2>4, <2>5
<1> DEFINE new == [j \in 1 .. Len(cells) |->
                      IF j \in J THEN FreedSlot(j, J) ELSE cells[j]]
<1>5. cells' = new
  BY DEF Free
<1>6. \A j \in 1 .. Len(cells) :
        (IF j \in J THEN FreedSlot(j, J) ELSE cells[j]) \in Slot
  BY <1>1, <1>4, SlotFacts DEF Slot
<1>7. new \in Seq(Slot) /\ Len(new) = Len(cells)
  <2>1. new \in [1 .. Len(cells) -> Slot]
    BY <1>6
  <2> HIDE DEF new
  <2> QED
    BY <1>1, <2>1, SeqDef
<1>8. /\ \A j \in 1 .. Len(cells) : j \notin J => cells'[j] = cells[j]
      /\ \A j \in J : cells'[j] = FreedSlot(j, J)
  BY <1>2, <1>5
<1>9. cells' \in Seq(Slot) /\ Len(cells') = Len(cells)
  BY <1>5, <1>7
<1> HIDE DEF new
<1>10. UsedSlots' = UsedSlots \ J
  <2>1. \A j \in 1 .. Len(cells) : j \in UsedSlots' <=> j \in UsedSlots \ J
    <3> SUFFICES ASSUME NEW j \in 1 .. Len(cells)
                 PROVE  j \in UsedSlots' <=> j \in UsedSlots \ J
      OBVIOUS
    <3>1. j \in UsedSlots' <=> cells'[j] \in Records
      BY <1>9 DEF UsedSlots
    <3>2. CASE j \in J
      <4>1. cells'[j] \in Nat
        BY <1>4, <1>8, <3>2
      <4> QED
        BY <3>1, <3>2, <4>1, RecordsAssumption
    <3>3. CASE j \notin J
      BY <1>8, <3>1, <3>3 DEF UsedSlots
    <3> QED
      BY <3>2, <3>3
  <2>2. UsedSlots' \subseteq 1 .. Len(cells)
    BY <1>9 DEF UsedSlots
  <2> QED
    BY <1>2, <2>1, <2>2
<1>11. FreeSlots' = FreeSlots \cup J
  <2>1. FreeSlots' = (1 .. Len(cells)) \ (UsedSlots \ J)
    BY <1>9, <1>10 DEF FreeSlots
  <2> QED
    BY <1>2, <2>1 DEF FreeSlots
<1> QED
  BY <1>4, <1>8, <1>9, <1>10, <1>11

\* free() puts the slots in front of the free list.
LEMMA FreeKeepsList ==
    ASSUME ArrayInv, NEW J \in SUBSET UsedSlots, Free(J)
    PROVE  FreeInv'
<1>1. /\ cells \in Seq(Slot) /\ Len(cells) \in Nat /\ nextFree \in Nat /\ ArrayType
      /\ UsedSlots \subseteq 1 .. Len(cells) /\ J \in SUBSET (1 .. Len(cells))
  BY SlotFacts DEF ArrayInv, ArrayType
<1>2. PICK n, p : n \in Nat /\ FreeList(n, p)
  BY DEF ArrayInv, FreeInv
<1> n \in Nat
  BY <1>2
<1>3. PICK m, e : m \in Nat /\ Ascends(e, m, J)
  BY <1>1, Enumeration
<1> m \in Nat
  BY <1>3
<1>4. /\ Len(cells') = Len(cells) /\ FreeSlots' = FreeSlots \cup J
      /\ \A j \in 1 .. Len(cells) : j \notin J => cells'[j] = cells[j]
      /\ \A j \in J : cells'[j] = FreedSlot(j, J)
  BY <1>1, FreeEffect
<1>5. FreeSlots \subseteq 1 .. Len(cells) /\ \A j \in FreeSlots : j \notin J
  BY DEF FreeSlots
<1> DEFINE q == [k \in 1 .. n + m |-> IF k <= n THEN p[k] ELSE e[k - n]]
<1>6. \A k \in 1 .. n : k \in 1 .. n + m /\ q[k] = p[k] /\ p[k] \in FreeSlots
  BY <1>2 DEF FreeList
<1>7. \A t \in 1 .. m : n + t \in 1 .. n + m /\ q[n + t] = e[t] /\ e[t] \in J
  <2> SUFFICES ASSUME NEW t \in 1 .. m
               PROVE  n + t \in 1 .. n + m /\ q[n + t] = e[t] /\ e[t] \in J
    OBVIOUS
  <2>1. n + t \in 1 .. n + m /\ ~(n + t <= n) /\ (n + t) - n = t
    BY <1>2, <1>3
  <2> QED
    BY <1>3, <2>1 DEF Ascends
<1>8. \A k \in 1 .. n + m : k \in 1 .. n \/ \E t \in 1 .. m : k = n + t
  <2> SUFFICES ASSUME NEW k \in 1 .. n + m, k \notin 1 .. n
               PROVE  \E t \in 1 .. m : k = n + t
    OBVIOUS
  <2>1. k - n \in 1 .. m /\ k = n + (k - n)
    BY <1>2, <1>3
  <2> QED
    BY <2>1
<1>9. q \in [1 .. n + m -> FreeSlots']
  <2>1. \A k \in 1 .. n + m : q[k] \in FreeSlots'
    <3> HIDE DEF q
    <3> QED
      BY <1>4, <1>6, <1>7, <1>8
  <2>2. q \in [1 .. n + m -> {q[k] : k \in 1 .. n + m}]
    OBVIOUS
  <2> HIDE DEF q
  <2> QED
    BY <2>1, <2>2
<1>10. \A k \in 1 .. n + m : q[k] \in FreeSlots' /\ q \in [1 .. n + m -> FreeSlots']
  BY <1>9
<1> HIDE DEF q
<1>11. \A k \in 1 .. n + m : cells'[q[k]] = IF k = 1 THEN q[1] ELSE q[k - 1]
  <2> SUFFICES ASSUME NEW k \in 1 .. n + m
               PROVE  cells'[q[k]] = IF k = 1 THEN q[1] ELSE q[k - 1]
    OBVIOUS
  <2>1. CASE k \in 1 .. n
    <3>1. q[k] = p[k] /\ p[k] \in FreeSlots /\ cells'[p[k]] = cells[p[k]]
      BY <1>4, <1>5, <1>6, <2>1
    <3>2. cells[p[k]] = IF k = 1 THEN p[1] ELSE p[k - 1]
      BY <1>2, <2>1 DEF FreeList
    <3>3. CASE k = 1
      BY <1>6, <2>1, <3>1, <3>2, <3>3
    <3>4. CASE k # 1
      <4>1. k - 1 \in 1 .. n
        BY <1>2, <2>1, <3>4
      <4> QED
        BY <1>6, <3>1, <3>2, <3>4, <4>1
    <3> QED
      BY <3>3, <3>4
  <2>2. CASE \E t \in 1 .. m : k = n + t
    <3>1. PICK t \in 1 .. m : k = n + t
      BY <2>2
    <3>2. q[k] = e[t] /\ e[t] \in J /\ cells'[e[t]] = FreedSlot(e[t], J)
      BY <1>4, <1>7, <3>1
    <3>3. FreedSlot(e[t], J) =
            IF t = 1 THEN (IF nextFree # 0 THEN nextFree ELSE e[1]) ELSE e[t - 1]
      <4>1. J \in SUBSET Nat
        BY <1>1
      <4> QED
        BY <1>3, <3>1, <4>1, FreedSlotIs
    <3>4. CASE t = 1 /\ n = 0
      <4>1. nextFree = 0 /\ k = 1 /\ q[1] = e[1]
        BY <1>2, <3>1, <3>2, <3>4 DEF FreeList
      <4> QED
        BY <3>2, <3>3, <3>4, <4>1
    <3>5. CASE t = 1 /\ n # 0
      <4>1. n \in 1 .. n /\ k # 1 /\ k - 1 = n
        BY <1>2, <3>1, <3>5
      <4>2. nextFree = p[n] /\ p[n] \in 1 .. Len(cells) /\ q[n] = p[n]
        BY <1>2, <1>5, <1>6, <3>5, <4>1 DEF FreeList
      <4>3. nextFree # 0
        BY <1>1, <4>2
      <4> QED
        BY <3>2, <3>3, <3>5, <4>1, <4>2, <4>3
    <3>6. CASE t # 1
      <4>1. t - 1 \in 1 .. m /\ k # 1 /\ k - 1 = n + (t - 1)
        BY <1>2, <1>3, <3>1, <3>6
      <4>2. q[k - 1] = e[t - 1]
        BY <1>7, <4>1
      <4> QED
        BY <3>2, <3>3, <3>6, <4>1, <4>2
    <3> QED
      BY <3>4, <3>5, <3>6
  <2> QED
    BY <1>8, <2>1, <2>2
<1>12. \A j, k \in 1 .. n + m : q[j] = q[k] => j = k
  <2> SUFFICES ASSUME NEW j \in 1 .. n + m, NEW k \in 1 .. n + m, q[j] = q[k]
               PROVE  j = k
    OBVIOUS
  <2>1. CASE j \in 1 .. n /\ k \in 1 .. n
    BY <1>2, <1>6, <2>1 DEF FreeList
  <2>2. CASE j \in 1 .. n <=> ~(k \in 1 .. n)
    BY <1>5, <1>6, <1>7, <1>8, <2>2
  <2>3. CASE \E s, t \in 1 .. m : j = n + s /\ k = n + t
    <3>1. PICK s \in 1 .. m, t \in 1 .. m : j = n + s /\ k = n + t
      BY <2>3
    <3>2. e[s] = e[t] /\ e[s] \in J
      BY <1>7, <3>1
    <3>3. \A y \in J : y \in Int
      BY <1>1
    <3>4. ~(s < t) /\ ~(t < s)
      <4>1. e[s] \in Int /\ ~(e[s] < e[t]) /\ ~(e[t] < e[s])
        BY <3>2, <3>3
      <4> QED
        BY <1>3, <4>1 DEF Ascends
    <3>5. s = t
      BY <1>3, <3>4
    <3> QED
      BY <3>1, <3>5
  <2> QED
    BY <1>8, <2>1, <2>2, <2>3
<1>13. \A x \in FreeSlots' : \E k \in 1 .. n + m : q[k] = x
  <2> SUFFICES ASSUME NEW x \in FreeSlots'
               PROVE  \E k \in 1 .. n + m : q[k] = x
    OBVIOUS
  <2>1. CASE x \in FreeSlots
    <3>1. PICK k \in 1 .. n : p[k] = x
      BY <1>2, <2>1 DEF FreeList
    <3> QED
      BY <1>6, <3>1
  <2>2. CASE x \in J
    <3>1. PICK t \in 1 .. m : e[t] = x
      BY <1>3, <2>2 DEF Ascends
    <3> QED
      BY <1>7, <3>1
  <2> QED
    BY <1>4, <2>1, <2>2
<1>14. nextFree' = (IF n + m = 0 THEN 0 ELSE q[n + m])
  <2>1. nextFree' = IF J = {} THEN nextFree ELSE Max(J)
    BY DEF Free
  <2>2. CASE m = 0
    <3>1. J = {}
      BY <1>3, <2>2 DEF Ascends
    <3>2. CASE n = 0
      BY <1>2, <2>1, <2>2, <3>1, <3>2 DEF FreeList
    <3>3. CASE n # 0
      <4>1. n \in 1 .. n /\ n + m = n
        BY <1>2, <2>2, <3>3
      <4>2. q[n] = p[n] /\ nextFree = p[n]
        BY <1>2, <1>6, <3>3, <4>1 DEF FreeList
      <4> QED
        BY <2>1, <3>1, <3>3, <4>1, <4>2
    <3> QED
      BY <3>2, <3>3
  <2>3. CASE m # 0
    <3>1. m \in Nat \ {0} /\ m \in 1 .. m /\ n + m # 0
      BY <1>2, <1>3, <2>3
    <3>2. Max(J) = e[m]
      BY <1>1, <1>3, <3>1, LastIsMax
    <3>3. q[n + m] = e[m] /\ e[m] \in J
      BY <1>7, <3>1
    <3> QED
      BY <2>1, <3>1, <3>2, <3>3
  <2> QED
    BY <2>2, <2>3
<1>15. n + m \in Nat
  BY <1>2, <1>3
<1>16. FreeList(n + m, q)'
  BY <1>9, <1>11, <1>12, <1>13, <1>14 DEF FreeList
<1> QED
  BY <1>15, <1>16 DEF FreeInv

------------------------------------------------------------------------------
(* useFreeIndex() and push_back().                                            *)

\* r is put into the slot s, which was free or is new.
Placed(r, s) ==
    /\ cells' \in Seq(Slot) /\ s \in 1 .. Len(cells') /\ s \notin UsedSlots
    /\ cells'[s] = r /\ 1 .. Len(cells) \subseteq 1 .. Len(cells')
    /\ \A j \in 1 .. Len(cells) : j # s => cells'[j] = cells[j]
    /\ \A j \in 1 .. Len(cells') : j = s \/ j \in 1 .. Len(cells)
    /\ UsedSlots' = UsedSlots \cup {s}

\* The first slot of the free list is used.
LEMMA UseFreeEffect ==
    ASSUME ArrayInv, NEW r \in Records, UseFreeIndex(r)
    PROVE  /\ Placed(r, nextFree) /\ Len(cells') = Len(cells)
           /\ nextFree \in FreeSlots /\ FreeSlots' = FreeSlots \ {nextFree}
<1>1. /\ cells \in Seq(Slot) /\ Len(cells) \in Nat /\ nextFree \in Nat
      /\ FreeSlots \subseteq 1 .. Len(cells) /\ UsedSlots \subseteq 1 .. Len(cells)
  BY SlotFacts DEF ArrayInv, ArrayType
<1>2. nextFree # 0 /\ cells' = [cells EXCEPT ![nextFree] = r]
  BY DEF UseFreeIndex
<1>3. PICK n, p : n \in Nat /\ FreeList(n, p)
  BY DEF ArrayInv, FreeInv
<1> n \in Nat
  BY <1>3
<1>4. nextFree \in FreeSlots
  <2>1. n # 0 /\ nextFree = p[n]
    BY <1>2, <1>3 DEF FreeList
  <2>2. n \in 1 .. n
    BY <1>3, <2>1
  <2> QED
    BY <1>3, <2>1, <2>2 DEF FreeList
<1>5. nextFree \in 1 .. Len(cells) /\ nextFree \notin UsedSlots
  BY <1>1, <1>4 DEF FreeSlots
<1>6. r \in Slot
  BY DEF Slot
<1>7. cells' \in Seq(Slot) /\ Len(cells') = Len(cells)
  BY <1>1, <1>2, <1>5, <1>6
<1>8. /\ cells'[nextFree] = r
      /\ \A j \in 1 .. Len(cells) : j # nextFree => cells'[j] = cells[j]
  BY <1>1, <1>2, <1>5
<1>9. UsedSlots' = UsedSlots \cup {nextFree}
  BY <1>5, <1>7, <1>8 DEF UsedSlots
<1>10. FreeSlots' = FreeSlots \ {nextFree}
  BY <1>7, <1>9 DEF FreeSlots
<1>11. Placed(r, nextFree)
  BY <1>5, <1>7, <1>8, <1>9 DEF Placed
<1> QED
  BY <1>4, <1>7, <1>10, <1>11

\* ... and taken out of the list.
LEMMA UseFreeKeepsList ==
    ASSUME ArrayInv, NEW r \in Records, UseFreeIndex(r)
    PROVE  FreeInv'
<1>1. /\ nextFree \in FreeSlots /\ FreeSlots' = FreeSlots \ {nextFree}
      /\ \A j \in FreeSlots : j # nextFree => cells'[j] = cells[j]
      /\ nextFree' = IF cells[nextFree] = nextFree THEN 0 ELSE cells[nextFree]
  BY UseFreeEffect DEF UseFreeIndex, Placed, FreeSlots
<1>2. PICK n, p : n \in Nat /\ FreeList(n, p)
  BY DEF ArrayInv, FreeInv
<1> n \in Nat
  BY <1>2
<1>3. n # 0 /\ nextFree = p[n] /\ n \in 1 .. n /\ n - 1 \in Nat
  <2>1. n # 0
    BY <1>2, UseFreeIndex(r) DEF FreeList, UseFreeIndex
  <2> QED
    BY <1>2, <2>1 DEF FreeList
<1>4. 1 .. n - 1 \subseteq 1 .. n /\ \A k \in 1 .. n : k = n \/ k \in 1 .. n - 1
  BY <1>2, <1>3
<1> DEFINE q == [k \in 1 .. n - 1 |-> p[k]]
<1>5. \A k \in 1 .. n - 1 : q[k] = p[k] /\ p[k] \in FreeSlots /\ p[k] # p[n]
  <2> SUFFICES ASSUME NEW k \in 1 .. n - 1
               PROVE  q[k] = p[k] /\ p[k] \in FreeSlots /\ p[k] # p[n]
    OBVIOUS
  <2>1. k \in 1 .. n /\ k # n
    BY <1>2, <1>3
  <2> QED
    BY <1>2, <1>3, <2>1 DEF FreeList
<1>6. q \in [1 .. n - 1 -> FreeSlots']
  BY <1>1, <1>3, <1>5
<1> HIDE DEF q
<1>7. \A k \in 1 .. n - 1 : cells'[q[k]] = (IF k = 1 THEN q[1] ELSE q[k - 1])
  <2> SUFFICES ASSUME NEW k \in 1 .. n - 1
               PROVE  cells'[q[k]] = (IF k = 1 THEN q[1] ELSE q[k - 1])
    OBVIOUS
  <2>1. cells'[q[k]] = cells[p[k]] /\ q[k] = p[k] /\ k \in 1 .. n
    BY <1>1, <1>3, <1>4, <1>5
  <2>2. cells[p[k]] = IF k = 1 THEN p[1] ELSE p[k - 1]
    BY <1>2, <2>1 DEF FreeList
  <2>3. CASE k = 1
    BY <2>1, <2>2, <2>3
  <2>4. CASE k # 1
    <3>1. k - 1 \in 1 .. n - 1
      BY <1>2, <2>4
    <3> QED
      BY <1>5, <2>1, <2>2, <2>4, <3>1
  <2> QED
    BY <2>3, <2>4
<1>8. \A j, k \in 1 .. n - 1 : q[j] = q[k] => j = k
  BY <1>2, <1>4, <1>5 DEF FreeList
<1>9. \A x \in FreeSlots' : \E k \in 1 .. n - 1 : q[k] = x
  BY <1>1, <1>2, <1>3, <1>4, <1>5 DEF FreeList
<1>10. nextFree' = (IF n - 1 = 0 THEN 0 ELSE q[n - 1])
  <2>1. cells[nextFree] = IF n = 1 THEN p[1] ELSE p[n - 1]
    BY <1>2, <1>3 DEF FreeList
  <2>2. CASE n = 1
    BY <1>1, <1>3, <2>1, <2>2
  <2>3. CASE n # 1
    <3>1. n - 1 \in 1 .. n - 1 /\ n - 1 # 0
      BY <1>3, <2>3
    <3>2. cells[nextFree] = q[n - 1] /\ cells[nextFree] # nextFree
      BY <1>3, <1>5, <2>1, <2>3, <3>1
    <3> QED
      BY <1>1, <3>1, <3>2
  <2> QED
    BY <2>2, <2>3
<1>11. FreeList(n - 1, q)'
  BY <1>6, <1>7, <1>8, <1>9, <1>10 DEF FreeList
<1> QED
  BY <1>3, <1>11 DEF FreeInv

\* push_back makes a new slot; there is no free one before or after.
LEMMA PushEffect ==
    ASSUME ArrayInv, NEW r \in Records, nextFree = 0, cells' = Append(cells, r),
           nextFree' = nextFree
    PROVE  /\ Placed(r, Len(cells) + 1) /\ Len(cells') = Len(cells) + 1
           /\ FreeSlots = {} /\ UsedSlots = 1 .. Len(cells) /\ FreeInv'
<1>1. cells \in Seq(Slot) /\ Len(cells) \in Nat /\ r \in Slot
  BY DEF ArrayInv, ArrayType, Slot
<1>2. FreeSlots = {}
  BY <1>1, NoFreeSlot DEF ArrayInv
<1>3. UsedSlots = 1 .. Len(cells)
  BY <1>2 DEF FreeSlots, UsedSlots
<1>4. /\ cells' \in Seq(Slot) /\ Len(cells') = Len(cells) + 1
      /\ cells'[Len(cells) + 1] = r
      /\ \A j \in 1 .. Len(cells) : cells'[j] = cells[j]
  BY <1>1
<1>5. /\ 1 .. Len(cells') = (1 .. Len(cells)) \cup {Len(cells) + 1}
      /\ Len(cells) + 1 \notin 1 .. Len(cells)
  BY <1>1, <1>4
<1>6. UsedSlots' = UsedSlots \cup {Len(cells) + 1}
  BY <1>3, <1>4, <1>5 DEF UsedSlots
<1>7. FreeSlots' = {}
  BY <1>3, <1>5, <1>6 DEF FreeSlots
<1>8. FreeList(0, <<>>)'
  BY <1>7 DEF FreeList
<1>9. FreeInv'
  BY <1>8 DEF FreeInv
<1>10. Placed(r, Len(cells) + 1)
  BY <1>3, <1>4, <1>5, <1>6 DEF Placed
<1> QED
  BY <1>2, <1>3, <1>4, <1>9, <1>10

------------------------------------------------------------------------------
(* What the operations on the array keep.                                     *)

\* The head of the free list is a slot.
LEMMA HeadIsSlot ==
    ASSUME FreeInv, cells \in Seq(Slot)
    PROVE  nextFree \in 0 .. Len(cells)
<1>1. PICK n, p : n \in Nat /\ FreeList(n, p)
  BY DEF FreeInv
<1> n \in Nat
  BY <1>1
<1>2. CASE n = 0
  BY <1>1, <1>2 DEF FreeList
<1>3. CASE n # 0
  <2>1. n \in 1 .. n
    BY <1>1, <1>3
  <2>2. nextFree \in FreeSlots
    BY <1>1, <1>3, <2>1 DEF FreeList
  <2>3. nextFree \in 1 .. Len(cells)
    BY <2>2, SlotFacts
  <2> QED
    BY <2>3
<1> QED
  BY <1>2, <1>3

\* The type of the array follows from the rest.
LEMMA TypeFollows ==
    ASSUME cells \in Seq(Slot), capacity \in Nat, Len(cells) <= capacity,
           FreeInv, CountInv
    PROVE  ArrayInv
<1>1. nextFree \in 0 .. Len(cells)
  BY HeadIsSlot
<1>2. numUsedCells \in Nat /\ numUsedCells <= Cardinality(Records)
  BY SlotFacts, FewSlots DEF CountInv
<1>3. numUsedCells \in 0 .. IndexRange - 1
  BY <1>2, RecordsCount
<1> QED
  BY <1>1, <1>3 DEF ArrayInv, ArrayType

\* free() keeps the array's invariant.
LEMMA FreeKeepsArray ==
    ASSUME ArrayInv, NEW J \in SUBSET UsedSlots, Free(J), failed' = failed
    PROVE  ArrayInv'
<1>1. /\ cells' \in Seq(Slot) /\ Len(cells') = Len(cells)
      /\ UsedSlots' = UsedSlots \ J
      /\ \A j \in 1 .. Len(cells) : j \notin J => cells'[j] = cells[j]
  BY FreeEffect DEF ArrayInv
<1>2. UsedSlots \subseteq 1 .. Len(cells) /\ IsFiniteSet(UsedSlots)
  BY SlotFacts DEF ArrayInv, ArrayType
<1>3. OneSlot'
  BY <1>1, <1>2 DEF ArrayInv, CountInv, OneSlot
<1>4. /\ Cardinality(UsedSlots') = Cardinality(UsedSlots) - Cardinality(J)
      /\ Cardinality(J) \in Nat /\ Cardinality(UsedSlots') \in Nat
  <2>1. UsedSlots \cap J = J /\ IsFiniteSet(J)
    BY <1>2, FS_Subset
  <2>2. /\ IsFiniteSet(UsedSlots \ J)
        /\ Cardinality(UsedSlots \ J) = Cardinality(UsedSlots) - Cardinality(J)
    BY <1>2, <2>1, FS_Difference
  <2> QED
    BY <1>1, <2>1, <2>2, FS_CardinalityType
<1>5. numUsedCells' = Cardinality(UsedSlots') + Cardinality(failed)
  <2>1. numUsedCells' = (numUsedCells - Cardinality(J)) % IndexRange
    BY DEF Free
  <2>2. /\ numUsedCells = Cardinality(UsedSlots) + Cardinality(failed)
        /\ numUsedCells \in 0 .. IndexRange - 1 /\ Cardinality(failed) \in Nat
    BY FewSlots DEF ArrayInv, CountInv, ArrayType
  <2>3. Cardinality(UsedSlots) \in Nat
    BY <1>2, FS_CardinalityType
  <2>4. /\ numUsedCells - Cardinality(J) = Cardinality(UsedSlots') + Cardinality(failed)
        /\ numUsedCells - Cardinality(J) \in 0 .. IndexRange - 1
    BY <1>4, <2>2, <2>3, RecordsCount
  <2> QED
    BY <2>1, <2>4, NoWrap, RecordsCount
<1>6. CountInv'
  <2>1. Apart'
    BY <1>1, <1>2 DEF ArrayInv, CountInv, Apart
  <2> QED
    BY <1>1, <1>3, <1>5, <2>1 DEF ArrayInv, CountInv
<1>7. FreeInv'
  BY FreeKeepsList
<1>8. capacity' \in Nat /\ Len(cells') <= capacity'
  BY <1>1 DEF ArrayInv, ArrayType, Free
<1>9. (cells \in Seq(Slot) /\ capacity \in Nat /\ Len(cells) <= capacity
         /\ FreeInv /\ CountInv => ArrayInv)'
  BY TypeFollows, PTL
<1> QED
  BY <1>1, <1>6, <1>7, <1>8, <1>9

\* A record that is in no slot is put into one.
LEMMA PlacingCounts ==
    ASSUME ArrayInv, NEW r \in Records, ~InSlot(r), NEW s, Placed(r, s),
           r \notin failed, failed' = failed,
           numUsedCells' = (numUsedCells + 1) % IndexRange
    PROVE  /\ numUsedCells' = Cardinality(UsedSlots') + Cardinality(failed)
           /\ Cardinality(UsedSlots) + 1 <= Cardinality(Records)
           /\ OneSlot' /\ Apart'
<1>1. /\ UsedSlots' = UsedSlots \cup {s} /\ s \notin UsedSlots
      /\ cells' \in Seq(Slot) /\ cells'[s] = r
      /\ \A j \in UsedSlots : cells'[j] = cells[j] /\ cells[j] # r
  BY SlotFacts DEF Placed, InSlot, ArrayInv, ArrayType
<1>2. OneSlot'
  BY <1>1 DEF ArrayInv, CountInv, OneSlot
<1>3. IsFiniteSet(UsedSlots) /\ Cardinality(UsedSlots) \in Nat
  BY SlotFacts DEF ArrayInv, ArrayType
<1>4. Cardinality(UsedSlots') = Cardinality(UsedSlots) + 1
  BY <1>1, <1>3, FS_AddElement
<1>5. Apart'
  BY <1>1 DEF ArrayInv, CountInv, Apart
<1>6. (cells \in Seq(Slot) /\ OneSlot /\ Apart
         => /\ Cardinality(failed) \in Nat
            /\ Cardinality(UsedSlots) + Cardinality(failed) <= Cardinality(Records))'
  BY FewSlots, PTL
<1>7. /\ Cardinality(failed) \in Nat
      /\ Cardinality(UsedSlots) + 1 + Cardinality(failed) <= Cardinality(Records)
  BY <1>1, <1>2, <1>3, <1>4, <1>5, <1>6
<1>8. (numUsedCells + 1) % IndexRange = Cardinality(UsedSlots) + Cardinality(failed) + 1
  <2>1. numUsedCells + 1 = Cardinality(UsedSlots) + Cardinality(failed) + 1
    BY DEF ArrayInv, CountInv
  <2>2. numUsedCells + 1 \in 0 .. IndexRange - 1
    BY <1>3, <1>7, <2>1, RecordsCount
  <2> QED
    BY <2>1, <2>2, NoWrap, RecordsCount
<1> QED
  BY <1>2, <1>3, <1>4, <1>5, <1>7, <1>8, RecordsCount

\* Registering a record keeps the array's invariant.
LEMMA PlacingKeepsArray ==
    ASSUME ArrayInv, NEW r \in Records, ~InSlot(r), r \notin failed, failed' = failed,
           numUsedCells' = (numUsedCells + 1) % IndexRange,
           UseFreeIndex(r) \/ PushWithinCapacity(r) \/ PushGrowing(r)
    PROVE  ArrayInv'
<1>1. Len(cells) \in Nat /\ capacity \in Nat /\ Len(cells) <= capacity
  BY SlotFacts DEF ArrayInv, ArrayType
<1>2. (cells \in Seq(Slot) /\ capacity \in Nat /\ Len(cells) <= capacity
         /\ FreeInv /\ CountInv => ArrayInv)'
  BY TypeFollows, PTL
<1>3. CASE UseFreeIndex(r)
  <2>1. Placed(r, nextFree) /\ Len(cells') = Len(cells) /\ capacity' = capacity
    BY <1>3, UseFreeEffect DEF UseFreeIndex
  <2>2. CountInv'
    BY <2>1, PlacingCounts DEF ArrayInv, CountInv
  <2>3. FreeInv'
    BY <1>3, UseFreeKeepsList
  <2> QED
    BY <1>1, <1>2, <2>1, <2>2, <2>3 DEF Placed
<1>4. CASE PushWithinCapacity(r) \/ PushGrowing(r)
  <2>1. nextFree = 0 /\ cells' = Append(cells, r) /\ nextFree' = nextFree
    BY <1>4 DEF PushWithinCapacity, PushGrowing
  <2>2. /\ Placed(r, Len(cells) + 1) /\ Len(cells') = Len(cells) + 1
        /\ UsedSlots = 1 .. Len(cells) /\ FreeInv'
    BY <2>1, PushEffect
  <2>3. Cardinality(UsedSlots) = Len(cells)
    <3>1. 1 \in Int /\ Len(cells) \in Int
      BY <1>1
    <3>2. Cardinality(1 .. Len(cells)) =
            IF 1 > Len(cells) THEN 0 ELSE Len(cells) - 1 + 1
      BY <3>1, FS_Interval
    <3> QED
      BY <1>1, <2>2, <3>2
  <2>4. CountInv'
    <3>1. Len(cells') <= Cardinality(Records)
      BY <2>2, <2>3, PlacingCounts
    <3> QED
      BY <2>2, <3>1, PlacingCounts DEF CountInv
  <2>5. capacity' \in Nat /\ Len(cells') <= capacity'
    <3>1. CASE PushWithinCapacity(r)
      <4>1. /\ capacity = 0 \/ Len(cells) < capacity
            /\ capacity' = IF capacity = 0 THEN kInitCapacity ELSE capacity
        BY <3>1 DEF PushWithinCapacity
      <4>2. kInitCapacity \in Nat /\ kInitCapacity >= 1
        BY SizeAssumption
      <4> QED
        BY <1>1, <2>2, <4>1, <4>2
    <3>2. CASE PushGrowing(r)
      BY <1>1, <2>2, <3>2 DEF PushGrowing
    <3> QED
      BY <1>4, <3>1, <3>2
  <2> QED
    BY <1>2, <2>2, <2>4, <2>5 DEF Placed
<1> QED
  BY <1>3, <1>4

\* The larger of two numbers.
LEMMA MaxOfTwo ==
    ASSUME NEW a \in Nat, NEW b \in Nat
    PROVE  Max({a, b}) \in Nat /\ Max({a, b}) >= a /\ Max({a, b}) >= b
<1>1. CASE a <= b
  <2>1. Max({a, b}) = b
    BY <1>1, MaxIs
  <2> QED
    BY <1>1, <2>1
<1>2. CASE b <= a
  <2>1. Max({a, b}) = a
    BY <1>2, MaxIs
  <2> QED
    BY <1>2, <2>1
<1> QED
  BY <1>1, <1>2

\* The smaller array has room for the records: twice their number has not
\* wrapped around.
LEMMA RoomForRecords ==
    ASSUME ArrayInv, WorthShrinking
    PROVE  NewSize \in Nat /\ numUsedCells <= NewSize
<1>1. /\ cells \in Seq(Slot) /\ Len(cells) \in Nat /\ numUsedCells \in Nat
      /\ Len(cells) <= Cardinality(Records)
  BY DEF ArrayInv, ArrayType, CountInv
<1>2. 2 * numUsedCells \in 0 .. IndexRange - 1
  <2>1. CASE numUsedCells = 0
    BY <2>1, RecordsCount
  <2>2. CASE 4 * numUsedCells < Len(cells)
    BY <1>1, <2>2, RecordsCount
  <2> QED
    BY <2>1, <2>2 DEF WorthShrinking
<1>3. (2 * numUsedCells) % IndexRange = 2 * numUsedCells
  BY <1>1, <1>2, RecordsCount
<1>4. kInitCapacity \in Nat /\ 2 * numUsedCells \in Nat
  BY <1>1, SizeAssumption
<1>5. NewSize \in Nat /\ NewSize >= 2 * numUsedCells
  BY <1>3, <1>4, MaxOfTwo DEF NewSize
<1> QED
  BY <1>1, <1>5

\* tryShrink() keeps the array's invariant, and every record in a slot.
LEMMA ShrinkKeepsArray ==
    ASSUME ArrayInv, WorthShrinking, Shrink, failed' = failed
    PROVE  ArrayInv' /\ \A r \in Records : InSlot(r)' <=> InSlot(r)
<1> DEFINE n == Cardinality(UsedSlots)
<1>1. /\ cells \in Seq(Slot) /\ n \in Nat /\ OneSlot /\ Apart
      /\ numUsedCells = n + Cardinality(failed) /\ Cardinality(failed) \in Nat
      /\ IsFiniteSet(UsedSlots) /\ UsedSlots \subseteq 1 .. Len(cells)
      /\ \A j \in UsedSlots : cells[j] \in Records
  BY SlotFacts, FewSlots DEF ArrayInv, ArrayType, CountInv
<1>2. PICK p \in [1 .. n -> UsedSlots] :
        /\ \A j, k \in 1 .. n : j < k => p[j] < p[k]
        /\ cells' = [k \in 1 .. n |-> cells[p[k]]]
  BY DEF Shrink, CopiedRecords
<1> HIDE DEF n
<1>3. \A k \in 1 .. n : p[k] \in UsedSlots /\ p[k] \in Nat /\ cells[p[k]] \in Records
  <2>1. \A k \in 1 .. n : p[k] \in UsedSlots
    BY <1>2
  <2>2. \A j \in UsedSlots : j \in Nat
    BY <1>1
  <2> QED
    BY <1>1, <2>1, <2>2
<1>4. \A j, k \in 1 .. n : p[j] = p[k] => j = k
  <2> SUFFICES ASSUME NEW j \in 1 .. n, NEW k \in 1 .. n, p[j] = p[k]
               PROVE  j = k
    OBVIOUS
  <2>1. ~(p[j] < p[k]) /\ ~(p[k] < p[j])
    BY <1>3
  <2>2. ~(j < k) /\ ~(k < j)
    BY <1>2, <2>1
  <2> QED
    BY <1>1, <2>2
<1>5. p \in Injection(1 .. n, UsedSlots)
  BY <1>2, <1>4 DEF Injection, IsInjective
<1>6. Cardinality(1 .. n) = n
  <2>1. 1 \in Int /\ n \in Int
    BY <1>1
  <2>2. Cardinality(1 .. n) = IF 1 > n THEN 0 ELSE n - 1 + 1
    BY <2>1, FS_Interval
  <2> QED
    BY <1>1, <2>2
<1>7. p \in Surjection(1 .. n, UsedSlots)
  <2>1. Cardinality(1 .. n) = Cardinality(UsedSlots)
    BY <1>6 DEF n
  <2> QED
    BY <1>1, <1>5, <2>1, FS_Injection
<1>8. \A j \in UsedSlots : \E k \in 1 .. n : p[k] = j
  BY <1>7 DEF Surjection
<1>9. cells' \in Seq(Slot) /\ Len(cells') = n
  <2>1. \A k \in 1 .. n : cells[p[k]] \in Slot
    BY <1>3 DEF Slot
  <2>2. cells' \in [1 .. n -> Slot]
    BY <1>2, <2>1
  <2> QED
    BY <1>1, <2>2, SeqDef
<1>10. \A k \in 1 .. n : cells'[k] = cells[p[k]] /\ cells'[k] \in Records
  BY <1>2, <1>3
<1>11. UsedSlots' = 1 .. n /\ FreeSlots' = {}
  BY <1>9, <1>10 DEF UsedSlots, FreeSlots
<1>12. FreeInv'
  <2>1. FreeList(0, <<>>)'
    BY <1>11 DEF FreeList, Shrink
  <2> QED
    BY <2>1 DEF FreeInv
<1>13. CountInv'
  <2>1. n <= Cardinality(Records)
    <3>1. Cardinality(UsedSlots) + Cardinality(failed) <= Cardinality(Records)
      BY <1>1, FewSlots
    <3> QED
      BY <1>1, <3>1, RecordsCount DEF n
  <2>2. OneSlot'
    BY <1>1, <1>3, <1>4, <1>10, <1>11 DEF OneSlot
  <2>3. numUsedCells' = Cardinality(UsedSlots') + Cardinality(failed')
    BY <1>1, <1>6, <1>11 DEF Shrink
  <2>4. Apart'
    BY <1>1, <1>3, <1>10, <1>11 DEF Apart
  <2> QED
    BY <1>9, <2>1, <2>2, <2>3, <2>4 DEF CountInv
<1>14. capacity' \in Nat /\ Len(cells') <= capacity'
  BY <1>1, <1>9, RoomForRecords DEF Shrink
<1>15. (cells \in Seq(Slot) /\ capacity \in Nat /\ Len(cells) <= capacity
         /\ FreeInv /\ CountInv => ArrayInv)'
  BY TypeFollows, PTL
<1>16. \A r \in Records : InSlot(r)' <=> InSlot(r)
  <2> SUFFICES ASSUME NEW r \in Records
               PROVE  InSlot(r)' <=> InSlot(r)
    OBVIOUS
  <2>1. ASSUME InSlot(r)
        PROVE  InSlot(r)'
    <3>1. PICK j \in UsedSlots : cells[j] = r
      BY <2>1 DEF InSlot
    <3>2. PICK k \in 1 .. n : p[k] = j
      BY <1>8, <3>1
    <3> QED
      BY <1>10, <1>11, <3>1, <3>2 DEF InSlot
  <2>2. ASSUME InSlot(r)'
        PROVE  InSlot(r)
    <3>1. PICK k \in 1 .. n : cells'[k] = r
      BY <1>11, <2>2 DEF InSlot
    <3> QED
      BY <1>3, <1>10, <3>1 DEF InSlot
  <2> QED
    BY <2>1, <2>2
<1> QED
  BY <1>9, <1>12, <1>13, <1>14, <1>15, <1>16

\* A step that leaves the slots alone.
LEMMA SameCells ==
    ASSUME FreeInv, UNCHANGED <<cells, nextFree>>
    PROVE  /\ UsedSlots' = UsedSlots /\ FreeInv'
           /\ \A r \in Records : InSlot(r)' <=> InSlot(r)
<1>1. UsedSlots' = UsedSlots
  BY DEF UsedSlots
<1>2. FreeSlots' = FreeSlots
  BY <1>1 DEF FreeSlots
<1>3. FreeInv'
  <2>1. PICK n, p : n \in Nat /\ FreeList(n, p)
    BY DEF FreeInv
  <2> n \in Nat
    BY <2>1
  <2>2. FreeList(n, p)'
    BY <1>2, <2>1 DEF FreeList
  <2> QED
    BY <2>1, <2>2 DEF FreeInv
<1> QED
  BY <1>1, <1>3 DEF InSlot

\* A step that leaves the array alone.
LEMMA SameArray ==
    ASSUME ArrayInv, UNCHANGED arrayVars, UNCHANGED historyVars
    PROVE  /\ ArrayInv' /\ UsedSlots' = UsedSlots
           /\ \A r \in Records : InSlot(r)' <=> InSlot(r)
<1>1. cells' = cells /\ capacity' = capacity /\ nextFree' = nextFree
      /\ numUsedCells' = numUsedCells /\ failed' = failed
  BY DEF arrayVars, historyVars
<1>2. /\ UsedSlots' = UsedSlots /\ FreeInv'
      /\ \A r \in Records : InSlot(r)' <=> InSlot(r)
  BY <1>1, SameCells DEF ArrayInv
<1>3. CountInv'
  BY <1>1, <1>2 DEF ArrayInv, CountInv, OneSlot, Apart
<1>4. ArrayType'
  BY <1>1 DEF ArrayInv, ArrayType
<1> QED
  BY <1>2, <1>3, <1>4 DEF ArrayInv

\* A step that leaves every record in its state.
LEMMA SameFates ==
    ASSUME FateInv, UNCHANGED historyVars, dead \subseteq dead',
           \A r \in Records : InSlot(r)' <=> InSlot(r)
    PROVE  FateInv'
<1>1. registered' = registered /\ unregistered' = unregistered /\ called' = called
  BY DEF historyVars
<1> SUFFICES ASSUME NEW r \in Records
             PROVE  /\ r \in registered' <=>
                         InSlot(r)' \/ r \in unregistered' \/ called'[r] = 1
                    /\ InSlot(r)' => r \notin unregistered'
                    /\ \/ called'[r] = 0
                       \/ /\ called'[r] = 1 /\ r \in dead'
                          /\ r \notin unregistered' /\ ~InSlot(r)'
  BY DEF FateInv
<1>2. InSlot(r)' <=> InSlot(r)
  OBVIOUS
<1>3. /\ r \in registered <=> InSlot(r) \/ r \in unregistered \/ called[r] = 1
      /\ InSlot(r) => r \notin unregistered
      /\ \/ called[r] = 0
         \/ called[r] = 1 /\ r \in dead /\ r \notin unregistered /\ ~InSlot(r)
  BY DEF FateInv
<1> QED
  BY <1>1, <1>2, <1>3

------------------------------------------------------------------------------
(* The steps.                                                                 *)

\* There is nothing at first.
LEMMA InitHolds == Init => IInv
<1> SUFFICES ASSUME Init
             PROVE  IInv
  OBVIOUS
<1> USE DEF Init
<1>1. UsedSlots = {} /\ FreeSlots = {} /\ \A r : ~InSlot(r)
  BY DEF UsedSlots, FreeSlots, InSlot
<1>2. FreeInv
  <2>1. FreeList(0, <<>>)
    BY <1>1 DEF FreeList
  <2> QED
    BY <2>1 DEF FreeInv
<1>3. CountInv
  BY <1>1, RecordsCount, FS_EmptySet DEF CountInv, OneSlot, Apart
<1>4. ArrayInv
  BY <1>2, <1>3, TypeFollows
<1>5. LoopType
  <2>1. lvCells \in Seq(Slot) /\ pc \in {"idle", "loop", "callback"} /\ i \in Nat
    OBVIOUS
  <2>2. token \in [Records -> Tokens \cup {None}] /\ called \in [Records -> Nat]
    OBVIOUS
  <2>3. detached \in BOOLEAN
    OBVIOUS
  <2>4. /\ dead \subseteq registered /\ registered \subseteq Records
        /\ unregistered \subseteq Records /\ due \subseteq Records
        /\ failed \subseteq Records \ registered
    OBVIOUS
  <2> QED
    BY <2>1, <2>2, <2>3, <2>4 DEF LoopType
<1>6. FateInv
  <2>1. \A r \in Records : called[r] = 0
    OBVIOUS
  <2> QED
    BY <1>1, <2>1 DEF FateInv
<1>7. CleanupInv
  BY DEF CleanupInv
<1> QED
  BY <1>4, <1>5, <1>6, <1>7 DEF IInv

\* What is pending stays pending when its slot keeps it and the border stays.
LEMMA StaysPending ==
    ASSUME NEW r, NEW j \in UsedSlots, cells[j] = r, j >= Border,
           detached => j <= Len(lvCells),
           j \in UsedSlots', cells'[j] = cells[j], Border' = Border,
           detached' => (detached /\ lvCells' = lvCells) \/ j <= Len(lvCells')
    PROVE  Pending(r)'
BY DEF Pending

\* register(): the record is put into a slot that the loop has passed, or
\* behind the array that it reads.
LEMMA RegisterKeeps ==
    ASSUME IInv, NEW r \in Records, NEW t \in Tokens \cup {None}, RegisterCell(r, t)
    PROVE  IInv'
<1>1. /\ r \notin registered \cup failed /\ registered' = registered \cup {r}
      /\ UNCHANGED <<pc, i, due, dead, unregistered, called, failed>>
      /\ token' = [token EXCEPT ![r] = t]
      /\ numUsedCells' = (numUsedCells + 1) % IndexRange
      /\ UseFreeIndex(r) \/ PushWithinCapacity(r) \/ PushGrowing(r)
      /\ pc \in {"idle", "callback"}
  BY DEF RegisterCell, ProgramRuns
<1>2. ~InSlot(r) /\ r \notin unregistered /\ called[r] = 0
  BY <1>1 DEF IInv, FateInv
<1>3. ArrayInv'
  BY <1>1, <1>2, PlacingKeepsArray DEF IInv
<1>4. /\ cells \in Seq(Slot) /\ Len(cells) \in Nat
      /\ UsedSlots \subseteq 1 .. Len(cells) /\ i \in Nat
  BY SlotFacts DEF IInv, ArrayInv, ArrayType, LoopType
<1>5. PICK s : /\ Placed(r, s)
               /\ \/ UseFreeIndex(r) /\ s \in FreeSlots /\ Len(cells') = Len(cells)
                  \/ /\ s = Len(cells) + 1 /\ Len(cells') = Len(cells) + 1
                     /\ UsedSlots = 1 .. Len(cells)
                     /\ PushWithinCapacity(r) \/ PushGrowing(r)
  <2>1. CASE UseFreeIndex(r)
    BY <2>1, UseFreeEffect DEF IInv
  <2>2. CASE PushWithinCapacity(r) \/ PushGrowing(r)
    <3>1. nextFree = 0 /\ cells' = Append(cells, r) /\ nextFree' = nextFree
      BY <2>2 DEF PushWithinCapacity, PushGrowing
    <3> QED
      BY <2>2, <3>1, PushEffect DEF IInv
  <2> QED
    BY <1>1, <2>1, <2>2
<1>6. /\ s \notin UsedSlots /\ cells'[s] = r /\ UsedSlots' = UsedSlots \cup {s}
      /\ \A j \in 1 .. Len(cells) : j # s => cells'[j] = cells[j]
      /\ \A j \in 1 .. Len(cells') : j = s \/ j \in 1 .. Len(cells)
  BY <1>5 DEF Placed
<1>7. \A q \in Records : InSlot(q)' <=> InSlot(q) \/ q = r
  <2>1. \A j \in UsedSlots : cells'[j] = cells[j]
    BY <1>4, <1>6
  <2> QED
    BY <1>6, <2>1 DEF InSlot
<1>8. \/ detached' = detached /\ lvCells' = lvCells
      \/ /\ PushGrowing(r) /\ pc = "callback" /\ ~detached
         /\ detached' = TRUE /\ lvCells' = cells
  BY <1>1 DEF UseFreeIndex, PushWithinCapacity, PushGrowing
<1>9. LoopType'
  <2>1. lvCells' \in Seq(Slot) /\ detached' \in BOOLEAN
    BY <1>4, <1>8 DEF IInv, LoopType
  <2>2. token' \in [Records -> Tokens \cup {None}]
    BY <1>1 DEF IInv, LoopType
  <2> QED
    BY <1>1, <2>1, <2>2 DEF IInv, LoopType
<1>10. FateInv'
  <2> SUFFICES ASSUME NEW q \in Records
               PROVE  /\ q \in registered' <=>
                           InSlot(q)' \/ q \in unregistered' \/ called'[q] = 1
                      /\ InSlot(q)' => q \notin unregistered'
                      /\ \/ called'[q] = 0
                         \/ /\ called'[q] = 1 /\ q \in dead'
                            /\ q \notin unregistered' /\ ~InSlot(q)'
    BY DEF FateInv
  <2>1. InSlot(q)' <=> InSlot(q) \/ q = r
    BY <1>7
  <2>2. /\ q \in registered <=> InSlot(q) \/ q \in unregistered \/ called[q] = 1
        /\ InSlot(q) => q \notin unregistered
        /\ \/ called[q] = 0
           \/ called[q] = 1 /\ q \in dead /\ q \notin unregistered /\ ~InSlot(q)
    BY DEF IInv, FateInv
  <2> QED
    BY <1>1, <1>2, <2>1, <2>2
<1>11. Border' = Border /\ Border \in Nat
  BY <1>1, <1>4 DEF Border
<1>12. \A q : Pending(q) => Pending(q)'
  <2> SUFFICES ASSUME NEW q, Pending(q)
               PROVE  Pending(q)'
    OBVIOUS
  <2>1. PICK j \in UsedSlots :
          cells[j] = q /\ j >= Border /\ (detached => j <= Len(lvCells))
    BY DEF Pending
  <2>2. j \in 1 .. Len(cells) /\ j # s /\ j \in UsedSlots' /\ cells'[j] = cells[j]
    BY <1>4, <1>6
  <2>3. detached' => (detached /\ lvCells' = lvCells) \/ j <= Len(lvCells')
    <3>1. CASE detached' = detached /\ lvCells' = lvCells
      BY <3>1
    <3>2. CASE lvCells' = cells
      BY <1>4, <2>2, <3>2
    <3> QED
      BY <1>8, <3>1, <3>2
  <2> QED
    BY <1>11, <2>1, <2>2, <2>3, StaysPending
<1>13. ASSUME detached'
       PROVE  /\ Len(lvCells') <= Len(cells')
              /\ \A j \in 1 .. Len(cells') : j >= Border => cells'[j] \in Records
              /\ \A j \in 1 .. Len(lvCells') : j >= Border => cells'[j] = lvCells'[j]
  <2>1. CASE detached' = detached /\ lvCells' = lvCells
    <3>1. /\ Len(lvCells) <= Len(cells) /\ Len(lvCells) \in Nat
          /\ \A j \in 1 .. Len(cells) : j >= Border => cells[j] \in Records
          /\ \A j \in 1 .. Len(lvCells) : j >= Border => cells[j] = lvCells[j]
      BY <1>13, <2>1 DEF IInv, CleanupInv, LoopType
    <3>2. s \in FreeSlots => s \in 1 .. Len(cells) /\ ~(s >= Border)
      BY <1>6, <3>1 DEF FreeSlots, UsedSlots
    <3>3. \A j \in 1 .. Len(lvCells) : j \in 1 .. Len(cells)
      BY <1>4, <3>1
    <3>4. \A j \in 1 .. Len(lvCells) : j >= Border => cells'[j] = lvCells[j]
      <4> SUFFICES ASSUME NEW j \in 1 .. Len(lvCells), j >= Border
                   PROVE  cells'[j] = lvCells[j]
        OBVIOUS
      <4>1. j # s
        BY <1>4, <1>5, <3>2, <3>3
      <4> QED
        BY <1>6, <3>1, <3>3, <4>1
    <3>5. \A j \in 1 .. Len(cells') : j >= Border => cells'[j] \in Records
      BY <1>6, <3>1
    <3>6. Len(lvCells) <= Len(cells')
      BY <1>4, <1>5, <3>1
    <3> QED
      BY <2>1, <3>4, <3>5, <3>6
  <2>2. CASE /\ PushGrowing(r) /\ pc = "callback" /\ ~detached
             /\ detached' = TRUE /\ lvCells' = cells
    <3>1. nextFree = 0 /\ cells' = Append(cells, r) /\ nextFree' = nextFree
      BY <2>2 DEF PushGrowing
    <3>2. /\ Len(cells') = Len(cells) + 1 /\ UsedSlots = 1 .. Len(cells)
          /\ Placed(r, Len(cells) + 1)
      BY <3>1, PushEffect DEF IInv
    <3>3. \A j \in 1 .. Len(cells) : cells'[j] = cells[j] /\ cells[j] \in Records
      BY <3>1, <3>2, <1>4 DEF UsedSlots
    <3>4. cells'[Len(cells) + 1] = r
      BY <3>2 DEF Placed
    <3>5. \A j \in 1 .. Len(cells') : j = Len(cells) + 1 \/ j \in 1 .. Len(cells)
      BY <1>4, <3>2
    <3> QED
      BY <1>4, <2>2, <3>2, <3>3, <3>4, <3>5
  <2> QED
    BY <1>8, <2>1, <2>2
<1>14. CleanupInv'
  <2>1. pc' = "idle" => due' = {} /\ ~detached'
    BY <1>1, <1>8 DEF IInv, CleanupInv
  <2>2. (pc' # "idle" => i' >= 1) /\ due' \subseteq dead'
    BY <1>1 DEF IInv, CleanupInv
  <2>3. \A q \in due' : called'[q] > 0 \/ q \in unregistered' \/ Pending(q)'
    BY <1>1, <1>12 DEF IInv, CleanupInv
  <2> QED
    BY <1>11, <1>13, <2>1, <2>2, <2>3 DEF CleanupInv
<1> QED
  BY <1>3, <1>9, <1>10, <1>14 DEF IInv

\* A step of the loop variables or the collector leaves what is pending.
LEMMA SamePending ==
    ASSUME UNCHANGED <<cells, pc, i, detached, lvCells>>, NEW r, Pending(r)
    PROVE  Pending(r)'
<1>1. UsedSlots' = UsedSlots /\ Border' = Border
  BY DEF UsedSlots, Border
<1> QED
  BY <1>1 DEF Pending

\* register() throws because the array cannot grow: the record is counted.
LEMMA FailingKeeps ==
    ASSUME IInv, NEW r \in Records, RegisterFails(r)
    PROVE  IInv'
<1>1. /\ r \notin registered /\ r \notin failed /\ failed' = failed \cup {r}
      /\ numUsedCells' = (numUsedCells + 1) % IndexRange
      /\ UNCHANGED <<cells, capacity, nextFree, pc, i, detached, lvCells, due>>
      /\ UNCHANGED <<token, dead, registered, unregistered, called>>
  BY DEF RegisterFails, loopVars
<1>2. ~InSlot(r)
  BY <1>1 DEF IInv, FateInv
<1>3. /\ UsedSlots' = UsedSlots /\ FreeInv'
      /\ \A q \in Records : InSlot(q)' <=> InSlot(q)
  BY <1>1, SameCells DEF IInv, ArrayInv
<1>4. cells \in Seq(Slot) /\ OneSlot /\ Apart /\ OneSlot' /\ Apart'
  <2>1. \A j \in UsedSlots : cells[j] # r
    BY <1>2 DEF InSlot
  <2> QED
    BY <1>1, <1>3, <2>1 DEF IInv, ArrayInv, ArrayType, CountInv, OneSlot, Apart
<1>5. CountInv'
  <2>1. /\ Cardinality(UsedSlots) \in Nat /\ Cardinality(failed) \in Nat
        /\ numUsedCells = Cardinality(UsedSlots) + Cardinality(failed)
    BY <1>4, SlotFacts, FewSlots DEF IInv, ArrayInv, CountInv
  <2>2. Cardinality(failed') = Cardinality(failed) + 1
    <3>1. IsFiniteSet(failed)
      BY <1>4, RecordsAssumption, FS_Subset DEF Apart
    <3> QED
      BY <1>1, <3>1, FS_AddElement
  <2>3. (cells \in Seq(Slot) /\ OneSlot /\ Apart
          => Cardinality(UsedSlots) + Cardinality(failed) <= Cardinality(Records))'
    BY FewSlots, PTL
  <2>4. Cardinality(UsedSlots) + Cardinality(failed) + 1 <= Cardinality(Records)
    BY <1>1, <1>3, <1>4, <2>1, <2>2, <2>3
  <2>5. numUsedCells' = Cardinality(UsedSlots) + Cardinality(failed) + 1
    BY <1>1, <2>1, <2>4, RecordsCount
  <2> QED
    BY <1>1, <1>3, <1>4, <2>1, <2>2, <2>5 DEF IInv, ArrayInv, CountInv
<1>6. ArrayInv'
  <2>1. (cells \in Seq(Slot) /\ capacity \in Nat /\ Len(cells) <= capacity
           /\ FreeInv /\ CountInv => ArrayInv)'
    BY TypeFollows, PTL
  <2> QED
    BY <1>1, <1>3, <1>5, <2>1 DEF IInv, ArrayInv, ArrayType
<1>7. LoopType'
  BY <1>1 DEF IInv, LoopType
<1>8. FateInv'
  BY <1>1, <1>3 DEF IInv, FateInv
<1>9. CleanupInv'
  <2>1. Border' = Border /\ \A q \in due : Pending(q) => Pending(q)'
    BY <1>1, SamePending DEF Border
  <2> QED
    BY <1>1, <2>1 DEF IInv, CleanupInv
<1> QED
  BY <1>6, <1>7, <1>8, <1>9 DEF IInv

\* What frees slots of used records: the fates of the records.
LEMMA FreedFates ==
    ASSUME ArrayInv, NEW J \in SUBSET UsedSlots, Free(J)
    PROVE  \A q \in Records :
             InSlot(q)' <=> InSlot(q) /\ ~\E j \in J : cells[j] = q
<1>1. /\ UsedSlots' = UsedSlots \ J /\ UsedSlots \subseteq 1 .. Len(cells)
      /\ \A j \in 1 .. Len(cells) : j \notin J => cells'[j] = cells[j]
  BY FreeEffect, SlotFacts DEF ArrayInv, ArrayType
<1>2. \A j \in UsedSlots' : j \in UsedSlots /\ j \notin J /\ cells'[j] = cells[j]
  BY <1>1
<1> SUFFICES ASSUME NEW q \in Records
             PROVE  InSlot(q)' <=> InSlot(q) /\ ~\E j \in J : cells[j] = q
  OBVIOUS
<1>3. ASSUME InSlot(q)'
      PROVE  InSlot(q) /\ ~\E j \in J : cells[j] = q
  <2>1. PICK k \in UsedSlots' : cells'[k] = q
    BY <1>3 DEF InSlot
  <2>2. k \in UsedSlots /\ k \notin J /\ cells[k] = q
    BY <1>2, <2>1
  <2>3. \A j \in J : cells[j] = q => j = k
    BY <2>2 DEF ArrayInv, CountInv, OneSlot
  <2> QED
    BY <2>2, <2>3 DEF InSlot
<1>4. ASSUME InSlot(q), ~\E j \in J : cells[j] = q
      PROVE  InSlot(q)'
  <2>1. PICK k \in UsedSlots : cells[k] = q
    BY <1>4 DEF InSlot
  <2>2. k \in UsedSlots' /\ cells'[k] = q
    BY <1>1, <1>2, <1>4, <2>1
  <2> QED
    BY <2>2 DEF InSlot
<1> QED
  BY <1>3, <1>4

\* unregister(): the freed records need no call any more.
LEMMA UnregisterKeeps ==
    ASSUME IInv, UnregistersDetached = FALSE, NEW t \in Tokens, UnregisterCells(t)
    PROVE  IInv'
<1> DEFINE J == Matching(t)
<1>1. /\ ~detached /\ Free(J) /\ J \in SUBSET UsedSlots
      /\ unregistered' = unregistered \cup {cells[j] : j \in J}
      /\ UNCHANGED <<pc, i, detached, lvCells, due, token, dead, registered, called>>
      /\ failed' = failed
  BY DEF UnregisterCells, Matching, loopVars
<1> HIDE DEF J
<1>2. ArrayInv'
  BY <1>1, FreeKeepsArray DEF IInv
<1>3. /\ UsedSlots' = UsedSlots \ J /\ UsedSlots \subseteq 1 .. Len(cells)
      /\ \A j \in 1 .. Len(cells) : j \notin J => cells'[j] = cells[j]
      /\ \A j \in UsedSlots : cells[j] \in Records
  BY <1>1, FreeEffect, SlotFacts DEF IInv, ArrayInv, ArrayType
<1>4. LoopType'
  <2>1. unregistered' \subseteq Records
    BY <1>1, <1>3 DEF IInv, LoopType
  <2> QED
    BY <1>1, <2>1 DEF IInv, LoopType
<1>5. FateInv'
  <2> SUFFICES ASSUME NEW q \in Records
               PROVE  /\ q \in registered' <=>
                           InSlot(q)' \/ q \in unregistered' \/ called'[q] = 1
                      /\ InSlot(q)' => q \notin unregistered'
                      /\ \/ called'[q] = 0
                         \/ /\ called'[q] = 1 /\ q \in dead'
                            /\ q \notin unregistered' /\ ~InSlot(q)'
    BY DEF FateInv
  <2> DEFINE Freed == \E j \in J : cells[j] = q
  <2>1. InSlot(q)' <=> InSlot(q) /\ ~Freed
    BY <1>1, FreedFates DEF IInv
  <2>2. q \in unregistered' <=> q \in unregistered \/ Freed
    BY <1>1
  <2>3. Freed => InSlot(q)
    BY <1>1 DEF InSlot
  <2>4. /\ q \in registered <=> InSlot(q) \/ q \in unregistered \/ called[q] = 1
        /\ InSlot(q) => q \notin unregistered
        /\ \/ called[q] = 0
           \/ called[q] = 1 /\ q \in dead /\ q \notin unregistered /\ ~InSlot(q)
    BY DEF IInv, FateInv
  <2> HIDE DEF Freed
  <2>5. registered' = registered /\ called' = called /\ dead' = dead
    BY <1>1
  <2> QED
    BY <2>1, <2>2, <2>3, <2>4, <2>5
<1>6. \A q \in due : called[q] > 0 \/ q \in unregistered' \/ Pending(q)'
  <2> SUFFICES ASSUME NEW q \in due, ~(called[q] > 0), q \notin unregistered'
               PROVE  Pending(q)'
    OBVIOUS
  <2>1. Pending(q)
    BY <1>1 DEF IInv, CleanupInv
  <2>2. PICK j \in UsedSlots : cells[j] = q /\ j >= Border
    BY <2>1 DEF Pending
  <2>3. j \notin J
    BY <1>1, <2>2
  <2>4. j \in UsedSlots' /\ cells'[j] = q /\ Border' = Border /\ ~detached'
    BY <1>1, <1>3, <2>2, <2>3 DEF Border
  <2> QED
    BY <2>2, <2>4 DEF Pending
<1>7. CleanupInv'
  BY <1>1, <1>6 DEF IInv, CleanupInv
<1> QED
  BY <1>2, <1>4, <1>5, <1>7 DEF IInv

\* Targets and tokens die.
LEMMA DeathsKeep ==
    ASSUME IInv,
           \/ \E r \in Records : TargetDies(r)
           \/ \E t \in Tokens : TokenDies(t)
    PROVE  IInv'
<1>1. /\ UNCHANGED <<arrayVars, loopVars, historyVars>>
      /\ dead \subseteq dead' /\ dead' \subseteq registered
      /\ token' \in [Records -> Tokens \cup {None}]
  <2>1. CASE \E r \in Records : TargetDies(r)
    BY <2>1 DEF TargetDies, IInv, LoopType
  <2>2. CASE \E t \in Tokens : TokenDies(t)
    BY <2>2 DEF TokenDies, IInv, LoopType
  <2> QED
    BY <2>1, <2>2
<1>2. /\ UNCHANGED <<cells, pc, i, detached, lvCells, due>>
      /\ UNCHANGED <<registered, unregistered, called, failed>>
  BY <1>1 DEF arrayVars, loopVars, historyVars
<1>3. ArrayInv' /\ \A r \in Records : InSlot(r)' <=> InSlot(r)
  BY <1>1, SameArray DEF IInv
<1>4. LoopType'
  BY <1>1, <1>2 DEF IInv, LoopType
<1>5. FateInv'
  BY <1>1, <1>3, SameFates DEF IInv
<1>6. \A q \in due : Pending(q) => Pending(q)'
  BY <1>2, SamePending
<1>7. Border' = Border
  BY <1>2 DEF Border
<1>8. CleanupInv'
  BY <1>1, <1>2, <1>6, <1>7 DEF IInv, CleanupInv
<1> QED
  BY <1>3, <1>4, <1>5, <1>8 DEF IInv

\* cleanup() begins: what is due is in a slot.
LEMMA StartKeeps ==
    ASSUME IInv, StartCleanup
    PROVE  IInv'
<1>1. /\ pc' = "loop" /\ i' = 1 /\ detached' = FALSE /\ lvCells' = <<>>
      /\ due' = {r \in registered \cap dead : r \notin unregistered /\ called[r] = 0}
      /\ UNCHANGED <<arrayVars, token, dead, historyVars>>
  BY DEF StartCleanup
<1>2. /\ ArrayInv' /\ UsedSlots' = UsedSlots
      /\ \A r \in Records : InSlot(r)' <=> InSlot(r)
  BY <1>1, SameArray DEF IInv
<1>3. cells' = cells /\ UNCHANGED <<registered, unregistered, called, failed>>
  BY <1>1 DEF arrayVars, historyVars
<1>4. LoopType'
  <2>1. lvCells' \in Seq(Slot) /\ pc' \in {"idle", "loop", "callback"} /\ i' \in Nat
    BY <1>1
  <2>2. due' \subseteq Records /\ detached' \in BOOLEAN
    BY <1>1 DEF IInv, LoopType
  <2> QED
    BY <1>1, <1>3, <2>1, <2>2 DEF IInv, LoopType
<1>5. FateInv'
  BY <1>1, <1>2, SameFates DEF IInv
<1>6. \A r \in due' : Pending(r)'
  <2> SUFFICES ASSUME NEW r \in due'
               PROVE  Pending(r)'
    OBVIOUS
  <2>1. r \in Records /\ r \in registered /\ r \notin unregistered /\ called[r] = 0
    BY <1>1 DEF IInv, LoopType
  <2>2. InSlot(r)
    BY <2>1 DEF IInv, FateInv
  <2>3. PICK j \in UsedSlots : cells[j] = r
    BY <2>2 DEF InSlot
  <2>4. j \in 1 .. Len(cells) /\ Len(cells) \in Nat
    BY SlotFacts DEF IInv, ArrayInv, ArrayType
  <2>5. j >= Border' /\ ~detached'
    BY <1>1, <2>4 DEF Border
  <2> QED
    BY <1>2, <1>3, <2>3, <2>5 DEF Pending
<1>7. due' \subseteq dead'
  BY <1>1
<1>8. CleanupInv'
  BY <1>1, <1>6, <1>7 DEF CleanupInv
<1> QED
  BY <1>2, <1>4, <1>5, <1>8 DEF IInv

\* The element that the loop is at, in the array that it reads.
LEMMA AtIndex ==
    ASSUME IInv, pc = "loop", i <= Len(LoopCells)
    PROVE  /\ i \in 1 .. Len(cells) /\ Len(cells) \in Nat
           /\ LoopCells[i] = cells[i]
           /\ LoopCells[i] \in Records => i \in UsedSlots
<1>1. Len(cells) \in Nat /\ Len(lvCells) \in Nat /\ i \in Nat /\ i >= 1 /\ Border = i
  BY DEF IInv, ArrayInv, ArrayType, LoopType, CleanupInv, Border
<1>2. CASE ~detached
  BY <1>1, <1>2 DEF LoopCells, UsedSlots
<1>3. CASE detached
  <2>1. i \in 1 .. Len(lvCells)
    BY <1>1, <1>3 DEF LoopCells
  <2>2. Len(lvCells) <= Len(cells) /\ cells[i] = lvCells[i]
    BY <1>1, <1>3, <2>1 DEF IInv, CleanupInv
  <2> QED
    BY <1>1, <1>3, <2>1, <2>2 DEF LoopCells, UsedSlots
<1> QED
  BY <1>2, <1>3

\* ++i over an element that is not due.
LEMMA SkipKeeps ==
    ASSUME IInv, SkipElement
    PROVE  IInv'
<1>1. /\ pc = "loop" /\ i <= Len(LoopCells) /\ ~IsDue(LoopCells[i]) /\ i' = i + 1
      /\ UNCHANGED <<arrayVars, pc, detached, lvCells, due, token, dead, historyVars>>
  BY DEF SkipElement, NextIndex
<1>2. /\ ArrayInv' /\ UsedSlots' = UsedSlots
      /\ \A r \in Records : InSlot(r)' <=> InSlot(r)
  BY <1>1, SameArray DEF IInv
<1>3. cells' = cells /\ UNCHANGED <<registered, unregistered, called, failed>>
  BY <1>1 DEF arrayVars, historyVars
<1>4. LoopType'
  BY <1>1, <1>3 DEF IInv, LoopType
<1>5. FateInv'
  BY <1>1, <1>2, SameFates DEF IInv
<1>6. i \in Nat /\ i >= 1 /\ Border = i /\ Border' = i + 1
  BY <1>1 DEF IInv, LoopType, CleanupInv, Border
<1>7. UsedSlots \subseteq 1 .. Len(cells)
  BY DEF UsedSlots
<1>8. ASSUME NEW r \in due, Pending(r)
      PROVE  Pending(r)'
  <2>1. PICK j \in UsedSlots :
          cells[j] = r /\ j >= Border /\ (detached => j <= Len(lvCells))
    BY <1>8 DEF Pending
  <2>2. j # i
    <3>1. r \in dead /\ r \in Records
      BY DEF IInv, CleanupInv, LoopType
    <3>2. LoopCells[i] = cells[i]
      BY <1>1, AtIndex
    <3> QED
      BY <1>1, <2>1, <3>1, <3>2 DEF IsDue
  <2>3. j \in Nat
    BY <1>7
  <2>4. j >= Border'
    BY <1>6, <2>1, <2>2, <2>3
  <2> QED
    BY <1>1, <1>2, <1>3, <2>1, <2>4 DEF Pending
<1>9. CleanupInv'
  <2>1. pc' # "idle" /\ i' >= 1 /\ due' \subseteq dead'
    BY <1>1, <1>6 DEF IInv, CleanupInv
  <2>2. \A r \in due' : called'[r] > 0 \/ r \in unregistered' \/ Pending(r)'
    BY <1>1, <1>3, <1>8 DEF IInv, CleanupInv
  <2>3. ASSUME detached'
        PROVE  /\ Len(lvCells') <= Len(cells')
               /\ \A j \in 1 .. Len(cells') : j >= Border' => cells'[j] \in Records
               /\ \A j \in 1 .. Len(lvCells') :
                    j >= Border' => cells'[j] = lvCells'[j]
    <3>1. /\ Len(lvCells) <= Len(cells)
          /\ \A j \in 1 .. Len(cells) : j >= Border => cells[j] \in Records
          /\ \A j \in 1 .. Len(lvCells) : j >= Border => cells[j] = lvCells[j]
      BY <1>1, <2>3 DEF IInv, CleanupInv
    <3>2. \A j \in Int : j >= i + 1 => j >= i
      BY <1>6
    <3> QED
      BY <1>1, <1>3, <1>6, <3>1, <3>2
  <2> QED
    BY <2>1, <2>2, <2>3 DEF CleanupInv
<1> QED
  BY <1>2, <1>4, <1>5, <1>9 DEF IInv

\* The record is freed and called back with: the only slot of it is emptied.
LEMMA CallBackKeeps ==
    ASSUME IInv, CallBack
    PROVE  IInv'
<1>1. /\ pc = "loop" /\ i <= Len(LoopCells) /\ IsDue(LoopCells[i]) /\ Free({i})
      /\ called' = [called EXCEPT ![LoopCells[i]] = @ + 1] /\ pc' = "callback"
      /\ UNCHANGED <<i, detached, lvCells, due, token, dead, registered, unregistered>>
      /\ failed' = failed
  BY DEF CallBack, FreeDead
<1>2. PICK c : c = LoopCells[i]
  OBVIOUS
<1>3. /\ c \in Records /\ c \in dead /\ cells[i] = c /\ i \in UsedSlots
      /\ i \in 1 .. Len(cells)
  BY <1>1, <1>2, AtIndex DEF IsDue
<1>4. ArrayInv'
  BY <1>1, <1>3, FreeKeepsArray DEF IInv
<1>5. /\ UsedSlots' = UsedSlots \ {i} /\ Len(cells') = Len(cells)
      /\ \A j \in 1 .. Len(cells) : j # i => cells'[j] = cells[j]
  <2>1. \A j : j # i <=> j \notin {i}
    OBVIOUS
  <2>2. /\ UsedSlots' = UsedSlots \ {i} /\ Len(cells') = Len(cells)
        /\ \A j \in 1 .. Len(cells) : j \notin {i} => cells'[j] = cells[j]
    BY <1>1, <1>3, FreeEffect DEF IInv, ArrayInv
  <2> QED
    BY <2>1, <2>2
<1>6. InSlot(c) /\ c \notin unregistered /\ called[c] = 0 /\ called'[c] = 1
  <2>1. InSlot(c)
    BY <1>3 DEF InSlot
  <2>2. c \notin unregistered /\ called[c] = 0
    BY <1>3, <2>1 DEF IInv, FateInv
  <2>3. called'[c] = called[c] + 1
    BY <1>1, <1>2, <1>3 DEF IInv, LoopType
  <2> QED
    BY <2>1, <2>2, <2>3
<1>7. \A q \in Records : q # c => called'[q] = called[q]
  BY <1>1, <1>2 DEF IInv, LoopType
<1>8. LoopType'
  <2>1. called' \in [Records -> Nat]
    BY <1>1, <1>2, <1>3 DEF IInv, LoopType
  <2> QED
    BY <1>1, <2>1 DEF IInv, LoopType
<1>9. \A q \in Records : InSlot(q)' <=> InSlot(q) /\ q # c
  <2>1. \A q \in Records : InSlot(q)' <=> InSlot(q) /\ ~\E j \in {i} : cells[j] = q
    BY <1>1, <1>3, FreedFates DEF IInv
  <2> QED
    BY <1>3, <2>1
<1>10. FateInv'
  <2> SUFFICES ASSUME NEW q \in Records
               PROVE  /\ q \in registered' <=>
                           InSlot(q)' \/ q \in unregistered' \/ called'[q] = 1
                      /\ InSlot(q)' => q \notin unregistered'
                      /\ \/ called'[q] = 0
                         \/ /\ called'[q] = 1 /\ q \in dead'
                            /\ q \notin unregistered' /\ ~InSlot(q)'
    BY DEF FateInv
  <2>1. InSlot(q)' <=> InSlot(q) /\ q # c
    BY <1>9
  <2>2. /\ q \in registered <=> InSlot(q) \/ q \in unregistered \/ called[q] = 1
        /\ InSlot(q) => q \notin unregistered
        /\ \/ called[q] = 0
           \/ called[q] = 1 /\ q \in dead /\ q \notin unregistered /\ ~InSlot(q)
    BY DEF IInv, FateInv
  <2>3. registered' = registered /\ unregistered' = unregistered /\ dead' = dead
    BY <1>1
  <2>4. CASE q = c
    BY <1>3, <1>6, <2>1, <2>2, <2>3, <2>4
  <2>5. CASE q # c
    BY <1>7, <2>1, <2>2, <2>3, <2>5
  <2> QED
    BY <2>4, <2>5
<1>11. i \in Nat /\ i >= 1 /\ Border = i /\ Border' = i + 1
  BY <1>1 DEF IInv, LoopType, CleanupInv, Border
<1>12. UsedSlots \subseteq 1 .. Len(cells)
  BY DEF UsedSlots
<1>13. ASSUME NEW r \in due, r # c, Pending(r)
       PROVE  Pending(r)'
  <2>1. PICK j \in UsedSlots :
          cells[j] = r /\ j >= Border /\ (detached => j <= Len(lvCells))
    BY <1>13 DEF Pending
  <2>2. j # i /\ j \in Nat /\ j \in UsedSlots' /\ cells'[j] = r
    BY <1>3, <1>5, <1>12, <1>13, <2>1
  <2>3. j >= Border'
    BY <1>11, <2>1, <2>2
  <2> QED
    BY <1>1, <2>1, <2>2, <2>3 DEF Pending
<1>14. CleanupInv'
  <2>1. pc' # "idle" /\ i' >= 1 /\ due' \subseteq dead'
    BY <1>1, <1>11 DEF IInv, CleanupInv
  <2>2. ASSUME NEW r \in due'
        PROVE  called'[r] > 0 \/ r \in unregistered' \/ Pending(r)'
    <3>1. r \in due /\ r \in Records
      BY <1>1 DEF IInv, LoopType
    <3>2. CASE r = c
      BY <1>6, <3>2
    <3>3. CASE r # c
      BY <1>1, <1>7, <1>13, <3>1, <3>3 DEF IInv, CleanupInv
    <3> QED
      BY <3>2, <3>3
  <2>3. ASSUME detached'
        PROVE  /\ Len(lvCells') <= Len(cells')
               /\ \A j \in 1 .. Len(cells') : j >= Border' => cells'[j] \in Records
               /\ \A j \in 1 .. Len(lvCells') :
                    j >= Border' => cells'[j] = lvCells'[j]
    <3>0. Len(lvCells) \in Nat /\ Len(cells) \in Nat
      BY DEF IInv, LoopType, ArrayInv, ArrayType
    <3>1. /\ Len(lvCells) <= Len(cells)
          /\ \A j \in 1 .. Len(cells) : j >= Border => cells[j] \in Records
          /\ \A j \in 1 .. Len(lvCells) : j >= Border => cells[j] = lvCells[j]
      BY <1>1, <2>3 DEF IInv, CleanupInv
    <3>2. \A j \in Int : j >= i + 1 => j >= i /\ j # i
      BY <1>11
    <3>3. \A j \in 1 .. Len(lvCells) : j \in 1 .. Len(cells)
      BY <3>0, <3>1
    <3>4. \A j \in 1 .. Len(cells) : j >= i + 1 => cells'[j] \in Records
      BY <1>5, <1>11, <3>1, <3>2
    <3>5. \A j \in 1 .. Len(lvCells) : j >= i + 1 => cells'[j] = lvCells[j]
      BY <1>5, <1>11, <3>1, <3>2, <3>3
    <3> QED
      BY <1>1, <1>5, <1>11, <3>1, <3>4, <3>5
  <2> QED
    BY <2>1, <2>2, <2>3 DEF CleanupInv
<1> QED
  BY <1>4, <1>8, <1>10, <1>14 DEF IInv

\* A callback returns: the border is where it was.
LEMMA ReturnKeeps ==
    ASSUME IInv, CallbackReturns
    PROVE  IInv'
<1>1. /\ pc = "callback" /\ pc' = "loop" /\ i' = i + 1
      /\ UNCHANGED <<arrayVars, detached, lvCells, due, token, dead, historyVars>>
  BY DEF CallbackReturns, NextIndex
<1>2. /\ ArrayInv' /\ UsedSlots' = UsedSlots
      /\ \A r \in Records : InSlot(r)' <=> InSlot(r)
  BY <1>1, SameArray DEF IInv
<1>3. cells' = cells /\ UNCHANGED <<registered, unregistered, called, failed>>
  BY <1>1 DEF arrayVars, historyVars
<1>4. LoopType'
  BY <1>1, <1>3 DEF IInv, LoopType
<1>5. FateInv'
  BY <1>1, <1>2, SameFates DEF IInv
<1>6. Border' = Border /\ i \in Nat
  BY <1>1 DEF Border, IInv, LoopType
<1>7. \A r \in due : Pending(r) => Pending(r)'
  BY <1>1, <1>2, <1>3, <1>6 DEF Pending
<1>8. CleanupInv'
  <2>1. pc' # "idle" /\ i' >= 1 /\ due' \subseteq dead'
    BY <1>1, <1>6 DEF IInv, CleanupInv
  <2>2. \A r \in due' : called'[r] > 0 \/ r \in unregistered' \/ Pending(r)'
    BY <1>1, <1>3, <1>7 DEF IInv, CleanupInv
  <2> QED
    BY <1>1, <1>3, <1>6, <2>1, <2>2 DEF IInv, CleanupInv
<1> QED
  BY <1>2, <1>4, <1>5, <1>8 DEF IInv

\* cleanup() is left, with an exception or through tryShrink().
LEMMA LeaveKeeps ==
    ASSUME IInv, CallbackThrows \/ TryShrink
    PROVE  IInv'
<1>1. /\ pc' = "idle" /\ i' = 0 /\ due' = {} /\ detached' = FALSE /\ lvCells' = <<>>
      /\ UNCHANGED <<token, dead, historyVars>>
      /\ (WorthShrinking /\ Shrink) \/ UNCHANGED arrayVars
  BY DEF CallbackThrows, TryShrink, LeaveCleanup
<1>2. ArrayInv' /\ \A r \in Records : InSlot(r)' <=> InSlot(r)
  <2>1. failed' = failed
    BY <1>1 DEF historyVars
  <2> QED
    BY <1>1, <2>1, SameArray, ShrinkKeepsArray DEF IInv
<1>3. UNCHANGED <<registered, unregistered, called, failed>>
  BY <1>1 DEF historyVars
<1>4. LoopType'
  <2>1. lvCells' \in Seq(Slot) /\ pc' \in {"idle", "loop", "callback"} /\ i' \in Nat
    BY <1>1
  <2>2. detached' \in BOOLEAN /\ due' \subseteq Records
    BY <1>1
  <2> QED
    BY <1>1, <1>3, <2>1, <2>2 DEF IInv, LoopType
<1>5. FateInv'
  BY <1>1, <1>2, SameFates DEF IInv
<1>6. CleanupInv'
  BY <1>1 DEF CleanupInv
<1> QED
  BY <1>2, <1>4, <1>5, <1>6 DEF IInv

\* A step that changes nothing.
LEMMA StutterKeeps ==
    ASSUME IInv, UNCHANGED vars
    PROVE  IInv'
<1>1. /\ UNCHANGED <<arrayVars, historyVars, token, dead>>
      /\ UNCHANGED <<cells, pc, i, detached, lvCells, due>>
      /\ UNCHANGED <<registered, unregistered, called, failed>>
  BY DEF vars, arrayVars, loopVars, historyVars
<1>2. ArrayInv' /\ \A r \in Records : InSlot(r)' <=> InSlot(r)
  BY <1>1, SameArray DEF IInv
<1>3. LoopType'
  BY <1>1 DEF IInv, LoopType
<1>4. FateInv'
  BY <1>1, <1>2, SameFates DEF IInv
<1>5. Border' = Border /\ \A q \in due : Pending(q) => Pending(q)'
  BY <1>1, SamePending DEF Border
<1>6. CleanupInv'
  BY <1>1, <1>5 DEF IInv, CleanupInv
<1> QED
  BY <1>2, <1>3, <1>4, <1>6 DEF IInv

\* Every step keeps the invariant.
LEMMA StepKeeps ==
    ASSUME IInv, UnregistersDetached = FALSE, [Next]_vars
    PROVE  IInv'
BY RegisterKeeps, FailingKeeps, UnregisterKeeps, DeathsKeep, StartKeeps, SkipKeeps, CallBackKeeps,
   ReturnKeeps, LeaveKeeps, StutterKeeps DEF Next, Program, Cleanup

------------------------------------------------------------------------------
(* The properties.                                                            *)

\* A record is in one slot or in none.
LEMMA OneFate ==
    ASSUME IInv
    PROVE  RecordsAccounted
<1>1. TypeOK
  BY DEF IInv, ArrayInv, ArrayType, LoopType, TypeOK
<1>2. ASSUME NEW r \in Records
      PROVE  /\ Fates(r) = (IF r \in registered THEN 1 ELSE 0)
             /\ called[r] > 0 => r \in dead
  <2> DEFINE S == {j \in UsedSlots : cells[j] = r}
  <2>1. Cardinality(S) = IF InSlot(r) THEN 1 ELSE 0
    <3>1. CASE InSlot(r)
      <4>1. PICK k \in UsedSlots : cells[k] = r
        BY <3>1 DEF InSlot
      <4>2. S = {k}
        BY <4>1 DEF IInv, ArrayInv, CountInv, OneSlot
      <4> QED
        BY <3>1, <4>2, FS_Singleton
    <3>2. CASE ~InSlot(r)
      <4>1. S = {}
        BY <3>2 DEF InSlot
      <4> QED
        BY <3>2, <4>1, FS_EmptySet
    <3> QED
      BY <3>1, <3>2
  <2>2. Fates(r) =
          Cardinality(S) + (IF r \in unregistered THEN 1 ELSE 0) + called[r]
    BY DEF Fates
  <2> HIDE DEF S
  <2>3. /\ r \in registered <=> InSlot(r) \/ r \in unregistered \/ called[r] = 1
        /\ InSlot(r) => r \notin unregistered
        /\ \/ called[r] = 0
           \/ called[r] = 1 /\ r \in dead /\ r \notin unregistered /\ ~InSlot(r)
    BY DEF IInv, FateInv
  <2>4. CASE called[r] = 0
    <3>1. CASE InSlot(r)
      BY <2>1, <2>2, <2>3, <2>4, <3>1
    <3>2. CASE ~InSlot(r)
      BY <2>1, <2>2, <2>3, <2>4, <3>2
    <3> QED
      BY <3>1, <3>2
  <2>5. CASE called[r] = 1 /\ r \in dead /\ r \notin unregistered /\ ~InSlot(r)
    BY <2>1, <2>2, <2>3, <2>5
  <2> QED
    BY <2>3, <2>4, <2>5
<1> QED
  BY <1>1, <1>2 DEF RecordsAccounted

\* The list of the invariant is the one that FreeListExact asks for.
LEMMA ListIsExact ==
    ASSUME IInv
    PROVE  FreeListExact
<1>1. PICK n, p : n \in Nat /\ FreeList(n, p)
  BY DEF IInv, ArrayInv, FreeInv
<1> n \in Nat
  BY <1>1
<1>2. numUsedCells = Cardinality(UsedSlots) + Cardinality(failed)
  BY DEF IInv, ArrayInv, CountInv
<1>3. CASE n = 0
  <2>1. FreeSlots = {} /\ nextFree = 0
    BY <1>1, <1>3 DEF FreeList
  <2> QED
    BY <1>2, <2>1 DEF FreeListExact
<1>4. CASE n # 0
  <2>1. n \in 1 .. n /\ n - 1 \in Nat /\ nextFree = p[n] /\ p[n] \in FreeSlots
    BY <1>1, <1>4 DEF FreeList
  <2>2. Cardinality(FreeSlots) = n
    <3>1. p \in [1 .. n -> FreeSlots]
      BY <1>1 DEF FreeList
    <3>2. \A j, k \in 1 .. n : p[j] = p[k] => j = k
      BY <1>1 DEF FreeList
    <3>3. \A x \in FreeSlots : \E k \in 1 .. n : p[k] = x
      BY <1>1 DEF FreeList
    <3>4. p \in Bijection(1 .. n, FreeSlots)
      BY <3>1, <3>2, <3>3 DEF Bijection, Injection, Surjection, IsInjective
    <3>5. IsFiniteSet(FreeSlots)
      <4>1. cells \in Seq(Slot) /\ 1 \in Int /\ Len(cells) \in Int
        BY DEF IInv, ArrayInv, ArrayType
      <4>2. IsFiniteSet(1 .. Len(cells)) /\ FreeSlots \subseteq 1 .. Len(cells)
        BY <4>1, FS_Interval, SlotFacts
      <4> QED
        BY <4>2, FS_Subset
    <3> QED
      BY <1>1, <3>4, <3>5, FS_CountingElements DEF ExistsBijection
  <2> DEFINE q == [k \in 1 .. n - 1 |-> p[k]]
  <2>3. q \in [1 .. n - 1 -> FreeSlots \ {nextFree}]
    <3>1. ASSUME NEW k \in 1 .. n - 1
          PROVE  p[k] \in FreeSlots \ {nextFree}
      <4>1. k \in 1 .. n /\ k # n
        BY <1>1, <2>1
      <4>2. p[k] \in FreeSlots /\ p[k] # p[n]
        BY <1>1, <2>1, <4>1 DEF FreeList
      <4> QED
        BY <2>1, <4>2
    <3> QED
      BY <3>1
  <2>4. Append(q, nextFree) = p
    <3>1. q \in Seq(FreeSlots) /\ Len(q) = n - 1
      BY <2>1, <2>3, SeqDef
    <3>2. \A k \in 1 .. n - 1 : q[k] = p[k]
      OBVIOUS
    <3> HIDE DEF q
    <3>3. DOMAIN Append(q, nextFree) = 1 .. n
      BY <2>1, <3>1
    <3>4. \A k \in 1 .. n : Append(q, nextFree)[k] = p[k]
      <4> SUFFICES ASSUME NEW k \in 1 .. n
                   PROVE  Append(q, nextFree)[k] = p[k]
        OBVIOUS
      <4>1. CASE k = n
        BY <2>1, <3>1, <4>1
      <4>2. CASE k # n
        <5>1. k \in 1 .. n - 1
          BY <2>1, <4>2
        <5> QED
          BY <2>1, <3>1, <3>2, <5>1
      <4> QED
        BY <4>1, <4>2
    <3>5. Append(q, nextFree) \in [1 .. n -> FreeSlots]
      <4>1. Append(q, nextFree) \in Seq(FreeSlots) /\ Len(Append(q, nextFree)) = n
        BY <2>1, <3>1
      <4> QED
        BY <4>1, LenProperties
    <3>6. p \in [1 .. n -> FreeSlots]
      BY <1>1 DEF FreeList
    <3> QED
      BY <3>4, <3>5, <3>6
  <2> HIDE DEF q
  <2>5. IsFreeList(p)
    <3>1. p \in [1 .. n -> FreeSlots] /\ Len(p) = n
      BY <1>1, SeqDef DEF FreeList
    <3>2. \A x \in FreeSlots : \E k \in 1 .. n : p[k] = x
      BY <1>1 DEF FreeList
    <3>3. {p[k] : k \in 1 .. Len(p)} = FreeSlots
      BY <3>1, <3>2
    <3> QED
      BY <1>1, <3>1, <3>3 DEF IsFreeList, FreeList
  <2> QED
    BY <1>2, <2>1, <2>2, <2>3, <2>4, <2>5 DEF FreeListExact
<1> QED
  BY <1>3, <1>4

\* What is pending is in front of the end of the array that the loop reads.
LEMMA NothingIsLeft ==
    ASSUME IInv
    PROVE  CleanupComplete
<1> SUFFICES ASSUME LoopOver, NEW r \in due, ~(called[r] > 0), r \notin unregistered
             PROVE  FALSE
  BY DEF CleanupComplete
<1>1. Pending(r)
  BY DEF IInv, CleanupInv
<1>2. PICK j \in UsedSlots : j >= Border /\ (detached => j <= Len(lvCells))
  BY <1>1 DEF Pending
<1>3. /\ pc = "loop" /\ i > Len(LoopCells) /\ i \in Nat /\ Border = i
      /\ Len(cells) \in Nat /\ Len(lvCells) \in Nat /\ j \in 1 .. Len(cells)
  BY DEF LoopOver, Border, IInv, LoopType, ArrayInv, ArrayType, UsedSlots
<1> QED
  BY <1>2, <1>3 DEF LoopCells

\* The invariant holds in every reachable state, if no callback unregisters
\* after the array was replaced.
LEMMA Invariance ==
    ASSUME UnregistersDetached = FALSE
    PROVE  Spec => []IInv
<1>1. Init => IInv
  BY InitHolds
<1>2. IInv /\ [Next]_vars => IInv'
  BY StepKeeps
<1> QED
  BY <1>1, <1>2, PTL DEF Spec

\* Whatever callbacks do, other than to unregister once the array was replaced:
\* every registration is in one slot, or unregistered, or called back once
\* after its target had died.
THEOREM AccountsForRecords ==
    ASSUME UnregistersDetached = FALSE
    PROVE  Spec => []RecordsAccounted
<1>1. IInv => RecordsAccounted
  BY OneFate
<1> QED
  BY <1>1, Invariance, PTL

\* Under the same condition, the free list goes through all free slots, and
\* numUsedCells_ is the number of records and of failed registrations.
THEOREM FreeListIsExact ==
    ASSUME UnregistersDetached = FALSE
    PROVE  Spec => []FreeListExact
<1>1. IInv => FreeListExact
  BY ListIsExact
<1> QED
  BY <1>1, Invariance, PTL

\* Under the same condition, a cleanup misses no record that was dead when it
\* began.
THEOREM CleanupMissesNone ==
    ASSUME UnregistersDetached = FALSE
    PROVE  Spec => []CleanupComplete
<1>1. IInv => CleanupComplete
  BY NothingIsLeft
<1> QED
  BY <1>1, Invariance, PTL

------------------------------------------------------------------------------
(* A checkpoint.                                                              *)

ListInv ==
    /\ list \in Seq(Registries \cup {Null}) /\ alive \subseteq created
    /\ \A r \in alive : r # Null /\ \E k \in 1 .. Len(list) : list[k] = r
    /\ \A j, k \in 1 .. Len(list) : list[j] = list[k] => j = k \/ list[j] = Null
    /\ \A k \in 1 .. Len(list) : list[k] \in alive \cup {Null}

LoopInv ==
    /\ stage \in {"idle", "loop", "cleanup"} /\ index \in Nat
    /\ visited \subseteq created
    /\ stage = "loop" => index \in 1 .. Len(list) + 1
    /\ stage = "cleanup" => index \in 1 .. Len(list) /\ list[index] # Null
    /\ stage # "idle" =>
         \A k \in 1 .. Len(list) : list[k] # Null =>
             (list[k] \in visited <=> k < index \/ (k = index /\ stage = "cleanup"))

CheckpointInv == ListInv /\ LoopInv

------------------------------------------------------------------------------
\* There is no registry at first.
LEMMA CheckpointInitInv == CheckpointInit => CheckpointInv
BY DEF CheckpointInit, CheckpointInv, ListInv, LoopInv

\* A new registry comes last, behind the loop's index.
LEMMA AddKeeps ==
    ASSUME CheckpointInv, NEW r \in Registries,
           AddFinalizationRegistry(r)
    PROVE  CheckpointInv'
<1> USE NullAssumption DEF CheckpointInv
<1>1. /\ list' = Append(list, r) /\ r \notin created /\ r # Null
      /\ created' = created \cup {r} /\ alive' = alive \cup {r}
      /\ UNCHANGED <<stage, index, visited>> /\ stage \in {"idle", "cleanup"}
  BY DEF AddFinalizationRegistry, JSRuns
<1>2. /\ list' \in Seq(Registries \cup {Null}) /\ Len(list') = Len(list) + 1
      /\ Len(list) \in Nat /\ list'[Len(list) + 1] = r
      /\ \A k \in 1 .. Len(list) : list'[k] = list[k]
  BY <1>1 DEF ListInv
<1>3. \A k \in 1 .. Len(list') : k = Len(list) + 1 \/ k \in 1 .. Len(list)
  BY <1>2
<1>4. \A k \in 1 .. Len(list) : list[k] # r /\ k \in 1 .. Len(list')
  BY <1>1, <1>2 DEF ListInv
<1>5. Len(list) + 1 \in 1 .. Len(list')
  BY <1>2
<1>6. ListInv'
  <2>1. \A q \in alive' : q # Null /\ \E k \in 1 .. Len(list') : list'[k] = q
    BY <1>1, <1>2, <1>4, <1>5 DEF ListInv
  <2>2. \A j, k \in 1 .. Len(list') : list'[j] = list'[k] => j = k \/ list'[j] = Null
    BY <1>2, <1>3, <1>4 DEF ListInv
  <2>3. \A k \in 1 .. Len(list') : list'[k] \in alive' \cup {Null}
    BY <1>1, <1>2, <1>3 DEF ListInv
  <2> QED
    BY <1>1, <1>2, <2>1, <2>2, <2>3 DEF ListInv
<1>7. LoopInv'
  <2>1. stage = "cleanup" => index \in 1 .. Len(list') /\ list'[index] # Null
    BY <1>1, <1>2, <1>4 DEF LoopInv
  <2>2. stage # "idle" =>
          \A k \in 1 .. Len(list') : list'[k] # Null =>
             (list'[k] \in visited <=> k < index \/ (k = index /\ stage = "cleanup"))
    <3> SUFFICES ASSUME stage = "cleanup", NEW k \in 1 .. Len(list'), list'[k] # Null
                 PROVE  list'[k] \in visited <=> k < index \/ k = index
      BY <1>1
    <3>1. CASE k = Len(list) + 1
      BY <1>1, <1>2, <3>1 DEF LoopInv
    <3>2. CASE k \in 1 .. Len(list)
      BY <1>2, <3>2 DEF LoopInv
    <3> QED
      BY <1>3, <3>1, <3>2
  <2> QED
    BY <1>1, <2>1, <2>2 DEF LoopInv
<1> QED
  BY <1>6, <1>7

\* A garbage collection empties roots, but not that of the pinned registry.
LEMMA CollectKeeps ==
    ASSUME CheckpointInv, NEW r \in Registries, Collect(r)
    PROVE  CheckpointInv'
<1> USE NullAssumption DEF CheckpointInv
<1>1. /\ r \in alive \ Pinned /\ alive' = alive \ {r}
      /\ UNCHANGED <<created, stage, index, visited>> /\ stage \in {"idle", "cleanup"}
  BY DEF Collect, JSRuns
<1>2. /\ list' \in Seq(Registries \cup {Null}) /\ Len(list') = Len(list)
      /\ \A k \in 1 .. Len(list) :
           list'[k] = IF list[k] = r THEN Null ELSE list[k]
  BY DEF Collect, ListInv
<1>3. ListInv'
  BY <1>1, <1>2 DEF ListInv
<1>4. LoopInv'
  BY <1>1, <1>2 DEF LoopInv, Pinned
<1> QED
  BY <1>3, <1>4

\* The last root is put at the index, where the loop looks next.
LEMMA RemoveKeeps ==
    ASSUME CheckpointInv, RemoveDead PROVE CheckpointInv'
<1> USE NullAssumption DEF CheckpointInv
<1> DEFINE n == Len(list)
<1>1. /\ index \in 1 .. n /\ list[index] = Null /\ n \in Nat /\ stage = "loop"
      /\ UNCHANGED <<created, alive, stage, visited, index>>
  BY DEF RemoveDead, SwapRemove, ListInv, LoopInv
<1>2. /\ list' \in Seq(Registries \cup {Null}) /\ Len(list') = n - 1
      /\ \A k \in 1 .. n - 1 : list'[k] = IF k = index THEN list[n] ELSE list[k]
  <2> DEFINE moved == [list EXCEPT ![index] = list[n]]
  <2>1. /\ moved \in Seq(Registries \cup {Null}) /\ Len(moved) = n
        /\ \A k \in 1 .. n : moved[k] = IF k = index THEN list[n] ELSE list[k]
    <3>1. list[n] \in Registries \cup {Null}
      BY <1>1 DEF ListInv
    <3> QED
      BY <1>1, <3>1, ExceptSeq DEF ListInv
  <2>2. list' = SubSeq(moved, 1, n - 1)
    BY DEF RemoveDead, SwapRemove
  <2> HIDE DEF moved
  <2>3. \A k \in 1 .. n - 1 : k \in 1 .. n /\ moved[k] \in Registries \cup {Null}
    BY <1>1, <2>1
  <2>4. /\ list' \in Seq(Registries \cup {Null})
        /\ Len(list') = IF 1 <= n - 1 THEN (n - 1) - 1 + 1 ELSE 0
        /\ \A k \in 1 .. (n - 1) - 1 + 1 : list'[k] = moved[1 + k - 1]
    <3>1. 1 \in Int /\ n - 1 \in Int
      BY <1>1
    <3> QED
      BY <2>2, <2>3, <3>1, SubSeqProperties
  <2>5. Len(list') = n - 1
    <3>1. n \in Nat /\ 1 <= n
      BY <1>1
    <3>2. CASE 1 <= n - 1
      BY <2>4, <3>1, <3>2
    <3>3. CASE ~(1 <= n - 1)
      <4>1. Len(list') = 0
        BY <2>4, <3>3, Zenon
      <4>2. \A m \in Nat : 1 <= m /\ ~(1 <= m - 1) => m - 1 = 0
        OBVIOUS
      <4>3. n - 1 = 0
        BY <3>1, <3>3, <4>2, Zenon
      <4> QED
        BY <4>1, <4>3, Zenon
    <3> QED
      BY <3>2, <3>3
  <2>6. ASSUME NEW k \in 1 .. n - 1 PROVE list'[k] = moved[k]
    <3>1. k \in 1 .. (n - 1) - 1 + 1 /\ 1 + k - 1 = k
      BY <1>1
    <3> QED
      BY <2>4, <3>1
  <2> QED
    BY <2>1, <2>3, <2>4, <2>5, <2>6
<1> HIDE DEF n
<1>3. n = Len(list) /\ \A k \in 1 .. n - 1 : k \in 1 .. n
  BY <1>1 DEF n
<1>4. ListInv'
  <2>1. ASSUME NEW q \in alive PROVE \E k \in 1 .. n - 1 : list'[k] = q
    <3>1. PICK k \in 1 .. n : list[k] = q
      BY <1>3 DEF ListInv
    <3>2. k # index
      BY <1>1, <3>1 DEF ListInv
    <3>3. CASE k = n
      <4>1. index \in 1 .. n - 1
        BY <1>1, <3>2, <3>3
      <4> QED
        BY <1>2, <3>1, <3>3, <4>1
    <3>4. CASE k # n
      BY <1>1, <1>2, <3>1, <3>2, <3>4
    <3> QED
      BY <3>3, <3>4
  <2>2. \A j, k \in 1 .. n - 1 : list'[j] = list'[k] => j = k \/ list'[j] = Null
    <3> SUFFICES ASSUME NEW j \in 1 .. n - 1, NEW k \in 1 .. n - 1,
                        list'[j] = list'[k], j # k
                 PROVE  list'[j] = Null
      OBVIOUS
    <3>1. /\ list'[j] = IF j = index THEN list[n] ELSE list[j]
          /\ list'[k] = IF k = index THEN list[n] ELSE list[k]
          /\ j \in 1 .. n /\ k \in 1 .. n /\ n \in 1 .. n /\ j # n /\ k # n
      BY <1>1, <1>2, <1>3
    <3> QED
      BY <1>3, <3>1 DEF ListInv
  <2>3. \A k \in 1 .. n - 1 : list'[k] \in alive \cup {Null}
    <3>1. \A k \in 1 .. n : list[k] \in alive \cup {Null}
      BY <1>3 DEF ListInv
    <3>2. n \in 1 .. n
      BY <1>1
    <3> QED
      BY <1>2, <1>3, <3>1, <3>2
  <2> QED
    BY <1>1, <1>2, <2>1, <2>2, <2>3 DEF ListInv
<1>5. LoopInv'
  <2>1. index \in 1 .. Len(list') + 1
    BY <1>1, <1>2
  <2>2. \A k \in 1 .. n - 1 : list'[k] # Null => (list'[k] \in visited <=> k < index)
    <3>1. \A k \in 1 .. n : list[k] # Null => (list[k] \in visited <=> k < index)
      BY <1>1, <1>2, <1>3 DEF LoopInv
    <3> SUFFICES ASSUME NEW k \in 1 .. n - 1, list'[k] # Null
                 PROVE  list'[k] \in visited <=> k < index
      OBVIOUS
    <3>2. list'[k] = (IF k = index THEN list[n] ELSE list[k]) /\ k \in 1 .. n
      BY <1>1, <1>2, <1>3
    <3>3. n \in 1 .. n /\ ~(n < index)
      BY <1>1, <1>2
    <3>4. CASE k = index
      BY <3>1, <3>2, <3>3, <3>4
    <3>5. CASE k # index
      BY <3>1, <3>2, <3>5
    <3> QED
      BY <3>4, <3>5
  <2> QED
    BY <1>1, <1>2, <2>1, <2>2 DEF LoopInv
<1> QED
  BY <1>4, <1>5

\* Every step; one visit or cleanup moves the border between visited and not.
LEMMA CheckpointStepInv ==
    CheckpointInv /\ [CheckpointNext]_checkpointVars => CheckpointInv'
<1> SUFFICES ASSUME CheckpointInv, [CheckpointNext]_checkpointVars PROVE CheckpointInv'
  OBVIOUS
<1> USE NullAssumption DEF CheckpointInv
<1>1. CASE \E r \in Registries : AddFinalizationRegistry(r)
  BY <1>1, AddKeeps
<1>2. CASE \E r \in Registries : Collect(r)
  BY <1>2, CollectKeeps
<1>3. CASE StartCheckpoint
  BY <1>3 DEF StartCheckpoint, ListInv, LoopInv
<1>4. CASE Visit
  <2>1. ListInv'
    BY <1>4 DEF Visit, ListInv
  <2>2. index \in 1 .. Len(list) /\ list[index] # Null /\ list[index] \in created
    BY <1>4 DEF Visit, ListInv, LoopInv
  <2>3. \A k \in 1 .. Len(list) : list[k] = list[index] => k = index
    BY <2>2 DEF ListInv
  <2>4. LoopInv'
    BY <1>4, <2>2, <2>3 DEF Visit, LoopInv
  <2> QED
    BY <2>1, <2>4
<1>5. CASE CleanupReturns
  <2>1. Len(list) \in Nat
    BY DEF ListInv
  <2> QED
    BY <1>5, <2>1 DEF CleanupReturns, ListInv, LoopInv
<1>6. CASE CleanupThrows
  BY <1>6 DEF CleanupThrows, ListInv, LoopInv
<1>7. CASE RemoveDead
  BY <1>7, RemoveKeeps
<1>8. CASE EndCheckpoint
  BY <1>8 DEF EndCheckpoint, ListInv, LoopInv
<1>9. CASE UNCHANGED checkpointVars
  BY <1>9 DEF checkpointVars, ListInv, LoopInv
<1> QED
  BY <1>1, <1>2, <1>3, <1>4, <1>5, <1>6, <1>7, <1>8, <1>9 DEF CheckpointNext

\* What is kept says what VisitedInOrder says, where each place is counted.
LEMMA InvOrder == CheckpointInv => VisitedInOrder
<1> SUFFICES ASSUME CheckpointInv PROVE VisitedInOrder
  OBVIOUS
<1> USE NullAssumption DEF CheckpointInv
<1>1. ASSUME NEW r \in alive PROVE Cardinality(Places(r)) = 1
  <2>1. PICK k \in 1 .. Len(list) : list[k] = r /\ r # Null
    BY DEF ListInv
  <2>2. Places(r) = {k}
    BY <2>1 DEF Places, ListInv
  <2> QED
    BY <2>2, FS_Singleton, Zenon
<1>2. ListExact
  BY <1>1 DEF ListExact, ListInv
<1> QED
  BY <1>2 DEF VisitedInOrder, ListInv, LoopInv, Places

------------------------------------------------------------------------------
\* A checkpoint cleans up every registry that is alive once, neither skipping nor
\* repeating one although callbacks create registries and garbage collections
\* empty places of the list (cleanUpFinalizationCallbacks).
THEOREM VisitsInOrder == CheckpointSpec => []VisitedInOrder
<1>1. CheckpointInv /\ [CheckpointNext]_checkpointVars => CheckpointInv'
  BY CheckpointStepInv
<1> QED
  BY <1>1, CheckpointInitInv, InvOrder, PTL DEF CheckpointSpec

=============================================================================
