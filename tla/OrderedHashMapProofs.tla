------------------------- MODULE OrderedHashMapProofs -------------------------
(* Proofs about OrderedHashMap, for any keys, values and iterators, any hash  *)
(* function and any capacities.                                               *)
EXTENDS OrderedHashMap, FiniteSetTheorems, SequenceTheorems, WellFoundedInduction,
        TLAPS

------------------------------------------------------------------------------
(* Numbers.                                                                   *)

\* A set of natural numbers has a smallest member.
LEMMA Least ==
    ASSUME NEW S \in SUBSET Nat, S # {}
    PROVE  \E x \in S : \A y \in S : x <= y
<1> DEFINE Less == OpToRel(<, Nat)
<1>1. IsWellFoundedOn(Less, Nat)
  BY NatLessThanWellFounded
<1>2. \A x, y \in Nat : y < x => <<y, x>> \in Less
  BY DEF OpToRel
<1> HIDE DEF Less
<1>3. PICK x \in S : \A y \in S : ~(<<y, x>> \in Less)
  BY <1>1, WFMin
<1>4. \A y \in S : ~(y < x)
  BY <1>2, <1>3
<1> QED
  BY <1>3, <1>4

\* Induction, for the members of a set.
LEMMA UpTo ==
    ASSUME NEW N \in Nat, NEW S, 0 \in S, \A n \in 0..N - 1 : n \in S => n + 1 \in S
    PROVE  \A n \in 0..N : n \in S
<1> DEFINE Out == {n \in 0..N : n \notin S}
<1> SUFFICES ASSUME Out # {} PROVE FALSE
  OBVIOUS
<1>1. Out \in SUBSET Nat
  OBVIOUS
<1> HIDE DEF Out
<1>2. PICK x \in Out : \A y \in Out : x <= y
  BY <1>1, Least
<1>3. x \in 0..N /\ x # 0 /\ x \notin S
  BY <1>2 DEF Out
<1>4. x - 1 \in 0..N - 1 /\ x - 1 \notin Out
  BY <1>2, <1>3
<1>5. x - 1 \in S /\ (x - 1) + 1 = x
  BY <1>3, <1>4 DEF Out
<1> QED
  BY <1>3, <1>4, <1>5

\* Division with a remainder.
LEMMA Divides ==
    ASSUME NEW h \in Nat, NEW c \in Nat, c > 0
    PROVE  \E q, r \in Nat : h = c * q + r /\ r < c
<1> DEFINE R == {r \in Nat : \E q \in Nat : h = c * q + r}
<1>1. h \in R
  <2>1. h = c * 0 + h
    OBVIOUS
  <2> QED
    BY <2>1
<1>2. \A r \in R : r >= c => r - c \in R
  <2> SUFFICES ASSUME NEW r \in R, r >= c PROVE r - c \in R
    OBVIOUS
  <2>1. PICK q \in Nat : h = c * q + r
    OBVIOUS
  <2>2. c * (q + 1) = c * q + c
    OBVIOUS
  <2>3. c * q \in Nat /\ r - c \in Nat /\ q + 1 \in Nat
    OBVIOUS
  <2>4. h = c * (q + 1) + (r - c)
    BY <2>1, <2>2, <2>3
  <2> QED
    BY <2>3, <2>4
<1>3. R \in SUBSET Nat
  OBVIOUS
<1> HIDE DEF R
<1>4. PICK r \in R : \A y \in R : r <= y
  BY <1>1, <1>3, Least
<1>5. r \in Nat /\ r < c
  BY <1>2, <1>3, <1>4
<1> QED
  BY <1>4, <1>5 DEF R

\* The probes from any place on come to every bucket.
LEMMA ProbesCover ==
    ASSUME NEW h \in Nat, NEW c \in Nat, c > 0, NEW b \in 0..c - 1
    PROVE  \E n \in 0..c - 1 : (h + n) % c = b
<1>1. PICK q \in Nat, r \in Nat : h = c * q + r /\ r < c
  BY Divides
<1>2. \A p \in Nat : \A n \in Nat : n = c * p + b => n % c = b
  OBVIOUS
<1>3. CASE r <= b
  <2>1. h + (b - r) = c * q + b /\ b - r \in 0..c - 1 /\ h + (b - r) \in Nat
    <3>1. c * q \in Nat
      OBVIOUS
    <3> QED
      BY <1>1, <1>3, <3>1
  <2> QED
    BY <1>2, <2>1
<1>4. CASE r > b
  <2>1. c * (q + 1) = c * q + c /\ q + 1 \in Nat /\ c * q \in Nat
    OBVIOUS
  <2>2. h + (b + c - r) = c * (q + 1) + b /\ b + c - r \in 0..c - 1
        /\ h + (b + c - r) \in Nat
    BY <1>1, <1>4, <2>1
  <2> QED
    BY <1>2, <2>1, <2>2
<1> QED
  BY <1>1, <1>3, <1>4

------------------------------------------------------------------------------
(* The entries of a data table, in order.                                     *)

Items == Keys \X Values
DataTables == Seq(Items \cup {Empty})

\* The places that are not deleted, and how many of them there are up to one.
LiveIn(data) == {j \in 1..Len(data) : data[j] # Empty}
LiveUpTo(data, n) == {j \in LiveIn(data) : j <= n}
Rank(data, n) == Cardinality(LiveUpTo(data, n))

\* An entry is no deleted one.
LEMMA ItemsNotEmpty == Empty \notin Items
<1>1. \A k \in Keys, v \in Values : <<k, v>> # Empty
  BY DEF Empty
<1> QED
  BY <1>1 DEF Items

\* Counting place by place.
LEMMA RankStep ==
    ASSUME NEW data, Len(data) \in Nat
    PROVE  /\ Rank(data, 0) = 0
           /\ \A n \in Nat : Rank(data, n) \in Nat /\ IsFiniteSet(LiveUpTo(data, n))
           /\ \A n \in 1..Len(data) :
                Rank(data, n) = IF data[n] = Empty THEN Rank(data, n - 1)
                                ELSE Rank(data, n - 1) + 1
<1>1. LiveUpTo(data, 0) = {}
  BY DEF LiveUpTo, LiveIn
<1>2. \A n \in Nat : IsFiniteSet(LiveUpTo(data, n)) /\ Rank(data, n) \in Nat
  <2> SUFFICES ASSUME NEW n \in Nat
               PROVE  IsFiniteSet(LiveUpTo(data, n)) /\ Rank(data, n) \in Nat
    OBVIOUS
  <2>1. IsFiniteSet(1..Len(data)) /\ LiveUpTo(data, n) \subseteq 1..Len(data)
    BY FS_Interval DEF LiveUpTo, LiveIn
  <2> QED
    BY <2>1, FS_Subset, FS_CardinalityType DEF Rank
<1>3. ASSUME NEW n \in 1..Len(data)
      PROVE  Rank(data, n) = IF data[n] = Empty THEN Rank(data, n - 1)
                             ELSE Rank(data, n - 1) + 1
  <2>1. CASE data[n] = Empty
    <3>1. LiveUpTo(data, n) = LiveUpTo(data, n - 1)
      BY <2>1 DEF LiveUpTo, LiveIn
    <3> QED
      BY <2>1, <3>1 DEF Rank
  <2>2. CASE data[n] # Empty
    <3>1. /\ LiveUpTo(data, n) = LiveUpTo(data, n - 1) \cup {n}
          /\ n \notin LiveUpTo(data, n - 1) /\ n - 1 \in Nat
      BY <2>2 DEF LiveUpTo, LiveIn
    <3>2. Cardinality(LiveUpTo(data, n - 1) \cup {n})
            = Cardinality(LiveUpTo(data, n - 1)) + 1
      BY <1>2, <3>1, FS_AddElement
    <3> QED
      BY <2>2, <3>1, <3>2 DEF Rank
  <2> QED
    BY <2>1, <2>2
<1> QED
  BY <1>1, <1>2, <1>3, FS_EmptySet DEF Rank

\* More places count no less, and at most one each.
LEMMA RankGrows ==
    ASSUME NEW data, Len(data) \in Nat
    PROVE  /\ \A m, n \in Nat : m <= n => Rank(data, m) <= Rank(data, n)
           /\ \A m \in Nat : \A j \in LiveIn(data) :
                m < j => Rank(data, m) < Rank(data, j)
           /\ \A n \in Nat : n >= Len(data) => Rank(data, n) = Rank(data, Len(data))
           /\ \A n \in Nat : Rank(data, n) <= n
<1>1. ASSUME NEW m \in Nat, NEW n \in Nat, m <= n
      PROVE  Rank(data, m) <= Rank(data, n)
  <2>1. LiveUpTo(data, m) \subseteq LiveUpTo(data, n)
    BY <1>1 DEF LiveUpTo, LiveIn
  <2> QED
    BY <2>1, RankStep, FS_Subset DEF Rank
<1>2. ASSUME NEW m \in Nat, NEW j \in LiveIn(data), m < j
      PROVE  Rank(data, m) < Rank(data, j)
  <2>1. j \in 1..Len(data) /\ data[j] # Empty /\ j - 1 \in Nat /\ m <= j - 1
    BY <1>2 DEF LiveIn
  <2>2. Rank(data, j) = Rank(data, j - 1) + 1
    BY <2>1, RankStep
  <2>3. Rank(data, m) <= Rank(data, j - 1)
    BY <1>1, <2>1
  <2> QED
    BY <2>1, <2>2, <2>3, RankStep
<1>3. ASSUME NEW n \in Nat, n >= Len(data)
      PROVE  Rank(data, n) = Rank(data, Len(data))
  <2>1. LiveUpTo(data, n) = LiveUpTo(data, Len(data))
    BY <1>3 DEF LiveUpTo, LiveIn
  <2> QED
    BY <2>1 DEF Rank
<1>4. ASSUME NEW n \in Nat
      PROVE  Rank(data, n) <= n
  <2>1. LiveUpTo(data, n) \subseteq 1..n
    BY DEF LiveUpTo, LiveIn
  <2>2. IsFiniteSet(1..n) /\ Cardinality(1..n) = n
    BY FS_Interval
  <2> QED
    BY <2>1, <2>2, FS_Subset DEF Rank
<1> QED
  BY <1>1, <1>2, <1>3, <1>4

\* The entries among the first n places, one place after the other.
IsEntriesUpTo(u, data) ==
    u = [n \in 0..Len(data) |->
          IF n = 0 THEN <<>>
          ELSE IF data[n] = Empty THEN u[n - 1] ELSE Append(u[n - 1], data[n])]

\* There is such a function.
LEMMA EntriesRecursion ==
    ASSUME NEW data, Len(data) \in Nat
    PROVE  \E u : IsEntriesUpTo(u, data) /\ Entries(data) = u[Len(data)]
<1> DEFINE Is(u, m) ==
      u = [n \in 0..m |->
            IF n = 0 THEN <<>>
            ELSE IF data[n] = Empty THEN u[n - 1] ELSE Append(u[n - 1], data[n])]
<1> DEFINE S == {m \in 0..Len(data) : \E u : Is(u, m)}
<1>1. 0 \in S
  <2>1. Is([n \in 0..0 |-> <<>>], 0) /\ 0 \in 0..Len(data)
    OBVIOUS
  <2> HIDE DEF Is
  <2> QED
    BY <2>1
<1>2. ASSUME NEW m \in 0..Len(data) - 1, m \in S
      PROVE  m + 1 \in S
  <2>1. PICK u : Is(u, m)
    BY <1>2
  <2> DEFINE e == IF data[m + 1] = Empty THEN u[m] ELSE Append(u[m], data[m + 1])
  <2> DEFINE w == [n \in 0..m + 1 |-> IF n = m + 1 THEN e ELSE u[n]]
  <2>2. \A n \in 0..m + 1 :
          w[n] = IF n = 0 THEN <<>>
                 ELSE IF data[n] = Empty THEN w[n - 1] ELSE Append(w[n - 1], data[n])
    <3> SUFFICES ASSUME NEW n \in 0..m + 1
                 PROVE  w[n] = IF n = 0 THEN <<>>
                               ELSE IF data[n] = Empty THEN w[n - 1]
                               ELSE Append(w[n - 1], data[n])
      OBVIOUS
    <3>1. CASE n = m + 1
      <4>1. w[n] = e /\ n - 1 = m /\ n # 0 /\ m # m + 1 /\ m \in 0..m + 1
        BY <3>1
      <4>2. w[n - 1] = u[m]
        BY <4>1
      <4> QED
        BY <3>1, <4>1, <4>2
    <3>2. CASE n # m + 1
      <4>1. n \in 0..m /\ w[n] = u[n]
        BY <3>2
      <4>2. n # 0 => w[n - 1] = u[n - 1]
        BY <3>2
      <4> HIDE DEF w
      <4> QED
        BY <2>1, <4>1, <4>2
    <3> QED
      BY <3>1, <3>2
  <2>3. w = [n \in 0..m + 1 |-> w[n]]
    OBVIOUS
  <2> HIDE DEF w
  <2>4. Is(w, m + 1)
    BY <2>2, <2>3
  <2> QED
    BY <2>4
<1>3. Len(data) \in S
  <2> HIDE DEF S
  <2>1. \A m \in 0..Len(data) - 1 : m \in S => m + 1 \in S
    BY <1>2
  <2>2. \A m \in 0..Len(data) : m \in S
    BY <1>1, <2>1, UpTo
  <2> QED
    BY <2>2
<1>4. \E u : IsEntriesUpTo(u, data)
  BY <1>3 DEF IsEntriesUpTo
<1>5. Entries(data) = (CHOOSE u : IsEntriesUpTo(u, data))[Len(data)]
  BY DEF Entries, IsEntriesUpTo
<1> QED
  BY <1>4, <1>5

\* The number of a place that is not deleted tells the place.
LEMMA RankOnto ==
    ASSUME NEW data, Len(data) \in Nat
    PROVE  /\ \A n \in 0..Len(data) : \A p \in 1..Rank(data, n) :
                \E j \in LiveUpTo(data, n) : Rank(data, j) = p
           /\ \A i, j \in LiveIn(data) : Rank(data, i) = Rank(data, j) => i = j
           /\ \A n \in Nat : \A j \in LiveUpTo(data, n) :
                Rank(data, j) \in 1..Rank(data, n)
<1> DEFINE S == {n \in 0..Len(data) : \A p \in 1..Rank(data, n) :
                   \E j \in LiveUpTo(data, n) : Rank(data, j) = p}
<1>1. 0 \in S
  BY RankStep
<1>2. ASSUME NEW n \in 0..Len(data) - 1, n \in S
      PROVE  n + 1 \in S
  <2>1. n + 1 \in 1..Len(data) /\ (n + 1) - 1 = n /\ n \in Nat /\ n + 1 \in Nat
    OBVIOUS
  <2> SUFFICES ASSUME NEW p \in 1..Rank(data, n + 1)
               PROVE  \E j \in LiveUpTo(data, n + 1) : Rank(data, j) = p
    BY <2>1
  <2>2. LiveUpTo(data, n) \subseteq LiveUpTo(data, n + 1)
    BY <2>1 DEF LiveUpTo, LiveIn
  <2>3. CASE p \in 1..Rank(data, n)
    BY <1>2, <2>2, <2>3
  <2>4. CASE p \notin 1..Rank(data, n)
    <3>1. Rank(data, n) \in Nat /\ Rank(data, n + 1) \in Nat
      BY <2>1, RankStep
    <3>2. Rank(data, n + 1) = IF data[n + 1] = Empty THEN Rank(data, n)
                              ELSE Rank(data, n) + 1
      BY <2>1, RankStep
    <3>3. data[n + 1] # Empty /\ p = Rank(data, n + 1)
      BY <2>4, <3>1, <3>2
    <3>4. n + 1 \in LiveUpTo(data, n + 1)
      BY <2>1, <3>3 DEF LiveUpTo, LiveIn
    <3> QED
      BY <3>3, <3>4
  <2> QED
    BY <2>3, <2>4
<1>3. \A n \in 0..Len(data) : n \in S
  <2> HIDE DEF S
  <2>1. \A n \in 0..Len(data) - 1 : n \in S => n + 1 \in S
    BY <1>2
  <2> QED
    BY <1>1, <2>1, UpTo
<1>4. ASSUME NEW i \in LiveIn(data), NEW j \in LiveIn(data),
             Rank(data, i) = Rank(data, j)
      PROVE  i = j
  <2>1. i \in Nat /\ j \in Nat
    BY DEF LiveIn
  <2>2. /\ i < j => Rank(data, i) < Rank(data, j)
        /\ j < i => Rank(data, j) < Rank(data, i)
    BY <2>1, RankGrows
  <2>3. Rank(data, i) \in Nat
    BY <2>1, RankStep
  <2> QED
    BY <1>4, <2>1, <2>2, <2>3
<1>5. ASSUME NEW n \in Nat, NEW j \in LiveUpTo(data, n)
      PROVE  Rank(data, j) \in 1..Rank(data, n)
  <2>1. j \in LiveIn(data) /\ j \in Nat /\ j <= n /\ 0 < j
    BY DEF LiveUpTo, LiveIn
  <2>2. Rank(data, 0) < Rank(data, j) /\ Rank(data, j) <= Rank(data, n)
    BY <2>1, RankGrows
  <2> QED
    BY <2>1, <2>2, RankStep
<1> QED
  BY <1>3, <1>4, <1>5

\* s holds the entries among the first n places, and nothing else.
Collects(s, data, n) ==
    /\ s \in Seq(Items) /\ Len(s) = Rank(data, n)
    /\ \A j \in LiveUpTo(data, n) : s[Rank(data, j)] = data[j]

\* One more place: its entry, if it has one, is the next.
LEMMA CollectsStep ==
    ASSUME NEW data \in DataTables, NEW n \in 1..Len(data), NEW s,
           Collects(s, data, n - 1)
    PROVE  IF data[n] = Empty THEN Collects(s, data, n)
           ELSE data[n] \in Items /\ Collects(Append(s, data[n]), data, n)
<1>1. Len(data) \in Nat /\ data[n] \in Items \cup {Empty} /\ n \in Nat /\ n - 1 \in Nat
  BY DEF DataTables
<1>2. Rank(data, n) = IF data[n] = Empty THEN Rank(data, n - 1)
                      ELSE Rank(data, n - 1) + 1
  BY <1>1, RankStep
<1>3. CASE data[n] = Empty
  <2>1. LiveUpTo(data, n) = LiveUpTo(data, n - 1)
    BY <1>1, <1>3 DEF LiveUpTo, LiveIn
  <2> QED
    BY <1>2, <1>3, <2>1 DEF Collects
<1>4. CASE data[n] # Empty
  <2>1. LiveUpTo(data, n) = LiveUpTo(data, n - 1) \cup {n}
    BY <1>1, <1>4 DEF LiveUpTo, LiveIn
  <2>2. data[n] \in Items /\ s \in Seq(Items) /\ Len(s) = Rank(data, n - 1)
    BY <1>1, <1>4 DEF Collects
  <2> DEFINE t == Append(s, data[n])
  <2>3. /\ t \in Seq(Items) /\ Len(t) = Len(s) + 1 /\ t[Len(s) + 1] = data[n]
        /\ \A q \in 1..Len(s) : t[q] = s[q]
    BY <2>2
  <2>4. ASSUME NEW j \in LiveUpTo(data, n - 1)
        PROVE  t[Rank(data, j)] = data[j]
    <3>1. Rank(data, j) \in 1..Len(s)
      BY <1>1, <2>2, RankOnto
    <3> QED
      BY <2>3, <3>1 DEF Collects
  <2>5. t[Rank(data, n)] = data[n]
    BY <1>2, <1>4, <2>2, <2>3
  <2> HIDE DEF t
  <2>6. Collects(t, data, n)
    BY <1>2, <1>4, <2>1, <2>2, <2>3, <2>4, <2>5 DEF Collects
  <2> QED
    BY <1>4, <2>2, <2>6 DEF t
<1> QED
  BY <1>3, <1>4

\* What Entries computes, and every value on the way to it.
LEMMA EntriesPrefix ==
    ASSUME NEW data \in DataTables
    PROVE  \E u : /\ IsEntriesUpTo(u, data) /\ u[Len(data)] = Entries(data)
                  /\ \A n \in 0..Len(data) : Collects(u[n], data, n)
<1>1. Len(data) \in Nat
  BY DEF DataTables
<1>2. PICK u : IsEntriesUpTo(u, data) /\ Entries(data) = u[Len(data)]
  BY <1>1, EntriesRecursion
<1>3. \A n \in 0..Len(data) :
        u[n] = IF n = 0 THEN <<>>
               ELSE IF data[n] = Empty THEN u[n - 1] ELSE Append(u[n - 1], data[n])
  BY <1>2 DEF IsEntriesUpTo
<1> DEFINE S == {n \in 0..Len(data) : Collects(u[n], data, n)}
<1>4. 0 \in S
  <2>1. u[0] = <<>> /\ Rank(data, 0) = 0 /\ LiveUpTo(data, 0) = {} /\ 0 \in 0..Len(data)
    BY <1>1, <1>3, RankStep DEF LiveUpTo, LiveIn
  <2>2. <<>> \in Seq(Items) /\ Len(<<>>) = 0
    OBVIOUS
  <2>3. Collects(<<>>, data, 0)
    BY <2>1, <2>2 DEF Collects
  <2> QED
    BY <2>1, <2>3
<1>5. ASSUME NEW n \in 0..Len(data) - 1, n \in S
      PROVE  n + 1 \in S
  <2>1. n + 1 \in 1..Len(data) /\ (n + 1) - 1 = n /\ n + 1 \in 0..Len(data) /\ n + 1 # 0
    BY <1>1
  <2>2. Collects(u[n], data, n)
    BY <1>5
  <2>3. u[n + 1] = IF data[n + 1] = Empty THEN u[n] ELSE Append(u[n], data[n + 1])
    BY <1>3, <2>1
  <2>4. IF data[n + 1] = Empty THEN Collects(u[n], data, n + 1)
        ELSE data[n + 1] \in Items /\ Collects(Append(u[n], data[n + 1]), data, n + 1)
    BY <2>1, <2>2, CollectsStep
  <2>5. Collects(u[n + 1], data, n + 1)
    BY <2>3, <2>4
  <2> QED
    BY <2>1, <2>5
<1>6. \A n \in 0..Len(data) : n \in S
  <2> HIDE DEF S
  <2>1. \A n \in 0..Len(data) - 1 : n \in S => n + 1 \in S
    BY <1>5
  <2> QED
    BY <1>1, <1>4, <2>1, UpTo
<1> QED
  BY <1>2, <1>6

\* Nothing else does.
LEMMA EntriesUnique ==
    ASSUME NEW data \in DataTables
    PROVE  /\ Collects(Entries(data), data, Len(data))
           /\ \A s : Collects(s, data, Len(data)) => s = Entries(data)
<1>1. Len(data) \in Nat
  BY DEF DataTables
<1>2. Collects(Entries(data), data, Len(data))
  BY <1>1, EntriesPrefix
<1>3. ASSUME NEW s, Collects(s, data, Len(data))
      PROVE  s = Entries(data)
  <2> DEFINE t == Entries(data)
  <2> HIDE DEF t
  <2>1. Collects(t, data, Len(data))
    BY <1>2 DEF t
  <2>2. s \in Seq(Items) /\ t \in Seq(Items) /\ Len(s) = Len(t) /\ Len(s) = Rank(data, Len(data))
    BY <1>3, <2>1 DEF Collects
  <2>3. ASSUME NEW p \in 1..Len(s)
        PROVE  s[p] = t[p]
    <3>1. PICK j \in LiveUpTo(data, Len(data)) : Rank(data, j) = p
      BY <1>1, <2>2, RankOnto
    <3> QED
      BY <1>3, <2>1, <3>1 DEF Collects
  <2>4. s = t
    BY <2>2, <2>3, SeqEqual
  <2> QED
    BY <2>4 DEF t
<1> QED
  BY <1>2, <1>3

------------------------------------------------------------------------------
(* Tables whose two parts agree.                                              *)

Buckets(T) == 0..T.capacity - 1
Points(T, b) ==
    T.hash[b] # kHashTableElementUnused /\ T.hash[b] # kHashTableElementDeleted
Used(T) == {b \in Buckets(T) : T.hash[b] # kHashTableElementUnused}

IsTable(T) ==
    /\ T = [hash |-> T.hash, data |-> T.data, capacity |-> T.capacity]
    /\ T.capacity \in Nat /\ T.capacity > 0
    /\ T.data \in DataTables /\ Len(T.data) <= kMaxCapacity
    /\ T.hash \in [Buckets(T) -> Nat]

\* A bucket in use tells an entry, and each another one.
PointersExact(T) ==
    /\ \A b \in Buckets(T) : Points(T, b) => T.hash[b] + 1 \in LiveIn(T.data)
    /\ \A a, b \in Buckets(T) : Points(T, a) /\ T.hash[a] = T.hash[b] => a = b

\* Probing for the key of an entry comes to its bucket before an unused one.
ReachedAt(T, j, n) ==
    /\ T.hash[Probed(T, T.data[j][1], n)] = j - 1
    /\ \A m \in 0..n - 1 : T.hash[Probed(T, T.data[j][1], m)] # kHashTableElementUnused
Reachable(T) == \A j \in LiveIn(T.data) : \E n \in Buckets(T) : ReachedAt(T, j, n)

KeysDistinct(data) ==
    \A i, j \in LiveIn(data) : data[i][1] = data[j][1] => i = j

TableOK(T) ==
    /\ IsTable(T) /\ PointersExact(T) /\ Reachable(T) /\ KeysDistinct(T.data)
    /\ Cardinality(Used(T)) = Len(T.data)

\* The two marks are no places of the data table.
LEMMA Marks ==
    ASSUME NEW T, IsTable(T), NEW j \in LiveIn(T.data)
    PROVE  /\ j \in 1..Len(T.data) /\ j - 1 \in Nat /\ Len(T.data) \in Nat
           /\ T.data[j] \in Items /\ T.data[j][1] \in Keys
           /\ j - 1 # kHashTableElementUnused /\ j - 1 # kHashTableElementDeleted
<1>1. T.data \in Seq(Items \cup {Empty}) /\ Len(T.data) <= kMaxCapacity
  BY DEF IsTable, DataTables
<1>2. j \in 1..Len(T.data) /\ Len(T.data) \in Nat /\ T.data[j] \in Items
  BY <1>1 DEF LiveIn
<1>3. \A e \in Items : e[1] \in Keys
  BY DEF Items
<1> QED
  BY <1>1, <1>2, <1>3, CapacityAssumption
  DEF kHashTableElementUnused, kHashTableElementDeleted

\* A probe is a bucket.
LEMMA ProbedBucket ==
    ASSUME NEW T, IsTable(T), NEW k \in Keys, NEW n \in Nat
    PROVE  Probed(T, k, n) \in Buckets(T)
<1>1. Hash[k] \in Nat /\ T.capacity \in Nat /\ T.capacity > 0
  BY HashAssumption DEF IsTable
<1>2. Hash[k] + n \in Nat
  BY <1>1
<1>3. \A h \in Nat, c \in Nat : c > 0 => h % c \in 0..c - 1
  OBVIOUS
<1> QED
  BY <1>1, <1>2, <1>3 DEF Probed, Buckets

\* A table with a bucket left has an unused one, and probing ends at one at last.
LEMMA RoomToStop ==
    ASSUME NEW T, TableOK(T), Len(T.data) < T.capacity, NEW k \in Keys
    PROVE  Stops(T, k) # {}
<1>1. T.capacity \in Nat /\ T.capacity > 0 /\ IsTable(T)
  BY DEF TableOK, IsTable
<1>2. Cardinality(0..T.capacity - 1) = T.capacity
  BY <1>1, FS_Interval
<1>3. Used(T) # 0..T.capacity - 1
  BY <1>1, <1>2 DEF TableOK
<1>4. PICK b \in 0..T.capacity - 1 : T.hash[b] = kHashTableElementUnused
  BY <1>3 DEF Used, Buckets
<1>5. Hash[k] \in Nat
  BY HashAssumption
<1>6. PICK n \in 0..T.capacity - 1 : (Hash[k] + n) % T.capacity = b
  BY <1>1, <1>5, ProbesCover
<1>7. n \in Stops(T, k)
  BY <1>4, <1>6 DEF Stops, StopsAt, Probed
<1> QED
  BY <1>7

\* Lookup stops at the first probe at which it may.
LEMMA FirstStop ==
    ASSUME NEW T, IsTable(T), NEW k \in Keys, Stops(T, k) # {}
    PROVE  \E n \in Stops(T, k) :
             /\ n \in Buckets(T)
             /\ LookupInBucket(T, k) = Probed(T, k, n)
             /\ LookupInBucket(T, k) \in Buckets(T)
             /\ StopsAt(T, k, LookupInBucket(T, k))
             /\ \A m \in 0..n - 1 : ~StopsAt(T, k, Probed(T, k, m))
<1>1. Stops(T, k) \in SUBSET Nat /\ T.capacity \in Nat
  BY DEF Stops, IsTable
<1>2. \E n \in Stops(T, k) : \A m \in Stops(T, k) : n <= m
  BY <1>1, Least
<1> DEFINE n == CHOOSE n \in Stops(T, k) : \A m \in Stops(T, k) : n <= m
<1>3. n \in Stops(T, k) /\ \A m \in Stops(T, k) : n <= m
  BY <1>2
<1>4. LookupInBucket(T, k) = Probed(T, k, n)
  BY DEF LookupInBucket
<1> HIDE DEF n
<1>5. n \in 0..T.capacity - 1 /\ StopsAt(T, k, Probed(T, k, n)) /\ n \in Nat
  BY <1>1, <1>3 DEF Stops
<1>6. \A m \in 0..n - 1 : ~StopsAt(T, k, Probed(T, k, m))
  <2> SUFFICES ASSUME NEW m \in 0..n - 1, StopsAt(T, k, Probed(T, k, m)) PROVE FALSE
    OBVIOUS
  <2>1. m \in 0..T.capacity - 1 /\ m < n
    BY <1>1, <1>5
  <2>2. m \in Stops(T, k)
    BY <2>1 DEF Stops
  <2> QED
    BY <1>3, <1>5, <2>1, <2>2
<1>7. Probed(T, k, n) \in Buckets(T)
  BY <1>5, ProbedBucket
<1> QED
  BY <1>3, <1>4, <1>5, <1>6, <1>7 DEF Buckets

\* It finds the entry of the key, or no entry has this key.
LEMMA LookupFinds ==
    ASSUME NEW T, TableOK(T), NEW k \in Keys, Stops(T, k) # {}
    PROVE  LET b == LookupInBucket(T, k) IN
           /\ b \in Buckets(T)
           /\ \/ /\ T.hash[b] = kHashTableElementUnused
                 /\ \A j \in LiveIn(T.data) : T.data[j][1] # k
              \/ /\ Points(T, b) /\ T.hash[b] + 1 \in LiveIn(T.data)
                 /\ T.data[T.hash[b] + 1][1] = k
<1>1. IsTable(T) /\ T.capacity \in Nat
  BY DEF TableOK, IsTable
<1> DEFINE b == LookupInBucket(T, k)
<1> HIDE DEF b
<1>2. PICK n \in Buckets(T) :
        /\ b = Probed(T, k, n) /\ b \in Buckets(T) /\ StopsAt(T, k, b)
        /\ \A m \in 0..n - 1 : ~StopsAt(T, k, Probed(T, k, m))
  BY <1>1, FirstStop DEF b
<1>3. CASE T.hash[b] = kHashTableElementUnused
  <2> SUFFICES ASSUME NEW j \in LiveIn(T.data), T.data[j][1] = k PROVE FALSE
    BY <1>2, <1>3 DEF b
  <2>1. PICK p \in Buckets(T) : ReachedAt(T, j, p)
    BY DEF TableOK, Reachable
  <2>2. T.hash[Probed(T, k, p)] = j - 1 /\ j \in 1..Len(T.data)
        /\ j - 1 # kHashTableElementUnused /\ j - 1 # kHashTableElementDeleted
        /\ j - 1 \in Nat /\ (j - 1) + 1 = j
    BY <1>1, <2>1, Marks DEF ReachedAt
  <2>3. StopsAt(T, k, Probed(T, k, p))
    BY <2>2 DEF StopsAt
  <2>4. n \in Nat /\ p \in Nat
    BY <1>1 DEF Buckets
  <2>5. ~(p < n)
    BY <1>2, <2>3, <2>4
  <2>6. n # p
    BY <1>2, <1>3, <2>2
  <2>7. n \in 0..p - 1
    BY <2>4, <2>5, <2>6
  <2> QED
    BY <1>2, <1>3, <2>1, <2>7 DEF ReachedAt
<1>4. CASE T.hash[b] # kHashTableElementUnused
  <2>1. Points(T, b) /\ T.data[T.hash[b] + 1][1] = k
    BY <1>2, <1>4 DEF StopsAt, Points
  <2>2. T.hash[b] + 1 \in LiveIn(T.data)
    BY <1>2, <2>1 DEF TableOK, PointersExact
  <2> QED
    BY <1>2, <2>1, <2>2 DEF b
<1> QED
  BY <1>3, <1>4

\* The places of a data table with one more entry.
LEMMA AppendLive ==
    ASSUME NEW data \in DataTables, NEW e \in Items
    PROVE  LET more == Append(data, e) IN
           /\ more \in DataTables /\ Len(more) = Len(data) + 1
           /\ more[Len(data) + 1] = e /\ \A j \in 1..Len(data) : more[j] = data[j]
           /\ LiveIn(more) = LiveIn(data) \cup {Len(data) + 1}
<1> DEFINE more == Append(data, e)
<1>1. data \in Seq(Items \cup {Empty}) /\ e \in Items \cup {Empty}
  BY DEF DataTables
<1>2. /\ more \in Seq(Items \cup {Empty}) /\ Len(more) = Len(data) + 1
      /\ more[Len(data) + 1] = e /\ \A j \in 1..Len(data) : more[j] = data[j]
      /\ Len(data) \in Nat
  BY <1>1
<1>3. e # Empty
  BY ItemsNotEmpty
<1> HIDE DEF more
<1>4. LiveIn(more) = LiveIn(data) \cup {Len(data) + 1}
  BY <1>2, <1>3 DEF LiveIn
<1> QED
  BY <1>2, <1>4 DEF DataTables, more

\* What a push changes: the bucket at which the probing for the key stops.
LEMMA PushIs ==
    ASSUME NEW T, IsTable(T), NEW e \in Items, LookupInBucket(T, e[1]) \in Buckets(T)
    PROVE  LET P == Push(T, e)
               b == LookupInBucket(T, e[1]) IN
           /\ P = [hash |-> P.hash, data |-> P.data, capacity |-> P.capacity]
           /\ P.capacity = T.capacity /\ P.data = Append(T.data, e)
           /\ P.hash = [T.hash EXCEPT ![b] = Len(T.data)]
           /\ P.hash \in [Buckets(T) -> Nat] /\ P.hash[b] = Len(T.data)
           /\ \A a \in Buckets(T) : a # b => P.hash[a] = T.hash[a]
<1> DEFINE b == LookupInBucket(T, e[1])
           h == [T.hash EXCEPT ![b] = Len(T.data)]
<1>1. T = [hash |-> T.hash, data |-> T.data, capacity |-> T.capacity]
  BY DEF IsTable
<1>2. Push(T, e) = [T EXCEPT !.hash = [@ EXCEPT ![b] = Len(T.data)],
                             !.data = Append(@, e)]
  BY <1>1 DEF Push
<1>3. Push(T, e) = [hash |-> h, data |-> Append(T.data, e), capacity |-> T.capacity]
  <2> HIDE DEF b
  <2> QED
    BY <1>1, <1>2
<1>4. T.hash \in [Buckets(T) -> Nat] /\ Len(T.data) \in Nat
  BY DEF IsTable, DataTables
<1>5. /\ h \in [Buckets(T) -> Nat] /\ h[b] = Len(T.data)
      /\ \A a \in Buckets(T) : a # b => h[a] = T.hash[a]
  <2> HIDE DEF b
  <2>1. b \in Buckets(T)
    BY DEF b
  <2> QED
    BY <1>4, <2>1
<1> HIDE DEF h, b
<1>6. /\ Push(T, e).hash = h /\ Push(T, e).capacity = T.capacity
      /\ Push(T, e).data = Append(T.data, e)
  BY <1>3
<1>7. b = LookupInBucket(T, e[1]) /\ h = [T.hash EXCEPT ![b] = Len(T.data)]
  BY DEF b, h
<1> QED
  BY <1>3, <1>5, <1>6, <1>7

\* Pushing an entry with a new key keeps the two parts of a table in agreement.
LEMMA PushOK ==
    ASSUME NEW T, TableOK(T), NEW e \in Items,
           Len(T.data) < T.capacity, Len(T.data) < kMaxCapacity,
           \A j \in LiveIn(T.data) : T.data[j][1] # e[1]
    PROVE  /\ TableOK(Push(T, e))
           /\ Push(T, e).capacity = T.capacity /\ Push(T, e).data = Append(T.data, e)
<1> DEFINE P == Push(T, e)
           b == LookupInBucket(T, e[1])
           L == Len(T.data)
<1>1. IsTable(T) /\ e[1] \in Keys /\ T.data \in DataTables /\ L \in Nat
      /\ T.capacity \in Nat /\ T.capacity > 0
  BY DEF TableOK, IsTable, DataTables, Items
<1>2. Stops(T, e[1]) # {}
  BY <1>1, RoomToStop
<1>3. PICK n \in Buckets(T) :
        /\ b = Probed(T, e[1], n) /\ b \in Buckets(T)
        /\ \A m \in 0..n - 1 : ~StopsAt(T, e[1], Probed(T, e[1], m))
  BY <1>1, <1>2, FirstStop
<1>4. T.hash[b] = kHashTableElementUnused
  BY <1>1, <1>2, LookupFinds
<1>5. /\ P = [hash |-> P.hash, data |-> P.data, capacity |-> P.capacity]
      /\ P.capacity = T.capacity /\ P.data = Append(T.data, e)
      /\ P.hash \in [Buckets(T) -> Nat] /\ P.hash[b] = L
      /\ \A a \in Buckets(T) : a # b => P.hash[a] = T.hash[a]
  BY <1>1, <1>3, PushIs
<1>6. /\ P.data \in DataTables /\ Len(P.data) = L + 1
      /\ P.data[L + 1] = e /\ \A j \in 1..L : P.data[j] = T.data[j]
      /\ LiveIn(P.data) = LiveIn(T.data) \cup {L + 1}
  BY <1>1, <1>5, AppendLive
<1> HIDE DEF P, b
<1>7. /\ L # kHashTableElementUnused /\ L # kHashTableElementDeleted
      /\ kHashTableElementUnused # kHashTableElementDeleted
  BY <1>1, CapacityAssumption DEF kHashTableElementUnused, kHashTableElementDeleted
<1>8. Buckets(P) = Buckets(T)
  BY <1>5 DEF Buckets
<1>9. \A j \in LiveIn(T.data) : /\ j \in 1..L /\ P.data[j] = T.data[j] /\ j # L + 1
                                /\ T.data[j][1] \in Keys /\ j - 1 # L
                                /\ j - 1 # kHashTableElementUnused
  BY <1>1, <1>6, Marks
<1>10. IsTable(P)
  BY <1>1, <1>5, <1>6, <1>8, CapacityAssumption DEF IsTable
<1>11. PointersExact(P)
  <2>1. ASSUME NEW a \in Buckets(T), Points(P, a)
        PROVE  P.hash[a] + 1 \in LiveIn(P.data)
    <3>1. CASE a = b
      BY <1>5, <1>6, <3>1
    <3>2. CASE a # b
      <4>1. P.hash[a] = T.hash[a] /\ Points(T, a)
        BY <1>5, <2>1, <3>2 DEF Points
      <4> QED
        BY <1>6, <4>1 DEF TableOK, PointersExact
    <3> QED
      BY <3>1, <3>2
  <2>2. ASSUME NEW a \in Buckets(T), NEW d \in Buckets(T), Points(P, a),
               P.hash[a] = P.hash[d]
        PROVE  a = d
    <3>1. \A x \in Buckets(T) : x # b /\ P.hash[x] = L => FALSE
      <4> SUFFICES ASSUME NEW x \in Buckets(T), x # b, P.hash[x] = L PROVE FALSE
        OBVIOUS
      <4>1. T.hash[x] = L /\ Points(T, x)
        BY <1>5, <1>7 DEF Points
      <4>2. L + 1 \in LiveIn(T.data)
        BY <4>1 DEF TableOK, PointersExact
      <4> QED
        BY <1>9, <4>2
    <3>2. CASE a = b \/ d = b
      BY <1>5, <2>2, <3>1, <3>2
    <3>3. CASE a # b /\ d # b
      <4>1. P.hash[a] = T.hash[a] /\ P.hash[d] = T.hash[d] /\ Points(T, a)
        BY <1>5, <2>2, <3>3 DEF Points
      <4> QED
        BY <2>2, <4>1 DEF TableOK, PointersExact
    <3> QED
      BY <3>2, <3>3
  <2> QED
    BY <1>8, <2>1, <2>2 DEF PointersExact
<1>12. \A k \in Keys, m \in Nat :
         Probed(P, k, m) = Probed(T, k, m) /\ Probed(T, k, m) \in Buckets(T)
  BY <1>1, <1>5, ProbedBucket DEF Probed
<1>13. \A a \in Buckets(T) : T.hash[a] # kHashTableElementUnused =>
         P.hash[a] # kHashTableElementUnused
  BY <1>4, <1>5
<1>14. Reachable(P)
  <2> SUFFICES ASSUME NEW j \in LiveIn(P.data)
               PROVE  \E p \in Buckets(T) : ReachedAt(P, j, p)
    BY <1>8 DEF Reachable
  <2>1. CASE j \in LiveIn(T.data)
    <3>1. PICK p \in Buckets(T) : ReachedAt(T, j, p)
      BY <2>1 DEF TableOK, Reachable
    <3> DEFINE k == T.data[j][1]
    <3>2. k \in Keys /\ P.data[j][1] = k /\ j - 1 # kHashTableElementUnused
      BY <1>9, <2>1
    <3> HIDE DEF k
    <3>3. /\ T.hash[Probed(T, k, p)] = j - 1
          /\ \A m \in 0..p - 1 : T.hash[Probed(T, k, m)] # kHashTableElementUnused
      BY <3>1 DEF ReachedAt, k
    <3>4. p \in Nat /\ \A m \in 0..p - 1 : m \in Nat
      BY <1>1 DEF Buckets
    <3>5. P.hash[Probed(P, k, p)] = j - 1
      BY <1>4, <1>5, <1>12, <3>2, <3>3, <3>4
    <3>6. \A m \in 0..p - 1 : P.hash[Probed(P, k, m)] # kHashTableElementUnused
      BY <1>12, <1>13, <3>2, <3>3, <3>4
    <3>7. ReachedAt(P, j, p)
      BY <3>2, <3>5, <3>6 DEF ReachedAt
    <3> QED
      BY <3>7
  <2>2. CASE j \notin LiveIn(T.data)
    <3>1. j = L + 1 /\ P.data[j] = e /\ j - 1 = L
      BY <1>1, <1>6, <2>2
    <3>2. n \in Nat /\ \A m \in 0..n - 1 : m \in Nat
      BY <1>1 DEF Buckets
    <3>3. P.hash[Probed(P, e[1], n)] = j - 1
      BY <1>1, <1>3, <1>5, <1>12, <3>1, <3>2
    <3>4. \A m \in 0..n - 1 : P.hash[Probed(P, e[1], m)] # kHashTableElementUnused
      BY <1>1, <1>3, <1>12, <1>13, <3>2 DEF StopsAt
    <3>5. ReachedAt(P, j, n)
      BY <3>1, <3>3, <3>4 DEF ReachedAt
    <3> QED
      BY <3>5
  <2> QED
    BY <2>1, <2>2
<1>15. KeysDistinct(P.data)
  <2> SUFFICES ASSUME NEW i \in LiveIn(P.data), NEW j \in LiveIn(P.data),
                      P.data[i][1] = P.data[j][1]
               PROVE  i = j
    BY DEF KeysDistinct
  <2>1. CASE i \in LiveIn(T.data) /\ j \in LiveIn(T.data)
    <3>1. T.data[i][1] = T.data[j][1]
      BY <1>9, <2>1
    <3> QED
      BY <2>1, <3>1 DEF TableOK, KeysDistinct
  <2>2. CASE i \notin LiveIn(T.data) /\ j \in LiveIn(T.data)
    <3>1. i = L + 1 /\ P.data[i] = e /\ P.data[j] = T.data[j]
      BY <1>6, <1>9, <2>2
    <3> QED
      BY <2>2, <3>1
  <2>3. CASE i \in LiveIn(T.data) /\ j \notin LiveIn(T.data)
    <3>1. j = L + 1 /\ P.data[j] = e /\ P.data[i] = T.data[i]
      BY <1>6, <1>9, <2>3
    <3> QED
      BY <2>3, <3>1
  <2>4. CASE i \notin LiveIn(T.data) /\ j \notin LiveIn(T.data)
    BY <1>6, <2>4
  <2> QED
    BY <2>1, <2>2, <2>3, <2>4
<1>16. Cardinality(Used(P)) = Len(P.data)
  <2>1. Used(P) = Used(T) \cup {b} /\ b \notin Used(T)
    BY <1>3, <1>4, <1>5, <1>7, <1>8 DEF Used
  <2>2. IsFiniteSet(Used(T))
    <3>1. IsFiniteSet(0..T.capacity - 1)
      BY <1>1, FS_Interval
    <3>2. Used(T) \subseteq 0..T.capacity - 1
      BY DEF Used, Buckets
    <3> QED
      BY <3>1, <3>2, FS_Subset
  <2>3. Cardinality(Used(P)) = Cardinality(Used(T)) + 1
    BY <2>1, <2>2, FS_AddElement
  <2> QED
    BY <1>6, <2>3 DEF TableOK
<1>17. TableOK(P)
  BY <1>10, <1>11, <1>14, <1>15, <1>16 DEF TableOK
<1> QED
  BY <1>5, <1>17 DEF P

\* The table without the entry that bucket b tells.
Removed(T, b) ==
    [T EXCEPT !.hash[b] = kHashTableElementDeleted, !.data[T.hash[b] + 1] = Empty]

\* What is left of the places of a data table when an entry is deleted.
LEMMA RemoveLive ==
    ASSUME NEW data \in DataTables, NEW j \in LiveIn(data)
    PROVE  LET less == [data EXCEPT ![j] = Empty] IN
           /\ less \in DataTables /\ Len(less) = Len(data) /\ less[j] = Empty
           /\ \A i \in 1..Len(data) : i # j => less[i] = data[i]
           /\ LiveIn(less) = LiveIn(data) \ {j}
<1> DEFINE less == [data EXCEPT ![j] = Empty]
<1>1. data \in Seq(Items \cup {Empty}) /\ Empty \in Items \cup {Empty} /\ j \in 1..Len(data)
  BY DEF DataTables, LiveIn
<1>2. /\ less \in Seq(Items \cup {Empty}) /\ Len(less) = Len(data)
      /\ \A i \in 1..Len(data) : less[i] = IF i = j THEN Empty ELSE data[i]
  BY <1>1, ExceptSeq
<1> HIDE DEF less
<1>3. LiveIn(less) = LiveIn(data) \ {j}
  BY <1>1, <1>2 DEF LiveIn
<1> QED
  BY <1>1, <1>2, <1>3 DEF DataTables, less

\* A bucket that is marked as deleted keeps the probes through it.
LEMMA RemovedOK ==
    ASSUME NEW T, TableOK(T), NEW b \in Buckets(T), Points(T, b)
    PROVE  LET j == T.hash[b] + 1 IN
           /\ TableOK(Removed(T, b)) /\ j \in LiveIn(T.data)
           /\ Removed(T, b).capacity = T.capacity
           /\ Removed(T, b).data = [T.data EXCEPT ![j] = Empty]
<1> DEFINE R == Removed(T, b)
           j == T.hash[b] + 1
           h == [T.hash EXCEPT ![b] = kHashTableElementDeleted]
           d == [T.data EXCEPT ![j] = Empty]
<1>1. /\ IsTable(T) /\ T.data \in DataTables /\ T.capacity \in Nat /\ T.capacity > 0
      /\ T.hash \in [Buckets(T) -> Nat] /\ kHashTableElementDeleted \in Nat
      /\ T = [hash |-> T.hash, data |-> T.data, capacity |-> T.capacity]
  BY CapacityAssumption DEF TableOK, IsTable, kHashTableElementDeleted
<1>2. j \in LiveIn(T.data)
  BY DEF TableOK, PointersExact
<1>3. /\ h \in [Buckets(T) -> Nat] /\ h[b] = kHashTableElementDeleted
      /\ \A a \in Buckets(T) : a # b => h[a] = T.hash[a]
  BY <1>1
<1>4. R = [hash |-> h, data |-> d, capacity |-> T.capacity]
  <2>1. R = [T EXCEPT !.hash = [@ EXCEPT ![b] = kHashTableElementDeleted],
                      !.data = [@ EXCEPT ![j] = Empty]]
    BY <1>1 DEF Removed
  <2> HIDE DEF j, R
  <2> QED
    BY <1>1, <2>1
<1>5. /\ d \in DataTables /\ Len(d) = Len(T.data)
      /\ \A i \in 1..Len(T.data) : i # j => d[i] = T.data[i]
      /\ LiveIn(d) = LiveIn(T.data) \ {j}
  <2> HIDE DEF j
  <2> QED
    BY <1>1, <1>2, RemoveLive
<1>6. j - 1 = T.hash[b] /\ T.hash[b] \in Nat
  BY <1>1
<1> HIDE DEF R, h, d, j
<1>7. /\ R = [hash |-> R.hash, data |-> R.data, capacity |-> R.capacity]
      /\ R.hash = h /\ R.data = d /\ R.capacity = T.capacity
  BY <1>4
<1>8. Buckets(R) = Buckets(T) /\ kHashTableElementDeleted # kHashTableElementUnused
  BY <1>7, CapacityAssumption
  DEF Buckets, kHashTableElementDeleted, kHashTableElementUnused
<1>9. IsTable(R)
  BY <1>1, <1>3, <1>5, <1>7, <1>8 DEF IsTable
<1>10. \A i \in LiveIn(d) : /\ i \in LiveIn(T.data) /\ i # j /\ d[i] = T.data[i]
                            /\ T.data[i][1] \in Keys /\ i - 1 # T.hash[b]
                            /\ i - 1 # kHashTableElementUnused
  <2> SUFFICES ASSUME NEW i \in LiveIn(d)
               PROVE  /\ i \in LiveIn(T.data) /\ i # j /\ d[i] = T.data[i]
                      /\ T.data[i][1] \in Keys /\ i - 1 # T.hash[b]
                      /\ i - 1 # kHashTableElementUnused
    OBVIOUS
  <2>1. i \in LiveIn(T.data) /\ i # j
    BY <1>5
  <2>2. IsTable(T)
    BY DEF TableOK
  <2>3. /\ i \in 1..Len(T.data) /\ T.data[i][1] \in Keys
        /\ i - 1 # kHashTableElementUnused /\ i \in Nat /\ j \in Nat
    <3>1. \A x \in LiveIn(T.data) :
            /\ x \in 1..Len(T.data) /\ T.data[x][1] \in Keys
            /\ x - 1 # kHashTableElementUnused /\ x \in Nat
      BY <2>2, Marks
    <3> QED
      BY <1>2, <2>1, <3>1
  <2>4. i - 1 # T.hash[b]
    BY <1>6, <2>1, <2>3
  <2> QED
    BY <1>5, <2>1, <2>3, <2>4
<1>11. PointersExact(R)
  <2>1. ASSUME NEW a \in Buckets(T), Points(R, a)
        PROVE  a # b /\ Points(T, a) /\ R.hash[a] = T.hash[a]
    BY <1>3, <1>7, <2>1 DEF Points
  <2>2. ASSUME NEW a \in Buckets(T), Points(R, a)
        PROVE  R.hash[a] + 1 \in LiveIn(R.data)
    <3>1. a # b /\ Points(T, a) /\ R.hash[a] = T.hash[a]
      BY <2>1, <2>2
    <3>2. T.hash[a] + 1 \in LiveIn(T.data) /\ T.hash[a] # T.hash[b]
      BY <3>1 DEF TableOK, PointersExact
    <3>3. T.hash[a] + 1 # j
      BY <1>1, <1>6, <3>2
    <3> QED
      BY <1>5, <1>7, <3>1, <3>2, <3>3
  <2>3. ASSUME NEW a \in Buckets(T), NEW x \in Buckets(T), Points(R, a),
               R.hash[a] = R.hash[x]
        PROVE  a = x
    <3>1. Points(R, x)
      BY <2>3 DEF Points
    <3>2. Points(T, a) /\ T.hash[a] = T.hash[x]
      BY <2>1, <2>3, <3>1
    <3> QED
      BY <3>2 DEF TableOK, PointersExact
  <2> QED
    BY <1>8, <2>2, <2>3 DEF PointersExact
<1>12. \A k \in Keys, m \in Nat :
         Probed(R, k, m) = Probed(T, k, m) /\ Probed(T, k, m) \in Buckets(T)
  BY <1>1, <1>7, ProbedBucket DEF Probed
<1>13. \A a \in Buckets(T) : T.hash[a] # kHashTableElementUnused =>
         R.hash[a] # kHashTableElementUnused
  BY <1>3, <1>7, <1>8
<1>14. Reachable(R)
  <2> SUFFICES ASSUME NEW i \in LiveIn(d)
               PROVE  \E p \in Buckets(T) : ReachedAt(R, i, p)
    BY <1>7, <1>8 DEF Reachable
  <2>1. PICK p \in Buckets(T) : ReachedAt(T, i, p)
    BY <1>10 DEF TableOK, Reachable
  <2> DEFINE k == T.data[i][1]
  <2>2. k \in Keys /\ R.data[i][1] = k
    BY <1>7, <1>10
  <2> HIDE DEF k
  <2>3. /\ T.hash[Probed(T, k, p)] = i - 1
        /\ \A m \in 0..p - 1 : T.hash[Probed(T, k, m)] # kHashTableElementUnused
    BY <2>1 DEF ReachedAt, k
  <2>4. p \in Nat /\ \A m \in 0..p - 1 : m \in Nat
    BY <1>1 DEF Buckets
  <2>5. R.hash[Probed(R, k, p)] = i - 1
    BY <1>3, <1>7, <1>10, <1>12, <2>2, <2>3, <2>4
  <2>6. \A m \in 0..p - 1 : R.hash[Probed(R, k, m)] # kHashTableElementUnused
    BY <1>12, <1>13, <2>2, <2>3, <2>4
  <2>7. ReachedAt(R, i, p)
    BY <2>2, <2>5, <2>6 DEF ReachedAt
  <2> QED
    BY <2>7
<1>15. KeysDistinct(d)
  BY <1>10 DEF TableOK, KeysDistinct
<1>16. Used(R) = Used(T)
  BY <1>3, <1>7, <1>8 DEF Used, Points
<1>17. TableOK(R)
  BY <1>5, <1>7, <1>9, <1>11, <1>14, <1>15, <1>16 DEF TableOK
<1> QED
  BY <1>2, <1>7, <1>17 DEF R, d, j

\* The places of a data table in which an entry has another value.
LEMMA ReplaceLive ==
    ASSUME NEW data \in DataTables, NEW j \in LiveIn(data), NEW e \in Items
    PROVE  LET same == [data EXCEPT ![j] = e] IN
           /\ same \in DataTables /\ Len(same) = Len(data) /\ same[j] = e
           /\ \A i \in 1..Len(data) : i # j => same[i] = data[i]
           /\ LiveIn(same) = LiveIn(data)
<1> DEFINE same == [data EXCEPT ![j] = e]
<1>1. /\ data \in Seq(Items \cup {Empty}) /\ e \in Items \cup {Empty} /\ j \in 1..Len(data)
      /\ data[j] # Empty /\ e # Empty
  BY ItemsNotEmpty DEF DataTables, LiveIn
<1>2. /\ same \in Seq(Items \cup {Empty}) /\ Len(same) = Len(data)
      /\ \A i \in 1..Len(data) : same[i] = IF i = j THEN e ELSE data[i]
  BY <1>1, ExceptSeq
<1> HIDE DEF same
<1>3. LiveIn(same) = LiveIn(data)
  BY <1>1, <1>2 DEF LiveIn
<1> QED
  BY <1>1, <1>2, <1>3 DEF DataTables, same

\* The hash table does not tell values.
LEMMA ReplacedOK ==
    ASSUME NEW T, TableOK(T), NEW j \in LiveIn(T.data), NEW e \in Items,
           e[1] = T.data[j][1], NEW R,
           R = [hash |-> T.hash, data |-> [T.data EXCEPT ![j] = e],
                capacity |-> T.capacity]
    PROVE  TableOK(R)
<1> DEFINE d == [T.data EXCEPT ![j] = e]
<1>1. /\ T.data \in DataTables /\ T.capacity \in Nat /\ T.capacity > 0
      /\ T.hash \in [Buckets(T) -> Nat] /\ Len(T.data) <= kMaxCapacity
  BY DEF TableOK, IsTable
<1>2. /\ d \in DataTables /\ Len(d) = Len(T.data) /\ d[j] = e
      /\ \A i \in 1..Len(T.data) : i # j => d[i] = T.data[i]
      /\ LiveIn(d) = LiveIn(T.data)
  BY <1>1, ReplaceLive
<1> HIDE DEF d
<1>3. R = [hash |-> T.hash, data |-> d, capacity |-> T.capacity]
  BY DEF d
<1>4. R.hash = T.hash /\ R.data = d /\ R.capacity = T.capacity /\ Buckets(R) = Buckets(T)
  BY <1>3 DEF Buckets
<1>5. \A i \in LiveIn(d) : i \in LiveIn(T.data) /\ d[i][1] = T.data[i][1]
  BY <1>2 DEF LiveIn
<1>6. IsTable(R)
  BY <1>1, <1>2, <1>3, <1>4 DEF IsTable
<1>7. PointersExact(R)
  BY <1>2, <1>4 DEF TableOK, PointersExact, Points
<1>8. \A k, m : Probed(R, k, m) = Probed(T, k, m)
  BY <1>4 DEF Probed
<1>9. Reachable(R)
  <2> SUFFICES ASSUME NEW i \in LiveIn(d)
               PROVE  \E n \in Buckets(T) : ReachedAt(R, i, n)
    BY <1>4 DEF Reachable
  <2>1. i \in LiveIn(T.data) /\ d[i][1] = T.data[i][1]
    BY <1>5
  <2>2. PICK n \in Buckets(T) : ReachedAt(T, i, n)
    BY <2>1 DEF TableOK, Reachable
  <2>3. ReachedAt(R, i, n)
    BY <1>4, <1>8, <2>1, <2>2 DEF ReachedAt
  <2> QED
    BY <2>3
<1>10. KeysDistinct(d)
  BY <1>5 DEF TableOK, KeysDistinct
<1>11. Used(R) = Used(T)
  BY <1>4 DEF Used
<1> QED
  BY <1>2, <1>4, <1>6, <1>7, <1>9, <1>10, <1>11 DEF TableOK

\* A table without entries.
LEMMA EmptyOK ==
    ASSUME NEW c \in Nat, c > 0
    PROVE  /\ TableOK(EmptyTable(c)) /\ EmptyTable(c).data = <<>>
           /\ EmptyTable(c).capacity = c /\ LiveIn(<<>>) = {}
<1> DEFINE T == EmptyTable(c)
<1>1. /\ T = [hash |-> T.hash, data |-> T.data, capacity |-> T.capacity]
      /\ T.hash = [b \in 0..(c - 1) |-> kHashTableElementUnused]
      /\ T.data = <<>> /\ T.capacity = c /\ kHashTableElementUnused \in Nat
      /\ kMaxCapacity \in Nat
  BY CapacityAssumption DEF EmptyTable, kHashTableElementUnused
<1> HIDE DEF T
<1>2. <<>> \in DataTables /\ Len(<<>>) = 0 /\ LiveIn(<<>>) = {}
  BY DEF DataTables, LiveIn
<1>3. IsTable(T)
  BY <1>1, <1>2 DEF IsTable, Buckets
<1>4. \A b \in Buckets(T) : T.hash[b] = kHashTableElementUnused
  BY <1>1 DEF Buckets
<1>5. PointersExact(T) /\ Reachable(T) /\ KeysDistinct(T.data)
  BY <1>1, <1>2, <1>4 DEF PointersExact, Points, Reachable, KeysDistinct
<1>6. Used(T) = {}
  BY <1>4 DEF Used
<1>7. Cardinality(Used(T)) = Len(T.data)
  BY <1>1, <1>2, <1>6, FS_EmptySet
<1>8. TableOK(T)
  BY <1>3, <1>5, <1>7 DEF TableOK
<1> QED
  BY <1>1, <1>2, <1>8 DEF T

------------------------------------------------------------------------------
(* A rehash.                                                                  *)

\* The tables on the way to the new one, one place after the other.
IsRehashUpTo(after, T, c) ==
    after = [n \in 0..Len(T.data) |->
              IF n = 0 THEN EmptyTable(c)
              ELSE IF T.data[n] = Empty THEN after[n - 1]
              ELSE Push(after[n - 1], T.data[n])]

\* There is such a function.
LEMMA RehashRecursion ==
    ASSUME NEW T, NEW c, Len(T.data) \in Nat
    PROVE  \E after : IsRehashUpTo(after, T, c) /\ Rehashed(T, c) = after[Len(T.data)]
<1> DEFINE Is(u, m) ==
      u = [n \in 0..m |->
            IF n = 0 THEN EmptyTable(c)
            ELSE IF T.data[n] = Empty THEN u[n - 1] ELSE Push(u[n - 1], T.data[n])]
<1> DEFINE S == {m \in 0..Len(T.data) : \E u : Is(u, m)}
<1>1. 0 \in S
  <2>1. Is([n \in 0..0 |-> EmptyTable(c)], 0) /\ 0 \in 0..Len(T.data)
    OBVIOUS
  <2> HIDE DEF Is
  <2> QED
    BY <2>1
<1>2. ASSUME NEW m \in 0..Len(T.data) - 1, m \in S
      PROVE  m + 1 \in S
  <2>1. PICK u : Is(u, m)
    BY <1>2
  <2> DEFINE e == IF T.data[m + 1] = Empty THEN u[m] ELSE Push(u[m], T.data[m + 1])
  <2> DEFINE w == [n \in 0..m + 1 |-> IF n = m + 1 THEN e ELSE u[n]]
  <2>2. \A n \in 0..m + 1 :
          w[n] = IF n = 0 THEN EmptyTable(c)
                 ELSE IF T.data[n] = Empty THEN w[n - 1] ELSE Push(w[n - 1], T.data[n])
    <3> SUFFICES ASSUME NEW n \in 0..m + 1
                 PROVE  w[n] = IF n = 0 THEN EmptyTable(c)
                               ELSE IF T.data[n] = Empty THEN w[n - 1]
                               ELSE Push(w[n - 1], T.data[n])
      OBVIOUS
    <3>1. CASE n = m + 1
      <4>1. w[n] = e /\ n - 1 = m /\ n # 0 /\ m # m + 1 /\ m \in 0..m + 1
        BY <3>1
      <4>2. w[n - 1] = u[m]
        BY <4>1
      <4> QED
        BY <3>1, <4>1, <4>2
    <3>2. CASE n # m + 1
      <4>1. n \in 0..m /\ w[n] = u[n]
        BY <3>2
      <4>2. n # 0 => w[n - 1] = u[n - 1]
        BY <3>2
      <4> HIDE DEF w
      <4> QED
        BY <2>1, <4>1, <4>2
    <3> QED
      BY <3>1, <3>2
  <2>3. w = [n \in 0..m + 1 |-> w[n]]
    OBVIOUS
  <2> HIDE DEF w
  <2>4. Is(w, m + 1)
    BY <2>2, <2>3
  <2> QED
    BY <2>4
<1>3. Len(T.data) \in S
  <2> HIDE DEF S
  <2>1. \A m \in 0..Len(T.data) - 1 : m \in S => m + 1 \in S
    BY <1>2
  <2>2. \A m \in 0..Len(T.data) : m \in S
    BY <1>1, <2>1, UpTo
  <2> QED
    BY <2>2
<1>4. \E after : IsRehashUpTo(after, T, c)
  BY <1>3 DEF IsRehashUpTo
<1>5. Rehashed(T, c) = (CHOOSE after : IsRehashUpTo(after, T, c))[Len(T.data)]
  BY DEF Rehashed, IsRehashUpTo
<1> QED
  BY <1>4, <1>5

\* No key that is among the entries collected so far is that of the next one.
LEMMA CollectsDistinct ==
    ASSUME NEW data \in DataTables, KeysDistinct(data), NEW n \in 1..Len(data),
           data[n] # Empty, NEW s, Collects(s, data, n - 1)
    PROVE  \A p \in LiveIn(s) : s[p][1] # data[n][1]
<1> SUFFICES ASSUME NEW p \in LiveIn(s) PROVE s[p][1] # data[n][1]
  OBVIOUS
<1>1. Len(data) \in Nat /\ n - 1 \in 0..Len(data) /\ n \in LiveIn(data) /\ n \in Nat
  BY DEF DataTables, LiveIn
<1>2. p \in 1..Rank(data, n - 1)
  BY DEF LiveIn, Collects
<1>3. PICK j \in LiveUpTo(data, n - 1) : Rank(data, j) = p
  BY <1>1, <1>2, RankOnto
<1>4. j \in LiveIn(data) /\ j # n /\ s[p] = data[j]
  BY <1>1, <1>3 DEF LiveUpTo, Collects
<1> QED
  BY <1>1, <1>4 DEF KeysDistinct

\* A rehash makes a table that agrees with itself, of the entries in their order.
LEMMA RehashedOK ==
    ASSUME NEW T, T.data \in DataTables, KeysDistinct(T.data),
           NEW c \in Nat, c > 0, c <= kMaxCapacity,
           Rank(T.data, Len(T.data)) <= c
    PROVE  /\ TableOK(Rehashed(T, c)) /\ Rehashed(T, c).capacity = c
           /\ Rehashed(T, c).data = Entries(T.data)
<1> DEFINE data == T.data
           L == Len(T.data)
<1>1. L \in Nat /\ data \in DataTables /\ KeysDistinct(data)
  BY DEF DataTables
<1>2. PICK u : /\ IsEntriesUpTo(u, data) /\ u[L] = Entries(data)
               /\ \A n \in 0..L : Collects(u[n], data, n)
  BY <1>1, EntriesPrefix
<1>3. PICK after : IsRehashUpTo(after, T, c) /\ Rehashed(T, c) = after[L]
  BY <1>1, RehashRecursion
<1>4. \A n \in 0..L :
        u[n] = IF n = 0 THEN <<>>
               ELSE IF data[n] = Empty THEN u[n - 1] ELSE Append(u[n - 1], data[n])
  BY <1>2 DEF IsEntriesUpTo
<1>5. \A n \in 0..L :
        after[n] = IF n = 0 THEN EmptyTable(c)
                   ELSE IF data[n] = Empty THEN after[n - 1]
                   ELSE Push(after[n - 1], data[n])
  BY <1>3 DEF IsRehashUpTo
<1> DEFINE Good(n) == TableOK(after[n]) /\ after[n].capacity = c /\ after[n].data = u[n]
           S == {n \in 0..L : Good(n)}
<1> HIDE DEF data, L
<1>6. 0 \in S
  <2>1. 0 \in 0..L
    BY <1>1
  <2>2. after[0] = EmptyTable(c) /\ u[0] = <<>>
    BY <1>4, <1>5, <2>1
  <2>3. Good(0)
    BY <2>2, EmptyOK
  <2> QED
    BY <2>1, <2>3
<1>7. ASSUME NEW n \in 0..L - 1, n \in S
      PROVE  n + 1 \in S
  <2>1. n + 1 \in 1..L /\ n \in 0..L /\ (n + 1) - 1 = n /\ n + 1 \in 0..L /\ n + 1 # 0
        /\ n + 1 \in Nat
    BY <1>1
  <2>2. Good(n) /\ Collects(u[n], data, n)
    BY <1>2, <1>7
  <2> HIDE DEF S
  <2>3. /\ after[n + 1] = IF data[n + 1] = Empty THEN after[n]
                          ELSE Push(after[n], data[n + 1])
        /\ u[n + 1] = IF data[n + 1] = Empty THEN u[n] ELSE Append(u[n], data[n + 1])
    BY <1>4, <1>5, <2>1
  <2>4. CASE data[n + 1] = Empty
    <3>1. Good(n + 1)
      BY <2>2, <2>3, <2>4
    <3> QED
      BY <2>1, <3>1 DEF S
  <2>5. CASE data[n + 1] # Empty
    <3> DEFINE e == data[n + 1]
    <3>1. e \in Items
      BY <1>1, <2>1, <2>5 DEF DataTables, L, data
    <3>2. Len(u[n]) = Rank(data, n)
      BY <2>2 DEF Collects
    <3>3. Rank(data, n) < Rank(data, n + 1) /\ Rank(data, n + 1) <= Rank(data, L)
          /\ Rank(data, n) \in Nat /\ Rank(data, n + 1) \in Nat /\ Rank(data, L) \in Nat
      <4>1. Rank(data, n + 1) = Rank(data, n) + 1
        BY <1>1, <2>1, <2>5, RankStep DEF data, L
      <4>2. Rank(data, n + 1) <= Rank(data, L)
        BY <1>1, <2>1, RankGrows DEF data, L
      <4>3. Len(data) \in Nat
        BY <1>1 DEF data, L
      <4>4. \A m \in Nat : Rank(data, m) \in Nat
        BY <4>3, RankStep
      <4>5. n \in Nat
        BY <1>1, <2>1
      <4> QED
        BY <1>1, <2>1, <4>1, <4>2, <4>4, <4>5
    <3>4. Rank(data, L) <= c /\ c <= kMaxCapacity /\ kMaxCapacity \in Nat
      BY CapacityAssumption DEF data, L
    <3>5. Len(after[n].data) < after[n].capacity /\ Len(after[n].data) < kMaxCapacity
      BY <2>2, <3>2, <3>3, <3>4
    <3>6. \A p \in LiveIn(u[n]) : u[n][p][1] # e[1]
      BY <1>1, <2>1, <2>2, <2>5, CollectsDistinct DEF L, data
    <3> HIDE DEF e
    <3>7. /\ TableOK(Push(after[n], e)) /\ Push(after[n], e).capacity = c
          /\ Push(after[n], e).data = Append(u[n], e)
      BY <2>2, <3>1, <3>5, <3>6, PushOK
    <3>8. Good(n + 1)
      BY <2>3, <2>5, <3>7 DEF e
    <3> QED
      BY <2>1, <3>8 DEF S
  <2> QED
    BY <2>4, <2>5
<1>8. \A n \in 0..L : n \in S
  <2> HIDE DEF S
  <2>1. \A n \in 0..L - 1 : n \in S => n + 1 \in S
    BY <1>7
  <2> QED
    BY <1>1, <1>6, <2>1, UpTo
<1>9. Good(L)
  BY <1>1, <1>8
<1> QED
  BY <1>2, <1>3, <1>9 DEF data

------------------------------------------------------------------------------
(* What the operations do to the entries in order.                            *)

\* Where an entry is among the entries, and that each of them is some entry.
LEMMA EntryPlaces ==
    ASSUME NEW data \in DataTables
    PROVE  LET E == Entries(data) IN
           /\ E \in Seq(Items) /\ Len(E) = Rank(data, Len(data))
           /\ \A j \in LiveIn(data) : Rank(data, j) \in 1..Len(E) /\ E[Rank(data, j)] = data[j]
           /\ \A p \in 1..Len(E) : \E j \in LiveIn(data) : Rank(data, j) = p
<1> DEFINE E == Entries(data)
<1>1. Len(data) \in Nat
  BY DEF DataTables
<1>2. Collects(E, data, Len(data))
  BY EntriesUnique
<1> HIDE DEF E
<1>3. LiveUpTo(data, Len(data)) = LiveIn(data)
  BY <1>1 DEF LiveUpTo, LiveIn
<1>4. E \in Seq(Items) /\ Len(E) = Rank(data, Len(data))
  BY <1>2 DEF Collects
<1>5. \A j \in LiveIn(data) : Rank(data, j) \in 1..Rank(data, Len(data))
  BY <1>1, <1>3, RankOnto
<1>6. \A j \in LiveIn(data) : E[Rank(data, j)] = data[j]
  BY <1>2, <1>3 DEF Collects
<1>7. \A p \in 1..Rank(data, Len(data)) : \E j \in LiveIn(data) : Rank(data, j) = p
  BY <1>1, <1>3, RankOnto
<1> QED
  BY <1>4, <1>5, <1>6, <1>7 DEF E

\* The entries of a data table are a data table without deleted ones.
LEMMA EntriesCompact ==
    ASSUME NEW data \in DataTables
    PROVE  LET E == Entries(data) IN
           /\ E \in DataTables /\ LiveIn(E) = 1..Len(E) /\ Entries(E) = E
           /\ \A n \in 0..Len(E) : Rank(E, n) = n
<1> DEFINE E == Entries(data)
<1>1. E \in Seq(Items)
  BY EntryPlaces
<1> HIDE DEF E
<1>2. E \in DataTables /\ Len(E) \in Nat /\ \A j \in 1..Len(E) : E[j] \in Items
  BY <1>1 DEF DataTables
<1>3. LiveIn(E) = 1..Len(E)
  BY <1>2, ItemsNotEmpty DEF LiveIn
<1>4. ASSUME NEW n \in 0..Len(E)
      PROVE  Rank(E, n) = n
  <2>1. LiveUpTo(E, n) = 1..n
    BY <1>2, <1>3 DEF LiveUpTo
  <2>2. Cardinality(1..n) = n
    BY <1>2, FS_Interval
  <2> QED
    BY <2>1, <2>2 DEF Rank
<1>5. Len(E) \in 0..Len(E) /\ \A j \in LiveUpTo(E, Len(E)) : j \in 0..Len(E)
  BY <1>2 DEF LiveUpTo, LiveIn
<1>6. Collects(E, E, Len(E))
  BY <1>1, <1>4, <1>5 DEF Collects
<1>7. Entries(E) = E
  BY <1>2, <1>6, EntriesUnique
<1> QED
  BY <1>2, <1>3, <1>4, <1>7 DEF E

\* A new entry comes after the others, and moves none of them.
LEMMA EntriesAppend ==
    ASSUME NEW data \in DataTables, NEW e \in Items
    PROVE  LET more == Append(data, e) IN
           /\ Entries(more) = Append(Entries(data), e)
           /\ \A n \in 0..Len(data) : Rank(more, n) = Rank(data, n)
           /\ Rank(more, Len(more)) = Rank(data, Len(data)) + 1
<1> DEFINE more == Append(data, e)
           L == Len(data)
<1>1. /\ more \in DataTables /\ Len(more) = L + 1 /\ more[L + 1] = e
      /\ \A j \in 1..L : more[j] = data[j]
      /\ LiveIn(more) = LiveIn(data) \cup {L + 1}
  BY AppendLive
<1>2. L \in Nat /\ e # Empty
  BY ItemsNotEmpty DEF DataTables
<1> HIDE DEF more
<1>3. \A n \in 0..L : LiveUpTo(more, n) = LiveUpTo(data, n)
  BY <1>1, <1>2 DEF LiveUpTo
<1>4. \A n \in 0..L : Rank(more, n) = Rank(data, n)
  BY <1>3 DEF Rank
<1>5. L + 1 \in 1..Len(more) /\ (L + 1) - 1 = L /\ Len(more) \in Nat /\ L \in 0..L
  BY <1>1, <1>2
<1>6. Rank(more, L + 1) = Rank(data, L) + 1
  <2>1. Rank(more, L + 1) = IF more[L + 1] = Empty THEN Rank(more, (L + 1) - 1)
                            ELSE Rank(more, (L + 1) - 1) + 1
    BY <1>5, RankStep
  <2>2. Rank(more, (L + 1) - 1) = Rank(data, L)
    BY <1>4, <1>5
  <2> QED
    BY <1>1, <1>2, <2>1, <2>2
<1>7. Collects(Entries(data), more, L)
  <2>1. Collects(Entries(data), data, L)
    BY EntriesUnique
  <2>2. \A j \in LiveUpTo(data, L) : j \in 0..L /\ more[j] = data[j]
    BY <1>1, <1>2 DEF LiveUpTo, LiveIn
  <2> QED
    BY <1>3, <1>4, <1>5, <2>1, <2>2 DEF Collects
<1>8. Collects(Append(Entries(data), e), more, L + 1)
  <2> DEFINE s == Entries(data)
  <2> HIDE DEF s
  <2>1. Collects(s, more, (L + 1) - 1)
    BY <1>5, <1>7 DEF s
  <2>2. Collects(Append(s, more[L + 1]), more, L + 1)
    BY <1>1, <1>2, <1>5, <2>1, CollectsStep
  <2> QED
    BY <1>1, <2>2 DEF s
<1>9. Entries(more) = Append(Entries(data), e)
  BY <1>1, <1>8, EntriesUnique
<1> QED
  BY <1>1, <1>4, <1>6, <1>9 DEF more

\* Another value leaves the order as it is.
LEMMA EntriesReplace ==
    ASSUME NEW data \in DataTables, NEW j \in LiveIn(data), NEW e \in Items
    PROVE  LET same == [data EXCEPT ![j] = e] IN
           /\ Entries(same) = [Entries(data) EXCEPT ![Rank(data, j)] = e]
           /\ \A n : Rank(same, n) = Rank(data, n)
<1> DEFINE same == [data EXCEPT ![j] = e]
           E == Entries(data)
           r == Rank(data, j)
<1>1. /\ same \in DataTables /\ Len(same) = Len(data) /\ same[j] = e
      /\ \A i \in 1..Len(data) : i # j => same[i] = data[i]
      /\ LiveIn(same) = LiveIn(data)
  BY ReplaceLive
<1>2. Len(data) \in Nat /\ j \in 1..Len(data)
  BY DEF DataTables, LiveIn
<1>3. /\ E \in Seq(Items) /\ Len(E) = Rank(data, Len(data)) /\ r \in 1..Len(E)
      /\ \A i \in LiveIn(data) : Rank(data, i) \in 1..Len(E) /\ E[Rank(data, i)] = data[i]
  BY EntryPlaces
<1> HIDE DEF same, E
<1>4. \A n : LiveUpTo(same, n) = LiveUpTo(data, n)
  BY <1>1 DEF LiveUpTo
<1>5. \A n : Rank(same, n) = Rank(data, n)
  BY <1>4 DEF Rank
<1> DEFINE t == [E EXCEPT ![r] = e]
<1>6. /\ t \in Seq(Items) /\ Len(t) = Len(E)
      /\ \A q \in 1..Len(E) : t[q] = IF q = r THEN e ELSE E[q]
  <2> HIDE DEF r
  <2> QED
    BY <1>3, ExceptSeq
<1> HIDE DEF t
<1>7. ASSUME NEW i \in LiveUpTo(same, Len(same))
      PROVE  t[Rank(same, i)] = same[i]
  <2>1. i \in LiveIn(data) /\ i \in 1..Len(data) /\ Rank(same, i) = Rank(data, i)
    BY <1>1, <1>5 DEF LiveUpTo, LiveIn
  <2>2. Rank(data, i) = r => i = j
    BY <1>2, <2>1, RankOnto
  <2> QED
    BY <1>1, <1>3, <1>6, <2>1, <2>2
<1>8. Collects(t, same, Len(same))
  BY <1>1, <1>3, <1>5, <1>6, <1>7 DEF Collects
<1>9. t = Entries(same)
  BY <1>1, <1>8, EntriesUnique
<1> QED
  BY <1>5, <1>9 DEF same, E, t

\* A sequence without its r-th element.
LEMMA WithoutOne ==
    ASSUME NEW S, NEW s \in Seq(S), NEW r \in 1..Len(s)
    PROVE  LET t == SubSeq(s, 1, r - 1) \o SubSeq(s, r + 1, Len(s)) IN
           /\ t \in Seq(S) /\ Len(t) = Len(s) - 1
           /\ \A q \in 1..Len(s) - 1 : t[q] = IF q < r THEN s[q] ELSE s[q + 1]
<1> DEFINE x == SubSeq(s, 1, r - 1)
           y == SubSeq(s, r + 1, Len(s))
           t == x \o y
<1>1. Len(s) \in Nat /\ r \in Nat /\ \A i \in 1..Len(s) : s[i] \in S
  OBVIOUS
<1>2. /\ x \in Seq(S) /\ Len(x) = r - 1
      /\ \A i \in 1..r - 1 : x[i] = s[i]
  <2>1. 1 \in Int /\ r - 1 \in Int /\ \A i \in 1..r - 1 : s[i] \in S
    BY <1>1
  <2>2. /\ x \in Seq(S) /\ Len(x) = IF 1 <= r - 1 THEN (r - 1) - 1 + 1 ELSE 0
        /\ \A i \in 1..(r - 1) - 1 + 1 : x[i] = s[1 + i - 1]
    BY <2>1, SubSeqProperties
  <2> HIDE DEF x
  <2> QED
    BY <1>1, <2>2
<1>3. /\ y \in Seq(S) /\ Len(y) = Len(s) - r
      /\ \A i \in 1..Len(s) - r : y[i] = s[r + i]
  <2>1. r + 1 \in Int /\ Len(s) \in Int /\ \A i \in r + 1..Len(s) : s[i] \in S
    BY <1>1
  <2>2. /\ y \in Seq(S) /\ Len(y) = IF r + 1 <= Len(s) THEN Len(s) - (r + 1) + 1 ELSE 0
        /\ \A i \in 1..Len(s) - (r + 1) + 1 : y[i] = s[(r + 1) + i - 1]
    BY <2>1, SubSeqProperties
  <2> HIDE DEF y
  <2>3. r <= Len(s)
    BY <1>1
  <2>4. Len(y) = Len(s) - r
    BY <1>1, <2>2, <2>3
  <2>5. \A i \in 1..Len(s) - r : i \in 1..Len(s) - (r + 1) + 1 /\ (r + 1) + i - 1 = r + i
    BY <1>1
  <2> QED
    BY <2>2, <2>4, <2>5
<1> HIDE DEF x, y
<1>4. /\ t \in Seq(S) /\ Len(t) = Len(x) + Len(y)
      /\ \A i \in 1..Len(x) + Len(y) : t[i] = IF i <= Len(x) THEN x[i] ELSE y[i - Len(x)]
  BY <1>2, <1>3, ConcatProperties
<1> HIDE DEF t
<1>5. Len(x) + Len(y) = Len(s) - 1
  BY <1>1, <1>2, <1>3
<1>6. ASSUME NEW q \in 1..Len(s) - 1
      PROVE  t[q] = IF q < r THEN s[q] ELSE s[q + 1]
  <2>1. t[q] = IF q <= r - 1 THEN x[q] ELSE y[q - (r - 1)]
    BY <1>2, <1>4, <1>5
  <2>2. CASE q < r
    BY <1>1, <1>2, <2>1, <2>2
  <2>3. CASE ~(q < r)
    <3>1. q - (r - 1) \in 1..Len(s) - r /\ r + (q - (r - 1)) = q + 1 /\ ~(q <= r - 1)
      BY <1>1, <2>3
    <3>2. y[q - (r - 1)] = s[r + (q - (r - 1))]
      BY <1>3, <3>1
    <3> QED
      BY <2>1, <2>3, <3>1, <3>2
  <2> QED
    BY <2>2, <2>3
<1> QED
  BY <1>4, <1>5, <1>6 DEF t, x, y

\* A deleted entry is gone, and those behind it come one place earlier.
LEMMA EntriesRemove ==
    ASSUME NEW data \in DataTables, NEW j \in LiveIn(data)
    PROVE  LET less == [data EXCEPT ![j] = Empty]
               E == Entries(data)
               r == Rank(data, j) IN
           /\ Entries(less) = SubSeq(E, 1, r - 1) \o SubSeq(E, r + 1, Len(E))
           /\ \A n \in Nat : Rank(less, n) = IF n < j THEN Rank(data, n)
                                             ELSE Rank(data, n) - 1
<1> DEFINE less == [data EXCEPT ![j] = Empty]
           E == Entries(data)
           r == Rank(data, j)
           t == SubSeq(E, 1, r - 1) \o SubSeq(E, r + 1, Len(E))
<1>1. /\ less \in DataTables /\ Len(less) = Len(data)
      /\ \A i \in 1..Len(data) : i # j => less[i] = data[i]
      /\ LiveIn(less) = LiveIn(data) \ {j}
  BY RemoveLive
<1>2. Len(data) \in Nat /\ j \in 1..Len(data) /\ j \in Nat
  BY DEF DataTables, LiveIn
<1>3. /\ E \in Seq(Items) /\ Len(E) = Rank(data, Len(data)) /\ r \in 1..Len(E)
      /\ \A i \in LiveIn(data) : Rank(data, i) \in 1..Len(E) /\ E[Rank(data, i)] = data[i]
  BY EntryPlaces
<1> HIDE DEF less, E, r
<1>4. ASSUME NEW n \in Nat
      PROVE  Rank(less, n) = IF n < j THEN Rank(data, n) ELSE Rank(data, n) - 1
  <2>1. CASE n < j
    <3>1. LiveUpTo(less, n) = LiveUpTo(data, n)
      BY <1>1, <1>2, <2>1 DEF LiveUpTo
    <3> QED
      BY <2>1, <3>1 DEF Rank
  <2>2. CASE ~(n < j)
    <3>1. LiveUpTo(less, n) = LiveUpTo(data, n) \ {j} /\ j \in LiveUpTo(data, n)
      BY <1>1, <1>2, <2>2 DEF LiveUpTo
    <3>2. IsFiniteSet(LiveUpTo(data, n))
      BY <1>2, RankStep
    <3>3. Cardinality(LiveUpTo(data, n) \ {j}) = Cardinality(LiveUpTo(data, n)) - 1
      BY <3>1, <3>2, FS_RemoveElement
    <3> QED
      BY <2>2, <3>1, <3>3 DEF Rank
  <2> QED
    BY <2>1, <2>2
<1>5. /\ t \in Seq(Items) /\ Len(t) = Len(E) - 1
      /\ \A q \in 1..Len(E) - 1 : t[q] = IF q < r THEN E[q] ELSE E[q + 1]
  BY <1>3, WithoutOne
<1> HIDE DEF t
<1>6. Len(t) = Rank(less, Len(less))
  BY <1>1, <1>2, <1>3, <1>4, <1>5
<1>7. ASSUME NEW i \in LiveUpTo(less, Len(less))
      PROVE  t[Rank(less, i)] = less[i]
  <2>1. i \in LiveIn(data) /\ i # j /\ i \in 1..Len(data) /\ i \in Nat /\ less[i] = data[i]
    BY <1>1, <1>2 DEF LiveUpTo, LiveIn
  <2>2. Rank(data, i) \in 1..Len(E) /\ E[Rank(data, i)] = data[i] /\ Len(E) \in Nat
    BY <1>3, <2>1
  <2>3. CASE i < j
    <3>1. Rank(less, i) = Rank(data, i) /\ Rank(data, i) < r
      BY <1>2, <1>4, <2>1, <2>3, RankGrows DEF r
    <3>2. Rank(data, i) \in 1..Len(E) - 1
      BY <1>3, <2>2, <3>1
    <3> QED
      BY <1>5, <2>1, <2>2, <3>1, <3>2
  <2>4. CASE j < i
    <3>1. Rank(less, i) = Rank(data, i) - 1 /\ r < Rank(data, i)
      BY <1>2, <1>4, <2>1, <2>4, RankGrows DEF r
    <3>2. /\ Rank(data, i) - 1 \in 1..Len(E) - 1 /\ ~(Rank(data, i) - 1 < r)
          /\ (Rank(data, i) - 1) + 1 = Rank(data, i)
      BY <1>3, <2>2, <3>1
    <3>3. t[Rank(data, i) - 1] = E[Rank(data, i)]
      BY <1>5, <3>2
    <3> QED
      BY <2>1, <2>2, <3>1, <3>3
  <2> QED
    BY <1>2, <2>1, <2>3, <2>4
<1>8. Collects(t, less, Len(less))
  BY <1>5, <1>6, <1>7 DEF Collects
<1>9. t = Entries(less)
  BY <1>1, <1>8, EntriesUnique
<1> QED
  BY <1>4, <1>9 DEF less, E, r, t

------------------------------------------------------------------------------
(* Capacities.                                                                *)

\* The initial capacity and what doubling makes of it.
Capacities ==
    {c \in Nat : \A S \in SUBSET Nat :
        kInitialCapacity \in S /\ (\A x \in S : 2 * x \in S) => c \in S}

\* A capacity above the initial one is twice another capacity.
LEMMA CapacitiesDouble ==
    /\ kInitialCapacity \in Capacities
    /\ \A c \in Capacities : /\ c \in Nat /\ kInitialCapacity <= c /\ 2 * c \in Capacities
                             /\ c > kInitialCapacity => c \div 2 \in Capacities
<1>1. kInitialCapacity \in Capacities
  BY CapacityAssumption DEF Capacities
<1>2. ASSUME NEW c \in Capacities
      PROVE  2 * c \in Capacities
  BY DEF Capacities
<1>3. ASSUME NEW c \in Capacities
      PROVE  kInitialCapacity <= c /\ (c > kInitialCapacity => c \div 2 \in Capacities)
  <2> DEFINE S == {x \in Nat : /\ kInitialCapacity <= x
                               /\ x > kInitialCapacity =>
                                    \E d \in Capacities : x = 2 * d}
  <2>1. S \cap Capacities \in SUBSET Nat /\ kInitialCapacity \in S \cap Capacities
    BY <1>1, CapacityAssumption
  <2>2. \A x \in S \cap Capacities : 2 * x \in S \cap Capacities
    <3> SUFFICES ASSUME NEW x \in S \cap Capacities PROVE 2 * x \in S \cap Capacities
      OBVIOUS
    <3>1. x \in Nat /\ kInitialCapacity <= x /\ x \in Capacities
      OBVIOUS
    <3>2. 2 * x \in Nat /\ kInitialCapacity <= 2 * x
      BY <3>1, CapacityAssumption
    <3>3. 2 * x \in Capacities
      BY <1>2, <3>1
    <3> QED
      BY <3>1, <3>2, <3>3
  <2>3. c \in S \cap Capacities
    <3> HIDE DEF S
    <3>1. \A Q \in SUBSET Nat : kInitialCapacity \in Q /\ (\A x \in Q : 2 * x \in Q) => c \in Q
      BY DEF Capacities
    <3> QED
      BY <2>1, <2>2, <3>1
  <2>4. c > kInitialCapacity => c \div 2 \in Capacities
    <3> SUFFICES ASSUME c > kInitialCapacity PROVE c \div 2 \in Capacities
      OBVIOUS
    <3>1. PICK d \in Capacities : c = 2 * d
      BY <2>3
    <3>2. d \in Nat
      BY DEF Capacities
    <3>3. c \div 2 = d
      BY <3>1, <3>2
    <3> QED
      BY <3>3
  <2> QED
    BY <2>3, <2>4
<1> QED
  BY <1>1, <1>2, <1>3 DEF Capacities

------------------------------------------------------------------------------
(* The inductive invariant.                                                   *)

\* A table with its counters: half of the buckets, at least, were never used.
MapOK(T, sz, deleted) ==
    /\ TableOK(T) /\ T.capacity \in Capacities /\ T.capacity <= kMaxCapacity
    /\ Len(T.data) <= rehashThreshold(T.capacity)
    /\ sz = Rank(T.data, Len(T.data))
    /\ deleted \in Nat /\ sz + deleted = Len(T.data)

\* The index of an iterator over n places, and how many entries it has behind it.
IndexOK(index, n) ==
    /\ index \in Indices
    /\ index.first => index.value = 0
    /\ ~index.first => index.value < n
Place(index, data) == IF index.first THEN 0 ELSE Rank(data, index.value + 1)
IndicesOK(idx, n) ==
    /\ idx \in [Iterators -> Indices \cup {Free, Done}]
    /\ \A i \in Iterators : idx[i] \notin {Free, Done} => IndexOK(idx[i], n)

\* The entries and the counters, which a failed rehash leaves alone.
EntriesOK(data, sz, deleted) ==
    /\ data \in DataTables /\ KeysDistinct(data)
    /\ sz = Rank(data, Len(data))
    /\ deleted \in Nat /\ sz + deleted = Len(data)

MapInv ==
    /\ EntriesOK(dataTable, size, deletedCount)
    /\ IndicesOK(iteratorIndices, Len(dataTable))
    /\ Consistent => MapOK(Table, size, deletedCount)

\* An invariant table has room: every probing ends, and a threshold is no capacity.
LEMMA RoomIn ==
    ASSUME NEW T, NEW sz, NEW deleted, MapOK(T, sz, deleted)
    PROVE  /\ T.capacity \in Nat /\ kInitialCapacity <= T.capacity
           /\ Len(T.data) \in Nat /\ sz \in Nat
           /\ Len(T.data) < T.capacity /\ Len(T.data) < kMaxCapacity
           /\ \A k \in Keys : Stops(T, k) # {}
<1>1. /\ T.capacity \in Nat /\ kInitialCapacity <= T.capacity /\ T.capacity <= kMaxCapacity
      /\ Len(T.data) <= T.capacity \div 2 /\ TableOK(T)
  BY CapacitiesDouble DEF MapOK, rehashThreshold
<1>2. Len(T.data) \in Nat
  BY <1>1 DEF TableOK, IsTable, DataTables
<1>3. sz \in Nat
  BY <1>2, RankStep DEF MapOK
<1>4. Len(T.data) < T.capacity /\ Len(T.data) < kMaxCapacity
  BY <1>1, <1>2, CapacityAssumption
<1>5. \A k \in Keys : Stops(T, k) # {}
  BY <1>1, <1>4, RoomToStop
<1> QED
  BY <1>1, <1>2, <1>3, <1>4, <1>5

\* Lookups in an invariant table.
LEMMA HasExactly ==
    ASSUME MapInv, Consistent, NEW k \in Keys
    PROVE  LET b == LookupInBucket(Table, k) IN
           /\ b \in Buckets(Table) /\ hashTable[b] = Table.hash[b]
           /\ Has(k) => /\ Points(Table, b) /\ hashTable[b] + 1 \in LiveIn(dataTable)
                        /\ dataTable[hashTable[b] + 1][1] = k
           /\ ~Has(k) => \A j \in LiveIn(dataTable) : dataTable[j][1] # k
<1>1. /\ Table.hash = hashTable /\ Table.data = dataTable /\ Table.capacity = capacity
      /\ TableOK(Table)
  BY DEF Table, MapInv, MapOK
<1>2. Stops(Table, k) # {}
  BY RoomIn DEF MapInv
<1> DEFINE b == LookupInBucket(Table, k)
<1>3. /\ b \in Buckets(Table)
      /\ \/ /\ Table.hash[b] = kHashTableElementUnused
            /\ \A j \in LiveIn(Table.data) : Table.data[j][1] # k
         \/ /\ Points(Table, b) /\ Table.hash[b] + 1 \in LiveIn(Table.data)
            /\ Table.data[Table.hash[b] + 1][1] = k
  BY <1>1, <1>2, LookupFinds
<1>4. Has(k) <=> hashTable[b] # kHashTableElementUnused
  BY DEF Has
<1> HIDE DEF b
<1>5. Points(Table, b) => hashTable[b] # kHashTableElementUnused
  BY <1>1 DEF Points
<1> QED
  BY <1>1, <1>3, <1>4, <1>5 DEF b

\* The live places of the state.
LEMMA LiveIs ==
    ASSUME dataTable \in DataTables
    PROVE  /\ Live = LiveIn(dataTable)
           /\ Cardinality(Live) = Rank(dataTable, Len(dataTable))
<1>1. DOMAIN dataTable = 1..Len(dataTable) /\ Len(dataTable) \in Nat
  BY DEF DataTables
<1>2. Live = LiveIn(dataTable)
  BY <1>1 DEF Live, LiveIn
<1>3. LiveUpTo(dataTable, Len(dataTable)) = LiveIn(dataTable)
  BY <1>1 DEF LiveUpTo, LiveIn
<1> QED
  BY <1>2, <1>3 DEF Rank

\* The invariant gives the property.
LEMMA InvLookupExact == MapInv => LookupExact
<1> SUFFICES ASSUME MapInv PROVE LookupExact
  OBVIOUS
<1>1. /\ EntriesOK(dataTable, size, deletedCount)
      /\ IndicesOK(iteratorIndices, Len(dataTable))
  BY DEF MapInv
<1>2. dataTable \in DataTables
  BY <1>1 DEF EntriesOK
<1>3. Live = LiveIn(dataTable) /\ Cardinality(Live) = Rank(dataTable, Len(dataTable))
  BY <1>2, LiveIs
<1>4. CountersExact
  <2>1. size = Cardinality(Live) /\ size + deletedCount = Len(dataTable)
    BY <1>1, <1>3 DEF EntriesOK
  <2>2. \A i \in Iterators : Active(i) =>
          /\ iteratorIndices[i] \in Indices
          /\ iteratorIndices[i].first \/ iteratorIndices[i].value < Len(dataTable)
    BY <1>1 DEF IndicesOK, IndexOK, Active
  <2>3. dataTable \in Seq((Keys \X Values) \cup {Empty})
    BY <1>2 DEF DataTables, Items
  <2> QED
    BY <2>1, <2>2, <2>3 DEF CountersExact
<1>5. ASSUME Consistent
      PROVE  RoomLeft
  <2>1. /\ Table.data = dataTable /\ Table.capacity = capacity
        /\ MapOK(Table, size, deletedCount)
    BY <1>5 DEF Table, MapInv
  <2>2. /\ capacity \in Nat /\ kInitialCapacity <= capacity /\ capacity <= kMaxCapacity
        /\ \A k \in Keys : Stops(Table, k) # {}
    BY <2>1, RoomIn DEF MapOK
  <2>3. capacity \in kInitialCapacity..kMaxCapacity
    BY <2>2, CapacityAssumption
  <2> QED
    BY <2>1, <2>2, <2>3 DEF RoomLeft, MapOK
<1>6. ASSUME Consistent, NEW k \in Keys
      PROVE  FoundExactly(k)
  <2> DEFINE j == hashTable[LookupInBucket(Table, k)] + 1
  <2>1. CASE Has(k)
    <3>1. j \in LiveIn(dataTable) /\ dataTable[j][1] = k
      BY <1>6, <2>1, HasExactly
    <3>2. \A i \in LiveIn(dataTable) : dataTable[i][1] = k => i = j
      <4> HIDE DEF j
      <4> QED
        BY <1>1, <3>1 DEF EntriesOK, KeysDistinct
    <3> HIDE DEF j
    <3>3. {i \in Live : dataTable[i][1] = k} = {j}
      BY <1>3, <3>1, <3>2
    <3> QED
      BY <2>1, <3>3 DEF j, FoundExactly
  <2>2. CASE ~Has(k)
    BY <1>3, <1>6, <2>2, HasExactly DEF FoundExactly
  <2> QED
    BY <2>1, <2>2
<1> QED
  BY <1>4, <1>5, <1>6 DEF LookupExact

\* Up to a place, an entry is deleted or counted.
LEMMA DeletedOrNot ==
    ASSUME NEW data \in DataTables, NEW n \in Nat, n < Len(data)
    PROVE  NumDeleted(data, n) \in Nat /\ NumDeleted(data, n) + Rank(data, n + 1) = n + 1
<1> DEFINE D == {j \in DOMAIN data : j <= n + 1 /\ data[j] = Empty}
           U == LiveUpTo(data, n + 1)
<1>1. DOMAIN data = 1..Len(data) /\ Len(data) \in Nat
  BY DEF DataTables
<1>2. D \cup U = 1..n + 1 /\ D \cap U = {}
  BY <1>1 DEF LiveUpTo, LiveIn
<1>3. IsFiniteSet(1..n + 1) /\ Cardinality(1..n + 1) = n + 1
  BY FS_Interval
<1>4. IsFiniteSet(D) /\ IsFiniteSet(U)
  BY <1>2, <1>3, FS_Subset
<1>5. NumDeleted(data, n) = Cardinality(D) /\ Rank(data, n + 1) = Cardinality(U)
  BY DEF NumDeleted, Rank
<1> HIDE DEF D, U
<1>6. Cardinality(D \cup U) = Cardinality(D) + Cardinality(U) - Cardinality(D \cap U)
  BY <1>4, FS_Union
<1>7. Cardinality(D \cap U) = 0 /\ Cardinality(D) \in Nat /\ Cardinality(U) \in Nat
  BY <1>2, <1>4, FS_EmptySet, FS_CardinalityType
<1>8. Cardinality(D \cup U) = n + 1
  BY <1>2, <1>3
<1> QED
  BY <1>5, <1>6, <1>7, <1>8

\* An index that a rehash has updated has the same entries behind it.
LEMMA UpdatedIndex ==
    ASSUME NEW data \in DataTables, NEW index, IndexOK(index, Len(data))
    PROVE  LET x == UpdateIndex(data, index) IN
           /\ IndexOK(x, Rank(data, Len(data)))
           /\ Place(x, Entries(data)) = Place(index, data)
<1> DEFINE x == UpdateIndex(data, index)
           E == Entries(data)
           d == NumDeleted(data, index.value)
<1>1. /\ index \in Indices /\ index.value \in Nat /\ index.first \in BOOLEAN
      /\ index = [value |-> index.value, first |-> index.first] /\ Len(data) \in Nat
  BY DEF IndexOK, Indices, DataTables
<1>2. x = IF d = index.value + 1 THEN [value |-> 0, first |-> TRUE]
          ELSE [value |-> index.value - d, first |-> index.first]
  BY <1>1 DEF UpdateIndex
<1>3. Len(E) = Rank(data, Len(data)) /\ Len(E) \in Nat
      /\ \A n \in 0..Len(E) : Rank(E, n) = n
  BY EntryPlaces, EntriesCompact
<1> HIDE DEF x, E
<1>4. CASE index.first
  <2>1. index.value = 0
    BY <1>4 DEF IndexOK
  <2>2. d \in Nat /\ d <= 1
    <3>1. CASE Len(data) > 0
      BY <1>1, <2>1, <3>1, DeletedOrNot, RankStep
    <3>2. CASE Len(data) = 0
      <4>1. {j \in DOMAIN data : j <= index.value + 1 /\ data[j] = Empty} = {}
        BY <3>2 DEF DataTables
      <4>2. d = 0
        BY <4>1, FS_EmptySet DEF NumDeleted
      <4> QED
        BY <4>2
    <3> QED
      BY <1>1, <3>1, <3>2
  <2> HIDE DEF d
  <2>3. index.first = TRUE
    BY <1>1, <1>4
  <2>4. d = 1 \/ d = 0
    BY <2>2
  <2>5. x = [value |-> 0, first |-> TRUE]
    <3>1. CASE d = 1
      BY <1>2, <2>1, <3>1
    <3>2. CASE d = 0
      <4>1. d # index.value + 1 /\ index.value - d = 0
        BY <2>1, <3>2
      <4> QED
        BY <1>2, <2>3, <4>1
    <3> QED
      BY <2>4, <3>1, <3>2
  <2> QED
    BY <1>4, <2>5 DEF IndexOK, Indices, Place, x, E
<1>5. CASE ~index.first
  <2>1. index.value < Len(data)
    BY <1>5 DEF IndexOK
  <2> DEFINE r == Rank(data, index.value + 1)
  <2>2. d \in Nat /\ d + r = index.value + 1
    BY <1>1, <2>1, DeletedOrNot
  <2>3. r \in Nat /\ r <= Len(E)
    <3>1. index.value + 1 \in Nat /\ index.value + 1 <= Len(data)
      BY <1>1, <2>1
    <3> QED
      BY <1>1, <1>3, <3>1, RankStep, RankGrows
  <2> HIDE DEF d, r
  <2>4. CASE r = 0
    <3>1. x = [value |-> 0, first |-> TRUE]
      BY <1>1, <1>2, <2>2, <2>4
    <3> QED
      BY <1>5, <2>4, <3>1 DEF IndexOK, Indices, Place, x, E, r
  <2>5. CASE r # 0
    <3>1. d # index.value + 1 /\ index.value - d = r - 1 /\ r - 1 \in Nat /\ r - 1 < Len(E)
          /\ (r - 1) + 1 = r /\ r \in 0..Len(E)
      BY <1>1, <1>3, <2>2, <2>3, <2>5
    <3>2. x = [value |-> r - 1, first |-> FALSE]
      BY <1>1, <1>2, <1>5, <3>1
    <3>3. IndexOK(x, Len(E))
      BY <3>1, <3>2 DEF IndexOK, Indices
    <3>4. Place(x, E) = r
      BY <1>3, <3>1, <3>2 DEF Place
    <3>5. Place(index, data) = r
      BY <1>5 DEF Place, r
    <3> QED
      BY <1>3, <3>3, <3>4, <3>5 DEF x, E
  <2> QED
    BY <2>4, <2>5
<1> QED
  BY <1>1, <1>4, <1>5

\* The position of each iterator among the entries.
PosOf(idx, data) ==
    [i \in Iterators |-> IF idx[i] \in {Free, Done} THEN idx[i] ELSE Place(idx[i], data)]
UpdatedIndices(idx, data) ==
    [i \in Iterators |-> IF idx[i] \notin {Free, Done} THEN UpdateIndex(data, idx[i])
                         ELSE idx[i]]

\* More places, as many entries among the old ones: no position changes.
LEMMA PosKept ==
    ASSUME NEW idx, NEW data, NEW data2, Len(data) \in Nat, Len(data2) \in Nat,
           IndicesOK(idx, Len(data)), Len(data) <= Len(data2),
           \A n \in 0..Len(data) : Rank(data2, n) = Rank(data, n)
    PROVE  IndicesOK(idx, Len(data2)) /\ PosOf(idx, data2) = PosOf(idx, data)
<1>1. ASSUME NEW i \in Iterators, idx[i] \notin {Free, Done}
      PROVE  IndexOK(idx[i], Len(data2)) /\ Place(idx[i], data2) = Place(idx[i], data)
  <2>1. IndexOK(idx[i], Len(data)) /\ idx[i].value \in Nat
    BY <1>1 DEF IndicesOK, IndexOK, Indices
  <2>2. IndexOK(idx[i], Len(data2))
    BY <2>1 DEF IndexOK
  <2>3. ~idx[i].first => idx[i].value + 1 \in 0..Len(data)
    BY <2>1 DEF IndexOK
  <2> QED
    BY <2>2, <2>3 DEF Place
<1>2. IndicesOK(idx, Len(data2))
  BY <1>1 DEF IndicesOK
<1>3. PosOf(idx, data2) = PosOf(idx, data)
  BY <1>1 DEF PosOf
<1> QED
  BY <1>2, <1>3

\* A rehash moves no iterator among the entries.
LEMMA PosUpdated ==
    ASSUME NEW idx, NEW data \in DataTables, IndicesOK(idx, Len(data))
    PROVE  LET idx2 == UpdatedIndices(idx, data) IN
           /\ IndicesOK(idx2, Len(Entries(data)))
           /\ PosOf(idx2, Entries(data)) = PosOf(idx, data)
<1> DEFINE idx2 == UpdatedIndices(idx, data)
           E == Entries(data)
<1>1. ASSUME NEW i \in Iterators, idx[i] \notin {Free, Done}
      PROVE  /\ IndexOK(idx2[i], Len(E)) /\ Place(idx2[i], E) = Place(idx[i], data)
             /\ idx2[i] \in Indices /\ idx2[i] \notin {Free, Done}
  <2>1. IndexOK(idx[i], Len(data))
    BY <1>1 DEF IndicesOK
  <2>2. idx2[i] = UpdateIndex(data, idx[i])
    BY <1>1 DEF UpdatedIndices
  <2>3. Len(E) = Rank(data, Len(data))
    BY EntryPlaces
  <2>4. IndexOK(UpdateIndex(data, idx[i]), Len(E))
        /\ Place(UpdateIndex(data, idx[i]), E) = Place(idx[i], data)
    BY <2>1, <2>3, UpdatedIndex
  <2> HIDE DEF idx2, E
  <2>5. idx2[i] \in Indices
    BY <2>2, <2>4 DEF IndexOK
  <2> QED
    BY <2>2, <2>4, <2>5, IndexAssumption
<1>2. ASSUME NEW i \in Iterators, idx[i] \in {Free, Done}
      PROVE  idx2[i] = idx[i]
  BY <1>2 DEF UpdatedIndices
<1> HIDE DEF E
<1>3. IndicesOK(idx2, Len(E))
  <2>1. idx2 = [i \in Iterators |-> idx2[i]]
    BY DEF UpdatedIndices
  <2> HIDE DEF idx2
  <2>2. \A i \in Iterators : idx2[i] \in Indices \cup {Free, Done}
    BY <1>1, <1>2
  <2>3. \A i \in Iterators : idx2[i] \notin {Free, Done} => IndexOK(idx2[i], Len(E))
    BY <1>1, <1>2
  <2>4. idx2 \in [Iterators -> Indices \cup {Free, Done}]
    BY <2>1, <2>2
  <2> QED
    BY <2>3, <2>4 DEF IndicesOK
<1> HIDE DEF idx2
<1>4. PosOf(idx2, E) = PosOf(idx, data)
  <2>1. \A i \in Iterators :
          (IF idx2[i] \in {Free, Done} THEN idx2[i] ELSE Place(idx2[i], E))
            = IF idx[i] \in {Free, Done} THEN idx[i] ELSE Place(idx[i], data)
    BY <1>1, <1>2
  <2> QED
    BY <2>1 DEF PosOf
<1> QED
  BY <1>3, <1>4 DEF idx2, E

\* What Install leaves.
LEMMA InstallIs ==
    ASSUME NEW T, TableOK(T), Install(T)
    PROVE  Table' = T /\ hashTable' = T.hash /\ dataTable' = T.data /\ capacity' = T.capacity
<1>1. T = [hash |-> T.hash, data |-> T.data, capacity |-> T.capacity]
  BY DEF TableOK, IsTable
<1> QED
  BY <1>1 DEF Install, Table

\* What the invariant says of the entries and the iterators, failed rehash or not.
LEMMA MapParts ==
    ASSUME MapInv
    PROVE  /\ Table.hash = hashTable /\ Table.data = dataTable /\ Table.capacity = capacity
           /\ EntriesOK(dataTable, size, deletedCount)
           /\ IndicesOK(iteratorIndices, Len(dataTable))
           /\ dataTable \in DataTables /\ Len(dataTable) \in Nat
           /\ size \in Nat /\ deletedCount \in Nat
           /\ KeysDistinct(dataTable)
           /\ size = Rank(dataTable, Len(dataTable))
           /\ size + deletedCount = Len(dataTable)
<1>1. /\ Table.hash = hashTable /\ Table.data = dataTable /\ Table.capacity = capacity
      /\ EntriesOK(dataTable, size, deletedCount)
      /\ IndicesOK(iteratorIndices, Len(dataTable))
  BY DEF MapInv, Table
<1>2. /\ dataTable \in DataTables /\ deletedCount \in Nat /\ KeysDistinct(dataTable)
      /\ size = Rank(dataTable, Len(dataTable))
      /\ size + deletedCount = Len(dataTable)
  BY <1>1 DEF EntriesOK
<1>3. Len(dataTable) \in Nat
  BY <1>2 DEF DataTables
<1>4. size \in Nat
  BY <1>2, <1>3, RankStep
<1> QED
  BY <1>1, <1>2, <1>3, <1>4

\* What it says of the tables while they agree on the capacity.
LEMMA TableParts ==
    ASSUME MapInv, Consistent
    PROVE  /\ MapOK(Table, size, deletedCount) /\ TableOK(Table)
           /\ capacity \in Nat /\ kInitialCapacity <= capacity
           /\ Len(dataTable) < capacity /\ Len(dataTable) < kMaxCapacity
           /\ Len(dataTable) <= capacity \div 2 /\ capacity \in Capacities
           /\ capacity <= kMaxCapacity
<1>1. /\ Table.data = dataTable /\ Table.capacity = capacity
      /\ MapOK(Table, size, deletedCount)
  BY DEF MapInv, Table
<1>2. /\ capacity \in Nat /\ kInitialCapacity <= capacity
      /\ Len(dataTable) < capacity /\ Len(dataTable) < kMaxCapacity
  BY <1>1, RoomIn
<1>3. /\ TableOK(Table) /\ capacity \in Capacities /\ capacity <= kMaxCapacity
      /\ Len(dataTable) <= capacity \div 2
  BY <1>1 DEF MapOK, rehashThreshold
<1> QED
  BY <1>1, <1>2, <1>3

------------------------------------------------------------------------------
(* Pushing, rehashing and deleting, with the counters and the iterators.      *)

\* One more entry in a table with room for it.
LEMMA MapPush ==
    ASSUME NEW T, NEW sz, NEW deleted, MapOK(T, sz, deleted), NEW e \in Items,
           Len(T.data) + 1 <= rehashThreshold(T.capacity),
           \A j \in LiveIn(T.data) : T.data[j][1] # e[1],
           NEW idx, IndicesOK(idx, Len(T.data))
    PROVE  LET P == Push(T, e) IN
           /\ TableOK(P) /\ MapOK(P, sz + 1, deleted) /\ IndicesOK(idx, Len(P.data))
           /\ PosOf(idx, P.data) = PosOf(idx, T.data)
           /\ Entries(P.data) = Append(Entries(T.data), e)
<1> DEFINE P == Push(T, e)
<1>1. TableOK(T) /\ T.data \in DataTables
  BY DEF MapOK, TableOK, IsTable
<1>2. Len(T.data) < T.capacity /\ Len(T.data) < kMaxCapacity /\ Len(T.data) \in Nat
      /\ sz \in Nat
  BY RoomIn
<1>3. TableOK(P) /\ P.capacity = T.capacity /\ P.data = Append(T.data, e)
  BY <1>1, <1>2, PushOK
<1> HIDE DEF P
<1>4. Len(P.data) = Len(T.data) + 1
  BY <1>1, <1>3, AppendLive
<1>5. /\ Entries(P.data) = Append(Entries(T.data), e)
      /\ \A n \in 0..Len(T.data) : Rank(P.data, n) = Rank(T.data, n)
      /\ Rank(P.data, Len(P.data)) = Rank(T.data, Len(T.data)) + 1
  BY <1>1, <1>3, EntriesAppend
<1>6. MapOK(P, sz + 1, deleted)
  <2>1. /\ T.capacity \in Capacities /\ T.capacity <= kMaxCapacity
        /\ sz = Rank(T.data, Len(T.data)) /\ deleted \in Nat
        /\ sz + deleted = Len(T.data)
    BY DEF MapOK
  <2>2. (sz + 1) + deleted = Len(P.data)
    BY <1>2, <1>4, <2>1
  <2> QED
    BY <1>3, <1>4, <1>5, <2>1, <2>2 DEF MapOK
<1>7. IndicesOK(idx, Len(P.data)) /\ PosOf(idx, P.data) = PosOf(idx, T.data)
  <2>1. Len(P.data) \in Nat /\ Len(T.data) \in Nat /\ Len(T.data) <= Len(P.data)
    BY <1>2, <1>4
  <2>2. \A n \in 0..Len(T.data) : Rank(P.data, n) = Rank(T.data, n)
    BY <1>5
  <2> QED
    BY <2>1, <2>2, PosKept
<1> QED
  BY <1>3, <1>5, <1>6, <1>7 DEF P

\* A rehash into a table in which the entries take at most half of the buckets.
LEMMA MapRehash ==
    ASSUME NEW T, T.data \in DataTables, KeysDistinct(T.data),
           NEW c \in Capacities, c <= kMaxCapacity,
           Rank(T.data, Len(T.data)) <= rehashThreshold(c),
           NEW idx, IndicesOK(idx, Len(T.data))
    PROVE  LET R == Rehashed(T, c)
               idx2 == UpdatedIndices(idx, T.data) IN
           /\ TableOK(R) /\ MapOK(R, Rank(T.data, Len(T.data)), 0)
           /\ IndicesOK(idx2, Len(R.data))
           /\ PosOf(idx2, R.data) = PosOf(idx, T.data)
           /\ R.data = Entries(T.data) /\ Entries(R.data) = Entries(T.data)
           /\ R.capacity = c
<1> DEFINE R == Rehashed(T, c)
           n == Rank(T.data, Len(T.data))
<1>1. c \in Nat /\ kInitialCapacity <= c /\ kInitialCapacity \in Nat /\ kInitialCapacity > 1
      /\ kMaxCapacity \in Nat
  BY CapacitiesDouble, CapacityAssumption
<1>2. Len(T.data) \in Nat /\ n \in Nat
  <2>1. Len(T.data) \in Nat
    BY DEF DataTables
  <2> QED
    BY <2>1, RankStep
<1>3. n <= c \div 2
  BY DEF rehashThreshold
<1>4. n <= c /\ c > 0
  <2> HIDE DEF n
  <2> QED
    BY <1>1, <1>2, <1>3
<1>5. TableOK(R) /\ R.capacity = c /\ R.data = Entries(T.data)
  BY <1>1, <1>4, RehashedOK
<1> HIDE DEF R
<1>6. /\ Len(R.data) = n /\ Entries(R.data) = R.data
      /\ \A m \in 0..Len(R.data) : Rank(R.data, m) = m
  BY <1>5, EntryPlaces, EntriesCompact
<1>7. MapOK(R, n, 0)
  <2> HIDE DEF n
  <2>1. Rank(R.data, Len(R.data)) = n /\ n + 0 = n
    BY <1>2, <1>6
  <2> QED
    BY <1>3, <1>5, <1>6, <2>1 DEF MapOK, rehashThreshold
<1>8. /\ IndicesOK(UpdatedIndices(idx, T.data), Len(Entries(T.data)))
      /\ PosOf(UpdatedIndices(idx, T.data), Entries(T.data)) = PosOf(idx, T.data)
  BY PosUpdated
<1> QED
  BY <1>5, <1>6, <1>7, <1>8 DEF R

\* One entry less: the iterators that have visited it have one less behind them.
LEMMA MapRemove ==
    ASSUME NEW T, NEW sz, NEW deleted, MapOK(T, sz, deleted),
           NEW b \in Buckets(T), Points(T, b),
           NEW idx, IndicesOK(idx, Len(T.data))
    PROVE  LET R == Removed(T, b)
               r == Rank(T.data, T.hash[b] + 1)
               E == Entries(T.data)
               old == PosOf(idx, T.data) IN
           /\ TableOK(R) /\ MapOK(R, sz - 1, deleted + 1) /\ R.capacity = T.capacity
           /\ IndicesOK(idx, Len(R.data))
           /\ r \in 1..Len(E) /\ E[r] = T.data[T.hash[b] + 1]
           /\ Entries(R.data) = SubSeq(E, 1, r - 1) \o SubSeq(E, r + 1, Len(E))
           /\ PosOf(idx, R.data) = [i \in Iterators |->
                IF idx[i] \notin {Free, Done} /\ old[i] >= r THEN old[i] - 1 ELSE old[i]]
<1> DEFINE R == Removed(T, b)
           j == T.hash[b] + 1
           r == Rank(T.data, j)
           E == Entries(T.data)
<1>1. TableOK(T) /\ T.data \in DataTables /\ Len(T.data) \in Nat
  BY DEF MapOK, TableOK, IsTable, DataTables
<1>2. /\ TableOK(R) /\ j \in LiveIn(T.data) /\ R.capacity = T.capacity
      /\ R.data = [T.data EXCEPT ![j] = Empty]
  BY <1>1, RemovedOK
<1> HIDE DEF R, j
<1>3. Len(R.data) = Len(T.data)
  BY <1>1, <1>2, RemoveLive
<1>4. /\ Entries(R.data) = SubSeq(E, 1, r - 1) \o SubSeq(E, r + 1, Len(E))
      /\ \A n \in Nat : Rank(R.data, n) = IF n < j THEN Rank(T.data, n)
                                          ELSE Rank(T.data, n) - 1
  BY <1>1, <1>2, EntriesRemove
<1>5. r \in 1..Len(E) /\ E[r] = T.data[j] /\ Len(E) = Rank(T.data, Len(T.data))
  BY <1>1, <1>2, EntryPlaces
<1>6. j \in 1..Len(T.data) /\ j \in Nat
  BY <1>1, <1>2 DEF LiveIn
<1>7. \A n \in Nat : Rank(T.data, n) \in Nat
  BY <1>1, RankStep
<1> HIDE DEF E
<1>8. MapOK(R, sz - 1, deleted + 1)
  <2>1. /\ T.capacity \in Capacities /\ T.capacity <= kMaxCapacity
        /\ Len(T.data) <= rehashThreshold(T.capacity)
        /\ sz = Rank(T.data, Len(T.data)) /\ deleted \in Nat
        /\ sz + deleted = Len(T.data)
    BY DEF MapOK
  <2>2. sz \in Nat
    BY <1>1, <1>7, <2>1
  <2>3. Rank(R.data, Len(R.data)) = sz - 1
    BY <1>1, <1>3, <1>4, <1>6, <2>1
  <2>4. (sz - 1) + (deleted + 1) = Len(R.data) /\ deleted + 1 \in Nat
    BY <1>3, <2>1, <2>2
  <2> QED
    BY <1>2, <1>3, <2>1, <2>3, <2>4 DEF MapOK
<1>9. IndicesOK(idx, Len(R.data))
  BY <1>3
<1>10. ASSUME NEW i \in Iterators, idx[i] \notin {Free, Done}
       PROVE  LET old == Place(idx[i], T.data) IN
              Place(idx[i], R.data) = IF old >= r THEN old - 1 ELSE old
  <2>1. IndexOK(idx[i], Len(T.data)) /\ idx[i].value \in Nat
    BY <1>10 DEF IndicesOK, IndexOK, Indices
  <2>2. r \in Nat /\ r > 0
    BY <1>1, <1>5, <1>6, <1>7
  <2>3. CASE idx[i].first
    BY <2>2, <2>3 DEF Place
  <2>4. CASE ~idx[i].first
    <3> DEFINE v == idx[i].value + 1
    <3>1. v \in Nat
      BY <2>1
    <3> HIDE DEF v
    <3>2. v < j => Rank(T.data, v) < r
      BY <1>1, <1>2, <3>1, RankGrows
    <3>3. ~(v < j) => r <= Rank(T.data, v)
      <4>1. ~(v < j) => j <= v
        BY <1>6, <3>1
      <4> QED
        BY <1>1, <1>6, <3>1, <4>1, RankGrows
    <3> HIDE DEF r
    <3>4. Rank(R.data, v) = IF v < j THEN Rank(T.data, v) ELSE Rank(T.data, v) - 1
      BY <1>4, <3>1
    <3>5. Rank(R.data, v) = IF Rank(T.data, v) >= r THEN Rank(T.data, v) - 1
                            ELSE Rank(T.data, v)
      BY <1>7, <2>2, <3>1, <3>2, <3>3, <3>4
    <3>6. Place(idx[i], R.data) = Rank(R.data, v) /\ Place(idx[i], T.data) = Rank(T.data, v)
      BY <2>4 DEF Place, v
    <3> QED
      BY <3>5, <3>6
  <2> QED
    BY <2>3, <2>4
<1>11. PosOf(idx, R.data) = [i \in Iterators |->
          IF idx[i] \notin {Free, Done} /\ PosOf(idx, T.data)[i] >= r
          THEN PosOf(idx, T.data)[i] - 1 ELSE PosOf(idx, T.data)[i]]
  <2> HIDE DEF r
  <2>1. \A i \in Iterators : PosOf(idx, T.data)[i] =
          IF idx[i] \in {Free, Done} THEN idx[i] ELSE Place(idx[i], T.data)
    BY DEF PosOf
  <2>2. \A i \in Iterators :
          (IF idx[i] \in {Free, Done} THEN idx[i] ELSE Place(idx[i], R.data))
            = IF idx[i] \notin {Free, Done} /\ PosOf(idx, T.data)[i] >= r
              THEN PosOf(idx, T.data)[i] - 1 ELSE PosOf(idx, T.data)[i]
    BY <1>10, <2>1
  <2> QED
    BY <2>2 DEF PosOf
<1> QED
  BY <1>2, <1>4, <1>5, <1>8, <1>9, <1>11 DEF R, j, E

------------------------------------------------------------------------------
(* The operations keep the invariant and do to the entries what they promise. *)

\* The step keeps the invariant if it leaves an invariant table and iterators.
LEMMA InvAfter ==
    ASSUME NEW T, NEW idx, NEW sz, NEW deleted,
           MapOK(T, sz, deleted), IndicesOK(idx, Len(T.data)),
           Table' = T, dataTable' = T.data, size' = sz, deletedCount' = deleted,
           iteratorIndices' = idx
    PROVE  MapInv'
<1>1. EntriesOK(T.data, sz, deleted)
  BY DEF MapOK, TableOK, IsTable, EntriesOK
<1> QED
  BY <1>1 DEF MapInv

\* So does a step that leaves the two capacities different.
LEMMA InvAfterFailure ==
    ASSUME NEW data, NEW idx, NEW sz, NEW deleted,
           EntriesOK(data, sz, deleted), IndicesOK(idx, Len(data)), ~Consistent',
           dataTable' = data, size' = sz, deletedCount' = deleted,
           iteratorIndices' = idx
    PROVE  MapInv'
  BY DEF MapInv

\* Twice as much, or half of it, is not the capacity of the hash table.
LEMMA NotConsistent ==
    ASSUME MapInv, Consistent, NEW n, capacity' = checkedNextCapacity(n),
           DOMAIN hashTable' = DOMAIN hashTable
    PROVE  ~Consistent'
<1>1. capacity \in Nat /\ capacity > 1
  BY TableParts, CapacityAssumption
<1>2. DOMAIN hashTable' = 0..(capacity - 1)
  BY DEF Consistent
<1>3. capacity' \in Nat /\ capacity' # capacity /\ capacity' > 0
  <2>1. capacity' = capacity \div 2 \/ capacity' = capacity * 2
    BY DEF checkedNextCapacity
  <2> QED
    BY <1>1, <2>1
<1>4. \/ capacity' \in 0..(capacity - 1) /\ capacity' \notin 0..(capacity' - 1)
      \/ capacity \in 0..(capacity' - 1) /\ capacity \notin 0..(capacity - 1)
  BY <1>1, <1>3
<1> QED
  BY <1>2, <1>4 DEF Consistent

\* A key that is set again.
LEMMA InsertExistingStep ==
    ASSUME MapInv, NEW k \in Keys, NEW v \in Values, InsertExisting(k, v)
    PROVE  LET E == Entries(dataTable) IN
           /\ MapInv'
           /\ PosOf(iteratorIndices', dataTable') = PosOf(iteratorIndices, dataTable)
           /\ \E r \in 1..Len(E) : /\ E[r][1] = k
                                   /\ Entries(dataTable') = [E EXCEPT ![r] = <<k, v>>]
<1> DEFINE j == hashTable[LookupInBucket(Table, k)] + 1
           e == <<k, v>>
           data2 == [dataTable EXCEPT ![j] = e]
           T2 == [hash |-> hashTable, data |-> data2, capacity |-> capacity]
<1>1. /\ Table.hash = hashTable /\ Table.data = dataTable /\ Table.capacity = capacity
      /\ MapOK(Table, size, deletedCount) /\ TableOK(Table)
      /\ IndicesOK(iteratorIndices, Len(dataTable))
      /\ dataTable \in DataTables /\ Len(dataTable) \in Nat
  BY MapParts, TableParts DEF InsertExisting
<1>2. /\ dataTable' = data2
      /\ UNCHANGED <<hashTable, capacity, size, deletedCount, credited, iteratorIndices>>
  BY DEF InsertExisting
<1>3. j \in LiveIn(dataTable) /\ dataTable[j][1] = k
  BY HasExactly DEF InsertExisting
<1>4. e \in Items /\ e[1] = k
  BY DEF Items
<1>5. Table' = T2
  BY <1>2 DEF Table
<1> HIDE DEF j, e
<1>6. TableOK(T2)
  BY <1>1, <1>3, <1>4, ReplacedOK
<1>7. Len(data2) = Len(dataTable) /\ data2 \in DataTables
  BY <1>1, <1>3, <1>4, ReplaceLive
<1>8. /\ Entries(data2) = [Entries(dataTable) EXCEPT ![Rank(dataTable, j)] = e]
      /\ \A n : Rank(data2, n) = Rank(dataTable, n)
  BY <1>1, <1>3, <1>4, EntriesReplace
<1> HIDE DEF data2
<1>9. T2.data = data2 /\ T2.capacity = capacity
  OBVIOUS
<1> HIDE DEF T2
<1>10. MapOK(T2, size, deletedCount)
  BY <1>1, <1>6, <1>7, <1>8, <1>9 DEF MapOK
<1>11. IndicesOK(iteratorIndices, Len(T2.data))
  BY <1>1, <1>7, <1>9
<1>12. MapInv'
  BY <1>2, <1>5, <1>9, <1>10, <1>11, InvAfter
<1>13. PosOf(iteratorIndices, data2) = PosOf(iteratorIndices, dataTable)
  BY <1>8 DEF PosOf, Place
<1>14. /\ Rank(dataTable, j) \in 1..Len(Entries(dataTable))
       /\ Entries(dataTable)[Rank(dataTable, j)] = dataTable[j]
  BY <1>1, <1>3, EntryPlaces
<1> QED
  BY <1>2, <1>3, <1>8, <1>12, <1>13, <1>14 DEF e

\* The capacity of a rehash for one more entry leaves half of the buckets.
LEMMA GrowCapacity ==
    ASSUME MapInv, Consistent, NEW n \in Nat, NEW c, c = checkedNextCapacity(n),
           \/ shouldShrink(capacity, n)
           \/ n <= Len(dataTable) + 1
    PROVE  c \in Capacities /\ n <= rehashThreshold(c)
<1>1. /\ capacity \in Nat /\ kInitialCapacity <= capacity /\ capacity \in Capacities
      /\ Len(dataTable) <= capacity \div 2 /\ Len(dataTable) \in Nat
      /\ kInitialCapacity \in Nat /\ kInitialCapacity > 1
  BY MapParts, TableParts, CapacityAssumption
<1>2. CASE shouldShrink(capacity, n)
  <2>1. c = capacity \div 2 /\ n <= capacity \div 8 /\ capacity > kInitialCapacity
    BY <1>2 DEF checkedNextCapacity, shouldShrink
  <2>2. n <= (capacity \div 2) \div 2
    BY <1>1, <2>1
  <2> QED
    BY <1>1, <2>1, <2>2, CapacitiesDouble DEF rehashThreshold
<1>3. CASE ~shouldShrink(capacity, n)
  <2>1. c = capacity * 2 /\ n <= Len(dataTable) + 1
    BY <1>3 DEF checkedNextCapacity
  <2>2. capacity * 2 = 2 * capacity /\ (2 * capacity) \div 2 = capacity
    BY <1>1
  <2>3. capacity \div 2 + 1 <= capacity /\ capacity \div 2 \in Nat
    BY <1>1
  <2>4. n <= capacity
    BY <1>1, <2>1, <2>3
  <2> QED
    BY <1>1, <2>1, <2>2, <2>4, CapacitiesDouble DEF rehashThreshold
<1> QED
  BY <1>2, <1>3

\* A new key.
LEMMA InsertStep ==
    ASSUME MapInv, NEW k \in Keys, NEW v \in Values, Insert(k, v)
    PROVE  LET E == Entries(dataTable) IN
           /\ MapInv'
           /\ PosOf(iteratorIndices', dataTable') = PosOf(iteratorIndices, dataTable)
           /\ \A r \in 1..Len(E) : E[r][1] # k
           /\ Entries(dataTable') = Append(E, <<k, v>>)
<1> DEFINE E == Entries(dataTable)
           e == <<k, v>>
<1>1. /\ Table.hash = hashTable /\ Table.data = dataTable /\ Table.capacity = capacity
      /\ MapOK(Table, size, deletedCount) /\ TableOK(Table)
      /\ IndicesOK(iteratorIndices, Len(dataTable))
      /\ dataTable \in DataTables /\ Len(dataTable) \in Nat /\ size \in Nat
      /\ deletedCount \in Nat /\ KeysDistinct(dataTable) /\ capacity \in Nat
      /\ size = Rank(dataTable, Len(dataTable))
      /\ size + deletedCount = Len(dataTable)
  BY MapParts, TableParts DEF Insert
<1>2. e \in Items /\ e[1] = k
  BY DEF Items
<1>3. \A j \in LiveIn(dataTable) : dataTable[j][1] # e[1]
  BY <1>2, HasExactly DEF Insert
<1>4. \A r \in 1..Len(E) : E[r][1] # k
  BY <1>1, <1>2, <1>3, EntryPlaces
<1> HIDE DEF E
<1>5. size' = size + 1
  BY DEF Insert
<1>6. CASE HasRoom
  <2> DEFINE P == Push(Table, e)
  <2>1. Install(P) /\ UNCHANGED <<deletedCount, credited, iteratorIndices>>
    BY <1>6 DEF Insert
  <2> HIDE DEF e
  <2>2. Len(Table.data) + 1 <= rehashThreshold(Table.capacity)
    BY <1>1, <1>6 DEF rehashThreshold, HasRoom
  <2>3. /\ TableOK(P) /\ MapOK(P, size + 1, deletedCount)
        /\ IndicesOK(iteratorIndices, Len(P.data))
        /\ PosOf(iteratorIndices, P.data) = PosOf(iteratorIndices, dataTable)
        /\ Entries(P.data) = Append(Entries(dataTable), e)
    BY <1>1, <1>2, <1>3, <2>2, MapPush
  <2> HIDE DEF P
  <2>4. Table' = P /\ dataTable' = P.data
    BY <2>1, <2>3, InstallIs
  <2>5. MapInv'
    BY <1>5, <2>1, <2>3, <2>4, InvAfter
  <2> QED
    BY <1>4, <2>1, <2>3, <2>4, <2>5 DEF E, e
<1>7. CASE ~HasRoom
  <2> DEFINE c == checkedNextCapacity(size + 1)
             R == Rehashed(Table, c)
             P == Push(R, e)
             idx2 == UpdatedIndices(iteratorIndices, dataTable)
  <2>1. c <= kMaxCapacity /\ Install(P) /\ UpdateForRehash(dataTable, c)
    BY <1>7 DEF Insert
  <2>2. iteratorIndices' = idx2 /\ deletedCount' = 0
    BY <2>1 DEF UpdateForRehash, UpdatedIndices, Active
  <2>3. c \in Capacities /\ size + 1 <= rehashThreshold(c)
    <3>1. size + 1 \in Nat /\ size + 1 <= Len(dataTable) + 1
      BY <1>1
    <3> QED
      BY <3>1, GrowCapacity DEF Insert
  <2> HIDE DEF c, idx2, e
  <2>4. c \in Nat /\ rehashThreshold(c) \in Nat /\ size <= rehashThreshold(c)
    <3>1. c \in Nat
      BY <2>3, CapacitiesDouble
    <3>2. rehashThreshold(c) \in Nat
      BY <3>1 DEF rehashThreshold
    <3> QED
      BY <1>1, <2>3, <3>1, <3>2
  <2>5. /\ TableOK(R) /\ MapOK(R, size, 0) /\ IndicesOK(idx2, Len(R.data))
        /\ PosOf(idx2, R.data) = PosOf(iteratorIndices, dataTable)
        /\ R.data = E /\ Entries(R.data) = E /\ R.capacity = c
    BY <1>1, <2>1, <2>3, <2>4, MapRehash DEF idx2, E
  <2> HIDE DEF R
  <2>6. Len(R.data) + 1 <= rehashThreshold(R.capacity)
    <3>1. Len(E) = size
      BY <1>1, EntryPlaces DEF E
    <3> QED
      BY <2>3, <2>5, <3>1
  <2>7. \A j \in LiveIn(R.data) : R.data[j][1] # e[1]
    BY <1>2, <1>4, <2>5 DEF LiveIn
  <2>8. /\ TableOK(P) /\ MapOK(P, size + 1, 0) /\ IndicesOK(idx2, Len(P.data))
        /\ PosOf(idx2, P.data) = PosOf(idx2, R.data)
        /\ Entries(P.data) = Append(Entries(R.data), e)
    BY <1>2, <2>5, <2>6, <2>7, MapPush
  <2> HIDE DEF P
  <2>9. Table' = P /\ dataTable' = P.data
    BY <2>1, <2>8, InstallIs
  <2>10. MapInv'
    BY <1>5, <2>2, <2>8, <2>9, InvAfter
  <2> QED
    BY <1>4, <2>2, <2>5, <2>8, <2>9, <2>10 DEF E, e
<1> QED
  BY <1>6, <1>7

\* A new key that a failed rehash refuses.
LEMMA InsertFailsStep ==
    ASSUME MapInv, NEW k \in Keys, InsertFails(k)
    PROVE  MapInv' /\ dataTable' = dataTable /\ iteratorIndices' = iteratorIndices
<1>1. /\ dataTable' = dataTable /\ iteratorIndices' = iteratorIndices
      /\ size' = size /\ deletedCount' = deletedCount /\ hashTable' = hashTable
      /\ capacity' = checkedNextCapacity(size + 1) /\ Consistent
  BY DEF InsertFails, FailedRehash
<1>2. ~Consistent'
  BY <1>1, NotConsistent
<1>3. EntriesOK(dataTable, size, deletedCount)
      /\ IndicesOK(iteratorIndices, Len(dataTable))
  BY MapParts
<1> QED
  BY <1>1, <1>2, <1>3, InvAfterFailure

\* A key that is deleted.
LEMMA EraseStep ==
    ASSUME MapInv, NEW k \in Keys, Erase(k)
    PROVE  LET E == Entries(dataTable)
               old == PosOf(iteratorIndices, dataTable) IN
           /\ MapInv'
           /\ \E r \in 1..Len(E) :
                /\ E[r][1] = k
                /\ Entries(dataTable') = SubSeq(E, 1, r - 1) \o SubSeq(E, r + 1, Len(E))
                /\ PosOf(iteratorIndices', dataTable') = [i \in Iterators |->
                     IF iteratorIndices[i] \notin {Free, Done} /\ old[i] >= r
                     THEN old[i] - 1 ELSE old[i]]
<1> DEFINE E == Entries(dataTable)
           old == PosOf(iteratorIndices, dataTable)
           b == LookupInBucket(Table, k)
           R == Removed(Table, b)
           r == Rank(dataTable, hashTable[b] + 1)
           less == [i \in Iterators |->
                     IF iteratorIndices[i] \notin {Free, Done} /\ old[i] >= r
                     THEN old[i] - 1 ELSE old[i]]
           E2 == SubSeq(E, 1, r - 1) \o SubSeq(E, r + 1, Len(E))
<1>1. /\ Table.hash = hashTable /\ Table.data = dataTable /\ Table.capacity = capacity
      /\ MapOK(Table, size, deletedCount)
      /\ IndicesOK(iteratorIndices, Len(dataTable))
      /\ dataTable \in DataTables /\ Len(dataTable) \in Nat /\ size \in Nat
  BY MapParts, TableParts DEF Erase
<1>2. /\ b \in Buckets(Table) /\ Points(Table, b)
      /\ dataTable[hashTable[b] + 1][1] = k
  BY HasExactly DEF Erase
<1>3. DeleteBucket(k) = R
  BY <1>1 DEF DeleteBucket, Removed
<1> HIDE DEF b
<1>4. /\ TableOK(R) /\ MapOK(R, size - 1, deletedCount + 1) /\ R.capacity = capacity
      /\ IndicesOK(iteratorIndices, Len(R.data))
      /\ r \in 1..Len(E) /\ E[r] = dataTable[hashTable[b] + 1]
      /\ Entries(R.data) = E2
      /\ PosOf(iteratorIndices, R.data) = less
  <2> DEFINE D == Table.data
             q == Rank(D, Table.hash[b] + 1)
             F == Entries(D)
             was == PosOf(iteratorIndices, D)
  <2>1. b \in Buckets(Table) /\ Points(Table, b) /\ MapOK(Table, size, deletedCount)
        /\ IndicesOK(iteratorIndices, Len(D))
    BY <1>1, <1>2
  <2>2. /\ TableOK(R) /\ MapOK(R, size - 1, deletedCount + 1) /\ R.capacity = Table.capacity
        /\ IndicesOK(iteratorIndices, Len(R.data))
        /\ q \in 1..Len(F) /\ F[q] = D[Table.hash[b] + 1]
        /\ Entries(R.data) = SubSeq(F, 1, q - 1) \o SubSeq(F, q + 1, Len(F))
        /\ PosOf(iteratorIndices, R.data) = [i \in Iterators |->
             IF iteratorIndices[i] \notin {Free, Done} /\ was[i] >= q
             THEN was[i] - 1 ELSE was[i]]
    BY <2>1, MapRemove
  <2>3. D = dataTable /\ q = r /\ F = E /\ was = old
        /\ D[Table.hash[b] + 1] = dataTable[hashTable[b] + 1]
    BY <1>1
  <2> HIDE DEF R, r, E, old, D, q, F, was
  <2> QED
    BY <1>1, <2>2, <2>3
<1> HIDE DEF R, r, E, old, E2, less
<1>5. /\ R.data \in DataTables /\ KeysDistinct(R.data) /\ Len(R.data) \in Nat
      /\ size - 1 = Rank(R.data, Len(R.data)) /\ size - 1 \in Nat
  <2>1. R.data \in DataTables /\ KeysDistinct(R.data) /\ Len(R.data) \in Nat
    BY <1>4 DEF TableOK, IsTable, DataTables
  <2>2. size - 1 = Rank(R.data, Len(R.data))
    BY <1>4 DEF MapOK
  <2> QED
    BY <2>1, <2>2, RankStep
<1>6. size' = size - 1
  BY DEF Erase
<1>7. CASE ~shouldShrink(capacity, size - 1)
  <2>1. Install(R) /\ deletedCount' = deletedCount + 1 /\ UNCHANGED iteratorIndices
    BY <1>3, <1>7 DEF Erase
  <2>2. Table' = R /\ dataTable' = R.data
    BY <1>4, <2>1, InstallIs
  <2>3. MapInv'
    BY <1>4, <1>6, <2>1, <2>2, InvAfter
  <2>4. Entries(dataTable') = E2 /\ PosOf(iteratorIndices', dataTable') = less
    BY <1>4, <2>1, <2>2
  <2> QED
    BY <1>2, <1>4, <2>3, <2>4 DEF E, E2, less, old
<1> DEFINE c == checkedNextCapacity(size - 1)
<1>8. ASSUME shouldShrink(capacity, size - 1), EraseAndShrink(R, c)
      PROVE  MapInv' /\ Entries(dataTable') = E2
             /\ PosOf(iteratorIndices', dataTable') = less
  <2> DEFINE Q == Rehashed(R, c)
             idx2 == UpdatedIndices(iteratorIndices, R.data)
  <2>1. EraseAndShrink(R, c)
    BY <1>8
  <2>2. Install(Q) /\ iteratorIndices' = idx2 /\ deletedCount' = 0
    BY <2>1 DEF EraseAndShrink, UpdateForRehash, UpdatedIndices, Active
  <2>3. c \in Capacities /\ size - 1 <= rehashThreshold(c)
    BY <1>5, <1>8, GrowCapacity DEF Erase
  <2>4. c <= kMaxCapacity
    <3>1. c = capacity \div 2
      BY <1>8 DEF checkedNextCapacity
    <3>2. capacity \in Nat /\ capacity <= kMaxCapacity /\ kMaxCapacity \in Nat
      BY TableParts, CapacityAssumption DEF Erase
    <3> HIDE DEF c
    <3> QED
      BY <3>1, <3>2
  <2> HIDE DEF c, idx2
  <2>5. /\ TableOK(Q) /\ MapOK(Q, size - 1, 0) /\ IndicesOK(idx2, Len(Q.data))
        /\ PosOf(idx2, Q.data) = PosOf(iteratorIndices, R.data)
        /\ Entries(Q.data) = Entries(R.data)
    <3>1. Rank(R.data, Len(R.data)) <= rehashThreshold(c)
      BY <1>5, <2>3
    <3>2. /\ TableOK(Q) /\ MapOK(Q, Rank(R.data, Len(R.data)), 0)
          /\ IndicesOK(idx2, Len(Q.data))
          /\ PosOf(idx2, Q.data) = PosOf(iteratorIndices, R.data)
          /\ Q.data = Entries(R.data) /\ Entries(Q.data) = Entries(R.data)
      <4>1. /\ R.data \in DataTables /\ KeysDistinct(R.data) /\ c \in Capacities
            /\ IndicesOK(iteratorIndices, Len(R.data))
        BY <1>4, <1>5, <2>3
      <4>2. TableOK(Q) /\ MapOK(Q, Rank(R.data, Len(R.data)), 0)
        BY <2>4, <3>1, <4>1, MapRehash
      <4>3. /\ IndicesOK(UpdatedIndices(iteratorIndices, R.data), Len(Q.data))
            /\ PosOf(UpdatedIndices(iteratorIndices, R.data), Q.data)
                 = PosOf(iteratorIndices, R.data)
        BY <2>4, <3>1, <4>1, MapRehash
      <4>4. Q.data = Entries(R.data) /\ Entries(Q.data) = Entries(R.data)
        BY <2>4, <3>1, <4>1, MapRehash
      <4> QED
        BY <4>2, <4>3, <4>4 DEF idx2
    <3> QED
      BY <1>5, <3>2
  <2> HIDE DEF Q
  <2>6. Table' = Q /\ dataTable' = Q.data
    BY <2>2, <2>5, InstallIs
  <2>7. MapInv'
    BY <1>6, <2>2, <2>5, <2>6, InvAfter
  <2>8. Entries(dataTable') = E2 /\ PosOf(iteratorIndices', dataTable') = less
    BY <1>4, <2>2, <2>5, <2>6
  <2> QED
    BY <2>7, <2>8
<1>9. ASSUME EraseOnly(R, c)
      PROVE  MapInv' /\ Entries(dataTable') = E2
             /\ PosOf(iteratorIndices', dataTable') = less
  <2>1. /\ hashTable' = R.hash /\ dataTable' = R.data
        /\ deletedCount' = deletedCount + 1 /\ capacity' = c
        /\ iteratorIndices' = iteratorIndices
    BY <1>9 DEF EraseOnly, FailedRehash
  <2>2. DOMAIN hashTable' = DOMAIN hashTable /\ Consistent
    <3>1. Consistent
      BY DEF Erase
    <3>2. DOMAIN R.hash = 0..(capacity - 1)
      BY <1>4 DEF TableOK, IsTable, Buckets
    <3> QED
      BY <2>1, <3>1, <3>2 DEF Consistent
  <2>3. ~Consistent'
    BY <2>1, <2>2, NotConsistent
  <2>4. EntriesOK(R.data, size - 1, deletedCount + 1)
    BY <1>4 DEF MapOK, TableOK, IsTable, EntriesOK
  <2>5. MapInv'
    BY <1>4, <1>6, <2>1, <2>3, <2>4, InvAfterFailure
  <2> QED
    BY <1>4, <2>1, <2>5
<1>10. CASE shouldShrink(capacity, size - 1)
  <2>1. EraseAndShrink(R, c) \/ EraseOnly(R, c)
    BY <1>3, <1>10 DEF Erase
  <2>2. /\ MapInv' /\ Entries(dataTable') = E2
        /\ PosOf(iteratorIndices', dataTable') = less
    BY <1>8, <1>9, <1>10, <2>1
  <2> QED
    BY <1>2, <1>4, <2>2 DEF E, E2, less, old
<1> QED
  BY <1>7, <1>10

\* An empty table of the initial capacity.
LEMMA InitialMap ==
    /\ TableOK(EmptyTable(kInitialCapacity)) /\ MapOK(EmptyTable(kInitialCapacity), 0, 0)
    /\ EmptyTable(kInitialCapacity).data = <<>> /\ Entries(<<>>) = <<>>
    /\ <<>> \in DataTables /\ Len(<<>>) = 0
<1> DEFINE T == EmptyTable(kInitialCapacity)
<1>1. kInitialCapacity \in Nat /\ kInitialCapacity > 0 /\ kInitialCapacity <= kMaxCapacity
  BY CapacityAssumption
<1>2. TableOK(T) /\ T.data = <<>> /\ T.capacity = kInitialCapacity
  BY <1>1, EmptyOK
<1> HIDE DEF T
<1>3. <<>> \in DataTables /\ Len(<<>>) = 0
  BY DEF DataTables
<1>4. Rank(<<>>, Len(<<>>)) = 0
  BY <1>3, RankStep
<1>5. 0 <= rehashThreshold(kInitialCapacity)
  BY <1>1 DEF rehashThreshold
<1>6. MapOK(T, 0, 0)
  BY <1>1, <1>2, <1>3, <1>4, <1>5, CapacitiesDouble DEF MapOK
<1>7. Entries(<<>>) = <<>>
  <2> DEFINE s == Entries(<<>>)
  <2>1. s \in Seq(Items) /\ Len(s) = 0
    BY <1>3, <1>4, EntryPlaces
  <2> HIDE DEF s
  <2>2. s = <<>>
    BY <2>1
  <2> QED
    BY <2>2 DEF s
<1> QED
  BY <1>2, <1>3, <1>6, <1>7 DEF T

\* clear() leaves no entry, and every iterator before the first.
LEMMA ClearStep ==
    ASSUME MapInv, Clear
    PROVE  /\ MapInv' /\ Entries(dataTable') = <<>>
           /\ PosOf(iteratorIndices', dataTable') = [i \in Iterators |->
                IF iteratorIndices[i] \in {Free, Done} THEN iteratorIndices[i] ELSE 0]
<1> DEFINE T == EmptyTable(kInitialCapacity)
<1>1. IndicesOK(iteratorIndices, Len(dataTable))
  BY MapParts
<1>2. Install(T) /\ size' = 0 /\ deletedCount' = 0
      /\ iteratorIndices' = [i \in Iterators |->
           IF iteratorIndices[i] \in {Free, Done} THEN iteratorIndices[i]
           ELSE [value |-> 0, first |-> TRUE]]
  BY DEF Clear, ResetIndices, Active
<1>3. TableOK(T) /\ MapOK(T, 0, 0) /\ T.data = <<>> /\ Entries(<<>>) = <<>> /\ Len(<<>>) = 0
  BY InitialMap
<1> HIDE DEF T
<1>4. Table' = T /\ dataTable' = <<>>
  BY <1>2, <1>3, InstallIs
<1> DEFINE reset == [value |-> 0, first |-> TRUE]
<1>5. reset \in Indices /\ reset \notin {Free, Done} /\ reset.first /\ reset.value = 0
  BY IndexAssumption DEF Indices
<1> HIDE DEF reset
<1>6. \A i \in Iterators : iteratorIndices'[i] =
        IF iteratorIndices[i] \in {Free, Done} THEN iteratorIndices[i] ELSE reset
  BY <1>2 DEF reset
<1>7. IndicesOK(iteratorIndices', Len(T.data))
  <2>1. iteratorIndices' \in [Iterators -> Indices \cup {Free, Done}]
    <3>1. iteratorIndices' = [i \in Iterators |-> iteratorIndices'[i]]
      BY <1>2
    <3>2. \A i \in Iterators : iteratorIndices'[i] \in Indices \cup {Free, Done}
      BY <1>5, <1>6
    <3> QED
      BY <3>1, <3>2
  <2>2. \A i \in Iterators : iteratorIndices'[i] \notin {Free, Done} =>
          IndexOK(iteratorIndices'[i], Len(T.data))
    BY <1>5, <1>6 DEF IndexOK
  <2> QED
    BY <2>1, <2>2 DEF IndicesOK
<1>8. MapInv'
  BY <1>2, <1>3, <1>4, <1>7, InvAfter
<1>9. \A i \in Iterators :
        (IF iteratorIndices'[i] \in {Free, Done} THEN iteratorIndices'[i]
         ELSE Place(iteratorIndices'[i], dataTable'))
          = IF iteratorIndices[i] \in {Free, Done} THEN iteratorIndices[i] ELSE 0
  BY <1>5, <1>6 DEF Place
<1> QED
  BY <1>3, <1>4, <1>8, <1>9 DEF PosOf

Changed(f, i, x) == [f EXCEPT ![i] = x]

\* One index changes, and with it the position of its iterator.
LEMMA IndexSet ==
    ASSUME NEW idx, NEW n, IndicesOK(idx, n), NEW i \in Iterators, NEW data,
           NEW x, NEW y,
           \/ x \in {Free, Done} /\ y = x
           \/ IndexOK(x, n) /\ x \notin {Free, Done} /\ y = Place(x, data),
           NEW idx2, idx2 = Changed(idx, i, x)
    PROVE  IndicesOK(idx2, n) /\ PosOf(idx2, data) = Changed(PosOf(idx, data), i, y)
<1> DEFINE p == PosOf(idx, data)
<1>1. idx \in [Iterators -> Indices \cup {Free, Done}]
      /\ \A a \in Iterators : idx[a] \notin {Free, Done} => IndexOK(idx[a], n)
  BY DEF IndicesOK
<1>2. x \in Indices \cup {Free, Done}
  BY DEF IndexOK
<1>3. idx2 \in [Iterators -> Indices \cup {Free, Done}]
      /\ \A a \in Iterators : idx2[a] = IF a = i THEN x ELSE idx[a]
  BY <1>1, <1>2 DEF Changed
<1>4. IndicesOK(idx2, n)
  BY <1>1, <1>3 DEF IndicesOK
<1>5. p = [a \in Iterators |-> IF idx[a] \in {Free, Done} THEN idx[a]
                               ELSE Place(idx[a], data)]
  BY DEF PosOf
<1>6. [p EXCEPT ![i] = y] = [a \in Iterators |-> IF a = i THEN y ELSE p[a]]
  <2> HIDE DEF p
  <2>1. p = [a \in Iterators |-> p[a]]
    BY <1>5
  <2> QED
    BY <2>1
<1>7. \A a \in Iterators :
        (IF idx2[a] \in {Free, Done} THEN idx2[a] ELSE Place(idx2[a], data))
          = IF a = i THEN y ELSE p[a]
  <2> HIDE DEF p
  <2> QED
    BY <1>3, <1>5
<1> HIDE DEF p
<1>8. PosOf(idx2, data) = [p EXCEPT ![i] = y]
  BY <1>6, <1>7 DEF PosOf
<1> QED
  BY <1>4, <1>8 DEF p, Changed

\* Steps of iterators change nothing else.
LEMMA IteratorInv ==
    ASSUME MapInv, UNCHANGED tableVars, IndicesOK(iteratorIndices', Len(dataTable))
    PROVE  MapInv'
<1>1. /\ Table' = Table /\ dataTable' = dataTable /\ size' = size
      /\ deletedCount' = deletedCount /\ Consistent' = Consistent
  BY DEF tableVars, Table, Consistent
<1> QED
  BY <1>1 DEF MapInv

\* A new iterator is before the first entry.
LEMMA NewIteratorStep ==
    ASSUME MapInv, NEW i \in Iterators, NewIterator(i)
    PROVE  /\ MapInv' /\ dataTable' = dataTable
           /\ PosOf(iteratorIndices', dataTable) =
                [PosOf(iteratorIndices, dataTable) EXCEPT ![i] = 0]
<1> DEFINE x == [value |-> 0, first |-> TRUE]
<1>1. IndicesOK(iteratorIndices, Len(dataTable))
  BY MapParts
<1>2. iteratorIndices' = [iteratorIndices EXCEPT ![i] = x] /\ UNCHANGED tableVars
  BY DEF NewIterator
<1>3. IndexOK(x, Len(dataTable)) /\ x \notin {Free, Done} /\ Place(x, dataTable) = 0
  BY IndexAssumption DEF IndexOK, Indices, Place
<1> HIDE DEF x
<1>4. /\ IndicesOK(iteratorIndices', Len(dataTable))
      /\ PosOf(iteratorIndices', dataTable) =
           Changed(PosOf(iteratorIndices, dataTable), i, 0)
  <2>1. iteratorIndices' = Changed(iteratorIndices, i, x)
    BY <1>2 DEF Changed
  <2> QED
    BY <1>1, <1>3, <2>1, IndexSet
<1>5. MapInv'
  BY <1>2, <1>4, IteratorInv
<1> QED
  BY <1>2, <1>3, <1>4, <1>5 DEF tableVars, Changed

\* An iterator that is given up.
LEMMA FreeIteratorStep ==
    ASSUME MapInv, NEW i \in Iterators, FreeIterator(i)
    PROVE  /\ MapInv' /\ dataTable' = dataTable
           /\ PosOf(iteratorIndices', dataTable) =
                [PosOf(iteratorIndices, dataTable) EXCEPT ![i] = Free]
<1>1. IndicesOK(iteratorIndices, Len(dataTable))
  BY MapParts
<1>2. iteratorIndices' = [iteratorIndices EXCEPT ![i] = Free] /\ UNCHANGED tableVars
  BY DEF FreeIterator
<1>3. /\ IndicesOK(iteratorIndices', Len(dataTable))
      /\ PosOf(iteratorIndices', dataTable) =
           Changed(PosOf(iteratorIndices, dataTable), i, Free)
  <2>1. iteratorIndices' = Changed(iteratorIndices, i, Free)
    BY <1>2 DEF Changed
  <2> QED
    BY <1>1, <2>1, IndexSet
<1>4. MapInv'
  BY <1>2, <1>3, IteratorInv
<1> QED
  BY <1>2, <1>3, <1>4 DEF tableVars, Changed

\* An iterator comes to the next entry, or ends behind the last one.
LEMMA AdvanceStep ==
    ASSUME MapInv, NEW i \in Iterators, AdvanceIterator(i)
    PROVE  LET p == PosOf(iteratorIndices, dataTable)
               n == Len(Entries(dataTable)) IN
           /\ MapInv' /\ dataTable' = dataTable
           /\ \/ /\ p[i] < n
                 /\ PosOf(iteratorIndices', dataTable) = [p EXCEPT ![i] = @ + 1]
              \/ /\ p[i] = n
                 /\ PosOf(iteratorIndices', dataTable) = [p EXCEPT ![i] = Done]
<1> DEFINE index == iteratorIndices[i]
           from == IF index.first THEN 0 ELSE index.value + 1
           found == {j \in from..(size + deletedCount - 1) : dataTable[j + 1] # Empty}
           next == CHOOSE j \in found : \A m \in found : j <= m
           L == Len(dataTable)
           p == PosOf(iteratorIndices, dataTable)
           n == Len(Entries(dataTable))
<1>1. /\ IndicesOK(iteratorIndices, L) /\ dataTable \in DataTables /\ L \in Nat
      /\ size + deletedCount = L /\ size \in Nat /\ deletedCount \in Nat
  BY MapParts
<1>2. index \notin {Free, Done} /\ UNCHANGED tableVars
      /\ iteratorIndices' = [iteratorIndices EXCEPT ![i] =
           IF found = {} THEN Done ELSE [value |-> next, first |-> FALSE]]
  BY DEF AdvanceIterator, Active
<1>3. IndexOK(index, L) /\ index.value \in Nat
  BY <1>1, <1>2 DEF IndicesOK, IndexOK, Indices
<1>4. p[i] = Place(index, dataTable) /\ p = [a \in Iterators |-> p[a]]
  BY <1>2 DEF PosOf
<1>5. from \in Nat /\ from <= L
  BY <1>1, <1>3 DEF IndexOK
<1>6. p[i] = Rank(dataTable, from)
  <2>1. Rank(dataTable, 0) = 0
    BY <1>1, RankStep
  <2> HIDE DEF p
  <2> QED
    BY <1>4, <2>1 DEF Place
<1>7. \A j \in Nat : j + 1 \in LiveIn(dataTable) /\ from <= j => j \in found
  BY <1>1, <1>5 DEF LiveIn
<1>8. \A j \in found : j \in Nat /\ j + 1 \in LiveIn(dataTable) /\ from <= j /\ j + 1 <= L
  BY <1>1, <1>5 DEF LiveIn
<1>9. n = Rank(dataTable, L)
  BY <1>1, EntryPlaces
<1>10. dataTable' = dataTable
  BY <1>2 DEF tableVars
<1>11. found # {} => next \in found /\ \A m \in found : next <= m
  <2>1. found \in SUBSET Nat
    BY <1>8
  <2>2. found # {} => \E j \in found : \A m \in found : j <= m
    BY <2>1, Least
  <2> HIDE DEF found
  <2> QED
    BY <2>2
<1> HIDE DEF found, next, from, p, n, index
<1>12. CASE found = {}
  <2>1. iteratorIndices' = [iteratorIndices EXCEPT ![i] = Done]
    BY <1>2, <1>12
  <2>2. /\ IndicesOK(iteratorIndices', L)
        /\ PosOf(iteratorIndices', dataTable) =
             Changed(PosOf(iteratorIndices, dataTable), i, Done)
    <3>1. iteratorIndices' = Changed(iteratorIndices, i, Done)
      BY <2>1 DEF Changed
    <3>2. IndicesOK(iteratorIndices, L) /\ Done \in {Free, Done} /\ Done = Done
      BY <1>1
    <3> HIDE DEF L
    <3> QED
      BY <3>1, <3>2, IndexSet
  <2>3. MapInv'
    BY <1>2, <2>2, IteratorInv
  <2>4. LiveUpTo(dataTable, L) = LiveUpTo(dataTable, from)
    <3>1. \A j \in LiveIn(dataTable) : j \in Nat /\ j <= from
      <4> SUFFICES ASSUME NEW j \in LiveIn(dataTable), ~(j <= from) PROVE FALSE
        BY DEF LiveIn
      <4>1. j - 1 \in Nat /\ (j - 1) + 1 = j /\ from <= j - 1
        BY <1>1, <1>5 DEF LiveIn
      <4> QED
        BY <1>7, <1>12, <4>1
    <3>2. \A j \in LiveIn(dataTable) : j <= L
      BY <1>1 DEF LiveIn
    <3> QED
      BY <3>1, <3>2 DEF LiveUpTo
  <2>5. p[i] = n
    BY <1>6, <1>9, <2>4 DEF Rank
  <2>6. PosOf(iteratorIndices', dataTable) = [p EXCEPT ![i] = Done]
    BY <2>2 DEF p, Changed
  <2> QED
    BY <1>10, <2>3, <2>5, <2>6 DEF p, n
<1>13. CASE found # {}
  <2> DEFINE x == [value |-> next, first |-> FALSE]
  <2>1. /\ next \in Nat /\ next + 1 \in LiveIn(dataTable) /\ from <= next /\ next + 1 <= L
        /\ \A m \in found : next <= m
    BY <1>8, <1>11, <1>13
  <2>2. iteratorIndices' = [iteratorIndices EXCEPT ![i] = x]
    BY <1>2, <1>13
  <2>3. IndexOK(x, L) /\ x \notin {Free, Done} /\ Place(x, dataTable) = Rank(dataTable, next + 1)
    <3>1. x \in Indices /\ x.value = next /\ ~x.first
      BY <2>1 DEF Indices
    <3>2. next < L
      BY <1>1, <2>1
    <3> HIDE DEF x
    <3>3. x \notin {Free, Done}
      BY <3>1, IndexAssumption
    <3> QED
      BY <3>1, <3>2, <3>3 DEF IndexOK, Place
  <2> HIDE DEF x
  <2>4. /\ IndicesOK(iteratorIndices', L)
        /\ PosOf(iteratorIndices', dataTable) =
             Changed(PosOf(iteratorIndices, dataTable), i, Place(x, dataTable))
    <3>1. iteratorIndices' = Changed(iteratorIndices, i, x)
      BY <2>2 DEF Changed
    <3> QED
      BY <1>1, <2>3, <3>1, IndexSet
  <2>5. MapInv'
    BY <1>2, <2>4, IteratorInv
  <2>6. LiveUpTo(dataTable, next + 1) = LiveUpTo(dataTable, from) \cup {next + 1}
        /\ next + 1 \notin LiveUpTo(dataTable, from)
    <3>1. \A j \in LiveIn(dataTable) : j \in Nat /\ (j <= from \/ next + 1 <= j)
      <4> SUFFICES ASSUME NEW j \in LiveIn(dataTable), ~(j <= from) PROVE next + 1 <= j
        BY DEF LiveIn
      <4>1. j - 1 \in Nat /\ (j - 1) + 1 = j /\ from <= j - 1
        BY <1>1, <1>5 DEF LiveIn
      <4>2. next <= j - 1
        BY <1>7, <2>1, <4>1
      <4> QED
        BY <2>1, <4>1, <4>2
    <3> QED
      BY <1>5, <2>1, <3>1 DEF LiveUpTo
  <2>7. Rank(dataTable, next + 1) = Rank(dataTable, from) + 1
    <3>1. IsFiniteSet(LiveUpTo(dataTable, from))
      BY <1>1, <1>5, RankStep
    <3> QED
      BY <2>6, <3>1, FS_AddElement DEF Rank
  <2>8. p[i] < n
    <3>1. Rank(dataTable, next + 1) <= Rank(dataTable, L)
      BY <1>1, <2>1, RankGrows
    <3>2. Rank(dataTable, from) \in Nat /\ Rank(dataTable, L) \in Nat
      BY <1>1, <1>5, RankStep
    <3> QED
      BY <1>6, <1>9, <2>7, <3>1, <3>2
  <2>9. PosOf(iteratorIndices', dataTable) = [p EXCEPT ![i] = p[i] + 1]
    <3>1. Place(x, dataTable) = p[i] + 1
      BY <1>6, <2>3, <2>7
    <3> QED
      BY <2>4, <3>1 DEF p, Changed
  <2>10. [p EXCEPT ![i] = p[i] + 1] = [p EXCEPT ![i] = @ + 1]
    OBVIOUS
  <2> QED
    BY <1>10, <2>5, <2>8, <2>9, <2>10 DEF p, n
<1> QED
  BY <1>12, <1>13

------------------------------------------------------------------------------
(* The theorems.                                                              *)

\* A new map.
LEMMA InitInv == Init => MapInv /\ Entries(dataTable) = <<>>
<1> SUFFICES ASSUME Init PROVE MapInv /\ Entries(dataTable) = <<>>
  OBVIOUS
<1> DEFINE T == EmptyTable(kInitialCapacity)
<1>1. /\ Table = T /\ dataTable = <<>> /\ size = 0 /\ deletedCount = 0
      /\ iteratorIndices = [i \in Iterators |-> Free]
  BY DEF Init, Table, EmptyTable
<1>2. MapOK(T, 0, 0) /\ Entries(<<>>) = <<>>
  BY InitialMap
<1> HIDE DEF T
<1>3. IndicesOK(iteratorIndices, Len(dataTable))
  BY <1>1 DEF IndicesOK
<1>4. EntriesOK(dataTable, size, deletedCount)
  BY <1>1, <1>2, InitialMap DEF MapOK, TableOK, IsTable, EntriesOK
<1> QED
  BY <1>1, <1>2, <1>3, <1>4 DEF MapInv

\* The invariant is inductive.
LEMMA NextInv == MapInv /\ [Next]_vars => MapInv'
<1> SUFFICES ASSUME MapInv, [Next]_vars PROVE MapInv'
  OBVIOUS
<1>1. ASSUME NEW k \in Keys, NEW v \in Values, InsertExisting(k, v)
      PROVE  MapInv'
  BY <1>1, InsertExistingStep
<1>2. ASSUME NEW k \in Keys, NEW v \in Values, Insert(k, v)
      PROVE  MapInv'
  BY <1>2, InsertStep
<1>3. ASSUME NEW k \in Keys, InsertFails(k) \/ Erase(k)
      PROVE  MapInv'
  BY <1>3, InsertFailsStep, EraseStep
<1>4. CASE Clear
  BY <1>4, ClearStep
<1>5. ASSUME NEW i \in Iterators, NewIterator(i) \/ AdvanceIterator(i) \/ FreeIterator(i)
      PROVE  MapInv'
  BY <1>5, NewIteratorStep, AdvanceStep, FreeIteratorStep
<1>6. CASE UNCHANGED vars
  <2>1. UNCHANGED tableVars /\ iteratorIndices' = iteratorIndices
    BY <1>6 DEF vars
  <2>2. IndicesOK(iteratorIndices', Len(dataTable))
    BY <2>1, MapParts
  <2> QED
    BY <2>1, <2>2, IteratorInv
<1> QED
  BY <1>1, <1>2, <1>3, <1>4, <1>5, <1>6 DEF Next

\* has() and get() find a key exactly if there is an entry for it, and that
\* entry, whatever has been inserted and deleted, and probing always ends, unless a
\* rehash has failed, whose capacity is not the hash table's; even then the counters,
\* the entries and the iterators are right, and clear() puts the rest right again.
THEOREM LookupAlwaysExact == Spec => []LookupExact
<1>1. Init => MapInv
  BY InitInv
<1>2. MapInv /\ [Next]_vars => MapInv'
  BY NextInv
<1>3. MapInv => LookupExact
  BY InvLookupExact
<1> QED
  BY <1>1, <1>2, <1>3, PTL DEF Spec

\* The positions of the refinement mapping are those of the proofs.
LEMMA BehindIs ==
    MapInv => [i \in Iterators |-> Behind(i)] = PosOf(iteratorIndices, dataTable)
<1> SUFFICES ASSUME MapInv
             PROVE  [i \in Iterators |-> Behind(i)] = PosOf(iteratorIndices, dataTable)
  OBVIOUS
<1>1. dataTable \in DataTables
  BY MapParts
<1>2. Live = LiveIn(dataTable)
  BY <1>1, LiveIs
<1>3. \A i \in Iterators :
        Behind(i) = IF iteratorIndices[i] \in {Free, Done} THEN iteratorIndices[i]
                    ELSE Place(iteratorIndices[i], dataTable)
  BY <1>2 DEF Behind, Active, Place, Rank, LiveUpTo
<1> QED
  BY <1>3 DEF PosOf

\* The positions are numbers, but for the iterators that are not in use.
LEMMA PosTypes ==
    ASSUME MapInv, NEW i \in Iterators
    PROVE  LET p == PosOf(iteratorIndices, dataTable) IN
           /\ iteratorIndices[i] \in {Free, Done} => p[i] = iteratorIndices[i]
           /\ iteratorIndices[i] \notin {Free, Done} =>
                p[i] \in Nat /\ p[i] \notin {Free, Done}
<1>1. IndicesOK(iteratorIndices, Len(dataTable)) /\ Len(dataTable) \in Nat
  BY MapParts
<1>2. ASSUME iteratorIndices[i] \notin {Free, Done}
      PROVE  Place(iteratorIndices[i], dataTable) \in Nat
  <2>1. iteratorIndices[i].value \in Nat
    BY <1>1, <1>2 DEF IndicesOK, IndexOK, Indices
  <2>2. iteratorIndices[i].value + 1 \in Nat
    BY <2>1
  <2>3. Rank(dataTable, iteratorIndices[i].value + 1) \in Nat
    BY <1>1, <2>2, RankStep
  <2> QED
    BY <2>3 DEF Place
<1> QED
  BY <1>2, IndexAssumption DEF PosOf

\* The positions before and after a step.
LEMMA BehindSteps ==
    ASSUME MapInv, MapInv'
    PROVE  /\ [i \in Iterators |-> Behind(i)] = PosOf(iteratorIndices, dataTable)
           /\ [i \in Iterators |-> Behind(i)]' = PosOf(iteratorIndices', dataTable')
           /\ \A i \in Iterators :
                [j \in Iterators |-> Behind(j)][i] = PosOf(iteratorIndices, dataTable)[i]
<1>1. [i \in Iterators |-> Behind(i)] = PosOf(iteratorIndices, dataTable)
  BY BehindIs
<1>2. (MapInv => [i \in Iterators |-> Behind(i)] = PosOf(iteratorIndices, dataTable))'
  BY BehindIs, PTL
<1>3. [i \in Iterators |-> Behind(i)]' = PosOf(iteratorIndices', dataTable')
  BY <1>2
<1> QED
  BY <1>1, <1>3

\* Where a key is among the entries: at one place, at most.
LEMMA KeyPlace ==
    ASSUME MapInv, NEW r \in 1..Len(Entries(dataTable))
    PROVE  Map!At(Entries(dataTable)[r][1]) = {r}
<1> DEFINE E == Entries(dataTable)
<1>1. dataTable \in DataTables /\ KeysDistinct(dataTable)
  BY MapParts
<1>2. /\ E \in Seq(Items)
      /\ \A j \in LiveIn(dataTable) : E[Rank(dataTable, j)] = dataTable[j]
      /\ \A q \in 1..Len(E) : \E j \in LiveIn(dataTable) : Rank(dataTable, j) = q
  BY <1>1, EntryPlaces
<1>3. \A q \in 1..Len(E) : E[q][1] = E[r][1] => q = r
  BY <1>1, <1>2 DEF KeysDistinct
<1>4. DOMAIN E = 1..Len(E)
  BY <1>2
<1> QED
  BY <1>3, <1>4 DEF Map!At

\* set() and add().
LEMMA SetRefined ==
    ASSUME MapInv, MapInv', NEW k \in Keys, NEW v \in Values,
           InsertExisting(k, v) \/ Insert(k, v)
    PROVE  Map!Set(k, v)
<1> DEFINE E == Entries(dataTable)
           pos == [i \in Iterators |-> Behind(i)]
<1>1. dataTable \in DataTables
  BY MapParts
<1>2. E \in Seq(Items) /\ DOMAIN E = 1..Len(E)
  BY <1>1, EntryPlaces
<1>3. pos = PosOf(iteratorIndices, dataTable)
      /\ pos' = PosOf(iteratorIndices', dataTable')
  BY BehindSteps
<1>4. PosOf(iteratorIndices', dataTable') = PosOf(iteratorIndices, dataTable)
  BY InsertExistingStep, InsertStep
<1>5. pos' = pos
  BY <1>3, <1>4
<1> HIDE DEF pos
<1>6. Entries(dataTable)' = IF Map!At(k) = {} THEN Append(E, <<k, v>>)
                   ELSE [j \in DOMAIN E |-> IF j \in Map!At(k) THEN <<k, v>> ELSE E[j]]
  <2>1. CASE InsertExisting(k, v)
    <3>1. PICK r \in 1..Len(E) :
            E[r][1] = k /\ Entries(dataTable') = [E EXCEPT ![r] = <<k, v>>]
      BY <2>1, InsertExistingStep
    <3>2. Map!At(k) = {r}
      BY <3>1, KeyPlace
    <3>3. [E EXCEPT ![r] = <<k, v>>] =
            [j \in DOMAIN E |-> IF j \in {r} THEN <<k, v>> ELSE E[j]]
      <4> HIDE DEF E
      <4> QED
        BY <1>2
    <3> QED
      BY <3>1, <3>2, <3>3
  <2>2. CASE Insert(k, v)
    <3>1. /\ \A r \in 1..Len(E) : E[r][1] # k
          /\ Entries(dataTable') = Append(E, <<k, v>>)
      BY <2>2, InsertStep
    <3>2. Map!At(k) = {}
      BY <1>2, <3>1 DEF Map!At
    <3> QED
      BY <3>1, <3>2
  <2> QED
    BY <2>1, <2>2
<1> QED
  BY <1>5, <1>6 DEF Map!Set, pos

\* delete().
LEMMA DeleteRefined ==
    ASSUME MapInv, MapInv', NEW k \in Keys, Erase(k)
    PROVE  Map!Delete(k)
<1> DEFINE E == Entries(dataTable)
           pos == [i \in Iterators |-> Behind(i)]
           old == PosOf(iteratorIndices, dataTable)
<1>1. PICK r \in 1..Len(E) :
        /\ E[r][1] = k
        /\ Entries(dataTable') = SubSeq(E, 1, r - 1) \o SubSeq(E, r + 1, Len(E))
        /\ PosOf(iteratorIndices', dataTable') = [i \in Iterators |->
             IF iteratorIndices[i] \notin {Free, Done} /\ old[i] >= r
             THEN old[i] - 1 ELSE old[i]]
  BY EraseStep
<1>2. r \in Map!At(k)
  BY <1>1, KeyPlace
<1>3. Entries(dataTable)' = Map!RemoveAt(E, r)
  BY <1>1 DEF Map!RemoveAt
<1>4. \A i \in Iterators : pos[i] = old[i]
  BY BehindSteps
<1>5. \A i \in Iterators : Map!InUse(i) <=> iteratorIndices[i] \notin {Free, Done}
  BY <1>4, PosTypes DEF Map!InUse
<1>6. pos' = [i \in Iterators |-> IF Map!InUse(i) /\ pos[i] >= r THEN pos[i] - 1 ELSE pos[i]]
  <2>1. pos' = PosOf(iteratorIndices', dataTable')
    BY BehindSteps
  <2> HIDE DEF pos, old
  <2>2. \A i \in Iterators :
          (IF iteratorIndices[i] \notin {Free, Done} /\ old[i] >= r
           THEN old[i] - 1 ELSE old[i])
            = IF Map!InUse(i) /\ pos[i] >= r THEN pos[i] - 1 ELSE pos[i]
    BY <1>4, <1>5
  <2> QED
    BY <1>1, <2>1, <2>2 DEF old
<1> QED
  BY <1>2, <1>3, <1>6 DEF Map!Delete

\* clear().
LEMMA ClearRefined ==
    ASSUME MapInv, MapInv', Clear
    PROVE  Map!Clear
<1> DEFINE pos == [i \in Iterators |-> Behind(i)]
           old == PosOf(iteratorIndices, dataTable)
<1>1. /\ Entries(dataTable') = <<>>
      /\ PosOf(iteratorIndices', dataTable') = [i \in Iterators |->
           IF iteratorIndices[i] \in {Free, Done} THEN iteratorIndices[i] ELSE 0]
  BY ClearStep
<1>2. \A i \in Iterators : pos[i] = old[i]
  BY BehindSteps
<1>3. \A i \in Iterators :
        /\ Map!InUse(i) <=> iteratorIndices[i] \notin {Free, Done}
        /\ iteratorIndices[i] \in {Free, Done} => pos[i] = iteratorIndices[i]
  BY <1>2, PosTypes DEF Map!InUse
<1>4. pos' = PosOf(iteratorIndices', dataTable')
  BY BehindSteps
<1>5. pos' = [i \in Iterators |-> IF Map!InUse(i) THEN 0 ELSE pos[i]]
  <2> HIDE DEF pos
  <2>1. \A i \in Iterators :
          (IF iteratorIndices[i] \in {Free, Done} THEN iteratorIndices[i] ELSE 0)
            = IF Map!InUse(i) THEN 0 ELSE pos[i]
    BY <1>3
  <2> QED
    BY <1>1, <1>4, <2>1
<1> QED
  BY <1>1, <1>5 DEF Map!Clear

\* The steps of an iterator.
LEMMA IteratorRefined ==
    ASSUME MapInv, MapInv', NEW i \in Iterators,
           NewIterator(i) \/ AdvanceIterator(i) \/ FreeIterator(i)
    PROVE  Map!New(i) \/ Map!Visit(i) \/ Map!End(i) \/ Map!GiveUp(i)
<1> DEFINE pos == [a \in Iterators |-> Behind(a)]
           old == PosOf(iteratorIndices, dataTable)
           n == Len(Entries(dataTable))
<1>1. pos = old /\ pos' = PosOf(iteratorIndices', dataTable')
  BY BehindSteps
<1>2. pos[i] = old[i]
  BY <1>1
<1>3. Map!InUse(i) <=> iteratorIndices[i] \notin {Free, Done}
  BY <1>2, PosTypes DEF Map!InUse
<1>4. CASE NewIterator(i)
  <2>1. dataTable' = dataTable
        /\ PosOf(iteratorIndices', dataTable) = [old EXCEPT ![i] = 0]
    BY <1>4, NewIteratorStep
  <2>2. ~Map!InUse(i)
    BY <1>3, <1>4 DEF NewIterator, Active
  <2>3. pos' = [pos EXCEPT ![i] = 0] /\ Entries(dataTable)' = Entries(dataTable)
    BY <1>1, <2>1
  <2> QED
    BY <2>2, <2>3 DEF Map!New
<1>5. CASE FreeIterator(i)
  <2>1. dataTable' = dataTable
        /\ PosOf(iteratorIndices', dataTable) = [old EXCEPT ![i] = Free]
    BY <1>5, FreeIteratorStep
  <2>2. Map!InUse(i)
    BY <1>3, <1>5 DEF FreeIterator, Active
  <2>3. pos' = [pos EXCEPT ![i] = Free] /\ Entries(dataTable)' = Entries(dataTable)
    BY <1>1, <2>1
  <2> QED
    BY <2>2, <2>3 DEF Map!GiveUp
<1>6. CASE AdvanceIterator(i)
  <2>1. /\ dataTable' = dataTable
        /\ \/ old[i] < n /\ PosOf(iteratorIndices', dataTable) = [old EXCEPT ![i] = @ + 1]
           \/ old[i] = n /\ PosOf(iteratorIndices', dataTable) = [old EXCEPT ![i] = Done]
    BY <1>6, AdvanceStep
  <2>2. Map!InUse(i)
    BY <1>3, <1>6 DEF AdvanceIterator, Active
  <2>3. Entries(dataTable)' = Entries(dataTable)
    BY <2>1
  <2>4. CASE old[i] < n /\ PosOf(iteratorIndices', dataTable) = [old EXCEPT ![i] = @ + 1]
    <3>1. pos[i] < n /\ pos' = [pos EXCEPT ![i] = @ + 1]
      <4> HIDE DEF old, pos
      <4> QED
        BY <1>1, <2>1, <2>4
    <3> QED
      BY <2>2, <2>3, <3>1 DEF Map!Visit
  <2>5. CASE old[i] = n /\ PosOf(iteratorIndices', dataTable) = [old EXCEPT ![i] = Done]
    <3>1. pos[i] = n /\ pos' = [pos EXCEPT ![i] = Done]
      <4> HIDE DEF old, pos
      <4> QED
        BY <1>1, <2>1, <2>5
    <3> QED
      BY <2>3, <3>1 DEF Map!End
  <2> QED
    BY <2>1, <2>4, <2>5
<1> QED
  BY <1>4, <1>5, <1>6

\* A map is the ordered map it promises to be: through every rehash, shrinking and
\* clearing each iterator visits the entries in the order of insertion, none of
\* them twice, and leaves none out.
THEOREM RefinesOrderedMap == Spec => ImplementsOrderedMap
<1>1. Init => MapInv
  BY InitInv
<1>2. MapInv /\ [Next]_vars => MapInv'
  BY NextInv
<1>3. Init => Map!Init
  <2> SUFFICES ASSUME Init PROVE Map!Init
    OBVIOUS
  <2>1. Entries(dataTable) = <<>>
    BY InitInv
  <2>2. \A i \in Iterators : Behind(i) = Free
    BY DEF Init, Behind, Active
  <2> QED
    BY <2>1, <2>2 DEF Map!Init
<1>4. MapInv /\ MapInv' /\ [Next]_vars => [Map!Next]_(Map!vars)
  <2> SUFFICES ASSUME MapInv, MapInv', [Next]_vars PROVE [Map!Next]_(Map!vars)
    OBVIOUS
  <2>1. ASSUME NEW k \in Keys, NEW v \in Values, InsertExisting(k, v) \/ Insert(k, v)
        PROVE  Map!Next
    BY <2>1, SetRefined DEF Map!Next
  <2>2. ASSUME NEW k \in Keys, Erase(k)
        PROVE  Map!Next
    BY <2>2, DeleteRefined DEF Map!Next
  <2>6. ASSUME NEW k \in Keys, InsertFails(k)
        PROVE  UNCHANGED Map!vars
    <3>1. dataTable' = dataTable /\ iteratorIndices' = iteratorIndices
      BY <2>6, InsertFailsStep
    <3>2. [i \in Iterators |-> Behind(i)]' = [i \in Iterators |-> Behind(i)]
      BY <3>1, BehindSteps
    <3> QED
      BY <3>1, <3>2 DEF Map!vars
  <2>3. CASE Clear
    BY <2>3, ClearRefined DEF Map!Next
  <2>4. ASSUME NEW i \in Iterators, NewIterator(i) \/ AdvanceIterator(i) \/ FreeIterator(i)
        PROVE  Map!Next
    <3>1. Map!New(i) \/ Map!Visit(i) \/ Map!End(i) \/ Map!GiveUp(i)
      BY <2>4, IteratorRefined
    <3> QED
      BY <3>1 DEF Map!Next
  <2>5. CASE UNCHANGED vars
    <3>1. dataTable' = dataTable /\ iteratorIndices' = iteratorIndices
      BY <2>5 DEF vars, tableVars
    <3>2. [i \in Iterators |-> Behind(i)]' = [i \in Iterators |-> Behind(i)]
      BY <3>1, BehindSteps
    <3> QED
      BY <3>1, <3>2 DEF Map!vars
  <2> QED
    BY <2>1, <2>2, <2>3, <2>4, <2>5, <2>6 DEF Next
<1> QED
  BY <1>1, <1>2, <1>3, <1>4, PTL DEF Spec, ImplementsOrderedMap, Map!Spec

==============================================================================
