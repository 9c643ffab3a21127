-------------------------- MODULE HadesOldGenProofs --------------------------
(* Proofs about HadesOldGen, for any sizes of cells and segments, any limit   *)
(* of the heap and any requests.                                              *)
EXTENDS HadesOldGen, FiniteSetTheorems, SequenceTheorems, WellFoundedInduction,
        TLAPS

------------------------------------------------------------------------------
(* Numbers.                                                                   *)

\* The smallest member of a set of natural numbers.
LEMMA MinIs ==
    ASSUME NEW S \in SUBSET Nat, S # {}
    PROVE  Min(S) \in S /\ \A y \in S : Min(S) <= y
<1> DEFINE Less == OpToRel(<, Nat)
<1>1. IsWellFoundedOn(Less, Nat)
  BY NatLessThanWellFounded
<1>2. \A s, t \in Nat : t < s => <<t, s>> \in Less
  BY DEF OpToRel
<1> HIDE DEF Less
<1>3. \E s \in S : \A t \in S : ~(<<t, s>> \in Less)
  BY <1>1, WFMin
<1>4. PICK s \in S : \A t \in S : ~(<<t, s>> \in Less)
  BY <1>3
<1>5. \A t \in S : ~(t < s)
  BY <1>2, <1>4
<1>6. \A t \in S : s <= t
  BY <1>4, <1>5
<1>7. QED
  BY <1>4, <1>6 DEF Min

\* The largest member of a bounded one.
LEMMA MaxIs ==
    ASSUME NEW N \in Nat, NEW S \in SUBSET (0 .. N), S # {}
    PROVE  Max(S) \in S /\ \A y \in S : y <= Max(S)
<1> DEFINE T == {N - y : y \in S}
<1>0. \A y \in S : y \in Int /\ 0 <= y /\ y <= N
  OBVIOUS
<1>1. T \in SUBSET Nat /\ T # {}
  <2>1. \A y \in S : N - y \in Nat
    BY <1>0
  <2> QED
    BY <2>1
<1> HIDE DEF T
<1>2. Min(T) \in T /\ \A y \in T : Min(T) <= y
  BY <1>1, MinIs
<1>3. PICK m \in S : Min(T) = N - m
  BY <1>2 DEF T
<1>4. \A y \in S : N - m <= N - y
  BY <1>2, <1>3 DEF T
<1>5. m \in Int /\ \A y \in S : y \in Int
  BY <1>3
<1>6. \A y \in S : m >= y
  BY <1>4, <1>5
<1>7. Max(S) \in S /\ \A y \in S : Max(S) >= y
  BY <1>3, <1>6 DEF Max
<1>8. Max(S) \in Int
  BY <1>7, <1>5
<1> QED
  BY <1>7, <1>8, <1>5

\* Log2 is a number, and not smaller for larger ones.
LEMMA LogGrows ==
    /\ \A x \in Nat : Log2(x) \in Nat
    /\ \A x \in Nat, y \in Nat : x <= y => Log2(x) <= Log2(y)
<1> DEFINE Powers(x) == {k \in 1 .. x : 2^k <= x}
<1>1. \A x \in Nat : IsFiniteSet(Powers(x)) /\ Cardinality(Powers(x)) \in Nat
  <2> SUFFICES ASSUME NEW x \in Nat
               PROVE  IsFiniteSet(Powers(x)) /\ Cardinality(Powers(x)) \in Nat
    OBVIOUS
  <2>1. IsFiniteSet(1 .. x)
    BY FS_Interval
  <2>2. Powers(x) \in SUBSET (1 .. x)
    OBVIOUS
  <2> HIDE DEF Powers
  <2>3. QED
    BY <2>1, <2>2, FS_Subset, FS_CardinalityType
<1>2. \A x \in Nat, y \in Nat : x <= y => Cardinality(Powers(x)) <= Cardinality(Powers(y))
  <2> SUFFICES ASSUME NEW x \in Nat, NEW y \in Nat, x <= y
               PROVE  Cardinality(Powers(x)) <= Cardinality(Powers(y))
    OBVIOUS
  <2>1. Powers(x) \in SUBSET Powers(y)
    OBVIOUS
  <2> HIDE DEF Powers
  <2>2. QED
    BY <1>1, <2>1, FS_Subset
<1>3. \A x : Log2(x) = Cardinality(Powers(x))
  BY DEF Log2
<1> HIDE DEF Powers
<1>4. \A x \in Nat : Log2(x) \in Nat
  BY <1>1, <1>3
<1>5. \A x \in Nat, y \in Nat : x <= y => Log2(x) <= Log2(y)
  BY <1>2, <1>3
<1> QED
  BY <1>4, <1>5

\* Larger sizes have larger buckets.
LEMMA BucketGrows ==
    ASSUME NEW m \in Nat, NEW n \in Nat, m <= n
    PROVE  /\ Bucket(m) \in Int /\ Bucket(n) \in Int
           /\ Bucket(m) <= Bucket(n)
<1>0. kNumSmall \in Nat \ {0}
  BY SizesAssumption
<1>4. \A x \in Nat : Log2(x) \in Nat
  BY LogGrows
<1>5. \A x \in Nat, y \in Nat : x <= y => Log2(x) <= Log2(y)
  BY LogGrows
<1>6. CASE m < kNumSmall /\ n < kNumSmall
  BY <1>6 DEF Bucket
<1>7. CASE m < kNumSmall /\ ~(n < kNumSmall)
  <2>1. Log2(kNumSmall) <= Log2(n) /\ Log2(kNumSmall) \in Nat /\ Log2(n) \in Nat
    BY <1>0, <1>4, <1>5, <1>7
  <2>2. QED
    BY <1>0, <1>7, <2>1 DEF Bucket
<1>8. CASE ~(m < kNumSmall) /\ ~(n < kNumSmall)
  <2>1. /\ Log2(m) <= Log2(n) /\ Log2(kNumSmall) \in Nat /\ Log2(n) \in Nat
        /\ Log2(m) \in Nat
    BY <1>0, <1>4, <1>5
  <2>2. QED
    BY <1>0, <1>8, <2>1 DEF Bucket
<1> QED
  BY <1>0, <1>6, <1>7, <1>8

\* The sizes of cells have buckets.
LEMMA BucketIn ==
    ASSUME NEW n \in Nat, MinSize <= n, n <= SegmentSize
    PROVE  Bucket(n) \in Buckets
<1>1. SegmentSize \in Nat /\ 1 \in Nat /\ 1 <= n /\ kNumSmall \in Nat \ {0}
  BY SizesAssumption
<1>2. Bucket(n) <= Bucket(SegmentSize) /\ Bucket(1) <= Bucket(n)
  BY <1>1, BucketGrows
<1>3. Bucket(n) \in Int /\ Bucket(SegmentSize) \in Int /\ Bucket(1) \in Int
  BY <1>1, BucketGrows
<1>4. Bucket(1) >= 1
  <2>1. CASE 1 < kNumSmall
    BY <2>1 DEF Bucket
  <2>2. CASE ~(1 < kNumSmall)
    <3>1. kNumSmall = 1
      BY <1>1, <2>2
    <3>2. Bucket(1) = 1 + Log2(1) - Log2(1)
      BY <3>1 DEF Bucket
    <3>3. Log2(1) \in Int
      BY LogGrows
    <3> QED
      BY <3>2, <3>3
  <2> QED
    BY <2>1, <2>2
<1> QED
  BY <1>2, <1>3, <1>4 DEF Buckets

------------------------------------------------------------------------------
(* Segments.                                                                  *)

Cell == [size : Nat, free : BOOLEAN, marked : BOOLEAN, fresh : BOOLEAN]
Segment == UNION {[D -> Cell] : D \in SUBSET Offsets}

\* The cells of seg tile it from its start to l.
Tiles(seg, l) ==
    /\ l \in 1 .. SegmentSize
    /\ 0 \in DOMAIN seg
    /\ \A a \in DOMAIN seg :
          /\ a < l /\ MinSize <= seg[a].size
          /\ a + seg[a].size \in DOMAIN seg \cup {l}
          /\ \A o \in DOMAIN seg : ~(a < o /\ o < a + seg[a].size)

\* A segment, in which what was allocated during a collection is marked.
Tidy(seg) ==
    /\ seg \in Segment
    /\ \E l \in Nat : Tiles(seg, l)
    /\ \A a \in DOMAIN seg : seg[a].fresh => seg[a].marked

\* A segment is a function from offsets to cells.
LEMMA SegmentIs ==
    ASSUME NEW seg \in Segment
    PROVE  /\ seg \in [DOMAIN seg -> Cell]
           /\ \A a \in DOMAIN seg : a \in Offsets /\ a \in Nat /\ seg[a].size \in Nat
<1>1. PICK D \in SUBSET Offsets : seg \in [D -> Cell]
  BY DEF Segment
<1>2. DOMAIN seg = D
  BY <1>1
<1>3. \A a \in Offsets : a \in Nat
  BY SizesAssumption DEF Offsets
<1>4. \A a \in D : seg[a] \in Cell
  BY <1>1
<1>5. \A c \in Cell : c.size \in Nat
  BY DEF Cell
<1> QED
  BY <1>1, <1>2, <1>3, <1>4, <1>5

\* And the other way round.
LEMMA SegmentOf ==
    ASSUME NEW D \in SUBSET Offsets, NEW seg \in [D -> Cell]
    PROVE  seg \in Segment /\ DOMAIN seg = D
BY DEF Segment

\* Two cells do not overlap, and end before the end.
LEMMA Apart ==
    ASSUME NEW seg \in Segment, NEW l \in Nat, Tiles(seg, l),
           NEW a \in DOMAIN seg, NEW o \in DOMAIN seg
    PROVE  /\ a + seg[a].size <= l
           /\ a + seg[a].size \in Nat /\ a + seg[a].size >= a + MinSize
           /\ a # o => a + seg[a].size <= o \/ o + seg[o].size <= a
<1>1. /\ a \in Nat /\ o \in Nat /\ seg[a].size \in Nat /\ seg[o].size \in Nat
      /\ MinSize \in Nat \ {0}
  BY SegmentIs, SizesAssumption
<1>2. /\ a < l /\ MinSize <= seg[a].size /\ a + seg[a].size \in DOMAIN seg \cup {l}
      /\ ~(a < o /\ o < a + seg[a].size) /\ ~(o < a /\ a < o + seg[o].size)
  BY DEF Tiles
<1>3. \A x \in DOMAIN seg : x <= l
  <2>1. \A x \in DOMAIN seg : x < l /\ x \in Nat
    BY SegmentIs DEF Tiles
  <2> QED
    BY <2>1
<1>4. a + seg[a].size <= l
  BY <1>2, <1>3
<1> QED
  BY <1>1, <1>2, <1>4

\* A cell that is not at the start begins where another one ends.
LEMMA Predecessor ==
    ASSUME NEW seg \in Segment, NEW l \in Nat, Tiles(seg, l),
           NEW o \in DOMAIN seg, o # 0
    PROVE  \E p \in DOMAIN seg : p < o /\ p + seg[p].size = o
<1>1. o \in Nat /\ 0 \in DOMAIN seg
  BY SegmentIs DEF Tiles
<1> DEFINE Before == {p \in DOMAIN seg : p < o}
<1>2. Before \in SUBSET (0 .. o) /\ Before # {}
  <2>1. \A p \in DOMAIN seg : p \in Nat
    BY SegmentIs
  <2> QED
    BY <1>1, <2>1
<1> HIDE DEF Before
<1>3. Max(Before) \in Before /\ \A y \in Before : y <= Max(Before)
  BY <1>1, <1>2, MaxIs
<1>4. PICK p \in Before : \A y \in Before : y <= p
  BY <1>3
<1>5. p \in DOMAIN seg /\ p < o /\ p \in Nat
  BY <1>4, SegmentIs DEF Before
<1>6. p + seg[p].size <= o
  <2>1. p + seg[p].size <= o \/ o + seg[o].size <= p
    BY <1>5, Apart
  <2>2. o + seg[o].size \in Nat /\ o + seg[o].size >= o + MinSize
    BY Apart
  <2> QED
    BY <1>1, <1>5, <2>1, <2>2, SizesAssumption
<1>7. CASE p + seg[p].size = o
  BY <1>5, <1>7
<1>8. CASE p + seg[p].size # o
  <2>1. p + seg[p].size \in Nat /\ p + seg[p].size > p
    BY <1>5, Apart, SizesAssumption
  <2>2. p + seg[p].size < o
    BY <1>1, <1>6, <1>8, <2>1
  <2>3. p + seg[p].size # l
    <3>1. o < l
      BY DEF Tiles
    <3> QED
      BY <1>1, <2>1, <2>2, <3>1
  <2>4. p + seg[p].size \in DOMAIN seg
    BY <1>5, <2>3 DEF Tiles
  <2>5. p + seg[p].size \in Before
    BY <2>2, <2>4 DEF Before
  <2> QED
    BY <1>4, <1>5, <2>1, <2>5
<1> QED
  BY <1>7, <1>8

\* The end of the last cell is the end.
LEMMA LevelIs ==
    ASSUME NEW seg \in Segment, NEW l \in Nat, Tiles(seg, l)
    PROVE  Level(seg) = l
<1>1. \A a \in DOMAIN seg : a \in Nat /\ a < l
  BY SegmentIs DEF Tiles
<1>2. DOMAIN seg \in SUBSET (0 .. l) /\ DOMAIN seg # {}
  <2>1. 0 \in DOMAIN seg
    BY DEF Tiles
  <2> QED
    BY <1>1, <2>1
<1>3. Max(DOMAIN seg) \in DOMAIN seg /\ \A y \in DOMAIN seg : y <= Max(DOMAIN seg)
  BY <1>2, MaxIs
<1>4. PICK m \in DOMAIN seg : \A y \in DOMAIN seg : y <= m
  BY <1>3
<1>5. m + seg[m].size = l
  <2>1. m \in Nat /\ m + seg[m].size \in Nat /\ m + seg[m].size > m
    BY <1>1, <1>4, Apart, SizesAssumption
  <2>2. m + seg[m].size \notin DOMAIN seg
    BY <1>4, <2>1
  <2> QED
    BY <1>4, <2>2 DEF Tiles
<1>6. \A e \in Ends(seg) : e \in 0 .. l
  <2> SUFFICES ASSUME NEW a \in DOMAIN seg
               PROVE  a + seg[a].size \in 0 .. l
    BY DEF Ends
  <2>1. a + seg[a].size \in Nat /\ a + seg[a].size <= l
    BY Apart
  <2> QED
    BY <2>1
<1>7. Ends(seg) \in SUBSET (0 .. l) /\ l \in Ends(seg)
  BY <1>4, <1>5, <1>6 DEF Ends
<1>8. Max(Ends(seg)) \in Ends(seg) /\ \A y \in Ends(seg) : y <= Max(Ends(seg))
  BY <1>7, MaxIs
<1>9. Max(Ends(seg)) \in 0 .. l /\ l <= Max(Ends(seg))
  BY <1>6, <1>7, <1>8
<1> QED
  BY <1>9 DEF Level

\* What TypeOK says of a segment.
LEMMA TidyIsTiled ==
    ASSUME NEW seg, Tidy(seg)
    PROVE  Tiled(seg)
<1>1. PICK l \in Nat : Tiles(seg, l)
  BY DEF Tidy
<1>2. seg \in Segment /\ Level(seg) = l /\ l \in 1 .. SegmentSize
  BY <1>1, LevelIs DEF Tidy, Tiles
<1>3. DOMAIN seg \subseteq Offsets /\ 0 \in DOMAIN seg /\ Level(seg) <= SegmentSize
  BY <1>1, <1>2, SegmentIs DEF Tiles
<1> SUFFICES ASSUME NEW a \in DOMAIN seg
             PROVE  /\ seg[a].size \in MinSize .. SegmentSize
                    /\ seg[a].free \in BOOLEAN /\ seg[a].marked \in BOOLEAN
                    /\ a + seg[a].size \in DOMAIN seg \cup {Level(seg)}
                    /\ \A o \in DOMAIN seg : ~(a < o /\ o < a + seg[a].size)
  BY <1>3 DEF Tiled
<1>4. seg[a] \in Cell /\ a \in Nat
  BY <1>2, SegmentIs
<1>5. seg[a].free \in BOOLEAN /\ seg[a].marked \in BOOLEAN /\ seg[a].size \in Nat
  BY <1>4 DEF Cell
<1>6. a + seg[a].size <= l
  BY <1>1, <1>2, Apart
<1>7. /\ MinSize <= seg[a].size /\ a + seg[a].size \in DOMAIN seg \cup {l}
      /\ \A o \in DOMAIN seg : ~(a < o /\ o < a + seg[a].size)
  BY <1>1 DEF Tiles
<1>8. seg[a].size \in MinSize .. SegmentSize
  BY <1>2, <1>4, <1>5, <1>6, <1>7, SizesAssumption
<1> QED
  BY <1>2, <1>5, <1>7, <1>8

\* Carving splits a cell.
LEMMA CarveEffect ==
    ASSUME NEW seg, Tidy(seg), NEW a \in DOMAIN seg,
           NEW sz \in Nat, MinSize <= sz, seg[a].size >= sz + MinSize
    PROVE  LET n == a + (seg[a].size - sz)
               new == Carved(seg, a, sz)
           IN  /\ n \notin DOMAIN seg /\ n \in Nat
               /\ DOMAIN new = DOMAIN seg \cup {n}
               /\ new[n] = Object(sz)
               /\ new[a] = [seg[a] EXCEPT !.size = seg[a].size - sz]
               /\ \A o \in DOMAIN seg : o # a => new[o] = seg[o]
               /\ Tidy(new)
<1> DEFINE left == seg[a].size - sz
           n == a + left
           new == Carved(seg, a, sz)
<1>1. PICK l \in Nat : Tiles(seg, l)
  BY DEF Tidy
<1>2. seg \in Segment /\ MinSize \in Nat \ {0} /\ l \in 1 .. SegmentSize
  BY <1>1, SizesAssumption DEF Tidy, Tiles
<1>3. /\ a \in Nat /\ seg[a].size \in Nat /\ seg[a] \in Cell
      /\ a + seg[a].size <= l
  BY <1>1, <1>2, SegmentIs, Apart
<1>4. left \in Nat /\ left >= MinSize /\ n \in Nat /\ a < n /\ n + sz = a + seg[a].size
  BY <1>2, <1>3
<1>5. n < a + seg[a].size
  BY <1>2, <1>3
<1>6. n \notin DOMAIN seg
  BY <1>1, <1>4, <1>5 DEF Tiles
<1>7. /\ DOMAIN new = DOMAIN seg \cup {n}
      /\ new = [o \in DOMAIN seg \cup {n} |->
                  IF o = a THEN [seg[a] EXCEPT !.size = left]
                  ELSE IF o = n THEN Object(sz) ELSE seg[o]]
  BY DEF Carved
<1> HIDE DEF new, n, left
<1>8. n \in DOMAIN new /\ a \in DOMAIN new /\ \A o \in DOMAIN seg : o \in DOMAIN new
  BY <1>7
<1>9. /\ new[n] = Object(sz) /\ new[a] = [seg[a] EXCEPT !.size = left]
      /\ \A o \in DOMAIN seg : o # a => new[o] = seg[o]
  BY <1>4, <1>6, <1>7, <1>8
<1>10. /\ Object(sz) \in Cell /\ Object(sz).size = sz
       /\ Object(sz).marked = TRUE
  BY DEF Object, Cell
<1>11. /\ new[a] \in Cell /\ new[a].size = left
       /\ new[a].fresh = seg[a].fresh /\ new[a].marked = seg[a].marked
  BY <1>3, <1>4, <1>9 DEF Cell
<1>12. \A o \in DOMAIN new : new[o] \in Cell
  <2>1. \A o \in DOMAIN seg : seg[o] \in Cell
    BY <1>2, SegmentIs
  <2> QED
    BY <1>7, <1>9, <1>10, <1>11, <2>1
<1>13. new \in Segment
  <2>1. n \in Offsets
    BY <1>2, <1>3, <1>4, <1>5, SizesAssumption DEF Offsets
  <2>2. DOMAIN new \in SUBSET Offsets
    BY <1>2, <1>7, <2>1, SegmentIs
  <2>3. new \in [DOMAIN new -> Cell]
    BY <1>7, <1>12
  <2> QED
    BY <2>2, <2>3, SegmentOf
<1>14. Tiles(new, l)
  <2>1. 0 \in DOMAIN new
    BY <1>1, <1>8 DEF Tiles
  <2>2. ASSUME NEW o \in DOMAIN new
        PROVE  /\ o < l /\ MinSize <= new[o].size
               /\ o + new[o].size \in DOMAIN new \cup {l}
               /\ \A c \in DOMAIN new : ~(o < c /\ c < o + new[o].size)
    <3>0. \A c \in DOMAIN seg : c \in Nat
      BY <1>2, SegmentIs
    <3>1. CASE o = a
      <4>1. o < l /\ MinSize <= new[o].size /\ o + new[o].size = n
        BY <1>1, <1>4, <1>11, <3>1 DEF Tiles, n
      <4>2. \A c \in DOMAIN seg : ~(o < c /\ c < n)
        BY <1>1, <1>2, <1>3, <1>4, <1>5, <3>0, <3>1 DEF Tiles
      <4>3. ~(n < n)
        BY <1>4
      <4> QED
        BY <1>7, <1>8, <4>1, <4>2, <4>3
    <3>2. CASE o = n
      <4>1. o < l /\ MinSize <= new[o].size
        BY <1>2, <1>3, <1>4, <1>5, <1>9, <1>10, <3>2
      <4>2. o + new[o].size = a + seg[a].size
        BY <1>4, <1>9, <1>10, <3>2
      <4>3. \A c \in DOMAIN seg : ~(n < c /\ c < a + seg[a].size)
        <5> SUFFICES ASSUME NEW c \in DOMAIN seg, n < c, c < a + seg[a].size
                     PROVE  FALSE
          OBVIOUS
        <5>1. a < c
          BY <1>3, <1>4, <3>0
        <5> QED
          BY <1>1, <5>1 DEF Tiles
      <4>4. o + new[o].size \in DOMAIN new \cup {l}
        BY <1>1, <1>8, <4>2 DEF Tiles
      <4>5. ~(n < n)
        BY <1>4
      <4> QED
        BY <1>7, <3>2, <4>1, <4>2, <4>3, <4>4, <4>5
    <3>3. CASE o \in DOMAIN seg /\ o # a
      <4>1. new[o] = seg[o]
        BY <1>9, <3>3
      <4>2. /\ o < l /\ MinSize <= seg[o].size
            /\ o + seg[o].size \in DOMAIN seg \cup {l}
            /\ \A c \in DOMAIN seg : ~(o < c /\ c < o + seg[o].size)
        BY <1>1, <3>3 DEF Tiles
      <4>3. ~(o < n /\ n < o + seg[o].size)
        <5>1. a + seg[a].size <= o \/ o + seg[o].size <= a
          BY <1>1, <1>2, <3>3, Apart
        <5>2. o \in Nat /\ seg[o].size \in Nat
          BY <1>2, <3>3, SegmentIs
        <5> QED
          BY <1>3, <1>4, <1>5, <5>1, <5>2
      <4> QED
        BY <1>7, <1>8, <4>1, <4>2, <4>3
    <3> QED
      BY <1>7, <3>1, <3>2, <3>3
  <2> QED
    BY <1>2, <2>1, <2>2 DEF Tiles
<1>15. \A o \in DOMAIN new : new[o].fresh => new[o].marked
  BY <1>7, <1>9, <1>10, <1>11 DEF Tidy
<1>16. Tidy(new)
  BY <1>13, <1>14, <1>15 DEF Tidy
<1> QED
  BY <1>4, <1>6, <1>7, <1>9, <1>16 DEF n, new, left

\* Only the sizes matter for the tiles.
LEMMA SameTiles ==
    ASSUME NEW seg, Tidy(seg), NEW new \in [DOMAIN seg -> Cell],
           \A a \in DOMAIN seg : new[a].size = seg[a].size,
           \A a \in DOMAIN seg : new[a].fresh => new[a].marked
    PROVE  Tidy(new) /\ DOMAIN new = DOMAIN seg
<1>1. PICK l \in Nat : Tiles(seg, l)
  BY DEF Tidy
<1>2. DOMAIN seg \in SUBSET Offsets
  BY SegmentIs DEF Tidy
<1>3. new \in Segment /\ DOMAIN new = DOMAIN seg
  BY <1>2, SegmentOf
<1>4. Tiles(new, l)
  BY <1>1, <1>3 DEF Tiles
<1> QED
  BY <1>3, <1>4 DEF Tidy

\* Sweeping keeps the marked cells and makes one free cell of each run of others.
LEMMA SweptEffect ==
    ASSUME NEW seg, Tidy(seg)
    PROVE  /\ Tidy(Swept(seg))
           /\ \A a \in DOMAIN seg : seg[a].marked =>
                 a \in DOMAIN Swept(seg) /\ Swept(seg)[a] = seg[a]
           /\ \A a \in DOMAIN Swept(seg) :
                 /\ a \in DOMAIN seg
                 /\ ~seg[a].marked =>
                       Swept(seg)[a].free /\ ~Swept(seg)[a].marked
<1> DEFINE dead == {a \in DOMAIN seg : ~seg[a].marked}
           starts == {a \in dead : \A d \in dead : d + seg[d].size # a}
           Stops(a) == {e \in (DOMAIN seg \cup Ends(seg)) \ dead : e > a}
           end(a) == Min(Stops(a))
           new == Swept(seg)
<1>1. PICK l \in Nat : Tiles(seg, l)
  BY DEF Tidy
<1>2. seg \in Segment /\ MinSize \in Nat \ {0} /\ l \in 1 .. SegmentSize
  BY <1>1, SizesAssumption DEF Tidy, Tiles
<1>3. \A a \in DOMAIN seg :
        /\ a \in Nat /\ a < l /\ seg[a].size \in Nat /\ seg[a] \in Cell
        /\ a + seg[a].size \in DOMAIN seg \cup {l}
  <2>1. \A a \in DOMAIN seg : a \in Nat /\ seg[a].size \in Nat /\ seg[a] \in Cell
    BY <1>2, SegmentIs
  <2> QED
    BY <1>1, <2>1 DEF Tiles
<1>4. l \notin DOMAIN seg
  BY <1>3
<1>5. Ends(seg) \subseteq DOMAIN seg \cup {l}
  BY <1>3 DEF Ends
<1>6. l \in Ends(seg)
  <2>1. Level(seg) = l /\ Ends(seg) \in SUBSET (0 .. l) /\ Ends(seg) # {}
    <3>1. \A e \in Ends(seg) : e \in 0 .. l
      <4> SUFFICES ASSUME NEW a \in DOMAIN seg
                   PROVE  a + seg[a].size \in 0 .. l
        BY DEF Ends
      <4>1. a + seg[a].size <= l /\ a + seg[a].size \in Nat
        BY <1>1, <1>2, Apart
      <4> QED
        BY <4>1
    <3>2. 0 + seg[0].size \in Ends(seg)
      BY <1>1 DEF Tiles, Ends
    <3> QED
      BY <1>1, <1>2, <3>1, <3>2, LevelIs
  <2>2. Max(Ends(seg)) \in Ends(seg)
    BY <2>1, MaxIs
  <2> QED
    BY <2>1, <2>2 DEF Level
<1>7. ASSUME NEW a \in dead
      PROVE  /\ end(a) \in (DOMAIN seg \ dead) \cup {l} /\ end(a) > a /\ end(a) \in Nat
             /\ end(a) <= l
             /\ \A e \in DOMAIN seg : a < e /\ e < end(a) => e \in dead
  <2>1. a \in Nat /\ a < l
    BY <1>3
  <2>2. Stops(a) \in SUBSET Nat /\ l \in Stops(a)
    <3>1. l \in Stops(a)
      BY <1>4, <1>6, <2>1
    <3>2. \A e \in Stops(a) : e \in Nat
      BY <1>3, <1>5
    <3> QED
      BY <3>1, <3>2
  <2> HIDE DEF Stops
  <2>3. end(a) \in Stops(a) /\ \A y \in Stops(a) : end(a) <= y
    BY <2>2, MinIs
  <2>4. end(a) \in (DOMAIN seg \cup {l}) \ dead /\ end(a) > a /\ end(a) \in Nat
    BY <1>5, <2>2, <2>3 DEF Stops
  <2>5. ASSUME NEW e \in DOMAIN seg, a < e, e < end(a), e \notin dead
        PROVE  FALSE
    <3>1. e \in Nat
      BY <1>3
    <3>2. e \in Stops(a)
      BY <2>1, <2>5, <3>1 DEF Stops
    <3> QED
      BY <2>3, <2>4, <2>5, <3>1, <3>2
  <2> QED
    BY <2>2, <2>3, <2>4, <2>5
<1> DEFINE live == DOMAIN seg \ dead
<1>8. new = [a \in live \cup starts |->
               IF a \in starts THEN FreeCell(end(a) - a, FALSE) ELSE seg[a]]
  BY DEF Swept
<1>9. /\ \A a \in starts : a \in dead /\ \A d \in dead : d + seg[d].size # a
      /\ \A a \in dead : (\A d \in dead : d + seg[d].size # a) => a \in starts
  OBVIOUS
<1>10. \A a \in DOMAIN seg : (a \in dead <=> ~seg[a].marked) /\ (a \in live <=> seg[a].marked)
  OBVIOUS
<1>11. live \subseteq DOMAIN seg /\ dead \subseteq DOMAIN seg /\ \A a \in live : a \notin dead
  OBVIOUS
<1> HIDE DEF new, end, starts, Stops, live, dead
<1>12. /\ DOMAIN new = live \cup starts
       /\ \A a \in starts : new[a] = FreeCell(end(a) - a, FALSE)
       /\ \A a \in live : new[a] = seg[a]
  BY <1>8, <1>9, <1>11
<1>13. ASSUME NEW a \in starts
       PROVE  /\ end(a) >= a + seg[a].size /\ end(a) - a \in Nat
              /\ end(a) - a >= MinSize
  <2>1. a \in dead /\ a \in DOMAIN seg /\ a \in Nat /\ seg[a].size \in Nat
    BY <1>3, <1>9, <1>11
  <2>2. end(a) \in (DOMAIN seg \ dead) \cup {l} /\ end(a) > a /\ end(a) \in Nat
    BY <1>7, <2>1
  <2>3. a + seg[a].size <= l
    BY <1>1, <1>2, <2>1, Apart
  <2>4. ~(a < end(a) /\ end(a) < a + seg[a].size)
    <3>1. CASE end(a) = l
      BY <1>2, <2>1, <2>3, <3>1
    <3>2. CASE end(a) \in DOMAIN seg
      BY <1>1, <2>1, <3>2 DEF Tiles
    <3> QED
      BY <2>2, <3>1, <3>2
  <2>5. MinSize <= seg[a].size
    BY <1>1, <2>1 DEF Tiles
  <2> QED
    BY <1>2, <2>1, <2>2, <2>4, <2>5
<1>14. \A a \in starts : /\ new[a] \in Cell /\ new[a].size = end(a) - a
                         /\ new[a].free /\ ~new[a].marked /\ ~new[a].fresh
  <2> SUFFICES ASSUME NEW a \in starts
               PROVE  /\ new[a] \in Cell /\ new[a].size = end(a) - a
                      /\ new[a].free /\ ~new[a].marked /\ ~new[a].fresh
    OBVIOUS
  <2>1. end(a) - a \in Nat
    BY <1>13
  <2>2. new[a] = FreeCell(end(a) - a, FALSE)
    BY <1>12
  <2> QED
    BY <2>1, <2>2 DEF FreeCell, Cell
<1>15. new \in Segment
  <2>1. DOMAIN new \in SUBSET Offsets
    BY <1>2, <1>9, <1>11, <1>12, SegmentIs
  <2>2. \A a \in DOMAIN new : new[a] \in Cell
    BY <1>3, <1>11, <1>12, <1>14
  <2>3. new \in [DOMAIN new -> Cell]
    BY <1>8, <2>2
  <2> QED
    BY <2>1, <2>3, SegmentOf
<1>16. 0 \in DOMAIN new
  <2>1. 0 \in DOMAIN seg
    BY <1>1 DEF Tiles
  <2>2. \A d \in dead : d + seg[d].size # 0
    <3> SUFFICES ASSUME NEW d \in dead
                 PROVE  d + seg[d].size # 0
      OBVIOUS
    <3>1. d \in Nat /\ seg[d].size \in Nat /\ MinSize <= seg[d].size
      BY <1>1, <1>3, <1>11 DEF Tiles
    <3> QED
      BY <1>2, <3>1
  <2> QED
    BY <1>9, <1>10, <1>12, <2>1, <2>2
<1>17. ASSUME NEW a \in live
       PROVE  /\ a + seg[a].size \in DOMAIN new \cup {l}
              /\ \A o \in DOMAIN new : ~(a < o /\ o < a + seg[a].size)
  <2>1. a \in DOMAIN seg /\ a \notin dead
    BY <1>11
  <2>2. \A o \in DOMAIN new : ~(a < o /\ o < a + seg[a].size)
    <3>1. \A o \in DOMAIN new : o \in DOMAIN seg
      BY <1>9, <1>11, <1>12
    <3> QED
      BY <1>1, <2>1, <3>1 DEF Tiles
  <2>3. a + seg[a].size \in DOMAIN seg \cup {l}
    BY <1>3, <2>1
  <2>4. CASE a + seg[a].size \in dead
    <3> DEFINE o == a + seg[a].size
    <3>1. \A d \in dead : d + seg[d].size # o
      <4> SUFFICES ASSUME NEW d \in dead, d + seg[d].size = o
                   PROVE  FALSE
        OBVIOUS
      <4>1. d \in DOMAIN seg /\ d # a
        BY <1>11, <2>1
      <4>2. a + seg[a].size <= d \/ d + seg[d].size <= a
        BY <1>1, <1>2, <2>1, <4>1, Apart
      <4>3. /\ d + seg[d].size >= d + MinSize /\ a + seg[a].size >= a + MinSize
            /\ d \in Nat /\ a \in Nat /\ o \in Nat
        BY <1>1, <1>2, <1>3, <2>1, <4>1, Apart
      <4> QED
        BY <1>2, <4>2, <4>3
    <3> QED
      BY <1>9, <1>12, <2>2, <2>4, <3>1
  <2>5. CASE a + seg[a].size \in DOMAIN seg /\ a + seg[a].size \notin dead
    BY <1>10, <1>12, <2>2, <2>5
  <2> QED
    BY <2>2, <2>3, <2>4, <2>5
<1>18. ASSUME NEW a \in starts
       PROVE  /\ end(a) \in DOMAIN new \cup {l}
              /\ \A o \in DOMAIN new : ~(a < o /\ o < end(a))
  <2>1. a \in dead /\ a \in DOMAIN seg /\ a \in Nat
    BY <1>3, <1>9, <1>11
  <2>2. /\ end(a) \in (DOMAIN seg \ dead) \cup {l} /\ end(a) > a /\ end(a) \in Nat
        /\ \A e \in DOMAIN seg : a < e /\ e < end(a) => e \in dead
    BY <1>7, <2>1
  <2>3. end(a) \in DOMAIN new \cup {l}
    BY <1>10, <1>12, <2>2
  <2>4. ASSUME NEW o \in DOMAIN new, a < o, o < end(a)
        PROVE  FALSE
    <3>1. o \in DOMAIN seg /\ o \in dead /\ o \in starts /\ o \in Nat
      BY <1>3, <1>9, <1>11, <1>12, <2>2, <2>4
    <3>2. o # 0
      BY <2>1, <2>4, <3>1
    <3>3. PICK p \in DOMAIN seg : p < o /\ p + seg[p].size = o
      BY <1>1, <1>2, <3>1, <3>2, Predecessor
    <3>4. p \notin dead
      BY <1>9, <3>1, <3>3
    <3>5. p \in Nat /\ p # a /\ seg[a].size \in Nat
      BY <1>3, <2>1, <3>3, <3>4
    <3>6. a + seg[a].size <= p \/ p + seg[p].size <= a
      BY <1>1, <1>2, <2>1, <3>5, Apart
    <3>7. a < p /\ p < end(a)
      <4>1. a + seg[a].size >= a + MinSize
        BY <1>1, <1>2, <2>1, Apart
      <4> QED
        BY <1>2, <2>1, <2>2, <2>4, <3>1, <3>3, <3>5, <3>6, <4>1
    <3> QED
      BY <2>2, <3>4, <3>7
  <2> QED
    BY <2>3, <2>4
<1>19. Tiles(new, l)
  <2> SUFFICES ASSUME NEW a \in DOMAIN new
               PROVE  /\ a < l /\ MinSize <= new[a].size
                      /\ a + new[a].size \in DOMAIN new \cup {l}
                      /\ \A o \in DOMAIN new : ~(a < o /\ o < a + new[a].size)
    BY <1>2, <1>16 DEF Tiles
  <2>1. CASE a \in live
    <3>1. a < l /\ MinSize <= seg[a].size /\ new[a] = seg[a]
      BY <1>1, <1>11, <1>12, <2>1 DEF Tiles
    <3> QED
      BY <1>17, <2>1, <3>1
  <2>2. CASE a \in starts
    <3>1. a \in DOMAIN seg /\ a \in Nat /\ a < l /\ a \in dead
      BY <1>3, <1>9, <1>11, <2>2
    <3>2. end(a) \in Nat
      BY <1>7, <3>1
    <3>3. new[a].size = end(a) - a /\ MinSize <= new[a].size /\ a + new[a].size = end(a)
      BY <1>2, <1>13, <1>14, <2>2, <3>1, <3>2
    <3> QED
      BY <1>18, <2>2, <3>1, <3>3
  <2> QED
    BY <1>12, <2>1, <2>2
<1>20. \A a \in DOMAIN new : new[a].fresh => new[a].marked
  BY <1>11, <1>12, <1>14 DEF Tidy
<1>21. Tidy(new)
  BY <1>2, <1>15, <1>19, <1>20 DEF Tidy
<1>22. \A a \in DOMAIN seg : seg[a].marked => a \in DOMAIN new /\ new[a] = seg[a]
  BY <1>10, <1>12
<1>23. \A a \in DOMAIN new :
          /\ a \in DOMAIN seg
          /\ ~seg[a].marked => new[a].free /\ ~new[a].marked
  BY <1>9, <1>10, <1>11, <1>12, <1>14
<1> QED
  BY <1>21, <1>22, <1>23 DEF new

------------------------------------------------------------------------------
(* Sizes.                                                                     *)

\* Cells take up a finite number of units.
LEMMA CoveredFinite ==
    ASSUME NEW seg, Tidy(seg), NEW S \in SUBSET DOMAIN seg
    PROVE  /\ Covered(seg, S) \subseteq 0 .. SegmentSize
           /\ IsFiniteSet(Covered(seg, S)) /\ SizeOf(seg, S) \in Nat
<1>1. PICK l \in Nat : Tiles(seg, l)
  BY DEF Tidy
<1>2. seg \in Segment /\ l \in 1 .. SegmentSize /\ SegmentSize \in Nat
  BY <1>1, SizesAssumption DEF Tidy, Tiles
<1>3. ASSUME NEW a \in S, NEW u \in a .. (a + seg[a].size - 1)
      PROVE  u \in 0 .. SegmentSize
  <2>1. a \in Nat /\ seg[a].size \in Nat
    BY <1>2, SegmentIs
  <2>2. a + seg[a].size <= l
    BY <1>1, <1>2, Apart
  <2> QED
    BY <1>2, <2>1, <2>2
<1>4. Covered(seg, S) \subseteq 0 .. SegmentSize
  BY <1>3 DEF Covered
<1>5. 0 \in Int /\ SegmentSize \in Int
  BY <1>2
<1>6. IsFiniteSet(0 .. SegmentSize)
  BY <1>5, FS_Interval
<1>7. IsFiniteSet(Covered(seg, S))
  BY <1>4, <1>6, FS_Subset
<1> QED
  BY <1>4, <1>7, FS_CardinalityType DEF SizeOf

\* Different cells take up different units.
LEMMA SizeSplit ==
    ASSUME NEW seg, Tidy(seg), NEW S \in SUBSET DOMAIN seg,
           NEW T \in SUBSET DOMAIN seg, S \cap T = {}
    PROVE  SizeOf(seg, S \cup T) = SizeOf(seg, S) + SizeOf(seg, T)
<1>1. PICK l \in Nat : Tiles(seg, l)
  BY DEF Tidy
<1>2. seg \in Segment
  BY DEF Tidy
<1>3. ASSUME NEW u, u \in Covered(seg, S), u \in Covered(seg, T)
      PROVE  FALSE
  <2>1. PICK a \in S : u \in a .. (a + seg[a].size - 1)
    BY <1>3 DEF Covered
  <2>2. PICK b \in T : u \in b .. (b + seg[b].size - 1)
    BY <1>3 DEF Covered
  <2>3. a # b /\ a \in DOMAIN seg /\ b \in DOMAIN seg
    OBVIOUS
  <2>4. a + seg[a].size <= b \/ b + seg[b].size <= a
    BY <1>1, <1>2, <2>3, Apart
  <2>5. a \in Nat /\ b \in Nat /\ seg[a].size \in Nat /\ seg[b].size \in Nat
    BY <1>2, <2>3, SegmentIs
  <2> QED
    BY <2>1, <2>2, <2>4, <2>5
<1>4. Covered(seg, S \cup T) = Covered(seg, S) \cup Covered(seg, T)
  BY DEF Covered
<1>5. Covered(seg, S) \cap Covered(seg, T) = {}
  BY <1>3
<1>6. IsFiniteSet(Covered(seg, S)) /\ IsFiniteSet(Covered(seg, T))
  BY CoveredFinite
<1>7. Cardinality(Covered(seg, S) \cup Covered(seg, T)) =
         Cardinality(Covered(seg, S)) + Cardinality(Covered(seg, T)) - 0
  <2>1. Cardinality({}) = 0
    BY FS_EmptySet
  <2>2. Cardinality(Covered(seg, S) \cup Covered(seg, T)) =
          Cardinality(Covered(seg, S)) + Cardinality(Covered(seg, T))
             - Cardinality(Covered(seg, S) \cap Covered(seg, T))
    BY <1>6, FS_Union
  <2> QED
    BY <1>5, <2>1, <2>2
<1>8. SizeOf(seg, S) \in Nat /\ SizeOf(seg, T) \in Nat
  BY CoveredFinite
<1> QED
  BY <1>4, <1>7, <1>8 DEF SizeOf

\* One cell takes up its size.
LEMMA SizeOne ==
    ASSUME NEW seg, Tidy(seg), NEW a \in DOMAIN seg
    PROVE  SizeOf(seg, {a}) = seg[a].size
<1>1. a \in Nat /\ seg[a].size \in Nat
  BY SegmentIs DEF Tidy
<1>2. PICK l \in Nat : Tiles(seg, l)
  BY DEF Tidy
<1>3. seg[a].size >= 1
  BY <1>1, <1>2, SizesAssumption DEF Tiles
<1> DEFINE z == a + seg[a].size - 1
<1>4. Covered(seg, {a}) = a .. z
  BY DEF Covered
<1>5. a \in Int /\ z \in Int /\ ~(a > z) /\ z - a + 1 = seg[a].size
  BY <1>1, <1>3
<1> HIDE DEF z
<1>6. Cardinality(a .. z) = IF a > z THEN 0 ELSE z - a + 1
  BY <1>5, FS_Interval
<1> QED
  BY <1>4, <1>5, <1>6 DEF SizeOf

\* What cells take up does not depend on the others.
LEMMA SameSize ==
    ASSUME NEW seg, NEW new, NEW S, \A a \in S : new[a].size = seg[a].size
    PROVE  Covered(new, S) = Covered(seg, S) /\ SizeOf(new, S) = SizeOf(seg, S)
<1>1. Covered(new, S) = Covered(seg, S)
  BY DEF Covered
<1> QED
  BY <1>1 DEF SizeOf

\* One more object adds its size.
LEMMA ObjectAdded ==
    ASSUME NEW seg, Tidy(seg), NEW new, Tidy(new), NEW o \in DOMAIN new,
           o \notin Objects(seg), Objects(new) = Objects(seg) \cup {o},
           \A a \in Objects(seg) : new[a].size = seg[a].size
    PROVE  SizeOf(new, Objects(new)) = SizeOf(seg, Objects(seg)) + new[o].size
<1> DEFINE S == Objects(seg)
<1>1. SizeOf(new, S) = SizeOf(seg, S)
  BY SameSize
<1>2. S \in SUBSET DOMAIN new /\ {o} \in SUBSET DOMAIN new /\ S \cap {o} = {}
  BY DEF Objects
<1>3. SizeOf(new, S \cup {o}) = SizeOf(new, S) + SizeOf(new, {o})
  BY <1>2, SizeSplit
<1> QED
  BY <1>1, <1>3, SizeOne

\* Sweeping takes the unmarked objects away.
LEMMA SweptSize ==
    ASSUME NEW seg, Tidy(seg)
    PROVE  /\ SizeOf(seg, Objects(seg)) =
                SizeOf(Swept(seg), Objects(Swept(seg))) + SweptBytes(seg)
           /\ SweptBytes(seg) \in Nat
<1> DEFINE new == Swept(seg)
           dead == {a \in Objects(seg) : ~seg[a].marked}
<1>1. /\ Tidy(new)
      /\ \A a \in DOMAIN seg : seg[a].marked => a \in DOMAIN new /\ new[a] = seg[a]
      /\ \A a \in DOMAIN new : a \in DOMAIN seg /\ (~seg[a].marked => new[a].free)
  BY SweptEffect
<1> HIDE DEF new
<1>2. \A a \in Objects(new) : a \in Objects(seg) /\ seg[a].marked /\ new[a] = seg[a]
  BY <1>1 DEF Objects
<1>3. \A a \in Objects(seg) : seg[a].marked => a \in Objects(new)
  BY <1>1 DEF Objects
<1>4. Objects(seg) = Objects(new) \cup dead /\ Objects(new) \cap dead = {}
  BY <1>2, <1>3
<1>5. Objects(new) \in SUBSET DOMAIN seg /\ dead \in SUBSET DOMAIN seg
  BY <1>2 DEF Objects
<1> HIDE DEF dead
<1>6. SizeOf(seg, Objects(new) \cup dead) =
         SizeOf(seg, Objects(new)) + SizeOf(seg, dead)
  BY <1>4, <1>5, SizeSplit
<1>7. SizeOf(seg, Objects(new)) = SizeOf(new, Objects(new))
  BY <1>2, SameSize
<1>8. SizeOf(seg, dead) = SweptBytes(seg) /\ SizeOf(seg, dead) \in Nat
  <2>1. SizeOf(seg, dead) = SweptBytes(seg)
    BY DEF SweptBytes, dead
  <2> QED
    BY <1>5, <2>1, CoveredFinite
<1> QED
  BY <1>4, <1>6, <1>7, <1>8 DEF new

------------------------------------------------------------------------------
(* The bytes of all objects.                                                  *)

AllTidy(segs) == segs \in Seq(Segment) /\ \A s \in DOMAIN segs : Tidy(segs[s])

\* The objects of one segment, and those of the others.
Share(segs, s) == {s} \X Covered(segs[s], Objects(segs[s]))
Others(segs, s) == UNION {Share(segs, t) : t \in DOMAIN segs \ {s}}
AllShares(segs) == UNION {Share(segs, t) : t \in DOMAIN segs}

\* The objects take up a finite number of units.
LEMMA SharesFinite ==
    ASSUME NEW segs, AllTidy(segs)
    PROVE  /\ IsFiniteSet(AllShares(segs)) /\ ObjectBytes(segs) \in Nat
           /\ ObjectBytes(segs) = Cardinality(AllShares(segs))
<1>1. /\ Len(segs) \in Nat /\ DOMAIN segs = 1 .. Len(segs)
      /\ \A s \in DOMAIN segs : Tidy(segs[s])
  BY LenProperties DEF AllTidy
<1> DEFINE Box == (1 .. Len(segs)) \X (0 .. SegmentSize)
<1>2. IsFiniteSet(Box)
  <2>1. 1 \in Int /\ Len(segs) \in Int /\ 0 \in Int /\ SegmentSize \in Int
    BY <1>1, SizesAssumption
  <2>2. IsFiniteSet(1 .. Len(segs)) /\ IsFiniteSet(0 .. SegmentSize)
    BY <2>1, FS_Interval
  <2> QED
    BY <2>2, FS_Product
<1>3. ASSUME NEW s \in DOMAIN segs
      PROVE  Share(segs, s) \subseteq Box
  <2>1. Objects(segs[s]) \in SUBSET DOMAIN segs[s]
    BY DEF Objects
  <2>2. Covered(segs[s], Objects(segs[s])) \subseteq 0 .. SegmentSize
    BY <1>1, <2>1, CoveredFinite
  <2> QED
    BY <1>1, <2>2 DEF Share
<1>4. AllShares(segs) \in SUBSET Box
  BY <1>3 DEF AllShares
<1> HIDE DEF Box
<1>5. IsFiniteSet(AllShares(segs))
  BY <1>2, <1>4, FS_Subset
<1>6. ObjectBytes(segs) = Cardinality(AllShares(segs))
  BY DEF ObjectBytes, AllShares, Share
<1> QED
  BY <1>5, <1>6, FS_CardinalityType

\* A segment's part of the bytes.
LEMMA BytesSplit ==
    ASSUME NEW segs, AllTidy(segs), NEW s \in DOMAIN segs
    PROVE  /\ ObjectBytes(segs) =
                Cardinality(Others(segs, s)) + SizeOf(segs[s], Objects(segs[s]))
           /\ Cardinality(Others(segs, s)) \in Nat
           /\ SizeOf(segs[s], Objects(segs[s])) \in Nat
<1>1. IsFiniteSet(AllShares(segs)) /\ ObjectBytes(segs) = Cardinality(AllShares(segs))
  BY SharesFinite
<1>2. AllShares(segs) = Others(segs, s) \cup Share(segs, s)
  BY DEF AllShares, Others
<1>3. Others(segs, s) \cap Share(segs, s) = {}
  BY DEF Others, Share
<1>4. Others(segs, s) \in SUBSET AllShares(segs) /\ Share(segs, s) \in SUBSET AllShares(segs)
  BY <1>2
<1>5. IsFiniteSet(Others(segs, s)) /\ IsFiniteSet(Share(segs, s))
  BY <1>1, <1>4, FS_Subset
<1>6. Cardinality(AllShares(segs)) = Cardinality(Others(segs, s))
         + Cardinality(Share(segs, s)) - Cardinality({})
  BY <1>2, <1>3, <1>5, FS_Union
<1>7. Cardinality({}) = 0
  BY FS_EmptySet
<1>8. /\ Cardinality(Share(segs, s)) = SizeOf(segs[s], Objects(segs[s]))
      /\ SizeOf(segs[s], Objects(segs[s])) \in Nat
  <2> DEFINE C == Covered(segs[s], Objects(segs[s]))
  <2>1. Tidy(segs[s]) /\ Objects(segs[s]) \in SUBSET DOMAIN segs[s]
    BY DEF AllTidy, Objects
  <2>2. IsFiniteSet(C) /\ SizeOf(segs[s], Objects(segs[s])) \in Nat
    BY <2>1, CoveredFinite
  <2>3. SizeOf(segs[s], Objects(segs[s])) = Cardinality(C)
    BY DEF SizeOf
  <2>4. Share(segs, s) = {s} \X C
    BY DEF Share
  <2> HIDE DEF C
  <2>5. IsFiniteSet({s}) /\ Cardinality({s}) = 1
    BY FS_Singleton
  <2>6. Cardinality({s} \X C) = Cardinality({s}) * Cardinality(C)
    BY <2>2, <2>5, FS_Product
  <2> QED
    BY <2>2, <2>3, <2>4, <2>5, <2>6
<1>9. Cardinality(Others(segs, s)) \in Nat
  BY <1>5, FS_CardinalityType
<1> QED
  BY <1>1, <1>6, <1>7, <1>8, <1>9

\* If one segment changes, the bytes change with it.
LEMMA BytesReplaced ==
    ASSUME NEW segs, AllTidy(segs), NEW new, AllTidy(new), NEW s \in DOMAIN segs,
           DOMAIN new = DOMAIN segs, \A t \in DOMAIN segs : t # s => new[t] = segs[t]
    PROVE  ObjectBytes(new) = ObjectBytes(segs)
              - SizeOf(segs[s], Objects(segs[s])) + SizeOf(new[s], Objects(new[s]))
<1>1. Others(new, s) = Others(segs, s)
  BY DEF Others, Share
<1>2. ObjectBytes(new) =
         Cardinality(Others(segs, s)) + SizeOf(new[s], Objects(new[s]))
  BY <1>1, BytesSplit
<1>3. ObjectBytes(segs) =
         Cardinality(Others(segs, s)) + SizeOf(segs[s], Objects(segs[s]))
  BY BytesSplit
<1>4. /\ Cardinality(Others(segs, s)) \in Nat
      /\ SizeOf(segs[s], Objects(segs[s])) \in Nat
      /\ SizeOf(new[s], Objects(new[s])) \in Nat
  BY BytesSplit
<1> QED
  BY <1>2, <1>3, <1>4

\* A segment that is added brings its objects.
LEMMA BytesAppended ==
    ASSUME NEW segs, AllTidy(segs), NEW new, AllTidy(new), NEW s \in DOMAIN new,
           DOMAIN segs = DOMAIN new \ {s}, \A t \in DOMAIN segs : new[t] = segs[t]
    PROVE  ObjectBytes(new) = ObjectBytes(segs) + SizeOf(new[s], Objects(new[s]))
<1>1. Others(new, s) = AllShares(segs)
  BY DEF Others, AllShares, Share
<1>2. ObjectBytes(segs) = Cardinality(AllShares(segs))
  BY SharesFinite
<1> QED
  BY <1>1, <1>2, BytesSplit

\* Without segments there are no objects.
LEMMA NoBytes == AllTidy(<<>>) /\ ObjectBytes(<<>>) = 0
<1>1. DOMAIN <<>> = {}
  OBVIOUS
<1>2. ObjectBytes(<<>>) = Cardinality({})
  BY <1>1 DEF ObjectBytes
<1> QED
  BY <1>1, <1>2, EmptySeq, FS_EmptySet DEF AllTidy

------------------------------------------------------------------------------
(* Lists without duplicates.                                                  *)

\* Pushing at the head.
LEMMA PushIs ==
    ASSUME NEW list \in Seq(Nat), NoDuplicates(list), NEW e \in Nat, e \notin ToSet(list)
    PROVE  /\ <<e>> \o list \in Seq(Nat) /\ NoDuplicates(<<e>> \o list)
           /\ ToSet(<<e>> \o list) = ToSet(list) \cup {e}
           /\ <<e>> \o list # <<>>
<1> DEFINE new == <<e>> \o list
<1>0. Len(list) \in Nat /\ DOMAIN list = 1 .. Len(list)
  BY LenProperties
<1>1. <<e>> \in Seq(Nat) /\ Len(<<e>>) = 1 /\ <<e>>[1] = e
  OBVIOUS
<1>2. /\ new \in Seq(Nat) /\ Len(new) = 1 + Len(list)
      /\ \A i \in 1 .. 1 + Len(list) : new[i] = IF i <= 1 THEN <<e>>[i] ELSE list[i - 1]
  BY <1>1, ConcatProperties
<1>3. DOMAIN new = 1 .. 1 + Len(list)
  BY <1>2, LenProperties
<1> HIDE DEF new
<1>4. new[1] = e /\ \A i \in 1 .. Len(list) : new[i + 1] = list[i]
  <2>1. 1 \in 1 .. 1 + Len(list) /\ new[1] = e
    BY <1>0, <1>1, <1>2
  <2>2. ASSUME NEW i \in 1 .. Len(list)
        PROVE  new[i + 1] = list[i]
    <3>1. i + 1 \in 1 .. 1 + Len(list) /\ ~(i + 1 <= 1) /\ i + 1 - 1 = i
      BY <1>0
    <3> QED
      BY <1>2, <3>1
  <2> QED
    BY <2>1, <2>2
<1>5. \A i \in DOMAIN new : i = 1 \/ \E k \in 1 .. Len(list) : i = k + 1
  <2> SUFFICES ASSUME NEW i \in DOMAIN new, i # 1
               PROVE  \E k \in 1 .. Len(list) : i = k + 1
    OBVIOUS
  <2>1. i - 1 \in 1 .. Len(list) /\ i = (i - 1) + 1
    BY <1>0, <1>3
  <2> QED
    BY <2>1
<1>6. NoDuplicates(new)
  <2> SUFFICES ASSUME NEW i \in DOMAIN new, NEW j \in DOMAIN new, new[i] = new[j]
               PROVE  i = j
    BY DEF NoDuplicates
  <2>1. \A k \in 1 .. Len(list) : list[k] \in ToSet(list)
    BY <1>0 DEF ToSet
  <2>2. CASE i = 1
    BY <1>4, <1>5, <2>1, <2>2
  <2>3. CASE j = 1
    BY <1>4, <1>5, <2>1, <2>3
  <2>4. CASE i # 1 /\ j # 1
    <3>1. PICK k \in 1 .. Len(list) : i = k + 1
      BY <1>5, <2>4
    <3>2. PICK m \in 1 .. Len(list) : j = m + 1
      BY <1>5, <2>4
    <3>3. list[k] = list[m]
      BY <1>4, <3>1, <3>2
    <3> QED
      BY <1>0, <3>1, <3>2, <3>3 DEF NoDuplicates
  <2> QED
    BY <2>2, <2>3, <2>4
<1>7. ToSet(new) = ToSet(list) \cup {e}
  <2>1. \A x \in ToSet(new) : x \in ToSet(list) \cup {e}
    BY <1>0, <1>4, <1>5 DEF ToSet
  <2>2. \A k \in 1 .. Len(list) : k + 1 \in DOMAIN new
    BY <1>0, <1>3
  <2>3. 1 \in DOMAIN new
    BY <1>0, <1>3
  <2>4. \A x \in ToSet(list) \cup {e} : x \in ToSet(new)
    BY <1>0, <1>4, <2>2, <2>3 DEF ToSet
  <2> QED
    BY <2>1, <2>4
<1>8. new # <<>>
  BY <1>0, <1>2
<1> QED
  BY <1>2, <1>6, <1>7, <1>8 DEF new

\* Unlinking one element.
LEMMA WithoutIs ==
    ASSUME NEW list \in Seq(Nat), NoDuplicates(list), NEW e \in ToSet(list)
    PROVE  /\ Without(list, e) \in Seq(Nat) /\ NoDuplicates(Without(list, e))
           /\ ToSet(Without(list, e)) = ToSet(list) \ {e}
<1> DEFINE i == CHOOSE k \in DOMAIN list : list[k] = e
           new == Without(list, e)
           N == Len(list)
<1>0. N \in Nat /\ DOMAIN list = 1 .. N /\ \A k \in 1 .. N : list[k] \in Nat
  BY LenProperties
<1>1. i \in 1 .. N /\ list[i] = e
  BY <1>0 DEF ToSet
<1>2. new = SubSeq(list, 1, i - 1) \o SubSeq(list, i + 1, N)
  BY DEF Without, RemoveAt
<1> HIDE DEF i, new, N
<1>3. /\ SubSeq(list, 1, i - 1) \in Seq(Nat) /\ Len(SubSeq(list, 1, i - 1)) = i - 1
      /\ \A k \in 1 .. i - 1 : SubSeq(list, 1, i - 1)[k] = list[k]
  <2>1. 1 \in Int /\ i - 1 \in Int /\ \A k \in 1 .. i - 1 : list[k] \in Nat
    BY <1>0, <1>1
  <2>2. /\ SubSeq(list, 1, i - 1) \in Seq(Nat)
        /\ Len(SubSeq(list, 1, i - 1)) = IF 1 <= i - 1 THEN (i - 1) - 1 + 1 ELSE 0
        /\ \A k \in 1 .. (i - 1) - 1 + 1 : SubSeq(list, 1, i - 1)[k] = list[1 + k - 1]
    BY <2>1, SubSeqProperties
  <2>3. (i - 1) - 1 + 1 = i - 1 /\ \A k \in 1 .. i - 1 : 1 + k - 1 = k
    BY <1>0, <1>1
  <2> QED
    BY <1>0, <1>1, <2>2, <2>3
<1>4. /\ SubSeq(list, i + 1, N) \in Seq(Nat) /\ Len(SubSeq(list, i + 1, N)) = N - i
      /\ \A k \in 1 .. N - i : SubSeq(list, i + 1, N)[k] = list[i + k]
  <2>1. i + 1 \in Int /\ N \in Int /\ \A k \in (i + 1) .. N : list[k] \in Nat
    BY <1>0, <1>1
  <2>2. /\ SubSeq(list, i + 1, N) \in Seq(Nat)
        /\ Len(SubSeq(list, i + 1, N)) = IF i + 1 <= N THEN N - (i + 1) + 1 ELSE 0
        /\ \A k \in 1 .. N - (i + 1) + 1 : SubSeq(list, i + 1, N)[k] = list[(i + 1) + k - 1]
    BY <2>1, SubSeqProperties
  <2>3. N - (i + 1) + 1 = N - i /\ \A k \in 1 .. N - i : (i + 1) + k - 1 = i + k
    BY <1>0, <1>1
  <2> QED
    BY <1>0, <1>1, <2>2, <2>3
<1> DEFINE p == SubSeq(list, 1, i - 1)
           q == SubSeq(list, i + 1, N)
<1> HIDE DEF p, q
<1>5. /\ p \in Seq(Nat) /\ Len(p) = i - 1 /\ \A k \in 1 .. i - 1 : p[k] = list[k]
      /\ q \in Seq(Nat) /\ Len(q) = N - i /\ \A k \in 1 .. N - i : q[k] = list[i + k]
      /\ new = p \o q
  BY <1>2, <1>3, <1>4 DEF p, q
<1>6. /\ new \in Seq(Nat) /\ Len(new) = Len(p) + Len(q)
      /\ \A k \in 1 .. Len(p) + Len(q) :
            new[k] = IF k <= Len(p) THEN p[k] ELSE q[k - Len(p)]
  BY <1>5, ConcatProperties
<1>7. DOMAIN new = 1 .. N - 1 /\ N - 1 \in Nat
  <2>1. DOMAIN new = 1 .. Len(new)
    BY <1>6, LenProperties
  <2>2. Len(new) = N - 1
    BY <1>0, <1>1, <1>5, <1>6
  <2> QED
    BY <1>0, <1>1, <2>1, <2>2
<1>8. ASSUME NEW k \in 1 .. N - 1
      PROVE  new[k] = IF k < i THEN list[k] ELSE list[k + 1]
  <2>1. k \in 1 .. Len(p) + Len(q)
    BY <1>0, <1>1, <1>5
  <2>2. CASE k < i
    <3>1. k <= Len(p) /\ k \in 1 .. i - 1
      BY <1>1, <1>5, <2>2
    <3> QED
      BY <1>5, <1>6, <2>1, <2>2, <3>1
  <2>3. CASE ~(k < i)
    <3>1. ~(k <= Len(p)) /\ k - Len(p) \in 1 .. N - i /\ i + (k - Len(p)) = k + 1
      BY <1>0, <1>1, <1>5, <2>3
    <3>2. new[k] = q[k - Len(p)]
      BY <1>6, <2>1, <3>1
    <3>3. q[k - Len(p)] = list[i + (k - Len(p))]
      BY <1>5, <3>1
    <3> QED
      BY <2>3, <3>1, <3>2, <3>3
  <2> QED
    BY <2>2, <2>3
<1> DEFINE At(k) == IF k < i THEN k ELSE k + 1
<1>9. \A k \in 1 .. N - 1 : At(k) \in 1 .. N /\ At(k) # i /\ new[k] = list[At(k)]
  BY <1>0, <1>1, <1>8
<1>10. \A k \in 1 .. N - 1, m \in 1 .. N - 1 : At(k) = At(m) => k = m
  BY <1>0, <1>1
<1>11. \A m \in 1 .. N : m # i => \E k \in 1 .. N - 1 : At(k) = m
  <2> SUFFICES ASSUME NEW m \in 1 .. N, m # i
               PROVE  \E k \in 1 .. N - 1 : At(k) = m
    OBVIOUS
  <2>1. CASE m < i
    <3>1. m \in 1 .. N - 1 /\ At(m) = m
      BY <1>0, <1>1, <2>1
    <3> QED
      BY <3>1
  <2>2. CASE m > i
    <3>1. m - 1 \in 1 .. N - 1 /\ At(m - 1) = m
      BY <1>0, <1>1, <2>2
    <3> QED
      BY <3>1
  <2> QED
    BY <1>0, <1>1, <2>1, <2>2
<1> HIDE DEF At
<1>12. NoDuplicates(new)
  BY <1>0, <1>7, <1>9, <1>10 DEF NoDuplicates
<1>13. ToSet(new) = ToSet(list) \ {e}
  <2>1. \A x \in ToSet(new) : x \in ToSet(list) \ {e}
    <3> SUFFICES ASSUME NEW k \in 1 .. N - 1
                 PROVE  new[k] \in ToSet(list) \ {e}
      BY <1>7 DEF ToSet
    <3>1. At(k) \in 1 .. N /\ At(k) # i /\ new[k] = list[At(k)]
      BY <1>9
    <3>2. list[At(k)] # list[i]
      BY <1>0, <1>1, <3>1 DEF NoDuplicates
    <3> QED
      BY <1>0, <1>1, <3>1, <3>2 DEF ToSet
  <2>2. \A x \in ToSet(list) \ {e} : x \in ToSet(new)
    <3> SUFFICES ASSUME NEW m \in 1 .. N, list[m] # e
                 PROVE  list[m] \in ToSet(new)
      BY <1>0 DEF ToSet
    <3>1. PICK k \in 1 .. N - 1 : At(k) = m
      BY <1>1, <1>11
    <3> QED
      BY <1>7, <1>9, <3>1 DEF ToSet
  <2> QED
    BY <2>1, <2>2
<1> QED
  BY <1>6, <1>12, <1>13 DEF new

\* A list is empty if it has no elements.
LEMMA EmptyList ==
    ASSUME NEW list \in Seq(Nat)
    PROVE  list = <<>> <=> ToSet(list) = {}
<1>1. Len(list) \in Nat /\ DOMAIN list = 1 .. Len(list)
  BY LenProperties
<1>2. CASE list = <<>>
  BY <1>2 DEF ToSet
<1>3. CASE list # <<>>
  <2>1. Len(list) \in Nat \ {0}
    BY <1>3, EmptySeq
  <2>2. 1 \in DOMAIN list
    BY <1>1, <2>1
  <2>3. list[1] \in ToSet(list)
    BY <2>2 DEF ToSet
  <2> QED
    BY <1>3, <2>3
<1> QED
  BY <1>2, <1>3

\* A bounded set of numbers can be listed in descending order.
LEMMA DescendingIs ==
    ASSUME NEW N \in Nat, NEW S \in SUBSET (0 .. N)
    PROVE  /\ Descending(S) \in Seq(Nat) /\ NoDuplicates(Descending(S))
           /\ ToSet(Descending(S)) = S
<1> DEFINE Lists0(e, n, J) == /\ n \in Nat /\ e \in [1 .. n -> J]
                              /\ \A j, k \in 1 .. n : j < k => e[j] > e[k]
                              /\ \A x \in J : \E k \in 1 .. n : e[k] = x
           Listed(J) == \E n, e : Lists0(e, n, J)
           Bad == {m \in Nat : \E J \in SUBSET (0 .. m - 1) : ~Listed(J)}
<1>1. Bad = {}
  <2> SUFFICES ASSUME Bad # {}
               PROVE  FALSE
    OBVIOUS
  <2>1. Bad \in SUBSET Nat
    OBVIOUS
  <2> HIDE DEF Bad
  <2>2. Min(Bad) \in Bad /\ \A y \in Bad : Min(Bad) <= y
    BY <2>1, MinIs
  <2>3. PICK m \in Bad : \A y \in Bad : m <= y
    BY <2>2
  <2>4. PICK J \in SUBSET (0 .. m - 1) : ~Listed(J)
    BY <2>3 DEF Bad
  <2>5. m \in Nat
    BY <2>1
  <2>6. CASE m = 0
    <3>1. J = {}
      BY <2>4, <2>6
    <3>2. Lists0(<<>>, 0, J)
      BY <3>1
    <3> QED
      BY <2>4, <3>2
  <2>7. CASE m # 0
    <3>1. m - 1 \in Nat /\ ~(m <= m - 1)
      BY <2>5, <2>7
    <3>2. m - 1 \notin Bad
      BY <2>3, <3>1
    <3>3. J \ {m - 1} \in SUBSET (0 .. (m - 1) - 1)
      BY <2>5, <2>7
    <3>4. Listed(J \ {m - 1})
      BY <3>1, <3>2, <3>3 DEF Bad
    <3>5. PICK n, e : Lists0(e, n, J \ {m - 1})
      BY <3>4
    <3>6. CASE m - 1 \notin J
      <4>1. J \ {m - 1} = J
        BY <3>6
      <4>2. Lists0(e, n, J)
        <5> HIDE DEF Lists0
        <5> QED
          BY <3>5, <4>1
      <4> QED
        BY <2>4, <4>2
    <3>7. CASE m - 1 \in J
      <4> DEFINE d == [k \in 1 .. n + 1 |-> IF k = 1 THEN m - 1 ELSE e[k - 1]]
      <4>0. n \in Nat
        BY <3>5
      <4>1. \A k \in 1 .. n + 1 :
               \/ k = 1 /\ d[k] = m - 1
               \/ k # 1 /\ k - 1 \in 1 .. n /\ d[k] = e[k - 1]
        BY <4>0
      <4>2. \A k \in 1 .. n : e[k] \in J /\ e[k] \in 0 .. m - 2
        <5>1. \A x \in J : x # m - 1 => x \in 0 .. m - 2
          <6>1. \A x \in J : x \in 0 .. m - 1
            OBVIOUS
          <6> QED
            BY <2>5, <6>1
        <5>2. \A k \in 1 .. n : e[k] \in J /\ e[k] # m - 1
          BY <3>5
        <5> QED
          BY <5>1, <5>2
      <4>3. d \in [1 .. n + 1 -> J]
        <5>1. \A k \in 1 .. n + 1 : d[k] \in J
          BY <3>7, <4>1, <4>2
        <5> QED
          BY <5>1
      <4>4. \A k \in 1 .. n : k + 1 \in 1 .. n + 1 /\ d[k + 1] = e[k]
        BY <4>0
      <4>5. 1 \in 1 .. n + 1 /\ d[1] = m - 1
        BY <4>0
      <4> HIDE DEF d
      <4>6. \A j, k \in 1 .. n + 1 : j < k => d[j] > d[k]
        <5> SUFFICES ASSUME NEW j \in 1 .. n + 1, NEW k \in 1 .. n + 1, j < k
                     PROVE  d[j] > d[k]
          OBVIOUS
        <5>1. k # 1 /\ k - 1 \in 1 .. n /\ d[k] = e[k - 1]
          BY <4>0, <4>1
        <5>2. CASE j = 1
          BY <2>5, <4>2, <4>5, <5>1, <5>2
        <5>3. CASE j # 1
          <6>1. j - 1 \in 1 .. n /\ d[j] = e[j - 1] /\ j - 1 < k - 1
            BY <4>0, <4>1, <5>1, <5>3
          <6> QED
            BY <3>5, <5>1, <6>1
        <5> QED
          BY <5>2, <5>3
      <4>7. \A x \in J : \E k \in 1 .. n + 1 : d[k] = x
        <5> SUFFICES ASSUME NEW x \in J
                     PROVE  \E k \in 1 .. n + 1 : d[k] = x
          OBVIOUS
        <5>1. CASE x = m - 1
          BY <4>5, <5>1
        <5>2. CASE x # m - 1
          <6>1. PICK k \in 1 .. n : e[k] = x
            BY <3>5, <5>2
          <6> QED
            BY <4>4, <6>1
        <5> QED
          BY <5>1, <5>2
      <4>8. Lists0(d, n + 1, J)
        BY <4>0, <4>3, <4>6, <4>7
      <4> QED
        BY <2>4, <4>8
    <3> QED
      BY <3>6, <3>7
  <2> QED
    BY <2>6, <2>7
<1> HIDE DEF Bad
<1>2. Listed(S)
  <2>1. N + 1 \in Nat /\ N + 1 \notin Bad
    BY <1>1
  <2>2. S \in SUBSET (0 .. (N + 1) - 1)
    OBVIOUS
  <2> HIDE DEF Listed
  <2>3. \A J \in SUBSET (0 .. (N + 1) - 1) : Listed(J)
    BY <2>1 DEF Bad
  <2> QED
    BY <2>2, <2>3
<1>3. PICK n, e : Lists0(e, n, S)
  BY <1>2
<1>4. \A f : Lists0(f, n, S) => f \in Bijection(1 .. n, S)
  <2> SUFFICES ASSUME NEW f, Lists0(f, n, S)
               PROVE  f \in Bijection(1 .. n, S)
    OBVIOUS
  <2>1. f \in [1 .. n -> S] /\ \A x \in S : \E k \in 1 .. n : f[k] = x
    OBVIOUS
  <2>2. \A j, k \in 1 .. n : f[j] = f[k] => j = k
    <3> SUFFICES ASSUME NEW j \in 1 .. n, NEW k \in 1 .. n, f[j] = f[k], j # k
                 PROVE  FALSE
      OBVIOUS
    <3>1. n \in Nat /\ (j < k \/ k < j)
      OBVIOUS
    <3>2. f[j] > f[k] \/ f[k] > f[j]
      BY <3>1
    <3>3. f[j] \in 0 .. N
      BY <2>1
    <3> QED
      BY <3>2, <3>3
  <2> QED
    BY <2>1, <2>2 DEF Bijection, Injection, Surjection, IsInjective
<1>5. Cardinality(S) = n /\ n \in Nat
  BY <1>3, <1>4, FS_CountingElements DEF ExistsBijection
<1> DEFINE D == Descending(S)
<1>6. D \in [1 .. n -> S] /\ \A j, k \in DOMAIN D : j < k => D[j] > D[k]
  <2>1. e \in [1 .. Cardinality(S) -> S] /\ \A j, k \in DOMAIN e : j < k => e[j] > e[k]
    BY <1>3, <1>5
  <2>2. /\ D \in [1 .. Cardinality(S) -> S]
        /\ \A j, k \in DOMAIN D : j < k => D[j] > D[k]
    BY <2>1 DEF Descending
  <2> QED
    BY <1>5, <2>2
<1> HIDE DEF D
<1>7. DOMAIN D = 1 .. n /\ n \in Nat
  BY <1>5, <1>6
<1>8. D \in Seq(Nat)
  <2>1. S \subseteq Nat
    OBVIOUS
  <2>2. D \in [1 .. n -> Nat]
    BY <1>6, <2>1
  <2> QED
    BY <1>7, <2>2, SeqDef
<1>9. NoDuplicates(D)
  <2> SUFFICES ASSUME NEW j \in 1 .. n, NEW k \in 1 .. n, D[j] = D[k], j # k
               PROVE  FALSE
    BY <1>7 DEF NoDuplicates
  <2>1. D[j] \in 0 .. N
    BY <1>6
  <2>2. j < k \/ k < j
    BY <1>7
  <2>3. D[j] > D[k] \/ D[k] > D[j]
    BY <1>6, <1>7, <2>2
  <2> QED
    BY <2>1, <2>3
<1>10. ToSet(D) = S
  <2>1. D \in Injection(1 .. n, S)
    BY <1>6, <1>7, <1>9 DEF Injection, IsInjective, NoDuplicates
  <2>2. Range(D) = ToSet(D) /\ ToSet(D) \in SUBSET S
    BY <1>6, <1>7 DEF Range, ToSet
  <2>3. IsFiniteSet(S)
    <3>1. IsFiniteSet(0 .. N)
      BY FS_Interval
    <3> QED
      BY <3>1, FS_Subset
  <2>4. D \in Bijection(1 .. n, ToSet(D))
    BY <1>6, <1>7, <2>1 DEF Injection, Bijection, Surjection, IsInjective, ToSet
  <2>5. Cardinality(ToSet(D)) = n
    BY <1>7, <2>4, FS_CountingElements DEF ExistsBijection
  <2> QED
    BY <1>5, <2>2, <2>3, <2>5, FS_Subset
<1> QED
  BY <1>8, <1>9, <1>10 DEF D

------------------------------------------------------------------------------
(* The free lists: one list per segment and bucket, one chain per bucket and  *)
(* one bit per chain.                                                         *)

ListsType(fl, n) ==
    /\ n \in Nat
    /\ fl \in [cells : Seq([Buckets -> Seq(Nat)]),
               chain : [Buckets -> Seq(Nat)], bits : SUBSET Buckets]
    /\ Len(fl.cells) = n

(* The part of FreelistsExact that speaks of the lists alone.                 *)
Linked(fl, n) ==
    /\ ListsType(fl, n)
    /\ \A s \in 1 .. n, b \in Buckets : NoDuplicates(fl.cells[s][b])
    /\ \A b \in Buckets :
          /\ NoDuplicates(fl.chain[b])
          /\ ToSet(fl.chain[b]) = {s \in 1 .. n : fl.cells[s][b] # <<>>}
    /\ fl.bits = {b \in Buckets : fl.chain[b] # <<>>}

\* What the type says of the parts.
LEMMA ListsAre ==
    ASSUME NEW n, NEW fl, ListsType(fl, n)
    PROVE  /\ n \in Nat
           /\ fl.cells \in Seq([Buckets -> Seq(Nat)])
           /\ Len(fl.cells) = n /\ DOMAIN fl.cells = 1 .. n
           /\ \A s \in 1 .. n : fl.cells[s] \in [Buckets -> Seq(Nat)]
           /\ \A s \in 1 .. n, b \in Buckets : fl.cells[s][b] \in Seq(Nat)
           /\ fl.chain \in [Buckets -> Seq(Nat)]
           /\ \A b \in Buckets : fl.chain[b] \in Seq(Nat)
           /\ fl.bits \in SUBSET Buckets
<1>1. n \in Nat /\ fl.cells \in Seq([Buckets -> Seq(Nat)]) /\ Len(fl.cells) = n
  BY DEF ListsType
<1>2. fl.chain \in [Buckets -> Seq(Nat)] /\ fl.bits \in SUBSET Buckets
  BY DEF ListsType
<1>3. fl.cells \in [1 .. n -> [Buckets -> Seq(Nat)]] /\ DOMAIN fl.cells = 1 .. n
  BY <1>1, LenProperties
<1>4. \A s \in 1 .. n : fl.cells[s] \in [Buckets -> Seq(Nat)]
  BY <1>3
<1> QED
  BY <1>1, <1>2, <1>3, <1>4

(* The lists of segment s are replaced, and its links follow.                 *)
ReplacedAt(fl, new, n, s) ==
    /\ ListsType(new, n)
    /\ \A t \in 1 .. n : t # s => new.cells[t] = fl.cells[t]
    /\ \A b \in Buckets :
          /\ NoDuplicates(new.cells[s][b])
          /\ NoDuplicates(new.chain[b])
          /\ ToSet(new.chain[b]) =
                IF new.cells[s][b] # <<>> THEN ToSet(fl.chain[b]) \cup {s}
                ELSE ToSet(fl.chain[b]) \ {s}
    /\ new.bits = {b \in Buckets : new.chain[b] # <<>>}

\* That keeps the lists and the links in agreement.
LEMMA ListsReplaced ==
    ASSUME NEW n, NEW fl, Linked(fl, n), NEW s \in 1 .. n,
           NEW new, ReplacedAt(fl, new, n, s)
    PROVE  Linked(new, n)
<1>1. \A t \in 1 .. n, b \in Buckets : NoDuplicates(new.cells[t][b])
  <2> SUFFICES ASSUME NEW t \in 1 .. n, NEW b \in Buckets
               PROVE  NoDuplicates(new.cells[t][b])
    OBVIOUS
  <2>1. CASE t = s
    BY <2>1 DEF ReplacedAt
  <2>2. CASE t # s
    BY <2>2 DEF Linked, ReplacedAt
  <2> QED
    BY <2>1, <2>2
<1>2. ASSUME NEW b \in Buckets
      PROVE  ToSet(new.chain[b]) = {t \in 1 .. n : new.cells[t][b] # <<>>}
  <2>1. ToSet(fl.chain[b]) = {t \in 1 .. n : fl.cells[t][b] # <<>>}
    BY DEF Linked
  <2>2. \A t \in 1 .. n : t # s => new.cells[t][b] = fl.cells[t][b]
    BY DEF ReplacedAt
  <2>3. ToSet(new.chain[b]) =
          IF new.cells[s][b] # <<>> THEN ToSet(fl.chain[b]) \cup {s}
          ELSE ToSet(fl.chain[b]) \ {s}
    BY DEF ReplacedAt
  <2> QED
    BY <2>1, <2>2, <2>3
<1> QED
  BY <1>1, <1>2 DEF Linked, ReplacedAt

Updated(fl, s, row, links, flags) ==
    [cells |-> [fl.cells EXCEPT ![s] = row], chain |-> links, bits |-> flags]

\* The type after the lists of one segment and the links were replaced.
LEMMA ListsUpdated ==
    ASSUME NEW n, NEW fl, ListsType(fl, n), NEW s \in 1 .. n,
           NEW row \in [Buckets -> Seq(Nat)], NEW links \in [Buckets -> Seq(Nat)],
           NEW flags \in SUBSET Buckets
    PROVE  ListsType(Updated(fl, s, row, links, flags), n)
<1> DEFINE cells == [fl.cells EXCEPT ![s] = row]
<1>1. fl.cells \in Seq([Buckets -> Seq(Nat)]) /\ Len(fl.cells) = n /\ n \in Nat
  BY ListsAre
<1>2. cells \in Seq([Buckets -> Seq(Nat)]) /\ Len(cells) = n
  BY <1>1, ExceptSeq
<1>3. Updated(fl, s, row, links, flags) =
        [cells |-> cells, chain |-> links, bits |-> flags]
  BY DEF Updated
<1> HIDE DEF cells
<1> QED
  BY <1>1, <1>2, <1>3 DEF ListsType

\* What it holds.
LEMMA UpdatedIs ==
    ASSUME NEW n, NEW fl, ListsType(fl, n), NEW s \in 1 .. n,
           NEW row, NEW links, NEW flags
    PROVE  LET new == Updated(fl, s, row, links, flags)
           IN  /\ \A t \in 1 .. n :
                     new.cells[t] = IF t = s THEN row ELSE fl.cells[t]
               /\ new.chain = links /\ new.bits = flags
<1>1. DOMAIN fl.cells = 1 .. n
  BY ListsAre
<1> QED
  BY <1>1 DEF Updated

(* What an operation on the list of segment s and bucket b does: the elements *)
(* of that list have become E, the other lists and the links are as before.   *)
ListIs(fl, new, n, s, b, E) ==
    /\ Linked(new, n)
    /\ \A t \in 1 .. n, c \in Buckets :
          ToSet(new.cells[t][c]) =
              IF t = s /\ c = b THEN E ELSE ToSet(fl.cells[t][c])

Relisted(fl, s, b, list, chain) ==
    Updated(fl, s, [fl.cells[s] EXCEPT ![b] = list], [fl.chain EXCEPT ![b] = chain],
            IF chain = <<>> THEN fl.bits \ {b} ELSE fl.bits \cup {b})

\* The list of a segment and bucket, and the chain and the bit of the bucket.
LEMMA ListReplaced ==
    ASSUME NEW n, NEW fl, Linked(fl, n), NEW s \in 1 .. n, NEW b \in Buckets,
           NEW list \in Seq(Nat), NoDuplicates(list),
           NEW chain \in Seq(Nat), NoDuplicates(chain),
           ToSet(chain) = IF list # <<>> THEN ToSet(fl.chain[b]) \cup {s}
                          ELSE ToSet(fl.chain[b]) \ {s}
    PROVE  ListIs(fl, Relisted(fl, s, b, list, chain), n, s, b, ToSet(list))
<1> DEFINE row == [fl.cells[s] EXCEPT ![b] = list]
           chains == [fl.chain EXCEPT ![b] = chain]
           new == Relisted(fl, s, b, list, chain)
           flags == IF chain = <<>> THEN fl.bits \ {b} ELSE fl.bits \cup {b}
<1>1. /\ ListsType(fl, n)
      /\ \A t \in 1 .. n, c \in Buckets : NoDuplicates(fl.cells[t][c])
      /\ \A c \in Buckets :
            /\ NoDuplicates(fl.chain[c])
            /\ ToSet(fl.chain[c]) = {t \in 1 .. n : fl.cells[t][c] # <<>>}
      /\ fl.bits = {c \in Buckets : fl.chain[c] # <<>>}
  BY DEF Linked
<1>2. /\ fl.cells[s] \in [Buckets -> Seq(Nat)]
      /\ fl.chain \in [Buckets -> Seq(Nat)]
      /\ fl.bits \in SUBSET Buckets
  BY <1>1, ListsAre
<1>3. /\ row \in [Buckets -> Seq(Nat)]
      /\ \A c \in Buckets : row[c] = IF c = b THEN list ELSE fl.cells[s][c]
  BY <1>2
<1>4. /\ chains \in [Buckets -> Seq(Nat)]
      /\ \A c \in Buckets : chains[c] = IF c = b THEN chain ELSE fl.chain[c]
  BY <1>2
<1>5. flags \in SUBSET Buckets /\ flags = {c \in Buckets : chains[c] # <<>>}
  BY <1>1, <1>2, <1>4
<1>6. new = Updated(fl, s, row, chains, flags)
  BY DEF Relisted
<1> HIDE DEF row, chains, flags, new
<1>7. /\ ListsType(new, n)
      /\ \A t \in 1 .. n : new.cells[t] = IF t = s THEN row ELSE fl.cells[t]
      /\ new.chain = chains /\ new.bits = flags
  <2>1. /\ ListsType(fl, n) /\ row \in [Buckets -> Seq(Nat)]
        /\ chains \in [Buckets -> Seq(Nat)] /\ flags \in SUBSET Buckets
    BY <1>1, <1>3, <1>4, <1>5
  <2>2. ListsType(new, n)
    BY <1>6, <2>1, ListsUpdated
  <2>3. /\ \A t \in 1 .. n : new.cells[t] = IF t = s THEN row ELSE fl.cells[t]
        /\ new.chain = chains /\ new.bits = flags
    BY <1>6, <2>1, UpdatedIs
  <2> QED
    BY <2>2, <2>3
<1>8. \A c \in Buckets : NoDuplicates(new.cells[s][c]) /\ NoDuplicates(new.chain[c])
  BY <1>1, <1>3, <1>4, <1>7
<1>9. ASSUME NEW c \in Buckets
      PROVE  ToSet(new.chain[c]) =
                IF new.cells[s][c] # <<>> THEN ToSet(fl.chain[c]) \cup {s}
                ELSE ToSet(fl.chain[c]) \ {s}
  <2>1. CASE c = b
    <3>1. new.cells[s][c] = list /\ new.chain[c] = chain
      BY <1>3, <1>4, <1>7, <2>1
    <3> QED
      BY <2>1, <3>1
  <2>2. CASE c # b
    <3>1. new.cells[s][c] = fl.cells[s][c] /\ new.chain[c] = fl.chain[c]
      BY <1>3, <1>4, <1>7, <2>2
    <3>2. ToSet(fl.chain[c]) = {t \in 1 .. n : fl.cells[t][c] # <<>>}
      BY <1>1
    <3> QED
      BY <3>1, <3>2
  <2> QED
    BY <2>1, <2>2
<1>10. Linked(new, n)
  <2>1. new.bits = {c \in Buckets : new.chain[c] # <<>>}
    BY <1>5, <1>7
  <2>2. ReplacedAt(fl, new, n, s)
    BY <1>7, <1>8, <1>9, <2>1 DEF ReplacedAt
  <2> QED
    BY <2>2, ListsReplaced
<1>11. ASSUME NEW t \in 1 .. n, NEW c \in Buckets
       PROVE  ToSet(new.cells[t][c]) =
                 IF t = s /\ c = b THEN ToSet(list) ELSE ToSet(fl.cells[t][c])
  <2>1. new.cells[t][c] = IF t = s /\ c = b THEN list ELSE fl.cells[t][c]
    BY <1>3, <1>7
  <2> QED
    BY <2>1
<1> QED
  BY <1>10, <1>11 DEF ListIs, new

\* Freeing a cell puts it into its list.
LEMMA AddCellIs ==
    ASSUME NEW n, NEW fl, Linked(fl, n), NEW s \in 1 .. n, NEW a \in Nat,
           NEW size, Bucket(size) \in Buckets,
           a \notin ToSet(fl.cells[s][Bucket(size)])
    PROVE  ListIs(fl, AddCell(fl, s, a, size), n, s, Bucket(size),
                  ToSet(fl.cells[s][Bucket(size)]) \cup {a})
<1> DEFINE b == Bucket(size)
           list == <<a>> \o fl.cells[s][b]
           chain == IF fl.cells[s][b] # <<>> THEN fl.chain[b]
                    ELSE <<s>> \o fl.chain[b]
           new == AddCell(fl, s, a, size)
<1>1. /\ ListsType(fl, n) /\ NoDuplicates(fl.cells[s][b]) /\ NoDuplicates(fl.chain[b])
      /\ ToSet(fl.chain[b]) = {t \in 1 .. n : fl.cells[t][b] # <<>>}
      /\ fl.bits = {c \in Buckets : fl.chain[c] # <<>>}
  BY DEF Linked
<1>2. /\ n \in Nat /\ fl.cells[s][b] \in Seq(Nat) /\ fl.chain[b] \in Seq(Nat)
      /\ fl.bits \in SUBSET Buckets
  BY <1>1, ListsAre
<1>3. /\ list \in Seq(Nat) /\ NoDuplicates(list) /\ list # <<>>
      /\ ToSet(list) = ToSet(fl.cells[s][b]) \cup {a}
  BY <1>1, <1>2, PushIs
<1>4. /\ chain \in Seq(Nat) /\ NoDuplicates(chain) /\ chain # <<>>
      /\ ToSet(chain) = ToSet(fl.chain[b]) \cup {s}
  <2>1. CASE fl.cells[s][b] # <<>>
    <3>1. s \in ToSet(fl.chain[b])
      BY <1>1, <2>1
    <3>2. fl.chain[b] # <<>>
      BY <1>2, <3>1, EmptyList
    <3> QED
      BY <1>1, <1>2, <2>1, <3>1, <3>2
  <2>2. CASE fl.cells[s][b] = <<>>
    <3>1. s \notin ToSet(fl.chain[b]) /\ s \in Nat
      BY <1>1, <1>2, <2>2
    <3> QED
      BY <1>1, <1>2, <2>2, <3>1, PushIs
  <2> QED
    BY <2>1, <2>2
<1>5. new = Relisted(fl, s, b, list, chain)
  <2>0. /\ fl = [cells |-> fl.cells, chain |-> fl.chain, bits |-> fl.bits]
        /\ fl.chain \in [Buckets -> Seq(Nat)]
    BY <1>1 DEF ListsType
  <2>1. CASE fl.cells[s][b] # <<>>
    <3>1. b \in fl.bits
      <4>1. s \in ToSet(fl.chain[b])
        BY <1>1, <2>1
      <4> QED
        BY <1>1, <1>2, <4>1, EmptyList
    <3>2. fl.bits = fl.bits \cup {b} /\ fl.chain = [fl.chain EXCEPT ![b] = fl.chain[b]]
      BY <2>0, <3>1
    <3>3. new = [fl EXCEPT !.cells[s][b] = list]
      BY <2>1 DEF AddCell
    <3> HIDE DEF new, list, b
    <3> QED
      BY <1>4, <2>0, <2>1, <3>2, <3>3 DEF Relisted, Updated
  <2>2. CASE fl.cells[s][b] = <<>>
    <3>1. list = <<a>>
      <4>1. <<a>> \in Seq(Nat) /\ <<a>> \o <<>> = <<a>>
        BY ConcatEmptySeq
      <4> QED
        BY <2>2, <4>1
    <3>2. new = [fl EXCEPT !.cells[s][b] = list, !.chain[b] = chain,
                           !.bits = fl.bits \cup {b}]
      BY <2>2, <3>1 DEF AddCell
    <3> HIDE DEF new, list, b, chain
    <3> QED
      BY <1>4, <2>0, <3>2 DEF Relisted, Updated
  <2> QED
    BY <2>1, <2>2
<1> HIDE DEF list, chain, new
<1>6. ListIs(fl, new, n, s, b, ToSet(list))
  BY <1>3, <1>4, <1>5, ListReplaced
<1> QED
  BY <1>3, <1>6 DEF new

\* Taking a cell takes it out of its list.
LEMMA RemoveCellIs ==
    ASSUME NEW n, NEW fl, Linked(fl, n), NEW s \in 1 .. n, NEW a,
           NEW size, Bucket(size) \in Buckets,
           a \in ToSet(fl.cells[s][Bucket(size)])
    PROVE  ListIs(fl, RemoveCell(fl, s, a, size), n, s, Bucket(size),
                  ToSet(fl.cells[s][Bucket(size)]) \ {a})
<1> DEFINE b == Bucket(size)
           list == Without(fl.cells[s][b], a)
           without == Without(fl.chain[b], s)
           chain == IF list # <<>> THEN fl.chain[b] ELSE without
           new == RemoveCell(fl, s, a, size)
<1>1. /\ ListsType(fl, n) /\ NoDuplicates(fl.cells[s][b]) /\ NoDuplicates(fl.chain[b])
      /\ ToSet(fl.chain[b]) = {t \in 1 .. n : fl.cells[t][b] # <<>>}
      /\ fl.bits = {c \in Buckets : fl.chain[c] # <<>>}
  BY DEF Linked
<1>2. /\ fl.cells[s][b] \in Seq(Nat) /\ fl.chain[b] \in Seq(Nat)
      /\ fl.bits \in SUBSET Buckets /\ fl.chain \in [Buckets -> Seq(Nat)]
  BY <1>1, ListsAre
<1>3. /\ list \in Seq(Nat) /\ NoDuplicates(list)
      /\ ToSet(list) = ToSet(fl.cells[s][b]) \ {a}
  BY <1>1, <1>2, WithoutIs
<1>4. s \in ToSet(fl.chain[b])
  <2>1. fl.cells[s][b] # <<>>
    BY <1>2, EmptyList
  <2> QED
    BY <1>1, <2>1
<1>5. /\ without \in Seq(Nat) /\ NoDuplicates(without)
      /\ ToSet(without) = ToSet(fl.chain[b]) \ {s}
  BY <1>1, <1>2, <1>4, WithoutIs
<1>6. fl.chain[b] # <<>> /\ b \in fl.bits
  BY <1>1, <1>2, <1>4, EmptyList
<1>7. fl = [cells |-> fl.cells, chain |-> fl.chain, bits |-> fl.bits]
  BY <1>1 DEF ListsType
<1> HIDE DEF list, without, b
<1>8. chain \in Seq(Nat) /\ NoDuplicates(chain)
  BY <1>1, <1>2, <1>5
<1>9. ToSet(chain) = IF list # <<>> THEN ToSet(fl.chain[b]) \cup {s}
                     ELSE ToSet(fl.chain[b]) \ {s}
  BY <1>4, <1>5
<1>10. new = Relisted(fl, s, b, list, chain)
  <2>1. CASE list # <<>>
    <3>1. new = [fl EXCEPT !.cells[s][b] = list]
      BY <2>1 DEF RemoveCell, list, without, b
    <3>2. chain = fl.chain[b] /\ chain # <<>>
      BY <1>6, <2>1
    <3>3. fl.bits = fl.bits \cup {b} /\ fl.chain = [fl.chain EXCEPT ![b] = chain]
      BY <1>2, <1>6, <3>2
    <3> HIDE DEF new, chain
    <3> QED
      BY <1>7, <3>1, <3>2, <3>3 DEF Relisted, Updated
  <2>2. CASE list = <<>>
    <3>1. new = [fl EXCEPT !.cells[s][b] = <<>>, !.chain[b] = without,
                           !.bits = IF without = <<>> THEN fl.bits \ {b}
                                    ELSE fl.bits \cup {b}]
      BY <2>2 DEF RemoveCell, list, without, b
    <3>2. chain = without
      BY <2>2
    <3> HIDE DEF new, chain
    <3> QED
      BY <1>7, <2>2, <3>1, <3>2 DEF Relisted, Updated
  <2> QED
    BY <2>1, <2>2
<1> HIDE DEF new, chain
<1>11. b \in Buckets
  BY DEF b
<1>12. ListIs(fl, new, n, s, b, ToSet(list))
  BY <1>3, <1>8, <1>9, <1>10, <1>11, ListReplaced
<1> QED
  BY <1>3, <1>12 DEF new, b

\* A segment without free cells is added.
LEMMA AppendedIs ==
    ASSUME NEW n, NEW fl, Linked(fl, n)
    PROVE  LET new == [fl EXCEPT !.cells = Append(@, [b \in Buckets |-> <<>>])]
           IN  /\ Linked(new, n + 1)
               /\ \A t \in 1 .. n : new.cells[t] = fl.cells[t]
               /\ \A b \in Buckets : ToSet(new.cells[n + 1][b]) = {}
<1> DEFINE row == [b \in Buckets |-> <<>>]
           cells == Append(fl.cells, row)
           new == [fl EXCEPT !.cells = Append(@, [b \in Buckets |-> <<>>])]
<1>1. /\ ListsType(fl, n)
      /\ \A t \in 1 .. n, c \in Buckets : NoDuplicates(fl.cells[t][c])
      /\ \A c \in Buckets :
            /\ NoDuplicates(fl.chain[c])
            /\ ToSet(fl.chain[c]) = {t \in 1 .. n : fl.cells[t][c] # <<>>}
      /\ fl.bits = {c \in Buckets : fl.chain[c] # <<>>}
  BY DEF Linked
<1>2. /\ fl.cells \in Seq([Buckets -> Seq(Nat)]) /\ Len(fl.cells) = n /\ n \in Nat
  BY <1>1, ListsAre
<1>3. row \in [Buckets -> Seq(Nat)] /\ \A b \in Buckets : row[b] = <<>>
  <2>1. <<>> \in Seq(Nat)
    OBVIOUS
  <2> QED
    BY <2>1
<1>4. \A b \in Buckets : NoDuplicates(row[b]) /\ ToSet(row[b]) = {}
  BY <1>3 DEF NoDuplicates, ToSet
<1> HIDE DEF row
<1>5. /\ cells \in Seq([Buckets -> Seq(Nat)]) /\ Len(cells) = n + 1
      /\ \A t \in 1 .. n : cells[t] = fl.cells[t]
      /\ cells[n + 1] = row
  BY <1>2, <1>3, AppendProperties
<1>6. new = [cells |-> cells, chain |-> fl.chain, bits |-> fl.bits]
  <2>1. fl = [cells |-> fl.cells, chain |-> fl.chain, bits |-> fl.bits]
    BY <1>1 DEF ListsType
  <2>2. new = [fl EXCEPT !.cells = cells]
    BY DEF row
  <2> HIDE DEF new, cells
  <2> QED
    BY <2>1, <2>2
<1>7. new.cells = cells /\ new.chain = fl.chain /\ new.bits = fl.bits
  BY <1>6
<1>8. ListsType(new, n + 1)
  <2>1. n + 1 \in Nat /\ fl.chain \in [Buckets -> Seq(Nat)] /\ fl.bits \in SUBSET Buckets
    BY <1>1, <1>2, ListsAre
  <2> HIDE DEF cells
  <2> QED
    BY <1>5, <1>6, <2>1 DEF ListsType
<1> HIDE DEF cells, new
<1>9. \A t \in 1 .. n + 1 : t \in 1 .. n \/ t = n + 1
  BY <1>2
<1>10. \A t \in 1 .. n : t \in 1 .. n + 1
  BY <1>2
<1>11. ASSUME NEW t \in 1 .. n + 1, NEW b \in Buckets
       PROVE  NoDuplicates(new.cells[t][b])
  <2>1. CASE t \in 1 .. n
    BY <1>1, <1>5, <1>7, <2>1
  <2>2. CASE t = n + 1
    BY <1>4, <1>5, <1>7, <2>2
  <2> QED
    BY <1>9, <2>1, <2>2
<1>12. ASSUME NEW b \in Buckets
       PROVE  ToSet(new.chain[b]) = {t \in 1 .. n + 1 : new.cells[t][b] # <<>>}
  <2>1. new.cells[n + 1][b] = <<>>
    BY <1>3, <1>5, <1>7
  <2>2. \A t \in 1 .. n : new.cells[t][b] = fl.cells[t][b]
    BY <1>5, <1>7
  <2>3. ToSet(new.chain[b]) = {t \in 1 .. n : fl.cells[t][b] # <<>>}
    BY <1>1, <1>7
  <2> QED
    BY <1>9, <1>10, <2>1, <2>2, <2>3
<1>13. Linked(new, n + 1)
  BY <1>1, <1>7, <1>8, <1>11, <1>12 DEF Linked
<1> QED
  BY <1>4, <1>5, <1>7, <1>13 DEF new

Lists(cells, chain, bits) == [cells |-> cells, chain |-> chain, bits |-> bits]

\* The bits follow the chains.
LEMMA SetBitsIs ==
    ASSUME NEW cells, NEW chain, NEW flags
    PROVE  SetBits(Lists(cells, chain, flags)) =
              Lists(cells, chain, {b \in Buckets : chain[b] # <<>>})
<1> DEFINE fl == Lists(cells, chain, flags)
           new == {b \in Buckets : chain[b] # <<>>}
<1>1. fl.chain = chain
  BY DEF Lists
<1>2. fl = [cells |-> cells, chain |-> chain, bits |-> flags]
  BY DEF Lists
<1> HIDE DEF fl
<1>3. {b \in Buckets : fl.chain[b] # <<>>} = new
  BY <1>1
<1>4. SetBits(fl) = [fl EXCEPT !.bits = new]
  BY <1>3 DEF SetBits
<1> HIDE DEF new
<1>5. SetBits(fl) = Lists(cells, chain, new)
  BY <1>2, <1>4 DEF Lists
<1> QED
  BY <1>5 DEF fl, new

(* The chains without segment s.                                              *)
UnlinkedChains(fl, s, chain) ==
    /\ chain \in [Buckets -> Seq(Nat)]
    /\ Unlink(fl, s) = Lists(fl.cells, chain, fl.bits)
    /\ \A b \in Buckets :
          NoDuplicates(chain[b]) /\ ToSet(chain[b]) = ToSet(fl.chain[b]) \ {s}

\* A segment is taken out of the chains.
LEMMA UnlinkIs ==
    ASSUME NEW n, NEW fl, Linked(fl, n), NEW s \in 1 .. n
    PROVE  \E chain : UnlinkedChains(fl, s, chain)
<1> DEFINE Kept(b) == IF fl.cells[s][b] # <<>> THEN Without(fl.chain[b], s)
                      ELSE fl.chain[b]
           chain == [b \in Buckets |-> Kept(b)]
           new == Unlink(fl, s)
<1>1. /\ ListsType(fl, n)
      /\ \A c \in Buckets :
            /\ NoDuplicates(fl.chain[c])
            /\ ToSet(fl.chain[c]) = {t \in 1 .. n : fl.cells[t][c] # <<>>}
  BY DEF Linked
<1>2. \A c \in Buckets : fl.chain[c] \in Seq(Nat)
  BY <1>1, ListsAre
<1>3. ASSUME NEW b \in Buckets
      PROVE  /\ Kept(b) \in Seq(Nat) /\ NoDuplicates(Kept(b))
             /\ ToSet(Kept(b)) = ToSet(fl.chain[b]) \ {s}
  <2>1. CASE fl.cells[s][b] # <<>>
    <3>1. s \in ToSet(fl.chain[b])
      BY <1>1, <2>1
    <3>2. Kept(b) = Without(fl.chain[b], s)
      BY <2>1
    <3> HIDE DEF Kept
    <3> QED
      BY <1>1, <1>2, <3>1, <3>2, WithoutIs
  <2>2. CASE fl.cells[s][b] = <<>>
    <3>1. s \notin ToSet(fl.chain[b]) /\ Kept(b) = fl.chain[b]
      BY <1>1, <2>2
    <3> HIDE DEF Kept
    <3> QED
      BY <1>1, <1>2, <3>1
  <2> QED
    BY <2>1, <2>2
<1>4. new = [cells |-> fl.cells, chain |-> chain, bits |-> fl.bits]
  <2>1. fl = [cells |-> fl.cells, chain |-> fl.chain, bits |-> fl.bits]
    BY <1>1 DEF ListsType
  <2>2. new = [fl EXCEPT !.chain = chain]
    BY DEF Unlink
  <2> HIDE DEF chain
  <2> QED
    BY <2>1, <2>2
<1> HIDE DEF Kept
<1>5. chain \in [Buckets -> Seq(Nat)] /\ \A b \in Buckets : chain[b] = Kept(b)
  BY <1>3
<1> HIDE DEF chain, new
<1>6. \A b \in Buckets :
         NoDuplicates(chain[b]) /\ ToSet(chain[b]) = ToSet(fl.chain[b]) \ {s}
  BY <1>3, <1>5
<1>7. Unlink(fl, s) = Lists(fl.cells, chain, fl.bits)
  BY <1>4 DEF new, Lists
<1>8. UnlinkedChains(fl, s, chain)
  BY <1>5, <1>6, <1>7 DEF UnlinkedChains
<1> QED
  BY <1>8

\* popSegment: the last segment and its lists are gone.
LEMMA PoppedIs ==
    ASSUME NEW n, NEW fl, Linked(fl, n), n # 0
    PROVE  LET new == [SetBits(Unlink(fl, n)) EXCEPT !.cells = Front(@)]
           IN  /\ Linked(new, n - 1)
               /\ \A t \in 1 .. n - 1 : new.cells[t] = fl.cells[t]
<1> DEFINE cells == Front(fl.cells)
           new == [SetBits(Unlink(fl, n)) EXCEPT !.cells = Front(@)]
<1>1. /\ ListsType(fl, n)
      /\ \A t \in 1 .. n, c \in Buckets : NoDuplicates(fl.cells[t][c])
      /\ \A c \in Buckets :
            ToSet(fl.chain[c]) = {t \in 1 .. n : fl.cells[t][c] # <<>>}
  BY DEF Linked
<1>2. /\ fl.cells \in Seq([Buckets -> Seq(Nat)]) /\ Len(fl.cells) = n /\ n \in Nat
      /\ DOMAIN fl.cells = 1 .. n
  BY <1>1, ListsAre
<1>3. n \in 1 .. n /\ n - 1 \in Nat
  BY <1>2
<1>4. PICK chain : UnlinkedChains(fl, n, chain)
  BY <1>3, UnlinkIs
<1>5. /\ chain \in [Buckets -> Seq(Nat)]
      /\ Unlink(fl, n) = Lists(fl.cells, chain, fl.bits)
      /\ \A b \in Buckets :
            NoDuplicates(chain[b]) /\ ToSet(chain[b]) = ToSet(fl.chain[b]) \ {n}
  BY <1>4 DEF UnlinkedChains
<1> DEFINE flags == {b \in Buckets : chain[b] # <<>>}
<1>6. new = [cells |-> cells, chain |-> chain, bits |-> flags]
  <2>1. SetBits(Unlink(fl, n)) = Lists(fl.cells, chain, flags)
    BY <1>5, SetBitsIs
  <2> HIDE DEF flags
  <2> QED
    BY <2>1 DEF Lists
<1>7. /\ cells \in Seq([Buckets -> Seq(Nat)]) /\ Len(cells) = n - 1
      /\ \A t \in 1 .. n - 1 : cells[t] = fl.cells[t]
  <2>2. 1 \in 1 .. n + 1 /\ n - 1 \in 0 .. n /\ cells = SubSeq(fl.cells, 1, n - 1)
    BY <1>2, <1>3 DEF Front
  <2>3. Len(cells) = n - 1 /\ \A t \in 1 .. n - 1 : cells[t] = fl.cells[t]
    BY <1>2, <2>2
  <2>4. cells \in Seq([Buckets -> Seq(Nat)])
    BY <1>2, <2>2
  <2> QED
    BY <2>3, <2>4
<1> HIDE DEF cells, flags
<1>8. new.cells = cells /\ new.chain = chain /\ new.bits = flags
  BY <1>6
<1>9. ListsType(new, n - 1)
  <2>1. flags \in SUBSET Buckets
    BY DEF flags
  <2> QED
    BY <1>3, <1>5, <1>6, <1>7, <2>1 DEF ListsType
<1> HIDE DEF new
<1>10. \A t \in 1 .. n : t \in 1 .. n - 1 <=> t # n
  BY <1>2
<1>11. \A t \in 1 .. n - 1 : t \in 1 .. n
  BY <1>2
<1>12. \A t \in 1 .. n - 1, b \in Buckets : NoDuplicates(new.cells[t][b])
  BY <1>1, <1>7, <1>8, <1>11
<1>13. ASSUME NEW b \in Buckets
       PROVE  ToSet(new.chain[b]) = {t \in 1 .. n - 1 : new.cells[t][b] # <<>>}
  <2>1. ToSet(new.chain[b]) = {t \in 1 .. n : fl.cells[t][b] # <<>>} \ {n}
    BY <1>1, <1>5, <1>8
  <2>2. \A t \in 1 .. n - 1 : new.cells[t][b] = fl.cells[t][b]
    BY <1>7, <1>8
  <2> QED
    BY <1>10, <1>11, <2>1, <2>2
<1>14. new.bits = {b \in Buckets : new.chain[b] # <<>>}
  BY <1>8 DEF flags
<1>15. Linked(new, n - 1)
  BY <1>5, <1>8, <1>9, <1>12, <1>13, <1>14 DEF Linked
<1> QED
  BY <1>7, <1>8, <1>15 DEF new

\* The lists of a swept segment replace those it had.
LEMMA RelinkedIs ==
    ASSUME NEW n, NEW fl, Linked(fl, n), NEW s \in 1 .. n,
           NEW lists \in [Buckets -> Seq(Nat)], \A b \in Buckets : NoDuplicates(lists[b])
    PROVE  /\ Linked(Relinked(fl, s, lists), n)
           /\ \A t \in 1 .. n : Relinked(fl, s, lists).cells[t] =
                                   IF t = s THEN lists ELSE fl.cells[t]
<1>1. /\ ListsType(fl, n)
      /\ \A t \in 1 .. n, c \in Buckets : NoDuplicates(fl.cells[t][c])
  BY DEF Linked
<1>2. n \in Nat /\ s \in Nat
  BY <1>1, ListsAre
<1>3. PICK before : UnlinkedChains(fl, s, before)
  BY UnlinkIs
<1>4. /\ before \in [Buckets -> Seq(Nat)]
      /\ Unlink(fl, s) = Lists(fl.cells, before, fl.bits)
      /\ \A b \in Buckets :
            NoDuplicates(before[b]) /\ ToSet(before[b]) = ToSet(fl.chain[b]) \ {s}
  BY <1>3 DEF UnlinkedChains
<1> DEFINE After(b) == IF lists[b] # <<>> THEN <<s>> \o before[b] ELSE before[b]
           chain == [b \in Buckets |-> After(b)]
           flags == {b \in Buckets : chain[b] # <<>>}
           new == Relinked(fl, s, lists)
<1>5. new = Updated(fl, s, lists, chain, flags)
  <2> DEFINE cells == [fl.cells EXCEPT ![s] = lists]
           u == Unlink(fl, s)
  <2>1. u = [cells |-> fl.cells, chain |-> before, bits |-> fl.bits]
    BY <1>4 DEF Lists
  <2>2. new = SetBits(Lists(cells, chain, fl.bits))
    <3>1. new = SetBits([u EXCEPT !.cells[s] = lists,
                  !.chain = [b \in Buckets |->
                       IF lists[b] # <<>> THEN <<s>> \o u.chain[b] ELSE u.chain[b]]])
      BY DEF Relinked
    <3>2. u.chain = before
      <4> HIDE DEF u
      <4> QED
        BY <2>1
    <3> HIDE DEF u
    <3>3. chain = [b \in Buckets |->
             IF lists[b] # <<>> THEN <<s>> \o u.chain[b] ELSE u.chain[b]]
      BY <3>2
    <3> HIDE DEF new, chain
    <3>4. new = SetBits([u EXCEPT !.cells[s] = lists, !.chain = chain])
      BY <3>1, <3>3
    <3>5. [u EXCEPT !.cells[s] = lists, !.chain = chain] =
            Lists(cells, chain, fl.bits)
      <4>1. [u EXCEPT !.cells[s] = lists] =
              [cells |-> cells, chain |-> before, bits |-> fl.bits]
        BY <2>1
      <4>2. [u EXCEPT !.cells[s] = lists, !.chain = chain] =
              [[u EXCEPT !.cells[s] = lists] EXCEPT !.chain = chain]
        OBVIOUS
      <4> HIDE DEF cells
      <4> DEFINE w == [u EXCEPT !.cells[s] = lists]
      <4>3. w = [cells |-> cells, chain |-> before, bits |-> fl.bits]
        BY <4>1
      <4> HIDE DEF w
      <4>4. [w EXCEPT !.chain = chain] = Lists(cells, chain, fl.bits)
        BY <4>3 DEF Lists
      <4> QED
        BY <4>2, <4>4 DEF w
    <3> QED
      BY <3>4, <3>5
  <2> HIDE DEF new, chain, cells
  <2>3. new = Lists(cells, chain, flags)
    BY <2>2, SetBitsIs
  <2> HIDE DEF flags
  <2> QED
    BY <2>3 DEF Lists, Updated, cells
<1> HIDE DEF new
<1>6. ASSUME NEW b \in Buckets
      PROVE  /\ After(b) \in Seq(Nat) /\ NoDuplicates(After(b))
             /\ ToSet(After(b)) = IF lists[b] # <<>> THEN ToSet(fl.chain[b]) \cup {s}
                                  ELSE ToSet(fl.chain[b]) \ {s}
  <2>1. CASE lists[b] # <<>>
    <3>1. s \notin ToSet(before[b]) /\ before[b] \in Seq(Nat) /\ After(b) = <<s>> \o before[b]
      BY <1>4, <2>1
    <3> HIDE DEF After
    <3>2. /\ After(b) \in Seq(Nat) /\ NoDuplicates(After(b))
          /\ ToSet(After(b)) = ToSet(before[b]) \cup {s}
      BY <1>2, <1>4, <3>1, PushIs
    <3> QED
      BY <1>4, <2>1, <3>2
  <2>2. CASE lists[b] = <<>>
    <3>1. After(b) = before[b]
      BY <2>2
    <3> HIDE DEF After
    <3> QED
      BY <1>4, <2>2, <3>1
  <2> QED
    BY <2>1, <2>2
<1> HIDE DEF After
<1>7. chain \in [Buckets -> Seq(Nat)] /\ \A b \in Buckets : chain[b] = After(b)
  BY <1>6
<1> HIDE DEF chain
<1>8. flags \in SUBSET Buckets
  OBVIOUS
<1>9. flags = {b \in Buckets : chain[b] # <<>>}
  OBVIOUS
<1> HIDE DEF flags
<1>10. ListsType(new, n)
  BY <1>1, <1>5, <1>7, <1>8, ListsUpdated
<1>11. /\ \A t \in 1 .. n : new.cells[t] = IF t = s THEN lists ELSE fl.cells[t]
       /\ new.chain = chain /\ new.bits = flags
  BY <1>1, <1>5, UpdatedIs
<1>12. ReplacedAt(fl, new, n, s)
  <2>1. \A t \in 1 .. n : t # s => new.cells[t] = fl.cells[t]
    BY <1>11
  <2>2. new.cells[s] = lists
    BY <1>11
  <2> QED
    BY <1>6, <1>7, <1>9, <1>10, <1>11, <2>1, <2>2 DEF ReplacedAt
<1> QED
  BY <1>11, <1>12, ListsReplaced DEF new

------------------------------------------------------------------------------
(* What the steps do to the segments.                                         *)

\* A segment is tidy and its number is one of those there are.
LEMMA SegmentsAre ==
    ASSUME NEW segs, AllTidy(segs)
    PROVE  /\ Len(segs) \in Nat /\ DOMAIN segs = 1 .. Len(segs)
           /\ \A s \in 1 .. Len(segs) : s \in Nat /\ s \in Int /\ Tidy(segs[s])
           /\ \A s \in 1 .. Len(segs) :
                 /\ segs[s] \in [DOMAIN segs[s] -> Cell]
                 /\ \A a \in DOMAIN segs[s] :
                       /\ a \in Nat /\ segs[s][a] \in Cell
                       /\ MinSize <= segs[s][a].size
                       /\ segs[s][a].size <= SegmentSize
                       /\ Bucket(segs[s][a].size) \in Buckets
<1>1. Len(segs) \in Nat /\ DOMAIN segs = 1 .. Len(segs)
  BY LenProperties DEF AllTidy
<1>2. ASSUME NEW s \in 1 .. Len(segs)
      PROVE  s \in Nat /\ s \in Int /\ Tidy(segs[s])
  BY <1>1 DEF AllTidy
<1>3. ASSUME NEW s \in 1 .. Len(segs)
      PROVE  segs[s] \in [DOMAIN segs[s] -> Cell]
  BY <1>2, SegmentIs DEF Tidy
<1>4. ASSUME NEW s \in 1 .. Len(segs), NEW a \in DOMAIN segs[s]
      PROVE  /\ a \in Nat /\ segs[s][a] \in Cell
             /\ MinSize <= segs[s][a].size /\ segs[s][a].size <= SegmentSize
             /\ Bucket(segs[s][a].size) \in Buckets
  <2>1. a \in Nat /\ segs[s][a].size \in Nat
    BY <1>2, SegmentIs DEF Tidy
  <2>2. segs[s][a] \in Cell
    BY <1>3
  <2>3. Tiled(segs[s])
    BY <1>2, TidyIsTiled
  <2>4. MinSize <= segs[s][a].size /\ segs[s][a].size <= SegmentSize
    <3>1. segs[s][a].size \in MinSize .. SegmentSize
      BY <2>3 DEF Tiled
    <3> QED
      BY <3>1, SizesAssumption
  <2> QED
    BY <2>1, <2>2, <2>4, BucketIn
<1> QED
  BY <1>1, <1>2, <1>3, <1>4

\* The free cells are those that say so.
LEMMA FreeAre ==
    ASSUME NEW seg, NEW a
    PROVE  a \in FreeOffsets(seg) <=> a \in DOMAIN seg /\ seg[a].free
BY DEF FreeOffsets, Objects

\* One segment is replaced by a tidy one.
LEMMA SegmentReplaced ==
    ASSUME NEW segs, AllTidy(segs), NEW s \in 1 .. Len(segs), NEW seg, Tidy(seg)
    PROVE  LET new == [segs EXCEPT ![s] = seg]
           IN  /\ AllTidy(new) /\ Len(new) = Len(segs) /\ DOMAIN new = DOMAIN segs
               /\ \A t \in 1 .. Len(segs) : new[t] = IF t = s THEN seg ELSE segs[t]
               /\ ObjectBytes(new) = ObjectBytes(segs)
                     - SizeOf(segs[s], Objects(segs[s])) + SizeOf(seg, Objects(seg))
               /\ SizeOf(segs[s], Objects(segs[s])) \in Nat
               /\ SizeOf(seg, Objects(seg)) \in Nat
               /\ ObjectBytes(segs) \in Nat /\ ObjectBytes(new) \in Nat
<1> DEFINE new == [segs EXCEPT ![s] = seg]
<1>1. /\ Len(segs) \in Nat /\ DOMAIN segs = 1 .. Len(segs)
      /\ \A t \in 1 .. Len(segs) : Tidy(segs[t])
  BY SegmentsAre
<1>2. seg \in Segment /\ segs \in Seq(Segment)
  BY DEF Tidy, AllTidy
<1>3. new \in Seq(Segment) /\ Len(new) = Len(segs)
  BY <1>1, <1>2, ExceptSeq
<1>4. DOMAIN new = 1 .. Len(segs)
  BY <1>1
<1>5. \A t \in 1 .. Len(segs) : new[t] = IF t = s THEN seg ELSE segs[t]
  BY <1>1
<1> HIDE DEF new
<1>6. AllTidy(new)
  BY <1>1, <1>3, <1>4, <1>5 DEF AllTidy
<1>7. s \in DOMAIN segs /\ s \in DOMAIN new /\ new[s] = seg
  BY <1>1, <1>4, <1>5
<1>8. \A t \in DOMAIN segs : t # s => new[t] = segs[t]
  BY <1>1, <1>5
<1>9. ObjectBytes(new) = ObjectBytes(segs)
        - SizeOf(segs[s], Objects(segs[s])) + SizeOf(new[s], Objects(new[s]))
  BY <1>1, <1>4, <1>6, <1>7, <1>8, BytesReplaced
<1>10. /\ SizeOf(segs[s], Objects(segs[s])) \in Nat
       /\ SizeOf(seg, Objects(seg)) \in Nat
  BY <1>6, <1>7, BytesSplit
<1>11. ObjectBytes(segs) \in Nat /\ ObjectBytes(new) \in Nat
  BY <1>6, SharesFinite
<1> QED
  BY <1>1, <1>3, <1>4, <1>5, <1>6, <1>7, <1>9, <1>10, <1>11 DEF new

\* finishAlloc makes an object of the size that is asked for.
LEMMA ObjectIs ==
    ASSUME NEW sz \in Nat
    PROVE  /\ Object(sz) \in Cell /\ Object(sz).size = sz
           /\ ~Object(sz).free /\ Object(sz).marked
BY DEF Object, Cell

\* A cell of a segment is carved: the head stays free, the tail is the object.
LEMMA CarvedIs ==
    ASSUME NEW seg, Tidy(seg), NEW a \in FreeOffsets(seg),
           NEW sz \in Nat, MinSize <= sz, seg[a].size >= sz + MinSize
    PROVE  LET new == Carved(seg, a, sz)
           IN  /\ Tidy(new)
               /\ FreeOffsets(new) = FreeOffsets(seg)
               /\ \A o \in FreeOffsets(seg) : o # a => new[o] = seg[o]
               /\ \A o \in Objects(seg) : o \in DOMAIN new /\ new[o] = seg[o]
               /\ SizeOf(new, Objects(new)) = SizeOf(seg, Objects(seg)) + sz
<1> DEFINE new == Carved(seg, a, sz)
           n == a + (seg[a].size - sz)
<1>1. a \in DOMAIN seg /\ seg[a].free
  BY FreeAre
<1>2. /\ n \notin DOMAIN seg /\ n \in Nat
      /\ DOMAIN new = DOMAIN seg \cup {n}
      /\ new[n] = Object(sz)
      /\ new[a] = [seg[a] EXCEPT !.size = seg[a].size - sz]
      /\ \A o \in DOMAIN seg : o # a => new[o] = seg[o]
      /\ Tidy(new)
  BY <1>1, CarveEffect
<1> HIDE DEF new, n
<1>3. seg[a] \in Cell
  BY <1>1, SegmentIs DEF Tidy
<1>4. new[a].free
  BY <1>1, <1>2, <1>3 DEF Cell
<1>5. ~new[n].free /\ new[n].size = sz
  BY <1>2, ObjectIs
<1>6. Objects(new) = Objects(seg) \cup {n}
  BY <1>1, <1>2, <1>4, <1>5 DEF Objects
<1>7. FreeOffsets(new) = FreeOffsets(seg)
  BY <1>2, <1>6 DEF FreeOffsets, Objects
<1>8. a \notin Objects(seg) /\ \A o \in Objects(seg) : o \in DOMAIN seg
  BY <1>1 DEF Objects
<1>9. \A o \in Objects(seg) : o \in DOMAIN new /\ new[o] = seg[o]
  BY <1>2, <1>8
<1>10. SizeOf(new, Objects(new)) = SizeOf(seg, Objects(seg)) + sz
  <2>1. Tidy(new) /\ n \in DOMAIN new /\ n \notin Objects(seg)
    BY <1>2, <1>8
  <2>2. \A o \in Objects(seg) : new[o].size = seg[o].size
    BY <1>9
  <2>3. SizeOf(new, Objects(new)) = SizeOf(seg, Objects(seg)) + new[n].size
    BY <1>6, <2>1, <2>2, ObjectAdded
  <2> QED
    BY <1>5, <2>3
<1>11. \A o \in FreeOffsets(seg) : o # a => new[o] = seg[o]
  BY <1>2 DEF FreeOffsets
<1> QED
  BY <1>2, <1>7, <1>9, <1>10, <1>11 DEF new

\* A free cell becomes an object of its size.
LEMMA TakenIs ==
    ASSUME NEW seg, Tidy(seg), NEW a \in FreeOffsets(seg), NEW sz, seg[a].size = sz
    PROVE  LET new == [seg EXCEPT ![a] = Object(sz)]
           IN  /\ Tidy(new)
               /\ FreeOffsets(new) = FreeOffsets(seg) \ {a}
               /\ \A o \in DOMAIN seg : o # a => new[o] = seg[o]
               /\ \A o \in Objects(seg) : o \in DOMAIN new /\ new[o] = seg[o]
               /\ SizeOf(new, Objects(new)) = SizeOf(seg, Objects(seg)) + sz
<1> DEFINE new == [seg EXCEPT ![a] = Object(sz)]
<1>1. a \in DOMAIN seg /\ seg[a].free
  BY FreeAre
<1>2. seg \in [DOMAIN seg -> Cell] /\ sz \in Nat
  BY <1>1, SegmentIs DEF Tidy
<1>3. /\ Object(sz) \in Cell /\ Object(sz).size = sz
      /\ ~Object(sz).free /\ Object(sz).marked
  BY <1>2, ObjectIs
<1>4. /\ DOMAIN new = DOMAIN seg /\ new[a] = Object(sz)
      /\ \A o \in DOMAIN seg : o # a => new[o] = seg[o]
  BY <1>1, <1>2
<1>5. new \in [DOMAIN seg -> Cell]
  BY <1>2, <1>3
<1> HIDE DEF new
<1>6. \A o \in DOMAIN seg : new[o].size = seg[o].size
  BY <1>3, <1>4
<1>7. \A o \in DOMAIN seg : new[o].fresh => new[o].marked
  BY <1>3, <1>4 DEF Tidy
<1>8. Tidy(new)
  BY <1>5, <1>6, <1>7, SameTiles
<1>9. Objects(new) = Objects(seg) \cup {a}
  BY <1>1, <1>3, <1>4 DEF Objects
<1>10. FreeOffsets(new) = FreeOffsets(seg) \ {a}
  BY <1>4, <1>9 DEF FreeOffsets
<1>11. a \notin Objects(seg) /\ \A o \in Objects(seg) : o \in DOMAIN seg
  BY <1>1 DEF Objects
<1>12. \A o \in Objects(seg) : o \in DOMAIN new /\ new[o] = seg[o]
  BY <1>4, <1>11
<1>13. SizeOf(new, Objects(new)) = SizeOf(seg, Objects(seg)) + sz
  BY <1>1, <1>3, <1>4, <1>8, <1>9, <1>11, <1>12, ObjectAdded
<1> QED
  BY <1>4, <1>8, <1>10, <1>12, <1>13 DEF new

\* A tidy segment is added.
LEMMA SegmentAppended ==
    ASSUME NEW segs, AllTidy(segs), NEW seg, Tidy(seg)
    PROVE  LET new == Append(segs, seg)
               n == Len(segs) + 1
           IN  /\ AllTidy(new) /\ Len(new) = n
               /\ \A t \in 1 .. Len(segs) : new[t] = segs[t]
               /\ new[n] = seg
               /\ ObjectBytes(new) = ObjectBytes(segs) + SizeOf(seg, Objects(seg))
<1> DEFINE new == Append(segs, seg)
           n == Len(segs) + 1
<1>1. /\ Len(segs) \in Nat /\ DOMAIN segs = 1 .. Len(segs)
      /\ \A t \in 1 .. Len(segs) : Tidy(segs[t])
  BY SegmentsAre
<1>2. seg \in Segment /\ segs \in Seq(Segment)
  BY DEF Tidy, AllTidy
<1>3. /\ new \in Seq(Segment) /\ Len(new) = n
      /\ \A t \in 1 .. Len(segs) : new[t] = segs[t]
      /\ new[n] = seg
  BY <1>1, <1>2, AppendProperties
<1> HIDE DEF new
<1>4. n \in Nat /\ DOMAIN new = 1 .. n
  BY <1>1, <1>3, LenProperties
<1>5. \A t \in 1 .. n : t \in 1 .. Len(segs) \/ t = n
  BY <1>1
<1>6. AllTidy(new)
  BY <1>1, <1>3, <1>4, <1>5 DEF AllTidy
<1>7. n \in DOMAIN new /\ DOMAIN segs = DOMAIN new \ {n}
  BY <1>1, <1>4
<1>8. ObjectBytes(new) = ObjectBytes(segs) + SizeOf(new[n], Objects(new[n]))
  <2> HIDE DEF n
  <2> QED
    BY <1>1, <1>3, <1>6, <1>7, BytesAppended
<1> QED
  BY <1>3, <1>6, <1>8 DEF new

\* A new segment for an object of size sz and the rest.
LEMMA NewSegmentIs ==
    ASSUME NEW sz \in Nat, MinSize <= sz, SegmentSize - sz >= MinSize
    PROVE  LET rest == SegmentSize - sz
               seg == [o \in {0, sz} |->
                          IF o = 0 THEN Object(sz) ELSE FreeCell(rest, TRUE)]
           IN  /\ Tidy(seg)
               /\ FreeOffsets(seg) = {sz} /\ seg[sz].size = rest
               /\ SizeOf(seg, Objects(seg)) = sz
<1> DEFINE rest == SegmentSize - sz
           seg == [o \in {0, sz} |-> IF o = 0 THEN Object(sz) ELSE FreeCell(rest, TRUE)]
<1>1. /\ SegmentSize \in Nat /\ MinSize \in Nat \ {0}
      /\ sz # 0 /\ rest \in Nat /\ sz + rest = SegmentSize
      /\ 0 < SegmentSize /\ sz < SegmentSize /\ MinSize <= rest
  BY SizesAssumption
<1>2. /\ Object(sz) \in Cell /\ Object(sz).size = sz /\ ~Object(sz).free
      /\ Object(sz).marked
  BY ObjectIs
<1>3. /\ FreeCell(rest, TRUE) \in Cell /\ FreeCell(rest, TRUE).size = rest
      /\ FreeCell(rest, TRUE).free /\ FreeCell(rest, TRUE).marked
  BY <1>1 DEF FreeCell, Cell
<1>4. /\ DOMAIN seg = {0, sz} /\ seg[0] = Object(sz)
      /\ seg[sz] = FreeCell(rest, TRUE)
  BY <1>1
<1>5. {0, sz} \in SUBSET Offsets /\ seg \in [{0, sz} -> Cell]
  <2>1. 0 \in Offsets /\ sz \in Offsets
    BY <1>1 DEF Offsets
  <2> HIDE DEF rest
  <2> QED
    BY <1>2, <1>3, <2>1
<1> HIDE DEF seg, rest
<1>6. seg \in Segment
  BY <1>5, SegmentOf
<1>7. Tiles(seg, SegmentSize)
  <2>1. seg[0].size = sz /\ seg[sz].size = rest
    BY <1>2, <1>3, <1>4
  <2>2. /\ 0 < SegmentSize /\ MinSize <= seg[0].size /\ 0 + seg[0].size = sz
        /\ ~(0 < 0) /\ ~(sz < 0 + seg[0].size)
    BY <1>1, <2>1
  <2>3. /\ sz < SegmentSize /\ MinSize <= seg[sz].size
        /\ sz + seg[sz].size = SegmentSize /\ ~(sz < 0) /\ ~(sz < sz)
    BY <1>1, <2>1
  <2>4. SegmentSize \in 1 .. SegmentSize
    BY <1>1
  <2> QED
    BY <1>4, <2>2, <2>3, <2>4 DEF Tiles
<1>8. Tidy(seg)
  BY <1>1, <1>2, <1>3, <1>4, <1>6, <1>7 DEF Tidy
<1>9. Objects(seg) = {0} /\ FreeOffsets(seg) = {sz}
  BY <1>1, <1>2, <1>3, <1>4 DEF Objects, FreeOffsets
<1>10. SizeOf(seg, {0}) = sz
  BY <1>2, <1>4, <1>8, SizeOne
<1> QED
  BY <1>3, <1>4, <1>8, <1>9, <1>10 DEF seg, rest

\* A new segment that the object fills, or leaves too little of.
LEMMA FullSegmentIs ==
    ASSUME NEW sz \in Nat, MinSize <= sz, sz <= SegmentSize
    PROVE  LET seg == [o \in {0} |-> Object(sz)]
           IN  /\ Tidy(seg)
               /\ FreeOffsets(seg) = {}
               /\ SizeOf(seg, Objects(seg)) = sz
<1> DEFINE seg == [o \in {0} |-> Object(sz)]
<1>1. SegmentSize \in Nat /\ MinSize \in Nat \ {0} /\ sz # 0 /\ 0 < SegmentSize
  BY SizesAssumption
<1>2. /\ Object(sz) \in Cell /\ Object(sz).size = sz /\ ~Object(sz).free
      /\ Object(sz).marked
  BY ObjectIs
<1>3. DOMAIN seg = {0} /\ seg[0] = Object(sz)
  OBVIOUS
<1>4. {0} \in SUBSET Offsets /\ seg \in [{0} -> Cell]
  BY <1>1, <1>2 DEF Offsets
<1> HIDE DEF seg
<1>5. seg \in Segment
  BY <1>4, SegmentOf
<1>6. Tiles(seg, sz)
  BY <1>1, <1>2, <1>3 DEF Tiles
<1>7. Tidy(seg)
  BY <1>2, <1>3, <1>5, <1>6 DEF Tidy
<1>8. Objects(seg) = {0} /\ FreeOffsets(seg) = {}
  BY <1>2, <1>3 DEF Objects, FreeOffsets
<1>9. SizeOf(seg, {0}) = sz
  BY <1>2, <1>3, <1>7, SizeOne
<1> QED
  BY <1>7, <1>8, <1>9 DEF seg

(* Only mark bits differ.                                                     *)
SameCells(segs, new) ==
    /\ DOMAIN new = DOMAIN segs /\ new = [s \in DOMAIN segs |-> new[s]]
    /\ \A s \in DOMAIN segs :
          /\ new[s] \in [DOMAIN segs[s] -> Cell]
          /\ \A a \in DOMAIN segs[s] :
                /\ new[s][a].size = segs[s][a].size
                /\ new[s][a].free = segs[s][a].free
                /\ new[s][a].fresh => new[s][a].marked

\* Marking and unmarking change no cell otherwise.
LEMMA SameCellsKept ==
    ASSUME NEW segs, AllTidy(segs), NEW new, SameCells(segs, new)
    PROVE  /\ AllTidy(new) /\ Len(new) = Len(segs)
           /\ \A s \in 1 .. Len(segs) :
                 /\ Objects(new[s]) = Objects(segs[s])
                 /\ FreeOffsets(new[s]) = FreeOffsets(segs[s])
                 /\ \A a \in DOMAIN segs[s] : new[s][a].size = segs[s][a].size
           /\ ObjectBytes(new) = ObjectBytes(segs)
<1>1. /\ Len(segs) \in Nat /\ DOMAIN segs = 1 .. Len(segs)
      /\ \A t \in 1 .. Len(segs) : Tidy(segs[t])
  BY SegmentsAre
<1>2. ASSUME NEW s \in 1 .. Len(segs)
      PROVE  Tidy(new[s]) /\ DOMAIN new[s] = DOMAIN segs[s]
  <2>1. /\ Tidy(segs[s]) /\ new[s] \in [DOMAIN segs[s] -> Cell]
        /\ \A a \in DOMAIN segs[s] : new[s][a].size = segs[s][a].size
        /\ \A a \in DOMAIN segs[s] : new[s][a].fresh => new[s][a].marked
    BY <1>1 DEF SameCells
  <2> QED
    BY <2>1, SameTiles
<1>3. \A s \in 1 .. Len(segs) : new[s] \in Segment
  BY <1>2 DEF Tidy
<1>4. new \in [1 .. Len(segs) -> Segment]
  BY <1>1, <1>3 DEF SameCells
<1>5. new \in Seq(Segment) /\ Len(new) = Len(segs)
  BY <1>1, <1>4, SeqDef
<1>6. AllTidy(new)
  BY <1>1, <1>2, <1>4, <1>5 DEF AllTidy
<1>7. ASSUME NEW s \in 1 .. Len(segs)
      PROVE  /\ Objects(new[s]) = Objects(segs[s])
             /\ FreeOffsets(new[s]) = FreeOffsets(segs[s])
             /\ \A a \in DOMAIN segs[s] : new[s][a].size = segs[s][a].size
  <2>1. \A a \in DOMAIN segs[s] : /\ new[s][a].size = segs[s][a].size
                                  /\ new[s][a].free = segs[s][a].free
    BY <1>1 DEF SameCells
  <2> QED
    BY <1>2, <2>1 DEF Objects, FreeOffsets
<1>8. ASSUME NEW s \in 1 .. Len(segs)
      PROVE  Share(new, s) = Share(segs, s)
  <2>1. \A a \in Objects(segs[s]) : new[s][a].size = segs[s][a].size
    BY <1>7 DEF Objects
  <2>2. Covered(new[s], Objects(segs[s])) = Covered(segs[s], Objects(segs[s]))
    BY <2>1, SameSize
  <2> QED
    BY <1>7, <2>2 DEF Share
<1>9. AllShares(new) = AllShares(segs)
  BY <1>1, <1>4, <1>8 DEF AllShares
<1>10. ObjectBytes(new) = ObjectBytes(segs)
  BY <1>6, <1>9, SharesFinite
<1> QED
  BY <1>5, <1>6, <1>7, <1>10

\* The last segment is taken away.
LEMMA SegmentPopped ==
    ASSUME NEW segs, AllTidy(segs), Len(segs) # 0
    PROVE  /\ AllTidy(Front(segs)) /\ Len(Front(segs)) = Len(segs) - 1
           /\ \A t \in 1 .. Len(segs) - 1 : Front(segs)[t] = segs[t]
           /\ AllTidy(<<Last(segs)>>) /\ Last(segs) = segs[Len(segs)]
           /\ ObjectBytes(segs) =
                 ObjectBytes(Front(segs)) + ObjectBytes(<<Last(segs)>>)
<1> DEFINE n == Len(segs)
           front == Front(segs)
           seg == segs[n]
           one == <<seg>>
<1>1. /\ n \in Nat /\ DOMAIN segs = 1 .. n
      /\ \A t \in 1 .. n : Tidy(segs[t])
  BY SegmentsAre
<1>2. segs \in Seq(Segment) /\ n \in 1 .. n /\ n - 1 \in Nat
  BY <1>1 DEF AllTidy
<1>3. /\ front \in Seq(Segment) /\ Len(front) = n - 1
      /\ \A t \in 1 .. n - 1 : front[t] = segs[t]
  <2>1. 1 \in 1 .. n + 1 /\ n - 1 \in 0 .. n /\ front = SubSeq(segs, 1, n - 1)
    BY <1>1, <1>2 DEF Front
  <2>0. n = Len(segs)
    OBVIOUS
  <2> HIDE DEF n, front
  <2>2. Len(front) = n - 1 /\ \A t \in 1 .. n - 1 : front[t] = segs[t]
    BY <1>2, <2>0, <2>1
  <2>3. front \in Seq(Segment)
    BY <1>2, <2>0, <2>1
  <2> QED
    BY <2>2, <2>3
<1> HIDE DEF front
<1>4. DOMAIN front = 1 .. n - 1
  BY <1>3, LenProperties
<1>5. \A t \in 1 .. n - 1 : t \in 1 .. n
  BY <1>1
<1>6. AllTidy(front)
  BY <1>1, <1>3, <1>4, <1>5 DEF AllTidy
<1>7. n \in DOMAIN segs /\ DOMAIN front = DOMAIN segs \ {n}
  BY <1>1, <1>2, <1>4
<1>8. ObjectBytes(segs) = ObjectBytes(front) + SizeOf(seg, Objects(seg))
  <2>1. \A t \in DOMAIN front : segs[t] = front[t]
    BY <1>3, <1>4
  <2> HIDE DEF n
  <2> QED
    BY <1>6, <1>7, <2>1, BytesAppended
<1>9. Tidy(seg) /\ seg \in Segment
  BY <1>1, <1>2 DEF Tidy
<1> HIDE DEF seg
<1>10. /\ one \in Seq(Segment) /\ DOMAIN one = {1} /\ one[1] = seg
  BY <1>9
<1> HIDE DEF one
<1>11. AllTidy(one)
  BY <1>9, <1>10 DEF AllTidy
<1>12. ObjectBytes(one) = SizeOf(seg, Objects(seg))
  <2>1. ObjectBytes(one) = ObjectBytes(<<>>) + SizeOf(one[1], Objects(one[1]))
    <3>1. 1 \in DOMAIN one /\ DOMAIN <<>> = DOMAIN one \ {1}
      BY <1>10
    <3>2. \A t \in DOMAIN <<>> : one[t] = <<>>[t]
      OBVIOUS
    <3>3. AllTidy(<<>>)
      BY NoBytes
    <3> DEFINE e == <<>>
    <3> HIDE DEF e
    <3>4. AllTidy(e) /\ DOMAIN e = DOMAIN one \ {1} /\ \A t \in DOMAIN e : one[t] = e[t]
      BY <3>1, <3>2, <3>3 DEF e
    <3>5. ObjectBytes(one) = ObjectBytes(e) + SizeOf(one[1], Objects(one[1]))
      BY <1>11, <3>1, <3>4, BytesAppended
    <3> QED
      BY <3>5 DEF e
  <2>2. SizeOf(seg, Objects(seg)) \in Nat
    BY <1>10, <1>11, BytesSplit
  <2> QED
    BY <1>10, <2>1, <2>2, NoBytes
<1>13. Last(segs) = seg
  BY DEF Last, seg
<1> QED
  BY <1>3, <1>6, <1>8, <1>11, <1>12, <1>13 DEF front, one, seg

------------------------------------------------------------------------------
(* Lists and segments together.                                               *)

(* The free cells of segment s in bucket b.                                   *)
FreeIn(segs, chunk, s, b) ==
    {a \in FreeOffsets(segs[s]) : Bucket(segs[s][a].size) = b /\ <<s, a>> # chunk}

ChunkIn(segs, chunk) ==
    chunk # None =>
        \E s \in 1 .. Len(segs) : \E a \in FreeOffsets(segs[s]) : chunk = <<s, a>>

(* FreelistsExact of some segments, lists and chunk.                          *)
Exact(segs, fl, chunk) ==
    /\ AllTidy(segs)
    /\ Linked(fl, Len(segs))
    /\ \A s \in 1 .. Len(segs), b \in Buckets :
          ToSet(fl.cells[s][b]) = FreeIn(segs, chunk, s, b)
    /\ ChunkIn(segs, chunk)

\* An object is carved from the chunk.
LEMMA ExactChunkCarved ==
    ASSUME NEW segs, NEW fl, NEW s \in 1 .. Len(segs), NEW a \in FreeOffsets(segs[s]),
           Exact(segs, fl, <<s, a>>),
           NEW sz \in Nat, MinSize <= sz, segs[s][a].size >= sz + MinSize
    PROVE  Exact([segs EXCEPT ![s] = Carved(segs[s], a, sz)], fl, <<s, a>>)
<1> DEFINE seg == Carved(segs[s], a, sz)
           new == [segs EXCEPT ![s] = seg]
           chunk == <<s, a>>
<1>1. /\ AllTidy(segs) /\ Linked(fl, Len(segs))
      /\ \A t \in 1 .. Len(segs), b \in Buckets :
            ToSet(fl.cells[t][b]) = FreeIn(segs, chunk, t, b)
  BY DEF Exact
<1>2. Tidy(segs[s])
  BY <1>1, SegmentsAre
<1>3. /\ Tidy(seg) /\ FreeOffsets(seg) = FreeOffsets(segs[s])
      /\ \A o \in FreeOffsets(segs[s]) : o # a => seg[o] = segs[s][o]
  BY <1>2, CarvedIs
<1> HIDE DEF seg
<1>4. /\ AllTidy(new) /\ Len(new) = Len(segs)
      /\ \A t \in 1 .. Len(segs) : new[t] = IF t = s THEN seg ELSE segs[t]
  BY <1>1, <1>3, SegmentReplaced
<1> HIDE DEF new
<1>5. ASSUME NEW t \in 1 .. Len(segs), NEW b \in Buckets
      PROVE  FreeIn(new, chunk, t, b) = FreeIn(segs, chunk, t, b)
  <2>1. CASE t = s
    <3>1. new[t] = seg /\ <<t, a>> = chunk
      BY <1>4, <2>1
    <3>2. \A o \in FreeOffsets(segs[s]) :
             <<t, o>> # chunk => o # a /\ seg[o] = segs[s][o]
      BY <1>3, <3>1
    <3> QED
      BY <1>3, <2>1, <3>1, <3>2 DEF FreeIn
  <2>2. CASE t # s
    BY <1>4, <2>2 DEF FreeIn
  <2> QED
    BY <2>1, <2>2
<1>6. ChunkIn(new, chunk)
  <2>1. s \in 1 .. Len(new) /\ a \in FreeOffsets(new[s])
    BY <1>3, <1>4
  <2> QED
    BY <2>1 DEF ChunkIn
<1>7. \A t \in 1 .. Len(new), b \in Buckets :
         ToSet(fl.cells[t][b]) = FreeIn(new, chunk, t, b)
  BY <1>1, <1>4, <1>5
<1>8. Exact(new, fl, chunk)
  BY <1>1, <1>4, <1>6, <1>7 DEF Exact
<1> QED
  BY <1>8 DEF new, seg

\* A free cell is taken whole.
LEMMA ExactTaken ==
    ASSUME NEW segs, NEW fl, NEW chunk, Exact(segs, fl, chunk),
           NEW s \in 1 .. Len(segs), NEW a \in FreeOffsets(segs[s]), <<s, a>> # chunk,
           NEW sz, segs[s][a].size = sz
    PROVE  Exact([segs EXCEPT ![s] = [segs[s] EXCEPT ![a] = Object(sz)]],
                 RemoveCell(fl, s, a, sz), chunk)
<1> DEFINE seg == [segs[s] EXCEPT ![a] = Object(sz)]
           new == [segs EXCEPT ![s] = seg]
           after == RemoveCell(fl, s, a, sz)
           c == Bucket(sz)
<1>1. /\ AllTidy(segs) /\ Linked(fl, Len(segs))
      /\ \A t \in 1 .. Len(segs), b \in Buckets :
            ToSet(fl.cells[t][b]) = FreeIn(segs, chunk, t, b)
      /\ ChunkIn(segs, chunk)
  BY DEF Exact
<1>2. Tidy(segs[s]) /\ c \in Buckets /\ a \in DOMAIN segs[s]
  <2>1. a \in DOMAIN segs[s]
    BY FreeAre
  <2> QED
    BY <1>1, <2>1, SegmentsAre
<1>3. /\ Tidy(seg) /\ FreeOffsets(seg) = FreeOffsets(segs[s]) \ {a}
      /\ \A o \in DOMAIN segs[s] : o # a => seg[o] = segs[s][o]
  BY <1>2, TakenIs
<1>4. \A o \in FreeOffsets(seg) : o \in FreeOffsets(segs[s]) /\ seg[o] = segs[s][o]
  BY <1>3 DEF FreeOffsets
<1> HIDE DEF seg
<1>5. /\ AllTidy(new) /\ Len(new) = Len(segs)
      /\ \A t \in 1 .. Len(segs) : new[t] = IF t = s THEN seg ELSE segs[t]
  BY <1>1, <1>3, SegmentReplaced
<1> HIDE DEF new
<1>6. a \in FreeIn(segs, chunk, s, c)
  BY DEF FreeIn
<1>7. ListIs(fl, after, Len(segs), s, c, FreeIn(segs, chunk, s, c) \ {a})
  <2>1. ToSet(fl.cells[s][c]) = FreeIn(segs, chunk, s, c)
    BY <1>1, <1>2
  <2>2. ListIs(fl, after, Len(segs), s, c, ToSet(fl.cells[s][c]) \ {a})
    BY <1>1, <1>2, <1>6, <2>1, RemoveCellIs
  <2> QED
    BY <2>1, <2>2
<1> HIDE DEF after
<1>8. ASSUME NEW t \in 1 .. Len(segs), NEW b \in Buckets
      PROVE  ToSet(after.cells[t][b]) = FreeIn(new, chunk, t, b)
  <2>1. ToSet(after.cells[t][b]) =
           IF t = s /\ b = c THEN FreeIn(segs, chunk, s, c) \ {a}
           ELSE FreeIn(segs, chunk, t, b)
    BY <1>1, <1>7 DEF ListIs
  <2>2. CASE t = s
    <3>1. FreeIn(new, chunk, s, b) = FreeIn(segs, chunk, s, b) \ {a}
      BY <1>3, <1>4, <1>5 DEF FreeIn
    <3>2. b # c => a \notin FreeIn(segs, chunk, s, b)
      BY DEF FreeIn
    <3> QED
      BY <2>1, <2>2, <3>1, <3>2
  <2>3. CASE t # s
    BY <1>5, <2>1, <2>3 DEF FreeIn
  <2> QED
    BY <2>2, <2>3
<1>9. ChunkIn(new, chunk)
  <2> SUFFICES ASSUME chunk # None
               PROVE  ChunkIn(new, chunk)
    BY DEF ChunkIn
  <2>1. PICK t \in 1 .. Len(segs) : \E o \in FreeOffsets(segs[t]) : chunk = <<t, o>>
    BY <1>1 DEF ChunkIn
  <2>2. PICK o \in FreeOffsets(segs[t]) : chunk = <<t, o>>
    BY <2>1
  <2>3. o \in FreeOffsets(new[t])
    BY <1>3, <1>5, <2>2
  <2> QED
    BY <1>5, <2>2, <2>3 DEF ChunkIn
<1>10. Linked(after, Len(segs))
  BY <1>7 DEF ListIs
<1>11. Exact(new, after, chunk)
  BY <1>5, <1>8, <1>9, <1>10 DEF Exact
<1> QED
  BY <1>11 DEF new, seg, after

(* The list after the chunk, if there is one, has gone back to it.            *)
ChunkReturned(segs, fl, chunk) ==
    IF chunk = None THEN fl
    ELSE AddCell(fl, chunk[1], chunk[2], segs[chunk[1]][chunk[2]].size)

\* A free cell is taken from its list and carved; its rest is the new chunk.
LEMMA ExactCarved ==
    ASSUME NEW segs, NEW fl, NEW chunk, Exact(segs, fl, chunk),
           NEW s \in 1 .. Len(segs), NEW a \in FreeOffsets(segs[s]), <<s, a>> # chunk,
           NEW sz \in Nat, MinSize <= sz, segs[s][a].size >= sz + MinSize
    PROVE  Exact([segs EXCEPT ![s] = Carved(segs[s], a, sz)],
                 ChunkReturned(segs, RemoveCell(fl, s, a, segs[s][a].size), chunk),
                 <<s, a>>)
<1> DEFINE n == Len(segs)
           c == Bucket(segs[s][a].size)
           removed == RemoveCell(fl, s, a, segs[s][a].size)
           after == ChunkReturned(segs, removed, chunk)
<1>1. /\ AllTidy(segs) /\ Linked(fl, n)
      /\ \A t \in 1 .. n, b \in Buckets :
            ToSet(fl.cells[t][b]) = FreeIn(segs, chunk, t, b)
      /\ ChunkIn(segs, chunk)
  BY DEF Exact
<1>2. Tidy(segs[s]) /\ c \in Buckets
  <2>1. a \in DOMAIN segs[s]
    BY FreeAre
  <2> QED
    BY <1>1, <2>1, SegmentsAre
<1>3. a \in FreeIn(segs, chunk, s, c)
  BY DEF FreeIn
<1>4. ListIs(fl, removed, n, s, c, FreeIn(segs, chunk, s, c) \ {a})
  <2>1. ToSet(fl.cells[s][c]) = FreeIn(segs, chunk, s, c)
    BY <1>1, <1>2
  <2>2. ListIs(fl, removed, n, s, c, ToSet(fl.cells[s][c]) \ {a})
    BY <1>1, <1>2, <1>3, <2>1, RemoveCellIs
  <2> QED
    BY <2>1, <2>2
<1> HIDE DEF removed
<1>5. ASSUME NEW t \in 1 .. n, NEW b \in Buckets
      PROVE  ToSet(removed.cells[t][b]) =
                {o \in FreeOffsets(segs[t]) : /\ Bucket(segs[t][o].size) = b
                                              /\ <<t, o>> # chunk /\ <<t, o>> # <<s, a>>}
  <2>1. ToSet(removed.cells[t][b]) =
           IF t = s /\ b = c THEN FreeIn(segs, chunk, s, c) \ {a}
           ELSE FreeIn(segs, chunk, t, b)
    BY <1>1, <1>4 DEF ListIs
  <2>2. CASE t = s
    <3>1. b # c => a \notin FreeIn(segs, chunk, s, b)
      BY DEF FreeIn
    <3>2. \A o : <<t, o>> # <<s, a>> <=> o # a
      BY <2>2
    <3> QED
      BY <2>1, <2>2, <3>1, <3>2 DEF FreeIn
  <2>3. CASE t # s
    <3>1. \A o : <<t, o>> # <<s, a>>
      BY <2>3
    <3> QED
      BY <2>1, <2>3, <3>1 DEF FreeIn
  <2> QED
    BY <2>2, <2>3
<1>6. Linked(removed, n)
  BY <1>4 DEF ListIs
<1>7. /\ Linked(after, n)
      /\ \A t \in 1 .. n, b \in Buckets :
            ToSet(after.cells[t][b]) = FreeIn(segs, <<s, a>>, t, b)
  <2>1. CASE chunk = None
    <3>1. after = removed
      BY <2>1 DEF ChunkReturned
    <3>2. \A t, o : <<t, o>> # chunk
      BY <2>1 DEF None
    <3> HIDE DEF after
    <3> QED
      BY <1>5, <1>6, <3>1, <3>2 DEF FreeIn
  <2>2. CASE chunk # None
    <3>1. PICK u \in 1 .. n : \E o \in FreeOffsets(segs[u]) : chunk = <<u, o>>
      BY <1>1, <2>2 DEF ChunkIn
    <3>2. PICK p \in FreeOffsets(segs[u]) : chunk = <<u, p>>
      BY <3>1
    <3> DEFINE size == segs[u][p].size
               d == Bucket(size)
    <3>3. p \in DOMAIN segs[u]
      BY FreeAre
    <3>4. p \in Nat /\ d \in Buckets
      BY <1>1, <3>3, SegmentsAre
    <3>5. after = AddCell(removed, u, p, size)
      BY <2>2, <3>2 DEF ChunkReturned
    <3>6. p \notin ToSet(removed.cells[u][d])
      BY <1>5, <3>2, <3>4
    <3> HIDE DEF after
    <3>7. ListIs(removed, after, n, u, d, ToSet(removed.cells[u][d]) \cup {p})
      <4> HIDE DEF n
      <4> QED
        BY <1>6, <3>4, <3>5, <3>6, AddCellIs
    <3>8. ASSUME NEW t \in 1 .. n, NEW b \in Buckets
          PROVE  ToSet(after.cells[t][b]) = FreeIn(segs, <<s, a>>, t, b)
      <4>1. ToSet(after.cells[t][b]) =
               IF t = u /\ b = d THEN ToSet(removed.cells[t][b]) \cup {p}
               ELSE ToSet(removed.cells[t][b])
        BY <3>7 DEF ListIs
      <4>2. \A o : <<t, o>> = chunk <=> t = u /\ o = p
        BY <3>2
      <4>3. <<u, p>> # <<s, a>>
        BY <3>2
      <4>4. ToSet(removed.cells[t][b]) =
               {o \in FreeOffsets(segs[t]) : /\ Bucket(segs[t][o].size) = b
                                             /\ <<t, o>> # chunk /\ <<t, o>> # <<s, a>>}
        BY <1>5
      <4>5. CASE t = u /\ b = d
        BY <4>1, <4>2, <4>3, <4>4, <4>5 DEF FreeIn
      <4>6. CASE ~(t = u /\ b = d)
        <5>1. \A o \in FreeOffsets(segs[t]) :
                 Bucket(segs[t][o].size) = b => <<t, o>> # chunk
          BY <4>2, <4>6
        <5> QED
          BY <4>1, <4>4, <4>6, <5>1 DEF FreeIn
      <4> QED
        BY <4>5, <4>6
    <3> QED
      BY <3>7, <3>8 DEF ListIs
  <2> QED
    BY <2>1, <2>2
<1> HIDE DEF after
<1>8. Exact(segs, after, <<s, a>>)
  <2>1. ChunkIn(segs, <<s, a>>)
    BY DEF ChunkIn
  <2> QED
    BY <1>1, <1>7, <2>1 DEF Exact
<1>9. Exact([segs EXCEPT ![s] = Carved(segs[s], a, sz)], after, <<s, a>>)
  BY <1>8, ExactChunkCarved
<1> QED
  BY <1>9 DEF after, removed

\* A segment without free cells is added.
LEMMA ExactAppended ==
    ASSUME NEW segs, NEW fl, NEW chunk, Exact(segs, fl, chunk),
           NEW seg, Tidy(seg), FreeOffsets(seg) = {}
    PROVE  Exact(Append(segs, seg),
                 [fl EXCEPT !.cells = Append(@, [b \in Buckets |-> <<>>])], chunk)
<1> DEFINE n == Len(segs)
           new == Append(segs, seg)
           after == [fl EXCEPT !.cells = Append(@, [b \in Buckets |-> <<>>])]
<1>1. /\ AllTidy(segs) /\ Linked(fl, n)
      /\ \A t \in 1 .. n, b \in Buckets :
            ToSet(fl.cells[t][b]) = FreeIn(segs, chunk, t, b)
      /\ ChunkIn(segs, chunk)
  BY DEF Exact
<1>2. /\ AllTidy(new) /\ Len(new) = n + 1
      /\ \A t \in 1 .. n : new[t] = segs[t]
      /\ new[n + 1] = seg
  BY <1>1, SegmentAppended
<1>3. /\ Linked(after, n + 1)
      /\ \A t \in 1 .. n : after.cells[t] = fl.cells[t]
      /\ \A b \in Buckets : ToSet(after.cells[n + 1][b]) = {}
  <2> HIDE DEF n
  <2> QED
    BY <1>1, AppendedIs
<1> HIDE DEF new, after
<1>4. n \in Nat /\ \A t \in 1 .. n + 1 : t \in 1 .. n \/ t = n + 1
  BY <1>1, SegmentsAre
<1>5. ASSUME NEW t \in 1 .. n + 1, NEW b \in Buckets
      PROVE  ToSet(after.cells[t][b]) = FreeIn(new, chunk, t, b)
  <2>1. CASE t \in 1 .. n
    <3>1. new[t] = segs[t] /\ after.cells[t] = fl.cells[t]
      BY <1>2, <1>3, <2>1
    <3>2. ToSet(fl.cells[t][b]) = FreeIn(segs, chunk, t, b)
      BY <1>1, <2>1
    <3>3. FreeIn(new, chunk, t, b) = FreeIn(segs, chunk, t, b)
      BY <3>1 DEF FreeIn
    <3> QED
      BY <3>1, <3>2, <3>3
  <2>2. CASE t = n + 1
    BY <1>2, <1>3, <2>2 DEF FreeIn
  <2> QED
    BY <1>4, <2>1, <2>2
<1>6. ChunkIn(new, chunk)
  <2>1. \A t \in 1 .. n : t \in 1 .. Len(new) /\ new[t] = segs[t]
    BY <1>2, <1>4
  <2> QED
    BY <1>1, <2>1 DEF ChunkIn
<1>7. Exact(new, after, chunk)
  BY <1>2, <1>3, <1>5, <1>6 DEF Exact
<1> QED
  BY <1>7 DEF new, after

\* A segment with one free cell is added.
LEMMA ExactAppendedFree ==
    ASSUME NEW segs, NEW fl, NEW chunk, Exact(segs, fl, chunk),
           NEW seg, Tidy(seg), NEW a, FreeOffsets(seg) = {a}
    PROVE  Exact(Append(segs, seg),
                 AddCell([fl EXCEPT !.cells = Append(@, [b \in Buckets |-> <<>>])],
                         Len(segs) + 1, a, seg[a].size),
                 chunk)
<1> DEFINE n == Len(segs)
           new == Append(segs, seg)
           empty == [fl EXCEPT !.cells = Append(@, [b \in Buckets |-> <<>>])]
           c == Bucket(seg[a].size)
           after == AddCell(empty, n + 1, a, seg[a].size)
<1>1. /\ AllTidy(segs) /\ Linked(fl, n)
      /\ \A t \in 1 .. n, b \in Buckets :
            ToSet(fl.cells[t][b]) = FreeIn(segs, chunk, t, b)
      /\ ChunkIn(segs, chunk)
  BY DEF Exact
<1>2. /\ AllTidy(new) /\ Len(new) = n + 1
      /\ \A t \in 1 .. n : new[t] = segs[t]
      /\ new[n + 1] = seg
  BY <1>1, SegmentAppended
<1>3. /\ Linked(empty, n + 1)
      /\ \A t \in 1 .. n : empty.cells[t] = fl.cells[t]
      /\ \A b \in Buckets : ToSet(empty.cells[n + 1][b]) = {}
  <2> HIDE DEF n
  <2> QED
    BY <1>1, AppendedIs
<1> HIDE DEF new, empty
<1>4. n \in Nat /\ n + 1 \in 1 .. n + 1 /\ \A t \in 1 .. n + 1 : t \in 1 .. n \/ t = n + 1
  BY <1>1, SegmentsAre
<1>5. a \in DOMAIN seg /\ n + 1 \in 1 .. Len(new)
  BY <1>2, <1>4, FreeAre
<1>6. a \in Nat /\ c \in Buckets
  BY <1>2, <1>5, SegmentsAre
<1>7. ListIs(empty, after, n + 1, n + 1, c, {a})
  <2> DEFINE m == n + 1
  <2>1. /\ Linked(empty, m) /\ m \in 1 .. m
        /\ a \notin ToSet(empty.cells[m][c]) /\ ToSet(empty.cells[m][c]) \cup {a} = {a}
        /\ after = AddCell(empty, m, a, seg[a].size)
    BY <1>3, <1>4, <1>6
  <2> HIDE DEF m, after
  <2>2. ListIs(empty, after, m, m, c, {a})
    BY <1>6, <2>1, AddCellIs
  <2> QED
    BY <2>2 DEF m
<1> HIDE DEF after
<1>8. <<n + 1, a>> # chunk
  BY <1>1, <1>4 DEF ChunkIn, None
<1>9. ASSUME NEW t \in 1 .. n + 1, NEW b \in Buckets
      PROVE  ToSet(after.cells[t][b]) = FreeIn(new, chunk, t, b)
  <2>0. ToSet(after.cells[t][b]) =
           IF t = n + 1 /\ b = c THEN {a} ELSE ToSet(empty.cells[t][b])
    BY <1>7 DEF ListIs
  <2>1. CASE t \in 1 .. n
    <3>1. t # n + 1
      BY <1>4, <2>1
    <3> QED
      BY <1>1, <1>2, <1>3, <2>0, <2>1, <3>1 DEF FreeIn
  <2>2. CASE t = n + 1
    <3>1. ToSet(after.cells[t][b]) = IF b = c THEN {a} ELSE {}
      BY <1>3, <2>0, <2>2
    <3>2. new[t] = seg /\ <<t, a>> # chunk
      BY <1>2, <1>8, <2>2
    <3> QED
      BY <3>1, <3>2 DEF FreeIn
  <2> QED
    BY <1>4, <2>1, <2>2
<1>10. ChunkIn(new, chunk)
  <2>1. \A t \in 1 .. n : t \in 1 .. Len(new) /\ new[t] = segs[t]
    BY <1>2, <1>4
  <2> QED
    BY <1>1, <2>1 DEF ChunkIn
<1>11. Linked(after, n + 1)
  BY <1>7 DEF ListIs
<1>12. Exact(new, after, chunk)
  BY <1>2, <1>9, <1>10, <1>11 DEF Exact
<1> QED
  BY <1>12 DEF new, after, empty

\* Mark bits do not matter.
LEMMA ExactSame ==
    ASSUME NEW segs, NEW fl, NEW chunk, Exact(segs, fl, chunk),
           NEW new, SameCells(segs, new)
    PROVE  Exact(new, fl, chunk)
<1>1. /\ AllTidy(segs) /\ Linked(fl, Len(segs))
      /\ \A t \in 1 .. Len(segs), b \in Buckets :
            ToSet(fl.cells[t][b]) = FreeIn(segs, chunk, t, b)
      /\ ChunkIn(segs, chunk)
  BY DEF Exact
<1>2. /\ AllTidy(new) /\ Len(new) = Len(segs)
      /\ \A s \in 1 .. Len(segs) :
            /\ FreeOffsets(new[s]) = FreeOffsets(segs[s])
            /\ \A a \in DOMAIN segs[s] : new[s][a].size = segs[s][a].size
  BY <1>1, SameCellsKept
<1>3. ASSUME NEW t \in 1 .. Len(segs), NEW b \in Buckets
      PROVE  FreeIn(new, chunk, t, b) = FreeIn(segs, chunk, t, b)
  <2>1. \A a \in FreeOffsets(segs[t]) : new[t][a].size = segs[t][a].size
    BY <1>2 DEF FreeOffsets
  <2> QED
    BY <1>2, <2>1 DEF FreeIn
<1>4. ChunkIn(new, chunk)
  BY <1>1, <1>2 DEF ChunkIn
<1> QED
  BY <1>1, <1>2, <1>3, <1>4 DEF Exact

(* The chunk is given up if it is in segment s.                               *)
ChunkOutside(chunk, s) == IF chunk # None /\ chunk[1] = s THEN None ELSE chunk

\* The last segment is taken away.
LEMMA ExactPopped ==
    ASSUME NEW segs, NEW fl, NEW chunk, Exact(segs, fl, chunk), Len(segs) # 0
    PROVE  Exact(Front(segs),
                 [SetBits(Unlink(fl, Len(segs))) EXCEPT !.cells = Front(@)],
                 ChunkOutside(chunk, Len(segs)))
<1> DEFINE n == Len(segs)
           new == Front(segs)
           after == [SetBits(Unlink(fl, n)) EXCEPT !.cells = Front(@)]
           kept == ChunkOutside(chunk, n)
<1>1. /\ AllTidy(segs) /\ Linked(fl, n)
      /\ \A t \in 1 .. n, b \in Buckets :
            ToSet(fl.cells[t][b]) = FreeIn(segs, chunk, t, b)
      /\ ChunkIn(segs, chunk)
  BY DEF Exact
<1>2. /\ AllTidy(new) /\ Len(new) = n - 1
      /\ \A t \in 1 .. n - 1 : new[t] = segs[t]
  BY <1>1, SegmentPopped
<1>3. Linked(after, n - 1) /\ \A t \in 1 .. n - 1 : after.cells[t] = fl.cells[t]
  <2>1. Linked(fl, n) /\ n # 0
    BY <1>1
  <2> HIDE DEF n
  <2> QED
    BY <2>1, PoppedIs
<1> HIDE DEF new, after
<1>4. n \in Nat /\ \A t \in 1 .. n - 1 : t \in 1 .. n /\ t # n
  BY <1>1, SegmentsAre
<1>5. ASSUME NEW t \in 1 .. n - 1, NEW b \in Buckets
      PROVE  ToSet(after.cells[t][b]) = FreeIn(new, kept, t, b)
  <2>1. \A a : <<t, a>> # kept <=> <<t, a>> # chunk
    <3>0. t # n
      BY <1>4
    <3>1. \A a : <<t, a>> = chunk => chunk # None /\ chunk[1] # n
      BY <3>0 DEF None
    <3>2. \A a : <<t, a>> # None
      BY DEF None
    <3> QED
      BY <3>1, <3>2 DEF ChunkOutside
  <2> HIDE DEF kept
  <2>2. ToSet(after.cells[t][b]) = FreeIn(segs, chunk, t, b)
    BY <1>1, <1>3, <1>4
  <2> QED
    BY <1>2, <2>1, <2>2 DEF FreeIn
<1>6. ChunkIn(new, kept)
  <2> SUFFICES ASSUME kept # None
               PROVE  ChunkIn(new, kept)
    BY DEF ChunkIn
  <2>1. chunk # None /\ chunk[1] # n /\ kept = chunk
    BY DEF ChunkOutside
  <2>2. PICK t \in 1 .. n : \E o \in FreeOffsets(segs[t]) : chunk = <<t, o>>
    BY <1>1, <2>1 DEF ChunkIn
  <2>3. t \in 1 .. n - 1
    BY <1>4, <2>1, <2>2
  <2> QED
    BY <1>2, <2>1, <2>2, <2>3 DEF ChunkIn
<1>7. Exact(new, after, kept)
  BY <1>2, <1>3, <1>5, <1>6 DEF Exact
<1> QED
  BY <1>7 DEF new, after

\* A segment is swept whose free cells were not marked.
LEMMA ExactSwept ==
    ASSUME NEW segs, NEW fl, NEW chunk, Exact(segs, fl, chunk),
           NEW s \in 1 .. Len(segs),
           \A a \in FreeOffsets(segs[s]) : ~segs[s][a].marked
    PROVE  Exact([segs EXCEPT ![s] = Swept(segs[s])],
                 Relinked(fl, s, SweptLists(Swept(segs[s]))),
                 ChunkOutside(chunk, s))
<1> DEFINE n == Len(segs)
           seg == Swept(segs[s])
           new == [segs EXCEPT ![s] = seg]
           lists == SweptLists(seg)
           after == Relinked(fl, s, lists)
           kept == ChunkOutside(chunk, s)
           In(b) == {a \in DOMAIN seg : /\ seg[a].free /\ ~seg[a].marked
                                        /\ Bucket(seg[a].size) = b}
<1>1. /\ AllTidy(segs) /\ Linked(fl, n)
      /\ \A t \in 1 .. n, b \in Buckets :
            ToSet(fl.cells[t][b]) = FreeIn(segs, chunk, t, b)
      /\ ChunkIn(segs, chunk)
  BY DEF Exact
<1>2. Tidy(segs[s])
  BY <1>1, SegmentsAre
<1>3. /\ Tidy(seg)
      /\ \A a \in DOMAIN segs[s] : segs[s][a].marked =>
            a \in DOMAIN seg /\ seg[a] = segs[s][a]
      /\ \A a \in DOMAIN seg :
            /\ a \in DOMAIN segs[s]
            /\ ~segs[s][a].marked => seg[a].free /\ ~seg[a].marked
  BY <1>2, SweptEffect
<1> HIDE DEF seg
<1>4. \A a \in FreeOffsets(seg) : ~seg[a].marked
  <2> SUFFICES ASSUME NEW a \in FreeOffsets(seg), seg[a].marked
               PROVE  FALSE
    OBVIOUS
  <2>1. a \in DOMAIN seg /\ seg[a].free
    BY FreeAre
  <2>2. a \in DOMAIN segs[s] /\ segs[s][a].marked
    BY <1>3, <2>1
  <2>3. seg[a] = segs[s][a]
    BY <1>3, <2>2
  <2>4. a \in FreeOffsets(segs[s])
    BY <2>1, <2>2, <2>3, FreeAre
  <2> QED
    BY <2>2, <2>4
<1>5. ASSUME NEW b \in Buckets
      PROVE  In(b) = {a \in FreeOffsets(seg) : Bucket(seg[a].size) = b}
  BY <1>4, FreeAre
<1>6. ASSUME NEW b \in Buckets
      PROVE  /\ lists[b] \in Seq(Nat) /\ NoDuplicates(lists[b])
             /\ ToSet(lists[b]) = In(b)
  <2>1. lists[b] = Descending(In(b))
    BY DEF SweptLists
  <2>2. In(b) \in SUBSET (0 .. SegmentSize) /\ SegmentSize \in Nat
    <3>1. \A a \in DOMAIN seg : a \in Offsets
      BY <1>3, SegmentIs DEF Tidy
    <3>2. \A a \in Offsets : a \in 0 .. SegmentSize
      BY SizesAssumption DEF Offsets
    <3> QED
      BY <3>1, <3>2, SizesAssumption
  <2> HIDE DEF In, lists
  <2> QED
    BY <2>1, <2>2, DescendingIs
<1>7. lists \in [Buckets -> Seq(Nat)]
  <2>1. lists = [b \in Buckets |-> lists[b]]
    BY DEF SweptLists
  <2> HIDE DEF lists, In
  <2> QED
    BY <1>6, <2>1
<1> HIDE DEF lists, In
<1>8. /\ Linked(after, n)
      /\ \A t \in 1 .. n : after.cells[t] = IF t = s THEN lists ELSE fl.cells[t]
  <2>1. Linked(fl, n) /\ s \in 1 .. n
    BY <1>1
  <2> HIDE DEF n
  <2> QED
    BY <1>6, <1>7, <2>1, RelinkedIs
<1> HIDE DEF after
<1>9. /\ AllTidy(new) /\ Len(new) = n
      /\ \A t \in 1 .. n : new[t] = IF t = s THEN seg ELSE segs[t]
  BY <1>1, <1>3, SegmentReplaced
<1> HIDE DEF new
<1>10. ASSUME NEW t \in 1 .. n, NEW b \in Buckets
       PROVE  ToSet(after.cells[t][b]) = FreeIn(new, kept, t, b)
  <2>1. CASE t = s
    <3>1. \A a : <<t, a>> # kept
      <4>1. \A a : <<t, a>> = chunk => chunk # None /\ chunk[1] = s
        BY <2>1 DEF None
      <4>2. \A a : <<t, a>> # None
        BY DEF None
      <4> QED
        BY <4>1, <4>2 DEF ChunkOutside
    <3> HIDE DEF kept
    <3>2. after.cells[t][b] = lists[b] /\ new[t] = seg
      BY <1>8, <1>9, <2>1
    <3> QED
      BY <1>5, <1>6, <3>1, <3>2 DEF FreeIn
  <2>2. CASE t # s
    <3>1. \A a : <<t, a>> # kept <=> <<t, a>> # chunk
      <4>1. \A a : <<t, a>> = chunk => chunk # None /\ chunk[1] # s
        BY <2>2 DEF None
      <4>2. \A a : <<t, a>> # None
        BY DEF None
      <4> QED
        BY <4>1, <4>2 DEF ChunkOutside
    <3> HIDE DEF kept
    <3>2. after.cells[t][b] = fl.cells[t][b] /\ new[t] = segs[t]
      BY <1>8, <1>9, <2>2
    <3> QED
      BY <1>1, <3>1, <3>2 DEF FreeIn
  <2> QED
    BY <2>1, <2>2
<1>11. ChunkIn(new, kept)
  <2> SUFFICES ASSUME kept # None
               PROVE  ChunkIn(new, kept)
    BY DEF ChunkIn
  <2>1. chunk # None /\ chunk[1] # s /\ kept = chunk
    BY DEF ChunkOutside
  <2>2. PICK t \in 1 .. n : \E o \in FreeOffsets(segs[t]) : chunk = <<t, o>>
    BY <1>1, <2>1 DEF ChunkIn
  <2>3. t # s
    BY <2>1, <2>2
  <2> QED
    BY <1>9, <2>1, <2>2, <2>3 DEF ChunkIn
<1>12. Exact(new, after, kept)
  BY <1>8, <1>9, <1>10, <1>11 DEF Exact
<1> QED
  BY <1>12 DEF new, after, lists, seg

------------------------------------------------------------------------------
(* search.                                                                    *)

\* What the buckets, the chains and the lists that are searched hold.
LEMMA ListsSearched ==
    ASSUME Exact(segments, freelist, allocChunk), NEW b \in Buckets
    PROVE  /\ b \in Nat
           /\ freelist.chain[b] \in Seq(Nat)
           /\ \A i \in DOMAIN freelist.chain[b] :
                 /\ i \in Nat /\ freelist.chain[b][i] \in 1 .. Len(segments)
                 /\ ListAt(b, i) \in Seq(Nat)
                 /\ \A k \in DOMAIN ListAt(b, i) :
                       /\ k \in Nat
                       /\ ListAt(b, i)[k] \in
                             FreeIn(segments, allocChunk, freelist.chain[b][i], b)
<1>1. b \in Nat
  BY DEF Buckets
<1>2. /\ Linked(freelist, Len(segments))
      /\ \A s \in 1 .. Len(segments) :
            ToSet(freelist.cells[s][b]) = FreeIn(segments, allocChunk, s, b)
  BY DEF Exact
<1>3. /\ ListsType(freelist, Len(segments))
      /\ ToSet(freelist.chain[b]) =
            {s \in 1 .. Len(segments) : freelist.cells[s][b] # <<>>}
  BY <1>2 DEF Linked
<1>4. /\ freelist.chain[b] \in Seq(Nat)
      /\ \A s \in 1 .. Len(segments) : freelist.cells[s][b] \in Seq(Nat)
  BY <1>3, ListsAre
<1>5. ASSUME NEW i \in DOMAIN freelist.chain[b]
      PROVE  /\ i \in Nat /\ freelist.chain[b][i] \in 1 .. Len(segments)
             /\ ListAt(b, i) \in Seq(Nat)
             /\ \A k \in DOMAIN ListAt(b, i) :
                   /\ k \in Nat
                   /\ ListAt(b, i)[k] \in
                         FreeIn(segments, allocChunk, freelist.chain[b][i], b)
  <2>1. i \in Nat
    BY <1>4, LenProperties
  <2>2. freelist.chain[b][i] \in ToSet(freelist.chain[b])
    BY DEF ToSet
  <2>3. freelist.chain[b][i] \in 1 .. Len(segments)
    BY <1>3, <2>2
  <2>4. ListAt(b, i) = freelist.cells[freelist.chain[b][i]][b]
    BY DEF ListAt
  <2>5. /\ ListAt(b, i) \in Seq(Nat)
        /\ ToSet(ListAt(b, i)) =
              FreeIn(segments, allocChunk, freelist.chain[b][i], b)
    BY <1>2, <1>4, <2>3, <2>4
  <2>6. ASSUME NEW k \in DOMAIN ListAt(b, i)
        PROVE  /\ k \in Nat
               /\ ListAt(b, i)[k] \in
                     FreeIn(segments, allocChunk, freelist.chain[b][i], b)
    <3>1. k \in Nat
      BY <2>5, LenProperties
    <3>2. ListAt(b, i)[k] \in ToSet(ListAt(b, i))
      BY DEF ToSet
    <3> QED
      BY <2>5, <3>1, <3>2
  <2> QED
    BY <2>1, <2>3, <2>5, <2>6
<1> QED
  BY <1>1, <1>4, <1>5

\* search finds a free cell that is not the chunk and fits.
LEMMA SearchFinds ==
    ASSUME Exact(segments, freelist, allocChunk), NEW sz, Search(sz) # None
    PROVE  \E s \in 1 .. Len(segments) : \E a \in FreeOffsets(segments[s]) :
              /\ Search(sz) = <<s, a>> /\ <<s, a>> # allocChunk
              /\ Fits(segments[s][a].size, sz)
<1> DEFINE b == Min(FittingBuckets(sz))
           i == Min(FittingLists(sz, b))
           k == Min(FittingCells(sz, b, i))
           s == freelist.chain[b][i]
           a == ListAt(b, i)[k]
<1>1. FittingBuckets(sz) # {} /\ Search(sz) = <<s, a>>
  BY DEF Search
<1>2. freelist.bits \in SUBSET Buckets
  <2>1. ListsType(freelist, Len(segments))
    BY DEF Exact, Linked
  <2> QED
    BY <2>1, ListsAre
<1>3. b \in FittingBuckets(sz)
  <2>1. FittingBuckets(sz) \in SUBSET Nat
    BY <1>2 DEF FittingBuckets, Buckets
  <2> QED
    BY <1>1, <2>1, MinIs
<1> HIDE DEF b
<1>4. b \in Buckets /\ FittingLists(sz, b) # {}
  BY <1>2, <1>3 DEF FittingBuckets
<1>5. i \in FittingLists(sz, b)
  <2>1. FittingLists(sz, b) \in SUBSET Nat
    BY <1>4, ListsSearched DEF FittingLists
  <2> QED
    BY <1>4, <2>1, MinIs
<1> HIDE DEF i
<1>6. i \in DOMAIN freelist.chain[b] /\ FittingCells(sz, b, i) # {}
  BY <1>5 DEF FittingLists
<1>7. k \in FittingCells(sz, b, i)
  <2>1. FittingCells(sz, b, i) \in SUBSET Nat
    BY <1>4, <1>6, ListsSearched DEF FittingCells
  <2> QED
    BY <1>6, <2>1, MinIs
<1> HIDE DEF k
<1>8. k \in DOMAIN ListAt(b, i) /\ Fits(segments[s][a].size, sz)
  BY <1>7 DEF FittingCells
<1>9. s \in 1 .. Len(segments) /\ a \in FreeIn(segments, allocChunk, s, b)
  BY <1>4, <1>6, <1>8, ListsSearched
<1> HIDE DEF s, a
<1>10. a \in FreeOffsets(segments[s]) /\ <<s, a>> # allocChunk
  BY <1>9 DEF FreeIn
<1> QED
  BY <1>1, <1>8, <1>9, <1>10

\* search passes over no free cell that fits, whichever buckets it skips.
LEMMA SearchMisses ==
    ASSUME Exact(segments, freelist, allocChunk),
           NEW sz \in Nat, MinSize <= sz, Search(sz) = None,
           NEW s \in 1 .. Len(segments), NEW a \in FreeOffsets(segments[s]),
           <<s, a>> # allocChunk
    PROVE  ~Fits(segments[s][a].size, sz)
<1> DEFINE size == segments[s][a].size
           b == Bucket(size)
<1>1. FittingBuckets(sz) = {}
  BY DEF Search, None
<1>2. SUFFICES ASSUME Fits(size, sz)
               PROVE  b \in FittingBuckets(sz)
  BY <1>1
<1>3. /\ AllTidy(segments) /\ Linked(freelist, Len(segments))
      /\ \A c \in Buckets :
            ToSet(freelist.cells[s][c]) = FreeIn(segments, allocChunk, s, c)
  BY DEF Exact
<1>4. /\ ListsType(freelist, Len(segments))
      /\ \A c \in Buckets :
            ToSet(freelist.chain[c]) =
               {t \in 1 .. Len(segments) : freelist.cells[t][c] # <<>>}
      /\ freelist.bits = {c \in Buckets : freelist.chain[c] # <<>>}
  BY <1>3 DEF Linked
<1>5. size \in Nat /\ b \in Buckets
  <2>1. a \in DOMAIN segments[s]
    BY FreeAre
  <2>2. segments[s][a] \in Cell
    BY <1>3, <2>1, SegmentsAre
  <2> QED
    BY <1>3, <2>1, <2>2, SegmentsAre DEF Cell
<1>6. a \in ToSet(freelist.cells[s][b])
  BY <1>3, <1>5 DEF FreeIn
<1>7. freelist.cells[s][b] \in Seq(Nat) /\ freelist.chain[b] \in Seq(Nat)
  BY <1>4, <1>5, ListsAre
<1>8. s \in ToSet(freelist.chain[b])
  BY <1>4, <1>5, <1>6, <1>7, EmptyList
<1>9. b \in freelist.bits
  BY <1>4, <1>5, <1>7, <1>8, EmptyList
<1>10. FirstBucket(sz) <= b
  <2>1. CASE size = sz
    <3>1. FirstBucket(sz) = b /\ b \in Int
      BY <1>5, <1>9, <2>1 DEF FirstBucket, Buckets
    <3> QED
      BY <3>1
  <2>2. CASE size # sz
    <3>1. /\ sz + MinSize \in Nat /\ sz + MinSize <= size /\ sz <= size
      BY <1>2, <1>5, <2>2, SizesAssumption DEF Fits
    <3>2. Bucket(sz) <= b /\ Bucket(sz + MinSize) <= b
      <4> HIDE DEF size
      <4> QED
        BY <1>5, <3>1, BucketGrows
    <3> QED
      BY <3>2 DEF FirstBucket
  <2> QED
    BY <2>1, <2>2
<1>11. PICK i \in DOMAIN freelist.chain[b] : freelist.chain[b][i] = s
  BY <1>8 DEF ToSet
<1>12. ListAt(b, i) = freelist.cells[s][b]
  BY <1>11 DEF ListAt
<1>13. PICK k \in DOMAIN ListAt(b, i) : ListAt(b, i)[k] = a
  BY <1>6, <1>12 DEF ToSet
<1>14. k \in FittingCells(sz, b, i)
  BY <1>2, <1>11, <1>13 DEF FittingCells
<1>15. i \in FittingLists(sz, b)
  BY <1>14 DEF FittingLists
<1>16. FirstBucket(sz) \in Int /\ b \in Int
  <2>1. sz + MinSize \in Nat
    BY SizesAssumption
  <2>2. Bucket(sz) \in Int /\ Bucket(sz + MinSize) \in Int
    BY <2>1, BucketGrows
  <2> QED
    BY <1>5, <2>2 DEF FirstBucket, Buckets
<1> HIDE DEF b
<1> QED
  BY <1>9, <1>10, <1>15, <1>16 DEF FittingBuckets

------------------------------------------------------------------------------
(* Jumbo segments.                                                            *)

JumboSegment == [units : Nat, marked : BOOLEAN, fresh : BOOLEAN]

(* JumboUnits of any jumbo segments j.                                        *)
UnitsIn(j, ids) == UNION {{i} \X (1 .. j[i].units) : i \in ids}
UnitsOf(j, ids) == Cardinality(UnitsIn(j, ids))

JumboIs(j) ==
    /\ j = [i \in DOMAIN j |-> j[i]]
    /\ \A i \in DOMAIN j : j[i] \in JumboSegment /\ (j[i].fresh => j[i].marked)
    /\ IsFiniteSet(DOMAIN j) /\ IsFiniteSet(UnitsIn(j, DOMAIN j))

\* The units of some jumbo segments are finite in number.
LEMMA UnitsFinite ==
    ASSUME NEW j, JumboIs(j), NEW S \in SUBSET DOMAIN j
    PROVE  IsFiniteSet(UnitsIn(j, S)) /\ UnitsOf(j, S) \in Nat
<1>1. UnitsIn(j, S) \in SUBSET UnitsIn(j, DOMAIN j)
  BY DEF UnitsIn
<1>2. IsFiniteSet(UnitsIn(j, S))
  BY <1>1, FS_Subset DEF JumboIs
<1> QED
  BY <1>2, FS_CardinalityType DEF UnitsOf

\* They add up.
LEMMA UnitsSplit ==
    ASSUME NEW j, JumboIs(j), NEW S \in SUBSET DOMAIN j, NEW T \in SUBSET DOMAIN j,
           S \cap T = {}
    PROVE  UnitsOf(j, S \cup T) = UnitsOf(j, S) + UnitsOf(j, T)
<1> DEFINE A == UnitsIn(j, S)
           B == UnitsIn(j, T)
<1>1. IsFiniteSet(A) /\ IsFiniteSet(B)
  BY UnitsFinite
<1>2. UnitsIn(j, S \cup T) = A \cup B
  BY DEF UnitsIn
<1>3. A \cap B = {}
  <2>1. \A x \in A : x[1] \in S
    BY DEF UnitsIn
  <2>2. \A x \in B : x[1] \in T
    BY DEF UnitsIn
  <2> HIDE DEF A, B
  <2> QED
    BY <2>1, <2>2
<1>4. Cardinality(A) \in Nat /\ Cardinality(B) \in Nat /\ Cardinality(A \cap B) = 0
  BY <1>1, <1>3, FS_CardinalityType, FS_EmptySet
<1> HIDE DEF A, B
<1>5. Cardinality(A \cup B) = Cardinality(A) + Cardinality(B) - Cardinality(A \cap B)
  BY <1>1, FS_Union
<1>6. Cardinality(A \cup B) = Cardinality(A) + Cardinality(B)
  BY <1>4, <1>5
<1> QED
  BY <1>2, <1>6 DEF UnitsOf, A, B

\* The units depend on the sizes only.
LEMMA SameUnits ==
    ASSUME NEW j, NEW new, NEW S, \A i \in S : new[i].units = j[i].units
    PROVE  UnitsIn(new, S) = UnitsIn(j, S) /\ UnitsOf(new, S) = UnitsOf(j, S)
<1>1. UnitsIn(new, S) = UnitsIn(j, S)
  BY DEF UnitsIn
<1> QED
  BY <1>1 DEF UnitsOf

\* One jumbo segment.
LEMMA UnitsOne ==
    ASSUME NEW j, NEW i, j[i].units \in Nat
    PROVE  IsFiniteSet(UnitsIn(j, {i})) /\ UnitsOf(j, {i}) = j[i].units
<1> DEFINE u == j[i].units
           I == 1 .. u
           One == {i}
<1>1. UnitsIn(j, {i}) = One \X I
  BY DEF UnitsIn
<1>2. IsFiniteSet(I) /\ Cardinality(I) = u
  <2>1. 1 \in Int /\ u \in Int /\ u \in Nat
    OBVIOUS
  <2> HIDE DEF u
  <2>2. IsFiniteSet(1 .. u) /\ Cardinality(1 .. u) = IF 1 > u THEN 0 ELSE u - 1 + 1
    BY <2>1, FS_Interval
  <2> QED
    BY <2>1, <2>2
<1>3. IsFiniteSet(One) /\ Cardinality(One) = 1
  BY FS_Singleton
<1> HIDE DEF I, One
<1>4. IsFiniteSet(One \X I) /\ Cardinality(One \X I) = Cardinality(One) * Cardinality(I)
  BY <1>2, <1>3, FS_Product
<1>5. 1 * u = u
  OBVIOUS
<1> QED
  BY <1>1, <1>2, <1>3, <1>4, <1>5 DEF UnitsOf

\* A jumbo segment is created.
LEMMA JumboAdded ==
    ASSUME NEW j, JumboIs(j), NEW x, x \notin DOMAIN j,
           NEW seg \in JumboSegment, seg.marked
    PROVE  LET new == [i \in DOMAIN j \cup {x} |-> IF i = x THEN seg ELSE j[i]]
           IN  /\ JumboIs(new) /\ DOMAIN new = DOMAIN j \cup {x}
               /\ \A i \in DOMAIN j : new[i] = j[i]
               /\ UnitsOf(new, DOMAIN new) = UnitsOf(j, DOMAIN j) + seg.units
<1> DEFINE new == [i \in DOMAIN j \cup {x} |-> IF i = x THEN seg ELSE j[i]]
           D == DOMAIN j
<1>1. /\ DOMAIN new = D \cup {x} /\ new[x] = seg
      /\ \A i \in D : new[i] = j[i]
      /\ new = [i \in DOMAIN new |-> new[i]]
  OBVIOUS
<1>2. /\ IsFiniteSet(D) /\ IsFiniteSet(UnitsIn(j, D))
      /\ \A i \in D : j[i] \in JumboSegment /\ (j[i].fresh => j[i].marked)
  BY DEF JumboIs
<1> HIDE DEF new
<1>3. \A i \in DOMAIN new :
         new[i] \in JumboSegment /\ (new[i].fresh => new[i].marked)
  BY <1>1, <1>2
<1>4. UnitsIn(new, D) = UnitsIn(j, D) /\ UnitsOf(new, D) = UnitsOf(j, D)
  BY <1>1, SameUnits
<1>5. new[x].units \in Nat /\ new[x].units = seg.units
  BY <1>1 DEF JumboSegment
<1>6. IsFiniteSet(UnitsIn(new, {x})) /\ UnitsOf(new, {x}) = seg.units
  BY <1>5, UnitsOne
<1>7. UnitsIn(new, D \cup {x}) = UnitsIn(new, D) \cup UnitsIn(new, {x})
  BY DEF UnitsIn
<1>8. IsFiniteSet(UnitsIn(new, D \cup {x}))
  <2> DEFINE A == UnitsIn(new, D)
             B == UnitsIn(new, {x})
  <2>1. IsFiniteSet(A) /\ IsFiniteSet(B) /\ UnitsIn(new, D \cup {x}) = A \cup B
    BY <1>2, <1>4, <1>6, <1>7
  <2> HIDE DEF A, B
  <2> QED
    BY <2>1, FS_Union
<1>9. IsFiniteSet(D \cup {x})
  BY <1>2, FS_AddElement
<1>10. JumboIs(new)
  BY <1>1, <1>3, <1>8, <1>9 DEF JumboIs
<1>11. UnitsOf(new, D \cup {x}) = UnitsOf(new, D) + UnitsOf(new, {x})
  <2>1. D \in SUBSET DOMAIN new /\ {x} \in SUBSET DOMAIN new /\ D \cap {x} = {}
    BY <1>1
  <2> HIDE DEF D
  <2> QED
    BY <1>10, <2>1, UnitsSplit
<1> QED
  BY <1>1, <1>4, <1>6, <1>10, <1>11 DEF new

\* Only marks change.
LEMMA JumboSame ==
    ASSUME NEW j, JumboIs(j), NEW new, DOMAIN new = DOMAIN j,
           new = [i \in DOMAIN new |-> new[i]],
           \A i \in DOMAIN new : /\ new[i] \in JumboSegment
                                 /\ new[i].fresh => new[i].marked
                                 /\ new[i].units = j[i].units
    PROVE  JumboIs(new) /\ UnitsOf(new, DOMAIN new) = UnitsOf(j, DOMAIN j)
<1>1. /\ UnitsIn(new, DOMAIN j) = UnitsIn(j, DOMAIN j)
      /\ UnitsOf(new, DOMAIN j) = UnitsOf(j, DOMAIN j)
  BY SameUnits
<1> QED
  BY <1>1 DEF JumboIs

\* Some jumbo segments are freed.
LEMMA JumboKept ==
    ASSUME NEW j, JumboIs(j), NEW S \in SUBSET DOMAIN j
    PROVE  LET new == Restrict(j, S)
           IN  /\ JumboIs(new) /\ DOMAIN new = S
               /\ \A i \in S : new[i] = j[i]
               /\ UnitsOf(j, DOMAIN j) =
                     UnitsOf(new, DOMAIN new) + UnitsOf(j, DOMAIN j \ S)
<1> DEFINE new == Restrict(j, S)
<1>1. /\ DOMAIN new = S /\ new = [i \in S |-> new[i]]
      /\ \A i \in S : new[i] = j[i]
  BY DEF Restrict
<1> HIDE DEF new
<1>2. UnitsIn(new, S) = UnitsIn(j, S) /\ UnitsOf(new, S) = UnitsOf(j, S)
  BY <1>1, SameUnits
<1>3. IsFiniteSet(UnitsIn(new, S))
  BY <1>2, UnitsFinite
<1>4. IsFiniteSet(S)
  BY FS_Subset DEF JumboIs
<1>5. JumboIs(new)
  BY <1>1, <1>3, <1>4 DEF JumboIs
<1>6. UnitsOf(j, DOMAIN j) = UnitsOf(j, S) + UnitsOf(j, DOMAIN j \ S)
  <2> DEFINE T == DOMAIN j \ S
  <2>1. T \in SUBSET DOMAIN j /\ S \cap T = {} /\ DOMAIN j = S \cup T
    OBVIOUS
  <2> HIDE DEF T
  <2>2. UnitsOf(j, S \cup T) = UnitsOf(j, S) + UnitsOf(j, T)
    BY <2>1, UnitsSplit
  <2> QED
    BY <2>1, <2>2 DEF T
<1> QED
  BY <1>1, <1>2, <1>5, <1>6 DEF new

\* At first there is none.
LEMMA NoJumbo == JumboIs(<<>>) /\ DOMAIN <<>> = {} /\ UnitsOf(<<>>, {}) = 0
<1>1. DOMAIN <<>> = {} /\ <<>> = [i \in {} |-> <<>>[i]]
  OBVIOUS
<1>2. UnitsIn(<<>>, {}) = {}
  BY DEF UnitsIn
<1> QED
  BY <1>1, <1>2, FS_EmptySet DEF JumboIs, UnitsOf

\* The number of a new jumbo segment is not in use.
LEMMA NewJumboIsNew ==
    ASSUME JumboIs(jumbo)
    PROVE  NewJumbo \notin DOMAIN jumbo
<1> DEFINE n == Cardinality(DOMAIN jumbo)
           I == 1 .. n + 1
<1>1. IsFiniteSet(DOMAIN jumbo) /\ n \in Nat
  BY FS_CardinalityType DEF JumboIs
<1>2. IsFiniteSet(I) /\ Cardinality(I) = n + 1
  <2>1. 1 \in Int /\ n + 1 \in Int /\ ~(1 > n + 1) /\ n + 1 - 1 + 1 = n + 1
    BY <1>1
  <2> HIDE DEF n
  <2>2. /\ IsFiniteSet(1 .. n + 1)
        /\ Cardinality(1 .. n + 1) = IF 1 > n + 1 THEN 0 ELSE n + 1 - 1 + 1
    BY <2>1, FS_Interval
  <2> QED
    BY <2>1, <2>2
<1>3. ~(I \subseteq DOMAIN jumbo)
  <2> SUFFICES ASSUME I \subseteq DOMAIN jumbo
               PROVE  FALSE
    OBVIOUS
  <2>1. I \in SUBSET DOMAIN jumbo
    OBVIOUS
  <2> HIDE DEF I
  <2>2. Cardinality(I) <= n
    BY <1>1, <2>1, FS_Subset
  <2> HIDE DEF n
  <2> QED
    BY <1>1, <1>2, <2>2
<1>4. \E i \in 1 .. n + 1 : i \notin DOMAIN jumbo
  BY <1>3
<1> QED
  BY <1>4 DEF NewJumbo

------------------------------------------------------------------------------
(* The inductive invariant.                                                   *)

(* largeBytes and allocatedBytes are what BytesExact says.                    *)
Counted ==
    /\ largeBytes = UnitsOf(jumbo, DOMAIN jumbo) * SegmentSize
    /\ allocatedBytes = ObjectBytes(segments) + ObjectBytes(compactee) + largeBytes

(* The free cells of the segments that the sweep has yet to visit carry no    *)
(* mark: a free cell with one would end a run of dead cells, and stay in the  *)
(* segment without a list.                                                    *)
Unswept ==
    \A s \in 1 .. segNumber : \A a \in FreeOffsets(segments[s]) : ~segments[s][a].marked

Memory ==
    /\ Exact(segments, freelist, allocChunk)
    /\ AllTidy(compactee) /\ Len(compactee) <= 1
    /\ JumboIs(jumbo)
    /\ Counted
    /\ segNumber \in 0 .. Len(segments)
    /\ Unswept

\* The memory is in order again once the sum of a segment's objects has grown
\* by what was allocated in it, and its other objects are what they were.
LEMMA AllocatedIn ==
    ASSUME Memory, NEW s \in 1 .. Len(segments), NEW seg, Tidy(seg), NEW sz \in Nat,
           FreeOffsets(seg) \subseteq FreeOffsets(segments[s]),
           \A o \in FreeOffsets(seg) : seg[o].marked = segments[s][o].marked,
           \A o \in Objects(segments[s]) : o \in DOMAIN seg /\ seg[o] = segments[s][o],
           SizeOf(seg, Objects(seg)) = SizeOf(segments[s], Objects(segments[s])) + sz,
           segments' = [segments EXCEPT ![s] = seg],
           Exact(segments', freelist', allocChunk'),
           allocatedBytes' = allocatedBytes + sz,
           UNCHANGED <<jumbo, compactee, largeBytes, segNumber>>
    PROVE  Memory' /\ FreshKept
<1>1. AllTidy(segments)
    BY DEF Memory, Exact
<1>2. /\ Len(segments') = Len(segments) /\ DOMAIN segments' = DOMAIN segments
      /\ \A t \in 1 .. Len(segments) : segments'[t] = IF t = s THEN seg ELSE segments[t]
      /\ ObjectBytes(segments') = ObjectBytes(segments) + sz
      /\ ObjectBytes(segments) \in Nat
    <2>1. LET new == [segments EXCEPT ![s] = seg]
          IN  /\ AllTidy(new) /\ Len(new) = Len(segments) /\ DOMAIN new = DOMAIN segments
              /\ \A t \in 1 .. Len(segments) : new[t] = IF t = s THEN seg ELSE segments[t]
              /\ ObjectBytes(new) = ObjectBytes(segments)
                    - SizeOf(segments[s], Objects(segments[s]))
                    + SizeOf(seg, Objects(seg))
              /\ SizeOf(segments[s], Objects(segments[s])) \in Nat
              /\ SizeOf(seg, Objects(seg)) \in Nat
              /\ ObjectBytes(segments) \in Nat /\ ObjectBytes(new) \in Nat
        BY <1>1, SegmentReplaced
    <2>2. ObjectBytes(segments') = ObjectBytes(segments)
                    - SizeOf(segments[s], Objects(segments[s]))
                    + (SizeOf(segments[s], Objects(segments[s])) + sz)
        BY <2>1
    <2> QED
        BY <2>1, <2>2
<1>3. DOMAIN segments = 1 .. Len(segments)
    BY <1>1, SegmentsAre
<1>4. Counted'
    <2>1. AllTidy(compactee)
        BY DEF Memory
    <2>2. ObjectBytes(compactee) \in Nat
        BY <2>1, SharesFinite
    <2>3. largeBytes \in Nat
        <3>1. UnitsOf(jumbo, DOMAIN jumbo) \in Nat
            BY UnitsFinite DEF Memory
        <3> QED
            BY <3>1, SizesAssumption DEF Memory, Counted
    <2>4. /\ largeBytes' = UnitsOf(jumbo', DOMAIN jumbo') * SegmentSize
          /\ ObjectBytes(compactee') = ObjectBytes(compactee)
        BY DEF Memory, Counted
    <2>5. allocatedBytes' = ObjectBytes(segments') + ObjectBytes(compactee') + largeBytes'
        BY <1>2, <2>2, <2>3, <2>4 DEF Memory, Counted
    <2> QED
        BY <2>4, <2>5 DEF Counted
<1>5. Unswept'
    <2> SUFFICES ASSUME NEW t \in 1 .. segNumber', NEW a \in FreeOffsets(segments'[t])
                 PROVE  ~segments'[t][a].marked
        BY DEF Unswept
    <2>1. t \in 1 .. segNumber /\ t \in 1 .. Len(segments)
        BY <1>1, SegmentsAre DEF Memory
    <2>2. a \in FreeOffsets(segments[t]) /\ segments'[t][a].marked = segments[t][a].marked
        BY <1>2, <2>1
    <2> QED
        BY <2>1, <2>2 DEF Memory, Unswept
<1>6. Memory'
    <2>1. /\ AllTidy(compactee') /\ Len(compactee') <= 1 /\ JumboIs(jumbo')
          /\ segNumber' \in 0 .. Len(segments')
        BY <1>2 DEF Memory
    <2> QED
        BY <1>4, <1>5, <2>1 DEF Memory
<1>7. FreshKept
    BY <1>2, <1>3 DEF FreshKept, Objects
<1> QED
    BY <1>6, <1>7

\* The fast path carves the chunk.
LEMMA AllocFromChunkKeeps ==
    ASSUME Memory, NEW sz \in AllocSizes, AllocFromChunk(sz)
    PROVE  Memory' /\ FreshKept
<1>1. /\ sz \in Nat /\ MinSize <= sz
      /\ Exact(segments, freelist, allocChunk) /\ allocChunk # None
    BY SizesAssumption DEF Memory, AllocFromChunk, ChunkServes
<1>2. PICK s \in 1 .. Len(segments) :
          \E a \in FreeOffsets(segments[s]) : allocChunk = <<s, a>>
    BY <1>1 DEF Exact, ChunkIn
<1>3. PICK a \in FreeOffsets(segments[s]) : allocChunk = <<s, a>>
    BY <1>2
<1> DEFINE seg == Carved(segments[s], a, sz)
<1>4. /\ segments[s][a].size >= sz + MinSize
      /\ segments' = [segments EXCEPT ![s] = seg]
      /\ allocatedBytes' = allocatedBytes + sz
      /\ UNCHANGED <<freelist, allocChunk, jumbo, compactee, largeBytes, segNumber>>
    BY <1>3 DEF AllocFromChunk, ChunkServes, CountAllocated
<1>5. Tidy(segments[s]) /\ a \in DOMAIN segments[s]
    BY <1>1, <1>3, SegmentsAre DEF Exact, FreeOffsets
<1>6. /\ Tidy(seg) /\ FreeOffsets(seg) = FreeOffsets(segments[s])
      /\ \A o \in FreeOffsets(segments[s]) : o # a => seg[o] = segments[s][o]
      /\ \A o \in Objects(segments[s]) : o \in DOMAIN seg /\ seg[o] = segments[s][o]
      /\ SizeOf(seg, Objects(seg)) = SizeOf(segments[s], Objects(segments[s])) + sz
    BY <1>1, <1>3, <1>4, <1>5, CarvedIs
<1>7. seg[a].marked = segments[s][a].marked
    <2>1. seg[a] = [segments[s][a] EXCEPT !.size = segments[s][a].size - sz]
        BY <1>5 DEF Carved
    <2>2. segments[s][a] \in Cell
        BY <1>1, <1>5, SegmentsAre DEF Exact
    <2> QED
        BY <2>1, <2>2 DEF Cell
<1>8. Exact(segments', freelist', allocChunk')
    <2>1. Exact([segments EXCEPT ![s] = seg], freelist, <<s, a>>)
        BY <1>1, <1>3, <1>4, ExactChunkCarved
    <2> QED
        BY <1>3, <1>4, <2>1
<1>9. \A o \in FreeOffsets(seg) : seg[o].marked = segments[s][o].marked
    BY <1>6, <1>7
<1> HIDE DEF seg
<1> QED
    BY <1>1, <1>4, <1>6, <1>8, <1>9, AllocatedIn

\* search takes a cell that fits, and the chunk goes back to its list.
LEMMA TakeFreeCellKeeps ==
    ASSUME Memory, NEW sz \in AllocSizes, TakeFreeCell(sz), segNumber' = segNumber
    PROVE  Memory' /\ FreshKept
<1>1. /\ sz \in Nat /\ MinSize <= sz
      /\ Exact(segments, freelist, allocChunk) /\ Search(sz) # None
    BY SizesAssumption DEF Memory, TakeFreeCell
<1>2. PICK s \in 1 .. Len(segments) : \E a \in FreeOffsets(segments[s]) :
              /\ Search(sz) = <<s, a>> /\ <<s, a>> # allocChunk
              /\ Fits(segments[s][a].size, sz)
    BY <1>1, SearchFinds
<1>3. PICK a \in FreeOffsets(segments[s]) :
              /\ Search(sz) = <<s, a>> /\ <<s, a>> # allocChunk
              /\ Fits(segments[s][a].size, sz)
    BY <1>2
<1>4. Search(sz)[1] = s /\ Search(sz)[2] = a
    BY <1>3
<1>5. Tidy(segments[s]) /\ a \in DOMAIN segments[s] /\ segments[s][a] \in Cell
    BY <1>1, <1>3, SegmentsAre DEF Exact, FreeOffsets
<1>6. /\ allocatedBytes' = allocatedBytes + sz
      /\ UNCHANGED <<jumbo, compactee, largeBytes, segNumber>>
    BY DEF TakeFreeCell, CountAllocated
<1>7. CASE segments[s][a].size = sz
    <2> DEFINE seg == [segments[s] EXCEPT ![a] = Object(sz)]
    <2>1. /\ segments' = [segments EXCEPT ![s] = seg]
          /\ freelist' = RemoveCell(freelist, s, a, sz) /\ allocChunk' = allocChunk
        BY <1>4, <1>7 DEF TakeFreeCell
    <2>2. /\ Tidy(seg) /\ FreeOffsets(seg) = FreeOffsets(segments[s]) \ {a}
          /\ \A o \in DOMAIN segments[s] : o # a => seg[o] = segments[s][o]
          /\ \A o \in Objects(segments[s]) : o \in DOMAIN seg /\ seg[o] = segments[s][o]
          /\ SizeOf(seg, Objects(seg)) = SizeOf(segments[s], Objects(segments[s])) + sz
        BY <1>3, <1>5, <1>7, TakenIs
    <2>3. Exact(segments', freelist', allocChunk')
        BY <1>1, <1>3, <1>7, <2>1, ExactTaken
    <2>4. \A o \in FreeOffsets(seg) : seg[o].marked = segments[s][o].marked
        BY <2>2 DEF FreeOffsets
    <2> HIDE DEF seg
    <2> QED
        BY <1>1, <1>6, <2>1, <2>2, <2>3, <2>4, AllocatedIn
<1>8. CASE segments[s][a].size # sz
    <2> DEFINE seg == Carved(segments[s], a, sz)
    <2>1. segments[s][a].size >= sz + MinSize
        BY <1>3, <1>8 DEF Fits
    <2>2. /\ segments' = [segments EXCEPT ![s] = seg]
          /\ freelist' = ChunkReturned(segments,
                 RemoveCell(freelist, s, a, segments[s][a].size), allocChunk)
          /\ allocChunk' = <<s, a>>
        BY <1>4, <1>8 DEF TakeFreeCell, ChunkReturned
    <2>3. /\ Tidy(seg) /\ FreeOffsets(seg) = FreeOffsets(segments[s])
          /\ \A o \in FreeOffsets(segments[s]) : o # a => seg[o] = segments[s][o]
          /\ \A o \in Objects(segments[s]) : o \in DOMAIN seg /\ seg[o] = segments[s][o]
          /\ SizeOf(seg, Objects(seg)) = SizeOf(segments[s], Objects(segments[s])) + sz
        BY <1>1, <1>3, <1>5, <2>1, CarvedIs
    <2>4. seg[a].marked = segments[s][a].marked
        <3>1. seg[a] = [segments[s][a] EXCEPT !.size = segments[s][a].size - sz]
            BY <1>5 DEF Carved
        <3> QED
            BY <1>5, <3>1 DEF Cell
    <2>5. Exact(segments', freelist', allocChunk')
        BY <1>1, <1>3, <2>1, <2>2, ExactCarved
    <2>6. \A o \in FreeOffsets(seg) : seg[o].marked = segments[s][o].marked
        BY <2>3, <2>4
    <2> HIDE DEF seg
    <2> QED
        BY <1>1, <1>6, <2>2, <2>3, <2>5, <2>6, AllocatedIn
<1> QED
    BY <1>7, <1>8

\* The same for a segment that is new.
LEMMA AllocatedBehind ==
    ASSUME Memory, NEW seg, Tidy(seg), NEW sz \in Nat,
           SizeOf(seg, Objects(seg)) = sz,
           segments' = Append(segments, seg),
           Exact(segments', freelist', allocChunk'),
           allocatedBytes' = allocatedBytes + sz,
           UNCHANGED <<jumbo, compactee, largeBytes, segNumber>>
    PROVE  Memory' /\ FreshKept
<1>1. AllTidy(segments)
    BY DEF Memory, Exact
<1>2. /\ Len(segments') = Len(segments) + 1 /\ AllTidy(segments')
      /\ \A t \in 1 .. Len(segments) : segments'[t] = segments[t]
      /\ ObjectBytes(segments') = ObjectBytes(segments) + sz
    <2>1. LET new == Append(segments, seg)
              n == Len(segments) + 1
          IN  /\ AllTidy(new) /\ Len(new) = n
              /\ \A t \in 1 .. Len(segments) : new[t] = segments[t]
              /\ new[n] = seg
              /\ ObjectBytes(new) = ObjectBytes(segments) + SizeOf(seg, Objects(seg))
        BY <1>1, SegmentAppended
    <2> QED
        BY <2>1
<1>3. /\ DOMAIN segments = 1 .. Len(segments) /\ Len(segments) \in Nat
      /\ DOMAIN segments' = 1 .. Len(segments')
    BY <1>1, <1>2, SegmentsAre
<1>4. Counted'
    <2>1. AllTidy(compactee)
        BY DEF Memory
    <2>2. ObjectBytes(compactee) \in Nat /\ ObjectBytes(segments) \in Nat
        BY <1>1, <2>1, SharesFinite
    <2>3. largeBytes \in Nat
        <3>1. UnitsOf(jumbo, DOMAIN jumbo) \in Nat
            BY UnitsFinite DEF Memory
        <3> QED
            BY <3>1, SizesAssumption DEF Memory, Counted
    <2>4. /\ largeBytes' = UnitsOf(jumbo', DOMAIN jumbo') * SegmentSize
          /\ ObjectBytes(compactee') = ObjectBytes(compactee)
        BY DEF Memory, Counted
    <2>5. allocatedBytes' = ObjectBytes(segments') + ObjectBytes(compactee') + largeBytes'
        BY <1>2, <2>2, <2>3, <2>4 DEF Memory, Counted
    <2> QED
        BY <2>4, <2>5 DEF Counted
<1>5. Unswept'
    <2> SUFFICES ASSUME NEW t \in 1 .. segNumber', NEW a \in FreeOffsets(segments'[t])
                 PROVE  ~segments'[t][a].marked
        BY DEF Unswept
    <2>1. t \in 1 .. segNumber /\ t \in 1 .. Len(segments)
        BY <1>1, SegmentsAre DEF Memory
    <2>2. segments'[t] = segments[t]
        BY <1>2, <2>1
    <2> QED
        BY <2>1, <2>2 DEF Memory, Unswept
<1>6. Memory'
    <2>1. /\ AllTidy(compactee') /\ Len(compactee') <= 1 /\ JumboIs(jumbo')
          /\ segNumber' \in 0 .. Len(segments')
        BY <1>2, <1>3 DEF Memory
    <2> QED
        BY <1>4, <1>5, <2>1 DEF Memory
<1>7. FreshKept
    <2>1. \A t \in DOMAIN segments : t \in DOMAIN segments' /\ segments'[t] = segments[t]
        BY <1>2, <1>3
    <2> QED
        BY <2>1 DEF FreshKept, Objects
<1> QED
    BY <1>6, <1>7

\* allocFromNewSegment, with a rest that is a free cell or without.
LEMMA TakeNewSegmentKeeps ==
    ASSUME Memory, NEW sz \in AllocSizes, sz <= SegmentSize, TakeNewSegment(sz),
           segNumber' = segNumber
    PROVE  Memory' /\ FreshKept
<1>1. /\ sz \in Nat /\ MinSize <= sz /\ SegmentSize \in Nat
      /\ Exact(segments, freelist, allocChunk)
    BY SizesAssumption DEF Memory
<1>2. /\ allocatedBytes' = allocatedBytes + sz
      /\ UNCHANGED <<allocChunk, jumbo, compactee, largeBytes, segNumber>>
    BY DEF TakeNewSegment, CountAllocated
<1>3. CASE SegmentSize - sz >= MinSize
    <2> DEFINE rest == SegmentSize - sz
               seg == [o \in {0, sz} |-> IF o = 0 THEN Object(sz) ELSE FreeCell(rest, TRUE)]
    <2>1. /\ segments' = Append(segments, seg)
          /\ freelist' = AddCell(
                 [freelist EXCEPT !.cells = Append(@, [b \in Buckets |-> <<>>])],
                 Len(segments) + 1, sz, rest)
        BY <1>3 DEF TakeNewSegment
    <2>2. /\ Tidy(seg) /\ FreeOffsets(seg) = {sz} /\ seg[sz].size = rest
          /\ SizeOf(seg, Objects(seg)) = sz
        BY <1>1, <1>3, NewSegmentIs
    <2> HIDE DEF seg, rest
    <2>3. Exact(segments', freelist', allocChunk')
        <3>1. Exact(Append(segments, seg),
                 AddCell([freelist EXCEPT !.cells = Append(@, [b \in Buckets |-> <<>>])],
                         Len(segments) + 1, sz, seg[sz].size),
                 allocChunk)
            BY <1>1, <2>2, ExactAppendedFree
        <3> QED
            BY <1>2, <2>1, <2>2, <3>1
    <2> QED
        BY <1>1, <1>2, <2>1, <2>2, <2>3, AllocatedBehind
<1>4. CASE ~(SegmentSize - sz >= MinSize)
    <2> DEFINE seg == [o \in {0} |-> Object(sz)]
    <2>1. /\ segments' = Append(segments, seg)
          /\ freelist' = [freelist EXCEPT !.cells = Append(@, [b \in Buckets |-> <<>>])]
        BY <1>4 DEF TakeNewSegment
    <2>2. /\ Tidy(seg) /\ FreeOffsets(seg) = {} /\ SizeOf(seg, Objects(seg)) = sz
        BY <1>1, FullSegmentIs
    <2> HIDE DEF seg
    <2>3. Exact(segments', freelist', allocChunk')
        BY <1>1, <1>2, <2>1, <2>2, ExactAppended
    <2> QED
        BY <1>1, <1>2, <2>1, <2>2, <2>3, AllocatedBehind
<1> QED
    BY <1>3, <1>4

\* computeSegmentSize is a number of segments, one for what is not large.
LEMMA UnitsIs ==
    ASSUME NEW sz \in AllocSizes
    PROVE  /\ sz \in Nat /\ Units(sz) \in Nat /\ Units(sz) >= 1
           /\ sz <= SegmentSize => Units(sz) = 1
<1>1. sz \in Nat /\ sz >= 1 /\ SegmentSize \in Nat /\ SegmentSize >= 1
    BY SizesAssumption
<1>2. Units(sz) \in Nat /\ Units(sz) >= 1
    BY <1>1 DEF Units
<1>3. ASSUME sz <= SegmentSize
      PROVE  Units(sz) = 1
    BY <1>1, <1>3 DEF Units
<1> QED
    BY <1>1, <1>2, <1>3

\* allocLarge.
LEMMA TakeJumboSegmentKeeps ==
    ASSUME Memory, NEW sz \in AllocSizes, TakeJumboSegment(sz), segNumber' = segNumber
    PROVE  Memory' /\ FreshKept
<1> DEFINE seg == [units |-> Units(sz), marked |-> TRUE, fresh |-> phase # "none"]
           x == NewJumbo
<1>1. seg \in JumboSegment /\ seg.marked /\ seg.units = Units(sz)
    BY UnitsIs DEF JumboSegment
<1>2. /\ jumbo' = [i \in DOMAIN jumbo \cup {x} |-> IF i = x THEN seg ELSE jumbo[i]]
      /\ largeBytes' = largeBytes + Units(sz) * SegmentSize
      /\ allocatedBytes' = allocatedBytes + Units(sz) * SegmentSize
      /\ UNCHANGED <<segments, freelist, allocChunk, compactee, segNumber>>
    BY DEF TakeJumboSegment, CountAllocated
<1>3. JumboIs(jumbo) /\ x \notin DOMAIN jumbo
    BY NewJumboIsNew DEF Memory
<1> HIDE DEF seg, x
<1>4. /\ JumboIs(jumbo') /\ DOMAIN jumbo' = DOMAIN jumbo \cup {x}
      /\ \A i \in DOMAIN jumbo : jumbo'[i] = jumbo[i]
      /\ UnitsOf(jumbo', DOMAIN jumbo') = UnitsOf(jumbo, DOMAIN jumbo) + Units(sz)
    <2>1. LET new == [i \in DOMAIN jumbo \cup {x} |-> IF i = x THEN seg ELSE jumbo[i]]
          IN  /\ JumboIs(new) /\ DOMAIN new = DOMAIN jumbo \cup {x}
              /\ \A i \in DOMAIN jumbo : new[i] = jumbo[i]
              /\ UnitsOf(new, DOMAIN new) = UnitsOf(jumbo, DOMAIN jumbo) + seg.units
        BY <1>1, <1>3, JumboAdded
    <2> QED
        BY <1>1, <1>2, <2>1
<1>5. Counted'
    <2>1. AllTidy(segments) /\ AllTidy(compactee)
        BY DEF Memory, Exact
    <2>2. ObjectBytes(compactee) \in Nat /\ ObjectBytes(segments) \in Nat
        BY <2>1, SharesFinite
    <2>3. UnitsOf(jumbo, DOMAIN jumbo) \in Nat /\ Units(sz) \in Nat /\ SegmentSize \in Nat
        BY <1>3, UnitsFinite, UnitsIs, SizesAssumption
    <2>4. largeBytes' = UnitsOf(jumbo', DOMAIN jumbo') * SegmentSize
        BY <1>2, <1>4, <2>3 DEF Memory, Counted
    <2>5. /\ ObjectBytes(segments') = ObjectBytes(segments)
          /\ ObjectBytes(compactee') = ObjectBytes(compactee)
        BY <1>2
    <2>6. /\ allocatedBytes = ObjectBytes(segments) + ObjectBytes(compactee) + largeBytes
          /\ largeBytes \in Nat /\ Units(sz) * SegmentSize \in Nat
        BY <2>3 DEF Memory, Counted
    <2>7. allocatedBytes' = ObjectBytes(segments') + ObjectBytes(compactee') + largeBytes'
        BY <1>2, <2>2, <2>5, <2>6
    <2> QED
        BY <2>4, <2>7 DEF Counted
<1>6. Unswept'
    BY <1>2 DEF Memory, Unswept
<1>7. Memory'
    BY <1>2, <1>4, <1>5, <1>6 DEF Memory
<1>8. FreshKept
    BY <1>2, <1>4 DEF FreshKept, Objects
<1> QED
    BY <1>7, <1>8

\* The sums that BytesExact adds up are numbers.
LEMMA SumsAre ==
    ASSUME Memory
    PROVE  /\ ObjectBytes(segments) \in Nat /\ ObjectBytes(compactee) \in Nat
           /\ UnitsOf(jumbo, DOMAIN jumbo) \in Nat
           /\ largeBytes \in Nat /\ allocatedBytes \in Nat
<1>1. ObjectBytes(segments) \in Nat /\ ObjectBytes(compactee) \in Nat
    BY SharesFinite DEF Memory, Exact
<1>2. UnitsOf(jumbo, DOMAIN jumbo) \in Nat
    BY UnitsFinite DEF Memory
<1>3. largeBytes \in Nat
    BY <1>2, SizesAssumption DEF Memory, Counted
<1> QED
    BY <1>1, <1>2, <1>3 DEF Memory, Counted

\* The mark bits are reset before a collection.
LEMMA UnmarkedIs ==
    ASSUME AllTidy(segments)
    PROVE  /\ SameCells(segments, UnmarkedSegments)
           /\ \A s \in DOMAIN segments : \A a \in DOMAIN segments[s] :
                 ~UnmarkedSegments[s][a].marked
<1>1. DOMAIN segments = 1 .. Len(segments)
    BY SegmentsAre
<1>2. ASSUME NEW s \in DOMAIN segments, NEW a \in DOMAIN segments[s]
      PROVE  /\ UnmarkedSegments[s][a] = Unmarked(segments[s][a])
             /\ segments[s][a] \in Cell
    BY <1>1, <1>2, SegmentsAre DEF UnmarkedSegments
<1>3. ASSUME NEW s \in DOMAIN segments, NEW a \in DOMAIN segments[s]
      PROVE  /\ UnmarkedSegments[s][a] \in Cell
             /\ ~UnmarkedSegments[s][a].marked /\ ~UnmarkedSegments[s][a].fresh
             /\ UnmarkedSegments[s][a].size = segments[s][a].size
             /\ UnmarkedSegments[s][a].free = segments[s][a].free
    <2>1. \A c \in Cell : /\ Unmarked(c) \in Cell
                         /\ ~Unmarked(c).marked /\ ~Unmarked(c).fresh
                         /\ Unmarked(c).size = c.size /\ Unmarked(c).free = c.free
        BY DEF Unmarked, Cell
    <2> QED
        BY <1>2, <1>3, <2>1
<1>4. /\ DOMAIN UnmarkedSegments = DOMAIN segments
      /\ UnmarkedSegments = [s \in DOMAIN segments |-> UnmarkedSegments[s]]
    BY DEF UnmarkedSegments
<1>5. ASSUME NEW s \in DOMAIN segments
      PROVE  UnmarkedSegments[s] \in [DOMAIN segments[s] -> Cell]
    <2>1. UnmarkedSegments[s] = [a \in DOMAIN segments[s] |-> Unmarked(segments[s][a])]
        BY DEF UnmarkedSegments
    <2>2. \A a \in DOMAIN segments[s] : UnmarkedSegments[s][a] \in Cell
        BY <1>3
    <2> QED
        BY <2>1, <2>2
<1> QED
    BY <1>3, <1>4, <1>5 DEF SameCells

\* The mark bits of the jumbo segments.
LEMMA JumboUnmarked ==
    ASSUME JumboIs(jumbo), jumbo' = [i \in DOMAIN jumbo |-> Unmarked(jumbo[i])]
    PROVE  /\ JumboIs(jumbo')
           /\ UnitsOf(jumbo', DOMAIN jumbo') = UnitsOf(jumbo, DOMAIN jumbo)
<1>1. /\ DOMAIN jumbo' = DOMAIN jumbo
      /\ jumbo' = [i \in DOMAIN jumbo' |-> jumbo'[i]]
    OBVIOUS
<1>2. \A i \in DOMAIN jumbo : jumbo[i] \in JumboSegment
    BY DEF JumboIs
<1>3. \A i \in DOMAIN jumbo' : /\ jumbo'[i] \in JumboSegment
                               /\ jumbo'[i].fresh => jumbo'[i].marked
                               /\ jumbo'[i].units = jumbo[i].units
    BY <1>1, <1>2 DEF Unmarked, JumboSegment
<1> QED
    BY <1>1, <1>3, JumboSame

\* A collection starts, with a compactee or without.
LEMMA StartCollectionKeeps ==
    ASSUME Memory, NEW compact \in BOOLEAN, StartCollection(compact)
    PROVE  Memory'
<1> DEFINE U == UnmarkedSegments
<1>1. /\ AllTidy(segments) /\ Exact(segments, freelist, allocChunk)
      /\ DOMAIN segments = 1 .. Len(segments) /\ Len(segments) \in Nat
    BY SegmentsAre DEF Memory, Exact
<1>2. /\ SameCells(segments, U)
      /\ \A s \in DOMAIN segments : \A a \in DOMAIN segments[s] : ~U[s][a].marked
    BY <1>1, UnmarkedIs
<1>3. /\ AllTidy(U) /\ Len(U) = Len(segments) /\ ObjectBytes(U) = ObjectBytes(segments)
      /\ DOMAIN U = DOMAIN segments
      /\ Exact(U, freelist, allocChunk)
    <2>1. /\ AllTidy(U) /\ Len(U) = Len(segments) /\ ObjectBytes(U) = ObjectBytes(segments)
        BY <1>1, <1>2, SameCellsKept
    <2>2. Exact(U, freelist, allocChunk)
        BY <1>1, <1>2, ExactSame
    <2>3. DOMAIN U = DOMAIN segments
        BY <1>2 DEF SameCells
    <2> QED
        BY <2>1, <2>2, <2>3
<1>4. \A s \in 1 .. Len(U) : \A a \in FreeOffsets(U[s]) : ~U[s][a].marked
    <2> SUFFICES ASSUME NEW s \in 1 .. Len(U), NEW a \in FreeOffsets(U[s])
                 PROVE  ~U[s][a].marked
        OBVIOUS
    <2>1. s \in DOMAIN segments /\ U[s] \in [DOMAIN segments[s] -> Cell]
        BY <1>1, <1>2, <1>3 DEF SameCells
    <2>2. a \in DOMAIN segments[s]
        BY <2>1 DEF FreeOffsets
    <2> QED
        BY <1>2, <2>1, <2>2
<1>5. compactee = <<>> /\ ObjectBytes(compactee) = 0
    BY NoBytes DEF StartCollection
<1>6. /\ JumboIs(jumbo')
      /\ UnitsOf(jumbo', DOMAIN jumbo') = UnitsOf(jumbo, DOMAIN jumbo)
    BY JumboUnmarked DEF Memory, StartCollection
<1>7. /\ segNumber' = Len(segments')
      /\ UNCHANGED <<allocatedBytes, largeBytes>>
    BY DEF StartCollection
<1>8. ObjectBytes(segments) \in Nat /\ largeBytes \in Nat
    BY SumsAre
<1> HIDE DEF U
<1>9. ASSUME Exact(segments', freelist', allocChunk'), AllTidy(compactee'),
             Len(compactee') <= 1, Len(segments') <= Len(U),
             \A t \in 1 .. Len(segments') : segments'[t] = U[t],
             ObjectBytes(segments') + ObjectBytes(compactee') = ObjectBytes(U)
      PROVE  Memory'
    <2>1. Counted'
        <3>1. ObjectBytes(segments') \in Nat /\ ObjectBytes(compactee') \in Nat
            BY <1>9, SharesFinite DEF Exact
        <3>2. largeBytes' = UnitsOf(jumbo', DOMAIN jumbo') * SegmentSize
            BY <1>6, <1>7 DEF Memory, Counted
        <3>3. allocatedBytes = ObjectBytes(segments) + largeBytes
            BY <1>5, <1>8 DEF Memory, Counted
        <3>4. allocatedBytes' =
                 ObjectBytes(segments') + ObjectBytes(compactee') + largeBytes'
            BY <1>3, <1>7, <1>8, <1>9, <3>1, <3>3
        <3> QED
            BY <3>2, <3>4 DEF Counted
    <2>2. Len(segments') \in Nat /\ Len(U) \in Nat
        BY <1>3, <1>9, SegmentsAre DEF Exact
    <2>3. Unswept'
        <3> SUFFICES ASSUME NEW t \in 1 .. segNumber', NEW a \in FreeOffsets(segments'[t])
                     PROVE  ~segments'[t][a].marked
            BY DEF Unswept
        <3>1. t \in 1 .. Len(segments') /\ t \in 1 .. Len(U)
            BY <1>7, <1>9, <2>2
        <3> QED
            BY <1>4, <1>9, <3>1
    <2>4. segNumber' \in 0 .. Len(segments')
        BY <1>7, <2>2
    <2> QED
        BY <1>6, <1>9, <2>1, <2>3, <2>4 DEF Memory
<1>10. CASE ~compact
    <2>1. segments' = U /\ UNCHANGED <<freelist, allocChunk, compactee>>
        BY <1>10 DEF StartCollection, U
    <2>2. Len(segments') <= Len(U)
        BY <1>1, <1>3, <2>1
    <2>3. ObjectBytes(segments') + ObjectBytes(compactee') = ObjectBytes(U)
        BY <1>3, <1>5, <1>8, <2>1
    <2>4. Exact(segments', freelist', allocChunk') /\ AllTidy(compactee')
          /\ Len(compactee') <= 1
        BY <1>3, <2>1 DEF Memory
    <2> QED
        BY <1>9, <2>1, <2>2, <2>3, <2>4
<1>11. CASE compact
    <2>1. /\ segments' = Front(U) /\ compactee' = <<Last(U)>>
          /\ freelist' = [SetBits(Unlink(freelist, Len(segments)))
                             EXCEPT !.cells = Front(@)]
          /\ allocChunk' = ChunkOutside(allocChunk, Len(segments))
          /\ Len(segments) > 1
        BY <1>11 DEF StartCollection, PopSegment, ChunkOutside, U
    <2>2. Len(U) # 0 /\ Len(U) \in Nat
        BY <1>1, <1>3, <2>1
    <2>3. /\ AllTidy(Front(U)) /\ Len(Front(U)) = Len(U) - 1
          /\ \A t \in 1 .. Len(U) - 1 : Front(U)[t] = U[t]
          /\ AllTidy(<<Last(U)>>)
          /\ ObjectBytes(U) = ObjectBytes(Front(U)) + ObjectBytes(<<Last(U)>>)
        BY <1>3, <2>2, SegmentPopped
    <2>4. Exact(segments', freelist', allocChunk')
        <3>1. Exact(Front(U), [SetBits(Unlink(freelist, Len(U))) EXCEPT !.cells = Front(@)],
                    ChunkOutside(allocChunk, Len(U)))
            BY <1>3, <2>2, ExactPopped
        <3> QED
            BY <1>3, <2>1, <3>1
    <2>5. Len(segments') <= Len(U) /\ Len(compactee') <= 1
        BY <2>1, <2>2, <2>3
    <2>6. \A t \in 1 .. Len(segments') : segments'[t] = U[t]
        BY <2>1, <2>3
    <2>7. ObjectBytes(segments') + ObjectBytes(compactee') = ObjectBytes(U)
        BY <2>1, <2>3
    <2> QED
        BY <1>9, <2>1, <2>3, <2>4, <2>5, <2>6, <2>7
<1> QED
    BY <1>10, <1>11

(* What the end of marking does to a cell, or to a jumbo segment.             *)
Marked(c, found) == [c EXCEPT !.marked = @ \/ found]

\* Marking only sets marks.
LEMMA MarkedIs ==
    ASSUME NEW found \in BOOLEAN, NEW c, c \in Cell \/ c \in JumboSegment,
           c.fresh => c.marked
    PROVE  /\ c \in Cell => /\ Marked(c, found) \in Cell
                            /\ Marked(c, found).size = c.size
                            /\ Marked(c, found).free = c.free
           /\ c \in JumboSegment => /\ Marked(c, found) \in JumboSegment
                                    /\ Marked(c, found).units = c.units
           /\ Marked(c, found).fresh => Marked(c, found).marked
           /\ c.marked => Marked(c, found) = c
           /\ ~found => Marked(c, found).marked = c.marked
<1>1. CASE found
    <2>1. Marked(c, found) = [c EXCEPT !.marked = TRUE]
        BY <1>1 DEF Marked
    <2>2. CASE c \in Cell
        BY <1>1, <2>1, <2>2 DEF Cell, JumboSegment
    <2>3. CASE c \in JumboSegment
        BY <1>1, <2>1, <2>3 DEF Cell, JumboSegment
    <2> QED
        BY <2>2, <2>3
<1>2. CASE ~found
    <2>1. Marked(c, found) = c
        BY <1>2 DEF Marked, Cell, JumboSegment
    <2> QED
        BY <1>2, <2>1
<1> QED
    BY <1>1, <1>2

\* The end of marking.
LEMMA CompleteMarkingKeeps ==
    ASSUME Memory, CompleteMarking
    PROVE  Memory' /\ FreshKept
<1>1. /\ AllTidy(segments) /\ Exact(segments, freelist, allocChunk)
      /\ DOMAIN segments = 1 .. Len(segments) /\ Len(segments) \in Nat
    BY SegmentsAre DEF Memory, Exact
<1> DEFINE all == UNION {{s} \X Objects(segments[s]) : s \in DOMAIN segments}
<1>2. PICK live \in SUBSET all, liveJumbo \in SUBSET DOMAIN jumbo :
         /\ segments' = [s \in DOMAIN segments |-> [a \in DOMAIN segments[s] |->
                            Marked(segments[s][a], <<s, a>> \in live)]]
         /\ jumbo' = [i \in DOMAIN jumbo |-> Marked(jumbo[i], i \in liveJumbo)]
    BY DEF CompleteMarking, Marked
<1>3. UNCHANGED <<freelist, allocChunk, compactee, allocatedBytes, largeBytes, segNumber>>
    BY DEF CompleteMarking
<1>4. ASSUME NEW s \in DOMAIN segments, NEW a \in DOMAIN segments[s]
      PROVE  /\ segments'[s][a] \in Cell
             /\ segments'[s][a].size = segments[s][a].size
             /\ segments'[s][a].free = segments[s][a].free
             /\ segments'[s][a].fresh => segments'[s][a].marked
             /\ segments[s][a].marked => segments'[s][a] = segments[s][a]
             /\ segments[s][a].free => segments'[s][a].marked = segments[s][a].marked
    <2>1. segments[s][a] \in Cell /\ (segments[s][a].fresh => segments[s][a].marked)
        BY <1>1, <1>4, SegmentsAre DEF Tidy
    <2>2. segments'[s][a] = Marked(segments[s][a], <<s, a>> \in live)
        BY <1>2, <1>4
    <2>3. segments[s][a].free => <<s, a>> \notin live
        <3> SUFFICES ASSUME segments[s][a].free, <<s, a>> \in live
                     PROVE  FALSE
            OBVIOUS
        <3>1. PICK t \in DOMAIN segments : <<s, a>> \in {t} \X Objects(segments[t])
            BY <1>2
        <3>2. a \in Objects(segments[s])
            BY <3>1
        <3> QED
            BY <3>2 DEF Objects
    <2> DEFINE found == <<s, a>> \in live
               c == segments[s][a]
    <2>4. found \in BOOLEAN
        OBVIOUS
    <2> HIDE DEF found, c
    <2>5. /\ Marked(c, found) \in Cell
          /\ Marked(c, found).size = c.size
          /\ Marked(c, found).free = c.free
          /\ Marked(c, found).fresh => Marked(c, found).marked
          /\ c.marked => Marked(c, found) = c
          /\ ~found => Marked(c, found).marked = c.marked
        BY <2>1, <2>4, MarkedIs DEF c
    <2> QED
        BY <2>2, <2>3, <2>5 DEF found, c
<1>5. SameCells(segments, segments')
    <2>1. /\ DOMAIN segments' = DOMAIN segments
          /\ segments' = [s \in DOMAIN segments |-> segments'[s]]
        BY <1>2
    <2>2. ASSUME NEW s \in DOMAIN segments
          PROVE  segments'[s] \in [DOMAIN segments[s] -> Cell]
        <3>1. segments'[s] = [a \in DOMAIN segments[s] |->
                                 Marked(segments[s][a], <<s, a>> \in live)]
            BY <1>2
        <3>2. \A a \in DOMAIN segments[s] : segments'[s][a] \in Cell
            BY <1>4
        <3> QED
            BY <3>1, <3>2
    <2> QED
        BY <1>4, <2>1, <2>2 DEF SameCells
<1>6. /\ Exact(segments', freelist', allocChunk') /\ Len(segments') = Len(segments)
      /\ ObjectBytes(segments') = ObjectBytes(segments)
      /\ \A s \in 1 .. Len(segments) : FreeOffsets(segments'[s]) = FreeOffsets(segments[s])
    <2>1. Exact(segments', freelist, allocChunk)
        BY <1>1, <1>5, ExactSame
    <2>2. /\ Len(segments') = Len(segments)
          /\ ObjectBytes(segments') = ObjectBytes(segments)
          /\ \A s \in 1 .. Len(segments) :
                FreeOffsets(segments'[s]) = FreeOffsets(segments[s])
        BY <1>1, <1>5, SameCellsKept
    <2> QED
        BY <1>3, <2>1, <2>2
<1>7. /\ JumboIs(jumbo')
      /\ UnitsOf(jumbo', DOMAIN jumbo') = UnitsOf(jumbo, DOMAIN jumbo)
      /\ \A i \in DOMAIN jumbo : jumbo[i].fresh => i \in DOMAIN jumbo' /\ jumbo'[i] = jumbo[i]
    <2>1. JumboIs(jumbo) /\ \A i \in DOMAIN jumbo :
                               jumbo[i] \in JumboSegment /\ (jumbo[i].fresh => jumbo[i].marked)
        BY DEF Memory, JumboIs
    <2>2. DOMAIN jumbo' = DOMAIN jumbo /\ jumbo' = [i \in DOMAIN jumbo' |-> jumbo'[i]]
        BY <1>2
    <2>3. ASSUME NEW i \in DOMAIN jumbo
          PROVE  /\ jumbo'[i] \in JumboSegment /\ jumbo'[i].units = jumbo[i].units
                 /\ jumbo'[i].fresh => jumbo'[i].marked
                 /\ jumbo[i].marked => jumbo'[i] = jumbo[i]
        <3> DEFINE found == i \in liveJumbo
                   c == jumbo[i]
        <3>1. found \in BOOLEAN /\ c \in JumboSegment /\ (c.fresh => c.marked)
            BY <2>1
        <3>2. jumbo'[i] = Marked(c, found)
            BY <1>2, <2>3
        <3> HIDE DEF found, c
        <3>3. /\ Marked(c, found) \in JumboSegment
              /\ Marked(c, found).units = c.units
              /\ Marked(c, found).fresh => Marked(c, found).marked
              /\ c.marked => Marked(c, found) = c
            BY <3>1, MarkedIs
        <3> QED
            BY <3>2, <3>3 DEF c
    <2>4. /\ JumboIs(jumbo')
          /\ UnitsOf(jumbo', DOMAIN jumbo') = UnitsOf(jumbo, DOMAIN jumbo)
        BY <2>1, <2>2, <2>3, JumboSame
    <2> QED
        BY <2>1, <2>2, <2>3, <2>4
<1>8. Counted'
    BY <1>3, <1>6, <1>7 DEF Memory, Counted
<1>9. Unswept'
    <2> SUFFICES ASSUME NEW t \in 1 .. segNumber', NEW a \in FreeOffsets(segments'[t])
                 PROVE  ~segments'[t][a].marked
        BY DEF Unswept
    <2>1. t \in 1 .. segNumber /\ t \in 1 .. Len(segments)
        BY <1>1, <1>3 DEF Memory
    <2>2. a \in FreeOffsets(segments[t]) /\ a \in DOMAIN segments[t] /\ segments[t][a].free
        BY <1>6, <2>1, FreeAre
    <2>3. ~segments[t][a].marked
        BY <2>1, <2>2 DEF Memory, Unswept
    <2> QED
        BY <1>1, <1>4, <2>1, <2>2, <2>3
<1>10. Memory'
    <2>1. AllTidy(compactee') /\ Len(compactee') <= 1 /\ segNumber' \in 0 .. Len(segments')
        BY <1>3, <1>6 DEF Memory
    <2> QED
        BY <1>6, <1>7, <1>8, <1>9, <2>1 DEF Memory
<1>11. FreshKept
    <2>1. \A s \in DOMAIN segments : \A a \in Objects(segments[s]) :
             segments[s][a].fresh =>
                /\ s \in DOMAIN segments' /\ a \in DOMAIN segments'[s]
                /\ segments'[s][a] = segments[s][a]
        <3> SUFFICES ASSUME NEW s \in DOMAIN segments, NEW a \in Objects(segments[s]),
                            segments[s][a].fresh
                     PROVE  /\ s \in DOMAIN segments' /\ a \in DOMAIN segments'[s]
                            /\ segments'[s][a] = segments[s][a]
            OBVIOUS
        <3>1. a \in DOMAIN segments[s] /\ segments[s][a].marked
            BY <1>1, SegmentsAre DEF Objects, Tidy
        <3>2. s \in DOMAIN segments' /\ DOMAIN segments'[s] = DOMAIN segments[s]
            BY <1>5 DEF SameCells
        <3> QED
            BY <1>4, <3>1, <3>2
    <2> QED
        BY <1>7, <2>1 DEF FreshKept
<1> QED
    BY <1>10, <1>11

\* sweepNext on a segment: the objects without a mark are gone from it and
\* from the sum, and every other segment is what it was.
LEMMA SweepSegmentIs ==
    ASSUME Memory, NEW s \in 1 .. segNumber, SweepSegment(s)
    PROVE  /\ Exact(segments', freelist', allocChunk')
           /\ Len(segments') = Len(segments)
           /\ \A t \in 1 .. Len(segments) : t # s => segments'[t] = segments[t]
           /\ ObjectBytes(segments') = ObjectBytes(segments) - SweptBytes(segments[s])
           /\ SweptBytes(segments[s]) \in Nat
           /\ \A t \in DOMAIN segments : \A a \in Objects(segments[t]) :
                 segments[t][a].fresh =>
                    /\ t \in DOMAIN segments' /\ a \in DOMAIN segments'[t]
                    /\ segments'[t][a] = segments[t][a]
<1> DEFINE after == Swept(segments[s])
<1>1. /\ AllTidy(segments) /\ Exact(segments, freelist, allocChunk)
      /\ DOMAIN segments = 1 .. Len(segments) /\ Len(segments) \in Nat
    BY SegmentsAre DEF Memory, Exact
<1>2. s \in 1 .. Len(segments)
    BY <1>1 DEF Memory
<1>3. /\ segments' = [segments EXCEPT ![s] = after]
      /\ freelist' = Relinked(freelist, s, SweptLists(after))
      /\ allocChunk' = ChunkOutside(allocChunk, s)
    BY DEF SweepSegment, ChunkOutside
<1>4. Tidy(segments[s])
    BY <1>1, <1>2, SegmentsAre
<1>5. Exact(segments', freelist', allocChunk')
    <2>1. \A a \in FreeOffsets(segments[s]) : ~segments[s][a].marked
        BY DEF Memory, Unswept
    <2> QED
        BY <1>1, <1>2, <1>3, <2>1, ExactSwept
<1>6. /\ Tidy(after)
      /\ \A a \in DOMAIN segments[s] : segments[s][a].marked =>
            a \in DOMAIN after /\ after[a] = segments[s][a]
    BY <1>4, SweptEffect
<1>7. /\ SizeOf(segments[s], Objects(segments[s])) =
            SizeOf(after, Objects(after)) + SweptBytes(segments[s])
      /\ SweptBytes(segments[s]) \in Nat
    BY <1>4, SweptSize
<1> HIDE DEF after
<1>8. /\ Len(segments') = Len(segments) /\ DOMAIN segments' = DOMAIN segments
      /\ \A t \in 1 .. Len(segments) :
            segments'[t] = IF t = s THEN after ELSE segments[t]
      /\ ObjectBytes(segments') = ObjectBytes(segments)
            - SizeOf(segments[s], Objects(segments[s])) + SizeOf(after, Objects(after))
      /\ SizeOf(segments[s], Objects(segments[s])) \in Nat
      /\ SizeOf(after, Objects(after)) \in Nat
      /\ ObjectBytes(segments) \in Nat
    <2>1. LET new == [segments EXCEPT ![s] = after]
          IN  /\ AllTidy(new) /\ Len(new) = Len(segments) /\ DOMAIN new = DOMAIN segments
              /\ \A t \in 1 .. Len(segments) : new[t] = IF t = s THEN after ELSE segments[t]
              /\ ObjectBytes(new) = ObjectBytes(segments)
                    - SizeOf(segments[s], Objects(segments[s]))
                    + SizeOf(after, Objects(after))
              /\ SizeOf(segments[s], Objects(segments[s])) \in Nat
              /\ SizeOf(after, Objects(after)) \in Nat
              /\ ObjectBytes(segments) \in Nat /\ ObjectBytes(new) \in Nat
        BY <1>1, <1>2, <1>6, SegmentReplaced
    <2> QED
        BY <1>3, <2>1
<1>9. ObjectBytes(segments') = ObjectBytes(segments) - SweptBytes(segments[s])
    BY <1>7, <1>8
<1>10. ASSUME NEW t \in DOMAIN segments, NEW a \in Objects(segments[t]),
              segments[t][a].fresh
       PROVE  /\ t \in DOMAIN segments' /\ a \in DOMAIN segments'[t]
              /\ segments'[t][a] = segments[t][a]
    <2>1. a \in DOMAIN segments[t] /\ segments[t][a].marked
        BY <1>1, <1>10, SegmentsAre DEF Objects, Tidy
    <2>2. CASE t = s
        BY <1>1, <1>6, <1>8, <2>1, <2>2
    <2>3. CASE t # s
        BY <1>1, <1>8, <2>1, <2>3
    <2> QED
        BY <2>2, <2>3
<1> QED
    BY <1>5, <1>7, <1>8, <1>9, <1>10

\* endSweep frees the jumbo segments without a mark.
LEMMA EndSweepIs ==
    ASSUME Memory, EndSweep
    PROVE  /\ JumboIs(jumbo')
           /\ largeBytes' = UnitsOf(jumbo', DOMAIN jumbo') * SegmentSize
           /\ DeadJumboBytes \in Nat /\ DeadJumboBytes <= largeBytes
           /\ largeBytes' = largeBytes - DeadJumboBytes
           /\ UnitsOf(jumbo', DOMAIN jumbo') <= UnitsOf(jumbo, DOMAIN jumbo)
           /\ UnitsOf(jumbo', DOMAIN jumbo') \in Nat
           /\ \A i \in DOMAIN jumbo : jumbo[i].fresh =>
                 i \in DOMAIN jumbo' /\ jumbo'[i] = jumbo[i]
<1> DEFINE live == {i \in DOMAIN jumbo : jumbo[i].marked}
           dead == {i \in DOMAIN jumbo : ~jumbo[i].marked}
<1>1. JumboIs(jumbo)
    BY DEF Memory
<1>2. /\ jumbo' = Restrict(jumbo, live)
      /\ largeBytes' = largeBytes - UnitsOf(jumbo, dead) * SegmentSize
      /\ DeadJumboBytes = UnitsOf(jumbo, dead) * SegmentSize
    BY DEF EndSweep, DeadJumboBytes, JumboUnits, UnitsOf, UnitsIn
<1>3. dead = DOMAIN jumbo \ live /\ live \in SUBSET DOMAIN jumbo
    OBVIOUS
<1>4. ASSUME NEW i \in DOMAIN jumbo, jumbo[i].fresh
      PROVE  i \in live
    BY <1>1, <1>4 DEF JumboIs
<1> HIDE DEF live, dead
<1>5. /\ JumboIs(jumbo') /\ DOMAIN jumbo' = live
      /\ \A i \in live : jumbo'[i] = jumbo[i]
      /\ UnitsOf(jumbo, DOMAIN jumbo) = UnitsOf(jumbo', DOMAIN jumbo') + UnitsOf(jumbo, dead)
    <2>1. LET new == Restrict(jumbo, live)
          IN  /\ JumboIs(new) /\ DOMAIN new = live
              /\ \A i \in live : new[i] = jumbo[i]
              /\ UnitsOf(jumbo, DOMAIN jumbo) =
                    UnitsOf(new, DOMAIN new) + UnitsOf(jumbo, DOMAIN jumbo \ live)
        BY <1>1, <1>3, JumboKept
    <2> QED
        BY <1>2, <1>3, <2>1
<1> DEFINE before == UnitsOf(jumbo, DOMAIN jumbo)
           left == UnitsOf(jumbo', DOMAIN jumbo')
           gone == UnitsOf(jumbo, dead)
<1>6. before \in Nat /\ left \in Nat /\ gone \in Nat /\ SegmentSize \in Nat
    <2>1. before \in Nat /\ gone \in Nat
        BY <1>1, <1>3, UnitsFinite
    <2>2. left \in Nat
        BY <1>5, UnitsFinite
    <2> QED
        BY <2>1, <2>2, SizesAssumption
<1>7. largeBytes = before * SegmentSize /\ before = left + gone
    BY <1>5 DEF Memory, Counted
<1>8. /\ largeBytes' = largeBytes - gone * SegmentSize
      /\ DeadJumboBytes = gone * SegmentSize
    BY <1>2
<1> HIDE DEF before, left, gone
<1>9. (left + gone) * SegmentSize = left * SegmentSize + gone * SegmentSize
    BY <1>6
<1>10. left * SegmentSize \in Nat /\ gone * SegmentSize \in Nat
    BY <1>6
<1>11. /\ largeBytes' = left * SegmentSize /\ DeadJumboBytes \in Nat
       /\ DeadJumboBytes <= largeBytes /\ left <= before
       /\ largeBytes' = largeBytes - DeadJumboBytes
    BY <1>6, <1>7, <1>8, <1>9, <1>10
<1> QED
    BY <1>4, <1>5, <1>6, <1>11 DEF before, left

\* A step of the sweep: a segment, and after the last one the jumbo segments.
LEMMA SweepNextKeeps ==
    ASSUME Memory, SweepNext
    PROVE  Memory' /\ FreshKept
<1> DEFINE swept == IF segNumber = 0 THEN 0 ELSE SweptBytes(segments[segNumber])
<1>1. /\ segNumber \in Nat /\ segNumber \in 0 .. Len(segments) /\ Len(segments) \in Nat
      /\ DOMAIN segments = 1 .. Len(segments)
    <2>1. AllTidy(segments)
        BY DEF Memory, Exact
    <2> QED
        BY <2>1, SegmentsAre DEF Memory
<1>2. /\ compactee' = compactee
      /\ segNumber' = IF segNumber = 0 THEN 0 ELSE segNumber - 1
      /\ segNumber = 0 => UNCHANGED <<segments, freelist, allocChunk>>
      /\ segNumber # 0 => SweepSegment(segNumber)
      /\ segNumber <= 1 => /\ EndSweep
                           /\ allocatedBytes' = allocatedBytes - swept - DeadJumboBytes
      /\ segNumber > 1 => /\ allocatedBytes' = allocatedBytes - swept
                          /\ UNCHANGED <<jumbo, largeBytes>>
    BY <1>1 DEF SweepNext
<1>3. /\ Exact(segments', freelist', allocChunk')
      /\ Len(segments') = Len(segments)
      /\ \A t \in 1 .. Len(segments) : t # segNumber => segments'[t] = segments[t]
      /\ ObjectBytes(segments') = ObjectBytes(segments) - swept
      /\ swept \in Nat
      /\ \A t \in DOMAIN segments : \A a \in Objects(segments[t]) :
            segments[t][a].fresh =>
               /\ t \in DOMAIN segments' /\ a \in DOMAIN segments'[t]
               /\ segments'[t][a] = segments[t][a]
    <2>1. CASE segNumber = 0
        <3>1. ObjectBytes(segments) \in Nat
            BY SumsAre
        <3>2. ObjectBytes(segments') = ObjectBytes(segments) - swept /\ swept \in Nat
            BY <1>2, <2>1, <3>1
        <3>3. Exact(segments', freelist', allocChunk')
            BY <1>2, <2>1 DEF Memory
        <3> QED
            BY <1>2, <2>1, <3>2, <3>3 DEF Objects
    <2>2. CASE segNumber # 0
        <3>1. segNumber \in 1 .. segNumber
            BY <1>1, <2>2
        <3>2. SweepSegment(segNumber) /\ swept = SweptBytes(segments[segNumber])
            BY <1>2, <2>2
        <3> HIDE DEF swept
        <3> QED
            BY <3>1, <3>2, SweepSegmentIs
    <2> QED
        BY <2>1, <2>2
<1> HIDE DEF swept
<1>4. /\ ObjectBytes(segments) \in Nat /\ ObjectBytes(compactee) \in Nat
      /\ largeBytes \in Nat
      /\ allocatedBytes = ObjectBytes(segments) + ObjectBytes(compactee) + largeBytes
      /\ largeBytes = UnitsOf(jumbo, DOMAIN jumbo) * SegmentSize
    BY SumsAre DEF Memory, Counted
<1>5. /\ JumboIs(jumbo')
      /\ largeBytes' = UnitsOf(jumbo', DOMAIN jumbo') * SegmentSize
      /\ allocatedBytes' = ObjectBytes(segments') + ObjectBytes(compactee') + largeBytes'
      /\ \A i \in DOMAIN jumbo : jumbo[i].fresh =>
            i \in DOMAIN jumbo' /\ jumbo'[i] = jumbo[i]
    <2>1. CASE segNumber <= 1
        <3>1. EndSweep
            BY <1>2, <2>1
        <3>2. /\ JumboIs(jumbo')
              /\ largeBytes' = UnitsOf(jumbo', DOMAIN jumbo') * SegmentSize
              /\ DeadJumboBytes \in Nat /\ largeBytes' = largeBytes - DeadJumboBytes
              /\ \A i \in DOMAIN jumbo : jumbo[i].fresh =>
                    i \in DOMAIN jumbo' /\ jumbo'[i] = jumbo[i]
            BY <3>1, EndSweepIs
        <3>3. allocatedBytes' =
                 ObjectBytes(segments') + ObjectBytes(compactee') + largeBytes'
            BY <1>2, <1>3, <1>4, <2>1, <3>2
        <3> QED
            BY <3>2, <3>3
    <2>2. CASE segNumber > 1
        <3>1. jumbo' = jumbo /\ largeBytes' = largeBytes
            BY <1>2, <2>2
        <3>2. allocatedBytes' =
                 ObjectBytes(segments') + ObjectBytes(compactee') + largeBytes'
            BY <1>2, <1>3, <1>4, <2>2
        <3>3. JumboIs(jumbo') /\ largeBytes' = UnitsOf(jumbo', DOMAIN jumbo') * SegmentSize
            BY <1>4, <3>1 DEF Memory
        <3> QED
            BY <3>1, <3>2, <3>3
    <2> QED
        BY <1>1, <2>1, <2>2
<1>6. Unswept'
    <2> SUFFICES ASSUME NEW t \in 1 .. segNumber', NEW a \in FreeOffsets(segments'[t])
                 PROVE  ~segments'[t][a].marked
        BY DEF Unswept
    <2>1. t \in 1 .. segNumber /\ t \in 1 .. Len(segments) /\ t # segNumber
        BY <1>1, <1>2
    <2>2. segments'[t] = segments[t]
        BY <1>3, <2>1
    <2> QED
        BY <2>1, <2>2 DEF Memory, Unswept
<1>7. segNumber' \in 0 .. Len(segments')
    BY <1>1, <1>2, <1>3
<1>8. Memory'
    BY <1>2, <1>3, <1>5, <1>6, <1>7 DEF Memory, Counted
<1>9. FreshKept
    BY <1>3, <1>5 DEF FreshKept
<1> QED
    BY <1>8, <1>9

\* The evacuated segment is given back.
LEMMA FinalizeCompacteeKeeps ==
    ASSUME Memory, FinalizeCompactee
    PROVE  Memory' /\ FreshKept
<1>1. /\ compactee # <<>> /\ compactee' = <<>>
      /\ allocatedBytes' = allocatedBytes - SizeOf(compactee[1], Objects(compactee[1]))
      /\ UNCHANGED <<segments, freelist, allocChunk, jumbo, largeBytes, segNumber>>
    BY DEF FinalizeCompactee
<1>2. /\ AllTidy(compactee) /\ DOMAIN compactee = 1 .. Len(compactee)
      /\ Len(compactee) <= 1 /\ Len(compactee) \in Nat
    BY SegmentsAre DEF Memory
<1>3. DOMAIN compactee = {1}
    <2>1. Len(compactee) # 0
        <3>1. compactee \in Seq(Segment)
            BY <1>2 DEF AllTidy
        <3> QED
            BY <1>1, <3>1
    <2>2. Len(compactee) = 1
        BY <1>2, <2>1
    <2> QED
        BY <1>2, <2>2
<1>4. ObjectBytes(compactee) =
         ObjectBytes(<<>>) + SizeOf(compactee[1], Objects(compactee[1]))
    <2>1. 1 \in DOMAIN compactee /\ DOMAIN <<>> = DOMAIN compactee \ {1}
        BY <1>3
    <2> DEFINE none == <<>>
    <2>2. AllTidy(none) /\ DOMAIN none = DOMAIN compactee \ {1}
          /\ \A t \in DOMAIN none : compactee[t] = none[t]
        BY <1>3, NoBytes
    <2> HIDE DEF none
    <2>3. ObjectBytes(compactee) =
             ObjectBytes(none) + SizeOf(compactee[1], Objects(compactee[1]))
        BY <1>2, <2>1, <2>2, BytesAppended
    <2> QED
        BY <2>3 DEF none
<1>5. /\ ObjectBytes(segments) \in Nat /\ ObjectBytes(compactee) \in Nat
      /\ largeBytes \in Nat
      /\ allocatedBytes = ObjectBytes(segments) + ObjectBytes(compactee) + largeBytes
      /\ largeBytes = UnitsOf(jumbo, DOMAIN jumbo) * SegmentSize
    BY SumsAre DEF Memory, Counted
<1>6. /\ AllTidy(compactee') /\ Len(compactee') <= 1 /\ ObjectBytes(compactee') = 0
    BY <1>1, NoBytes
<1>7. SizeOf(compactee[1], Objects(compactee[1])) = ObjectBytes(compactee)
    <2>1. SizeOf(compactee[1], Objects(compactee[1])) \in Nat
        BY <1>2, <1>3, BytesSplit
    <2> QED
        BY <1>4, <2>1, NoBytes
<1>8. Counted'
    <2>1. allocatedBytes' = ObjectBytes(segments) + largeBytes
        BY <1>1, <1>5, <1>7
    <2>2. ObjectBytes(segments') = ObjectBytes(segments) /\ largeBytes' = largeBytes
        BY <1>1
    <2>3. allocatedBytes' = ObjectBytes(segments') + ObjectBytes(compactee') + largeBytes'
        BY <1>5, <1>6, <2>1, <2>2
    <2>4. largeBytes' = UnitsOf(jumbo', DOMAIN jumbo') * SegmentSize
        BY <1>1, <1>5
    <2> QED
        BY <2>3, <2>4 DEF Counted
<1>9. Unswept'
    BY <1>1 DEF Memory, Unswept
<1>10. Memory'
    BY <1>1, <1>6, <1>8, <1>9 DEF Memory
<1>11. FreshKept
    BY <1>1 DEF FreshKept, Objects
<1> QED
    BY <1>10, <1>11

\* allocSlow and allocLarge, whichever way they take.
LEMMA TakeSlowKeeps ==
    ASSUME Memory, NEW sz \in AllocSizes, TakeSlow(sz), segNumber' = segNumber
    PROVE  Memory' /\ FreshKept
<1>1. sz \in Nat /\ SegmentSize \in Nat
    BY SizesAssumption
<1>2. CASE sz > SegmentSize
    <2>1. TakeJumboSegment(sz)
        BY <1>2 DEF TakeSlow
    <2> QED
        BY <2>1, TakeJumboSegmentKeeps
<1>3. CASE ~(sz > SegmentSize)
    <2>1. sz <= SegmentSize
        BY <1>1, <1>3
    <2>2. TakeFreeCell(sz) \/ TakeNewSegment(sz)
        BY <1>3 DEF TakeSlow
    <2> QED
        BY <2>1, <2>2, TakeFreeCellKeeps, TakeNewSegmentKeeps
<1> QED
    BY <1>2, <1>3

\* A step of the allocator that touches no cell, no list and no counter.
LEMMA MemoryUntouched ==
    ASSUME Memory, UNCHANGED <<segments, freelist, allocChunk, jumbo, compactee,
                               allocatedBytes, largeBytes, segNumber>>
    PROVE  Memory' /\ FreshKept
<1>1. Counted'
    BY DEF Memory, Counted
<1>2. Unswept'
    BY DEF Memory, Unswept
<1>3. Memory'
    BY <1>1, <1>2 DEF Memory
<1>4. FreshKept
    BY DEF FreshKept, Objects
<1> QED
    BY <1>3, <1>4

(* A request that waits is one that the chunk could not serve, and nobody     *)
(* gives the chunk another size while it does.                                *)
Requests ==
    /\ phase \in {"none", "mark", "sweep", "oom"}
    /\ request \in AllocSizes \cup {0}
    /\ request # 0 /\ request <= SegmentSize => ~ChunkServes(request)

Inv == Memory /\ Requests

\* The chunk of a waiting request is neither replaced nor resized by a step of
\* the collection.
LEMMA RequestsWait ==
    ASSUME Inv, request' = request, phase' \in {"none", "mark", "sweep", "oom"},
           \/ allocChunk' = None
           \/ /\ allocChunk' = allocChunk
              /\ \A s \in 1 .. Len(segments) : \A a \in FreeOffsets(segments[s]) :
                    allocChunk = <<s, a>> => segments'[s][a].size = segments[s][a].size
    PROVE  Requests'
<1> SUFFICES ASSUME request # 0, request <= SegmentSize, ChunkServes(request)'
             PROVE  FALSE
    BY DEF Inv, Requests
<1>1. /\ allocChunk' = allocChunk /\ allocChunk # None
      /\ segments'[allocChunk[1]][allocChunk[2]].size >= request + MinSize
    BY DEF ChunkServes
<1>2. PICK s \in 1 .. Len(segments) :
          \E a \in FreeOffsets(segments[s]) : allocChunk = <<s, a>>
    BY <1>1 DEF Inv, Memory, Exact, ChunkIn
<1>3. PICK a \in FreeOffsets(segments[s]) : allocChunk = <<s, a>>
    BY <1>2
<1>4. segments'[s][a].size = segments[s][a].size
    BY <1>1, <1>3
<1>5. segments[s][a].size >= request + MinSize
    BY <1>1, <1>3, <1>4
<1>6. ChunkServes(request)
    BY <1>1, <1>3, <1>5 DEF ChunkServes
<1> QED
    BY <1>6 DEF Inv, Requests

\* Every action keeps the invariant, and an action that does not start a
\* collection keeps the objects that are fresh.
LEMMA InvKept ==
    ASSUME Inv, Next
    PROVE  Inv' /\ (phase # "none" => FreshKept)
<1> USE DEF Inv
<1>1. ASSUME NEW sz \in AllocSizes, AllocFromChunk(sz)
      PROVE  Inv' /\ FreshKept
    <2>1. Memory' /\ FreshKept
        BY <1>1, AllocFromChunkKeeps
    <2>2. request = 0 /\ request' = request /\ phase' = phase
        BY <1>1 DEF AllocFromChunk
    <2> QED
        BY <2>1, <2>2 DEF Requests
<1>2. ASSUME NEW sz \in AllocSizes, AllocSlow(sz)
      PROVE  Inv' /\ FreshKept
    <2>1. Memory' /\ FreshKept
        BY <1>2, TakeSlowKeeps DEF AllocSlow
    <2>2. request = 0 /\ request' = request /\ phase' = phase
        BY <1>2 DEF AllocSlow
    <2> QED
        BY <2>1, <2>2 DEF Requests
<1>3. ASSUME NEW sz \in AllocSizes, WaitForCollection(sz)
      PROVE  Inv' /\ FreshKept
    <2>1. /\ UNCHANGED <<segments, freelist, allocChunk, jumbo, compactee,
                         allocatedBytes, largeBytes, segNumber, phase>>
          /\ request' = sz /\ (sz <= SegmentSize => ~ChunkServes(sz))
        BY <1>3 DEF WaitForCollection
    <2>2. Requests'
        BY <2>1 DEF Requests, ChunkServes
    <2> QED
        BY <2>1, <2>2, MemoryUntouched
<1>4. ASSUME AllocAfterWait
      PROVE  Inv' /\ FreshKept
    <2>1. /\ request # 0 /\ TakeSlow(request) /\ request' = 0
          /\ UNCHANGED <<phase, segNumber>>
        BY <1>4 DEF AllocAfterWait
    <2>2. request \in AllocSizes
        BY <2>1 DEF Requests
    <2>3. Memory' /\ FreshKept
        BY <2>1, <2>2, TakeSlowKeeps
    <2> QED
        BY <2>1, <2>3 DEF Requests
<1>5. ASSUME LargeAllocationFails
      PROVE  Inv' /\ FreshKept
    <2>1. /\ UNCHANGED <<segments, freelist, allocChunk, jumbo, compactee,
                         allocatedBytes, largeBytes, segNumber, phase>>
          /\ request' = 0
        BY <1>5 DEF LargeAllocationFails
    <2>2. Requests'
        BY <2>1 DEF Requests
    <2> QED
        BY <2>1, <2>2, MemoryUntouched
<1>6. ASSUME OutOfMemory
      PROVE  Inv' /\ FreshKept
    <2>1. /\ UNCHANGED <<segments, freelist, allocChunk, jumbo, compactee,
                         allocatedBytes, largeBytes, segNumber, request>>
          /\ phase' = "oom"
        BY <1>6 DEF OutOfMemory
    <2>2. Requests'
        BY <2>1, RequestsWait
    <2> QED
        BY <2>1, <2>2, MemoryUntouched
<1>7. ASSUME NEW compact \in BOOLEAN, StartCollection(compact)
      PROVE  Inv' /\ phase = "none"
    <2>1. request = 0 /\ request' = request /\ phase' = "mark" /\ phase = "none"
        BY <1>7 DEF StartCollection
    <2>2. Memory'
        BY <1>7, StartCollectionKeeps
    <2> QED
        BY <2>1, <2>2 DEF Requests
<1>8. ASSUME CompleteMarking
      PROVE  Inv' /\ FreshKept
    <2>1. /\ UNCHANGED <<allocChunk, request>> /\ phase' = "sweep"
        BY <1>8 DEF CompleteMarking
    <2>2. ASSUME NEW s \in 1 .. Len(segments), NEW a \in FreeOffsets(segments[s])
          PROVE  segments'[s][a].size = segments[s][a].size
        <3>1. AllTidy(segments)
            BY DEF Memory, Exact
        <3>2. /\ s \in DOMAIN segments /\ a \in DOMAIN segments[s]
              /\ segments[s][a] \in Cell
            BY <3>1, SegmentsAre, FreeAre
        <3>3. PICK live : segments' = [t \in DOMAIN segments |->
                 [o \in DOMAIN segments[t] |-> Marked(segments[t][o], <<t, o>> \in live)]]
            BY <1>8 DEF CompleteMarking, Marked
        <3>4. segments'[s][a] = Marked(segments[s][a], <<s, a>> \in live)
            BY <3>2, <3>3
        <3> QED
            BY <3>2, <3>4 DEF Marked, Cell
    <2>3. Requests'
        BY <2>1, <2>2, RequestsWait
    <2> QED
        BY <1>8, <2>3, CompleteMarkingKeeps
<1>9. ASSUME SweepNext
      PROVE  Inv' /\ FreshKept
    <2>1. request' = request /\ phase' \in {"none", "mark", "sweep", "oom"}
        BY <1>9 DEF SweepNext, EndSweep
    <2>2. Requests'
        <3>1. CASE segNumber = 0
            <4>1. UNCHANGED <<segments, allocChunk>>
                BY <1>9, <3>1 DEF SweepNext
            <4> QED
                BY <2>1, <4>1, RequestsWait
        <3>2. CASE segNumber # 0
            <4>1. SweepSegment(segNumber)
                BY <1>9, <3>2 DEF SweepNext
            <4>2. segNumber \in 1 .. segNumber
                <5>1. segNumber \in Nat
                    <6>1. AllTidy(segments)
                        BY DEF Memory, Exact
                    <6> QED
                        BY <6>1, SegmentsAre DEF Memory
                <5> QED
                    BY <3>2, <5>1
            <4>3. \A t \in 1 .. Len(segments) : t # segNumber => segments'[t] = segments[t]
                BY <4>1, <4>2, SweepSegmentIs
            <4>4. CASE allocChunk # None /\ allocChunk[1] = segNumber
                <5>1. allocChunk' = None
                    BY <4>1, <4>4 DEF SweepSegment
                <5> QED
                    BY <2>1, <5>1, RequestsWait
            <4>5. CASE ~(allocChunk # None /\ allocChunk[1] = segNumber)
                <5>1. allocChunk' = allocChunk
                    BY <4>1, <4>5 DEF SweepSegment
                <5>2. ASSUME NEW s \in 1 .. Len(segments),
                             NEW a \in FreeOffsets(segments[s]), allocChunk = <<s, a>>
                      PROVE  segments'[s][a].size = segments[s][a].size
                    <6>1. s # segNumber
                        BY <4>5, <5>2 DEF None
                    <6> QED
                        BY <4>3, <6>1
                <5> QED
                    BY <2>1, <5>1, <5>2, RequestsWait
            <4> QED
                BY <4>4, <4>5
        <3> QED
            BY <3>1, <3>2
    <2> QED
        BY <1>9, <2>2, SweepNextKeeps
<1>10. ASSUME FinalizeCompactee
       PROVE  Inv' /\ FreshKept
    <2>1. request = 0 /\ request' = request /\ phase' = phase
        BY <1>10 DEF FinalizeCompactee
    <2> QED
        BY <1>10, <2>1, FinalizeCompacteeKeeps DEF Requests
<1> QED
    BY <1>1, <1>2, <1>3, <1>4, <1>5, <1>6, <1>7, <1>8, <1>9, <1>10 DEF Next

\* There are no segments at first.
LEMMA InvInitially == Init => Inv
<1> SUFFICES ASSUME Init
             PROVE  Inv
    OBVIOUS
<1>1. /\ segments = <<>> /\ compactee = <<>> /\ jumbo = <<>> /\ allocChunk = None
      /\ freelist = [cells |-> <<>>, chain |-> [b \in Buckets |-> <<>>], bits |-> {}]
      /\ allocatedBytes = 0 /\ largeBytes = 0 /\ segNumber = 0 /\ request = 0
      /\ phase = "none"
    BY DEF Init
<1>2. AllTidy(segments) /\ ObjectBytes(segments) = 0 /\ Len(segments) = 0
      /\ AllTidy(compactee) /\ ObjectBytes(compactee) = 0 /\ Len(compactee) <= 1
    BY <1>1, NoBytes
<1>3. Exact(segments, freelist, allocChunk)
    <2>1. \A b \in Buckets : freelist.chain[b] = <<>> /\ freelist.chain[b] \in Seq(Nat)
        BY <1>1
    <2>2. freelist.cells = <<>> /\ freelist.bits = {}
        BY <1>1
    <2>3. \A b \in Buckets : NoDuplicates(freelist.chain[b]) /\ ToSet(freelist.chain[b]) = {}
        BY <2>1 DEF NoDuplicates, ToSet
    <2>4. ListsType(freelist, 0)
        <3> DEFINE chains == [b \in Buckets |-> <<>>]
                   rows == Seq([Buckets -> Seq(Nat)])
        <3>1. chains \in [Buckets -> Seq(Nat)]
            OBVIOUS
        <3>2. <<>> \in rows /\ Len(<<>>) = 0
            OBVIOUS
        <3>3. freelist = [cells |-> <<>>, chain |-> chains, bits |-> {}]
            BY <1>1
        <3> HIDE DEF chains, rows
        <3>4. freelist \in [cells : rows, chain : [Buckets -> Seq(Nat)],
                            bits : SUBSET Buckets]
            BY <3>1, <3>2, <3>3
        <3> QED
            BY <2>2, <3>2, <3>4 DEF ListsType, rows
    <2>5. Linked(freelist, 0)
        <3>1. 1 .. 0 = {}
            OBVIOUS
        <3>2. \A s \in 1 .. 0, b \in Buckets : NoDuplicates(freelist.cells[s][b])
            BY <3>1
        <3>3. \A b \in Buckets :
                 ToSet(freelist.chain[b]) = {s \in 1 .. 0 : freelist.cells[s][b] # <<>>}
            BY <2>3, <3>1, Zenon
        <3>4. freelist.bits = {b \in Buckets : freelist.chain[b] # <<>>}
            BY <2>1, <2>2
        <3> QED
            BY <2>3, <2>4, <3>2, <3>3, <3>4 DEF Linked
    <2> QED
        BY <1>1, <1>2, <2>5 DEF Exact, ChunkIn
<1>4. JumboIs(jumbo) /\ UnitsOf(jumbo, DOMAIN jumbo) = 0
    BY <1>1, NoJumbo
<1>5. Counted
    BY <1>1, <1>2, <1>4, SizesAssumption DEF Counted
<1>6. Unswept
    BY <1>1 DEF Unswept
<1>7. segNumber \in 0 .. Len(segments)
    BY <1>1, <1>2
<1> QED
    BY <1>1, <1>2, <1>3, <1>4, <1>5, <1>6, <1>7 DEF Inv, Memory, Requests

\* Every step keeps the invariant.
LEMMA InvStep == Inv /\ [Next]_vars => Inv'
<1> SUFFICES ASSUME Inv, [Next]_vars
             PROVE  Inv'
    OBVIOUS
<1>1. CASE Next
    BY <1>1, InvKept
<1>2. CASE UNCHANGED vars
    <2>1. Memory'
        BY <1>2, MemoryUntouched DEF vars, Inv
    <2>2. Requests'
        BY <1>2 DEF vars, Inv, Requests, ChunkServes
    <2> QED
        BY <2>1, <2>2 DEF Inv
<1> QED
    BY <1>1, <1>2

\* The invariant is one.
LEMMA InvHolds == Spec => []Inv
    BY InvInitially, InvStep, PTL DEF Spec

\* The lists, the chains, the bits and the chunk of Exact are those that
\* FreelistsExact speaks of.
LEMMA InvIsExact == Inv => FreelistsExact
<1> SUFFICES ASSUME Inv
             PROVE  FreelistsExact
    OBVIOUS
<1>1. /\ AllTidy(segments) /\ Linked(freelist, Len(segments))
      /\ DOMAIN segments = 1 .. Len(segments)
      /\ ChunkIn(segments, allocChunk)
    BY SegmentsAre DEF Inv, Memory, Exact
<1>2. TypeOK
    <2>1. ASSUME NEW s \in DOMAIN segments
          PROVE  Tiled(segments[s])
        BY <1>1, TidyIsTiled, SegmentsAre
    <2>2. ASSUME NEW i \in DOMAIN compactee
          PROVE  Tiled(compactee[i])
        BY TidyIsTiled DEF Inv, Memory, AllTidy
    <2>3. Len(freelist.cells) = Len(segments) /\ freelist.bits \subseteq Buckets
        BY <1>1, ListsAre DEF Linked
    <2>4. allocatedBytes \in Nat /\ largeBytes \in Nat
        BY SumsAre DEF Inv
    <2> QED
        BY <2>1, <2>2, <2>3, <2>4 DEF TypeOK, Inv, Memory, Requests
<1>3. ASSUME NEW s \in DOMAIN segments, NEW b \in Buckets
      PROVE  /\ NoDuplicates(freelist.cells[s][b])
             /\ ToSet(freelist.cells[s][b]) =
                  {a \in FreeOffsets(segments[s]) :
                       Bucket(segments[s][a].size) = b /\ <<s, a>> # allocChunk}
    <2>1. ToSet(freelist.cells[s][b]) = FreeIn(segments, allocChunk, s, b)
        BY <1>1, <1>3 DEF Inv, Memory, Exact
    <2> QED
        BY <1>1, <1>3, <2>1 DEF Linked, FreeIn
<1>4. /\ \A b \in Buckets :
             /\ NoDuplicates(freelist.chain[b])
             /\ ToSet(freelist.chain[b]) =
                  {s \in DOMAIN segments : freelist.cells[s][b] # <<>>}
      /\ freelist.bits = {b \in Buckets : freelist.chain[b] # <<>>}
    BY <1>1 DEF Linked
<1>5. ASSUME allocChunk # None
      PROVE  /\ allocChunk[1] \in DOMAIN segments
             /\ allocChunk[2] \in FreeOffsets(segments[allocChunk[1]])
    BY <1>1, <1>5 DEF ChunkIn
<1> QED
    BY <1>2, <1>3, <1>4, <1>5 DEF FreelistsExact

\* Every free cell but the chunk is once in the list of its segment and
\* bucket, and the lists, the chains and the bits agree, after any sequence of
\* allocations, collections and removals of segments (what verifyFreelists
\* checks in a debug build), for any sizes and number of buckets.
THEOREM FreelistsHold == Spec => []FreelistsExact
    BY InvHolds, InvIsExact, PTL

\* allocatedBytes_ is the sum of the sizes of all objects, whatever was carved,
\* swept, evacuated or freed: no decrement takes off more or less than what
\* went, so that none wraps.
THEOREM BytesHold == Spec => []BytesExact
<1>1. Inv => BytesExact
    BY DEF Inv, Memory, Counted, BytesExact, JumboUnits, UnitsOf, UnitsIn
<1> QED
    BY <1>1, InvHolds, PTL

\* An object that was allocated while the collection was going on is still
\* there, the same, after any step of that collection or of the mutator: it
\* carries a mark, and a cell with a mark is neither swept nor coalesced.
THEOREM FreshHold == Spec => FreshSurvive
<1>1. Inv /\ [Next]_vars => [phase # "none" => FreshKept]_vars
    BY InvKept
<1> QED
    BY <1>1, InvHolds, PTL DEF Spec, FreshSurvive

------------------------------------------------------------------------------
(* The limit of the heap.                                                     *)

(* No request needs a jumbo segment that is larger than the limit by more     *)
(* than one unit: with such a one, the unsigned subtraction of MaxHeapReached *)
(* wraps, and the limit is none.                                              *)
Addressable == \A sz \in AllocSizes : Units(sz) <= MaxHeapSize + 1

\* createSegmentImpl refuses what would pass the limit, when the difference
\* does not wrap.
LEMMA LimitIs ==
    ASSUME HeapFootprint \in Nat, NEW u \in 1 .. MaxHeapSize + 1
    PROVE  ~MaxHeapReached(u) <=> HeapFootprint + u <= MaxHeapSize
<1>1. MaxHeapSize \in Nat /\ SizeRange \in Nat /\ SizeRange > MaxHeapSize + 1
    BY SizesAssumption
<1> DEFINE left == MaxHeapSize - u + 1
<1>2. u \in Nat /\ left \in 0 .. MaxHeapSize /\ left \in Nat /\ left < SizeRange
    BY <1>1
<1>3. \A m \in Nat, n \in Nat : m < n => m % n = m
    OBVIOUS
<1>4. left % SizeRange = left
    BY <1>1, <1>2, <1>3
<1>5. MaxHeapReached(u) <=> HeapFootprint >= left
    BY <1>4 DEF MaxHeapReached
<1> QED
    BY <1>1, <1>2, <1>5

\* The parts of segmentFootprint.
LEMMA FootprintIs ==
    ASSUME Memory
    PROVE  /\ HeapFootprint =
                 1 + Len(segments) + Len(compactee) + UnitsOf(jumbo, DOMAIN jumbo)
           /\ Len(segments) \in Nat /\ Len(compactee) \in Nat /\ HeapFootprint \in Nat
           /\ UnitsOf(jumbo, DOMAIN jumbo) \in Nat
<1>1. HeapFootprint = 1 + Len(segments) + Len(compactee) + UnitsOf(jumbo, DOMAIN jumbo)
    BY DEF HeapFootprint, JumboUnits, UnitsOf, UnitsIn
<1>2. Len(segments) \in Nat /\ Len(compactee) \in Nat
    BY SegmentsAre DEF Memory, Exact
<1> QED
    BY <1>1, <1>2, SumsAre

\* A step after which there are not more segments, and not more bytes in large
\* ones, does not make the heap larger.
LEMMA FootprintKept ==
    ASSUME Memory, Memory', largeBytes' <= largeBytes,
           Len(segments') + Len(compactee') <= Len(segments) + Len(compactee),
           HeapFootprint <= MaxHeapSize
    PROVE  HeapFootprint' <= MaxHeapSize
<1> DEFINE before == UnitsOf(jumbo, DOMAIN jumbo)
           after == UnitsOf(jumbo', DOMAIN jumbo')
<1>1. /\ HeapFootprint = 1 + Len(segments) + Len(compactee) + before
      /\ Len(segments) \in Nat /\ Len(compactee) \in Nat
      /\ before \in Nat
    BY FootprintIs
<1>2. (Memory => /\ HeapFootprint =
                     1 + Len(segments) + Len(compactee) + UnitsOf(jumbo, DOMAIN jumbo)
                 /\ Len(segments) \in Nat /\ Len(compactee) \in Nat
                 /\ UnitsOf(jumbo, DOMAIN jumbo) \in Nat)'
    BY FootprintIs, PTL
<1>3. /\ HeapFootprint' = 1 + Len(segments') + Len(compactee') + after
      /\ Len(segments') \in Nat /\ Len(compactee') \in Nat /\ after \in Nat
    BY <1>2
<1>4. largeBytes = before * SegmentSize /\ largeBytes' = after * SegmentSize
    BY DEF Memory, Counted
<1>5. SegmentSize \in Nat /\ SegmentSize >= 1 /\ MaxHeapSize \in Nat
    BY SizesAssumption
<1> HIDE DEF before, after
<1>6. after <= before
    <2> SUFFICES ASSUME after >= before + 1
                 PROVE  FALSE
        BY <1>1, <1>3
    <2>1. \A m \in Nat, n \in Nat, k \in Nat : m >= n => m * k >= n * k
        <3>1. ASSUME NEW m \in Nat, NEW n \in Nat, NEW k \in Nat, m >= n
              PROVE  m * k >= n * k
            <4>1. m = n + (m - n) /\ m - n \in Nat
                BY <3>1
            <4>2. m * k = n * k + (m - n) * k /\ (m - n) * k \in Nat /\ n * k \in Nat
                BY <4>1
            <4> QED
                BY <4>2
        <3> QED
            BY <3>1
    <2>2. after * SegmentSize >= (before + 1) * SegmentSize
        BY <1>1, <1>3, <1>5, <2>1
    <2>3. (before + 1) * SegmentSize = before * SegmentSize + SegmentSize
        BY <1>1, <1>5
    <2>4. before * SegmentSize \in Nat /\ after * SegmentSize \in Nat
        BY <1>1, <1>3, <1>5
    <2> QED
        BY <1>4, <1>5, <2>2, <2>3, <2>4
<1> QED
    BY <1>1, <1>3, <1>5, <1>6

\* Neither sequence of segments has changed its length.
LEMMA SameLength ==
    ASSUME NEW segs, AllTidy(segs), NEW new, AllTidy(new), DOMAIN new = DOMAIN segs
    PROVE  Len(new) = Len(segs)
<1>1. /\ Len(segs) \in Nat /\ Len(new) \in Nat
      /\ DOMAIN segs = 1 .. Len(segs) /\ DOMAIN new = 1 .. Len(new)
    BY SegmentsAre
<1> DEFINE m == Len(segs)
           n == Len(new)
<1>2. m \in Nat /\ n \in Nat /\ 1 .. m = 1 .. n
    BY <1>1
<1> HIDE DEF m, n
<1>3. m = n
    BY <1>2
<1> QED
    BY <1>3 DEF m, n

\* A new segment, small or large, stays within the limit.
LEMMA TakeSlowLimited ==
    ASSUME Memory, Memory', Addressable, HeapFootprint <= MaxHeapSize,
           NEW sz \in AllocSizes, TakeSlow(sz)
    PROVE  HeapFootprint' <= MaxHeapSize
<1>1. /\ sz \in Nat /\ Units(sz) \in 1 .. MaxHeapSize + 1 /\ 1 \in 1 .. MaxHeapSize + 1
      /\ sz <= SegmentSize => Units(sz) = 1
    BY UnitsIs, SizesAssumption DEF Addressable
<1>2. /\ HeapFootprint = 1 + Len(segments) + Len(compactee) + UnitsOf(jumbo, DOMAIN jumbo)
      /\ HeapFootprint \in Nat /\ Len(segments) \in Nat /\ Len(compactee) \in Nat
      /\ UnitsOf(jumbo, DOMAIN jumbo) \in Nat
    BY FootprintIs
<1>3. (Memory => HeapFootprint =
                    1 + Len(segments) + Len(compactee) + UnitsOf(jumbo, DOMAIN jumbo))'
    BY FootprintIs, PTL
<1>4. HeapFootprint' =
         1 + Len(segments') + Len(compactee') + UnitsOf(jumbo', DOMAIN jumbo')
    BY <1>3
<1>5. AllTidy(segments) /\ AllTidy(segments')
    BY DEF Memory, Exact
<1>6. CASE TakeJumboSegment(sz)
    <2>1. ~MaxHeapReached(Units(sz))
        BY <1>6 DEF TakeJumboSegment
    <2>2. HeapFootprint + Units(sz) <= MaxHeapSize
        BY <1>1, <1>2, <2>1, LimitIs
    <2>3. UNCHANGED <<segments, compactee>>
        BY <1>6 DEF TakeJumboSegment
    <2>4. UnitsOf(jumbo', DOMAIN jumbo') = UnitsOf(jumbo, DOMAIN jumbo) + Units(sz)
        <3> DEFINE seg == [units |-> Units(sz), marked |-> TRUE, fresh |-> phase # "none"]
                   x == NewJumbo
        <3>1. seg \in JumboSegment /\ seg.marked /\ seg.units = Units(sz)
            BY UnitsIs DEF JumboSegment
        <3>2. jumbo' = [i \in DOMAIN jumbo \cup {x} |-> IF i = x THEN seg ELSE jumbo[i]]
            BY <1>6 DEF TakeJumboSegment
        <3>3. JumboIs(jumbo) /\ x \notin DOMAIN jumbo
            BY NewJumboIsNew DEF Memory
        <3> HIDE DEF seg, x
        <3>4. LET new == [i \in DOMAIN jumbo \cup {x} |-> IF i = x THEN seg ELSE jumbo[i]]
              IN  /\ JumboIs(new) /\ DOMAIN new = DOMAIN jumbo \cup {x}
                  /\ \A i \in DOMAIN jumbo : new[i] = jumbo[i]
                  /\ UnitsOf(new, DOMAIN new) = UnitsOf(jumbo, DOMAIN jumbo) + seg.units
            BY <3>1, <3>3, JumboAdded
        <3> QED
            BY <3>1, <3>2, <3>4
    <2>5. HeapFootprint' = HeapFootprint + Units(sz)
        BY <1>1, <1>2, <1>4, <2>3, <2>4
    <2> QED
        BY <2>2, <2>5
<1>7. CASE TakeFreeCell(sz)
    <2>1. DOMAIN segments' = DOMAIN segments /\ UNCHANGED <<jumbo, compactee>>
        BY <1>7 DEF TakeFreeCell
    <2>2. Len(segments') = Len(segments)
        BY <1>5, <2>1, SameLength
    <2> QED
        BY <1>2, <1>4, <2>1, <2>2
<1>8. CASE TakeNewSegment(sz)
    <2>1. ~MaxHeapReached(1) /\ UNCHANGED <<jumbo, compactee>>
        BY <1>8 DEF TakeNewSegment
    <2>2. HeapFootprint + 1 <= MaxHeapSize
        BY <1>1, <1>2, <2>1, LimitIs
    <2>3. PICK seg : segments' = Append(segments, seg)
        BY <1>8 DEF TakeNewSegment
    <2>4. Len(segments') = Len(segments) + 1
        BY <1>5, <2>3 DEF AllTidy
    <2> QED
        BY <1>2, <1>4, <2>1, <2>2, <2>4
<1> QED
    BY <1>6, <1>7, <1>8 DEF TakeSlow

\* The heap stays within its limit.
LEMMA LimitKept ==
    ASSUME Inv, Inv', Addressable, HeapFootprint <= MaxHeapSize, Next
    PROVE  HeapFootprint' <= MaxHeapSize
<1>1. /\ Memory /\ Memory' /\ AllTidy(segments) /\ AllTidy(segments')
      /\ Len(segments) \in Nat /\ Len(compactee) \in Nat /\ largeBytes \in Nat
    BY FootprintIs, SumsAre DEF Inv, Memory, Exact
<1>2. ASSUME UNCHANGED <<compactee, largeBytes>>, DOMAIN segments' = DOMAIN segments
      PROVE  HeapFootprint' <= MaxHeapSize
    <2>1. Len(segments') = Len(segments)
        BY <1>1, <1>2, SameLength
    <2>2. /\ Len(segments') + Len(compactee') <= Len(segments) + Len(compactee)
          /\ largeBytes' <= largeBytes
        BY <1>1, <1>2, <2>1
    <2> QED
        BY <1>1, <2>2, FootprintKept
<1>3. ASSUME NEW sz \in AllocSizes, AllocFromChunk(sz)
      PROVE  HeapFootprint' <= MaxHeapSize
    BY <1>2, <1>3 DEF AllocFromChunk
<1>4. ASSUME NEW sz \in AllocSizes, AllocSlow(sz)
      PROVE  HeapFootprint' <= MaxHeapSize
    BY <1>1, <1>4, TakeSlowLimited DEF AllocSlow
<1>5. ASSUME NEW sz \in AllocSizes, WaitForCollection(sz)
      PROVE  HeapFootprint' <= MaxHeapSize
    BY <1>2, <1>5 DEF WaitForCollection
<1>6. ASSUME AllocAfterWait
      PROVE  HeapFootprint' <= MaxHeapSize
    <2>1. request \in AllocSizes /\ TakeSlow(request)
        BY <1>6 DEF AllocAfterWait, Inv, Requests
    <2> QED
        BY <1>1, <2>1, TakeSlowLimited
<1>7. ASSUME LargeAllocationFails \/ OutOfMemory
      PROVE  HeapFootprint' <= MaxHeapSize
    BY <1>2, <1>7 DEF LargeAllocationFails, OutOfMemory
<1>8. ASSUME NEW compact \in BOOLEAN, StartCollection(compact)
      PROVE  HeapFootprint' <= MaxHeapSize
    <2>1. largeBytes' <= largeBytes /\ compactee = <<>>
        BY <1>1, <1>8 DEF StartCollection
    <2>2. SameCells(segments, UnmarkedSegments)
        BY <1>1, UnmarkedIs
    <2>3. AllTidy(UnmarkedSegments) /\ Len(UnmarkedSegments) = Len(segments)
        BY <1>1, <2>2, SameCellsKept
    <2>4. Len(segments') + Len(compactee') <= Len(segments) + Len(compactee)
        <3>1. CASE compact
            <4>1. /\ segments' = Front(UnmarkedSegments)
                  /\ compactee' = <<Last(UnmarkedSegments)>> /\ Len(segments) > 1
                BY <1>8, <3>1 DEF StartCollection, PopSegment
            <4>2. Len(segments') = Len(segments) - 1
                BY <1>1, <2>3, <4>1, SegmentPopped
            <4>3. Len(compactee') = 1 /\ Len(compactee) = 0
                BY <2>1, <4>1
            <4> QED
                BY <1>1, <4>2, <4>3
        <3>2. CASE ~compact
            <4>1. segments' = UnmarkedSegments /\ compactee' = compactee
                BY <1>8, <3>2 DEF StartCollection
            <4> QED
                BY <1>1, <2>3, <4>1
        <3> QED
            BY <3>1, <3>2
    <2> QED
        BY <1>1, <2>1, <2>4, FootprintKept
<1>9. ASSUME CompleteMarking
      PROVE  HeapFootprint' <= MaxHeapSize
    <2>1. UNCHANGED <<compactee, largeBytes>> /\ DOMAIN segments' = DOMAIN segments
        BY <1>9 DEF CompleteMarking
    <2> QED
        BY <1>2, <2>1
<1>10. ASSUME SweepNext
       PROVE  HeapFootprint' <= MaxHeapSize
    <2>1. DOMAIN segments' = DOMAIN segments /\ compactee' = compactee
        BY <1>10 DEF SweepNext, SweepSegment
    <2>2. largeBytes' <= largeBytes
        <3>1. CASE segNumber <= 1
            <4>1. EndSweep
                BY <1>10, <3>1 DEF SweepNext
            <4>2. DeadJumboBytes \in Nat /\ largeBytes' = largeBytes - DeadJumboBytes
                BY <1>1, <4>1, EndSweepIs
            <4> QED
                BY <1>1, <4>2
        <3>2. CASE ~(segNumber <= 1)
            <4>1. largeBytes' = largeBytes
                BY <1>10, <3>2 DEF SweepNext
            <4> QED
                BY <1>1, <4>1
        <3> QED
            BY <3>1, <3>2
    <2>3. Len(segments') = Len(segments)
        BY <1>1, <2>1, SameLength
    <2>4. Len(segments') + Len(compactee') <= Len(segments) + Len(compactee)
        BY <1>1, <2>1, <2>3
    <2> QED
        BY <1>1, <2>2, <2>4, FootprintKept
<1>11. ASSUME FinalizeCompactee
       PROVE  HeapFootprint' <= MaxHeapSize
    <2>1. /\ compactee' = <<>> /\ UNCHANGED <<segments, largeBytes>>
        BY <1>11 DEF FinalizeCompactee
    <2>2. Len(compactee') = 0
        BY <2>1
    <2>3. /\ Len(segments') + Len(compactee') <= Len(segments) + Len(compactee)
          /\ largeBytes' <= largeBytes
        BY <1>1, <2>1, <2>2
    <2> QED
        BY <1>1, <2>3, FootprintKept
<1> QED
    BY <1>3, <1>4, <1>5, <1>6, <1>7, <1>8, <1>9, <1>10, <1>11 DEF Next

(* What OutOfMemoryExact says of the request that the program died for.       *)
Starved ==
    /\ HeapFootprint + Units(request) > MaxHeapSize
    /\ request <= SegmentSize =>
         /\ ~ChunkServes(request)
         /\ \A s \in DOMAIN segments : \A a \in FreeOffsets(segments[s]) :
              <<s, a>> # allocChunk => ~Fits(segments[s][a].size, request)

\* The program dies when nothing is left that the request could have.
LEMMA DiesStarved ==
    ASSUME Inv, Addressable, OutOfMemory
    PROVE  Starved'
<1>1. request \in AllocSizes /\ ~CanTake(request)
    BY DEF OutOfMemory, Inv, Requests
<1>2. /\ request \in Nat /\ MinSize <= request /\ Units(request) \in 1 .. MaxHeapSize + 1
      /\ request <= SegmentSize => Units(request) = 1
      /\ SegmentSize \in Nat /\ MaxHeapSize \in Nat
    BY <1>1, UnitsIs, SizesAssumption DEF Addressable
<1>3. HeapFootprint \in Nat
    BY FootprintIs DEF Inv
<1>4. MaxHeapReached(Units(request))
    BY <1>1, <1>2 DEF CanTake
<1>5. HeapFootprint + Units(request) > MaxHeapSize
    BY <1>2, <1>3, <1>4, LimitIs
<1>6. ASSUME request <= SegmentSize
      PROVE  /\ ~ChunkServes(request)
             /\ \A s \in DOMAIN segments : \A a \in FreeOffsets(segments[s]) :
                  <<s, a>> # allocChunk => ~Fits(segments[s][a].size, request)
    <2>1. ~ChunkServes(request)
        BY <1>6 DEF Inv, Requests, OutOfMemory
    <2>2. Search(request) = None
        BY <1>1, <1>2, <1>6 DEF CanTake
    <2>3. Exact(segments, freelist, allocChunk) /\ DOMAIN segments = 1 .. Len(segments)
        BY SegmentsAre DEF Inv, Memory, Exact
    <2> QED
        BY <1>2, <2>1, <2>2, <2>3, SearchMisses
<1>7. Starved
    BY <1>5, <1>6 DEF Starved
<1> QED
    BY <1>7 DEF Starved, OutOfMemory, HeapFootprint, JumboUnits, ChunkServes

\* A dead program takes no step, so that it stays as it was when it died.
LEMMA OutOfMemoryKept ==
    ASSUME Inv, Addressable, OutOfMemoryExact, [Next]_vars
    PROVE  OutOfMemoryExact'
<1>1. CASE UNCHANGED vars
    BY <1>1 DEF vars, OutOfMemoryExact, HeapFootprint, JumboUnits, ChunkServes
<1>2. CASE Next
    <2>1. HeapFootprint' <= MaxHeapSize
        <3>1. Inv'
            BY <1>2, InvKept
        <3> QED
            BY <1>2, <3>1, LimitKept DEF OutOfMemoryExact
    <2>2. OutOfMemory \/ phase' # "oom"
        <3>1. phase' = phase => phase # "oom"
            BY <1>2 DEF Next, AllocFromChunk, AllocSlow, WaitForCollection,
                        AllocAfterWait, LargeAllocationFails, OutOfMemory,
                        StartCollection, CompleteMarking, SweepNext, FinalizeCompactee
        <3>2. phase' = phase \/ phase' \in {"mark", "sweep", "none"} \/ OutOfMemory
            BY <1>2 DEF Next, AllocFromChunk, AllocSlow, WaitForCollection,
                        AllocAfterWait, LargeAllocationFails, EndSweep,
                        StartCollection, CompleteMarking, SweepNext, FinalizeCompactee
        <3> QED
            BY <3>1, <3>2
    <2>3. OutOfMemory => Starved'
        BY DiesStarved
    <2> QED
        BY <2>1, <2>2, <2>3 DEF Starved, OutOfMemoryExact
<1> QED
    BY <1>1, <1>2

\* The heap stays within its limit, and the program dies for want of memory
\* only where the request would pass the limit, the chunk cannot serve it and no
\* free cell fits it: search misses none.  Without the hypothesis the first
\* allocation may pass the limit.
THEOREM OutOfMemoryHolds == ASSUME Addressable PROVE Spec => []OutOfMemoryExact
<1>1. Init => OutOfMemoryExact
    <2> SUFFICES ASSUME Init
                 PROVE  OutOfMemoryExact
        OBVIOUS
    <2>1. /\ Inv /\ segments = <<>> /\ compactee = <<>> /\ jumbo = <<>>
          /\ phase = "none"
        BY InvInitially DEF Init
    <2>2. HeapFootprint = 1
        <3>1. HeapFootprint =
                 1 + Len(segments) + Len(compactee) + UnitsOf(jumbo, DOMAIN jumbo)
            BY <2>1, FootprintIs DEF Inv
        <3>2. UnitsOf(jumbo, DOMAIN jumbo) = 0
            BY <2>1, NoJumbo
        <3> QED
            BY <2>1, <3>1, <3>2
    <2> QED
        BY <2>1, <2>2, SizesAssumption DEF OutOfMemoryExact
<1>2. Inv /\ OutOfMemoryExact /\ [Next]_vars => OutOfMemoryExact'
    BY OutOfMemoryKept
<1> QED
    BY <1>1, <1>2, InvHolds, PTL DEF Spec

==============================================================================
