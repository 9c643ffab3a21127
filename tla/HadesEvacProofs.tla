--------------------------- MODULE HadesEvacProofs ---------------------------
(* Proofs about HadesEvac, for any segments, sizes, roots and initial heaps.  *)
(*                                                                            *)
(* One inductive invariant, IInv, carries all of it.  Its heart is what an    *)
(* evacuation still has to do (Evacuation): a pointer to a cell that is to    *)
(* move is in a root not visited yet, on a dirty card not scanned yet, or in  *)
(* a copy on the copy list.  Because an allocation in the middle of this may  *)
(* complete the OG collection, what marking will have reached is known at all *)
(* times, too (Snapshot).                                                     *)
EXTENDS HadesEvac, WellFoundedInduction, SequenceTheorems, TLAPS

------------------------------------------------------------------------------
(* The inductive invariant.                                                   *)

\* Cells that a pointer may lead to: unmarked ones of the OG are garbage once
\* marking is over.
Live == {a \in allocated : InYoungGen(a) \/ ogMarkingBarriers \/ a \in marked}

Evacuating == pc \in {"roots", "cards", "compactee", "copy"}
AtRest     == pc \in {"mutator", "yield", "start"}

\* The types of the variables, those of the loops included.
Types ==
    /\ TypeOK
    /\ copyList \in Seq(Addr) /\ seg \in Nat /\ pos \in Nat /\ segEnd \in Nat

\* Segments are distinct and hold all allocated cells.
Layout ==
    /\ \A i, j \in 1 .. Len(segments) : segments[i] = segments[j] => i = j
    /\ youngGen \notin OldSegments /\ compactee \notin OldSegments
    /\ compactee # youngGen
    /\ \A a \in allocated : a[1] \in OldSegments \cup {youngGen, compactee}

\* What the phase of the OG collection says about the marks: what the sweep has
\* passed is marked.
Cycle ==
    /\ phase = "None" => segNumber = 0
    /\ promoteYGToOG => phase = "None" /\ compactee = NoSegment
    /\ ~ogMarkingBarriers => worklist = {}
    /\ marked \subseteq allocated
    /\ \A a \in worklist : InOldGen(a)
    /\ \A a \in allocated :
          (\E i \in segNumber + 1 .. Len(segments) : a[1] = segments[i])
              => a \in marked

\* What is known at each stage of an evacuation.
Control ==
    /\ AtRest => ~doCompaction /\ copyList = <<>> /\ forwarding = [a \in Addr |-> Null]
    /\ pc \in {"yield", "start"} => \A a \in allocated : ~InYoungGen(a)
    /\ doCompaction => compactee # NoSegment /\ ~ogMarkingBarriers
    /\ pc = "compactee" => preparingCompaction
    /\ pc \in {"cards", "compactee"} =>
           /\ visitUnmarked => phase # "Sweep"
           /\ ~visitUnmarked => ~ogMarkingBarriers
    /\ pc = "roots" => pos >= 1
    /\ pc = "cards" => seg >= 1 /\ segEnd <= Len(segments)

\* No pointer of a live cell, root or weak root leads to garbage.
Pointers ==
    /\ \A a \in Live : field[a] \in Live \cup {Null}
    /\ \A r \in Roots : roots[r] \in Live \cup {Null}
    /\ weakRoot \in Live \cup {Null}

\* While marking is on, what a root, a young cell or a scanned cell points to has
\* been marked or will be: the promise of the snapshot barrier.  So has a cell that
\* points into the YG, for it was stored into after the snapshot.
Reached(p) == WeakLive(p, marked \cup Visited)
Snapshot ==
    ogMarkingBarriers =>
       /\ \A r \in Roots : Reached(roots[r])
       /\ \A a \in allocated :
             InYoungGen(a) \/ a \in marked \ worklist
                => Reached(field[a])
       /\ \A a \in allocated : InYoungGen(field[a]) => Reached(a)

\* The copies that are still to be visited.
Copies == {forwarding[copyList[k]] : k \in 1 .. Len(copyList)}

\* Between evacuations every pointer from old to young lies on a dirty card.
YoungCards ==
    AtRest => \A a \in Live :
        InOldGen(a) /\ InYoungGen(field[a]) => CardOf(a) \in dirty

\* And so does every scanned pointer into a compactee, or it is in a copy.
CompacteeDirty ==
    ~doCompaction => \A a \in Live :
        ( /\ InOldGen(a) /\ ~InCompactee(a) /\ InCompactee(field[a])
          /\ ogMarkingBarriers => a \in marked \ worklist )
        => CardOf(a) \in dirty \/ a \in Copies

\* The scan of the cards will still come to cell a.
ToScan(a) ==
    \/ pc = "roots"
    \/ /\ pc = "cards"
       /\ \/ a[1] = compactee
          \/ \E j \in seg .. segEnd : a[1] = segments[j] /\ (j = seg => a[2] >= pos)
    \/ pc = "compactee" /\ a[1] = compactee /\ a[2] >= pos
Pending(a) == a \in Copies \/ (CardOf(a) \in dirty /\ ToScan(a))

\* During an evacuation every pointer to a cell that moves will still be met.
Evacuation ==
    Evacuating =>
       /\ \A a \in Live :
             ~ShouldForward(a) /\ ShouldForward(field[a]) => Pending(a)
       /\ \A r \in Roots : ShouldForward(roots[r]) => pc = "roots" /\ r >= pos
       /\ preparingCompaction =>
             \A a \in allocated : InYoungGen(field[a]) => field[a] \in allocated

\* A forwarding pointer leads from a live cell that moves to a marked old one.
Forwards ==
    /\ \A c \in Addr : forwarding[c] # Null =>
          /\ ShouldForward(c) /\ c \in Live
          /\ forwarding[c] \in marked /\ forwarding[c][1] \in OldSegments
    /\ \A k \in 1 .. Len(copyList) : forwarding[copyList[k]] # Null

IInv == Types /\ Layout /\ Cycle /\ Control /\ Pointers /\ Snapshot /\ YoungCards
        /\ CompacteeDirty /\ Evacuation /\ Forwards

\* An allocation that has waited is still that of a copy, and the cell which is
\* scanned for it is as it was.
Waiting ==
    waited =>
       /\ ~AtRest
       /\ pc # "oom" => MustCopy /\ phase = "None"
       /\ Scanning => OnDirtyCard(<<Scanned, pos>>)

------------------------------------------------------------------------------
(* Lemmas about the operators.                                                *)

\* LowestOf returns a member.
LEMMA LowestIsIn ==
    ASSUME NEW S \in SUBSET SegIds, S # {}
    PROVE  LowestOf(S) \in S
<1> DEFINE Less == OpToRel(<, Nat)
<1>1. IsWellFoundedOn(Less, Nat)
  BY NatLessThanWellFounded
<1>2. \A s, t \in Nat : t < s => <<t, s>> \in Less
  BY DEF OpToRel
<1> HIDE DEF Less
<1>3. S \subseteq Nat /\ S # {}
  BY SegmentAssumption
<1>4. \E s \in S : \A t \in S : ~(<<t, s>> \in Less)
  BY <1>1, <1>3, WFMin
<1>5. \E s \in S : \A t \in S : s <= t
  <2>1. PICK s \in S : \A t \in S : ~(<<t, s>> \in Less)
    BY <1>4
  <2>2. \A t \in S : ~(t < s)
    BY <1>2, <1>3, <2>1
  <2>3. QED
    BY <1>3, <2>2
<1>6. QED
  BY <1>5 DEF LowestOf

\* The marker visits the worklist.
LEMMA WorklistVisited ==
    ASSUME Types
    PROVE  worklist \subseteq Visited /\ Visited \subseteq Addr
BY DEF Types, TypeOK, Visited

\* It stays inside every set that has the worklist and that no pointer leaves.
LEMMA VisitedLeast ==
    ASSUME NEW S \in SUBSET Addr, worklist \subseteq S, LeadsInside(S)
    PROVE  Visited \subseteq S
BY DEF Visited

\* It leaves no unmarked cell out that what it visits leads to.
LEMMA VisitedCloses ==
    ASSUME Types
    PROVE  \A a \in Visited :
              InOldGen(field[a]) /\ field[a] \notin marked => field[a] \in Visited
<1> SUFFICES ASSUME NEW a \in Visited, InOldGen(field[a]), field[a] \notin marked
             PROVE  field[a] \in Visited
  OBVIOUS
<1>1. a \in Addr /\ field[a] \in Addr
  BY DEF Visited, Types, TypeOK, InOldGen, Pointer
<1>2. ASSUME NEW S \in SUBSET Addr, worklist \subseteq S, LeadsInside(S)
      PROVE  field[a] \in S
  <2>1. a \in S
    BY <1>2 DEF Visited
  <2>2. QED
    BY <1>2, <2>1 DEF LeadsInside
<1>3. QED
  BY <1>1, <1>2 DEF Visited

\* A step that takes the cells D off the worklist, having enqueued what they lead
\* to, and that overwrites no other pointer the marker needs without enqueuing it,
\* leaves all cells but D to visit.
LEMMA StillVisited ==
    ASSUME Types, Types', NEW D \in SUBSET Addr,
           worklist \subseteq worklist' \cup D,
           \A b \in Visited :
              InOldGen(field[b]) /\ field[b] \notin marked =>
                 \/ field[b] \in worklist'
                 \/ /\ b \notin D /\ field'[b] = field[b]
                    /\ InOldGen(field[b])' /\ field[b] \notin marked'
    PROVE  Visited \subseteq Visited' \cup D
<1> DEFINE S == {b \in Visited : b \in Visited' \cup D}
<1>1. worklist' \subseteq Visited'
  <2>1. (Types => worklist \subseteq Visited)'
    BY WorklistVisited, PTL
  <2>2. QED
    BY <2>1
<1>2. worklist \subseteq S
  BY <1>1, WorklistVisited
<1>3. ASSUME NEW b \in S, InOldGen(field[b]), field[b] \notin marked
      PROVE  field[b] \in S
  <2>1. field[b] \in Visited
    BY <1>3, VisitedCloses
  <2>2. CASE field[b] \in worklist'
    BY <1>1, <2>1, <2>2
  <2>3. CASE field[b] \notin worklist'
    <3>1. /\ b \in Visited' /\ field'[b] = field[b]
          /\ InOldGen(field[b])' /\ field'[b] \notin marked'
      BY <1>3, <2>3
    <3>2. (Types => \A a \in Visited :
              InOldGen(field[a]) /\ field[a] \notin marked => field[a] \in Visited)'
      BY VisitedCloses, PTL
    <3>3. QED
      BY <2>1, <3>1, <3>2
  <2>4. QED
    BY <2>2, <2>3
<1>4. LeadsInside(S)
  BY <1>3 DEF LeadsInside
<1>5. S \in SUBSET Addr
  BY WorklistVisited
<1> HIDE DEF S
<1>6. Visited \subseteq S
  BY <1>2, <1>4, <1>5, VisitedLeast
<1>7. QED
  BY <1>6 DEF S

\* The cells of a segment are the addresses in it.
LEMMA CellsAre ==
    /\ \A s : \A a \in CellsOf(s) : a[1] = s
    /\ \A a \in Addr : \A s : a \in CellsOf(s) <=> a[1] = s
BY DEF CellsOf, Addr

\* Where an allocation in the OG finds room: in a free cell of a segment, or in a
\* new segment at the end of segments_.
LEMMA RoomFacts ==
    ASSUME Types, Layout, NEW n \in Addr, OldGenRoom(n),
           UNCHANGED <<youngGen, compactee>>
    PROVE  /\ n \notin allocated /\ ~InYoungGen(n) /\ ~InCompactee(n) /\ n # Null
           /\ segments' \in Seq(SegIds)
           /\ Len(segments) <= Len(segments')
           /\ \A i \in 1 .. Len(segments) : segments'[i] = segments[i]
           /\ \A i \in Len(segments) + 1 .. Len(segments') :
                 segments'[i] = n[1] /\ \A a \in allocated : a[1] # n[1]
           /\ OldSegments \subseteq OldSegments' /\ n[1] \in OldSegments'
           /\ \A i, j \in 1 .. Len(segments') : segments'[i] = segments'[j] => i = j
           /\ youngGen \notin OldSegments' /\ compactee \notin OldSegments'
<1> USE DEF Types, TypeOK, Layout
<1>0. n # Null
  BY NullAssumption
<1>1. CASE n \in Free /\ UNCHANGED segments
  <2>1. n \notin allocated /\ n[1] \in OldSegments
    <3>1. PICK s \in OldSegments : n \in CellsOf(s)
      BY <1>1 DEF Free
    <3>2. n[1] = s
      BY <3>1, CellsAre
    <3>3. QED
      BY <1>1, <3>1, <3>2 DEF Free
  <2>2. OldSegments' = OldSegments
    BY <1>1 DEF OldSegments
  <2>3. QED
    BY <1>0, <1>1, <2>1, <2>2 DEF InYoungGen, InCompactee
<1>2. CASE /\ Unused # {} /\ n = <<LowestOf(Unused), 1>>
           /\ segments' = Append(segments, LowestOf(Unused))
  <2>1. Unused \in SUBSET SegIds
    BY DEF Unused
  <2>2. PICK u : u = LowestOf(Unused)
    OBVIOUS
  <2>3. u \in Unused
    BY <1>2, <2>1, <2>2, LowestIsIn
  <2>4. u \in SegIds /\ u \notin OldSegments /\ u # youngGen /\ u # compactee
    BY <2>3 DEF Unused
  <2>5. n[1] = u /\ segments' = Append(segments, u)
    BY <1>2, <2>2
  <2>6. \A a \in allocated : a[1] # u
    BY <2>4
  <2>7. /\ segments' \in Seq(SegIds) /\ Len(segments') = Len(segments) + 1
        /\ \A i \in 1 .. Len(segments) : segments'[i] = segments[i]
        /\ segments'[Len(segments) + 1] = u
    BY <2>4, <2>5
  <2>8. Len(segments) \in Nat
    OBVIOUS
  <2>9. \A i \in 1 .. Len(segments) : segments[i] # u
    BY <2>4 DEF OldSegments
  <2>10. OldSegments' = OldSegments \cup {u}
    <3>1. OldSegments \subseteq OldSegments' /\ u \in OldSegments'
      BY <2>7, <2>8 DEF OldSegments
    <3>2. \A i \in 1 .. Len(segments') : segments'[i] \in OldSegments \cup {u}
      BY <2>7, <2>8 DEF OldSegments
    <3>3. OldSegments' \subseteq OldSegments \cup {u}
      BY <3>2 DEF OldSegments
    <3>4. QED
      BY <3>1, <3>3
  <2>11. \A i, j \in 1 .. Len(segments') : segments'[i] = segments'[j] => i = j
    BY <2>7, <2>8, <2>9
  <2>12. n \notin allocated
    BY <2>5, <2>6
  <2>13. Len(segments) <= Len(segments')
    BY <2>7, <2>8
  <2>14. \A i \in Len(segments) + 1 .. Len(segments') : segments'[i] = u
    BY <2>7, <2>8
  <2>15. youngGen \notin OldSegments' /\ compactee \notin OldSegments'
    BY <2>4, <2>10
  <2> HIDE DEF Types, TypeOK, Layout
  <2>16. QED
    BY <1>0, <2>4, <2>5, <2>6, <2>7, <2>10, <2>11, <2>12, <2>13, <2>14, <2>15
       DEF InYoungGen, InCompactee
<1>3. QED
  BY <1>1, <1>2 DEF OldGenRoom

\* Nothing is on the copy list outside of evacuations.
LEMMA NoCopies == Control /\ AtRest => Copies = {}
BY DEF Control, Copies

\* What the program may hold: a cell that is live, and that marking will reach.
Known(p) == p \in Live \cup {Null} /\ (ogMarkingBarriers => Reached(p))

\* Roots are known.
LEMMA RootKnown == IInv => \A r \in Roots : Known(roots[r])
BY DEF IInv, Pointers, Snapshot, Known

\* What a known cell leads to is known.
LEMMA FieldKnown ==
    ASSUME IInv, NEW a, a # Null, Known(a)
    PROVE  Known(field[a])
<1> USE DEF IInv
<1>1. a \in Live /\ a \in Addr /\ a \in allocated /\ field[a] \in Live \cup {Null}
  BY DEF Known, Pointers, Live, Types, TypeOK
<1>2. ASSUME ogMarkingBarriers
      PROVE  Reached(field[a])
  <2>1. CASE InYoungGen(a) \/ a \in marked \ worklist
    BY <1>1, <1>2, <2>1 DEF Snapshot
  <2>2. CASE ~InYoungGen(a) /\ a \notin marked \ worklist
    <3>1. a \in Visited
      BY <1>1, <1>2, <2>2, WorklistVisited DEF Known, Reached, WeakLive
    <3>2. InOldGen(field[a]) /\ field[a] \notin marked => field[a] \in Visited
      BY <3>1, VisitedCloses
    <3>3. QED
      BY <3>2 DEF Reached, WeakLive, InOldGen, InYoungGen
  <2>3. QED
    BY <2>1, <2>2
<1>3. QED
  BY <1>1, <1>2 DEF Known

\* Marking visits cells of the OG that are allocated.
LEMMA VisitedAllocated ==
    ASSUME IInv, ogMarkingBarriers
    PROVE  \A a \in Visited : a \in allocated /\ InOldGen(a)
<1> DEFINE S == {a \in allocated : InOldGen(a)}
<1>1. S \in SUBSET Addr /\ worklist \subseteq S
  BY DEF IInv, Types, TypeOK, Cycle
<1>2. LeadsInside(S)
  BY DEF IInv, Pointers, Live, LeadsInside, InOldGen
<1> HIDE DEF S
<1>3. Visited \subseteq S
  BY <1>1, <1>2, VisitedLeast
<1>4. QED
  BY <1>3 DEF S

------------------------------------------------------------------------------
(* The program.                                                               *)

\* A step of the program changes nothing that an evacuation relies on.
LEMMA ProgramControl ==
    ASSUME IInv, pc = "mutator", UNCHANGED <<pc, evacVars, forwarding, phase, compactee>>
    PROVE  Control' /\ Evacuation' /\ Forwards'
<1>1. /\ pc' = "mutator" /\ ~doCompaction' /\ copyList' = <<>>
      /\ forwarding' = [a \in Addr |-> Null]
  BY DEF IInv, Control, AtRest, evacVars
<1>2. QED
  BY <1>1 DEF Control, Evacuation, Evacuating, Forwards, AtRest

\* What the SATB barrier does.
LEMMA EnqueueFacts ==
    ASSUME IInv, NEW p \in Live \cup {Null}, Enqueue(p)
    PROVE  /\ marked \subseteq marked' /\ worklist \subseteq worklist'
           /\ worklist' \subseteq marked' /\ marked' \ marked \subseteq worklist'
           /\ marked' \subseteq allocated /\ \A a \in worklist' : InOldGen(a)
           /\ ~ogMarkingBarriers => UNCHANGED <<marked, worklist>>
           /\ ogMarkingBarriers /\ InOldGen(p) => p \in marked'
           /\ ogMarkingBarriers /\ InOldGen(p) /\ p \notin marked => p \in worklist'
BY DEF IInv, Types, TypeOK, Cycle, Enqueue, Live, InOldGen

\* What the relocation barrier does.
LEMMA RelocationFacts ==
    ASSUME IInv, NEW a \in Addr, NEW p, RelocationBarrier(a, p)
    PROVE  /\ dirty \subseteq dirty' /\ dirty' \subseteq {CardOf(b) : b \in Addr}
           /\ InYoungGen(p) \/ (InCompactee(p) /\ ~InCompactee(a)) => CardOf(a) \in dirty'
BY DEF IInv, Types, TypeOK, RelocationBarrier

\* Steps of the program that allocate nothing: they store known pointers, and a
\* store into a cell of the OG runs both barriers.
LEMMA MutationKeeps ==
    ASSUME IInv, pc = "mutator",
           UNCHANGED <<heapVars, allocated, forwarding, phase, segNumber, evacVars, pc,
                       promoteYGToOG>>,
           field' \in [Addr -> Pointer], roots' \in [Roots -> Pointer],
           weakRoot' \in Live \cup {Null},
           marked \subseteq marked', worklist \subseteq worklist',
           worklist' \subseteq marked', marked' \ marked \subseteq worklist',
           marked' \subseteq allocated, \A a \in worklist' : InOldGen(a),
           ~ogMarkingBarriers => UNCHANGED <<marked, worklist>>,
           dirty \subseteq dirty', dirty' \subseteq {CardOf(a) : a \in Addr},
           \A a \in Addr :
              \/ field'[a] = field[a]
              \/ /\ Known(field'[a])
                 /\ ogMarkingBarriers => Reached(a)
                 /\ InOldGen(a) =>
                      /\ \/ InYoungGen(field'[a])
                         \/ InCompactee(field'[a]) /\ ~InCompactee(a)
                         => CardOf(a) \in dirty'
                      /\ ogMarkingBarriers /\ InOldGen(field[a]) /\ field[a] \notin marked
                         => field[a] \in worklist',
           \A r \in Roots :
              /\ roots'[r] \in Live \cup {Null}
              /\ ogMarkingBarriers => Reached(roots'[r]) \/ roots'[r] \in marked'
    PROVE  IInv'
<1> USE DEF heapVars
<1>1. Types'
  BY DEF IInv, Types, TypeOK, Live, evacVars, Pointer
<1>2. Layout'
  BY DEF IInv, Layout, OldSegments
<1>3. ogMarkingBarriers' <=> ogMarkingBarriers
  BY DEF ogMarkingBarriers
<1>4. Cycle'
  BY <1>3 DEF IInv, Cycle, InOldGen
<1>5. Control' /\ Evacuation' /\ Forwards'
  BY ProgramControl
<1>6. /\ \A a : InYoungGen(a)' <=> InYoungGen(a)
      /\ \A a : InOldGen(a)' <=> InOldGen(a)
      /\ \A a : InCompactee(a)' <=> InCompactee(a)
  BY DEF InYoungGen, InOldGen, InCompactee
<1>7. Live' = Live
  BY <1>3, <1>6 DEF IInv, Cycle, Live
<1>8. Pointers'
  <2>1. \A a \in Live : a \in Addr /\ field'[a] \in Live \cup {Null}
    BY DEF IInv, Pointers, Known, Live, Types, TypeOK
  <2>2. QED
    BY <1>7, <2>1 DEF Pointers
<1>9. ASSUME ogMarkingBarriers, NEW p, Reached(p) \/ p \in marked'
      PROVE  Reached(p)'
  <2>1. \A b \in Visited : b \in Addr /\ b \in allocated /\ InOldGen(b)
    BY <1>9, VisitedAllocated, WorklistVisited DEF IInv
  <2>2. \A b \in Visited :
              InOldGen(field[b]) /\ field[b] \notin marked =>
                 \/ field[b] \in worklist'
                 \/ /\ b \notin {} /\ field'[b] = field[b]
                    /\ InOldGen(field[b])' /\ field[b] \notin marked'
    BY <1>9, <2>1 DEF InOldGen
  <2>3. Visited \subseteq Visited' \cup {}
    BY <1>1, <2>2, StillVisited DEF IInv
  <2>4. QED
    BY <1>6, <1>9, <2>3 DEF Reached, WeakLive
<1>10. Snapshot'
  <2>1. \A a \in allocated' : (InYoungGen(a) \/ a \in marked \ worklist)' =>
           a \in Addr /\ a \in allocated /\ (InYoungGen(a) \/ a \in marked \ worklist)
    BY <1>6 DEF IInv, Types, TypeOK
  <2>2. ASSUME ogMarkingBarriers, NEW a \in allocated',
               (InYoungGen(a) \/ a \in marked \ worklist)'
        PROVE  Reached(field'[a])
    BY <2>1, <2>2 DEF IInv, Snapshot, Known
  <2>3. ASSUME ogMarkingBarriers, NEW a \in allocated',
               (InYoungGen(a) \/ a \in marked \ worklist)'
        PROVE  Reached(field[a])'
    <3>1. PICK p : p = field'[a]
      OBVIOUS
    <3>2. Reached(p)'
      BY <1>9, <2>2, <2>3, <3>1
    <3>3. QED
      BY <3>1, <3>2
  <2>4. ASSUME ogMarkingBarriers, NEW r \in Roots
        PROVE  Reached(roots[r])'
    <3>1. PICK p : p = roots'[r]
      OBVIOUS
    <3>2. Reached(p)'
      BY <1>9, <2>4, <3>1
    <3>3. QED
      BY <3>1, <3>2
  <2>5. ASSUME ogMarkingBarriers, NEW a \in allocated', InYoungGen(field[a])'
        PROVE  Reached(a)'
    <3>1. a \in Addr /\ a \in allocated /\ InYoungGen(field'[a])
      BY <1>6, <2>5 DEF IInv, Types, TypeOK
    <3>2. Reached(a)
      <4>1. CASE field'[a] = field[a]
        BY <2>5, <3>1, <4>1 DEF IInv, Snapshot
      <4>2. CASE field'[a] # field[a]
        BY <2>5, <3>1, <4>2
      <4>3. QED
        BY <4>1, <4>2
    <3>3. QED
      BY <1>9, <2>5, <3>2
  <2>6. QED
    BY <1>3, <2>3, <2>4, <2>5 DEF Snapshot
<1>11. YoungCards'
  <2>1. ASSUME NEW a \in Live, InOldGen(a), InYoungGen(field'[a])
        PROVE  CardOf(a) \in dirty'
    <3>1. a \in Addr
      BY DEF Live, IInv, Types, TypeOK
    <3>2. CASE field'[a] = field[a]
      BY <2>1, <3>2 DEF IInv, YoungCards, AtRest
    <3>3. CASE field'[a] # field[a]
      BY <2>1, <3>1, <3>3
    <3>4. QED
      BY <3>2, <3>3
  <2>2. QED
    BY <1>6, <1>7, <2>1 DEF YoungCards, CardOf
<1>12. CompacteeDirty'
  <2>1. Copies = {} /\ ~doCompaction
    BY NoCopies DEF IInv, AtRest, Control
  <2>2. ASSUME NEW a \in Live, InOldGen(a), ~InCompactee(a), InCompactee(field'[a]),
               ogMarkingBarriers => a \in marked' \ worklist'
        PROVE  CardOf(a) \in dirty'
    <3>1. a \in Addr
      BY DEF Live, IInv, Types, TypeOK
    <3>2. CASE field'[a] = field[a]
      BY <2>1, <2>2, <3>2 DEF IInv, CompacteeDirty
    <3>3. CASE field'[a] # field[a]
      BY <2>2, <3>1, <3>3
    <3>4. QED
      BY <3>2, <3>3
  <2>3. QED
    BY <1>3, <1>6, <1>7, <2>2 DEF CompacteeDirty, CardOf
<1>13. QED
  BY <1>1, <1>2, <1>4, <1>5, <1>8, <1>10, <1>11, <1>12 DEF IInv

\* A store keeps the invariant.
LEMMA StoreKeeps ==
    ASSUME IInv, NEW r \in Roots, NEW v \in RootValues, Store(r, v)
    PROVE  IInv'
<1> USE DEF Store, Program
<1>1. PICK a : a = roots[r]
  OBVIOUS
<1>2. a # Null /\ Known(a) /\ a \in Live /\ a \in Addr /\ a \in allocated
  BY <1>1, RootKnown DEF Known, Live, IInv, Types, TypeOK
<1>3. PICK q : q = field[a]
  OBVIOUS
<1>4. q \in Live \cup {Null}
  BY <1>2, <1>3 DEF IInv, Pointers
<1>5. Known(v) /\ v \in Pointer
  <2>1. Known(Null)
    BY DEF Known, Reached, WeakLive
  <2>2. QED
    BY <2>1, RootKnown DEF RootValues, Known, Live, Pointer, IInv, Types, TypeOK
<1>6. field \in [Addr -> Pointer] /\ field' = [field EXCEPT ![a] = v]
  BY <1>1 DEF IInv, Types, TypeOK
<1>7. /\ IF InYoungGen(a) THEN UNCHANGED <<marked, worklist, dirty>>
         ELSE Enqueue(q) /\ RelocationBarrier(a, v)
      /\ UNCHANGED <<heapVars, allocated, forwarding, roots, weakRoot, phase,
                     segNumber, evacVars, pc, promoteYGToOG>>
      /\ pc = "mutator"
  BY <1>1, <1>3
<1> HIDE DEF Store, Program
<1>8. /\ marked \subseteq marked' /\ worklist \subseteq worklist'
      /\ worklist' \subseteq marked' /\ marked' \ marked \subseteq worklist'
      /\ marked' \subseteq allocated /\ \A b \in worklist' : InOldGen(b)
      /\ ~ogMarkingBarriers => UNCHANGED <<marked, worklist>>
      /\ InOldGen(a) /\ ogMarkingBarriers /\ InOldGen(q) /\ q \notin marked
            => q \in worklist'
  <2>1. CASE InYoungGen(a)
    BY <1>7, <2>1 DEF InOldGen, InYoungGen, IInv, Types, TypeOK, Cycle
  <2>2. CASE ~InYoungGen(a)
    BY <1>4, <1>7, <2>2, EnqueueFacts
  <2>3. QED
    BY <2>1, <2>2
<1>9. /\ dirty \subseteq dirty' /\ dirty' \subseteq {CardOf(b) : b \in Addr}
      /\ InOldGen(a) /\ (InYoungGen(v) \/ (InCompactee(v) /\ ~InCompactee(a)))
            => CardOf(a) \in dirty'
  <2>1. CASE InYoungGen(a)
    BY <1>7, <2>1 DEF InOldGen, InYoungGen, IInv, Types, TypeOK
  <2>2. CASE ~InYoungGen(a)
    BY <1>2, <1>7, <2>2, RelocationFacts
  <2>3. QED
    BY <2>1, <2>2
<1>10. field' \in [Addr -> Pointer] /\ field'[a] = v
       /\ \A b \in Addr : b # a => field'[b] = field[b]
  BY <1>2, <1>5, <1>6
<1>11. \A b \in Addr :
          \/ field'[b] = field[b]
          \/ /\ Known(field'[b])
             /\ ogMarkingBarriers => Reached(b)
             /\ InOldGen(b) =>
                  /\ \/ InYoungGen(field'[b])
                     \/ InCompactee(field'[b]) /\ ~InCompactee(b)
                     => CardOf(b) \in dirty'
                  /\ ogMarkingBarriers /\ InOldGen(field[b]) /\ field[b] \notin marked
                     => field[b] \in worklist'
  BY <1>2, <1>3, <1>5, <1>8, <1>9, <1>10 DEF Known
<1>12. \A s \in Roots : roots'[s] \in Live \cup {Null}
                        /\ (ogMarkingBarriers => Reached(roots'[s]))
  BY <1>7, RootKnown DEF Known
<1>13. roots' \in [Roots -> Pointer] /\ weakRoot' \in Live \cup {Null}
  BY <1>7 DEF IInv, Types, TypeOK, Pointers
<1>14. QED
  BY <1>7, <1>8, <1>9, <1>10, <1>11, <1>12, <1>13, MutationKeeps

\* Steps that move known pointers between roots and the weak root keep it.
LEMMA RootStepKeeps ==
    ASSUME IInv, pc = "mutator",
           UNCHANGED <<heapVars, allocated, field, forwarding, phase, segNumber,
                       evacVars, pc, promoteYGToOG, dirty>>,
           roots' \in [Roots -> Pointer], weakRoot' \in Live \cup {Null},
           NEW p \in Live \cup {Null},
           UNCHANGED <<marked, worklist>> \/ Enqueue(p),
           \A r \in Roots :
              \/ Known(roots'[r])
              \/ roots'[r] = p /\ Enqueue(p)
    PROVE  IInv'
<1>1. /\ marked \subseteq marked' /\ worklist \subseteq worklist'
      /\ worklist' \subseteq marked' /\ marked' \ marked \subseteq worklist'
      /\ marked' \subseteq allocated /\ \A b \in worklist' : InOldGen(b)
      /\ ~ogMarkingBarriers => UNCHANGED <<marked, worklist>>
  <2>1. CASE UNCHANGED <<marked, worklist>>
    BY <2>1 DEF IInv, Types, TypeOK, Cycle
  <2>2. CASE Enqueue(p)
    BY <2>2, EnqueueFacts
  <2>3. QED
    BY <2>1, <2>2
<1>2. \A r \in Roots :
         /\ roots'[r] \in Live \cup {Null}
         /\ ogMarkingBarriers => Reached(roots'[r]) \/ roots'[r] \in marked'
  <2>1. ASSUME Enqueue(p), ogMarkingBarriers
        PROVE  Reached(p) \/ p \in marked'
    BY <2>1, EnqueueFacts DEF Reached, WeakLive, InOldGen, InYoungGen
  <2>2. QED
    BY <2>1 DEF Known
<1>3. field' \in [Addr -> Pointer] /\ dirty' \subseteq {CardOf(a) : a \in Addr}
      /\ dirty \subseteq dirty'
  BY DEF IInv, Types, TypeOK
<1>4. \A a : field'[a] = field[a]
  OBVIOUS
<1>5. QED
  BY <1>1, <1>2, <1>3, <1>4, MutationKeeps

\* A load does: what a known cell leads to is known.
LEMMA LoadKeeps ==
    ASSUME IInv, NEW r \in Roots, NEW q \in Roots, Load(r, q)
    PROVE  IInv'
<1>1. PICK p : p = field[roots[q]]
  OBVIOUS
<1>2. Known(p)
  BY <1>1, RootKnown, FieldKnown DEF Load
<1>3. /\ pc = "mutator" /\ roots' = [roots EXCEPT ![r] = p]
      /\ UNCHANGED <<heapVars, allocated, field, forwarding, phase, segNumber,
                     evacVars, pc, promoteYGToOG, dirty, weakRoot, marked, worklist>>
  BY <1>1 DEF Load, Program, cellVars, cycleVars
<1>4. p \in Live \cup {Null} /\ p \in Pointer
  BY <1>2 DEF Known, Live, Pointer, IInv, Types, TypeOK
<1>5. roots' \in [Roots -> Pointer] /\ weakRoot' \in Live \cup {Null}
  BY <1>3, <1>4 DEF IInv, Types, TypeOK, Pointers
<1>6. \A s \in Roots : Known(roots'[s])
  <2>1. \A s \in Roots : roots'[s] = p \/ roots'[s] = roots[s]
    BY <1>3 DEF IInv, Types, TypeOK
  <2>2. QED
    BY <1>2, <2>1, RootKnown
<1>7. QED
  BY <1>3, <1>4, <1>5, <1>6, RootStepKeeps

\* So does a root that goes,
LEMMA DropKeeps ==
    ASSUME IInv, NEW r \in Roots, Drop(r)
    PROVE  IInv'
<1>1. /\ pc = "mutator" /\ roots' = [roots EXCEPT ![r] = Null]
      /\ UNCHANGED <<heapVars, allocated, field, forwarding, phase, segNumber,
                     evacVars, pc, promoteYGToOG, dirty, weakRoot, marked, worklist>>
  BY DEF Drop, Program, cellVars, cycleVars
<1>2. Known(Null) /\ Null \in Pointer
  BY DEF Known, Reached, WeakLive, Pointer
<1>3. roots' \in [Roots -> Pointer] /\ weakRoot' \in Live \cup {Null}
  BY <1>1, <1>2 DEF IInv, Types, TypeOK, Pointers
<1>4. \A s \in Roots : Known(roots'[s])
  <2>1. \A s \in Roots : roots'[s] = Null \/ roots'[s] = roots[s]
    BY <1>1 DEF IInv, Types, TypeOK
  <2>2. QED
    BY <1>2, <2>1, RootKnown
<1>5. QED
  BY <1>1, <1>3, <1>4, RootStepKeeps

\* the making of a weak reference,
LEMMA MakeWeakKeeps ==
    ASSUME IInv, NEW r \in Roots, MakeWeak(r)
    PROVE  IInv'
<1>1. /\ pc = "mutator" /\ weakRoot' = roots[r]
      /\ UNCHANGED <<heapVars, allocated, field, forwarding, phase, segNumber,
                     evacVars, pc, promoteYGToOG, dirty, roots, marked, worklist>>
  BY DEF MakeWeak, Program, cellVars, cycleVars
<1>2. roots' \in [Roots -> Pointer] /\ weakRoot' \in Live \cup {Null}
  BY <1>1 DEF IInv, Types, TypeOK, Pointers
<1>3. \A s \in Roots : Known(roots'[s])
  BY <1>1, RootKnown
<1>4. QED
  BY <1>1, <1>2, <1>3, RootStepKeeps

\* and the read of one: its barrier enqueues what marking might not have reached.
LEMMA LoadWeakKeeps ==
    ASSUME IInv, NEW r \in Roots, LoadWeak(r)
    PROVE  IInv'
<1>1. PICK p : p = weakRoot
  OBVIOUS
<1>2. p \in Live \cup {Null} /\ p \in Pointer
  BY <1>1 DEF IInv, Types, TypeOK, Pointers
<1>3. /\ pc = "mutator" /\ roots' = [roots EXCEPT ![r] = p] /\ Enqueue(p)
      /\ UNCHANGED <<heapVars, allocated, field, forwarding, phase, segNumber,
                     evacVars, pc, promoteYGToOG, dirty, weakRoot>>
  BY <1>1 DEF LoadWeak, Program
<1>4. roots' \in [Roots -> Pointer] /\ weakRoot' \in Live \cup {Null}
  BY <1>1, <1>2, <1>3 DEF IInv, Types, TypeOK, Pointers
<1>5. \A s \in Roots : Known(roots'[s]) \/ (roots'[s] = p /\ Enqueue(p))
  <2>1. \A s \in Roots : roots'[s] = p \/ roots'[s] = roots[s]
    BY <1>3 DEF IInv, Types, TypeOK
  <2>2. QED
    BY <1>3, <2>1, RootKnown
<1>6. QED
  BY <1>2, <1>3, <1>4, <1>5, RootStepKeeps

\* A new cell of the OG, marked as it is made: nothing led to it, and the marker
\* loses nothing by the pointers overwritten if none of them led into the OG.
LEMMA NewOldCell ==
    ASSUME IInv, NEW n \in Addr, OldGenRoom(n),
           UNCHANGED <<youngGen, compactee, phase, segNumber, worklist, promoteYGToOG>>,
           allocated' = allocated \cup {n}, marked' = marked \cup {n}, Types',
           ogMarkingBarriers => \A b \in Visited :
              b # n => field'[b] = field[b] \/ ~InOldGen(field[b])
    PROVE  /\ Layout' /\ Cycle' /\ Live' = Live \cup {n}
           /\ n \notin allocated /\ InOldGen(n) /\ ~InYoungGen(n) /\ ~InCompactee(n)
           /\ n[1] \in OldSegments' /\ OldSegments \subseteq OldSegments'
           /\ ogMarkingBarriers => \A p : Reached(p) \/ p = n => Reached(p)'
<1>1. /\ n \notin allocated /\ ~InYoungGen(n) /\ ~InCompactee(n) /\ n # Null
      /\ Len(segments) <= Len(segments')
      /\ \A i \in 1 .. Len(segments) : segments'[i] = segments[i]
      /\ \A i \in Len(segments) + 1 .. Len(segments') :
            segments'[i] = n[1] /\ \A a \in allocated : a[1] # n[1]
      /\ OldSegments \subseteq OldSegments' /\ n[1] \in OldSegments'
      /\ \A i, j \in 1 .. Len(segments') : segments'[i] = segments'[j] => i = j
      /\ youngGen \notin OldSegments' /\ compactee \notin OldSegments'
  BY RoomFacts DEF IInv
<1>2. InOldGen(n)
  BY <1>1 DEF InOldGen, InYoungGen
<1>3. Layout'
  BY <1>1 DEF IInv, Layout
<1>4. ogMarkingBarriers' <=> ogMarkingBarriers
  BY DEF ogMarkingBarriers
<1>5. /\ \A a : InYoungGen(a)' <=> InYoungGen(a)
      /\ \A a : InOldGen(a)' <=> InOldGen(a)
  BY DEF InYoungGen, InOldGen
<1>6. Live' = Live \cup {n}
  BY <1>4, <1>5 DEF Live
<1>7. \A a \in allocated' :
         (\E i \in segNumber' + 1 .. Len(segments') : a[1] = segments'[i]) => a \in marked'
  <2>1. SUFFICES ASSUME NEW a \in allocated, NEW i \in segNumber + 1 .. Len(segments'),
                        a[1] = segments'[i]
                 PROVE  a \in marked
    OBVIOUS
  <2>2. Len(segments) \in Nat /\ Len(segments') \in Nat /\ segNumber \in 0 .. Len(segments)
    BY DEF IInv, Types, TypeOK
  <2>3. CASE i > Len(segments)
    BY <1>1, <2>1, <2>2, <2>3
  <2>4. CASE i <= Len(segments)
    <3>1. i \in 1 .. Len(segments) /\ i \in segNumber + 1 .. Len(segments)
      BY <2>2, <2>4
    <3>2. a[1] = segments[i]
      BY <1>1, <2>1, <3>1
    <3>3. QED
      BY <3>1, <3>2 DEF IInv, Cycle
  <2>5. QED
    BY <2>2, <2>3, <2>4
<1>8. Cycle'
  BY <1>4, <1>5, <1>7 DEF IInv, Cycle
<1>9. ASSUME ogMarkingBarriers, NEW p, Reached(p) \/ p = n
      PROVE  Reached(p)'
  <2>1. \A b \in Visited : b \in Addr /\ b \in allocated /\ InOldGen(b) /\ b # n
    BY <1>1, <1>9, VisitedAllocated, WorklistVisited DEF IInv
  <2>2. \A b \in Visited : field[b] \in allocated \cup {Null}
    BY <1>9, <2>1 DEF IInv, Pointers, Live
  <2>3. \A b \in Visited :
              InOldGen(field[b]) /\ field[b] \notin marked =>
                 \/ field[b] \in worklist'
                 \/ /\ b \notin {} /\ field'[b] = field[b]
                    /\ InOldGen(field[b])' /\ field[b] \notin marked'
    <3>1. ASSUME NEW b \in Visited, InOldGen(field[b]), field[b] \notin marked
          PROVE  field'[b] = field[b] /\ InOldGen(field[b])' /\ field[b] \notin marked'
      <4>1. field'[b] = field[b]
        BY <1>9, <2>1, <3>1
      <4>2. field[b] # n
        BY <1>1, <2>2, <3>1 DEF InOldGen
      <4>3. QED
        BY <3>1, <4>1, <4>2 DEF InOldGen
    <3>2. QED
      BY <3>1
  <2>4. worklist \subseteq worklist' \cup {} /\ {} \in SUBSET Addr
    OBVIOUS
  <2>5. Visited \subseteq Visited' \cup {}
    BY <2>3, <2>4, StillVisited DEF IInv
  <2>6. QED
    BY <1>5, <1>9, <2>5 DEF Reached, WeakLive
<1>10. QED
  BY <1>1, <1>2, <1>3, <1>6, <1>8, <1>9

\* A value the program can store is known, and a pointer.
LEMMA RootValueKnown ==
    ASSUME IInv, NEW v \in RootValues
    PROVE  Known(v) /\ v \in Pointer /\ v \in Live \cup {Null}
<1>1. Known(Null)
  BY DEF Known, Reached, WeakLive
<1>2. QED
  BY <1>1, RootKnown DEF RootValues, Known, Live, Pointer, IInv, Types, TypeOK

\* A long-lived allocation keeps the invariant.
LEMMA AllocLongLivedKeeps ==
    ASSUME IInv, NEW r \in Roots, NEW v \in RootValues, AllocLongLived(r, v)
    PROVE  IInv'
<1>1. PICK n \in Addr :
          /\ OldGenRoom(n)
          /\ allocated' = allocated \cup {n}
          /\ marked' = marked \cup {n}
          /\ field' = [field EXCEPT ![n] = v]
          /\ roots' = [roots EXCEPT ![r] = n]
          /\ RelocationBarrier(n, v)
  BY DEF AllocLongLived
<1>2. /\ pc = "mutator"
      /\ UNCHANGED <<youngGen, compactee, forwarding, weakRoot, phase, segNumber,
                     worklist, evacVars, pc, promoteYGToOG>>
  BY DEF AllocLongLived, Program, cycleVars
<1>3. Known(v) /\ v \in Pointer /\ v \in Live \cup {Null}
  BY RootValueKnown
<1>4. /\ dirty \subseteq dirty' /\ dirty' \subseteq {CardOf(b) : b \in Addr}
      /\ InYoungGen(v) \/ (InCompactee(v) /\ ~InCompactee(n)) => CardOf(n) \in dirty'
  BY <1>1, RelocationFacts
<1>5. /\ segments' \in Seq(SegIds) /\ Len(segments) <= Len(segments')
  BY <1>1, <1>2, RoomFacts DEF IInv
<1>6. /\ field' \in [Addr -> Pointer] /\ field'[n] = v
      /\ \A b \in Addr : b # n => field'[b] = field[b]
      /\ roots' \in [Roots -> Pointer]
      /\ \A s \in Roots : roots'[s] = roots[s] \/ roots'[s] = n
  BY <1>1, <1>3 DEF IInv, Types, TypeOK, Pointer
<1>7. Types'
  BY <1>1, <1>2, <1>4, <1>5, <1>6 DEF IInv, Types, TypeOK, evacVars
<1>8. \A b \in Visited : b # n => field'[b] = field[b] \/ ~InOldGen(field[b])
  BY <1>6, WorklistVisited DEF IInv
<1>9. /\ Layout' /\ Cycle' /\ Live' = Live \cup {n}
      /\ n \notin allocated /\ InOldGen(n) /\ ~InCompactee(n)
      /\ ogMarkingBarriers => \A p : Reached(p) \/ p = n => Reached(p)'
  BY <1>1, <1>2, <1>7, <1>8, NewOldCell
<1>10. Control' /\ Evacuation' /\ Forwards'
  BY <1>2, ProgramControl
<1>11. ogMarkingBarriers' <=> ogMarkingBarriers
  BY <1>2 DEF ogMarkingBarriers
<1>12. /\ \A a : InYoungGen(a)' <=> InYoungGen(a)
       /\ \A a : InOldGen(a)' <=> InOldGen(a)
       /\ \A a : InCompactee(a)' <=> InCompactee(a)
  BY <1>2 DEF InYoungGen, InOldGen, InCompactee
<1>13. \A a \in Live : a \in Addr /\ a # n /\ field'[a] = field[a]
  BY <1>6, <1>9 DEF Live, IInv, Types, TypeOK
<1>14. Pointers'
  BY <1>2, <1>3, <1>6, <1>9, <1>13 DEF IInv, Pointers
<1>15. Snapshot'
  <2>1. ASSUME ogMarkingBarriers, NEW a \in allocated',
               (InYoungGen(a) \/ a \in marked \ worklist)'
        PROVE  Reached(field[a])'
    <3>1. PICK p : p = field'[a]
      OBVIOUS
    <3>2. Reached(p)
      <4>1. CASE a = n
        BY <1>3, <1>6, <2>1, <3>1, <4>1 DEF Known
      <4>2. CASE a # n
        BY <1>1, <1>2, <1>6, <1>12, <2>1, <3>1, <4>2 DEF IInv, Snapshot, Types, TypeOK
      <4>3. QED
        BY <4>1, <4>2
    <3>3. QED
      BY <1>9, <2>1, <3>1, <3>2
  <2>2. ASSUME ogMarkingBarriers, NEW s \in Roots
        PROVE  Reached(roots[s])'
    <3>1. PICK p : p = roots'[s]
      OBVIOUS
    <3>2. Reached(p) \/ p = n
      BY <1>6, <2>2, <3>1 DEF IInv, Snapshot
    <3>3. QED
      BY <1>9, <2>2, <3>1, <3>2
  <2>3. ASSUME ogMarkingBarriers, NEW a \in allocated', InYoungGen(field[a])'
        PROVE  Reached(a)'
    <3>1. a = n \/ (a \in allocated /\ InYoungGen(field[a]))
      BY <1>1, <1>6, <1>12, <2>3 DEF IInv, Types, TypeOK
    <3>2. Reached(a) \/ a = n
      BY <2>3, <3>1 DEF IInv, Snapshot
    <3>3. QED
      BY <1>9, <2>3, <3>2
  <2>4. QED
    BY <1>11, <2>1, <2>2, <2>3 DEF Snapshot
<1>16. YoungCards'
  BY <1>2, <1>4, <1>6, <1>9, <1>12, <1>13 DEF IInv, YoungCards, AtRest, CardOf
<1>17. CompacteeDirty'
  <2>1. Copies = {} /\ ~doCompaction
    BY <1>2, NoCopies DEF IInv, AtRest, Control
  <2>2. \A a \in Live : (a \in marked \ worklist)' => a \in marked \ worklist
    BY <1>1, <1>2, <1>13
  <2>3. QED
    BY <1>4, <1>6, <1>9, <1>11, <1>12, <1>13, <2>1, <2>2
       DEF IInv, CompacteeDirty, CardOf
<1>18. QED
  BY <1>7, <1>9, <1>10, <1>14, <1>15, <1>16, <1>17 DEF IInv

\* So does one in the YG.
LEMMA AllocYoungKeeps ==
    ASSUME IInv, NEW r \in Roots, NEW v \in RootValues, AllocYoung(r, v)
    PROVE  IInv'
<1>1. PICK n \in CellsOf(youngGen) \ allocated :
          /\ allocated' = allocated \cup {n}
          /\ field' = [field EXCEPT ![n] = v]
          /\ roots' = [roots EXCEPT ![r] = n]
  BY DEF AllocYoung
<1>2. /\ pc = "mutator"
      /\ UNCHANGED <<youngGen, segments, compactee, marked, forwarding, weakRoot, phase,
                     segNumber, worklist, evacVars, dirty, pc, promoteYGToOG>>
  BY DEF AllocYoung, Program, cycleVars, heapVars
<1>3. n \in Addr /\ n[1] = youngGen /\ n # Null /\ n \notin allocated
  <2>1. n[1] = youngGen
    BY <1>1, CellsAre
  <2>2. n \in Addr
    BY <1>1 DEF CellsOf, Addr, IInv, Types, TypeOK
  <2>3. QED
    BY <1>1, <2>1, <2>2, NullAssumption
<1>4. InYoungGen(n) /\ ~InOldGen(n) /\ ~InCompactee(n)
  BY <1>3 DEF InYoungGen, InOldGen, InCompactee, IInv, Layout
<1>5. Known(v) /\ v \in Pointer /\ v \in Live \cup {Null}
  BY RootValueKnown
<1>6. /\ field' \in [Addr -> Pointer] /\ field'[n] = v
      /\ \A b \in Addr : b # n => field'[b] = field[b]
      /\ roots' \in [Roots -> Pointer]
      /\ \A s \in Roots : roots'[s] = roots[s] \/ roots'[s] = n
  BY <1>1, <1>3, <1>5 DEF IInv, Types, TypeOK, Pointer
<1>7. Types'
  BY <1>1, <1>2, <1>3, <1>6 DEF IInv, Types, TypeOK, evacVars
<1>8. Layout'
  BY <1>1, <1>2, <1>3 DEF IInv, Layout, OldSegments
<1>9. ogMarkingBarriers' <=> ogMarkingBarriers
  BY <1>2 DEF ogMarkingBarriers
<1>10. /\ \A a : InYoungGen(a)' <=> InYoungGen(a)
       /\ \A a : InOldGen(a)' <=> InOldGen(a)
       /\ \A a : InCompactee(a)' <=> InCompactee(a)
  BY <1>2 DEF InYoungGen, InOldGen, InCompactee
<1>11. Live' = Live \cup {n}
  BY <1>1, <1>2, <1>4, <1>9, <1>10 DEF Live
<1>12. Cycle'
  <2>1. \A i \in segNumber' + 1 .. Len(segments') : n[1] # segments'[i]
    BY <1>2, <1>3 DEF IInv, Layout, OldSegments, Types, TypeOK
  <2>2. QED
    BY <1>1, <1>2, <1>9, <1>10, <2>1 DEF IInv, Cycle
<1>13. Control' /\ Evacuation' /\ Forwards'
  BY <1>2, ProgramControl
<1>14. \A a \in Live : a \in Addr /\ a # n /\ field'[a] = field[a]
  BY <1>3, <1>6 DEF Live, IInv, Types, TypeOK
<1>15. Pointers'
  BY <1>2, <1>5, <1>6, <1>11, <1>14 DEF IInv, Pointers
<1>16. ASSUME ogMarkingBarriers, NEW p, Reached(p) \/ p = n
       PROVE  Reached(p)'
  <2>1. \A b \in Visited : b \in Addr /\ b # n
    BY <1>3, <1>16, VisitedAllocated, WorklistVisited DEF IInv
  <2>2. \A b \in Visited :
              InOldGen(field[b]) /\ field[b] \notin marked =>
                 \/ field[b] \in worklist'
                 \/ /\ b \notin {} /\ field'[b] = field[b]
                    /\ InOldGen(field[b])' /\ field[b] \notin marked'
    BY <1>2, <1>6, <2>1 DEF InOldGen
  <2>3. worklist \subseteq worklist' \cup {} /\ {} \in SUBSET Addr
    BY <1>2
  <2>4. Visited \subseteq Visited' \cup {}
    BY <1>7, <2>2, <2>3, StillVisited DEF IInv
  <2>5. QED
    BY <1>2, <1>4, <1>10, <1>16, <2>4 DEF Reached, WeakLive
<1>17. Snapshot'
  <2>1. ASSUME ogMarkingBarriers, NEW a \in allocated',
               (InYoungGen(a) \/ a \in marked \ worklist)'
        PROVE  Reached(field[a])'
    <3>1. PICK p : p = field'[a]
      OBVIOUS
    <3>2. Reached(p)
      <4>1. CASE a = n
        BY <1>5, <1>6, <2>1, <3>1, <4>1 DEF Known
      <4>2. CASE a # n
        BY <1>1, <1>2, <1>6, <1>10, <2>1, <3>1, <4>2 DEF IInv, Snapshot, Types, TypeOK
      <4>3. QED
        BY <4>1, <4>2
    <3>3. QED
      BY <1>16, <2>1, <3>1, <3>2
  <2>2. ASSUME ogMarkingBarriers, NEW s \in Roots
        PROVE  Reached(roots[s])'
    <3>1. PICK p : p = roots'[s]
      OBVIOUS
    <3>2. Reached(p) \/ p = n
      BY <1>6, <2>2, <3>1 DEF IInv, Snapshot
    <3>3. QED
      BY <1>16, <2>2, <3>1, <3>2
  <2>3. ASSUME ogMarkingBarriers, NEW a \in allocated', InYoungGen(field[a])'
        PROVE  Reached(a)'
    <3>1. a = n \/ (a \in allocated /\ InYoungGen(field[a]))
      BY <1>1, <1>6, <1>10, <2>3 DEF IInv, Types, TypeOK
    <3>2. Reached(a) \/ a = n
      BY <2>3, <3>1 DEF IInv, Snapshot
    <3>3. QED
      BY <1>16, <2>3, <3>2
  <2>4. QED
    BY <1>9, <2>1, <2>2, <2>3 DEF Snapshot
<1>18. YoungCards'
  BY <1>2, <1>4, <1>10, <1>11, <1>14 DEF IInv, YoungCards, AtRest, CardOf
<1>19. CompacteeDirty'
  <2>1. Copies = {} /\ ~doCompaction
    BY <1>2, NoCopies DEF IInv, AtRest, Control
  <2>2. QED
    BY <1>2, <1>4, <1>9, <1>10, <1>11, <1>14, <2>1 DEF IInv, CompacteeDirty, CardOf
<1>20. QED
  BY <1>7, <1>8, <1>12, <1>13, <1>15, <1>17, <1>18, <1>19 DEF IInv

------------------------------------------------------------------------------
(* The old generation collection.                                             *)

\* What marking will have marked is what can be known, and it is allocated.
LEMMA KnownAtEnd ==
    ASSUME IInv
    PROVE  /\ marked \subseteq MarkedAtEnd /\ MarkedAtEnd \subseteq allocated
           /\ ogMarkingBarriers => \A p : Reached(p) <=> WeakLive(p, MarkedAtEnd)
           /\ \A p : Known(p) /\ p # Null <=>
                        p \in allocated /\ (InYoungGen(p) \/ p \in MarkedAtEnd)
<1>1. marked \subseteq MarkedAtEnd /\ MarkedAtEnd \subseteq allocated
  BY VisitedAllocated DEF MarkedAtEnd, IInv, Cycle
<1>2. ogMarkingBarriers => \A p : Reached(p) <=> WeakLive(p, MarkedAtEnd)
  BY DEF Reached, MarkedAtEnd
<1>3. ASSUME NEW p
      PROVE  Known(p) /\ p # Null <=>
                p \in allocated /\ (InYoungGen(p) \/ p \in MarkedAtEnd)
  <2>1. p \in allocated => p # Null
    BY NullAssumption DEF IInv, Types, TypeOK
  <2>2. CASE ogMarkingBarriers
    BY <1>2, <2>1, <2>2 DEF Known, WeakLive, Live
  <2>3. CASE ~ogMarkingBarriers
    BY <2>1, <2>3 DEF Known, Live, MarkedAtEnd
  <2>4. QED
    BY <2>2, <2>3
<1>4. QED
  BY <1>1, <1>2, <1>3

\* Completing a collection keeps the invariant, wherever the mutator is.
LEMMA FinishKeeps ==
    ASSUME IInv, FinishCollection,
           UNCHANGED <<doCompaction, visitUnmarked, segEnd, seg, pos, copyList, pc,
                       promoteYGToOG>>
    PROVE  IInv'
<1>1. PICK M : M = MarkedAtEnd
  OBVIOUS
<1>2. /\ marked' = M /\ worklist' = {} /\ phase' = "None" /\ segNumber' = 0
      /\ allocated' = allocated \ Dead(1 .. segNumber, M)
      /\ dirty' = IF ogMarkingBarriers THEN dirty \cup CompacteeCards(Visited) ELSE dirty
      /\ \/ weakRoot' = weakRoot /\ (ogMarkingBarriers => WeakLive(weakRoot, M))
         \/ weakRoot' = Null
      /\ UNCHANGED <<youngGen, segments, compactee, field, forwarding, roots,
                     doCompaction, visitUnmarked, segEnd, seg, pos, copyList, pc,
                     promoteYGToOG>>
  BY <1>1 DEF FinishCollection, CompleteMarking, heapVars
<1>3. /\ marked \subseteq M /\ M \subseteq allocated
      /\ \A p : Known(p) /\ p # Null <=> p \in allocated /\ (InYoungGen(p) \/ p \in M)
      /\ ogMarkingBarriers => M = marked \cup Visited
      /\ ~ogMarkingBarriers => M = marked
  BY <1>1, KnownAtEnd DEF MarkedAtEnd
<1>4. ~ogMarkingBarriers'
  BY <1>2 DEF ogMarkingBarriers
<1>5. /\ \A a : InYoungGen(a)' <=> InYoungGen(a)
      /\ \A a : InOldGen(a)' <=> InOldGen(a)
      /\ \A a : InCompactee(a)' <=> InCompactee(a)
      /\ \A a : ShouldForward(a)' <=> ShouldForward(a)
  BY <1>2 DEF InYoungGen, InOldGen, InCompactee, ShouldForward
<1>6. allocated' \subseteq allocated /\
      \A a \in allocated : InYoungGen(a) \/ a \in M => a \in allocated'
  <2>1. \A a \in Dead(1 .. segNumber, M) :
           a \notin M /\ \E i \in 1 .. segNumber : a[1] = segments[i]
    BY DEF Dead
  <2>2. 1 .. segNumber \subseteq 1 .. Len(segments)
    BY DEF IInv, Types, TypeOK
  <2>3. \A a \in Dead(1 .. segNumber, M) : ~InYoungGen(a)
    BY <2>1, <2>2 DEF IInv, Layout, OldSegments, InYoungGen
  <2>4. QED
    BY <1>2, <2>1, <2>3
<1>7. \A a : a \in Live' <=> Known(a) /\ a # Null
  BY <1>2, <1>3, <1>4, <1>5, <1>6 DEF Live
<1>8. Live' \subseteq Live
  BY <1>7 DEF Known
<1>9. dirty \subseteq dirty' /\ dirty' \subseteq {CardOf(a) : a \in Addr}
  <2>1. CompacteeCards(Visited) \subseteq {CardOf(a) : a \in Addr}
    BY WorklistVisited DEF CompacteeCards, IInv
  <2>2. QED
    BY <1>2, <2>1 DEF IInv, Types, TypeOK
<1>10. Types'
  BY <1>2, <1>3, <1>6, <1>9 DEF IInv, Types, TypeOK, Phase, Pointer
<1>11. Layout'
  BY <1>2, <1>6 DEF IInv, Layout, OldSegments
<1>12. \A a \in allocated' :
         (\E i \in segNumber' + 1 .. Len(segments') : a[1] = segments'[i]) => a \in marked'
  <2>1. SUFFICES ASSUME NEW a \in allocated', NEW i \in 1 .. Len(segments),
                        a[1] = segments[i]
                 PROVE  a \in M
    BY <1>2
  <2>2. segNumber \in Nat /\ Len(segments) \in Nat
    BY DEF IInv, Types, TypeOK
  <2>3. CASE i \in 1 .. segNumber
    BY <1>2, <2>1, <2>3 DEF Dead
  <2>4. CASE i \in segNumber + 1 .. Len(segments)
    BY <1>3, <1>6, <2>1, <2>4 DEF IInv, Cycle
  <2>5. QED
    BY <2>2, <2>3, <2>4
<1>13. Cycle'
  <2>1. marked' \subseteq allocated'
    BY <1>2, <1>3, <1>6
  <2>2. QED
    BY <1>2, <1>12, <2>1 DEF IInv, Cycle
<1>14. Control'
  BY <1>2, <1>4, <1>5, <1>6 DEF IInv, Control, AtRest, preparingCompaction
<1>15. Pointers'
  <2>1. \A a \in Live' : field'[a] \in Live' \cup {Null}
    BY <1>2, <1>7, FieldKnown
  <2>2. \A r \in Roots : roots'[r] \in Live' \cup {Null}
    BY <1>2, <1>7, RootKnown
  <2>3. weakRoot' \in Live' \cup {Null}
    <3>1. WeakLive(weakRoot, M) /\ ogMarkingBarriers => Known(weakRoot)
      BY <1>1, KnownAtEnd DEF Known, IInv, Pointers
    <3>2. ~ogMarkingBarriers => Known(weakRoot)
      BY DEF Known, IInv, Pointers
    <3>3. QED
      BY <1>2, <1>7, <3>1, <3>2
  <2>4. QED
    BY <2>1, <2>2, <2>3 DEF Pointers
<1>16. Snapshot'
  BY <1>4 DEF Snapshot
<1>17. YoungCards'
  BY <1>2, <1>5, <1>8, <1>9 DEF IInv, YoungCards, AtRest, CardOf
<1>18. Copies' = Copies
  BY <1>2 DEF Copies
<1>19. CompacteeDirty'
  <2>1. ASSUME ~doCompaction, NEW a \in Live', InOldGen(a), ~InCompactee(a),
               InCompactee(field[a])
        PROVE  CardOf(a) \in dirty' \/ a \in Copies
    <3>1. a \in Live /\ a \in M
      BY <1>3, <1>7, <1>8, <2>1 DEF InOldGen, InYoungGen
    <3>2. CASE ogMarkingBarriers /\ a \in Visited
      <4>1. CardOf(a) \in CompacteeCards(Visited)
        BY <2>1, <3>2 DEF CompacteeCards
      <4>2. QED
        BY <1>2, <3>2, <4>1
    <3>3. CASE ogMarkingBarriers => a \in marked \ worklist
      BY <1>9, <2>1, <3>1, <3>3 DEF IInv, CompacteeDirty
    <3>4. QED
      BY <1>3, <3>1, <3>2, <3>3, WorklistVisited DEF IInv
  <2>2. QED
    BY <1>2, <1>5, <1>18, <2>1 DEF CompacteeDirty, CardOf
<1>20. Evacuation'
  <2>1. \A a : Pending(a) => Pending(a)'
    BY <1>2, <1>9, <1>18 DEF Pending, ToScan, CardOf
  <2>2. ASSUME Evacuating
        PROVE  \A a \in Live' :
                  ~ShouldForward(a)' /\ ShouldForward(field[a])' => Pending(a)'
    BY <1>2, <1>5, <1>8, <2>1, <2>2 DEF IInv, Evacuation
  <2>3. ASSUME Evacuating
        PROVE  \A r \in Roots : ShouldForward(roots[r])' => pc' = "roots" /\ r >= pos'
    BY <1>2, <1>5, <2>3 DEF IInv, Evacuation
  <2>4. ASSUME Evacuating, preparingCompaction
        PROVE  \A a \in allocated' :
                  InYoungGen(field[a])' => field'[a] \in allocated'
    BY <1>2, <1>5, <1>6, <2>4 DEF IInv, Evacuation
  <2>5. QED
    BY <1>2, <2>2, <2>3, <2>4 DEF Evacuation, Evacuating, preparingCompaction
<1>21. Forwards'
  <2>1. ASSUME NEW c \in Addr, forwarding[c] # Null
        PROVE  /\ ShouldForward(c) /\ c \in Live'
               /\ forwarding[c] \in marked' /\ forwarding[c][1] \in OldSegments
    <3>1. ShouldForward(c) /\ c \in Live /\ forwarding[c] \in marked
          /\ forwarding[c][1] \in OldSegments
      BY <2>1 DEF IInv, Forwards
    <3>2. InYoungGen(c) \/ c \in marked
      BY <3>1 DEF IInv, Control, Live, ShouldForward
    <3>3. c \in Live'
      BY <1>2, <1>3, <1>4, <1>5, <1>6, <3>1, <3>2 DEF Live
    <3>4. QED
      BY <1>2, <1>3, <3>1, <3>3
  <2>2. OldSegments' = OldSegments
    BY <1>2 DEF OldSegments
  <2>3. QED
    BY <1>2, <1>5, <2>1, <2>2 DEF IInv, Forwards
<1>22. QED
  BY <1>10, <1>11, <1>13, <1>14, <1>15, <1>16, <1>17, <1>19, <1>20, <1>21 DEF IInv

\* It is completed by a program that waits, or by an evacuation that needs room.
LEMMA WaitKeeps ==
    ASSUME IInv, WaitForCollection \/ AcceptWait
    PROVE  IInv'
<1>1. /\ FinishCollection
      /\ UNCHANGED <<doCompaction, visitUnmarked, segEnd, seg, pos, copyList, pc,
                     promoteYGToOG>>
  BY DEF WaitForCollection, AcceptWait, evacVars
<1>2. QED
  BY <1>1, FinishKeeps

\* Visiting a cell keeps the invariant: what it leads to is on the worklist now, and
\* its card is dirty if that is in the compactee.
LEMMA MarkCellKeeps ==
    ASSUME IInv, MarkCell
    PROVE  IInv'
<1>1. PICK a \in worklist :
         LET new == {p \in {field[a]} : InOldGen(p) /\ p \notin marked}
         IN  /\ marked' = marked \cup new
             /\ worklist' = (worklist \ {a}) \cup new
             /\ dirty' = dirty \cup CompacteeCards({a})
  BY DEF MarkCell
<1>2. PICK q : q = field[a]
  OBVIOUS
<1>3. PICK new : new = {p \in {q} : InOldGen(p) /\ p \notin marked}
  OBVIOUS
<1>4. /\ marked' = marked \cup new
      /\ worklist' = (worklist \ {a}) \cup new
      /\ dirty' = dirty \cup CompacteeCards({a})
  BY <1>1, <1>2, <1>3
<1>5. /\ pc = "mutator" /\ phase = "Mark"
      /\ UNCHANGED <<youngGen, segments, compactee, allocated, field, forwarding, roots,
                     weakRoot, phase, segNumber, evacVars, pc, promoteYGToOG>>
  BY DEF MarkCell, heapVars, progVars
<1>6. a \in Addr /\ a \in allocated /\ a \in Live /\ ogMarkingBarriers /\ a \in marked
  BY <1>5 DEF IInv, Types, TypeOK, Cycle, Live, ogMarkingBarriers
<1>7. q \in Live \cup {Null}
  BY <1>2, <1>6 DEF IInv, Pointers
<1>8. /\ new \subseteq allocated /\ new \cap marked = {} /\ new \subseteq {q}
      /\ \A p \in new : InOldGen(p)
      /\ InOldGen(q) /\ q \notin marked => q \in new
  BY <1>3, <1>7 DEF Live, InOldGen
<1>9. dirty \subseteq dirty' /\ dirty' \subseteq {CardOf(b) : b \in Addr}
  BY <1>4, <1>6 DEF CompacteeCards, IInv, Types, TypeOK
<1>10. Types'
  BY <1>4, <1>5, <1>8, <1>9 DEF IInv, Types, TypeOK, evacVars
<1>11. Layout'
  BY <1>5 DEF IInv, Layout, OldSegments
<1>12. ogMarkingBarriers'
  BY <1>5, <1>6 DEF ogMarkingBarriers
<1>13. /\ \A b : InYoungGen(b)' <=> InYoungGen(b)
       /\ \A b : InOldGen(b)' <=> InOldGen(b)
       /\ \A b : InCompactee(b)' <=> InCompactee(b)
  BY <1>5 DEF InYoungGen, InOldGen, InCompactee
<1>14. Cycle'
  BY <1>4, <1>5, <1>8, <1>12, <1>13 DEF IInv, Cycle
<1>15. Control' /\ Evacuation' /\ Forwards'
  BY <1>5, ProgramControl
<1>16. Live' = Live
  BY <1>5, <1>6, <1>12 DEF Live
<1>17. Pointers'
  BY <1>5, <1>16 DEF IInv, Pointers
<1>18. ASSUME NEW p, Reached(p)
       PROVE  Reached(p)'
  <2>1. \A b \in Visited :
              InOldGen(field[b]) /\ field[b] \notin marked =>
                 \/ field[b] \in worklist'
                 \/ /\ b \notin {a} /\ field'[b] = field[b]
                    /\ InOldGen(field[b])' /\ field[b] \notin marked'
    BY <1>2, <1>4, <1>5, <1>8 DEF InOldGen
  <2>2. worklist \subseteq worklist' \cup {a} /\ {a} \in SUBSET Addr
    BY <1>4, <1>6
  <2>3. Visited \subseteq Visited' \cup {a}
    BY <1>10, <2>1, <2>2, StillVisited DEF IInv
  <2>4. QED
    BY <1>4, <1>6, <1>13, <1>18, <2>3 DEF Reached, WeakLive
<1>19. Snapshot'
  <2>1. ASSUME NEW b \in allocated, InYoungGen(b) \/ b \in marked' \ worklist'
        PROVE  Reached(field[b])'
    <3>1. PICK p : p = field[b]
      OBVIOUS
    <3>2. CASE b = a
      <4>1. Known(a) /\ a # Null
        <5>1. Reached(a)
          BY <1>6 DEF Reached, WeakLive
        <5>2. QED
          BY <1>6, <5>1, NullAssumption DEF Known
      <4>2. Reached(field[a])
        BY <1>6, <4>1, FieldKnown DEF Known
      <4>3. QED
        BY <1>5, <1>18, <3>1, <3>2, <4>2
    <3>3. CASE b # a
      <4>1. InYoungGen(b) \/ b \in marked \ worklist
        BY <1>4, <2>1, <3>3
      <4>2. Reached(p)
        BY <1>6, <2>1, <3>1, <4>1 DEF IInv, Snapshot
      <4>3. QED
        BY <1>5, <1>18, <3>1, <4>2
    <3>4. QED
      BY <3>2, <3>3
  <2>2. ASSUME NEW r \in Roots
        PROVE  Reached(roots[r])'
    BY <1>5, <1>6, <1>18 DEF IInv, Snapshot
  <2>3. ASSUME NEW b \in allocated, InYoungGen(field[b])
        PROVE  Reached(b)'
    BY <1>6, <1>18, <2>3 DEF IInv, Snapshot
  <2>4. QED
    BY <1>5, <1>13, <2>1, <2>2, <2>3 DEF Snapshot
<1>20. YoungCards'
  BY <1>5, <1>9, <1>13, <1>16 DEF IInv, YoungCards, AtRest, CardOf
<1>21. CompacteeDirty'
  <2>1. Copies = {} /\ ~doCompaction
    BY <1>5, NoCopies DEF IInv, AtRest, Control
  <2>2. ASSUME NEW b \in Live, InOldGen(b), ~InCompactee(b), InCompactee(field[b]),
               b \in marked' \ worklist'
        PROVE  CardOf(b) \in dirty'
    <3>1. CASE b = a
      <4>1. CardOf(a) \in CompacteeCards({a})
        BY <2>2, <3>1 DEF CompacteeCards
      <4>2. QED
        BY <1>4, <3>1, <4>1
    <3>2. CASE b # a
      <4>1. b \in marked \ worklist
        BY <1>4, <2>2, <3>2
      <4>2. QED
        BY <1>9, <2>1, <2>2, <4>1 DEF IInv, CompacteeDirty
    <3>3. QED
      BY <3>1, <3>2
  <2>3. QED
    BY <1>5, <1>12, <1>13, <1>16, <2>2 DEF CompacteeDirty, CardOf
<1>22. QED
  BY <1>10, <1>11, <1>14, <1>15, <1>17, <1>19, <1>20, <1>21 DEF IInv

\* Marking that has run dry is to be completed; nothing else changes.
LEMMA MarkEndKeeps ==
    ASSUME IInv, MarkEnd
    PROVE  IInv'
<1>1. /\ pc = "mutator" /\ phase = "Mark" /\ phase' = "CompleteMarking"
      /\ UNCHANGED <<youngGen, segments, compactee, allocated, field, marked, forwarding,
                     roots, weakRoot, segNumber, worklist, evacVars, dirty, pc,
                     promoteYGToOG>>
  BY DEF MarkEnd, heapVars, progVars, cellVars
<1>2. ogMarkingBarriers /\ ogMarkingBarriers'
  BY <1>1 DEF ogMarkingBarriers
<1>3. /\ \A b : InYoungGen(b)' <=> InYoungGen(b)
      /\ \A b : InOldGen(b)' <=> InOldGen(b)
      /\ \A b : InCompactee(b)' <=> InCompactee(b)
  BY <1>1 DEF InYoungGen, InOldGen, InCompactee
<1>4. Live' = Live /\ Visited' = Visited
  BY <1>1, <1>2 DEF Live, Visited, LeadsInside, InOldGen
<1>5. \A p : Reached(p)' <=> Reached(p)
  BY <1>1, <1>3, <1>4 DEF Reached, WeakLive
<1>6. Types' /\ Layout'
  BY <1>1 DEF IInv, Types, TypeOK, Phase, evacVars, Layout, OldSegments
<1>7. Cycle'
  BY <1>1, <1>2, <1>3 DEF IInv, Cycle
<1>8. copyList = <<>> /\ ~doCompaction /\ forwarding = [a \in Addr |-> Null]
  BY <1>1 DEF IInv, Control, AtRest
<1>9. pc' = "mutator" /\ copyList' = <<>> /\ ~doCompaction'
      /\ forwarding' = [a \in Addr |-> Null]
  BY <1>1, <1>8 DEF evacVars
<1>10. Control' /\ Evacuation' /\ Forwards'
  BY <1>9 DEF Control, Evacuation, Evacuating, Forwards, AtRest
<1>11. Pointers' /\ Snapshot'
  BY <1>1, <1>2, <1>3, <1>4, <1>5 DEF IInv, Pointers, Snapshot
<1>12. YoungCards' /\ CompacteeDirty'
  <2>1. Copies' = Copies
    BY <1>1 DEF Copies, evacVars
  <2>2. QED
    BY <1>1, <1>2, <1>3, <1>4, <1>8, <2>1
       DEF IInv, YoungCards, AtRest, CompacteeDirty, CardOf
<1>13. QED
  BY <1>6, <1>7, <1>10, <1>11, <1>12 DEF IInv

\* Sweeping frees garbage, and leaves none in the segment swept.
LEMMA SweepKeeps ==
    ASSUME IInv, SweepNext
    PROVE  IInv'
<1>1. /\ pc = "mutator" /\ phase = "Sweep"
      /\ segNumber' = IF segNumber = 0 THEN 0 ELSE segNumber - 1
      /\ phase' = IF segNumber' = 0 THEN "None" ELSE "Sweep"
      /\ allocated' = allocated \ Dead({segNumber} \ {0}, marked)
      /\ UNCHANGED <<youngGen, segments, compactee, field, marked, forwarding, roots,
                     weakRoot, worklist, evacVars, dirty, pc, promoteYGToOG>>
  BY DEF SweepNext, heapVars, progVars
<1>2. ~ogMarkingBarriers /\ ~ogMarkingBarriers'
  BY <1>1 DEF ogMarkingBarriers
<1>3. /\ \A b : InYoungGen(b)' <=> InYoungGen(b)
      /\ \A b : InOldGen(b)' <=> InOldGen(b)
      /\ \A b : InCompactee(b)' <=> InCompactee(b)
  BY <1>1 DEF InYoungGen, InOldGen, InCompactee
<1>4. segNumber \in 0 .. Len(segments) /\ Len(segments) \in Nat
  BY DEF IInv, Types, TypeOK
<1>5. allocated' \subseteq allocated
      /\ \A a \in allocated : InYoungGen(a) \/ a \in marked => a \in allocated'
  <2>1. \A a \in Dead({segNumber} \ {0}, marked) :
           a \notin marked /\ \E i \in {segNumber} \ {0} : a[1] = segments[i]
    BY DEF Dead
  <2>2. {segNumber} \ {0} \subseteq 1 .. Len(segments)
    BY <1>4
  <2>3. \A a \in Dead({segNumber} \ {0}, marked) : ~InYoungGen(a)
    BY <2>1, <2>2 DEF IInv, Layout, OldSegments, InYoungGen
  <2>4. QED
    BY <1>1, <2>1, <2>3
<1>6. Live' = Live
  BY <1>1, <1>2, <1>3, <1>5 DEF Live
<1>7. segNumber' \in 0 .. Len(segments)
  BY <1>1, <1>4
<1>8. Types'
  BY <1>1, <1>5, <1>7 DEF IInv, Types, TypeOK, Phase, evacVars
<1>9. Layout'
  BY <1>1, <1>5 DEF IInv, Layout, OldSegments
<1>10. \A a \in allocated' :
         (\E i \in segNumber' + 1 .. Len(segments') : a[1] = segments'[i]) => a \in marked'
  <2>1. SUFFICES ASSUME NEW a \in allocated', NEW i \in segNumber' + 1 .. Len(segments),
                        a[1] = segments[i]
                 PROVE  a \in marked
    BY <1>1
  <2>2. CASE i = segNumber /\ i # 0
    BY <1>1, <1>5, <2>1, <2>2 DEF Dead
  <2>3. CASE i \in segNumber + 1 .. Len(segments)
    BY <1>5, <2>1, <2>3 DEF IInv, Cycle
  <2>4. QED
    BY <1>1, <1>4, <2>2, <2>3
<1>11. Cycle'
  <2>1. marked' \subseteq allocated'
    BY <1>1, <1>5 DEF IInv, Cycle
  <2>2. phase' = "None" => segNumber' = 0
    BY <1>1
  <2>3. ~promoteYGToOG
    BY <1>1 DEF IInv, Cycle
  <2>4. QED
    BY <1>1, <1>2, <1>3, <1>10, <2>1, <2>2, <2>3 DEF IInv, Cycle
<1>12. copyList = <<>> /\ ~doCompaction /\ forwarding = [a \in Addr |-> Null]
  BY <1>1 DEF IInv, Control, AtRest
<1>13. pc' = "mutator" /\ copyList' = <<>> /\ ~doCompaction'
      /\ forwarding' = [a \in Addr |-> Null]
  BY <1>1, <1>12 DEF evacVars
<1>14. Control' /\ Evacuation' /\ Forwards'
  BY <1>13 DEF Control, Evacuation, Evacuating, Forwards, AtRest
<1>15. Pointers' /\ Snapshot'
  BY <1>1, <1>2, <1>6 DEF IInv, Pointers, Snapshot
<1>16. YoungCards' /\ CompacteeDirty'
  <2>1. Copies' = Copies
    BY <1>1 DEF Copies, evacVars
  <2>2. QED
    BY <1>1, <1>2, <1>3, <1>6, <1>12, <2>1
       DEF IInv, YoungCards, AtRest, CompacteeDirty, CardOf
<1>17. QED
  BY <1>8, <1>9, <1>11, <1>14, <1>15, <1>16 DEF IInv

------------------------------------------------------------------------------
(* The young generation collection: its phases.                               *)

\* No cell is in the segment that stands for none.
LEMMA NoSegmentIsNone ==
    /\ \A a \in Addr : a[1] # NoSegment /\ a[1] \in SegIds
                       /\ a[2] \in 1 .. SegmentSize /\ a = <<a[1], a[2]>>
    /\ \A a \in Pointer : compactee = NoSegment => ~InCompactee(a)
<1>1. \A a \in Addr : /\ a[1] \in SegIds /\ a[2] \in 1 .. SegmentSize
                     /\ a = <<a[1], a[2]>>
  BY DEF Addr
<1>2. \A a \in Addr : a[1] # NoSegment
  BY <1>1, SegmentAssumption
<1>3. QED
  BY <1>1, <1>2 DEF Pointer, InCompactee

\* Promoting the YG as it is keeps the invariant.
LEMMA PromoteKeeps ==
    ASSUME IInv, Promote
    PROVE  IInv'
<1>1. PICK u : u = LowestOf(Unused)
  OBVIOUS
<1>2. /\ pc = "mutator" /\ pc' = "yield" /\ promoteYGToOG
      /\ segments' = Append(segments, youngGen) /\ youngGen' = u
      /\ marked' = marked \cup (allocated \cap CellsOf(youngGen))
      /\ UNCHANGED <<compactee, allocated, field, forwarding, roots, weakRoot, phase,
                     segNumber, worklist, doCompaction, visitUnmarked, segEnd, seg, pos,
                     copyList, dirty, promoteYGToOG>>
  BY <1>1 DEF Promote, progVars, cycleVars, evacVars
<1>3. u \in SegIds /\ u \notin OldSegments /\ u # youngGen /\ u # compactee
  <2>1. Unused \in SUBSET SegIds /\ Unused # {}
    BY DEF Unused, Promote
  <2>2. u \in Unused
    BY <1>1, <2>1, LowestIsIn
  <2>3. QED
    BY <2>2 DEF Unused
<1>4. phase = "None" /\ compactee = NoSegment /\ segNumber = 0 /\ ~ogMarkingBarriers
      /\ worklist = {}
  BY <1>2 DEF IInv, Cycle, ogMarkingBarriers
<1>5. ~ogMarkingBarriers'
  BY <1>2, <1>4 DEF ogMarkingBarriers
<1>6. /\ segments \in Seq(SegIds) /\ youngGen \in SegIds /\ Len(segments) \in Nat
      /\ segments' \in Seq(SegIds) /\ Len(segments') = Len(segments) + 1
      /\ \A i \in 1 .. Len(segments) : segments'[i] = segments[i]
      /\ segments'[Len(segments) + 1] = youngGen
  BY <1>2 DEF IInv, Types, TypeOK
<1>7. Types'
  BY <1>2, <1>3, <1>4, <1>6 DEF IInv, Types, TypeOK, Points
<1>8. OldSegments' = OldSegments \cup {youngGen}
  <2>1. OldSegments \subseteq OldSegments' /\ youngGen \in OldSegments'
    BY <1>6 DEF OldSegments
  <2>2. \A i \in 1 .. Len(segments') : segments'[i] \in OldSegments \cup {youngGen}
    BY <1>6 DEF OldSegments
  <2>3. OldSegments' \subseteq OldSegments \cup {youngGen}
    BY <2>2 DEF OldSegments
  <2>4. QED
    BY <2>1, <2>3
<1>9. Layout'
  <2>1. \A i, j \in 1 .. Len(segments') : segments'[i] = segments'[j] => i = j
    <3>1. \A i \in 1 .. Len(segments) : segments[i] # youngGen
      BY DEF IInv, Layout, OldSegments
    <3>2. QED
      BY <1>6, <3>1 DEF IInv, Layout
  <2>2. QED
    BY <1>2, <1>3, <1>8, <2>1 DEF IInv, Layout
<1>10. \A a \in allocated : a \in Addr /\ a # Null /\ ~InYoungGen(a)'
  BY <1>2, <1>3, NullAssumption DEF IInv, Layout, Types, TypeOK, InYoungGen
<1>11. \A a \in allocated : a \in CellsOf(youngGen) <=> InYoungGen(a)
  BY <1>10, CellsAre DEF InYoungGen
<1>12. Live' = Live
  BY <1>2, <1>4, <1>5, <1>10, <1>11 DEF Live
<1>13. Cycle'
  <2>1. \A a \in allocated : a \in marked'
    <3>1. \A a \in allocated : a[1] \in OldSegments \cup {youngGen}
      BY <1>4, <1>10, NoSegmentIsNone DEF IInv, Layout
    <3>2. \A a \in allocated : a[1] \in OldSegments => a \in marked
      BY <1>4 DEF IInv, Cycle, OldSegments
    <3>3. QED
      BY <1>2, <1>10, <3>1, <3>2, CellsAre
  <2>2. marked' \subseteq allocated
    BY <1>2 DEF IInv, Cycle
  <2>3. QED
    BY <1>2, <1>4, <1>5, <2>1, <2>2 DEF Cycle
<1>14. Control'
  BY <1>2, <1>10 DEF IInv, Control, AtRest
<1>15. Pointers' /\ Snapshot'
  BY <1>2, <1>5, <1>12 DEF IInv, Pointers, Snapshot
<1>16. YoungCards'
  <2>1. \A a \in Live : ~InYoungGen(field[a])'
    BY <1>2, <1>10 DEF IInv, Pointers, Live, InYoungGen
  <2>2. QED
    BY <1>12, <2>1 DEF YoungCards
<1>17. CompacteeDirty'
  <2>1. \A a \in Live : ~InCompactee(field[a])'
    BY <1>2, <1>4, <1>10, NoSegmentIsNone DEF IInv, Pointers, Live, InCompactee
  <2>2. QED
    BY <1>12, <2>1 DEF CompacteeDirty
<1>18. Evacuation' /\ Forwards'
  BY <1>2 DEF Evacuation, Evacuating, Forwards, IInv, Control, AtRest
<1>19. QED
  BY <1>7, <1>9, <1>13, <1>14, <1>15, <1>16, <1>17, <1>18 DEF IInv

\* Steps that move the evacuation on and leave the cells and the roots alone.
LEMMA HeapSame ==
    ASSUME IInv,
           UNCHANGED <<heapVars, cellVars, roots, weakRoot, cycleVars>>
    PROVE  /\ Layout' /\ Pointers' /\ Snapshot'
           /\ (promoteYGToOG' => promoteYGToOG) => Cycle'
           /\ Live' = Live /\ OldSegments' = OldSegments
           /\ ogMarkingBarriers' <=> ogMarkingBarriers
           /\ \A b : InYoungGen(b)' <=> InYoungGen(b)
           /\ \A b : InOldGen(b)' <=> InOldGen(b)
           /\ \A b : InCompactee(b)' <=> InCompactee(b)
<1>1. UNCHANGED <<youngGen, segments, compactee, allocated, field, marked, forwarding,
                  roots, weakRoot, phase, segNumber, worklist>>
  BY DEF heapVars, cellVars, cycleVars
<1>2. ogMarkingBarriers' <=> ogMarkingBarriers
  BY <1>1 DEF ogMarkingBarriers
<1>3. /\ \A b : InYoungGen(b)' <=> InYoungGen(b)
      /\ \A b : InOldGen(b)' <=> InOldGen(b)
      /\ \A b : InCompactee(b)' <=> InCompactee(b)
  BY <1>1 DEF InYoungGen, InOldGen, InCompactee
<1>4. Live' = Live /\ Visited' = Visited /\ OldSegments' = OldSegments
  BY <1>1, <1>2 DEF Live, Visited, LeadsInside, InOldGen, InYoungGen, OldSegments
<1>5. \A p : Reached(p)' <=> Reached(p)
  BY <1>1, <1>3, <1>4 DEF Reached, WeakLive
<1>6. Layout'
  BY <1>1, <1>4 DEF IInv, Layout
<1>7. Pointers' /\ Snapshot'
  BY <1>1, <1>2, <1>3, <1>4, <1>5 DEF IInv, Pointers, Snapshot
<1>8. (promoteYGToOG' => promoteYGToOG) => Cycle'
  BY <1>1, <1>2, <1>3 DEF IInv, Cycle
<1>9. QED
  BY <1>2, <1>3, <1>4, <1>6, <1>7, <1>8

\* A collection begins with every pointer to what will move where it looks.
LEMMA CollectionBegins ==
    ASSUME IInv, YoungGenCollection
    PROVE  IInv'
<1>1. /\ pc = "mutator" /\ pc' = "roots" /\ pos' = 1 /\ ~promoteYGToOG'
      /\ doCompaction' <=> compactee # NoSegment /\ phase \in {"Sweep", "None"}
      /\ UNCHANGED <<heapVars, cellVars, roots, weakRoot, cycleVars, visitUnmarked,
                     segEnd, seg, copyList, dirty>>
  BY DEF YoungGenCollection, progVars
<1>2. /\ Layout' /\ Pointers' /\ Snapshot' /\ Cycle' /\ Live' = Live
      /\ ogMarkingBarriers' <=> ogMarkingBarriers
      /\ \A b : InYoungGen(b)' <=> InYoungGen(b)
      /\ \A b : InOldGen(b)' <=> InOldGen(b)
      /\ \A b : InCompactee(b)' <=> InCompactee(b)
  BY <1>1, HeapSame
<1>3. Types'
  BY <1>1 DEF IInv, Types, TypeOK, heapVars, cellVars, cycleVars, Points
<1>4. ~doCompaction /\ copyList = <<>> /\ forwarding = [a \in Addr |-> Null]
      /\ Copies = {}
  BY <1>1, NoCopies DEF IInv, Control, AtRest
<1>5. phase \in Phase /\ UNCHANGED <<compactee, phase, field, allocated, forwarding>>
  BY <1>1 DEF IInv, Types, TypeOK, heapVars, cellVars, cycleVars
<1>6. ogMarkingBarriers <=> phase \notin {"Sweep", "None"}
  BY <1>5 DEF ogMarkingBarriers, Phase
<1>7. Control'
  BY <1>1, <1>2, <1>6, <1>5 DEF Control, AtRest
<1>8. YoungCards'
  BY <1>1 DEF YoungCards, AtRest
<1>9. CompacteeDirty'
  <2>1. Copies' = Copies
    BY <1>1, <1>5 DEF Copies
  <2>2. UNCHANGED <<dirty, marked, worklist, field>>
    BY <1>1 DEF cellVars, cycleVars
  <2>3. QED
    BY <1>2, <1>4, <2>1, <2>2 DEF IInv, CompacteeDirty, CardOf
<1>10. Evacuation'
  <2>1. ASSUME NEW a \in Live, ~ShouldForward(a)', ShouldForward(field[a])'
        PROVE  Pending(a)'
    <3>1. InOldGen(a)
      BY <1>2, <2>1, NullAssumption
         DEF ShouldForward, InOldGen, InYoungGen, Live, IInv, Types, TypeOK
    <3>2. CASE InYoungGen(field[a])
      BY <1>1, <2>1, <3>1, <3>2
         DEF IInv, YoungCards, AtRest, Pending, ToScan, CardOf
    <3>3. CASE ~InYoungGen(field[a])
      <4>1. doCompaction' /\ InCompactee(field[a]) /\ ~InCompactee(a)
        BY <1>2, <1>5, <2>1, <3>3 DEF ShouldForward
      <4>2. CardOf(a) \in dirty
        BY <1>1, <1>4, <1>6, <2>1, <3>1, <4>1 DEF IInv, CompacteeDirty
      <4>3. QED
        BY <1>1, <4>2 DEF Pending, ToScan, CardOf
    <3>4. QED
      BY <3>2, <3>3
  <2>2. ASSUME preparingCompaction'
        PROVE  \A a \in allocated' : InYoungGen(field[a])' => field'[a] \in allocated'
    <3>1. ogMarkingBarriers
      BY <1>1, <1>5, <1>6, <2>2 DEF preparingCompaction
    <3>2. \A a \in allocated : field[a] \in allocated \cup {Null}
      BY <3>1 DEF IInv, Pointers, Live
    <3>3. QED
      BY <1>5, <3>2 DEF InYoungGen
  <2>3. \A r \in Roots : ShouldForward(roots[r])' => pc' = "roots" /\ r >= pos'
    BY <1>1 DEF Roots
  <2>4. QED
    BY <1>2, <2>1, <2>2, <2>3 DEF Evacuation
<1>11. Forwards'
  BY <1>1, <1>4, <1>5 DEF Forwards
<1>12. QED
  BY <1>2, <1>3, <1>7, <1>8, <1>9, <1>10, <1>11 DEF IInv

\* The cell whose field is visited: on a dirty card of the segment that is scanned,
\* or the first one on the copy list.
LEMMA CurrentCellIs ==
    ASSUME IInv, Waiting, CurrentCell # Null
    PROVE  /\ \/ /\ pc = "cards" /\ seg <= segEnd /\ pos <= SegmentSize
                 /\ CurrentCell = <<segments[seg], pos>> /\ OnDirtyCard(CurrentCell)
                 /\ CurrentCell[1] \in OldSegments
              \/ /\ pc = "compactee" /\ preparingCompaction /\ pos <= SegmentSize
                 /\ CurrentCell = <<compactee, pos>> /\ OnDirtyCard(CurrentCell)
              \/ /\ pc = "copy" /\ copyList # <<>>
                 /\ CurrentCell = forwarding[Head(copyList)]
                 /\ CurrentCell[1] \in OldSegments /\ CurrentCell \in marked
           /\ CurrentCell \in Addr /\ CurrentCell \in allocated
           /\ InOldGen(CurrentCell) /\ ~ShouldForward(CurrentCell)
<1>1. PICK x : x = CurrentCell
  OBVIOUS
<1>2. x # Null
  BY <1>1
<1>3. /\ \/ /\ pc = "cards" /\ seg <= segEnd /\ pos <= SegmentSize
            /\ x = <<segments[seg], pos>> /\ OnDirtyCard(x) /\ x[1] \in OldSegments
         \/ /\ pc = "compactee" /\ preparingCompaction /\ pos <= SegmentSize
            /\ x = <<compactee, pos>> /\ OnDirtyCard(x)
         \/ /\ pc = "copy" /\ copyList # <<>> /\ x = forwarding[Head(copyList)]
            /\ x[1] \in OldSegments /\ x \in marked
      /\ x \in allocated
  <2>1. CASE Scanning /\ OnDirtyCard(<<Scanned, pos>>)
    <3>1. x = <<Scanned, pos>> /\ x \in allocated
      BY <1>1, <2>1 DEF CurrentCell, OnDirtyCard
    <3>2. CASE pc = "compactee"
      BY <2>1, <3>1, <3>2 DEF IInv, Control, Scanned, Scanning
    <3>3. CASE pc # "compactee"
      <4>1. pc = "cards" /\ seg <= segEnd /\ pos <= SegmentSize
        BY <2>1, <3>3 DEF Scanning
      <4>2. x = <<segments[seg], pos>> /\ x[1] = segments[seg]
        BY <3>1, <4>1 DEF Scanned
      <4>3. seg \in 1 .. Len(segments)
        BY <4>1 DEF IInv, Control, Types, TypeOK
      <4>4. x[1] \in OldSegments
        BY <4>2, <4>3 DEF OldSegments
      <4>5. QED
        BY <2>1, <3>1, <4>1, <4>2, <4>4
    <3>4. QED
      BY <3>2, <3>3
  <2>2. CASE ~(Scanning /\ OnDirtyCard(<<Scanned, pos>>))
    <3>1. pc = "copy" /\ copyList # <<>> /\ x = forwarding[Head(copyList)]
      BY <1>1, <1>2, <2>2 DEF CurrentCell, Waiting
    <3>2. 1 \in 1 .. Len(copyList) /\ Head(copyList) = copyList[1] /\ copyList[1] \in Addr
      BY <3>1 DEF IInv, Types
    <3>3. x \in marked /\ x[1] \in OldSegments
      BY <3>1, <3>2 DEF IInv, Forwards
    <3>4. QED
      BY <3>1, <3>3 DEF IInv, Cycle
  <2>3. QED
    BY <2>1, <2>2
<1>4. x \in Addr
  BY <1>3 DEF IInv, Types, TypeOK
<1>5. InOldGen(x) /\ ~ShouldForward(x)
  BY <1>2, <1>3
     DEF InOldGen, ShouldForward, InYoungGen, InCompactee, preparingCompaction, IInv, Layout
<1>6. QED
  BY <1>1, <1>3, <1>4, <1>5

\* Whatever is to be forwarded is live: dead cells are visited on no card but those
\* of a compactee being prepared, and what they lead to in the YG is still there.
LEMMA CurrentLive ==
    ASSUME IInv, Waiting, AtPointer, ShouldForward(Current)
    PROVE  Current \in Live /\ Current \in Addr
<1>0. Current # Null
  BY DEF ShouldForward, InYoungGen, InCompactee
<1>1. CASE AtRoot
  <2>1. pos \in Roots
    <3>1. pc = "roots" /\ pos <= NumRoots
      BY <1>1 DEF AtRoot
    <3>2. pos >= 1
      BY <3>1 DEF IInv, Control
    <3>3. QED
      BY <3>1, <3>2, BoundAssumption DEF Roots, IInv, Types
  <2>2. QED
    BY <1>0, <1>1, <2>1 DEF Current, IInv, Pointers, Live, Types, TypeOK
<1>2. CASE ~AtRoot
  <2>1. PICK x : x = CurrentCell
    OBVIOUS
  <2>2. x # Null /\ Current = field[x]
    BY <1>2, <2>1 DEF AtPointer, Current
  <2>3. x \in allocated /\ x \in Addr
    BY <2>1, <2>2, CurrentCellIs
  <2>4. CASE x \in Live
    BY <1>0, <2>2, <2>4 DEF IInv, Pointers, Live, Types, TypeOK
  <2>5. CASE x \notin Live
    <3>1. ~ogMarkingBarriers /\ x \notin marked
      BY <2>3, <2>5 DEF Live
    <3>2. /\ pc \in {"cards", "compactee"} /\ OnDirtyCard(x)
          /\ pc = "cards" => x[1] \in OldSegments
          /\ pc = "compactee" => preparingCompaction
      BY <2>1, <2>2, <3>1, CurrentCellIs
    <3>3. phase = "None" /\ segNumber = 0
      BY <3>1, <3>2 DEF OnDirtyCard, IInv, Control, Cycle, ogMarkingBarriers, Types,
                        TypeOK, Phase
    <3>4. CASE pc = "cards"
      <4>1. PICK i \in 1 .. Len(segments) : x[1] = segments[i]
        BY <3>2, <3>4 DEF OldSegments
      <4>2. QED
        BY <2>3, <3>1, <3>3, <4>1 DEF IInv, Cycle
    <3>5. CASE pc = "compactee"
      <4>1. InYoungGen(field[x])
        BY <2>2, <3>2, <3>5 DEF preparingCompaction, ShouldForward
      <4>2. field[x] \in allocated
        BY <2>3, <3>2, <3>5, <4>1 DEF IInv, Evacuation, Evacuating
      <4>3. QED
        BY <2>2, <4>1, <4>2 DEF Live, IInv, Types, TypeOK
    <3>6. QED
      BY <3>2, <3>4, <3>5
  <2>6. QED
    BY <2>4, <2>5
<1>3. QED
  BY <1>1, <1>2

\* Visiting a pointer leaves everything else to do that was: other cells on dirty
\* cards, other copies, other roots.
LEMMA VisitLeaves ==
    ASSUME IInv, Waiting, AtPointer, Advance,
           UNCHANGED <<compactee, pc, seg, segEnd>>,
           dirty \subseteq dirty',
           \A i \in 1 .. Len(segments) : segments'[i] = segments[i],
           \A c \in Addr : forwarding[c] # Null => forwarding'[c] = forwarding[c],
           \A k \in 1 .. Len(Popped) :
              \E m \in 1 .. Len(copyList') : copyList'[m] = Popped[k]
    PROVE  /\ Evacuating
           /\ \A a : a \in Copies /\ a # CurrentCell => a \in Copies'
           /\ \A a \in Addr : Pending(a) /\ a # CurrentCell => Pending(a)'
           /\ \A r \in Roots : pc = "roots" /\ r >= pos /\ ~(AtRoot /\ r = pos)
                                  => pc' = "roots" /\ r >= pos'
           /\ AtRoot => CurrentCell = Null
<1>1. pos \in Nat /\ copyList \in Seq(Addr)
  BY DEF IInv, Types
<1>2. AtRoot => CurrentCell = Null /\ pc = "roots"
  BY DEF AtRoot, CurrentCell, Scanning
<1>3. Evacuating
  BY <1>2, CurrentCellIs DEF AtPointer, Evacuating
<1>4. ASSUME NEW a, a \in Copies, a # CurrentCell
      PROVE  a \in Copies'
  <2>1. PICK k \in 1 .. Len(copyList) : a = forwarding[copyList[k]]
    BY <1>4 DEF Copies
  <2>2. copyList[k] \in Addr /\ forwarding[copyList[k]] # Null
    BY <1>1, <2>1 DEF IInv, Forwards
  <2>3. forwarding'[copyList[k]] = a
    BY <2>1, <2>2
  <2>4. \E m \in 1 .. Len(copyList') : copyList'[m] = copyList[k]
    <3>1. CASE pc # "copy"
      BY <2>1, <3>1 DEF Popped
    <3>2. CASE pc = "copy"
      <4>1. copyList # <<>> /\ Head(copyList) = copyList[1]
        BY <1>1, <2>1
      <4>2. CurrentCell = forwarding[copyList[1]]
        BY <3>2, <4>1 DEF CurrentCell, Scanning
      <4>3. k # 1
        BY <1>4, <2>1, <4>2
      <4>4. /\ Len(Tail(copyList)) = Len(copyList) - 1
            /\ \A m \in 1 .. Len(Tail(copyList)) : Tail(copyList)[m] = copyList[m + 1]
        BY <1>1, <4>1
      <4>5. k - 1 \in 1 .. Len(Tail(copyList)) /\ Tail(copyList)[k - 1] = copyList[k]
        BY <1>1, <2>1, <4>3, <4>4
      <4>6. QED
        BY <3>2, <4>5 DEF Popped
    <3>3. QED
      BY <3>1, <3>2
  <2>5. QED
    BY <2>3, <2>4 DEF Copies
<1>5. ASSUME NEW a \in Addr, ToScan(a), a # CurrentCell
      PROVE  ToScan(a)'
  <2>1. CASE pc = "roots"
    BY <2>1 DEF ToScan
  <2>2. CASE pc = "cards"
    <3>1. CurrentCell = <<segments[seg], pos>> /\ seg <= segEnd /\ pos' = pos + 1
      BY <1>2, <2>2, CurrentCellIs DEF AtPointer, Advance
    <3>2. CASE a[1] = compactee
      BY <2>2, <3>2 DEF ToScan
    <3>3. CASE a[1] # compactee
      <4>1. PICK j \in seg .. segEnd : a[1] = segments[j] /\ (j = seg => a[2] >= pos)
        BY <1>5, <2>2, <3>3 DEF ToScan
      <4>2. j \in 1 .. Len(segments)
        BY <2>2, <4>1 DEF IInv, Control, Types, TypeOK
      <4>3. segments'[j] = a[1]
        BY <4>1, <4>2
      <4>4. a[2] \in Nat /\ a = <<a[1], a[2]>>
        BY NoSegmentIsNone
      <4>5. j = seg => a[2] >= pos'
        BY <1>1, <1>5, <3>1, <4>1, <4>4
      <4>6. j \in seg' .. segEnd'
        BY <4>1
      <4>7. QED
        BY <2>2, <4>3, <4>5, <4>6 DEF ToScan
    <3>4. QED
      BY <3>2, <3>3
  <2>3. CASE pc = "compactee"
    <3>1. CurrentCell = <<compactee, pos>> /\ pos' = pos + 1
      BY <1>2, <2>3, CurrentCellIs DEF AtPointer, Advance
    <3>2. a[1] = compactee /\ a[2] >= pos
      BY <1>5, <2>3 DEF ToScan
    <3>3. a[2] \in Nat /\ a = <<a[1], a[2]>>
      BY NoSegmentIsNone
    <3>4. a[2] >= pos'
      BY <1>1, <1>5, <3>1, <3>2, <3>3
    <3>5. QED
      BY <2>3, <3>2, <3>4 DEF ToScan
  <2>4. QED
    BY <1>5, <2>1, <2>2, <2>3 DEF ToScan
<1>6. ASSUME NEW a \in Addr, Pending(a), a # CurrentCell
      PROVE  Pending(a)'
  BY <1>4, <1>5, <1>6 DEF Pending, CardOf
<1>7. ASSUME NEW r \in Roots, pc = "roots", r >= pos, ~(AtRoot /\ r = pos)
      PROVE  pc' = "roots" /\ r >= pos'
  <2>1. AtRoot
    BY <1>7, CurrentCellIs DEF AtPointer
  <2>2. pos' = pos + 1
    BY <1>7 DEF Advance
  <2>3. QED
    BY <1>1, <1>7, <2>1, <2>2 DEF Roots
<1>8. QED
  BY <1>2, <1>3, <1>4, <1>6, <1>7

\* A popped cell is the first of the copy list; the others stay.
LEMMA PoppedFacts ==
    ASSUME IInv, Waiting, AtPointer, Advance
    PROVE  /\ Popped \in Seq(Addr) /\ pos' \in Nat /\ (pc = "roots" => pos' >= 1)
           /\ \A k \in 1 .. Len(Popped) : \E m \in 1 .. Len(copyList) :
                 Popped[k] = copyList[m]
<1>1. copyList \in Seq(Addr) /\ pos \in Nat
  BY DEF IInv, Types
<1>2. CASE pc = "copy"
  <2>1. copyList # <<>>
    BY <1>2, CurrentCellIs DEF AtPointer, AtRoot
  <2>2. /\ Tail(copyList) \in Seq(Addr) /\ Len(Tail(copyList)) = Len(copyList) - 1
        /\ \A m \in 1 .. Len(Tail(copyList)) : Tail(copyList)[m] = copyList[m + 1]
    BY <1>1, <2>1
  <2>3. \A m \in 1 .. Len(Tail(copyList)) : m + 1 \in 1 .. Len(copyList)
    BY <1>1, <2>1, <2>2
  <2>4. Popped = Tail(copyList) /\ pos' = pos
    BY <1>2 DEF Popped, Advance
  <2>5. QED
    BY <1>1, <1>2, <2>2, <2>3, <2>4
<1>3. CASE pc # "copy"
  BY <1>1, <1>3 DEF Popped, Advance
<1>4. QED
  BY <1>2, <1>3

\* A pointer that is not forwarded: nothing moves, and the card is dirtied if it
\* leads into a compactee that is being prepared.
LEMMA AcceptOtherKeeps ==
    ASSUME IInv, Waiting, AcceptOther
    PROVE  IInv'
<1>1. /\ AtPointer /\ ~ShouldForward(Current) /\ Advance /\ copyList' = Popped
      /\ dirty' = IF ~AtRoot /\ InCompactee(Current)
                  THEN dirty \cup {CardOf(CurrentCell)} ELSE dirty
      /\ UNCHANGED <<heapVars, cellVars, roots, weakRoot, cycleVars, doCompaction,
                     visitUnmarked, segEnd, seg, pc, promoteYGToOG>>
  BY DEF AcceptOther, progVars
<1>2. UNCHANGED <<compactee, segments, field, allocated, marked, worklist, forwarding,
                  phase>>
  BY <1>1 DEF heapVars, cellVars, cycleVars
<1>3. /\ Layout' /\ Pointers' /\ Snapshot' /\ Cycle' /\ Live' = Live
      /\ OldSegments' = OldSegments
      /\ ogMarkingBarriers' <=> ogMarkingBarriers
      /\ \A b : InYoungGen(b)' <=> InYoungGen(b)
      /\ \A b : InOldGen(b)' <=> InOldGen(b)
      /\ \A b : InCompactee(b)' <=> InCompactee(b)
  BY <1>1, HeapSame
<1>4. \A b : ShouldForward(b)' <=> ShouldForward(b)
  BY <1>1, <1>3 DEF ShouldForward
<1>5. ~AtRoot => CurrentCell # Null /\ CurrentCell \in Addr /\ Current = field[CurrentCell]
  BY <1>1, CurrentCellIs DEF AtPointer, Current
<1>6. dirty \subseteq dirty' /\ dirty' \subseteq {CardOf(a) : a \in Addr}
  BY <1>1, <1>5 DEF IInv, Types, TypeOK
<1>7. copyList' \in Seq(Addr) /\ pos' \in Nat
      /\ \A k \in 1 .. Len(copyList') : \E m \in 1 .. Len(copyList) :
            copyList'[k] = copyList[m]
  BY <1>1, PoppedFacts
<1>8. Types'
  BY <1>1, <1>6, <1>7 DEF IInv, Types, TypeOK, heapVars, cellVars, cycleVars
<1>9. /\ Evacuating
      /\ \A a : a \in Copies /\ a # CurrentCell => a \in Copies'
      /\ \A a \in Addr : Pending(a) /\ a # CurrentCell => Pending(a)'
      /\ \A r \in Roots : pc = "roots" /\ r >= pos /\ ~(AtRoot /\ r = pos)
                             => pc' = "roots" /\ r >= pos'
  <2>1. \A k \in 1 .. Len(Popped) :
              \E m \in 1 .. Len(copyList') : copyList'[m] = Popped[k]
    BY <1>1
  <2>2. UNCHANGED <<compactee, pc, seg, segEnd, segments, forwarding>>
    BY <1>1, <1>2
  <2>3. QED
    BY <1>1, <1>6, <2>1, <2>2, VisitLeaves
<1>10. Control'
  <2>1. pc = "roots" => pos' >= 1
    BY <1>1 DEF Advance, IInv, Control, Types
  <2>2. QED
    BY <1>1, <1>2, <1>3, <1>9, <2>1
       DEF IInv, Control, AtRest, Evacuating, preparingCompaction
<1>11. YoungCards'
  BY <1>1, <1>9 DEF YoungCards, AtRest, Evacuating
<1>12. CompacteeDirty'
  <2>1. ASSUME ~doCompaction, NEW a \in Live,
               InOldGen(a), ~InCompactee(a), InCompactee(field[a]),
               ogMarkingBarriers => a \in marked \ worklist
        PROVE  CardOf(a) \in dirty' \/ a \in Copies'
    <3>1. CardOf(a) \in dirty \/ a \in Copies
      BY <2>1 DEF IInv, CompacteeDirty
    <3>2. CASE a # CurrentCell
      BY <1>6, <1>9, <3>1, <3>2
    <3>3. CASE a = CurrentCell
      <4>1. a # Null
        BY NullAssumption DEF Live, IInv, Types, TypeOK
      <4>2. ~AtRoot
        BY <3>3, <4>1 DEF CurrentCell, AtRoot, Scanning
      <4>3. QED
        BY <1>1, <1>5, <2>1, <3>3, <4>2
    <3>4. QED
      BY <3>2, <3>3
  <2>2. QED
    BY <1>1, <1>2, <1>3, <2>1 DEF CompacteeDirty, CardOf
<1>13. Evacuation'
  <2>1. ASSUME NEW a \in Live, ~ShouldForward(a), ShouldForward(field[a])
        PROVE  Pending(a)'
    <3>1. Pending(a) /\ a \in Addr /\ a # Null
      BY <1>9, <2>1, NullAssumption DEF IInv, Evacuation, Live, Types, TypeOK
    <3>2. a # CurrentCell
      <4>1. AtRoot => CurrentCell = Null
        BY DEF CurrentCell, AtRoot, Scanning
      <4>2. QED
        BY <1>1, <1>5, <2>1, <3>1, <4>1
    <3>3. QED
      BY <1>9, <3>1, <3>2
  <2>2. ASSUME NEW r \in Roots, ShouldForward(roots[r])
        PROVE  pc' = "roots" /\ r >= pos'
    <3>1. pc = "roots" /\ r >= pos
      BY <1>9, <2>2 DEF IInv, Evacuation
    <3>2. ~(AtRoot /\ r = pos)
      BY <1>1, <2>2 DEF Current
    <3>3. QED
      BY <1>9, <3>1, <3>2
  <2>3. preparingCompaction' <=> preparingCompaction
    BY <1>1, <1>2 DEF preparingCompaction
  <2>4. QED
    BY <1>1, <1>2, <1>3, <1>4, <1>9, <2>1, <2>2, <2>3 DEF IInv, Evacuation
<1>14. Forwards'
  <2>1. UNCHANGED <<forwarding, marked, OldSegments, Live>>
    BY <1>2, <1>3
  <2>2. \A k \in 1 .. Len(copyList') : forwarding[copyList'[k]] # Null
    BY <1>7 DEF IInv, Forwards
  <2>3. QED
    BY <1>4, <2>1, <2>2 DEF IInv, Forwards
<1>15. QED
  BY <1>3, <1>8, <1>10, <1>11, <1>12, <1>13, <1>14 DEF IInv

\* What HeapSame says, and the parts of the invariant that follow when the copy list
\* and the segments to move stay as they are.
LEMMA ScanSame ==
    ASSUME IInv,
           UNCHANGED <<heapVars, cellVars, roots, weakRoot, cycleVars, doCompaction,
                       copyList, promoteYGToOG>>
    PROVE  /\ Layout' /\ Pointers' /\ Snapshot' /\ Cycle' /\ Forwards'
           /\ dirty \subseteq dirty' => CompacteeDirty'
           /\ Live' = Live /\ OldSegments' = OldSegments /\ Copies' = Copies
           /\ \A b : ShouldForward(b)' <=> ShouldForward(b)
           /\ \A b : InYoungGen(b)' <=> InYoungGen(b)
           /\ preparingCompaction' <=> preparingCompaction
           /\ ogMarkingBarriers' <=> ogMarkingBarriers
           /\ UNCHANGED <<compactee, segments, field, allocated, marked, worklist,
                          forwarding, phase>>
<1>1. UNCHANGED <<compactee, segments, field, allocated, marked, worklist,
                  forwarding, phase>>
  BY DEF heapVars, cellVars, cycleVars
<1>2. /\ Layout' /\ Pointers' /\ Snapshot' /\ Cycle' /\ Live' = Live
      /\ OldSegments' = OldSegments
      /\ ogMarkingBarriers' <=> ogMarkingBarriers
      /\ \A b : InYoungGen(b)' <=> InYoungGen(b)
      /\ \A b : InOldGen(b)' <=> InOldGen(b)
      /\ \A b : InCompactee(b)' <=> InCompactee(b)
  BY HeapSame
<1>3. \A b : ShouldForward(b)' <=> ShouldForward(b)
  BY <1>2 DEF ShouldForward
<1>4. Copies' = Copies /\ (preparingCompaction' <=> preparingCompaction)
  BY <1>1 DEF Copies, preparingCompaction
<1>5. Forwards'
  BY <1>1, <1>2, <1>3 DEF IInv, Forwards
<1>6. ASSUME dirty \subseteq dirty'
      PROVE  CompacteeDirty'
  BY <1>1, <1>2, <1>4, <1>6 DEF IInv, CompacteeDirty, CardOf
<1>7. QED
  BY <1>1, <1>2, <1>3, <1>4, <1>5, <1>6

\* The roots are done: none leads to a cell that is to move, and every card of the
\* OG is still to be scanned.
LEMMA RootsEndKeeps ==
    ASSUME IInv, RootsEnd
    PROVE  IInv'
<1>1. /\ pc = "roots" /\ pos > NumRoots
      /\ pc' = "cards" /\ seg' = 1 /\ pos' = 1 /\ segEnd' = Len(segments)
      /\ visitUnmarked' <=> phase # "Sweep"
      /\ UNCHANGED <<heapVars, cellVars, roots, weakRoot, cycleVars, doCompaction,
                     copyList, dirty, promoteYGToOG>>
  BY DEF RootsEnd, progVars
<1>2. /\ Layout' /\ Pointers' /\ Snapshot' /\ Cycle' /\ Forwards' /\ CompacteeDirty'
      /\ Live' = Live /\ OldSegments' = OldSegments /\ Copies' = Copies
      /\ \A b : ShouldForward(b)' <=> ShouldForward(b)
      /\ \A b : InYoungGen(b)' <=> InYoungGen(b)
      /\ preparingCompaction' <=> preparingCompaction
      /\ ogMarkingBarriers' <=> ogMarkingBarriers
      /\ UNCHANGED <<compactee, segments, field, allocated, marked, worklist,
                     forwarding, phase>>
  BY <1>1, ScanSame
<1>3. Len(segments) \in Nat
  BY DEF IInv, Types, TypeOK
<1>4. Types'
  BY <1>1, <1>3 DEF IInv, Types, TypeOK, heapVars, cellVars, cycleVars, Points
<1>5. Control'
  BY <1>1, <1>2, <1>3 DEF IInv, Control, AtRest, ogMarkingBarriers
<1>6. YoungCards'
  BY <1>1 DEF YoungCards, AtRest
<1>7. Evacuation'
  <2>1. ASSUME NEW a \in Live, ~ShouldForward(a), ShouldForward(field[a])
        PROVE  Pending(a)'
    <3>1. Pending(a) /\ a \in Addr /\ a # Null /\ a \in allocated
      BY <1>1, <2>1, NullAssumption
         DEF IInv, Evacuation, Evacuating, Live, Types, TypeOK
    <3>2. a[1] # youngGen /\ a[1] \in OldSegments \cup {compactee}
      BY <2>1, <3>1 DEF IInv, Layout, ShouldForward, InYoungGen
    <3>3. a[2] >= 1
      BY <3>1, NoSegmentIsNone
    <3>4. ToScan(a)'
      BY <1>1, <1>2, <3>2, <3>3 DEF ToScan, OldSegments
    <3>5. QED
      BY <1>1, <1>2, <3>1, <3>4 DEF Pending, CardOf
  <2>2. \A r \in Roots : ~ShouldForward(roots[r])
    BY <1>1, BoundAssumption DEF IInv, Types, Evacuation, Evacuating, Roots
  <2>3. preparingCompaction =>
           \A a \in allocated : InYoungGen(field[a]) => field[a] \in allocated
    BY <1>1 DEF IInv, Evacuation, Evacuating
  <2>4. UNCHANGED <<roots, field, allocated>>
    BY <1>1, <1>2
  <2>5. QED
    BY <1>2, <2>1, <2>2, <2>3, <2>4 DEF Evacuation
<1>8. QED
  BY <1>2, <1>4, <1>5, <1>6, <1>7 DEF IInv

\* A cell that is skipped leads to nothing that is to move: it is not allocated, its
\* card is clean, or it is unmarked while sweeping and so dead.
LEMMA SkipKeeps ==
    ASSUME IInv, SkipCell
    PROVE  IInv'
<1>1. /\ Scanning /\ ~OnDirtyCard(<<Scanned, pos>>)
      /\ pos' = pos + 1
      /\ UNCHANGED <<heapVars, cellVars, roots, weakRoot, cycleVars, doCompaction,
                     visitUnmarked, segEnd, seg, copyList, dirty, pc, promoteYGToOG>>
  BY DEF SkipCell, progVars
<1>2. /\ Layout' /\ Pointers' /\ Snapshot' /\ Cycle' /\ Forwards' /\ CompacteeDirty'
      /\ Live' = Live /\ OldSegments' = OldSegments /\ Copies' = Copies
      /\ \A b : ShouldForward(b)' <=> ShouldForward(b)
      /\ \A b : InYoungGen(b)' <=> InYoungGen(b)
      /\ preparingCompaction' <=> preparingCompaction
      /\ ogMarkingBarriers' <=> ogMarkingBarriers
      /\ UNCHANGED <<compactee, segments, field, allocated, marked, worklist,
                     forwarding, phase>>
  BY <1>1, ScanSame
<1>3. pos \in Nat
  BY DEF IInv, Types
<1>4. Types'
  BY <1>1, <1>3 DEF IInv, Types, TypeOK, heapVars, cellVars, cycleVars
<1>5. pc \in {"cards", "compactee"} /\ Evacuating
  BY <1>1 DEF Scanning, Evacuating
<1>6. Control'
  BY <1>1, <1>2, <1>5 DEF IInv, Control, AtRest
<1>7. YoungCards'
  BY <1>1, <1>5 DEF YoungCards, AtRest
<1>8. Evacuation'
  <2>1. ASSUME NEW a \in Live, ~ShouldForward(a), ShouldForward(field[a])
        PROVE  Pending(a)'
    <3>1. Pending(a) /\ a \in Addr /\ a # Null /\ a \in allocated
      BY <1>5, <2>1, NullAssumption DEF IInv, Evacuation, Live, Types, TypeOK
    <3>2. a[2] \in Nat /\ a = <<a[1], a[2]>>
      BY <3>1, NoSegmentIsNone
    <3>3. CASE a \in Copies
      BY <1>2, <3>3 DEF Pending
    <3>4. CASE a = <<Scanned, pos>> /\ CardOf(a) \in dirty
      <4>1. ~visitUnmarked /\ a \notin marked
        BY <1>1, <3>1, <3>4 DEF OnDirtyCard
      <4>2. ~ogMarkingBarriers
        BY <1>5, <4>1 DEF IInv, Control
      <4>3. QED
        BY <2>1, <4>1, <4>2 DEF Live, ShouldForward
    <3>5. CASE a # <<Scanned, pos>> /\ CardOf(a) \in dirty /\ ToScan(a)
      <4>1. CASE pc = "cards"
        <5>1. CASE a[1] = compactee
          BY <1>1, <1>2, <3>5, <4>1, <5>1 DEF Pending, ToScan, CardOf
        <5>2. CASE a[1] # compactee
          <6>1. PICK j \in seg .. segEnd : a[1] = segments[j] /\ (j = seg => a[2] >= pos)
            BY <3>5, <4>1, <5>2 DEF ToScan
          <6>2. j = seg => a[2] >= pos + 1
            BY <1>3, <3>2, <3>5, <4>1, <6>1 DEF Scanned
          <6>3. QED
            BY <1>1, <1>2, <3>5, <4>1, <6>1, <6>2 DEF Pending, ToScan, CardOf
        <5>3. QED
          BY <5>1, <5>2
      <4>2. CASE pc = "compactee"
        <5>1. a[1] = compactee /\ a[2] >= pos + 1
          BY <1>3, <3>2, <3>5, <4>2 DEF ToScan, Scanned
        <5>2. QED
          BY <1>1, <1>2, <3>5, <4>2, <5>1 DEF Pending, ToScan, CardOf
      <4>3. QED
        BY <1>5, <4>1, <4>2
    <3>6. QED
      BY <3>1, <3>3, <3>4, <3>5 DEF Pending
  <2>2. \A r \in Roots : ~ShouldForward(roots[r])
    BY <1>5 DEF IInv, Evacuation
  <2>3. preparingCompaction =>
           \A a \in allocated : InYoungGen(field[a]) => field[a] \in allocated
    BY <1>5 DEF IInv, Evacuation
  <2>4. UNCHANGED <<roots, field, allocated>>
    BY <1>1, <1>2
  <2>5. QED
    BY <1>2, <2>1, <2>2, <2>3, <2>4 DEF Evacuation
<1>9. QED
  BY <1>2, <1>4, <1>6, <1>7, <1>8 DEF IInv

\* The cards of a segment are cleared when nothing is left on them: not while a
\* compactee is prepared.
LEMMA SegmentEndKeeps ==
    ASSUME IInv, SegmentEnd
    PROVE  IInv'
<1>1. /\ pc = "cards" /\ seg <= segEnd /\ pos > SegmentSize
      /\ dirty' = IF preparingCompaction THEN dirty
                  ELSE {c \in dirty : c[1] # segments[seg]}
      /\ seg' = seg + 1 /\ pos' = 1
      /\ visitUnmarked' <=> phase # "Sweep"
      /\ UNCHANGED <<heapVars, cellVars, roots, weakRoot, cycleVars, doCompaction,
                     segEnd, copyList, pc, promoteYGToOG>>
  BY DEF SegmentEnd, progVars
<1>2. /\ Layout' /\ Pointers' /\ Snapshot' /\ Cycle' /\ Forwards'
      /\ dirty \subseteq dirty' => CompacteeDirty'
      /\ Live' = Live /\ OldSegments' = OldSegments /\ Copies' = Copies
      /\ \A b : ShouldForward(b)' <=> ShouldForward(b)
      /\ \A b : InYoungGen(b)' <=> InYoungGen(b)
      /\ preparingCompaction' <=> preparingCompaction
      /\ ogMarkingBarriers' <=> ogMarkingBarriers
      /\ UNCHANGED <<compactee, segments, field, allocated, marked, worklist,
                     forwarding, phase>>
  BY <1>1, ScanSame
<1>3. seg \in 1 .. Len(segments) /\ seg \in Nat /\ segEnd \in Nat /\ pos \in Nat
      /\ segEnd <= Len(segments) /\ Len(segments) \in Nat
  BY <1>1 DEF IInv, Control, Types, TypeOK
<1>4. Types'
  BY <1>1, <1>3 DEF IInv, Types, TypeOK, heapVars, cellVars, cycleVars
<1>5. Control'
  BY <1>1, <1>2, <1>3 DEF IInv, Control, AtRest, ogMarkingBarriers
<1>6. YoungCards'
  BY <1>1 DEF YoungCards, AtRest
<1>7. CompacteeDirty'
  <2>1. CASE preparingCompaction
    BY <1>1, <1>2, <2>1
  <2>2. CASE ~preparingCompaction
    <3>1. ~doCompaction => \A a \in Live : ~InCompactee(field[a])
      <4>1. \A a \in Live : field[a] \in Pointer
        BY DEF Live, IInv, Types, TypeOK
      <4>2. QED
        BY <2>2, <4>1, NoSegmentIsNone DEF preparingCompaction
    <3>2. QED
      BY <1>1, <1>2, <3>1 DEF CompacteeDirty, InCompactee
  <2>3. QED
    BY <2>1, <2>2
<1>8. Evacuation'
  <2>1. ASSUME NEW a \in Live, ~ShouldForward(a), ShouldForward(field[a])
        PROVE  Pending(a)'
    <3>1. Pending(a) /\ a \in Addr /\ a # Null /\ a \in allocated
      BY <1>1, <2>1, NullAssumption
         DEF IInv, Evacuation, Evacuating, Live, Types, TypeOK
    <3>2. a[2] \in 1 .. SegmentSize /\ a[1] # NoSegment /\ CardOf(a)[1] = a[1]
      BY <3>1, NoSegmentIsNone DEF CardOf
    <3>3. CASE a \in Copies
      BY <1>2, <3>3 DEF Pending
    <3>4. CASE CardOf(a) \in dirty /\ a[1] = compactee
      <4>1. preparingCompaction
        BY <2>1, <3>1, <3>2, <3>4 DEF preparingCompaction, ShouldForward, InCompactee
      <4>2. QED
        BY <1>1, <1>2, <3>4, <4>1 DEF Pending, ToScan, CardOf
    <3>5. CASE CardOf(a) \in dirty /\ ToScan(a) /\ a[1] # compactee
      <4>1. PICK j \in seg .. segEnd : a[1] = segments[j] /\ (j = seg => a[2] >= pos)
        BY <1>1, <3>5 DEF ToScan
      <4>2. j # seg
        BY <1>1, <1>3, <3>2, <4>1, SegmentAssumption
      <4>3. j \in seg + 1 .. segEnd /\ a[2] >= 1
        BY <1>3, <3>2, <4>1, <4>2
      <4>4. segments[j] # segments[seg]
        BY <1>3, <4>2, <4>3 DEF IInv, Layout
      <4>5. CardOf(a) \in dirty'
        BY <1>1, <3>2, <3>5, <4>1, <4>4
      <4>6. ToScan(a)'
        BY <1>1, <1>2, <4>1, <4>3 DEF ToScan
      <4>7. QED
        BY <4>5, <4>6 DEF Pending, CardOf
    <3>6. QED
      BY <3>1, <3>3, <3>4, <3>5 DEF Pending
  <2>2. \A r \in Roots : ~ShouldForward(roots[r])
    BY <1>1 DEF IInv, Evacuation, Evacuating
  <2>3. preparingCompaction =>
           \A a \in allocated : InYoungGen(field[a]) => field[a] \in allocated
    BY <1>1 DEF IInv, Evacuation, Evacuating
  <2>4. UNCHANGED <<roots, field, allocated>>
    BY <1>1, <1>2
  <2>5. QED
    BY <1>2, <2>1, <2>2, <2>3, <2>4 DEF Evacuation
<1>9. QED
  BY <1>2, <1>4, <1>5, <1>6, <1>7, <1>8 DEF IInv

\* All cards are scanned, those of a compactee being prepared last: only the copy
\* list is left.
LEMMA CardsEndKeeps ==
    ASSUME IInv, CardsEnd
    PROVE  IInv'
<1>1. /\ \/ pc = "cards" /\ seg > segEnd
         \/ pc = "compactee" /\ pos > SegmentSize
      /\ pc' = IF pc = "cards" /\ preparingCompaction THEN "compactee" ELSE "copy"
      /\ pos' = 1
      /\ UNCHANGED <<heapVars, cellVars, roots, weakRoot, cycleVars, doCompaction,
                     visitUnmarked, segEnd, seg, copyList, dirty, promoteYGToOG>>
  BY DEF CardsEnd, progVars
<1>2. /\ Layout' /\ Pointers' /\ Snapshot' /\ Cycle' /\ Forwards' /\ CompacteeDirty'
      /\ Live' = Live /\ OldSegments' = OldSegments /\ Copies' = Copies
      /\ \A b : ShouldForward(b)' <=> ShouldForward(b)
      /\ \A b : InYoungGen(b)' <=> InYoungGen(b)
      /\ preparingCompaction' <=> preparingCompaction
      /\ ogMarkingBarriers' <=> ogMarkingBarriers
      /\ UNCHANGED <<compactee, segments, field, allocated, marked, worklist,
                     forwarding, phase>>
  BY <1>1, ScanSame
<1>3. pc' \in {"compactee", "copy"} /\ pc \in {"cards", "compactee"}
  BY <1>1
<1>4. Types'
  BY <1>1, <1>3 DEF IInv, Types, TypeOK, heapVars, cellVars, cycleVars, Points
<1>5. Control'
  BY <1>1, <1>2, <1>3 DEF IInv, Control, AtRest
<1>6. YoungCards'
  BY <1>3 DEF YoungCards, AtRest
<1>7. Evacuation'
  <2>1. ASSUME NEW a \in Live, ~ShouldForward(a), ShouldForward(field[a])
        PROVE  Pending(a)'
    <3>1. Pending(a) /\ a \in Addr /\ a # Null /\ a \in allocated
      BY <1>3, <2>1, NullAssumption
         DEF IInv, Evacuation, Evacuating, Live, Types, TypeOK
    <3>2. a[2] \in 1 .. SegmentSize /\ a[1] # NoSegment
      BY <3>1, NoSegmentIsNone
    <3>3. CASE a \in Copies
      BY <1>2, <3>3 DEF Pending
    <3>4. CASE a \notin Copies
      <4>1. CardOf(a) \in dirty /\ ToScan(a)
        BY <3>1, <3>4 DEF Pending
      <4>2. pc = "cards" /\ a[1] = compactee
        BY <1>1, <3>2, <4>1, SegmentAssumption DEF ToScan, IInv, Types
      <4>3. preparingCompaction
        BY <2>1, <3>1, <3>2, <4>2 DEF preparingCompaction, ShouldForward, InCompactee
      <4>4. pc' = "compactee"
        BY <1>1, <4>2, <4>3
      <4>5. QED
        BY <1>1, <1>2, <3>2, <4>1, <4>2, <4>4 DEF Pending, ToScan, CardOf
    <3>5. QED
      BY <3>3, <3>4
  <2>2. \A r \in Roots : ~ShouldForward(roots[r])
    BY <1>3 DEF IInv, Evacuation, Evacuating
  <2>3. preparingCompaction =>
           \A a \in allocated : InYoungGen(field[a]) => field[a] \in allocated
    BY <1>3 DEF IInv, Evacuation, Evacuating
  <2>4. UNCHANGED <<roots, field, allocated>>
    BY <1>1, <1>2
  <2>5. QED
    BY <1>2, <2>1, <2>2, <2>3, <2>4 DEF Evacuation
<1>8. QED
  BY <1>2, <1>4, <1>5, <1>6, <1>7 DEF IInv

\* Running out of memory ends everything, and disturbs nothing.
LEMMA OutOfMemoryKeeps ==
    ASSUME IInv, OutOfMemory
    PROVE  IInv'
<1>1. /\ pc' = "oom"
      /\ UNCHANGED <<heapVars, cellVars, roots, weakRoot, cycleVars, doCompaction,
                     visitUnmarked, segEnd, seg, pos, copyList, dirty, promoteYGToOG>>
  BY DEF OutOfMemory, progVars, evacVars
<1>2. /\ Layout' /\ Pointers' /\ Snapshot' /\ Cycle' /\ Forwards' /\ CompacteeDirty'
      /\ ogMarkingBarriers' <=> ogMarkingBarriers
      /\ UNCHANGED compactee
  BY <1>1, ScanSame
<1>3. Types'
  BY <1>1 DEF IInv, Types, TypeOK, heapVars, cellVars, cycleVars, Points
<1>4. YoungCards' /\ Evacuation'
  BY <1>1 DEF AtRest, YoungCards, Evacuation, Evacuating
<1>5. Control'
  <2>1. doCompaction' <=> doCompaction
    BY <1>1
  <2>2. doCompaction => compactee # NoSegment /\ ~ogMarkingBarriers
    BY DEF IInv, Control
  <2>3. doCompaction' => compactee' # NoSegment /\ ~ogMarkingBarriers'
    BY <1>2, <2>1, <2>2
  <2>4. ~AtRest' /\ pc' \notin {"roots", "cards", "compactee", "yield", "start"}
    BY <1>1 DEF AtRest
  <2>5. QED
    BY <2>3, <2>4 DEF Control
<1>6. QED
  BY <1>2, <1>3, <1>4, <1>5 DEF IInv

\* The program goes on.
LEMMA NoCollectionKeeps ==
    ASSUME IInv, NoOldGenCollection
    PROVE  IInv'
<1>1. /\ pc = "start" /\ pc' = "mutator"
      /\ UNCHANGED <<heapVars, cellVars, roots, weakRoot, cycleVars, doCompaction,
                     visitUnmarked, segEnd, seg, pos, copyList, dirty, promoteYGToOG>>
  BY DEF NoOldGenCollection, progVars, evacVars
<1>2. /\ Layout' /\ Pointers' /\ Snapshot' /\ Cycle' /\ Forwards' /\ CompacteeDirty'
      /\ Live' = Live
      /\ \A b : InYoungGen(b)' <=> InYoungGen(b)
      /\ ogMarkingBarriers' <=> ogMarkingBarriers
      /\ UNCHANGED <<compactee, field, forwarding, phase>>
  BY <1>1, ScanSame
<1>3. Types'
  BY <1>1 DEF IInv, Types, TypeOK, heapVars, cellVars, cycleVars, Points
<1>4. Control' /\ Evacuation'
  BY <1>1, <1>2 DEF IInv, Control, AtRest, Evacuation, Evacuating
<1>5. YoungCards'
  <2>1. \A b : InOldGen(b)' <=> InOldGen(b)
    BY <1>1 DEF InOldGen, heapVars
  <2>2. QED
    BY <1>1, <1>2, <2>1 DEF IInv, YoungCards, AtRest, CardOf
<1>6. QED
  BY <1>2, <1>3, <1>4, <1>5 DEF IInv

------------------------------------------------------------------------------
(* Forwarding.                                                                *)

\* The slot the acceptor is at, and what SetSlot does to it.
LEMMA SlotFacts ==
    ASSUME IInv, Waiting, AtPointer, ShouldForward(Current),
           NEW n \in Addr, NEW f \in [Addr -> Pointer], SetSlot(n, f)
    PROVE  /\ field' \in [Addr -> Pointer] /\ roots' \in [Roots -> Pointer]
           /\ AtRoot => /\ pos \in Roots /\ Current = roots[pos] /\ roots'[pos] = n
                        /\ \A r \in Roots : r # pos => roots'[r] = roots[r]
                        /\ CurrentCell = Null /\ field' = f
           /\ ~AtRoot => /\ CurrentCell \in Addr /\ CurrentCell \in allocated
                         /\ Current = field[CurrentCell] /\ field'[CurrentCell] = n
                         /\ roots' = roots
           /\ \A a \in Addr : a # CurrentCell => field'[a] = f[a]
<1>1. roots \in [Roots -> Pointer] /\ n \in Pointer
  BY DEF IInv, Types, TypeOK, Pointer
<1>2. CASE AtRoot
  <2>1. pos \in Roots
    <3>1. pc = "roots" /\ pos <= NumRoots
      BY <1>2 DEF AtRoot
    <3>2. pos >= 1
      BY <3>1 DEF IInv, Control
    <3>3. QED
      BY <3>1, <3>2, BoundAssumption DEF Roots, IInv, Types
  <2>2. CurrentCell = Null
    BY <1>2 DEF AtRoot, CurrentCell, Scanning
  <2>3. roots' = [roots EXCEPT ![pos] = n] /\ field' = f /\ Current = roots[pos]
    BY <1>2 DEF SetSlot, Current
  <2>4. QED
    BY <1>1, <1>2, <2>1, <2>2, <2>3
<1>3. CASE ~AtRoot
  <2>1. PICK x : x = CurrentCell
    OBVIOUS
  <2>2. x # Null /\ Current = field[x]
    BY <1>3, <2>1 DEF AtPointer, Current
  <2>3. x \in Addr /\ x \in allocated
    BY <2>1, <2>2, CurrentCellIs
  <2>4. field' = [f EXCEPT ![x] = n] /\ roots' = roots
    BY <1>3, <2>1 DEF SetSlot
  <2>5. QED
    BY <1>1, <1>3, <2>1, <2>2, <2>3, <2>4
<1>4. QED
  BY <1>2, <1>3

\* A pointer that is forwarded: its slot leads to n, an OG cell that was there or
\* that takes the field of the cell that moves and goes onto the copy list.
LEMMA ForwardKeeps ==
    ASSUME IInv, Waiting, AtPointer, ShouldForward(Current),
           NEW c, c = Current, NEW n \in Addr, NEW f \in [Addr -> Pointer],
           SetSlot(n, f), Advance,
           \A a \in Addr : a # n => f[a] = field[a],
           \/ n \in marked /\ f[n] = field[n] /\ copyList' = Popped
           \/ n \notin allocated /\ f[n] = field[c] /\ copyList' = <<c>> \o Popped,
           allocated' = allocated \cup {n}, marked' = marked \cup {n},
           forwarding[c] \in {Null, n}, forwarding' = [forwarding EXCEPT ![c] = n],
           UNCHANGED <<youngGen, compactee, weakRoot, cycleVars, doCompaction,
                       visitUnmarked, segEnd, seg, dirty, pc, promoteYGToOG>>,
           Types', Layout', Cycle', Live' = Live \cup {n},
           InOldGen(n), ~InYoungGen(n), ~InCompactee(n),
           Len(segments) <= Len(segments'),
           \A i \in 1 .. Len(segments) : segments'[i] = segments[i],
           n[1] \in OldSegments', OldSegments \subseteq OldSegments',
           ogMarkingBarriers => \A p : Reached(p) \/ p = n => Reached(p)'
    PROVE  IInv'
<1>1. PICK x : x = CurrentCell
  OBVIOUS
<1>2. /\ AtRoot => /\ pos \in Roots /\ c = roots[pos] /\ roots'[pos] = n
                   /\ \A r \in Roots : r # pos => roots'[r] = roots[r]
                   /\ x = Null
      /\ ~AtRoot => /\ x \in Addr /\ x \in allocated /\ c = field[x] /\ field'[x] = n
                    /\ roots' = roots
      /\ \A a \in Addr : a # x => field'[a] = f[a]
  BY <1>1, SlotFacts
<1>3. c \in Live /\ c \in Addr /\ ShouldForward(c) /\ c \in allocated
  BY CurrentLive DEF Live
<1>4. /\ Popped \in Seq(Addr) /\ pos' \in Nat /\ (pc = "roots" => pos' >= 1)
      /\ \A k \in 1 .. Len(Popped) : \E m \in 1 .. Len(copyList) : Popped[k] = copyList[m]
  BY PoppedFacts
<1>5. n # Null /\ ~ShouldForward(n)
  BY NullAssumption DEF ShouldForward
<1>6. /\ forwarding'[c] = n
      /\ \A b \in Addr : b # c => forwarding'[b] = forwarding[b]
  BY <1>3 DEF IInv, Types, TypeOK
<1>7. \A b \in Addr : forwarding[b] # Null => forwarding'[b] # Null
  BY <1>5, <1>6
<1>8. UNCHANGED <<phase, segNumber, worklist>>
  BY DEF cycleVars
<1>9. /\ \A b : InYoungGen(b)' <=> InYoungGen(b)
      /\ \A b : InOldGen(b)' <=> InOldGen(b)
      /\ \A b : InCompactee(b)' <=> InCompactee(b)
      /\ \A b : ShouldForward(b)' <=> ShouldForward(b)
      /\ ogMarkingBarriers' <=> ogMarkingBarriers
      /\ preparingCompaction' <=> preparingCompaction
  BY <1>8 DEF InYoungGen, InOldGen, InCompactee, ShouldForward, ogMarkingBarriers,
              preparingCompaction
<1>10. PICK q : q = Popped
  OBVIOUS
<1>11. \A k \in 1 .. Len(q) : \E m \in 1 .. Len(copyList') : copyList'[m] = q[k]
  <2>1. CASE copyList' = q
    BY <2>1
  <2>2. CASE copyList' = <<c>> \o q
    <3>1. /\ Len(copyList') = Len(q) + 1 /\ Len(q) \in Nat
          /\ \A k \in 1 .. Len(q) : copyList'[k + 1] = q[k]
      BY <1>3, <1>4, <1>10, <2>2, SMTT(30)
    <3>2. QED
      BY <3>1
  <2>3. QED
    BY <1>10, <2>1, <2>2
<1>12. \A k \in 1 .. Len(copyList') :
          \/ copyList'[k] = c
          \/ \E m \in 1 .. Len(copyList) : copyList'[k] = copyList[m]
  <2>1. CASE copyList' = q
    BY <1>4, <1>10, <2>1
  <2>2. CASE copyList' = <<c>> \o q
    <3>1. /\ Len(copyList') = Len(q) + 1 /\ Len(q) \in Nat /\ copyList'[1] = c
          /\ \A k \in 2 .. Len(copyList') : k - 1 \in 1 .. Len(q)
                                            /\ copyList'[k] = q[k - 1]
      BY <1>3, <1>4, <1>10, <2>2, SMTT(30)
    <3>2. ASSUME NEW k \in 1 .. Len(copyList'), k # 1
          PROVE  \E m \in 1 .. Len(copyList) : copyList'[k] = copyList[m]
      <4>1. k \in 2 .. Len(copyList')
        BY <3>1, <3>2
      <4>2. k - 1 \in 1 .. Len(q) /\ copyList'[k] = q[k - 1]
        BY <3>1, <4>1
      <4>3. QED
        BY <1>4, <1>10, <4>2
    <3>3. QED
      BY <3>1, <3>2
  <2>3. QED
    BY <1>10, <2>1, <2>2
<1>13. n \notin allocated => n \in Copies'
  <2>1. SUFFICES ASSUME n \notin allocated
                 PROVE  n \in Copies'
    OBVIOUS
  <2>2. copyList' = <<c>> \o q
    BY <1>10, <2>1 DEF IInv, Cycle
  <2>3. 1 \in 1 .. Len(copyList') /\ copyList'[1] = c
    BY <1>3, <1>4, <1>10, <2>2, SMTT(30)
  <2>4. QED
    BY <1>6, <2>3 DEF Copies
<1>14. n \in allocated => n \in marked /\ n \in Live /\ f[n] = field[n]
  BY DEF Live
<1>15. n \notin allocated => f[n] = field[c]
  BY DEF IInv, Cycle
<1>16. \A b \in Addr : forwarding[b] # Null => forwarding'[b] = forwarding[b]
  BY <1>6
<1>17. /\ Evacuating
       /\ \A a : a \in Copies /\ a # x => a \in Copies'
       /\ \A a \in Addr : Pending(a) /\ a # x => Pending(a)'
       /\ \A r \in Roots : pc = "roots" /\ r >= pos /\ ~(AtRoot /\ r = pos)
                              => pc' = "roots" /\ r >= pos'
  BY <1>1, <1>10, <1>11, <1>16, VisitLeaves
<1>18. \A a \in Live' : a \in Addr /\ (a = n \/ a \in Live)
  BY DEF Live, IInv, Types, TypeOK
<1>19. \A a \in Addr : a # x /\ a # n => field'[a] = field[a]
  BY <1>2
<1>20. n # x => field'[n] = f[n]
  BY <1>2
<1>21. Control'
  <2>1. segEnd <= Len(segments) => segEnd' <= Len(segments')
    BY DEF IInv, Types, TypeOK
  <2>2. ~AtRest /\ ~AtRest' /\ pc' \notin {"yield", "start"}
    BY <1>17 DEF Evacuating, AtRest
  <2>3. doCompaction' => compactee' # NoSegment /\ ~ogMarkingBarriers'
    <3>1. doCompaction => compactee # NoSegment /\ ~ogMarkingBarriers
      BY DEF IInv, Control
    <3>2. doCompaction' <=> doCompaction
      OBVIOUS
    <3>3. QED
      BY <1>9, <3>1, <3>2
  <2>4. QED
    BY <1>4, <1>8, <1>9, <2>1, <2>2, <2>3 DEF IInv, Control
<1>22. Pointers'
  <2>1. \A a \in Live' : field'[a] \in Live' \cup {Null}
    <3>1. SUFFICES ASSUME NEW a \in Live'
                   PROVE  field'[a] \in Live' \cup {Null}
      OBVIOUS
    <3>2. CASE a = x
      <4>1. field'[a] = n
        BY <1>2, <1>18, <3>2, NullAssumption
      <4>2. QED
        BY <4>1
    <3>3. CASE a # x /\ a = n
      <4>1. field[c] \in Live \cup {Null} /\ (n \in Live => field[n] \in Live \cup {Null})
        BY <1>3 DEF IInv, Pointers
      <4>2. QED
        BY <1>14, <1>15, <1>20, <3>3, <4>1
    <3>4. CASE a # x /\ a # n
      BY <1>18, <1>19, <3>4 DEF IInv, Pointers
    <3>5. QED
      BY <3>2, <3>3, <3>4
  <2>2. \A r \in Roots : roots'[r] \in Live' \cup {Null}
    BY <1>2 DEF IInv, Pointers
  <2>3. weakRoot' \in Live' \cup {Null}
    BY DEF IInv, Pointers
  <2>4. QED
    BY <2>1, <2>2, <2>3 DEF Pointers
<1>23. Snapshot'
  <2>1. SUFFICES ASSUME ogMarkingBarriers
                 PROVE  Snapshot'
    BY <1>9 DEF Snapshot
  <2>2. InYoungGen(c)
    BY <1>3, <2>1 DEF ShouldForward, IInv, Control
  <2>3. ASSUME NEW a \in allocated', (InYoungGen(a) \/ a \in marked \ worklist)'
        PROVE  Reached(field[a])'
    <3>1. PICK p : p = field'[a]
      OBVIOUS
    <3>2. a \in Addr
      BY <2>3 DEF IInv, Types, TypeOK
    <3>3. Reached(p) \/ p = n
      <4>1. CASE a = x
        BY <1>2, <3>1, <3>2, <4>1, NullAssumption
      <4>2. CASE a # x /\ a = n /\ n \notin allocated
        <5>1. p = field[c]
          BY <1>15, <1>20, <3>1, <4>2
        <5>2. QED
          BY <1>3, <2>1, <2>2, <5>1 DEF IInv, Snapshot
      <4>3. CASE a # x /\ (a # n \/ n \in allocated)
        <5>1. a \in allocated /\ p = field[a]
          BY <1>14, <1>19, <1>20, <2>3, <3>1, <3>2, <4>3
        <5>2. InYoungGen(a) \/ a \in marked \ worklist
          BY <1>8, <1>9, <1>14, <2>3, <4>3
        <5>3. QED
          BY <2>1, <5>1, <5>2 DEF IInv, Snapshot
      <4>4. QED
        BY <4>1, <4>2, <4>3
    <3>4. QED
      BY <2>1, <3>1, <3>3
  <2>4. ASSUME NEW r \in Roots
        PROVE  Reached(roots[r])'
    <3>1. PICK p : p = roots'[r]
      OBVIOUS
    <3>2. Reached(p) \/ p = n
      BY <1>2, <2>1, <3>1 DEF IInv, Snapshot
    <3>3. QED
      BY <2>1, <3>1, <3>2
  <2>5. ASSUME NEW a \in allocated', InYoungGen(field'[a])
        PROVE  Reached(a)'
    <3>1. a \in Addr /\ a # x
      BY <1>2, <2>5, NullAssumption DEF IInv, Types, TypeOK
    <3>2. a = n \/ (a \in allocated /\ field'[a] = field[a])
      BY <1>19, <2>5, <3>1
    <3>3. Reached(a) \/ a = n
      BY <2>1, <2>5, <3>2 DEF IInv, Snapshot
    <3>4. QED
      BY <2>1, <3>3
  <2>6. QED
    BY <1>9, <2>3, <2>4, <2>5 DEF Snapshot
<1>24. YoungCards'
  BY <1>17 DEF YoungCards, AtRest, Evacuating
<1>25. CompacteeDirty'
  <2>1. ASSUME ~doCompaction, NEW a \in Live', InOldGen(a), ~InCompactee(a),
               InCompactee(field'[a]), ogMarkingBarriers => a \in (marked \ worklist)'
        PROVE  CardOf(a) \in dirty \/ a \in Copies'
    <3>1. a # x
      BY <1>2, <1>18, <2>1, NullAssumption
    <3>2. CASE a = n /\ n \notin allocated
      BY <1>13, <3>2
    <3>3. CASE a # n \/ n \in allocated
      <4>1. a \in Live /\ field'[a] = field[a]
        BY <1>14, <1>18, <1>19, <1>20, <3>1, <3>3
      <4>2. ogMarkingBarriers => a \in marked \ worklist
        BY <1>8, <1>14, <2>1, <3>3
      <4>3. CardOf(a) \in dirty \/ a \in Copies
        BY <2>1, <4>1, <4>2 DEF IInv, CompacteeDirty
      <4>4. QED
        BY <1>17, <3>1, <4>3
    <3>4. QED
      BY <3>2, <3>3
  <2>2. QED
    BY <1>9, <2>1 DEF CompacteeDirty, CardOf
<1>26. Evacuation'
  <2>1. ASSUME NEW a \in Live', ~ShouldForward(a), ShouldForward(field'[a])
        PROVE  Pending(a)'
    <3>1. a # x
      BY <1>2, <1>5, <1>18, <2>1, NullAssumption
    <3>2. CASE a = n /\ n \notin allocated
      BY <1>13, <3>2 DEF Pending
    <3>3. CASE a # n \/ n \in allocated
      <4>1. a \in Live /\ a \in Addr /\ field'[a] = field[a]
        BY <1>14, <1>18, <1>19, <1>20, <3>1, <3>3
      <4>2. Pending(a)
        BY <1>17, <2>1, <4>1 DEF IInv, Evacuation
      <4>3. QED
        BY <1>17, <3>1, <4>1, <4>2
    <3>4. QED
      BY <3>2, <3>3
  <2>2. ASSUME NEW r \in Roots, ShouldForward(roots'[r])
        PROVE  pc' = "roots" /\ r >= pos'
    <3>1. roots'[r] = roots[r] /\ ~(AtRoot /\ r = pos)
      BY <1>2, <1>5, <2>2
    <3>2. pc = "roots" /\ r >= pos
      BY <1>17, <2>2, <3>1 DEF IInv, Evacuation
    <3>3. QED
      BY <1>17, <3>1, <3>2
  <2>3. ASSUME preparingCompaction, NEW a \in allocated', InYoungGen(field'[a])
        PROVE  field'[a] \in allocated'
    <3>1. a \in Addr /\ a # Null
      BY <2>3, NullAssumption DEF IInv, Types, TypeOK
    <3>2. CASE a = x
      BY <1>2, <3>1, <3>2
    <3>3. CASE a # x /\ a = n
      <4>1. field[c] \in Live \cup {Null} /\ (n \in Live => field[n] \in Live \cup {Null})
        BY <1>3 DEF IInv, Pointers
      <4>2. QED
        BY <1>14, <1>15, <1>20, <2>3, <3>3, <4>1 DEF InYoungGen, Live
    <3>4. CASE a # x /\ a # n
      BY <1>17, <1>19, <2>3, <3>1, <3>4 DEF IInv, Evacuation
    <3>5. QED
      BY <3>2, <3>3, <3>4
  <2>4. QED
    BY <1>9, <2>1, <2>2, <2>3 DEF Evacuation
<1>27. Forwards'
  <2>1. ASSUME NEW b \in Addr, forwarding'[b] # Null
        PROVE  /\ ShouldForward(b) /\ b \in Live'
               /\ forwarding'[b] \in marked' /\ forwarding'[b][1] \in OldSegments'
    <3>1. CASE b = c
      BY <1>3, <1>6, <3>1
    <3>2. CASE b # c
      BY <1>6, <2>1, <3>2 DEF IInv, Forwards
    <3>3. QED
      BY <3>1, <3>2
  <2>2. ASSUME NEW k \in 1 .. Len(copyList')
        PROVE  forwarding'[copyList'[k]] # Null
    <3>1. CASE copyList'[k] = c
      BY <1>5, <1>6, <3>1
    <3>2. CASE copyList'[k] # c
      <4>1. PICK m \in 1 .. Len(copyList) : copyList'[k] = copyList[m]
        BY <1>12, <3>2
      <4>2. copyList[m] \in Addr /\ forwarding[copyList[m]] # Null
        BY DEF IInv, Types, Forwards
      <4>3. QED
        BY <1>7, <4>1, <4>2
    <3>3. QED
      BY <3>1, <3>2
  <2>3. QED
    BY <1>9, <2>1, <2>2 DEF Forwards
<1>28. QED
  BY <1>21, <1>22, <1>23, <1>24, <1>25, <1>26, <1>27 DEF IInv

\* A pointer to a cell that has moved.
LEMMA AcceptForwardedKeeps ==
    ASSUME IInv, Waiting, AcceptForwarded
    PROVE  IInv'
<1>1. PICK c : c = Current
  OBVIOUS
<1>2. PICK n : n = forwarding[c]
  OBVIOUS
<1>3. /\ AtPointer /\ ShouldForward(Current) /\ n # Null
      /\ SetSlot(n, field) /\ Advance /\ copyList' = Popped
      /\ UNCHANGED <<youngGen, segments, compactee, allocated, marked, forwarding,
                     weakRoot, cycleVars, doCompaction, visitUnmarked, segEnd, seg,
                     dirty, pc, promoteYGToOG>>
  BY <1>1, <1>2 DEF AcceptForwarded, heapVars
<1>4. c \in Live /\ c \in Addr
  BY <1>1, <1>3, CurrentLive
<1>5. n \in marked /\ n[1] \in OldSegments
  BY <1>2, <1>3, <1>4 DEF IInv, Forwards
<1>6. n \in Addr /\ n \in allocated /\ n \in Live
  BY <1>5 DEF IInv, Cycle, Types, TypeOK, Live
<1>7. ~InYoungGen(n) /\ InOldGen(n) /\ ~InCompactee(n)
  BY <1>3, <1>5 DEF InYoungGen, InOldGen, InCompactee, IInv, Layout
<1>8. allocated' = allocated \cup {n} /\ marked' = marked \cup {n}
  BY <1>3, <1>5, <1>6
<1>9. forwarding' = [forwarding EXCEPT ![c] = n]
  BY <1>2, <1>3, <1>4 DEF IInv, Types, TypeOK
<1>10. UNCHANGED <<phase, segNumber, worklist>>
  BY <1>3 DEF cycleVars
<1>11. /\ \A b : InYoungGen(b)' <=> InYoungGen(b)
       /\ \A b : InOldGen(b)' <=> InOldGen(b)
       /\ ogMarkingBarriers' <=> ogMarkingBarriers
  BY <1>3, <1>10 DEF InYoungGen, InOldGen, ogMarkingBarriers
<1>12. Live' = Live \cup {n}
  BY <1>3, <1>6, <1>11 DEF Live
<1>13. OldSegments' = OldSegments
  BY <1>3 DEF OldSegments
<1>14. field \in [Addr -> Pointer]
  BY DEF IInv, Types, TypeOK
<1>15. /\ field' \in [Addr -> Pointer] /\ roots' \in [Roots -> Pointer]
       /\ \A b \in Addr : b # CurrentCell => field'[b] = field[b]
       /\ ~AtRoot => Current = field[CurrentCell]
       /\ AtRoot => CurrentCell = Null
  BY <1>3, <1>6, <1>14, SlotFacts
<1>16. Popped \in Seq(Addr) /\ pos' \in Nat
  BY <1>3, PoppedFacts
<1>17. Types'
  BY <1>3, <1>10, <1>15, <1>16 DEF IInv, Types, TypeOK
<1>18. Layout'
  BY <1>3, <1>13 DEF IInv, Layout
<1>19. Cycle'
  BY <1>3, <1>10, <1>11 DEF IInv, Cycle
<1>20. ASSUME ogMarkingBarriers, NEW p, Reached(p) \/ p = n
       PROVE  Reached(p)'
  <2>1. ~InOldGen(c)
    BY <1>1, <1>3, <1>20 DEF ShouldForward, InOldGen, InYoungGen, IInv, Control
  <2>2. \A b \in Visited : field'[b] = field[b] \/ ~InOldGen(field[b])
    <3>1. SUFFICES ASSUME NEW b \in Visited, field'[b] # field[b]
                   PROVE  ~InOldGen(field[b])
      OBVIOUS
    <3>2. b \in Addr
      BY WorklistVisited DEF IInv
    <3>3. b = CurrentCell /\ b # Null
      BY <1>15, <3>1, <3>2, NullAssumption
    <3>4. QED
      BY <1>1, <1>15, <2>1, <3>3
  <2>3. \A b \in Visited :
              InOldGen(field[b]) /\ field[b] \notin marked =>
                 \/ field[b] \in worklist'
                 \/ /\ b \notin {} /\ field'[b] = field[b]
                    /\ InOldGen(field[b])' /\ field[b] \notin marked'
    BY <1>3, <2>2 DEF InOldGen
  <2>4. worklist \subseteq worklist' \cup {} /\ {} \in SUBSET Addr
    BY <1>10
  <2>5. Visited \subseteq Visited' \cup {}
    BY <1>17, <2>3, <2>4, StillVisited DEF IInv
  <2>6. QED
    BY <1>3, <1>5, <1>11, <1>20, <2>5 DEF Reached, WeakLive
<1>21. /\ Len(segments) <= Len(segments')
       /\ \A i \in 1 .. Len(segments) : segments'[i] = segments[i]
  BY <1>3 DEF IInv, Types, TypeOK
<1>22. QED
  BY <1>1, <1>2, <1>3, <1>5, <1>6, <1>7, <1>8, <1>9, <1>12, <1>13, <1>14, <1>17, <1>18,
     <1>19, <1>20, <1>21, ForwardKeeps

\* A cell that moves now: its copy is marked, and on the copy list.
LEMMA AcceptCopyKeeps ==
    ASSUME IInv, Waiting, AcceptCopy
    PROVE  IInv'
<1>1. PICK c : c = Current
  OBVIOUS
<1>2. PICK f, n : /\ n \in Addr /\ f = [field EXCEPT ![n] = field[c]]
                  /\ OldGenRoom(n)
                  /\ allocated' = allocated \cup {n} /\ marked' = marked \cup {n}
                  /\ forwarding' = [forwarding EXCEPT ![c] = n]
                  /\ SetSlot(n, f) /\ copyList' = <<c>> \o Popped
  BY <1>1 DEF AcceptCopy
<1>3. /\ AtPointer /\ ShouldForward(Current) /\ forwarding[c] = Null /\ Advance
      /\ UNCHANGED <<youngGen, compactee, weakRoot, cycleVars, doCompaction,
                     visitUnmarked, segEnd, seg, dirty, pc, promoteYGToOG>>
  BY <1>1 DEF AcceptCopy, MustCopy
<1>4. c \in Live /\ c \in Addr
  BY <1>1, <1>3, CurrentLive
<1>5. field \in [Addr -> Pointer] /\ field[c] \in Pointer
  BY <1>4 DEF IInv, Types, TypeOK
<1>6. /\ f \in [Addr -> Pointer] /\ f[n] = field[c]
      /\ \A a \in Addr : a # n => f[a] = field[a]
  BY <1>2, <1>5
<1>7. /\ field' \in [Addr -> Pointer] /\ roots' \in [Roots -> Pointer]
      /\ \A b \in Addr : b # CurrentCell => field'[b] = f[b]
      /\ ~AtRoot => Current = field[CurrentCell]
      /\ AtRoot => CurrentCell = Null
  BY <1>2, <1>3, <1>6, SlotFacts
<1>8. Popped \in Seq(Addr) /\ pos' \in Nat
  BY <1>3, PoppedFacts
<1>9. copyList' \in Seq(Addr)
  <2>1. PICK q : q = Popped
    OBVIOUS
  <2>2. <<c>> \o q \in Seq(Addr)
    BY <1>4, <1>8, <2>1, SMTT(30)
  <2>3. QED
    BY <1>2, <2>1, <2>2
<1>10. UNCHANGED <<phase, segNumber, worklist>>
  BY <1>3 DEF cycleVars
<1>11. /\ segments' \in Seq(SegIds) /\ Len(segments) <= Len(segments')
       /\ \A i \in 1 .. Len(segments) : segments'[i] = segments[i]
  BY <1>2, <1>3, RoomFacts DEF IInv
<1>12. forwarding' \in [Addr -> Pointer]
  BY <1>2 DEF IInv, Types, TypeOK, Pointer
<1>13. Types'
  BY <1>2, <1>3, <1>7, <1>8, <1>9, <1>10, <1>11, <1>12 DEF IInv, Types, TypeOK
<1>14. ogMarkingBarriers => \A b \in Visited :
              b # n => field'[b] = field[b] \/ ~InOldGen(field[b])
  <2>1. SUFFICES ASSUME ogMarkingBarriers, NEW b \in Visited, b # n,
                        field'[b] # field[b]
                 PROVE  ~InOldGen(field[b])
    OBVIOUS
  <2>2. ~InOldGen(c)
    BY <1>1, <1>3, <2>1 DEF ShouldForward, InOldGen, InYoungGen, IInv, Control
  <2>3. b \in Addr
    BY WorklistVisited DEF IInv
  <2>4. b = CurrentCell /\ b # Null
    BY <1>6, <1>7, <2>1, <2>3, NullAssumption
  <2>5. QED
    BY <1>1, <1>7, <2>2, <2>4
<1>15. /\ Layout' /\ Cycle' /\ Live' = Live \cup {n}
       /\ n \notin allocated /\ InOldGen(n) /\ ~InYoungGen(n) /\ ~InCompactee(n)
       /\ n[1] \in OldSegments' /\ OldSegments \subseteq OldSegments'
       /\ ogMarkingBarriers => \A p : Reached(p) \/ p = n => Reached(p)'
  BY <1>2, <1>3, <1>10, <1>13, <1>14, NewOldCell
<1>16. QED
  BY <1>1, <1>2, <1>3, <1>6, <1>11, <1>13, <1>15, ForwardKeeps

\* The end: with the copy list empty no live cell and no root leads to what is given
\* up, and the weak root leads to the copy, if there is one.
LEMMA EvacuationEndKeeps ==
    ASSUME IInv, EvacuationEnd
    PROVE  IInv'
<1>1. /\ pc = "copy" /\ copyList = <<>> /\ copyList' = <<>> /\ pc' = "yield"
      /\ weakRoot' = IF ShouldForward(weakRoot) THEN forwarding[weakRoot] ELSE weakRoot
      /\ allocated' = allocated \ Vacated /\ marked' = marked \ Vacated
      /\ forwarding' = [a \in Addr |-> Null]
      /\ field' = [a \in Addr |-> IF a \in Vacated THEN Null ELSE field[a]]
      /\ dirty' = {d \in dirty : doCompaction => d[1] # compactee}
      /\ compactee' = IF doCompaction THEN NoSegment ELSE compactee
      /\ doCompaction' = FALSE /\ visitUnmarked' = FALSE
      /\ segEnd' = 0 /\ seg' = 0 /\ pos' = 0
      /\ UNCHANGED <<youngGen, segments, roots, phase, segNumber, worklist,
                     promoteYGToOG>>
  BY DEF EvacuationEnd, cycleVars
<1>2. doCompaction => compactee # NoSegment /\ ~ogMarkingBarriers
  BY DEF IInv, Control
<1>3. \A a \in Addr : a \in Vacated <=> ShouldForward(a)
  <2>1. \A a \in Addr : a # Null
    BY NullAssumption
  <2>2. \A a \in Addr : a \in Vacated <=>
                           a[1] = youngGen \/ (doCompaction /\ a[1] = compactee)
    BY CellsAre DEF Vacated
  <2>3. QED
    BY <2>1, <2>2 DEF ShouldForward, InYoungGen, InCompactee
<1>4. /\ ogMarkingBarriers' <=> ogMarkingBarriers
      /\ \A b : InYoungGen(b)' <=> InYoungGen(b)
      /\ \A b : InOldGen(b)' <=> InOldGen(b)
  BY <1>1 DEF ogMarkingBarriers, InYoungGen, InOldGen
<1>5. allocated \subseteq Addr /\ marked \subseteq allocated /\ worklist \subseteq marked
  BY DEF IInv, Types, TypeOK, Cycle
<1>6. \A a : a \in Live' <=> a \in Live /\ ~ShouldForward(a)
  <2>1. \A a \in Addr : InYoungGen(a) => ShouldForward(a)
    BY DEF ShouldForward
  <2>2. QED
    BY <1>1, <1>3, <1>4, <1>5, <2>1 DEF Live
<1>7. \A a \in Live : a \in Addr /\ a \in allocated /\ field[a] \in Live \cup {Null}
  BY <1>5 DEF Live, IInv, Pointers
<1>8. ~ShouldForward(Null)
  BY DEF ShouldForward, InYoungGen, InCompactee
<1>9. Evacuating /\ \A a \in Addr : ~Pending(a)
  BY <1>1 DEF Evacuating, Pending, Copies, ToScan
<1>10. \A a \in Live' : /\ a \in Addr /\ a \in Live /\ field'[a] = field[a]
                        /\ ~ShouldForward(field[a]) /\ field[a] \in Live' \cup {Null}
  <2>1. SUFFICES ASSUME NEW a \in Live'
                 PROVE  /\ a \in Addr /\ a \in Live /\ field'[a] = field[a]
                        /\ ~ShouldForward(field[a]) /\ field[a] \in Live' \cup {Null}
    OBVIOUS
  <2>2. a \in Addr /\ a \in Live /\ ~ShouldForward(a)
    BY <1>6, <1>7
  <2>3. field'[a] = field[a]
    BY <1>1, <1>3, <2>2
  <2>4. ~ShouldForward(field[a])
    BY <1>9, <2>2 DEF IInv, Evacuation
  <2>5. QED
    BY <1>6, <1>7, <2>2, <2>3, <2>4
<1>11. \A r \in Roots : ~ShouldForward(roots[r]) /\ roots[r] \in Live' \cup {Null}
  <2>1. \A r \in Roots : ~ShouldForward(roots[r])
    BY <1>1, <1>9 DEF IInv, Evacuation
  <2>2. QED
    BY <1>6, <2>1 DEF IInv, Pointers
<1>12. weakRoot' \in Live' \cup {Null}
  <2>1. weakRoot \in Live \cup {Null}
    BY DEF IInv, Pointers
  <2>2. CASE ~ShouldForward(weakRoot)
    BY <1>1, <1>6, <2>1, <2>2
  <2>3. CASE ShouldForward(weakRoot) /\ forwarding[weakRoot] = Null
    BY <1>1, <2>3
  <2>4. CASE ShouldForward(weakRoot) /\ forwarding[weakRoot] # Null
    <3>1. PICK n : n = forwarding[weakRoot]
      OBVIOUS
    <3>2. weakRoot \in Addr
      BY <1>7, <1>8, <2>1, <2>4
    <3>3. n \in marked /\ n[1] \in OldSegments
      BY <2>4, <3>1, <3>2 DEF IInv, Forwards
    <3>4. n \in Live /\ ~ShouldForward(n)
      BY <1>5, <3>3 DEF Live, ShouldForward, InYoungGen, InCompactee, IInv, Layout
    <3>5. QED
      BY <1>1, <1>6, <2>4, <3>1, <3>4
  <2>5. QED
    BY <2>2, <2>3, <2>4
<1>13. \A a \in worklist : a \notin Vacated
  <2>1. SUFFICES ASSUME NEW a \in worklist
                 PROVE  ~ShouldForward(a)
    BY <1>3, <1>5
  <2>2. ogMarkingBarriers /\ InOldGen(a)
    BY DEF IInv, Cycle
  <2>3. QED
    BY <1>2, <2>2 DEF ShouldForward, InYoungGen, InOldGen
<1>14. Types'
  <2>1. weakRoot' \in Pointer
    BY <1>6, <1>7, <1>12 DEF Pointer
  <2>2. field' \in [Addr -> Pointer] /\ forwarding' \in [Addr -> Pointer]
    BY <1>1 DEF IInv, Types, TypeOK, Pointer
  <2>3. worklist' \subseteq marked' /\ allocated' \subseteq Addr /\ marked' \subseteq Addr
    BY <1>1, <1>5, <1>13
  <2>4. compactee' \in SegIds \cup {NoSegment} /\ pc' \in Points
    BY <1>1 DEF IInv, Types, TypeOK, Points
  <2>5. copyList' \in Seq(Addr) /\ seg' \in Nat /\ pos' \in Nat /\ segEnd' \in Nat
    BY <1>1 DEF IInv, Types
  <2>6. QED
    BY <1>1, <2>1, <2>2, <2>3, <2>4, <2>5 DEF IInv, Types, TypeOK
<1>15. Layout'
  <2>1. OldSegments' = OldSegments
    BY <1>1 DEF OldSegments
  <2>2. \A s \in OldSegments \cup {youngGen} : s # NoSegment
    <3>1. youngGen \in SegIds /\ \A i \in 1 .. Len(segments) : segments[i] \in SegIds
      BY DEF IInv, Types, TypeOK
    <3>2. QED
      BY <3>1, SegmentAssumption DEF OldSegments
  <2>3. compactee' \notin OldSegments /\ compactee' # youngGen
    BY <1>1, <2>2 DEF IInv, Layout
  <2>4. \A a \in allocated' : a[1] \in OldSegments \cup {youngGen, compactee'}
    <3>1. SUFFICES ASSUME NEW a \in allocated'
                   PROVE  a[1] \in OldSegments \cup {youngGen, compactee'}
      OBVIOUS
    <3>2. a \in Addr /\ a \in allocated /\ ~ShouldForward(a) /\ a # Null
      BY <1>1, <1>3, <1>5, NullAssumption
    <3>3. QED
      BY <1>1, <3>2 DEF ShouldForward, InCompactee, IInv, Layout
  <2>5. QED
    BY <1>1, <2>1, <2>3, <2>4 DEF IInv, Layout
<1>16. Cycle'
  <2>1. promoteYGToOG' => phase' = "None" /\ compactee' = NoSegment
    <3>1. promoteYGToOG => phase = "None" /\ compactee = NoSegment
      BY DEF IInv, Cycle
    <3>2. QED
      BY <1>1, <3>1
  <2>2. marked' \subseteq allocated' /\ \A a \in worklist' : InOldGen(a)'
    BY <1>1, <1>4, <1>5 DEF IInv, Cycle
  <2>3. \A a \in allocated' :
          (\E i \in segNumber' + 1 .. Len(segments') : a[1] = segments'[i])
              => a \in marked'
    BY <1>1 DEF IInv, Cycle
  <2>4. QED
    BY <1>1, <1>4, <2>1, <2>2, <2>3 DEF IInv, Cycle
<1>17. Control'
  <2>1. \A a \in allocated' : ~InYoungGen(a)'
    BY <1>1, <1>3, <1>4, <1>5 DEF ShouldForward
  <2>2. QED
    BY <1>1, <2>1 DEF Control, AtRest
<1>18. Pointers'
  BY <1>1, <1>10, <1>11, <1>12 DEF Pointers
<1>19. Snapshot'
  <2>1. SUFFICES ASSUME ogMarkingBarriers
                 PROVE  Snapshot'
    BY <1>4 DEF Snapshot
  <2>2. ~doCompaction
    BY <1>2, <2>1
  <2>3. \A b \in Visited :
              InOldGen(field[b]) /\ field[b] \notin marked =>
                 \/ field[b] \in worklist'
                 \/ /\ b \notin {} /\ field'[b] = field[b]
                    /\ InOldGen(field[b])' /\ field[b] \notin marked'
    <3>1. SUFFICES ASSUME NEW b \in Visited, InOldGen(field[b]), field[b] \notin marked
                   PROVE  /\ field'[b] = field[b] /\ InOldGen(field[b])'
                          /\ field[b] \notin marked'
      OBVIOUS
    <3>2. b \in Addr /\ InOldGen(b)
      BY <1>5, <2>1, VisitedAllocated
    <3>3. b \notin Vacated
      BY <1>3, <2>2, <3>2 DEF ShouldForward, InOldGen, InYoungGen
    <3>4. field'[b] = field[b]
      BY <1>1, <3>2, <3>3
    <3>5. QED
      BY <1>1, <3>1, <3>4 DEF InOldGen
  <2>4. worklist \subseteq worklist' \cup {} /\ {} \in SUBSET Addr
    BY <1>1
  <2>5. Visited \subseteq Visited' \cup {}
    BY <1>14, <2>3, <2>4, StillVisited DEF IInv
  <2>6. ASSUME NEW p, p \in Pointer, Reached(p), ~ShouldForward(p)
        PROVE  Reached(p)'
    <3>1. p = Null \/ p \in marked \cup Visited
      BY <2>6 DEF Reached, WeakLive, ShouldForward
    <3>2. p \in marked => p \in marked'
      BY <1>1, <1>3, <1>5, <2>6
    <3>3. QED
      BY <2>5, <3>1, <3>2 DEF Reached, WeakLive
  <2>7. ASSUME NEW r \in Roots
        PROVE  Reached(roots[r])'
    <3>1. PICK p : p = roots[r]
      OBVIOUS
    <3>2. p \in Pointer /\ Reached(p) /\ ~ShouldForward(p)
      BY <1>11, <2>1, <3>1 DEF IInv, Types, TypeOK, Snapshot
    <3>3. Reached(p)' /\ p = roots'[r]
      BY <1>1, <2>6, <3>1, <3>2
    <3>4. QED
      BY <3>3
  <2>8. ASSUME NEW a \in allocated', (InYoungGen(a) \/ a \in marked \ worklist)'
        PROVE  Reached(field[a])'
    <3>1. PICK p : p = field'[a]
      OBVIOUS
    <3>2. a \in Addr /\ ~ShouldForward(a) /\ ~InYoungGen(a) /\ a \in allocated
      BY <1>1, <1>3, <1>5, <2>8 DEF ShouldForward
    <3>3. a \in marked \ worklist /\ a \in Live'
      BY <1>1, <1>4, <1>6, <2>1, <2>8, <3>2 DEF Live
    <3>4. p = field[a] /\ ~ShouldForward(p) /\ p \in Pointer
      BY <1>10, <3>1, <3>2, <3>3 DEF IInv, Types, TypeOK
    <3>5. Reached(p)
      BY <2>1, <3>2, <3>3, <3>4 DEF IInv, Snapshot
    <3>6. Reached(p)'
      BY <2>6, <3>4, <3>5
    <3>7. QED
      BY <3>1, <3>6
  <2>9. ASSUME NEW a \in allocated', InYoungGen(field[a])'
        PROVE  Reached(a)'
    <3>1. a \in Addr /\ ~ShouldForward(a) /\ a \in allocated
      BY <1>1, <1>3, <1>5, <2>9
    <3>2. field'[a] = field[a]
      BY <1>1, <1>3, <3>1
    <3>3. Reached(a) /\ a \in Pointer
      BY <1>4, <2>1, <2>9, <3>1, <3>2 DEF IInv, Snapshot, Pointer
    <3>4. QED
      BY <2>6, <3>1, <3>3
  <2>10. QED
    BY <2>7, <2>8, <2>9 DEF Snapshot
<1>20. YoungCards'
  BY <1>4, <1>10 DEF YoungCards, ShouldForward
<1>21. CompacteeDirty'
  <2>1. CASE doCompaction
    <3>1. \A p \in Pointer : ~InCompactee(p)'
      BY <1>1, <2>1, NoSegmentIsNone, NullAssumption DEF InCompactee, Pointer
    <3>2. \A a \in Live' : field'[a] \in Pointer
      BY <1>10, <1>14 DEF Types, TypeOK
    <3>3. QED
      BY <3>1, <3>2 DEF CompacteeDirty
  <2>2. CASE ~doCompaction
    <3>1. /\ compactee' = compactee /\ dirty' = dirty /\ Copies = {}
          /\ \A b : InCompactee(b)' <=> InCompactee(b)
      BY <1>1, <2>2 DEF InCompactee, Copies
    <3>2. ASSUME NEW a \in Live', InOldGen(a), ~InCompactee(a),
                 InCompactee(field[a]),
                 ogMarkingBarriers => a \in (marked \ worklist)'
          PROVE  CardOf(a) \in dirty
      BY <1>1, <1>10, <2>2, <3>1, <3>2 DEF IInv, CompacteeDirty
    <3>3. QED
      BY <1>4, <1>10, <3>1, <3>2 DEF CompacteeDirty, CardOf
  <2>3. QED
    BY <2>1, <2>2
<1>22. Evacuation'
  BY <1>1 DEF Evacuation, Evacuating
<1>23. Forwards'
  BY <1>1 DEF Forwards
<1>24. QED
  BY <1>14, <1>15, <1>16, <1>17, <1>18, <1>19, <1>20, <1>21, <1>22, <1>23 DEF IInv

\* Marking completed after an evacuation keeps the invariant, as in FinishKeeps:
\* what could be known is what is marked now, and nothing is freed yet.
LEMMA YieldKeeps ==
    ASSUME IInv, Yield
    PROVE  IInv'
<1>1. /\ pc = "yield" /\ pc' = "start"
      /\ UNCHANGED <<heapVars, allocated, field, forwarding, roots, segNumber,
                     doCompaction, visitUnmarked, segEnd, seg, pos, copyList,
                     promoteYGToOG>>
  BY DEF Yield, evacVars
<1>2. UNCHANGED <<youngGen, segments, compactee>>
  BY <1>1 DEF heapVars
<1>3. /\ \A b : InYoungGen(b)' <=> InYoungGen(b)
      /\ \A b : InOldGen(b)' <=> InOldGen(b)
      /\ \A b : InCompactee(b)' <=> InCompactee(b)
  BY <1>2 DEF InYoungGen, InOldGen, InCompactee
<1>4. /\ AtRest /\ ~doCompaction' /\ copyList' = <<>>
      /\ forwarding' = [a \in Addr |-> Null]
      /\ \A a \in allocated : ~InYoungGen(a)
  BY <1>1 DEF IInv, Control, AtRest
<1>5. Control'
  <2>1. \A a \in allocated' : ~InYoungGen(a)'
    BY <1>1, <1>3, <1>4
  <2>2. QED
    BY <1>1, <1>4, <2>1 DEF Control, AtRest
<1>6. Evacuation' /\ Forwards'
  BY <1>1, <1>4 DEF Evacuation, Evacuating, Forwards
<1>7. Layout'
  BY <1>1, <1>2 DEF IInv, Layout, OldSegments
<1>8. CASE phase = "CompleteMarking"
  <2>1. PICK M : M = MarkedAtEnd
    OBVIOUS
  <2>2. ogMarkingBarriers /\ ~promoteYGToOG
    BY <1>8 DEF ogMarkingBarriers, IInv, Cycle
  <2>3. /\ marked' = M /\ worklist' = {} /\ phase' = "Sweep"
        /\ dirty' = dirty \cup CompacteeCards(Visited)
        /\ \/ weakRoot' = weakRoot /\ WeakLive(weakRoot, M)
           \/ weakRoot' = Null
    BY <1>8, <2>1, <2>2 DEF Yield, CompleteMarking
  <2>4. /\ marked \subseteq M /\ M \subseteq allocated /\ M = marked \cup Visited
        /\ \A p : Known(p) /\ p # Null <=> p \in allocated /\ (InYoungGen(p) \/ p \in M)
    BY <2>1, <2>2, KnownAtEnd DEF MarkedAtEnd
  <2>5. ~ogMarkingBarriers'
    BY <2>3 DEF ogMarkingBarriers
  <2>6. \A a : a \in Live' <=> Known(a) /\ a # Null
    BY <1>1, <1>3, <2>3, <2>4, <2>5 DEF Live
  <2>7. Live' \subseteq Live
    BY <2>6 DEF Known
  <2>8. dirty \subseteq dirty' /\ dirty' \subseteq {CardOf(a) : a \in Addr}
    BY <2>3, WorklistVisited DEF CompacteeCards, IInv, Types, TypeOK
  <2>9. Types'
    BY <1>1, <1>2, <2>3, <2>4, <2>8 DEF IInv, Types, TypeOK, Phase, Points, Pointer
  <2>10. Cycle'
    BY <1>1, <1>2, <2>2, <2>3, <2>4 DEF IInv, Cycle
  <2>11. Pointers'
    <3>1. \A a \in Live' : field'[a] \in Live' \cup {Null}
      BY <1>1, <2>6, FieldKnown
    <3>2. \A r \in Roots : roots'[r] \in Live' \cup {Null}
      BY <1>1, <2>6, RootKnown
    <3>3. weakRoot' \in Live' \cup {Null}
      <4>1. WeakLive(weakRoot, M) => Known(weakRoot)
        BY <2>1, <2>2, KnownAtEnd DEF Known, IInv, Pointers
      <4>2. QED
        BY <2>3, <2>6, <4>1
    <3>4. QED
      BY <3>1, <3>2, <3>3 DEF Pointers
  <2>12. Snapshot'
    BY <2>5 DEF Snapshot
  <2>13. YoungCards'
    BY <1>1, <1>3, <1>4, <2>7, <2>8 DEF IInv, YoungCards, CardOf
  <2>14. CompacteeDirty'
    <3>1. ASSUME NEW a \in Live', InOldGen(a), ~InCompactee(a), InCompactee(field[a])
          PROVE  CardOf(a) \in dirty'
      <4>1. a \in Live /\ a \in M
        BY <2>4, <2>6, <2>7, <3>1 DEF InOldGen, InYoungGen
      <4>2. CASE a \in Visited
        <5>1. CardOf(a) \in CompacteeCards(Visited)
          BY <3>1, <4>2 DEF CompacteeCards
        <5>2. QED
          BY <2>3, <5>1
      <4>3. CASE a \in marked \ worklist
        <5>1. Copies = {} /\ ~doCompaction
          BY <1>1, <1>4, NoCopies DEF IInv
        <5>2. QED
          BY <2>8, <3>1, <4>1, <4>3, <5>1 DEF IInv, CompacteeDirty
      <4>4. QED
        BY <2>4, <4>1, <4>2, <4>3, WorklistVisited DEF IInv
    <3>2. QED
      BY <1>1, <1>3, <3>1 DEF CompacteeDirty, CardOf
  <2>15. QED
    BY <1>5, <1>6, <1>7, <2>9, <2>10, <2>11, <2>12, <2>13, <2>14 DEF IInv
<1>9. CASE phase # "CompleteMarking"
  <2>1. UNCHANGED <<marked, dirty, weakRoot, worklist, phase>>
    BY <1>9 DEF Yield
  <2>2. UNCHANGED <<heapVars, cellVars, roots, weakRoot, cycleVars, doCompaction,
                    copyList, promoteYGToOG>>
    BY <1>1, <2>1 DEF cellVars, cycleVars
  <2>3. Pointers' /\ Snapshot' /\ Cycle' /\ CompacteeDirty' /\ Live' = Live
    BY <2>1, <2>2, ScanSame
  <2>4. Types'
    BY <1>1, <1>2, <2>1 DEF IInv, Types, TypeOK, Points
  <2>5. YoungCards'
    BY <1>1, <1>3, <1>4, <2>1, <2>3 DEF IInv, YoungCards, CardOf
  <2>6. QED
    BY <1>5, <1>6, <1>7, <2>3, <2>4, <2>5 DEF IInv
<1>10. QED
  BY <1>8, <1>9

\* An OG collection begins when the YG is empty and all that is allocated is live:
\* the roots are the worklist.
LEMMA OldGenCollectionKeeps ==
    ASSUME IInv, NEW compact \in BOOLEAN, OldGenCollection(compact)
    PROVE  IInv'
<1>1. /\ pc = "start" /\ pc' = "mutator" /\ phase = "None" /\ compactee = NoSegment
      /\ phase' = "Mark" /\ promoteYGToOG' = FALSE
      /\ marked' = {roots[r] : r \in Roots} \ {Null} /\ worklist' = marked'
      /\ segNumber' = Len(segments')
      /\ UNCHANGED <<youngGen, allocated, field, forwarding, roots, weakRoot,
                     doCompaction, visitUnmarked, segEnd, seg, pos, copyList, dirty>>
  BY DEF OldGenCollection, progVars, evacVars
<1>2. segments \in Seq(SegIds) /\ Len(segments) \in Nat
  BY DEF IInv, Types, TypeOK
<1>3. /\ segments' \in Seq(SegIds) /\ Len(segments') <= Len(segments)
      /\ \A i \in 1 .. Len(segments') : i \in 1 .. Len(segments)
                                        /\ segments'[i] = segments[i]
      /\ \/ compactee' = NoSegment /\ Len(segments') = Len(segments)
         \/ /\ Len(segments) # 0 /\ compactee' = segments[Len(segments)]
            /\ Len(segments') = Len(segments) - 1
  <2>1. CASE compact
    <3>1. /\ Len(segments) > 1 /\ compactee' = segments[Len(segments)]
          /\ segments' = SubSeq(segments, 1, Len(segments) - 1)
      BY <2>1 DEF OldGenCollection
    <3>2. QED
      BY <1>2, <3>1
  <2>2. CASE ~compact
    <3>1. compactee' = NoSegment /\ segments' = SubSeq(segments, 1, Len(segments) - 0)
      BY <2>2 DEF OldGenCollection
    <3>2. QED
      BY <1>2, <3>1
  <2>3. QED
    BY <2>1, <2>2
<1>4. /\ ~doCompaction' /\ copyList' = <<>> /\ forwarding' = [a \in Addr |-> Null]
      /\ \A a \in allocated : ~InYoungGen(a)
  BY <1>1 DEF IInv, Control, AtRest
<1>5. allocated \subseteq Addr /\ marked \subseteq allocated
  BY DEF IInv, Cycle, Types, TypeOK
<1>6. \A a \in allocated : /\ a \in Addr /\ a # Null /\ a[1] \in OldSegments
                           /\ InOldGen(a)
  <2>1. \A a \in allocated : a \in Addr /\ a # Null /\ a[1] # NoSegment
    BY <1>5, NullAssumption, NoSegmentIsNone
  <2>2. QED
    BY <1>1, <1>4, <2>1 DEF IInv, Layout, InYoungGen, InOldGen
<1>7. allocated \subseteq marked
  <2>1. \A a \in allocated : \E i \in 1 .. Len(segments) : a[1] = segments[i]
    BY <1>6 DEF OldSegments
  <2>2. segNumber = 0
    BY <1>1 DEF IInv, Cycle
  <2>3. QED
    BY <2>1, <2>2 DEF IInv, Cycle
<1>8. ogMarkingBarriers'
  BY <1>1 DEF ogMarkingBarriers
<1>9. /\ \A b : InYoungGen(b)' <=> InYoungGen(b)
      /\ \A b : InOldGen(b)' <=> InOldGen(b)
  BY <1>1 DEF InYoungGen, InOldGen
<1>10. Live = allocated /\ Live' = allocated
  BY <1>1, <1>7, <1>8 DEF Live
<1>11. marked' \subseteq allocated /\ \A r \in Roots : roots[r] \in marked' \cup {Null}
  BY <1>1, <1>10 DEF IInv, Pointers
<1>12. Types'
  <2>1. compactee' \in SegIds \cup {NoSegment}
    BY <1>2, <1>3
  <2>2. segNumber' \in 0 .. Len(segments')
    BY <1>1, <1>3
  <2>3. marked' \subseteq Addr /\ worklist' \subseteq marked'
    BY <1>1, <1>5, <1>11
  <2>4. QED
    BY <1>1, <1>3, <2>1, <2>2, <2>3 DEF IInv, Types, TypeOK, Phase, Points
<1>13. Layout'
  <2>1. OldSegments' \subseteq OldSegments
    BY <1>3 DEF OldSegments
  <2>2. \A i, j \in 1 .. Len(segments) : segments[i] = segments[j] => i = j
    BY DEF IInv, Layout
  <2>3. \A i, j \in 1 .. Len(segments') : segments'[i] = segments'[j] => i = j
    BY <1>3, <2>2
  <2>4. youngGen' \notin OldSegments'
    BY <1>1, <2>1 DEF IInv, Layout
  <2>5. CASE compactee' = NoSegment /\ Len(segments') = Len(segments)
    <3>1. OldSegments' = OldSegments
      BY <1>3, <2>5 DEF OldSegments
    <3>2. QED
      BY <1>1, <2>3, <2>4, <2>5, <3>1 DEF IInv, Layout
  <2>6. CASE /\ Len(segments) # 0 /\ compactee' = segments[Len(segments)]
             /\ Len(segments') = Len(segments) - 1
    <3>1. Len(segments) \in 1 .. Len(segments)
      BY <1>2, <2>6
    <3>2. \A i \in 1 .. Len(segments) : i \in 1 .. Len(segments') \/ i = Len(segments)
      BY <1>2, <2>6
    <3>3. OldSegments \subseteq OldSegments' \cup {compactee'}
      BY <1>3, <2>6, <3>2 DEF OldSegments
    <3>4. \A i \in 1 .. Len(segments') : segments'[i] # compactee'
      BY <1>2, <1>3, <2>2, <2>6, <3>1
    <3>5. compactee' \notin OldSegments'
      BY <3>4 DEF OldSegments
    <3>6. compactee' \in OldSegments
      BY <2>6, <3>1 DEF OldSegments
    <3>7. compactee' # youngGen
      BY <3>6 DEF IInv, Layout
    <3>8. \A a \in allocated : a[1] \in OldSegments' \cup {youngGen, compactee'}
      BY <1>6, <3>3
    <3>9. QED
      BY <1>1, <2>3, <2>4, <3>5, <3>7, <3>8 DEF Layout
  <2>7. QED
    BY <1>3, <2>5, <2>6
<1>14. Cycle'
  <2>1. \A a \in worklist' : InOldGen(a)'
    BY <1>1, <1>6, <1>9, <1>11
  <2>2. Len(segments') \in Nat
    BY <1>3
  <2>3. segNumber' + 1 .. Len(segments') = {}
    BY <1>1, <2>2
  <2>4. QED
    BY <1>1, <1>8, <1>11, <2>1, <2>3 DEF Cycle
<1>15. Control' /\ Evacuation' /\ Forwards'
  BY <1>1, <1>4 DEF Control, Evacuation, Evacuating, Forwards, AtRest
<1>16. Pointers'
  BY <1>1, <1>10 DEF IInv, Pointers
<1>17. Snapshot'
  <2>1. ASSUME NEW r \in Roots
        PROVE  Reached(roots[r])'
    <3>1. PICK p : p = roots'[r]
      OBVIOUS
    <3>2. p = Null \/ p \in marked'
      BY <1>1, <1>11, <3>1
    <3>3. Reached(p)'
      BY <3>2 DEF Reached, WeakLive
    <3>4. QED
      BY <3>1, <3>3
  <2>2. \A a \in allocated' : ~InYoungGen(a)' /\ a \notin (marked \ worklist)'
    BY <1>1, <1>4, <1>9
  <2>3. \A a \in allocated' : ~InYoungGen(field[a])'
    <3>1. \A a \in allocated : field[a] \in allocated \cup {Null}
      BY <1>10 DEF IInv, Pointers
    <3>2. \A a \in allocated : ~InYoungGen(field[a])
      BY <1>4, <3>1 DEF InYoungGen
    <3>3. QED
      BY <1>1, <1>9, <3>2
  <2>4. QED
    BY <2>1, <2>2, <2>3 DEF Snapshot
<1>18. YoungCards'
  BY <1>1, <1>9, <1>10 DEF IInv, YoungCards, AtRest, CardOf
<1>19. CompacteeDirty'
  <2>1. (marked \ worklist)' = {}
    BY <1>1
  <2>2. QED
    BY <1>8, <2>1 DEF CompacteeDirty
<1>20. QED
  BY <1>12, <1>13, <1>14, <1>15, <1>16, <1>17, <1>18, <1>19 DEF IInv

------------------------------------------------------------------------------
(* The invariant, and what it implies.                                        *)

\* The heaps a program starts from satisfy the invariant.
LEMMA InitIInv == Init => IInv
<1> SUFFICES ASSUME Init
             PROVE  IInv
  OBVIOUS
<1>1. PICK h \in Heaps :
          /\ youngGen = h.youngGen /\ segments = h.segments
          /\ allocated = h.allocated /\ field = h.field
          /\ roots = h.roots /\ phase = h.phase /\ worklist = h.worklist
          /\ marked = IF h.phase = "Mark" THEN h.worklist ELSE h.allocated
          /\ segNumber = IF h.phase = "Mark" THEN Len(h.segments) ELSE 0
          /\ promoteYGToOG \in {FALSE, h.phase = "None"}
  BY DEF Init
<1>2. /\ weakRoot = Null /\ compactee = NoSegment /\ dirty = {}
      /\ pc = "mutator" /\ doCompaction = FALSE /\ visitUnmarked = FALSE
      /\ segEnd = 0 /\ seg = 0 /\ pos = 0
      /\ forwarding = [a \in Addr |-> Null] /\ copyList = <<>>
  BY DEF Init
<1>3. WellFormedHeap(h)
  BY HeapsAssumption
<1>4. /\ youngGen \in SegIds /\ segments \in Seq(SegIds)
      /\ \A i, j \in 1 .. Len(segments) : segments[i] = segments[j] => i = j
      /\ \A i \in 1 .. Len(segments) : segments[i] # youngGen
      /\ allocated \subseteq Addr /\ field \in [Addr -> Pointer] /\ roots \in [Roots -> Pointer]
      /\ \A a \in allocated :
            /\ a[1] = youngGen \/ \E i \in 1 .. Len(segments) : a[1] = segments[i]
            /\ field[a] \in allocated \cup {Null}
            /\ a[1] # youngGen /\ field[a] # Null => field[a][1] # youngGen
      /\ \A r \in Roots : roots[r] \in allocated \cup {Null}
  BY <1>1, <1>3 DEF WellFormedHeap
<1>5. Len(segments) \in Nat /\ \A i \in 1 .. Len(segments) : segments[i] \in SegIds
  BY <1>4
<1>6. \/ /\ phase = "None" /\ worklist = {} /\ marked = allocated /\ segNumber = 0
         /\ promoteYGToOG \in BOOLEAN /\ ~ogMarkingBarriers
      \/ /\ phase = "Mark" /\ marked = worklist /\ segNumber = Len(segments)
         /\ promoteYGToOG = FALSE /\ ogMarkingBarriers /\ MarkingHeap(h)
  BY <1>1, <1>3 DEF WellFormedHeap, ogMarkingBarriers
<1>7. Live = allocated
  BY <1>6 DEF Live
<1>8. \A p \in Pointer : ~InCompactee(p)
  BY <1>2, NoSegmentIsNone
<1>9. Types
  <2>1. marked \subseteq allocated /\ worklist \subseteq marked
    BY <1>1, <1>6 DEF MarkingHeap
  <2>2. /\ phase \in Phase /\ segNumber \in 0 .. Len(segments)
    BY <1>5, <1>6 DEF Phase
  <2>3. QED
    BY <1>2, <1>4, <1>5, <2>1, <2>2 DEF Types, TypeOK, Pointer, Points
<1>10. Layout
  <2>1. NoSegment \notin SegIds
    BY SegmentAssumption
  <2>2. QED
    BY <1>2, <1>4, <1>5, <2>1 DEF Layout, OldSegments
<1>11. Cycle
  <2>1. /\ marked \subseteq allocated
        /\ \A a \in worklist : InOldGen(a)
    BY <1>1, <1>4, <1>6, NullAssumption DEF MarkingHeap, InOldGen
  <2>2. \A a \in allocated :
           (\E i \in segNumber + 1 .. Len(segments) : a[1] = segments[i])
               => a \in marked
    BY <1>5, <1>6
  <2>3. QED
    BY <1>2, <1>6, <2>1, <2>2 DEF Cycle
<1>12. Control /\ Evacuation /\ Forwards
  BY <1>2 DEF Control, Evacuation, Evacuating, Forwards, AtRest
<1>13. Pointers
  BY <1>2, <1>4, <1>7 DEF Pointers
<1>14. Snapshot
  <2> SUFFICES ASSUME ogMarkingBarriers
               PROVE  Snapshot
    BY DEF Snapshot
  <2>1. marked = worklist /\ worklist = h.worklist /\ MarkingHeap(h)
    BY <1>1, <1>6
  <2>2. ASSUME NEW p \in allocated \cup {Null}, Snapshotted(h, p)
        PROVE  Reached(p)
    <3>1. CASE p = Null \/ p[1] = youngGen \/ p \in worklist
      BY <1>4, <2>1, <3>1, NullAssumption DEF Reached, WeakLive, InYoungGen
    <3>2. CASE p # Null /\ p[1] # youngGen /\ \E a \in worklist : p = field[a]
      <4>1. PICK a \in worklist : p = field[a]
        BY <3>2
      <4>2. a \in Visited
        BY <1>9, <4>1, WorklistVisited
      <4>3. InOldGen(p)
        BY <3>2 DEF InOldGen
      <4>4. QED
        BY <1>9, <4>1, <4>2, <4>3, VisitedCloses DEF Reached, WeakLive
    <3>3. QED
      BY <1>1, <2>1, <2>2, <3>1, <3>2 DEF Snapshotted
  <2>3. \A r \in Roots : Reached(roots[r])
    BY <1>1, <1>4, <2>1, <2>2 DEF MarkingHeap
  <2>4. \A a \in allocated : InYoungGen(a) \/ a \in marked \ worklist => Reached(field[a])
    BY <1>1, <1>4, <2>1, <2>2 DEF MarkingHeap, InYoungGen
  <2>5. \A a \in allocated : InYoungGen(field[a]) => Reached(a)
    BY <1>4, NullAssumption DEF Reached, WeakLive, InYoungGen
  <2>6. QED
    BY <2>3, <2>4, <2>5 DEF Snapshot
<1>15. YoungCards
  BY <1>4, <1>7 DEF YoungCards, InOldGen, InYoungGen
<1>16. CompacteeDirty
  BY <1>4, <1>7, <1>8 DEF CompacteeDirty
<1>17. QED
  BY <1>9, <1>10, <1>11, <1>12, <1>13, <1>14, <1>15, <1>16 DEF IInv

\* A step of the program keeps the invariant.
LEMMA ProgramKeeps ==
    ASSUME IInv, ProgramStep
    PROVE  IInv'
<1>1. PICK r \in Roots :
        \/ \E v \in RootValues : Store(r, v) \/ AllocYoung(r, v) \/ AllocLongLived(r, v)
        \/ \E q \in Roots : Load(r, q)
        \/ Drop(r) \/ MakeWeak(r) \/ LoadWeak(r)
  BY DEF ProgramStep
<1>2. CASE \E v \in RootValues : Store(r, v) \/ AllocYoung(r, v) \/ AllocLongLived(r, v)
  BY <1>2, StoreKeeps, AllocYoungKeeps, AllocLongLivedKeeps
<1>3. CASE \E q \in Roots : Load(r, q)
  BY <1>3, LoadKeeps
<1>4. CASE Drop(r) \/ MakeWeak(r) \/ LoadWeak(r)
  BY <1>4, DropKeeps, MakeWeakKeeps, LoadWeakKeeps
<1>5. QED
  BY <1>1, <1>2, <1>3, <1>4

\* So does one of a YG collection.
LEMMA EvacuationStepKeeps ==
    ASSUME IInv, Waiting, EvacuationStep
    PROVE  IInv'
<1>1. CASE Promote \/ YoungGenCollection
  BY <1>1, PromoteKeeps, CollectionBegins
<1>2. CASE AcceptOther \/ AcceptForwarded \/ AcceptCopy
  BY <1>2, AcceptOtherKeeps, AcceptForwardedKeeps, AcceptCopyKeeps
<1>3. CASE AcceptWait \/ OutOfMemory
  BY <1>3, WaitKeeps, OutOfMemoryKeeps
<1>4. CASE RootsEnd \/ SkipCell \/ SegmentEnd \/ CardsEnd
  BY <1>4, RootsEndKeeps, SkipKeeps, SegmentEndKeeps, CardsEndKeeps
<1>5. CASE EvacuationEnd \/ Yield \/ NoOldGenCollection
  BY <1>5, EvacuationEndKeeps, YieldKeeps, NoCollectionKeeps
<1>6. CASE \E compact \in BOOLEAN : OldGenCollection(compact)
  BY <1>6, OldGenCollectionKeeps
<1>7. QED
  BY <1>1, <1>2, <1>3, <1>4, <1>5, <1>6 DEF EvacuationStep

\* The invariant depends on no bound.
LEMMA StutterKeeps ==
    ASSUME IInv, UNCHANGED vars
    PROVE  IInv'
<1>1. UNCHANGED <<heapVars, cellVars, roots, weakRoot, cycleVars, doCompaction,
                  visitUnmarked, segEnd, seg, pos, copyList, dirty, pc, promoteYGToOG>>
  BY DEF vars, progVars, evacVars
<1>2. /\ Layout' /\ Pointers' /\ Snapshot' /\ Cycle' /\ Forwards' /\ CompacteeDirty'
      /\ Live' = Live /\ Copies' = Copies
      /\ \A b : ShouldForward(b)' <=> ShouldForward(b)
      /\ \A b : InYoungGen(b)' <=> InYoungGen(b)
      /\ preparingCompaction' <=> preparingCompaction
      /\ ogMarkingBarriers' <=> ogMarkingBarriers
      /\ UNCHANGED <<compactee, segments, field, allocated, forwarding, phase>>
  BY <1>1, ScanSame
<1>3. \A b : InOldGen(b)' <=> InOldGen(b)
  BY <1>1 DEF InOldGen, heapVars
<1>4. Types'
  BY <1>1 DEF IInv, Types, TypeOK, heapVars, cellVars, cycleVars
<1>5. Control'
  BY <1>1, <1>2 DEF IInv, Control, AtRest
<1>6. YoungCards'
  BY <1>1, <1>2, <1>3 DEF IInv, YoungCards, AtRest, CardOf
<1>7. \A b : Pending(b)' <=> Pending(b)
  BY <1>1, <1>2 DEF Pending, ToScan, CardOf
<1>8. Evacuation'
  BY <1>1, <1>2, <1>7 DEF IInv, Evacuation, Evacuating
<1>9. QED
  BY <1>2, <1>4, <1>5, <1>6, <1>8 DEF IInv

\* The cell being scanned is not freed by the wait: if the marker has not come to it
\* yet it leads into the YG, so the marker does come to it before the sweep.
LEMMA AcceptWaitKeepsCell ==
    ASSUME IInv, Waiting, AcceptWait
    PROVE  Waiting'
<1>1. /\ MustCopy /\ HeapFull /\ FinishCollection /\ phase # "None" /\ phase' = "None"
      /\ UNCHANGED <<doCompaction, visitUnmarked, segEnd, seg, pos, copyList, pc,
                     youngGen, segments, compactee, field, forwarding, roots>>
  BY DEF AcceptWait, FinishCollection, heapVars
<1>2. AtPointer /\ ShouldForward(Current) /\ forwarding[Current] = Null
  BY <1>1 DEF MustCopy
<1>3. ~AtRest /\ pc # "oom"
  BY <1>2 DEF AtPointer, AtRoot, CurrentCell, Scanning, AtRest
<1>4. PICK x : x = <<Scanned, pos>>
  OBVIOUS
<1>5. (x = <<Scanned, pos>>)' /\ (Scanning' <=> Scanning) /\ (AtRoot' <=> AtRoot)
  BY <1>1, <1>4 DEF Scanned, Scanning, AtRoot
<1>6. ASSUME Scanning
      PROVE  OnDirtyCard(x) /\ OnDirtyCard(x)'
  <2>1. pc \in {"cards", "compactee"} /\ CurrentCell # Null
    BY <1>2, <1>6 DEF Scanning, AtPointer, AtRoot
  <2>2. OnDirtyCard(x) /\ CurrentCell = x
    BY <1>4, <1>6, <2>1 DEF CurrentCell, Waiting
  <2>3. /\ x \in Addr /\ x \in allocated /\ InOldGen(x)
        /\ pc = "cards" => x[1] \in OldSegments
        /\ pc = "compactee" => x[1] = compactee
    <3>1. x # Null
      BY <2>1, <2>2
    <3>2. /\ CurrentCell \in Addr /\ CurrentCell \in allocated /\ InOldGen(CurrentCell)
          /\ pc = "cards" => CurrentCell[1] \in OldSegments
          /\ pc = "compactee" => CurrentCell = <<compactee, pos>>
      BY <2>1, CurrentCellIs
    <3>3. QED
      BY <2>2, <3>2
  <2>4. marked \subseteq MarkedAtEnd
    BY KnownAtEnd
  <2>5. x \in MarkedAtEnd \/ pc = "compactee"
    <3>1. SUFFICES ASSUME x \notin marked, pc = "cards"
                   PROVE  x \in MarkedAtEnd
      BY <2>1, <2>4
    <3>2. visitUnmarked /\ phase # "Sweep"
      BY <2>2, <3>1 DEF OnDirtyCard, IInv, Control
    <3>3. ogMarkingBarriers
      BY <1>1, <3>2 DEF ogMarkingBarriers, IInv, Types, TypeOK, Phase
    <3>4. InYoungGen(field[x])
      <4>1. Current = field[x]
        BY <2>2, <3>1 DEF Current, AtRoot
      <4>2. QED
        BY <1>2, <3>3, <4>1 DEF ShouldForward, IInv, Control
    <3>5. Reached(x)
      BY <2>3, <3>3, <3>4 DEF IInv, Snapshot
    <3>6. WeakLive(x, MarkedAtEnd)
      BY <3>3, <3>5, KnownAtEnd
    <3>7. QED
      BY <2>3, <3>6 DEF WeakLive, InOldGen, InYoungGen
  <2>6. allocated' = allocated \ Dead(1 .. segNumber, MarkedAtEnd)
        /\ marked' = MarkedAtEnd /\ dirty \subseteq dirty'
    BY <1>1 DEF FinishCollection, CompleteMarking
  <2>7. x \notin Dead(1 .. segNumber, MarkedAtEnd)
    <3>1. 1 .. segNumber \subseteq 1 .. Len(segments)
      BY DEF IInv, Types, TypeOK
    <3>2. \A i \in 1 .. segNumber : segments[i] # compactee
      BY <3>1 DEF IInv, Layout, OldSegments
    <3>3. QED
      BY <2>3, <2>5, <3>2 DEF Dead
  <2>8. x \in allocated' /\ CardOf(x)' \in dirty' /\ (visitUnmarked' \/ x \in marked')
    BY <1>1, <2>2, <2>3, <2>4, <2>6, <2>7 DEF OnDirtyCard, CardOf
  <2>9. QED
    BY <2>2, <2>8 DEF OnDirtyCard, CardOf
<1>7. CurrentCell' = CurrentCell
  <2>1. waited'
    BY DEF AcceptWait
  <2>2. CASE Scanning
    BY <1>4, <1>5, <1>6, <2>1, <2>2 DEF CurrentCell
  <2>3. CASE ~Scanning
    BY <1>1, <1>5, <2>3 DEF CurrentCell
  <2>4. QED
    BY <2>2, <2>3
<1>8. MustCopy'
  <2>1. Current' = Current
    BY <1>1, <1>5, <1>7 DEF Current
  <2>2. ShouldForward(Current)'
    BY <1>1, <1>2, <2>1 DEF ShouldForward, InYoungGen, InCompactee
  <2>3. QED
    BY <1>1, <1>2, <1>5, <1>7, <2>1, <2>2 DEF MustCopy, AtPointer
<1>9. QED
  BY <1>1, <1>3, <1>4, <1>5, <1>6, <1>8 DEF Waiting, AtRest

\* Nothing happens to an allocation that has waited but that it gets its room, or
\* that there is none.
LEMMA WaitingKeeps ==
    ASSUME IInv, Waiting, [Next]_vars
    PROVE  Waiting'
<1>1. CASE AcceptWait
  BY <1>1, AcceptWaitKeepsCell
<1>2. CASE OutOfMemory
  BY <1>2 DEF OutOfMemory, Waiting, AtRest, Scanning
<1>3. CASE AcceptCopy
  BY <1>3 DEF AcceptCopy, Waiting
<1>4. ASSUME ~waited, waited' = waited
      PROVE  Waiting'
  BY <1>4 DEF Waiting
<1>5. CASE ProgramStep \/ CollectorStep
  <2>1. pc = "mutator" /\ waited' = waited
    BY <1>5 DEF ProgramStep, CollectorStep, Program, Store, AllocYoung, AllocLongLived,
                Load, Drop, MakeWeak, LoadWeak, MarkCell, MarkEnd, SweepNext,
                WaitForCollection, evacVars
  <2>2. ~waited
    BY <2>1 DEF Waiting, AtRest
  <2>3. QED
    BY <1>4, <2>1, <2>2
<1>6. CASE \/ Promote \/ YoungGenCollection \/ Yield \/ NoOldGenCollection
           \/ \E compact \in BOOLEAN : OldGenCollection(compact)
  <2>1. AtRest /\ waited' = waited
    BY <1>6 DEF AtRest, Promote, YoungGenCollection, Yield, NoOldGenCollection,
                OldGenCollection, evacVars
  <2>2. ~waited
    BY <2>1 DEF Waiting
  <2>3. QED
    BY <1>4, <2>1, <2>2
<1>7. CASE AcceptOther \/ AcceptForwarded
  <2>1. AtPointer /\ ~MustCopy /\ waited' = waited
    BY <1>7 DEF AcceptOther, AcceptForwarded, MustCopy
  <2>2. pc # "oom"
    BY <2>1 DEF AtPointer, AtRoot, CurrentCell, Scanning
  <2>3. ~waited
    BY <2>1, <2>2 DEF Waiting
  <2>4. QED
    BY <1>4, <2>1, <2>3
<1>8. CASE RootsEnd \/ SkipCell \/ SegmentEnd \/ CardsEnd \/ EvacuationEnd
  <2>1. waited' = waited /\ pc # "oom"
    BY <1>8 DEF RootsEnd, SkipCell, SegmentEnd, CardsEnd, EvacuationEnd, Scanning
  <2>2. CASE SkipCell
    BY <1>4, <2>1, <2>2 DEF SkipCell
  <2>3. CASE RootsEnd \/ SegmentEnd \/ CardsEnd \/ EvacuationEnd
    <3>1. pos \in Nat /\ NumRoots \in Nat /\ SegmentSize \in Nat /\ seg \in Nat /\ segEnd \in Nat
      BY BoundAssumption, SegmentAssumption DEF IInv, Types
    <3>2. ~AtRoot /\ ~Scanning /\ (pc = "copy" => copyList = <<>>)
      BY <2>3, <3>1 DEF RootsEnd, SegmentEnd, CardsEnd, EvacuationEnd, AtRoot, Scanning
    <3>3. ~MustCopy
      BY <3>2 DEF MustCopy, AtPointer, CurrentCell
    <3>4. ~waited
      BY <2>1, <3>3 DEF Waiting
    <3>5. QED
      BY <1>4, <2>1, <3>4
  <2>4. QED
    BY <1>8, <2>2, <2>3
<1>9. CASE UNCHANGED vars
  <2>1. UNCHANGED <<heapVars, cellVars, progVars, cycleVars, evacVars, dirty, pc>>
    BY <1>9 DEF vars
  <2>2. UNCHANGED <<youngGen, segments, compactee, allocated, field, marked, forwarding,
                    roots, phase, doCompaction, visitUnmarked, segEnd, seg, pos, copyList,
                    waited, dirty, pc>>
    BY <2>1 DEF heapVars, cellVars, progVars, cycleVars, evacVars
  <2>3. /\ AtRest' <=> AtRest
        /\ Scanning' <=> Scanning
        /\ OnDirtyCard(<<Scanned, pos>>)' <=> OnDirtyCard(<<Scanned, pos>>)
        /\ AtRoot' <=> AtRoot
        /\ CurrentCell' = CurrentCell
    BY <2>2 DEF AtRest, Scanning, OnDirtyCard, Scanned, CardOf, AtRoot, CurrentCell
  <2>4. Current' = Current
    BY <2>2, <2>3 DEF Current
  <2>5. MustCopy' <=> MustCopy
    BY <2>2, <2>3, <2>4 DEF MustCopy, AtPointer, ShouldForward, InYoungGen, InCompactee
  <2>6. QED
    BY <2>2, <2>3, <2>5 DEF Waiting
<1>10. QED
  BY <1>1, <1>2, <1>3, <1>5, <1>6, <1>7, <1>8, <1>9 DEF Next, EvacuationStep

\* The invariant is inductive.
THEOREM Inductive == Spec => [](IInv /\ Waiting)
<1>1. IInv /\ Waiting /\ [Next]_vars => IInv'
  <2> SUFFICES ASSUME IInv, Waiting, [Next]_vars
               PROVE  IInv'
    OBVIOUS
  <2>1. CASE ProgramStep
    BY <2>1, ProgramKeeps
  <2>2. CASE CollectorStep
    BY <2>2, MarkCellKeeps, MarkEndKeeps, SweepKeeps, WaitKeeps DEF CollectorStep
  <2>3. CASE EvacuationStep
    BY <2>3, EvacuationStepKeeps
  <2>4. CASE UNCHANGED vars
    BY <2>4, StutterKeeps
  <2>5. QED
    BY <2>1, <2>2, <2>3, <2>4 DEF Next
<1>2. Init => Waiting
  BY DEF Init, Waiting
<1>3. IInv /\ Waiting /\ [Next]_vars => Waiting'
  BY WaitingKeeps
<1>4. QED
  BY <1>1, <1>2, <1>3, InitIInv, PTL DEF Spec

\* forAllObjs visits live cells only: garbage is unmarked, and skipped while the
\* sweeper may still meet it.
LEMMA AllObjsLive == IInv => AllObjs \subseteq Live
<1> SUFFICES ASSUME IInv, NEW a \in AllObjs
             PROVE  a \in Live
  OBVIOUS
<1>1. a \in allocated /\ a # Null
  BY NullAssumption DEF AllObjs, IInv, Types, TypeOK
<1>2. CASE a[1] = youngGen
  BY <1>1, <1>2 DEF Live, InYoungGen
<1>3. CASE a[1] \in OldSegments /\ (phase = "Sweep" => a \in marked)
  <2>1. CASE phase = "None"
    <3>1. \E i \in segNumber + 1 .. Len(segments) : a[1] = segments[i]
      BY <1>3, <2>1 DEF OldSegments, IInv, Cycle
    <3>2. QED
      BY <1>1, <3>1 DEF Live, IInv, Cycle
  <2>2. CASE phase # "None"
    BY <1>1, <1>3, <2>2 DEF Live, ogMarkingBarriers, IInv, Types, TypeOK, Phase
  <2>3. QED
    BY <2>1, <2>2
<1>4. CASE a[1] = compactee /\ (~ogMarkingBarriers => a \in marked)
  BY <1>1, <1>4 DEF Live
<1>5. QED
  BY <1>2, <1>3, <1>4 DEF AllObjs

\* Whenever the program runs, a pointer leads to a cell, whatever was moved,
\* completed in the middle of an evacuation or swept.
THEOREM WellFormedHolds == Spec => []WellFormed
<1>1. IInv => WellFormed
  <2> SUFFICES ASSUME IInv
               PROVE  WellFormed
    OBVIOUS
  <2>1. TypeOK
    BY DEF IInv, Types
  <2>2. \A a \in AllObjs : field[a] \in Live \cup {Null}
    BY AllObjsLive DEF IInv, Pointers
  <2>3. Live \subseteq allocated
    BY DEF Live
  <2>4. QED
    BY <2>1, <2>2, <2>3 DEF WellFormed, IInv, Pointers
<1>2. QED
  BY <1>1, Inductive, PTL

\* The card table is complete: what the next evacuation has to find is on a dirty
\* card.
THEOREM CardTableHolds == Spec => []CardTable
<1>1. IInv => CardTable
  <2> SUFFICES ASSUME IInv, pc \in {"mutator", "yield"}, NEW a \in AllObjs, InOldGen(a),
                      \/ InYoungGen(field[a])
                      \/ /\ ~ogMarkingBarriers
                         /\ InCompactee(field[a]) /\ ~InCompactee(a)
               PROVE  CardOf(a) \in dirty
    BY DEF CardTable
  <2>1. AtRest /\ a \in Live
    BY AllObjsLive DEF AtRest
  <2>2. ~doCompaction /\ Copies = {}
    BY <2>1, NoCopies DEF IInv, Control
  <2>3. CASE InYoungGen(field[a])
    BY <2>1, <2>3 DEF IInv, YoungCards
  <2>4. CASE ~ogMarkingBarriers /\ InCompactee(field[a]) /\ ~InCompactee(a)
    BY <2>1, <2>2, <2>4 DEF IInv, CompacteeDirty
  <2>5. QED
    BY <2>3, <2>4
<1>2. QED
  BY <1>1, Inductive, PTL

\* The cell whose field is being updated is not freed under the acceptor, though the
\* allocation of a copy may complete the collection and sweep before the field is
\* written.
THEOREM VisitedKeptHolds == Spec => []VisitedKept
<1>1. IInv /\ Waiting => VisitedKept
  BY CurrentCellIs DEF VisitedKept
<1>2. QED
  BY <1>1, Inductive, PTL

\* Only marked cells are moved out of the compactee.
THEOREM EvacuatesMarkedHolds == Spec => []EvacuatesMarked
<1>1. IInv /\ Waiting => EvacuatesMarked
  <2> SUFFICES ASSUME IInv, Waiting, AtPointer, ShouldForward(Current), InCompactee(Current)
               PROVE  Current \in marked
    BY DEF EvacuatesMarked
  <2>1. Current \in Live
    BY CurrentLive
  <2>2. ~InYoungGen(Current)
    BY DEF InYoungGen, InCompactee, IInv, Layout
  <2>3. doCompaction
    BY <2>2 DEF ShouldForward
  <2>4. ~ogMarkingBarriers
    BY <2>3 DEF IInv, Control
  <2>5. QED
    BY <2>1, <2>2, <2>4 DEF Live
<1>2. QED
  BY <1>1, Inductive, PTL

==============================================================================
