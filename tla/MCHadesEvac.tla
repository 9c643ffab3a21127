---------------------------- MODULE MCHadesEvac ----------------------------
(* Heaps of one and of two OG segments of two cells, for model checking      *)
(* HadesEvac: full ones, one with a hole, one with dead cells that point     *)
(* into the segment a compaction takes, one with a cell in the YG, and one   *)
(* that is full and being marked.                                            *)
EXTENDS HadesEvac, TLC

MCHeap(segs, cells, f, r) ==
    [youngGen |-> 3, segments |-> segs, allocated |-> cells,
     field |-> [a \in Addr |-> IF a \in DOMAIN f THEN f[a] ELSE Null],
     roots |-> r, phase |-> "None", worklist |-> {}]

MCOld == {1, 2} \X (1 .. 2)

\* The program has loaded <<1, 2>> from <<1, 1>>, dropped that, and allocated
\* <<3, 1>>; the marker has not come to <<1, 1>> yet, and half of the OG is dead.
MCMarkedHeap ==
    [MCHeap(<<1, 2>>, MCOld \cup {<<3, 1>>}, <<1, 1>> :> <<1, 2>>,
            <<<<1, 2>>, <<3, 1>>>>)
        EXCEPT !.phase = "Mark", !.worklist = {<<1, 1>>}]

MCHeaps ==
    { MCHeap(<<1, 2>>, MCOld,
             <<1, 1>> :> <<2, 1>> @@ <<1, 2>> :> <<2, 2>>,
             <<<<1, 1>>, <<1, 2>>>>),
      MCHeap(<<1, 2>>, MCOld \ {<<1, 2>>},
             <<1, 1>> :> <<2, 1>> @@ <<2, 1>> :> <<2, 2>>,
             <<<<1, 1>>, Null>>),
      MCHeap(<<1, 2>>, MCOld,
             <<1, 1>> :> <<1, 2>> @@ <<2, 1>> :> <<1, 1>> @@ <<2, 2>> :> <<2, 1>>,
             <<<<2, 1>>, Null>>),
      MCHeap(<<1>>, {<<1, 1>>, <<1, 2>>, <<3, 1>>},
             <<1, 1>> :> <<1, 2>> @@ <<3, 1>> :> <<1, 1>>,
             <<<<1, 1>>, <<3, 1>>>>),
      MCMarkedHeap }
=============================================================================
