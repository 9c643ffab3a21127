------------------------------ MODULE OrderedMap ------------------------------
(* What a Map with iterators promises: entries in the order in which their   *)
(* keys were added, and iterators each of which visits what is behind the    *)
(* entry it visited last, whatever has been added and deleted meanwhile.     *)
(* A Set is a map with one value.                                            *)
EXTENDS Naturals, Sequences, SequencesExt

CONSTANTS Keys, Values, Iterators,
    Free, Done  \* an iterator that is not in use, and one that has ended

VARIABLES
    entries,    \* the pairs of a key and a value
    pos         \* the number of entries behind each iterator in use

vars == <<entries, pos>>

InUse(i) == pos[i] \notin {Free, Done}
At(k) == {j \in DOMAIN entries : entries[j][1] = k}

Set(k, v) ==
    /\ entries' = IF At(k) = {} THEN Append(entries, <<k, v>>)
                  ELSE [j \in DOMAIN entries |->
                          IF j \in At(k) THEN <<k, v>> ELSE entries[j]]
    /\ UNCHANGED pos

\* Iterators behind the entry stay where they are among the others.
Delete(k) ==
    \E j \in At(k) :
        /\ entries' = RemoveAt(entries, j)
        /\ pos' = [i \in Iterators |->
                     IF InUse(i) /\ pos[i] >= j THEN pos[i] - 1 ELSE pos[i]]

Clear ==
    /\ entries' = <<>>
    /\ pos' = [i \in Iterators |-> IF InUse(i) THEN 0 ELSE pos[i]]

New(i) ==
    /\ ~InUse(i) /\ pos' = [pos EXCEPT ![i] = 0]
    /\ UNCHANGED entries

\* The entry visited is entries[pos'[i]].
Visit(i) ==
    /\ InUse(i) /\ pos[i] < Len(entries)
    /\ pos' = [pos EXCEPT ![i] = @ + 1]
    /\ UNCHANGED entries

\* An iteration is over when nothing is left to visit; it may be given up before.
End(i) ==
    /\ pos[i] = Len(entries) /\ pos' = [pos EXCEPT ![i] = Done]
    /\ UNCHANGED entries
GiveUp(i) ==
    /\ InUse(i) /\ pos' = [pos EXCEPT ![i] = Free]
    /\ UNCHANGED entries

Init == entries = <<>> /\ pos = [i \in Iterators |-> Free]

Next ==
    \/ \E k \in Keys, v \in Values : Set(k, v)
    \/ \E k \in Keys : Delete(k)
    \/ Clear
    \/ \E i \in Iterators : New(i) \/ Visit(i) \/ End(i) \/ GiveUp(i)

Spec == Init /\ [][Next]_vars
==============================================================================
