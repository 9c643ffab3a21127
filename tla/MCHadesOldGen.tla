---------------------------- MODULE MCHadesOldGen ----------------------------
(* Small instances of HadesOldGen and, beside it, of IdentifierTable: what a  *)
(* collection frees besides cells.  They share nothing, so a behaviour is one *)
(* of one of them.                                                            *)
EXTENDS HadesOldGen, IdentifierTable

CONSTANTS
    Parts,                                  \* of the two, which ones
    s1, s2

\* Strings that collide until the table has grown.
CollidingStrings == [s \in Strings |-> IF s = s1 THEN 0 ELSE 4]

VARIABLE part                               \* it never changes

PartInit == part \in Parts /\ Init /\ SymbolInit
CellsNext ==
    /\ part = "cells" /\ Next
    /\ UNCHANGED <<symbolVars, part>>
SymbolsNext ==
    /\ part = "symbols" /\ SymbolNext
    /\ UNCHANGED <<vars, part>>

PartSpec == PartInit /\ [][CellsNext \/ SymbolsNext]_<<vars, symbolVars, part>>
==============================================================================
