--------------------------- MODULE MCShipChannels ---------------------------
(***************************************************************************)
(* Three ships, a channel for each, one tube per ship and one mine.        *)
(***************************************************************************)
EXTENDS ShipChannels, TLC

CONSTANTS s1, s2, s3, t1, m1

MCShips    == {s1, s2, s3}
MCChannels == 1..3
MCTubes    == {t1}
MCMines    == {m1}

\* Bound: the references alive at once, in saved columns, mines, tubes and
\* lastfired fields, are at most MaxReferences.
MaxReferences == 2
References ==
    Cardinality({s \in Ships : row[s] # NoChannel})
    + Cardinality({s \in Ships : via[s] # "none"})
    + Cardinality({m \in Mines : mine[m] # FreeSlot})
    + Cardinality({x \in Ships \X Tubes : tubes[x[1]][x[2]] # FreeSlot})
FewReferences == References <= MaxReferences

Symmetry   == Permutations(MCShips)
=============================================================================
