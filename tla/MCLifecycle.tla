---------------------------- MODULE MCLifecycle ----------------------------
(***************************************************************************)
(* One captain with two hulls and two sockets.                             *)
(***************************************************************************)
EXTENDS Lifecycle, TLC

CONSTANTS u1, c1, c2, hA, hB

MCUsers   == {u1}
MCSockets == {c1, c2}
MCShips   == {hA, hB}
MCAccount == [s \in MCSockets |-> u1]
MCCaptain == [h \in MCShips |-> u1]

Symmetry  == Permutations(MCSockets) \cup Permutations(MCShips)

\* Bound: handlers and writes in flight at once.
MaxInFlight == 2
FewInFlight ==
    Cardinality(lookups) + Cardinality(boardings) + Cardinality(departures)
    + Cardinality(writes) <= MaxInFlight
=============================================================================
