---------------------------- MODULE MCShipStore ----------------------------
(* Two hulls and two sweeps that may overlap and cross. Both hulls come into  *)
(* the world, are saved or fail to be, and are lost with the process; that    *)
(* one of them changes and leaves besides is enough: the other keeps the      *)
(* sweeps busy.                                                               *)
EXTENDS ShipStore

CONSTANTS hA, hB, w1, w2

\* Bound: the captain of hB does nothing and stays.
HullIsIdle ==
    /\ latest[hB] = 0
    /\ \A i \in DOMAIN issued[hB] : issued[hB][i].by # "unload"
=============================================================================
