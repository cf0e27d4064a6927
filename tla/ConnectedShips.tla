--------------------------- MODULE ConnectedShips ---------------------------
(***************************************************************************)
(* The registry of connected ships: which socket flies which hull, kept as *)
(* two maps that ConnectedShipsRegistry updates together.  A registry is a *)
(* value here and its methods are functions on it, so that the modules of  *)
(* the gateway can hold one in a variable.                                 *)
(***************************************************************************)

CONSTANTS Ships, Sockets, NoShip, NoSocket

ASSUME AbsentAssumption == NoShip \notin Ships /\ NoSocket \notin Sockets

Registry == [byShipId : [Ships -> Sockets \cup {NoSocket}],
             bySocketId : [Sockets -> Ships \cup {NoShip}]]

EmptyRegistry == [byShipId |-> [h \in Ships |-> NoSocket],
                  bySocketId |-> [s \in Sockets |-> NoShip]]

\* Mutant of Prior: upsert returns nobody.
PriorForgotten(r, h, s) == NoSocket

\* What upsert returns: the socket that is displaced, if another one flew h.
Prior(r, h, s) == IF r.byShipId[h] = s THEN NoSocket ELSE r.byShipId[h]

\* Mutant of Upserted: the hull the socket flew before stays registered (issue #49).
UpsertedKeepsOldHull(r, h, s) ==
    IF r.byShipId[h] = s THEN r
    ELSE [byShipId |-> [r.byShipId EXCEPT ![h] = s],
          bySocketId |-> [x \in Sockets |->
              IF x = s THEN h
              ELSE IF x = r.byShipId[h] THEN NoShip ELSE r.bySocketId[x]]]

\* upsert: s flies h.  Whoever flew h is dropped, and so is the hull s flew.
Upserted(r, h, s) ==
    IF r.byShipId[h] = s THEN r
    ELSE [byShipId |-> [g \in Ships |->
              IF g = h THEN s
              ELSE IF g = r.bySocketId[s] THEN NoSocket ELSE r.byShipId[g]],
          bySocketId |-> [x \in Sockets |->
              IF x = s THEN h
              ELSE IF x = r.byShipId[h] THEN NoShip ELSE r.bySocketId[x]]]

\* remove, of every socket of D.
Removed(r, D) ==
    [byShipId |-> [h \in Ships |->
        IF \E s \in D : r.bySocketId[s] = h THEN NoSocket ELSE r.byShipId[h]],
     bySocketId |-> [s \in Sockets |-> IF s \in D THEN NoShip ELSE r.bySocketId[s]]]

\* The two maps are each other's inverse.
Bijective(r) ==
    \A h \in Ships, s \in Sockets : r.byShipId[h] = s <=> r.bySocketId[s] = h
=============================================================================
