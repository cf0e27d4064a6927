--------------------------- MODULE Lifecycle_proofs ---------------------------
(***************************************************************************)
(* For any numbers of captains, sockets and hulls: the registry of         *)
(* connected ships stays consistent with itself and with what each socket  *)
(* thinks it is flying, through every interleaving of the handlers.        *)
(***************************************************************************)
EXTENDS Lifecycle, TLAPS

-----------------------------------------------------------------------------
(* The registry as a value.                                                *)

\* The registry r agrees with the sockets' own data a, of which o are open.
Sound(r, a, o) ==
    /\ Bijective(r)
    /\ \A s \in Sockets : r.bySocketId[s] # NoShip => a[s] = r.bySocketId[s]
    /\ \A s \in o : a[s] # NoShip => r.byShipId[a[s]] = s

\* upsert returns a registry (ConnectedShipsRegistry.upsert).
LEMMA UpsertedType ==
    ASSUME NEW r \in Registry, NEW h \in Ships, NEW s \in Sockets
    PROVE  Upserted(r, h, s) \in Registry
  BY DEF Upserted, Registry

\* remove returns a registry (ConnectedShipsRegistry.remove).
LEMMA RemovedType ==
    ASSUME NEW r \in Registry, NEW D
    PROVE  Removed(r, D) \in Registry
  BY DEF Removed, Registry

\* Sockets may be removed as long as those still open hold no hull.
LEMMA RemovedSound ==
    ASSUME NEW r \in Registry, NEW a \in [Sockets -> Ships \cup {NoShip}],
           NEW b \in [Sockets -> Ships \cup {NoShip}],
           NEW o \in SUBSET Sockets, NEW p \in SUBSET o, NEW D \in SUBSET Sockets,
           Sound(r, a, o),
           \A s \in Sockets \ D : b[s] = a[s],
           \A s \in D \cap p : b[s] = NoShip
    PROVE  Sound(Removed(r, D), b, p)
  <1> USE AbsentAssumption
  <1> DEFINE q == Removed(r, D)
  <1>1. /\ \A h \in Ships : q.byShipId[h] =
               IF \E s \in D : r.bySocketId[s] = h THEN NoSocket ELSE r.byShipId[h]
        /\ \A s \in Sockets : q.bySocketId[s] = IF s \in D THEN NoShip ELSE r.bySocketId[s]
    BY DEF Removed
  <1>2. \A h \in Ships, s \in Sockets : r.byShipId[h] = s <=> r.bySocketId[s] = h
    BY DEF Sound, Bijective
  <1>3. Bijective(q)
    <2> SUFFICES ASSUME NEW h \in Ships, NEW s \in Sockets
                 PROVE  q.byShipId[h] = s <=> q.bySocketId[s] = h
      BY DEF Bijective
    <2> QED BY <1>1, <1>2
  <1>4. \A s \in Sockets : q.bySocketId[s] # NoShip => b[s] = q.bySocketId[s]
    BY <1>1 DEF Sound
  <1>5. \A s \in p : b[s] # NoShip => q.byShipId[b[s]] = s
    <2> SUFFICES ASSUME NEW s \in p, b[s] # NoShip
                 PROVE  q.byShipId[b[s]] = s
      OBVIOUS
    <2>1. s \in Sockets \ D /\ b[s] = a[s] /\ a[s] \in Ships
      OBVIOUS
    <2>2. r.byShipId[a[s]] = s
      BY <2>1 DEF Sound
    <2>3. \A x \in D : r.bySocketId[x] # a[s]
      BY <2>1, <2>2, <1>2
    <2> QED BY <2>1, <2>2, <2>3, <1>1
  <1> QED BY <1>3, <1>4, <1>5 DEF Sound

\* A socket may take a hull as long as the socket displaced does not stay open.
LEMMA UpsertedSound ==
    ASSUME NEW r \in Registry, NEW a \in [Sockets -> Ships \cup {NoShip}],
           NEW o \in SUBSET Sockets, NEW h \in Ships, NEW s \in Sockets,
           Sound(r, a, o)
    PROVE  Sound(Upserted(r, h, s), [a EXCEPT ![s] = h], o \ {Prior(r, h, s)})
  <1> USE AbsentAssumption
  <1> DEFINE q == Upserted(r, h, s)
             b == [a EXCEPT ![s] = h]
  <1>1. \A g \in Ships, x \in Sockets : r.byShipId[g] = x <=> r.bySocketId[x] = g
    BY DEF Sound, Bijective
  <1>2. CASE r.byShipId[h] = s
    <2>1. q = r /\ r.bySocketId[s] = h /\ Prior(r, h, s) = NoSocket
      BY <1>1, <1>2 DEF Upserted, Prior
    <2>2. b = a
      <3>1. a[s] = h
        BY <2>1 DEF Sound
      <3> QED BY <3>1
    <2> QED BY <2>1, <2>2 DEF Sound
  <1>3. CASE r.byShipId[h] # s
    <2>1. /\ \A g \in Ships : q.byShipId[g] =
                IF g = h THEN s
                ELSE IF g = r.bySocketId[s] THEN NoSocket ELSE r.byShipId[g]
          /\ \A x \in Sockets : q.bySocketId[x] =
                IF x = s THEN h
                ELSE IF x = r.byShipId[h] THEN NoShip ELSE r.bySocketId[x]
      BY <1>3 DEF Upserted
    <2>2. Prior(r, h, s) = r.byShipId[h]
      BY <1>3 DEF Prior
    <2>3. Bijective(q)
      <3> SUFFICES ASSUME NEW g \in Ships, NEW x \in Sockets
                   PROVE  q.byShipId[g] = x <=> q.bySocketId[x] = g
        BY DEF Bijective
      <3> QED BY <1>1, <2>1
    <2>4. \A x \in Sockets : q.bySocketId[x] # NoShip => b[x] = q.bySocketId[x]
      BY <2>1 DEF Sound
    <2>5. \A x \in o \ {r.byShipId[h]} : b[x] # NoShip => q.byShipId[b[x]] = x
      <3> SUFFICES ASSUME NEW x \in o, x # r.byShipId[h], b[x] # NoShip
                   PROVE  q.byShipId[b[x]] = x
        OBVIOUS
      <3>1. CASE x = s
        BY <3>1, <2>1
      <3>2. CASE x # s
        <4>1. b[x] = a[x] /\ a[x] \in Ships
          BY <3>2
        <4>2. r.byShipId[a[x]] = x
          BY <4>1 DEF Sound
        <4>3. a[x] # h /\ a[x] # r.bySocketId[s]
          BY <4>1, <4>2, <3>2, <1>1
        <4> QED BY <4>1, <4>2, <4>3, <2>1
      <3> QED BY <3>1, <3>2
    <2> QED BY <2>2, <2>3, <2>4, <2>5 DEF Sound
  <1> QED BY <1>2, <1>3
-----------------------------------------------------------------------------
(* The inductive invariant and the steps that change the registry.         *)

\* Only an exit is run for a socket that may still be open, and it begins with the
\* unboarding.
GoneAreClosed ==
    \A d \in departures :
        /\ d.why # "exit" => conn[d.sock] = "closed"
        /\ d.why = "exit" => d.at \in {"persist", "unload"}

\* A socket that is not connected has no hull and no handler.
AbsentIsBlank ==
    \A s \in Sockets : conn[s] = "absent" =>
        /\ active[s] = NoShip
        /\ \A t \in lookups \cup boardings \cup departures : t.sock # s

IInv ==
    /\ TypeOK
    /\ Sound(reg, active, Open)
    /\ AbsentIsBlank
    /\ GoneAreClosed
    /\ DormantIsLeaving

\* Closing the sockets D, once the rest of the step left a registry sound without
\* them, is type correct and leaves the registry sound.
LEMMA DisconnectingSound ==
    ASSUME TypeOK, NEW D \in SUBSET Open, NEW r \in Registry,
           NEW why \in {"killed", "clean"},
           active' \in [Sockets -> Ships \cup {NoShip}],
           Sound(r, active', Open \ D),
           Disconnecting(D, r, why)
    PROVE  /\ conn' \in [Sockets -> {"absent", "open", "closed"}]
           /\ departures' \in SUBSET Departure
           /\ reg' \in Registry
           /\ Sound(reg', active', Open')
  <1> DEFINE F == {s \in D : active'[s] # NoShip /\ world'[active'[s]] # "out"}
  <1>1. D \in SUBSET Sockets /\ F \in SUBSET Sockets
    BY DEF Open
  <1>2. /\ conn' = [s \in Sockets |-> IF s \in D THEN "closed" ELSE conn[s]]
        /\ departures' = departures \cup
              {[sock |-> s, ship |-> active'[s], why |-> why, at |-> "telemetry"] : s \in F}
        /\ reg' = Removed(r, D \ F)
    BY DEF Disconnecting
  <1>3. conn' \in [Sockets -> {"absent", "open", "closed"}]
    BY <1>2 DEF TypeOK
  <1>4. departures' \in SUBSET Departure
    <2>1. \A s \in F : s \in Sockets /\ active'[s] \in Ships
      BY <1>1
    <2>2. \A s \in F : [sock |-> s, ship |-> active'[s], why |-> why, at |-> "telemetry"]
                        \in Departure
      BY <2>1 DEF Departure
    <2> QED BY <1>2, <2>2 DEF TypeOK
  <1>5. reg' \in Registry
    BY <1>2, RemovedType
  <1>6. Open' = Open \ D
    BY <1>1, <1>2 DEF Open
  <1>7. Sound(Removed(r, D \ F), active', Open \ D)
    <2> DEFINE o == Open \ D
               E == D \ F
               b == active'
    <2>1. /\ o \in SUBSET Sockets /\ E \in SUBSET Sockets
          /\ b \in [Sockets -> Ships \cup {NoShip}]
          /\ E \cap o = {} /\ Sound(r, b, o)
      BY <1>1 DEF Open
    <2> HIDE DEF o, E, b
    <2>2. Sound(Removed(r, E), b, o)
      BY <2>1, RemovedSound
    <2> QED BY <2>2 DEF o, E, b
  <1> QED BY <1>2, <1>3, <1>4, <1>5, <1>6, <1>7

\* Taking a hull is type correct and leaves the registry sound.
LEMMA SeatSound ==
    ASSUME IInv, NEW s \in Sockets, NEW h \in Ships, Seat(s, h)
    PROVE  /\ conn' \in [Sockets -> {"absent", "open", "closed"}]
           /\ active' \in [Sockets -> Ships \cup {NoShip}]
           /\ departures' \in SUBSET Departure
           /\ reg' \in Registry
           /\ Sound(reg', active', Open')
  <1> DEFINE prior == Prior(reg, h, s)
             D == {prior} \cap Open
             r == Upserted(reg, h, s)
  <1>1. /\ active' = [active EXCEPT ![s] = h]
        /\ Disconnecting(D, r, "clean")
    BY DEF Seat
  <1>2. /\ reg \in Registry /\ active \in [Sockets -> Ships \cup {NoShip}]
        /\ Open \in SUBSET Sockets /\ Sound(reg, active, Open)
    BY DEF IInv, TypeOK, Open
  <1>3. active' \in [Sockets -> Ships \cup {NoShip}]
    BY <1>1, <1>2
  <1>4. r \in Registry
    BY <1>2, UpsertedType
  <1>5. Sound(r, active', Open \ {prior})
    BY <1>1, <1>2, UpsertedSound
  <1>6. Open \ {prior} = Open \ D
    OBVIOUS
  <1>7. D \in SUBSET Open
    OBVIOUS
  <1> HIDE DEF D, r
  <1>8. /\ conn' \in [Sockets -> {"absent", "open", "closed"}]
        /\ departures' \in SUBSET Departure
        /\ reg' \in Registry
        /\ Sound(reg', active', Open')
    BY <1>1, <1>3, <1>4, <1>5, <1>6, <1>7, DisconnectingSound DEF IInv
  <1> QED BY <1>3, <1>8

\* Removing registrations, of sockets that are detached or no longer open, leaves
\* the registry sound.
LEMMA RemovalSound ==
    ASSUME IInv, NEW D \in SUBSET Sockets,
           reg' = Removed(reg, D),
           active' \in [Sockets -> Ships \cup {NoShip}],
           \A s \in Sockets \ D : active'[s] = active[s],
           Open' \in SUBSET Open,
           \A s \in D \cap Open' : active'[s] = NoShip
    PROVE  reg' \in Registry /\ Sound(reg', active', Open')
  <1> DEFINE b == active'
             p == Open'
  <1>1. /\ reg \in Registry /\ active \in [Sockets -> Ships \cup {NoShip}]
        /\ Open \in SUBSET Sockets /\ Sound(reg, active, Open)
    BY DEF IInv, TypeOK, Open
  <1>2. reg' \in Registry
    BY <1>1, RemovedType
  <1>3. /\ b \in [Sockets -> Ships \cup {NoShip}] /\ p \in SUBSET Open
        /\ \A s \in Sockets \ D : b[s] = active[s]
        /\ \A s \in D \cap p : b[s] = NoShip
    OBVIOUS
  <1> HIDE DEF b, p
  <1>4. Sound(Removed(reg, D), b, p)
    BY <1>1, <1>3, RemovedSound
  <1> QED BY <1>2, <1>4 DEF b, p

-----------------------------------------------------------------------------
(* Every action keeps it.                                                  *)

\* The hypotheses of the lemmas below, spelled out once.
LEMMA Facts ==
    ASSUME IInv
    PROVE  /\ TypeOK /\ Sound(reg, active, Open)
           /\ AbsentIsBlank /\ GoneAreClosed /\ DormantIsLeaving
           /\ \A l \in lookups : l \in Lookup /\ l.sock \in Sockets /\ conn[l.sock] # "absent"
           /\ \A b \in boardings : /\ b \in Boarding /\ b.sock \in Sockets
                                    /\ b.ship \in Ships /\ conn[b.sock] # "absent"
           /\ \A d \in departures : /\ d \in Departure /\ d.sock \in Sockets
                                     /\ d.ship \in Ships /\ conn[d.sock] # "absent"
           /\ \A w \in writes : w \in Write /\ w.ship \in Ships
  BY DEF IInv, TypeOK, AbsentIsBlank, Lookup, Boarding, Departure, Write

\* Connecting begins with a blank socket.
LEMMA ConnectKeeps ==
    ASSUME IInv, NEW s \in Sockets, Connect(s), recovering' \in SUBSET Users
    PROVE  IInv'
  <1> USE Facts
  <1>1. PICK c \in {"open", "closed"} : conn' = [conn EXCEPT ![s] = c]
    BY DEF Connect
  <1>2. /\ lookups' = lookups \cup {Query(s, "connect")}
        /\ conn[s] = "absent"
        /\ UNCHANGED <<active, menu, reg, world, rows, died, boardings, departures, writes>>
    BY DEF Connect, hulls
  <1>3. Query(s, "connect") \in Lookup /\ Query(s, "connect").sock = s
    BY DEF Query, Lookup
  <1>4. TypeOK'
    BY <1>1, <1>2, <1>3 DEF TypeOK
  <1>5. Sound(reg, active, Open)'
    <2>1. active[s] = NoShip
      BY <1>2 DEF AbsentIsBlank
    <2>2. Open' \subseteq Open \cup {s}
      BY <1>1 DEF Open, TypeOK
    <2> QED BY <1>2, <2>1, <2>2 DEF Sound
  <1>6. AbsentIsBlank' /\ GoneAreClosed'
    BY <1>1, <1>2, <1>3 DEF AbsentIsBlank, GoneAreClosed, TypeOK
  <1>7. DormantIsLeaving'
    BY <1>2 DEF DormantIsLeaving
  <1> QED BY <1>4, <1>5, <1>6, <1>7 DEF IInv

\* A socket is blank again before its identity is used again.
LEMMA RecycleKeeps ==
    ASSUME IInv, NEW s \in Sockets, Recycle(s), recovering' \in SUBSET Users
    PROVE  IInv'
  <1> USE Facts
  <1>1. /\ conn[s] = "closed" /\ reg.bySocketId[s] = NoShip
        /\ \A t \in lookups \cup boardings \cup departures : t.sock # s
        /\ conn' = [conn EXCEPT ![s] = "absent"]
        /\ active' = [active EXCEPT ![s] = NoShip]
        /\ menu' = [menu EXCEPT ![s] = {}]
        /\ UNCHANGED <<reg, world, rows, died, lookups, boardings, departures, writes>>
    BY DEF Recycle, hulls
  <1>2. TypeOK'
    BY <1>1 DEF TypeOK
  <1>3. Sound(reg, active, Open)'
    <2>1. Open' = Open /\ s \notin Open
      BY <1>1 DEF Open, TypeOK
    <2>2. \A x \in Sockets \ {s} : active'[x] = active[x]
      BY <1>1 DEF TypeOK
    <2>3. Open \subseteq Sockets
      BY DEF Open
    <2> QED BY <1>1, <2>1, <2>2, <2>3 DEF Sound
  <1>4. AbsentIsBlank' /\ GoneAreClosed' /\ DormantIsLeaving'
    BY <1>1 DEF AbsentIsBlank, GoneAreClosed, DormantIsLeaving, TypeOK
  <1> QED BY <1>2, <1>3, <1>4 DEF IInv

\* Steps of one handler that leave the sockets, the registry and the departures alone, and make no
\* hull dormant.
LEMMA QuietStep ==
    ASSUME IInv, TypeOK',
           UNCHANGED <<conn, active, reg, departures>>,
           \A h \in Ships : world'[h] = "avail" => world[h] = "avail",
           \A t \in lookups' \cup boardings' : conn[t.sock] # "absent"
    PROVE  IInv'
  <1> USE Facts
  <1>1. Sound(reg, active, Open)' /\ GoneAreClosed' /\ DormantIsLeaving'
    BY DEF Open, GoneAreClosed, DormantIsLeaving
  <1>2. AbsentIsBlank'
    BY DEF AbsentIsBlank
  <1> QED BY <1>1, <1>2 DEF IInv

\* A choice from the menu starts a boarding for an open socket.
LEMMA ReplyKeeps ==
    ASSUME IInv, NEW s \in Sockets, NEW h \in Ships, Reply(s, h),
           recovering' \in SUBSET Users
    PROVE  IInv'
  <1> USE Facts
  <1> DEFINE b == [sock |-> s, ship |-> h, by |-> "reply", at |-> "hull"]
  <1>1. /\ conn[s] = "open" /\ boardings' = boardings \cup {b}
        /\ UNCHANGED <<conn, active, menu, reg, world, rows, died, lookups, departures, writes>>
    BY DEF Reply, hulls
  <1>2. b \in Boarding /\ b.sock = s
    BY DEF Boarding
  <1>3. TypeOK'
    BY <1>1, <1>2 DEF TypeOK
  <1>4. \A t \in lookups' \cup boardings' : conn[t.sock] # "absent"
    BY <1>1, <1>2
  <1> QED BY <1>1, <1>3, <1>4, QuietStep

\* The answer to the fleet query starts a boarding or offers the menu.
LEMMA QueriedKeeps ==
    ASSUME IInv, NEW l \in lookups, Queried(l), recovering' \in SUBSET Users
    PROVE  IInv'
  <1> USE Facts
  <1> DEFINE B == {[sock |-> l.sock, ship |-> h, by |-> l.why, at |-> "row"] :
                      h \in IF Cardinality(Fleet(Account[l.sock])) = 1 /\ l.why # "exit"
                            THEN Fleet(Account[l.sock]) ELSE {}}
  <1>1. /\ lookups' = lookups \ {l} /\ boardings' = boardings \cup B
        /\ UNCHANGED <<conn, active, reg, world, rows, died, departures, writes>>
    BY DEF Queried, hulls
  <1>2. \A b \in B : b \in Boarding /\ b.sock = l.sock
    <2> SUFFICES ASSUME NEW h \in Ships, l.why # "exit"
                 PROVE  LET b == [sock |-> l.sock, ship |-> h, by |-> l.why, at |-> "row"]
                        IN  b \in Boarding /\ b.sock = l.sock
      BY DEF Fleet
    <2>1. l.why \in {"connect", "abandon", "recover"} /\ l.sock \in Sockets
      BY DEF Lookup
    <2> QED BY <2>1 DEF Boarding
  <1>3. menu' \in [Sockets -> SUBSET Ships]
    BY DEF Queried, Fleet, TypeOK
  <1> HIDE DEF B
  <1>4. TypeOK'
    BY <1>1, <1>2, <1>3 DEF TypeOK
  <1>5. \A t \in lookups' \cup boardings' : conn[t.sock] # "absent"
    BY <1>1, <1>2
  <1> QED BY <1>1, <1>4, <1>5, QuietStep

\* The boarding steps before a hull is taken.
LEMMA BoardingKeeps ==
    ASSUME IInv, NEW b \in boardings, HullRead(b) \/ Refused(b) \/ Hydrating(b),
           recovering' \in SUBSET Users
    PROVE  IInv'
  <1> USE Facts
  <1>1. /\ UNCHANGED <<conn, active, reg, world, rows, died, lookups, departures, writes>>
        /\ menu' \in {menu, MenuAfter(b)}
        /\ boardings' \subseteq boardings \cup {[b EXCEPT !.at = "row"], [b EXCEPT !.at = "hydrate"]}
    BY DEF HullRead, Refused, Hydrating, hulls
  <1>2. /\ [b EXCEPT !.at = "row"] \in Boarding /\ [b EXCEPT !.at = "row"].sock = b.sock
        /\ [b EXCEPT !.at = "hydrate"] \in Boarding /\ [b EXCEPT !.at = "hydrate"].sock = b.sock
    BY DEF Boarding
  <1>3. menu' \in [Sockets -> SUBSET Ships]
    BY <1>1 DEF MenuAfter, TypeOK
  <1>4. TypeOK'
    BY <1>1, <1>2, <1>3 DEF TypeOK
  <1>5. \A t \in lookups' \cup boardings' : conn[t.sock] # "absent"
    BY <1>1, <1>2
  <1> QED BY <1>1, <1>4, <1>5, QuietStep

\* A write that lands changes rows only.
LEMMA LandedKeeps ==
    ASSUME IInv, NEW w \in writes, Landed(w), recovering' \in SUBSET Users
    PROVE  IInv'
  <1> USE Facts
  <1>1. /\ writes' = writes \ {w}
        /\ UNCHANGED <<conn, active, menu, reg, world, died, lookups, boardings, departures>>
        /\ rows' \in [Ships -> {"flyable", "abandoned", "gone"}]
    BY DEF Landed, TypeOK
  <1>2. TypeOK'
    BY <1>1 DEF TypeOK
  <1> QED BY <1>1, <1>2, QuietStep

\* Taking a hull, warm or hydrated.
LEMMA SeatKeeps ==
    ASSUME IInv, NEW b \in boardings, BoardWarm(b) \/ Boarded(b),
           recovering' \in SUBSET Users
    PROVE  IInv'
  <1> USE Facts
  <1>1. /\ Seat(b.sock, b.ship) /\ boardings' = boardings \ {b} /\ menu' = MenuAfter(b)
        /\ world' \in {world, [world EXCEPT ![b.ship] = "user"]}
        /\ writes' \subseteq writes \cup {[ship |-> b.ship, does |-> "board"]}
        /\ UNCHANGED <<rows, died, lookups>>
    BY DEF BoardWarm, Boarded, hulls
  <1>2. /\ conn' \in [Sockets -> {"absent", "open", "closed"}]
        /\ active' \in [Sockets -> Ships \cup {NoShip}]
        /\ departures' \in SUBSET Departure
        /\ reg' \in Registry
        /\ Sound(reg', active', Open')
    BY <1>1, SeatSound
  <1>3. TypeOK'
    <2>1. [ship |-> b.ship, does |-> "board"] \in Write
      BY DEF Write
    <2>2. menu' \in [Sockets -> SUBSET Ships]
      BY <1>1 DEF MenuAfter, TypeOK
    <2> QED BY <1>1, <1>2, <2>1, <2>2 DEF TypeOK
  <1> DEFINE D == {Prior(reg, b.ship, b.sock)} \cap Open
             F == {s \in D : active'[s] # NoShip /\ world'[active'[s]] # "out"}
             N == {[sock |-> s, ship |-> active'[s], why |-> "clean", at |-> "telemetry"] : s \in F}
  <1>4. /\ conn' = [s \in Sockets |-> IF s \in D THEN "closed" ELSE conn[s]]
        /\ departures' = departures \cup N
        /\ active' = [active EXCEPT ![b.sock] = b.ship]
    BY <1>1 DEF Seat, Disconnecting
  <1>5. /\ \A d \in N : d.sock \in D /\ d.why = "clean"
        /\ D \subseteq Sockets
    BY DEF Open
  <1> HIDE DEF N, D
  <1>6. AbsentIsBlank'
    BY <1>1, <1>4, <1>5 DEF AbsentIsBlank, TypeOK
  <1>7. GoneAreClosed'
    BY <1>4, <1>5 DEF GoneAreClosed, TypeOK
  <1>8. DormantIsLeaving'
    BY <1>1, <1>4 DEF DormantIsLeaving, TypeOK
  <1> QED BY <1>2, <1>3, <1>6, <1>7, <1>8 DEF IInv

\* The unboarding up to its first await, on an exit or after the telemetry write.
LEMMA UnboardingKeeps ==
    ASSUME IInv, NEW d \in Departure, Unboarding(d),
           d \in departures => d.at = "telemetry",
           d.why # "exit" => conn[d.sock] = "closed",
           conn[d.sock] # "absent",
           UNCHANGED <<conn, active, menu, reg, rows, died, lookups, boardings, writes>>,
           recovering' \in SUBSET Users
    PROVE  IInv'
  <1> USE Facts
  <1> DEFINE at == IF world[d.ship] = "abandoned" THEN "unload" ELSE "persist"
             e == [d EXCEPT !.at = at]
  <1>1. /\ world' = IF world[d.ship] \in {"out", "abandoned"} THEN world
                     ELSE [world EXCEPT ![d.ship] = "avail"]
        /\ departures' = (departures \ {d}) \cup {e}
    BY DEF Unboarding
  <1>2. /\ e \in Departure /\ e.sock = d.sock /\ e.ship = d.ship /\ e.why = d.why
        /\ e.at = at /\ d.sock \in Sockets /\ d.ship \in Ships
    BY DEF Departure
  <1> HIDE DEF e
  <1>3. TypeOK'
    BY <1>1, <1>2 DEF TypeOK
  <1>4. Sound(reg, active, Open)'
    BY DEF Open
  <1>5. AbsentIsBlank' /\ GoneAreClosed'
    BY <1>1, <1>2 DEF AbsentIsBlank, GoneAreClosed
  <1>6. DormantIsLeaving'
    <2> SUFFICES ASSUME NEW h \in Ships, world'[h] = "avail"
                 PROVE  \E x \in departures' : x.ship = h /\ x.at \in {"persist", "unload"}
      BY DEF DormantIsLeaving
    <2>1. CASE h = d.ship
      BY <2>1, <1>1, <1>2
    <2>2. CASE h # d.ship
      <3>1. world[h] = "avail"
        BY <2>2, <1>1 DEF TypeOK
      <3>2. PICK x \in departures : x.ship = h /\ x.at \in {"persist", "unload"}
        BY <3>1 DEF DormantIsLeaving
      <3> QED BY <3>2, <1>1, <2>2
    <2> QED BY <2>1, <2>2
  <1> QED BY <1>3, <1>4, <1>5, <1>6 DEF IInv

\* The exit command unboards for the socket that gave it.
LEMMA ExitKeeps ==
    ASSUME IInv, NEW s \in Sockets, Exit(s), recovering' \in SUBSET Users
    PROVE  IInv'
  <1> USE Facts
  <1> DEFINE d == [sock |-> s, ship |-> active[s], why |-> "exit", at |-> "persist"]
  <1>1. /\ CanCommand(s) /\ Unboarding(d)
        /\ UNCHANGED <<conn, active, menu, reg, rows, died, lookups, boardings, writes>>
    BY DEF Exit
  <1>2. d \in Departure /\ d.sock = s /\ d.why = "exit"
    BY <1>1 DEF CanCommand, TypeOK, Departure
  <1>3. d \notin departures /\ conn[s] # "absent"
    BY <1>1, <1>2 DEF CanCommand, Busy
  <1> HIDE DEF d
  <1> QED BY <1>1, <1>2, <1>3, UnboardingKeeps

\* Abandonment detaches the socket and leaves the hull to drift.
LEMMA AbandonShipKeeps ==
    ASSUME IInv, NEW s \in Sockets, AbandonShip(s), recovering' \in SUBSET Users
    PROVE  IInv'
  <1> USE Facts
  <1>1. /\ conn[s] = "open" /\ active[s] \in Ships
        /\ world' = [world EXCEPT ![active[s]] = "abandoned"]
        /\ writes' = writes \cup {[ship |-> active[s], does |-> "abandon"]}
        /\ active' = [active EXCEPT ![s] = NoShip]
        /\ reg' = Removed(reg, {s})
        /\ lookups' = lookups \cup {Query(s, "abandon")}
        /\ UNCHANGED <<conn, menu, rows, died, boardings, departures>>
    BY DEF AbandonShip, CanCommand, Detached, TypeOK
  <1>2. /\ Query(s, "abandon") \in Lookup /\ Query(s, "abandon").sock = s
        /\ [ship |-> active[s], does |-> "abandon"] \in Write
    BY <1>1 DEF Query, Lookup, Write
  <1>3. active' \in [Sockets -> Ships \cup {NoShip}]
    BY <1>1 DEF TypeOK
  <1>4. reg' \in Registry /\ Sound(reg', active', Open')
    <2>1. \A x \in Sockets \ {s} : active'[x] = active[x]
      BY <1>1 DEF TypeOK
    <2>2. active'[s] = NoShip /\ Open' = Open
      BY <1>1 DEF TypeOK, Open
    <2>3. {s} \in SUBSET Sockets /\ Open' \in SUBSET Open
      BY <2>2
    <2>4. \A x \in {s} \cap Open' : active'[x] = NoShip
      BY <2>2
    <2> QED BY <1>1, <1>3, <2>1, <2>3, <2>4, RemovalSound
  <1>5. TypeOK'
    BY <1>1, <1>2, <1>3, <1>4 DEF TypeOK
  <1>6. AbsentIsBlank' /\ GoneAreClosed' /\ DormantIsLeaving'
    BY <1>1, <1>2 DEF AbsentIsBlank, GoneAreClosed, DormantIsLeaving, TypeOK
  <1> QED BY <1>4, <1>5, <1>6 DEF IInv

\* A close keeps the registration while the telemetry write is awaited.
LEMMA DisconnectKeeps ==
    ASSUME IInv, NEW s \in Sockets, NEW why \in {"killed", "clean"}, Disconnect(s, why),
           recovering' \in SUBSET Users
    PROVE  IInv'
  <1> USE Facts
  <1>1. /\ conn[s] = "open" /\ Disconnecting({s}, reg, why)
        /\ UNCHANGED <<active, world, rows, died, menu, lookups, boardings, writes>>
    BY DEF Disconnect, hulls
  <1>2. /\ conn' \in [Sockets -> {"absent", "open", "closed"}]
        /\ departures' \in SUBSET Departure
        /\ reg' \in Registry
        /\ Sound(reg', active', Open')
    <2>1. {s} \in SUBSET Open /\ reg \in Registry
      BY <1>1 DEF Open, TypeOK
    <2>2. active' \in [Sockets -> Ships \cup {NoShip}]
      BY <1>1 DEF TypeOK
    <2>3. Sound(reg, active', Open \ {s})
      BY <1>1 DEF Sound
    <2> QED BY <1>1, <2>1, <2>2, <2>3, DisconnectingSound
  <1>3. TypeOK'
    BY <1>1, <1>2 DEF TypeOK
  <1> DEFINE F == {x \in {s} : active'[x] # NoShip /\ world'[active'[x]] # "out"}
             N == {[sock |-> x, ship |-> active'[x], why |-> why, at |-> "telemetry"] : x \in F}
  <1>4. /\ conn' = [x \in Sockets |-> IF x \in {s} THEN "closed" ELSE conn[x]]
        /\ departures' = departures \cup N
    BY <1>1 DEF Disconnecting
  <1>5. \A d \in N : d.sock = s /\ d.why # "exit"
    OBVIOUS
  <1> HIDE DEF N
  <1>6. AbsentIsBlank' /\ GoneAreClosed'
    BY <1>1, <1>4, <1>5 DEF AbsentIsBlank, GoneAreClosed, TypeOK
  <1>7. DormantIsLeaving'
    BY <1>1, <1>4 DEF DormantIsLeaving
  <1> QED BY <1>2, <1>3, <1>6, <1>7 DEF IInv

\* The end of a departure: what Persisted and Unloaded share.
LEMMA DepartedSound ==
    ASSUME IInv, NEW d \in departures, Departed(d), UNCHANGED conn
    PROVE  /\ active' \in [Sockets -> Ships \cup {NoShip}]
           /\ reg' \in Registry
           /\ Sound(reg', active', Open')
           /\ departures' = departures \ {d}
           /\ lookups' \in {lookups, lookups \cup {Query(d.sock, "exit")}}
           /\ \A s \in Sockets : active'[s] \in {active[s], NoShip}
  <1> USE Facts
  <1> DEFINE s == d.sock
  <1>1. /\ departures' = departures \ {d}
        /\ s \in Sockets /\ Open' = Open
        /\ reg' = Removed(reg, {s})
        /\ lookups' \in {lookups, lookups \cup {Query(s, "exit")}}
    BY DEF Departed, Detached, Open
  <1>2. CASE d.why = "exit"
    <2>1. active' = [active EXCEPT ![s] = NoShip]
      BY <1>2 DEF Departed, Detached
    <2>2. /\ active' \in [Sockets -> Ships \cup {NoShip}]
          /\ \A x \in Sockets \ {s} : active'[x] = active[x]
          /\ \A x \in {s} \cap Open' : active'[x] = NoShip
          /\ {s} \in SUBSET Sockets /\ Open' \in SUBSET Open
      BY <1>1, <2>1 DEF TypeOK
    <2>3. reg' \in Registry /\ Sound(reg', active', Open')
      BY <1>1, <2>2, RemovalSound
    <2> QED BY <1>1, <2>1, <2>2, <2>3 DEF TypeOK
  <1>3. CASE d.why # "exit"
    <2>1. active' = active /\ s \notin Open
      BY <1>3 DEF Departed, GoneAreClosed, Open
    <2>2. /\ active' \in [Sockets -> Ships \cup {NoShip}]
          /\ \A x \in Sockets \ {s} : active'[x] = active[x]
          /\ \A x \in {s} \cap Open' : active'[x] = NoShip
          /\ {s} \in SUBSET Sockets /\ Open' \in SUBSET Open
      BY <1>1, <2>1 DEF TypeOK
    <2>3. reg' \in Registry /\ Sound(reg', active', Open')
      BY <1>1, <2>2, RemovalSound
    <2> QED BY <1>1, <2>1, <2>2, <2>3
  <1> QED BY <1>2, <1>3

\* A departure ends: with the flush of the hull, or because no hull is left to flush.
LEMMA DepartedKeeps ==
    ASSUME IInv, NEW d \in departures, Departed(d),
           UNCHANGED <<conn, menu, died, boardings, writes>>,
           rows' \in [Ships -> {"flyable", "abandoned", "gone"}],
           world' = [world EXCEPT ![d.ship] = "out"],
           recovering' \in SUBSET Users
    PROVE  IInv'
  <1> USE Facts
  <1>1. /\ active' \in [Sockets -> Ships \cup {NoShip}]
        /\ reg' \in Registry
        /\ Sound(reg', active', Open')
        /\ departures' = departures \ {d}
        /\ lookups' \in {lookups, lookups \cup {Query(d.sock, "exit")}}
        /\ \A s \in Sockets : active'[s] \in {active[s], NoShip}
    BY DepartedSound
  <1>2. Query(d.sock, "exit") \in Lookup /\ Query(d.sock, "exit").sock = d.sock
    BY DEF Query, Lookup
  <1>3. TypeOK'
    BY <1>1, <1>2 DEF TypeOK
  <1>4. AbsentIsBlank' /\ GoneAreClosed'
    BY <1>1, <1>2 DEF AbsentIsBlank, GoneAreClosed
  <1>5. DormantIsLeaving'
    <2> SUFFICES ASSUME NEW h \in Ships, world'[h] = "avail"
                 PROVE  \E x \in departures' : x.ship = h /\ x.at \in {"persist", "unload"}
      BY DEF DormantIsLeaving
    <2>1. h # d.ship /\ world[h] = "avail"
      BY DEF TypeOK
    <2>2. PICK x \in departures : x.ship = h /\ x.at \in {"persist", "unload"}
      BY <2>1 DEF DormantIsLeaving
    <2> QED BY <1>1, <2>1, <2>2
  <1> QED BY <1>1, <1>3, <1>4, <1>5 DEF IInv

\* The flush and the eviction.
LEMMA UnloadedKeeps ==
    ASSUME IInv, NEW d \in departures, Unloaded(d), recovering' \in SUBSET Users
    PROVE  IInv'
  BY DepartedKeeps, Facts DEF Unloaded, Evicting, TypeOK

\* The dormant mark has landed.
LEMMA PersistedKeeps ==
    ASSUME IInv, NEW d \in departures, Persisted(d), recovering' \in SUBSET Users
    PROVE  IInv'
  <1> USE Facts
  <1>1. /\ d.at = "persist" /\ UNCHANGED <<conn, menu, world, died, boardings, writes>>
        /\ rows' \in [Ships -> {"flyable", "abandoned", "gone"}]
    BY DEF Persisted, TypeOK
  <1>2. CASE world[d.ship] = "out"
    <2>1. Departed(d) /\ world' = [world EXCEPT ![d.ship] = "out"]
      BY <1>1, <1>2 DEF Persisted, TypeOK
    <2> QED BY <1>1, <2>1, DepartedKeeps
  <1>3. CASE world[d.ship] # "out"
    <2> DEFINE e == [d EXCEPT !.at = "unload"]
    <2>1. /\ departures' = (departures \ {d}) \cup {e}
          /\ UNCHANGED <<reg, active, lookups>>
      BY <1>3 DEF Persisted
    <2>2. /\ e \in Departure /\ e.sock = d.sock /\ e.ship = d.ship /\ e.why = d.why
          /\ e.at = "unload"
      BY DEF Departure
    <2> HIDE DEF e
    <2>3. TypeOK'
      BY <1>1, <2>1, <2>2 DEF TypeOK
    <2>4. Sound(reg, active, Open)'
      BY <1>1, <2>1 DEF Open
    <2>5. AbsentIsBlank' /\ GoneAreClosed'
      BY <1>1, <2>1, <2>2 DEF AbsentIsBlank, GoneAreClosed
    <2>6. DormantIsLeaving'
      <3> SUFFICES ASSUME NEW h \in Ships, world'[h] = "avail"
                   PROVE  \E x \in departures' : x.ship = h /\ x.at \in {"persist", "unload"}
        BY DEF DormantIsLeaving
      <3>1. PICK x \in departures : x.ship = h /\ x.at \in {"persist", "unload"}
        BY <1>1 DEF DormantIsLeaving
      <3> QED BY <2>1, <2>2, <3>1
    <2> QED BY <2>3, <2>4, <2>5, <2>6 DEF IInv
  <1> QED BY <1>2, <1>3

\* The telemetry write has answered.
LEMMA TelemetryKeeps ==
    ASSUME IInv, NEW d \in departures, Telemetry(d), recovering' \in SUBSET Users
    PROVE  IInv'
  <1> USE Facts
  <1>1. /\ d.at = "telemetry" /\ d.why # "exit" /\ conn[d.sock] = "closed"
        /\ UNCHANGED <<conn, active, menu, rows, died, lookups, boardings, writes>>
    BY DEF Telemetry, GoneAreClosed
  <1>2. CASE /\ departures' = (departures \ {d}) \cup {[d EXCEPT !.at = "points"]}
             /\ UNCHANGED <<world, reg>>
    <2> DEFINE e == [d EXCEPT !.at = "points"]
    <2>1. e \in Departure /\ e.sock = d.sock /\ e.why = d.why
      BY DEF Departure
    <2> HIDE DEF e
    <2>2. departures' = (departures \ {d}) \cup {e}
      BY <1>2 DEF e
    <2>3. TypeOK' /\ Sound(reg, active, Open)' /\ AbsentIsBlank' /\ GoneAreClosed'
      BY <1>1, <1>2, <2>1, <2>2 DEF TypeOK, Open, AbsentIsBlank, GoneAreClosed
    <2>4. DormantIsLeaving'
      BY <1>1, <1>2, <2>2 DEF DormantIsLeaving
    <2> QED BY <2>3, <2>4 DEF IInv
  <1>3. CASE Unboarding(d) /\ UNCHANGED reg
    BY <1>1, <1>3, UnboardingKeeps
  <1>4. CASE departures' = departures \ {d} /\ reg' = Removed(reg, {d.sock}) /\ UNCHANGED world
    <2>1. reg' \in Registry /\ Sound(reg', active', Open')
      <3>1. /\ active' \in [Sockets -> Ships \cup {NoShip}]
            /\ \A x \in Sockets \ {d.sock} : active'[x] = active[x]
            /\ \A x \in {d.sock} \cap Open' : active'[x] = NoShip
            /\ {d.sock} \in SUBSET Sockets /\ Open' \in SUBSET Open
        BY <1>1 DEF TypeOK, Open
      <3> QED BY <1>4, <3>1, RemovalSound
    <2>2. TypeOK' /\ AbsentIsBlank' /\ GoneAreClosed'
      BY <1>1, <1>4, <2>1 DEF TypeOK, AbsentIsBlank, GoneAreClosed
    <2>3. DormantIsLeaving'
      BY <1>1, <1>4 DEF DormantIsLeaving
    <2> QED BY <2>1, <2>2, <2>3 DEF IInv
  <1> QED BY <1>2, <1>3, <1>4 DEF Telemetry

\* A hull destroyed: the first socket of its captain's room is detached with it.
LEMMA DestroyedKeeps ==
    ASSUME IInv, NEW h \in Ships, NEW also \in SUBSET (Sockets \ Open),
           Destroyed(h, also),
           UNCHANGED <<conn, menu, rows, boardings>>,
           departures' \in SUBSET departures,
           \A d \in departures \ departures' : d.at = "points",
           recovering' \in SUBSET Users
    PROVE  IInv'
  <1> USE Facts
  <1> DEFINE room == Room(Captain[h])
  <1>1. /\ world' = [world EXCEPT ![h] = "out"] /\ died' = died \cup {h}
        /\ writes' = writes \cup {[ship |-> h, does |-> "delete"]}
        /\ [ship |-> h, does |-> "delete"] \in Write
    BY DEF Destroyed, Write
  <1>2. Open' = Open /\ Open \subseteq Sockets
    BY DEF Open
  <1>3. PICK D \in SUBSET Sockets :
            /\ reg' = Removed(reg, D)
            /\ active' \in [Sockets -> Ships \cup {NoShip}]
            /\ \A s \in Sockets \ D : active'[s] = active[s]
            /\ \A s \in D \cap Open : active'[s] = NoShip
            /\ \A s \in Sockets : active'[s] \in {active[s], NoShip}
            /\ lookups' \subseteq lookups \cup {Query(s, "recover") : s \in Open}
    <2>1. CASE room = {}
      <3>1. reg' = Removed(reg, also) /\ UNCHANGED <<active, lookups>>
        BY <2>1 DEF Destroyed
      <3> QED BY <3>1, <1>2 DEF TypeOK
    <2>2. CASE room # {}
      <3>1. PICK s \in room : /\ active' = [active EXCEPT ![s] = NoShip]
                              /\ reg' = Removed(reg, also \cup {s})
                              /\ lookups' = lookups \cup {Query(s, "recover")}
        BY <2>2 DEF Destroyed
      <3>2. s \in Open
        BY DEF Room
      <3> QED BY <3>1, <3>2, <1>2 DEF TypeOK
    <2> QED BY <2>1, <2>2
  <1>4. reg' \in Registry /\ Sound(reg', active', Open')
    BY <1>2, <1>3, RemovalSound
  <1>5. \A l \in lookups' \ lookups : l \in Lookup /\ conn[l.sock] = "open"
    BY <1>3 DEF Query, Lookup, Open
  <1>6. TypeOK'
    BY <1>1, <1>3, <1>4, <1>5 DEF TypeOK
  <1>7. AbsentIsBlank' /\ GoneAreClosed'
    BY <1>3, <1>5 DEF AbsentIsBlank, GoneAreClosed
  <1>8. DormantIsLeaving'
    BY <1>1 DEF DormantIsLeaving, TypeOK
  <1> QED BY <1>4, <1>6, <1>7, <1>8 DEF IInv

\* The next socket of the room is detached.
LEMMA RecoverNextKeeps ==
    ASSUME IInv, NEW u \in Users, RecoverNext(u), recovering' \in SUBSET Users
    PROVE  IInv'
  <1> USE Facts
  <1>1. PICK s \in Room(u) : Detached(s) /\ lookups' = lookups \cup {Query(s, "recover")}
    BY DEF RecoverNext
  <1>2. /\ s \in Sockets /\ conn[s] = "open" /\ Open' = Open
        /\ reg' = Removed(reg, {s}) /\ active' = [active EXCEPT ![s] = NoShip]
        /\ UNCHANGED <<conn, menu, world, rows, died, boardings, departures, writes>>
    BY <1>1 DEF RecoverNext, Room, Open, Detached, hulls
  <1>3. Query(s, "recover") \in Lookup /\ Query(s, "recover").sock = s
    BY <1>2 DEF Query, Lookup
  <1>4. reg' \in Registry /\ Sound(reg', active', Open')
    <2>1. /\ active' \in [Sockets -> Ships \cup {NoShip}]
          /\ \A x \in Sockets \ {s} : active'[x] = active[x]
          /\ \A x \in {s} \cap Open' : active'[x] = NoShip
          /\ {s} \in SUBSET Sockets /\ Open' \in SUBSET Open
      BY <1>2 DEF TypeOK
    <2> QED BY <1>2, <2>1, RemovalSound
  <1>5. TypeOK'
    BY <1>1, <1>2, <1>3, <1>4 DEF TypeOK
  <1>6. AbsentIsBlank' /\ GoneAreClosed' /\ DormantIsLeaving'
    BY <1>1, <1>2, <1>3 DEF AbsentIsBlank, GoneAreClosed, DormantIsLeaving, TypeOK
  <1> QED BY <1>4, <1>5, <1>6 DEF IInv

\* A hull destroyed in the world.
LEMMA DeathKeeps ==
    ASSUME IInv, NEW h \in Ships, Death(h), recovering' \in SUBSET Users
    PROVE  IInv'
  BY DestroyedKeeps DEF Death

\* A hull destroyed because its pilot hung up in combat.
LEMMA HangupKillKeeps ==
    ASSUME IInv, NEW d \in departures, HangupKill(d), recovering' \in SUBSET Users
    PROVE  IInv'
  <1> USE Facts
  <1>1. /\ d.at = "points" /\ d.ship \in Ships /\ departures' = departures \ {d}
        /\ Destroyed(d.ship, {d.sock}) /\ UNCHANGED <<conn, menu, rows, boardings>>
    BY DEF HangupKill
  <1>2. {d.sock} \in SUBSET (Sockets \ Open)
    BY <1>1 DEF GoneAreClosed, Open
  <1>3. departures' \in SUBSET departures /\ \A e \in departures \ departures' : e.at = "points"
    BY <1>1
  <1> QED BY <1>1, <1>2, <1>3, DestroyedKeeps

-----------------------------------------------------------------------------
(* The theorems.                                                           *)

\* Every step of every handler keeps the invariant.
LEMMA NextKeeps ==
    ASSUME IInv, Next
    PROVE  IInv'
  <1>1. CASE Killing
    <2>1. CASE \E h \in Ships :
                  Death(h) /\ recovering' = StillWalked(recovering \cup {Captain[h]})
      <3>1. PICK h \in Ships :
                  Death(h) /\ recovering' = StillWalked(recovering \cup {Captain[h]})
        BY <2>1
      <3>2. recovering' \in SUBSET Users
        BY <3>1, CaptainAssumption DEF StillWalked, IInv, TypeOK
      <3> QED BY <3>1, <3>2, DeathKeeps
    <2>2. CASE \E d \in departures :
                  HangupKill(d) /\ recovering' = StillWalked(recovering \cup {Captain[d.ship]})
      <3>1. PICK d \in departures :
                  HangupKill(d) /\ recovering' = StillWalked(recovering \cup {Captain[d.ship]})
        BY <2>2
      <3>2. d.ship \in Ships
        BY Facts
      <3>3. recovering' \in SUBSET Users
        BY <3>1, <3>2, CaptainAssumption DEF StillWalked, IInv, TypeOK
      <3> QED BY <3>1, <3>3, HangupKillKeeps
    <2> QED BY <1>1, <2>1, <2>2 DEF Killing
  <1>2. CASE Living /\ recovering' = StillWalked(recovering)
    <2>1. recovering' \in SUBSET Users
      BY <1>2 DEF StillWalked, IInv, TypeOK
    <2>2. CASE \E s \in Sockets : Connect(s) \/ Exit(s) \/ AbandonShip(s) \/ Recycle(s)
      BY <2>1, <2>2, ConnectKeeps, ExitKeeps, AbandonShipKeeps, RecycleKeeps
    <2>3. CASE \E s \in Sockets, h \in Ships : Reply(s, h)
      BY <2>1, <2>3, ReplyKeeps
    <2>4. CASE \E s \in Sockets, why \in {"killed", "clean"} : Disconnect(s, why)
      BY <2>1, <2>4, DisconnectKeeps
    <2>5. CASE \E l \in lookups : Queried(l)
      BY <2>1, <2>5, QueriedKeeps
    <2>6. CASE \E b \in boardings :
                  HullRead(b) \/ BoardWarm(b) \/ Refused(b) \/ Hydrating(b) \/ Boarded(b)
      BY <2>1, <2>6, BoardingKeeps, SeatKeeps
    <2>7. CASE \E d \in departures : Telemetry(d) \/ Persisted(d) \/ Unloaded(d)
      BY <2>1, <2>7, TelemetryKeeps, PersistedKeeps, UnloadedKeeps
    <2>8. CASE \E u \in Users : RecoverNext(u)
      BY <2>1, <2>8, RecoverNextKeeps
    <2>9. CASE \E w \in writes : Landed(w)
      BY <2>1, <2>9, LandedKeeps
    <2> QED BY <1>2, <2>2, <2>3, <2>4, <2>5, <2>6, <2>7, <2>8, <2>9 DEF Living
  <1> QED BY <1>1, <1>2 DEF Next

\* It holds when the process starts, with nobody connected.
LEMMA InitSound == Init => IInv
  <1> SUFFICES ASSUME Init PROVE IInv
    OBVIOUS
  <1> USE AbsentAssumption
  <1>1. EmptyRegistry \in Registry
    BY DEF EmptyRegistry, Registry
  <1>2. TypeOK
    BY <1>1 DEF Init, TypeOK
  <1>3. Sound(reg, active, Open)
    BY DEF Init, Sound, Bijective, EmptyRegistry, Open
  <1>4. AbsentIsBlank /\ GoneAreClosed /\ DormantIsLeaving
    BY DEF Init, AbsentIsBlank, GoneAreClosed, DormantIsLeaving
  <1> QED BY <1>2, <1>3, <1>4 DEF IInv

\* The invariant holds of every behaviour.
THEOREM Inductive == Spec => []IInv
  <1>1. IInv /\ UNCHANGED vars => IInv'
    BY DEF vars, hulls, IInv, TypeOK, Sound, Open, AbsentIsBlank, GoneAreClosed, DormantIsLeaving
  <1>2. IInv /\ [Next]_vars => IInv'
    BY <1>1, NextKeeps
  <1> QED BY InitSound, <1>2, PTL DEF Spec

\* Every variable keeps its type.
THEOREM TypeCorrect == Spec => []TypeOK
  <1>1. IInv => TypeOK
    BY DEF IInv
  <1> QED BY <1>1, Inductive, PTL

\* The registry's two maps stay each other's inverse, for any number of sockets
\* and hulls (ConnectedShipsRegistry).
THEOREM RegistryStaysBijective == Spec => []RegistryBijective
  <1>1. IInv => RegistryBijective
    BY DEF IInv, Sound, RegistryBijective
  <1> QED BY <1>1, Inductive, PTL

\* A socket that is registered for a hull sends its commands to that hull
\* (client.data.activeShipNo against ConnectedShipsRegistry).
THEOREM RegistryFollowsTheSocket == Spec => []RegisteredFlies
  <1>1. IInv => RegisteredFlies
    BY DEF IInv, Sound, RegisteredFlies
  <1> QED BY <1>1, Inductive, PTL

\* No hull is ever commanded by two live sockets (upsert's latest-wins).
THEOREM OnePilotAtATime == Spec => []OnePilot
  <1>1. IInv => OnePilot
    BY DEF IInv, Sound, OnePilot
  <1> QED BY <1>1, Inductive, PTL

\* A dormant hull is never left in the world for good by a step: an unboard that
\* will evict it is still running (ShipStateService.unboard).
THEOREM DormancyEnds == Spec => []DormantIsLeaving
  <1>1. IInv => DormantIsLeaving
    BY DEF IInv
  <1> QED BY <1>1, Inductive, PTL

\* A hull is made dormant by the close or the exit of the socket registered for it
\* (the session-replacement guard of onDisconnect).
THEOREM OnlyThePilotUnboards == Spec => OnlyItsPilotPutsItAway
  <1> DEFINE Put == \A h \in Ships : world[h] = "user" /\ world'[h] = "avail" =>
                 \E d \in departures' : d.ship = h /\ d.at = "persist" /\ d.sock = reg.byShipId[h]
  <1>1. IInv /\ [Next]_vars => Put
    <2> SUFFICES ASSUME IInv, [Next]_vars, NEW h \in Ships,
                        world[h] = "user", world'[h] = "avail"
                 PROVE  \E d \in departures' :
                           d.ship = h /\ d.at = "persist" /\ d.sock = reg.byShipId[h]
      OBVIOUS
    <2> USE Facts
    <2>1. ASSUME NEW d \in Departure, Unboarding(d), reg.byShipId[d.ship] = d.sock
          PROVE  \E e \in departures' :
                    e.ship = h /\ e.at = "persist" /\ e.sock = reg.byShipId[h]
      <3>1. d.ship = h
        BY <2>1 DEF Unboarding, TypeOK
      <3>2. [d EXCEPT !.at = "persist"] \in departures'
        BY <2>1, <3>1 DEF Unboarding
      <3> QED BY <2>1, <3>1, <3>2 DEF Departure
    <2>2. CASE \E s \in Sockets : Exit(s)
      <3>1. PICK s \in Sockets : Exit(s)
        BY <2>2
      <3> DEFINE d == [sock |-> s, ship |-> active[s], why |-> "exit", at |-> "persist"]
      <3>2. /\ active[s] \in Ships /\ s \in Open /\ Unboarding(d)
        BY <3>1 DEF Exit, CanCommand, Open, TypeOK
      <3>3. d \in Departure
        BY <3>2 DEF Departure
      <3>4. \A x \in Open : active[x] # NoShip => reg.byShipId[active[x]] = x
        BY DEF Sound
      <3>5. reg.byShipId[active[s]] = s
        BY <3>2, <3>4, AbsentAssumption
      <3> QED BY <2>1, <3>2, <3>3, <3>5
    <2>3. CASE \E d \in departures : Telemetry(d)
      <3>1. PICK d \in departures : Telemetry(d)
        BY <2>3
      <3>2. Unboarding(d) /\ OwnsHull(d)
        BY <3>1 DEF Telemetry
      <3> QED BY <2>1, <3>2 DEF OwnsHull
    <2>4. ASSUME \/ world' = world
                 \/ \E g \in Ships, x \in {"user", "abandoned", "out"} :
                       world' = [world EXCEPT ![g] = x]
          PROVE  FALSE
      BY <2>4 DEF TypeOK
    <2>5. CASE Killing
      BY <2>4, <2>5 DEF Killing, Death, HangupKill, Destroyed
    <2>6. CASE \E s \in Sockets : Connect(s) \/ AbandonShip(s) \/ Recycle(s)
      BY <2>4, <2>6 DEF Connect, AbandonShip, CanCommand, Recycle, hulls, TypeOK
    <2>7. CASE \E s \in Sockets, g \in Ships : Reply(s, g)
      BY <2>4, <2>7 DEF Reply, hulls
    <2>8. CASE \E s \in Sockets, why \in {"killed", "clean"} : Disconnect(s, why)
      BY <2>4, <2>8 DEF Disconnect, hulls
    <2>9. CASE \E l \in lookups : Queried(l)
      BY <2>4, <2>9 DEF Queried, hulls
    <2>10. CASE \E b \in boardings :
                  HullRead(b) \/ BoardWarm(b) \/ Refused(b) \/ Hydrating(b) \/ Boarded(b)
      BY <2>4, <2>10 DEF HullRead, BoardWarm, Refused, Hydrating, Boarded, hulls
    <2>11. CASE \E d \in departures : Persisted(d) \/ Unloaded(d)
      BY <2>4, <2>11 DEF Persisted, Unloaded, Evicting
    <2>12. CASE \E u \in Users : RecoverNext(u)
      BY <2>4, <2>12 DEF RecoverNext, hulls
    <2>13. CASE \E w \in writes : Landed(w)
      BY <2>4, <2>13 DEF Landed
    <2>14. CASE UNCHANGED vars
      BY <2>4, <2>14 DEF vars, hulls
    <2> QED BY <2>2, <2>3, <2>5, <2>6, <2>7, <2>8, <2>9, <2>10, <2>11, <2>12, <2>13, <2>14
            DEF Next, Living
  <1> QED BY <1>1, Inductive, PTL DEF Spec, OnlyItsPilotPutsItAway
=============================================================================
