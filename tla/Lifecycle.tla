------------------------------ MODULE Lifecycle ------------------------------
(***************************************************************************)
(* A captain's session: connecting, choosing and boarding a hull, leaving  *)
(* it by exit, abandonment, disconnection or death, and connecting again.  *)
(*                                                                         *)
(* The handlers are asynchronous.  Every `await` of a database call ends   *)
(* an action here, and what runs up to the next one is a single action,    *)
(* because JavaScript runs it without interruption.  The handler instances *)
(* in flight are records in four sets: lookups (presentShipEntry), boardings *)
(* (boardShipAndWelcome), departures (onDisconnect and maybeExitGame) and  *)
(* writes (database statements nobody awaits).  The connection pool puts   *)
(* no order between statements.                                            *)
(*                                                                         *)
(* Authentication, the caps and presence are module Admission.  Left out:  *)
(* the onboarding of a captain without a hull, the AI's ships, broadcasts, *)
(* database failures, a restart of the process.                            *)
(***************************************************************************)
EXTENDS Naturals, FiniteSets, ConnectedShips

CONSTANTS
    Users,
    Account,      \* the user of each socket
    Captain       \* the user of each hull

ASSUME AccountAssumption == Account \in [Sockets -> Users]
ASSUME CaptainAssumption == Captain \in [Ships -> Users]

VARIABLES
    conn,           \* the transport of each socket
    active,         \* client.data.activeShipNo
    menu,           \* client.data.pendingShipSelect
    reg,            \* ConnectedShipsRegistry
    world,          \* ShipStateService.map: a hull's status in memory, or "out"
    rows,           \* the hull's row in the database
    died,           \* hulls destroyed: their row may carry the fatal damage
    recovering,     \* users whose room recoverAfterDeath is walking
    lookups, boardings, departures, writes

hulls == <<world, rows, died>>
vars == <<conn, active, menu, reg, world, rows, died, recovering,
          lookups, boardings, departures, writes>>

Lookup    == [sock : Sockets, why : {"connect", "exit", "abandon", "recover"}]
Boarding  == [sock : Sockets, ship : Ships, by : {"connect", "abandon", "recover", "reply"},
              at : {"hull", "row", "hydrate"}]
Departure == [sock : Sockets, ship : Ships, why : {"killed", "clean", "exit"},
              at : {"telemetry", "points", "persist", "unload"}]
Write     == [ship : Ships, does : {"abandon", "delete", "board"}]

TypeOK ==
    /\ conn \in [Sockets -> {"absent", "open", "closed"}]
    /\ active \in [Sockets -> Ships \cup {NoShip}]
    /\ menu \in [Sockets -> SUBSET Ships]
    /\ reg \in Registry
    /\ world \in [Ships -> {"out", "user", "avail", "abandoned"}]
    /\ rows \in [Ships -> {"flyable", "abandoned", "gone"}]
    /\ died \in SUBSET Ships
    /\ recovering \in SUBSET Users
    /\ lookups \in SUBSET Lookup
    /\ boardings \in SUBSET Boarding
    /\ departures \in SUBSET Departure
    /\ writes \in SUBSET Write

Init ==
    /\ conn = [s \in Sockets |-> "absent"]
    /\ active = [s \in Sockets |-> NoShip]
    /\ menu = [s \in Sockets |-> {}]
    /\ reg = EmptyRegistry
    /\ world = [h \in Ships |-> "out"]
    /\ rows \in [Ships -> {"flyable", "gone"}]
    /\ died = {}
    /\ recovering = {}
    /\ lookups = {} /\ boardings = {} /\ departures = {} /\ writes = {}

-----------------------------------------------------------------------------
(* Shared steps.                                                           *)

Open == {s \in Sockets : conn[s] = "open"}

\* The sockets in a captain's room: a socket joins when it boards and leaves
\* when it is detached or closed.
Room(u) == {s \in Open : Account[s] = u /\ active[s] # NoShip}

Query(s, why) == [sock |-> s, why |-> why]

\* The sockets D close: onDisconnect up to its first await, once the rest of the
\* step has set active' and world' and made the registry r.  A socket whose hull
\* is in the world goes on to the telemetry write.
Disconnecting(D, r, why) ==
    LET flying == {s \in D : active'[s] # NoShip /\ world'[active'[s]] # "out"} IN
    /\ conn' = [s \in Sockets |-> IF s \in D THEN "closed" ELSE conn[s]]
    /\ departures' = departures \cup
          {[sock |-> s, ship |-> active'[s], why |-> why, at |-> "telemetry"] : s \in flying}
    /\ reg' = Removed(r, D \ flying)

\* Mutant of Detached: the registration is left behind (issue #49).
DetachedStillRegistered(s) ==
    /\ active' = [active EXCEPT ![s] = NoShip]
    /\ reg' = reg

\* detachFromWorld: out of the room and the registry.
Detached(s) ==
    /\ active' = [active EXCEPT ![s] = NoShip]
    /\ reg' = Removed(reg, {s})

\* Socket s takes hull h: latest wins, and the socket displaced is closed.
Seat(s, h) ==
    LET prior == Prior(reg, h, s) IN
    /\ active' = [active EXCEPT ![s] = h]
    /\ Disconnecting({prior} \cap Open, Upserted(reg, h, s), "clean")

\* The hull h dies: its row is to be deleted, it leaves the world, and the first
\* socket in its captain's room is put back at ship entry.  The registrations of
\* `also` are removed in the same step.
Destroyed(h, also) ==
    LET room == Room(Captain[h]) IN
    /\ world' = [world EXCEPT ![h] = "out"]
    /\ died' = died \cup {h}
    /\ writes' = writes \cup {[ship |-> h, does |-> "delete"]}
    /\ IF room = {}
       THEN reg' = Removed(reg, also) /\ UNCHANGED <<active, lookups>>
       ELSE \E s \in room :
              /\ active' = [active EXCEPT ![s] = NoShip]
              /\ reg' = Removed(reg, also \cup {s})
              /\ lookups' = lookups \cup {Query(s, "recover")}

-----------------------------------------------------------------------------
(* Ship entry (presentShipEntry).                                          *)

\* Admitted: ship entry begins.  The transport may have closed while the
\* connection handler was waiting; nothing asks.
Connect(s) ==
    /\ conn[s] = "absent"
    /\ \E c \in {"open", "closed"} : conn' = [conn EXCEPT ![s] = c]
    /\ lookups' = lookups \cup {Query(s, "connect")}
    /\ UNCHANGED <<active, menu, reg, hulls, boardings, departures, writes>>

\* The captain's hulls that are not abandoned, as their rows say now.
Fleet(u) == {h \in Ships : Captain[h] = u /\ rows[h] = "flyable"}

\* The database answers.  One hull and not an exit: straight aboard, with the row
\* as it was read.  Several, or an exit: the menu.  None: the prompt for a first
\* ship, which is outside this module.
Queried(l) ==
    LET fleet == Fleet(Account[l.sock])
        auto  == Cardinality(fleet) = 1 /\ l.why # "exit"
    IN
    /\ lookups' = lookups \ {l}
    /\ boardings' = boardings \cup
          {[sock |-> l.sock, ship |-> h, by |-> l.why, at |-> "row"] :
              h \in IF auto THEN fleet ELSE {}}
    /\ menu' = IF auto \/ fleet = {} THEN menu ELSE [menu EXCEPT ![l.sock] = fleet]
    /\ UNCHANGED <<conn, active, reg, hulls, departures, writes>>

\* The captain picks a hull from the menu; its row is read again.
Reply(s, h) ==
    LET b == [sock |-> s, ship |-> h, by |-> "reply", at |-> "hull"] IN
    /\ conn[s] = "open" /\ h \in menu[s]
    /\ b \notin boardings   \* bound: one pending reply for a hull
    /\ boardings' = boardings \cup {b}
    /\ UNCHANGED <<conn, active, menu, reg, hulls, lookups, departures, writes>>

\* findHull asks only that the row exists; without it the menu comes back.
HullRead(b) ==
    /\ b.at = "hull"
    /\ boardings' = (boardings \ {b}) \cup
          (IF rows[b.ship] = "gone" THEN {} ELSE {[b EXCEPT !.at = "row"]})
    /\ UNCHANGED <<conn, active, menu, reg, hulls, lookups, departures, writes>>

-----------------------------------------------------------------------------
(* Boarding (boardShipAndWelcome).                                         *)

\* Mutant of MenuAfter: the choices are blanked and the menu stays up.
MenuAfterBlanked(b) == IF b.by = "reply" THEN [menu EXCEPT ![b.sock] = {NoShip}] ELSE menu

\* A reply clears the menu once the boarding returns.
MenuAfter(b) == IF b.by = "reply" THEN [menu EXCEPT ![b.sock] = {}] ELSE menu

\* The hull is in memory already.
BoardWarm(b) ==
    /\ b.at = "row" /\ world[b.ship] # "out"
    /\ boardings' = boardings \ {b}
    /\ menu' = MenuAfter(b)
    /\ UNCHANGED hulls
    /\ Seat(b.sock, b.ship)
    /\ UNCHANGED <<lookups, writes>>

\* The row read carries the damage that killed the hull.
Refused(b) ==
    /\ b.at = "row" /\ world[b.ship] = "out" /\ b.ship \in died
    /\ boardings' = boardings \ {b}
    /\ menu' = MenuAfter(b)
    /\ UNCHANGED <<conn, active, reg, hulls, lookups, departures, writes>>

\* The hull is not in memory: the profile and the class are awaited.
Hydrating(b) ==
    /\ b.at = "row" /\ world[b.ship] = "out"
    /\ boardings' = (boardings \ {b}) \cup {[b EXCEPT !.at = "hydrate"]}
    /\ UNCHANGED <<conn, active, menu, reg, hulls, lookups, departures, writes>>

\* board: into the world whatever is there by now, the status write not awaited.
Boarded(b) ==
    /\ b.at = "hydrate"
    /\ boardings' = boardings \ {b}
    /\ menu' = MenuAfter(b)
    /\ world' = [world EXCEPT ![b.ship] = "user"]
    /\ writes' = writes \cup {[ship |-> b.ship, does |-> "board"]}
    /\ UNCHANGED <<rows, died>>
    /\ Seat(b.sock, b.ship)
    /\ UNCHANGED <<lookups>>

-----------------------------------------------------------------------------
(* Leaving: exit, abandonment, disconnection.                              *)

\* One command at a time on a socket, and the re-entry is part of the command.
Busy(s) ==
    \/ \E l \in lookups : l.sock = s /\ l.why \in {"exit", "abandon"}
    \/ \E d \in departures : d.sock = s /\ d.why = "exit"
    \/ \E b \in boardings : b.sock = s /\ b.by = "abandon"

CanCommand(s) ==
    /\ conn[s] = "open" /\ ~Busy(s)
    /\ active[s] # NoShip /\ world[active[s]] \in {"user", "avail"}

\* unboard up to its first await, on behalf of departure d: an abandoned hull is
\* only flushed, any other is marked dormant and the mark is written first.
Unboarding(d) ==
    /\ world' = IF world[d.ship] \in {"out", "abandoned"} THEN world
                ELSE [world EXCEPT ![d.ship] = "avail"]
    /\ departures' = (departures \ {d}) \cup
          {[d EXCEPT !.at = IF world[d.ship] = "abandoned" THEN "unload" ELSE "persist"]}

\* The `x` command.
Exit(s) ==
    /\ CanCommand(s)
    /\ Unboarding([sock |-> s, ship |-> active[s], why |-> "exit", at |-> "persist"])
    /\ UNCHANGED <<conn, active, menu, reg, rows, died,
                   lookups, boardings, writes>>

\* The `abandon` command: the hull drifts on in the world, the write is not
\* awaited, and the captain is back at ship entry.
AbandonShip(s) ==
    LET h == active[s] IN
    /\ CanCommand(s)
    /\ world' = [world EXCEPT ![h] = "abandoned"]
    /\ writes' = writes \cup {[ship |-> h, does |-> "abandon"]}
    /\ Detached(s)
    /\ lookups' = lookups \cup {Query(s, "abandon")}
    /\ UNCHANGED <<conn, menu, rows, died, boardings, departures>>

\* The transport drops.  A ship in combat whose client hung up is killed.
Disconnect(s, why) ==
    /\ conn[s] = "open" /\ why \in {"killed", "clean"}
    /\ UNCHANGED <<active, hulls>>
    /\ Disconnecting({s}, reg, why)
    /\ UNCHANGED <<menu, lookups, boardings, writes>>

\* Mutant of OwnsHull: the session-replacement guard is dropped.
OwnsHullUnasked(d) == TRUE

\* The session-replacement guard.
OwnsHull(d) == reg.byShipId[d.ship] = d.sock

\* The telemetry write has answered: kill, unboard, or only deregister.
Telemetry(d) ==
    /\ d.at = "telemetry"
    /\ \/ /\ d.why = "killed"
          /\ departures' = (departures \ {d}) \cup {[d EXCEPT !.at = "points"]}
          /\ UNCHANGED <<world, reg>>
       \/ /\ d.why = "clean" /\ OwnsHull(d)
          /\ Unboarding(d)
          /\ UNCHANGED reg
       \/ /\ d.why = "clean" /\ ~OwnsHull(d)
          /\ departures' = departures \ {d}
          /\ reg' = Removed(reg, {d.sock})
          /\ UNCHANGED world
    /\ UNCHANGED <<conn, active, menu, rows, died, lookups, boardings, writes>>

\* The kill for hanging up in combat, whatever became of the hull meanwhile.
HangupKill(d) ==
    /\ d.at = "points"
    /\ departures' = departures \ {d}
    /\ Destroyed(d.ship, {d.sock})
    /\ UNCHANGED <<conn, menu, rows, boardings>>

\* The departure is over: the socket is deregistered, and after an exit it is
\* detached and put back at ship entry.
Departed(d) ==
    /\ departures' = departures \ {d}
    /\ IF d.why = "exit"
       THEN /\ Detached(d.sock)
            /\ lookups' = lookups \cup {Query(d.sock, "exit")}
       ELSE /\ reg' = Removed(reg, {d.sock})
            /\ UNCHANGED <<active, lookups>>

\* The dormant mark lands, over any other status; the flush comes next.
Persisted(d) ==
    /\ d.at = "persist"
    /\ rows' = [rows EXCEPT ![d.ship] = IF @ = "gone" THEN "gone" ELSE "flyable"]
    /\ IF world[d.ship] = "out"
       THEN Departed(d)
       ELSE /\ departures' = (departures \ {d}) \cup {[d EXCEPT !.at = "unload"]}
            /\ UNCHANGED <<reg, active, lookups>>
    /\ UNCHANGED <<conn, menu, world, died, boardings, writes>>

\* Mutant of Evicting: the hull is left in the map.
EvictingForgotten(h) == world

\* leave at the end of flushAndUnload.
Evicting(h) == [world EXCEPT ![h] = "out"]

Unloaded(d) ==
    /\ d.at = "unload"
    /\ world' = Evicting(d.ship)
    /\ Departed(d)
    /\ UNCHANGED <<conn, menu, rows, died, boardings, writes>>

-----------------------------------------------------------------------------
(* Death, and the writes nobody waits for.                                 *)

\* Destroyed in the world: by a weapon, a collision or its own self-destruct.
Death(h) ==
    /\ world[h] \in {"user", "avail"}
    /\ Destroyed(h, {})
    /\ UNCHANGED <<conn, menu, rows, boardings, departures>>

\* recoverAfterDeath goes on to the next socket in the room once the last one
\* has been through ship entry.
RecoverNext(u) ==
    /\ u \in recovering
    /\ ~ \E l \in lookups : l.why = "recover" /\ Account[l.sock] = u
    /\ ~ \E b \in boardings : b.by = "recover" /\ Account[b.sock] = u
    /\ \E s \in Room(u) :
          /\ Detached(s)
          /\ lookups' = lookups \cup {Query(s, "recover")}
    /\ UNCHANGED <<conn, menu, hulls, boardings, departures, writes>>

\* A write lands.  updateMany and deleteMany do nothing without a row.
Landed(w) ==
    /\ writes' = writes \ {w}
    /\ rows' = [rows EXCEPT ![w.ship] =
          IF @ = "gone" \/ w.does = "delete" THEN "gone"
          ELSE IF w.does = "abandon" THEN "abandoned" ELSE "flyable"]
    /\ UNCHANGED <<conn, active, menu, reg, world, died,
                   lookups, boardings, departures>>

\* Bound: a closed socket's identity is used again once nothing of it is left.
Recycle(s) ==
    /\ conn[s] = "closed" /\ reg.bySocketId[s] = NoShip
    /\ \A t \in lookups \cup boardings \cup departures : t.sock # s
    /\ conn' = [conn EXCEPT ![s] = "absent"]
    /\ active' = [active EXCEPT ![s] = NoShip]
    /\ menu' = [menu EXCEPT ![s] = {}]
    /\ UNCHANGED <<reg, hulls, lookups, boardings, departures, writes>>

-----------------------------------------------------------------------------

\* recoverAfterDeath walks the room it found: it stops when that room empties.
StillWalked(U) == {u \in U : Room(u)' # {}}

Killing ==
    \/ \E h \in Ships :
          Death(h) /\ recovering' = StillWalked(recovering \cup {Captain[h]})
    \/ \E d \in departures :
          HangupKill(d) /\ recovering' = StillWalked(recovering \cup {Captain[d.ship]})

Living ==
    \/ \E s \in Sockets : Connect(s) \/ Exit(s) \/ AbandonShip(s) \/ Recycle(s)
    \/ \E s \in Sockets, h \in Ships : Reply(s, h)
    \/ \E s \in Sockets, why \in {"killed", "clean"} : Disconnect(s, why)
    \/ \E l \in lookups : Queried(l)
    \/ \E b \in boardings :
          HullRead(b) \/ BoardWarm(b) \/ Refused(b) \/ Hydrating(b) \/ Boarded(b)
    \/ \E d \in departures : Telemetry(d) \/ Persisted(d) \/ Unloaded(d)
    \/ \E u \in Users : RecoverNext(u)
    \/ \E w \in writes : Landed(w)

Next == Killing \/ (Living /\ recovering' = StillWalked(recovering))

Spec == Init /\ [][Next]_vars

-----------------------------------------------------------------------------
(* Properties.                                                             *)

\* The registry's two maps agree, so no hull is on the roster twice and no
\* socket flies two hulls (ConnectedShipsRegistry, issue #49).
RegistryBijective == Bijective(reg)

\* A registered socket is addressed by its own data: the hull the registry gives
\* it is the hull its commands act on.
RegisteredFlies ==
    \A s \in Sockets : reg.bySocketId[s] # NoShip => active[s] = reg.bySocketId[s]

\* A live socket that holds a hull is the one registered for it: two sockets
\* never command one ship (latest wins).
OnePilot ==
    \A s \in Open : active[s] # NoShip => reg.byShipId[active[s]] = s

\* A hull marked dormant is on its way out of the world: somebody's unboard is
\* still running for it.
DormantIsLeaving ==
    \A h \in Ships : world[h] = "avail" =>
        \E d \in departures : d.ship = h /\ d.at \in {"persist", "unload"}

\* A hull goes dormant only at the hand of the socket registered for it: the late
\* close of a displaced session leaves its successor's hull alone.
OnlyItsPilotPutsItAway ==
    [][\A h \in Ships : world[h] = "user" /\ world'[h] = "avail" =>
          \E d \in departures' :
             d.ship = h /\ d.at = "persist" /\ d.sock = reg.byShipId[h]]_vars

-----------------------------------------------------------------------------
(* Statements of the sources' comments that the code does not keep: TLC finds *)
(* a counterexample to each, and no run checks them.                          *)

\* "race with the death-delete that hasn't completed yet: do NOT resurrect it":
\* a hull destroyed is never in the world again.
DeadHullStaysDead == \A h \in died : world[h] = "out"

\* "Boarding an abandoned hull puts the captain behind the router's
\* abandoned-ship gate": nobody is aboard a hull marked abandoned.
AbandonedHullIsNotBoarded ==
    \A s \in Open : active[s] # NoShip => world[active[s]] # "abandoned"

\* "unboarding it here would strand the new session shipless": while its hull
\* lives, a session that holds it keeps it in the world.
LiveSessionKeepsItsShip ==
    \A s \in Open :
        active[s] \in Ships \ died => world[active[s]] # "out"
=============================================================================
