------------------------------- MODULE Combat -------------------------------
(* A battle, from the shot to the death it causes. Torpedoes and missiles fly *)
(* in slots kept on their target; every six seconds one pass lets the mines   *)
(* count down, moves what flies, and settles the ships it finds beaten, one   *)
(* after another, while nothing else runs. A captain who hangs up under the   *)
(* battle lock loses his ship too, but between two awaits of his disconnect.  *)
(* Mines are rows as well as entries in a table, written and deleted by       *)
(* statements of which some are not awaited. So are hulls: a captain's is     *)
(* deleted behind its death, one flown by the computer stays, and what the    *)
(* rows say lags behind the world; a hull comes back from a row that does not *)
(* say that it is beaten.                                                     *)
(*                                                                            *)
(* A channel is the ship that holds it (ShipChannels): once that ship leaves, *)
(* what still carries the channel is Anyone's. Damage is abstracted to        *)
(* whether a hull is beaten (100 or more), so that any hit may or may not     *)
(* beat it; aim, range, charge and shields into whether a shot hits. What the *)
(* killer takes from the hold is left out: a hull is looted as often as it is *)
(* announced destroyed.                                                       *)
EXTENDS Mines, Sequences, FiniteSetsExt, SequencesExt

CONSTANTS
    Order,        \* every ship, in the order of the keys: a sequence
    Automatic,    \* those flown by the computer
    Captain,      \* whose each ship is
    Calls,        \* bound: disconnects of locked captains under way at once
    Ids,          \* rows of the mine table
    Reach,        \* bound: how far away a projectile may be launched
    TorpSpeed, MisslSpeed,   \* TORPSPED, MISLSPED
    FireTicks,    \* FIRETICKS
    Fuse,         \* bound: the longest timer of a mine
    MaxPlay,      \* bound: commands, mishaps and hang-ups
    MaxFaults,    \* bound: statements that fail, and restarts
    Nobody, Anyone

Ships == ToSet(Order)
Kinds == {"torp", "missl"}

ASSUME ShipsAssumption ==
    /\ IsInjective(Order) /\ Automatic \subseteq Ships
    /\ Nobody \notin Ships /\ Anyone \notin Ships /\ Nobody # Anyone
ASSUME NumbersAssumption ==
    /\ {Reach, FireTicks, Fuse, MaxPlay, MaxFaults} \subseteq Nat
    /\ TorpSpeed \in Nat \ {0} /\ MisslSpeed \in Nat \ {0}
ASSUME IdsAssumption == Ids \subseteq Nat

VARIABLES
    fleet,      \* ships in the world
    beaten,     \* damage >= 100
    row,        \* of each hull: damage below 100, beaten, or deleted
    deleting,   \* hulls whose row's deletion is not awaited
    boarding,   \* hulls being boarded, whose row was read and was fit
    lastfired,  \* whose channel; of a ship outside the world, what its row or object says
    tubes,      \* what flies at a ship: one slot of each kind stands for three
    lock,       \* cantexit
    hang,       \* the disconnects of locked captains, and whom each accuses
    settling,   \* the pass is settling deaths
    credit,     \* attackerSnapshot
    table,      \* the mine table in memory
    rows,       \* its rows
    laying,     \* creations not answered
    erasing,    \* deletions not awaited
    zips,       \* a zipper's mines still to be deleted, each awaited
    announced,  \* history: how often a hull was announced destroyed since it
                \* last came into the world
    credited,   \* history: to whom
    finished,   \* history: how many disconnects destroyed it since then
    played, faults,
    beat          \* the passes so far, modulo 2

world  == <<fleet, beaten, lastfired, tubes, lock>>
hulls  == <<row, deleting, boarding>>
ships  == <<world, hulls>>
deaths == <<announced, credited, finished>>
mines  == <<table, rows, laying, erasing, zips>>
vars   == <<ships, hang, settling, credit, mines, deaths, played, faults, beat>>

Free == [by |-> Nobody, dist |-> 0]
NoHangUp == [at |-> "no", ship |-> Nobody, by |-> Nobody]

Init ==
    /\ fleet = Ships /\ beaten = {}
    /\ row = [s \in Ships |-> "fit"] /\ deleting = {} /\ boarding = {}
    /\ lastfired = [s \in Ships |-> Nobody]
    /\ tubes = [s \in Ships |-> [k \in Kinds |-> Free]]
    /\ lock = [s \in Ships |-> 0]
    /\ hang = [h \in Calls |-> NoHangUp]
    /\ settling = FALSE
    /\ credit = [s \in Ships |-> Nobody]
    /\ table = EmptyTable /\ rows = EmptyTable
    /\ laying = {} /\ erasing = {} /\ zips = [s \in Ships |-> {}]
    /\ announced = [s \in Ships |-> 0]
    /\ credited = [s \in Ships |-> {}]
    /\ finished = [s \in Ships |-> 0]
    /\ played = 0 /\ faults = 0 /\ beat = 0

MineRow == [timer : Int, deployedBy : {Captain[s] : s \in Ships}]
Mine == [by : Ships \cup {Anyone}, timer : Int, deployedBy : {Captain[s] : s \in Ships}]
Slot == [by : Ships \cup {Nobody}, dist : Int]
HangUps == [at : {"no", "telemetry", "points"}, ship : Ships \cup {Nobody},
            by : Ships \cup {Nobody, Anyone}]

TypeOK ==
    /\ fleet \cup beaten \cup deleting \cup boarding \subseteq Ships
    /\ row \in [Ships -> {"fit", "beaten", "none"}]
    /\ lastfired \in [Ships -> Ships \cup {Nobody, Anyone}]
    /\ tubes \in [Ships -> [Kinds -> Slot]]
    /\ lock \in [Ships -> 0 .. FireTicks]
    /\ hang \in [Calls -> HangUps]
    /\ \A h \in Calls : hang[h].at # "no" => hang[h].ship \in Ships
    /\ \A h \in Calls : hang[h].at = "points" => hang[h].by # Anyone
    /\ settling \in BOOLEAN /\ credit \in [Ships -> Ships \cup {Nobody}]
    /\ DOMAIN table \cup DOMAIN rows \cup erasing \subseteq Ids
    /\ \A m \in DOMAIN table : table[m] \in Mine
    /\ \A m \in DOMAIN rows : rows[m] \in MineRow
    /\ laying \subseteq [id : Ids, ship : Ships, by : Ships \cup {Anyone}, timer : 1 .. Fuse]
    /\ zips \in [Ships -> SUBSET Ids]
    /\ announced \in [Ships -> Nat] /\ credited \in [Ships -> SUBSET Ships]
    /\ finished \in [Ships -> Nat]
    /\ played \in 0 .. MaxPlay /\ faults \in 0 .. MaxFaults /\ beat \in {0, 1}

(* ------------------------------- channels ------------------------------- *)
\* The ships a channel may name.
Bearers(by) == IF by = Anyone THEN Ships \cup {Nobody} ELSE {by}

\* findActiveAttackerByChannel: in the world, and not the victim.
Attacker(v) == IF lastfired[v] \in fleet \ {v} THEN lastfired[v] ELSE Nobody

Passed(by, v) == IF by = v THEN Anyone ELSE by

\* v leaves the map: its ordnance with it, and its channel is scrubbed from
\* every ship in the world, though not from mines, rows and evicted objects. The
\* ships its self-destruct has blasted were hit by nobody.
Departs(v, blasted) ==
    /\ fleet' = fleet \ {v}
    /\ tubes' = [s \in Ships |-> [k \in Kinds |->
                    IF s = v \/ tubes[s][k].by = v THEN Free ELSE tubes[s][k]]]
    /\ lastfired' = [s \in Ships |->
                        IF s \in blasted \/ (s \in fleet \ {v} /\ lastfired[s] = v) THEN Nobody
                        ELSE Passed(lastfired[s], v)]
    /\ table' = [m \in DOMAIN table |-> [table[m] EXCEPT !.by = Passed(@, v)]]
    /\ laying' = {[l EXCEPT !.by = Passed(@, v)] : l \in laying}
    /\ UNCHANGED <<rows, erasing, zips>>

(* ------------------------------- commands ------------------------------- *)
\* Something befalls s, or is done by it.
Plays(s) ==
    /\ ~settling /\ s \in fleet /\ played < MaxPlay
    /\ played' = played + 1

\* A captain's socket takes its next command when the last is answered.
Commands(s) ==
    /\ Plays(s)
    /\ s \in Automatic \/ (zips[s] = {} /\ \A l \in laying : l.ship # s)

Locked(ss) == lock' = [s \in Ships |-> IF s \in ss THEN FireTicks ELSE lock[s]]

\* A sweep of a's beam over the ships of its arc, of which it beats some.
Beam(a, hit) ==
    /\ lastfired' = [s \in Ships |-> IF s \in hit THEN a ELSE lastfired[s]]
    /\ \E dead \in SUBSET hit : beaten' = beaten \cup dead
    /\ UNCHANGED <<fleet, hulls, tubes, hang, settling, credit, mines, deaths, faults,
                   beat>>

\* A captain's phasers lock him even if they hit nobody.
Phaser(a) ==
    /\ Commands(a) /\ a \notin Automatic
    /\ \E hit \in SUBSET (fleet \ {a}) : Beam(a, hit) /\ Locked(hit \cup {a})

\* A computer's lock it only if they hit somebody.
AutoPhaser(a) ==
    /\ Commands(a) /\ a \in Automatic
    /\ \E hit \in SUBSET (fleet \ {a}) :
         Beam(a, hit) /\ Locked(IF hit = {} THEN {} ELSE hit \cup {a})

\* The hyper-phaser, whoever fires it.
HyperPhaser(a) ==
    /\ Commands(a)
    /\ \E hit \in SUBSET (fleet \ {a}) : Beam(a, hit) /\ Locked(hit \cup {a})

\* A launch: the lock is tried, then a free slot sought. A failed lock and a
\* full target leave the battle lock all the same.
Launch(a, v, k) ==
    /\ Commands(a) /\ v \in fleet \ {a}
    /\ \/ /\ tubes[v][k].by = Nobody
          /\ \E d \in 1 .. Reach : tubes' = [tubes EXCEPT ![v][k] = [by |-> a, dist |-> d]]
       \/ UNCHANGED tubes
    /\ Locked({a, v})
    /\ UNCHANGED <<fleet, hulls, beaten, lastfired, hang, settling, credit, mines,
                   deaths, faults, beat>>

Torpedo(a, v) == Launch(a, v, "torp")

\* The computer has no missiles.
Missile(a, v) == a \notin Automatic /\ Launch(a, v, "missl")

\* Hyperspace clears the torpedoes, a burst of speed the missiles in flight, a
\* wormhole both.
Shaken(s, ks) ==
    /\ Plays(s) /\ \E k \in ks : tubes[s][k].dist > 0
    /\ tubes' = [tubes EXCEPT ![s] = [k \in Kinds |->
                    IF k \in ks /\ (@[k].dist > 0 \/ ks = Kinds) THEN Free ELSE @[k]]]
    /\ UNCHANGED <<fleet, hulls, beaten, lastfired, lock, hang, settling, credit, mines,
                   deaths, faults, beat>>

\* A planet, a wormhole, the rim, or shooting in the neutral zone, which locks.
Mishap(s) ==
    /\ Plays(s)
    /\ beaten' = beaten \cup {s}
    /\ lock' = lock \/ Locked({s})
    /\ UNCHANGED <<fleet, hulls, lastfired, tubes, hang, settling, credit, mines,
                   deaths, faults, beat>>

(* ------------------------- entering and leaving ------------------------- *)
\* Nothing has yet been heard of what just came into the world.
Born(ss) ==
    /\ announced' = [s \in Ships |-> IF s \in ss THEN 0 ELSE announced[s]]
    /\ credited' = [s \in Ships |-> IF s \in ss THEN {} ELSE credited[s]]
    /\ finished' = [s \in Ships |-> IF s \in ss THEN 0 ELSE finished[s]]

\* A sweep saves a hull that is beaten: the row is changed, never created.
Saved(s) ==
    /\ ~settling /\ s \in beaten \cap fleet /\ row[s] = "fit"
    /\ row' = [row EXCEPT ![s] = "beaten"]
    /\ UNCHANGED <<world, deleting, boarding, hang, settling, credit, mines, deaths, played,
                   faults, beat>>

\* A captain connects, and the row of his ship is read: it is not boarded with
\* damage of 100. One boarding of a hull at a time: Lifecycle has them cross.
Look(s) ==
    /\ ~settling /\ s \notin Automatic \cup boarding /\ row[s] = "fit"
    /\ boarding' = boarding \cup {s}
    /\ UNCHANGED <<world, row, deleting, hang, settling, credit, mines, deaths, played,
                   faults, beat>>

\* He takes his seat in the ship that is in the world, or one is made of the row
\* as it was read, whatever has become of it. Its lastfired is a number, and names
\* whichever ship has it now; its lock is what it was when it was saved. The
\* disconnects under way keep the object that left the world.
Board(s) ==
    /\ ~settling /\ s \in boarding /\ boarding' = boarding \ {s}
    /\ \/ s \in fleet /\ UNCHANGED <<world, hang, deaths>>
       \/ /\ s \notin fleet
          /\ fleet' = fleet \cup {s} /\ beaten' = beaten \ {s} /\ Born({s})
          /\ \E w \in Bearers(Anyone) : lastfired' = [lastfired EXCEPT ![s] = w]
          /\ \E n \in 0 .. FireTicks : lock' = [lock EXCEPT ![s] = n]
          /\ hang' = [h \in Calls |->
                        IF hang[h].at = "telemetry" /\ hang[h].ship = s
                        THEN [hang[h] EXCEPT !.by = Anyone] ELSE hang[h]]
          /\ UNCHANGED tubes
    /\ UNCHANGED <<row, deleting, settling, credit, mines, played, faults, beat>>

\* The computer takes the lowest number it does not fly, and overwrites its row.
Respawn(s) ==
    /\ ~settling /\ s \in Automatic \ fleet
    /\ row' = [row EXCEPT ![s] = "fit"]
    /\ fleet' = fleet \cup {s} /\ beaten' = beaten \ {s} /\ Born({s})
    /\ lastfired' = [lastfired EXCEPT ![s] = Nobody] /\ lock' = [lock EXCEPT ![s] = 0]
    /\ UNCHANGED <<tubes, deleting, boarding, hang, settling, credit, mines, played, faults,
                   beat>>

\* The clean arm: nothing holds the ship, or the server closed the socket. The row
\* is saved before, or is not.
Leave(s) ==
    /\ Plays(s) /\ s \notin Automatic
    /\ Departs(s, {})
    /\ UNCHANGED <<hulls, beaten, lock, hang, settling, credit, deaths, faults, beat>>

(* -------------------------------- deaths -------------------------------- *)
Announced(v, a) ==
    /\ announced' = [announced EXCEPT ![v] = @ + 1]
    /\ credited' = [credited EXCEPT ![v] = @ \cup ({a} \ {Nobody})]

\* A captain's row is deleted, behind the death; one flown by the computer is not.
Doomed(v) == deleting' = deleting \cup ({v} \ Automatic) /\ UNCHANGED <<row, boarding>>

\* Mutant of Destroyed: the row is deleted, the ship stays in the world.
DestroyedInRowOnly(v, blasted) == Doomed(v) /\ UNCHANGED <<fleet, tubes, lastfired, mines>>

\* The listener of the destroyed event sends for the deletion and evicts the ship.
Destroyed(v, blasted) == Doomed(v) /\ Departs(v, blasted)

\* The row is gone, though its hull may have been boarded again.
Deleted(v) ==
    /\ ~settling /\ v \in deleting /\ deleting' = deleting \ {v}
    /\ row' = [row EXCEPT ![v] = "none"]
    /\ UNCHANGED <<world, boarding, hang, settling, credit, mines, deaths, played, faults,
                   beat>>

\* Mutant of KillerOf: looked up when the turn comes.
KillerOfLive(v) == Attacker(v)

\* Whom the score goes to: whoever it was before any ship was removed.
KillerOf(v) == credit[v]

\* The ships found beaten, in the order of the keys.
Settle ==
    /\ settling
    /\ LET due == beaten \cap fleet
       IN \E i \in DOMAIN Order :
            LET v == Order[i]
            IN /\ v \in due /\ \A j \in 1 .. i - 1 : Order[j] \notin due
               /\ Announced(v, KillerOf(v))
               /\ Destroyed(v, {})
               /\ settling' = (due # {v})
               /\ credit' = [credit EXCEPT ![v] = Nobody]
    /\ UNCHANGED <<finished, beaten, lock, hang, played, faults, beat>>

\* Canon's self-destruct: its neighbours are hit, and nobody is credited.
Scuttle(b) ==
    /\ Plays(b)
    /\ \E hit \in SUBSET (fleet \ {b}) : \E dead \in SUBSET hit :
         /\ beaten' = beaten \cup dead
         /\ Announced(b, Nobody)
         /\ Destroyed(b, hit)
    /\ UNCHANGED <<finished, lock, hang, settling, credit, faults, beat>>

(* ------------------------------- hanging up ----------------------------- *)
\* The client drops the connection of a locked ship: its death is decided now,
\* but telemetry is recorded first.
HangUp(h, s) ==
    /\ Plays(s) /\ s \notin Automatic /\ lock[s] > 0 /\ hang[h].at = "no"
    /\ hang' = [hang EXCEPT ![h] = [at |-> "telemetry", ship |-> s, by |-> Nobody]]
    /\ UNCHANGED <<ships, settling, credit, mines, deaths, faults, beat>>

\* The attacker is looked up on the object, which may have left the map; then
\* the points of its class are asked for.
Accuse(h) ==
    /\ ~settling /\ hang[h].at = "telemetry"
    /\ LET s == hang[h].ship
       IN \E a \in Bearers(IF hang[h].by = Anyone THEN Anyone ELSE lastfired[s]) :
            hang' = [hang EXCEPT ![h] = [at |-> "points", ship |-> s,
                                         by |-> IF a \in fleet \ {s} THEN a ELSE Nobody]]
    /\ UNCHANGED <<ships, settling, credit, mines, deaths, played, faults, beat>>

\* The destroyed event, whatever happened to the hull meanwhile.
Finish(h) ==
    /\ ~settling /\ hang[h].at = "points"
    /\ Announced(hang[h].ship, hang[h].by)
    /\ finished' = [finished EXCEPT ![hang[h].ship] = @ + 1]
    /\ Destroyed(hang[h].ship, {})
    /\ hang' = [hang EXCEPT ![h] = NoHangUp]
    /\ UNCHANGED <<beaten, lock, settling, credit, played, faults, beat>>

(* --------------------------------- mines -------------------------------- *)
Referenced == DOMAIN rows \cup DOMAIN table \cup erasing \cup {l.id : l \in laying}
              \cup UNION {zips[s] : s \in Ships}

Lay(s) ==
    /\ Commands(s)
    /\ MayLay(table, Captain[s])
    /\ Ids \ Referenced # {}
    /\ \E t \in 1 .. Fuse :
         laying' = laying \cup {[id |-> Min(Ids \ Referenced), ship |-> s, by |-> s,
                                  timer |-> t]}
    /\ UNCHANGED <<ships, hang, settling, credit, table, rows, erasing, zips, deaths,
                   faults, beat>>

Row(l) == [timer |-> l.timer, deployedBy |-> Captain[l.ship]]

\* A row as an entry of the table.
Entry(r, by) == [by |-> by, timer |-> r.timer, deployedBy |-> r.deployedBy]

\* The row is created and the mine enters the table. The mine is spent, and the
\* layer locked, even if the table refuses it.
Laid(l) ==
    /\ ~settling
    /\ rows' = With(rows, l.id, Row(l))
    /\ table' = Add(table, l.id, Entry(Row(l), l.by))
    /\ laying' = laying \ {l}
    /\ Locked({l.ship} \cap fleet)
    /\ UNCHANGED <<fleet, hulls, beaten, lastfired, tubes, hang, settling, credit,
                   erasing, zips, deaths, played, faults, beat>>

\* The zipper takes the mines in range: a captain's one by one, each deletion
\* awaited, in whatever order the table has them; a Cybertron's at once, and the
\* deletions go on by themselves.
Zipper(s) ==
    /\ Commands(s)
    /\ \E near \in (SUBSET DOMAIN table) \ {{}} :
         IF s \in Automatic
         THEN /\ table' = Without(table, near) /\ erasing' = erasing \cup near
              /\ UNCHANGED zips
         ELSE /\ zips' = [zips EXCEPT ![s] = near]
              /\ UNCHANGED <<table, erasing>>
    /\ UNCHANGED <<ships, hang, settling, credit, rows, laying, deaths, faults, beat>>

\* A row that is already gone is an error, which ends the command.
Zipped(s) ==
    /\ ~settling
    /\ \E m \in zips[s] :
         IF m \in DOMAIN rows
         THEN /\ rows' = Without(rows, {m}) /\ table' = Without(table, {m})
              /\ zips' = [zips EXCEPT ![s] = @ \ {m}]
         ELSE zips' = [zips EXCEPT ![s] = {}] /\ UNCHANGED <<rows, table>>
    /\ UNCHANGED <<ships, hang, settling, credit, laying, erasing, deaths, played,
                   faults, beat>>

Erased(m) ==
    /\ ~settling /\ m \in erasing
    /\ rows' = Without(rows, {m}) /\ erasing' = erasing \ {m}
    /\ UNCHANGED <<ships, hang, settling, credit, table, laying, zips, deaths, played,
                   faults, beat>>

\* A statement fails: nothing is laid, or nothing deleted.
Fails ==
    /\ ~settling /\ faults < MaxFaults /\ faults' = faults + 1
    /\ \/ \E l \in laying : laying' = laying \ {l} /\ UNCHANGED <<erasing, zips, deleting>>
       \/ \E m \in erasing : erasing' = erasing \ {m} /\ UNCHANGED <<laying, zips, deleting>>
       \/ \E s \in Ships : /\ zips[s] # {} /\ zips' = [zips EXCEPT ![s] = {}]
                           /\ UNCHANGED <<laying, erasing, deleting>>
       \/ \E v \in deleting : deleting' = deleting \ {v} /\ UNCHANGED <<laying, erasing, zips>>
    /\ UNCHANGED <<world, row, boarding, hang, settling, credit, table, rows, deaths, played,
                   beat>>

\* The process dies and boots again: the table is read from the rows, whose
\* timers were never counted down and whose channels are anyone's, and the ships
\* the computer flies from those of their rows that are not beaten.
Restart ==
    /\ ~settling /\ faults < MaxFaults /\ faults' = faults + 1
    /\ fleet' = {s \in Automatic : row[s] = "fit"} /\ Born(fleet')
    /\ beaten' = {} /\ deleting' = {} /\ boarding' = {}
    /\ tubes' = [s \in Ships |-> [k \in Kinds |-> Free]]
    /\ \E f \in [fleet' -> Bearers(Anyone)] :
         lastfired' = [s \in Ships |-> IF s \in fleet' THEN f[s] ELSE Anyone]
    /\ hang' = [h \in Calls |-> NoHangUp]
    /\ table' = [m \in DOMAIN rows |-> Entry(rows[m], Anyone)]
    /\ laying' = {} /\ erasing' = {} /\ zips' = [s \in Ships |-> {}]
    /\ UNCHANGED <<row, lock, settling, credit, rows, played, beat>>

(* --------------------------- the six-second pass ------------------------ *)
Speed(k) == IF k = "torp" THEN TorpSpeed ELSE MisslSpeed

\* A missile at exactly one step's distance does not strike: it comes to rest.
Strikes(s, k) ==
    /\ tubes[s][k].dist > 0
    /\ IF k = "torp" THEN tubes[s][k].dist <= TorpSpeed ELSE tubes[s][k].dist < MisslSpeed

\* Mutant of Flown: what could strike at the next step is not moved.
FlownIfFar(slot, k) ==
    IF slot.dist > Speed(k) THEN [slot EXCEPT !.dist = @ - Speed(k)] ELSE slot

\* A missile at rest keeps its slot.
Flown(slot, k) == IF slot.dist > 0 THEN [slot EXCEPT !.dist = @ - Speed(k)] ELSE slot

\* What is under way in the world, and what of it reaches its target.
Flying == {sk \in fleet \X Kinds : tubes[sk[1]][sk[2]].dist > 0}

Struck(decoyed) == {sk \in Flying \ decoyed : Strikes(sk[1], sk[2])}

\* The mines at zero.
Blasts == GoingOff(TickAll(table))

\* Where the blasts may reach, and whose each is to the ships they hit: the
\* channel is looked up when the mine goes off.
Reached(blasts) == IF blasts = {} THEN {} ELSE fleet

Layers(blasts) == UNION {Bearers(table[m].by) : m \in blasts}

\* Who hit s last: mines go off first, and missiles are walked after torpedoes.
LastHit(s, struck, layer) ==
    IF <<s, "missl">> \in struck THEN tubes[s]["missl"].by
    ELSE IF <<s, "torp">> \in struck THEN tubes[s]["torp"].by
    ELSE IF s \in DOMAIN layer THEN layer[s]
    ELSE lastfired[s]

\* First the mines, then each ship's torpedo and missile, of which a decoy may
\* stop either; then whoever is beaten is settled. Each timer counts the
\* battle lock down once: the movement's six-second timer and this one.
Pass ==
    /\ ~settling
    /\ UNCHANGED <<fleet, hulls, hang, rows, laying, zips, deaths, played, faults>>
    /\ beat' = 1 - beat
    /\ \E decoyed \in SUBSET Flying, mined \in SUBSET Reached(Blasts) :
         LET struck == Struck(decoyed)
         IN \E layer \in [mined -> Layers(Blasts)],
               dead \in SUBSET (mined \cup {sk[1] : sk \in struck}) :
              /\ tubes' = [s \in Ships |-> [k \in Kinds |->
                             IF <<s, k>> \in decoyed \cup struck THEN Free
                             ELSE Flown(tubes[s][k], k)]]
              /\ lastfired' = [s \in Ships |-> LastHit(s, struck, layer)]
              /\ beaten' = beaten \cup dead
              /\ settling' = ((beaten \cup dead) \cap fleet # {})
    /\ table' = Without(TickAll(table), Blasts)
    /\ erasing' = erasing \cup Blasts
    /\ lock' = [s \in Ships |-> IF s \in fleet THEN Max({0, lock[s] - 2}) ELSE lock[s]]
    /\ credit' = [v \in Ships |->
                    IF v \in beaten' \cap fleet /\ lastfired'[v] \in fleet \ {v}
                    THEN lastfired'[v] ELSE Nobody]

Next ==
    \/ \E s \in Ships : \/ Phaser(s) \/ AutoPhaser(s) \/ HyperPhaser(s)
                        \/ Mishap(s) \/ Scuttle(s)
                        \/ Look(s) \/ Board(s) \/ Respawn(s) \/ Leave(s)
                        \/ Saved(s) \/ Deleted(s)
                        \/ Lay(s) \/ Zipper(s) \/ Zipped(s)
                        \/ \E ks \in {{"torp"}, {"missl"}, Kinds} : Shaken(s, ks)
    \/ \E a, v \in Ships : Torpedo(a, v) \/ Missile(a, v)
    \/ \E h \in Calls : \/ Accuse(h) \/ Finish(h)
                        \/ \E s \in Ships : HangUp(h, s)
    \/ \E l \in laying : Laid(l)
    \/ \E m \in Ids : Erased(m)
    \/ Fails \/ Restart
    \/ Pass \/ Settle

\* The timer fires for ever (setInterval), so that passes go on: stated with
\* `beat`, because ENABLED Pass is costly. A pass waits for the settlement of the
\* last one, which therefore runs to its end.
Fairness == []<>(beat = 0) /\ []<>(beat = 1)

Spec == Init /\ [][Next]_vars /\ Fairness

(* ------------------------------- properties ----------------------------- *)
\* A hull that comes into the world is announced destroyed once, by whatever kills
\* it first, and once more for each disconnect that destroyed it: a captain's hanging
\* up does not ask whether his hull has died otherwise meanwhile.
DestroyedOnce == \A s \in Ships : announced[s] <= 1 + finished[s]

\* A kill owed when a settlement begins is put down to the ship whose shot was
\* the last, even if that ship dies in the same settlement and goes first.
PairsScoreBoth ==
    \A v, a \in Ships :
        (settling /\ v \in beaten \cap fleet /\ Attacker(v) = a) ~> a \in credited[v]

\* What is launched comes to an end: torpedoes and missiles strike, are lost or
\* come to rest; mines go off or are swept; beaten ships leave the world.
WhatIsLaunchedEnds ==
    /\ \A s \in Ships, k \in Kinds : []<>(tubes[s][k].dist <= 0)
    /\ \A m \in Ids : []<>(m \notin DOMAIN table)
    /\ \A s \in Ships : []<>(s \notin beaten \cap fleet)

\* The mine table outgrows its capacity only when it is read from the rows at boot.
MineTableIsCapped ==
    [][\/ Cardinality(DOMAIN table') <= Cardinality(DOMAIN table)
       \/ Cardinality(DOMAIN table') <= NumMines
       \/ Restart]_vars

(* Statements of the sources' comments that the code does not keep: TLC finds  *)
(* a counterexample to each, and no run checks them.                           *)

\* "If one does (race with the death-delete that hasn't completed yet), do NOT
\* resurrect it", and "a dead AI hull was already in the map": what was announced
\* destroyed comes back only as a new hull of the computer's. A row says that a hull
\* is beaten only if it was saved between the hit and the pass that settles it, which
\* a hull killed by a projectile never is.
TheDeadStayDead ==
    [][\A s \in Ships : announced[s] > 0 /\ s \notin fleet /\ s \in fleet' => Respawn(s)]_vars

\* "This cap ... binds every caller of laymine": nobody has more mines than
\* USRMINES. Two hulls of one captain, or a Cybertron, lay while a row is created.
LayersAreCapped ==
    \A s \in Ships : CountByDeployer(table, Captain[s]) <= UserMines

\* "Refusing here, before the row is written, keeps that property: the caller's
\* post-create side effects never run": no mine is spent that the table refuses.
RowsAreInTheTable ==
    faults = 0 => DOMAIN rows \subseteq DOMAIN table \cup erasing
=============================================================================
