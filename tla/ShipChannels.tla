---------------------------- MODULE ShipChannels ----------------------------
(***************************************************************************)
(* Channels and kill attribution.                                          *)
(*                                                                         *)
(* Every ship in the live world holds a CHANNEL, a small recycled number   *)
(* handed out by ShipChannelRegistry when ShipStateService enters the ship *)
(* and freed when it leaves.  Channels are how one ship refers to another: *)
(* `lastfired` on a victim, the torpedo and missile tubes of a target, and *)
(* a mine's `channel`.  A kill is credited by resolving such a number back *)
(* to a ship, so a reference that outlives its channel credits a stranger. *)
(*                                                                         *)
(* Data left out: damage, shields, distance and weapon kind.  A "hit" is   *)
(* only what it writes to the attribution fields.                          *)
(***************************************************************************)
EXTENDS Integers, FiniteSets

CONSTANTS
    Ships,      \* every hull, player or AI, keyed "userid:shipno"
    Channels,   \* the numbers the registry may hand out
    Tubes,      \* the incoming torpedo and missile slots of one ship
    Mines,      \* the rows of the galaxy-wide mine table
    NoShip

NoChannel == -1   \* NO_CHANNEL
FreeSlot  == 255  \* CYBMINE_NONE, NO_CHANNEL_SLOT, MINE_SLOT_FREE

\* `acquire` counts from 1 and skips the sentinel 255.
ASSUME ChannelsAssumption == Channels \subseteq Nat \ {0, FreeSlot}
ASSUME NoShipAssumption   == NoShip \notin Ships

VARIABLES
    chan,         \* byKey: the channel a ship holds, NoChannel outside the world
    lastfired,    \* ShipState.lastfired of the object in the map
    lastfiredBy,  \* ShipState.lastfiredBy, in memory only
    tubes,        \* ltorpsChannel and lmisslChannel of the object in the map
    row,          \* the lastfired column of the ship's database row
    mine,         \* the channel column of each mine, FreeSlot when there is none
    \* History, read by the properties only: who really did it.
    author,       \* the ship whose shot wrote lastfired
    via,          \* how the value in lastfired got there
    rowAuthor,    \* the author that went with the saved column
    firer,        \* the ship that launched what a tube holds
    layer         \* the ship that laid a mine

attribution == <<lastfired, lastfiredBy, author, via>>
vars == <<chan, lastfired, lastfiredBy, tubes, row, mine,
          author, via, rowAuthor, firer, layer>>

InGame == {s \in Ships : chan[s] # NoChannel}
Held   == {chan[s] : s \in InGame}
Vias   == {"none", "shot", "mine", "row", "scuttle"}
Nobody == [channel |-> NoChannel, name |-> NoShip]

TypeOK ==
    /\ chan \in [Ships -> Channels \cup {NoChannel}]
    /\ lastfired \in [Ships -> Channels \cup {NoChannel}]
    /\ lastfiredBy \in [Ships -> [channel : Channels \cup {NoChannel},
                                  name : Ships \cup {NoShip}]]
    /\ tubes \in [Ships -> [Tubes -> Channels \cup {FreeSlot}]]
    /\ row \in [Ships -> Channels \cup {NoChannel}]
    /\ mine \in [Mines -> Channels \cup {FreeSlot}]
    /\ author \in [Ships -> Ships \cup {NoShip}]
    /\ via \in [Ships -> Vias]
    /\ rowAuthor \in [Ships -> Ships \cup {NoShip}]
    /\ firer \in [Ships -> [Tubes -> Ships \cup {NoShip}]]
    /\ layer \in [Mines -> Ships \cup {NoShip}]

Init ==
    /\ chan = [s \in Ships |-> NoChannel]
    /\ lastfired = [s \in Ships |-> NoChannel]
    /\ lastfiredBy = [s \in Ships |-> Nobody]
    /\ tubes = [s \in Ships |-> [t \in Tubes |-> FreeSlot]]
    /\ row = [s \in Ships |-> NoChannel]
    /\ mine = [m \in Mines |-> FreeSlot]
    /\ author = [s \in Ships |-> NoShip]
    /\ via = [s \in Ships |-> "none"]
    /\ rowAuthor = [s \in Ships |-> NoShip]
    /\ firer = [s \in Ships |-> [t \in Tubes |-> NoShip]]
    /\ layer = [m \in Mines |-> NoShip]

-----------------------------------------------------------------------------
(* Resolving a channel back to a ship.                                     *)

Holder(c) == IF \E s \in InGame : chan[s] = c
             THEN CHOOSE s \in InGame : chan[s] = c ELSE NoShip

\* The live lookup: never the victim itself.
Attacker(v) ==
    LET s == Holder(lastfired[v]) IN IF s = v THEN NoShip ELSE s

\* Mutant of RecordedName: the name is dropped once the channel is scrubbed.
RecordedNameLostOnScrub(v) ==
    IF lastfiredBy[v].channel = lastfired[v] /\ lastfiredBy[v].channel # chan[v]
    THEN lastfiredBy[v].name ELSE NoShip

\* The fallback by recorded name, trusted only while it still describes lastfired.
RecordedName(v) ==
    LET rec == lastfiredBy[v] IN
    IF /\ rec.name # NoShip
       /\ rec.channel # chan[v]
       /\ \/ rec.channel = lastfired[v]
          \/ lastfired[v] = NoChannel /\ rec.channel \notin Held
    THEN rec.name ELSE NoShip

\* Who a kill of v is put down to.
Credit(v) == IF Attacker(v) # NoShip THEN Attacker(v) ELSE RecordedName(v)

-----------------------------------------------------------------------------
(* Entering and leaving the world.                                         *)

\* Mutant of Acquire: the search does not look at the channels already held.
AcquireIgnoresHeld(s, c) ==
    \/ c = chan[s] /\ c # NoChannel
    \/ chan[s] = NoChannel /\ \A d \in Channels : c <= d

\* acquire: keep the channel already held, else the lowest free one.
Acquire(s, c) ==
    \/ c = chan[s] /\ c # NoChannel
    \/ /\ chan[s] = NoChannel
       /\ c \in Channels \ Held
       /\ \A d \in Channels \ Held : c <= d

\* A ship enters from its row: a fresh object, disarmed, in the map and on a
\* channel.  Two boardings of one hull may overlap, and the later replaces the
\* object in the map.
Enter(s) ==
    \E c \in Channels :
        /\ Acquire(s, c)
        /\ chan' = [chan EXCEPT ![s] = c]
        /\ lastfired' = [lastfired EXCEPT ![s] = row[s]]
        /\ lastfiredBy' = [lastfiredBy EXCEPT ![s] = Nobody]
        /\ tubes' = [tubes EXCEPT ![s] = [t \in Tubes |-> FreeSlot]]
        /\ author' = [author EXCEPT ![s] = rowAuthor[s]]
        /\ via' = [via EXCEPT ![s] = IF row[s] = NoChannel THEN "none" ELSE "row"]
        /\ firer' = [firer EXCEPT ![s] = [t \in Tubes |-> NoShip]]
        /\ UNCHANGED <<row, rowAuthor, mine, layer>>

\* Mutant of ScrubbedLastfired: only the leaver's own field is reset.
ScrubbedLastfiredOwnOnly(s, c) == [lastfired EXCEPT ![s] = NoChannel]

\* lastfired of every ship once channel c is freed.
ScrubbedLastfired(s, c) ==
    [v \in Ships |-> IF v = s \/ lastfired[v] = c THEN NoChannel ELSE lastfired[v]]

\* Mutant of ScrubbedTubes: the leaver's ordnance keeps flying.
ScrubbedTubesOwnOnly(s, c) == [tubes EXCEPT ![s] = [t \in Tubes |-> FreeSlot]]

\* The tubes of every ship once channel c is freed.
ScrubbedTubes(s, c) ==
    [v \in Ships |-> [t \in Tubes |->
        IF v = s \/ tubes[v][t] = c THEN FreeSlot ELSE tubes[v][t]]]

\* leave: out of the map, channel freed, every reference to it scrubbed.  The
\* recorded names of the other ships are kept on purpose.
Leave(s) ==
    /\ s \in InGame
    /\ chan' = [chan EXCEPT ![s] = NoChannel]
    /\ lastfired' = ScrubbedLastfired(s, chan[s])
    /\ tubes' = ScrubbedTubes(s, chan[s])
    /\ lastfiredBy' = [lastfiredBy EXCEPT ![s] = Nobody]
    /\ firer' = [v \in Ships |-> [t \in Tubes |->
                    IF v = s \/ tubes[v][t] = chan[s] THEN NoShip ELSE firer[v][t]]]
    /\ author' = [author EXCEPT ![s] = NoShip]
    /\ via' = [via EXCEPT ![s] = "none"]
    /\ UNCHANGED <<row, rowAuthor, mine, layer>>

\* A flush writes the ship's columns; lastfired is one of them, lastfiredBy is not.
Persist(s) ==
    /\ s \in InGame
    /\ row' = [row EXCEPT ![s] = lastfired[s]]
    /\ rowAuthor' = [rowAuthor EXCEPT ![s] =
                       IF lastfired[s] = NoChannel THEN NoShip ELSE author[s]]
    /\ UNCHANGED <<chan, lastfired, lastfiredBy, tubes, mine, author, via, firer, layer>>

\* The process stops: memory and channels go, rows and mines stay.
Restart ==
    /\ chan' = [s \in Ships |-> NoChannel]
    /\ lastfired' = [s \in Ships |-> NoChannel]
    /\ lastfiredBy' = [s \in Ships |-> Nobody]
    /\ tubes' = [s \in Ships |-> [t \in Tubes |-> FreeSlot]]
    /\ author' = [s \in Ships |-> NoShip]
    /\ via' = [s \in Ships |-> "none"]
    /\ firer' = [s \in Ships |-> [t \in Tubes |-> NoShip]]
    /\ UNCHANGED <<row, rowAuthor, mine, layer>>

-----------------------------------------------------------------------------
(* Weapons.                                                                *)

\* A torpedo or missile is put in a free tube of its target under the firer's
\* channel (torpedo and missile commands, AI launches).
Launch(a, v, t) ==
    /\ a # v /\ {a, v} \subseteq InGame
    /\ tubes[v][t] = FreeSlot
    /\ tubes' = [tubes EXCEPT ![v][t] = chan[a]]
    /\ firer' = [firer EXCEPT ![v][t] = a]
    /\ UNCHANGED <<chan, attribution, row, rowAuthor, mine, layer>>

\* A projectile is lost: decoyed, out of range, or its carrier out of the game.
Fizzle(v, t) ==
    /\ v \in InGame /\ tubes[v][t] # FreeSlot
    /\ tubes' = [tubes EXCEPT ![v][t] = FreeSlot]
    /\ firer' = [firer EXCEPT ![v][t] = NoShip]
    /\ UNCHANGED <<chan, attribution, row, rowAuthor, mine, layer>>

\* What damage by the holder of channel c records on v.
Recorded(v, c) ==
    LET s == Holder(c) IN
    IF s \in {NoShip, v} THEN Nobody ELSE [channel |-> c, name |-> s]

\* A projectile strikes: the tube's channel becomes lastfired and the slot is freed.
Impact(v, t) ==
    /\ v \in InGame /\ tubes[v][t] # FreeSlot
    /\ lastfired' = [lastfired EXCEPT ![v] = tubes[v][t]]
    /\ lastfiredBy' = [lastfiredBy EXCEPT ![v] = Recorded(v, tubes[v][t])]
    /\ author' = [author EXCEPT ![v] = firer[v][t]]
    /\ via' = [via EXCEPT ![v] = "shot"]
    /\ tubes' = [tubes EXCEPT ![v][t] = FreeSlot]
    /\ firer' = [firer EXCEPT ![v][t] = NoShip]
    /\ UNCHANGED <<chan, row, rowAuthor, mine, layer>>

\* A phaser lands at once.
PhaserHit(a, v) ==
    /\ a # v /\ {a, v} \subseteq InGame
    /\ lastfired' = [lastfired EXCEPT ![v] = chan[a]]
    /\ lastfiredBy' = [lastfiredBy EXCEPT ![v] = [channel |-> chan[a], name |-> a]]
    /\ author' = [author EXCEPT ![v] = a]
    /\ via' = [via EXCEPT ![v] = "shot"]
    /\ UNCHANGED <<chan, tubes, firer, row, rowAuthor, mine, layer>>

\* A planet's ion cannons credit nobody, and clear the name as well.
IonHit(v) ==
    /\ v \in InGame
    /\ lastfired' = [lastfired EXCEPT ![v] = NoChannel]
    /\ lastfiredBy' = [lastfiredBy EXCEPT ![v] = Nobody]
    /\ author' = [author EXCEPT ![v] = NoShip]
    /\ via' = [via EXCEPT ![v] = "none"]
    /\ UNCHANGED <<chan, tubes, firer, row, rowAuthor, mine, layer>>

\* A ship's self-destruct catches its neighbours: lastfired is cleared.
ScuttleBlast(b, hit) ==
    /\ b \in InGame /\ hit # {} /\ hit \subseteq InGame \ {b}
    /\ lastfired' = [v \in Ships |-> IF v \in hit THEN NoChannel ELSE lastfired[v]]
    /\ author' = [v \in Ships |-> IF v \in hit THEN NoShip ELSE author[v]]
    /\ via' = [v \in Ships |-> IF v \in hit THEN "scuttle" ELSE via[v]]
    /\ UNCHANGED <<chan, lastfiredBy, tubes, firer, row, rowAuthor, mine, layer>>

LayMine(a, m) ==
    /\ a \in InGame /\ mine[m] = FreeSlot
    /\ mine' = [mine EXCEPT ![m] = chan[a]]
    /\ layer' = [layer EXCEPT ![m] = a]
    /\ UNCHANGED <<chan, attribution, tubes, firer, row, rowAuthor>>

\* A mine's timer runs out: every ship in its blast is hit under the mine's
\* stored channel, whoever holds that channel now, and the mine is gone.
Detonate(m, hit) ==
    /\ mine[m] # FreeSlot /\ hit \subseteq InGame
    /\ lastfired' = [v \in Ships |-> IF v \in hit THEN mine[m] ELSE lastfired[v]]
    /\ lastfiredBy' = [v \in Ships |->
          IF v \notin hit THEN lastfiredBy[v]
          ELSE IF Holder(mine[m]) = NoShip THEN Nobody
          ELSE [channel |-> mine[m], name |-> Holder(mine[m])]]
    /\ author' = [v \in Ships |-> IF v \in hit THEN layer[m] ELSE author[v]]
    /\ via' = [v \in Ships |-> IF v \in hit THEN "mine" ELSE via[v]]
    /\ mine' = [mine EXCEPT ![m] = FreeSlot]
    /\ layer' = [layer EXCEPT ![m] = NoShip]
    /\ UNCHANGED <<chan, tubes, firer, row, rowAuthor>>

Next ==
    \/ Restart
    \/ \E s \in Ships : Enter(s) \/ Leave(s) \/ Persist(s) \/ IonHit(s)
    \/ \E a, v \in Ships : PhaserHit(a, v)
    \/ \E a, v \in Ships, t \in Tubes : Launch(a, v, t)
    \/ \E v \in Ships, t \in Tubes : Fizzle(v, t) \/ Impact(v, t)
    \/ \E b \in Ships, hit \in SUBSET Ships : ScuttleBlast(b, hit)
    \/ \E a \in Ships, m \in Mines : LayMine(a, m)
    \/ \E m \in Mines, hit \in SUBSET Ships : Detonate(m, hit)

Spec == Init /\ [][Next]_vars

-----------------------------------------------------------------------------
(* Properties.                                                             *)

\* No two ships in the world share a channel, and none holds the empty-slot
\* sentinel: a channel names one ship (ShipChannelRegistry).
ChannelsUnique ==
    /\ \A s, u \in InGame : chan[s] = chan[u] => s = u
    /\ FreeSlot \notin Held

\* Whatever a tube holds was put there by the ship that holds the tube's
\* channel now, however often channels were freed and handed out again.
TubesNameTheirFirer ==
    \A v \in InGame, t \in Tubes :
        tubes[v][t] # FreeSlot =>
            /\ firer[v][t] \in InGame \ {v}
            /\ chan[firer[v][t]] = tubes[v][t]

\* A ship last hit by a shot is credited to the ship that fired it or to
\* nobody, never to a ship that was given the channel later.
ShotsCreditTheShooter ==
    \A v \in InGame : via[v] = "shot" => Credit(v) \in {author[v], NoShip}

\* When the shooter leaves the world its name stays on the victim: leaving frees
\* the channel but takes no credit with it.
LogoffKeepsTheName ==
    [][\A v \in Ships :
          (/\ v \in InGame /\ v \in InGame'
           /\ via[v] = "shot" /\ Credit(v) = author[v]
           /\ author[v] \in InGame /\ author[v] \notin InGame')
          => (Credit(v) = author[v])']_vars

-----------------------------------------------------------------------------
(* Statements of the sources' comments that the code does not keep: TLC finds *)
(* a counterexample to each, and no run checks them.                          *)

\* "a stale lastfired left pointing at a freed one would silently transfer an
\* old grudge to whoever came in next": a value restored from the database
\* resolves to the ship that earned it or to nobody.
NoInheritedGrudge ==
    \A v \in InGame : via[v] = "row" => Attacker(v) \in {author[v], NoShip}

\* "a scuttle that finishes someone off scores for no one": a ship last hit by a
\* self-destruct blast is put down to nobody.
ScuttleNamesNobody ==
    \A v \in InGame : via[v] = "scuttle" => Credit(v) = NoShip
=============================================================================
