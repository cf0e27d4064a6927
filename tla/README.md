# Galactic Empire Reborn in TLA+

A verification project for the game's backend: TLA+ modules of its components, TLC
runs that check them on small instances, and TLAPS proofs that hold for every instance.
All paths are relative to the repository; `B/` stands for `src/backend/src/`.

## 1. The system

A single Node process (NestJS, Socket.IO, Prisma over PostgreSQL) holds the living
galaxy in memory. Captains connect by socket, board one of their ships ("hulls") and
type commands. Timers advance the world: every second (ship update, flush), every six
(physics, combat), and at a computed cadence for planets; a cron job runs at midnight.
JavaScript runs one callback at a time, so the atomic step of the system is *the code
between two awaits*. Every hazard below comes from that: what was read before an await
is used after it, statements go out on pooled connections nobody orders, and timers do
not wait for what they started.

### Inventory

| Component | State it keeps | Operations | What makes it correct |
|---|---|---|---|
| Ship channels `B/game/ship/ship-channel.registry.ts` | channel <-> ship | acquire, release, resolve | a channel names one ship; no reference to it outlives it |
| Kill attribution `B/game/combat/kill-resolution.ts` | `lastfired`, `lastfiredBy` on the victim | hits, ion cannon, scuttle, scrub at leave | credit goes to whoever did it or to nobody |
| Connected ships `B/gateway/connected-ships.registry.ts` | hull -> socket, socket -> hull | upsert, remove | the maps are inverse; one socket a hull (issue #49) |
| Connection lifecycle `B/gateway/connection-lifecycle.service.ts` | `client.data`, sockets per account | onConnect, presentShipEntry, boardShipAndWelcome, exit, re-entry, onDisconnect | latest session wins; a stale one touches nothing |
| Gateway `B/gateway/game.gateway.ts` | command chain per socket | commands, prompt replies, recoverAfterDeath | one command at a time; nobody left without a way to a ship |
| Ship-destroyed handler `B/gateway/ship-destroyed.service.ts` | - | deletes the row, evicts the hull, recovers the captain | a dead hull stays dead |
| Ship store `B/game/ship/ship-state.service.ts` | the map of live ships, dirty flags | hydrate, board, mutate, flush, unboard, abandon, flushAndUnload | no mutation lost; never overwrites what is live |
| Socket cap, presence `B/gateway/socket-cap.ts`, `B/public/presence.service.ts` | lists and sets per account | arrive, depart, evict | caps hold; online means connected |
| Combat tick `B/game/combat/` | tubes on victims, mines | launch, fly, hit, kill, sweep mines | each kill once; ordnance belongs to its firer |
| Ticks `B/game/tick/` | timers, ordered handlers | subscribe, fire | canon's order; no tick before boot is complete |
| Ship and physics ticks `B/game/ship/`, `B/game/physics/` | positions, energy, shields | move, collide, cloak, repair | energy never created; bounds of the universe |
| Planets `B/game/planet/` | planets, one promise-chain mutex each | claim, trade, attack, produce, abandon | goods and cash conserved; updates serialised |
| Midnight `B/game/midnight/` | ledger rows, advisory lock | run, catch up | once a day, whole or not at all |
| Cybertrons, droids `B/game/cybertron/`, `B/game/droid/`, `B/game/ai/` | AI hulls and claims | spawn, choose, fight, respawn | population bounds; claims follow their target |
| Teams `B/game/team/` | team rows, treasury | create, join, kick, deposit | one team a captain; treasury conserved |
| Onboarding, auth `B/game/onboarding/`, `B/auth/` | users, first hull | register, finalize | one starter hull |
| Commands `B/game/commands/` | - | some sixty verbs | guards and costs agree |
| Deploy notice `B/gateway/deploy-notice.service.ts` | countdown | announce, cancel, shut down | owed kills settle |
| Mail, public API, health, reports, invariants, galaxy, frontend, wire types, C reference | rows, read models | reading, rendering | outside the models |

How they interact: the gateway calls the lifecycle service, which calls the ship store
and the registry; commands mutate the store; the ticks walk it; combat emits a destroyed
event, which the gateway's handler takes synchronously to delete the row, evict the hull
and send the captain back to ship entry; a sweep writes the store to PostgreSQL.

The hazards, each at its line, are in `PROJECT.json`.

## 2. The modules

### ShipChannels (with MCShipChannels, ShipChannels_proofs)

Channels are recycled lowest-first, and everything that remembers a ship remembers its
channel. State: `chan` (the registry), `lastfired`, `lastfiredBy`, `tubes` (both kinds
of projectile slot: the scrub treats them alike), `row` (the saved column), `mine`. Five history variables
record who really did what, and no guard reads them. Actions: `Enter` and `Leave` (ShipStateService), `Persist` (flush),
`Restart`, `Launch`, `Fizzle`, `Impact`, `PhaserHit`, `IonHit`, `ScuttleBlast`,
`LayMine`, `Detonate`. Left out: damage, distance, status. A kill's credit is the
operator `Credit`, the live lookup and then the recorded name.

### ConnectedShips

The registry as a value and `upsert`, `remove` as functions on it, so that Lifecycle
holds one in a variable.

### Lifecycle (with MCLifecycle, Lifecycle_proofs)

A captain's session. Handlers in flight are records in `lookups`, `boardings` and
`departures`, each with the await it stands at; `writes` are statements nobody awaits,
and land in any order. An action is the code from one await to the next:

* ship entry: `Connect`, `Queried`, `Reply`, `HullRead`;
* boarding: `BoardWarm`, `Refused`, `Hydrating`, `Boarded`, which end in `Seat`
  (upsert, and the displaced socket's close, which runs inside the same step);
* leaving: `Exit`, `AbandonShip`, `Disconnect`, then `Telemetry`, `Persisted`,
  `Unloaded`, or `HangupKill`;
* death: `Death`, `RecoverNext`; database: `Landed`.

Row damage is abstracted to `died`: a hull destroyed may or may not have had its damage
saved, so a boarding of it may be refused or not. `recovering` holds the users whose room recoverAfterDeath
still walks; if two hulls of one captain die together, the two walks are taken one socket
at a time. A command still queued when its socket closes is left out, and so are
onboarding, AI ships, failures of the database and restarts. The self-close after a failed boarding
(`NO_SHIP`) cannot be reached: no await separates the entry into the map from the test.

### Admission (with MCSmaller, Smaller_proofs)

`onConnect` up to ship entry, with its two awaits, and the part of `onDisconnect` that
takes it back: presence, the per-account socket list and cap, the seat cap.

`Lists` holds the one list operation that Admission, Cybertrons and SecondTick share,
JavaScript's `filter`, as a recursive function that can be reasoned about.

### ShipStore (with MCShipStore, ShipStore_proofs)

The ship table's write-back cache. A hull's contents are a version number. `issued[h]`
is the queue of update statements on h's row not answered yet; each knows whether the
object it was taken from is still in the map (`live`), because a failed save marks that object
dirty, whatever the map holds by then. `flushed[w]` is the position of sweep `w` in the map; `GoesOn` is the
loop of `flush` up to its next await, to the foremost dirty hull ahead (`before` is the
order in which the hulls came into the map). `entries` are boardings in flight. Actions:
`Read`, `Warm`, `Hydrate`, `Board`, `Mutate`, `Sweep`, `Unload`, `Answered`, `Crash`.
Statements on one row go out on a pool of connections and are answered in any order. Two
histories, which no guard reads, keep account of it: `overtaken[h]` is how many of the
statements outstanding on h's row, its first, a later one was done before; `setback` holds the
hulls whose row was last written by such a statement. The status column, written outside
the sweep, is Lifecycle's.

### Planets (with MCPlanets, Planets_proofs)

`PlanetStateService` and the commands that go through it. A planet is a record in
memory (`live`) and one in its row (`row`); `queue[p]` is its promise chain, of which the
head holds the mutex. The economy's tick (`Grown`) makes goods and turns gold into the
planet's cash, which decays. A command or a sweep is a record in `doing` that says what it waits
for: the captain's purse, its turn, the debit, the mail, the counter, the write, the
credit. Each action is the code from one await to the next together with the answer that
resumes it, and every answer may be an error. Actions: `Ask`, `Purse`, `Turn` (which
runs `Buy`, `Sell`, `Withdraw`, `Down`, `Up`, `Claim`, `Abandon`, `Manage`, `Attack` or
`Produce`, as the command is), `Debited`, `Mailed`, `Counted`, `Written`, `Credited`,
`Give`, `Spy`, `Advance`, `Leave`, `Board`. One kind of goods stands for fourteen, at the
price of one credit, so that goods and money add up. Left out: the debug routes and
the reload after midnight.

### Standings, Midnight (with MCMidnight, Midnight_proofs)

`Standings` is what the nightly pass promises: everybody's worth, place and team are
published at once, reckoned from one picture of the galaxy. `Midnight` is how it is done:
who calls `run()` (the boot's self-heal, cron, the operator), its advisory lock, its
transaction of phases, its ledger, and the transactions of the game it meets (kill
scores, team joins and leaves). PostgreSQL at READ COMMITTED is modelled as external: a
statement reads what is committed and its own writes, a written row is locked until the
end, a cycle of waits aborts one of its members. `Midnight` implements `Standings` under
the mapping `Published` (the picture the pass took, the rows it committed): the property
`Standings` of the run, the theorem `ImplementsStandings` for every instance.

### Teams (with MCTeams, Teams_proofs)

The `tea` commands with their awaits: create, join, leave, kick, newname; the row lock
of a join; the night that marks empty teams removed, and the refresh of the team each
hull remembers, with its own await. A captain's two calls may overlap (the menu's socket
and a game socket); `crossed` records for whom they did.

### Cybertrons (with MCSmaller, Smaller_proofs)

Whom a computer-flown hull hunts. A claim is the prey's channel and key; channels are
recycled lowest-first. Each second every hull in the map counts down and those at zero
act, at most `MaxPerTick` of them; `due` holds those still to act and nothing runs
meanwhile. `Coasts`, `HoldsOn` and `Hunts` are the three ways an activation goes. A fight
comes before the choice of a pilot: the hull may break off, which drops its claim, and those it
provoked turn on their attacker; the claims on a pilot are counted after that, so that a
hull may take back at once the pilot it has just let go. Sight
(cloak, neutral zone) abstracts the geometry; the spawner, purses, taunts and the choice
of weapon are left out.

### SecondTick (with MCSmaller, Smaller_proofs)

The one-second timer's three walks of the fleet, each of which serves a third of it in
its own way: movement by channel, self-destruct by position, the overspeed roll by a
counter that runs on from ship to ship.

### Flight (with MCFlight, Smaller_proofs)

One ship under way: helm, hyperspace, shields, cloak, overspeed, energy, the repair crew
and the battle lock, as commands, the movement (`Physics`), the roll (`Overspeed`), the
six-second pass (`SixSeconds`) and enemy fire change them. Speeds are in units of which
`Warp` make warp 1. Energy and damage are abstracted into what they permit or refuse.

### Mines, Combat (with MCCombat, Combat_proofs)

`Mines` is the mine table as a value, `Combat` a battle: shots (`Phaser`, `AutoPhaser`,
`HyperPhaser`, `Torpedo`, `Missile`), what shakes pursuers off (`Shaken`), crashes (`Mishap`), mines whose rows are created and
deleted by statements partly not awaited (`Lay`, `Laid`, `Zipper`, `Zipped`, `Erased`),
the six-second pass (`Pass`: mines, then projectiles) and its settlement of the beaten,
one ship after another (`Settle`), canon's self-destruct (`Scuttle`), the disconnect under
battle lock with its two awaits (`HangUp`, `Accuse`, `Finish`), failing statements and the
process's death. Disconnects are records in `hang`: any number of them, one at a time in
the run.

The hull's row outlives its hull or the other way round. `row[s]` says what the row says of
the damage, or that there is none; `Saved` is a sweep's write of it. A captain's death issues
the deletion of his row, which nobody awaits (`deleting`): it lands some time later
(`Deleted`) or fails and is only logged (`Fails`). A boarding reads the row (`Look`) and puts the
hull into the world if it was fit then (`Board`), whatever happened in between. A computer's row is
never deleted: its hull comes back by `Respawn`, which writes a new one, or at `Restart`,
which loads the rows that do not say "beaten". A hull has one boarding at a time (Lifecycle
has two that cross), and no captain gets a new ship.

Damage is abstracted to "beaten or not", so any hit may beat; aim,
range, charge and shields to "hit or not". Of the three slots of each kind one is kept. A
channel is the ship that holds it, and anyone's once that ship left (ShipChannels checks
the channels themselves). Loot is left out: a hull is looted as often as it is announced.

## 3. What the runs show

| Run | Instance and bounds | Shows |
|---|---|---|
| `channels` | 3 ships, 3 channels, 1 tube each, 1 mine, at most 2 references alive | channels are unique, tubes name their firer, shots are credited to the shooter or to nobody, and a log-off does not take the credit along |
| `lifecycle` | 1 captain, 2 hulls, 2 sockets, states with up to 2 activities in flight are expanded (so up to 3 or more are reached and checked) | registry inverse, registered sockets fly what they are registered for, one pilot a hull, a dormant hull has an unboard running, only the registered socket makes it dormant |
| `smaller` | Admission: 2 accounts with 3 and 2 sockets, cap 2, 1 seat; Cybertrons: 3 hulls, 2 pilots, 1 claim a pilot, 2 activations a tick, a hull active each second | the socket cap holds through every close, and no live socket escapes the list; nobody is steered at who is not the very ship claimed; the limit on claims holds, through break-offs and provocation |
| `store` | 2 hulls, of which one changes and leaves and the other only keeps the sweeps busy; 2 overlapping sweeps, 1 boarding at a time, errors, crashes, answers in any order | clean hulls are saved or on their way, and what stays in the world is saved in the end, unless a statement that was overtaken wrote over it |
| `planets` | 1 captain, 1 hull, 2 wild colonies, a cap of 1, 1 sweep, failing writes, leaving in mid-command | a row follows the planet unless its write failed; the captain's count covers his planets; nothing is made of nothing; every command queued on a planet is answered |
| `planets_claims` | 2 hulls of one account, 2 wild colonies, a cap of 1, 1 sweep | claims made at once on several planets: only conquest passes the cap |
| `planets_trade` | 2 hulls of one account, 1 owned colony and the hub | two purchases, deposits or withdrawals at once never overdraw the account or mint goods or cash |
| `midnight` | 2 captains, 1 team, 1 planet, 2 kills and 1 join in flight, 1 midnight, 2 plays, 1 fault | `Midnight` implements `Standings`; one report a planet and night; a report has its ledger entry; the advisory lock is given back |
| `teams` | 3 captains, 2 calls in flight, 1 team at a time, 2 members, 5 commands, 1 night | a team never exceeds its limit, nor the teams theirs; a hull remembers its captain's team unless two calls for him overlapped |
| `smaller_live` | SecondTick: 3 ships, a stride of 3, a countdown of 2; Cybertrons: 3 hulls, 1 pilot, 1 activation a tick, a hull due every other second, so that more are due than the cap lets act | movement is even through entries and departures, a countdown never stands still, and the roll for overspeed reaches every ship of a fleet that is no multiple of three; claims on the dead lapse, for the hulls whose place in the map the cap always reaches |
| `flight` | warp 1 is 2 units, rated warp 3, steps of 1 unit | a ship is in hyperspace exactly at warp, without shields or cloak, and still in orbit; a stopped ship comes to rest |
| `combat` | a captain and a Cybertron, 2 rows of mines, 1 place in the table, range 3, 2 commands or hang-ups, 1 fault | a hull is announced destroyed once for each time it comes into the world, and once more for each hang-up; both of a pair that kill each other are scored; the table outgrows its capacity only at a boot; what is launched ends |

The bounds are small because each failure the properties speak of needs few parties: a
leaver, a newcomer who gets its channel and a victim; a session and its successor, with
a second hull to switch to; a sweep and the one that overtakes it; two commands that
meet on one account or one planet; two layers and the last place in the table; two ships
that kill each other. Symmetric constants are reduced only where no liveness is checked.
`smaller` and `smaller_live` explore two components each, which share no variable: a
behaviour is one of the component that `part` names (`MCSmaller`). In `store` the sweeps
need a second hull to be delayed by, but not that it changes; `CleanHullsAreSaved` is about any
number of hulls that all do.
Sockets and call records are recycled, so a bound on them bounds those alive at once, not
the length of a history. `lifecycle`, `midnight` and `teams` do not check deadlock: their
bounded worlds end (no hull and no fresh socket, no calendar day, no command left).

### Fairness

* ShipStore: `WF` on answers (the database answers, or the driver reports an error) and
  on each sweep (`setInterval` goes on), `SF` on a successful answer: a save tried again
  and again is not refused for ever. `SF` that a sweep ends stands for the bound on sweeps:
  the source starts another at every tick, whereas the model's few must end for one to
  start, which excludes only hulls that come back to the end of the map in front of a
  sweep for ever. Nothing is assumed of captains.
* Planets: `WF` on the resumption of every command and sweep.
* Midnight: `WF` on the database's answers; nothing makes a pass begin or succeed.
* Cybertrons: `WF` on the tick and on the activations of a tick, which run to the end of
  the synchronous loop; `SF` on each hull's look at its claim: the dice do not let a hull
  that is activated again and again coast for ever. Nothing is assumed of the cap on
  activations, which is spent in the order of the map. `ClaimsLapse` speaks of the hulls in its
  first `MaxPerTick * MinTick` places (`Prompt`): those ahead of them act at most once each
  in `MinTick` seconds, so there is room for them whatever the others do. Hulls further
  back may starve (`EveryClaimLapses` is false).
* SecondTick, Flight: `WF` on the timer's tick. Combat: passes go on (`Fairness` says so of
  the variable that counts them modulo 2, since `ENABLED Pass` is costly to evaluate).

### Statements the code does not keep

Each is a definition of its module, no run checks it, and TLC finds a counterexample
when it is made an invariant (or property) of the module's configuration.

| Definition | What happens |
|---|---|
| `ShipChannels!NoInheritedGrudge` | `lastfired` is restored from its row, and names whoever holds that channel now |
| `ShipChannels!ScuttleNamesNobody` | a scuttle's blast clears the channel but not the name recorded by an earlier hit |
| `Lifecycle!DeadHullStaysDead` | a boarding that read the row before the hull died puts the dead hull into the world |
| `Lifecycle!AbandonedHullIsNotBoarded` | the abandoned mark is not awaited: ship entry boards the same hull again |
| `Lifecycle!LiveSessionKeepsItsShip` | a socket reconnects while its predecessor's unboard waits, and loses its hull to it |
| `Admission!OnlineMeansConnected` | a socket that closes during its own admission is counted online afterwards |
| `ShipStore!SavedStateIsCurrent` | a mutation during the final save is evicted with the hull |
| `ShipStore!LiveStateMovesOn` | of two boardings under way, the later replaces the live object of the earlier |
| `ShipStore!MutationIsNotLost` | two sweeps' statements on one row cross, and the older is done last |
| `Cybertrons!EveryClaimLapses` | hulls in front of the map take every activation, and those behind keep claims on the dead |
| `Flight!RepairRestoresEngines` | a finished repair restores the top speed only of hulls loaded at boot, the computer's |
| `Combat!LayersAreCapped` | two hulls of one captain, or a Cybertron twice, pass `USRMINES` while a row is created |
| `Combat!TheDeadStayDead` | a row read before the death, or one whose deletion is late or failed, is boarded again; a computer's hull killed by a projectile was never saved as beaten, and is loaded at the next boot |
| `Combat!RowsAreInTheTable` | the mine is spent and its row written, and the table refuses it |

Also seen while modelling, and allowed for by the properties: the victim's score is read
and written by two statements, so an award committed in between is lost (Midnight); a
kick clears the membership of a captain who has joined another team meanwhile (Teams); a
fleet that is a multiple of three starves the overspeed roll (SecondTick, in
`RolledUnlessMultiple`); a shield left `SHIELDDM` with no charge below zero is never
repaired, and `shi dn` mends it (Flight); the battle lock counts down twice in six seconds
(Combat); a missile that comes to exactly one step's distance never strikes and keeps its
slot (Combat, canon's rule); a hull that dies while its hang-up waits is announced again
when the hang-up goes on, though it left the world meanwhile (Combat, the exception in
`DestroyedOnce`).

## 4. What is proved

`ShipChannels_proofs`, for any sets of ships, channels, tubes and mines:
`TypeCorrect`, `ChannelsStayUnique`, `OrdnanceStaysWithItsFirer`, `CreditIsEarned`,
`LogoffTakesNoCredit`. The invariant `IInv` adds to the three safety properties what they
rest on: a reference a shot left in `lastfired` names its author's channel while the
author holds it, and a recorded name is the author's. Leaving is the delicate step: the
freed channel must be scrubbed everywhere for the next `Enter` to be safe. For the credit
to survive the scrub, the record must also hold the channel it was made under as long as
the reference resolves (`RecordIsWhole`): once freed it is held by nobody, which is
when `RecordedName` trusts it.

`Lifecycle_proofs`, for any users, hulls and sockets and any number of handlers in
flight: `TypeCorrect`, `RegistryStaysBijective`, `RegistryFollowsTheSocket`,
`OnePilotAtATime`, `DormancyEnds`, `OnlyThePilotUnboards`. Lemmas give what `Upserted` and
`Removed` do to an inverse pair; each step then preserves the conjunction, because every
action changes the registry only through `Seat`, `Detached` and `Removed`.

`ShipStore_proofs`, for any hulls, any number of overlapping sweeps, any faults, and
statements answered in any order: `TypeCorrect` and `CleanHullsAreSaved`. The invariant
`Coming` is `CleanIsSaved` with one addition, that the last statement outstanding on a
clean hull, unless it is one that was overtaken, belongs to the object in the map: without
it a failure of that statement would not mark the hull dirty. `Told` bounds the statements
overtaken by those outstanding. What an answer out of turn does to both is the lemma
`OvertakesFacts`.

`Smaller_proofs` holds the four components whose proofs are short, and extends them all.
They share no variable and no name: the specifications of the last three are `DoorSpec`
(Admission), `SecondSpec` (SecondTick) and `HuntSpec` (Cybertrons), so that a theorem says
by its specification which of them it is about.

* Flight, for any warp threshold, rating, acceleration and bounds: `TypeCorrect` and
  `HyperspaceStaysBare`, by `IInv == TypeOK /\ HyperspaceIsBare`. They are inductive only
  together: a speed is typed by the order it approaches, and an order by the rating, which
  products of constants bound (the lemmas `OrdersAreBounded` and `DividedIsBounded` do the
  non-linear arithmetic apart).
* Admission, for any accounts, sockets and caps: `DoorTypeCorrect`, `TheCapSeesThemAll`
  and `SocketsStayCapped`. `DoorInv` is the types, which bound each list by the cap, with
  `LiveSocketsAreListed`, that no live socket is missing from its account's list. The
  cap itself then follows because a list has no more members than places
  (`MembersBound`); what `capSocketsForUser` keeps and evicts is the lemma
  `CappedFacts`. That an evicted socket is closed in the same step is what keeps the
  lists complete.
* SecondTick, for any fleet and stride: `SecondTypeCorrect` and `TheCadenceIsEven`. The
  invariant `Rhythm` says where the clock stands: of a ship that has moved, the third it belongs to (its channel
  modulo the stride) and the seconds since determine `clicker`. It needs `Registered`,
  that who is in the map has a channel, and channels need that there is always one free
  (`AChannelIsFree`, by the pigeonhole principle).
* Cybertrons, for any hulls and pilots, any numbers and ranges of the dice:
  `HuntTypeCorrect`, `SteeringIsByTheClaim`, `TheGangUpIsLimited` and
  `TheLostAreNotClaimed`, by `HuntInv`:
  types, `LostLeft` (who is lost has no channel), `DueInGame` (who still acts in this tick
  is in the game, since nothing else runs meanwhile) and `SteersAtItsClaim`. The lemma
  `HuntsFacts` says what a look at the claim may come to; two pilots never share a claim,
  for it names the key as well as the channel. The hulls that claim a pilot after a scan
  are the one that scans and those the count found, fewer than `NoClaim`: the count is
  taken after the fight, and between it and the claim nothing runs. `TheLostAreNotClaimed` is the safety half of
  `ClaimsLapse`.

`Combat_proofs`, for any ships and captains, mines, fuses and speeds: `TypeCorrect`,
`HullsDieOnce`, `TableStaysCapped`, `KillsOwedAreScored`. `IInv` adds to the types `Tally`, which counts the
announcements of a hull against where it is (none since it came into the world while it is
there; afterwards one, and one more for each disconnect that has destroyed it since), and
that the tables are finite. In a
settlement each of the beaten is announced in turn and has left the world before the next
one is looked at; that is what makes the count go up by one. That `Add` tests
the capacity once more, after the row is created, is all that `TableStaysCapped` needs,
and without it the theorem is false (the mutant `AddUnasked`). `KillsOwedAreScored` is
`PairsScoreBoth` but for its liveness: while deaths are settled, the killer noted for a
ship is the one its last hit names as long as that one is in the world (`Noted`); nothing
else runs meanwhile, and each of the ships due keeps its turn and its killer, or is put
down to him (`TurnsAreKept`).

`Midnight_proofs`, for any captains, teams and planets and any number of kills and joins
in flight: `TypeCorrect`, `PassesAreAlone`, `ReportsAreUnique`, `ReportsFollowTheLedger`, and
`ImplementsStandings`, the refinement, step by step. `IInv` says that the one pass at
work is the one holding the advisory lock, that it holds every row it has written
(`OnePass`), that such a row has not changed since it was copied (`DraftIsCurrent`,
`TeamsAreCurrent`), and how far each phase has brought the draft (`PhasesInOrder`). Every
step of the pass but its reading and its commit, and every crash, is then a stutter of
`Standings`; the commit is its `Publish`; a kill or a join is its `Play`. A team's points
are a sum over captains; that it is a number is the lemma `SumIsNat`, as in Planets.

`Planets_proofs`, for any hulls, accounts, planets and verbs: `Invariance` and from it
`TypeCorrect`, `NothingIsOverdrawn`, `NothingIsMade`, `RowsFollow`, `CountersFollow` and
`TheCapHolds`. `IInv` is: the chains (`Mutex`: who is in the chain of a planet waits for
that planet, is there once, and is its head once past the wait); which command may be
where (`Kinds`); what was tested in the critical section still holds at its end
(`StillTrue`: the stock a debit was sent for, the planet a statement carries); a planet
that differs from its row is being written or failed to be (`RowFollows`); the counter
covers what is owned, being abandoned or about to be counted (`CountersCover`); and the
two properties themselves. Three facts are shown of each step: that it keeps the chains,
types and rows (the lemmas `...Fine`), that it makes nothing (`...Honest`), and that it
keeps the counters (`...Kept`). What everybody has is a sum over planets,
hulls and accounts. `SumFunctionOnSet` is a recursive function over the subsets of a
finite set; that it exists, is unique, and changes by the difference when one summand
changes (`SumChanges`) is shown by the smallest counterexample (`WFMin`), which needs no
induction theorem.

`Teams_proofs`, for any captains, calls, names and bounds: `Invariance` and from it
`TypeCorrect`, `TeamsStayCapped` and `HullsAreTold`. Codes are given out in order
(`InOrder`) and captains are in teams that exist (`Enrolled`), so a new team is empty;
who enters holds the team's row and its count left room (`Rooms`), so the last place is
taken once. For a captain not crossed at most one call has a hand in his team; until the
write his hull and his row agree, and between the write and the answer the row is what
the call will tell the hull (`Truth`); what the nightly refresh read is still his team
when it is assigned (`Remembered`).

The assumptions are the named ASSUMEs of the modules (sentinels are not members, caps are
naturals, captains, ships, hulls, calls and planets are finitely many). No theorem
assumes anything else.

Every invariant and every inductive invariant stated for every instance was first checked
by TLC on the instance of its run.

Only model-checked: the liveness properties (`EventuallySaved`, `EventuallyAnswered`,
`LockIsReleased`, `ClaimsLapse`, `CountdownMoves`, `RolledUnlessMultiple`, `ComesToRest`,
`PairsScoreBoth`, `WhatIsLaunchedEnds`), which need ENABLED and fairness, beyond the
prover. Every invariant and every action property of the runs is proved.

## 5. Not modelled, and the plan

Next, in order:

1. **Fleet**: onboarding's finalize race, `new ship`, transfer and death, and whether
   the account's ship count agrees with its rows (Combat has rows, but no new ships).
2. **Droids**: the spawner's population bounds and cadence.
3. **Shutdown**: deploy notice, timers, owed kills at `beforeApplicationShutdown`.
4. Lifecycle with restart, so that the order of its status writes matters after a crash.

Left out of what is modelled: amounts (damage, energy, prices, charge, loot), ranges and
aim; the Cybertrons' spawner and their choice of weapon; mail purges and the restock of
the neutral zone at midnight; account purges; `newpass`; the flush alarm.

Left out for good: floating-point geometry, generated text catalogues, rendering of
mail, scans and reports, the read-only HTTP API, the frontend, type declarations, the C
sources the port follows. These are the larger part of the lines.

## 6. Running

    tlc -workers 2 -config channels.cfg       MCShipChannels.tla
    tlc -workers 2 -config lifecycle.cfg      MCLifecycle.tla
    tlc -workers 2 -config store.cfg          MCShipStore.tla
    tlc -workers 2 -config planets.cfg        MCPlanets.tla
    tlc -workers 2 -config planets_claims.cfg MCPlanets.tla
    tlc -workers 2 -config planets_trade.cfg  MCPlanets.tla
    tlc -workers 2 -config midnight.cfg       MCMidnight.tla
    tlc -workers 2 -config teams.cfg          MCTeams.tla
    tlc -workers 2 -config smaller.cfg        MCSmaller.tla
    tlc -workers 2 -config smaller_live.cfg   MCSmaller.tla
    tlc -workers 2 -config flight.cfg         MCFlight.tla
    tlc -workers 2 -config combat.cfg         MCCombat.tla
    tlapm ShipChannels_proofs.tla
    tlapm Lifecycle_proofs.tla
    tlapm ShipStore_proofs.tla
    tlapm Smaller_proofs.tla
    tlapm Combat_proofs.tla
    tlapm Midnight_proofs.tla
    tlapm Planets_proofs.tla
    tlapm Teams_proofs.tla

`planets_trade`, `planets`, `smaller_live` and `midnight` take about two minutes each, the
others less. Operators marked "Mutant of" are plausible bugs in the code next to the
definition they would replace; each breaks a property of a run.
