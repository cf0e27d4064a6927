------------------------------ MODULE SecondTick ------------------------------
(* The one-second timer. Every second a third of the fleet is moved, a third *)
(* counts its self-destruct down, and a third is rolled for overspeed; three *)
(* services walk the fleet for this, and each finds its third in its own way:*)
(* by the ship's channel, by its position in the map, and by a counter that  *)
(* goes on from ship to ship. The fleet is the map of the ship state store,  *)
(* which keeps its ships in the order in which they entered.                 *)
EXTENDS FiniteSets, Lists, FiniteSetsExt, SequencesExt

CONSTANTS
    Ships,
    Bombers,      \* ships whose captains arm the self-destruct
    Stride,       \* MOVE_STRIDE, PHYSICS_STRIDE, DESTRUCT_STRIDE
    Countdown,    \* COUNTDOWN
    NoChannel     \* out of the game

Channels == 0 .. Cardinality(Ships) - 1
Never    == Stride + 1
Late     == Stride

ASSUME BombersAssumption == Bombers \subseteq Ships /\ IsFiniteSet(Ships)
ASSUME StrideAssumption == Stride \in Nat \ {0} /\ Countdown \in Nat \ {0}
ASSUME ChannelAssumption == NoChannel \notin Channels

VARIABLES
    fleet,        \* the ships in the map, in its order
    chan,         \* their channels
    destruct,     \* the count of every ship, also in its row
    clicker,      \* PhysicsTickService.clicker
    fuse,         \* ShipManagementTickService.clicker
    moveClicker,  \* ShipTickService.moveClicker
    since         \* seconds since a ship last moved, or Never, or Late

secondVars == <<fleet, chan, destruct, clicker, fuse, moveClicker, since>>

InFleet(s) == s \in ToSet(fleet)
Place(s)   == CHOOSE i \in DOMAIN fleet : fleet[i] = s

\* Movement waits for the class cache to be filled after a boot and the other
\* two services do not, so their counters may be apart from the start.
SecondInit ==
    /\ fleet = <<>>
    /\ chan = [s \in Ships |-> NoChannel]
    /\ destruct = [s \in Ships |-> 0]
    /\ clicker = 0
    /\ fuse \in 0 .. Stride - 1
    /\ moveClicker = 0
    /\ since = [s \in Ships |-> Never]

FreeChannel == Min(Channels \ {chan[s] : s \in Ships})

Enter(s) ==
    /\ ~InFleet(s)
    /\ fleet' = Append(fleet, s)
    /\ chan' = [chan EXCEPT ![s] = FreeChannel]
    /\ UNCHANGED <<destruct, clicker, fuse, moveClicker, since>>

Without(gone) ==
    /\ fleet' = Filtered(fleet, Ships \ gone)
    /\ chan' = [s \in Ships |-> IF s \in gone THEN NoChannel ELSE chan[s]]

\* The count stays in the row, unless the ship is lost and its row deleted.
Leave(s) ==
    /\ InFleet(s)
    /\ Without({s})
    /\ since' = [since EXCEPT ![s] = Never]
    /\ destruct' \in {destruct, [destruct EXCEPT ![s] = 0]}
    /\ UNCHANGED <<clicker, fuse, moveClicker>>

\* The command asks only where the ship is, and may be given again.
Arm(s) ==
    /\ InFleet(s) /\ s \in Bombers
    /\ destruct' = [destruct EXCEPT ![s] = Countdown]
    /\ UNCHANGED <<fleet, chan, clicker, fuse, moveClicker, since>>

Abort(s) ==
    /\ InFleet(s) /\ destruct[s] > 0
    /\ destruct' = [destruct EXCEPT ![s] = 0]
    /\ UNCHANGED <<fleet, chan, clicker, fuse, moveClicker, since>>

\* Mutant of Moves: by the position in the list, as it once was.
MovesByPosition(s) == (Place(s) - 1) % Stride = clicker

Moves(s) == chan[s] % Stride = clicker

Counts(s) == (Place(s) - 1) % Stride = fuse

\* Mutant of NextFuse: the counter goes on from ship to ship.
NextFuseByShip == (fuse + Len(fleet)) % Stride

NextFuse == (fuse + 1) % Stride

\* The counter goes up before every ship, and rolls the one that brings it to 0.
Rolled(s) == (moveClicker + Place(s)) % Stride = 0

\* Mutant of NextMove: the counter starts again with every second.
NextMoveRestarted == 0

NextMove == (moveClicker + Len(fleet)) % Stride

\* One second: ships that move into the neutral zone have their self-destruct
\* cancelled, and those whose count runs out are destroyed.
Tick ==
    LET moved    == {s \in ToSet(fleet) : Moves(s)}
        counting == {s \in ToSet(fleet) : Counts(s) /\ destruct[s] > 0}
    IN \E calmed \in SUBSET {s \in moved : destruct[s] > 0} :
         LET counted == counting \ calmed
             lost    == {s \in counted : destruct[s] = 1}
         IN /\ Without(lost)
            /\ destruct' = [s \in Ships |-> IF s \in calmed THEN 0
                                            ELSE IF s \in counted THEN destruct[s] - 1
                                            ELSE destruct[s]]
            /\ since' = [s \in Ships |-> IF s \in lost THEN Never
                                         ELSE IF s \in moved THEN 0
                                         ELSE IF since[s] < Late THEN since[s] + 1
                                         ELSE since[s]]
            /\ clicker' = (clicker + 1) % Stride
            /\ fuse' = NextFuse
            /\ moveClicker' = NextMove

SecondNext ==
    \/ \E s \in Ships : Enter(s) \/ Leave(s) \/ Arm(s) \/ Abort(s)
    \/ Tick

\* The timer keeps firing.
SecondFairness == WF_secondVars(Tick)

SecondSpec == SecondInit /\ [][SecondNext]_secondVars /\ SecondFairness

(* ------------------------------ properties ------------------------------ *)
SecondTypeOK ==
    /\ fleet \in Seq(Ships)
    /\ chan \in [Ships -> Channels \cup {NoChannel}]
    /\ destruct \in [Ships -> 0 .. Countdown]
    /\ {clicker, fuse, moveClicker} \subseteq 0 .. Stride - 1
    /\ since \in [Ships -> 0 .. Never]

\* Whoever enters or leaves, a ship that has moved once moves again exactly
\* Stride seconds later: never twice in a row, and never late.
EvenCadence ==
    /\ [](\A s \in Ships : since[s] # Late)
    /\ [][\A s \in Ships : since'[s] = 0 => since[s] \in {0, Stride - 1, Never}]_secondVars
    /\ [][\A s \in Ships : clicker' # clicker /\ since[s] = 0 /\ Stride > 1 => since'[s] # 0]_secondVars

\* A self-destruct that is armed never stands still, although the ship's third
\* changes with every departure before it in the map.
CountdownMoves ==
    \A s \in Bombers, n \in 1 .. Countdown :
        InFleet(s) /\ destruct[s] = n ~> ~InFleet(s) \/ destruct[s] # n

\* Once nobody enters or leaves, every ship in the fleet is rolled for overspeed
\* again and again, unless the fleet is a multiple of the stride: then the counter
\* comes back to where it was, and the same ships are rolled every second.
RolledUnlessMultiple ==
    <>[][fleet' = fleet /\ Len(fleet) % Stride # 0]_secondVars
        => \A s \in Ships : []<>(~InFleet(s) \/ Rolled(s))
=============================================================================
