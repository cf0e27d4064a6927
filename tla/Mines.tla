-------------------------------- MODULE Mines --------------------------------
(* The galaxy's mine table (MineRegistry) as a value: a function from the ids *)
(* of the live mines to their timers, the captain each was laid for, and the  *)
(* ship whose channel it carries.                                             *)
EXTENDS Integers, FiniteSets

CONSTANTS
    NumMines,    \* NUMMINES: places in the table
    UserMines    \* USRMINES: places one captain may take

ASSUME CapsAssumption == NumMines \in Nat /\ UserMines \in Nat

EmptyTable == [m \in {} |-> m]

IsFull(table) == Cardinality(DOMAIN table) >= NumMines

CountByDeployer(table, captain) ==
    Cardinality({m \in DOMAIN table : table[m].deployedBy = captain})

\* The test `create` and the mine command make before the row is asked for.
MayLay(table, captain) == CountByDeployer(table, captain) < UserMines /\ ~IsFull(table)

With(table, id, mine) == [m \in DOMAIN table \cup {id} |-> IF m = id THEN mine ELSE table[m]]

\* Mutant of Add: the table trusts the test made before the row was created.
AddUnasked(table, id, mine) == With(table, id, mine)

\* Tested once more: the row was created while others were.
Add(table, id, mine) ==
    IF id \notin DOMAIN table /\ IsFull(table) THEN table ELSE With(table, id, mine)

Without(table, ids) == [m \in DOMAIN table \ ids |-> table[m]]

TickAll(table) == [m \in DOMAIN table |-> [table[m] EXCEPT !.timer = @ - 1]]

\* Looked at every fifth tick, to warn ships nearby; at zero it goes off.
SweepCandidates(table) == {m \in DOMAIN table : table[m].timer % 5 = 0}
GoingOff(table)        == {m \in SweepCandidates(table) : table[m].timer = 0}
=============================================================================
