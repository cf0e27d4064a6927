---------------------------- MODULE Combat_proofs ----------------------------
(***************************************************************************)
(* For any ships and captains, any mines and any speeds: a hull that comes *)
(* into the world is announced destroyed once, and again only by its       *)
(* captain's hang-ups; the mine table grows past its capacity only at      *)
(* boot; and a kill owed is put down to the ship whose shot was the last.  *)
(***************************************************************************)
EXTENDS Combat, FiniteSetTheorems, WellFoundedInduction, TLAPS

\* What the announcements of a hull say of it: none since it came into the world
\* while it is there, and one that was not its captain's hanging up when it is gone.
Tally ==
    \A s \in Ships :
        /\ s \in fleet => announced[s] = 0
        /\ announced[s] <= 1 + finished[s]

FiniteTables == IsFiniteSet(DOMAIN table) /\ IsFiniteSet(DOMAIN rows)

IInv == TypeOK /\ Tally /\ FiniteTables

-----------------------------------------------------------------------------
(* Operators.                                                              *)

\* The smallest of some numbers, and the larger of two.
LEMMA MinIsIn ==
    ASSUME NEW S \in SUBSET Nat, S # {}
    PROVE  Min(S) \in S
  <1> DEFINE R == {p \in Nat \X Nat : p[1] < p[2]}
  <1>1. IsWellFoundedOn(R, Nat)
    BY NatLessThanWellFounded DEF OpToRel
  <1>2. \A x, y \in Nat : y < x => <<y, x>> \in R
    OBVIOUS
  <1> HIDE DEF R
  <1>3. PICK x \in S : \A y \in S : <<y, x>> \notin R
    BY <1>1, WFMin
  <1>4. ASSUME NEW y \in S PROVE x <= y
    <2>1. x \in Nat /\ y \in Nat /\ ~(y < x)
      BY <1>2, <1>3
    <2> QED BY <2>1
  <1> QED BY <1>4 DEF Min

LEMMA MaxOfTwo ==
    ASSUME NEW x \in Int, NEW y \in Int
    PROVE  Max({x, y}) = IF x >= y THEN x ELSE y
  <1>1. \E z \in {x, y} : \A w \in {x, y} : z >= w
    OBVIOUS
  <1> DEFINE m == Max({x, y})
  <1>2. m \in {x, y} /\ \A w \in {x, y} : m >= w
    BY <1>1 DEF Max
  <1> HIDE DEF m
  <1> QED BY <1>2 DEF m

\* Whom a channel may name.
LEMMA BearersAreShips ==
    ASSUME NEW by \in Ships \cup {Nobody, Anyone}
    PROVE  Bearers(by) \subseteq Ships \cup {Nobody}
  BY DEF Bearers

-----------------------------------------------------------------------------
(* What the actions are built from.                                        *)

LEMMA PlaysFacts ==
    ASSUME IInv, NEW s \in Ships, Plays(s) \/ Commands(s)
    PROVE  s \in fleet /\ ~settling /\ played' \in 0 .. MaxPlay
  BY NumbersAssumption DEF IInv, TypeOK, Plays, Commands

LEMMA LockedType ==
    ASSUME TypeOK, NEW ss, Locked(ss)
    PROVE  lock' \in [Ships -> 0 .. FireTicks]
  BY NumbersAssumption DEF TypeOK, Locked

\* A ship that leaves takes nothing of the tables with it.
LEMMA DepartsKeeps ==
    ASSUME TypeOK, FiniteTables, NEW v \in Ships, NEW blasted, Departs(v, blasted)
    PROVE  /\ fleet' = fleet \ {v}
           /\ tubes' \in [Ships -> [Kinds -> Slot]]
           /\ lastfired' \in [Ships -> Ships \cup {Nobody, Anyone}]
           /\ DOMAIN table' = DOMAIN table /\ rows' = rows
           /\ \A m \in DOMAIN table' : table'[m] \in Mine
           /\ laying' \subseteq [id : Ids, ship : Ships, by : Ships \cup {Anyone}, timer : 1 .. Fuse]
           /\ erasing' = erasing /\ zips' = zips
  <1>1. tubes' \in [Ships -> [Kinds -> Slot]]
    BY DEF TypeOK, Departs, Slot, Free
  <1>2. \A m \in DOMAIN table' : table'[m] \in Mine
    <2>1. ASSUME NEW m \in Mine
          PROVE  [m EXCEPT !.by = Passed(@, v)] \in Mine
      <3>1. Passed(m.by, v) \in Ships \cup {Anyone}
        BY DEF Mine, Passed
      <3> QED BY <3>1 DEF Mine
    <2>2. DOMAIN table' = DOMAIN table
          /\ \A m \in DOMAIN table : table[m] \in Mine /\ table'[m] = [table[m] EXCEPT !.by = Passed(@, v)]
      BY DEF TypeOK, Departs
    <2> QED BY <2>1, <2>2
  <1>3. laying' \subseteq [id : Ids, ship : Ships, by : Ships \cup {Anyone}, timer : 1 .. Fuse]
    <2>1. ASSUME NEW l \in laying
          PROVE  [l EXCEPT !.by = Passed(@, v)]
                   \in [id : Ids, ship : Ships, by : Ships \cup {Anyone}, timer : 1 .. Fuse]
      <3>1. l \in [id : Ids, ship : Ships, by : Ships \cup {Anyone}, timer : 1 .. Fuse]
        BY DEF TypeOK
      <3>2. Passed(l.by, v) \in Ships \cup {Anyone}
        BY <3>1 DEF Passed
      <3> QED BY <3>1, <3>2
    <2> QED BY <2>1 DEF Departs
  <1>4. lastfired' \in [Ships -> Ships \cup {Nobody, Anyone}]
    BY DEF TypeOK, Departs, Passed
  <1> QED BY <1>1, <1>2, <1>3, <1>4 DEF Departs

-----------------------------------------------------------------------------
(* The actions.                                                            *)

\* Shots and mishaps damage ships and lock them, and no more.
LEMMA BeamKeeps ==
    ASSUME IInv, NEW a \in Ships, NEW hit \in SUBSET fleet, NEW ss,
           played' \in 0 .. MaxPlay, Beam(a, hit), Locked(ss)
    PROVE  IInv'
  <1>1. lock' \in [Ships -> 0 .. FireTicks]
    BY LockedType DEF IInv
  <1> QED BY <1>1 DEF Beam, IInv, TypeOK, Tally, FiniteTables, hulls, mines, deaths

LEMMA ShotsKeep ==
    ASSUME IInv, NEW a \in Ships, Phaser(a) \/ AutoPhaser(a) \/ HyperPhaser(a)
    PROVE  IInv'
  <1>1. played' \in 0 .. MaxPlay
    BY PlaysFacts DEF Phaser, AutoPhaser, HyperPhaser
  <1>2. CASE Phaser(a)
    BY <1>1, <1>2, BeamKeeps DEF Phaser
  <1>3. CASE AutoPhaser(a)
    BY <1>1, <1>3, BeamKeeps DEF AutoPhaser
  <1>4. CASE HyperPhaser(a)
    BY <1>1, <1>4, BeamKeeps DEF HyperPhaser
  <1> QED BY <1>2, <1>3, <1>4

LEMMA LaunchKeeps ==
    ASSUME IInv, NEW a \in Ships, NEW v \in Ships, NEW k \in Kinds, Launch(a, v, k)
    PROVE  IInv'
  <1>1. played' \in 0 .. MaxPlay /\ lock' \in [Ships -> 0 .. FireTicks]
    BY PlaysFacts, LockedType DEF Launch, IInv
  <1>2. tubes' \in [Ships -> [Kinds -> Slot]]
    <2>1. CASE UNCHANGED tubes
      BY <2>1 DEF IInv, TypeOK
    <2>2. ASSUME NEW d \in 1 .. Reach, tubes' = [tubes EXCEPT ![v][k] = [by |-> a, dist |-> d]]
          PROVE  tubes' \in [Ships -> [Kinds -> Slot]]
      <3>1. [by |-> a, dist |-> d] \in Slot
        BY NumbersAssumption DEF Slot
      <3> QED BY <2>2, <3>1 DEF IInv, TypeOK
    <2> QED BY <2>1, <2>2 DEF Launch
  <1> QED BY <1>1, <1>2 DEF Launch, IInv, TypeOK, Tally, FiniteTables, hulls, mines, deaths

LEMMA ShakenKeeps ==
    ASSUME IInv, NEW s \in Ships, NEW ks, Shaken(s, ks)
    PROVE  IInv'
  <1>1. played' \in 0 .. MaxPlay
    BY PlaysFacts DEF Shaken
  <1>2. tubes' \in [Ships -> [Kinds -> Slot]]
    BY DEF Shaken, IInv, TypeOK, Slot, Free
  <1> QED BY <1>1, <1>2 DEF Shaken, IInv, TypeOK, Tally, FiniteTables, hulls, mines, deaths

LEMMA MishapKeeps ==
    ASSUME IInv, NEW s \in Ships, Mishap(s)
    PROVE  IInv'
  <1>1. played' \in 0 .. MaxPlay /\ s \in fleet
    BY PlaysFacts DEF Mishap
  <1>2. lock' \in [Ships -> 0 .. FireTicks]
    BY LockedType DEF Mishap, IInv, TypeOK
  <1> QED BY <1>1, <1>2 DEF Mishap, IInv, TypeOK, Tally, FiniteTables, hulls, mines, deaths

\* What comes into the world has not been announced.
LEMMA BornKeeps ==
    ASSUME IInv, NEW ss \in SUBSET Ships, Born(ss), fleet' \subseteq fleet \cup ss
    PROVE  /\ Tally'
           /\ announced' \in [Ships -> Nat] /\ credited' \in [Ships -> SUBSET Ships]
           /\ finished' \in [Ships -> Nat]
  <1>1. /\ announced' \in [Ships -> Nat] /\ credited' \in [Ships -> SUBSET Ships]
        /\ finished' \in [Ships -> Nat]
    BY DEF Born, IInv, TypeOK
  <1>2. Tally'
    BY DEF Born, IInv, TypeOK, Tally
  <1> QED BY <1>1, <1>2

\* A row that is read, saved or deleted moves no hull.
LEMMA RowsKeep ==
    ASSUME IInv, NEW s \in Ships, Saved(s) \/ Look(s) \/ Deleted(s)
    PROVE  IInv'
  <1>1. CASE Saved(s)
    BY <1>1 DEF Saved, IInv, TypeOK, Tally, FiniteTables, world, mines, deaths
  <1>2. CASE Look(s)
    BY <1>2 DEF Look, IInv, TypeOK, Tally, FiniteTables, world, mines, deaths
  <1>3. CASE Deleted(s)
    BY <1>3 DEF Deleted, IInv, TypeOK, Tally, FiniteTables, world, mines, deaths
  <1> QED BY <1>1, <1>2, <1>3

LEMMA BoardKeeps ==
    ASSUME IInv, NEW s \in Ships, Board(s)
    PROVE  IInv'
  <1>1. CASE UNCHANGED <<world, hang, deaths>>
    BY <1>1 DEF Board, IInv, TypeOK, Tally, FiniteTables, world, mines, deaths
  <1>2. CASE /\ s \notin fleet
             /\ fleet' = fleet \cup {s} /\ beaten' = beaten \ {s} /\ Born({s})
             /\ \E w \in Bearers(Anyone) : lastfired' = [lastfired EXCEPT ![s] = w]
             /\ \E n \in 0 .. FireTicks : lock' = [lock EXCEPT ![s] = n]
             /\ hang' = [h \in Calls |->
                           IF hang[h].at = "telemetry" /\ hang[h].ship = s
                           THEN [hang[h] EXCEPT !.by = Anyone] ELSE hang[h]]
             /\ UNCHANGED tubes
    <2>1. /\ Tally'
          /\ announced' \in [Ships -> Nat] /\ credited' \in [Ships -> SUBSET Ships]
          /\ finished' \in [Ships -> Nat]
      BY <1>2, BornKeeps
    <2>2. lastfired' \in [Ships -> Ships \cup {Nobody, Anyone}]
      <3>1. Bearers(Anyone) \subseteq Ships \cup {Nobody}
        BY BearersAreShips
      <3> QED BY <1>2, <3>1 DEF IInv, TypeOK
    <2>3. lock' \in [Ships -> 0 .. FireTicks]
      BY <1>2 DEF IInv, TypeOK
    <2>4. /\ hang' \in [Calls -> HangUps]
          /\ \A h \in Calls : hang'[h].at # "no" => hang'[h].ship \in Ships
          /\ \A h \in Calls : hang'[h].at = "points" => hang'[h].by # Anyone
      <3>1. ASSUME NEW h \in Calls
            PROVE  /\ hang'[h] \in HangUps
                   /\ hang'[h].at # "no" => hang'[h].ship \in Ships
                   /\ hang'[h].at = "points" => hang'[h].by # Anyone
        <4>1. /\ hang[h] \in HangUps
              /\ hang[h].at # "no" => hang[h].ship \in Ships
              /\ hang[h].at = "points" => hang[h].by # Anyone
          BY DEF IInv, TypeOK
        <4>2. hang'[h] = IF hang[h].at = "telemetry" /\ hang[h].ship = s
                         THEN [hang[h] EXCEPT !.by = Anyone] ELSE hang[h]
          BY <1>2
        <4> QED BY <4>1, <4>2 DEF HangUps
      <3> QED BY <1>2, <3>1
    <2> QED BY <1>2, <2>1, <2>2, <2>3, <2>4 DEF Board, IInv, TypeOK, FiniteTables, mines
  <1> QED BY <1>1, <1>2 DEF Board

LEMMA RespawnKeeps ==
    ASSUME IInv, NEW s \in Ships, Respawn(s)
    PROVE  IInv'
  <1>1. /\ Tally'
        /\ announced' \in [Ships -> Nat] /\ credited' \in [Ships -> SUBSET Ships]
        /\ finished' \in [Ships -> Nat]
    BY BornKeeps DEF Respawn
  <1>2. lock' \in [Ships -> 0 .. FireTicks]
    BY NumbersAssumption DEF Respawn, IInv, TypeOK
  <1> QED BY <1>1, <1>2 DEF Respawn, IInv, TypeOK, FiniteTables, mines

LEMMA LeaveKeeps ==
    ASSUME IInv, NEW s \in Ships, Leave(s)
    PROVE  IInv'
  <1>1. played' \in 0 .. MaxPlay /\ Departs(s, {})
    BY PlaysFacts DEF Leave
  <1> QED BY <1>1, DepartsKeeps DEF Leave, IInv, TypeOK, Tally, FiniteTables, hulls, deaths

\* A ship in the world dies: it has not been announced yet.
LEMMA DeathKeeps ==
    ASSUME IInv, NEW v \in fleet, NEW a \in Ships \cup {Nobody}, NEW blasted,
           Announced(v, a), Destroyed(v, blasted), UNCHANGED finished
    PROVE  /\ Tally' /\ FiniteTables'
           /\ announced' \in [Ships -> Nat] /\ credited' \in [Ships -> SUBSET Ships]
           /\ deleting' \subseteq Ships /\ row' = row /\ boarding' = boarding
  <1>1. v \in Ships
    BY DEF IInv, TypeOK
  <1>2. /\ fleet' = fleet \ {v} /\ DOMAIN table' = DOMAIN table /\ rows' = rows
    BY <1>1, DepartsKeeps DEF Destroyed, IInv
  <1>3. announced[v] = 0
    BY <1>1 DEF IInv, Tally
  <1>4. announced' = [announced EXCEPT ![v] = 1] /\ credited' \in [Ships -> SUBSET Ships]
    BY <1>1, <1>3 DEF Announced, IInv, TypeOK
  <1>5. Tally'
    BY <1>1, <1>2, <1>4 DEF Tally, IInv, TypeOK
  <1>6. deleting' \subseteq Ships /\ row' = row /\ boarding' = boarding
    BY <1>1 DEF Destroyed, Doomed, IInv, TypeOK
  <1> QED BY <1>2, <1>4, <1>5, <1>6 DEF IInv, TypeOK, FiniteTables

LEMMA SettleKeeps ==
    ASSUME IInv, Settle
    PROVE  IInv'
  <1>1. PICK i \in DOMAIN Order :
           /\ Order[i] \in beaten \cap fleet
           /\ Announced(Order[i], KillerOf(Order[i])) /\ Destroyed(Order[i], {})
           /\ settling' = (beaten \cap fleet # {Order[i]})
           /\ credit' = [credit EXCEPT ![Order[i]] = Nobody]
    BY DEF Settle
  <1> DEFINE v == Order[i]
  <1>2. v \in fleet /\ v \in Ships /\ KillerOf(v) \in Ships \cup {Nobody}
    BY <1>1 DEF IInv, TypeOK, KillerOf
  <1>3. Announced(v, KillerOf(v)) /\ Destroyed(v, {}) /\ Departs(v, {})
    BY <1>1 DEF Destroyed
  <1>4. /\ UNCHANGED <<finished, beaten, lock, hang, played, faults, beat>>
        /\ settling' \in BOOLEAN /\ credit' \in [Ships -> Ships \cup {Nobody}]
    BY <1>1, <1>2 DEF Settle, IInv, TypeOK
  <1> HIDE DEF v
  <1>5. /\ Tally' /\ FiniteTables'
        /\ announced' \in [Ships -> Nat] /\ credited' \in [Ships -> SUBSET Ships]
        /\ deleting' \subseteq Ships /\ row' = row /\ boarding' = boarding
    BY <1>2, <1>3, <1>4, DeathKeeps
  <1> QED BY <1>2, <1>3, <1>4, <1>5, DepartsKeeps DEF IInv, TypeOK

LEMMA ScuttleKeeps ==
    ASSUME IInv, NEW b \in Ships, Scuttle(b)
    PROVE  IInv'
  <1>1. b \in fleet /\ played' \in 0 .. MaxPlay
    BY PlaysFacts DEF Scuttle
  <1>2. PICK hit \in SUBSET (fleet \ {b}) : \E dead \in SUBSET hit :
           /\ beaten' = beaten \cup dead /\ Announced(b, Nobody) /\ Destroyed(b, hit)
    BY DEF Scuttle
  <1>3. /\ beaten' \subseteq Ships /\ Departs(b, hit)
        /\ UNCHANGED <<finished, lock, hang, settling, credit, faults, beat>>
    BY <1>2 DEF Scuttle, Destroyed, IInv, TypeOK
  <1>4. /\ Tally' /\ FiniteTables'
        /\ announced' \in [Ships -> Nat] /\ credited' \in [Ships -> SUBSET Ships]
        /\ deleting' \subseteq Ships /\ row' = row /\ boarding' = boarding
    BY <1>1, <1>2, <1>3, DeathKeeps
  <1> QED BY <1>1, <1>3, <1>4, DepartsKeeps DEF IInv, TypeOK

\* A captain who hangs up is announced by his own disconnect, whatever has become
\* of his hull meanwhile.
LEMMA HangUpKeeps ==
    ASSUME IInv, NEW h \in Calls, NEW s \in Ships, HangUp(h, s)
    PROVE  IInv'
  <1>1. played' \in 0 .. MaxPlay
    BY PlaysFacts DEF HangUp
  <1>2. hang' = [hang EXCEPT ![h] = [at |-> "telemetry", ship |-> s, by |-> Nobody]]
    BY DEF HangUp
  <1>3. [at |-> "telemetry", ship |-> s, by |-> Nobody] \in HangUps
    BY DEF HangUps
  <1>4. /\ hang' \in [Calls -> HangUps]
        /\ \A i \in Calls : hang'[i].at # "no" => hang'[i].ship \in Ships
        /\ \A i \in Calls : hang'[i].at = "points" => hang'[i].by # Anyone
    BY <1>2, <1>3 DEF IInv, TypeOK
  <1> QED BY <1>1, <1>4
          DEF HangUp, IInv, TypeOK, Tally, FiniteTables, ships, world, hulls, mines, deaths

LEMMA AccuseKeeps ==
    ASSUME IInv, NEW h \in Calls, Accuse(h)
    PROVE  IInv'
  <1> DEFINE s == hang[h].ship
  <1>1. s \in Ships
    BY DEF Accuse, IInv, TypeOK
  <1>2. PICK a : hang' = [hang EXCEPT ![h] = [at |-> "points", ship |-> s,
                                              by |-> IF a \in fleet \ {s} THEN a ELSE Nobody]]
    BY DEF Accuse
  <1> DEFINE by == IF a \in fleet \ {s} THEN a ELSE Nobody
  <1>3. by \in Ships \cup {Nobody} /\ by # Anyone
    BY ShipsAssumption DEF IInv, TypeOK
  <1> HIDE DEF by, s
  <1>4. [at |-> "points", ship |-> s, by |-> by] \in HangUps
    BY <1>1, <1>3 DEF HangUps
  <1>5. hang' = [hang EXCEPT ![h] = [at |-> "points", ship |-> s, by |-> by]]
    BY <1>2 DEF by
  <1>6. /\ hang' \in [Calls -> HangUps]
        /\ \A i \in Calls : hang'[i].at # "no" => hang'[i].ship \in Ships
        /\ \A i \in Calls : hang'[i].at = "points" => hang'[i].by # Anyone
    BY <1>1, <1>3, <1>4, <1>5 DEF IInv, TypeOK
  <1> QED BY <1>6
          DEF Accuse, IInv, TypeOK, Tally, FiniteTables, ships, world, hulls, mines, deaths

LEMMA FinishKeeps ==
    ASSUME IInv, NEW h \in Calls, Finish(h)
    PROVE  IInv'
  <1> DEFINE s == hang[h].ship
             b == hang[h].by
  <1>1. s \in Ships /\ b \in Ships \cup {Nobody}
    <2>1. hang[h] \in HangUps /\ hang[h].at = "points"
      BY DEF Finish, IInv, TypeOK
    <2> QED BY <2>1 DEF HangUps, IInv, TypeOK
  <1>2. /\ Departs(s, {}) /\ deleting' = deleting \cup ({s} \ Automatic)
        /\ UNCHANGED <<row, boarding>>
        /\ announced' = [announced EXCEPT ![s] = @ + 1]
        /\ credited' = [credited EXCEPT ![s] = @ \cup ({b} \ {Nobody})]
        /\ finished' = [finished EXCEPT ![s] = @ + 1]
        /\ hang' = [hang EXCEPT ![h] = NoHangUp]
        /\ UNCHANGED <<beaten, lock, settling, credit, played, faults, beat>>
    BY DEF Finish, Destroyed, Doomed, Announced
  <1> HIDE DEF s, b
  <1>3. fleet' = fleet \ {s} /\ DOMAIN table' = DOMAIN table /\ rows' = rows
    BY <1>1, <1>2, DepartsKeeps DEF IInv
  <1>4. Tally'
    BY <1>1, <1>2, <1>3 DEF Tally, IInv, TypeOK
  <1>5. FiniteTables'
    BY <1>3 DEF FiniteTables, IInv
  <1>6. /\ announced' \in [Ships -> Nat] /\ credited' \in [Ships -> SUBSET Ships]
        /\ finished' \in [Ships -> Nat] /\ deleting' \subseteq Ships
    BY <1>1, <1>2 DEF IInv, TypeOK
  <1>7. /\ hang' \in [Calls -> HangUps]
        /\ \A i \in Calls : hang'[i].at # "no" => hang'[i].ship \in Ships
        /\ \A i \in Calls : hang'[i].at = "points" => hang'[i].by # Anyone
    BY <1>2 DEF IInv, TypeOK, HangUps, NoHangUp
  <1> QED BY <1>1, <1>2, <1>3, <1>4, <1>5, <1>6, <1>7, DepartsKeeps DEF IInv, TypeOK

LEMMA LayKeeps ==
    ASSUME IInv, NEW s \in Ships, Lay(s)
    PROVE  IInv'
  <1>1. played' \in 0 .. MaxPlay
    BY PlaysFacts DEF Lay
  <1>2. Min(Ids \ Referenced) \in Ids
    <2>1. Ids \ Referenced \in SUBSET Nat /\ Ids \ Referenced # {}
      BY IdsAssumption DEF Lay
    <2> QED BY <2>1, MinIsIn
  <1>3. laying' \subseteq [id : Ids, ship : Ships, by : Ships \cup {Anyone}, timer : 1 .. Fuse]
    BY <1>2 DEF Lay, IInv, TypeOK
  <1> QED BY <1>1, <1>3 DEF Lay, IInv, TypeOK, Tally, FiniteTables, ships, world, hulls, deaths

\* One mine enters the table, if it has room, and one row is created.
LEMMA LaidKeeps ==
    ASSUME IInv, NEW l \in laying, Laid(l)
    PROVE  IInv'
  <1>1. l \in [id : Ids, ship : Ships, by : Ships \cup {Anyone}, timer : 1 .. Fuse]
    BY DEF IInv, TypeOK
  <1>2. Row(l) \in MineRow /\ Entry(Row(l), l.by) \in Mine
    BY <1>1, NumbersAssumption DEF Row, Entry, MineRow, Mine
  <1>3. /\ DOMAIN rows' = DOMAIN rows \cup {l.id}
        /\ \A m \in DOMAIN rows' : rows'[m] \in MineRow
    BY <1>2 DEF Laid, With, IInv, TypeOK
  <1>4. /\ DOMAIN table' \subseteq DOMAIN table \cup {l.id}
        /\ \A m \in DOMAIN table' : table'[m] \in Mine
    <2>1. table' = Add(table, l.id, Entry(Row(l), l.by))
      BY DEF Laid
    <2>2. /\ DOMAIN table' \in {DOMAIN table, DOMAIN table \cup {l.id}}
          /\ \A m \in DOMAIN table' :
                table'[m] = Entry(Row(l), l.by) \/ (m \in DOMAIN table /\ table'[m] = table[m])
      BY <2>1 DEF Add, With
    <2> QED BY <1>2, <2>2 DEF IInv, TypeOK
  <1>5. FiniteTables'
    <2>1. IsFiniteSet(DOMAIN rows \cup {l.id}) /\ IsFiniteSet(DOMAIN table \cup {l.id})
      BY FS_AddElement DEF IInv, FiniteTables
    <2> QED BY <1>3, <1>4, <2>1, FS_Subset DEF FiniteTables
  <1>6. lock' \in [Ships -> 0 .. FireTicks]
    BY LockedType DEF Laid, IInv
  <1> QED BY <1>1, <1>3, <1>4, <1>5, <1>6 DEF Laid, IInv, TypeOK, Tally, hulls, deaths

LEMMA ZipperKeeps ==
    ASSUME IInv, NEW s \in Ships, Zipper(s)
    PROVE  IInv'
  <1>1. played' \in 0 .. MaxPlay
    BY PlaysFacts DEF Zipper
  <1>2. PICK near \in SUBSET DOMAIN table :
           IF s \in Automatic
           THEN /\ table' = Without(table, near) /\ erasing' = erasing \cup near
                /\ UNCHANGED zips
           ELSE /\ zips' = [zips EXCEPT ![s] = near]
                /\ UNCHANGED <<table, erasing>>
    BY DEF Zipper
  <1>3. /\ DOMAIN table' \subseteq DOMAIN table
        /\ \A m \in DOMAIN table' : table'[m] = table[m]
        /\ erasing' \subseteq Ids /\ zips' \in [Ships -> SUBSET Ids]
    <2>1. CASE s \in Automatic
      BY <1>2, <2>1 DEF Without, IInv, TypeOK
    <2>2. CASE s \notin Automatic
      BY <1>2, <2>2 DEF IInv, TypeOK
    <2> QED BY <2>1, <2>2
  <1>4. rows' = rows
    BY DEF Zipper
  <1>5. FiniteTables'
    BY <1>3, <1>4, FS_Subset DEF IInv, FiniteTables
  <1> QED BY <1>1, <1>3, <1>5 DEF Zipper, IInv, TypeOK, Tally, ships, world, hulls, deaths

LEMMA ErasuresKeep ==
    ASSUME IInv,
           \/ \E s \in Ships : Zipped(s)
           \/ \E m \in Ids : Erased(m)
           \/ Fails
    PROVE  IInv'
  <1>1. CASE \E s \in Ships : Zipped(s)
    <2>1. PICK s \in Ships : Zipped(s)
      BY <1>1
    <2>2. /\ DOMAIN table' \subseteq DOMAIN table /\ DOMAIN rows' \subseteq DOMAIN rows
          /\ \A m \in DOMAIN table' : table'[m] = table[m]
          /\ \A m \in DOMAIN rows' : rows'[m] = rows[m]
          /\ zips' \in [Ships -> SUBSET Ids]
      <3>1. PICK m \in zips[s] :
               IF m \in DOMAIN rows
               THEN /\ rows' = Without(rows, {m}) /\ table' = Without(table, {m})
                    /\ zips' = [zips EXCEPT ![s] = @ \ {m}]
               ELSE zips' = [zips EXCEPT ![s] = {}] /\ UNCHANGED <<rows, table>>
        BY <2>1 DEF Zipped
      <3>2. zips' \in [Ships -> SUBSET Ids]
        BY <3>1 DEF IInv, TypeOK
      <3>3. CASE m \in DOMAIN rows
        BY <3>1, <3>2, <3>3 DEF Without
      <3>4. CASE m \notin DOMAIN rows
        BY <3>1, <3>2, <3>4
      <3> QED BY <3>3, <3>4
    <2>3. FiniteTables'
      BY <2>2, FS_Subset DEF IInv, FiniteTables
    <2> QED BY <2>1, <2>2, <2>3 DEF Zipped, IInv, TypeOK, Tally, ships, world, hulls, deaths
  <1>2. CASE \E m \in Ids : Erased(m)
    <2>1. PICK m \in Ids : Erased(m)
      BY <1>2
    <2>2. /\ DOMAIN rows' \subseteq DOMAIN rows /\ erasing' \subseteq erasing
          /\ \A n \in DOMAIN rows' : rows'[n] = rows[n]
      BY <2>1 DEF Erased, Without
    <2>3. FiniteTables'
      BY <2>1, <2>2, FS_Subset DEF Erased, IInv, FiniteTables
    <2> QED BY <2>1, <2>2, <2>3 DEF Erased, IInv, TypeOK, Tally, ships, world, hulls, deaths
  <1>3. CASE Fails
    <2>1. /\ laying' \subseteq laying /\ erasing' \subseteq erasing /\ deleting' \subseteq deleting
          /\ zips' \in [Ships -> SUBSET Ids]
      BY <1>3 DEF Fails, IInv, TypeOK
    <2>2. faults' \in 0 .. MaxFaults
      BY <1>3, NumbersAssumption DEF Fails, IInv, TypeOK
    <2> QED BY <1>3, <2>1, <2>2
            DEF Fails, IInv, TypeOK, Tally, FiniteTables, world, deaths
  <1> QED BY <1>1, <1>2, <1>3

LEMMA RestartKeeps ==
    ASSUME IInv, Restart
    PROVE  IInv'
  <1>1. fleet' \subseteq Ships
    BY ShipsAssumption DEF Restart
  <1>2. lastfired' \in [Ships -> Ships \cup {Nobody, Anyone}]
    <2>1. Bearers(Anyone) \subseteq Ships \cup {Nobody}
      BY BearersAreShips
    <2> QED BY <2>1 DEF Restart
  <1>3. tubes' \in [Ships -> [Kinds -> Slot]]
    BY DEF Restart, Slot, Free
  <1>4. /\ hang' \in [Calls -> HangUps]
        /\ \A h \in Calls : hang'[h].at # "no" => hang'[h].ship \in Ships
        /\ \A h \in Calls : hang'[h].at = "points" => hang'[h].by # Anyone
    BY DEF Restart, NoHangUp, HangUps
  <1>5. /\ DOMAIN table' = DOMAIN rows
        /\ \A m \in DOMAIN table' : table'[m] \in Mine
    BY DEF Restart, Entry, IInv, TypeOK, MineRow, Mine
  <1>6. faults' \in 0 .. MaxFaults
    BY NumbersAssumption DEF Restart, IInv, TypeOK
  <1>7. /\ Tally'
        /\ announced' \in [Ships -> Nat] /\ credited' \in [Ships -> SUBSET Ships]
        /\ finished' \in [Ships -> Nat]
    <2>1. PICK ss \in SUBSET Ships : fleet' = ss
      BY <1>1
    <2>2. Born(ss)
      BY <2>1 DEF Restart
    <2> QED BY <2>1, <2>2, BornKeeps
  <1>8. FiniteTables'
    BY <1>5 DEF Restart, IInv, FiniteTables
  <1> QED BY <1>1, <1>2, <1>3, <1>4, <1>5, <1>6, <1>7, <1>8 DEF Restart, IInv, TypeOK

\* A pass moves what flies, marks who is beaten and notes who beat them.
LEMMA PassKeeps ==
    ASSUME IInv, Pass
    PROVE  IInv'
  <1>1. PICK decoyed \in SUBSET Flying, mined \in SUBSET Reached(Blasts) :
           \E layer \in [mined -> Layers(Blasts)],
              dead \in SUBSET (mined \cup {sk[1] : sk \in Struck(decoyed)}) :
                /\ tubes' = [s \in Ships |-> [k \in Kinds |->
                               IF <<s, k>> \in decoyed \cup Struck(decoyed) THEN Free
                               ELSE Flown(tubes[s][k], k)]]
                /\ lastfired' = [s \in Ships |-> LastHit(s, Struck(decoyed), layer)]
                /\ beaten' = beaten \cup dead
                /\ settling' = ((beaten \cup dead) \cap fleet # {})
    BY DEF Pass
  <1> DEFINE struck == Struck(decoyed)
             hit    == mined \cup {sk[1] : sk \in struck}
  <1>2. PICK layer \in [mined -> Layers(Blasts)], dead \in SUBSET hit :
                /\ tubes' = [s \in Ships |-> [k \in Kinds |->
                               IF <<s, k>> \in decoyed \cup struck THEN Free
                               ELSE Flown(tubes[s][k], k)]]
                /\ lastfired' = [s \in Ships |-> LastHit(s, struck, layer)]
                /\ beaten' = beaten \cup dead
                /\ settling' = ((beaten \cup dead) \cap fleet # {})
    BY <1>1
  <1>3. Blasts \subseteq DOMAIN table
    BY DEF TickAll, Blasts, GoingOff, SweepCandidates
  <1>4. /\ DOMAIN table' \subseteq DOMAIN table /\ erasing' \subseteq Ids
        /\ \A m \in DOMAIN table' : table'[m] \in Mine
    <2>1. /\ DOMAIN table' = DOMAIN table \ Blasts /\ erasing' = erasing \cup Blasts
          /\ \A m \in DOMAIN table' : table'[m] = [table[m] EXCEPT !.timer = @ - 1]
      BY DEF Pass, TickAll, Without
    <2>2. ASSUME NEW m \in DOMAIN table PROVE [table[m] EXCEPT !.timer = @ - 1] \in Mine
      <3>1. table[m] \in Mine
        BY DEF IInv, TypeOK
      <3> QED BY <3>1 DEF Mine
    <2> QED BY <1>3, <2>1, <2>2 DEF IInv, TypeOK
  <1>5. Layers(Blasts) \subseteq Ships \cup {Nobody}
    <2>1. \A m \in Blasts : table[m].by \in Ships \cup {Nobody, Anyone}
      BY <1>3 DEF IInv, TypeOK, Mine
    <2> QED BY <2>1, BearersAreShips DEF Layers
  <1>6. struck \subseteq fleet \X Kinds
    BY DEF Struck, Flying
  <1>7. hit \subseteq fleet
    <2>1. mined \subseteq fleet
      BY DEF Reached
    <2> HIDE DEF struck
    <2> QED BY <1>6, <2>1
  <1>8. tubes' \in [Ships -> [Kinds -> Slot]]
    <2>1. ASSUME NEW s \in Ships, NEW k \in Kinds
          PROVE  Flown(tubes[s][k], k) \in Slot
      <3>1. tubes[s][k] \in Slot /\ Speed(k) \in Int
        BY NumbersAssumption DEF IInv, TypeOK, Speed
      <3> QED BY <3>1 DEF Flown, Slot
    <2>2. Free \in Slot
      BY DEF Free, Slot
    <2> QED BY <1>2, <2>1, <2>2
  <1>9. lastfired' \in [Ships -> Ships \cup {Nobody, Anyone}]
    <2> HIDE DEF struck
    <2>1. ASSUME NEW s \in Ships
          PROVE  LastHit(s, struck, layer) \in Ships \cup {Nobody, Anyone}
      <3>1. tubes[s]["missl"].by \in Ships \cup {Nobody} /\ tubes[s]["torp"].by \in Ships \cup {Nobody}
        BY DEF IInv, TypeOK, Slot, Kinds
      <3>2. s \in DOMAIN layer => layer[s] \in Ships \cup {Nobody}
        BY <1>5
      <3>3. lastfired[s] \in Ships \cup {Nobody, Anyone}
        BY DEF IInv, TypeOK
      <3> QED BY <3>1, <3>2, <3>3 DEF LastHit
    <2> QED BY <1>2, <2>1
  <1> HIDE DEF struck, hit
  <1>10. beaten' \subseteq Ships /\ settling' \in BOOLEAN
    BY <1>2, <1>7 DEF IInv, TypeOK
  <1>11. lock' \in [Ships -> 0 .. FireTicks]
    <2>1. lock' = [s \in Ships |-> IF s \in fleet THEN Max({0, lock[s] - 2}) ELSE lock[s]]
      BY DEF Pass
    <2>2. ASSUME NEW s \in Ships PROVE Max({0, lock[s] - 2}) \in 0 .. FireTicks
      <3>1. lock[s] \in 0 .. FireTicks /\ FireTicks \in Nat
        BY NumbersAssumption DEF IInv, TypeOK
      <3> QED BY <3>1, MaxOfTwo
    <2> QED BY <2>1, <2>2 DEF IInv, TypeOK
  <1>12. /\ credit' \in [Ships -> Ships \cup {Nobody}]
         /\ beat' \in {0, 1}
         /\ UNCHANGED <<fleet, hulls, hang, rows, laying, zips, deaths, played, faults>>
    BY DEF Pass, IInv, TypeOK
  <1>13. FiniteTables'
    BY <1>4, <1>12, FS_Subset DEF IInv, FiniteTables
  <1> QED BY <1>4, <1>8, <1>9, <1>10, <1>11, <1>12, <1>13
          DEF IInv, TypeOK, Tally, hulls, deaths

LEMMA InitSound == Init => IInv
  <1> SUFFICES ASSUME Init PROVE IInv
    OBVIOUS
  <1>1. tubes \in [Ships -> [Kinds -> Slot]]
    BY DEF Init, Slot, Free
  <1>2. DOMAIN table = {} /\ DOMAIN rows = {}
    BY DEF Init, EmptyTable
  <1>3. /\ hang \in [Calls -> HangUps]
        /\ \A h \in Calls : hang[h].at # "no" => hang[h].ship \in Ships
        /\ \A h \in Calls : hang[h].at = "points" => hang[h].by # Anyone
    BY DEF Init, NoHangUp, HangUps
  <1>4. TypeOK
    <2>1. /\ announced \in [Ships -> Nat] /\ finished \in [Ships -> Nat] /\ lock \in [Ships -> 0 .. FireTicks]
          /\ played \in 0 .. MaxPlay /\ faults \in 0 .. MaxFaults
      BY NumbersAssumption DEF Init
    <2> QED BY <1>1, <1>2, <1>3, <2>1 DEF Init, TypeOK
  <1>5. Tally
    BY DEF Init, Tally
  <1>6. FiniteTables
    BY <1>2, FS_EmptySet DEF FiniteTables
  <1> QED BY <1>4, <1>5, <1>6 DEF IInv

-----------------------------------------------------------------------------
(* The theorems.                                                           *)

LEMMA NextKeeps ==
    ASSUME IInv, [Next]_vars
    PROVE  IInv'
  <1>1. CASE \E s \in Ships : Phaser(s) \/ AutoPhaser(s) \/ HyperPhaser(s)
    BY <1>1, ShotsKeep
  <1>2. CASE \E s \in Ships : Mishap(s) \/ Scuttle(s)
    BY <1>2, MishapKeeps, ScuttleKeeps
  <1>3. CASE \E s \in Ships : \/ Saved(s) \/ Look(s) \/ Deleted(s)
                             \/ Board(s) \/ Respawn(s) \/ Leave(s)
    BY <1>3, RowsKeep, BoardKeeps, RespawnKeeps, LeaveKeeps
  <1>4. CASE \E h \in Calls : Accuse(h) \/ Finish(h) \/ \E s \in Ships : HangUp(h, s)
    BY <1>4, HangUpKeeps, AccuseKeeps, FinishKeeps
  <1>5. CASE \E s \in Ships : Lay(s) \/ Zipper(s)
    BY <1>5, LayKeeps, ZipperKeeps
  <1>6. CASE (\E s \in Ships : Zipped(s)) \/ (\E m \in Ids : Erased(m)) \/ Fails
    BY <1>6, ErasuresKeep
  <1>7. CASE \E s \in Ships : \E ks \in {{"torp"}, {"missl"}, Kinds} : Shaken(s, ks)
    BY <1>7, ShakenKeeps
  <1>8. CASE \E a, v \in Ships : Torpedo(a, v) \/ Missile(a, v)
    BY <1>8, LaunchKeeps DEF Torpedo, Missile, Kinds
  <1>9. CASE \E l \in laying : Laid(l)
    BY <1>9, LaidKeeps
  <1>10. CASE Restart \/ Pass \/ Settle
    BY <1>10, RestartKeeps, PassKeeps, SettleKeeps
  <1>11. CASE UNCHANGED vars
    BY <1>11 DEF vars, ships, world, hulls, mines, deaths, IInv, TypeOK, Tally, FiniteTables
  <1> QED BY <1>1, <1>2, <1>3, <1>4, <1>5, <1>6, <1>7, <1>8, <1>9, <1>10, <1>11 DEF Next

\* Every behaviour of a battle is type correct.
THEOREM TypeCorrect == Spec => []TypeOK
  <1>1. IInv => TypeOK
    BY DEF IInv
  <1> QED BY InitSound, NextKeeps, <1>1, PTL DEF Spec

\* A hull that comes into the world is announced destroyed once, by whatever kills it
\* first, and once more for each disconnect that destroyed it (the destroyed event of
\* settleDeaths, of the self-destruct and of the disconnect).
THEOREM HullsDieOnce == Spec => []DestroyedOnce
  <1>1. IInv => DestroyedOnce
    BY DEF IInv, Tally, DestroyedOnce
  <1> QED BY InitSound, NextKeeps, <1>1, PTL DEF Spec

\* One step's change to the table: what does not come from the rows at boot fits.
LEMMA StepsFit ==
    ASSUME IInv, [Next]_vars
    PROVE  [\/ Cardinality(DOMAIN table') <= Cardinality(DOMAIN table)
            \/ Cardinality(DOMAIN table') <= NumMines
            \/ Restart]_vars
  <1>1. CASE Restart \/ UNCHANGED vars
    BY <1>1
  <1>2. CASE \E l \in laying : Laid(l)
    <2>1. PICK l \in laying : Laid(l)
      BY <1>2
    <2>2. /\ DOMAIN table' \in {DOMAIN table, DOMAIN table \cup {l.id}}
          /\ DOMAIN table' = DOMAIN table \/ ~IsFull(table)
      BY <2>1 DEF Laid, Add, With
    <2>3. IsFiniteSet(DOMAIN table) /\ Cardinality(DOMAIN table) \in Nat
      BY FS_CardinalityType DEF IInv, FiniteTables
    <2>4. CASE DOMAIN table' = DOMAIN table
      BY <2>3, <2>4
    <2>5. CASE DOMAIN table' = DOMAIN table \cup {l.id} /\ ~IsFull(table)
      <3>1. Cardinality(DOMAIN table') <= Cardinality(DOMAIN table) + 1
        BY <2>3, <2>5, FS_AddElement
      <3>2. Cardinality(DOMAIN table) < NumMines
        BY <2>3, <2>5, CapsAssumption DEF IsFull
      <3>3. Cardinality(DOMAIN table') \in Nat
        BY <2>3, <2>5, FS_AddElement, FS_CardinalityType
      <3> QED BY <2>3, <3>1, <3>2, <3>3, CapsAssumption
    <2> QED BY <2>2, <2>4, <2>5
  <1>3. ASSUME DOMAIN table' \subseteq DOMAIN table
        PROVE  Cardinality(DOMAIN table') <= Cardinality(DOMAIN table)
    BY <1>3, FS_Subset DEF IInv, FiniteTables
  <1>4. CASE (\E s \in Ships : Leave(s) \/ Scuttle(s)) \/ \E h \in Calls : Finish(h)
    <2>1. PICK s \in Ships : \E blasted : Departs(s, blasted)
      BY <1>4 DEF Leave, Scuttle, Finish, Destroyed, IInv, TypeOK
    <2> QED BY <1>3, <2>1, DepartsKeeps DEF IInv
  <1>5. CASE Settle
    <2>1. PICK s \in Ships : Departs(s, {})
      BY <1>5 DEF Settle, Destroyed, IInv, TypeOK
    <2> QED BY <1>3, <2>1, DepartsKeeps DEF IInv
  <1>6. CASE \E s \in Ships : Zipper(s) \/ Zipped(s)
    <2>1. DOMAIN table' \subseteq DOMAIN table
      BY <1>6 DEF Zipper, Zipped, Without
    <2> QED BY <1>3, <2>1
  <1>7. CASE Pass
    <2>1. table' = Without(TickAll(table), GoingOff(TickAll(table)))
      BY <1>7 DEF Pass, Blasts
    <2>2. DOMAIN table' \subseteq DOMAIN table
      BY <2>1 DEF TickAll, Without
    <2> QED BY <1>3, <2>2
  <1>8. CASE \/ \E s \in Ships : \/ Phaser(s) \/ AutoPhaser(s) \/ HyperPhaser(s)
                                 \/ Mishap(s) \/ Saved(s) \/ Look(s) \/ Deleted(s)
                                 \/ Board(s) \/ Respawn(s) \/ Lay(s)
                                 \/ \E ks \in {{"torp"}, {"missl"}, Kinds} : Shaken(s, ks)
             \/ \E a, v \in Ships : Torpedo(a, v) \/ Missile(a, v)
             \/ \E h \in Calls : Accuse(h) \/ \E s \in Ships : HangUp(h, s)
             \/ \E m \in Ids : Erased(m)
             \/ Fails
    <2>1. table' = table
      BY <1>8 DEF Phaser, AutoPhaser, HyperPhaser, Beam, Mishap, Saved, Look, Deleted, Board,
                  Respawn, HangUp, Accuse, Lay, Shaken, Torpedo, Missile, Launch, Erased,
                  Fails, mines
    <2> QED BY <1>3, <2>1
  <1> QED BY <1>1, <1>2, <1>4, <1>5, <1>6, <1>7, <1>8 DEF Next

\* The mine table outgrows its capacity only when it is read from the rows at boot
\* (MineRegistry.create tests it again after the row is created).
THEOREM TableStaysCapped == Spec => MineTableIsCapped
  <1>1. Spec => []IInv
    BY InitSound, NextKeeps, PTL DEF Spec
  <1> QED BY <1>1, StepsFit, PTL DEF Spec, MineTableIsCapped
-----------------------------------------------------------------------------
(* Whom a kill is put down to.                                             *)

\* While deaths are settled, the killer noted for a ship is the one its last hit
\* names, as long as that one is in the world.
Noted ==
    settling => \A v \in beaten \cap fleet : Attacker(v) # Nobody => credit[v] = Attacker(v)

\* A ship to be settled keeps its turn and its killer, or is put down to him.
TurnsAreKept ==
    [][\A v \in Ships : settling /\ v \in beaten \cap fleet =>
          \/ settling' /\ v \in beaten' \cap fleet' /\ credit'[v] = credit[v]
          \/ credit[v] \in credited'[v] \cup {Nobody}]_vars

\* Nothing else runs while deaths are settled.
LEMMA OnlySettles ==
    ASSUME Next, settling
    PROVE  Settle
  BY DEF Next, Phaser, AutoPhaser, HyperPhaser, Mishap, Scuttle, Saved, Look, Deleted, Board,
         Respawn, Leave, HangUp, Accuse, Finish, Lay, Zipper, Zipped, Shaken, Torpedo, Missile,
         Launch, Laid, Erased, Fails, Restart, Pass, Commands, Plays

\* Only the pass begins a settlement.
LEMMA OnlyPassBegins ==
    ASSUME Next, ~settling, settling'
    PROVE  Pass
  BY DEF Next, Phaser, AutoPhaser, HyperPhaser, Beam, Mishap, Scuttle, Saved, Look, Deleted,
         Board, Respawn, Leave, HangUp, Accuse, Finish, Lay, Zipper, Zipped, Shaken, Torpedo,
         Missile, Launch, Laid, Erased, Fails, Restart, Settle

\* A settled ship is put down to the killer noted for it; whoever waits keeps his.
LEMMA SettleFacts ==
    ASSUME IInv, Settle
    PROVE  \E d \in beaten \cap fleet :
              /\ fleet' = fleet \ {d} /\ beaten' = beaten
              /\ settling' = (beaten \cap fleet # {d})
              /\ lastfired' = [s \in Ships |-> IF s \in fleet \ {d} /\ lastfired[s] = d
                                               THEN Nobody ELSE Passed(lastfired[s], d)]
              /\ \A v \in Ships \ {d} : credit'[v] = credit[v]
              /\ credit[d] \in credited'[d] \cup {Nobody}
  <1>1. PICK i \in DOMAIN Order :
           /\ Order[i] \in beaten \cap fleet
           /\ Announced(Order[i], KillerOf(Order[i])) /\ Departs(Order[i], {})
           /\ settling' = (beaten \cap fleet # {Order[i]}) /\ beaten' = beaten
           /\ credit' = [credit EXCEPT ![Order[i]] = Nobody]
    BY DEF Settle, Destroyed
  <1> DEFINE d == Order[i]
  <1> HIDE DEF d
  <1>2. /\ d \in beaten \cap fleet /\ d \in Ships
        /\ Announced(d, KillerOf(d)) /\ Departs(d, {})
        /\ settling' = (beaten \cap fleet # {d}) /\ beaten' = beaten
        /\ credit' = [credit EXCEPT ![d] = Nobody]
    BY <1>1 DEF d, IInv, TypeOK
  <1>3. /\ fleet' = fleet \ {d}
        /\ lastfired' = [s \in Ships |-> IF s \in fleet \ {d} /\ lastfired[s] = d
                                         THEN Nobody ELSE Passed(lastfired[s], d)]
    BY <1>2 DEF Departs
  <1>4. credited'[d] = credited[d] \cup ({credit[d]} \ {Nobody})
    BY <1>2 DEF Announced, KillerOf, IInv, TypeOK
  <1>5. \A v \in Ships \ {d} : credit'[v] = credit[v]
    BY <1>2 DEF IInv, TypeOK
  <1> QED BY <1>2, <1>3, <1>4, <1>5

LEMMA NotedKeeps ==
    ASSUME IInv, Noted, [Next]_vars
    PROVE  Noted'
  <1>1. CASE UNCHANGED vars
    BY <1>1 DEF vars, ships, world, Noted, Attacker
  <1>2. CASE Next /\ ~settling /\ settling'
    <2>1. Pass
      BY <1>2, OnlyPassBegins
    <2>2. fleet' = fleet /\ fleet \subseteq Ships
      BY <2>1 DEF Pass, IInv, TypeOK
    <2>3. credit' = [v \in Ships |-> IF v \in beaten' \cap fleet /\ lastfired'[v] \in fleet \ {v}
                                     THEN lastfired'[v] ELSE Nobody]
      BY <2>1 DEF Pass
    <2> QED BY <2>2, <2>3 DEF Noted, Attacker
  <1>3. CASE Next /\ settling
    <2>1. PICK d \in beaten \cap fleet :
              /\ fleet' = fleet \ {d} /\ beaten' = beaten
              /\ lastfired' = [s \in Ships |-> IF s \in fleet \ {d} /\ lastfired[s] = d
                                               THEN Nobody ELSE Passed(lastfired[s], d)]
              /\ \A v \in Ships \ {d} : credit'[v] = credit[v]
      BY <1>3, OnlySettles, SettleFacts
    <2> SUFFICES ASSUME NEW v \in beaten' \cap fleet', Attacker(v)' # Nobody
                 PROVE  credit'[v] = Attacker(v)'
      BY DEF Noted
    <2>2. v \in Ships /\ v # d /\ v \in beaten \cap fleet /\ credit'[v] = credit[v]
      BY <2>1 DEF IInv, TypeOK
    <2>3. lastfired'[v] \in fleet' \ {v} /\ Attacker(v)' = lastfired'[v]
      BY DEF Attacker
    <2>4. Nobody \notin fleet /\ Anyone \notin fleet
      BY ShipsAssumption DEF IInv, TypeOK
    <2>5. lastfired'[v] = lastfired[v]
      BY <2>1, <2>2, <2>3, <2>4 DEF Passed
    <2>6. Attacker(v) = lastfired[v] /\ Attacker(v) # Nobody
      BY <2>1, <2>3, <2>4, <2>5 DEF Attacker
    <2> QED BY <1>3, <2>2, <2>3, <2>5, <2>6 DEF Noted
  <1>4. CASE Next /\ ~settling /\ ~settling'
    BY <1>4 DEF Noted
  <1> QED BY <1>1, <1>2, <1>3, <1>4

\* A kill owed is put down to the ship whose shot was the last, even if that ship is
\* settled first (attackerSnapshot of settleDeaths). PairsScoreBoth is this, and that
\* the settlement goes on.
THEOREM KillsOwedAreScored == Spec => []Noted /\ TurnsAreKept
  <1>1. Init => Noted
    BY DEF Init, Noted
  <1>2. IInv /\ [Next]_vars =>
          [\A v \in Ships : settling /\ v \in beaten \cap fleet =>
              \/ settling' /\ v \in beaten' \cap fleet' /\ credit'[v] = credit[v]
              \/ credit[v] \in credited'[v] \cup {Nobody}]_vars
    <2> SUFFICES ASSUME IInv, Next, NEW v \in Ships, settling, v \in beaten \cap fleet
                 PROVE  \/ settling' /\ v \in beaten' \cap fleet' /\ credit'[v] = credit[v]
                        \/ credit[v] \in credited'[v] \cup {Nobody}
      OBVIOUS
    <2> QED BY OnlySettles, SettleFacts
  <1> QED BY InitSound, NextKeeps, NotedKeeps, <1>1, <1>2, PTL DEF Spec, TurnsAreKept

=============================================================================
