--------------------------- MODULE Midnight_proofs ---------------------------
(***************************************************************************)
(* For any captains, teams and planets, and any number of kills and joins  *)
(* in flight: what a nightly pass publishes is reckoned from one picture,  *)
(* so that Midnight implements Standings; its reports are out once a day,  *)
(* and only with the day in the ledger.                                    *)
(***************************************************************************)
EXTENDS Midnight, FiniteSetTheorems, WellFoundedInduction, TLAPS

-----------------------------------------------------------------------------
(* Sums.  SumFunctionOnSet picks one element after the other; that it *)
(* exists and is a number is shown by the smallest counterexample.          *)

Sum(f, S) == SumFunctionOnSet(f, S)
Pick(s)   == CHOOSE x \in s : TRUE

\* One more is picked from s, the rest has been summed by F.
Summed(f, F, s) == IF s = {} THEN 0 ELSE f[Pick(s)] + F[s \ {Pick(s)}]

\* The subsets of S with at most n elements.
Level(S, n) == {s \in SUBSET S : Cardinality(s) <= n}

Sums(f, F, D) == F = [s \in D |-> Summed(f, F, s)]

LEMMA SumIsChosen ==
    ASSUME NEW f, NEW S
    PROVE  Sum(f, S) = (CHOOSE F : Sums(f, F, SUBSET S))[S]
  BY DEF Sum, SumFunctionOnSet, FoldFunctionOnSet, MapThenFoldSet, Sums, Summed, Pick

LEMMA Least ==
    ASSUME NEW T \in SUBSET Nat, T # {}
    PROVE  \E n \in T : \A m \in T : n <= m
  <1>1. IsWellFoundedOn(OpToRel(<, Nat), Nat)
    BY NatLessThanWellFounded
  <1>2. PICK n \in T : \A m \in T : ~ (<<m, n>> \in OpToRel(<, Nat))
    BY <1>1, WFMin
  <1>3. OpToRel(<, Nat) = {pair \in Nat \X Nat : pair[1] < pair[2]}
    BY Zenon DEF OpToRel
  <1>4. ASSUME NEW m \in T PROVE ~ (m < n)
    <2>1. <<m, n>> \notin {pair \in Nat \X Nat : pair[1] < pair[2]}
      BY <1>2, <1>3
    <2> QED BY <2>1
  <1> QED BY <1>4

LEMMA Picked ==
    ASSUME NEW s, s # {}
    PROVE  Pick(s) \in s
  BY DEF Pick

LEMMA LevelsDescend ==
    ASSUME NEW S, IsFiniteSet(S), NEW n \in Nat, NEW s \in Level(S, n), s # {}
    PROVE  n # 0 /\ s \ {Pick(s)} \in Level(S, n - 1) /\ s \ {Pick(s)} \in Level(S, n)
  <1>1. IsFiniteSet(s) /\ Cardinality(s) \in Nat /\ Cardinality(s) <= n /\ Cardinality(s) # 0
    BY FS_Subset, FS_CardinalityType, FS_EmptySet DEF Level
  <1>2. Cardinality(s \ {Pick(s)}) = Cardinality(s) - 1
    BY <1>1, Picked, FS_RemoveElement
  <1> QED BY <1>1, <1>2 DEF Level

LEMMA LastLevel ==
    ASSUME NEW S, IsFiniteSet(S)
    PROVE  Cardinality(S) \in Nat /\ Level(S, Cardinality(S)) = SUBSET S
  <1>1. \A s \in SUBSET S : Cardinality(s) <= Cardinality(S)
    BY FS_Subset
  <1> QED BY <1>1, FS_CardinalityType DEF Level

LEMMA SumsExist ==
    ASSUME NEW f, NEW S, IsFiniteSet(S)
    PROVE  \E F : Sums(f, F, SUBSET S)
  <1> DEFINE Missing == {n \in Nat : ~ \E F : Sums(f, F, Level(S, n))}
  <1>1. Missing = {}
    <2> SUFFICES ASSUME Missing # {} PROVE FALSE
      OBVIOUS
    <2>1. PICK n \in Missing : \A m \in Missing : n <= m
      BY Least
    <2>2. CASE n = 0
      <3>1. \A s \in Level(S, 0) : s = {}
        BY LevelsDescend
      <3>2. Sums(f, [s \in Level(S, 0) |-> 0], Level(S, 0))
        BY <3>1 DEF Sums, Summed
      <3> QED BY <2>1, <2>2, <3>2
    <2>3. CASE n # 0
      <3>1. PICK F : Sums(f, F, Level(S, n - 1))
        BY <2>1, <2>3
      <3> DEFINE G == [s \in Level(S, n) |-> Summed(f, F, s)]
      <3>2. ASSUME NEW s \in Level(S, n) PROVE G[s] = Summed(f, G, s)
        <4>1. CASE s = {}
          BY <4>1 DEF Summed
        <4>2. CASE s # {}
          <5> DEFINE r == s \ {Pick(s)}
          <5>1. r \in Level(S, n - 1)
            BY <4>2, <2>1, LevelsDescend
          <5>2. r \in Level(S, n)
            BY <4>2, <2>1, LevelsDescend
          <5>3. F[r] = Summed(f, F, r)
            BY <3>1, <5>1 DEF Sums
          <5>4. G[r] = F[r]
            BY <5>2, <5>3
          <5> QED BY <4>2, <5>4 DEF Summed
        <4> QED BY <4>1, <4>2
      <3>3. Sums(f, G, Level(S, n))
        BY <3>2 DEF Sums
      <3> QED BY <2>1, <3>3
    <2> QED BY <2>2, <2>3
  <1>2. Cardinality(S) \in Nat /\ Level(S, Cardinality(S)) = SUBSET S
    BY LastLevel
  <1>3. \E F : Sums(f, F, Level(S, Cardinality(S)))
    BY <1>1, <1>2
  <1> QED BY <1>2, <1>3

LEMMA SumIsNat ==
    ASSUME NEW f, NEW S, IsFiniteSet(S), \A x \in S : f[x] \in Nat
    PROVE  Sum(f, S) \in Nat
  <1> DEFINE F == CHOOSE F : Sums(f, F, SUBSET S)
             Odd == {n \in Nat : \E s \in Level(S, n) : F[s] \notin Nat}
  <1>1. Sums(f, F, SUBSET S)
    BY SumsExist
  <1> HIDE DEF F
  <1>2. Odd = {}
    <2> SUFFICES ASSUME Odd # {} PROVE FALSE
      OBVIOUS
    <2>1. PICK n \in Odd : \A m \in Odd : n <= m
      BY Least
    <2>2. PICK s \in Level(S, n) : F[s] \notin Nat
      BY <2>1
    <2>3. s \in SUBSET S
      BY DEF Level
    <2>4. F[s] = IF s = {} THEN 0 ELSE f[Pick(s)] + F[s \ {Pick(s)}]
      BY <1>1, <2>3 DEF Sums, Summed
    <2>5. s # {}
      BY <2>2, <2>4
    <2>6. n # 0 /\ s \ {Pick(s)} \in Level(S, n - 1) /\ Pick(s) \in S
      BY <2>1, <2>3, <2>5, LevelsDescend, Picked
    <2>7. F[s \ {Pick(s)}] \in Nat
      BY <2>1, <2>6
    <2> QED BY <2>2, <2>4, <2>5, <2>6, <2>7
  <1>3. Cardinality(S) \in Nat /\ S \in Level(S, Cardinality(S))
    BY LastLevel
  <1>4. F[S] \in Nat
    BY <1>2, <1>3
  <1> QED BY <1>4, SumIsChosen DEF F

-----------------------------------------------------------------------------
(* The invariant.                                                          *)

\* The types, but for the bounds of the model.
Typed ==
    /\ up \in BOOLEAN /\ day \in Day
    /\ owner \in [Planets -> Users \cup {Nobody}]
    /\ user \in [Users -> UserRow] /\ team \in [Teams -> TeamRow]
    /\ reports \subseteq Report
    /\ ledger \subseteq Day
    /\ lock \in [Rows -> Txs \cup {None}]
    /\ pass \in [Passes -> [at : {"idle", "ledger", "start", "users", "planets", "teams", "score", "commit"},
                            day : Day]]
    /\ draft \in [user : [Users -> UserRow], team : [Teams -> TeamRow],
                  reports : SUBSET Report, done : SUBSET Rows]
    /\ seen \in [Planets -> Users \cup {Nobody}]
    /\ kill \in [Kills -> [at : {"idle", "hit", "award"}, victim : Users \cup {None},
                           by : Users \cup {None}, score : Nat, kills : Nat]]
    /\ join \in [Joins -> [at : {"idle", "row", "enter"}, user : Users \cup {None},
                           team : Teams \cup {NoTeam}]]
    /\ passes \in [Day -> Nat]

Working(p) == pass[p].at \in {"users", "planets", "teams", "score", "commit"}

\* The transactions in flight name rows that exist, and hold what they wrote.
Flights ==
    /\ \A k \in Kills : kill[k].at # "idle" => kill[k].victim \in Users /\ kill[k].by \in Users
    /\ \A k \in Kills : kill[k].at = "award" => lock[kill[k].victim] = k
    /\ \A j \in Joins : join[j].at # "idle" => join[j].user \in Users /\ join[j].team \in Teams

\* Nothing runs in a process that is down.
DownIsQuiet == ~up => \A p \in Passes : pass[p].at = "idle"

\* One pass works at a time: the one that holds the advisory lock. It holds every
\* row that it has written, and there is no draft without it.
OnePass ==
    /\ \A p \in Passes : Working(p) <=> lock[Key] = p
    /\ lock[Key] \in Passes \cup {None}
    /\ lock[Key] = None => draft = NoDraft
    /\ \A r \in draft.done : lock[r] = lock[Key]

\* What the game may not have changed since it was copied.
DraftIsCurrent ==
    \A u \in Users \cap draft.done :
        draft.user[u].kills = user[u].kills /\ draft.user[u].member = user[u].member

\* How far the pass has come.
UsersAreDone(p) == pass[p].at \in {"planets", "teams", "score", "commit"}
PlanetsAreRead(p) == pass[p].at \in {"teams", "score", "commit"}
TeamsAreDone(p) == pass[p].at \in {"score", "commit"}

PhasesInOrder ==
    \A p \in Passes :
        /\ UsersAreDone(p) => Users \subseteq draft.done
        /\ PlanetsAreRead(p) =>
              \A u \in Users : draft.user[u].worth = Cardinality({pl \in Planets : seen[pl] = u})
        /\ TeamsAreDone(p) => Teams \subseteq draft.done
        /\ pass[p].at = "commit" =>
              /\ \A u \in Users : draft.user[u].place = RosterPlace(u)
              /\ \A t \in Teams : /\ draft.team[t].count = Counted(t)
                                  /\ draft.team[t].points = TeamScored(t)
                                  /\ draft.team[t].removed = (team[t].removed \/ Counted(t) = 0)

\* The row of a team is copied, and stays as it is until the commit.
TeamsAreCurrent ==
    \A p \in Passes : Working(p) /\ pass[p].at # "commit" =>
        \A t \in Teams \cap draft.done : draft.team[t].removed = team[t].removed

\* Every report is numbered by its day and its planet, and is of a day that the
\* ledger has, or has with the commit.
ReportsAreNumbered == \A r \in reports \cup draft.reports : r.no = <<r.day, r.planet>>

ReportsAreCovered ==
    /\ \A r \in reports : r.day \in ledger
    /\ \A p \in Passes : Working(p) =>
          \A r \in draft.reports : r.day \in ledger \cup {pass[p].day}

IInv ==
    /\ Typed /\ Flights /\ DownIsQuiet /\ OnePass /\ DraftIsCurrent /\ PhasesInOrder /\ TeamsAreCurrent
    /\ ReportsAreNumbered /\ ReportsAreCovered

-----------------------------------------------------------------------------
(* Operators.                                                              *)

LEMMA MaxOfTwo ==
    ASSUME NEW x \in Int, NEW y \in Int
    PROVE  Max({x, y}) = IF x >= y THEN x ELSE y
  <1>1. \E z \in {x, y} : \A w \in {x, y} : z >= w
    OBVIOUS
  <1> DEFINE m == Max({x, y})
  <1>2. m \in {x, y} /\ \A w \in {x, y} : m >= w
    BY <1>1 DEF Max
  <1> HIDE DEF m
  <1> QED BY <1>2 DEF m

\* Counting captains and planets gives numbers, and a team with a member counts one.
LEMMA Counts ==
    /\ \A S \in SUBSET Users : IsFiniteSet(S) /\ Cardinality(S) \in Nat
    /\ \A S \in SUBSET Planets : Cardinality(S) \in Nat
    /\ \A S \in SUBSET Users : (Cardinality(S) = 0) <=> (S = {})
  <1>1. \A S \in SUBSET Users : IsFiniteSet(S)
    BY UsersAssumption, FS_Subset
  <1>2. \A S \in SUBSET Planets : IsFiniteSet(S)
    BY PlanetsAssumption, FS_Subset
  <1> QED BY <1>1, <1>2, FS_CardinalityType, FS_EmptySet

\* Who the transactions are, and what they lock.
LEMMA Disjoint ==
    /\ None \notin Passes /\ None \notin Kills /\ None \notin Joins
    /\ \A p \in Passes : p \notin Kills /\ p \notin Joins
    /\ \A k \in Kills : k \notin Joins
    /\ Key \in Rows /\ Key \notin Users /\ Key \notin Teams
    /\ Users \subseteq Rows /\ Teams \subseteq Rows
    /\ \A u \in Users : u \notin Teams
  BY TxsAssumption, RowsAssumption DEF Passes, Rows

LEMMA EmptyDraft ==
    /\ NoDraft \in [user : [Users -> UserRow], team : [Teams -> TeamRow],
                    reports : SUBSET Report, done : SUBSET Rows]
    /\ NoDraft.done = {} /\ NoDraft.reports = {}
    /\ NewUser \in UserRow /\ NewTeam \in TeamRow
  <1>1. NewUser \in UserRow
    BY DEF NewUser, UserRow
  <1>2. NewTeam \in TeamRow
    BY DEF NewTeam, TeamRow
  <1> QED BY <1>1, <1>2 DEF NoDraft

-----------------------------------------------------------------------------
(* The calendar and the callers.                                           *)

\* A step that only moves passes that do not work yet.
LEMMA CallersKeep ==
    ASSUME IInv,
           UNCHANGED <<user, team, reports, ledger, lock, draft, seen, owner, kill, join, passes>>,
           up' \in BOOLEAN, day' \in Day, DownIsQuiet',
           pass' \in [Passes -> [at : {"idle", "ledger", "start", "users", "planets", "teams",
                                       "score", "commit"}, day : Day]],
           \A p \in Passes : pass'[p] = pass[p] \/ (~Working(p) /\ ~Working(p)')
    PROVE  IInv'
  <1>1. \A p \in Passes : Working(p)' <=> Working(p)
    BY DEF Working
  <1>2. \A p \in Passes : Working(p) => pass'[p] = pass[p]
    BY DEF Working
  <1>3. Typed'
    BY DEF IInv, Typed
  <1>4. Flights' /\ DraftIsCurrent'
    BY DEF IInv, Flights, DraftIsCurrent
  <1>5. OnePass'
    BY <1>1 DEF IInv, OnePass
  <1>6. PhasesInOrder'
    <2>1. \A p \in Passes : /\ UsersAreDone(p)' => UsersAreDone(p)
                            /\ PlanetsAreRead(p)' => PlanetsAreRead(p)
                            /\ TeamsAreDone(p)' => TeamsAreDone(p)
                            /\ pass'[p].at = "commit" => pass[p].at = "commit"
      BY <1>1, <1>2 DEF UsersAreDone, PlanetsAreRead, TeamsAreDone, Working
    <2>2. /\ \A u \in Users : RosterPlace(u)' = RosterPlace(u)
          /\ \A t \in Teams : Counted(t)' = Counted(t) /\ TeamScored(t)' = TeamScored(t)
      BY DEF RosterPlace, Scored, Counted, Members, TeamScored
    <2> QED BY <2>1, <2>2 DEF IInv, PhasesInOrder
  <1>7. TeamsAreCurrent'
    BY <1>1, <1>2 DEF IInv, TeamsAreCurrent, Working
  <1>8. ReportsAreNumbered' /\ ReportsAreCovered'
    BY <1>1, <1>2 DEF IInv, ReportsAreNumbered, ReportsAreCovered
  <1> QED BY <1>3, <1>4, <1>5, <1>6, <1>7, <1>8 DEF IInv

LEMMA CallsKeep ==
    ASSUME IInv, NewDay \/ Request \/ SelfHeal \/ Restart
    PROVE  IInv'
  <1>0. day \in Day /\ day \in Nat /\ MaxDay \in Nat /\ up \in BOOLEAN
    BY BoundsAssumption DEF IInv, Typed, Day
  <1>1. CASE NewDay
    <2>1. day' \in Day /\ (pass' = pass \/
             (pass[Cron].at = "idle" /\ pass' = [pass EXCEPT ![Cron] = [at |-> "start", day |-> day']]))
      BY <1>0, <1>1 DEF NewDay, Day, IInv, Typed
    <2>2. /\ pass' \in [Passes -> [at : {"idle", "ledger", "start", "users", "planets", "teams",
                                         "score", "commit"}, day : Day]]
          /\ \A p \in Passes : pass'[p] = pass[p] \/ (~Working(p) /\ ~Working(p)')
      BY <2>1 DEF IInv, Typed, Working, Passes
    <2>3. DownIsQuiet'
      BY <1>1 DEF NewDay, IInv, DownIsQuiet
    <2> QED BY <1>0, <1>1, <2>1, <2>2, <2>3, CallersKeep DEF NewDay, game
  <1>2. CASE Request
    <2>1. /\ pass' \in [Passes -> [at : {"idle", "ledger", "start", "users", "planets", "teams",
                                         "score", "commit"}, day : Day]]
          /\ \A p \in Passes : pass'[p] = pass[p] \/ (~Working(p) /\ ~Working(p)')
      BY <1>0, <1>2 DEF Request, IInv, Typed, Working, Passes
    <2>2. DownIsQuiet'
      BY <1>2 DEF Request, DownIsQuiet
    <2> QED BY <1>0, <1>2, <2>1, <2>2, CallersKeep DEF Request, game
  <1>3. CASE SelfHeal
    <2>1. Idle \in [at : {"idle", "ledger", "start", "users", "planets", "teams", "score", "commit"},
                    day : Day] /\ Idle.at = "idle"
      BY BoundsAssumption DEF Idle, Day
    <2>2. /\ pass' \in [Passes -> [at : {"idle", "ledger", "start", "users", "planets", "teams",
                                         "score", "commit"}, day : Day]]
          /\ \A p \in Passes : pass'[p] = pass[p] \/ (~Working(p) /\ ~Working(p)')
      BY <1>0, <1>3, <2>1 DEF SelfHeal, IInv, Typed, Working, Passes
    <2>3. DownIsQuiet'
      BY <1>3 DEF SelfHeal, IInv, DownIsQuiet, Passes
    <2> QED BY <1>0, <1>3, <2>2, <2>3, CallersKeep DEF SelfHeal, game
  <1>4. CASE Restart
    <2>1. pass[Boot].at = "idle" /\ up' = TRUE
      BY <1>4 DEF Restart, IInv, DownIsQuiet, Passes
    <2>2. /\ pass' \in [Passes -> [at : {"idle", "ledger", "start", "users", "planets", "teams",
                                         "score", "commit"}, day : Day]]
          /\ \A p \in Passes : pass'[p] = pass[p] \/ (~Working(p) /\ ~Working(p)')
      BY <1>0, <1>4, <2>1 DEF Restart, IInv, Typed, Working, Passes
    <2> QED BY <1>0, <1>4, <2>1, <2>2, CallersKeep DEF Restart, game, DownIsQuiet
  <1> QED BY <1>1, <1>2, <1>3, <1>4

-----------------------------------------------------------------------------
(* The game meanwhile.                                                     *)

\* A step of the game: no row that a pass holds is written or released.
LEMMA GameKeeps ==
    ASSUME IInv,
           UNCHANGED <<up, day, team, reports, ledger, pass, draft, seen, passes>>,
           owner' \in [Planets -> Users \cup {Nobody}],
           user' \in [Users -> UserRow],
           lock' \in [Rows -> Txs \cup {None}],
           kill' \in [Kills -> [at : {"idle", "hit", "award"}, victim : Users \cup {None},
                                by : Users \cup {None}, score : Nat, kills : Nat]],
           join' \in [Joins -> [at : {"idle", "row", "enter"}, user : Users \cup {None},
                                team : Teams \cup {NoTeam}]],
           lock'[Key] = lock[Key],
           \A r \in Rows : lock[r] \in Passes => lock'[r] = lock[r],
           \A u \in Users : lock[u] \in Passes =>
                /\ user'[u].kills = user[u].kills /\ user'[u].member = user[u].member,
           Flights'
    PROVE  IInv'
  <1>1. \A p \in Passes : Working(p)' <=> Working(p)
    BY DEF Working
  <1>2. draft.done \subseteq Rows /\ \A r \in draft.done : lock[r] \in Passes
    <2>1. draft.done \subseteq Rows
      BY DEF IInv, Typed
    <2>2. draft.done # {} => lock[Key] \in Passes
      BY EmptyDraft DEF IInv, OnePass
    <2> QED BY <2>1, <2>2 DEF IInv, OnePass
  <1>3. Typed'
    BY DEF IInv, Typed
  <1>4. OnePass'
    BY <1>1, <1>2 DEF IInv, OnePass
  <1>5. DraftIsCurrent'
    BY <1>2 DEF IInv, DraftIsCurrent
  <1>6. PhasesInOrder' /\ TeamsAreCurrent'
    <2>1. /\ \A u \in Users : RosterPlace(u)' = RosterPlace(u)
          /\ \A t \in Teams : Counted(t)' = Counted(t) /\ TeamScored(t)' = TeamScored(t)
      BY DEF RosterPlace, Scored, Counted, Members, TeamScored
    <2> QED BY <2>1 DEF IInv, PhasesInOrder, TeamsAreCurrent, UsersAreDone, PlanetsAreRead, TeamsAreDone,
                     Working
  <1>7. ReportsAreNumbered' /\ ReportsAreCovered' /\ DownIsQuiet'
    BY <1>1 DEF IInv, ReportsAreNumbered, ReportsAreCovered, DownIsQuiet
  <1> QED BY <1>3, <1>4, <1>5, <1>6, <1>7 DEF IInv

\* What a transaction gives back at its end is its own.
LEMMA EndedKeeps ==
    ASSUME IInv, NEW x \in Kills \cup Joins
    PROVE  /\ Ended(x) \in [Rows -> Txs \cup {None}]
           /\ Ended(x)[Key] = lock[Key]
           /\ \A r \in Rows : lock[r] \in Passes => Ended(x)[r] = lock[r]
           /\ \A r \in Rows : lock[r] # x => Ended(x)[r] = lock[r]
  BY Disjoint DEF Ended, IInv, Typed, OnePass

LEMMA KillsKeep ==
    ASSUME IInv, NEW k \in Kills,
           (\E v, u \in Users : Strike(k, v, u)) \/ HitVictim(k) \/ Award(k) \/ KillFails(k)
    PROVE  IInv'
  <1>1. /\ kill[k] \in [at : {"idle", "hit", "award"}, victim : Users \cup {None},
                        by : Users \cup {None}, score : Nat, kills : Nat]
        /\ user \in [Users -> UserRow] /\ {Prize, Toll} \subseteq Nat
    BY BoundsAssumption DEF IInv, Typed
  <1>2. NoKill \in [at : {"idle", "hit", "award"}, victim : Users \cup {None},
                    by : Users \cup {None}, score : Nat, kills : Nat] /\ NoKill.at = "idle"
    BY DEF NoKill
  <1>3. ASSUME NEW v \in Users, NEW u \in Users, Strike(k, v, u)
        PROVE  IInv'
    <2>1. /\ kill' \in [Kills -> [at : {"idle", "hit", "award"}, victim : Users \cup {None},
                                  by : Users \cup {None}, score : Nat, kills : Nat]]
          /\ Flights'
      BY <1>1, <1>3 DEF Strike, IInv, Typed, UserRow, Flights
    <2> QED BY <1>3, <2>1, GameKeeps DEF Strike, IInv, Typed
  <1>4. CASE HitVictim(k)
    <2>1. kill[k].victim \in Users /\ kill[k].by \in Users /\ lock[kill[k].victim] = None
      BY <1>4 DEF HitVictim, Free, IInv, Flights
    <2>2. lock' = [lock EXCEPT ![kill[k].victim] = k] /\ kill' = [kill EXCEPT ![k].at = "award"]
      BY <1>4 DEF HitVictim, Held
    <2>3. /\ lock' \in [Rows -> Txs \cup {None}] /\ lock'[Key] = lock[Key]
          /\ \A r \in Rows : lock[r] \in Passes => lock'[r] = lock[r]
          /\ \A r \in Rows : lock[r] \in Kills => lock'[r] = lock[r]
      BY <2>1, <2>2, Disjoint DEF IInv, Typed, Txs
    <2>4. kill' \in [Kills -> [at : {"idle", "hit", "award"}, victim : Users \cup {None},
                               by : Users \cup {None}, score : Nat, kills : Nat]]
      BY <1>1, <2>2 DEF IInv, Typed
    <2>5. Flights'
      BY <1>4, <2>1, <2>2, <2>3, Disjoint DEF HitVictim, IInv, Typed, Flights
    <2> QED BY <1>4, <2>3, <2>4, <2>5, GameKeeps DEF HitVictim, IInv, Typed
  <1>5. ASSUME lock' = Ended(k), kill' = [kill EXCEPT ![k] = NoKill], UNCHANGED join
        PROVE  /\ kill' \in [Kills -> [at : {"idle", "hit", "award"}, victim : Users \cup {None},
                                       by : Users \cup {None}, score : Nat, kills : Nat]]
               /\ Flights'
    <2>1. kill' \in [Kills -> [at : {"idle", "hit", "award"}, victim : Users \cup {None},
                               by : Users \cup {None}, score : Nat, kills : Nat]]
      BY <1>2, <1>5 DEF IInv, Typed
    <2>2. Flights'
      BY <1>2, <1>5, EndedKeeps, Disjoint DEF IInv, Typed, Flights
    <2> QED BY <2>1, <2>2
  <1>6. CASE Award(k)
    <2> DEFINE v == kill[k].victim
               u == kill[k].by
    <2>1. v \in Users /\ u \in Users /\ lock[v] = k /\ lock[u] = None
      BY <1>6 DEF Award, Free, IInv, Flights
    <2>2. \A row \in UserRow : Loses(row, k) \in UserRow /\ Gains(row) \in UserRow
      <3>1. kill[k].score \in Nat /\ kill[k].kills \in Nat
        BY <1>1
      <3>2. Deducted(kill[k].score) \in Nat /\ Deducted(kill[k].kills) \in Nat
        BY <1>1, <3>1 DEF Deducted
      <3>3. ASSUME NEW row \in UserRow PROVE Loses(row, k) \in UserRow
        BY <3>2 DEF Loses, UserRow
      <3>4. ASSUME NEW row \in UserRow PROVE Gains(row) \in UserRow
        <4>1. row.score + Prize \in Nat /\ row.kills + Prize \in Nat
          BY <1>1 DEF UserRow
        <4> QED BY <4>1 DEF Gains, UserRow
      <3> QED BY <3>3, <3>4
    <2>3. user' = [user EXCEPT ![v] = Loses(@, k), ![u] = Gains(@)]
      BY <1>6 DEF Award
    <2>4. /\ user' \in [Users -> UserRow]
          /\ \A w \in Users : w # v /\ w # u => user'[w] = user[w]
      BY <1>1, <2>1, <2>2, <2>3
    <2> HIDE DEF u, v
    <2>5. \A w \in Users : lock[w] \in Passes => user'[w] = user[w]
      BY <2>1, <2>4, Disjoint
    <2>6. /\ lock' = Ended(k) /\ kill' = [kill EXCEPT ![k] = NoKill]
          /\ UNCHANGED <<up, day, owner, team, reports, ledger, pass, draft, seen, join, passes>>
      BY <1>6 DEF Award
    <2>7. /\ lock' \in [Rows -> Txs \cup {None}] /\ lock'[Key] = lock[Key]
          /\ \A r \in Rows : lock[r] \in Passes => lock'[r] = lock[r]
      BY <2>6, EndedKeeps
    <2> QED BY <1>5, <2>4, <2>5, <2>6, <2>7, GameKeeps DEF IInv, Typed
  <1>7. CASE KillFails(k)
    BY <1>5, <1>7, EndedKeeps, GameKeeps DEF KillFails, IInv, Typed
  <1> QED BY <1>3, <1>4, <1>6, <1>7

LEMMA JoinsKeep ==
    ASSUME IInv, NEW j \in Joins,
           (\E u \in Users, t \in Teams : AskToJoin(j, u, t)) \/ LockTeam(j) \/ Enter(j) \/ JoinFails(j)
    PROVE  IInv'
  <1>1. /\ join[j] \in [at : {"idle", "row", "enter"}, user : Users \cup {None},
                        team : Teams \cup {NoTeam}]
        /\ user \in [Users -> UserRow]
    BY DEF IInv, Typed
  <1>2. NoJoin \in [at : {"idle", "row", "enter"}, user : Users \cup {None},
                    team : Teams \cup {NoTeam}] /\ NoJoin.at = "idle"
    BY DEF NoJoin
  <1>3. ASSUME NEW u \in Users, NEW t \in Teams, AskToJoin(j, u, t)
        PROVE  IInv'
    <2>1. /\ join' \in [Joins -> [at : {"idle", "row", "enter"}, user : Users \cup {None},
                                  team : Teams \cup {NoTeam}]]
          /\ Flights'
      BY <1>3 DEF AskToJoin, IInv, Typed, Flights
    <2> QED BY <1>3, <2>1, GameKeeps DEF AskToJoin, IInv, Typed
  <1>4. ASSUME lock' = lock \/ lock' = Ended(j), join' = [join EXCEPT ![j] = NoJoin], UNCHANGED kill
        PROVE  /\ join' \in [Joins -> [at : {"idle", "row", "enter"}, user : Users \cup {None},
                                       team : Teams \cup {NoTeam}]]
               /\ Flights'
    <2>1. join' \in [Joins -> [at : {"idle", "row", "enter"}, user : Users \cup {None},
                               team : Teams \cup {NoTeam}]]
      BY <1>2, <1>4 DEF IInv, Typed
    <2>2. \A r \in Rows : lock[r] \in Kills => lock'[r] = lock[r]
      BY <1>4, EndedKeeps, Disjoint
    <2>3. Flights'
      BY <1>2, <1>4, <2>2, Disjoint DEF IInv, Typed, Flights
    <2> QED BY <2>1, <2>3
  <1>5. CASE LockTeam(j)
    <2>1. CASE join' = [join EXCEPT ![j] = NoJoin] /\ UNCHANGED lock
      BY <1>4, <1>5, <2>1, GameKeeps DEF LockTeam, IInv, Typed
    <2>2. CASE lock' = Held(join[j].team, j) /\ join' = [join EXCEPT ![j].at = "enter"]
      <3>1. join[j].user \in Users /\ join[j].team \in Teams /\ lock[join[j].team] = None
        BY <1>5 DEF LockTeam, Free, IInv, Flights
      <3>2. lock' = [lock EXCEPT ![join[j].team] = j]
        BY <2>2 DEF Held
      <3>3. /\ lock' \in [Rows -> Txs \cup {None}] /\ lock'[Key] = lock[Key]
            /\ \A r \in Rows : lock[r] \in Passes => lock'[r] = lock[r]
            /\ \A r \in Rows : lock[r] \in Kills => lock'[r] = lock[r]
        BY <3>1, <3>2, Disjoint DEF IInv, Typed, Txs
      <3>4. join' \in [Joins -> [at : {"idle", "row", "enter"}, user : Users \cup {None},
                                 team : Teams \cup {NoTeam}]]
        BY <1>1, <2>2 DEF IInv, Typed
      <3>5. Flights'
        BY <1>5, <2>2, <3>1, <3>3, Disjoint DEF LockTeam, IInv, Typed, Flights
      <3> QED BY <1>5, <3>3, <3>4, <3>5, GameKeeps DEF LockTeam, IInv, Typed
    <2> QED BY <1>5, <2>1, <2>2 DEF LockTeam
  <1>6. CASE Enter(j)
    <2>1. join[j].user \in Users /\ join[j].team \in Teams /\ lock[join[j].user] = None
      BY <1>6 DEF Enter, Free, IInv, Flights
    <2>2. user' = [user EXCEPT ![join[j].user].member = join[j].team]
      BY <1>6 DEF Enter
    <2>3. user' \in [Users -> UserRow] /\ \A w \in Users : lock[w] \in Passes => user'[w] = user[w]
      BY <1>1, <2>1, <2>2, Disjoint DEF UserRow
    <2>4. /\ lock' = Ended(j) /\ join' = [join EXCEPT ![j] = NoJoin]
          /\ UNCHANGED <<up, day, owner, team, reports, ledger, pass, draft, seen, kill, passes>>
      BY <1>6 DEF Enter
    <2>5. /\ lock' \in [Rows -> Txs \cup {None}] /\ lock'[Key] = lock[Key]
          /\ \A r \in Rows : lock[r] \in Passes => lock'[r] = lock[r]
      BY <2>4, EndedKeeps
    <2> QED BY <1>4, <2>3, <2>4, <2>5, GameKeeps DEF IInv, Typed
  <1>7. CASE JoinFails(j)
    BY <1>4, <1>7, EndedKeeps, GameKeeps DEF JoinFails, IInv, Typed
  <1> QED BY <1>3, <1>5, <1>6, <1>7

LEMMA PlayKeeps ==
    ASSUME IInv,
           \/ \E pl \in Planets, o \in Users \cup {Nobody} : ChangeOwner(pl, o)
           \/ \E u \in Users : Leave(u)
    PROVE  IInv'
  <1>1. ASSUME NEW pl \in Planets, NEW o \in Users \cup {Nobody}, ChangeOwner(pl, o)
        PROVE  IInv'
    <2>1. owner' \in [Planets -> Users \cup {Nobody}]
      BY <1>1 DEF ChangeOwner, IInv, Typed
    <2>2. Flights'
      BY <1>1 DEF ChangeOwner, IInv, Flights
    <2> QED BY <1>1, <2>1, <2>2, GameKeeps DEF ChangeOwner, IInv, Typed
  <1>2. ASSUME NEW u \in Users, Leave(u)
        PROVE  IInv'
    <2>1. user' = [user EXCEPT ![u].member = NoTeam] /\ lock[u] = None
      BY <1>2 DEF Leave, Free
    <2>2. user \in [Users -> UserRow]
      BY DEF IInv, Typed
    <2>3. [user[u] EXCEPT !.member = NoTeam] \in UserRow
      BY <2>2 DEF UserRow
    <2> DEFINE row == [user[u] EXCEPT !.member = NoTeam]
    <2>4. user' = [user EXCEPT ![u] = row]
      BY <2>1
    <2> HIDE DEF row
    <2>5. user' \in [Users -> UserRow]
      BY <2>2, <2>3, <2>4 DEF row
    <2>6. \A w \in Users : lock[w] \in Passes => user'[w] = user[w]
      BY <2>1, <2>2, <2>4, Disjoint
    <2>7. Flights'
      BY <1>2 DEF Leave, IInv, Flights
    <2> QED BY <1>2, <2>5, <2>6, <2>7, GameKeeps DEF Leave, IInv, Typed
  <1> QED BY <1>1, <1>2

-----------------------------------------------------------------------------
(* The pass.                                                               *)

Steps == [at : {"idle", "ledger", "start", "users", "planets", "teams", "score", "commit"}, day : Day]

\* Nobody else works while p does.
LEMMA OthersWait ==
    ASSUME IInv, NEW p \in Passes, Working(p)
    PROVE  /\ lock[Key] = p
           /\ \A q \in Passes : q # p => ~Working(q)
           /\ \A r \in draft.done : lock[r] = p
  BY DEF IInv, OnePass

\* A step of p that goes on working: it takes no lock from the game, and holds what it
\* has written.
LEMMA WorkKeeps ==
    ASSUME IInv, NEW p \in Passes, Working(p),
           UNCHANGED <<up, day, owner, user, team, reports, ledger, kill, join, passes>>,
           pass' \in [Passes -> Steps], Working(p)',
           \A q \in Passes : q # p => pass'[q] = pass[q],
           lock' \in [Rows -> Txs \cup {None}], lock'[Key] = p,
           \A r \in draft'.done : lock'[r] = p,
           \A r \in Rows : lock[r] \in Kills => lock'[r] = lock[r],
           draft' \in [user : [Users -> UserRow], team : [Teams -> TeamRow],
                       reports : SUBSET Report, done : SUBSET Rows],
           seen' \in [Planets -> Users \cup {Nobody}]
    PROVE  /\ Typed' /\ Flights' /\ DownIsQuiet' /\ OnePass'
           /\ \A q \in Passes : q # p => ~Working(q)'
  <1>1. \A q \in Passes : q # p => ~Working(q)'
    BY OthersWait DEF Working
  <1>2. Typed'
    BY DEF IInv, Typed, Steps
  <1>3. Flights'
    BY Disjoint DEF IInv, Flights
  <1>4. DownIsQuiet'
    BY DEF IInv, DownIsQuiet, Working
  <1>5. OnePass'
    BY <1>1, Disjoint DEF OnePass
  <1> QED BY <1>1, <1>2, <1>3, <1>4, <1>5

LEMMA TryLockKeeps ==
    ASSUME IInv, NEW p \in Passes, TryLock(p)
    PROVE  IInv'
  <1>1. pass \in [Passes -> Steps] /\ lock \in [Rows -> Txs \cup {None}]
    BY DEF IInv, Typed, Steps
  <1>2. CASE ~Free(Key) /\ pass' = [pass EXCEPT ![p] = Idle] /\ UNCHANGED lock
    <2>1. pass' \in [Passes -> Steps]
      BY <1>1, <1>2, BoundsAssumption DEF Idle, Steps, Day
    <2>2. \A q \in Passes : pass'[q] = pass[q] \/ (~Working(q) /\ ~Working(q)')
      BY <1>1, <1>2 DEF TryLock, Working, Idle
    <2>3. DownIsQuiet' /\ up' \in BOOLEAN /\ day' \in Day
      BY <1>2 DEF TryLock, IInv, Typed, DownIsQuiet, Idle
    <2> QED BY <1>2, <2>1, <2>2, <2>3, CallersKeep DEF TryLock, Steps, game
  <1>3. CASE Free(Key) /\ lock' = Held(Key, p) /\ Moves(p, "users")
    <2>1. /\ lock[Key] = None /\ lock' = [lock EXCEPT ![Key] = p]
          /\ pass' = [pass EXCEPT ![p].at = "users"] /\ pass[p].at = "start"
          /\ UNCHANGED <<game, up, day, reports, ledger, draft, seen, passes, played, faults>>
      BY <1>3 DEF TryLock, Free, Held, Moves
    <2>2. draft = NoDraft /\ draft.done = {} /\ draft.reports = {}
      BY <2>1, EmptyDraft DEF IInv, OnePass
    <2>3. \A q \in Passes : ~Working(q)
      BY <2>1, Disjoint DEF IInv, OnePass
    <2>4. /\ pass' \in [Passes -> Steps] /\ lock' \in [Rows -> Txs \cup {None}]
          /\ \A q \in Passes : q # p => pass'[q] = pass[q]
          /\ pass'[p].at = "users" /\ lock'[Key] = p
      BY <1>1, <2>1, Disjoint DEF Steps, Txs
    <2>5. \A q \in Passes : Working(q)' <=> q = p
      BY <2>3, <2>4 DEF Working
    <2>6. Typed'
      BY <2>1, <2>4 DEF game, IInv, Typed, Steps
    <2>7. Flights'
      BY <1>1, <2>1, Disjoint DEF game, IInv, Typed, Flights
    <2>8. DownIsQuiet' /\ ReportsAreNumbered' /\ DraftIsCurrent'
      BY <2>1, <2>2 DEF game, IInv, DownIsQuiet, ReportsAreNumbered, DraftIsCurrent
    <2>9. OnePass' /\ TeamsAreCurrent'
      BY <2>1, <2>2, <2>4, <2>5, Disjoint DEF OnePass, TeamsAreCurrent
    <2>10. PhasesInOrder'
      BY <2>4, <2>5 DEF PhasesInOrder, Working, UsersAreDone, PlanetsAreRead, TeamsAreDone
    <2>11. ReportsAreCovered'
      BY <2>1, <2>2 DEF IInv, ReportsAreCovered
    <2> QED BY <2>6, <2>7, <2>8, <2>9, <2>10, <2>11 DEF IInv
  <1> QED BY <1>2, <1>3 DEF TryLock

\* The phases that only lock and copy rows.
LEMMA ResetKeeps ==
    ASSUME IInv, NEW p \in Passes, NEW u \in Users, Reset(p, u)
    PROVE  IInv'
  <1> DEFINE row == [user[u] EXCEPT !.worth = 0, !.score = 0]
             at == IF Users \subseteq draft'.done THEN "planets" ELSE "users"
  <1>1. /\ pass[p].at = "users" /\ lock[u] = None
        /\ lock' = [lock EXCEPT ![u] = p]
        /\ draft' = [draft EXCEPT !.user[u] = row, !.done = @ \cup {u}]
        /\ UNCHANGED <<game, up, day, reports, ledger, seen, passes, played, faults>>
        /\ Working(p)
    BY DEF Reset, Free, Written, Held, Working
  <1>2. /\ draft \in [user : [Users -> UserRow], team : [Teams -> TeamRow],
                      reports : SUBSET Report, done : SUBSET Rows]
        /\ pass \in [Passes -> Steps] /\ lock \in [Rows -> Txs \cup {None}]
        /\ user[u] \in UserRow
    BY DEF IInv, Typed, Steps
  <1>3. row \in UserRow /\ row.kills = user[u].kills /\ row.member = user[u].member
    BY <1>2 DEF UserRow
  <1> HIDE DEF row
  <1>4. /\ draft'.user = [draft.user EXCEPT ![u] = row] /\ draft'.team = draft.team
        /\ draft'.reports = draft.reports /\ draft'.done = draft.done \cup {u}
        /\ draft' \in [user : [Users -> UserRow], team : [Teams -> TeamRow],
                       reports : SUBSET Report, done : SUBSET Rows]
    BY <1>1, <1>2, <1>3, Disjoint
  <1>5. pass' = [pass EXCEPT ![p].at = at]
    BY <1>1, <1>2 DEF Reset, Moves, Steps
  <1>6. /\ lock' \in [Rows -> Txs \cup {None}] /\ lock'[Key] = p
        /\ \A r \in draft'.done : lock'[r] = p
        /\ \A r \in Rows : lock[r] \in Kills => lock'[r] = lock[r]
    BY <1>1, <1>2, <1>4, OthersWait, Disjoint DEF Txs
  <1>7. /\ Working(p)' /\ pass'[p].day = pass[p].day /\ pass'[p].at = at
        /\ pass' \in [Passes -> Steps] /\ \A q \in Passes : q # p => pass'[q] = pass[q]
    BY <1>2, <1>5 DEF Steps, Working
  <1>8. /\ Typed' /\ Flights' /\ DownIsQuiet' /\ OnePass'
        /\ \A q \in Passes : q # p => ~Working(q)'
    BY <1>1, <1>4, <1>6, <1>7, WorkKeeps DEF game, IInv, Typed
  <1>9. DraftIsCurrent'
    BY <1>1, <1>2, <1>3, <1>4 DEF game, IInv, DraftIsCurrent
  <1>10. PhasesInOrder'
    BY <1>7, <1>8 DEF PhasesInOrder, UsersAreDone, PlanetsAreRead, TeamsAreDone, Working
  <1>11. TeamsAreCurrent'
    BY <1>1, <1>4, <1>8, Disjoint DEF game, IInv, TeamsAreCurrent
  <1>12. ReportsAreNumbered' /\ ReportsAreCovered'
    BY <1>1, <1>4, <1>7, <1>8 DEF IInv, ReportsAreNumbered, ReportsAreCovered
  <1> QED BY <1>8, <1>9, <1>10, <1>11, <1>12 DEF IInv

LEMMA ZeroTeamKeeps ==
    ASSUME IInv, NEW p \in Passes, NEW t \in Teams, ZeroTeam(p, t)
    PROVE  IInv'
  <1> DEFINE row == [team[t] EXCEPT !.count = 0, !.points = 0]
             at == IF Teams \subseteq draft'.done THEN "score" ELSE "teams"
  <1>1. /\ pass[p].at = "teams" /\ lock[t] = None
        /\ lock' = [lock EXCEPT ![t] = p]
        /\ draft' = [draft EXCEPT !.team[t] = row, !.done = @ \cup {t}]
        /\ UNCHANGED <<game, up, day, reports, ledger, seen, passes, played, faults>>
        /\ Working(p)
    BY DEF ZeroTeam, Free, Held, Working
  <1>2. /\ draft \in [user : [Users -> UserRow], team : [Teams -> TeamRow],
                      reports : SUBSET Report, done : SUBSET Rows]
        /\ pass \in [Passes -> Steps] /\ lock \in [Rows -> Txs \cup {None}]
        /\ team[t] \in TeamRow
    BY DEF IInv, Typed, Steps
  <1>3. row \in TeamRow /\ row.removed = team[t].removed
    BY <1>2 DEF TeamRow
  <1> HIDE DEF row
  <1>4. /\ draft'.team = [draft.team EXCEPT ![t] = row] /\ draft'.user = draft.user
        /\ draft'.reports = draft.reports /\ draft'.done = draft.done \cup {t}
        /\ draft' \in [user : [Users -> UserRow], team : [Teams -> TeamRow],
                       reports : SUBSET Report, done : SUBSET Rows]
    BY <1>1, <1>2, <1>3, Disjoint
  <1>5. pass' = [pass EXCEPT ![p].at = at]
    BY <1>1, <1>2 DEF ZeroTeam, Moves, Steps
  <1>6. /\ lock' \in [Rows -> Txs \cup {None}] /\ lock'[Key] = p
        /\ \A r \in draft'.done : lock'[r] = p
        /\ \A r \in Rows : lock[r] \in Kills => lock'[r] = lock[r]
    BY <1>1, <1>2, <1>4, OthersWait, Disjoint DEF Txs
  <1>7. /\ Working(p)' /\ pass'[p].day = pass[p].day /\ pass'[p].at = at
        /\ pass' \in [Passes -> Steps] /\ \A q \in Passes : q # p => pass'[q] = pass[q]
    BY <1>2, <1>5 DEF Steps, Working
  <1>8. /\ Typed' /\ Flights' /\ DownIsQuiet' /\ OnePass'
        /\ \A q \in Passes : q # p => ~Working(q)'
    BY <1>1, <1>4, <1>6, <1>7, WorkKeeps DEF game, IInv, Typed
  <1>9. DraftIsCurrent'
    BY <1>1, <1>4, Disjoint DEF game, IInv, DraftIsCurrent
  <1>10. PhasesInOrder'
    BY <1>1, <1>4, <1>7, <1>8
       DEF IInv, PhasesInOrder, UsersAreDone, PlanetsAreRead, TeamsAreDone, Working
  <1>11. TeamsAreCurrent'
    BY <1>1, <1>2, <1>3, <1>4, <1>8 DEF game, IInv, TeamsAreCurrent
  <1>12. ReportsAreNumbered' /\ ReportsAreCovered'
    BY <1>1, <1>4, <1>7, <1>8 DEF IInv, ReportsAreNumbered, ReportsAreCovered
  <1> QED BY <1>8, <1>9, <1>10, <1>11, <1>12 DEF IInv

\* The points of a crew are a sum over captains, and so a number.
LEMMA ScoresTyped ==
    ASSUME IInv
    PROVE  /\ \A u \in Users : Scored(u) \in Nat /\ RosterPlace(u) \in Nat
           /\ \A t \in Teams : Counted(t) \in Nat /\ TeamScored(t) \in Nat
  <1>1. draft.user \in [Users -> UserRow] /\ Bonus \in Nat
    BY BoundsAssumption DEF IInv, Typed
  <1>2. \A u \in Users : Scored(u) \in Nat
    BY <1>1 DEF Scored, UserRow
  <1>3. \A u \in Users : RosterPlace(u) \in Nat
    BY Counts DEF RosterPlace
  <1>4. \A t \in Teams : Counted(t) \in Nat /\ Members(t) \in SUBSET Users
    BY Counts DEF Counted, Members
  <1>5. ASSUME NEW t \in Teams PROVE TeamScored(t) \in Nat
    <2> DEFINE f == [u \in Members(t) |-> Bonus + Scored(u) \div Max({Counted(t), 1})]
    <2>1. Max({Counted(t), 1}) \in Nat \ {0}
      BY <1>4, MaxOfTwo
    <2>2. ASSUME NEW u \in Members(t) PROVE Bonus + Scored(u) \div Max({Counted(t), 1}) \in Nat
      <3> DEFINE n == Max({Counted(t), 1})
                 m == Scored(u)
      <3>1. m \in Nat /\ n \in Nat \ {0}
        BY <1>2, <1>4, <2>1
      <3> HIDE DEF m, n
      <3>2. m \div n \in Nat
        BY <3>1
      <3>3. Bonus + m \div n \in Nat
        BY <1>1, <3>2
      <3> QED BY <3>3 DEF m, n
    <2>3. f \in [Members(t) -> Nat]
      BY <2>2
    <2>4. IsFiniteSet(Members(t))
      BY <1>4, UsersAssumption, FS_Subset
    <2>5. TeamScored(t) = Sum(f, Members(t))
      BY DEF TeamScored, SumFunction, Sum
    <2> HIDE DEF f
    <2> QED BY <2>3, <2>4, <2>5, SumIsNat
  <1> QED BY <1>2, <1>3, <1>4, <1>5

\* The planets are read and their owners written to.
LEMMA ReadPlanetsKeeps ==
    ASSUME IInv, NEW p \in Passes, ReadPlanets(p)
    PROVE  IInv'
  <1> DEFINE new == {r \in Mailed(Production(pass[p].day)) : r.day + MailDays >= day}
             rows == [u \in Users |->
                        [draft.user[u] EXCEPT !.worth = Cardinality({pl \in Planets : owner[pl] = u})]]
  <1>1. /\ pass[p].at = "planets" /\ Working(p) /\ seen' = owner
        /\ draft' = [draft EXCEPT !.user = rows, !.reports = new]
        /\ pass' = [pass EXCEPT ![p].at = "teams"]
        /\ UNCHANGED <<game, up, day, reports, ledger, lock, passes, played, faults>>
    BY DEF ReadPlanets, Moves, Working
  <1>2. /\ draft \in [user : [Users -> UserRow], team : [Teams -> TeamRow],
                      reports : SUBSET Report, done : SUBSET Rows]
        /\ pass \in [Passes -> Steps] /\ lock \in [Rows -> Txs \cup {None}]
        /\ owner \in [Planets -> Users \cup {Nobody}]
        /\ pass[p].day \in Day
    BY DEF IInv, Typed, Steps
  <1>3. /\ rows \in [Users -> UserRow]
        /\ \A u \in Users : /\ rows[u].worth = Cardinality({pl \in Planets : owner[pl] = u})
                            /\ rows[u].kills = draft.user[u].kills
                            /\ rows[u].member = draft.user[u].member
    <2>1. ASSUME NEW u \in Users, NEW n \in Nat
          PROVE  LET row == [draft.user[u] EXCEPT !.worth = n]
                 IN  /\ row \in UserRow /\ row.worth = n
                     /\ row.kills = draft.user[u].kills /\ row.member = draft.user[u].member
      BY <1>2 DEF UserRow
    <2>2. \A u \in Users : Cardinality({pl \in Planets : owner[pl] = u}) \in Nat
      BY Counts
    <2> QED BY <2>1, <2>2
  <1>4. ASSUME NEW r \in new
        PROVE  /\ r \in Report /\ r.no = <<r.day, r.planet>>
               /\ r.day \in ledger \cup {pass[p].day}
    <2>1. r \in reports \/ r \in Production(pass[p].day)
      BY DEF Mailed
    <2>2. CASE r \in reports
      BY <2>2 DEF IInv, Typed, ReportsAreNumbered, ReportsAreCovered
    <2>3. CASE r \in Production(pass[p].day)
      <3>1. PICK pl \in Planets :
               /\ owner[pl] # Nobody
               /\ r = [to |-> owner[pl], planet |-> pl, day |-> pass[p].day,
                       no |-> <<pass[p].day, pl>>]
        BY <2>3 DEF Production, Msgno
      <3>2. owner[pl] \in Users /\ pass[p].day \in Nat
        BY <1>2, <3>1 DEF Day
      <3> QED BY <1>2, <3>1, <3>2 DEF Report
    <2> QED BY <2>1, <2>2, <2>3
  <1> HIDE DEF new, rows
  <1>5. /\ draft'.user = rows /\ draft'.team = draft.team
        /\ draft'.reports = new /\ draft'.done = draft.done
        /\ draft' \in [user : [Users -> UserRow], team : [Teams -> TeamRow],
                       reports : SUBSET Report, done : SUBSET Rows]
    BY <1>1, <1>2, <1>3, <1>4
  <1>6. /\ lock' = lock /\ lock[Key] = p
        /\ \A r \in draft.done : lock[r] = p
    BY <1>1, OthersWait
  <1>7. /\ Working(p)' /\ pass'[p].day = pass[p].day /\ pass'[p].at = "teams"
        /\ pass' \in [Passes -> Steps] /\ \A q \in Passes : q # p => pass'[q] = pass[q]
    BY <1>1, <1>2 DEF Steps, Working
  <1>8. /\ Typed' /\ Flights' /\ DownIsQuiet' /\ OnePass'
        /\ \A q \in Passes : q # p => ~Working(q)'
    BY <1>1, <1>2, <1>5, <1>6, <1>7, WorkKeeps DEF game, IInv, Typed
  <1>9. DraftIsCurrent'
    BY <1>1, <1>3, <1>5 DEF game, IInv, DraftIsCurrent
  <1>10. PhasesInOrder'
    <2>1. Users \subseteq draft.done
      BY <1>1 DEF IInv, PhasesInOrder, UsersAreDone
    <2> QED BY <1>1, <1>3, <1>5, <1>7, <1>8, <2>1
            DEF PhasesInOrder, UsersAreDone, PlanetsAreRead, TeamsAreDone, Working
  <1>11. TeamsAreCurrent'
    BY <1>1, <1>5, <1>8 DEF game, IInv, TeamsAreCurrent
  <1>12. ReportsAreNumbered' /\ ReportsAreCovered'
    BY <1>1, <1>4, <1>5, <1>7, <1>8 DEF IInv, ReportsAreNumbered, ReportsAreCovered
  <1> QED BY <1>8, <1>9, <1>10, <1>11, <1>12 DEF IInv

\* The standings are reckoned from what the pass has in hand.
LEMMA ScoreKeeps ==
    ASSUME IInv, NEW p \in Passes, Score(p)
    PROVE  IInv'
  <1> DEFINE rows == [u \in Users |->
                        [draft.user[u] EXCEPT !.score = Scored(u), !.place = RosterPlace(u)]]
             crews == [t \in Teams |-> [count |-> Counted(t), points |-> TeamScored(t),
                                        removed |-> draft.team[t].removed \/ Counted(t) = 0]]
  <1>1. /\ pass[p].at = "score" /\ Working(p)
        /\ draft' = [draft EXCEPT !.user = rows, !.team = crews]
        /\ pass' = [pass EXCEPT ![p].at = "commit"]
        /\ UNCHANGED <<game, up, day, reports, ledger, lock, seen, passes, played, faults>>
    BY DEF Score, Moves, Working
  <1>2. /\ draft \in [user : [Users -> UserRow], team : [Teams -> TeamRow],
                      reports : SUBSET Report, done : SUBSET Rows]
        /\ pass \in [Passes -> Steps] /\ lock \in [Rows -> Txs \cup {None}]
    BY DEF IInv, Typed, Steps
  <1>3. /\ rows \in [Users -> UserRow]
        /\ \A u \in Users : /\ rows[u].worth = draft.user[u].worth
                            /\ rows[u].kills = draft.user[u].kills
                            /\ rows[u].member = draft.user[u].member
                            /\ rows[u].place = RosterPlace(u)
    <2>1. \A u \in Users : Scored(u) \in Nat /\ RosterPlace(u) \in Nat
      BY ScoresTyped
    <2>2. ASSUME NEW u \in Users
          PROVE  LET row == [draft.user[u] EXCEPT !.score = Scored(u), !.place = RosterPlace(u)]
                 IN  /\ row \in UserRow /\ row.worth = draft.user[u].worth
                     /\ row.kills = draft.user[u].kills /\ row.member = draft.user[u].member
                     /\ row.place = RosterPlace(u)
      BY <1>2, <2>1 DEF UserRow
    <2> QED BY <2>2
  <1>4. /\ crews \in [Teams -> TeamRow]
        /\ \A t \in Teams : /\ crews[t].count = Counted(t) /\ crews[t].points = TeamScored(t)
                            /\ crews[t].removed = (draft.team[t].removed \/ Counted(t) = 0)
    <2>1. ASSUME NEW t \in Teams
          PROVE  [count |-> Counted(t), points |-> TeamScored(t),
                  removed |-> draft.team[t].removed \/ Counted(t) = 0] \in TeamRow
      <3>1. (draft.team[t].removed \/ Counted(t) = 0) \in BOOLEAN
        OBVIOUS
      <3> QED BY <3>1, ScoresTyped DEF TeamRow
    <2> QED BY <2>1
  <1> HIDE DEF rows, crews
  <1>5. /\ draft'.user = rows /\ draft'.team = crews
        /\ draft'.reports = draft.reports /\ draft'.done = draft.done
        /\ draft' \in [user : [Users -> UserRow], team : [Teams -> TeamRow],
                       reports : SUBSET Report, done : SUBSET Rows]
    BY <1>1, <1>2, <1>3, <1>4
  <1>6. /\ lock' = lock /\ lock[Key] = p
        /\ \A r \in draft.done : lock[r] = p
    BY <1>1, OthersWait
  <1>7. /\ Working(p)' /\ pass'[p].day = pass[p].day /\ pass'[p].at = "commit"
        /\ pass' \in [Passes -> Steps] /\ \A q \in Passes : q # p => pass'[q] = pass[q]
    BY <1>1, <1>2 DEF Steps, Working
  <1>8. /\ Typed' /\ Flights' /\ DownIsQuiet' /\ OnePass'
        /\ \A q \in Passes : q # p => ~Working(q)'
    <2>1. Working(p) /\ UNCHANGED <<up, day, owner, user, team, reports, ledger, kill, join, passes, seen>>
      BY <1>1 DEF game
    <2>2. seen \in [Planets -> Users \cup {Nobody}] /\ lock \in [Rows -> Txs \cup {None}]
      BY DEF IInv, Typed
    <2> QED BY <1>5, <1>6, <1>7, <2>1, <2>2, WorkKeeps
  <1>9. DraftIsCurrent'
    BY <1>1, <1>3, <1>5 DEF game, IInv, DraftIsCurrent
  <1>10. PhasesInOrder'
    <2>1. /\ Users \subseteq draft.done /\ Teams \subseteq draft.done
          /\ \A u \in Users : draft.user[u].worth = Cardinality({pl \in Planets : seen[pl] = u})
      BY <1>1 DEF IInv, PhasesInOrder, UsersAreDone, PlanetsAreRead, TeamsAreDone
    <2>2. \A t \in Teams : draft.team[t].removed = team[t].removed
      BY <1>1, <2>1 DEF IInv, TeamsAreCurrent
    <2>3. \A u \in Users : Scored(u)' = Scored(u)
      BY <1>3, <1>5 DEF Scored
    <2>4. \A u \in Users : RosterPlace(u)' = RosterPlace(u)
      BY <2>3 DEF RosterPlace
    <2>5. \A t \in Teams : Members(t)' = Members(t)
      BY <1>3, <1>5 DEF Members
    <2>6. \A t \in Teams : Counted(t)' = Counted(t)
      BY <2>5 DEF Counted
    <2>7. ASSUME NEW t \in Teams PROVE TeamScored(t)' = TeamScored(t)
      <3>1. \A u \in Members(t) : u \in Users
        BY DEF Members
      <3>2. [u \in Members(t)' |-> Bonus + Scored(u)' \div Max({Counted(t)', 1})]
              = [u \in Members(t) |-> Bonus + Scored(u) \div Max({Counted(t), 1})]
        BY <2>3, <2>5, <2>6, <3>1
      <3> QED BY <3>2 DEF TeamScored
    <2>8. UNCHANGED <<team, seen>>
      BY <1>1 DEF game
    <2> QED BY <1>3, <1>4, <1>5, <1>7, <1>8, <2>1, <2>2, <2>4, <2>6, <2>7, <2>8
            DEF PhasesInOrder, UsersAreDone, PlanetsAreRead, TeamsAreDone, Working
  <1>11. TeamsAreCurrent'
    BY <1>7, <1>8 DEF TeamsAreCurrent
  <1>12. ReportsAreNumbered' /\ ReportsAreCovered'
    BY <1>1, <1>5, <1>7, <1>8 DEF IInv, ReportsAreNumbered, ReportsAreCovered
  <1> QED BY <1>8, <1>9, <1>10, <1>11, <1>12 DEF IInv

-----------------------------------------------------------------------------
(* Its end.                                                                *)

\* Nothing works, and nothing is held for what did.
LEMMA QuietSound ==
    ASSUME Typed', Flights', DownIsQuiet', draft' = NoDraft,
           \A p \in Passes : ~Working(p)', lock'[Key] = None,
           \A r \in reports' : r.no = <<r.day, r.planet>> /\ r.day \in ledger'
    PROVE  IInv'
  <1>1. OnePass'
    BY EmptyDraft, Disjoint DEF OnePass
  <1>2. DraftIsCurrent' /\ TeamsAreCurrent' /\ ReportsAreNumbered' /\ ReportsAreCovered'
    BY EmptyDraft DEF DraftIsCurrent, TeamsAreCurrent, ReportsAreNumbered, ReportsAreCovered
  <1>3. PhasesInOrder'
    BY DEF PhasesInOrder, Working, UsersAreDone, PlanetsAreRead, TeamsAreDone
  <1> QED BY <1>1, <1>2, <1>3 DEF IInv

\* A pass ends: what it held is given back.
LEMMA EndsSound ==
    ASSUME IInv, NEW p \in Passes, Working(p),
           UNCHANGED <<up, day, owner, seen, kill, join>>,
           lock' = Ended(p), draft' = NoDraft, pass' = [pass EXCEPT ![p] = Idle],
           user' \in [Users -> UserRow], team' \in [Teams -> TeamRow],
           reports' \subseteq Report, ledger' \subseteq Day, passes' \in [Day -> Nat]
    PROVE  /\ Typed' /\ Flights' /\ DownIsQuiet' /\ lock'[Key] = None
           /\ \A q \in Passes : ~Working(q)'
  <1>1. pass \in [Passes -> Steps] /\ lock \in [Rows -> Txs \cup {None}]
    BY DEF IInv, Typed, Steps
  <1>2. Idle \in Steps /\ Idle.at = "idle"
    BY BoundsAssumption DEF Idle, Steps, Day
  <1>3. pass' \in [Passes -> Steps] /\ \A q \in Passes : ~Working(q)'
    BY <1>1, <1>2, OthersWait DEF Working
  <1>4. lock' \in [Rows -> Txs \cup {None}] /\ lock'[Key] = None
    BY <1>1, OthersWait, Disjoint DEF Ended
  <1>5. \A r \in Rows : lock[r] \in Kills => lock'[r] = lock[r]
    BY <1>1, Disjoint DEF Ended
  <1>6. Typed'
    BY <1>3, <1>4, EmptyDraft DEF IInv, Typed, Steps
  <1>7. Flights'
    BY <1>5, Disjoint DEF IInv, Flights
  <1>8. DownIsQuiet'
    BY <1>1, <1>2 DEF IInv, DownIsQuiet
  <1> QED BY <1>3, <1>4, <1>6, <1>7, <1>8

LEMMA CommitKeeps ==
    ASSUME IInv, NEW p \in Passes, Commit(p)
    PROVE  IInv'
  <1>1. /\ pass[p].at = "commit" /\ Working(p)
        /\ user' = draft.user /\ team' = draft.team /\ reports' = draft.reports
        /\ ledger' = ledger \cup {pass[p].day}
        /\ passes' = [passes EXCEPT ![pass[p].day] = @ + 1]
        /\ lock' = Ended(p)
        /\ pass' = [pass EXCEPT ![p] = Idle] /\ draft' = NoDraft
        /\ UNCHANGED <<up, day, owner, seen, kill, join, played, faults>>
    BY DEF Commit, Working
  <1>2. pass[p].day \in Day /\ passes \in [Day -> Nat]
    BY DEF IInv, Typed
  <1>3. /\ user' \in [Users -> UserRow] /\ team' \in [Teams -> TeamRow]
        /\ reports' \subseteq Report /\ ledger' \subseteq Day /\ passes' \in [Day -> Nat]
    BY <1>1, <1>2 DEF IInv, Typed
  <1>4. \A r \in reports' : r.no = <<r.day, r.planet>> /\ r.day \in ledger'
    BY <1>1 DEF IInv, ReportsAreNumbered, ReportsAreCovered
  <1> QED BY <1>1, <1>3, <1>4, EndsSound, QuietSound

LEMMA RollBackKeeps ==
    ASSUME IInv, NEW p \in Passes, RollBack(p)
    PROVE  IInv'
  <1>1. /\ Working(p) /\ lock' = Ended(p) /\ draft' = NoDraft
        /\ pass' = [pass EXCEPT ![p] = Idle]
        /\ UNCHANGED <<game, up, day, reports, ledger, seen, passes, played>>
    BY DEF RollBack, Working, IInv, Typed
  <1>2. /\ user' \in [Users -> UserRow] /\ team' \in [Teams -> TeamRow]
        /\ reports' \subseteq Report /\ ledger' \subseteq Day /\ passes' \in [Day -> Nat]
        /\ UNCHANGED <<owner, kill, join>>
    BY <1>1 DEF game, IInv, Typed
  <1>3. \A r \in reports' : r.no = <<r.day, r.planet>> /\ r.day \in ledger'
    BY <1>1 DEF IInv, ReportsAreNumbered, ReportsAreCovered
  <1> QED BY <1>1, <1>2, <1>3, EndsSound, QuietSound

LEMMA CrashKeeps ==
    ASSUME IInv, Crash
    PROVE  IInv'
  <1>1. /\ up' = FALSE /\ lock' = [r \in Rows |-> None] /\ draft' = NoDraft
        /\ pass' = [p \in Passes |-> Idle]
        /\ kill' = [k \in Kills |-> NoKill] /\ join' = [j \in Joins |-> NoJoin]
        /\ UNCHANGED <<day, owner, user, team, reports, ledger, seen, passes, played>>
    BY DEF Crash
  <1>2. Idle \in Steps /\ Idle.at = "idle"
    BY BoundsAssumption DEF Idle, Steps, Day
  <1>3. pass' \in [Passes -> Steps] /\ \A q \in Passes : pass'[q].at = "idle" /\ ~Working(q)'
    BY <1>1, <1>2 DEF Working
  <1>4. Typed'
    BY <1>1, <1>3, EmptyDraft DEF IInv, Typed, Steps, NoKill, NoJoin
  <1>5. Flights' /\ DownIsQuiet' /\ lock'[Key] = None
    BY <1>1, <1>3, Disjoint DEF Flights, DownIsQuiet, NoKill, NoJoin
  <1>6. \A r \in reports' : r.no = <<r.day, r.planet>> /\ r.day \in ledger'
    BY <1>1 DEF IInv, ReportsAreNumbered, ReportsAreCovered
  <1> QED BY <1>1, <1>3, <1>4, <1>5, <1>6, QuietSound

LEMMA InitSound == Init => IInv
  <1> SUFFICES ASSUME Init PROVE IInv
    OBVIOUS
  <1>1. 0 \in Day /\ [at |-> "ledger", day |-> 0] \in Steps /\ Idle \in Steps
    BY BoundsAssumption DEF Day, Steps, Idle
  <1>2. pass \in [Passes -> Steps] /\ \A p \in Passes : ~Working(p)
    BY <1>1 DEF Init, Working, Idle
  <1>3. user \in [Users -> UserRow] /\ team \in [Teams -> TeamRow]
    <2>1. \A u \in Users : Member0[u] \in Teams \cup {NoTeam}
      BY TeamsAssumption
    <2> QED BY <2>1, EmptyDraft DEF Init, UserRow, NewUser
  <1>4. Typed
    <2>1. owner \in [Planets -> Users \cup {Nobody}] /\ passes \in [Day -> Nat]
      BY DEF Init
    <2> QED BY <1>1, <1>2, <1>3, <2>1, EmptyDraft DEF Init, Typed, Steps, NoKill, NoJoin
  <1>5. Flights /\ DownIsQuiet
    BY DEF Init, Flights, DownIsQuiet, NoKill, NoJoin
  <1>6. OnePass
    BY <1>2, EmptyDraft, Disjoint DEF Init, OnePass
  <1>7. DraftIsCurrent /\ TeamsAreCurrent /\ ReportsAreNumbered /\ ReportsAreCovered
    BY <1>2, EmptyDraft
       DEF Init, DraftIsCurrent, TeamsAreCurrent, ReportsAreNumbered, ReportsAreCovered
  <1>8. PhasesInOrder
    BY <1>2 DEF PhasesInOrder, Working, UsersAreDone, PlanetsAreRead, TeamsAreDone
  <1> QED BY <1>4, <1>5, <1>6, <1>7, <1>8 DEF IInv

LEMMA NightlyKeeps ==
    ASSUME IInv, NEW p \in Passes, Nightly(p) \/ RollBack(p)
    PROVE  IInv'
  BY TryLockKeeps, ReadPlanetsKeeps, ScoreKeeps, CommitKeeps, ResetKeeps, ZeroTeamKeeps,
     RollBackKeeps DEF Nightly

LEMMA NextKeeps ==
    ASSUME IInv, [Next]_vars
    PROVE  IInv'
  <1>1. CASE NewDay \/ Request \/ SelfHeal \/ Restart
    BY <1>1, CallsKeep
  <1>2. CASE Crash
    BY <1>2, CrashKeeps
  <1>3. CASE \E p \in Passes : Nightly(p) \/ RollBack(p)
    BY <1>3, NightlyKeeps
  <1>4. CASE \/ \E pl \in Planets, o \in Users \cup {Nobody} : ChangeOwner(pl, o)
             \/ \E u \in Users : Leave(u)
    BY <1>4, PlayKeeps
  <1>5. CASE \E k \in Kills : (\E v, u \in Users : Strike(k, v, u)) \/ Fighting(k) \/ KillFails(k)
    BY <1>5, KillsKeep DEF Fighting
  <1>6. CASE \E j \in Joins : (\E u \in Users, t \in Teams : AskToJoin(j, u, t)) \/ Joining(j) \/ JoinFails(j)
    BY <1>6, JoinsKeep DEF Joining
  <1>7. CASE UNCHANGED vars
    <2>1. Flights'
      BY <1>7 DEF vars, IInv, Flights
    <2>2. user' \in [Users -> UserRow]
      BY <1>7 DEF vars, IInv, Typed
    <2> QED BY <1>7, <2>1, <2>2, GameKeeps DEF vars, IInv, Typed
  <1> QED BY <1>1, <1>2, <1>3, <1>4, <1>5, <1>6, <1>7 DEF Next

-----------------------------------------------------------------------------
(* The theorems.                                                           *)

\* Type correctness: whatever passes, kills and joins interleave, the rows and the
\* drafts of the pass keep the types of their columns (the counters are bounded).
THEOREM TypeCorrect == Spec => []TypeOK
  <1> DEFINE Bounded == played \in 0 .. MaxPlay /\ faults \in 0 .. MaxFaults
  <1>1. Init => Bounded
    BY BoundsAssumption DEF Init
  <1>2. Bounded /\ [Next]_vars => Bounded'
    <2> SUFFICES ASSUME Bounded, [Next]_vars PROVE Bounded'
      OBVIOUS
    <2>1. CASE UNCHANGED vars
      BY <2>1 DEF vars
    <2>2. CASE UNCHANGED <<played, faults>>
      BY <2>2
    <2>3. CASE MayPlay /\ UNCHANGED faults
      BY <2>3, BoundsAssumption DEF MayPlay
    <2>4. CASE MayFault /\ UNCHANGED played
      BY <2>4, BoundsAssumption DEF MayFault
    <2> QED BY <2>1, <2>2, <2>3, <2>4
            DEF Next, NewDay, Request, SelfHeal, Crash, Restart, RollBack,
                Nightly, TryLock, Reset, ReadPlanets, ZeroTeam, Score, Commit,
                ChangeOwner, Strike, Fighting, HitVictim, Award, KillFails,
                AskToJoin, Joining, LockTeam, Enter, JoinFails, Leave
  <1>3. IInv /\ Bounded => TypeOK
    BY DEF IInv, Typed, TypeOK
  <1> HIDE DEF Bounded
  <1> QED BY InitSound, NextKeeps, <1>1, <1>2, <1>3, PTL DEF Spec

\* What the clauses above say of a pass holds of every behaviour: one works at a time,
\* under the lock of run(), on rows that the game cannot change before its commit.
THEOREM PassesAreAlone == Spec => [](OnePass /\ DraftIsCurrent)
  <1>1. IInv => OnePass /\ DraftIsCurrent
    BY DEF IInv
  <1> QED BY InitSound, NextKeeps, <1>1, PTL DEF Spec

\* A captain gets one production report a planet a day, however often the pass runs
\* that day (productionMailMsgno).
THEOREM ReportsAreUnique == Spec => []OneReportPerNight
  <1>1. IInv => OneReportPerNight
    <2> SUFFICES ASSUME IInv, NEW r \in reports, NEW s \in reports,
                        r.to = s.to, r.planet = s.planet, r.day = s.day
                 PROVE  r = s
      BY DEF OneReportPerNight
    <2>1. r \in Report /\ s \in Report
      BY DEF IInv, Typed
    <2>2. r.no = <<r.day, r.planet>> /\ s.no = <<s.day, s.planet>>
      BY DEF IInv, ReportsAreNumbered
    <2>3. r.no = s.no
      BY <2>2
    <2> QED BY <2>1, <2>3 DEF Report
  <1> QED BY InitSound, NextKeeps, <1>1, PTL DEF Spec

\* Reports of a day are out only when the ledger has it (recordRun, in the pass's own
\* transaction).
THEOREM ReportsFollowTheLedger == Spec => []LedgerCoversReports
  <1>1. IInv => LedgerCoversReports
    BY DEF IInv, ReportsAreCovered, LedgerCoversReports
  <1> QED BY InitSound, NextKeeps, <1>1, PTL DEF Spec

-----------------------------------------------------------------------------
(* Midnight implements Standings.                                          *)

kills  == [u \in Users |-> user[u].kills]
member == [u \in Users |-> user[u].member]

\* The two specifications count and sum alike.
LEMMA SameCount ==
    ASSUME NEW S
    PROVE  Cardinality(S) = Published!Cardinality(S)
  BY DEF Cardinality, Published!Cardinality, IsFiniteSet, Published!IsFiniteSet

LEMMA SameSum ==
    ASSUME NEW f
    PROVE  SumFunction(f) = Published!SumFunction(f)
  BY DEF SumFunction, SumFunctionOnSet, FoldFunctionOnSet, MapThenFoldSet,
         Published!SumFunction, Published!SumFunctionOnSet, Published!FoldFunctionOnSet,
         Published!MapThenFoldSet

LEMMA InitMaps == Init => Published!Init
  <1> SUFFICES ASSUME Init PROVE Published!Init
    OBVIOUS
  <1>1. \A u \in Users : /\ user[u].kills = 0 /\ user[u].worth = 0 /\ user[u].place = 0
                         /\ user[u].member \in Teams \cup {NoTeam}
    <2>1. \A u \in Users : Member0[u] \in Teams \cup {NoTeam}
      BY TeamsAssumption
    <2> QED BY <2>1 DEF Init, NewUser
  <1>2. \A t \in Teams : team[t].count = 0 /\ team[t].points = 0 /\ team[t].removed = FALSE
    BY DEF Init, NewTeam
  <1>3. seen = owner /\ owner \in [Planets -> Users \cup {Nobody}]
    BY DEF Init
  <1>4. {t \in Teams : team[t].removed} = {}
    BY <1>2
  <1>5. /\ [u \in Users |-> user[u].kills] \in [Users -> Nat]
        /\ [u \in Users |-> user[u].member] \in [Users -> Teams \cup {NoTeam}]
    BY <1>1
  <1>6. /\ [u \in Users |-> user[u].worth] = [u \in Users |-> 0]
        /\ [u \in Users |-> user[u].place] = [u \in Users |-> 0]
        /\ [t \in Teams |-> team[t].count] = [t \in Teams |-> 0]
        /\ [t \in Teams |-> team[t].points] = [t \in Teams |-> 0]
    BY <1>1, <1>2
  <1> QED BY <1>3, <1>4, <1>5, <1>6, Zenon DEF Published!Init

\* A step that leaves the standings and the picture alone is a step of the game.
LEMMA PlayMaps ==
    ASSUME Typed', UNCHANGED <<seen, team>>,
           \A u \in Users : user'[u].worth = user[u].worth /\ user'[u].place = user[u].place
    PROVE  Published!Play
  <1>1. owner' \in [Planets -> Users \cup {Nobody}] /\ user' \in [Users -> UserRow]
    BY DEF Typed
  <1>2. \A u \in Users : user'[u].kills \in Nat /\ user'[u].member \in Teams \cup {NoTeam}
    BY <1>1 DEF UserRow
  <1>3. /\ [u \in Users |-> user'[u].worth] = [u \in Users |-> user[u].worth]
        /\ [u \in Users |-> user'[u].place] = [u \in Users |-> user[u].place]
    OBVIOUS
  <1> QED BY <1>1, <1>2, <1>3 DEF Published!Play

\* The place and the share of a captain, in either specification.
LEMMA SamePlaces ==
    ASSUME IInv, NEW p \in Passes, pass[p].at = "commit"
    PROVE  /\ \A u \in Users : /\ draft.user[u].worth = Published!Worth(seen, u)
                               /\ Scored(u) = Published!Points(seen, kills, u)
                               /\ draft.user[u].place = Published!Place(seen, kills, u)
           /\ \A t \in Teams : /\ Members(t) = Published!Crew(member, t)
                               /\ draft.team[t].count = Cardinality(Published!Crew(member, t))
                               /\ draft.team[t].points = Published!TeamPoints(seen, kills, member, t)
                               /\ draft.team[t].removed
                                    = (team[t].removed \/ Published!Crew(member, t) = {})
  <1>1. /\ \A u \in Users : /\ draft.user[u].worth = Cardinality({pl \in Planets : seen[pl] = u})
                            /\ draft.user[u].kills = user[u].kills
                            /\ draft.user[u].member = user[u].member
                            /\ draft.user[u].place = RosterPlace(u)
        /\ \A t \in Teams : /\ draft.team[t].count = Counted(t)
                            /\ draft.team[t].points = TeamScored(t)
                            /\ draft.team[t].removed = (team[t].removed \/ Counted(t) = 0)
    BY DEF IInv, PhasesInOrder, DraftIsCurrent, UsersAreDone, PlanetsAreRead
  <1>2. \A u \in Users : draft.user[u].worth = Published!Worth(seen, u)
    BY <1>1, SameCount DEF Published!Worth
  <1>3. \A u \in Users : Scored(u) = Published!Points(seen, kills, u)
    BY <1>1, <1>2 DEF Scored, Published!Points, kills
  <1>4. ASSUME NEW u \in Users
        PROVE  RosterPlace(u) = Published!Place(seen, kills, u)
    <2> DEFINE upto == {v \in Users : \/ Scored(v) > Scored(u)
                                      \/ Scored(v) = Scored(u) /\ v <= u}
               above == {v \in Users : \/ Published!Points(seen, kills, v) > Published!Points(seen, kills, u)
                                       \/ Published!Points(seen, kills, v) = Published!Points(seen, kills, u)
                                          /\ v < u}
    <2>1. upto = above \cup {u} /\ u \notin above
      <3>1. \A v \in Users : v \in Nat /\ Scored(v) \in Nat
        BY UsersAssumption, ScoresTyped
      <3> QED BY <1>3, <3>1
    <2>2. IsFiniteSet(above) /\ Cardinality(above) \in Nat
      <3>1. above \in SUBSET Users
        OBVIOUS
      <3> HIDE DEF above
      <3> QED BY <3>1, Counts
    <2>3. Cardinality(upto) = 1 + Cardinality(above)
      <3> HIDE DEF upto, above
      <3>1. Cardinality(above \cup {u}) = Cardinality(above) + 1
        BY <2>1, <2>2, FS_AddElement
      <3> QED BY <2>1, <2>2, <3>1
    <2>4. RosterPlace(u) = IF Scored(u) = 0 THEN 0 ELSE Cardinality(upto)
      BY DEF RosterPlace
    <2>5. Published!Place(seen, kills, u)
            = IF Published!Points(seen, kills, u) = 0 THEN 0 ELSE 1 + Cardinality(above)
      BY SameCount DEF Published!Place
    <2> HIDE DEF upto, above
    <2> QED BY <1>3, <2>3, <2>4, <2>5
  <1>5. ASSUME NEW t \in Teams PROVE Members(t) = Published!Crew(member, t)
    BY <1>1 DEF Members, Published!Crew, member
  <1>6. ASSUME NEW t \in Teams
        PROVE  TeamScored(t) = Published!TeamPoints(seen, kills, member, t)
    <2> DEFINE crew == Members(t)
               mine == [u \in crew |-> Bonus + Scored(u) \div Max({Counted(t), 1})]
               theirs == [u \in crew |-> Bonus + Published!Points(seen, kills, u) \div Cardinality(crew)]
    <2>1. crew \in SUBSET Users
      BY DEF Members
    <2>2. ASSUME NEW u \in crew PROVE Max({Counted(t), 1}) = Cardinality(crew)
      <3>1. Cardinality(crew) \in Nat /\ Cardinality(crew) # 0
        BY <2>1, <2>2, Counts
      <3>2. Counted(t) = Cardinality(crew)
        BY DEF Counted
      <3> QED BY <3>1, <3>2, MaxOfTwo
    <2>3. mine = theirs
      BY <1>3, <2>1, <2>2
    <2>4. TeamScored(t) = SumFunction(mine)
      BY DEF TeamScored
    <2>5. Published!TeamPoints(seen, kills, member, t) = Published!SumFunction(theirs)
      BY <1>5, SameCount DEF Published!TeamPoints
    <2> HIDE DEF mine, theirs
    <2> QED BY <2>3, <2>4, <2>5, SameSum
  <1>7. ASSUME NEW t \in Teams
        PROVE  /\ Counted(t) = Cardinality(Published!Crew(member, t))
               /\ Counted(t) = 0 <=> Published!Crew(member, t) = {}
    <2>1. Members(t) \in SUBSET Users
      BY DEF Members
    <2> QED BY <1>5, <2>1, Counts DEF Counted
  <1> QED BY <1>1, <1>2, <1>3, <1>4, <1>5, <1>6, <1>7

\* The commit publishes.
LEMMA CommitMaps ==
    ASSUME IInv, NEW p \in Passes, Commit(p)
    PROVE  Published!Publish
  <1>1. /\ pass[p].at = "commit" /\ user' = draft.user /\ team' = draft.team
        /\ UNCHANGED <<owner, seen>>
    BY DEF Commit
  <1>2. \A u \in Users : draft.user[u].kills = user[u].kills /\ draft.user[u].member = user[u].member
    BY <1>1 DEF IInv, PhasesInOrder, DraftIsCurrent, UsersAreDone
  <1>3. /\ [u \in Users |-> user'[u].kills] = kills /\ [u \in Users |-> user'[u].member] = member
    BY <1>1, <1>2 DEF kills, member
  <1>4. /\ [u \in Users |-> user'[u].worth] = [u \in Users |-> Published!Worth(seen, u)]
        /\ [u \in Users |-> user'[u].place] = [u \in Users |-> Published!Place(seen, kills, u)]
        /\ [t \in Teams |-> team'[t].count] = [t \in Teams |-> Cardinality(Published!Crew(member, t))]
        /\ [t \in Teams |-> team'[t].points]
             = [t \in Teams |-> Published!TeamPoints(seen, kills, member, t)]
    BY <1>1, SamePlaces
  <1>5. {t \in Teams : team'[t].removed}
          = {t \in Teams : team[t].removed} \cup {t \in Teams : Published!Crew(member, t) = {}}
    BY <1>1, SamePlaces
  <1>6. Published!Publish
          <=> /\ [worth   |-> [u \in Users |-> user'[u].worth],
                  place   |-> [u \in Users |-> user'[u].place],
                  count   |-> [t \in Teams |-> team'[t].count],
                  points  |-> [t \in Teams |-> team'[t].points],
                  removed |-> {t \in Teams : team'[t].removed}]
               = [worth   |-> [u \in Users |-> Published!Worth(seen, u)],
                  place   |-> [u \in Users |-> Published!Place(seen, kills, u)],
                  count   |-> [t \in Teams |-> Cardinality(Published!Crew(member, t))],
                  points  |-> [t \in Teams |-> Published!TeamPoints(seen, kills, member, t)],
                  removed |-> {t \in Teams : team[t].removed}
                                \cup {t \in Teams : Published!Crew(member, t) = {}}]
              /\ [u \in Users |-> user'[u].kills] = kills
              /\ [u \in Users |-> user'[u].member] = member
              /\ owner' = owner /\ seen' = seen
    BY SameCount DEF Published!Publish, kills, member
  <1> QED BY <1>1, <1>3, <1>4, <1>5, <1>6, Zenon

LEMMA StepMaps ==
    ASSUME IInv, IInv', [Next]_vars
    PROVE  [Published!Next]_Published!vars
  <1>1. CASE \E p \in Passes : Commit(p)
    BY <1>1, CommitMaps DEF Published!Next
  <1>2. CASE \E p \in Passes : ReadPlanets(p)
    <2>1. seen' = owner /\ UNCHANGED <<owner, user, team>>
      BY <1>2 DEF ReadPlanets, game
    <2> QED BY <2>1 DEF Published!Next, Published!Look
  <1>3. CASE UNCHANGED <<user, team, seen>>
    BY <1>3, PlayMaps DEF IInv, Published!Next
  <1>4. CASE \E k \in Kills : Award(k)
    <2>1. PICK k \in Kills : Award(k)
      BY <1>4
    <2>2. user' = [user EXCEPT ![kill[k].victim] = Loses(@, k), ![kill[k].by] = Gains(@)]
      BY <2>1 DEF Award
    <2>3. user \in [Users -> UserRow] /\ kill[k].victim \in Users /\ kill[k].by \in Users
      BY <2>1 DEF Award, IInv, Typed, Flights
    <2>4. \A u \in Users : user'[u].worth = user[u].worth /\ user'[u].place = user[u].place
      BY <2>2, <2>3 DEF Loses, Gains, UserRow
    <2>5. UNCHANGED <<seen, team>>
      BY <2>1 DEF Award
    <2> QED BY <2>4, <2>5, PlayMaps DEF IInv, Published!Next
  <1>5. CASE (\E j \in Joins : Enter(j)) \/ (\E u \in Users : Leave(u))
    <2>1. PICK u, t : user' = [user EXCEPT ![u].member = t]
      BY <1>5 DEF Enter, Leave
    <2>2. \A v \in Users : user'[v].worth = user[v].worth /\ user'[v].place = user[v].place
      BY <2>1 DEF IInv, Typed, UserRow
    <2>3. UNCHANGED <<seen, team>>
      BY <1>5 DEF Enter, Leave
    <2> QED BY <2>2, <2>3, PlayMaps DEF IInv, Published!Next
  <1>6. CASE \/ NewDay \/ Request \/ SelfHeal \/ Crash \/ Restart
             \/ \E p \in Passes : \/ TryLock(p) \/ Score(p) \/ RollBack(p)
                                  \/ \E u \in Users : Reset(p, u)
                                  \/ \E t \in Teams : ZeroTeam(p, t)
             \/ \E pl \in Planets, o \in Users \cup {Nobody} : ChangeOwner(pl, o)
             \/ \E k \in Kills : (\E v, u \in Users : Strike(k, v, u)) \/ HitVictim(k) \/ KillFails(k)
             \/ \E j \in Joins : \/ \E u \in Users, t \in Teams : AskToJoin(j, u, t)
                                 \/ LockTeam(j) \/ JoinFails(j)
    <2>1. UNCHANGED <<user, team, seen>>
      BY <1>6 DEF NewDay, Request, SelfHeal, Crash, Restart, TryLock, Score, RollBack, Reset,
                  ZeroTeam, ChangeOwner, Strike, HitVictim, KillFails, AskToJoin, LockTeam,
                  JoinFails, game
    <2> QED BY <1>3, <2>1
  <1>7. CASE UNCHANGED vars
    BY <1>3, <1>7 DEF vars
  <1> QED BY <1>1, <1>2, <1>4, <1>5, <1>6, <1>7 DEF Next, Nightly, Fighting, Joining

\* Whatever passes run and whatever plays meanwhile, what is published is reckoned from
\* one picture of the galaxy, and no kill or join is overwritten (the one transaction
\* around the phases of the nightly pass).
THEOREM ImplementsStandings == Spec => Standings
  <1>1. Spec => []IInv
    BY InitSound, NextKeeps, PTL DEF Spec
  <1> QED BY <1>1, InitMaps, StepMaps, PTL DEF Spec, Standings, Published!Spec
=============================================================================
