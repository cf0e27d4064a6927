------------------------------ MODULE Midnight ------------------------------
(***************************************************************************)
(* The nightly pass: who starts it (the boot's self-heal, the cron job,    *)
(* the operator), the one transaction it runs in, and the transactions of  *)
(* the game that want the same rows meanwhile: kills, team joins, leaves.  *)
(*                                                                         *)
(* Postgres at READ COMMITTED, external: a statement reads what is         *)
(* committed and what its own transaction wrote, a written row is locked   *)
(* until the end of the transaction, a cycle of waits is broken by         *)
(* aborting one of its transactions.  An action is one statement, or some  *)
(* in a row that touch only rows their transaction already holds.          *)
(*                                                                         *)
(* Every planet is worth one point.                                        *)
(***************************************************************************)
EXTENDS Integers, FiniteSets, FiniteSetsExt, Functions

CONSTANTS
    Users,               \* numbers, so that userids are ordered
    Teams, NoTeam, Planets, Nobody,
    Bonus,               \* TEAMBONU
    Prize, Toll,         \* what a kill adds to the attacker's score and takes off the victim's
    TeamMax,             \* TEAMMAX
    MailDays,            \* MIDNIGHT_MAILDAYS
    Boot, Cron, Admin,   \* the three callers of run()
    Kills, Joins,        \* transferKillScore and joinByPassword calls in flight
    Key,                 \* the advisory lock
    None,
    Member0,             \* the team of each user when the process first starts
    MaxDay,              \* bound: midnights
    MaxPlay,             \* bound: kills, joins, leaves and changes of owner
    MaxFaults            \* bound: crashes, failures and the operator's requests

ASSUME UsersAssumption == Users \subseteq Nat /\ IsFiniteSet(Users)
ASSUME TeamsAssumption == NoTeam \notin Teams /\ Nobody \notin Users /\ Member0 \in [Users -> Teams \cup {NoTeam}]
ASSUME PlanetsAssumption == IsFiniteSet(Planets)
ASSUME RowsAssumption == Users \cap Teams = {} /\ Key \notin Users \cup Teams
ASSUME TxsAssumption ==
    /\ Boot # Cron /\ Boot # Admin /\ Cron # Admin /\ None \notin {Boot, Cron, Admin}
    /\ {Boot, Cron, Admin} \cap (Kills \cup Joins) = {} /\ Kills \cap Joins = {}
    /\ None \notin Kills \cup Joins
ASSUME BoundsAssumption == {Bonus, Prize, Toll, TeamMax, MailDays, MaxDay, MaxPlay, MaxFaults} \subseteq Nat

VARIABLES
    up,         \* the process runs
    day,        \* the calendar
    owner,      \* Planet.userid
    user,       \* the User rows
    team,       \* the Team rows
    reports,    \* the production reports in MailStat
    ledger,     \* the MidnightRun rows
    lock,       \* who holds each row, and the advisory lock
    pass,       \* the calls of run()
    draft,      \* what the pass has written and not committed
    seen,       \* the planets it read
    kill, join, \* the game's transactions in flight
    passes,     \* history: passes committed on each day
    played, faults  \* bounds

game == <<owner, user, team, kill, join>>
vars == <<up, day, owner, user, team, reports, ledger, lock, pass, draft, seen,
          kill, join, passes, played, faults>>

Passes == {Boot, Cron, Admin}
Txs    == Passes \cup Kills \cup Joins
Rows   == Users \cup Teams \cup {Key}
Day    == 0..MaxDay

UserRow == [worth : Nat, kills : Nat, score : Nat, place : Nat, member : Teams \cup {NoTeam}]
TeamRow == [count : Nat, points : Nat, removed : BOOLEAN]

NewUser  == [worth |-> 0, kills |-> 0, score |-> 0, place |-> 0, member |-> NoTeam]
NewTeam  == [count |-> 0, points |-> 0, removed |-> FALSE]
NoDraft  == [user |-> [u \in Users |-> NewUser], team |-> [t \in Teams |-> NewTeam], reports |-> {}, done |-> {}]
Idle     == [at |-> "idle", day |-> 0]
NoKill   == [at |-> "idle", victim |-> None, by |-> None, score |-> 0, kills |-> 0]
NoJoin   == [at |-> "idle", user |-> None, team |-> NoTeam]

Report == [to : Users, planet : Planets, day : Day, no : Nat \X Planets]

TypeOK ==
    /\ up \in BOOLEAN /\ day \in Day
    /\ owner \in [Planets -> Users \cup {Nobody}]
    /\ user \in [Users -> UserRow] /\ team \in [Teams -> TeamRow]
    /\ reports \subseteq Report
    /\ ledger \subseteq Day
    /\ lock \in [Rows -> Txs \cup {None}]
    /\ pass \in [Passes -> [at : {"idle", "ledger", "start", "users", "planets", "teams", "score", "commit"},
                            day : Day]]
    /\ draft \in [user : [Users -> UserRow], team : [Teams -> TeamRow],
                  reports : SUBSET Report, done : SUBSET Rows]
    /\ seen \in [Planets -> Users \cup {Nobody}]
    /\ kill \in [Kills -> [at : {"idle", "hit", "award"}, victim : Users \cup {None},
                           by : Users \cup {None}, score : Nat, kills : Nat]]
    /\ join \in [Joins -> [at : {"idle", "row", "enter"}, user : Users \cup {None},
                           team : Teams \cup {NoTeam}]]
    /\ passes \in [Day -> Nat]
    /\ played \in 0..MaxPlay /\ faults \in 0..MaxFaults

Init ==
    /\ up = TRUE /\ day = 0
    /\ owner = [p \in Planets |-> Nobody]
    /\ user = [u \in Users |-> [NewUser EXCEPT !.member = Member0[u]]]
    /\ team = [t \in Teams |-> NewTeam]
    /\ reports = {} /\ ledger = {}
    /\ lock = [r \in Rows |-> None]
    /\ pass = [p \in Passes |-> IF p = Boot THEN [at |-> "ledger", day |-> 0] ELSE Idle]
    /\ draft = NoDraft /\ seen = owner
    /\ kill = [k \in Kills |-> NoKill] /\ join = [j \in Joins |-> NoJoin]
    /\ passes = [d \in Day |-> 0]
    /\ played = 0 /\ faults = 0

-----------------------------------------------------------------------------
(* Locks.                                                                  *)

Free(r)     == lock[r] = None
Held(r, x)  == [lock EXCEPT ![r] = x]

\* A mutant of Ended: the lock of a session, which a pool cannot give back.
EndedButSession(x) == [r \in Rows |-> IF lock[r] = x /\ r # Key THEN None ELSE lock[r]]

\* Commit or rollback: all that x holds is given back.
Ended(x) == [r \in Rows |-> IF lock[r] = x THEN None ELSE lock[r]]

\* The rows whose lock x waits for when it cannot go on.
Wants(x) ==
    IF x \in Passes THEN CASE pass[x].at = "users" -> Users
                           [] pass[x].at = "teams" -> Teams
                           [] OTHER -> {}
    ELSE IF x \in Kills THEN CASE kill[x].at = "hit"   -> {kill[x].victim}
                               [] kill[x].at = "award" -> {kill[x].by}
                               [] OTHER -> {}
    ELSE CASE join[x].at = "row"   -> {join[x].team}
           [] join[x].at = "enter" -> {join[x].user}
           [] OTHER -> {}

Holders(S)    == {lock[r] : r \in UNION {Wants(x) : x \in S}} \ {None}
Ahead(x)      == FoldSet(LAMBDA y, S : S \cup Holders(S), Holders({x}) \ {x}, Txs)
Deadlocked(x) == x \in Ahead(x)

\* Bounds.
MayPlay  == up /\ played < MaxPlay /\ played' = played + 1
MayFault == faults < MaxFaults /\ faults' = faults + 1

-----------------------------------------------------------------------------
(* run() and its callers.                                                  *)

Moves(p, at) == pass' = [pass EXCEPT ![p].at = at]

\* Midnight strikes; the cron job calls run(), which notes today's date.
NewDay ==
    /\ day < MaxDay
    /\ up => pass[Cron].at = "idle"
    /\ day' = day + 1
    /\ pass' = IF up THEN [pass EXCEPT ![Cron] = [at |-> "start", day |-> day']] ELSE pass
    /\ UNCHANGED <<game, up, reports, ledger, lock, draft, seen, passes, played, faults>>

Request ==
    /\ up /\ pass[Admin].at = "idle" /\ MayFault
    /\ pass' = [pass EXCEPT ![Admin] = [at |-> "start", day |-> day]]
    /\ UNCHANGED <<game, up, day, reports, ledger, lock, draft, seen, passes, played>>

\* onApplicationBootstrap: it looks for the row of the day the boot began on,
\* and run() takes the date anew.
SelfHeal ==
    /\ pass[Boot].at = "ledger"
    /\ pass' = [pass EXCEPT ![Boot] = IF pass[Boot].day \in ledger THEN Idle
                                      ELSE [at |-> "start", day |-> day]]
    /\ UNCHANGED <<game, up, day, reports, ledger, lock, draft, seen, passes, played, faults>>

\* pg_try_advisory_xact_lock, and phase 0, which restocks the system's planets.
TryLock(p) ==
    /\ pass[p].at = "start"
    /\ \/ Free(Key) /\ lock' = Held(Key, p) /\ Moves(p, "users")
       \/ ~Free(Key) /\ pass' = [pass EXCEPT ![p] = Idle] /\ UNCHANGED lock
    /\ UNCHANGED <<game, up, day, reports, ledger, draft, seen, passes, played, faults>>

\* Mutant of Written: the statement is issued outside of the transaction.
WrittenOutside(r, p) == lock

Written(r, p) == Held(r, p)

\* Phase 1 resets a user's row.
Reset(p, u) ==
    /\ pass[p].at = "users" /\ u \notin draft.done /\ Free(u)
    /\ lock' = Written(u, p)
    /\ draft' = [draft EXCEPT !.user[u] = [user[u] EXCEPT !.worth = 0, !.score = 0],
                               !.done = @ \cup {u}]
    /\ IF Users \subseteq draft'.done THEN Moves(p, "planets") ELSE UNCHANGED pass
    /\ UNCHANGED <<game, up, day, reports, ledger, seen, passes, played, faults>>

\* Mutant of Msgno: the clock instead of the day.
MsgnoOfClock(d, pl) == <<Cardinality(ledger) + MapThenSumSet(LAMBDA e : passes[e], Day), pl>>

\* productionMailMsgno
Msgno(d, pl) == <<d, pl>>

Production(d) == {[to |-> owner[pl], planet |-> pl, day |-> d, no |-> Msgno(d, pl)] :
                     pl \in {q \in Planets : owner[q] # Nobody}}

\* createMany with skipDuplicates: the key is the addressee and the number.
Mailed(new) == reports \cup {r \in new : \A old \in reports : <<old.to, old.no>> # <<r.to, r.no>>}

\* Mutant of ReadPlanets: the reports are not written by the transaction.
ReadPlanetsOutside(p) ==
    /\ pass[p].at = "planets"
    /\ seen' = owner /\ reports' = Mailed(Production(pass[p].day))
    /\ draft' = [draft EXCEPT !.reports = reports']
    /\ Moves(p, "teams")
    /\ UNCHANGED <<game, up, day, ledger, lock, passes, played, faults>>

\* Phases 2 and 3: the planets are read, their owners credited and written to,
\* and old mail is deleted.
ReadPlanets(p) ==
    /\ pass[p].at = "planets"
    /\ seen' = owner
    /\ draft' = [draft EXCEPT
          !.user = [u \in Users |-> [draft.user[u] EXCEPT !.worth = Cardinality({pl \in Planets : owner[pl] = u})]],
          !.reports = {r \in Mailed(Production(pass[p].day)) : r.day + MailDays >= day}]
    /\ Moves(p, "teams")
    /\ UNCHANGED <<game, up, day, reports, ledger, lock, passes, played, faults>>

\* Phase 4 begins: a team's row is zeroed.
ZeroTeam(p, t) ==
    /\ pass[p].at = "teams" /\ t \notin draft.done /\ Free(t)
    /\ lock' = Held(t, p)
    /\ draft' = [draft EXCEPT !.team[t] = [team[t] EXCEPT !.count = 0, !.points = 0],
                               !.done = @ \cup {t}]
    /\ IF Teams \subseteq draft'.done THEN Moves(p, "score") ELSE UNCHANGED pass
    /\ UNCHANGED <<game, up, day, reports, ledger, seen, passes, played, faults>>

\* setUserScores
Scored(u) == draft.user[u].worth + draft.user[u].kills

\* assignRosterPositions
RosterPlace(u) ==
    IF Scored(u) = 0 THEN 0
    ELSE Cardinality({v \in Users : \/ Scored(v) > Scored(u)
                                    \/ Scored(v) = Scored(u) /\ v <= u})

\* countTeamMembersAndResetOrphans
Members(t) == {u \in Users : draft.user[u].member = t}
Counted(t) == Cardinality(Members(t))

\* applyPerMemberTeamScore
TeamScored(t) ==
    SumFunction([u \in Members(t) |-> Bonus + Scored(u) \div Max({Counted(t), 1})])

\* The rest of phase 4 touches rows the pass already holds; phase 5 deletes
\* accounts that never finished signing up.
Score(p) ==
    /\ pass[p].at = "score"
    /\ draft' = [draft EXCEPT
          !.user = [u \in Users |-> [draft.user[u] EXCEPT !.score = Scored(u), !.place = RosterPlace(u)]],
          !.team = [t \in Teams |-> [count |-> Counted(t), points |-> TeamScored(t),
                                     removed |-> draft.team[t].removed \/ Counted(t) = 0]]]
    /\ Moves(p, "commit")
    /\ UNCHANGED <<game, up, day, reports, ledger, lock, seen, passes, played, faults>>

\* recordRun and the commit.
Commit(p) ==
    /\ pass[p].at = "commit"
    /\ user' = draft.user /\ team' = draft.team /\ reports' = draft.reports
    /\ ledger' = ledger \cup {pass[p].day}
    /\ passes' = [passes EXCEPT ![pass[p].day] = @ + 1]
    /\ lock' = Ended(p)
    /\ pass' = [pass EXCEPT ![p] = Idle] /\ draft' = NoDraft
    /\ UNCHANGED <<up, day, owner, seen, kill, join, played, faults>>

\* A statement fails or thirty seconds have passed, or Postgres breaks a
\* deadlock: the pass is rolled back, and its caller only logs it.
RollBack(p) ==
    /\ pass[p].at \notin {"idle", "ledger", "start"}
    /\ \/ MayFault
       \/ Deadlocked(p) /\ UNCHANGED faults
    /\ lock' = Ended(p) /\ draft' = NoDraft
    /\ pass' = [pass EXCEPT ![p] = Idle]
    /\ UNCHANGED <<game, up, day, reports, ledger, seen, passes, played>>

-----------------------------------------------------------------------------
(* The game meanwhile.                                                     *)

\* A planet is claimed, taken, or given up: its row is written.
ChangeOwner(pl, o) ==
    /\ MayPlay /\ owner[pl] # o
    /\ owner' = [owner EXCEPT ![pl] = o]
    /\ UNCHANGED <<up, day, user, team, reports, ledger, lock, pass, draft, seen, kill, join, passes, faults>>

\* Deducted from a score that was read.
Deducted(n) == IF n > Toll THEN n - Toll ELSE 0

\* transferKillScore begins and reads the victim's row.
Strike(k, v, u) ==
    /\ MayPlay /\ kill[k].at = "idle" /\ u # v
    /\ kill' = [kill EXCEPT ![k] = [at |-> "hit", victim |-> v, by |-> u,
                                    score |-> user[v].score, kills |-> user[v].kills]]
    /\ UNCHANGED <<up, day, owner, user, team, reports, ledger, lock, pass, draft, seen, join, passes, faults>>

\* The victim's row is written, from what was read.
HitVictim(k) ==
    /\ kill[k].at = "hit" /\ Free(kill[k].victim)
    /\ lock' = Held(kill[k].victim, k)
    /\ kill' = [kill EXCEPT ![k].at = "award"]
    /\ UNCHANGED <<up, day, owner, user, team, reports, ledger, pass, draft, seen, join, passes, played, faults>>

Loses(row, k) == [row EXCEPT !.score = Deducted(kill[k].score), !.kills = Deducted(kill[k].kills)]
Gains(row)    == [row EXCEPT !.score = @ + Prize, !.kills = @ + Prize]

\* The attacker's row is incremented, and both are committed.
Award(k) ==
    LET v == kill[k].victim
        u == kill[k].by
    IN  /\ kill[k].at = "award" /\ Free(u)
        /\ user' = [user EXCEPT ![v] = Loses(@, k), ![u] = Gains(@)]
        /\ lock' = Ended(k) /\ kill' = [kill EXCEPT ![k] = NoKill]
        /\ UNCHANGED <<up, day, owner, team, reports, ledger, pass, draft, seen, join, passes, played, faults>>

\* It times out, or is the one a deadlock is broken by: logged and forgotten.
KillFails(k) ==
    /\ kill[k].at # "idle"
    /\ \/ MayFault
       \/ Deadlocked(k) /\ UNCHANGED faults
    /\ lock' = Ended(k) /\ kill' = [kill EXCEPT ![k] = NoKill]
    /\ UNCHANGED <<up, day, owner, user, team, reports, ledger, pass, draft, seen, join, passes, played>>

\* joinByPassword finds a team that is not removed.
AskToJoin(j, u, t) ==
    /\ MayPlay /\ join[j].at = "idle"
    /\ user[u].member = NoTeam /\ ~team[t].removed
    /\ join' = [join EXCEPT ![j] = [at |-> "row", user |-> u, team |-> t]]
    /\ UNCHANGED <<up, day, owner, user, team, reports, ledger, lock, pass, draft, seen, kill, passes, faults>>

\* SELECT ... FOR UPDATE, and the count.
LockTeam(j) ==
    /\ join[j].at = "row" /\ Free(join[j].team)
    /\ IF Cardinality({u \in Users : user[u].member = join[j].team}) < TeamMax
       THEN lock' = Held(join[j].team, j) /\ join' = [join EXCEPT ![j].at = "enter"]
       ELSE join' = [join EXCEPT ![j] = NoJoin] /\ UNCHANGED lock
    /\ UNCHANGED <<up, day, owner, user, team, reports, ledger, pass, draft, seen, kill, passes, played, faults>>

Enter(j) ==
    /\ join[j].at = "enter" /\ Free(join[j].user)
    /\ user' = [user EXCEPT ![join[j].user].member = join[j].team]
    /\ lock' = Ended(j) /\ join' = [join EXCEPT ![j] = NoJoin]
    /\ UNCHANGED <<up, day, owner, team, reports, ledger, pass, draft, seen, kill, passes, played, faults>>

JoinFails(j) ==
    /\ join[j].at # "idle"
    /\ \/ MayFault
       \/ Deadlocked(j) /\ UNCHANGED faults
    /\ lock' = Ended(j) /\ join' = [join EXCEPT ![j] = NoJoin]
    /\ UNCHANGED <<up, day, owner, user, team, reports, ledger, pass, draft, seen, kill, passes, played>>

\* leaveTeam: one statement.
Leave(u) ==
    /\ MayPlay /\ Free(u) /\ user[u].member # NoTeam
    /\ user' = [user EXCEPT ![u].member = NoTeam]
    /\ UNCHANGED <<up, day, owner, team, reports, ledger, lock, pass, draft, seen, kill, join, passes, faults>>

-----------------------------------------------------------------------------
(* The process.                                                            *)

\* Its connections close, and Postgres rolls back what was open.
Crash ==
    /\ up /\ MayFault
    /\ up' = FALSE
    /\ lock' = [r \in Rows |-> None] /\ draft' = NoDraft
    /\ pass' = [p \in Passes |-> Idle]
    /\ kill' = [k \in Kills |-> NoKill] /\ join' = [j \in Joins |-> NoJoin]
    /\ UNCHANGED <<day, owner, user, team, reports, ledger, seen, passes, played>>

Restart ==
    /\ ~up /\ up' = TRUE
    /\ pass' = [pass EXCEPT ![Boot] = [at |-> "ledger", day |-> day]]
    /\ UNCHANGED <<game, day, reports, ledger, lock, draft, seen, passes, played, faults>>

Nightly(p) ==
    \/ TryLock(p) \/ ReadPlanets(p) \/ Score(p) \/ Commit(p)
    \/ \E u \in Users : Reset(p, u)
    \/ \E t \in Teams : ZeroTeam(p, t)

Fighting(k) == HitVictim(k) \/ Award(k)
Joining(j)  == LockTeam(j) \/ Enter(j)

Next ==
    \/ NewDay \/ Request \/ SelfHeal \/ Crash \/ Restart
    \/ \E p \in Passes : Nightly(p) \/ RollBack(p)
    \/ \E pl \in Planets, o \in Users \cup {Nobody} : ChangeOwner(pl, o)
    \/ \E k \in Kills : (\E v, u \in Users : Strike(k, v, u)) \/ Fighting(k) \/ KillFails(k)
    \/ \E j \in Joins : (\E u \in Users, t \in Teams : AskToJoin(j, u, t)) \/ Joining(j) \/ JoinFails(j)
    \/ \E u \in Users : Leave(u)

\* What the database does unasked: it answers, and breaks deadlocks.
Answers ==
    \/ SelfHeal
    \/ \E p \in Passes : Nightly(p) \/ (Deadlocked(p) /\ RollBack(p))
    \/ \E k \in Kills : Fighting(k) \/ (Deadlocked(k) /\ KillFails(k))
    \/ \E j \in Joins : Joining(j) \/ (Deadlocked(j) /\ JoinFails(j))

\* As long as some statement can be answered, one is.
Fairness == WF_vars(Answers)

Spec == Init /\ [][Next]_vars /\ Fairness

-----------------------------------------------------------------------------
(* Properties.                                                             *)

\* However many passes run and whatever plays meanwhile, what is published is
\* reckoned from one picture of the galaxy: the phases do not see different
\* nights, and no kill or join is overwritten (midnight.service.ts, the one
\* transaction around its phases).
Published == INSTANCE Standings WITH
    kills  <- [u \in Users |-> user[u].kills],
    member <- [u \in Users |-> user[u].member],
    board  <- [worth   |-> [u \in Users |-> user[u].worth],
               place   |-> [u \in Users |-> user[u].place],
               count   |-> [t \in Teams |-> team[t].count],
               points  |-> [t \in Teams |-> team[t].points],
               removed |-> {t \in Teams : team[t].removed}]

Standings == Published!Spec

\* A captain gets one production report a planet a day, however often the
\* pass runs that day (productionMailMsgno and skipDuplicates).
OneReportPerNight ==
    \A r, s \in reports : <<r.to, r.planet, r.day>> = <<s.to, s.planet, s.day>> => r = s

\* The standings of a day that the ledger holds are those of a pass that ran
\* to its end: reports of a day are out only when the ledger has it.
LedgerCoversReports == \A r \in reports : r.day \in ledger

\* The advisory lock never outlives its pass, so that the next one is not
\* turned away for ever (the comment in run()).
LockIsReleased == lock[Key] # None ~> lock[Key] = None
=============================================================================
