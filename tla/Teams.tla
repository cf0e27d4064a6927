-------------------------------- MODULE Teams --------------------------------
(***************************************************************************)
(* TeamService and the tea command: teams and memberships in the database, *)
(* and the team each captain's hull remembers.  Commands are queued for    *)
(* each socket, and a captain may have two: several calls may be in flight *)
(* for him.  Each is a record that says what it waits for.                 *)
(*                                                                         *)
(* The nightly pass (module Midnight) is one step here: it marks empty     *)
(* teams removed, and on its completion the hulls' teams are read again.   *)
(***************************************************************************)
EXTENDS Integers, FiniteSets

CONSTANTS
    Users, Calls,
    Names,        \* bound: the names captains give their teams
    NoUser,
    MaxTeams,     \* MAXTEAMS
    TeamMax,      \* TEAMMAX
    MaxCode,      \* bound: team codes
    MaxCalls,     \* bound: commands given
    MaxNights     \* bound: nightly passes

ASSUME BoundsAssumption ==
    /\ {MaxTeams, TeamMax, MaxCode, MaxCalls, MaxNights} \subseteq Nat \ {0}
    /\ MaxTeams <= MaxCode
ASSUME ActorsAssumption ==
    IsFiniteSet(Users) /\ IsFiniteSet(Calls) /\ NoUser \notin Users \cup Calls

VARIABLES
    member,    \* User.teamcode, 0 for none
    team,      \* the Team rows
    cache,     \* ShipState.teamcode
    call,      \* the commands in flight
    refresh,   \* refreshTeamcodes: what it read
    lock,      \* which call holds a team's row
    crossed,   \* history: captains for whom two calls overlapped
    given, nights   \* bounds

vars == <<member, team, cache, call, refresh, lock, crossed, given, nights>>

Codes == 1..MaxCode
Code  == 0..MaxCode

Row    == [name : Names, founder : Users, removed : BOOLEAN]
Call   == [at : {"idle", "count", "alloc", "find", "lock", "enter", "gate", "target", "drop", "answer"},
           verb : {"none", "create", "join", "leave", "kick"},
           by : Users \cup {NoUser}, code : Code, of : Users \cup {NoUser}]
NoCall == [at |-> "idle", verb |-> "none", by |-> NoUser, code |-> 0, of |-> NoUser]
Asleep == [at |-> "idle", rows |-> [u \in Users |-> 0]]

Taken       == DOMAIN team
Crew(c)     == {u \in Users : member[u] = c}

TypeOK ==
    /\ member \in [Users -> Code] /\ cache \in [Users -> Code]
    /\ Taken \subseteq Codes /\ team \in [Taken -> Row]
    /\ call \in [Calls -> Call]
    /\ refresh \in [at : {"idle", "read", "assign"}, rows : [Users -> Code]]
    /\ lock \in [Codes -> Calls \cup {NoUser}]
    /\ crossed \subseteq Users
    /\ given \in 0..MaxCalls /\ nights \in 0..MaxNights

Init ==
    /\ member = [u \in Users |-> 0] /\ cache = [u \in Users |-> 0]
    /\ team = <<>>
    /\ call = [c \in Calls |-> NoCall] /\ refresh = Asleep
    /\ lock = [t \in Codes |-> NoUser]
    /\ crossed = {} /\ given = 0 /\ nights = 0

\* The calls that have a hand in captain u's team, and whether they overlap.
Hands(u, cs, r) == {c \in Calls : cs[c].at # "idle" /\ u \in {cs[c].by, cs[c].of}}
                       \cup (IF r.at = "idle" THEN {} ELSE {NoUser})
Crossed == crossed' = crossed \cup {u \in Users : Cardinality(Hands(u, call', refresh')) > 1}

Waits(c, r)  == call' = [call EXCEPT ![c] = r]
Ends(c)      == Waits(c, NoCall)
Turned(op, at, code) == [op EXCEPT !.at = at, !.code = code]
Goes(c, at, code) == Waits(c, Turned(call[c], at, code))
At(c, at)    == call[c].at = at

-----------------------------------------------------------------------------
(* The commands, up to their first await.                                  *)

\* createTeam asks for a team of its own, joinTeam for one named t: neither if
\* the hull remembers a team.
AskOutside(c, u, verb) ==
    /\ verb \in {"create", "join"} /\ cache[u] = 0
    /\ Waits(c, [at |-> IF verb = "create" THEN "count" ELSE "find", verb |-> verb,
                 by |-> u, code |-> 0, of |-> NoUser])

\* leaveTeam and kickMember want one.
AskInside(c, u, v, verb) ==
    /\ verb \in {"leave", "kick"} /\ cache[u] # 0
    /\ verb = "leave" => v = u
    /\ Waits(c, [at |-> IF verb = "leave" THEN "drop" ELSE "gate", verb |-> verb,
                 by |-> u, code |-> cache[u], of |-> v])

Ask(c, u, v, verb) ==
    /\ At(c, "idle") /\ given < MaxCalls /\ given' = given + 1
    /\ \/ AskOutside(c, u, verb) /\ v = u
       \/ AskInside(c, u, v, verb)
    /\ UNCHANGED <<member, team, cache, refresh, lock, nights>>
    /\ Crossed

-----------------------------------------------------------------------------
(* tea create.                                                             *)

\* countTeams, removed ones included.
CountTeams(c) ==
    /\ At(c, "count")
    /\ IF Cardinality(Taken) >= MaxTeams THEN Ends(c)
       ELSE Waits(c, [call[c] EXCEPT !.at = "alloc"])
    /\ UNCHANGED <<member, team, cache, refresh, lock, given, nights>>
    /\ Crossed

\* The transaction behind the allocation lock: the next code, the team, its
\* founder's membership.  A name that is taken is refused after three tries.
\* Bound: MaxCode.
Found(c, n) ==
    LET new == Cardinality(Taken) + 1
        u   == call[c].by
    IN  /\ At(c, "alloc")
        /\ IF \E t \in Taken : team[t].name = n
           THEN Ends(c) /\ UNCHANGED <<team, member>>
           ELSE /\ new \in Codes
                /\ team' = [t \in Taken \cup {new} |-> IF t = new
                              THEN [name |-> n, founder |-> u, removed |-> FALSE] ELSE team[t]]
                /\ member' = [member EXCEPT ![u] = new]
                /\ Goes(c, "answer", new)
        /\ UNCHANGED <<cache, refresh, lock, given, nights>>
        /\ Crossed

-----------------------------------------------------------------------------
(* tea join.                                                               *)

\* findByNameLower; names are unique, so it finds at most one.
FindTeam(c, n) ==
    /\ At(c, "find")
    /\ LET found == {t \in Taken : team[t].name = n /\ ~team[t].removed}
       IN  IF found = {} THEN Ends(c)
           ELSE Goes(c, "lock", CHOOSE t \in found : TRUE)
    /\ UNCHANGED <<member, team, cache, refresh, lock, given, nights>>
    /\ Crossed

\* Mutant of RowFree: the count is made without the team's row.
RowFreeAnyway(t) == TRUE

RowFree(t) == lock[t] = NoUser

\* SELECT ... FOR UPDATE, and the count.
CountCrew(c) ==
    LET t == call[c].code
    IN  /\ At(c, "lock") /\ RowFree(t)
        /\ IF Cardinality(Crew(t)) >= TeamMax
           THEN Ends(c) /\ UNCHANGED lock
           ELSE Waits(c, [call[c] EXCEPT !.at = "enter"]) /\ lock' = [lock EXCEPT ![t] = c]
        /\ UNCHANGED <<member, team, cache, refresh, given, nights>>
        /\ Crossed

\* The membership, and the commit.
Enter(c) ==
    LET t == call[c].code
    IN  /\ At(c, "enter")
        /\ member' = [member EXCEPT ![call[c].by] = t]
        /\ lock' = [lock EXCEPT ![t] = NoUser]
        /\ Waits(c, [call[c] EXCEPT !.at = "answer"])
        /\ UNCHANGED <<team, cache, refresh, given, nights>>
        /\ Crossed

-----------------------------------------------------------------------------
(* tea kick and tea leave.                                                 *)

\* founderTeam: the remembered team, not removed, and its founder's secret.
Gate(c) ==
    /\ At(c, "gate")
    /\ IF /\ call[c].code \in Taken
          /\ ~team[call[c].code].removed
          /\ team[call[c].code].founder = call[c].by
       THEN Waits(c, [call[c] EXCEPT !.at = "target"])
       ELSE Ends(c)
    /\ UNCHANGED <<member, team, cache, refresh, lock, given, nights>>
    /\ Crossed

\* findTeamMembership
Target(c) ==
    /\ At(c, "target")
    /\ IF member[call[c].of] = call[c].code
       THEN Waits(c, [call[c] EXCEPT !.at = "drop"])
       ELSE Ends(c)
    /\ UNCHANGED <<member, team, cache, refresh, lock, given, nights>>
    /\ Crossed

\* setTeamcode(userid, null), whatever team it is by now.
Drop(c) ==
    /\ At(c, "drop")
    /\ member' = [member EXCEPT ![call[c].of] = 0]
    /\ Goes(c, "answer", 0)
    /\ UNCHANGED <<team, cache, refresh, lock, given, nights>>
    /\ Crossed

\* Mutant of Remembers: a kick leaves the hull of the captain kicked alone.
RemembersOwn(op) == [cache EXCEPT ![op.by] = IF op.verb = "kick" THEN @ ELSE op.code]

\* What the hulls remember when the call resumes: the kicked captain's none,
\* the caller's own what he asked for.
Remembers(op) ==
    [cache EXCEPT ![IF op.verb = "kick" THEN op.of ELSE op.by] = op.code]

Answer(c) ==
    /\ At(c, "answer")
    /\ cache' = Remembers(call[c])
    /\ Ends(c)
    /\ UNCHANGED <<member, team, refresh, lock, given, nights>>
    /\ Crossed

\* tea newname: the founder renames his team; a name that is taken is refused.
Rename(u, n) ==
    LET t == cache[u]
    IN  /\ given < MaxCalls /\ given' = given + 1
        /\ t \in Taken /\ ~team[t].removed /\ team[t].founder = u
        /\ \A s \in Taken : team[s].name # n
        /\ team' = [team EXCEPT ![t].name = n]
        /\ UNCHANGED <<member, cache, call, refresh, lock, crossed, nights>>

-----------------------------------------------------------------------------
(* The night.                                                              *)

\* The pass marks empty teams; joins that hold a team's row come before it.
Night ==
    /\ nights < MaxNights /\ nights' = nights + 1
    /\ refresh.at = "idle" /\ \A t \in Codes : RowFree(t)
    /\ team' = [t \in Taken |-> [team[t] EXCEPT !.removed = @ \/ Crew(t) = {}]]
    /\ refresh' = [refresh EXCEPT !.at = "read"]
    /\ UNCHANGED <<member, cache, call, lock, given>>
    /\ Crossed

\* refreshTeamcodes reads the users' teams,
RefreshRead ==
    /\ refresh.at = "read"
    /\ refresh' = [at |-> "assign", rows |-> member]
    /\ UNCHANGED <<member, team, cache, call, lock, given, nights>>
    /\ Crossed

\* and gives the hulls what it read.
RefreshAssign ==
    /\ refresh.at = "assign"
    /\ cache' = refresh.rows /\ refresh' = Asleep
    /\ UNCHANGED <<member, team, call, lock, given, nights>>
    /\ Crossed

Next ==
    \/ \E c \in Calls :
          \/ \E u, v \in Users, verb \in {"create", "join", "leave", "kick"} : Ask(c, u, v, verb)
          \/ CountTeams(c) \/ (\E n \in Names : Found(c, n) \/ FindTeam(c, n))
          \/ CountCrew(c) \/ Enter(c) \/ Gate(c) \/ Target(c) \/ Drop(c) \/ Answer(c)
    \/ \E u \in Users, n \in Names : Rename(u, n)
    \/ Night \/ RefreshRead \/ RefreshAssign

Spec == Init /\ [][Next]_vars

-----------------------------------------------------------------------------
(* Properties.                                                             *)

\* However many captains join at once, a team never has more than TEAMMAX
\* members (the comment in joinByPassword).
TeamsAreCapped == \A t \in Codes : Cardinality(Crew(t)) <= TeamMax

\* What a captain's hull remembers is his team, once nothing is in flight for
\* him, unless two calls that concern him overlapped: a kick clears it too,
\* though it is another captain's command (tea.handler.ts:276).
HullsRemember ==
    \A u \in Users : u \notin crossed /\ Hands(u, call, refresh) = {} => cache[u] = member[u]
=============================================================================
