------------------------------ MODULE Standings ------------------------------
(***************************************************************************)
(* What the nightly pass promises: standings that are reckoned, all at     *)
(* once, from one picture of who owned what and from the kill scores and   *)
(* the teams of the moment they are published.  Nothing else moves them.   *)
(***************************************************************************)
EXTENDS Integers, FiniteSets, Functions

CONSTANTS
    Users,       \* numbers, so that userids are ordered
    Teams, NoTeam,
    Planets, Nobody,
    Bonus        \* TEAMBONU

VARIABLES
    owner,     \* who owns each planet
    kills,     \* each user's kill score
    member,    \* each user's team
    seen,      \* the picture of owner the next standings are reckoned from
    board      \* the standings

vars == <<owner, kills, member, seen, board>>

Worth(o, u)    == Cardinality({p \in Planets : o[p] = u})
Points(o, k, u) == Worth(o, u) + k[u]
Crew(m, t)     == {u \in Users : m[u] = t}

\* A scoring user stands below everybody who has more points, and below those
\* with as many and a lesser name.
Place(o, k, u) ==
    LET above == {v \in Users : \/ Points(o, k, v) > Points(o, k, u)
                                \/ Points(o, k, v) = Points(o, k, u) /\ v < u}
    IN  IF Points(o, k, u) = 0 THEN 0 ELSE 1 + Cardinality(above)

\* Every member brings the bonus and an equal share of the points.
TeamPoints(o, k, m, t) ==
    SumFunction([u \in Crew(m, t) |-> Bonus + Points(o, k, u) \div Cardinality(Crew(m, t))])

Init ==
    /\ owner \in [Planets -> Users \cup {Nobody}]
    /\ kills \in [Users -> Nat]
    /\ member \in [Users -> Teams \cup {NoTeam}]
    /\ seen = owner
    /\ board = [worth |-> [u \in Users |-> 0], place |-> [u \in Users |-> 0],
                count |-> [t \in Teams |-> 0], points |-> [t \in Teams |-> 0],
                removed |-> {}]

\* The game goes on.
Play ==
    /\ owner' \in [Planets -> Users \cup {Nobody}]
    /\ \A u \in Users : kills'[u] \in Nat /\ member'[u] \in Teams \cup {NoTeam}
    /\ UNCHANGED <<seen, board>>

Look ==
    /\ seen' = owner
    /\ UNCHANGED <<owner, kills, member, board>>

Publish ==
    /\ board' = [worth   |-> [u \in Users |-> Worth(seen, u)],
                 place   |-> [u \in Users |-> Place(seen, kills, u)],
                 count   |-> [t \in Teams |-> Cardinality(Crew(member, t))],
                 points  |-> [t \in Teams |-> TeamPoints(seen, kills, member, t)],
                 removed |-> board.removed \cup {t \in Teams : Crew(member, t) = {}}]
    /\ UNCHANGED <<owner, kills, member, seen>>

Next == Play \/ Look \/ Publish

Spec == Init /\ [][Next]_vars
=============================================================================
