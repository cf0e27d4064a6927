----------------------------- MODULE Teams_proofs -----------------------------
(***************************************************************************)
(* For any captains, calls and bounds: however many captains join at once, *)
(* no team outgrows its cap, and what a hull remembers is its captain's    *)
(* team, unless two calls that concern him overlapped.                     *)
(***************************************************************************)
EXTENDS Teams, FiniteSetTheorems, SequenceTheorems, TLAPS

-----------------------------------------------------------------------------
(* The inductive invariant.                                                *)

\* Codes are given out in order, and captains are in teams that exist.
InOrder == \E n \in 0 .. MaxCode : Taken = 1 .. n

Enrolled == \A u \in Users : member[u] = 0 \/ member[u] \in Taken

\* Which command is where, and whom it is about.
KindOf(c) ==
    /\ call[c].at # "idle" => call[c].by \in Users
    /\ call[c].at \in {"count", "alloc", "find", "lock", "enter"} =>
          call[c].verb \in {"create", "join"} /\ call[c].of = NoUser
    /\ call[c].at \in {"drop", "gate", "target"} =>
          call[c].verb \in {"leave", "kick"} /\ call[c].of \in Users
    /\ call[c].verb = "leave" => call[c].of = call[c].by
    /\ call[c].verb = "kick" => call[c].of \in Users
    /\ call[c].at \in {"lock", "enter"} => call[c].code \in Taken

Kinds == \A c \in Calls : KindOf(c)

\* Who enters holds the team's row, and the count he made still leaves room.
RoomFor(c) ==
    call[c].at = "enter" =>
        /\ lock[call[c].code] = c
        /\ Cardinality(Crew(call[c].code)) < TeamMax

Rooms == \A c \in Calls : RoomFor(c)

\* Whose hull is told.
Whom(c) == IF call[c].verb = "kick" THEN call[c].of ELSE call[c].by

\* The membership is changed before the hull is told, and only in between do they differ.
Truth(u, c) == IF call[c].at = "answer" /\ u = Whom(c) THEN member[u] = call[c].code
               ELSE cache[u] = member[u]

HandsOn(u) == Hands(u, call, refresh)

Remembered(u) ==
    /\ \A x, y \in HandsOn(u) : x = y
    /\ HandsOn(u) = {} => cache[u] = member[u]
    /\ \A c \in Calls : c \in HandsOn(u) => Truth(u, c)
    /\ refresh.at = "assign" => refresh.rows[u] = member[u]

AllRemembered == \A u \in Users \ crossed : Remembered(u)

IInv == TypeOK /\ InOrder /\ Enrolled /\ Kinds /\ Rooms /\ TeamsAreCapped /\ AllRemembered
-----------------------------------------------------------------------------
(* The cap.                                                                *)

Basic == TypeOK /\ InOrder /\ Enrolled /\ Kinds /\ Rooms /\ TeamsAreCapped

\* The types of what no cap depends on.
Others ==
    /\ cache \in [Users -> Code]
    /\ refresh \in [at : {"idle", "read", "assign"}, rows : [Users -> Code]]
    /\ crossed \subseteq Users
    /\ given \in 0 .. MaxCalls /\ nights \in 0 .. MaxNights

LEMMA CallTyped ==
    /\ NoCall \in Call /\ NoCall.at = "idle"
    /\ \A r \in Call :
          /\ r.code \in Code /\ r.by \in Users \cup {NoUser} /\ r.of \in Users \cup {NoUser}
          /\ \A at \in {"alloc", "enter", "answer", "target", "drop"} :
                LET op == [r EXCEPT !.at = at]
                IN  /\ op \in Call /\ op.at = at /\ op.code = r.code
                    /\ op.verb = r.verb /\ op.by = r.by /\ op.of = r.of
          /\ \A code \in Code :
                LET op == [r EXCEPT !.code = code]
                IN  /\ op \in Call /\ op.at = r.at /\ op.code = code
                    /\ op.verb = r.verb /\ op.by = r.by /\ op.of = r.of
  <1>1. NoCall \in Call /\ NoCall.at = "idle"
    BY BoundsAssumption DEF NoCall, Call, Code
  <1>2. ASSUME NEW r \in Call
        PROVE  r.code \in Code /\ r.by \in Users \cup {NoUser} /\ r.of \in Users \cup {NoUser}
    BY DEF Call
  <1>3. ASSUME NEW r \in Call, NEW at \in {"alloc", "enter", "answer", "target", "drop"}
        PROVE  LET op == [r EXCEPT !.at = at]
               IN  /\ op \in Call /\ op.at = at /\ op.code = r.code
                   /\ op.verb = r.verb /\ op.by = r.by /\ op.of = r.of
    BY DEF Call
  <1>4. ASSUME NEW r \in Call, NEW code \in Code
        PROVE  LET op == [r EXCEPT !.code = code]
               IN  /\ op \in Call /\ op.at = r.at /\ op.code = code
                   /\ op.verb = r.verb /\ op.by = r.by /\ op.of = r.of
    BY DEF Call
  <1> QED BY <1>1, <1>2, <1>3, <1>4

\* A call goes on with another code.
LEMMA GoesOn ==
    ASSUME NEW r \in Call, NEW at \in {"lock", "answer"}, NEW code \in Code
    PROVE  LET op == Turned(r, at, code)
           IN  /\ op \in Call /\ op.at = at /\ op.code = code
               /\ op.verb = r.verb /\ op.by = r.by /\ op.of = r.of
  <1> DEFINE q == [r EXCEPT !.at = at]
             op == [r EXCEPT !.at = at, !.code = code]
  <1>1. q \in Call /\ q.at = at /\ q.verb = r.verb /\ q.by = r.by /\ q.of = r.of
    BY DEF Call
  <1>2. op = [q EXCEPT !.code = code]
    OBVIOUS
  <1>3. Turned(r, at, code) = op
    BY DEF Turned
  <1> HIDE DEF q, op
  <1> QED BY <1>1, <1>2, <1>3 DEF Call

LEMMA CallFacts ==
    ASSUME Basic, NEW c \in Calls
    PROVE  /\ call \in [Calls -> Call] /\ call[c] \in Call /\ Others /\ KindOf(c) /\ RoomFor(c)
           /\ member \in [Users -> Code] /\ lock \in [Codes -> Calls \cup {NoUser}]
           /\ Taken \subseteq Codes /\ team \in [Taken -> Row]
  BY DEF Basic, TypeOK, Others, Kinds, Rooms

LEMMA CrewFacts ==
    ASSUME NEW t
    PROVE  IsFiniteSet(Crew(t)) /\ Cardinality(Crew(t)) \in Nat
  BY ActorsAssumption, FS_Subset, FS_CardinalityType DEF Crew

\* A call takes a step that no crew and no lock sees.
LEMMA PlainBasic ==
    ASSUME Basic, NEW c \in Calls, NEW op \in Call, call' = [call EXCEPT ![c] = op],
           UNCHANGED <<member, team, lock>>, Others', KindOf(c)', op.at # "enter"
    PROVE  Basic'
  <1>1. call \in [Calls -> Call] /\ call' \in [Calls -> Call] /\ call'[c] = op
        /\ \A b \in Calls \ {c} : call'[b] = call[b]
    BY CallFacts
  <1>2. TypeOK' /\ InOrder' /\ Enrolled' /\ TeamsAreCapped'
    BY <1>1 DEF Basic, TypeOK, Others, InOrder, Enrolled, TeamsAreCapped, Taken, Crew
  <1>3. Kinds'
    BY <1>1 DEF Basic, Kinds, KindOf, Taken
  <1>4. Rooms'
    BY <1>1 DEF Basic, Rooms, RoomFor, Crew
  <1> QED BY <1>2, <1>3, <1>4 DEF Basic

\* The call ends.
LEMMA EndsBasic ==
    ASSUME Basic, NEW c \in Calls, Ends(c), UNCHANGED <<member, team, lock>>, Others'
    PROVE  Basic'
  <1>1. call' = [call EXCEPT ![c] = NoCall] /\ NoCall \in Call
    BY CallTyped DEF Ends, Waits
  <1>2. call'[c] = NoCall
    BY <1>1, CallFacts
  <1>3. KindOf(c)' /\ NoCall.at # "enter"
    BY <1>2 DEF KindOf, NoCall
  <1> QED BY <1>1, <1>3, PlainBasic

LEMMA OthersKeep ==
    ASSUME Basic, Crossed, UNCHANGED nights,
           given' = given \/ (given < MaxCalls /\ given' = given + 1),
           cache' \in [Users -> Code], UNCHANGED refresh
    PROVE  Others'
  <1>1. crossed' \subseteq Users
    BY DEF Crossed, Basic, TypeOK
  <1>2. given' \in 0 .. MaxCalls
    BY BoundsAssumption DEF Basic, TypeOK
  <1> QED BY <1>1, <1>2 DEF Others, Basic, TypeOK

LEMMA AskBasic ==
    ASSUME Basic, NEW c \in Calls, NEW u \in Users, NEW v \in Users,
           NEW verb \in {"create", "join", "leave", "kick"}, Ask(c, u, v, verb)
    PROVE  Basic'
  <1>1. Others' /\ UNCHANGED <<member, team, lock>> /\ cache[u] \in Code
    BY CallFacts, OthersKeep DEF Ask, Others
  <1> DEFINE out == [at |-> IF verb = "create" THEN "count" ELSE "find", verb |-> verb,
                     by |-> u, code |-> 0, of |-> NoUser]
             in == [at |-> IF verb = "leave" THEN "drop" ELSE "gate", verb |-> verb,
                    by |-> u, code |-> cache[u], of |-> v]
  <1>2. CASE AskOutside(c, u, verb)
    <2>1. out \in Call
      BY BoundsAssumption DEF Call, Code
    <2>2. call' = [call EXCEPT ![c] = out] /\ verb \in {"create", "join"}
      BY <1>2 DEF AskOutside, Waits
    <2>3. call'[c] = out
      BY <2>2, CallFacts
    <2>4. KindOf(c)' /\ out.at # "enter"
      BY <2>2, <2>3 DEF KindOf
    <2> HIDE DEF out
    <2> QED BY <1>1, <2>1, <2>2, <2>4, PlainBasic
  <1>3. CASE AskInside(c, u, v, verb)
    <2>1. in \in Call
      BY <1>1 DEF Call
    <2>2. call' = [call EXCEPT ![c] = in] /\ verb \in {"leave", "kick"} /\ (verb = "leave" => v = u)
      BY <1>3 DEF AskInside, Waits
    <2>3. call'[c] = in
      BY <2>2, CallFacts
    <2>4. KindOf(c)' /\ in.at # "enter"
      BY <2>2, <2>3 DEF KindOf
    <2> HIDE DEF in
    <2> QED BY <1>1, <2>1, <2>2, <2>4, PlainBasic
  <1> QED BY <1>2, <1>3 DEF Ask

\* count, gate, target, find and an answer: the call goes on, or ends.
LEMMA AwaitsBasic ==
    ASSUME Basic, NEW c \in Calls, NEW n,
           CountTeams(c) \/ FindTeam(c, n) \/ Gate(c) \/ Target(c) \/ Answer(c)
    PROVE  Basic'
  <1>1. /\ call[c] \in Call /\ call[c].by \in Users \cup {NoUser} /\ call[c].of \in Users \cup {NoUser}
        /\ call[c].code \in Code /\ KindOf(c)
    BY CallFacts, CallTyped
  <1>2. UNCHANGED <<member, team, lock, refresh, given, nights>> /\ Crossed
    BY DEF CountTeams, FindTeam, Gate, Target, Answer
  <1>3. cache' \in [Users -> Code]
    BY <1>1, CallFacts DEF CountTeams, FindTeam, Gate, Target, Answer, Remembers, Others
  <1>4. Others'
    BY <1>2, <1>3, OthersKeep
  <1>5. CASE Ends(c)
    BY <1>2, <1>4, <1>5, EndsBasic
  <1>6. ASSUME NEW at \in {"alloc", "target", "drop"}, NEW was \in {"count", "gate", "target"},
               call[c].at = was, at = "alloc" <=> was = "count",
               Waits(c, [call[c] EXCEPT !.at = at])
        PROVE  Basic'
    <2> DEFINE op == [call[c] EXCEPT !.at = at]
    <2>1. op \in Call /\ op.at = at /\ op.verb = call[c].verb /\ op.by = call[c].by /\ op.of = call[c].of
      BY <1>1 DEF Call
    <2>2. call' = [call EXCEPT ![c] = op]
      BY <1>6 DEF Waits
    <2> HIDE DEF op
    <2>3. call'[c] = op
      BY <2>2, CallFacts
    <2>4. KindOf(c)' /\ op.at # "enter"
      BY <1>1, <1>6, <2>1, <2>3 DEF KindOf
    <2> QED BY <1>2, <1>4, <2>1, <2>2, <2>4, PlainBasic
  <1>7. CASE CountTeams(c) /\ ~Ends(c)
    BY <1>6, <1>7 DEF CountTeams, At
  <1>8. CASE Gate(c) /\ ~Ends(c)
    BY <1>6, <1>8 DEF Gate, At
  <1>9. CASE Target(c) /\ ~Ends(c)
    BY <1>6, <1>9 DEF Target, At
  <1>10. CASE FindTeam(c, n) /\ ~Ends(c)
    <2> DEFINE found == {t \in Taken : team[t].name = n /\ ~team[t].removed}
               t == CHOOSE t \in found : TRUE
               op == Turned(call[c], "lock", t)
    <2>1. call[c].at = "find" /\ found # {} /\ call' = [call EXCEPT ![c] = op]
      BY <1>10 DEF FindTeam, At, Goes, Waits
    <2>2. t \in Taken
      BY <2>1
    <2> HIDE DEF t
    <2>3. t \in Code
      BY <2>2, CallFacts DEF Codes, Code
    <2>4. /\ op \in Call /\ op.at = "lock" /\ op.code = t
          /\ op.verb = call[c].verb /\ op.by = call[c].by /\ op.of = call[c].of
      BY <1>1, <2>3, GoesOn
    <2> HIDE DEF op
    <2>5. call'[c] = op
      BY <2>1, CallFacts
    <2>6. KindOf(c)' /\ op.at # "enter"
      BY <1>1, <1>2, <2>1, <2>2, <2>4, <2>5 DEF KindOf, Taken
    <2> QED BY <1>2, <1>4, <2>1, <2>4, <2>6, PlainBasic
  <1>11. Answer(c) => Ends(c)
    BY DEF Answer
  <1> QED BY <1>5, <1>7, <1>8, <1>9, <1>10, <1>11

\* A captain's new team is the only one that gains a member.
LEMMA CrewChanges ==
    ASSUME member \in [Users -> Code], NEW u \in Users, NEW n,
           member' = [member EXCEPT ![u] = n]
    PROVE  \A t : /\ Cardinality(Crew(t)') \in Nat /\ Cardinality(Crew(t)) \in Nat
                  /\ t # n => Cardinality(Crew(t)') <= Cardinality(Crew(t))
                  /\ Cardinality(Crew(t)') <= Cardinality(Crew(t)) + 1
  <1> SUFFICES ASSUME NEW t
               PROVE  /\ Cardinality(Crew(t)') \in Nat /\ Cardinality(Crew(t)) \in Nat
                      /\ t # n => Cardinality(Crew(t)') <= Cardinality(Crew(t))
                      /\ Cardinality(Crew(t)') <= Cardinality(Crew(t)) + 1
    OBVIOUS
  <1> DEFINE old == Crew(t)
             new == Crew(t)'
  <1>1. IsFiniteSet(old) /\ Cardinality(old) \in Nat
    BY CrewFacts
  <1>2. t # n => new \subseteq old
    BY DEF Crew
  <1>3. new \subseteq old \cup {u}
    BY DEF Crew
  <1> HIDE DEF old, new
  <1>4. /\ IsFiniteSet(old \cup {u}) /\ Cardinality(old \cup {u}) \in Nat
        /\ Cardinality(old \cup {u}) <= Cardinality(old) + 1
    <2>1. CASE u \in old
      BY <1>1, <2>1, old \cup {u} = old
    <2>2. CASE u \notin old
      BY <1>1, <2>2, FS_AddElement
    <2> QED BY <2>1, <2>2
  <1>5. /\ IsFiniteSet(new) /\ Cardinality(new) \in Nat
        /\ Cardinality(new) <= Cardinality(old \cup {u})
    BY <1>3, <1>4, FS_Subset, FS_CardinalityType
  <1>6. t # n => Cardinality(new) <= Cardinality(old)
    BY <1>1, <1>2, FS_Subset
  <1> QED BY <1>1, <1>4, <1>5, <1>6 DEF old, new

\* The cap is TEAMMAX members, at least one.
LEMMA RoomForOne == TeamMax \in Nat /\ TeamMax >= 1 /\ MaxCode \in Nat /\ MaxTeams \in Nat
  BY BoundsAssumption

LEMMA CountCrewBasic ==
    ASSUME Basic, NEW c \in Calls, CountCrew(c)
    PROVE  Basic'
  <1> DEFINE t == call[c].code
             op == [call[c] EXCEPT !.at = "enter"]
  <1>1. call[c] \in Call /\ KindOf(c) /\ call[c].at = "lock" /\ t \in Taken /\ t \in Codes
    BY CallFacts DEF CountCrew, At, KindOf
  <1>2. UNCHANGED <<member, team, cache, refresh, given, nights>> /\ Crossed
    BY DEF CountCrew
  <1>3. Others'
    BY <1>2, OthersKeep, CallFacts DEF Others
  <1>4. CASE Ends(c) /\ UNCHANGED lock
    BY <1>2, <1>3, <1>4, EndsBasic
  <1>5. CASE ~(Ends(c) /\ UNCHANGED lock)
    <2>1. /\ call' = [call EXCEPT ![c] = op] /\ lock' = [lock EXCEPT ![t] = c]
          /\ lock[t] = NoUser /\ ~(Cardinality(Crew(t)) >= TeamMax)
      BY <1>5 DEF CountCrew, Waits, RowFree
    <2>2. /\ op \in Call /\ op.at = "enter" /\ op.code = t /\ op.verb = call[c].verb
          /\ op.by = call[c].by /\ op.of = call[c].of
      BY <1>1 DEF Call
    <2> HIDE DEF op
    <2>3. /\ call \in [Calls -> Call] /\ call' \in [Calls -> Call] /\ call'[c] = op
          /\ \A b \in Calls \ {c} : call'[b] = call[b]
      BY <2>1, <2>2, CallFacts
    <2>4. /\ lock' \in [Codes -> Calls \cup {NoUser}] /\ lock'[t] = c
          /\ \A s \in Codes \ {t} : lock'[s] = lock[s]
      BY <1>1, <2>1, CallFacts
    <2>5. Cardinality(Crew(t)) < TeamMax
      BY <2>1, CrewFacts, RoomForOne
    <2>6. TypeOK' /\ InOrder' /\ Enrolled' /\ TeamsAreCapped'
      BY <1>2, <1>3, <2>3, <2>4 DEF Basic, TypeOK, Others, InOrder, Enrolled, TeamsAreCapped, Taken, Crew
    <2>7. Kinds'
      BY <1>1, <1>2, <2>2, <2>3 DEF Basic, Kinds, KindOf, Taken
    <2>8. Rooms'
      <3> SUFFICES ASSUME NEW b \in Calls PROVE RoomFor(b)'
        BY DEF Rooms
      <3>1. CASE b = c
        BY <1>2, <2>2, <2>3, <2>4, <2>5, <3>1 DEF RoomFor, Crew
      <3>2. CASE b # c
        <4> SUFFICES ASSUME call[b].at = "enter"
                     PROVE  RoomFor(b)'
          BY <2>3, <3>2 DEF RoomFor
        <4>1. RoomFor(b) /\ KindOf(b)
          BY CallFacts
        <4>2. lock[call[b].code] = b /\ call[b].code \in Codes
          BY <4>1, CallFacts DEF RoomFor, KindOf
        <4>3. call[b].code # t
          BY <2>1, <4>2, ActorsAssumption
        <4> QED BY <1>2, <2>3, <2>4, <3>2, <4>1, <4>2, <4>3 DEF RoomFor, Crew
      <3> QED BY <3>1, <3>2
    <2> QED BY <2>6, <2>7, <2>8 DEF Basic
  <1> QED BY <1>4, <1>5

LEMMA EnterBasic ==
    ASSUME Basic, NEW c \in Calls, Enter(c)
    PROVE  Basic'
  <1> DEFINE t == call[c].code
             u == call[c].by
             op == [call[c] EXCEPT !.at = "answer"]
  <1>1. /\ call[c] \in Call /\ KindOf(c) /\ RoomFor(c) /\ call[c].at = "enter"
        /\ t \in Taken /\ t \in Codes /\ t \in Code /\ u \in Users
        /\ lock[t] = c /\ Cardinality(Crew(t)) < TeamMax
    BY CallFacts DEF Enter, At, KindOf, RoomFor, Codes, Code
  <1>2. UNCHANGED <<team, cache, refresh, given, nights>> /\ Crossed
    BY DEF Enter
  <1>3. Others'
    BY <1>2, OthersKeep, CallFacts DEF Others
  <1>4. /\ call' = [call EXCEPT ![c] = op] /\ lock' = [lock EXCEPT ![t] = NoUser]
        /\ member' = [member EXCEPT ![u] = t]
    BY DEF Enter, Waits
  <1>5. /\ op \in Call /\ op.at = "answer" /\ op.code = t /\ op.verb = call[c].verb
        /\ op.by = call[c].by /\ op.of = call[c].of
    BY <1>1 DEF Call
  <1> HIDE DEF op, u
  <1>6. /\ call \in [Calls -> Call] /\ call' \in [Calls -> Call] /\ call'[c] = op
        /\ \A b \in Calls \ {c} : call'[b] = call[b]
    BY <1>4, <1>5, CallFacts
  <1>7. /\ lock' \in [Codes -> Calls \cup {NoUser}]
        /\ \A s \in Codes \ {t} : lock'[s] = lock[s]
    BY <1>1, <1>4, CallFacts
  <1>8. /\ member' \in [Users -> Code] /\ Enrolled'
    BY <1>1, <1>2, <1>4, CallFacts DEF Basic, Enrolled, Taken
  <1>9. \A s : /\ Cardinality(Crew(s)') \in Nat /\ Cardinality(Crew(s)) \in Nat
               /\ s # t => Cardinality(Crew(s)') <= Cardinality(Crew(s))
               /\ Cardinality(Crew(s)') <= Cardinality(Crew(s)) + 1
    BY <1>1, <1>4, CallFacts, CrewChanges
  <1>10. TeamsAreCapped'
    <2> SUFFICES ASSUME NEW s \in Codes PROVE Cardinality(Crew(s)') <= TeamMax
      BY DEF TeamsAreCapped
    <2>1. Cardinality(Crew(s)) <= TeamMax
      BY DEF Basic, TeamsAreCapped
    <2> DEFINE old == Cardinality(Crew(s))
               new == Cardinality(Crew(s)')
    <2>2. /\ new \in Nat /\ old \in Nat /\ old <= TeamMax
          /\ s # t => new <= old
          /\ new <= old + 1 /\ (s = t => old < TeamMax)
      BY <1>1, <1>9, <2>1
    <2> HIDE DEF old, new, t
    <2>3. new <= TeamMax
      BY <2>2, RoomForOne
    <2> QED BY <2>3 DEF new
  <1>11. TypeOK' /\ InOrder'
    BY <1>2, <1>3, <1>6, <1>7, <1>8 DEF Basic, TypeOK, Others, InOrder, Taken
  <1>12. Kinds'
    BY <1>1, <1>2, <1>5, <1>6 DEF Basic, Kinds, KindOf, Taken
  <1>13. Rooms'
    <2> SUFFICES ASSUME NEW b \in Calls, call'[b].at = "enter" PROVE RoomFor(b)'
      BY DEF Rooms, RoomFor
    <2>1. b # c /\ call'[b] = call[b]
      BY <1>5, <1>6
    <2>2. RoomFor(b) /\ KindOf(b) /\ call[b].at = "enter"
      BY <2>1, CallFacts
    <2>3. lock[call[b].code] = b /\ call[b].code \in Codes /\ Cardinality(Crew(call[b].code)) < TeamMax
      BY <2>2, CallFacts DEF RoomFor, KindOf
    <2>4. PICK r \in Codes : r = call[b].code
      BY <2>3
    <2>5. r # t /\ Cardinality(Crew(r)) < TeamMax /\ call'[b].code = r /\ lock'[r] = b
      BY <1>1, <1>7, <2>1, <2>3, <2>4
    <2> DEFINE old == Cardinality(Crew(r))
               new == Cardinality(Crew(r)')
    <2>6. new \in Nat /\ old \in Nat /\ new <= old /\ old < TeamMax
      BY <1>9, <2>5
    <2> HIDE DEF old, new
    <2>7. new < TeamMax
      BY <2>6, RoomForOne
    <2>8. Cardinality(Crew(r)') < TeamMax
      BY <2>7 DEF new
    <2> QED BY <2>5, <2>8 DEF RoomFor, Crew
  <1> QED BY <1>8, <1>10, <1>11, <1>12, <1>13 DEF Basic

\* A captain who goes to no team that exists, or to a new one, takes nobody's room.
LEMMA RoomStays ==
    ASSUME Basic, NEW b \in Calls, call'[b] = call[b], UNCHANGED lock,
           NEW u \in Users, NEW n, n \notin Taken, member' = [member EXCEPT ![u] = n]
    PROVE  RoomFor(b)'
  <1> SUFFICES ASSUME call[b].at = "enter" PROVE RoomFor(b)'
    BY DEF RoomFor
  <1>1. PICK r \in Taken : r = call[b].code
    BY CallFacts DEF KindOf
  <1>2. r # n /\ lock'[r] = b /\ call'[b].code = r /\ Cardinality(Crew(r)) < TeamMax
    BY <1>1, CallFacts DEF RoomFor
  <1> DEFINE old == Cardinality(Crew(r))
             new == Cardinality(Crew(r)')
  <1>3. new \in Nat /\ old \in Nat /\ new <= old /\ old < TeamMax
    BY <1>2, CallFacts, CrewChanges
  <1> HIDE DEF old, new
  <1>4. new < TeamMax
    BY <1>3, RoomForOne
  <1>5. Cardinality(Crew(r)') < TeamMax
    BY <1>4 DEF new
  <1> QED BY <1>2, <1>5 DEF RoomFor, Crew

LEMMA FoundBasic ==
    ASSUME Basic, NEW c \in Calls, NEW n \in Names, Found(c, n)
    PROVE  Basic'
  <1> DEFINE new == Cardinality(Taken) + 1
             u == call[c].by
             op == Turned(call[c], "answer", new)
             row == [name |-> n, founder |-> u, removed |-> FALSE]
  <1>1. /\ call[c] \in Call /\ KindOf(c) /\ call[c].at = "alloc" /\ u \in Users
        /\ call[c].verb = "create" \/ call[c].verb = "join"
    BY CallFacts DEF Found, At, KindOf
  <1>2. UNCHANGED <<cache, refresh, lock, given, nights>> /\ Crossed
    BY DEF Found
  <1>3. Others'
    BY <1>2, OthersKeep, CallFacts DEF Others
  <1>4. CASE \E t \in Taken : team[t].name = n
    BY <1>2, <1>3, <1>4, EndsBasic DEF Found
  <1>5. CASE ~ \E t \in Taken : team[t].name = n
    <2>1. /\ new \in Codes /\ call' = [call EXCEPT ![c] = op] /\ member' = [member EXCEPT ![u] = new]
          /\ team' = [t \in Taken \cup {new} |-> IF t = new THEN row ELSE team[t]]
      BY <1>5 DEF Found, Goes, Waits
    <2>2. PICK k \in 0 .. MaxCode : Taken = 1 .. k
      BY DEF Basic, InOrder
    <2>3. new = k + 1
      <3>1. Cardinality(1 .. k) = k
        BY <2>2, RoomForOne, FS_Interval
      <3> QED BY <2>2, <3>1
    <2>4. row \in Row
      BY <1>1 DEF Row
    <2> HIDE DEF new, row, u
    <2>5. new \notin Taken /\ Taken \cup {new} = 1 .. (k + 1) /\ k + 1 \in 0 .. MaxCode /\ new \in Code
      BY <2>1, <2>2, <2>3, RoomForOne DEF Codes, Code
    <2>6. Taken' = Taken \cup {new}
      BY <2>1 DEF Taken
    <2>7. team' \in [Taken' -> Row] /\ Taken' \subseteq Codes
      BY <2>1, <2>4, <2>6, CallFacts DEF Codes, Taken
    <2>8. /\ op \in Call /\ op.at = "answer" /\ op.code = new
          /\ op.verb = call[c].verb /\ op.by = call[c].by /\ op.of = call[c].of
      BY <1>1, <2>5, GoesOn
    <2> HIDE DEF op
    <2>9. /\ call \in [Calls -> Call] /\ call' \in [Calls -> Call] /\ call'[c] = op
          /\ \A b \in Calls \ {c} : call'[b] = call[b]
      BY <2>1, <2>8, CallFacts
    <2>10. member' \in [Users -> Code]
      BY <1>1, <2>1, <2>5, CallFacts
    <2>11. Enrolled'
      BY <1>1, <2>1, <2>6, CallFacts DEF Basic, Enrolled
    <2>12. TypeOK' /\ InOrder'
      BY <1>2, <1>3, <2>2, <2>5, <2>6, <2>7, <2>9, <2>10 DEF Basic, TypeOK, Others, InOrder
    <2>13. Kinds'
      BY <1>1, <2>6, <2>8, <2>9 DEF Basic, Kinds, KindOf, u
    <2>14. Rooms'
      <3> SUFFICES ASSUME NEW b \in Calls, call'[b].at = "enter" PROVE RoomFor(b)'
        BY DEF Rooms, RoomFor
      <3>1. call'[b] = call[b]
        BY <2>8, <2>9
      <3> QED BY <1>1, <1>2, <2>1, <2>5, <3>1, RoomStays
    <2>15. TeamsAreCapped'
      <3> SUFFICES ASSUME NEW s \in Codes PROVE Cardinality(Crew(s)') <= TeamMax
        BY DEF TeamsAreCapped
      <3>1. /\ Cardinality(Crew(s)') \in Nat /\ Cardinality(Crew(s)) \in Nat
            /\ s # new => Cardinality(Crew(s)') <= Cardinality(Crew(s))
            /\ Cardinality(Crew(s)') <= Cardinality(Crew(s)) + 1
        BY <1>1, <2>1, CallFacts, CrewChanges
      <3>2. Cardinality(Crew(s)) <= TeamMax
        BY DEF Basic, TeamsAreCapped
      <3>3. s = new => Cardinality(Crew(s)) = 0
        <4>1. \A v \in Users : member[v] # new
          BY <2>1, <2>5 DEF Basic, Enrolled, Codes
        <4>2. s = new => Crew(s) = {}
          BY <4>1 DEF Crew
        <4> QED BY <4>2, FS_EmptySet
      <3> DEFINE x == Cardinality(Crew(s))
                 y == Cardinality(Crew(s)')
      <3>4. /\ x \in Nat /\ y \in Nat /\ x <= TeamMax /\ y <= x + 1
            /\ (s # new => y <= x) /\ (s = new => x = 0)
        BY <3>1, <3>2, <3>3
      <3> HIDE DEF x, y
      <3>5. y <= TeamMax
        BY <3>4, RoomForOne
      <3> QED BY <3>5 DEF y
    <2> QED BY <2>11, <2>12, <2>13, <2>14, <2>15 DEF Basic
  <1> QED BY <1>4, <1>5

LEMMA DropBasic ==
    ASSUME Basic, NEW c \in Calls, Drop(c)
    PROVE  Basic'
  <1> DEFINE u == call[c].of
             op == Turned(call[c], "answer", 0)
  <1>1. /\ call[c] \in Call /\ KindOf(c) /\ call[c].at = "drop" /\ u \in Users
        /\ call[c].verb = "leave" \/ call[c].verb = "kick"
    BY CallFacts DEF Drop, At, KindOf
  <1>2. UNCHANGED <<team, cache, refresh, lock, given, nights>> /\ Crossed
    BY DEF Drop
  <1>3. Others'
    BY <1>2, OthersKeep, CallFacts DEF Others
  <1>4. call' = [call EXCEPT ![c] = op] /\ member' = [member EXCEPT ![u] = 0]
    BY DEF Drop, Goes, Waits
  <1>5. 0 \in Code /\ 0 \notin Codes /\ 0 \notin Taken
    BY RoomForOne, CallFacts DEF Code, Codes
  <1>6. /\ op \in Call /\ op.at = "answer" /\ op.code = 0
        /\ op.verb = call[c].verb /\ op.by = call[c].by /\ op.of = call[c].of
    BY <1>1, <1>5, GoesOn
  <1> HIDE DEF op, u
  <1>7. /\ call \in [Calls -> Call] /\ call' \in [Calls -> Call] /\ call'[c] = op
        /\ \A b \in Calls \ {c} : call'[b] = call[b]
    BY <1>4, <1>6, CallFacts
  <1>8. member' \in [Users -> Code] /\ Enrolled'
    BY <1>1, <1>2, <1>4, <1>5, CallFacts DEF Basic, Enrolled, Taken
  <1>9. TypeOK' /\ InOrder'
    BY <1>2, <1>3, <1>7, <1>8 DEF Basic, TypeOK, Others, InOrder, Taken
  <1>10. Kinds'
    BY <1>1, <1>2, <1>6, <1>7 DEF Basic, Kinds, KindOf, u, Taken
  <1>11. Rooms'
    <2> SUFFICES ASSUME NEW b \in Calls, call'[b].at = "enter" PROVE RoomFor(b)'
      BY DEF Rooms, RoomFor
    <2>1. call'[b] = call[b]
      BY <1>6, <1>7
    <2> QED BY <1>1, <1>2, <1>4, <1>5, <2>1, RoomStays
  <1>12. TeamsAreCapped'
    <2> SUFFICES ASSUME NEW s \in Codes PROVE Cardinality(Crew(s)') <= TeamMax
      BY DEF TeamsAreCapped
    <2>1. /\ Cardinality(Crew(s)') \in Nat /\ Cardinality(Crew(s)) \in Nat
          /\ Cardinality(Crew(s)') <= Cardinality(Crew(s))
      BY <1>1, <1>4, <1>5, CallFacts, CrewChanges
    <2>2. Cardinality(Crew(s)) <= TeamMax
      BY DEF Basic, TeamsAreCapped
    <2> DEFINE x == Cardinality(Crew(s))
               y == Cardinality(Crew(s)')
    <2>3. x \in Nat /\ y \in Nat /\ x <= TeamMax /\ y <= x
      BY <2>1, <2>2
    <2> HIDE DEF x, y
    <2>4. y <= TeamMax
      BY <2>3, RoomForOne
    <2> QED BY <2>4 DEF y
  <1> QED BY <1>8, <1>9, <1>10, <1>11, <1>12 DEF Basic

\* The steps that change no membership and no call.
LEMMA RestBasic ==
    ASSUME Basic, UNCHANGED <<member, call, lock>>, Taken' = Taken, team' \in [Taken -> Row], Others'
    PROVE  Basic'
  <1>1. TypeOK' /\ InOrder' /\ Enrolled' /\ TeamsAreCapped'
    BY DEF Basic, TypeOK, Others, InOrder, Enrolled, TeamsAreCapped, Crew
  <1>2. Kinds'
    BY DEF Basic, Kinds, KindOf
  <1>3. Rooms'
    BY DEF Basic, Rooms, RoomFor, Crew
  <1> QED BY <1>1, <1>2, <1>3 DEF Basic

LEMMA RenameBasic ==
    ASSUME Basic, NEW u \in Users, NEW n \in Names, Rename(u, n)
    PROVE  Basic'
  <1>1. Others'
    BY CallFacts, BoundsAssumption DEF Rename, Others, Basic, TypeOK
  <1>2. \A r \in Row : [r EXCEPT !.name = n] \in Row
    BY DEF Row
  <1>3. team \in [Taken -> Row] /\ cache[u] \in Taken /\ team' = [team EXCEPT ![cache[u]].name = n]
    BY DEF Rename, Basic, TypeOK
  <1>4. team' = [team EXCEPT ![cache[u]] = [team[cache[u]] EXCEPT !.name = n]]
    BY <1>3
  <1>5. team' \in [Taken -> Row]
    BY <1>2, <1>3, <1>4
  <1>6. Taken' = Taken
    BY <1>3, <1>4 DEF Taken
  <1> QED BY <1>1, <1>5, <1>6, RestBasic DEF Rename

LEMMA NightBasic ==
    ASSUME Basic, Night \/ RefreshRead \/ RefreshAssign
    PROVE  Basic'
  <1>1. UNCHANGED <<member, call, lock, given>> /\ Crossed
    BY DEF Night, RefreshRead, RefreshAssign
  <1>2. crossed' \subseteq Users
    BY <1>1 DEF Crossed, Basic, TypeOK
  <1>3. CASE Night
    <2>1. \A r \in Row, x \in BOOLEAN : [r EXCEPT !.removed = @ \/ x] \in Row
      BY DEF Row
    <2>2. team' = [t \in Taken |-> [team[t] EXCEPT !.removed = @ \/ Crew(t) = {}]]
      BY <1>3 DEF Night
    <2>3. \A t \in Taken : [team[t] EXCEPT !.removed = @ \/ Crew(t) = {}] \in Row
      BY <2>1 DEF Basic, TypeOK
    <2>4. Taken' = Taken
      BY <2>2 DEF Taken
    <2>5. team' \in [Taken -> Row]
      BY <2>2, <2>3
    <2>6. /\ refresh' = [refresh EXCEPT !.at = "read"] /\ UNCHANGED cache
          /\ nights' \in 0 .. MaxNights
      BY <1>3, BoundsAssumption DEF Night, Basic, TypeOK
    <2>7. refresh' \in [at : {"idle", "read", "assign"}, rows : [Users -> Code]]
      BY <2>6 DEF Basic, TypeOK
    <2>8. Others'
      BY <1>1, <1>2, <2>6, <2>7 DEF Basic, TypeOK, Others
    <2> QED BY <1>1, <2>4, <2>5, <2>8, RestBasic
  <1>4. CASE RefreshRead
    <2>1. UNCHANGED <<team, cache, nights>> /\ refresh' = [at |-> "assign", rows |-> member]
      BY <1>4 DEF RefreshRead
    <2>2. Others'
      BY <1>1, <1>2, <2>1 DEF Basic, TypeOK, Others
    <2> QED BY <1>1, <2>1, <2>2, RestBasic, CallFacts DEF Taken, Basic, TypeOK
  <1>5. CASE RefreshAssign
    <2>1. UNCHANGED <<team, nights>> /\ cache' = refresh.rows /\ refresh' = Asleep
      BY <1>5 DEF RefreshAssign
    <2>2. Asleep \in [at : {"idle", "read", "assign"}, rows : [Users -> Code]]
      BY RoomForOne DEF Asleep, Code
    <2>3. Others'
      BY <1>1, <1>2, <2>1, <2>2 DEF Basic, TypeOK, Others
    <2> QED BY <1>1, <2>1, <2>3, RestBasic DEF Taken, Basic, TypeOK
  <1> QED BY <1>3, <1>4, <1>5

LEMMA BasicKept ==
    ASSUME Basic, [Next]_vars
    PROVE  Basic'
  <1>1. CASE UNCHANGED vars
    <2>1. UNCHANGED <<member, call, lock, team>> /\ Others'
      BY <1>1 DEF vars, Basic, TypeOK, Others
    <2> QED BY <2>1, RestBasic DEF Taken, Basic, TypeOK
  <1>2. ASSUME NEW c \in Calls, NEW n, CountTeams(c) \/ FindTeam(c, n) \/ Gate(c) \/ Target(c) \/ Answer(c)
        PROVE  Basic'
    BY <1>2, AwaitsBasic
  <1>3. ASSUME NEW c \in Calls, CountTeams(c) \/ Gate(c) \/ Target(c) \/ Answer(c)
        PROVE  Basic'
    BY <1>2, <1>3
  <1> QED BY <1>1, <1>2, <1>3, AskBasic, FoundBasic, CountCrewBasic, EnterBasic, DropBasic,
             RenameBasic, NightBasic DEF Next

-----------------------------------------------------------------------------
(* What the hulls remember.                                                *)

LEMMA HandsAre ==
    ASSUME NEW u, NEW cs, NEW r
    PROVE  \A x : x \in Hands(u, cs, r) <=>
              (\/ x \in Calls /\ cs[x].at # "idle" /\ (u = cs[x].by \/ u = cs[x].of)
               \/ x = NoUser /\ r.at # "idle")
  BY DEF Hands

\* Two calls that concern a captain cross him.
LEMMA OneHand ==
    ASSUME Crossed, NEW u \in Users \ crossed'
    PROVE  \A x, y \in HandsOn(u)' : x = y
  <1> DEFINE hands == Hands(u, call', refresh')
  <1>1. IsFiniteSet(hands) /\ ~(Cardinality(hands) > 1)
    <2>1. IsFiniteSet(Calls \cup {NoUser}) /\ hands \subseteq Calls \cup {NoUser}
      BY ActorsAssumption, FS_AddElement DEF Hands
    <2>2. ~(Cardinality(hands) > 1)
      BY DEF Crossed
    <2> HIDE DEF hands
    <2> QED BY <2>1, <2>2, FS_Subset
  <1> SUFFICES ASSUME NEW x \in hands, NEW y \in hands, x # y PROVE FALSE
    BY DEF HandsOn
  <1> HIDE DEF hands
  <1>2. IsFiniteSet({x}) /\ Cardinality({x}) = 1
    BY FS_Singleton
  <1>3. IsFiniteSet({x} \cup {y}) /\ Cardinality({x} \cup {y}) = 2
    <2>1. y \notin {x}
      OBVIOUS
    <2> DEFINE one == {x}
    <2> HIDE DEF one
    <2>2. y \notin one /\ IsFiniteSet(one) /\ Cardinality(one) = 1
      BY <1>2, <2>1 DEF one
    <2>3. IsFiniteSet(one \cup {y}) /\ Cardinality(one \cup {y}) = 2
      BY <2>2, FS_AddElement
    <2> QED BY <2>3 DEF one
  <1>4. Cardinality({x} \cup {y}) <= Cardinality(hands) /\ {x} \cup {y} \subseteq hands
    BY <1>1, FS_Subset
  <1>5. Cardinality(hands) \in Nat
    BY <1>1, FS_CardinalityType
  <1> QED BY <1>1, <1>3, <1>4, <1>5

\* A call goes on, or ends: only the captains it is about can tell, and the
\* membership and the hull of each agree as they should.
LEMMA CallKeeps ==
    ASSUME call \in [Calls -> Call], NEW c \in Calls, NEW op, call' = [call EXCEPT ![c] = op],
           call[c].at # "idle", UNCHANGED refresh,
           op.at # "idle" => op.by = call[c].by /\ op.of = call[c].of,
           NEW u \in Users, Remembered(u),
           u # call[c].by /\ u # call[c].of => member'[u] = member[u] /\ cache'[u] = cache[u],
           (u = call[c].by \/ u = call[c].of) /\ Truth(u, c) =>
              IF op.at = "idle" THEN cache'[u] = member'[u] ELSE Truth(u, c)'
    PROVE  Remembered(u)'
  <1> DEFINE old == HandsOn(u)
             new == HandsOn(u)'
  <1>1. call'[c] = op /\ \A b \in Calls \ {c} : call'[b] = call[b]
    OBVIOUS
  <1>2. \A x : x \in old <=>
              (\/ x \in Calls /\ call[x].at # "idle" /\ (u = call[x].by \/ u = call[x].of)
               \/ x = NoUser /\ refresh.at # "idle")
    BY HandsAre DEF HandsOn
  <1>3. \A x : x \in new <=>
              (\/ x \in Calls /\ call'[x].at # "idle" /\ (u = call'[x].by \/ u = call'[x].of)
               \/ x = NoUser /\ refresh.at # "idle")
    <2>1. PICK cs : cs = call'
      OBVIOUS
    <2>2. new = Hands(u, cs, refresh)
      BY <2>1 DEF HandsOn
    <2>3. \A x : x \in Hands(u, cs, refresh) <=>
              (\/ x \in Calls /\ cs[x].at # "idle" /\ (u = cs[x].by \/ u = cs[x].of)
               \/ x = NoUser /\ refresh.at # "idle")
      BY HandsAre
    <2> HIDE DEF new
    <2> QED BY <2>1, <2>2, <2>3, Zenon
  <1>4. /\ \A x, y \in old : x = y
        /\ old = {} => cache[u] = member[u]
        /\ \A b \in Calls : b \in old => Truth(u, b)
        /\ refresh.at = "assign" => refresh.rows[u] = member[u]
    BY DEF Remembered
  <1> SUFFICES /\ \A x, y \in new : x = y
               /\ new = {} => cache'[u] = member'[u]
               /\ \A b \in Calls : b \in new => Truth(u, b)'
               /\ refresh.at = "assign" => refresh.rows[u] = member'[u]
    BY DEF Remembered
  <1>5. NoUser \notin Calls
    BY ActorsAssumption
  <1> HIDE DEF old, new
  <1>6. CASE u # call[c].by /\ u # call[c].of
    <2>1. c \notin old /\ c \notin new
      BY <1>1, <1>2, <1>3, <1>5, <1>6
    <2>2. \A x : x \in new <=> x \in old
      BY <1>1, <1>2, <1>3, <2>1
    <2>3. ASSUME NEW b \in Calls, b \in new
          PROVE  Truth(u, b)'
      <3>1. Truth(u, b) /\ call'[b] = call[b]
        BY <1>1, <1>4, <2>1, <2>2, <2>3
      <3> QED BY <1>6, <3>1 DEF Truth, Whom
    <2> QED BY <1>4, <1>6, <2>2, <2>3
  <1>7. CASE u = call[c].by \/ u = call[c].of
    <2>1. c \in old /\ Truth(u, c)
      BY <1>2, <1>4, <1>7
    <2>2. \A x \in old : x = c
      BY <1>4, <2>1
    <2>3. refresh.at = "idle"
      BY <1>2, <1>5, <2>2
    <2>4. \A x \in new : x = c
      BY <1>1, <1>2, <1>3, <2>2, <2>3
    <2>5. op.at # "idle" => c \in new
      BY <1>1, <1>3, <1>7
    <2>6. op.at = "idle" => c \notin new
      BY <1>1, <1>3, <1>5
    <2>7. IF op.at = "idle" THEN cache'[u] = member'[u] ELSE Truth(u, c)'
      BY <1>7, <2>1
    <2>8. \A b \in Calls : b \in new => Truth(u, b)'
      <3> SUFFICES ASSUME c \in new PROVE Truth(u, c)'
        BY <2>4
      <3> QED BY <2>6, <2>7
    <2>9. new = {} => cache'[u] = member'[u]
      BY <2>5, <2>7
    <2> QED BY <2>3, <2>4, <2>8, <2>9
  <1> QED BY <1>6, <1>7

LEMMA StillUncrossed ==
    ASSUME AllRemembered, Crossed \/ UNCHANGED crossed, NEW u \in Users \ crossed'
    PROVE  u \in Users /\ Remembered(u)
  BY DEF AllRemembered, Crossed

LEMMA EndsKeeps ==
    ASSUME Basic, AllRemembered, NEW c \in Calls, Ends(c), call[c].at # "idle", Crossed,
           UNCHANGED <<member, refresh>>, NEW u \in Users \ crossed',
           u # call[c].by /\ u # call[c].of => cache'[u] = cache[u],
           (u = call[c].by \/ u = call[c].of) /\ Truth(u, c) => cache'[u] = member[u]
    PROVE  Remembered(u)'
  <1>1. call \in [Calls -> Call] /\ Remembered(u)
    BY CallFacts, StillUncrossed
  <1>2. call' = [call EXCEPT ![c] = NoCall] /\ NoCall.at = "idle"
    BY CallTyped DEF Ends, Waits
  <1> QED BY <1>1, <1>2, CallKeeps

\* A call goes on, and no membership and no hull changes.
LEMMA GoesOnKeeps ==
    ASSUME Basic, AllRemembered, NEW c \in Calls, NEW op, call' = [call EXCEPT ![c] = op],
           call[c].at \notin {"idle", "answer"}, op.at \notin {"idle", "answer"},
           op.by = call[c].by /\ op.of = call[c].of, Crossed,
           UNCHANGED <<member, cache, refresh>>, NEW u \in Users \ crossed'
    PROVE  Remembered(u)'
  <1>1. call \in [Calls -> Call] /\ Remembered(u)
    BY CallFacts, StillUncrossed
  <1>2. call'[c] = op
    BY <1>1
  <1>3. Truth(u, c) => Truth(u, c)'
    BY <1>2 DEF Truth
  <1> QED BY <1>1, <1>3, CallKeeps

LEMMA AwaitsKeeps ==
    ASSUME Basic, AllRemembered, NEW c \in Calls, NEW n,
           CountTeams(c) \/ FindTeam(c, n) \/ Gate(c) \/ Target(c) \/ CountCrew(c),
           NEW u \in Users \ crossed'
    PROVE  Remembered(u)'
  <1>1. UNCHANGED <<member, cache, refresh>> /\ Crossed
        /\ call[c].at \in {"count", "find", "gate", "target", "lock"}
    BY DEF CountTeams, FindTeam, Gate, Target, CountCrew, At
  <1>2. call[c] \in Call
    BY CallFacts
  <1>3. CASE Ends(c)
    <2>1. Truth(u, c) => cache'[u] = member[u]
      BY <1>1 DEF Truth
    <2> QED BY <1>1, <1>3, <2>1, EndsKeeps
  <1>4. ASSUME NEW at \in {"alloc", "target", "drop", "enter"}, Waits(c, [call[c] EXCEPT !.at = at])
        PROVE  Remembered(u)'
    <2> DEFINE op == [call[c] EXCEPT !.at = at]
    <2>1. op.at = at /\ op.by = call[c].by /\ op.of = call[c].of
      BY <1>2 DEF Call
    <2>2. call' = [call EXCEPT ![c] = op]
      BY <1>4 DEF Waits
    <2> HIDE DEF op
    <2> QED BY <1>1, <2>1, <2>2, GoesOnKeeps
  <1>5. CASE FindTeam(c, n) /\ ~Ends(c)
    <2> DEFINE found == {t \in Taken : team[t].name = n /\ ~team[t].removed}
               t == CHOOSE t \in found : TRUE
               op == Turned(call[c], "lock", t)
    <2>1. found # {} /\ call' = [call EXCEPT ![c] = op]
      BY <1>5 DEF FindTeam, Goes, Waits
    <2>2. t \in Taken
      BY <2>1
    <2> HIDE DEF t
    <2>3. t \in Code
      BY <2>2, CallFacts DEF Codes, Code
    <2>4. op.at = "lock" /\ op.by = call[c].by /\ op.of = call[c].of
      BY <1>2, <2>3, GoesOn
    <2> HIDE DEF op
    <2> QED BY <1>1, <2>1, <2>4, GoesOnKeeps
  <1>6. CASE ~FindTeam(c, n) /\ ~Ends(c)
    BY <1>4, <1>6 DEF CountTeams, Gate, Target, CountCrew
  <1> QED BY <1>3, <1>5, <1>6

LEMMA AnswerKeeps ==
    ASSUME Basic, AllRemembered, NEW c \in Calls, Answer(c), NEW u \in Users \ crossed'
    PROVE  Remembered(u)'
  <1>1. /\ UNCHANGED <<member, refresh>> /\ Crossed /\ Ends(c) /\ call[c].at = "answer"
        /\ cache' = [cache EXCEPT ![Whom(c)] = call[c].code]
    BY DEF Answer, At, Remembers, Whom
  <1>2. cache \in [Users -> Code] /\ KindOf(c) /\ Whom(c) \in Users
    BY <1>1, CallFacts DEF Others, KindOf, Whom
  <1>3. Whom(c) = call[c].by \/ Whom(c) = call[c].of
    BY DEF Whom
  <1> DEFINE w == Whom(c)
  <1>4. u # w => cache'[u] = cache[u]
    BY <1>1, <1>2
  <1>5. u = w => cache'[u] = call[c].code
    BY <1>1, <1>2
  <1>6. Truth(u, c) => cache'[u] = member[u]
    BY <1>1, <1>4, <1>5 DEF Truth
  <1> HIDE DEF w
  <1>7. u # call[c].by /\ u # call[c].of => cache'[u] = cache[u]
    BY <1>3, <1>4 DEF w
  <1> QED BY <1>1, <1>6, <1>7, EndsKeeps

\* The membership is written; the hull will be told.
LEMMA WriteKeeps ==
    ASSUME Basic, AllRemembered, NEW c \in Calls, NEW op, call' = [call EXCEPT ![c] = op],
           call[c].at \notin {"idle", "answer"}, op.at = "answer",
           op.by = call[c].by /\ op.of = call[c].of /\ op.verb = call[c].verb, Whom(c) \in Users,
           member' = [member EXCEPT ![Whom(c)] = op.code],
           Crossed, UNCHANGED <<cache, refresh>>, NEW u \in Users \ crossed'
    PROVE  Remembered(u)'
  <1>1. call \in [Calls -> Call] /\ Remembered(u) /\ member \in [Users -> Code]
    BY CallFacts, StillUncrossed
  <1>2. call'[c] = op
    BY <1>1
  <1>3. Whom(c)' = Whom(c)
    BY <1>2 DEF Whom
  <1>4. Whom(c) = call[c].by \/ Whom(c) = call[c].of
    BY DEF Whom
  <1>5. Truth(u, c) => Truth(u, c)'
    <2>1. CASE u = Whom(c)
      BY <1>1, <1>2, <1>3, <2>1 DEF Truth
    <2>2. CASE u # Whom(c)
      BY <1>1, <1>2, <1>3, <2>2 DEF Truth
    <2> QED BY <2>1, <2>2
  <1>6. u # call[c].by /\ u # call[c].of => member'[u] = member[u] /\ cache'[u] = cache[u]
    BY <1>1, <1>4
  <1> QED BY <1>1, <1>5, <1>6, CallKeeps

LEMMA EnterKeeps ==
    ASSUME Basic, AllRemembered, NEW c \in Calls, Enter(c), NEW u \in Users \ crossed'
    PROVE  Remembered(u)'
  <1> DEFINE op == [call[c] EXCEPT !.at = "answer"]
  <1>1. /\ call[c].at = "enter" /\ UNCHANGED <<cache, refresh>> /\ Crossed
        /\ call' = [call EXCEPT ![c] = op] /\ member' = [member EXCEPT ![call[c].by] = call[c].code]
    BY DEF Enter, At, Waits
  <1>2. call[c] \in Call /\ KindOf(c)
    BY CallFacts
  <1>3. /\ op.at = "answer" /\ op.code = call[c].code /\ op.verb = call[c].verb
        /\ op.by = call[c].by /\ op.of = call[c].of
    BY <1>2 DEF Call
  <1>4. Whom(c) = call[c].by /\ Whom(c) \in Users
    BY <1>1, <1>2 DEF KindOf, Whom
  <1> HIDE DEF op
  <1> QED BY <1>1, <1>3, <1>4, WriteKeeps

LEMMA DropKeeps ==
    ASSUME Basic, AllRemembered, NEW c \in Calls, Drop(c), NEW u \in Users \ crossed'
    PROVE  Remembered(u)'
  <1> DEFINE op == Turned(call[c], "answer", 0)
  <1>1. /\ call[c].at = "drop" /\ UNCHANGED <<cache, refresh>> /\ Crossed
        /\ call' = [call EXCEPT ![c] = op] /\ member' = [member EXCEPT ![call[c].of] = 0]
    BY DEF Drop, At, Goes, Waits
  <1>2. call[c] \in Call /\ KindOf(c) /\ 0 \in Code
    BY CallFacts, RoomForOne DEF Code
  <1>3. /\ op.at = "answer" /\ op.code = 0 /\ op.verb = call[c].verb
        /\ op.by = call[c].by /\ op.of = call[c].of
    BY <1>2, GoesOn
  <1>4. Whom(c) = call[c].of /\ Whom(c) \in Users
    BY <1>1, <1>2 DEF KindOf, Whom
  <1> HIDE DEF op
  <1> QED BY <1>1, <1>3, <1>4, WriteKeeps

LEMMA FoundKeeps ==
    ASSUME Basic, AllRemembered, NEW c \in Calls, NEW n, Found(c, n), NEW u \in Users \ crossed'
    PROVE  Remembered(u)'
  <1> DEFINE new == Cardinality(Taken) + 1
             op == Turned(call[c], "answer", new)
  <1>1. call[c].at = "alloc" /\ UNCHANGED <<cache, refresh>> /\ Crossed
    BY DEF Found, At
  <1>2. call[c] \in Call /\ KindOf(c)
    BY CallFacts
  <1>3. CASE Ends(c) /\ UNCHANGED <<team, member>>
    <2>1. Truth(u, c) => cache'[u] = member[u]
      BY <1>1 DEF Truth
    <2> QED BY <1>1, <1>3, <2>1, EndsKeeps
  <1>4. CASE ~(Ends(c) /\ UNCHANGED <<team, member>>)
    <2>1. /\ call' = [call EXCEPT ![c] = op] /\ member' = [member EXCEPT ![call[c].by] = new]
          /\ new \in Codes
      BY <1>4 DEF Found, Goes, Waits
    <2> HIDE DEF new
    <2>2. new \in Code
      BY <2>1 DEF Codes, Code
    <2>3. /\ op.at = "answer" /\ op.code = new /\ op.verb = call[c].verb
          /\ op.by = call[c].by /\ op.of = call[c].of
      BY <1>2, <2>2, GoesOn
    <2>4. Whom(c) = call[c].by /\ Whom(c) \in Users
      BY <1>1, <1>2 DEF KindOf, Whom
    <2> HIDE DEF op
    <2> QED BY <1>1, <2>1, <2>3, <2>4, WriteKeeps
  <1> QED BY <1>3, <1>4

\* A captain asks: nothing else is in flight for those whom the call is about.
LEMMA AskKeeps ==
    ASSUME Basic, AllRemembered, NEW c \in Calls, NEW w \in Users, NEW v \in Users, NEW verb,
           Ask(c, w, v, verb), NEW u \in Users \ crossed'
    PROVE  Remembered(u)'
  <1>1. /\ UNCHANGED <<member, cache, refresh>> /\ Crossed /\ call[c].at = "idle"
        /\ call \in [Calls -> Call]
    BY CallFacts DEF Ask, At
  <1>2. PICK op : call' = [call EXCEPT ![c] = op] /\ op.at \notin {"idle", "answer"}
    <2> DEFINE out == [at |-> IF verb = "create" THEN "count" ELSE "find", verb |-> verb,
                       by |-> w, code |-> 0, of |-> NoUser]
               in == [at |-> IF verb = "leave" THEN "drop" ELSE "gate", verb |-> verb,
                      by |-> w, code |-> cache[w], of |-> v]
    <2>1. CASE AskOutside(c, w, verb)
      <3>1. call' = [call EXCEPT ![c] = out] /\ out.at \notin {"idle", "answer"}
        BY <2>1 DEF AskOutside, Waits
      <3> HIDE DEF out
      <3> QED BY <3>1
    <2>2. CASE AskInside(c, w, v, verb)
      <3>1. call' = [call EXCEPT ![c] = in] /\ in.at \notin {"idle", "answer"}
        BY <2>2 DEF AskInside, Waits
      <3> HIDE DEF in
      <3> QED BY <3>1
    <2> QED BY <2>1, <2>2 DEF Ask
  <1>3. call'[c] = op /\ \A b \in Calls \ {c} : call'[b] = call[b]
    BY <1>1, <1>2
  <1>4. Remembered(u) /\ \A x, y \in HandsOn(u)' : x = y
    BY <1>1, StillUncrossed, OneHand
  <1> DEFINE old == HandsOn(u)
             new == HandsOn(u)'
  <1>5. \A x : x \in old <=>
              (\/ x \in Calls /\ call[x].at # "idle" /\ (u = call[x].by \/ u = call[x].of)
               \/ x = NoUser /\ refresh.at # "idle")
    BY HandsAre DEF HandsOn
  <1>6. \A x : x \in new <=>
              (\/ x \in Calls /\ call'[x].at # "idle" /\ (u = call'[x].by \/ u = call'[x].of)
               \/ x = NoUser /\ refresh.at # "idle")
    <2>1. PICK cs : cs = call'
      OBVIOUS
    <2>2. new = Hands(u, cs, refresh)
      BY <1>1, <2>1 DEF HandsOn
    <2>3. \A x : x \in Hands(u, cs, refresh) <=>
              (\/ x \in Calls /\ cs[x].at # "idle" /\ (u = cs[x].by \/ u = cs[x].of)
               \/ x = NoUser /\ refresh.at # "idle")
      BY HandsAre
    <2> HIDE DEF new
    <2> QED BY <2>1, <2>2, <2>3, Zenon
  <1>7. /\ old = {} => cache[u] = member[u]
        /\ \A b \in Calls : b \in old => Truth(u, b)
        /\ refresh.at = "assign" => refresh.rows[u] = member[u]
    BY <1>4 DEF Remembered
  <1>8. NoUser \notin Calls
    BY ActorsAssumption
  <1>9. \A x, y \in new : x = y
    BY <1>4
  <1> HIDE DEF old, new
  <1>10. c \notin old /\ \A x : x \in old => x \in new
    BY <1>1, <1>3, <1>5, <1>6, <1>8
  <1>11. new = {} => cache[u] = member[u]
    BY <1>7, <1>10
  <1>12. ASSUME NEW b \in Calls, b \in new
         PROVE  Truth(u, b)'
    <2>1. CASE b = c
      <3>1. old = {}
        BY <1>9, <1>10, <1>12, <2>1
      <3> QED BY <1>1, <1>2, <1>3, <1>7, <2>1, <3>1 DEF Truth
    <2>2. CASE b # c
      <3>1. b \in old /\ call'[b] = call[b]
        BY <1>3, <1>5, <1>6, <1>8, <1>12, <2>2
      <3> QED BY <1>1, <1>7, <3>1 DEF Truth, Whom
    <2> QED BY <2>1, <2>2
  <1> QED BY <1>1, <1>7, <1>9, <1>11, <1>12 DEF Remembered, new

\* The calls do not move.
LEMMA StillKeeps ==
    ASSUME UNCHANGED <<call, member, cache, refresh>>, NEW u \in Users, Remembered(u)
    PROVE  Remembered(u)'
  BY DEF Remembered, HandsOn, Truth, Whom

\* The night's refresh is alone in having a hand in the captains it does not cross.
LEMMA NightKeeps ==
    ASSUME Basic, AllRemembered, Night \/ RefreshRead \/ RefreshAssign, NEW u \in Users \ crossed'
    PROVE  Remembered(u)'
  <1>1. UNCHANGED <<member, call>> /\ Crossed
    BY DEF Night, RefreshRead, RefreshAssign
  <1>2. Remembered(u) /\ \A x, y \in HandsOn(u)' : x = y
    BY <1>1, StillUncrossed, OneHand
  <1> DEFINE old == HandsOn(u)
             new == HandsOn(u)'
  <1>3. \A x : x \in old <=>
              (\/ x \in Calls /\ call[x].at # "idle" /\ (u = call[x].by \/ u = call[x].of)
               \/ x = NoUser /\ refresh.at # "idle")
    BY HandsAre DEF HandsOn
  <1>4. \A x : x \in new <=>
              (\/ x \in Calls /\ call[x].at # "idle" /\ (u = call[x].by \/ u = call[x].of)
               \/ x = NoUser /\ refresh'.at # "idle")
    <2>1. PICK r : r = refresh'
      OBVIOUS
    <2>2. new = Hands(u, call, r)
      BY <1>1, <2>1 DEF HandsOn
    <2>3. \A x : x \in Hands(u, call, r) <=>
              (\/ x \in Calls /\ call[x].at # "idle" /\ (u = call[x].by \/ u = call[x].of)
               \/ x = NoUser /\ r.at # "idle")
      BY HandsAre
    <2> HIDE DEF new
    <2> QED BY <2>1, <2>2, <2>3, Zenon
  <1>5. /\ \A x, y \in old : x = y
        /\ refresh.at = "assign" => refresh.rows[u] = member[u]
    BY <1>2 DEF Remembered
  <1>6. NoUser \notin Calls
    BY ActorsAssumption
  <1>7. \A x, y \in new : x = y
    BY <1>2
  <1>8. CASE Night \/ RefreshRead
    <2>1. /\ refresh'.at # "idle"
          /\ refresh'.at = "assign" => refresh'.rows[u] = member'[u]
      <3>1. CASE Night
        <4>1. refresh' = [refresh EXCEPT !.at = "read"]
          BY <3>1 DEF Night
        <4>2. refresh'.at = "read"
          BY <4>1 DEF Basic, TypeOK
        <4> QED BY <4>2
      <3>2. CASE RefreshRead
        BY <1>1, <3>2 DEF RefreshRead
      <3> QED BY <1>8, <3>1, <3>2
    <2> HIDE DEF new
    <2>2. NoUser \in new
      BY <1>4, <2>1
    <2>3. \A b \in Calls : b \notin new
      BY <1>6, <1>7, <2>2
    <2> QED BY <1>7, <2>1, <2>2, <2>3 DEF Remembered, new
  <1>9. CASE RefreshAssign
    <2>1. refresh.at = "assign" /\ cache' = refresh.rows /\ refresh'.at = "idle"
      BY <1>9 DEF RefreshAssign, Asleep
    <2> HIDE DEF new, old
    <2>2. NoUser \in old
      BY <1>3, <2>1
    <2>3. \A b \in Calls : b \notin old
      BY <1>5, <1>6, <2>2
    <2>4. \A b \in Calls : b \notin new
      BY <1>3, <1>4, <1>6, <2>3
    <2>5. cache'[u] = member'[u]
      BY <1>1, <1>5, <2>1
    <2>6. refresh'.at # "assign"
      BY <2>1
    <2> QED BY <1>7, <2>4, <2>5, <2>6 DEF Remembered, new
  <1> QED BY <1>8, <1>9

LEMMA RememberedKept ==
    ASSUME Basic, AllRemembered, [Next]_vars
    PROVE  AllRemembered'
  <1> SUFFICES ASSUME NEW u \in Users \ crossed' PROVE Remembered(u)'
    BY DEF AllRemembered
  <1>1. CASE UNCHANGED vars
    <2>1. UNCHANGED <<call, member, cache, refresh, crossed>>
      BY <1>1 DEF vars
    <2> QED BY <2>1, StillUncrossed, StillKeeps
  <1>2. ASSUME NEW w \in Users, NEW n \in Names, Rename(w, n)
        PROVE  Remembered(u)'
    <2>1. UNCHANGED <<call, member, cache, refresh, crossed>>
      BY <1>2 DEF Rename
    <2> QED BY <2>1, StillUncrossed, StillKeeps
  <1>3. ASSUME NEW c \in Calls, NEW n,
               CountTeams(c) \/ FindTeam(c, n) \/ Gate(c) \/ Target(c) \/ CountCrew(c)
        PROVE  Remembered(u)'
    BY <1>3, AwaitsKeeps
  <1>4. ASSUME NEW c \in Calls, CountTeams(c) \/ Gate(c) \/ Target(c) \/ CountCrew(c)
        PROVE  Remembered(u)'
    BY <1>3, <1>4
  <1>5. ASSUME NEW c \in Calls, NEW n, Found(c, n) \/ FindTeam(c, n)
        PROVE  Remembered(u)'
    BY <1>3, <1>5, FoundKeeps
  <1>6. ASSUME NEW c \in Calls, Enter(c) \/ Drop(c) \/ Answer(c)
        PROVE  Remembered(u)'
    BY <1>6, EnterKeeps, DropKeeps, AnswerKeeps
  <1>7. ASSUME NEW c \in Calls, NEW w \in Users, NEW v \in Users, NEW verb, Ask(c, w, v, verb)
        PROVE  Remembered(u)'
    BY <1>7, AskKeeps
  <1>8. CASE Night \/ RefreshRead \/ RefreshAssign
    BY <1>8, NightKeeps
  <1> QED BY <1>1, <1>2, <1>4, <1>5, <1>6, <1>7, <1>8 DEF Next

-----------------------------------------------------------------------------
(* The theorems.                                                           *)

LEMMA Starts == Init => IInv
  <1> SUFFICES ASSUME Init PROVE IInv
    OBVIOUS
  <1>1. /\ member = [u \in Users |-> 0] /\ cache = [u \in Users |-> 0] /\ team = <<>>
        /\ call = [c \in Calls |-> NoCall] /\ refresh = Asleep
        /\ lock = [t \in Codes |-> NoUser] /\ crossed = {} /\ given = 0 /\ nights = 0
    BY DEF Init
  <1>2. 0 \in Code
    BY RoomForOne DEF Code
  <1>3. Taken = {} /\ 1 .. 0 = {}
    BY <1>1 DEF Taken
  <1>4. team \in [Taken -> Row]
    BY <1>1, <1>3 DEF Taken
  <1>5. refresh.at = "idle" /\ refresh \in [at : {"idle", "read", "assign"}, rows : [Users -> Code]]
    BY <1>1, <1>2 DEF Asleep
  <1>6. call \in [Calls -> Call] /\ \A c \in Calls : call[c] = NoCall
    BY <1>1, CallTyped
  <1>7. TypeOK
    BY <1>1, <1>2, <1>3, <1>4, <1>5, <1>6, BoundsAssumption DEF TypeOK
  <1>8. InOrder /\ Enrolled
    BY <1>1, <1>3, RoomForOne DEF InOrder, Enrolled
  <1>9. Kinds /\ Rooms
    BY <1>6 DEF Kinds, KindOf, Rooms, RoomFor, NoCall
  <1>10. TeamsAreCapped
    <2> SUFFICES ASSUME NEW t \in Codes PROVE Cardinality(Crew(t)) <= TeamMax
      BY DEF TeamsAreCapped
    <2>1. Crew(t) = {}
      BY <1>1, RoomForOne DEF Crew, Codes
    <2> QED BY <2>1, FS_EmptySet, RoomForOne
  <1>11. AllRemembered
    <2> SUFFICES ASSUME NEW u \in Users PROVE Remembered(u)
      BY DEF AllRemembered
    <2>1. HandsOn(u) = {}
      BY <1>5, <1>6, CallTyped DEF HandsOn, Hands
    <2>2. cache[u] = member[u] /\ refresh.at # "assign"
      BY <1>1, <1>5
    <2> QED BY <2>1, <2>2 DEF Remembered
  <1> QED BY <1>7, <1>8, <1>9, <1>10, <1>11 DEF IInv

\* The inductive invariant holds throughout: codes in order (allocateTeamcode),
\* captains in teams that exist, who enters holds the row with room left, and
\* a hull differs from its captain's team only between the write and the answer.
THEOREM Invariance == Spec => []IInv
  <1>1. Init => IInv
    BY Starts
  <1>2. IInv /\ [Next]_vars => IInv'
    BY BasicKept, RememberedKept DEF IInv, Basic
  <1> QED BY <1>1, <1>2, PTL DEF Spec

\* Every state of TeamService and of the hulls is well formed.
THEOREM TypeCorrect == Spec => []TypeOK
  <1>1. IInv => TypeOK
    BY DEF IInv
  <1> QED BY <1>1, Invariance, PTL

\* The comment in joinByPassword: with the team's row locked for the count and
\* the write, a team never exceeds TEAMMAX, whoever joins at once.
THEOREM TeamsStayCapped == Spec => []TeamsAreCapped
  <1>1. IInv => TeamsAreCapped
    BY DEF IInv
  <1> QED BY <1>1, Invariance, PTL

\* A hull remembers its captain's team, however the commands, the kicks and the
\* nightly refreshTeamcodes interleave, unless two that concern him overlapped.
THEOREM HullsAreTold == Spec => []HullsRemember
  <1>1. IInv => HullsRemember
    BY DEF IInv, AllRemembered, Remembered, HullsRemember, HandsOn
  <1> QED BY <1>1, Invariance, PTL

===============================================================================
