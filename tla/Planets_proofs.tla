--------------------------- MODULE Planets_proofs ---------------------------
(***************************************************************************)
(* For any hulls, accounts and planets: whatever commands are in flight    *)
(* together, whatever statements fail and whoever leaves, nothing is       *)
(* overdrawn, nothing is made of nothing, the rows follow the planets, and *)
(* the cap on planets and their counter hold.                              *)
(***************************************************************************)
EXTENDS Planets, FiniteSetTheorems, WellFoundedInduction, TLAPS

-----------------------------------------------------------------------------
(* Sums.  SumFunctionOnSet picks one element after the other; that there is *)
(* a function that does so for a finite set, and only one, is shown by the  *)
(* smallest counterexample.                                                 *)

Sum(f, S) == SumFunctionOnSet(f, S)
Pick(s)   == CHOOSE x \in s : TRUE

\* One more is picked from s, the rest has been summed by F.
Summed(f, F, s) == IF s = {} THEN 0 ELSE f[Pick(s)] + F[s \ {Pick(s)}]

\* The subsets of S with at most n elements.
Level(S, n) == {s \in SUBSET S : Cardinality(s) <= n}

Sums(f, F, D) == F = [s \in D |-> Summed(f, F, s)]

LEMMA SumIsChosen ==
    ASSUME NEW f, NEW S
    PROVE  Sum(f, S) = (CHOOSE F : Sums(f, F, SUBSET S))[S]
  BY DEF Sum, SumFunctionOnSet, FoldFunctionOnSet, MapThenFoldSet, Sums, Summed, Pick

LEMMA Least ==
    ASSUME NEW T \in SUBSET Nat, T # {}
    PROVE  \E n \in T : \A m \in T : n <= m
  <1>1. IsWellFoundedOn(OpToRel(<, Nat), Nat)
    BY NatLessThanWellFounded
  <1>2. PICK n \in T : \A m \in T : ~ (<<m, n>> \in OpToRel(<, Nat))
    BY <1>1, WFMin
  <1>3. OpToRel(<, Nat) = {pair \in Nat \X Nat : pair[1] < pair[2]}
    BY Zenon DEF OpToRel
  <1>4. ASSUME NEW m \in T PROVE ~ (m < n)
    <2>1. <<m, n>> \notin {pair \in Nat \X Nat : pair[1] < pair[2]}
      BY <1>2, <1>3
    <2> QED BY <2>1
  <1> QED BY <1>4

LEMMA Picked ==
    ASSUME NEW s, s # {}
    PROVE  Pick(s) \in s
  BY DEF Pick

LEMMA LevelsDescend ==
    ASSUME NEW S, IsFiniteSet(S), NEW n \in Nat, NEW s \in Level(S, n), s # {}
    PROVE  n # 0 /\ s \ {Pick(s)} \in Level(S, n - 1) /\ s \ {Pick(s)} \in Level(S, n)
  <1>1. IsFiniteSet(s) /\ Cardinality(s) \in Nat /\ Cardinality(s) <= n /\ Cardinality(s) # 0
    BY FS_Subset, FS_CardinalityType, FS_EmptySet DEF Level
  <1>2. Cardinality(s \ {Pick(s)}) = Cardinality(s) - 1
    BY <1>1, Picked, FS_RemoveElement
  <1> QED BY <1>1, <1>2 DEF Level

LEMMA LastLevel ==
    ASSUME NEW S, IsFiniteSet(S)
    PROVE  Cardinality(S) \in Nat /\ Level(S, Cardinality(S)) = SUBSET S
  <1>1. \A s \in SUBSET S : Cardinality(s) <= Cardinality(S)
    BY FS_Subset
  <1> QED BY <1>1, FS_CardinalityType DEF Level

LEMMA SumsExist ==
    ASSUME NEW f, NEW S, IsFiniteSet(S)
    PROVE  \E F : Sums(f, F, SUBSET S)
  <1> DEFINE Missing == {n \in Nat : ~ \E F : Sums(f, F, Level(S, n))}
  <1>1. Missing = {}
    <2> SUFFICES ASSUME Missing # {} PROVE FALSE
      OBVIOUS
    <2>1. PICK n \in Missing : \A m \in Missing : n <= m
      BY Least
    <2>2. CASE n = 0
      <3>1. \A s \in Level(S, 0) : s = {}
        BY LevelsDescend
      <3>2. Sums(f, [s \in Level(S, 0) |-> 0], Level(S, 0))
        BY <3>1 DEF Sums, Summed
      <3> QED BY <2>1, <2>2, <3>2
    <2>3. CASE n # 0
      <3>1. PICK F : Sums(f, F, Level(S, n - 1))
        BY <2>1, <2>3
      <3> DEFINE G == [s \in Level(S, n) |-> Summed(f, F, s)]
      <3>2. ASSUME NEW s \in Level(S, n) PROVE G[s] = Summed(f, G, s)
        <4>1. CASE s = {}
          BY <4>1 DEF Summed
        <4>2. CASE s # {}
          <5> DEFINE r == s \ {Pick(s)}
          <5>1. r \in Level(S, n - 1)
            BY <4>2, <2>1, LevelsDescend
          <5>2. r \in Level(S, n)
            BY <4>2, <2>1, LevelsDescend
          <5>3. F[r] = Summed(f, F, r)
            BY <3>1, <5>1 DEF Sums
          <5>4. G[r] = F[r]
            BY <5>2, <5>3
          <5> QED BY <4>2, <5>4 DEF Summed
        <4> QED BY <4>1, <4>2
      <3>3. Sums(f, G, Level(S, n))
        BY <3>2 DEF Sums
      <3> QED BY <2>1, <3>3
    <2> QED BY <2>2, <2>3
  <1>2. Cardinality(S) \in Nat /\ Level(S, Cardinality(S)) = SUBSET S
    BY LastLevel
  <1>3. \E F : Sums(f, F, Level(S, Cardinality(S)))
    BY <1>1, <1>2
  <1> QED BY <1>2, <1>3

\* Two sums agree on what both sum.
LEMMA SumsAgree ==
    ASSUME NEW f, NEW g, NEW S, IsFiniteSet(S), NEW R, R \subseteq S,
           \A x \in R : f[x] = g[x]
    PROVE  \A F, G : Sums(f, F, SUBSET S) /\ Sums(g, G, SUBSET R) => F[R] = G[R]
  <1> SUFFICES ASSUME NEW F, NEW G, Sums(f, F, SUBSET S), Sums(g, G, SUBSET R)
               PROVE  F[R] = G[R]
    OBVIOUS
  <1> DEFINE Apart == {n \in Nat : \E s \in Level(R, n) : F[s] # G[s]}
  <1>1. IsFiniteSet(R)
    BY FS_Subset
  <1>2. Apart = {}
    <2> SUFFICES ASSUME Apart # {} PROVE FALSE
      OBVIOUS
    <2>1. PICK n \in Apart : \A m \in Apart : n <= m
      BY Least
    <2>2. PICK s \in Level(R, n) : F[s] # G[s]
      BY <2>1
    <2>3. s \in SUBSET R /\ s \in SUBSET S
      BY DEF Level
    <2>4. F[s] = Summed(f, F, s) /\ G[s] = Summed(g, G, s)
      BY <2>3 DEF Sums
    <2>5. s # {}
      BY <2>2, <2>4 DEF Summed
    <2>6. n # 0 /\ s \ {Pick(s)} \in Level(R, n - 1) /\ Pick(s) \in R
      BY <1>1, <2>1, <2>3, <2>5, LevelsDescend, Picked
    <2>7. F[s \ {Pick(s)}] = G[s \ {Pick(s)}]
      BY <2>1, <2>6
    <2> QED BY <2>2, <2>4, <2>6, <2>7 DEF Summed
  <1>3. Cardinality(R) \in Nat /\ R \in Level(R, Cardinality(R))
    BY <1>1, LastLevel
  <1> QED BY <1>2, <1>3

\* Equal summands have equal sums.
LEMMA SumEqual ==
    ASSUME NEW f, NEW g, NEW S, IsFiniteSet(S), \A x \in S : f[x] = g[x]
    PROVE  Sum(f, S) = Sum(g, S)
  <1> DEFINE F == CHOOSE F : Sums(f, F, SUBSET S)
             G == CHOOSE G : Sums(g, G, SUBSET S)
  <1>1. Sums(f, F, SUBSET S) /\ Sums(g, G, SUBSET S)
    BY SumsExist
  <1>2. Sum(f, S) = F[S] /\ Sum(g, S) = G[S]
    BY SumIsChosen
  <1> HIDE DEF F, G
  <1>3. \A H, I : Sums(f, H, SUBSET S) /\ Sums(g, I, SUBSET S) => H[S] = I[S]
    BY SumsAgree
  <1> QED BY <1>1, <1>2, <1>3

\* The equation of the sum.
LEMMA SumStep ==
    ASSUME NEW f, NEW S, IsFiniteSet(S)
    PROVE  Sum(f, S) = IF S = {} THEN 0 ELSE f[Pick(S)] + Sum(f, S \ {Pick(S)})
  <1> DEFINE F == CHOOSE F : Sums(f, F, SUBSET S)
             R == S \ {Pick(S)}
             G == CHOOSE G : Sums(f, G, SUBSET R)
  <1>1. IsFiniteSet(R) /\ R \in SUBSET S
    BY FS_Subset
  <1>2. Sums(f, F, SUBSET S) /\ Sums(f, G, SUBSET R)
    BY <1>1, SumsExist
  <1>3. Sum(f, S) = F[S] /\ Sum(f, R) = G[R]
    BY SumIsChosen
  <1> HIDE DEF F, G
  <1>4. \A H, I : Sums(f, H, SUBSET S) /\ Sums(f, I, SUBSET R) => H[R] = I[R]
    <2>1. R \subseteq S
      OBVIOUS
    <2> HIDE DEF R
    <2>2. \A g : (\A x \in R : f[x] = g[x]) =>
            \A H, I : Sums(f, H, SUBSET S) /\ Sums(g, I, SUBSET R) => H[R] = I[R]
      BY <2>1, SumsAgree
    <2> QED BY <2>2
  <1>5. F[S] = Summed(f, F, S)
    BY <1>2 DEF Sums
  <1> QED BY <1>2, <1>3, <1>4, <1>5 DEF Summed

LEMMA SumTyped ==
    ASSUME NEW f, NEW S, IsFiniteSet(S), \A x \in S : f[x] \in Int
    PROVE  Sum(f, S) \in Int
  <1> DEFINE Odd == {n \in Nat : \E s \in Level(S, n) : Sum(f, s) \notin Int}
  <1>1. Odd = {}
    <2> SUFFICES ASSUME Odd # {} PROVE FALSE
      OBVIOUS
    <2>1. PICK n \in Odd : \A m \in Odd : n <= m
      BY Least
    <2>2. PICK s \in Level(S, n) : Sum(f, s) \notin Int
      BY <2>1
    <2>3. s \in SUBSET S /\ IsFiniteSet(s)
      BY FS_Subset DEF Level
    <2>4. Sum(f, s) = IF s = {} THEN 0 ELSE f[Pick(s)] + Sum(f, s \ {Pick(s)})
      BY <2>3, SumStep
    <2>5. s # {}
      BY <2>2, <2>4
    <2>6. n # 0 /\ s \ {Pick(s)} \in Level(S, n - 1) /\ Pick(s) \in S
      BY <2>1, <2>3, <2>5, LevelsDescend, Picked
    <2>7. Sum(f, s \ {Pick(s)}) \in Int
      BY <2>1, <2>6
    <2> QED BY <2>2, <2>4, <2>5, <2>6, <2>7
  <1>2. Cardinality(S) \in Nat /\ S \in Level(S, Cardinality(S))
    BY LastLevel
  <1> QED BY <1>1, <1>2

LEMMA SumIsNat ==
    ASSUME NEW f, NEW S, IsFiniteSet(S), \A x \in S : f[x] \in Nat
    PROVE  Sum(f, S) \in Nat
  <1> DEFINE Odd == {n \in Nat : \E s \in Level(S, n) : Sum(f, s) \notin Nat}
  <1>1. Odd = {}
    <2> SUFFICES ASSUME Odd # {} PROVE FALSE
      OBVIOUS
    <2>1. PICK n \in Odd : \A m \in Odd : n <= m
      BY Least
    <2>2. PICK s \in Level(S, n) : Sum(f, s) \notin Nat
      BY <2>1
    <2>3. s \in SUBSET S /\ IsFiniteSet(s)
      BY FS_Subset DEF Level
    <2>4. Sum(f, s) = IF s = {} THEN 0 ELSE f[Pick(s)] + Sum(f, s \ {Pick(s)})
      BY <2>3, SumStep
    <2>5. s # {}
      BY <2>2, <2>4
    <2>6. n # 0 /\ s \ {Pick(s)} \in Level(S, n - 1) /\ Pick(s) \in S
      BY <2>1, <2>3, <2>5, LevelsDescend, Picked
    <2>7. Sum(f, s \ {Pick(s)}) \in Nat
      BY <2>1, <2>6
    <2> QED BY <2>2, <2>4, <2>5, <2>6, <2>7
  <1>2. Cardinality(S) \in Nat /\ S \in Level(S, Cardinality(S))
    BY LastLevel
  <1> QED BY <1>1, <1>2

\* One summand changes, and the sum with it.
LEMMA SumChanges ==
    ASSUME NEW f, NEW g, NEW S, IsFiniteSet(S), NEW a \in S,
           \A x \in S : f[x] \in Int /\ g[x] \in Int,
           \A x \in S \ {a} : f[x] = g[x]
    PROVE  Sum(g, S) = Sum(f, S) + g[a] - f[a]
  <1> DEFINE Odd == {n \in Nat : \E s \in Level(S, n) : a \in s /\ Sum(g, s) # Sum(f, s) + g[a] - f[a]}
  <1>1. Odd = {}
    <2> SUFFICES ASSUME Odd # {} PROVE FALSE
      OBVIOUS
    <2>1. PICK n \in Odd : \A m \in Odd : n <= m
      BY Least
    <2>2. PICK s \in Level(S, n) : a \in s /\ Sum(g, s) # Sum(f, s) + g[a] - f[a]
      BY <2>1
    <2> DEFINE c == Pick(s)
               r == s \ {c}
    <2>3. s \in SUBSET S /\ IsFiniteSet(s) /\ r \in SUBSET S /\ IsFiniteSet(r)
      BY FS_Subset DEF Level
    <2>4. Sum(f, s) = f[c] + Sum(f, r) /\ Sum(g, s) = g[c] + Sum(g, r)
      BY <2>2, <2>3, SumStep
    <2>5. n # 0 /\ r \in Level(S, n - 1) /\ c \in S
      BY <2>1, <2>2, <2>3, LevelsDescend, Picked
    <2>6. Sum(f, r) \in Int /\ Sum(g, r) \in Int
      BY <2>3, SumTyped
    <2>7. CASE c = a
      <3>1. Sum(f, r) = Sum(g, r)
        BY <2>3, <2>7, SumEqual
      <3> HIDE DEF c, r
      <3> QED BY <2>2, <2>4, <2>5, <2>6, <2>7, <3>1
    <2>8. CASE c # a
      <3>1. a \in r /\ f[c] = g[c]
        BY <2>2, <2>5, <2>8
      <3>2. Sum(g, r) = Sum(f, r) + g[a] - f[a]
        BY <2>1, <2>5, <3>1
      <3> HIDE DEF c, r
      <3> QED BY <2>2, <2>4, <2>5, <2>6, <3>1, <3>2
    <2> QED BY <2>7, <2>8
  <1>2. Cardinality(S) \in Nat /\ S \in Level(S, Cardinality(S))
    BY LastLevel
  <1> QED BY <1>1, <1>2

-----------------------------------------------------------------------------
(* The inductive invariant.                                                *)

\* In the chain of a planet; its head, in the critical section.
Inside  == {"queued", "debit", "mail", "count", "write"}
Holding == {"debit", "mail", "count", "write"}

\* Who is in a chain waits for its planet, and is there once; who is past the wait is
\* its head.
Listed == \A a \in Actors : doing[a].at \in Inside =>
    \E i \in 1 .. Len(queue[doing[a].planet]) : queue[doing[a].planet][i] = a

Waiting == \A p \in Planets : \A i \in 1 .. Len(queue[p]) :
    doing[queue[p][i]].at \in Inside /\ doing[queue[p][i]].planet = p

Once == \A p \in Planets : \A i, j \in 1 .. Len(queue[p]) : queue[p][i] = queue[p][j] => i = j

AtHead == \A a \in Actors : doing[a].at \in Holding => Head(queue[doing[a].planet]) = a

Mutex == Listed /\ Waiting /\ Once /\ AtHead

\* Which command is where.
KindOf(a) ==
    /\ a \in Clocks => doing[a].at \in {"idle", "queued", "write"} /\ doing[a].verb \in {"none", "tick"}
    /\ a \in Hulls => doing[a].verb # "tick"
    /\ doing[a].at = "debit" => doing[a].verb = "buy"
    /\ doing[a].at = "mail"  => doing[a].verb = "attack"
    /\ doing[a].at = "count" => doing[a].verb \in {"claim", "abandon", "attack"}
    /\ doing[a].verb = "sell" => doing[a].planet = Hub
    /\ doing[a].verb = "attack" => doing[a].planet # Hub

Kinds == \A a \in Actors : KindOf(a)

Same(s, t) == [s EXCEPT !.spy = Nobody] = [t EXCEPT !.spy = Nobody]

\* What was tested or sent in the critical section is still so at its end.
TrueFor(a) ==
    /\ doing[a].at = "debit" /\ doing[a].planet # Hub => live[doing[a].planet].qty >= doing[a].n
    /\ doing[a].at = "write" => Same(live[doing[a].planet], doing[a].data)

StillTrue == \A a \in Actors : TrueFor(a)

\* A planet that its row does not have is being saved, or its last write failed.
Unsaved(a) == doing[a].at \in {"write", "mail"} \/ (doing[a].at = "count" /\ doing[a].verb = "attack")

RowFollows ==
    \A p \in Planets \ failed :
        (\A a \in Actors : doing[a].planet = p => ~Unsaved(a)) => Same(live[p], row[p])

HubIsFree == live[Hub].owner = Free

Own(u) == {p \in Colonies : live[p].owner = u}

Gains(h) == \/ doing[h].verb = "claim" /\ doing[h].at \in {"write", "count"}
            \/ doing[h].verb = "attack" /\ doing[h].at = "count"

Yields(h) == doing[h].verb = "abandon" /\ doing[h].at \in {"write", "count"}

Coming(u)  == {h \in Hulls : Captain[h] = u /\ Gains(h)}
Leaving(u) == {h \in Hulls : Captain[h] = u /\ Yields(h)}

\* An abandonment is taken off the counter after the planet is given up, and the counter
\* must cover it until then.
CountersCover ==
    \A u \in Users \ missed :
        Cardinality(Own(u)) + Cardinality(Leaving(u)) <= planets[u] + Cardinality(Coming(u))

IInv ==
    /\ TypeOK /\ Mutex /\ Kinds /\ StillTrue /\ RowFollows /\ HubIsFree /\ CountersCover
    /\ NoOverdraft /\ NothingForNothing

-----------------------------------------------------------------------------
(* Types.                                                                  *)

LEMMA Sorts ==
    /\ Hub \in Planets /\ Colonies \subseteq Planets
    /\ Hulls \subseteq Actors /\ Clocks \subseteq Actors
    /\ \A a \in Actors : a \notin Clocks => a \in Hulls
    /\ \A h \in Hulls : h \notin Clocks /\ Captain[h] \in Users /\ Captain[h] \in Owners
    /\ Nobody \in Owners /\ Free \in Owners
    /\ \A v \in Users \cup {Nobody} : v \in Owners
  BY CaptainAssumption, ActorsAssumption DEF Planets, Actors, Owners

LEMMA IdleTyped == Blank \in Planet /\ Idle \in Command
  <1>1. Blank \in Planet
    BY Sorts DEF Blank, Planet
  <1> QED BY <1>1, Sorts DEF Idle, Command

\* A command that goes on to its next await is one still.
LEMMA Goes ==
    ASSUME NEW op \in Command
    PROVE  /\ \A at \in {"idle", "purse", "queued", "debit", "mail", "count", "write", "credit"} :
                /\ [op EXCEPT !.at = at] \in Command
                /\ \A s \in Planet : [op EXCEPT !.at = at, !.data = s] \in Command
                /\ \A n \in Nat : [op EXCEPT !.at = at, !.n = n] \in Command
                /\ \A n \in Int : [op EXCEPT !.at = at, !.seen = n] \in Command
           /\ \A n \in Int : [op EXCEPT !.seen = n] \in Command
           /\ \A verb \in Verbs \cup {"none", "tick"}, p \in Planets :
                /\ [op EXCEPT !.verb = verb, !.planet = p] \in Command
                /\ \A n \in Nat : [op EXCEPT !.verb = verb, !.planet = p, !.n = n] \in Command
  <1>1. ASSUME NEW at \in {"idle", "purse", "queued", "debit", "mail", "count", "write", "credit"}
        PROVE  /\ [op EXCEPT !.at = at] \in Command
               /\ \A s \in Planet : [op EXCEPT !.at = at, !.data = s] \in Command
               /\ \A n \in Nat : [op EXCEPT !.at = at, !.n = n] \in Command
               /\ \A n \in Int : [op EXCEPT !.at = at, !.seen = n] \in Command
    <2>1. [op EXCEPT !.at = at] \in Command
      BY DEF Command
    <2>2. \A s \in Planet : [op EXCEPT !.at = at, !.data = s] \in Command
      BY DEF Command
    <2>3. \A n \in Nat : [op EXCEPT !.at = at, !.n = n] \in Command
      BY DEF Command
    <2>4. \A n \in Int : [op EXCEPT !.at = at, !.seen = n] \in Command
      BY DEF Command
    <2> QED BY <2>1, <2>2, <2>3, <2>4
  <1>2. \A n \in Int : [op EXCEPT !.seen = n] \in Command
    BY DEF Command
  <1>3. ASSUME NEW verb \in Verbs \cup {"none", "tick"}, NEW p \in Planets
        PROVE  /\ [op EXCEPT !.verb = verb, !.planet = p] \in Command
               /\ \A n \in Nat : [op EXCEPT !.verb = verb, !.planet = p, !.n = n] \in Command
    BY DEF Command
  <1> QED BY <1>1, <1>2, <1>3

LEMMA PlanetTyped ==
    ASSUME NEW s \in Planet
    PROVE  /\ s.owner \in Owners /\ s.qty \in Int /\ s.cash \in Int /\ s.tax \in Int
           /\ s.spy \in Users \cup {Nobody}
           /\ \A o \in Owners : [s EXCEPT !.owner = o] \in Planet
           /\ \A n \in Int : /\ [s EXCEPT !.qty = n] \in Planet
                              /\ [s EXCEPT !.tax = n] \in Planet
                              /\ \A m \in Int : [s EXCEPT !.qty = n, !.cash = m] \in Planet
           /\ \A u \in Users \cup {Nobody} : [s EXCEPT !.spy = u] \in Planet
  BY DEF Planet

-----------------------------------------------------------------------------
(* The mutex.                                                              *)

\* The ways an actor moves, or does not, in the chain of a planet.
Joins(a) ==
    /\ doing[a].at \notin Inside /\ doing'[a].at = "queued"
    /\ queue' = [queue EXCEPT ![doing'[a].planet] = Append(@, a)]

Quits(a) ==
    /\ doing[a].at \in Inside /\ Head(queue[doing[a].planet]) = a /\ doing'[a].at \notin Inside
    /\ queue' = [queue EXCEPT ![doing[a].planet] = Tail(@)]

Stays(a) ==
    /\ doing[a].at \in Inside /\ Head(queue[doing[a].planet]) = a /\ doing'[a].at \in Holding
    /\ doing'[a].planet = doing[a].planet /\ queue' = queue

Apart(a) == doing[a].at \notin Inside /\ doing'[a].at \notin Inside /\ queue' = queue

Moves(a) ==
    /\ doing' \in [Actors -> Command] /\ \A b \in Actors \ {a} : doing'[b] = doing[b]
    /\ Joins(a) \/ Quits(a) \/ Stays(a) \/ Apart(a)

LEMMA ChainsKeep ==
    ASSUME TypeOK, Mutex, NEW a \in Actors, Moves(a)
    PROVE  Mutex' /\ queue' \in [Planets -> Seq(Actors)]
  <1>1. /\ queue \in [Planets -> Seq(Actors)] /\ doing \in [Actors -> Command]
        /\ doing' \in [Actors -> Command] /\ \A b \in Actors \ {a} : doing'[b] = doing[b]
    BY DEF TypeOK, Moves
  <1>2. \A b \in Actors : doing[b].planet \in Planets /\ doing'[b].planet \in Planets
    BY <1>1 DEF Command
  <1>3. \A q \in Planets : /\ queue[q] \in Seq(Actors) /\ Len(queue[q]) \in Nat
                           /\ \A i \in 1 .. Len(queue[q]) : queue[q][i] \in Actors
    BY <1>1
  <1>4. CASE Apart(a) \/ Stays(a)
    <2>1. queue' = queue
      BY <1>4 DEF Apart, Stays
    <2>2. \A b \in Actors : /\ doing'[b].at \in Inside <=> doing[b].at \in Inside
                            /\ doing'[b].at \in Inside => doing'[b].planet = doing[b].planet
      BY <1>1, <1>4 DEF Apart, Stays, Inside, Holding
    <2>3. Listed' /\ Once'
      BY <1>2, <2>1, <2>2 DEF Mutex, Listed, Once
    <2>4. Waiting'
      BY <1>3, <2>1, <2>2 DEF Mutex, Waiting
    <2>5. AtHead'
      BY <1>1, <1>4, <2>1 DEF Mutex, AtHead, Apart, Stays, Inside, Holding
    <2> QED BY <1>1, <2>1, <2>3, <2>4, <2>5 DEF Mutex
  <1>5. CASE Joins(a)
    <2> DEFINE p == doing'[a].planet
               n == Len(queue[p]) + 1
    <2>1. /\ queue' \in [Planets -> Seq(Actors)]
          /\ Len(queue'[p]) = n /\ queue'[p][n] = a
          /\ \A i \in 1 .. Len(queue[p]) : queue'[p][i] = queue[p][i]
          /\ \A q \in Planets \ {p} : queue'[q] = queue[q]
      BY <1>1, <1>2, <1>5 DEF Joins
    <2>2. \A q \in Planets : \A i \in 1 .. Len(queue[q]) : queue[q][i] # a
      BY <1>5 DEF Joins, Mutex, Waiting
    <2>7. ASSUME NEW q \in Planets, NEW i \in 1 .. Len(queue[q])
          PROVE  i \in 1 .. Len(queue'[q]) /\ queue'[q][i] = queue[q][i]
      <3>1. CASE q = p
        <4>1. Len(queue'[q]) = Len(queue[q]) + 1 /\ Len(queue[q]) \in Nat
          BY <1>3, <2>1, <3>1
        <4> QED BY <2>1, <3>1, <4>1
      <3>2. CASE q # p
        BY <2>1, <3>2
      <3> QED BY <3>1, <3>2
    <2>8. ASSUME NEW q \in Planets, NEW i \in 1 .. Len(queue'[q])
          PROVE  \/ q = p /\ i = n /\ queue'[q][i] = a
                 \/ i \in 1 .. Len(queue[q]) /\ queue'[q][i] = queue[q][i] /\ queue'[q][i] # a
      <3>1. CASE q = p
        <4>1. i \in 1 .. n
          BY <2>1, <3>1
        <4>2. i = n \/ i \in 1 .. Len(queue[p])
          BY <1>3, <3>1, <4>1
        <4> QED BY <2>1, <2>2, <3>1, <4>2
      <3>2. CASE q # p
        BY <2>1, <2>2, <3>2
      <3> QED BY <3>1, <3>2
    <2>3. Listed'
      <3> SUFFICES ASSUME NEW b \in Actors, doing'[b].at \in Inside
                   PROVE  \E i \in 1 .. Len(queue'[doing'[b].planet]) : queue'[doing'[b].planet][i] = b
        BY DEF Listed
      <3>1. CASE b = a
        <4>1. n \in 1 .. Len(queue'[p])
          BY <1>2, <1>3, <2>1
        <4> QED BY <2>1, <3>1, <4>1
      <3>2. CASE b # a
        <4>1. PICK i \in 1 .. Len(queue[doing[b].planet]) : queue[doing[b].planet][i] = b
          BY <1>1, <3>2 DEF Mutex, Listed
        <4>2. i \in 1 .. Len(queue'[doing[b].planet]) /\ queue'[doing[b].planet][i] = b
          BY <1>2, <2>7, <4>1
        <4> QED BY <1>1, <3>2, <4>2
      <3> QED BY <3>1, <3>2
    <2>4. Waiting'
      <3> SUFFICES ASSUME NEW q \in Planets, NEW i \in 1 .. Len(queue'[q])
                   PROVE  doing'[queue'[q][i]].at \in Inside /\ doing'[queue'[q][i]].planet = q
        BY DEF Waiting
      <3>1. CASE q = p /\ i = n
        BY <1>5, <2>1, <3>1 DEF Joins, Inside
      <3>2. CASE ~ (q = p /\ i = n)
        <4>1. i \in 1 .. Len(queue[q]) /\ queue'[q][i] = queue[q][i]
          BY <1>2, <1>3, <2>1, <3>2
        <4>2. queue[q][i] \in Actors \ {a}
          BY <1>3, <2>2, <4>1
        <4>3. doing[queue[q][i]].at \in Inside /\ doing[queue[q][i]].planet = q
          BY <4>1 DEF Mutex, Waiting
        <4> QED BY <1>1, <4>1, <4>2, <4>3
      <3> QED BY <3>1, <3>2
    <2>5. Once'
      <3> SUFFICES ASSUME NEW q \in Planets, NEW i \in 1 .. Len(queue'[q]), NEW j \in 1 .. Len(queue'[q]),
                          queue'[q][i] = queue'[q][j]
                   PROVE  i = j
        BY DEF Once
      <3>1. \A k \in 1 .. Len(queue'[q]) :
              \/ q = p /\ k = n /\ queue'[q][k] = a
              \/ k \in 1 .. Len(queue[q]) /\ queue'[q][k] = queue[q][k] /\ queue'[q][k] # a
        BY <2>8
      <3> QED BY <3>1 DEF Mutex, Once
    <2>6. AtHead'
      <3> SUFFICES ASSUME NEW b \in Actors, doing'[b].at \in Holding
                   PROVE  Head(queue'[doing'[b].planet]) = b
        BY DEF AtHead
      <3>1. b # a /\ doing'[b] = doing[b]
        BY <1>1, <1>5 DEF Joins, Holding
      <3>2. Head(queue[doing[b].planet]) = b /\ Len(queue[doing[b].planet]) # 0
        BY <1>2, <1>3, <3>1 DEF Mutex, AtHead, Listed, Holding, Inside
      <3>3. 1 \in 1 .. Len(queue[doing[b].planet])
        BY <1>2, <1>3, <3>2
      <3>4. queue'[doing[b].planet][1] = queue[doing[b].planet][1]
        BY <1>2, <2>7, <3>3
      <3>5. queue[doing[b].planet][1] = b
        BY <1>2, <1>3, <3>2
      <3> QED BY <1>1, <3>1, <3>4, <3>5
    <2> QED BY <2>1, <2>3, <2>4, <2>5, <2>6 DEF Mutex
  <1>6. CASE Quits(a)
    <2> DEFINE p == doing[a].planet
    <2>1. queue[p] # <<>> /\ queue[p][1] = a /\ Len(queue[p]) # 0
      BY <1>1, <1>2, <1>6 DEF Quits, Mutex, Listed
    <2>2. /\ queue' \in [Planets -> Seq(Actors)]
          /\ Len(queue'[p]) = Len(queue[p]) - 1
          /\ \A i \in 1 .. Len(queue'[p]) : queue'[p][i] = queue[p][i + 1]
          /\ \A q \in Planets \ {p} : queue'[q] = queue[q]
      BY <1>1, <1>2, <1>6, <2>1 DEF Quits
    <2>3. \A q \in Planets : \A i \in 1 .. Len(queue'[q]) :
            \E k \in 1 .. Len(queue[q]) : /\ queue'[q][i] = queue[q][k]
                                          /\ k = IF q = p THEN i + 1 ELSE i
      <3> SUFFICES ASSUME NEW q \in Planets, NEW i \in 1 .. Len(queue'[q])
                   PROVE  \E k \in 1 .. Len(queue[q]) : /\ queue'[q][i] = queue[q][k]
                                                        /\ k = IF q = p THEN i + 1 ELSE i
        OBVIOUS
      <3>1. Len(queue[q]) \in Nat
        BY <1>2
      <3>2. CASE q = p
        <4>1. i + 1 \in 1 .. Len(queue[q]) /\ queue'[q][i] = queue[q][i + 1]
          BY <2>2, <3>1, <3>2
        <4> QED BY <3>2, <4>1
      <3>3. CASE q # p
        BY <2>2, <3>3
      <3> QED BY <3>2, <3>3
    <2>4. \A q \in Planets : \A i \in 1 .. Len(queue'[q]) : queue'[q][i] \in Actors \ {a}
      <3> SUFFICES ASSUME NEW q \in Planets, NEW i \in 1 .. Len(queue'[q])
                   PROVE  queue'[q][i] \in Actors \ {a}
        OBVIOUS
      <3>1. PICK k \in 1 .. Len(queue[q]) : queue'[q][i] = queue[q][k] /\ k = IF q = p THEN i + 1 ELSE i
        BY <2>3
      <3>2. CASE q = p
        <4>1. k # 1 /\ 1 \in 1 .. Len(queue[q])
          BY <1>2, <1>3, <3>1, <3>2
        <4>2. queue[q][k] # queue[q][1]
          BY <4>1 DEF Mutex, Once
        <4> QED BY <1>3, <2>1, <3>1, <3>2, <4>2
      <3>3. CASE q # p
        <4>1. doing[queue[q][k]].planet = q
          BY DEF Mutex, Waiting
        <4> QED BY <1>3, <3>1, <3>3, <4>1
      <3> QED BY <3>2, <3>3
    <2>5. Listed'
      <3> SUFFICES ASSUME NEW b \in Actors, doing'[b].at \in Inside
                   PROVE  \E i \in 1 .. Len(queue'[doing'[b].planet]) : queue'[doing'[b].planet][i] = b
        BY DEF Listed
      <3>1. b # a /\ doing'[b] = doing[b]
        BY <1>1, <1>6 DEF Quits
      <3>2. PICK i \in 1 .. Len(queue[doing[b].planet]) : queue[doing[b].planet][i] = b
        BY <3>1 DEF Mutex, Listed
      <3>3. CASE doing[b].planet # p
        BY <1>2, <2>2, <3>1, <3>2, <3>3
      <3>4. CASE doing[b].planet = p
        <4>1. i # 1 /\ i - 1 \in 1 .. Len(queue'[p]) /\ queue'[p][i - 1] = b
          BY <1>2, <1>3, <2>1, <2>2, <3>1, <3>2, <3>4
        <4> QED BY <3>1, <3>4, <4>1
      <3> QED BY <3>3, <3>4
    <2>6. Waiting'
      <3> SUFFICES ASSUME NEW q \in Planets, NEW i \in 1 .. Len(queue'[q])
                   PROVE  doing'[queue'[q][i]].at \in Inside /\ doing'[queue'[q][i]].planet = q
        BY DEF Waiting
      <3>1. PICK k \in 1 .. Len(queue[q]) : queue'[q][i] = queue[q][k]
        BY <2>3
      <3>2. doing[queue[q][k]].at \in Inside /\ doing[queue[q][k]].planet = q
        BY DEF Mutex, Waiting
      <3> QED BY <1>1, <2>4, <3>1, <3>2
    <2>7. Once'
      <3> SUFFICES ASSUME NEW q \in Planets, NEW i \in 1 .. Len(queue'[q]), NEW j \in 1 .. Len(queue'[q]),
                          queue'[q][i] = queue'[q][j]
                   PROVE  i = j
        BY DEF Once
      <3>1. PICK k \in 1 .. Len(queue[q]) : queue'[q][i] = queue[q][k] /\ k = IF q = p THEN i + 1 ELSE i
        BY <2>3
      <3>2. PICK m \in 1 .. Len(queue[q]) : queue'[q][j] = queue[q][m] /\ m = IF q = p THEN j + 1 ELSE j
        BY <2>3
      <3>3. k = m
        BY <3>1, <3>2 DEF Mutex, Once
      <3> QED BY <3>1, <3>2, <3>3
    <2>8. AtHead'
      <3> SUFFICES ASSUME NEW b \in Actors, doing'[b].at \in Holding
                   PROVE  Head(queue'[doing'[b].planet]) = b
        BY DEF AtHead
      <3>1. b # a /\ doing'[b] = doing[b]
        BY <1>1, <1>6 DEF Quits, Holding, Inside
      <3>2. doing[b].planet # p
        BY <1>6, <3>1 DEF Mutex, AtHead, Quits
      <3> QED BY <1>2, <2>2, <3>1, <3>2 DEF Mutex, AtHead
    <2> QED BY <2>2, <2>5, <2>6, <2>7, <2>8 DEF Mutex
  <1> QED BY <1>4, <1>5, <1>6 DEF Moves

-----------------------------------------------------------------------------
(* What one actor does touches one planet only, whose chain it heads.      *)

Local(a) ==
    /\ Moves(a) /\ KindOf(a)' /\ TrueFor(a)'
    /\ live' \in [Planets -> Planet] /\ row' \in [Planets -> Planet] /\ failed' \in SUBSET Planets
    /\ Apart(a) \/ Joins(a) => UNCHANGED <<live, row, failed>>
    /\ \A q \in Planets \ {doing[a].planet} :
          live'[q] = live[q] /\ row'[q] = row[q] /\ (q \in failed <=> q \in failed')
    /\ ~Unsaved(a)' /\ doing[a].planet \notin failed' =>
          \/ /\ ~Unsaved(a) /\ doing[a].planet \notin failed
             /\ live'[doing[a].planet] = live[doing[a].planet] /\ row'[doing[a].planet] = row[doing[a].planet]
          \/ Same(live'[doing[a].planet], row'[doing[a].planet])

LEMMA LocalKeeps ==
    ASSUME TypeOK, Mutex, Kinds, StillTrue, RowFollows, NEW a \in Actors, Local(a)
    PROVE  /\ Mutex' /\ Kinds' /\ StillTrue' /\ RowFollows'
           /\ queue' \in [Planets -> Seq(Actors)] /\ doing' \in [Actors -> Command]
           /\ live' \in [Planets -> Planet] /\ row' \in [Planets -> Planet] /\ failed' \in SUBSET Planets
  <1>1. Moves(a) /\ doing' \in [Actors -> Command] /\ \A b \in Actors \ {a} : doing'[b] = doing[b]
    BY DEF Local, Moves
  <1>2. Mutex' /\ queue' \in [Planets -> Seq(Actors)]
    BY <1>1, ChainsKeep
  <1>3. Kinds'
    BY <1>1 DEF Kinds, KindOf, Local
  <1>4. \A b \in Actors : doing[b].planet \in Planets /\ doing'[b].planet \in Planets
    BY <1>1 DEF TypeOK, Command
  <1>5. ASSUME NEW b \in Actors PROVE TrueFor(b)'
    <2>1. CASE b = a
      BY <2>1 DEF Local
    <2>2. CASE b # a /\ doing[b].at \in Holding
      <3>1. live'[doing[b].planet] = live[doing[b].planet]
        <4>1. CASE Apart(a) \/ Joins(a)
          BY <4>1 DEF Local
        <4>2. CASE Quits(a) \/ Stays(a)
          <5>1. doing[b].planet # doing[a].planet
            BY <2>2, <4>2 DEF Mutex, AtHead, Quits, Stays
          <5> QED BY <1>4, <5>1 DEF Local
        <4> QED BY <1>1, <4>1, <4>2 DEF Moves
      <3> QED BY <1>1, <2>2, <3>1 DEF StillTrue, TrueFor
    <2>3. CASE b # a /\ doing[b].at \notin Holding
      BY <1>1, <2>3 DEF TrueFor, Holding
    <2> QED BY <2>1, <2>2, <2>3
  <1>6. RowFollows'
    <2> SUFFICES ASSUME NEW q \in Planets, q \notin failed',
                        \A b \in Actors : doing'[b].planet = q => ~Unsaved(b)'
                 PROVE  Same(live'[q], row'[q])
      BY DEF RowFollows
    <2>1. \A b \in Actors \ {a} : Unsaved(b)' = Unsaved(b)
      BY <1>1 DEF Unsaved
    <2>2. doing'[a].planet # doing[a].planet => ~Unsaved(a)'
      BY <1>1 DEF Moves, Joins, Quits, Stays, Apart, Unsaved, Inside
    <2>3. CASE q = doing[a].planet
      <3>1. ~Unsaved(a)'
        BY <2>2, <2>3
      <3>2. CASE Same(live'[q], row'[q])
        BY <3>2
      <3>3. CASE ~Unsaved(a) /\ q \notin failed /\ live'[q] = live[q] /\ row'[q] = row[q]
        <4>1. \A b \in Actors : doing[b].planet = q => ~Unsaved(b)
          BY <1>1, <2>1, <3>3
        <4> QED BY <3>3, <4>1 DEF RowFollows
      <3> QED BY <2>3, <3>1, <3>2, <3>3 DEF Local
    <2>4. CASE q # doing[a].planet
      <3>1. live'[q] = live[q] /\ row'[q] = row[q] /\ q \notin failed
        BY <2>4 DEF Local
      <3>2. \A b \in Actors : doing[b].planet = q => ~Unsaved(b)
        BY <1>1, <2>1, <2>4
      <3> QED BY <3>1, <3>2 DEF RowFollows
    <2> QED BY <2>3, <2>4
  <1> QED BY <1>1, <1>2, <1>3, <1>5, <1>6 DEF StillTrue, Local

\* The other types, and what is not overdrawn.
Solvent ==
    /\ hold \in [Hulls -> Nat] /\ aboard \in SUBSET Hulls
    /\ cash \in [Users -> Nat] /\ planets \in [Users -> Nat]
    /\ issued \in Nat /\ missed \in SUBSET Users

\* A planet that owes nothing.
Stocked == {s \in Planet : s.qty >= 0 /\ s.cash >= 0 /\ s.tax >= 0}

\* Where the proofs of the actions start.
Start == TypeOK /\ Mutex /\ Kinds /\ StillTrue /\ NoOverdraft

LEMMA StartFacts ==
    ASSUME Start, NEW a \in Actors
    PROVE  /\ Solvent /\ live \in [Planets -> Stocked] /\ row \in [Planets -> Planet]
           /\ queue \in [Planets -> Seq(Actors)] /\ failed \in SUBSET Planets
           /\ doing \in [Actors -> Command] /\ doing[a] \in Command
           /\ doing[a].planet \in Planets /\ doing[a].n \in Nat /\ doing[a].seen \in Int
           /\ doing[a].verb \in Verbs \cup {"none", "tick"} /\ doing[a].data \in Planet
           /\ live[doing[a].planet] \in Stocked /\ live[doing[a].planet] \in Planet
           /\ KindOf(a) /\ TrueFor(a)
           /\ doing[a].at \in Holding => Head(queue[doing[a].planet]) = a
  <1>1. doing[a] \in Command
    BY DEF Start, TypeOK
  <1>2. Solvent
    BY DEF Start, TypeOK, NoOverdraft, Solvent
  <1>3. live \in [Planets -> Stocked]
    BY DEF Start, TypeOK, NoOverdraft, Stocked
  <1> QED BY <1>1, <1>2, <1>3 DEF Start, TypeOK, Command, Kinds, StillTrue, Mutex, AtHead, Stocked

LEMMA SavesLocal ==
    ASSUME Start, NEW a \in Actors, NEW s \in Stocked, doing[a].at \in Inside,
           Head(queue[doing[a].planet]) = a, Saves(a, doing[a].planet, s),
           a \in Clocks => doing[a].verb = "tick",
           UNCHANGED <<queue, row, failed>>
    PROVE  /\ Local(a) /\ live' \in [Planets -> Stocked]
           /\ doing'[a].at = "write" /\ doing'[a].verb = doing[a].verb /\ doing'[a].n = doing[a].n
  <1>1. /\ live' = [live EXCEPT ![doing[a].planet] = s]
        /\ doing' = [doing EXCEPT ![a] = [doing[a] EXCEPT !.at = "write", !.data = s]]
    BY DEF Saves, Waits
  <1>2. s \in Planet
    BY DEF Stocked
  <1>3. [doing[a] EXCEPT !.at = "write", !.data = s] \in Command
    BY <1>2, StartFacts, Goes
  <1>4. /\ doing' \in [Actors -> Command] /\ \A b \in Actors \ {a} : doing'[b] = doing[b]
        /\ doing'[a].at = "write" /\ doing'[a].data = s /\ doing'[a].n = doing[a].n
        /\ doing'[a].planet = doing[a].planet /\ doing'[a].verb = doing[a].verb
    BY <1>1, <1>3, StartFacts DEF Command
  <1>5. Stays(a) /\ Moves(a)
    BY <1>4 DEF Stays, Moves, Holding
  <1>6. KindOf(a)'
    BY <1>4, StartFacts DEF KindOf
  <1>7. /\ live' \in [Planets -> Stocked] /\ live' \in [Planets -> Planet] /\ live'[doing[a].planet] = s
        /\ \A q \in Planets \ {doing[a].planet} : live'[q] = live[q]
    BY <1>1, <1>2, StartFacts DEF Stocked
  <1>8. TrueFor(a)' /\ Unsaved(a)'
    BY <1>4, <1>7 DEF TrueFor, Unsaved, Same
  <1>9. ~Apart(a) /\ ~Joins(a)
    BY DEF Apart, Joins
  <1> QED BY <1>4, <1>5, <1>6, <1>7, <1>8, <1>9, StartFacts DEF Local

\* The actor leaves the chain, and its planet as it was.
LEMMA EndsLocal ==
    ASSUME Start, NEW a \in Actors, doing[a].at \in Inside, Head(queue[doing[a].planet]) = a,
           ~Unsaved(a), doing'[a].at \in {"idle", "credit"}, KindOf(a)',
           doing' \in [Actors -> Command], \A b \in Actors \ {a} : doing'[b] = doing[b],
           queue' = Released(doing[a].planet, TRUE), UNCHANGED <<live, row, failed>>
    PROVE  Local(a) /\ live' \in [Planets -> Stocked]
  <1>1. Quits(a) /\ Moves(a) /\ ~Apart(a) /\ ~Joins(a)
    BY DEF Quits, Moves, Released, Apart, Joins, Inside
  <1>2. TrueFor(a)'
    BY DEF TrueFor
  <1> QED BY <1>1, <1>2, StartFacts DEF Local, Stocked

LEMMA RefusedLocal ==
    ASSUME Start, NEW a \in Actors, doing[a].at \in Inside, Head(queue[doing[a].planet]) = a,
           ~Unsaved(a), Refused(a)
    PROVE  /\ Local(a) /\ live' \in [Planets -> Stocked] /\ Solvent'
           /\ UNCHANGED <<live, hold, cash, planets, issued, missed>> /\ doing' = [doing EXCEPT ![a] = Idle]
  <1>1. /\ doing' = [doing EXCEPT ![a] = Idle] /\ queue' = Released(doing[a].planet, TRUE)
        /\ UNCHANGED <<live, row, failed, hold, aboard, cash, planets, issued, missed>>
    BY DEF Refused, Ends, Waits, purses, history
  <1>2. /\ doing' \in [Actors -> Command] /\ \A b \in Actors \ {a} : doing'[b] = doing[b]
        /\ doing'[a] = Idle
    BY <1>1, StartFacts, IdleTyped
  <1>3. KindOf(a)' /\ doing'[a].at = "idle"
    BY <1>2 DEF KindOf, Idle
  <1>4. Solvent'
    BY <1>1, StartFacts DEF Solvent
  <1> QED BY <1>1, <1>2, <1>3, <1>4, EndsLocal

-----------------------------------------------------------------------------
(* The actions.                                                            *)

Fine(a) == Local(a) /\ live' \in [Planets -> Stocked] /\ Solvent'

\* The actor is in no chain, or joins one, and no planet changes.
LEMMA OutsideFine ==
    ASSUME Start, NEW a \in Actors, NEW op \in Command, doing' = [doing EXCEPT ![a] = op],
           doing[a].at \notin Inside, KindOf(a)', Solvent', UNCHANGED <<live, row, failed>>,
           \/ op.at \notin Inside /\ queue' = queue
           \/ op.at = "queued" /\ queue' = [queue EXCEPT ![op.planet] = Append(@, a)]
    PROVE  Fine(a)
  <1>1. /\ doing' \in [Actors -> Command] /\ \A b \in Actors \ {a} : doing'[b] = doing[b]
        /\ doing'[a] = op
    BY StartFacts
  <1>2. Moves(a)
    BY <1>1 DEF Moves, Apart, Joins
  <1>3. TrueFor(a)' /\ ~Unsaved(a)
    BY <1>1 DEF TrueFor, Unsaved, Inside
  <1> QED BY <1>1, <1>2, <1>3, StartFacts DEF Fine, Local, Stocked

LEMMA AskFine == ASSUME Start, NEW h \in Hulls, Ask(h) PROVE Fine(h)
  <1>1. h \in Actors /\ doing[h] = Idle
    BY Sorts DEF Ask
  <1>2. PICK verb \in Verbs \ {"spy", "give"}, p \in Planets, n \in Lots :
          LET op == [Idle EXCEPT !.verb = verb, !.planet = p, !.n = n] IN
          /\ MayAsk(h, verb, p, n)
          /\ \/ verb = "buy"
                /\ Waits(h, [op EXCEPT !.at = "purse"]) /\ UNCHANGED queue
             \/ verb # "buy" /\ Serialized(h, op)
    BY DEF Ask
  <1> DEFINE op == [Idle EXCEPT !.verb = verb, !.planet = p, !.n = n]
             next == [op EXCEPT !.at = IF verb = "buy" THEN "purse" ELSE "queued"]
  <1>3. op \in Command
    BY LotsAssumption, IdleTyped, Goes
  <1>4. next \in Command
    BY <1>3, Goes
  <1>5. /\ next.at = IF verb = "buy" THEN "purse" ELSE "queued"
        /\ next.verb = verb /\ next.planet = p
    BY DEF Idle
  <1>6. doing' = [doing EXCEPT ![h] = next]
    BY <1>2 DEF Waits, Serialized
  <1>7. (verb = "sell" => p = Hub) /\ (verb = "attack" => p # Hub)
    BY <1>2 DEF MayAsk, MaySell, MayAttack
  <1>8. doing'[h] = next
    BY <1>1, <1>6, StartFacts
  <1>9. KindOf(h)'
    BY <1>5, <1>7, <1>8, Sorts, VerbsAssumption DEF KindOf
  <1>10. \/ next.at \notin Inside /\ queue' = queue
         \/ next.at = "queued" /\ queue' = [queue EXCEPT ![next.planet] = Append(@, h)]
    <2>1. op.planet = p
      BY DEF Idle
    <2>2. CASE verb = "buy"
      BY <1>2, <1>5, <2>2 DEF Inside
    <2>3. CASE verb # "buy"
      <3>1. queue' = [queue EXCEPT ![op.planet] = Append(@, h)]
        BY <1>2, <2>3 DEF Serialized
      <3> QED BY <1>5, <2>1, <2>3, <3>1
    <2> QED BY <2>2, <2>3
  <1>11. Solvent' /\ UNCHANGED <<live, row, failed>>
    BY <1>1, StartFacts DEF Ask, Solvent, purses, history
  <1>12. doing[h].at \notin Inside
    BY <1>1 DEF Idle, Inside
  <1> HIDE DEF next
  <1> QED BY <1>1, <1>4, <1>6, <1>9, <1>10, <1>11, <1>12, OutsideFine

LEMMA PurseFine == ASSUME Start, NEW h \in Hulls, Purse(h) PROVE Fine(h)
  <1> DEFINE op == [doing[h] EXCEPT !.seen = cash[Captain[h]]]
             next == [op EXCEPT !.at = "queued"]
  <1>1. h \in Actors /\ doing[h] \in Command /\ doing[h].at = "purse"
    BY Sorts, StartFacts DEF Purse
  <1>2. cash[Captain[h]] \in Int
    BY <1>1, Sorts, StartFacts DEF Solvent
  <1>3. op \in Command
    BY <1>1, <1>2, Goes
  <1>4. next \in Command
    BY <1>3, Goes
  <1>5. next.at = "queued" /\ next.verb = doing[h].verb /\ next.planet = doing[h].planet /\ op.planet = next.planet
    BY <1>1 DEF Command
  <1>6. doing' = [doing EXCEPT ![h] = next] /\ queue' = [queue EXCEPT ![next.planet] = Append(@, h)]
    BY <1>5 DEF Purse, Serialized, Waits
  <1>7. doing'[h] = next
    BY <1>1, <1>6, StartFacts
  <1>8. KindOf(h)'
    BY <1>1, <1>5, <1>7, Sorts, StartFacts DEF KindOf
  <1>9. Solvent' /\ UNCHANGED <<live, row, failed>> /\ doing[h].at \notin Inside
    BY <1>1, StartFacts DEF Purse, Solvent, purses, history, Inside
  <1> HIDE DEF op, next
  <1> QED BY <1>1, <1>4, <1>5, <1>6, <1>8, <1>9, OutsideFine

LEMMA AdvanceFine == ASSUME Start, NEW c \in Clocks, Advance(c) PROVE Fine(c)
  <1>1. c \in Actors /\ doing[c] = Idle
    BY Sorts DEF Advance
  <1>2. PICK p \in Planets : Serialized(c, [Idle EXCEPT !.verb = "tick", !.planet = p])
    BY DEF Advance
  <1> DEFINE op == [Idle EXCEPT !.verb = "tick", !.planet = p]
             next == [op EXCEPT !.at = "queued"]
  <1>3. op \in Command
    BY IdleTyped, Goes
  <1>4. next \in Command
    BY <1>3, Goes
  <1>5. next.at = "queued" /\ next.verb = "tick" /\ next.planet = p /\ op.planet = p
    BY DEF Idle
  <1>6. doing' = [doing EXCEPT ![c] = next] /\ queue' = [queue EXCEPT ![p] = Append(@, c)]
    BY <1>2, <1>5 DEF Serialized, Waits
  <1>7. doing'[c] = next
    BY <1>1, <1>6, StartFacts
  <1>8. KindOf(c)'
    BY <1>5, <1>7, Sorts DEF KindOf
  <1>9. Solvent' /\ UNCHANGED <<live, row, failed>> /\ doing[c].at \notin Inside
    BY <1>1, StartFacts DEF Advance, Solvent, purses, history, Inside, Idle
  <1> HIDE DEF op, next
  <1> QED BY <1>1, <1>4, <1>5, <1>6, <1>8, <1>9, OutsideFine

LEMMA CreditedFine == ASSUME Start, NEW h \in Hulls, NEW ok \in BOOLEAN, Credited(h, ok) PROVE Fine(h)
  <1>1. h \in Actors /\ doing[h].at = "credit" /\ doing[h].n \in Nat
    BY Sorts, StartFacts DEF Credited
  <1>2. doing' = [doing EXCEPT ![h] = Idle] /\ queue' = queue /\ UNCHANGED <<live, row, failed>>
    BY DEF Credited, Ends, Waits, history
  <1>3. KindOf(h)'
    BY <1>1, <1>2, StartFacts DEF KindOf, Idle
  <1>4. Solvent'
    <2>1. Solvent /\ Captain[h] \in Users
      BY <1>1, Sorts, StartFacts
    <2>2. cash' \in [Users -> Nat]
      BY <1>1, <2>1 DEF Credited, Solvent
    <2> QED BY <2>1, <2>2 DEF Credited, Solvent, history
  <1>5. Idle.at = "idle" /\ "idle" \notin Inside /\ doing[h].at \notin Inside
    BY <1>1 DEF Idle, Inside
  <1> QED BY <1>1, <1>2, <1>3, <1>4, <1>5, IdleTyped, OutsideFine

\* Whose turn it is heads the chain.
LEMMA TurnFacts ==
    ASSUME Start, NEW a \in Actors, NEW verb, Turn(a, verb)
    PROVE  /\ doing[a].at = "queued" /\ doing[a].at \in Inside /\ doing[a].verb = verb
           /\ Head(queue[doing[a].planet]) = a /\ ~Unsaved(a)
  BY DEF Turn, Inside, Unsaved

LEMMA LoadedTyped ==
    ASSUME Solvent, NEW h \in Hulls, NEW n \in Int, hold[h] + n >= 0
    PROVE  Loaded(h, n) \in [Hulls -> Nat]
  BY DEF Solvent, Loaded

LEMMA BuyFine == ASSUME Start, NEW h \in Hulls, Buy(h) PROVE Fine(h)
  <1>1. h \in Actors /\ doing[h] \in Command
    BY Sorts, StartFacts
  <1>2. /\ doing[h].at = "queued" /\ doing[h].at \in Inside /\ doing[h].verb = "buy"
        /\ Head(queue[doing[h].planet]) = h /\ ~Unsaved(h)
    BY <1>1, TurnFacts DEF Buy
  <1>3. CASE Refused(h)
    BY <1>1, <1>2, <1>3, RefusedLocal DEF Fine
  <1>4. CASE ~Refused(h)
    <2>1. /\ MayOrder(h) /\ doing' = [doing EXCEPT ![h] = [doing[h] EXCEPT !.at = "debit"]]
          /\ UNCHANGED <<live, row, queue, hold, aboard, cash, planets, missed, issued, failed>>
      BY <1>4 DEF Buy, Waits, purses, history
    <2>2. [doing[h] EXCEPT !.at = "debit"] \in Command
      BY <1>1, Goes
    <2>3. /\ doing' \in [Actors -> Command] /\ \A b \in Actors \ {h} : doing'[b] = doing[b]
          /\ doing'[h].at = "debit" /\ doing'[h].verb = "buy" /\ doing'[h].planet = doing[h].planet
          /\ doing'[h].n = doing[h].n
      BY <1>1, <1>2, <2>1, <2>2, StartFacts DEF Command
    <2>4. Moves(h) /\ ~Apart(h) /\ ~Joins(h)
      BY <1>2, <2>1, <2>3 DEF Moves, Stays, Apart, Joins, Holding
    <2>5. KindOf(h)' /\ TrueFor(h)'
      BY <1>1, <2>1, <2>3, Sorts DEF KindOf, TrueFor, MayOrder, Available
    <2>6. Solvent'
      BY <1>1, <2>1, StartFacts DEF Solvent
    <2> QED BY <1>1, <1>2, <2>1, <2>4, <2>5, <2>6, StartFacts DEF Fine, Local, Stocked
  <1> QED BY <1>3, <1>4

LEMMA DebitedFine == ASSUME Start, NEW h \in Hulls, Debited(h) PROVE Fine(h)
  <1> DEFINE p == doing[h].planet
             n == doing[h].n
             paid == [cash EXCEPT ![Captain[h]] = @ - n]
  <1>1. h \in Actors /\ h \notin Clocks /\ Captain[h] \in Users
    BY Sorts
  <1>2. doing[h].at = "debit" /\ doing[h].at \in Inside /\ ~Unsaved(h) /\ Head(queue[p]) = h
    BY <1>1, StartFacts DEF Debited, Inside, Holding, Unsaved
  <1>3. Solvent /\ n \in Nat /\ live[p] \in Stocked
    BY <1>1, StartFacts
  <1>4. CASE Refused(h)
    BY <1>1, <1>2, <1>4, RefusedLocal DEF Fine
  <1>5. paid \in [Users -> Nat] \/ ~Affordable(h)
    BY <1>1, <1>3 DEF Affordable, Solvent
  <1>6. CASE /\ Affordable(h) /\ p = Hub
             /\ cash' = paid /\ hold' = Loaded(h, n)
             /\ queue' = Released(p, TRUE) /\ Ends(h)
             /\ UNCHANGED <<live, row, aboard, planets, missed, history>>
    <2>1. /\ doing' = [doing EXCEPT ![h] = Idle] /\ UNCHANGED <<live, row, failed, aboard, planets, missed, issued>>
      BY <1>6 DEF Ends, Waits, history
    <2>2. /\ doing' \in [Actors -> Command] /\ \A b \in Actors \ {h} : doing'[b] = doing[b]
          /\ doing'[h] = Idle
      BY <1>1, <2>1, StartFacts, IdleTyped
    <2>3. KindOf(h)' /\ doing'[h].at = "idle"
      BY <1>1, <2>2 DEF KindOf, Idle
    <2>4. hold' \in [Hulls -> Nat]
      BY <1>3, <1>6, LoadedTyped DEF Solvent
    <2>5. Solvent'
      BY <1>3, <1>5, <1>6, <2>1, <2>4 DEF Solvent
    <2> QED BY <1>1, <1>2, <1>6, <2>1, <2>2, <2>3, <2>5, EndsLocal DEF Fine
  <1>7. CASE /\ Affordable(h) /\ p # Hub
             /\ cash' = paid
             /\ Saves(h, p, [live[p] EXCEPT !.qty = Less(@, n), !.cash = @ + n])
             /\ UNCHANGED <<row, queue, hold, aboard, planets, missed, history>>
    <2>1. live[p].qty >= n
      BY <1>1, <1>2, <1>7, StartFacts DEF TrueFor
    <2>2. [live[p] EXCEPT !.qty = Less(@, n), !.cash = @ + n] \in Stocked
      <3> DEFINE s == live[p]
      <3>1. s \in Stocked /\ s \in Planet /\ s.qty - n \in Nat /\ s.cash + n \in Nat
        BY <1>3, <2>1 DEF Stocked, Planet
      <3> HIDE DEF s
      <3> DEFINE t == [s EXCEPT !.qty = Less(@, n)]
      <3>2. t \in Stocked /\ t \in Planet /\ t.cash = s.cash
        BY <3>1 DEF Stocked, Planet, Less
      <3> HIDE DEF t
      <3>3. [t EXCEPT !.cash = s.cash + n] \in Stocked
        BY <3>1, <3>2 DEF Stocked, Planet
      <3>4. [s EXCEPT !.qty = Less(@, n), !.cash = @ + n] = [t EXCEPT !.cash = s.cash + n]
        BY DEF t
      <3>5. [s EXCEPT !.qty = Less(@, n), !.cash = @ + n] \in Stocked
        BY <3>3, <3>4
      <3> QED BY <3>5 DEF s
    <2>3. Solvent'
      BY <1>3, <1>5, <1>7 DEF Solvent, history
    <2> QED BY <1>1, <1>2, <1>7, <2>2, <2>3, SavesLocal DEF Fine, history
  <1> QED BY <1>4, <1>6, <1>7 DEF Debited

LEMMA SellFine == ASSUME Start, NEW h \in Hulls, Sell(h) PROVE Fine(h)
  <1>1. h \in Actors /\ h \notin Clocks /\ doing[h] \in Command /\ doing[h].n \in Nat /\ Solvent
    BY Sorts, StartFacts
  <1>2. /\ doing[h].at = "queued" /\ doing[h].at \in Inside /\ doing[h].verb = "sell"
        /\ Head(queue[doing[h].planet]) = h /\ ~Unsaved(h)
    BY <1>1, TurnFacts DEF Sell
  <1>3. CASE Refused(h)
    BY <1>1, <1>2, <1>3, RefusedLocal DEF Fine
  <1>4. CASE ~Refused(h)
    <2>1. /\ h \in aboard /\ hold[h] >= doing[h].n /\ hold' = Loaded(h, -doing[h].n)
          /\ queue' = Released(Hub, TRUE)
          /\ UNCHANGED <<live, row, aboard, cash, planets, missed, issued, failed>>
      BY <1>4 DEF Sell, purses, history
    <2>2. PICK credit \in Proceeds(doing[h].n) :
            doing' = [doing EXCEPT ![h] = [doing[h] EXCEPT !.at = "credit", !.n = credit]]
      BY <1>4 DEF Sell, Waits
    <2>3. credit \in Nat /\ credit <= doing[h].n
      BY <1>1 DEF Proceeds
    <2>4. [doing[h] EXCEPT !.at = "credit", !.n = credit] \in Command
      BY <1>1, <2>3, Goes
    <2>5. /\ doing' \in [Actors -> Command] /\ \A b \in Actors \ {h} : doing'[b] = doing[b]
          /\ doing'[h].at = "credit" /\ doing'[h].verb = "sell" /\ doing'[h].planet = doing[h].planet
      BY <1>1, <1>2, <2>2, <2>4, StartFacts DEF Command
    <2>6. doing[h].planet = Hub
      BY <1>1, <1>2, StartFacts DEF KindOf
    <2>7. KindOf(h)'
      BY <1>1, <2>5, <2>6, Sorts DEF KindOf
    <2>8. hold' \in [Hulls -> Nat]
      BY <1>1, <2>1, LoadedTyped DEF Solvent
    <2>9. Solvent'
      BY <1>1, <2>1, <2>8 DEF Solvent
    <2> QED BY <1>1, <1>2, <2>1, <2>5, <2>6, <2>7, <2>9, EndsLocal DEF Fine
  <1> QED BY <1>3, <1>4

\* What the sections that end with a save have in common.
LEMMA SectionFine ==
    ASSUME Start, NEW h \in Hulls, NEW verb, Turn(h, verb), NEW s \in Stocked,
           Saves(h, doing[h].planet, s), UNCHANGED <<row, queue, failed>>, Solvent'
    PROVE  Fine(h)
  <1>1. h \in Actors /\ h \notin Clocks
    BY Sorts
  <1>2. doing[h].at \in Inside /\ Head(queue[doing[h].planet]) = h
    BY <1>1, TurnFacts
  <1> QED BY <1>1, <1>2, SavesLocal DEF Fine

LEMMA RefusalFine ==
    ASSUME Start, NEW h \in Hulls, NEW verb, Turn(h, verb), Refused(h)
    PROVE  Fine(h)
  <1>1. h \in Actors
    BY Sorts
  <1>2. doing[h].at \in Inside /\ Head(queue[doing[h].planet]) = h /\ ~Unsaved(h)
    BY <1>1, TurnFacts
  <1> QED BY <1>1, <1>2, RefusedLocal DEF Fine

\* withdraw, up, down, claim, abandon, admin: a test, and a planet to save.
LEMMA SectionsFine ==
    ASSUME Start, NEW h \in Hulls,
           Withdraw(h) \/ Up(h) \/ Down(h) \/ Claim(h) \/ Abandon(h) \/ Manage(h)
    PROVE  Fine(h)
  <1> DEFINE p == doing[h].planet
             n == doing[h].n
  <1>1. h \in Actors /\ Captain[h] \in Owners /\ Nobody \in Owners
    BY Sorts
  <1>2. Solvent /\ n \in Nat /\ live[p] \in Stocked
    BY <1>1, StartFacts
  <1>3. CASE Refused(h)
    BY <1>3, RefusalFine DEF Withdraw, Up, Down, Claim, Abandon, Manage
  <1>4. UNCHANGED <<hold, aboard, cash, planets, missed, issued>> => Solvent'
    BY <1>2 DEF Solvent
  <1>5. CASE Withdraw(h) /\ ~Refused(h)
    <2>1. n <= live[p].tax /\ Saves(h, p, [live[p] EXCEPT !.tax = Less(@, n)])
      BY <1>5 DEF Withdraw
    <2>2. [live[p] EXCEPT !.tax = Less(@, n)] \in Stocked
      BY <1>2, <2>1 DEF Stocked, Planet, Less
    <2>3. Turn(h, "withdraw") /\ UNCHANGED <<row, queue, failed, hold, aboard, cash, planets, missed, issued>>
      BY <1>5 DEF Withdraw, purses, history
    <2> QED BY <1>4, <2>1, <2>2, <2>3, SectionFine
  <1>6. CASE Up(h) /\ ~Refused(h)
    <2>1. live[p].qty >= n /\ Saves(h, p, [live[p] EXCEPT !.qty = Less(@, n)])
      BY <1>6 DEF Up
    <2>2. [live[p] EXCEPT !.qty = Less(@, n)] \in Stocked
      BY <1>2, <2>1 DEF Stocked, Planet, Less
    <2>3. Turn(h, "up") /\ UNCHANGED <<row, queue, failed, hold, aboard, cash, planets, missed, issued>>
      BY <1>6 DEF Up, purses, history
    <2> QED BY <1>4, <2>1, <2>2, <2>3, SectionFine
  <1>7. CASE Down(h) /\ ~Refused(h)
    <2>1. /\ InHold(h) /\ Saves(h, p, [live[p] EXCEPT !.qty = @ + n]) /\ hold' = Loaded(h, -n)
          /\ Turn(h, "down") /\ UNCHANGED <<row, queue, failed, aboard, cash, planets, missed, issued>>
      BY <1>7 DEF Down, purses, history
    <2>2. [live[p] EXCEPT !.qty = @ + n] \in Stocked
      BY <1>2 DEF Stocked, Planet
    <2>3. hold' \in [Hulls -> Nat]
      BY <1>2, <2>1, LoadedTyped DEF Solvent, InHold
    <2>4. Solvent'
      BY <1>2, <2>1, <2>3 DEF Solvent
    <2> QED BY <2>1, <2>2, <2>4, SectionFine
  <1>8. CASE Claim(h) /\ ~Refused(h)
    <2>1. /\ Saves(h, p, [live[p] EXCEPT !.owner = Captain[h]])
          /\ Turn(h, "claim") /\ UNCHANGED <<row, queue, failed, hold, aboard, cash, planets, missed, issued>>
      BY <1>8 DEF Claim, purses, history
    <2>2. [live[p] EXCEPT !.owner = Captain[h]] \in Stocked
      BY <1>1, <1>2 DEF Stocked, Planet
    <2> QED BY <1>4, <2>1, <2>2, SectionFine
  <1>9. CASE Abandon(h) /\ ~Refused(h)
    <2>1. /\ Saves(h, p, [live[p] EXCEPT !.owner = Nobody])
          /\ Turn(h, "abandon") /\ UNCHANGED <<row, queue, failed, hold, aboard, cash, planets, missed, issued>>
      BY <1>9 DEF Abandon, purses, history
    <2>2. [live[p] EXCEPT !.owner = Nobody] \in Stocked
      BY <1>1, <1>2 DEF Stocked, Planet
    <2> QED BY <1>4, <2>1, <2>2, SectionFine
  <1>10. CASE Manage(h) /\ ~Refused(h)
    <2>1. /\ Saves(h, p, live[p])
          /\ Turn(h, "admin") /\ UNCHANGED <<row, queue, failed, hold, aboard, cash, planets, missed, issued>>
      BY <1>10 DEF Manage, purses, history
    <2> QED BY <1>2, <1>4, <2>1, SectionFine
  <1> QED BY <1>3, <1>5, <1>6, <1>7, <1>8, <1>9, <1>10

\* An attack goes on, its planet not saved.
LEMMA UnsavedFine ==
    ASSUME Start, NEW h \in Hulls, doing[h].at \in Inside, Head(queue[doing[h].planet]) = h,
           doing[h].verb = "attack", NEW s \in Stocked, NEW at \in {"mail", "count"}, NEW n \in Int,
           live' = [live EXCEPT ![doing[h].planet] = s],
           doing' = [doing EXCEPT ![h] = [doing[h] EXCEPT !.at = at, !.seen = n]],
           UNCHANGED <<row, queue, failed>>, Solvent'
    PROVE  Fine(h)
  <1>1. h \in Actors /\ h \notin Clocks /\ doing[h] \in Command
    BY Sorts, StartFacts
  <1> DEFINE op == [doing[h] EXCEPT !.at = at, !.seen = n]
  <1>2. op \in Command
    BY <1>1, Goes
  <1>3. op.at = at /\ op.verb = doing[h].verb /\ op.planet = doing[h].planet
    <2> DEFINE t == [doing[h] EXCEPT !.at = at]
    <2>1. t \in Command /\ t.at = at /\ t.verb = doing[h].verb /\ t.planet = doing[h].planet
      <3>1. t \in Command
        BY <1>1, Goes
      <3>2. t.at = at /\ t.verb = doing[h].verb /\ t.planet = doing[h].planet
        BY <1>1 DEF Command
      <3> QED BY <3>1, <3>2
    <2>2. op = [t EXCEPT !.seen = n]
      OBVIOUS
    <2> HIDE DEF t, op
    <2> QED BY <2>1, <2>2 DEF Command
  <1> HIDE DEF op
  <1>4. /\ doing' \in [Actors -> Command] /\ \A b \in Actors \ {h} : doing'[b] = doing[b]
        /\ doing'[h] = op
    BY <1>1, <1>2, StartFacts DEF op
  <1>5. Moves(h) /\ ~Apart(h) /\ ~Joins(h)
    BY <1>3, <1>4 DEF Moves, Stays, Apart, Joins, Holding
  <1>6. KindOf(h)' /\ TrueFor(h)' /\ Unsaved(h)'
    <2>1. doing[h].planet # Hub
      BY <1>1, StartFacts DEF KindOf
    <2> QED BY <1>1, <1>3, <1>4, <2>1, Sorts DEF KindOf, TrueFor, Unsaved
  <1>7. /\ live' \in [Planets -> Stocked] /\ live' \in [Planets -> Planet]
        /\ \A q \in Planets \ {doing[h].planet} : live'[q] = live[q]
    BY <1>1, StartFacts DEF Stocked
  <1> QED BY <1>1, <1>5, <1>6, <1>7, StartFacts DEF Fine, Local

LEMMA FoughtFine ==
    ASSUME Start, NEW h \in Hulls, doing[h].at \in Inside, Head(queue[doing[h].planet]) = h,
           doing[h].verb = "attack", NEW s \in Stocked, NEW won \in BOOLEAN,
           Fought(h, doing[h].planet, s, won), UNCHANGED <<row, queue, failed>>, Solvent'
    PROVE  Fine(h)
  <1>1. h \in Actors /\ h \notin Clocks /\ Captain[h] \in Owners
    BY Sorts
  <1>2. CASE won
    <2> DEFINE taken == [s EXCEPT !.owner = Captain[h]]
    <2>1. taken \in Stocked
      BY <1>1 DEF Stocked, Planet
    <2>2. /\ live' = [live EXCEPT ![doing[h].planet] = taken]
          /\ doing' = [doing EXCEPT ![h] = [doing[h] EXCEPT !.at = "count", !.seen = 1]]
      BY <1>2 DEF Fought, Waits
    <2>3. "count" \in {"mail", "count"} /\ 1 \in Int
      OBVIOUS
    <2> HIDE DEF taken
    <2> QED BY <2>1, <2>2, <2>3, UnsavedFine
  <1>3. CASE ~won
    BY <1>1, <1>3, SavesLocal DEF Fought, Fine
  <1> QED BY <1>2, <1>3

\* What comes back of an attack, and what is left of the planet.
LEMMA BattleFacts ==
    ASSUME NEW n \in Nat, NEW there \in Nat, NEW o \in Battle(n, there)
    PROVE  /\ o.back \in Nat /\ o.back <= n /\ o.left \in Nat /\ o.left <= there
           /\ o.won \in BOOLEAN
  <1>1. CASE there = 0
    <2>1. o = [back |-> n, left |-> 0, won |-> TRUE]
      BY <1>1, Zenon DEF Battle
    <2> QED BY <1>1, <2>1
  <1>2. CASE there # 0
    <2>1. o \in [back : 0 .. n, left : 0 .. there, won : BOOLEAN]
      BY <1>2 DEF Battle
    <2>2. o.back \in 0 .. n /\ o.left \in 0 .. there /\ o.won \in BOOLEAN
      BY <2>1
    <2> QED BY <2>2
  <1> QED BY <1>1, <1>2

LEMMA AttackFine == ASSUME Start, NEW h \in Hulls, Attack(h) PROVE Fine(h)
  <1> DEFINE p == doing[h].planet
             n == doing[h].n
  <1>1. h \in Actors /\ Solvent /\ n \in Nat /\ live[p] \in Stocked /\ live[p].qty \in Nat
    BY Sorts, StartFacts DEF Stocked, Planet
  <1>2. /\ doing[h].at = "queued" /\ doing[h].at \in Inside /\ doing[h].verb = "attack"
        /\ Head(queue[p]) = h
    BY <1>1, TurnFacts DEF Attack
  <1>3. CASE Refused(h)
    BY <1>3, RefusalFine DEF Attack
  <1>4. CASE ~Refused(h)
    <2>1. hold[h] >= n /\ UNCHANGED <<row, queue, aboard, cash, planets, missed, issued, failed>>
      BY <1>4 DEF Attack, purses, history
    <2>2. PICK o \in Battle(n, live[p].qty) :
            LET s == [live[p] EXCEPT !.qty = o.left] IN
            /\ hold' = Loaded(h, o.back - n)
            /\ \/ Fought(h, p, s, o.won)
               \/ /\ CallsForHelp(p)
                  /\ live' = [live EXCEPT ![p] = s]
                  /\ Waits(h, [doing[h] EXCEPT !.at = "mail", !.seen = IF o.won THEN 1 ELSE 0])
      BY <1>4 DEF Attack
    <2>3. o.back \in Nat /\ o.back <= n /\ o.left \in Nat /\ o.won \in BOOLEAN
      BY <1>1, BattleFacts
    <2> DEFINE s == [live[p] EXCEPT !.qty = o.left]
    <2>4. s \in Stocked
      BY <1>1, <2>3 DEF Stocked, Planet
    <2>5. hold' \in [Hulls -> Nat]
      BY <1>1, <2>1, <2>2, <2>3, LoadedTyped DEF Solvent
    <2>6. Solvent'
      BY <1>1, <2>1, <2>5 DEF Solvent
    <2>7. \/ Fought(h, p, s, o.won)
          \/ /\ live' = [live EXCEPT ![p] = s]
             /\ doing' = [doing EXCEPT ![h] = [doing[h] EXCEPT !.at = "mail", !.seen = IF o.won THEN 1 ELSE 0]]
      BY <2>2 DEF Waits
    <2>8. (IF o.won THEN 1 ELSE 0) \in Int
      OBVIOUS
    <2> HIDE DEF s
    <2>9. CASE Fought(h, p, s, o.won)
      BY <1>2, <2>1, <2>3, <2>4, <2>6, <2>9, FoughtFine
    <2> QED BY <1>2, <2>1, <2>4, <2>6, <2>7, <2>8, <2>9, UnsavedFine
  <1> QED BY <1>3, <1>4

LEMMA MailedFine == ASSUME Start, NEW h \in Hulls, Mailed(h) PROVE Fine(h)
  <1>1. h \in Actors /\ Solvent /\ live[doing[h].planet] \in Stocked
    BY Sorts, StartFacts
  <1>2. /\ doing[h].at \in Inside /\ Head(queue[doing[h].planet]) = h /\ doing[h].verb = "attack"
    BY <1>1, StartFacts DEF Mailed, Inside, Holding, KindOf
  <1>3. Solvent' /\ UNCHANGED <<row, queue, failed>>
    BY <1>1 DEF Mailed, Solvent, purses, history
  <1> QED BY <1>1, <1>2, <1>3, FoughtFine DEF Mailed

\* What a tick may make of a planet.
LEMMA GrownFacts ==
    ASSUME NEW s \in Stocked, NEW g \in Grown(s)
    PROVE  /\ g \in Stocked /\ g.owner = s.owner
           /\ g.tax \in {s.tax, s.tax + 1}
  <1>1. s \in Planet /\ s.qty \in Nat /\ s.cash \in Nat /\ s.tax \in Nat
    BY DEF Stocked, Planet
  <1>0. PICK gold \in 0 .. s.qty : \E qty \in 0 .. s.qty - gold + 1, kept \in 0 .. s.cash + gold,
             levied \in IF s.owner \in Users THEN {0, 1} ELSE {0} :
          g = After(s, qty, kept, levied)
    BY DEF Grown
  <1>2. PICK qty \in 0 .. s.qty - gold + 1, kept \in 0 .. s.cash + gold,
             levied \in IF s.owner \in Users THEN {0, 1} ELSE {0} :
          g = After(s, qty, kept, levied)
    BY <1>0
  <1> DEFINE t == [s EXCEPT !.qty = qty]
             v == [t EXCEPT !.cash = kept]
             w == [v EXCEPT !.tax = s.tax + levied]
  <1>3. g = w
    BY <1>2 DEF After
  <1>4. qty \in Nat /\ kept \in Nat /\ s.tax + levied \in {s.tax, s.tax + 1}
    BY <1>1
  <1>5. t \in Planet /\ t.owner = s.owner /\ t.qty = qty /\ t.cash = s.cash /\ t.tax = s.tax
    BY <1>1, <1>4 DEF Planet
  <1> HIDE DEF t
  <1>6. v \in Planet /\ v.owner = s.owner /\ v.qty = qty /\ v.cash = kept /\ v.tax = s.tax
    BY <1>4, <1>5 DEF Planet
  <1> HIDE DEF v
  <1>7. w \in Planet /\ w.owner = s.owner /\ w.qty = qty /\ w.cash = kept /\ w.tax = s.tax + levied
    BY <1>1, <1>4, <1>6 DEF Planet
  <1> HIDE DEF w
  <1> QED BY <1>1, <1>3, <1>4, <1>7 DEF Stocked

LEMMA ProducedFacts ==
    ASSUME NEW p \in Planets, live[p] \in Stocked,
           NEW s \in Restocked(p, UNION {UNION {Ousted(t) : t \in Unspied(g)} : g \in Grown(live[p])})
    PROVE  /\ s \in Stocked /\ s.owner \in {live[p].owner, Free}
           /\ s.tax \in {live[p].tax, live[p].tax + 1}
  <1>1. CASE p = Hub
    BY <1>1 DEF Restocked, Stocked, Planet
  <1>2. CASE p # Hub
    <2>1. PICK g \in Grown(live[p]) : \E t \in Unspied(g) : s \in Ousted(t)
      BY <1>2 DEF Restocked
    <2>2. PICK t \in Unspied(g) : s \in Ousted(t)
      BY <2>1
    <2>3. /\ g \in Stocked /\ g.owner = live[p].owner
          /\ g.tax \in {live[p].tax, live[p].tax + 1}
      BY GrownFacts
    <2>4. t \in Stocked /\ t.owner = g.owner /\ t.qty = g.qty /\ t.cash = g.cash /\ t.tax = g.tax
      <3>1. t = g \/ t = [g EXCEPT !.spy = Nobody]
        BY <2>2 DEF Unspied
      <3> QED BY <2>3, <3>1 DEF Stocked, Planet
    <2>5. s \in Stocked /\ s.owner \in {t.owner, Free} /\ s.qty = t.qty /\ s.cash = t.cash /\ s.tax = t.tax
      <3>1. s = t \/ s = [t EXCEPT !.owner = Free]
        BY <2>2 DEF Ousted
      <3> QED BY <2>4, <3>1, Sorts DEF Stocked, Planet
    <2> QED BY <2>3, <2>4, <2>5
  <1> QED BY <1>1, <1>2

LEMMA ProduceFine == ASSUME Start, NEW c \in Clocks, Produce(c) PROVE Fine(c)
  <1> DEFINE p == doing[c].planet
             Made(s) == LET gain == Stuff(s) - Stuff(live[p]) IN IF gain > 0 THEN gain ELSE 0
  <1>1. c \in Actors /\ Solvent /\ live[p] \in Stocked /\ p \in Planets
    BY Sorts, StartFacts
  <1>2. /\ doing[c].at \in Inside /\ doing[c].verb = "tick" /\ Head(queue[p]) = c /\ ~Unsaved(c)
    BY <1>1, TurnFacts DEF Produce
  <1>3. CASE Refused(c)
    BY <1>1, <1>2, <1>3, RefusedLocal DEF Fine
  <1>4. CASE ~Refused(c)
    <2>1. UNCHANGED <<row, queue, hold, aboard, cash, planets, missed, failed>>
      BY <1>4 DEF Produce, purses
    <2>2. PICK s \in Restocked(p, UNION {UNION {Ousted(t) : t \in Unspied(g)} : g \in Grown(live[p])}) :
            issued' = issued + Made(s) /\ Saves(c, p, s)
      BY <1>4 DEF Produce
    <2>3. s \in Stocked /\ s.tax \in {live[p].tax, live[p].tax + 1}
      BY <1>1, ProducedFacts
    <2>4. Made(s) \in Nat
      <3>1. Stuff(s) \in Int /\ Stuff(live[p]) \in Int
        BY <1>1, <2>3 DEF Stocked, Planet, Stuff
      <3> QED BY <3>1
    <2> HIDE DEF Made
    <2>5. Solvent'
      BY <1>1, <2>1, <2>2, <2>4 DEF Solvent
    <2> QED BY <1>1, <1>2, <2>1, <2>2, <2>3, <2>5, SavesLocal DEF Fine
  <1> QED BY <1>3, <1>4

LEMMA WrittenFine == ASSUME Start, NEW a \in Actors, NEW ok \in BOOLEAN, Written(a, ok) PROVE Fine(a)
  <1> DEFINE op == doing[a]
             p == doing[a].planet
  <1>1. /\ Solvent /\ op \in Command /\ p \in Planets /\ op.n \in Nat /\ op.data \in Planet
        /\ op.at = "write" /\ Head(queue[p]) = a /\ KindOf(a) /\ Same(live[p], op.data)
    BY StartFacts DEF Written, Holding, TrueFor
  <1>2. op.at \in Inside
    BY <1>1 DEF Inside
  <1>3. op.verb \notin {"none", "tick"} => a \in Hulls /\ Captain[a] \in Users
    BY <1>1, Sorts DEF KindOf
  <1>4. UNCHANGED <<live, aboard, cash, planets, issued>>
    BY DEF Written
  <1>5. Solvent'
    <2>1. missed' \in SUBSET Users
      BY <1>1, <1>3 DEF Written, Solvent
    <2>2. hold' \in [Hulls -> Nat]
      <3>1. CASE ok /\ op.verb \in {"buy", "up"}
        BY <1>1, <1>3, <3>1, LoadedTyped DEF Written, Solvent
      <3>2. CASE ~ (ok /\ op.verb \in {"buy", "up"})
        BY <1>1, <3>2 DEF Written, Solvent
      <3> QED BY <3>1, <3>2
    <2> QED BY <1>1, <1>4, <2>1, <2>2 DEF Solvent
  <1>6. /\ row' \in [Planets -> Planet] /\ failed' \in SUBSET Planets
        /\ \A q \in Planets \ {p} : row'[q] = row[q] /\ (q \in failed <=> q \in failed')
        /\ p \notin failed' => ok /\ row'[p] = op.data
    BY <1>1, StartFacts DEF Written
  <1>7. \/ /\ op.verb \in {"claim", "abandon"} /\ queue' = queue
           /\ doing' = [doing EXCEPT ![a] = [op EXCEPT !.at = "count"]]
        \/ /\ op.verb = "withdraw" /\ queue' = [queue EXCEPT ![p] = Tail(@)]
           /\ doing' = [doing EXCEPT ![a] = [op EXCEPT !.at = "credit"]]
        \/ /\ queue' = [queue EXCEPT ![p] = Tail(@)]
           /\ doing' = [doing EXCEPT ![a] = Idle]
    BY DEF Written, Waits, Ends, Released
  <1>8. Moves(a) /\ KindOf(a)' /\ TrueFor(a)'
    <2>1. CASE /\ op.verb \in {"claim", "abandon"} /\ queue' = queue
               /\ doing' = [doing EXCEPT ![a] = [op EXCEPT !.at = "count"]]
      <3>1. [op EXCEPT !.at = "count"] \in Command
        BY <1>1, Goes
      <3>2. /\ doing' \in [Actors -> Command] /\ \A b \in Actors \ {a} : doing'[b] = doing[b]
            /\ doing'[a].at = "count" /\ doing'[a].verb = op.verb /\ doing'[a].planet = p
        BY <1>1, <2>1, <3>1, StartFacts DEF Command
      <3>3. Stays(a) /\ Moves(a)
        BY <1>1, <1>2, <2>1, <3>2 DEF Stays, Moves, Holding
      <3>4. KindOf(a)' /\ TrueFor(a)'
        BY <1>1, <2>1, <3>2, <1>3, Sorts DEF KindOf, TrueFor
      <3> QED BY <3>3, <3>4
    <2>2. CASE /\ op.verb = "withdraw" /\ queue' = [queue EXCEPT ![p] = Tail(@)]
               /\ doing' = [doing EXCEPT ![a] = [op EXCEPT !.at = "credit"]]
      <3>1. [op EXCEPT !.at = "credit"] \in Command
        BY <1>1, Goes
      <3>2. /\ doing' \in [Actors -> Command] /\ \A b \in Actors \ {a} : doing'[b] = doing[b]
            /\ doing'[a].at = "credit" /\ doing'[a].verb = op.verb /\ doing'[a].planet = p
        BY <1>1, <2>2, <3>1, StartFacts DEF Command
      <3>3. Quits(a) /\ Moves(a)
        BY <1>1, <1>2, <2>2, <3>2 DEF Quits, Moves, Inside
      <3>4. KindOf(a)' /\ TrueFor(a)'
        BY <1>1, <2>2, <3>2, <1>3, Sorts DEF KindOf, TrueFor
      <3> QED BY <3>3, <3>4
    <2>3. CASE queue' = [queue EXCEPT ![p] = Tail(@)] /\ doing' = [doing EXCEPT ![a] = Idle]
      <3>2. /\ doing' \in [Actors -> Command] /\ \A b \in Actors \ {a} : doing'[b] = doing[b]
            /\ doing'[a] = Idle
        BY <2>3, IdleTyped, StartFacts
      <3>3. Quits(a) /\ Moves(a)
        BY <1>1, <1>2, <2>3, <3>2 DEF Quits, Moves, Inside, Idle
      <3>4. KindOf(a)' /\ TrueFor(a)'
        BY <3>2 DEF KindOf, TrueFor, Idle
      <3> QED BY <3>3, <3>4
    <2> QED BY <1>7, <2>1, <2>2, <2>3
  <1>9. ~Apart(a) /\ ~Joins(a)
    BY <1>2 DEF Apart, Joins
  <1>10. p \notin failed' => Same(live'[p], row'[p])
    BY <1>1, <1>4, <1>6
  <1>11. live' \in [Planets -> Stocked] /\ live' \in [Planets -> Planet]
    BY <1>4, StartFacts DEF Stocked
  <1> HIDE DEF op, p
  <1> QED BY <1>4, <1>5, <1>6, <1>8, <1>9, <1>10, <1>11 DEF Fine, Local, p

LEMMA CountedFine == ASSUME Start, NEW h \in Hulls, NEW ok \in BOOLEAN, Counted(h, ok) PROVE Fine(h)
  <1> DEFINE p == doing[h].planet
  <1>1. /\ h \in Actors /\ h \notin Clocks /\ Captain[h] \in Users /\ Solvent
        /\ doing[h].at = "count" /\ doing[h].at \in Inside /\ Head(queue[p]) = h
        /\ p \in Planets /\ KindOf(h) /\ live[p] \in Stocked
    BY Sorts, StartFacts DEF Counted, Holding, Inside
  <1>2. Solvent'
    <2>1. missed' \in SUBSET Users
      BY <1>1 DEF Counted, Solvent
    <2>2. planets' \in [Users -> Nat]
      <3>1. planets[Captain[h]] \in Nat /\ Counter(h) \in Nat
        BY <1>1 DEF Counter, Solvent
      <3> QED BY <1>1, <3>1 DEF Counted, Solvent
    <2> QED BY <1>1, <2>1, <2>2 DEF Counted, Solvent
  <1>3. CASE ok /\ doing[h].verb = "attack"
    <2>1. Saves(h, p, live[p]) /\ UNCHANGED <<queue, row, failed>>
      BY <1>3 DEF Counted
    <2> QED BY <1>1, <1>2, <2>1, SavesLocal DEF Fine
  <1>4. CASE ~ (ok /\ doing[h].verb = "attack")
    <2>1. /\ doing' = [doing EXCEPT ![h] = Idle] /\ queue' = [queue EXCEPT ![p] = Tail(@)]
          /\ UNCHANGED <<live, row>>
          /\ failed' = IF ~ok /\ doing[h].verb = "attack" THEN failed \cup {p} ELSE failed
      BY <1>4 DEF Counted, Ends, Waits, Released
    <2>2. /\ doing' \in [Actors -> Command] /\ \A b \in Actors \ {h} : doing'[b] = doing[b]
          /\ doing'[h] = Idle
      BY <1>1, <2>1, IdleTyped, StartFacts
    <2>3. Quits(h) /\ Moves(h) /\ ~Apart(h) /\ ~Joins(h)
      BY <1>1, <2>1, <2>2 DEF Quits, Moves, Inside, Idle, Apart, Joins
    <2>4. KindOf(h)' /\ TrueFor(h)'
      BY <2>2 DEF KindOf, TrueFor, Idle
    <2>5. p \notin failed' => ~Unsaved(h) /\ p \notin failed
      BY <1>1, <1>4, <2>1 DEF Unsaved
    <2>6. /\ failed' \in SUBSET Planets /\ \A q \in Planets \ {p} : q \in failed <=> q \in failed'
          /\ row' \in [Planets -> Planet] /\ live' \in [Planets -> Stocked] /\ live' \in [Planets -> Planet]
      BY <1>1, <2>1, StartFacts DEF Stocked
    <2> QED BY <1>1, <1>2, <2>1, <2>3, <2>4, <2>5, <2>6 DEF Fine, Local
  <1> QED BY <1>3, <1>4

\* A command of an actor, whichever it is.
LEMMA ResumedFine ==
    ASSUME Start, NEW a \in Actors, Resumed(a)
    PROVE  Fine(a)
  <1>1. CASE a \in Hulls /\ (Purse(a) \/ Section(a) \/ Debited(a) \/ Mailed(a))
    BY <1>1, PurseFine, BuyFine, SellFine, SectionsFine, AttackFine, DebitedFine, MailedFine DEF Section
  <1>2. CASE a \in Clocks /\ Produce(a)
    BY <1>2, ProduceFine
  <1>3. CASE \E ok \in BOOLEAN : Written(a, ok)
    BY <1>3, WrittenFine
  <1>4. CASE \E ok \in BOOLEAN : a \in Hulls /\ (Counted(a, ok) \/ Credited(a, ok))
    BY <1>4, CountedFine, CreditedFine
  <1> QED BY <1>1, <1>2, <1>3, <1>4 DEF Resumed

\* What a hull does on its own: no chain, no row.
LEMMA FreeKeeps ==
    ASSUME Start, RowFollows, NEW h \in Hulls,
           Give(h) \/ Leave(h) \/ Board(h) \/ (\E p \in Planets : Spy(h, p))
    PROVE  /\ Start' /\ RowFollows' /\ UNCHANGED <<row, queue, doing, cash, planets, issued, failed, missed>>
           /\ \A q \in Planets : Same(live'[q], live[q])
  <1>1. UNCHANGED <<row, queue, doing, cash, planets, issued, failed, missed>>
    BY DEF Give, Leave, Board, Spy, purses, history
  <1>2. h \in Actors /\ Captain[h] \in Users /\ Solvent /\ live \in [Planets -> Stocked]
    BY Sorts, StartFacts
  <1>3. Solvent' /\ (live' = live \/ \E p \in Planets : live' = [live EXCEPT ![p].spy = Captain[h]])
    <2>1. CASE Give(h)
      <3>1. PICK g \in aboard \ {h}, n \in Lots :
              hold[h] >= n /\ hold' = [hold EXCEPT ![h] = @ - n, ![g] = @ + n]
        BY <2>1 DEF Give
      <3>2. n \in Nat /\ hold[h] - n \in Nat /\ g \in Hulls /\ hold[g] + n \in Nat /\ g # h
        BY <1>2, <3>1, LotsAssumption DEF Solvent
      <3> QED BY <1>1, <1>2, <2>1, <3>1, <3>2 DEF Give, Solvent
    <2>2. CASE \E p \in Planets : Spy(h, p)
      <3>1. PICK p \in Planets : Spy(h, p)
        BY <2>2
      <3>2. /\ hold[h] > 0 /\ hold' = [hold EXCEPT ![h] = @ - 1] /\ aboard' = aboard
            /\ live' = [live EXCEPT ![p].spy = Captain[h]]
        BY <3>1 DEF Spy
      <3>3. hold' \in [Hulls -> Nat]
        BY <1>2, <3>2 DEF Solvent
      <3>4. Solvent'
        BY <1>1, <1>2, <3>2, <3>3 DEF Solvent
      <3> QED BY <3>2, <3>4
    <2>3. CASE Leave(h) \/ Board(h)
      BY <1>1, <1>2, <2>3 DEF Leave, Board, Solvent
    <2> QED BY <2>1, <2>2, <2>3
  <1>4. /\ live' \in [Planets -> Stocked]
        /\ \A q \in Planets : Same(live'[q], live[q]) /\ live'[q].qty = live[q].qty
    BY <1>2, <1>3 DEF Stocked, Planet, Same
  <1>5. Mutex' /\ Kinds'
    BY <1>1 DEF Start, Mutex, Listed, Waiting, Once, AtHead, Kinds, KindOf
  <1>6. \A a \in Actors : doing[a].planet \in Planets
    BY StartFacts
  <1>7. StillTrue' /\ RowFollows'
    BY <1>1, <1>4, <1>6 DEF Start, StillTrue, TrueFor, RowFollows, Unsaved, Same
  <1>8. TypeOK' /\ NoOverdraft'
    BY <1>1, <1>3, <1>4 DEF Start, TypeOK, NoOverdraft, Solvent, Stocked
  <1> QED BY <1>1, <1>4, <1>5, <1>7, <1>8 DEF Start

LEMMA StepFine ==
    ASSUME Start, RowFollows, Next
    PROVE  Start' /\ RowFollows'
  <1>1. ASSUME NEW a \in Actors, Fine(a) PROVE Start' /\ RowFollows'
    <2>1. /\ Mutex' /\ Kinds' /\ StillTrue' /\ RowFollows'
          /\ queue' \in [Planets -> Seq(Actors)] /\ doing' \in [Actors -> Command]
          /\ live' \in [Planets -> Planet] /\ row' \in [Planets -> Planet] /\ failed' \in SUBSET Planets
      BY <1>1, LocalKeeps DEF Fine, Start
    <2>2. TypeOK' /\ NoOverdraft'
      BY <1>1, <2>1 DEF TypeOK, NoOverdraft, Fine, Solvent, Stocked
    <2> QED BY <2>1, <2>2 DEF Start
  <1>2. CASE \E h \in Hulls : Ask(h) \/ Give(h) \/ Leave(h) \/ Board(h) \/ \E p \in Planets : Spy(h, p)
    BY <1>1, <1>2, AskFine, FreeKeeps, Sorts
  <1>3. CASE \E c \in Clocks : Advance(c)
    BY <1>1, <1>3, AdvanceFine, Sorts
  <1>4. CASE \E a \in Actors : Resumed(a)
    BY <1>1, <1>4, ResumedFine
  <1> QED BY <1>2, <1>3, <1>4 DEF Next

-----------------------------------------------------------------------------
(* Goods and credits.                                                      *)

Under(a) == IF \/ doing[a].at = "write" /\ doing[a].verb \in {"buy", "up", "withdraw"}
               \/ doing[a].at = "credit"
            THEN doing[a].n ELSE 0

LEMMA Finite == IsFiniteSet(Planets) /\ IsFiniteSet(Hulls) /\ IsFiniteSet(Users)
  BY FiniteAssumption, FS_AddElement DEF Planets

LEMMA WorthIsNat ==
    ASSUME Solvent, live \in [Planets -> Stocked], doing \in [Actors -> Command]
    PROVE  /\ Worth \in Nat
           /\ Sum(OnPlanet, Planets) \in Int /\ Sum(hold, Hulls) \in Int
           /\ Sum(cash, Users) \in Int /\ Sum(OnTheWay, Hulls) \in Int
  <1>1. \A p \in Planets : OnPlanet[p] \in Nat
    BY DEF OnPlanet, Stuff, Stocked, Planet
  <1>2. \A h \in Hulls : hold[h] \in Nat /\ OnTheWay[h] \in Nat
    BY Sorts DEF OnTheWay, Solvent, Command
  <1>3. \A u \in Users : cash[u] \in Nat
    BY DEF Solvent
  <1>4. /\ Sum(OnPlanet, Planets) \in Nat /\ Sum(hold, Hulls) \in Nat
        /\ Sum(cash, Users) \in Nat /\ Sum(OnTheWay, Hulls) \in Nat
    BY <1>1, <1>2, <1>3, Finite, SumIsNat
  <1> QED BY <1>4 DEF Worth, Sum

\* One hull, one account and one planet have changed.
LEMMA WorthChanges ==
    ASSUME Solvent, live \in [Planets -> Stocked], doing \in [Actors -> Command],
           Solvent', live' \in [Planets -> Stocked], doing' \in [Actors -> Command],
           NEW h \in Hulls, NEW p \in Planets, NEW u \in Users,
           \A q \in Planets \ {p} : live'[q] = live[q],
           \A g \in Hulls \ {h} : hold'[g] = hold[g] /\ doing'[g] = doing[g],
           \A v \in Users \ {u} : cash'[v] = cash[v]
    PROVE  Worth' = Worth + (Stuff(live'[p]) - Stuff(live[p])) + (hold'[h] - hold[h])
                          + (cash'[u] - cash[u]) + (Under(h)' - Under(h))
  <1>1. /\ Stuff(live[p]) \in Int /\ Stuff(live'[p]) \in Int
        /\ \A q \in Planets : /\ OnPlanet[q] = Stuff(live[q]) /\ OnPlanet[q] \in Int
                              /\ OnPlanet'[q] = Stuff(live'[q]) /\ OnPlanet'[q] \in Int
    BY DEF OnPlanet, Stuff, Stocked, Planet
  <1>2. Sum(OnPlanet', Planets) = Sum(OnPlanet, Planets) + Stuff(live'[p]) - Stuff(live[p])
    BY <1>1, Finite, SumChanges
  <1>3. \A g \in Hulls : hold[g] \in Int /\ hold'[g] \in Int
    BY DEF Solvent
  <1>4. Sum(hold', Hulls) = Sum(hold, Hulls) + hold'[h] - hold[h]
    BY <1>3, Finite, SumChanges
  <1>5. \A v \in Users : cash[v] \in Int /\ cash'[v] \in Int
    BY DEF Solvent
  <1>6. Sum(cash', Users) = Sum(cash, Users) + cash'[u] - cash[u]
    BY <1>5, Finite, SumChanges
  <1>7. \A g \in Hulls : /\ OnTheWay[g] = Under(g) /\ OnTheWay[g] \in Int
                         /\ OnTheWay'[g] = Under(g)' /\ OnTheWay'[g] \in Int
    BY Sorts DEF OnTheWay, Under, Command
  <1>8. \A g \in Hulls \ {h} : OnTheWay[g] = OnTheWay'[g]
    BY <1>7 DEF Under
  <1>9. Sum(OnTheWay', Hulls) = Sum(OnTheWay, Hulls) + Under(h)' - Under(h)
    BY <1>7, <1>8, Finite, SumChanges
  <1>10. /\ Sum(OnPlanet, Planets) \in Int /\ Sum(hold, Hulls) \in Int
         /\ Sum(cash, Users) \in Int /\ Sum(OnTheWay, Hulls) \in Int
    BY WorthIsNat
  <1>11. /\ hold[h] \in Int /\ hold'[h] \in Int /\ cash[u] \in Int /\ cash'[u] \in Int
         /\ Under(h) \in Int /\ Under(h)' \in Int
    BY <1>3, <1>5, <1>7
  <1>12. /\ Worth = Sum(OnPlanet, Planets) + Sum(hold, Hulls) + Sum(cash, Users) + Sum(OnTheWay, Hulls)
         /\ Worth' = Sum(OnPlanet', Planets) + Sum(hold', Hulls) + Sum(cash', Users) + Sum(OnTheWay', Hulls)
    BY DEF Worth, Sum
  <1> QED BY <1>1, <1>2, <1>4, <1>6, <1>9, <1>10, <1>11, <1>12

-----------------------------------------------------------------------------
(* What one command of a hull does to goods, credits and ownership.        *)

Gained(h)  == IF Gains(h) THEN 1 ELSE 0
Yielded(h) == IF Yields(h) THEN 1 ELSE 0
Mine(h, p) == IF p \in Colonies /\ live[p].owner = Captain[h] THEN 1 ELSE 0

\* What the counter of the account has over what is counted, as far as hull h and
\* planet p go.
Room(h, p) == planets[Captain[h]] + Gained(h) - Yielded(h) - Mine(h, p)

\* No other hull or account has a part in it, nothing is gained on the whole, a planet
\* is taken by a conquest or below the cap, and what is counted is covered.
Honest(h, p) ==
    /\ \A g \in Hulls \ {h} : hold'[g] = hold[g]
    /\ \A v \in Users \ {Captain[h]} : cash'[v] = cash[v] /\ planets'[v] = planets[v]
    /\ issued' = issued /\ missed \subseteq missed'
    /\ Stuff(live'[p]) + hold'[h] + cash'[Captain[h]] + Under(h)'
         <= Stuff(live[p]) + hold[h] + cash[Captain[h]] + Under(h)
    /\ \/ live'[p].owner = live[p].owner
       \/ p # Hub /\ live'[p].owner = Nobody
       \/ /\ p # Hub /\ live'[p].owner = Captain[h]
          /\ doing[h].verb = "attack" \/ OwnedBy(Captain[h]) < MaxPlanets
    /\ Captain[h] \notin missed' => Room(h, p) <= Room(h, p)'

\* The numbers there are.
LEMMA Amounts ==
    ASSUME Start, NEW h \in Hulls
    PROVE  LET p == doing[h].planet IN
           /\ h \in Actors /\ Captain[h] \in Users /\ p \in Planets
           /\ live[p].qty \in Nat /\ live[p].cash \in Nat /\ live[p].tax \in Nat
           /\ hold[h] \in Nat /\ cash[Captain[h]] \in Nat /\ planets[Captain[h]] \in Nat
           /\ doing[h].n \in Nat
  <1>1. h \in Actors /\ Captain[h] \in Users
    BY Sorts
  <1> QED BY <1>1, StartFacts DEF Stocked, Planet, Solvent

\* The planet and the counters stay, and there is no more under way than there was.
LEMMA QuietHonest ==
    ASSUME Start, NEW h \in Hulls, NEW p \in Planets, p = doing[h].planet,
           UNCHANGED <<live, hold, cash, planets, issued, missed>>,
           Under(h)' <= Under(h), Under(h)' \in Nat, Under(h) \in Nat, Gained(h)' = Gained(h), Yielded(h)' = Yielded(h)
    PROVE  Honest(h, p)
  <1>1. Stuff(live[p]) \in Int /\ hold[h] \in Int /\ cash[Captain[h]] \in Int /\ planets[Captain[h]] \in Int
    BY Amounts DEF Stuff
  <1>2. Room(h, p)' = Room(h, p) /\ Room(h, p) \in Int
    <2>1. Gained(h) \in Int /\ Yielded(h) \in Int /\ Mine(h, p) \in Int
      BY DEF Gained, Gains, Yielded, Yields, Mine
    <2>2. Mine(h, p)' = Mine(h, p)
      BY DEF Mine
    <2> QED BY <1>1, <2>1, <2>2 DEF Room
  <1> QED BY <1>1, <1>2 DEF Honest

LEMMA RefusedHonest ==
    ASSUME Start, NEW h \in Hulls, NEW p \in Planets, p = doing[h].planet,
           doing[h].at \in {"queued", "debit"}, Refused(h)
    PROVE  Honest(h, p)
  <1>1. h \in Actors
    BY Sorts
  <1>2. doing' = [doing EXCEPT ![h] = Idle] /\ UNCHANGED <<live, hold, cash, planets, issued, missed>>
    BY DEF Refused, Ends, Waits, purses, history
  <1>3. doing'[h] = Idle
    BY <1>1, <1>2, StartFacts
  <1>4. Under(h) = 0 /\ Under(h)' = 0
    BY <1>3 DEF Under, Idle
  <1>5. Gained(h) = 0 /\ Gained(h)' = 0 /\ Yielded(h) = 0 /\ Yielded(h)' = 0
    BY <1>3 DEF Gained, Gains, Yielded, Yields, Idle
  <1> QED BY <1>2, <1>4, <1>5, QuietHonest

LEMMA AskHonest ==
    ASSUME Start, NEW h \in Hulls, NEW p \in Planets, p = doing[h].planet, Ask(h) \/ Purse(h)
    PROVE  Honest(h, p)
  <1>1. h \in Actors /\ UNCHANGED <<live, hold, cash, planets, issued, missed>>
    BY Sorts DEF Ask, Purse, purses, history
  <1>2. doing[h].at \in {"idle", "purse"} /\ doing'[h].at \in {"purse", "queued"}
    <2>1. CASE Ask(h)
      <3>1. PICK verb \in Verbs \ {"spy", "give"}, q \in Planets, n \in Lots :
              LET op == [Idle EXCEPT !.verb = verb, !.planet = q, !.n = n] IN
              \/ Waits(h, [op EXCEPT !.at = "purse"])
              \/ Serialized(h, op)
        BY <2>1 DEF Ask
      <3> DEFINE op == [Idle EXCEPT !.verb = verb, !.planet = q, !.n = n]
      <3>2. op \in Command
        BY LotsAssumption, IdleTyped, Goes
      <3>3. [op EXCEPT !.at = "purse"].at = "purse" /\ [op EXCEPT !.at = "queued"].at = "queued"
        BY <3>2 DEF Command
      <3>4. \/ doing' = [doing EXCEPT ![h] = [op EXCEPT !.at = "purse"]]
            \/ doing' = [doing EXCEPT ![h] = [op EXCEPT !.at = "queued"]]
        BY <3>1 DEF Waits, Serialized
      <3>5. doing[h].at = "idle"
        <4>1. doing[h] = Idle
          BY <2>1 DEF Ask
        <4> QED BY <4>1 DEF Idle
      <3>6. \A next : doing' = [doing EXCEPT ![h] = next] => doing'[h] = next
        BY <1>1, StartFacts
      <3> HIDE DEF op
      <3> QED BY <3>3, <3>4, <3>5, <3>6
    <2>2. CASE Purse(h)
      <3> DEFINE op == [doing[h] EXCEPT !.seen = cash[Captain[h]]]
      <3>1. cash[Captain[h]] \in Int
        BY Amounts
      <3>2. op \in Command
        BY <1>1, <3>1, StartFacts, Goes
      <3>3. [op EXCEPT !.at = "queued"].at = "queued"
        BY <3>2 DEF Command
      <3>4. doing' = [doing EXCEPT ![h] = [op EXCEPT !.at = "queued"]]
        BY <2>2 DEF Purse, Waits, Serialized
      <3> HIDE DEF op
      <3> QED BY <1>1, <2>2, <3>3, <3>4, StartFacts DEF Purse
    <2> QED BY <2>1, <2>2
  <1>3. Under(h) = 0 /\ Under(h)' = 0
    BY <1>2 DEF Under
  <1>4. Gained(h) = 0 /\ Gained(h)' = 0 /\ Yielded(h) = 0 /\ Yielded(h)' = 0
    BY <1>2 DEF Gained, Gains, Yielded, Yields
  <1> QED BY <1>1, <1>3, <1>4, QuietHonest


LEMMA Saved ==
    ASSUME Start, NEW h \in Hulls, NEW p \in Planets, p = doing[h].planet,
           NEW s \in Stocked, Saves(h, p, s)
    PROVE  /\ live'[p] = s
           /\ doing'[h].at = "write" /\ doing'[h].verb = doing[h].verb /\ doing'[h].n = doing[h].n
  <1>1. h \in Actors /\ doing[h] \in Command /\ s \in Planet
    BY Sorts, StartFacts DEF Stocked
  <1>2. doing' = [doing EXCEPT ![h] = [doing[h] EXCEPT !.at = "write", !.data = s]]
    BY DEF Saves, Waits
  <1>3. live'[p] = s
    BY <1>1, StartFacts DEF Saves
  <1> QED BY <1>1, <1>2, <1>3, StartFacts DEF Command

\* What the hull's hold becomes: less by n, or more by n, or as it was.
LEMMA LoadedFacts ==
    ASSUME Solvent, NEW h \in Hulls, NEW n \in Int, hold' = Loaded(h, n)
    PROVE  /\ hold'[h] = IF h \in aboard THEN hold[h] + n ELSE hold[h]
           /\ \A g \in Hulls \ {h} : hold'[g] = hold[g]
  BY DEF Loaded, Solvent

\* Goods and credits of a planet are a number.
LEMMA StuffTyped ==
    ASSUME NEW s \in Stocked
    PROVE  Stuff(s) \in Nat /\ s.qty \in Nat
  <1>1. s.qty \in Nat /\ s.cash \in Nat /\ s.tax \in Nat
    BY DEF Stocked, Planet
  <1> QED BY <1>1 DEF Stuff

\* A planet that gives up some of its tax, some of its goods, ...
LEMMA TaxFalls ==
    ASSUME NEW s \in Stocked, NEW n \in Nat, s.tax >= n
    PROVE  /\ [s EXCEPT !.tax = Less(@, n)] \in Stocked
           /\ Stuff([s EXCEPT !.tax = Less(@, n)]) = Stuff(s) - n
           /\ [s EXCEPT !.tax = Less(@, n)].owner = s.owner
  <1>1. s \in Planet /\ s.qty \in Nat /\ s.cash \in Nat /\ s.tax \in Nat
    BY DEF Stocked, Planet
  <1> QED BY <1>1 DEF Stuff, Stocked, Planet, Less

LEMMA GoodsFall ==
    ASSUME NEW s \in Stocked, NEW n \in Nat, s.qty >= n
    PROVE  /\ [s EXCEPT !.qty = Less(@, n)] \in Stocked
           /\ Stuff([s EXCEPT !.qty = Less(@, n)]) = Stuff(s) - n
           /\ [s EXCEPT !.qty = Less(@, n)].owner = s.owner
  <1>1. s \in Planet /\ s.qty \in Nat /\ s.cash \in Nat /\ s.tax \in Nat
    BY DEF Stocked, Planet
  <1> QED BY <1>1 DEF Stuff, Stocked, Planet, Less

\* ... is given goods, is left with so many ...
LEMMA GoodsRise ==
    ASSUME NEW s \in Stocked, NEW n \in Nat
    PROVE  /\ [s EXCEPT !.qty = @ + n] \in Stocked
           /\ Stuff([s EXCEPT !.qty = @ + n]) = Stuff(s) + n
           /\ [s EXCEPT !.qty = @ + n].owner = s.owner
  <1>1. s \in Planet /\ s.qty \in Nat /\ s.cash \in Nat /\ s.tax \in Nat
    BY DEF Stocked, Planet
  <1> QED BY <1>1 DEF Stuff, Stocked, Planet, Less

LEMMA GoodsSet ==
    ASSUME NEW s \in Stocked, NEW n \in Nat
    PROVE  /\ [s EXCEPT !.qty = n] \in Stocked
           /\ Stuff([s EXCEPT !.qty = n]) = Stuff(s) - s.qty + n
           /\ [s EXCEPT !.qty = n].owner = s.owner
  <1>1. s \in Planet /\ s.qty \in Nat /\ s.cash \in Nat /\ s.tax \in Nat
    BY DEF Stocked, Planet
  <1> QED BY <1>1 DEF Stuff, Stocked, Planet, Less

\* ... or changes hands.
LEMMA OwnerTurns ==
    ASSUME NEW s \in Stocked, NEW o \in Owners
    PROVE  /\ [s EXCEPT !.owner = o] \in Stocked
           /\ Stuff([s EXCEPT !.owner = o]) = Stuff(s)
           /\ [s EXCEPT !.owner = o].owner = o
  <1>1. s \in Planet /\ s.qty \in Nat /\ s.cash \in Nat /\ s.tax \in Nat
    BY DEF Stocked, Planet
  <1> QED BY <1>1 DEF Stuff, Stocked, Planet, Less

\* The owner stays, and so do the counters.
LEMMA SameOwnerHonest ==
    ASSUME Start, NEW h \in Hulls, NEW p \in Planets, p = doing[h].planet,
           \A g \in Hulls \ {h} : hold'[g] = hold[g],
           \A v \in Users \ {Captain[h]} : cash'[v] = cash[v], UNCHANGED <<planets, issued, missed>>,
           live'[p].owner = live[p].owner,
           Stuff(live'[p]) + hold'[h] + cash'[Captain[h]] + Under(h)'
             <= Stuff(live[p]) + hold[h] + cash[Captain[h]] + Under(h),
           Gained(h) = 0, Gained(h)' = 0, Yielded(h) = 0, Yielded(h)' = 0
    PROVE  Honest(h, p)
  <1>1. Mine(h, p)' = Mine(h, p) /\ Mine(h, p) \in Int
    BY DEF Mine
  <1>2. planets[Captain[h]] \in Int
    BY Amounts
  <1>3. Room(h, p)' = Room(h, p) /\ Room(h, p) \in Int
    BY <1>1, <1>2 DEF Room
  <1> QED BY <1>3 DEF Honest

LEMMA SectionsHonest ==
    ASSUME Start, HubIsFree, NEW h \in Hulls, NEW p \in Planets, p = doing[h].planet,
           Withdraw(h) \/ Up(h) \/ Down(h) \/ Claim(h) \/ Abandon(h) \/ Manage(h)
    PROVE  Honest(h, p)
  <1> DEFINE n == doing[h].n
             s == live[p]
  <1>1. /\ h \in Actors /\ Captain[h] \in Users /\ Captain[h] \in Owners /\ Nobody \in Owners
        /\ n \in Nat /\ s \in Stocked /\ Stuff(s) \in Nat /\ Solvent
        /\ hold[h] \in Nat /\ cash[Captain[h]] \in Nat /\ planets[Captain[h]] \in Nat
    BY Sorts, StartFacts, Amounts, StuffTyped
  <1>2. /\ doing[h].at = "queued"
        /\ doing[h].verb \in {"withdraw", "up", "down", "claim", "abandon", "admin"}
    BY DEF Withdraw, Up, Down, Claim, Abandon, Manage, Turn
  <1>3. Under(h) = 0 /\ Gained(h) = 0 /\ Yielded(h) = 0
    BY <1>2 DEF Under, Gained, Gains, Yielded, Yields
  <1>4. CASE Refused(h)
    BY <1>2, <1>4, RefusedHonest
  <1>5. CASE Withdraw(h) /\ ~Refused(h)
    <2> DEFINE t == [s EXCEPT !.tax = Less(@, n)]
    <2>1. /\ n <= s.tax /\ Saves(h, p, t) /\ doing[h].verb = "withdraw"
          /\ UNCHANGED <<hold, cash, planets, issued, missed>>
      BY <1>5 DEF Withdraw, Turn, purses, history
    <2>2. /\ t \in Stocked
          /\ Stuff(t) = Stuff(s) - n
          /\ t.owner = s.owner
      BY <1>1, <2>1, TaxFalls
    <2> HIDE DEF t, s
    <2>3. /\ Stuff(live'[p]) = Stuff(s) - n /\ live'[p].owner = s.owner
          /\ doing'[h].at = "write" /\ doing'[h].verb = "withdraw" /\ doing'[h].n = n
      BY <2>1, <2>2, Saved
    <2>4. Under(h)' = n /\ Gained(h)' = 0 /\ Yielded(h)' = 0
      BY <2>3 DEF Under, Gained, Gains, Yielded, Yields
    <2> HIDE DEF n
    <2>5. Stuff(live'[p]) + hold'[h] + cash'[Captain[h]] + Under(h)'
             <= Stuff(s) + hold[h] + cash[Captain[h]] + Under(h)
      BY <1>1, <1>3, <2>1, <2>3, <2>4
    <2> QED BY <1>1, <1>3, <2>1, <2>3, <2>4, <2>5, SameOwnerHonest DEF s
  <1>6. CASE Up(h) /\ ~Refused(h)
    <2> DEFINE t == [s EXCEPT !.qty = Less(@, n)]
    <2>1. /\ n <= s.qty /\ Saves(h, p, t) /\ doing[h].verb = "up"
          /\ UNCHANGED <<hold, cash, planets, issued, missed>>
      BY <1>1, <1>6 DEF Up, Turn, purses, history
    <2>2. /\ t \in Stocked
          /\ Stuff(t) = Stuff(s) - n
          /\ t.owner = s.owner
      BY <1>1, <2>1, GoodsFall
    <2> HIDE DEF t, s
    <2>3. /\ Stuff(live'[p]) = Stuff(s) - n /\ live'[p].owner = s.owner
          /\ doing'[h].at = "write" /\ doing'[h].verb = "up" /\ doing'[h].n = n
      BY <2>1, <2>2, Saved
    <2>4. Under(h)' = n /\ Gained(h)' = 0 /\ Yielded(h)' = 0
      BY <2>3 DEF Under, Gained, Gains, Yielded, Yields
    <2> HIDE DEF n
    <2>5. Stuff(live'[p]) + hold'[h] + cash'[Captain[h]] + Under(h)'
             <= Stuff(s) + hold[h] + cash[Captain[h]] + Under(h)
      BY <1>1, <1>3, <2>1, <2>3, <2>4
    <2> QED BY <1>1, <1>3, <2>1, <2>3, <2>4, <2>5, SameOwnerHonest DEF s
  <1>7. CASE Down(h) /\ ~Refused(h)
    <2> DEFINE t == [s EXCEPT !.qty = @ + n]
    <2>1. /\ h \in aboard /\ hold[h] >= n /\ hold' = Loaded(h, -n)
          /\ Saves(h, p, t) /\ doing[h].verb = "down"
          /\ UNCHANGED <<cash, planets, issued, missed>>
      BY <1>7 DEF Down, Turn, InHold, purses, history
    <2>2. /\ t \in Stocked
          /\ Stuff(t) = Stuff(s) + n
          /\ t.owner = s.owner
      BY <1>1, <2>1, GoodsRise
    <2> HIDE DEF t, s
    <2>3. /\ Stuff(live'[p]) = Stuff(s) + n /\ live'[p].owner = s.owner
          /\ doing'[h].at = "write" /\ doing'[h].verb = "down" /\ doing'[h].n = n
      BY <2>1, <2>2, Saved
    <2>4. Under(h)' = 0 /\ Gained(h)' = 0 /\ Yielded(h)' = 0
      BY <2>3 DEF Under, Gained, Gains, Yielded, Yields
    <2>5. -n \in Int
      BY <1>1
    <2>6. hold'[h] = hold[h] - n /\ \A g \in Hulls \ {h} : hold'[g] = hold[g]
      BY <1>1, <2>1, <2>5, LoadedFacts
    <2> HIDE DEF n
    <2>7. Stuff(live'[p]) + hold'[h] + cash'[Captain[h]] + Under(h)'
             <= Stuff(s) + hold[h] + cash[Captain[h]] + Under(h)
      BY <1>1, <1>3, <2>1, <2>3, <2>4, <2>6
    <2> QED BY <1>1, <1>3, <2>1, <2>3, <2>4, <2>6, <2>7, SameOwnerHonest DEF s
  <1>8. CASE Manage(h) /\ ~Refused(h)
    <2>1. /\ Saves(h, p, s) /\ doing[h].verb = "admin"
          /\ UNCHANGED <<hold, cash, planets, issued, missed>>
      BY <1>8 DEF Manage, Turn, purses, history
    <2>3. /\ live'[p] = s /\ doing'[h].at = "write" /\ doing'[h].verb = "admin"
      BY <1>1, <2>1, Saved
    <2>4. Under(h)' = 0 /\ Gained(h)' = 0 /\ Yielded(h)' = 0
      BY <2>3 DEF Under, Gained, Gains, Yielded, Yields
    <2> HIDE DEF n, s
    <2>5. Stuff(live'[p]) + hold'[h] + cash'[Captain[h]] + Under(h)'
             <= Stuff(s) + hold[h] + cash[Captain[h]] + Under(h)
      BY <1>1, <1>3, <2>1, <2>3, <2>4
    <2> QED BY <1>1, <1>3, <2>1, <2>3, <2>4, <2>5, SameOwnerHonest DEF s
  <1>9. CASE Claim(h) /\ ~Refused(h)
    <2> DEFINE t == [s EXCEPT !.owner = Captain[h]]
    <2>1. /\ Saves(h, p, t) /\ doing[h].verb = "claim"
          /\ p # Hub /\ OwnedBy(Captain[h]) < MaxPlanets /\ s.owner = Nobody
          /\ UNCHANGED <<hold, cash, planets, issued, missed>>
      BY <1>9 DEF Claim, Turn, purses, history
    <2>2. /\ t \in Stocked
          /\ Stuff(t) = Stuff(s)
          /\ t.owner = Captain[h]
      BY <1>1, OwnerTurns
    <2> HIDE DEF t, s
    <2>3. /\ Stuff(live'[p]) = Stuff(s) /\ live'[p].owner = Captain[h]
          /\ doing'[h].at = "write" /\ doing'[h].verb = "claim"
      BY <2>1, <2>2, Saved
    <2>4. Under(h)' = 0 /\ Gained(h)' = 1 /\ Yielded(h)' = 0
      BY <2>3 DEF Under, Gained, Gains, Yielded, Yields
    <2>5. Mine(h, p) = 0 /\ Mine(h, p)' \in {0, 1}
      BY <1>1, <2>1, OwnersAssumption DEF Mine, s
    <2> HIDE DEF n
    <2>6. Stuff(live'[p]) + hold'[h] + cash'[Captain[h]] + Under(h)'
             <= Stuff(s) + hold[h] + cash[Captain[h]] + Under(h)
      BY <1>1, <1>3, <2>1, <2>3, <2>4
    <2>7. Room(h, p) <= Room(h, p)'
      BY <1>1, <1>3, <2>1, <2>4, <2>5 DEF Room
    <2> QED BY <2>1, <2>3, <2>6, <2>7 DEF Honest, s
  <1>10. CASE Abandon(h) /\ ~Refused(h)
    <2> DEFINE t == [s EXCEPT !.owner = Nobody]
    <2>1. /\ Saves(h, p, t) /\ doing[h].verb = "abandon"
          /\ s.owner = Captain[h]
          /\ UNCHANGED <<hold, cash, planets, issued, missed>>
      BY <1>10 DEF Abandon, Turn, purses, history
    <2>2. /\ t \in Stocked
          /\ Stuff(t) = Stuff(s)
          /\ t.owner = Nobody
      BY <1>1, OwnerTurns
    <2> HIDE DEF t, s
    <2>3. /\ Stuff(live'[p]) = Stuff(s) /\ live'[p].owner = Nobody
          /\ doing'[h].at = "write" /\ doing'[h].verb = "abandon"
      BY <2>1, <2>2, Saved
    <2>4. Under(h)' = 0 /\ Gained(h)' = 0 /\ Yielded(h)' = 1
      BY <2>3 DEF Under, Gained, Gains, Yielded, Yields
    <2>5. p # Hub
      BY <1>1, <2>1, OwnersAssumption DEF HubIsFree, s
    <2>6. Mine(h, p) = 1 /\ Mine(h, p)' = 0
      BY <1>1, <2>1, <2>3, <2>5, OwnersAssumption DEF Mine, Planets, s
    <2> HIDE DEF n
    <2>7. Stuff(live'[p]) + hold'[h] + cash'[Captain[h]] + Under(h)'
             <= Stuff(s) + hold[h] + cash[Captain[h]] + Under(h)
      BY <1>1, <1>3, <2>1, <2>3, <2>4
    <2>8. Room(h, p) <= Room(h, p)'
      BY <1>1, <1>3, <2>1, <2>4, <2>6 DEF Room
    <2> QED BY <2>1, <2>3, <2>5, <2>7, <2>8 DEF Honest, s
  <1> QED BY <1>4, <1>5, <1>6, <1>7, <1>8, <1>9, <1>10


LEMMA BuyHonest ==
    ASSUME Start, NEW h \in Hulls, NEW p \in Planets, p = doing[h].planet, Buy(h)
    PROVE  Honest(h, p)
  <1>1. h \in Actors /\ doing[h] \in Command /\ doing[h].at = "queued" /\ doing[h].verb = "buy"
    BY Sorts, StartFacts DEF Buy, Turn
  <1>2. CASE Refused(h)
    BY <1>1, <1>2, RefusedHonest
  <1>3. CASE ~Refused(h)
    <2>1. /\ doing' = [doing EXCEPT ![h] = [doing[h] EXCEPT !.at = "debit"]]
          /\ UNCHANGED <<live, hold, cash, planets, issued, missed>>
      BY <1>3 DEF Buy, Waits, purses, history
    <2>2. doing'[h].at = "debit"
      BY <1>1, <2>1, StartFacts DEF Command
    <2>3. Under(h) = 0 /\ Under(h)' = 0
      BY <1>1, <2>2 DEF Under
    <2>4. Gained(h) = 0 /\ Gained(h)' = 0 /\ Yielded(h) = 0 /\ Yielded(h)' = 0
      BY <1>1, <2>2 DEF Gained, Gains, Yielded, Yields
    <2> QED BY <2>1, <2>3, <2>4, QuietHonest
  <1> QED BY <1>2, <1>3

\* Goods are taken from the planet and paid for.
LEMMA SoldFacts ==
    ASSUME NEW s \in Stocked, NEW n \in Nat, s.qty >= n
    PROVE  LET t == [s EXCEPT !.qty = Less(@, n), !.cash = @ + n]
           IN  t \in Stocked /\ Stuff(t) = Stuff(s) /\ t.owner = s.owner
  <1> DEFINE t == [s EXCEPT !.qty = Less(@, n)]
             v == [t EXCEPT !.cash = s.cash + n]
  <1>1. s \in Planet /\ s.qty - n \in Nat /\ s.qty \in Nat /\ s.cash \in Nat /\ s.tax \in Nat
    BY DEF Stocked, Planet
  <1>2. /\ t \in Stocked /\ t \in Planet /\ t.cash = s.cash /\ t.qty = s.qty - n /\ t.tax = s.tax
        /\ t.owner = s.owner
    BY <1>1 DEF Stocked, Planet, Less
  <1> HIDE DEF t
  <1>3. v \in Stocked /\ v.cash = s.cash + n /\ v.qty = t.qty /\ v.tax = t.tax /\ v.owner = t.owner
    BY <1>1, <1>2 DEF Stocked, Planet
  <1>4. [s EXCEPT !.qty = Less(@, n), !.cash = @ + n] = v
    BY DEF t
  <1> HIDE DEF v
  <1> DEFINE w == [s EXCEPT !.qty = Less(@, n), !.cash = @ + n]
  <1>5. w = v
    BY <1>4
  <1> HIDE DEF w
  <1>6. w \in Stocked /\ Stuff(w) = Stuff(s) /\ w.owner = s.owner
    BY <1>1, <1>2, <1>3, <1>5 DEF Stuff
  <1> QED BY <1>6 DEF w

LEMMA DebitedHonest ==
    ASSUME Start, NEW h \in Hulls, NEW p \in Planets, p = doing[h].planet, Debited(h)
    PROVE  Honest(h, p)
  <1> DEFINE n == doing[h].n
             s == live[p]
             C == Captain[h]
             t == [s EXCEPT !.qty = Less(@, n), !.cash = @ + n]
  <1>1. /\ h \in Actors /\ C \in Users /\ n \in Nat /\ s \in Stocked /\ Stuff(s) \in Nat
        /\ hold[h] \in Nat /\ cash[C] \in Nat /\ Solvent
    BY Sorts, StartFacts, Amounts, StuffTyped
  <1>2. doing[h].at = "debit" /\ doing[h].verb = "buy"
    BY <1>1, StartFacts DEF Debited, KindOf
  <1>3. Under(h) = 0 /\ Gained(h) = 0 /\ Yielded(h) = 0
    BY <1>2 DEF Under, Gained, Gains, Yielded, Yields
  <1>4. CASE Refused(h)
    BY <1>2, <1>4, RefusedHonest
  <1>5. cash' = [cash EXCEPT ![C] = @ - n] =>
          cash'[C] = cash[C] - n /\ \A v \in Users \ {C} : cash'[v] = cash[v]
    BY <1>1 DEF Solvent
  <1>6. CASE /\ Affordable(h) /\ p = Hub
             /\ cash' = [cash EXCEPT ![C] = @ - n] /\ hold' = Loaded(h, n)
             /\ queue' = Released(p, TRUE) /\ Ends(h)
             /\ UNCHANGED <<live, row, aboard, planets, missed, history>>
    <2>1. doing'[h] = Idle /\ UNCHANGED <<live, planets, issued, missed>>
      BY <1>1, <1>6, StartFacts DEF Ends, Waits, history
    <2>2. Under(h)' = 0 /\ Gained(h)' = 0 /\ Yielded(h)' = 0
      BY <2>1 DEF Under, Gained, Gains, Yielded, Yields, Idle
    <2>3. hold'[h] <= hold[h] + n /\ hold'[h] \in Int /\ \A g \in Hulls \ {h} : hold'[g] = hold[g]
      BY <1>1, <1>6, LoadedFacts
    <2> HIDE DEF n, t, C, s
    <2>4. Stuff(live'[p]) + hold'[h] + cash'[C] + Under(h)' <= Stuff(s) + hold[h] + cash[C] + Under(h)
      BY <1>1, <1>3, <1>5, <1>6, <2>1, <2>2, <2>3 DEF s
    <2> QED BY <1>1, <1>3, <1>5, <1>6, <2>1, <2>2, <2>3, <2>4, SameOwnerHonest DEF s, C
  <1>7. CASE /\ Affordable(h) /\ p # Hub
             /\ cash' = [cash EXCEPT ![C] = @ - n]
             /\ Saves(h, p, t)
             /\ UNCHANGED <<row, queue, hold, aboard, planets, missed, history>>
    <2>1. s.qty >= n
      BY <1>1, <1>2, <1>7, StartFacts DEF TrueFor
    <2>2. t \in Stocked /\ Stuff(t) = Stuff(s) /\ t.owner = s.owner
      BY <1>1, <2>1, SoldFacts
    <2>3. Saves(h, p, t) /\ UNCHANGED <<hold, planets, missed, issued>> /\ cash' = [cash EXCEPT ![C] = @ - n]
      BY <1>7 DEF history
    <2> HIDE DEF t, s
    <2>4. live'[p] = t /\ doing'[h].at = "write" /\ doing'[h].verb = "buy" /\ doing'[h].n = n
      BY <1>2, <2>2, <2>3, Saved
    <2>5. Under(h)' = n /\ Gained(h)' = 0 /\ Yielded(h)' = 0
      BY <2>4 DEF Under, Gained, Gains, Yielded, Yields
    <2> HIDE DEF n, C
    <2>6. Stuff(live'[p]) + hold'[h] + cash'[C] + Under(h)' <= Stuff(s) + hold[h] + cash[C] + Under(h)
      BY <1>1, <1>3, <1>5, <2>2, <2>3, <2>4, <2>5
    <2> QED BY <1>1, <1>3, <1>5, <2>2, <2>3, <2>4, <2>5, <2>6, SameOwnerHonest DEF s, C
  <1> QED BY <1>4, <1>6, <1>7 DEF Debited

LEMMA SellHonest ==
    ASSUME Start, NEW h \in Hulls, NEW p \in Planets, p = doing[h].planet, Sell(h)
    PROVE  Honest(h, p)
  <1> DEFINE n == doing[h].n
             C == Captain[h]
  <1>1. /\ h \in Actors /\ C \in Users /\ n \in Nat /\ Stuff(live[p]) \in Nat /\ doing[h] \in Command
        /\ hold[h] \in Nat /\ cash[C] \in Nat /\ Solvent
    BY Sorts, StartFacts, Amounts, StuffTyped
  <1>2. doing[h].at = "queued" /\ doing[h].verb = "sell"
    BY DEF Sell, Turn
  <1>3. Under(h) = 0 /\ Gained(h) = 0 /\ Yielded(h) = 0
    BY <1>2 DEF Under, Gained, Gains, Yielded, Yields
  <1>4. CASE Refused(h)
    BY <1>2, <1>4, RefusedHonest
  <1>5. CASE ~Refused(h)
    <2>1. /\ h \in aboard /\ hold[h] >= n /\ hold' = Loaded(h, -n)
          /\ UNCHANGED <<live, cash, planets, missed, issued>>
      BY <1>5 DEF Sell, purses, history
    <2>2. PICK credit \in Proceeds(n) :
            doing' = [doing EXCEPT ![h] = [doing[h] EXCEPT !.at = "credit", !.n = credit]]
      BY <1>5 DEF Sell, Waits
    <2>3. credit \in Nat /\ credit <= n
      BY <1>1 DEF Proceeds
    <2>4. doing'[h].at = "credit" /\ doing'[h].verb = "sell" /\ doing'[h].n = credit
      BY <1>1, <1>2, <2>2, <2>3, StartFacts DEF Command
    <2>5. Under(h)' = credit /\ Gained(h)' = 0 /\ Yielded(h)' = 0
      BY <2>4 DEF Under, Gained, Gains, Yielded, Yields
    <2>6. -n \in Int
      BY <1>1
    <2>7. hold'[h] = hold[h] - n /\ \A g \in Hulls \ {h} : hold'[g] = hold[g]
      BY <1>1, <2>1, <2>6, LoadedFacts
    <2> HIDE DEF n, C
    <2>8. Stuff(live'[p]) + hold'[h] + cash'[C] + Under(h)' <= Stuff(live[p]) + hold[h] + cash[C] + Under(h)
      BY <1>1, <1>3, <2>1, <2>3, <2>5, <2>7
    <2> QED BY <1>1, <1>3, <2>1, <2>5, <2>7, <2>8, SameOwnerHonest DEF C
  <1> QED BY <1>4, <1>5

LEMMA CreditedHonest ==
    ASSUME Start, NEW h \in Hulls, NEW p \in Planets, p = doing[h].planet,
           NEW ok \in BOOLEAN, Credited(h, ok)
    PROVE  Honest(h, p)
  <1> DEFINE n == doing[h].n
             C == Captain[h]
  <1>1. /\ h \in Actors /\ C \in Users /\ n \in Nat /\ Stuff(live[p]) \in Nat
        /\ hold[h] \in Nat /\ cash[C] \in Nat /\ Solvent
    BY Sorts, StartFacts, Amounts, StuffTyped
  <1>2. doing[h].at = "credit" /\ doing'[h] = Idle /\ UNCHANGED <<live, hold, planets, missed, issued>>
    BY <1>1, StartFacts DEF Credited, Ends, Waits, history
  <1>3. Under(h) = n /\ Gained(h) = 0 /\ Yielded(h) = 0
    BY <1>2 DEF Under, Gained, Gains, Yielded, Yields
  <1>4. Under(h)' = 0 /\ Gained(h)' = 0 /\ Yielded(h)' = 0
    BY <1>2 DEF Under, Gained, Gains, Yielded, Yields, Idle
  <1>5. cash'[C] <= cash[C] + n /\ cash'[C] \in Int /\ \A v \in Users \ {C} : cash'[v] = cash[v]
    BY <1>1 DEF Credited, Solvent
  <1> HIDE DEF n, C
  <1>6. Stuff(live'[p]) + hold'[h] + cash'[C] + Under(h)' <= Stuff(live[p]) + hold[h] + cash[C] + Under(h)
    BY <1>1, <1>2, <1>3, <1>4, <1>5
  <1> QED BY <1>1, <1>2, <1>3, <1>4, <1>5, <1>6, SameOwnerHonest DEF C


\* The planet changes hands or not; the account's counter is to follow.
LEMMA FoughtHonest ==
    ASSUME Start, NEW h \in Hulls, NEW p \in Planets, p = doing[h].planet, NEW s \in Stocked,
           doing[h].verb = "attack", doing[h].at \in {"queued", "mail"}, NEW won \in BOOLEAN,
           Fought(h, p, s, won) \/ (live' = [live EXCEPT ![p] = s] /\ doing'[h].at = "mail"),
           s.owner = live[p].owner, \A g \in Hulls \ {h} : hold'[g] = hold[g],
           hold'[h] \in Int, Stuff(s) + hold'[h] <= Stuff(live[p]) + hold[h],
           UNCHANGED <<cash, planets, issued, missed>>
    PROVE  Honest(h, p)
  <1> DEFINE C == Captain[h]
  <1>1. /\ h \in Actors /\ C \in Users /\ C \in Owners /\ Stuff(s) \in Nat /\ Stuff(live[p]) \in Nat
        /\ hold[h] \in Nat /\ cash[C] \in Nat /\ planets[C] \in Nat /\ doing[h] \in Command /\ p # Hub
    BY Sorts, StartFacts, Amounts, StuffTyped DEF KindOf
  <1>2. Under(h) = 0 /\ Gained(h) = 0 /\ Yielded(h) = 0
    BY DEF Under, Gained, Gains, Yielded, Yields
  <1>3. CASE Fought(h, p, s, won) /\ won
    <2> DEFINE t == [s EXCEPT !.owner = C]
    <2>1. /\ live' = [live EXCEPT ![p] = t]
          /\ doing' = [doing EXCEPT ![h] = [doing[h] EXCEPT !.at = "count", !.seen = 1]]
      BY <1>3 DEF Fought, Waits
    <2>2. t \in Stocked /\ Stuff(t) = Stuff(s) /\ t.owner = C
      BY <1>1, OwnerTurns
    <2> HIDE DEF t
    <2>3. live'[p] = t
      BY <1>1, <2>1, StartFacts
    <2> DEFINE op == [doing[h] EXCEPT !.at = "count"]
    <2>4. op \in Command /\ op.at = "count" /\ op.verb = "attack"
      <3>1. op \in Command
        BY <1>1, Goes
      <3> QED BY <1>1, <3>1 DEF Command
    <2>5. doing' = [doing EXCEPT ![h] = [op EXCEPT !.seen = 1]]
      BY <2>1
    <2> HIDE DEF op
    <2>6. doing'[h].at = "count" /\ doing'[h].verb = "attack"
      BY <1>1, <2>4, <2>5, StartFacts DEF Command
    <2>7. Under(h)' = 0 /\ Gained(h)' = 1 /\ Yielded(h)' = 0
      BY <2>6 DEF Under, Gained, Gains, Yielded, Yields
    <2> HIDE DEF C
    <2>8. Stuff(live'[p]) + hold'[h] + cash'[C] + Under(h)' <= Stuff(live[p]) + hold[h] + cash[C] + Under(h)
      BY <1>1, <1>2, <2>2, <2>3, <2>7
    <2>9. Mine(h, p) \in {0, 1} /\ Mine(h, p)' \in {0, 1}
      BY DEF Mine
    <2>10. Room(h, p) <= Room(h, p)'
      BY <1>1, <1>2, <2>7, <2>9 DEF Room, C
    <2> QED BY <1>1, <2>2, <2>3, <2>8, <2>10 DEF Honest, C
  <1>4. CASE \/ Fought(h, p, s, won) /\ ~won
             \/ live' = [live EXCEPT ![p] = s] /\ doing'[h].at = "mail"
    <2>1. live'[p] = s /\ (doing'[h].at = "mail" \/ (doing'[h].at = "write" /\ doing'[h].verb = "attack"))
      <3>1. CASE Fought(h, p, s, won) /\ ~won
        <4>1. Saves(h, p, s)
          BY <3>1 DEF Fought
        <4> QED BY <4>1, Saved
      <3>2. CASE live' = [live EXCEPT ![p] = s] /\ doing'[h].at = "mail"
        BY <1>1, <3>2, StartFacts
      <3> QED BY <1>4, <3>1, <3>2
    <2>2. Under(h)' = 0 /\ Gained(h)' = 0 /\ Yielded(h)' = 0
      BY <2>1 DEF Under, Gained, Gains, Yielded, Yields
    <2> HIDE DEF C
    <2>3. Stuff(live'[p]) + hold'[h] + cash'[C] + Under(h)' <= Stuff(live[p]) + hold[h] + cash[C] + Under(h)
      BY <1>1, <1>2, <2>1, <2>2
    <2> QED BY <1>2, <2>1, <2>2, <2>3, SameOwnerHonest DEF C
  <1> QED BY <1>3, <1>4

LEMMA AttackHonest ==
    ASSUME Start, NEW h \in Hulls, NEW p \in Planets, p = doing[h].planet, Attack(h)
    PROVE  Honest(h, p)
  <1> DEFINE n == doing[h].n
  <1>1. /\ h \in Actors /\ Solvent /\ n \in Nat /\ live[p] \in Stocked /\ live[p].qty \in Nat
        /\ hold[h] \in Nat /\ Stuff(live[p]) \in Nat /\ doing[h] \in Command
    BY Sorts, StartFacts, Amounts, StuffTyped
  <1>2. doing[h].at = "queued" /\ doing[h].verb = "attack"
    BY DEF Attack, Turn
  <1>3. CASE Refused(h)
    BY <1>2, <1>3, RefusedHonest
  <1>4. CASE ~Refused(h)
    <2>1. hold[h] >= n /\ UNCHANGED <<cash, planets, issued, missed>>
      BY <1>4 DEF Attack, purses, history
    <2>2. PICK o \in Battle(n, live[p].qty) :
            LET s == [live[p] EXCEPT !.qty = o.left] IN
            /\ hold' = Loaded(h, o.back - n)
            /\ \/ Fought(h, p, s, o.won)
               \/ /\ CallsForHelp(p)
                  /\ live' = [live EXCEPT ![p] = s]
                  /\ Waits(h, [doing[h] EXCEPT !.at = "mail", !.seen = IF o.won THEN 1 ELSE 0])
      BY <1>4 DEF Attack
    <2>3. /\ o.back \in Nat /\ o.back <= n /\ o.left \in Nat /\ o.left <= live[p].qty /\ o.won \in BOOLEAN
          /\ o.back - n \in Int
      BY <1>1, BattleFacts
    <2> DEFINE s == [live[p] EXCEPT !.qty = o.left]
               i == IF o.won THEN 1 ELSE 0
               op == [doing[h] EXCEPT !.at = "mail"]
    <2>4. s \in Stocked /\ Stuff(s) = Stuff(live[p]) - live[p].qty + o.left /\ s.owner = live[p].owner
      BY <1>1, <2>3, GoodsSet
    <2>5. hold' = Loaded(h, o.back - n)
      BY <2>2
    <2>6. /\ hold'[h] \in Int /\ hold'[h] <= hold[h]
          /\ \A g \in Hulls \ {h} : hold'[g] = hold[g]
      <3>1. /\ hold'[h] = IF h \in aboard THEN hold[h] + (o.back - n) ELSE hold[h]
            /\ \A g \in Hulls \ {h} : hold'[g] = hold[g]
        BY <1>1, <2>3, <2>5, LoadedFacts
      <3> QED BY <1>1, <2>3, <3>1
    <2>7. op \in Command /\ op.at = "mail" /\ i \in Int
      <3>1. op \in Command
        BY <1>1, Goes
      <3> QED BY <1>1, <3>1 DEF Command
    <2>8. \/ Fought(h, p, s, o.won)
          \/ live' = [live EXCEPT ![p] = s] /\ doing' = [doing EXCEPT ![h] = [op EXCEPT !.seen = i]]
      BY <2>2 DEF Waits
    <2> HIDE DEF s, i, op
    <2>9. \/ Fought(h, p, s, o.won)
          \/ live' = [live EXCEPT ![p] = s] /\ doing'[h].at = "mail"
      BY <1>1, <2>7, <2>8, StartFacts DEF Command
    <2> DEFINE won == o.won
    <2>10. won \in BOOLEAN /\ (Fought(h, p, s, won) \/ (live' = [live EXCEPT ![p] = s] /\ doing'[h].at = "mail"))
      BY <2>3, <2>9
    <2> HIDE DEF won
    <2>11. Stuff(s) + hold'[h] <= Stuff(live[p]) + hold[h]
      BY <1>1, <2>3, <2>4, <2>6
    <2> QED BY <1>2, <2>1, <2>4, <2>6, <2>10, <2>11, FoughtHonest
  <1> QED BY <1>3, <1>4

LEMMA MailedHonest ==
    ASSUME Start, NEW h \in Hulls, NEW p \in Planets, p = doing[h].planet, Mailed(h)
    PROVE  Honest(h, p)
  <1>1. /\ h \in Actors /\ Solvent /\ live[p] \in Stocked /\ doing[h].at = "mail" /\ doing[h].verb = "attack"
        /\ hold[h] \in Nat /\ Stuff(live[p]) \in Nat
    BY Sorts, StartFacts, Amounts, StuffTyped DEF Mailed, KindOf
  <1>2. UNCHANGED <<hold, cash, planets, issued, missed>> /\ Fought(h, p, live[p], doing[h].seen = 1)
    BY DEF Mailed, purses, history
  <1> DEFINE won == doing[h].seen = 1
  <1>3. won \in BOOLEAN /\ Fought(h, p, live[p], won)
    BY <1>2
  <1> HIDE DEF won
  <1> QED BY <1>1, <1>2, <1>3, FoughtHonest

LEMMA WrittenHonest ==
    ASSUME Start, NEW h \in Hulls, NEW p \in Planets, p = doing[h].planet,
           NEW ok \in BOOLEAN, Written(h, ok)
    PROVE  Honest(h, p)
  <1> DEFINE n == doing[h].n
             C == Captain[h]
             op == doing[h]
  <1>1. /\ h \in Actors /\ C \in Users /\ n \in Nat /\ Stuff(live[p]) \in Nat /\ op \in Command
        /\ hold[h] \in Nat /\ cash[C] \in Nat /\ planets[C] \in Nat /\ Solvent /\ op.at = "write"
    BY Sorts, StartFacts, Amounts, StuffTyped DEF Written
  <1>2. UNCHANGED <<live, cash, planets, issued>> /\ missed \subseteq missed'
    BY DEF Written
  <1>3. /\ hold'[h] \in Int /\ hold'[h] <= hold[h] + (IF ok /\ op.verb \in {"buy", "up"} THEN n ELSE 0)
        /\ \A g \in Hulls \ {h} : hold'[g] = hold[g]
    <2>1. CASE ok /\ op.verb \in {"buy", "up"}
      <3>1. hold' = Loaded(h, n) /\ n \in Int
        BY <1>1, <2>1 DEF Written
      <3>2. /\ hold'[h] = IF h \in aboard THEN hold[h] + n ELSE hold[h]
            /\ \A g \in Hulls \ {h} : hold'[g] = hold[g]
        BY <1>1, <3>1, LoadedFacts
      <3> QED BY <1>1, <2>1, <3>2
    <2>2. CASE ~ (ok /\ op.verb \in {"buy", "up"})
      <3>1. hold' = hold
        BY <2>2 DEF Written
      <3> QED BY <1>1, <2>2, <3>1
    <2> QED BY <2>1, <2>2
  <1>4. \/ /\ ok /\ op.verb \in {"claim", "abandon"}
           /\ doing'[h].at = "count" /\ doing'[h].verb = op.verb
        \/ /\ ok /\ op.verb = "withdraw" /\ doing'[h].at = "credit" /\ doing'[h].n = n
           /\ doing'[h].verb = op.verb
        \/ /\ ~ok \/ op.verb \notin {"claim", "abandon", "withdraw"}
           /\ doing'[h] = Idle
    <2>1. /\ [op EXCEPT !.at = "count"].at = "count" /\ [op EXCEPT !.at = "count"].verb = op.verb
          /\ [op EXCEPT !.at = "credit"].at = "credit" /\ [op EXCEPT !.at = "credit"].verb = op.verb
          /\ [op EXCEPT !.at = "credit"].n = n
      BY <1>1 DEF Command
    <2>2. \A next : doing' = [doing EXCEPT ![h] = next] => doing'[h] = next
      BY <1>1, StartFacts
    <2>3. \/ ok /\ op.verb \in {"claim", "abandon"} /\ doing' = [doing EXCEPT ![h] = [op EXCEPT !.at = "count"]]
          \/ ok /\ op.verb = "withdraw" /\ doing' = [doing EXCEPT ![h] = [op EXCEPT !.at = "credit"]]
          \/ (~ok \/ op.verb \notin {"claim", "abandon", "withdraw"}) /\ doing' = [doing EXCEPT ![h] = Idle]
      BY DEF Written, Waits, Ends
    <2> QED BY <2>1, <2>2, <2>3
  <1>5. Under(h) = IF op.verb \in {"buy", "up", "withdraw"} THEN n ELSE 0
    BY <1>1 DEF Under
  <1>6. Under(h)' = IF ok /\ op.verb = "withdraw" THEN n ELSE 0
    BY <1>4 DEF Under, Idle
  <1> HIDE DEF n
  <1>7. Stuff(live'[p]) + hold'[h] + cash'[C] + Under(h)' <= Stuff(live[p]) + hold[h] + cash[C] + Under(h)
    <2>1. /\ Stuff(live'[p]) = Stuff(live[p]) /\ cash'[C] = cash[C]
          /\ hold'[h] + Under(h)' <= hold[h] + Under(h) /\ Under(h) \in Nat /\ Under(h)' \in Nat
      BY <1>1, <1>2, <1>3, <1>5, <1>6
    <2> HIDE DEF C
    <2> QED BY <1>1, <1>3, <2>1
  <1>8. C \notin missed' => Gained(h)' = Gained(h)
    <2>1. ~ok /\ op.verb = "claim" => C \in missed'
      BY DEF Written
    <2> QED BY <1>1, <1>4, <2>1 DEF Gained, Gains, Idle
  <1>9. Yielded(h)' <= Yielded(h)
    BY <1>1, <1>4 DEF Yielded, Yields, Idle
  <1>10. /\ Gained(h) \in {0, 1} /\ Yielded(h) \in {0, 1} /\ Mine(h, p) \in {0, 1}
         /\ Gained(h)' \in {0, 1} /\ Yielded(h)' \in {0, 1} /\ Mine(h, p)' = Mine(h, p)
    BY <1>2 DEF Gained, Yielded, Mine
  <1>11. C \notin missed' => Room(h, p) <= Room(h, p)'
    BY <1>1, <1>2, <1>8, <1>9, <1>10 DEF Room
  <1> QED BY <1>2, <1>3, <1>7, <1>11 DEF Honest

LEMMA CountedHonest ==
    ASSUME Start, NEW h \in Hulls, NEW p \in Planets, p = doing[h].planet,
           NEW ok \in BOOLEAN, Counted(h, ok)
    PROVE  Honest(h, p)
  <1> DEFINE C == Captain[h]
             op == doing[h]
  <1>1. /\ h \in Actors /\ C \in Users /\ Stuff(live[p]) \in Nat /\ op \in Command /\ live[p] \in Stocked
        /\ hold[h] \in Nat /\ cash[C] \in Nat /\ planets[C] \in Nat /\ Solvent /\ op.at = "count"
        /\ op.verb \in {"claim", "abandon", "attack"}
    BY Sorts, StartFacts, Amounts, StuffTyped DEF Counted, KindOf
  <1>2. UNCHANGED <<hold, cash, issued>> /\ missed \subseteq missed'
    BY DEF Counted
  <1>3. live'[p] = live[p] /\ (doing'[h] = Idle \/ (doing'[h].at = "write" /\ doing'[h].verb = "attack"))
    <2>1. CASE ok /\ op.verb = "attack"
      <3>1. Saves(h, p, live[p])
        BY <2>1 DEF Counted
      <3> QED BY <1>1, <2>1, <3>1, Saved
    <2>2. CASE ~ (ok /\ op.verb = "attack")
      <3>1. doing' = [doing EXCEPT ![h] = Idle] /\ live' = live
        BY <2>2 DEF Counted, Ends, Waits
      <3>2. doing'[h] = Idle
        BY <1>1, <3>1, StartFacts
      <3> QED BY <3>1, <3>2
    <2> QED BY <2>1, <2>2
  <1>4. Under(h) = 0 /\ Yielded(h) = IF op.verb = "abandon" THEN 1 ELSE 0
    BY <1>1 DEF Under, Yielded, Yields
  <1>5. Gained(h) = IF op.verb = "abandon" THEN 0 ELSE 1
    BY <1>1 DEF Gained, Gains
  <1>6. Under(h)' = 0 /\ Gained(h)' = 0 /\ Yielded(h)' = 0
    BY <1>3 DEF Under, Gained, Gains, Yielded, Yields, Idle
  <1>7. /\ planets'[C] = IF ok THEN Counter(h) ELSE planets[C]
        /\ \A v \in Users \ {C} : planets'[v] = planets[v]
    BY <1>1 DEF Counted, Solvent
  <1>8. C \notin missed' => planets[C] + Gained(h) - Yielded(h) <= planets'[C] /\ planets'[C] \in Int
    <2>1. ~ok /\ op.verb # "abandon" => C \in missed'
      BY DEF Counted
    <2>2. Counter(h) = IF op.verb = "abandon" THEN IF planets[C] > 0 THEN planets[C] - 1 ELSE 0
                       ELSE planets[C] + 1
      BY DEF Counter
    <2> HIDE DEF C
    <2> QED BY <1>1, <1>4, <1>5, <1>7, <2>1, <2>2
  <1>9. Mine(h, p) \in {0, 1} /\ Mine(h, p)' = Mine(h, p)
    BY <1>3 DEF Mine
  <1>10. C \notin missed' => Room(h, p) <= Room(h, p)'
    BY <1>1, <1>4, <1>5, <1>6, <1>8, <1>9 DEF Room
  <1>11. Stuff(live'[p]) + hold'[h] + cash'[C] + Under(h)' <= Stuff(live[p]) + hold[h] + cash[C] + Under(h)
    BY <1>1, <1>2, <1>3, <1>4, <1>6
  <1> QED BY <1>2, <1>3, <1>7, <1>10, <1>11 DEF Honest

\* A command of a hull, whichever it is.
LEMMA CommandHonest ==
    ASSUME Start, HubIsFree, NEW h \in Hulls, NEW p \in Planets, p = doing[h].planet, Ask(h) \/ Resumed(h)
    PROVE  Honest(h, p)
  <1>1. h \notin Clocks
    BY Sorts
  <1>2. CASE Ask(h) \/ Purse(h)
    BY <1>2, AskHonest
  <1>3. CASE Section(h) \/ Debited(h) \/ Mailed(h)
    BY <1>3, BuyHonest, SellHonest, SectionsHonest, AttackHonest, DebitedHonest, MailedHonest DEF Section
  <1>4. CASE \E ok \in BOOLEAN : Written(h, ok) \/ Counted(h, ok) \/ Credited(h, ok)
    BY <1>4, WrittenHonest, CountedHonest, CreditedHonest
  <1> QED BY <1>1, <1>2, <1>3, <1>4 DEF Resumed


-----------------------------------------------------------------------------
(* Every step is honest.                                                   *)

\* Two sets that differ in one element at most.
LEMMA CardChanges ==
    ASSUME NEW S, NEW T, NEW a, IsFiniteSet(S), S \ {a} = T \ {a}
    PROVE  /\ IsFiniteSet(T) /\ Cardinality(S) \in Nat /\ Cardinality(T) \in Nat
           /\ Cardinality(T) = Cardinality(S) + (IF a \in T THEN 1 ELSE 0) - (IF a \in S THEN 1 ELSE 0)
  <1>1. IsFiniteSet(S \ {a})
    BY FS_Subset
  <1>2. IsFiniteSet(T)
    <2>1. T = S \ {a} \/ T = (S \ {a}) \cup {a}
      OBVIOUS
    <2> QED BY <1>1, <2>1, FS_AddElement
  <1>3. Cardinality(S) \in Nat /\ Cardinality(T) \in Nat /\ Cardinality(S \ {a}) \in Nat
    BY <1>1, <1>2, FS_CardinalityType
  <1>4. \A U : IsFiniteSet(U) => Cardinality(U \ {a}) = IF a \in U THEN Cardinality(U) - 1 ELSE Cardinality(U)
    <2> SUFFICES ASSUME NEW U, IsFiniteSet(U)
                 PROVE  Cardinality(U \ {a}) = IF a \in U THEN Cardinality(U) - 1 ELSE Cardinality(U)
      OBVIOUS
    <2>1. a \notin U => U \ {a} = U
      OBVIOUS
    <2> QED BY <2>1, FS_RemoveElement
  <1> QED BY <1>2, <1>3, <1>4

LEMMA Sizes ==
    ASSUME NEW u \in Users
    PROVE  /\ IsFiniteSet(Own(u)) /\ IsFiniteSet(Coming(u)) /\ IsFiniteSet(Leaving(u))
           /\ Cardinality(Own(u)) \in Nat /\ Cardinality(Coming(u)) \in Nat /\ Cardinality(Leaving(u)) \in Nat
           /\ OwnedBy(u) = Cardinality(Own(u)) /\ OwnedNow(u) = Cardinality(Own(u))
  <1>1. IsFiniteSet(Own(u)) /\ IsFiniteSet(Coming(u)) /\ IsFiniteSet(Leaving(u))
    <2>1. Own(u) \subseteq Colonies /\ Coming(u) \subseteq Hulls /\ Leaving(u) \subseteq Hulls
      BY DEF Own, Coming, Leaving
    <2> QED BY <2>1, FiniteAssumption, FS_Subset
  <1>2. OwnedBy(u) = Cardinality(Own(u)) /\ OwnedNow(u) = Cardinality(Own(u))
    BY DEF OwnedBy, OwnedNow, Own
  <1> QED BY <1>1, <1>2, FS_CardinalityType

\* An account that no claim and no conquest of its own is about.
LEMMA OthersKeep ==
    ASSUME Start, CountersCover, NEW u \in Users, planets'[u] = planets[u], missed \subseteq missed',
           \A h \in Hulls : Captain[h] = u => doing'[h] = doing[h],
           \A q \in Colonies : live'[q].owner = u => live[q].owner = u
    PROVE  /\ u \notin missed' =>
                Cardinality(Own(u))' + Cardinality(Leaving(u))' <= planets'[u] + Cardinality(Coming(u))'
           /\ OwnedNow(u)' <= OwnedNow(u)
  <1>1. Coming(u)' = Coming(u) /\ Leaving(u)' = Leaving(u)
    BY DEF Coming, Leaving, Gains, Yields
  <1>2. Own(u)' \subseteq Own(u)
    BY DEF Own
  <1>3. Cardinality(Own(u)') <= Cardinality(Own(u)) /\ Cardinality(Own(u)') \in Nat
    BY <1>2, Sizes, FS_Subset, FS_CardinalityType
  <1>4. OwnedNow(u)' = Cardinality(Own(u)') /\ OwnedNow(u) = Cardinality(Own(u))
    BY DEF OwnedNow, Own
  <1>5. planets[u] \in Nat
    BY DEF Start, TypeOK
  <1>6. u \notin missed' => Cardinality(Own(u)) + Cardinality(Leaving(u)) <= planets[u] + Cardinality(Coming(u))
    BY DEF CountersCover
  <1>7. Cardinality(Leaving(u))' = Cardinality(Leaving(u)) /\ Cardinality(Coming(u))' = Cardinality(Coming(u))
    BY <1>1
  <1> QED BY <1>3, <1>4, <1>5, <1>6, <1>7, Sizes

\* What holds after a step, and of a step.
Kept ==
    /\ HubIsFree' /\ CountersCover' /\ NothingForNothing'
    /\ \A u \in Users :
          OwnedNow(u)' > OwnedNow(u) /\ OwnedNow(u)' > MaxPlanets =>
            \E h \in Hulls : Captain[h] = u /\ doing[h].verb = "attack"

LEMMA HullKeeps ==
    ASSUME Start, HubIsFree, CountersCover, NothingForNothing,
           NEW h \in Hulls, NEW p \in Planets, p = doing[h].planet, Fine(h), Honest(h, p)
    PROVE  Kept
  <1> DEFINE C == Captain[h]
  <1>1. /\ h \in Actors /\ C \in Users /\ C # Nobody /\ C # Free
        /\ live \in [Planets -> Stocked] /\ doing \in [Actors -> Command] /\ Solvent
    BY Sorts, StartFacts, OwnersAssumption
  <1>2. /\ live' \in [Planets -> Stocked] /\ doing' \in [Actors -> Command] /\ Solvent'
        /\ \A g \in Hulls \ {h} : doing'[g] = doing[g]
        /\ \A q \in Planets \ {p} : live'[q] = live[q]
    BY Sorts DEF Fine, Local, Moves
  <1>3. HubIsFree'
    BY <1>2, Sorts DEF HubIsFree, Honest
  <1>4. NothingForNothing'
    <2>1. Worth' = Worth + (Stuff(live'[p]) - Stuff(live[p])) + (hold'[h] - hold[h])
                         + (cash'[C] - cash[C]) + (Under(h)' - Under(h))
      BY <1>1, <1>2, WorthChanges DEF Honest
    <2>2. /\ Worth \in Int /\ hold[h] \in Int /\ hold'[h] \in Int /\ cash[C] \in Int /\ cash'[C] \in Int
          /\ issued \in Int
      BY <1>1, <1>2, WorthIsNat DEF Solvent
    <2>3. Stuff(live[p]) \in Int /\ Stuff(live'[p]) \in Int
      BY <1>1, <1>2, StuffTyped
    <2>4. Under(h) \in Int /\ Under(h)' \in Int
      BY <1>1, <1>2 DEF Under, Command
    <2>5. /\ Stuff(live'[p]) + hold'[h] + cash'[C] + Under(h)' <= Stuff(live[p]) + hold[h] + cash[C] + Under(h)
          /\ issued' = issued /\ Worth <= issued
      BY DEF Honest, NothingForNothing
    <2> HIDE DEF C
    <2>6. Worth' <= issued'
      BY <2>1, <2>2, <2>3, <2>4, <2>5
    <2> QED BY <2>6 DEF NothingForNothing
  <1>5. ASSUME NEW u \in Users, u # C
        PROVE  /\ u \notin missed' =>
                    Cardinality(Own(u))' + Cardinality(Leaving(u))' <= planets'[u] + Cardinality(Coming(u))'
               /\ OwnedNow(u)' <= OwnedNow(u)
    <2>1. planets'[u] = planets[u] /\ missed \subseteq missed'
      BY <1>5 DEF Honest
    <2>2. \A g \in Hulls : Captain[g] = u => doing'[g] = doing[g]
      BY <1>2, <1>5
    <2>3. \A q \in Colonies : live'[q].owner = u => live[q].owner = u
      BY <1>2, <1>5, Sorts, OwnersAssumption DEF Honest
    <2> QED BY <2>1, <2>2, <2>3, OthersKeep
  <1>6. /\ Cardinality(Own(C))' = Cardinality(Own(C)) + Mine(h, p)' - Mine(h, p)
        /\ Cardinality(Own(C))' \in Nat
    <2>1. Own(C) \ {p} = Own(C)' \ {p}
      BY <1>2, Sorts DEF Own
    <2>2. Mine(h, p) = (IF p \in Own(C) THEN 1 ELSE 0) /\ Mine(h, p)' = (IF p \in Own(C)' THEN 1 ELSE 0)
      BY DEF Mine, Own
    <2> DEFINE S == Own(C)
               T == Own(C)'
    <2>3. IsFiniteSet(S) /\ S \ {p} = T \ {p}
      BY <1>1, <2>1, Sizes
    <2> HIDE DEF S, T
    <2>4. /\ Cardinality(T) = Cardinality(S) + (IF p \in T THEN 1 ELSE 0) - (IF p \in S THEN 1 ELSE 0)
          /\ Cardinality(T) \in Nat
      BY <2>3, CardChanges
    <2> QED BY <2>2, <2>4 DEF S, T
  <1>7. /\ Cardinality(Coming(C))' = Cardinality(Coming(C)) + Gained(h)' - Gained(h)
        /\ Cardinality(Coming(C))' \in Nat
    <2>1. Coming(C) \ {h} = Coming(C)' \ {h}
      BY <1>2 DEF Coming, Gains
    <2>2. Gained(h) = (IF h \in Coming(C) THEN 1 ELSE 0) /\ Gained(h)' = (IF h \in Coming(C)' THEN 1 ELSE 0)
      BY DEF Coming, Gained
    <2> DEFINE S == Coming(C)
               T == Coming(C)'
    <2>3. IsFiniteSet(S) /\ S \ {h} = T \ {h}
      BY <1>1, <2>1, Sizes
    <2> HIDE DEF S, T
    <2>4. /\ Cardinality(T) = Cardinality(S) + (IF h \in T THEN 1 ELSE 0) - (IF h \in S THEN 1 ELSE 0)
          /\ Cardinality(T) \in Nat
      BY <2>3, CardChanges
    <2> QED BY <2>2, <2>4 DEF S, T
  <1>8. /\ Cardinality(Leaving(C))' = Cardinality(Leaving(C)) + Yielded(h)' - Yielded(h)
        /\ Cardinality(Leaving(C))' \in Nat
    <2>1. Leaving(C) \ {h} = Leaving(C)' \ {h}
      BY <1>2 DEF Leaving, Yields
    <2>2. Yielded(h) = (IF h \in Leaving(C) THEN 1 ELSE 0) /\ Yielded(h)' = (IF h \in Leaving(C)' THEN 1 ELSE 0)
      BY DEF Leaving, Yielded
    <2> DEFINE S == Leaving(C)
               T == Leaving(C)'
    <2>3. IsFiniteSet(S) /\ S \ {h} = T \ {h}
      BY <1>1, <2>1, Sizes
    <2> HIDE DEF S, T
    <2>4. /\ Cardinality(T) = Cardinality(S) + (IF h \in T THEN 1 ELSE 0) - (IF h \in S THEN 1 ELSE 0)
          /\ Cardinality(T) \in Nat
      BY <2>3, CardChanges
    <2> QED BY <2>2, <2>4 DEF S, T
  <1>9. /\ Mine(h, p) \in {0, 1} /\ Mine(h, p)' \in {0, 1} /\ Gained(h) \in {0, 1} /\ Gained(h)' \in {0, 1}
        /\ Yielded(h) \in {0, 1} /\ Yielded(h)' \in {0, 1}
    BY DEF Mine, Gained, Yielded
  <1>10. planets[C] \in Nat /\ planets'[C] \in Nat
    BY <1>1, <1>2 DEF Solvent
  <1>11. C \notin missed' =>
           Cardinality(Own(C))' + Cardinality(Leaving(C))' <= planets'[C] + Cardinality(Coming(C))'
    <2> SUFFICES ASSUME C \notin missed'
                 PROVE  Cardinality(Own(C))' + Cardinality(Leaving(C))' <= planets'[C] + Cardinality(Coming(C))'
      OBVIOUS
    <2>1. Cardinality(Own(C)) + Cardinality(Leaving(C)) <= planets[C] + Cardinality(Coming(C))
      BY <1>1 DEF CountersCover, Honest
    <2>2. planets[C] + Gained(h) - Yielded(h) - Mine(h, p)
            <= planets'[C] + Gained(h)' - Yielded(h)' - Mine(h, p)'
      BY DEF Honest, Room
    <2>3. Cardinality(Own(C)) \in Nat /\ Cardinality(Coming(C)) \in Nat /\ Cardinality(Leaving(C)) \in Nat
      BY <1>1, Sizes
    <2> HIDE DEF C
    <2> QED BY <1>6, <1>7, <1>8, <1>9, <1>10, <2>1, <2>2, <2>3
  <1>12. CountersCover'
    BY <1>5, <1>11 DEF CountersCover
  <1>13. ASSUME NEW u \in Users, OwnedNow(u)' > OwnedNow(u), OwnedNow(u)' > MaxPlanets
         PROVE  \E g \in Hulls : Captain[g] = u /\ doing[g].verb = "attack"
    <2>1. OwnedNow(u) \in Nat /\ OwnedNow(u)' \in Nat
      <3>1. OwnedNow(u)' = Cardinality(Own(u)') /\ IsFiniteSet(Own(u)')
        <4>1. Own(u)' \subseteq Colonies
          BY DEF Own
        <4> QED BY <4>1, FiniteAssumption, FS_Subset DEF OwnedNow, Own
      <3> QED BY <3>1, Sizes, FS_CardinalityType
    <2>2. u = C
      BY <1>5, <1>13, <2>1
    <2>3. OwnedNow(u) = Cardinality(Own(C)) /\ OwnedNow(u)' = Cardinality(Own(C))' /\ OwnedBy(C) = Cardinality(Own(C))
      BY <2>2 DEF OwnedNow, OwnedBy, Own
    <2>4. OwnedNow(u)' = OwnedNow(u) + 1 /\ Mine(h, p)' = 1 /\ Mine(h, p) = 0
      BY <1>6, <1>9, <1>13, <2>1, <2>3
    <2>5. live'[p].owner = C /\ live[p].owner # C
      BY <2>4 DEF Mine
    <2>6. doing[h].verb = "attack" \/ OwnedBy(C) < MaxPlanets
      BY <1>1, <2>5 DEF Honest
    <2>7. ~ (OwnedBy(C) < MaxPlanets)
      BY <1>13, <2>1, <2>3, <2>4, PlanetsAssumption
    <2> QED BY <2>2, <2>6, <2>7
  <1> QED BY <1>3, <1>4, <1>12, <1>13 DEF Kept


\* What a sweep leaves alone, and that it says how much it brings into the game.
Dull(p) ==
    /\ UNCHANGED <<hold, cash, planets, missed>>
    /\ \A q \in Planets \ {p} : live'[q] = live[q]
    /\ live'[p].owner \in {live[p].owner, Free}
    /\ Stuff(live'[p]) - Stuff(live[p]) <= issued' - issued

LEMMA ClockDull ==
    ASSUME Start, NEW c \in Clocks, NEW p \in Planets, p = doing[c].planet, Advance(c) \/ Resumed(c)
    PROVE  Dull(p)
  <1>1. /\ c \in Actors /\ c \notin Hulls /\ live[p] \in Stocked /\ live[p] \in Planet /\ issued \in Nat
        /\ doing[c].verb \in {"none", "tick"} /\ Stuff(live[p]) \in Nat
    BY Sorts, StartFacts, StuffTyped, ActorsAssumption DEF Solvent, KindOf
  <1>2. UNCHANGED <<live, hold, cash, planets, missed, issued>> => Dull(p)
    BY <1>1 DEF Dull
  <1>3. CASE Advance(c)
    BY <1>2, <1>3 DEF Advance, purses, history
  <1>4. CASE \E ok \in BOOLEAN : Written(c, ok)
    BY <1>1, <1>2, <1>4 DEF Written
  <1>5. CASE Produce(c) /\ Refused(c)
    BY <1>2, <1>5 DEF Refused, purses, history
  <1>6. CASE Produce(c) /\ ~Refused(c)
    <2> DEFINE Made(s) == LET gain == Stuff(s) - Stuff(live[p]) IN IF gain > 0 THEN gain ELSE 0
    <2>1. UNCHANGED <<hold, cash, planets, missed>>
      BY <1>6 DEF Produce, purses
    <2>2. PICK s \in Restocked(p, UNION {UNION {Ousted(t) : t \in Unspied(g)} : g \in Grown(live[p])}) :
            issued' = issued + Made(s) /\ Saves(c, p, s)
      BY <1>6 DEF Produce
    <2>3. /\ s \in Stocked /\ s.owner \in {live[p].owner, Free}
          /\ s.tax \in {live[p].tax, live[p].tax + 1}
      BY <1>1, ProducedFacts
    <2>4. live' = [live EXCEPT ![p] = s]
      BY <2>2 DEF Saves
    <2>5. live'[p] = s /\ \A q \in Planets \ {p} : live'[q] = live[q]
      BY <1>1, <2>4, StartFacts
    <2>6. /\ s.qty \in Nat /\ s.cash \in Nat /\ s.tax \in Nat
          /\ live[p].qty \in Nat /\ live[p].cash \in Nat /\ live[p].tax \in Nat
      BY <1>1, <2>3 DEF Stocked, Planet
    <2>7. Stuff(s) - Stuff(live[p]) <= Made(s) /\ Made(s) \in Int
      BY <2>3, <2>6 DEF Stuff
    <2> HIDE DEF Made
    <2>8. Stuff(s) - Stuff(live[p]) <= issued' - issued
      BY <1>1, <2>2, <2>7
    <2> QED BY <2>1, <2>3, <2>5, <2>8 DEF Dull
  <1> QED BY <1>1, <1>3, <1>4, <1>5, <1>6 DEF Resumed

\* What a step that takes no account's planets and counts none keeps.
LEMMA CountersKeep ==
    ASSUME Start, CountersCover, UNCHANGED <<planets, missed>>,
           \A h \in Hulls : doing'[h] = doing[h],
           \A q \in Planets : live'[q].owner \in {live[q].owner, Free}
    PROVE  /\ CountersCover'
           /\ \A u \in Users : ~ (OwnedNow(u)' > OwnedNow(u))
  <1>1. ASSUME NEW u \in Users
        PROVE  /\ u \notin missed' =>
                    Cardinality(Own(u))' + Cardinality(Leaving(u))' <= planets'[u] + Cardinality(Coming(u))'
               /\ ~ (OwnedNow(u)' > OwnedNow(u))
    <2>1. \A q \in Colonies : live'[q].owner = u => live[q].owner = u
      BY Sorts, OwnersAssumption
    <2>2. OwnedNow(u)' <= OwnedNow(u)
      BY <2>1, OthersKeep
    <2>3. OwnedNow(u) \in Nat /\ OwnedNow(u)' \in Nat
      <3>1. OwnedNow(u)' = Cardinality(Own(u)') /\ IsFiniteSet(Own(u)')
        <4>1. Own(u)' \subseteq Colonies
          BY DEF Own
        <4> QED BY <4>1, FiniteAssumption, FS_Subset DEF OwnedNow, Own
      <3> QED BY <3>1, Sizes, FS_CardinalityType
    <2> QED BY <2>1, <2>2, <2>3, OthersKeep
  <1> QED BY <1>1 DEF CountersCover

LEMMA ClockKeeps ==
    ASSUME Start, HubIsFree, CountersCover, NothingForNothing,
           NEW c \in Clocks, NEW p \in Planets, p = doing[c].planet, Fine(c), Dull(p)
    PROVE  Kept
  <1>1. /\ c \in Actors /\ c \notin Hulls
        /\ live \in [Planets -> Stocked] /\ doing \in [Actors -> Command] /\ Solvent
    BY Sorts, StartFacts, ActorsAssumption
  <1>2. /\ live' \in [Planets -> Stocked] /\ doing' \in [Actors -> Command] /\ Solvent'
        /\ \A h \in Hulls : doing'[h] = doing[h]
    BY <1>1, Sorts DEF Fine, Local, Moves
  <1>3. \A q \in Planets : live'[q].owner \in {live[q].owner, Free}
    BY DEF Dull
  <1>4. HubIsFree'
    BY <1>3, Sorts DEF HubIsFree
  <1>5. CountersCover' /\ \A u \in Users : ~ (OwnedNow(u)' > OwnedNow(u))
    BY <1>2, <1>3, CountersKeep DEF Dull
  <1>6. NothingForNothing'
    <2>1. \A q \in Planets : /\ OnPlanet[q] = Stuff(live[q]) /\ OnPlanet[q] \in Int
                             /\ OnPlanet'[q] = Stuff(live'[q]) /\ OnPlanet'[q] \in Int
      BY <1>1, <1>2 DEF OnPlanet, Stuff, Stocked, Planet
    <2>2. \A q \in Planets \ {p} : OnPlanet[q] = OnPlanet'[q]
      BY <2>1 DEF Dull
    <2>3. Sum(OnPlanet', Planets) = Sum(OnPlanet, Planets) + Stuff(live'[p]) - Stuff(live[p])
      BY <2>1, <2>2, Finite, SumChanges
    <2>4. OnTheWay' = OnTheWay
      BY <1>2 DEF OnTheWay
    <2>5. /\ Worth = Sum(OnPlanet, Planets) + Sum(hold, Hulls) + Sum(cash, Users) + Sum(OnTheWay, Hulls)
          /\ Worth' = Sum(OnPlanet', Planets) + Sum(hold', Hulls) + Sum(cash', Users) + Sum(OnTheWay', Hulls)
      BY DEF Worth, Sum
    <2>6. /\ Sum(OnPlanet, Planets) \in Int /\ Sum(hold, Hulls) \in Int
          /\ Sum(cash, Users) \in Int /\ Sum(OnTheWay, Hulls) \in Int
      BY <1>1, WorthIsNat
    <2>7. Stuff(live[p]) \in Int /\ Stuff(live'[p]) \in Int /\ issued \in Int /\ issued' \in Int
      <3>1. live[p] \in Stocked /\ live'[p] \in Stocked
        BY <1>1, <1>2
      <3>2. Stuff(live[p]) \in Nat
        BY <3>1, StuffTyped
      <3>3. Stuff(live'[p]) \in Nat
        <4>1. PICK s : s = live'[p]
          OBVIOUS
        <4>2. Stuff(s) \in Nat
          BY <3>1, <4>1, StuffTyped
        <4> QED BY <4>1, <4>2 DEF Stuff
      <3>4. issued \in Nat /\ issued' \in Nat
        BY <1>1, <1>2 DEF Solvent
      <3> QED BY <3>2, <3>3, <3>4
    <2>8. Worth' = Worth + Stuff(live'[p]) - Stuff(live[p])
      BY <2>3, <2>4, <2>5, <2>6, <2>7 DEF Dull
    <2>9. Worth <= issued /\ Worth \in Int /\ Stuff(live'[p]) - Stuff(live[p]) <= issued' - issued
      BY <1>1, WorthIsNat DEF NothingForNothing, Dull
    <2>10. Worth' <= issued'
      BY <2>7, <2>8, <2>9
    <2> QED BY <2>10 DEF NothingForNothing
  <1> QED BY <1>4, <1>5, <1>6 DEF Kept

\* Cargo that goes from one hold to another stays what it was.
LEMMA HandedOver ==
    ASSUME Solvent, NEW h \in Hulls, NEW g \in Hulls, g # h, NEW n \in Nat,
           hold' = [hold EXCEPT ![h] = @ - n, ![g] = @ + n]
    PROVE  Sum(hold', Hulls) = Sum(hold, Hulls)
  <1> DEFINE f == [hold EXCEPT ![h] = @ - n]
  <1>1. hold \in [Hulls -> Int]
    BY DEF Solvent
  <1>2. f \in [Hulls -> Int] /\ f[h] = hold[h] - n /\ \A x \in Hulls \ {h} : f[x] = hold[x]
    BY <1>1
  <1>3. hold' \in [Hulls -> Int] /\ hold'[g] = hold[g] + n /\ \A x \in Hulls \ {g} : hold'[x] = f[x]
    BY <1>1
  <1> HIDE DEF f
  <1>4. Sum(f, Hulls) = Sum(hold, Hulls) + f[h] - hold[h]
    BY <1>1, <1>2, Finite, SumChanges
  <1>5. Sum(hold', Hulls) = Sum(f, Hulls) + hold'[g] - f[g]
    <2>1. \A x \in Hulls : f[x] \in Int /\ hold'[x] \in Int
      BY <1>2, <1>3
    <2>2. \A x \in Hulls \ {g} : f[x] = hold'[x]
      BY <1>3
    <2> DEFINE e == hold'
    <2>3. \A x \in Hulls : f[x] \in Int /\ e[x] \in Int
      BY <2>1
    <2>4. \A x \in Hulls \ {g} : f[x] = e[x]
      BY <2>2
    <2> HIDE DEF e
    <2>5. Sum(e, Hulls) = Sum(f, Hulls) + e[g] - f[g]
      BY <2>3, <2>4, Finite, SumChanges
    <2> QED BY <2>5 DEF e
  <1>6. Sum(hold, Hulls) \in Int
    BY <1>1, Finite, SumTyped
  <1>7. hold[h] \in Int /\ hold[g] \in Int /\ f[g] = hold[g]
    BY <1>1, <1>2
  <1> QED BY <1>2, <1>3, <1>4, <1>5, <1>6, <1>7

LEMMA FreeKept ==
    ASSUME Start, RowFollows, HubIsFree, CountersCover, NothingForNothing, NEW h \in Hulls,
           Give(h) \/ Leave(h) \/ Board(h) \/ (\E p \in Planets : Spy(h, p))
    PROVE  Kept
  <1>1. /\ Start' /\ UNCHANGED <<row, queue, doing, cash, planets, issued, failed, missed>>
        /\ \A q \in Planets : Same(live'[q], live[q])
    BY FreeKeeps
  <1>2. /\ h \in Actors /\ live \in [Planets -> Stocked] /\ doing \in [Actors -> Command] /\ Solvent
        /\ live' \in [Planets -> Stocked] /\ Solvent'
    <2>1. h \in Actors
      BY Sorts
    <2>2. live' \in [Planets -> Stocked] /\ Solvent'
      BY <1>1 DEF Start, TypeOK, NoOverdraft, Stocked, Solvent
    <2> QED BY <2>1, <2>2, StartFacts
  <1>3. \A q \in Planets : live'[q].owner = live[q].owner /\ Stuff(live'[q]) = Stuff(live[q])
    <2> SUFFICES ASSUME NEW q \in Planets
                 PROVE  live'[q].owner = live[q].owner /\ Stuff(live'[q]) = Stuff(live[q])
      OBVIOUS
    <2> DEFINE s == live[q]
               t == live'[q]
    <2>1. s \in Planet /\ t \in Planet /\ Same(t, s)
      BY <1>1, <1>2 DEF Stocked
    <2> HIDE DEF s, t
    <2>2. \A x \in Planet : LET y == [x EXCEPT !.spy = Nobody]
                            IN  y.owner = x.owner /\ y.qty = x.qty /\ y.cash = x.cash /\ y.tax = x.tax
      BY DEF Planet
    <2>3. t.owner = s.owner /\ t.qty = s.qty /\ t.cash = s.cash /\ t.tax = s.tax
      BY <2>1, <2>2 DEF Same
    <2> QED BY <2>3 DEF Stuff, s, t
  <1>4. HubIsFree'
    BY <1>3, Sorts DEF HubIsFree
  <1>5. CountersCover' /\ \A u \in Users : ~ (OwnedNow(u)' > OwnedNow(u))
    BY <1>1, <1>3, CountersKeep
  <1>6. NothingForNothing'
    <2>1. \A q \in Planets : OnPlanet[q] = Stuff(live[q]) /\ OnPlanet'[q] = Stuff(live'[q])
      BY DEF OnPlanet, Stuff
    <2>2. OnPlanet' = OnPlanet /\ OnTheWay' = OnTheWay
      BY <1>1, <1>3, <2>1 DEF OnPlanet, OnTheWay
    <2>3. /\ Sum(OnPlanet, Planets) \in Int /\ Sum(hold, Hulls) \in Int
          /\ Sum(cash, Users) \in Int /\ Sum(OnTheWay, Hulls) \in Int
      BY <1>2, WorthIsNat
    <2>4. Sum(hold', Hulls) \in Int /\ Sum(hold', Hulls) <= Sum(hold, Hulls)
      <3>1. CASE Give(h)
        <4>1. PICK g \in aboard \ {h}, n \in Lots : hold' = [hold EXCEPT ![h] = @ - n, ![g] = @ + n]
          BY <3>1 DEF Give
        <4>2. g \in Hulls /\ g # h /\ n \in Nat
          BY <1>2, LotsAssumption DEF Solvent
        <4>3. Sum(hold', Hulls) = Sum(hold, Hulls)
          BY <1>2, <4>1, <4>2, HandedOver
        <4> QED BY <2>3, <4>3
      <3>2. CASE \E p \in Planets : Spy(h, p)
        <4>1. hold' = [hold EXCEPT ![h] = @ - 1]
          BY <3>2 DEF Spy
        <4>2. \A g \in Hulls : hold[g] \in Int /\ hold'[g] \in Int
          BY <1>2 DEF Solvent
        <4>3. hold'[h] = hold[h] - 1 /\ \A g \in Hulls \ {h} : hold[g] = hold'[g]
          BY <1>2, <4>1 DEF Solvent
        <4>4. Sum(hold', Hulls) = Sum(hold, Hulls) + hold'[h] - hold[h]
          BY <4>2, <4>3, Finite, SumChanges
        <4> QED BY <2>3, <4>2, <4>3, <4>4
      <3>3. CASE Leave(h) \/ Board(h)
        <4>1. hold' = hold
          BY <3>3 DEF Leave, Board
        <4> QED BY <2>3, <4>1
      <3> QED BY <3>1, <3>2, <3>3
    <2>5. /\ Worth = Sum(OnPlanet, Planets) + Sum(hold, Hulls) + Sum(cash, Users) + Sum(OnTheWay, Hulls)
          /\ Worth' = Sum(OnPlanet', Planets) + Sum(hold', Hulls) + Sum(cash', Users) + Sum(OnTheWay', Hulls)
      BY DEF Worth, Sum
    <2>6. Worth' <= Worth /\ Worth \in Int /\ Worth' \in Int /\ issued \in Int
      BY <1>1, <1>2, <2>2, <2>3, <2>4, <2>5 DEF Solvent
    <2>7. Worth' <= issued'
      BY <1>1, <2>6 DEF NothingForNothing
    <2> QED BY <2>7 DEF NothingForNothing
  <1> QED BY <1>4, <1>5, <1>6 DEF Kept

LEMMA StepKept ==
    ASSUME IInv, Next
    PROVE  Kept
  <1>1. Start /\ RowFollows /\ HubIsFree /\ CountersCover /\ NothingForNothing
    BY DEF IInv, Start
  <1>2. ASSUME NEW h \in Hulls, Ask(h) \/ Resumed(h) PROVE Kept
    <2>1. h \in Actors /\ doing[h].planet \in Planets
      BY <1>1, Sorts, StartFacts
    <2>2. PICK p \in Planets : p = doing[h].planet
      BY <2>1
    <2>3. Fine(h) /\ Honest(h, p)
      BY <1>1, <1>2, <2>1, <2>2, AskFine, ResumedFine, CommandHonest
    <2> QED BY <1>1, <2>2, <2>3, HullKeeps
  <1>3. ASSUME NEW c \in Clocks, Advance(c) \/ Resumed(c) PROVE Kept
    <2>1. c \in Actors /\ doing[c].planet \in Planets
      BY <1>1, Sorts, StartFacts
    <2>2. PICK p \in Planets : p = doing[c].planet
      BY <2>1
    <2>3. Fine(c) /\ Dull(p)
      BY <1>1, <1>3, <2>1, <2>2, AdvanceFine, ResumedFine, ClockDull
    <2> QED BY <1>1, <2>2, <2>3, ClockKeeps
  <1>4. ASSUME NEW h \in Hulls, Give(h) \/ Leave(h) \/ Board(h) \/ (\E p \in Planets : Spy(h, p)) PROVE Kept
    BY <1>1, <1>4, FreeKept
  <1>5. \A a \in Actors : a \in Hulls \/ a \in Clocks
    BY DEF Actors
  <1> QED BY <1>2, <1>3, <1>4, <1>5 DEF Next

-----------------------------------------------------------------------------
(* The theorems.                                                           *)

LEMMA Initially == Init => IInv
  <1> SUFFICES ASSUME Init PROVE IInv
    OBVIOUS
  <1>1. /\ live \in [Planets -> Stocked] /\ row = live /\ live[Hub].owner = Free
        /\ \A p \in Colonies : live[p].owner = Owner0[p]
    <2>1. \A p \in Planets, o \in Owners : [Blank EXCEPT !.owner = o] \in Stocked /\ [Blank EXCEPT !.owner = o].owner = o
      BY Sorts DEF Blank, Stocked, Planet
    <2>2. \A p \in Planets : (IF p = Hub THEN Free ELSE Owner0[p]) \in Owners
      BY Owner0Assumption, Sorts DEF Planets
    <2>3. \A p \in Planets : live[p] = [Blank EXCEPT !.owner = IF p = Hub THEN Free ELSE Owner0[p]]
      BY DEF Init
    <2>4. live \in [Planets -> Stocked] /\ \A p \in Planets : live[p].owner = IF p = Hub THEN Free ELSE Owner0[p]
      <3> DEFINE o(p) == IF p = Hub THEN Free ELSE Owner0[p]
      <3>1. live = [p \in Planets |-> [Blank EXCEPT !.owner = o(p)]] /\ \A p \in Planets : o(p) \in Owners
        BY <2>2 DEF Init
      <3> HIDE DEF o
      <3>2. live \in [Planets -> Stocked] /\ \A p \in Planets : live[p].owner = o(p)
        BY <2>1, <3>1
      <3> QED BY <3>2 DEF o
    <2> QED BY <2>4, Sorts, PlanetsAssumption DEF Init
  <1>2. /\ queue = [p \in Planets |-> <<>>] /\ doing = [a \in Actors |-> Idle] /\ failed = {} /\ missed = {}
        /\ hold \in [Hulls -> Nat] /\ aboard = Hulls /\ cash \in [Users -> Nat]
    BY LotsAssumption DEF Init
  <1>3. doing \in [Actors -> Command] /\ queue \in [Planets -> Seq(Actors)]
    BY <1>2, IdleTyped
  <1>4. \A u \in Users : planets[u] = Cardinality(Own(u))
    <2>1. \A u \in Users : {p \in Colonies : Owner0[p] = u} = Own(u)
      BY <1>1 DEF Own
    <2> QED BY <2>1 DEF Init
  <1>5. planets \in [Users -> Nat]
    BY <1>4, Sizes DEF Init
  <1>6. issued = Worth /\ Worth \in Nat
    <2>1. \A p \in Planets : OnPlanet[p] \in Nat
      BY <1>1 DEF OnPlanet, Stuff, Stocked, Planet
    <2>2. \A h \in Hulls : hold[h] \in Nat /\ OnTheWay[h] \in Nat
      BY <1>2, <1>3, Sorts DEF OnTheWay, Command
    <2>3. \A u \in Users : cash[u] \in Nat
      BY <1>2
    <2>4. /\ Sum(OnPlanet, Planets) \in Nat /\ Sum(hold, Hulls) \in Nat
          /\ Sum(cash, Users) \in Nat /\ Sum(OnTheWay, Hulls) \in Nat
      BY <2>1, <2>2, <2>3, Finite, SumIsNat
    <2> QED BY <2>4 DEF Worth, Sum, Init
  <1>7. TypeOK /\ NoOverdraft /\ HubIsFree /\ NothingForNothing
    BY <1>1, <1>2, <1>3, <1>5, <1>6 DEF TypeOK, NoOverdraft, HubIsFree, NothingForNothing, Stocked
  <1>8. \A a \in Actors : doing[a].at = "idle" /\ doing[a].verb = "none" /\ doing[a].planet = Hub
    BY <1>2 DEF Idle
  <1>9. Mutex
    BY <1>2, <1>8 DEF Mutex, Listed, Waiting, Once, AtHead, Inside, Holding
  <1>10. Kinds /\ StillTrue
    BY <1>8 DEF Kinds, KindOf, StillTrue, TrueFor
  <1>11. RowFollows
    BY <1>1 DEF RowFollows, Same
  <1>12. CountersCover
    <2> SUFFICES ASSUME NEW u \in Users
                 PROVE  Cardinality(Own(u)) + Cardinality(Leaving(u)) <= planets[u] + Cardinality(Coming(u))
      BY DEF CountersCover
    <2>1. Leaving(u) = {}
      BY <1>8, Sorts DEF Leaving, Yields
    <2>2. Cardinality(Leaving(u)) = 0
      BY <2>1, FS_EmptySet
    <2> QED BY <1>4, <2>2, Sizes
  <1> QED BY <1>7, <1>9, <1>10, <1>11, <1>12 DEF IInv

LEMMA Inductive == IInv /\ [Next]_vars => IInv'
  <1> SUFFICES ASSUME IInv, [Next]_vars PROVE IInv'
    OBVIOUS
  <1>1. CASE Next
    <2>1. Start' /\ RowFollows'
      BY <1>1, StepFine DEF IInv, Start
    <2>2. Kept
      BY <1>1, StepKept
    <2> QED BY <2>1, <2>2 DEF IInv, Start, Kept
  <1>2. CASE UNCHANGED vars
    <2>1. UNCHANGED <<live, row, queue, doing, hold, aboard, cash, planets, issued, failed, missed>>
      BY <1>2 DEF vars
    <2>2. TypeOK' /\ NoOverdraft' /\ HubIsFree'
      BY <2>1 DEF IInv, TypeOK, NoOverdraft, HubIsFree
    <2>3. Mutex' /\ Kinds' /\ StillTrue' /\ RowFollows'
      BY <2>1 DEF IInv, Mutex, Listed, Waiting, Once, AtHead, Kinds, KindOf, StillTrue, TrueFor,
                  RowFollows, Unsaved
    <2>4. CountersCover'
      <3>1. \A u : Own(u)' = Own(u) /\ Leaving(u)' = Leaving(u) /\ Coming(u)' = Coming(u)
        BY <2>1 DEF Own, Leaving, Yields, Coming, Gains
      <3> QED BY <2>1, <3>1 DEF IInv, CountersCover
    <2>5. NothingForNothing'
      <3>1. OnPlanet' = OnPlanet /\ OnTheWay' = OnTheWay
        BY <2>1 DEF OnPlanet, OnTheWay
      <3> QED BY <2>1, <3>1 DEF IInv, NothingForNothing, Worth
    <2> QED BY <2>2, <2>3, <2>4, <2>5 DEF IInv
  <1> QED BY <1>1, <1>2

\* The inductive invariant: the chains of runSerialized, what each step in flight
\* has seen, and the sums of goods and of credits, hold throughout.
THEOREM Invariance == Spec => []IInv
  BY Initially, Inductive, PTL DEF Spec

\* Every variable has its type: in particular a chain holds actors, and a command that
\* waits names a planet.
THEOREM TypeCorrect == Spec => []TypeOK
  <1>1. IInv => TypeOK
    BY DEF IInv
  <1> QED BY <1>1, Invariance, PTL

\* Tests made before an await, statements that fail and hulls that leave take no
\* account, hold, stock or tax pool below zero.
THEOREM NothingIsOverdrawn == Spec => []NoOverdraft
  <1>1. IInv => NoOverdraft
    BY DEF IInv
  <1> QED BY <1>1, Invariance, PTL

\* What is on the planets, in the holds, in the accounts and under way is never more
\* than what the game gave out.
THEOREM NothingIsMade == Spec => []NothingForNothing
  <1>1. IInv => NothingForNothing
    BY DEF IInv
  <1> QED BY <1>1, Invariance, PTL

\* Once nobody is in the chain of a planet, its row is what is held in memory.
THEOREM RowsFollow == Spec => []RowIsLive
  <1>1. IInv => RowIsLive
    <2> SUFFICES ASSUME IInv, NEW p \in Planets, queue[p] = <<>>, p \notin failed
                 PROVE  Same(live[p], row[p])
      BY DEF RowIsLive, Same
    <2>1. ASSUME NEW a \in Actors, doing[a].planet = p PROVE ~Unsaved(a)
      <3>1. doing[a].at \notin Inside
        <4> SUFFICES ASSUME doing[a].at \in Inside PROVE FALSE
          OBVIOUS
        <4>1. \E i \in 1 .. Len(queue[p]) : queue[p][i] = a
          BY <2>1 DEF IInv, Mutex, Listed
        <4>2. Len(queue[p]) = 0
          OBVIOUS
        <4> QED BY <4>1, <4>2
      <3> QED BY <3>1 DEF Unsaved, Inside
    <2> QED BY <2>1 DEF IInv, RowFollows
  <1> QED BY <1>1, Invariance, PTL

\* What the counter of an account lacks is still to be counted.
THEOREM CountersFollow == Spec => []CounterCovers
  <1>1. IInv => CounterCovers
    <2> SUFFICES ASSUME IInv, NEW u \in Users \ missed
                 PROVE  OwnedNow(u) <= planets[u] + Cardinality(Coming(u))
      BY DEF CounterCovers, Coming, Gains
    <2>1. Cardinality(Own(u)) + Cardinality(Leaving(u)) <= planets[u] + Cardinality(Coming(u))
      BY DEF IInv, CountersCover
    <2>2. planets[u] \in Nat
      BY DEF IInv, TypeOK
    <2> QED BY <2>1, <2>2, Sizes
  <1> QED BY <1>1, Invariance, PTL

\* Claims made at once on several planets respect the cap; a conquest alone passes it.
THEOREM TheCapHolds == Spec => OnlyConquestPassesTheCap
  <1> DEFINE Capped == \A u \in Users :
                OwnedNow(u)' > OwnedNow(u) /\ OwnedNow(u)' > MaxPlanets =>
                  \E h \in Hulls : Captain[h] = u /\ doing[h].verb = "attack"
  <1>1. IInv /\ [Next]_vars => [Capped]_vars
    <2> SUFFICES ASSUME IInv, Next PROVE Capped
      OBVIOUS
    <2> QED BY StepKept DEF Kept
  <1> QED BY <1>1, Invariance, PTL DEF Spec, OnlyConquestPassesTheCap


=============================================================================
