------------------------ MODULE ShipChannels_proofs ------------------------
(***************************************************************************)
(* Proofs about ShipChannels, for any set of ships, any set of channels    *)
(* (infinite, as in the code, or not), any number of tubes and mines.      *)
(***************************************************************************)
EXTENDS ShipChannels, TLAPS

\* A recorded shot still resolves: its author holds the channel in lastfired.
ShotResolves ==
    \A v \in InGame : via[v] = "shot" /\ lastfired[v] # NoChannel =>
        /\ author[v] \in InGame \ {v}
        /\ chan[author[v]] = lastfired[v]

\* A name recorded with a shot is the name of its author.
NameIsAuthor ==
    \A v \in InGame : via[v] = "shot" /\ lastfiredBy[v].name # NoShip =>
        lastfiredBy[v].name = author[v]

\* The inductive invariant.
IInv ==
    /\ TypeOK
    /\ ChannelsUnique
    /\ TubesNameTheirFirer
    /\ ShotResolves
    /\ NameIsAuthor

-----------------------------------------------------------------------------

\* The numbers a channel can be are neither of the two sentinels.
LEMMA ChannelsAreNotSentinels ==
    \A c \in Channels : c \in Nat /\ c # NoChannel /\ c # FreeSlot
  BY ChannelsAssumption DEF NoChannel, FreeSlot

\* Resolving a channel that ship s holds gives s, and nothing else does.
LEMMA HolderOfHeld ==
    ASSUME ChannelsUnique, NEW s \in InGame
    PROVE  Holder(chan[s]) = s
  BY DEF Holder, ChannelsUnique

\* The "no channel" value resolves to nobody.
LEMMA HolderOfNone == Holder(NoChannel) = NoShip
  BY DEF Holder, InGame

\* Whatever a channel resolves to is nobody or a ship in the world that holds it.
LEMMA HolderIsInGame ==
    ASSUME NEW c
    PROVE  \/ Holder(c) = NoShip
           \/ Holder(c) \in InGame /\ chan[Holder(c)] = c
  BY DEF Holder

LEMMA HolderType == \A c : Holder(c) \in Ships \cup {NoShip}
  BY HolderIsInGame DEF InGame

LEMMA RecordedType ==
    ASSUME NEW v \in Ships, NEW c \in Channels
    PROVE  Recorded(v, c) \in [channel : Channels \cup {NoChannel}, name : Ships \cup {NoShip}]
  BY HolderType DEF Recorded, Nobody

-----------------------------------------------------------------------------

LEMMA InitTypeOK == Init => TypeOK
  BY DEF Init, TypeOK, Vias, Nobody

\* Every field keeps its type, in particular no tube is ever given the sentinel
\* of lastfired and no lastfired the sentinel of the tubes.
LEMMA NextTypeOK == TypeOK /\ [Next]_vars => TypeOK'
  <1> SUFFICES ASSUME TypeOK, [Next]_vars PROVE TypeOK'
    OBVIOUS
  <1> USE ChannelsAreNotSentinels
  <1>1. ASSUME NEW s \in Ships, Enter(s) PROVE TypeOK'
    BY <1>1 DEF TypeOK, Enter, Acquire, Vias, Nobody
  <1>2. ASSUME NEW s \in Ships, Leave(s) PROVE TypeOK'
    BY <1>2 DEF TypeOK, Leave, ScrubbedLastfired, ScrubbedTubes, Vias, Nobody
  <1>3. ASSUME NEW s \in Ships, Persist(s) PROVE TypeOK'
    BY <1>3 DEF TypeOK, Persist
  <1>4. CASE Restart
    BY <1>4 DEF TypeOK, Restart, Vias, Nobody
  <1>5. ASSUME NEW s \in Ships, IonHit(s) PROVE TypeOK'
    BY <1>5 DEF TypeOK, IonHit, Vias, Nobody
  <1>6. ASSUME NEW a \in Ships, NEW v \in Ships, PhaserHit(a, v) PROVE TypeOK'
    BY <1>6 DEF TypeOK, PhaserHit, Vias
  <1>7. ASSUME NEW a \in Ships, NEW v \in Ships, NEW t \in Tubes, Launch(a, v, t) PROVE TypeOK'
    BY <1>7 DEF TypeOK, Launch, attribution, InGame
  <1>8. ASSUME NEW v \in Ships, NEW t \in Tubes, Fizzle(v, t) PROVE TypeOK'
    BY <1>8 DEF TypeOK, Fizzle, attribution
  <1>9. ASSUME NEW v \in Ships, NEW t \in Tubes, Impact(v, t) PROVE TypeOK'
    <2>1. tubes[v][t] \in Channels
      BY <1>9 DEF Impact, TypeOK
    <2>2. Recorded(v, tubes[v][t]) \in [channel : Channels \cup {NoChannel}, name : Ships \cup {NoShip}]
      BY <2>1, RecordedType
    <2>3. lastfiredBy' \in [Ships -> [channel : Channels \cup {NoChannel}, name : Ships \cup {NoShip}]]
      BY <1>9, <2>2 DEF Impact, TypeOK
    <2>4. QED
      BY <1>9, <2>1, <2>3 DEF TypeOK, Impact, Vias
  <1>10. ASSUME NEW b \in Ships, NEW hit \in SUBSET Ships, ScuttleBlast(b, hit) PROVE TypeOK'
    BY <1>10 DEF TypeOK, ScuttleBlast, Vias
  <1>11. ASSUME NEW a \in Ships, NEW m \in Mines, LayMine(a, m) PROVE TypeOK'
    BY <1>11 DEF TypeOK, LayMine, attribution, InGame
  <1>12. ASSUME NEW m \in Mines, NEW hit \in SUBSET Ships, Detonate(m, hit) PROVE TypeOK'
    <2>1. mine[m] \in Channels
      BY <1>12 DEF Detonate, TypeOK
    <2>2. Holder(mine[m]) \in Ships \cup {NoShip}
      BY HolderType
    <2>3. QED
      BY <1>12, <2>1, <2>2 DEF TypeOK, Detonate, Vias, Nobody
  <1>13. CASE UNCHANGED vars
    BY <1>13 DEF vars, TypeOK
  <1>14. QED
    BY <1>1, <1>2, <1>3, <1>4, <1>5, <1>6, <1>7, <1>8, <1>9, <1>10, <1>11, <1>12, <1>13
       DEF Next

\* TypeOK of the run "channels", for every instance.
THEOREM TypeCorrect == Spec => []TypeOK
  BY InitTypeOK, NextTypeOK, PTL DEF Spec

-----------------------------------------------------------------------------

LEMMA InitIInv == Init => IInv
  <1> SUFFICES ASSUME Init PROVE IInv
    OBVIOUS
  <1>1. InGame = {}
    BY DEF Init, InGame
  <1>2. QED
    BY <1>1, InitTypeOK
       DEF IInv, ChannelsUnique, Held, TubesNameTheirFirer, ShotResolves, NameIsAuthor

\* Entering hands out a channel nobody holds, so no reference changes meaning.
LEMMA EnterKeepsIInv ==
    ASSUME IInv, NEW s \in Ships, Enter(s)
    PROVE  IInv'
  <1> USE DEF IInv
  <1>1. PICK c \in Channels :
            /\ Acquire(s, c)
            /\ chan' = [chan EXCEPT ![s] = c]
    BY DEF Enter
  <1>2. c # NoChannel /\ c # FreeSlot
    BY ChannelsAreNotSentinels
  <1>3. InGame' = InGame \cup {s}
    BY <1>1, <1>2 DEF InGame, TypeOK
  <1>4. \A u \in InGame : u # s => chan'[u] = chan[u] /\ chan[u] # c
    BY <1>1 DEF Acquire, Held, ChannelsUnique, InGame, TypeOK
  <1>5. s \in InGame => chan'[s] = chan[s]
    BY <1>1 DEF Acquire, Held, InGame, TypeOK
  <1>6. TypeOK'
    BY NextTypeOK DEF Next
  <1>7. ChannelsUnique'
    BY <1>1, <1>2, <1>3, <1>4 DEF ChannelsUnique, Held, InGame, TypeOK
  <1>8. \A v \in Ships, t \in Tubes :
           /\ tubes'[v][t] = IF v = s THEN FreeSlot ELSE tubes[v][t]
           /\ firer'[v][t] = IF v = s THEN NoShip ELSE firer[v][t]
    BY DEF Enter, TypeOK
  <1>9. TubesNameTheirFirer'
    <2> SUFFICES ASSUME NEW v \in InGame', NEW t \in Tubes, tubes'[v][t] # FreeSlot
                 PROVE  /\ firer'[v][t] \in InGame' \ {v}
                        /\ chan'[firer'[v][t]] = tubes'[v][t]
      BY DEF TubesNameTheirFirer
    <2>1. v \in InGame /\ v # s /\ v \in Ships
      BY <1>3, <1>8 DEF InGame
    <2>2. QED
      BY <2>1, <1>3, <1>4, <1>5, <1>8 DEF TubesNameTheirFirer
  <1>10. via'[s] # "shot"
    BY DEF Enter, TypeOK
  <1>11. \A v \in Ships : v # s => /\ via'[v] = via[v] /\ author'[v] = author[v]
                                  /\ lastfired'[v] = lastfired[v]
                                  /\ lastfiredBy'[v] = lastfiredBy[v]
    BY DEF Enter, TypeOK
  <1>12. ShotResolves'
    BY <1>3, <1>4, <1>5, <1>10, <1>11 DEF ShotResolves, InGame
  <1>13. NameIsAuthor'
    BY <1>3, <1>10, <1>11 DEF NameIsAuthor, InGame
  <1>14. QED
    BY <1>6, <1>7, <1>9, <1>12, <1>13

\* Leaving frees a channel, and the scrub removes every reference to it.
LEMMA LeaveKeepsIInv ==
    ASSUME IInv, NEW s \in Ships, Leave(s)
    PROVE  IInv'
  <1> USE DEF IInv
  <1>1. InGame' = InGame \ {s}
    BY DEF Leave, InGame, TypeOK
  <1>2. \A u \in Ships : u # s => chan'[u] = chan[u]
    BY DEF Leave, TypeOK
  <1>3. TypeOK'
    BY NextTypeOK DEF Next
  <1>4. ChannelsUnique'
    BY <1>1, <1>2 DEF ChannelsUnique, Held, InGame
  <1>5. \A v \in Ships, t \in Tubes :
           IF v = s \/ tubes[v][t] = chan[s] THEN tubes'[v][t] = FreeSlot
           ELSE tubes'[v][t] = tubes[v][t] /\ firer'[v][t] = firer[v][t]
    BY DEF Leave, ScrubbedTubes
  <1>6. TubesNameTheirFirer'
    <2> SUFFICES ASSUME NEW v \in InGame', NEW t \in Tubes, tubes'[v][t] # FreeSlot
                 PROVE  /\ firer'[v][t] \in InGame' \ {v}
                        /\ chan'[firer'[v][t]] = tubes'[v][t]
      BY DEF TubesNameTheirFirer
    <2>1. v \in InGame /\ v \in Ships /\ v # s
      BY <1>1 DEF InGame
    <2>2. tubes[v][t] # chan[s] /\ tubes'[v][t] = tubes[v][t] /\ firer'[v][t] = firer[v][t]
      BY <1>5, <2>1
    <2>3. firer[v][t] \in InGame \ {v} /\ chan[firer[v][t]] = tubes[v][t]
      BY <2>1, <2>2 DEF TubesNameTheirFirer
    <2>4. firer[v][t] # s
      BY <2>2, <2>3
    <2>5. QED
      BY <1>1, <1>2, <2>2, <2>3, <2>4 DEF InGame
  <1>7. \A v \in Ships : v # s =>
           /\ via'[v] = via[v] /\ author'[v] = author[v] /\ lastfiredBy'[v] = lastfiredBy[v]
           /\ lastfired'[v] = IF lastfired[v] = chan[s] THEN NoChannel ELSE lastfired[v]
    BY DEF Leave, ScrubbedLastfired, TypeOK
  <1>8. ShotResolves'
    <2> SUFFICES ASSUME NEW v \in InGame', via'[v] = "shot", lastfired'[v] # NoChannel
                 PROVE  author'[v] \in InGame' \ {v} /\ chan'[author'[v]] = lastfired'[v]
      BY DEF ShotResolves
    <2>1. v \in InGame /\ v \in Ships /\ v # s
      BY <1>1 DEF InGame
    <2>2. lastfired[v] # chan[s] /\ author[v] \in InGame \ {v} /\ chan[author[v]] = lastfired[v]
      BY <1>7, <2>1 DEF ShotResolves
    <2>3. QED
      BY <1>1, <1>2, <1>7, <2>1, <2>2 DEF InGame
  <1>9. NameIsAuthor'
    BY <1>1, <1>7 DEF NameIsAuthor, InGame
  <1>10. QED
    BY <1>3, <1>4, <1>6, <1>8, <1>9

\* A projectile carries its firer's channel from the tube to lastfired.
LEMMA ImpactKeepsIInv ==
    ASSUME IInv, NEW w \in Ships, NEW k \in Tubes, Impact(w, k)
    PROVE  IInv'
  <1> USE DEF IInv
  <1>1. TypeOK'
    BY NextTypeOK DEF Next
  <1>2. InGame' = InGame /\ chan' = chan /\ w \in InGame
    BY DEF Impact, InGame
  <1>3. ChannelsUnique'
    BY <1>2 DEF ChannelsUnique, Held
  <1>4. firer[w][k] \in InGame \ {w} /\ chan[firer[w][k]] = tubes[w][k]
    BY <1>2 DEF Impact, TubesNameTheirFirer
  <1>5. Holder(tubes[w][k]) = firer[w][k]
    BY <1>4, HolderOfHeld
  <1>6. Recorded(w, tubes[w][k]).name = firer[w][k]
    BY <1>4, <1>5, NoShipAssumption DEF Recorded, InGame
  <1>7. /\ via'[w] = "shot" /\ author'[w] = firer[w][k]
        /\ lastfired'[w] = tubes[w][k] /\ lastfiredBy'[w].name = firer[w][k]
    BY <1>6 DEF Impact, TypeOK
  <1>8. \A v \in Ships : v # w =>
           /\ via'[v] = via[v] /\ author'[v] = author[v]
           /\ lastfired'[v] = lastfired[v] /\ lastfiredBy'[v] = lastfiredBy[v]
    BY DEF Impact, TypeOK
  <1>9. \A v \in Ships, t \in Tubes :
           IF v = w /\ t = k THEN tubes'[v][t] = FreeSlot
           ELSE tubes'[v][t] = tubes[v][t] /\ firer'[v][t] = firer[v][t]
    BY DEF Impact, TypeOK
  <1>10. TubesNameTheirFirer'
    BY <1>2, <1>9 DEF TubesNameTheirFirer, InGame
  <1>11. ShotResolves'
    BY <1>2, <1>4, <1>7, <1>8 DEF ShotResolves, InGame
  <1>12. NameIsAuthor'
    BY <1>2, <1>7, <1>8 DEF NameIsAuthor, InGame
  <1>13. QED
    BY <1>1, <1>3, <1>10, <1>11, <1>12

\* The other steps change neither the channels nor, except by adding a correct
\* entry or removing one, what the tubes and the attribution fields say.
LEMMA OtherStepsKeepIInv ==
    ASSUME IInv, [Next]_vars,
           ~ \E s \in Ships : Enter(s) \/ Leave(s),
           ~ \E v \in Ships, t \in Tubes : Impact(v, t)
    PROVE  IInv'
  <1> USE DEF IInv
  <1>1. TypeOK'
    BY NextTypeOK
  <1>2. CASE Restart
    <2>1. InGame' = {}
      BY <1>2 DEF Restart, InGame
    <2>2. QED
      BY <1>1, <2>1 DEF ChannelsUnique, Held, TubesNameTheirFirer, ShotResolves, NameIsAuthor
  <1>3. ASSUME NEW s \in Ships, Persist(s) PROVE IInv'
    BY <1>1, <1>3 DEF Persist, InGame, Held, ChannelsUnique, TubesNameTheirFirer,
                      ShotResolves, NameIsAuthor
  <1>4. ASSUME NEW w \in Ships, IonHit(w) PROVE IInv'
    <2>1. InGame' = InGame /\ chan' = chan /\ tubes' = tubes /\ firer' = firer
      BY <1>4 DEF IonHit, InGame
    <2>2. via'[w] = "none" /\ \A v \in Ships : v # w =>
             /\ via'[v] = via[v] /\ author'[v] = author[v]
             /\ lastfired'[v] = lastfired[v] /\ lastfiredBy'[v] = lastfiredBy[v]
      BY <1>4 DEF IonHit, TypeOK
    <2>3. QED
      BY <1>1, <2>1, <2>2 DEF ChannelsUnique, Held, TubesNameTheirFirer, ShotResolves,
                              NameIsAuthor, InGame
  <1>5. ASSUME NEW a \in Ships, NEW w \in Ships, PhaserHit(a, w) PROVE IInv'
    <2>1. /\ InGame' = InGame /\ chan' = chan /\ tubes' = tubes /\ firer' = firer
          /\ a # w /\ a \in InGame
      BY <1>5 DEF PhaserHit, InGame
    <2>2. /\ author'[w] = a /\ lastfired'[w] = chan[a] /\ lastfiredBy'[w].name = a
          /\ \A v \in Ships : v # w =>
               /\ via'[v] = via[v] /\ author'[v] = author[v]
               /\ lastfired'[v] = lastfired[v] /\ lastfiredBy'[v] = lastfiredBy[v]
      BY <1>5 DEF PhaserHit, TypeOK
    <2>3. QED
      BY <1>1, <2>1, <2>2 DEF ChannelsUnique, Held, TubesNameTheirFirer, ShotResolves,
                              NameIsAuthor, InGame
  <1>6. ASSUME NEW a \in Ships, NEW w \in Ships, NEW k \in Tubes, Launch(a, w, k)
        PROVE  IInv'
    <2>1. /\ InGame' = InGame /\ chan' = chan /\ a \in InGame \ {w}
          /\ UNCHANGED attribution
      BY <1>6 DEF Launch, InGame
    <2>2. \A v \in Ships, t \in Tubes :
             IF v = w /\ t = k THEN tubes'[v][t] = chan[a] /\ firer'[v][t] = a
             ELSE tubes'[v][t] = tubes[v][t] /\ firer'[v][t] = firer[v][t]
      BY <1>6 DEF Launch, TypeOK
    <2>3. TubesNameTheirFirer'
      BY <2>1, <2>2 DEF TubesNameTheirFirer, InGame
    <2>4. QED
      BY <1>1, <2>1, <2>3 DEF attribution, ChannelsUnique, Held, ShotResolves, NameIsAuthor
  <1>7. ASSUME NEW w \in Ships, NEW k \in Tubes, Fizzle(w, k) PROVE IInv'
    <2>1. InGame' = InGame /\ chan' = chan /\ UNCHANGED attribution
      BY <1>7 DEF Fizzle, InGame
    <2>2. \A v \in Ships, t \in Tubes :
             IF v = w /\ t = k THEN tubes'[v][t] = FreeSlot
             ELSE tubes'[v][t] = tubes[v][t] /\ firer'[v][t] = firer[v][t]
      BY <1>7 DEF Fizzle, TypeOK
    <2>3. TubesNameTheirFirer'
      BY <2>1, <2>2 DEF TubesNameTheirFirer, InGame
    <2>4. QED
      BY <1>1, <2>1, <2>3 DEF attribution, ChannelsUnique, Held, ShotResolves, NameIsAuthor
  <1>8. ASSUME NEW b \in Ships, NEW hit \in SUBSET Ships, ScuttleBlast(b, hit) PROVE IInv'
    <2>1. InGame' = InGame /\ chan' = chan /\ tubes' = tubes /\ firer' = firer
      BY <1>8 DEF ScuttleBlast, InGame
    <2>2. \A v \in Ships : IF v \in hit THEN via'[v] = "scuttle"
             ELSE /\ via'[v] = via[v] /\ author'[v] = author[v]
                  /\ lastfired'[v] = lastfired[v] /\ lastfiredBy'[v] = lastfiredBy[v]
      BY <1>8 DEF ScuttleBlast, TypeOK
    <2>3. QED
      BY <1>1, <2>1, <2>2 DEF ChannelsUnique, Held, TubesNameTheirFirer, ShotResolves,
                              NameIsAuthor, InGame
  <1>9. ASSUME NEW a \in Ships, NEW m \in Mines, LayMine(a, m) PROVE IInv'
    BY <1>1, <1>9 DEF LayMine, attribution, InGame, Held, ChannelsUnique,
                      TubesNameTheirFirer, ShotResolves, NameIsAuthor
  <1>10. ASSUME NEW m \in Mines, NEW hit \in SUBSET Ships, Detonate(m, hit) PROVE IInv'
    <2>1. InGame' = InGame /\ chan' = chan /\ tubes' = tubes /\ firer' = firer
      BY <1>10 DEF Detonate, InGame
    <2>2. \A v \in Ships : IF v \in hit THEN via'[v] = "mine"
             ELSE /\ via'[v] = via[v] /\ author'[v] = author[v]
                  /\ lastfired'[v] = lastfired[v] /\ lastfiredBy'[v] = lastfiredBy[v]
      BY <1>10 DEF Detonate, TypeOK
    <2>3. QED
      BY <1>1, <2>1, <2>2 DEF ChannelsUnique, Held, TubesNameTheirFirer, ShotResolves,
                              NameIsAuthor, InGame
  <1>11. CASE UNCHANGED vars
    BY <1>1, <1>11 DEF vars, InGame, Held, ChannelsUnique, TubesNameTheirFirer,
                       ShotResolves, NameIsAuthor
  <1>12. QED
    BY <1>2, <1>3, <1>4, <1>5, <1>6, <1>7, <1>8, <1>9, <1>10, <1>11 DEF Next

LEMMA NextIInv == IInv /\ [Next]_vars => IInv'
  BY EnterKeepsIInv, LeaveKeepsIInv, ImpactKeepsIInv, OtherStepsKeepIInv

\* The invariant gives the property: a shot resolves to its author or to nobody.
LEMMA IInvGivesCredit == IInv => ShotsCreditTheShooter
  <1> SUFFICES ASSUME IInv, NEW v \in InGame, via[v] = "shot"
               PROVE  Credit(v) \in {author[v], NoShip}
    BY DEF ShotsCreditTheShooter
  <1>1. Attacker(v) \in {author[v], NoShip}
    <2>1. CASE lastfired[v] = NoChannel
      BY <2>1, HolderOfNone DEF Attacker
    <2>2. CASE lastfired[v] # NoChannel
      <3>1. author[v] \in InGame /\ chan[author[v]] = lastfired[v]
        BY <2>2 DEF IInv, ShotResolves
      <3>2. Holder(lastfired[v]) = author[v]
        BY <3>1, HolderOfHeld DEF IInv
      <3>3. QED
        BY <3>2 DEF Attacker
    <2>3. QED
      BY <2>1, <2>2
  <1>2. RecordedName(v) \in {author[v], NoShip}
    BY DEF IInv, NameIsAuthor, RecordedName
  <1>3. QED
    BY <1>1, <1>2 DEF Credit

\* The invariant holds of every behaviour: entering hands out a free channel, leaving
\* scrubs it.
THEOREM Inductive == Spec => []IInv
  BY InitIInv, NextIInv, PTL DEF Spec

\* No two ships in the world ever share a channel.
THEOREM ChannelsStayUnique == Spec => []ChannelsUnique
  BY Inductive, PTL DEF IInv

\* However channels are recycled, a projectile is always its firer's.
THEOREM OrdnanceStaysWithItsFirer == Spec => []TubesNameTheirFirer
  BY Inductive, PTL DEF IInv

\* A kill by a shot is credited to the ship that fired it, or to nobody.
THEOREM CreditIsEarned == Spec => []ShotsCreditTheShooter
  BY Inductive, IInvGivesCredit, PTL

-----------------------------------------------------------------------------
(* What stays when the shooter leaves.                                     *)

\* While a shot still resolves, its author's name and channel are both recorded.
RecordIsWhole ==
    \A v \in InGame : via[v] = "shot" /\ lastfired[v] # NoChannel =>
        lastfiredBy[v].name = author[v] /\ lastfiredBy[v].channel = lastfired[v]

LEMMA RecordKept ==
    ASSUME IInv, RecordIsWhole, [Next]_vars
    PROVE  RecordIsWhole'
  <1> USE DEF RecordIsWhole
  <1>1. CASE Restart
    <2>1. InGame' = {}
      BY <1>1 DEF Restart, InGame
    <2> QED BY <2>1
  <1>2. ASSUME NEW s \in Ships, Enter(s) PROVE RecordIsWhole'
    <2>1. via'[s] # "shot" /\ \A v \in InGame' : v # s => v \in InGame
      BY <1>2 DEF Enter, InGame, IInv, TypeOK
    <2>2. \A v \in Ships : v # s => /\ via'[v] = via[v] /\ author'[v] = author[v]
                                   /\ lastfired'[v] = lastfired[v] /\ lastfiredBy'[v] = lastfiredBy[v]
      BY <1>2 DEF Enter, IInv, TypeOK
    <2> QED BY <2>1, <2>2 DEF InGame
  <1>3. ASSUME NEW s \in Ships, Leave(s) PROVE RecordIsWhole'
    <2>1. \A v \in InGame' : v # s /\ v \in InGame
      BY <1>3 DEF Leave, InGame, IInv, TypeOK
    <2>2. \A v \in Ships : v # s => /\ via'[v] = via[v] /\ author'[v] = author[v]
                                   /\ lastfired'[v] \in {lastfired[v], NoChannel} /\ lastfiredBy'[v] = lastfiredBy[v]
      BY <1>3 DEF Leave, ScrubbedLastfired, IInv, TypeOK
    <2> QED BY <2>1, <2>2 DEF InGame
  <1>4. ASSUME NEW w \in Ships, NEW k \in Tubes, Impact(w, k) PROVE RecordIsWhole'
    <2>1. InGame' = InGame /\ w \in InGame /\ tubes[w][k] # FreeSlot
      BY <1>4 DEF Impact, InGame
    <2>2. firer[w][k] \in InGame \ {w} /\ chan[firer[w][k]] = tubes[w][k]
      BY <2>1 DEF IInv, TubesNameTheirFirer
    <2>3. Holder(tubes[w][k]) = firer[w][k]
      BY <2>2, HolderOfHeld DEF IInv
    <2>4. Recorded(w, tubes[w][k]) = [channel |-> tubes[w][k], name |-> firer[w][k]]
      BY <2>2, <2>3, NoShipAssumption DEF Recorded, InGame
    <2>5. author'[w] = firer[w][k] /\ lastfired'[w] = tubes[w][k]
          /\ lastfiredBy'[w] = [channel |-> tubes[w][k], name |-> firer[w][k]]
      BY <1>4, <2>4 DEF Impact, IInv, TypeOK
    <2>6. \A v \in Ships : v # w => /\ via'[v] = via[v] /\ author'[v] = author[v]
                                   /\ lastfired'[v] = lastfired[v] /\ lastfiredBy'[v] = lastfiredBy[v]
      BY <1>4 DEF Impact, IInv, TypeOK
    <2>7. lastfiredBy'[w].name = author'[w] /\ lastfiredBy'[w].channel = lastfired'[w]
      BY <2>5
    <2> QED BY <2>1, <2>6, <2>7 DEF InGame
  <1>5. ASSUME NEW a \in Ships, NEW w \in Ships, PhaserHit(a, w) PROVE RecordIsWhole'
    <2>1. InGame' = InGame
      BY <1>5 DEF PhaserHit, InGame
    <2>2. author'[w] = a /\ lastfired'[w] = chan[a] /\ lastfiredBy'[w] = [channel |-> chan[a], name |-> a]
      BY <1>5 DEF PhaserHit, IInv, TypeOK
    <2>3. \A v \in Ships : v # w => /\ via'[v] = via[v] /\ author'[v] = author[v]
                                   /\ lastfired'[v] = lastfired[v] /\ lastfiredBy'[v] = lastfiredBy[v]
      BY <1>5 DEF PhaserHit, IInv, TypeOK
    <2> QED BY <2>1, <2>2, <2>3 DEF InGame
  <1>6. ASSUME InGame' = InGame,
               \A v \in Ships : \/ via'[v] # "shot"
                                \/ /\ via'[v] = via[v] /\ author'[v] = author[v]
                                   /\ lastfired'[v] = lastfired[v] /\ lastfiredBy'[v] = lastfiredBy[v]
        PROVE  RecordIsWhole'
    BY <1>6 DEF InGame
  <1>7. ASSUME NEW s \in Ships, IonHit(s) PROVE RecordIsWhole'
    BY <1>6, <1>7 DEF IonHit, InGame, IInv, TypeOK
  <1>8. ASSUME NEW b \in Ships, NEW hit \in SUBSET Ships, ScuttleBlast(b, hit) PROVE RecordIsWhole'
    BY <1>6, <1>8 DEF ScuttleBlast, InGame, IInv, TypeOK
  <1>9. ASSUME NEW m \in Mines, NEW hit \in SUBSET Ships, Detonate(m, hit) PROVE RecordIsWhole'
    BY <1>6, <1>9 DEF Detonate, InGame, IInv, TypeOK
  <1>10. ASSUME UNCHANGED <<chan, attribution>> PROVE RecordIsWhole'
    BY <1>10 DEF attribution, InGame
  <1>11. UNCHANGED vars => UNCHANGED <<chan, attribution>>
    BY DEF vars, attribution
  <1>12. \A s \in Ships : Persist(s) => UNCHANGED <<chan, attribution>>
    BY DEF Persist, attribution
  <1>13. \A a, v \in Ships, t \in Tubes : Launch(a, v, t) \/ Fizzle(v, t) => UNCHANGED <<chan, attribution>>
    BY DEF Launch, Fizzle
  <1>14. \A a \in Ships, m \in Mines : LayMine(a, m) => UNCHANGED <<chan, attribution>>
    BY DEF LayMine
  <1> QED BY <1>1, <1>2, <1>3, <1>4, <1>5, <1>7, <1>8, <1>9, <1>10, <1>11, <1>12, <1>13, <1>14 DEF Next

LEMMA RecordStarts == Init => RecordIsWhole
  BY DEF Init, InGame, RecordIsWhole

\* The credit of a shot survives the departure of who fired it.
LEMMA LeavingKeepsTheName ==
    ASSUME IInv, RecordIsWhole, NEW s \in Ships, Leave(s), NEW v \in InGame, v \in InGame',
           via[v] = "shot", Credit(v) = author[v], author[v] = s
    PROVE  Credit(v)' = author'[v]
  <1>1. v \in Ships /\ v # s /\ InGame' = InGame \ {s} /\ s \in InGame /\ chan[s] # NoChannel
        /\ s # NoShip /\ chan'[v] = chan[v] /\ \A u \in InGame' : chan'[u] = chan[u]
    BY NoShipAssumption DEF Leave, InGame, IInv, TypeOK
  <1>2. /\ author'[v] = s /\ lastfiredBy'[v] = lastfiredBy[v]
        /\ lastfired'[v] = IF lastfired[v] = chan[s] THEN NoChannel ELSE lastfired[v]
    BY <1>1 DEF Leave, ScrubbedLastfired, IInv, TypeOK
  <1>3. lastfired[v] # NoChannel => lastfired[v] = chan[s]
    BY DEF IInv, ShotResolves
  <1>4. lastfired'[v] = NoChannel
    BY <1>2, <1>3
  <1>5. Attacker(v)' = NoShip
    <2>1. \A u \in InGame' : chan'[u] # NoChannel
      BY DEF InGame
    <2> QED BY <1>4, <2>1 DEF Attacker, Holder
  <1>6. chan[s] \notin Held' /\ chan[s] # chan[v]
    BY <1>1 DEF Held, IInv, ChannelsUnique
  <1>7. lastfiredBy[v].name = s /\ lastfiredBy[v].channel # chan[v]
        /\ (lastfiredBy[v].channel = NoChannel \/ lastfiredBy[v].channel \notin Held')
    <2>1. CASE lastfired[v] # NoChannel
      BY <1>3, <1>6, <2>1 DEF RecordIsWhole
    <2>2. CASE lastfired[v] = NoChannel
      <3>1. Attacker(v) = NoShip
        BY <2>2, HolderOfNone DEF Attacker
      <3>2. RecordedName(v) = s
        BY <3>1 DEF Credit
      <3>3. Held' \subseteq Held
        BY <1>1 DEF Held
      <3> QED BY <1>1, <2>2, <3>2, <3>3 DEF RecordedName
    <2> QED BY <2>1, <2>2
  <1>8. RecordedName(v)' = s
    BY <1>1, <1>2, <1>4, <1>7 DEF RecordedName
  <1> QED BY <1>2, <1>5, <1>8 DEF Credit

\* ShipChannelRegistry's leave keeps the recorded names of the others on purpose: a
\* shooter who logs off before his victim dies keeps the credit.
THEOREM LogoffTakesNoCredit == Spec => LogoffKeepsTheName
  <1>1. IInv /\ RecordIsWhole /\ [Next]_vars =>
          [\A v \in Ships :
             (/\ v \in InGame /\ v \in InGame'
              /\ via[v] = "shot" /\ Credit(v) = author[v]
              /\ author[v] \in InGame /\ author[v] \notin InGame')
             => (Credit(v) = author[v])']_vars
    <2> SUFFICES ASSUME IInv, RecordIsWhole, Next, NEW v \in Ships,
                        v \in InGame, v \in InGame', via[v] = "shot", Credit(v) = author[v],
                        author[v] \in InGame, author[v] \notin InGame'
                 PROVE  Credit(v)' = author'[v]
      BY DEF vars
    <2>1. PICK s \in Ships : Leave(s)
      <3>1. ~Restart
        BY DEF Restart, InGame
      <3>2. \A s \in Ships : ~Enter(s)
        BY ChannelsAreNotSentinels DEF Enter, InGame, IInv, TypeOK
      <3>3. InGame' # InGame /\ chan' # chan
        BY DEF InGame
      <3>4. chan' = chan \/ \E s \in Ships : Leave(s)
        BY <3>1, <3>2 DEF Next, Persist, IonHit, PhaserHit, Launch, Fizzle, Impact, ScuttleBlast,
                          LayMine, Detonate
      <3> QED BY <3>3, <3>4
    <2>2. author[v] = s
      BY <2>1 DEF Leave, InGame, IInv, TypeOK
    <2> QED BY <2>1, <2>2, LeavingKeepsTheName
  <1>2. Init => IInv /\ RecordIsWhole
    BY InitIInv, RecordStarts
  <1>3. IInv /\ RecordIsWhole /\ [Next]_vars => (IInv /\ RecordIsWhole)'
    BY NextIInv, RecordKept
  <1> QED BY <1>1, <1>2, <1>3, PTL DEF Spec, LogoffKeepsTheName
=============================================================================
