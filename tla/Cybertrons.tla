----------------------------- MODULE Cybertrons -----------------------------
(* Whom the Cybertrons hunt. A claim is kept on the hull that hunts, as the  *)
(* channel of its prey and the key of the ship that had that channel then.   *)
(* Channels are recycled, lowest first, as soon as a ship leaves; a claim    *)
(* stays until its holder's next activation looks at it. Once a second every *)
(* hull counts down, and those at zero act one after another, at most        *)
(* MaxPerTick of them (CYBMAXPERTICK): `due` holds the ones still to act in  *)
(* this tick, and nothing else runs meanwhile.                               *)
EXTENDS Integers, FiniteSets, Lists, FiniteSetsExt, SequencesExt

CONSTANTS
    Pilots,       \* captains' ships: a key is never used twice
    Hulls,        \* Cybertron slots, in the order of the map: a sequence
    Tough,        \* the hulls of a tough class, which may break off
    Mortal,       \* ships that may be destroyed
    NoClaim,      \* how many may claim one pilot (the prey's class)
    MaxPerTick,   \* CYBMAXPERTICK
    MinTick,      \* seconds to the next activation: at least, and at most
    MaxTick,
    MaxHold,      \* bound on holdcourse
    Nobody,
    Unregistered, \* the sentinel of the registry (-1)
    NoPrey        \* cybmine 255 with no key

Slots    == ToSet(Hulls)
AllShips == Pilots \cup Slots
Numbers  == 0 .. Cardinality(AllShips) - 1
Sights   == {"open", "cloaked", "zone"}

ASSUME HullsAssumption ==
    /\ Hulls \in Seq(Slots) /\ IsInjective(Hulls) /\ Pilots \cap Slots = {}
    /\ Tough \subseteq Slots /\ Mortal \subseteq AllShips
ASSUME FiniteAssumption == IsFiniteSet(Pilots)
ASSUME BoundsAssumption ==
    /\ {NoClaim, MaxPerTick, MinTick, MaxTick, MaxHold} \subseteq Nat
    /\ MaxPerTick > 0 /\ MinTick > 0 /\ MinTick <= MaxTick
ASSUME SentinelsAssumption ==
    /\ Nobody \notin AllShips /\ Unregistered \notin Numbers
    /\ NoPrey \notin Numbers \X AllShips

VARIABLES
    channel,      \* the registry: every ship's channel
    sight,        \* a pilot is in the open, cloaked, or in the neutral zone
    lost,         \* pilots' ships destroyed
    claim,        \* cybmine and cybmineKey
    hold, tick,   \* holdcourse and tick
    due,          \* hulls that still act in this tick
    won,          \* hulls whose kill is being scored
    steers        \* whom the last step steered at: <<hull, pilot>>

huntVars == <<channel, sight, lost, claim, hold, tick, due, won, steers>>

\* The hulls are loaded at boot, before the first captain can connect.
Booted == [s \in AllShips |-> IF s \in Slots THEN (CHOOSE i \in DOMAIN Hulls : Hulls[i] = s) - 1
                              ELSE Unregistered]

HuntInit ==
    /\ channel = Booted
    /\ sight = [p \in Pilots |-> "open"]
    /\ lost = {}
    /\ claim = [a \in Slots |-> NoPrey]
    /\ hold = [a \in Slots |-> 0]
    /\ tick = [a \in Slots |-> MinTick]
    /\ due = <<>>
    /\ won = {}
    /\ steers = <<Nobody, Nobody>>

InGame(s) == channel[s] # Unregistered
Quiet     == due = <<>> /\ steers' = <<Nobody, Nobody>>
FreeSlot  == Min(Numbers \ {channel[s] : s \in AllShips})

(* ------------------------------ the claims ------------------------------ *)
ClaimOn(s) == <<channel[s], s>>

\* Mutant of ClaimedPilot: the channel alone, as before issue #64.
ClaimedPilotByChannel(c) == {p \in Pilots : InGame(p) /\ c # NoPrey /\ c[1] = channel[p]}

\* The pilot a claim is on, if he still has the channel it names.
ClaimedPilot(c) == {p \in Pilots : InGame(p) /\ c = ClaimOn(p)}

\* How many of the claims cl are on p.
CountClaims(cl, p) == Quantify(Slots, LAMBDA a : InGame(a) /\ cl[a] = ClaimOn(p))

\* Mutant of NotClaimed: off by one.
NotClaimedOff(cl, p) == CountClaims(cl, p) <= NoClaim

NotClaimed(cl, p) == CountClaims(cl, p) < NoClaim

\* How a hull finds its claim when it looks at it.
Standing(c) ==
    IF c = NoPrey THEN "none"
    ELSE IF ClaimedPilot(c) = {} THEN "left"
    ELSE sight[CHOOSE p \in ClaimedPilot(c) : TRUE]

\* What the target scan may pick while the claims are cl: it takes the nearest of
\* these.
Eligible(cl) == {p \in Pilots : InGame(p) /\ sight[p] = "open" /\ NotClaimed(cl, p)}

\* Mutant of TargetLeft: only the speed is drawn again.
TargetLeftKept(c) == c

\* The claim on a pilot who has left.
TargetLeft(c) == NoPrey

(* ------------------------- the world around them ------------------------ *)
ComesIn(s) ==
    /\ Quiet /\ ~InGame(s) /\ s \notin lost
    /\ channel' = [channel EXCEPT ![s] = FreeSlot]
    /\ IF s \in Pilots THEN \E w \in Sights : sight' = [sight EXCEPT ![s] = w] ELSE UNCHANGED sight
    /\ IF s \in Slots
         THEN /\ claim' = [claim EXCEPT ![s] = NoPrey]
              /\ hold' = [hold EXCEPT ![s] = 0]
              /\ \E n \in MinTick .. MaxTick : tick' = [tick EXCEPT ![s] = n]
         ELSE UNCHANGED <<claim, hold, tick>>
    /\ UNCHANGED <<lost, due, won>>

\* Where a pilot is who is not in the game does not matter: "open" stands for it.
Gone(ps) == [p \in Pilots |-> IF p \in ps THEN "open" ELSE sight[p]]

GoesOut(p) ==
    /\ Quiet /\ InGame(p)
    /\ channel' = [channel EXCEPT ![p] = Unregistered]
    /\ sight' = Gone({p})
    /\ UNCHANGED <<lost, claim, hold, tick, due, won>>

SightChanges(p, where) ==
    /\ Quiet /\ InGame(p) /\ sight[p] # where
    /\ sight' = [sight EXCEPT ![p] = where]
    /\ UNCHANGED <<channel, lost, claim, hold, tick, due, won>>

\* A phaser hit, or a lock for a torpedo or a missile.
Provoke(a, s) ==
    /\ Quiet /\ InGame(a) /\ InGame(s) /\ a # s
    /\ claim' = [claim EXCEPT ![a] = ClaimOn(s)]
    /\ UNCHANGED <<channel, sight, lost, hold, tick, due, won>>

\* The destroyed listener has taken the ship out of the map, and with it its
\* channel, before the loop over the claims compares them with that channel.
Destroyed(s, killer) ==
    /\ Quiet /\ InGame(s) /\ s \in Mortal /\ killer # s
    /\ killer # Nobody => InGame(killer)
    /\ channel' = [channel EXCEPT ![s] = Unregistered]
    /\ lost' = lost \cup ({s} \cap Pilots)
    /\ won' = won \cup ({killer} \cap Slots)
    /\ claim' = IF s \in Slots THEN [claim EXCEPT ![s] = NoPrey] ELSE claim
    /\ sight' = Gone({s})
    /\ UNCHANGED <<hold, tick, due>>

\* The score is written after two awaits, and the claim held by then is dropped.
Scored(a) ==
    /\ Quiet /\ a \in won
    /\ won' = won \ {a}
    /\ claim' = IF InGame(a) THEN [claim EXCEPT ![a] = NoPrey] ELSE claim
    /\ UNCHANGED <<channel, sight, lost, hold, tick, due>>

\* hydrate lets no claim survive, nor a course held.
Restart ==
    /\ Quiet
    /\ channel' = Booted
    /\ claim' = [a \in Slots |-> NoPrey]
    /\ hold' = [a \in Slots |-> 0]
    /\ sight' = Gone(Pilots)
    /\ won' = {}
    /\ UNCHANGED <<lost, tick, due>>

(* ------------------------------ an activation --------------------------- *)
InTheMap == Filtered(Hulls, {a \in Slots : InGame(a)})

\* Mutant of CountedDown: the cap holds back the countdown too, as it once did.
CountedDownCapped(a) ==
    IF \E i \in DOMAIN InTheMap : i <= MaxPerTick /\ InTheMap[i] = a
    THEN (IF tick[a] > 0 THEN tick[a] - 1 ELSE 0) ELSE tick[a]

\* Every hull counts down, also one the cap leaves out of this tick.
CountedDown(a) == IF InGame(a) /\ tick[a] > 0 THEN tick[a] - 1 ELSE tick[a]

AiTick ==
    /\ Quiet
    /\ \E a \in Slots : InGame(a)
    /\ tick' = [a \in Slots |-> CountedDown(a)]
    /\ LET ready == Filtered(InTheMap, {a \in Slots : CountedDown(a) = 0})
       IN  due' = IF Len(ready) > MaxPerTick THEN SubSeq(ready, 1, MaxPerTick) ELSE ready
    /\ UNCHANGED <<channel, sight, lost, claim, hold, won>>

PilotInSight == \E p \in Pilots : InGame(p) /\ sight[p] = "open"

\* The scan for a fight: a tough hull may break off, and its beam may catch
\* other hulls, which turn on it.
Fought(a, brokeOff, hit) ==
    /\ brokeOff => a \in Tough /\ PilotInSight
    /\ hit # {} => PilotInSight
    /\ \A b \in hit : InGame(b) /\ b # a

AfterFight(a, brokeOff, hit) ==
    [b \in Slots |-> IF b = a /\ brokeOff THEN NoPrey
                     ELSE IF b \in hit THEN ClaimOn(a) ELSE claim[b]]

Acts(a) ==
    /\ due # <<>> /\ a = Head(due)
    /\ due' = Tail(due)
    /\ \E n \in MinTick .. MaxTick : tick' = [tick EXCEPT ![a] = n]
    /\ UNCHANGED <<channel, sight, lost, won>>

\* The hull holds its course: for it has one to hold, or draws one now (jammed,
\* damaged, or evading). It does not look at its claim.
Coasts(a) ==
    /\ Acts(a)
    /\ \E brokeOff \in BOOLEAN, hit \in SUBSET Slots :
         /\ Fought(a, brokeOff, hit)
         /\ claim' = AfterFight(a, brokeOff, hit)
    /\ \E n \in 0 .. MaxHold : hold' = [hold EXCEPT ![a] = n]
    /\ steers' = <<Nobody, Nobody>>

\* A course held runs out by one.
HoldsOn(a) ==
    /\ Acts(a) /\ hold[a] > 0
    /\ hold' = [hold EXCEPT ![a] = @ - 1]
    /\ steers' = <<Nobody, Nobody>>
    /\ UNCHANGED claim

\* The hull looks at its claim, or at what the fight has left of it: it drops a
\* pilot who left, may lose a cloaked one, steers at one in the open, and picks
\* another if it has none or if its own has reached the neutral zone. Claims are
\* counted as the fight has left them: a hull that broke off may take the pilot
\* it let go of.
Hunts(a) ==
    /\ Acts(a) /\ hold[a] = 0
    /\ \E brokeOff \in BOOLEAN, hit \in SUBSET Slots :
         /\ Fought(a, brokeOff, hit)
         /\ LET claims == AfterFight(a, brokeOff, hit)
                c      == claims[a]
                Ends(d, n, prey) ==
                    /\ claim' = [claims EXCEPT ![a] = d]
                    /\ hold' = [hold EXCEPT ![a] = n]
                    /\ steers' = IF prey = Nobody THEN <<Nobody, Nobody>> ELSE <<a, prey>>
            IN \/ Standing(c) = "left" /\ Ends(TargetLeft(c), 0, Nobody)
               \/ /\ Standing(c) = "cloaked"
                  /\ \E d \in {c, NoPrey}, n \in 1 .. MaxHold : Ends(d, n, Nobody)
               \/ Standing(c) = "open" /\ \E p \in ClaimedPilot(c) : Ends(c, 0, p)
               \/ /\ Standing(c) \in {"none", "zone"}
                  /\ \/ \E p \in Eligible(claims) : Ends(ClaimOn(p), 0, p)
                     \/ Eligible(claims) = {} /\ Ends(NoPrey, 0, Nobody)

HuntNext ==
    \/ \E s \in AllShips : ComesIn(s)
    \/ \E p \in Pilots : GoesOut(p) \/ \E w \in Sights : SightChanges(p, w)
    \/ \E a \in Slots, s \in AllShips : Provoke(a, s)
    \/ \E s \in AllShips, k \in Slots \cup {Nobody} : Destroyed(s, k)
    \/ \E a \in Slots : Scored(a)
    \/ Restart
    \/ AiTick
    \/ \E a \in Slots : Coasts(a) \/ HoldsOn(a) \/ Hunts(a)

\* The timer fires and its callback runs to its end; the draws of chance do not
\* make a hull swerve at every activation for ever.
HuntFairness ==
    /\ WF_huntVars(AiTick)
    /\ WF_huntVars(\E a \in Slots : Coasts(a) \/ HoldsOn(a) \/ Hunts(a))
    /\ \A a \in Slots : SF_huntVars(HoldsOn(a)) /\ SF_huntVars(Hunts(a))

HuntSpec == HuntInit /\ [][HuntNext]_huntVars /\ HuntFairness

(* ------------------------------ properties ------------------------------ *)
HuntTypeOK ==
    /\ channel \in [AllShips -> Numbers \cup {Unregistered}]
    /\ sight \in [Pilots -> Sights]
    /\ lost \subseteq Pilots
    /\ claim \in [Slots -> (Numbers \X AllShips) \cup {NoPrey}]
    /\ hold \in [Slots -> 0 .. MaxHold]
    /\ tick \in [Slots -> 0 .. MaxTick]
    /\ due \in Seq(Slots)
    /\ won \subseteq Slots
    /\ steers \in (Slots \X Pilots) \cup {<<Nobody, Nobody>>}

\* A hull steers only at the very pilot it claimed, who is in the game, in the
\* open and out of the neutral zone: never at the one who has his channel now.
SteersAtItsClaim ==
    \A a \in Slots, p \in Pilots :
        steers = <<a, p>> => /\ claim[a] = <<channel[p], p>>
                             /\ p \notin lost
                             /\ sight[p] = "open"

\* The scan never takes a pilot who is claimed as often as his class allows; a
\* claim on somebody who had his channel before does not count.
GangUpIsLimited ==
    [][\A a \in Slots, p \in Pilots :
          steers' = <<a, p>> /\ claim'[a] # claim[a] =>
              Cardinality({b \in Slots : InGame(b) /\ claim'[b] = <<channel[p], p>>}) <= NoClaim]_huntVars

Lapses(a) ==
    \A p \in Pilots :
        p \in lost /\ claim[a] # NoPrey /\ claim[a][2] = p ~> claim[a] = NoPrey \/ claim[a][2] # p

\* Those ahead of a hull act at most once each in MinTick seconds, in which
\* MinTick * MaxPerTick activations may be had: these hulls always get theirs.
Prompt == {Hulls[i] : i \in 1 .. Min({MaxPerTick * MinTick, Len(Hulls)})}

\* A claim on a pilot whose ship is lost lapses, although the release at the kill
\* does not see it and other hulls are served first: if the hull is one of those
\* the cap on activations leaves room for, however busy the others are.
ClaimsLapse == \A a \in Prompt : Lapses(a)

(* A statement the code does not keep: TLC finds a counterexample, and no run  *)
(* checks it.                                                                  *)

\* "The countdown is applied to EVERY ship before the activation cap is consulted
\* -- capping the decrement as well [...] meant a Cybertron behind a busy queue
\* never acted at all": it still need not, if those ahead take every activation.
EveryClaimLapses == \A a \in Slots : Lapses(a)
=============================================================================
