------------------------------- MODULE Flight -------------------------------
(* One captain's ship under way: engines and hyperspace, shields, cloak, the  *)
(* repair crew and the battle lock, as the commands, the one-second movement, *)
(* the one-second overspeed roll, the six-second pass and enemy fire change   *)
(* them. Speeds are counted in units of which Warp make warp 1. Energy, hull  *)
(* damage, range and aim are abstracted into what they permit or refuse: a    *)
(* step may always find too little energy, and a shot may always miss.        *)
EXTENDS Integers

CONSTANTS
    Warp,        \* WARP_THRESHOLD
    Rated,       \* the class's max_warp
    Accel,       \* the class's acceleration for one step
    Warnings,    \* overspeed warnings before the engines may break
    CloakHurt    \* bound: how far below zero the cloak may be shot

ASSUME SpeedAssumption ==
    Warp \in Nat \ {0} /\ Rated \in Nat \ {0} /\ Accel \in Nat \ {0}
ASSUME DamageAssumption == Warnings \in Nat /\ CloakHurt \in Nat \ {0}

MaxOrder == Warp * (Rated + Rated \div 2)
Ramp     == {1, 2, 10}
Broken   == {"blown", "jammed"}

VARIABLES
    where,     \* where: 0, 1, or ten and the planet's number
    speed,     \* speed
    order,     \* speed2b
    topspeed,  \* topspeed: 0 when the engines are broken
    warned,    \* warncntr
    shield,    \* shieldstat; SHIELDDM is "blown" with a charge below zero, "jammed" with none to repair
    cloak,     \* cloak: below zero damaged, 1 and 2 energising, 10 on
    lock,      \* cantexit > 0
    repair,    \* repair > 0
    paying,    \* a maint command that waits for the captain's money
    beat       \* the passes of the movement so far, modulo 2

engines == <<topspeed, warned>>
crew    == <<lock, repair, paying>>
vars    == <<where, speed, order, topspeed, warned, shield, cloak, lock, repair, paying,
             beat>>

TypeOK ==
    /\ where \in {"space", "hyper", "orbit"}
    /\ speed \in 0 .. MaxOrder /\ order \in 0 .. MaxOrder
    /\ topspeed \in 0 .. Rated /\ warned \in 0 .. Warnings + 1
    /\ shield \in {"up", "down"} \cup Broken
    /\ cloak \in -CloakHurt .. 0 \cup Ramp
    /\ lock \in BOOLEAN /\ repair \in BOOLEAN /\ paying \in BOOLEAN
    /\ beat \in {0, 1}

\* A new ship.
Init ==
    /\ where = "space" /\ speed = 0 /\ order = 0
    /\ topspeed = Rated /\ warned = 0
    /\ shield = "down" /\ cloak = 0
    /\ lock = FALSE /\ repair = FALSE /\ paying = FALSE
    /\ beat = 0

(* -------------------------------- the helm ------------------------------ *)
\* Either engine takes the ship out of orbit, and the repair crew with it.
Underway(target) ==
    /\ order' = target
    /\ where' = IF where = "orbit" THEN "space" ELSE where
    /\ repair' = (repair /\ where # "orbit")
    /\ UNCHANGED <<speed, engines, shield, cloak, lock, paying, beat>>

WarpTo(w) ==
    /\ topspeed # 0
    /\ w \in 0 .. topspeed + topspeed \div 2
    /\ Underway(Warp * w)

Impulse(i) ==
    /\ where # "hyper"
    /\ i \in 0 .. Warp - 1
    /\ Underway(i)

Orbit ==
    /\ where = "space"
    /\ where' = "orbit" /\ speed' = 0 /\ order' = 0
    /\ UNCHANGED <<engines, shield, cloak, crew, beat>>

(* ------------------------- shields, cloak, weapons ---------------------- *)
RaiseShields ==
    /\ where # "hyper" /\ shield \notin Broken
    /\ shield' = "up"
    /\ UNCHANGED <<where, speed, order, engines, cloak, crew, beat>>

\* No condition: a broken shield that is lowered can be raised again.
LowerShields ==
    /\ shield' = "down"
    /\ UNCHANGED <<where, speed, order, engines, cloak, crew, beat>>

CloakOn ==
    /\ where # "hyper" /\ cloak = 0
    /\ cloak' = 1
    /\ UNCHANGED <<where, speed, order, engines, shield, crew, beat>>

CloakOff ==
    /\ where # "hyper" /\ cloak > 0
    /\ cloak' = 0
    /\ UNCHANGED <<where, speed, order, engines, shield, crew, beat>>

Lowered == IF shield = "up" THEN "down" ELSE shield

\* Phasers and missiles lower the shields first, and then may not fire at all; a
\* torpedo lowers them as it leaves; mines, jammers and the hyper-phaser leave them
\* as they are.
Fire ==
    /\ \/ cloak <= 0 /\ shield' = (IF where = "hyper" THEN shield ELSE Lowered)
       \/ cloak <= 0 /\ shield' = Lowered
       \/ shield' = shield
    /\ lock' \in {lock, TRUE}
    /\ UNCHANGED <<where, speed, order, engines, cloak, repair, paying, beat>>

\* A hit on raised shields may break them, and leaves a charge that needs
\* repair or none that does. It may damage the shields or the cloak besides,
\* raised or not, and a lock may be taken without a hit.
Hit ==
    /\ shield' \in {shield} \cup Broken
    /\ cloak' \in {cloak} \cup -CloakHurt .. 0
    /\ lock' \in {lock, TRUE}
    /\ UNCHANGED <<where, speed, order, engines, repair, paying, beat>>

(* ------------------------------ maintenance ----------------------------- *)
Maint ==
    /\ ~paying
    /\ where = "orbit" /\ ~lock
    /\ paying' = TRUE
    /\ UNCHANGED <<where, speed, order, engines, shield, cloak, lock, repair, beat>>

\* The answer may find the ship anywhere: its captain may be back on another
\* connection, whose commands do not wait for those of the first.
Paid ==
    /\ paying
    /\ paying' = FALSE
    /\ repair' \in {repair, TRUE}
    /\ UNCHANGED <<where, speed, order, engines, shield, cloak, lock, beat>>

(* ------------------------- the one-second movement ---------------------- *)
Nearer(a, b) == IF a <= b THEN a ELSE b

\* Mutant of Stepped: a gap smaller than the step is left open.
SteppedShort ==
    IF order >= speed + Accel THEN speed + Accel
    ELSE IF speed - order >= 2 * Accel THEN speed - 2 * Accel ELSE speed

\* accelerationStep: up by Accel, down by twice as much, and never past the order.
Stepped ==
    IF order > speed THEN Nearer(order, speed + Accel)
    ELSE IF speed - order <= 2 * Accel THEN order ELSE speed - 2 * Accel

\* Only a climb beyond warp 1 that does not reach its order costs energy.
Costly == order > speed + Accel /\ speed >= Warp

\* Mutant of AtTheRim: the rim stops the ship and leaves it in hyperspace.
AtTheRimKept(there) == there

\* Whoever is thrown back from the rim of the galaxy is out of hyperspace.
AtTheRim(there) == IF there = "hyper" THEN "space" ELSE there

Physics ==
    /\ where # "orbit"
    /\ \E refused, spent, rim \in BOOLEAN :
         LET reached == IF refused THEN speed ELSE Stepped
             enters  == speed < Warp /\ reached >= Warp
             leaves  == speed >= Warp /\ reached < Warp
             there   == IF enters THEN "hyper" ELSE IF leaves THEN "space" ELSE where
         IN /\ refused => Costly
            /\ (spent \/ rim) => reached > 0
            /\ speed' = IF rim THEN 0 ELSE reached
            /\ order' = IF refused \/ spent \/ rim THEN 0 ELSE order
            /\ where' = IF rim THEN AtTheRim(there) ELSE there
            /\ shield' = IF enters THEN Lowered ELSE shield
            /\ cloak' = IF enters /\ cloak > 0 THEN 0 ELSE cloak
    /\ beat' = 1 - beat
    /\ UNCHANGED <<engines, crew>>

(* ------------------------------ overspeed ------------------------------- *)
TooFast == speed \div Warp > topspeed /\ speed <= order

Overspeed ==
    /\ speed > Warp
    /\ \/ /\ TooFast /\ warned <= Warnings
          /\ warned' = warned + 1
          /\ UNCHANGED <<topspeed, order>>
       \/ /\ TooFast /\ warned > Warnings
          /\ topspeed' = 0 /\ order' = 0
          /\ UNCHANGED warned
       \/ /\ ~TooFast /\ warned > 0
          /\ topspeed' = topspeed \div warned
          /\ order' = Nearer(order, Warp * (topspeed \div warned))
          /\ warned' = 0
    /\ UNCHANGED <<where, speed, shield, cloak, crew, beat>>

(* --------------------------- the six-second pass ------------------------ *)
\* A ship that a captain boards has no maxWarp: only the boot, which loads the
\* computer's ships, sets it. So its top speed stays what it was.
Restored == topspeed

NextRamp == IF cloak = 1 THEN 2 ELSE 10

\* Damage control, in its order: the crew's last day, the shields, the cloak
\* and the shields' power, and the battle lock.
SixSeconds ==
    \E done, mended, shielding, cloaking \in BOOLEAN :
      LET finished == repair /\ ~lock /\ done
          fixed    == IF finished THEN "down" ELSE shield
          repaired == IF fixed = "blown" /\ mended THEN "down" ELSE fixed
      IN /\ repair' = (repair /\ ~lock /\ ~done)
         /\ topspeed' = IF finished THEN Restored ELSE topspeed
         /\ shield' = IF repaired = "up" /\ ~shielding THEN "down" ELSE repaired
         /\ cloak' = IF cloak < 0 THEN cloak + 1
                     ELSE IF cloak = 0 \/ ~cloaking THEN 0
                     ELSE NextRamp
         /\ lock' \in {FALSE, lock}
         /\ UNCHANGED <<where, speed, order, warned, paying, beat>>

(* ------------------------------------------------------------------------ *)
Next ==
    \/ \E w \in 0 .. Rated + Rated \div 2 : WarpTo(w)
    \/ \E i \in 0 .. Warp - 1 : Impulse(i)
    \/ Orbit \/ RaiseShields \/ LowerShields \/ CloakOn \/ CloakOff
    \/ Fire \/ Hit \/ Maint \/ Paid
    \/ Physics \/ Overspeed \/ SixSeconds

\* The timer moves every third of the fleet again and again.
Spec == Init /\ [][Next]_vars /\ WF_vars(Physics)

(* ------------------------------ properties ------------------------------ *)
\* A ship is in hyperspace exactly while it makes warp 1 or more, and it has
\* neither shields nor cloak there; in orbit it lies still. The speed is set by
\* the helm, the engines, the rim and the planets, the flags by each of them.
HyperspaceIsBare ==
    /\ where = "hyper" <=> speed >= Warp
    /\ where = "hyper" => shield # "up" /\ cloak <= 0
    /\ where = "orbit" => speed = 0

\* A ship whose engines are stopped, by its captain, by empty energy banks or by
\* their breaking, comes to rest unless somebody orders another speed.
ComesToRest == order = 0 ~> speed = 0 \/ order # 0

(* A statement of the sources that the code does not keep: TLC finds a          *)
(* counterexample, and no run checks it.                                        *)

\* "A finished repair puts the ship back to factory condition": its top speed
\* above all. Only hulls loaded at boot, the computer's, have the value to restore.
RepairRestoresEngines ==
    [][SixSeconds /\ where = "orbit" /\ repair /\ ~lock /\ ~repair' => topspeed' = Rated]_vars
=============================================================================
