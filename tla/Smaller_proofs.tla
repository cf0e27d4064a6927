---------------------------- MODULE Smaller_proofs ----------------------------
(***************************************************************************)
(* The four components whose proofs are short. For any warp, any rating of *)
(* the engines and any acceleration: a ship is in hyperspace exactly while *)
(* it makes warp 1 or more, and is bare there (Flight). For any fleet and  *)
(* stride: a ship moves every Stride seconds (SecondTick). For any hulls   *)
(* and pilots: the Cybertrons hunt whom they claim, and not too many of    *)
(* them hunt one (Cybertrons). For any accounts and sockets: the cap on an *)
(* account's sockets sees them all and holds (Admission). The four share   *)
(* no state; their names are disjoint, so that one module can extend them  *)
(* and has their assumptions as facts.                                     *)
(***************************************************************************)
EXTENDS Flight, Admission, SecondTick, Cybertrons,
        FiniteSetTheorems, WellFoundedInduction, TLAPS

\* The speeds a captain may order are numbers, and ordering is monotonic.
LEMMA OrdersAreBounded ==
    ASSUME NEW t \in 0 .. Rated, NEW w \in 0 .. t + t \div 2
    PROVE  Warp * w \in 0 .. MaxOrder
  <1>1. Warp \in Nat /\ Rated \in Nat /\ t \in Nat /\ t <= Rated
    BY SpeedAssumption
  <1>2. t \div 2 \in Nat /\ Rated \div 2 \in Nat /\ t \div 2 <= Rated \div 2
    BY <1>1
  <1>3. w \in Nat /\ w <= Rated + Rated \div 2
    BY <1>1, <1>2
  <1> DEFINE m == Rated + Rated \div 2
  <1>4. m \in Nat /\ w <= m
    BY <1>1, <1>2, <1>3
  <1> HIDE DEF m
  <1>5. m - w \in Nat /\ Warp * m = Warp * w + Warp * (m - w)
    BY <1>1, <1>3, <1>4
  <1>6. Warp * (m - w) \in Nat /\ Warp * w \in Nat /\ Warp * m \in Nat
    BY <1>1, <1>3, <1>4, <1>5
  <1>7. Warp * w \in 0 .. Warp * m
    BY <1>5, <1>6
  <1> QED BY <1>7 DEF m, MaxOrder

\* A top speed that is divided stays within its bounds.
LEMMA DividedIsBounded ==
    ASSUME NEW t \in 0 .. Rated, NEW n \in Nat \ {0}
    PROVE  t \div n \in 0 .. t
  <1>1. t \in Nat
    BY SpeedAssumption
  <1> DEFINE q == t \div n
  <1>2. q \in Int /\ t = n * q + (t % n) /\ t % n \in 0 .. n - 1
    BY <1>1
  <1> HIDE DEF q
  <1>3. q >= 0
    <2>1. SUFFICES ASSUME q <= -1 PROVE FALSE
      BY <1>2
    <2>2. n * q <= -n
      BY <1>2, <2>1
    <2> QED BY <1>1, <1>2, <2>2
  <1>4. q <= n * q
    BY <1>2, <1>3
  <1> QED BY <1>1, <1>2, <1>3, <1>4 DEF q

LEMMA MaxOrderIsNat == MaxOrder \in Nat
  <1>1. Warp * 0 \in 0 .. MaxOrder /\ Warp \in Nat
    BY OrdersAreBounded, SpeedAssumption
  <1>2. Rated + Rated \div 2 \in Nat
    BY SpeedAssumption
  <1> QED BY <1>1, <1>2 DEF MaxOrder

\* Both follow from each other's steps: the speed is typed by the order it
\* approaches, and what a ship wears in hyperspace by what each step may set.
IInv == TypeOK /\ HyperspaceIsBare

LEMMA InitSound == Init => IInv
  <1> SUFFICES ASSUME Init PROVE IInv
    OBVIOUS
  <1>1. speed \in 0 .. MaxOrder /\ order \in 0 .. MaxOrder
    BY MaxOrderIsNat DEF Init
  <1>2. topspeed \in 0 .. Rated /\ warned \in 0 .. Warnings + 1 /\ cloak \in -CloakHurt .. 0
    BY SpeedAssumption, DamageAssumption DEF Init
  <1>3. TypeOK
    BY <1>1, <1>2 DEF Init, TypeOK
  <1>4. HyperspaceIsBare
    BY SpeedAssumption DEF Init, HyperspaceIsBare
  <1> QED BY <1>3, <1>4 DEF IInv

-----------------------------------------------------------------------------
(* The helm and the engines.                                               *)

\* An order within bounds keeps both, from orbit as in flight.
LEMMA UnderwayKeeps ==
    ASSUME IInv, NEW target \in 0 .. MaxOrder, Underway(target)
    PROVE  IInv'
  BY SpeedAssumption
     DEF IInv, TypeOK, HyperspaceIsBare, Underway, engines

LEMMA HelmKeeps ==
    ASSUME IInv,
           \/ \E w \in 0 .. Rated + Rated \div 2 : WarpTo(w)
           \/ \E i \in 0 .. Warp - 1 : Impulse(i)
           \/ Orbit
    PROVE  IInv'
  <1>1. ASSUME NEW w \in 0 .. Rated + Rated \div 2, WarpTo(w)
        PROVE  IInv'
    <2>1. Warp * w \in 0 .. MaxOrder
      BY <1>1, OrdersAreBounded DEF WarpTo, IInv, TypeOK
    <2> QED BY <1>1, <2>1, UnderwayKeeps DEF WarpTo
  <1>2. ASSUME NEW i \in 0 .. Warp - 1, Impulse(i)
        PROVE  IInv'
    <2>1. Warp * 1 \in 0 .. MaxOrder
      <3>1. 1 \in 0 .. Rated + Rated \div 2 /\ Rated \in 0 .. Rated
        BY SpeedAssumption
      <3> QED BY <3>1, OrdersAreBounded
    <2>2. i \in 0 .. MaxOrder
      BY <2>1, SpeedAssumption, MaxOrderIsNat
    <2> QED BY <1>2, <2>2, UnderwayKeeps DEF Impulse
  <1>3. CASE Orbit
    BY <1>3, SpeedAssumption, MaxOrderIsNat
       DEF IInv, TypeOK, HyperspaceIsBare, Orbit, engines, crew
  <1> QED BY <1>1, <1>2, <1>3

\* A step of the engines ends between the speed and the order.
LEMMA SteppedIsBounded ==
    ASSUME TypeOK
    PROVE  Stepped \in 0 .. MaxOrder
  BY SpeedAssumption, MaxOrderIsNat DEF TypeOK, Stepped, Nearer

LEMMA PhysicsKeeps ==
    ASSUME IInv, Physics
    PROVE  IInv'
  <1> PICK refused, spent, rim \in BOOLEAN :
         LET reached == IF refused THEN speed ELSE Stepped
             enters  == speed < Warp /\ reached >= Warp
             leaves  == speed >= Warp /\ reached < Warp
             there   == IF enters THEN "hyper" ELSE IF leaves THEN "space" ELSE where
         IN /\ refused => Costly
            /\ (spent \/ rim) => reached > 0
            /\ speed' = IF rim THEN 0 ELSE reached
            /\ order' = IF refused \/ spent \/ rim THEN 0 ELSE order
            /\ where' = IF rim THEN AtTheRim(there) ELSE there
            /\ shield' = IF enters THEN Lowered ELSE shield
            /\ cloak' = IF enters /\ cloak > 0 THEN 0 ELSE cloak
    BY DEF Physics
  <1> DEFINE reached == IF refused THEN speed ELSE Stepped
             enters  == speed < Warp /\ reached >= Warp
             leaves  == speed >= Warp /\ reached < Warp
             there   == IF enters THEN "hyper" ELSE IF leaves THEN "space" ELSE where
  <1>1. reached \in 0 .. MaxOrder /\ reached \in Int
    BY SteppedIsBounded, MaxOrderIsNat DEF IInv, TypeOK
  <1>2. /\ speed' = IF rim THEN 0 ELSE reached
        /\ order' \in {0, order}
        /\ where' = IF rim THEN AtTheRim(there) ELSE there
        /\ shield' = IF enters THEN Lowered ELSE shield
        /\ cloak' = IF enters /\ cloak > 0 THEN 0 ELSE cloak
        /\ beat' = 1 - beat /\ where # "orbit"
        /\ UNCHANGED <<topspeed, warned, lock, repair, paying>>
    BY DEF Physics, engines, crew
  <1> HIDE DEF reached
  <1>3. TypeOK'
    BY <1>1, <1>2, SpeedAssumption, DamageAssumption, MaxOrderIsNat
       DEF IInv, TypeOK, AtTheRim, Lowered, Ramp, Broken
  <1>4. there = "hyper" <=> reached >= Warp
    BY <1>1, <1>2, SpeedAssumption, MaxOrderIsNat DEF IInv, TypeOK, HyperspaceIsBare
  <1>5. (where' = "hyper" <=> speed' >= Warp) /\ where' # "orbit"
    BY <1>1, <1>2, <1>4, SpeedAssumption DEF IInv, TypeOK, AtTheRim
  <1>6. where' = "hyper" => shield' # "up" /\ cloak' <= 0
    BY <1>1, <1>2, <1>4, SpeedAssumption, DamageAssumption, MaxOrderIsNat
       DEF IInv, TypeOK, HyperspaceIsBare, AtTheRim, Lowered, Ramp
  <1> QED BY <1>3, <1>5, <1>6 DEF IInv, HyperspaceIsBare

LEMMA OverspeedKeeps ==
    ASSUME IInv, Overspeed
    PROVE  IInv'
  <1>1. /\ UNCHANGED <<where, speed, shield, cloak, lock, repair, paying, beat>>
        /\ topspeed' \in 0 .. Rated /\ order' \in 0 .. MaxOrder /\ warned' \in 0 .. Warnings + 1
    <2>1. CASE /\ TooFast /\ warned <= Warnings
               /\ warned' = warned + 1
               /\ UNCHANGED <<topspeed, order>>
      BY <2>1, DamageAssumption DEF IInv, TypeOK, Overspeed, crew
    <2>2. CASE /\ TooFast /\ warned > Warnings
               /\ topspeed' = 0 /\ order' = 0
               /\ UNCHANGED warned
      BY <2>2, SpeedAssumption, MaxOrderIsNat DEF IInv, TypeOK, Overspeed, crew
    <2>3. CASE /\ ~TooFast /\ warned > 0
               /\ topspeed' = topspeed \div warned
               /\ order' = Nearer(order, Warp * (topspeed \div warned))
               /\ warned' = 0
      <3> DEFINE q == topspeed \div warned
      <3>1. warned \in Nat \ {0} /\ topspeed \in 0 .. Rated
        BY <2>3, DamageAssumption DEF IInv, TypeOK
      <3>2. q \in 0 .. topspeed
        BY <3>1, DividedIsBounded
      <3> HIDE DEF q
      <3>3. q \in 0 .. Rated /\ q \in 0 .. q + q \div 2
        BY <3>1, <3>2, SpeedAssumption
      <3>4. Warp * q \in 0 .. MaxOrder
        BY <3>3, OrdersAreBounded
      <3>5. topspeed' = q /\ order' \in {order, Warp * q} /\ warned' = 0
        BY <2>3 DEF q, Nearer
      <3> QED BY <3>3, <3>4, <3>5, DamageAssumption DEF IInv, TypeOK, Overspeed, crew
    <2> QED BY <2>1, <2>2, <2>3 DEF Overspeed
  <1> QED BY <1>1 DEF IInv, TypeOK, HyperspaceIsBare

-----------------------------------------------------------------------------
(* Shields, cloak, weapons, maintenance and the six-second pass.           *)

LEMMA SwitchesKeep ==
    ASSUME IInv, RaiseShields \/ LowerShields \/ CloakOn \/ CloakOff
    PROVE  IInv'
  BY DamageAssumption
     DEF IInv, TypeOK, HyperspaceIsBare, RaiseShields, LowerShields, CloakOn, CloakOff,
         Ramp, Broken, engines, crew

LEMMA FireKeeps ==
    ASSUME IInv, Fire
    PROVE  IInv'
  <1>1. /\ UNCHANGED <<where, speed, order, topspeed, warned, cloak, repair, paying, beat>>
        /\ lock' \in BOOLEAN /\ shield' \in {shield, Lowered}
    BY DEF Fire, IInv, TypeOK, engines
  <1> QED BY <1>1 DEF IInv, TypeOK, HyperspaceIsBare, Lowered, Broken

LEMMA HitKeeps ==
    ASSUME IInv, Hit
    PROVE  IInv'
  <1>1. /\ UNCHANGED <<where, speed, order, topspeed, warned, repair, paying, beat>>
        /\ lock' \in BOOLEAN /\ shield' \in {shield, "blown", "jammed"}
        /\ cloak' \in {cloak} \cup -CloakHurt .. 0
    BY DEF Hit, IInv, TypeOK, engines, Broken
  <1> QED BY <1>1, DamageAssumption DEF IInv, TypeOK, HyperspaceIsBare, Broken, Ramp

LEMMA MaintenanceKeeps ==
    ASSUME IInv, Maint \/ Paid
    PROVE  IInv'
  BY DEF IInv, TypeOK, HyperspaceIsBare, Maint, Paid, engines

LEMMA SixSecondsKeeps ==
    ASSUME IInv, SixSeconds
    PROVE  IInv'
  <1>1. /\ UNCHANGED <<where, speed, order, warned, paying, beat>>
        /\ repair' \in BOOLEAN /\ lock' \in BOOLEAN /\ topspeed' = topspeed
        /\ shield' \in {shield, "down"}
        /\ cloak' \in (IF cloak < 0 THEN {cloak + 1} ELSE IF cloak = 0 THEN {0} ELSE {0, 2, 10})
    <2>1. PICK done, mended, shielding, cloaking \in BOOLEAN :
             LET finished == repair /\ ~lock /\ done
                 fixed    == IF finished THEN "down" ELSE shield
                 repaired == IF fixed = "blown" /\ mended THEN "down" ELSE fixed
             IN /\ repair' = (repair /\ ~lock /\ ~done)
                /\ topspeed' = IF finished THEN Restored ELSE topspeed
                /\ shield' = IF repaired = "up" /\ ~shielding THEN "down" ELSE repaired
                /\ cloak' = IF cloak < 0 THEN cloak + 1
                            ELSE IF cloak = 0 \/ ~cloaking THEN 0
                            ELSE NextRamp
                /\ lock' \in {FALSE, lock}
                /\ UNCHANGED <<where, speed, order, warned, paying, beat>>
      BY DEF SixSeconds
    <2>2. repair' \in BOOLEAN /\ lock' \in BOOLEAN /\ topspeed' = topspeed
      BY <2>1, Zenon DEF IInv, TypeOK, Restored
    <2>3. shield' \in {shield, "down"}
      BY <2>1
    <2>4. cloak' \in (IF cloak < 0 THEN {cloak + 1} ELSE IF cloak = 0 THEN {0} ELSE {0, 2, 10})
      BY <2>1 DEF NextRamp
    <2> QED BY <2>1, <2>2, <2>3, <2>4
  <1> QED BY <1>1, DamageAssumption DEF IInv, TypeOK, HyperspaceIsBare, Broken, Ramp

LEMMA NextKeeps ==
    ASSUME IInv, [Next]_vars
    PROVE  IInv'
  <1>1. CASE \/ \E w \in 0 .. Rated + Rated \div 2 : WarpTo(w)
             \/ \E i \in 0 .. Warp - 1 : Impulse(i)
             \/ Orbit
    BY <1>1, HelmKeeps
  <1>2. CASE RaiseShields \/ LowerShields \/ CloakOn \/ CloakOff
    BY <1>2, SwitchesKeep
  <1>3. CASE Fire
    BY <1>3, FireKeeps
  <1>4. CASE Hit
    BY <1>4, HitKeeps
  <1>5. CASE Maint \/ Paid
    BY <1>5, MaintenanceKeeps
  <1>6. CASE Physics
    BY <1>6, PhysicsKeeps
  <1>7. CASE Overspeed
    BY <1>7, OverspeedKeeps
  <1>8. CASE SixSeconds
    BY <1>8, SixSecondsKeeps
  <1>9. CASE UNCHANGED vars
    BY <1>9 DEF vars, IInv, TypeOK, HyperspaceIsBare
  <1> QED BY <1>1, <1>2, <1>3, <1>4, <1>5, <1>6, <1>7, <1>8, <1>9 DEF Next

\* Every behaviour of a ship under way is type correct.
THEOREM TypeCorrect == Spec => []TypeOK
  <1>1. IInv => TypeOK
    BY DEF IInv
  <1> QED BY InitSound, NextKeeps, <1>1, PTL DEF Spec

\* Whatever the helm, the rim, the energy banks, the planets and enemy fire do,
\* speed and hyperspace agree and a ship is bare there (applyAcceleration).
THEOREM HyperspaceStaysBare == Spec => []HyperspaceIsBare
  <1>1. IInv => HyperspaceIsBare
    BY DEF IInv
  <1> QED BY InitSound, NextKeeps, <1>1, PTL DEF Spec
-----------------------------------------------------------------------------
(* Lists that are filtered, and the least of a set.                        *)

LEMMA Least ==
    ASSUME NEW T \in SUBSET Nat, T # {}
    PROVE  \E n \in T : \A m \in T : n <= m
  <1>1. IsWellFoundedOn(OpToRel(<, Nat), Nat)
    BY NatLessThanWellFounded
  <1>2. PICK n \in T : \A m \in T : ~ (<<m, n>> \in OpToRel(<, Nat))
    BY <1>1, WFMin
  <1>3. OpToRel(<, Nat) = {pair \in Nat \X Nat : pair[1] < pair[2]}
    BY Zenon DEF OpToRel
  <1>4. ASSUME NEW m \in T PROVE ~ (m < n)
    <2>1. <<m, n>> \notin {pair \in Nat \X Nat : pair[1] < pair[2]}
      BY <1>2, <1>3
    <2> QED BY <2>1
  <1> QED BY <1>4

\* The function f gives, for each i up to n, what is kept of the first i.
Added(s, K, f, i) ==
    IF i = 0 THEN <<>>
    ELSE IF s[i] \in K THEN Append(f[i - 1], s[i]) ELSE f[i - 1]

Filters(s, K, f, n) == f = [i \in 0 .. n |-> Added(s, K, f, i)]

LEMMA FilteredIsChosen ==
    ASSUME NEW s, NEW K
    PROVE  Filtered(s, K) = (CHOOSE f : Filters(s, K, f, Len(s)))[Len(s)]
  BY DEF Filtered, Filters, Added

LEMMA FiltersExist ==
    ASSUME NEW s, NEW K, NEW k \in Nat
    PROVE  \E f : Filters(s, K, f, k)
  <1> DEFINE Missing == {n \in Nat : ~ \E f : Filters(s, K, f, n)}
  <1> SUFFICES ASSUME Missing # {} PROVE FALSE
    OBVIOUS
  <1>1. PICK n \in Missing : \A m \in Missing : n <= m
    BY Least
  <1>2. CASE n = 0
    <2>1. Filters(s, K, [i \in 0 .. 0 |-> <<>>], 0)
      BY DEF Filters, Added
    <2> QED BY <1>1, <1>2, <2>1
  <1>3. CASE n # 0
    <2>1. PICK f : Filters(s, K, f, n - 1)
      BY <1>1, <1>3
    <2> DEFINE g == [i \in 0 .. n |-> Added(s, K, f, i)]
    <2>2. ASSUME NEW i \in 0 .. n PROVE g[i] = Added(s, K, g, i)
      <3>1. CASE i = 0
        BY <3>1 DEF Added
      <3>2. CASE i # 0
        <4>1. i - 1 \in 0 .. n /\ i - 1 \in 0 .. n - 1
          BY <1>1, <3>2
        <4>2. f[i - 1] = Added(s, K, f, i - 1)
          BY <2>1, <4>1 DEF Filters
        <4>3. g[i - 1] = f[i - 1]
          BY <4>1, <4>2
        <4> QED BY <3>2, <4>3 DEF Added
      <3> QED BY <3>1, <3>2
    <2>3. g = [i \in 0 .. n |-> Added(s, K, g, i)]
      BY <2>2
    <2> QED BY <1>1, <2>3 DEF Filters
  <1> QED BY <1>2, <1>3

\* The list r is what is kept of the first i members of s.
KeptOf(S, s, K, r, i) ==
    /\ r \in Seq(S) /\ Len(r) <= i
    /\ \A x : (\E k \in 1 .. Len(r) : r[k] = x) <=> x \in K /\ \E j \in 1 .. i : s[j] = x

\* Array.prototype.filter keeps what is in K and nothing else, and makes no
\* list longer.
LEMMA FilteredFacts ==
    ASSUME NEW S, NEW s \in Seq(S), NEW K
    PROVE  /\ Filtered(s, K) \in Seq(S)
           /\ Len(Filtered(s, K)) <= Len(s)
           /\ ToSet(Filtered(s, K)) = ToSet(s) \cap K
  <1> DEFINE f == CHOOSE g : Filters(s, K, g, Len(s))
             Odd == {n \in Nat : n <= Len(s) /\ ~ KeptOf(S, s, K, f[n], n)}
  <1>1. Filters(s, K, f, Len(s)) /\ Len(s) \in Nat
    BY FiltersExist
  <1>2. Filtered(s, K) = f[Len(s)]
    BY FilteredIsChosen
  <1> HIDE DEF f
  <1>3. \A i \in 0 .. Len(s) : f[i] = Added(s, K, f, i)
    BY <1>1 DEF Filters
  <1>4. Odd = {}
    <2> SUFFICES ASSUME Odd # {} PROVE FALSE
      OBVIOUS
    <2>1. PICK n \in Odd : \A m \in Odd : n <= m
      BY Least
    <2>2. n \in Nat /\ n <= Len(s) /\ ~ KeptOf(S, s, K, f[n], n)
      BY <2>1
    <2>3. CASE n = 0
      <3>1. f[0] = <<>>
        BY <1>1, <1>3 DEF Added
      <3>2. KeptOf(S, s, K, <<>>, 0)
        BY DEF KeptOf
      <3> QED BY <2>2, <2>3, <3>1, <3>2
    <2>4. CASE n # 0
      <3> DEFINE r == f[n - 1]
                 e == s[n]
      <3>1. n \in 1 .. Len(s) /\ n \in 0 .. Len(s) /\ n - 1 \in Nat /\ n - 1 <= Len(s) /\ e \in S
        BY <1>1, <2>2, <2>4
      <3>2. KeptOf(S, s, K, r, n - 1)
        <4>1. n - 1 \notin Odd
          BY <2>1, <3>1
        <4> QED BY <3>1, <4>1
      <3>3. f[n] = IF e \in K THEN Append(r, e) ELSE r
        BY <1>3, <2>4, <3>1 DEF Added
      <3> HIDE DEF r, Odd
      <3>4. \A x : (\E i \in 1 .. n : s[i] = x) <=> x = e \/ \E i \in 1 .. n - 1 : s[i] = x
        BY <3>1
      <3> HIDE DEF e
      <3>5. CASE e \in K
        <4>1. /\ Append(r, e) \in Seq(S) /\ Len(Append(r, e)) = Len(r) + 1 /\ Len(r) \in Nat
              /\ Append(r, e)[Len(r) + 1] = e
              /\ \A k \in 1 .. Len(r) : Append(r, e)[k] = r[k]
          BY <3>1, <3>2 DEF KeptOf
        <4>2. \A x : (\E k \in 1 .. Len(Append(r, e)) : Append(r, e)[k] = x)
                       <=> x = e \/ \E k \in 1 .. Len(r) : r[k] = x
          BY <4>1
        <4>3. Len(Append(r, e)) <= n
          BY <3>1, <3>2, <4>1 DEF KeptOf
        <4>4. KeptOf(S, s, K, Append(r, e), n)
          BY <3>2, <3>4, <3>5, <4>1, <4>2, <4>3 DEF KeptOf
        <4> QED BY <2>2, <3>3, <3>5, <4>4
      <3>6. CASE e \notin K
        <4>1. r \in Seq(S) /\ Len(r) <= n
          BY <3>1, <3>2 DEF KeptOf
        <4>2. \A x : (\E k \in 1 .. Len(r) : r[k] = x) <=> x \in K /\ \E i \in 1 .. n : s[i] = x
          BY <3>2, <3>4, <3>6 DEF KeptOf
        <4>3. KeptOf(S, s, K, r, n)
          BY <4>1, <4>2 DEF KeptOf
        <4> QED BY <2>2, <3>3, <3>6, <4>3
      <3> QED BY <3>5, <3>6
    <2> QED BY <2>3, <2>4
  <1>5. KeptOf(S, s, K, f[Len(s)], Len(s))
    BY <1>1, <1>4
  <1>6. \A q \in Seq(S) : \A x : x \in ToSet(q) <=> \E k \in 1 .. Len(q) : q[k] = x
    BY DEF ToSet
  <1> QED BY <1>2, <1>5, <1>6 DEF KeptOf

\* Array.prototype.push.
LEMMA AppendedFacts ==
    ASSUME NEW S, NEW e \in S, NEW q \in Seq(S), NEW x
    PROVE  x \in ToSet(Append(q, e)) <=> x \in ToSet(q) \/ x = e
  <1>1. /\ Append(q, e) \in Seq(S) /\ Len(Append(q, e)) = Len(q) + 1 /\ Len(q) \in Nat
        /\ Append(q, e)[Len(q) + 1] = e /\ \A k \in 1 .. Len(q) : Append(q, e)[k] = q[k]
    OBVIOUS
  <1> DEFINE r == Append(q, e)
             n == Len(q)
  <1>2. /\ x \in ToSet(q) <=> \E k \in 1 .. n : q[k] = x
        /\ x \in ToSet(r) <=> \E k \in 1 .. Len(r) : r[k] = x
    BY <1>1 DEF ToSet
  <1>3. n \in Nat /\ Len(r) = n + 1 /\ r[n + 1] = e /\ \A k \in 1 .. n : r[k] = q[k]
    BY <1>1
  <1> HIDE DEF r, n
  <1>4. 1 .. Len(r) = (1 .. n) \cup {n + 1}
    BY <1>3
  <1>5. (\E k \in 1 .. Len(r) : r[k] = x) <=> (\E k \in 1 .. n : q[k] = x) \/ x = e
    BY <1>3, <1>4
  <1>6. x \in ToSet(r) <=> x \in ToSet(q) \/ x = e
    BY <1>2, <1>5
  <1> QED BY <1>6 DEF r

-----------------------------------------------------------------------------
(* Admission.                                                              *)

\* From 1 to n there are n numbers.
LEMMA CountingTo ==
    ASSUME NEW n \in Nat
    PROVE  IsFiniteSet(1 .. n) /\ Cardinality(1 .. n) = n
  <1>1. IsFiniteSet(1 .. n) /\ Cardinality(1 .. n) = IF 1 > n THEN 0 ELSE n - 1 + 1
    BY FS_Interval
  <1> QED BY <1>1

\* A list has no more members than places.
LEMMA MembersBound ==
    ASSUME NEW S, NEW q \in Seq(S)
    PROVE  IsFiniteSet(ToSet(q)) /\ Cardinality(ToSet(q)) <= Len(q)
  <1> DEFINE at == [i \in 1 .. Len(q) |-> q[i]]
  <1>1. Len(q) \in Nat /\ DOMAIN q = 1 .. Len(q)
    OBVIOUS
  <1>2. at \in Surjection(1 .. Len(q), ToSet(q))
    BY <1>1 DEF Surjection, ToSet
  <1>3. IsFiniteSet(1 .. Len(q)) /\ Cardinality(1 .. Len(q)) = Len(q)
    BY <1>1, CountingTo
  <1> HIDE DEF at
  <1>4. IsFiniteSet(ToSet(q)) /\ Cardinality(ToSet(q)) <= Cardinality(1 .. Len(q))
    BY <1>2, <1>3, FS_Surjection
  <1> QED BY <1>3, <1>4

\* Who arrives is on the list, which is within the cap, and whoever is no longer
\* on it has been closed.
LEMMA CappedFacts ==
    ASSUME NEW s \in Sockets,
           socketsByUser[Account[s]] \in Seq(Sockets)
    PROVE  /\ Capped(s) \in Seq(Sockets) /\ Len(Capped(s)) <= MaxSockets
           /\ s \in ToSet(Capped(s))
           /\ ToSet(Capped(s)) \subseteq ToSet(socketsByUser[Account[s]]) \cup {s}
           /\ ToSet(socketsByUser[Account[s]]) \subseteq ToSet(Capped(s)) \cup Evicted(s)
  <1> DEFINE o == Others(s)
             l == socketsByUser[Account[s]]
             M == MaxSockets
             all == Append(o, s)
             c == Capped(s)
  <1>1. o \in Seq(Sockets) /\ ToSet(o) = ToSet(l) \cap (Sockets \ {s})
    BY FilteredFacts DEF Others
  <1>2. ToSet(l) \subseteq ToSet(o) \cup {s}
    <2>1. ToSet(l) \subseteq Sockets
      BY DEF ToSet
    <2> QED BY <1>1, <2>1
  <1>3. M \in Nat \ {0}
    BY CapsAssumption
  <1>4. /\ c = IF Len(all) > M THEN SubSeq(all, Len(all) - M + 1, Len(all)) ELSE all
        /\ Evicted(s) = IF Len(o) + 1 > M THEN ToSet(SubSeq(o, 1, Len(o) + 1 - M)) ELSE {}
    BY DEF Capped, Evicted
  <1> HIDE DEF o, l, M, c
  <1>5. /\ all \in Seq(Sockets) /\ Len(all) = Len(o) + 1 /\ Len(o) \in Nat
        /\ all[Len(o) + 1] = s /\ \A i \in 1 .. Len(o) : all[i] = o[i]
    BY <1>1
  <1> HIDE DEF all
  <1>6. \A q \in Seq(Sockets) : \A x : x \in ToSet(q) <=> \E k \in 1 .. Len(q) : q[k] = x
    BY DEF ToSet
  <1>7. ToSet(all) = ToSet(o) \cup {s}
    <2>1. \A x : x \in ToSet(all) <=> x \in ToSet(o) \/ x = s
      <3> SUFFICES ASSUME NEW x PROVE x \in ToSet(all) <=> x \in ToSet(o) \/ x = s
        OBVIOUS
      <3>1. x \in ToSet(all) <=> \E k \in 1 .. Len(all) : all[k] = x
        BY <1>5, <1>6
      <3>2. x \in ToSet(o) <=> \E k \in 1 .. Len(o) : o[k] = x
        BY <1>1, <1>6
      <3>3. 1 .. Len(all) = (1 .. Len(o)) \cup {Len(o) + 1}
        BY <1>5
      <3>4. (\E k \in 1 .. Len(all) : all[k] = x) <=> (\E k \in 1 .. Len(o) : o[k] = x) \/ x = s
        BY <1>5, <3>3
      <3> QED BY <3>1, <3>2, <3>4
    <2> QED BY <2>1
  <1>8. CASE ~ (Len(o) + 1 > M)
    <2>1. c = all /\ Len(all) <= M
      BY <1>3, <1>4, <1>5, <1>8
    <2> QED BY <1>1, <1>2, <1>5, <1>7, <2>1 DEF c, l, M
  <1>9. CASE Len(o) + 1 > M
    <2> DEFINE d == Len(o) + 1 - M
               gone == SubSeq(o, 1, d)
    <2>1. d \in 1 .. Len(o) /\ Len(all) - M + 1 = d + 1 /\ d + M = Len(o) + 1
      BY <1>3, <1>5, <1>9
    <2>2. c = SubSeq(all, d + 1, Len(o) + 1) /\ Evicted(s) = ToSet(gone)
      BY <1>3, <1>4, <1>5, <1>9, <2>1
    <2> HIDE DEF d
    <2>3. /\ c \in Seq(Sockets) /\ Len(c) = M
          /\ \A i \in 1 .. M : c[i] = all[d + i]
      <3> DEFINE e == Len(o) + 1
      <3>1. /\ e \in Nat /\ d \in Nat /\ d + M = e /\ M \in Nat
            /\ c = SubSeq(all, d + 1, e) /\ Len(all) = e
        BY <1>3, <1>5, <2>1, <2>2
      <3> HIDE DEF e
      <3>2. \A i \in d + 1 .. e : i \in 1 .. Len(all)
        BY <3>1
      <3>3. c \in Seq(Sockets) /\ Len(c) = e - (d + 1) + 1
        BY <1>5, <3>1, <3>2
      <3>4. \A i \in 1 .. M : c[i] = all[d + i]
        BY <1>5, <3>1, <3>2
      <3> QED BY <3>1, <3>3, <3>4
    <2>4. gone \in Seq(Sockets) /\ Len(gone) = d /\ \A i \in 1 .. d : gone[i] = o[i]
      BY <1>1, <1>5, <2>1
    <2> HIDE DEF gone
    <2>5. s \in ToSet(c)
      <3>1. M \in 1 .. M /\ c[M] = s
        BY <1>3, <1>5, <2>1, <2>3
      <3> QED BY <1>6, <2>3, <3>1
    <2>6. ToSet(c) \subseteq ToSet(all)
      <3> SUFFICES ASSUME NEW i \in 1 .. M PROVE c[i] \in ToSet(all)
        BY <1>6, <2>3
      <3>1. d + i \in 1 .. Len(all)
        BY <1>3, <1>5, <2>1
      <3> QED BY <1>5, <1>6, <2>3, <3>1
    <2>7. ToSet(o) \subseteq ToSet(c) \cup ToSet(gone)
      <3> SUFFICES ASSUME NEW i \in 1 .. Len(o) PROVE o[i] \in ToSet(c) \cup ToSet(gone)
        BY <1>1, <1>6
      <3>1. CASE i <= d
        <4>1. i \in 1 .. d
          BY <2>1, <3>1
        <4> QED BY <1>6, <2>4, <4>1
      <3>2. CASE i > d
        <4>1. i - d \in 1 .. M /\ c[i - d] = o[i]
          <5>1. i - d \in 1 .. M /\ d + (i - d) = i
            BY <1>3, <1>5, <2>1, <3>2
          <5> QED BY <1>5, <2>3, <5>1
        <4> QED BY <1>6, <2>3, <4>1
      <3> QED BY <2>1, <3>1, <3>2
    <2>8. ToSet(c) \subseteq ToSet(l) \cup {s}
      BY <1>1, <1>7, <2>6
    <2>9. ToSet(l) \subseteq ToSet(c) \cup Evicted(s)
      BY <1>2, <2>2, <2>5, <2>7
    <2> QED BY <1>3, <2>3, <2>5, <2>8, <2>9 DEF c, l, M
  <1> QED BY <1>8, <1>9

\* The lists say which live sockets have been admitted: that is the cap's
\* whole view of them.
DoorInv == DoorTypeOK /\ LiveSocketsAreListed

LEMMA DoorOpens ==
    ASSUME DoorInit
    PROVE  DoorInv
  <1>1. ToSet(<<>>) = {} /\ <<>> \in Seq(Sockets) /\ Len(<<>>) <= MaxSockets
    BY CapsAssumption DEF ToSet
  <1>2. DoorTypeOK
    BY <1>1 DEF DoorInit, DoorTypeOK
  <1>3. Open = {}
    BY DEF DoorInit, Open
  <1> QED BY <1>2, <1>3 DEF DoorInv, LiveSocketsAreListed

\* What is on an account's list is of that account, and the list is short.
LEMMA ListsAreTyped ==
    ASSUME DoorTypeOK, NEW s \in Sockets
    PROVE  /\ Account[s] \in Users
           /\ socketsByUser[Account[s]] \in Seq(Sockets)
           /\ Len(socketsByUser[Account[s]]) <= MaxSockets
           /\ \A x \in ToSet(socketsByUser[Account[s]]) : x \in Sockets /\ Account[x] = Account[s]
  BY AccountAssumption DEF DoorTypeOK
\* The step changes one account's list, which stays short and of that account.
LEMMA OneListChanges ==
    ASSUME DoorTypeOK, NEW u \in Users, NEW l \in Seq(Sockets),
           socketsByUser' = [socketsByUser EXCEPT ![u] = l], Len(l) <= MaxSockets,
           \A x \in ToSet(l) : Account[x] = u,
           conn' \in [Sockets -> {"absent", "open", "closed"}],
           arrivals' \in SUBSET Arrival, presence' \in SUBSET Users,
           flying' \in SUBSET Sockets
    PROVE  DoorTypeOK'
  <1>1. \A v \in Users : socketsByUser'[v] = IF v = u THEN l ELSE socketsByUser[v]
    BY DEF DoorTypeOK
  <1>2. ToSet(l) \subseteq {s \in Sockets : Account[s] = u}
    BY DEF ToSet
  <1>3. \A v \in Users : /\ ToSet(socketsByUser'[v]) \subseteq {s \in Sockets : Account[s] = v}
                          /\ Len(socketsByUser'[v]) <= MaxSockets
    <2> SUFFICES ASSUME NEW v \in Users
                 PROVE  /\ ToSet(socketsByUser'[v]) \subseteq {s \in Sockets : Account[s] = v}
                        /\ Len(socketsByUser'[v]) <= MaxSockets
      OBVIOUS
    <2>1. CASE v = u
      BY <1>1, <1>2, <2>1
    <2>2. CASE v # u
      <3>1. socketsByUser'[v] = socketsByUser[v]
        BY <1>1, <2>2
      <3>2. /\ ToSet(socketsByUser[v]) \subseteq {s \in Sockets : Account[s] = v}
            /\ Len(socketsByUser[v]) <= MaxSockets
        BY DEF DoorTypeOK
      <3> QED BY <3>1, <3>2
    <2> QED BY <2>1, <2>2
  <1> QED BY <1>3 DEF DoorTypeOK

\* The telemetry answers: who is still live and admitted is on the new list.
LEMMA ReturnedKeeps ==
    ASSUME DoorInv,
           NEW a \in arrivals, Returned(a)
    PROVE  DoorInv'
  <1> DEFINE s == a.sock
             u == Account[s]
             l == socketsByUser[u]
             c == Capped(s)
  <1>1. a \in Arrival /\ s \in Sockets
    BY DEF DoorInv, DoorTypeOK, Arrival
  <1>2. /\ u \in Users /\ l \in Seq(Sockets)
        /\ \A x \in ToSet(l) : Account[x] = u
    BY <1>1, ListsAreTyped DEF DoorInv
  <1>3. /\ c \in Seq(Sockets) /\ Len(c) <= MaxSockets
        /\ s \in ToSet(c)
        /\ ToSet(c) \subseteq ToSet(l) \cup {s}
        /\ ToSet(l) \subseteq ToSet(c) \cup Evicted(s)
    BY <1>1, <1>2, CappedFacts
  <1>4. PICK D : /\ D \subseteq Open /\ Evicted(s) \cap Open \subseteq D
                 /\ conn' = [x \in Sockets |-> IF x \in D THEN "closed" ELSE conn[x]]
                 /\ presence' = IF D = {} THEN presence \cup {u} ELSE presence \ {u}
                 /\ socketsByUser' = [socketsByUser EXCEPT ![u] =
                                         IF s \in D THEN Filtered(c, Sockets \ {s}) ELSE c]
    <2> DEFINE D == (Evicted(s) \cup
                      IF Cardinality(Seated(u)) >= MaxSeats THEN {s} ELSE {}) \cap Open
    <2>1. /\ conn' = [x \in Sockets |-> IF x \in D THEN "closed" ELSE conn[x]]
          /\ presence' = IF D = {} THEN presence \cup {u} ELSE presence \ {u}
          /\ socketsByUser' = [socketsByUser EXCEPT ![u] =
                                  IF s \in D THEN Filtered(c, Sockets \ {s}) ELSE c]
      <3>1. /\ conn' = [x \in Sockets |-> IF x \in D THEN "closed" ELSE conn[x]]
            /\ presence' = IF D = {} THEN presence \cup {u} ELSE presence \ {u}
            /\ socketsByUser' = [socketsByUser EXCEPT ![u] =
                                    IF s \in D THEN Filtered(c, Sockets \ {s}) ELSE c]
        BY DEF Returned
      <3>2. Filtered(c, Sockets \ {s}) = Filtered(c, Sockets \ {s})
        OBVIOUS
      <3> QED BY <3>1, <3>2
    <2>2. D \subseteq Open /\ Evicted(s) \cap Open \subseteq D
      OBVIOUS
    <2> HIDE DEF D
    <2> QED BY <2>1, <2>2
  <1>5. arrivals' = arrivals \ {a} /\ flying' = flying
    BY DEF Returned
  <1> DEFINE n == IF s \in D THEN Filtered(c, Sockets \ {s}) ELSE c
  <1>6. /\ n \in Seq(Sockets) /\ Len(n) <= MaxSockets
        /\ ToSet(n) = IF s \in D THEN ToSet(c) \ {s} ELSE ToSet(c)
    <2>1. /\ Filtered(c, Sockets \ {s}) \in Seq(Sockets)
          /\ Len(Filtered(c, Sockets \ {s})) <= Len(c)
          /\ ToSet(Filtered(c, Sockets \ {s})) = ToSet(c) \cap (Sockets \ {s})
      BY <1>3, FilteredFacts
    <2>2. ToSet(c) \subseteq Sockets
      BY <1>3 DEF ToSet
    <2>3. MaxSockets \in Nat /\ Len(c) \in Nat /\ Len(Filtered(c, Sockets \ {s})) \in Nat
      BY <1>3, <2>1, CapsAssumption
    <2>4. CASE s \in D
      <3>1. ToSet(c) \cap (Sockets \ {s}) = ToSet(c) \ {s}
        BY <2>2
      <3>2. n = Filtered(c, Sockets \ {s})
        BY <2>4
      <3>3. n \in Seq(Sockets) /\ Len(n) <= MaxSockets
        BY <1>3, <2>1, <2>3, <3>2
      <3>4. ToSet(n) = ToSet(c) \ {s}
        BY <2>1, <3>1, <3>2
      <3> HIDE DEF n
      <3> QED BY <2>4, <3>3, <3>4
    <2>5. CASE s \notin D
      BY <1>3, <2>5
    <2> QED BY <2>4, <2>5
  <1> HIDE DEF n, c, l
  <1>7. \A x \in ToSet(n) : Account[x] = u
    BY <1>2, <1>3, <1>6
  <1>8. socketsByUser' = [socketsByUser EXCEPT ![u] = n]
    BY <1>4 DEF n
  <1>9. DoorTypeOK'
    <2>1. /\ conn' \in [Sockets -> {"absent", "open", "closed"}]
          /\ arrivals' \in SUBSET Arrival /\ flying' \in SUBSET Sockets
      BY <1>4, <1>5 DEF DoorInv, DoorTypeOK
    <2>2. presence' \in SUBSET Users
      BY <1>2, <1>4 DEF DoorInv, DoorTypeOK
    <2> QED BY <1>2, <1>6, <1>7, <1>8, <2>1, <2>2, OneListChanges DEF DoorInv
  <1>10. LiveSocketsAreListed'
    <2> SUFFICES ASSUME NEW x \in Sockets, conn'[x] = "open",
                        \A b \in arrivals' : b.sock # x
                 PROVE  x \in ToSet(socketsByUser'[Account[x]])
      BY DEF LiveSocketsAreListed, Admitted, Open
    <2>1. x \notin D /\ conn[x] = "open" /\ x \in Open
      BY <1>4 DEF Open
    <2>2. CASE x = s
      BY <1>2, <1>3, <1>6, <1>8, <2>1, <2>2 DEF DoorInv, DoorTypeOK
    <2>3. CASE x # s
      <3>1. Admitted(x)
        BY <1>5, <2>1, <2>3 DEF Admitted
      <3>2. x \in ToSet(socketsByUser[Account[x]])
        BY <2>1, <3>1 DEF DoorInv, LiveSocketsAreListed
      <3>3. CASE Account[x] = u
        <4>1. x \in ToSet(c)
          BY <1>3, <1>4, <2>1, <3>2, <3>3 DEF l
        <4> QED BY <1>2, <1>6, <1>8, <2>3, <3>3, <4>1 DEF DoorInv, DoorTypeOK
      <3>4. CASE Account[x] # u
        BY <1>8, <3>2, <3>4, ListsAreTyped DEF DoorInv, DoorTypeOK
      <3> QED BY <3>3, <3>4
    <2> QED BY <2>2, <2>3
  <1> QED BY <1>9, <1>10 DEF DoorInv

LEMMA DisconnectKeeps ==
    ASSUME DoorInv,
           NEW s \in Sockets, Disconnect(s)
    PROVE  DoorInv'
  <1> DEFINE u == Account[s]
             n == Filtered(socketsByUser[u], Sockets \ {s})
  <1>1. /\ u \in Users /\ socketsByUser[u] \in Seq(Sockets) /\ Len(socketsByUser[u]) <= MaxSockets
        /\ \A x \in ToSet(socketsByUser[u]) : x \in Sockets /\ Account[x] = u
    BY ListsAreTyped DEF DoorInv
  <1>2. /\ n \in Seq(Sockets) /\ Len(n) <= Len(socketsByUser[u])
        /\ ToSet(n) = ToSet(socketsByUser[u]) \cap (Sockets \ {s})
    BY <1>1, FilteredFacts
  <1>3. /\ conn' = [conn EXCEPT ![s] = "closed"]
        /\ \/ presence' = presence \ {u} /\ socketsByUser' = [socketsByUser EXCEPT ![u] = n]
           \/ presence' = presence /\ socketsByUser' = socketsByUser
        /\ arrivals' = arrivals /\ flying' = flying
    BY DEF Disconnect
  <1>4. Len(n) <= MaxSockets
    <2>1. MaxSockets \in Nat /\ Len(n) \in Nat /\ Len(socketsByUser[u]) \in Nat
      BY <1>1, <1>2, CapsAssumption
    <2> QED BY <1>1, <1>2, <2>1
  <1> HIDE DEF n
  <1>5. /\ conn' \in [Sockets -> {"absent", "open", "closed"}]
        /\ arrivals' \in SUBSET Arrival /\ flying' \in SUBSET Sockets
        /\ presence' \in SUBSET Users
    BY <1>3 DEF DoorInv, DoorTypeOK
  <1>6. DoorTypeOK'
    <2>1. CASE socketsByUser' = [socketsByUser EXCEPT ![u] = n]
      BY <1>1, <1>2, <1>4, <1>5, <2>1, OneListChanges DEF DoorInv
    <2>2. CASE socketsByUser' = socketsByUser
      BY <1>5, <2>2 DEF DoorInv, DoorTypeOK
    <2> QED BY <1>3, <2>1, <2>2
  <1>7. LiveSocketsAreListed'
    <2> SUFFICES ASSUME NEW x \in Sockets, conn'[x] = "open",
                        \A b \in arrivals' : b.sock # x
                 PROVE  x \in ToSet(socketsByUser'[Account[x]])
      BY DEF LiveSocketsAreListed, Admitted, Open
    <2>1. x # s /\ conn[x] = "open" /\ x \in Open
      BY <1>3 DEF Open, DoorInv, DoorTypeOK
    <2>2. Admitted(x)
      BY <1>3, <2>1 DEF Admitted
    <2>3. x \in ToSet(socketsByUser[Account[x]]) /\ Account[x] \in Users
      BY <2>1, <2>2, ListsAreTyped DEF DoorInv, LiveSocketsAreListed
    <2>4. CASE Account[x] = u
      BY <1>1, <1>2, <1>3, <2>1, <2>3, <2>4 DEF DoorInv, DoorTypeOK
    <2>5. CASE Account[x] # u
      BY <1>3, <2>3, <2>5 DEF DoorInv, DoorTypeOK
    <2> QED BY <2>4, <2>5
  <1> QED BY <1>6, <1>7 DEF DoorInv

\* The other steps leave the lists alone, and admit nobody who is live.
LEMMA DoorKeeps ==
    ASSUME DoorInv, [DoorNext]_doorVars
    PROVE  DoorInv'
  <1> USE DEF DoorInv
  <1>1. ASSUME socketsByUser' = socketsByUser,
               conn' \in [Sockets -> {"absent", "open", "closed"}],
               arrivals' \in SUBSET Arrival, presence' = presence,
               flying' \in SUBSET Sockets,
               \A x \in Sockets : conn'[x] = "open" /\ Admitted(x)'
                                    => conn[x] = "open" /\ Admitted(x)
        PROVE  DoorInv'
    BY <1>1 DEF DoorTypeOK, LiveSocketsAreListed, Open
  <1>2. ASSUME NEW s \in Sockets, Connect(s)
        PROVE  DoorInv'
    <2>1. /\ conn' = [conn EXCEPT ![s] = "open"]
          /\ arrivals' = arrivals \cup {[sock |-> s, at |-> "validate"]}
          /\ UNCHANGED <<presence, socketsByUser, flying>>
      BY <1>2 DEF Connect
    <2>2. ~ Admitted(s)'
      <3>1. PICK b : b = [sock |-> s, at |-> "validate"]
        OBVIOUS
      <3>2. b \in arrivals'
        BY <2>1, <3>1
      <3>3. b.sock = s
        BY <3>1
      <3> QED BY <3>2, <3>3 DEF Admitted
    <2>3. \A x \in Sockets : conn'[x] = "open" /\ Admitted(x)'
                               => conn[x] = "open" /\ Admitted(x)
      BY <2>1, <2>2 DEF Admitted, DoorTypeOK
    <2>4. /\ conn' \in [Sockets -> {"absent", "open", "closed"}]
          /\ arrivals' \in SUBSET Arrival /\ flying' \in SUBSET Sockets
      BY <2>1 DEF DoorTypeOK, Arrival
    <2> QED BY <1>1, <2>1, <2>3, <2>4
  <1>3. ASSUME NEW s \in Sockets, Board(s) \/ PutAway(s)
        PROVE  DoorInv'
    <2>1. UNCHANGED <<conn, arrivals, presence, socketsByUser>> /\ flying' \in SUBSET Sockets
      BY <1>3 DEF Board, PutAway, DoorTypeOK
    <2> QED BY <1>1, <2>1 DEF Admitted, DoorTypeOK
  <1>4. ASSUME NEW s \in Sockets, Recycle(s)
        PROVE  DoorInv'
    <2>1. conn' = [conn EXCEPT ![s] = "absent"] /\ UNCHANGED <<arrivals, presence, socketsByUser, flying>>
      BY <1>4 DEF Recycle
    <2>2. \A x \in Sockets : conn'[x] = "open" /\ Admitted(x)'
                               => conn[x] = "open" /\ Admitted(x)
      BY <2>1 DEF Admitted, DoorTypeOK
    <2> QED BY <1>1, <2>1, <2>2 DEF DoorTypeOK
  <1>5. ASSUME NEW a \in arrivals, Rejected(a)
        PROVE  DoorInv'
    <2>1. /\ a.sock \in Sockets
          /\ conn' = [conn EXCEPT ![a.sock] = "closed"] /\ arrivals' = arrivals \ {a}
          /\ UNCHANGED <<presence, socketsByUser, flying>>
      BY <1>5 DEF Rejected, DoorTypeOK, Arrival
    <2>2. \A x \in Sockets : conn'[x] = "open" /\ Admitted(x)'
                               => conn[x] = "open" /\ Admitted(x)
      BY <2>1 DEF Admitted, DoorTypeOK
    <2>3. conn' \in [Sockets -> {"absent", "open", "closed"}] /\ arrivals' \in SUBSET Arrival
      BY <2>1 DEF DoorTypeOK
    <2> QED BY <1>1, <2>1, <2>2, <2>3 DEF DoorTypeOK
  <1>6. ASSUME NEW a \in arrivals, Validated(a)
        PROVE  DoorInv'
    <2> DEFINE b == [a EXCEPT !.at = "return"]
    <2>1. a \in Arrival /\ b \in Arrival /\ b.sock = a.sock
      BY DEF DoorTypeOK, Arrival
    <2>2. arrivals' = (arrivals \ {a}) \cup {b} /\ UNCHANGED <<conn, presence, socketsByUser, flying>>
      BY <1>6 DEF Validated
    <2> HIDE DEF b
    <2>3. \A x \in Sockets : Admitted(x)' => Admitted(x)
      BY <2>1, <2>2 DEF Admitted
    <2> QED BY <1>1, <2>1, <2>2, <2>3 DEF DoorTypeOK
  <1>7. CASE UNCHANGED doorVars
    BY <1>7 DEF doorVars, DoorTypeOK, LiveSocketsAreListed, Open, Admitted
  <1> QED BY <1>2, <1>3, <1>4, <1>5, <1>6, <1>7, ReturnedKeeps, DisconnectKeeps DEF DoorNext

\* Type correctness of the admission: an account's list holds sockets of that
\* account, MaxSockets at most, whatever closes while a handler waits.
THEOREM DoorTypeCorrect == DoorSpec => []DoorTypeOK
  <1>1. DoorInit => DoorInv
    BY DoorOpens
  <1>2. DoorInv /\ [DoorNext]_doorVars => DoorInv'
    BY DoorKeeps
  <1>3. DoorInv => DoorTypeOK
    BY DEF DoorInv
  <1> QED BY <1>1, <1>2, <1>3, PTL DEF DoorSpec

\* The cap sees what it bounds, for any number of accounts and sockets: whatever
\* closes while its handlers wait, a live socket that is past the connection
\* handler is on its account's list (onConnect, onDisconnect).
THEOREM TheCapSeesThemAll == DoorSpec => []LiveSocketsAreListed
  <1>1. DoorInit => DoorInv
    BY DoorOpens
  <1>2. DoorInv /\ [DoorNext]_doorVars => DoorInv'
    BY DoorKeeps
  <1>3. DoorInv => LiveSocketsAreListed
    BY DEF DoorInv
  <1> QED BY <1>1, <1>2, <1>3, PTL DEF DoorSpec

\* An account never has more than MaxSockets live sockets past the connection
\* handler (capSocketsForUser).
THEOREM SocketsStayCapped == DoorSpec => []SocketCap
  <1>1. DoorInit => DoorInv
    BY DoorOpens
  <1>2. DoorInv /\ [DoorNext]_doorVars => DoorInv'
    BY DoorKeeps
  <1>3. DoorInv => SocketCap
    <2> SUFFICES ASSUME DoorInv, NEW u \in Users
                 PROVE  Cardinality({s \in Open : Account[s] = u /\ Admitted(s)}) <= MaxSockets
      BY DEF SocketCap
    <2> DEFINE live == {s \in Open : Account[s] = u /\ Admitted(s)}
               l == socketsByUser[u]
    <2>1. live \subseteq ToSet(l)
      BY DEF DoorInv, LiveSocketsAreListed
    <2>2. l \in Seq(Sockets) /\ Len(l) <= MaxSockets
      BY DEF DoorInv, DoorTypeOK
    <2> HIDE DEF live, l
    <2>3. IsFiniteSet(ToSet(l)) /\ Cardinality(ToSet(l)) <= Len(l)
      BY <2>2, MembersBound
    <2>4. IsFiniteSet(live) /\ Cardinality(live) <= Cardinality(ToSet(l))
      BY <2>1, <2>3, FS_Subset
    <2>5. Cardinality(live) \in Nat /\ Cardinality(ToSet(l)) \in Nat /\ Len(l) \in Nat
          /\ MaxSockets \in Nat
      BY <2>2, <2>3, <2>4, FS_CardinalityType, CapsAssumption
    <2>6. Cardinality(live) <= MaxSockets
      BY <2>2, <2>3, <2>4, <2>5
    <2> QED BY <2>6 DEF live
  <1> QED BY <1>1, <1>2, <1>3, PTL DEF DoorSpec

-----------------------------------------------------------------------------
(* The one-second timer.                                                   *)

\* Counting modulo n.
LEMMA SmallIsItself ==
    ASSUME NEW n \in Nat \ {0}, NEW x \in 0 .. n - 1
    PROVE  x % n = x
  <1> DEFINE q == x \div n
  <1>1. q \in Int /\ x = n * q + (x % n) /\ x % n \in 0 .. n - 1
    OBVIOUS
  <1> HIDE DEF q
  <1>2. CASE q = 0
    BY <1>1, <1>2
  <1>3. CASE q >= 1
    <2>1. n * q >= n
      BY <1>1, <1>3
    <2> QED BY <1>1, <2>1
  <1>4. CASE q <= -1
    <2>1. n * q <= -n
      BY <1>1, <1>4
    <2> QED BY <1>1, <2>1
  <1> QED BY <1>1, <1>2, <1>3, <1>4

LEMMA WholeIsNothing ==
    ASSUME NEW n \in Nat \ {0}
    PROVE  n % n = 0
  <1> DEFINE q == n \div n
             r == n % n
  <1>1. q \in Int /\ n = n * q + r /\ r \in 0 .. n - 1
    OBVIOUS
  <1> HIDE DEF q, r
  <1>2. CASE q = 1
    BY <1>1, <1>2 DEF r
  <1>3. CASE q >= 2
    <2>1. n * q >= n + n
      BY <1>1, <1>3
    <2> QED BY <1>1, <2>1
  <1>4. CASE q <= 0
    <2>1. n * q <= 0
      BY <1>1, <1>4
    <2> QED BY <1>1, <2>1
  <1> QED BY <1>1, <1>2, <1>3, <1>4

LEMMA NextInTheCycle ==
    ASSUME NEW n \in Nat \ {0}, NEW x \in 0 .. n - 1
    PROVE  (x + 1) % n = IF x + 1 = n THEN 0 ELSE x + 1
  <1>1. CASE x + 1 = n
    BY <1>1, WholeIsNothing
  <1>2. CASE x + 1 # n
    <2>1. x + 1 \in 0 .. n - 1
      BY <1>2
    <2> QED BY <1>2, <2>1, SmallIsItself
  <1> QED BY <1>1, <1>2

\* As long as a ship is out of the game, the registry has a channel to give it
\* (ShipChannelRegistry.acquire).
LEMMA AChannelIsFree ==
    ASSUME NEW S, IsFiniteSet(S), NEW ch, NEW s \in S, ch[s] \notin 0 .. Cardinality(S) - 1
    PROVE  Min((0 .. Cardinality(S) - 1) \ {ch[x] : x \in S})
             \in (0 .. Cardinality(S) - 1) \ {ch[x] : x \in S}
  <1> DEFINE C == 0 .. Cardinality(S) - 1
             R == S \ {s}
             f == [c \in C |-> CHOOSE x \in R : ch[x] = c]
             free == C \ {ch[x] : x \in S}
  <1>1. Cardinality(S) \in Nat
    BY FS_CardinalityType
  <1>2. IsFiniteSet(R) /\ Cardinality(R) = Cardinality(S) - 1
    BY FS_RemoveElement
  <1>3. IsFiniteSet(C) /\ Cardinality(C) = Cardinality(S)
    <2> DEFINE n == Cardinality(S)
    <2> HIDE DEF n
    <2>1. n \in Nat => IsFiniteSet(0 .. n - 1) /\ Cardinality(0 .. n - 1) = n
      <3> SUFFICES ASSUME n \in Nat
                   PROVE  IsFiniteSet(0 .. n - 1) /\ Cardinality(0 .. n - 1) = n
        OBVIOUS
      <3>1. /\ IsFiniteSet(0 .. n - 1)
            /\ Cardinality(0 .. n - 1) = IF 0 > n - 1 THEN 0 ELSE n - 1 - 0 + 1
        BY FS_Interval
      <3> QED BY <3>1
    <2> QED BY <1>1, <2>1 DEF n
  <1>4. free # {}
    <2> SUFFICES ASSUME free = {} PROVE FALSE
      OBVIOUS
    <2>1. \A c \in C : \E x \in R : ch[x] = c
      OBVIOUS
    <2>2. \A c \in C : f[c] \in R /\ ch[f[c]] = c
      BY <2>1
    <2>3. f \in [C -> R]
      BY <2>2
    <2> HIDE DEF f, C, R
    <2>4. \E c, d \in C : c # d /\ f[c] = f[d]
      BY <1>1, <1>2, <1>3, <2>3, FS_PigeonHole
    <2> QED BY <2>2, <2>4
  <1>5. free \in SUBSET Nat
    BY <1>1
  <1> HIDE DEF free
  <1>6. \E n \in free : \A m \in free : n <= m
    BY <1>4, <1>5, Least
  <1>7. Min(free) \in free
    BY <1>6 DEF Min
  <1> QED BY <1>7 DEF free

\* When a ship that has moved moves again: its third of the second, and the
\* seconds since, say where the clock stands.
Since(s) == (chan[s] % Stride) + since[s] + 1

Rhythm ==
    \A s \in Ships : since[s] # Never =>
        /\ InFleet(s) /\ since[s] < Stride
        /\ clicker = IF Since(s) < Stride THEN Since(s) ELSE Since(s) - Stride

\* Who is in the map has a channel.
Registered == \A s \in Ships : InFleet(s) <=> chan[s] # NoChannel

SecondInv == SecondTypeOK /\ Registered /\ Rhythm

\* The numbers of the clock.
LEMMA ClockNumbers ==
    ASSUME SecondInv
    PROVE  /\ Stride \in Nat \ {0} /\ Countdown \in Nat \ {0}
           /\ Never = Stride + 1 /\ Late = Stride
           /\ clicker \in 0 .. Stride - 1 /\ fuse \in 0 .. Stride - 1
           /\ moveClicker \in 0 .. Stride - 1
           /\ \A s \in Ships : since[s] \in Nat /\ since[s] <= Stride + 1
  BY StrideAssumption DEF Never, Late, SecondInv, SecondTypeOK
\* A channel has a place in the second.
LEMMA ThirdsAreTyped ==
    ASSUME SecondInv, NEW s \in Ships, InFleet(s)
    PROVE  chan[s] % Stride \in 0 .. Stride - 1 /\ chan[s] \in Channels
  <1>1. Cardinality(Ships) \in Nat
    BY FS_CardinalityType, BombersAssumption
  <1>2. chan[s] \in Channels
    BY DEF SecondInv, Registered, SecondTypeOK
  <1>3. chan[s] \in Nat
    BY <1>1, <1>2 DEF Channels
  <1> QED BY <1>2, <1>3, ClockNumbers

LEMMA SecondStarts ==
    ASSUME SecondInit
    PROVE  SecondInv
  <1>1. ToSet(<<>>) = {} /\ <<>> \in Seq(Ships)
    BY DEF ToSet
  <1>2. Stride \in Nat \ {0} /\ Countdown \in Nat \ {0} /\ Never = Stride + 1
    BY StrideAssumption DEF Never
  <1>3. SecondTypeOK
    BY <1>1, <1>2 DEF SecondInit, SecondTypeOK
  <1>4. \A s \in Ships : ~ InFleet(s) /\ chan[s] = NoChannel /\ since[s] = Never
    BY <1>1 DEF SecondInit, InFleet
  <1> QED BY <1>3, <1>4 DEF SecondInv, Registered, Rhythm

\* Those who go leave the map with their channels.
LEMMA WithoutFacts ==
    ASSUME SecondInv, NEW gone \in SUBSET Ships, Without(gone)
    PROVE  /\ fleet' \in Seq(Ships)
           /\ chan' = [s \in Ships |-> IF s \in gone THEN NoChannel ELSE chan[s]]
           /\ \A s \in Ships : InFleet(s)' <=> InFleet(s) /\ s \notin gone
           /\ chan' \in [Ships -> Channels \cup {NoChannel}]
           /\ Registered'
  <1>1. fleet \in Seq(Ships)
    BY DEF SecondInv, SecondTypeOK
  <1>2. fleet' = Filtered(fleet, Ships \ gone)
    BY DEF Without
  <1>3. fleet' \in Seq(Ships) /\ ToSet(fleet') = ToSet(fleet) \cap (Ships \ gone)
    BY <1>1, <1>2, FilteredFacts
  <1>4. chan' = [s \in Ships |-> IF s \in gone THEN NoChannel ELSE chan[s]]
    BY DEF Without
  <1>5. \A s \in Ships : InFleet(s)' <=> InFleet(s) /\ s \notin gone
    BY <1>3 DEF InFleet
  <1>6. chan' \in [Ships -> Channels \cup {NoChannel}]
    BY <1>4 DEF SecondInv, SecondTypeOK
  <1>7. Registered'
    BY <1>4, <1>5 DEF Registered, SecondInv
  <1> QED BY <1>3, <1>4, <1>5, <1>6, <1>7

LEMMA EnterKeeps ==
    ASSUME SecondInv, NEW s \in Ships, Enter(s)
    PROVE  SecondInv'
  <1>1. /\ ~ InFleet(s) /\ fleet' = Append(fleet, s)
        /\ chan' = [chan EXCEPT ![s] = FreeChannel]
        /\ UNCHANGED <<destruct, clicker, fuse, moveClicker, since>>
    BY DEF Enter
  <1>2. chan[s] = NoChannel /\ since[s] = Never
    BY <1>1 DEF SecondInv, Registered, Rhythm
  <1>3. FreeChannel \in Channels /\ NoChannel \notin Channels
    <2>1. IsFiniteSet(Ships) /\ NoChannel \notin 0 .. Cardinality(Ships) - 1
      BY BombersAssumption, ChannelAssumption DEF Channels
    <2>2. Min((0 .. Cardinality(Ships) - 1) \ {chan[x] : x \in Ships})
            \in (0 .. Cardinality(Ships) - 1) \ {chan[x] : x \in Ships}
      BY <1>2, <2>1, AChannelIsFree
    <2> QED BY <2>1, <2>2 DEF FreeChannel, Channels
  <1>4. /\ fleet' \in Seq(Ships)
        /\ \A x \in Ships : InFleet(x)' <=> InFleet(x) \/ x = s
    <2>1. fleet \in Seq(Ships)
      BY DEF SecondInv, SecondTypeOK
    <2>2. \A q \in Seq(Ships) : \A x : x \in ToSet(Append(q, s)) <=> x \in ToSet(q) \/ x = s
      BY AppendedFacts
    <2> QED BY <1>1, <2>1, <2>2 DEF InFleet
  <1>5. SecondTypeOK'
    BY <1>1, <1>3, <1>4 DEF SecondInv, SecondTypeOK
  <1>6. \A x \in Ships : chan'[x] = IF x = s THEN FreeChannel ELSE chan[x]
    BY <1>1 DEF SecondInv, SecondTypeOK
  <1>7. Registered'
    BY <1>3, <1>4, <1>6 DEF SecondInv, Registered
  <1>8. Rhythm'
    <2> SUFFICES ASSUME NEW x \in Ships, since[x] # Never
                 PROVE  /\ InFleet(x)' /\ since'[x] < Stride
                        /\ clicker' = IF Since(x)' < Stride THEN Since(x)' ELSE Since(x)' - Stride
      BY <1>1 DEF Rhythm, Never
    <2>1. chan'[x] = chan[x] /\ x # s
      BY <1>2, <1>6
    <2> QED BY <1>1, <1>4, <2>1 DEF SecondInv, Rhythm, Since
  <1> QED BY <1>5, <1>7, <1>8 DEF SecondInv

LEMMA LeaveKeeps ==
    ASSUME SecondInv, NEW s \in Ships, Leave(s)
    PROVE  SecondInv'
  <1>1. /\ Without({s}) /\ since' = [since EXCEPT ![s] = Never]
        /\ destruct' \in {destruct, [destruct EXCEPT ![s] = 0]}
        /\ UNCHANGED <<clicker, fuse, moveClicker>>
    BY DEF Leave
  <1>2. /\ fleet' \in Seq(Ships)
        /\ chan' = [x \in Ships |-> IF x \in {s} THEN NoChannel ELSE chan[x]]
        /\ \A x \in Ships : InFleet(x)' <=> InFleet(x) /\ x \notin {s}
        /\ chan' \in [Ships -> Channels \cup {NoChannel}]
        /\ Registered'
    BY <1>1, WithoutFacts
  <1>3. SecondTypeOK'
    <2>1. Never \in 0 .. Never /\ 0 \in 0 .. Countdown
      BY ClockNumbers
    <2> QED BY <1>1, <1>2, <2>1 DEF SecondInv, SecondTypeOK, Never
  <1>4. Rhythm'
    <2> SUFFICES ASSUME NEW x \in Ships, since'[x] # Never
                 PROVE  /\ InFleet(x)' /\ since'[x] < Stride
                        /\ clicker' = IF Since(x)' < Stride THEN Since(x)' ELSE Since(x)' - Stride
      BY DEF Rhythm, Never
    <2>1. x # s /\ since'[x] = since[x]
      BY <1>1 DEF SecondInv, SecondTypeOK
    <2>2. chan'[x] = chan[x]
      BY <1>2, <2>1
    <2> QED BY <1>1, <1>2, <2>1, <2>2 DEF SecondInv, Rhythm, Since
  <1> QED BY <1>2, <1>3, <1>4 DEF SecondInv

LEMMA FusesKeep ==
    ASSUME SecondInv, NEW s \in Ships, Arm(s) \/ Abort(s)
    PROVE  SecondInv'
  <1>1. /\ destruct' = [destruct EXCEPT ![s] = Countdown] \/ destruct' = [destruct EXCEPT ![s] = 0]
        /\ UNCHANGED <<fleet, chan, clicker, fuse, moveClicker, since>>
    BY DEF Arm, Abort
  <1>2. SecondTypeOK'
    <2>1. Countdown \in 0 .. Countdown /\ 0 \in 0 .. Countdown
      BY ClockNumbers
    <2> QED BY <1>1, <2>1 DEF SecondInv, SecondTypeOK
  <1> QED BY <1>1, <1>2 DEF SecondInv, Registered, Rhythm, InFleet, Since

\* A second: those whose third it is move, the others come one second nearer.
LEMMA TickFacts ==
    ASSUME SecondInv, Tick
    PROVE  \E moved \in SUBSET Ships, dead \in SUBSET Ships :
             /\ Without(dead)
             /\ \A s \in Ships : s \in moved <=> InFleet(s) /\ chan[s] % Stride = clicker
             /\ since' = [s \in Ships |-> IF s \in dead THEN Never
                                          ELSE IF s \in moved THEN 0
                                          ELSE IF since[s] < Late THEN since[s] + 1
                                          ELSE since[s]]
             /\ destruct' \in [Ships -> 0 .. Countdown]
             /\ clicker' = (clicker + 1) % Stride
             /\ {fuse', moveClicker'} \subseteq 0 .. Stride - 1
  <1> DEFINE moved    == {s \in ToSet(fleet) : Moves(s)}
             counting == {s \in ToSet(fleet) : Counts(s) /\ destruct[s] > 0}
  <1>1. fleet \in Seq(Ships) /\ destruct \in [Ships -> 0 .. Countdown] /\ Len(fleet) \in Nat
    BY DEF SecondInv, SecondTypeOK
  <1>2. ToSet(fleet) \subseteq Ships /\ ToSet(fleet) = ToSet(fleet)
    BY <1>1 DEF ToSet
  <1>3. PICK calmed \in SUBSET {s \in moved : destruct[s] > 0} :
          LET counted == counting \ calmed
              dead    == {s \in counted : destruct[s] = 1}
          IN /\ Without(dead)
             /\ destruct' = [s \in Ships |-> IF s \in calmed THEN 0
                                             ELSE IF s \in counted THEN destruct[s] - 1
                                             ELSE destruct[s]]
             /\ since' = [s \in Ships |-> IF s \in dead THEN Never
                                          ELSE IF s \in moved THEN 0
                                          ELSE IF since[s] < Late THEN since[s] + 1
                                          ELSE since[s]]
             /\ clicker' = (clicker + 1) % Stride
             /\ fuse' = NextFuse
             /\ moveClicker' = NextMove
    BY DEF Tick
  <1> DEFINE counted == counting \ calmed
             dead    == {s \in counted : destruct[s] = 1}
  <1>4. moved \in SUBSET Ships /\ dead \in SUBSET Ships
    BY <1>2
  <1>5. \A s \in Ships : s \in moved <=> InFleet(s) /\ chan[s] % Stride = clicker
    BY <1>2 DEF InFleet, Moves
  <1>6. destruct' \in [Ships -> 0 .. Countdown]
    <2>1. \A s \in counted : destruct[s] > 0
      OBVIOUS
    <2>2. destruct' = [s \in Ships |-> IF s \in calmed THEN 0
                                       ELSE IF s \in counted THEN destruct[s] - 1
                                       ELSE destruct[s]]
      BY <1>3
    <2> HIDE DEF counted
    <2>3. Countdown \in Nat
      BY ClockNumbers
    <2>4. \A s \in Ships : destruct'[s] \in 0 .. Countdown
      BY <1>1, <2>1, <2>2, <2>3
    <2> QED BY <2>2, <2>4
  <1>7. fuse' \in 0 .. Stride - 1 /\ moveClicker' \in 0 .. Stride - 1
    <2>1. \A x \in Nat : x % Stride \in 0 .. Stride - 1
      BY ClockNumbers
    <2>2. fuse + 1 \in Nat /\ moveClicker + Len(fleet) \in Nat
      BY <1>1, ClockNumbers
    <2> QED BY <1>3, <2>1, <2>2 DEF NextFuse, NextMove
  <1>8. /\ Without(dead)
        /\ since' = [s \in Ships |-> IF s \in dead THEN Never
                                     ELSE IF s \in moved THEN 0
                                     ELSE IF since[s] < Late THEN since[s] + 1
                                     ELSE since[s]]
        /\ clicker' = (clicker + 1) % Stride
    BY <1>3
  <1> HIDE DEF moved, dead
  <1> QED BY <1>4, <1>5, <1>6, <1>7, <1>8

\* A ship that has moved moves again exactly when Stride - 1 seconds have passed.
LEMMA ItsTurn ==
    ASSUME SecondInv, NEW s \in Ships, since[s] # Never
    PROVE  chan[s] % Stride = clicker <=> since[s] = Stride - 1
  <1>1. /\ InFleet(s) /\ since[s] < Stride /\ since[s] \in Nat
        /\ clicker = IF Since(s) < Stride THEN Since(s) ELSE Since(s) - Stride
    BY ClockNumbers DEF SecondInv, Rhythm
  <1>2. chan[s] % Stride \in 0 .. Stride - 1 /\ Stride \in Nat
    BY <1>1, ThirdsAreTyped, ClockNumbers
  <1> DEFINE r == chan[s] % Stride
  <1> HIDE DEF r
  <1>3. r \in 0 .. Stride - 1 /\ clicker = IF r + since[s] + 1 < Stride THEN r + since[s] + 1
                                           ELSE r + since[s] + 1 - Stride
    BY <1>1, <1>2 DEF r, Since
  <1> DEFINE n == since[s]
  <1>4. n \in Nat /\ n < Stride /\ r \in Nat /\ r < Stride /\ Stride \in Nat
    BY <1>1, <1>2, <1>3
  <1>5. clicker = IF r + n + 1 < Stride THEN r + n + 1 ELSE r + n + 1 - Stride
    BY <1>3
  <1> HIDE DEF n
  <1>6. CASE r + n + 1 < Stride
    BY <1>4, <1>5, <1>6 DEF n, r
  <1>7. CASE ~ (r + n + 1 < Stride)
    BY <1>4, <1>5, <1>7 DEF n, r
  <1> QED BY <1>6, <1>7

LEMMA TickKeeps ==
    ASSUME SecondInv, Tick
    PROVE  SecondInv'
  <1>1. PICK moved \in SUBSET Ships, dead \in SUBSET Ships :
             /\ Without(dead)
             /\ \A s \in Ships : s \in moved <=> InFleet(s) /\ chan[s] % Stride = clicker
             /\ since' = [s \in Ships |-> IF s \in dead THEN Never
                                          ELSE IF s \in moved THEN 0
                                          ELSE IF since[s] < Late THEN since[s] + 1
                                          ELSE since[s]]
             /\ destruct' \in [Ships -> 0 .. Countdown]
             /\ clicker' = (clicker + 1) % Stride
             /\ {fuse', moveClicker'} \subseteq 0 .. Stride - 1
    BY TickFacts
  <1>2. /\ fleet' \in Seq(Ships)
        /\ chan' = [s \in Ships |-> IF s \in dead THEN NoChannel ELSE chan[s]]
        /\ \A s \in Ships : InFleet(s)' <=> InFleet(s) /\ s \notin dead
        /\ chan' \in [Ships -> Channels \cup {NoChannel}]
        /\ Registered'
    BY <1>1, WithoutFacts
  <1>3. /\ Stride \in Nat \ {0} /\ Never = Stride + 1 /\ Late = Stride
        /\ clicker \in 0 .. Stride - 1
        /\ \A s \in Ships : since[s] \in Nat /\ since[s] <= Stride + 1
    BY ClockNumbers
  <1>4. clicker' = IF clicker + 1 = Stride THEN 0 ELSE clicker + 1
    BY <1>1, <1>3, NextInTheCycle
  <1>5. \A s \in Ships : since'[s] = IF s \in dead THEN Stride + 1
                                     ELSE IF s \in moved THEN 0
                                     ELSE IF since[s] < Stride THEN since[s] + 1
                                     ELSE since[s]
    BY <1>1, <1>3
  <1>6. SecondTypeOK'
    <2>1. \A s \in Ships : since'[s] \in 0 .. Stride + 1
      BY <1>3, <1>5
    <2>2. since' \in [Ships -> 0 .. Never]
      BY <1>1, <1>3, <2>1
    <2>3. clicker' \in 0 .. Stride - 1
      BY <1>3, <1>4
    <2> QED BY <1>1, <1>2, <2>2, <2>3 DEF SecondTypeOK, Never
  <1>7. Rhythm'
    <2> SUFFICES ASSUME NEW s \in Ships, since'[s] # Stride + 1
                 PROVE  /\ InFleet(s)' /\ since'[s] < Stride
                        /\ clicker' = IF Since(s)' < Stride THEN Since(s)' ELSE Since(s)' - Stride
      BY <1>3 DEF Rhythm, Never
    <2>1. s \notin dead /\ chan'[s] = chan[s]
      BY <1>2, <1>5
    <2> DEFINE r == chan[s] % Stride
    <2>2. Since(s)' = r + since'[s] + 1 /\ Since(s) = r + since[s] + 1
      BY <2>1 DEF Since
    <2> HIDE DEF r
    <2>3. CASE s \in moved
      <3>1. InFleet(s) /\ r = clicker /\ since'[s] = 0
        BY <1>1, <1>5, <2>1, <2>3 DEF r
      <3> QED BY <1>2, <1>3, <1>4, <2>1, <2>2, <3>1
    <2>4. CASE s \notin moved
      <3>1. since[s] # Stride + 1
        BY <1>3, <1>5, <2>1, <2>4
      <3>2. /\ InFleet(s) /\ since[s] < Stride
            /\ clicker = IF Since(s) < Stride THEN Since(s) ELSE Since(s) - Stride
        <4>1. since[s] # Never
          BY <1>3, <3>1
        <4> QED BY <4>1 DEF SecondInv, Rhythm
      <3>3. r \in 0 .. Stride - 1
        BY <3>2, ThirdsAreTyped DEF r
      <3>4. since[s] # Stride - 1
        BY <1>1, <1>3, <2>4, <3>1, <3>2, ItsTurn
      <3>5. since'[s] = since[s] + 1
        BY <1>5, <2>1, <2>4, <3>2
      <3>6. InFleet(s)'
        BY <1>2, <2>1, <3>2
      <3>7. since[s] \in Nat /\ since[s] + 1 < Stride /\ since'[s] < Stride
        BY <1>3, <3>2, <3>4, <3>5
      <3>8. Since(s) \in Nat /\ Since(s) + 1 < Stride + Stride /\ Since(s)' = Since(s) + 1
        BY <1>3, <2>2, <3>3, <3>5, <3>7
      <3>9. clicker' = IF Since(s)' < Stride THEN Since(s)' ELSE Since(s)' - Stride
        <4>1. CASE Since(s) < Stride
          BY <1>3, <1>4, <3>2, <3>8, <4>1
        <4>2. CASE ~(Since(s) < Stride)
          <5>1. clicker = Since(s) - Stride
            BY <3>2, <4>2
          <5> QED BY <1>3, <1>4, <3>8, <4>2, <5>1
        <4> QED BY <4>1, <4>2
      <3> QED BY <3>6, <3>7, <3>9
    <2> QED BY <2>3, <2>4
  <1> QED BY <1>2, <1>6, <1>7 DEF SecondInv

LEMMA SecondKeeps ==
    ASSUME SecondInv, [SecondNext]_secondVars
    PROVE  SecondInv'
  <1>1. CASE UNCHANGED secondVars
    BY <1>1 DEF secondVars, SecondInv, SecondTypeOK, Registered, Rhythm, InFleet, Since
  <1> QED BY <1>1, EnterKeeps, LeaveKeeps, FusesKeep, TickKeeps DEF SecondNext

\* What a step of the game does to the seconds since a ship has moved.
LEMMA StepsKeepTime ==
    ASSUME SecondInv, [SecondNext]_secondVars, NEW s \in Ships
    PROVE  /\ since'[s] = 0 => since[s] \in {0, Stride - 1, Never}
           /\ clicker' # clicker /\ since[s] = 0 /\ Stride > 1 => since'[s] # 0
  <1>1. CASE Tick
    <2>1. PICK moved \in SUBSET Ships, dead \in SUBSET Ships :
             /\ \A x \in Ships : x \in moved <=> InFleet(x) /\ chan[x] % Stride = clicker
             /\ since' = [x \in Ships |-> IF x \in dead THEN Never
                                          ELSE IF x \in moved THEN 0
                                          ELSE IF since[x] < Late THEN since[x] + 1
                                          ELSE since[x]]
      BY <1>1, TickFacts
    <2>2. /\ Stride \in Nat \ {0} /\ Never = Stride + 1 /\ Late = Stride
          /\ since[s] \in Nat
      BY ClockNumbers
    <2>3. since'[s] = 0 => s \in moved \/ since[s] = 0
      BY <2>1, <2>2
    <2>4. s \in moved => since[s] \in {Stride - 1, Never}
      BY <2>1, ItsTurn
    <2>5. since[s] = 0 /\ Stride > 1 => s \notin moved
      BY <2>2, <2>4
    <2> QED BY <2>1, <2>2, <2>3, <2>4, <2>5
  <1>2. CASE ~ Tick
    <2>1. clicker' = clicker
      BY <1>2 DEF SecondNext, Enter, Leave, Arm, Abort, secondVars
    <2>2. since' = since \/ \E x \in Ships : since' = [since EXCEPT ![x] = Never]
      BY <1>2 DEF SecondNext, Enter, Leave, Arm, Abort, secondVars
    <2>3. since'[s] \in {since[s], Never}
      BY <2>2 DEF SecondInv, SecondTypeOK
    <2>4. Never # 0
      BY ClockNumbers
    <2> QED BY <2>1, <2>3, <2>4
  <1> QED BY <1>1, <1>2

\* Type correctness of the one-second timer: there is always a channel to give.
THEOREM SecondTypeCorrect == SecondSpec => []SecondTypeOK
  <1>1. SecondInit => SecondInv
    BY SecondStarts
  <1>2. SecondInv /\ [SecondNext]_secondVars => SecondInv'
    BY SecondKeeps
  <1>3. SecondInv => SecondTypeOK
    BY DEF SecondInv
  <1> QED BY <1>1, <1>2, <1>3, PTL DEF SecondSpec

\* For any fleet and any stride, whoever enters or leaves: a ship that has moved
\* once moves again exactly Stride seconds later, by its channel (strideSlot).
THEOREM TheCadenceIsEven == SecondSpec => EvenCadence
  <1>1. SecondInit => SecondInv
    BY SecondStarts
  <1>2. SecondInv /\ [SecondNext]_secondVars => SecondInv'
    BY SecondKeeps
  <1>3. SecondInv => \A s \in Ships : since[s] # Late
    <2> SUFFICES ASSUME SecondInv, NEW s \in Ships PROVE since[s] # Late
      OBVIOUS
    <2> QED BY ClockNumbers DEF SecondInv, Rhythm
  <1>4. SecondInv /\ [SecondNext]_secondVars
          => [\A s \in Ships : since'[s] = 0 => since[s] \in {0, Stride - 1, Never}]_secondVars
    BY StepsKeepTime
  <1>5. SecondInv /\ [SecondNext]_secondVars
          => [\A s \in Ships : clicker' # clicker /\ since[s] = 0 /\ Stride > 1
                                 => since'[s] # 0]_secondVars
    BY StepsKeepTime
  <1> QED BY <1>1, <1>2, <1>3, <1>4, <1>5, PTL DEF SecondSpec, EvenCadence

-----------------------------------------------------------------------------
(* The Cybertrons. They share the registry of channels with the rest.      *)

\* A ship that is lost has no channel, and nothing leaves while hulls still act.
LostLeft  == \A p \in lost : ~ InGame(p)
DueInGame == \A a \in ToSet(due) : InGame(a)

HuntInv == HuntTypeOK /\ LostLeft /\ DueInGame /\ SteersAtItsClaim

\* What the assumptions say of the hulls, the ships and the numbers.
LEMMA HullFacts ==
    /\ Hulls \in Seq(Slots) /\ Slots = ToSet(Hulls)
    /\ AllShips = Pilots \cup Slots /\ Pilots \cap Slots = {}
    /\ Numbers = 0 .. Cardinality(AllShips) - 1
    /\ IsFiniteSet(Slots) /\ IsFiniteSet(AllShips)
    /\ Cardinality(AllShips) \in Nat /\ Len(Hulls) <= Cardinality(AllShips)
    /\ Nobody \notin AllShips /\ Unregistered \notin Numbers
    /\ {NoClaim, MaxPerTick, MinTick, MaxTick, MaxHold} \subseteq Nat
    /\ 0 < MinTick /\ MinTick <= MaxTick
  <1>1. /\ Hulls \in Seq(Slots) /\ Pilots \cap Slots = {}
        /\ \A i, j \in DOMAIN Hulls : Hulls[i] = Hulls[j] => i = j
    BY HullsAssumption DEF IsInjective
  <1>2. /\ Slots = ToSet(Hulls) /\ AllShips = Pilots \cup Slots
        /\ Numbers = 0 .. Cardinality(AllShips) - 1
    BY DEF Slots, AllShips, Numbers
  <1>3. /\ Nobody \notin AllShips /\ Unregistered \notin Numbers
        /\ {NoClaim, MaxPerTick, MinTick, MaxTick, MaxHold} \subseteq Nat
        /\ 0 < MinTick /\ MinTick <= MaxTick
    BY BoundsAssumption, SentinelsAssumption
  <1>4. IsFiniteSet(Slots)
    BY <1>1, <1>2, MembersBound
  <1>5. IsFiniteSet(Pilots)
    BY FiniteAssumption
  <1>6. IsFiniteSet(AllShips)
    BY <1>2, <1>4, <1>5, FS_Union
  <1>7. Len(Hulls) <= Cardinality(AllShips)
    <2> DEFINE at == [i \in 1 .. Len(Hulls) |-> Hulls[i]]
    <2>1. Len(Hulls) \in Nat /\ DOMAIN Hulls = 1 .. Len(Hulls)
          /\ \A i \in 1 .. Len(Hulls) : Hulls[i] \in AllShips
      BY <1>1, <1>2
    <2>2. at \in [1 .. Len(Hulls) -> AllShips] /\ DOMAIN at = 1 .. Len(Hulls)
          /\ \A i, j \in 1 .. Len(Hulls) : at[i] = at[j] => i = j
      BY <1>1, <2>1
    <2> HIDE DEF at
    <2>3. at \in Injection(1 .. Len(Hulls), AllShips)
      BY <2>2 DEF Injection, IsInjective
    <2>4. Cardinality(1 .. Len(Hulls)) <= Cardinality(AllShips)
      BY <1>6, <2>3, FS_Injection
    <2>5. Cardinality(1 .. Len(Hulls)) = Len(Hulls)
      BY <2>1, CountingTo
    <2> QED BY <2>4, <2>5
  <1> QED BY <1>1, <1>2, <1>3, <1>4, <1>6, <1>7, FS_CardinalityType

\* At boot every hull has a channel and no captain has.
LEMMA BootedFacts ==
    /\ Booted \in [AllShips -> Numbers \cup {Unregistered}]
    /\ \A p \in Pilots : Booted[p] = Unregistered
  <1> DEFINE at(s) == CHOOSE i \in DOMAIN Hulls : Hulls[i] = s
  <1>1. \A s \in Slots : at(s) \in 1 .. Len(Hulls)
    BY HullFacts DEF ToSet
  <1>2. Booted = [s \in AllShips |-> IF s \in Slots THEN at(s) - 1 ELSE Unregistered]
    BY DEF Booted
  <1> HIDE DEF at
  <1>3. \A s \in Slots : at(s) - 1 \in Numbers
    <2> SUFFICES ASSUME NEW s \in Slots PROVE at(s) - 1 \in Numbers
      OBVIOUS
    <2> DEFINE n == Cardinality(AllShips)
    <2>1. n \in Nat /\ Len(Hulls) \in Nat /\ Len(Hulls) <= n /\ Numbers = 0 .. n - 1
      BY HullFacts
    <2>2. at(s) \in 1 .. Len(Hulls)
      BY <1>1
    <2> HIDE DEF n
    <2> QED BY <2>1, <2>2
  <1> QED BY <1>2, <1>3, HullFacts

\* The types, and what the sentinels are not.
LEMMA HuntFacts ==
    ASSUME HuntInv
    PROVE  /\ channel \in [AllShips -> Numbers \cup {Unregistered}]
           /\ sight \in [Pilots -> Sights]
           /\ claim \in [Slots -> (Numbers \X AllShips) \cup {NoPrey}]
           /\ hold \in [Slots -> 0 .. MaxHold] /\ tick \in [Slots -> 0 .. MaxTick]
           /\ lost \subseteq Pilots /\ won \subseteq Slots /\ due \in Seq(Slots)
           /\ \A s \in AllShips : InGame(s) => ClaimOn(s) \in Numbers \X AllShips
           /\ MinTick .. MaxTick \subseteq 0 .. MaxTick
  <1>1. MinTick .. MaxTick \subseteq 0 .. MaxTick
    BY HullFacts
  <1> QED BY <1>1 DEF HuntInv, HuntTypeOK, InGame, ClaimOn

\* While no hull acts nobody steers, and nothing is due.
LEMMA QuietFacts ==
    ASSUME due' = <<>>, steers' = <<Nobody, Nobody>>
    PROVE  /\ due' \in Seq(Slots)
           /\ steers' \in (Slots \X Pilots) \cup {<<Nobody, Nobody>>}
           /\ DueInGame' /\ SteersAtItsClaim'
  <1>1. \A a \in Slots, p \in Pilots : steers' # <<a, p>>
    BY HullFacts
  <1>2. ToSet(due') = {} /\ due' \in Seq(Slots)
    BY DEF ToSet
  <1> QED BY <1>1, <1>2 DEF DueInGame, SteersAtItsClaim

LEMMA CybStarts ==
    ASSUME HuntInit
    PROVE  HuntInv
  <1>1. /\ channel \in [AllShips -> Numbers \cup {Unregistered}]
        /\ due = <<>> /\ steers = <<Nobody, Nobody>> /\ lost = {} /\ won = {}
    BY BootedFacts DEF HuntInit
  <1>2. /\ sight \in [Pilots -> Sights]
        /\ claim \in [Slots -> (Numbers \X AllShips) \cup {NoPrey}]
        /\ hold \in [Slots -> 0 .. MaxHold] /\ tick \in [Slots -> 0 .. MaxTick]
    BY HullFacts DEF HuntInit, Sights
  <1>3. ToSet(due) = {} /\ due \in Seq(Slots)
    BY <1>1 DEF ToSet
  <1>4. \A a \in Slots, p \in Pilots : steers # <<a, p>>
    BY <1>1, HullFacts
  <1>5. HuntTypeOK
    BY <1>1, <1>2, <1>3 DEF HuntTypeOK
  <1> QED BY <1>1, <1>3, <1>4, <1>5 DEF HuntInv, LostLeft, DueInGame, SteersAtItsClaim

\* A channel for the ship that comes in (ShipChannelRegistry.acquire).
LEMMA CybEnters ==
    ASSUME HuntInv, NEW s \in AllShips, ComesIn(s)
    PROVE  HuntInv'
  <1>1. /\ due' = <<>> /\ steers' = <<Nobody, Nobody>> /\ lost' = lost /\ won' = won
        /\ channel' = [channel EXCEPT ![s] = FreeSlot] /\ channel[s] = Unregistered /\ s \notin lost
    BY DEF ComesIn, Quiet, InGame
  <1>2. FreeSlot \in Numbers
    <2>1. FreeSlot = Min((0 .. Cardinality(AllShips) - 1) \ {channel[x] : x \in AllShips})
      BY HullFacts DEF FreeSlot
    <2>2. channel[s] \notin 0 .. Cardinality(AllShips) - 1
      BY <1>1, HullFacts
    <2>3. Min((0 .. Cardinality(AllShips) - 1) \ {channel[x] : x \in AllShips})
            \in (0 .. Cardinality(AllShips) - 1) \ {channel[x] : x \in AllShips}
      BY <2>2, HullFacts, AChannelIsFree
    <2> QED BY <2>1, <2>3, HullFacts
  <1>3. channel' \in [AllShips -> Numbers \cup {Unregistered}]
    BY <1>1, <1>2, HuntFacts
  <1>4. sight' \in [Pilots -> Sights]
    BY HuntFacts DEF ComesIn
  <1>5. /\ claim' \in [Slots -> (Numbers \X AllShips) \cup {NoPrey}]
        /\ hold' \in [Slots -> 0 .. MaxHold] /\ tick' \in [Slots -> 0 .. MaxTick]
    <2>1. CASE s \in Slots
      <3>1. /\ claim' = [claim EXCEPT ![s] = NoPrey] /\ hold' = [hold EXCEPT ![s] = 0]
            /\ \E n \in MinTick .. MaxTick : tick' = [tick EXCEPT ![s] = n]
        BY <2>1 DEF ComesIn
      <3>2. 0 \in 0 .. MaxHold
        BY HullFacts
      <3> QED BY <3>1, <3>2, HuntFacts
    <2>2. CASE s \notin Slots
      BY <2>2, HuntFacts DEF ComesIn
    <2> QED BY <2>1, <2>2
  <1>6. LostLeft'
    <2> SUFFICES ASSUME NEW p \in lost PROVE channel'[p] = Unregistered
      BY <1>1 DEF LostLeft, InGame
    <2>1. channel[p] = Unregistered /\ p # s
      BY <1>1 DEF HuntInv, LostLeft, InGame
    <2>2. p \in AllShips
      BY HuntFacts, HullFacts
    <2> QED BY <1>1, <2>1, <2>2, HuntFacts
  <1> QED BY <1>1, <1>3, <1>4, <1>5, <1>6, HuntFacts, QuietFacts DEF HuntInv, HuntTypeOK

LEMMA GoneIsTyped ==
    ASSUME HuntInv, NEW ps
    PROVE  Gone(ps) \in [Pilots -> Sights]
  BY HuntFacts DEF Gone, Sights

\* A captain leaves, or comes in sight and goes out of it.
LEMMA CybLeaves ==
    ASSUME HuntInv, NEW p \in Pilots,
           GoesOut(p) \/ \E w \in Sights : SightChanges(p, w)
    PROVE  HuntInv'
  <1>1. /\ due' = <<>> /\ steers' = <<Nobody, Nobody>> /\ lost' = lost /\ won' = won
        /\ claim' = claim /\ hold' = hold /\ tick' = tick
        /\ channel' = [channel EXCEPT ![p] = Unregistered] \/ channel' = channel
    BY DEF GoesOut, SightChanges, Quiet
  <1>2. sight' \in [Pilots -> Sights]
    BY HuntFacts, GoneIsTyped DEF GoesOut, SightChanges
  <1>3. p \in AllShips
    BY HullFacts
  <1>4. channel' \in [AllShips -> Numbers \cup {Unregistered}]
    BY <1>1, HuntFacts
  <1>5. LostLeft'
    BY <1>1, HuntFacts, HullFacts DEF HuntInv, LostLeft, InGame
  <1> QED BY <1>1, <1>2, <1>4, <1>5, HuntFacts, QuietFacts DEF HuntInv, HuntTypeOK

\* A hit or a lock, and the score of a kill.
LEMMA ClaimsChange ==
    ASSUME HuntInv, NEW a \in Slots,
           Scored(a) \/ \E s \in AllShips : Provoke(a, s)
    PROVE  HuntInv'
  <1>1. /\ due' = <<>> /\ steers' = <<Nobody, Nobody>> /\ lost' = lost /\ won' \subseteq won
        /\ channel' = channel /\ sight' = sight /\ hold' = hold /\ tick' = tick
    BY DEF Scored, Provoke, Quiet
  <1>2. PICK c \in (Numbers \X AllShips) \cup {NoPrey} :
             claim' = claim \/ claim' = [claim EXCEPT ![a] = c]
    BY HuntFacts DEF Scored, Provoke
  <1>3. claim' \in [Slots -> (Numbers \X AllShips) \cup {NoPrey}]
    BY <1>2, HuntFacts
  <1>4. LostLeft'
    BY <1>1 DEF HuntInv, LostLeft, InGame
  <1> QED BY <1>1, <1>3, <1>4, HuntFacts, QuietFacts DEF HuntInv, HuntTypeOK

\* A ship that is destroyed leaves with its channel, and a restart finds none of
\* the captains.
LEMMA CybEnds ==
    ASSUME HuntInv,
           Restart \/ \E s \in AllShips, k \in Slots \cup {Nobody} : Destroyed(s, k)
    PROVE  HuntInv'
  <1>1. CASE Restart
    <2>1. /\ due' = <<>> /\ steers' = <<Nobody, Nobody>> /\ lost' = lost /\ won' = {}
          /\ channel' = Booted /\ sight' = Gone(Pilots) /\ tick' = tick
          /\ claim' = [a \in Slots |-> NoPrey] /\ hold' = [a \in Slots |-> 0]
      BY <1>1 DEF Restart, Quiet
    <2>2. hold' \in [Slots -> 0 .. MaxHold]
      BY <2>1, HullFacts
    <2>3. claim' \in [Slots -> (Numbers \X AllShips) \cup {NoPrey}]
      BY <2>1
    <2>4. LostLeft'
      BY <2>1, BootedFacts, HuntFacts DEF LostLeft, InGame
    <2> QED BY <2>1, <2>2, <2>3, <2>4, BootedFacts, GoneIsTyped, HuntFacts, QuietFacts
            DEF HuntInv, HuntTypeOK
  <1>2. ASSUME NEW s \in AllShips, NEW k \in Slots \cup {Nobody}, Destroyed(s, k)
        PROVE  HuntInv'
    <2>1. /\ due' = <<>> /\ steers' = <<Nobody, Nobody>>
          /\ lost' = lost \cup ({s} \cap Pilots) /\ won' = won \cup ({k} \cap Slots)
          /\ channel' = [channel EXCEPT ![s] = Unregistered] /\ sight' = Gone({s})
          /\ tick' = tick /\ hold' = hold
          /\ claim' = claim \/ claim' = [claim EXCEPT ![s] = NoPrey]
      BY <1>2 DEF Destroyed, Quiet
    <2>2. claim' \in [Slots -> (Numbers \X AllShips) \cup {NoPrey}]
      BY <2>1, HuntFacts
    <2>3. channel' \in [AllShips -> Numbers \cup {Unregistered}]
      BY <2>1, HuntFacts
    <2>4. LostLeft'
      <3> SUFFICES ASSUME NEW p \in lost' PROVE channel'[p] = Unregistered
        BY DEF LostLeft, InGame
      <3>1. p \in AllShips /\ (p = s \/ p \in lost)
        BY <2>1, HuntFacts, HullFacts
      <3>2. p \in lost => channel[p] = Unregistered
        BY DEF HuntInv, LostLeft, InGame
      <3> QED BY <2>1, <3>1, <3>2, HuntFacts
    <2>5. lost' \subseteq Pilots /\ won' \subseteq Slots
      BY <2>1, HuntFacts
    <2> QED BY <2>1, <2>2, <2>3, <2>4, <2>5, GoneIsTyped, HuntFacts, QuietFacts
            DEF HuntInv, HuntTypeOK
  <1> QED BY <1>1, <1>2

\* The one second tick draws up who acts, among those in the game.
LEMMA AiTickKeeps ==
    ASSUME HuntInv, AiTick
    PROVE  HuntInv'
  <1> DEFINE K == {a \in Slots : CountedDown(a) = 0}
             ready == Filtered(InTheMap, K)
  <1>1. /\ steers' = <<Nobody, Nobody>>
        /\ tick' = [a \in Slots |-> CountedDown(a)]
        /\ due' = IF Len(ready) > MaxPerTick THEN SubSeq(ready, 1, MaxPerTick) ELSE ready
        /\ UNCHANGED <<channel, sight, lost, claim, hold, won>>
    BY DEF AiTick, Quiet
  <1>2. /\ InTheMap \in Seq(Slots)
        /\ ToSet(InTheMap) = ToSet(Hulls) \cap {a \in Slots : InGame(a)}
    BY HullFacts, FilteredFacts DEF InTheMap
  <1>3. ready \in Seq(Slots) /\ ToSet(ready) = ToSet(InTheMap) \cap K
    <2> HIDE DEF K
    <2> QED BY <1>2, FilteredFacts
  <1>4. \A a \in ToSet(ready) : InGame(a)
    BY <1>2, <1>3
  <1> HIDE DEF ready, K
  <1>5. due' \in Seq(Slots) /\ ToSet(due') \subseteq ToSet(ready)
    <2>1. CASE Len(ready) > MaxPerTick
      <3>1. due' = SubSeq(ready, 1, MaxPerTick) /\ MaxPerTick \in Nat /\ Len(ready) \in Nat
        BY <1>1, <1>3, <2>1, HullFacts
      <3>2. /\ due' \in Seq(Slots) /\ Len(due') = MaxPerTick
            /\ \A i \in 1 .. MaxPerTick : due'[i] = ready[i] /\ i \in 1 .. Len(ready)
        BY <1>3, <2>1, <3>1
      <3>3. \A x \in ToSet(due') : \E i \in 1 .. MaxPerTick : due'[i] = x
        BY <3>2 DEF ToSet
      <3>4. \A i \in 1 .. Len(ready) : ready[i] \in ToSet(ready)
        BY <1>3 DEF ToSet
      <3> QED BY <3>2, <3>3, <3>4
    <2>2. CASE ~ (Len(ready) > MaxPerTick)
      BY <1>1, <1>3, <2>2
    <2> QED BY <2>1, <2>2
  <1>6. DueInGame'
    BY <1>1, <1>4, <1>5 DEF DueInGame, InGame
  <1>7. tick' \in [Slots -> 0 .. MaxTick]
    <2>1. \A a \in Slots : CountedDown(a) \in 0 .. MaxTick
      BY HuntFacts, HullFacts DEF CountedDown
    <2> QED BY <1>1, <2>1
  <1>8. SteersAtItsClaim' /\ steers' \in (Slots \X Pilots) \cup {<<Nobody, Nobody>>}
    <2>1. \A a \in Slots, p \in Pilots : steers' # <<a, p>>
      BY <1>1, HullFacts
    <2> QED BY <1>1, <2>1 DEF SteersAtItsClaim
  <1>9. LostLeft'
    BY <1>1 DEF HuntInv, LostLeft, InGame
  <1> QED BY <1>1, <1>5, <1>6, <1>7, <1>8, <1>9, HuntFacts DEF HuntInv, HuntTypeOK

\* The hull that acts is in the game, and so are those that act after it.
LEMMA ActsFacts ==
    ASSUME HuntInv, NEW a \in Slots, Acts(a)
    PROVE  /\ InGame(a) /\ UNCHANGED <<channel, sight, lost, won>>
           /\ due' \in Seq(Slots) /\ tick' \in [Slots -> 0 .. MaxTick]
           /\ DueInGame' /\ LostLeft'
  <1>1. /\ due # <<>> /\ a = Head(due) /\ due' = Tail(due) /\ due \in Seq(Slots)
        /\ \E n \in MinTick .. MaxTick : tick' = [tick EXCEPT ![a] = n]
        /\ UNCHANGED <<channel, sight, lost, won>>
    BY HuntFacts DEF Acts
  <1>2. /\ Len(due) \in Nat /\ 1 \in 1 .. Len(due) /\ a = due[1]
        /\ due' \in Seq(Slots) /\ Len(due') = Len(due) - 1
        /\ \A i \in 1 .. Len(due') : due'[i] = due[i + 1] /\ i + 1 \in 1 .. Len(due)
    BY <1>1
  <1>3. \A i \in 1 .. Len(due) : due[i] \in ToSet(due)
    BY <1>1 DEF ToSet
  <1>4. \A x \in ToSet(due') : \E i \in 1 .. Len(due') : due'[i] = x
    BY <1>2 DEF ToSet
  <1>5. a \in ToSet(due) /\ ToSet(due') \subseteq ToSet(due)
    BY <1>2, <1>3, <1>4
  <1>6. tick' \in [Slots -> 0 .. MaxTick]
    BY <1>1, HuntFacts
  <1> QED BY <1>1, <1>2, <1>5, <1>6 DEF HuntInv, DueInGame, LostLeft, InGame

\* What a fight leaves of the claims: one is dropped, one may turn on the hull
\* that acts.
LEMMA FightFacts ==
    ASSUME HuntInv, NEW a \in Slots, InGame(a),
           NEW brokeOff \in BOOLEAN, NEW hit \in SUBSET Slots,
           Fought(a, brokeOff, hit)
    PROVE  LET claims == AfterFight(a, brokeOff, hit)
           IN  /\ claims \in [Slots -> (Numbers \X AllShips) \cup {NoPrey}]
               /\ claims[a] \in {claim[a], NoPrey}
               /\ \A b \in Slots : claims[b] \in {claim[b], NoPrey, ClaimOn(a)}
  <1>1. a \in AllShips /\ a # Nobody
    BY HullFacts
  <1>2. ClaimOn(a) \in Numbers \X AllShips
    BY <1>1, HuntFacts
  <1>3. a \notin hit
    BY DEF Fought
  <1>4. claim \in [Slots -> (Numbers \X AllShips) \cup {NoPrey}]
    BY HuntFacts
  <1> QED BY <1>2, <1>3, <1>4 DEF AfterFight

\* A hull that holds its course does not steer at anybody.
LEMMA CoastsKeep ==
    ASSUME HuntInv, NEW a \in Slots, Coasts(a) \/ HoldsOn(a)
    PROVE  HuntInv'
  <1>1. Acts(a) /\ steers' = <<Nobody, Nobody>>
    BY DEF Coasts, HoldsOn
  <1>2. claim' \in [Slots -> (Numbers \X AllShips) \cup {NoPrey}]
    <2>1. CASE Coasts(a)
      BY <1>1, <2>1, ActsFacts, FightFacts DEF Coasts
    <2>2. CASE HoldsOn(a)
      BY <2>2, HuntFacts DEF HoldsOn
    <2> QED BY <2>1, <2>2
  <1>3. hold' \in [Slots -> 0 .. MaxHold]
    <2>1. CASE Coasts(a)
      BY <2>1, HuntFacts DEF Coasts
    <2>2. CASE HoldsOn(a)
      <3>1. hold[a] - 1 \in 0 .. MaxHold /\ hold' = [hold EXCEPT ![a] = hold[a] - 1]
        BY <2>2, HuntFacts, HullFacts DEF HoldsOn
      <3> QED BY <3>1, HuntFacts
    <2> QED BY <2>1, <2>2
  <1>4. \A b \in Slots, p \in Pilots : steers' # <<b, p>>
    BY <1>1, HullFacts
  <1>5. SteersAtItsClaim'
    BY <1>4 DEF SteersAtItsClaim
  <1> QED BY <1>1, <1>2, <1>3, <1>5, ActsFacts, HuntFacts DEF HuntInv, HuntTypeOK

\* What a hull that looks at its claim may do: keep or drop it and steer at nobody,
\* or steer at a pilot in the open whom it claims now, and whom it claimed before or
\* might still claim.
Outcome(a, claims, d, n, prey) ==
    /\ claim' = [claims EXCEPT ![a] = d]
    /\ hold' = [hold EXCEPT ![a] = n]
    /\ steers' = IF prey = Nobody THEN <<Nobody, Nobody>> ELSE <<a, prey>>
    /\ prey = Nobody => d \in {claims[a], NoPrey}
    /\ prey # Nobody => /\ prey \in Pilots /\ InGame(prey) /\ sight[prey] = "open"
                        /\ d = ClaimOn(prey)
                        /\ d # claims[a] => NotClaimed(claims, prey)

LEMMA HuntsFacts ==
    ASSUME HuntInv, NEW a \in Slots, Hunts(a)
    PROVE  \E brokeOff \in BOOLEAN, hit \in SUBSET Slots,
              d \in (Numbers \X AllShips) \cup {NoPrey}, n \in 0 .. MaxHold,
              prey \in Pilots \cup {Nobody} :
               /\ Fought(a, brokeOff, hit)
               /\ Outcome(a, AfterFight(a, brokeOff, hit), d, n, prey)
  <1> DEFINE T == (Numbers \X AllShips) \cup {NoPrey}
  <1>1. PICK brokeOff \in BOOLEAN, hit \in SUBSET Slots :
           /\ Fought(a, brokeOff, hit)
           /\ LET claims == AfterFight(a, brokeOff, hit)
                  c      == claims[a]
                  Ends(d, n, prey) ==
                      /\ claim' = [claims EXCEPT ![a] = d]
                      /\ hold' = [hold EXCEPT ![a] = n]
                      /\ steers' = IF prey = Nobody THEN <<Nobody, Nobody>> ELSE <<a, prey>>
              IN \/ Standing(c) = "left" /\ Ends(TargetLeft(c), 0, Nobody)
                 \/ /\ Standing(c) = "cloaked"
                    /\ \E d \in {c, NoPrey}, n \in 1 .. MaxHold : Ends(d, n, Nobody)
                 \/ Standing(c) = "open" /\ \E p \in ClaimedPilot(c) : Ends(c, 0, p)
                 \/ /\ Standing(c) \in {"none", "zone"}
                    /\ \/ \E p \in Eligible(claims) : Ends(ClaimOn(p), 0, p)
                       \/ Eligible(claims) = {} /\ Ends(NoPrey, 0, Nobody)
    BY DEF Hunts
  <1> DEFINE claims == AfterFight(a, brokeOff, hit)
             c      == claims[a]
             Ends(d, n, prey) ==
                 /\ claim' = [claims EXCEPT ![a] = d]
                 /\ hold' = [hold EXCEPT ![a] = n]
                 /\ steers' = IF prey = Nobody THEN <<Nobody, Nobody>> ELSE <<a, prey>>
  <1>2. \/ Standing(c) = "left" /\ Ends(TargetLeft(c), 0, Nobody)
        \/ \E d \in {c, NoPrey}, n \in 1 .. MaxHold : Ends(d, n, Nobody)
        \/ Standing(c) = "open" /\ \E p \in ClaimedPilot(c) : Ends(c, 0, p)
        \/ \E p \in Eligible(claims) : Ends(ClaimOn(p), 0, p)
        \/ Ends(NoPrey, 0, Nobody)
    BY <1>1
  <1>3. InGame(a)
    BY ActsFacts DEF Hunts
  <1>4. c \in T
    BY <1>1, <1>3, FightFacts
  <1>5. 0 \in 0 .. MaxHold /\ 1 .. MaxHold \subseteq 0 .. MaxHold /\ Nobody \notin Pilots
    BY HullFacts
  <1>6. \A n : \A d \in {c, NoPrey} : Ends(d, n, Nobody) => Outcome(a, claims, d, n, Nobody)
    BY DEF Outcome
  <1>7. \A d, n : \A p \in Pilots :
           /\ p # Nobody /\ Ends(d, n, p) /\ InGame(p) /\ sight[p] = "open" /\ d = ClaimOn(p)
           /\ d # c => NotClaimed(claims, p)
           => Outcome(a, claims, d, n, p)
    BY DEF Outcome
  <1> HIDE DEF claims, c, Ends
  <1>8. \E d \in T, n \in 0 .. MaxHold, prey \in Pilots \cup {Nobody} :
           Outcome(a, claims, d, n, prey)
    <2>1. CASE Ends(TargetLeft(c), 0, Nobody)
      BY <1>5, <1>6, <2>1 DEF TargetLeft
    <2>2. CASE \E d \in {c, NoPrey}, n \in 1 .. MaxHold : Ends(d, n, Nobody)
      BY <1>4, <1>5, <1>6, <2>2
    <2>3. CASE Standing(c) = "open" /\ \E p \in ClaimedPilot(c) : Ends(c, 0, p)
      <3>1. PICK p \in ClaimedPilot(c) : Ends(c, 0, p)
        BY <2>3
      <3>2. p \in Pilots /\ InGame(p) /\ c = ClaimOn(p)
        BY DEF ClaimedPilot
      <3>3. \A q \in ClaimedPilot(c) : q = p
        BY <3>2 DEF ClaimedPilot, ClaimOn
      <3>4. sight[CHOOSE q \in ClaimedPilot(c) : TRUE] = "open"
        <4>1. "none" # "open" /\ "left" # "open"
          OBVIOUS
        <4> QED BY <2>3, <4>1 DEF Standing
      <3>5. (CHOOSE q \in ClaimedPilot(c) : TRUE) = p
        BY <3>3
      <3>6. sight[p] = "open"
        BY <3>4, <3>5
      <3>7. Outcome(a, claims, c, 0, p)
        BY <1>5, <1>7, <3>1, <3>2, <3>6
      <3> QED BY <1>4, <1>5, <3>2, <3>7
    <2>4. CASE \E p \in Eligible(claims) : Ends(ClaimOn(p), 0, p)
      <3>1. PICK p \in Eligible(claims) : Ends(ClaimOn(p), 0, p)
        BY <2>4
      <3>2. p \in Pilots /\ InGame(p) /\ sight[p] = "open" /\ NotClaimed(claims, p)
        BY DEF Eligible
      <3>3. Outcome(a, claims, ClaimOn(p), 0, p)
        BY <1>5, <1>7, <3>1, <3>2
      <3>4. ClaimOn(p) \in T
        BY <3>2, HullFacts, HuntFacts
      <3> QED BY <1>5, <3>2, <3>3, <3>4
    <2>5. CASE Ends(NoPrey, 0, Nobody)
      BY <1>5, <1>6, <2>5
    <2> QED BY <1>2, <2>1, <2>2, <2>3, <2>4, <2>5
  <1> QED BY <1>1, <1>8 DEF claims

LEMMA HuntsKeep ==
    ASSUME HuntInv, NEW a \in Slots, Hunts(a)
    PROVE  HuntInv'
  <1>1. Acts(a)
    BY DEF Hunts
  <1>2. InGame(a) /\ channel' = channel /\ sight' = sight /\ lost' = lost
    BY <1>1, ActsFacts
  <1>3. PICK brokeOff \in BOOLEAN, hit \in SUBSET Slots,
             d \in (Numbers \X AllShips) \cup {NoPrey}, n \in 0 .. MaxHold,
             prey \in Pilots \cup {Nobody} :
               /\ Fought(a, brokeOff, hit)
               /\ Outcome(a, AfterFight(a, brokeOff, hit), d, n, prey)
    BY HuntsFacts
  <1> DEFINE claims == AfterFight(a, brokeOff, hit)
  <1>4. claims \in [Slots -> (Numbers \X AllShips) \cup {NoPrey}]
    BY <1>2, <1>3, FightFacts
  <1> HIDE DEF claims
  <1>5. claim' = [claims EXCEPT ![a] = d] /\ hold' = [hold EXCEPT ![a] = n]
    BY <1>3 DEF Outcome, claims
  <1>6. /\ claim' \in [Slots -> (Numbers \X AllShips) \cup {NoPrey}]
        /\ hold' \in [Slots -> 0 .. MaxHold]
        /\ claim'[a] = d
    BY <1>4, <1>5, HuntFacts
  <1>7. CASE prey = Nobody
    <2>1. steers' = <<Nobody, Nobody>>
      BY <1>3, <1>7 DEF Outcome
    <2>2. \A b \in Slots, p \in Pilots : steers' # <<b, p>>
      BY <2>1, HullFacts
    <2>3. SteersAtItsClaim'
      BY <2>2 DEF SteersAtItsClaim
    <2> QED BY <1>1, <1>6, <2>1, <2>3, ActsFacts, HuntFacts DEF HuntInv, HuntTypeOK
  <1>8. CASE prey # Nobody
    <2>1. /\ prey \in Pilots /\ InGame(prey) /\ sight[prey] = "open"
          /\ d = ClaimOn(prey) /\ steers' = <<a, prey>>
      BY <1>3, <1>8 DEF Outcome
    <2>2. prey \notin lost
      BY <2>1 DEF HuntInv, LostLeft
    <2>3. SteersAtItsClaim'
      <3> SUFFICES ASSUME NEW b \in Slots, NEW p \in Pilots, steers' = <<b, p>>
                   PROVE  claim'[b] = <<channel'[p], p>> /\ p \notin lost' /\ sight'[p] = "open"
        BY DEF SteersAtItsClaim
      <3>1. b = a /\ p = prey
        BY <2>1
      <3> QED BY <1>2, <1>6, <2>1, <2>2, <3>1 DEF ClaimOn
    <2> QED BY <1>1, <1>6, <2>1, <2>3, ActsFacts, HuntFacts DEF HuntInv, HuntTypeOK
  <1> QED BY <1>7, <1>8

LEMMA HuntKeeps ==
    ASSUME HuntInv, [HuntNext]_huntVars
    PROVE  HuntInv'
  <1>1. CASE UNCHANGED huntVars
    BY <1>1 DEF huntVars, HuntInv, HuntTypeOK, LostLeft, DueInGame, InGame,
                SteersAtItsClaim
  <1> QED BY <1>1, CybEnters, CybLeaves, ClaimsChange, CybEnds, AiTickKeeps, CoastsKeep, HuntsKeep
          DEF HuntNext

\* Type correctness of the hunt: a claim is a channel and a key, or none.
THEOREM HuntTypeCorrect == HuntSpec => []HuntTypeOK
  <1>1. HuntInit => HuntInv
    BY CybStarts
  <1>2. HuntInv /\ [HuntNext]_huntVars => HuntInv'
    BY HuntKeeps
  <1>3. HuntInv => HuntTypeOK
    BY DEF HuntInv
  <1> QED BY <1>1, <1>2, <1>3, PTL DEF HuntSpec

\* A hull steers only at the pilot it has claimed, by his channel and his key, who
\* is in the game and in the open: never at one who has his channel now
\* (claimedPilot).
THEOREM SteeringIsByTheClaim == HuntSpec => []SteersAtItsClaim
  <1>1. HuntInit => HuntInv
    BY CybStarts
  <1>2. HuntInv /\ [HuntNext]_huntVars => HuntInv'
    BY HuntKeeps
  <1>3. HuntInv => SteersAtItsClaim
    BY DEF HuntInv
  <1> QED BY <1>1, <1>2, <1>3, PTL DEF HuntSpec

\* Only a hull that looks at its claim steers.
LEMMA WhoSteers ==
    ASSUME HuntInv, HuntNext, NEW a \in Slots, NEW p \in Pilots,
           steers' = <<a, p>>
    PROVE  Hunts(a)
  <1>1. steers' # <<Nobody, Nobody>>
    BY HullFacts
  <1>2. PICK b \in Slots : Hunts(b)
    BY <1>1 DEF HuntNext, ComesIn, GoesOut, SightChanges, Provoke, Destroyed, Scored,
                Restart, AiTick, Coasts, HoldsOn, Quiet
  <1>3. \E prey : steers' = IF prey = Nobody THEN <<Nobody, Nobody>> ELSE <<b, prey>>
    BY <1>2, HuntsFacts DEF Outcome
  <1>4. b = a
    BY <1>1, <1>3
  <1> QED BY <1>2, <1>4

LEMMA AScanIsLimited ==
    ASSUME HuntInv, HuntNext, NEW a \in Slots, NEW p \in Pilots,
           steers' = <<a, p>>, claim'[a] # claim[a]
    PROVE  Cardinality({b \in Slots : InGame(b) /\ claim'[b] = <<channel[p], p>>}) <= NoClaim
  <1> DEFINE after == {b \in Slots : InGame(b) /\ claim'[b] = <<channel[p], p>>}
  <1>1. Hunts(a) /\ InGame(a)
    BY WhoSteers, ActsFacts DEF Hunts
  <1>2. PICK brokeOff \in BOOLEAN, hit \in SUBSET Slots,
             d \in (Numbers \X AllShips) \cup {NoPrey}, n \in 0 .. MaxHold,
             prey \in Pilots \cup {Nobody} :
               /\ Fought(a, brokeOff, hit)
               /\ Outcome(a, AfterFight(a, brokeOff, hit), d, n, prey)
    BY <1>1, HuntsFacts
  <1> DEFINE claims == AfterFight(a, brokeOff, hit)
             before == {b \in Slots : InGame(b) /\ claims[b] = ClaimOn(p)}
  <1>3. /\ claims \in [Slots -> (Numbers \X AllShips) \cup {NoPrey}]
        /\ claims[a] \in {claim[a], NoPrey}
    BY <1>1, <1>2, FightFacts
  <1> HIDE DEF claims
  <1>4. prey = p
    <2>1. steers' = IF prey = Nobody THEN <<Nobody, Nobody>> ELSE <<a, prey>>
      BY <1>2 DEF Outcome
    <2> QED BY <2>1, HullFacts
  <1>5. /\ claim' = [claims EXCEPT ![a] = d] /\ d = ClaimOn(p)
        /\ d # claims[a] => NotClaimed(claims, p)
    BY <1>2, <1>4, HullFacts DEF Outcome, claims
  <1>6. ClaimOn(p) # NoPrey
    <2>1. InGame(p)
      BY <1>2, <1>4, HullFacts DEF Outcome
    <2>2. NoPrey \notin Numbers \X AllShips
      BY SentinelsAssumption
    <2>3. ClaimOn(p) \in Numbers \X AllShips
      BY <2>1, HuntFacts, HullFacts
    <2> QED BY <2>2, <2>3
  <1>7. d # claims[a]
    BY <1>3, <1>5, <1>6
  <1>8. after \subseteq before \cup {a}
    <2> SUFFICES ASSUME NEW b \in after, b # a PROVE b \in before
      OBVIOUS
    <2>1. claim'[b] = claims[b] /\ claim'[b] = ClaimOn(p)
      BY <1>3, <1>5 DEF ClaimOn
    <2> QED BY <2>1
  <1>9. Cardinality(before) < NoClaim
    BY <1>5, <1>7 DEF NotClaimed, CountClaims, Quantify
  <1>10. IsFiniteSet(before) /\ before \subseteq Slots /\ after \subseteq Slots
    BY HullFacts, FS_Subset
  <1> HIDE DEF before, after
  <1>11. /\ IsFiniteSet(before \cup {a}) /\ Cardinality(before \cup {a}) <= Cardinality(before) + 1
         /\ Cardinality(before) \in Nat
    <2>1. Cardinality(before) \in Nat
      BY <1>10, FS_CardinalityType
    <2>2. /\ IsFiniteSet(before \cup {a})
          /\ Cardinality(before \cup {a}) = IF a \in before THEN Cardinality(before)
                                            ELSE Cardinality(before) + 1
      BY <1>10, FS_AddElement
    <2> QED BY <2>1, <2>2
  <1>12. Cardinality(after) <= Cardinality(before \cup {a}) /\ Cardinality(after) \in Nat
    BY <1>8, <1>11, FS_Subset, FS_CardinalityType
  <1>13. NoClaim \in Nat /\ Cardinality(before \cup {a}) \in Nat
    BY <1>11, HullFacts, FS_CardinalityType
  <1>14. Cardinality(after) <= NoClaim
    BY <1>9, <1>11, <1>12, <1>13
  <1> QED BY <1>14 DEF after

\* The scan never claims a pilot who has as many hulls on him as his class
\* allows, whoever had his channel before him (countClaims against noclaim).
THEOREM TheGangUpIsLimited == HuntSpec => GangUpIsLimited
  <1>1. HuntInit => HuntInv
    BY CybStarts
  <1>2. HuntInv /\ [HuntNext]_huntVars => HuntInv'
    BY HuntKeeps
  <1>3. HuntInv /\ [HuntNext]_huntVars =>
          [\A a \in Slots, p \in Pilots :
              steers' = <<a, p>> /\ claim'[a] # claim[a] =>
                 Cardinality({b \in Slots : InGame(b) /\ claim'[b] = <<channel[p], p>>})
                   <= NoClaim]_huntVars
    BY AScanIsLimited
  <1> QED BY <1>1, <1>2, <1>3, PTL DEF HuntSpec, GangUpIsLimited

\* A claim that is new is not on a ship that is lost.
LostAreLeftAlone ==
    [][\A a \in Slots :
          claim'[a] = claim[a] \/ claim'[a] = NoPrey \/ claim'[a][2] \notin lost]_huntVars

LEMMA NewClaimsAreOnTheLiving ==
    ASSUME HuntInv, HuntNext, NEW b \in Slots
    PROVE  claim'[b] = claim[b] \/ claim'[b] = NoPrey \/ claim'[b][2] \notin lost
  <1>1. \A s \in AllShips : InGame(s) => ClaimOn(s)[2] \notin lost
    BY DEF HuntInv, LostLeft, ClaimOn
  <1>2. claim \in [Slots -> (Numbers \X AllShips) \cup {NoPrey}]
    BY HuntFacts
  <1>3. CASE \E a \in Slots, s \in AllShips : Provoke(a, s)
    <2>1. PICK a \in Slots, s \in AllShips :
               InGame(s) /\ claim' = [claim EXCEPT ![a] = ClaimOn(s)]
      BY <1>3 DEF Provoke
    <2>2. claim'[b] = claim[b] \/ claim'[b] = ClaimOn(s)
      BY <1>2, <2>1
    <2> QED BY <1>1, <2>1, <2>2
  <1>4. ASSUME NEW a \in Slots, Hunts(a)
        PROVE  claim'[b] = claim[b] \/ claim'[b] = NoPrey \/ claim'[b][2] \notin lost
    <2>1. PICK brokeOff \in BOOLEAN, hit \in SUBSET Slots,
               d \in (Numbers \X AllShips) \cup {NoPrey}, n \in 0 .. MaxHold,
               prey \in Pilots \cup {Nobody} :
                 /\ Fought(a, brokeOff, hit)
                 /\ Outcome(a, AfterFight(a, brokeOff, hit), d, n, prey)
      BY <1>4, HuntsFacts
    <2> DEFINE claims == AfterFight(a, brokeOff, hit)
    <2>2. InGame(a) /\ a \in AllShips
      BY <1>4, ActsFacts, HullFacts DEF Hunts
    <2>3. /\ claims \in [Slots -> (Numbers \X AllShips) \cup {NoPrey}]
          /\ claims[a] \in {claim[a], NoPrey}
          /\ claims[b] \in {claim[b], NoPrey, ClaimOn(a)}
      BY <2>1, <2>2, FightFacts
    <2> HIDE DEF claims
    <2>4. /\ claim' = [claims EXCEPT ![a] = d]
          /\ prey = Nobody => d \in {claims[a], NoPrey}
          /\ prey # Nobody => prey \in Pilots /\ InGame(prey) /\ d = ClaimOn(prey)
      BY <2>1 DEF Outcome, claims
    <2>5. claim'[b] = IF b = a THEN d ELSE claims[b]
      BY <2>3, <2>4
    <2>6. prey # Nobody => d[2] \notin lost
      BY <1>1, <2>4, HullFacts
    <2> QED BY <1>1, <2>2, <2>3, <2>4, <2>5, <2>6
  <1>5. ASSUME NEW a \in Slots, Coasts(a)
        PROVE  claim'[b] = claim[b] \/ claim'[b] = NoPrey \/ claim'[b][2] \notin lost
    <2>1. PICK brokeOff \in BOOLEAN, hit \in SUBSET Slots :
               /\ Fought(a, brokeOff, hit)
               /\ claim' = AfterFight(a, brokeOff, hit)
      BY <1>5 DEF Coasts
    <2>2. InGame(a) /\ a \in AllShips
      BY <1>5, ActsFacts, HullFacts DEF Coasts
    <2>3. claim'[b] \in {claim[b], NoPrey, ClaimOn(a)}
      BY <2>1, <2>2, FightFacts
    <2> QED BY <1>1, <2>2, <2>3
  <1>6. CASE \/ \E s \in AllShips : ComesIn(s)
             \/ \E p \in Pilots : GoesOut(p) \/ \E w \in Sights : SightChanges(p, w)
             \/ \E s \in AllShips, k \in Slots \cup {Nobody} : Destroyed(s, k)
             \/ \E a \in Slots : Scored(a) \/ HoldsOn(a)
             \/ Restart \/ AiTick
    <2>1. \/ claim' = claim \/ claim' = [a \in Slots |-> NoPrey]
          \/ \E a \in Slots : claim' = [claim EXCEPT ![a] = NoPrey]
      BY <1>6 DEF ComesIn, GoesOut, SightChanges, Destroyed, Scored, HoldsOn,
                  Restart, AiTick
    <2> QED BY <1>2, <2>1
  <1> QED BY <1>3, <1>4, <1>5, <1>6 DEF HuntNext

\* Nobody claims a ship that is lost, by whichever way a claim comes about; so that
\* one on it that the release at the kill has missed can only lapse (ClaimsLapse).
THEOREM TheLostAreNotClaimed == HuntSpec => LostAreLeftAlone
  <1>1. HuntInit => HuntInv
    BY CybStarts
  <1>2. HuntInv /\ [HuntNext]_huntVars => HuntInv'
    BY HuntKeeps
  <1>3. HuntInv /\ [HuntNext]_huntVars =>
          [\A a \in Slots :
              claim'[a] = claim[a] \/ claim'[a] = NoPrey \/ claim'[a][2] \notin lost]_huntVars
    BY NewClaimsAreOnTheLiving
  <1> QED BY <1>1, <1>2, <1>3, PTL DEF HuntSpec, LostAreLeftAlone

=============================================================================
