------------------------------ MODULE MCSmaller ------------------------------
(* Three small components that share no variable, so that one run explores two *)
(* of them: a behaviour is one of the component `part` names, and the others   *)
(* stay as they start. Each is fair as its own specification says.             *)
(*                                                                             *)
(* smaller has Admission (a captain with three sockets under a cap of two, and *)
(* another with two, in a game with one seat) and Cybertrons (three hulls, in  *)
(* the order of the map, and two pilots). smaller_live has SecondTick (as many *)
(* ships as the stride, so that every departure before a ship moves it to      *)
(* another third; one of them may arm its self-destruct) and Cybertrons under  *)
(* a load that the cap on activations cuts.                                    *)
EXTENDS Admission, SecondTick, Cybertrons, TLC

CONSTANTS Parts, u1, u2, c1, c2, c3, d1, d2, a1, a2, a3, p1, p2

MCUsers    == {u1, u2}
MCSockets  == {c1, c2, c3, d1, d2}
MCAccount  == [s \in MCSockets |-> IF s \in {d1, d2} THEN u2 ELSE u1]
MCHulls    == <<a1, a2, a3>>
MCSymmetry ==
    UNION {Permutations({c1, c2, c3}), Permutations({d1, d2}), Permutations({p1, p2})}

VARIABLE part

partsVars == <<part, doorVars, secondVars, huntVars>>

PartsInit ==
    /\ part \in Parts
    /\ DoorInit /\ SecondInit /\ HuntInit
    /\ part # "second" => fuse = 0

PartsNext ==
    /\ UNCHANGED part
    /\ \/ part = "door"   /\ DoorNext   /\ UNCHANGED <<secondVars, huntVars>>
       \/ part = "second" /\ SecondNext /\ UNCHANGED <<doorVars, huntVars>>
       \/ part = "hunt"   /\ HuntNext   /\ UNCHANGED <<doorVars, secondVars>>

\* The invariants of the parts need no fairness.
PartsSpec == PartsInit /\ [][PartsNext]_partsVars

LivePartsSpec ==
    /\ PartsSpec
    /\ \/ part = "second" /\ SecondFairness
       \/ part = "hunt"   /\ HuntFairness
==============================================================================
