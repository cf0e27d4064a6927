------------------------------ MODULE MCPlanets ------------------------------
(* planets_trade has two hulls of one account, one colony and the hub;      *)
(* planets has one hull, two wild colonies and a cap of one planet, and     *)
(* planets_claims two hulls of one account that claim them at once.         *)
EXTENDS Planets, TLC

CONSTANTS h1, h2, u1, u2, a1, a2, NoOwner

MCOneCaptain  == h1 :> u1 @@ h2 :> u1
MCOwned       == [p \in {a1} |-> u1]
MCWild        == [p \in {a1, a2} |-> NoOwner]
MCLoneCaptain == h1 :> u1
MCSymmetry    == Permutations({h1, h2})
=============================================================================
