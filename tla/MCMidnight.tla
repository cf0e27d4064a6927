----------------------------- MODULE MCMidnight -----------------------------
(* Two captains, one of them on the one team, one planet, two days.        *)
EXTENDS Midnight, TLC

CONSTANTS t1, NoTeamYet

MCMember0 == 1 :> t1 @@ 2 :> NoTeamYet
=============================================================================
