------------------------------ MODULE MCTeams ------------------------------
(* Three captains, two calls in flight, two teams of at most two members.  *)
EXTENDS Teams, TLC

MCSymmetry == Permutations(Calls) \cup Permutations(Users) \cup Permutations(Names)
=============================================================================
