------------------------------ MODULE MCCombat ------------------------------
(* A captain and a Cybertron, in the order of the keys, with two mines and one *)
(* place in the table.                                                         *)
EXTENDS Combat

CONSTANTS a, c, anna, cyb

MCOrder   == <<a, c>>
MCCaptain == (a :> anna) @@ (c :> cyb)
=============================================================================
