------------------------------ MODULE MCStakes ------------------------------
(* Two holders on both sides of one claim, one of them on a second claim   *)
(* as well.                                                                *)
EXTENDS Stakes

CONSTANTS c1, c2, ann, bob

MCBackers == c1 :> {<<ann, "YES">>, <<bob, "YES">>, <<bob, "NO">>} @@ c2 :> {<<ann, "NO">>}
MCRates == [t \in 1 .. 5 |-> IF t = 3 THEN {1, 2} ELSE {1}]
MCOpening == ann :> 1000 @@ bob :> 1500
=============================================================================
