------------------------------ MODULE MCCourt ------------------------------
(* A court of a few holders: an author who staked, an answerer, and two    *)
(* voters, one of whom disputes.                                           *)
EXTENDS Court, TLC

CONSTANTS c1, ann, bob, vic, wes

MCOpening == ann :> 11 @@ bob :> 107 @@ vic :> 150 @@ wes :> 60
MCConvs == {"YES" :> 100 @@ "NO" :> 60}
=============================================================================
