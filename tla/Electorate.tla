------------------------------ MODULE Electorate ------------------------------
(***************************************************************************)
(* What the governor is promised by whatever gives it weight (electorate.  *)
(* gno, the Electorate interface): epochs end one after the other, each    *)
(* with a roll that is known only then, and what was sealed is never       *)
(* another.                                                                *)
(***************************************************************************)
EXTENDS Integers, Sequences

CONSTANT Worlds      \* the rolls an epoch may turn out to have had

VARIABLE sealed      \* sealed[at]: the roll of epoch at

Init == sealed = <<>>

(* One epoch at a time, and every roll before it as it was.                *)
Seal(world) == sealed' = Append(sealed, world)

Next == /\ Len(sealed') = Len(sealed) + 1
        /\ \E world \in Worlds : Seal(world)

Spec == Init /\ [][Next]_sealed
=============================================================================
