------------------------------ MODULE ClaimLife ------------------------------
(***************************************************************************)
(* The life of a claim as the two halves of kourtv2 share it: Court, where *)
(* the rounds are, and Stakes, where the coin is that waits for the        *)
(* verdict.  Each half implements it, so that what one takes as given is   *)
(* what the other does.                                                    *)
(***************************************************************************)
CONSTANTS Claims, Sides, None

VARIABLE life        \* of each claim

At(stage, answer, standing, held) ==
  [stage |-> stage, answer |-> answer, standing |-> standing, held |-> held]

Fresh(stage) == At(stage, None, None, FALSE)

Init == life \in [Claims -> {Fresh("unasked"), Fresh("open")}]

From(c, stage, to) == life[c].stage = stage /\ life' = [life EXCEPT ![c] = to]

Ask(c) == From(c, "unasked", Fresh("open"))

(* Nobody answers in time.                                                 *)
Close(c) == From(c, "open", Fresh("closed"))

(* One answer, whose bond is held from now on.                             *)
Answer(c, side) == From(c, "open", At("answered", side, None, TRUE))

(* A round makes a verdict stand, or turns it around.  The bond is lost to *)
(* the first verdict against the answer, for good.                         *)
Judge(c, side) ==
  LET l == life[c] IN
  /\ side # l.standing
  /\ From(c, "answered", At("answered", l.answer, side, l.held /\ side = l.answer))

(* What stands becomes final; where nothing does, the answer or no side.   *)
Settle(c, side) ==
  LET l == life[c] IN
  /\ side \in IF l.standing = None THEN {None, l.answer} ELSE {l.standing}
  /\ From(c, "answered", At("final", l.answer, side, FALSE))

(* The draw is made once, on a final verdict.                              *)
Draw(c) == From(c, "final", At("drawn", life[c].answer, life[c].standing, FALSE))

Next ==
  \E c \in Claims :
    \/ Ask(c) \/ Close(c) \/ Draw(c)
    \/ \E side \in Sides : Answer(c, side) \/ Judge(c, side)
    \/ \E side \in Sides \cup {None} : Settle(c, side)

Spec == Init /\ [][Next]_life
=============================================================================
