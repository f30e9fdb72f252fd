------------------------------- MODULE Tally -------------------------------
(* realm/p/governor, wouldBe: what the votes cast on a question decide,    *)
(* and when they decide it although not every vote has been cast.  A tally *)
(* is a record with the weight total that may be cast, the weight engaged  *)
(* that a quorum in basis points is taken of, a quorumFloor that replaces  *)
(* it when it is not 0, the rules, and the weights yes, no and abstain.    *)
EXTENDS Integers

CONSTANT Bps         \* basis points in the whole: 10000

ASSUME TallyAssumption == Bps \in Nat \ {0}

Turnout(p) == p.yes + p.no + p.abstain
Rest(p) == p.total - Turnout(p)

Quorate(p) == IF p.quorumFloor > 0 THEN Turnout(p) >= p.quorumFloor
              ELSE Turnout(p) * Bps >= p.engaged * p.rules["quorum"]

(* yes carries the question against no.                                    *)
Carries(p, yes, no) ==
  Quorate(p) /\ yes > 0 /\ yes * Bps >= (yes + no) * p.rules["threshold"]

(* Mutant: votes nobody has cast yet are not counted against.              *)
Won_IgnoresRest(p) == Carries(p, p.yes, p.no)

(* Carried even if all the rest says no, and lost even if it says yes.     *)
Won(p) == Carries(p, p.yes, p.no + Rest(p))

(* Mutant: what has not been cast is taken for a no.                       *)
Lost_CountsCast(p) == \/ p.yes + Rest(p) = 0
                      \/ p.yes * Bps < (p.yes + p.no) * p.rules["threshold"]

Lost(p) == \/ p.yes + Rest(p) = 0
           \/ (p.yes + Rest(p)) * Bps < (p.yes + Rest(p) + p.no) * p.rules["threshold"]

(* However what is left is cast, the tally at the deadline carries, or not. *)
Completed(p, y, n, a) == [p EXCEPT !.yes = @ + y, !.no = @ + n, !.abstain = @ + a]
EveryCompletion(p, carried) ==
  \A y, n, a \in 0 .. Rest(p) : y + n + a <= Rest(p) =>
    LET end == Completed(p, y, n, a) IN Carries(end, end.yes, end.no) = carried

=============================================================================
