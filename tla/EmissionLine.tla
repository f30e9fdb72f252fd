---------------------------- MODULE EmissionLine ----------------------------
(* realm/r/kourtv2, emission: a court's accrual line.  Coin that may be    *)
(* minted accrues on one line block by block, at a budget set anew each    *)
(* period.  Senior entitlements reserve intervals of the line in advance   *)
(* and are paid as accrual reaches them; junior draws take what has        *)
(* accrued past everything reserved.  A line is a record with              *)
(*   cum, rem      accrued so far, and the part of a unit carried along;   *)
(*   budget        of this period, fixed at its start;                     *)
(*   bps, abs      share of the supply, or the amount, it is computed of;  *)
(*   phase         blocks of this period accrued so far;                   *)
(*   tail, junior  all seniors ever reserved and all juniors ever drawn;   *)
(*   owed          what seniors still have to get;                         *)
(*   emitted       minted from the line;                                   *)
(*   queue         the seniors: amount, start and how much was paid.       *)
(* The conviction rate and the realized dilution, which the same calls     *)
(* advance, do not act back on the line and are left out.                  *)
EXTENDS Integers, Sequences

CONSTANTS
  PeriodBlocks,      \* blocks in a period: 120960
  RMaxPeriods,       \* budgets the reservoir may hold: 4
  StepNum, StepDen,  \* what a budget keeps from one period to the next
  Whole,             \* what bps are a share of: 10^10
  BudgetStart,       \* bps of a court's first budget
  AbsStart           \* the amount the meta court starts from, 0 for no meta court

ASSUME EmissionAssumption ==
  /\ PeriodBlocks \in Nat \ {0} /\ RMaxPeriods \in Nat
  /\ StepNum \in Nat /\ StepDen \in Nat \ {0} /\ StepNum <= StepDen
  /\ Whole \in Nat \ {0} /\ BudgetStart \in Nat /\ AbsStart \in Nat

Seniors == [amount : Nat \ {0}, start : Nat, paid : Nat]
Lines == [cum : Nat, rem : 0 .. PeriodBlocks - 1, budget : Nat, bps : Nat, abs : Nat,
          phase : 0 .. PeriodBlocks - 1, tail : Nat, junior : Nat, owed : Int, emitted : Nat,
          queue : Seq(Seniors)]

(* A court goes by its supply, unless it is the meta court.                *)
NewLine(abs) == [cum |-> 0, rem |-> 0, budget |-> 0, bps |-> BudgetStart, abs |-> abs,
                 phase |-> 0, tail |-> 0, junior |-> 0, owed |-> 0, emitted |-> 0, queue |-> <<>>]

AtLeast0(n) == IF n > 0 THEN n ELSE 0

(* What a junior may draw of.                                              *)
Reservoir(e) == AtLeast0(AtLeast0(e.cum - e.tail) - e.junior)
RMax(e) == RMaxPeriods * e.budget

(* Mutant: the budget is forgone as soon as accrual is past the tail.      *)
Full_PastTail(e) == e.cum >= e.tail

(* The budget is forgone while the reservoir is full and no senior waits.  *)
Full(e) == Reservoir(e) >= RMax(e) /\ e.cum >= e.tail

Paused(e) == e.budget <= 0 \/ Full(e)

(* Mutant: the part of a unit is dropped at the end of a segment.          *)
Accrue_Dropped(e, blocks) ==
  IF blocks <= 0 \/ Paused(e) THEN e
  ELSE [e EXCEPT !.cum = @ + (e.budget * blocks + e.rem) \div PeriodBlocks, !.rem = 0]

Accrue(e, blocks) ==
  IF blocks <= 0 \/ Paused(e) THEN e
  ELSE LET num == e.budget * blocks + e.rem
       IN  [e EXCEPT !.cum = @ + num \div PeriodBlocks, !.rem = num % PeriodBlocks]

Step(n) == (n * StepNum) \div StepDen

(* A period ends, and the next budget is read off the supply of now.       *)
Roll(e, supply) ==
  LET abs == IF supply > 0 /\ e.abs > 0 THEN Step(e.abs) ELSE e.abs
      budget == CASE supply <= 0 -> 0
                  [] e.abs > 0   -> abs
                  [] OTHER       -> (supply * Step(e.bps)) \div Whole
  IN  [e EXCEPT !.bps = Step(@), !.abs = abs, !.budget = budget, !.phase = 0]

(* The line as its last boundary leaves it, blocks after it was current,   *)
(* and what of them is left: touch walks from boundary to boundary.        *)
Crossed(e, blocks) == (e.phase + blocks) \div PeriodBlocks

Rolled(e, blocks, supply) ==
  LET roll[i \in 0 .. Crossed(e, blocks)] ==
        IF i = 0 THEN e
        ELSE Roll(Accrue(roll[i - 1], PeriodBlocks - roll[i - 1].phase), supply)
  IN  roll[Crossed(e, blocks)]

LastSegment(e, blocks) ==
  IF Crossed(e, blocks) = 0 THEN blocks ELSE (e.phase + blocks) % PeriodBlocks

(* The line made current.  Only what accrues and its terms change.         *)
Touch(e, blocks, supply) ==
  LET z == Rolled(e, blocks, supply)
      a == Accrue(z, LastSegment(e, blocks))
  IN  [e EXCEPT !.cum = a.cum, !.rem = a.rem, !.budget = a.budget, !.bps = a.bps, !.abs = a.abs,
                !.phase = (e.phase + blocks) % PeriodBlocks]

(* Mutant: a senior starts at the tail, where juniors may have drawn.      *)
EnqueueSenior_AtTail(e, amount) ==
  [e EXCEPT !.queue = Append(@, [amount |-> amount, start |-> e.tail, paid |-> 0]),
            !.tail = @ + amount, !.owed = @ + amount]

EnqueueSenior(e, amount) ==
  [e EXCEPT !.queue = Append(@, [amount |-> amount, start |-> e.tail + e.junior, paid |-> 0]),
            !.tail = @ + amount, !.owed = @ + amount]

(* Mutant: a draw is not cut to the reservoir.                             *)
Granted_Uncut(e, want) == AtLeast0(want)

(* What a junior gets of what it wants.                                    *)
Granted(e, want) == AtLeast0(IF want > Reservoir(e) THEN Reservoir(e) ELSE want)
ReserveJunior(e, want) == [e EXCEPT !.junior = @ + Granted(e, want)]

(* Mutant: coverage is not cut to the amount.                              *)
Payable_Uncut(e, i) == AtLeast0(e.cum - e.queue[i].start - e.queue[i].paid)

(* What entitlement i can be paid now.                                     *)
Payable(e, i) ==
  LET s == e.queue[i]
      covered == e.cum - s.start
  IN  AtLeast0((IF covered > s.amount THEN s.amount ELSE covered) - s.paid)

Mint(e, amount) == [e EXCEPT !.emitted = @ + amount]

PaySenior(e, i) ==
  LET pay == Payable(e, i)
  IN  Mint([e EXCEPT !.queue[i].paid = @ + pay, !.owed = @ - pay], pay)
=============================================================================
