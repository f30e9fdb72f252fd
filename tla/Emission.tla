------------------------------ MODULE Emission ------------------------------
(* realm/r/kourtv2, emission: one court's accrual line in use.  Blocks     *)
(* pass, and every transaction that needs the line current touches it      *)
(* first: buying, burning, awarding seniors, opening rewards, drawing and  *)
(* paying.  Some transactions burn coin and do not touch it.               *)
EXTENDS EmissionLine

CONSTANTS
  Amounts,      \* what is bought, burned, awarded or wanted at a time
  SupplyStart,  \* coin at the start
  MaxSupply,    \* where buying stops
  MaxIdle,      \* blocks between two touches, at most
  MaxSeniors, MaxDraws,  \* bounds on a behaviour
  BurnsUntouched         \* whether an account burns coin without a touch

ASSUME UseAssumption ==
  Amounts \subseteq Nat \ {0} /\ SupplyStart \in Nat /\ MaxIdle \in Nat

VARIABLES
  line,     \* the accrual line, as the last touch left it
  idle,     \* blocks since then
  supply,   \* of the court's coin
  undrawn,  \* drawn by opening rewards and not minted yet
  draws,    \* intervals of the line that juniors were given
  opened,   \* what this period found accrued, and whether it was paused
  held,     \* seniors that waited while a budget was forgone
  turn      \* the supply at the last period boundary

vars == <<line, idle, supply, undrawn, draws, opened, held, turn>>
ghosts == <<draws, opened, held, turn>>

(* Accrual in parts of a unit.                                             *)
Units(e) == e.cum * PeriodBlocks + e.rem

(* What blocks offer a line, in the same parts: each period its budget,    *)
(* which steps down at every boundary, whatever the reservoir holds.       *)
Offered(e, blocks, now) ==
  LET n == Crossed(e, blocks)
      period[i \in 0 .. n] == IF i = 0 THEN e ELSE Roll(period[i - 1], now)
      given[i \in 0 .. n] ==
        IF i = 0 THEN 0
        ELSE given[i - 1] + period[i - 1].budget * (PeriodBlocks - period[i - 1].phase)
  IN  given[n] + period[n].budget * LastSegment(e, blocks)

EndOf(i) == line.queue[i].start + line.queue[i].amount

Current == Touch(line, idle, supply)

Init == /\ line \in {NewLine(0), NewLine(AbsStart)} /\ idle = 0 /\ supply = SupplyStart
        /\ undrawn = 0 /\ draws = <<>>
        /\ opened = [units |-> 0, paused |-> FALSE] /\ held = {} /\ turn = 0

(* A block passes.  The period turns whether or not anybody touches.       *)
Tick == /\ idle < MaxIdle
        /\ idle' = idle + 1
        /\ turn' = IF (line.phase + idle') % PeriodBlocks = 0 THEN supply ELSE turn
        /\ UNCHANGED <<line, supply, undrawn, draws, opened, held>>

(* What every touch does to the records of this period.                    *)
Touched == /\ idle' = 0
           /\ LET z == Rolled(line, idle, supply)
              IN  IF Crossed(line, idle) = 0
                  THEN opened' = [opened EXCEPT !.paused = @ \/ (idle > 0 /\ Paused(line))]
                  ELSE opened' = [units |-> Units(z),
                                  paused |-> LastSegment(line, idle) > 0 /\ Paused(z)]
           /\ held' = held \union {i \in DOMAIN line.queue :
                        /\ Current.cum < EndOf(i)
                        /\ Units(Current) < Units(line) + Offered(line, idle, supply)}
           /\ UNCHANGED turn

Poke == /\ idle > 0
        /\ Touched /\ line' = Current
        /\ UNCHANGED <<supply, undrawn, draws>>

(* Coin is bought, or burned by a call that touches.                       *)
Buy(n) == /\ supply + n <= MaxSupply
          /\ Touched /\ line' = Current
          /\ supply' = supply + n
          /\ UNCHANGED <<undrawn, draws>>

Burn(n) == /\ supply >= n
           /\ Touched /\ line' = Current
           /\ supply' = supply - n
           /\ UNCHANGED <<undrawn, draws>>

(* A dead claim's fee, a burned bond of an association or of a ballot      *)
(* line: the coin goes, and the line is not touched.                       *)
BurnUntouched(n) == /\ BurnsUntouched /\ supply >= n
                    /\ supply' = supply - n
                    /\ UNCHANGED <<line, idle, undrawn>> /\ UNCHANGED ghosts

(* A conduct award or a carrot.                                            *)
Award(n) == /\ Len(line.queue) < MaxSeniors
            /\ Touched /\ line' = EnqueueSenior(Current, n)
            /\ UNCHANGED <<supply, undrawn, draws>>

(* Rewards are opened, and the claim's draw is cut to what there is.       *)
Draw(want) ==
  /\ Len(draws) < MaxDraws
  /\ Touched /\ line' = ReserveJunior(Current, want)
  /\ LET got == Granted(Current, want)
         from == Current.tail + Current.junior
     IN  /\ undrawn' = undrawn + got
         /\ draws' = Append(draws, [from |-> from, to |-> from + got])
  /\ UNCHANGED supply

(* One of the claim's people draws a part.                                 *)
PullJunior(n) == /\ n <= undrawn
                 /\ Touched /\ line' = Mint(Current, n)
                 /\ undrawn' = undrawn - n /\ supply' = supply + n
                 /\ UNCHANGED draws

PullSenior(i) == /\ i \in DOMAIN line.queue
                 /\ Touched /\ line' = PaySenior(Current, i)
                 /\ supply' = supply + Payable(Current, i)
                 /\ UNCHANGED <<undrawn, draws>>

Next == \/ Tick \/ Poke
        \/ \E n \in Amounts : Buy(n) \/ Burn(n) \/ BurnUntouched(n) \/ Award(n) \/ Draw(n) \/ PullJunior(n)
        \/ \E i \in DOMAIN line.queue : PullSenior(i)

Spec == Init /\ [][Next]_vars

(* Blocks pass and somebody touches the line; what stays payable is pulled: *)
(* anybody may pull a senior, and the one it pays has reason to.  (The last *)
(* is WF_vars(Due(i) /\ PullSenior(i)), with its guard for ENABLED.)        *)
Due(i) == i \in DOMAIN line.queue /\ \E now \in {Current} : Payable(now, i) > 0

Fairness ==
  /\ WF_vars(Tick) /\ WF_idle(idle' = 0)
  /\ \A i \in 1 .. MaxSeniors : <>[]Due(i) => []<><<Due(i) /\ PullSenior(i)>>_vars

FairSpec == Spec /\ Fairness

-----------------------------------------------------------------------------
Stretches == [from : Nat, to : Nat]

(* The line and the records kept of it are of their types, and no senior   *)
(* is paid more than it was awarded.                                       *)
TypeOK ==
  /\ line \in Lines
  /\ \A i \in DOMAIN line.queue : line.queue[i].paid <= line.queue[i].amount
  /\ idle \in 0 .. MaxIdle /\ supply \in Nat /\ undrawn \in Nat /\ turn \in Nat
  /\ draws \in Seq(Stretches)
  /\ opened \in [units : Int, paused : BOOLEAN] /\ held \subseteq Nat

(* Nothing that accrued is minted twice: the stretches seniors were paid   *)
(* from and juniors were given are disjoint parts of what has accrued, and *)
(* a senior is not paid before all that was reserved ahead of it has       *)
(* accrued (emission.gno: "keeps the whole number line disjoint").         *)
Stretch(i) == [from |-> line.queue[i].start, to |-> EndOf(i)]
Apart(a, b) == a.to <= b.from \/ b.to <= a.from

AccrualMintedOnce ==
  /\ \A i, j \in DOMAIN line.queue : i < j => Stretch(i).to <= Stretch(j).from
  /\ \A i \in DOMAIN line.queue, d \in DOMAIN draws : Apart(Stretch(i), draws[d])
  /\ \A d, f \in DOMAIN draws : d < f => draws[d].to <= draws[f].from
  /\ \A d \in DOMAIN draws : draws[d].to <= line.cum \/ draws[d].from = draws[d].to
  /\ \A i \in DOMAIN line.queue : line.queue[i].paid > 0 => line.queue[i].start + line.queue[i].paid <= line.cum

(* What was minted, and what juniors may still mint, never exceeds what    *)
(* has accrued.                                                            *)
Ceiling == line.emitted + undrawn <= line.cum

(* In a period exactly the budget accrues, to the part of a unit and       *)
(* however often the line was touched; less only after the reservoir was   *)
(* found full (emission.gno: "to the unit").                               *)
PeriodPaysItsBudget ==
  /\ Units(line) - opened.units <= line.budget * line.phase
  /\ ~opened.paused => Units(line) - opened.units = line.budget * line.phase

(* Budgets step down until nothing accrues any more, so an award larger    *)
(* than what is left is never paid in full (emission.gno: "full amount,    *)
(* possibly time-delayed").  But that is the only way to be left short: a  *)
(* senior is paid in full in the end, or else the budgets have run out (in *)
(* the meta court, also when all its coin is gone), it was paid all that   *)
(* accrued to it, and no block's budget was forgone while it waited.       *)
RunOut == line.budget = 0 /\ line.bps = 0 /\ (line.abs = 0 \/ supply = 0)

PaidInFull(i) == line.queue[i].paid = line.queue[i].amount

LeftShort(i) ==
  /\ RunOut /\ i \notin held
  /\ line.cum < EndOf(i) /\ line.queue[i].paid = AtLeast0(line.cum - line.queue[i].start)

SeniorsGetPaid ==
  \A i \in 1 .. MaxSeniors :
    i \in DOMAIN line.queue ~> i \in DOMAIN line.queue /\ (PaidInFull(i) \/ LeftShort(i))

(* The budget is the share of the supply that was live when the period     *)
(* turned (emission.gno: "read once at each period boundary").             *)
BudgetReadAtTheBoundary ==
  idle = 0 /\ AbsStart = 0 => line.budget = (turn * line.bps) \div Whole
=============================================================================
