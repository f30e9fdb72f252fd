--------------------------- MODULE EmissionProofs ---------------------------
(* What holds of Emission for every period length, budget, step, supply    *)
(* and history: lines are typed, nothing that accrued is minted twice, a   *)
(* period accrues its budget and the line is never overdrawn.              *)
EXTENDS Emission, TLAPS, WellFoundedInduction, SequenceTheorems

(* A set of numbers that is not empty has a least one.                     *)
LEMMA LeastNumber ==
  ASSUME NEW T, T \subseteq Nat, T # {}
  PROVE  \E x \in T : \A y \in T : x <= y
<1>1. \E x \in T : \A y \in T : ~ (<<y, x>> \in OpToRel(<, Nat))
  BY NatLessThanWellFounded, WFMin, Zenon
<1>2. PICK x \in T : \A y \in T : ~ (<<y, x>> \in OpToRel(<, Nat))
  BY <1>1
<1>3. \A y \in T : ~ (y < x)
  BY <1>2 DEF OpToRel
<1> QED
  BY <1>3

(* Induction, with a set in the place of a predicate.                      *)
LEMMA SetInduction ==
  ASSUME NEW T, T \subseteq Nat, 0 \in T, \A n \in T : n + 1 \in T
  PROVE  T = Nat
<1>1. SUFFICES ASSUME T # Nat PROVE FALSE
  OBVIOUS
<1>2. PICK x \in Nat \ T : \A y \in Nat \ T : x <= y
  BY LeastNumber, <1>1
<1>3. x - 1 \in Nat /\ x - 1 \notin Nat \ T
  BY <1>2
<1> QED
  BY <1>2, <1>3

(* Division by a number of blocks, or by any other that is not 0.          *)
LEMMA Division ==
  ASSUME NEW a \in Nat, NEW b \in Nat \ {0}
  PROVE  a \div b \in Nat /\ a % b \in 0 .. b - 1
OBVIOUS

LEMMA StepType == ASSUME NEW n \in Nat PROVE Step(n) \in Nat
<1>1. n * StepNum \in Nat
  BY EmissionAssumption
<1> QED
  BY <1>1, Division, EmissionAssumption DEF Step

(* Two lines that differ at most in what accrued and in its terms.         *)
SameBooks(e, f) == /\ f.tail = e.tail /\ f.junior = e.junior /\ f.owed = e.owed
                   /\ f.emitted = e.emitted /\ f.queue = e.queue

Later(e, f) == f \in Lines /\ f.cum >= e.cum

LEMMA LaterThan ==
  ASSUME NEW e \in Lines, NEW f, NEW g, Later(e, f), Later(f, g)
  PROVE  Later(e, g)
<1>1. e.cum \in Nat /\ f.cum \in Nat /\ g.cum \in Nat
  BY DEF Later, Lines
<1> QED
  BY <1>1 DEF Later

(* Accruing a segment leads to a line with no less accrued.                *)
LEMMA AccrueLater ==
  ASSUME NEW e \in Lines, NEW blocks \in Int
  PROVE  Later(e, Accrue(e, blocks)) /\ Accrue(e, blocks).phase = e.phase
<1>1. CASE blocks <= 0 \/ Paused(e)
  BY <1>1 DEF Accrue, Later, Lines
<1>2. CASE ~(blocks <= 0 \/ Paused(e))
  <2> DEFINE num == e.budget * blocks + e.rem
  <2>1. num \in Nat
    <3>1. e.budget \in Nat /\ blocks \in Nat /\ e.rem \in Nat
      BY <1>2 DEF Lines
    <3>2. e.budget * blocks \in Nat
      BY <3>1
    <3> QED
      BY <3>1, <3>2
  <2>2. num \div PeriodBlocks \in Nat /\ num % PeriodBlocks \in 0 .. PeriodBlocks - 1
    BY <2>1, Division, EmissionAssumption
  <2>3. Accrue(e, blocks) = [e EXCEPT !.cum = @ + num \div PeriodBlocks, !.rem = num % PeriodBlocks]
    BY <1>2 DEF Accrue
  <2> DEFINE units == num \div PeriodBlocks
             rest == num % PeriodBlocks
  <2> HIDE DEF num
  <2>4. units \in Nat /\ rest \in 0 .. PeriodBlocks - 1 /\ e.cum \in Nat /\ e.cum + units \in Nat
    BY <2>2 DEF Lines
  <2>5. Accrue(e, blocks) = [e EXCEPT !.cum = e.cum + units, !.rem = rest]
    BY <2>3
  <2> HIDE DEF units, rest
  <2>6. Accrue(e, blocks) \in Lines
    BY <2>4, <2>5 DEF Lines
  <2>7. Accrue(e, blocks).cum = e.cum + units /\ Accrue(e, blocks).phase = e.phase
    BY <2>5 DEF Lines
  <2> QED
    BY <2>4, <2>6, <2>7 DEF Later
<1> QED
  BY <1>1, <1>2

(* So does the end of a period.                                            *)
LEMMA RollLater ==
  ASSUME NEW e \in Lines, NEW s \in Nat
  PROVE  Later(e, Roll(e, s)) /\ Roll(e, s).phase = 0
<1> DEFINE abs == IF s > 0 /\ e.abs > 0 THEN Step(e.abs) ELSE e.abs
           share == (s * Step(e.bps)) \div Whole
           budget == CASE s <= 0 -> 0 [] e.abs > 0 -> abs [] OTHER -> share
<1>1. e.abs \in Nat /\ e.bps \in Nat
  BY DEF Lines
<1>2. abs \in Nat /\ Step(e.bps) \in Nat
  BY <1>1, StepType
<1>3. share \in Nat
  <2>1. s * Step(e.bps) \in Nat
    BY <1>2
  <2> QED
    BY <2>1, Division, EmissionAssumption
<1>4. budget \in Nat
  <2> HIDE DEF abs, share
  <2> QED
    BY <1>1, <1>2, <1>3
<1>5. Roll(e, s) = [e EXCEPT !.bps = Step(@), !.abs = abs, !.budget = budget, !.phase = 0]
  BY DEF Roll
<1>6. 0 \in 0 .. PeriodBlocks - 1
  BY EmissionAssumption
<1> DEFINE bps == Step(e.bps)
<1>7. Roll(e, s) = [e EXCEPT !.bps = bps, !.abs = abs, !.budget = budget, !.phase = 0]
  BY <1>5
<1>8. bps \in Nat
  BY <1>2
<1> HIDE DEF abs, budget, bps
<1>9. Roll(e, s) \in Lines
  BY <1>2, <1>4, <1>6, <1>7, <1>8 DEF Lines
<1>10. Roll(e, s).cum = e.cum /\ Roll(e, s).phase = 0 /\ e.cum \in Nat
  BY <1>7 DEF Lines
<1> QED
  BY <1>9, <1>10 DEF Later

(* And the walk over any number of boundaries: the function that touch     *)
(* computes exists, by induction, and each of its values is a later line.  *)
Walk(f, n, e, s) ==
  f = [i \in 0 .. n |->
         IF i = 0 THEN e ELSE Roll(Accrue(f[i - 1], PeriodBlocks - f[i - 1].phase), s)]

LEMMA WalkExists ==
  ASSUME NEW e, NEW s, NEW n \in Nat
  PROVE  \E f : Walk(f, n, e, s)
<1> DEFINE T == {m \in Nat : \E f : Walk(f, m, e, s)}
<1>1. 0 \in T
  <2>1. Walk([i \in 0 .. 0 |-> e], 0, e, s)
    BY DEF Walk
  <2> QED
    BY <2>1
<1>2. ASSUME NEW m \in T PROVE m + 1 \in T
  <2>1. PICK f : Walk(f, m, e, s)
    BY <1>2
  <2> DEFINE next == Roll(Accrue(f[m], PeriodBlocks - f[m].phase), s)
             g == [i \in 0 .. m + 1 |-> IF i = m + 1 THEN next ELSE f[i]]
  <2>2. \A i \in 0 .. m + 1 :
          g[i] = IF i = 0 THEN e ELSE Roll(Accrue(g[i - 1], PeriodBlocks - g[i - 1].phase), s)
    <3> TAKE i \in 0 .. m + 1
    <3>1. CASE i = 0
      <4>1. f[0] = e
        BY <2>1 DEF Walk
      <4> QED
        BY <3>1, <4>1
    <3>2. CASE i \in 1 .. m
      <4>1. i \in 0 .. m /\ i # 0 /\ i - 1 \in 0 .. m /\ i # m + 1 /\ i - 1 # m + 1 /\ i - 1 \in 0 .. m + 1
        BY <3>2
      <4>2. f[i] = Roll(Accrue(f[i - 1], PeriodBlocks - f[i - 1].phase), s)
        BY <2>1, <4>1 DEF Walk
      <4>3. g[i] = f[i] /\ g[i - 1] = f[i - 1]
        BY <4>1
      <4> QED
        BY <4>1, <4>2, <4>3
    <3>3. CASE i = m + 1
      <4>1. i # 0 /\ i - 1 = m /\ m \in 0 .. m + 1 /\ m # m + 1
        BY <3>3
      <4>2. g[i] = next /\ g[i - 1] = f[m]
        BY <3>3, <4>1
      <4> QED
        BY <4>1, <4>2
    <3> QED
      BY <3>1, <3>2, <3>3
  <2>3. Walk(g, m + 1, e, s)
    <3>1. g = [i \in 0 .. m + 1 |-> g[i]]
      OBVIOUS
    <3> HIDE DEF g
    <3> QED
      BY <2>2, <3>1 DEF Walk
  <2> QED
    BY <2>3
<1>3. T = Nat
  <2>1. T \subseteq Nat
    OBVIOUS
  <2> HIDE DEF T
  <2> QED
    BY <1>1, <1>2, <2>1, SetInduction
<1> QED
  BY <1>3

LEMMA WalkLater ==
  ASSUME NEW e \in Lines, NEW s \in Nat, NEW n \in Nat, NEW f, Walk(f, n, e, s)
  PROVE  Later(e, f[n])
<1> DEFINE T == {m \in Nat : m <= n => Later(e, f[m])}
<1>1. 0 \in T
  <2>1. f[0] = e
    BY DEF Walk
  <2> QED
    BY <2>1 DEF Later, Lines
<1>2. ASSUME NEW m \in Nat, m + 1 <= n, Later(e, f[m]) PROVE Later(e, f[m + 1])
  <2>1. f[m + 1] = Roll(Accrue(f[m], PeriodBlocks - f[m].phase), s)
    <3> DEFINE i == m + 1
    <3>1. i \in 0 .. n /\ i # 0 /\ i - 1 = m
      BY <1>2
    <3> HIDE DEF i
    <3>2. f[i] = Roll(Accrue(f[i - 1], PeriodBlocks - f[i - 1].phase), s)
      BY <3>1 DEF Walk
    <3>3. f[i] = Roll(Accrue(f[m], PeriodBlocks - f[m].phase), s)
      BY <3>1, <3>2
    <3> QED
      BY <3>3 DEF i
  <2>2. f[m] \in Lines /\ PeriodBlocks - f[m].phase \in Int
    <3>1. f[m] \in Lines
      BY <1>2 DEF Later
    <3>2. f[m].phase \in 0 .. PeriodBlocks - 1
      BY <3>1 DEF Lines
    <3>3. PeriodBlocks \in Nat
      BY EmissionAssumption
    <3> QED
      BY <3>1, <3>2, <3>3
  <2>3. Later(f[m], Accrue(f[m], PeriodBlocks - f[m].phase))
    BY <2>2, AccrueLater
  <2>4. Later(Accrue(f[m], PeriodBlocks - f[m].phase), f[m + 1])
    BY <2>1, <2>3, RollLater DEF Later
  <2> QED
    BY <1>2, <2>3, <2>4, LaterThan
<1>4. ASSUME NEW m \in T PROVE m + 1 \in T
  <2>1. m \in Nat /\ (m <= n => Later(e, f[m]))
    BY <1>4
  <2>2. m + 1 <= n => Later(e, f[m + 1])
    BY <2>1, <1>2
  <2> QED
    BY <2>1, <2>2
<1>3. T = Nat
  <2>1. T \subseteq Nat
    OBVIOUS
  <2> HIDE DEF T
  <2> QED
    BY <1>1, <1>4, <2>1, SetInduction
<1> QED
  BY <1>3

LEMMA RolledLater ==
  ASSUME NEW e \in Lines, NEW blocks \in Nat, NEW s \in Nat
  PROVE  /\ Later(e, Rolled(e, blocks, s))
         /\ Crossed(e, blocks) \in Nat /\ LastSegment(e, blocks) \in Nat
         /\ (e.phase + blocks) % PeriodBlocks \in 0 .. PeriodBlocks - 1
<1> DEFINE n == Crossed(e, blocks)
           roll == CHOOSE f : Walk(f, n, e, s)
<1>1. n \in Nat /\ (e.phase + blocks) % PeriodBlocks \in 0 .. PeriodBlocks - 1
  <2>1. e.phase + blocks \in Nat
    BY DEF Lines
  <2> QED
    BY <2>1, Division, EmissionAssumption DEF Crossed
<1>2. LastSegment(e, blocks) \in Nat
  BY <1>1 DEF LastSegment
<1>3. Walk(roll, n, e, s)
  <2>1. \E f : Walk(f, n, e, s)
    BY <1>1, WalkExists
  <2> QED
    BY <2>1, Zenon
<1>4. Rolled(e, blocks, s) = roll[n]
  BY DEF Rolled, Walk
<1> HIDE DEF roll
<1>5. Later(e, roll[n])
  BY <1>1, <1>3, WalkLater
<1> QED
  BY <1>1, <1>2, <1>4, <1>5

(* A touch leads to a line with no less accrued and the same books.        *)
LEMMA TouchLater ==
  ASSUME NEW e \in Lines, NEW blocks \in Nat, NEW s \in Nat
  PROVE  Later(e, Touch(e, blocks, s)) /\ SameBooks(e, Touch(e, blocks, s))
<1> DEFINE z == Rolled(e, blocks, s)
           a == Accrue(z, LastSegment(e, blocks))
           phase == (e.phase + blocks) % PeriodBlocks
<1>2. Later(e, z) /\ LastSegment(e, blocks) \in Nat /\ phase \in 0 .. PeriodBlocks - 1
  BY RolledLater
<1>4. Later(z, a)
  <2>1. z \in Lines /\ LastSegment(e, blocks) \in Int
    BY <1>2 DEF Later
  <2> HIDE DEF z
  <2> QED
    BY <2>1, AccrueLater
<1>5. Touch(e, blocks, s) =
        [e EXCEPT !.cum = a.cum, !.rem = a.rem, !.budget = a.budget, !.bps = a.bps, !.abs = a.abs,
                  !.phase = phase]
  BY DEF Touch
<1>6. a \in Lines /\ a.cum >= e.cum
  <2> HIDE DEF a, z
  <2> QED
    BY <1>2, <1>4, LaterThan DEF Later
<1> HIDE DEF a, phase
<1>7. /\ a.cum \in Nat /\ a.rem \in 0 .. PeriodBlocks - 1
      /\ a.budget \in Nat /\ a.bps \in Nat /\ a.abs \in Nat
  BY <1>6 DEF Lines
<1>8. Touch(e, blocks, s) \in Lines
  BY <1>2, <1>5, <1>7, ZenonT(30) DEF Lines
<1>9. Touch(e, blocks, s).cum = a.cum
  BY <1>5 DEF Lines
<1>10. SameBooks(e, Touch(e, blocks, s))
  BY <1>5 DEF SameBooks, Lines
<1> QED
  BY <1>6, <1>8, <1>9, <1>10 DEF Later

-----------------------------------------------------------------------------
(* What makes it inductive that nothing is minted twice: everything given  *)
(* out so far lies below tail + junior, which is where the next senior     *)
(* starts, and where what a junior may draw of starts.                     *)
SeniorsTidy(e) ==
  \A i \in DOMAIN e.queue :
    /\ e.queue[i].paid <= e.queue[i].amount
    /\ e.queue[i].paid > 0 => e.queue[i].start + e.queue[i].paid <= e.cum
    /\ e.queue[i].start + e.queue[i].amount <= e.tail + e.junior
    /\ \A j \in DOMAIN e.queue : i < j => e.queue[i].start + e.queue[i].amount <= e.queue[j].start

DrawsTidy(e, ds) ==
  \A d \in DOMAIN ds :
    /\ ds[d].from <= ds[d].to /\ ds[d].to <= e.tail + e.junior
    /\ ds[d].to <= e.cum \/ ds[d].from = ds[d].to
    /\ \A f \in DOMAIN ds : d < f => ds[d].to <= ds[f].from

Disjoint(e, ds) ==
  \A i \in DOMAIN e.queue, d \in DOMAIN ds :
    \/ e.queue[i].start + e.queue[i].amount <= ds[d].from
    \/ ds[d].to <= e.queue[i].start

Tidy(e, ds) == e \in Lines /\ ds \in Seq(Stretches)
               /\ SeniorsTidy(e) /\ DrawsTidy(e, ds) /\ Disjoint(e, ds)

LEMMA LineFields ==
  ASSUME NEW e \in Lines
  PROVE  /\ e.cum \in Nat /\ e.tail \in Nat /\ e.junior \in Nat /\ e.owed \in Int /\ e.emitted \in Nat
         /\ e.queue \in Seq(Seniors)
         /\ \A i \in DOMAIN e.queue : /\ i \in Nat /\ e.queue[i] \in Seniors
                                      /\ e.queue[i].amount \in Nat \ {0}
                                      /\ e.queue[i].start \in Nat /\ e.queue[i].paid \in Nat
<1>1. e.queue \in Seq(Seniors)
  BY DEF Lines
<1>2. \A i \in DOMAIN e.queue : i \in Nat /\ e.queue[i] \in Seniors
  BY <1>1
<1>3. \A x \in Seniors : x.amount \in Nat \ {0} /\ x.start \in Nat /\ x.paid \in Nat
  BY DEF Seniors
<1> QED
  BY <1>1, <1>2, <1>3 DEF Lines

LEMMA DrawFields ==
  ASSUME NEW ds \in Seq(Stretches)
  PROVE  \A d \in DOMAIN ds : d \in Nat /\ ds[d] \in Stretches /\ ds[d].from \in Nat /\ ds[d].to \in Nat
<1>1. \A d \in DOMAIN ds : d \in Nat /\ ds[d] \in Stretches
  OBVIOUS
<1>2. \A x \in Stretches : x.from \in Nat /\ x.to \in Nat
  BY DEF Stretches
<1> QED
  BY <1>1, <1>2

(* More may accrue, and more may be minted, without disturbing it.         *)
LEMMA TidyLater ==
  ASSUME NEW e, NEW ds, Tidy(e, ds), NEW f \in Lines,
         f.cum >= e.cum, f.tail = e.tail, f.junior = e.junior, f.queue = e.queue
  PROVE  Tidy(f, ds)
<1> USE DEF Tidy
<1>1. e.cum \in Nat /\ f.cum \in Nat
  BY LineFields
<1>2. SeniorsTidy(f)
  BY <1>1, LineFields, SMTT(30) DEF SeniorsTidy
<1>3. DrawsTidy(f, ds)
  BY <1>1, DrawFields DEF DrawsTidy
<1>4. Disjoint(f, ds)
  BY DEF Disjoint
<1> QED
  BY <1>2, <1>3, <1>4

(* A senior is put behind everything given out before.                     *)
LEMMA TidyEnqueue ==
  ASSUME NEW e, NEW ds, Tidy(e, ds), NEW n \in Nat \ {0}
  PROVE  Tidy(EnqueueSenior(e, n), ds)
<1> DEFINE f == EnqueueSenior(e, n)
           x == [amount |-> n, start |-> e.tail + e.junior, paid |-> 0]
           q == Append(e.queue, x)
<1> USE DEF Tidy
<1>1. /\ e.tail \in Nat /\ e.junior \in Nat /\ e.owed \in Int /\ e.queue \in Seq(Seniors)
      /\ e.cum \in Nat
  BY LineFields
<1>2. x \in Seniors /\ x.amount = n /\ x.start = e.tail + e.junior /\ x.paid = 0
  BY <1>1 DEF Seniors
<1> HIDE DEF x
<1>3. /\ q \in Seq(Seniors) /\ Len(q) = Len(e.queue) + 1 /\ Len(e.queue) \in Nat
      /\ \A i \in DOMAIN q : i \in Nat /\ (i \in DOMAIN e.queue \/ i = Len(e.queue) + 1)
      /\ \A i \in DOMAIN e.queue : q[i] = e.queue[i] /\ i \in Nat /\ i <= Len(e.queue)
      /\ q[Len(e.queue) + 1] = x
  BY <1>1, <1>2, SMTT(30)
<1>4. f = [e EXCEPT !.queue = q, !.tail = e.tail + n, !.owed = e.owed + n]
  BY DEF EnqueueSenior, x
<1> HIDE DEF q, f
<1>5. f \in Lines
  <2> DEFINE t == e.tail + n
             o == e.owed + n
  <2>1. t \in Nat /\ o \in Int
    BY <1>1
  <2>2. f = [e EXCEPT !.queue = q, !.tail = t, !.owed = o]
    BY <1>4
  <2> HIDE DEF t, o
  <2> QED
    BY <1>3, <2>1, <2>2 DEF Lines
<1>6. f.queue = q /\ f.tail = e.tail + n /\ f.junior = e.junior /\ f.cum = e.cum
  BY <1>4 DEF Lines
<1>7. SeniorsTidy(f)
  <2> SUFFICES ASSUME NEW i \in DOMAIN q
               PROVE  /\ q[i].paid <= q[i].amount
                      /\ q[i].paid > 0 => q[i].start + q[i].paid <= e.cum
                      /\ q[i].start + q[i].amount <= e.tail + n + e.junior
                      /\ \A j \in DOMAIN q : i < j => q[i].start + q[i].amount <= q[j].start
    BY <1>6 DEF SeniorsTidy
  <2>1. CASE i \in DOMAIN e.queue
    <3>1. /\ q[i] = e.queue[i] /\ q[i].amount \in Nat /\ q[i].start \in Nat /\ q[i].paid \in Nat
      BY <1>3, <2>1, LineFields
    <3>2. /\ q[i].paid <= q[i].amount
          /\ q[i].paid > 0 => q[i].start + q[i].paid <= e.cum
          /\ q[i].start + q[i].amount <= e.tail + e.junior
      BY <2>1, <3>1 DEF SeniorsTidy
    <3>3. ASSUME NEW j \in DOMAIN q, i < j PROVE q[i].start + q[i].amount <= q[j].start
      <4>1. CASE j \in DOMAIN e.queue
        BY <1>3, <2>1, <3>1, <3>3, <4>1 DEF SeniorsTidy
      <4>2. CASE j = Len(e.queue) + 1
        BY <1>2, <1>3, <3>2, <4>2
      <4> QED
        BY <1>3, <4>1, <4>2
    <3>4. q[i].start + q[i].amount <= e.tail + n + e.junior
      <4>1. \A a, b, t, j, m \in Nat : a + b <= t + j => a + b <= t + m + j
        OBVIOUS
      <4> QED
        BY <1>1, <3>1, <3>2, <4>1
    <3> QED
      BY <3>2, <3>3, <3>4
  <2>2. CASE i = Len(e.queue) + 1
    <3>1. \A j \in DOMAIN q : ~(i < j)
      BY <1>3, <2>2
    <3>2. q[i] = x
      BY <1>3, <2>2
    <3>3. /\ x.paid <= x.amount /\ ~(x.paid > 0)
          /\ x.start + x.amount <= e.tail + n + e.junior
      BY <1>1, <1>2
    <3> QED
      BY <3>1, <3>2, <3>3
  <2> QED
    BY <1>3, <2>1, <2>2
<1>8. DrawsTidy(f, ds)
  BY <1>1, <1>6, DrawFields, SMTT(30) DEF DrawsTidy
<1>9. Disjoint(f, ds)
  <2> SUFFICES ASSUME NEW i \in DOMAIN q, NEW d \in DOMAIN ds
               PROVE  q[i].start + q[i].amount <= ds[d].from \/ ds[d].to <= q[i].start
    BY <1>6 DEF Disjoint
  <2>1. CASE i \in DOMAIN e.queue
    BY <1>3, <2>1 DEF Disjoint
  <2>2. CASE i = Len(e.queue) + 1
    BY <1>2, <1>3, <2>2 DEF DrawsTidy
  <2> QED
    BY <1>3, <2>1, <2>2
<1> QED
  BY <1>5, <1>7, <1>8, <1>9 DEF f

(* A junior is given the stretch from tail + junior on, as far as coin has *)
(* accrued there.                                                          *)
LEMMA TidyReserve ==
  ASSUME NEW e, NEW ds, Tidy(e, ds), NEW want \in Nat
  PROVE  Tidy(ReserveJunior(e, want),
              Append(ds, [from |-> e.tail + e.junior, to |-> e.tail + e.junior + Granted(e, want)]))
<1> DEFINE got == Granted(e, want)
           top == e.tail + e.junior
           x == [from |-> top, to |-> top + got]
           f == ReserveJunior(e, want)
           g == Append(ds, x)
<1> USE DEF Tidy
<1>1. e.tail \in Nat /\ e.junior \in Nat /\ e.cum \in Nat /\ top \in Nat
  BY LineFields
<1>2. got \in Nat /\ (got = 0 \/ top + got <= e.cum)
  BY <1>1, SMTT(30) DEF Granted, Reservoir, AtLeast0
<1> HIDE DEF got
<1>3. f = [e EXCEPT !.junior = e.junior + got] /\ e.junior + got \in Nat
  BY <1>1, <1>2 DEF ReserveJunior, got
<1> HIDE DEF f
<1>4. f \in Lines
  <2> DEFINE j == e.junior + got
  <2>1. j \in Nat /\ f = [e EXCEPT !.junior = j]
    BY <1>3
  <2> HIDE DEF j
  <2> QED
    BY <2>1 DEF Lines
<1>5. f.queue = e.queue /\ f.tail = e.tail /\ f.junior = e.junior + got /\ f.cum = e.cum
  BY <1>3 DEF Lines
<1>6. x \in Stretches /\ x.from = top /\ x.to = top + got /\ top + got \in Nat
  BY <1>1, <1>2 DEF Stretches
<1> HIDE DEF x
<1>7. /\ g \in Seq(Stretches)
      /\ \A d \in DOMAIN g : d \in Nat /\ (d \in DOMAIN ds \/ d = Len(ds) + 1)
      /\ \A d \in DOMAIN ds : g[d] = ds[d] /\ d \in Nat /\ d <= Len(ds)
      /\ g[Len(ds) + 1] = x /\ Len(ds) \in Nat
  BY <1>6
<1> HIDE DEF g
<1>8. f.tail + f.junior = top + got
  BY <1>1, <1>2, <1>5
<1>9. \A n \in Nat : n <= top => n <= top + got
  BY <1>1, <1>2
<1> HIDE DEF top
<1>10. SeniorsTidy(f)
  <2> SUFFICES ASSUME NEW i \in DOMAIN e.queue
               PROVE  e.queue[i].start + e.queue[i].amount <= top + got
    BY <1>5, <1>8 DEF SeniorsTidy
  <2>1. e.queue[i].start + e.queue[i].amount \in Nat /\ e.queue[i].start + e.queue[i].amount <= top
    BY LineFields DEF SeniorsTidy, top
  <2> QED
    BY <1>9, <2>1
<1>11. DrawsTidy(f, g)
  <2> SUFFICES ASSUME NEW d \in DOMAIN g
               PROVE  /\ g[d].from <= g[d].to /\ g[d].to <= top + got
                      /\ g[d].to <= e.cum \/ g[d].from = g[d].to
                      /\ \A h \in DOMAIN g : d < h => g[d].to <= g[h].from
    BY <1>5, <1>8 DEF DrawsTidy
  <2>1. CASE d \in DOMAIN ds
    <3>1. g[d] = ds[d] /\ g[d].to \in Nat /\ g[d].to <= top
      BY <1>7, <2>1, DrawFields DEF DrawsTidy, top
    <3>2. g[d].from <= g[d].to /\ (g[d].to <= e.cum \/ g[d].from = g[d].to)
      BY <2>1, <3>1 DEF DrawsTidy
    <3>3. ASSUME NEW h \in DOMAIN g, d < h PROVE g[d].to <= g[h].from
      <4>1. CASE h \in DOMAIN ds
        BY <1>7, <2>1, <3>1, <3>3, <4>1 DEF DrawsTidy
      <4>2. CASE h = Len(ds) + 1
        BY <1>6, <1>7, <3>1, <4>2
      <4> QED
        BY <1>7, <4>1, <4>2
    <3> QED
      BY <1>9, <3>1, <3>2, <3>3
  <2>2. CASE d = Len(ds) + 1
    <3>1. \A h \in DOMAIN g : ~(d < h)
      BY <1>7, <2>2
    <3>2. g[d] = x
      BY <1>7, <2>2
    <3>3. top <= top + got /\ (top + got <= e.cum \/ top = top + got)
      BY <1>1, <1>2 DEF top
    <3> QED
      BY <1>6, <3>1, <3>2, <3>3
  <2> QED
    BY <1>7, <2>1, <2>2
<1>12. Disjoint(f, g)
  <2> SUFFICES ASSUME NEW i \in DOMAIN e.queue, NEW d \in DOMAIN g
               PROVE  \/ e.queue[i].start + e.queue[i].amount <= g[d].from
                      \/ g[d].to <= e.queue[i].start
    BY <1>5 DEF Disjoint
  <2>1. CASE d \in DOMAIN ds
    BY <1>7, <2>1 DEF Disjoint
  <2>2. CASE d = Len(ds) + 1
    BY <1>6, <1>7, <2>2 DEF SeniorsTidy, top
  <2> QED
    BY <1>7, <2>1, <2>2
<1> QED
  BY <1>4, <1>7, <1>10, <1>11, <1>12 DEF f, g, x, top, got

(* A senior is paid what accrual covers of it, and no more than its due.   *)
LEMMA TidyPay ==
  ASSUME NEW e, NEW ds, Tidy(e, ds), NEW i \in DOMAIN e.queue
  PROVE  Tidy(PaySenior(e, i), ds)
<1> DEFINE pay == Payable(e, i)
           s == e.queue[i]
           x == [s EXCEPT !.paid = s.paid + pay]
           q == [e.queue EXCEPT ![i] = x]
           f == PaySenior(e, i)
<1> USE DEF Tidy
<1>1. /\ e.cum \in Nat /\ e.emitted \in Nat /\ e.owed \in Int /\ e.queue \in Seq(Seniors)
      /\ s \in Seniors /\ s.amount \in Nat \ {0} /\ s.start \in Nat /\ s.paid \in Nat
      /\ s.paid <= s.amount
      /\ s.paid > 0 => s.start + s.paid <= e.cum
  BY LineFields DEF SeniorsTidy
<1>2. /\ pay \in Nat /\ s.paid + pay \in Nat /\ s.paid + pay <= s.amount
      /\ s.paid + pay > 0 => s.start + (s.paid + pay) <= e.cum
  <2> DEFINE covered == e.cum - s.start
             due == IF covered > s.amount THEN s.amount ELSE covered
  <2>1. pay = IF due - s.paid > 0 THEN due - s.paid ELSE 0
    BY DEF Payable, AtLeast0
  <2>2. due \in Int /\ due <= s.amount /\ due <= covered
    BY <1>1
  <2>3. covered = e.cum - s.start
    OBVIOUS
  <2> HIDE DEF covered, due, pay, s
  <2>4. CASE due - s.paid > 0
    <3>1. pay = due - s.paid
      BY <2>1, <2>4
    <3>2. s.paid + pay = due
      BY <1>1, <2>2, <3>1
    <3>3. pay \in Nat
      BY <1>1, <2>2, <2>4, <3>1
    <3>4. s.start + due <= e.cum
      BY <1>1, <2>2, <2>3
    <3>5. s.paid + pay \in Nat
      BY <1>1, <3>3
    <3> QED
      BY <2>2, <3>2, <3>3, <3>4, <3>5
  <2>5. CASE ~(due - s.paid > 0)
    BY <1>1, <2>1, <2>5
  <2> QED
    BY <2>4, <2>5
<1> HIDE DEF pay
<1>3. x \in Seniors /\ x.amount = s.amount /\ x.start = s.start /\ x.paid = s.paid + pay
  BY <1>1, <1>2 DEF Seniors
<1>4. f = [e EXCEPT !.queue = q, !.owed = e.owed - pay, !.emitted = e.emitted + pay]
  BY DEF PaySenior, Mint, pay, Lines
<1> HIDE DEF x, s
<1>5. /\ q \in Seq(Seniors) /\ DOMAIN q = DOMAIN e.queue /\ q[i] = x
      /\ \A j \in DOMAIN e.queue : j # i => q[j] = e.queue[j]
  BY <1>1, <1>3
<1> HIDE DEF q, f
<1>6. f \in Lines
  <2> DEFINE o == e.owed - pay
             m == e.emitted + pay
  <2>1. o \in Int /\ m \in Nat /\ f = [e EXCEPT !.queue = q, !.owed = o, !.emitted = m]
    BY <1>1, <1>2, <1>4
  <2> HIDE DEF o, m
  <2> QED
    BY <1>5, <2>1 DEF Lines
<1>7. f.queue = q /\ f.tail = e.tail /\ f.junior = e.junior /\ f.cum = e.cum
  BY <1>4 DEF Lines
<1>8. \A j \in DOMAIN q : q[j].amount = e.queue[j].amount /\ q[j].start = e.queue[j].start
  BY <1>3, <1>5 DEF s
<1>9. SeniorsTidy(f)
  <2> SUFFICES ASSUME NEW j \in DOMAIN q
               PROVE  /\ q[j].paid <= q[j].amount
                      /\ q[j].paid > 0 => q[j].start + q[j].paid <= e.cum
                      /\ q[j].start + q[j].amount <= e.tail + e.junior
                      /\ \A k \in DOMAIN q : j < k => q[j].start + q[j].amount <= q[k].start
    BY <1>7 DEF SeniorsTidy
  <2>1. q[j].paid <= q[j].amount /\ (q[j].paid > 0 => q[j].start + q[j].paid <= e.cum)
    <3>1. CASE j = i
      BY <1>2, <1>3, <1>5, <3>1
    <3>2. CASE j # i
      <4>1. j \in DOMAIN e.queue /\ q[j] = e.queue[j]
        BY <1>5, <3>2
      <4> QED
        BY <4>1 DEF SeniorsTidy
    <3> QED
      BY <3>1, <3>2
  <2>2. /\ q[j].start + q[j].amount <= e.tail + e.junior
        /\ \A k \in DOMAIN q : j < k => q[j].start + q[j].amount <= q[k].start
    BY <1>5, <1>8 DEF SeniorsTidy
  <2> QED
    BY <2>1, <2>2
<1>10. DrawsTidy(f, ds)
  BY <1>7 DEF DrawsTidy
<1>11. Disjoint(f, ds)
  BY <1>5, <1>7, <1>8 DEF Disjoint
<1> QED
  BY <1>6, <1>9, <1>10, <1>11 DEF f

-----------------------------------------------------------------------------
Bounded == /\ idle \in 0 .. MaxIdle /\ supply \in Nat /\ undrawn \in Nat /\ turn \in Nat
           /\ opened \in [units : Int, paused : BOOLEAN] /\ held \subseteq Nat

IInv == Tidy(line, draws) /\ Bounded

(* The strengthening implies what is to be shown.                          *)
LEMMA IInvImplies == ASSUME IInv PROVE TypeOK /\ AccrualMintedOnce
<1>1. line \in Lines /\ draws \in Seq(Stretches)
      /\ SeniorsTidy(line) /\ DrawsTidy(line, draws) /\ Disjoint(line, draws)
  BY DEF IInv, Tidy
<1>2. TypeOK
  BY <1>1 DEF IInv, Bounded, TypeOK, SeniorsTidy
<1>3. AccrualMintedOnce
  BY <1>1, LineFields, DrawFields DEF AccrualMintedOnce, Stretch, EndOf, Apart, SeniorsTidy, DrawsTidy, Disjoint
<1> QED
  BY <1>2, <1>3

LEMMA InitIInv == Init => IInv
<1> SUFFICES ASSUME Init PROVE IInv
  OBVIOUS
<1>1. line \in Lines
  <2>1. \A a \in Nat : NewLine(a) \in Lines
    BY EmissionAssumption DEF NewLine, Lines
  <2> QED
    BY <2>1, EmissionAssumption DEF Init
<1>2. line.queue = <<>> /\ draws = <<>>
  BY DEF Init, NewLine
<1>3. SeniorsTidy(line) /\ DrawsTidy(line, draws) /\ Disjoint(line, draws) /\ draws \in Seq(Stretches)
  BY <1>2 DEF SeniorsTidy, DrawsTidy, Disjoint
<1> QED
  BY <1>1, <1>3, UseAssumption DEF Init, IInv, Tidy, Bounded

LEMMA UnitsType == ASSUME NEW e \in Lines PROVE Units(e) \in Int
<1>1. e.cum \in Nat /\ e.rem \in Int /\ PeriodBlocks \in Nat
  BY EmissionAssumption DEF Lines
<1>2. e.cum * PeriodBlocks \in Nat
  BY <1>1
<1> QED
  BY <1>1, <1>2 DEF Units

(* The line as the next touch would leave it.                              *)
LEMMA CurrentTidy ==
  ASSUME IInv
  PROVE  Tidy(Current, draws) /\ Current.queue = line.queue
<1>1. line \in Lines /\ idle \in Nat /\ supply \in Nat
  BY UseAssumption DEF IInv, Tidy, Bounded
<1>2. Later(line, Current) /\ SameBooks(line, Current)
  BY <1>1, TouchLater DEF Current
<1> QED
  BY <1>2, TidyLater DEF IInv, Later, SameBooks

LEMMA TouchedBounded ==
  ASSUME IInv, Touched
  PROVE  /\ idle' \in 0 .. MaxIdle /\ turn' \in Nat
         /\ opened' \in [units : Int, paused : BOOLEAN] /\ held' \subseteq Nat
<1> DEFINE z == Rolled(line, idle, supply)
<1>1. line \in Lines /\ idle \in Nat /\ supply \in Nat
  BY UseAssumption DEF IInv, Tidy, Bounded
<1>2. z \in Lines
  BY <1>1, RolledLater DEF Later
<1>3. Units(z) \in Int
  BY <1>2, UnitsType
<1>4. \A b \in BOOLEAN : [opened EXCEPT !.paused = b] \in [units : Int, paused : BOOLEAN]
  BY DEF IInv, Bounded
<1>5. (opened.paused \/ (idle > 0 /\ Paused(line))) \in BOOLEAN
      /\ (LastSegment(line, idle) > 0 /\ Paused(z)) \in BOOLEAN
  <2>1. opened.paused \in BOOLEAN
    BY DEF IInv, Bounded
  <2> QED
    BY <2>1
<1>6. opened' \in [units : Int, paused : BOOLEAN]
  <2> HIDE DEF z
  <2>1. CASE Crossed(line, idle) = 0
    <3>1. opened' = [opened EXCEPT !.paused = opened.paused \/ (idle > 0 /\ Paused(line))]
      BY <2>1 DEF Touched
    <3> QED
      BY <1>4, <1>5, <3>1
  <2>2. CASE Crossed(line, idle) # 0
    <3>1. opened' = [units |-> Units(z), paused |-> LastSegment(line, idle) > 0 /\ Paused(z)]
      BY <2>2 DEF Touched, z
    <3> QED
      BY <1>3, <1>5, <3>1
  <2> QED
    BY <2>1, <2>2
<1>7. held' \subseteq Nat
  <2>1. held \subseteq Nat /\ DOMAIN line.queue \subseteq Nat
    BY <1>1, LineFields DEF IInv, Bounded
  <2> QED
    BY <2>1 DEF Touched
<1> QED
  BY <1>6, <1>7, UseAssumption DEF Touched, IInv, Bounded

LEMMA StepIInv == IInv /\ [Next]_vars => IInv'
<1> SUFFICES ASSUME IInv, [Next]_vars PROVE IInv'
  OBVIOUS
<1>1. /\ Tidy(line, draws) /\ Tidy(Current, draws) /\ Current.queue = line.queue
      /\ supply \in Nat /\ undrawn \in Nat
  BY CurrentTidy DEF IInv, Bounded
<1>2. Amounts \subseteq Nat \ {0}
  BY UseAssumption
<1>3. ASSUME Touched, Tidy(line, draws)', supply' \in Nat, undrawn' \in Nat PROVE IInv'
  BY <1>3, TouchedBounded DEF IInv, Bounded
<1>4. CASE Tick
  <2>1. Tidy(line, draws)'
    BY <1>1, <1>4 DEF Tick
  <2>2. Bounded'
    BY <1>4, UseAssumption DEF Tick, IInv, Bounded
  <2> QED
    BY <2>1, <2>2 DEF IInv
<1>5. CASE Poke
  BY <1>1, <1>3, <1>5 DEF Poke
<1>6. ASSUME NEW n \in Amounts, Buy(n) PROVE IInv'
  BY <1>1, <1>2, <1>3, <1>6 DEF Buy
<1>7. ASSUME NEW n \in Amounts, Burn(n) PROVE IInv'
  BY <1>1, <1>2, <1>3, <1>7 DEF Burn
<1>8. ASSUME NEW n \in Amounts, BurnUntouched(n) PROVE IInv'
  <2>1. Tidy(line, draws)'
    BY <1>1, <1>8 DEF BurnUntouched, ghosts
  <2>2. Bounded'
    BY <1>2, <1>8 DEF BurnUntouched, ghosts, IInv, Bounded
  <2> QED
    BY <2>1, <2>2 DEF IInv
<1>9. ASSUME NEW n \in Amounts, Award(n) PROVE IInv'
  <2>1. Tidy(EnqueueSenior(Current, n), draws)
    BY <1>1, <1>2, TidyEnqueue
  <2>2. Tidy(line, draws)'
    BY <1>9, <2>1 DEF Award
  <2> QED
    BY <1>1, <1>3, <1>9, <2>2 DEF Award
<1>10. ASSUME NEW n \in Amounts, Draw(n) PROVE IInv'
  <2> DEFINE got == Granted(Current, n)
             from == Current.tail + Current.junior
  <2>1. n \in Nat /\ got \in Nat
    <3>1. Current.cum \in Nat /\ Current.tail \in Nat /\ Current.junior \in Nat
      BY <1>1, LineFields DEF Tidy
    <3> QED
      BY <1>2, <3>1 DEF Granted, Reservoir, AtLeast0
  <2>2. Tidy(ReserveJunior(Current, n), Append(draws, [from |-> from, to |-> from + got]))
    BY <1>1, <2>1, TidyReserve
  <2>3. Tidy(line, draws)'
    BY <1>10, <2>2 DEF Draw
  <2> QED
    BY <1>1, <1>3, <1>10, <2>1, <2>3 DEF Draw
<1>11. ASSUME NEW n \in Amounts, PullJunior(n) PROVE IInv'
  <2>1. n \in Nat /\ Current \in Lines /\ Current.emitted \in Nat
    BY <1>1, <1>2, LineFields DEF Tidy
  <2> DEFINE m == Current.emitted + n
             f == Mint(Current, n)
  <2>2. m \in Nat /\ f = [Current EXCEPT !.emitted = m]
    BY <2>1 DEF Mint
  <2> HIDE DEF m, f
  <2>3. f \in Lines
    BY <2>1, <2>2 DEF Lines
  <2>4. f.cum = Current.cum /\ f.cum \in Nat
        /\ f.tail = Current.tail /\ f.junior = Current.junior /\ f.queue = Current.queue
    BY <2>1, <2>2, LineFields DEF Lines
  <2>5. Tidy(f, draws)
    BY <1>1, <2>3, <2>4, TidyLater
  <2>6. Tidy(line, draws)'
    BY <1>11, <2>5 DEF PullJunior, f
  <2> QED
    BY <1>1, <1>3, <1>11, <2>1, <2>6 DEF PullJunior
<1>12. ASSUME NEW i \in DOMAIN line.queue, PullSenior(i) PROVE IInv'
  <2>1. Tidy(PaySenior(Current, i), draws)
    BY <1>1, TidyPay
  <2>2. Tidy(line, draws)'
    BY <1>12, <2>1 DEF PullSenior
  <2>3. Payable(Current, i) \in Nat
    <3>1. /\ Current.cum \in Nat /\ Current.queue[i].start \in Nat
          /\ Current.queue[i].amount \in Nat /\ Current.queue[i].paid \in Nat
      BY <1>1, LineFields DEF Tidy
    <3> QED
      BY <3>1 DEF Payable, AtLeast0
  <2> QED
    BY <1>1, <1>3, <1>12, <2>2, <2>3 DEF PullSenior
<1>13. CASE UNCHANGED vars
  BY <1>13 DEF vars, IInv, Bounded
<1> QED
  BY <1>4, <1>5, <1>6, <1>7, <1>8, <1>9, <1>10, <1>11, <1>12, <1>13 DEF Next

(* The line is always typed, and no senior is ever paid more than it was   *)
(* awarded.                                                                *)
THEOREM EmissionTyped == Spec => []TypeOK
<1> QED
  BY InitIInv, StepIInv, IInvImplies, PTL DEF Spec

(* Nothing that accrued is ever minted twice: what seniors reserved and    *)
(* what juniors were given are disjoint stretches of the accrual line,     *)
(* juniors are given only what has accrued, and seniors are paid only as   *)
(* far as accrual reaches, for every length of a period, every budget and  *)
(* every history of awards, draws and payments.                            *)
THEOREM EmissionMintsOnce == Spec => []AccrualMintedOnce
<1> QED
  BY InitIInv, StepIInv, IInvImplies, PTL DEF Spec

-----------------------------------------------------------------------------
(* How much accrues and how much of it is minted, for every length of a    *)
(* period, every budget and however often the line is touched.             *)

LEMMA QuotientAndRest ==
  ASSUME NEW a \in Nat, NEW b \in Nat \ {0}
  PROVE  ((a \div b) * b) + (a % b) = a
OBVIOUS

LEMMA Distribute ==
  ASSUME NEW a \in Int, NEW b \in Int, NEW c \in Int
  PROVE  /\ (a + b) * c = a * c + b * c
         /\ c * (a + b) = c * a + c * b
OBVIOUS

(* What the terms of a period are made of.                                 *)
SameTerms(e, f) == f.cum = e.cum /\ f.rem = e.rem /\ f.budget = e.budget /\ f.phase = e.phase

(* A segment accrues its share of the budget and drops no part of a unit.  *)
LEMMA AccrueExact ==
  ASSUME NEW e \in Lines, NEW blocks \in Nat
  PROVE  /\ Accrue(e, blocks).budget = e.budget
         /\ Units(Accrue(e, blocks)) =
              IF blocks = 0 \/ Paused(e) THEN Units(e) ELSE Units(e) + e.budget * blocks
<1>1. CASE blocks = 0 \/ Paused(e)
  <2>1. blocks <= 0 \/ Paused(e)
    BY <1>1
  <2>2. Accrue(e, blocks) = e
    BY <2>1 DEF Accrue
  <2> QED
    BY <1>1, <2>2
<1>2. CASE ~(blocks = 0 \/ Paused(e))
  <2> DEFINE part == e.budget * blocks
             num == part + e.rem
             units == num \div PeriodBlocks
             rest == num % PeriodBlocks
  <2>1. ~(blocks <= 0 \/ Paused(e))
    BY <1>2
  <2>2. Accrue(e, blocks) = [e EXCEPT !.cum = e.cum + units, !.rem = rest]
    BY <2>1 DEF Accrue
  <2>3. e.budget \in Nat /\ e.rem \in Nat /\ e.cum \in Nat /\ PeriodBlocks \in Nat \ {0}
    BY EmissionAssumption DEF Lines
  <2>4. part \in Nat
    BY <2>3
  <2> HIDE DEF part
  <2>5. num \in Nat
    BY <2>3, <2>4
  <2>6. num = part + e.rem
    OBVIOUS
  <2> HIDE DEF num
  <2>7. units \in Nat /\ rest \in Int /\ (units * PeriodBlocks) + rest = num
    <3>1. (num \div PeriodBlocks) * PeriodBlocks + (num % PeriodBlocks) = num
      BY <2>3, <2>5, QuotientAndRest
    <3>2. num \div PeriodBlocks \in Nat /\ num % PeriodBlocks \in 0 .. PeriodBlocks - 1
      BY <2>3, <2>5, Division
    <3> QED
      BY <2>3, <3>1, <3>2
  <2> HIDE DEF units, rest
  <2>8. /\ Accrue(e, blocks).cum = e.cum + units /\ Accrue(e, blocks).rem = rest
        /\ Accrue(e, blocks).budget = e.budget
    BY <2>2 DEF Lines
  <2>9. (e.cum + units) * PeriodBlocks = e.cum * PeriodBlocks + units * PeriodBlocks
    BY <2>3, <2>7, Distribute
  <2> DEFINE before == e.cum * PeriodBlocks
             more == units * PeriodBlocks
  <2>10. before \in Int /\ more \in Int
    BY <2>3, <2>7
  <2>11. Units(Accrue(e, blocks)) = (before + more) + rest
    BY <2>8, <2>9 DEF Units
  <2>12. Units(e) = before + e.rem /\ more + rest = part + e.rem
    BY <2>6, <2>7 DEF Units
  <2> HIDE DEF before, more
  <2>13. Units(Accrue(e, blocks)) = Units(e) + part
    BY <2>3, <2>4, <2>7, <2>10, <2>11, <2>12
  <2> QED
    BY <1>2, <2>8, <2>13 DEF part
<1> QED
  BY <1>1, <1>2

(* A touch within the period has nothing to walk over, and one that turns  *)
(* the period leaves the walk at its beginning.                            *)
LEMMA RolledPhase ==
  ASSUME NEW e \in Lines, NEW blocks \in Nat, NEW s \in Nat
  PROVE  IF Crossed(e, blocks) = 0 THEN Rolled(e, blocks, s) = e
         ELSE Rolled(e, blocks, s).phase = 0
<1> DEFINE n == Crossed(e, blocks)
           roll == CHOOSE f : Walk(f, n, e, s)
<1>1. n \in Nat
  BY RolledLater
<1>2. Walk(roll, n, e, s)
  <2>1. \E f : Walk(f, n, e, s)
    BY <1>1, WalkExists
  <2> QED
    BY <2>1, Zenon
<1>3. Rolled(e, blocks, s) = roll[n]
  BY DEF Rolled, Walk
<1> HIDE DEF roll
<1>4. CASE n = 0
  <2>1. roll[0] = e
    BY <1>1, <1>2 DEF Walk
  <2> QED
    BY <1>3, <1>4, <2>1
<1>5. CASE n # 0
  <2> DEFINE m == n - 1
             last == Accrue(roll[m], PeriodBlocks - roll[m].phase)
  <2>1. m \in Nat /\ n \in 0 .. n /\ m \in 0 .. n
    BY <1>1, <1>5
  <2>2. roll[n] = Roll(last, s)
    BY <1>2, <1>5, <2>1 DEF Walk
  <2>3. last \in Lines
    <3>1. roll[m] \in Lines
      <4>1. Walk([i \in 0 .. m |-> roll[i]], m, e, s)
        <5> DEFINE g == [i \in 0 .. m |-> roll[i]]
        <5>1. \A i \in 0 .. m :
                g[i] = IF i = 0 THEN e ELSE Roll(Accrue(g[i - 1], PeriodBlocks - g[i - 1].phase), s)
          <6> TAKE i \in 0 .. m
          <6>1. i \in 0 .. n /\ (i # 0 => i - 1 \in 0 .. m)
            BY <1>1, <2>1
          <6>2. roll[i] = IF i = 0 THEN e ELSE Roll(Accrue(roll[i - 1], PeriodBlocks - roll[i - 1].phase), s)
            BY <1>2, <6>1 DEF Walk
          <6>3. g[i] = roll[i] /\ (i # 0 => g[i - 1] = roll[i - 1])
            BY <6>1
          <6> QED
            BY <6>2, <6>3
        <5>2. g = [i \in 0 .. m |-> g[i]]
          OBVIOUS
        <5> HIDE DEF g
        <5>3. Walk(g, m, e, s)
          BY <5>1, <5>2 DEF Walk
        <5> QED
          BY <5>3 DEF g
      <4> DEFINE g == [i \in 0 .. m |-> roll[i]]
      <4>2. g[m] = roll[m]
        BY <2>1
      <4>3. Later(e, g[m])
        <5>1. Walk(g, m, e, s)
          BY <4>1
        <5> HIDE DEF g
        <5> QED
          BY <2>1, <5>1, WalkLater
      <4> QED
        BY <4>2, <4>3 DEF Later
    <3>2. PeriodBlocks - roll[m].phase \in Int
      <4>1. roll[m].phase \in 0 .. PeriodBlocks - 1 /\ PeriodBlocks \in Nat
        BY <3>1, EmissionAssumption DEF Lines
      <4> QED
        BY <4>1
    <3> QED
      BY <3>1, <3>2, AccrueLater DEF Later
  <2> HIDE DEF last
  <2>4. Roll(last, s).phase = 0
    BY <2>3, RollLater
  <2> QED
    BY <1>3, <1>5, <2>2, <2>4
<1> QED
  BY <1>4, <1>5

LEMMA ShortModulus ==
  ASSUME NEW a \in Nat, NEW b \in Nat \ {0}, a \div b = 0
  PROVE  a % b = a
OBVIOUS

(* What a touch leaves of the terms.                                       *)
LEMMA TouchTerms ==
  ASSUME NEW e \in Lines, NEW blocks \in Nat, NEW s \in Nat
  PROVE  LET z == Rolled(e, blocks, s)
             last == LastSegment(e, blocks)
             f == Touch(e, blocks, s)
         IN  /\ z \in Lines /\ last \in Nat
             /\ f.budget = z.budget
             /\ f.phase = IF Crossed(e, blocks) = 0 THEN e.phase + last ELSE last
             /\ Units(f) = IF last = 0 \/ Paused(z) THEN Units(z) ELSE Units(z) + z.budget * last
<1> DEFINE z == Rolled(e, blocks, s)
           last == LastSegment(e, blocks)
           a == Accrue(z, last)
           f == Touch(e, blocks, s)
           phase == (e.phase + blocks) % PeriodBlocks
<1>1. z \in Lines /\ last \in Nat /\ Later(e, z) /\ Crossed(e, blocks) \in Nat
  BY RolledLater DEF Later
<1>2. f = [e EXCEPT !.cum = a.cum, !.rem = a.rem, !.budget = a.budget, !.bps = a.bps, !.abs = a.abs,
                    !.phase = phase]
  BY DEF Touch
<1>3. phase = IF Crossed(e, blocks) = 0 THEN e.phase + last ELSE last
  <2>1. CASE Crossed(e, blocks) = 0
    <3>1. e.phase + blocks \in Nat /\ PeriodBlocks \in Nat \ {0}
      BY EmissionAssumption DEF Lines
    <3>2. phase = e.phase + blocks
      BY <2>1, <3>1, ShortModulus DEF Crossed
    <3>3. last = blocks
      BY <2>1 DEF LastSegment
    <3> QED
      BY <2>1, <3>2, <3>3
  <2>2. CASE Crossed(e, blocks) # 0
    BY <2>2 DEF LastSegment
  <2> QED
    BY <2>1, <2>2
<1> HIDE DEF z, last
<1>4. /\ a.budget = z.budget
      /\ Units(a) = IF last = 0 \/ Paused(z) THEN Units(z) ELSE Units(z) + z.budget * last
  BY <1>1, AccrueExact
<1> HIDE DEF a, f, phase
<1>5. f.cum = a.cum /\ f.rem = a.rem /\ f.budget = a.budget /\ f.phase = phase
  BY <1>2 DEF Lines
<1>6. Units(f) = Units(a)
  BY <1>5 DEF Units
<1> QED
  BY <1>1, <1>3, <1>4, <1>5, <1>6 DEF z, last, f

-----------------------------------------------------------------------------
(* After a touch the period has been paid for as many blocks as it has     *)
(* lasted, unless the reservoir was found full.                            *)
Paid(e, units, paused) ==
  /\ Units(e) - units <= e.budget * e.phase
  /\ ~paused => Units(e) - units = e.budget * e.phase

LEMMA SameTermsPaid ==
  ASSUME NEW e, NEW f, SameTerms(e, f), NEW units, NEW paused, Paid(e, units, paused)
  PROVE  Paid(f, units, paused)
BY DEF SameTerms, Paid, Units

LEMMA TouchedPays ==
  ASSUME IInv, PeriodPaysItsBudget, Touched
  PROVE  Paid(Current, opened'.units, opened'.paused)
<1> DEFINE z == Rolled(line, idle, supply)
           last == LastSegment(line, idle)
           share == z.budget * last
<1>1. line \in Lines /\ idle \in Nat /\ supply \in Nat /\ opened.units \in Int /\ opened.paused \in BOOLEAN
      /\ opened \in [units : Int, paused : BOOLEAN]
  BY UseAssumption DEF IInv, Tidy, Bounded
<1>2. /\ z \in Lines /\ last \in Nat
      /\ Current.budget = z.budget
      /\ Current.phase = IF Crossed(line, idle) = 0 THEN line.phase + last ELSE last
      /\ Units(Current) = IF last = 0 \/ Paused(z) THEN Units(z) ELSE Units(z) + share
  BY <1>1, TouchTerms DEF Current
<1>3. z.budget \in Nat /\ line.phase \in Nat /\ Units(z) \in Int
  <2>1. PeriodBlocks \in Nat
    BY EmissionAssumption
  <2> HIDE DEF z
  <2> QED
    BY <1>1, <1>2, <2>1, UnitsType DEF Lines
<1>4. share \in Nat /\ (last = 0 => share = 0)
  BY <1>2, <1>3
<1>5. CASE Crossed(line, idle) = 0
  <2>1. z = line /\ last = idle
    BY <1>1, <1>5, RolledPhase DEF LastSegment
  <2>2. opened' = [opened EXCEPT !.paused = opened.paused \/ (idle > 0 /\ Paused(line))]
    BY <1>5 DEF Touched
  <2>3. opened'.units = opened.units
        /\ (~opened'.paused => ~opened.paused /\ (last = 0 \/ ~Paused(z)))
    <3> DEFINE found == opened.paused \/ (idle > 0 /\ Paused(line))
    <3>1. opened' = [opened EXCEPT !.paused = found]
      BY <2>2
    <3>2. opened'.units = opened.units /\ opened'.paused = found
      <4> HIDE DEF found
      <4> QED
        BY <1>1, <3>1
    <3>3. ~found => ~opened.paused /\ (last = 0 \/ ~Paused(z))
      <4>1. idle = 0 \/ idle > 0
        BY <1>1
      <4> QED
        BY <2>1, <4>1, Zenon
    <3> QED
      BY <3>2, <3>3, Zenon
  <2> DEFINE sofar == line.budget * line.phase
  <2>4. sofar \in Nat
    BY <1>3, <2>1
  <2>5. Current.budget * Current.phase = sofar + share
    <3>1. Current.budget = line.budget /\ Current.phase = line.phase + last
      BY <1>2, <1>5, <2>1
    <3>2. line.budget * (line.phase + last) = line.budget * line.phase + line.budget * last
      BY <1>2, <1>3, <2>1, Distribute
    <3> QED
      BY <2>1, <3>1, <3>2
  <2>6. Units(z) - opened.units <= sofar /\ (~opened.paused => Units(z) - opened.units = sofar)
    BY <2>1 DEF PeriodPaysItsBudget
  <2>7. last = 0 \/ Paused(z) => Units(Current) = Units(z)
    BY <1>2
  <2>8. ~(last = 0 \/ Paused(z)) => Units(Current) = Units(z) + share
    BY <1>2
  <2> HIDE DEF z, last, share, sofar
  <2>9. Units(Current) - opened.units <= sofar + share
    BY <1>1, <1>3, <1>4, <2>4, <2>6, <2>7, <2>8
  <2>10. ASSUME ~opened'.paused PROVE Units(Current) - opened.units = sofar + share
    <3>1. Units(z) - opened.units = sofar /\ (last = 0 \/ ~Paused(z))
      BY <2>3, <2>6, <2>10, Zenon
    <3>2. Units(Current) = Units(z) + share
      BY <1>3, <1>4, <2>7, <2>8, <3>1
    <3> QED
      BY <1>1, <1>3, <1>4, <2>4, <3>1, <3>2
  <2> QED
    BY <2>3, <2>5, <2>9, <2>10 DEF Paid
<1>6. CASE Crossed(line, idle) # 0
  <2>1. opened' = [units |-> Units(z), paused |-> last > 0 /\ Paused(z)]
    BY <1>6 DEF Touched
  <2>2. opened'.units = Units(z) /\ (~opened'.paused => ~(last > 0 /\ Paused(z)))
    BY <2>1
  <2>3. Current.budget * Current.phase = share
    BY <1>2, <1>6
  <2>4. last = 0 \/ Paused(z) => Units(Current) = Units(z)
    BY <1>2
  <2>5. ~(last = 0 \/ Paused(z)) => Units(Current) = Units(z) + share
    BY <1>2
  <2>6. last = 0 \/ last > 0
    BY <1>2
  <2> HIDE DEF z, last, share
  <2>7. Units(Current) - Units(z) <= share
    BY <1>3, <1>4, <2>4, <2>5
  <2>8. ~opened'.paused => Units(Current) - Units(z) = share
    BY <1>3, <1>4, <2>2, <2>4, <2>5, <2>6
  <2> QED
    BY <2>2, <2>3, <2>7, <2>8 DEF Paid
<1> QED
  BY <1>5, <1>6

(* None of the calls that use the line touches its terms.                  *)
LEMMA CallsKeepTerms ==
  ASSUME NEW e \in Lines, NEW n, NEW i
  PROVE  /\ SameTerms(e, e)
         /\ SameTerms(e, EnqueueSenior(e, n))
         /\ SameTerms(e, ReserveJunior(e, n))
         /\ SameTerms(e, Mint(e, n))
         /\ SameTerms(e, PaySenior(e, i))
<1>1. SameTerms(e, EnqueueSenior(e, n))
  BY DEF SameTerms, EnqueueSenior, Lines
<1>2. SameTerms(e, ReserveJunior(e, n))
  BY DEF SameTerms, ReserveJunior, Lines
<1>3. SameTerms(e, Mint(e, n))
  BY DEF SameTerms, Mint, Lines
<1>4. SameTerms(e, PaySenior(e, i))
  <2> DEFINE pay == Payable(e, i)
             q == [e.queue EXCEPT ![i].paid = @ + pay]
             o == e.owed - pay
             m == e.emitted + pay
  <2>1. PaySenior(e, i) = [e EXCEPT !.queue = q, !.owed = o, !.emitted = m]
    BY DEF PaySenior, Mint, Lines
  <2> HIDE DEF q, o, m
  <2> QED
    BY <2>1 DEF SameTerms, Lines
<1> QED
  BY <1>1, <1>2, <1>3, <1>4 DEF SameTerms

LEMMA InitPays == Init => PeriodPaysItsBudget
<1> SUFFICES ASSUME Init PROVE PeriodPaysItsBudget
  OBVIOUS
<1>1. line.cum = 0 /\ line.rem = 0 /\ line.budget = 0 /\ line.phase = 0 /\ opened.units = 0
  BY DEF Init, NewLine
<1>2. 0 * PeriodBlocks = 0 /\ 0 * 0 = 0
  BY EmissionAssumption
<1> QED
  BY <1>1, <1>2 DEF PeriodPaysItsBudget, Units

LEMMA StepPays == IInv /\ PeriodPaysItsBudget /\ [Next]_vars => PeriodPaysItsBudget'
<1> SUFFICES ASSUME IInv, PeriodPaysItsBudget, [Next]_vars PROVE PeriodPaysItsBudget'
  OBVIOUS
<1>1. Current \in Lines
  BY CurrentTidy DEF Tidy
<1>2. ASSUME Touched, SameTerms(Current, line') PROVE PeriodPaysItsBudget'
  <2>1. Paid(line', opened'.units, opened'.paused)
    BY <1>2, TouchedPays, SameTermsPaid
  <2> QED
    BY <2>1 DEF Paid, PeriodPaysItsBudget, Units
<1>3. ASSUME UNCHANGED <<line, opened>> PROVE PeriodPaysItsBudget'
  BY <1>3 DEF PeriodPaysItsBudget, Units
<1>4. CASE Tick
  BY <1>3, <1>4 DEF Tick
<1>5. CASE Poke
  BY <1>1, <1>2, <1>5, CallsKeepTerms DEF Poke
<1>6. ASSUME NEW n \in Amounts, Buy(n) PROVE PeriodPaysItsBudget'
  BY <1>1, <1>2, <1>6, CallsKeepTerms DEF Buy
<1>7. ASSUME NEW n \in Amounts, Burn(n) PROVE PeriodPaysItsBudget'
  BY <1>1, <1>2, <1>7, CallsKeepTerms DEF Burn
<1>8. ASSUME NEW n \in Amounts, BurnUntouched(n) PROVE PeriodPaysItsBudget'
  BY <1>3, <1>8 DEF BurnUntouched, ghosts
<1>9. ASSUME NEW n \in Amounts, Award(n) PROVE PeriodPaysItsBudget'
  BY <1>1, <1>2, <1>9, CallsKeepTerms DEF Award
<1>10. ASSUME NEW n \in Amounts, Draw(n) PROVE PeriodPaysItsBudget'
  BY <1>1, <1>2, <1>10, CallsKeepTerms DEF Draw
<1>11. ASSUME NEW n \in Amounts, PullJunior(n) PROVE PeriodPaysItsBudget'
  BY <1>1, <1>2, <1>11, CallsKeepTerms DEF PullJunior
<1>12. ASSUME NEW i \in DOMAIN line.queue, PullSenior(i) PROVE PeriodPaysItsBudget'
  BY <1>1, <1>2, <1>12, CallsKeepTerms DEF PullSenior
<1>13. CASE UNCHANGED vars
  BY <1>3, <1>13 DEF vars
<1> QED
  BY <1>4, <1>5, <1>6, <1>7, <1>8, <1>9, <1>10, <1>11, <1>12, <1>13 DEF Next

(* Within a period exactly its budget accrues, block by block and to the   *)
(* part of a unit, however the blocks are divided between touches, and     *)
(* less only after the reservoir was found full.                           *)
THEOREM BudgetIsPaid == Spec => []PeriodPaysItsBudget
<1> QED
  BY InitIInv, StepIInv, InitPays, StepPays, PTL DEF Spec

-----------------------------------------------------------------------------
(* What is still owed is the sum of what the seniors still have to get, a  *)
(* sum that a function of partial sums witnesses.                          *)
Rest(s) == s.amount - s.paid
End(s) == s.start + s.amount

Sums(q, S) == /\ DOMAIN S = 0 .. Len(q) /\ S[0] = 0
              /\ \A k \in 0 .. Len(q) : S[k] \in Int
              /\ \A k \in 1 .. Len(q) : S[k] = S[k - 1] + Rest(q[k])

Owing(e) == \E S : Sums(e.queue, S) /\ S[Len(e.queue)] = e.owed

(* Beyond what has accrued there are only seniors, one behind the other:   *)
(* what lies between two of them was given to juniors, and had accrued.    *)
Chained(e) ==
  /\ \A k \in 1 .. Len(e.queue) :
       \/ e.queue[k].start <= e.cum
       \/ k > 1 /\ e.queue[k].start = End(e.queue[k - 1])
  /\ \/ e.tail + e.junior <= e.cum
     \/ Len(e.queue) > 0 /\ e.tail + e.junior = End(e.queue[Len(e.queue)])

Books(e, u) == e.emitted + u = (e.tail + e.junior) - e.owed

Counted(e, u) == Owing(e) /\ Chained(e) /\ Books(e, u)

(* The seniors up to any one have to get at least what of their stretches  *)
(* has not accrued.                                                        *)
LEMMA SumsReach ==
  ASSUME NEW e \in Lines, SeniorsTidy(e), Chained(e), NEW S, Sums(e.queue, S),
         NEW n \in Nat
  PROVE  n <= Len(e.queue) =>
           /\ S[n] >= 0
           /\ n > 0 => S[n] >= End(e.queue[n]) - e.cum
<1> DEFINE q == e.queue
           Fine(m) == m <= Len(q) => S[m] >= 0 /\ (m > 0 => S[m] >= End(q[m]) - e.cum)
           T == {m \in Nat : Fine(m)}
<1>1. 0 \in T
  BY DEF Sums
<1>2. ASSUME NEW m \in T PROVE m + 1 \in T
  <2>1. SUFFICES ASSUME m + 1 <= Len(q)
                 PROVE  S[m + 1] >= 0 /\ S[m + 1] >= End(q[m + 1]) - e.cum
    BY <1>2
  <2> DEFINE k == m + 1
             s == q[k]
  <2>2. m \in Nat /\ Len(q) \in Nat /\ e.cum \in Nat /\ DOMAIN q = 1 .. Len(q)
    BY <1>2, LineFields
  <2>3. k \in 1 .. Len(q) /\ k - 1 = m /\ m <= Len(q) /\ m \in 0 .. Len(q)
    BY <2>1, <2>2
  <2>4. S[m] \in Int /\ S[m] >= 0 /\ (m > 0 => S[m] >= End(q[m]) - e.cum)
    BY <1>2, <2>3 DEF Sums
  <2>5. S[k] = S[m] + Rest(s)
    BY <2>3 DEF Sums
  <2>6. /\ s.amount \in Nat /\ s.start \in Nat /\ s.paid \in Nat /\ s.paid <= s.amount
        /\ s.paid > 0 => s.start + s.paid <= e.cum
    BY <2>2, <2>3, LineFields DEF SeniorsTidy
  <2>7. s.start <= e.cum \/ (k > 1 /\ s.start = End(q[m]))
    BY <2>3 DEF Chained
  <2>8. m > 0 => End(q[m]) \in Nat
    <3>1. m > 0 => m \in DOMAIN q
      BY <2>2, <2>3
    <3> QED
      BY <3>1, LineFields DEF End
  <2>9. k > 1 => m > 0
    BY <2>2
  <2>10. Rest(s) = s.amount - s.paid /\ End(s) = s.start + s.amount
    BY DEF Rest, End
  <2> SUFFICES S[k] >= 0 /\ S[k] >= End(s) - e.cum
    OBVIOUS
  <2> HIDE DEF s, k, q
  <2>11. CASE s.paid > 0
    BY <2>2, <2>4, <2>5, <2>6, <2>10, <2>11
  <2>12. CASE s.paid = 0 /\ s.start <= e.cum
    BY <2>2, <2>4, <2>5, <2>6, <2>10, <2>12
  <2>13. CASE s.paid = 0 /\ k > 1 /\ s.start = End(q[m])
    <3>1. S[m] >= s.start - e.cum
      BY <2>4, <2>9, <2>13
    <3> QED
      BY <2>2, <2>4, <2>5, <2>6, <2>10, <2>13, <3>1
  <2>14. s.paid = 0 \/ s.paid > 0
    BY <2>6
  <2> QED
    BY <2>7, <2>11, <2>12, <2>13, <2>14
<1>3. T = Nat
  <2>1. T \subseteq Nat
    OBVIOUS
  <2> HIDE DEF T
  <2> QED
    BY <1>1, <1>2, <2>1, SetInduction
<1> QED
  BY <1>3

LEMMA CountedCeiling ==
  ASSUME NEW e, NEW ds, Tidy(e, ds), NEW u \in Nat, Counted(e, u)
  PROVE  e.emitted + u <= e.cum
<1>1. PICK S : Sums(e.queue, S) /\ S[Len(e.queue)] = e.owed
  BY DEF Counted, Owing
<1> DEFINE n == Len(e.queue)
<1>2. /\ e \in Lines /\ n \in Nat /\ e.cum \in Nat /\ e.tail \in Nat /\ e.junior \in Nat
      /\ e.owed \in Int /\ e.emitted \in Nat /\ DOMAIN e.queue = 1 .. n
  BY LineFields DEF Tidy
<1>3. e.owed >= 0 /\ (n > 0 => e.owed >= End(e.queue[n]) - e.cum)
  BY <1>1, <1>2, SumsReach DEF Tidy, Counted
<1>4. n > 0 => End(e.queue[n]) \in Nat
  <2>1. n > 0 => n \in DOMAIN e.queue
    BY <1>2
  <2> QED
    BY <1>2, <2>1, LineFields DEF End
<1>5. e.emitted + u = (e.tail + e.junior) - e.owed
  BY DEF Counted, Books
<1>6. CASE e.tail + e.junior <= e.cum
  BY <1>2, <1>3, <1>5, <1>6
<1>7. CASE n > 0 /\ e.tail + e.junior = End(e.queue[n])
  BY <1>2, <1>3, <1>4, <1>5, <1>7
<1> QED
  BY <1>6, <1>7 DEF Counted, Chained

LEMMA CountedLater ==
  ASSUME NEW e \in Lines, NEW f \in Lines, NEW u, Counted(e, u), Later(e, f), SameBooks(e, f)
  PROVE  Counted(f, u)
<1>1. /\ e.cum \in Nat /\ f.cum \in Nat /\ f.cum >= e.cum /\ e.queue \in Seq(Seniors)
      /\ e.tail + e.junior \in Nat
  BY LineFields DEF Later
<1>2. \A k \in 1 .. Len(e.queue) : e.queue[k].start \in Nat
  BY LineFields
<1>3. \A x \in Nat : x <= e.cum => x <= f.cum
  BY <1>1
<1>4. Chained(f)
  BY <1>1, <1>2, <1>3 DEF Chained, Counted, SameBooks
<1> QED
  BY <1>4 DEF Counted, Owing, Books, SameBooks

LEMMA CountedEnqueue ==
  ASSUME NEW e \in Lines, NEW n \in Nat \ {0}, NEW u \in Nat, Counted(e, u)
  PROVE  Counted(EnqueueSenior(e, n), u)
<1> DEFINE f == EnqueueSenior(e, n)
           top == e.tail + e.junior
           x == [amount |-> n, start |-> top, paid |-> 0]
           q == Append(e.queue, x)
           k == Len(e.queue)
<1>1. /\ e.tail \in Nat /\ e.junior \in Nat /\ e.owed \in Int /\ e.emitted \in Nat
      /\ e.cum \in Nat /\ e.queue \in Seq(Seniors) /\ k \in Nat
  BY LineFields
<1>2. x \in Seniors /\ Rest(x) = n /\ End(x) = top + n /\ x.start = top
  BY <1>1 DEF Seniors, Rest, End
<1>3. /\ f.queue = q /\ f.tail = e.tail + n /\ f.owed = e.owed + n
      /\ f.junior = e.junior /\ f.cum = e.cum /\ f.emitted = e.emitted
  <2> DEFINE t == e.tail + n
             o == e.owed + n
  <2>1. f = [e EXCEPT !.queue = q, !.tail = t, !.owed = o]
    BY DEF EnqueueSenior
  <2> HIDE DEF f, q, t, o
  <2>2. f.queue = q /\ f.tail = t /\ f.owed = o /\ f.junior = e.junior /\ f.cum = e.cum /\ f.emitted = e.emitted
    BY <2>1 DEF Lines
  <2> QED
    BY <2>2 DEF t, o
<1> HIDE DEF x, f
<1>4. /\ Len(q) = k + 1 /\ q[k + 1] = x
      /\ \A i \in 1 .. k : q[i] = e.queue[i]
      /\ \A i \in 1 .. k + 1 : i \in 1 .. k \/ i = k + 1
      /\ k + 1 \in 1 .. k + 1 /\ k + 1 > 0
  BY <1>1, <1>2, SMTT(30)
<1> HIDE DEF q
<1>5. Owing(f)
  <2>1. PICK S : Sums(e.queue, S) /\ S[k] = e.owed
    BY DEF Counted, Owing
  <2> DEFINE R == [i \in 0 .. k + 1 |-> IF i = k + 1 THEN e.owed + n ELSE S[i]]
  <2>2. DOMAIN R = 0 .. k + 1 /\ R[k + 1] = e.owed + n /\ \A i \in 0 .. k : R[i] = S[i]
    BY <1>1
  <2> HIDE DEF R
  <2>3. \A i \in 0 .. k : S[i] \in Int
    BY <2>1 DEF Sums
  <2>4. R[0] = 0
    BY <1>1, <2>1, <2>2 DEF Sums
  <2>5. \A i \in 0 .. k + 1 : R[i] \in Int
    <3> TAKE i \in 0 .. k + 1
    <3>1. i \in 0 .. k \/ i = k + 1
      BY <1>1
    <3> QED
      BY <1>1, <2>2, <2>3, <3>1
  <2>6. \A i \in 1 .. k + 1 : R[i] = R[i - 1] + Rest(q[i])
    <3> TAKE i \in 1 .. k + 1
    <3>1. CASE i \in 1 .. k
      <4>1. i \in 0 .. k /\ i - 1 \in 0 .. k
        BY <1>1, <3>1
      <4>2. S[i] = S[i - 1] + Rest(e.queue[i])
        BY <2>1, <3>1 DEF Sums
      <4> QED
        BY <1>4, <2>2, <3>1, <4>1, <4>2
    <3>2. CASE i = k + 1
      <4>1. i - 1 = k /\ k \in 0 .. k
        BY <1>1, <3>2
      <4>2. R[i - 1] = e.owed
        BY <2>1, <2>2, <4>1
      <4> QED
        BY <1>2, <1>4, <2>2, <3>2, <4>2
    <3> QED
      BY <1>4, <3>1, <3>2
  <2>7. Sums(q, R) /\ R[Len(q)] = f.owed
    BY <1>3, <1>4, <2>2, <2>4, <2>5, <2>6 DEF Sums
  <2> QED
    BY <1>3, <2>7 DEF Owing
<1>6. Chained(f)
  <2>1. ASSUME NEW i \in 1 .. k + 1
        PROVE  q[i].start <= e.cum \/ (i > 1 /\ q[i].start = End(q[i - 1]))
    <3>1. CASE i \in 1 .. k
      <4>1. i > 1 => i - 1 \in 1 .. k
        BY <1>1, <3>1
      <4> QED
        BY <1>4, <3>1, <4>1 DEF Counted, Chained
    <3>2. CASE i = k + 1
      <4>1. q[i].start = top /\ i - 1 = k
        BY <1>1, <1>2, <1>4, <3>2
      <4>2. top <= e.cum \/ (k > 0 /\ top = End(e.queue[k]))
        BY DEF Counted, Chained
      <4>3. k > 0 => i > 1 /\ q[k] = e.queue[k]
        BY <1>1, <1>4, <3>2
      <4> QED
        BY <4>1, <4>2, <4>3
    <3> QED
      BY <1>4, <3>1, <3>2
  <2>2. f.tail + f.junior = End(q[k + 1])
    BY <1>1, <1>2, <1>3, <1>4
  <2> QED
    BY <1>3, <1>4, <2>1, <2>2 DEF Chained
<1>7. Books(f, u)
  BY <1>1, <1>3 DEF Counted, Books
<1> QED
  BY <1>5, <1>6, <1>7 DEF Counted, f

LEMMA CountedReserve ==
  ASSUME NEW e \in Lines, NEW n \in Nat, NEW u \in Nat, Counted(e, u)
  PROVE  Counted(ReserveJunior(e, n), u + Granted(e, n))
<1> DEFINE got == Granted(e, n)
           f == ReserveJunior(e, n)
<1>1. /\ e.tail \in Nat /\ e.junior \in Nat /\ e.owed \in Int /\ e.emitted \in Nat /\ e.cum \in Nat
  BY LineFields
<1>2. got \in Nat /\ (got = 0 \/ (e.tail + e.junior) + got <= e.cum)
  BY <1>1 DEF Granted, Reservoir, AtLeast0
<1>3. f = [e EXCEPT !.junior = e.junior + got]
  BY DEF ReserveJunior
<1> HIDE DEF got, f
<1>4. /\ f.queue = e.queue /\ f.tail = e.tail /\ f.owed = e.owed /\ f.junior = e.junior + got
      /\ f.cum = e.cum /\ f.emitted = e.emitted
  BY <1>3 DEF Lines
<1>5. f.tail + f.junior = (e.tail + e.junior) + got
  BY <1>1, <1>2, <1>4
<1>6. f.tail + f.junior <= e.cum \/ f.tail + f.junior = e.tail + e.junior
  BY <1>1, <1>2, <1>5
<1>7. Chained(f)
  BY <1>4, <1>6 DEF Counted, Chained
<1>8. Books(f, u + got)
  BY <1>1, <1>2, <1>4 DEF Counted, Books
<1>9. Owing(f)
  BY <1>4 DEF Counted, Owing
<1> QED
  BY <1>7, <1>8, <1>9 DEF Counted, f, got

LEMMA CountedMint ==
  ASSUME NEW e \in Lines, NEW u \in Nat, NEW n \in Nat, n <= u, Counted(e, u)
  PROVE  Counted(Mint(e, n), u - n)
<1> DEFINE f == Mint(e, n)
           m == e.emitted + n
<1>1. /\ e.tail \in Nat /\ e.junior \in Nat /\ e.owed \in Int /\ e.emitted \in Nat
  BY LineFields
<1>2. f = [e EXCEPT !.emitted = m]
  BY DEF Mint
<1>3. m = e.emitted + n
  OBVIOUS
<1> HIDE DEF f, m
<1>4. /\ f.queue = e.queue /\ f.tail = e.tail /\ f.owed = e.owed /\ f.junior = e.junior
      /\ f.cum = e.cum /\ f.emitted = m
  BY <1>2 DEF Lines
<1>5. Books(f, u - n)
  BY <1>1, <1>3, <1>4 DEF Counted, Books
<1>6. Owing(f) /\ Chained(f)
  BY <1>4 DEF Counted, Owing, Chained
<1> QED
  BY <1>5, <1>6 DEF Counted, f

LEMMA CountedPay ==
  ASSUME NEW e \in Lines, NEW u \in Nat, NEW i \in DOMAIN e.queue, Counted(e, u)
  PROVE  Counted(PaySenior(e, i), u)
<1> DEFINE pay == Payable(e, i)
           s == e.queue[i]
           x == [s EXCEPT !.paid = s.paid + pay]
           q == [e.queue EXCEPT ![i] = x]
           f == PaySenior(e, i)
           o == e.owed - pay
           m == e.emitted + pay
           k == Len(e.queue)
<1>1. /\ e.tail \in Nat /\ e.junior \in Nat /\ e.owed \in Int /\ e.emitted \in Nat /\ e.cum \in Nat
      /\ e.queue \in Seq(Seniors) /\ k \in Nat /\ i \in 1 .. k
      /\ s \in Seniors /\ s.amount \in Nat /\ s.start \in Nat /\ s.paid \in Nat
  BY LineFields
<1>2. pay \in Nat
  BY <1>1, SMTT(30) DEF Payable, AtLeast0
<1>3. f = [e EXCEPT !.queue = q, !.owed = o, !.emitted = m]
  BY DEF PaySenior, Mint, Lines
<1> HIDE DEF pay
<1>4. /\ x.amount = s.amount /\ x.start = s.start /\ x.paid = s.paid + pay
  BY <1>1 DEF Seniors
<1>5. o = e.owed - pay /\ m = e.emitted + pay
  OBVIOUS
<1> HIDE DEF x, f, o, m
<1>6. /\ Len(q) = k /\ q[i] = x /\ \A j \in 1 .. k : j # i => q[j] = e.queue[j]
  BY <1>1
<1> HIDE DEF q
<1>7. /\ f.queue = q /\ f.tail = e.tail /\ f.owed = o /\ f.junior = e.junior
      /\ f.cum = e.cum /\ f.emitted = m
  BY <1>3 DEF Lines
<1>8. \A j \in 1 .. k : q[j].start = e.queue[j].start /\ End(q[j]) = End(e.queue[j])
  BY <1>4, <1>6 DEF End, s
<1>9. Chained(f)
  <2>1. \A j \in 1 .. k : j > 1 => j - 1 \in 1 .. k
    BY <1>1
  <2>2. k > 0 => k \in 1 .. k
    BY <1>1
  <2> QED
    BY <1>6, <1>7, <1>8, <2>1, <2>2 DEF Counted, Chained
<1>10. Books(f, u)
  <2>1. e.emitted + u = (e.tail + e.junior) - e.owed
    BY DEF Counted, Books
  <2> DEFINE top == e.tail + e.junior
  <2>3. top \in Int /\ e.owed \in Int /\ e.emitted \in Int
    BY <1>1
  <2> HIDE DEF top, s
  <2>4. (e.emitted + pay) + u = top - (e.owed - pay)
    BY <1>2, <2>1, <2>3 DEF top
  <2>2. m + u = (e.tail + e.junior) - o
    BY <1>5, <2>4 DEF top
  <2> QED
    BY <1>7, <2>2 DEF Books
<1>11. Rest(x) = Rest(s) - pay
  BY <1>1, <1>2, <1>4, SMTT(30) DEF Rest
<1>12. Owing(f)
  <2>1. PICK S : Sums(e.queue, S) /\ S[k] = e.owed
    BY DEF Counted, Owing
  <2> DEFINE R == [j \in 0 .. k |-> IF j >= i THEN S[j] - pay ELSE S[j]]
  <2>2. \A j \in 0 .. k : S[j] \in Int
    BY <2>1 DEF Sums
  <2>3. DOMAIN R = 0 .. k /\ \A j \in 0 .. k : R[j] = IF j >= i THEN S[j] - pay ELSE S[j]
    OBVIOUS
  <2> HIDE DEF R
  <2>4. R[0] = 0 /\ R[k] = o
    <3>1. 0 \in 0 .. k /\ k \in 0 .. k /\ ~(0 >= i) /\ k >= i
      BY <1>1
    <3> QED
      BY <1>5, <2>1, <2>3, <3>1 DEF Sums
  <2>5. \A j \in 0 .. k : R[j] \in Int
    BY <1>2, <2>2, <2>3
  <2>6. \A j \in 1 .. k : R[j] = R[j - 1] + Rest(q[j])
    <3> TAKE j \in 1 .. k
    <3>1. j \in 0 .. k /\ j - 1 \in 0 .. k /\ S[j] \in Int /\ S[j - 1] \in Int
      BY <1>1, <2>2
    <3>2. S[j] = S[j - 1] + Rest(e.queue[j])
      BY <2>1 DEF Sums
    <3>3. Rest(e.queue[j]) \in Int
      <4>1. j \in DOMAIN e.queue
        BY <1>1
      <4> QED
        BY <4>1, LineFields DEF Rest
    <3>4. CASE j = i
      <4>1. R[j] = S[j] - pay /\ R[j - 1] = S[j - 1]
        BY <1>1, <2>3, <3>1, <3>4
      <4>2. Rest(q[j]) = Rest(e.queue[j]) - pay
        BY <1>6, <1>11, <3>4 DEF s
      <4> QED
        BY <1>2, <3>1, <3>2, <3>3, <4>1, <4>2
    <3>5. CASE j # i
      <4>1. q[j] = e.queue[j]
        BY <1>6, <3>5
      <4>2. CASE j > i
        <5>1. R[j] = S[j] - pay /\ R[j - 1] = S[j - 1] - pay
          <6>1. j >= i /\ j - 1 >= i
            BY <1>1, <4>2
          <6> QED
            BY <2>3, <3>1, <6>1
        <5> QED
          BY <1>2, <3>1, <3>2, <3>3, <4>1, <5>1
      <4>3. CASE j < i
        <5>1. R[j] = S[j] /\ R[j - 1] = S[j - 1]
          <6>1. j \in Int /\ i \in Int
            BY <1>1
          <6>2. ~(j >= i) /\ ~(j - 1 >= i)
            BY <4>3, <6>1
          <6> QED
            BY <2>3, <3>1, <6>2
        <5> QED
          BY <3>2, <4>1, <5>1
      <4>4. j > i \/ j < i
        BY <1>1, <3>5
      <4> QED
        BY <4>2, <4>3, <4>4
    <3> QED
      BY <3>4, <3>5
  <2>7. Sums(q, R) /\ R[Len(q)] = f.owed
    BY <1>6, <1>7, <2>3, <2>4, <2>5, <2>6 DEF Sums
  <2> QED
    BY <1>7, <2>7 DEF Owing
<1> QED
  BY <1>9, <1>10, <1>12 DEF Counted, f

LEMMA InitCounted == Init => Counted(line, undrawn)
<1> SUFFICES ASSUME Init PROVE Counted(line, undrawn)
  OBVIOUS
<1>1. /\ line.queue = <<>> /\ line.owed = 0 /\ line.tail = 0 /\ line.junior = 0 /\ line.cum = 0
      /\ line.emitted = 0 /\ undrawn = 0
  BY DEF Init, NewLine
<1>2. Owing(line)
  <2> DEFINE S == [k \in 0 .. 0 |-> 0]
  <2>1. Sums(<<>>, S) /\ S[Len(<<>>)] = 0
    BY DEF Sums
  <2> QED
    BY <1>1, <2>1 DEF Owing
<1>3. Chained(line) /\ Books(line, undrawn)
  BY <1>1 DEF Chained, Books
<1> QED
  BY <1>2, <1>3 DEF Counted

LEMMA StepCounted == IInv /\ Counted(line, undrawn) /\ [Next]_vars => Counted(line, undrawn)'
<1> SUFFICES ASSUME IInv, Counted(line, undrawn), [Next]_vars PROVE Counted(line, undrawn)'
  OBVIOUS
<1>1. /\ Current \in Lines /\ Counted(Current, undrawn) /\ undrawn \in Nat
      /\ Current.queue = line.queue
  <2>1. line \in Lines /\ idle \in Nat /\ supply \in Nat
    BY UseAssumption DEF IInv, Tidy, Bounded
  <2>2. Later(line, Current) /\ SameBooks(line, Current)
    BY <2>1, TouchLater DEF Current
  <2>3. Current \in Lines
    BY <2>2 DEF Later
  <2> QED
    BY <2>1, <2>2, <2>3, CountedLater DEF IInv, Bounded, SameBooks
<1>2. Amounts \subseteq Nat \ {0}
  BY UseAssumption
<1>3. ASSUME UNCHANGED <<line, undrawn>> PROVE Counted(line, undrawn)'
  BY <1>3 DEF Counted, Owing, Chained, Books
<1>4. ASSUME Counted(line', undrawn') PROVE Counted(line, undrawn)'
  BY <1>4 DEF Counted, Owing, Chained, Books
<1>5. CASE Tick
  BY <1>3, <1>5 DEF Tick
<1>6. CASE Poke
  BY <1>1, <1>4, <1>6 DEF Poke
<1>7. ASSUME NEW n \in Amounts, Buy(n) \/ Burn(n) PROVE Counted(line, undrawn)'
  BY <1>1, <1>4, <1>7 DEF Buy, Burn
<1>8. ASSUME NEW n \in Amounts, BurnUntouched(n) PROVE Counted(line, undrawn)'
  BY <1>3, <1>8 DEF BurnUntouched
<1>9. ASSUME NEW n \in Amounts, Award(n) PROVE Counted(line, undrawn)'
  <2>1. Counted(EnqueueSenior(Current, n), undrawn)
    BY <1>1, <1>2, CountedEnqueue
  <2> QED
    BY <1>4, <1>9, <2>1 DEF Award
<1>10. ASSUME NEW n \in Amounts, Draw(n) PROVE Counted(line, undrawn)'
  <2>1. Counted(ReserveJunior(Current, n), undrawn + Granted(Current, n))
    BY <1>1, <1>2, CountedReserve
  <2> QED
    BY <1>4, <1>10, <2>1 DEF Draw
<1>11. ASSUME NEW n \in Amounts, PullJunior(n) PROVE Counted(line, undrawn)'
  <2>1. n <= undrawn /\ n \in Nat
    BY <1>2, <1>11 DEF PullJunior
  <2>2. Counted(Mint(Current, n), undrawn - n)
    BY <1>1, <2>1, CountedMint
  <2> QED
    BY <1>4, <1>11, <2>2 DEF PullJunior
<1>12. ASSUME NEW i \in DOMAIN line.queue, PullSenior(i) PROVE Counted(line, undrawn)'
  <2>1. Counted(PaySenior(Current, i), undrawn)
    BY <1>1, CountedPay
  <2> QED
    BY <1>4, <1>12, <2>1 DEF PullSenior
<1>13. CASE UNCHANGED vars
  BY <1>3, <1>13 DEF vars
<1> QED
  BY <1>5, <1>6, <1>7, <1>8, <1>9, <1>10, <1>11, <1>12, <1>13 DEF Next

(* What was minted, and what juniors may still mint, never exceeds what    *)
(* has accrued, for every budget, period and history of awards and draws.  *)
THEOREM NothingAboveTheLine == Spec => []Ceiling
<1>1. IInv /\ Counted(line, undrawn) => Ceiling
  BY CountedCeiling DEF IInv, Bounded, Ceiling
<1> QED
  BY <1>1, InitIInv, StepIInv, InitCounted, StepCounted, PTL DEF Spec
=============================================================================
