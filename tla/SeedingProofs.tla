--------------------------- MODULE SeedingProofs ---------------------------
(***************************************************************************)
(* Two properties of Seeding proved for every program over the builder's   *)
(* calls, of any length, and for every chain the calls run on.             *)
(*                                                                         *)
(* The builder keeps two notes about the clock while it appends steps, the *)
(* emitters filter those steps by kind, and a chain runs what is left line *)
(* by line.  What is shared by the three is what a sequence of steps does  *)
(* to a clock: EndsArmed and EverArmed say it without running anything,    *)
(* ArmedAppend is their law at the builder's end of the sequence,          *)
(* ArmedHead at the chain's end, and ArmedOf says a filter that keeps the  *)
(* calls keeps it.  Builder is the invariant of the scenario, Carries that *)
(* of the broadcast: what the chain's clock is, and what the lines still   *)
(* to run will make of it.                                                 *)
(***************************************************************************)
EXTENDS Seeding, SharedLemmas

-----------------------------------------------------------------------------
(* Sequences: induction with a set in the place of a predicate.            *)
LEMMA SeqInduction ==
  ASSUME NEW U, NEW P, <<>> \in P,
         \A s \in Seq(U) : \A e \in U : s \in P => Append(s, e) \in P
  PROVE  \A s \in Seq(U) : s \in P
<1> DEFINE T == {n \in Nat : \A s \in Seq(U) : Len(s) = n => s \in P}
<1>1. 0 \in T
  <2>1. ASSUME NEW s \in Seq(U), Len(s) = 0 PROVE s \in P
    <3>1. s = <<>>
      BY <2>1
    <3> QED BY <3>1
  <2> QED BY <2>1
<1>2. ASSUME NEW n \in T PROVE n + 1 \in T
  <2>1. ASSUME NEW s \in Seq(U), Len(s) = n + 1 PROVE s \in P
    <3> DEFINE front == SubSeq(s, 1, n)
    <3>1. n \in Nat /\ n + 1 \in 1 .. Len(s) /\ s[n + 1] \in U
      BY <2>1
    <3>2. front \in Seq(U) /\ Len(front) = n
      BY <2>1, <3>1
    <3>3. \A i \in 1 .. n : front[i] = s[i]
      BY <2>1, <3>1
    <3>4. Append(front, s[n + 1]) = s
      <4> HIDE DEF front
      <4>1. Append(front, s[n + 1]) \in Seq(U) /\ Len(Append(front, s[n + 1])) = n + 1
        BY <3>1, <3>2
      <4>2. \A i \in 1 .. n + 1 : Append(front, s[n + 1])[i] = s[i]
        BY <3>1, <3>2, <3>3
      <4> QED BY <2>1, <4>1, <4>2
    <3>5. front \in P
      BY <1>2, <3>2
    <3> QED BY <3>1, <3>2, <3>4, <3>5
  <2> QED BY <1>2, <2>1
<1>3. T = Nat
  BY <1>1, <1>2, SetInduction
<1> QED BY <1>3

(* The community operator, with its recursion given a name.                *)
FlatStep(g, seqs, i) == IF i = 1 THEN seqs[i] ELSE g[i - 1] \o seqs[i]

IsFlat(g, seqs) == g = [i \in 1 .. Len(seqs) |-> FlatStep(g, seqs, i)]

LEMMA FlattenIsChosen ==
  ASSUME NEW seqs, Len(seqs) # 0
  PROVE  FlattenSeq(seqs) = (CHOOSE g : IsFlat(g, seqs))[Len(seqs)]
  BY DEF FlattenSeq, IsFlat, FlatStep

LEMMA FlatExists ==
  ASSUME NEW seqs, Len(seqs) \in Nat PROVE \E g : IsFlat(g, seqs)
<1> DEFINE T == {m \in Nat : \E g : g = [i \in 1 .. m |-> FlatStep(g, seqs, i)]}
<1>1. 0 \in T
  <2> DEFINE g == [i \in 1 .. 0 |-> 0]
  <2>1. g = [i \in 1 .. 0 |-> FlatStep(g, seqs, i)]
    OBVIOUS
  <2> QED BY <2>1
<1>2. ASSUME NEW m \in T PROVE m + 1 \in T
  <2>1. PICK g : g = [i \in 1 .. m |-> FlatStep(g, seqs, i)]
    BY <1>2
  <2> DEFINE h == [i \in 1 .. m + 1 |-> IF i = m + 1 THEN FlatStep(g, seqs, i) ELSE g[i]]
  <2>2. ASSUME NEW i \in 1 .. m + 1 PROVE h[i] = FlatStep(h, seqs, i)
    <3>1. CASE i = m + 1
      <4>1. i # 1 => h[i - 1] = g[i - 1]
        BY <1>2, <3>1
      <4> QED BY <3>1, <4>1 DEF FlatStep
    <3>2. CASE i # m + 1
      <4>1. i \in 1 .. m /\ h[i] = g[i] /\ g[i] = FlatStep(g, seqs, i)
        BY <1>2, <2>1, <3>2
      <4>2. i # 1 => h[i - 1] = g[i - 1]
        BY <1>2, <3>2
      <4> QED BY <4>1, <4>2 DEF FlatStep
    <3> QED BY <3>1, <3>2
  <2>3. h = [i \in 1 .. m + 1 |-> FlatStep(h, seqs, i)]
    BY <2>2
  <2> HIDE DEF h
  <2>4. \E f : f = [i \in 1 .. m + 1 |-> FlatStep(f, seqs, i)]
    BY <2>3
  <2> QED BY <1>2, <2>4
<1>3. T = Nat
  BY <1>1, <1>2, SetInduction
<1> QED BY <1>3 DEF IsFlat

(* One more sequence at the end is one more at the end of the whole.       *)
LEMMA FlattenAppend ==
  ASSUME NEW U, NEW seqs \in Seq(Seq(U)), NEW e \in Seq(U), FlattenSeq(seqs) \in Seq(U)
  PROVE  /\ FlattenSeq(Append(seqs, e)) = FlattenSeq(seqs) \o e
         /\ FlattenSeq(Append(seqs, e)) \in Seq(U)
<1> DEFINE n == Len(seqs)
           more == Append(seqs, e)
<1>1. n \in Nat /\ Len(more) = n + 1 /\ more[n + 1] = e /\ \A i \in 1 .. n : more[i] = seqs[i]
  OBVIOUS
<1>2. PICK h : /\ h = [i \in 1 .. n + 1 |-> FlatStep(h, more, i)]
               /\ FlattenSeq(more) = h[n + 1]
  <2> HIDE DEF n, more
  <2>0. Len(more) \in Nat /\ Len(more) # 0
    BY <1>1
  <2>1. IsFlat(CHOOSE g : IsFlat(g, more), more)
    BY <2>0, FlatExists, Zenon
  <2>2. FlattenSeq(more) = (CHOOSE g : IsFlat(g, more))[n + 1]
    BY <1>1, <2>0, FlattenIsChosen
  <2> QED BY <1>1, <2>1, <2>2 DEF IsFlat
<1>3. CASE n = 0
  <2>1. seqs = <<>>
    BY <1>3
  <2>2. FlattenSeq(seqs) = <<>>
    BY <2>1 DEF FlattenSeq
  <2>3. h[1] = e
    BY <1>1, <1>2, <1>3 DEF FlatStep
  <2> QED BY <1>2, <1>3, <2>2, <2>3
<1>4. CASE n # 0
  <2>1. PICK g : /\ g = [i \in 1 .. n |-> FlatStep(g, seqs, i)]
                 /\ FlattenSeq(seqs) = g[n]
    <3>1. IsFlat(CHOOSE f : IsFlat(f, seqs), seqs)
      BY <1>1, FlatExists, Zenon
    <3>2. FlattenSeq(seqs) = (CHOOSE f : IsFlat(f, seqs))[n]
      BY <1>4, FlattenIsChosen
    <3> QED BY <3>1, <3>2 DEF IsFlat
  <2> DEFINE T == {m \in Nat : m \in 1 .. n => h[m] = g[m]}
  <2> HIDE DEF n, more
  <2>2. ASSUME NEW m \in 1 .. n
        PROVE  /\ h[m] = FlatStep(h, more, m) /\ g[m] = FlatStep(g, seqs, m)
               /\ more[m] = seqs[m]
    <3>1. m \in 1 .. n + 1
      BY <1>1
    <3>2. h[m] = FlatStep(h, more, m)
      BY <1>2, <3>1
    <3> QED BY <1>1, <2>1, <3>2
  <2>3. 0 \in T
    BY <1>1
  <2>4. ASSUME NEW m \in T PROVE m + 1 \in T
    <3>1. CASE m + 1 \in 1 .. n
      <4>1. m \in Nat /\ (m # 0 => m \in 1 .. n)
        BY <1>1, <2>4, <3>1
      <4>2. m # 0 => h[m] = g[m]
        BY <2>4, <4>1
      <4>3. (m + 1) - 1 = m /\ (m + 1 = 1 <=> m = 0)
        BY <4>1
      <4>4. h[m + 1] = FlatStep(h, more, m + 1) /\ g[m + 1] = FlatStep(g, seqs, m + 1)
            /\ more[m + 1] = seqs[m + 1]
        BY <2>2, <3>1
      <4>5. FlatStep(h, more, m + 1) = FlatStep(g, seqs, m + 1)
        BY <4>2, <4>3, <4>4 DEF FlatStep
      <4> QED BY <4>1, <4>4, <4>5
    <3> QED BY <2>4, <3>1
  <2>5. T = Nat
    BY <2>3, <2>4, SetInduction
  <2>6. n \in 1 .. n /\ n \in T
    BY <1>1, <1>4, <2>5
  <2>7. h[n] = g[n]
    BY <2>6
  <2>8. n + 1 \in 1 .. n + 1 /\ n + 1 # 1 /\ (n + 1) - 1 = n
    BY <1>1, <1>4
  <2>9. h[n + 1] = FlatStep(h, more, n + 1)
    BY <1>2, <2>8
  <2>10. h[n + 1] = h[n] \o more[n + 1]
    <3>1. FlatStep(h, more, n + 1) = h[(n + 1) - 1] \o more[n + 1]
      BY <2>8, Zenon DEF FlatStep
    <3> QED BY <2>8, <2>9, <3>1
  <2>11. FlattenSeq(more) = FlattenSeq(seqs) \o e
    BY <1>1, <1>2, <2>1, <2>7, <2>10
  <2> QED BY <2>11 DEF more
<1> QED BY <1>3, <1>4

-----------------------------------------------------------------------------
(* What Of keeps of a sequence of steps.                                   *)
LineOf(step, kinds) == IF step.kind \in kinds THEN <<step>> ELSE <<>>

Lines(steps, kinds) == [i \in DOMAIN steps |-> LineOf(steps[i], kinds)]

LEMMA OfIs == ASSUME NEW steps, NEW kinds
              PROVE  Of(steps, kinds) = FlattenSeq(Lines(steps, kinds))
  BY DEF Of, Lines, LineOf

LEMMA LinesTyped ==
  ASSUME NEW U, NEW s \in Seq(U), NEW kinds
  PROVE  /\ Lines(s, kinds) \in Seq(Seq(U)) /\ Len(Lines(s, kinds)) = Len(s)
         /\ \A i \in 1 .. Len(s) : Lines(s, kinds)[i] = LineOf(s[i], kinds)
<1>1. \A x \in U : LineOf(x, kinds) \in Seq(U)
  BY DEF LineOf
<1>2. DOMAIN s = 1 .. Len(s) /\ Len(s) \in Nat /\ \A i \in 1 .. Len(s) : s[i] \in U
  OBVIOUS
<1>3. Lines(s, kinds) = [i \in 1 .. Len(s) |-> LineOf(s[i], kinds)]
  BY <1>2 DEF Lines
<1>4. \A i \in 1 .. Len(s) : LineOf(s[i], kinds) \in Seq(U)
  BY <1>1, <1>2
<1>5. Lines(s, kinds) \in [1 .. Len(s) -> Seq(U)]
  BY <1>3, <1>4
<1> QED BY <1>2, <1>3, <1>5

LEMMA LinesAppend ==
  ASSUME NEW U, NEW s \in Seq(U), NEW e \in U, NEW kinds
  PROVE  /\ Lines(s, kinds) \in Seq(Seq(U))
         /\ LineOf(e, kinds) \in Seq(U)
         /\ Lines(Append(s, e), kinds) = Append(Lines(s, kinds), LineOf(e, kinds))
<1>1. \A x \in U : LineOf(x, kinds) \in Seq(U)
  BY DEF LineOf
<1>2. Lines(s, kinds) \in Seq(Seq(U)) /\ Len(Lines(s, kinds)) = Len(s)
      /\ \A i \in 1 .. Len(s) : Lines(s, kinds)[i] = LineOf(s[i], kinds)
  BY <1>1, LinesTyped
<1>3. /\ Append(s, e) \in Seq(U) /\ Len(Append(s, e)) = Len(s) + 1
      /\ Append(s, e)[Len(s) + 1] = e /\ \A i \in 1 .. Len(s) : Append(s, e)[i] = s[i]
  OBVIOUS
<1> DEFINE all == Lines(Append(s, e), kinds)
           one == Append(Lines(s, kinds), LineOf(e, kinds))
<1>4. all \in Seq(Seq(U)) /\ Len(all) = Len(s) + 1
      /\ \A i \in 1 .. Len(s) + 1 : all[i] = LineOf(Append(s, e)[i], kinds)
  BY <1>1, <1>3, LinesTyped
<1>5. one \in Seq(Seq(U)) /\ Len(one) = Len(s) + 1
      /\ one[Len(s) + 1] = LineOf(e, kinds)
      /\ \A i \in 1 .. Len(s) : one[i] = LineOf(s[i], kinds)
  BY <1>1, <1>2
<1> HIDE DEF all, one
<1>6. \A i \in 1 .. Len(s) + 1 : all[i] = one[i]
  BY <1>3, <1>4, <1>5
<1>7. all = one
  BY <1>4, <1>5, <1>6
<1> QED BY <1>1, <1>2, <1>7 DEF all, one

LEMMA OfNothing == ASSUME NEW kinds PROVE Of(<<>>, kinds) = <<>>
  BY DEF Of, FlattenSeq

LEMMA OfAppendTyped ==
  ASSUME NEW U, NEW s \in Seq(U), NEW e \in U, NEW kinds, Of(s, kinds) \in Seq(U)
  PROVE  /\ Of(Append(s, e), kinds) = IF e.kind \in kinds THEN Append(Of(s, kinds), e)
                                      ELSE Of(s, kinds)
         /\ Of(Append(s, e), kinds) \in Seq(U)
<1> DEFINE of == Of(s, kinds)
<1>1. /\ Of(Append(s, e), kinds) = of \o LineOf(e, kinds)
      /\ Of(Append(s, e), kinds) \in Seq(U)
  <2> DEFINE lines == Lines(s, kinds)
             line  == LineOf(e, kinds)
  <2>1. /\ lines \in Seq(Seq(U)) /\ line \in Seq(U)
        /\ Lines(Append(s, e), kinds) = Append(lines, line)
    BY LinesAppend, ZenonT(30)
  <2>2. of = FlattenSeq(lines) /\ Of(Append(s, e), kinds) = FlattenSeq(Append(lines, line))
    BY <2>1, OfIs
  <2> HIDE DEF lines, line
  <2>3. /\ FlattenSeq(Append(lines, line)) = FlattenSeq(lines) \o line
        /\ FlattenSeq(Append(lines, line)) \in Seq(U)
    BY <2>1, <2>2, FlattenAppend
  <2> QED BY <2>2, <2>3 DEF line
<1>2. of \in Seq(U)
  OBVIOUS
<1> HIDE DEF of
<1>3. of \o LineOf(e, kinds) = IF e.kind \in kinds THEN Append(of, e) ELSE of
  <2>1. of \o <<e>> = Append(of, e) /\ of \o <<>> = of
    BY <1>2
  <2> QED BY <2>1 DEF LineOf
<1> QED BY <1>1, <1>3 DEF of

LEMMA OfIsSeq ==
  ASSUME NEW U, NEW kinds PROVE \A s \in Seq(U) : Of(s, kinds) \in Seq(U)
<1> DEFINE P == {s \in Seq(U) : Of(s, kinds) \in Seq(U)}
<1>1. <<>> \in P
  <2>1. Of(<<>>, kinds) = <<>> /\ <<>> \in Seq(U)
    BY OfNothing
  <2>2. Of(<<>>, kinds) \in Seq(U)
    BY <2>1, Zenon
  <2> QED BY <2>1, <2>2, Zenon
<1>2. ASSUME NEW s \in Seq(U), NEW e \in U, s \in P PROVE Append(s, e) \in P
  BY <1>2, OfAppendTyped
<1>3. \A s \in Seq(U) : s \in P
  <2> HIDE DEF P
  <2> QED BY <1>1, <1>2, SeqInduction
<1> QED BY <1>3

LEMMA OfAppend ==
  ASSUME NEW U, NEW s \in Seq(U), NEW e \in U, NEW kinds
  PROVE  Of(Append(s, e), kinds) = IF e.kind \in kinds THEN Append(Of(s, kinds), e)
                                  ELSE Of(s, kinds)
  BY OfIsSeq, OfAppendTyped

(* Keeping fewer kinds of what kept more is keeping the fewer.             *)
LEMMA OfOf ==
  ASSUME NEW U, NEW few, NEW many, few \subseteq many
  PROVE  \A s \in Seq(U) : Of(Of(s, many), few) = Of(s, few)
<1> DEFINE P == {s \in Seq(U) : Of(Of(s, many), few) = Of(s, few)}
<1>1. <<>> \in P
  BY OfNothing
<1>2. ASSUME NEW s \in Seq(U), NEW e \in U, s \in P PROVE Append(s, e) \in P
  <2>1. Of(s, many) \in Seq(U) /\ Append(s, e) \in Seq(U)
    BY OfIsSeq
  <2>2. Of(Append(s, e), few) = IF e.kind \in few THEN Append(Of(s, few), e) ELSE Of(s, few)
    BY OfAppend
  <2>3. Of(Append(s, e), many) = IF e.kind \in many THEN Append(Of(s, many), e) ELSE Of(s, many)
    BY OfAppend
  <2>4. Of(Append(Of(s, many), e), few) =
          IF e.kind \in few THEN Append(Of(Of(s, many), few), e) ELSE Of(Of(s, many), few)
    BY <2>1, OfAppend
  <2>5. Of(Of(s, many), few) = Of(s, few)
    BY <1>2
  <2> QED BY <2>1, <2>2, <2>3, <2>4, <2>5
<1>3. \A s \in Seq(U) : s \in P
  <2> HIDE DEF P
  <2> QED BY <1>1, <1>2, SeqInduction
<1> QED BY <1>3

-----------------------------------------------------------------------------
(* The two served emitters, on any sequence of steps at all.               *)
LEMMA OfSealing ==
  ASSUME NEW U, NEW lines \in Seq(U), NEW s
  PROVE  Of(lines \o Sealing(s), {"call"}) = Of(lines, {"call"}) \o Sealing(s)
<1>1. lines \in Seq(U \cup {Seal}) /\ Seal.kind = "call"
  BY DEF Seal, CallStep
<1>2. Of(Append(lines, Seal), {"call"}) = Append(Of(lines, {"call"}), Seal)
  BY <1>1, OfAppend
<1>3. Of(lines, {"call"}) \in Seq(U)
  BY OfIsSeq
<1> DEFINE calls_ == Of(lines, {"call"})
<1> HIDE DEF calls_
<1>4. /\ lines \o <<Seal>> = Append(lines, Seal) /\ lines \o <<>> = lines
      /\ calls_ \o <<Seal>> = Append(calls_, Seal) /\ calls_ \o <<>> = calls_
  BY <1>1, <1>3 DEF calls_
<1>5. CASE s.armed
  BY <1>2, <1>4, <1>5 DEF Sealing, calls_
<1>6. CASE ~s.armed
  BY <1>4, <1>6 DEF Sealing, calls_
<1> QED BY <1>5, <1>6

LEMMA EmittersSendTheSame ==
  ASSUME NEW U, NEW s, s.steps \in Seq(U) PROVE SeedsCompare(s)
<1> DEFINE txs == EmitTxs(s, Signers(s))
<1>1. CASE Mined(s) > 0
  <2>1. txs = Refusal
    BY <1>1 DEF EmitTxs
  <2>2. ~txs.ok
    BY <2>1 DEF Refusal
  <2> QED BY <1>1, <2>2 DEF SeedsCompare
<1>2. CASE ~(Mined(s) > 0)
  <2>1. ~ \E i \in 1 .. Len(s.steps) : s.steps[i].kind = "call" /\ s.steps[i].who \notin Signers(s)
    BY DEF Signers
  <2>2. txs = Text(Of(s.steps, {"call"}) \o Sealing(s))
    BY <1>2, <2>1 DEF EmitTxs, Keep
  <2>3. EmitPlan(s) = Text(Of(s.steps, {"call", "expect", "mine"}) \o Sealing(s))
    BY DEF EmitPlan, Keep
  <2>4. /\ Of(s.steps, {"call"}) \in Seq(U)
        /\ Of(s.steps, {"call", "expect", "mine"}) \in Seq(U)
    BY OfIsSeq
  <2>5. /\ Of(Of(s.steps, {"call"}), {"call"}) = Of(s.steps, {"call"})
        /\ Of(Of(s.steps, {"call", "expect", "mine"}), {"call"}) = Of(s.steps, {"call"})
    <3>1. {"call"} \subseteq {"call", "expect", "mine"}
      OBVIOUS
    <3> QED BY <3>1, OfOf
  <2>6. Of(txs.lines, {"call"}) = Of(EmitPlan(s).lines, {"call"})
    <3>1. Of(Of(s.steps, {"call"}) \o Sealing(s), {"call"}) = Of(s.steps, {"call"}) \o Sealing(s)
      BY <2>4, <2>5, OfSealing
    <3>2. Of(Of(s.steps, {"call", "expect", "mine"}) \o Sealing(s), {"call"}) =
            Of(s.steps, {"call"}) \o Sealing(s)
      BY <2>4, <2>5, OfSealing
    <3>3. /\ txs.lines = Of(s.steps, {"call"}) \o Sealing(s)
          /\ EmitPlan(s).lines = Of(s.steps, {"call", "expect", "mine"}) \o Sealing(s)
      BY <2>2, <2>3 DEF Text
    <3> QED BY <3>1, <3>2, <3>3
  <2>7. CallLines(EmitPlan(s)) = CallLines(txs)
    BY <2>6 DEF CallLines
  <2>8. txs.ok
    BY <2>2 DEF Text
  <2> QED BY <1>2, <2>7, <2>8 DEF SeedsCompare, SameCalls
<1> QED BY <1>1, <1>2

-----------------------------------------------------------------------------
(* The clock a sequence of steps leaves, said without running it: it is    *)
(* armed by an enabling call that no later call seals.                     *)
Arms(st)  == st.kind = "call" /\ st.func \in {"EnableTestClock", "EnableTestClockAt"}
Seals(st) == st.kind = "call" /\ st.func = "SealTestClock"

ArmedBy(was, st) == Arms(st) \/ (was /\ ~Seals(st))

EndsArmed(was, steps) ==
  \/ \E i \in DOMAIN steps : Arms(steps[i]) /\ \A j \in DOMAIN steps : j > i => ~Seals(steps[j])
  \/ was /\ \A j \in DOMAIN steps : ~Seals(steps[j])

EverArmed(was, steps) == was \/ \E i \in DOMAIN steps : Arms(steps[i])

LEMMA NoSealThatArms == ASSUME NEW st PROVE ~(Arms(st) /\ Seals(st))
  BY DEF Arms, Seals

LEMMA ArmedOfNothing ==
  ASSUME NEW was \in BOOLEAN
  PROVE  (EndsArmed(was, <<>>) <=> was) /\ (EverArmed(was, <<>>) <=> was)
  BY DEF EndsArmed, EverArmed

LEMMA ArmedAppend ==
  ASSUME NEW U, NEW s \in Seq(U), NEW e \in U, NEW was \in BOOLEAN
  PROVE  /\ EndsArmed(was, Append(s, e)) <=> ArmedBy(EndsArmed(was, s), e)
         /\ EverArmed(was, Append(s, e)) <=> EverArmed(was, s) \/ Arms(e)
<1> DEFINE n == Len(s)
           more == Append(s, e)
<1>1. /\ n \in Nat /\ DOMAIN s = 1 .. n /\ DOMAIN more = 1 .. n + 1
      /\ more[n + 1] = e /\ \A i \in 1 .. n : more[i] = s[i]
  OBVIOUS
<1> HIDE DEF n, more
<1>2. 1 .. n + 1 = (1 .. n) \cup {n + 1} /\ \A i \in 1 .. n : n + 1 > i /\ ~(i > n + 1)
  BY <1>1
<1>3. EverArmed(was, more) <=> EverArmed(was, s) \/ Arms(e)
  BY <1>1, <1>2 DEF EverArmed
<1>4. (\A j \in DOMAIN more : ~Seals(more[j])) <=> (\A j \in DOMAIN s : ~Seals(s[j])) /\ ~Seals(e)
  BY <1>1, <1>2
<1>5. ASSUME NEW i \in 1 .. n
      PROVE  (\A j \in DOMAIN more : j > i => ~Seals(more[j])) <=>
             (\A j \in DOMAIN s : j > i => ~Seals(s[j])) /\ ~Seals(e)
  BY <1>1, <1>2
<1>6. \A j \in DOMAIN more : ~(j > n + 1)
  BY <1>1
<1>7. (\E i \in DOMAIN more : Arms(more[i]) /\ \A j \in DOMAIN more : j > i => ~Seals(more[j])) <=>
      \/ Arms(e)
      \/ /\ \E i \in DOMAIN s : Arms(s[i]) /\ \A j \in DOMAIN s : j > i => ~Seals(s[j])
         /\ ~Seals(e)
  BY <1>1, <1>2, <1>5, <1>6
<1>8. EndsArmed(was, more) <=> ArmedBy(EndsArmed(was, s), e)
  BY <1>4, <1>7 DEF EndsArmed, ArmedBy
<1> QED BY <1>3, <1>8 DEF more

LEMMA ArmedHead ==
  ASSUME NEW U, NEW s \in Seq(U), s # <<>>, NEW was \in BOOLEAN
  PROVE  /\ EndsArmed(was, s) <=> EndsArmed(ArmedBy(was, Head(s)), Tail(s))
         /\ EverArmed(was, s) <=> EverArmed(was \/ Arms(Head(s)), Tail(s))
<1> DEFINE n == Len(s)
           rest == Tail(s)
           e == Head(s)
<1>1. /\ n \in Nat /\ n # 0 /\ DOMAIN s = 1 .. n /\ DOMAIN rest = 1 .. n - 1
      /\ s[1] = e /\ \A i \in 1 .. n - 1 : rest[i] = s[i + 1]
  OBVIOUS
<1> HIDE DEF n, rest, e
<1>2. /\ \A i \in 1 .. n : i # 1 => i - 1 \in 1 .. n - 1 /\ rest[i - 1] = s[i] /\ i > 1
      /\ \A i \in 1 .. n - 1 : i + 1 \in 1 .. n /\ i + 1 > 1 /\ 1 \in 1 .. n
  <2>1. \A i \in 1 .. n : i # 1 => i - 1 \in 1 .. n - 1 /\ (i - 1) + 1 = i /\ i > 1
    BY <1>1
  <2> QED BY <1>1, <2>1
<1>3. 1 \in 1 .. n
  BY <1>1
<1>4. EverArmed(was, s) <=> EverArmed(was \/ Arms(e), rest)
  BY <1>1, <1>2, <1>3 DEF EverArmed
<1>5. (\A j \in 1 .. n : ~Seals(s[j])) <=> ~Seals(e) /\ \A j \in 1 .. n - 1 : ~Seals(rest[j])
  BY <1>1, <1>2, <1>3
<1>6. (\A j \in 1 .. n : j > 1 => ~Seals(s[j])) <=> \A j \in 1 .. n - 1 : ~Seals(rest[j])
  BY <1>1, <1>2, <1>3
<1>7. ASSUME NEW i \in 1 .. n - 1
      PROVE  (\A j \in 1 .. n : j > i + 1 => ~Seals(s[j])) <=>
             (\A j \in 1 .. n - 1 : j > i => ~Seals(rest[j]))
  <2>1. ASSUME \A j \in 1 .. n : j > i + 1 => ~Seals(s[j]), NEW j \in 1 .. n - 1, j > i
        PROVE  ~Seals(rest[j])
    <3>1. j + 1 \in 1 .. n /\ j + 1 > i + 1 /\ rest[j] = s[j + 1]
      BY <1>1, <2>1
    <3> QED BY <2>1, <3>1
  <2>2. ASSUME \A j \in 1 .. n - 1 : j > i => ~Seals(rest[j]), NEW j \in 1 .. n, j > i + 1
        PROVE  ~Seals(s[j])
    <3>1. j - 1 \in 1 .. n - 1 /\ j - 1 > i /\ rest[j - 1] = s[(j - 1) + 1] /\ (j - 1) + 1 = j
      BY <1>1, <2>2
    <3> QED BY <2>2, <3>1
  <2> QED BY <2>1, <2>2
<1>8. (\E i \in 1 .. n : Arms(s[i]) /\ \A j \in 1 .. n : j > i => ~Seals(s[j])) <=>
      \/ Arms(e) /\ \A j \in 1 .. n - 1 : ~Seals(rest[j])
      \/ \E i \in 1 .. n - 1 : Arms(rest[i]) /\ \A j \in 1 .. n - 1 : j > i => ~Seals(rest[j])
  <2>1. ASSUME NEW i \in 1 .. n, Arms(s[i]), \A j \in 1 .. n : j > i => ~Seals(s[j]), i # 1
        PROVE  \E k \in 1 .. n - 1 : Arms(rest[k]) /\ \A j \in 1 .. n - 1 : j > k => ~Seals(rest[j])
    <3>1. i - 1 \in 1 .. n - 1 /\ rest[i - 1] = s[i] /\ (i - 1) + 1 = i
      BY <1>1, <1>2, <2>1
    <3>2. \A j \in 1 .. n - 1 : j > i - 1 => ~Seals(rest[j])
      BY <1>7, <2>1, <3>1
    <3> QED BY <2>1, <3>1, <3>2
  <2>2. ASSUME NEW i \in 1 .. n - 1, Arms(rest[i]), \A j \in 1 .. n - 1 : j > i => ~Seals(rest[j])
        PROVE  \E k \in 1 .. n : Arms(s[k]) /\ \A j \in 1 .. n : j > k => ~Seals(s[j])
    <3>1. i + 1 \in 1 .. n /\ rest[i] = s[i + 1]
      BY <1>1, <1>2
    <3> QED BY <1>7, <2>2, <3>1
  <2> QED BY <1>1, <1>3, <1>6, <2>1, <2>2
<1>9. EndsArmed(was, s) <=> EndsArmed(ArmedBy(was, e), rest)
  BY <1>1, <1>5, <1>8, NoSealThatArms DEF EndsArmed, ArmedBy
<1> QED BY <1>4, <1>9 DEF e, rest

(* What an emitter keeps of a scenario, calls among it, moves the clock as *)
(* the scenario does.                                                      *)
LEMMA ArmedOf ==
  ASSUME NEW U, NEW kinds, "call" \in kinds, NEW was \in BOOLEAN
  PROVE  \A s \in Seq(U) : /\ EndsArmed(was, Of(s, kinds)) <=> EndsArmed(was, s)
                           /\ EverArmed(was, Of(s, kinds)) <=> EverArmed(was, s)
<1> DEFINE P == {s \in Seq(U) : /\ EndsArmed(was, Of(s, kinds)) <=> EndsArmed(was, s)
                                /\ EverArmed(was, Of(s, kinds)) <=> EverArmed(was, s)}
<1>1. <<>> \in P
  <2>1. Of(<<>>, kinds) = <<>> /\ <<>> \in Seq(U)
    BY OfNothing
  <2> QED BY <2>1, Zenon
<1>2. ASSUME NEW s \in Seq(U), NEW e \in U, s \in P PROVE Append(s, e) \in P
  <2>1. Of(s, kinds) \in Seq(U) /\ Append(s, e) \in Seq(U)
    BY OfIsSeq
  <2>2. Of(Append(s, e), kinds) = IF e.kind \in kinds THEN Append(Of(s, kinds), e)
                                  ELSE Of(s, kinds)
    BY OfAppend
  <2>3. /\ EndsArmed(was, Append(s, e)) <=> ArmedBy(EndsArmed(was, s), e)
        /\ EverArmed(was, Append(s, e)) <=> EverArmed(was, s) \/ Arms(e)
        /\ EndsArmed(was, Append(Of(s, kinds), e)) <=> ArmedBy(EndsArmed(was, Of(s, kinds)), e)
        /\ EverArmed(was, Append(Of(s, kinds), e)) <=> EverArmed(was, Of(s, kinds)) \/ Arms(e)
    BY <2>1, ArmedAppend
  <2>4. /\ EndsArmed(was, Of(s, kinds)) <=> EndsArmed(was, s)
        /\ EverArmed(was, Of(s, kinds)) <=> EverArmed(was, s)
    BY <1>2
  <2>5. e.kind \notin kinds => ~Arms(e) /\ ~Seals(e)
    BY DEF Arms, Seals
  <2>6. /\ EndsArmed(was, Of(Append(s, e), kinds)) <=> EndsArmed(was, Append(s, e))
        /\ EverArmed(was, Of(Append(s, e), kinds)) <=> EverArmed(was, Append(s, e))
    <3>1. CASE e.kind \in kinds
      BY <2>2, <2>3, <2>4, <3>1 DEF ArmedBy
    <3>2. CASE e.kind \notin kinds
      BY <2>2, <2>3, <2>4, <2>5, <3>2 DEF ArmedBy
    <3> QED BY <3>1, <3>2
  <2> QED BY <2>1, <2>6
<1>3. \A s \in Seq(U) : s \in P
  <2> HIDE DEF P
  <2> QED BY <1>1, <1>2, SeqInduction
<1> QED BY <1>3

-----------------------------------------------------------------------------
(* The builder: what it says of the clock is what its steps leave, however *)
(* they came to be called.                                                 *)
Known(st) == st.kind \in {"call", "refuse"} => st.func \in D!Entrypoints

KnownSteps(steps) == \E U : steps \in Seq(U) /\ \A st \in U : Known(st)

Builder(s) ==
  /\ {"steps", "armed", "ever"} \subseteq DOMAIN s
  /\ KnownSteps(s.steps)
  /\ s.armed \in BOOLEAN /\ s.ever \in BOOLEAN
  /\ s.armed <=> EndsArmed(FALSE, s.steps)
  /\ s.ever <=> EverArmed(FALSE, s.steps)

LEMMA KnownAppend ==
  ASSUME NEW steps, KnownSteps(steps), NEW st, Known(st)
  PROVE  KnownSteps(Append(steps, st))
<1>1. PICK U : steps \in Seq(U) /\ \A x \in U : Known(x)
  BY DEF KnownSteps
<1>2. Append(steps, st) \in Seq(U \cup {st}) /\ \A x \in U \cup {st} : Known(x)
  BY <1>1
<1> QED BY <1>2 DEF KnownSteps

LEMMA ClockAppend ==
  ASSUME NEW steps, KnownSteps(steps), NEW st, NEW was \in BOOLEAN
  PROVE  /\ EndsArmed(was, Append(steps, st)) <=> ArmedBy(EndsArmed(was, steps), st)
         /\ EverArmed(was, Append(steps, st)) <=> EverArmed(was, steps) \/ Arms(st)
<1>1. PICK U : steps \in Seq(U)
  BY DEF KnownSteps
<1>2. steps \in Seq(U \cup {st})
  BY <1>1
<1> QED BY <1>2, ArmedAppend

(* A step is appended and the builder's two notes follow it.               *)
LEMMA StepTaken ==
  ASSUME NEW s, Builder(s), NEW st, Known(st), NEW t,
         DOMAIN t = DOMAIN s, t.steps = Append(s.steps, st),
         t.armed = ArmedBy(s.armed, st), t.ever = (s.ever \/ Arms(st))
  PROVE  Builder(t)
<1>1. KnownSteps(t.steps)
  BY KnownAppend DEF Builder
<1>2. /\ EndsArmed(FALSE, t.steps) <=> ArmedBy(EndsArmed(FALSE, s.steps), st)
      /\ EverArmed(FALSE, t.steps) <=> EverArmed(FALSE, s.steps) \/ Arms(st)
  <2>1. KnownSteps(s.steps) /\ FALSE \in BOOLEAN
    BY DEF Builder
  <2>2. /\ EndsArmed(FALSE, Append(s.steps, st)) <=> ArmedBy(EndsArmed(FALSE, s.steps), st)
        /\ EverArmed(FALSE, Append(s.steps, st)) <=> EverArmed(FALSE, s.steps) \/ Arms(st)
    BY <2>1, ClockAppend, Zenon
  <2> QED BY <2>2, Zenon
<1>3. t.armed \in BOOLEAN /\ t.ever \in BOOLEAN
  BY DEF Builder, ArmedBy, Arms, Seals
<1>4. /\ t.armed <=> EndsArmed(FALSE, t.steps)
      /\ t.ever <=> EverArmed(FALSE, t.steps)
  BY <1>2 DEF Builder, ArmedBy
<1> QED BY <1>1, <1>3, <1>4 DEF Builder

LEMMA NoStepTaken ==
  ASSUME NEW s, Builder(s), NEW t, DOMAIN t = DOMAIN s,
         t.steps = s.steps, t.armed = s.armed, t.ever = s.ever
  PROVE  Builder(t)
  BY DEF Builder

LEMMA EmptyBuilder == Builder(Empty)
<1>1. Empty.steps = <<>> /\ Empty.armed = FALSE /\ Empty.ever = FALSE
      /\ {"steps", "armed", "ever"} \subseteq DOMAIN Empty
  BY DEF Empty
<1>2. KnownSteps(<<>>)
  <2> DEFINE U == {}
  <2>1. <<>> \in Seq(U) /\ \A st \in U : Known(st)
    OBVIOUS
  <2> HIDE DEF U
  <2> QED BY <2>1 DEF KnownSteps
<1>3. ~EndsArmed(FALSE, <<>>) /\ ~EverArmed(FALSE, <<>>)
  BY ArmedOfNothing
<1> QED BY <1>1, <1>2, <1>3 DEF Builder

LEMMA RaiseBuilds == ASSUME NEW s, Builder(s) PROVE Builder(Raise(s))
<1> DEFINE t == Raise(s)
<1>1. DOMAIN t = DOMAIN s /\ t.steps = s.steps /\ t.armed = s.armed /\ t.ever = s.ever
  BY DEF Raise, Builder
<1> HIDE DEF t
<1>2. Builder(t)
  BY <1>1, NoStepTaken
<1> QED BY <1>2 DEF t

(* A step that neither arms nor seals.                                     *)
LEMMA AddBuilds ==
  ASSUME NEW s, Builder(s), NEW st, Known(st), ~Arms(st), ~Seals(st)
  PROVE  Builder(AddStep(s, st))
<1> DEFINE t == AddStep(s, st)
<1>1. DOMAIN t = DOMAIN s /\ t.steps = Append(s.steps, st) /\ t.armed = s.armed /\ t.ever = s.ever
  BY DEF AddStep, Builder
<1>2. s.armed = ArmedBy(s.armed, st) /\ s.ever = (s.ever \/ Arms(st))
  BY DEF Builder, ArmedBy
<1> HIDE DEF t
<1>3. Builder(t)
  BY <1>1, <1>2, StepTaken
<1> QED BY <1>3 DEF t

ClockCalls == {"EnableTestClock", "EnableTestClockAt", "SealTestClock"}

LEMMA PayBuilds ==
  ASSUME NEW s, Builder(s), NEW who, NEW func \in D!Entrypoints \ ClockCalls, NEW args, NEW send
  PROVE  Builder(Pay(s, who, func, args, send))
<1> DEFINE st == CallStep("call", who, func, args, send)
<1>1. st.kind = "call" /\ st.func = func
  BY DEF CallStep
<1> HIDE DEF st
<1>2. Known(st) /\ ~Arms(st) /\ ~Seals(st)
  BY <1>1 DEF Known, Arms, Seals, ClockCalls
<1>3. Builder(AddStep(s, st))
  BY <1>2, AddBuilds
<1> QED BY <1>3 DEF Pay, st

LEMMA CallBuilds ==
  ASSUME NEW s, Builder(s), NEW who, NEW func \in D!Entrypoints \ ClockCalls, NEW args
  PROVE  Builder(Call(s, who, func, args))
  BY PayBuilds DEF Call

(* The escape hatch arms, seals or does neither; arm_clock and seal_clock  *)
(* do what it does.                                                        *)
LEMMA CallAnyBuilds ==
  ASSUME NEW s, Builder(s), NEW who, NEW func \in D!Entrypoints, NEW args, NEW send
  PROVE  Builder(CallAny(s, who, func, args, send))
<1> DEFINE st == CallStep("call", who, func, args, send)
           t  == CallAny(s, who, func, args, send)
<1>1. st.kind = "call" /\ st.func = func
  BY DEF CallStep
<1>2. CASE func \in {"EnableTestClock", "EnableTestClockAt"}
  <2>1. t = AddStep(Armed(s), st)
    BY <1>2 DEF CallAny, Pay
  <2>2. /\ DOMAIN t = DOMAIN s /\ t.steps = Append(s.steps, st)
        /\ t.armed = TRUE /\ t.ever = TRUE
    BY <2>1 DEF AddStep, Armed, Builder
  <2> HIDE DEF st, t
  <2>3. Known(st) /\ Arms(st)
    BY <1>1, <1>2 DEF Known, Arms
  <2>4. t.armed = ArmedBy(s.armed, st) /\ t.ever = (s.ever \/ Arms(st))
    BY <2>2, <2>3 DEF ArmedBy
  <2>5. Builder(t)
    BY <2>2, <2>3, <2>4, StepTaken
  <2> QED BY <2>5 DEF t
<1>3. CASE func = "SealTestClock"
  <2>1. t = AddStep([s EXCEPT !.armed = FALSE], st)
    BY <1>3 DEF CallAny, Pay
  <2>2. /\ DOMAIN t = DOMAIN s /\ t.steps = Append(s.steps, st)
        /\ t.armed = FALSE /\ t.ever = s.ever
    BY <2>1 DEF AddStep, Builder
  <2> HIDE DEF st, t
  <2>3. Known(st) /\ Seals(st) /\ ~Arms(st)
    BY <1>1, <1>3 DEF Known, Arms, Seals
  <2>4. t.armed = ArmedBy(s.armed, st) /\ t.ever = (s.ever \/ Arms(st))
    BY <2>2, <2>3 DEF ArmedBy, Builder
  <2>5. Builder(t)
    BY <2>2, <2>3, <2>4, StepTaken
  <2> QED BY <2>5 DEF t
<1>4. CASE func \notin ClockCalls
  <2>1. t = Pay(s, who, func, args, send)
    BY <1>4 DEF CallAny, ClockCalls
  <2> HIDE DEF t
  <2>2. Builder(t)
    BY <1>4, <2>1, PayBuilds
  <2> QED BY <2>2 DEF t
<1> QED BY <1>2, <1>3, <1>4 DEF ClockCalls

LEMMA ArmClockBuilds ==
  ASSUME NEW s, Builder(s), NEW at PROVE Builder(ArmClock(s, at))
<1> DEFINE st == CallStep("call", DEPLOYER, "EnableTestClockAt", <<at>>, 0)
           t  == ArmClock(s, at)
<1>1. /\ DOMAIN t = DOMAIN s /\ t.steps = Append(s.steps, st)
      /\ t.armed = TRUE /\ t.ever = TRUE
  BY DEF ArmClock, Armed, Call, Pay, AddStep, Builder
<1>2. Known(st) /\ Arms(st)
  BY DEF Known, Arms, CallStep, D!Entrypoints
<1> HIDE DEF st, t
<1>3. t.armed = ArmedBy(s.armed, st) /\ t.ever = (s.ever \/ Arms(st))
  BY <1>1, <1>2 DEF ArmedBy
<1>4. Builder(t)
  BY <1>1, <1>2, <1>3, StepTaken
<1> QED BY <1>4 DEF t

LEMMA SealClockBuilds ==
  ASSUME NEW s, Builder(s) PROVE Builder(SealClock(s))
<1> DEFINE st == CallStep("call", DEPLOYER, "SealTestClock", <<>>, 0)
           t  == SealClock(s)
<1>1. /\ DOMAIN t = DOMAIN s /\ t.steps = Append(s.steps, st)
      /\ t.armed = FALSE /\ t.ever = s.ever
  BY DEF SealClock, Call, Pay, AddStep, Builder
<1>2. Known(st) /\ Seals(st) /\ ~Arms(st)
  BY DEF Known, Arms, Seals, CallStep, D!Entrypoints
<1> HIDE DEF st, t
<1>3. t.armed = ArmedBy(s.armed, st) /\ t.ever = (s.ever \/ Arms(st))
  BY <1>1, <1>2 DEF ArmedBy, Builder
<1>4. Builder(t)
  BY <1>1, <1>2, <1>3, StepTaken
<1> QED BY <1>4 DEF t

LEMMA AdvanceBuilds ==
  ASSUME NEW s, Builder(s), NEW secs PROVE Builder(Advance(s, secs))
<1> DEFINE paid == Call(s, DEPLOYER, "AdvanceTestClock", <<secs>>)
           t    == [paid EXCEPT !.advanced = @ + secs]
<1>1. "AdvanceTestClock" \in D!Entrypoints \ ClockCalls
  BY DEF D!Entrypoints, ClockCalls
<1>2. Builder(paid)
  BY <1>1, CallBuilds
<1> HIDE DEF paid
<1>3. DOMAIN t = DOMAIN paid /\ t.steps = paid.steps /\ t.armed = paid.armed /\ t.ever = paid.ever
  BY <1>2 DEF Builder
<1> HIDE DEF t
<1>4. Builder(t)
  BY <1>2, <1>3, NoStepTaken
<1> QED BY <1>4, RaiseBuilds DEF Advance, paid, t

LEMMA AdvanceHeightBuilds ==
  ASSUME NEW s, Builder(s), NEW blocks, NEW withTime
  PROVE  Builder(AdvanceHeight(s, blocks, withTime))
<1> DEFINE paid == Call(s, DEPLOYER, "AdvanceTestHeight", <<blocks>>)
           t    == [paid EXCEPT !.height = @ + blocks]
<1>1. "AdvanceTestHeight" \in D!Entrypoints \ ClockCalls
  BY DEF D!Entrypoints, ClockCalls
<1>2. Builder(paid)
  BY <1>1, CallBuilds
<1> HIDE DEF paid
<1>3. DOMAIN t = DOMAIN paid /\ t.steps = paid.steps /\ t.armed = paid.armed /\ t.ever = paid.ever
  BY <1>2 DEF Builder
<1> HIDE DEF t
<1>4. Builder(t) /\ Builder(Advance(t, blocks * BLOCK_SECS))
  BY <1>2, <1>3, NoStepTaken, AdvanceBuilds
<1> QED BY <1>4, RaiseBuilds DEF AdvanceHeight, paid, t

LEMMA MineBuilds ==
  ASSUME NEW s, Builder(s), NEW blocks, NEW withTime PROVE Builder(Mine(s, blocks, withTime))
<1> DEFINE st     == [kind |-> "mine", n |-> blocks]
           mining == AddStep(s, st)
<1>1. Known(st) /\ ~Arms(st) /\ ~Seals(st)
  BY DEF Known, Arms, Seals
<1> HIDE DEF st
<1>2. Builder(mining)
  BY <1>1, AddBuilds
<1> HIDE DEF mining
<1>3. Builder(Advance(mining, blocks * BLOCK_SECS))
  BY <1>2, AdvanceBuilds
<1> QED BY <1>2, <1>3, RaiseBuilds DEF Mine, mining, st

LEMMA ExpectBuilds ==
  ASSUME NEW s, Builder(s), NEW func, NEW args, NEW re, NEW final, NEW tok
  PROVE  Builder(Expect(s, func, args, re, final, tok))
<1> DEFINE st == [kind |-> "expect", func |-> func, args |-> args, re |-> re,
                  final |-> final, tok |-> tok]
<1>1. Known(st) /\ ~Arms(st) /\ ~Seals(st)
  BY DEF Known, Arms, Seals
<1> HIDE DEF st
<1>2. Builder(AddStep(s, st))
  BY <1>1, AddBuilds
<1> QED BY <1>2, RaiseBuilds DEF Expect, st

LEMMA ExpectRefuseBuilds ==
  ASSUME NEW s, Builder(s), NEW who, NEW func \in D!Entrypoints, NEW args
  PROVE  Builder(ExpectRefuse(s, who, func, args))
<1> DEFINE st == CallStep("refuse", who, func, args, 0)
<1>1. Known(st) /\ ~Arms(st) /\ ~Seals(st)
  BY DEF Known, Arms, Seals, CallStep
<1> HIDE DEF st
<1>2. Builder(AddStep(s, st))
  BY <1>1, AddBuilds
<1> QED BY <1>2, RaiseBuilds DEF ExpectRefuse, st

LEMMA NoteBuilds == ASSUME NEW s, Builder(s), NEW tok PROVE Builder(Note(s, tok))
<1> DEFINE st == [kind |-> "note"]
<1>1. Known(st) /\ ~Arms(st) /\ ~Seals(st)
  BY DEF Known, Arms, Seals
<1> HIDE DEF st
<1>2. Builder(AddStep(s, st))
  BY <1>1, AddBuilds
<1> QED BY <1>2, RaiseBuilds DEF Note, st

LEMMA AccountBuilds ==
  ASSUME NEW s, Builder(s), NEW name, NEW gnot PROVE Builder(Account(s, name, gnot))
<1> DEFINE t == [s EXCEPT !.accounts = Append(@, [name |-> name, gnot |-> gnot])]
<1>1. DOMAIN t = DOMAIN s /\ t.steps = s.steps /\ t.armed = s.armed /\ t.ever = s.ever
  BY DEF Builder
<1> HIDE DEF t
<1>2. Builder(t)
  BY <1>1, NoStepTaken
<1> QED BY <1>2, RaiseBuilds DEF Account, t

(* Any line a file may hold.                                               *)
LEMMA ApplyBuilds ==
  ASSUME NEW s, Builder(s), NEW o, Writable(o) PROVE Builder(Apply(s, o))
<1> DEFINE Plain == D!Entrypoints \ ClockCalls
<1>1. CASE s.raised
  BY <1>1 DEF Apply
<1>2. CASE ~s.raised
  <2>1. o[1] \in Verbs
    BY DEF Writable
  <2>2. "StartCourt" \in Plain /\ "Buy" \in Plain
    BY DEF D!Entrypoints, ClockCalls
  <2>3. OpenVerb(o[4], o[5]) \in Plain
    BY DEF OpenVerb, D!Entrypoints, ClockCalls
  <2>4. \A verb \in DOMAIN Entrypoint : Entrypoint[verb] \in Plain
    BY DEF Entrypoint, D!Entrypoints, ClockCalls
  <2>5. CASE o[1] = "account"
    BY <1>2, <2>5, AccountBuilds DEF Apply
  <2>6. CASE o[1] = "arm_clock"
    BY <1>2, <2>6, ArmClockBuilds DEF Apply
  <2>7. CASE o[1] = "advance"
    BY <1>2, <2>7, AdvanceBuilds DEF Apply
  <2>8. CASE o[1] = "seal_clock"
    BY <1>2, <2>8, SealClockBuilds DEF Apply
  <2>9. CASE o[1] = "advance_height"
    BY <1>2, <2>9, AdvanceHeightBuilds DEF Apply
  <2>10. CASE o[1] = "mine"
    BY <1>2, <2>10, MineBuilds DEF Apply
  <2>11. CASE o[1] = "court"
    BY <1>2, <2>2, <2>11, CallBuilds DEF Apply
  <2>12. CASE o[1] = "buy"
    BY <1>2, <2>2, <2>12, PayBuilds DEF Apply
  <2>13. CASE o[1] = "claim"
    BY <1>2, <2>3, <2>13, CallBuilds DEF Apply
  <2>14. CASE o[1] = "call"
    <3>1. o[3] \in D!Entrypoints
      BY <2>14 DEF Writable
    <3> QED BY <1>2, <2>14, <3>1, CallAnyBuilds DEF Apply
  <2>15. CASE o[1] \in {"expect", "expect_address", "expect_pattern"}
    BY <1>2, <2>15, ExpectBuilds DEF Apply
  <2>16. CASE o[1] = "expect_refuse"
    <3>1. o[3] \in D!Entrypoints
      BY <2>16 DEF Writable
    <3> QED BY <1>2, <2>16, <3>1, ExpectRefuseBuilds DEF Apply
  <2>17. CASE o[1] = "note"
    BY <1>2, <2>17, NoteBuilds DEF Apply
  <2>18. CASE o[1] = "raise"
    BY <1>2, <2>18, RaiseBuilds DEF Apply
  <2>19. CASE o[1] \in DOMAIN Entrypoint
    <3>1. Entrypoint[o[1]] \in Plain
      BY <2>4, <2>19
    <3>2. Apply(s, o) = Call(s, o[2], Entrypoint[o[1]], Tail(Tail(o)))
      BY <1>2, <2>19 DEF Apply, Entrypoint
    <3> QED BY <3>1, <3>2, CallBuilds
  <2> QED
    BY <2>1, <2>5, <2>6, <2>7, <2>8, <2>9, <2>10, <2>11, <2>12, <2>13, <2>14, <2>15, <2>16,
       <2>17, <2>18, <2>19 DEF Verbs
<1> QED BY <1>1, <1>2

-----------------------------------------------------------------------------
(* The chain: no entrypoint moves its test clock but the three of the      *)
(* clock itself.                                                           *)
Keeps(ch, next) ==
  /\ DOMAIN next = DOMAIN ch
  /\ next.armed = ch.armed /\ next.ever = ch.ever /\ next.sealed = ch.sealed

Clocked(ch) ==
  /\ {"armed", "ever", "sealed"} \subseteq DOMAIN ch
  /\ ch.armed \in BOOLEAN /\ ch.ever \in BOOLEAN /\ ch.sealed \in BOOLEAN

LEMMA ResolveKeeps ==
  ASSUME NEW ch, {"armed", "ever", "sealed"} \subseteq DOMAIN ch, NEW cid
  PROVE  Keeps(ch, D!ResolveDispute(ch, cid).chain)
<1> DEFINE c == ch.claims[cid]
           open == [c EXCEPT !.disputer = "", !.disputed = 0, !.disputeBond = 0]
           yes == D!Cast(c, {"yes"})
           no == D!Cast(c, {"no"})
           floor == D!Lesser(c.xbar, D!Supply(ch) \div 3)
           A == yes + no < floor
           B == yes + no >= floor /\ yes > 0 /\ yes * 10000 >= 5001 * (yes + no)
           failed == [ch EXCEPT !.bal = D!Gain(@, c.disputer, c.disputeBond \div 2),
                                !.claims[cid] = [open EXCEPT !.failed = @ + 1,
                                                             !.provisional = c.answer]]
           upheld == [ch EXCEPT !.bal = D!Gain(@, c.disputer, c.disputeBond),
                                !.claims[cid] = [open EXCEPT !.bond = 0,
                                                             !.provisional = 1 - c.answer]]
           stood == [ch EXCEPT !.claims[cid] = [open EXCEPT !.provisional = c.answer]]
           guard == D!HasClaim(ch, cid) /\ c.disputer # "" /\ D!Passed(ch, c.disputed, D!VotingSecs)
<1>1. D!ResolveDispute(ch, cid) =
        D!Land(ch, guard, CASE A -> failed [] B -> upheld [] OTHER -> stood)
  BY SMTT(30) DEF D!ResolveDispute
<1>2. Keeps(ch, failed) /\ Keeps(ch, upheld) /\ Keeps(ch, stood) /\ Keeps(ch, ch)
  <2> HIDE DEF open, c
  <2> QED BY DEF Keeps
<1> HIDE DEF failed, upheld, stood, A, B, guard, c
<1>3. \/ (CASE A -> failed [] B -> upheld [] OTHER -> stood) = failed
      \/ (CASE A -> failed [] B -> upheld [] OTHER -> stood) = upheld
      \/ (CASE A -> failed [] B -> upheld [] OTHER -> stood) = stood
  OBVIOUS
<1> QED BY <1>1, <1>2, <1>3 DEF D!Land

LEMMA DispatchKeeps ==
  ASSUME NEW ch, {"armed", "ever", "sealed"} \subseteq DOMAIN ch,
         NEW who, NEW func \in D!Entrypoints \ ClockCalls, NEW a, NEW send
  PROVE  Keeps(ch, D!Dispatch(ch, who, func, a, send).chain)
<1>1. CASE func = "SetCourtCreationBurn"
  BY <1>1 DEF D!Dispatch, D!SetCourtCreationBurn, D!Land, Keeps
<1>2. CASE func = "StartCourt"
  BY <1>2 DEF D!Dispatch, D!StartCourt, D!Land, Keeps
<1>3. CASE func = "SetCourtDesc"
  BY <1>3 DEF D!Dispatch, D!SetCourtDesc, D!Land, Keeps
<1>4. CASE func = "SetSiteDomain"
  BY <1>4 DEF D!Dispatch, D!SetSiteDomain, D!Land, Keeps
<1>5. CASE func = "ClaimMetaFranchise"
  BY <1>5 DEF D!Dispatch, D!ClaimMetaFranchise, D!Land, Keeps
<1>6. CASE func = "Buy"
  BY <1>6 DEF D!Dispatch, D!Buy, D!Land, Keeps
<1>7. CASE func = "AdvanceTestClock"
  BY <1>7 DEF D!Dispatch, D!AdvanceTestClock, D!Land, Keeps
<1>8. CASE func = "AdvanceTestHeight"
  BY <1>8 DEF D!Dispatch, D!AdvanceTestHeight, D!Land, Keeps
<1>9. CASE func \in {"OpenClaim", "OpenClaimP", "OpenClaimPM"}
  BY <1>9 DEF D!Dispatch, D!OpenClaim, D!Spend, D!Land, Keeps
<1>10. CASE func = "OpenClaimIn"
  BY <1>10 DEF D!Dispatch, D!OpenClaimIn, D!OpenClaim, D!Spend, D!Land, Keeps
<1>11. CASE func = "Stake"
  BY <1>11 DEF D!Dispatch, D!Stake, D!Land, Keeps
<1>12. CASE func = "Unstake"
  BY <1>12 DEF D!Dispatch, D!Unstake, D!Land, Keeps
<1>13. CASE func = "PostAnswer"
  BY <1>13 DEF D!Dispatch, D!PostAnswer, D!Spend, D!Land, Keeps
<1>14. CASE func = "SettleUndisputed"
  BY <1>14 DEF D!Dispatch, D!SettleUndisputed, D!Land, Keeps
<1>15. CASE func = "OpenDispute"
  BY <1>15 DEF D!Dispatch, D!OpenDispute, D!Spend, D!Land, Keeps
<1>16. CASE func = "VoteDispute"
  BY <1>16 DEF D!Dispatch, D!VoteDispute, D!Land, Keeps
<1>17. CASE func = "ResolveDispute"
  <2>1. Keeps(ch, D!ResolveDispute(ch, a[1]).chain)
    BY ResolveKeeps
  <2> QED BY <1>17, <2>1 DEF D!Dispatch
<1>18. CASE func = "CloseDeadClaim"
  BY <1>18 DEF D!Dispatch, D!CloseDeadClaim, D!Land, Keeps
<1>19. CASE func = "OpenRewards"
  BY <1>19 DEF D!Dispatch, D!OpenRewards, D!Land, Keeps
<1>20. CASE func = "WithdrawBonus"
  BY <1>20 DEF D!Dispatch, D!WithdrawBonus, D!Land, Keeps
<1>21. CASE func \in {"CreateFolder", "CreateFolderIn"}
  BY <1>21 DEF D!Dispatch, D!CreateFolderIn, D!Land, Keeps
<1>22. CASE func = "MoveFolder"
  BY <1>22 DEF D!Dispatch, D!MoveFolder, D!Land, Keeps
<1>23. CASE func = "AddToFolder"
  BY <1>23 DEF D!Dispatch, D!AddToFolder, D!Land, Keeps
<1>24. CASE func = "SetFolderImage"
  BY <1>24 DEF D!Dispatch, D!SetFolderImage, D!Land, Keeps
<1>25. CASE func = "New"
  BY <1>25 DEF D!Dispatch, D!New, D!Land, Keeps
<1>26. CASE func = "HideItem"
  BY <1>26 DEF D!Dispatch, D!HideItem, D!Land, Keeps
<1>27. CASE func = "SetCourtAssociationBond"
  BY <1>27 DEF D!Dispatch, D!SetCourtAssociationBond, D!Land, Keeps
<1>28. CASE func = "AddAssociation"
  BY <1>28 DEF D!Dispatch, D!AddAssociation, D!Spend, D!Land, Keeps
<1>29. CASE func \in {"ApproveAssociation", "DisapproveAssociation"}
  BY <1>29 DEF D!Dispatch, D!JudgeAssociation, D!Approved, D!Disapproved, D!Land, Keeps
<1>30. CASE func \in {"ApproveAllAssociations", "DisapproveAllAssociations"}
  BY <1>30 DEF D!Dispatch, D!JudgeAllAssociations, D!Approved, D!Disapproved, D!Land, Keeps
<1>31. CASE func = "SupersedeClaim"
  BY <1>31 DEF D!Dispatch, D!SupersedeClaim, D!Land, Keeps
<1>32. CASE func = "BuyCommentPass"
  BY <1>32 DEF D!Dispatch, D!BuyCommentPass, D!Spend, D!Land, Keeps
<1>33. CASE func = "PostComment"
  BY <1>33 DEF D!Dispatch, D!PostComment, D!Land, Keeps
<1>34. CASE func = "UpvoteComment"
  BY <1>34 DEF D!Dispatch, D!UpvoteComment, D!Land, Keeps
<1>35. CASE func = "HideOwnComment"
  BY <1>35 DEF D!Dispatch, D!HideOwnComment, D!Land, Keeps
<1>36. CASE func = "HideBoardRow"
  BY <1>36 DEF D!Dispatch, D!HideBoardRow, D!Land, Keeps
<1> QED
  BY <1>1, <1>2, <1>3, <1>4, <1>5, <1>6, <1>7, <1>8, <1>9, <1>10, <1>11, <1>12, <1>13, <1>14, <1>15, <1>16, <1>17, <1>18, <1>19, <1>20, <1>21, <1>22, <1>23, <1>24, <1>25, <1>26, <1>27, <1>28, <1>29, <1>30, <1>31, <1>32, <1>33, <1>34, <1>35, <1>36 DEF D!Entrypoints, ClockCalls

(* One transaction that lands moves the clock as its line says, one that   *)
(* does not leaves it alone.                                               *)
LEMMA SubmitMovesClock ==
  ASSUME NEW ch, Clocked(ch), NEW st, Known(st), st.kind = "call",
         NEW who, NEW args, NEW send, NEW fee
  PROVE  LET r == D!Submit(ch, who, st.func, args, send, fee)
         IN  /\ DOMAIN r.chain = DOMAIN ch
             /\ r.ok => /\ r.chain.armed = ArmedBy(ch.armed, st)
                        /\ r.chain.ever = (ch.ever \/ Arms(st))
                        /\ r.chain.sealed = (ch.sealed \/ Seals(st))
             /\ ~r.ok => Keeps(ch, r.chain)
<1> DEFINE d == D!Dispatch(ch, who, st.func, args, send)
           r == D!Submit(ch, who, st.func, args, send, fee)
           out == [d.chain EXCEPT !.gnot = D!Gain(@, who, -(fee + (IF d.ok THEN send ELSE 0))),
                                  !.burned = @ + (IF d.ok THEN send ELSE 0)]
<1>1. \/ r = [ok |-> FALSE, chain |-> ch]
      \/ r = [ok |-> d.ok, chain |-> out]
  BY Zenon DEF D!Submit
<1> HIDE DEF r
<1>2. DOMAIN d.chain = DOMAIN ch => Keeps(d.chain, out)
  BY DEF Keeps, Clocked
<1> HIDE DEF d, out
<1>3. Clocked(ch) /\ ch.armed \in BOOLEAN /\ ch.ever \in BOOLEAN /\ ch.sealed \in BOOLEAN
  BY DEF Clocked
<1>4. /\ DOMAIN d.chain = DOMAIN ch
      /\ d.ok => /\ d.chain.armed = ArmedBy(ch.armed, st)
                 /\ d.chain.ever = (ch.ever \/ Arms(st))
                 /\ d.chain.sealed = (ch.sealed \/ Seals(st))
      /\ ~d.ok => Keeps(ch, d.chain)
  <2>1. CASE st.func \in {"EnableTestClock", "EnableTestClockAt"}
    <3> DEFINE base == IF args = <<>> THEN GenesisTime ELSE args[1]
    <3>1. d = D!EnableTestClockAt(ch, who, base)
      BY <2>1, Zenon DEF d, D!Dispatch
    <3> HIDE DEF base
    <3>2. Arms(st) /\ ~Seals(st)
      BY <2>1 DEF Arms, Seals
    <3>3. /\ DOMAIN d.chain = DOMAIN ch
          /\ d.ok => d.chain.armed = TRUE /\ d.chain.ever = TRUE /\ d.chain.sealed = ch.sealed
          /\ ~d.ok => d.chain = ch
      BY <3>1 DEF D!EnableTestClockAt, D!Land, Clocked
    <3> QED BY <1>3, <3>2, <3>3 DEF ArmedBy, Keeps
  <2>2. CASE st.func = "SealTestClock"
    <3>1. d = D!SealTestClock(ch, who)
      BY <2>2 DEF d, D!Dispatch
    <3>2. ~Arms(st) /\ Seals(st)
      BY <2>2 DEF Arms, Seals
    <3>3. /\ DOMAIN d.chain = DOMAIN ch
          /\ d.ok => d.chain.armed = FALSE /\ d.chain.sealed = TRUE /\ d.chain.ever = ch.ever
          /\ ~d.ok => d.chain = ch
      BY <3>1 DEF D!SealTestClock, D!Land, Clocked
    <3> QED BY <1>3, <3>2, <3>3 DEF ArmedBy, Keeps
  <2>3. CASE st.func \notin ClockCalls
    <3>1. st.func \in D!Entrypoints \ ClockCalls
      BY <2>3 DEF Known
    <3>2. Keeps(ch, d.chain)
      BY <3>1, DispatchKeeps DEF d, Clocked
    <3>3. ~Arms(st) /\ ~Seals(st)
      BY <2>3 DEF Arms, Seals, ClockCalls
    <3> QED BY <1>3, <3>2, <3>3 DEF ArmedBy, Keeps
  <2> QED BY <2>1, <2>2, <2>3 DEF ClockCalls
<1>5. Keeps(d.chain, out)
  BY <1>2, <1>4
<1>6. CASE r = [ok |-> FALSE, chain |-> ch]
  <2>1. r.ok = FALSE /\ r.chain = ch
    BY <1>6
  <2>2. Keeps(ch, ch)
    BY DEF Keeps
  <2> QED BY <2>1, <2>2 DEF r
<1>7. CASE r = [ok |-> d.ok, chain |-> out]
  <2>1. r.ok = d.ok /\ r.chain = out
    BY <1>7
  <2> QED BY <1>4, <1>5, <2>1 DEF r, Keeps
<1> QED BY <1>1, <1>6, <1>7

LEMMA RefusalKeeps ==
  ASSUME NEW ch, Clocked(ch), NEW st, Known(st), st.kind = "refuse",
         NEW who, NEW args, NEW send, NEW fee,
         ~D!Submit(ch, who, st.func, args, send, fee).ok
  PROVE  Keeps(ch, D!Submit(ch, who, st.func, args, send, fee).chain)
<1> DEFINE call == CallStep("call", who, st.func, args, send)
<1>1. Known(call) /\ call.kind = "call" /\ call.func = st.func
  BY DEF Known, CallStep
<1> HIDE DEF call
<1>2. ~D!Submit(ch, who, call.func, args, send, fee).ok
  BY <1>1
<1>3. Keeps(ch, D!Submit(ch, who, call.func, args, send, fee).chain)
  BY <1>1, <1>2, SubmitMovesClock
<1> QED BY <1>1, <1>3

-----------------------------------------------------------------------------
(* The broadcast, as it runs: from the chain's clock, the lines to come    *)
(* end sealed, and have armed it at all exactly when the scenario did.     *)
Carries(ch, lines, s) ==
  /\ Clocked(ch)
  /\ ch.ever /\ ~ch.armed => ch.sealed
  /\ KnownSteps(lines)
  /\ ~EndsArmed(ch.armed, lines)
  /\ EverArmed(ch.ever, lines) <=> s.ever

TellsClock(ch, s) ==
  /\ Clocked(ch)
  /\ ~ch.armed
  /\ ch.ever <=> s.ever
  /\ ch.ever => ch.sealed

LEMMA EmptyKnown == KnownSteps(<<>>)
<1> DEFINE U == {}
<1>1. <<>> \in Seq(U) /\ \A st \in U : Known(st)
  OBVIOUS
<1> HIDE DEF U
<1> QED BY <1>1 DEF KnownSteps

LEMMA HeadKnown ==
  ASSUME NEW lines, KnownSteps(lines), lines # <<>>
  PROVE  KnownSteps(Tail(lines)) /\ Known(Head(lines))
<1>1. PICK U : lines \in Seq(U) /\ \A x \in U : Known(x)
  BY DEF KnownSteps
<1>2. Tail(lines) \in Seq(U) /\ Head(lines) \in U
  BY <1>1
<1> QED BY <1>1, <1>2 DEF KnownSteps

(* A line is carried over to the chain that ran it.                        *)
LEMMA LineCarried ==
  ASSUME NEW ch, NEW lines, NEW s, Carries(ch, lines, s), lines # <<>>,
         NEW next, Clocked(next),
         next.armed = ArmedBy(ch.armed, Head(lines)),
         next.ever = (ch.ever \/ Arms(Head(lines))),
         next.sealed = (ch.sealed \/ Seals(Head(lines)))
  PROVE  Carries(next, Tail(lines), s)
<1> DEFINE e == Head(lines)
           rest == Tail(lines)
<1>1. PICK U : lines \in Seq(U)
  BY DEF Carries, KnownSteps
<1>2. ch.armed \in BOOLEAN /\ ch.ever \in BOOLEAN
  BY DEF Carries, Clocked
<1>3. /\ EndsArmed(ch.armed, lines) <=> EndsArmed(ArmedBy(ch.armed, e), rest)
      /\ EverArmed(ch.ever, lines) <=> EverArmed(ch.ever \/ Arms(e), rest)
  BY <1>1, <1>2, ArmedHead
<1>4. KnownSteps(rest)
  BY HeadKnown DEF Carries
<1> HIDE DEF e, rest
<1>5. EndsArmed(next.armed, rest) <=> EndsArmed(ch.armed, lines)
  BY <1>3 DEF e
<1>6. EverArmed(next.ever, rest) <=> EverArmed(ch.ever, lines)
  BY <1>3 DEF e
<1>7. next.ever /\ ~next.armed => next.sealed
  BY DEF Carries, ArmedBy
<1>8. Carries(next, rest, s)
  BY <1>4, <1>5, <1>6, <1>7 DEF Carries
<1> QED BY <1>8 DEF rest

(* A line that is no call runs on a chain whose clock it leaves alone.     *)
LEMMA QuietCarried ==
  ASSUME NEW ch, NEW lines, NEW s, Carries(ch, lines, s), lines # <<>>,
         Head(lines).kind # "call", NEW next, Keeps(ch, next)
  PROVE  Carries(next, Tail(lines), s)
<1>1. ~Arms(Head(lines)) /\ ~Seals(Head(lines))
  BY DEF Arms, Seals
<1>2. Clocked(next) /\ ch.armed \in BOOLEAN /\ ch.ever \in BOOLEAN /\ ch.sealed \in BOOLEAN
  BY DEF Carries, Clocked, Keeps
<1>3. /\ next.armed = ArmedBy(ch.armed, Head(lines))
      /\ next.ever = (ch.ever \/ Arms(Head(lines)))
      /\ next.sealed = (ch.sealed \/ Seals(Head(lines)))
  BY <1>1, <1>2 DEF Keeps, ArmedBy
<1> QED BY <1>2, <1>3, LineCarried

LEMMA CarriedToTheEnd ==
  ASSUME NEW ch, NEW s, Carries(ch, <<>>, s) PROVE TellsClock(ch, s)
<1>1. ch.armed \in BOOLEAN /\ ch.ever \in BOOLEAN
  BY DEF Carries, Clocked
<1>2. (EndsArmed(ch.armed, <<>>) <=> ch.armed) /\ (EverArmed(ch.ever, <<>>) <=> ch.ever)
  BY <1>1, ArmedOfNothing
<1> QED BY <1>1, <1>2 DEF Carries, TellsClock

(* What the plan emits carries a chain nobody has used to the end: its own *)
(* seal follows when the scenario leaves the clock armed.                  *)
LEMMA PlanCarries ==
  ASSUME NEW s, Builder(s), NEW p
  PROVE  Carries(Funded(p, s), EmitPlan(s).lines, s)
<1> DEFINE kinds == {"call", "expect", "mine"}
           kept  == Of(s.steps, kinds)
           lines == kept \o Sealing(s)
           ch    == Funded(p, s)
<1>1. PICK U : s.steps \in Seq(U) /\ \A st \in U : Known(st)
  BY DEF Builder, KnownSteps
<1>2. kept \in Seq(U)
  BY <1>1, OfIsSeq
<1>3. /\ EndsArmed(FALSE, kept) <=> s.armed
      /\ EverArmed(FALSE, kept) <=> s.ever
  <2>1. "call" \in kinds /\ FALSE \in BOOLEAN
    OBVIOUS
  <2> HIDE DEF kinds
  <2>2. /\ EndsArmed(FALSE, kept) <=> EndsArmed(FALSE, s.steps)
        /\ EverArmed(FALSE, kept) <=> EverArmed(FALSE, s.steps)
    BY <1>1, <2>1, ArmedOf
  <2> QED BY <2>2 DEF Builder
<1>4. EmitPlan(s).lines = lines
  BY DEF EmitPlan, Keep, Text
<1>5. /\ Clocked(ch) /\ ch.armed = FALSE /\ ch.ever = FALSE
  BY DEF Funded, D!Pristine, Clocked
<1> HIDE DEF kept, ch
<1>6. KnownSteps(kept)
  BY <1>1, <1>2 DEF KnownSteps
<1>7. CASE s.armed
  <2>1. Known(Seal) /\ Seals(Seal) /\ ~Arms(Seal)
    BY DEF Known, Seals, Arms, Seal, CallStep, D!Entrypoints
  <2>2. lines = Append(kept, Seal)
    BY <1>2, <1>7 DEF Sealing
  <2> HIDE DEF lines
  <2>3. KnownSteps(lines)
    BY <1>6, <2>1, <2>2, KnownAppend
  <2>4. /\ EndsArmed(FALSE, lines) <=> ArmedBy(EndsArmed(FALSE, kept), Seal)
        /\ EverArmed(FALSE, lines) <=> EverArmed(FALSE, kept) \/ Arms(Seal)
    BY <1>6, <2>2, ClockAppend, FALSE \in BOOLEAN
  <2>5. ~EndsArmed(FALSE, lines) /\ (EverArmed(FALSE, lines) <=> s.ever)
    BY <1>3, <2>1, <2>4 DEF ArmedBy
  <2>6. ~EndsArmed(ch.armed, lines) /\ (EverArmed(ch.ever, lines) <=> s.ever)
    BY <1>5, <2>5
  <2>7. ch.ever /\ ~ch.armed => ch.sealed
    BY <1>5
  <2> QED BY <1>4, <1>5, <2>3, <2>6, <2>7 DEF Carries, ch
<1>8. CASE ~s.armed
  <2>1. lines = kept
    BY <1>2, <1>8 DEF Sealing
  <2> HIDE DEF lines
  <2>2. ~EndsArmed(ch.armed, lines) /\ (EverArmed(ch.ever, lines) <=> s.ever)
    BY <1>3, <1>5, <1>8, <2>1
  <2>3. ch.ever /\ ~ch.armed => ch.sealed
    BY <1>5
  <2> QED BY <1>4, <1>5, <1>6, <2>1, <2>2, <2>3 DEF Carries, ch
<1> QED BY <1>7, <1>8

(* A scenario that left the clock armed has armed it.                      *)
LEMMA ArmedWasEverArmed == ASSUME NEW s, Builder(s), s.armed PROVE s.ever
  BY DEF Builder, EndsArmed, EverArmed

-----------------------------------------------------------------------------
(* The inductive invariant.                                                *)
Run ==
  /\ path \in 0 .. 3
  /\ phase \in {"writing", "ready", "seeding", "checking"}
  /\ phase \in {"seeding", "checking"} => path \in 1 .. 3
  /\ phase = "checking" => path = 3
  /\ DOMAIN outcome = {"txtar", "plan", "genesis"}
  /\ DOMAIN served = {"plan", "genesis"}

Writing ==
  /\ \E U : file \in Seq(U) /\ \A o \in U : Writable(o)
  /\ Builder(scn)
  /\ phase = "writing" => ~Landed("plan")

Broadcast == path = 2 /\ phase = "seeding" => Carries(chain, todo, scn)

Handed == Landed("plan") => TellsClock(served["plan"], scn)

SInv == Run /\ Writing /\ Broadcast /\ Handed

LEMMA InitHolds == Init => SInv
<1> SUFFICES ASSUME Init PROVE SInv
  OBVIOUS
<1>1. Run
  <2>1. path = 0 /\ phase = "writing"
    BY DEF Init
  <2>2. DOMAIN outcome = {"txtar", "plan", "genesis"} /\ DOMAIN served = {"plan", "genesis"}
    BY DEF Init
  <2> QED BY <2>1, <2>2 DEF Run
<1>2. ~Landed("plan")
  BY DEF Init, Landed, NotRun
<1>3. \E U : file \in Seq(U) /\ \A o \in U : Writable(o)
  <2>1. CASE story = "written"
    <3> DEFINE U == {}
    <3>1. file \in Seq(U) /\ \A o \in U : Writable(o)
      BY <2>1 DEF Init
    <3> HIDE DEF U
    <3> QED BY <3>1
  <2>2. CASE story # "written"
    <3> DEFINE U == {line \in ToSet(Program[story]) : Writable(line)}
    <3>1. file = Program[story] /\ story \in Told \ {"written"}
      BY <2>2 DEF Init
    <3>2. file \in Seq(U)
      BY <3>1, ProgramAssumption
    <3>3. \A o \in U : Writable(o)
      OBVIOUS
    <3> HIDE DEF U
    <3> QED BY <3>2, <3>3
  <2> QED BY <2>1, <2>2
<1>4. Builder(scn)
  BY EmptyBuilder DEF Init
<1>5. Broadcast
  BY DEF Init, Broadcast
<1> QED BY <1>1, <1>2, <1>3, <1>4, <1>5 DEF SInv, Writing, Handed

(* Before a back end ends, and after.                                      *)
LEMMA EndedRuns ==
  ASSUME SInv, NEW how, Ended(how), path \in 1 .. 3, UNCHANGED <<file, scn, path>>,
         DOMAIN served' = {"plan", "genesis"},
         path = 2 /\ how = "landed" => TellsClock(served'["plan"], scn),
         path # 2 => served'["plan"] = served["plan"],
         path = 2 => how # "landed" \/ phase = "seeding"
  PROVE  SInv'
<1>1. phase' = "ready" /\ outcome' = [outcome EXCEPT ![Paths[path]] = how]
  BY DEF Ended
<1>2. Run'
  BY <1>1 DEF SInv, Run
<1>3. Writing'
  BY <1>1 DEF SInv, Writing
<1>4. Broadcast'
  BY <1>1 DEF Broadcast
<1>5. Handed'
  <2>1. CASE path = 2
    <3>1. outcome'["plan"] = how
      BY <1>1, <2>1 DEF Paths, SInv, Run
    <3> QED BY <2>1, <3>1 DEF Handed, Landed
  <2>2. CASE path # 2
    <3>1. Paths[path] # "plan"
      BY <2>2 DEF Paths
    <3>2. outcome'["plan"] = outcome["plan"]
      BY <1>1, <3>1 DEF SInv, Run
    <3> QED BY <2>2, <3>2 DEF Handed, Landed, SInv
  <2> QED BY <2>1, <2>2
<1> QED BY <1>2, <1>3, <1>4, <1>5 DEF SInv

LEMMA FailedKeeps ==
  ASSUME SInv, NEW how, how # "landed", Ended(how), path \in 1 .. 3,
         UNCHANGED <<file, scn, path, served>>
  PROVE  SInv'
  BY EndedRuns DEF SInv, Run

(* A line done: the back end goes on to the next.                          *)
LEMMA LineDone ==
  ASSUME SInv, UNCHANGED <<file, scn, path, phase, outcome, served>>,
         path = 2 /\ phase = "seeding" => Carries(chain', todo', scn)
  PROVE  SInv'
<1>1. Run' /\ Writing'
  BY DEF SInv, Run, Writing, Landed
<1>2. Broadcast' /\ Handed'
  BY DEF SInv, Broadcast, Handed, Landed
<1> QED BY <1>1, <1>2 DEF SInv

LEMMA SInvKept == SInv /\ [Next]_vars => SInv'
<1> SUFFICES ASSUME SInv, [Next]_vars PROVE SInv'
  OBVIOUS
<1>0. /\ path \in 0 .. 3
      /\ phase \in {"seeding", "checking"} => path \in 1 .. 3
      /\ Builder(scn)
  BY DEF SInv, Run, Writing
<1>1. CASE Tell
  <2>1. PICK U : file \in Seq(U) /\ \A o \in U : Writable(o)
    BY DEF SInv, Writing
  <2>2. file # <<>> /\ file' = Tail(file) /\ scn' = Apply(scn, Head(file))
    BY <1>1 DEF Tell
  <2>3. Head(file) \in U /\ file' \in Seq(U)
    BY <2>1, <2>2
  <2>4. Builder(scn')
    BY <1>0, <2>1, <2>2, <2>3, ApplyBuilds
  <2>5. /\ phase = "writing" /\ UNCHANGED <<phase, path, todo, chain, outcome, served>>
    BY <1>1 DEF Tell
  <2>6. Writing'
    BY <2>1, <2>3, <2>4, <2>5 DEF SInv, Writing, Landed
  <2>7. Run' /\ Broadcast' /\ Handed'
    BY <2>5 DEF SInv, Run, Writing, Broadcast, Handed, Landed
  <2> QED BY <2>6, <2>7 DEF SInv
<1>2. CASE Write
  <2>1. PICK line \in ToSet(Alphabet) : scn' = Apply(scn, line)
    BY <1>2 DEF Write
  <2>2. Builder(scn')
    BY <1>0, <2>1, ProgramAssumption, ApplyBuilds
  <2>3. phase = "writing" /\ UNCHANGED <<file, phase, path, todo, chain, outcome, served>>
    BY <1>2 DEF Write
  <2>4. Writing'
    BY <2>2, <2>3 DEF SInv, Writing, Landed
  <2>5. Run' /\ Broadcast' /\ Handed'
    BY <2>3 DEF SInv, Run, Writing, Broadcast, Handed, Landed
  <2> QED BY <2>4, <2>5 DEF SInv
<1>3. CASE Save
  <2>1. phase' = "ready" /\ UNCHANGED <<file, scn, path, outcome, served>>
    BY <1>3 DEF Save
  <2>2. Run' /\ Writing' /\ Broadcast' /\ Handed'
    BY <2>1 DEF SInv, Run, Writing, Broadcast, Handed, Landed
  <2> QED BY <2>2 DEF SInv
<1>4. CASE Launch
  <2> DEFINE p    == Paths[path + 1]
             text == Emitted(Kind(p), scn, CI[story], Names(scn))
  <2>1. /\ phase = "ready" /\ path + 1 \in 1 .. 3 /\ path' = path + 1 /\ path' \in 1 .. 3
        /\ UNCHANGED <<file, scn, served>>
    BY <1>0, <1>4 DEF Launch, Paths
  <2>2. CASE text.ok
    <3>1. /\ phase' = "seeding" /\ todo' = text.lines /\ chain' = Funded(p, scn)
          /\ UNCHANGED outcome
      BY <1>4, <2>2 DEF Launch
    <3>2. ASSUME path' = 2 PROVE Carries(chain', todo', scn')
      <4>1. p = "plan" /\ Kind(p) = "plan"
        BY <1>0, <2>1, <3>2 DEF Paths, Kind
      <4>2. text = Refusal \/ text = EmitPlan(scn)
        BY <4>1 DEF Emitted
      <4>3. text = EmitPlan(scn)
        BY <2>2, <4>2 DEF Refusal
      <4> HIDE DEF text, p
      <4> QED BY <1>0, <2>1, <3>1, <4>3, PlanCarries
    <3> HIDE DEF text, p
    <3>3. Run' /\ Writing' /\ Handed'
      BY <2>1, <3>1 DEF SInv, Run, Writing, Handed, Landed
    <3>4. Broadcast'
      BY <3>2 DEF Broadcast
    <3> QED BY <3>3, <3>4 DEF SInv
  <2>3. CASE ~text.ok
    <3>1. outcome' = [outcome EXCEPT ![p] = "refused"] /\ UNCHANGED <<phase, todo, chain>>
      BY <1>4, <2>3 DEF Launch
    <3> HIDE DEF text, p
    <3>2. Run'
      BY <2>1, <3>1 DEF SInv, Run
    <3>3. outcome'["plan"] \in {"refused", outcome["plan"]}
      BY <3>1 DEF SInv, Run
    <3>4. Landed("plan")' => Landed("plan")
      BY <3>3 DEF Landed
    <3>5. Writing' /\ Broadcast' /\ Handed'
      BY <2>1, <3>1, <3>4 DEF SInv, Writing, Broadcast, Handed
    <3> QED BY <3>2, <3>5 DEF SInv
  <2> QED BY <2>2, <2>3
<1>5. CASE Transact
  <2> DEFINE line == Head(todo)
             r    == Sent(line)
  <2>1. /\ phase = "seeding" /\ todo # <<>> /\ line.kind = "call"
        /\ UNCHANGED <<file, scn, path, served>>
    BY <1>5 DEF Transact, Here
  <2>2. path \in 1 .. 3
    BY <1>0, <2>1
  <2>3. CASE r.ok \/ Paths[path] = "genesis"
    <3>1. chain' = InBlocks(r.chain) /\ todo' = Tail(todo) /\ UNCHANGED <<phase, outcome>>
      BY <1>5, <2>3 DEF Transact
    <3>2. ASSUME path = 2 PROVE Carries(chain', todo', scn)
      <4>1. Paths[path] = "plan" /\ r.ok
        BY <2>3, <3>2 DEF Paths
      <4>2. Carries(chain, todo, scn)
        BY <2>1, <3>2 DEF SInv, Broadcast
      <4>3. Clocked(chain) /\ Known(line)
        BY <2>1, <4>2, HeadKnown DEF Carries
      <4>4. r = D!Submit(chain, Who(line), line.func, line.args, line.send, GAS_FEE)
        BY DEF Sent
      <4> HIDE DEF r, line
      <4>5. /\ DOMAIN r.chain = DOMAIN chain
            /\ r.chain.armed = ArmedBy(chain.armed, line)
            /\ r.chain.ever = (chain.ever \/ Arms(line))
            /\ r.chain.sealed = (chain.sealed \/ Seals(line))
        BY <2>1, <4>1, <4>3, <4>4, SubmitMovesClock
      <4>6. Keeps(r.chain, chain')
        BY <3>1, <4>1, <4>3, <4>5 DEF InBlocks, Keeps, Clocked
      <4>7. Clocked(chain')
        BY <4>3, <4>5, <4>6 DEF Clocked, Keeps, ArmedBy, Arms, Seals
      <4>8. /\ chain'.armed = ArmedBy(chain.armed, Head(todo))
            /\ chain'.ever = (chain.ever \/ Arms(Head(todo)))
            /\ chain'.sealed = (chain.sealed \/ Seals(Head(todo)))
        BY <4>5, <4>6 DEF Keeps, line
      <4> QED BY <2>1, <3>1, <4>2, <4>7, <4>8, LineCarried
    <3> QED BY <2>1, <3>1, <3>2, LineDone
  <2>4. CASE ~(r.ok \/ Paths[path] = "genesis")
    <3>1. Ended("failed")
      BY <1>5, <2>4 DEF Transact
    <3> QED BY <2>1, <2>2, <3>1, FailedKeeps
  <2> QED BY <2>3, <2>4
<1>6. CASE BeRefused
  <2> DEFINE line == Head(todo)
             r    == Sent(line)
  <2>1. /\ phase = "seeding" /\ todo # <<>> /\ line.kind = "refuse"
        /\ UNCHANGED <<file, scn, path, served>>
    BY <1>6 DEF BeRefused, Here
  <2>2. path \in 1 .. 3
    BY <1>0, <2>1
  <2>3. CASE r.ok
    <3>1. Ended("failed")
      BY <1>6, <2>3 DEF BeRefused
    <3> QED BY <2>1, <2>2, <3>1, FailedKeeps
  <2>4. CASE ~r.ok
    <3>1. chain' = InBlocks(r.chain) /\ todo' = Tail(todo) /\ UNCHANGED <<phase, outcome>>
      BY <1>6, <2>4 DEF BeRefused
    <3>2. ASSUME path = 2 PROVE Carries(chain', todo', scn)
      <4>1. Carries(chain, todo, scn)
        BY <2>1, <3>2 DEF SInv, Broadcast
      <4>2. Clocked(chain) /\ Known(line)
        BY <2>1, <4>1, HeadKnown DEF Carries
      <4>3. Keeps(chain, r.chain)
        BY <2>1, <2>4, <4>2, RefusalKeeps DEF Sent
      <4> HIDE DEF r, line
      <4>4. Keeps(chain, chain')
        BY <3>1, <4>2, <4>3 DEF InBlocks, Keeps, Clocked
      <4> QED BY <2>1, <3>1, <4>1, <4>4, QuietCarried DEF line
    <3> QED BY <2>1, <3>1, <3>2, LineDone
  <2> QED BY <2>3, <2>4
<1>7. CASE Answer
  <2>1. /\ phase \in {"seeding", "checking"} /\ todo # <<>> /\ Head(todo).kind = "expect"
        /\ UNCHANGED <<file, scn, path, served>>
    BY <1>7 DEF Answer, Here
  <2>2. \/ todo' = Tail(todo) /\ UNCHANGED <<phase, chain, outcome>>
        \/ Ended("failed")
    BY <1>7 DEF Answer
  <2>3. CASE todo' = Tail(todo) /\ UNCHANGED <<phase, chain, outcome>>
    <3>1. ASSUME path = 2, phase = "seeding" PROVE Carries(chain', todo', scn)
      <4>1. Carries(chain, todo, scn)
        BY <3>1 DEF SInv, Broadcast
      <4>2. Keeps(chain, chain')
        BY <2>3 DEF Keeps
      <4> QED BY <2>1, <2>3, <4>1, <4>2, QuietCarried
    <3> QED BY <2>1, <2>3, <3>1, LineDone
  <2>4. CASE Ended("failed")
    BY <1>0, <2>1, <2>4, FailedKeeps
  <2> QED BY <2>2, <2>3, <2>4
<1>8. CASE MineBlocks
  <2> DEFINE line == Head(todo)
             cost == IF Paths[path] = "plan" THEN line.n * GAS_FEE ELSE 0
             next == [chain EXCEPT !.blocks = @ + line.n,
                                   !.gnot = D!Gain(@, chain.deployer, -cost)]
  <2>1. /\ phase = "seeding" /\ todo # <<>> /\ line.kind = "mine"
        /\ UNCHANGED <<file, scn, path, served>>
    BY <1>8 DEF MineBlocks, Here
  <2>2. \/ chain' = next /\ todo' = Tail(todo) /\ UNCHANGED <<phase, outcome>>
        \/ Ended("failed")
    BY <1>8 DEF MineBlocks
  <2> HIDE DEF cost
  <2>3. CASE chain' = next /\ todo' = Tail(todo) /\ UNCHANGED <<phase, outcome>>
    <3>1. ASSUME path = 2 PROVE Carries(chain', todo', scn)
      <4>1. Carries(chain, todo, scn)
        BY <2>1, <3>1 DEF SInv, Broadcast
      <4>2. Keeps(chain, chain')
        BY <2>3, <4>1 DEF Keeps, Carries, Clocked
      <4> QED BY <2>1, <2>3, <4>1, <4>2, QuietCarried
    <3> QED BY <2>1, <2>3, <3>1, LineDone
  <2>4. CASE Ended("failed")
    BY <1>0, <2>1, <2>4, FailedKeeps
  <2> QED BY <2>2, <2>3, <2>4
<1>9. CASE Check
  <2>1. /\ phase = "seeding" /\ Paths[path] = "genesis" /\ UNCHANGED <<file, scn, path, served>>
    BY <1>9 DEF Check
  <2>2. path = 3
    BY <1>0, <2>1 DEF Paths
  <2>3. \/ phase' = "checking" /\ UNCHANGED outcome
        \/ Ended("refused")
    BY <1>9 DEF Check
  <2>4. CASE phase' = "checking" /\ UNCHANGED outcome
    BY <2>1, <2>2, <2>4 DEF SInv, Run, Writing, Broadcast, Handed, Landed
  <2>5. CASE Ended("refused")
    BY <2>1, <2>2, <2>5, FailedKeeps
  <2> QED BY <2>3, <2>4, <2>5
<1>10. CASE Finish
  <2>1. /\ todo = <<>> /\ phase \in {"seeding", "checking"} /\ (path # 3 => phase = "seeding")
        /\ Ended("landed") /\ UNCHANGED <<file, scn, path>>
        /\ served' = IF Paths[path] = "txtar" THEN served
                     ELSE [served EXCEPT ![Paths[path]] = chain]
    BY <1>10 DEF Finish
  <2>2. path \in 1 .. 3
    BY <1>0, <2>1
  <2>3. DOMAIN served' = {"plan", "genesis"}
    BY <2>1 DEF SInv, Run
  <2>4. ASSUME path = 2 PROVE TellsClock(served'["plan"], scn)
    <3>1. served'["plan"] = chain
      BY <2>1, <2>4 DEF Paths, SInv, Run
    <3>2. Carries(chain, <<>>, scn)
      BY <2>1, <2>4 DEF SInv, Broadcast
    <3> QED BY <3>1, <3>2, CarriedToTheEnd
  <2>5. path # 2 => served'["plan"] = served["plan"]
    BY <2>1, <2>2 DEF Paths, SInv, Run
  <2> QED BY <2>1, <2>2, <2>3, <2>4, <2>5, EndedRuns
<1>11. CASE UNCHANGED vars
  BY <1>11 DEF vars, SInv, Run, Writing, Broadcast, Handed, Landed
<1> QED
  BY <1>1, <1>2, <1>3, <1>4, <1>5, <1>6, <1>7, <1>8, <1>9, <1>10, <1>11 DEF Next

LEMMA SInvHolds == Spec => []SInv
  BY InitHolds, SInvKept, PTL DEF Spec

(***************************************************************************)
(* Both served emitters send the same calls in the same order, for every   *)
(* program over the builder's calls, of any length                         *)
(* (scripts/scenario.py emit_plan, emit_txs).                              *)
(***************************************************************************)
THEOREM EmittersAlwaysAgree == Spec => []EmittersAgree
<1>1. SInv => EmittersAgree
  <2> SUFFICES ASSUME SInv PROVE SeedsCompare(scn)
    BY DEF EmittersAgree
  <2>2. KnownSteps(scn.steps)
    <3>1. Builder(scn)
      BY DEF SInv, Writing
    <3> QED BY <3>1 DEF Builder
  <2>3. PICK U : scn.steps \in Seq(U)
    BY <2>2, Zenon DEF KnownSteps
  <2> QED BY <2>3, EmittersSendTheSame
<1> QED BY <1>1, SInvHolds, PTL

(***************************************************************************)
(* A broadcast that lands leaves the clock sealed or never armed, and the  *)
(* line the plan prints says which, for every program over the builder's   *)
(* calls, the escape hatch included (scripts/scenario.py emit_plan).       *)
(***************************************************************************)
THEOREM ClockAlwaysTold == Spec => []ClockIsTold
<1>1. SInv => ClockIsTold
  <2> SUFFICES ASSUME SInv, Landed("plan") PROVE ClockIsTold
    BY DEF ClockIsTold
  <2>1. TellsClock(served["plan"], scn) /\ Builder(scn)
    BY DEF SInv, Handed, Writing
  <2>2. (PlanReport(scn) = "never armed") <=> ~scn.ever
    BY <2>1, ArmedWasEverArmed DEF PlanReport
  <2>3. scn.ever \in BOOLEAN /\ served["plan"].ever \in BOOLEAN
    BY <2>1 DEF Builder, TellsClock, Clocked
  <2> QED BY <2>1, <2>2, <2>3 DEF ClockIsTold, TellsClock
<1> QED BY <1>1, SInvHolds, PTL
=============================================================================
