----------------------------- MODULE CourtProofs -----------------------------
(* What holds of Court for any claims, any users, any ballots and any      *)
(* stakes: escrow holds exactly what the claims' records say, a juror is   *)
(* never given more than was burned, a ballot is backed by locked coin,    *)
(* the verdict is what the deciding round's ballots say, the rewards fit   *)
(* their pot, the extensions after a default verdict have an end, and a    *)
(* claim lives the life that its stakers rely on.                          *)
(* Each is an inductive invariant over the claims, one by one: a step of   *)
(* the court is a turn of one claim (StepTurns), so that each invariant    *)
(* has one lemma per kind of turn.                                         *)
EXTENDS Court, SharedLemmas

(* 1. The record of a claim, and what is true of its fields from its       *)
(* opening on.                                                             *)

(* The fields of a claim's record that its life turns on, of their types.  *)
Fields == {"author", "deposit", "fee", "openedAt", "closed", "answer", "answerer", "answerBond",
           "answerBond0", "answeredAt", "xbar", "conv", "tierRef", "provisional", "round",
           "disputeOpen", "disputeBond", "disputer", "ballot", "votes", "failedRounds",
           "decidedRounds", "decided", "carrotChoice", "carrotDenom", "spamW", "spamTotalW",
           "escrowUntil", "verdictAt", "provClose", "spamClosed", "rewardsOpened", "want",
           "carrotTotal", "carrotPool", "pulled"}

Tallied(b) ==
  /\ {"yes", "no", "abstain"} \subseteq DOMAIN b
  /\ b.yes \in Nat /\ b.no \in Nat /\ b.abstain \in Nat
  /\ b.roll \in [Users -> Int]

Typed(k) ==
  /\ DOMAIN k = Fields
  /\ k.deposit \in Nat /\ k.fee \in Nat
  /\ k.answerBond \in Nat /\ k.answerBond0 \in Nat /\ k.disputeBond \in Nat
  /\ k.xbar \in Nat /\ k.conv \in [Sides -> Nat]
  /\ k.round \in Nat /\ k.failedRounds \in Nat /\ k.decidedRounds \in Nat /\ k.decided \in Nat
  /\ k.escrowUntil \in Nat /\ k.verdictAt \in Nat /\ k.spamW \in Int /\ k.spamTotalW \in Int
  /\ k.author \in Users \cup {None} /\ k.answer \in Sides \cup {None}
  /\ k.provisional \in Sides \cup {None}
  /\ k.disputeOpen \in BOOLEAN /\ Tallied(k.ballot)

(* The stages of a life: what has not happened yet has left no trace, and  *)
(* what is over holds nothing.                                             *)
Phased(k) ==
  /\ ~Opened(k) => k.deposit = 0 /\ k.fee = 0 /\ ~k.closed
  /\ ~Answered(k) => /\ k.round = 0 /\ k.verdictAt = 0 /\ k.answerBond = 0
                     /\ k.provisional = None /\ k.votes = {}
  /\ Answered(k) => Opened(k) /\ ~k.closed /\ k.answerer \in Users
  /\ k.closed => k.deposit = 0 /\ k.fee = 0
  /\ k.round = 0 => /\ ~k.disputeOpen /\ k.failedRounds = 0 /\ k.decidedRounds = 0
                    /\ k.decided = 0 /\ k.votes = {}
  /\ k.disputeOpen => k.disputer \in Users /\ ~Final(k)
  /\ ~k.disputeOpen => k.disputeBond = 0
  /\ Final(k) => k.answerBond = 0
  /\ k.provClose \/ k.rewardsOpened => Final(k) /\ k.deposit = 0 /\ k.fee = 0

Sound(k) == Typed(k) /\ Phased(k)

(* The coin in escrow for all the claims, and the part held as deposits.   *)
HeldSum(ks) == MapThenSumSet(LAMBDA c : Held(ks[c]), Claims)
DepositSum(ks) == MapThenSumSet(LAMBDA c : OnDeposit(ks[c]), Claims)

HeldOf(ks) == [c \in Claims |-> Held(ks[c])]
DepositOf(ks) == [c \in Claims |-> OnDeposit(ks[c])]

LEMMA HeldSumIs == ASSUME NEW ks PROVE HeldSum(ks) = SumFunctionOnSet(HeldOf(ks), Claims)
<1> DEFINE f == HeldOf(ks)
           IsIter(g) == g = [s \in SUBSET Claims |->
                              IF s = {} THEN 0
                              ELSE Held(ks[CHOOSE x \in s : TRUE]) + g[s \ {CHOOSE x \in s : TRUE}]]
<1>1. IsFiniteSet(Claims)
  BY CourtAssumption
<1>2. \A g : IsIter(g) <=> IsSum(g, f, Claims)
  <2> SUFFICES ASSUME NEW g, NEW s \in SUBSET Claims
               PROVE  SumStep(g, f, s) =
                        IF s = {} THEN 0
                        ELSE Held(ks[CHOOSE x \in s : TRUE]) + g[s \ {CHOOSE x \in s : TRUE}]
    BY ZenonT(30) DEF IsSum
  <2> DEFINE x == CHOOSE x \in s : TRUE
  <2>1. s # {} => f[x] = Held(ks[x])
    BY DEF HeldOf
  <2> QED
    BY <2>1 DEF SumStep
<1>3. HeldSum(ks) = (CHOOSE g : IsIter(g))[Claims]
  BY DEF HeldSum, MapThenSumSet, MapThenFoldSet
<1>4. IsIter(CHOOSE g : IsIter(g))
  <2>1. PICK g : IsSum(g, f, Claims)
    BY <1>1, SumExists
  <2>2. IsIter(g)
    BY <1>2, <2>1
  <2> HIDE DEF IsIter
  <2> QED
    BY <2>2
<1> QED
  BY <1>1, <1>2, <1>3, <1>4, SumIs

LEMMA DepositSumIs == ASSUME NEW ks PROVE DepositSum(ks) = SumFunctionOnSet(DepositOf(ks), Claims)
<1> DEFINE f == DepositOf(ks)
           IsIter(g) == g = [s \in SUBSET Claims |->
                              IF s = {} THEN 0
                              ELSE OnDeposit(ks[CHOOSE x \in s : TRUE]) + g[s \ {CHOOSE x \in s : TRUE}]]
<1>1. IsFiniteSet(Claims)
  BY CourtAssumption
<1>2. \A g : IsIter(g) <=> IsSum(g, f, Claims)
  <2> SUFFICES ASSUME NEW g, NEW s \in SUBSET Claims
               PROVE  SumStep(g, f, s) =
                        IF s = {} THEN 0
                        ELSE OnDeposit(ks[CHOOSE x \in s : TRUE]) + g[s \ {CHOOSE x \in s : TRUE}]
    BY ZenonT(30) DEF IsSum
  <2> DEFINE x == CHOOSE x \in s : TRUE
  <2>1. s # {} => f[x] = OnDeposit(ks[x])
    BY DEF DepositOf
  <2> QED
    BY <2>1 DEF SumStep
<1>3. DepositSum(ks) = (CHOOSE g : IsIter(g))[Claims]
  BY DEF DepositSum, MapThenSumSet, MapThenFoldSet
<1>4. IsIter(CHOOSE g : IsIter(g))
  <2>1. PICK g : IsSum(g, f, Claims)
    BY <1>1, SumExists
  <2>2. IsIter(g)
    BY <1>2, <2>1
  <2> HIDE DEF IsIter
  <2> QED
    BY <2>2
<1> QED
  BY <1>1, <1>2, <1>3, <1>4, SumIs

SoundAll(ks) == DOMAIN ks = Claims /\ \A c \in Claims : Sound(ks[c])

LEMMA HeldIsNat == ASSUME NEW k, Sound(k) PROVE Held(k) \in Nat /\ OnDeposit(k) \in Nat
  BY DEF Sound, Typed, Held, OnDeposit

LEMMA SumsAreNat == ASSUME NEW ks, SoundAll(ks) PROVE HeldSum(ks) \in Nat /\ DepositSum(ks) \in Nat
<1>1. IsFiniteSet(Claims)
  BY CourtAssumption
<1>2. \A c \in Claims : HeldOf(ks)[c] \in Nat /\ DepositOf(ks)[c] \in Nat
  BY HeldIsNat DEF SoundAll, HeldOf, DepositOf
<1>3. SumFunctionOnSet(HeldOf(ks), Claims) \in Nat /\ SumFunctionOnSet(DepositOf(ks), Claims) \in Nat
  BY <1>1, <1>2, SumIsNat
<1> QED
  BY <1>3, HeldSumIs, DepositSumIs

(* One claim's record changes, and the sums by what it holds.              *)
LEMMA SumsMove ==
  ASSUME NEW ks, SoundAll(ks), NEW c \in Claims, NEW z, Sound(z)
  PROVE  /\ SoundAll([ks EXCEPT ![c] = z])
         /\ HeldSum([ks EXCEPT ![c] = z]) = HeldSum(ks) - Held(ks[c]) + Held(z)
         /\ DepositSum([ks EXCEPT ![c] = z])
              = DepositSum(ks) - OnDeposit(ks[c]) + OnDeposit(z)
<1> DEFINE after == [ks EXCEPT ![c] = z]
<1>1. SoundAll(after)
  BY DEF SoundAll
<1>2. after[c] = z /\ \A d \in Claims \ {c} : after[d] = ks[d]
  BY DEF SoundAll
<1> HIDE DEF after
<1>3. IsFiniteSet(Claims)
  BY CourtAssumption
<1>4. /\ HeldOf(ks)[c] = Held(ks[c]) /\ HeldOf(after)[c] = Held(z)
      /\ \A d \in Claims \ {c} : HeldOf(after)[d] = HeldOf(ks)[d]
  BY <1>2 DEF HeldOf
<1>5. /\ DepositOf(ks)[c] = OnDeposit(ks[c]) /\ DepositOf(after)[c] = OnDeposit(z)
      /\ \A d \in Claims \ {c} : DepositOf(after)[d] = DepositOf(ks)[d]
  BY <1>2 DEF DepositOf
<1>6. Integral(HeldOf(ks), Claims) /\ Integral(HeldOf(after), Claims)
  BY <1>1, HeldIsNat DEF SoundAll, HeldOf, Integral
<1>7. Integral(DepositOf(ks), Claims) /\ Integral(DepositOf(after), Claims)
  BY <1>1, HeldIsNat DEF SoundAll, DepositOf, Integral
<1>8. SumFunctionOnSet(HeldOf(after), Claims)
        = SumFunctionOnSet(HeldOf(ks), Claims) - HeldOf(ks)[c] + HeldOf(after)[c]
  BY <1>3, <1>4, <1>6, SumUpdate
<1>9. SumFunctionOnSet(DepositOf(after), Claims)
        = SumFunctionOnSet(DepositOf(ks), Claims) - DepositOf(ks)[c] + DepositOf(after)[c]
  BY <1>3, <1>5, <1>7, SumUpdate
<1>10. HeldSum(after) = HeldSum(ks) - Held(ks[c]) + Held(z)
  BY <1>4, <1>8, HeldSumIs
<1>11. DepositSum(after) = DepositSum(ks) - OnDeposit(ks[c]) + OnDeposit(z)
  BY <1>5, <1>9, DepositSumIs
<1> QED
  BY <1>1, <1>10, <1>11 DEF after

-----------------------------------------------------------------------------
(* 2. Bonds: what a dispute must put up grows with the rounds, and what    *)
(* an answer must.                                                         *)

(* Rounding down.                                                          *)
LEMMA Divided ==
  ASSUME NEW a \in Nat, NEW d \in Nat \ {0}
  PROVE  a \div d \in Nat /\ (a \div d) * d <= a
  OBVIOUS

LEMMA PartBound ==
  ASSUME NEW n \in Nat, NEW bps \in Nat
  PROVE  Part(n, bps) \in Nat /\ Part(n, bps) * Bps <= n * bps
<1>1. n * bps \in Nat
  OBVIOUS
<1>2. Bps \in Nat \ {0}
  BY TallyAssumption
<1> DEFINE a == n * bps
<1> HIDE DEF a
<1>3. a \div Bps \in Nat /\ (a \div Bps) * Bps <= a
  BY <1>1, <1>2, Divided DEF a
<1> QED
  BY <1>3 DEF a, Part

LEMMA PartIs == ASSUME NEW n, NEW bps, n \in Nat, bps \in Nat PROVE Part(n, bps) \in Nat
  BY PartBound

(* The bonds are amounts of coin.                                          *)
LEMMA AnswerBondIs ==
  ASSUME NEW xbar \in Nat, NEW conv \in [Sides -> Nat]
  PROVE  AnswerBond(xbar, conv) \in Nat \ {0}
<1> DEFINE y == Part(conv["YES"], 10700)
           n == Part(conv["NO"], 10700)
           S == {1, Part(xbar, 600), Part(xbar, 450), y, n}
<1>1. {1, Part(xbar, 600), Part(xbar, 450)} \cup {Part(conv[s], 10700) : s \in Sides} = S
  BY DEF Sides
<1>2. Part(xbar, 600) \in Nat /\ Part(xbar, 450) \in Nat /\ y \in Nat /\ n \in Nat
  BY PartIs DEF Sides
<1>3. IsFiniteSet(S)
  <2>1. IsFiniteSet({y})
    BY FS_Singleton
  <2>2. IsFiniteSet({y} \cup {n})
    BY <2>1, FS_AddElement
  <2>3. IsFiniteSet(({y} \cup {n}) \cup {1})
    BY <2>2, FS_AddElement
  <2>4. IsFiniteSet((({y} \cup {n}) \cup {1}) \cup {Part(xbar, 600)})
    BY <2>3, FS_AddElement
  <2>5. IsFiniteSet(((({y} \cup {n}) \cup {1}) \cup {Part(xbar, 600)}) \cup {Part(xbar, 450)})
    BY <2>4, FS_AddElement
  <2>6. S = ((({y} \cup {n}) \cup {1}) \cup {Part(xbar, 600)}) \cup {Part(xbar, 450)}
    OBVIOUS
  <2> QED
    BY <2>5, <2>6
<1>4. S \subseteq Nat /\ S \subseteq Int /\ S # {}
  BY <1>2
<1>5. AnswerBond(xbar, conv) = Max(S)
  BY <1>1 DEF AnswerBond
<1> HIDE DEF S
<1>6. Max(S) \in S /\ \A a \in S : Max(S) >= a
  BY <1>3, <1>4, MaxIs
<1>7. 1 \in S
  BY DEF S
<1>8. Max(S) \in Nat /\ Max(S) >= 1
  <2>1. Max(S) \in Nat
    BY <1>4, <1>6
  <2> QED BY <2>1, <1>6, <1>7
<1> DEFINE m == Max(S)
<1> HIDE DEF m
<1>9. m \in Nat \ {0}
  <2>1. m \in Nat /\ m >= 1
    BY <1>8 DEF m
  <2> QED BY <2>1
<1> QED
  BY <1>5, <1>9 DEF m

LEMMA DisputeBondIs ==
  ASSUME NEW k, Typed(k)
  PROVE  DisputeBond(k) \in Nat
<1> DEFINE base == Least(Part(k.xbar, 2000), Part(k.answerBond0, 4000))
           n == Least(k.failedRounds, MaxFailedRounds - 1)
<1>1. Part(k.xbar, 2000) \in Nat /\ Part(k.answerBond0, 4000) \in Nat
  BY PartIs DEF Typed
<1>2. base \in Int /\ 1 \in Int
  BY <1>1 DEF Least
<1>3. n \in 0 .. 2
  BY DEF Least, MaxFailedRounds, Typed
<1> HIDE DEF base, n
<1>4. Max({1, base}) \in {1, base}
  BY <1>2, MaxOfTwo
<1>5. Max({1, base}) >= 1
  BY <1>2, MaxOfTwo
<1>6. Max({1, base}) \in Nat
  BY <1>2, <1>4, <1>5
<1>7. Doubled[1 + n] \in Nat
  BY <1>3 DEF Doubled
<1>8. DisputeBond(k) = Max({1, base}) * Doubled[1 + n]
  BY DEF DisputeBond, base, n
<1> DEFINE m == Max({1, base})
           p == Doubled[1 + n]
<1>9. m \in Nat /\ p \in Nat /\ DisputeBond(k) = m * p
  BY <1>6, <1>7, <1>8
<1> HIDE DEF m, p
<1> QED
  BY <1>9

-----------------------------------------------------------------------------
(* The records a claim goes through.                                       *)
AsOpened(who, at) ==
  [NoClaim EXCEPT !.author = who, !.deposit = Deposit, !.fee = Part(Deposit, 1000), !.openedAt = at]

AsAnswered(k, who, side, bond, at, xbar, conv, tierRef) ==
  [k EXCEPT !.answer = side, !.answerer = who, !.answerBond = bond, !.answerBond0 = bond,
            !.answeredAt = at, !.xbar = xbar, !.conv = conv, !.tierRef = tierRef]

AsDisputed(k, who, bond, ballot) ==
  [k EXCEPT !.round = @ + 1, !.disputeOpen = TRUE, !.disputeBond = bond, !.disputer = who,
            !.votes = Deciding(k), !.ballot = ballot]

LEMMA NoClaimSound == Sound(NoClaim)
<1>1. DOMAIN NoClaim = Fields
  BY DEF NoClaim, Fields
<1>2. Tallied(NoClaim.ballot)
  BY DEF NoClaim, NoBallot, Tallied
<1> QED
  BY <1>1, <1>2, CourtAssumption DEF Sound, Typed, Phased, NoClaim, Opened, Answered, Final, Sides

LEMMA OpenedSound ==
  ASSUME NEW who \in Users, NEW at \in Nat
  PROVE  Sound(AsOpened(who, at)) /\ Opened(AsOpened(who, at))
<1>1. Sound(NoClaim) /\ Part(Deposit, 1000) \in Nat /\ Deposit \in Nat
  BY NoClaimSound, PartIs, CourtAssumption
<1>2. ~Answered(NoClaim) /\ ~NoClaim.closed /\ ~NoClaim.provClose /\ ~NoClaim.rewardsOpened /\ NoClaim.round = 0
  BY DEF NoClaim, Answered
<1> DEFINE k == NoClaim
<1> HIDE DEF k
<1>3. Sound(k) /\ ~Answered(k) /\ ~k.closed /\ ~k.provClose /\ ~k.rewardsOpened
  BY <1>1, <1>2 DEF k
<1> DEFINE z == [k EXCEPT !.author = who, !.deposit = Deposit, !.fee = Part(Deposit, 1000), !.openedAt = at]
<1>4. Sound(z) /\ Opened(z)
  BY <1>1, <1>3, CourtAssumption DEF Sound, Typed, Phased, Fields, Opened, Answered, Final
<1> QED
  BY <1>4 DEF k, AsOpened

LEMMA ClosedSound ==
  ASSUME NEW k, Sound(k), Opened(k), ~k.closed, ~Answered(k)
  PROVE  Sound([Emptied(k) EXCEPT !.closed = TRUE])
  BY DEF Sound, Typed, Phased, Fields, Opened, Answered, Final, Emptied

LEMMA AnsweredSound ==
  ASSUME NEW k, Sound(k), Opened(k), ~k.closed, ~Answered(k),
         NEW who \in Users, NEW side \in Sides, NEW bond \in Nat, NEW at, NEW xbar \in Nat,
         NEW conv \in [Sides -> Nat], NEW tierRef
  PROVE  Sound(AsAnswered(k, who, side, bond, at, xbar, conv, tierRef))
  BY CourtAssumption DEF Sound, Typed, Phased, Fields, Opened, Answered, Final, AsAnswered, Sides

LEMMA SettledSound ==
  ASSUME NEW k, Sound(k), Answered(k), k.round = 0, NEW at \in Nat \ {0}
  PROVE  Sound([k EXCEPT !.verdictAt = at, !.provisional = k.answer, !.answerBond = 0])
  BY DEF Sound, Typed, Phased, Fields, Opened, Answered, Final

LEMMA DisputedSound ==
  ASSUME NEW k, Sound(k), Answered(k), ~Final(k), ~k.disputeOpen, NEW who \in Users, NEW bond \in Nat,
         NEW ballot, Tallied(ballot)
  PROVE  Sound(AsDisputed(k, who, bond, ballot))
  BY DEF Sound, Typed, Phased, Fields, Opened, Answered, Final, AsDisputed

LEMMA VotedSound ==
  ASSUME NEW k, Sound(k), k.disputeOpen, NEW ballot, Tallied(ballot), NEW votes
  PROVE  Sound([k EXCEPT !.ballot = ballot, !.votes = votes])
  BY ZenonT(30) DEF Sound, Typed, Phased, Fields, Opened, Answered, Final

LEMMA FinalSound ==
  ASSUME NEW k, Sound(k), ~k.disputeOpen, Answered(k), NEW at \in Nat \ {0}
  PROVE  Sound([k EXCEPT !.verdictAt = at, !.answerBond = 0])
  BY DEF Sound, Typed, Phased, Fields, Opened, Answered, Final

LEMMA RewardedSound ==
  ASSUME NEW k, Sound(k), Final(k), NEW want, NEW carrot
  PROVE  Sound([Emptied(k) EXCEPT !.rewardsOpened = TRUE, !.want = want, !.carrotTotal = carrot,
                                  !.carrotPool = carrot, !.answerBond = 0])
  BY DEF Sound, Typed, Phased, Fields, Opened, Answered, Final, Emptied

LEMMA PulledSound ==
  ASSUME NEW k, Sound(k), NEW pulled, NEW pool
  PROVE  Sound([k EXCEPT !.pulled = pulled, !.carrotPool = pool])
  BY DEF Sound, Typed, Phased, Fields, Opened, Answered, Final

-----------------------------------------------------------------------------
(* 3. A round is resolved.                                                 *)

(* A round has been resolved: z, when m is what its outcome made of the    *)
(* claim.                                                                  *)
Resolvable(m) ==
  /\ Typed(m) /\ Opened(m) /\ Answered(m) /\ ~m.closed /\ m.answerer \in Users /\ m.round # 0
  /\ Final(m) => m.answerBond = 0
  /\ m.provClose \/ m.rewardsOpened => Final(m) /\ m.deposit = 0 /\ m.fee = 0

AsResolved(m, first) == [Escrowed(m, first) EXCEPT !.disputeOpen = FALSE, !.disputeBond = 0]

Timed == Fields \ {"escrowUntil", "disputeOpen", "disputeBond"}

(* Only the clock is set, and the round's bond is gone.                    *)
LEMMA ResolvedIs ==
  ASSUME NEW m, Typed(m), now \in Nat, NEW first \in BOOLEAN
  PROVE  LET z == AsResolved(m, first) IN
         /\ DOMAIN z = Fields /\ \A f \in Timed : z[f] = m[f]
         /\ z.disputeOpen = FALSE /\ z.disputeBond = 0 /\ z.escrowUntil \in Nat
         /\ first /\ ~m.provClose /\ m.failedRounds > 0 => z.escrowUntil >= now + LadderTime
         /\ ~first => z.escrowUntil = m.escrowUntil
<1>1. EscrowTime \in Nat /\ LadderTime \in Nat
  BY CourtAssumption DEF LadderTime, MaxFailedRounds
<1>2. EscrowTime \in Int /\ LadderTime \in Int
  BY <1>1
<1> DEFINE top == Max({EscrowTime, LadderTime})
           e == Escrowed(m, first)
           z == AsResolved(m, first)
<1>3. top \in {EscrowTime, LadderTime}
  BY <1>2, MaxOfTwo
<1>4. top >= LadderTime
  BY <1>2, MaxOfTwo
<1>5. top \in Nat
  BY <1>1, <1>3
<1> HIDE DEF top
<1>6. /\ DOMAIN e = Fields /\ \A f \in Fields \ {"escrowUntil"} : e[f] = m[f]
      /\ e.escrowUntil \in Nat
      /\ first /\ ~m.provClose /\ m.failedRounds > 0 => e.escrowUntil >= now + LadderTime
      /\ ~first => e.escrowUntil = m.escrowUntil
  <2>1. CASE first /\ ~m.provClose
    <3> DEFINE until == now + (IF m.failedRounds > 0 THEN top ELSE EscrowTime)
    <3>1. until \in Nat /\ (m.failedRounds > 0 => until >= now + LadderTime)
      BY <1>1, <1>4, <1>5
    <3>2. e = [m EXCEPT !.escrowUntil = until]
      BY <2>1 DEF Escrowed, top
    <3> HIDE DEF until, e
    <3>3. DOMAIN m = Fields /\ "escrowUntil" \in Fields
      BY DEF Typed, Fields
    <3>4. /\ DOMAIN e = Fields /\ \A f \in Fields \ {"escrowUntil"} : e[f] = m[f]
          /\ e.escrowUntil = until
      BY <3>2, <3>3
    <3> QED
      BY <2>1, <3>1, <3>4
  <2>2. CASE ~(first /\ ~m.provClose)
    <3>1. e = m
      BY <2>2 DEF Escrowed
    <3>2. DOMAIN m = Fields /\ m.escrowUntil \in Nat
      BY DEF Typed
    <3> HIDE DEF e
    <3> QED
      BY <2>2, <3>1, <3>2
  <2> QED
    BY <2>1, <2>2
<1> HIDE DEF e
<1>7. z = [e EXCEPT !.disputeOpen = FALSE, !.disputeBond = 0]
  BY DEF AsResolved, e
<1> HIDE DEF z
<1>8. /\ DOMAIN z = Fields /\ \A f \in Timed : z[f] = m[f]
      /\ z.disputeOpen = FALSE /\ z.disputeBond = 0 /\ z.escrowUntil = e.escrowUntil
  <2>1. "disputeOpen" \in Fields /\ "disputeBond" \in Fields /\ "escrowUntil" \in Fields
    BY DEF Fields
  <2>2. DOMAIN z = Fields /\ \A f \in Fields \ {"disputeOpen", "disputeBond"} : z[f] = e[f]
    BY <1>6, <1>7
  <2>3. z.disputeOpen = FALSE /\ z.disputeBond = 0
    BY <1>6, <1>7, <2>1
  <2> QED
    BY <1>6, <2>1, <2>2, <2>3 DEF Timed
<1> QED
  BY <1>6, <1>8 DEF z

LEMMA ResolvedSound ==
  ASSUME NEW m, Resolvable(m), now \in Nat, NEW first \in BOOLEAN
  PROVE  Sound(AsResolved(m, first))
<1> DEFINE z == AsResolved(m, first)
<1>1. /\ DOMAIN z = Fields /\ \A f \in Timed : z[f] = m[f]
      /\ z.disputeOpen = FALSE /\ z.disputeBond = 0 /\ z.escrowUntil \in Nat
  BY ResolvedIs DEF Resolvable
<1> HIDE DEF z
<1>2. /\ z.deposit = m.deposit /\ z.fee = m.fee /\ z.answerBond = m.answerBond /\ z.answerBond0 = m.answerBond0
      /\ z.xbar = m.xbar /\ z.conv = m.conv /\ z.round = m.round /\ z.failedRounds = m.failedRounds
      /\ z.decidedRounds = m.decidedRounds /\ z.decided = m.decided /\ z.verdictAt = m.verdictAt /\ z.spamW = m.spamW
      /\ z.spamTotalW = m.spamTotalW /\ z.author = m.author /\ z.answer = m.answer /\ z.provisional = m.provisional
      /\ z.closed = m.closed /\ z.answerer = m.answerer /\ z.provClose = m.provClose /\ z.rewardsOpened = m.rewardsOpened /\ z.ballot = m.ballot
  <2>1. z.deposit = m.deposit /\ z.fee = m.fee /\ z.answerBond = m.answerBond /\ z.answerBond0 = m.answerBond0
    <3>1. {"deposit", "fee", "answerBond", "answerBond0"} \subseteq Timed
      BY DEF Timed, Fields
    <3> QED
      BY <1>1, <3>1
  <2>2. z.xbar = m.xbar /\ z.conv = m.conv /\ z.round = m.round /\ z.failedRounds = m.failedRounds
    <3>1. {"xbar", "conv", "round", "failedRounds"} \subseteq Timed
      BY DEF Timed, Fields
    <3> QED
      BY <1>1, <3>1
  <2>3. z.decidedRounds = m.decidedRounds /\ z.decided = m.decided /\ z.verdictAt = m.verdictAt /\ z.spamW = m.spamW
    <3>1. {"decidedRounds", "decided", "verdictAt", "spamW"} \subseteq Timed
      BY DEF Timed, Fields
    <3> QED
      BY <1>1, <3>1
  <2>4. z.spamTotalW = m.spamTotalW /\ z.author = m.author /\ z.answer = m.answer /\ z.provisional = m.provisional
    <3>1. {"spamTotalW", "author", "answer", "provisional"} \subseteq Timed
      BY DEF Timed, Fields
    <3> QED
      BY <1>1, <3>1
  <2>5. z.closed = m.closed /\ z.answerer = m.answerer /\ z.provClose = m.provClose /\ z.rewardsOpened = m.rewardsOpened /\ z.ballot = m.ballot
    <3>1. {"closed", "answerer", "provClose", "rewardsOpened", "ballot"} \subseteq Timed
      BY DEF Timed, Fields
    <3> QED
      BY <1>1, <3>1
  <2> QED
    BY <2>1, <2>2, <2>3, <2>4, <2>5
<1>3. Typed(z)
  <2>1. Typed(m)
    BY DEF Resolvable
  <2>2. /\ z.deposit \in Nat /\ z.fee \in Nat /\ z.answerBond \in Nat /\ z.answerBond0 \in Nat
        /\ z.xbar \in Nat /\ z.conv \in [Sides -> Nat] /\ z.round \in Nat
        /\ z.failedRounds \in Nat /\ z.decidedRounds \in Nat /\ z.decided \in Nat
        /\ z.verdictAt \in Nat /\ z.spamW \in Int /\ z.spamTotalW \in Int
    BY <1>2, <2>1 DEF Typed
  <2>3. /\ z.author \in Users \cup {None} /\ z.answer \in Sides \cup {None}
        /\ z.provisional \in Sides \cup {None}
    BY <1>2, <2>1 DEF Typed
  <2>4. Tallied(z.ballot)
    BY <1>2, <2>1 DEF Typed
  <2>5. DOMAIN z = Fields /\ z.disputeBond \in Nat /\ z.escrowUntil \in Nat
    BY <1>1
  <2>6. z.disputeOpen \in BOOLEAN
    BY <1>1
  <2> QED
    BY <2>2, <2>3, <2>4, <2>5, <2>6 DEF Typed
<1>4. Phased(z)
  BY <1>1, <1>2 DEF Resolvable, Phased, Opened, Answered, Final
<1> QED
  BY <1>3, <1>4 DEF Sound, z

-----------------------------------------------------------------------------
(* 4. Coin, and what leaves escrow.                                        *)

(* Coin.  What leaves escrow makes no user poorer.                         *)
Coins(b) == b \in [Holders -> Int]

Leaves(b, after, n) ==
  /\ Coins(after) /\ n \in Nat
  /\ after[Escrow] = b[Escrow] - n
  /\ \A u \in Users : after[u] >= b[u]

LEMMA Places == Escrow \in Holders /\ Users \subseteq Holders /\ Escrow \notin Users
  BY CourtAssumption DEF Holders

LEMMA PaysIn ==
  ASSUME NEW b, Coins(b), NEW u, u \in Users, NEW n, n \in Nat
  PROVE  /\ Coins(Pay(b, u, Escrow, n))
         /\ Pay(b, u, Escrow, n)[Escrow] = b[Escrow] + n
         /\ Pay(b, u, Escrow, n)[u] = b[u] - n
         /\ \A v \in Users \ {u} : Pay(b, u, Escrow, n)[v] = b[v]
  BY Places DEF Coins, Pay

LEMMA PaysOut ==
  ASSUME NEW b, Coins(b), NEW u, u \in Users, NEW n, n \in Nat
  PROVE  Leaves(b, Pay(b, Escrow, u, n), n)
  BY Places DEF Coins, Pay, Leaves

LEMMA Burns ==
  ASSUME NEW b, Coins(b), NEW n, n \in Nat
  PROVE  Leaves(b, Burn(b, n), n)
  BY Places DEF Coins, Burn, Leaves

LEMMA LeavesNothing == ASSUME NEW b, Coins(b) PROVE Leaves(b, b, 0)
  BY Places DEF Coins, Leaves

LEMMA LeavesThen ==
  ASSUME NEW b, NEW c, NEW d, NEW n, NEW m, Coins(b), Leaves(b, c, n), Leaves(c, d, m)
  PROVE  Leaves(b, d, n + m)
<1>1. /\ Coins(d) /\ n \in Nat /\ m \in Nat
      /\ c[Escrow] = b[Escrow] - n /\ d[Escrow] = c[Escrow] - m
      /\ b[Escrow] \in Int
  BY Places DEF Leaves, Coins
<1>2. d[Escrow] = b[Escrow] - (n + m)
  BY <1>1
<1>3. ASSUME NEW u \in Users PROVE d[u] >= b[u]
  <2>1. b[u] \in Int /\ c[u] \in Int /\ d[u] \in Int /\ c[u] >= b[u] /\ d[u] >= c[u]
    BY Places DEF Leaves, Coins
  <2> QED
    BY <2>1
<1> QED
  BY <1>1, <1>2, <1>3 DEF Leaves

LEMMA BondGoesBack ==
  ASSUME NEW b, Coins(b), NEW k, Sound(k), Answered(k)
  PROVE  Leaves(b, BondBack(b, k), k.answerBond)
<1>1. k.answerBond \in Nat /\ k.answerer \in Users
  BY DEF Sound, Typed, Phased
<1>2. CASE k.answerBond > 0
  <2>1. Leaves(b, Pay(b, Escrow, k.answerer, k.answerBond), k.answerBond)
    BY <1>1, PaysOut
  <2> QED
    BY <1>2, <2>1 DEF BondBack
<1>3. CASE ~(k.answerBond > 0)
  <2>1. k.answerBond = 0
    BY <1>1, <1>3
  <2> QED
    BY <1>3, <2>1, LeavesNothing DEF BondBack
<1> QED
  BY <1>2, <1>3

-----------------------------------------------------------------------------
(* A claim whose round is open.                                            *)
LEMMA OpenRound ==
  ASSUME NEW k, Sound(k), k.disputeOpen
  PROVE  /\ Answered(k) /\ Opened(k) /\ ~k.closed /\ k.round # 0 /\ ~Final(k)
         /\ k.answerer \in Users /\ k.disputer \in Users /\ k.author \in Users
         /\ ~k.provClose /\ ~k.rewardsOpened /\ k.answer \in Sides
<1>1. Answered(k)
  BY DEF Sound, Phased
<1> QED
  BY <1>1 DEF Sound, Phased, Typed, Opened, Answered

AsFailed(k) == [k EXCEPT !.provisional = Default(k), !.failedRounds = @ + 1]

AsDiscarded(k) ==
  [ProvClosed(k) EXCEPT
     !.spamClosed = TRUE, !.decided = k.round, !.carrotChoice = "spam",
     !.carrotDenom = k.ballot.abstain,
     !.spamW = k.ballot.abstain, !.spamTotalW = Turnout(k.ballot)]

AsOverturned(k) == [Decided(k, Opposite(k.answer), "yes", k.ballot.yes) EXCEPT !.answerBond = 0]
AsUpheld(k) == Decided(k, k.answer, "no", k.ballot.no)

LEMMA OpenResolvable ==
  ASSUME NEW k, Sound(k), k.disputeOpen
  PROVE  Resolvable(k)
  BY OpenRound DEF Sound, Resolvable

LEMMA FailedResolvable ==
  ASSUME NEW k, Sound(k), k.disputeOpen
  PROVE  Resolvable(AsFailed(k))
<1> DEFINE p == Default(k)
           f == k.failedRounds + 1
           z == [k EXCEPT !.provisional = p, !.failedRounds = f]
<1>1. p \in Sides
  BY OpenRound DEF Default, Sound, Typed
<1>2. f \in Nat
  BY DEF Sound, Typed
<1>3. Resolvable(k)
  BY OpenResolvable
<1>4. AsFailed(k) = z
  BY DEF AsFailed
<1> HIDE DEF p, f
<1>5. Resolvable(z)
  BY <1>1, <1>2, <1>3, ZenonT(30) DEF Resolvable, Typed, Fields, Opened, Answered, Final
<1> QED
  BY <1>4, <1>5

LEMMA ProvClosedResolvable ==
  ASSUME NEW k, Resolvable(k), now \in Nat \ {0}
  PROVE  Resolvable(ProvClosed(k))
  BY DEF Resolvable, Typed, Fields, ProvClosed, Emptied, Opened, Answered, Final

LEMMA DiscardedResolvable ==
  ASSUME NEW k, Sound(k), k.disputeOpen, now \in Nat \ {0}
  PROVE  Resolvable(AsDiscarded(k))
<1> DEFINE m == ProvClosed(k)
           a == k.ballot.abstain
           t == Turnout(k.ballot)
           r == k.round
<1>1. Resolvable(m)
  BY OpenResolvable, ProvClosedResolvable
<1>2. a \in Int /\ t \in Int /\ r \in Nat
  BY DEF Tallied, Turnout, Sound, Typed
<1> DEFINE z == [m EXCEPT !.spamClosed = TRUE, !.decided = r, !.carrotChoice = "spam",
                          !.carrotDenom = a, !.spamW = a, !.spamTotalW = t]
<1>3. AsDiscarded(k) = z
  BY DEF AsDiscarded
<1> HIDE DEF m, a, t, r
<1>4. Resolvable(z)
  BY <1>1, <1>2 DEF Resolvable, Typed, Fields, Opened, Answered, Final
<1> QED
  BY <1>3, <1>4

LEMMA DecidedResolvable ==
  ASSUME NEW k, Sound(k), k.disputeOpen, NEW verdict \in Sides, NEW choice, NEW weight
  PROVE  Resolvable(Decided(k, verdict, choice, weight))
<1> DEFINE a == k.ballot.abstain
           t == Turnout(k.ballot)
           r == k.round
           n == k.decidedRounds + 1
           z == [k EXCEPT !.provisional = verdict, !.failedRounds = 0, !.decidedRounds = n,
                          !.decided = r, !.carrotChoice = choice, !.carrotDenom = weight,
                          !.spamW = a, !.spamTotalW = t]
<1>1. Resolvable(k)
  BY OpenResolvable
<1>2. a \in Int /\ t \in Int /\ r \in Nat /\ n \in Nat
  BY DEF Tallied, Turnout, Sound, Typed
<1>3. Decided(k, verdict, choice, weight) = z
  BY DEF Decided
<1> HIDE DEF a, t, r, n
<1>4. Resolvable(z)
  BY <1>1, <1>2, ZenonT(30) DEF Resolvable, Typed, Fields, Opened, Answered, Final
<1> QED
  BY <1>3, <1>4

LEMMA OverturnedResolvable ==
  ASSUME NEW k, Sound(k), k.disputeOpen
  PROVE  Resolvable(AsOverturned(k))
<1> DEFINE m == Decided(k, Opposite(k.answer), "yes", k.ballot.yes)
<1>1. Opposite(k.answer) \in Sides
  BY OpenRound DEF Opposite, Sides
<1>2. Resolvable(m)
  BY <1>1, DecidedResolvable
<1> HIDE DEF m
<1>3. Resolvable([m EXCEPT !.answerBond = 0])
  BY <1>2 DEF Resolvable, Typed, Fields, Opened, Answered, Final
<1> QED
  BY <1>3 DEF AsOverturned, m

LEMMA UpheldResolvable ==
  ASSUME NEW k, Sound(k), k.disputeOpen
  PROVE  Resolvable(AsUpheld(k))
  BY OpenRound, DecidedResolvable DEF AsUpheld

-----------------------------------------------------------------------------
(* 5. The books: escrow holds what the claims' records say it holds.       *)

(* Escrow holds what the claims' books say.                                *)
EInv == /\ now \in Nat \ {0} /\ Coins(bal) /\ Coins(sealed) /\ SoundAll(claims)
        /\ bal[Escrow] = HeldSum(claims) /\ deposits = DepositSum(claims)

(* A user's coin only grows, or shrinks by what was not locked.            *)
Spares(u) == \/ bal'[u] >= bal[u]
             \/ \E n \in Nat : bal'[u] = bal[u] - n /\ Disposable(u) >= n

(* The record of c becomes z, and the coin in escrow moves with it.        *)
Rewrites(c, z) ==
  /\ claims' = [claims EXCEPT ![c] = z] /\ Sound(z)
  /\ Coins(bal') /\ \A u \in Users : Spares(u)
  /\ bal'[Escrow] = bal[Escrow] - Held(claims[c]) + Held(z)
  /\ deposits' = deposits - OnDeposit(claims[c]) + OnDeposit(z)

LEMMA RewritesKeep ==
  ASSUME EInv, NEW c \in Claims, NEW z, Rewrites(c, z), UNCHANGED <<now, sealed>>
  PROVE  EInv'
<1> DEFINE after == [claims EXCEPT ![c] = z]
<1>1. /\ SoundAll(after)
      /\ HeldSum(after) = HeldSum(claims) - Held(claims[c]) + Held(z)
      /\ DepositSum(after) = DepositSum(claims) - OnDeposit(claims[c]) + OnDeposit(z)
  BY SumsMove DEF EInv, Rewrites
<1>2. claims' = after
  BY DEF Rewrites
<1> HIDE DEF after
<1>3. SoundAll(claims')
  BY <1>1, <1>2
<1>4. bal'[Escrow] = HeldSum(claims')
  BY <1>1, <1>2 DEF EInv, Rewrites
<1>5. deposits' = DepositSum(claims')
  BY <1>1, <1>2 DEF EInv, Rewrites
<1> QED
  BY <1>3, <1>4, <1>5 DEF EInv, Rewrites

(* Coin that leaves escrow for a claim's books.                            *)
LEMMA LeavesRewrites ==
  ASSUME EInv, NEW c \in Claims, NEW z, Sound(z), claims' = [claims EXCEPT ![c] = z],
         NEW n, Leaves(bal, bal', n), Held(claims[c]) = Held(z) + n,
         deposits' = deposits - OnDeposit(claims[c]) + OnDeposit(z)
  PROVE  Rewrites(c, z)
<1>1. Sound(claims[c])
  BY DEF EInv, SoundAll
<1>2. Held(claims[c]) \in Nat /\ Held(z) \in Nat
  BY <1>1, HeldIsNat
<1>3. bal[Escrow] \in Int /\ n \in Nat /\ bal'[Escrow] = bal[Escrow] - n
  BY Places DEF EInv, Coins, Leaves
<1>4. bal'[Escrow] = bal[Escrow] - Held(claims[c]) + Held(z)
  <2> DEFINE h == Held(claims[c])
             g == Held(z)
  <2>1. h \in Nat /\ g \in Nat /\ h = g + n
    BY <1>2
  <2> HIDE DEF h, g
  <2>2. bal'[Escrow] = bal[Escrow] - h + g
    BY <1>3, <2>1
  <2> QED
    BY <2>2 DEF h, g
<1> QED
  BY <1>4 DEF Rewrites, Leaves, Spares

(* Coin that a user puts in escrow for a claim's books.                    *)
LEMMA PaidRewrites ==
  ASSUME EInv, NEW c \in Claims, NEW z, Sound(z), claims' = [claims EXCEPT ![c] = z],
         NEW who \in Users, NEW n, n \in Nat, Disposable(who) >= n, bal' = Pay(bal, who, Escrow, n),
         Held(z) = Held(claims[c]) + n,
         deposits' = deposits - OnDeposit(claims[c]) + OnDeposit(z)
  PROVE  Rewrites(c, z)
<1>1. Sound(claims[c]) /\ Coins(bal)
  BY DEF EInv, SoundAll
<1>2. Held(claims[c]) \in Nat /\ Held(z) \in Nat
  BY <1>1, HeldIsNat
<1>3. /\ Coins(bal') /\ bal'[Escrow] = bal[Escrow] + n /\ bal'[who] = bal[who] - n
      /\ \A v \in Users \ {who} : bal'[v] = bal[v]
  BY <1>1, PaysIn
<1>4. \A u \in Holders : bal[u] \in Int
  BY <1>1 DEF Coins
<1>5. ASSUME NEW u \in Users PROVE Spares(u)
  <2>1. CASE u = who
    BY <1>3, <2>1 DEF Spares
  <2>2. CASE u # who
    <3>1. bal'[u] = bal[u] /\ bal[u] \in Int
      BY <1>3, <1>4, <2>2, Places
    <3> QED
      BY <3>1 DEF Spares
  <2> QED
    BY <2>1, <2>2
<1>6. bal'[Escrow] = bal[Escrow] - Held(claims[c]) + Held(z)
  <2> DEFINE h == Held(claims[c])
             g == Held(z)
  <2>1. h \in Nat /\ g \in Nat /\ g = h + n /\ bal[Escrow] \in Int
    BY <1>2, <1>4, Places
  <2> HIDE DEF h, g
  <2>2. bal'[Escrow] = bal[Escrow] - h + g
    BY <1>3, <2>1
  <2> QED
    BY <2>2 DEF h, g
<1> QED
  BY <1>3, <1>5, <1>6 DEF Rewrites

-----------------------------------------------------------------------------
AsClosed(k) == [Emptied(k) EXCEPT !.closed = TRUE]
AsSettled(k) == [k EXCEPT !.verdictAt = now, !.provisional = k.answer, !.answerBond = 0]
AsFinal(k) == [k EXCEPT !.verdictAt = now, !.answerBond = 0]

LEMMA OpenClaimRewrites ==
  ASSUME EInv, NEW c \in Claims, NEW who \in Users, OpenClaim(c, who)
  PROVE  Rewrites(c, AsOpened(who, now))
<1> DEFINE k == claims[c]
           z == AsOpened(who, now)
           n == Deposit + Part(Deposit, 1000)
<1>1. Sound(k) /\ ~Opened(k)
  BY DEF EInv, SoundAll, OpenClaim
<1>2. Sound(z) /\ Deposit \in Nat /\ Part(Deposit, 1000) \in Nat
  BY OpenedSound, PartIs, CourtAssumption DEF EInv
<1>3. /\ z.deposit = Deposit /\ z.fee = Part(Deposit, 1000) /\ z.answerBond = 0 /\ z.disputeBond = 0
  BY DEF AsOpened, NoClaim
<1>4. /\ k.deposit = 0 /\ k.fee = 0 /\ k.answerBond = 0 /\ k.disputeBond = 0
  BY <1>1 DEF Sound, Phased
<1>5. /\ Held(k) = 0 /\ OnDeposit(k) = 0 /\ Held(z) = n /\ OnDeposit(z) = n /\ n \in Nat
  BY <1>2, <1>3, <1>4 DEF Held, OnDeposit
<1>6. /\ claims' = [claims EXCEPT ![c] = z] /\ bal' = Pay(bal, who, Escrow, n) /\ Disposable(who) >= n
  BY DEF OpenClaim, AsOpened
<1>7. deposits' = deposits - OnDeposit(k) + OnDeposit(z)
  <2>1. deposits' = deposits + Deposit + Part(Deposit, 1000) /\ deposits \in Nat
    BY SumsAreNat DEF OpenClaim, EInv
  <2> QED
    BY <1>2, <1>5, <2>1
<1>8. Held(z) = Held(k) + n
  BY <1>5
<1> HIDE DEF n, z
<1> QED
  BY <1>2, <1>5, <1>6, <1>7, <1>8, PaidRewrites DEF z

LEMMA CloseDeadClaimRewrites ==
  ASSUME EInv, NEW c \in Claims, CloseDeadClaim(c)
  PROVE  Rewrites(c, AsClosed(claims[c]))
<1> DEFINE k == claims[c]
           z == AsClosed(k)
<1>1. Sound(k) /\ Opened(k) /\ ~k.closed /\ ~Answered(k) /\ Coins(bal)
  BY DEF EInv, SoundAll, CloseDeadClaim
<1>2. Sound(z)
  BY <1>1, ClosedSound DEF AsClosed
<1>3. /\ k.deposit \in Nat /\ k.fee \in Nat /\ k.author \in Users /\ k.answerBond \in Nat /\ k.disputeBond \in Nat
  BY <1>1 DEF Sound, Typed, Opened
<1>4. z.deposit = 0 /\ z.fee = 0 /\ z.answerBond = k.answerBond /\ z.disputeBond = k.disputeBond
  BY <1>1 DEF AsClosed, Emptied, Sound, Typed, Fields
<1>5. /\ claims' = [claims EXCEPT ![c] = z]
      /\ bal' = Burn(Pay(bal, Escrow, k.author, k.deposit), k.fee)
      /\ deposits' = deposits - k.deposit - k.fee
  BY DEF CloseDeadClaim, AsClosed
<1>6. deposits \in Nat
  BY SumsAreNat DEF EInv
<1> HIDE DEF z, k
<1>7. Leaves(bal, Pay(bal, Escrow, k.author, k.deposit), k.deposit)
  BY <1>1, <1>3, PaysOut
<1>8. Leaves(bal, bal', k.deposit + k.fee)
  <2>1. Coins(Pay(bal, Escrow, k.author, k.deposit))
    BY <1>7 DEF Leaves
  <2>2. Leaves(Pay(bal, Escrow, k.author, k.deposit), bal', k.fee)
    BY <1>3, <1>5, <2>1, Burns
  <2> QED
    BY <1>1, <1>7, <2>2, LeavesThen
<1>9. /\ Held(k) = Held(z) + (k.deposit + k.fee)
      /\ deposits' = deposits - OnDeposit(k) + OnDeposit(z)
  BY <1>3, <1>4, <1>5, <1>6 DEF Held, OnDeposit
<1> QED
  BY <1>2, <1>5, <1>8, <1>9, LeavesRewrites DEF z, k

LEMMA PostAnswerRewrites ==
  ASSUME EInv, NEW c \in Claims, NEW who \in Users, NEW side \in Sides, NEW xbar \in Nat,
         NEW conv \in [Sides -> Nat], NEW tierRef, PostAnswer(c, who, side, xbar, conv, tierRef)
  PROVE  Rewrites(c, AsAnswered(claims[c], who, side, AnswerBond(xbar, conv), now, xbar, conv, tierRef))
<1> DEFINE k == claims[c]
           n == AnswerBond(xbar, conv)
           z == AsAnswered(k, who, side, n, now, xbar, conv, tierRef)
<1>1. Sound(k) /\ Opened(k) /\ ~k.closed /\ ~Answered(k) /\ Coins(bal)
  BY DEF EInv, SoundAll, PostAnswer
<1>2. n \in Nat
  BY AnswerBondIs
<1>3. /\ claims' = [claims EXCEPT ![c] = z]
      /\ bal' = Pay(bal, who, Escrow, n) /\ Disposable(who) >= n /\ deposits' = deposits
  BY DEF PostAnswer, AsAnswered
<1> HIDE DEF n, k
<1>4. Sound(z)
  BY <1>1, <1>2, AnsweredSound
<1>5. /\ k.deposit \in Nat /\ k.fee \in Nat /\ k.answerBond = 0 /\ k.disputeBond \in Nat
  BY <1>1 DEF Sound, Typed, Phased
<1>6. z.deposit = k.deposit /\ z.fee = k.fee /\ z.answerBond = n /\ z.disputeBond = k.disputeBond
  BY <1>1 DEF AsAnswered, Sound, Typed, Fields
<1>7. deposits \in Nat
  BY SumsAreNat DEF EInv
<1> HIDE DEF z
<1>8. /\ Held(z) = Held(k) + n
      /\ deposits' = deposits - OnDeposit(k) + OnDeposit(z)
  BY <1>2, <1>3, <1>5, <1>6, <1>7 DEF Held, OnDeposit
<1> QED
  BY <1>2, <1>3, <1>4, <1>8, PaidRewrites DEF z, k, n

-----------------------------------------------------------------------------
(* 6. Each of a claim's operations rewrites one record, and its coin with  *)
(* it.                                                                     *)

LEMMA SettleRewrites ==
  ASSUME EInv, NEW c \in Claims, SettleUndisputed(c)
  PROVE  Rewrites(c, AsSettled(claims[c]))
<1> DEFINE k == claims[c]
           z == AsSettled(k)
<1>1. Sound(k) /\ Answered(k) /\ k.round = 0 /\ Coins(bal) /\ now \in Nat \ {0}
  BY DEF EInv, SoundAll, SettleUndisputed
<1>2. /\ claims' = [claims EXCEPT ![c] = z] /\ bal' = BondBack(bal, k) /\ deposits' = deposits
  BY DEF SettleUndisputed, AsSettled
<1> HIDE DEF k
<1>3. Sound(z)
  BY <1>1, SettledSound DEF AsSettled
<1>4. k.deposit \in Nat /\ k.fee \in Nat /\ k.answerBond \in Nat /\ k.disputeBond \in Nat
  BY <1>1 DEF Sound, Typed
<1>5. z.deposit = k.deposit /\ z.fee = k.fee /\ z.answerBond = 0 /\ z.disputeBond = k.disputeBond
  BY <1>1 DEF AsSettled, Sound, Typed, Fields
<1>6. deposits \in Nat
  BY SumsAreNat DEF EInv
<1> HIDE DEF z
<1>7. Leaves(bal, bal', k.answerBond)
  BY <1>1, <1>2, BondGoesBack
<1>8. /\ Held(k) = Held(z) + k.answerBond
      /\ deposits' = deposits - OnDeposit(k) + OnDeposit(z)
  BY <1>2, <1>4, <1>5, <1>6 DEF Held, OnDeposit
<1> QED
  BY <1>2, <1>3, <1>7, <1>8, LeavesRewrites DEF z, k

LEMMA FinalizeRewrites ==
  ASSUME EInv, NEW c \in Claims, NEW who, Finalize(c, who)
  PROVE  Rewrites(c, AsFinal(claims[c]))
<1> DEFINE k == claims[c]
           z == AsFinal(k)
<1>1. Sound(k) /\ ~k.disputeOpen /\ k.provisional # None /\ Coins(bal) /\ now \in Nat \ {0}
  BY DEF EInv, SoundAll, Finalize
<1>2. /\ claims' = [claims EXCEPT ![c] = z] /\ bal' = BondBack(bal, k) /\ deposits' = deposits
  BY DEF Finalize, AsFinal
<1> HIDE DEF k
<1>3. Answered(k)
  BY <1>1 DEF Sound, Phased
<1>4. Sound(z)
  BY <1>1, <1>3, FinalSound DEF AsFinal
<1>5. k.deposit \in Nat /\ k.fee \in Nat /\ k.answerBond \in Nat /\ k.disputeBond \in Nat
  BY <1>1 DEF Sound, Typed
<1>6. z.deposit = k.deposit /\ z.fee = k.fee /\ z.answerBond = 0 /\ z.disputeBond = k.disputeBond
  BY <1>1 DEF AsFinal, Sound, Typed, Fields
<1>7. deposits \in Nat
  BY SumsAreNat DEF EInv
<1> HIDE DEF z
<1>8. Leaves(bal, bal', k.answerBond)
  BY <1>1, <1>2, <1>3, BondGoesBack
<1>9. /\ Held(k) = Held(z) + k.answerBond
      /\ deposits' = deposits - OnDeposit(k) + OnDeposit(z)
  BY <1>2, <1>5, <1>6, <1>7 DEF Held, OnDeposit
<1> QED
  BY <1>2, <1>4, <1>8, <1>9, LeavesRewrites DEF z, k

CarrotOf(k) == (k.conv[WinningSide(k)] * 7) \div 100

AsRewarded(k) ==
  [Emptied(k) EXCEPT !.rewardsOpened = TRUE, !.want = Entitlement(k), !.carrotTotal = CarrotOf(k),
                     !.carrotPool = CarrotOf(k), !.answerBond = 0]

LEMMA OpenRewardsRewrites ==
  ASSUME EInv, NEW c \in Claims, NEW who, OpenRewards(c, who)
  PROVE  Rewrites(c, AsRewarded(claims[c]))
<1> DEFINE k == claims[c]
           z == AsRewarded(k)
           n == k.deposit + k.fee
           paid == Pay(bal, Escrow, k.author, n)
<1>1. Sound(k) /\ Final(k) /\ ~k.rewardsOpened /\ ~k.closed /\ Coins(bal)
  BY DEF EInv, SoundAll, OpenRewards
<1>2. /\ claims' = [claims EXCEPT ![c] = z] /\ bal' = BondBack(paid, k)
      /\ deposits' = deposits - k.deposit - k.fee
  BY DEF OpenRewards, AsRewarded, CarrotOf
<1> HIDE DEF k
<1>3. Answered(k)
  BY <1>1 DEF Sound, Phased, Final
<1>4. Sound(z)
  BY <1>1, RewardedSound DEF AsRewarded
<1>5. /\ k.deposit \in Nat /\ k.fee \in Nat /\ k.answerBond \in Nat /\ k.disputeBond \in Nat
      /\ k.author \in Users
  BY <1>1, <1>3 DEF Sound, Typed, Phased, Opened
<1>6. z.deposit = 0 /\ z.fee = 0 /\ z.answerBond = 0 /\ z.disputeBond = k.disputeBond
  <2> DEFINE e == Emptied(k)
  <2>1. e.deposit = 0 /\ e.fee = 0 /\ e.disputeBond = k.disputeBond /\ DOMAIN e = Fields
    BY <1>1 DEF Emptied, Sound, Typed, Fields
  <2> HIDE DEF e
  <2>2. {"deposit", "fee", "answerBond", "disputeBond"} \subseteq DOMAIN e
    BY <2>1 DEF Fields
  <2>3. z = [e EXCEPT !.rewardsOpened = TRUE, !.want = Entitlement(k), !.carrotTotal = CarrotOf(k),
                      !.carrotPool = CarrotOf(k), !.answerBond = 0]
    BY DEF AsRewarded, e
  <2> QED
    BY <2>1, <2>2, <2>3
<1>7. deposits \in Nat
  BY SumsAreNat DEF EInv
<1> HIDE DEF z
<1>8. n \in Nat /\ Leaves(bal, paid, n) /\ Coins(paid)
  <2>1. n \in Nat
    BY <1>5
  <2> HIDE DEF n
  <2> QED
    BY <1>1, <1>5, <2>1, PaysOut DEF Leaves
<1> HIDE DEF paid
<1>9. Leaves(paid, bal', k.answerBond)
  BY <1>1, <1>2, <1>3, <1>8, BondGoesBack
<1>10. Leaves(bal, bal', n + k.answerBond)
  BY <1>1, <1>8, <1>9, LeavesThen
<1>11. /\ Held(k) = Held(z) + (n + k.answerBond)
       /\ deposits' = deposits - OnDeposit(k) + OnDeposit(z)
  BY <1>2, <1>5, <1>6, <1>7 DEF Held, OnDeposit
<1> QED
  BY <1>2, <1>4, <1>10, <1>11, LeavesRewrites DEF z, k

NewBallot(k) ==
  [NoBallot EXCEPT
     !.total = Total(sealed), !.engaged = Total(sealed), !.roll = [u \in Users |-> sealed[u]],
     !.quorumFloor = QuorumFloor(k.xbar), !.closes = now + VotingTime]

LEMMA NewBallotIs ==
  ASSUME NEW k, Coins(sealed)
  PROVE  /\ Tallied(NewBallot(k))
         /\ NewBallot(k).yes = 0 /\ NewBallot(k).no = 0 /\ NewBallot(k).abstain = 0
         /\ NewBallot(k).closes = now + VotingTime
<1> DEFINE roll == [u \in Users |-> sealed[u]]
           t == Total(sealed)
           f == QuorumFloor(k.xbar)
           z == [NoBallot EXCEPT !.total = t, !.engaged = t, !.roll = roll, !.quorumFloor = f,
                                 !.closes = now + VotingTime]
<1>1. roll \in [Users -> Int]
  BY Places DEF Coins
<1>2. NewBallot(k) = z
  BY DEF NewBallot
<1> HIDE DEF roll, t, f
<1>3. /\ z.yes = 0 /\ z.no = 0 /\ z.abstain = 0 /\ z.closes = now + VotingTime /\ z.roll = roll
      /\ {"yes", "no", "abstain"} \subseteq DOMAIN z
  BY DEF NoBallot
<1> QED
  BY <1>1, <1>2, <1>3 DEF Tallied

LEMMA OpenDisputeRewrites ==
  ASSUME EInv, NEW c \in Claims, NEW who \in Users, OpenDispute(c, who)
  PROVE  Rewrites(c, AsDisputed(claims[c], who, DisputeBond(claims[c]), NewBallot(claims[c])))
<1> DEFINE k == claims[c]
           n == DisputeBond(k)
           b == NewBallot(k)
           z == AsDisputed(k, who, n, b)
<1>1. Sound(k) /\ Answered(k) /\ ~Final(k) /\ ~k.disputeOpen /\ Coins(bal)
  BY DEF EInv, SoundAll, OpenDispute
<1>2. n \in Nat
  BY <1>1, DisputeBondIs DEF Sound
<1>3. /\ claims' = [claims EXCEPT ![c] = z]
      /\ bal' = Pay(bal, who, Escrow, n) /\ Disposable(who) >= n /\ deposits' = deposits
  BY DEF OpenDispute, AsDisputed, NewBallot
<1>4. Tallied(b)
  BY NewBallotIs DEF EInv
<1> HIDE DEF n, k, b
<1>5. Sound(z)
  BY <1>1, <1>2, <1>4, DisputedSound
<1>6. /\ k.deposit \in Nat /\ k.fee \in Nat /\ k.answerBond \in Nat /\ k.disputeBond = 0
  BY <1>1 DEF Sound, Typed, Phased
<1>7. z.deposit = k.deposit /\ z.fee = k.fee /\ z.answerBond = k.answerBond /\ z.disputeBond = n
  BY <1>1 DEF AsDisputed, Sound, Typed, Fields
<1>8. deposits \in Nat
  BY SumsAreNat DEF EInv
<1> HIDE DEF z
<1>9. /\ Held(z) = Held(k) + n
      /\ deposits' = deposits - OnDeposit(k) + OnDeposit(z)
  BY <1>2, <1>3, <1>6, <1>7, <1>8 DEF Held, OnDeposit
<1> QED
  BY <1>2, <1>3, <1>5, <1>9, PaidRewrites DEF z, k, n, b

Weighs(k, who) == Least(k.ballot.roll[who], bal[who])

BallotOf(k, who, choice) ==
  [round |-> k.round, who |-> who, choice |-> choice, weight |-> Weighs(k, who)]

AsVoted(k, who, choice) ==
  [k EXCEPT !.ballot = BallotWith(@, choice, Weighs(k, who)),
            !.votes = @ \cup {BallotOf(k, who, choice)}]

LEMMA BallotWithIs ==
  ASSUME NEW b, Tallied(b), NEW choice \in Choices3, NEW w, w \in Nat
  PROVE  LET z == BallotWith(b, choice, w) IN
         /\ Tallied(z) /\ z.closes = b.closes
         /\ z.yes = b.yes + (IF choice = "yes" THEN w ELSE 0)
         /\ z.no = b.no + (IF choice = "no" THEN w ELSE 0)
         /\ z.abstain = b.abstain + (IF choice = "spam" THEN w ELSE 0)
  BY DEF Tallied, BallotWith

LEMMA WeighsIs ==
  ASSUME EInv, NEW c \in Claims, NEW who \in Users, Weighs(claims[c], who) > 0
  PROVE  Weighs(claims[c], who) \in Nat /\ bal[who] >= Weighs(claims[c], who)
<1> DEFINE r == claims[c].ballot.roll[who]
<1>1. bal[who] \in Int /\ r \in Int
  BY Places DEF EInv, Coins, SoundAll, Sound, Typed, Tallied
<1> HIDE DEF r
<1>2. Weighs(claims[c], who) = Least(r, bal[who])
  BY DEF Weighs, r
<1> QED
  BY <1>1, <1>2 DEF Least

LEMMA VoteDisputeRewrites ==
  ASSUME EInv, NEW c \in Claims, NEW who \in Users, NEW choice \in Choices3,
         VoteDispute(c, who, choice)
  PROVE  Rewrites(c, AsVoted(claims[c], who, choice))
<1> DEFINE k == claims[c]
           w == Weighs(k, who)
           b == BallotWith(k.ballot, choice, w)
           vs == k.votes \cup {BallotOf(k, who, choice)}
           z == [k EXCEPT !.ballot = b, !.votes = vs]
<1>1. Sound(k) /\ k.disputeOpen /\ w > 0
  BY DEF EInv, SoundAll, VoteDispute, Weighs
<1>2. w \in Nat
  BY <1>1, WeighsIs
<1>3. AsVoted(k, who, choice) = z
  BY DEF AsVoted
<1>4. claims' = [claims EXCEPT ![c] = AsVoted(k, who, choice)] /\ bal' = bal /\ deposits' = deposits
  BY DEF VoteDispute, AsVoted, Weighs, BallotOf
<1> HIDE DEF w, k
<1>5. Tallied(k.ballot)
  BY <1>1 DEF Sound, Typed
<1>6. Tallied(b)
  BY <1>2, <1>5, BallotWithIs
<1> HIDE DEF b, vs
<1>7. Sound(z)
  BY <1>1, <1>6, VotedSound
<1>8. z.deposit = k.deposit /\ z.fee = k.fee /\ z.answerBond = k.answerBond /\ z.disputeBond = k.disputeBond
  BY <1>1 DEF Sound, Typed, Fields
<1> HIDE DEF z
<1>9. k.deposit \in Nat /\ k.fee \in Nat /\ k.answerBond \in Nat /\ k.disputeBond \in Nat /\ deposits \in Nat
  BY <1>1, SumsAreNat DEF EInv, Sound, Typed
<1>10. /\ Held(k) = Held(z) + 0
       /\ deposits' = deposits - OnDeposit(k) + OnDeposit(z)
  BY <1>4, <1>8, <1>9 DEF Held, OnDeposit
<1>11. Leaves(bal, bal', 0)
  BY <1>4, LeavesNothing DEF EInv
<1> QED
  BY <1>3, <1>4, <1>7, <1>10, <1>11, LeavesRewrites DEF k

AsPulled(k, who, w) ==
  [k EXCEPT !.pulled = @ \cup {who}, !.carrotPool = @ - Least(Share(k, w), @)]

LEMMA PullCarrotRewrites ==
  ASSUME EInv, NEW c \in Claims, NEW who, PullCarrot(c, who)
  PROVE  \E v \in WithVerdict(claims[c]) :
           v.who = who /\ who \notin claims[c].pulled /\ Rewrites(c, AsPulled(claims[c], who, v.weight))
<1> DEFINE k == claims[c]
<1>1. PICK v \in WithVerdict(k) :
        v.who = who /\ claims' = [claims EXCEPT ![c] = AsPulled(k, who, v.weight)]
  BY DEF PullCarrot, AsPulled
<1> DEFINE p == k.pulled \cup {who}
           q == k.carrotPool - Least(Share(k, v.weight), k.carrotPool)
           z == [k EXCEPT !.pulled = p, !.carrotPool = q]
<1>2. AsPulled(k, who, v.weight) = z
  BY DEF AsPulled
<1>3. Sound(k) /\ bal' = bal /\ deposits' = deposits /\ who \notin k.pulled
  BY DEF EInv, SoundAll, PullCarrot
<1> HIDE DEF k, p, q
<1>4. Sound(z)
  BY <1>3, PulledSound
<1>5. z.deposit = k.deposit /\ z.fee = k.fee /\ z.answerBond = k.answerBond /\ z.disputeBond = k.disputeBond
  BY <1>3 DEF Sound, Typed, Fields
<1> HIDE DEF z
<1>6. k.deposit \in Nat /\ k.fee \in Nat /\ k.answerBond \in Nat /\ k.disputeBond \in Nat /\ deposits \in Nat
  BY <1>3, SumsAreNat DEF EInv, Sound, Typed
<1>7. /\ Held(k) = Held(z) + 0
      /\ deposits' = deposits - OnDeposit(k) + OnDeposit(z)
  BY <1>3, <1>5, <1>6 DEF Held, OnDeposit
<1>8. Leaves(bal, bal', 0)
  BY <1>3, LeavesNothing DEF EInv
<1>9. Rewrites(c, z)
  BY <1>1, <1>2, <1>4, <1>7, <1>8, LeavesRewrites DEF k
<1> QED
  BY <1>1, <1>2, <1>3, <1>9 DEF k

-----------------------------------------------------------------------------
(* 7. The operations that resolve a round or close a claim.                *)

LEMMA ResolvedHeld ==
  ASSUME NEW m, Resolvable(m), now \in Nat, NEW first \in BOOLEAN
  PROVE  /\ Held(AsResolved(m, first)) = OnDeposit(m) + m.answerBond
         /\ OnDeposit(AsResolved(m, first)) = OnDeposit(m)
<1> DEFINE z == AsResolved(m, first)
<1>1. Typed(m)
  BY DEF Resolvable
<1>2. (\A f \in Timed : z[f] = m[f]) /\ z.disputeBond = 0
  BY <1>1, ResolvedIs
<1> HIDE DEF z
<1>3. {"deposit", "fee", "answerBond"} \subseteq Timed
  BY DEF Timed, Fields
<1>4. z.deposit = m.deposit /\ z.fee = m.fee /\ z.answerBond = m.answerBond
  BY <1>2, <1>3
<1>5. m.deposit \in Nat /\ m.fee \in Nat /\ m.answerBond \in Nat
  BY <1>1 DEF Typed
<1>6. Held(z) = OnDeposit(m) + m.answerBond /\ OnDeposit(z) = OnDeposit(m)
  BY <1>2, <1>4, <1>5 DEF Held, OnDeposit
<1> QED
  BY <1>6 DEF z

First(c) == claims[c].provisional = None

(* A round's outcome m, whose bonds and deposits have left escrow.         *)
LEMMA ClosingRewrites ==
  ASSUME EInv, NEW c \in Claims, NEW m, Resolvable(m), Closing(c, m),
         NEW n, Leaves(bal, bal', n), Held(claims[c]) = OnDeposit(m) + m.answerBond + n,
         deposits' = deposits - OnDeposit(claims[c]) + OnDeposit(m)
  PROVE  Rewrites(c, AsResolved(m, First(c)))
<1> DEFINE first == First(c)
           z == AsResolved(m, first)
<1>1. first \in BOOLEAN /\ now \in Nat
  BY DEF EInv, First
<1>2. claims' = [claims EXCEPT ![c] = z]
  BY DEF Closing, AsResolved, First
<1> HIDE DEF first
<1>3. Sound(z)
  BY <1>1, ResolvedSound
<1>4. Held(z) = OnDeposit(m) + m.answerBond /\ OnDeposit(z) = OnDeposit(m)
  BY <1>1, ResolvedHeld
<1> HIDE DEF z
<1>5. Held(claims[c]) = Held(z) + n /\ deposits' = deposits - OnDeposit(claims[c]) + OnDeposit(z)
  BY <1>4
<1> QED
  BY <1>2, <1>3, <1>5, LeavesRewrites DEF z, first

(* A claim in an open round, with its amounts.                             *)
LEMMA RoundAmounts ==
  ASSUME EInv, NEW c \in Claims, claims[c].disputeOpen
  PROVE  LET k == claims[c] IN
         /\ Sound(k) /\ Answered(k) /\ Resolvable(k)
         /\ k.disputer \in Users /\ k.author \in Users
         /\ k.deposit \in Nat /\ k.fee \in Nat /\ k.answerBond \in Nat /\ k.disputeBond \in Nat
         /\ Coins(bal) /\ now \in Nat \ {0} /\ deposits \in Nat
<1>1. Sound(claims[c])
  BY DEF EInv, SoundAll
<1>2. deposits \in Nat
  BY SumsAreNat DEF EInv
<1> QED
  BY <1>1, <1>2, OpenRound, OpenResolvable DEF EInv, Sound, Typed

(* A round without a quorum returns half of its bond and burns the rest,   *)
(* and the third in a row returns all that the claim holds.                *)
Ending(k) == AsFailed(k).failedRounds >= MaxFailedRounds

LEMMA FailedRewrites ==
  ASSUME EInv, NEW c \in Claims, claims[c].disputeOpen, FailedQuorum(c)
  PROVE  LET k == claims[c]
             m == IF Ending(k) THEN ProvClosed(AsFailed(k)) ELSE AsFailed(k)
         IN  Rewrites(c, AsResolved(m, First(c)))
<1> DEFINE k == claims[c]
           failed == AsFailed(k)
           db == k.disputeBond
           half == db \div 2
           paid == Pay(bal, Escrow, k.disputer, half)
           returned == Burn(paid, db - half)
<1>1. /\ Sound(k) /\ Answered(k) /\ k.disputer \in Users /\ k.author \in Users
      /\ k.deposit \in Nat /\ k.fee \in Nat /\ k.answerBond \in Nat /\ db \in Nat
      /\ Coins(bal) /\ now \in Nat \ {0} /\ deposits \in Nat /\ k.disputeOpen
  BY RoundAmounts
<1>2. IF Ending(k)
      THEN /\ bal' = Pay(BondBack(returned, k), Escrow, k.author, k.deposit + k.fee)
           /\ deposits' = deposits - k.deposit - k.fee
           /\ Closing(c, ProvClosed(failed))
      ELSE bal' = returned /\ UNCHANGED deposits /\ Closing(c, failed)
  BY DEF FailedQuorum, AsFailed, Ending
<1> HIDE DEF k
<1>3. half \in Nat /\ db - half \in Nat /\ half + (db - half) = db
  BY <1>1
<1>4. Leaves(bal, returned, db) /\ Coins(returned)
  <2> HIDE DEF half, db
  <2>1. Leaves(bal, paid, half) /\ Coins(paid)
    BY <1>1, <1>3, PaysOut DEF Leaves
  <2>2. Leaves(paid, returned, db - half)
    BY <1>3, <2>1, Burns
  <2> HIDE DEF paid, returned
  <2>3. Leaves(bal, returned, half + (db - half))
    BY <1>1, <2>1, <2>2, LeavesThen
  <2> QED
    BY <1>3, <2>3 DEF Leaves
<1>5. Resolvable(failed)
  BY <1>1, FailedResolvable
<1>6. failed.deposit = k.deposit /\ failed.fee = k.fee /\ failed.answerBond = k.answerBond
  BY <1>1 DEF AsFailed, Sound, Typed, Fields
<1> HIDE DEF failed, returned
<1>7. CASE Ending(k)
  <2> DEFINE m == ProvClosed(failed)
             back == BondBack(returned, k)
             rest == k.deposit + k.fee
  <2>1. Resolvable(m)
    BY <1>1, <1>5, ProvClosedResolvable
  <2>2. m.deposit = 0 /\ m.fee = 0 /\ m.answerBond = 0
    BY <1>5 DEF ProvClosed, Emptied, Resolvable, Typed, Fields
  <2>3. Closing(c, m) /\ bal' = Pay(back, Escrow, k.author, rest)
        /\ deposits' = deposits - k.deposit - k.fee
    BY <1>2, <1>7
  <2> HIDE DEF m
  <2>4. Leaves(returned, back, k.answerBond) /\ Coins(back)
    BY <1>1, <1>4, BondGoesBack DEF Leaves
  <2>5. rest \in Nat
    BY <1>1
  <2> HIDE DEF back, rest
  <2>6. Leaves(back, bal', rest)
    BY <1>1, <2>3, <2>4, <2>5, PaysOut
  <2>7. Leaves(returned, bal', k.answerBond + rest)
    BY <1>4, <2>4, <2>6, LeavesThen
  <2>8. Leaves(bal, bal', db + (k.answerBond + rest))
    BY <1>1, <1>4, <2>7, LeavesThen
  <2>9. /\ Held(k) = OnDeposit(m) + m.answerBond + (db + (k.answerBond + rest))
        /\ deposits' = deposits - OnDeposit(k) + OnDeposit(m)
    BY <1>1, <2>2, <2>3 DEF Held, OnDeposit, rest
  <2>10. Rewrites(c, AsResolved(m, First(c)))
    BY <2>1, <2>3, <2>8, <2>9, ClosingRewrites DEF k
  <2> QED
    BY <1>7, <2>10 DEF m, k, failed
<1>8. CASE ~Ending(k)
  <2>1. Closing(c, failed) /\ bal' = returned /\ deposits' = deposits
    BY <1>2, <1>8
  <2>2. Leaves(bal, bal', db)
    BY <1>4, <2>1
  <2>3. /\ Held(k) = OnDeposit(failed) + failed.answerBond + db
        /\ deposits' = deposits - OnDeposit(k) + OnDeposit(failed)
    BY <1>1, <1>6, <2>1 DEF Held, OnDeposit
  <2>4. Rewrites(c, AsResolved(failed, First(c)))
    BY <1>5, <2>1, <2>2, <2>3, ClosingRewrites DEF k
  <2> QED
    BY <1>8, <2>4 DEF k, failed
<1> QED
  BY <1>7, <1>8 DEF k

LEMMA DiscardRewrites ==
  ASSUME EInv, NEW c \in Claims, claims[c].disputeOpen, Discard(c)
  PROVE  Rewrites(c, AsResolved(AsDiscarded(claims[c]), First(c)))
<1> DEFINE k == claims[c]
           m == AsDiscarded(k)
           back == BondBack(bal, k)
           paid == Pay(back, Escrow, k.disputer, k.disputeBond)
           returned == Burn(paid, k.fee)
<1>1. /\ Sound(k) /\ Answered(k) /\ k.disputer \in Users /\ k.author \in Users
      /\ k.deposit \in Nat /\ k.fee \in Nat /\ k.answerBond \in Nat /\ k.disputeBond \in Nat
      /\ Coins(bal) /\ now \in Nat \ {0} /\ deposits \in Nat /\ k.disputeOpen
  BY RoundAmounts
<1>2. /\ bal' = (IF SpamBurnsDeposit(k.ballot) THEN Burn(returned, k.deposit)
                 ELSE Pay(returned, Escrow, k.author, k.deposit))
      /\ deposits' = deposits - k.deposit - k.fee
      /\ Closing(c, m)
  BY DEF Discard, AsDiscarded
<1> HIDE DEF k
<1>3. Resolvable(m)
  BY <1>1, DiscardedResolvable
<1>4. m.deposit = 0 /\ m.fee = 0 /\ m.answerBond = 0
  <2> DEFINE p == ProvClosed(k)
  <2>1. p.deposit = 0 /\ p.fee = 0 /\ p.answerBond = 0 /\ DOMAIN p = Fields
    BY <1>1 DEF ProvClosed, Emptied, Sound, Typed, Fields
  <2> HIDE DEF p
  <2>2. m = [p EXCEPT !.spamClosed = TRUE, !.decided = k.round, !.carrotChoice = "spam",
                      !.carrotDenom = k.ballot.abstain,
                      !.spamW = k.ballot.abstain, !.spamTotalW = Turnout(k.ballot)]
    BY DEF AsDiscarded, p
  <2>3. {"deposit", "fee", "answerBond"} \subseteq DOMAIN p
    BY <2>1 DEF Fields
  <2> QED
    BY <2>1, <2>2, <2>3
<1> HIDE DEF m
<1>5. Leaves(bal, back, k.answerBond) /\ Coins(back)
  BY <1>1, BondGoesBack DEF Leaves
<1> HIDE DEF back
<1>6. Leaves(back, paid, k.disputeBond) /\ Coins(paid)
  BY <1>1, <1>5, PaysOut, ZenonT(30) DEF Leaves
<1> HIDE DEF paid
<1>7. Leaves(paid, returned, k.fee) /\ Coins(returned)
  BY <1>1, <1>6, Burns DEF Leaves
<1> HIDE DEF returned
<1>8. Leaves(returned, bal', k.deposit)
  BY <1>1, <1>2, <1>7, Burns, PaysOut
<1>9. Leaves(paid, bal', k.fee + k.deposit)
  BY <1>6, <1>7, <1>8, LeavesThen
<1>10. Leaves(back, bal', k.disputeBond + (k.fee + k.deposit))
  BY <1>5, <1>6, <1>9, LeavesThen
<1>11. Leaves(bal, bal', k.answerBond + (k.disputeBond + (k.fee + k.deposit)))
  BY <1>1, <1>5, <1>10, LeavesThen
<1>12. /\ Held(k) = OnDeposit(m) + m.answerBond + (k.answerBond + (k.disputeBond + (k.fee + k.deposit)))
       /\ deposits' = deposits - OnDeposit(k) + OnDeposit(m)
  BY <1>1, <1>2, <1>4 DEF Held, OnDeposit
<1> QED
  BY <1>2, <1>3, <1>11, <1>12, ClosingRewrites DEF k, m

LEMMA OverturnRewrites ==
  ASSUME EInv, NEW c \in Claims, claims[c].disputeOpen, Overturn(c)
  PROVE  Rewrites(c, AsResolved(AsOverturned(claims[c]), First(c)))
<1> DEFINE k == claims[c]
           m == AsOverturned(k)
           burnt == Burn(bal, k.answerBond)
<1>1. /\ Sound(k) /\ k.disputer \in Users
      /\ k.deposit \in Nat /\ k.fee \in Nat /\ k.answerBond \in Nat /\ k.disputeBond \in Nat
      /\ Coins(bal) /\ deposits \in Nat /\ k.disputeOpen
  BY RoundAmounts
<1>2. /\ bal' = Pay(burnt, Escrow, k.disputer, k.disputeBond) /\ deposits' = deposits
      /\ Closing(c, m)
  BY DEF Overturn, AsOverturned
<1> HIDE DEF k
<1>3. Resolvable(m)
  BY <1>1, OverturnedResolvable
<1>4. m.deposit = k.deposit /\ m.fee = k.fee /\ m.answerBond = 0
  <2> DEFINE p == Decided(k, Opposite(k.answer), "yes", k.ballot.yes)
  <2>1. p.deposit = k.deposit /\ p.fee = k.fee /\ DOMAIN p = Fields
    BY <1>1 DEF Decided, Sound, Typed, Fields
  <2> HIDE DEF p
  <2>2. m = [p EXCEPT !.answerBond = 0]
    BY DEF AsOverturned, p
  <2> QED
    BY <2>1, <2>2 DEF Fields
<1> HIDE DEF m
<1>5. Leaves(bal, burnt, k.answerBond) /\ Coins(burnt)
  BY <1>1, Burns DEF Leaves
<1> HIDE DEF burnt
<1>6. Leaves(burnt, bal', k.disputeBond)
  BY <1>1, <1>2, <1>5, PaysOut
<1>7. Leaves(bal, bal', k.answerBond + k.disputeBond)
  BY <1>1, <1>5, <1>6, LeavesThen
<1>8. /\ Held(k) = OnDeposit(m) + m.answerBond + (k.answerBond + k.disputeBond)
      /\ deposits' = deposits - OnDeposit(k) + OnDeposit(m)
  BY <1>1, <1>2, <1>4 DEF Held, OnDeposit
<1> QED
  BY <1>2, <1>3, <1>7, <1>8, ClosingRewrites DEF k, m

LEMMA UpholdRewrites ==
  ASSUME EInv, NEW c \in Claims, claims[c].disputeOpen, Uphold(c)
  PROVE  Rewrites(c, AsResolved(AsUpheld(claims[c]), First(c)))
<1> DEFINE k == claims[c]
           m == AsUpheld(k)
<1>1. /\ Sound(k)
      /\ k.deposit \in Nat /\ k.fee \in Nat /\ k.answerBond \in Nat /\ k.disputeBond \in Nat
      /\ Coins(bal) /\ deposits \in Nat /\ k.disputeOpen
  BY RoundAmounts
<1>2. bal' = Burn(bal, k.disputeBond) /\ deposits' = deposits /\ Closing(c, m)
  BY DEF Uphold, AsUpheld
<1> HIDE DEF k
<1>3. Resolvable(m)
  BY <1>1, UpheldResolvable
<1>4. m.deposit = k.deposit /\ m.fee = k.fee /\ m.answerBond = k.answerBond
  BY <1>1 DEF AsUpheld, Decided, Sound, Typed, Fields
<1> HIDE DEF m
<1>5. Leaves(bal, bal', k.disputeBond)
  BY <1>1, <1>2, Burns
<1>6. /\ Held(k) = OnDeposit(m) + m.answerBond + k.disputeBond
      /\ deposits' = deposits - OnDeposit(k) + OnDeposit(m)
  BY <1>1, <1>2, <1>4 DEF Held, OnDeposit
<1> QED
  BY <1>2, <1>3, <1>5, <1>6, ClosingRewrites DEF k, m

-----------------------------------------------------------------------------
(* 8. Every step of the court is a turn of one claim, or keeps them all.   *)

LEMMA People ==
  /\ Authors \subseteq Users /\ Answerers \subseteq Users /\ Disputers \subseteq Users
  /\ Voters \subseteq Users /\ AnswerSides \subseteq Sides /\ XBars \subseteq Nat
  /\ Convs \subseteq [Sides -> Nat] /\ Moves \subseteq Nat
  BY CourtAssumption DEF Sides

LEMMA InitBooks == ASSUME Init PROVE EInv
<1>1. now \in Nat \ {0}
  BY DEF Init
<1>2. Coins(bal) /\ Coins(sealed) /\ bal[Escrow] = 0
  BY Places, CourtAssumption DEF Init, Coins, Holders
<1>3. DOMAIN claims = Claims /\ \A c \in Claims : claims[c] = NoClaim
  BY DEF Init
<1>4. SoundAll(claims)
  BY <1>3, NoClaimSound DEF SoundAll
<1>5. Held(NoClaim) = 0 /\ OnDeposit(NoClaim) = 0
  BY DEF NoClaim, Held, OnDeposit
<1>6. \A c \in Claims : HeldOf(claims)[c] = 0 /\ DepositOf(claims)[c] = 0
  BY <1>3, <1>5 DEF HeldOf, DepositOf
<1>7. IsFiniteSet(Claims)
  BY CourtAssumption
<1>8. SumFunctionOnSet(HeldOf(claims), Claims) = 0 /\ SumFunctionOnSet(DepositOf(claims), Claims) = 0
  BY <1>6, <1>7, SumOfZeros
<1>9. HeldSum(claims) = 0 /\ DepositSum(claims) = 0
  BY <1>8, HeldSumIs, DepositSumIs
<1>10. deposits = 0
  BY DEF Init
<1> QED
  BY <1>1, <1>2, <1>4, <1>9, <1>10 DEF EInv

LEMMA TickBooks == ASSUME EInv, Tick PROVE EInv'
<1>1. now' \in Nat \ {0} /\ bal' = bal /\ sealed' = bal /\ claims' = claims /\ deposits' = deposits
  BY DEF EInv, Tick
<1>2. Coins(bal') /\ Coins(sealed') /\ SoundAll(claims')
  BY <1>1 DEF EInv
<1>3. bal'[Escrow] = HeldSum(claims') /\ deposits' = DepositSum(claims')
  BY <1>1 DEF EInv
<1> QED
  BY <1>1, <1>2, <1>3 DEF EInv

LEMMA TransferIs ==
  ASSUME EInv, NEW from \in Users, NEW to \in Users, NEW n \in Nat, Transfer(from, to, n)
  PROVE  Coins(bal') /\ bal'[Escrow] = bal[Escrow] /\ \A u \in Users : Spares(u)
<1>1. /\ from # to /\ Disposable(from) >= n
      /\ bal' = [bal EXCEPT ![from] = bal[from] - n, ![to] = bal[to] + n]
  BY DEF Transfer, Pay
<1>2. from \in Holders /\ to \in Holders /\ from # Escrow /\ to # Escrow /\ Escrow \in Holders
  BY Places
<1>3. bal \in [Holders -> Int]
  BY DEF EInv, Coins
<1>4. bal' \in [Holders -> Int] /\ bal'[Escrow] = bal[Escrow]
  BY <1>1, <1>2, <1>3
<1>5. ASSUME NEW u \in Users PROVE Spares(u)
  <2>1. u \in Holders /\ bal[u] \in Int
    BY <1>3, Places
  <2>2. CASE u = from
    <3>1. bal'[u] = bal[u] - n
      BY <1>1, <1>2, <1>3, <2>2
    <3> QED
      BY <1>1, <2>2, <3>1 DEF Spares
  <2>3. CASE u # from
    <3>1. bal'[u] = bal[u] \/ bal'[u] = bal[u] + n
      BY <1>1, <1>3, <2>1, <2>3
    <3>2. bal'[u] >= bal[u]
      BY <2>1, <3>1
    <3> QED
      BY <3>2 DEF Spares
  <2> QED
    BY <2>2, <2>3
<1> QED
  BY <1>4, <1>5 DEF Coins

LEMMA TransferBooks ==
  ASSUME EInv, NEW from \in Users, NEW to \in Users, NEW n \in Nat, Transfer(from, to, n)
  PROVE  EInv'
<1>1. Coins(bal') /\ bal'[Escrow] = bal[Escrow]
  BY TransferIs
<1>2. claims' = claims /\ now' = now /\ sealed' = sealed /\ deposits' = deposits
  BY DEF Transfer
<1>3. SoundAll(claims') /\ HeldSum(claims') = HeldSum(claims) /\ DepositSum(claims') = DepositSum(claims)
  BY <1>2 DEF EInv
<1> QED
  BY <1>1, <1>2, <1>3 DEF EInv

(* What the outcome of a round makes of the claim.                         *)
Outcome(k, m) ==
  \/ m = IF Ending(k) THEN ProvClosed(AsFailed(k)) ELSE AsFailed(k)
  \/ SpamDiscards(k.ballot) /\ m = AsDiscarded(k)
  \/ ~SpamDiscards(k.ballot) /\ Overturns(k.ballot) /\ m = AsOverturned(k)
  \/ ~SpamDiscards(k.ballot) /\ ~Overturns(k.ballot) /\ m = AsUpheld(k)

LEMMA ResolveRewrites ==
  ASSUME EInv, NEW c \in Claims, ResolveDispute(c)
  PROVE  \E m : Outcome(claims[c], m) /\ Rewrites(c, AsResolved(m, First(c)))
<1>1. claims[c].disputeOpen
  BY DEF ResolveDispute
<1>2. CASE FailedQuorum(c)
  BY <1>1, <1>2, FailedRewrites DEF Outcome
<1>3. CASE Discard(c)
  <2>1. SpamDiscards(claims[c].ballot)
    BY <1>3 DEF Discard
  <2> QED
    BY <1>1, <1>3, <2>1, DiscardRewrites DEF Outcome
<1>4. CASE Overturn(c)
  <2>1. ~SpamDiscards(claims[c].ballot) /\ Overturns(claims[c].ballot)
    BY <1>4 DEF Overturn
  <2> QED
    BY <1>1, <1>4, <2>1, OverturnRewrites DEF Outcome
<1>5. CASE Uphold(c)
  <2>1. ~SpamDiscards(claims[c].ballot) /\ ~Overturns(claims[c].ballot)
    BY <1>5 DEF Uphold
  <2> QED
    BY <1>1, <1>5, <2>1, UpholdRewrites DEF Outcome
<1> QED
  BY <1>2, <1>3, <1>4, <1>5 DEF ResolveDispute

(* The turns of a claim's life: what becomes of its record, and by what.   *)
Turn(c, z) ==
  LET k == claims[c] IN
  \/ \E who \in Users : OpenClaim(c, who) /\ z = AsOpened(who, now)
  \/ CloseDeadClaim(c) /\ z = AsClosed(k)
  \/ \E who \in Users, side \in Sides, xbar \in Nat, conv \in [Sides -> Nat] : \E tierRef :
       /\ PostAnswer(c, who, side, xbar, conv, tierRef)
       /\ z = AsAnswered(k, who, side, AnswerBond(xbar, conv), now, xbar, conv, tierRef)
  \/ SettleUndisputed(c) /\ z = AsSettled(k)
  \/ \E who \in Users :
       OpenDispute(c, who) /\ z = AsDisputed(k, who, DisputeBond(k), NewBallot(k))
  \/ \E who \in Users, choice \in Choices3 : VoteDispute(c, who, choice) /\ z = AsVoted(k, who, choice)
  \/ ResolveDispute(c) /\ \E m : Outcome(k, m) /\ z = AsResolved(m, First(c))
  \/ \E who : Finalize(c, who) /\ z = AsFinal(k)
  \/ \E who : OpenRewards(c, who) /\ z = AsRewarded(k)
  \/ \E who : \E v \in WithVerdict(k) : /\ PullCarrot(c, who) /\ v.who = who /\ who \notin k.pulled
                                       /\ z = AsPulled(k, who, v.weight)

Turns == /\ \E c \in Claims : \E z : Rewrites(c, z) /\ Turn(c, z)
         /\ UNCHANGED <<now, sealed, idle>>

Waits == /\ \/ Tick
            \/ \E from, to \in Users : \E n \in Nat : Transfer(from, to, n)
            \/ UNCHANGED vars
         /\ UNCHANGED claims

(* A step is a turn of one claim, or all the claims wait.                  *)
LEMMA StepTurns == ASSUME EInv, [Next]_vars PROVE Turns \/ Waits
<1>1. CASE Tick
  BY <1>1 DEF Tick, Waits
<1>2. ASSUME NEW from \in Voters, NEW to \in Voters, NEW n \in Moves, Transfer(from, to, n)
      PROVE  Waits
  <2>1. from \in Users /\ to \in Users /\ n \in Nat
    BY People
  <2>2. claims' = claims
    BY <1>2 DEF Transfer
  <2> QED
    BY <1>2, <2>1, <2>2 DEF Waits
<1>3. ASSUME NEW c \in Claims, NEW who \in Authors, OpenClaim(c, who) PROVE Turns
  <2>1. who \in Users
    BY People
  <2>2. Rewrites(c, AsOpened(who, now)) /\ Turn(c, AsOpened(who, now))
    BY <1>3, <2>1, OpenClaimRewrites DEF Turn
  <2>3. UNCHANGED <<now, sealed, idle>>
    BY <1>3 DEF OpenClaim
  <2> QED
    BY <2>2, <2>3 DEF Turns
<1>4. ASSUME NEW c \in Claims, CloseDeadClaim(c) PROVE Turns
  <2>1. Rewrites(c, AsClosed(claims[c])) /\ Turn(c, AsClosed(claims[c]))
    BY <1>4, CloseDeadClaimRewrites DEF Turn
  <2>2. UNCHANGED <<now, sealed, idle>>
    BY <1>4 DEF CloseDeadClaim
  <2> QED
    BY <2>1, <2>2 DEF Turns
<1>5. ASSUME NEW c \in Claims, NEW who \in Answerers, NEW side \in AnswerSides, NEW xbar \in XBars,
             NEW conv \in Convs, NEW tierRef \in TierRefs, PostAnswer(c, who, side, xbar, conv, tierRef)
      PROVE  Turns
  <2> DEFINE z == AsAnswered(claims[c], who, side, AnswerBond(xbar, conv), now, xbar, conv, tierRef)
  <2>1. who \in Users /\ side \in Sides /\ xbar \in Nat /\ conv \in [Sides -> Nat]
    BY People
  <2>2. Rewrites(c, z)
    BY <1>5, <2>1, PostAnswerRewrites
  <2>3. Turn(c, z)
    BY <1>5, <2>1 DEF Turn
  <2>4. UNCHANGED <<now, sealed, idle>>
    BY <1>5 DEF PostAnswer
  <2> QED
    BY <2>2, <2>3, <2>4 DEF Turns
<1>6. ASSUME NEW c \in Claims, SettleUndisputed(c) PROVE Turns
  <2>1. Rewrites(c, AsSettled(claims[c])) /\ Turn(c, AsSettled(claims[c]))
    BY <1>6, SettleRewrites DEF Turn
  <2>2. UNCHANGED <<now, sealed, idle>>
    BY <1>6 DEF SettleUndisputed
  <2> QED
    BY <2>1, <2>2 DEF Turns
<1>7. ASSUME NEW c \in Claims, NEW who \in Disputers, OpenDispute(c, who) PROVE Turns
  <2> DEFINE z == AsDisputed(claims[c], who, DisputeBond(claims[c]), NewBallot(claims[c]))
  <2>1. who \in Users
    BY People
  <2>2. Rewrites(c, z) /\ Turn(c, z)
    BY <1>7, <2>1, OpenDisputeRewrites DEF Turn
  <2>3. UNCHANGED <<now, sealed, idle>>
    BY <1>7 DEF OpenDispute
  <2> QED
    BY <2>2, <2>3 DEF Turns
<1>8. ASSUME NEW c \in Claims, NEW who \in Voters, NEW choice \in Choices3, VoteDispute(c, who, choice)
      PROVE  Turns
  <2> DEFINE z == AsVoted(claims[c], who, choice)
  <2>1. who \in Users
    BY People
  <2>2. Rewrites(c, z) /\ Turn(c, z)
    BY <1>8, <2>1, VoteDisputeRewrites DEF Turn
  <2>3. UNCHANGED <<now, sealed, idle>>
    BY <1>8 DEF VoteDispute
  <2> QED
    BY <2>2, <2>3 DEF Turns
<1>9. ASSUME NEW c \in Claims, ResolveDispute(c) PROVE Turns
  <2>1. PICK m : Outcome(claims[c], m) /\ Rewrites(c, AsResolved(m, First(c)))
    BY <1>9, ResolveRewrites
  <2>2. Turn(c, AsResolved(m, First(c)))
    BY <1>9, <2>1 DEF Turn
  <2>3. UNCHANGED <<now, sealed, idle>>
    BY <1>9 DEF ResolveDispute
  <2> QED
    BY <2>1, <2>2, <2>3 DEF Turns
<1>10. ASSUME NEW c \in Claims, NEW who \in Users, Finalize(c, who) PROVE Turns
  <2>1. Rewrites(c, AsFinal(claims[c])) /\ Turn(c, AsFinal(claims[c]))
    BY <1>10, FinalizeRewrites DEF Turn
  <2>2. UNCHANGED <<now, sealed, idle>>
    BY <1>10 DEF Finalize
  <2> QED
    BY <2>1, <2>2 DEF Turns
<1>11. ASSUME NEW c \in Claims, NEW who \in Users, OpenRewards(c, who) PROVE Turns
  <2>1. Rewrites(c, AsRewarded(claims[c])) /\ Turn(c, AsRewarded(claims[c]))
    BY <1>11, OpenRewardsRewrites DEF Turn
  <2>2. UNCHANGED <<now, sealed, idle>>
    BY <1>11 DEF OpenRewards
  <2> QED
    BY <2>1, <2>2 DEF Turns
<1>12. ASSUME NEW c \in Claims, NEW who \in Users, PullCarrot(c, who) PROVE Turns
  <2>1. PICK v \in WithVerdict(claims[c]) :
          v.who = who /\ who \notin claims[c].pulled /\ Rewrites(c, AsPulled(claims[c], who, v.weight))
    BY <1>12, PullCarrotRewrites
  <2>2. Turn(c, AsPulled(claims[c], who, v.weight))
    BY <1>12, <2>1 DEF Turn
  <2>3. UNCHANGED <<now, sealed, idle>>
    BY <1>12 DEF PullCarrot
  <2> QED
    BY <2>1, <2>2, <2>3 DEF Turns
<1>13. CASE UNCHANGED vars
  BY <1>13 DEF Waits, vars
<1> QED
  BY <1>1, <1>2, <1>3, <1>4, <1>5, <1>6, <1>7, <1>8, <1>9, <1>10, <1>11, <1>12, <1>13 DEF Next

LEMMA StepBooks == ASSUME EInv, [Next]_vars PROVE EInv'
<1>1. CASE Turns
  BY <1>1, RewritesKeep DEF Turns
<1>2. CASE Waits
  <2>1. CASE Tick
    BY <2>1, TickBooks
  <2>2. CASE \E from, to \in Users : \E n \in Nat : Transfer(from, to, n)
    BY <2>2, TransferBooks
  <2>3. CASE UNCHANGED vars
    BY <2>3 DEF EInv, vars
  <2> QED
    BY <1>2, <2>1, <2>2, <2>3 DEF Waits
<1> QED
  BY <1>1, <1>2, StepTurns

LEMMA BooksHold == Spec => []EInv
  BY InitBooks, StepBooks, PTL DEF Spec

(* Escrow holds exactly what the open claims are owed, and a claim that is *)
(* over has left nothing in it.                                            *)
THEOREM EscrowIsExact == Spec => []EscrowExact
<1>1. EInv => EscrowExact
  <2> SUFFICES ASSUME EInv PROVE EscrowExact
    OBVIOUS
  <2>1. /\ bal[Escrow] = MapThenSumSet(LAMBDA c : Held(claims[c]), Claims)
        /\ deposits = MapThenSumSet(LAMBDA c : OnDeposit(claims[c]), Claims)
    BY DEF EInv, HeldSum, DepositSum
  <2>2. ASSUME NEW c \in Claims
        PROVE  LET k == claims[c] IN
               /\ Final(k) => ~k.disputeOpen /\ k.answerBond = 0 /\ k.disputeBond = 0
               /\ k.closed \/ k.provClose \/ k.rewardsOpened => Held(k) = 0
    <3>1. Sound(claims[c])
      BY DEF EInv, SoundAll
    <3> QED
      BY <3>1 DEF Sound, Phased, Typed, Held, OnDeposit, Answered
  <2> QED
    BY <2>1, <2>2 DEF EscrowExact
<1> QED
  BY <1>1, BooksHold, PTL

-----------------------------------------------------------------------------
(* 9. What a juror is given never exceeds what was burned.                 *)

(* A comp is at most four fifths of what was lost.                         *)
LEMMA CompBound ==
  ASSUME NEW own, NEW lost, own \in Nat, lost \in Nat
  PROVE  Comp(own, lost) \in Nat /\ Comp(own, lost) * Bps <= lost * 8000
<1> DEFINE p == Part(lost, 8000)
           q == 2 * own
           m == Comp(own, lost)
<1>1. p \in Nat /\ p * Bps <= lost * 8000
  BY PartBound
<1>2. q \in Nat
  OBVIOUS
<1>3. m = Least(q, p)
  BY DEF Comp
<1> HIDE DEF p, q, m
<1>4. m \in Nat /\ m <= p
  BY <1>1, <1>2, <1>3 DEF Least
<1>5. Bps \in Nat
  BY TallyAssumption
<1>6. m * Bps <= p * Bps
  BY <1>1, <1>4, <1>5
<1>7. m * Bps \in Nat /\ p * Bps \in Nat
  BY <1>1, <1>4, <1>5
<1>8. lost * 8000 \in Nat
  OBVIOUS
<1> DEFINE x == m * Bps
           y == p * Bps
           w == lost * 8000
<1>9. x \in Nat /\ y \in Nat /\ w \in Nat /\ x <= y /\ y <= w
  BY <1>1, <1>6, <1>7, <1>8
<1> HIDE DEF x, y, w
<1>10. x <= w
  BY <1>9
<1> QED
  BY <1>4, <1>10 DEF x, w, m

CompsInv == awarded \in Nat /\ burned \in Nat /\ CompsWithinBurns

LEMMA CompsMove ==
  ASSUME CompsInv, NEW own, NEW lost, own \in Nat, lost \in Nat,
         burned' = burned + lost, awarded' = awarded + Comp(own, lost)
  PROVE  CompsInv'
<1> DEFINE m == Comp(own, lost)
<1>1. m \in Nat /\ m * Bps <= lost * 8000
  BY CompBound
<1> HIDE DEF m
<1>2. Bps \in Nat /\ awarded \in Nat /\ burned \in Nat /\ awarded * Bps <= burned * 8000
  BY TallyAssumption DEF CompsInv, CompsWithinBurns
<1>3. (awarded + m) * Bps = awarded * Bps + m * Bps
  BY <1>1, <1>2
<1>4. awarded * Bps \in Nat /\ m * Bps \in Nat
  BY <1>1, <1>2
<1> DEFINE x == awarded * Bps
           y == m * Bps
<1>5. x \in Nat /\ y \in Nat /\ x <= burned * 8000 /\ y <= lost * 8000
  BY <1>1, <1>2, <1>4
<1> HIDE DEF x, y
<1>6. x + y <= (burned + lost) * 8000
  BY <1>2, <1>5
<1>7. awarded' * Bps <= burned' * 8000
  <2>1. awarded' = awarded + m /\ burned' = burned + lost
    BY DEF m
  <2>2. awarded' * Bps = x + y
    BY <1>3, <2>1 DEF x, y
  <2> QED
    BY <1>6, <2>1, <2>2
<1>8. awarded' \in Nat /\ burned' \in Nat
  BY <1>1, <1>2 DEF m
<1> QED
  BY <1>7, <1>8 DEF CompsInv, CompsWithinBurns

LEMMA StepComps == ASSUME EInv, CompsInv, [Next]_vars PROVE CompsInv'
<1>1. ASSUME UNCHANGED <<awarded, burned>> PROVE CompsInv'
  BY <1>1 DEF CompsInv, CompsWithinBurns
<1>2. ASSUME NEW c \in Claims, ResolveDispute(c) PROVE CompsInv'
  <2>1. /\ claims[c].disputeBond \in Nat /\ claims[c].answerBond \in Nat
        /\ claims[c].answerBond0 \in Nat
    BY DEF EInv, SoundAll, Sound, Typed
  <2>2. CASE FailedQuorum(c)
    BY <1>1, <2>2 DEF FailedQuorum
  <2>3. CASE Discard(c)
    BY <1>1, <2>3 DEF Discard
  <2>4. CASE Overturn(c)
    <3>1. /\ burned' = burned + claims[c].answerBond
          /\ awarded' = awarded + Comp(claims[c].disputeBond, claims[c].answerBond)
      BY <2>4 DEF Overturn
    <3> QED
      BY <2>1, <3>1, CompsMove
  <2>5. CASE Uphold(c)
    <3>1. /\ burned' = burned + claims[c].disputeBond
          /\ awarded' = awarded + Comp(claims[c].answerBond0, claims[c].disputeBond)
      BY <2>5 DEF Uphold
    <3> QED
      BY <2>1, <3>1, CompsMove
  <2> QED
    BY <1>2, <2>2, <2>3, <2>4, <2>5 DEF ResolveDispute
<1>3. CASE Tick
  BY <1>1, <1>3 DEF Tick
<1>4. ASSUME NEW from \in Voters, NEW to \in Voters, NEW n \in Moves, Transfer(from, to, n)
      PROVE  CompsInv'
  BY <1>1, <1>4 DEF Transfer
<1>5. ASSUME NEW c \in Claims, CloseDeadClaim(c) \/ SettleUndisputed(c) PROVE CompsInv'
  BY <1>1, <1>5 DEF CloseDeadClaim, SettleUndisputed
<1>6. ASSUME NEW c \in Claims, NEW who, OpenClaim(c, who) \/ OpenDispute(c, who) PROVE CompsInv'
  BY <1>1, <1>6 DEF OpenClaim, OpenDispute
<1>7. ASSUME NEW c \in Claims, NEW who \in Answerers, NEW side \in AnswerSides, NEW xbar \in XBars,
             NEW conv \in Convs, NEW tierRef \in TierRefs, PostAnswer(c, who, side, xbar, conv, tierRef)
      PROVE  CompsInv'
  BY <1>1, <1>7 DEF PostAnswer
<1>8. ASSUME NEW c \in Claims, NEW who \in Voters, NEW choice \in Choices3, VoteDispute(c, who, choice)
      PROVE  CompsInv'
  BY <1>1, <1>8 DEF VoteDispute
<1>9. ASSUME NEW c \in Claims, NEW who, Finalize(c, who) \/ OpenRewards(c, who) \/ PullCarrot(c, who)
      PROVE  CompsInv'
  BY <1>1, <1>9 DEF Finalize, OpenRewards, PullCarrot
<1>10. CASE UNCHANGED vars
  BY <1>1, <1>10 DEF vars
<1> QED
  BY <1>2, <1>3, <1>4, <1>5, <1>6, <1>7, <1>8, <1>9, <1>10 DEF Next

(* All the comps ever promised stay within four fifths of the bonds that   *)
(* losers burned.                                                          *)
THEOREM CompsStayWithinBurns == Spec => []CompsWithinBurns
<1>1. Init => CompsInv
  BY TallyAssumption DEF Init, CompsInv, CompsWithinBurns
<1>2. EInv /\ CompsInv /\ [Next]_vars => CompsInv'
  BY StepComps
<1>3. CompsInv => CompsWithinBurns
  BY DEF CompsInv
<1> QED
  BY <1>1, <1>2, <1>3, BooksHold, PTL DEF Spec

-----------------------------------------------------------------------------
(* 10. The ballots of a claim, and the coin that stands behind them.       *)

(* The ballots a claim remembers: of rounds that have been, one from each  *)
(* voter in each.                                                          *)
Voted(k) ==
  /\ IsFiniteSet(k.votes)
  /\ \A v \in k.votes : v.round \in Nat /\ v.round <= k.round /\ v.who \in Users /\ v.weight \in Nat
  /\ \A v, w \in k.votes : v.round = w.round /\ v.who = w.who => v = w

VotedAll(ks) == \A c \in Claims : Voted(ks[c])

Backed(b, ks) == \A c \in Claims : \A v \in Ballots(ks[c]) : b[v.who] >= v.weight

(* The lock of a user covers each ballot that still counts.                *)
LEMMA LockCovers ==
  ASSUME EInv, VotedAll(claims), NEW u \in Users
  PROVE  /\ VoteLocked(u) \in Nat
         /\ \A c \in Claims : \A v \in Ballots(claims[c]) : v.who = u => v.weight <= VoteLocked(u)
<1> DEFINE B == [c \in Claims |-> Ballots(claims[c])]
           All == UNION {Ballots(claims[c]) : c \in Claims}
           Mine == {w \in All : w.who = u}
           g == [v \in Mine |-> v.weight]
           S == {0} \cup {v.weight : v \in Mine}
<1>1. \A c \in Claims : Voted(claims[c])
  BY DEF VotedAll
<1>2. \A c \in Claims : IsFiniteSet(Ballots(claims[c]))
  <2> SUFFICES ASSUME NEW c \in Claims PROVE IsFiniteSet(Ballots(claims[c]))
    OBVIOUS
  <2>1. Ballots(claims[c]) \subseteq claims[c].votes /\ IsFiniteSet(claims[c].votes)
    BY <1>1 DEF Ballots, Voted
  <2> QED
    BY <2>1, FS_Subset
<1>3. IsFiniteSet(All)
  <2>1. IsFiniteSet(Claims)
    BY CourtAssumption
  <2>2. IsFiniteSet({B[c] : c \in Claims})
    BY <2>1, FiniteRange
  <2>3. {B[c] : c \in Claims} = {Ballots(claims[c]) : c \in Claims}
    OBVIOUS
  <2> DEFINE Sets == {Ballots(claims[c]) : c \in Claims}
  <2>4. IsFiniteSet(Sets) /\ \A T \in Sets : IsFiniteSet(T)
    BY <1>2, <2>2, <2>3
  <2> HIDE DEF Sets
  <2>5. IsFiniteSet(UNION Sets)
    BY <2>4, FS_UNION
  <2> QED
    BY <2>5 DEF Sets
<1>4. \A v \in All : v.weight \in Nat
  BY <1>1 DEF Ballots, Voted
<1> HIDE DEF All, B
<1>5. IsFiniteSet(Mine)
  BY <1>3, FS_Subset
<1>6. IsFiniteSet({v.weight : v \in Mine})
  <2>1. IsFiniteSet({g[v] : v \in Mine})
    BY <1>5, FiniteRange
  <2>2. {g[v] : v \in Mine} = {v.weight : v \in Mine}
    OBVIOUS
  <2> QED
    BY <2>1, <2>2
<1>7. IsFiniteSet(S)
  <2> DEFINE W == {v.weight : v \in Mine}
  <2>1. IsFiniteSet(W)
    BY <1>6
  <2> HIDE DEF W
  <2>2. IsFiniteSet(W \cup {0}) /\ W \cup {0} = {0} \cup W
    BY <2>1, FS_AddElement
  <2>3. IsFiniteSet({0} \cup W)
    BY <2>2
  <2> QED
    BY <2>3 DEF W
<1>8. S # {} /\ S \subseteq Nat /\ S \subseteq Int /\ \A v \in Mine : v.weight \in S
  BY <1>4
<1>9. VoteLocked(u) = Max(S)
  BY DEF VoteLocked, All
<1>10. \A c \in Claims : \A v \in Ballots(claims[c]) : v.who = u => v \in Mine
  BY DEF All
<1> HIDE DEF S, Mine
<1>11. Max(S) \in S /\ \A y \in S : Max(S) >= y
  BY <1>7, <1>8, MaxIs
<1>12. Max(S) \in Nat /\ \A v \in Mine : v.weight \in Nat /\ v.weight <= Max(S)
  BY <1>8, <1>11
<1> QED
  BY <1>9, <1>10, <1>12

(* No ballot is added, and no user parts with what is locked.              *)
LEMMA BackedKeeps ==
  ASSUME EInv, VotedAll(claims), Backed(bal, claims), Coins(bal'), \A u \in Users : Spares(u),
         \A c \in Claims : Ballots(claims'[c]) \subseteq Ballots(claims[c])
  PROVE  Backed(bal', claims')
<1> SUFFICES ASSUME NEW c \in Claims, NEW v \in Ballots(claims[c])
             PROVE  bal'[v.who] >= v.weight
  BY DEF Backed
<1> DEFINE u == v.who
<1>1. u \in Users /\ v.weight \in Nat
  BY DEF VotedAll, Voted, Ballots
<1>2. bal[u] >= v.weight
  BY DEF Backed
<1>3. VoteLocked(u) \in Nat /\ v.weight <= VoteLocked(u)
  BY <1>1, LockCovers
<1>4. bal[u] \in Int /\ bal'[u] \in Int
  BY <1>1, Places DEF EInv, Coins
<1>5. Spares(u)
  BY <1>1
<1> HIDE DEF u
<1>6. CASE bal'[u] >= bal[u]
  BY <1>1, <1>2, <1>4, <1>6 DEF u
<1>7. CASE \E n \in Nat : bal'[u] = bal[u] - n /\ Disposable(u) >= n
  <2>1. PICK n \in Nat : bal'[u] = bal[u] - n /\ Disposable(u) >= n
    BY <1>7
  <2>2. bal[u] - VoteLocked(u) >= n
    BY <2>1 DEF Disposable
  <2>3. bal'[u] >= v.weight
    BY <1>1, <1>3, <1>4, <2>1, <2>2
  <2> QED
    BY <2>3 DEF u
<1> QED
  BY <1>5, <1>6, <1>7 DEF Spares

-----------------------------------------------------------------------------
(* Steps that leave a claim's ballots alone.                               *)
SameVotes(k, z) == /\ z.votes = k.votes /\ z.round = k.round
                   /\ z.disputeOpen => k.disputeOpen

LEMMA SameVotesKeep ==
  ASSUME NEW k, NEW z, Voted(k), SameVotes(k, z)
  PROVE  Voted(z) /\ Ballots(z) \subseteq Ballots(k)
  BY DEF Voted, SameVotes, Ballots

LEMMA NoVotes == ASSUME NEW k, k.votes = {} PROVE Voted(k) /\ Ballots(k) = {}
  BY FS_EmptySet DEF Voted, Ballots

LEMMA SameVotesAll ==
  ASSUME EInv, VotedAll(claims), Backed(bal, claims), NEW c \in Claims, NEW z, Rewrites(c, z),
         Voted(z), Ballots(z) \subseteq Ballots(claims[c])
  PROVE  VotedAll(claims') /\ Backed(bal', claims')
<1>1. DOMAIN claims = Claims /\ claims' = [claims EXCEPT ![c] = z]
  BY DEF EInv, SoundAll, Rewrites
<1>2. \A d \in Claims : claims'[d] = IF d = c THEN z ELSE claims[d]
  BY <1>1
<1>3. VotedAll(claims')
  BY <1>2 DEF VotedAll
<1>4. \A d \in Claims : Ballots(claims'[d]) \subseteq Ballots(claims[d])
  BY <1>2
<1>5. Coins(bal') /\ \A u \in Users : Spares(u)
  BY DEF Rewrites
<1> QED
  BY <1>3, <1>4, <1>5, BackedKeeps

-----------------------------------------------------------------------------
(* 11. Which fields of the record each operation may change.               *)

(* A record of which only the fields X have changed.                       *)
KeptBut(k, z, X) == DOMAIN z = Fields /\ \A f \in Fields \ X : z[f] = k[f]

LEMMA KeptThen ==
  ASSUME NEW k, NEW m, NEW z, NEW X, NEW Y, KeptBut(k, m, X), KeptBut(m, z, Y)
  PROVE  KeptBut(k, z, X \cup Y)
  BY DEF KeptBut

LEMMA ClosedKept ==
  ASSUME NEW k, DOMAIN k = Fields
  PROVE  KeptBut(k, AsClosed(k), {"deposit", "fee", "closed"})
  BY DEF KeptBut, AsClosed, Emptied, Fields

LEMMA SettledKept ==
  ASSUME NEW k, DOMAIN k = Fields
  PROVE  /\ KeptBut(k, AsSettled(k), {"verdictAt", "provisional", "answerBond"})
         /\ AsSettled(k).verdictAt = now /\ AsSettled(k).provisional = k.answer
  BY DEF KeptBut, AsSettled, Fields

LEMMA FinalKept ==
  ASSUME NEW k, DOMAIN k = Fields
  PROVE  KeptBut(k, AsFinal(k), {"verdictAt", "answerBond"}) /\ AsFinal(k).verdictAt = now
  BY DEF KeptBut, AsFinal, Fields

LEMMA AnsweredKept ==
  ASSUME NEW k, DOMAIN k = Fields, NEW who, NEW side, NEW bond, NEW at, NEW xbar, NEW conv, NEW tierRef
  PROVE  KeptBut(k, AsAnswered(k, who, side, bond, at, xbar, conv, tierRef),
                 {"answer", "answerer", "answerBond", "answerBond0", "answeredAt", "xbar", "conv", "tierRef"})
  BY DEF KeptBut, AsAnswered, Fields

DisputedTo(k, z, ballot) ==
  /\ KeptBut(k, z, {"round", "disputeOpen", "disputeBond", "disputer", "votes", "ballot"})
  /\ z.round = k.round + 1 /\ z.disputeOpen = TRUE /\ z.votes = Deciding(k) /\ z.ballot = ballot

LEMMA DisputedKept ==
  ASSUME NEW k, DOMAIN k = Fields, NEW who, NEW bond, NEW ballot
  PROVE  DisputedTo(k, AsDisputed(k, who, bond, ballot), ballot)
<1> DEFINE r == k.round + 1
           d == Deciding(k)
           z == [k EXCEPT !.round = r, !.disputeOpen = TRUE, !.disputeBond = bond, !.disputer = who,
                          !.votes = d, !.ballot = ballot]
<1>1. AsDisputed(k, who, bond, ballot) = z
  BY DEF AsDisputed
<1> HIDE DEF r, d
<1>2. /\ KeptBut(k, z, {"round", "disputeOpen", "disputeBond", "disputer", "votes", "ballot"})
      /\ z.round = r /\ z.disputeOpen = TRUE /\ z.votes = d /\ z.ballot = ballot
  BY DEF KeptBut, Fields
<1> HIDE DEF z
<1> QED
  BY <1>1, <1>2 DEF r, d, DisputedTo

VotedTo(k, z, who, choice) ==
  /\ KeptBut(k, z, {"ballot", "votes"})
  /\ z.ballot = BallotWith(k.ballot, choice, Weighs(k, who))
  /\ z.votes = k.votes \cup {BallotOf(k, who, choice)}

LEMMA VotedKept ==
  ASSUME NEW k, DOMAIN k = Fields, NEW who, NEW choice
  PROVE  VotedTo(k, AsVoted(k, who, choice), who, choice)
<1> DEFINE b == BallotWith(k.ballot, choice, Weighs(k, who))
           v == k.votes \cup {BallotOf(k, who, choice)}
           z == [k EXCEPT !.ballot = b, !.votes = v]
<1>1. AsVoted(k, who, choice) = z
  BY DEF AsVoted
<1> HIDE DEF b, v
<1>2. KeptBut(k, z, {"ballot", "votes"}) /\ z.ballot = b /\ z.votes = v
  BY DEF KeptBut, Fields
<1> HIDE DEF z
<1> QED
  BY <1>1, <1>2 DEF b, v, VotedTo

LEMMA RewardedKept ==
  ASSUME NEW k, DOMAIN k = Fields
  PROVE  LET z == AsRewarded(k) IN
         /\ KeptBut(k, z, {"deposit", "fee", "rewardsOpened", "want", "carrotTotal", "carrotPool", "answerBond"})
         /\ z.rewardsOpened = TRUE /\ z.carrotTotal = CarrotOf(k) /\ z.carrotPool = CarrotOf(k)
<1> DEFINE e == Emptied(k)
           w == Entitlement(k)
           n == CarrotOf(k)
           z == [e EXCEPT !.rewardsOpened = TRUE, !.want = w, !.carrotTotal = n, !.carrotPool = n, !.answerBond = 0]
<1>1. AsRewarded(k) = z
  BY DEF AsRewarded
<1>2. KeptBut(k, e, {"deposit", "fee"}) /\ DOMAIN e = Fields
  BY DEF KeptBut, Emptied, Fields
<1> HIDE DEF e, w, n
<1>3. /\ KeptBut(e, z, {"rewardsOpened", "want", "carrotTotal", "carrotPool", "answerBond"})
      /\ z.rewardsOpened = TRUE /\ z.carrotTotal = n /\ z.carrotPool = n
  BY <1>2 DEF KeptBut, Fields
<1> HIDE DEF z
<1>4. KeptBut(k, z, {"deposit", "fee"} \cup {"rewardsOpened", "want", "carrotTotal", "carrotPool", "answerBond"})
  BY <1>2, <1>3, KeptThen
<1>5. {"deposit", "fee"} \cup {"rewardsOpened", "want", "carrotTotal", "carrotPool", "answerBond"}
        = {"deposit", "fee", "rewardsOpened", "want", "carrotTotal", "carrotPool", "answerBond"}
  OBVIOUS
<1> QED
  BY <1>1, <1>3, <1>4, <1>5 DEF n

LEMMA PulledKept ==
  ASSUME NEW k, DOMAIN k = Fields, NEW who, NEW w
  PROVE  LET z == AsPulled(k, who, w) IN
         /\ KeptBut(k, z, {"pulled", "carrotPool"})
         /\ z.pulled = k.pulled \cup {who}
         /\ z.carrotPool = k.carrotPool - Least(Share(k, w), k.carrotPool)
<1> DEFINE p == k.pulled \cup {who}
           q == k.carrotPool - Least(Share(k, w), k.carrotPool)
           z == [k EXCEPT !.pulled = p, !.carrotPool = q]
<1>1. AsPulled(k, who, w) = z
  BY DEF AsPulled
<1> HIDE DEF p, q
<1>2. KeptBut(k, z, {"pulled", "carrotPool"}) /\ z.pulled = p /\ z.carrotPool = q
  BY DEF KeptBut, Fields
<1> HIDE DEF z
<1> QED
  BY <1>1, <1>2 DEF p, q

LEMMA ProvClosedKept ==
  ASSUME NEW k, DOMAIN k = Fields
  PROVE  /\ KeptBut(k, ProvClosed(k), {"deposit", "fee", "provClose", "verdictAt", "answerBond"})
         /\ ProvClosed(k).verdictAt = now
  BY DEF KeptBut, ProvClosed, Emptied, Fields

LEMMA FailedKept ==
  ASSUME NEW k, DOMAIN k = Fields
  PROVE  /\ KeptBut(k, AsFailed(k), {"provisional", "failedRounds"})
         /\ AsFailed(k).provisional = Default(k) /\ AsFailed(k).failedRounds = k.failedRounds + 1
<1> DEFINE p == Default(k)
           n == k.failedRounds + 1
           z == [k EXCEPT !.provisional = p, !.failedRounds = n]
<1>1. AsFailed(k) = z
  BY DEF AsFailed
<1> HIDE DEF p, n
<1>2. KeptBut(k, z, {"provisional", "failedRounds"}) /\ z.provisional = p /\ z.failedRounds = n
  BY DEF KeptBut, Fields
<1> HIDE DEF z
<1> QED
  BY <1>1, <1>2 DEF p, n

LEMMA DiscardedKept ==
  ASSUME NEW k, DOMAIN k = Fields
  PROVE  LET z == AsDiscarded(k) IN
         /\ KeptBut(k, z, {"deposit", "fee", "provClose", "verdictAt", "answerBond"}
                            \cup {"spamClosed", "decided", "carrotChoice", "carrotDenom", "spamW", "spamTotalW"})
         /\ z.verdictAt = now /\ z.spamClosed = TRUE /\ z.decided = k.round
         /\ z.carrotChoice = "spam" /\ z.carrotDenom = k.ballot.abstain
<1> DEFINE m == ProvClosed(k)
           a == k.ballot.abstain
           t == Turnout(k.ballot)
           r == k.round
           z == [m EXCEPT !.spamClosed = TRUE, !.decided = r, !.carrotChoice = "spam",
                          !.carrotDenom = a, !.spamW = a, !.spamTotalW = t]
<1>1. AsDiscarded(k) = z
  BY DEF AsDiscarded
<1>2. /\ KeptBut(k, m, {"deposit", "fee", "provClose", "verdictAt", "answerBond"})
      /\ m.verdictAt = now
  BY ProvClosedKept
<1>3. DOMAIN m = Fields
  BY <1>2 DEF KeptBut
<1> HIDE DEF m, a, t, r
<1>4. /\ KeptBut(m, z, {"spamClosed", "decided", "carrotChoice", "carrotDenom", "spamW", "spamTotalW"})
      /\ z.verdictAt = m.verdictAt /\ z.spamClosed = TRUE /\ z.decided = r
      /\ z.carrotChoice = "spam" /\ z.carrotDenom = a
  BY <1>3 DEF KeptBut, Fields
<1> HIDE DEF z
<1>5. KeptBut(k, z, {"deposit", "fee", "provClose", "verdictAt", "answerBond"}
                     \cup {"spamClosed", "decided", "carrotChoice", "carrotDenom", "spamW", "spamTotalW"})
  BY <1>2, <1>4, KeptThen
<1> QED
  BY <1>1, <1>2, <1>4, <1>5 DEF a, r

DecidedFields == {"provisional", "failedRounds", "decidedRounds", "decided", "carrotChoice",
                  "carrotDenom", "spamW", "spamTotalW", "answerBond"}

LEMMA DecidedKept ==
  ASSUME NEW k, DOMAIN k = Fields, NEW verdict, NEW choice, NEW weight
  PROVE  LET z == Decided(k, verdict, choice, weight) IN
         /\ KeptBut(k, z, DecidedFields)
         /\ z.provisional = verdict /\ z.failedRounds = 0 /\ z.decidedRounds = k.decidedRounds + 1
         /\ z.decided = k.round /\ z.carrotChoice = choice /\ z.carrotDenom = weight
<1> DEFINE a == k.ballot.abstain
           t == Turnout(k.ballot)
           r == k.round
           n == k.decidedRounds + 1
           z == [k EXCEPT !.provisional = verdict, !.failedRounds = 0, !.decidedRounds = n,
                          !.decided = r, !.carrotChoice = choice, !.carrotDenom = weight,
                          !.spamW = a, !.spamTotalW = t]
<1>1. Decided(k, verdict, choice, weight) = z
  BY DEF Decided
<1> HIDE DEF a, t, r, n
<1>2. /\ KeptBut(k, z, DecidedFields)
      /\ z.provisional = verdict /\ z.failedRounds = 0 /\ z.decidedRounds = n
      /\ z.decided = r /\ z.carrotChoice = choice /\ z.carrotDenom = weight
  BY DEF KeptBut, Fields, DecidedFields
<1> HIDE DEF z
<1> QED
  BY <1>1, <1>2 DEF r, n

LEMMA OverturnedKept ==
  ASSUME NEW k, DOMAIN k = Fields
  PROVE  LET z == AsOverturned(k) IN
         /\ KeptBut(k, z, DecidedFields)
         /\ z.provisional = Opposite(k.answer) /\ z.failedRounds = 0
         /\ z.decidedRounds = k.decidedRounds + 1
         /\ z.decided = k.round /\ z.carrotChoice = "yes" /\ z.carrotDenom = k.ballot.yes
<1> DEFINE m == Decided(k, Opposite(k.answer), "yes", k.ballot.yes)
           z == [m EXCEPT !.answerBond = 0]
<1>1. AsOverturned(k) = z
  BY DEF AsOverturned
<1>2. /\ KeptBut(k, m, DecidedFields)
      /\ m.provisional = Opposite(k.answer) /\ m.failedRounds = 0
      /\ m.decidedRounds = k.decidedRounds + 1
      /\ m.decided = k.round /\ m.carrotChoice = "yes" /\ m.carrotDenom = k.ballot.yes
  BY DecidedKept
<1>3. DOMAIN m = Fields
  BY <1>2 DEF KeptBut
<1> HIDE DEF m
<1>4. /\ KeptBut(m, z, {"answerBond"})
      /\ z.provisional = m.provisional /\ z.failedRounds = m.failedRounds
      /\ z.decidedRounds = m.decidedRounds
      /\ z.decided = m.decided /\ z.carrotChoice = m.carrotChoice /\ z.carrotDenom = m.carrotDenom
  BY <1>3 DEF KeptBut, Fields
<1> HIDE DEF z
<1>5. KeptBut(k, z, DecidedFields \cup {"answerBond"}) /\ DecidedFields \cup {"answerBond"} = DecidedFields
  BY <1>2, <1>4, KeptThen DEF DecidedFields
<1> QED
  BY <1>1, <1>2, <1>4, <1>5

LEMMA ResolvedKept ==
  ASSUME NEW k, NEW m, NEW X, KeptBut(k, m, X), Typed(m), now \in Nat, NEW first \in BOOLEAN
  PROVE  KeptBut(k, AsResolved(m, first), X \cup {"escrowUntil", "disputeOpen", "disputeBond"})
<1> DEFINE z == AsResolved(m, first)
<1>1. DOMAIN z = Fields /\ \A f \in Timed : z[f] = m[f]
  BY ResolvedIs
<1> HIDE DEF z
<1>2. KeptBut(m, z, {"escrowUntil", "disputeOpen", "disputeBond"})
  BY <1>1 DEF KeptBut, Timed
<1>3. KeptBut(k, z, X \cup {"escrowUntil", "disputeOpen", "disputeBond"})
  BY <1>2, KeptThen
<1> QED
  BY <1>3 DEF z

-----------------------------------------------------------------------------
(* 12. Ballots through every turn.                                         *)

OutcomeFields == {"deposit", "fee", "provClose", "verdictAt", "answerBond", "spamClosed"} \cup DecidedFields

LEMMA KeptMore ==
  ASSUME NEW k, NEW z, NEW X, NEW Y, KeptBut(k, z, X), X \subseteq Y
  PROVE  KeptBut(k, z, Y)
  BY DEF KeptBut

LEMMA EndedKept ==
  ASSUME NEW k, DOMAIN k = Fields
  PROVE  LET m == ProvClosed(AsFailed(k)) IN
         /\ KeptBut(k, m, OutcomeFields) /\ KeptBut(AsFailed(k), m, {"deposit", "fee", "provClose", "verdictAt", "answerBond"})
         /\ m.verdictAt = now
<1> DEFINE f == AsFailed(k)
           m == ProvClosed(f)
<1>1. KeptBut(k, f, {"provisional", "failedRounds"})
  BY FailedKept
<1>2. DOMAIN f = Fields
  BY <1>1 DEF KeptBut
<1> HIDE DEF f
<1>3. KeptBut(f, m, {"deposit", "fee", "provClose", "verdictAt", "answerBond"}) /\ m.verdictAt = now
  BY <1>2, ProvClosedKept
<1> HIDE DEF m
<1>4. KeptBut(k, m, {"provisional", "failedRounds"} \cup {"deposit", "fee", "provClose", "verdictAt", "answerBond"})
  BY <1>1, <1>3, KeptThen
<1>5. {"provisional", "failedRounds"} \cup {"deposit", "fee", "provClose", "verdictAt", "answerBond"} \subseteq OutcomeFields
  BY DEF OutcomeFields, DecidedFields
<1>6. KeptBut(k, m, OutcomeFields)
  BY <1>4, <1>5, KeptMore
<1> QED
  BY <1>3, <1>6 DEF m, f

LEMMA OutcomeKept ==
  ASSUME NEW k, Sound(k), k.disputeOpen, now \in Nat \ {0}, NEW m, Outcome(k, m)
  PROVE  Resolvable(m) /\ KeptBut(k, m, OutcomeFields)
<1>1. DOMAIN k = Fields
  BY DEF Sound, Typed
<1>2. CASE m = IF Ending(k) THEN ProvClosed(AsFailed(k)) ELSE AsFailed(k)
  <2>1. Resolvable(AsFailed(k)) /\ KeptBut(k, AsFailed(k), {"provisional", "failedRounds"})
    BY <1>1, FailedResolvable, FailedKept
  <2>2. {"provisional", "failedRounds"} \subseteq OutcomeFields
    BY DEF OutcomeFields, DecidedFields
  <2>3. KeptBut(k, AsFailed(k), OutcomeFields)
    BY <2>1, <2>2, KeptMore
  <2>4. KeptBut(k, ProvClosed(AsFailed(k)), OutcomeFields)
    BY <1>1, EndedKept
  <2>5. Resolvable(ProvClosed(AsFailed(k)))
    BY <2>1, ProvClosedResolvable
  <2> QED
    BY <1>2, <2>1, <2>3, <2>4, <2>5
<1>3. CASE m = AsDiscarded(k)
  <2>1. {"deposit", "fee", "provClose", "verdictAt", "answerBond"}
          \cup {"spamClosed", "decided", "carrotChoice", "carrotDenom", "spamW", "spamTotalW"} \subseteq OutcomeFields
    BY DEF OutcomeFields, DecidedFields
  <2> QED
    BY <1>1, <1>3, <2>1, DiscardedKept, KeptMore, DiscardedResolvable, ZenonT(30)
<1>4. DecidedFields \subseteq OutcomeFields
  BY DEF OutcomeFields
<1>5. CASE m = AsOverturned(k)
  BY <1>1, <1>4, <1>5, OverturnedKept, KeptMore, OverturnedResolvable
<1>6. CASE m = AsUpheld(k)
  BY <1>1, <1>4, <1>6, DecidedKept, KeptMore, UpheldResolvable DEF AsUpheld
<1> QED
  BY <1>2, <1>3, <1>5, <1>6 DEF Outcome

LEMMA KeptVotes ==
  ASSUME NEW k, NEW z, NEW X, KeptBut(k, z, X), X \cap {"votes", "round", "disputeOpen"} = {}
  PROVE  SameVotes(k, z)
<1>1. {"votes", "round", "disputeOpen"} \subseteq Fields
  BY DEF Fields
<1> QED
  BY <1>1 DEF KeptBut, SameVotes

(* Resolving a round keeps the record of its ballots and frees them.       *)
LEMMA ResolvedVotes ==
  ASSUME NEW k, Sound(k), k.disputeOpen, now \in Nat \ {0}, NEW m, Outcome(k, m), NEW first \in BOOLEAN
  PROVE  SameVotes(k, AsResolved(m, first))
<1> DEFINE z == AsResolved(m, first)
<1>1. Typed(m) /\ KeptBut(k, m, OutcomeFields) /\ now \in Nat
  BY OutcomeKept DEF Resolvable
<1>2. KeptBut(k, z, OutcomeFields \cup {"escrowUntil", "disputeOpen", "disputeBond"}) /\ z.disputeOpen = FALSE
  BY <1>1, ResolvedKept, ResolvedIs
<1> HIDE DEF z
<1>3. {"votes", "round"} \cap (OutcomeFields \cup {"escrowUntil", "disputeOpen", "disputeBond"}) = {}
  BY DEF OutcomeFields, DecidedFields
<1>4. {"votes", "round"} \subseteq Fields
  BY DEF Fields
<1>5. SameVotes(k, z)
  BY <1>2, <1>3, <1>4 DEF SameVotes, KeptBut
<1> QED
  BY <1>5 DEF z

LEMMA DisputedVotes ==
  ASSUME NEW k, Sound(k), Voted(k), NEW who, NEW bond, NEW ballot
  PROVE  LET z == AsDisputed(k, who, bond, ballot) IN Voted(z) /\ Ballots(z) = {}
<1> DEFINE z == AsDisputed(k, who, bond, ballot)
<1>1. z.round = k.round + 1 /\ z.votes = Deciding(k)
  <2>1. DOMAIN k = Fields
    BY DEF Sound, Typed
  <2>2. DisputedTo(k, z, ballot)
    BY <2>1, DisputedKept
  <2> QED
    BY <2>2 DEF DisputedTo
<1> HIDE DEF z
<1>2. Deciding(k) \subseteq k.votes /\ IsFiniteSet(Deciding(k))
  <2>1. Deciding(k) \subseteq k.votes /\ IsFiniteSet(k.votes)
    BY DEF Deciding, Voted
  <2> QED
    BY <2>1, FS_Subset
<1>3. k.round \in Nat /\ \A v \in k.votes : v.round \in Nat /\ v.round <= k.round
  BY DEF Voted, Sound, Typed
<1>4. Voted(z)
  BY <1>1, <1>2, <1>3 DEF Voted
<1>5. Ballots(z) = {}
  BY <1>1, <1>2, <1>3 DEF Ballots
<1> QED
  BY <1>4, <1>5 DEF z

LEMMA VotedVotes ==
  ASSUME EInv, VotedAll(claims), Backed(bal, claims), NEW c \in Claims, NEW who \in Users,
         NEW choice \in Choices3, VoteDispute(c, who, choice)
  PROVE  VotedAll(claims') /\ Backed(bal', claims')
<1> DEFINE k == claims[c]
           n == BallotOf(k, who, choice)
           z == AsVoted(k, who, choice)
<1>1. Rewrites(c, z)
  BY VoteDisputeRewrites
<1>2. Sound(k) /\ Voted(k) /\ k.disputeOpen /\ Weighs(k, who) > 0 /\ bal' = bal
      /\ \A v \in Ballots(k) : v.who # who
  BY DEF EInv, SoundAll, VotedAll, VoteDispute, Weighs
<1>3. Weighs(k, who) \in Nat /\ bal[who] >= Weighs(k, who)
  BY <1>2, WeighsIs
<1>4. n.round = k.round /\ n.who = who /\ n.weight = Weighs(k, who)
  BY DEF BallotOf
<1>5. DOMAIN claims = Claims /\ claims' = [claims EXCEPT ![c] = z]
  BY <1>1 DEF EInv, SoundAll, Rewrites
<1>6. \A d \in Claims : claims'[d] = IF d = c THEN z ELSE claims[d]
  BY <1>5
<1> HIDE DEF k, n
<1>7. z.votes = k.votes \cup {n} /\ z.round = k.round /\ z.disputeOpen = k.disputeOpen
  BY <1>2 DEF AsVoted, Sound, Typed, Fields, n
<1> HIDE DEF z
<1>8. Voted(z)
  <2>1. IsFiniteSet(z.votes)
    <3>1. IsFiniteSet(k.votes)
      BY <1>2 DEF Voted
    <3>2. IsFiniteSet(k.votes \cup {n})
      BY <3>1, FS_AddElement
    <3> QED
      BY <1>7, <3>2
  <2>2. k.round \in Nat
    BY <1>2 DEF Sound, Typed
  <2>3. ASSUME NEW v \in z.votes
        PROVE  v.round \in Nat /\ v.round <= z.round /\ v.who \in Users /\ v.weight \in Nat
    <3>1. v \in k.votes \/ v = n
      BY <1>7
    <3> QED
      BY <1>2, <1>3, <1>4, <1>7, <2>2, <3>1 DEF Voted
  <2>4. ASSUME NEW v \in z.votes, NEW w \in z.votes, v.round = w.round, v.who = w.who PROVE v = w
    <3>1. \A x \in k.votes : ~(x.round = k.round /\ x.who = who)
      BY <1>2 DEF Ballots
    <3>2. (v \in k.votes \/ v = n) /\ (w \in k.votes \/ w = n)
      BY <1>7
    <3> QED
      BY <1>2, <1>4, <2>4, <3>1, <3>2 DEF Voted
  <2> QED
    BY <2>1, <2>3, <2>4 DEF Voted
<1>9. VotedAll(claims')
  BY <1>6, <1>8 DEF VotedAll
<1>10. ASSUME NEW d \in Claims, NEW v \in Ballots(claims'[d]) PROVE bal'[v.who] >= v.weight
  <2>1. CASE d = c /\ v = n
    BY <1>2, <1>3, <1>4, <2>1
  <2>2. CASE ~(d = c /\ v = n)
    <3>1. v \in Ballots(claims[d])
      BY <1>6, <1>7, <2>2 DEF Ballots, k
    <3> QED
      BY <1>2, <3>1 DEF Backed
  <2> QED
    BY <2>1, <2>2
<1> QED
  BY <1>9, <1>10 DEF Backed

LEMMA TurnVotes ==
  ASSUME EInv, VotedAll(claims), Backed(bal, claims), NEW c \in Claims, NEW z, Rewrites(c, z), Turn(c, z)
  PROVE  VotedAll(claims') /\ Backed(bal', claims')
<1> DEFINE k == claims[c]
           Kept == SameVotes(k, z)
           Fewer == Voted(z) /\ Ballots(z) \subseteq Ballots(k)
<1>1. Sound(k) /\ Voted(k) /\ DOMAIN k = Fields /\ now \in Nat \ {0} /\ First(c) \in BOOLEAN
  BY DEF EInv, SoundAll, VotedAll, Sound, Typed, First
<1>2. Kept => Fewer
  BY <1>1, SameVotesKeep
<1>3. Fewer => VotedAll(claims') /\ Backed(bal', claims')
  BY SameVotesAll
<1>4. ASSUME NEW who \in Users, z = AsOpened(who, now) PROVE Fewer
  <2>1. z.votes = {}
    BY <1>4 DEF AsOpened, NoClaim
  <2> QED
    BY <2>1, NoVotes
<1>5. CASE ResolveDispute(c) /\ \E m : Outcome(k, m) /\ z = AsResolved(m, First(c))
  <2>1. k.disputeOpen
    BY <1>5 DEF ResolveDispute
  <2>2. Kept
    BY <1>1, <1>5, <2>1, ResolvedVotes
  <2> QED
    BY <1>2, <1>3, <2>2
<1>6. CASE \E who \in Users, choice \in Choices3 : VoteDispute(c, who, choice) /\ z = AsVoted(k, who, choice)
  BY <1>6, VotedVotes
<1>7. CASE \E who \in Users : OpenDispute(c, who) /\ z = AsDisputed(k, who, DisputeBond(k), NewBallot(k))
  <2>1. Fewer
    BY <1>1, <1>7, DisputedVotes
  <2> QED
    BY <1>3, <2>1
<1>8. CASE z = AsClosed(k) \/ z = AsSettled(k) \/ z = AsFinal(k) \/ z = AsRewarded(k)
  <2>1. \/ KeptBut(k, z, {"deposit", "fee", "closed"})
        \/ KeptBut(k, z, {"verdictAt", "provisional", "answerBond"})
        \/ KeptBut(k, z, {"verdictAt", "answerBond"})
        \/ KeptBut(k, z, {"deposit", "fee", "rewardsOpened", "want", "carrotTotal", "carrotPool", "answerBond"})
    BY <1>1, <1>8, ClosedKept, SettledKept, FinalKept, RewardedKept
  <2> HIDE DEF k
  <2>2. Kept
    BY <2>1, KeptVotes
  <2> QED
    BY <1>2, <1>3, <2>2
<1>9. ASSUME NEW who, NEW side, NEW bond, NEW at, NEW xbar, NEW conv, NEW tierRef,
             z = AsAnswered(k, who, side, bond, at, xbar, conv, tierRef)
      PROVE  Kept
  BY <1>1, <1>9, AnsweredKept, KeptVotes
<1>10. ASSUME NEW who, NEW w, z = AsPulled(k, who, w) PROVE Kept
  BY <1>1, <1>10, PulledKept, KeptVotes
<1> HIDE DEF k, Kept, Fewer
<1> QED
  BY <1>2, <1>3, <1>4, <1>5, <1>6, <1>7, <1>8, <1>9, <1>10 DEF Turn, k

VotesInv == VotedAll(claims) /\ Backed(bal, claims)

LEMMA StepVotes == ASSUME EInv, VotesInv, [Next]_vars PROVE VotesInv'
<1>1. CASE Turns
  BY <1>1, TurnVotes DEF Turns, VotesInv
<1>2. CASE Waits
  <2>1. claims' = claims /\ VotedAll(claims')
    BY <1>2 DEF Waits, VotesInv
  <2>2. CASE Tick \/ UNCHANGED vars
    <3>1. bal' = bal
      BY <2>2 DEF Tick, vars
    <3> QED
      BY <2>1, <3>1 DEF VotesInv
  <2>3. ASSUME NEW from \in Users, NEW to \in Users, NEW n \in Nat, Transfer(from, to, n) PROVE VotesInv'
    <3>1. Coins(bal') /\ \A u \in Users : Spares(u)
      BY <2>3, TransferIs
    <3>2. Backed(bal', claims')
      BY <2>1, <3>1, BackedKeeps DEF VotesInv
    <3> QED
      BY <2>1, <3>2 DEF VotesInv
  <2> QED
    BY <1>2, <2>2, <2>3 DEF Waits
<1> QED
  BY <1>1, <1>2, StepTurns

LEMMA VotesHold == Spec => []VotesInv
<1>1. Init => VotesInv
  <2> SUFFICES ASSUME Init PROVE VotesInv
    OBVIOUS
  <2>1. \A c \in Claims : claims[c] = NoClaim
    BY DEF Init
  <2>2. NoClaim.votes = {}
    BY DEF NoClaim
  <2>3. Voted(NoClaim) /\ Ballots(NoClaim) = {}
    BY <2>2, NoVotes
  <2> QED
    BY <2>1, <2>3 DEF VotesInv, VotedAll, Backed
<1> QED
  BY <1>1, StepVotes, BooksHold, PTL DEF Spec

(* Whoever voted in a round still holds what the ballot weighed, until the *)
(* round is resolved.                                                      *)
THEOREM VotesAreBacked == Spec => []VotesStayBacked
<1>1. VotesInv => VotesStayBacked
  BY DEF VotesInv, Backed, VotesStayBacked
<1> QED
  BY <1>1, VotesHold, PTL

-----------------------------------------------------------------------------
(* 13. What the ballots of a round say.                                    *)

(* The weight that was cast for a choice in a round.                       *)
Polled(votes, r, choice) == WeightSum({v \in votes : v.round = r /\ v.choice = choice})

LEMMA CastIs ==
  ASSUME NEW k, NEW r, NEW choice
  PROVE  Cast(k, r, choice) = Polled(k.votes, r, choice)
  BY DEF Cast, Polled, Weight, WeightSum

LEMMA PolledNone ==
  ASSUME NEW votes, NEW r, NEW choice, \A v \in votes : v.round # r
  PROVE  Polled(votes, r, choice) = 0
<1>1. {v \in votes : v.round = r /\ v.choice = choice} = {}
  OBVIOUS
<1>2. WeightSum({}) = 0
  <2>1. IsFiniteSet({})
    BY FS_EmptySet
  <2>2. WeightSum({}) = SumFunctionOnSet([v \in {} |-> v.weight], {})
    BY <2>1, WeightsAre
  <2> QED
    BY <2>2, SumOfNothing
<1> QED
  BY <1>1, <1>2 DEF Polled

(* One more ballot.                                                        *)
LEMMA PolledMore ==
  ASSUME NEW votes, IsFiniteSet(votes), \A v \in votes : v.weight \in Nat,
         NEW n, n \notin votes, n.weight \in Nat, NEW r, NEW choice
  PROVE  /\ Polled(votes, r, choice) \in Nat
         /\ Polled(votes \cup {n}, r, choice)
              = Polled(votes, r, choice) + (IF n.round = r /\ n.choice = choice THEN n.weight ELSE 0)
<1> DEFINE S == {v \in votes : v.round = r /\ v.choice = choice}
           T == {v \in votes \cup {n} : v.round = r /\ v.choice = choice}
<1>1. S \subseteq votes
  OBVIOUS
<1>2. IsFiniteSet(S)
  BY <1>1, FS_Subset
<1>3. n \notin S /\ \A v \in S \cup {n} : v.weight \in Nat
  OBVIOUS
<1>4. T = IF n.round = r /\ n.choice = choice THEN S \cup {n} ELSE S
  OBVIOUS
<1>5. Polled(votes, r, choice) = WeightSum(S) /\ Polled(votes \cup {n}, r, choice) = WeightSum(T)
  BY DEF Polled
<1> HIDE DEF S, T
<1>6. WeightSum(S) \in Nat /\ WeightSum(S \cup {n}) = WeightSum(S) + n.weight
  BY <1>2, <1>3, WeightAdded
<1> QED
  BY <1>4, <1>5, <1>6

-----------------------------------------------------------------------------
Carried(yes, no) == yes > 0 /\ yes * Bps >= (yes + no) * 5001

(* What the weights polled in the last round that decided say.             *)
Says(k, yes, no, spam) ==
  /\ k.spamClosed => spam > yes + no
  /\ k.decided # 0 /\ ~k.spamClosed =>
       k.provisional # None /\ (k.provisional # k.answer <=> Carried(yes, no))

Standing(k) ==
  /\ k.decided <= k.round
  /\ k.decidedRounds = 0 => k.provisional \in {None, k.answer}
  /\ k.spamClosed => Final(k)
  /\ Says(k, Polled(k.votes, k.decided, "yes"), Polled(k.votes, k.decided, "no"),
          Polled(k.votes, k.decided, "spam"))
  /\ k.decided # 0 => k.carrotDenom = Polled(k.votes, k.decided, k.carrotChoice)
  /\ k.decided = 0 => k.carrotDenom = 0

(* The ballot of an open round counts the votes of that round.             *)
Counted(k) ==
  k.disputeOpen => /\ k.decided < k.round
                   /\ k.ballot.yes = Polled(k.votes, k.round, "yes")
                   /\ k.ballot.no = Polled(k.votes, k.round, "no")
                   /\ k.ballot.abstain = Polled(k.votes, k.round, "spam")

Case(k) == Standing(k) /\ Counted(k)

SameTally(k, z) ==
  /\ z.votes = k.votes /\ z.round = k.round /\ z.ballot = k.ballot
  /\ z.decided = k.decided /\ z.decidedRounds = k.decidedRounds /\ z.spamClosed = k.spamClosed
  /\ z.carrotChoice = k.carrotChoice /\ z.carrotDenom = k.carrotDenom

TallyFields == {"votes", "round", "ballot", "decided", "decidedRounds",
                "spamClosed", "carrotChoice", "carrotDenom"}

LEMMA KeptTally ==
  ASSUME NEW k, NEW z, NEW X, KeptBut(k, z, X), X \cap TallyFields = {}
  PROVE  SameTally(k, z)
<1>1. TallyFields \subseteq Fields
  BY DEF Fields, TallyFields
<1>2. \A f \in TallyFields : z[f] = k[f]
  BY <1>1 DEF KeptBut
<1> QED
  BY <1>2 DEF SameTally, TallyFields

(* Nothing has been decided, and nothing is being voted on.                *)
LEMMA FreshCase ==
  ASSUME NEW z, Sound(z), z.decided = 0, z.decidedRounds = 0, z.carrotDenom = 0, ~z.spamClosed,
         ~z.disputeOpen, z.provisional \in {None, z.answer}
  PROVE  Case(z)
<1>1. z.round \in Nat
  BY DEF Sound, Typed
<1> QED
  BY <1>1 DEF Case, Standing, Counted, Says

LEMMA NoClaimCase == Case(NoClaim)
<1>1. Sound(NoClaim)
  BY NoClaimSound
<1>2. /\ NoClaim.decided = 0 /\ NoClaim.decidedRounds = 0 /\ NoClaim.carrotDenom = 0 /\ NoClaim.spamClosed = FALSE
      /\ NoClaim.disputeOpen = FALSE /\ NoClaim.provisional = None
  BY DEF NoClaim
<1> QED
  BY <1>1, <1>2, FreshCase

LEMMA OpenedCase ==
  ASSUME NEW who \in Users, now \in Nat
  PROVE  Case(AsOpened(who, now))
<1> DEFINE z == AsOpened(who, now)
<1>1. Sound(z)
  BY OpenedSound
<1>2. /\ z.decided = 0 /\ z.decidedRounds = 0 /\ z.carrotDenom = 0 /\ z.spamClosed = FALSE
      /\ z.disputeOpen = FALSE /\ z.provisional = None
  BY DEF AsOpened, NoClaim
<1> HIDE DEF z
<1>3. Case(z)
  BY <1>1, <1>2, FreshCase
<1> QED
  BY <1>3 DEF z

(* A turn that is no part of a contest.                                    *)
LEMMA QuietCase ==
  ASSUME NEW k, NEW z, Case(k), SameTally(k, z), z.disputeOpen = k.disputeOpen, z.answer = k.answer,
         z.provisional = k.provisional, Final(k) => Final(z)
  PROVE  Case(z)
  BY DEF Case, Standing, Counted, Says, SameTally

(* Before the first round the answer is given, and settles.                *)
LEMMA EarlyCase ==
  ASSUME NEW k, NEW z, Sound(k), Sound(z), Case(k), k.round = 0, ~Final(k), SameTally(k, z),
         z.disputeOpen = k.disputeOpen, z.provisional \in {None, z.answer}
  PROVE  Case(z)
<1>1. k.decided = 0 /\ k.decidedRounds = 0 /\ ~k.disputeOpen
  BY DEF Sound, Phased
<1>2. ~k.spamClosed /\ k.carrotDenom = 0
  BY <1>1 DEF Case, Standing
<1> QED
  BY <1>1, <1>2, FreshCase DEF SameTally

-----------------------------------------------------------------------------
(* 14. The tally of a claim through the outcomes of a round.               *)

(* A round opens: nothing is counted yet, and only what the last deciding  *)
(* round polled is kept.                                                   *)
LEMMA DisputedCase ==
  ASSUME NEW k, NEW z, Sound(k), Voted(k), Case(k), ~Final(k), NEW ballot, DisputedTo(k, z, ballot),
         ballot.yes = 0, ballot.no = 0, ballot.abstain = 0
  PROVE  Case(z)
<1>1. /\ z.round = k.round + 1 /\ z.votes = Deciding(k) /\ z.ballot = ballot
      /\ KeptBut(k, z, {"round", "disputeOpen", "disputeBond", "disputer", "votes", "ballot"})
  BY DEF DisputedTo
<1>2. /\ z.decided = k.decided /\ z.decidedRounds = k.decidedRounds /\ z.spamClosed = k.spamClosed
      /\ z.carrotChoice = k.carrotChoice /\ z.carrotDenom = k.carrotDenom
  <2>1. {"decided", "decidedRounds", "spamClosed", "carrotChoice", "carrotDenom"} \subseteq Fields
    BY DEF Fields
  <2> QED
    BY <1>1, <2>1 DEF KeptBut
<1>3. z.provisional = k.provisional /\ z.answer = k.answer
  <2>1. {"provisional", "answer"} \subseteq Fields
    BY DEF Fields
  <2> QED
    BY <1>1, <2>1 DEF KeptBut
<1>4. k.round \in Nat /\ k.decided \in Nat /\ k.decided <= k.round
  BY DEF Sound, Typed, Case, Standing
<1>5. \A choice : Polled(z.votes, z.decided, choice) = Polled(k.votes, k.decided, choice)
  <2> SUFFICES ASSUME NEW choice
               PROVE  Polled(z.votes, z.decided, choice) = Polled(k.votes, k.decided, choice)
    OBVIOUS
  <2>1. {v \in Deciding(k) : v.round = k.decided /\ v.choice = choice}
          = {v \in k.votes : v.round = k.decided /\ v.choice = choice}
    BY DEF Deciding
  <2> QED
    BY <1>1, <1>2, <2>1 DEF Polled
<1>6. \A choice : Polled(z.votes, z.round, choice) = 0
  <2>1. \A v \in z.votes : v.round # z.round
    BY <1>1, <1>4 DEF Deciding, Voted
  <2> QED
    BY <2>1, PolledNone
<1>7. ~k.spamClosed
  BY DEF Case, Standing
<1>8. Standing(z)
  BY <1>1, <1>2, <1>3, <1>4, <1>5, <1>7 DEF Case, Standing, Says
<1>9. Counted(z)
  BY <1>1, <1>2, <1>4, <1>6 DEF Counted
<1> QED
  BY <1>8, <1>9 DEF Case

(* A vote is counted once, and as what it was cast for.                    *)
LEMMA VotedCase ==
  ASSUME NEW k, NEW z, Sound(k), Voted(k), Case(k), k.disputeOpen, NEW who \in Users,
         NEW choice \in Choices3, VotedTo(k, z, who, choice), Weighs(k, who) \in Nat,
         \A v \in Ballots(k) : v.who # who
  PROVE  Case(z)
<1> DEFINE w == Weighs(k, who)
           n == BallotOf(k, who, choice)
<1>1. /\ z.ballot = BallotWith(k.ballot, choice, w) /\ z.votes = k.votes \cup {n}
      /\ KeptBut(k, z, {"ballot", "votes"})
  BY DEF VotedTo
<1>2. /\ z.decided = k.decided /\ z.decidedRounds = k.decidedRounds /\ z.spamClosed = k.spamClosed
      /\ z.carrotChoice = k.carrotChoice /\ z.carrotDenom = k.carrotDenom
  <2>1. {"decided", "decidedRounds", "spamClosed", "carrotChoice", "carrotDenom"} \subseteq Fields
    BY DEF Fields
  <2> QED
    BY <1>1, <2>1 DEF KeptBut
<1>3. z.provisional = k.provisional /\ z.answer = k.answer /\ z.round = k.round /\ z.verdictAt = k.verdictAt
  <2>1. {"provisional", "answer", "round", "verdictAt"} \subseteq Fields
    BY DEF Fields
  <2> QED
    BY <1>1, <2>1 DEF KeptBut
<1>4. k.round \in Nat /\ k.decided \in Nat /\ k.decided < k.round /\ Tallied(k.ballot)
  BY DEF Sound, Typed, Case, Counted
<1>5. n.round = k.round /\ n.choice = choice /\ n.weight = w /\ n.who = who /\ w \in Nat
  BY DEF BallotOf
<1>6. n \notin k.votes
  BY <1>5 DEF Ballots
<1>7. IsFiniteSet(k.votes) /\ \A v \in k.votes : v.weight \in Nat
  BY DEF Voted
<1> HIDE DEF w, n
<1>8. \A r, x : Polled(z.votes, r, x)
        = Polled(k.votes, r, x) + (IF n.round = r /\ n.choice = x THEN n.weight ELSE 0)
  BY <1>1, <1>5, <1>6, <1>7, PolledMore
<1>9. \A r, x : Polled(k.votes, r, x) \in Nat
  BY <1>5, <1>6, <1>7, PolledMore
<1>10. \A x : Polled(z.votes, z.decided, x) = Polled(k.votes, k.decided, x)
  <2> SUFFICES ASSUME NEW x PROVE Polled(z.votes, z.decided, x) = Polled(k.votes, k.decided, x)
    OBVIOUS
  <2>1. n.round # k.decided
    BY <1>4, <1>5
  <2>2. Polled(z.votes, k.decided, x) = Polled(k.votes, k.decided, x) + 0
    BY <1>8, <2>1
  <2>3. Polled(k.votes, k.decided, x) \in Nat
    BY <1>9
  <2> QED
    BY <1>2, <2>2, <2>3
<1>11. \A x : Polled(z.votes, z.round, x) = Polled(k.votes, k.round, x) + (IF choice = x THEN w ELSE 0)
  BY <1>3, <1>5, <1>8
<1>12. /\ z.ballot.yes = k.ballot.yes + (IF choice = "yes" THEN w ELSE 0)
       /\ z.ballot.no = k.ballot.no + (IF choice = "no" THEN w ELSE 0)
       /\ z.ballot.abstain = k.ballot.abstain + (IF choice = "spam" THEN w ELSE 0)
  BY <1>1, <1>4, <1>5, BallotWithIs
<1>13. Standing(z)
  BY <1>2, <1>3, <1>10 DEF Case, Standing, Says, Final
<1>14. Counted(z)
  BY <1>2, <1>3, <1>4, <1>11, <1>12 DEF Case, Counted
<1> QED
  BY <1>13, <1>14 DEF Case

-----------------------------------------------------------------------------
(* A round without a quorum leaves the verdict, or defaults it.            *)
LEMMA DefaultStanding ==
  ASSUME NEW k, NEW z, Sound(k), Case(k), k.disputeOpen, SameTally(k, z), z.answer = k.answer,
         z.provisional = Default(k)
  PROVE  Standing(z)
<1>1. ~k.spamClosed /\ k.answer # None
  BY OpenRound, CourtAssumption DEF Case, Standing, Sound, Phased, Answered
<1>2. k.decidedRounds = 0 => Default(k) = k.answer
  BY DEF Case, Standing, Default
<1>3. k.provisional # None => Default(k) = k.provisional
  BY DEF Default
<1>4. Says(k, Polled(k.votes, k.decided, "yes"), Polled(k.votes, k.decided, "no"),
           Polled(k.votes, k.decided, "spam"))
  BY DEF Case, Standing
<1>5. Says(z, Polled(k.votes, k.decided, "yes"), Polled(k.votes, k.decided, "no"),
           Polled(k.votes, k.decided, "spam"))
  BY <1>1, <1>3, <1>4 DEF Says, SameTally
<1> QED
  BY <1>1, <1>2, <1>5 DEF Case, Standing, SameTally

LEMMA OpenTally ==
  ASSUME NEW k, Sound(k), Case(k), k.disputeOpen
  PROVE  /\ k.ballot.yes = Polled(k.votes, k.round, "yes")
         /\ k.ballot.no = Polled(k.votes, k.round, "no")
         /\ k.ballot.abstain = Polled(k.votes, k.round, "spam")
         /\ Tallied(k.ballot) /\ k.round \in Nat \ {0} /\ k.decidedRounds \in Nat
         /\ k.answer \in Sides /\ DOMAIN k = Fields
  BY OpenRound DEF Sound, Typed, Case, Counted

LEMMA DiscardedStanding ==
  ASSUME NEW k, Sound(k), Case(k), k.disputeOpen, SpamDiscards(k.ballot), now \in Nat \ {0}
  PROVE  Standing(AsDiscarded(k))
<1> DEFINE z == AsDiscarded(k)
           X == {"deposit", "fee", "provClose", "verdictAt", "answerBond"}
                  \cup {"spamClosed", "decided", "carrotChoice", "carrotDenom", "spamW", "spamTotalW"}
<1>1. /\ k.ballot.yes = Polled(k.votes, k.round, "yes")
      /\ k.ballot.no = Polled(k.votes, k.round, "no")
      /\ k.ballot.abstain = Polled(k.votes, k.round, "spam")
      /\ Tallied(k.ballot) /\ k.round \in Nat \ {0} /\ DOMAIN k = Fields
  BY OpenTally
<1>2. /\ KeptBut(k, z, X)
      /\ z.verdictAt = now /\ z.spamClosed = TRUE /\ z.decided = k.round
      /\ z.carrotChoice = "spam" /\ z.carrotDenom = k.ballot.abstain
  BY <1>1, DiscardedKept
<1> HIDE DEF z
<1>3. /\ z.votes = k.votes /\ z.round = k.round /\ z.decidedRounds = k.decidedRounds
      /\ z.provisional = k.provisional /\ z.answer = k.answer
  <2>1. {"votes", "round", "decidedRounds", "provisional", "answer"} \subseteq Fields
    BY DEF Fields
  <2>2. {"votes", "round", "decidedRounds", "provisional", "answer"} \cap X = {}
    OBVIOUS
  <2> HIDE DEF X
  <2> QED
    BY <1>2, <2>1, <2>2 DEF KeptBut
<1>4. k.ballot.abstain > k.ballot.yes + k.ballot.no
  BY <1>1 DEF SpamDiscards, Turnout, Tallied
<1>5. Says(z, k.ballot.yes, k.ballot.no, k.ballot.abstain)
  BY <1>2, <1>4 DEF Says
<1>6. Final(z)
  BY <1>2 DEF Final
<1>7. Standing(z)
  BY <1>1, <1>2, <1>3, <1>5, <1>6 DEF Case, Standing
<1> QED
  BY <1>7 DEF z

(* A decided round: the verdict is the one its ballots carry.              *)
LEMMA RuledStanding ==
  ASSUME NEW k, NEW z, Sound(k), Case(k), k.disputeOpen, KeptBut(k, z, DecidedFields),
         z.decidedRounds = k.decidedRounds + 1, z.decided = k.round,
         z.carrotDenom = Polled(k.votes, k.round, z.carrotChoice),
         z.provisional # None, z.provisional # k.answer <=> Overturns(k.ballot)
  PROVE  Standing(z)
<1>1. /\ k.ballot.yes = Polled(k.votes, k.round, "yes")
      /\ k.ballot.no = Polled(k.votes, k.round, "no")
      /\ k.ballot.abstain = Polled(k.votes, k.round, "spam")
      /\ Tallied(k.ballot) /\ k.round \in Nat \ {0} /\ k.decidedRounds \in Nat
  BY OpenTally
<1>2. z.votes = k.votes /\ z.round = k.round /\ z.answer = k.answer /\ z.spamClosed = k.spamClosed
  <2>1. {"votes", "round", "answer", "spamClosed"} \subseteq Fields \ DecidedFields
    BY DEF Fields, DecidedFields
  <2> QED
    BY <2>1 DEF KeptBut
<1>3. ~k.spamClosed
  BY DEF Case, Standing, Sound, Phased
<1>4. Overturns(k.ballot) <=> Carried(k.ballot.yes, k.ballot.no)
  BY DEF Overturns, Carried
<1>5. Says(z, k.ballot.yes, k.ballot.no, k.ballot.abstain)
  BY <1>2, <1>3, <1>4 DEF Says
<1>6. z.decidedRounds # 0
  BY <1>1
<1> QED
  BY <1>1, <1>2, <1>3, <1>5, <1>6 DEF Standing

LEMMA OutcomeStanding ==
  ASSUME NEW k, Sound(k), Case(k), k.disputeOpen, now \in Nat \ {0}, NEW m, Outcome(k, m)
  PROVE  Standing(m)
<1>1. DOMAIN k = Fields /\ k.answer \in Sides /\ None \notin Sides
  BY OpenTally, CourtAssumption DEF Sides
<1>2. CASE m = IF Ending(k) THEN ProvClosed(AsFailed(k)) ELSE AsFailed(k)
  <2> DEFINE f == AsFailed(k)
             p == ProvClosed(f)
  <2>1. KeptBut(k, f, {"provisional", "failedRounds"}) /\ f.provisional = Default(k) /\ DOMAIN f = Fields
    BY <1>1, FailedKept DEF KeptBut
  <2> HIDE DEF f
  <2>2. SameTally(k, f) /\ f.answer = k.answer
    <3>1. "answer" \in Fields
      BY DEF Fields
    <3>2. {"provisional", "failedRounds"} \cap TallyFields = {}
      BY DEF TallyFields
    <3> QED
      BY <2>1, <3>1, <3>2, KeptTally DEF KeptBut
  <2>3. Standing(f)
    BY <2>1, <2>2, DefaultStanding
  <2>4. KeptBut(f, p, {"deposit", "fee", "provClose", "verdictAt", "answerBond"})
    BY <2>1, ProvClosedKept
  <2> HIDE DEF p
  <2>5. SameTally(f, p) /\ p.answer = f.answer /\ p.provisional = f.provisional
    <3>1. {"answer", "provisional"} \subseteq Fields
      BY DEF Fields
    <3>2. {"deposit", "fee", "provClose", "verdictAt", "answerBond"} \cap TallyFields = {}
      BY DEF TallyFields
    <3> QED
      BY <2>4, <3>1, <3>2, KeptTally DEF KeptBut
  <2>6. SameTally(k, p) /\ p.answer = k.answer /\ p.provisional = Default(k)
    BY <2>1, <2>2, <2>5 DEF SameTally
  <2>7. Standing(p)
    BY <2>6, DefaultStanding
  <2> QED
    BY <1>2, <2>3, <2>7 DEF p, f
<1>3. CASE SpamDiscards(k.ballot) /\ m = AsDiscarded(k)
  BY <1>3, DiscardedStanding
<1>4. CASE ~SpamDiscards(k.ballot) /\ Overturns(k.ballot) /\ m = AsOverturned(k)
  <2>1. /\ KeptBut(k, m, DecidedFields) /\ m.provisional = Opposite(k.answer)
        /\ m.decidedRounds = k.decidedRounds + 1
        /\ m.decided = k.round /\ m.carrotChoice = "yes" /\ m.carrotDenom = k.ballot.yes
    BY <1>1, <1>4, OverturnedKept
  <2>2. m.provisional # None /\ m.provisional # k.answer
    BY <1>1, <2>1 DEF Opposite, Sides
  <2>3. m.carrotDenom = Polled(k.votes, k.round, m.carrotChoice)
    BY <2>1, OpenTally
  <2> QED
    BY <1>4, <2>1, <2>2, <2>3, RuledStanding
<1>5. CASE ~SpamDiscards(k.ballot) /\ ~Overturns(k.ballot) /\ m = AsUpheld(k)
  <2>1. /\ KeptBut(k, m, DecidedFields) /\ m.provisional = k.answer
        /\ m.decidedRounds = k.decidedRounds + 1
        /\ m.decided = k.round /\ m.carrotChoice = "no" /\ m.carrotDenom = k.ballot.no
    BY <1>1, <1>5, DecidedKept DEF AsUpheld
  <2>2. m.provisional # None
    BY <1>1, <2>1
  <2>3. m.carrotDenom = Polled(k.votes, k.round, m.carrotChoice)
    BY <2>1, OpenTally
  <2> QED
    BY <1>5, <2>1, <2>2, <2>3, RuledStanding
<1> QED
  BY <1>2, <1>3, <1>4, <1>5 DEF Outcome

LEMMA ResolvedCase ==
  ASSUME NEW m, Typed(m), Standing(m), now \in Nat, NEW first \in BOOLEAN
  PROVE  Case(AsResolved(m, first))
<1> DEFINE z == AsResolved(m, first)
<1>1. (\A f \in Timed : z[f] = m[f]) /\ z.disputeOpen = FALSE
  BY ResolvedIs
<1> HIDE DEF z
<1>2. SameTally(m, z)
  <2>1. TallyFields \subseteq Timed
    BY DEF Timed, Fields, TallyFields
  <2>2. \A f \in TallyFields : z[f] = m[f]
    BY <1>1, <2>1
  <2> QED
    BY <2>2 DEF SameTally, TallyFields
<1>3. z.provisional = m.provisional /\ z.answer = m.answer /\ z.verdictAt = m.verdictAt
  <2>1. {"provisional", "answer", "verdictAt"} \subseteq Timed
    BY DEF Timed, Fields
  <2> QED
    BY <1>1, <2>1
<1>4. Case(z)
  BY <1>1, <1>2, <1>3 DEF Case, Standing, Counted, Says, SameTally, Final
<1> QED
  BY <1>4 DEF z

-----------------------------------------------------------------------------
(* 15. The verdict follows the votes.                                      *)

CaseAll(ks) == \A c \in Claims : Case(ks[c])

LEMMA TurnCase ==
  ASSUME EInv, VotesInv, NEW c \in Claims, Case(claims[c]), NEW z, Rewrites(c, z), Turn(c, z)
  PROVE  Case(z)
<1> DEFINE k == claims[c]
<1>1. Sound(k) /\ Voted(k) /\ Case(k) /\ DOMAIN k = Fields /\ now \in Nat \ {0} /\ now \in Nat
      /\ First(c) \in BOOLEAN /\ Sound(z)
  BY DEF EInv, SoundAll, VotesInv, VotedAll, Sound, Typed, First, Rewrites
<1>2. ASSUME NEW who \in Users, z = AsOpened(who, now) PROVE Case(z)
  BY <1>1, <1>2, OpenedCase
<1>3. CASE CloseDeadClaim(c) /\ z = AsClosed(k)
  <2>1. KeptBut(k, z, {"deposit", "fee", "closed"})
    BY <1>1, <1>3, ClosedKept
  <2>2. SameTally(k, z)
    BY <2>1, KeptTally DEF TallyFields
  <2>3. z.disputeOpen = k.disputeOpen /\ z.answer = k.answer /\ z.provisional = k.provisional
        /\ z.verdictAt = k.verdictAt
    BY <2>1 DEF KeptBut, Fields
  <2> HIDE DEF k
  <2> QED
    BY <1>1, <2>2, <2>3, QuietCase DEF Final
<1>4. ASSUME NEW who, NEW side, NEW bond, NEW at, NEW xbar, NEW conv, NEW tierRef, ~Answered(k),
             z = AsAnswered(k, who, side, bond, at, xbar, conv, tierRef)
      PROVE  Case(z)
  <2>1. KeptBut(k, z, {"answer", "answerer", "answerBond", "answerBond0", "answeredAt", "xbar", "conv", "tierRef"})
    BY <1>1, <1>4, AnsweredKept
  <2>2. SameTally(k, z)
    BY <2>1, KeptTally DEF TallyFields
  <2>3. z.disputeOpen = k.disputeOpen /\ z.provisional = k.provisional
    BY <2>1 DEF KeptBut, Fields
  <2>4. k.round = 0 /\ k.provisional = None /\ ~Final(k)
    BY <1>1, <1>4 DEF Sound, Phased, Final
  <2> HIDE DEF k
  <2> QED
    BY <1>1, <2>2, <2>3, <2>4, EarlyCase
<1>5. CASE SettleUndisputed(c) /\ z = AsSettled(k)
  <2>1. KeptBut(k, z, {"verdictAt", "provisional", "answerBond"}) /\ z.provisional = k.answer
    BY <1>1, <1>5, SettledKept
  <2>2. SameTally(k, z)
    BY <2>1, KeptTally DEF TallyFields
  <2>3. z.disputeOpen = k.disputeOpen /\ z.answer = k.answer
    BY <2>1 DEF KeptBut, Fields
  <2>4. k.round = 0 /\ ~Final(k)
    BY <1>5 DEF SettleUndisputed
  <2> HIDE DEF k
  <2> QED
    BY <1>1, <2>1, <2>2, <2>3, <2>4, EarlyCase
<1>6. ASSUME NEW who \in Users, OpenDispute(c, who), z = AsDisputed(k, who, DisputeBond(k), NewBallot(k))
      PROVE  Case(z)
  <2>1. DisputedTo(k, z, NewBallot(k))
    BY <1>1, <1>6, DisputedKept
  <2>2. ~Final(k)
    BY <1>6 DEF OpenDispute
  <2>3. NewBallot(k).yes = 0 /\ NewBallot(k).no = 0 /\ NewBallot(k).abstain = 0
    BY NewBallotIs DEF EInv
  <2> HIDE DEF k
  <2> QED
    BY <1>1, <2>1, <2>2, <2>3, DisputedCase
<1>7. ASSUME NEW who \in Users, NEW choice \in Choices3, VoteDispute(c, who, choice), z = AsVoted(k, who, choice)
      PROVE  Case(z)
  <2>1. VotedTo(k, z, who, choice)
    BY <1>1, <1>7, VotedKept
  <2>2. k.disputeOpen /\ Weighs(k, who) > 0 /\ \A v \in Ballots(k) : v.who # who
    BY <1>7 DEF VoteDispute, Weighs
  <2>3. Weighs(k, who) \in Nat
    BY <2>2, WeighsIs
  <2> HIDE DEF k
  <2> QED
    BY <1>1, <2>1, <2>2, <2>3, VotedCase
<1>8. ASSUME ResolveDispute(c), NEW m, Outcome(k, m), z = AsResolved(m, First(c)) PROVE Case(z)
  <2>1. k.disputeOpen
    BY <1>8 DEF ResolveDispute
  <2> HIDE DEF k
  <2>2. Typed(m) /\ Standing(m)
    BY <1>1, <1>8, <2>1, OutcomeStanding, OutcomeKept DEF Resolvable
  <2> QED
    BY <1>1, <1>8, <2>2, ResolvedCase
<1>9. CASE z = AsFinal(k)
  <2>1. KeptBut(k, z, {"verdictAt", "answerBond"}) /\ z.verdictAt = now
    BY <1>1, <1>9, FinalKept
  <2>2. SameTally(k, z)
    BY <2>1, KeptTally DEF TallyFields
  <2>3. z.disputeOpen = k.disputeOpen /\ z.answer = k.answer /\ z.provisional = k.provisional
    BY <2>1 DEF KeptBut, Fields
  <2>4. Final(z)
    BY <1>1, <2>1 DEF Final
  <2> HIDE DEF k
  <2> QED
    BY <1>1, <2>2, <2>3, <2>4, QuietCase
<1>10. CASE z = AsRewarded(k)
  <2>1. KeptBut(k, z, {"deposit", "fee", "rewardsOpened", "want", "carrotTotal", "carrotPool", "answerBond"})
    BY <1>1, <1>10, RewardedKept
  <2>2. SameTally(k, z)
    BY <2>1, KeptTally DEF TallyFields
  <2>3. z.disputeOpen = k.disputeOpen /\ z.answer = k.answer /\ z.provisional = k.provisional
        /\ z.verdictAt = k.verdictAt
    BY <2>1 DEF KeptBut, Fields
  <2> HIDE DEF k
  <2> QED
    BY <1>1, <2>2, <2>3, QuietCase DEF Final
<1>11. ASSUME NEW who, NEW w, z = AsPulled(k, who, w) PROVE Case(z)
  <2>1. KeptBut(k, z, {"pulled", "carrotPool"})
    BY <1>1, <1>11, PulledKept
  <2>2. SameTally(k, z)
    BY <2>1, KeptTally DEF TallyFields
  <2>3. z.disputeOpen = k.disputeOpen /\ z.answer = k.answer /\ z.provisional = k.provisional
        /\ z.verdictAt = k.verdictAt
    BY <2>1 DEF KeptBut, Fields
  <2> HIDE DEF k
  <2> QED
    BY <1>1, <2>2, <2>3, QuietCase DEF Final
<1>12. ASSUME NEW who, NEW side, NEW xbar, NEW conv, NEW tierRef, PostAnswer(c, who, side, xbar, conv, tierRef)
       PROVE  ~Answered(k)
  BY <1>12 DEF PostAnswer
<1> HIDE DEF k
<1> QED
  BY <1>2, <1>3, <1>4, <1>5, <1>6, <1>7, <1>8, <1>9, <1>10, <1>11, <1>12 DEF Turn, k

LEMMA StepCase == ASSUME EInv, VotesInv, CaseAll(claims), [Next]_vars PROVE CaseAll(claims')
<1>1. ASSUME NEW c \in Claims, NEW z, Rewrites(c, z), Turn(c, z) PROVE CaseAll(claims')
  <2>1. Case(z)
    BY <1>1, TurnCase DEF CaseAll
  <2>2. DOMAIN claims = Claims /\ claims' = [claims EXCEPT ![c] = z]
    BY <1>1 DEF EInv, SoundAll, Rewrites
  <2>3. \A d \in Claims : claims'[d] = IF d = c THEN z ELSE claims[d]
    BY <2>2
  <2> QED
    BY <2>1, <2>3 DEF CaseAll
<1>2. CASE Waits
  <2>1. claims' = claims
    BY <1>2 DEF Waits
  <2> QED
    BY <2>1
<1> QED
  BY <1>1, <1>2, StepTurns DEF Turns

CaseInv == CaseAll(claims)

LEMMA CasesHold == Spec => []CaseInv
<1>1. Init => CaseInv
  BY NoClaimCase DEF Init, CaseInv, CaseAll
<1>2. EInv /\ VotesInv /\ CaseInv /\ [Next]_vars => CaseInv'
  BY StepCase DEF CaseInv
<1> QED
  BY <1>1, <1>2, VotesHold, BooksHold, PTL DEF Spec

(* The standing verdict is what the ballots of the last round that met its *)
(* quorum say, whatever rounds without one came after it.                  *)
THEOREM VerdictsFollowVotes == Spec => []VerdictFollowsVotes
<1>1. CaseInv => VerdictFollowsVotes
  <2> SUFFICES ASSUME CaseInv, NEW c \in Claims
               PROVE  LET k == claims[c]
                          yes == Cast(k, k.decided, "yes")
                          no == Cast(k, k.decided, "no")
                          spam == Cast(k, k.decided, "spam") IN
                      /\ k.decidedRounds = 0 => k.provisional \in {None, k.answer}
                      /\ k.spamClosed => spam > yes + no
                      /\ k.decided # 0 /\ ~k.spamClosed =>
                           (k.provisional # k.answer) = (yes > 0 /\ yes * Bps >= (yes + no) * 5001)
    BY DEF VerdictFollowsVotes
  <2> DEFINE k == claims[c]
             yes == Cast(k, k.decided, "yes")
             no == Cast(k, k.decided, "no")
             spam == Cast(k, k.decided, "spam")
  <2>1. Standing(k)
    BY DEF CaseInv, CaseAll, Case
  <2>2. Says(k, yes, no, spam) /\ (k.decidedRounds = 0 => k.provisional \in {None, k.answer})
    BY <2>1, CastIs DEF Standing
  <2>3. k.spamClosed => spam > yes + no
    BY <2>2 DEF Says
  <2>4. k.decided # 0 /\ ~k.spamClosed =>
          (k.provisional # k.answer <=> (yes > 0 /\ yes * Bps >= (yes + no) * 5001))
    <3> HIDE DEF yes, no, spam, k
    <3> QED
      BY <2>2 DEF Says, Carried
  <2> HIDE DEF yes, no, spam, k
  <2> DEFINE over == yes > 0 /\ yes * Bps >= (yes + no) * 5001
             turned == k.provisional # k.answer
  <2>5. over \in BOOLEAN /\ turned \in BOOLEAN
    OBVIOUS
  <2>6. k.decided # 0 /\ ~k.spamClosed => (turned <=> over)
    BY <2>4
  <2> HIDE DEF over, turned
  <2>7. k.decided # 0 /\ ~k.spamClosed => turned = over
    BY <2>5, <2>6
  <2> QED
    BY <2>2, <2>3, <2>7 DEF over, turned, k, yes, no, spam
<1> QED
  BY <1>1, CasesHold, PTL

-----------------------------------------------------------------------------
(* 16. The shares of a round's reward.                                     *)

ShareSum(k, S) == MapThenSumSet(LAMBDA v : Share(k, v.weight), S)
Shares(k, S) == [v \in S |-> Share(k, v.weight)]

LEMMA SharesAre ==
  ASSUME NEW k, NEW S, IsFiniteSet(S)
  PROVE  ShareSum(k, S) = SumFunctionOnSet(Shares(k, S), S)
<1> DEFINE f == Shares(k, S)
           IsIter(g) == g = [s \in SUBSET S |->
                              IF s = {} THEN 0
                              ELSE Share(k, (CHOOSE x \in s : TRUE).weight) + g[s \ {CHOOSE x \in s : TRUE}]]
<1>1. \A g : IsIter(g) <=> IsSum(g, f, S)
  <2> SUFFICES ASSUME NEW g, NEW s \in SUBSET S
               PROVE  SumStep(g, f, s) =
                        IF s = {} THEN 0
                        ELSE Share(k, (CHOOSE x \in s : TRUE).weight) + g[s \ {CHOOSE x \in s : TRUE}]
    BY ZenonT(30) DEF IsSum
  <2> DEFINE x == CHOOSE x \in s : TRUE
  <2>1. s # {} => x \in S
    OBVIOUS
  <2>2. s # {} => f[x] = Share(k, x.weight)
    BY <2>1 DEF Shares
  <2> QED
    BY <2>2 DEF SumStep
<1>2. ShareSum(k, S) = (CHOOSE g : IsIter(g))[S]
  BY DEF ShareSum, MapThenSumSet, MapThenFoldSet
<1>3. IsIter(CHOOSE g : IsIter(g))
  <2>1. PICK g : IsSum(g, f, S)
    BY SumExists
  <2>2. IsIter(g)
    BY <1>1, <2>1
  <2> HIDE DEF IsIter
  <2> QED
    BY <2>2
<1> QED
  BY <1>1, <1>2, <1>3, SumIs

(* What a claim's carrot is paid from, in a state the shares make sense.   *)
Paying(k) == /\ k.carrotTotal \in Nat /\ k.carrotDenom \in Nat \ {0} /\ k.xbar \in Nat

PerWeight(k, w) == (k.carrotTotal * w) \div k.carrotDenom

LEMMA ShareIs ==
  ASSUME NEW k, Paying(k), NEW w, w \in Nat
  PROVE  /\ Share(k, w) \in Int /\ PerWeight(k, w) \in Nat
         /\ Share(k, w) <= PerWeight(k, w)
         /\ k.carrotDenom * PerWeight(k, w) <= k.carrotTotal * w
<1> DEFINE a == k.carrotTotal * w
           d == k.carrotDenom
           top == Max({Part(k.xbar, 200), CarrotMin})
           clamp == CarrotClamp(k)
           q == PerWeight(k, w)
<1>1. a \in Nat /\ d \in Nat \ {0}
  BY DEF Paying
<1>2. q = a \div d
  BY DEF PerWeight
<1>3. Part(k.xbar, 200) \in Int /\ CarrotMin \in Int
  BY PartIs, CourtAssumption DEF Paying
<1>4. top \in {Part(k.xbar, 200), CarrotMin}
  BY <1>3, MaxOfTwo
<1>5. top \in Int
  BY <1>3, <1>4
<1>6. clamp = top \div 2 - 1
  BY DEF CarrotClamp
<1> HIDE DEF top, clamp
<1>7. clamp \in Int
  BY <1>5, <1>6
<1>8. Share(k, w) = Least(q, clamp)
  BY DEF Share, PerWeight, clamp
<1> HIDE DEF a, d, q
<1>9. q \in Nat /\ q * d <= a
  BY <1>1, <1>2, Divided
<1>10. Share(k, w) \in Int /\ Share(k, w) <= q
  BY <1>7, <1>8, <1>9 DEF Least
<1>11. d * q <= a
  BY <1>1, <1>9
<1> QED
  BY <1>9, <1>10, <1>11 DEF a, d, q

(* The shares of any of those who voted with the verdict fit in the whole. *)
LEMMA SharesFit ==
  ASSUME NEW k, Paying(k), NEW S, IsFiniteSet(S), \A v \in S : v.weight \in Nat,
         k.carrotDenom = WeightSum(S), NEW R \in SUBSET S
  PROVE  ShareSum(k, R) <= k.carrotTotal
<1> DEFINE w == [v \in S |-> v.weight]
           q == [v \in S |-> PerWeight(k, v.weight)]
           f == Shares(k, R)
           t == k.carrotTotal
           d == k.carrotDenom
<1>1. IsFiniteSet(R)
  BY FS_Subset
<1>2. \A v \in S : w[v] \in Nat /\ q[v] \in Nat /\ d * q[v] <= t * w[v]
  BY ShareIs
<1>3. \A v \in R : f[v] \in Int /\ q[v] \in Nat /\ 1 * f[v] <= 1 * q[v]
  <2> SUFFICES ASSUME NEW v \in R PROVE f[v] \in Int /\ q[v] \in Nat /\ 1 * f[v] <= 1 * q[v]
    OBVIOUS
  <2>1. f[v] = Share(k, v.weight) /\ q[v] = PerWeight(k, v.weight) /\ v.weight \in Nat
    BY DEF Shares
  <2> HIDE DEF f, q
  <2>2. f[v] \in Int /\ q[v] \in Nat /\ f[v] <= q[v]
    BY <2>1, ShareIs
  <2> QED
    BY <2>2
<1>4. d = SumFunctionOnSet(w, S) /\ ShareSum(k, R) = SumFunctionOnSet(f, R)
  BY <1>1, WeightsAre, SharesAre
<1>5. t \in Int /\ d \in Int /\ d \in Nat \ {0} /\ t \in Nat
  BY DEF Paying
<1> HIDE DEF w, q, f, t, d
<1>6. Integral(w, S) /\ Integral(q, S) /\ Integral(f, R) /\ Integral(q, R)
  BY <1>2, <1>3 DEF Integral
<1>7. d * SumFunctionOnSet(q, S) <= t * SumFunctionOnSet(w, S)
  BY <1>2, <1>5, <1>6, SumScaled
<1>8. 1 * SumFunctionOnSet(f, R) <= 1 * SumFunctionOnSet(q, R)
  BY <1>1, <1>3, <1>6, SumScaled
<1>9. /\ SumFunctionOnSet(q, R) \in Nat /\ SumFunctionOnSet(q, S) \in Nat
      /\ SumFunctionOnSet(q, R) <= SumFunctionOnSet(q, S)
  BY <1>2, SumOfPartBound
<1>10. SumFunctionOnSet(f, R) \in Int
  BY <1>1, <1>6, SumIsInt
<1> DEFINE a == SumFunctionOnSet(q, S)
<1>11. a \in Nat /\ d * a <= t * d
  BY <1>4, <1>7, <1>9
<1> HIDE DEF a
<1>12. a <= t
  <2> SUFFICES ASSUME a > t PROVE FALSE
    BY <1>5, <1>11
  <2> DEFINE e == a - (t + 1)
  <2>1. e \in Nat /\ a = t + (1 + e)
    BY <1>5, <1>11
  <2> HIDE DEF e
  <2>2. d * e \in Nat /\ d * t \in Nat /\ t * d = d * t
    BY <1>5, <2>1
  <2>3. d * a = d * t + (d + d * e)
    BY <1>5, <2>1
  <2> DEFINE x == d * a
             y == d * t
             w3 == d * e
  <2>4. x <= y /\ x = y + (d + w3) /\ y \in Nat /\ w3 \in Nat
    BY <1>11, <2>2, <2>3
  <2> HIDE DEF x, y, w3
  <2> QED
    BY <1>5, <2>4
<1> QED
  BY <1>4, <1>5, <1>8, <1>9, <1>10, <1>12 DEF a, t

-----------------------------------------------------------------------------
Unpaid(k) == {v \in WithVerdict(k) : v.who \notin k.pulled}

Covered(k) ==
  k.rewardsOpened /\ k.carrotDenom > 0 =>
    k.carrotTotal \in Nat /\ k.carrotPool \in Int /\ ShareSum(k, Unpaid(k)) <= k.carrotPool

LEMMA UnopenedCovered ==
  ASSUME NEW k, Sound(k), ~Final(k), NEW z, NEW X, KeptBut(k, z, X), "rewardsOpened" \notin X
  PROVE  Covered(z)
<1>1. z.rewardsOpened = k.rewardsOpened
  BY DEF KeptBut, Fields
<1>2. ~k.rewardsOpened
  BY DEF Sound, Phased
<1> QED
  BY <1>1, <1>2 DEF Covered

(* The weight that divides the carrot is what those who may pull it cast.  *)
LEMMA DenomIs ==
  ASSUME NEW k, Sound(k), Voted(k), Case(k)
  PROVE  /\ IsFiniteSet(WithVerdict(k)) /\ \A v \in WithVerdict(k) : v.weight \in Nat
         /\ k.carrotDenom \in Nat
         /\ k.decided # 0 => k.carrotDenom = WeightSum(WithVerdict(k))
         /\ k.carrotDenom > 0 => k.decided # 0
<1>1. WithVerdict(k) \subseteq k.votes /\ \A v \in k.votes : v.weight \in Nat
  BY DEF WithVerdict, Voted
<1>2. IsFiniteSet(k.votes)
  BY DEF Voted
<1>3. IsFiniteSet(WithVerdict(k))
  BY <1>1, <1>2, FS_Subset
<1>4. k.decided # 0 => k.carrotDenom = WeightSum(WithVerdict(k))
  BY DEF Case, Standing, Polled, WithVerdict
<1>5. k.decided = 0 => k.carrotDenom = 0
  BY DEF Case, Standing
<1>6. WeightSum(WithVerdict(k)) \in Nat
  <2> DEFINE S == WithVerdict(k)
             w == [v \in S |-> v.weight]
  <2>1. WeightSum(S) = SumFunctionOnSet(w, S)
    BY <1>3, WeightsAre
  <2>2. \A v \in S : w[v] \in Nat
    BY <1>1
  <2> HIDE DEF w
  <2>3. SumFunctionOnSet(w, S) \in Nat
    BY <1>3, <2>2, SumIsNat
  <2> QED
    BY <2>1, <2>3
<1> QED
  BY <1>1, <1>3, <1>4, <1>5, <1>6

LEMMA CarrotIs == ASSUME NEW k, Sound(k) PROVE CarrotOf(k) \in Nat
<1> DEFINE n == k.conv[WinningSide(k)]
<1>1. n \in Nat
  BY DEF Sound, Typed, WinningSide, Sides
<1> HIDE DEF n
<1>2. (n * 7) \div 100 \in Nat
  BY <1>1
<1> QED
  BY <1>2 DEF CarrotOf, n

LEMMA RewardedCovered ==
  ASSUME NEW k, Sound(k), Voted(k), Case(k)
  PROVE  Covered(AsRewarded(k))
<1> DEFINE z == AsRewarded(k)
           n == CarrotOf(k)
<1>1. n \in Nat /\ k.xbar \in Nat /\ DOMAIN k = Fields
  BY CarrotIs DEF Sound, Typed
<1>2. /\ KeptBut(k, z, {"deposit", "fee", "rewardsOpened", "want", "carrotTotal", "carrotPool", "answerBond"})
      /\ z.carrotTotal = n /\ z.carrotPool = n
  BY <1>1, RewardedKept
<1> HIDE DEF z, n
<1>3. z.xbar = k.xbar /\ z.carrotDenom = k.carrotDenom /\ WithVerdict(z) = WithVerdict(k)
  <2>1. SameTally(k, z)
    BY <1>2, KeptTally DEF TallyFields
  <2>2. z.xbar = k.xbar
    BY <1>2 DEF KeptBut, Fields
  <2> QED
    BY <2>1, <2>2 DEF SameTally, WithVerdict
<1>4. ASSUME z.carrotDenom > 0 PROVE ShareSum(z, Unpaid(z)) <= n
  <2>1. Paying(z)
    BY <1>1, <1>2, <1>3, <1>4, DenomIs DEF Paying
  <2> DEFINE S == WithVerdict(z)
             R == Unpaid(z)
  <2>2. /\ IsFiniteSet(S) /\ \A v \in S : v.weight \in Nat
        /\ z.carrotDenom = WeightSum(S)
    BY <1>3, <1>4, DenomIs
  <2>3. R \in SUBSET S
    BY DEF Unpaid
  <2> HIDE DEF S, R
  <2>4. ShareSum(z, R) <= z.carrotTotal
    BY <2>1, <2>2, <2>3, SharesFit
  <2> QED
    BY <1>2, <2>4 DEF R
<1>5. Covered(z)
  BY <1>1, <1>2, <1>4 DEF Covered
<1> QED
  BY <1>5 DEF z

(* Each voter pulls once, and no more than the share.                      *)
LEMMA PulledCovered ==
  ASSUME NEW k, Sound(k), Voted(k), Case(k), Covered(k), k.rewardsOpened, NEW v \in WithVerdict(k),
         v.who \notin k.pulled
  PROVE  Covered(AsPulled(k, v.who, v.weight))
<1> DEFINE z == AsPulled(k, v.who, v.weight)
           s == Share(k, v.weight)
<1>1. DOMAIN k = Fields /\ k.xbar \in Nat
  BY DEF Sound, Typed
<1>2. /\ KeptBut(k, z, {"pulled", "carrotPool"})
      /\ z.pulled = k.pulled \cup {v.who}
      /\ z.carrotPool = k.carrotPool - Least(s, k.carrotPool)
  BY <1>1, PulledKept
<1> HIDE DEF z
<1>3. z.xbar = k.xbar /\ z.carrotTotal = k.carrotTotal /\ z.carrotDenom = k.carrotDenom
      /\ WithVerdict(z) = WithVerdict(k)
  <2>1. SameTally(k, z)
    BY <1>2, KeptTally DEF TallyFields
  <2>2. z.xbar = k.xbar /\ z.carrotTotal = k.carrotTotal
    BY <1>2 DEF KeptBut, Fields
  <2> QED
    BY <2>1, <2>2 DEF SameTally, WithVerdict
<1>4. ASSUME ~(k.carrotDenom > 0) PROVE Covered(z)
  <2>1. ~(z.carrotDenom > 0)
    BY <1>3, <1>4
  <2> QED
    BY <2>1 DEF Covered
<1>5. ASSUME k.carrotDenom > 0 PROVE Covered(z)
  <2>0. k.carrotTotal \in Nat /\ k.carrotPool \in Int
    BY <1>5 DEF Covered
  <2>1. Paying(k)
    BY <1>1, <1>5, <2>0, DenomIs DEF Paying
  <2>2. s \in Int
    BY <2>1, DenomIs, ShareIs
  <2> DEFINE U == Unpaid(k)
             W == Unpaid(z)
  <2>3. U \subseteq WithVerdict(k) /\ IsFiniteSet(WithVerdict(k))
    BY DenomIs DEF Unpaid
  <2>4. IsFiniteSet(U)
    BY <2>3, FS_Subset
  <2>5. v \in U /\ \A x \in U : x.weight \in Nat
    BY DenomIs DEF Unpaid
  <2>6. W = U \ {v}
    <3>1. \A x \in WithVerdict(k) : x.who = v.who => x = v
      BY DEF WithVerdict, Voted
    <3> QED
      BY <1>2, <1>3, <3>1 DEF Unpaid
  <2>7. ShareSum(k, U) <= k.carrotPool
    BY <1>5 DEF Covered
  <2> HIDE DEF U, W
  <2>8. IsFiniteSet(U \ {v})
    BY <2>4, FS_RemoveElement
  <2> DEFINE f == Shares(k, U)
             g == Shares(z, U \ {v})
  <2>9. /\ ShareSum(k, U) = SumFunctionOnSet(f, U)
        /\ ShareSum(z, U \ {v}) = SumFunctionOnSet(g, U \ {v})
    BY <2>4, <2>8, SharesAre
  <2>10. \A x \in U : f[x] = Share(k, x.weight)
    BY DEF Shares
  <2>11. \A x \in U \ {v} : g[x] = Share(z, x.weight)
    BY DEF Shares
  <2>12. \A x \in U \ {v} : g[x] = f[x]
    <3>1. \A w : Share(z, w) = Share(k, w)
      BY <1>3 DEF Share, CarrotClamp
    <3> QED
      BY <2>10, <2>11, <3>1
  <2> HIDE DEF f, g
  <2>13. \A x \in U : f[x] \in Int
    BY <2>1, <2>5, <2>10, ShareIs
  <2>14. Integral(f, U)
    BY <2>13 DEF Integral
  <2>15. SumFunctionOnSet(f, U) = f[v] + SumFunctionOnSet(f, U \ {v})
    BY <2>4, <2>5, <2>14, SumRemove
  <2>16. SumFunctionOnSet(g, U \ {v}) = SumFunctionOnSet(f, U \ {v})
    BY <2>8, <2>12, SumAgrees
  <2>17. SumFunctionOnSet(f, U \ {v}) \in Int
    BY <2>8, <2>14, SumIsInt DEF Integral
  <2>18. f[v] = s
    BY <2>5, <2>10
  <2> DEFINE rest == ShareSum(z, W)
             pool == k.carrotPool
  <2>19. rest \in Int /\ s + rest <= pool
    BY <2>6, <2>7, <2>9, <2>15, <2>16, <2>17, <2>18
  <2>20. pool \in Int /\ z.carrotPool = pool - Least(s, pool)
    BY <1>2, <2>0
  <2> HIDE DEF rest, pool, s
  <2>21. z.carrotPool \in Int /\ rest <= z.carrotPool
    BY <2>2, <2>19, <2>20 DEF Least
  <2>22. ShareSum(z, Unpaid(z)) <= z.carrotPool
    BY <2>21 DEF rest, W
  <2> QED
    <3>1. z.carrotTotal \in Nat
      BY <1>3, <2>0
    <3> QED
      BY <2>21, <2>22, <3>1 DEF Covered
<1> QED
  BY <1>4, <1>5 DEF z

-----------------------------------------------------------------------------
(* 17. The rewards fit the pot they are paid from.                         *)

CoveredAll(ks) == \A c \in Claims : Covered(ks[c])

LEMMA TurnCovered ==
  ASSUME EInv, VotesInv, CaseInv, NEW c \in Claims, Covered(claims[c]), NEW z, Rewrites(c, z), Turn(c, z)
  PROVE  Covered(z)
<1> DEFINE k == claims[c]
<1>1. Sound(k) /\ Voted(k) /\ Case(k) /\ Covered(k) /\ DOMAIN k = Fields
      /\ now \in Nat \ {0} /\ now \in Nat /\ First(c) \in BOOLEAN
  BY DEF EInv, SoundAll, VotesInv, VotedAll, CaseInv, CaseAll, Sound, Typed, First
<1>2. ASSUME NEW who \in Users, z = AsOpened(who, now) PROVE Covered(z)
  <2>1. z.carrotDenom = 0
    BY <1>2 DEF AsOpened, NoClaim
  <2> QED
    BY <2>1 DEF Covered
<1>3. CASE CloseDeadClaim(c) /\ z = AsClosed(k)
  <2>1. KeptBut(k, z, {"deposit", "fee", "closed"})
    BY <1>1, <1>3, ClosedKept
  <2>2. ~Final(k)
    BY <1>1, <1>3 DEF CloseDeadClaim, Sound, Phased, Final
  <2> HIDE DEF k
  <2> QED
    BY <1>1, <2>1, <2>2, UnopenedCovered
<1>4. ASSUME NEW who, NEW side, NEW bond, NEW at, NEW xbar, NEW conv, NEW tierRef, ~Answered(k),
             z = AsAnswered(k, who, side, bond, at, xbar, conv, tierRef)
      PROVE  Covered(z)
  <2>1. KeptBut(k, z, {"answer", "answerer", "answerBond", "answerBond0", "answeredAt", "xbar", "conv", "tierRef"})
    BY <1>1, <1>4, AnsweredKept
  <2>2. ~Final(k)
    BY <1>1, <1>4 DEF Sound, Phased, Final
  <2> HIDE DEF k
  <2> QED
    BY <1>1, <2>1, <2>2, UnopenedCovered
<1>5. CASE SettleUndisputed(c) /\ z = AsSettled(k)
  <2>1. KeptBut(k, z, {"verdictAt", "provisional", "answerBond"})
    BY <1>1, <1>5, SettledKept
  <2>2. ~Final(k)
    BY <1>5 DEF SettleUndisputed
  <2> HIDE DEF k
  <2> QED
    BY <1>1, <2>1, <2>2, UnopenedCovered
<1>6. ASSUME NEW who \in Users, OpenDispute(c, who), z = AsDisputed(k, who, DisputeBond(k), NewBallot(k))
      PROVE  Covered(z)
  <2>1. KeptBut(k, z, {"round", "disputeOpen", "disputeBond", "disputer", "votes", "ballot"})
    BY <1>1, <1>6, DisputedKept DEF DisputedTo
  <2>2. ~Final(k)
    BY <1>6 DEF OpenDispute
  <2> HIDE DEF k
  <2> QED
    BY <1>1, <2>1, <2>2, UnopenedCovered
<1>7. ASSUME NEW who \in Users, NEW choice \in Choices3, VoteDispute(c, who, choice), z = AsVoted(k, who, choice)
      PROVE  Covered(z)
  <2>1. KeptBut(k, z, {"ballot", "votes"})
    BY <1>1, <1>7, VotedKept DEF VotedTo
  <2>2. k.disputeOpen
    BY <1>7 DEF VoteDispute
  <2> HIDE DEF k
  <2>3. ~Final(k)
    BY <1>1, <2>2, OpenRound
  <2> QED
    BY <1>1, <2>1, <2>3, UnopenedCovered
<1>8. ASSUME ResolveDispute(c), NEW m, Outcome(k, m), z = AsResolved(m, First(c)) PROVE Covered(z)
  <2> DEFINE X == OutcomeFields \cup {"escrowUntil", "disputeOpen", "disputeBond"}
  <2>1. k.disputeOpen
    BY <1>8 DEF ResolveDispute
  <2>2. "rewardsOpened" \notin X
    BY DEF OutcomeFields, DecidedFields
  <2> HIDE DEF k
  <2>3. Typed(m) /\ KeptBut(k, m, OutcomeFields)
    BY <1>1, <1>8, <2>1, OutcomeKept DEF Resolvable
  <2>4. KeptBut(k, z, X)
    BY <1>1, <1>8, <2>3, ResolvedKept
  <2>5. ~Final(k)
    BY <1>1, <2>1, OpenRound
  <2> HIDE DEF X
  <2> QED
    BY <1>1, <2>2, <2>4, <2>5, UnopenedCovered
<1>9. ASSUME NEW who, Finalize(c, who), z = AsFinal(k) PROVE Covered(z)
  <2>1. KeptBut(k, z, {"verdictAt", "answerBond"})
    BY <1>1, <1>9, FinalKept
  <2>2. ~Final(k)
    BY <1>9 DEF Finalize
  <2> HIDE DEF k
  <2> QED
    BY <1>1, <2>1, <2>2, UnopenedCovered
<1>10. CASE z = AsRewarded(k)
  <2> HIDE DEF k
  <2> QED
    BY <1>1, <1>10, RewardedCovered
<1>11. ASSUME NEW who, NEW v \in WithVerdict(k), PullCarrot(c, who), v.who = who, who \notin k.pulled,
              z = AsPulled(k, who, v.weight)
       PROVE  Covered(z)
  <2>1. k.rewardsOpened
    BY <1>11 DEF PullCarrot
  <2> HIDE DEF k
  <2>2. Covered(AsPulled(k, v.who, v.weight))
    BY <1>1, <1>11, <2>1, PulledCovered
  <2> QED
    BY <1>11, <2>2
<1>12. ASSUME NEW who, NEW side, NEW xbar, NEW conv, NEW tierRef, PostAnswer(c, who, side, xbar, conv, tierRef)
       PROVE  ~Answered(k)
  BY <1>12 DEF PostAnswer
<1> HIDE DEF k
<1> QED
  BY <1>2, <1>3, <1>4, <1>5, <1>6, <1>7, <1>8, <1>9, <1>10, <1>11, <1>12 DEF Turn, k

CoveredInv == CoveredAll(claims)

LEMMA StepCovered == ASSUME EInv, VotesInv, CaseInv, CoveredInv, [Next]_vars PROVE CoveredInv'
<1>1. ASSUME NEW c \in Claims, NEW z, Rewrites(c, z), Turn(c, z) PROVE CoveredAll(claims')
  <2>1. Covered(z)
    BY <1>1, TurnCovered DEF CoveredInv, CoveredAll
  <2>2. DOMAIN claims = Claims /\ claims' = [claims EXCEPT ![c] = z]
    BY <1>1 DEF EInv, SoundAll, Rewrites
  <2>3. \A d \in Claims : claims'[d] = IF d = c THEN z ELSE claims[d]
    BY <2>2
  <2> QED
    BY <2>1, <2>3 DEF CoveredInv, CoveredAll
<1>2. CASE Waits
  <2>1. claims' = claims
    BY <1>2 DEF Waits
  <2> QED
    BY <2>1 DEF CoveredInv
<1> QED
  BY <1>1, <1>2, StepTurns DEF Turns, CoveredInv

(* The carrot's pool covers the shares of all who voted with the verdict   *)
(* and have not pulled, whoever pulls first.                               *)
THEOREM CarrotsAreCovered == Spec => []CarrotsCovered
<1>1. Init => CoveredInv
  <2>1. NoClaim.carrotDenom = 0
    BY DEF NoClaim
  <2>2. Covered(NoClaim)
    BY <2>1 DEF Covered
  <2> QED
    BY <2>2 DEF Init, CoveredInv, CoveredAll
<1>2. EInv /\ VotesInv /\ CaseInv /\ CoveredInv /\ [Next]_vars => CoveredInv'
  BY StepCovered
<1>3. EInv /\ VotesInv /\ CaseInv /\ CoveredInv => CarrotsCovered
  <2> SUFFICES ASSUME EInv, VotesInv, CaseInv, CoveredInv, NEW c \in Claims
               PROVE  LET k == claims[c]
                          unpaid == {v \in WithVerdict(k) : v.who \notin k.pulled} IN
                      /\ k.decided # 0 => k.carrotDenom = Weight(WithVerdict(k))
                      /\ k.rewardsOpened /\ k.carrotDenom > 0 =>
                           MapThenSumSet(LAMBDA v : Share(k, v.weight), unpaid) <= k.carrotPool
    BY DEF CarrotsCovered
  <2> DEFINE k == claims[c]
  <2>1. Sound(k) /\ Voted(k) /\ Case(k) /\ Covered(k)
    BY DEF EInv, SoundAll, VotesInv, VotedAll, CaseInv, CaseAll, CoveredInv, CoveredAll
  <2> HIDE DEF k
  <2>2. k.decided # 0 => k.carrotDenom = WeightSum(WithVerdict(k))
    BY <2>1, DenomIs
  <2>3. k.decided # 0 => k.carrotDenom = Weight(WithVerdict(k))
    BY <2>2 DEF WeightSum, Weight
  <2>4. k.rewardsOpened /\ k.carrotDenom > 0 => ShareSum(k, Unpaid(k)) <= k.carrotPool
    BY <2>1 DEF Covered
  <2>5. k.rewardsOpened /\ k.carrotDenom > 0 =>
          MapThenSumSet(LAMBDA v : Share(k, v.weight), {v \in WithVerdict(k) : v.who \notin k.pulled}) <= k.carrotPool
    BY <2>4 DEF ShareSum, Unpaid
  <2> QED
    BY <2>3, <2>5 DEF k
<1> QED
  BY <1>1, <1>2, <1>3, CasesHold, VotesHold, BooksHold, PTL DEF Spec

-----------------------------------------------------------------------------
(* 18. The ladder of extensions after a default verdict.                   *)

(* How far, at time t, a default verdict still is from the end of its      *)
(* escrow, when it has stood for id with no open vote.                     *)
Defaulted(k) == k.decidedRounds = 0 /\ ~Final(k) /\ k.provisional # None

Laddered(k, id, t) ==
  /\ k.provisional = None => k.failedRounds = 0
  /\ k.disputeOpen => k.ballot.closes \in Nat
  /\ Defaulted(k) =>
       /\ k.failedRounds \in {1, 2}
       /\ k.failedRounds = 1 /\ ~k.disputeOpen => t + LadderTime <= k.escrowUntil + id
       /\ k.failedRounds = 1 /\ k.disputeOpen =>
            /\ k.ballot.closes + LadderTime <= k.escrowUntil + id + VotingTime
            /\ t + LadderTime <= k.escrowUntil + id + VotingTime
       /\ k.failedRounds = 2 /\ ~k.disputeOpen => t + LadderTime <= k.escrowUntil + id + VotingTime

LEMMA Spans == VotingTime \in Nat /\ GraceTime \in Nat /\ LadderTime \in Nat
               /\ LadderTime = VotingTime + 2 * GraceTime + 1
  BY CourtAssumption DEF LadderTime, MaxFailedRounds

SameLadder(k, z) ==
  /\ z.provisional = k.provisional /\ z.decidedRounds = k.decidedRounds /\ z.verdictAt = k.verdictAt
  /\ z.failedRounds = k.failedRounds /\ z.escrowUntil = k.escrowUntil
  /\ z.disputeOpen = k.disputeOpen

LadderFields == {"provisional", "decidedRounds", "verdictAt", "failedRounds", "escrowUntil", "disputeOpen"}

LEMMA KeptLadder ==
  ASSUME NEW k, NEW z, NEW X, KeptBut(k, z, X), X \cap LadderFields = {}
  PROVE  SameLadder(k, z)
<1>1. LadderFields \subseteq Fields
  BY DEF Fields, LadderFields
<1>2. \A f \in LadderFields : z[f] = k[f]
  BY <1>1 DEF KeptBut
<1> QED
  BY <1>2 DEF SameLadder, LadderFields

LEMMA QuietLaddered ==
  ASSUME NEW k, NEW z, NEW id, NEW t, Laddered(k, id, t), SameLadder(k, z),
         z.ballot.closes = k.ballot.closes
  PROVE  Laddered(z, id, t)
<1>1. Defaulted(z) <=> Defaulted(k)
  BY DEF Defaulted, SameLadder, Final
<1> QED
  BY <1>1 DEF Laddered, SameLadder

(* A verdict that is final, or that a quorum gave, needs no ladder.        *)
LEMMA SettledLaddered ==
  ASSUME NEW z, NEW id, NEW t, Final(z) \/ z.decidedRounds # 0, ~z.disputeOpen,
         z.provisional # None \/ z.failedRounds = 0
  PROVE  Laddered(z, id, t)
  BY DEF Laddered, Defaulted

LEMMA UntriedLaddered ==
  ASSUME NEW z, NEW id, NEW t, ~z.disputeOpen, z.provisional = None, z.failedRounds = 0
  PROVE  Laddered(z, id, t)
  BY DEF Laddered, Defaulted

(* A round opens within the escrow: its vote is what the ladder allows for.*)
LEMMA DisputedLaddered ==
  ASSUME NEW k, NEW z, NEW id, NEW ballot, Sound(k), id \in Nat, now \in Nat, Laddered(k, id, now),
         ~k.disputeOpen, DisputedTo(k, z, ballot), ballot.closes = now + VotingTime
  PROVE  Laddered(z, id, now)
<1>1. /\ z.disputeOpen = TRUE /\ z.ballot = ballot
      /\ KeptBut(k, z, {"round", "disputeOpen", "disputeBond", "disputer", "votes", "ballot"})
  BY DEF DisputedTo
<1>2. /\ z.provisional = k.provisional /\ z.decidedRounds = k.decidedRounds /\ z.verdictAt = k.verdictAt
      /\ z.failedRounds = k.failedRounds /\ z.escrowUntil = k.escrowUntil
  <2>1. {"provisional", "decidedRounds", "verdictAt", "failedRounds", "escrowUntil"} \subseteq Fields
    BY DEF Fields
  <2> QED
    BY <1>1, <2>1 DEF KeptBut
<1>3. k.escrowUntil \in Nat
  BY DEF Sound, Typed
<1>4. Defaulted(z) <=> Defaulted(k)
  BY <1>2 DEF Defaulted, Final
<1>5. VotingTime \in Nat /\ LadderTime \in Nat
  BY Spans
<1>6. Defaulted(k) /\ k.failedRounds = 1 => now + LadderTime <= k.escrowUntil + id
  BY DEF Laddered
<1>7. ASSUME Defaulted(k), k.failedRounds = 1
      PROVE  /\ z.ballot.closes + LadderTime <= z.escrowUntil + id + VotingTime
             /\ now + LadderTime <= z.escrowUntil + id + VotingTime
  <2> DEFINE e == z.escrowUntil
             L == LadderTime
             b == z.ballot.closes
  <2>1. now + L <= e + id /\ b = now + VotingTime /\ e \in Nat /\ L \in Nat
    BY <1>1, <1>2, <1>3, <1>5, <1>6, <1>7
  <2> HIDE DEF e, L, b
  <2>2. b + L <= e + id + VotingTime /\ now + L <= e + id + VotingTime
    BY <1>5, <2>1
  <2> QED
    BY <2>2 DEF e, L, b
<1>8. z.ballot.closes \in Nat
  BY <1>1, <1>5
<1>9. Defaulted(k) => k.failedRounds \in {1, 2}
  BY DEF Laddered
<1>10. z.provisional = None => z.failedRounds = 0
  BY <1>2 DEF Laddered
<1> QED
  BY <1>1, <1>2, <1>4, <1>7, <1>8, <1>9, <1>10 DEF Laddered

(* A vote that nobody came to: the first sets the clock, the second has    *)
(* used up the ladder's vote, and the third ends the claim.                *)
LEMMA FailedLaddered ==
  ASSUME NEW k, NEW id, Sound(k), k.disputeOpen, id \in Nat, now \in Nat, Laddered(k, id, now), ~Ending(k)
  PROVE  Laddered(AsResolved(AsFailed(k), k.provisional = None), id, now)
<1> DEFINE m == AsFailed(k)
           first == k.provisional = None
           z == AsResolved(m, first)
<1>1. DOMAIN k = Fields /\ k.failedRounds \in Nat /\ k.escrowUntil \in Nat /\ Resolvable(m)
  BY FailedResolvable DEF Sound, Typed
<1>2. /\ KeptBut(k, m, {"provisional", "failedRounds"})
      /\ m.provisional = Default(k) /\ m.failedRounds = k.failedRounds + 1
  BY <1>1, FailedKept
<1>3. k.failedRounds + 1 < 3
  BY <1>1, <1>2 DEF Ending, MaxFailedRounds
<1>4. Default(k) # None
  BY OpenRound, CourtAssumption DEF Default, Sides
<1>5. first \in BOOLEAN /\ Typed(m)
  BY <1>1 DEF Resolvable
<1> HIDE DEF m, first
<1>6. /\ \A f \in Timed : z[f] = m[f]
      /\ z.disputeOpen = FALSE
      /\ first /\ ~m.provClose /\ m.failedRounds > 0 => z.escrowUntil >= now + LadderTime
      /\ ~first => z.escrowUntil = m.escrowUntil
      /\ z.escrowUntil \in Nat
  BY <1>5, ResolvedIs
<1> HIDE DEF z
<1>7. /\ z.provisional = Default(k) /\ z.decidedRounds = k.decidedRounds /\ z.verdictAt = k.verdictAt
      /\ z.failedRounds = k.failedRounds + 1
      /\ m.escrowUntil = k.escrowUntil /\ m.provClose = k.provClose
  <2>1. {"provisional", "decidedRounds", "verdictAt", "failedRounds"} \subseteq Timed
    BY DEF Timed, Fields
  <2>2. {"decidedRounds", "verdictAt", "escrowUntil", "provClose"} \subseteq Fields
    BY DEF Fields
  <2> QED
    BY <1>2, <1>6, <2>1, <2>2 DEF KeptBut
<1>8. LadderTime \in Nat /\ VotingTime \in Nat
  BY Spans
<1>9. CASE first
  <2>1. k.failedRounds = 0 /\ ~k.provClose
    BY <1>9, OpenRound DEF Laddered, first
  <2>2. z.failedRounds = 1 /\ z.escrowUntil >= now + LadderTime
    BY <1>2, <1>6, <1>7, <1>9, <2>1
  <2>3. now + LadderTime <= z.escrowUntil + id
    BY <1>6, <1>8, <2>2
  <2>4. Laddered(z, id, now)
    BY <1>4, <1>6, <1>7, <2>2, <2>3 DEF Laddered
  <2> QED
    BY <2>4 DEF z, m, first
<1>10. CASE ~first
  <2>1. z.escrowUntil = k.escrowUntil /\ k.provisional # None
    BY <1>6, <1>7, <1>10 DEF first
  <2>2. Defaulted(z) => Defaulted(k)
    BY <1>7, <2>1 DEF Defaulted, Final
  <2>3. Defaulted(k) => k.failedRounds = 1
    BY <1>1, <1>3 DEF Laddered
  <2>4. Defaulted(k) => now + LadderTime <= k.escrowUntil + id + VotingTime
    BY <2>3 DEF Laddered
  <2>5. Defaulted(k) => z.failedRounds = 2
    BY <1>7, <2>3
  <2>6. Laddered(z, id, now)
    BY <1>4, <1>6, <1>7, <2>1, <2>2, <2>4, <2>5 DEF Laddered
  <2> QED
    BY <2>6 DEF z, m, first
<1> QED
  BY <1>9, <1>10

LEMMA ResolvedLaddered ==
  ASSUME NEW k, NEW id, Sound(k), k.disputeOpen, id \in Nat, now \in Nat \ {0}, Laddered(k, id, now),
         NEW m, Outcome(k, m)
  PROVE  Laddered(AsResolved(m, k.provisional = None), id, now)
<1> DEFINE first == k.provisional = None
           z == AsResolved(m, first)
<1>1. DOMAIN k = Fields /\ k.decidedRounds \in Nat /\ k.answer \in Sides /\ None \notin Sides /\ now \in Nat
  BY OpenRound, CourtAssumption DEF Sound, Typed, Sides
<1>2. Typed(m) /\ KeptBut(k, m, OutcomeFields) /\ first \in BOOLEAN
  BY OutcomeKept DEF Resolvable
<1> HIDE DEF first
<1>3. (\A f \in Timed : z[f] = m[f]) /\ z.disputeOpen = FALSE
  BY <1>1, <1>2, ResolvedIs
<1> HIDE DEF z
<1>4. /\ z.provisional = m.provisional /\ z.decidedRounds = m.decidedRounds
      /\ z.verdictAt = m.verdictAt /\ z.failedRounds = m.failedRounds
  <2>1. {"provisional", "decidedRounds", "verdictAt", "failedRounds"} \subseteq Timed
    BY DEF Timed, Fields
  <2> QED
    BY <1>3, <2>1
<1>5. ASSUME m.verdictAt = now \/ m.decidedRounds # 0, m.provisional # None \/ m.failedRounds = 0
      PROVE  Laddered(z, id, now)
  <2>1. Final(z) \/ z.decidedRounds # 0
    BY <1>4, <1>5 DEF Final
  <2>2. z.provisional # None \/ z.failedRounds = 0
    BY <1>4, <1>5
  <2> QED
    BY <1>3, <2>1, <2>2, SettledLaddered
<1>6. CASE ~Ending(k) /\ m = AsFailed(k)
  BY <1>1, <1>6, FailedLaddered DEF z, first
<1>7. CASE Ending(k) /\ m = ProvClosed(AsFailed(k))
  <2>1. /\ KeptBut(k, AsFailed(k), {"provisional", "failedRounds"}) /\ AsFailed(k).provisional = Default(k)
        /\ KeptBut(AsFailed(k), m, {"deposit", "fee", "provClose", "verdictAt", "answerBond"})
        /\ m.verdictAt = now
    BY <1>1, <1>7, FailedKept, EndedKept
  <2>2. m.provisional = Default(k)
    BY <2>1 DEF KeptBut, Fields
  <2>3. m.provisional # None
    BY <1>1, <2>2 DEF Default
  <2> QED
    BY <1>5, <2>1, <2>3 DEF z, first
<1>8. CASE m = AsDiscarded(k)
  <2> DEFINE X == {"deposit", "fee", "provClose", "verdictAt", "answerBond"}
                    \cup {"spamClosed", "decided", "carrotChoice", "carrotDenom", "spamW", "spamTotalW"}
  <2>1. KeptBut(k, m, X) /\ m.verdictAt = now
    BY <1>1, <1>8, DiscardedKept
  <2>2. {"provisional", "failedRounds"} \subseteq Fields \ X
    BY DEF Fields
  <2> HIDE DEF X
  <2>3. m.provisional = k.provisional /\ m.failedRounds = k.failedRounds
    BY <2>1, <2>2 DEF KeptBut
  <2>4. m.provisional # None \/ m.failedRounds = 0
    BY <2>3 DEF Laddered
  <2> QED
    BY <1>5, <2>1, <2>4 DEF z, first
<1>9. CASE m = AsOverturned(k)
  <2>1. m.provisional = Opposite(k.answer) /\ m.decidedRounds = k.decidedRounds + 1
    BY <1>1, <1>9, OverturnedKept
  <2>2. m.provisional # None /\ m.decidedRounds # 0
    BY <1>1, <2>1 DEF Opposite, Sides
  <2> QED
    BY <1>5, <2>2 DEF z, first
<1>10. CASE m = AsUpheld(k)
  <2>1. m.provisional = k.answer /\ m.decidedRounds = k.decidedRounds + 1
    BY <1>1, <1>10, DecidedKept DEF AsUpheld
  <2>2. m.provisional # None /\ m.decidedRounds # 0
    BY <1>1, <2>1
  <2> QED
    BY <1>5, <2>2 DEF z, first
<1> QED
  BY <1>6, <1>7, <1>8, <1>9, <1>10 DEF Outcome

-----------------------------------------------------------------------------
(* 19. The ladder through every turn, and as blocks go by.                 *)

(* A block goes by: unless a vote is open, it counts as idle.              *)
LEMMA TickLaddered ==
  ASSUME NEW k, NEW id, Sound(k), id \in Nat, now \in Nat, Laddered(k, id, now)
  PROVE  Laddered(k, IF Unwatched(k) THEN id + 1 ELSE id, now + 1)
<1> DEFINE j == IF Unwatched(k) THEN id + 1 ELSE id
           e == k.escrowUntil
           L == LadderTime
           V == VotingTime
           b == k.ballot.closes
<1>1. e \in Nat /\ L \in Nat /\ V \in Nat
  BY Spans DEF Sound, Typed
<1>2. j \in Nat /\ j >= id /\ (Unwatched(k) => j = id + 1)
  OBVIOUS
<1>3. Defaulted(k) => (Unwatched(k) <=> ~(k.disputeOpen /\ Active(k.ballot)))
  BY DEF Defaulted, Unwatched
<1>4. Active(k.ballot) => now < b
  BY DEF Active
<1>5. k.disputeOpen => b \in Nat
  BY DEF Laddered
<1>6. Defaulted(k) /\ k.failedRounds = 1 /\ ~k.disputeOpen => now + L <= e + id
  BY DEF Laddered
<1>7. Defaulted(k) /\ k.failedRounds = 1 /\ k.disputeOpen => b + L <= e + id + V /\ now + L <= e + id + V
  BY DEF Laddered
<1>8. Defaulted(k) /\ k.failedRounds = 2 /\ ~k.disputeOpen => now + L <= e + id + V
  BY DEF Laddered
<1> HIDE DEF j, e, L, V, b
<1>9. ASSUME Defaulted(k), k.failedRounds = 1, ~k.disputeOpen PROVE (now + 1) + L <= e + j
  <2>1. j = id + 1 /\ now + L <= e + id
    BY <1>2, <1>3, <1>6, <1>9
  <2> QED
    BY <1>1, <2>1
<1>10. ASSUME Defaulted(k), k.failedRounds = 2, ~k.disputeOpen PROVE (now + 1) + L <= e + j + V
  <2>1. j = id + 1 /\ now + L <= e + id + V
    BY <1>2, <1>3, <1>8, <1>10
  <2> QED
    BY <1>1, <2>1
<1>11. ASSUME Defaulted(k), k.failedRounds = 1, k.disputeOpen
       PROVE  b + L <= e + j + V /\ (now + 1) + L <= e + j + V
  <2>1. b \in Nat /\ b + L <= e + id + V /\ now + L <= e + id + V
    BY <1>5, <1>7, <1>11
  <2>2. b + L <= e + j + V
    BY <1>1, <1>2, <2>1
  <2>3. CASE Unwatched(k)
    <3>1. j = id + 1
      BY <1>2, <2>3
    <3> QED
      BY <1>1, <2>1, <2>2, <3>1
  <2>4. CASE ~Unwatched(k)
    <3>1. now < b
      BY <1>3, <1>4, <1>11, <2>4
    <3> QED
      BY <1>1, <1>2, <2>1, <2>2, <3>1
  <2> QED
    BY <2>3, <2>4
<1>12. (Defaulted(k) => k.failedRounds \in {1, 2}) /\ (k.provisional = None => k.failedRounds = 0)
  BY DEF Laddered
<1>13. Laddered(k, j, now + 1)
  BY <1>5, <1>9, <1>10, <1>11, <1>12 DEF Laddered, e, L, V, b
<1> QED
  BY <1>13 DEF j

LEMMA TurnLaddered ==
  ASSUME EInv, NEW c \in Claims, NEW id, id \in Nat, Laddered(claims[c], id, now),
         NEW z, Rewrites(c, z), Turn(c, z)
  PROVE  Laddered(z, id, now)
<1> DEFINE k == claims[c]
<1>1. Sound(k) /\ DOMAIN k = Fields /\ now \in Nat \ {0} /\ now \in Nat /\ Laddered(k, id, now)
      /\ Sound(z)
  BY DEF EInv, SoundAll, Sound, Typed, Rewrites
<1>2. ASSUME NEW who \in Users, z = AsOpened(who, now) PROVE Laddered(z, id, now)
  <2>1. z.disputeOpen = FALSE /\ z.provisional = None /\ z.failedRounds = 0
    BY <1>2 DEF AsOpened, NoClaim
  <2> QED
    BY <2>1, UntriedLaddered
<1>3. CASE z = AsClosed(k)
  <2>1. KeptBut(k, z, {"deposit", "fee", "closed"})
    BY <1>1, <1>3, ClosedKept
  <2>2. SameLadder(k, z) /\ z.ballot = k.ballot
    BY <2>1, KeptLadder, KeptTally DEF LadderFields, TallyFields, SameTally
  <2> HIDE DEF k
  <2> QED
    BY <1>1, <2>2, QuietLaddered
<1>4. ASSUME NEW who, NEW side, NEW bond, NEW at, NEW xbar, NEW conv, NEW tierRef,
             z = AsAnswered(k, who, side, bond, at, xbar, conv, tierRef)
      PROVE  Laddered(z, id, now)
  <2>1. KeptBut(k, z, {"answer", "answerer", "answerBond", "answerBond0", "answeredAt", "xbar", "conv", "tierRef"})
    BY <1>1, <1>4, AnsweredKept
  <2>2. SameLadder(k, z) /\ z.ballot = k.ballot
    BY <2>1, KeptLadder, KeptTally DEF LadderFields, TallyFields, SameTally
  <2> HIDE DEF k
  <2> QED
    BY <1>1, <2>2, QuietLaddered
<1>5. CASE SettleUndisputed(c) /\ z = AsSettled(k)
  <2>1. KeptBut(k, z, {"verdictAt", "provisional", "answerBond"}) /\ z.verdictAt = now
    BY <1>1, <1>5, SettledKept
  <2>2. z.disputeOpen = k.disputeOpen /\ z.failedRounds = k.failedRounds
    BY <2>1 DEF KeptBut, Fields
  <2>3. k.round = 0
    BY <1>5 DEF SettleUndisputed
  <2>4. ~k.disputeOpen /\ k.failedRounds = 0
    BY <1>1, <2>3 DEF Sound, Phased
  <2>5. Final(z)
    BY <1>1, <2>1 DEF Final
  <2> HIDE DEF k
  <2> QED
    BY <2>2, <2>4, <2>5, SettledLaddered
<1>6. ASSUME NEW who \in Users, OpenDispute(c, who), z = AsDisputed(k, who, DisputeBond(k), NewBallot(k))
      PROVE  Laddered(z, id, now)
  <2>1. DisputedTo(k, z, NewBallot(k))
    BY <1>1, <1>6, DisputedKept
  <2>2. ~k.disputeOpen
    BY <1>6 DEF OpenDispute
  <2>3. NewBallot(k).closes = now + VotingTime
    BY NewBallotIs DEF EInv
  <2> HIDE DEF k
  <2> QED
    BY <1>1, <2>1, <2>2, <2>3, DisputedLaddered
<1>7. ASSUME NEW who \in Users, NEW choice \in Choices3, VoteDispute(c, who, choice), z = AsVoted(k, who, choice)
      PROVE  Laddered(z, id, now)
  <2>1. KeptBut(k, z, {"ballot", "votes"}) /\ z.ballot = BallotWith(k.ballot, choice, Weighs(k, who))
    BY <1>1, <1>7, VotedKept DEF VotedTo
  <2>2. Weighs(k, who) > 0
    BY <1>7 DEF VoteDispute, Weighs
  <2>3. Weighs(k, who) \in Nat
    BY <2>2, WeighsIs
  <2>4. Tallied(k.ballot)
    BY <1>1 DEF Sound, Typed
  <2> HIDE DEF k
  <2>5. z.ballot.closes = k.ballot.closes
    BY <2>1, <2>3, <2>4, BallotWithIs
  <2>6. SameLadder(k, z)
    BY <2>1, KeptLadder DEF LadderFields
  <2> QED
    BY <1>1, <2>5, <2>6, QuietLaddered
<1>8. ASSUME ResolveDispute(c), NEW m, Outcome(k, m), z = AsResolved(m, First(c)) PROVE Laddered(z, id, now)
  <2>1. k.disputeOpen /\ First(c) = (k.provisional = None)
    BY <1>8 DEF ResolveDispute, First
  <2> HIDE DEF k
  <2> QED
    BY <1>1, <1>8, <2>1, ResolvedLaddered
<1>9. ASSUME NEW who, Finalize(c, who), z = AsFinal(k) PROVE Laddered(z, id, now)
  <2>1. KeptBut(k, z, {"verdictAt", "answerBond"}) /\ z.verdictAt = now
    BY <1>1, <1>9, FinalKept
  <2>2. z.disputeOpen = k.disputeOpen /\ z.provisional = k.provisional
    BY <2>1 DEF KeptBut, Fields
  <2>3. ~k.disputeOpen /\ k.provisional # None
    BY <1>9 DEF Finalize
  <2>4. Final(z)
    BY <1>1, <2>1 DEF Final
  <2> HIDE DEF k
  <2> QED
    BY <2>2, <2>3, <2>4, SettledLaddered
<1>10. CASE z = AsRewarded(k)
  <2>1. KeptBut(k, z, {"deposit", "fee", "rewardsOpened", "want", "carrotTotal", "carrotPool", "answerBond"})
    BY <1>1, <1>10, RewardedKept
  <2>2. SameLadder(k, z) /\ z.ballot = k.ballot
    BY <2>1, KeptLadder, KeptTally DEF LadderFields, TallyFields, SameTally
  <2> HIDE DEF k
  <2> QED
    BY <1>1, <2>2, QuietLaddered
<1>11. ASSUME NEW who, NEW w, z = AsPulled(k, who, w) PROVE Laddered(z, id, now)
  <2>1. KeptBut(k, z, {"pulled", "carrotPool"})
    BY <1>1, <1>11, PulledKept
  <2>2. SameLadder(k, z) /\ z.ballot = k.ballot
    BY <2>1, KeptLadder, KeptTally DEF LadderFields, TallyFields, SameTally
  <2> HIDE DEF k
  <2> QED
    BY <1>1, <2>2, QuietLaddered
<1> HIDE DEF k
<1> QED
  BY <1>2, <1>3, <1>4, <1>5, <1>6, <1>7, <1>8, <1>9, <1>10, <1>11 DEF Turn, k

LadderInv == /\ idle \in [Claims -> Nat]
             /\ \A c \in Claims : Laddered(claims[c], idle[c], now)

LEMMA StepLadder == ASSUME EInv, LadderInv, [Next]_vars PROVE LadderInv'
<1>1. ASSUME NEW c \in Claims, NEW z, Rewrites(c, z), Turn(c, z), UNCHANGED <<now, sealed, idle>>
      PROVE  LadderInv'
  <2>1. Laddered(z, idle[c], now)
    <3>1. idle[c] \in Nat /\ Laddered(claims[c], idle[c], now)
      BY DEF LadderInv
    <3> QED
      BY <1>1, <3>1, TurnLaddered
  <2>2. DOMAIN claims = Claims /\ claims' = [claims EXCEPT ![c] = z]
    BY <1>1 DEF EInv, SoundAll, Rewrites
  <2>3. \A d \in Claims : claims'[d] = IF d = c THEN z ELSE claims[d]
    BY <2>2
  <2> QED
    BY <1>1, <2>1, <2>3 DEF LadderInv
<1>2. CASE Waits
  <2>1. claims' = claims
    BY <1>2 DEF Waits
  <2>2. CASE Tick
    <3>1. /\ now' = now + 1
          /\ idle' = [c \in Claims |-> IF Unwatched(claims[c]) THEN idle[c] + 1 ELSE idle[c]]
      BY <2>2 DEF Tick
    <3>2. ASSUME NEW c \in Claims PROVE Laddered(claims'[c], idle'[c], now') /\ idle'[c] \in Nat
      <4>1. Sound(claims[c]) /\ now \in Nat /\ idle[c] \in Nat /\ Laddered(claims[c], idle[c], now)
        BY DEF EInv, SoundAll, LadderInv
      <4>2. Laddered(claims[c], IF Unwatched(claims[c]) THEN idle[c] + 1 ELSE idle[c], now + 1)
        BY <4>1, TickLaddered
      <4>3. idle'[c] = IF Unwatched(claims[c]) THEN idle[c] + 1 ELSE idle[c]
        BY <3>1
      <4> QED
        BY <2>1, <3>1, <4>1, <4>2, <4>3
    <3> QED
      BY <3>1, <3>2 DEF LadderInv
  <2>3. CASE (\E from, to \in Users : \E n \in Nat : Transfer(from, to, n)) \/ UNCHANGED vars
    <3>1. now' = now /\ idle' = idle
      BY <2>3 DEF Transfer, vars
    <3> QED
      BY <2>1, <3>1 DEF LadderInv
  <2> QED
    BY <1>2, <2>2, <2>3 DEF Waits
<1> QED
  BY <1>1, <1>2, StepTurns DEF Turns

(* A verdict that is only a default cannot become final while the rounds   *)
(* it still has to survive can be walked within the allowance.             *)
THEOREM LaddersFit == Spec => []LadderFits
<1>1. Init => LadderInv
  <2> SUFFICES ASSUME Init PROVE LadderInv
    OBVIOUS
  <2>1. \A c \in Claims : claims[c] = NoClaim /\ idle[c] = 0
    BY DEF Init
  <2>2. NoClaim.disputeOpen = FALSE /\ NoClaim.provisional = None /\ NoClaim.failedRounds = 0
    BY DEF NoClaim
  <2>3. Laddered(NoClaim, 0, now)
    BY <2>2, UntriedLaddered
  <2>4. idle \in [Claims -> Nat]
    BY DEF Init
  <2> QED
    BY <2>1, <2>3, <2>4 DEF LadderInv
<1>2. EInv /\ LadderInv /\ [Next]_vars => LadderInv'
  BY StepLadder
<1>3. EInv /\ LadderInv => LadderFits
  <2> SUFFICES ASSUME EInv, LadderInv, NEW c \in Claims,
                      claims[c].failedRounds > 0, claims[c].decidedRounds = 0,
                      ~claims[c].disputeOpen, ~Final(claims[c]),
                      idle[c] <= (MaxFailedRounds - 1) * GraceTime
               PROVE  ~EscrowPassed(claims[c])
    BY DEF LadderFits
  <2> DEFINE k == claims[c]
             id == idle[c]
             e == k.escrowUntil
  <2>1. Sound(k) /\ Laddered(k, id, now) /\ id \in Nat /\ now \in Nat
    BY DEF EInv, SoundAll, LadderInv
  <2>2. id <= 2 * GraceTime /\ GraceTime \in Nat /\ VotingTime \in Nat
        /\ LadderTime = VotingTime + 2 * GraceTime + 1
    BY Spans DEF MaxFailedRounds
  <2>3. e \in Nat
    BY <2>1 DEF Sound, Typed
  <2>4. k.failedRounds > 0 /\ k.decidedRounds = 0 /\ ~k.disputeOpen /\ ~Final(k)
    OBVIOUS
  <2> HIDE DEF k
  <2>5. Defaulted(k)
    BY <2>1, <2>4 DEF Laddered, Defaulted
  <2>6. now + LadderTime <= e + id \/ now + LadderTime <= e + id + VotingTime
    BY <2>1, <2>4, <2>5 DEF Laddered
  <2> HIDE DEF id, e
  <2>7. now < e
    BY <2>1, <2>2, <2>3, <2>6
  <2>8. ~(now >= e)
    BY <2>1, <2>3, <2>7
  <2> QED
    BY <2>8 DEF EscrowPassed, k, e
<1> QED
  BY <1>1, <1>2, <1>3, BooksHold, PTL DEF Spec

-----------------------------------------------------------------------------
(* 20. A court leads the lives its stakers rely on.                        *)

(* What a claim's life is read off.                                        *)
LifeFields == {"author", "closed", "answer", "verdictAt", "rewardsOpened", "provisional", "answerBond"}

LEMMA SameLife ==
  ASSUME NEW k, NEW z, \A f \in LifeFields : z[f] = k[f]
  PROVE  LifeOf(z) = LifeOf(k)
<1>1. /\ z.author = k.author /\ z.closed = k.closed /\ z.answer = k.answer /\ z.verdictAt = k.verdictAt
      /\ z.rewardsOpened = k.rewardsOpened /\ z.provisional = k.provisional /\ z.answerBond = k.answerBond
  BY DEF LifeFields
<1> QED BY <1>1 DEF LifeOf, Stage, Opened, Answered, Final

LEMMA KeptLife ==
  ASSUME NEW k, NEW z, NEW X, KeptBut(k, z, X), X \cap LifeFields = {}
  PROVE  LifeOf(z) = LifeOf(k)
<1>1. LifeFields \subseteq Fields
  BY DEF LifeFields, Fields
<1> QED BY <1>1, SameLife DEF KeptBut

(* The bond is gone once a verdict stands against the answer.              *)
Forfeited(k) == k.provisional \notin {None, k.answer} => k.answerBond = 0

(* A life by its stage.                                                    *)
LEMMA StageIs ==
  ASSUME NEW k, Sound(k)
  PROVE  /\ ~Opened(k) => Stage(k) = "unasked"
         /\ k.closed => Stage(k) = "closed"
         /\ Opened(k) /\ ~k.closed /\ ~Answered(k) => Stage(k) = "open"
         /\ Answered(k) /\ ~Final(k) => Stage(k) = "answered"
         /\ Answered(k) /\ Final(k) /\ ~k.rewardsOpened => Stage(k) = "final"
         /\ Answered(k) /\ k.rewardsOpened => Stage(k) = "drawn"
  BY DEF Stage, Sound, Phased

(* What a step may make of one life.                                       *)
Lived(l, m) ==
  \/ m = l
  \/ l.stage = "unasked" /\ m = Life!Fresh("open")
  \/ l.stage = "open" /\ m = Life!Fresh("closed")
  \/ l.stage = "open" /\ \E side \in Sides :
       m = Life!At("answered", side, None, TRUE)
  \/ l.stage = "answered" /\ \E side \in Sides :
       /\ side # l.standing
       /\ m = Life!At("answered", l.answer, side, l.held /\ side = l.answer)
  \/ l.stage = "answered" /\ \E side \in Sides \cup {None} :
       /\ side \in IF l.standing = None THEN {None, l.answer} ELSE {l.standing}
       /\ m = Life!At("final", l.answer, side, FALSE)
  \/ l.stage = "final" /\ m = Life!At("drawn", l.answer, l.standing, FALSE)

LEMMA LifeGoesOn ==
  ASSUME NEW c \in Claims, NEW z, DOMAIN claims = Claims, claims' = [claims EXCEPT ![c] = z],
         Lived(LifeOf(claims[c]), LifeOf(z))
  PROVE  Life!Next \/ Lives' = Lives
<1> DEFINE l == LifeOf(claims[c])
           m == LifeOf(z)
<1>1. Lives[c] = l /\ Lives' = [Lives EXCEPT ![c] = m]
  <2>1. Lives' = [d \in Claims |-> LifeOf(claims'[d])]
    BY DEF Lives, LifeOf, Stage, Opened, Answered, Final
  <2>2. \A d \in Claims : claims'[d] = IF d = c THEN z ELSE claims[d]
    OBVIOUS
  <2> HIDE DEF m
  <2>3. \A d \in Claims : LifeOf(claims'[d]) = IF d = c THEN m ELSE LifeOf(claims[d])
    BY <2>2 DEF m
  <2> QED BY <2>1, <2>3 DEF Lives
<1>2. Lived(l, m)
  OBVIOUS
<1>3. ASSUME m = l PROVE Lives' = Lives
  BY <1>1, <1>3 DEF Lives
<1> HIDE DEF l, m
<1>4. ASSUME l.stage = "unasked", m = Life!Fresh("open") PROVE Life!Next
  BY <1>1, <1>4 DEF Life!Next, Life!Ask, Life!From
<1>5. ASSUME l.stage = "open", m = Life!Fresh("closed") PROVE Life!Next
  BY <1>1, <1>5 DEF Life!Next, Life!Close, Life!From
<1>6. ASSUME l.stage = "open", NEW side \in Sides,
             m = Life!At("answered", side, None, TRUE)
      PROVE  Life!Next
  BY <1>1, <1>6 DEF Life!Next, Life!Answer, Life!From
<1>7. ASSUME l.stage = "answered", NEW side \in Sides, side # l.standing,
             m = Life!At("answered", l.answer, side, l.held /\ side = l.answer)
      PROVE  Life!Next
  BY <1>1, <1>7 DEF Life!Next, Life!Judge, Life!From
<1>8. ASSUME l.stage = "answered", NEW side \in Sides \cup {None},
             side \in IF l.standing = None THEN {None, l.answer} ELSE {l.standing},
             m = Life!At("final", l.answer, side, FALSE)
      PROVE  Life!Next
  BY <1>1, <1>8 DEF Life!Next, Life!Settle, Life!From
<1>9. ASSUME l.stage = "final", m = Life!At("drawn", l.answer, l.standing, FALSE) PROVE Life!Next
  BY <1>1, <1>9 DEF Life!Next, Life!Draw, Life!From
<1> QED BY <1>2, <1>3, <1>4, <1>5, <1>6, <1>7, <1>8, <1>9 DEF Lived

(* The parts of a life.                                                   *)
LEMMA LifeIs ==
  ASSUME NEW k
  PROVE  /\ LifeOf(k).stage = Stage(k) /\ LifeOf(k).answer = k.answer
         /\ LifeOf(k).standing = k.provisional /\ LifeOf(k).held = (k.answerBond > 0)
<1> DEFINE h == k.answerBond > 0
<1>1. LifeOf(k) = [stage |-> Stage(k), answer |-> k.answer, standing |-> k.provisional, held |-> h]
  BY DEF LifeOf
<1> HIDE DEF h
<1>2. /\ LifeOf(k).stage = Stage(k) /\ LifeOf(k).answer = k.answer
      /\ LifeOf(k).standing = k.provisional /\ LifeOf(k).held = h
  BY <1>1
<1> QED BY <1>2 DEF h

(* The claim is judged: a verdict stands or turns, or stays as it was.     *)
LEMMA JudgedLife ==
  ASSUME NEW k, NEW m, Sound(k), Typed(m), Answered(k), ~Final(k), Answered(m), ~Final(m),
         Opened(m), ~m.closed, m.answer = k.answer, m.provisional \in Sides,
         IF m.provisional = k.answer THEN m.answerBond = k.answerBond ELSE m.answerBond = 0,
         Forfeited(k)
  PROVE  Lived(LifeOf(k), LifeOf(m)) /\ Forfeited(m)
<1>1. Stage(k) = "answered"
  BY StageIs
<1>2. Stage(m) = "answered"
  BY DEF Stage
<1>3. LifeOf(m) = [stage |-> "answered", answer |-> k.answer, standing |-> m.provisional, held |-> m.answerBond > 0]
  BY <1>2 DEF LifeOf
<1>4. None \notin Sides /\ k.answerBond \in Nat
  BY CourtAssumption DEF Sides, Sound, Typed
<1>5. CASE m.provisional = k.provisional
  <2>1. m.answerBond = k.answerBond
    BY <1>4, <1>5 DEF Forfeited
  <2> QED BY <1>1, <1>3, <1>5, <2>1 DEF Lived, LifeOf, Forfeited
<1>6. CASE m.provisional # k.provisional
  <2>1. (m.answerBond > 0) = ((k.answerBond > 0) /\ m.provisional = k.answer)
    BY <1>4
  <2>2. LifeOf(m) = Life!At("answered", LifeOf(k).answer, m.provisional,
                            LifeOf(k).held /\ m.provisional = LifeOf(k).answer)
    BY <1>3, <2>1, LifeIs DEF Life!At
  <2>3. LifeOf(k).stage = "answered" /\ m.provisional # LifeOf(k).standing
    BY <1>1, <1>6, LifeIs
  <2> QED BY <2>2, <2>3 DEF Lived, Forfeited
<1> QED BY <1>5, <1>6

(* The claim is over: with the verdict that stood, or, where none did, the *)
(* answer or nothing.                                                      *)
LEMMA SettledLife ==
  ASSUME NEW k, NEW m, Sound(k), Answered(k), ~Final(k), ~k.rewardsOpened,
         Opened(m), ~m.closed, Final(m), m.rewardsOpened = k.rewardsOpened, m.answer = k.answer,
         m.answerBond = 0,
         m.provisional = k.provisional \/ (k.provisional = None /\ m.provisional = k.answer)
  PROVE  Lived(LifeOf(k), LifeOf(m)) /\ Forfeited(m)
<1>1. Stage(k) = "answered"
  BY StageIs
<1>0. Answered(m) /\ ~m.rewardsOpened
  BY DEF Answered
<1>2. Stage(m) = "final"
  BY <1>0 DEF Stage, Answered
<1>3. LifeOf(m) = [stage |-> "final", answer |-> k.answer, standing |-> m.provisional, held |-> FALSE]
  <2>1. (m.answerBond > 0) = FALSE
    OBVIOUS
  <2> QED BY <1>2, <2>1 DEF LifeOf
<1>4. LifeOf(m) = Life!At("final", LifeOf(k).answer, m.provisional, FALSE)
  BY <1>3, LifeIs DEF Life!At
<1>5. /\ LifeOf(k).stage = "answered" /\ m.provisional \in Sides \cup {None}
      /\ m.provisional \in IF LifeOf(k).standing = None THEN {None, LifeOf(k).answer} ELSE {LifeOf(k).standing}
  BY <1>1, LifeIs DEF Sound, Typed
<1> QED BY <1>4, <1>5 DEF Lived, Forfeited

(* A claim is asked, forgotten, answered, drawn on.                        *)
LEMMA AskedLife ==
  ASSUME NEW k, Sound(k), ~Opened(k), NEW who \in Users, now \in Nat
  PROVE  Lived(LifeOf(k), LifeOf(AsOpened(who, now))) /\ Forfeited(AsOpened(who, now))
<1> DEFINE z == AsOpened(who, now)
<1>1. /\ Opened(z) /\ z.closed = FALSE /\ z.answer = None /\ z.verdictAt = 0 /\ z.rewardsOpened = FALSE
      /\ z.provisional = None /\ z.answerBond = 0
  <2>1. Opened(z)
    BY OpenedSound
  <2>2. /\ z.closed = FALSE /\ z.answer = None /\ z.verdictAt = 0 /\ z.rewardsOpened = FALSE
        /\ z.provisional = None /\ z.answerBond = 0
    BY DEF AsOpened, NoClaim
  <2> QED BY <2>1, <2>2
<1> HIDE DEF z
<1>2. LifeOf(z) = Life!Fresh("open")
  <2>1. Stage(z) = "open" /\ (z.answerBond > 0) = FALSE
    BY <1>1 DEF Stage, Answered
  <2> QED BY <1>1, <2>1 DEF LifeOf, Life!Fresh, Life!At
<1>3. LifeOf(k).stage = "unasked"
  BY LifeIs, StageIs
<1>4. Lived(LifeOf(k), LifeOf(z)) /\ Forfeited(z)
  BY <1>1, <1>2, <1>3 DEF Lived, Forfeited
<1> QED BY <1>4 DEF z

LEMMA ClosedLife ==
  ASSUME NEW k, Sound(k), Opened(k), ~k.closed, ~Answered(k)
  PROVE  Lived(LifeOf(k), LifeOf(AsClosed(k))) /\ Forfeited(AsClosed(k))
<1> DEFINE z == AsClosed(k)
<1>1. /\ z.author = k.author /\ z.closed = TRUE /\ z.answer = k.answer
      /\ z.provisional = k.provisional /\ z.answerBond = k.answerBond
  BY DEF AsClosed, Emptied, Sound, Typed, Fields
<1> HIDE DEF z
<1>2. k.answer = None /\ k.provisional = None /\ k.answerBond = 0
  BY DEF Sound, Phased, Answered
<1>3. LifeOf(z) = Life!Fresh("closed")
  <2>1. Stage(z) = "closed" /\ (z.answerBond > 0) = FALSE
    BY <1>1, <1>2 DEF Stage, Opened
  <2> QED BY <1>1, <1>2, <2>1 DEF LifeOf, Life!Fresh, Life!At
<1>4. LifeOf(k).stage = "open"
  BY LifeIs, StageIs
<1>5. Lived(LifeOf(k), LifeOf(z)) /\ Forfeited(z)
  BY <1>1, <1>2, <1>3, <1>4 DEF Lived, Forfeited
<1> QED BY <1>5 DEF z

LEMMA AnsweredLife ==
  ASSUME NEW k, Sound(k), Opened(k), ~k.closed, ~Answered(k), NEW who, NEW side \in Sides,
         NEW bond \in Nat \ {0}, NEW at, NEW xbar, NEW conv, NEW tierRef
  PROVE  LET z == AsAnswered(k, who, side, bond, at, xbar, conv, tierRef) IN
         Lived(LifeOf(k), LifeOf(z)) /\ Forfeited(z)
<1> DEFINE z == AsAnswered(k, who, side, bond, at, xbar, conv, tierRef)
<1>1. /\ z.author = k.author /\ z.closed = k.closed /\ z.answer = side /\ z.verdictAt = k.verdictAt
      /\ z.provisional = k.provisional /\ z.answerBond = bond
  BY DEF AsAnswered, Sound, Typed, Fields
<1> HIDE DEF z
<1>2. k.verdictAt = 0 /\ k.provisional = None
  BY DEF Sound, Phased
<1>3. side # None
  BY CourtAssumption DEF Sides
<1>4. LifeOf(z) = Life!At("answered", side, None, TRUE)
  <2>1. Stage(z) = "answered"
    BY <1>1, <1>2, <1>3 DEF Stage, Opened, Answered, Final
  <2>2. (z.answerBond > 0) = TRUE
    BY <1>1
  <2> QED BY <1>1, <1>2, <2>1, <2>2 DEF LifeOf, Life!At
<1>5. LifeOf(k).stage = "open"
  BY LifeIs, StageIs
<1>6. Lived(LifeOf(k), LifeOf(z)) /\ Forfeited(z)
  BY <1>1, <1>2, <1>4, <1>5 DEF Lived, Forfeited
<1> QED BY <1>6 DEF z

LEMMA DrawnLife ==
  ASSUME NEW k, Sound(k), Final(k), ~k.rewardsOpened, ~k.closed, Forfeited(k)
  PROVE  Lived(LifeOf(k), LifeOf(AsRewarded(k))) /\ Forfeited(AsRewarded(k))
<1> DEFINE z == AsRewarded(k)
<1>1. /\ KeptBut(k, z, {"deposit", "fee", "rewardsOpened", "want", "carrotTotal", "carrotPool", "answerBond"})
      /\ z.rewardsOpened = TRUE
  BY RewardedKept DEF Sound, Typed
<1>2. z.answerBond = 0
  <2> DEFINE e == Emptied(k)
             w == Entitlement(k)
             n == CarrotOf(k)
             y == [e EXCEPT !.rewardsOpened = TRUE, !.want = w, !.carrotTotal = n, !.carrotPool = n, !.answerBond = 0]
  <2>1. z = y
    BY DEF AsRewarded
  <2>2. DOMAIN e = Fields
    BY DEF Emptied, Sound, Typed
  <2> HIDE DEF e, w, n, z
  <2>3. y.answerBond = 0
    BY <2>2 DEF Fields
  <2> QED BY <2>1, <2>3
<1> HIDE DEF z
<1>3. /\ z.author = k.author /\ z.closed = k.closed /\ z.answer = k.answer
      /\ z.provisional = k.provisional /\ z.verdictAt = k.verdictAt
  BY <1>1 DEF KeptBut, Fields
<1>4. Answered(k) /\ Opened(k)
  BY DEF Sound, Phased, Final
<1>5. LifeOf(k).stage = "final"
  BY <1>4, LifeIs, StageIs
<1>6. LifeOf(z) = Life!At("drawn", LifeOf(k).answer, LifeOf(k).standing, FALSE)
  <2>1. Stage(z) = "drawn"
    BY <1>1, <1>3, <1>4 DEF Stage, Opened, Answered, Final
  <2>2. (z.answerBond > 0) = FALSE
    BY <1>2
  <2> QED BY <1>3, <2>1, <2>2, LifeIs DEF LifeOf, Life!At
<1>7. Lived(LifeOf(k), LifeOf(z)) /\ Forfeited(z)
  BY <1>2, <1>5, <1>6 DEF Lived, Forfeited
<1> QED BY <1>7 DEF z

(* An upheld answer keeps its bond, an overturned one has none.            *)
LEMMA UpheldKeepsBond ==
  ASSUME NEW k, DOMAIN k = Fields
  PROVE  AsUpheld(k).answerBond = k.answerBond
<1> DEFINE a == k.ballot.abstain
           t == Turnout(k.ballot)
           r == k.round
           n == k.decidedRounds + 1
           w == k.ballot.no
           p == k.answer
           z == [k EXCEPT !.provisional = p, !.failedRounds = 0, !.decidedRounds = n,
                          !.decided = r, !.carrotChoice = "no", !.carrotDenom = w,
                          !.spamW = a, !.spamTotalW = t]
<1>1. AsUpheld(k) = z
  BY DEF AsUpheld, Decided
<1> HIDE DEF a, t, r, n, w, p
<1>2. z.answerBond = k.answerBond
  BY DEF Fields
<1> QED BY <1>1, <1>2

LEMMA OverturnedKeepsNone ==
  ASSUME NEW k, DOMAIN k = Fields
  PROVE  AsOverturned(k).answerBond = 0
<1> DEFINE m == Decided(k, Opposite(k.answer), "yes", k.ballot.yes)
<1>1. AsOverturned(k) = [m EXCEPT !.answerBond = 0]
  BY DEF AsOverturned
<1>2. DOMAIN m = Fields
  BY DecidedKept DEF KeptBut
<1> HIDE DEF m
<1> QED BY <1>1, <1>2 DEF Fields

(* What the outcome of a round makes of a life.                            *)
LEMMA OutcomeLife ==
  ASSUME NEW k, Sound(k), k.disputeOpen, Forfeited(k), now \in Nat \ {0}, NEW m, Outcome(k, m)
  PROVE  Lived(LifeOf(k), LifeOf(m)) /\ Forfeited(m)
<1>1. /\ DOMAIN k = Fields /\ Answered(k) /\ Opened(k) /\ ~k.closed /\ ~Final(k) /\ ~k.rewardsOpened
      /\ k.answer \in Sides /\ None \notin Sides /\ k.provisional \in Sides \cup {None}
  BY OpenRound, CourtAssumption DEF Sound, Typed, Sides
<1>2. Typed(m) /\ Opened(m) /\ Answered(m) /\ ~m.closed /\ (Final(m) => m.answerBond = 0)
  BY OutcomeKept DEF Resolvable
<1>3. m.answer = k.answer /\ m.rewardsOpened = k.rewardsOpened
  <2>1. KeptBut(k, m, OutcomeFields)
    BY OutcomeKept
  <2> QED BY <2>1 DEF KeptBut, OutcomeFields, DecidedFields, Fields
<1>4. CASE m = AsFailed(k)
  <2>1. KeptBut(k, m, {"provisional", "failedRounds"}) /\ m.provisional = Default(k)
    BY <1>1, <1>4, FailedKept
  <2>2. m.answerBond = k.answerBond /\ m.verdictAt = k.verdictAt
    BY <2>1 DEF KeptBut, Fields
  <2>3. m.provisional \in Sides /\ ~Final(m)
    BY <1>1, <2>1, <2>2 DEF Default, Final
  <2>4. m.provisional # k.answer => m.answerBond = 0
    BY <2>1, <2>2 DEF Default, Forfeited
  <2>5. IF m.provisional = k.answer THEN m.answerBond = k.answerBond ELSE m.answerBond = 0
    BY <2>2, <2>4
  <2> QED BY <1>1, <1>2, <1>3, <2>3, <2>5, JudgedLife
<1>5. CASE m = ProvClosed(AsFailed(k))
  <2>1. KeptBut(k, AsFailed(k), {"provisional", "failedRounds"}) /\ AsFailed(k).provisional = Default(k)
    BY <1>1, FailedKept
  <2>2. /\ KeptBut(AsFailed(k), m, {"deposit", "fee", "provClose", "verdictAt", "answerBond"})
        /\ m.verdictAt = now
    BY <1>1, <1>5, EndedKept
  <2>3. m.provisional = Default(k)
    BY <2>1, <2>2 DEF KeptBut, Fields
  <2>4. Final(m)
    BY <2>2 DEF Final
  <2>5. m.provisional = k.provisional \/ (k.provisional = None /\ m.provisional = k.answer)
    BY <2>3 DEF Default
  <2> QED BY <1>1, <1>2, <1>3, <2>4, <2>5, SettledLife
<1>6. CASE m = AsDiscarded(k)
  <2>1. /\ KeptBut(k, m, {"deposit", "fee", "provClose", "verdictAt", "answerBond"}
                           \cup {"spamClosed", "decided", "carrotChoice", "carrotDenom", "spamW", "spamTotalW"})
        /\ m.verdictAt = now
    BY <1>1, <1>6, DiscardedKept
  <2>2. m.provisional = k.provisional
    BY <2>1 DEF KeptBut, Fields
  <2>3. Final(m)
    BY <2>1 DEF Final
  <2> QED BY <1>1, <1>2, <1>3, <2>2, <2>3, SettledLife
<1>7. CASE m = AsOverturned(k)
  <2>1. KeptBut(k, m, DecidedFields) /\ m.provisional = Opposite(k.answer)
    BY <1>1, <1>7, OverturnedKept
  <2>2. m.verdictAt = k.verdictAt
    BY <2>1 DEF KeptBut, DecidedFields, Fields
  <2>3. m.provisional \in Sides /\ m.provisional # k.answer /\ ~Final(m)
    BY <1>1, <2>1, <2>2 DEF Opposite, Sides, Final
  <2>4. m.answerBond = 0
    BY <1>1, <1>7, OverturnedKeepsNone
  <2> QED BY <1>1, <1>2, <1>3, <2>3, <2>4, JudgedLife
<1>8. CASE m = AsUpheld(k)
  <2>1. KeptBut(k, m, DecidedFields) /\ m.provisional = k.answer
    BY <1>1, <1>8, DecidedKept DEF AsUpheld
  <2>2. m.verdictAt = k.verdictAt
    BY <2>1 DEF KeptBut, DecidedFields, Fields
  <2>3. m.answerBond = k.answerBond
    BY <1>1, <1>8, UpheldKeepsBond
  <2>4. m.provisional \in Sides /\ ~Final(m)
    BY <1>1, <2>1, <2>2 DEF Final
  <2> QED BY <1>1, <1>2, <1>3, <2>1, <2>3, <2>4, JudgedLife
<1> QED BY <1>4, <1>5, <1>6, <1>7, <1>8 DEF Outcome

(* Every turn of a claim is a step of its life, or none.                   *)
LEMMA TurnLife ==
  ASSUME EInv, CaseInv, NEW c \in Claims, Forfeited(claims[c]), NEW z, Rewrites(c, z), Turn(c, z)
  PROVE  Lived(LifeOf(claims[c]), LifeOf(z)) /\ Forfeited(z)
<1> DEFINE k == claims[c]
           Goes(y) == Lived(LifeOf(k), LifeOf(y)) /\ Forfeited(y)
<1>1. Sound(k) /\ Sound(z) /\ DOMAIN k = Fields /\ now \in Nat \ {0} /\ now \in Nat /\ First(c) \in BOOLEAN
      /\ Case(k) /\ Forfeited(k)
  BY DEF EInv, SoundAll, Rewrites, Sound, Typed, First, CaseInv, CaseAll
<1>2. ASSUME NEW X, KeptBut(k, z, X), X \cap LifeFields = {} PROVE Goes(z)
  <2>1. LifeOf(z) = LifeOf(k)
    BY <1>2, KeptLife
  <2>2. z.provisional = k.provisional /\ z.answer = k.answer /\ z.answerBond = k.answerBond
    BY <1>2 DEF KeptBut, LifeFields, Fields
  <2> HIDE DEF k
  <2> QED BY <1>1, <2>1, <2>2 DEF Lived, Forfeited
<1>3. ASSUME NEW who \in Users, OpenClaim(c, who), z = AsOpened(who, now) PROVE Goes(z)
  <2>1. ~Opened(k)
    BY <1>3 DEF OpenClaim
  <2> QED BY <1>1, <1>3, <2>1, AskedLife
<1>4. ASSUME CloseDeadClaim(c), z = AsClosed(k) PROVE Goes(z)
  <2>1. Opened(k) /\ ~k.closed /\ ~Answered(k)
    BY <1>4 DEF CloseDeadClaim
  <2> QED BY <1>1, <1>4, <2>1, ClosedLife
<1>5. ASSUME NEW who \in Users, NEW side \in Sides, NEW xbar \in Nat, NEW conv \in [Sides -> Nat], NEW tierRef,
             PostAnswer(c, who, side, xbar, conv, tierRef),
             z = AsAnswered(k, who, side, AnswerBond(xbar, conv), now, xbar, conv, tierRef)
      PROVE  Goes(z)
  <2>1. Opened(k) /\ ~k.closed /\ ~Answered(k)
    BY <1>5 DEF PostAnswer
  <2>2. AnswerBond(xbar, conv) \in Nat \ {0}
    BY AnswerBondIs
  <2> HIDE DEF k
  <2> QED BY <1>1, <1>5, <2>1, <2>2, AnsweredLife
<1>6. ASSUME SettleUndisputed(c), z = AsSettled(k) PROVE Goes(z)
  <2>1. Answered(k) /\ k.round = 0 /\ ~Final(k)
    BY <1>6 DEF SettleUndisputed
  <2>2. /\ KeptBut(k, z, {"verdictAt", "provisional", "answerBond"})
        /\ z.verdictAt = now /\ z.provisional = k.answer
    BY <1>1, <1>6, SettledKept
  <2>3. /\ z.author = k.author /\ z.closed = k.closed /\ z.answer = k.answer
        /\ z.rewardsOpened = k.rewardsOpened
    BY <2>2 DEF KeptBut, Fields
  <2>4. Final(z) /\ z.answerBond = 0
    BY <1>1, <2>2 DEF Final, Sound, Phased
  <2>5. Opened(k) /\ ~k.closed /\ ~k.rewardsOpened
    BY <1>1, <2>1 DEF Sound, Phased
  <2>6. k.provisional \in {None, k.answer}
    <3>1. k.decidedRounds = 0
      BY <1>1, <2>1 DEF Sound, Phased
    <3> QED BY <1>1, <3>1 DEF Case, Standing
  <2>7. z.provisional = k.provisional \/ (k.provisional = None /\ z.provisional = k.answer)
    BY <2>2, <2>6
  <2> HIDE DEF k
  <2>8. Opened(z) /\ ~z.closed
    BY <2>3, <2>5 DEF Opened
  <2> QED BY <1>1, <2>1, <2>3, <2>4, <2>5, <2>7, <2>8, SettledLife
<1>7. ASSUME NEW who, z = AsDisputed(k, who, DisputeBond(k), NewBallot(k)) PROVE Goes(z)
  <2>1. KeptBut(k, z, {"round", "disputeOpen", "disputeBond", "disputer", "votes", "ballot"})
    BY <1>1, <1>7, DisputedKept DEF DisputedTo
  <2> QED BY <1>2, <2>1 DEF LifeFields
<1>8. ASSUME NEW who, NEW choice, z = AsVoted(k, who, choice) PROVE Goes(z)
  <2>1. KeptBut(k, z, {"ballot", "votes"})
    BY <1>1, <1>8, VotedKept DEF VotedTo
  <2> QED BY <1>2, <2>1 DEF LifeFields
<1>9. ASSUME ResolveDispute(c), NEW m, Outcome(k, m), z = AsResolved(m, First(c)) PROVE Goes(z)
  <2>1. k.disputeOpen
    BY <1>9 DEF ResolveDispute
  <2> HIDE DEF k
  <2>2. Goes(m) /\ Typed(m)
    BY <1>1, <1>9, <2>1, OutcomeLife, OutcomeKept DEF Resolvable
  <2>3. \A f \in Timed : z[f] = m[f]
    BY <1>1, <1>9, <2>2, ResolvedIs
  <2>4. LifeFields \subseteq Timed
    BY DEF LifeFields, Timed, Fields
  <2>5. LifeOf(z) = LifeOf(m)
    BY <2>3, <2>4, SameLife
  <2>6. z.provisional = m.provisional /\ z.answer = m.answer /\ z.answerBond = m.answerBond
    BY <2>3, <2>4 DEF LifeFields
  <2> QED BY <2>2, <2>5, <2>6 DEF Forfeited
<1>10. ASSUME NEW who, Finalize(c, who), z = AsFinal(k) PROVE Goes(z)
  <2>1. ~Final(k) /\ k.provisional # None
    BY <1>10 DEF Finalize
  <2>2. KeptBut(k, z, {"verdictAt", "answerBond"}) /\ z.verdictAt = now
    BY <1>1, <1>10, FinalKept
  <2>3. /\ z.author = k.author /\ z.closed = k.closed /\ z.answer = k.answer
        /\ z.rewardsOpened = k.rewardsOpened /\ z.provisional = k.provisional
    BY <2>2 DEF KeptBut, Fields
  <2>4. Final(z) /\ z.answerBond = 0
    BY <1>1, <2>2 DEF Final, Sound, Phased
  <2>5. Answered(k) /\ Opened(k) /\ ~k.closed /\ ~k.rewardsOpened
    BY <1>1, <2>1 DEF Sound, Phased
  <2> HIDE DEF k
  <2>6. Opened(z) /\ ~z.closed
    BY <2>3, <2>5 DEF Opened
  <2> QED BY <1>1, <2>1, <2>3, <2>4, <2>5, <2>6, SettledLife
<1>11. ASSUME NEW who, OpenRewards(c, who), z = AsRewarded(k) PROVE Goes(z)
  <2>1. Final(k) /\ ~k.rewardsOpened /\ ~k.closed
    BY <1>11 DEF OpenRewards
  <2> QED BY <1>1, <1>11, <2>1, DrawnLife
<1>12. ASSUME NEW who, NEW w, z = AsPulled(k, who, w) PROVE Goes(z)
  <2>1. KeptBut(k, z, {"pulled", "carrotPool"})
    BY <1>1, <1>12, PulledKept
  <2> QED BY <1>2, <2>1 DEF LifeFields
<1>13. Goes(z)
  <2> HIDE DEF k, Goes
  <2> QED
    BY <1>3, <1>4, <1>5, <1>6, <1>7, <1>8, <1>9, <1>10, <1>11, <1>12 DEF Turn, k
<1> QED BY <1>13

(* A verdict against the answer has cost it its bond.                      *)
LifeInv == \A c \in Claims : Forfeited(claims[c])

LEMMA StepLife ==
  ASSUME EInv, CaseInv, LifeInv, [Next]_vars
  PROVE  LifeInv' /\ (Life!Next \/ Lives' = Lives)
<1>1. ASSUME NEW c \in Claims, NEW z, Rewrites(c, z), Turn(c, z)
      PROVE  LifeInv' /\ (Life!Next \/ Lives' = Lives)
  <2>1. Lived(LifeOf(claims[c]), LifeOf(z)) /\ Forfeited(z)
    BY <1>1, TurnLife DEF LifeInv
  <2>2. DOMAIN claims = Claims /\ claims' = [claims EXCEPT ![c] = z]
    BY <1>1 DEF EInv, SoundAll, Rewrites
  <2>3. \A d \in Claims : claims'[d] = IF d = c THEN z ELSE claims[d]
    BY <2>2
  <2>4. LifeInv'
    BY <2>1, <2>3 DEF LifeInv, Forfeited
  <2> QED BY <2>1, <2>2, <2>4, LifeGoesOn
<1>2. CASE Waits
  <2>1. claims' = claims
    BY <1>2 DEF Waits
  <2> QED BY <2>1 DEF LifeInv, Forfeited, Lives, LifeOf, Stage, Opened, Answered, Final
<1> QED BY <1>1, <1>2, StepTurns DEF Turns

(* The court leads the lives the staking half relies on: through any       *)
(* rounds, of any claims, people and amounts, a verdict that stands is     *)
(* only turned by a round, is final once and as it stood, and the bond is  *)
(* lost to the first verdict against the answer for good (dispute.gno:     *)
(* 303-710, answerbond.gno:20-43, openrewards.gno:33-158).                 *)
THEOREM CourtLeadsLives == Spec => ImplementsClaimLife
<1>1. Init => LifeInv
  BY DEF Init, LifeInv, Forfeited, NoClaim
<1>2. EInv /\ CaseInv /\ LifeInv /\ [Next]_vars => LifeInv' /\ [Life!Next]_Lives
  BY StepLife
<1>3. Init => Life!Init
  <2> SUFFICES ASSUME Init PROVE Lives \in [Claims -> {Life!Fresh("unasked"), Life!Fresh("open")}]
    BY DEF Life!Init
  <2>1. LifeOf(NoClaim) = Life!Fresh("unasked")
    <3>1. Stage(NoClaim) = "unasked" /\ NoClaim.answer = None /\ NoClaim.provisional = None
          /\ (NoClaim.answerBond > 0) = FALSE
      BY DEF Stage, NoClaim, Opened
    <3> QED BY <3>1 DEF LifeOf, Life!Fresh, Life!At
  <2>2. \A c \in Claims : claims[c] = NoClaim
    BY DEF Init
  <2> QED BY <2>1, <2>2 DEF Lives
<1> QED BY <1>1, <1>2, <1>3, BooksHold, CasesHold, PTL DEF Spec, ImplementsClaimLife, Life!Spec
=============================================================================
