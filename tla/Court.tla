------------------------------- MODULE Court -------------------------------
(* realm/r/kourtv2: the life of a court's claims from opening to reward:   *)
(* the answer and its bond, dispute rounds and their bonds, the verdict,   *)
(* and the coin in escrow.                                                 *)
(*                                                                         *)
(* A round is decided by the governor: its ballot is a tally (Tally) that  *)
(* closes at its deadline, or as soon as the rest cannot change it.  What  *)
(* the court takes from elsewhere comes in as a choice: the trailing stake *)
(* XBars, the conviction Convs of the two pools in coin units, and the     *)
(* reference size TierRefs, all frozen by the answer.  Awards are seated   *)
(* and draws reserved on the accrual line (Emission), which pays them.     *)
EXTENDS Tally, FiniteSets, FiniteSetsExt

CONSTANTS
  Claims, Users, Escrow, None,
  Authors, Answerers, Disputers, Voters, Stakers,  \* who does what
  AnswerSides,                              \* the sides an answer may take
  Opening,                                  \* the coin each user starts with
  Deposit, XBars, Convs, TierRefs, Moves,
  MatureTime, DeadTime, SettleTime, VotingTime, GraceTime, EscrowTime, FinalizeGrace,
  CarrotMin,
  MaxNow, LastOpening, MaxRounds, MaxMoves  \* bounds on a behaviour

ASSUME CourtAssumption ==
  /\ Escrow \notin Users /\ None \notin Users \cup {"YES", "NO"}
  /\ IsFiniteSet(Claims) /\ IsFiniteSet(Users)
  /\ UNION {Authors, Answerers, Disputers, Voters, Stakers} \subseteq Users
  /\ Opening \in [Users -> Nat]
  /\ {Deposit, MatureTime, FinalizeGrace, MaxNow, LastOpening, MaxRounds, MaxMoves} \subseteq Nat
  /\ {DeadTime, SettleTime, VotingTime, GraceTime, EscrowTime, CarrotMin} \subseteq Nat \ {0}
  /\ AnswerSides \subseteq {"YES", "NO"} /\ XBars \subseteq Nat /\ TierRefs \subseteq Nat \ {0}
  /\ Convs \subseteq [{"YES", "NO"} -> Nat]
  /\ Moves \subseteq Nat \ {0}

VARIABLES
  now,        \* blocks, each of them an epoch of the coin
  bal,        \* the coin's balances
  sealed,     \* balances at the end of the last epoch
  deposits,   \* c.deposit: deposits and fees held
  claims,
  awarded,    \* all the comps ever seated
  burned,     \* all the bonds that losers of decided rounds ever lost
  idle,       \* how long a claim's defaulted verdict stood with no open vote
  moves       \* transfers so far

vars == <<now, bal, sealed, deposits, claims, awarded, burned, idle, moves>>

Sides == {"YES", "NO"}
Opposite(side) == IF side = "YES" THEN "NO" ELSE "YES"
MaxFailedRounds == 3
Part(n, bps) == (n * bps) \div Bps
Least(m, n) == IF m < n THEN m ELSE n

Holders == Users \cup {Escrow}
Total(b) == MapThenSumSet(LAMBDA h : b[h], Holders)
Pay(b, from, to, n) == [b EXCEPT ![from] = @ - n, ![to] = @ + n]
Burn(b, n) == [b EXCEPT ![Escrow] = @ - n]

NoBallot == [yes |-> 0, no |-> 0, abstain |-> 0, total |-> 0, engaged |-> 0,
             quorumFloor |-> 1, rules |-> [quorum |-> 5000, threshold |-> 5001],
             roll |-> [u \in Users |-> 0], closes |-> 0]

NoClaim == [author |-> None, deposit |-> 0, fee |-> 0, openedAt |-> 0, closed |-> FALSE,
            answer |-> None, answerer |-> None, answerBond |-> 0, answerBond0 |-> 0,
            answeredAt |-> 0, xbar |-> 0, conv |-> [s \in Sides |-> 0], tierRef |-> 0,
            provisional |-> None, round |-> 0, disputeOpen |-> FALSE, disputeBond |-> 0,
            disputer |-> None, ballot |-> NoBallot, votes |-> {},
            failedRounds |-> 0, decidedRounds |-> 0, decided |-> 0,
            carrotChoice |-> None, carrotDenom |-> 0, spamW |-> 0, spamTotalW |-> 0,
            escrowUntil |-> 0, verdictAt |-> 0, provClose |-> FALSE, spamClosed |-> FALSE,
            rewardsOpened |-> FALSE, want |-> 0, carrotTotal |-> 0, carrotPool |-> 0, pulled |-> {}]

Opened(k) == k.author # None
Answered(k) == k.answer # None
Final(k) == k.verdictAt # 0
Participant(k, u) == u \in {k.author, k.answerer} \cup Stakers

(* The governor's view of a round: closed by the clock, or early because   *)
(* nothing still uncast can change it.                                     *)
Active(b) == now < b.closes /\ ~Won(b) /\ ~Lost(b)

(* A ballot holds the coin it was cast with until its own round resolves;  *)
(* one pile may back a ballot on every claim.                              *)
Ballots(k) == {v \in k.votes : k.disputeOpen /\ v.round = k.round}

(* Mutant: a lock that forgets the rounds after the first.                 *)
VoteLocked_FirstRound(u) ==
  Max({0} \cup {v.weight : v \in {w \in UNION {Ballots(claims[c]) : c \in Claims} :
                                    w.who = u /\ w.round = 1}})

VoteLocked(u) ==
  Max({0} \cup {v.weight : v \in {w \in UNION {Ballots(claims[c]) : c \in Claims} : w.who = u}})

Disposable(u) == bal[u] - VoteLocked(u)

-----------------------------------------------------------------------------
(* What is at stake.                                                       *)
AnswerBond(xbar, conv) ==
  Max({1, Part(xbar, 600), Part(xbar, 450)} \cup {Part(conv[s], 10700) : s \in Sides})

Doubled == <<1, 2, 4>>     \* 1 << 0 .. 1 << (MaxFailedRounds - 1)
DisputeBond(k) ==
  Max({1, Least(Part(k.xbar, 2000), Part(k.answerBond0, 4000))})
    * Doubled[1 + Least(k.failedRounds, MaxFailedRounds - 1)]

(* Mutant: a comp that takes the posted bond for the burned one.           *)
Comp_OnPosted(own, lost) == 2 * own

Comp(own, lost) == Least(2 * own, Part(lost, 8000))

QuorumFloor(xbar) ==
  Max({1, Least(xbar, (Total(sealed) - sealed[Escrow]) \div 3)})

(* Mutant: the window closes in the block the last round may open in.      *)
LadderTime_Short == (MaxFailedRounds - 2) * VotingTime + (MaxFailedRounds - 1) * GraceTime

LadderTime == (MaxFailedRounds - 2) * VotingTime + (MaxFailedRounds - 1) * GraceTime + 1

SpamDiscards(b) == b.abstain * 2 > Turnout(b)
SpamBurnsDeposit(b) == b.abstain * 3 >= Turnout(b) * 2
Overturns(b) == b.yes > 0 /\ b.yes * Bps >= (b.yes + b.no) * 5001

EscrowPassed(k) == now >= k.escrowUntil

-----------------------------------------------------------------------------
Init ==
  /\ now = 1
  /\ bal = [h \in Holders |-> IF h = Escrow THEN 0 ELSE Opening[h]]
  /\ sealed = bal
  /\ deposits = 0
  /\ claims = [c \in Claims |-> NoClaim]
  /\ awarded = 0 /\ burned = 0 /\ moves = 0
  /\ idle = [c \in Claims |-> 0]

(* A claim whose standing verdict is only a default, and that is not being *)
(* voted on.                                                               *)
Unwatched(k) == /\ k.provisional # None /\ k.decidedRounds = 0 /\ ~Final(k)
                /\ ~(k.disputeOpen /\ Active(k.ballot))

(* Time is bounded, but never stops short of a deadline.                   *)
Deadlines(k) ==
  {IF Opened(k) /\ ~k.closed THEN k.openedAt + DeadTime ELSE 0,
   k.answeredAt + SettleTime, k.ballot.closes, k.escrowUntil + FinalizeGrace}

Tick ==
  /\ now < MaxNow \/ \E c \in Claims : \E t \in Deadlines(claims[c]) : now < t
  /\ now' = now + 1
  /\ sealed' = bal
  /\ idle' = [c \in Claims |-> IF Unwatched(claims[c]) THEN idle[c] + 1 ELSE idle[c]]
  /\ UNCHANGED <<bal, deposits, claims, awarded, burned, moves>>

Transfer(from, to, n) ==
  /\ moves < MaxMoves /\ from # to
  /\ Disposable(from) >= n
  /\ bal' = Pay(bal, from, to, n)
  /\ moves' = moves + 1
  /\ UNCHANGED <<now, sealed, deposits, claims, awarded, burned, idle>>

OpenClaim(c, who) ==
  LET fee == Part(Deposit, 1000) IN
  /\ ~Opened(claims[c]) /\ now <= LastOpening
  /\ Disposable(who) >= Deposit + fee
  /\ bal' = Pay(bal, who, Escrow, Deposit + fee)
  /\ deposits' = deposits + Deposit + fee
  /\ claims' = [claims EXCEPT ![c] = [NoClaim EXCEPT
       !.author = who, !.deposit = Deposit, !.fee = fee, !.openedAt = now]]
  /\ UNCHANGED <<now, sealed, awarded, burned, idle, moves>>

(* Mutant: the fee stays on the claim's books.                             *)
Emptied_KeepsFee(k) == [k EXCEPT !.deposit = 0]

(* Deposit and fee leave the claim's books together.                       *)
Emptied(k) == [k EXCEPT !.deposit = 0, !.fee = 0]

CloseDeadClaim(c) ==
  LET k == claims[c] IN
  /\ Opened(k) /\ ~k.closed /\ ~Answered(k)
  /\ now >= k.openedAt + DeadTime
  /\ bal' = Burn(Pay(bal, Escrow, k.author, k.deposit), k.fee)
  /\ deposits' = deposits - k.deposit - k.fee
  /\ claims' = [claims EXCEPT ![c] = [Emptied(k) EXCEPT !.closed = TRUE]]
  /\ UNCHANGED <<now, sealed, awarded, burned, idle, moves>>

PostAnswer(c, who, side, xbar, conv, tierRef) ==
  LET k == claims[c]
      bond == AnswerBond(xbar, conv) IN
  /\ Opened(k) /\ ~k.closed /\ ~Answered(k)
  /\ now >= k.openedAt + MatureTime
  /\ now < k.openedAt + DeadTime
  /\ Disposable(who) >= bond
  /\ bal' = Pay(bal, who, Escrow, bond)
  /\ claims' = [claims EXCEPT ![c] = [k EXCEPT
       !.answer = side, !.answerer = who, !.answerBond = bond, !.answerBond0 = bond,
       !.answeredAt = now, !.xbar = xbar, !.conv = conv, !.tierRef = tierRef]]
  /\ UNCHANGED <<now, sealed, deposits, awarded, burned, idle, moves>>

(* settleAnswerBond: what is left of the bond goes back, once.             *)
BondBack(b, k) == IF k.answerBond > 0 THEN Pay(b, Escrow, k.answerer, k.answerBond) ELSE b

SettleUndisputed(c) ==
  LET k == claims[c] IN
  /\ Answered(k) /\ k.round = 0 /\ ~Final(k)
  /\ now >= k.answeredAt + SettleTime
  /\ bal' = BondBack(bal, k)
  /\ claims' = [claims EXCEPT ![c] = [k EXCEPT
       !.verdictAt = now, !.provisional = k.answer, !.answerBond = 0]]
  /\ UNCHANGED <<now, sealed, deposits, awarded, burned, idle, moves>>

-----------------------------------------------------------------------------
(* Ballots of rounds that decided nothing are never read again.            *)
Deciding(k) == {v \in k.votes : v.round = k.decided}

(* A first round opens while the answer is young, a later one while the    *)
(* verdict is in escrow.                                                   *)
MayDispute(k) == IF k.provisional = None THEN now < k.answeredAt + SettleTime
                 ELSE ~EscrowPassed(k)

(* Mutant: a final verdict may be disputed again.                          *)
OpenDispute_Reopens(c, who) ==
  LET k == claims[c]
      bond == DisputeBond(k) IN
  /\ Answered(k) /\ who # k.answerer /\ ~k.disputeOpen
  /\ k.round < MaxRounds
  /\ Disposable(who) >= bond
  /\ bal' = Pay(bal, who, Escrow, bond)
  /\ claims' = [claims EXCEPT ![c] = [k EXCEPT
       !.round = @ + 1, !.disputeOpen = TRUE, !.disputeBond = bond, !.disputer = who,
       !.votes = Deciding(k),
       !.ballot = [NoBallot EXCEPT
         !.total = Total(sealed), !.engaged = Total(sealed), !.roll = [u \in Users |-> sealed[u]],
         !.quorumFloor = QuorumFloor(k.xbar), !.closes = now + VotingTime]]]
  /\ UNCHANGED <<now, sealed, deposits, awarded, burned, idle, moves>>

OpenDispute(c, who) ==
  LET k == claims[c]
      bond == DisputeBond(k) IN
  /\ Answered(k) /\ who # k.answerer /\ ~k.disputeOpen /\ ~Final(k)
  /\ MayDispute(k) /\ k.round < MaxRounds
  /\ Disposable(who) >= bond
  /\ bal' = Pay(bal, who, Escrow, bond)
  /\ claims' = [claims EXCEPT ![c] = [k EXCEPT
       !.round = @ + 1, !.disputeOpen = TRUE, !.disputeBond = bond, !.disputer = who,
       !.votes = Deciding(k),
       !.ballot = [NoBallot EXCEPT
         !.total = Total(sealed), !.engaged = Total(sealed), !.roll = [u \in Users |-> sealed[u]],
         !.quorumFloor = QuorumFloor(k.xbar), !.closes = now + VotingTime]]]
  /\ UNCHANGED <<now, sealed, deposits, awarded, burned, idle, moves>>

(* yes overturns the answer, no upholds it, and spam, which the governor   *)
(* counts as abstaining, says that the claim should not have been asked.   *)
Choices3 == {"yes", "no", "spam"}
BallotWith(b, choice, w) ==
  [b EXCEPT !.yes = @ + (IF choice = "yes" THEN w ELSE 0),
            !.no = @ + (IF choice = "no" THEN w ELSE 0),
            !.abstain = @ + (IF choice = "spam" THEN w ELSE 0)]

(* Mutant: the court records the weight of the roll, not the tallied one.  *)
VoteDispute_Uncapped(c, who, choice) ==
  LET k == claims[c]
      w == Least(k.ballot.roll[who], bal[who]) IN
  /\ k.disputeOpen /\ Active(k.ballot)
  /\ ~Participant(k, who)
  /\ w > 0
  /\ \A v \in Ballots(k) : v.who # who
  /\ claims' = [claims EXCEPT ![c] = [k EXCEPT
       !.ballot = BallotWith(@, choice, w),
       !.votes = @ \cup {[round |-> k.round, who |-> who, choice |-> choice,
                          weight |-> k.ballot.roll[who]]}]]
  /\ UNCHANGED <<now, bal, sealed, deposits, awarded, burned, idle, moves>>

(* A ballot weighs what was held when the round opened, or what is held    *)
(* now if that is less.                                                    *)
VoteDispute(c, who, choice) ==
  LET k == claims[c]
      w == Least(k.ballot.roll[who], bal[who]) IN
  /\ k.disputeOpen /\ Active(k.ballot)
  /\ ~Participant(k, who)
  /\ w > 0
  /\ \A v \in Ballots(k) : v.who # who
  /\ claims' = [claims EXCEPT ![c] = [k EXCEPT
       !.ballot = BallotWith(@, choice, w),
       !.votes = @ \cup {[round |-> k.round, who |-> who, choice |-> choice, weight |-> w]}]]
  /\ UNCHANGED <<now, bal, sealed, deposits, awarded, burned, idle, moves>>

-----------------------------------------------------------------------------
(* Resolving a round.  The escrow clock is set once, by the round that     *)
(* gave the claim its first verdict, and long enough for the ladder of     *)
(* failed rounds when that verdict is only a default.                      *)
Escrowed(k, first) ==
  IF first /\ ~k.provClose
  THEN [k EXCEPT !.escrowUntil =
          now + (IF k.failedRounds > 0 THEN Max({EscrowTime, LadderTime}) ELSE EscrowTime)]
  ELSE k

(* The books of claim c after its round, whose bond is gone.               *)
Closing(c, k) ==
  claims' = [claims EXCEPT ![c] =
    [Escrowed(k, claims[c].provisional = None) EXCEPT !.disputeOpen = FALSE, !.disputeBond = 0]]

(* The claim ends without a decision: all that is in escrow goes back.     *)
ProvClosed(k) == [Emptied(k) EXCEPT !.provClose = TRUE, !.verdictAt = now, !.answerBond = 0]

(* Mutant: every failed round falls back on the answer.                    *)
Default_Always(k) == k.answer

(* Only the first round can default the verdict to the answer.             *)
Default(k) == IF k.provisional = None THEN k.answer ELSE k.provisional

FailedQuorum(c) ==
  LET k == claims[c]
      half == k.disputeBond \div 2
      failed == [k EXCEPT !.provisional = Default(k), !.failedRounds = @ + 1]
      closes == failed.failedRounds >= MaxFailedRounds
      returned == Burn(Pay(bal, Escrow, k.disputer, half), k.disputeBond - half) IN
  /\ Turnout(k.ballot) < k.ballot.quorumFloor
  /\ IF closes
     THEN /\ bal' = Pay(BondBack(returned, k), Escrow, k.author, k.deposit + k.fee)
          /\ deposits' = deposits - k.deposit - k.fee
          /\ Closing(c, ProvClosed(failed))
     ELSE bal' = returned /\ UNCHANGED deposits /\ Closing(c, failed)
  /\ UNCHANGED <<burned, awarded>>

(* Mutant: the fee of a discarded claim stays in escrow.                   *)
Discard_KeepsFee(c) ==
  LET k == claims[c]
      returned == Pay(BondBack(bal, k), Escrow, k.disputer, k.disputeBond) IN
  /\ Turnout(k.ballot) >= k.ballot.quorumFloor
  /\ SpamDiscards(k.ballot)
  /\ bal' = IF SpamBurnsDeposit(k.ballot) THEN Burn(returned, k.deposit)
            ELSE Pay(returned, Escrow, k.author, k.deposit)
  /\ deposits' = deposits - k.deposit - k.fee
  /\ Closing(c, [ProvClosed(k) EXCEPT
       !.spamClosed = TRUE, !.decided = k.round, !.carrotChoice = "spam",
       !.carrotDenom = k.ballot.abstain,
       !.spamW = k.ballot.abstain, !.spamTotalW = Turnout(k.ballot)])
  /\ UNCHANGED <<burned, awarded>>

Discard(c) ==
  LET k == claims[c]
      returned == Burn(Pay(BondBack(bal, k), Escrow, k.disputer, k.disputeBond), k.fee) IN
  /\ Turnout(k.ballot) >= k.ballot.quorumFloor
  /\ SpamDiscards(k.ballot)
  /\ bal' = IF SpamBurnsDeposit(k.ballot) THEN Burn(returned, k.deposit)
            ELSE Pay(returned, Escrow, k.author, k.deposit)
  /\ deposits' = deposits - k.deposit - k.fee
  /\ Closing(c, [ProvClosed(k) EXCEPT
       !.spamClosed = TRUE, !.decided = k.round, !.carrotChoice = "spam",
       !.carrotDenom = k.ballot.abstain,
       !.spamW = k.ballot.abstain, !.spamTotalW = Turnout(k.ballot)])
  /\ UNCHANGED <<burned, awarded>>

(* A round that reached a verdict, and the choice that made it.            *)
Decided(k, verdict, choice, weight) ==
  [k EXCEPT !.provisional = verdict, !.failedRounds = 0, !.decidedRounds = @ + 1,
            !.decided = k.round, !.carrotChoice = choice, !.carrotDenom = weight,
            !.spamW = k.ballot.abstain, !.spamTotalW = Turnout(k.ballot)]

Overturn(c) ==
  LET k == claims[c] IN
  /\ Turnout(k.ballot) >= k.ballot.quorumFloor
  /\ ~SpamDiscards(k.ballot) /\ Overturns(k.ballot)
  /\ bal' = Pay(Burn(bal, k.answerBond), Escrow, k.disputer, k.disputeBond)
  /\ burned' = burned + k.answerBond
  /\ awarded' = awarded + Comp(k.disputeBond, k.answerBond)
  /\ Closing(c, [Decided(k, Opposite(k.answer), "yes", k.ballot.yes) EXCEPT !.answerBond = 0])
  /\ UNCHANGED deposits

Uphold(c) ==
  LET k == claims[c] IN
  /\ Turnout(k.ballot) >= k.ballot.quorumFloor
  /\ ~SpamDiscards(k.ballot) /\ ~Overturns(k.ballot)
  /\ bal' = Burn(bal, k.disputeBond)
  /\ burned' = burned + k.disputeBond
  /\ awarded' = awarded + Comp(k.answerBond0, k.disputeBond)
  /\ Closing(c, Decided(k, k.answer, "no", k.ballot.no))
  /\ UNCHANGED deposits

ResolveDispute(c) ==
  /\ claims[c].disputeOpen /\ ~Active(claims[c].ballot)
  /\ FailedQuorum(c) \/ Discard(c) \/ Overturn(c) \/ Uphold(c)
  /\ UNCHANGED <<now, sealed, idle, moves>>

-----------------------------------------------------------------------------
(* Mutant: a verdict that nobody's quorum stands behind is never final.    *)
Finalize_NeedsQuorum(c, who) ==
  LET k == claims[c] IN
  /\ ~Final(k) /\ ~k.disputeOpen /\ k.provisional # None /\ k.decidedRounds > 0
  /\ EscrowPassed(k)
  /\ now >= k.escrowUntil + FinalizeGrace \/ Participant(k, who)
  /\ bal' = BondBack(bal, k)
  /\ claims' = [claims EXCEPT ![c] = [k EXCEPT !.verdictAt = now, !.answerBond = 0]]
  /\ UNCHANGED <<now, sealed, deposits, awarded, burned, idle, moves>>

Finalize(c, who) ==
  LET k == claims[c] IN
  /\ ~Final(k) /\ ~k.disputeOpen /\ k.provisional # None
  /\ EscrowPassed(k)
  /\ now >= k.escrowUntil + FinalizeGrace \/ Participant(k, who)
  /\ bal' = BondBack(bal, k)
  /\ claims' = [claims EXCEPT ![c] = [k EXCEPT !.verdictAt = now, !.answerBond = 0]]
  /\ UNCHANGED <<now, sealed, deposits, awarded, burned, idle, moves>>

(* How much of its draw a claim keeps after what voters called spam.       *)
SpamNet(k) == IF k.spamTotalW <= 0 THEN Bps
              ELSE (Max({0, k.spamTotalW - 2 * k.spamW}) * Bps) \div k.spamTotalW

TierBps(k) == Least(20000, Max({2500, (k.xbar * Bps) \div k.tierRef}))

(* A claim discarded in its first round has no standing side; the code     *)
(* then reads the second pool.                                             *)
WinningSide(k) == IF k.provisional = "YES" THEN "YES" ELSE "NO"

(* drawEntitlement: what a claim asks of the reservoir, which may grant    *)
(* less (Emission).                                                        *)
Entitlement(k) ==
  LET gross == k.conv[WinningSide(k)]
      want == Part(Part(gross, TierBps(k)), SpamNet(k)) IN
  IF k.provisional = k.answer
  THEN Max({0, Least(want, k.answerBond0 - (gross * 7) \div 100)})
  ELSE want

(* Deposit, fee and any bond left go back.                                 *)
OpenRewards(c, who) ==
  LET k == claims[c]
      carrot == (k.conv[WinningSide(k)] * 7) \div 100 IN
  /\ Final(k) /\ ~k.rewardsOpened /\ ~k.closed
  /\ now >= k.verdictAt + FinalizeGrace \/ Participant(k, who)
  /\ bal' = BondBack(Pay(bal, Escrow, k.author, k.deposit + k.fee), k)
  /\ deposits' = deposits - k.deposit - k.fee
  /\ claims' = [claims EXCEPT ![c] = [Emptied(k) EXCEPT
       !.rewardsOpened = TRUE, !.want = Entitlement(k), !.carrotTotal = carrot, !.carrotPool = carrot, !.answerBond = 0]]
  /\ UNCHANGED <<now, sealed, awarded, burned, idle, moves>>

(* What a with-verdict voter of the deciding round may take.               *)
CarrotClamp(k) == Max({Part(k.xbar, 200), CarrotMin}) \div 2 - 1
Share(k, w) == Least((k.carrotTotal * w) \div k.carrotDenom, CarrotClamp(k))

WithVerdict(k) == {v \in k.votes : v.round = k.decided /\ v.choice = k.carrotChoice}

PullCarrot(c, who) ==
  LET k == claims[c] IN
  /\ k.rewardsOpened /\ ~Participant(k, who) /\ who \notin k.pulled
  /\ \E v \in WithVerdict(k) :
       /\ v.who = who
       /\ claims' = [claims EXCEPT ![c] = [k EXCEPT
            !.pulled = @ \cup {who}, !.carrotPool = @ - Least(Share(k, v.weight), @)]]
  /\ UNCHANGED <<now, bal, sealed, deposits, awarded, burned, idle, moves>>

Next ==
  \/ Tick
  \/ \E from, to \in Voters, n \in Moves : Transfer(from, to, n)
  \/ \E c \in Claims :
       \/ \E who \in Authors : OpenClaim(c, who)
       \/ CloseDeadClaim(c)
       \/ \E who \in Answerers, side \in AnswerSides, xbar \in XBars, conv \in Convs, tierRef \in TierRefs :
            PostAnswer(c, who, side, xbar, conv, tierRef)
       \/ SettleUndisputed(c)
       \/ \E who \in Disputers : OpenDispute(c, who)
       \/ \E who \in Voters, choice \in Choices3 : VoteDispute(c, who, choice)
       \/ ResolveDispute(c)
       \/ \E who \in Users : Finalize(c, who) \/ OpenRewards(c, who) \/ PullCarrot(c, who)

Spec == Init /\ [][Next]_vars

(* Time goes on, and somebody with an interest in the claim does what has  *)
(* become due.                                                             *)
Fairness ==
  /\ WF_vars(Tick)
  /\ \A c \in Claims : /\ WF_vars(SettleUndisputed(c))
                       /\ WF_vars(ResolveDispute(c))
                       /\ WF_vars(\E who \in Users : Finalize(c, who))

FairSpec == Spec /\ Fairness

-----------------------------------------------------------------------------
Weight(votes) == MapThenSumSet(LAMBDA v : v.weight, votes)
Cast(k, round, choice) == Weight({v \in k.votes : v.round = round /\ v.choice = choice})

(* Escrow holds exactly what the open claims are owed, to the unit, and a  *)
(* claim that is over has left nothing in it (answerbond.gno:20-43,        *)
(* openrewards.gno:138-158, dispute.gno:539-620).                          *)
OnDeposit(k) == k.deposit + k.fee
Held(k) == OnDeposit(k) + k.answerBond + k.disputeBond

EscrowExact ==
  /\ bal[Escrow] = MapThenSumSet(LAMBDA c : Held(claims[c]), Claims)
  /\ deposits = MapThenSumSet(LAMBDA c : OnDeposit(claims[c]), Claims)
  /\ \A c \in Claims : LET k == claims[c] IN
       /\ Final(k) => ~k.disputeOpen /\ k.answerBond = 0 /\ k.disputeBond = 0
       /\ k.closed \/ k.provClose \/ k.rewardsOpened => Held(k) = 0

(* The standing verdict is what the ballots of the last round that met its *)
(* quorum say; rounds nobody turned up for never move it, whatever was     *)
(* decided before them (dispute.gno:303-308).                              *)
VerdictFollowsVotes ==
  \A c \in Claims :
    LET k == claims[c]
        yes == Cast(k, k.decided, "yes")
        no == Cast(k, k.decided, "no")
        spam == Cast(k, k.decided, "spam") IN
    /\ k.decidedRounds = 0 => k.provisional \in {None, k.answer}
    /\ k.spamClosed => spam > yes + no
    /\ k.decided # 0 /\ ~k.spamClosed =>
         (k.provisional # k.answer) = (yes > 0 /\ yes * Bps >= (yes + no) * 5001)

(* A verdict that is only a default cannot become final while the rounds   *)
(* it still has to survive can be walked: as long as the time lost between *)
(* a vote's closing and the next one's opening stays within the allowance, *)
(* the claim can be disputed again (dispute.gno:1017-1028).                *)
LadderFits ==
  \A c \in Claims :
    LET k == claims[c] IN
    /\ k.failedRounds > 0 /\ k.decidedRounds = 0 /\ ~k.disputeOpen /\ ~Final(k)
    /\ idle[c] <= (MaxFailedRounds - 1) * GraceTime
    => ~EscrowPassed(k)

(* Whoever voted in a round still holds what the ballot weighed, until the *)
(* round is resolved, whatever other rounds, bonds and transfers do with   *)
(* the same coin (votelock.gno:183-250, lock.gno:76-87).                   *)
VotesStayBacked ==
  \A c \in Claims : \A v \in Ballots(claims[c]) : bal[v.who] >= v.weight

(* All the comps ever promised stay within four fifths of the bonds that   *)
(* losers of decided rounds burned, through reopened and overturned        *)
(* verdicts: a contest is never worth staging (dispute.gno:481-490).       *)
CompsWithinBurns == awarded * Bps <= burned * 8000

(* The carrot's denominator is the weight of those who may still pull or   *)
(* have pulled, and the pool always covers who has not (openrewards.gno:   *)
(* 332-409).                                                               *)
CarrotsCovered ==
  \A c \in Claims :
    LET k == claims[c]
        unpaid == {v \in WithVerdict(k) : v.who \notin k.pulled} IN
    /\ k.decided # 0 => k.carrotDenom = Weight(WithVerdict(k))
    /\ k.rewardsOpened /\ k.carrotDenom > 0 =>
         MapThenSumSet(LAMBDA v : Share(k, v.weight), unpaid) <= k.carrotPool

(* An answered claim gets its final verdict, and the bonds leave escrow    *)
(* with it, however often it is disputed (dispute.gno:630-710,             *)
(* session.gno:13-66).                                                     *)
AnsweredClaimsSettle ==
  \A c \in Claims : Answered(claims[c]) ~> Final(claims[c]) /\ claims[c].answerBond = 0

(* What the other half of a claim, where the coin is staked, sees of it.   *)
Stage(k) ==
  IF ~Opened(k) THEN "unasked"
  ELSE IF k.closed THEN "closed"
  ELSE IF ~Answered(k) THEN "open"
  ELSE IF ~Final(k) THEN "answered"
  ELSE IF ~k.rewardsOpened THEN "final" ELSE "drawn"

LifeOf(k) == [stage |-> Stage(k), answer |-> k.answer,
              standing |-> k.provisional, held |-> k.answerBond > 0]

Lives == [c \in Claims |-> LifeOf(claims[c])]

Life == INSTANCE ClaimLife WITH life <- Lives

(* Through any rounds a claim lives the life its stakers rely on: a        *)
(* verdict that stands is only ever turned by a round, is final once and   *)
(* as it stood, and the answer's bond is lost to the first verdict against *)
(* it and is never held again (dispute.gno:303-710, answerbond.gno:20-43,  *)
(* openrewards.gno:33-158).                                                *)
ImplementsClaimLife == Life!Spec
=============================================================================
