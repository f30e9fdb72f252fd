------------------------------- MODULE Stakes -------------------------------
(* realm/r/kourtv2, staking: the coin holders lock on the two sides of a   *)
(* court's claims, the conviction it earns, the answer that freezes both,  *)
(* and the bonuses paid out of a claim's draw.                             *)
(*                                                                         *)
(* A position is settled only when somebody touches it, and the pool of    *)
(* its side separately.  How a verdict is reached is Court's matter: here  *)
(* it stands, may change, and becomes final.  What the accrual line        *)
(* (Emission) still grants a draw comes in as a choice.  A block is one    *)
(* bucket of the trailing average.  A subtraction that makes the code      *)
(* panic leaves a pool unlike the sum of its positions (PoolsAreSums).     *)
EXTENDS Integers, FiniteSets, Sequences, SequencesExt, FiniteSetsExt, TLC

CONSTANTS
  Claims, Users, None,
  Backers,                       \* of each claim: who stakes on which side
  Voters, Senders, Answerers,    \* who votes, sends and answers
  AnswerSides,                   \* the sides an answer may take
  Opening,                       \* the coin each user starts with
  Rates,                         \* the rates a block may have
  Amounts, TierBps, Grants,
  Bps,                           \* basis points in the whole: 10000
  Unit,                          \* conviction in a unit of coin
  Window, MinAnswer, Polish, DeadTime,
  MaxNow, MaxMoves               \* bounds on a behaviour

Sides == {"YES", "NO"}
OpenedAt == 1

ASSUME StakesAssumption ==
  /\ IsFiniteSet(Claims) /\ IsFiniteSet(Users) /\ None \notin Sides \cup Users
  /\ Backers \in [Claims -> SUBSET (Users \X Sides)]
  /\ Voters \cup Senders \cup Answerers \subseteq Users
  /\ AnswerSides \subseteq Sides
  /\ Opening \in [Users -> Nat]
  /\ Rates \in [1 .. MaxNow -> SUBSET (Nat \ {0})]
  /\ Amounts \cup {Bps, Unit, Window, DeadTime} \subseteq Nat \ {0}
  /\ Grants \cup {TierBps, MinAnswer, Polish, MaxNow, MaxMoves} \subseteq Nat

VARIABLES
  now,      \* blocks
  acc,      \* c.rateAccFP: the sum of the rates of all blocks
  bal, locked,
  voted,    \* the coin an open ballot holds
  claims,
  pools,    \* of each claim and side
  pos,      \* of each claim, holder and side
  ring,     \* cs.oi: the last totals of a claim
  past,     \* the total staked on a claim, summed over its blocks
  drawn,    \* bonuses paid to the winners of a claim
  moves     \* stakes, unstakes and transfers so far

vars == <<now, acc, bal, locked, voted, claims, pools, pos, ring, past, drawn, moves>>

NoStake == [stake |-> 0, conv |-> 0, acc |-> 0, raw |-> 0, rawAt |-> 0]
NoPosition == [stake |-> 0, conv |-> 0, acc |-> 0, raw |-> 0, rawAt |-> 0, paid |-> FALSE]

NewClaim == [closed |-> FALSE, frozenAt |-> 0, accAtFreeze |-> 0,
             atFreeze |-> [s \in Sides |-> 0], xbar |-> 0,
             answer |-> None, answerer |-> None, bond |-> 0,
             standing |-> None, final |-> FALSE, opened |-> FALSE, openBlocks |-> 0,
             winConv |-> 0, pot |-> 0]

Frozen(c) == claims[c].frozenAt # 0
Larger(m, n) == IF m > n THEN m ELSE n
Lesser(m, n) == IF m < n THEN m ELSE n
Part(n, bps) == (n * bps) \div Bps

-----------------------------------------------------------------------------
(* The coin.  A stake stays in its holder's balance and votes; what may    *)
(* leave is what neither the stakes nor an open ballot hold.               *)
Spendable(u) == Larger(0, bal[u] - locked[u])

(* Mutant: a ballot does not hold the coin it was cast with.               *)
Disposable_Staked(u) == Spendable(u)

Disposable(u) == Larger(0, bal[u] - Larger(locked[u], voted[u]))

-----------------------------------------------------------------------------
(* Settling.  A frozen claim is settled up to the block that froze it.     *)

(* Mutant: conviction goes on growing once the claim is answered.          *)
RateAcc_Live(c) == acc

RateAcc(c) == IF Frozen(c) THEN Lesser(acc, claims[c].accAtFreeze) ELSE acc
RawNow(c) == IF Frozen(c) THEN Lesser(now, claims[c].frozenAt) ELSE now

Settled(c, p) == [p EXCEPT !.conv = @ + p.stake * (RateAcc(c) - p.acc), !.acc = RateAcc(c),
                           !.raw = @ + p.stake * (RawNow(c) - p.rawAt), !.rawAt = RawNow(c)]

(* Mutant: the stake of a side changes before its pool is settled.         *)
Advanced_Late(c) == pools[c]

Advanced(c) == [s \in Sides |-> Settled(c, pools[c][s])]

(* The trailing average, one bucket a block: a quiet block repeats the     *)
(* last total, and only the buckets the window reads are kept.             *)
Recent(r) == IF Len(r) > Window THEN SubSeq(r, Len(r) - Window + 1, Len(r)) ELSE r

Observe(r, v) ==
  LET gap == IF r.buckets = <<>> THEN 0 ELSE now - r.at
      kept == IF gap = 0 /\ r.buckets # <<>> THEN Front(r.buckets) ELSE r.buckets
      carried == [i \in 1 .. gap - 1 |-> Last(r.buckets)] IN
  [at |-> now, buckets |-> Recent(kept \o carried \o <<v>>)]

Mature(r) == Len(r.buckets) >= Window

Bucket(r, t) == IF t >= r.at THEN Last(r.buckets) ELSE r.buckets[Len(r.buckets) - (r.at - t)]

Trailing(r) ==
  MapThenSumSet(LAMBDA t : Bucket(r, t), (now - Window + 1) .. now) \div Window

StakedOn(ps) == ps["YES"].stake + ps["NO"].stake

LifeAverage(ps) ==
  (ps["YES"].raw + ps["NO"].raw) \div Larger(1, now - OpenedAt)

(* Mutant: what is staked lately is all that counts.                       *)
Base_Trailing(c, ps) == Trailing(ring[c])

(* The base of every bar: the larger of the two averages.                  *)
Base(c, ps) == Larger(Trailing(ring[c]), LifeAverage(ps))

(* Mutant: coin that leaves leaves its credit behind.                      *)
Kept_All(p, n) == p.conv

(* Credit left to a position that n of its coin leaves.                    *)
Kept(p, n) == (p.conv \div p.stake) * (p.stake - n)

(* Mutant: what rounding takes from the position stays in the pool.        *)
Forfeit_Floored(p, n) == (p.conv \div p.stake) * n

(* Mutant: the pool loses what the position keeps as well.                 *)
Forfeit_Whole(p, n) == p.conv

(* What leaves the pool is all the position loses.                         *)
Forfeit(p, n) == p.conv - Kept(p, n)

Coins(conv) == conv \div Unit

AnswerBond(xbar, ps) ==
  Max({1, Part(xbar, 600), Part(xbar, 450)} \cup {Part(Coins(ps[s].conv), 10700) : s \in Sides})

-----------------------------------------------------------------------------
Init ==
  /\ now = OpenedAt /\ acc = 0
  /\ bal = Opening
  /\ locked = [u \in Users |-> 0] /\ voted = [u \in Users |-> 0]
  /\ claims = [c \in Claims |-> NewClaim]
  /\ pools = [c \in Claims |-> [s \in Sides |-> [NoStake EXCEPT !.rawAt = OpenedAt]]]
  /\ pos = [c \in Claims |-> [b \in Backers[c] |-> [NoPosition EXCEPT !.rawAt = OpenedAt]]]
  /\ ring = [c \in Claims |-> [at |-> 0, buckets |-> <<>>]]
  /\ past = [c \in Claims |-> 0] /\ drawn = [c \in Claims |-> 0]
  /\ moves = 0

(* A block at the court's rate of the day.                                 *)
Tick(rate) ==
  /\ now < MaxNow
  /\ now' = now + 1 /\ acc' = acc + rate
  /\ past' = [c \in Claims |-> IF Frozen(c) THEN past[c] ELSE past[c] + StakedOn(pools[c])]
  /\ UNCHANGED <<bal, locked, voted, claims, pools, pos, ring, drawn, moves>>

Stake(c, u, s, n) ==
  LET p == Settled(c, pos[c][<<u, s>>])
      ps == [Advanced(c) EXCEPT ![s].stake = @ + n] IN
  /\ moves < MaxMoves /\ moves' = moves + 1
  /\ ~claims[c].closed /\ ~Frozen(c) /\ now >= OpenedAt + Polish
  /\ Spendable(u) >= n
  /\ locked' = [locked EXCEPT ![u] = @ + n]
  /\ pos' = [pos EXCEPT ![c][<<u, s>>] = [p EXCEPT !.stake = @ + n]]
  /\ pools' = [pools EXCEPT ![c] = ps]
  /\ ring' = [ring EXCEPT ![c] = Observe(@, StakedOn(ps))]
  /\ UNCHANGED <<now, acc, bal, voted, claims, past, drawn>>

(* The coin that leaves takes its credit along, out of the position and    *)
(* out of the pool; what the claim was (raw) stays.  A closed claim lets   *)
(* its stakes go this way too.                                             *)
Unstake(c, u, s, n) ==
  LET p == Settled(c, pos[c][<<u, s>>])
      ps == [Advanced(c) EXCEPT ![s].stake = @ - n, ![s].conv = @ - Forfeit(p, n)] IN
  /\ moves < MaxMoves /\ moves' = moves + 1
  /\ ~Frozen(c) /\ p.stake >= n
  /\ locked' = [locked EXCEPT ![u] = @ - n]
  /\ pos' = [pos EXCEPT ![c][<<u, s>>] = [p EXCEPT !.stake = @ - n, !.conv = Kept(p, n)]]
  /\ pools' = [pools EXCEPT ![c] = ps]
  /\ ring' = [ring EXCEPT ![c] = Observe(@, StakedOn(ps))]
  /\ UNCHANGED <<now, acc, bal, voted, claims, past, drawn>>

Transfer(from, to, n) ==
  /\ moves < MaxMoves /\ moves' = moves + 1
  /\ from # to /\ Disposable(from) >= n
  /\ bal' = [bal EXCEPT ![from] = @ - n, ![to] = @ + n]
  /\ UNCHANGED <<now, acc, locked, voted, claims, pools, pos, ring, past, drawn>>

(* A ballot in the dispute of an answered claim weighs all its voter has,  *)
(* staked or not; resolving the question lets go of it.                    *)
Vote(u) ==
  /\ \E c \in Claims : Frozen(c) /\ ~claims[c].final
  /\ voted[u] = 0 /\ bal[u] > 0
  /\ voted' = [voted EXCEPT ![u] = bal[u]]
  /\ UNCHANGED <<now, acc, bal, locked, claims, pools, pos, ring, past, drawn, moves>>

Resolve(u) ==
  /\ voted[u] > 0
  /\ voted' = [voted EXCEPT ![u] = 0]
  /\ UNCHANGED <<now, acc, bal, locked, claims, pools, pos, ring, past, drawn, moves>>

CloseDeadClaim(c) ==
  /\ ~claims[c].closed /\ ~Frozen(c) /\ now >= OpenedAt + DeadTime
  /\ claims' = [claims EXCEPT ![c].closed = TRUE]
  /\ UNCHANGED <<now, acc, bal, locked, voted, pools, pos, ring, past, drawn, moves>>

(* The answer settles both pools and pins what they will be read at.       *)
PostAnswer(c, u, s) ==
  LET ps == Advanced(c)
      xbar == Base(c, ps)
      bond == AnswerBond(xbar, ps) IN
  /\ ~claims[c].closed /\ ~Frozen(c) /\ now < OpenedAt + DeadTime
  /\ Mature(ring[c]) /\ Trailing(ring[c]) >= MinAnswer
  /\ Disposable(u) >= bond
  /\ bal' = [bal EXCEPT ![u] = @ - bond]
  /\ pools' = [pools EXCEPT ![c] = ps]
  /\ claims' = [claims EXCEPT ![c] = [@ EXCEPT
       !.frozenAt = now, !.accAtFreeze = acc, !.xbar = xbar,
       !.atFreeze = [side \in Sides |-> ps[side].stake],
       !.answer = s, !.answerer = u, !.bond = bond]]
  /\ UNCHANGED <<now, acc, locked, voted, pos, ring, past, drawn, moves>>

-----------------------------------------------------------------------------
(* The verdict, as Court reaches it: rounds make it stand or turn it       *)
(* around, and one that overturns the answer burns its bond.               *)
Round(c, s) ==
  /\ Frozen(c) /\ ~claims[c].final /\ claims[c].standing # s
  /\ claims' = [claims EXCEPT ![c].standing = s,
                              ![c].bond = IF s = claims[c].answer THEN @ ELSE 0]
  /\ UNCHANGED <<now, acc, bal, locked, voted, pools, pos, ring, past, drawn, moves>>

(* It becomes final, for want of a round as the answer itself, or, when    *)
(* the claim is discarded in its first round, with no side at all.         *)
Finalize(c) ==
  LET k == claims[c] IN
  /\ Frozen(c) /\ ~k.final
  /\ \E s \in IF k.standing = None THEN {None, k.answer} ELSE {k.standing} :
       claims' = [claims EXCEPT ![c].final = TRUE, ![c].standing = s, ![c].bond = 0]
  /\ bal' = [bal EXCEPT ![k.answerer] = @ + k.bond]
  /\ UNCHANGED <<now, acc, locked, voted, pools, pos, ring, past, drawn, moves>>

(* Principal comes back whole on both sides, and early on the side that a  *)
(* standing verdict is against.                                            *)
WithdrawStake(c, u, s) ==
  LET k == claims[c]
      p == Settled(c, pos[c][<<u, s>>]) IN
  /\ k.final \/ (k.standing # None /\ k.standing # s)
  /\ p.stake > 0
  /\ locked' = [locked EXCEPT ![u] = @ - p.stake]
  /\ pos' = [pos EXCEPT ![c][<<u, s>>] = [p EXCEPT !.stake = 0]]
  /\ pools' = [pools EXCEPT ![c] = [Advanced(c) EXCEPT ![s].stake = @ - p.stake]]
  /\ UNCHANGED <<now, acc, bal, voted, claims, ring, past, drawn, moves>>

-----------------------------------------------------------------------------
(* The draw.  The tier is what Court's TierBps is, and a grant what the    *)
(* spam discount, the bond, the period and the reservoir leave of it.      *)
WinningSide(k) == IF k.standing = "YES" THEN "YES" ELSE "NO"

OpenRewards(c, grant) ==
  LET k == claims[c]
      ps == Advanced(c)
      win == Coins(ps[WinningSide(k)].conv)
      draw == Lesser(grant, Part(win, TierBps)) IN
  /\ k.final /\ ~k.opened
  /\ pools' = [pools EXCEPT ![c] = ps]
  /\ claims' = [claims EXCEPT ![c] = [k EXCEPT
       !.opened = TRUE, !.openBlocks = Larger(1, k.frozenAt - (OpenedAt + Polish)),
       !.winConv = win, !.pot = (draw * 80) \div 93]]
  /\ UNCHANGED <<now, acc, bal, locked, voted, pos, ring, past, drawn, moves>>

(* capBonus: at most half the tier times what the position averaged over   *)
(* the life of the claim.                                                  *)
Capped(k, gross, raw) == Lesser(gross, ((raw \div k.openBlocks) * TierBps) \div (2 * Bps))

(* What a settled position on the winning side takes.                      *)
Bonus(k, p) ==
  IF k.winConv = 0 THEN 0 ELSE Capped(k, (k.pot * Coins(p.conv)) \div k.winConv, p.raw)

WithdrawBonus(c, u, s) ==
  LET k == claims[c]
      p == Settled(c, pos[c][<<u, s>>]) IN
  /\ k.opened /\ s = k.standing /\ ~p.paid
  /\ pos' = [pos EXCEPT ![c][<<u, s>>] = [p EXCEPT !.paid = TRUE]]
  /\ bal' = [bal EXCEPT ![u] = @ + Bonus(k, p)]
  /\ drawn' = [drawn EXCEPT ![c] = @ + Bonus(k, p)]
  /\ UNCHANGED <<now, acc, locked, voted, claims, pools, ring, past, moves>>

Next ==
  \/ \E rate \in Rates[now] : Tick(rate)
  \/ \E from \in Senders, to \in Users, n \in Amounts : Transfer(from, to, n)
  \/ \E u \in Voters : Vote(u) \/ Resolve(u)
  \/ \E c \in Claims :
       \/ \E b \in Backers[c] :
            \/ \E n \in Amounts : Stake(c, b[1], b[2], n) \/ Unstake(c, b[1], b[2], n)
            \/ WithdrawStake(c, b[1], b[2]) \/ WithdrawBonus(c, b[1], b[2])
       \/ CloseDeadClaim(c)
       \/ \E u \in Answerers, s \in AnswerSides : PostAnswer(c, u, s)
       \/ \E s \in Sides : Round(c, s)
       \/ Finalize(c)
       \/ \E grant \in Grants : OpenRewards(c, grant)

Spec == Init /\ [][Next]_vars

-----------------------------------------------------------------------------
Of(c, s) == {b \in Backers[c] : b[2] = s}
Total(c, s, f) == MapThenSumSet(LAMBDA b : Settled(c, pos[c][b])[f], Of(c, s))

HeldBy(u) ==
  UNION {{<<c, b>> : b \in {h \in Backers[c] : h[1] = u}} : c \in Claims}

(* Settled to the same moment, a side's pool is the sum of its positions,  *)
(* in stake, in conviction and in history, whoever settled when and        *)
(* whatever was rounded on the way out (stake.gno:89-116, 259-281).        *)
PoolsAreSums ==
  \A c \in Claims :
    LET sides == Advanced(c) IN
    \A s \in Sides, f \in {"stake", "conv", "raw"} : sides[s][f] = Total(c, s, f)

(* A holder's lock is what it has staked over all claims, and both that    *)
(* and what its ballots hold is still in its balance, whatever it staked,  *)
(* bonded, voted and sent in whatever order (lock.gno:18-34, 70-87).       *)
StakesStayBacked ==
  \A u \in Users :
    /\ locked[u] = MapThenSumSet(LAMBDA h : pos[h[1]][h[2]].stake, HeldBy(u))
    /\ locked[u] <= bal[u] /\ voted[u] <= bal[u]

(* Credit follows the coin: a side has no more conviction than the coin on *)
(* it now, or at the answer, would have earned over the whole life of the  *)
(* claim, however much more was staked and withdrawn in between            *)
(* (stake.gno:222-242).                                                    *)
CreditFollowsCoin ==
  \A c \in Claims, s \in Sides :
    Advanced(c)[s].conv <=
      RateAcc(c) * (IF Frozen(c) THEN claims[c].atFreeze[s] ELSE pools[c][s].stake)

(* Draining a claim before answering it does not cheapen it: the base of   *)
(* its bars is at least the average of what was ever staked on it          *)
(* (stake.gno:248-257, answer.gno:104-135).                                *)
DrainKeepsTheBase ==
  \A c \in Claims : Frozen(c) =>
    past[c] < (claims[c].xbar + 1) * Larger(1, claims[c].frozenAt - OpenedAt)

(* The winners' bonuses fit their pot in whatever order they are drawn:    *)
(* what has been paid and what the others may still take is never more     *)
(* (openrewards.gno:161-218).                                              *)
BonusesWithinPot ==
  \A c \in Claims :
    LET k == claims[c]
        unpaid == {b \in Backers[c] : b[2] = k.standing /\ ~pos[c][b].paid} IN
    k.opened =>
      drawn[c] + MapThenSumSet(LAMBDA b : Bonus(k, Settled(c, pos[c][b])), unpaid) <= k.pot

(* Once a claim is answered nothing changes what a position earned on it:  *)
(* no rate, no withdrawal, early or late, and no delay in settling         *)
(* (stake.gno:53-64, session.gno:68-94).                                   *)
ConvictionPinned ==
  [][\A c \in Claims : \A b \in Backers[c] : Frozen(c) =>
       LET before == Settled(c, pos[c][b])
           after == Settled(c, pos[c][b])' IN
       after.conv = before.conv /\ after.raw = before.raw]_vars

(* What the other half of a claim, where it is disputed, sees of it.       *)
Stage(k) ==
  IF k.closed THEN "closed"
  ELSE IF k.frozenAt = 0 THEN "open"
  ELSE IF ~k.final THEN "answered"
  ELSE IF ~k.opened THEN "final" ELSE "drawn"

LifeOf(k) == [stage |-> Stage(k), answer |-> k.answer,
              standing |-> k.standing, held |-> k.bond > 0]

Lives == [c \in Claims |-> LifeOf(claims[c])]

Life == INSTANCE ClaimLife WITH life <- Lives

(* Stakes and bonuses follow a life of a claim as Court leads it.          *)
ImplementsClaimLife == Life!Spec
=============================================================================
