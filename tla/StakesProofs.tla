---------------------------- MODULE StakesProofs ----------------------------
(* What holds of Stakes for any claims and holders, any amounts and any    *)
(* rates: what a position earned is pinned by the answer, a pool is the    *)
(* sum of its positions, credit follows the coin, draining a claim does    *)
(* not cheapen its answer, a lock is what its holder has staked, the       *)
(* bonuses fit their pot, and all this under every verdict that the life   *)
(* of a claim allows.                                                      *)
(*                                                                         *)
(* A position that is settled changes in conv and acc at once, so that no  *)
(* sum of fields survives a step.  What settling does not move is conv -   *)
(* stake * acc and raw - stake * rawAt (Due and Old): in these terms every *)
(* step is a turn of each claim that moves n of stake and m of credit of   *)
(* at most one position (Turn), and the pool of its side by as much.       *)
EXTENDS Stakes, SharedLemmas, SequenceTheorems

(* 0. The freezes, and what they pin.                                      *)

PosRec == [stake : Int, conv : Int, acc : Int, raw : Int, rawAt : Int, paid : BOOLEAN]

ClockTyped == now \in Nat \ {0} /\ acc \in Nat

PositionsTyped ==
  /\ DOMAIN pos = Claims
  /\ \A c \in Claims : pos[c] \in [Backers[c] -> PosRec]

(* A claim's freeze is in the past, so that what it pins is what a later   *)
(* settling reads.                                                         *)
FreezePast ==
  /\ DOMAIN claims = Claims
  /\ \A c \in Claims :
       /\ {"frozenAt", "accAtFreeze"} \subseteq DOMAIN claims[c]
       /\ claims[c].frozenAt \in Nat /\ claims[c].accAtFreeze \in Nat
       /\ claims[c].frozenAt <= now
       /\ Frozen(c) => claims[c].accAtFreeze <= acc

IInv == ClockTyped /\ PositionsTyped /\ FreezePast

-----------------------------------------------------------------------------
(* A frozen claim is read at its freeze, whatever time it is.              *)
LEMMA FrozenReads ==
  ASSUME NEW c \in Claims, ClockTyped, FreezePast, Frozen(c)
  PROVE  RateAcc(c) = claims[c].accAtFreeze /\ RawNow(c) = claims[c].frozenAt
BY DEF ClockTyped, FreezePast, Frozen, RateAcc, RawNow, Lesser

LEMMA ReadsTyped ==
  ASSUME NEW c \in Claims, ClockTyped, FreezePast
  PROVE  RateAcc(c) \in Int /\ RawNow(c) \in Int
BY DEF ClockTyped, FreezePast, Frozen, RateAcc, RawNow, Lesser

LEMMA SettledIs ==
  ASSUME NEW c \in Claims, NEW p \in PosRec, ClockTyped, FreezePast
  PROVE  /\ Settled(c, p) \in PosRec
         /\ Settled(c, p).stake = p.stake /\ Settled(c, p).paid = p.paid
         /\ Settled(c, p).acc = RateAcc(c) /\ Settled(c, p).rawAt = RawNow(c)
         /\ Settled(c, p).conv = p.conv + p.stake * (RateAcc(c) - p.acc)
         /\ Settled(c, p).raw = p.raw + p.stake * (RawNow(c) - p.rawAt)
<1> DEFINE A == RateAcc(c)
            R == RawNow(c)
            C == p.conv + p.stake * (A - p.acc)
            W == p.raw + p.stake * (R - p.rawAt)
<1>1. A \in Int /\ R \in Int
  BY ReadsTyped
<1>2. /\ p.stake \in Int /\ p.conv \in Int /\ p.acc \in Int /\ p.raw \in Int
      /\ p.rawAt \in Int /\ p.paid \in BOOLEAN
  BY DEF PosRec
<1>3. C \in Int /\ W \in Int
  BY <1>1, <1>2
<1>4. Settled(c, p) = [p EXCEPT !.conv = C, !.acc = A, !.raw = W, !.rawAt = R]
  BY DEF Settled, PosRec
<1> HIDE DEF A, R, C, W
<1>5. /\ Settled(c, p) \in PosRec
      /\ Settled(c, p).stake = p.stake /\ Settled(c, p).paid = p.paid
      /\ Settled(c, p).acc = A /\ Settled(c, p).rawAt = R
      /\ Settled(c, p).conv = C /\ Settled(c, p).raw = W
  BY <1>1, <1>2, <1>3, <1>4 DEF PosRec
<1> QED
  BY <1>5 DEF A, R, C, W

-----------------------------------------------------------------------------
LEMMA InitHolds == Init => IInv
<1> SUFFICES ASSUME Init
              PROVE  IInv
  OBVIOUS
<1>1. ClockTyped
  BY DEF Init, ClockTyped, OpenedAt
<1>2. PositionsTyped
  <2>1. [NoPosition EXCEPT !.rawAt = OpenedAt] \in PosRec
    <3>1. NoPosition \in PosRec
      BY DEF NoPosition, PosRec
    <3> QED
      BY <3>1 DEF OpenedAt, PosRec
  <2>2. Backers \in [Claims -> SUBSET (Users \X Sides)]
    BY StakesAssumption
  <2> QED
    BY <2>1, <2>2 DEF Init, PositionsTyped
<1>3. FreezePast
  <2>1. \A c \in Claims : claims[c] = NewClaim
    BY DEF Init
  <2>2. /\ {"frozenAt", "accAtFreeze"} \subseteq DOMAIN NewClaim
        /\ NewClaim.frozenAt = 0 /\ NewClaim.accAtFreeze = 0
    BY DEF NewClaim
  <2> QED
    BY <2>1, <2>2 DEF Init, FreezePast, Frozen, OpenedAt
<1> QED
  BY <1>1, <1>2, <1>3 DEF IInv

(* A step is harmless when no freeze moves and a frozen position is        *)
(* rewritten, if at all, as it settles, but for its stake.                 *)
SameFreeze(c) ==
  /\ claims'[c].frozenAt = claims[c].frozenAt
  /\ claims'[c].accAtFreeze = claims[c].accAtFreeze

Resettled(c, p, q) ==
  /\ q.acc = Settled(c, p).acc /\ q.rawAt = Settled(c, p).rawAt
  /\ q.conv = Settled(c, p).conv /\ q.raw = Settled(c, p).raw

Harmless ==
  \A c \in Claims : Frozen(c) =>
    /\ SameFreeze(c)
    /\ \A b \in Backers[c] :
         pos'[c][b] = pos[c][b] \/ Resettled(c, pos[c][b], pos'[c][b])

(* What a position has earned is the same after a harmless step.           *)
LEMMA HarmlessPins ==
  ASSUME IInv, IInv', Harmless, NEW c \in Claims, NEW b \in Backers[c], Frozen(c)
  PROVE  /\ Settled(c, pos[c][b])'.conv = Settled(c, pos[c][b]).conv
         /\ Settled(c, pos[c][b])'.raw = Settled(c, pos[c][b]).raw
<1> DEFINE p == pos[c][b]
            q == pos'[c][b]
            A == RateAcc(c)
            R == RawNow(c)
<1>1. p \in PosRec /\ q \in PosRec
  BY DEF IInv, PositionsTyped
<1>2. A = claims[c].accAtFreeze /\ R = claims[c].frozenAt
  BY FrozenReads DEF IInv
<1>3. SameFreeze(c)
  BY DEF Harmless
<1>4. Frozen(c)'
  BY <1>3 DEF SameFreeze, Frozen
<1>5. RateAcc(c)' = A /\ RawNow(c)' = R
  <2>1. RateAcc(c)' = claims'[c].accAtFreeze /\ RawNow(c)' = claims'[c].frozenAt
    BY <1>4 DEF IInv, ClockTyped, FreezePast, Frozen, RateAcc, RawNow, Lesser
  <2> QED
    BY <2>1, <1>2, <1>3 DEF SameFreeze
<1>6. A \in Int /\ R \in Int
  BY ReadsTyped DEF IInv
<1>7. /\ Settled(c, p).acc = A /\ Settled(c, p).rawAt = R
      /\ Settled(c, p).conv = p.conv + p.stake * (A - p.acc)
      /\ Settled(c, p).raw = p.raw + p.stake * (R - p.rawAt)
      /\ Settled(c, p) \in PosRec
  BY <1>1, SettledIs DEF IInv
<1>8. /\ Settled(c, pos[c][b])'.conv = q.conv + q.stake * (A - q.acc)
      /\ Settled(c, pos[c][b])'.raw = q.raw + q.stake * (R - q.rawAt)
  BY <1>1, <1>5, <1>6 DEF Settled, PosRec
<1>9. CASE q = p
  BY <1>7, <1>8, <1>9
<1>10. CASE Resettled(c, p, q)
  <2>1. q.acc = A /\ q.rawAt = R /\ q.conv = Settled(c, p).conv /\ q.raw = Settled(c, p).raw
    BY <1>7, <1>10 DEF Resettled
  <2>2. q.stake \in Int /\ q.conv \in Int /\ q.raw \in Int
    BY <1>1 DEF PosRec
  <2>3. /\ Settled(c, pos[c][b])'.conv = q.conv + q.stake * (A - A)
        /\ Settled(c, pos[c][b])'.raw = q.raw + q.stake * (R - R)
    BY <2>1, <1>8
  <2> HIDE DEF A, R
  <2>4. A - A = 0 /\ R - R = 0
    BY <1>6
  <2> HIDE DEF p, q
  <2>5. q.stake * 0 = 0
    BY <2>2
  <2> QED
    BY <2>1, <2>2, <2>3, <2>4, <2>5 DEF p, q
<1> QED
  BY <1>9, <1>10 DEF Harmless

-----------------------------------------------------------------------------
(* Steps that write one claim and keep its freeze.                         *)
LEMMA ClaimWritten ==
  ASSUME IInv, NEW c \in Claims, NEW k, claims' = [claims EXCEPT ![c] = k],
         {"frozenAt", "accAtFreeze"} \subseteq DOMAIN k,
         k.frozenAt = claims[c].frozenAt, k.accAtFreeze = claims[c].accAtFreeze,
         UNCHANGED <<now, acc, pos>>
  PROVE  IInv' /\ Harmless
<1>1. ClockTyped' /\ PositionsTyped'
  BY DEF IInv, ClockTyped, PositionsTyped
<1>2. \A d \in Claims : SameFreeze(d) /\ {"frozenAt", "accAtFreeze"} \subseteq DOMAIN claims'[d]
  BY DEF IInv, FreezePast, SameFreeze
<1>3. FreezePast'
  BY <1>2 DEF IInv, FreezePast, SameFreeze, Frozen
<1> QED
  BY <1>1, <1>2, <1>3 DEF IInv, Harmless

(* Steps that write neither claims nor positions.                          *)
LEMMA NothingWritten ==
  ASSUME IInv, UNCHANGED <<claims, pos>>, ClockTyped', now <= now', acc <= acc'
  PROVE  IInv' /\ Harmless
<1>1. PositionsTyped'
  BY DEF IInv, PositionsTyped
<1>2. FreezePast'
  BY DEF IInv, ClockTyped, FreezePast, Frozen
<1> QED
  BY <1>1, <1>2 DEF IInv, Harmless, SameFreeze

(* Steps that write one position, of a claim that is not frozen or as it   *)
(* settles.                                                                *)
LEMMA PositionWritten ==
  ASSUME IInv, NEW c \in Claims, NEW b \in Backers[c], NEW q \in PosRec,
         pos' = [pos EXCEPT ![c][b] = q],
         Frozen(c) => Resettled(c, pos[c][b], q),
         UNCHANGED <<now, acc, claims>>
  PROVE  IInv' /\ Harmless
<1>1. PositionsTyped'
  BY DEF IInv, PositionsTyped
<1>2. ClockTyped' /\ FreezePast'
  BY DEF IInv, ClockTyped, FreezePast, Frozen
<1>3. ASSUME NEW d \in Claims, NEW e \in Backers[d], Frozen(d)
      PROVE  pos'[d][e] = pos[d][e] \/ Resettled(d, pos[d][e], pos'[d][e])
  <2>1. CASE d = c /\ e = b
    BY <2>1, <1>3 DEF IInv, PositionsTyped
  <2>2. CASE ~(d = c /\ e = b)
    BY <2>2 DEF IInv, PositionsTyped
  <2> QED
    BY <2>1, <2>2
<1> QED
  BY <1>1, <1>2, <1>3 DEF IInv, Harmless, SameFreeze

-----------------------------------------------------------------------------
LEMMA StepHarmless ==
  ASSUME IInv, [Next]_vars
  PROVE  IInv' /\ Harmless
<1>1. ASSUME NEW rate \in Rates[now], Tick(rate)
      PROVE  IInv' /\ Harmless
  <2>1. rate \in Nat /\ now \in Nat /\ acc \in Nat
    <3>1. now \in 1 .. MaxNow
      <4>1. now < MaxNow
        BY <1>1 DEF Tick
      <4>2. MaxNow \in Nat
        BY StakesAssumption
      <4> QED
        BY <4>1, <4>2 DEF IInv, ClockTyped
    <3>2. Rates[now] \subseteq Nat
      BY <3>1, StakesAssumption
    <3> QED
      BY <3>2 DEF IInv, ClockTyped
  <2>2. now' = now + 1 /\ acc' = acc + rate /\ UNCHANGED <<claims, pos>>
    BY <1>1 DEF Tick
  <2> QED
    BY <2>1, <2>2, NothingWritten DEF IInv, ClockTyped
<1>2. ASSUME NEW c \in Claims, NEW b \in Backers[c], NEW n \in Amounts, Stake(c, b[1], b[2], n)
      PROVE  IInv' /\ Harmless
  <2> DEFINE p == Settled(c, pos[c][b])
              q == [p EXCEPT !.stake = @ + n]
  <2>1. b = <<b[1], b[2]>>
    BY StakesAssumption
  <2>2. /\ ~Frozen(c) /\ UNCHANGED <<now, acc, claims>>
        /\ pos' = [pos EXCEPT ![c][b] = q]
    BY <2>1, <1>2 DEF Stake
  <2>3. p \in PosRec
    BY SettledIs DEF IInv, PositionsTyped
  <2>4. q \in PosRec
    BY <2>3, StakesAssumption, SMTT(30) DEF PosRec
  <2> QED
    BY <2>2, <2>4, PositionWritten
<1>3. ASSUME NEW c \in Claims, NEW b \in Backers[c], NEW n \in Amounts, Unstake(c, b[1], b[2], n)
      PROVE  IInv' /\ Harmless
  <2> DEFINE p == Settled(c, pos[c][b])
              q == [p EXCEPT !.stake = @ - n, !.conv = Kept(p, n)]
  <2>1. b = <<b[1], b[2]>>
    BY StakesAssumption
  <2>2. /\ ~Frozen(c) /\ UNCHANGED <<now, acc, claims>>
        /\ pos' = [pos EXCEPT ![c][b] = q]
    BY <2>1, <1>3 DEF Unstake
  <2>3. p \in PosRec
    BY SettledIs DEF IInv, PositionsTyped
  <2>4. p.stake >= n
    BY <2>1, <1>3 DEF Unstake
  <2>5. Kept(p, n) \in Int
    <3>1. p.stake \in Nat \ {0} /\ p.conv \in Int /\ n \in Nat
      BY <2>3, <2>4, StakesAssumption DEF PosRec
    <3> HIDE DEF p
    <3>2. p.conv \div p.stake \in Int
      BY <3>1
    <3> QED
      BY <3>1, <3>2 DEF Kept
  <2>6. q \in PosRec
    <3>1. p.stake - n \in Int
      BY <2>3, StakesAssumption DEF PosRec
    <3> QED
      BY <2>3, <2>5, <3>1 DEF PosRec
  <2> QED
    BY <2>2, <2>6, PositionWritten
<1>4. ASSUME NEW c \in Claims, NEW b \in Backers[c], WithdrawStake(c, b[1], b[2])
      PROVE  IInv' /\ Harmless
  <2> DEFINE p == Settled(c, pos[c][b])
              q == [p EXCEPT !.stake = 0]
  <2>1. b = <<b[1], b[2]>>
    BY StakesAssumption
  <2>2. /\ UNCHANGED <<now, acc, claims>>
        /\ pos' = [pos EXCEPT ![c][b] = q]
    BY <2>1, <1>4 DEF WithdrawStake
  <2>3. p \in PosRec
    BY SettledIs DEF IInv, PositionsTyped
  <2>4. q \in PosRec /\ Resettled(c, pos[c][b], q)
    <3> HIDE DEF p
    <3>1. /\ q \in PosRec
          /\ q.acc = p.acc /\ q.rawAt = p.rawAt /\ q.conv = p.conv /\ q.raw = p.raw
      BY <2>3 DEF PosRec
    <3> QED
      BY <3>1 DEF Resettled, p
  <2> QED
    BY <2>2, <2>4, PositionWritten
<1>5. ASSUME NEW c \in Claims, NEW b \in Backers[c], WithdrawBonus(c, b[1], b[2])
      PROVE  IInv' /\ Harmless
  <2> DEFINE p == Settled(c, pos[c][b])
              q == [p EXCEPT !.paid = TRUE]
  <2>1. b = <<b[1], b[2]>>
    BY StakesAssumption
  <2>2. /\ UNCHANGED <<now, acc, claims>>
        /\ pos' = [pos EXCEPT ![c][b] = q]
    BY <2>1, <1>5 DEF WithdrawBonus
  <2>3. p \in PosRec
    BY SettledIs DEF IInv, PositionsTyped
  <2>4. q \in PosRec /\ Resettled(c, pos[c][b], q)
    <3> HIDE DEF p
    <3>1. /\ q \in PosRec
          /\ q.acc = p.acc /\ q.rawAt = p.rawAt /\ q.conv = p.conv /\ q.raw = p.raw
      BY <2>3 DEF PosRec
    <3> QED
      BY <3>1 DEF Resettled, p
  <2> QED
    BY <2>2, <2>4, PositionWritten
<1>6. ASSUME NEW c \in Claims, CloseDeadClaim(c)
      PROVE  IInv' /\ Harmless
  <2> DEFINE k == [claims[c] EXCEPT !.closed = TRUE]
  <2>1. claims' = [claims EXCEPT ![c] = k] /\ UNCHANGED <<now, acc, pos>>
    BY <1>6 DEF CloseDeadClaim
  <2>2. /\ {"frozenAt", "accAtFreeze"} \subseteq DOMAIN k
        /\ k.frozenAt = claims[c].frozenAt /\ k.accAtFreeze = claims[c].accAtFreeze
    BY DEF IInv, FreezePast
  <2> QED
    BY <2>1, <2>2, ClaimWritten
<1>7. ASSUME NEW c \in Claims, NEW u, NEW s, PostAnswer(c, u, s)
      PROVE  IInv' /\ Harmless
  <2>1. /\ ~Frozen(c) /\ UNCHANGED <<now, acc, pos>>
        /\ DOMAIN claims' = Claims
        /\ \A d \in Claims : d # c => claims'[d] = claims[d]
        /\ {"frozenAt", "accAtFreeze"} \subseteq DOMAIN claims'[c]
        /\ claims'[c].frozenAt = now /\ claims'[c].accAtFreeze = acc
    BY <1>7 DEF PostAnswer, IInv, FreezePast
  <2>2. ClockTyped' /\ PositionsTyped'
    BY <2>1 DEF IInv, ClockTyped, PositionsTyped
  <2>3. FreezePast'
    <3>1. ASSUME NEW d \in Claims
          PROVE  /\ {"frozenAt", "accAtFreeze"} \subseteq DOMAIN claims'[d]
                 /\ claims'[d].frozenAt \in Nat /\ claims'[d].accAtFreeze \in Nat
                 /\ claims'[d].frozenAt <= now'
                 /\ Frozen(d)' => claims'[d].accAtFreeze <= acc'
      BY <2>1 DEF IInv, ClockTyped, FreezePast, Frozen
    <3> QED
      BY <2>1, <3>1 DEF FreezePast
  <2>4. Harmless
    BY <2>1 DEF Harmless, SameFreeze
  <2> QED
    BY <2>2, <2>3, <2>4 DEF IInv
<1>8. ASSUME NEW c \in Claims, NEW s, Round(c, s)
      PROVE  IInv' /\ Harmless
  <2> DEFINE k == [claims[c] EXCEPT !.standing = s, !.bond = IF s = claims[c].answer THEN @ ELSE 0]
  <2>1. claims' = [claims EXCEPT ![c] = k] /\ UNCHANGED <<now, acc, pos>>
    BY <1>8 DEF Round
  <2>2. /\ {"frozenAt", "accAtFreeze"} \subseteq DOMAIN k
        /\ k.frozenAt = claims[c].frozenAt /\ k.accAtFreeze = claims[c].accAtFreeze
    BY DEF IInv, FreezePast
  <2> QED
    BY <2>1, <2>2, ClaimWritten
<1>9. ASSUME NEW c \in Claims, Finalize(c)
      PROVE  IInv' /\ Harmless
  <2> PICK s : claims' = [claims EXCEPT ![c].final = TRUE, ![c].standing = s, ![c].bond = 0]
    BY <1>9 DEF Finalize
  <2> DEFINE k == [claims[c] EXCEPT !.final = TRUE, !.standing = s, !.bond = 0]
  <2>1. claims' = [claims EXCEPT ![c] = k] /\ UNCHANGED <<now, acc, pos>>
    BY <1>9 DEF Finalize
  <2>2. /\ {"frozenAt", "accAtFreeze"} \subseteq DOMAIN k
        /\ k.frozenAt = claims[c].frozenAt /\ k.accAtFreeze = claims[c].accAtFreeze
    BY DEF IInv, FreezePast
  <2> QED
    BY <2>1, <2>2, ClaimWritten
<1>10. ASSUME NEW c \in Claims, NEW grant, OpenRewards(c, grant)
       PROVE  IInv' /\ Harmless
  <2> DEFINE K(n, w, r) == [claims[c] EXCEPT
                 !.opened = TRUE, !.openBlocks = n, !.winConv = w, !.pot = r]
  <2>1. \E n, w, r : claims' = [claims EXCEPT ![c] = K(n, w, r)]
    BY <1>10 DEF OpenRewards
  <2>2. PICK n, w, r : claims' = [claims EXCEPT ![c] = K(n, w, r)]
    BY <2>1
  <2>3. UNCHANGED <<now, acc, pos>>
    BY <1>10 DEF OpenRewards
  <2>4. /\ {"frozenAt", "accAtFreeze"} \subseteq DOMAIN K(n, w, r)
        /\ K(n, w, r).frozenAt = claims[c].frozenAt
        /\ K(n, w, r).accAtFreeze = claims[c].accAtFreeze
    BY DEF IInv, FreezePast
  <2> QED
    BY <2>2, <2>3, <2>4, ClaimWritten
<1>11. ASSUME NEW from, NEW to, NEW n, NEW u, Transfer(from, to, n) \/ Vote(u) \/ Resolve(u)
       PROVE  IInv' /\ Harmless
  <2>1. UNCHANGED <<now, acc, claims, pos>>
    BY <1>11 DEF Transfer, Vote, Resolve
  <2> QED
    BY <2>1, NothingWritten DEF IInv, ClockTyped
<1>12. CASE UNCHANGED vars
  BY <1>12, NothingWritten DEF vars, IInv, ClockTyped
<1> QED
  BY <1>1, <1>2, <1>3, <1>4, <1>5, <1>6, <1>7, <1>8, <1>9, <1>10, <1>11, <1>12 DEF Next

(* TypeOK's part of the clock, the freezes and the positions, always.      *)
THEOREM FreezesStayPast == Spec => []IInv
<1>1. IInv /\ [Next]_vars => IInv'
  BY StepHarmless
<1> QED
  BY InitHolds, <1>1, PTL DEF Spec

(* Once a claim is answered nothing changes what a position earned on it,  *)
(* for every instance (stake.gno:53-64, session.gno:68-94).                *)
THEOREM EarnedIsPinned == Spec => ConvictionPinned
<1>1. IInv /\ IInv' /\ [Next]_vars =>
        [\A c \in Claims : \A b \in Backers[c] : Frozen(c) =>
           LET before == Settled(c, pos[c][b])
               after == Settled(c, pos[c][b])' IN
           after.conv = before.conv /\ after.raw = before.raw]_vars
  BY StepHarmless, HarmlessPins
<1> QED
  BY FreezesStayPast, <1>1, PTL DEF Spec, ConvictionPinned

-----------------------------------------------------------------------------
(* 1. What settling does not move, and the sums of a side's positions.     *)

(* The part of a position's or a pool's credit, and of its history, that   *)
(* settling does not move.                                                 *)
Due(p) == p.conv - p.stake * p.acc
Old(p) == p.raw - p.stake * p.rawAt

(* The fields that positions and pools have.                               *)
Account(p) == p.stake \in Int /\ p.conv \in Int /\ p.acc \in Int /\ p.raw \in Int /\ p.rawAt \in Int

(* p settled, then changed by n of stake and m of credit.                  *)
Reckoned(c, p, q, n, m) ==
  /\ q.stake = p.stake + n /\ q.conv = Settled(c, p).conv + m /\ q.raw = Settled(c, p).raw
  /\ q.acc = RateAcc(c) /\ q.rawAt = RawNow(c)

LEMMA AccountIs ==
  ASSUME NEW p, Account(p)
  PROVE  /\ Due(p) \in Int /\ Old(p) \in Int
         /\ \A A \in Int : p.conv + p.stake * (A - p.acc) = Due(p) + p.stake * A
         /\ \A R \in Int : p.raw + p.stake * (R - p.rawAt) = Old(p) + p.stake * R
<1> DEFINE s == p.stake
           v == p.conv
           a == p.acc
           r == p.raw
           t == p.rawAt
<1>1. s \in Int /\ v \in Int /\ a \in Int /\ r \in Int /\ t \in Int
  BY DEF Account
<1>2. Due(p) = v - s * a /\ Old(p) = r - s * t
  BY DEF Due, Old
<1> HIDE DEF s, v, a, r, t
<1>3. s * a \in Int /\ s * t \in Int
  BY <1>1
<1>4. ASSUME NEW A \in Int PROVE s * (A - a) = s * A - s * a /\ s * A \in Int
  BY <1>1
<1>5. ASSUME NEW R \in Int PROVE s * (R - t) = s * R - s * t /\ s * R \in Int
  BY <1>1
<1>6. ASSUME NEW A \in Int PROVE v + s * (A - a) = Due(p) + s * A
  BY <1>1, <1>2, <1>3, <1>4
<1>7. ASSUME NEW R \in Int PROVE r + s * (R - t) = Old(p) + s * R
  BY <1>1, <1>2, <1>3, <1>5
<1>8. Due(p) \in Int /\ Old(p) \in Int
  BY <1>1, <1>2, <1>3
<1> QED
  BY <1>6, <1>7, <1>8 DEF s, v, a, r, t

LEMMA ReckonedIs ==
  ASSUME NEW p, Account(p), NEW A \in Int, NEW R \in Int, NEW n \in Int, NEW m \in Int, NEW q,
         q.stake = p.stake + n, q.acc = A, q.rawAt = R,
         q.conv = p.conv + p.stake * (A - p.acc) + m, q.raw = p.raw + p.stake * (R - p.rawAt)
  PROVE  /\ Account(q)
         /\ Due(q) = Due(p) + m - n * A /\ Old(q) = Old(p) - n * R
         /\ q.conv = Due(p) + p.stake * A + m
<1> DEFINE s == p.stake
           d == Due(p)
           o == Old(p)
           sA == s * A
           sR == s * R
<1>1. s \in Int /\ d \in Int /\ o \in Int
  BY AccountIs DEF Account
<1>2. q.conv = d + sA + m /\ q.raw = o + sR
  BY AccountIs
<1>3. q.stake = s + n
  OBVIOUS
<1> HIDE DEF s, d, o
<1>4. sA \in Int /\ sR \in Int /\ n * A \in Int /\ n * R \in Int
  BY <1>1
<1>5. (s + n) * A = sA + n * A /\ (s + n) * R = sR + n * R
  BY <1>1
<1>6. Due(q) = q.conv - (s + n) * A /\ Old(q) = q.raw - (s + n) * R
  BY <1>3 DEF Due, Old
<1> HIDE DEF sA, sR
<1>7. Due(q) = d + m - n * A /\ Old(q) = o - n * R
  BY <1>1, <1>2, <1>4, <1>5, <1>6
<1>8. Account(q)
  BY <1>1, <1>2, <1>3, <1>4 DEF Account
<1> QED
  BY <1>2, <1>7, <1>8 DEF s, d, o, sA

-----------------------------------------------------------------------------
(* Sums over the positions of a side.                                      *)
StakesIn(ps, S) == [b \in S |-> ps[b].stake]
DuesIn(ps, S) == [b \in S |-> Due(ps[b])]
OldsIn(ps, S) == [b \in S |-> Old(ps[b])]

AddsUp(q, ps, S) ==
  /\ q.stake = SumFunctionOnSet(StakesIn(ps, S), S)
  /\ Due(q) = SumFunctionOnSet(DuesIn(ps, S), S)
  /\ Old(q) = SumFunctionOnSet(OldsIn(ps, S), S)

(* One position of the side changes, and the pool changes by as much.      *)
LEMMA AddsUpChanged ==
  ASSUME NEW q, NEW ps, NEW S, AddsUp(q, ps, S), IsFiniteSet(S), \A b \in S : Account(ps[b]),
         NEW b \in S, NEW after, Account(after[b]), \A e \in S \ {b} : after[e] = ps[e],
         NEW z, NEW n \in Int, NEW d \in Int, NEW o \in Int,
         after[b].stake = ps[b].stake + n, Due(after[b]) = Due(ps[b]) + d, Old(after[b]) = Old(ps[b]) + o,
         z.stake = q.stake + n, Due(z) = Due(q) + d, Old(z) = Old(q) + o
  PROVE  AddsUp(z, after, S)
<1>1. ASSUME NEW e \in S PROVE Account(after[e]) /\ Account(ps[e])
  OBVIOUS
<1>2. \A e \in S : /\ ps[e].stake \in Int /\ Due(ps[e]) \in Int /\ Old(ps[e]) \in Int
                   /\ after[e].stake \in Int /\ Due(after[e]) \in Int /\ Old(after[e]) \in Int
  BY <1>1, AccountIs DEF Account
<1>3. SumFunctionOnSet(StakesIn(after, S), S) = SumFunctionOnSet(StakesIn(ps, S), S) - ps[b].stake + after[b].stake
  <2> DEFINE f == StakesIn(ps, S)
             g == StakesIn(after, S)
  <2>1. Integral(f, S) /\ Integral(g, S) /\ (\A e \in S \ {b} : g[e] = f[e])
        /\ f[b] = ps[b].stake /\ g[b] = after[b].stake
    BY <1>2 DEF Integral, StakesIn
  <2> HIDE DEF f, g
  <2> QED
    BY <2>1, SumUpdate DEF f, g
<1>4. SumFunctionOnSet(DuesIn(after, S), S) = SumFunctionOnSet(DuesIn(ps, S), S) - Due(ps[b]) + Due(after[b])
  <2> DEFINE f == DuesIn(ps, S)
             g == DuesIn(after, S)
  <2>1. Integral(f, S) /\ Integral(g, S) /\ (\A e \in S \ {b} : g[e] = f[e])
        /\ f[b] = Due(ps[b]) /\ g[b] = Due(after[b])
    BY <1>2 DEF Integral, DuesIn
  <2> HIDE DEF f, g
  <2> QED
    BY <2>1, SumUpdate DEF f, g
<1>5. SumFunctionOnSet(OldsIn(after, S), S) = SumFunctionOnSet(OldsIn(ps, S), S) - Old(ps[b]) + Old(after[b])
  <2> DEFINE f == OldsIn(ps, S)
             g == OldsIn(after, S)
  <2>1. Integral(f, S) /\ Integral(g, S) /\ (\A e \in S \ {b} : g[e] = f[e])
        /\ f[b] = Old(ps[b]) /\ g[b] = Old(after[b])
    BY <1>2 DEF Integral, OldsIn
  <2> HIDE DEF f, g
  <2> QED
    BY <2>1, SumUpdate DEF f, g
<1> DEFINE F == SumFunctionOnSet(StakesIn(ps, S), S)
           G == SumFunctionOnSet(DuesIn(ps, S), S)
           H == SumFunctionOnSet(OldsIn(ps, S), S)
<1>6. F \in Int /\ G \in Int /\ H \in Int
  <2>1. Integral(StakesIn(ps, S), S) /\ Integral(DuesIn(ps, S), S) /\ Integral(OldsIn(ps, S), S)
    BY <1>2 DEF Integral, StakesIn, DuesIn, OldsIn
  <2> QED
    BY <2>1, SumIsInt
<1>7. q.stake = F /\ Due(q) = G /\ Old(q) = H
  BY DEF AddsUp
<1> HIDE DEF F, G, H
<1>8. F - ps[b].stake + (ps[b].stake + n) = F + n
  BY <1>2, <1>6
<1>9. G - Due(ps[b]) + (Due(ps[b]) + d) = G + d
  BY <1>2, <1>6
<1>10. H - Old(ps[b]) + (Old(ps[b]) + o) = H + o
  BY <1>2, <1>6
<1> QED
  BY <1>3, <1>4, <1>5, <1>7, <1>8, <1>9, <1>10 DEF AddsUp, F, G, H

(* The pool changes with none of its positions but as it settles.          *)
LEMMA AddsUpSettled ==
  ASSUME NEW q, NEW ps, NEW S, AddsUp(q, ps, S), NEW after, \A e \in S : after[e] = ps[e],
         NEW z, z.stake = q.stake, Due(z) = Due(q), Old(z) = Old(q)
  PROVE  AddsUp(z, after, S)
<1>1. StakesIn(after, S) = StakesIn(ps, S) /\ DuesIn(after, S) = DuesIn(ps, S) /\ OldsIn(after, S) = OldsIn(ps, S)
  BY DEF StakesIn, DuesIn, OldsIn
<1> QED
  BY <1>1 DEF AddsUp

(* A sum of f and k times g.                                               *)
LEMMA SumLinear ==
  ASSUME NEW f, NEW g, NEW h, NEW S, IsFiniteSet(S), Integral(f, S), Integral(g, S), NEW k \in Int,
         \A x \in S : h[x] = f[x] + g[x] * k
  PROVE  SumFunctionOnSet(h, S) = SumFunctionOnSet(f, S) + SumFunctionOnSet(g, S) * k
<1> DEFINE F(s) == SumFunctionOnSet(f, s)
           G(s) == SumFunctionOnSet(g, s)
           H(s) == SumFunctionOnSet(h, s)
           T == {s \in SUBSET S : H(s) = F(s) + G(s) * k}
<1>0. Integral(h, S)
  BY DEF Integral
<1>1. {} \in T
  <2>1. F({}) = 0 /\ G({}) = 0 /\ H({}) = 0
    BY SumOfNothing
  <2> QED
    BY <2>1
<1>2. ASSUME NEW s \in SUBSET S, s # {}, \A x \in s : s \ {x} \in T
      PROVE  s \in T
  <2>1. PICK x : x \in s
    BY <1>2
  <2>2. x \in S /\ IsFiniteSet(s) /\ IsFiniteSet(s \ {x}) /\ Integral(f, s) /\ Integral(g, s) /\ Integral(h, s)
        /\ Integral(f, s \ {x}) /\ Integral(g, s \ {x})
    <3>1. IsFiniteSet(s)
      BY FS_Subset
    <3>2. IsFiniteSet(s \ {x})
      BY <3>1, FS_RemoveElement
    <3> QED
      BY <2>1, <3>1, <3>2, <1>0 DEF Integral
  <2>3. F(s) = f[x] + F(s \ {x})
    BY <2>1, <2>2, SumRemove
  <2>4. G(s) = g[x] + G(s \ {x})
    BY <2>1, <2>2, SumRemove
  <2>5. H(s) = h[x] + H(s \ {x})
    BY <2>1, <2>2, SumRemove
  <2>6. H(s \ {x}) = F(s \ {x}) + G(s \ {x}) * k
    BY <1>2, <2>1
  <2>7. F(s \ {x}) \in Int /\ G(s \ {x}) \in Int
    BY <2>2, SumIsInt
  <2>8. h[x] = f[x] + g[x] * k /\ f[x] \in Int /\ g[x] \in Int
    BY <2>2 DEF Integral
  <2> DEFINE a == f[x]
             b == g[x]
             A == F(s \ {x})
             B == G(s \ {x})
  <2>9. a \in Int /\ b \in Int /\ A \in Int /\ B \in Int
    BY <2>7, <2>8
  <2>10. F(s) = a + A /\ G(s) = b + B /\ H(s) = (a + b * k) + (A + B * k)
    BY <2>3, <2>4, <2>5, <2>6, <2>8
  <2> HIDE DEF a, b, A, B
  <2>11. (b + B) * k = b * k + B * k /\ b * k \in Int /\ B * k \in Int
    BY <2>9
  <2>12. H(s) = F(s) + G(s) * k
    BY <2>9, <2>10, <2>11
  <2> QED
    BY <2>12
<1>3. SUBSET S \subseteq T
  <2> HIDE DEF T
  <2> QED
    BY <1>1, <1>2, PartInduction
<1> QED
  BY <1>3

-----------------------------------------------------------------------------
(* 2. What is true of pools, positions, claims and rings, and what a step  *)
(* may do to them.                                                         *)

PoolRec == [stake : Int, conv : Int, acc : Int, raw : Int, rawAt : Int]

PoolsTyped == pools \in [Claims -> [Sides -> PoolRec]]

(* No position owes anything, or was settled later than its claim reads;   *)
(* and before the answer it has no more credit than its coin would have    *)
(* earned from the beginning.                                              *)
Ripe(c, p) ==
  /\ p.stake >= 0 /\ p.conv >= 0 /\ p.raw >= 0
  /\ p.acc <= RateAcc(c) /\ p.rawAt <= RawNow(c)
  /\ ~Frozen(c) => Due(p) <= 0

PositionsRipe == \A c \in Claims : \A b \in Backers[c] : Ripe(c, pos[c][b])

PoolsAddUp == \A c \in Claims, s \in Sides : AddsUp(pools[c][s], pos[c], Of(c, s))

(* What the record of a claim says, and when.                              *)
Sound(k) ==
  /\ DOMAIN k = DOMAIN NewClaim
  /\ k.standing \in Sides \cup {None} /\ k.bond \in Nat /\ k.xbar \in Int
  /\ k.final \/ k.standing # None => k.frozenAt # 0
  /\ k.frozenAt # 0 => k.answerer \in Users /\ k.answer \in Sides
  /\ k.opened \in BOOLEAN /\ (k.opened => k.final)
  /\ k.opened => k.openBlocks \in Nat \ {0} /\ k.winConv \in Nat /\ k.pot \in Nat

ClaimsSound == \A c \in Claims : Sound(claims[c])

RingsSound ==
  /\ DOMAIN ring = Claims
  /\ \A c \in Claims : ring[c].at \in Nat /\ ring[c].at <= now /\ ring[c].buckets \in Seq(Int)

(* A claim's clock never goes back.                                        *)
Onward(c) ==
  /\ RateAcc(c) <= RateAcc(c)' /\ RawNow(c) <= RawNow(c)'
  /\ Frozen(c) => Frozen(c)'

(* What a step may do to the positions and the pools of a claim: nothing,  *)
(* settle the pools, or move n of stake and m of credit of one position,   *)
(* and of its side with it.                                                *)
Quiet(c) == pos'[c] = pos[c] /\ pools'[c] = pools[c]

PoolsRead(c) ==
  /\ pos'[c] = pos[c]
  /\ \A s \in Sides : Reckoned(c, pools[c][s], pools'[c][s], 0, 0)

Moved(c, b, n, m) ==
  /\ \A e \in Backers[c] \ {b} : pos'[c][e] = pos[c][e]
  /\ Reckoned(c, pos[c][b], pos'[c][b], n, m)
  /\ pos'[c][b].stake >= 0 /\ pos'[c][b].conv >= 0
  /\ ~Frozen(c) => Due(pos'[c][b]) <= 0
  /\ Frozen(c) => m = 0 /\ n <= 0
  /\ \/ /\ \A s \in Sides \ {b[2]} : Reckoned(c, pools[c][s], pools'[c][s], 0, 0)
        /\ Reckoned(c, pools[c][b[2]], pools'[c][b[2]], n, m)
     \/ n = 0 /\ m = 0 /\ pools'[c] = pools[c]

Turn(c) == Quiet(c) \/ PoolsRead(c) \/ \E b \in Backers[c], n \in Int, m \in Int : Moved(c, b, n, m)

-----------------------------------------------------------------------------
LEMMA Bricks ==
  /\ \A c \in Claims : \A b \in Backers[c] : b = <<b[1], b[2]>> /\ b[1] \in Users /\ b[2] \in Sides
  /\ Amounts \subseteq Nat \ {0} /\ Bps \in Nat \ {0} /\ Unit \in Nat \ {0} /\ Window \in Nat \ {0}
  /\ TierBps \in Nat /\ Grants \subseteq Nat /\ AnswerSides \subseteq Sides /\ Answerers \subseteq Users
  BY StakesAssumption

LEMMA PoolFields ==
  ASSUME NEW q \in PoolRec
  PROVE  Account(q)
  BY DEF PoolRec, Account

LEMMA PosFields ==
  ASSUME NEW q \in PosRec
  PROVE  Account(q)
  BY DEF PosRec, Account

(* A pool settles as a position does.                                      *)
LEMMA PoolSettledIs ==
  ASSUME NEW c \in Claims, NEW q \in PoolRec, ClockTyped, FreezePast
  PROVE  /\ Settled(c, q) \in PoolRec
         /\ Settled(c, q).stake = q.stake
         /\ Settled(c, q).acc = RateAcc(c) /\ Settled(c, q).rawAt = RawNow(c)
         /\ Settled(c, q).conv = q.conv + q.stake * (RateAcc(c) - q.acc)
         /\ Settled(c, q).raw = q.raw + q.stake * (RawNow(c) - q.rawAt)
<1> DEFINE A == RateAcc(c)
            R == RawNow(c)
            C == q.conv + q.stake * (A - q.acc)
            W == q.raw + q.stake * (R - q.rawAt)
<1>1. A \in Int /\ R \in Int
  BY ReadsTyped
<1>2. q.stake \in Int /\ q.conv \in Int /\ q.acc \in Int /\ q.raw \in Int /\ q.rawAt \in Int
  BY DEF PoolRec
<1>3. C \in Int /\ W \in Int
  BY <1>1, <1>2
<1>4. Settled(c, q) = [q EXCEPT !.conv = C, !.acc = A, !.raw = W, !.rawAt = R]
  BY DEF Settled, PoolRec
<1> HIDE DEF A, R, C, W
<1>5. /\ Settled(c, q) \in PoolRec
      /\ Settled(c, q).stake = q.stake
      /\ Settled(c, q).acc = A /\ Settled(c, q).rawAt = R
      /\ Settled(c, q).conv = C /\ Settled(c, q).raw = W
  BY <1>1, <1>2, <1>3, <1>4 DEF PoolRec
<1> QED
  BY <1>5 DEF A, R, C, W

(* What is settled and then changed by n and m, of a typed account.        *)
LEMMA PoolReckoned ==
  ASSUME NEW c \in Claims, NEW q \in PoolRec, ClockTyped, FreezePast, NEW n \in Int, NEW m \in Int,
         NEW z, Reckoned(c, q, z, n, m)
  PROVE  /\ Account(z) /\ z.stake = q.stake + n
         /\ Due(z) = Due(q) + m - n * RateAcc(c) /\ Old(z) = Old(q) - n * RawNow(c)
         /\ z.conv = Due(q) + q.stake * RateAcc(c) + m /\ z.acc = RateAcc(c) /\ z.rawAt = RawNow(c)
<1> DEFINE A == RateAcc(c)
           R == RawNow(c)
<1>1. A \in Int /\ R \in Int /\ Account(q)
  BY ReadsTyped, PoolFields
<1>2. /\ z.stake = q.stake + n /\ z.acc = A /\ z.rawAt = R
      /\ z.conv = q.conv + q.stake * (A - q.acc) + m
      /\ z.raw = q.raw + q.stake * (R - q.rawAt)
  BY PoolSettledIs DEF Reckoned
<1> HIDE DEF A, R
<1>3. /\ Account(z)
      /\ Due(z) = Due(q) + m - n * A /\ Old(z) = Old(q) - n * R
      /\ z.conv = Due(q) + q.stake * A + m
  BY <1>1, <1>2, ReckonedIs
<1> QED
  BY <1>2, <1>3 DEF A, R

LEMMA PosReckoned ==
  ASSUME NEW c \in Claims, NEW q \in PosRec, ClockTyped, FreezePast, NEW n \in Int, NEW m \in Int,
         NEW z, Reckoned(c, q, z, n, m)
  PROVE  /\ Account(z) /\ z.stake = q.stake + n
         /\ Due(z) = Due(q) + m - n * RateAcc(c) /\ Old(z) = Old(q) - n * RawNow(c)
         /\ z.conv = Due(q) + q.stake * RateAcc(c) + m /\ z.acc = RateAcc(c) /\ z.rawAt = RawNow(c)
<1> DEFINE A == RateAcc(c)
           R == RawNow(c)
<1>1. A \in Int /\ R \in Int /\ Account(q)
  BY ReadsTyped, PosFields
<1>2. /\ z.stake = q.stake + n /\ z.acc = A /\ z.rawAt = R
      /\ z.conv = q.conv + q.stake * (A - q.acc) + m
      /\ z.raw = q.raw + q.stake * (R - q.rawAt)
  BY SettledIs DEF Reckoned
<1> HIDE DEF A, R
<1>3. /\ Account(z)
      /\ Due(z) = Due(q) + m - n * A /\ Old(z) = Old(q) - n * R
      /\ z.conv = Due(q) + q.stake * A + m
  BY <1>1, <1>2, ReckonedIs
<1> QED
  BY <1>2, <1>3 DEF A, R

(* A ripe position settles to one with no less credit and history.         *)
LEMMA RipeSettled ==
  ASSUME NEW c \in Claims, NEW p \in PosRec, ClockTyped, FreezePast, Ripe(c, p)
  PROVE  /\ Settled(c, p).stake \in Nat /\ Settled(c, p).conv \in Nat /\ Settled(c, p).raw \in Nat
         /\ Settled(c, p).conv >= p.conv /\ Settled(c, p).raw >= p.raw
         /\ Settled(c, p).conv = Due(p) + p.stake * RateAcc(c)
<1> DEFINE A == RateAcc(c)
           R == RawNow(c)
           s == p.stake
           v == p.conv
           a == p.acc
           r == p.raw
           t == p.rawAt
<1>1. A \in Int /\ R \in Int
  BY ReadsTyped
<1>2. s \in Nat /\ v \in Nat /\ a \in Int /\ r \in Nat /\ t \in Int /\ A - a \in Nat /\ R - t \in Nat
  BY <1>1 DEF PosRec, Ripe
<1>3. Settled(c, p).stake = s /\ Settled(c, p).conv = v + s * (A - a) /\ Settled(c, p).raw = r + s * (R - t)
  BY SettledIs
<1>4. v + s * (A - a) = Due(p) + s * A
  BY <1>1, AccountIs, PosFields
<1> HIDE DEF A, R, s, v, a, r, t
<1> DEFINE x == A - a
           y == R - t
<1>5. s * x \in Nat /\ s * y \in Nat
  <2>1. s \in Nat /\ x \in Nat /\ y \in Nat
    BY <1>2
  <2> HIDE DEF x, y
  <2> QED
    BY <2>1
<1> HIDE DEF x, y
<1>6. v + s * x \in Nat /\ r + s * y \in Nat /\ v + s * x >= v /\ r + s * y >= r
  BY <1>2, <1>5
<1>7. Settled(c, p).stake \in Nat /\ Settled(c, p).conv = v + s * x /\ Settled(c, p).raw = r + s * y
  BY <1>2, <1>3 DEF x, y
<1>8. Settled(c, p).conv = Due(p) + s * A
  BY <1>3, <1>4
<1> QED
  BY <1>6, <1>7, <1>8 DEF A, s, v, r

-----------------------------------------------------------------------------
(* 3. Steps as turns of a claim.                                           *)

LEMMA OnwardSame ==
  ASSUME IInv, NEW c \in Claims, SameFreeze(c), ClockTyped', now <= now', acc <= acc'
  PROVE  Onward(c)
<1>1. now \in Nat /\ acc \in Nat /\ now' \in Nat /\ acc' \in Nat
      /\ claims[c].frozenAt \in Nat /\ claims[c].accAtFreeze \in Nat
  BY DEF IInv, ClockTyped, FreezePast
<1> QED
  BY <1>1 DEF Onward, SameFreeze, RateAcc, RawNow, Frozen, Lesser

LEMMA OnwardAnswered ==
  ASSUME IInv, NEW c \in Claims, ~Frozen(c), claims'[c].frozenAt = now, claims'[c].accAtFreeze = acc,
         now' = now, acc' = acc
  PROVE  Onward(c)
<1>1. now \in Nat \ {0} /\ acc \in Nat
  BY DEF IInv, ClockTyped
<1> QED
  BY <1>1 DEF Onward, RateAcc, RawNow, Frozen, Lesser

(* A step that leaves all positions and pools alone.                       *)
LEMMA QuietTurns ==
  ASSUME PoolsTyped, UNCHANGED <<pos, pools>>
  PROVE  PoolsTyped' /\ \A c \in Claims : Turn(c)
  BY DEF PoolsTyped, Turn, Quiet

(* A step that settles the pools of one claim.                             *)
LEMMA ReadTurns ==
  ASSUME IInv, PoolsTyped, NEW c \in Claims, pos' = pos, pools' = [pools EXCEPT ![c] = Advanced(c)]
  PROVE  PoolsTyped' /\ \A d \in Claims : Turn(d)
<1>1. ASSUME NEW s \in Sides
      PROVE  Advanced(c)[s] \in PoolRec /\ Reckoned(c, pools[c][s], Advanced(c)[s], 0, 0)
  <2>1. pools[c][s] \in PoolRec
    BY DEF PoolsTyped
  <2>2. Settled(c, pools[c][s]) \in PoolRec
        /\ Settled(c, pools[c][s]).stake = pools[c][s].stake
        /\ Settled(c, pools[c][s]).acc = RateAcc(c) /\ Settled(c, pools[c][s]).rawAt = RawNow(c)
    BY <2>1, PoolSettledIs DEF IInv
  <2>3. Advanced(c)[s] = Settled(c, pools[c][s])
    BY DEF Advanced
  <2>4. pools[c][s].stake \in Int /\ Settled(c, pools[c][s]).conv \in Int
    BY <2>1, <2>2 DEF PoolRec
  <2> DEFINE z == Settled(c, pools[c][s])
  <2>5. z.stake = pools[c][s].stake + 0 /\ z.conv = z.conv + 0
    BY <2>2, <2>4
  <2> QED
    BY <2>2, <2>3, <2>5 DEF Reckoned
<1>2. Advanced(c) \in [Sides -> PoolRec]
  <2>1. DOMAIN Advanced(c) = Sides /\ Advanced(c) = [s \in Sides |-> Advanced(c)[s]]
    BY DEF Advanced
  <2> HIDE DEF Advanced
  <2> QED
    BY <1>1, <2>1
<1>3. PoolsTyped'
  BY <1>2 DEF PoolsTyped
<1>4. pools'[c] = Advanced(c) /\ \A d \in Claims \ {c} : pools'[d] = pools[d]
  BY DEF PoolsTyped
<1>5. Turn(c)
  BY <1>1, <1>4 DEF Turn, PoolsRead
<1>6. \A d \in Claims \ {c} : Turn(d)
  BY <1>4 DEF Turn, Quiet
<1> QED
  BY <1>3, <1>5, <1>6

(* A step that rewrites one position and perhaps its pool.                 *)
LEMMA MovedTurns ==
  ASSUME IInv, PoolsTyped, NEW c \in Claims, NEW b \in Backers[c], NEW n, n \in Int, NEW m, m \in Int,
         NEW q, pos' = [pos EXCEPT ![c][b] = q], Reckoned(c, pos[c][b], q, n, m),
         q.stake >= 0, q.conv >= 0, ~Frozen(c) => Due(q) <= 0, Frozen(c) => m = 0 /\ n <= 0,
         NEW ps \in [Sides -> PoolRec], pools' = [pools EXCEPT ![c] = ps],
         \/ /\ \A s \in Sides \ {b[2]} : Reckoned(c, pools[c][s], ps[s], 0, 0)
            /\ Reckoned(c, pools[c][b[2]], ps[b[2]], n, m)
         \/ n = 0 /\ m = 0 /\ ps = pools[c]
  PROVE  PoolsTyped' /\ \A d \in Claims : Turn(d)
<1>1. PoolsTyped'
  BY DEF PoolsTyped
<1>2. pools'[c] = ps /\ \A d \in Claims \ {c} : pools'[d] = pools[d]
  BY DEF PoolsTyped
<1>3. /\ \A d \in Claims \ {c} : pos'[d] = pos[d]
      /\ pos'[c][b] = q /\ \A e \in Backers[c] \ {b} : pos'[c][e] = pos[c][e]
  BY DEF IInv, PositionsTyped
<1>4. Moved(c, b, n, m)
  BY <1>2, <1>3 DEF Moved
<1>5. Turn(c)
  BY <1>4 DEF Turn
<1>6. \A d \in Claims \ {c} : Turn(d)
  BY <1>2, <1>3 DEF Turn, Quiet
<1> QED
  BY <1>1, <1>5, <1>6

(* A pool settled, with one side then changed.                             *)
LEMMA AdvancedChanged ==
  ASSUME IInv, PoolsTyped, NEW c \in Claims, NEW t \in Sides, NEW n \in Int, NEW m \in Int,
         NEW x, x = [Settled(c, pools[c][t]) EXCEPT !.stake = pools[c][t].stake + n,
                                                    !.conv = Settled(c, pools[c][t]).conv + m]
  PROVE  LET ps == [Advanced(c) EXCEPT ![t] = x] IN
         /\ ps \in [Sides -> PoolRec]
         /\ \A s \in Sides \ {t} : Reckoned(c, pools[c][s], ps[s], 0, 0)
         /\ Reckoned(c, pools[c][t], ps[t], n, m)
<1> DEFINE ps == [Advanced(c) EXCEPT ![t] = x]
<1>1. ASSUME NEW s \in Sides
      PROVE  /\ Settled(c, pools[c][s]) \in PoolRec
             /\ Settled(c, pools[c][s]).stake = pools[c][s].stake
             /\ Settled(c, pools[c][s]).acc = RateAcc(c) /\ Settled(c, pools[c][s]).rawAt = RawNow(c)
             /\ Advanced(c)[s] = Settled(c, pools[c][s]) /\ pools[c][s] \in PoolRec
  <2>1. pools[c][s] \in PoolRec
    BY DEF PoolsTyped
  <2> QED
    BY <2>1, PoolSettledIs DEF IInv, Advanced
<1>2. DOMAIN Advanced(c) = Sides
  BY DEF Advanced
<1> DEFINE z == Settled(c, pools[c][t])
           w == pools[c][t].stake
<1>3. z \in PoolRec /\ z.stake = w /\ z.acc = RateAcc(c) /\ z.rawAt = RawNow(c) /\ w \in Int
  BY <1>1 DEF PoolRec
<1>4. x = [z EXCEPT !.stake = w + n, !.conv = z.conv + m]
  OBVIOUS
<1> HIDE DEF z, w
<1>5. z.conv + m \in Int /\ w + n \in Int
  BY <1>3 DEF PoolRec
<1> DEFINE i == w + n
           j == z.conv + m
<1>6. i \in Int /\ j \in Int /\ x = [z EXCEPT !.stake = i, !.conv = j]
  BY <1>4, <1>5
<1> HIDE DEF i, j
<1>7. x \in PoolRec /\ x.stake = i /\ x.conv = j /\ x.raw = z.raw /\ x.acc = z.acc /\ x.rawAt = z.rawAt
  BY <1>3, <1>6 DEF PoolRec
<1>8. Reckoned(c, pools[c][t], x, n, m)
  BY <1>3, <1>7 DEF Reckoned, i, j, z, w
<1>9. ps[t] = x /\ DOMAIN ps = Sides /\ \A s \in Sides \ {t} : ps[s] = Settled(c, pools[c][s])
  BY <1>1, <1>2
<1>10. ps = [s \in Sides |-> ps[s]]
  BY <1>9
<1> HIDE DEF ps
<1>11. \A s \in Sides : ps[s] \in PoolRec
  BY <1>1, <1>7, <1>9
<1>12. ASSUME NEW s \in Sides \ {t} PROVE Reckoned(c, pools[c][s], ps[s], 0, 0)
  <2> DEFINE y == Settled(c, pools[c][s])
  <2>1. y.stake \in Int /\ y.conv \in Int /\ y.stake = pools[c][s].stake /\ y.acc = RateAcc(c) /\ y.rawAt = RawNow(c)
    BY <1>1 DEF PoolRec
  <2>2. y.stake = pools[c][s].stake + 0 /\ y.conv = y.conv + 0
    BY <2>1
  <2> QED
    BY <1>9, <2>1, <2>2 DEF Reckoned
<1> QED
  BY <1>8, <1>9, <1>10, <1>11, <1>12 DEF ps

-----------------------------------------------------------------------------
(* 4. Staking and unstaking.                                               *)

(* What every lemma of a step starts from.                                 *)
Base0 == IInv /\ PoolsTyped /\ PositionsRipe /\ ClaimsSound

LEMMA RateIsNat ==
  ASSUME IInv, NEW c \in Claims
  PROVE  RateAcc(c) \in Nat /\ RawNow(c) \in Nat
  BY DEF IInv, ClockTyped, FreezePast, Frozen, RateAcc, RawNow, Lesser

LEMMA StakeTurns ==
  ASSUME Base0, NEW c \in Claims, NEW b \in Backers[c], NEW n \in Amounts, Stake(c, b[1], b[2], n)
  PROVE  PoolsTyped' /\ \A d \in Claims : Turn(d)
<1> DEFINE p == Settled(c, pos[c][b])
           q == [p EXCEPT !.stake = @ + n]
           t == b[2]
           x == [Settled(c, pools[c][t]) EXCEPT !.stake = pools[c][t].stake + n,
                                                !.conv = Settled(c, pools[c][t]).conv + 0]
           ps == [Advanced(c) EXCEPT ![t] = x]
<1>1. b = <<b[1], t>> /\ t \in Sides /\ n \in Nat /\ n \in Int /\ 0 \in Int
  BY Bricks
<1>2. pos[c][b] \in PosRec /\ Ripe(c, pos[c][b]) /\ pools[c][t] \in PoolRec
  BY <1>1 DEF Base0, IInv, PositionsTyped, PositionsRipe, PoolsTyped
<1>3. ~Frozen(c)
  BY DEF Stake
<1>4. pos' = [pos EXCEPT ![c][b] = q]
  BY <1>1 DEF Stake
<1>5. pools' = [pools EXCEPT ![c] = ps]
  <2>1. pools' = [pools EXCEPT ![c] = [Advanced(c) EXCEPT ![t].stake = @ + n]]
    BY DEF Stake
  <2>2. Advanced(c)[t] = Settled(c, pools[c][t])
    BY <1>1 DEF Advanced
  <2> DEFINE z == Settled(c, pools[c][t])
  <2>3. z \in PoolRec /\ z.stake = pools[c][t].stake
    BY <1>2, PoolSettledIs DEF Base0, IInv
  <2>4. [Advanced(c) EXCEPT ![t].stake = @ + n] = [Advanced(c) EXCEPT ![t] = [z EXCEPT !.stake = z.stake + n]]
    BY <2>2
  <2> HIDE DEF z
  <2>5. [z EXCEPT !.stake = z.stake + n] = [z EXCEPT !.stake = z.stake + n, !.conv = z.conv + 0]
    <3>1. z.conv + 0 = z.conv
      BY <2>3 DEF PoolRec
    <3>2. [z EXCEPT !.stake = z.stake + n] = [z EXCEPT !.stake = z.stake + n, !.conv = z.conv]
      BY <2>3 DEF PoolRec
    <3> QED
      BY <3>1, <3>2
  <2>6. x = [z EXCEPT !.stake = z.stake + n, !.conv = z.conv + 0]
    BY <2>3 DEF z
  <2> QED
    BY <2>1, <2>4, <2>5, <2>6
<1>6. /\ ps \in [Sides -> PoolRec]
      /\ \A s \in Sides \ {t} : Reckoned(c, pools[c][s], ps[s], 0, 0)
      /\ Reckoned(c, pools[c][t], ps[t], n, 0)
  <2> HIDE DEF t
  <2> QED
    BY <1>1, AdvancedChanged DEF Base0
<1>7. p \in PosRec /\ p.stake \in Nat /\ p.conv \in Nat /\ p.acc = RateAcc(c) /\ p.rawAt = RawNow(c)
      /\ p.stake = pos[c][b].stake
  BY <1>2, RipeSettled, SettledIs DEF Base0, IInv
<1>8. Reckoned(c, pos[c][b], q, n, 0) /\ q.stake >= 0 /\ q.conv >= 0
  <2> DEFINE y == pos[c][b]
  <2>1. p = Settled(c, y) /\ p.stake = y.stake /\ p.conv + 0 = p.conv
    BY <1>7
  <2> HIDE DEF p, y
  <2>2. q.stake = p.stake + n /\ q.conv = p.conv /\ q.raw = p.raw /\ q.acc = p.acc /\ q.rawAt = p.rawAt
    BY <1>7 DEF PosRec
  <2>3. Reckoned(c, y, q, n, 0)
    BY <1>7, <2>1, <2>2 DEF Reckoned
  <2> QED
    BY <1>1, <1>7, <2>2, <2>3 DEF y
<1>9. Due(q) <= 0
  <2> HIDE DEF q
  <2>1. Due(q) = Due(pos[c][b]) + 0 - n * RateAcc(c) /\ Due(pos[c][b]) \in Int
    BY <1>1, <1>2, <1>8, PosReckoned, PosFields, AccountIs DEF Base0, IInv
  <2>2. Due(pos[c][b]) <= 0
    BY <1>2, <1>3 DEF Ripe
  <2> DEFINE A == RateAcc(c)
             u == Due(pos[c][b])
  <2>3. A \in Nat
    BY RateIsNat DEF Base0
  <2> HIDE DEF A, u
  <2>4. n * A \in Nat
    BY <1>1, <2>3
  <2>5. u + 0 - n * A <= 0
    BY <2>1, <2>2, <2>4 DEF u
  <2> QED
    BY <2>1, <2>5 DEF A, u
<1> HIDE DEF p, q, ps, x
<1>10. IInv /\ PoolsTyped
  BY DEF Base0
<1> QED
  BY <1>1, <1>3, <1>4, <1>5, <1>6, <1>8, <1>9, <1>10, MovedTurns

(* What is left of the credit is no more than what the coin left earned.   *)
LEMMA KeptBound ==
  ASSUME NEW v, NEW s, NEW n, NEW A, v \in Nat, s \in Nat, n \in Nat \ {0}, A \in Nat, n <= s, v <= s * A
  PROVE  (v \div s) * (s - n) \in Nat /\ (v \div s) * (s - n) - (s - n) * A <= 0
         /\ (v \div s) * (s - n) <= v
<1> DEFINE d == v \div s
           r == s - n
<1>1. d \in Nat /\ d * s <= v /\ r \in Nat /\ s \in Nat \ {0} /\ r <= s
  OBVIOUS
<1> HIDE DEF d, r
<1>2. d <= A
  <2> SUFFICES ASSUME d >= A + 1 PROVE FALSE
    BY <1>1
  <2>1. d * s >= (A + 1) * s
    BY <1>1
  <2>2. (A + 1) * s = s * A + s
    BY <1>1
  <2>3. s * A \in Nat /\ d * s \in Nat
    BY <1>1
  <2> QED
    BY <1>1, <2>1, <2>2, <2>3
<1>3. d * r \in Nat /\ r * A \in Nat /\ d * r <= A * r /\ A * r = r * A
  BY <1>1, <1>2
<1>4. d * r <= d * s /\ d * s \in Nat
  BY <1>1
<1>5. d * r - r * A <= 0 /\ d * r <= v
  BY <1>1, <1>3, <1>4
<1> QED
  BY <1>3, <1>5 DEF d, r

LEMMA UnstakeTurns ==
  ASSUME Base0, NEW c \in Claims, NEW b \in Backers[c], NEW n \in Amounts, Unstake(c, b[1], b[2], n)
  PROVE  PoolsTyped' /\ \A d \in Claims : Turn(d)
<1> DEFINE p == Settled(c, pos[c][b])
           f == Forfeit(p, n)
           q == [p EXCEPT !.stake = @ - n, !.conv = Kept(p, n)]
           t == b[2]
           x == [Settled(c, pools[c][t]) EXCEPT !.stake = pools[c][t].stake + (-n),
                                                !.conv = Settled(c, pools[c][t]).conv + (-f)]
           ps == [Advanced(c) EXCEPT ![t] = x]
<1>1. b = <<b[1], t>> /\ t \in Sides /\ n \in Nat \ {0} /\ -n \in Int
  BY Bricks
<1>2. pos[c][b] \in PosRec /\ Ripe(c, pos[c][b]) /\ pools[c][t] \in PoolRec
  BY <1>1 DEF Base0, IInv, PositionsTyped, PositionsRipe, PoolsTyped
<1>3. ~Frozen(c) /\ p.stake >= n
  BY <1>1 DEF Unstake
<1>4. pos' = [pos EXCEPT ![c][b] = q]
  BY <1>1 DEF Unstake
<1>7. p \in PosRec /\ p.stake \in Nat /\ p.conv \in Nat /\ p.acc = RateAcc(c) /\ p.rawAt = RawNow(c)
      /\ p.stake = pos[c][b].stake /\ p.conv = Due(pos[c][b]) + pos[c][b].stake * RateAcc(c)
  BY <1>2, RipeSettled, SettledIs DEF Base0, IInv
<1>9. RateAcc(c) \in Nat
  BY RateIsNat DEF Base0
<1>10. p.conv <= p.stake * RateAcc(c)
  <2>1. Due(pos[c][b]) <= 0 /\ Due(pos[c][b]) \in Int
    BY <1>2, <1>3, PosFields, AccountIs DEF Ripe
  <2> DEFINE u == Due(pos[c][b])
             A == RateAcc(c)
             s == p.stake
  <2>2. p.conv = u + s * A
    BY <1>7
  <2>3. u \in Int /\ u <= 0 /\ s \in Nat /\ A \in Nat
    BY <2>1, <1>7, <1>9
  <2> HIDE DEF u, A, s
  <2>4. s * A \in Nat
    BY <2>3
  <2>5. u + s * A <= s * A
    BY <2>3, <2>4
  <2> QED
    BY <2>2, <2>5 DEF s, A
<1>11. Kept(p, n) \in Nat /\ Kept(p, n) - (p.stake - n) * RateAcc(c) <= 0
  <2> DEFINE v == p.conv
             s == p.stake
             A == RateAcc(c)
  <2>1. v \in Nat /\ s \in Nat /\ n \in Nat \ {0} /\ A \in Nat /\ n <= s /\ v <= s * A
    BY <1>1, <1>3, <1>7, <1>9, <1>10
  <2>2. Kept(p, n) = (v \div s) * (s - n)
    BY DEF Kept
  <2> HIDE DEF v, s, A
  <2>3. (v \div s) * (s - n) \in Nat /\ (v \div s) * (s - n) - (s - n) * A <= 0
    BY <2>1, KeptBound
  <2> QED
    BY <2>2, <2>3 DEF s, A
<1>12. f \in Int /\ -f \in Int /\ p.conv + (-f) = Kept(p, n)
  <2>1. f = p.conv - Kept(p, n) /\ p.conv \in Nat /\ Kept(p, n) \in Nat
    BY <1>7, <1>11 DEF Forfeit
  <2> DEFINE v == p.conv
             k == Kept(p, n)
  <2>2. f = v - k /\ v \in Nat /\ k \in Nat
    BY <2>1
  <2> HIDE DEF v, k, f
  <2>3. f \in Int /\ -f \in Int /\ v + (-f) = k
    BY <2>2
  <2> QED
    BY <2>3 DEF v, k
<1> HIDE DEF f
<1>5. pools' = [pools EXCEPT ![c] = ps]
  <2>1. pools' = [pools EXCEPT ![c] = [Advanced(c) EXCEPT ![t].stake = @ - n, ![t].conv = @ - f]]
    BY <1>1 DEF Unstake, f
  <2>2. Advanced(c)[t] = Settled(c, pools[c][t]) /\ DOMAIN Advanced(c) = Sides
    BY <1>1 DEF Advanced
  <2> DEFINE z == Settled(c, pools[c][t])
             F == Advanced(c)
  <2>3. z \in PoolRec /\ z.stake = pools[c][t].stake
    BY <1>2, PoolSettledIs DEF Base0, IInv
  <2>4. F[t] = z /\ DOMAIN F = Sides /\ t \in Sides
    BY <1>1, <2>2
  <2>5. x = [z EXCEPT !.stake = z.stake + (-n), !.conv = z.conv + (-f)]
    BY <2>3
  <2>6. z.stake \in Int /\ z.conv \in Int
    BY <2>3 DEF PoolRec
  <2> HIDE DEF z, F, x, t
  <2>7. z.stake - n = z.stake + (-n) /\ z.conv - f = z.conv + (-f)
    BY <1>1, <1>12, <2>6
  <2>8. [z EXCEPT !.stake = z.stake - n, !.conv = z.conv - f] = x
    BY <2>5, <2>7
  <2>9. [F EXCEPT ![t].stake = @ - n, ![t].conv = @ - f] =
          [F EXCEPT ![t] = [z EXCEPT !.stake = z.stake - n, !.conv = z.conv - f]]
    BY <2>3, <2>4 DEF PoolRec
  <2> QED
    BY <2>1, <2>8, <2>9 DEF F
<1>6. /\ ps \in [Sides -> PoolRec]
      /\ \A s \in Sides \ {t} : Reckoned(c, pools[c][s], ps[s], 0, 0)
      /\ Reckoned(c, pools[c][t], ps[t], -n, -f)
  <2> HIDE DEF t
  <2> QED
    BY <1>1, <1>12, AdvancedChanged DEF Base0
<1>8. Reckoned(c, pos[c][b], q, -n, -f) /\ q.stake >= 0 /\ q.conv >= 0
      /\ q.stake = p.stake - n /\ q.conv = Kept(p, n) /\ q.acc = RateAcc(c)
  <2> DEFINE y == pos[c][b]
             k == Kept(p, n)
  <2>1. p = Settled(c, y) /\ p.stake = y.stake /\ p.conv + (-f) = k /\ k \in Nat
    BY <1>7, <1>11, <1>12
  <2> HIDE DEF p, y, k
  <2>2. q.stake = p.stake - n /\ q.conv = k /\ q.raw = p.raw /\ q.acc = p.acc /\ q.rawAt = p.rawAt
    BY <1>7 DEF PosRec, k
  <2>3. p.stake - n = p.stake + (-n) /\ p.stake - n >= 0
    BY <1>1, <1>3, <1>7
  <2>4. Reckoned(c, y, q, -n, -f)
    BY <1>7, <2>1, <2>2, <2>3 DEF Reckoned
  <2> QED
    BY <1>7, <2>1, <2>2, <2>3, <2>4 DEF y, k
<1>13. Due(q) <= 0
  BY <1>8, <1>11 DEF Due
<1> HIDE DEF p, q, ps, x, t
<1>14. IInv /\ PoolsTyped
  BY DEF Base0
<1> QED
  BY <1>1, <1>3, <1>4, <1>5, <1>6, <1>8, <1>12, <1>13, <1>14, MovedTurns DEF t

-----------------------------------------------------------------------------
(* 5. Withdrawals; every step is a turn of every claim.                    *)

LEMMA WithdrawTurns ==
  ASSUME Base0, NEW c \in Claims, NEW b \in Backers[c], WithdrawStake(c, b[1], b[2])
  PROVE  PoolsTyped' /\ \A d \in Claims : Turn(d)
<1> DEFINE p == Settled(c, pos[c][b])
           n == p.stake
           q == [p EXCEPT !.stake = 0]
           t == b[2]
           x == [Settled(c, pools[c][t]) EXCEPT !.stake = pools[c][t].stake + (-n),
                                                !.conv = Settled(c, pools[c][t]).conv + 0]
           ps == [Advanced(c) EXCEPT ![t] = x]
<1>1. b = <<b[1], t>> /\ t \in Sides /\ 0 \in Int
  BY Bricks
<1>2. pos[c][b] \in PosRec /\ Ripe(c, pos[c][b]) /\ pools[c][t] \in PoolRec
  BY <1>1 DEF Base0, IInv, PositionsTyped, PositionsRipe, PoolsTyped
<1>3. Frozen(c)
  BY DEF WithdrawStake, Base0, ClaimsSound, Sound, Frozen
<1>4. pos' = [pos EXCEPT ![c][b] = q]
  BY <1>1 DEF WithdrawStake
<1>7. p \in PosRec /\ p.stake \in Nat /\ p.conv \in Nat /\ p.acc = RateAcc(c) /\ p.rawAt = RawNow(c)
      /\ p.stake = pos[c][b].stake
  BY <1>2, RipeSettled, SettledIs DEF Base0, IInv
<1>8. n \in Nat /\ -n \in Int /\ -n <= 0
  BY <1>7
<1>5. pools' = [pools EXCEPT ![c] = ps]
  <2>1. pools' = [pools EXCEPT ![c] = [Advanced(c) EXCEPT ![t].stake = @ - n]]
    BY <1>1 DEF WithdrawStake
  <2>2. Advanced(c)[t] = Settled(c, pools[c][t])
    BY <1>1 DEF Advanced
  <2> DEFINE z == Settled(c, pools[c][t])
  <2>3. z \in PoolRec /\ z.stake = pools[c][t].stake
    BY <1>2, PoolSettledIs DEF Base0, IInv
  <2> HIDE DEF n
  <2>4. [Advanced(c) EXCEPT ![t].stake = @ - n] = [Advanced(c) EXCEPT ![t] = [z EXCEPT !.stake = z.stake - n]]
    BY <2>2
  <2>5. x = [z EXCEPT !.stake = z.stake + (-n), !.conv = z.conv + 0]
    BY <2>3
  <2> HIDE DEF z, x
  <2>6. z.conv + 0 = z.conv /\ z.stake - n = z.stake + (-n)
    BY <1>8, <2>3 DEF PoolRec
  <2>7. [z EXCEPT !.stake = z.stake - n] = [z EXCEPT !.stake = z.stake - n, !.conv = z.conv]
    BY <2>3 DEF PoolRec
  <2> QED
    BY <2>1, <2>4, <2>5, <2>6, <2>7
<1>6. /\ ps \in [Sides -> PoolRec]
      /\ \A s \in Sides \ {t} : Reckoned(c, pools[c][s], ps[s], 0, 0)
      /\ Reckoned(c, pools[c][t], ps[t], -n, 0)
  <2> HIDE DEF t, n
  <2> QED
    BY <1>1, <1>8, AdvancedChanged DEF Base0
<1>9. Reckoned(c, pos[c][b], q, -n, 0) /\ q.stake >= 0 /\ q.conv >= 0
  <2> DEFINE y == pos[c][b]
  <2>1. p = Settled(c, y) /\ p.stake = y.stake /\ p.conv + 0 = p.conv /\ y.stake + (-n) = 0
    BY <1>7
  <2> HIDE DEF p, y, n
  <2>2. q.stake = 0 /\ q.conv = p.conv /\ q.raw = p.raw /\ q.acc = p.acc /\ q.rawAt = p.rawAt
    BY <1>7 DEF PosRec
  <2>3. Reckoned(c, y, q, -n, 0)
    BY <1>7, <2>1, <2>2 DEF Reckoned
  <2> QED
    BY <1>7, <2>2, <2>3 DEF y
<1> HIDE DEF p, q, ps, x, n
<1>10. IInv /\ PoolsTyped
  BY DEF Base0
<1> QED
  BY <1>1, <1>3, <1>4, <1>5, <1>6, <1>8, <1>9, <1>10, MovedTurns

LEMMA BonusTurns ==
  ASSUME Base0, NEW c \in Claims, NEW b \in Backers[c], WithdrawBonus(c, b[1], b[2])
  PROVE  PoolsTyped' /\ \A d \in Claims : Turn(d)
<1> DEFINE p == Settled(c, pos[c][b])
           q == [p EXCEPT !.paid = TRUE]
           ps == pools[c]
           n == 0
<1>1. b = <<b[1], b[2]>> /\ 0 \in Int
  BY Bricks
<1>2. pos[c][b] \in PosRec /\ Ripe(c, pos[c][b]) /\ ps \in [Sides -> PoolRec]
  BY DEF Base0, IInv, PositionsTyped, PositionsRipe, PoolsTyped
<1>3. Frozen(c)
  BY DEF WithdrawBonus, Base0, ClaimsSound, Sound, Frozen
<1>4. pos' = [pos EXCEPT ![c][b] = q] /\ pools' = pools
  BY <1>1 DEF WithdrawBonus
<1>5. pools' = [pools EXCEPT ![c] = ps]
  BY <1>4 DEF Base0, PoolsTyped
<1>7. p \in PosRec /\ p.stake \in Nat /\ p.conv \in Nat /\ p.acc = RateAcc(c) /\ p.rawAt = RawNow(c)
      /\ p.stake = pos[c][b].stake
  BY <1>2, RipeSettled, SettledIs DEF Base0, IInv
<1>9. Reckoned(c, pos[c][b], q, n, n) /\ q.stake >= 0 /\ q.conv >= 0
  <2> DEFINE y == pos[c][b]
  <2>1. p = Settled(c, y) /\ p.stake = y.stake + 0 /\ p.conv + 0 = p.conv
    BY <1>7
  <2> HIDE DEF p, y
  <2>2. q.stake = p.stake /\ q.conv = p.conv /\ q.raw = p.raw /\ q.acc = p.acc /\ q.rawAt = p.rawAt
    BY <1>7 DEF PosRec
  <2>3. Reckoned(c, y, q, 0, 0)
    BY <1>7, <2>1, <2>2 DEF Reckoned
  <2> QED
    BY <1>7, <2>2, <2>3 DEF y
<1> HIDE DEF p, q, ps
<1>10. IInv /\ PoolsTyped /\ ps = pools[c]
  BY DEF Base0, ps
<1>11. n \in Int /\ n = 0 /\ (~Frozen(c) => Due(q) <= 0) /\ (Frozen(c) => n = 0 /\ n <= 0)
  BY <1>3
<1> HIDE DEF n
<1> QED
  BY <1>2, <1>4, <1>5, <1>9, <1>10, <1>11, MovedTurns

(* Every step leaves the claims' clocks running forward, and is a turn of  *)
(* each claim.                                                             *)
LEMMA StepTurns ==
  ASSUME Base0, [Next]_vars
  PROVE  PoolsTyped' /\ \A c \in Claims : Turn(c)
<1>0. IInv /\ PoolsTyped
  BY DEF Base0
<1>1. ASSUME NEW rate \in Rates[now], Tick(rate)
      PROVE  PoolsTyped' /\ \A c \in Claims : Turn(c)
  BY <1>0, <1>1, QuietTurns DEF Tick
<1>2. ASSUME NEW c \in Claims, NEW b \in Backers[c], NEW n \in Amounts, Stake(c, b[1], b[2], n)
      PROVE  PoolsTyped' /\ \A d \in Claims : Turn(d)
  BY <1>2, StakeTurns
<1>3. ASSUME NEW c \in Claims, NEW b \in Backers[c], NEW n \in Amounts, Unstake(c, b[1], b[2], n)
      PROVE  PoolsTyped' /\ \A d \in Claims : Turn(d)
  BY <1>3, UnstakeTurns
<1>4. ASSUME NEW c \in Claims, NEW b \in Backers[c], WithdrawStake(c, b[1], b[2])
      PROVE  PoolsTyped' /\ \A d \in Claims : Turn(d)
  BY <1>4, WithdrawTurns
<1>5. ASSUME NEW c \in Claims, NEW b \in Backers[c], WithdrawBonus(c, b[1], b[2])
      PROVE  PoolsTyped' /\ \A d \in Claims : Turn(d)
  BY <1>5, BonusTurns
<1>6. ASSUME NEW c \in Claims, NEW s, CloseDeadClaim(c) \/ Round(c, s) \/ Finalize(c)
      PROVE  PoolsTyped' /\ \A d \in Claims : Turn(d)
  <2>1. UNCHANGED <<pos, pools>>
    BY <1>6 DEF CloseDeadClaim, Round, Finalize
  <2> QED
    BY <1>0, <2>1, QuietTurns
<1>7. ASSUME NEW c \in Claims, NEW u, NEW s, PostAnswer(c, u, s)
      PROVE  PoolsTyped' /\ \A d \in Claims : Turn(d)
  <2>1. pos' = pos /\ pools' = [pools EXCEPT ![c] = Advanced(c)]
    BY <1>7 DEF PostAnswer
  <2> QED
    BY <1>0, <2>1, ReadTurns
<1>8. ASSUME NEW c \in Claims, NEW grant, OpenRewards(c, grant)
      PROVE  PoolsTyped' /\ \A d \in Claims : Turn(d)
  <2>1. pos' = pos /\ pools' = [pools EXCEPT ![c] = Advanced(c)]
    BY <1>8 DEF OpenRewards
  <2> QED
    BY <1>0, <2>1, ReadTurns
<1>9. ASSUME NEW from, NEW to, NEW n, NEW u, Transfer(from, to, n) \/ Vote(u) \/ Resolve(u)
      PROVE  PoolsTyped' /\ \A c \in Claims : Turn(c)
  <2>1. UNCHANGED <<pos, pools>>
    BY <1>9 DEF Transfer, Vote, Resolve
  <2> QED
    BY <1>0, <2>1, QuietTurns
<1>10. CASE UNCHANGED vars
  BY <1>0, <1>10, QuietTurns DEF vars
<1> QED
  BY <1>1, <1>2, <1>3, <1>4, <1>5, <1>6, <1>7, <1>8, <1>9, <1>10 DEF Next

-----------------------------------------------------------------------------
(* 6. The ring of the last totals.                                         *)

(* The ring of a claim: totals up to now.                                  *)
RingSound(r) == r.at \in Nat /\ r.at <= now /\ r.buckets \in Seq(Int)

LEMMA EmptyInterval ==
  ASSUME NEW n \in Int, n <= 0, NEW e
  PROVE  [i \in 1 .. n |-> e] \in Seq(Int)
<1>1. 1 .. n = 1 .. 0
  OBVIOUS
<1>2. [i \in 1 .. 0 |-> e] \in Seq(Int)
  BY IsASeq
<1> QED
  BY <1>1, <1>2

LEMMA RecentTyped ==
  ASSUME NEW r \in Seq(Int)
  PROVE  Recent(r) \in Seq(Int)
<1> DEFINE n == Len(r)
           m == n - Window + 1
<1>1. n \in Nat /\ Window \in Nat \ {0}
  BY Bricks
<1>2. CASE n > Window
  <2>1. m \in Int /\ n \in Int /\ \A i \in m .. n : i \in 1 .. n
    BY <1>1, <1>2
  <2>2. \A i \in m .. n : r[i] \in Int
    BY <2>1, ElementOfSeq
  <2>3. SubSeq(r, m, n) \in Seq(Int)
    BY <2>1, <2>2, SubSeqProperties
  <2> QED
    BY <1>2, <2>3 DEF Recent
<1>3. CASE ~(n > Window)
  BY <1>3 DEF Recent
<1> QED
  BY <1>2, <1>3

LEMMA ObserveSound ==
  ASSUME NEW r, RingSound(r), now \in Nat, NEW v \in Int
  PROVE  Observe(r, v).at = now /\ Observe(r, v).buckets \in Seq(Int)
<1> DEFINE s == r.buckets
           gap == IF s = <<>> THEN 0 ELSE now - r.at
           kept == IF gap = 0 /\ s # <<>> THEN Front(s) ELSE s
           carried == [i \in 1 .. gap - 1 |-> Last(s)]
<1>1. s \in Seq(Int) /\ gap \in Nat
  BY DEF RingSound
<1>2. kept \in Seq(Int)
  <2>1. ASSUME s # <<>> PROVE SubSeq(s, 1, Len(s) - 1) \in Seq(Int)
    <3> DEFINE n == Len(s) - 1
    <3>1. 1 \in Int /\ n \in Int /\ \A i \in 1 .. n : i \in 1 .. Len(s)
      BY <1>1
    <3>2. \A i \in 1 .. n : s[i] \in Int
      BY <1>1, <3>1, ElementOfSeq
    <3> HIDE DEF n
    <3>3. SubSeq(s, 1, n) \in Seq(Int)
      BY <3>1, <3>2, SubSeqProperties
    <3> QED
      BY <3>3 DEF n
  <2> QED
    BY <1>1, <2>1 DEF Front
<1>3. carried \in Seq(Int)
  <2>1. CASE gap = 0
    <3> DEFINE n == gap - 1
    <3>1. n \in Int /\ n <= 0
      BY <2>1
    <3> HIDE DEF n, gap
    <3>2. \A e : [i \in 1 .. n |-> e] \in Seq(Int)
      BY <3>1, EmptyInterval
    <3> QED
      BY <3>2 DEF n
  <2>2. CASE gap # 0
    <3>1. s # <<>> /\ Len(s) \in 1 .. Len(s)
      BY <1>1, <2>2
    <3>2. Last(s) \in Int
      BY <1>1, <3>1, ElementOfSeq DEF Last
    <3>3. gap - 1 \in Nat
      BY <1>1, <2>2
    <3> HIDE DEF gap
    <3> QED
      BY <3>2, <3>3, IsASeq
  <2> QED
    BY <2>1, <2>2
<1>4. kept \o carried \in Seq(Int)
  <2> HIDE DEF kept, carried
  <2> QED
    BY <1>2, <1>3, ConcatProperties
<1>5. kept \o carried \o <<v>> \in Seq(Int)
  <2>1. <<v>> \in Seq(Int)
    OBVIOUS
  <2> HIDE DEF kept, carried
  <2> QED
    BY <1>4, <2>1, ConcatProperties
<1> DEFINE z == kept \o carried \o <<v>>
<1>6. Observe(r, v) = [at |-> now, buckets |-> Recent(z)] /\ z \in Seq(Int)
  BY <1>5 DEF Observe
<1> HIDE DEF z
<1>7. Recent(z) \in Seq(Int)
  BY <1>6, RecentTyped
<1> QED
  BY <1>6, <1>7

(* The trailing average is a number, once there is enough to average.      *)
LEMMA TrailingTyped ==
  ASSUME NEW r, RingSound(r), now \in Nat, Mature(r)
  PROVE  Trailing(r) \in Int
<1> DEFINE S == (now - Window + 1) .. now
           f == [t \in S |-> Bucket(r, t)]
           IsIter(g) == g = [s \in SUBSET S |->
                              IF s = {} THEN 0
                              ELSE Bucket(r, CHOOSE x \in s : TRUE) + g[s \ {CHOOSE x \in s : TRUE}]]
           total == MapThenSumSet(LAMBDA t : Bucket(r, t), S)
<1>0. Window \in Nat \ {0} /\ now \in Int /\ now - Window + 1 \in Int
  BY Bricks
<1>1. IsFiniteSet(S)
  BY <1>0, FS_Interval
<1>2. ASSUME NEW t \in S PROVE Bucket(r, t) \in Int
  <2> DEFINE b == r.buckets
             n == Len(b)
  <2>1. b \in Seq(Int) /\ n \in Nat /\ n >= Window /\ r.at \in Nat /\ r.at <= now
    BY <1>0 DEF RingSound, Mature
  <2>2. t \in Int /\ t <= now /\ t >= now - Window + 1
    BY <1>0
  <2>3. Bucket(r, t) = IF t >= r.at THEN b[n] ELSE b[n - (r.at - t)]
    BY DEF Bucket, Last
  <2>4. \A i \in 1 .. n : b[i] \in Int
    BY <2>1, ElementOfSeq
  <2> HIDE DEF S, b, n
  <2>5. n \in 1 .. n
    BY <1>0, <2>1
  <2>6. ~(t >= r.at) => n - (r.at - t) \in 1 .. n
    BY <1>0, <2>1, <2>2
  <2> QED
    BY <2>3, <2>4, <2>5, <2>6
<1>3. Integral(f, S)
  BY <1>2 DEF Integral
<1>4. \A g : IsIter(g) <=> IsSum(g, f, S)
  <2> DEFINE IterStep(g, s) == IF s = {} THEN 0
                               ELSE Bucket(r, CHOOSE x \in s : TRUE) + g[s \ {CHOOSE x \in s : TRUE}]
  <2>1. ASSUME NEW g, NEW s \in SUBSET S PROVE SumStep(g, f, s) = IterStep(g, s)
    <3> HIDE DEF S
    <3> DEFINE x == CHOOSE x \in s : TRUE
    <3>1. s # {} => x \in S
      OBVIOUS
    <3>2. s # {} => f[x] = Bucket(r, x)
      BY <3>1
    <3> QED
      BY <3>2 DEF SumStep
  <2>2. \A g : IsIter(g) <=> g = [s \in SUBSET S |-> IterStep(g, s)]
    OBVIOUS
  <2> HIDE DEF S, f, IsIter, IterStep
  <2> QED
    BY <2>1, <2>2 DEF IsSum
<1>5. total = (CHOOSE g : IsIter(g))[S]
  BY DEF MapThenSumSet, MapThenFoldSet
<1>6. IsIter(CHOOSE g : IsIter(g))
  <2>1. PICK g : IsSum(g, f, S)
    BY <1>1, SumExists
  <2>2. IsIter(g)
    BY <1>4, <2>1
  <2> HIDE DEF IsIter
  <2> QED
    BY <2>2
<1>7. total = SumFunctionOnSet(f, S)
  <2> HIDE DEF total, S, f, IsIter
  <2> QED
    BY <1>1, <1>4, <1>5, <1>6, SumIs
<1>8. total \in Int
  <2> HIDE DEF S, f, total
  <2> QED
    BY <1>1, <1>3, <1>7, SumIsInt
<1>9. Trailing(r) = total \div Window
  BY DEF Trailing
<1> HIDE DEF total
<1> QED
  BY <1>0, <1>8, <1>9

-----------------------------------------------------------------------------
(* 7. Positions stay ripe, and pools the sums of their positions.          *)

LEMMA OfFinite ==
  ASSUME NEW c \in Claims
  PROVE  /\ IsFiniteSet(Backers[c])
         /\ \A s : IsFiniteSet(Of(c, s)) /\ Of(c, s) \subseteq Backers[c]
         /\ \A b \in Backers[c] : b \in Of(c, b[2]) /\ \A s : s # b[2] => b \notin Of(c, s)
<1>1. IsFiniteSet(Users) /\ IsFiniteSet(Sides)
  <2>1. IsFiniteSet({"YES"}) /\ IsFiniteSet({"NO"}) /\ Sides = {"YES"} \cup {"NO"}
    BY FS_Singleton DEF Sides
  <2> QED
    BY <2>1, FS_Union, StakesAssumption
<1>2. IsFiniteSet(Users \X Sides)
  BY <1>1, FS_Product
<1>3. Backers[c] \subseteq Users \X Sides
  BY StakesAssumption
<1>4. IsFiniteSet(Backers[c])
  BY <1>2, <1>3, FS_Subset
<1>5. \A s : Of(c, s) \subseteq Backers[c]
  BY DEF Of
<1>6. \A s : IsFiniteSet(Of(c, s))
  BY <1>4, <1>5, FS_Subset
<1>7. \A b \in Backers[c] : b \in Of(c, b[2]) /\ \A s : s # b[2] => b \notin Of(c, s)
  BY DEF Of
<1> QED
  BY <1>4, <1>5, <1>6, <1>7

(* Positions stay ripe.                                                    *)
LEMMA RipeKept ==
  ASSUME IInv, IInv', PositionsRipe, NEW c \in Claims, Turn(c), Onward(c)
  PROVE  \A b \in Backers[c] : Ripe(c, pos[c][b])'
<1>1. RateAcc(c) \in Int /\ RawNow(c) \in Int /\ RateAcc(c)' \in Int /\ RawNow(c)' \in Int
  BY ReadsTyped DEF IInv, ClockTyped, FreezePast, Frozen, RateAcc, RawNow, Lesser
<1>2. \A b \in Backers[c] : pos[c][b] \in PosRec /\ pos'[c][b] \in PosRec /\ Ripe(c, pos[c][b])
  BY DEF IInv, PositionsTyped, PositionsRipe
<1>3. ASSUME NEW b \in Backers[c], pos'[c][b] = pos[c][b]
      PROVE  Ripe(c, pos[c][b])'
  BY <1>1, <1>2, <1>3 DEF Ripe, Onward, PosRec, Due
<1>4. ASSUME NEW b \in Backers[c], NEW n \in Int, NEW m \in Int, Moved(c, b, n, m)
      PROVE  Ripe(c, pos[c][b])'
  <2>1. pos'[c][b].raw = Settled(c, pos[c][b]).raw /\ pos'[c][b].acc = RateAcc(c) /\ pos'[c][b].rawAt = RawNow(c)
    BY <1>4 DEF Moved, Reckoned
  <2>2. Settled(c, pos[c][b]).raw >= 0
    BY <1>2, RipeSettled DEF IInv
  <2>3. pos'[c][b].stake >= 0 /\ pos'[c][b].conv >= 0 /\ (~Frozen(c) => Due(pos'[c][b]) <= 0)
    BY <1>4 DEF Moved
  <2> QED
    BY <1>1, <2>1, <2>2, <2>3 DEF Ripe, Onward, Due
<1>5. CASE Quiet(c) \/ PoolsRead(c)
  BY <1>3, <1>5 DEF Quiet, PoolsRead
<1>6. ASSUME NEW b \in Backers[c], NEW n \in Int, NEW m \in Int, Moved(c, b, n, m)
      PROVE  \A e \in Backers[c] : Ripe(c, pos[c][e])'
  <2>1. \A e \in Backers[c] \ {b} : pos'[c][e] = pos[c][e]
    BY <1>6 DEF Moved
  <2>2. Ripe(c, pos[c][b])'
    BY <1>4, <1>6
  <2>3. ASSUME NEW e \in Backers[c], e # b PROVE Ripe(c, pos[c][e])'
    BY <1>3, <2>1, <2>3
  <2> QED
    BY <2>2, <2>3
<1> QED
  BY <1>5, <1>6 DEF Turn

(* The pools go on being the sums of their positions.                      *)
LEMMA SumsKept ==
  ASSUME IInv, IInv', PoolsTyped, PoolsTyped', PoolsAddUp, NEW c \in Claims, Turn(c), NEW s \in Sides
  PROVE  AddsUp(pools'[c][s], pos'[c], Of(c, s))
<1> DEFINE q == pools[c][s]
           z == pools'[c][s]
           ps == pos[c]
           after == pos'[c]
           S == Of(c, s)
           A == RateAcc(c)
           R == RawNow(c)
<1>1. AddsUp(q, ps, S) /\ q \in PoolRec /\ z \in PoolRec
  BY DEF PoolsAddUp, PoolsTyped
<1>2. IsFiniteSet(S) /\ S \subseteq Backers[c]
  BY OfFinite
<1>3. \A b \in Backers[c] : pos[c][b] \in PosRec /\ Account(ps[b]) /\ Account(after[b])
  BY PosFields DEF IInv, PositionsTyped
<1>4. A \in Int /\ R \in Int
  BY ReadsTyped DEF IInv
<1>5. ASSUME Reckoned(c, q, z, 0, 0) PROVE z.stake = q.stake /\ Due(z) = Due(q) /\ Old(z) = Old(q)
  <2>1. z.stake = q.stake + 0 /\ Due(z) = Due(q) + 0 - 0 * A /\ Old(z) = Old(q) - 0 * R
    BY <1>1, <1>5, PoolReckoned DEF IInv
  <2>2. q.stake \in Int /\ Due(q) \in Int /\ Old(q) \in Int
    BY <1>1, PoolFields, AccountIs DEF Account
  <2> HIDE DEF A, R, q, z
  <2> QED
    BY <1>4, <2>1, <2>2
<1>6. CASE Quiet(c)
  BY <1>1, <1>6 DEF Quiet
<1>7. CASE PoolsRead(c)
  <2>1. z.stake = q.stake /\ Due(z) = Due(q) /\ Old(z) = Old(q) /\ \A e \in S : after[e] = ps[e]
    BY <1>5, <1>7 DEF PoolsRead
  <2> HIDE DEF q, z, ps, after, S
  <2>2. AddsUp(z, after, S)
    BY <1>1, <2>1, AddsUpSettled
  <2> QED
    BY <2>2 DEF z, after, S
<1>8. ASSUME NEW b \in Backers[c], NEW n \in Int, NEW m \in Int, Moved(c, b, n, m), b \in S
      PROVE  AddsUp(z, after, S)
  <2>1. s = b[2]
    BY <1>8, OfFinite
  <2> DEFINE d == m - n * A
             o == -(n * R)
  <2>2. d \in Int /\ o \in Int
    <3> HIDE DEF A, R
    <3> QED
      BY <1>4
  <2>3. after[b].stake = ps[b].stake + n /\ Due(after[b]) = Due(ps[b]) + d /\ Old(after[b]) = Old(ps[b]) + o
    <3>1. Reckoned(c, ps[b], after[b], n, m) /\ ps[b] \in PosRec
      BY <1>3, <1>8 DEF Moved
    <3>2. /\ after[b].stake = ps[b].stake + n
          /\ Due(after[b]) = Due(ps[b]) + m - n * A /\ Old(after[b]) = Old(ps[b]) - n * R
      BY <3>1, PosReckoned DEF IInv
    <3>3. Due(ps[b]) \in Int /\ Old(ps[b]) \in Int
      BY <1>3, AccountIs
    <3> HIDE DEF A, R, ps, after
    <3>4. n * A \in Int /\ n * R \in Int
      BY <1>4
    <3> QED
      BY <3>2, <3>3, <3>4
  <2>4. z.stake = q.stake + n /\ Due(z) = Due(q) + d /\ Old(z) = Old(q) + o
    <3>0. Due(q) \in Int /\ Old(q) \in Int /\ q.stake \in Int
      BY <1>1, PoolFields, AccountIs DEF Account
    <3>1. CASE Reckoned(c, q, z, n, m)
      <4>1. z.stake = q.stake + n /\ Due(z) = Due(q) + m - n * A /\ Old(z) = Old(q) - n * R
        BY <1>1, <3>1, PoolReckoned DEF IInv
      <4> HIDE DEF A, R, q, z
      <4>2. n * A \in Int /\ n * R \in Int
        BY <1>4
      <4> QED
        BY <3>0, <4>1, <4>2
    <3>2. CASE n = 0 /\ m = 0 /\ pools'[c] = pools[c]
      <4>1. z = q /\ d = 0 - 0 * A /\ o = -(0 * R)
        BY <3>2
      <4> HIDE DEF A, R, q, z, d, o
      <4>2. d = 0 /\ o = 0
        BY <1>4, <4>1
      <4> QED
        BY <3>0, <3>2, <4>1, <4>2
    <3> QED
      BY <1>8, <2>1, <3>1, <3>2 DEF Moved
  <2>5. (\A e \in S \ {b} : after[e] = ps[e]) /\ (\A e \in S : Account(ps[e])) /\ Account(after[b])
    BY <1>2, <1>3, <1>8 DEF Moved
  <2> HIDE DEF q, z, ps, after, S, d, o
  <2> QED
    BY <1>1, <1>2, <1>8, <2>2, <2>3, <2>4, <2>5, AddsUpChanged
<1>9. ASSUME NEW b \in Backers[c], NEW n \in Int, NEW m \in Int, Moved(c, b, n, m), b \notin S
      PROVE  AddsUp(z, after, S)
  <2>1. s # b[2]
    BY <1>9, OfFinite
  <2>2. z.stake = q.stake /\ Due(z) = Due(q) /\ Old(z) = Old(q)
    <3>1. Reckoned(c, q, z, 0, 0) \/ z = q
      BY <1>9, <2>1 DEF Moved
    <3> QED
      BY <1>5, <3>1
  <2>3. \A e \in S : after[e] = ps[e]
    BY <1>2, <1>9 DEF Moved
  <2> HIDE DEF q, z, ps, after, S
  <2> QED
    BY <1>1, <2>2, <2>3, AddsUpSettled
<1> QED
  BY <1>6, <1>7, <1>8, <1>9 DEF Turn

-----------------------------------------------------------------------------
(* What the claim's own clock does.                                        *)
LEMMA StepOnward ==
  ASSUME IInv, ClaimsSound, [Next]_vars
  PROVE  \A c \in Claims : Onward(c)
<1>0. IInv'
  BY StepHarmless
<1>1. now \in Nat /\ acc \in Nat /\ ClockTyped'
  BY <1>0 DEF IInv, ClockTyped
<1>2. ASSUME NEW rate \in Rates[now], Tick(rate)
      PROVE  \A c \in Claims : Onward(c)
  <2>1. claims' = claims /\ now' = now + 1 /\ acc' = acc + rate
    BY <1>2 DEF Tick
  <2>2. rate \in Nat
    <3>1. now \in 1 .. MaxNow
      <4>1. now < MaxNow
        BY <1>2 DEF Tick
      <4> QED
        BY <4>1, StakesAssumption DEF IInv, ClockTyped
    <3> QED
      BY <3>1, StakesAssumption
  <2>3. \A c \in Claims : SameFreeze(c)
    BY <2>1 DEF SameFreeze
  <2>4. now <= now' /\ acc <= acc'
    BY <1>1, <2>1, <2>2
  <2> QED
    BY <1>1, <2>3, <2>4, OnwardSame
<1>3. ASSUME now' = now, acc' = acc, \A c \in Claims : SameFreeze(c)
      PROVE  \A c \in Claims : Onward(c)
  <2>1. now <= now' /\ acc <= acc'
    BY <1>1, <1>3
  <2> QED
    BY <1>1, <1>3, <2>1, OnwardSame
<1>4. ASSUME UNCHANGED <<now, acc, claims>> PROVE \A c \in Claims : Onward(c)
  BY <1>3, <1>4 DEF SameFreeze
<1>5. ASSUME NEW c \in Claims, NEW u, NEW s, PostAnswer(c, u, s)
      PROVE  \A d \in Claims : Onward(d)
  <2>1. /\ ~Frozen(c) /\ now' = now /\ acc' = acc
        /\ \A d \in Claims \ {c} : claims'[d] = claims[d]
        /\ claims'[c].frozenAt = now /\ claims'[c].accAtFreeze = acc
    BY <1>5 DEF PostAnswer, IInv, FreezePast, ClaimsSound, Sound, NewClaim
  <2>2. Onward(c)
    BY <2>1, OnwardAnswered
  <2>3. ASSUME NEW d \in Claims, d # c PROVE Onward(d)
    <3>1. SameFreeze(d) /\ now <= now' /\ acc <= acc'
      BY <1>1, <2>1, <2>3 DEF SameFreeze
    <3> QED
      BY <1>1, <3>1, OnwardSame
  <2> QED
    BY <2>2, <2>3
<1>6. ASSUME NEW c \in Claims, CloseDeadClaim(c) PROVE \A d \in Claims : Onward(d)
  <2>1. now' = now /\ acc' = acc /\ \A d \in Claims : SameFreeze(d)
    BY <1>6 DEF CloseDeadClaim, SameFreeze, IInv, FreezePast
  <2> QED
    BY <1>3, <2>1
<1>7. ASSUME NEW c \in Claims, NEW s, Round(c, s) PROVE \A d \in Claims : Onward(d)
  <2>1. now' = now /\ acc' = acc /\ \A d \in Claims : SameFreeze(d)
    BY <1>7 DEF Round, SameFreeze, IInv, FreezePast
  <2> QED
    BY <1>3, <2>1
<1>8. ASSUME NEW c \in Claims, Finalize(c) PROVE \A d \in Claims : Onward(d)
  <2>1. now' = now /\ acc' = acc /\ \A d \in Claims : SameFreeze(d)
    BY <1>8 DEF Finalize, SameFreeze, IInv, FreezePast
  <2> QED
    BY <1>3, <2>1
<1>9. ASSUME NEW c \in Claims, NEW grant, OpenRewards(c, grant) PROVE \A d \in Claims : Onward(d)
  <2>1. now' = now /\ acc' = acc /\ \A d \in Claims : SameFreeze(d)
    BY <1>9 DEF OpenRewards, SameFreeze, IInv, FreezePast
  <2> QED
    BY <1>3, <2>1
<1>10. ASSUME NEW c, NEW b, NEW n, Stake(c, b[1], b[2], n) \/ Unstake(c, b[1], b[2], n)
                  \/ WithdrawStake(c, b[1], b[2]) \/ WithdrawBonus(c, b[1], b[2])
       PROVE  \A d \in Claims : Onward(d)
  BY <1>4, <1>10 DEF Stake, Unstake, WithdrawStake, WithdrawBonus
<1>11. ASSUME NEW from, NEW to, NEW n, NEW u, Transfer(from, to, n) \/ Vote(u) \/ Resolve(u)
       PROVE  \A c \in Claims : Onward(c)
  BY <1>4, <1>11 DEF Transfer, Vote, Resolve
<1>12. CASE UNCHANGED vars
  BY <1>4, <1>12 DEF vars
<1> QED
  BY <1>2, <1>5, <1>6, <1>7, <1>8, <1>9, <1>10, <1>11, <1>12 DEF Next

-----------------------------------------------------------------------------
(* 8. The books of a claim, and what an answer reads off them.             *)

Books == IInv /\ PoolsTyped /\ PositionsRipe /\ ClaimsSound /\ RingsSound /\ PoolsAddUp

(* A field of the positions of a side, settled, and its sum.               *)
SettledIn(c, ps, f, S) == [b \in S |-> Settled(c, ps[b])[f]]

LEMMA TotalIs ==
  ASSUME NEW c \in Claims, NEW s, NEW f
  PROVE  Total(c, s, f) = SumFunctionOnSet(SettledIn(c, pos[c], f, Of(c, s)), Of(c, s))
<1> DEFINE S == Of(c, s)
           h == SettledIn(c, pos[c], f, S)
           IsIter(g) == g = [r \in SUBSET S |->
                              IF r = {} THEN 0
                              ELSE Settled(c, pos[c][CHOOSE x \in r : TRUE])[f] + g[r \ {CHOOSE x \in r : TRUE}]]
<1>1. \A g : IsIter(g) <=> IsSum(g, h, S)
  <2> SUFFICES ASSUME NEW g, NEW r \in SUBSET S
               PROVE  SumStep(g, h, r) =
                        IF r = {} THEN 0
                        ELSE Settled(c, pos[c][CHOOSE x \in r : TRUE])[f] + g[r \ {CHOOSE x \in r : TRUE}]
    BY ZenonT(30) DEF IsSum
  <2> HIDE DEF S
  <2> DEFINE x == CHOOSE x \in r : TRUE
  <2>1. r # {} => x \in S
    OBVIOUS
  <2>2. r # {} => h[x] = Settled(c, pos[c][x])[f]
    BY <2>1 DEF SettledIn
  <2> QED
    BY <2>2 DEF SumStep
<1>2. Total(c, s, f) = (CHOOSE g : IsIter(g))[S]
  BY DEF Total, MapThenSumSet, MapThenFoldSet
<1>3. IsFiniteSet(S)
  BY OfFinite
<1>4. IsIter(CHOOSE g : IsIter(g))
  <2>1. PICK g : IsSum(g, h, S)
    BY <1>3, SumExists
  <2>2. IsIter(g)
    BY <1>1, <2>1
  <2> HIDE DEF IsIter
  <2> QED
    BY <2>2
<1> HIDE DEF S, h, IsIter
<1> QED
  BY <1>1, <1>2, <1>3, <1>4, SumIs DEF S, h

(* Settled, a pool is the sum of its settled positions.                    *)
LEMMA SettledSums ==
  ASSUME Books, NEW c \in Claims, NEW s \in Sides
  PROVE  LET z == Settled(c, pools[c][s])
             S == Of(c, s) IN
         /\ z.stake = SumFunctionOnSet(SettledIn(c, pos[c], "stake", S), S)
         /\ z.conv = SumFunctionOnSet(SettledIn(c, pos[c], "conv", S), S)
         /\ z.raw = SumFunctionOnSet(SettledIn(c, pos[c], "raw", S), S)
         /\ z.stake \in Nat /\ z.conv \in Nat /\ z.raw \in Nat
         /\ z.stake = pools[c][s].stake
<1> DEFINE z == Settled(c, pools[c][s])
           q == pools[c][s]
           ps == pos[c]
           S == Of(c, s)
           A == RateAcc(c)
           R == RawNow(c)
           f1 == StakesIn(ps, S)
           f2 == DuesIn(ps, S)
           f3 == OldsIn(ps, S)
           h1 == SettledIn(c, ps, "stake", S)
           h2 == SettledIn(c, ps, "conv", S)
           h3 == SettledIn(c, ps, "raw", S)
<1>1. AddsUp(q, ps, S) /\ q \in PoolRec
  BY DEF Books, PoolsAddUp, PoolsTyped
<1>2. IsFiniteSet(S) /\ S \subseteq Backers[c]
  BY OfFinite
<1>3. A \in Int /\ R \in Int
  BY ReadsTyped DEF Books, IInv
<1>4. ASSUME NEW b \in S
      PROVE  /\ h1[b] \in Nat /\ h2[b] \in Nat /\ h3[b] \in Nat
             /\ h1[b] = f1[b] /\ h2[b] = f2[b] + f1[b] * A /\ h3[b] = f3[b] + f1[b] * R
             /\ f1[b] \in Int /\ f2[b] \in Int /\ f3[b] \in Int
  <2> DEFINE p == ps[b]
             y == Settled(c, p)
  <2>1. p \in PosRec /\ Ripe(c, p)
    BY <1>2 DEF Books, IInv, PositionsTyped, PositionsRipe
  <2>2. y.stake \in Nat /\ y.conv \in Nat /\ y.raw \in Nat /\ y.stake = p.stake
        /\ y.conv = p.conv + p.stake * (A - p.acc) /\ y.raw = p.raw + p.stake * (R - p.rawAt)
    BY <2>1, RipeSettled, SettledIs DEF Books, IInv
  <2>3. Account(p)
    BY <2>1, PosFields
  <2>4. Due(p) \in Int /\ Old(p) \in Int /\ p.stake \in Int
        /\ p.conv + p.stake * (A - p.acc) = Due(p) + p.stake * A
        /\ p.raw + p.stake * (R - p.rawAt) = Old(p) + p.stake * R
    BY <1>3, <2>3, AccountIs DEF Account
  <2>5. h1[b] = y.stake /\ h2[b] = y.conv /\ h3[b] = y.raw /\ f1[b] = p.stake /\ f2[b] = Due(p) /\ f3[b] = Old(p)
    BY DEF SettledIn, StakesIn, DuesIn, OldsIn
  <2> HIDE DEF p, y, h1, h2, h3, f1, f2, f3, A, R
  <2> QED
    BY <2>2, <2>4, <2>5
<1>5. z.stake = q.stake /\ z.conv = Due(q) + q.stake * A /\ z.raw = Old(q) + q.stake * R
  <2>1. z.stake = q.stake /\ z.conv = q.conv + q.stake * (A - q.acc) /\ z.raw = q.raw + q.stake * (R - q.rawAt)
    BY <1>1, PoolSettledIs DEF Books, IInv
  <2>2. q.conv + q.stake * (A - q.acc) = Due(q) + q.stake * A /\ q.raw + q.stake * (R - q.rawAt) = Old(q) + q.stake * R
    BY <1>1, <1>3, PoolFields, AccountIs
  <2> HIDE DEF z, q, A, R
  <2> QED
    BY <2>1, <2>2
<1>6. q.stake = SumFunctionOnSet(f1, S) /\ Due(q) = SumFunctionOnSet(f2, S) /\ Old(q) = SumFunctionOnSet(f3, S)
  BY <1>1 DEF AddsUp
<1> HIDE DEF z, q, ps, S, A, R, f1, f2, f3, h1, h2, h3
<1>7. Integral(f1, S) /\ Integral(f2, S) /\ Integral(f3, S)
  BY <1>4 DEF Integral
<1>8. SumFunctionOnSet(h1, S) = SumFunctionOnSet(f1, S)
  BY <1>2, <1>4, SumAgrees
<1>9. SumFunctionOnSet(h2, S) = SumFunctionOnSet(f2, S) + SumFunctionOnSet(f1, S) * A
  BY <1>2, <1>3, <1>4, <1>7, SumLinear
<1>10. SumFunctionOnSet(h3, S) = SumFunctionOnSet(f3, S) + SumFunctionOnSet(f1, S) * R
  BY <1>2, <1>3, <1>4, <1>7, SumLinear
<1>11. SumFunctionOnSet(h1, S) \in Nat
  BY <1>2, <1>4, SumIsNat
<1>12. SumFunctionOnSet(h2, S) \in Nat
  BY <1>2, <1>4, SumIsNat
<1>13. SumFunctionOnSet(h3, S) \in Nat
  BY <1>2, <1>4, SumIsNat
<1>14. /\ z.stake = SumFunctionOnSet(h1, S) /\ z.conv = SumFunctionOnSet(h2, S)
       /\ z.raw = SumFunctionOnSet(h3, S) /\ z.stake = q.stake
  BY <1>5, <1>6, <1>8, <1>9, <1>10
<1> QED
  BY <1>11, <1>12, <1>13, <1>14 DEF z, q, ps, S, h1, h2, h3

(* What an answer reads are numbers, and its bond is at least one coin.    *)
LEMMA BarsTyped ==
  ASSUME Books, NEW c \in Claims
  PROVE  /\ StakedOn(Advanced(c)) \in Nat
         /\ \A s \in Sides : Advanced(c)[s] = Settled(c, pools[c][s])
                             /\ Coins(Advanced(c)[s].conv) \in Nat
         /\ Mature(ring[c]) => /\ Base(c, Advanced(c)) \in Int
                               /\ Base(c, Advanced(c)) >= LifeAverage(Advanced(c))
                               /\ AnswerBond(Base(c, Advanced(c)), Advanced(c)) \in Nat \ {0}
<1> DEFINE ps == Advanced(c)
           y == ps["YES"]
           n == ps["NO"]
           x == Base(c, ps)
<1>1. \A s \in Sides : ps[s] = Settled(c, pools[c][s])
  BY DEF Advanced
<1>2. \A s \in Sides : ps[s].stake \in Nat /\ ps[s].conv \in Nat /\ ps[s].raw \in Nat
  BY <1>1, SettledSums
<1>3. "YES" \in Sides /\ "NO" \in Sides
  BY DEF Sides
<1>4. StakedOn(ps) \in Nat
  BY <1>2, <1>3 DEF StakedOn
<1>5. \A s \in Sides : Coins(ps[s].conv) \in Nat
  <2>1. Unit \in Nat \ {0}
    BY Bricks
  <2> QED
    BY <1>2, <2>1 DEF Coins
<1>6. LifeAverage(ps) \in Int
  <2>1. y.raw + n.raw \in Nat /\ Larger(1, now - OpenedAt) \in Nat \ {0}
    BY <1>2, <1>3 DEF Larger, OpenedAt, Books, IInv, ClockTyped
  <2> DEFINE a == y.raw + n.raw
             b == Larger(1, now - OpenedAt)
  <2>2. LifeAverage(ps) = a \div b /\ a \in Nat /\ b \in Nat \ {0}
    BY <2>1 DEF LifeAverage
  <2> HIDE DEF a, b
  <2> QED
    BY <2>2
<1>7. ASSUME Mature(ring[c])
      PROVE  x \in Int /\ x >= LifeAverage(ps) /\ AnswerBond(x, ps) \in Nat \ {0}
  <2>1. RingSound(ring[c]) /\ now \in Nat
    BY DEF Books, RingsSound, RingSound, IInv, ClockTyped
  <2>2. Trailing(ring[c]) \in Int
    BY <1>7, <2>1, TrailingTyped
  <2>3. x \in Int /\ x >= LifeAverage(ps)
    BY <1>6, <2>2 DEF Base, Larger
  <2> HIDE DEF x
  <2>4. ASSUME NEW v \in Int, NEW w \in Int PROVE Part(v, w) \in Int
    <3>1. v * w \in Int /\ Bps \in Nat \ {0}
      BY Bricks
    <3> QED
      BY <3>1 DEF Part
  <2> DEFINE T == {Part(Coins(ps[s].conv), 10700) : s \in Sides}
             i == Part(x, 600)
             j == Part(x, 450)
             U == {1, i, j}
             g == [s \in Sides |-> Part(Coins(ps[s].conv), 10700)]
  <2>5. IsFiniteSet(Sides)
    <3>1. IsFiniteSet({"YES"}) /\ IsFiniteSet({"NO"}) /\ Sides = {"YES"} \cup {"NO"}
      BY FS_Singleton DEF Sides
    <3> QED
      BY <3>1, FS_Union
  <2>6. IsFiniteSet(T)
    <3>1. T = {g[s] : s \in Sides}
      OBVIOUS
    <3> HIDE DEF g, T
    <3>2. IsFiniteSet({g[s] : s \in Sides})
      BY <2>5, FiniteRange
    <3> QED
      BY <3>1, <3>2
  <2>7. T \subseteq Int /\ i \in Int /\ j \in Int
    <3>1. i \in Int /\ j \in Int
      <4>1. 600 \in Int /\ 450 \in Int
        OBVIOUS
      <4>2. Part(x, 600) \in Int
        BY <2>3, <2>4, <4>1, ZenonT(30)
      <4>3. Part(x, 450) \in Int
        BY <2>3, <2>4, <4>1, ZenonT(30)
      <4> QED
        BY <4>2, <4>3
    <3>2. ASSUME NEW s \in Sides PROVE Part(Coins(ps[s].conv), 10700) \in Int
      <4> DEFINE v == Coins(ps[s].conv)
      <4>1. v \in Int
        BY <1>5
      <4> HIDE DEF v
      <4>2. Part(v, 10700) \in Int
        BY <2>4, <4>1
      <4> QED
        BY <4>2 DEF v
    <3> QED
      BY <3>1, <3>2
  <2>8. IsFiniteSet(U) /\ U \subseteq Int
    <3> HIDE DEF i, j
    <3>1. IsFiniteSet({1}) /\ IsFiniteSet({i}) /\ IsFiniteSet({j})
      BY FS_Singleton
    <3>2. IsFiniteSet({i} \cup {j})
      BY <3>1, FS_Union
    <3>3. IsFiniteSet({1} \cup ({i} \cup {j}))
      BY <3>1, <3>2, FS_Union
    <3>4. U = {1} \cup ({i} \cup {j})
      OBVIOUS
    <3> QED
      BY <2>7, <3>3, <3>4
  <2>9. AnswerBond(x, ps) = Max(U \cup T) /\ 1 \in U
    BY DEF AnswerBond
  <2> HIDE DEF T, U
  <2> DEFINE V == U \cup T
  <2>10. IsFiniteSet(V) /\ V # {} /\ V \subseteq Int /\ 1 \in V
    BY <2>6, <2>7, <2>8, <2>9, FS_Union
  <2> HIDE DEF V
  <2>11. Max(V) \in V /\ Max(V) >= 1
    BY <2>10, MaxIs
  <2> QED
    BY <2>3, <2>9, <2>10, <2>11 DEF V
<1> QED
  BY <1>1, <1>4, <1>5, <1>7

-----------------------------------------------------------------------------
(* 9. The records of the claims.                                           *)

ClaimFields == {"closed", "frozenAt", "accAtFreeze", "atFreeze", "xbar", "answer", "answerer", "bond",
                "standing", "final", "opened", "openBlocks", "winConv", "pot"}

LEMMA FieldsAre == DOMAIN NewClaim = ClaimFields
  BY DEF NewClaim, ClaimFields

(* One claim's record is rewritten, soundly.                               *)
LEMMA ClaimRewritten ==
  ASSUME IInv, ClaimsSound, NEW c \in Claims, NEW z, claims' = [claims EXCEPT ![c] = z], Sound(z)
  PROVE  ClaimsSound'
<1>1. DOMAIN claims = Claims
  BY DEF IInv, FreezePast
<1>2. ASSUME NEW d \in Claims PROVE Sound(claims'[d])
  BY <1>1 DEF ClaimsSound
<1> QED
  BY <1>2 DEF ClaimsSound, Sound

LEMMA AnswerSound ==
  ASSUME Books, NEW c \in Claims, NEW u \in Answerers, NEW s \in AnswerSides, PostAnswer(c, u, s)
  PROVE  ClaimsSound'
<1> DEFINE k == claims[c]
           ps == Advanced(c)
           x == Base(c, ps)
           bond == AnswerBond(x, ps)
           at == [side \in Sides |-> ps[side].stake]
           z == [k EXCEPT !.frozenAt = now, !.accAtFreeze = acc, !.xbar = x, !.atFreeze = at,
                          !.answer = s, !.answerer = u, !.bond = bond]
<1>1. ~Frozen(c) /\ Mature(ring[c]) /\ claims' = [claims EXCEPT ![c] = z]
  BY DEF PostAnswer
<1>2. x \in Int /\ bond \in Nat
  BY <1>1, BarsTyped
<1>3. Sound(k) /\ now \in Nat \ {0} /\ u \in Users /\ s \in Sides
  BY Bricks DEF Books, ClaimsSound, IInv, ClockTyped
<1>4. k.frozenAt = 0
  BY <1>1 DEF Frozen
<1> HIDE DEF k, x, bond, at
<1>5. /\ DOMAIN z = ClaimFields /\ z.frozenAt = now /\ z.xbar = x /\ z.answer = s /\ z.answerer = u /\ z.bond = bond
      /\ z.standing = k.standing /\ z.final = k.final /\ z.opened = k.opened
  BY <1>3, FieldsAre DEF Sound, ClaimFields
<1> HIDE DEF z
<1>6. ~k.opened /\ ~k.final /\ k.standing = None
  BY <1>3, <1>4 DEF Sound
<1>7. Sound(z)
  BY <1>2, <1>3, <1>5, <1>6, FieldsAre DEF Sound
<1> QED
  BY <1>1, <1>7, ClaimRewritten DEF Books

LEMMA RoundSound ==
  ASSUME Books, NEW c \in Claims, NEW s \in Sides, Round(c, s)
  PROVE  ClaimsSound'
<1> DEFINE k == claims[c]
           b == IF s = k.answer THEN k.bond ELSE 0
           z == [k EXCEPT !.standing = s, !.bond = b]
<1>1. Frozen(c) /\ ~k.final /\ claims' = [claims EXCEPT ![c] = z]
  BY DEF Round
<1>2. Sound(k)
  BY DEF Books, ClaimsSound
<1>3. b \in Nat
  BY <1>2 DEF Sound
<1>4. k.frozenAt # 0
  BY <1>1 DEF Frozen
<1> HIDE DEF k, b
<1>5. /\ DOMAIN z = ClaimFields /\ z.frozenAt = k.frozenAt /\ z.xbar = k.xbar /\ z.answer = k.answer
      /\ z.answerer = k.answerer /\ z.bond = b /\ z.standing = s /\ z.final = k.final /\ z.opened = k.opened
      /\ z.openBlocks = k.openBlocks /\ z.winConv = k.winConv /\ z.pot = k.pot
  BY <1>2, FieldsAre DEF Sound, ClaimFields
<1> HIDE DEF z
<1>6. Sound(z)
  BY <1>2, <1>3, <1>4, <1>5, FieldsAre DEF Sound
<1> QED
  BY <1>1, <1>6, ClaimRewritten DEF Books

LEMMA FinalizeSound ==
  ASSUME Books, NEW c \in Claims, Finalize(c)
  PROVE  ClaimsSound'
<1> DEFINE k == claims[c]
           Z(s) == [k EXCEPT !.final = TRUE, !.standing = s, !.bond = 0]
<1>1. Frozen(c) /\ \E s \in IF k.standing = None THEN {None, k.answer} ELSE {k.standing} :
                     claims' = [claims EXCEPT ![c] = Z(s)]
  BY DEF Finalize
<1>2. Sound(k) /\ k.frozenAt # 0
  BY <1>1 DEF Books, ClaimsSound, Frozen
<1>3. PICK s \in Sides \cup {None} : claims' = [claims EXCEPT ![c] = Z(s)]
  BY <1>1, <1>2 DEF Sound
<1> DEFINE z == Z(s)
<1>4. claims' = [claims EXCEPT ![c] = z]
  BY <1>3
<1> HIDE DEF k
<1>5. /\ DOMAIN z = ClaimFields /\ z.frozenAt = k.frozenAt /\ z.xbar = k.xbar /\ z.answer = k.answer
      /\ z.answerer = k.answerer /\ z.bond = 0 /\ z.standing = s /\ z.final = TRUE /\ z.opened = k.opened
      /\ z.openBlocks = k.openBlocks /\ z.winConv = k.winConv /\ z.pot = k.pot
  BY <1>2, FieldsAre DEF Sound, ClaimFields
<1> HIDE DEF Z, z
<1>6. Sound(z)
  BY <1>2, <1>5, FieldsAre DEF Sound
<1> QED
  BY <1>4, <1>6, ClaimRewritten DEF Books

(* The draw that opens the rewards.                                        *)
LEMMA PotTyped ==
  ASSUME NEW grant, NEW win, grant \in Nat, win \in Nat
  PROVE  (Lesser(grant, Part(win, TierBps)) * 80) \div 93 \in Nat
<1> DEFINE p == Part(win, TierBps)
<1>1. p \in Nat
  <2>1. win * TierBps \in Nat /\ Bps \in Nat \ {0}
    BY Bricks
  <2> QED
    BY <2>1 DEF Part
<1> HIDE DEF p
<1> DEFINE d == Lesser(grant, p)
<1>2. d \in Nat
  BY <1>1 DEF Lesser
<1> HIDE DEF d
<1>3. (d * 80) \div 93 \in Nat
  BY <1>2
<1> QED
  BY <1>3 DEF d, p

LEMMA OpenSound ==
  ASSUME Books, NEW c \in Claims, NEW grant \in Grants, OpenRewards(c, grant)
  PROVE  ClaimsSound'
<1> DEFINE k == claims[c]
           win == Coins(Advanced(c)[WinningSide(k)].conv)
           pot == (Lesser(grant, Part(win, TierBps)) * 80) \div 93
           blocks == Larger(1, k.frozenAt - (OpenedAt + Polish))
           z == [k EXCEPT !.opened = TRUE, !.openBlocks = blocks, !.winConv = win, !.pot = pot]
<1>1. k.final /\ claims' = [claims EXCEPT ![c] = z]
  BY DEF OpenRewards
<1>2. Sound(k) /\ k.frozenAt \in Nat
  BY DEF Books, ClaimsSound, IInv, FreezePast
<1>3. win \in Nat
  <2>1. WinningSide(k) \in Sides
    BY DEF WinningSide, Sides
  <2> QED
    BY <2>1, BarsTyped
<1>4. pot \in Nat
  <2>1. grant \in Nat
    BY Bricks
  <2> HIDE DEF win
  <2> QED
    BY <1>3, <2>1, PotTyped
<1>5. blocks \in Nat \ {0}
  <2>1. Polish \in Nat
    BY StakesAssumption
  <2> QED
    BY <1>2, <2>1 DEF Larger, OpenedAt
<1> HIDE DEF k, win, pot, blocks
<1>6. /\ DOMAIN z = ClaimFields /\ z.frozenAt = k.frozenAt /\ z.xbar = k.xbar /\ z.answer = k.answer
      /\ z.answerer = k.answerer /\ z.bond = k.bond /\ z.standing = k.standing /\ z.final = k.final /\ z.opened = TRUE
      /\ z.openBlocks = blocks /\ z.winConv = win /\ z.pot = pot
  BY <1>2, FieldsAre DEF Sound, ClaimFields
<1> HIDE DEF z
<1>7. Sound(z)
  BY <1>1, <1>2, <1>3, <1>4, <1>5, <1>6, FieldsAre DEF Sound
<1> QED
  BY <1>1, <1>7, ClaimRewritten DEF Books

LEMMA StepClaims ==
  ASSUME Books, [Next]_vars
  PROVE  ClaimsSound'
<1>1. ASSUME claims' = claims PROVE ClaimsSound'
  BY <1>1 DEF Books, ClaimsSound
<1>2. ASSUME NEW c \in Claims, CloseDeadClaim(c) PROVE ClaimsSound'
  <2> DEFINE k == claims[c]
             z == [k EXCEPT !.closed = TRUE]
  <2>1. Sound(k) /\ claims' = [claims EXCEPT ![c] = z]
    BY <1>2 DEF CloseDeadClaim, Books, ClaimsSound
  <2> HIDE DEF k
  <2>2. DOMAIN z = ClaimFields /\ \A f \in ClaimFields \ {"closed"} : z[f] = k[f]
    BY <2>1, FieldsAre DEF Sound
  <2> HIDE DEF z
  <2>3. Sound(z)
    BY <2>1, <2>2, FieldsAre DEF Sound, ClaimFields
  <2> QED
    BY <2>1, <2>3, ClaimRewritten DEF Books
<1>3. ASSUME NEW rate, Tick(rate) PROVE ClaimsSound'
  BY <1>1, <1>3 DEF Tick
<1>4. ASSUME NEW c, NEW b, NEW n, Stake(c, b[1], b[2], n) \/ Unstake(c, b[1], b[2], n)
                  \/ WithdrawStake(c, b[1], b[2]) \/ WithdrawBonus(c, b[1], b[2])
      PROVE  ClaimsSound'
  BY <1>1, <1>4 DEF Stake, Unstake, WithdrawStake, WithdrawBonus
<1>5. ASSUME NEW from, NEW to, NEW n, NEW u, Transfer(from, to, n) \/ Vote(u) \/ Resolve(u)
      PROVE  ClaimsSound'
  BY <1>1, <1>5 DEF Transfer, Vote, Resolve
<1>6. CASE UNCHANGED vars
  BY <1>1, <1>6 DEF vars
<1> QED
  BY <1>2, <1>3, <1>4, <1>5, <1>6, AnswerSound, RoundSound, FinalizeSound, OpenSound DEF Next

-----------------------------------------------------------------------------
(* 10. The books hold: pools are the sums of their positions.              *)

LEMMA RingObserved ==
  ASSUME Books, NEW c \in Claims, NEW ps \in [Sides -> PoolRec], now' = now,
         ring' = [ring EXCEPT ![c] = Observe(@, StakedOn(ps))]
  PROVE  RingsSound'
<1>1. StakedOn(ps) \in Int
  BY DEF StakedOn, Sides, PoolRec
<1>2. RingSound(ring[c]) /\ now \in Nat /\ DOMAIN ring = Claims
  BY DEF Books, RingsSound, RingSound, IInv, ClockTyped
<1> DEFINE r == Observe(ring[c], StakedOn(ps))
<1>3. r.at = now /\ r.buckets \in Seq(Int)
  BY <1>1, <1>2, ObserveSound
<1>4. ring' = [ring EXCEPT ![c] = r]
  OBVIOUS
<1> HIDE DEF r
<1>5. DOMAIN ring' = Claims /\ ring'[c] = r /\ \A d \in Claims \ {c} : ring'[d] = ring[d]
  BY <1>2, <1>4
<1>6. ASSUME NEW d \in Claims PROVE ring'[d].at \in Nat /\ ring'[d].at <= now' /\ ring'[d].buckets \in Seq(Int)
  BY <1>2, <1>3, <1>5 DEF Books, RingsSound
<1> QED
  BY <1>5, <1>6 DEF RingsSound

LEMMA StepRings ==
  ASSUME Books, [Next]_vars
  PROVE  RingsSound'
<1>1. ASSUME ring' = ring, now' >= now, now' \in Nat PROVE RingsSound'
  BY <1>1 DEF Books, RingsSound, IInv, ClockTyped
<1>2. now \in Nat
  BY DEF Books, IInv, ClockTyped
<1>3. ASSUME UNCHANGED <<ring, now>> PROVE RingsSound'
  BY <1>1, <1>2, <1>3
<1>4. ASSUME NEW rate, Tick(rate) PROVE RingsSound'
  BY <1>1, <1>2, <1>4 DEF Tick
<1>5. ASSUME NEW c \in Claims, NEW b \in Backers[c], NEW n \in Amounts, Stake(c, b[1], b[2], n) PROVE RingsSound'
  <2> DEFINE ps == [Advanced(c) EXCEPT ![b[2]].stake = @ + n]
  <2>1. PoolsTyped'
    BY <1>5, StakeTurns DEF Base0, Books
  <2>2. now' = now /\ pools' = [pools EXCEPT ![c] = ps] /\ ring' = [ring EXCEPT ![c] = Observe(@, StakedOn(ps))]
    BY <1>5 DEF Stake
  <2> HIDE DEF ps
  <2>3. ps \in [Sides -> PoolRec]
    BY <2>1, <2>2 DEF PoolsTyped, Books
  <2> QED
    BY <2>2, <2>3, RingObserved
<1>6. ASSUME NEW c \in Claims, NEW b \in Backers[c], NEW n \in Amounts, Unstake(c, b[1], b[2], n) PROVE RingsSound'
  <2> DEFINE p == Settled(c, pos[c][<<b[1], b[2]>>])
             ps == [Advanced(c) EXCEPT ![b[2]].stake = @ - n, ![b[2]].conv = @ - Forfeit(p, n)]
  <2>1. PoolsTyped'
    BY <1>6, UnstakeTurns DEF Base0, Books
  <2>2. now' = now /\ pools' = [pools EXCEPT ![c] = ps] /\ ring' = [ring EXCEPT ![c] = Observe(@, StakedOn(ps))]
    BY <1>6 DEF Unstake
  <2> HIDE DEF ps
  <2>3. ps \in [Sides -> PoolRec]
    BY <2>1, <2>2 DEF PoolsTyped, Books
  <2> QED
    BY <2>2, <2>3, RingObserved
<1>7. ASSUME NEW c, NEW b, WithdrawStake(c, b[1], b[2]) \/ WithdrawBonus(c, b[1], b[2]) PROVE RingsSound'
  BY <1>3, <1>7 DEF WithdrawStake, WithdrawBonus
<1>8. ASSUME NEW c, NEW u, NEW s, NEW grant,
             CloseDeadClaim(c) \/ PostAnswer(c, u, s) \/ Round(c, s) \/ Finalize(c) \/ OpenRewards(c, grant)
      PROVE  RingsSound'
  BY <1>3, <1>8 DEF CloseDeadClaim, PostAnswer, Round, Finalize, OpenRewards
<1>9. ASSUME NEW from, NEW to, NEW n, NEW u, Transfer(from, to, n) \/ Vote(u) \/ Resolve(u) PROVE RingsSound'
  BY <1>3, <1>9 DEF Transfer, Vote, Resolve
<1>10. CASE UNCHANGED vars
  BY <1>3, <1>10 DEF vars
<1> QED
  BY <1>4, <1>5, <1>6, <1>7, <1>8, <1>9, <1>10 DEF Next

LEMMA InitBooks ==
  ASSUME Init
  PROVE  Books
<1>1. IInv
  BY InitHolds
<1> DEFINE e == [NoStake EXCEPT !.rawAt = OpenedAt]
           p == [NoPosition EXCEPT !.rawAt = OpenedAt]
<1>2. /\ e \in PoolRec /\ e.stake = 0 /\ e.conv = 0 /\ e.acc = 0 /\ e.raw = 0 /\ e.rawAt = 1
      /\ p.stake = 0 /\ p.conv = 0 /\ p.acc = 0 /\ p.raw = 0 /\ p.rawAt = 1
  <2>1. NoStake \in PoolRec
    BY DEF NoStake, PoolRec
  <2>2. e \in PoolRec
    BY <2>1 DEF PoolRec, OpenedAt
  <2>3. e.stake = 0 /\ e.conv = 0 /\ e.acc = 0 /\ e.raw = 0 /\ e.rawAt = 1
    BY DEF NoStake, OpenedAt
  <2>4. p.stake = 0 /\ p.conv = 0 /\ p.acc = 0 /\ p.raw = 0 /\ p.rawAt = 1
    BY DEF NoPosition, OpenedAt
  <2> QED
    BY <2>2, <2>3, <2>4
<1>3. /\ pools = [c \in Claims |-> [s \in Sides |-> e]]
      /\ pos = [c \in Claims |-> [b \in Backers[c] |-> p]]
      /\ claims = [c \in Claims |-> NewClaim] /\ now = 1 /\ acc = 0
      /\ ring = [c \in Claims |-> [at |-> 0, buckets |-> <<>>]]
  BY DEF Init, OpenedAt
<1> HIDE DEF e, p
<1>4. PoolsTyped
  BY <1>2, <1>3 DEF PoolsTyped
<1>5. \A c \in Claims : ~Frozen(c) /\ claims[c] = NewClaim
  BY <1>3 DEF Frozen, NewClaim
<1>6. PositionsRipe
  <2>1. Due(p) = 0
    BY <1>2 DEF Due
  <2>2. ASSUME NEW c \in Claims, NEW b \in Backers[c] PROVE Ripe(c, pos[c][b])
    <3>1. pos[c][b] = p /\ RateAcc(c) = 0 /\ RawNow(c) = 1
      BY <1>3, <1>5 DEF RateAcc, RawNow
    <3> QED
      BY <1>2, <2>1, <3>1 DEF Ripe
  <2> QED
    BY <2>2 DEF PositionsRipe
<1>7. ClaimsSound
  <2>1. Sound(NewClaim)
    BY DEF Sound, NewClaim
  <2> QED
    BY <1>5, <2>1 DEF ClaimsSound
<1>8. RingsSound
  <2>1. \A c \in Claims : ring[c] = [at |-> 0, buckets |-> <<>>]
    BY <1>3
  <2>2. <<>> \in Seq(Int)
    OBVIOUS
  <2>3. \A c \in Claims : ring[c].at = 0 /\ ring[c].buckets = <<>>
    BY <2>1
  <2>4. DOMAIN ring = Claims
    BY <1>3
  <2>5. \A c \in Claims : ring[c].at \in Nat /\ ring[c].at <= now
    BY <1>3, <2>3
  <2>6. \A c \in Claims : ring[c].buckets \in Seq(Int)
    BY <2>2, <2>3, Zenon
  <2> QED
    BY <2>4, <2>5, <2>6, Zenon DEF RingsSound
<1>9. PoolsAddUp
  <2> SUFFICES ASSUME NEW c \in Claims, NEW s \in Sides
               PROVE  AddsUp(pools[c][s], pos[c], Of(c, s))
    BY DEF PoolsAddUp
  <2> DEFINE S == Of(c, s)
             ps == pos[c]
  <2>1. IsFiniteSet(S) /\ S \subseteq Backers[c]
    BY OfFinite
  <2>2. \A b \in S : ps[b] = p
    BY <1>3, <2>1
  <2>3. p.stake = 0 /\ Due(p) = 0 /\ Old(p) = 0
    BY <1>2 DEF Due, Old
  <2> HIDE DEF ps, S
  <2>4. /\ \A b \in S : StakesIn(ps, S)[b] = 0
        /\ \A b \in S : DuesIn(ps, S)[b] = 0
        /\ \A b \in S : OldsIn(ps, S)[b] = 0
    BY <2>2, <2>3 DEF StakesIn, DuesIn, OldsIn
  <2>5. /\ SumFunctionOnSet(StakesIn(ps, S), S) = 0 /\ SumFunctionOnSet(DuesIn(ps, S), S) = 0
        /\ SumFunctionOnSet(OldsIn(ps, S), S) = 0
    BY <2>1, <2>4, SumOfZeros
  <2>6. pools[c][s] = e
    BY <1>3
  <2>7. e.stake = 0 /\ Due(e) = 0 /\ Old(e) = 0
    BY <1>2 DEF Due, Old
  <2> QED
    BY <2>5, <2>6, <2>7 DEF AddsUp, ps, S
<1> QED
  BY <1>1, <1>4, <1>6, <1>7, <1>8, <1>9 DEF Books

LEMMA StepBooks ==
  ASSUME Books, [Next]_vars
  PROVE  Books'
<1>1. Base0
  BY DEF Books, Base0
<1>2. IInv'
  BY StepHarmless DEF Books
<1>3. PoolsTyped' /\ \A c \in Claims : Turn(c)
  BY <1>1, StepTurns
<1>4. \A c \in Claims : Onward(c)
  BY StepOnward DEF Books
<1>5. PositionsRipe'
  <2>1. \A c \in Claims : \A b \in Backers[c] : Ripe(c, pos[c][b])'
    BY <1>2, <1>3, <1>4, RipeKept DEF Books
  <2> QED
    BY <2>1 DEF PositionsRipe
<1>6. PoolsAddUp'
  BY <1>2, <1>3, SumsKept DEF PoolsAddUp, Books
<1>7. ClaimsSound' /\ RingsSound'
  BY StepClaims, StepRings
<1> QED
  BY <1>2, <1>3, <1>5, <1>6, <1>7 DEF Books

LEMMA BooksHold == Spec => []Books
<1>1. Books /\ [Next]_vars => Books'
  BY StepBooks
<1> QED
  BY InitBooks, <1>1, PTL DEF Spec

(* Settled to the same moment, a side's pool is the sum of its positions,  *)
(* in stake, in conviction and in history, whoever settled when and        *)
(* whatever was rounded on the way out (stake.gno:89-116, 259-281).        *)
THEOREM PoolsStaySums == Spec => []PoolsAreSums
<1>1. Books => PoolsAreSums
  <2> SUFFICES ASSUME Books, NEW c \in Claims, NEW s \in Sides, NEW f \in {"stake", "conv", "raw"}
               PROVE  Advanced(c)[s][f] = Total(c, s, f)
    BY DEF PoolsAreSums
  <2>1. Advanced(c)[s] = Settled(c, pools[c][s])
    BY DEF Advanced
  <2>2. Total(c, s, f) = SumFunctionOnSet(SettledIn(c, pos[c], f, Of(c, s)), Of(c, s))
    BY TotalIs
  <2>3. /\ Settled(c, pools[c][s]).stake = SumFunctionOnSet(SettledIn(c, pos[c], "stake", Of(c, s)), Of(c, s))
        /\ Settled(c, pools[c][s]).conv = SumFunctionOnSet(SettledIn(c, pos[c], "conv", Of(c, s)), Of(c, s))
        /\ Settled(c, pools[c][s]).raw = SumFunctionOnSet(SettledIn(c, pos[c], "raw", Of(c, s)), Of(c, s))
    BY SettledSums
  <2> QED
    BY <2>1, <2>2, <2>3
<1> QED
  BY <1>1, BooksHold, PTL

-----------------------------------------------------------------------------
(* 11. What the answer writes into a claim, and what it pins.              *)

(* What a step makes of the part of a claim's record that the answer sets: *)
(* nothing, or the answer is posted.                                       *)
SameRecord(c) ==
  /\ claims'[c].frozenAt = claims[c].frozenAt /\ claims'[c].accAtFreeze = claims[c].accAtFreeze
  /\ claims'[c].atFreeze = claims[c].atFreeze /\ claims'[c].xbar = claims[c].xbar

Posted(c) ==
  /\ ~Frozen(c) /\ now' = now /\ acc' = acc /\ past' = past
  /\ Mature(ring[c]) /\ pools'[c] = Advanced(c)
  /\ claims'[c].frozenAt = now /\ claims'[c].accAtFreeze = acc
  /\ claims'[c].atFreeze = [s \in Sides |-> Advanced(c)[s].stake]
  /\ claims'[c].xbar = Base(c, Advanced(c))

Ticked ==
  /\ now' = now + 1 /\ UNCHANGED <<claims, pools>>
  /\ past' = [c \in Claims |-> IF Frozen(c) THEN past[c] ELSE past[c] + StakedOn(pools[c])]

LEMMA RecordDomain ==
  ASSUME Books, NEW c \in Claims
  PROVE  DOMAIN claims = Claims /\ DOMAIN claims[c] = ClaimFields /\ DOMAIN pools = Claims
  BY FieldsAre DEF Books, IInv, FreezePast, ClaimsSound, Sound, PoolsTyped

LEMMA StepRecords ==
  ASSUME Books, [Next]_vars
  PROVE  /\ \A c \in Claims : SameRecord(c) \/ Posted(c)
         /\ Ticked \/ (now' = now /\ past' = past)
<1>1. ASSUME UNCHANGED <<claims, now, past>>
      PROVE  (\A c \in Claims : SameRecord(c)) /\ now' = now /\ past' = past
  BY <1>1 DEF SameRecord
<1>2. ASSUME NEW rate, Tick(rate)
      PROVE  (\A c \in Claims : SameRecord(c)) /\ Ticked
  BY <1>2 DEF Tick, Ticked, SameRecord
<1>3. ASSUME NEW c \in Claims, NEW u, NEW s, PostAnswer(c, u, s)
      PROVE  (\A d \in Claims : SameRecord(d) \/ Posted(d)) /\ now' = now /\ past' = past
  <2>1. DOMAIN claims = Claims /\ DOMAIN claims[c] = ClaimFields /\ DOMAIN pools = Claims
    BY RecordDomain
  <2> DEFINE at == [side \in Sides |-> Advanced(c)[side].stake]
             x == Base(c, Advanced(c))
             bond == AnswerBond(x, Advanced(c))
  <2>2. /\ ~Frozen(c) /\ now' = now /\ acc' = acc /\ past' = past /\ Mature(ring[c])
        /\ pools' = [pools EXCEPT ![c] = Advanced(c)]
        /\ claims' = [claims EXCEPT ![c] = [@ EXCEPT !.frozenAt = now, !.accAtFreeze = acc, !.xbar = x,
                        !.atFreeze = at, !.answer = s, !.answerer = u, !.bond = bond]]
    BY <1>3 DEF PostAnswer
  <2> HIDE DEF at, x, bond
  <2>3. /\ claims'[c].frozenAt = now /\ claims'[c].accAtFreeze = acc /\ claims'[c].atFreeze = at
        /\ claims'[c].xbar = x /\ \A d \in Claims \ {c} : claims'[d] = claims[d]
    BY <2>1, <2>2 DEF ClaimFields
  <2>4. pools'[c] = Advanced(c)
    BY <2>1, <2>2
  <2>5. Posted(c)
    BY <2>2, <2>3, <2>4 DEF Posted, at, x
  <2>6. \A d \in Claims \ {c} : SameRecord(d)
    BY <2>3 DEF SameRecord
  <2> QED
    BY <2>2, <2>5, <2>6
<1>4. ASSUME NEW c \in Claims, CloseDeadClaim(c)
      PROVE  (\A d \in Claims : SameRecord(d)) /\ now' = now /\ past' = past
  BY <1>4 DEF CloseDeadClaim, SameRecord, Books, IInv, FreezePast
<1>5. ASSUME NEW c \in Claims, NEW s, Round(c, s)
      PROVE  (\A d \in Claims : SameRecord(d)) /\ now' = now /\ past' = past
  BY <1>5 DEF Round, SameRecord, Books, IInv, FreezePast
<1>6. ASSUME NEW c \in Claims, Finalize(c)
      PROVE  (\A d \in Claims : SameRecord(d)) /\ now' = now /\ past' = past
  BY <1>6 DEF Finalize, SameRecord, Books, IInv, FreezePast
<1>7. ASSUME NEW c \in Claims, NEW grant, OpenRewards(c, grant)
      PROVE  (\A d \in Claims : SameRecord(d)) /\ now' = now /\ past' = past
  BY <1>7 DEF OpenRewards, SameRecord, Books, IInv, FreezePast
<1>8. ASSUME NEW c, NEW b, NEW n, Stake(c, b[1], b[2], n) \/ Unstake(c, b[1], b[2], n)
                  \/ WithdrawStake(c, b[1], b[2]) \/ WithdrawBonus(c, b[1], b[2])
      PROVE  (\A d \in Claims : SameRecord(d)) /\ now' = now /\ past' = past
  BY <1>1, <1>8 DEF Stake, Unstake, WithdrawStake, WithdrawBonus
<1>9. ASSUME NEW from, NEW to, NEW n, NEW u, Transfer(from, to, n) \/ Vote(u) \/ Resolve(u)
      PROVE  (\A c \in Claims : SameRecord(c)) /\ now' = now /\ past' = past
  BY <1>1, <1>9 DEF Transfer, Vote, Resolve
<1>10. CASE UNCHANGED vars
  BY <1>1, <1>10 DEF vars
<1> QED
  BY <1>2, <1>3, <1>4, <1>5, <1>6, <1>7, <1>8, <1>9, <1>10 DEF Next

-----------------------------------------------------------------------------
(* Once a claim is answered its pools are settled to the answer, and their *)
(* credit is what the coin of the answer may have earned.                  *)
PoolPinned(k, q, s) == q.acc = k.accAtFreeze /\ q.conv <= k.accAtFreeze * k.atFreeze[s]

PoolsPinned == \A c \in Claims, s \in Sides : Frozen(c) => PoolPinned(claims[c], pools[c][s], s)

LEMMA SumNotAbove ==
  ASSUME NEW f, NEW S, IsFiniteSet(S), Integral(f, S), \A x \in S : f[x] <= 0
  PROVE  SumFunctionOnSet(f, S) <= 0
<1>1. \A x \in S : 1 * f[x] <= 0 * f[x]
  BY DEF Integral
<1>2. 1 * SumFunctionOnSet(f, S) <= 0 * SumFunctionOnSet(f, S)
  BY <1>1, SumScaled
<1> QED
  BY <1>2, SumIsInt

(* Before the answer a pool has no credit its coin would not have earned.  *)
LEMMA PoolEarned ==
  ASSUME Books, NEW c \in Claims, NEW s \in Sides, ~Frozen(c)
  PROVE  /\ Due(pools[c][s]) <= 0 /\ pools[c][s].stake \in Nat
         /\ Settled(c, pools[c][s]).conv <= RateAcc(c) * pools[c][s].stake
<1> DEFINE q == pools[c][s]
           ps == pos[c]
           S == Of(c, s)
           f == DuesIn(ps, S)
           A == RateAcc(c)
<1>1. IsFiniteSet(S) /\ S \subseteq Backers[c]
  BY OfFinite
<1>2. ASSUME NEW b \in S PROVE f[b] \in Int /\ f[b] <= 0
  <2>1. ps[b] \in PosRec /\ Ripe(c, ps[b])
    BY <1>1 DEF Books, IInv, PositionsTyped, PositionsRipe
  <2>2. Due(ps[b]) \in Int /\ Due(ps[b]) <= 0
    BY <2>1, PosFields, AccountIs DEF Ripe
  <2> QED
    BY <2>2 DEF DuesIn
<1>3. Due(q) = SumFunctionOnSet(f, S)
  BY DEF Books, PoolsAddUp, AddsUp
<1>4. SumFunctionOnSet(f, S) <= 0
  <2> HIDE DEF f, S
  <2>1. Integral(f, S)
    BY <1>2 DEF Integral
  <2> QED
    BY <1>1, <1>2, <2>1, SumNotAbove
<1>5. q \in PoolRec /\ Due(q) \in Int /\ q.stake \in Nat
  <2>1. q \in PoolRec
    BY DEF Books, PoolsTyped
  <2> QED
    BY <2>1, PoolFields, AccountIs, SettledSums
<1>6. A \in Nat
  BY RateIsNat DEF Books
<1>7. Settled(c, q).conv = Due(q) + q.stake * A
  <2>1. Settled(c, q).conv = q.conv + q.stake * (A - q.acc)
    BY <1>5, PoolSettledIs DEF Books, IInv
  <2> QED
    BY <1>5, <1>6, <2>1, PoolFields, AccountIs
<1>8. Due(q) <= 0
  BY <1>3, <1>4
<1> DEFINE d == Due(q)
           t == q.stake
<1>9. d \in Int /\ d <= 0 /\ t \in Nat
  BY <1>5, <1>8
<1>10. Settled(c, q).conv = d + t * A
  BY <1>7
<1> HIDE DEF d, t, A
<1>11. t * A = A * t /\ t * A \in Nat
  BY <1>6, <1>9
<1>12. d + t * A <= A * t
  BY <1>9, <1>11
<1> QED
  BY <1>9, <1>10, <1>12 DEF d, t, A, q

LEMMA PinnedKept ==
  ASSUME Books, Books', PoolsPinned, NEW c \in Claims, SameRecord(c), Turn(c), Frozen(c), NEW s \in Sides
  PROVE  PoolPinned(claims'[c], pools'[c][s], s)
<1> DEFINE q == pools[c][s]
           z == pools'[c][s]
<1>1. PoolPinned(claims[c], q, s) /\ RateAcc(c) = claims[c].accAtFreeze
  BY FrozenReads DEF PoolsPinned, Books, IInv
<1>2. q \in PoolRec
  BY DEF Books, PoolsTyped
<1>3. Settled(c, q).conv = q.conv
  <2>1. Settled(c, q).conv = q.conv + q.stake * (RateAcc(c) - q.acc) /\ q.acc = RateAcc(c)
    BY <1>1, <1>2, PoolSettledIs DEF Books, IInv, PoolPinned
  <2> DEFINE v == q.conv
             t == q.stake
             a == q.acc
  <2>2. Settled(c, q).conv = v + t * (a - a) /\ v \in Int /\ t \in Int /\ a \in Int
    BY <1>2, <2>1 DEF PoolRec
  <2> HIDE DEF v, t, a
  <2>3. t * (a - a) = 0
    BY <2>2
  <2>4. Settled(c, q).conv = v
    BY <2>2, <2>3
  <2> QED
    BY <2>4 DEF v
<1>4. z = q \/ (z.acc = RateAcc(c) /\ z.conv = q.conv)
  <2>1. ASSUME NEW n, Reckoned(c, q, z, n, 0) PROVE z.acc = RateAcc(c) /\ z.conv = q.conv
    <3>1. z.acc = RateAcc(c) /\ z.conv = q.conv + 0 /\ q.conv \in Int
      BY <1>2, <1>3, <2>1 DEF Reckoned, PoolRec
    <3> QED
      BY <3>1
  <2>2. CASE Quiet(c)
    BY <2>2 DEF Quiet
  <2>3. CASE PoolsRead(c)
    BY <2>1, <2>3 DEF PoolsRead
  <2>4. ASSUME NEW b \in Backers[c], NEW n \in Int, NEW m \in Int, Moved(c, b, n, m)
        PROVE  z = q \/ (z.acc = RateAcc(c) /\ z.conv = q.conv)
    <3>1. m = 0
      BY <2>4 DEF Moved
    <3>2. z = q \/ Reckoned(c, q, z, 0, 0) \/ Reckoned(c, q, z, n, 0)
      BY <2>4, <3>1 DEF Moved
    <3> QED
      BY <2>1, <3>2
  <2> QED
    BY <2>2, <2>3, <2>4 DEF Turn
<1> QED
  BY <1>1, <1>4 DEF PoolPinned, SameRecord

-----------------------------------------------------------------------------
(* 12. Credit follows the coin, and a drained claim keeps its base.        *)

LEMMA StepPinned ==
  ASSUME Books, PoolsPinned, [Next]_vars
  PROVE  PoolsPinned'
<1>1. Books' /\ \A c \in Claims : Turn(c)
  BY StepBooks, StepTurns DEF Books, Base0
<1>2. \A c \in Claims : SameRecord(c) \/ Posted(c)
  BY StepRecords
<1>3. ASSUME NEW c \in Claims, NEW s \in Sides, Frozen(c)', SameRecord(c)
      PROVE  PoolPinned(claims'[c], pools'[c][s], s)
  <2>1. Frozen(c)
    BY <1>3 DEF Frozen, SameRecord
  <2> QED
    BY <1>1, <1>3, <2>1, PinnedKept
<1>4. ASSUME NEW c \in Claims, NEW s \in Sides, Posted(c)
      PROVE  PoolPinned(claims'[c], pools'[c][s], s)
  <2> DEFINE q == pools[c][s]
             z == Settled(c, q)
  <2>1. pools'[c][s] = z
    BY <1>4 DEF Posted, Advanced
  <2>2. claims'[c].accAtFreeze = acc /\ claims'[c].atFreeze[s] = z.stake
    BY <1>4 DEF Posted, Advanced
  <2>3. RateAcc(c) = acc /\ ~Frozen(c)
    BY <1>4 DEF Posted, RateAcc
  <2>4. z.conv <= RateAcc(c) * q.stake /\ z.stake = q.stake
    BY <2>3, PoolEarned, SettledSums
  <2>5. z.acc = RateAcc(c)
    BY PoolSettledIs DEF Books, PoolsTyped, IInv
  <2> HIDE DEF z, q
  <2> QED
    BY <2>1, <2>2, <2>3, <2>4, <2>5 DEF PoolPinned
<1>5. ASSUME NEW c \in Claims, NEW s \in Sides, Frozen(c)'
      PROVE  PoolPinned(claims'[c], pools'[c][s], s)
  BY <1>2, <1>3, <1>4, <1>5
<1> QED
  BY <1>5 DEF PoolsPinned

LEMMA PinnedHold == Spec => [](Books /\ PoolsPinned)
<1>1. Init => Books /\ PoolsPinned
  BY InitBooks DEF Init, PoolsPinned, Frozen, NewClaim
<1>2. (Books /\ PoolsPinned) /\ [Next]_vars => (Books /\ PoolsPinned)'
  BY StepPinned, StepBooks
<1> QED
  BY <1>1, <1>2, PTL DEF Spec

(* Credit follows the coin: a side has no more conviction than the coin on *)
(* it now, or at the answer, would have earned over the whole life of the  *)
(* claim, however much more was staked and withdrawn in between            *)
(* (stake.gno:222-242).                                                    *)
THEOREM CreditStaysWithCoin == Spec => []CreditFollowsCoin
<1>1. Books /\ PoolsPinned => CreditFollowsCoin
  <2> SUFFICES ASSUME Books, PoolsPinned, NEW c \in Claims, NEW s \in Sides
               PROVE  Settled(c, pools[c][s]).conv <=
                        RateAcc(c) * (IF Frozen(c) THEN claims[c].atFreeze[s] ELSE pools[c][s].stake)
    BY DEF CreditFollowsCoin, Advanced
  <2>1. CASE ~Frozen(c)
    BY <2>1, PoolEarned
  <2>2. CASE Frozen(c)
    <3> DEFINE q == pools[c][s]
               v == q.conv
               t == q.stake
               a == q.acc
    <3>1. RateAcc(c) = claims[c].accAtFreeze /\ PoolPinned(claims[c], q, s)
      BY <2>2, FrozenReads DEF Books, IInv, PoolsPinned
    <3>2. q \in PoolRec
      BY DEF Books, PoolsTyped
    <3>3. Settled(c, q).conv = q.conv + q.stake * (RateAcc(c) - q.acc) /\ q.acc = RateAcc(c)
      BY <3>1, <3>2, PoolSettledIs DEF Books, IInv, PoolPinned
    <3>4. Settled(c, q).conv = v + t * (a - a) /\ v \in Int /\ t \in Int /\ a \in Int
      BY <3>2, <3>3 DEF PoolRec
    <3>5. v <= RateAcc(c) * claims[c].atFreeze[s]
      BY <3>1 DEF PoolPinned
    <3> HIDE DEF v, t, a
    <3>6. t * (a - a) = 0
      BY <3>4
    <3>7. Settled(c, q).conv = v
      BY <3>4, <3>6
    <3> QED
      BY <2>2, <3>5, <3>7
  <2> QED
    BY <2>1, <2>2
<1> QED
  BY <1>1, PinnedHold, PTL

-----------------------------------------------------------------------------
(* What was staked on a claim, summed over its blocks, is the history of   *)
(* its two pools, as long as nobody has answered it.                       *)
Worn(q, t) == Old(q) + q.stake * t

PastTold(c) ==
  /\ past[c] \in Int
  /\ ~Frozen(c) => past[c] = Worn(pools[c]["YES"], now) + Worn(pools[c]["NO"], now)
  /\ Frozen(c) => past[c] < (claims[c].xbar + 1) * Larger(1, claims[c].frozenAt - OpenedAt)

PastsTold == \A c \in Claims : PastTold(c)

LEMMA WornIs ==
  ASSUME Books, NEW c \in Claims, NEW s \in Sides
  PROVE  /\ Worn(pools[c][s], now) \in Int
         /\ ~Frozen(c) => Settled(c, pools[c][s]).raw = Worn(pools[c][s], now)
         /\ Worn(pools[c][s], now + 1) = Worn(pools[c][s], now) + pools[c][s].stake
<1> DEFINE q == pools[c][s]
<1>1. q \in PoolRec /\ now \in Int
  BY DEF Books, PoolsTyped, IInv, ClockTyped
<1>2. Account(q) /\ Old(q) \in Int /\ q.stake \in Int /\ q.raw + q.stake * (now - q.rawAt) = Old(q) + q.stake * now
  BY <1>1, PoolFields, AccountIs DEF Account
<1>3. ~Frozen(c) => Settled(c, q).raw = q.raw + q.stake * (now - q.rawAt)
  BY <1>1, PoolSettledIs DEF Books, IInv, RawNow
<1> DEFINE o == Old(q)
           t == q.stake
<1>4. o \in Int /\ t \in Int /\ Worn(q, now) = o + t * now /\ Worn(q, now + 1) = o + t * (now + 1)
  BY <1>2 DEF Worn
<1> HIDE DEF o, t
<1>5. t * (now + 1) = t * now + t /\ t * now \in Int
  BY <1>1, <1>4
<1>6. Worn(q, now + 1) = Worn(q, now) + t /\ Worn(q, now) \in Int
  BY <1>1, <1>4, <1>5
<1>7. ~Frozen(c) => Settled(c, q).raw = Worn(q, now)
  BY <1>2, <1>3 DEF Worn
<1> QED
  BY <1>6, <1>7 DEF t, q

(* Moving stake leaves what was there.                                     *)
LEMMA WornKept ==
  ASSUME Books, NEW c \in Claims, ~Frozen(c), Turn(c), NEW s \in Sides
  PROVE  Worn(pools'[c][s], now) = Worn(pools[c][s], now)
<1> DEFINE q == pools[c][s]
           z == pools'[c][s]
<1>1. q \in PoolRec /\ now \in Int
  BY DEF Books, PoolsTyped, IInv, ClockTyped
<1>2. RawNow(c) = now
  BY DEF RawNow
<1>3. ASSUME NEW n \in Int, NEW m \in Int, Reckoned(c, q, z, n, m)
      PROVE  Worn(z, now) = Worn(q, now)
  <2>1. z.stake = q.stake + n /\ Old(z) = Old(q) - n * RawNow(c)
    BY <1>1, <1>3, PoolReckoned DEF Books, IInv
  <2> DEFINE o == Old(q)
             t == q.stake
  <2>2. o \in Int /\ t \in Int
    BY <1>1, PoolFields, AccountIs DEF Account
  <2>3. Worn(z, now) = (o - n * now) + (t + n) * now /\ Worn(q, now) = o + t * now
    BY <1>2, <2>1 DEF Worn
  <2> HIDE DEF o, t
  <2>4. (t + n) * now = t * now + n * now /\ t * now \in Int /\ n * now \in Int
    BY <1>1, <2>2
  <2> QED
    BY <2>2, <2>3, <2>4
<1>4. z = q \/ \E n \in Int, m \in Int : Reckoned(c, q, z, n, m)
  <2>0. 0 \in Int
    OBVIOUS
  <2>1. CASE Quiet(c)
    BY <2>1 DEF Quiet
  <2>2. CASE PoolsRead(c)
    BY <2>0, <2>2 DEF PoolsRead
  <2>3. ASSUME NEW b \in Backers[c], NEW n \in Int, NEW m \in Int, Moved(c, b, n, m)
        PROVE  z = q \/ \E i \in Int, j \in Int : Reckoned(c, q, z, i, j)
    <3>1. z = q \/ Reckoned(c, q, z, 0, 0) \/ Reckoned(c, q, z, n, m)
      BY <2>3 DEF Moved
    <3> QED
      BY <2>0, <3>1
  <2> QED
    BY <2>1, <2>2, <2>3 DEF Turn
<1> QED
  BY <1>3, <1>4

LEMMA AverageBound ==
  ASSUME NEW v, NEW l, NEW x, v \in Int, l \in Nat \ {0}, x \in Int, x >= v \div l
  PROVE  v < (x + 1) * l
<1> DEFINE d == v \div l
<1>1. d \in Int /\ v < (d + 1) * l /\ d <= x
  OBVIOUS
<1> HIDE DEF d
<1>2. (d + 1) * l <= (x + 1) * l /\ (d + 1) * l \in Int /\ (x + 1) * l \in Int
  BY <1>1
<1> QED
  BY <1>1, <1>2

LEMMA PastKept ==
  ASSUME Books, Books', PastsTold, NEW c \in Claims, Turn(c), SameRecord(c) \/ Posted(c),
         Ticked \/ (now' = now /\ past' = past)
  PROVE  PastTold(c)'
<1> DEFINE y == pools[c]["YES"]
           n == pools[c]["NO"]
<1>0. "YES" \in Sides /\ "NO" \in Sides /\ PastTold(c)
  BY DEF Sides, PastsTold
<1>1. CASE SameRecord(c) /\ Frozen(c)
  <2>1. past'[c] = past[c] /\ Frozen(c)' /\ claims'[c].xbar = claims[c].xbar /\ claims'[c].frozenAt = claims[c].frozenAt
    BY <1>1 DEF SameRecord, Frozen, Ticked
  <2> QED
    BY <1>0, <1>1, <2>1 DEF PastTold
<1>2. CASE SameRecord(c) /\ ~Frozen(c) /\ Ticked
  <2>1. past'[c] = past[c] + StakedOn(pools[c]) /\ now' = now + 1 /\ pools' = pools /\ ~Frozen(c)'
    BY <1>2 DEF SameRecord, Frozen, Ticked
  <2>2. /\ Worn(y, now + 1) = Worn(y, now) + y.stake /\ Worn(n, now + 1) = Worn(n, now) + n.stake
        /\ Worn(y, now) \in Int /\ Worn(n, now) \in Int
    BY <1>0, WornIs
  <2>3. y.stake \in Int /\ n.stake \in Int
    BY <1>0 DEF Books, PoolsTyped, PoolRec
  <2>4. past[c] = Worn(y, now) + Worn(n, now) /\ past[c] \in Int
    BY <1>0, <1>2 DEF PastTold
  <2>5. StakedOn(pools[c]) = y.stake + n.stake
    BY DEF StakedOn
  <2>6. past'[c] = Worn(y, now') + Worn(n, now') /\ past'[c] \in Int
    BY <2>1, <2>2, <2>3, <2>4, <2>5
  <2> QED
    BY <2>1, <2>6 DEF PastTold
<1>3. CASE SameRecord(c) /\ ~Frozen(c) /\ now' = now /\ past' = past
  <2>1. ~Frozen(c)' /\ past[c] = Worn(y, now) + Worn(n, now) /\ past[c] \in Int
    BY <1>0, <1>3 DEF SameRecord, Frozen, PastTold
  <2>2. Worn(pools'[c]["YES"], now) = Worn(y, now) /\ Worn(pools'[c]["NO"], now) = Worn(n, now)
    BY <1>0, <1>3, WornKept
  <2>3. past'[c] = Worn(pools'[c]["YES"], now') + Worn(pools'[c]["NO"], now') /\ past'[c] \in Int
    BY <1>3, <2>1, <2>2
  <2> QED
    BY <2>1, <2>3 DEF PastTold
<1>4. CASE Posted(c)
  <2> DEFINE ps == Advanced(c)
             x == Base(c, ps)
             l == Larger(1, now - OpenedAt)
             v == ps["YES"].raw + ps["NO"].raw
  <2>1. /\ ~Frozen(c) /\ past'[c] = past[c] /\ Mature(ring[c])
        /\ claims'[c].xbar = x /\ claims'[c].frozenAt = now
    BY <1>4 DEF Posted
  <2>2. past[c] = Worn(y, now) + Worn(n, now) /\ past[c] \in Int
    BY <1>0, <2>1 DEF PastTold
  <2>3. ps["YES"].raw = Worn(y, now) /\ ps["NO"].raw = Worn(n, now)
    BY <1>0, <2>1, WornIs DEF Advanced
  <2>4. x \in Int /\ x >= LifeAverage(ps)
    BY <2>1, BarsTyped
  <2>5. LifeAverage(ps) = v \div l
    BY DEF LifeAverage
  <2>6. now \in Nat \ {0} /\ l \in Nat \ {0}
    BY DEF Books, IInv, ClockTyped, Larger, OpenedAt
  <2>7. v = past[c]
    BY <2>2, <2>3
  <2> HIDE DEF ps, x, l, v
  <2>8. v < (x + 1) * l
    BY <2>2, <2>4, <2>5, <2>6, <2>7, AverageBound
  <2>9. Frozen(c)'
    BY <2>1, <2>6 DEF Frozen
  <2> QED
    BY <2>1, <2>2, <2>7, <2>8, <2>9 DEF PastTold, l
<1> QED
  BY <1>1, <1>2, <1>3, <1>4

LEMMA PastsHold == Spec => [](Books /\ PastsTold)
<1>1. Init => Books /\ PastsTold
  <2> SUFFICES ASSUME Init PROVE PastsTold
    BY InitBooks
  <2> SUFFICES ASSUME NEW c \in Claims PROVE PastTold(c)
    BY DEF PastsTold
  <2> DEFINE e == [NoStake EXCEPT !.rawAt = OpenedAt]
  <2>1. pools[c]["YES"] = e /\ pools[c]["NO"] = e /\ past[c] = 0 /\ now = 1 /\ ~Frozen(c)
    BY DEF Init, Sides, OpenedAt, Frozen, NewClaim
  <2>2. e.stake = 0 /\ e.raw = 0 /\ e.rawAt = 1
    BY DEF NoStake, OpenedAt
  <2> HIDE DEF e
  <2>3. Worn(e, now) = 0
    BY <2>1, <2>2 DEF Worn, Old
  <2> QED
    BY <2>1, <2>3 DEF PastTold
<1>2. (Books /\ PastsTold) /\ [Next]_vars => (Books /\ PastsTold)'
  <2> SUFFICES ASSUME Books, PastsTold, [Next]_vars PROVE Books' /\ PastsTold'
    OBVIOUS
  <2>1. Books' /\ \A c \in Claims : Turn(c)
    BY StepBooks, StepTurns DEF Books, Base0
  <2>2. \A c \in Claims : PastTold(c)'
    BY <2>1, StepRecords, PastKept
  <2> QED
    BY <2>1, <2>2 DEF PastsTold
<1> QED
  BY <1>1, <1>2, PTL DEF Spec

(* Draining a claim before answering it does not cheapen it: the base of   *)
(* its bars is at least the average of what was ever staked on it          *)
(* (stake.gno:248-257, answer.gno:104-135).                                *)
THEOREM DrainedBasesStand == Spec => []DrainKeepsTheBase
<1>1. Books /\ PastsTold => DrainKeepsTheBase
  BY DEF DrainKeepsTheBase, PastsTold, PastTold
<1> QED
  BY <1>1, PastsHold, PTL

-----------------------------------------------------------------------------
(* 13. What a holder has staked over all claims, and what a bonus is.      *)

(* The positions a user holds, on all claims.                              *)
HeldStakes(ps, u) == [h \in HeldBy(u) |-> ps[h[1]][h[2]].stake]

LEMMA HeldFinite ==
  ASSUME NEW u \in Users
  PROVE  /\ IsFiniteSet(HeldBy(u))
         /\ \A h \in HeldBy(u) : h = <<h[1], h[2]>> /\ h[1] \in Claims /\ h[2] \in Backers[h[1]] /\ h[2][1] = u
         /\ \A c \in Claims : \A b \in Backers[c] : <<c, b>> \in HeldBy(u) <=> b[1] = u
<1>1. \A h : h \in HeldBy(u) <=> \E c \in Claims : \E b \in Backers[c] : b[1] = u /\ h = <<c, b>>
  BY DEF HeldBy
<1>2. \A h \in HeldBy(u) : h = <<h[1], h[2]>> /\ h[1] \in Claims /\ h[2] \in Backers[h[1]] /\ h[2][1] = u
  BY <1>1
<1>3. \A c \in Claims : \A b \in Backers[c] : <<c, b>> \in HeldBy(u) <=> b[1] = u
  BY <1>1
<1>4. IsFiniteSet(Claims \X (Users \X Sides))
  <2>1. IsFiniteSet({"YES"}) /\ IsFiniteSet({"NO"}) /\ Sides = {"YES"} \cup {"NO"}
    BY FS_Singleton DEF Sides
  <2>2. IsFiniteSet(Sides) /\ IsFiniteSet(Users) /\ IsFiniteSet(Claims)
    BY <2>1, FS_Union, StakesAssumption
  <2>3. IsFiniteSet(Users \X Sides)
    BY <2>2, FS_Product
  <2> QED
    BY <2>2, <2>3, FS_Product
<1>5. HeldBy(u) \subseteq Claims \X (Users \X Sides)
  <2>1. \A c \in Claims : Backers[c] \subseteq Users \X Sides
    BY StakesAssumption
  <2> QED
    BY <1>1, <2>1
<1> QED
  BY <1>2, <1>3, <1>4, <1>5, FS_Subset

LEMMA HeldIs ==
  ASSUME NEW u \in Users
  PROVE  MapThenSumSet(LAMBDA h : pos[h[1]][h[2]].stake, HeldBy(u)) = SumFunctionOnSet(HeldStakes(pos, u), HeldBy(u))
<1> DEFINE S == HeldBy(u)
           h == HeldStakes(pos, u)
           at(x) == pos[x[1]][x[2]].stake
           IsIter(g) == g = [r \in SUBSET S |->
                              IF r = {} THEN 0
                              ELSE at(CHOOSE x \in r : TRUE) + g[r \ {CHOOSE x \in r : TRUE}]]
<1>1. \A g : IsIter(g) <=> IsSum(g, h, S)
  <2> SUFFICES ASSUME NEW g, NEW r \in SUBSET S
               PROVE  SumStep(g, h, r) =
                        IF r = {} THEN 0
                        ELSE at(CHOOSE x \in r : TRUE) + g[r \ {CHOOSE x \in r : TRUE}]
    <3> HIDE DEF h, S, at
    <3> QED
      BY ZenonT(30) DEF IsSum
  <2> DEFINE x == CHOOSE x \in r : TRUE
  <2>1. r # {} => x \in S
    <3> HIDE DEF S
    <3> QED
      OBVIOUS
  <2>2. r # {} => h[x] = at(x)
    BY <2>1 DEF HeldStakes
  <2> HIDE DEF h, S, at
  <2> QED
    BY <2>2 DEF SumStep
<1>2. MapThenSumSet(LAMBDA y : pos[y[1]][y[2]].stake, S) = (CHOOSE g : IsIter(g))[S]
  BY DEF MapThenSumSet, MapThenFoldSet
<1>3. IsFiniteSet(S)
  BY HeldFinite
<1>4. IsIter(CHOOSE g : IsIter(g))
  <2>1. PICK g : IsSum(g, h, S)
    BY <1>3, SumExists
  <2>2. IsIter(g)
    BY <1>1, <2>1
  <2> HIDE DEF IsIter
  <2> QED
    BY <2>2
<1>5. SumFunctionOnSet(h, S) = (CHOOSE g : IsIter(g))[S]
  <2> HIDE DEF S, h, IsIter
  <2> QED
    BY <1>1, <1>3, <1>4, SumIs
<1> QED
  BY <1>2, <1>5

-----------------------------------------------------------------------------
(* The coin of every user: typed, locked by what it has staked, and with   *)
(* what its stakes and ballots hold still in its balance.                  *)
PurseTyped == bal \in [Users -> Nat] /\ locked \in [Users -> Nat] /\ voted \in [Users -> Nat]

LocksHeld == \A u \in Users : locked[u] = SumFunctionOnSet(HeldStakes(pos, u), HeldBy(u))

PurseBacked == \A u \in Users : locked[u] <= bal[u] /\ voted[u] <= bal[u]

Purse == PurseTyped /\ LocksHeld /\ PurseBacked

LEMMA LocksKept ==
  ASSUME LocksHeld, locked' = locked,
         \A c \in Claims : \A b \in Backers[c] : pos'[c][b].stake = pos[c][b].stake
  PROVE  LocksHeld'
<1> SUFFICES ASSUME NEW u \in Users
             PROVE  locked[u] = SumFunctionOnSet(HeldStakes(pos', u), HeldBy(u))
  BY DEF LocksHeld, HeldBy, HeldStakes
<1>1. HeldStakes(pos', u) = HeldStakes(pos, u)
  <2>1. \A h \in HeldBy(u) : pos'[h[1]][h[2]].stake = pos[h[1]][h[2]].stake
    BY HeldFinite
  <2> QED
    BY <2>1 DEF HeldStakes
<1> QED
  BY <1>1 DEF LocksHeld

LEMMA LocksMoved ==
  ASSUME IInv, IInv', PurseTyped, LocksHeld, NEW c \in Claims, NEW b \in Backers[c], NEW n \in Int,
         pos'[c][b].stake = pos[c][b].stake + n,
         \A d \in Claims : \A e \in Backers[d] : <<d, e>> # <<c, b>> => pos'[d][e].stake = pos[d][e].stake,
         locked' = [locked EXCEPT ![b[1]] = @ + n]
  PROVE  LocksHeld'
<1> SUFFICES ASSUME NEW u \in Users
             PROVE  locked'[u] = SumFunctionOnSet(HeldStakes(pos', u), HeldBy(u))
  BY DEF LocksHeld, HeldBy, HeldStakes
<1> DEFINE S == HeldBy(u)
           f == HeldStakes(pos, u)
           g == HeldStakes(pos', u)
           x == <<c, b>>
<1>0. locked[u] = SumFunctionOnSet(f, S) /\ b[1] \in Users
  BY Bricks DEF LocksHeld
<1>1. IsFiniteSet(S) /\ (x \in S <=> b[1] = u)
  BY HeldFinite
<1>2. ASSUME NEW h \in S PROVE f[h] \in Int /\ g[h] \in Int /\ (h # x => g[h] = f[h])
  <2>1. h = <<h[1], h[2]>> /\ h[1] \in Claims /\ h[2] \in Backers[h[1]]
    BY HeldFinite
  <2>2. pos[h[1]][h[2]] \in PosRec /\ pos'[h[1]][h[2]] \in PosRec
    BY <2>1 DEF IInv, PositionsTyped
  <2>3. h # x => pos'[h[1]][h[2]].stake = pos[h[1]][h[2]].stake
    BY <2>1
  <2> QED
    BY <2>2, <2>3 DEF HeldStakes, PosRec
<1>3. x \in S => f[x] \in Int /\ g[x] = f[x] + n
  BY <1>2 DEF HeldStakes
<1> HIDE DEF S, f, g, x
<1>4. Integral(f, S) /\ Integral(g, S)
  BY <1>2 DEF Integral
<1>5. CASE b[1] = u
  <2>1. SumFunctionOnSet(g, S) = SumFunctionOnSet(f, S) - f[x] + g[x]
    <3>1. x \in S /\ \A y \in S \ {x} : g[y] = f[y]
      BY <1>1, <1>2, <1>5
    <3> QED
      BY <1>1, <1>4, <3>1, SumUpdate
  <2>2. SumFunctionOnSet(f, S) \in Int
    BY <1>1, <1>4, SumIsInt
  <2>3. locked'[u] = locked[u] + n
    BY <1>0, <1>5 DEF PurseTyped
  <2> QED
    BY <1>0, <1>1, <1>3, <1>5, <2>1, <2>2, <2>3 DEF g, S
<1>6. CASE b[1] # u
  <2>1. \A y \in S : g[y] = f[y]
    BY <1>1, <1>2, <1>6
  <2>2. SumFunctionOnSet(g, S) = SumFunctionOnSet(f, S)
    BY <1>1, <2>1, SumAgrees
  <2>3. locked'[u] = locked[u]
    BY <1>0, <1>6 DEF PurseTyped
  <2> QED
    BY <1>0, <2>2, <2>3 DEF g, S
<1> QED
  BY <1>5, <1>6

(* What a bonus is, for a settled position of a claim whose draw is open.  *)
LEMMA BonusIs ==
  ASSUME NEW k, NEW p, k.openBlocks \in Nat \ {0}, k.winConv \in Nat, k.pot \in Nat, p.conv \in Nat, p.raw \in Nat
  PROVE  /\ Bonus(k, p) \in Nat /\ Coins(p.conv) \in Nat
         /\ k.winConv * Bonus(k, p) <= k.pot * Coins(p.conv)
         /\ k.winConv = 0 => Bonus(k, p) = 0
<1> DEFINE W == k.winConv
           P == k.pot
           v == Coins(p.conv)
           g == (P * v) \div W
           t == ((p.raw \div k.openBlocks) * TierBps) \div (2 * Bps)
<1>1. v \in Nat
  <2>1. Unit \in Nat \ {0}
    BY Bricks
  <2> QED
    BY <2>1 DEF Coins
<1>2. t \in Nat
  <2>1. p.raw \div k.openBlocks \in Nat
    OBVIOUS
  <2> DEFINE a == p.raw \div k.openBlocks
  <2> HIDE DEF a
  <2>2. a * TierBps \in Nat /\ 2 * Bps \in Nat \ {0}
    BY <2>1, Bricks DEF a
  <2> DEFINE y == a * TierBps
             z == 2 * Bps
  <2>3. t = y \div z
    BY DEF a
  <2>4. y \in Nat /\ z \in Nat \ {0}
    BY <2>2
  <2> HIDE DEF y, z, t
  <2> QED
    BY <2>3, <2>4
<1>3. Bonus(k, p) = IF W = 0 THEN 0 ELSE Lesser(g, t)
  BY DEF Bonus, Capped
<1> HIDE DEF v, t
<1>4. W \in Nat /\ P \in Nat /\ P * v \in Nat
  BY <1>1
<1>5. CASE W = 0
  <2>1. Bonus(k, p) = 0
    BY <1>3, <1>5
  <2>2. W * Bonus(k, p) = 0
    BY <1>5, <2>1
  <2> QED
    BY <1>1, <1>4, <2>1, <2>2 DEF v
<1>6. CASE W # 0
  <2> DEFINE m == P * v
  <2>1. m \in Nat /\ g = m \div W
    BY <1>4
  <2> HIDE DEF m, g
  <2>2. g \in Nat /\ W * g <= m
    BY <1>4, <1>6, <2>1
  <2>3. Bonus(k, p) \in Nat /\ Bonus(k, p) <= g
    BY <1>2, <1>3, <1>6, <2>2 DEF Lesser
  <2> DEFINE B == Bonus(k, p)
  <2>4. W * B <= W * g
    <3> HIDE DEF B, W
    <3> QED
      BY <1>4, <2>2, <2>3 DEF B
  <2>5. W * B \in Int /\ W * g \in Int
    <3> HIDE DEF B, W
    <3> QED
      BY <1>4, <2>2, <2>3 DEF B
  <2>6. W * B <= m
    <3> DEFINE i == W * B
               j == W * g
    <3>1. i \in Int /\ j \in Int /\ i <= j /\ j <= m
      BY <2>2, <2>4, <2>5
    <3> HIDE DEF i, j
    <3>2. i <= m
      BY <2>1, <3>1
    <3> QED
      BY <3>2 DEF i
  <2> QED
    BY <1>1, <1>6, <2>3, <2>6 DEF m, v
<1> QED
  BY <1>5, <1>6

(* What the draw of an open claim may owe a position.                      *)
LEMMA OwedIsNat ==
  ASSUME Books, NEW c \in Claims, claims[c].opened, NEW b \in Backers[c]
  PROVE  /\ Bonus(claims[c], Settled(c, pos[c][b])) \in Nat
         /\ Settled(c, pos[c][b]).conv \in Nat /\ Coins(Settled(c, pos[c][b]).conv) \in Nat
         /\ claims[c].winConv \in Nat /\ claims[c].pot \in Nat /\ Frozen(c)
         /\ claims[c].winConv * Bonus(claims[c], Settled(c, pos[c][b]))
              <= claims[c].pot * Coins(Settled(c, pos[c][b]).conv)
         /\ claims[c].winConv = 0 => Bonus(claims[c], Settled(c, pos[c][b])) = 0
<1> DEFINE k == claims[c]
           p == Settled(c, pos[c][b])
<1>1. k.openBlocks \in Nat \ {0} /\ k.winConv \in Nat /\ k.pot \in Nat /\ k.frozenAt # 0
  BY DEF Books, ClaimsSound, Sound
<1>2. p.conv \in Nat /\ p.raw \in Nat
  <2>1. pos[c][b] \in PosRec /\ Ripe(c, pos[c][b])
    BY DEF Books, IInv, PositionsTyped, PositionsRipe
  <2> QED
    BY <2>1, RipeSettled DEF Books, IInv
<1>3. Frozen(c)
  BY <1>1 DEF Frozen
<1> HIDE DEF k, p
<1> QED
  BY <1>1, <1>2, <1>3, BonusIs DEF k, p

-----------------------------------------------------------------------------
(* 14. Locks are stakes, and all that is held is in the balance.           *)

(* No position but one changes.                                            *)
Elsewhere(c, b) == \A d \in Claims : \A e \in Backers[d] : d # c \/ e # b => pos'[d][e] = pos[d][e]

LEMMA OnePosition ==
  ASSUME IInv, NEW c \in Claims, NEW b \in Backers[c], NEW q, pos' = [pos EXCEPT ![c][b] = q]
  PROVE  pos'[c][b] = q /\ Elsewhere(c, b)
  BY DEF IInv, PositionsTyped, Elsewhere

(* Steps that move coin, ballots or locks but no stake.                    *)
LEMMA PurseKept ==
  ASSUME Purse, Books', locked' = locked,
         \A c \in Claims : \A b \in Backers[c] : pos'[c][b].stake = pos[c][b].stake,
         bal' \in [Users -> Nat], voted' \in [Users -> Nat],
         \A u \in Users : locked[u] <= bal'[u] /\ voted'[u] <= bal'[u]
  PROVE  Purse'
<1>1. LocksHeld'
  BY LocksKept DEF Purse
<1>2. PurseTyped' /\ PurseBacked'
  BY DEF Purse, PurseTyped, PurseBacked
<1> QED
  BY <1>1, <1>2 DEF Purse

(* Steps that move n of stake of one position.                             *)
LEMMA PurseMoved ==
  ASSUME Purse, IInv, Books', NEW c \in Claims, NEW b \in Backers[c], NEW n \in Int,
         pos'[c][b].stake = pos[c][b].stake + n,
         Elsewhere(c, b),
         locked' = [locked EXCEPT ![b[1]] = @ + n], UNCHANGED <<bal, voted>>,
         locked[b[1]] + n <= bal[b[1]]
  PROVE  Purse'
<1>1. LocksHeld'
  <2>1. IInv'
    BY DEF Books
  <2>2. \A d \in Claims : \A e \in Backers[d] : <<d, e>> # <<c, b>> => pos'[d][e].stake = pos[d][e].stake
    BY DEF Elsewhere
  <2>3. PurseTyped /\ LocksHeld
    BY DEF Purse
  <2> QED
    BY <2>1, <2>2, <2>3, LocksMoved
<1>2. ASSUME NEW u \in Users PROVE locked'[u] \in Nat
  <2> DEFINE S == HeldBy(u)
             f == HeldStakes(pos', u)
  <2>1. ASSUME NEW h \in S PROVE f[h] \in Nat
    <3>1. h[1] \in Claims /\ h[2] \in Backers[h[1]]
      BY HeldFinite
    <3>2. pos'[h[1]][h[2]] \in PosRec /\ pos'[h[1]][h[2]].stake >= 0
      BY <3>1 DEF Books, IInv, PositionsTyped, PositionsRipe, Ripe
    <3> QED
      BY <3>2 DEF HeldStakes, PosRec
  <2>2. IsFiniteSet(S) /\ locked'[u] = SumFunctionOnSet(f, S)
    <3>1. locked'[u] = SumFunctionOnSet(f, S)
      BY <1>1 DEF LocksHeld, HeldBy, HeldStakes
    <3> QED
      BY <3>1, HeldFinite
  <2> HIDE DEF S, f
  <2> QED
    BY <2>1, <2>2, SumIsNat
<1>3. PurseTyped'
  BY <1>2 DEF Purse, PurseTyped
<1>4. PurseBacked'
  BY Bricks DEF Purse, PurseTyped, PurseBacked
<1> QED
  BY <1>1, <1>3, <1>4 DEF Purse

-----------------------------------------------------------------------------
LEMMA StepPurse ==
  ASSUME Books, Purse, [Next]_vars
  PROVE  Purse'
<1>0. Books'
  BY StepBooks
<1>1. PurseTyped /\ PurseBacked /\ IInv /\ DOMAIN pos = Claims
  BY DEF Purse, Books, IInv, PositionsTyped
<1>2. ASSUME UNCHANGED <<locked, pos>>, bal' \in [Users -> Nat], voted' \in [Users -> Nat],
             \A u \in Users : locked[u] <= bal'[u] /\ voted'[u] <= bal'[u]
      PROVE  Purse'
  BY <1>0, <1>2, PurseKept
<1>3. ASSUME UNCHANGED <<bal, locked, voted, pos>> PROVE Purse'
  BY <1>1, <1>2, <1>3 DEF PurseTyped, PurseBacked
<1>4. ASSUME NEW c \in Claims, NEW b \in Backers[c], NEW n \in Amounts, Stake(c, b[1], b[2], n)
      PROVE  Purse'
  <2> DEFINE p == Settled(c, pos[c][b])
             q == [p EXCEPT !.stake = @ + n]
  <2>1. b = <<b[1], b[2]>> /\ b[1] \in Users /\ n \in Nat \ {0}
    BY Bricks
  <2>2. /\ Spendable(b[1]) >= n /\ UNCHANGED <<bal, voted>>
        /\ locked' = [locked EXCEPT ![b[1]] = @ + n] /\ pos' = [pos EXCEPT ![c][b] = q]
    BY <1>4, <2>1 DEF Stake
  <2>3. p \in PosRec /\ p.stake = pos[c][b].stake
    BY <1>1, SettledIs DEF IInv, PositionsTyped
  <2>4. q.stake = pos[c][b].stake + n
    <3> HIDE DEF p
    <3> QED
      BY <2>3 DEF PosRec
  <2> HIDE DEF q
  <2>5. pos'[c][b].stake = pos[c][b].stake + n /\ Elsewhere(c, b)
    BY <1>1, <2>2, <2>4, OnePosition, ZenonT(30)
  <2>6. locked[b[1]] + n <= bal[b[1]]
    BY <1>1, <2>1, <2>2 DEF Spendable, Larger, PurseTyped
  <2>7. n \in Int
    BY <2>1
  <2> QED
    BY <1>0, <1>1, <2>2, <2>5, <2>6, <2>7, PurseMoved
<1>5. ASSUME NEW c \in Claims, NEW b \in Backers[c], NEW n \in Amounts, Unstake(c, b[1], b[2], n)
      PROVE  Purse'
  <2> DEFINE p == Settled(c, pos[c][b])
             m == -n
             v == Kept(p, n)
             q == [p EXCEPT !.stake = @ - n, !.conv = v]
  <2>1. b = <<b[1], b[2]>> /\ b[1] \in Users /\ n \in Nat \ {0}
    BY Bricks
  <2>2. /\ UNCHANGED <<bal, voted>>
        /\ locked' = [locked EXCEPT ![b[1]] = @ - n] /\ pos' = [pos EXCEPT ![c][b] = q]
    BY <1>5, <2>1 DEF Unstake
  <2>3. p \in PosRec /\ p.stake = pos[c][b].stake
    BY <1>1, SettledIs DEF IInv, PositionsTyped
  <2>4. q.stake = pos[c][b].stake + m
    <3> HIDE DEF p, v
    <3> QED
      BY <2>1, <2>3 DEF PosRec
  <2> HIDE DEF q
  <2>5. pos'[c][b].stake = pos[c][b].stake + m /\ Elsewhere(c, b)
    BY <1>1, <2>2, <2>4, OnePosition, ZenonT(30)
  <2>6. locked[b[1]] + m <= bal[b[1]] /\ locked' = [locked EXCEPT ![b[1]] = @ + m]
    <3>1. locked[b[1]] \in Nat /\ bal[b[1]] \in Nat /\ locked[b[1]] <= bal[b[1]]
      BY <1>1, <2>1 DEF PurseTyped, PurseBacked
    <3>2. locked[b[1]] - n = locked[b[1]] + m /\ locked[b[1]] + m <= bal[b[1]]
      BY <2>1, <3>1
    <3> QED
      BY <2>2, <3>2
  <2>7. m \in Int
    BY <2>1
  <2> HIDE DEF m
  <2> QED
    BY <1>0, <1>1, <2>2, <2>5, <2>6, <2>7, PurseMoved
<1>6. ASSUME NEW c \in Claims, NEW b \in Backers[c], WithdrawStake(c, b[1], b[2])
      PROVE  Purse'
  <2> DEFINE p == Settled(c, pos[c][b])
             m == -p.stake
             q == [p EXCEPT !.stake = 0]
  <2>1. b = <<b[1], b[2]>> /\ b[1] \in Users
    BY Bricks
  <2>2. /\ UNCHANGED <<bal, voted>>
        /\ locked' = [locked EXCEPT ![b[1]] = @ - p.stake] /\ pos' = [pos EXCEPT ![c][b] = q]
        /\ p.stake > 0
    BY <1>6, <2>1 DEF WithdrawStake
  <2>3. p \in PosRec /\ p.stake = pos[c][b].stake
    BY <1>1, SettledIs DEF IInv, PositionsTyped
  <2> DEFINE t == p.stake
  <2>4. t \in Nat /\ t > 0 /\ pos[c][b].stake = t /\ q.stake = 0
    BY <2>2, <2>3 DEF PosRec
  <2>5. locked' = [locked EXCEPT ![b[1]] = @ - t] /\ m = -t
    BY <2>2
  <2> HIDE DEF q, m, t
  <2>6. pos'[c][b].stake = pos[c][b].stake + m /\ Elsewhere(c, b)
    <3>1. pos'[c][b] = q /\ Elsewhere(c, b)
      BY <1>1, <2>2, OnePosition
    <3>2. q.stake = pos[c][b].stake + m
      BY <2>4, <2>5
    <3> QED
      BY <3>1, <3>2
  <2>7. locked[b[1]] + m <= bal[b[1]] /\ locked' = [locked EXCEPT ![b[1]] = @ + m] /\ m \in Int
    <3>1. locked[b[1]] \in Nat /\ bal[b[1]] \in Nat /\ locked[b[1]] <= bal[b[1]]
      BY <1>1, <2>1 DEF PurseTyped, PurseBacked
    <3>2. locked[b[1]] - t = locked[b[1]] + m /\ locked[b[1]] + m <= bal[b[1]] /\ m \in Int
      BY <2>4, <2>5, <3>1
    <3> QED
      BY <2>5, <3>2
  <2> QED
    BY <1>0, <1>1, <2>2, <2>6, <2>7, PurseMoved
<1>7. ASSUME NEW c \in Claims, NEW b \in Backers[c], WithdrawBonus(c, b[1], b[2])
      PROVE  Purse'
  <2> DEFINE p == Settled(c, pos[c][b])
             B == Bonus(claims[c], p)
             q == [p EXCEPT !.paid = TRUE]
  <2>1. b = <<b[1], b[2]>> /\ b[1] \in Users
    BY Bricks
  <2>2. /\ UNCHANGED <<locked, voted>> /\ claims[c].opened
        /\ bal' = [bal EXCEPT ![b[1]] = @ + B] /\ pos' = [pos EXCEPT ![c][b] = q]
    BY <1>7, <2>1 DEF WithdrawBonus
  <2>3. p \in PosRec /\ p.stake = pos[c][b].stake
    BY <1>1, SettledIs DEF IInv, PositionsTyped
  <2>4. q.stake = pos[c][b].stake
    <3> HIDE DEF p
    <3> QED
      BY <2>3 DEF PosRec
  <2>5. B \in Nat
    BY <2>2, OwedIsNat
  <2> HIDE DEF B, q
  <2>6. \A d \in Claims : \A e \in Backers[d] : pos'[d][e].stake = pos[d][e].stake
    <3>1. pos'[c][b] = q /\ Elsewhere(c, b)
      BY <1>1, <2>2, OnePosition
    <3> QED
      BY <2>4, <3>1 DEF Elsewhere
  <2>7. bal' \in [Users -> Nat] /\ voted' \in [Users -> Nat]
        /\ \A u \in Users : locked[u] <= bal'[u] /\ voted'[u] <= bal'[u]
    BY <1>1, <2>1, <2>2, <2>5 DEF PurseTyped, PurseBacked
  <2> QED
    BY <1>0, <2>2, <2>6, <2>7, PurseKept
<1>8. ASSUME NEW from \in Senders, NEW to \in Users, NEW n \in Amounts, Transfer(from, to, n)
      PROVE  Purse'
  <2>1. from \in Users /\ n \in Nat \ {0}
    BY StakesAssumption
  <2>2. /\ from # to /\ Disposable(from) >= n /\ UNCHANGED <<locked, voted, pos>>
        /\ bal' = [bal EXCEPT ![from] = @ - n, ![to] = @ + n]
    BY <1>8 DEF Transfer
  <2>3. bal[from] - n >= locked[from] /\ bal[from] - n >= voted[from]
    BY <1>1, <2>1, <2>2 DEF Disposable, Larger, PurseTyped
  <2>4. \A u \in Users : /\ bal'[u] = IF u = from THEN bal[u] - n ELSE IF u = to THEN bal[u] + n ELSE bal[u]
    BY <1>1, <2>1, <2>2 DEF PurseTyped
  <2>5. \A u \in Users : bal'[u] \in Nat /\ locked[u] <= bal'[u] /\ voted'[u] <= bal'[u]
    BY <1>1, <2>1, <2>2, <2>3, <2>4 DEF PurseTyped, PurseBacked
  <2>6. bal' \in [Users -> Nat] /\ voted' \in [Users -> Nat]
    BY <1>1, <2>2, <2>5 DEF PurseTyped
  <2> QED
    BY <1>2, <2>2, <2>5, <2>6
<1>9. ASSUME NEW u \in Voters, Vote(u) \/ Resolve(u)
      PROVE  Purse'
  <2>1. u \in Users
    BY StakesAssumption
  <2>2. UNCHANGED <<bal, locked, pos>> /\ (voted' = [voted EXCEPT ![u] = bal[u]] \/ voted' = [voted EXCEPT ![u] = 0])
    BY <1>9 DEF Vote, Resolve
  <2>3. bal' \in [Users -> Nat] /\ voted' \in [Users -> Nat]
        /\ \A x \in Users : locked[x] <= bal'[x] /\ voted'[x] <= bal'[x]
    BY <1>1, <2>1, <2>2 DEF PurseTyped, PurseBacked
  <2> QED
    BY <1>2, <2>2, <2>3
<1>10. ASSUME NEW c \in Claims, NEW u \in Answerers, NEW s \in AnswerSides, PostAnswer(c, u, s)
       PROVE  Purse'
  <2> DEFINE bond == AnswerBond(Base(c, Advanced(c)), Advanced(c))
  <2>1. u \in Users
    BY StakesAssumption
  <2>2. /\ Mature(ring[c]) /\ Disposable(u) >= bond /\ UNCHANGED <<locked, voted, pos>>
        /\ bal' = [bal EXCEPT ![u] = @ - bond]
    BY <1>10 DEF PostAnswer
  <2>3. bond \in Nat \ {0}
    BY <2>2, BarsTyped
  <2> HIDE DEF bond
  <2>4. bal[u] - bond >= locked[u] /\ bal[u] - bond >= voted[u]
    BY <1>1, <2>1, <2>2, <2>3 DEF Disposable, Larger, PurseTyped
  <2>5. bal' \in [Users -> Nat] /\ voted' \in [Users -> Nat]
        /\ \A x \in Users : locked[x] <= bal'[x] /\ voted'[x] <= bal'[x]
    BY <1>1, <2>1, <2>2, <2>3, <2>4 DEF PurseTyped, PurseBacked
  <2> QED
    BY <1>2, <2>2, <2>5
<1>11. ASSUME NEW c \in Claims, Finalize(c) PROVE Purse'
  <2> DEFINE k == claims[c]
  <2>1. k.bond \in Nat /\ k.answerer \in Users
    BY <1>11 DEF Books, ClaimsSound, Sound, Finalize, Frozen
  <2>2. UNCHANGED <<locked, voted, pos>> /\ bal' = [bal EXCEPT ![k.answerer] = @ + k.bond]
    BY <1>11 DEF Finalize
  <2> HIDE DEF k
  <2>3. bal' \in [Users -> Nat] /\ voted' \in [Users -> Nat]
        /\ \A x \in Users : locked[x] <= bal'[x] /\ voted'[x] <= bal'[x]
    BY <1>1, <2>1, <2>2 DEF PurseTyped, PurseBacked
  <2> QED
    BY <1>2, <2>2, <2>3
<1>12. ASSUME NEW c, NEW s, NEW grant, NEW rate,
              Tick(rate) \/ CloseDeadClaim(c) \/ Round(c, s) \/ OpenRewards(c, grant)
       PROVE  Purse'
  BY <1>3, <1>12 DEF Tick, CloseDeadClaim, Round, OpenRewards
<1>13. CASE UNCHANGED vars
  BY <1>3, <1>13 DEF vars
<1> QED
  BY <1>4, <1>5, <1>6, <1>7, <1>8, <1>9, <1>10, <1>11, <1>12, <1>13 DEF Next

LEMMA InitPurse == Init => Purse
<1> SUFFICES ASSUME Init
             PROVE  Purse
  OBVIOUS
<1>1. PurseTyped /\ PurseBacked
  BY StakesAssumption DEF Init, PurseTyped, PurseBacked
<1>2. ASSUME NEW u \in Users PROVE locked[u] = SumFunctionOnSet(HeldStakes(pos, u), HeldBy(u))
  <2> DEFINE S == HeldBy(u)
             f == HeldStakes(pos, u)
  <2>1. ASSUME NEW h \in S PROVE f[h] = 0
    <3>1. h[1] \in Claims /\ h[2] \in Backers[h[1]]
      BY HeldFinite
    <3>2. pos[h[1]][h[2]].stake = 0
      BY <3>1 DEF Init, NoPosition
    <3> QED
      BY <3>2 DEF HeldStakes
  <2>2. IsFiniteSet(S) /\ locked[u] = 0
    BY HeldFinite DEF Init
  <2> HIDE DEF S, f
  <2>3. SumFunctionOnSet(f, S) = 0
    BY <2>1, <2>2, SumOfZeros
  <2> QED
    BY <2>2, <2>3 DEF S, f
<1> QED
  BY <1>1, <1>2 DEF Purse, LocksHeld

LEMMA PurseHolds == Spec => []Purse
<1>1. Init => Books /\ Purse
  BY InitBooks, InitPurse
<1>2. (Books /\ Purse) /\ [Next]_vars => (Books /\ Purse)'
  BY StepBooks, StepPurse
<1> QED
  BY <1>1, <1>2, PTL DEF Spec

(* A holder's lock is what it has staked over all claims, and both that    *)
(* and what its ballots hold is still in its balance, whatever it staked,  *)
(* bonded, voted and sent in whatever order (lock.gno:18-34, 70-87).       *)
THEOREM LocksStayBacked == Spec => []StakesStayBacked
<1>1. Purse => StakesStayBacked
  BY HeldIs DEF Purse, LocksHeld, PurseBacked, StakesStayBacked
<1> QED
  BY <1>1, PurseHolds, PTL

-----------------------------------------------------------------------------
(* 15. The draw of a claim, and what each step does to it.                 *)

(* What the draw of a claim still owes, and to whom.                       *)
Unpaid(c) == {b \in Backers[c] : b[2] = claims[c].standing /\ ~pos[c][b].paid}
Owed(c) == [b \in Backers[c] |-> Bonus(claims[c], Settled(c, pos[c][b]))]

LEMMA OwedIs ==
  ASSUME NEW c \in Claims
  PROVE  MapThenSumSet(LAMBDA b : Bonus(claims[c], Settled(c, pos[c][b])), Unpaid(c)) =
           SumFunctionOnSet(Owed(c), Unpaid(c))
<1> DEFINE S == Unpaid(c)
           h == Owed(c)
           at(x) == Bonus(claims[c], Settled(c, pos[c][x]))
           IsIter(g) == g = [r \in SUBSET S |->
                              IF r = {} THEN 0
                              ELSE at(CHOOSE x \in r : TRUE) + g[r \ {CHOOSE x \in r : TRUE}]]
<1>1. \A g : IsIter(g) <=> IsSum(g, h, S)
  <2> SUFFICES ASSUME NEW g, NEW r \in SUBSET S
               PROVE  SumStep(g, h, r) =
                        IF r = {} THEN 0
                        ELSE at(CHOOSE x \in r : TRUE) + g[r \ {CHOOSE x \in r : TRUE}]
    <3> HIDE DEF h, S, at
    <3> QED
      BY ZenonT(30) DEF IsSum
  <2> DEFINE x == CHOOSE x \in r : TRUE
  <2>1. r # {} => x \in S
    <3> HIDE DEF S
    <3> QED
      OBVIOUS
  <2>2. r # {} => h[x] = at(x)
    BY <2>1 DEF Owed, Unpaid
  <2> HIDE DEF h, S, at
  <2> QED
    BY <2>2 DEF SumStep
<1>2. MapThenSumSet(LAMBDA y : Bonus(claims[c], Settled(c, pos[c][y])), S) = (CHOOSE g : IsIter(g))[S]
  BY DEF MapThenSumSet, MapThenFoldSet
<1>3. IsFiniteSet(S)
  BY OfFinite, FS_Subset DEF Unpaid
<1>4. IsIter(CHOOSE g : IsIter(g))
  <2>1. PICK g : IsSum(g, h, S)
    BY <1>3, SumExists
  <2>2. IsIter(g)
    BY <1>1, <2>1
  <2> HIDE DEF IsIter
  <2> QED
    BY <2>2
<1>5. SumFunctionOnSet(h, S) = (CHOOSE g : IsIter(g))[S]
  <2> HIDE DEF S, h, IsIter
  <2> QED
    BY <1>1, <1>3, <1>4, SumIs
<1> QED
  BY <1>2, <1>5

DrawFits(c) ==
  /\ drawn[c] \in Nat
  /\ ~claims[c].opened => drawn[c] = 0
  /\ claims[c].opened => drawn[c] + SumFunctionOnSet(Owed(c), Unpaid(c)) <= claims[c].pot

DrawsFit == DOMAIN drawn = Claims /\ \A c \in Claims : DrawFits(c)

(* What a step may do to the draw of a claim.                              *)
SameDraw(c) ==
  /\ claims'[c] = claims[c] /\ drawn'[c] = drawn[c]
  /\ \A b \in Backers[c] : pos'[c][b].paid = pos[c][b].paid

Undrawn(c) == ~claims[c].opened /\ ~claims'[c].opened /\ drawn'[c] = drawn[c]

DrawTurn(c) ==
  \/ SameDraw(c)
  \/ Undrawn(c)
  \/ \E grant \in Grants : OpenRewards(c, grant)
  \/ \E b \in Backers[c] : WithdrawBonus(c, b[1], b[2])

LEMMA OneClaim ==
  ASSUME IInv, NEW c \in Claims, NEW z, claims' = [claims EXCEPT ![c] = z], UNCHANGED <<drawn, pos>>
  PROVE  claims'[c] = z /\ \A d \in Claims \ {c} : SameDraw(d)
  BY DEF IInv, FreezePast, SameDraw

LEMMA OneAccount ==
  ASSUME IInv, NEW c \in Claims, NEW b \in Backers[c], NEW q, pos' = [pos EXCEPT ![c][b] = q],
         q.paid = pos[c][b].paid, UNCHANGED <<drawn, claims>>
  PROVE  \A d \in Claims : SameDraw(d)
<1>1. pos'[c][b] = q /\ Elsewhere(c, b)
  BY OnePosition
<1>3. ASSUME NEW d \in Claims, NEW e \in Backers[d] PROVE pos'[d][e].paid = pos[d][e].paid
  BY <1>1 DEF Elsewhere
<1> QED
  BY <1>3 DEF SameDraw

LEMMA StepDraws ==
  ASSUME Books, DOMAIN drawn = Claims, [Next]_vars
  PROVE  DOMAIN drawn' = Claims /\ \A c \in Claims : DrawTurn(c)
<1>0. IInv
  BY DEF Books
<1>1. ASSUME UNCHANGED <<claims, drawn, pos>> PROVE DOMAIN drawn' = Claims /\ \A d \in Claims : DrawTurn(d)
  BY <1>1 DEF DrawTurn, SameDraw
<1>2. ASSUME NEW c \in Claims, NEW z, claims' = [claims EXCEPT ![c] = z], UNCHANGED <<drawn, pos>>,
             ~claims[c].opened, z.opened = claims[c].opened
      PROVE  DOMAIN drawn' = Claims /\ \A d \in Claims : DrawTurn(d)
  <2>1. claims'[c] = z /\ \A d \in Claims \ {c} : SameDraw(d)
    BY <1>0, <1>2, OneClaim
  <2>2. Undrawn(c)
    BY <1>2, <2>1 DEF Undrawn
  <2> QED
    BY <1>2, <2>1, <2>2 DEF DrawTurn
<1>3. ASSUME NEW c \in Claims
      PROVE  ~Frozen(c) \/ ~claims[c].final => ~claims[c].opened
  BY DEF Books, ClaimsSound, Sound, Frozen
<1>4. \A c \in Claims : DOMAIN claims[c] = ClaimFields
  BY RecordDomain
<1>5. ASSUME NEW c \in Claims, NEW b \in Backers[c], NEW n,
             Stake(c, b[1], b[2], n) \/ Unstake(c, b[1], b[2], n) \/ WithdrawStake(c, b[1], b[2])
      PROVE  DOMAIN drawn' = Claims /\ \A d \in Claims : DrawTurn(d)
  <2> DEFINE p == Settled(c, pos[c][b])
             v == Kept(p, n)
             q1 == [p EXCEPT !.stake = @ + n]
             q2 == [p EXCEPT !.stake = @ - n, !.conv = v]
             q3 == [p EXCEPT !.stake = 0]
  <2>1. b = <<b[1], b[2]>>
    BY Bricks
  <2>2. /\ UNCHANGED <<claims, drawn>>
        /\ \/ pos' = [pos EXCEPT ![c][b] = q1]
           \/ pos' = [pos EXCEPT ![c][b] = q2]
           \/ pos' = [pos EXCEPT ![c][b] = q3]
    BY <1>5, <2>1 DEF Stake, Unstake, WithdrawStake
  <2>3. p \in PosRec /\ p.paid = pos[c][b].paid
    BY <1>0, SettledIs DEF IInv, PositionsTyped
  <2>4. q1.paid = p.paid /\ q2.paid = p.paid /\ q3.paid = p.paid
    <3> HIDE DEF p, v
    <3>1. DOMAIN p = {"stake", "conv", "acc", "raw", "rawAt", "paid"}
      BY <2>3 DEF PosRec
    <3> QED
      BY <3>1
  <2>5. PICK q : pos' = [pos EXCEPT ![c][b] = q] /\ q.paid = pos[c][b].paid
    <3> HIDE DEF p, q1, q2, q3
    <3> QED
      BY <2>2, <2>3, <2>4
  <2>6. \A d \in Claims : SameDraw(d)
    BY <1>0, <2>2, <2>5, OneAccount
  <2> QED
    BY <2>2, <2>6 DEF DrawTurn
<1>6. ASSUME NEW c \in Claims, NEW b \in Backers[c], WithdrawBonus(c, b[1], b[2])
      PROVE  DOMAIN drawn' = Claims /\ \A d \in Claims : DrawTurn(d)
  <2> DEFINE q == [Settled(c, pos[c][b]) EXCEPT !.paid = TRUE]
             B == Bonus(claims[c], Settled(c, pos[c][b]))
  <2>1. b = <<b[1], b[2]>>
    BY Bricks
  <2>2. claims' = claims /\ pos' = [pos EXCEPT ![c][b] = q] /\ drawn' = [drawn EXCEPT ![c] = @ + B]
    BY <1>6, <2>1 DEF WithdrawBonus
  <2> HIDE DEF q, B
  <2>3. Elsewhere(c, b)
    BY <1>0, <2>2, OnePosition
  <2>4. ASSUME NEW d \in Claims, d # c PROVE SameDraw(d)
    BY <2>2, <2>3, <2>4 DEF SameDraw, Elsewhere
  <2> QED
    BY <1>6, <2>2, <2>4 DEF DrawTurn
<1>7. ASSUME NEW c \in Claims, CloseDeadClaim(c)
      PROVE  DOMAIN drawn' = Claims /\ \A d \in Claims : DrawTurn(d)
  <2> DEFINE z == [claims[c] EXCEPT !.closed = TRUE]
  <2>1. claims' = [claims EXCEPT ![c] = z] /\ UNCHANGED <<drawn, pos>> /\ ~Frozen(c)
    BY <1>7 DEF CloseDeadClaim
  <2>2. z.opened = claims[c].opened
    BY <1>4 DEF ClaimFields
  <2> HIDE DEF z
  <2> QED
    BY <1>2, <1>3, <2>1, <2>2
<1>8. ASSUME NEW c \in Claims, NEW u, NEW s, PostAnswer(c, u, s)
      PROVE  DOMAIN drawn' = Claims /\ \A d \in Claims : DrawTurn(d)
  <2> DEFINE at == [side \in Sides |-> Advanced(c)[side].stake]
             x == Base(c, Advanced(c))
             bond == AnswerBond(x, Advanced(c))
             z == [claims[c] EXCEPT !.frozenAt = now, !.accAtFreeze = acc, !.xbar = x,
                     !.atFreeze = at, !.answer = s, !.answerer = u, !.bond = bond]
  <2>1. claims' = [claims EXCEPT ![c] = z] /\ UNCHANGED <<drawn, pos>> /\ ~Frozen(c)
    BY <1>8 DEF PostAnswer
  <2> HIDE DEF at, x, bond
  <2>2. z.opened = claims[c].opened
    BY <1>4 DEF ClaimFields
  <2> HIDE DEF z
  <2> QED
    BY <1>2, <1>3, <2>1, <2>2
<1>9. ASSUME NEW c \in Claims, NEW s, Round(c, s)
      PROVE  DOMAIN drawn' = Claims /\ \A d \in Claims : DrawTurn(d)
  <2> DEFINE x == IF s = claims[c].answer THEN claims[c].bond ELSE 0
             z == [claims[c] EXCEPT !.standing = s, !.bond = x]
  <2>1. claims' = [claims EXCEPT ![c] = z] /\ UNCHANGED <<drawn, pos>> /\ ~claims[c].final
    BY <1>9 DEF Round
  <2> HIDE DEF x
  <2>2. z.opened = claims[c].opened
    BY <1>4 DEF ClaimFields
  <2> HIDE DEF z
  <2> QED
    BY <1>2, <1>3, <2>1, <2>2
<1>10. ASSUME NEW c \in Claims, Finalize(c)
       PROVE  DOMAIN drawn' = Claims /\ \A d \in Claims : DrawTurn(d)
  <2> DEFINE Z(s) == [claims[c] EXCEPT !.final = TRUE, !.standing = s, !.bond = 0]
  <2>1. PICK s : claims' = [claims EXCEPT ![c] = Z(s)]
    BY <1>10 DEF Finalize
  <2> DEFINE z == Z(s)
  <2>2. claims' = [claims EXCEPT ![c] = z] /\ UNCHANGED <<drawn, pos>> /\ ~claims[c].final
    BY <1>10, <2>1 DEF Finalize
  <2>3. z.opened = claims[c].opened
    BY <1>4 DEF ClaimFields
  <2> HIDE DEF z, Z
  <2> QED
    BY <1>2, <1>3, <2>2, <2>3
<1>11. ASSUME NEW c \in Claims, NEW grant \in Grants, OpenRewards(c, grant)
       PROVE  DOMAIN drawn' = Claims /\ \A d \in Claims : DrawTurn(d)
  <2>1. \E z : claims' = [claims EXCEPT ![c] = z]
    BY <1>11 DEF OpenRewards
  <2>2. PICK z : claims' = [claims EXCEPT ![c] = z]
    BY <2>1
  <2>3. UNCHANGED <<drawn, pos>>
    BY <1>11 DEF OpenRewards
  <2>4. \A d \in Claims \ {c} : SameDraw(d)
    BY <1>0, <2>2, <2>3, OneClaim
  <2> QED
    BY <1>11, <2>3, <2>4 DEF DrawTurn
<1>12. ASSUME NEW rate, NEW from, NEW to, NEW n, NEW u, Tick(rate) \/ Transfer(from, to, n) \/ Vote(u) \/ Resolve(u)
       PROVE  DOMAIN drawn' = Claims /\ \A c \in Claims : DrawTurn(c)
  BY <1>1, <1>12 DEF Tick, Transfer, Vote, Resolve
<1>13. CASE UNCHANGED vars
  BY <1>1, <1>13 DEF vars
<1> QED
  BY <1>5, <1>6, <1>7, <1>8, <1>9, <1>10, <1>11, <1>12, <1>13 DEF Next

-----------------------------------------------------------------------------
(* 16. The bonuses fit the pot.                                            *)

LEMMA UnpaidIs ==
  ASSUME NEW c \in Claims
  PROVE  IsFiniteSet(Unpaid(c)) /\ Unpaid(c) \subseteq Backers[c] /\ IsFiniteSet(Backers[c])
<1>1. IsFiniteSet(Backers[c]) /\ Unpaid(c) \subseteq Backers[c]
  BY OfFinite DEF Unpaid
<1> QED
  BY <1>1, FS_Subset

(* A bonus is a matter of the claim's record and of what was earned.       *)
LEMMA BonusSame ==
  ASSUME NEW k, NEW p, NEW q, p.conv = q.conv, p.raw = q.raw
  PROVE  Bonus(k, p) = Bonus(k, q)
  BY DEF Bonus, Capped

LEMMA OwedKept ==
  ASSUME Books, Books', Harmless, NEW c \in Claims, claims'[c] = claims[c], claims[c].opened
  PROVE  \A b \in Backers[c] : Owed(c)'[b] = Owed(c)[b]
<1> SUFFICES ASSUME NEW b \in Backers[c]
             PROVE  Bonus(claims'[c], Settled(c, pos[c][b])') = Bonus(claims[c], Settled(c, pos[c][b]))
  BY DEF Owed
<1> DEFINE p == Settled(c, pos[c][b])
           q == Settled(c, pos[c][b])'
<1>1. q.conv = p.conv /\ q.raw = p.raw
  <2>1. Frozen(c)
    BY OwedIsNat
  <2> QED
    BY <2>1, HarmlessPins DEF Books
<1> HIDE DEF p, q
<1>2. Bonus(claims[c], p) = Bonus(claims[c], q)
  BY <1>1, BonusSame
<1> QED
  BY <1>2 DEF p, q

LEMMA DrawSame ==
  ASSUME Books, Books', Harmless, NEW c \in Claims, DrawFits(c), SameDraw(c)
  PROVE  DrawFits(c)'
<1>1. CASE ~claims[c].opened
  BY <1>1 DEF DrawFits, SameDraw
<1>2. CASE claims[c].opened
  <2>1. \A b \in Backers[c] : Owed(c)'[b] = Owed(c)[b]
    BY <1>2, OwedKept DEF SameDraw
  <2>2. Unpaid(c)' = Unpaid(c)
    BY DEF Unpaid, SameDraw
  <2>3. IsFiniteSet(Unpaid(c)) /\ Unpaid(c) \subseteq Backers[c]
    BY UnpaidIs
  <2> DEFINE f == Owed(c)
             g == Owed(c)'
             S == Unpaid(c)
  <2>4. IsFiniteSet(S) /\ \A b \in S : f[b] = g[b]
    BY <2>1, <2>3
  <2> HIDE DEF f, g, S
  <2>5. SumFunctionOnSet(f, S) = SumFunctionOnSet(g, S)
    BY <2>4, SumAgrees
  <2> QED
    BY <1>2, <2>2, <2>5 DEF DrawFits, SameDraw, f, g, S
<1> QED
  BY <1>1, <1>2

(* The winner draws what the sum still held for it.                        *)
LEMMA DrawPaid ==
  ASSUME Books, Books', Harmless, NEW c \in Claims, DrawFits(c), DOMAIN drawn = Claims,
         NEW b \in Backers[c], WithdrawBonus(c, b[1], b[2])
  PROVE  DrawFits(c)'
<1> DEFINE k == claims[c]
           p == Settled(c, pos[c][b])
           B == Bonus(k, p)
           q == [p EXCEPT !.paid = TRUE]
           f == Owed(c)
           g == Owed(c)'
           S == Unpaid(c)
<1>1. b = <<b[1], b[2]>>
  BY Bricks
<1>2. /\ k.opened /\ b[2] = k.standing /\ ~p.paid /\ claims' = claims
      /\ pos' = [pos EXCEPT ![c][b] = q] /\ drawn' = [drawn EXCEPT ![c] = @ + B]
  BY <1>1 DEF WithdrawBonus
<1>3. p \in PosRec /\ p.paid = pos[c][b].paid
  BY SettledIs DEF Books, IInv, PositionsTyped
<1>4. q.paid = TRUE
  <2> HIDE DEF p
  <2> QED
    BY <1>3 DEF PosRec
<1>5. b \in S
  BY <1>2, <1>3 DEF Unpaid
<1>6. Unpaid(c)' = S \ {b}
  <2> HIDE DEF p, q
  <2>1. pos'[c][b] = q /\ Elsewhere(c, b)
    BY <1>2, OnePosition DEF Books
  <2> QED
    BY <1>2, <1>4, <2>1 DEF Unpaid, Elsewhere
<1>7. \A e \in Backers[c] : g[e] = f[e]
  BY <1>2, OwedKept
<1>8. ASSUME NEW e \in Backers[c] PROVE f[e] \in Nat
  BY <1>2, OwedIsNat DEF Owed
<1>9. f[b] = B
  BY DEF Owed
<1>10. IsFiniteSet(S) /\ S \subseteq Backers[c]
  BY UnpaidIs
<1>11. drawn[c] \in Nat /\ drawn[c] + SumFunctionOnSet(f, S) <= k.pot /\ k.pot \in Nat
  BY <1>2, OwedIsNat DEF DrawFits
<1>12. drawn'[c] = drawn[c] + B
  BY <1>2
<1> HIDE DEF B, q, p, f, g, S
<1>13. SumFunctionOnSet(f, S) = f[b] + SumFunctionOnSet(f, S \ {b})
  <2>1. Integral(f, S)
    BY <1>8, <1>10 DEF Integral
  <2> QED
    BY <1>5, <1>10, <2>1, SumRemove
<1>14. IsFiniteSet(S \ {b}) /\ \A e \in S \ {b} : f[e] = g[e] /\ f[e] \in Nat
  BY <1>7, <1>8, <1>10, FS_RemoveElement
<1>15. SumFunctionOnSet(f, S \ {b}) = SumFunctionOnSet(g, S \ {b}) /\ SumFunctionOnSet(f, S \ {b}) \in Nat
  <2>1. SumFunctionOnSet(f, S \ {b}) = SumFunctionOnSet(g, S \ {b})
    BY <1>14, SumAgrees
  <2>2. SumFunctionOnSet(f, S \ {b}) \in Nat
    BY <1>14, SumIsNat
  <2> QED
    BY <2>1, <2>2
<1> DEFINE m == SumFunctionOnSet(g, S \ {b})
<1>16. drawn'[c] \in Nat /\ drawn'[c] + m <= k.pot
  <2>1. m \in Nat /\ B \in Nat /\ SumFunctionOnSet(f, S) = B + m
    BY <1>5, <1>8, <1>9, <1>10, <1>13, <1>15
  <2> HIDE DEF m
  <2> QED
    BY <1>11, <1>12, <2>1
<1> QED
  BY <1>2, <1>6, <1>16 DEF DrawFits, g

-----------------------------------------------------------------------------
(* What W of the pool's coin shares of a pot of P is no more than the pot. *)
LEMMA SharesFit ==
  ASSUME NEW W \in Nat \ {0}, NEW P \in Nat, NEW G \in Nat, NEW H \in Nat, W * G <= P * H, H <= W
  PROVE  G <= P
<1>1. P * H <= P * W
  OBVIOUS
<1>2. W * G <= W * P
  <2> DEFINE a == W * G
             b == P * H
             d == P * W
  <2>1. a \in Int /\ b \in Int /\ d \in Int /\ d = W * P
    OBVIOUS
  <2>2. a <= b /\ b <= d
    BY <1>1
  <2> HIDE DEF a, b, d
  <2>3. a <= d
    BY <2>1, <2>2
  <2> QED
    BY <2>1, <2>3 DEF a
<1>3. ASSUME G > P PROVE FALSE
  <2>1. G - P \in Nat \ {0} /\ G = P + (G - P)
    BY <1>3
  <2> DEFINE x == G - P
  <2>2. x \in Nat \ {0} /\ G = P + x
    BY <2>1
  <2> HIDE DEF x
  <2>3. W * G = W * P + W * x /\ W * P \in Int
    BY <2>2
  <2>4. W * x \in Nat \ {0}
    BY <2>2
  <2> QED
    BY <1>2, <2>3, <2>4
<1> QED
  BY <1>3

(* The draw opens: the shares of the winning side fit its pot.             *)
LEMMA DrawOpened ==
  ASSUME Books, Books', NEW c \in Claims, DrawFits(c), NEW grant \in Grants, OpenRewards(c, grant)
  PROVE  DrawFits(c)'
<1> DEFINE k == claims[c]
           side == WinningSide(k)
           win == Coins(Advanced(c)[side].conv)
           n == Larger(1, k.frozenAt - (OpenedAt + Polish))
           r == (Lesser(grant, Part(win, TierBps)) * 80) \div 93
           z == [k EXCEPT !.opened = TRUE, !.openBlocks = n, !.winConv = win, !.pot = r]
           y == claims'[c]
           f == Owed(c)'
           S == Unpaid(c)'
           F == Of(c, side)
           v == SettledIn(c, pos[c], "conv", F)
           t == Settled(c, pools[c][side]).conv
           h == [b \in F |-> Coins(v[b])]
<1>1. /\ k.final /\ ~k.opened /\ claims' = [claims EXCEPT ![c] = z]
      /\ UNCHANGED <<now, acc, pos, drawn>>
  BY DEF OpenRewards
<1>2. DOMAIN claims = Claims /\ DOMAIN k = ClaimFields
  BY RecordDomain
<1>3. y = z
  BY <1>1, <1>2
<1>4. y.opened /\ y.winConv = win /\ y.standing = k.standing
      /\ y.frozenAt = k.frozenAt /\ y.accAtFreeze = k.accAtFreeze
  <2>1. z.opened = TRUE /\ z.winConv = win /\ z.standing = k.standing
        /\ z.frozenAt = k.frozenAt /\ z.accAtFreeze = k.accAtFreeze
    <3> HIDE DEF k, win, n, r
    <3> QED
      BY <1>2 DEF ClaimFields
  <2> QED
    BY <1>3, <2>1
<1> HIDE DEF z
<1>5. drawn'[c] = 0 /\ drawn[c] = 0
  BY <1>1 DEF DrawFits
<1>6. RateAcc(c)' = RateAcc(c) /\ RawNow(c)' = RawNow(c)
  BY <1>1, <1>4 DEF RateAcc, RawNow, Frozen
<1>7. \A b \in Backers[c] : Settled(c, pos[c][b])' = Settled(c, pos[c][b])
  BY <1>1, <1>6 DEF Settled
<1>8. y.pot \in Nat /\ y.winConv \in Nat
  BY <1>4 DEF Books, ClaimsSound, Sound
<1>9. ASSUME NEW b \in Backers[c]
      PROVE  /\ f[b] \in Nat /\ Coins(Settled(c, pos[c][b]).conv) \in Nat
             /\ Settled(c, pos[c][b]).conv \in Nat
             /\ y.winConv * f[b] <= y.pot * Coins(Settled(c, pos[c][b]).conv)
             /\ y.winConv = 0 => f[b] = 0
  <2>1. f[b] = Bonus(y, Settled(c, pos[c][b]))
    BY <1>7 DEF Owed
  <2>2. y.openBlocks \in Nat \ {0}
    BY <1>4 DEF Books, ClaimsSound, Sound
  <2>3. Settled(c, pos[c][b]).conv \in Nat /\ Settled(c, pos[c][b]).raw \in Nat
    <3>1. pos[c][b] \in PosRec /\ Ripe(c, pos[c][b])
      BY DEF Books, IInv, PositionsTyped, PositionsRipe
    <3> QED
      BY <3>1, RipeSettled DEF Books, IInv
  <2> DEFINE p == Settled(c, pos[c][b])
  <2>4. f[b] = Bonus(y, p) /\ p.conv \in Nat /\ p.raw \in Nat
    BY <2>1, <2>3
  <2> HIDE DEF p, y, f
  <2>5. /\ Bonus(y, p) \in Nat /\ Coins(p.conv) \in Nat
        /\ y.winConv * Bonus(y, p) <= y.pot * Coins(p.conv)
        /\ y.winConv = 0 => Bonus(y, p) = 0
    BY <1>8, <2>2, <2>4, BonusIs
  <2> QED
    BY <2>4, <2>5 DEF p
<1>10. S = {b \in Backers[c] : b[2] = k.standing /\ ~pos[c][b].paid}
  BY <1>1, <1>4 DEF Unpaid
<1>11. S = {} \/ S \subseteq F
  <2>1. k.standing \in Sides \cup {None}
    BY DEF Books, ClaimsSound, Sound
  <2>2. CASE k.standing \in Sides
    <3>1. side = k.standing
      BY <2>2 DEF WinningSide, Sides
    <3> QED
      BY <1>10, <3>1 DEF Of
  <2>3. CASE k.standing = None
    <3>1. \A b \in Backers[c] : b[2] # None
      BY Bricks, StakesAssumption
    <3> QED
      BY <1>10, <2>3, <3>1
  <2> QED
    BY <2>1, <2>2, <2>3
<1>12. IsFiniteSet(F) /\ F \subseteq Backers[c] /\ side \in Sides
  BY OfFinite DEF WinningSide, Sides
<1>13. win = Coins(t) /\ t = SumFunctionOnSet(v, F) /\ t \in Nat
  BY <1>12, SettledSums DEF Advanced
<1>14. ASSUME NEW b \in F PROVE v[b] = Settled(c, pos[c][b]).conv /\ v[b] \in Nat /\ h[b] = Coins(v[b]) /\ h[b] \in Nat
  BY <1>9, <1>12 DEF SettledIn
<1>15. ASSUME NEW b \in F PROVE f[b] \in Nat /\ y.winConv * f[b] <= y.pot * h[b] /\ (y.winConv = 0 => f[b] = 0)
  BY <1>9, <1>12, <1>14
<1>16. Unit \in Nat \ {0}
  BY Bricks
<1>17. ASSUME NEW b \in F PROVE Unit * h[b] <= 1 * v[b]
  <2> DEFINE x == v[b]
  <2>1. x \in Nat /\ h[b] = x \div Unit
    BY <1>14 DEF Coins
  <2> HIDE DEF x, h
  <2>2. Unit * h[b] <= x
    BY <1>16, <2>1
  <2> QED
    BY <2>1, <2>2 DEF x
<1> DEFINE G == SumFunctionOnSet(f, F)
           H == SumFunctionOnSet(h, F)
<1>18. G \in Nat /\ H \in Nat /\ SumFunctionOnSet(f, S) \in Nat /\ SumFunctionOnSet(f, S) <= G
  <2> HIDE DEF f, h, F, S, v
  <2>1. G \in Nat
    BY <1>12, <1>15, SumIsNat
  <2>2. H \in Nat
    BY <1>12, <1>14, SumIsNat
  <2>3. CASE S = {}
    BY <2>1, <2>2, <2>3, SumOfNothing
  <2>4. CASE S \subseteq F
    BY <1>12, <1>15, <2>2, <2>4, SumOfPartBound
  <2> QED
    BY <1>11, <2>1, <2>2, <2>3, <2>4
<1>19. G <= y.pot
  <2>0. Integral(f, F) /\ Integral(h, F) /\ Integral(v, F)
    BY <1>14, <1>15 DEF Integral
  <2>1. CASE y.winConv = 0
    <3> HIDE DEF f, h, F, S, v, y
    <3>1. G = 0
      BY <1>12, <1>15, <2>1, SumOfZeros
    <3> QED
      BY <1>8, <3>1
  <2>2. CASE y.winConv # 0
    <3> DEFINE W == y.winConv
               P == y.pot
    <3>1. W \in Nat \ {0} /\ P \in Nat /\ W = Coins(t)
      BY <1>4, <1>8, <1>13, <2>2
    <3>2. \A b \in F : W * f[b] <= P * h[b]
      BY <1>15
    <3> HIDE DEF f, h, F, S, v, y, t, W, P
    <3>3. W * G <= P * H
      <4>1. W \in Int /\ P \in Int
        BY <3>1
      <4> QED
        BY <1>12, <2>0, <3>2, <4>1, SumScaled
    <3>4. Unit * H <= 1 * SumFunctionOnSet(v, F)
      <4>1. Unit \in Int /\ 1 \in Int
        BY <1>16
      <4>2. \A b \in F : Unit * h[b] <= 1 * v[b]
        BY <1>17
      <4> QED
        BY <1>12, <2>0, <4>1, <4>2, SumScaled
    <3>5. Unit * H <= t
      BY <1>13, <3>4
    <3>6. H <= W
      <4>1. W = t \div Unit
        BY <3>1 DEF Coins
      <4> HIDE DEF H
      <4> QED
        BY <1>13, <1>16, <1>18, <3>5, <4>1
    <3> HIDE DEF G, H
    <3> QED
      BY <1>18, <3>1, <3>3, <3>6, SharesFit DEF P
  <2> QED
    BY <2>1, <2>2
<1>20. SumFunctionOnSet(f, S) <= y.pot
  <2> HIDE DEF f, S, G, H, y
  <2> QED
    BY <1>8, <1>18, <1>19
<1>21. 0 + SumFunctionOnSet(f, S) <= y.pot
  <2> HIDE DEF f, S, y
  <2> QED
    BY <1>8, <1>18, <1>20
<1> QED
  BY <1>4, <1>5, <1>21 DEF DrawFits, f, S, y

LEMMA StepDrawsFit ==
  ASSUME Books, DrawsFit, [Next]_vars
  PROVE  DrawsFit'
<1>1. Books' /\ Harmless
  BY StepBooks, StepHarmless DEF Books
<1>2. DOMAIN drawn' = Claims /\ \A c \in Claims : DrawTurn(c)
  BY StepDraws DEF DrawsFit
<1>3. ASSUME NEW c \in Claims PROVE DrawFits(c)'
  <2>1. DrawFits(c) /\ DOMAIN drawn = Claims
    BY DEF DrawsFit
  <2>2. CASE SameDraw(c)
    BY <1>1, <2>1, <2>2, DrawSame
  <2>3. CASE Undrawn(c)
    BY <2>1, <2>3 DEF Undrawn, DrawFits
  <2>4. ASSUME NEW grant \in Grants, OpenRewards(c, grant) PROVE DrawFits(c)'
    BY <1>1, <2>1, <2>4, DrawOpened
  <2>5. ASSUME NEW b \in Backers[c], WithdrawBonus(c, b[1], b[2]) PROVE DrawFits(c)'
    BY <1>1, <2>1, <2>5, DrawPaid
  <2> QED
    BY <1>2, <2>2, <2>3, <2>4, <2>5 DEF DrawTurn
<1> QED
  BY <1>2, <1>3 DEF DrawsFit

(* The winners' bonuses fit their pot in whatever order they are drawn:    *)
(* what has been paid and what the others may still take is never more     *)
(* (openrewards.gno:161-218).                                              *)
THEOREM BonusesStayWithinPot == Spec => []BonusesWithinPot
<1>1. Init => Books /\ DrawsFit
  <2>1. Init => DrawsFit
    BY DEF Init, DrawsFit, DrawFits, NewClaim
  <2> QED
    BY <2>1, InitBooks
<1>2. (Books /\ DrawsFit) /\ [Next]_vars => (Books /\ DrawsFit)'
  BY StepBooks, StepDrawsFit
<1>3. Books /\ DrawsFit => BonusesWithinPot
  <2> SUFFICES ASSUME DrawsFit, NEW c \in Claims, claims[c].opened
               PROVE  drawn[c] + MapThenSumSet(LAMBDA b : Bonus(claims[c], Settled(c, pos[c][b])), Unpaid(c))
                        <= claims[c].pot
    BY DEF BonusesWithinPot, Unpaid
  <2> QED
    BY OwedIs DEF DrawsFit, DrawFits
<1> QED
  BY <1>1, <1>2, <1>3, PTL DEF Spec
-----------------------------------------------------------------------------
(* 17. Stakes follow the lives a court leads.                              *)

LEMMA LifeIs ==
  ASSUME NEW k
  PROVE  /\ LifeOf(k).stage = Stage(k) /\ LifeOf(k).answer = k.answer
         /\ LifeOf(k).standing = k.standing /\ LifeOf(k).held = (k.bond > 0)
<1> DEFINE h == k.bond > 0
<1>1. LifeOf(k) = [stage |-> Stage(k), answer |-> k.answer, standing |-> k.standing, held |-> h]
  BY DEF LifeOf
<1> HIDE DEF h
<1>2. /\ LifeOf(k).stage = Stage(k) /\ LifeOf(k).answer = k.answer
      /\ LifeOf(k).standing = k.standing /\ LifeOf(k).held = h
  BY <1>1
<1> QED BY <1>2 DEF h

(* What has not happened yet has left no trace, and a bond is held while   *)
(* the verdict is open.                                                    *)
Living(k) ==
  /\ k.closed \in BOOLEAN
  /\ k.closed => k.frozenAt = 0
  /\ k.frozenAt = 0 => k.answer = None /\ k.bond = 0
  /\ k.final => k.bond = 0

LivesSound == \A c \in Claims : Living(claims[c])

LEMMA LivesRewritten ==
  ASSUME Books, LivesSound, NEW c \in Claims, NEW z, claims' = [claims EXCEPT ![c] = z], Living(z)
  PROVE  /\ LivesSound'
         /\ Lives[c] = LifeOf(claims[c]) /\ Lives' = [Lives EXCEPT ![c] = LifeOf(z)]
<1>1. \A d \in Claims : claims'[d] = IF d = c THEN z ELSE claims[d]
  BY DEF Books, IInv, FreezePast
<1>2. LivesSound'
  BY <1>1 DEF LivesSound, Living
<1>3. Lives' = [d \in Claims |-> LifeOf(claims'[d])]
  BY DEF Lives, LifeOf, Stage
<1> DEFINE m == LifeOf(z)
<1> HIDE DEF m
<1>4. \A d \in Claims : LifeOf(claims'[d]) = IF d = c THEN m ELSE LifeOf(claims[d])
  BY <1>1 DEF m
<1>5. Lives' = [Lives EXCEPT ![c] = m]
  BY <1>3, <1>4 DEF Lives
<1> QED BY <1>2, <1>5 DEF m, Lives

LEMMA ClosedLife ==
  ASSUME Books, LivesSound, NEW c \in Claims, CloseDeadClaim(c)
  PROVE  LivesSound' /\ Life!Next
<1> DEFINE k == claims[c]
           z == [k EXCEPT !.closed = TRUE]
<1>1. k.frozenAt = 0 /\ ~k.closed /\ claims' = [claims EXCEPT ![c] = z]
  BY DEF CloseDeadClaim, Frozen
<1>2. Sound(k) /\ Living(k)
  BY DEF Books, ClaimsSound, LivesSound
<1> HIDE DEF k
<1>3. /\ z.closed = TRUE /\ z.frozenAt = k.frozenAt /\ z.answer = k.answer /\ z.standing = k.standing
      /\ z.bond = k.bond /\ z.final = k.final
  BY <1>2, FieldsAre DEF Sound, ClaimFields
<1> HIDE DEF z
<1>4. k.answer = None /\ k.standing = None /\ k.bond = 0
  BY <1>1, <1>2 DEF Sound, Living
<1>5. Living(z)
  BY <1>1, <1>2, <1>3, <1>4 DEF Living
<1>6. LifeOf(z) = Life!Fresh("closed")
  <2>1. Stage(z) = "closed" /\ (z.bond > 0) = FALSE
    BY <1>3, <1>4 DEF Stage
  <2> QED BY <1>3, <1>4, <2>1 DEF LifeOf, Life!Fresh, Life!At
<1>7. LifeOf(k).stage = "open"
  BY <1>1, LifeIs DEF Stage
<1>8. LivesSound' /\ Lives[c] = LifeOf(k) /\ Lives' = [Lives EXCEPT ![c] = LifeOf(z)]
  BY <1>1, <1>5, LivesRewritten DEF k
<1> QED BY <1>6, <1>7, <1>8 DEF Life!Next, Life!Close, Life!From

LEMMA AnsweredLife ==
  ASSUME Books, LivesSound, NEW c \in Claims, NEW u \in Answerers, NEW s \in AnswerSides, PostAnswer(c, u, s)
  PROVE  LivesSound' /\ Life!Next
<1> DEFINE k == claims[c]
           ps == Advanced(c)
           x == Base(c, ps)
           bond == AnswerBond(x, ps)
           at == [side \in Sides |-> ps[side].stake]
           z == [k EXCEPT !.frozenAt = now, !.accAtFreeze = acc, !.xbar = x, !.atFreeze = at,
                          !.answer = s, !.answerer = u, !.bond = bond]
<1>1. k.frozenAt = 0 /\ ~k.closed /\ Mature(ring[c]) /\ claims' = [claims EXCEPT ![c] = z]
  BY DEF PostAnswer, Frozen
<1>2. bond \in Nat \ {0}
  BY <1>1, BarsTyped
<1>3. Sound(k) /\ Living(k) /\ now \in Nat \ {0} /\ s \in Sides
  BY Bricks DEF Books, ClaimsSound, LivesSound, IInv, ClockTyped
<1> HIDE DEF k, x, bond, at
<1>4. /\ z.closed = k.closed /\ z.frozenAt = now /\ z.answer = s /\ z.standing = k.standing
      /\ z.bond = bond /\ z.final = k.final
  BY <1>3, FieldsAre DEF Sound, ClaimFields
<1> HIDE DEF z
<1>5. ~k.final /\ k.standing = None
  BY <1>1, <1>3 DEF Sound
<1>6. Living(z)
  BY <1>1, <1>3, <1>4, <1>5 DEF Living
<1>7. LifeOf(z) = Life!At("answered", s, None, TRUE)
  <2>1. Stage(z) = "answered" /\ (z.bond > 0) = TRUE
    BY <1>1, <1>2, <1>3, <1>4, <1>5 DEF Stage
  <2> QED BY <1>4, <1>5, <2>1 DEF LifeOf, Life!At
<1>8. LifeOf(k).stage = "open"
  BY <1>1, LifeIs DEF Stage
<1>9. LivesSound' /\ Lives[c] = LifeOf(k) /\ Lives' = [Lives EXCEPT ![c] = LifeOf(z)]
  BY <1>1, <1>6, LivesRewritten DEF k
<1> QED BY <1>3, <1>7, <1>8, <1>9 DEF Life!Next, Life!Answer, Life!From

LEMMA JudgedLife ==
  ASSUME Books, LivesSound, NEW c \in Claims, NEW s \in Sides, Round(c, s)
  PROVE  LivesSound' /\ Life!Judge(c, s)
<1> DEFINE k == claims[c]
           b == IF s = k.answer THEN k.bond ELSE 0
           z == [k EXCEPT !.standing = s, !.bond = b]
<1>1. k.frozenAt # 0 /\ ~k.final /\ k.standing # s /\ claims' = [claims EXCEPT ![c] = z]
  BY DEF Round, Frozen
<1>2. Sound(k) /\ Living(k)
  BY DEF Books, ClaimsSound, LivesSound
<1>3. b \in Nat /\ (b > 0) = ((k.bond > 0) /\ s = k.answer)
  BY <1>2 DEF Sound
<1> HIDE DEF k, b
<1>4. /\ z.closed = k.closed /\ z.frozenAt = k.frozenAt /\ z.answer = k.answer /\ z.standing = s
      /\ z.bond = b /\ z.final = k.final
  BY <1>2, FieldsAre DEF Sound, ClaimFields
<1> HIDE DEF z
<1>5. Living(z)
  BY <1>1, <1>2, <1>4 DEF Living
<1>6. Stage(k) = "answered" /\ Stage(z) = "answered"
  BY <1>1, <1>2, <1>4 DEF Stage, Living
<1>7. LifeOf(z) = Life!At("answered", LifeOf(k).answer, s, LifeOf(k).held /\ s = LifeOf(k).answer)
  BY <1>3, <1>4, <1>6, LifeIs DEF LifeOf, Life!At
<1>8. LifeOf(k).stage = "answered" /\ s # LifeOf(k).standing
  BY <1>1, <1>6, LifeIs
<1>9. LivesSound' /\ Lives[c] = LifeOf(k) /\ Lives' = [Lives EXCEPT ![c] = LifeOf(z)]
  BY <1>1, <1>5, LivesRewritten DEF k
<1> QED BY <1>7, <1>8, <1>9 DEF Life!Judge, Life!From

LEMMA SettledLife ==
  ASSUME Books, LivesSound, NEW c \in Claims, Finalize(c)
  PROVE  LivesSound' /\ \E s \in Sides \cup {None} : Life!Settle(c, s)
<1> DEFINE k == claims[c]
           Z(s) == [k EXCEPT !.final = TRUE, !.standing = s, !.bond = 0]
<1>1. /\ k.frozenAt # 0 /\ ~k.final
      /\ \E s \in IF k.standing = None THEN {None, k.answer} ELSE {k.standing} :
           claims' = [claims EXCEPT ![c] = Z(s)]
  BY DEF Finalize, Frozen
<1>2. Sound(k) /\ Living(k)
  BY DEF Books, ClaimsSound, LivesSound
<1>3. PICK s \in IF k.standing = None THEN {None, k.answer} ELSE {k.standing} :
        claims' = [claims EXCEPT ![c] = Z(s)]
  BY <1>1
<1>4. s \in Sides \cup {None}
  BY <1>1, <1>2, <1>3 DEF Sound
<1> DEFINE z == Z(s)
<1>5. claims' = [claims EXCEPT ![c] = z]
  BY <1>3
<1>6. s \in IF k.standing = None THEN {None, k.answer} ELSE {k.standing}
  BY <1>3
<1> HIDE DEF k
<1>7. /\ z.closed = k.closed /\ z.frozenAt = k.frozenAt /\ z.answer = k.answer /\ z.standing = s
      /\ z.bond = 0 /\ z.final = TRUE /\ z.opened = k.opened
  BY <1>2, FieldsAre DEF Sound, ClaimFields
<1> HIDE DEF Z, z
<1>8. Living(z)
  BY <1>1, <1>2, <1>7 DEF Living
<1>9. Stage(k) = "answered" /\ Stage(z) = "final"
  BY <1>1, <1>2, <1>7 DEF Stage, Living, Sound
<1>10. LifeOf(z) = Life!At("final", LifeOf(k).answer, s, FALSE)
  <2>1. (z.bond > 0) = FALSE
    BY <1>7
  <2> QED BY <1>7, <1>9, <2>1, LifeIs DEF LifeOf, Life!At
<1>11. /\ LifeOf(k).stage = "answered"
       /\ s \in IF LifeOf(k).standing = None THEN {None, LifeOf(k).answer} ELSE {LifeOf(k).standing}
  BY <1>6, <1>9, LifeIs
<1>12. LivesSound' /\ Lives[c] = LifeOf(k) /\ Lives' = [Lives EXCEPT ![c] = LifeOf(z)]
  BY <1>5, <1>8, LivesRewritten DEF k
<1> QED BY <1>4, <1>10, <1>11, <1>12 DEF Life!Settle, Life!From

LEMMA DrawnLife ==
  ASSUME Books, LivesSound, NEW c \in Claims, NEW grant \in Grants, OpenRewards(c, grant)
  PROVE  LivesSound' /\ Life!Next
<1> DEFINE k == claims[c]
           win == Coins(Advanced(c)[WinningSide(k)].conv)
           pot == (Lesser(grant, Part(win, TierBps)) * 80) \div 93
           blocks == Larger(1, k.frozenAt - (OpenedAt + Polish))
           z == [k EXCEPT !.opened = TRUE, !.openBlocks = blocks, !.winConv = win, !.pot = pot]
<1>1. k.final /\ ~k.opened /\ claims' = [claims EXCEPT ![c] = z]
  BY DEF OpenRewards
<1>2. Sound(k) /\ Living(k)
  BY DEF Books, ClaimsSound, LivesSound
<1> HIDE DEF k, win, pot, blocks
<1>3. /\ z.closed = k.closed /\ z.frozenAt = k.frozenAt /\ z.answer = k.answer /\ z.standing = k.standing
      /\ z.bond = k.bond /\ z.final = k.final /\ z.opened = TRUE
  BY <1>2, FieldsAre DEF Sound, ClaimFields
<1> HIDE DEF z
<1>4. k.frozenAt # 0 /\ k.bond = 0
  BY <1>1, <1>2 DEF Sound, Living
<1>5. Living(z)
  BY <1>2, <1>3 DEF Living
<1>6. Stage(k) = "final" /\ Stage(z) = "drawn"
  BY <1>1, <1>2, <1>3, <1>4 DEF Stage, Living
<1>7. LifeOf(z) = Life!At("drawn", LifeOf(k).answer, LifeOf(k).standing, FALSE)
  <2>1. (z.bond > 0) = FALSE
    BY <1>3, <1>4
  <2> QED BY <1>3, <1>6, <2>1, LifeIs DEF LifeOf, Life!At
<1>8. LifeOf(k).stage = "final"
  BY <1>6, LifeIs
<1>9. LivesSound' /\ Lives[c] = LifeOf(k) /\ Lives' = [Lives EXCEPT ![c] = LifeOf(z)]
  BY <1>1, <1>5, LivesRewritten DEF k
<1> QED BY <1>7, <1>8, <1>9 DEF Life!Next, Life!Draw, Life!From

LEMMA StepLives ==
  ASSUME Books, LivesSound, [Next]_vars
  PROVE  LivesSound' /\ (Life!Next \/ Lives' = Lives)
<1>1. ASSUME claims' = claims PROVE LivesSound' /\ Lives' = Lives
  BY <1>1 DEF LivesSound, Living, Lives, LifeOf, Stage
<1>2. ASSUME NEW c \in Claims, NEW s \in Sides, Round(c, s) PROVE LivesSound' /\ Life!Next
  BY <1>2, JudgedLife DEF Life!Next
<1>3. ASSUME NEW c \in Claims, Finalize(c) PROVE LivesSound' /\ Life!Next
  BY <1>3, SettledLife DEF Life!Next
<1>4. ASSUME NEW rate, Tick(rate) PROVE claims' = claims
  BY <1>4 DEF Tick
<1>5. ASSUME NEW c, NEW b, NEW n, Stake(c, b[1], b[2], n) \/ Unstake(c, b[1], b[2], n)
                  \/ WithdrawStake(c, b[1], b[2]) \/ WithdrawBonus(c, b[1], b[2])
      PROVE  claims' = claims
  BY <1>5 DEF Stake, Unstake, WithdrawStake, WithdrawBonus
<1>6. ASSUME NEW from, NEW to, NEW n, NEW u, Transfer(from, to, n) \/ Vote(u) \/ Resolve(u)
      PROVE  claims' = claims
  BY <1>6 DEF Transfer, Vote, Resolve
<1>7. CASE UNCHANGED vars
  BY <1>1, <1>7 DEF vars
<1> QED
  BY <1>1, <1>2, <1>3, <1>4, <1>5, <1>6, <1>7, ClosedLife, AnsweredLife, DrawnLife DEF Next

LEMMA LivesHold == Spec => [](Books /\ LivesSound)
<1>1. Init => LivesSound
  <2>1. /\ NewClaim.closed = FALSE /\ NewClaim.frozenAt = 0 /\ NewClaim.answer = None
        /\ NewClaim.bond = 0 /\ NewClaim.final = FALSE
    BY DEF NewClaim
  <2>2. Living(NewClaim)
    BY <2>1 DEF Living
  <2>3. Init => \A c \in Claims : claims[c] = NewClaim
    BY DEF Init
  <2> QED BY <2>2, <2>3 DEF LivesSound
<1>2. Books /\ LivesSound /\ [Next]_vars => LivesSound'
  BY StepLives
<1> QED BY <1>1, <1>2, BooksHold, PTL DEF Spec

(* Whatever verdict a claim's life allows next, the staking half takes: of *)
(* what a court may decide it leaves nothing out.                          *)
LEMMA VerdictsAreTaken ==
  ASSUME Books, LivesSound, NEW c \in Claims, NEW s,
         UNCHANGED <<now, acc, locked, voted, pools, pos, ring, past, drawn, moves>>
  PROVE  /\ s \in Sides /\ Life!Judge(c, s) /\ bal' = bal
              /\ claims' = [claims EXCEPT ![c].standing = s,
                                          ![c].bond = IF s = claims[c].answer THEN @ ELSE 0]
            => Round(c, s)
         /\ Life!Settle(c, s) /\ bal' = [bal EXCEPT ![claims[c].answerer] = @ + claims[c].bond]
              /\ claims' = [claims EXCEPT ![c].final = TRUE, ![c].standing = s, ![c].bond = 0]
            => Finalize(c)
<1>1. Lives[c] = LifeOf(claims[c])
  BY DEF Lives
<1>2. Sound(claims[c])
  BY DEF Books, ClaimsSound
<1>3. ASSUME Stage(claims[c]) = "answered" PROVE Frozen(c) /\ ~claims[c].final
  BY <1>3 DEF Stage, Frozen
<1>4. ASSUME Life!Judge(c, s) PROVE Frozen(c) /\ ~claims[c].final /\ claims[c].standing # s
  BY <1>1, <1>3, <1>4, LifeIs DEF Life!Judge, Life!From
<1>5. ASSUME Life!Settle(c, s)
      PROVE  /\ Frozen(c) /\ ~claims[c].final
             /\ s \in IF claims[c].standing = None THEN {None, claims[c].answer} ELSE {claims[c].standing}
  BY <1>1, <1>3, <1>5, LifeIs DEF Life!Settle, Life!From
<1> QED BY <1>4, <1>5 DEF Round, Finalize

(* The staking half follows the lives a court leads, for any claims,       *)
(* holders and amounts (stake.gno:281-400, openrewards.gno:33-158).        *)
THEOREM StakesFollowLives == Spec => ImplementsClaimLife
<1>1. Init => Life!Init
  <2> SUFFICES ASSUME Init PROVE Lives \in [Claims -> {Life!Fresh("unasked"), Life!Fresh("open")}]
    BY DEF Life!Init
  <2>1. LifeOf(NewClaim) = Life!Fresh("open")
    <3>1. Stage(NewClaim) = "open" /\ NewClaim.answer = None /\ NewClaim.standing = None
          /\ (NewClaim.bond > 0) = FALSE
      BY DEF Stage, NewClaim
    <3> QED BY <3>1 DEF LifeOf, Life!Fresh, Life!At
  <2>2. \A c \in Claims : claims[c] = NewClaim
    BY DEF Init
  <2> QED BY <2>1, <2>2 DEF Lives
<1>2. Books /\ LivesSound /\ [Next]_vars => [Life!Next]_Lives
  BY StepLives
<1> QED BY <1>1, <1>2, LivesHold, PTL DEF Spec, ImplementsClaimLife, Life!Spec
=============================================================================
