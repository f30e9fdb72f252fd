--------------------------- MODULE GovernorProofs ---------------------------
(* What holds of Governor for any electorates, rules, questions, kinds and *)
(* foreign code: the tally's rules, then the board of open questions is    *)
(* what its index says, a decision is final and waits its delay, powers    *)
(* change by vote alone, a question's tally is the sum of its roll, and a  *)
(* board that is full after its sweep shows a question that is open.       *)
EXTENDS Governor, SharedLemmas

(* What a vote's record holds, of any shares and any weights, with a       *)
(* threshold that is a share (saneRules) and no more cast than there is.   *)
Ballot(p) ==
  /\ {"yes", "no", "abstain", "total", "engaged", "quorumFloor", "rules"} \subseteq DOMAIN p
  /\ p.yes \in Nat /\ p.no \in Nat /\ p.abstain \in Nat /\ p.total \in Nat
  /\ p.engaged \in Nat /\ p.quorumFloor \in Nat
  /\ p.rules["quorum"] \in Nat /\ p.rules["threshold"] \in 0 .. Bps
  /\ Turnout(p) <= p.total

(* A completion adds to the three tallies and leaves the terms alone.      *)
LEMMA CompletedTally ==
  ASSUME NEW p, Ballot(p), NEW y \in Nat, NEW n \in Nat, NEW a \in Nat
  PROVE  LET end == Completed(p, y, n, a) IN
         /\ end.yes = p.yes + y /\ end.no = p.no + n /\ end.abstain = p.abstain + a
         /\ end.total = p.total /\ end.engaged = p.engaged
         /\ end.quorumFloor = p.quorumFloor /\ end.rules = p.rules
  BY DEF Ballot, Completed

(* More turnout never costs a quorum.                                      *)
LEMMA QuorumKeeps ==
  ASSUME NEW p, Ballot(p), Quorate(p), NEW y \in Nat, NEW n \in Nat, NEW a \in Nat
  PROVE  Quorate(Completed(p, y, n, a))
<1> DEFINE end == Completed(p, y, n, a)
<1>1. /\ end.yes = p.yes + y /\ end.no = p.no + n /\ end.abstain = p.abstain + a
      /\ end.engaged = p.engaged /\ end.quorumFloor = p.quorumFloor /\ end.rules = p.rules
  BY CompletedTally
<1>2. /\ Turnout(p) \in Nat /\ Turnout(end) \in Nat
      /\ Turnout(p) <= Turnout(end)
  BY <1>1 DEF Ballot, Turnout
<1> HIDE DEF end
<1>3. ASSUME p.quorumFloor > 0
      PROVE  Quorate(end)
  <2>1. Turnout(p) >= p.quorumFloor
    BY <1>3 DEF Quorate
  <2>2. p.quorumFloor \in Nat
    BY DEF Ballot
  <2>3. Turnout(end) >= end.quorumFloor /\ end.quorumFloor > 0
    BY <1>1, <1>2, <1>3, <2>1, <2>2
  <2> QED BY <2>3 DEF Quorate
<1>4. ASSUME ~(p.quorumFloor > 0)
      PROVE  Quorate(end)
  <2>1. Turnout(p) * Bps >= p.engaged * p.rules["quorum"]
    BY <1>4 DEF Quorate
  <2>2. Turnout(p) * Bps <= Turnout(end) * Bps
    BY <1>2, TallyAssumption
  <2>3. p.engaged * p.rules["quorum"] \in Nat /\ Turnout(p) * Bps \in Nat /\ Turnout(end) * Bps \in Nat
    BY <1>2, TallyAssumption DEF Ballot
  <2>4. Turnout(end) * Bps >= p.engaged * p.rules["quorum"]
    BY <2>1, <2>2, <2>3
  <2>5. Turnout(end) * Bps >= end.engaged * end.rules["quorum"] /\ ~(end.quorumFloor > 0)
    BY <1>1, <1>4, <2>4
  <2> QED BY <2>5 DEF Quorate
<1> QED BY <1>3, <1>4 DEF end

(* A question carried early is carried by every completion of its tally    *)
(* (governor.gno:1133-1138).                                               *)
THEOREM WonStands ==
  ASSUME NEW p, Ballot(p), Won(p)
  PROVE  EveryCompletion(p, TRUE)
<1> SUFFICES ASSUME NEW y \in 0 .. Rest(p), NEW n \in 0 .. Rest(p), NEW a \in 0 .. Rest(p),
                    y + n + a <= Rest(p)
             PROVE  Carries(Completed(p, y, n, a), Completed(p, y, n, a).yes, Completed(p, y, n, a).no)
  BY Zenon DEF EveryCompletion
<1> DEFINE end == Completed(p, y, n, a)
           t == p.rules["threshold"]
<1>1. Rest(p) \in Nat /\ y \in Nat /\ n \in Nat /\ a \in Nat /\ p.yes \in Nat /\ p.no \in Nat
  BY DEF Ballot, Rest, Turnout
<1>2. end.yes = p.yes + y /\ end.no = p.no + n /\ end.rules = p.rules
  BY <1>1, CompletedTally
<1>3. Quorate(end)
  BY <1>1, QuorumKeeps DEF Won, Carries
<1>4. p.yes > 0 /\ p.yes * Bps >= (p.yes + (p.no + Rest(p))) * t
  BY DEF Won, Carries
<1>5. t \in Nat /\ Bps \in Nat
  BY TallyAssumption DEF Ballot
<1> HIDE DEF end, t
<1>6. (p.yes + (p.no + Rest(p))) * t >= ((p.yes + y) + (p.no + n)) * t
  <2>1. p.yes + (p.no + Rest(p)) >= (p.yes + y) + (p.no + n)
    BY <1>1
  <2> QED BY <1>1, <1>5, <2>1
<1>7. (p.yes + y) * Bps >= p.yes * Bps
  BY <1>1, <1>5
<1>8. (p.yes + y) * Bps >= ((p.yes + y) + (p.no + n)) * t
  <2>1. /\ (p.yes + y) * Bps \in Nat /\ p.yes * Bps \in Nat
        /\ (p.yes + (p.no + Rest(p))) * t \in Nat /\ ((p.yes + y) + (p.no + n)) * t \in Nat
    BY <1>1, <1>5
  <2> QED BY <1>4, <1>6, <1>7, <2>1
<1>9. end.yes > 0 /\ end.yes * Bps >= (end.yes + end.no) * end.rules["threshold"]
  BY <1>1, <1>2, <1>4, <1>8 DEF t
<1> QED BY <1>3, <1>9 DEF Carries, end

(* A question lost early is carried by no completion of its tally          *)
(* (governor.gno:1152-1159).                                               *)
THEOREM LostStands ==
  ASSUME NEW p, Ballot(p), Lost(p)
  PROVE  EveryCompletion(p, FALSE)
<1> SUFFICES ASSUME NEW y \in 0 .. Rest(p), NEW n \in 0 .. Rest(p), NEW a \in 0 .. Rest(p),
                    y + n + a <= Rest(p)
             PROVE  ~Carries(Completed(p, y, n, a), Completed(p, y, n, a).yes, Completed(p, y, n, a).no)
  BY DEF EveryCompletion, Carries
<1> DEFINE end == Completed(p, y, n, a)
           t == p.rules["threshold"]
           top == p.yes + Rest(p)
           got == p.yes + y
<1>1. Rest(p) \in Nat /\ y \in Nat /\ n \in Nat /\ a \in Nat /\ p.yes \in Nat /\ p.no \in Nat
  BY DEF Ballot, Rest, Turnout
<1>2. end.yes = got /\ end.no = p.no + n /\ end.rules = p.rules
  <2>1. /\ end.yes = p.yes + y /\ end.no = p.no + n /\ end.abstain = p.abstain + a
        /\ end.engaged = p.engaged /\ end.quorumFloor = p.quorumFloor /\ end.rules = p.rules
    BY CompletedTally
  <2> QED
    BY <2>1
<1>3. t \in Nat /\ Bps \in Nat /\ t <= Bps
  BY TallyAssumption DEF Ballot
<1>4. top \in Nat /\ got \in Nat /\ got <= top
  BY <1>1
<1>5. top = 0 \/ top * Bps < (top + p.no) * t
  BY DEF Lost
<1> HIDE DEF end, t, top, got
<1>6. CASE top = 0
  <2>1. ~(end.yes > 0)
    BY <1>2, <1>4, <1>6
  <2> QED BY <2>1 DEF Carries, end
<1>7. CASE top * Bps < (top + p.no) * t
  <2>1. PICK d \in Nat : top = got + d
    <3>1. top - got \in Nat /\ top = got + (top - got)
      BY <1>4
    <3> QED BY <3>1
  <2>2. top * Bps = got * Bps + d * Bps
    BY <1>3, <1>4, <2>1
  <2>3. (top + p.no) * t = (got + p.no) * t + d * t
    <3>1. top + p.no = (got + p.no) + d
      BY <1>1, <1>4, <2>1
    <3> QED BY <1>1, <1>3, <1>4, <2>1, <3>1
  <2>4. d * t <= d * Bps
    BY <1>3, <2>1
  <2>5. (got + p.no) * t <= (got + (p.no + n)) * t
    <3>1. (got + (p.no + n)) * t = (got + p.no) * t + n * t
      BY <1>1, <1>3, <1>4
    <3>2. n * t \in Nat /\ (got + p.no) * t \in Nat
      BY <1>1, <1>3, <1>4
    <3> QED BY <3>1, <3>2
  <2>6. got * Bps < (got + (p.no + n)) * t
    <3>1. /\ got * Bps \in Nat /\ d * Bps \in Nat /\ d * t \in Nat
          /\ (got + p.no) * t \in Nat /\ (got + (p.no + n)) * t \in Nat
      BY <1>1, <1>3, <1>4, <2>1
    <3> QED BY <1>7, <2>2, <2>3, <2>4, <2>5, <3>1
  <2>7. got * Bps \in Nat /\ (got + (p.no + n)) * t \in Nat
    BY <1>1, <1>3, <1>4
  <2>8. ~(end.yes * Bps >= (end.yes + end.no) * end.rules["threshold"])
    BY <1>2, <2>6, <2>7 DEF t
  <2> QED BY <2>8 DEF Carries, end
<1> QED BY <1>5, <1>6, <1>7

(* No tally is carried and lost at once, so the two early decisions and    *)
(* their order in wouldBe cannot disagree.                                 *)
THEOREM NeverBoth ==
  ASSUME NEW p, Ballot(p)
  PROVE  ~(Won(p) /\ Lost(p))
<1> SUFFICES ASSUME Won(p), Lost(p) PROVE FALSE
  OBVIOUS
<1>1. EveryCompletion(p, TRUE) /\ EveryCompletion(p, FALSE)
  BY WonStands, LostStands
<1>2. Rest(p) \in Nat
  BY DEF Ballot, Rest, Turnout
<1>3. 0 \in 0 .. Rest(p) /\ 0 + 0 + 0 <= Rest(p)
  BY <1>2
<1> QED BY <1>1, <1>3, Zenon DEF EveryCompletion

-----------------------------------------------------------------------------
Fields == {"asks", "rules", "state", "readyTime", "closesTime", "yes", "no", "abstain", "voted"}

TypedProposal(p) == /\ Fields \subseteq DOMAIN p
                    /\ p.asks \in Questions /\ p.rules \in RulesRecords /\ p.readyTime \in Nat

TypedKind(k) == {"rules", "live"} \subseteq DOMAIN k /\ k.rules \in RulesRecords

(* A governor's record is of its type.                                     *)
Board(b) == /\ {"kinds", "proposals", "openIdx", "sweepFrom"} \subseteq DOMAIN b
            /\ \E n \in Nat : b.proposals = [i \in 1 .. n |-> b.proposals[i]]
            /\ \A i \in DOMAIN b.proposals : TypedProposal(b.proposals[i])
            /\ \A k \in DOMAIN b.kinds : TypedKind(b.kinds[k])

(* SlotsMatchQuestions, of any board.                                      *)
SlotsMatch(b) ==
  /\ \A q \in DOMAIN b.openIdx :
       LET i == b.openIdx[q]
       IN  i \in DOMAIN b.proposals /\ b.proposals[i].asks = q /\ Open(b.proposals[i])
  /\ \A i \in DOMAIN b.proposals : Open(b.proposals[i]) =>
       LET q == b.proposals[i].asks
       IN  q \in DOMAIN b.openIdx /\ b.openIdx[q] = i

Good(b) == Board(b) /\ SlotsMatch(b)

(* What a transaction at time t may make of proposal p.                    *)
Delayed(t, z) == z.readyTime >= t + z.rules["delay"] * SecsPerBlock

Follows(t, p, z) ==
  /\ z.asks = p.asks /\ z.rules = p.rules
  /\ Onward(p.state, z.state)
  /\ p.state # "active" =>
       /\ z.yes = p.yes /\ z.no = p.no /\ z.abstain = p.abstain
       /\ z.readyTime = p.readyTime
       /\ z.voted = p.voted \/ ~Open(z)
  /\ p.state = "active" /\ z.state \in {"succeeded", "executed"} => Delayed(t, z)
  /\ p.state # "executed" /\ z.state = "executed" => t >= z.readyTime

Since(t, b, c) ==
  \A i \in DOMAIN b.proposals :
    i \in DOMAIN c.proposals /\ Follows(t, b.proposals[i], c.proposals[i])

(* Decided, and to be run at time t.                                       *)
Late(t, p) == t > p.readyTime + p.rules["grace"] * SecsPerBlock
Runs(t, p) == p.state = "succeeded" /\ ~Late(t, p) /\ t >= p.readyTime

(* What foreign code that calls back leaves as it is.                      *)
Spared(t, b, c) ==
  /\ \A i \in DOMAIN b.proposals : Runs(t, b.proposals[i]) => Runs(t, c.proposals[i])
  /\ \A k \in DOMAIN b.kinds : k \in DOMAIN c.kinds /\ c.kinds[k] = b.kinds[k]

Moves(t, b, c) == Good(c) /\ Since(t, b, c) /\ Spared(t, b, c)

LEMMA RulesNat ==
  ASSUME NEW r \in RulesRecords, NEW f \in {"delay", "grace", "voting"}
  PROVE  r[f] \in Nat /\ r[f] * SecsPerBlock \in Nat
<1>1. r[f] \in Nat
  BY DEF RulesRecords, RulesFields
<1> QED
  BY <1>1, GovernorAssumption

LEMMA FollowsItself ==
  ASSUME NEW t, NEW p
  PROVE  Follows(t, p, p)
BY DEF Follows, Onward

LEMMA FollowsThrough ==
  ASSUME NEW t, NEW p, NEW m, NEW z, Follows(t, p, m), Follows(t, m, z)
  PROVE  Follows(t, p, z)
<1>1. Onward(p.state, z.state)
  BY DEF Follows, Onward
<1>2. ASSUME p.state # "active"
      PROVE  /\ z.yes = p.yes /\ z.no = p.no /\ z.abstain = p.abstain
             /\ z.readyTime = p.readyTime
             /\ z.voted = p.voted \/ ~Open(z)
  <2>1. m.state # "active"
    BY <1>2 DEF Follows, Onward
  <2>2. ~Open(m) => ~Open(z)
    BY <2>1 DEF Follows, Onward, Open
  <2> QED
    BY <1>2, <2>1, <2>2 DEF Follows
<1>3. ASSUME p.state = "active", z.state \in {"succeeded", "executed"} PROVE Delayed(t, z)
  <2>1. CASE m.state = "active"
    BY <1>3, <2>1 DEF Follows
  <2>2. CASE m.state # "active"
    <3>1. m.state \in {"succeeded", "executed"}
      BY <1>3, <2>2 DEF Follows, Onward
    <3>2. Delayed(t, m) /\ z.readyTime = m.readyTime /\ z.rules = m.rules
      BY <1>3, <2>2, <3>1 DEF Follows
    <3> QED
      BY <3>2 DEF Delayed
  <2> QED
    BY <2>1, <2>2
<1>4. ASSUME p.state # "executed", z.state = "executed" PROVE t >= z.readyTime
  <2>1. CASE m.state = "executed"
    <3>1. t >= m.readyTime /\ z.readyTime = m.readyTime
      BY <1>4, <2>1 DEF Follows
    <3> QED
      BY <3>1
  <2>2. CASE m.state # "executed"
    BY <1>4, <2>2 DEF Follows
  <2> QED
    BY <2>1, <2>2
<1> QED
  BY <1>1, <1>2, <1>3, <1>4 DEF Follows

LEMMA SinceThrough ==
  ASSUME NEW t, NEW b, NEW m, NEW c, Since(t, b, m), Since(t, m, c)
  PROVE  Since(t, b, c)
BY FollowsThrough DEF Since

LEMMA SinceItself ==
  ASSUME NEW t, NEW b
  PROVE  Since(t, b, b)
BY FollowsItself DEF Since

LEMMA MovesThrough ==
  ASSUME NEW t, NEW b, NEW m, NEW c, Moves(t, b, m), Moves(t, m, c)
  PROVE  Moves(t, b, c)
<1>1. Since(t, b, c)
  BY SinceThrough DEF Moves
<1>2. Spared(t, b, c)
  BY DEF Moves, Spared, Since
<1> QED
  BY <1>1, <1>2 DEF Moves

-----------------------------------------------------------------------------
(* Writing an outcome down.                                                *)
LEMMA SettledFollows ==
  ASSUME NEW p, TypedProposal(p), now \in Nat
  PROVE  LET z == Settled(p) IN
         /\ TypedProposal(z) /\ Follows(now, p, z)
         /\ Open(z) => Open(p)
         /\ Runs(now, p) => Runs(now, z)
         /\ z.state = "succeeded" /\ now >= z.readyTime => Runs(now, z)
<1> DEFINE z == Settled(p)
           due == now + p.rules["delay"] * SecsPerBlock
<1>1. /\ Fields \subseteq DOMAIN p /\ p.asks \in Questions /\ p.rules \in RulesRecords
      /\ p.readyTime \in Nat
  BY DEF TypedProposal
<1>2. p.rules["delay"] * SecsPerBlock \in Nat /\ p.rules["grace"] * SecsPerBlock \in Nat /\ due \in Nat
  BY <1>1, RulesNat
<1>3. CASE p.state = "active" /\ WouldBe(p) = "succeeded"
  <2>1. z = [p EXCEPT !.state = "succeeded", !.readyTime = due]
    BY <1>3 DEF Settled
  <2> DEFINE d == due
  <2>2. z = [p EXCEPT !.state = "succeeded", !.readyTime = d] /\ d \in Nat
    BY <1>2, <2>1
  <2>3. d = now + p.rules["delay"] * SecsPerBlock
    OBVIOUS
  <2> HIDE DEF z, d, due
  <2>4. /\ DOMAIN z = DOMAIN p /\ z.state = "succeeded" /\ z.readyTime = d
        /\ z.asks = p.asks /\ z.rules = p.rules
    BY <1>1, <2>2 DEF Fields
  <2>5. TypedProposal(z)
    BY <1>1, <2>2, <2>4 DEF TypedProposal
  <2>6. Delayed(now, z)
    BY <1>2, <2>3, <2>4, <2>2 DEF Delayed
  <2>7. Follows(now, p, z)
    BY <1>3, <2>4, <2>6 DEF Follows, Onward
  <2>8. ~Late(now, z)
    <3>1. z.readyTime + z.rules["grace"] * SecsPerBlock >= now
      BY <1>2, <2>2, <2>3, <2>4
    <3>2. z.readyTime + z.rules["grace"] * SecsPerBlock \in Nat
      BY <1>2, <2>2, <2>4
    <3> QED
      BY <3>1, <3>2 DEF Late
  <2> QED
    BY <1>3, <2>4, <2>5, <2>7, <2>8 DEF Open, Runs, z
<1>4. CASE ~(p.state = "active" /\ WouldBe(p) = "succeeded")
  <2> DEFINE st == WouldBe(p)
  <2>1. z = [p EXCEPT !.state = st]
    BY <1>4 DEF Settled
  <2>2. /\ p.state = "active" => st \in {"active", "defeated"}
        /\ p.state = "succeeded" => st = IF Late(now, p) THEN "expired" ELSE "succeeded"
        /\ p.state \notin {"active", "succeeded"} => st = p.state
    BY <1>4 DEF WouldBe, Late, Expired
  <2> HIDE DEF z, st
  <2>3. /\ DOMAIN z = DOMAIN p /\ z.state = st /\ z.readyTime = p.readyTime
        /\ z.asks = p.asks /\ z.rules = p.rules
        /\ z.yes = p.yes /\ z.no = p.no /\ z.abstain = p.abstain /\ z.voted = p.voted
    BY <1>1, <2>1 DEF Fields
  <2>4. TypedProposal(z)
    BY <1>1, <2>3 DEF TypedProposal
  <2>5. Follows(now, p, z)
    BY <2>2, <2>3 DEF Follows, Onward
  <2>6. Late(now, z) <=> Late(now, p)
    BY <2>3 DEF Late
  <2>7. z.state = "succeeded" => p.state = "succeeded" /\ ~Late(now, p)
    BY <2>2, <2>3
  <2>8. Runs(now, p) => Runs(now, z)
    BY <2>2, <2>3, <2>6 DEF Runs
  <2>9. Open(z) => Open(p)
    BY <2>2, <2>3 DEF Open
  <2> QED
    BY <2>4, <2>5, <2>6, <2>7, <2>8, <2>9 DEF Runs, z
<1> QED
  BY <1>3, <1>4

LEMMA SettleAllMoves ==
  ASSUME NEW b, Good(b), NEW ids, ids \subseteq DOMAIN b.proposals, now \in Nat
  PROVE  /\ Moves(now, b, SettleAll(b, ids))
         /\ DOMAIN SettleAll(b, ids).proposals = DOMAIN b.proposals
         /\ \A i \in DOMAIN b.proposals \cap ids :
              SettleAll(b, ids).proposals[i] = Settled(b.proposals[i])
<1> DEFINE ps == [i \in DOMAIN b.proposals |->
                    IF i \in ids THEN Settled(b.proposals[i]) ELSE b.proposals[i]]
           gone == {b.proposals[i].asks : i \in {j \in ids : Releases(b.proposals[j])}}
           idx == Without(b.openIdx, gone)
           c == SettleAll(b, ids)
<1>1. c = [b EXCEPT !.proposals = ps, !.openIdx = idx]
  BY DEF SettleAll
<1>2. \A i \in DOMAIN b.proposals : ps[i] = IF i \in ids THEN Settled(b.proposals[i]) ELSE b.proposals[i]
  OBVIOUS
<1>3. DOMAIN ps = DOMAIN b.proposals
  OBVIOUS
<1>4. \E n \in Nat : ps = [i \in 1 .. n |-> ps[i]]
  <2>1. PICK n \in Nat : b.proposals = [i \in 1 .. n |-> b.proposals[i]]
    BY DEF Good, Board
  <2>2. DOMAIN b.proposals = 1 .. n
    BY <2>1
  <2>3. ps = [i \in 1 .. n |-> ps[i]]
    BY <2>2
  <2> QED
    BY <2>3
<1> HIDE DEF ps, idx, gone, c
<1>5. /\ c.proposals = ps /\ c.openIdx = idx /\ c.kinds = b.kinds /\ DOMAIN c = DOMAIN b
  BY <1>1 DEF Good, Board
<1>6. \A i \in DOMAIN b.proposals : TypedProposal(b.proposals[i])
  BY DEF Good, Board
<1>7. \A i \in DOMAIN b.proposals :
        /\ TypedProposal(ps[i]) /\ Follows(now, b.proposals[i], ps[i])
        /\ Open(ps[i]) => Open(b.proposals[i])
        /\ Runs(now, b.proposals[i]) => Runs(now, ps[i])
  <2> TAKE i \in DOMAIN b.proposals
  <2>1. CASE i \in ids
    BY <1>2, <1>6, <2>1, SettledFollows
  <2>2. CASE i \notin ids
    BY <1>2, <1>6, <2>2, FollowsItself
  <2> QED
    BY <2>1, <2>2
<1>8. Board(c)
  BY <1>3, <1>4, <1>5, <1>7 DEF Good, Board
<1>9. /\ DOMAIN idx = DOMAIN b.openIdx \ gone
      /\ \A q \in DOMAIN idx : idx[q] = b.openIdx[q]
  BY DEF idx, Without, Restrict
<1>10. SlotsMatch(c)
  <2>1. ASSUME NEW q \in DOMAIN idx
        PROVE  idx[q] \in DOMAIN ps /\ ps[idx[q]].asks = q /\ Open(ps[idx[q]])
    <3> DEFINE i == b.openIdx[q]
    <3>1. /\ q \in DOMAIN b.openIdx /\ q \notin gone /\ idx[q] = i
          /\ i \in DOMAIN b.proposals /\ b.proposals[i].asks = q /\ Open(b.proposals[i])
      BY <1>9, <2>1 DEF Good, SlotsMatch
    <3>2. ps[i].asks = q
      BY <1>7, <3>1 DEF Follows
    <3>3. Open(ps[i])
      <4>1. CASE i \in ids
        <5>1. ~Releases(b.proposals[i])
          BY <3>1, <4>1 DEF gone
        <5> QED
          BY <1>2, <3>1, <4>1, <5>1 DEF Releases
      <4>2. CASE i \notin ids
        BY <1>2, <3>1, <4>2
      <4> QED
        BY <4>1, <4>2
    <3> QED
      BY <1>3, <3>1, <3>2, <3>3
  <2>2. ASSUME NEW i \in DOMAIN ps, Open(ps[i])
        PROVE  ps[i].asks \in DOMAIN idx /\ idx[ps[i].asks] = i
    <3> DEFINE q == b.proposals[i].asks
    <3>1. i \in DOMAIN b.proposals /\ Open(b.proposals[i]) /\ ps[i].asks = q
      BY <1>3, <1>7, <2>2 DEF Follows
    <3>2. q \in DOMAIN b.openIdx /\ b.openIdx[q] = i
      BY <3>1 DEF Good, SlotsMatch
    <3>3. q \notin gone
      <4>1. SUFFICES ASSUME q \in gone PROVE FALSE
        OBVIOUS
      <4>2. PICK j \in ids : Releases(b.proposals[j]) /\ b.proposals[j].asks = q
        BY <4>1 DEF gone
      <4>3. j = i
        <5>1. Open(b.proposals[j])
          BY <4>2 DEF Releases
        <5>2. j \in DOMAIN b.proposals
          BY <4>2
        <5> QED
          BY <3>2, <4>2, <5>1, <5>2 DEF Good, SlotsMatch
      <4> QED
        BY <1>2, <2>2, <3>1, <4>2, <4>3 DEF Releases
    <3> QED
      BY <1>9, <3>1, <3>2, <3>3
  <2> QED
    BY <1>5, <2>1, <2>2 DEF SlotsMatch
<1>11. Since(now, b, c)
  BY <1>3, <1>5, <1>7 DEF Since
<1>12. Spared(now, b, c)
  BY <1>5, <1>7 DEF Spared
<1> QED
  BY <1>2, <1>3, <1>5, <1>8, <1>10, <1>11, <1>12 DEF Good, Moves, c

(* A sweep writes outcomes down, whichever slots it comes to look at.      *)
LEMMA SweepMoves ==
  ASSUME NEW b, Good(b), now \in Nat
  PROVE  Moves(now, b, Sweep(b)) /\ DOMAIN Sweep(b).proposals = DOMAIN b.proposals
<1> DEFINE ids == {b.openIdx[q] : q \in Swept(b).seen \cap DOMAIN b.openIdx}
           a == SettleAll(b, ids)
           from == Swept(b).from
           c == Sweep(b)
<1>1. ids \subseteq DOMAIN b.proposals
  BY DEF Good, SlotsMatch
<1>2. c = [a EXCEPT !.sweepFrom = from]
  BY DEF Sweep
<1> HIDE DEF ids, c, from
<1>3. Moves(now, b, a) /\ DOMAIN a.proposals = DOMAIN b.proposals
  BY <1>1, SettleAllMoves
<1> HIDE DEF a
<1>4. c.kinds = a.kinds /\ c.proposals = a.proposals /\ c.openIdx = a.openIdx /\ DOMAIN c = DOMAIN a
  BY <1>2, <1>3 DEF Moves, Good, Board
<1>5. Good(c)
  BY <1>3, <1>4 DEF Moves, Good, Board, SlotsMatch
<1>6. Since(now, b, c) /\ Spared(now, b, c)
  BY <1>3, <1>4 DEF Moves, Since, Spared
<1> QED
  BY <1>3, <1>4, <1>5, <1>6 DEF Moves, c

(* A proposal put in the place of another one: a vote, a roll dropped.     *)
LEMMA PatchMoves ==
  ASSUME NEW b, Good(b), NEW id \in DOMAIN b.proposals, NEW z, TypedProposal(z), NEW t,
         LET p == b.proposals[id] IN
           z.state = p.state /\ Follows(t, p, z)
  PROVE  LET c == [b EXCEPT !.proposals[id] = z] IN
         /\ Moves(t, b, c) /\ DOMAIN c.proposals = DOMAIN b.proposals
         /\ c.proposals[id] = z
<1> DEFINE ps == [b.proposals EXCEPT ![id] = z]
           c == [b EXCEPT !.proposals[id] = z]
<1>1. c = [b EXCEPT !.proposals = ps]
  OBVIOUS
<1>2. DOMAIN ps = DOMAIN b.proposals /\ ps[id] = z /\ \A i \in DOMAIN ps : i # id => ps[i] = b.proposals[i]
  OBVIOUS
<1>3. \E n \in Nat : ps = [i \in 1 .. n |-> ps[i]]
  <2>1. PICK n \in Nat : b.proposals = [i \in 1 .. n |-> b.proposals[i]]
    BY DEF Good, Board
  <2>2. DOMAIN b.proposals = 1 .. n
    BY <2>1
  <2>3. ps = [i \in 1 .. n |-> ps[i]]
    BY <2>2
  <2> QED
    BY <2>3
<1> HIDE DEF ps, c
<1>4. /\ c.proposals = ps /\ c.openIdx = b.openIdx /\ c.kinds = b.kinds /\ DOMAIN c = DOMAIN b
  BY <1>1 DEF Good, Board
<1>5. Board(c)
  BY <1>2, <1>3, <1>4 DEF Good, Board
<1>6. \A i \in DOMAIN ps : /\ ps[i].asks = b.proposals[i].asks /\ ps[i].state = b.proposals[i].state
                           /\ Follows(t, b.proposals[i], ps[i])
  BY <1>2, FollowsItself DEF Follows
<1>7. SlotsMatch(c)
  BY <1>2, <1>4, <1>6 DEF Good, SlotsMatch, Open
<1>8. Since(t, b, c)
  BY <1>2, <1>4, <1>6 DEF Since
<1>9. \A i \in DOMAIN ps : Runs(t, b.proposals[i]) => Runs(t, ps[i])
  BY <1>2, <1>6 DEF Runs, Late, Follows
<1>10. Spared(t, b, c)
  BY <1>2, <1>4, <1>9 DEF Spared
<1> QED
  BY <1>2, <1>4, <1>5, <1>7, <1>8, <1>10 DEF Good, Moves, c

(* A state that ends an open proposal, and gives its slot back.            *)
LEMMA SetStateMoves ==
  ASSUME NEW b, Good(b), NEW id \in DOMAIN b.proposals, NEW st, NEW t,
         Open(b.proposals[id]), st \in {"canceled", "failed", "executed"},
         Onward(b.proposals[id].state, st),
         st = "executed" => t >= b.proposals[id].readyTime /\ b.proposals[id].state # "active"
  PROVE  LET c == SetState(b, id, st) IN
         /\ Good(c) /\ Since(t, b, c) /\ c.kinds = b.kinds
         /\ DOMAIN c.proposals = DOMAIN b.proposals /\ c.proposals[id].state = st
         /\ b.proposals[id].state = "active" => Moves(t, b, c)
<1> DEFINE p == b.proposals[id]
           z == [p EXCEPT !.state = st]
           ps == [b.proposals EXCEPT ![id] = z]
           idx == Without(b.openIdx, {p.asks})
           c == SetState(b, id, st)
<1>1. c = [b EXCEPT !.proposals = ps, !.openIdx = idx]
  BY DEF SetState
<1>2. TypedProposal(p)
  BY DEF Good, Board
<1>3. /\ TypedProposal(z) /\ z.state = st /\ z.asks = p.asks /\ z.rules = p.rules
      /\ z.readyTime = p.readyTime /\ z.yes = p.yes /\ z.no = p.no /\ z.abstain = p.abstain
      /\ z.voted = p.voted
  BY <1>2 DEF TypedProposal, Fields
<1>4. DOMAIN ps = DOMAIN b.proposals /\ ps[id] = z /\ \A i \in DOMAIN ps : i # id => ps[i] = b.proposals[i]
  OBVIOUS
<1>5. \E n \in Nat : ps = [i \in 1 .. n |-> ps[i]]
  <2>1. PICK n \in Nat : b.proposals = [i \in 1 .. n |-> b.proposals[i]]
    BY DEF Good, Board
  <2>2. DOMAIN b.proposals = 1 .. n
    BY <2>1
  <2>3. ps = [i \in 1 .. n |-> ps[i]]
    BY <2>2
  <2> QED
    BY <2>3
<1>6. Follows(t, p, z)
  BY <1>3 DEF Follows, Onward, Open
<1> HIDE DEF ps, idx, c, z
<1>7. /\ c.proposals = ps /\ c.openIdx = idx /\ c.kinds = b.kinds /\ DOMAIN c = DOMAIN b
  BY <1>1 DEF Good, Board
<1>8. Board(c)
  BY <1>3, <1>4, <1>5, <1>7 DEF Good, Board
<1>9. /\ DOMAIN idx = DOMAIN b.openIdx \ {p.asks}
      /\ \A q \in DOMAIN idx : idx[q] = b.openIdx[q]
  BY DEF idx, Without, Restrict
<1>10. ~Open(z)
  BY <1>3 DEF Open
<1>11. SlotsMatch(c)
  <2>1. ASSUME NEW q \in DOMAIN idx
        PROVE  idx[q] \in DOMAIN ps /\ ps[idx[q]].asks = q /\ Open(ps[idx[q]])
    <3>1. /\ q \in DOMAIN b.openIdx /\ idx[q] = b.openIdx[q] /\ q # p.asks
          /\ b.openIdx[q] \in DOMAIN b.proposals /\ b.proposals[b.openIdx[q]].asks = q
          /\ Open(b.proposals[b.openIdx[q]])
      BY <1>9, <2>1 DEF Good, SlotsMatch
    <3>2. b.openIdx[q] # id
      BY <3>1
    <3> QED
      BY <1>4, <3>1, <3>2
  <2>2. ASSUME NEW i \in DOMAIN ps, Open(ps[i])
        PROVE  ps[i].asks \in DOMAIN idx /\ idx[ps[i].asks] = i
    <3>1. i # id /\ ps[i] = b.proposals[i] /\ i \in DOMAIN b.proposals
      BY <1>4, <1>10, <2>2
    <3>2. b.proposals[i].asks \in DOMAIN b.openIdx /\ b.openIdx[b.proposals[i].asks] = i
      BY <2>2, <3>1 DEF Good, SlotsMatch
    <3>3. b.proposals[i].asks # p.asks
      BY <3>1, <3>2 DEF Good, SlotsMatch
    <3> QED
      BY <1>9, <3>1, <3>2, <3>3
  <2> QED
    BY <1>7, <2>1, <2>2 DEF SlotsMatch
<1>12. Since(t, b, c)
  BY <1>4, <1>6, <1>7, FollowsItself DEF Since
<1>13. p.state = "active" => Spared(t, b, c)
  BY <1>4, <1>7 DEF Spared, Runs
<1> QED
  BY <1>3, <1>4, <1>7, <1>8, <1>11, <1>12, <1>13 DEF Good, Moves, c

(* Kinds put in the place of others.                                       *)
LEMMA KindsKeep ==
  ASSUME NEW b, Good(b), NEW ks, \A k \in DOMAIN ks : TypedKind(ks[k]), NEW t
  PROVE  LET c == [b EXCEPT !.kinds = ks] IN
         /\ Good(c) /\ Since(t, b, c) /\ c.kinds = ks /\ c.proposals = b.proposals
<1> DEFINE c == [b EXCEPT !.kinds = ks]
<1>1. c.kinds = ks /\ c.proposals = b.proposals /\ c.openIdx = b.openIdx /\ DOMAIN c = DOMAIN b
  BY DEF Good, Board
<1> HIDE DEF c
<1>2. Good(c)
  BY <1>1 DEF Good, Board, SlotsMatch
<1>3. Since(t, b, c)
  BY <1>1, FollowsItself DEF Since
<1> QED
  BY <1>1, <1>2, <1>3 DEF c

(* A new question takes a slot that nobody asking the same has.            *)
LEMMA AppendMoves ==
  ASSUME NEW b, Good(b), NEW q, q \notin DOMAIN b.openIdx,
         NEW z, TypedProposal(z), z.asks = q, z.state = "active", NEW t
  PROVE  LET c == [b EXCEPT !.proposals = Append(@, z), !.openIdx = With(@, q, Len(b.proposals) + 1)] IN
         Moves(t, b, c)
<1> DEFINE ps == Append(b.proposals, z)
           idx == With(b.openIdx, q, Len(b.proposals) + 1)
           c == [b EXCEPT !.proposals = Append(@, z), !.openIdx = With(@, q, Len(b.proposals) + 1)]
<1>1. c = [b EXCEPT !.proposals = ps, !.openIdx = idx]
  OBVIOUS
<1>2. PICK n \in Nat : b.proposals = [i \in 1 .. n |-> b.proposals[i]]
  BY DEF Good, Board
<1>3. /\ Len(b.proposals) = n /\ DOMAIN b.proposals = 1 .. n
      /\ DOMAIN ps = 1 .. n + 1 /\ ps[n + 1] = z /\ \A i \in 1 .. n : ps[i] = b.proposals[i]
      /\ ps = [i \in 1 .. n + 1 |-> ps[i]]
  <2> DEFINE S == {b.proposals[i] : i \in 1 .. n} \cup {z}
  <2>1. b.proposals \in Seq(S) /\ z \in S
    <3>1. [i \in 1 .. n |-> b.proposals[i]] \in Seq(S)
      OBVIOUS
    <3> QED
      BY <1>2, <3>1
  <2>2. DOMAIN b.proposals = 1 .. n
    BY <1>2
  <2> HIDE DEF S
  <2>3. Len(b.proposals) = n
    BY <2>1, <2>2
  <2>4. ps \in Seq(S) /\ Len(ps) = n + 1
    BY <2>1, <2>3
  <2>5. ps[n + 1] = z /\ \A i \in 1 .. n : ps[i] = b.proposals[i]
    BY <2>1, <2>3
  <2>6. DOMAIN ps = 1 .. n + 1 /\ ps = [i \in 1 .. n + 1 |-> ps[i]]
    BY <2>4
  <2> QED
    BY <2>2, <2>3, <2>5, <2>6
<1>4. /\ DOMAIN idx = {q} \cup DOMAIN b.openIdx /\ idx[q] = n + 1
      /\ \A r \in DOMAIN b.openIdx : r # q /\ idx[r] = b.openIdx[r]
  BY <1>3 DEF With
<1> HIDE DEF ps, idx, c
<1>5. /\ c.proposals = ps /\ c.openIdx = idx /\ c.kinds = b.kinds /\ DOMAIN c = DOMAIN b
  BY <1>1 DEF Good, Board
<1>6. \A i \in 1 .. n + 1 : i \in 1 .. n \/ i = n + 1
  OBVIOUS
<1>7. n + 1 \in 1 .. n + 1 /\ n + 1 \notin 1 .. n /\ n + 1 \in Nat /\ \A i \in 1 .. n : i \in 1 .. n + 1
  OBVIOUS
<1>8. Board(c)
  <2>1. \A i \in DOMAIN ps : TypedProposal(ps[i])
    BY <1>3, <1>6 DEF Good, Board
  <2>2. \E m \in Nat : ps = [i \in 1 .. m |-> ps[i]]
    BY <1>3, <1>7
  <2> QED
    BY <1>5, <2>1, <2>2 DEF Good, Board
<1>9. SlotsMatch(c)
  <2>1. ASSUME NEW r \in DOMAIN idx
        PROVE  idx[r] \in DOMAIN ps /\ ps[idx[r]].asks = r /\ Open(ps[idx[r]])
    <3>1. CASE r = q
      BY <1>3, <1>4, <1>7, <3>1 DEF Open
    <3>2. CASE r # q
      <4>1. r \in DOMAIN b.openIdx /\ idx[r] = b.openIdx[r]
        BY <1>4, <2>1, <3>2
      <4>2. /\ b.openIdx[r] \in 1 .. n /\ b.proposals[b.openIdx[r]].asks = r
            /\ Open(b.proposals[b.openIdx[r]])
        BY <1>3, <4>1 DEF Good, SlotsMatch
      <4> DEFINE j == b.openIdx[r]
      <4>3. j \in DOMAIN ps /\ ps[j] = b.proposals[j]
        BY <1>3, <1>7, <4>2
      <4> QED
        BY <4>1, <4>2, <4>3
    <3> QED
      BY <3>1, <3>2
  <2>2. ASSUME NEW i \in DOMAIN ps, Open(ps[i])
        PROVE  ps[i].asks \in DOMAIN idx /\ idx[ps[i].asks] = i
    <3>1. CASE i = n + 1
      BY <1>3, <1>4, <3>1
    <3>2. CASE i \in 1 .. n
      <4>1. b.proposals[i].asks \in DOMAIN b.openIdx /\ b.openIdx[b.proposals[i].asks] = i
        BY <1>3, <2>2, <3>2 DEF Good, SlotsMatch
      <4> QED
        BY <1>3, <1>4, <3>2, <4>1
    <3> QED
      BY <1>3, <1>6, <3>1, <3>2
  <2> QED
    BY <1>5, <2>1, <2>2 DEF SlotsMatch
<1>10. Since(t, b, c)
  BY <1>3, <1>5, <1>7, FollowsItself DEF Since
<1>11. Spared(t, b, c)
  BY <1>3, <1>5 DEF Spared
<1> QED
  BY <1>8, <1>9, <1>10, <1>11 DEF Good, Moves, c

-----------------------------------------------------------------------------
(* A transaction that runs a question has decided it, and it is due; what  *)
(* it has changed so far of the kinds is what the question is about.       *)
Member(m) == m.kind # "govern:batch" /\ IsQuestion(m)
ByMember(q, k) == \E m \in Range(Members(q)) : m.on = k /\ ~Foreign(m.kind)

Amends(q, b, c) ==
  \A k \in DOMAIN b.kinds :
    /\ k \in DOMAIN c.kinds
    /\ c.kinds[k] # b.kinds[k] => ByMember(q, k)

UnderWay(t, b, c, id, left) ==
  /\ Good(b) /\ Since(t, b, c)
  /\ id \in DOMAIN b.proposals /\ Runs(t, c.proposals[id])
  /\ LET q == c.proposals[id].asks IN
       /\ left \in Seq(Range(Members(q)))
       /\ \A m \in Range(Members(q)) : Member(m)
       /\ Amends(q, b, c)

GInv == /\ now \in Nat /\ Good(gov)
        /\ executing # 0 => UnderWay(now, undo, gov, executing, todo)

(* What a step may do to what has been committed.                          *)
Powers(b, c) ==
  \A k \in DOMAIN b.kinds : c.kinds[k] # b.kinds[k] =>
    \E i \in DOMAIN b.proposals :
      /\ c.proposals[i].state = "executed" /\ b.proposals[i].state # "executed"
      /\ ByMember(c.proposals[i].asks, k)

Allowed(t, b, c) == Since(t, b, c) /\ Powers(b, c)

LEMMA InitGInv == Init => GInv
<1> SUFFICES ASSUME Init PROVE GInv
  OBVIOUS
<1>1. DOMAIN gov = {"kinds", "proposals", "openIdx", "sweepFrom"}
      /\ gov.proposals = <<>> /\ gov.openIdx = <<>>
  BY DEF Init
<1>2. \A k \in DOMAIN gov.kinds : TypedKind(gov.kinds[k])
  BY QuestionsAssumption DEF Init, TypedKind
<1>3. \E n \in Nat : gov.proposals = [i \in 1 .. n |-> gov.proposals[i]]
  <2>1. gov.proposals = [i \in 1 .. 0 |-> gov.proposals[i]]
    BY <1>1
  <2> QED
    BY <2>1
<1>4. Board(gov) /\ SlotsMatch(gov)
  BY <1>1, <1>2, <1>3 DEF Board, SlotsMatch
<1> QED
  BY <1>4 DEF Init, GInv, Good

(* A call that changes the governor alone, made by itself or by the code   *)
(* that is run.                                                            *)
LEMMA CallKeeps ==
  ASSUME GInv, Moves(now, gov, gov'), UNCHANGED <<now, executing, todo, undo>>
  PROVE  GInv' /\ Allowed(now, Committed, Committed')
<1>1. Good(gov') /\ Since(now, gov, gov') /\ Spared(now, gov, gov')
  BY DEF Moves
<1>2. CASE executing = 0
  <2>1. Committed = gov /\ Committed' = gov'
    BY <1>2 DEF Committed
  <2>2. Powers(gov, gov')
    BY <1>1 DEF Powers, Spared
  <2>3. GInv'
    BY <1>1, <1>2 DEF GInv
  <2> QED
    BY <1>1, <2>1, <2>2, <2>3 DEF Allowed
<1>3. CASE executing # 0
  <2>1. Committed = undo /\ Committed' = undo
    BY <1>3 DEF Committed
  <2>2. Allowed(now, undo, undo)
    BY SinceItself DEF Allowed, Powers
  <2>3. UnderWay(now, undo, gov, executing, todo)
    BY <1>3 DEF GInv
  <2>4. executing \in DOMAIN gov.proposals /\ executing \in DOMAIN gov'.proposals
    BY <1>1, <2>3 DEF UnderWay, Since
  <2>5. gov'.proposals[executing].asks = gov.proposals[executing].asks
    BY <1>1, <2>4 DEF Since, Follows
  <2>6. Runs(now, gov'.proposals[executing])
    BY <1>1, <2>3, <2>4 DEF UnderWay, Spared
  <2>7. Since(now, undo, gov')
    BY <1>1, <2>3, SinceThrough DEF UnderWay
  <2> DEFINE q == gov.proposals[executing].asks
  <2>8. Amends(q, undo, gov')
    BY <1>1, <2>3 DEF UnderWay, Amends, Spared
  <2>9. UnderWay(now, undo, gov', executing, todo)
    BY <2>3, <2>5, <2>6, <2>7, <2>8 DEF UnderWay
  <2>10. GInv'
    BY <1>1, <1>3, <2>9 DEF GInv
  <2> QED
    BY <2>1, <2>2, <2>10
<1> QED
  BY <1>2, <1>3

(* What is not committed yet changes nothing.                              *)
LEMMA NothingCommitted ==
  ASSUME Committed' = Committed
  PROVE  Allowed(now, Committed, Committed')
<1>1. Allowed(now, Committed, Committed)
  BY SinceItself DEF Allowed, Powers
<1> QED
  BY <1>1

-----------------------------------------------------------------------------
LEMMA OfferKeeps ==
  ASSUME GInv, NEW name, NEW rules \in RulesChoices, Offer(name, rules)
  PROVE  GInv' /\ Allowed(now, Committed, Committed')
<1> DEFINE x == [rules |-> rules, live |-> FALSE]
           ks == With(gov.kinds, name, x)
<1>1. /\ name \notin DOMAIN gov.kinds /\ gov' = [gov EXCEPT !.kinds = ks]
      /\ UNCHANGED <<now, executing, todo, undo>>
  BY DEF Offer, Becomes
<1>2. TypedKind(x)
  BY QuestionsAssumption DEF TypedKind
<1>3. /\ DOMAIN ks = {name} \cup DOMAIN gov.kinds /\ ks[name] = x
      /\ \A k \in DOMAIN gov.kinds : k # name /\ ks[k] = gov.kinds[k]
  BY <1>1 DEF With
<1> HIDE DEF ks, x
<1>4. \A k \in DOMAIN ks : TypedKind(ks[k])
  BY <1>2, <1>3 DEF GInv, Good, Board
<1>5. Good(gov') /\ Since(now, gov, gov') /\ gov'.kinds = ks /\ gov'.proposals = gov.proposals
  BY <1>1, <1>4, KindsKeep DEF GInv
<1>6. Spared(now, gov, gov')
  BY <1>3, <1>5 DEF Spared
<1>7. Moves(now, gov, gov')
  BY <1>5, <1>6 DEF Moves
<1> QED
  BY <1>1, <1>7, CallKeeps

LEMMA ProposeKeeps ==
  ASSUME GInv, NEW who, NEW q \in Questions, NEW floor, Propose(who, q, floor)
  PROVE  GInv' /\ Allowed(now, Committed, Committed')
<1> DEFINE swept == IF Size(gov) >= Slots(q.kind) THEN Sweep(gov) ELSE gov
           b == IF q \in DOMAIN swept.openIdx THEN Settle(swept, swept.openIdx[q]) ELSE swept
           z == NewProposal(who, q, floor)
<1>1. /\ q \notin DOMAIN b.openIdx /\ IsLive(gov, q.kind)
      /\ gov' = [b EXCEPT !.proposals = Append(@, z), !.openIdx = With(@, q, Len(b.proposals) + 1)]
      /\ UNCHANGED <<now, executing, todo, undo>>
  BY DEF Propose, Becomes
<1>2. now \in Nat /\ Good(gov)
  BY DEF GInv
<1>3. Moves(now, gov, swept)
  <2>1. Moves(now, gov, gov)
    BY <1>2, SinceItself DEF Moves, Spared
  <2> QED
    BY <1>2, <2>1, SweepMoves
<1> HIDE DEF swept
<1>4. Moves(now, gov, b)
  <2>1. CASE q \in DOMAIN swept.openIdx
    <3>1. Good(swept) /\ {swept.openIdx[q]} \subseteq DOMAIN swept.proposals
      BY <1>3, <2>1 DEF Moves, Good, SlotsMatch
    <3>2. Moves(now, swept, b)
      BY <1>2, <2>1, <3>1, SettleAllMoves DEF Settle
    <3> QED
      BY <1>3, <3>2, MovesThrough
  <2>2. CASE q \notin DOMAIN swept.openIdx
    BY <1>3, <2>2
  <2> QED
    BY <2>1, <2>2
<1> HIDE DEF b
<1>5. TypedProposal(z) /\ z.asks = q /\ z.state = "active"
  <2>1. gov.kinds[q.kind].rules \in RulesRecords
    BY <1>1, <1>2 DEF IsLive, Good, Board, TypedKind
  <2> QED
    BY <2>1 DEF NewProposal, TypedProposal, Fields
<1> HIDE DEF z
<1>6. Moves(now, b, gov')
  BY <1>1, <1>4, <1>5, AppendMoves DEF Moves
<1> QED
  BY <1>1, <1>4, <1>6, MovesThrough, CallKeeps

LEMMA SettleMoves ==
  ASSUME NEW b, Good(b), NEW id \in DOMAIN b.proposals, now \in Nat
  PROVE  /\ Moves(now, b, Settle(b, id))
         /\ DOMAIN Settle(b, id).proposals = DOMAIN b.proposals
         /\ Settle(b, id).proposals[id] = Settled(b.proposals[id])
<1>1. {id} \subseteq DOMAIN b.proposals /\ id \in DOMAIN b.proposals \cap {id}
  OBVIOUS
<1> QED
  BY <1>1, SettleAllMoves DEF Settle

LEMMA VoteKeeps ==
  ASSUME GInv, NEW who, NEW id \in Ids, NEW choice \in Ballots, NEW cap, Vote(who, id, choice, cap)
  PROVE  GInv' /\ Allowed(now, Committed, Committed')
<1> DEFINE b == Settle(gov, id)
           p == b.proposals[id]
           w == Weight(p, who, cap)
           z == WithBallot(p, who, choice, w)
           c == [b EXCEPT !.proposals[id] = z]
<1>1. /\ p.state = "active" /\ gov' = Settle(c, id)
      /\ UNCHANGED <<now, executing, todo, undo>>
  BY DEF Vote, Becomes
<1>2. now \in Nat /\ Good(gov) /\ id \in DOMAIN gov.proposals
  BY DEF GInv, Ids
<1>3. Moves(now, gov, b) /\ id \in DOMAIN b.proposals
  BY <1>2, SettleMoves
<1> HIDE DEF b
<1>4. TypedProposal(p)
  BY <1>3 DEF Moves, Good, Board
<1> HIDE DEF p, w
<1>5. /\ DOMAIN z = DOMAIN p /\ z.asks = p.asks /\ z.rules = p.rules /\ z.state = p.state
      /\ z.readyTime = p.readyTime
  BY DEF Ballots, WithBallot
<1>6. TypedProposal(z) /\ Follows(now, p, z)
  <2> HIDE DEF z
  <2>1. TypedProposal(z)
    BY <1>4, <1>5 DEF TypedProposal
  <2>2. Follows(now, p, z)
    BY <1>1, <1>5 DEF Follows, Onward
  <2> QED
    BY <2>1, <2>2
<1> HIDE DEF z
<1>7. Moves(now, b, c) /\ id \in DOMAIN c.proposals
  BY <1>3, <1>5, <1>6, PatchMoves DEF Moves, p
<1> HIDE DEF c
<1>8. Moves(now, c, gov')
  BY <1>1, <1>2, <1>7, SettleMoves DEF Moves
<1>9. Moves(now, gov, gov')
  BY <1>3, <1>7, <1>8, MovesThrough
<1> QED
  BY <1>1, <1>9, CallKeeps

LEMMA SettleOneKeeps ==
  ASSUME GInv, NEW id \in Ids, SettleOne(id)
  PROVE  GInv' /\ Allowed(now, Committed, Committed')
<1>1. gov' = Settle(gov, id) /\ UNCHANGED <<now, executing, todo, undo>>
  BY DEF SettleOne, Becomes
<1>2. Moves(now, gov, gov')
  BY <1>1, SettleMoves DEF GInv, Ids
<1> QED
  BY <1>1, <1>2, CallKeeps

LEMMA SweepKeeps ==
  ASSUME GInv, SweepBoard
  PROVE  GInv' /\ Allowed(now, Committed, Committed')
<1>1. gov' = Sweep(gov) /\ UNCHANGED <<now, executing, todo, undo>>
  BY DEF SweepBoard, Becomes
<1>2. Moves(now, gov, gov')
  BY <1>1, SweepMoves DEF GInv
<1> QED
  BY <1>1, <1>2, CallKeeps

LEMMA CancelKeeps ==
  ASSUME GInv, NEW who, NEW id \in Ids, Cancel(who, id)
  PROVE  GInv' /\ Allowed(now, Committed, Committed')
<1> DEFINE b == Settle(gov, id)
<1>1. /\ b.proposals[id].state = "active" /\ gov' = SetState(b, id, "canceled")
      /\ UNCHANGED <<now, executing, todo, undo>>
  BY DEF Cancel, Becomes
<1>2. Moves(now, gov, b) /\ id \in DOMAIN b.proposals
  BY SettleMoves DEF GInv, Ids
<1> HIDE DEF b
<1>3. Moves(now, b, gov')
  <2>1. Open(b.proposals[id]) /\ Onward(b.proposals[id].state, "canceled")
    BY <1>1 DEF Open, Onward
  <2> QED
    BY <1>1, <1>2, <2>1, SetStateMoves DEF Moves
<1> QED
  BY <1>1, <1>2, <1>3, MovesThrough, CallKeeps

LEMMA ReleaseRollKeeps ==
  ASSUME GInv, NEW id \in Ids, ReleaseRoll(id)
  PROVE  GInv' /\ Allowed(now, Committed, Committed')
<1> DEFINE b == Settle(gov, id)
           p == b.proposals[id]
           z == [p EXCEPT !.voted = {}]
<1>1. /\ ~Open(p) /\ gov' = [b EXCEPT !.proposals[id] = z]
      /\ UNCHANGED <<now, executing, todo, undo>>
  BY DEF ReleaseRoll, Becomes
<1>2. Moves(now, gov, b) /\ id \in DOMAIN b.proposals
  BY SettleMoves DEF GInv, Ids
<1> HIDE DEF b
<1>3. TypedProposal(p)
  BY <1>2 DEF Moves, Good, Board
<1> HIDE DEF p
<1>4. /\ DOMAIN z = DOMAIN p /\ z.asks = p.asks /\ z.rules = p.rules /\ z.state = p.state
      /\ z.readyTime = p.readyTime /\ z.yes = p.yes /\ z.no = p.no /\ z.abstain = p.abstain
  BY <1>3 DEF TypedProposal, Fields
<1> HIDE DEF z
<1>5. TypedProposal(z) /\ Follows(now, p, z)
  <2>1. TypedProposal(z)
    BY <1>3, <1>4 DEF TypedProposal
  <2>2. Follows(now, p, z)
    BY <1>1, <1>4 DEF Follows, Onward, Open
  <2> QED
    BY <2>1, <2>2
<1>6. Moves(now, b, gov')
  BY <1>1, <1>2, <1>4, <1>5, PatchMoves DEF Moves, p
<1> QED
  BY <1>1, <1>2, <1>6, MovesThrough, CallKeeps

-----------------------------------------------------------------------------
(* Running a question.                                                     *)
LEMMA CommitKeeps ==
  ASSUME now \in Nat, now' = now, Good(gov'), executing' = 0,
         Since(now, Committed, gov'), Powers(Committed, gov')
  PROVE  GInv' /\ Allowed(now, Committed, Committed')
<1>1. Committed' = gov'
  BY DEF Committed
<1>2. GInv'
  BY DEF GInv
<1> QED
  BY <1>1, <1>2 DEF Allowed

LEMMA MembersTyped ==
  ASSUME NEW q \in Questions, NEW b, NEW valid, Runnable(b, q, valid)
  PROVE  /\ Members(q) \in Seq(Range(Members(q)))
         /\ \A m \in Range(Members(q)) : Member(m)
<1>1. /\ IsQuestion(q) /\ q.members \in Seq(Range(q.members))
      /\ \A m \in Range(q.members) : IsQuestion(m)
  BY QuestionsAssumption
<1>2. ASSUME NEW m, CheckOne(b, m, valid) PROVE m.kind # "govern:batch"
  BY <1>2 DEF CheckOne, Foreign, Builtins
<1>3. CASE q.kind = "govern:batch"
  <2>1. Members(q) = q.members
    BY <1>3 DEF Members
  <2>2. ASSUME NEW m \in Range(q.members) PROVE Member(m)
    <3>1. PICK i \in DOMAIN q.members : m = q.members[i]
      BY DEF Range
    <3>2. CheckOne(b, m, valid)
      BY <1>3, <3>1 DEF Runnable, CheckKind
    <3> QED
      BY <1>1, <1>2, <3>2 DEF Member
  <2> QED
    BY <1>1, <2>1, <2>2
<1>4. CASE q.kind # "govern:batch"
  <2>1. Members(q) = <<q>>
    BY <1>4 DEF Members
  <2>2. Range(<<q>>) = {q}
    BY DEF Range
  <2>3. <<q>> \in Seq({q})
    OBVIOUS
  <2> QED
    BY <1>1, <1>4, <2>1, <2>2, <2>3 DEF Member
<1> QED
  BY <1>3, <1>4

LEMMA ExecuteKeeps ==
  ASSUME GInv, NEW id \in Ids, NEW valid, Execute(id, valid)
  PROVE  GInv' /\ Allowed(now, Committed, Committed')
<1> DEFINE b == Settle(gov, id)
           p == b.proposals[id]
<1>1. now \in Nat /\ Good(gov) /\ id \in DOMAIN gov.proposals /\ executing = 0
  BY DEF GInv, Ids, Execute
<1>2. Moves(now, gov, b) /\ id \in DOMAIN b.proposals /\ p = Settled(gov.proposals[id])
  BY <1>1, SettleMoves
<1>3. p.state = "succeeded" /\ now >= p.readyTime
  BY DEF Execute
<1>4. Committed = gov
  BY <1>1 DEF Committed
<1>5. CASE Runnable(b, p.asks, valid)
  <2>1. gov' = b /\ undo' = gov /\ executing' = id /\ todo' = Members(p.asks) /\ now' = now
    BY <1>5 DEF Execute
  <2>2. id # 0
    <3>1. PICK n \in Nat : gov.proposals = [i \in 1 .. n |-> gov.proposals[i]]
      BY <1>1 DEF Good, Board
    <3>2. id \in 1 .. n
      BY <1>1, <3>1
    <3> QED
      BY <3>2
  <2>3. Runs(now, p)
    <3>1. TypedProposal(gov.proposals[id])
      BY <1>1 DEF Good, Board
    <3> QED
      BY <1>1, <1>2, <1>3, <3>1, SettledFollows
  <2> HIDE DEF b
  <2>4. p.asks \in Questions
    BY <1>2 DEF Moves, Good, Board, TypedProposal
  <2>5. /\ Members(p.asks) \in Seq(Range(Members(p.asks)))
        /\ \A m \in Range(Members(p.asks)) : Member(m)
    BY <1>5, <2>4, MembersTyped
  <2>6. Amends(p.asks, gov, b)
    BY <1>2 DEF Moves, Spared, Amends
  <2>7. UnderWay(now, gov, b, id, Members(p.asks))
    BY <1>1, <1>2, <2>3, <2>5, <2>6 DEF UnderWay, Moves
  <2>8. GInv'
    BY <1>1, <1>2, <2>1, <2>7 DEF GInv, Moves
  <2>9. Committed' = Committed
    BY <1>4, <2>1, <2>2 DEF Committed
  <2> QED
    BY <2>8, <2>9, NothingCommitted
<1>6. CASE ~Runnable(b, p.asks, valid)
  <2>1. gov' = SetState(b, id, "failed") /\ UNCHANGED <<now, executing>>
    BY <1>6 DEF Execute, Becomes
  <2> HIDE DEF b
  <2>2. /\ Good(gov') /\ Since(now, b, gov') /\ gov'.kinds = b.kinds
    <3>1. Open(p) /\ Onward(p.state, "failed")
      BY <1>3 DEF Open, Onward
    <3> QED
      BY <1>2, <2>1, <3>1, SetStateMoves DEF Moves
  <2>3. Since(now, gov, gov')
    BY <1>2, <2>2, SinceThrough DEF Moves
  <2>4. Powers(gov, gov')
    BY <1>2, <2>2 DEF Moves, Spared, Powers
  <2> QED
    BY <1>1, <1>4, <2>1, <2>2, <2>3, <2>4, CommitKeeps
<1> QED
  BY <1>5, <1>6

(* The next member is one of the question's, and so are those after it.    *)
LEMMA NextMember ==
  ASSUME GInv, executing # 0, todo # <<>>
  PROVE  LET q == gov.proposals[executing].asks IN
         /\ UnderWay(now, undo, gov, executing, todo)
         /\ Head(todo) \in Range(Members(q)) /\ Member(Head(todo))
         /\ Tail(todo) \in Seq(Range(Members(q)))
<1> DEFINE q == gov.proposals[executing].asks
           S == Range(Members(q))
<1>1. UnderWay(now, undo, gov, executing, todo)
  BY DEF GInv
<1>2. todo \in Seq(S) /\ \A m \in S : Member(m)
  BY <1>1 DEF UnderWay
<1> HIDE DEF S
<1>3. Head(todo) \in S /\ Tail(todo) \in Seq(S)
  BY <1>2
<1> QED
  BY <1>1, <1>2, <1>3 DEF S

LEMMA ForeignReturnsKeeps ==
  ASSUME GInv, ForeignReturns
  PROVE  GInv' /\ Allowed(now, Committed, Committed')
<1>1. executing # 0 /\ todo # <<>> /\ todo' = Tail(todo) /\ UNCHANGED <<now, gov, executing, undo>>
  BY DEF ForeignReturns, ForeignRunning
<1>2. UnderWay(now, undo, gov, executing, Tail(todo))
  BY <1>1, NextMember DEF UnderWay
<1>3. GInv'
  BY <1>1, <1>2 DEF GInv
<1>4. Committed' = Committed
  BY <1>1 DEF Committed
<1> QED
  BY <1>3, <1>4, NothingCommitted

LEMMA RunMemberKeeps ==
  ASSUME GInv, RunMember
  PROVE  GInv' /\ Allowed(now, Committed, Committed')
<1> DEFINE h == Head(todo)
           ks == RunBuiltin(gov.kinds, h)
           q == gov.proposals[executing].asks
<1>1. /\ executing # 0 /\ todo # <<>> /\ ~Foreign(h.kind)
      /\ gov' = [gov EXCEPT !.kinds = ks] /\ todo' = Tail(todo)
      /\ UNCHANGED <<now, executing, undo>>
  BY DEF RunMember
<1>2. /\ UnderWay(now, undo, gov, executing, todo) /\ Good(gov)
      /\ h \in Range(Members(q)) /\ Member(h)
      /\ Tail(todo) \in Seq(Range(Members(q)))
  BY <1>1, NextMember DEF GInv
<1>3. h.kind \in {"govern:adopt", "govern:retire", "govern:rules"}
  BY <1>1, <1>2 DEF Member, Foreign, Builtins
<1> HIDE DEF h
<1>4. /\ DOMAIN ks = DOMAIN gov.kinds
      /\ \A k \in DOMAIN ks : TypedKind(ks[k]) /\ (k # h.on => ks[k] = gov.kinds[k])
  <2>1. \A k \in DOMAIN gov.kinds : TypedKind(gov.kinds[k])
    BY <1>2 DEF Good, Board
  <2>2. ASSUME NEW v, ks = [gov.kinds EXCEPT ![h.on].live = v]
        PROVE  /\ DOMAIN ks = DOMAIN gov.kinds
               /\ \A k \in DOMAIN ks : TypedKind(ks[k]) /\ (k # h.on => ks[k] = gov.kinds[k])
    <3> HIDE DEF ks
    <3> QED
      BY <2>1, <2>2 DEF TypedKind
  <2>3. CASE h.kind = "govern:rules"
    <3> DEFINE r == gov.kinds[h.on].rules
               new == Change(r, h.set)
    <3>1. ks = [gov.kinds EXCEPT ![h.on].rules = new]
      BY <2>3 DEF RunBuiltin
    <3>2. h.on \in DOMAIN gov.kinds => new \in RulesRecords
      <4>1. h.on \in DOMAIN gov.kinds => r \in RulesRecords
        BY <2>1 DEF TypedKind
      <4>2. \A f \in DOMAIN h.set : h.set[f] \in Nat
        BY <1>2 DEF Member, IsQuestion
      <4> HIDE DEF r
      <4> QED
        BY <4>1, <4>2 DEF RulesRecords, Change
    <3> HIDE DEF ks, new
    <3> QED
      BY <2>1, <3>1, <3>2 DEF TypedKind
  <2>4. CASE h.kind = "govern:adopt"
    BY <2>2, <2>4 DEF RunBuiltin
  <2>5. CASE h.kind = "govern:retire"
    BY <2>2, <2>5 DEF RunBuiltin
  <2> QED
    BY <1>3, <2>3, <2>4, <2>5
<1> HIDE DEF ks
<1>5. Good(gov') /\ Since(now, gov, gov') /\ gov'.kinds = ks /\ gov'.proposals = gov.proposals
  BY <1>1, <1>2, <1>4, KindsKeep
<1>6. Amends(q, undo, gov')
  <2> SUFFICES ASSUME NEW k \in DOMAIN undo.kinds
               PROVE  k \in DOMAIN ks /\ (ks[k] # undo.kinds[k] => ByMember(q, k))
    BY <1>5 DEF Amends
  <2>1. k \in DOMAIN gov.kinds /\ (gov.kinds[k] # undo.kinds[k] => ByMember(q, k))
    BY <1>2 DEF UnderWay, Amends
  <2>2. CASE k = h.on
    BY <1>1, <1>2, <1>4, <2>1, <2>2 DEF ByMember
  <2>3. CASE k # h.on
    BY <1>4, <2>1, <2>3
  <2> QED
    BY <2>2, <2>3
<1>7. Since(now, undo, gov')
  BY <1>2, <1>5, SinceThrough DEF UnderWay
<1>8. UnderWay(now, undo, gov', executing, Tail(todo))
  BY <1>2, <1>5, <1>6, <1>7 DEF UnderWay
<1>9. GInv'
  BY <1>1, <1>5, <1>8 DEF GInv
<1>10. Committed' = Committed
  BY <1>1 DEF Committed
<1> QED
  BY <1>9, <1>10, NothingCommitted

LEMMA AbortKeeps ==
  ASSUME GInv, Abort
  PROVE  GInv' /\ Allowed(now, Committed, Committed')
<1>1. executing # 0 /\ gov' = undo /\ executing' = 0 /\ now' = now
  BY DEF Abort, EndRun
<1>2. Good(undo) /\ now \in Nat
  BY <1>1 DEF GInv, UnderWay
<1>3. Committed = undo
  BY <1>1 DEF Committed
<1>4. Since(now, undo, undo) /\ Powers(undo, undo)
  BY SinceItself DEF Powers
<1> QED
  BY <1>1, <1>2, <1>3, <1>4, CommitKeeps

(* The end of a run, as one that failed or as one that was executed.       *)
LEMMA EndsWell ==
  ASSUME GInv, executing # 0, NEW st \in {"failed", "executed"},
         gov' = SetState(gov, executing, st)
  PROVE  /\ Good(gov') /\ Since(now, undo, gov') /\ gov'.kinds = gov.kinds
         /\ gov'.proposals[executing].state = st /\ executing \in DOMAIN undo.proposals
         /\ gov'.proposals[executing].asks = gov.proposals[executing].asks
         /\ undo.proposals[executing].state # "executed"
<1> DEFINE p == gov.proposals[executing]
<1>1. UnderWay(now, undo, gov, executing, todo) /\ Good(gov)
  BY DEF GInv
<1>2. /\ Since(now, undo, gov) /\ executing \in DOMAIN undo.proposals
      /\ p.state = "succeeded" /\ now >= p.readyTime
  BY <1>1 DEF UnderWay, Runs
<1>3. executing \in DOMAIN gov.proposals /\ Onward(undo.proposals[executing].state, p.state)
  BY <1>2 DEF Since, Follows
<1>4. Open(p) /\ Onward(p.state, st)
  BY <1>2 DEF Open, Onward
<1>5. /\ Good(gov') /\ Since(now, gov, gov') /\ gov'.kinds = gov.kinds
      /\ gov'.proposals[executing].state = st
  BY <1>1, <1>2, <1>3, <1>4, SetStateMoves
<1>6. Since(now, undo, gov') /\ gov'.proposals[executing].asks = p.asks
  <2>1. Since(now, undo, gov')
    BY <1>2, <1>5, SinceThrough
  <2>2. gov'.proposals[executing].asks = p.asks
    BY <1>3, <1>5 DEF Since, Follows
  <2> QED
    BY <2>1, <2>2
<1>7. undo.proposals[executing].state # "executed"
  BY <1>2, <1>3 DEF Onward
<1> QED
  BY <1>2, <1>5, <1>6, <1>7

LEMMA FinishKeeps ==
  ASSUME GInv, Finish
  PROVE  GInv' /\ Allowed(now, Committed, Committed')
<1>1. /\ executing # 0 /\ gov' = SetState(gov, executing, "executed")
      /\ executing' = 0 /\ now' = now
  BY DEF Finish, EndRun
<1>2. /\ Good(gov') /\ Since(now, undo, gov') /\ gov'.kinds = gov.kinds
      /\ gov'.proposals[executing].state = "executed" /\ executing \in DOMAIN undo.proposals
      /\ gov'.proposals[executing].asks = gov.proposals[executing].asks
      /\ undo.proposals[executing].state # "executed"
  BY <1>1, EndsWell
<1>3. Amends(gov.proposals[executing].asks, undo, gov)
  BY <1>1 DEF GInv, UnderWay
<1>4. Powers(undo, gov')
  BY <1>2, <1>3 DEF Amends, Powers
<1>5. Committed = undo /\ now \in Nat
  BY <1>1 DEF Committed, GInv
<1> QED
  BY <1>1, <1>2, <1>4, <1>5, CommitKeeps

LEMMA ForeignRefusesKeeps ==
  ASSUME GInv, ForeignRefuses
  PROVE  GInv' /\ Allowed(now, Committed, Committed')
<1> DEFINE q == gov.proposals[executing].asks
<1>1. /\ executing # 0 /\ todo # <<>> /\ Foreign(Head(todo).kind) /\ q.kind # "govern:batch"
      /\ gov' = SetState(gov, executing, "failed") /\ executing' = 0 /\ now' = now
  BY DEF ForeignRefuses, ForeignRunning, InBatch, EndRun
<1>2. Good(gov') /\ Since(now, undo, gov') /\ gov'.kinds = gov.kinds
  BY <1>1, EndsWell
<1>3. Amends(q, undo, gov) /\ Head(todo) \in Range(Members(q))
  BY <1>1, NextMember DEF UnderWay
<1> HIDE DEF q
<1>4. \A k : ~ByMember(q, k)
  <2>1. Members(q) = <<q>>
    BY <1>1 DEF Members
  <2>2. Range(<<q>>) = {q}
    BY DEF Range
  <2>3. Head(todo) = q
    BY <1>3, <2>1, <2>2
  <2> QED
    BY <1>1, <2>1, <2>2, <2>3 DEF ByMember
<1>5. Powers(undo, gov')
  BY <1>2, <1>3, <1>4 DEF Amends, Powers
<1>6. Committed = undo /\ now \in Nat
  BY <1>1 DEF Committed, GInv
<1> QED
  BY <1>1, <1>2, <1>5, <1>6, CommitKeeps

-----------------------------------------------------------------------------
LEMMA NextKeeps ==
  ASSUME GInv, [Next]_vars
  PROVE  GInv' /\ Allowed(now, Committed, Committed')
<1>1. CASE Tick \/ \E w \in Worlds : Seal(w)
  <2>1. executing = 0 /\ UNCHANGED <<gov, executing, undo>> /\ now' \in Nat
    BY <1>1 DEF Tick, Seal, GInv
  <2>2. GInv'
    BY <2>1 DEF GInv
  <2>3. Committed' = Committed
    BY <2>1 DEF Committed
  <2> QED
    BY <2>2, <2>3, NothingCommitted
<1>2. CASE Running
  BY <1>2, RunMemberKeeps, ForeignReturnsKeeps, ForeignRefusesKeeps, AbortKeeps, FinishKeeps DEF Running
<1>3. CASE UNCHANGED vars
  <2>1. GInv'
    BY <1>3 DEF vars, GInv
  <2>2. Committed' = Committed
    BY <1>3 DEF vars, Committed
  <2> QED
    BY <2>1, <2>2, NothingCommitted
<1>4. ASSUME NEW n \in Names, NEW r \in RulesChoices, Offer(n, r)
      PROVE  GInv' /\ Allowed(now, Committed, Committed')
  BY <1>4, OfferKeeps
<1>5. ASSUME NEW a \in Addr, NEW q \in Questions, NEW f \in Floors, Propose(a, q, f)
      PROVE  GInv' /\ Allowed(now, Committed, Committed')
  BY <1>5, ProposeKeeps
<1>6. ASSUME NEW a \in Addr, NEW id \in Ids, NEW c \in Ballots, NEW cap \in Caps, Vote(a, id, c, cap)
      PROVE  GInv' /\ Allowed(now, Committed, Committed')
  BY <1>6, VoteKeeps
<1>7. ASSUME NEW id \in Ids, SettleOne(id) \/ ReleaseRoll(id)
      PROVE  GInv' /\ Allowed(now, Committed, Committed')
  BY <1>7, SettleOneKeeps, ReleaseRollKeeps
<1>8. ASSUME NEW a \in Addr, NEW id \in Ids, Cancel(a, id)
      PROVE  GInv' /\ Allowed(now, Committed, Committed')
  BY <1>8, CancelKeeps
<1>9. CASE SweepBoard
  BY <1>9, SweepKeeps
<1>10. ASSUME NEW id \in Ids, NEW valid \in BOOLEAN, Execute(id, valid)
       PROVE  GInv' /\ Allowed(now, Committed, Committed')
  BY <1>10, ExecuteKeeps
<1> QED
  BY <1>1, <1>2, <1>3, <1>4, <1>5, <1>6, <1>7, <1>8, <1>9, <1>10 DEF Next

(* A question holds a slot exactly as long as it is open, under whatever   *)
(* foreign code settles, sweeps, cancels and offers while a question runs, *)
(* and whether what runs is finished or taken back.                        *)
THEOREM SlotsAreQuestions == Spec => []SlotsMatchQuestions
<1>1. GInv => SlotsMatchQuestions
  BY DEF GInv, Good, SlotsMatch, SlotsMatchQuestions, Ids
<1>2. GInv /\ [Next]_vars => GInv'
  BY NextKeeps
<1> QED
  BY <1>1, <1>2, InitGInv, PTL DEF Spec

(* A question goes only forward, and after its decision neither the tally  *)
(* nor the roll behind it changes, but for a finished one's being dropped. *)
THEOREM DecisionsStay == Spec => DecisionsAreFinal
<1>1. GInv /\ [Next]_vars => GInv'
  BY NextKeeps
<1>2. GInv /\ [Next]_vars =>
        [\A i \in DOMAIN Committed.proposals :
           /\ Onward(Before(i).state, After(i).state)
           /\ Before(i).state # "active" =>
                /\ <<After(i).yes, After(i).no, After(i).abstain>> =
                   <<Before(i).yes, Before(i).no, Before(i).abstain>>
                /\ After(i).voted = Before(i).voted \/ ~Open(After(i))]_vars
  BY NextKeeps DEF Allowed, Since, Follows, Before, After
<1> QED
  BY <1>1, <1>2, InitGInv, PTL DEF Spec, DecisionsAreFinal

(* Between the moment a question is decided and the moment it may run lies *)
(* the whole of its delay, however late the decision was written down.     *)
THEOREM DelayIsKept == Spec => ReactionTime
<1>1. GInv /\ [Next]_vars => GInv'
  BY NextKeeps
<1>2. GInv /\ [Next]_vars =>
        [\A i \in DOMAIN Committed.proposals :
           /\ Before(i).state = "active" /\ After(i).state \in {"succeeded", "executed"} =>
                After(i).readyTime >= now + After(i).rules["delay"] * SecsPerBlock
           /\ Before(i).state # "executed" /\ After(i).state = "executed" =>
                now >= After(i).readyTime]_vars
  BY NextKeeps DEF Allowed, Since, Follows, Delayed, Before, After
<1> QED
  BY <1>1, <1>2, InitGInv, PTL DEF Spec, ReactionTime

(* A kind is adopted, retired or given other rules only by a transaction   *)
(* that runs to its end a question, or a batch with a member, about it.    *)
THEOREM PowersByVote == Spec => PowersChangeByVote
<1>1. GInv /\ [Next]_vars => GInv'
  BY NextKeeps
<1>2. GInv /\ [Next]_vars =>
        [\A k \in DOMAIN Committed.kinds : Committed'.kinds[k] # Committed.kinds[k] =>
           \E i \in DOMAIN Committed.proposals :
             /\ After(i).state = "executed" /\ Before(i).state # "executed"
             /\ \E m \in Range(Members(After(i).asks)) : m.on = k /\ ~Foreign(m.kind)]_vars
  BY NextKeeps DEF Allowed, Powers, ByMember, Before, After
<1> QED
  BY <1>1, <1>2, InitGInv, PTL DEF Spec, PowersChangeByVote

-----------------------------------------------------------------------------
(* The tally of a question whose electorate was w: whoever voted is in the *)
(* electorate and counted for no more than their share of it, and what was *)
(* cast is not more than the shares of those who voted.                    *)
Voted(p) == {v.voter : v \in p.voted}

Recorded(w, p) ==
  /\ IsFiniteSet(p.voted)
  /\ \A v \in p.voted : v.voter \in Addr /\ v.weight \in Nat /\ v.weight \in 1 .. w.votes[v.voter]
  /\ p.yes = Cast(p, "yes") /\ p.no = Cast(p, "no") /\ p.abstain = Cast(p, "abstain")
  /\ Turnout(p) <= SumFunctionOnSet(w.votes, Voted(p))
  /\ p.total = w.total

Counted(s, p) ==
  /\ Fields \cup {"total", "engaged", "quorumFloor", "epoch"} \subseteq DOMAIN p
  /\ Ballot(p) /\ p.closesTime \in Nat
  /\ p.epoch \in DOMAIN s
  /\ Open(p) => Recorded(s[p.epoch], p)

Counts(s, b) == /\ \A k \in DOMAIN b.kinds : SaneRules(b.kinds[k].rules)
                /\ \A i \in DOMAIN b.proposals : Counted(s, b.proposals[i])

(* What was made of p at time t has a reason that the rest of the votes    *)
(* cannot take away, or the vote was over.                                 *)
Grounded(t, z) ==
  /\ z.state \in {"succeeded", "executed", "failed", "expired"} => Won(z) \/ t >= z.closesTime
  /\ z.state = "defeated" => Lost(z) \/ t >= z.closesTime

SameTally(p, z) ==
  /\ z.yes = p.yes /\ z.no = p.no /\ z.abstain = p.abstain /\ z.total = p.total
  /\ z.engaged = p.engaged /\ z.quorumFloor = p.quorumFloor /\ z.rules = p.rules

Reasoned(t, p, z) ==
  /\ z.asks = p.asks /\ z.closesTime = p.closesTime
  /\ Onward(p.state, z.state)
  /\ p.state = "active" => Grounded(t, z)
  /\ p.state # "active" => SameTally(p, z)

ReasonedSince(t, b, c) ==
  \A i \in DOMAIN b.proposals :
    i \in DOMAIN c.proposals /\ Reasoned(t, b.proposals[i], c.proposals[i])

(* A change of p that is not a vote.                                       *)
Retallied(t, p, z) ==
  /\ Reasoned(t, p, z) /\ SameTally(p, z)
  /\ z.epoch = p.epoch /\ DOMAIN z = DOMAIN p
  /\ Open(z) => Open(p) /\ z.voted = p.voted

Recount(t, b, c) ==
  /\ c.kinds = b.kinds /\ DOMAIN c.proposals = DOMAIN b.proposals
  /\ \A i \in DOMAIN b.proposals : Retallied(t, b.proposals[i], c.proposals[i])

LEMMA SameDecision ==
  ASSUME NEW p, NEW z, SameTally(p, z)
  PROVE  (Won(z) <=> Won(p)) /\ (Lost(z) <=> Lost(p)) /\ Turnout(z) = Turnout(p)
<1>1. Turnout(z) = Turnout(p)
  BY DEF SameTally, Turnout
<1>2. Rest(z) = Rest(p)
  BY <1>1 DEF SameTally, Rest
<1>3. Quorate(z) <=> Quorate(p)
  BY <1>1 DEF SameTally, Quorate
<1> QED
  BY <1>1, <1>2, <1>3 DEF SameTally, Won, Lost, Carries

LEMMA ReasonedThrough ==
  ASSUME NEW t, NEW p, NEW m, NEW z, Reasoned(t, p, m), Reasoned(t, m, z)
  PROVE  Reasoned(t, p, z)
<1>1. Onward(p.state, z.state) /\ z.asks = p.asks /\ z.closesTime = p.closesTime
  BY DEF Reasoned, Onward
<1>2. ASSUME p.state = "active" PROVE Grounded(t, z)
  <2>1. CASE m.state = "active"
    BY <2>1 DEF Reasoned
  <2>2. CASE m.state # "active"
    <3>1. SameTally(m, z) /\ Grounded(t, m) /\ Onward(m.state, z.state) /\ z.closesTime = m.closesTime
      BY <1>2, <2>2 DEF Reasoned
    <3>2. (Won(z) <=> Won(m)) /\ (Lost(z) <=> Lost(m))
      BY <3>1, SameDecision
    <3> QED
      BY <2>2, <3>1, <3>2 DEF Grounded, Onward
  <2> QED
    BY <2>1, <2>2
<1>3. ASSUME p.state # "active" PROVE SameTally(p, z)
  <2>1. m.state # "active"
    BY <1>3 DEF Reasoned, Onward
  <2> QED
    BY <1>3, <2>1 DEF Reasoned, SameTally
<1> QED
  BY <1>1, <1>2, <1>3 DEF Reasoned

LEMMA ReasonedItself ==
  ASSUME NEW t, NEW p
  PROVE  Reasoned(t, p, p)
BY DEF Reasoned, Onward, Grounded, SameTally

LEMMA ReasonedSinceThrough ==
  ASSUME NEW t, NEW b, NEW m, NEW c, ReasonedSince(t, b, m), ReasonedSince(t, m, c)
  PROVE  ReasonedSince(t, b, c)
BY ReasonedThrough DEF ReasonedSince

LEMMA ReasonedSinceItself ==
  ASSUME NEW t, NEW b
  PROVE  ReasonedSince(t, b, b)
BY ReasonedItself DEF ReasonedSince

LEMMA RetalliedItself ==
  ASSUME NEW t, NEW p
  PROVE  Retallied(t, p, p)
BY ReasonedItself DEF Retallied, SameTally

LEMMA RecountThrough ==
  ASSUME NEW t, NEW b, NEW m, NEW c, Recount(t, b, m), Recount(t, m, c)
  PROVE  Recount(t, b, c)
<1> SUFFICES ASSUME NEW i \in DOMAIN b.proposals
             PROVE  Retallied(t, b.proposals[i], c.proposals[i])
  BY DEF Recount
<1> DEFINE p == b.proposals[i]
           y == m.proposals[i]
           z == c.proposals[i]
<1>1. Retallied(t, p, y) /\ Retallied(t, y, z)
  BY DEF Recount
<1> HIDE DEF p, y, z
<1>2. Reasoned(t, p, z)
  BY <1>1, ReasonedThrough DEF Retallied
<1>3. Retallied(t, p, z)
  BY <1>1, <1>2 DEF Retallied, SameTally
<1> QED
  BY <1>3 DEF p, z

LEMMA RecountItself ==
  ASSUME NEW t, NEW b
  PROVE  Recount(t, b, b)
BY RetalliedItself DEF Recount

LEMMA RecountCounts ==
  ASSUME NEW t, NEW s, NEW b, NEW c, Counts(s, b), Recount(t, b, c)
  PROVE  Counts(s, c) /\ ReasonedSince(t, b, c)
<1>1. ASSUME NEW p, NEW z, Counted(s, p), Retallied(t, p, z)
      PROVE  Counted(s, z)
  <2>1. SameTally(p, z) /\ z.epoch = p.epoch /\ DOMAIN z = DOMAIN p
        /\ (Open(z) => Open(p) /\ z.voted = p.voted)
    BY <1>1 DEF Retallied
  <2>2. Turnout(z) = Turnout(p)
    BY <2>1, SameDecision
  <2>3. Ballot(z)
    BY <1>1, <2>1, <2>2 DEF Counted, Ballot, SameTally
  <2>4. Open(z) => Recorded(s[z.epoch], z)
    <3> SUFFICES ASSUME Open(z) PROVE Recorded(s[z.epoch], z)
      OBVIOUS
    <3>1. z.voted = p.voted /\ Recorded(s[p.epoch], p)
      BY <1>1, <2>1 DEF Counted
    <3>2. \A x : Cast(z, x) = Cast(p, x)
      BY <3>1 DEF Cast
    <3> QED
      BY <2>1, <2>2, <3>1, <3>2 DEF Recorded, Voted, SameTally
  <2> QED
    BY <1>1, <2>1, <2>3, <2>4 DEF Counted, Retallied, Reasoned
<1>2. Counts(s, c)
  BY <1>1 DEF Counts, Recount
<1>3. ReasonedSince(t, b, c)
  BY DEF Recount, Retallied, ReasonedSince
<1> QED
  BY <1>2, <1>3

-----------------------------------------------------------------------------
(* Writing an outcome down changes no tally, and has its reason.           *)
LEMMA SettledRetallies ==
  ASSUME NEW p, Fields \cup {"total", "engaged", "quorumFloor", "epoch"} \subseteq DOMAIN p
  PROVE  Retallied(now, p, Settled(p))
<1> DEFINE z == Settled(p)
           st == WouldBe(p)
<1>1. /\ DOMAIN z = DOMAIN p /\ z.state = st /\ z.closesTime = p.closesTime
      /\ z.asks = p.asks /\ z.rules = p.rules /\ z.epoch = p.epoch
      /\ z.yes = p.yes /\ z.no = p.no /\ z.abstain = p.abstain /\ z.voted = p.voted
      /\ z.total = p.total /\ z.engaged = p.engaged /\ z.quorumFloor = p.quorumFloor
  <2>1. CASE p.state = "active" /\ WouldBe(p) = "succeeded"
    <3> DEFINE d == now + p.rules["delay"] * SecsPerBlock
    <3>1. z = [p EXCEPT !.state = "succeeded", !.readyTime = d] /\ st = "succeeded"
      BY <2>1 DEF Settled
    <3> HIDE DEF z, d, st
    <3> QED
      BY <3>1 DEF Fields
  <2>2. CASE ~(p.state = "active" /\ WouldBe(p) = "succeeded")
    <3>1. z = [p EXCEPT !.state = st]
      BY <2>2 DEF Settled
    <3> HIDE DEF z, st
    <3> QED
      BY <3>1 DEF Fields
  <2> QED
    BY <2>1, <2>2
<1>2. SameTally(p, z)
  BY <1>1 DEF SameTally
<1>3. /\ p.state = "active" => /\ st \in {"active", "succeeded", "defeated"}
                               /\ st = "succeeded" => Won(p) \/ now >= p.closesTime
                               /\ st = "defeated" => Lost(p) \/ now >= p.closesTime
      /\ p.state = "succeeded" => st \in {"succeeded", "expired"}
      /\ p.state \notin {"active", "succeeded"} => st = p.state
  BY DEF WouldBe, VotingClosed
<1> HIDE DEF z, st
<1>4. (Won(z) <=> Won(p)) /\ (Lost(z) <=> Lost(p))
  BY <1>2, SameDecision
<1>5. p.state = "active" => Grounded(now, z)
  BY <1>1, <1>3, <1>4 DEF Grounded
<1>6. Onward(p.state, z.state)
  BY <1>1, <1>3 DEF Onward
<1>7. Open(z) => Open(p)
  BY <1>1, <1>3 DEF Open
<1>8. Retallied(now, p, z)
  BY <1>1, <1>2, <1>5, <1>6, <1>7 DEF Retallied, Reasoned
<1> QED
  BY <1>8 DEF z

LEMMA SettleAllRecounts ==
  ASSUME NEW b, Good(b), NEW s, Counts(s, b), NEW ids
  PROVE  Recount(now, b, SettleAll(b, ids))
<1> DEFINE ps == [i \in DOMAIN b.proposals |->
                    IF i \in ids THEN Settled(b.proposals[i]) ELSE b.proposals[i]]
           idx == Without(b.openIdx, {b.proposals[i].asks : i \in {j \in ids : Releases(b.proposals[j])}})
           c == SettleAll(b, ids)
<1>1. c = [b EXCEPT !.proposals = ps, !.openIdx = idx]
  BY DEF SettleAll
<1>2. \A i \in DOMAIN b.proposals : ps[i] = IF i \in ids THEN Settled(b.proposals[i]) ELSE b.proposals[i]
  OBVIOUS
<1>3. DOMAIN ps = DOMAIN b.proposals
  OBVIOUS
<1> HIDE DEF ps, idx, c
<1>4. c.proposals = ps /\ c.kinds = b.kinds
  BY <1>1 DEF Good, Board
<1>5. \A i \in DOMAIN b.proposals : Retallied(now, b.proposals[i], ps[i])
  <2> TAKE i \in DOMAIN b.proposals
  <2>1. Fields \cup {"total", "engaged", "quorumFloor", "epoch"} \subseteq DOMAIN b.proposals[i]
    BY DEF Counts, Counted
  <2>2. CASE i \in ids
    BY <1>2, <2>1, <2>2, SettledRetallies
  <2>3. CASE i \notin ids
    BY <1>2, <2>3, RetalliedItself
  <2> QED
    BY <2>2, <2>3
<1> QED
  BY <1>3, <1>4, <1>5 DEF Recount, c

LEMMA SweepRecounts ==
  ASSUME NEW b, Good(b), NEW s, Counts(s, b), now \in Nat
  PROVE  Recount(now, b, Sweep(b))
<1> DEFINE ids == {b.openIdx[q] : q \in Swept(b).seen \cap DOMAIN b.openIdx}
           a == SettleAll(b, ids)
           from == Swept(b).from
           c == Sweep(b)
<1>1. c = [a EXCEPT !.sweepFrom = from]
  BY DEF Sweep
<1>2. ids \subseteq DOMAIN b.proposals
  BY DEF Good, SlotsMatch
<1> HIDE DEF ids, c, from
<1>3. Recount(now, b, a) /\ Good(a)
  BY <1>2, SettleAllRecounts, SettleAllMoves DEF Moves
<1> HIDE DEF a
<1>4. c.proposals = a.proposals /\ c.kinds = a.kinds
  BY <1>1, <1>3 DEF Good, Board
<1> QED
  BY <1>3, <1>4 DEF Recount, c

(* The end of an open proposal.                                            *)
LEMMA SetStateRecounts ==
  ASSUME NEW b, Good(b), NEW s, Counts(s, b), NEW id \in DOMAIN b.proposals, NEW st, NEW t,
         \/ st = "canceled" /\ b.proposals[id].state = "active"
         \/ st \in {"failed", "executed"} /\ b.proposals[id].state = "succeeded"
  PROVE  Recount(t, b, SetState(b, id, st))
<1> DEFINE p == b.proposals[id]
           z == [p EXCEPT !.state = st]
           ps == [b.proposals EXCEPT ![id] = z]
           idx == Without(b.openIdx, {p.asks})
           c == SetState(b, id, st)
<1>1. c = [b EXCEPT !.proposals = ps, !.openIdx = idx]
  BY DEF SetState
<1>2. Fields \cup {"total", "engaged", "quorumFloor", "epoch"} \subseteq DOMAIN p
  BY DEF Counts, Counted
<1>3. /\ DOMAIN z = DOMAIN p /\ z.state = st /\ z.closesTime = p.closesTime
      /\ z.asks = p.asks /\ z.rules = p.rules /\ z.epoch = p.epoch
      /\ z.yes = p.yes /\ z.no = p.no /\ z.abstain = p.abstain /\ z.voted = p.voted
      /\ z.total = p.total /\ z.engaged = p.engaged /\ z.quorumFloor = p.quorumFloor
  BY <1>2 DEF Fields
<1>4. DOMAIN ps = DOMAIN b.proposals /\ ps[id] = z /\ \A i \in DOMAIN ps : i # id => ps[i] = b.proposals[i]
  OBVIOUS
<1> HIDE DEF ps, idx, c, z
<1>5. c.proposals = ps /\ c.kinds = b.kinds
  BY <1>1 DEF Good, Board
<1>6. Retallied(t, p, z)
  <2>1. Onward(p.state, z.state) /\ ~Open(z)
    BY <1>3 DEF Onward, Open
  <2>2. p.state = "active" => Grounded(t, z)
    BY <1>3 DEF Grounded
  <2>3. SameTally(p, z)
    BY <1>3 DEF SameTally
  <2> HIDE DEF p
  <2> QED
    BY <1>3, <2>1, <2>2, <2>3 DEF Retallied, Reasoned
<1>7. \A i \in DOMAIN b.proposals : Retallied(t, b.proposals[i], ps[i])
  BY <1>4, <1>6, RetalliedItself
<1> QED
  BY <1>4, <1>5, <1>7 DEF Recount, c

(* A finished question's roll may be dropped.                              *)
LEMMA DropRecounts ==
  ASSUME NEW b, Good(b), NEW s, Counts(s, b), NEW id \in DOMAIN b.proposals, NEW t,
         ~Open(b.proposals[id])
  PROVE  Recount(t, b, [b EXCEPT !.proposals[id].voted = {}])
<1> DEFINE p == b.proposals[id]
           z == [p EXCEPT !.voted = {}]
           ps == [b.proposals EXCEPT ![id] = z]
           c == [b EXCEPT !.proposals[id].voted = {}]
<1>1. c = [b EXCEPT !.proposals = ps]
  OBVIOUS
<1>2. Fields \cup {"total", "engaged", "quorumFloor", "epoch"} \subseteq DOMAIN p
  BY DEF Counts, Counted
<1>3. /\ DOMAIN z = DOMAIN p /\ z.state = p.state /\ z.closesTime = p.closesTime
      /\ z.asks = p.asks /\ z.rules = p.rules /\ z.epoch = p.epoch
      /\ z.yes = p.yes /\ z.no = p.no /\ z.abstain = p.abstain
      /\ z.total = p.total /\ z.engaged = p.engaged /\ z.quorumFloor = p.quorumFloor
  BY <1>2 DEF Fields
<1>4. DOMAIN ps = DOMAIN b.proposals /\ ps[id] = z /\ \A i \in DOMAIN ps : i # id => ps[i] = b.proposals[i]
  OBVIOUS
<1> HIDE DEF ps, c, z
<1>5. c.proposals = ps /\ c.kinds = b.kinds
  BY <1>1 DEF Good, Board
<1>6. Retallied(t, p, z)
  <2>1. Onward(p.state, z.state) /\ ~Open(z) /\ p.state # "active"
    BY <1>3 DEF Onward, Open
  <2>2. SameTally(p, z)
    BY <1>3 DEF SameTally
  <2> HIDE DEF p
  <2> QED
    BY <1>3, <2>1, <2>2 DEF Retallied, Reasoned
<1>7. \A i \in DOMAIN b.proposals : Retallied(t, b.proposals[i], ps[i])
  BY <1>4, <1>6, RetalliedItself
<1> QED
  BY <1>4, <1>5, <1>7 DEF Recount, c

-----------------------------------------------------------------------------
LEMMA WorldsCount ==
  ASSUME NEW s \in Seq(Worlds), NEW at \in DOMAIN s
  PROVE  /\ s[at].votes \in [Addr -> Nat] /\ s[at].total \in Nat /\ s[at].engaged \in Nat
         /\ SumFunctionOnSet(s[at].votes, Addr) <= s[at].total
<1>1. s[at] \in Worlds
  OBVIOUS
<1> QED
  BY <1>1, ElectorateAssumption

(* The shares of some of the electorate are no more than all of it, and    *)
(* one voter more adds that voter's share.                                 *)
LEMMA SharesWithin ==
  ASSUME NEW w \in Worlds, NEW S \in SUBSET Addr
  PROVE  /\ IsFiniteSet(S) /\ SumFunctionOnSet(w.votes, S) \in Nat
         /\ SumFunctionOnSet(w.votes, S) <= w.total
         /\ \A a \in Addr \ S :
              SumFunctionOnSet(w.votes, S \cup {a}) = SumFunctionOnSet(w.votes, S) + w.votes[a]
<1> DEFINE f == w.votes
<1>1. /\ \A a \in Addr : f[a] \in Nat
      /\ w.total \in Nat /\ SumFunctionOnSet(f, Addr) <= w.total
  BY ElectorateAssumption
<1>2. IsFiniteSet(Addr) /\ IsFiniteSet(S)
  BY GovernorAssumption, FS_Subset
<1> HIDE DEF f
<1>3. SumFunctionOnSet(f, S) \in Nat /\ SumFunctionOnSet(f, S) <= SumFunctionOnSet(f, Addr)
      /\ SumFunctionOnSet(f, Addr) \in Nat
  BY <1>1, <1>2, SumOfPartBound
<1>4. ASSUME NEW a \in Addr \ S
      PROVE  SumFunctionOnSet(f, S \cup {a}) = SumFunctionOnSet(f, S) + f[a]
  <2>1. Integral(f, S \cup {a})
    BY <1>1 DEF Integral
  <2>2. SumFunctionOnSet(f, S \cup {a}) = f[a] + SumFunctionOnSet(f, S)
    BY <1>2, <2>1, SumAdd
  <2> QED
    BY <1>1, <1>3, <2>2
<1>5. SumFunctionOnSet(f, S) <= w.total
  BY <1>1, <1>3
<1> QED
  BY <1>2, <1>3, <1>4, <1>5 DEF f

(* A first ballot, of no more than the voter's share, keeps the tally.     *)
LEMMA BallotCounts ==
  ASSUME NEW s \in Seq(Worlds), NEW p, Counted(s, p), p.state = "active",
         NEW who \in Addr, ~HasVoted(p, who), NEW choice \in Ballots,
         NEW n \in Nat, n \in 1 .. s[p.epoch].votes[who], NEW t
  PROVE  LET z == WithBallot(p, who, choice, n) IN Counted(s, z) /\ Reasoned(t, p, z)
<1> DEFINE z == WithBallot(p, who, choice, n)
           w == s[p.epoch]
           x == [voter |-> who, choice |-> choice, weight |-> n]
<1>1. /\ Fields \cup {"total", "engaged", "quorumFloor", "epoch"} \subseteq DOMAIN p
      /\ Ballot(p) /\ p.epoch \in DOMAIN s /\ Recorded(w, p) /\ p.closesTime \in Nat
  BY DEF Counted, Open
<1>2. w \in Worlds
  BY <1>1
<1>3. /\ DOMAIN z = DOMAIN p /\ z.state = p.state /\ z.closesTime = p.closesTime
      /\ z.asks = p.asks /\ z.rules = p.rules /\ z.epoch = p.epoch
      /\ z.total = p.total /\ z.engaged = p.engaged /\ z.quorumFloor = p.quorumFloor
      /\ z.voted = p.voted \cup {x}
      /\ z.yes = (IF choice = "yes" THEN p.yes + n ELSE p.yes)
      /\ z.no = (IF choice = "no" THEN p.no + n ELSE p.no)
      /\ z.abstain = (IF choice = "abstain" THEN p.abstain + n ELSE p.abstain)
  BY <1>1 DEF WithBallot, Fields, Ballots
<1>4. /\ x.voter = who /\ x.choice = choice /\ x.weight = n
      /\ \A v \in p.voted : v.voter # who
  BY DEF HasVoted
<1> HIDE DEF z, w, x
<1>5. /\ p.yes \in Nat /\ p.no \in Nat /\ p.abstain \in Nat /\ p.total \in Nat
      /\ IsFiniteSet(p.voted) /\ p.total = w.total
      /\ \A v \in p.voted : v.voter \in Addr /\ v.weight \in Nat /\ v.weight \in 1 .. w.votes[v.voter]
  BY <1>1 DEF Ballot, Recorded
<1>6. Turnout(p) \in Nat /\ Turnout(z) = Turnout(p) + n /\ Turnout(z) \in Nat
  <2>1. p.yes \in Nat /\ p.no \in Nat /\ p.abstain \in Nat
    BY <1>5
  <2>2. CASE choice = "yes"
    <3>1. z.yes = p.yes + n /\ z.no = p.no /\ z.abstain = p.abstain
      BY <1>3, <2>2
    <3>2. Turnout(z) = (p.yes + n) + p.no + p.abstain
      BY <3>1 DEF Turnout
    <3>3. Turnout(p) = p.yes + p.no + p.abstain
      BY DEF Turnout
    <3> QED
      BY <2>1, <3>2, <3>3, SMTT(30)
  <2>3. CASE choice = "no"
    <3>1. z.yes = p.yes /\ z.no = p.no + n /\ z.abstain = p.abstain
      BY <1>3, <2>3
    <3> QED
      BY <2>1, <3>1, SMTT(30) DEF Turnout
  <2>4. CASE choice = "abstain"
    <3>1. z.yes = p.yes /\ z.no = p.no /\ z.abstain = p.abstain + n
      BY <1>3, <2>4
    <3> QED
      BY <2>1, <3>1 DEF Turnout
  <2> QED
    BY <2>2, <2>3, <2>4 DEF Ballots
<1>7. /\ w.votes[who] \in Nat /\ n <= w.votes[who] /\ n \in 1 .. w.votes[who]
  BY <1>2, ElectorateAssumption DEF w
<1>8. Turnout(z) <= SumFunctionOnSet(w.votes, Voted(z)) /\ Turnout(z) <= z.total
  <2>1. Voted(z) = Voted(p) \cup {who} /\ who \in Addr \ Voted(p)
    BY <1>3, <1>4 DEF Voted
  <2>2. Voted(p) \in SUBSET Addr /\ Voted(z) \in SUBSET Addr
    BY <1>5, <2>1 DEF Voted
  <2>3. /\ SumFunctionOnSet(w.votes, Voted(p)) \in Nat /\ SumFunctionOnSet(w.votes, Voted(z)) \in Nat
        /\ SumFunctionOnSet(w.votes, Voted(z)) <= w.total /\ w.total \in Nat
    BY <1>2, <2>2, SharesWithin, ElectorateAssumption
  <2>4. SumFunctionOnSet(w.votes, Voted(z)) = SumFunctionOnSet(w.votes, Voted(p)) + w.votes[who]
    BY <1>2, <2>1, <2>2, SharesWithin
  <2>5. Turnout(p) <= SumFunctionOnSet(w.votes, Voted(p))
    BY <1>1 DEF Recorded
  <2> DEFINE A == SumFunctionOnSet(w.votes, Voted(p))
             B == SumFunctionOnSet(w.votes, Voted(z))
  <2>6. A \in Nat /\ B = A + w.votes[who] /\ Turnout(p) <= A /\ B \in Nat /\ B <= w.total
    BY <2>3, <2>4, <2>5
  <2> HIDE DEF A, B
  <2>7. Turnout(z) <= B
    BY <1>6, <1>7, <2>6
  <2>8. Turnout(z) <= w.total /\ z.total = w.total
    BY <1>3, <1>5, <1>6, <2>3, <2>6, <2>7
  <2> QED
    BY <2>7, <2>8 DEF B
<1>9. Ballot(z)
  <2>1. z.yes \in Nat /\ z.no \in Nat /\ z.abstain \in Nat
    BY <1>3, <1>5
  <2> QED
    BY <1>1, <1>3, <1>8, <2>1 DEF Ballot
<1>10. ASSUME NEW c \in Ballots
       PROVE  Cast(p, c) \in Nat /\ Cast(z, c) = (IF choice = c THEN Cast(p, c) + n ELSE Cast(p, c))
  <2> DEFINE S == {v \in p.voted : v.choice = c}
  <2>1. Cast(p, c) = WeightSum(S) /\ IsFiniteSet(S)
    BY <1>5, FS_Subset DEF Cast, WeightSum
  <2>2. {v \in z.voted : v.choice = c} = IF choice = c THEN S \cup {x} ELSE S
    BY <1>3, <1>4
  <2>3. x \notin S /\ \A v \in S \cup {x} : v.weight \in Nat
    BY <1>4, <1>5
  <2>4. Cast(z, c) = WeightSum(IF choice = c THEN S \cup {x} ELSE S)
    BY <2>2 DEF Cast, WeightSum
  <2> HIDE DEF S
  <2>5. WeightSum(S) \in Nat /\ WeightSum(S \cup {x}) = WeightSum(S) + x.weight
    BY <2>1, <2>3, WeightAdded
  <2> QED
    BY <1>4, <2>1, <2>4, <2>5
<1>11. z.yes = Cast(z, "yes") /\ z.no = Cast(z, "no") /\ z.abstain = Cast(z, "abstain")
  <2>1. p.yes = Cast(p, "yes") /\ p.no = Cast(p, "no") /\ p.abstain = Cast(p, "abstain")
    BY <1>1 DEF Recorded
  <2> QED
    BY <1>3, <1>10, <2>1 DEF Ballots
<1>12. \A v \in z.voted : v.voter \in Addr /\ v.weight \in Nat /\ v.weight \in 1 .. w.votes[v.voter]
  BY <1>3, <1>4, <1>5, <1>7
<1>13. IsFiniteSet(z.voted)
  BY <1>3, <1>5, FS_AddElement, ZenonT(30)
<1>14. Recorded(w, z)
  BY <1>3, <1>5, <1>8, <1>11, <1>12, <1>13 DEF Recorded
<1>15. Counted(s, z)
  BY <1>1, <1>3, <1>9, <1>14 DEF Counted, w
<1>16. Reasoned(t, p, z)
  BY <1>3 DEF Reasoned, Grounded, Onward
<1> QED
  BY <1>15, <1>16 DEF z

(* What was counted stays so when another epoch is sealed.                 *)
LEMMA SealedCounts ==
  ASSUME NEW s \in Seq(Worlds), NEW w \in Worlds, NEW b, Counts(s, b)
  PROVE  Append(s, w) \in Seq(Worlds) /\ Counts(Append(s, w), b)
<1> DEFINE r == Append(s, w)
<1>1. r \in Seq(Worlds) /\ \A i \in DOMAIN s : i \in DOMAIN r /\ r[i] = s[i]
  OBVIOUS
<1> HIDE DEF r
<1>2. ASSUME NEW p, Counted(s, p) PROVE Counted(r, p)
  BY <1>1, <1>2 DEF Counted
<1>3. Counts(r, b)
  BY <1>2 DEF Counts
<1> QED
  BY <1>1, <1>3 DEF r

-----------------------------------------------------------------------------
SaneSet(set) ==
  \A f \in DOMAIN set : /\ f \in {"quorum", "threshold", "propose"} => set[f] <= Bps
                        /\ f \in {"voting", "grace"} => set[f] > 0

SaneMembers(q) == \A m \in Range(Members(q)) : m.kind = "govern:rules" => SaneSet(m.set)

TInv == /\ sealed \in Seq(Worlds)
        /\ Counts(sealed, gov)
        /\ executing # 0 => /\ Counts(sealed, undo) /\ ReasonedSince(now, undo, gov)
                            /\ executing \in DOMAIN undo.proposals
                            /\ SaneMembers(gov.proposals[executing].asks)

LEMMA InitTInv == Init => TInv
<1> SUFFICES ASSUME Init PROVE TInv
  OBVIOUS
<1>1. sealed = <<>> /\ executing = 0 /\ gov.proposals = <<>>
  BY DEF Init
<1>2. \A k \in DOMAIN gov.kinds : SaneRules(gov.kinds[k].rules)
  BY QuestionsAssumption DEF Init
<1>3. Counts(sealed, gov)
  BY <1>1, <1>2 DEF Counts
<1> QED
  BY <1>1, <1>3 DEF TInv

LEMMA CallCounts ==
  ASSUME GInv, TInv, Counts(sealed, gov'), ReasonedSince(now, gov, gov'),
         UNCHANGED <<now, sealed, executing, todo, undo>>
  PROVE  TInv' /\ ReasonedSince(now, Committed, Committed')
<1>1. CASE executing = 0
  <2>1. Committed = gov /\ Committed' = gov'
    BY <1>1 DEF Committed
  <2> QED
    BY <1>1, <2>1 DEF TInv
<1>2. CASE executing # 0
  <2>1. Committed = undo /\ Committed' = undo
    BY <1>2 DEF Committed
  <2>2. ReasonedSince(now, undo, gov') /\ ReasonedSince(now, undo, undo)
    BY <1>2, ReasonedSinceThrough, ReasonedSinceItself DEF TInv
  <2>3. executing \in DOMAIN gov.proposals
    BY <1>2 DEF TInv, ReasonedSince
  <2>4. gov'.proposals[executing].asks = gov.proposals[executing].asks
    BY <2>3 DEF ReasonedSince, Reasoned
  <2>5. TInv'
    BY <1>2, <2>2, <2>4 DEF TInv
  <2> QED
    BY <2>1, <2>2, <2>5
<1> QED
  BY <1>1, <1>2

LEMMA RecountKeeps ==
  ASSUME GInv, TInv, Recount(now, gov, gov'), UNCHANGED <<now, sealed, executing, todo, undo>>
  PROVE  TInv' /\ ReasonedSince(now, Committed, Committed')
BY CallCounts, RecountCounts DEF TInv

LEMMA NothingReasoned ==
  ASSUME Committed' = Committed
  PROVE  ReasonedSince(now, Committed, Committed')
<1>1. ReasonedSince(now, Committed, Committed)
  BY ReasonedSinceItself
<1> QED
  BY <1>1

LEMMA SettleRecounts ==
  ASSUME NEW b, Good(b), NEW s, Counts(s, b), NEW id
  PROVE  Recount(now, b, Settle(b, id))
BY SettleAllRecounts DEF Settle

-----------------------------------------------------------------------------
LEMMA OfferCounts ==
  ASSUME GInv, TInv, NEW name, NEW rules \in RulesChoices, Offer(name, rules)
  PROVE  TInv' /\ ReasonedSince(now, Committed, Committed')
<1> DEFINE x == [rules |-> rules, live |-> FALSE]
           ks == With(gov.kinds, name, x)
<1>1. /\ SaneRules(rules) /\ gov' = [gov EXCEPT !.kinds = ks]
      /\ UNCHANGED <<now, sealed, executing, todo, undo>>
  BY DEF Offer, Becomes
<1>2. x.rules = rules
  OBVIOUS
<1>3. \A k \in DOMAIN ks : ks[k] = x \/ (k \in DOMAIN gov.kinds /\ ks[k] = gov.kinds[k])
  BY DEF With
<1> HIDE DEF ks, x
<1>4. \A k \in DOMAIN ks : SaneRules(ks[k].rules)
  BY <1>1, <1>2, <1>3 DEF TInv, Counts
<1>5. gov'.kinds = ks /\ gov'.proposals = gov.proposals
  BY <1>1 DEF GInv, Good, Board
<1>6. Counts(sealed, gov')
  BY <1>4, <1>5 DEF TInv, Counts
<1>7. ReasonedSince(now, gov, gov')
  BY <1>5, ReasonedItself DEF ReasonedSince
<1> QED
  BY <1>1, <1>6, <1>7, CallCounts

LEMMA NewProposalCounts ==
  ASSUME GInv, TInv, NEW who, NEW q \in Questions, NEW floor \in Floors,
         IsLive(gov, q.kind), Epoch > 1
  PROVE  LET z == NewProposal(who, q, floor) IN Counted(sealed, z) /\ z.state = "active"
<1> DEFINE z == NewProposal(who, q, floor)
           at == Epoch - 1
           w == sealed[at]
           rules == gov.kinds[q.kind].rules
<1>1. sealed \in Seq(Worlds)
  BY DEF TInv
<1>2. at \in DOMAIN sealed /\ w \in Worlds
  BY <1>1 DEF Epoch
<1>3. /\ w.total \in Nat /\ w.engaged \in Nat
  BY <1>2, ElectorateAssumption
<1>4. /\ rules["quorum"] \in Nat /\ rules["threshold"] \in Nat /\ rules["threshold"] <= Bps
      /\ rules["threshold"] \in 0 .. Bps /\ now + rules["voting"] * SecsPerBlock \in Nat
  <2>1. rules \in RulesRecords /\ SaneRules(rules)
    BY DEF IsLive, GInv, Good, Board, TypedKind, TInv, Counts
  <2>2. /\ rules["quorum"] \in Nat /\ rules["threshold"] \in Nat
        /\ rules["voting"] * SecsPerBlock \in Nat
    BY <2>1, RulesNat DEF RulesRecords, RulesFields
  <2> QED
    BY <2>1, <2>2, TallyAssumption DEF SaneRules, GInv
<1>5. /\ Fields \cup {"total", "engaged", "quorumFloor", "epoch"} \subseteq DOMAIN z
      /\ z.rules = rules /\ z.epoch = at /\ z.total = w.total /\ z.engaged \in Nat
      /\ z.quorumFloor = floor /\ z.state = "active"
      /\ z.yes = 0 /\ z.no = 0 /\ z.abstain = 0 /\ z.voted = {} /\ z.closesTime \in Nat
  BY <1>3, <1>4 DEF NewProposal, WeighedAt, Fields
<1> HIDE DEF z, w, at, rules
<1>6. Turnout(z) = 0 /\ floor \in Nat
  <2>1. Turnout(z) = 0 + 0 + 0
    BY <1>5 DEF Turnout
  <2>2. floor \in Nat
    BY GovernorAssumption
  <2> QED
    BY <2>1, <2>2
<1>7. Ballot(z)
  <2>1. /\ z.yes \in Nat /\ z.no \in Nat /\ z.abstain \in Nat /\ z.total \in Nat
        /\ Turnout(z) <= z.total
    BY <1>3, <1>5, <1>6
  <2>2. /\ {"yes", "no", "abstain", "total", "engaged", "quorumFloor", "rules"} \subseteq DOMAIN z
        /\ z.quorumFloor \in Nat /\ z.rules["quorum"] \in Nat /\ z.rules["threshold"] \in 0 .. Bps
    BY <1>4, <1>5, <1>6 DEF Fields
  <2> QED
    BY <1>5, <2>1, <2>2 DEF Ballot
<1>8. \A c : Cast(z, c) = 0
  <2> TAKE c
  <2>1. {v \in z.voted : v.choice = c} = {}
    BY <1>5
  <2>2. Cast(z, c) = WeightSum({})
    BY <2>1 DEF Cast, WeightSum
  <2>3. IsFiniteSet({})
    BY FS_EmptySet
  <2> QED
    BY <2>2, <2>3, WeightsAre, SumOfNothing
<1>9. Voted(z) = {} /\ SumFunctionOnSet(w.votes, Voted(z)) = 0 /\ IsFiniteSet(z.voted)
  <2>1. Voted(z) = {}
    BY <1>5 DEF Voted
  <2> QED
    BY <1>5, <2>1, SumOfNothing, FS_EmptySet
<1>10. Recorded(w, z)
  BY <1>5, <1>6, <1>8, <1>9 DEF Recorded
<1> QED
  BY <1>2, <1>5, <1>7, <1>10 DEF Counted, z, w

LEMMA AppendCounts ==
  ASSUME NEW b, Good(b), NEW s, Counts(s, b), NEW q, NEW z, Counted(s, z), NEW t
  PROVE  LET c == [b EXCEPT !.proposals = Append(@, z), !.openIdx = With(@, q, Len(b.proposals) + 1)] IN
         Counts(s, c) /\ ReasonedSince(t, b, c)
<1> DEFINE ps == Append(b.proposals, z)
           idx == With(b.openIdx, q, Len(b.proposals) + 1)
           c == [b EXCEPT !.proposals = Append(@, z), !.openIdx = With(@, q, Len(b.proposals) + 1)]
<1>1. c = [b EXCEPT !.proposals = ps, !.openIdx = idx]
  OBVIOUS
<1>2. PICK n \in Nat : b.proposals = [i \in 1 .. n |-> b.proposals[i]]
  BY DEF Good, Board
<1>3. /\ DOMAIN b.proposals = 1 .. n
      /\ DOMAIN ps = 1 .. n + 1 /\ ps[n + 1] = z /\ \A i \in 1 .. n : ps[i] = b.proposals[i]
  <2> DEFINE S == {b.proposals[i] : i \in 1 .. n} \cup {z}
  <2>1. b.proposals \in Seq(S) /\ z \in S
    <3>1. [i \in 1 .. n |-> b.proposals[i]] \in Seq(S)
      OBVIOUS
    <3> QED
      BY <1>2, <3>1
  <2>2. DOMAIN b.proposals = 1 .. n
    BY <1>2
  <2> HIDE DEF S
  <2>3. Len(b.proposals) = n
    BY <2>1, <2>2
  <2>4. ps \in Seq(S) /\ Len(ps) = n + 1
    BY <2>1, <2>3
  <2>5. ps[n + 1] = z /\ \A i \in 1 .. n : ps[i] = b.proposals[i]
    BY <2>1, <2>3
  <2>6. DOMAIN ps = 1 .. n + 1
    BY <2>4
  <2> QED
    BY <2>2, <2>5, <2>6
<1>4. \A i \in 1 .. n + 1 : i \in 1 .. n \/ i = n + 1
  OBVIOUS
<1>5. \A i \in 1 .. n : i \in 1 .. n + 1
  OBVIOUS
<1> HIDE DEF ps, idx, c
<1>6. c.proposals = ps /\ c.kinds = b.kinds
  BY <1>1 DEF Good, Board
<1>7. Counts(s, c)
  BY <1>3, <1>4, <1>6 DEF Counts
<1>8. ReasonedSince(t, b, c)
  BY <1>3, <1>5, <1>6, ReasonedItself DEF ReasonedSince
<1> QED
  BY <1>7, <1>8 DEF c

LEMMA ProposeCounts ==
  ASSUME GInv, TInv, NEW who, NEW q \in Questions, NEW floor \in Floors, Propose(who, q, floor)
  PROVE  TInv' /\ ReasonedSince(now, Committed, Committed')
<1> DEFINE swept == IF Size(gov) >= Slots(q.kind) THEN Sweep(gov) ELSE gov
           b == IF q \in DOMAIN swept.openIdx THEN Settle(swept, swept.openIdx[q]) ELSE swept
           z == NewProposal(who, q, floor)
<1>1. /\ IsLive(gov, q.kind) /\ Epoch > 1
      /\ gov' = [b EXCEPT !.proposals = Append(@, z), !.openIdx = With(@, q, Len(b.proposals) + 1)]
      /\ UNCHANGED <<now, sealed, executing, todo, undo>>
  BY DEF Propose, Becomes, MayPropose
<1>2. now \in Nat /\ Good(gov) /\ Counts(sealed, gov)
  BY DEF GInv, TInv
<1>3. Good(swept) /\ Recount(now, gov, swept)
  BY <1>2, SweepMoves, SweepRecounts, RecountItself DEF Moves
<1> HIDE DEF swept
<1>4. Counts(sealed, swept)
  BY <1>2, <1>3, RecountCounts
<1>5. Good(b) /\ Recount(now, swept, b)
  <2>1. CASE q \in DOMAIN swept.openIdx
    <3>1. {swept.openIdx[q]} \subseteq DOMAIN swept.proposals
      BY <1>3, <2>1 DEF Good, SlotsMatch
    <3> QED
      BY <1>2, <1>3, <1>4, <2>1, <3>1, SettleAllMoves, SettleAllRecounts DEF Settle, Moves
  <2>2. CASE q \notin DOMAIN swept.openIdx
    BY <1>3, <2>2, RecountItself
  <2> QED
    BY <2>1, <2>2
<1> HIDE DEF b
<1>6. Counts(sealed, b) /\ ReasonedSince(now, gov, b)
  BY <1>2, <1>3, <1>5, RecountThrough, RecountCounts
<1>7. Counted(sealed, z)
  BY <1>1, NewProposalCounts
<1> HIDE DEF z
<1>8. Counts(sealed, gov') /\ ReasonedSince(now, b, gov')
  BY <1>1, <1>5, <1>6, <1>7, AppendCounts
<1>9. ReasonedSince(now, gov, gov')
  BY <1>6, <1>8, ReasonedSinceThrough
<1> QED
  BY <1>1, <1>8, <1>9, CallCounts

-----------------------------------------------------------------------------
LEMMA VoteCounts ==
  ASSUME GInv, TInv, NEW who \in Addr, NEW id \in Ids, NEW choice \in Ballots, NEW cap \in Caps,
         Vote(who, id, choice, cap)
  PROVE  TInv' /\ ReasonedSince(now, Committed, Committed')
<1> DEFINE b == Settle(gov, id)
           p == b.proposals[id]
           n == Weight(p, who, cap)
           z == WithBallot(p, who, choice, n)
           c == [b EXCEPT !.proposals[id] = z]
           ps == [b.proposals EXCEPT ![id] = z]
<1>1. /\ p.state = "active" /\ ~HasVoted(p, who) /\ sealed[p.epoch].votes[who] > 0
      /\ gov' = Settle(c, id)
      /\ UNCHANGED <<now, sealed, executing, todo, undo>>
  BY DEF Vote, Becomes
<1>2. now \in Nat /\ Good(gov) /\ Counts(sealed, gov) /\ id \in DOMAIN gov.proposals
      /\ sealed \in Seq(Worlds)
  BY DEF GInv, TInv, Ids
<1>3. Good(b) /\ id \in DOMAIN b.proposals
  BY <1>2, SettleMoves DEF Moves
<1>4. Recount(now, gov, b)
  BY <1>2, SettleRecounts
<1> HIDE DEF b
<1>5. Counts(sealed, b) /\ ReasonedSince(now, gov, b)
  BY <1>2, <1>4, RecountCounts
<1>6. Counted(sealed, p) /\ TypedProposal(p)
  BY <1>3, <1>5 DEF Counts, Good, Board
<1> HIDE DEF p
<1>7. n \in Nat /\ n \in 1 .. sealed[p.epoch].votes[who]
  <2>1. sealed[p.epoch].votes[who] \in Nat
    <3>1. sealed[p.epoch].votes \in [Addr -> Nat]
      BY <1>2, <1>6, WorldsCount DEF Counted
    <3> QED
      BY <3>1
  <2>2. cap \in Nat
    BY GovernorAssumption
  <2> QED
    BY <1>1, <2>1, <2>2 DEF Weight
<1> HIDE DEF n
<1>8. Counted(sealed, z) /\ Reasoned(now, p, z)
  BY <1>1, <1>2, <1>6, <1>7, BallotCounts
<1>9. /\ DOMAIN z = DOMAIN p /\ z.asks = p.asks /\ z.rules = p.rules /\ z.state = p.state
      /\ z.readyTime = p.readyTime
  BY DEF Ballots, WithBallot
<1> HIDE DEF z
<1>10. TypedProposal(z) /\ Follows(now, p, z)
  BY <1>1, <1>6, <1>9 DEF TypedProposal, Follows, Onward
<1>11. Good(c) /\ id \in DOMAIN c.proposals
  BY <1>3, <1>9, <1>10, PatchMoves DEF Moves, p
<1>12. c = [b EXCEPT !.proposals = ps]
  OBVIOUS
<1>13. DOMAIN ps = DOMAIN b.proposals /\ ps[id] = z /\ \A i \in DOMAIN ps : i # id => ps[i] = b.proposals[i]
  BY <1>3
<1> HIDE DEF c, ps
<1>14. c.proposals = ps /\ c.kinds = b.kinds
  BY <1>3, <1>12 DEF Good, Board
<1>15. Counts(sealed, c)
  BY <1>5, <1>8, <1>13, <1>14 DEF Counts
<1>16. ReasonedSince(now, b, c)
  BY <1>8, <1>13, <1>14, ReasonedItself DEF ReasonedSince, p
<1>17. Recount(now, c, gov')
  BY <1>1, <1>11, <1>15, SettleRecounts
<1>18. Counts(sealed, gov') /\ ReasonedSince(now, c, gov')
  BY <1>15, <1>17, RecountCounts
<1>19. ReasonedSince(now, gov, gov')
  BY <1>5, <1>16, <1>18, ReasonedSinceThrough
<1> QED
  BY <1>1, <1>18, <1>19, CallCounts

LEMMA SettlementCounts ==
  ASSUME GInv, TInv, \/ SweepBoard
                     \/ \E id \in Ids : SettleOne(id) \/ ReleaseRoll(id)
                     \/ \E who \in Addr, id \in Ids : Cancel(who, id)
  PROVE  TInv' /\ ReasonedSince(now, Committed, Committed')
<1>1. now \in Nat /\ Good(gov) /\ Counts(sealed, gov)
  BY DEF GInv, TInv
<1>2. UNCHANGED <<now, sealed, executing, todo, undo>>
  BY DEF SweepBoard, SettleOne, ReleaseRoll, Cancel, Becomes
<1>3. \A id \in Ids : LET b == Settle(gov, id) IN
        Good(b) /\ id \in DOMAIN b.proposals /\ Recount(now, gov, b) /\ Counts(sealed, b)
  <2> SUFFICES ASSUME NEW id \in Ids
               PROVE  LET b == Settle(gov, id) IN
                      Good(b) /\ id \in DOMAIN b.proposals /\ Recount(now, gov, b) /\ Counts(sealed, b)
    OBVIOUS
  <2> DEFINE b == Settle(gov, id)
  <2>1. Good(b) /\ id \in DOMAIN b.proposals
    BY <1>1, SettleMoves DEF Moves, Ids
  <2>2. Recount(now, gov, b)
    BY <1>1, SettleRecounts
  <2> HIDE DEF b
  <2>3. Counts(sealed, b)
    BY <1>1, <2>2, RecountCounts
  <2> QED
    BY <2>1, <2>2, <2>3 DEF b
<1>4. Recount(now, gov, gov')
  <2>1. CASE SweepBoard
    BY <1>1, <2>1, SweepRecounts DEF SweepBoard, Becomes
  <2>2. ASSUME NEW id \in Ids, SettleOne(id) PROVE Recount(now, gov, gov')
    BY <1>3, <2>2 DEF SettleOne, Becomes
  <2>3. ASSUME NEW id \in Ids, ReleaseRoll(id) PROVE Recount(now, gov, gov')
    <3> DEFINE b == Settle(gov, id)
    <3>1. ~Open(b.proposals[id]) /\ gov' = [b EXCEPT !.proposals[id].voted = {}]
      BY <2>3 DEF ReleaseRoll, Becomes
    <3>2. Good(b) /\ id \in DOMAIN b.proposals /\ Recount(now, gov, b) /\ Counts(sealed, b)
      BY <1>3
    <3> HIDE DEF b
    <3>3. Recount(now, b, gov')
      BY <3>1, <3>2, DropRecounts
    <3> QED
      BY <3>2, <3>3, RecountThrough
  <2>4. ASSUME NEW who \in Addr, NEW id \in Ids, Cancel(who, id) PROVE Recount(now, gov, gov')
    <3> DEFINE b == Settle(gov, id)
    <3>1. b.proposals[id].state = "active" /\ gov' = SetState(b, id, "canceled")
      BY <2>4 DEF Cancel, Becomes
    <3>2. Good(b) /\ id \in DOMAIN b.proposals /\ Recount(now, gov, b) /\ Counts(sealed, b)
      BY <1>3
    <3> HIDE DEF b
    <3>3. Recount(now, b, gov')
      BY <3>1, <3>2, SetStateRecounts
    <3> QED
      BY <3>2, <3>3, RecountThrough
  <2> QED
    BY <2>1, <2>2, <2>3, <2>4
<1> QED
  BY <1>2, <1>4, RecountKeeps

-----------------------------------------------------------------------------
(* A batch that may start changes rules only to sane ones, whatever has    *)
(* become of them when its turn comes.                                     *)
LEMMA RunnableIsSane ==
  ASSUME NEW q \in Questions, NEW b, Good(b), NEW valid, Runnable(b, q, valid)
  PROVE  SaneMembers(q)
<1>1. /\ IsQuestion(q) /\ \A m \in Range(q.members) : IsQuestion(m)
  BY QuestionsAssumption
<1>2. ASSUME NEW m, IsQuestion(m), CheckOne(b, m, valid), m.kind = "govern:rules"
      PROVE  SaneSet(m.set)
  <2> DEFINE r == b.kinds[m.on].rules
             new == Change(r, m.set)
  <2>1. IsLive(b, m.on) /\ SaneRules(new)
    BY <1>2 DEF CheckOne, CheckRules, Foreign, Builtins
  <2>2. DOMAIN r = RulesFields
    <3>1. r \in RulesRecords
      BY <2>1 DEF IsLive, Good, Board, TypedKind
    <3> QED
      BY <3>1 DEF RulesRecords
  <2>3. DOMAIN m.set \subseteq RulesFields
    BY <1>2 DEF IsQuestion
  <2>4. \A f \in DOMAIN m.set : new[f] = m.set[f]
    BY <2>2, <2>3 DEF Change
  <2> HIDE DEF new
  <2> QED
    BY <2>1, <2>4 DEF SaneRules, SaneSet
<1>3. CASE q.kind = "govern:batch"
  <2>1. Members(q) = q.members
    BY <1>3 DEF Members
  <2>2. ASSUME NEW m \in Range(q.members), m.kind = "govern:rules" PROVE SaneSet(m.set)
    <3>1. PICK i \in DOMAIN q.members : m = q.members[i]
      BY DEF Range
    <3>2. CheckOne(b, m, valid)
      BY <1>3, <3>1 DEF Runnable, CheckKind
    <3> QED
      BY <1>1, <1>2, <2>2, <3>2
  <2> QED
    BY <2>1, <2>2 DEF SaneMembers
<1>4. CASE q.kind # "govern:batch"
  <2>1. Members(q) = <<q>>
    BY <1>4 DEF Members
  <2>2. Range(<<q>>) = {q}
    BY DEF Range
  <2>3. CheckOne(b, q, valid)
    BY <1>4 DEF Runnable, CheckKind
  <2>4. q.kind = "govern:rules" => SaneSet(q.set)
    BY <1>1, <1>2, <2>3
  <2> QED
    BY <2>1, <2>2, <2>4 DEF SaneMembers
<1> QED
  BY <1>3, <1>4

LEMMA ExecuteCounts ==
  ASSUME GInv, TInv, NEW id \in Ids, NEW valid, Execute(id, valid)
  PROVE  TInv' /\ ReasonedSince(now, Committed, Committed')
<1> DEFINE b == Settle(gov, id)
           p == b.proposals[id]
<1>1. /\ now \in Nat /\ Good(gov) /\ Counts(sealed, gov) /\ id \in DOMAIN gov.proposals
      /\ executing = 0 /\ sealed \in Seq(Worlds)
  BY DEF GInv, TInv, Ids, Execute
<1>2. Good(b) /\ id \in DOMAIN b.proposals
  BY <1>1, SettleMoves DEF Moves
<1>3. Recount(now, gov, b)
  BY <1>1, SettleRecounts
<1>4. p.state = "succeeded"
  BY DEF Execute
<1>5. CASE Runnable(b, p.asks, valid)
  <2>1. gov' = b /\ undo' = gov /\ executing' = id /\ todo' = Members(p.asks) /\ UNCHANGED <<now, sealed>>
    BY <1>5 DEF Execute
  <2> HIDE DEF b
  <2>2. p.asks \in Questions
    BY <1>2 DEF Good, Board, TypedProposal
  <2>3. SaneMembers(p.asks)
    BY <1>2, <1>5, <2>2, RunnableIsSane
  <2>4. Counts(sealed, b) /\ ReasonedSince(now, gov, b)
    BY <1>1, <1>3, RecountCounts
  <2>5. TInv'
    BY <1>1, <2>1, <2>3, <2>4 DEF TInv
  <2>6. id # 0
    <3>1. PICK n \in Nat : gov.proposals = [i \in 1 .. n |-> gov.proposals[i]]
      BY <1>1 DEF Good, Board
    <3>2. id \in 1 .. n
      BY <1>1, <3>1
    <3> QED
      BY <3>2
  <2>7. Committed' = Committed
    BY <1>1, <2>1, <2>6 DEF Committed
  <2> QED
    BY <2>5, <2>7, NothingReasoned
<1>6. CASE ~Runnable(b, p.asks, valid)
  <2>1. gov' = SetState(b, id, "failed") /\ UNCHANGED <<now, sealed, executing, todo, undo>>
    BY <1>6 DEF Execute, Becomes
  <2> HIDE DEF b
  <2>2. Counts(sealed, b)
    BY <1>1, <1>3, RecountCounts
  <2>3. Recount(now, b, gov')
    BY <1>2, <1>4, <2>1, <2>2, SetStateRecounts
  <2>4. Recount(now, gov, gov')
    BY <1>3, <2>3, RecountThrough
  <2> QED
    BY <2>1, <2>4, RecountKeeps
<1> QED
  BY <1>5, <1>6

LEMMA RunMemberCounts ==
  ASSUME GInv, TInv, RunMember
  PROVE  TInv' /\ ReasonedSince(now, Committed, Committed')
<1> DEFINE h == Head(todo)
           ks == RunBuiltin(gov.kinds, h)
           q == gov.proposals[executing].asks
<1>1. /\ executing # 0 /\ todo # <<>> /\ ~Foreign(h.kind) /\ IsLive(gov, h.kind)
      /\ gov' = [gov EXCEPT !.kinds = ks]
      /\ UNCHANGED <<now, sealed, executing, undo>>
  BY DEF RunMember
<1>2. Good(gov) /\ h \in Range(Members(q)) /\ Member(h) /\ Counts(sealed, gov) /\ SaneMembers(q)
  BY <1>1, NextMember DEF GInv, TInv
<1>3. h.kind \in {"govern:adopt", "govern:retire", "govern:rules"}
  BY <1>1, <1>2 DEF Member, Foreign, Builtins
<1>4. \A k \in DOMAIN gov.kinds : TypedKind(gov.kinds[k]) /\ SaneRules(gov.kinds[k].rules)
  BY <1>2 DEF Good, Board, Counts
<1>5. h.kind = "govern:rules" => SaneSet(h.set)
  BY <1>2 DEF SaneMembers
<1> HIDE DEF h
<1>6. \A k \in DOMAIN ks : SaneRules(ks[k].rules)
  <2>1. ASSUME NEW v, ks = [gov.kinds EXCEPT ![h.on].live = v]
        PROVE  \A k \in DOMAIN ks : SaneRules(ks[k].rules)
    <3> HIDE DEF ks
    <3> SUFFICES ASSUME NEW k \in DOMAIN ks PROVE SaneRules(ks[k].rules)
      OBVIOUS
    <3>1. k \in DOMAIN gov.kinds /\ ks[k].rules = gov.kinds[k].rules
      BY <1>4, <2>1 DEF TypedKind
    <3> QED
      BY <1>4, <3>1
  <2>2. CASE h.kind = "govern:rules"
    <3> DEFINE r == gov.kinds[h.on].rules
               new == Change(r, h.set)
    <3>1. ks = [gov.kinds EXCEPT ![h.on].rules = new]
      BY <2>2 DEF RunBuiltin
    <3>2. h.on \in DOMAIN gov.kinds => SaneRules(new)
      <4>1. SUFFICES ASSUME h.on \in DOMAIN gov.kinds PROVE SaneRules(new)
        OBVIOUS
      <4>2. r \in RulesRecords /\ SaneRules(r)
        BY <1>4, <4>1 DEF TypedKind
      <4>3. \A f \in RulesFields : new[f] = IF f \in DOMAIN h.set THEN h.set[f] ELSE r[f]
        <5> HIDE DEF r
        <5> QED
          BY <4>2 DEF RulesRecords, Change
      <4> HIDE DEF new, r
      <4> QED
        BY <1>5, <2>2, <4>2, <4>3 DEF SaneRules, SaneSet, RulesFields
    <3> HIDE DEF ks, new
    <3> SUFFICES ASSUME NEW k \in DOMAIN ks PROVE SaneRules(ks[k].rules)
      OBVIOUS
    <3>3. k \in DOMAIN gov.kinds /\ (k # h.on => ks[k] = gov.kinds[k])
      BY <3>1
    <3>4. k = h.on => ks[k].rules = new
      BY <1>4, <3>1, <3>3 DEF TypedKind
    <3> QED
      BY <1>4, <3>2, <3>3, <3>4
  <2>3. CASE h.kind = "govern:adopt"
    BY <2>1, <2>3 DEF RunBuiltin
  <2>4. CASE h.kind = "govern:retire"
    BY <2>1, <2>4 DEF RunBuiltin
  <2> QED
    BY <1>3, <2>2, <2>3, <2>4
<1> HIDE DEF ks
<1>7. gov'.kinds = ks /\ gov'.proposals = gov.proposals
  BY <1>1, <1>2 DEF Good, Board
<1>8. Counts(sealed, gov')
  BY <1>2, <1>6, <1>7 DEF Counts
<1>9. ReasonedSince(now, undo, gov')
  BY <1>1, <1>7 DEF TInv, ReasonedSince
<1>10. TInv'
  BY <1>1, <1>7, <1>8, <1>9 DEF TInv
<1>11. Committed' = Committed
  BY <1>1 DEF Committed
<1> QED
  BY <1>10, <1>11, NothingReasoned

(* The end of a run, and its being taken back.                             *)
LEMMA EndCounts ==
  ASSUME GInv, TInv, ForeignRefuses \/ Finish \/ Abort
  PROVE  TInv' /\ ReasonedSince(now, Committed, Committed')
<1>1. executing # 0 /\ executing' = 0 /\ UNCHANGED <<now, sealed>>
  BY DEF ForeignRefuses, Finish, Abort, EndRun, ForeignRunning
<1>2. Committed = undo /\ Committed' = gov'
  BY <1>1 DEF Committed
<1>3. /\ Counts(sealed, gov) /\ Counts(sealed, undo) /\ ReasonedSince(now, undo, gov)
      /\ sealed \in Seq(Worlds)
  BY <1>1 DEF TInv
<1>4. Counts(sealed, gov') /\ ReasonedSince(now, undo, gov')
  <2>1. CASE Abort
    BY <1>3, <2>1, ReasonedSinceItself DEF Abort, EndRun
  <2>2. CASE ForeignRefuses \/ Finish
    <3>1. PICK st \in {"failed", "executed"} : gov' = SetState(gov, executing, st)
      BY <2>2 DEF ForeignRefuses, Finish, EndRun
    <3>2. Good(gov) /\ executing \in DOMAIN gov.proposals
          /\ gov.proposals[executing].state = "succeeded"
      BY <1>1 DEF GInv, UnderWay, Since, Runs
    <3>3. Recount(now, gov, gov')
      BY <1>3, <3>1, <3>2, SetStateRecounts
    <3>4. Counts(sealed, gov') /\ ReasonedSince(now, gov, gov')
      BY <1>3, <3>3, RecountCounts
    <3> QED
      BY <1>3, <3>4, ReasonedSinceThrough
  <2> QED
    BY <2>1, <2>2
<1>5. TInv'
  BY <1>1, <1>3, <1>4 DEF TInv
<1> QED
  BY <1>1, <1>2, <1>4, <1>5

LEMMA NextCounts ==
  ASSUME GInv, TInv, [Next]_vars
  PROVE  TInv' /\ ReasonedSince(now, Committed, Committed')
<1>1. CASE Tick
  <2>1. executing = 0 /\ UNCHANGED <<sealed, gov, executing, todo, undo>>
    BY <1>1 DEF Tick
  <2>2. TInv'
    BY <2>1 DEF TInv
  <2>3. Committed' = Committed
    BY <2>1 DEF Committed
  <2> QED
    BY <2>2, <2>3, NothingReasoned
<1>2. ASSUME NEW w \in Worlds, Seal(w)
      PROVE  TInv' /\ ReasonedSince(now, Committed, Committed')
  <2>1. executing = 0 /\ sealed' = Append(sealed, w) /\ UNCHANGED <<gov, executing, todo, undo>>
    BY <1>2 DEF Seal
  <2>2. sealed' \in Seq(Worlds) /\ Counts(sealed', gov)
    BY <2>1, SealedCounts DEF TInv
  <2>3. TInv'
    BY <2>1, <2>2 DEF TInv
  <2>4. Committed' = Committed
    BY <2>1 DEF Committed
  <2> QED
    BY <2>3, <2>4, NothingReasoned
<1>3. CASE ForeignReturns
  <2>1. UNCHANGED <<now, sealed, gov, executing, undo>>
    BY <1>3 DEF ForeignReturns
  <2>2. TInv'
    BY <2>1 DEF TInv
  <2>3. Committed' = Committed
    BY <2>1 DEF Committed
  <2> QED
    BY <2>2, <2>3, NothingReasoned
<1>4. CASE UNCHANGED vars
  <2>1. TInv'
    BY <1>4 DEF vars, TInv
  <2>2. Committed' = Committed
    BY <1>4 DEF vars, Committed
  <2> QED
    BY <2>1, <2>2, NothingReasoned
<1>5. CASE Running
  BY <1>3, <1>5, RunMemberCounts, EndCounts DEF Running
<1>6. ASSUME NEW n \in Names, NEW r \in RulesChoices, Offer(n, r)
      PROVE  TInv' /\ ReasonedSince(now, Committed, Committed')
  BY <1>6, OfferCounts
<1>7. ASSUME NEW a \in Addr, NEW q \in Questions, NEW f \in Floors, Propose(a, q, f)
      PROVE  TInv' /\ ReasonedSince(now, Committed, Committed')
  BY <1>7, ProposeCounts
<1>8. ASSUME NEW a \in Addr, NEW id \in Ids, NEW c \in Ballots, NEW cap \in Caps, Vote(a, id, c, cap)
      PROVE  TInv' /\ ReasonedSince(now, Committed, Committed')
  BY <1>8, VoteCounts
<1>9. CASE \/ SweepBoard
           \/ \E id \in Ids : SettleOne(id) \/ ReleaseRoll(id)
           \/ \E who \in Addr, id \in Ids : Cancel(who, id)
  BY <1>9, SettlementCounts
<1>10. ASSUME NEW id \in Ids, NEW valid \in BOOLEAN, Execute(id, valid)
       PROVE  TInv' /\ ReasonedSince(now, Committed, Committed')
  BY <1>10, ExecuteCounts
<1> QED
  BY <1>1, <1>2, <1>4, <1>5, <1>6, <1>7, <1>8, <1>9, <1>10 DEF Next

(* What is tallied of an open question is what its roll says, nobody       *)
(* counts for more than was sealed for them, and what is cast never        *)
(* exceeds the snapshot: for any electorate that keeps its own promise     *)
(* that the shares add up to no more than the total.                       *)
THEOREM TalliesAreRolls == Spec => []TallyWithinSnapshot
<1>1. GInv /\ TInv => TallyWithinSnapshot
  <2> SUFFICES ASSUME TInv, NEW i \in Ids
               PROVE  LET p == gov.proposals[i] IN
                      /\ Rest(p) >= 0
                      /\ Open(p) => /\ p.yes = Cast(p, "yes") /\ p.no = Cast(p, "no")
                                    /\ p.abstain = Cast(p, "abstain")
                                    /\ \A v \in p.voted : v.weight \in 1 .. sealed[p.epoch].votes[v.voter]
    BY DEF TallyWithinSnapshot
  <2> DEFINE p == gov.proposals[i]
  <2>1. Counted(sealed, p)
    BY DEF TInv, Counts, Ids
  <2> HIDE DEF p
  <2>2. Rest(p) >= 0
    BY <2>1 DEF Counted, Ballot, Rest, Turnout
  <2>3. Open(p) => /\ p.yes = Cast(p, "yes") /\ p.no = Cast(p, "no")
                   /\ p.abstain = Cast(p, "abstain")
                   /\ \A v \in p.voted : v.weight \in 1 .. sealed[p.epoch].votes[v.voter]
    BY <2>1 DEF Counted, Recorded
  <2> QED
    BY <2>2, <2>3 DEF p
<1>2. GInv /\ TInv /\ [Next]_vars => GInv' /\ TInv'
  BY NextKeeps, NextCounts
<1> QED
  BY <1>1, <1>2, InitGInv, InitTInv, PTL DEF Spec

(* Closing a vote early changes no outcome: however the rest had been      *)
(* cast, the deadline would have decided the same.                         *)
THEOREM EarlyIsFinal == Spec => EarlyDecisionsStand
<1>1. GInv /\ TInv /\ [Next]_vars => GInv' /\ TInv'
  BY NextKeeps, NextCounts
<1>2. GInv /\ TInv /\ [Next]_vars =>
        [\A i \in DOMAIN Committed.proposals :
           /\ Before(i).state = "active"
           /\ After(i).state \in {"succeeded", "executed", "failed", "defeated"}
           /\ now' < After(i).closesTime
           => EveryCompletion(After(i), After(i).state # "defeated")]_vars
  <2> SUFFICES ASSUME GInv, TInv, Next, NEW i \in DOMAIN Committed.proposals,
                      Before(i).state = "active",
                      After(i).state \in {"succeeded", "executed", "failed", "defeated"},
                      now' < After(i).closesTime
               PROVE  EveryCompletion(After(i), After(i).state # "defeated")
    OBVIOUS
  <2>1. TInv' /\ GInv' /\ ReasonedSince(now, Committed, Committed')
    BY NextKeeps, NextCounts
  <2>2. i \in DOMAIN Committed'.proposals /\ Grounded(now, After(i))
    BY <2>1 DEF ReasonedSince, Reasoned, Before, After
  <2>3. Counted(sealed', After(i))
    <3>1. Counts(sealed', Committed')
      BY <2>1 DEF TInv, Committed
    <3> QED
      BY <2>2, <3>1 DEF Counts, After
  <2>4. now' = now
    <3>1. CASE Tick
      <4>1. Committed' = Committed
        BY <3>1 DEF Tick, Committed
      <4> QED
        BY <4>1 DEF Before, After
    <3>2. CASE ~Tick
      BY <3>2 DEF Next, Seal, Offer, Propose, Vote, SettleOne, ReleaseRoll, Cancel, SweepBoard,
           Execute, Running, RunMember, ForeignReturns, ForeignRefuses, Abort, Finish, EndRun, Becomes
    <3> QED
      BY <3>1, <3>2
  <2> DEFINE z == After(i)
  <2>5. Ballot(z) /\ Grounded(now, z) /\ now < z.closesTime /\ now \in Nat /\ z.closesTime \in Nat
        /\ z.state \in {"succeeded", "executed", "failed", "defeated"}
    BY <2>2, <2>3, <2>4 DEF Counted, GInv
  <2> HIDE DEF z
  <2>6. z.state # "defeated" => Won(z)
    BY <2>5 DEF Grounded
  <2>7. z.state = "defeated" => Lost(z)
    BY <2>5 DEF Grounded
  <2>8. EveryCompletion(z, z.state # "defeated")
    BY <2>5, <2>6, <2>7, WonStands, LostStands
  <2> QED
    BY <2>8 DEF z
<1> QED
  BY <1>1, <1>2, InitGInv, InitTInv, PTL DEF Spec, EarlyDecisionsStand

-----------------------------------------------------------------------------
(* Of the questions of a board, those from a rank on, and those before it. *)
Ranked(D) == IsFiniteSet(D) /\ \A q \in D : Rank[q] \in Nat
Ahead(D, from) == {q \in D : Rank[q] >= from}
Behind(D, from) == {q \in D : Rank[q] < from}

(* A window with room to spare holds all that is ahead; a full one ends    *)
(* where the cursor goes on.                                               *)
LEMMA WindowIs ==
  ASSUME NEW b, NEW from \in Nat, Ranked(DOMAIN b.openIdx)
  PROVE  LET D == DOMAIN b.openIdx
             w == Window(b, from)
             to == Resume(b, from)
         IN  /\ w \subseteq Ahead(D, from) /\ IsFiniteSet(w) /\ to \in Nat
             /\ \/ w = Ahead(D, from) /\ to = 0
                \/ Cardinality(w) >= SweepScan /\ Behind(Ahead(D, from), to) = w
<1> DEFINE D == DOMAIN b.openIdx
           A == Ahead(D, from)
           Less(q) == {r \in A : Rank[r] < Rank[q]}
           w == Window(b, from)
           to == Resume(b, from)
<1>1. w = {q \in A : Cardinality(Less(q)) < SweepScan}
  BY DEF Window, Ahead
<1>2. IsFiniteSet(A) /\ \A q \in A : Rank[q] \in Nat
  BY FS_Subset DEF Ranked, Ahead
<1>3. \A q \in A : IsFiniteSet(Less(q)) /\ Cardinality(Less(q)) \in Nat
  BY <1>2, FS_Subset, FS_CardinalityType
<1> HIDE DEF A
<1>4. w \subseteq A /\ IsFiniteSet(w) /\ Cardinality(w) \in Nat
  BY <1>1, <1>2, FS_Subset, FS_CardinalityType
<1>5. SweepScan \in Nat \ {0}
  BY GovernorAssumption
<1>6. to = IF Cardinality(w) < SweepScan THEN 0
           ELSE 1 + CHOOSE n \in {Rank[q] : q \in w} : \A q \in w : Rank[q] <= n
  BY DEF Resume
<1> HIDE DEF w, to
<1>7. ASSUME Cardinality(w) < SweepScan PROVE w = A
  <2>1. SUFFICES ASSUME A \ w # {} PROVE FALSE
    BY <1>4
  <2> DEFINE R == {Rank[q] : q \in A \ w}
  <2>2. R \subseteq Nat /\ R # {}
    BY <1>2, <2>1
  <2> HIDE DEF R
  <2>3. PICK n \in R : \A m \in R : n <= m
    BY <2>2, LeastNumber
  <2>4. PICK q \in A \ w : Rank[q] = n
    BY DEF R
  <2>5. \A r \in A \ w : Rank[q] <= Rank[r]
    BY <2>3, <2>4 DEF R
  <2>6. Less(q) \subseteq w
    <3> SUFFICES ASSUME NEW r \in A, Rank[r] < Rank[q], r \notin w PROVE FALSE
      OBVIOUS
    <3> QED
      BY <1>2, <2>4, <2>5
  <2>7. Cardinality(Less(q)) <= Cardinality(w)
    BY <1>4, <2>6, FS_Subset
  <2>8. Cardinality(Less(q)) \in Nat /\ ~(Cardinality(Less(q)) < SweepScan)
    BY <1>1, <1>3, <2>4
  <2> HIDE DEF Less
  <2> QED
    BY <1>4, <1>5, <1>7, <2>7, <2>8
<1>8. CASE Cardinality(w) < SweepScan
  BY <1>4, <1>6, <1>7, <1>8 DEF D, A, w, to
<1>9. CASE ~(Cardinality(w) < SweepScan)
  <2> DEFINE R == {Rank[q] : q \in w}
  <2>1. w # {}
    BY <1>5, <1>9, FS_EmptySet
  <2>2. \A q \in w : Rank[q] \in Nat
    BY <1>2, <1>4
  <2>3. \E z \in w : \A q \in w : Rank[q] <= Rank[z]
    BY <1>4, <2>1, <2>2, GreatestRank
  <2>4. \E n \in R : \A q \in w : Rank[q] <= n
    BY <2>3
  <2> HIDE DEF R
  <2>5. \E n \in R : (\A q \in w : Rank[q] <= n) /\ to = 1 + n
    BY <1>6, <1>9, <2>4 DEF R
  <2>6. PICK n \in R : (\A q \in w : Rank[q] <= n) /\ to = 1 + n
    BY <2>5
  <2>7. PICK z \in w : Rank[z] = n
    BY DEF R
  <2>8. to \in Nat /\ n \in Nat
    BY <2>2, <2>6, <2>7
  <2>9. ASSUME NEW q \in A, Rank[q] < to PROVE q \in w
    <3>1. Rank[q] <= Rank[z] /\ z \in A
      BY <1>2, <1>4, <2>6, <2>7, <2>8, <2>9
    <3>2. Less(q) \subseteq Less(z)
      BY <1>2, <3>1
    <3>3. Cardinality(Less(q)) <= Cardinality(Less(z))
      BY <1>3, <3>1, <3>2, FS_Subset
    <3>4. Cardinality(Less(z)) < SweepScan
      BY <1>1, <2>7
    <3>5. Cardinality(Less(q)) \in Nat /\ Cardinality(Less(z)) \in Nat
      BY <1>3, <3>1
    <3> HIDE DEF Less
    <3>6. Cardinality(Less(q)) < SweepScan
      BY <1>5, <3>3, <3>4, <3>5
    <3> QED
      BY <1>1, <3>6
  <2>10. ASSUME NEW q \in w PROVE q \in A /\ Rank[q] < to
    BY <1>2, <1>4, <2>6, <2>8
  <2>11. Behind(A, to) = w
    BY <2>9, <2>10 DEF Behind
  <2>12. Cardinality(w) >= SweepScan
    BY <1>4, <1>5, <1>9
  <2> QED
    BY <1>4, <2>8, <2>11, <2>12 DEF D, A, w, to
<1> QED
  BY <1>8, <1>9

-----------------------------------------------------------------------------
(* A full window moves the cursor over as many questions as it shows.      *)
LEMMA WindowAdds ==
  ASSUME NEW b, NEW from \in Nat, Ranked(DOMAIN b.openIdx),
         Cardinality(Window(b, from)) >= SweepScan,
         Behind(Ahead(DOMAIN b.openIdx, from), Resume(b, from)) = Window(b, from),
         NEW X, X \subseteq DOMAIN b.openIdx, Ahead(DOMAIN b.openIdx, from) \subseteq X
  PROVE  /\ Behind(X, Resume(b, from)) = Behind(X, from) \cup Window(b, from)
         /\ Cardinality(Behind(X, from)) \in Nat /\ Cardinality(Behind(X, Resume(b, from))) \in Nat
         /\ Cardinality(Behind(X, Resume(b, from))) >= Cardinality(Behind(X, from)) + SweepScan
         /\ Resume(b, from) >= from
<1> DEFINE D == DOMAIN b.openIdx
           w == Window(b, from)
           to == Resume(b, from)
<1>1. w \subseteq Ahead(D, from) /\ IsFiniteSet(w) /\ to \in Nat
  BY WindowIs
<1>2. \A q \in D : Rank[q] \in Nat
  BY DEF Ranked
<1>3. IsFiniteSet(X) /\ IsFiniteSet(Behind(X, from)) /\ IsFiniteSet(Behind(X, to))
  BY FS_Subset DEF Ranked, Behind
<1>4. Cardinality(w) \in Nat /\ Cardinality(Behind(X, from)) \in Nat /\ Cardinality(Behind(X, to)) \in Nat
  BY <1>1, <1>3, FS_CardinalityType
<1>5. SweepScan \in Nat \ {0} /\ Cardinality(w) >= SweepScan
  BY GovernorAssumption
<1>6. Behind(Ahead(D, from), to) = w
  OBVIOUS
<1> HIDE DEF w, to, D
<1>7. to >= from
  <2>1. w # {}
    BY <1>4, <1>5, FS_EmptySet
  <2>2. PICK q \in w : TRUE
    BY <2>1
  <2>3. q \in D /\ Rank[q] >= from /\ Rank[q] < to
    BY <1>1, <1>6, <2>2 DEF Ahead, Behind
  <2> QED
    BY <1>1, <1>2, <2>3
<1>8. Behind(X, to) = Behind(X, from) \cup w
  <2>1. ASSUME NEW q \in X
        PROVE  Rank[q] < to <=> (Rank[q] < from \/ q \in w)
    <3>1. q \in D /\ Rank[q] \in Nat
      BY <1>2 DEF D
    <3>2. q \in w <=> Rank[q] >= from /\ Rank[q] < to
      BY <1>6, <3>1 DEF Ahead, Behind
    <3> QED
      BY <1>1, <1>7, <3>1, <3>2
  <2>2. w \subseteq X
    BY <1>1 DEF D
  <2> QED
    BY <2>1, <2>2 DEF Behind
<1>9. Behind(X, from) \cap w = {}
  <2>1. ASSUME NEW q \in w, Rank[q] < from PROVE FALSE
    <3>1. q \in D /\ Rank[q] >= from
      BY <1>1 DEF Ahead
    <3> QED
      BY <1>2, <2>1, <3>1
  <2> QED
    BY <2>1 DEF Behind
<1>10. Cardinality(Behind(X, to)) = Cardinality(Behind(X, from)) + Cardinality(w)
  BY <1>1, <1>3, <1>8, <1>9, DisjointSizes
<1>11. Cardinality(Behind(X, to)) >= Cardinality(Behind(X, from)) + SweepScan
  BY <1>4, <1>5, <1>10
<1> QED
  BY <1>4, <1>7, <1>8, <1>11 DEF to, w

-----------------------------------------------------------------------------
(* How far round the ring a sweep that has freed nothing has come after n  *)
(* windows: still on its first way up, past the end and coming up to where *)
(* it started, or all round.                                               *)
Rounded(b, n, s) ==
  LET D == DOMAIN b.openIdx
      A == Ahead(D, b.sweepFrom)
  IN  /\ s.from \in Nat /\ s.seen \subseteq D
      /\ \/ /\ s.from >= b.sweepFrom /\ Behind(A, s.from) \subseteq s.seen
            /\ Cardinality(Behind(A, s.from)) >= n * SweepScan
         \/ /\ n > 0 /\ A \subseteq s.seen /\ Behind(D, s.from) \subseteq s.seen
            /\ Cardinality(A) + Cardinality(Behind(D, s.from)) >= (n - 1) * SweepScan
         \/ s.seen = D

Further(b, before) ==
  IF Frees(b, before.seen) THEN before
  ELSE [from |-> Resume(b, before.from), seen |-> before.seen \cup Window(b, before.from)]

LEMMA RoundedFurther ==
  ASSUME NEW b, b.sweepFrom \in Nat, Ranked(DOMAIN b.openIdx), NEW n \in Nat, NEW s,
         Rounded(b, n, s), ~Frees(b, s.seen)
  PROVE  Rounded(b, n + 1, Further(b, s))
<1> DEFINE D == DOMAIN b.openIdx
           A == Ahead(D, b.sweepFrom)
           w == Window(b, s.from)
           to == Resume(b, s.from)
           z == Further(b, s)
<1>1. z.from = to /\ z.seen = s.seen \cup w
  BY DEF Further
<1> HIDE DEF z
<1>2. s.from \in Nat /\ s.seen \subseteq D
  BY DEF Rounded
<1>3. /\ w \subseteq Ahead(D, s.from) /\ to \in Nat
      /\ \/ w = Ahead(D, s.from) /\ to = 0
         \/ Cardinality(w) >= SweepScan /\ Behind(Ahead(D, s.from), to) = w
  BY <1>2, WindowIs
<1>4. z.from \in Nat /\ z.seen \subseteq D
  BY <1>1, <1>2, <1>3 DEF Ahead
<1>5. /\ \A q \in D : Rank[q] \in Nat
      /\ A \subseteq D /\ IsFiniteSet(A) /\ Cardinality(A) \in Nat
      /\ SweepScan \in Nat /\ n * SweepScan \in Nat
      /\ (n + 1) * SweepScan = n * SweepScan + SweepScan
      /\ (n - 1) * SweepScan + SweepScan = n * SweepScan /\ (n - 1) * SweepScan \in Int
      /\ (n + 1) - 1 = n
  <2>1. SweepScan \in Nat
    BY GovernorAssumption
  <2>2. A \subseteq D /\ IsFiniteSet(A) /\ Cardinality(A) \in Nat
    BY FS_Subset, FS_CardinalityType DEF Ranked, Ahead
  <2>3. \A q \in D : Rank[q] \in Nat
    BY DEF Ranked
  <2> HIDE DEF D, A
  <2> QED
    BY <2>1, <2>2, <2>3
<1>6. Behind(D, 0) = {}
  BY <1>5 DEF Behind
<1>7. CASE s.from >= b.sweepFrom /\ Behind(A, s.from) \subseteq s.seen
           /\ Cardinality(Behind(A, s.from)) >= n * SweepScan
  <2>1. Ahead(D, s.from) \subseteq A
    BY <1>2, <1>5, <1>7 DEF Ahead
  <2>2. CASE w = Ahead(D, s.from) /\ to = 0
    <3>1. A \subseteq z.seen
      <4>1. \A q \in A : q \in Behind(A, s.from) \/ q \in Ahead(D, s.from)
        BY <1>2, <1>5 DEF Behind, Ahead
      <4> QED
        BY <1>1, <1>7, <2>2, <4>1
    <3>2. Cardinality(A) + Cardinality(Behind(D, z.from)) >= n * SweepScan
      <4>1. Cardinality(Behind(A, s.from)) <= Cardinality(A) /\ Cardinality(Behind(A, s.from)) \in Nat
        BY <1>5, FS_Subset, FS_CardinalityType DEF Behind
      <4>2. Cardinality(Behind(D, z.from)) = 0
        BY <1>1, <1>6, <2>2, FS_EmptySet
      <4> HIDE DEF A, D
      <4> QED
        BY <1>5, <1>7, <4>1, <4>2
    <3>3. Behind(D, z.from) \subseteq z.seen /\ n + 1 > 0
      BY <1>1, <1>6, <2>2
    <3> HIDE DEF w, to
    <3> QED
      BY <1>4, <1>5, <3>1, <3>2, <3>3 DEF Rounded, z
  <2>3. CASE Cardinality(w) >= SweepScan /\ Behind(Ahead(D, s.from), to) = w
    <3>1. /\ Behind(A, to) = Behind(A, s.from) \cup w
          /\ Cardinality(Behind(A, s.from)) \in Nat /\ Cardinality(Behind(A, to)) \in Nat
          /\ Cardinality(Behind(A, to)) >= Cardinality(Behind(A, s.from)) + SweepScan
          /\ to >= s.from
      BY <1>2, <1>5, <2>1, <2>3, WindowAdds
    <3> HIDE DEF A, D, w, to
    <3>2. Cardinality(Behind(A, to)) >= (n + 1) * SweepScan
      BY <1>5, <1>7, <3>1
    <3>3. z.from >= b.sweepFrom
      BY <1>1, <1>2, <1>3, <1>7, <3>1
    <3>4. Behind(A, z.from) \subseteq z.seen
      BY <1>1, <1>7, <3>1
    <3> QED
      BY <1>1, <1>4, <3>2, <3>3, <3>4 DEF Rounded, A, D, z
  <2> QED
    BY <1>3, <2>2, <2>3
<1>8. CASE n > 0 /\ A \subseteq s.seen /\ Behind(D, s.from) \subseteq s.seen
           /\ Cardinality(A) + Cardinality(Behind(D, s.from)) >= (n - 1) * SweepScan
  <2>1. CASE w = Ahead(D, s.from) /\ to = 0
    <3>1. \A q \in D : q \in Behind(D, s.from) \/ q \in Ahead(D, s.from)
      BY <1>2, <1>5 DEF Behind, Ahead
    <3>2. z.seen = D
      BY <1>1, <1>4, <1>8, <2>1, <3>1
    <3> QED
      BY <1>4, <3>2 DEF Rounded, z
  <2>2. CASE Cardinality(w) >= SweepScan /\ Behind(Ahead(D, s.from), to) = w
    <3>1. Ahead(D, s.from) \subseteq D
      BY DEF Ahead
    <3>2. /\ Behind(D, to) = Behind(D, s.from) \cup w
          /\ Cardinality(Behind(D, s.from)) \in Nat /\ Cardinality(Behind(D, to)) \in Nat
          /\ Cardinality(Behind(D, to)) >= Cardinality(Behind(D, s.from)) + SweepScan
      BY <1>2, <2>2, <3>1, WindowAdds
    <3> HIDE DEF A, D, w, to
    <3>3. Cardinality(A) + Cardinality(Behind(D, to)) >= n * SweepScan
      BY <1>5, <1>8, <3>2
    <3>4. n + 1 > 0 /\ A \subseteq z.seen /\ Behind(D, z.from) \subseteq z.seen
      BY <1>1, <1>8, <3>2
    <3> QED
      BY <1>1, <1>4, <1>5, <3>3, <3>4 DEF Rounded, A, D, z
  <2> QED
    BY <1>3, <2>1, <2>2
<1>9. CASE s.seen = D
  <2>1. z.seen = D
    BY <1>1, <1>4, <1>9
  <2> QED
    BY <1>4, <2>1 DEF Rounded, z
<1> QED
  BY <1>7, <1>8, <1>9 DEF Rounded

-----------------------------------------------------------------------------
IsScan(g, b, n) ==
  g = [w \in 0 .. n |-> IF w = 0 THEN [from |-> b.sweepFrom, seen |-> {}] ELSE Further(b, g[w - 1])]

LEMMA ScanExists ==
  ASSUME NEW b, NEW n \in Nat
  PROVE  \E g : IsScan(g, b, n)
<1> DEFINE T == {m \in Nat : \E g : IsScan(g, b, m)}
<1>1. 0 \in T
  <2> DEFINE g == [w \in 0 .. 0 |-> [from |-> b.sweepFrom, seen |-> {}]]
  <2>1. \A w \in 0 .. 0 : w = 0
    OBVIOUS
  <2>2. IsScan(g, b, 0)
    BY <2>1 DEF IsScan
  <2> HIDE DEF g
  <2> QED
    BY <2>2
<1>2. ASSUME NEW m \in T PROVE m + 1 \in T
  <2>1. m \in Nat
    OBVIOUS
  <2>2. PICK g : IsScan(g, b, m)
    OBVIOUS
  <2> DEFINE last == Further(b, g[m])
             h == [w \in 0 .. m + 1 |-> IF w = m + 1 THEN last ELSE g[w]]
  <2>3. \A w \in 0 .. m + 1 : w # m + 1 => w \in 0 .. m
    BY <2>1
  <2>4. \A w \in 0 .. m : w \in 0 .. m + 1 /\ w # m + 1
    BY <2>1
  <2>5. \A w \in 0 .. m : g[w] = IF w = 0 THEN [from |-> b.sweepFrom, seen |-> {}]
                                  ELSE Further(b, g[w - 1])
    BY <2>2 DEF IsScan
  <2>6. \A w \in 0 .. m : h[w] = g[w]
    BY <2>4
  <2>7. h[m + 1] = last /\ m + 1 # 0 /\ (m + 1) - 1 = m /\ m \in 0 .. m
    BY <2>1
  <2>8. h = [w \in 0 .. m + 1 |-> h[w]]
    OBVIOUS
  <2> HIDE DEF h
  <2>9. \A w \in 0 .. m : w # 0 => w - 1 \in 0 .. m
    BY <2>1
  <2>10. \A w \in 0 .. m + 1 :
          h[w] = IF w = 0 THEN [from |-> b.sweepFrom, seen |-> {}] ELSE Further(b, h[w - 1])
    <3> TAKE w \in 0 .. m + 1
    <3>1. CASE w = m + 1
      BY <2>6, <2>7, <3>1
    <3>2. CASE w # m + 1
      <4>1. w \in 0 .. m
        BY <2>3, <3>2
      <4>2. h[w] = g[w] /\ (w # 0 => h[w - 1] = g[w - 1])
        BY <2>6, <2>9, <4>1
      <4> QED
        BY <2>5, <4>1, <4>2
    <3> QED
      BY <3>1, <3>2
  <2>11. IsScan(h, b, m + 1)
    BY <2>8, <2>10 DEF IsScan
  <2> QED
    BY <2>1, <2>11
<1> HIDE DEF T
<1>3. T = Nat
  <2>1. T \subseteq Nat
    BY DEF T
  <2> QED
    BY <1>1, <1>2, <2>1, SetInduction
<1> QED
  BY <1>3 DEF T

LEMMA SweptIsScan ==
  ASSUME NEW b
  PROVE  \E g : IsScan(g, b, Windows) /\ Swept(b) = g[Windows]
<1>1. Windows \in Nat
  BY GovernorAssumption DEF Windows
<1> DEFINE g == CHOOSE g : IsScan(g, b, Windows)
<1>2. \E h : IsScan(h, b, Windows)
  BY <1>1, ScanExists
<1>3. IsScan(g, b, Windows)
  BY <1>2
<1>4. Swept(b) = g[Windows]
  BY DEF Swept, IsScan, Further
<1> QED
  BY <1>3, <1>4

(* The windows of a sweep go round a board that is not over its bound.     *)
LEMMA RoundTheRing ==
  ASSUME NEW b, b.sweepFrom \in Nat, Ranked(DOMAIN b.openIdx),
         Cardinality(DOMAIN b.openIdx) <= MaxLive, NEW s, Rounded(b, Windows, s)
  PROVE  s.seen = DOMAIN b.openIdx
<1> DEFINE D == DOMAIN b.openIdx
           A == Ahead(D, b.sweepFrom)
           L == Behind(D, s.from)
<1>1. Windows \in Nat /\ SweepScan \in Nat \ {0} /\ MaxLive \in Nat
      /\ (Windows - 1) * SweepScan = MaxLive /\ Windows * SweepScan = MaxLive + SweepScan
  <2>1. SweepScan \in Nat \ {0} /\ MaxLive \in Nat /\ MaxLive % SweepScan = 0
    BY GovernorAssumption
  <2> DEFINE k == MaxLive \div SweepScan
  <2>2. k \in Nat
    BY <2>1
  <2>3. MaxLive = k * SweepScan
    BY <2>1
  <2>4. Windows = k + 1
    BY DEF Windows
  <2> HIDE DEF k
  <2>5. (k + 1) * SweepScan = k * SweepScan + SweepScan /\ (k + 1) - 1 = k /\ k + 1 \in Nat
    BY <2>1, <2>2
  <2> QED
    BY <2>1, <2>3, <2>4, <2>5
<1>2. /\ s.from \in Nat /\ s.seen \subseteq D /\ \A q \in D : Rank[q] \in Nat
      /\ A \subseteq D /\ L \subseteq D /\ IsFiniteSet(D) /\ IsFiniteSet(A) /\ IsFiniteSet(L)
      /\ Cardinality(D) \in Nat /\ Cardinality(A) \in Nat /\ Cardinality(L) \in Nat
  <2>1. A \subseteq D /\ L \subseteq D /\ IsFiniteSet(D)
    BY DEF Ranked, Ahead, Behind
  <2> QED
    BY <2>1, FS_Subset, FS_CardinalityType DEF Rounded, Ranked
<1>3. CASE s.from >= b.sweepFrom /\ Behind(A, s.from) \subseteq s.seen
           /\ Cardinality(Behind(A, s.from)) >= Windows * SweepScan
  <2>1. Cardinality(Behind(A, s.from)) <= Cardinality(D) /\ Cardinality(Behind(A, s.from)) \in Nat
    <3>1. Behind(A, s.from) \subseteq D
      BY <1>2 DEF Behind
    <3> QED
      BY <1>2, <3>1, FS_Subset, FS_CardinalityType
  <2> HIDE DEF D, A
  <2>2. MaxLive + SweepScan <= MaxLive
    BY <1>1, <1>2, <1>3, <2>1 DEF D
  <2> QED
    BY <1>1, <2>2
<1>4. CASE Windows > 0 /\ A \subseteq s.seen /\ L \subseteq s.seen
           /\ Cardinality(A) + Cardinality(L) >= (Windows - 1) * SweepScan
  <2>1. SUFFICES ASSUME NEW q \in D, q \notin s.seen PROVE FALSE
    BY <1>2
  <2>2. Rank[q] < b.sweepFrom /\ Rank[q] >= s.from
    BY <1>2, <1>4, <2>1 DEF Ahead, Behind
  <2>3. A \cap L = {}
    BY <1>2, <2>2 DEF Ahead, Behind
  <2>4. q \notin A \cup L /\ A \cup L \subseteq D
    BY <1>2, <1>4, <2>1
  <2> HIDE DEF A, L, D
  <2>5. Cardinality(A \cup L) = Cardinality(A) + Cardinality(L) - Cardinality(A \cap L) /\ IsFiniteSet(A \cup L)
    BY <1>2, FS_Union
  <2>6. Cardinality(A \cap L) = 0
    BY <2>3, FS_EmptySet
  <2>7. Cardinality((A \cup L) \cup {q}) = Cardinality(A \cup L) + 1
    BY <2>4, <2>5, FS_AddElement
  <2>8. Cardinality((A \cup L) \cup {q}) <= Cardinality(D)
    <3>1. (A \cup L) \cup {q} \subseteq D
      BY <2>4
    <3> QED
      BY <1>2, <3>1, FS_Subset
  <2>9. Cardinality(D) <= MaxLive
    BY DEF D
  <2> QED
    BY <1>1, <1>2, <1>4, <2>5, <2>6, <2>7, <2>8, <2>9
<1> QED
  BY <1>3, <1>4 DEF Rounded

(* If there is anything to free the windows come to it.                    *)
LEMMA SweptFrees ==
  ASSUME NEW b, b.sweepFrom \in Nat, Ranked(DOMAIN b.openIdx),
         Cardinality(DOMAIN b.openIdx) <= MaxLive
  PROVE  /\ Swept(b).from \in Nat /\ Swept(b).seen \subseteq DOMAIN b.openIdx
         /\ Frees(b, DOMAIN b.openIdx) => Frees(b, Swept(b).seen)
<1> DEFINE D == DOMAIN b.openIdx
<1>1. PICK g : IsScan(g, b, Windows) /\ Swept(b) = g[Windows]
  BY SweptIsScan
<1>2. Windows \in Nat
  BY GovernorAssumption DEF Windows
<1>3. /\ g[0] = [from |-> b.sweepFrom, seen |-> {}]
      /\ \A n \in Nat : n + 1 \in 0 .. Windows => g[n + 1] = Further(b, g[n])
  <2>1. \A w \in 0 .. Windows :
          g[w] = IF w = 0 THEN [from |-> b.sweepFrom, seen |-> {}] ELSE Further(b, g[w - 1])
    BY <1>1 DEF IsScan
  <2>2. 0 \in 0 .. Windows
    BY <1>2
  <2>3. \A n \in Nat : n + 1 # 0 /\ (n + 1) - 1 = n
    OBVIOUS
  <2> QED
    BY <2>1, <2>2, <2>3
<1> DEFINE Done(n) == /\ g[n].from \in Nat /\ g[n].seen \subseteq D
                      /\ Frees(b, g[n].seen) \/ Rounded(b, n, g[n])
           T == {n \in Nat : n <= Windows => Done(n)}
<1>4. 0 \in T
  <2>1. Rounded(b, 0, g[0])
    <3>1. Behind(Ahead(D, b.sweepFrom), b.sweepFrom) = {}
      <4>1. \A q \in D : Rank[q] \in Nat
        BY DEF Ranked
      <4> QED
        BY <4>1 DEF Ahead, Behind
    <3>2. Cardinality({}) >= 0 * SweepScan
      <4>1. 0 * SweepScan = 0 /\ Cardinality({}) = 0
        BY FS_EmptySet, GovernorAssumption
      <4> QED
        BY <4>1
    <3>3. g[0].from = b.sweepFrom /\ g[0].seen = {}
      BY <1>3
    <3>4. b.sweepFrom >= b.sweepFrom
      OBVIOUS
    <3> QED
      BY <3>1, <3>2, <3>3, <3>4 DEF Rounded
  <2> QED
    BY <2>1 DEF Rounded
<1>5. ASSUME NEW n \in T PROVE n + 1 \in T
  <2>1. n \in Nat
    OBVIOUS
  <2>2. SUFFICES ASSUME n + 1 <= Windows PROVE Done(n + 1)
    BY <2>1
  <2>3. Done(n) /\ g[n + 1] = Further(b, g[n])
    <3>1. n + 1 \in 0 .. Windows /\ n <= Windows
      BY <1>2, <2>1, <2>2
    <3> QED
      BY <1>3, <2>1, <3>1
  <2> DEFINE z == g[n + 1]
             s == g[n]
  <2>4. z = Further(b, s) /\ s.from \in Nat /\ s.seen \subseteq D
        /\ (Frees(b, s.seen) \/ Rounded(b, n, s))
    BY <2>3
  <2> HIDE DEF z, s, Done
  <2>5. CASE Frees(b, s.seen)
    <3>1. z = s
      BY <2>4, <2>5 DEF Further
    <3> QED
      BY <2>4, <2>5, <3>1 DEF z, Done
  <2>6. CASE ~Frees(b, s.seen)
    <3>1. Rounded(b, n + 1, z)
      BY <2>1, <2>4, <2>6, RoundedFurther
    <3> QED
      BY <3>1 DEF Rounded, z, Done
  <2> QED
    BY <2>5, <2>6
<1> HIDE DEF T
<1>6. T = Nat
  <2>1. T \subseteq Nat
    BY DEF T
  <2> QED
    BY <1>4, <1>5, <2>1, SetInduction
<1>7. Done(Windows)
  <2>1. Windows <= Windows
    BY <1>2
  <2> QED
    BY <1>2, <1>6, <2>1 DEF T
<1>8. Frees(b, D) => Frees(b, g[Windows].seen)
  BY <1>7, RoundTheRing
<1> QED
  BY <1>1, <1>7, <1>8

-----------------------------------------------------------------------------
(* The board is within its bound, and its cursor is a rank.                *)
Bounded(b) == /\ IsFiniteSet(DOMAIN b.openIdx) /\ Cardinality(DOMAIN b.openIdx) <= MaxLive
              /\ b.sweepFrom \in Nat

QInv == Bounded(gov) /\ (executing # 0 => Bounded(undo))

LEMMA BoundedLess ==
  ASSUME NEW b, NEW c, Bounded(b), DOMAIN c.openIdx \subseteq DOMAIN b.openIdx, c.sweepFrom \in Nat
  PROVE  Bounded(c)
<1>1. IsFiniteSet(DOMAIN c.openIdx) /\ Cardinality(DOMAIN c.openIdx) <= Cardinality(DOMAIN b.openIdx)
      /\ Cardinality(DOMAIN c.openIdx) \in Nat /\ Cardinality(DOMAIN b.openIdx) \in Nat
  BY FS_Subset, FS_CardinalityType DEF Bounded
<1> QED
  BY <1>1, GovernorAssumption DEF Bounded

LEMMA GoodIsRanked ==
  ASSUME NEW b, Good(b), Bounded(b)
  PROVE  Ranked(DOMAIN b.openIdx)
<1>1. \A q \in DOMAIN b.openIdx : q \in Questions
  BY DEF Good, Board, SlotsMatch, TypedProposal
<1> QED
  BY <1>1, QuestionsAssumption DEF Ranked, Bounded

LEMMA SettleAllBounds ==
  ASSUME NEW b, Good(b), Bounded(b), NEW ids
  PROVE  /\ Bounded(SettleAll(b, ids))
         /\ DOMAIN SettleAll(b, ids) = DOMAIN b
         /\ \A i \in ids : Releases(b.proposals[i]) =>
              b.proposals[i].asks \notin DOMAIN SettleAll(b, ids).openIdx
         /\ DOMAIN SettleAll(b, ids).openIdx \subseteq DOMAIN b.openIdx
<1> DEFINE ps == [i \in DOMAIN b.proposals |->
                    IF i \in ids THEN Settled(b.proposals[i]) ELSE b.proposals[i]]
           gone == {b.proposals[i].asks : i \in {j \in ids : Releases(b.proposals[j])}}
           idx == Without(b.openIdx, gone)
           c == SettleAll(b, ids)
<1>1. c = [b EXCEPT !.proposals = ps, !.openIdx = idx]
  BY DEF SettleAll
<1>2. DOMAIN idx = DOMAIN b.openIdx \ gone
  BY DEF Without, Restrict
<1>3. \A i \in ids : Releases(b.proposals[i]) => b.proposals[i].asks \in gone
  OBVIOUS
<1> HIDE DEF ps, gone, idx, c
<1>4. c.openIdx = idx /\ c.sweepFrom = b.sweepFrom /\ DOMAIN c = DOMAIN b
  BY <1>1 DEF Good, Board
<1>5. Bounded(c)
  BY <1>2, <1>4, BoundedLess DEF Bounded
<1> QED
  BY <1>2, <1>3, <1>4, <1>5 DEF c

LEMMA SettleBounds ==
  ASSUME NEW b, Good(b), Bounded(b), NEW id
  PROVE  Bounded(Settle(b, id)) /\ DOMAIN Settle(b, id).openIdx \subseteq DOMAIN b.openIdx
BY SettleAllBounds DEF Settle

(* A sweep frees a slot whenever there is one to free.                     *)
LEMMA SweepBounds ==
  ASSUME NEW b, Good(b), Bounded(b)
  PROVE  /\ Bounded(Sweep(b)) /\ DOMAIN Sweep(b).openIdx \subseteq DOMAIN b.openIdx
         /\ Frees(b, DOMAIN b.openIdx) => Size(Sweep(b)) < Size(b)
<1> DEFINE D == DOMAIN b.openIdx
           ids == {b.openIdx[q] : q \in Swept(b).seen \cap D}
           a == SettleAll(b, ids)
           from == Swept(b).from
           c == Sweep(b)
<1>1. c = [a EXCEPT !.sweepFrom = from]
  BY DEF Sweep
<1>2. from \in Nat /\ Swept(b).seen \subseteq D /\ (Frees(b, D) => Frees(b, Swept(b).seen))
  BY GoodIsRanked, SweptFrees DEF Bounded
<1>3. Frees(b, D) => \E i \in ids : Releases(b.proposals[i]) /\ b.proposals[i].asks \in D
  <2> SUFFICES ASSUME Frees(b, D)
               PROVE  \E i \in ids : Releases(b.proposals[i]) /\ b.proposals[i].asks \in D
    OBVIOUS
  <2>1. PICK q \in Swept(b).seen : Releases(b.proposals[b.openIdx[q]])
    BY <1>2 DEF Frees
  <2>2. q \in D /\ b.openIdx[q] \in ids
    BY <1>2
  <2>3. b.proposals[b.openIdx[q]].asks = q
    BY <2>2 DEF Good, SlotsMatch
  <2> QED
    BY <2>1, <2>2, <2>3
<1> HIDE DEF ids, c, from
<1>4. /\ Bounded(a) /\ DOMAIN a = DOMAIN b /\ DOMAIN a.openIdx \subseteq D
      /\ \A i \in ids : Releases(b.proposals[i]) => b.proposals[i].asks \notin DOMAIN a.openIdx
  BY SettleAllBounds
<1> HIDE DEF a
<1>5. c.openIdx = a.openIdx /\ c.sweepFrom = from
  BY <1>1, <1>4 DEF Good, Board
<1>6. Bounded(c)
  BY <1>2, <1>4, <1>5 DEF Bounded
<1>7. ASSUME Frees(b, D) PROVE Size(c) < Size(b)
  <2>1. DOMAIN c.openIdx # D /\ DOMAIN c.openIdx \subseteq D
    BY <1>3, <1>4, <1>5, <1>7
  <2>2. /\ Cardinality(DOMAIN c.openIdx) <= Cardinality(D)
        /\ Cardinality(D) # Cardinality(DOMAIN c.openIdx)
        /\ Cardinality(D) \in Nat /\ Cardinality(DOMAIN c.openIdx) \in Nat
    BY <1>6, <2>1, FS_Subset, FS_CardinalityType DEF Bounded
  <2> QED
    BY <2>2 DEF Size
<1> QED
  BY <1>4, <1>5, <1>6, <1>7 DEF c

LEMMA SetStateBounds ==
  ASSUME NEW b, Good(b), Bounded(b), NEW id, NEW st
  PROVE  Bounded(SetState(b, id, st))
<1> DEFINE ps == [b.proposals EXCEPT ![id].state = st]
           idx == Without(b.openIdx, {b.proposals[id].asks})
           c == SetState(b, id, st)
<1>1. c = [b EXCEPT !.proposals = ps, !.openIdx = idx]
  BY DEF SetState
<1>2. DOMAIN idx \subseteq DOMAIN b.openIdx
  BY DEF Without, Restrict
<1> HIDE DEF ps, idx, c
<1>3. c.openIdx = idx /\ c.sweepFrom = b.sweepFrom
  BY <1>1 DEF Good, Board
<1>4. Bounded(c)
  BY <1>2, <1>3, BoundedLess DEF Bounded
<1> QED
  BY <1>4 DEF c

(* The board's record with its other fields replaced.                      *)
LEMMA OtherFields ==
  ASSUME NEW b, Good(b), Bounded(b), NEW ps
  PROVE  Bounded([b EXCEPT !.proposals = ps]) /\ Bounded([b EXCEPT !.kinds = ps])
<1>1. /\ [b EXCEPT !.proposals = ps].openIdx = b.openIdx
      /\ [b EXCEPT !.proposals = ps].sweepFrom = b.sweepFrom
      /\ [b EXCEPT !.kinds = ps].openIdx = b.openIdx
      /\ [b EXCEPT !.kinds = ps].sweepFrom = b.sweepFrom
  BY DEF Good, Board
<1> QED
  BY <1>1 DEF Bounded

LEMMA ProposeBounds ==
  ASSUME GInv, QInv, NEW who, NEW q \in Questions, NEW floor, Propose(who, q, floor)
  PROVE  Bounded(gov')
<1> DEFINE swept == IF Size(gov) >= Slots(q.kind) THEN Sweep(gov) ELSE gov
           b == IF q \in DOMAIN swept.openIdx THEN Settle(swept, swept.openIdx[q]) ELSE swept
           z == NewProposal(who, q, floor)
           ps == Append(b.proposals, z)
           idx == With(b.openIdx, q, Len(b.proposals) + 1)
<1>1. /\ Size(swept) < Slots(q.kind) /\ q \notin DOMAIN b.openIdx
      /\ gov' = [b EXCEPT !.proposals = ps, !.openIdx = idx]
  BY DEF Propose, Becomes
<1>2. now \in Nat /\ Good(gov) /\ Bounded(gov)
  BY DEF GInv, QInv
<1>3. Good(swept) /\ Bounded(swept)
  BY <1>2, SweepMoves, SweepBounds DEF Moves
<1> HIDE DEF swept
<1>4. Good(b) /\ DOMAIN b.openIdx \subseteq DOMAIN swept.openIdx /\ Bounded(b)
  <2>1. CASE q \in DOMAIN swept.openIdx
    <3>1. {swept.openIdx[q]} \subseteq DOMAIN swept.proposals
      BY <1>3, <2>1 DEF Good, SlotsMatch
    <3> QED
      BY <1>2, <1>3, <2>1, <3>1, SettleAllMoves, SettleBounds DEF Settle, Moves
  <2>2. CASE q \notin DOMAIN swept.openIdx
    BY <1>3, <2>2
  <2> QED
    BY <2>1, <2>2
<1> HIDE DEF b, z
<1>5. DOMAIN idx = {q} \cup DOMAIN b.openIdx
  BY DEF With
<1> HIDE DEF idx, ps
<1>6. gov'.openIdx = idx /\ gov'.sweepFrom = b.sweepFrom
  BY <1>1, <1>4 DEF Good, Board
<1>7. /\ Cardinality(DOMAIN b.openIdx) <= Cardinality(DOMAIN swept.openIdx)
      /\ Cardinality(DOMAIN b.openIdx) \in Nat /\ Cardinality(DOMAIN swept.openIdx) \in Nat
      /\ IsFiniteSet(DOMAIN b.openIdx)
  BY <1>3, <1>4, FS_Subset, FS_CardinalityType DEF Bounded
<1>8. Slots(q.kind) \in Nat /\ Slots(q.kind) <= MaxLive /\ MaxLive \in Nat
  BY GovernorAssumption DEF Slots
<1>9. Cardinality(DOMAIN b.openIdx) + 1 <= MaxLive
  BY <1>1, <1>7, <1>8 DEF Size
<1>10. IsFiniteSet(DOMAIN b.openIdx \cup {q})
       /\ Cardinality(DOMAIN b.openIdx \cup {q}) = Cardinality(DOMAIN b.openIdx) + 1
  BY <1>1, <1>7, FS_AddElement
<1>11. DOMAIN idx = DOMAIN b.openIdx \cup {q}
  BY <1>5
<1> QED
  BY <1>4, <1>6, <1>9, <1>10, <1>11 DEF Bounded

LEMMA NextBounds ==
  ASSUME GInv, QInv, [Next]_vars
  PROVE  QInv'
<1>1. now \in Nat /\ Good(gov) /\ Bounded(gov)
  BY DEF GInv, QInv
<1>2. \A id : Bounded(Settle(gov, id))
  BY <1>1, SettleBounds
<1>3. \A id \in Ids : Good(Settle(gov, id)) /\ id \in DOMAIN Settle(gov, id).proposals
  BY <1>1, SettleMoves DEF Moves, Ids
<1>4. ASSUME Bounded(gov'), UNCHANGED <<executing, undo>> PROVE QInv'
  BY <1>4 DEF QInv
<1>5. CASE UNCHANGED <<gov, executing, undo>>
  BY <1>5 DEF QInv, Bounded
<1>6. ASSUME NEW n \in Names, NEW r \in RulesChoices, Offer(n, r) PROVE QInv'
  <2> DEFINE ks == With(gov.kinds, n, [rules |-> r, live |-> FALSE])
  <2>1. gov' = [gov EXCEPT !.kinds = ks] /\ UNCHANGED <<executing, undo>>
    BY <1>6 DEF Offer, Becomes
  <2> HIDE DEF ks
  <2> QED
    BY <1>1, <1>4, <2>1, OtherFields
<1>7. ASSUME NEW a \in Addr, NEW q \in Questions, NEW f \in Floors, Propose(a, q, f) PROVE QInv'
  <2>1. UNCHANGED <<executing, undo>>
    BY <1>7 DEF Propose, Becomes
  <2> QED
    BY <1>4, <1>7, <2>1, ProposeBounds
<1>8. ASSUME NEW a \in Addr, NEW id \in Ids, NEW c \in Ballots, NEW cap \in Caps, Vote(a, id, c, cap)
      PROVE  QInv'
  <2> DEFINE b == Settle(gov, id)
             p == b.proposals[id]
             n == Weight(p, a, cap)
             z == WithBallot(p, a, c, n)
             ps == [b.proposals EXCEPT ![id] = z]
             d == [b EXCEPT !.proposals = ps]
  <2>1. gov' = Settle(d, id) /\ UNCHANGED <<executing, undo>> /\ p.state = "active"
    BY <1>8 DEF Vote, Becomes
  <2>2. Good(b) /\ id \in DOMAIN b.proposals /\ Bounded(b)
    BY <1>2, <1>3
  <2>3. TypedProposal(p)
    BY <2>2 DEF Good, Board
  <2> HIDE DEF b, p, n
  <2>4. /\ DOMAIN z = DOMAIN p /\ z.asks = p.asks /\ z.rules = p.rules /\ z.state = p.state
        /\ z.readyTime = p.readyTime
    BY DEF Ballots, WithBallot
  <2> HIDE DEF z
  <2>5. TypedProposal(z) /\ Follows(now, p, z)
    BY <2>1, <2>3, <2>4 DEF TypedProposal, Follows, Onward
  <2>6. Good([b EXCEPT !.proposals[id] = z])
    BY <2>2, <2>4, <2>5, PatchMoves DEF Moves, p
  <2>7. d = [b EXCEPT !.proposals[id] = z]
    OBVIOUS
  <2>8. Good(d)
    BY <2>6, <2>7
  <2> HIDE DEF ps
  <2>9. Bounded(d)
    BY <2>2, OtherFields
  <2> HIDE DEF d
  <2>10. Bounded(gov')
    BY <2>1, <2>8, <2>9, SettleBounds
  <2> QED
    BY <1>4, <2>1, <2>10
<1>9. ASSUME NEW id \in Ids, SettleOne(id) PROVE QInv'
  BY <1>2, <1>4, <1>9 DEF SettleOne, Becomes
<1>10. ASSUME NEW id \in Ids, ReleaseRoll(id) PROVE QInv'
  <2> DEFINE b == Settle(gov, id)
             ps == [b.proposals EXCEPT ![id].voted = {}]
  <2>1. gov' = [b EXCEPT !.proposals = ps] /\ UNCHANGED <<executing, undo>>
    BY <1>10 DEF ReleaseRoll, Becomes
  <2>2. Good(b) /\ Bounded(b)
    BY <1>2, <1>3
  <2> HIDE DEF b, ps
  <2> QED
    BY <1>4, <2>1, <2>2, OtherFields
<1>11. ASSUME NEW a \in Addr, NEW id \in Ids, Cancel(a, id) PROVE QInv'
  BY <1>2, <1>3, <1>4, <1>11, SetStateBounds DEF Cancel, Becomes
<1>12. CASE SweepBoard
  BY <1>1, <1>4, <1>12, SweepBounds DEF SweepBoard, Becomes
<1>13. ASSUME NEW id \in Ids, NEW valid \in BOOLEAN, Execute(id, valid) PROVE QInv'
  <2> DEFINE b == Settle(gov, id)
  <2>1. Good(b) /\ Bounded(b)
    BY <1>2, <1>3
  <2>2. \/ gov' = b /\ undo' = gov
        \/ gov' = SetState(b, id, "failed") /\ UNCHANGED <<executing, undo>>
    BY <1>13 DEF Execute, Becomes
  <2> HIDE DEF b
  <2> QED
    BY <1>1, <1>4, <2>1, <2>2, SetStateBounds DEF QInv
<1>14. CASE RunMember
  <2> DEFINE ks == RunBuiltin(gov.kinds, Head(todo))
  <2>1. gov' = [gov EXCEPT !.kinds = ks] /\ UNCHANGED <<executing, undo>>
    BY <1>14 DEF RunMember
  <2> HIDE DEF ks
  <2> QED
    BY <1>1, <1>4, <2>1, OtherFields
<1>15. CASE ForeignRefuses \/ Finish \/ Abort
  <2>1. executing # 0 /\ executing' = 0
    BY <1>15 DEF ForeignRefuses, Finish, Abort, EndRun, ForeignRunning
  <2>2. Bounded(gov')
    BY <1>1, <1>15, <2>1, SetStateBounds DEF ForeignRefuses, Finish, Abort, EndRun, QInv
  <2> QED
    BY <2>1, <2>2 DEF QInv
<1>16. CASE Tick \/ (\E w \in Worlds : Seal(w)) \/ ForeignReturns \/ UNCHANGED vars
  BY <1>5, <1>16 DEF Tick, Seal, ForeignReturns, vars
<1> QED
  BY <1>6, <1>7, <1>8, <1>9, <1>10, <1>11, <1>12, <1>13, <1>14, <1>15, <1>16 DEF Next, Running

(* A sweep frees a slot whenever there is one to free, wherever its cursor *)
(* stands and however the open questions rank: a full board refuses a      *)
(* question only for lack of finished ones, for every size of board that   *)
(* is a whole number of windows.                                           *)
THEOREM SweepsReclaim == Spec => []SweepReclaims
<1>1. GInv /\ QInv => SweepReclaims
  BY SweepBounds DEF GInv, QInv, SweepReclaims
<1>2. Init => QInv
  <2> SUFFICES ASSUME Init PROVE QInv
    OBVIOUS
  <2>1. gov.openIdx = <<>> /\ gov.sweepFrom = 0 /\ executing = 0
    BY DEF Init
  <2>2. DOMAIN gov.openIdx = {}
    BY <2>1
  <2>3. IsFiniteSet({}) /\ Cardinality({}) = 0 /\ 0 <= MaxLive
    BY FS_EmptySet, GovernorAssumption
  <2> QED
    BY <2>1, <2>2, <2>3 DEF QInv, Bounded
<1>3. GInv /\ QInv /\ [Next]_vars => GInv' /\ QInv'
  BY NextKeeps, NextBounds
<1> QED
  BY <1>1, <1>2, <1>3, InitGInv, PTL DEF Spec

=============================================================================
