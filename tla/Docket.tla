------------------------------- MODULE Docket -------------------------------
(***************************************************************************)
(* The kourtv2 realm as a seeding script meets it: which entrypoint        *)
(* accepts which call, on a chain with one court, and what the reads       *)
(* answer afterwards.  A chain is one record; Submit gives the outcome of  *)
(* one transaction, the chain it leaves and whether it landed.             *)
(*                                                                         *)
(* Coin amounts are in tenths of a CC, GNOT amounts in whole GNOT, times   *)
(* in seconds, heights in blocks.  What a staker may spend is rounded      *)
(* against the script: coins a verdict pays out (deposits, rewards, freed  *)
(* stakes) are not counted as spendable, and the answer bond is taken at   *)
(* its ceiling, so a call this chain lands is landed by the realm too.     *)
(***************************************************************************)
EXTENDS Integers, Sequences, FiniteSets, SequencesExt

CONSTANTS
    MaxSkew,        \* maxAdvanceTotal, below TLC's 32 bits
    AdvanceStep,    \* maxAdvanceStep
    GenesisTime     \* the chain's own clock when it starts

CONSTANTS YES, NO    \* the sides of a claim
CC == 10

EpochBlocks   == 720
AnswerBuckets == 3
DeadClaimSecs == 7257600
SettleSecs    == 259200
VotingSecs    == 604800
GraceSecs     == 604800
MaxHeightStep  == 2 * 120960
MaxHeightTotal == 1209600
MaxFolderDepth == 4
MaxAssocOut    == 32
MaxAssocIn     == 64
MaxAssocInPerAuthor == 4

Larger(a, b)  == IF a > b THEN a ELSE b
Lesser(a, b)  == IF a < b THEN a ELSE b
At(f, k)      == IF k \in DOMAIN f THEN f[k] ELSE 0
Put(f, k, v)  == [x \in DOMAIN f \union {k} |-> IF x = k THEN v ELSE f[x]]
Gain(f, k, n) == Put(f, k, At(f, k) + n)

Pristine(deployer) ==
    [deployer |-> deployer,
     armed |-> FALSE, sealed |-> FALSE, ever |-> FALSE,
     base |-> 0, skew |-> 0, hbase |-> 0, hskew |-> 0, hpeak |-> 0,
     floor |-> 0, hfloor |-> 0, blocks |-> 1,
     creationBurn |-> 0, started |-> FALSE, mod |-> "", desc |-> FALSE, site |-> FALSE,
     minted |-> 0, bal |-> <<>>, locked |-> <<>>, gnot |-> <<>>, burned |-> 0,
     since |-> 0, claims |-> <<>>, folders |-> <<>>, filed |-> {},
     assocBond |-> CC, edges |-> {}, sup |-> {},
     passes |-> {}, standing |-> {}, franchise |-> {}]

NowTime(ch)   == IF ch.armed THEN ch.base + ch.skew ELSE Larger(GenesisTime, ch.floor)
HeightNow(ch) == IF ch.armed THEN ch.hbase + ch.hskew ELSE Larger(ch.blocks, ch.hfloor)
BucketNow(ch) == HeightNow(ch) \div EpochBlocks
Passed(ch, stamp, secs) == NowTime(ch) >= stamp + secs

Land(ch, guard, next) == [ok |-> guard, chain |-> IF guard THEN next ELSE ch]

Spendable(ch, who) == At(ch.bal, who) - At(ch.locked, who)
Spend(ch, who, amt) == [ch EXCEPT !.bal = Gain(@, who, -amt)]
IsMod(ch, who) == ch.started /\ who = ch.mod
HasClaim(ch, cid) == cid \in 1..Len(ch.claims)
HasFolder(ch, fid) == fid \in 1..Len(ch.folders)
Dead(ch, c) == Passed(ch, c.opened, DeadClaimSecs)

(***************************************************************************)
(* The test clock: armed once on a realm nobody has used, frozen but for   *)
(* the deployer's own calls, sealed for good.                              *)
(***************************************************************************)
EnableTestClockAt(ch, who, base) ==
    Land(ch, who = ch.deployer /\ ~ch.sealed /\ ~ch.armed /\ ~ch.started /\ base > 0,
         [ch EXCEPT !.armed = TRUE, !.ever = TRUE, !.base = base, !.skew = 0, !.hskew = 0,
                    !.floor = Larger(GenesisTime, base), !.hbase = ch.blocks,
                    !.hfloor = ch.blocks])

AdvanceTestClock(ch, who, secs) ==
    Land(ch, who = ch.deployer /\ ch.armed /\ secs \in 1..AdvanceStep
             /\ ch.skew <= MaxSkew - secs,
         [ch EXCEPT !.skew = @ + secs, !.floor = Larger(@, ch.base + ch.skew + secs)])

AdvanceTestHeight(ch, who, n) ==
    Land(ch, who = ch.deployer /\ ch.armed /\ n \in 1..MaxHeightStep
             /\ ch.hskew <= MaxHeightTotal - n,
         [ch EXCEPT !.hskew = @ + n, !.hpeak = Larger(@, ch.hskew + n),
                    !.hfloor = Larger(@, ch.hbase + ch.hskew + n)])

SealTestClock(ch, who) ==
    Land(ch, who = ch.deployer /\ ch.armed,
         [ch EXCEPT !.sealed = TRUE, !.armed = FALSE, !.skew = 0, !.base = 0, !.hskew = 0])

(***************************************************************************)
(* The court, its coin, and what a claim rests on.                         *)
(***************************************************************************)
SetCourtCreationBurn(ch, who, gnot) ==
    Land(ch, who = ch.deployer /\ gnot >= 0, [ch EXCEPT !.creationBurn = gnot])

StartCourt(ch, who, send) ==
    Land(ch, ~ch.started /\ send >= ch.creationBurn,
         [ch EXCEPT !.started = TRUE, !.mod = who])

\* The meta court is the realm's own, and its moderator the realm's deployer.
SetCourtDesc(ch, who, court) ==
    Land(ch, IF court = <<>> THEN IsMod(ch, who) ELSE who = ch.deployer,
         [ch EXCEPT !.desc = IF court = <<>> THEN TRUE ELSE @])
SetSiteDomain(ch, who) == Land(ch, who = ch.deployer, [ch EXCEPT !.site = TRUE])
ClaimMetaFranchise(ch, who) == Land(ch, TRUE, [ch EXCEPT !.franchise = @ \union {who}])

\* What the curve mints for g GNOT at supply s, both in tenths of a coin: a supply
\* of c coins has cost c * c / 2000.
Minted(s, g) ==
    LET paid == 200000 * g
    IN  CHOOSE m \in 0..Lesser(15000, paid \div (2 * s + 1)) :
            m * (2 * s + m) <= paid /\ (m + 1) * (2 * s + m + 1) > paid

Buy(ch, who, gnot) ==
    LET m == IF gnot > 0 THEN Minted(ch.minted, gnot) ELSE 0
    IN  Land(ch, ch.started /\ gnot > 0 /\ m > 0,
             [ch EXCEPT !.minted = @ + m, !.bal = Gain(@, who, m),
                        !.since = IF ch.minted = 0 THEN BucketNow(ch) ELSE @])

Supply(ch) == ch.minted
MinDeposit(ch) == Larger(CC, Supply(ch) \div 10000)
MinAnswerX(ch) == Larger(CC, Supply(ch) \div 1000)

NewClaim(ch, who, heading) ==
    [author |-> who, heading |-> heading, opened |-> NowTime(ch), openedAt |-> HeightNow(ch),
     deposit |-> MinDeposit(ch), pos |-> <<>>, first |-> -1, pool |-> <<>>,
     answer |-> -1, answerer |-> "", answered |-> 0, bond |-> 0, xbar |-> 0,
     closed |-> FALSE, disputer |-> "", disputed |-> 0, disputeBond |-> 0, rounds |-> 0,
     failed |-> 0, votes |-> {}, provisional |-> -1, verdict |-> -1, verdictAt |-> 0,
     rewards |-> FALSE, drawn |-> {}, set |-> 0, hidden |-> FALSE, board |-> <<>>]

OpenClaim(ch, who, heading) ==
    LET cost == MinDeposit(ch) + MinDeposit(ch) \div 10
    IN  Land(ch, ch.started /\ Spendable(ch, who) >= cost,
             [Spend(ch, who, cost) EXCEPT !.claims = Append(@, NewClaim(ch, who, heading))])

OpenClaimIn(ch, who, fid, heading) ==
    LET r == OpenClaim(ch, who, heading)
    IN  Land(ch, r.ok /\ HasFolder(ch, fid),
             [r.chain EXCEPT !.filed = @ \union {<<fid, Len(r.chain.claims)>>}])

\* The ring of 720-block buckets, one value per bucket that saw an observation.
Observed(ch, c, total) ==
    [c EXCEPT !.first = IF @ < 0 THEN BucketNow(ch) ELSE @,
              !.pool = IF @ # <<>> /\ Last(@).at = BucketNow(ch)
                       THEN Append(Front(@), [at |-> BucketNow(ch), total |-> total])
                       ELSE Append(@, [at |-> BucketNow(ch), total |-> total])]

PoolAt(c, b) ==
    LET seen == SelectSeq(c.pool, LAMBDA p : p.at <= b)
    IN  IF seen = <<>> THEN 0 ELSE Last(seen).total

Mature(c) == c.pool # <<>> /\ Last(c.pool).at - c.first >= AnswerBuckets - 1

Average(ch, c) ==
    LET b == BucketNow(ch)
    IN  (PoolAt(c, b) + PoolAt(c, b - 1) + PoolAt(c, b - 2)) \div AnswerBuckets

Total(c) == FoldLeft(LAMBDA t, p : p.total, 0, c.pool)

Stake(ch, who, cid, side, amt) ==
    LET c == ch.claims[cid]
        p == <<who, side>>
    IN  Land(ch, HasClaim(ch, cid) /\ amt > 0 /\ ~c.closed /\ c.answer < 0
                 /\ Spendable(ch, who) >= amt * CC,
             [ch EXCEPT !.locked = Gain(@, who, amt * CC),
                        !.claims[cid] = Observed(ch, [c EXCEPT !.pos = Gain(@, p, amt * CC)],
                                                 Total(c) + amt * CC)])

Unstake(ch, who, cid, side, amt) ==
    LET c == ch.claims[cid]
        p == <<who, side>>
    IN  Land(ch, HasClaim(ch, cid) /\ amt > 0 /\ c.answer < 0 /\ At(c.pos, p) >= amt * CC,
             [ch EXCEPT !.locked = Gain(@, who, -(amt * CC)),
                        !.claims[cid] = Observed(ch, [c EXCEPT !.pos = Gain(@, p, -(amt * CC))],
                                                 Total(c) - amt * CC)])

(***************************************************************************)
(* Answer, settlement, dispute.                                            *)
(***************************************************************************)
BondCeiling(xbar) == xbar \div 4

PostAnswer(ch, who, cid, verdict) ==
    LET c    == ch.claims[cid]
        xbar == Average(ch, c)
        bond == Larger(1, BondCeiling(xbar))
    IN  Land(ch, HasClaim(ch, cid) /\ ~c.closed /\ c.answer < 0 /\ ~Dead(ch, c)
                 /\ Mature(c) /\ xbar >= MinAnswerX(ch) /\ Spendable(ch, who) >= bond,
             [Spend(ch, who, bond) EXCEPT
                 !.claims[cid] = [c EXCEPT !.answer = verdict, !.answerer = who, !.xbar = xbar,
                                           !.answered = NowTime(ch), !.bond = bond]])

SettleUndisputed(ch, cid) ==
    LET c == ch.claims[cid]
    IN  Land(ch, HasClaim(ch, cid) /\ c.answer >= 0 /\ c.rounds = 0 /\ c.verdict < 0
                 /\ Passed(ch, c.answered, SettleSecs),
             [ch EXCEPT !.claims[cid] = [c EXCEPT !.verdict = c.answer, !.bond = 0,
                                                  !.provisional = c.answer,
                                                  !.verdictAt = NowTime(ch)],
                        !.bal = Gain(@, c.answerer, c.bond)])

DisputeBond(c) == Larger(1, Lesser(c.xbar \div 5, (c.bond * 2) \div 5)) * 2^c.failed

OpenDispute(ch, who, cid) ==
    LET c == ch.claims[cid]
    IN  Land(ch, HasClaim(ch, cid) /\ c.answer >= 0 /\ who # c.answerer /\ c.disputer = ""
                 /\ c.verdict < 0 /\ c.provisional < 0 /\ ~Passed(ch, c.answered, SettleSecs)
                 /\ Spendable(ch, who) >= DisputeBond(c),
             [Spend(ch, who, DisputeBond(c)) EXCEPT
                 !.claims[cid] = [c EXCEPT !.disputer = who, !.disputed = NowTime(ch),
                                           !.disputeBond = DisputeBond(c),
                                           !.rounds = @ + 1, !.votes = {}]])

IsParticipant(c, who) ==
    who \in {c.author, c.answerer} \union {p[1] : p \in DOMAIN c.pos}

VoteDispute(ch, who, cid, choice) ==
    LET c == ch.claims[cid]
    IN  Land(ch, HasClaim(ch, cid) /\ c.disputer # "" /\ ~IsParticipant(c, who)
                 /\ ~Passed(ch, c.disputed, VotingSecs) /\ At(ch.bal, who) > 0
                 /\ choice \in {"yes", "no"} /\ who \notin {v.who : v \in c.votes},
             [ch EXCEPT !.claims[cid].votes =
                            @ \union {[who |-> who, choice |-> choice, n |-> At(ch.bal, who)]}])

Cast(c, choices) ==
    LET cast == SetToSeq({v \in c.votes : v.choice \in choices})
    IN  FoldLeft(LAMBDA t, v : t + v.n, 0, cast)

ResolveDispute(ch, cid) ==
    LET c     == ch.claims[cid]
        yes   == Cast(c, {"yes"})
        no    == Cast(c, {"no"})
        floor == Lesser(c.xbar, Supply(ch) \div 3)
        open  == [c EXCEPT !.disputer = "", !.disputed = 0, !.disputeBond = 0]
    IN  Land(ch, HasClaim(ch, cid) /\ c.disputer # "" /\ Passed(ch, c.disputed, VotingSecs),
             CASE yes + no < floor ->
                    [ch EXCEPT !.bal = Gain(@, c.disputer, c.disputeBond \div 2),
                               !.claims[cid] = [open EXCEPT !.failed = @ + 1,
                                                            !.provisional = c.answer]]
               [] yes + no >= floor /\ yes > 0 /\ yes * 10000 >= 5001 * (yes + no) ->
                    [ch EXCEPT !.bal = Gain(@, c.disputer, c.disputeBond),
                               !.claims[cid] = [open EXCEPT !.bond = 0,
                                                            !.provisional = 1 - c.answer]]
               [] OTHER -> [ch EXCEPT !.claims[cid] = [open EXCEPT !.provisional = c.answer]])

CloseDeadClaim(ch, cid) ==
    LET c == ch.claims[cid]
    IN  Land(ch, HasClaim(ch, cid) /\ ~c.closed /\ c.answer < 0 /\ Dead(ch, c),
             [ch EXCEPT !.claims[cid].closed = TRUE, !.claims[cid].deposit = 0,
                        !.bal = Gain(@, c.author, c.deposit)])

OpenRewards(ch, who, cid) ==
    LET c == ch.claims[cid]
    IN  Land(ch, HasClaim(ch, cid) /\ ~c.rewards /\ c.verdict >= 0 /\ ~c.closed
                 /\ (Passed(ch, c.verdictAt, GraceSecs) \/ IsParticipant(c, who)),
             [ch EXCEPT !.claims[cid].rewards = TRUE])

WithdrawBonus(ch, who, cid, side) ==
    LET c == ch.claims[cid]
    IN  Land(ch, HasClaim(ch, cid) /\ c.rewards /\ side = c.provisional
                 /\ <<who, side>> \in DOMAIN c.pos /\ who \notin c.drawn,
             [ch EXCEPT !.claims[cid].drawn = @ \union {who},
                        !.standing = IF c.pos[<<who, side>>] > 0 THEN @ \union {who} ELSE @])

(***************************************************************************)
(* Folders, and the sets a settled claim bears.                            *)
(***************************************************************************)
DepthOf(ch, fid) ==
    LET depth[f \in 0..Len(ch.folders)] == IF f = 0 THEN 0 ELSE 1 + depth[ch.folders[f].parent]
    IN  depth[fid]

Under(ch, fid, anc) ==
    LET under[f \in 0..Len(ch.folders)] == f # 0 /\ (f = anc \/ under[ch.folders[f].parent])
    IN  under[fid]

TreeHeight(ch, fid) ==
    LET depths == {DepthOf(ch, f) : f \in {g \in 1..Len(ch.folders) : Under(ch, g, fid)}}
    IN  (CHOOSE d \in depths : \A e \in depths : e <= d) - DepthOf(ch, fid) + 1

Folder(name, parent, born) ==
    [name |-> name, parent |-> parent, born |-> born, image |-> FALSE]

CreateFolderIn(ch, who, parent, name) ==
    Land(ch, IsMod(ch, who) /\ (parent = 0 \/ HasFolder(ch, parent))
             /\ DepthOf(ch, parent) + 1 <= MaxFolderDepth,
         [ch EXCEPT !.folders = Append(@, Folder(name, parent, 0))])

MoveFolder(ch, who, fid, parent) ==
    Land(ch, IsMod(ch, who) /\ HasFolder(ch, fid) /\ (parent = 0 \/ HasFolder(ch, parent))
             /\ ~Under(ch, parent, fid)
             /\ DepthOf(ch, parent) + TreeHeight(ch, fid) <= MaxFolderDepth,
         [ch EXCEPT !.folders[fid].parent = parent])

AddToFolder(ch, who, fid, cid) ==
    Land(ch, IsMod(ch, who) /\ HasClaim(ch, cid) /\ HasFolder(ch, fid),
         [ch EXCEPT !.filed = @ \union {<<fid, cid>>}])

SetFolderImage(ch, who, fid) ==
    Land(ch, IsMod(ch, who) /\ HasFolder(ch, fid), [ch EXCEPT !.folders[fid].image = TRUE])

New(ch, cid) ==
    LET c     == ch.claims[cid]
        in    == {f[1] : f \in {g \in ch.filed : g[2] = cid}}
        under == IF in = {} THEN 0 ELSE CHOOSE f \in in : TRUE
    IN  Land(ch, HasClaim(ch, cid) /\ c.heading # "" /\ c.verdict = YES /\ c.set = 0
                 /\ Cardinality(in) <= 1
                 /\ c.heading \notin {ch.folders[f].name : f \in 1..Len(ch.folders)}
                 /\ DepthOf(ch, under) + 1 <= MaxFolderDepth,
             [ch EXCEPT !.folders = Append(@, Folder(c.heading, under, cid)),
                        !.claims[cid].set = Len(ch.folders) + 1])

HideItem(ch, who, cid) ==
    Land(ch, IsMod(ch, who) /\ HasClaim(ch, cid), [ch EXCEPT !.claims[cid].hidden = TRUE])

(***************************************************************************)
(* Relations between claims.                                               *)
(***************************************************************************)
SetCourtAssociationBond(ch, who, amt) ==
    Land(ch, IsMod(ch, who) /\ amt >= 0, [ch EXCEPT !.assocBond = amt * CC])

AddAssociation(ch, who, from, to, stance) ==
    LET bond == IF ch.claims[from].author = who \/ IsMod(ch, who) THEN 0 ELSE ch.assocBond
        out  == {e \in ch.edges : e.from = from}
        in   == {e \in ch.edges : e.to = to}
    IN  Land(ch, from # to /\ HasClaim(ch, from) /\ HasClaim(ch, to)
                 /\ to \notin {e.to : e \in out}
                 /\ Cardinality(out) < MaxAssocOut /\ Cardinality(in) < MaxAssocIn
                 /\ Cardinality({e \in in : e.author = who}) < MaxAssocInPerAuthor
                 /\ (bond > 0 => Spendable(ch, who) >= bond),
             [Spend(ch, who, bond) EXCEPT
                 !.edges = @ \union {[from |-> from, to |-> to, stance |-> stance,
                                      author |-> who, bond |-> bond]}])

Free(e) == [e EXCEPT !.bond = 0]

BondsReturned(bal, judged) ==
    FoldLeft(LAMBDA b, e : Gain(b, e.author, e.bond), bal, SetToSeq(judged))

\* Judge a set of edges that hold a bond: approved, the bond goes back and the
\* edge stays; disapproved, the bond burns and the edge is dropped.
Approved(ch, judged) ==
    [ch EXCEPT !.edges = (@ \ judged) \union {Free(e) : e \in judged},
               !.bal = BondsReturned(@, judged)]
Disapproved(ch, judged) == [ch EXCEPT !.edges = @ \ judged]

Edge(ch, from, to)   == {e \in ch.edges : e.from = from /\ e.to = to /\ e.bond > 0}
Pending(ch, cid)     == {e \in ch.edges : cid \in {e.from, e.to} /\ e.bond > 0}

JudgeAssociation(ch, who, from, to, keep) ==
    LET judged == Edge(ch, from, to)
    IN  Land(ch, IsMod(ch, who) /\ judged # {},
             IF keep THEN Approved(ch, judged) ELSE Disapproved(ch, judged))

JudgeAllAssociations(ch, who, cid, keep) ==
    LET judged == Pending(ch, cid)
    IN  Land(ch, IsMod(ch, who) /\ judged # {},
             IF keep THEN Approved(ch, judged) ELSE Disapproved(ch, judged))

SupersedeClaim(ch, who, from, to) ==
    Land(ch, from # to /\ HasClaim(ch, from) /\ HasClaim(ch, to)
             /\ (ch.claims[from].author = who \/ IsMod(ch, who))
             /\ ch.claims[to].closed
             /\ ch.claims[from].opened >= ch.claims[to].opened + DeadClaimSecs
             /\ from \notin {e[1] : e \in ch.sup},
         [ch EXCEPT !.sup = @ \union {<<from, to>>}])

(***************************************************************************)
(* Boards: a pass or standing to speak, standing to upvote.                *)
(***************************************************************************)
BoardPriced(ch) == ch.minted > 0 /\ BucketNow(ch) > ch.since
PassPrice(ch)   == Larger(1, Supply(ch) \div 10000 + 1)
BoardOpen(c)    == c.verdict < 0 /\ ~c.closed
HasRow(c, row)  == row \in 1..Len(c.board)

BuyCommentPass(ch, who) ==
    Land(ch, BoardPriced(ch) /\ who \notin ch.passes /\ Spendable(ch, who) >= PassPrice(ch),
         [Spend(ch, who, PassPrice(ch)) EXCEPT !.passes = @ \union {who}])

PostComment(ch, who, cid, parent) ==
    LET c == ch.claims[cid]
    IN  Land(ch, HasClaim(ch, cid) /\ BoardOpen(c) /\ who \in ch.passes
                 /\ (parent = 0 \/ (HasRow(c, parent) /\ c.board[parent].parent = 0)),
             [ch EXCEPT !.claims[cid].board =
                 Append(@, [author |-> who, parent |-> parent, ups |-> {},
                            withdrawn |-> FALSE, hidden |-> FALSE])])

UpvoteComment(ch, who, cid, row) ==
    LET c == ch.claims[cid]
        r == c.board[row]
    IN  Land(ch, HasClaim(ch, cid) /\ BoardOpen(c) /\ HasRow(c, row) /\ r.parent = 0
                 /\ r.author # who /\ who \notin r.ups /\ who \in ch.standing,
             [ch EXCEPT !.claims[cid].board[row].ups = @ \union {who}])

HideOwnComment(ch, who, cid, row) ==
    Land(ch, HasClaim(ch, cid) /\ HasRow(ch.claims[cid], row)
             /\ ch.claims[cid].board[row].author = who,
         [ch EXCEPT !.claims[cid].board[row].withdrawn = TRUE])

HideBoardRow(ch, who, cid, row) ==
    Land(ch, IsMod(ch, who) /\ HasClaim(ch, cid) /\ HasRow(ch.claims[cid], row)
             /\ ~ch.claims[cid].board[row].hidden,
         [ch EXCEPT !.claims[cid].board[row].hidden = TRUE])

(***************************************************************************)
(* One transaction.  A caller who cannot pay the gas and the coins it      *)
(* sends does not reach the realm.                                         *)
(***************************************************************************)
Dispatch(ch, who, func, a, send) ==
    CASE func \in {"EnableTestClock", "EnableTestClockAt"} ->
                EnableTestClockAt(ch, who, IF a = <<>> THEN GenesisTime ELSE a[1])
      [] func = "AdvanceTestClock"     -> AdvanceTestClock(ch, who, a[1])
      [] func = "AdvanceTestHeight"    -> AdvanceTestHeight(ch, who, a[1])
      [] func = "SealTestClock"        -> SealTestClock(ch, who)
      [] func = "SetCourtCreationBurn" -> SetCourtCreationBurn(ch, who, a[1])
      [] func = "StartCourt"           -> StartCourt(ch, who, send)
      [] func = "SetCourtDesc"         -> SetCourtDesc(ch, who, a)
      [] func = "SetSiteDomain"        -> SetSiteDomain(ch, who)
      [] func = "ClaimMetaFranchise"   -> ClaimMetaFranchise(ch, who)
      [] func = "Buy"                  -> Buy(ch, who, send)
      [] func \in {"OpenClaim", "OpenClaimP", "OpenClaimPM"} -> OpenClaim(ch, who, a[1])
      [] func = "OpenClaimIn"          -> OpenClaimIn(ch, who, a[1], a[2])
      [] func = "Stake"                -> Stake(ch, who, a[1], a[2], a[3])
      [] func = "Unstake"              -> Unstake(ch, who, a[1], a[2], a[3])
      [] func = "PostAnswer"           -> PostAnswer(ch, who, a[1], a[2])
      [] func = "SettleUndisputed"     -> SettleUndisputed(ch, a[1])
      [] func = "OpenDispute"          -> OpenDispute(ch, who, a[1])
      [] func = "VoteDispute"          -> VoteDispute(ch, who, a[1], a[2])
      [] func = "ResolveDispute"       -> ResolveDispute(ch, a[1])
      [] func = "CloseDeadClaim"       -> CloseDeadClaim(ch, a[1])
      [] func = "OpenRewards"          -> OpenRewards(ch, who, a[1])
      [] func = "WithdrawBonus"        -> WithdrawBonus(ch, who, a[1], a[2])
      [] func = "CreateFolder"         -> CreateFolderIn(ch, who, 0, a[1])
      [] func = "CreateFolderIn"       -> CreateFolderIn(ch, who, a[1], a[2])
      [] func = "MoveFolder"           -> MoveFolder(ch, who, a[1], a[2])
      [] func = "AddToFolder"          -> AddToFolder(ch, who, a[1], a[2])
      [] func = "SetFolderImage"       -> SetFolderImage(ch, who, a[1])
      [] func = "New"                  -> New(ch, a[1])
      [] func = "HideItem"             -> HideItem(ch, who, a[1])
      [] func = "SetCourtAssociationBond"   -> SetCourtAssociationBond(ch, who, a[1])
      [] func = "AddAssociation"            -> AddAssociation(ch, who, a[1], a[2], a[3])
      [] func = "ApproveAssociation"        -> JudgeAssociation(ch, who, a[1], a[2], TRUE)
      [] func = "DisapproveAssociation"     -> JudgeAssociation(ch, who, a[1], a[2], FALSE)
      [] func = "ApproveAllAssociations"    -> JudgeAllAssociations(ch, who, a[1], TRUE)
      [] func = "DisapproveAllAssociations" -> JudgeAllAssociations(ch, who, a[1], FALSE)
      [] func = "SupersedeClaim"       -> SupersedeClaim(ch, who, a[1], a[2])
      [] func = "BuyCommentPass"       -> BuyCommentPass(ch, who)
      [] func = "PostComment"          -> PostComment(ch, who, a[1], a[2])
      [] func = "UpvoteComment"        -> UpvoteComment(ch, who, a[1], a[2])
      [] func = "HideOwnComment"       -> HideOwnComment(ch, who, a[1], a[2])
      [] func = "HideBoardRow"         -> HideBoardRow(ch, who, a[1], a[2])

\* The entrypoints above.
Entrypoints ==
    {"EnableTestClock", "EnableTestClockAt", "AdvanceTestClock", "AdvanceTestHeight",
     "SealTestClock", "SetCourtCreationBurn", "StartCourt", "SetCourtDesc", "SetSiteDomain",
     "ClaimMetaFranchise", "Buy", "OpenClaim", "OpenClaimP", "OpenClaimPM", "OpenClaimIn",
     "Stake", "Unstake", "PostAnswer", "SettleUndisputed", "OpenDispute", "VoteDispute",
     "ResolveDispute", "CloseDeadClaim", "OpenRewards", "WithdrawBonus", "CreateFolder",
     "CreateFolderIn", "MoveFolder", "AddToFolder", "SetFolderImage", "New", "HideItem",
     "SetCourtAssociationBond", "AddAssociation", "ApproveAssociation", "DisapproveAssociation",
     "ApproveAllAssociations", "DisapproveAllAssociations", "SupersedeClaim", "BuyCommentPass",
     "PostComment", "UpvoteComment", "HideOwnComment", "HideBoardRow"}

Submit(ch, who, func, a, send, fee) ==
    IF At(ch.gnot, who) < fee + send
    THEN [ok |-> FALSE, chain |-> ch]
    ELSE LET r == Dispatch(ch, who, func, a, send)
         IN  [ok    |-> r.ok,
              chain |-> [r.chain EXCEPT !.gnot = Gain(@, who, -(fee + (IF r.ok THEN send ELSE 0))),
                                        !.burned = @ + (IF r.ok THEN send ELSE 0)]]

(***************************************************************************)
(* The reads the stories assert on.                                        *)
(***************************************************************************)
StatusOf(c) ==
    CASE c.closed       -> "closed"
      [] c.verdict = YES -> "settled YES"
      [] c.verdict = NO  -> "settled NO"
      [] c.disputer # "" -> "disputed"
      [] c.answer >= 0 /\ c.verdict < 0 -> "answered"
      [] OTHER -> "open"

Links(ch, cid) ==
    [out |-> {<<e.to, e.stance>> : e \in {x \in ch.edges : x.from = cid}},
     in  |-> {<<e.from, e.stance>> : e \in {x \in ch.edges : x.to = cid}}]

\* Which of the two parties has a row on the board.
Parties(c) ==
    LET spoke == {c.board[r].author : r \in DOMAIN c.board}
    IN  (IF c.author \in spoke THEN {"author"} ELSE {})
        \union (IF c.answerer \in spoke THEN {"answerer"} ELSE {})

Tombstone(row) == row.withdrawn \/ row.hidden

Read(ch, func, a) ==
    CASE func = "TestClockActive"     -> ch.armed
      [] func = "TestClockFabricated" -> ch.ever
      [] func = "TestClockSkew"       -> ch.skew
      [] func = "TestHeightPeakSkew"  -> ch.hpeak
      [] func = "CoinSupply"          -> ch.minted
      [] func = "ClaimCount"          -> Len(ch.claims)
      [] func = "ClaimClosed"         -> ch.claims[a[1]].closed
      [] func = "HasAnswer"           -> ch.claims[a[1]].answer >= 0
      [] func = "AnswerVerdict"       -> ch.claims[a[1]].answer
      [] func = "DisputeOpen"         -> ch.claims[a[1]].disputer # ""
      [] func = "Settled"             -> ch.claims[a[1]].verdict >= 0
      [] func = "Verdict"             -> ch.claims[a[1]].verdict
      [] func = "ClaimStatus"         -> StatusOf(ch.claims[a[1]])
      [] func = "StakePools"          -> Total(ch.claims[a[1]])
      [] func = "HiddenFromListing"   -> ch.claims[a[1]].hidden
      [] func = "RewardsOpened"       -> ch.claims[a[1]].rewards
      [] func = "FolderCount"         -> Len(ch.folders)
      [] func = "FolderItems"         -> {f[2] : f \in {g \in ch.filed : g[1] = a[1]}}
      [] func = "FolderTree"          -> [f \in DOMAIN ch.folders |->
                                             [parent |-> ch.folders[f].parent,
                                              image  |-> ch.folders[f].image,
                                              born   |-> ch.folders[f].born]]
      [] func = "FolderName"          -> ch.folders[a[1]].name
      [] func = "SetBornOf"           -> ch.folders[a[1]].born
      [] func = "ClaimSet"            -> ch.claims[a[1]].set
      [] func = "FolderImage"         -> ch.folders[a[1]].image
      [] func = "CourtDesc"           -> ch.desc
      [] func = "SiteDomain"          -> ch.site
      [] func = "AssociationBond"     -> ch.assocBond
      [] func = "AssociationBondDefault" -> CC
      [] func = "ClaimAssociations"   -> Links(ch, a[1])
      [] func = "SupersededBy"        -> {e[1] : e \in {x \in ch.sup : x[2] = a[1]}}
      [] func = "Standing"            -> a[1] \in ch.standing
      [] func = "HoldsPass"           -> a[1] \in ch.passes
      [] func = "BoardSize"           -> Len(ch.claims[a[1]].board)
      [] func = "BoardOpen"           -> BoardOpen(ch.claims[a[1]])
      [] func = "CommentScore"        -> Cardinality(ch.claims[a[1]].board[a[2]].ups)
      [] func = "BoardPartyRows"      -> Parties(ch.claims[a[1]])
      [] func = "BoardNewest"         -> \E r \in DOMAIN ch.claims[a[1]].board :
                                            Tombstone(ch.claims[a[1]].board[r])
      [] func = "IsSetClaim"          -> ch.claims[a[1]].heading # ""
      [] func \in {"CourtCreationBurn", "AdminParams"} -> ch.creationBurn
=============================================================================
