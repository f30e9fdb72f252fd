------------------------------ MODULE Governor ------------------------------
(***************************************************************************)
(* realm/p/governor: questions are put about adopted kinds, voted on with  *)
(* weight sealed before the question was asked, decided as soon as no      *)
(* further vote could change the answer, held through a delay, and run     *)
(* exactly once.  The number of questions that are open is bounded, and a  *)
(* finished one gives its slot back only when a transaction says so.       *)
(*                                                                         *)
(* A transaction that panics never happened: its action is not enabled,    *)
(* except for one that panics while a kind is running, which the model     *)
(* takes back with Abort.  A kind's own code is foreign, and may call back *)
(* into the governor while it runs.  Block heights kept beside the wall    *)
(* clock as a fallback for records older than it are left out; so are      *)
(* titles, reasons and events.                                             *)
(***************************************************************************)
EXTENDS Tally, Sequences, FiniteSetsExt, Functions

CONSTANTS
  Addr,            \* who may propose and vote
  Names,           \* names of kinds a realm may offer
  Installed,       \* reserved kinds the consuming realm installs and runs
  Adopted,         \* names the consuming realm adopts at the start, with no vote
  Questions,       \* the questions anybody thinks of asking
  Rank,            \* Rank[q]: where q's digest sorts among all digests
  Worlds,          \* sealed electorates an epoch may turn out to have had
  RulesChoices,    \* rules an offer may come with
  InitialRules,    \* rules of the kinds that are live at the start
  Floors,          \* quorum floors a consumer may ask for, 0 for none
  Caps,            \* ceilings a consumer may put on a vote, 0 for none
  SecsPerBlock,    \* seconds in a block: 5
  MaxWeighable,    \* the largest supply a tally can weigh
  MaxLive,         \* slots for open questions: 64
  MaxOpen,         \* slots kinds that are not reserved may fill: 56
  SweepScan,       \* slots one sweep window looks at: 8
  MaxProposals, MaxEpoch, LastOpening  \* bounds on a behaviour

ASSUME GovernorAssumption ==
  /\ SecsPerBlock \in Nat
  /\ MaxLive \in Nat /\ MaxOpen \in Nat /\ MaxOpen <= MaxLive
  /\ SweepScan \in Nat \ {0} /\ MaxLive % SweepScan = 0
  /\ MaxProposals \in Nat
  /\ Floors \subseteq Nat /\ Caps \subseteq Nat
  /\ Adopted \subseteq Names
  /\ IsFiniteSet(Addr)

VARIABLES
  now,         \* wall clock, in seconds
  sealed,      \* sealed[at]: votes, total and engaged weight of epoch at
  gov,         \* the Governor: kinds, proposals, openIdx, sweepFrom
  executing,   \* the proposal whose kinds are running, 0 when none is
  todo,        \* what is left to run of it
  undo         \* the Governor as that transaction found it

vars == <<now, sealed, gov, executing, todo, undo>>

Builtins == {"govern:adopt", "govern:retire", "govern:rules", "govern:batch"}
Reserved(kind) == kind \in Builtins \cup Installed

(* The kinds whose code is not the governor's own.                         *)
Foreign(kind) == kind \notin Builtins

RulesFields == {"quorum", "threshold", "voting", "delay", "grace", "propose"}
RulesRecords == [RulesFields -> Nat]

SaneRules(r) == /\ r["quorum"] <= Bps /\ r["threshold"] <= Bps /\ r["propose"] <= Bps
                /\ r["voting"] > 0
                /\ r["grace"] > 0

(* A question: a kind and its payload.  on is the name a built-in is       *)
(* about, or the payload of any other kind; set holds the fields a rules   *)
(* change sets; members holds what a batch does.                           *)
IsQuestion(q) == /\ q = [kind |-> q.kind, on |-> q.on, set |-> q.set, members |-> q.members]
                 /\ DOMAIN q.set \subseteq RulesFields
                 /\ \A f \in DOMAIN q.set : q.set[f] \in Nat

NoUndo == [kinds |-> <<>>, proposals |-> <<>>, openIdx |-> <<>>, sweepFrom |-> 0]

(* What an electorate must keep (electorate.gno:32-69), and what a parsed  *)
(* payload is.                                                             *)
ASSUME ElectorateAssumption ==
  \A w \in Worlds : /\ w.votes \in [Addr -> Nat] /\ w.total \in Nat /\ w.engaged \in Nat
                    /\ SumFunctionOnSet(w.votes, Addr) <= w.total

ASSUME QuestionsAssumption ==
  /\ \A q \in Questions : /\ IsQuestion(q)
                          /\ q.members \in Seq(Range(q.members))
                          /\ \A m \in Range(q.members) : IsQuestion(m)
  /\ InitialRules \in RulesRecords /\ SaneRules(InitialRules)
  /\ RulesChoices \subseteq RulesRecords
  /\ Rank \in [Questions -> Nat]

Epoch == Len(sealed) + 1
Size(b) == Cardinality(DOMAIN b.openIdx)
IsLive(b, kind) == kind \in DOMAIN b.kinds /\ b.kinds[kind].live

-----------------------------------------------------------------------------
(* Deciding.  A proposal with no slot is finished.                         *)
Open(p) == p.state \in {"active", "succeeded"}
VotingClosed(p) == now >= p.closesTime
Expired(p) == now > p.readyTime + p.rules["grace"] * SecsPerBlock

(* Mutant: a decision waits to be run for ever.                            *)
WouldBe_NoExpiry(p) ==
  IF p.state # "active" THEN p.state
  ELSE IF Won(p) \/ (~Lost(p) /\ VotingClosed(p) /\ Carries(p, p.yes, p.no))
       THEN "succeeded"
       ELSE IF Lost(p) \/ VotingClosed(p) THEN "defeated" ELSE "active"

WouldBe(p) ==
  CASE p.state = "active" ->
         IF Won(p) \/ (~Lost(p) /\ VotingClosed(p) /\ Carries(p, p.yes, p.no))
         THEN "succeeded"
         ELSE IF Lost(p) \/ VotingClosed(p) THEN "defeated" ELSE "active"
    [] p.state = "succeeded" -> IF Expired(p) THEN "expired" ELSE "succeeded"
    [] OTHER -> p.state

(* Proposal p with its outcome written down; the delay starts only here.   *)
(* Mutant: it starts when the vote closes.                                 *)
Settled_FromClose(p) ==
  IF p.state = "active" /\ WouldBe(p) = "succeeded"
  THEN [p EXCEPT !.state = "succeeded",
                 !.readyTime = p.closesTime + p.rules["delay"] * SecsPerBlock]
  ELSE [p EXCEPT !.state = WouldBe(p)]

Settled(p) ==
  IF p.state = "active" /\ WouldBe(p) = "succeeded"
  THEN [p EXCEPT !.state = "succeeded",
                 !.readyTime = now + p.rules["delay"] * SecsPerBlock]
  ELSE [p EXCEPT !.state = WouldBe(p)]

Releases(p) == Open(p) /\ ~Open(Settled(p))

(* A tree with key k set to v.                                             *)
With(tree, k, v) == [x \in {k} \cup DOMAIN tree |-> IF x = k THEN v ELSE tree[x]]

(* The slot that is given back is found by what the proposal asks.         *)
Without(idx, asked) == Restrict(idx, DOMAIN idx \ asked)

SettleAll(b, ids) ==
  [b EXCEPT !.proposals = [i \in DOMAIN @ |-> IF i \in ids THEN Settled(@[i]) ELSE @[i]],
            !.openIdx = Without(@, {b.proposals[i].asks : i \in {j \in ids : Releases(b.proposals[j])}})]

Settle(b, id) == SettleAll(b, {id})

(* Mutant: a question that is finished keeps its slot.                     *)
SetState_KeepsSlot(b, id, st) ==
  [b EXCEPT !.proposals[id].state = st]

(* setState, to a state that is not "succeeded".                           *)
SetState(b, id, st) ==
  [b EXCEPT !.proposals[id].state = st,
            !.openIdx = Without(@, {b.proposals[id].asks})]

-----------------------------------------------------------------------------
(* Reclaiming slots.  Windows of SweepScan slots are looked at in digest   *)
(* order from the cursor on, until one of them frees a slot or the ring    *)
(* has been gone round.                                                    *)
Window(b, from) ==
  LET ahead == {q \in DOMAIN b.openIdx : Rank[q] >= from}
  IN  {q \in ahead : Cardinality({r \in ahead : Rank[r] < Rank[q]}) < SweepScan}

(* A short window means the end was reached.                               *)
Resume(b, from) ==
  LET w == Window(b, from)
  IN  IF Cardinality(w) < SweepScan THEN 0
      ELSE 1 + CHOOSE n \in {Rank[q] : q \in w} : \A q \in w : Rank[q] <= n

Frees(b, qs) == \E q \in qs : Releases(b.proposals[b.openIdx[q]])

(* Mutant: one window too few to go round.                                 *)
Windows_Short == MaxLive \div SweepScan

Windows == MaxLive \div SweepScan + 1

(* The cursor and the slots looked at, after w windows.                    *)
Swept(b) ==
  LET scan[w \in 0 .. Windows] ==
        IF w = 0 THEN [from |-> b.sweepFrom, seen |-> {}]
        ELSE LET before == scan[w - 1]
             IN  IF Frees(b, before.seen) THEN before
                 ELSE [from |-> Resume(b, before.from),
                       seen |-> before.seen \cup Window(b, before.from)]
  IN  scan[Windows]

Sweep(b) ==
  LET s == Swept(b)
  IN  [SettleAll(b, {b.openIdx[q] : q \in s.seen \cap DOMAIN b.openIdx})
         EXCEPT !.sweepFrom = s.from]

-----------------------------------------------------------------------------
(* What a payload must be for its kind, in the world as it is; valid is    *)
(* what a kind that is not the governor's own says of it.                  *)
Change(r, set) == [f \in DOMAIN r |-> IF f \in DOMAIN set THEN set[f] ELSE r[f]]

CheckRules(b, q) == IsLive(b, q.on) /\ SaneRules(Change(b.kinds[q.on].rules, q.set))

CheckOne(b, q, valid) ==
  CASE q.kind = "govern:adopt"  -> q.on \in DOMAIN b.kinds /\ ~b.kinds[q.on].live
    [] q.kind = "govern:retire" -> IsLive(b, q.on) /\ ~Reserved(q.on)
    [] q.kind = "govern:rules"  -> CheckRules(b, q)
    [] Foreign(q.kind)          -> valid
    [] OTHER                    -> FALSE

CheckKind(b, q, valid) ==
  IF q.kind = "govern:batch"
  THEN \A i \in DOMAIN q.members :
         IsLive(b, q.members[i].kind) /\ CheckOne(b, q.members[i], valid)
  ELSE CheckOne(b, q, valid)

(* What running a built-in kind does to the kinds.                         *)
RunBuiltin(kinds, q) ==
  CASE q.kind = "govern:adopt"  -> [kinds EXCEPT ![q.on].live = TRUE]
    [] q.kind = "govern:retire" -> [kinds EXCEPT ![q.on].live = FALSE]
    [] q.kind = "govern:rules"  -> [kinds EXCEPT ![q.on].rules = Change(@, q.set)]

-----------------------------------------------------------------------------
Init ==
  /\ now = 0
  /\ sealed = <<>>
  /\ gov = [kinds     |-> [k \in Builtins \cup Installed \cup Adopted |->
                            [rules |-> InitialRules, live |-> TRUE]],
            proposals |-> <<>>, openIdx |-> <<>>, sweepFrom |-> 0]
  /\ executing = 0 /\ todo = <<>> /\ undo = NoUndo

ForeignRunning == /\ executing # 0 /\ todo # <<>>
                  /\ Foreign(Head(todo).kind) /\ IsLive(gov, Head(todo).kind)
MayCall == executing = 0 \/ ForeignRunning

(* The clock is followed until nothing open has a deadline ahead of it.    *)
Deadline(p) == IF p.state = "active" THEN p.closesTime
               ELSE p.readyTime + p.rules["grace"] * SecsPerBlock
Ids == DOMAIN gov.proposals

Tick == /\ executing = 0
        /\ \/ now < LastOpening
           \/ \E i \in Ids : Open(gov.proposals[i]) /\ now <= Deadline(gov.proposals[i])
        /\ now' = now + 1
        /\ UNCHANGED <<sealed, gov, executing, todo, undo>>

(* An epoch ends; what everybody could vote in it is settled for good.     *)
Seal(world) == /\ executing = 0 /\ Epoch < MaxEpoch
               /\ sealed' = Append(sealed, world)
               /\ UNCHANGED <<now, gov, executing, todo, undo>>

(* A call that changes nothing but the governor itself.                    *)
Becomes(b) == gov' = b /\ UNCHANGED <<now, sealed, executing, todo, undo>>

(* Mutant: a name may be offered again.                                    *)
Offer_Again(name, rules) ==
  /\ MayCall /\ SaneRules(rules)
  /\ Becomes([gov EXCEPT !.kinds = With(@, name, [rules |-> rules, live |-> FALSE])])

Offer(name, rules) ==
  /\ MayCall
  /\ SaneRules(rules)
  /\ name \notin DOMAIN gov.kinds
  /\ Becomes([gov EXCEPT !.kinds = With(@, name, [rules |-> rules, live |-> FALSE])])

Slots(kind) == IF Reserved(kind) THEN MaxLive ELSE MaxOpen

(* The last epoch that is over.                                            *)
WeighedAt == Epoch - 1

NewProposal(who, q, floor) ==
  LET world == sealed[Epoch - 1]
      rules == gov.kinds[q.kind].rules
  IN  [asks |-> q, proposer |-> who, rules |-> rules, epoch |-> WeighedAt,
       total |-> world.total,
       engaged |-> IF world.engaged > world.total THEN world.total ELSE world.engaged,
       quorumFloor |-> floor,
       closesTime |-> now + rules["voting"] * SecsPerBlock, readyTime |-> 0,
       state |-> "active", yes |-> 0, no |-> 0, abstain |-> 0, voted |-> {}]

MayPropose(who, kind) ==
  LET world == sealed[Epoch - 1]
  IN  /\ Epoch > 1
      /\ world.total > 0 /\ world.total <= MaxWeighable
      /\ world.engaged > 0
      /\ world.votes[who] * Bps >= world.total * gov.kinds[kind].rules["propose"]

(* A full board is swept first, and a finished question that was not yet   *)
(* written down does not stand in the way of the same question.            *)
Propose(who, q, floor) ==
  /\ executing = 0
  /\ Len(gov.proposals) < MaxProposals /\ now <= LastOpening
  /\ IsLive(gov, q.kind) /\ CheckKind(gov, q, TRUE)
  /\ MayPropose(who, q.kind)
  /\ LET swept == IF Size(gov) >= Slots(q.kind) THEN Sweep(gov) ELSE gov
         b == IF q \in DOMAIN swept.openIdx THEN Settle(swept, swept.openIdx[q]) ELSE swept
     IN  /\ Size(swept) < Slots(q.kind)
         /\ q \notin DOMAIN b.openIdx
         /\ Becomes([b EXCEPT !.proposals = Append(@, NewProposal(who, q, floor)),
                              !.openIdx = With(@, q, Len(b.proposals) + 1)])

(* Mutant: a consumer's figure is what is tallied.                         *)
Weight_Supplied(p, who, cap) ==
  IF cap > 0 THEN cap ELSE sealed[p.epoch].votes[who]

(* A ceiling may only lower what was sealed.                               *)
Weight(p, who, cap) ==
  LET w == sealed[p.epoch].votes[who]
  IN  IF cap > 0 /\ cap < w THEN cap ELSE w

HasVoted(p, who) == \E v \in p.voted : v.voter = who

WithBallot(p, who, choice, w) ==
  [[p EXCEPT ![choice] = @ + w]
     EXCEPT !.voted = @ \cup {[voter |-> who, choice |-> choice, weight |-> w]}]

Vote(who, id, choice, cap) ==
  /\ executing = 0
  /\ LET b == Settle(gov, id)
         p == b.proposals[id]
         w == Weight(p, who, cap)
     IN  /\ p.state = "active"
         /\ ~HasVoted(p, who)
         /\ sealed[p.epoch].votes[who] > 0
         /\ Becomes(Settle([b EXCEPT !.proposals[id] = WithBallot(p, who, choice, w)], id))

SettleOne(id) == MayCall /\ Becomes(Settle(gov, id))
SweepBoard == MayCall /\ Becomes(Sweep(gov))

(* Mutant: a decision may still be canceled until it is run.               *)
Cancel_Late(who, id) ==
  /\ MayCall
  /\ who = gov.proposals[id].proposer
  /\ LET b == Settle(gov, id)
     IN  /\ Open(b.proposals[id])
         /\ Becomes(SetState(b, id, "canceled"))

Cancel(who, id) ==
  /\ MayCall
  /\ who = gov.proposals[id].proposer
  /\ LET b == Settle(gov, id)
     IN  /\ b.proposals[id].state = "active"
         /\ Becomes(SetState(b, id, "canceled"))

(* Mutant: a roll may be released before the kind that reads it has run.   *)
ReleaseRoll_Early(id) ==
  /\ MayCall
  /\ LET b == Settle(gov, id)
     IN  /\ b.proposals[id].state # "active"
         /\ Becomes([b EXCEPT !.proposals[id].voted = {}])

ReleaseRoll(id) ==
  /\ MayCall
  /\ LET b == Settle(gov, id)
     IN  /\ ~Open(b.proposals[id])
         /\ Becomes([b EXCEPT !.proposals[id].voted = {}])

-----------------------------------------------------------------------------
(* Running.  Execute starts the transaction, the steps after it run the    *)
(* question's members, Finish ends it, Abort takes it back.                *)
Members(q) == IF q.kind = "govern:batch" THEN q.members ELSE <<q>>

Runnable(b, q, valid) == IsLive(b, q.kind) /\ CheckKind(b, q, valid)

Execute(id, valid) ==
  /\ executing = 0
  /\ LET b == Settle(gov, id)
         p == b.proposals[id]
     IN  /\ p.state = "succeeded"
         /\ now >= p.readyTime
         /\ IF Runnable(b, p.asks, valid)
            THEN /\ gov' = b /\ undo' = gov
                 /\ executing' = id /\ todo' = Members(p.asks)
                 /\ UNCHANGED <<now, sealed>>
            ELSE Becomes(SetState(b, id, "failed"))

EndRun(b) == /\ gov' = b
             /\ executing' = 0 /\ todo' = <<>> /\ undo' = NoUndo
             /\ UNCHANGED <<now, sealed>>

InBatch == gov.proposals[executing].asks.kind = "govern:batch"

RunMember ==
  /\ executing # 0 /\ todo # <<>>
  /\ ~Foreign(Head(todo).kind) /\ IsLive(gov, Head(todo).kind)
  /\ gov' = [gov EXCEPT !.kinds = RunBuiltin(@, Head(todo))]
  /\ todo' = Tail(todo)
  /\ UNCHANGED <<now, sealed, executing, undo>>

ForeignReturns == /\ ForeignRunning
                  /\ todo' = Tail(todo)
                  /\ UNCHANGED <<now, sealed, gov, executing, undo>>

(* A kind run on its own that returns an error has failed for good.        *)
ForeignRefuses == /\ ForeignRunning /\ ~InBatch
                  /\ EndRun(SetState(gov, executing, "failed"))

(* Foreign code panics, or a batch cannot do all of its members.           *)
Abort == /\ executing # 0 /\ todo # <<>>
         /\ ForeignRunning \/ ~IsLive(gov, Head(todo).kind)
         /\ EndRun(undo)

Finish == /\ executing # 0 /\ todo = <<>>
          /\ EndRun(SetState(gov, executing, "executed"))

Running == RunMember \/ ForeignReturns \/ ForeignRefuses \/ Abort \/ Finish

Ballots == {"yes", "no", "abstain"}

Next ==
  \/ Tick
  \/ \E w \in Worlds : Seal(w)
  \/ \E n \in Names, r \in RulesChoices : Offer(n, r)
  \/ \E a \in Addr, q \in Questions, f \in Floors : Propose(a, q, f)
  \/ \E a \in Addr, id \in Ids, c \in Ballots, cap \in Caps : Vote(a, id, c, cap)
  \/ \E id \in Ids : SettleOne(id) \/ ReleaseRoll(id)
  \/ \E a \in Addr, id \in Ids : Cancel(a, id)
  \/ SweepBoard
  \/ \E id \in Ids, valid \in BOOLEAN : Execute(id, valid)
  \/ Running

Spec == Init /\ [][Next]_vars

(* Blocks go on being made whatever transactions do, a transaction ends,   *)
(* and somebody settles each question again and again: anybody may.        *)
Fairness == /\ SF_vars(Tick)
            /\ WF_vars(Running)
            /\ \A id \in 1 .. MaxProposals : SF_vars(id \in Ids /\ SettleOne(id))

FairSpec == Spec /\ Fairness

-----------------------------------------------------------------------------
(* What stays if the transaction under way is taken back.                  *)
Committed == IF executing = 0 THEN gov ELSE undo

(* A question holds a slot exactly as long as it is active, or decided and *)
(* not run; slots are given back by what was asked (governor.gno:2245), so *)
(* if a finished question could give back twice, or two open ones ask the  *)
(* same, somebody else's slot would go.                                    *)
SlotsMatchQuestions ==
  /\ \A q \in DOMAIN gov.openIdx :
       LET i == gov.openIdx[q]
       IN  i \in Ids /\ gov.proposals[i].asks = q /\ Open(gov.proposals[i])
  /\ \A i \in Ids : Open(gov.proposals[i]) =>
       LET q == gov.proposals[i].asks
       IN  q \in DOMAIN gov.openIdx /\ gov.openIdx[q] = i

(* What is tallied is what the roll says, nobody counts for more than was  *)
(* sealed for them, and the cast never exceeds the snapshot, so that what  *)
(* is left to cast is never negative (governor.gno:860-895).               *)
Cast(p, c) == MapThenSumSet(LAMBDA v : v.weight, {v \in p.voted : v.choice = c})

TallyWithinSnapshot ==
  \A i \in Ids : LET p == gov.proposals[i] IN
    /\ Rest(p) >= 0
    /\ Open(p) => /\ p.yes = Cast(p, "yes") /\ p.no = Cast(p, "no")
                  /\ p.abstain = Cast(p, "abstain")
                  /\ \A v \in p.voted : v.weight \in 1 .. sealed[p.epoch].votes[v.voter]

(* A sweep frees a slot whenever there is one to free, wherever its cursor *)
(* stands, so a full board refuses a question only for lack of finished    *)
(* ones (governor.gno:258-273, 1367-1380).                                 *)
SweepReclaims == Frees(gov, DOMAIN gov.openIdx) => Size(Sweep(gov)) < Size(gov)

-----------------------------------------------------------------------------
(* A change of proposal i made by a transaction that went through.         *)
Before(i) == Committed.proposals[i]
After(i) == Committed'.proposals[i]

(* Closing a vote early changes no outcome: whatever could still be cast,  *)
(* the deadline would have decided the same (governor.gno:1122-1160).      *)
EarlyDecisionsStand ==
  [][\A i \in DOMAIN Committed.proposals :
       /\ Before(i).state = "active"
       /\ After(i).state \in {"succeeded", "executed", "failed", "defeated"}
       /\ now' < After(i).closesTime
       => EveryCompletion(After(i), After(i).state # "defeated")]_vars

(* A question goes only forward, a decision is final, and after it neither *)
(* the tally nor anybody's ballot changes; the roll may only be dropped as *)
(* a whole, and not before the question is finished.                       *)
Onward(s, t) ==
  \/ s = t
  \/ s = "active"
  \/ s = "succeeded" /\ t \in {"executed", "failed", "expired"}

DecisionsAreFinal ==
  [][\A i \in DOMAIN Committed.proposals :
       /\ Onward(Before(i).state, After(i).state)
       /\ Before(i).state # "active" =>
            /\ <<After(i).yes, After(i).no, After(i).abstain>> =
               <<Before(i).yes, Before(i).no, Before(i).abstain>>
            /\ After(i).voted = Before(i).voted \/ ~Open(After(i))]_vars

(* Which kinds are live, and on what terms, changes only by a question     *)
(* about it that is run to its end in the same transaction.                *)
PowersChangeByVote ==
  [][\A k \in DOMAIN Committed.kinds : Committed'.kinds[k] # Committed.kinds[k] =>
       \E i \in DOMAIN Committed.proposals :
         /\ After(i).state = "executed" /\ Before(i).state # "executed"
         /\ \E m \in Range(Members(After(i).asks)) : m.on = k /\ ~Foreign(m.kind)]_vars

(* From the last moment a question was open to votes to the moment it may  *)
(* run there is always its whole delay (governor.gno:1194-1203).           *)
ReactionTime ==
  [][\A i \in DOMAIN Committed.proposals :
       /\ Before(i).state = "active" /\ After(i).state \in {"succeeded", "executed"} =>
            After(i).readyTime >= now + After(i).rules["delay"] * SecsPerBlock
       /\ Before(i).state # "executed" /\ After(i).state = "executed" =>
            now >= After(i).readyTime]_vars

(* Every question gives its slot back in the end: it is decided by its     *)
(* deadline, and a decision nobody runs expires.                           *)
SlotsComeBack ==
  \A i \in 1 .. MaxProposals :
    (i \in Ids /\ Open(gov.proposals[i])) ~> (i \in Ids /\ ~Open(gov.proposals[i]))
=============================================================================
