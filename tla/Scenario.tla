------------------------------ MODULE Scenario ------------------------------
(***************************************************************************)
(* scripts/scenario.py: the builder every demo chain is written with, and  *)
(* the four emitters that turn one built scenario into a test script       *)
(* (txtar), a broadcast plan, a genesis transactions file and the checks   *)
(* that go with it.                                                        *)
(*                                                                         *)
(* A scenario file is a program over the builder.  Here it is a sequence   *)
(* of builder calls <<verb, argument, ...>>, and Apply is what one call    *)
(* does to the object under construction: it appends a step, moves the     *)
(* builder's own account of the clock, or raises, after which the file     *)
(* does not load.  Every story opens one court, so the slug is left out of *)
(* the argument lists; of the texts only the title of a claim that may     *)
(* name a set is kept.                                                     *)
(***************************************************************************)
EXTENDS Integers, Sequences, FiniteSets, SequencesExt

CONSTANTS
    Declared,    \* the realm's exported functions: [name, crossing] records
    Malformed    \* account names outside [a-z][a-z0-9_]*

DEPLOYER == "test1"

MINE_CAP   == 500000
BLOCK_SECS == 5

\* In whole GNOT: the gas fee of one transaction and the premine every key of
\* the keyring is given when nothing overrides it.
GAS_FEE                 == 1
GNODEV_DEFAULT_PREMINE  == 10000000
DEPLOYER_PREMINE_MIN    == GNODEV_DEFAULT_PREMINE

\* Union of what was seen as a read, less what was seen anywhere as a write.
RealmReads ==
    LET reads  == {d.name : d \in {e \in Declared : ~e.crossing}}
        writes == {d.name : d \in {e \in Declared : e.crossing}}
    IN  reads \ writes

(***************************************************************************)
(* A match pattern is compiled by Go for the txtar and by grep -E for the  *)
(* plan: it is the pair of the answers each engine accepts.                *)
(***************************************************************************)
Is(answers) == [go |-> answers, ere |-> answers]
PortablePattern(pat) == pat.go = pat.ere

\* What an argument list may contain that one of the quoting rules refuses.
PLAIN   == "plain"
NEWLINE == "newline"      \* a note's line that would end the comment
QUOTE   == "quote"        \* a quote, a backslash, a float or None: no gno literal
ADDR    == "address"      \* an account name standing for its address
Literal(tok) == tok # QUOTE

Empty == [accounts |-> <<>>, steps |-> <<>>, armed |-> FALSE, ever |-> FALSE,
          advanced |-> 0, height |-> 0, raised |-> FALSE]

Raise(s) == [s EXCEPT !.raised = TRUE]

\* A recorded step: a call or a refusal, an assertion, mined blocks, or a note.
CallStep(kind, who, func, args, send) ==
    [kind |-> kind, who |-> who, func |-> func, args |-> args, send |-> send]

AddStep(s, st) == [s EXCEPT !.steps = Append(@, st)]

Pay(s, who, func, args, send) == AddStep(s, CallStep("call", who, func, args, send))
Call(s, who, func, args)      == Pay(s, who, func, args, 0)

(***************************************************************************)
(* Actors and the clock.                                                   *)
(***************************************************************************)
Account(s, name, gnot) ==
    IF name \in {DEPLOYER, "deployer"} \union Malformed
    THEN Raise(s)
    ELSE [s EXCEPT !.accounts = Append(@, [name |-> name, gnot |-> gnot])]

Armed(s) == [s EXCEPT !.armed = TRUE, !.ever = TRUE]

ArmClock(s, at) ==
    Armed(Call(s, DEPLOYER, "EnableTestClockAt", <<at>>))

Advance(s, seconds) ==
    IF ~s.armed \/ seconds <= 0
    THEN Raise(s)
    ELSE [Call(s, DEPLOYER, "AdvanceTestClock", <<seconds>>)
             EXCEPT !.advanced = @ + seconds]

SealClock(s) == [Call(s, DEPLOYER, "SealTestClock", <<>>) EXCEPT !.armed = FALSE]

AdvanceHeight(s, blocks, withTime) ==
    IF ~s.armed \/ blocks <= 0
    THEN Raise(s)
    ELSE LET moved == [Call(s, DEPLOYER, "AdvanceTestHeight", <<blocks>>)
                          EXCEPT !.height = @ + blocks]
         IN  IF withTime THEN Advance(moved, blocks * BLOCK_SECS) ELSE moved

MineSteps(s) == SelectSeq(s.steps, LAMBDA st : st.kind = "mine")
Mined(s)     == FoldLeft(LAMBDA n, st : n + st.n, 0, MineSteps(s))

Mine(s, blocks, withTime) ==
    IF blocks <= 0 \/ blocks + Mined(s) > MINE_CAP
    THEN Raise(s)
    ELSE LET mining == AddStep(s, [kind |-> "mine", n |-> blocks])
         IN  IF withTime THEN Advance(mining, blocks * BLOCK_SECS) ELSE mining

(***************************************************************************)
(* The escape hatch, and the assertions.                                   *)
(***************************************************************************)
\* Mutant: the builder does not see a clock armed through the escape hatch.
CallAny_Blind(s, who, func, args, send) == Pay(s, who, func, args, send)

CallAny(s, who, func, args, send) ==
    LET told == CASE func \in {"EnableTestClock", "EnableTestClockAt"} -> Armed(s)
                  [] func = "SealTestClock" -> [s EXCEPT !.armed = FALSE]
                  [] OTHER -> s
    IN  Pay(told, who, func, args, send)

Expect(s, func, args, re, final, tok) ==
    IF func \notin RealmReads \/ ~Literal(tok) \/ ~PortablePattern(re)
    THEN Raise(s)
    ELSE AddStep(s, [kind |-> "expect", func |-> func, args |-> args, re |-> re,
                     final |-> final, tok |-> tok])

ExpectRefuse(s, who, func, args) ==
    IF func \in RealmReads
    THEN Raise(s)
    ELSE AddStep(s, CallStep("refuse", who, func, args, 0))

Note(s, tok) ==
    IF tok = NEWLINE THEN Raise(s) ELSE AddStep(s, [kind |-> "note"])

(***************************************************************************)
(* One builder call; what raises stops the file.  claim has three          *)
(* entrypoints: evidence, else a body, else the bare title.                *)
(***************************************************************************)
OpenVerb(body, media) ==
    IF media THEN "OpenClaimPM" ELSE IF body THEN "OpenClaimP" ELSE "OpenClaim"

\* The verbs that broadcast one call of one entrypoint with the same arguments.
Entrypoint ==
    [stake |-> "Stake", unstake |-> "Unstake", answer |-> "PostAnswer",
     settle |-> "SettleUndisputed", dispute |-> "OpenDispute", vote |-> "VoteDispute",
     folder |-> "CreateFolder", folder_add |-> "AddToFolder", hide |-> "HideItem",
     comment_pass |-> "BuyCommentPass", comment |-> "PostComment",
     upvote |-> "UpvoteComment", withdraw_comment |-> "HideOwnComment",
     hide_comment |-> "HideBoardRow"]

\* The builder's methods: a file that calls another name does not load.
Verbs ==
    {"account", "arm_clock", "advance", "seal_clock", "advance_height", "mine", "court", "buy",
     "claim", "call", "expect", "expect_address", "expect_pattern", "expect_refuse", "note",
     "raise"} \union DOMAIN Entrypoint

Apply(s, o) ==
    IF s.raised THEN s ELSE
    CASE o[1] = "account"        -> Account(s, o[2], o[3])
      [] o[1] = "arm_clock"      -> ArmClock(s, o[2])
      [] o[1] = "advance"        -> Advance(s, o[2])
      [] o[1] = "seal_clock"     -> SealClock(s)
      [] o[1] = "advance_height" -> AdvanceHeight(s, o[2], o[3])
      [] o[1] = "mine"           -> Mine(s, o[2], o[3])
      [] o[1] = "court"          -> Call(s, o[2], "StartCourt", <<>>)
      [] o[1] = "buy"            -> Pay(s, o[2], "Buy", <<>>, o[3])
      [] o[1] = "claim"          -> Call(s, o[2], OpenVerb(o[4], o[5]), <<o[3]>>)
      [] o[1] = "call"           -> CallAny(s, o[2], o[3], o[4], o[5])
      [] o[1] = "expect"         -> Expect(s, o[2], o[3], Is(o[4]), o[5], PLAIN)
      [] o[1] = "expect_address" -> Expect(s, o[2], o[3], Is(o[4]), o[5], ADDR)
      [] o[1] = "expect_pattern" -> Expect(s, o[2], o[3], o[4], o[5], o[6])
      [] o[1] = "expect_refuse"  -> ExpectRefuse(s, o[2], o[3], o[4])
      [] o[1] = "note"           -> Note(s, o[2])
      [] o[1] = "raise"          -> Raise(s)
      [] OTHER                   -> Call(s, o[2], Entrypoint[o[1]], Tail(Tail(o)))

(***************************************************************************)
(* The emitters.  Each returns whether it emitted at all and the lines it  *)
(* emitted, a line being the step it came from.                            *)
(***************************************************************************)
Refusal      == [ok |-> FALSE, lines |-> <<>>]
Text(lines)  == [ok |-> TRUE, lines |-> lines]
Seal         == CallStep("call", DEPLOYER, "SealTestClock", <<>>, 0)
Sealing(s)   == IF s.armed THEN <<Seal>> ELSE <<>>

\* One line for every step of these kinds, none for the others.
Of(steps, kinds) ==
    FlattenSeq([i \in DOMAIN steps |-> IF steps[i].kind \in kinds THEN <<steps[i]>> ELSE <<>>])
Keep(s, kinds) == Of(s.steps, kinds)

\* A test asserts and exits: it is never sealed behind its author's back, and
\* it alone carries the refusals.  An account name in a read reaches the chain
\* as it stands, since only the served chains resolve it.
EmitTxtar(s) == Text(Keep(s, {"call", "refuse", "expect", "mine"}))

EmitPlan(s) == Text(Keep(s, {"call", "expect", "mine"}) \o Sealing(s))

\* Mutants: the genesis file leaves the clock armed; it is emitted for a
\* scenario that mines.
EmitTxs_Unsealed(s, names) == Text(Keep(s, {"call"}))

EmitTxs_OverMines(s, names) == Text(Keep(s, {"call"}) \o Sealing(s))

\* names: the accounts the accounts map carries.
EmitTxs(s, names) ==
    IF Mined(s) > 0 \/ \E i \in 1..Len(s.steps) :
                          s.steps[i].kind = "call" /\ s.steps[i].who \notin names
    THEN Refusal
    ELSE Text(Keep(s, {"call"}) \o Sealing(s))

EmitChecks(s, names) ==
    LET kept == SelectSeq(s.steps, LAMBDA st : st.kind = "expect" /\ st.final)
    IN  IF \E i \in 1..Len(kept) : kept[i].tok = ADDR /\ \E a \in 1..Len(kept[i].args) :
                                        a = Len(kept[i].args) /\ kept[i].args[a] \notin names
        THEN Refusal
        ELSE Text(kept)

\* What the plan prints when it is done.
PlanReport(s) ==
    IF s.armed THEN "sealed" ELSE IF s.ever THEN "sealed by the scenario" ELSE "never armed"

\* The manifest the launcher premines from: the deployer's row, then the actors'.
EmitAccounts(s) ==
    LET blocks == Mined(s)
        txs    == Len(Keep(s, {"call", "refuse"}))
        sent   == FoldLeft(LAMBDA n, st : n + st.send, 0,
                           SelectSeq(s.steps, LAMBDA st : st.kind = "call" /\ st.who = DEPLOYER
                                                          /\ st.send > 0))
        asked  == (blocks + txs) * GAS_FEE * 3 + sent
        need   == IF asked > DEPLOYER_PREMINE_MIN THEN asked ELSE DEPLOYER_PREMINE_MIN
    IN  <<[name |-> "deployer", gnot |-> need]>> \o s.accounts

(***************************************************************************)
(* The command line: a CI = False scenario has no txtar, the genesis pair  *)
(* needs the accounts map.                                                 *)
(***************************************************************************)
Emitted(kind, s, ci, names) ==
    IF s.raised \/ (kind = "txtar" /\ ~ci) \/ (kind \in {"txs", "checks"} /\ names = {})
    THEN Refusal
    ELSE CASE kind = "txtar"  -> EmitTxtar(s)
           [] kind = "plan"   -> EmitPlan(s)
           [] kind = "txs"    -> EmitTxs(s, names)
           [] kind = "checks" -> EmitChecks(s, names)

(***************************************************************************)
(* scripts/check-seed-emitters.py: the calls each served chain is built    *)
(* from, read back out of the emitted text, must be the same sequence; and *)
(* the genesis file is refused exactly for a scenario that mines.          *)
(***************************************************************************)
Signer(who) == IF who = DEPLOYER THEN "deployer" ELSE who

CallLines(text) ==
    LET calls == Of(text.lines, {"call"})
    IN  [i \in DOMAIN calls |-> [calls[i] EXCEPT !.who = Signer(calls[i].who)]]

SameCalls(a, b) ==
    /\ Len(a) = Len(b)
    /\ \A i \in DOMAIN a :
          a[i].func = b[i].func /\ a[i].who = b[i].who /\ a[i].send = b[i].send
          /\ a[i].args = b[i].args

Signers(s) == {DEPLOYER} \union {s.steps[i].who : i \in {j \in 1..Len(s.steps) :
                                                            s.steps[j].kind = "call"}}

SeedsCompare(s) ==
    LET txs == EmitTxs(s, Signers(s))
    IN  IF Mined(s) > 0
        THEN ~txs.ok
        ELSE txs.ok /\ SameCalls(CallLines(EmitPlan(s)), CallLines(txs))
=============================================================================
