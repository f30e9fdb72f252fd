# kourt: a verification development

TLA+ models of kourt's on-chain protocol and of the tools that seed its chains
and guard its sources, TLC instances that check them, and TLAPS proofs about
them. The models are translated from the code under `src/`;
line numbers refer to it. `PROJECT.json` maps every definition to its lines.

Contents

1. The system
2. What is modelled, module by module
3. The runs: what is asked, with which bounds, and what they show
4. Fairness
5. What is proved
6. What is only model-checked
7. Where code and text disagree
8. Not modelled
9. What would come next

---------------------------------------------------------------------------

## 1. The system

kourt is a set of *courts* on gno.land. A court has a coin, bought on a bonding
curve. Members open *claims*, stake coin on YES or NO, somebody posts a bonded
*answer*, anybody else may *dispute* it in rounds that are voted on, and a claim
that reached its verdict may draw coin out of the court's *emission* for the
people who made it. Off-chain services keep evidence and a chat.

### Components

| component | where | state it keeps | operations | correct when |
|---|---|---|---|---|
| checkpoint | `realm/p/checkpoint` | `Series`: two inline points; `Archive`: pages of older points, shared by series | `SetAt`, `ValueAt`, `Trim`, `WalkDesc` | an epoch that is over reads what was written for it, for ever or until trimmed |
| grc20votes | `realm/p/grc20votes` | balances, delegates, allowances, a series of votes for each address and one of the supply | `Mint`, `Burn`, `Transfer`, `Approve`, `TransferFrom`, `Delegate`, past reads | votes are the balances delegated; the past cannot be changed |
| governor | `realm/p/governor` | kinds and their rules, proposals and their rolls, the index of open slots, a sweep cursor | `Offer`, `Propose`, `Vote`, `VoteWithCap`, `Settle`, `Sweep`, `Cancel`, `ReleaseRoll`, `Execute`, built-in kinds | early decisions are right, decisions are final, slots come back, powers change only by votes |
| emission | `realm/r/kourtv2/emission.gno` | one accrual line: accrued, remainder, budget, phase, senior queue and tail, juniors drawn | `touch`, `enqueueSenior`, `reserveJunior`, `PullSenior`, `Poke`, junior mints | no accrual is minted twice, a period pays its budget, seniors get paid |
| claims | `realm/r/kourtv2/claim, answer, dispute, session, openrewards, tier` | claim states, rounds, bonds, deposits, verdicts, draws | `OpenClaim`, `PostAnswer`, `OpenDispute`, `VoteDispute`, `ResolveDispute`, `Finalize`, `OpenRewards` and the pulls | escrow is exact, verdicts follow the votes, every answered claim ends |
| locks | `realm/r/kourtv2/lock, votelock` | vote and stake locks | disposable balance, `TransferCC` | coin that voted stays until its round is over |
| stakes | `realm/r/kourtv2/stake, stakeindex, stakeseries, supplyseries` | positions, pools, conviction | `Stake`, `Unstake`, `WithdrawStake` | a pool's conviction is the sum of its positions'; stakes are never lost |
| courts and purchase | `realm/r/kourtv2/court, buy, courtburn`; `realm/p/curve` | courts, supply sold, GNOT burned | `StartCourt`, `Buy` | price follows the curve, rounding never favours the buyer |
| moderation | `realm/r/kourtv2/moderation, modvote, meta, strips` | panels, records, elections, appeals | moderator acts, approval elections, appeals | moderation touches rendering only, never coin |
| boards, folders, relations | `realm/r/kourtv2/board*, folders, association, governedset, supersede` | comment trees, sanctions, folders, bonded edges | posts, sanctions, edits | bounds hold, sanctions end |
| standing and posting | `realm/r/kourtv2/posting, standing, records` | decaying records | credit, decay, level checks | never above caps; decays on time |
| govern, offerer | `realm/r/govern`, `realm/r/offerer` | a ledger and a governor in one realm | token and governor calls, a minting kind | the composition keeps what both promise |
| markets | `realm/p/cshares, tickbook, twap`; `realm/r/kourtv1`, `realm/r/ccwrap` | conditional shares, an order book, a price window, wrapped coin | — | collateral covers every outcome; wrapped = held |
| archive | `internal/archive` | staged and kept bytes, a cursor for each court, stamps | `Put`, `PromoteFor`, backfill, sweep, review, block, forget | evidence of a filed claim survives the sweep |
| chat and scanner | `internal/chat`, `internal/scan` | messages with scan states, infractions, a pulse | post, claim, verdict, retry, consequence, review | no message is judged twice or lost between states |
| scenario runner | `scripts/scenario.py`, `check-seed-emitters.py` | the scenario under construction, its idea of the clock | builder verbs; four emitters: test script, broadcast plan, genesis file, checks | each way of seeding serves the same chain, sealed and truly described |
| demo stories | `scenarios/*.py` | a program each; `covid_demo` computes six hundred calls from one table | — | each is told to its end on the realm |
| worktree lock, shadow roots | `scripts/repolock.py`, `gnoroot.py` | a lock file with a pid; directories named for pids | hold, refuse, clear; build, reap, remove | readers refuse while the tree is broken, a dead holder does not refuse for ever, live roots stand |
| mutation harness, corpus guards | `scripts/mutate.py`, `mutate-parallel.py`, `check-elsewhere.py`, `check-mutation-*.py`, `check-mutant-collisions.py` | rows, shards, verdicts | lint, run, judge; deal, join; check the corpus | a non-result is never a result |
| guard self-test, meta-guards | `scripts/selftest-checks.py`, `check-guards-*.py`, `check-control-anchors.py`, `check-stale-guards.py` | a control at a time, its break and its copy | break, run the guard, put back | originals survive; no guard sleeps unnoticed |
| other guards, commands, web, deploy | `scripts/check-*.py`, `cmd`, `web`, `deploy` | — | — | not a matter of protocol state |

### How they interact

* A realm call is one transaction: it runs to its end alone, or panics and
  leaves nothing behind. On the chain an *interleaving* is an order of
  transactions; what makes it hard is that each of them finds deadlines passed
  that nobody has written down yet.
* `grc20votes` and `kourtv2` hold `checkpoint` series as ordinary fields; one
  archive is shared by many series.
* The governor is embedded in a consuming realm, which gives it an
  *electorate* (weights of sealed epochs, heights, time). `Execute` calls the
  code of a kind, which may call the governor back before it returns.
* In `kourtv2` each dispute round is a question put to a governor; the court
  reads the tally, keeps its own record of who voted what, and moves the bonds.
* Verdicts and rewards meet the emission line: comps and carrots are seated as
  seniors, a claim's draw is a junior reservation.
* A scenario file is loaded once and emitted three ways, each of which is run on
  a chain of its own against the same realm. A story depends on what the realm
  refuses, on ids and on the test clock, which the file steers and seals.
* The self-test and check-elsewhere rewrite the working tree that every other
  guard and every shard of a mutation run reads. The lock is advisory: only the
  self-test takes it, the shards never ask.
* The archive polls the chain and races uploads and its own sweep; the scanner
  and the chat server share one database.

### What is hard to test

PROJECT.json, "hazards", lists each at its line. In short: deadlines that pass
unseen (every call has to settle first), early decisions by product
inequalities, slots that are found by what was asked and could be released
twice, foreign code in the middle of `Execute`, batches that fail half way, a
board full of finished questions, accrual cut into segments by whoever
touches, juniors drawing out of intervals that later seniors are seated behind,
bonds and deposits leaving escrow on seven paths, ladders of failed rounds
against one escrow clock, coin transferred while it backs ballots. Off chain: a
cursor that passes what it could not read, a verdict written before its
consequence, a claim handed out again while the first scan still runs. In the
tools: four emitters that must agree, a genesis file in which a failed call
stops nothing, blocks that age nothing while the clock is armed, a process
killed while a source is broken, a lock judged dead and removed in separate
steps, and shards whose silence could be taken for success.

---------------------------------------------------------------------------

## 2. What is modelled, module by module

```
History            <-- implemented by --  CheckpointStore
Checkpoint         operators of checkpoint.gno, no state
  CheckpointStore  several series, one archive      MCCheckpointStore
  VoteLedger       grc20votes.gno                   MCVoteLedger
Electorate         <-- implemented by --  VoteLedger
Tally              wouldBe's arithmetic, no state
  Governor         governor.gno, batch, rules       MCGovernor
  Court            kourtv2 claims and disputes      MCCourt
Stakes             kourtv2 positions, locks, bonuses  MCStakes
ClaimLife          <-- implemented by --  Court, Stakes
EmissionLine       operators of emission.gno, no state
  Emission         the line in use
Scenario           scripts/scenario.py, no state
Docket             the realm as a seeding script meets it, no state
Stories            scenarios/*.py, no state
  CovidDocket      scenarios/covid_demo.py, no state
  Seeding          Scenario + Docket              MCSeeding (and CovidDocket)
Corpus             the mutation corpus and its guards, no state
  Guards           the guards about guards, no state
  Mutation         mutate.py, mutate-parallel.py, no state
Worktree           the tree, the lock, self-test, check-elsewhere, readers
  Harness          Worktree + Mutation            MCHarness (and Guards)
SharedLemmas       sums, maxima and counts over finite sets; SetAt, Trim and reads
VoteLedgerProofs (CheckpointStore's too), GovernorProofs (Tally's too), CourtProofs,
StakesProofs, EmissionProofs, HarnessProofs, SeedingProofs
```

A call that panics is an action that is not enabled. Components that are
libraries (`Checkpoint`, `Tally`, `EmissionLine`) are operators on records, so
that every caller's module holds the records as its own variables, as the code
does. Mutants, which the runs must catch, stand just before the definitions
they spoil and are called `<Definition>_<Bug>`.

### Checkpoint, CheckpointStore, History

`SeriesAfterSetAt` and `ArchiveAfterSetAt` are `SetAt`: the newest point is
overwritten in its own epoch, or the two inline points shift and the older
rolls into its page. `ValueAt` is the read, inline points first, then the
newest page not after the epoch. `ArchiveAfterTrim` is `Trim`: pages wholly
below `keepFrom` are collected oldest first, one more than may be deleted, and
the newest collected one is spared. An entry packed in twelve bytes is a record
`[e, v]`; packing is exact for uint32 epochs and int64 values and is left out.

`CheckpointStore` lets any key be written at any epoch not before its newest
and trimmed with any budget. `History` says what a caller is promised: one value
for each epoch, given up below a horizon. `H == INSTANCE History WITH value <-
...ValueAt..., newest <- ...e0...` is the refinement, `ImplementsHistory` the
property.

### VoteLedger, Electorate

One action for each operation of the ledger and `Tick` for the chain. `AddVotes`
is `addVotes` (a no-op for 0, a panic below 0, `SetAt` at the present epoch);
`Reweigh` is two of them in the order of the code, the second reading what the
first wrote, which is what a transfer to oneself, or between two addresses with
one delegate, depends on. Account records that were never opened hold nothing
and delegate to themselves.

`Electorate` is what a governor is promised by whatever gives it weight
(electorate.gno:17-69): a sequence of rolls, one for each epoch that is over, which
only grows, each roll out of `Worlds`. `E == INSTANCE Electorate WITH sealed <- Rolls` reads
the rolls off the ledger's series. Its `Worlds` are rolls whose votes add up to
exactly their supply, which is what the comment of `PastTotal` claims of the ledger
(grc20votes.gno:285-292), and each of them is one `Governor` is ready for: its
`ElectorateAssumption` asks for votes that add up to no more than the total. So
what the governor's theorems assume of sealed weight the ledger's theorem grants.

### Tally

The tests `wouldBe` makes of a tally: `Quorate`, `Carries`, `Won` (carried even
if all the rest says no) and `Lost` (lost even if all the rest says yes).
`Governor` and `Court` both use it: dispute rounds are governor questions.

### Governor

| model | code |
|---|---|
| `gov` = kinds, proposals, openIdx, sweepFrom | `Governor` |
| `sealed` | the electorate's past: votes, total, engaged weight of each epoch |
| `executing`, `todo`, `undo` | the transaction inside `Execute`, what is left of a batch, and the state a panic restores |
| `Propose` | `Propose` and `ProposeWithQuorum`: liveness and payload check, threshold, sweep of a full board, duplicate check that settles first |
| `Vote` | `Vote`, `VoteWithReason` and `VoteWithCap`: settle, weigh at the sealed epoch, cut to the ceiling, tally, settle again |
| `SettleOne`, `SweepBoard`, `Cancel`, `ReleaseRoll`, `Offer` | the calls of these names |
| `Execute`, `RunMember`, `ForeignReturns`, `ForeignRefuses`, `Abort`, `Finish` | `Execute` and the kinds it runs |

A sweep is a window of `SweepScan` slots in digest order from a rotating cursor,
repeated until a slot is freed or the ring was gone round; `Rank` gives digests
an arbitrary order. While foreign code runs, every call a kind could make back
(`Offer`, `SettleOne`, `SweepBoard`, `Cancel`, `ReleaseRoll`) is enabled, and
it may return, refuse or panic; `Abort` restores `undo`. Action properties
are stated over `Committed`, what would stay if the transaction under way were
taken back. Time is in seconds; voting, delay and grace are in blocks of
`SecsPerBlock`.

### EmissionLine, Emission

`EmissionLine` translates `accrueSegment`, the boundary, `touch`,
`enqueueSenior`, `reserveJunior`, `PullSenior` and `mintEmission` as functions of
a record. `touch` walks from boundary to boundary in a loop; the model writes
it as a recursive function over the boundaries crossed (`Rolled`). `Emission`
adds the court around the line: blocks pass (`Tick`), calls touch the line and
then buy, burn, award, draw, mint or pay; `BurnUntouched` is a burn that
does not touch it, which three paths of the code do. The line is that of an ordinary
court, whose budget follows the supply, or of the meta court, whose budget is an amount of
its own (`NewLine`). `draws`, `opened`, `held` and `turn` are records kept for the
properties alone; `held` names the seniors that waited while a budget was
forgone, found by comparing what a touch added with what the blocks offered (`Offered`).

### Court

One record for each claim with the fields of `claimState` that decide anything;
`bal` and `sealed` are the coin's balances now and at the end of the last epoch
(every block is an epoch, and everybody's coin votes for its owner). Actions:
`OpenClaim`, `CloseDeadClaim`, `PostAnswer`, `SettleUndisputed`, `OpenDispute`,
`VoteDispute`, `ResolveDispute` by its four outcomes (`FailedQuorum`, `Discard`,
`Overturn`, `Uphold`), `Finalize`, `OpenRewards`, `PullCarrot`, `Transfer`, `Tick`.

What comes from components that are not composed here is a choice, made at the
step that freezes it in the code: trailing stake `XBars`, conviction of the two
pools `Convs` and reference size `TierRefs` are picked when the answer is
posted. Comps are counted where they are seated (`awarded`), against the bonds
that losing sides burned (`burned`); the line that pays them is `Emission`'s. A
round's ballots are dropped once a later round opens and it decided nothing,
since no code reads them again. `idle[c]` is a record kept for `LadderFits`.

### Stakes

| model | code |
|---|---|
| `acc`, `Tick(rate)` | `c.rateAccFP` and the block's conviction rate, a choice of each block |
| `locked`, `voted`, `Spendable`, `Disposable` | the stake lock, the vote lock, what may be staked and what may leave |
| `pools[c][s]`, `pos[c][<<u, s>>]` | the side's pool in `claimState` and a holder's `stakePos`, each settled on its own touch |
| `Settled`, `Advanced` | `accrue` of one record, `advancePools` of both pools |
| `Observe`, `Trailing`, `Base` | the trailing average of `twap`, one bucket a block, and the larger of it and the life average |
| `Stake`, `Unstake`, `Transfer`, `CloseDeadClaim`, `PostAnswer`, `WithdrawStake`, `OpenRewards`, `WithdrawBonus` | the calls of these names |
| `Vote`, `Resolve` | the lock a ballot takes and lets go |
| `Round`, `Finalize` | what a dispute does to a claim: the verdict stands, turns, becomes final |

`Grants` stands for what the spam discount, the bond, the period and the reservoir leave
of a draw. `past` and `drawn` are records kept for the properties.

### ClaimLife

`Stakes` and `Court` are two halves of one claim, and each leaves to the other what it
does not compute. Conviction, trailing stake and reference size, which `Court` picks
when an answer is posted, come out of `Stakes`; the verdicts, which `Stakes` picks in
`Round` and `Finalize`, come out of `Court`. `ClaimLife` is what they agree on: the life of a claim in
six stages (`Ask`, `Close`, `Answer`, `Judge`, `Settle`, `Draw`), with the side that was
answered, the side that stands, and whether the answer's bond is still held. Both modules
have a mapping `Lives` and the property `ImplementsClaimLife`. `Court` has to show that
its rounds lead no other lives: a failed quorum or a discard may not turn a verdict that stands, and no round may
follow a final one. For `Stakes` the point is the converse as well: `Round` and `Finalize` take *every* verdict
a life allows (`VerdictsAreTaken` in `StakesProofs`), so that what is proved of
stakes and bonuses leaves out no verdict a court can give. What a verdict pays (comps,
carrots) stays on `Court`'s side and what conviction pays on `Stakes`'; the numbers
that cross over at the answer are choices in `Court`, any natural numbers at all
in its theorems.

### Scenario, Stories, CovidDocket

A scenario file is a sequence of builder calls. `Apply` is one call: it appends
a step, moves the builder's own idea of the clock (`Armed`), or raises, after
which the file does not load. `EmitTxtar`, `EmitPlan`, `EmitTxs` and
`EmitChecks` turn the steps into what is run, with the seal each emitter adds on its own
(`Seal`) and what it refuses (`Refusal`); `PlanReport` is the line about the
clock. A literal is modelled by what reaches the node through the quoting, a
pattern by the answers each of the two engines accepts.

`Stories` holds the files under `scenarios/` call by call. `CovidDocket`
computes the demo as `covid_demo.py` does, from its table: claims are numbered by
filing date, moves become events, events are put on one timeline, and the file's own guards
(`CommitmentsFit`, `ThreeBuckets`, ...) decide whether it loads.

### Docket, Seeding

`Docket` is the realm as these programs meet it: about forty entrypoints, each a function from a
chain and a caller to a chain, or a panic, with the guards of the gno code in their order.
What a script may spend is rounded against it, so a call the model lands is
landed by the realm. `Seeding` has the file and the launcher: `Tell` (the next line of a story's `file`), `Write`
(one more call of a written program) and `Save`, `Launch` of each back end in turn, `Transact`, `BeRefused`,
`MineBlocks` and `Check` for the lines it runs, and `Finish`. A genesis line that fails
is passed over (`missed`); the two other paths stop at the first.

### Worktree

| model | code |
|---|---|
| `lock`, `live`, `Holder`, `Announce`, `Withdraw`, `ClearStale` | the lock file and `repolock.py` |
| `tree[f]` | the breaks that stand in a file: control i plants i, row j plants -j |
| `SetAside`, `Plant`, `RunGuard`, `PutBack` | `control` of the self-test |
| `Impersonate`, `Bury`, `ChildClears`, `Reclaim` | its rehearsal of a live and of a dead holder |
| `StartSweep` .. `EndSweep` | check-elsewhere: look once, then read, apply and restore each row |
| `Look`, `ClearLock`, `Read` | any guard run on its own |
| `KillSelftest`, `KillSweep`, `GhostDies` | kills, which clean nothing up, and the stand-in that outlives its run |
| `met` | no code: whether the two runners have been under way at once |

### Corpus, Mutation, Guards, Harness

`Corpus` judges rows as the guards do (`RowVerdicts`, `CrossVerdicts`,
`CollisionsPass`, `ScopePass`, `ElsewhereVerdict`); the fixtures the scripts
carry are an ASSUME, so TLC evaluates them on every run that extends it.
`Mutation` has the ladder of verdicts (`Judge`), the dealing of rows and the
joined verdict (`IsResult`: nobody broken, and the rows behind the announced totals, `Accounted`, are as many as were sent). `Guards` writes out the self-test's
table of controls and what the meta-guards ask of it; what it says
(`NoGuardSleeps`: no single edit of the repository puts a guard to sleep
unnoticed; `FiringShowsTheBreak`; `FramesAreChecked`) are constant facts,
evaluated as ASSUMEs. `Harness` runs shards as processes over
`Worktree`: `Launch` (which reaps), `Baseline`, `CountAnchor`, `Stage`, `Test`,
`Summarise`, `Leave`, `KillShard`, and one `Report`. A row counted or staged while a
break stands in the tree is `marred`: its suites may say anything.

---------------------------------------------------------------------------

## 3. The runs

| run | module | states | asks |
|---|---|---|---|
| `checkpoint_store` | MCCheckpointStore | 82 thousand, up to symmetry | Does the store implement `History`, for two keys in one archive, with bounded trims? |
| `ledger` | MCVoteLedger | 91 thousand, up to symmetry | Do votes follow balances, and are sealed epochs the electorate a governor is promised, whatever is minted, burned, moved, spent, delegated? |
| `governor_tally` | MCGovernor | 100 thousand | Is one question decided rightly, finally and with its delay, with idle and unissued weight, floors and ceilings, and does its slot come back? |
| `governor_kinds` | MCGovernor | 113 thousand | Do powers come, change and go only by votes that ran, on a full board, with foreign code calling back and failing? |
| `emission` | Emission | 65 thousand | Is accrual minted once, under the ceiling, with exact periods, and does every senior get paid, as far as the budgets last? |
| `emission_budget` | Emission | violation | Is the budget read off the supply at the boundary? |
| `court` | MCCourt | 509 thousand | Does a claim's money and verdict come out right through three rounds of any outcome, does it lead the life its stakers rely on, and does it end? |
| `stakes` | MCStakes | 586 thousand | Is every unit of stake, conviction, lock and bonus accounted for, whoever touches what when? |
| `seeding` | MCSeeding | 96 thousand | Do the ways of seeding agree, for every story and every short program, and do the stories hold on the realm? |
| `seed_deep` | MCSeeding | violation | Do mined blocks mature a story's stake history? |
| `harness` | MCHarness | 492 thousand | Do lock, tree, roots and verdicts survive each other and a kill? |
| `tree_shared` | MCHarness | violation | Are the runners that rewrite the tree safe beside one another? |

### Properties

*checkpoint_store.* `ImplementsHistory`: the store refines `History`, in
every intermediate state of a trim. Two keys, five epochs, pages of two epochs,
one-page trims: a key fills more than one page, a page straddles a horizon, and a
trim needs several calls. The theorems cover every size.

*ledger.* `VotesFollowBalances`: votes are the sums of the balances delegated and
the supply is the sum of the balances, so the panic "voting power would go
negative" is unreachable. `ImplementsElectorate`: epochs are sealed one by one, the
votes of each roll make up its supply, and nothing done later changes a roll. Two addresses, three
epochs of one block, pages of one epoch, a supply of at most 2: enough for all
delegation patterns of two, self-transfers, spent allowances and points
rolled into the archive.

*governor_tally.* `TallyWithinSnapshot`: tallies are what the roll says, nobody
counts for more than was sealed, and the rest is never negative.
`EarlyDecisionsStand`: whatever is still uncast, the deadline would have decided
the same. `DecisionsAreFinal`: states go forward only, and tally and ballots
freeze at the decision. `ReactionTime`: the whole delay lies between the last
moment a question was open and its execution. `SlotsComeBack` (liveness): every
slot is free again. Two worlds: one in which seven
units exist, six of them held and five engaged, and one in which the engaged
figure exceeds the total; a floor and two ceilings.

*governor_kinds.* `SlotsMatchQuestions`: the index holds exactly the open questions.
`SweepReclaims`: a sweep frees a slot whenever one can be freed.
`PowersChangeByVote`: kinds change only by an executed question about them. One
voter holds everything, so powers change as often as possible in three
questions: adopt, retire, retune, use, and two batches, one impossible half way;
the board has two slots and sweeps look at one at a time, so the cursor has to
go round.

*emission.* `AccrualMintedOnce`: senior intervals and junior stretches are
disjoint parts of the line, and nothing is paid before it accrued. `Ceiling`:
minted plus promised stays within accrued. `PeriodPaysItsBudget`: to the part
of a unit, however often the line was touched. `SeniorsGetPaid` (liveness): the code
steps the budget down every period and floors it, so what a line ever accrues is
finite, and an award larger than the rest is never paid in full. The property says that
this is the only way to be left short: a senior is paid in full in the end, or else the
budgets have run out, it was paid all that accrued to it, and none of the blocks
offered while it waited was forgone.
The step halves the budget (the code's takes 104 weeks for that), so that after
three periods at most nothing accrues any more, and awards of two units are paid in full,
in part or never; an ordinary and the meta court; a supply that may fall to nothing. A
reservoir of one budget, so that the line pauses whenever it may; touches up to
three blocks apart, so that one crosses a boundary and one skips a whole period; two seniors and a
draw; burns that touch and burns that do not.

*court.* `EscrowExact`: escrow holds exactly what open claims are owed and a claim
that is over has left nothing. `VerdictFollowsVotes`: the standing verdict is
the one of the last round that met its quorum. `LadderFits`: a default verdict
cannot become final while its ladder of rounds can still be walked.
`VotesStayBacked`: a voter holds what the ballot weighed until the round
resolves. `CompsWithinBurns`: comps stay within four fifths of what losers
burned. `CarrotsCovered`: the carrot's denominator is the with-verdict weight
and the pool covers everyone still to pull. `ImplementsClaimLife`: the claim leads the
life `Stakes` relies on. `AnsweredClaimsSettle` (liveness).
One claim, three rounds, an author who staked, an answerer, a disputer and two
voters of different weight: every sequence of the four outcomes of three rounds
occurs, and three failed rounds, the code's limit, too. Amounts are small
integers with the code's own rates, so that roundings happen.

*stakes.* `PoolsAreSums`: settled to the same moment a pool is the sum of
its positions, in stake, conviction and history. `StakesStayBacked`: locks are the sums
of the stakes, and stakes and ballots are in the balance. `CreditFollowsCoin`: a side
has no more conviction than the coin on it could have earned. `DrainKeepsTheBase`:
what was staked once counts in the bars of an answer, even if it left.
`BonusesWithinPot`: the winners' draws fit their pot in any order.
`ConvictionPinned`: after the answer nothing changes what a position earned.
Two holders on both sides of one claim and one of them on a second; five blocks,
one of which may pay double; two amounts, one of which only one holder has, and
three moves (stakes, unstakes, transfers), the fewest that fill a claim, answer
it and drain it between; a window of two blocks, so that the trailing average and
that of the whole life differ.

*seeding.* `SeedsAgree`: a genesis file applied without looking leaves the chain the
checked broadcast leaves. `EmittersAgree`: both served emitters send the same calls in the same
order, the seal included, and a genesis file is refused exactly when the program
mines. `ClockIsTold`: no served chain is left armed, and what the plan prints of
the clock is what the chain says. `StoriesLand`: every story is told to its end.
Seven stories as they stand, with the demo read on the day its table ends
(`Today`), and every program of up to four calls (`MaxCalls`) over thirteen that
reach for the clock by the builder's verbs and behind its back: four are enough to
arm, advance, seal and read in any order. A story is told line by line, so the run is some two
thousand steps deep. `MaxSkew` is the realm's limit cut to
TLC's 32 bits.

*harness.* `RefuseRatherThanReport`: a guard that reports a control's break had passed
the lock while it was free, unless somebody cleared a live holder's lock or was
killed. `OriginalsSurvive`: without kills a file is broken only under the control or
row at work; with one, the file or its copy is still the original until a run is
started over the remains. A file that a control and a row both break (`Shared`) is
promised this only until the two runners have been under way at once (`met`); what
happens then is the finding of `tree_shared`. `CaughtWasObjectedTo`: a
non-result is not reported as a catch. `ResultCountsEveryRow`: the runner adds up the
totals its shards announce, which are the lengths of what they were sent and not
counts of what they said; a run that comes out as a result nevertheless heard of
every row, from one shard each. `RootsStayOwn`: a live shadow root is
never reaped. `PreflightSparesTheBatch`: what the corpus guards pass the batch can
measure. `ReadersGetThrough` (liveness). Two files, the lock's rehearsal and a control
of each file, and a row on one of them, which stands for `buy.gno`, `stakeindex.gno` and
`testclock.gno`: in the repository each of those is broken by controls and by a row.
One reader, one run of each and one kill; every batch of one or two of the twenty-odd kinds
of row and two of three, on two shards, so that a shard has a second row to lose, and in
one of them the first has no anchor. Batches of other kinds run on a
tree nobody rewrites (the rows and the tree only meet in `marred`).

The bounds that exist only for TLC: `MaxEpoch`, `MaxHeight`, `MaxProposals`, `LastOpening`,
`MaxIdle`, `MaxSeniors`, `MaxDraws`, `MaxNow`, `MaxMoves`, `MaxRounds`, `MaxSupply` of Emission,
`MaxCalls`, `MaxRuns`, `MaxSweeps`, `MaxKills`. A bound on time never stops short of a
deadline something open is waiting for.

---------------------------------------------------------------------------

## 4. Fairness

* **Governor**: blocks go on (`SF(Tick)`, strong because transactions switch it
  off for a while), a transaction that started ends (`WF(Running)`: gas bounds
  it), and each question is settled again and again by somebody (`SF`: `Settle` is
  open to anybody). Nobody is assumed to propose, vote or execute.
* **Emission**: blocks go on, past the last budget; somebody touches; a senior that can be paid is
  pulled: `PullSenior` is open to anybody, and whom it pays has reason to.
* **Court**: blocks go on; an answer that may be settled is, a round that may be
  resolved is, a verdict that may be finalized is: all three calls are open to
  anybody after a grace, and the bonds they release pay for the effort. Nobody is
  assumed to dispute or vote.
* **Harness**: a self-test that runs goes on to its end or is killed: it waits
  for nobody, and each guard it runs is a bounded pass (the code sets no timeout, so
  one that hung would keep the lock until somebody killed it). The stand-in of a killed run
  sleeps out its twenty seconds, and a refused reader tries again. No shard and no
  sweep is assumed to move.

---------------------------------------------------------------------------

## 5. What is proved

TLAPS checks these for every value of the constants that satisfies the named
assumptions.

| theorem | says |
|---|---|
| `VoteLedgerProofs!StoreInvariant` | `StoreSpec => [](StoreTypeOK /\ ArchiveShape)` |
| `VoteLedgerProofs!StoreImplementsHistory` | `StoreSpec => ImplementsHistory`: the store implements the history |
| `VoteLedgerProofs!StoreSealed` | `StoreSpec => SealedEpochsKeep` |
| `SharedLemmas!TrimReads` | a trim changes no answer at or above its horizon |
| `VoteLedgerProofs!LedgerInvariant` | `Spec => [](TypeOK /\ SeriesInOrder)` |
| `VoteLedgerProofs!LedgerSealed` | `Spec => SealedVotesKeep` |
| `VoteLedgerProofs!VotesAreBalances` | `Spec => []VotesFollowBalances` |
| `VoteLedgerProofs!PanicIsUnreachable` | `Spec => []NoVoteUnderflow`: a delegate has at least the votes of each balance behind it, so that `addVotes` never meets its panic |
| `VoteLedgerProofs!LedgerIsElectorate` | `Spec => ImplementsElectorate`: the ledger implements the electorate |
| `GovernorProofs!WonStands`, `LostStands`, `NeverBoth` | an early decision is the decision of every completion of its tally |
| `GovernorProofs!SlotsAreQuestions` | `Spec => []SlotsMatchQuestions` |
| `GovernorProofs!DecisionsStay` | `Spec => DecisionsAreFinal` |
| `GovernorProofs!DelayIsKept` | `Spec => ReactionTime` |
| `GovernorProofs!PowersByVote` | `Spec => PowersChangeByVote` |
| `GovernorProofs!TalliesAreRolls` | `Spec => []TallyWithinSnapshot` |
| `GovernorProofs!EarlyIsFinal` | `Spec => EarlyDecisionsStand` |
| `GovernorProofs!SweepsReclaim` | `Spec => []SweepReclaims` |
| `CourtProofs!EscrowIsExact` | `Spec => []EscrowExact` |
| `CourtProofs!CompsStayWithinBurns` | `Spec => []CompsWithinBurns` |
| `CourtProofs!VotesAreBacked` | `Spec => []VotesStayBacked` |
| `CourtProofs!VerdictsFollowVotes` | `Spec => []VerdictFollowsVotes` |
| `CourtProofs!CarrotsAreCovered` | `Spec => []CarrotsCovered` |
| `CourtProofs!LaddersFit` | `Spec => []LadderFits` |
| `CourtProofs!CourtLeadsLives` | `Spec => ImplementsClaimLife`: a claim leads the life its stakers rely on |
| `EmissionProofs!EmissionTyped` | `Spec => []TypeOK` |
| `EmissionProofs!EmissionMintsOnce` | `Spec => []AccrualMintedOnce` |
| `EmissionProofs!BudgetIsPaid` | `Spec => []PeriodPaysItsBudget` |
| `EmissionProofs!NothingAboveTheLine` | `Spec => []Ceiling` |
| `StakesProofs!FreezesStayPast` | `Spec => []IInv`: freezes are in the past, positions typed |
| `StakesProofs!EarnedIsPinned` | `Spec => ConvictionPinned` |
| `StakesProofs!PoolsStaySums` | `Spec => []PoolsAreSums` |
| `StakesProofs!CreditStaysWithCoin` | `Spec => []CreditFollowsCoin` |
| `StakesProofs!DrainedBasesStand` | `Spec => []DrainKeepsTheBase` |
| `StakesProofs!LocksStayBacked` | `Spec => []StakesStayBacked` |
| `StakesProofs!BonusesStayWithinPot` | `Spec => []BonusesWithinPot` |
| `StakesProofs!StakesFollowLives` | `Spec => ImplementsClaimLife`: stakes follow such a life |
| `SeedingProofs!EmittersAlwaysAgree` | `Spec => []EmittersAgree`, for programs of any length |
| `SeedingProofs!ClockAlwaysTold` | `Spec => []ClockIsTold`, for programs of any length |
| `HarnessProofs!ReadersRefuse` | `Spec => []RefuseRatherThanReport` |
| `HarnessProofs!OriginalsAreRestored` | `Spec => []OriginalsSurvive` |
| `HarnessProofs!LiveRootsStand` | `Spec => []RootsStayOwn` |
| `HarnessProofs!CaughtIsEvidence` | `Spec => []CaughtWasObjectedTo` |
| `HarnessProofs!ResultsAreWhole` | `Spec => []ResultCountsEveryRow` |
| `HarnessProofs!GuardsSpareTheBatch` | `Spec => []PreflightSparesTheBatch` |

**Checkpoint.** The invariant is `TypeOK /\ ArchiveShape`, which is inductive as it
stands: `InlineOrder`, `PagesOrder` and `ArchivedBefore` are what an append and a
deletion need of each other. `SharedLemmas` proves once what `SetAt` and `Trim`
do to a read; the heart is that the page `Trim` spares, the newest wholly below
the horizon, still answers for the kept window. Refinement and sealing follow
read by read. Assumptions: `PageEpochs` positive, epochs natural.

**Sums.** Much of what follows is about sums over a finite set: of balances, ballots,
records, positions. The models write them with the folds of the community modules
(`SumFunctionOnSet`, `MapThenSumSet`), which are defined by recursion through a
`CHOOSE`. `SharedLemmas` proves once that such a function exists and is the only one
(`SumExists`, `SumUnique`, `SumIs`), and from it what a proof needs: taking an element
out or in, changing one, splitting, scaling, bounding by a part (`SumRemove`, `SumAdd`,
`SumUpdate`, `SumSplit`, `SumScaled`, `SumOfPartBound`). The induction theorems of the
library take a predicate as a parameter, which no installed prover can instantiate;
`PartInduction` is the one induction principle over subsets, stated for a *set* of subsets
instead and proved by the least cardinality of a counterexample. `GreatestRank`, `FiniteRange` and `MaxIs` are
proved with it.

**VoteLedger.** `TypeOK /\ SeriesInOrder` is inductive. A call is a sequence of
series writes at the present epoch; `CallKeeps` says that such a sequence keeps
every series good and every sealed read the same, and each action is shown to be
one. `LedgerSealed` is the action property from the same invariant.
`VotesFollowBalances` says that an account's votes are the sum of the balances behind
it and the supply the sum of all; `VInv` adds the first invariant to it. A call writes two
series, and between the two writes the sums are wrong: `Recounted` is one write of a
series and `HalfACall` what the second may rely on. A transfer from an account to
itself, and one between two accounts with one delegate, are cases of their own.
`PanicIsUnreachable` is read off the sums. Assumption: finitely many accounts.
`LedgerIsElectorate` puts the two together. Within an epoch no sealed read changes
(`RollsStay`, which is `CallKeeps` again); the block that begins an epoch seals the present one
(`TickSeals`), whose roll is read off the newest points (`PresentIsRoll`) and so,
by the sums, is one of the `Worlds` (`PresentIsWorld`).

**Tally** (in `GovernorProofs`). For a tally within its snapshot and a threshold that is a share.
`QuorumKeeps` shows that turnout never costs a quorum, and the two product
inequalities are monotone in the rest. Together with `TallyWithinSnapshot` this
is the argument for closing a vote early: `EarlyIsFinal` makes it.

**Governor.** None of the four is inductive: between two steps of a transaction the
board is half changed, and foreign code may be about to call back. `GInv` says that
the board is typed and its index exact, and, while a question runs, that the same
holds of the state a panic would restore, that the question is still decided, due
and not late, that what is left of a batch are members of it, and that the kinds
differ from the restored ones only where a member says so. Without the middle part a
call made back could let the running question expire, and its end would give
back a slot that a later identical question holds. `Since` says what any transaction
may make of a question; it is reflexive and transitive, so that the steps of a
settlement, a sweep and a whole transaction compose, and the three action
properties are read off it. Assumptions: questions are payloads `parse` accepts
(batches are sequences of questions), rules are natural numbers.

`TInv` adds the tally. `Counts` says that the rules in force are sane and that of an open question
the tallies are the sums of its roll, whoever is on the roll is counted for no more than
their sealed share, and what is cast is not more than the shares of those who
voted (`Recorded`), which the electorate's own promise bounds by the total. While a
question runs all this holds of the restored state too. `ReasonedSince` is what a transaction
may make of a question's tally: decided before the end of its vote it has a reason
the remaining votes cannot take away (`Grounded`). Rules changed by a member of a batch must be
sane when their turn comes, not when the batch was accepted: that is `SaneMembers`.
`SweepsReclaim` is an argument about a ring. `QInv` says that the board is within `MaxLive`;
`Rounded` says how far round the ranks a sweep that has freed nothing has come after n
windows, `RoundedFurther` that one window more is `SweepScan` questions further or all of
them, and so after `MaxLive \div SweepScan` windows nothing is left unseen. It needs `MaxLive` to be a
whole number of windows, as 64 and 8 are (governor.gno:201, 1365): with a remainder the
last few slots of a full board would wait for the next sweep.

**Court.** Every step either leaves the claims alone or is a `Turn` of one claim: its
record is replaced by one of ten rewritten records (`AsOpened`, ... `AsPulled`), and the coin
moves as the record does (`Rewrites`). `StepTurns` shows it once, so that each invariant below needs
one lemma about turns and one about the other steps. `EInv` is the books: escrow's balance
is the sum, over the claims, of what their records hold, deposits likewise, and each
record is sound, that is, says of itself what its stage allows. The verdict is taken
apart by the outcomes of a round (`Outcome`: a quorum failed, discarded, upheld, overturned). `VotesInv`: each ballot that may
still count is covered by its voter's coin; it holds through transfers because the lock of a
voter is the largest of that voter's ballots and not the sum of them. `CaseInv`: the ballots of a round are what the
tallies count, and the decided verdict and its denominators are those of the last round that had a quorum.
`CoveredInv`: the unpaid shares fit the carrot pool; shares are rounded down, and the sum of
the weights is the denominator. `LadderInv`: a defaulted verdict has the extensions
still to come in its escrow, with `idle` for the blocks by which nobody was in a hurry.
`CourtLeadsLives` has one lemma for each way a record is rewritten: most keep all
that a life is read off (`KeptLife`, `SameLife`), the others are one step of a
life (`JudgedLife`, `SettledLife`, ...). It needs two facts the books do not have: an answer bond
is never 0, so that "held" says whether there is one (`AnswerBondIs`), and once a verdict stands
against the answer the bond is gone (`Forfeited`), by which an uphold after an overturn is known to give nothing back.
Assumptions: finitely many claims and users, escrow is no user and `None` neither a user nor a side,
deposits and amounts natural, the windows that must be are positive.

**Emission.** `AccrualMintedOnce` is not inductive: it does not say where the next
senior or the next draw will start. `IInv` adds that senior intervals and drawn
stretches lie below `tail + junior`, in order (`SeniorsTidy`, `DrawsTidy`, `Disjoint`),
and each operation has a lemma that it stays tidy. That a touch only ever adds to
`cum` is an induction over the boundaries crossed, made with a least-number
argument (`LeastNumber`, `SetInduction`, `WalkLater`). `PeriodPaysItsBudget` is exact
arithmetic: a segment adds its blocks times the budget, with the remainder carried
(`AccrueExact`), and a period begins with none (`RolledPhase`, `TouchTerms`).
`Ceiling` relates what was minted to what is still owed, a sum over the queue. No
induction over data is to be had, so the sum is stated by a function of partial sums
that exists (`Sums`, `Owing`), which each operation extends or lowers. `Chained` is the
reason it holds: beyond what has accrued there are only seniors, one directly
behind the other, so that whatever of the line has not accrued is owed to them
(`SumsReach`).

**Stakes.** A frozen claim reads the accumulator and the height of its freeze
(`FrozenReads`), which needs the invariant that both lie in the past. `StepHarmless`
shows that no step moves a freeze and that a position of a frozen claim is
either left alone or replaced by itself settled, but for its stake; `HarmlessPins`
that settling twice at one freeze is settling once, whatever the stake is by
then. Together they say that what was earned is the same after every step.

That a pool is the sum of its positions is not inductive in the fields of the records: settling one
position changes its conviction and nobody else's, and the pool settles when it
likes. What settling does not move is `conv - stake * acc` and `raw - stake * rawAt`
(`Due`, `Old`). In these terms every step, on every claim, is a `Turn` (`StepTurns`): nothing, a
settling of the pools, or n of stake and m of credit of one position, and of the pool of
its side. So the sums of stakes, dues and olds are kept (`SumsKept`), and `SettledSums` carries
them over to what is settled, because settling is linear. `Books` is this
with `Ripe` (no position owes anything, none is settled later than its claim
reads, and before the answer none has more credit than its coin has earned) and
with the shape of claims and rings. On `Books` rest: `PoolPinned`, credit at the answer is at most
what the coin then on the side has earned, and does not change after it; `PastTold`, what was staked on
a claim over its blocks is the history of its two pools, so that the life average the
base includes is the true one; `Purse`, a lock is the sum of its holder's stakes and
both it and the ballots are in the balance; and `DrawsFit`, whose heart is
`DrawOpened`: a unit of coin per position is rounded down before it is shared, so that the shares of the side
add up to no more than the pool's own rounded coin, the denominator (`SharesFit`). Each payment then moves
one bonus from what is owed to what was drawn, and nothing else changes a bonus once the
draw is open, because what was earned is pinned.
`StakesFollowLives` adds `LivesSound`, that what has not happened yet left no trace on a claim.
Assumptions: finitely many claims and users, `None` no side and no user, amounts, units, windows and
rates positive. The model's integers are unbounded; the code's are 128 bits wide.

**Seeding.** For every program over the builder's verbs, of any length, and whatever stories
are told. That the two emitters send the same calls is a fact about filters: each
keeps the steps of some kinds (`Of`), which is a `FlattenSeq` of one-line
pieces. `FlattenAppend` gives that community operator, a recursion through a `CHOOSE`,
its one law, and `OfAppend`, `OfOf` and `OfSealing` follow: filtering twice is filtering
once, and the seal each emitter adds is the same line in the same place. `SeqInduction` is
induction over sequences with a set in the place of the predicate. `Builder` is the invariant of the scenario under construction: its notes
`armed` and `ever` are what its steps would do to a clock (`EndsArmed`, `EverArmed`), for each verb and for the
raw calls (`ApplyBuilds`). `ClockIsTold` relates that to a chain that runs the filtered steps one by one:
`Keeps` says that no entrypoint of the docket but the three of the clock moves it, and a panic moves nothing
(`DispatchKeeps`), `Carries` that what the lines still to run will make of the chain's
clock is what the steps make of the builder's. Both are kept when a line is taken off the front
(`ArmedHead`, `LineCarried`), and `ArmedAppend` and `ArmedOf` tie the two ends together. The
inductive invariant `SInv` has a part for each phase: `Run`, `Writing`, `Broadcast`,
`Handed`. Assumption: a file calls methods of the builder and entrypoints of the realm
(`ProgramAssumption`); a file that does not is a Python error or fails its first call.

**Harness.** For any number of files, controls, rows, shards, runs, sweeps and
kills. `RootsStayOwn` is not inductive: a reaper removes the roots whose pids are
dead, so one has to know that a running shard's pid is alive and that nobody
else's death is its own. `PidsInv` says so: pids are given out once, and those of
the running shards, the self-test and its stand-in differ. `TreeStep` and
`ShardStep` are what any step of the other runners, or of one shard, may do to that.
`RefuseRatherThanReport` rests on `LockInv`: the lock a running self-test holds is its
own or that of its stand-in, and both are alive, so a reader that finds it
refuses; whoever clears it nevertheless has taken a live holder's lock (`stolen`).
`OriginalsAreRestored` is about the same two runners as the finding of `tree_shared`, and
assumes nothing of which files they share. Its invariant `TreeInv` is stated file by file,
for the files that are `Ok`: not shared, or shared while the two have not met. Of
those, what each runner has read and will write back is the original, and a break
that stands has the original set aside (`KeptAside`). A step of one runner leaves
the other's file alone, because an `Ok` file is not in the hands of both (`NotBoth`), and a file
stops being `Ok` only when the second runner begins (`OkShrinks`). `tree_shared` shows that the
exception for shared files is needed.
`CaughtWasObjectedTo` and `ResultCountsEveryRow` rest on `RowsInv`: a shard answers for
rows it was dealt, with verdicts of the ladder, `caught` only as `CaughtSays` allows, and it
says its summary only when it has nothing left. `ResultsAreWhole` follows in two
steps: over a result every shard said its summary, hence all of its rows; and
round-robin dealing gives each row to one shard and no other (`RowsAreDealt`, `OneAnswerEach`).
That the announced totals then also add up to the batch, so that the guard does not turn a
good run away, is `TotalIsLength`, which `PreflightSparesTheBatch` needs.
`PreflightSparesTheBatch` rests on `SpareInv`: with nobody killed a shard of a batch the
guards passed exits with 0 or 2, with 0 only after its summary and all of its rows,
and what it says of a row is the row's `Verdict` unless it met a break in the tree;
`PassedRows` is what the guards promise of a row.
Assumptions: a run has a shard (`--shards 0` stands for some, mutate-parallel.py:109), a batch
is a sequence of rows of which the toolchain says one of the six things `Row` lists, and a
code nobody has classified is not one of those `mutate.py` lists.

---------------------------------------------------------------------------

## 6. What is only model-checked

* All liveness: `SlotsComeBack`, `SeniorsGetPaid`, `AnsweredClaimsSettle`,
  `ReadersGetThrough`. TLAPS has no reasoning under fairness here. For `SeniorsGetPaid` that
  includes its safety half, that no budget is forgone while a senior waits (`held`).
* `StoriesLand`: the stories are fixed programs, which TLC runs whole.
* `SeedsAgree`, for the stories and for every program of up to four calls. It cannot be a
  theorem, because it is not true of every program. The plan mines a block for each
  call and the genesis file none, so a program that makes calls before it arms the clock
  (two `SetSiteDomain`, say, for a court may not be there yet) has two base heights
  (testclock.gno:210). If it then stakes, advances 1,438 blocks, stakes and answers, the
  boundary of a 720-block bucket falls between the two heights: the answer lands in the
  broadcast and is passed over in the genesis file. TLC confirms it when such a file is told.
  No story in the tree is one; all of them arm first or never.
* The composition of `VoteLedger` with `Governor`, and of `Court` with `Stakes`, is proved by
  way of `Electorate` and `ClaimLife`; no run has both halves in one state space.

`TypeOK` of `VoteLedger` and `Emission`, `StoreTypeOK` of `CheckpointStore`, `SealedEpochsKeep`,
`SealedVotesKeep`, `SeriesInOrder` and the Stakes half of `ImplementsClaimLife` are proved and no
longer run. No module declares a RECURSIVE operator.

---------------------------------------------------------------------------

## 7. Where code and text disagree

Three runs show a statement of the repository violated by what the code does;
PROJECT.json quotes the lines.

* `emission_budget`: a budget is said to be read at the period boundary, with
  every call that changes state touching first. Three burns do not touch, so a
  budget can be read off a later supply.
* `seed_deep`: `mine` is said to age the height, and the story `deep` mines 2,200
  blocks to mature its claims' stake history. It does so with the clock armed, and
  then the realm reads a height that burned blocks do not move: the answer is refused.
* `tree_shared`: the lock is said to be for the one runner that rewrites the tree.
  check-elsewhere rewrites it too and does not take the lock; beside the
  self-test each may restore the other's break as the original.

Seen on the way, with no run of their own: `dispute.gno:14` and `:593-594` say that a
claim closed without a decision never draws, while `openrewards.gno:33-37` lets it
open its rewards on its provisional verdict; `dispute.gno:357` still lists a tie and
an all-abstain vote under UPHOLD, which the discard comes before; `dispute.gno:780-782`
describes an arm of `quorumFloor` that is gone; `emission.gno:86-88`
says that with a reservoir of 0 periods the second conjunct of the pause would go
on accruing for a senior who waits, but a senior seated behind juniors waits
until accrual reaches tail and juniors together, which the conjunct does not test.
`emission.gno:12-13` promises seniors the "full amount, possibly time-delayed", but the budget
is multiplied by less than one at every boundary and floored, so accrual ends
and an award larger than the rest stays unpaid in part; `SeniorsGetPaid` states what is
left of the promise. The meta court's budget steps down too, and a boundary crossed while
nobody holds its coin forgoes the period whoever waits (emission.gno:149-151).
A comment of the governor says that nothing an adoption means can move between
proposing and executing, but a name adopted by a second question can be retuned
while the first is open. A dispute is said to only ever lower what a claim
draws, but a reopened round's spam share replaces the earlier one, so it may rise again
(never above that of a claim nobody disputed).

Of the scripts: with `--expect-survive`, `mutate-parallel.py:231` prints that every row
"was measured and still survives", but :214 looks for three suffixes that mark a row
unmeasured and `mutate.py:485` writes a fourth, `[unclassified]`: such a row is taken for
a survivor. The flag is not modelled, and no run states that line. `mutate.py:180-187` says which
suites observe a package; kourtv2 is not observed by ccwrap, which imports it, nor
govern by offerer, and the rows of the packages below them are not run in those
suites either. A control of the self-test looks for its complaint before the exit
code, so a guard that complains and exits 0 fires (`TalkersFire`).
check-guards-armed asks that a guard is named in the self-test, not that an arm of it
works, and check-guards-run counts a mention in a reachable recipe as a run.
`scenario.py` says of the genesis file that a seed silently half applied is caught by the
reads; it is caught if the story reads what is missing. check-seed-emitters.py:236 says that a
scenario means one chain; section 6 has one that means two. `call` lets a file advance the clock
behind the builder's back without the line about it changing. The header of
`covid_demo.py` counts thirteen claims and fourteen relations where the file makes nineteen and
seventeen, and a file read before the table's last day makes its own `goto` raise.

---------------------------------------------------------------------------

## 8. Not modelled

* **Governor**: `SetElectorate` and `Adopt` (a consuming realm's own calls; what
  `Adopt` leaves is in `Init`), block heights kept beside the clock for records
  older than it, titles, reasons, events, rendering. Integers are unbounded, so
  an overflow under extreme rules is not seen.
* **VoteLedger**: events, walks, storage of unopened records.
* **Emission**: the conviction rate and realized dilution that `touch` also
  advances; they do not act back on the line.
* **Stakes**: bonuses of the author and the answerer, standing credit, 128-bit
  words, the packed ring of buckets, allowances.
* **Court**: stakes and winners' bonuses (in `Stakes`), bonuses of author and
  answerer, standing, priority, seeded claims, edits, moderation strips.
  Delegations: everybody votes with their own coin. The slots of the governor
  that carries the rounds: opening a round never fails for a full board.
* **Scenario, Docket**: titles, bodies, images, descriptions; the price curve is
  flat; the coins a verdict pays out are not spendable in the model (rounded
  against the script); elections, appeals, strips, sanctions, the old clock's fallback.
* **Worktree, Harness, Guards**: the texts a guard looks for and a mutation
  changes are classes; symbolic links and caches of a shadow root; timeouts are
  an outcome. A kill never hits the stand-in of the lock's rehearsal.
* **Governor, two hazards no property covers**: the reserved lane's share of a board
  (governor.gno:776) is in the model and no longer asked about by a run; dispute questions share
  one board of 56 slots (dispute.gno:117), which `Court` leaves out.
* **Guards over source text** (`check-citations`, `check-epoch-coherence`, ...): single
  passes of patterns over files; what each catches is an arm in `Guards`.
* **Everything marked `not_modelled`** in PROJECT.json, each with its reason.

---------------------------------------------------------------------------

## 9. What would come next

In this order:

1. *Bonuses* of the author and the answerer, over `ClaimLife`; the board the rounds share.
2. *Archive*: upload, promotion by cursor and by claim, sweep, review, block and
   forget, with a node that may not answer; evidence of a filed claim is kept.
3. *Chat and scanner*: claim, verdict, failure, reclaim, consequence, with
   crashes between them and a slow classifier; the pulse.
4. *GovernedToken*: the minting kind of `offerer`, by which a vote changes the ledger it was
   weighed on; `Electorate` is the seam between the two.
5. *Elections and moderation*; *standing and posting*; the rest of the *boards*.
6. *Curve, tickbook, cshares, ccwrap*: algorithms against reference
   definitions over bounded inputs, and their conservation invariants.
7. Proofs: that no senior waits through a forgone budget when `RMaxPeriods` is positive (`held`
   stays empty); a trim of `Emission`'s queues; for which programs `SeedsAgree` holds.
