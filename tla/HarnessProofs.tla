--------------------------- MODULE HarnessProofs ---------------------------
(* What a sharded mutation run promises beside the runners that rewrite    *)
(* the tree, for any files, controls, rows and shards and any number of    *)
(* runs and kills: live shadow roots stand, a row reported caught was      *)
(* objected to, a result has one answer to every row, the readers refuse   *)
(* while the tree is being rewritten, and the originals are restored.      *)
EXTENDS Harness, TLAPS, WellFoundedInduction, FunctionTheorems, FiniteSetTheorems

Fields == {"pid", "pc", "at", "marred", "says", "code", "summary"}

ShardsTyped ==
  /\ DOMAIN shard = Shards
  /\ \A i \in Shards : Fields \subseteq DOMAIN shard[i]
  /\ {"pid", "pc", "at", "ghost"} \subseteq DOMAIN st

(* Every process was born, and a pid is used once.                         *)
PidsTyped ==
  /\ born \in Nat /\ live \subseteq 1 .. born
  /\ st.pid \in 0 .. born /\ st.ghost \in 0 .. born

Running(i) == shard[i].pc \notin {"sent", "over"}

(* A shard that runs is a live process with a root of its own, and no      *)
(* other shard, nor the self-test, nor its stand-in, is that process.      *)
ShardsApart ==
  \A i \in Shards : Running(i) =>
    /\ shard[i].pid \in live /\ shard[i].pid \in roots
    /\ shard[i].pid # st.pid /\ shard[i].pid # st.ghost
    /\ \A j \in Shards : Running(j) /\ j # i => shard[j].pid # shard[i].pid

PidsInv == ShardsTyped /\ PidsTyped /\ ShardsApart

-----------------------------------------------------------------------------
(* Nothing runs at the start.                                             *)
LEMMA InitPids == Init => PidsInv
BY DEF Init, TreeInit, NotStarted, PidsInv, ShardsTyped, PidsTyped, ShardsApart, Running,
       Fields, Nobody

(* What a step of the other runners may do to a process: start one that    *)
(* nobody was, or end the self-test or its stand-in.                       *)
TreeStep ==
  /\ born' \in Nat /\ born' >= born
  /\ {"pid", "pc", "at", "ghost"} \subseteq DOMAIN st'
  /\ live \ {st.pid, st.ghost} \subseteq live'
  /\ live' \subseteq live \union {born'} /\ live' \subseteq 1 .. born'
  /\ st'.pid = st.pid \/ (st'.pid = born + 1 /\ born' = born + 1)
  /\ st'.ghost \in {st.ghost, 0} \/ (st'.ghost = born + 1 /\ born' = born + 1)

(* Every step of the other runners is such a step.                         *)
LEMMA TreeSteps ==
  ASSUME ShardsTyped, PidsTyped, TreeNext
  PROVE  TreeStep
<1> USE DEF ShardsTyped, PidsTyped, TreeStep
<1>1. CASE Begin
  <2>1. /\ born' = born + 1 /\ live' = live \union {born'}
        /\ st' = [pid |-> born', pc |-> "control", at |-> 1, ghost |-> Nobody]
    BY <1>1 DEF Begin
  <2>2. /\ st'.pid = born + 1 /\ st'.ghost = 0
        /\ {"pid", "pc", "at", "ghost"} \subseteq DOMAIN st'
    BY <2>1 DEF Nobody
  <2>3. /\ born' \in Nat /\ born' >= born /\ live' \subseteq 1 .. born'
    BY <2>1
  <2> QED
    BY <2>1, <2>2, <2>3
<1>2. CASE Impersonate
  BY <1>2 DEF Impersonate
<1>3. CASE Bury
  BY <1>3 DEF Bury, Goto
<1>4. CASE End
  BY <1>4 DEF End, Goto
<1>5. CASE KillSelftest
  BY <1>5 DEF KillSelftest, Goto
<1>6. CASE GhostDies
  <2>1. live' = live \ {st.ghost} /\ st' = st /\ born' = born
    BY <1>6 DEF GhostDies
  <2>2. born' \in Nat /\ born' >= born
    BY <2>1
  <2>3. live' \subseteq live /\ live \subseteq 1 .. born
    BY <2>1
  <2> QED
    BY <2>1, <2>2, <2>3
<1>7. CASE SetAside \/ Plant \/ RunGuard \/ ChildClears
  BY <1>7 DEF SetAside, Plant, RunGuard, ChildClears, Goto
<1>8. CASE PutBack \/ Reclaim
  <2>1. live' = live /\ born' = born /\ NextArm
    BY <1>8 DEF PutBack, Reclaim
  <2>2. /\ st'.pid = st.pid /\ st'.ghost = 0
        /\ {"pid", "pc", "at", "ghost"} \subseteq DOMAIN st'
    BY <2>1 DEF NextArm, Nobody
  <2> QED
    BY <2>1, <2>2
<1>9. CASE Sweep \/ KillSweep
  BY <1>9 DEF Sweep, KillSweep, StartSweep, ClearForSweep, ReadRow, ApplyRow, RestoreRow, EndSweep
<1>10. CASE \E r \in Readers : Reading(r)
  BY <1>10 DEF Reading, Look, ClearLock, Read
<1> QED
  BY <1>1, <1>2, <1>3, <1>4, <1>5, <1>6, <1>7, <1>8, <1>9, <1>10 DEF TreeNext, Selftest

(* They leave the shards their processes and roots.                        *)
LEMMA TreeKeepsPids ==
  ASSUME PidsInv, TreeNext, UNCHANGED runVars
  PROVE  PidsInv'
<1>1. TreeStep
  BY TreeSteps DEF PidsInv
<1>2. ShardsTyped' /\ PidsTyped'
  BY <1>1 DEF PidsInv, ShardsTyped, PidsTyped, TreeStep, runVars, Shards
<1>3. ASSUME NEW i \in Shards, Running(i)
      PROVE  /\ shard[i].pid \in live' /\ shard[i].pid # st'.pid /\ shard[i].pid # st'.ghost
  <2>1. /\ shard[i].pid \in live /\ shard[i].pid # st.pid /\ shard[i].pid # st.ghost
        /\ shard[i].pid \in 1 .. born
    BY <1>3 DEF PidsInv, ShardsApart, PidsTyped
  <2>2. born \in Nat
    BY DEF PidsInv, PidsTyped
  <2> QED
    BY <1>1, <2>1, <2>2 DEF TreeStep
<1>4. ShardsApart'
  BY <1>3 DEF PidsInv, ShardsApart, Running, runVars, Shards
<1> QED
  BY <1>2, <1>4 DEF PidsInv

(* A shard takes a pid nobody had, and reaps only the roots of the dead.   *)
LEMMA LaunchKeepsPids ==
  ASSUME PidsInv, NEW i \in Shards, Launch(i)
  PROVE  PidsInv'
<1>1. /\ born \in Nat /\ born' = born + 1 /\ live' = live \union {born'}
      /\ live \subseteq 1 .. born /\ st.pid \in 0 .. born /\ st.ghost \in 0 .. born
  BY DEF PidsInv, PidsTyped, Launch
<1>2. /\ batch' = batch /\ st' = st /\ Shards' = Shards
      /\ roots' = (roots \intersect live) \union {born'}
  BY DEF Launch, Reap, Shards
<1>3. ShardsTyped'
  BY <1>2 DEF PidsInv, ShardsTyped, Launch, Fields
<1>4. PidsTyped'
  BY <1>1, <1>2 DEF PidsTyped
<1>5. /\ shard'[i].pid = born' /\ Fields \subseteq DOMAIN shard[i]
      /\ \A j \in Shards \ {i} : shard'[j] = shard[j]
  BY DEF PidsInv, ShardsTyped, Launch, Fields
<1>6. ASSUME NEW j \in Shards, Running(j)', j # i
      PROVE  /\ shard'[j].pid \in live' /\ shard'[j].pid \in roots'
             /\ shard'[j].pid # st'.pid /\ shard'[j].pid # st'.ghost
             /\ shard'[j].pid # born'
             /\ \A k \in Shards : Running(k)' /\ k \notin {i, j} => shard'[k].pid # shard'[j].pid
  <2>1. Running(j) /\ shard'[j] = shard[j]
    BY <1>5, <1>6 DEF Running
  <2>2. /\ shard[j].pid \in live /\ shard[j].pid \in roots
        /\ shard[j].pid # st.pid /\ shard[j].pid # st.ghost
        /\ \A k \in Shards : Running(k) /\ k # j => shard[k].pid # shard[j].pid
    BY <2>1 DEF PidsInv, ShardsApart
  <2>3. \A k \in Shards \ {i} : (Running(k)' => Running(k)) /\ shard'[k].pid = shard[k].pid
    BY <1>5 DEF Running
  <2>4. shard[j].pid # born'
    BY <2>2, <1>1
  <2> QED
    BY <1>1, <1>2, <2>1, <2>2, <2>3, <2>4
<1>7. /\ shard'[i].pid \in live' /\ shard'[i].pid \in roots'
      /\ shard'[i].pid # st'.pid /\ shard'[i].pid # st'.ghost
  BY <1>1, <1>2, <1>5
<1>8. ShardsApart'
  BY <1>2, <1>5, <1>6, <1>7 DEF ShardsApart
<1> QED
  BY <1>3, <1>4, <1>8 DEF PidsInv

(* What any other step of a shard may do: stop, or keep its pid, and take  *)
(* nobody else's process or root with it.                                  *)
ShardStep(i) ==
  /\ UNCHANGED <<batch, born, st>>
  /\ DOMAIN shard' = Shards /\ Fields \subseteq DOMAIN shard'[i]
  /\ shard'[i].pid = shard[i].pid
  /\ \A j \in Shards \ {i} : shard'[j] = shard[j]
  /\ Running(i)' => Running(i) /\ UNCHANGED <<live, roots>>
  /\ live \ {shard[i].pid} \subseteq live' /\ live' \subseteq live
  /\ roots \ {shard[i].pid} \subseteq roots'
  /\ Running(i)

(* Every other step of a shard is such a step.                             *)
LEMMA ShardSteps ==
  ASSUME ShardsTyped, NEW i \in Shards,
         Baseline(i) \/ CountAnchor(i) \/ Stage(i) \/ Test(i) \/ Summarise(i) \/ Leave(i) \/ KillShard(i)
  PROVE  ShardStep(i)
<1> USE DEF ShardsTyped, Fields, ShardStep, Running, ShardAt
<1>1. CASE Baseline(i)
  <2>1. PICK pc, code : shard' = [shard EXCEPT ![i].pc = pc, ![i].code = code]
    BY <1>1 DEF Baseline
  <2>2. /\ shard'[i].pid = shard[i].pid /\ Fields \subseteq DOMAIN shard'[i]
        /\ DOMAIN shard' = Shards /\ \A j \in Shards \ {i} : shard'[j] = shard[j]
    BY <2>1
  <2>3. UNCHANGED <<batch, born, st, live, roots>> /\ Running(i)
    BY <1>1 DEF Baseline, treeVars
  <2> QED
    BY <2>2, <2>3
<1>2. CASE CountAnchor(i)
  <2> DEFINE Kept == /\ shard'[i].pid = shard[i].pid /\ Fields \subseteq DOMAIN shard'[i]
                     /\ DOMAIN shard' = Shards
                     /\ \A j \in Shards \ {i} : shard'[j] = shard[j]
  <2>1. ASSUME shard' = [shard EXCEPT ![i].pc = "leaving", ![i].code = 1]
        PROVE  Kept
    BY <2>1
  <2>2. ASSUME NEW k, Say(i, k, "bad anchor")
        PROVE  Kept
    <3>1. PICK says, marred : shard' = [shard EXCEPT ![i].says = says, ![i].pc = "rows",
                                                     ![i].at = 0, ![i].marred = marred]
      BY <2>2 DEF Say
    <3> QED
      BY <3>1
  <2>3. ASSUME NEW k, shard' = [shard EXCEPT ![i].pc = "stage", ![i].at = k]
        PROVE  Kept
    BY <2>3
  <2>4. Kept
    <3> HIDE DEF Kept
    <3> QED
      BY <1>2, <2>1, <2>2, <2>3 DEF CountAnchor
  <2>5. UNCHANGED <<batch, born, st, live, roots>> /\ Running(i)
    BY <1>2 DEF CountAnchor, treeVars
  <2> QED
    BY <2>4, <2>5
<1>3. CASE Stage(i)
  BY <1>3 DEF Stage, treeVars
<1>4. CASE Test(i)
  <2>1. PICK says : shard' = [shard EXCEPT ![i].says = says, ![i].pc = "rows", ![i].at = 0]
    BY <1>4 DEF Test
  <2>2. /\ shard'[i].pid = shard[i].pid /\ Fields \subseteq DOMAIN shard'[i]
        /\ DOMAIN shard' = Shards /\ \A j \in Shards \ {i} : shard'[j] = shard[j]
    BY <2>1
  <2>3. UNCHANGED <<batch, born, st, live, roots>> /\ Running(i)
    BY <1>4 DEF Test, treeVars
  <2> QED
    BY <2>2, <2>3
<1>5. CASE Summarise(i)
  BY <1>5 DEF Summarise, treeVars
<1>6. CASE Leave(i)
  BY <1>6 DEF Leave
<1>7. CASE KillShard(i)
  BY <1>7 DEF KillShard
<1> QED
  BY <1>1, <1>2, <1>3, <1>4, <1>5, <1>6, <1>7

(* It leaves the other shards their processes and roots.                   *)
LEMMA ShardKeepsPids ==
  ASSUME PidsInv, NEW i \in Shards, ShardStep(i)
  PROVE  PidsInv'
<1>1. Shards' = Shards /\ st' = st /\ born' = born
  BY DEF ShardStep, Shards
<1>2. \A j \in Shards \ {i} : shard'[j] = shard[j]
  BY DEF ShardStep
<1>3. ShardsTyped'
  BY <1>1, <1>2 DEF PidsInv, ShardsTyped, ShardStep
<1>4. PidsTyped'
  BY <1>1 DEF PidsInv, PidsTyped, ShardStep
<1>5. \A j \in Shards : shard'[j].pid = shard[j].pid /\ (Running(j)' => Running(j))
  BY <1>2 DEF ShardStep, Running
<1>6. ASSUME NEW j \in Shards, Running(j)'
      PROVE  shard[j].pid \in live' /\ shard[j].pid \in roots'
  <2>1. shard[j].pid \in live /\ shard[j].pid \in roots
    BY <1>5, <1>6 DEF PidsInv, ShardsApart
  <2>2. CASE j = i
    BY <1>6, <2>1, <2>2 DEF ShardStep
  <2>3. CASE j # i
    <3>1. shard[j].pid # shard[i].pid
      BY <1>5, <1>6, <2>3 DEF PidsInv, ShardsApart, ShardStep
    <3> QED
      BY <2>1, <3>1 DEF ShardStep
  <2> QED
    BY <2>2, <2>3
<1>7. ShardsApart'
  BY <1>1, <1>5, <1>6 DEF PidsInv, ShardsApart
<1> QED
  BY <1>3, <1>4, <1>7 DEF PidsInv

(* Every step keeps the pids.                                              *)
LEMMA NextKeepsPids == PidsInv /\ [Next]_vars => PidsInv'
<1> SUFFICES ASSUME PidsInv, [Next]_vars
             PROVE  PidsInv'
  OBVIOUS
<1>1. CASE TreeNext /\ UNCHANGED runVars
  BY <1>1, TreeKeepsPids
<1>2. ASSUME NEW i \in Shards, Launch(i)
      PROVE  PidsInv'
  BY <1>2, LaunchKeepsPids
<1>3. ASSUME NEW i \in Shards,
             Baseline(i) \/ CountAnchor(i) \/ Stage(i) \/ Test(i) \/ Summarise(i) \/ Leave(i) \/ KillShard(i)
      PROVE  PidsInv'
  <2>1. ShardStep(i)
    BY <1>3, ShardSteps DEF PidsInv
  <2> QED
    BY <2>1, ShardKeepsPids
<1>4. CASE Report \/ UNCHANGED vars
  <2>1. UNCHANGED <<live, born, st, batch, shard, roots>>
    BY <1>4 DEF Report, vars, treeVars, runVars
  <2> QED
    BY <2>1 DEF PidsInv, ShardsTyped, PidsTyped, ShardsApart, Running, Shards
<1> QED
  BY <1>1, <1>2, <1>3, <1>4 DEF Next, RunNext

(* "Live roots are never touched": the root of a shard that runs stands.   *)
THEOREM LiveRootsStand == Spec => []RootsStayOwn
<1>1. PidsInv => RootsStayOwn
  BY DEF PidsInv, ShardsApart, Running, RootsStayOwn
<1> QED
  BY <1>1, InitPids, NextKeepsPids, PTL DEF Spec

-----------------------------------------------------------------------------
Verdicts == {"unclassified", "timed out", "covered elsewhere", "survived", "invalid",
             "caught", "bad anchor"}

Objected(r) ==
  /\ r.matches = 1 /\ r.effect = "runs" /\ r.code = "none"
  /\ OBSERVERS[r.pkg] \intersect r.objectors # {}
  /\ OBSERVERS[r.pkg] \intersect r.hangs = {}

Backed(i) == \A k \in DOMAIN shard[i].says \ shard[i].marred :
                shard[i].says[k] = "caught" => Objected(batch[k])

Over == \A i \in Shards : ShardAt(i, "over")

(* A shard answers for its own rows; a verdict is given over the answers   *)
(* of shards that are over.                                                *)
RowsOf(i) ==
  /\ DOMAIN shard[i].says \subseteq Mine(i)
  /\ shard[i].summary => Left(i) = {}
  /\ shard[i].pc \in {"stage", "test"} => shard[i].at \in Mine(i)
  /\ \A k \in DOMAIN shard[i].says : shard[i].says[k] \in Verdicts
  /\ Backed(i)

RowsInv ==
  /\ ShardsTyped
  /\ batch \in Batches \union Beside
  /\ \A i \in Shards : RowsOf(i)
  /\ report # "none" => Over
  /\ report = "a result" => batch # <<>> /\ IsResult(Answers, Len(batch))

(* The ladder of verdicts: caught says the mutant built and was objected   *)
(* to, by suites that all ran to the end.                                  *)
LEMMA CaughtSays ==
  ASSUME NEW r, r.code \notin COMPILE_CODES \union RUNTIME_CODES
  PROVE  Verdict(r) \in Verdicts /\ (Verdict(r) = "caught" => Objected(r))
<1> DEFINE run == RunSuite(r)
<1>1. Judge(r, run) \in Verdicts
  BY DEF Judge, Verdicts
<1>2. ASSUME r.matches = 1, Judge(r, run) = "caught"
      PROVE  Objected(r)
  <2>1. /\ run.codes \subseteq COMPILE_CODES \union RUNTIME_CODES
        /\ run.hung = {} /\ ~run.ok /\ run.built
    <3> HIDE DEF run
    <3> QED
      BY <1>2 DEF Judge
  <2> DEFINE names == IF MutantBuilds(r) THEN OBSERVERS[r.pkg] ELSE {}
  <2>2. /\ run.built = MutantBuilds(r) /\ run.hung = names \intersect r.hangs
        /\ run.ok = (MutantBuilds(r) /\ names \intersect r.hangs = {}
                       /\ (names \intersect r.objectors) \ (names \intersect r.hangs) = {})
        /\ run.codes = LintCodes(r) \union
                         (IF names \ (names \intersect r.hangs) # {} /\ r.code # "none"
                          THEN {r.code} ELSE {})
    BY DEF RunSuite
  <2>3. r.effect = "runs" /\ names = OBSERVERS[r.pkg]
    BY <2>1, <2>2 DEF MutantBuilds
  <2> HIDE DEF run, names
  <2>4. names \intersect r.hangs = {} /\ names \intersect r.objectors # {}
    BY <2>1, <2>2
  <2>5. r.code = "none"
    BY <2>1, <2>2, <2>4
  <2> QED
    BY <1>2, <2>3, <2>4, <2>5 DEF Objected
<1> QED
  BY <1>1, <1>2 DEF Verdict, Verdicts

(* A set of numbers that is not empty has a least one.                     *)
LEMMA LeastNumber ==
  ASSUME NEW T, T \subseteq Nat, T # {}
  PROVE  \E x \in T : \A y \in T : x <= y
<1>1. \E x \in T : \A y \in T : ~ (<<y, x>> \in OpToRel(<, Nat))
  BY NatLessThanWellFounded, WFMin, Zenon
<1>2. PICK x \in T : \A y \in T : ~ (<<y, x>> \in OpToRel(<, Nat))
  BY <1>1
<1>3. \A y \in T : ~ (y < x)
  BY <1>2 DEF OpToRel
<1> QED
  BY <1>3

(* The rows of a batch are numbered, and a shard's are some of them.       *)
LEMMA MineAreRows ==
  ASSUME batch \in Batches \union Beside, NEW i \in Shards
  PROVE  /\ Len(batch) \in Nat /\ DOMAIN batch = 1 .. Len(batch)
         /\ Mine(i) \subseteq DOMAIN batch
<1>1. batch \in Seq({batch[k] : k \in DOMAIN batch})
  BY BatchesAssumption
<1> QED
  BY <1>1 DEF Mine, Dealt

(* The next row of a shard is one of its own.                              *)
LEMMA NextIsMine ==
  ASSUME batch \in Batches \union Beside, NEW i \in Shards, Left(i) # {}
  PROVE  Next1(i) \in Mine(i)
<1>1. Left(i) \subseteq Nat /\ Left(i) \subseteq Mine(i)
  BY MineAreRows DEF Left
<1>2. \E k \in Left(i) : \A l \in Left(i) : k <= l
  BY <1>1, LeastNumber
<1> QED
  BY <1>1, <1>2 DEF Next1

LEMMA InitRows == Init => RowsInv
<1> SUFFICES ASSUME Init
             PROVE  RowsInv
  OBVIOUS
<1>1. ShardsTyped
  BY InitPids DEF PidsInv
<1>2. \A i \in Shards : RowsOf(i)
  BY DEF Init, NotStarted, RowsOf, Backed
<1> QED
  BY <1>1, <1>2 DEF Init, RowsInv

(* What an answer changes of a shard.                                      *)
Answered(i, says, marred) ==
  shard' = [shard EXCEPT ![i].says = says, ![i].pc = "rows", ![i].at = 0,
                         ![i].marred = marred]

LEMMA AnswerFields ==
  ASSUME ShardsTyped, NEW i \in Shards, NEW says, NEW marred, Answered(i, says, marred)
  PROVE  /\ shard'[i].says = says /\ shard'[i].pc = "rows" /\ shard'[i].marred = marred
         /\ shard'[i].summary = shard[i].summary
<1>1. Fields \subseteq DOMAIN shard[i] /\ i \in DOMAIN shard
  BY DEF ShardsTyped
<1> QED
  BY <1>1 DEF Fields, Answered

(* What one more answer must be for the shard's rows to stay in order.     *)
LEMMA OneMoreAnswer ==
  ASSUME RowsInv, NEW i \in Shards, NEW k \in Mine(i), NEW verdict \in Verdicts, NEW marred,
         shard[i].marred \subseteq marred,
         verdict = "caught" => Objected(batch[k]) \/ k \in marred,
         NEW says, DOMAIN says = DOMAIN shard[i].says \union {k},
         \A l \in DOMAIN says : says[l] = IF l = k THEN verdict ELSE shard[i].says[l],
         Answered(i, says, marred), batch' = batch
  PROVE  RowsOf(i)'
<1>1. /\ shard'[i].says = says /\ shard'[i].pc = "rows" /\ shard'[i].marred = marred
      /\ shard'[i].summary = shard[i].summary
  <2>1. ShardsTyped
    BY DEF RowsInv
  <2> QED
    BY <2>1, AnswerFields
<1>2. RowsOf(i)
  BY DEF RowsInv
<1>3. Mine(i)' = Mine(i)
  BY DEF Mine
<1>4. DOMAIN says \subseteq Mine(i)
  BY <1>2 DEF RowsOf
<1>5. \A l \in DOMAIN says : says[l] \in Verdicts
  BY <1>2 DEF RowsOf
<1>7. shard'[i].summary => Left(i)' = {}
  BY <1>1, <1>2, <1>3 DEF RowsOf, Left
<1>6. \A l \in DOMAIN says \ marred : says[l] = "caught" => Objected(batch[l])
  BY <1>2 DEF RowsOf, Backed
<1> QED
  BY <1>1, <1>3, <1>4, <1>5, <1>6, <1>7 DEF RowsOf, Backed

(* A step that leaves a shard's answers and adds nothing to its hand.      *)
LEMMA SameAnswers ==
  ASSUME RowsInv, NEW i \in Shards, batch' = batch,
         shard'[i].says = shard[i].says, shard[i].marred \subseteq shard'[i].marred,
         shard'[i].summary => shard[i].summary \/ Left(i) = {},
         shard'[i].pc \in {"stage", "test"} => shard'[i].at \in Mine(i)
  PROVE  RowsOf(i)'
<1>1. RowsOf(i)
  BY DEF RowsInv
<1>2. Mine(i)' = Mine(i)
  BY DEF Mine
<1>3. Left(i)' = Left(i)
  BY <1>2 DEF Left
<1> QED
  BY <1>1, <1>2, <1>3 DEF RowsOf, Backed

(* A step of one shard that keeps its rows in order, while there is no     *)
(* verdict yet, keeps everybody's.                                         *)
LEMMA OneShard ==
  ASSUME RowsInv, NEW i \in Shards, ~ShardAt(i, "over"), RowsOf(i)',
         UNCHANGED <<batch, report>>, Fields \subseteq DOMAIN shard'[i],
         DOMAIN shard' = Shards, \A j \in Shards \ {i} : shard'[j] = shard[j], st' = st
  PROVE  RowsInv'
<1>1. Shards' = Shards /\ report = "none"
  BY DEF Shards, RowsInv, Over
<1>2. ShardsTyped'
  BY <1>1 DEF RowsInv, ShardsTyped
<1>3. ASSUME NEW j \in Shards, j # i PROVE RowsOf(j)'
  BY <1>3, SameAnswers DEF RowsInv, RowsOf
<1> QED
  BY <1>1, <1>2, <1>3 DEF RowsInv

LEMMA LaunchKeepsRows ==
  ASSUME RowsInv, NEW i \in Shards, Launch(i)
  PROVE  RowsInv'
<1>1. /\ shard' = [shard EXCEPT ![i].pid = born', ![i].pc = "baseline"]
      /\ UNCHANGED <<batch, report, st>> /\ ShardAt(i, "sent")
      /\ Fields \subseteq DOMAIN shard[i] /\ DOMAIN shard = Shards
  BY DEF Launch, RowsInv, ShardsTyped
<1>2. /\ shard'[i].says = shard[i].says /\ shard'[i].marred = shard[i].marred
      /\ shard'[i].summary = shard[i].summary
      /\ shard'[i].pc = "baseline" /\ Fields \subseteq DOMAIN shard'[i]
      /\ DOMAIN shard' = Shards /\ \A j \in Shards \ {i} : shard'[j] = shard[j]
  BY <1>1 DEF Fields
<1>3. RowsOf(i)'
  BY <1>1, <1>2, SameAnswers
<1> QED
  BY <1>1, <1>2, <1>3, OneShard DEF ShardAt

LEMMA CountKeepsRows ==
  ASSUME RowsInv, NEW i \in Shards, CountAnchor(i)
  PROVE  RowsOf(i)'
<1> DEFINE k == Next1(i)
<1>1. k \in Mine(i)
  BY NextIsMine DEF RowsInv, CountAnchor
<1>2. Fields \subseteq DOMAIN shard[i] /\ DOMAIN shard = Shards /\ batch' = batch
  BY DEF CountAnchor, RowsInv, ShardsTyped
<1>3. CASE shard' = [shard EXCEPT ![i].pc = "leaving", ![i].code = 1]
  <2>1. /\ shard'[i].says = shard[i].says /\ shard'[i].marred = shard[i].marred
        /\ shard'[i].pc = "leaving" /\ shard'[i].summary = shard[i].summary
    BY <1>2, <1>3 DEF Fields
  <2> QED
    BY <1>2, <2>1, SameAnswers
<1>4. CASE Say(i, k, "bad anchor")
  <2> DEFINE says == [l \in DOMAIN shard[i].says \union {k} |->
                        IF l = k THEN "bad anchor" ELSE shard[i].says[l]]
  <2>1. PICK marred : shard[i].marred \subseteq marred /\ Answered(i, says, marred)
    BY <1>4 DEF Say, Answered
  <2>2. /\ DOMAIN says = DOMAIN shard[i].says \union {k}
        /\ \A l \in DOMAIN says : says[l] = IF l = k THEN "bad anchor" ELSE shard[i].says[l]
    OBVIOUS
  <2>3. "bad anchor" \in Verdicts /\ "bad anchor" # "caught"
    BY DEF Verdicts
  <2> HIDE DEF says, k
  <2> QED
    BY <1>1, <1>2, <2>1, <2>2, <2>3, OneMoreAnswer
<1>5. CASE shard' = [shard EXCEPT ![i].pc = "stage", ![i].at = k]
  <2>1. /\ shard'[i].says = shard[i].says /\ shard'[i].marred = shard[i].marred
        /\ shard'[i].pc = "stage" /\ shard'[i].at = k
        /\ shard'[i].summary = shard[i].summary
    <3> HIDE DEF k
    <3> QED
      BY <1>2, <1>5 DEF Fields
  <2> QED
    BY <1>1, <1>2, <2>1, SameAnswers
<1> QED
  BY <1>3, <1>4, <1>5 DEF CountAnchor

LEMMA TestKeepsRows ==
  ASSUME RowsInv, NEW i \in Shards, Test(i)
  PROVE  RowsOf(i)'
<1> DEFINE k == shard[i].at
<1>1. k \in Mine(i) /\ k \in DOMAIN batch
  BY MineAreRows DEF RowsInv, RowsOf, Test, ShardAt
<1>2. Verdict(batch[k]) \in Verdicts
      /\ (Verdict(batch[k]) = "caught" => Objected(batch[k]))
  BY <1>1, CaughtSays, BatchesAssumption DEF RowsInv
<1>3. PICK verdict \in {Verdict(batch[k]), "caught", "timed out", "invalid"} :
        /\ verdict \in Verdicts
        /\ verdict = "caught" => Objected(batch[k]) \/ k \in shard[i].marred
        /\ shard' = [shard EXCEPT ![i].says = [l \in DOMAIN shard[i].says \union {k} |->
                                       IF l = k THEN verdict ELSE shard[i].says[l]],
                                  ![i].pc = "rows", ![i].at = 0]
  BY <1>2 DEF Test, Verdicts
<1> DEFINE says == [l \in DOMAIN shard[i].says \union {k} |->
                      IF l = k THEN verdict ELSE shard[i].says[l]]
<1>4. Answered(i, says, shard[i].marred)
  <2>1. shard' = [shard EXCEPT ![i].says = says, ![i].pc = "rows", ![i].at = 0]
    BY <1>3
  <2>2. Fields \subseteq DOMAIN shard[i] /\ i \in DOMAIN shard
    BY DEF RowsInv, ShardsTyped
  <2> HIDE DEF says
  <2> QED
    BY <2>1, <2>2 DEF Fields, Answered
<1>5. /\ DOMAIN says = DOMAIN shard[i].says \union {k}
      /\ \A l \in DOMAIN says : says[l] = IF l = k THEN verdict ELSE shard[i].says[l]
  OBVIOUS
<1> DEFINE marred == shard[i].marred
<1>6. /\ batch' = batch /\ shard[i].marred \subseteq marred /\ Answered(i, says, marred)
      /\ verdict \in Verdicts /\ (verdict = "caught" => Objected(batch[k]) \/ k \in marred)
  BY <1>3, <1>4 DEF Test
<1> HIDE DEF says, k, marred
<1> QED
  BY <1>1, <1>5, <1>6, OneMoreAnswer

(* Every step of a shard but its start keeps its rows in order.            *)
LEMMA ShardKeepsRows ==
  ASSUME RowsInv, NEW i \in Shards,
         Baseline(i) \/ CountAnchor(i) \/ Stage(i) \/ Test(i) \/ Summarise(i) \/ Leave(i) \/ KillShard(i)
  PROVE  RowsInv'
<1> DEFINE Kept == /\ shard'[i].says = shard[i].says /\ shard[i].marred \subseteq shard'[i].marred
                   /\ shard'[i].summary => shard[i].summary \/ Left(i) = {}
                   /\ shard'[i].pc \in {"stage", "test"} => shard'[i].at \in Mine(i)
<1>1. ShardStep(i) /\ ~ShardAt(i, "over")
  BY ShardSteps DEF RowsInv, ShardStep, Running, ShardAt
<1>2. Fields \subseteq DOMAIN shard[i] /\ DOMAIN shard = Shards
  BY DEF RowsInv, ShardsTyped
<1>3. UNCHANGED <<batch, report>>
  BY DEF Baseline, CountAnchor, Stage, Test, Summarise, Leave, KillShard
<1>4. ASSUME Baseline(i) PROVE Kept
  <2>1. PICK good \in BOOLEAN : shard' = [shard EXCEPT ![i].pc = IF good THEN "rows" ELSE "leaving",
                                                       ![i].code = IF good THEN 0 ELSE 2]
    BY <1>4 DEF Baseline
  <2>2. /\ shard'[i].pc \in {"rows", "leaving"} /\ shard'[i].says = shard[i].says
        /\ shard'[i].marred = shard[i].marred /\ shard'[i].summary = shard[i].summary
    BY <1>2, <2>1 DEF Fields
  <2> QED
    BY <2>2
<1>5. ASSUME Stage(i) PROVE Kept
  <2>1. PICK marred : /\ shard[i].marred \subseteq marred
                      /\ shard' = [shard EXCEPT ![i].pc = "test", ![i].marred = marred]
    BY <1>5 DEF Stage
  <2>2. shard[i].at \in Mine(i)
    BY <1>5 DEF Stage, ShardAt, RowsInv, RowsOf
  <2>3. /\ shard'[i].at = shard[i].at /\ shard'[i].says = shard[i].says
        /\ shard'[i].marred = marred /\ shard'[i].summary = shard[i].summary
    BY <1>2, <2>1 DEF Fields
  <2> QED
    BY <2>1, <2>2, <2>3
<1>6. ASSUME Summarise(i) PROVE Kept
  <2>1. /\ shard'[i].pc = "leaving" /\ shard'[i].says = shard[i].says
        /\ shard'[i].marred = shard[i].marred /\ Left(i) = {}
    BY <1>2, <1>6 DEF Summarise, Fields
  <2> QED
    BY <2>1
<1>7. ASSUME Leave(i) PROVE Kept
  <2>1. /\ shard'[i].pc = "over" /\ shard'[i].says = shard[i].says
        /\ shard'[i].marred = shard[i].marred /\ shard'[i].summary = shard[i].summary
    BY <1>2, <1>7 DEF Leave, Fields
  <2> QED
    BY <2>1
<1>8. ASSUME KillShard(i) PROVE Kept
  <2>1. /\ shard'[i].pc = "over" /\ shard'[i].says = shard[i].says
        /\ shard'[i].marred = shard[i].marred /\ shard'[i].summary = shard[i].summary
    BY <1>2, <1>8 DEF KillShard, Fields
  <2> QED
    BY <2>1
<1> HIDE DEF Kept
<1>9. ASSUME Kept PROVE RowsOf(i)'
  BY <1>3, <1>9, SameAnswers DEF Kept
<1>10. RowsOf(i)'
  BY <1>4, <1>5, <1>6, <1>7, <1>8, <1>9, CountKeepsRows, TestKeepsRows
<1> QED
  BY <1>1, <1>3, <1>10, OneShard DEF ShardStep

LEMMA NextKeepsRows == RowsInv /\ PidsInv' /\ [Next]_vars => RowsInv'
<1> SUFFICES ASSUME RowsInv, PidsInv', [Next]_vars
             PROVE  RowsInv'
  OBVIOUS
<1>1. CASE UNCHANGED runVars /\ (TreeNext \/ UNCHANGED vars)
  <2>1. UNCHANGED <<batch, shard, report>> /\ Shards' = Shards
    BY <1>1 DEF runVars, Shards
  <2>3. \A i \in Shards : RowsOf(i)'
    BY <2>1, SameAnswers DEF RowsInv, RowsOf
  <2>4. ShardsTyped' /\ Answers' = Answers
    BY <2>1 DEF PidsInv, Answers, Mine
  <2>5. Over' = Over
    BY <2>1 DEF Over, ShardAt
  <2> QED
    BY <2>1, <2>3, <2>4, <2>5 DEF RowsInv
<1>2. CASE Report
  <2>1. UNCHANGED <<batch, shard, st>> /\ Shards' = Shards /\ Answers' = Answers
    BY <1>2 DEF Report, Shards, treeVars, Answers, Mine
  <2>2. \A i \in Shards : RowsOf(i)'
    BY <2>1, SameAnswers DEF RowsInv, RowsOf
  <2>3. Over' /\ (report' = "a result" => batch # <<>> /\ IsResult(Answers, Len(batch)))
    BY <1>2, <2>1 DEF Report, Over, ShardAt
  <2> QED
    BY <2>1, <2>2, <2>3 DEF RowsInv, ShardsTyped
<1> QED
  BY <1>1, <1>2, LaunchKeepsRows, ShardKeepsRows DEF Next, RunNext, vars, runVars

LEMMA RowsKept == Spec => [](PidsInv /\ RowsInv)
BY InitPids, InitRows, NextKeepsPids, NextKeepsRows, PTL DEF Spec

(* A row is reported caught only if its mutant was applied once, built,    *)
(* and a suite that observes its package ran to the end and objected,      *)
(* unless the copy it was judged in had somebody's break in it.            *)
THEOREM CaughtIsEvidence == Spec => []CaughtWasObjectedTo
<1>1. RowsInv => CaughtWasObjectedTo
  BY DEF RowsInv, RowsOf, Backed, Objected, CaughtWasObjectedTo
<1> QED
  BY <1>1, RowsKept, PTL

(* Each row is some shard's.                                               *)
LEMMA RowsAreDealt ==
  ASSUME RowsInv, NEW k \in DOMAIN batch
  PROVE  \E i \in Shards : k \in Mine(i)
<1>1. batch \in Seq({batch[l] : l \in DOMAIN batch}) /\ Asked \in Nat \ {0}
  BY BatchesAssumption DEF RowsInv
<1>2. Len(batch) \in Nat /\ k \in 1 .. Len(batch)
  BY <1>1
<1> DEFINE n == ShardCount(Asked, Len(batch))
<1>3. n \in Nat \ {0}
  BY <1>1, <1>2 DEF ShardCount
<1> HIDE DEF n
<1>4. k - 1 \in Nat /\ (k - 1) % n \in 0 .. (n - 1)
  BY <1>2, <1>3
<1>5. k \in Mine((k - 1) % n)
  BY <1>2 DEF Mine, Dealt, n
<1> QED
  BY <1>4, <1>5 DEF Shards, n

(* The shards that summed up answered all they were sent, and the rows are *)
(* dealt so that each is one shard's.                                      *)
LEMMA OneAnswerEach ==
  ASSUME RowsInv, IsResult(Answers, Len(batch)), NEW k \in DOMAIN batch
  PROVE  Cardinality({i \in Shards : k \in DOMAIN shard[i].says}) = 1
<1>1. \A i \in Shards : DOMAIN shard[i].says = Mine(i)
  <2>1. \A i \in Shards : shard[i].summary
    BY DEF IsResult, Broken, Answers
  <2> QED
    BY <2>1 DEF RowsInv, RowsOf, Left
<1>2. PICK i \in Shards : k \in Mine(i)
  BY RowsAreDealt
<1>3. ASSUME NEW j \in Shards, k \in Mine(j)
      PROVE  j = i
  BY <1>2, <1>3 DEF Mine, Dealt
<1>4. {j \in Shards : k \in DOMAIN shard[j].says} = {i}
  BY <1>1, <1>2, <1>3
<1> QED
  BY <1>4, FS_Singleton

(* A run that is a result heard of every row, from one shard each: the     *)
(* totals that were added up stand for rows that were judged.              *)
THEOREM ResultsAreWhole == Spec => []ResultCountsEveryRow
<1>1. RowsInv => ResultCountsEveryRow
  BY OneAnswerEach DEF RowsInv, ResultCountsEveryRow
<1> QED
  BY <1>1, RowsKept, PTL

-----------------------------------------------------------------------------
(* What the corpus guards pass a shard can judge: it is not fatal, its      *)
(* anchor is found, and an invalid one is not one the guards would tell.   *)
LEMMA PassedRows ==
  ASSUME RowsInv, Preflight, NEW k \in DOMAIN batch
  PROVE  /\ ~Fatal(batch[k]) /\ batch[k].matches = 1
         /\ Verdict(batch[k]) # "bad anchor"
         /\ Verdict(batch[k]) = "invalid" =>
               batch[k].effect \in {"type error", "goroutine", "lint hangs"}
<1> DEFINE r == batch[k]
<1>1. /\ r.code \notin COMPILE_CODES \union RUNTIME_CODES
      /\ r.effect \in {"runs", "no parse", "unused name", "type error", "goroutine",
                       "lint hangs"}
  BY BatchesAssumption DEF RowsInv
<1>2. Usable(r)
  BY DEF Preflight, CollisionsPass
<1> HIDE DEF r
<1>3. ~Fatal(r) /\ r.matches = 1 /\ r.effect \notin {"no parse", "unused name"}
  BY <1>2 DEF Usable, Fatal
<1>4. Judge(r, RunSuite(r)) # "bad anchor"
  BY DEF Judge
<1>5. ASSUME r.effect = "runs" PROVE Judge(r, RunSuite(r)) # "invalid"
  <2> DEFINE run == RunSuite(r)
  <2>1. run.built /\ run.codes \subseteq {r.code}
    BY <1>5 DEF RunSuite, MutantBuilds, LintCodes
  <2>2. run.codes \intersect COMPILE_CODES = {}
    BY <1>1, <2>1
  <2> HIDE DEF run
  <2>3. Judge(r, run) # "invalid"
    BY <2>1, <2>2 DEF Judge
  <2> QED
    BY <2>3 DEF run
<1>6. Verdict(r) # "bad anchor" /\ (Verdict(r) = "invalid" => r.effect # "runs")
  BY <1>3, <1>4, <1>5 DEF Verdict
<1>7. Verdict(r) = "invalid" => r.effect \in {"type error", "goroutine", "lint hangs"}
  BY <1>1, <1>3, <1>6
<1> QED
  BY <1>3, <1>6, <1>7 DEF r

(* With nothing killed a shard that leaves with a good code has said its   *)
(* summary and all its rows; and what it says of a row is the row's        *)
(* verdict, unless it met a break in the tree.                             *)
Spared(i) ==
  /\ shard[i].code \in {0, 2}
  /\ shard[i].pc \in {"leaving", "over"} /\ shard[i].code = 0 =>
        shard[i].summary /\ Left(i) = {}
  /\ shard[i].marred = {} =>
        \A k \in DOMAIN shard[i].says : shard[i].says[k] = Verdict(batch[k])

SpareInv ==
  /\ kills \in Nat
  /\ report \in {"none", "refused", "not a result", "a result"}
  /\ report = "refused" => batch = <<>>
  /\ report = "not a result" => ~IsResult(Answers, Len(batch))
  /\ Preflight /\ kills = 0 => \A i \in Shards : Spared(i)

(* Nothing has been said at the start.                                     *)
LEMMA InitSpare == Init => SpareInv
<1> SUFFICES ASSUME Init
             PROVE  SpareInv
  OBVIOUS
<1>1. kills = 0 /\ report = "none"
  BY DEF Init, TreeInit
<1>2. ASSUME NEW i \in Shards PROVE Spared(i)
  <2>1. shard[i] = NotStarted
    BY <1>2 DEF Init
  <2> QED
    BY <2>1 DEF NotStarted, Spared
<1> QED
  BY <1>1, <1>2 DEF SpareInv

(* A count of kills that is 0 after a step was 0 before it.               *)
LEMMA KillsGrow ==
  ASSUME kills \in Nat, kills' = kills \/ kills' = kills + 1
  PROVE  kills' \in Nat /\ (kills' = 0 => kills = 0 /\ kills' = kills)
OBVIOUS

(* A step of one shard leaves the others as they are, and no verdict has   *)
(* been given.                                                             *)
LEMMA OneShardSpares ==
  ASSUME RowsInv, SpareInv, NEW i \in Shards, ~ShardAt(i, "over"),
         UNCHANGED <<batch, report>>, \A j \in Shards \ {i} : shard'[j] = shard[j],
         kills' = kills \/ kills' = kills + 1,
         Preflight /\ kills' = 0 => Spared(i)'
  PROVE  SpareInv'
<1>1. report = "none" /\ Shards' = Shards /\ Preflight' = Preflight
  BY DEF RowsInv, Over, Shards, Preflight
<1>2. kills \in Nat /\ kills' \in Nat /\ (kills' = 0 => kills = 0)
  BY KillsGrow DEF SpareInv
<1>3. ASSUME Preflight, kills' = 0, NEW j \in Shards, j # i PROVE Spared(j)'
  <2>1. Spared(j) /\ shard'[j] = shard[j]
    BY <1>2, <1>3 DEF SpareInv
  <2>2. Left(j)' = Left(j)
    BY <2>1 DEF Left, Mine
  <2> QED
    BY <2>1, <2>2 DEF Spared
<1> QED
  BY <1>1, <1>2, <1>3 DEF SpareInv

(* A shard that goes on with the same answers.                             *)
LEMMA SameSpared ==
  ASSUME NEW i \in Shards, Spared(i), batch' = batch, shard'[i].says = shard[i].says,
         shard[i].marred \subseteq shard'[i].marred, shard'[i].code \in {0, 2},
         shard'[i].pc \in {"leaving", "over"} /\ shard'[i].code = 0 =>
            shard'[i].summary /\ Left(i) = {}
  PROVE  Spared(i)'
<1>1. Left(i)' = Left(i)
  BY DEF Left, Mine
<1>2. shard'[i].marred = {} => shard[i].marred = {}
  OBVIOUS
<1> QED
  BY <1>1, <1>2 DEF Spared

(* A shard that answers one more row, with its verdict unless it met a     *)
(* break.                                                                  *)
LEMMA MoreSpared ==
  ASSUME NEW i \in Shards, Spared(i), batch' = batch, NEW k, NEW verdict,
         shard'[i].says = [l \in DOMAIN shard[i].says \union {k} |->
                             IF l = k THEN verdict ELSE shard[i].says[l]],
         shard[i].marred \subseteq shard'[i].marred,
         shard'[i].marred = {} => verdict = Verdict(batch[k]),
         shard'[i].code = shard[i].code, shard'[i].pc = "rows"
  PROVE  Spared(i)'
<1>1. shard'[i].code \in {0, 2} /\ shard'[i].pc \notin {"leaving", "over"}
  BY DEF Spared
<1>2. ASSUME shard'[i].marred = {}, NEW l \in DOMAIN shard'[i].says
      PROVE  shard'[i].says[l] = Verdict(batch[l])
  <2>1. shard[i].marred = {} /\ \A m \in DOMAIN shard[i].says : shard[i].says[m] = Verdict(batch[m])
    BY <1>2 DEF Spared
  <2> QED
    BY <1>2, <2>1
<1> QED
  BY <1>1, <1>2 DEF Spared

LEMMA CountSpares ==
  ASSUME RowsInv, Preflight, NEW i \in Shards, Spared(i), CountAnchor(i)
  PROVE  Spared(i)'
<1> DEFINE k == Next1(i)
<1>1. k \in DOMAIN batch
  BY NextIsMine, MineAreRows DEF RowsInv, CountAnchor
<1>2. ~Fatal(batch[k]) /\ batch[k].matches = 1
  BY <1>1, PassedRows
<1>3. Fields \subseteq DOMAIN shard[i] /\ DOMAIN shard = Shards /\ batch' = batch
  BY DEF CountAnchor, RowsInv, ShardsTyped
<1>4. CASE ~TreeIsClean /\ Say(i, k, "bad anchor")
  <2> DEFINE v      == "bad anchor"
             says   == [l \in DOMAIN shard[i].says \union {k} |->
                          IF l = k THEN v ELSE shard[i].says[l]]
             marred == shard[i].marred \union {k}
  <2>1. shard' = [shard EXCEPT ![i].says = says, ![i].pc = "rows", ![i].at = 0,
                               ![i].marred = marred]
    BY <1>4 DEF Say
  <2>2. marred # {} /\ shard[i].marred \subseteq marred
    OBVIOUS
  <2> HIDE DEF says, marred, k
  <2>3. /\ shard'[i].says = says /\ shard'[i].marred = marred
        /\ shard'[i].code = shard[i].code /\ shard'[i].pc = "rows"
    BY <1>3, <2>1 DEF Fields
  <2> HIDE DEF v
  <2>4. shard'[i].says = [l \in DOMAIN shard[i].says \union {k} |->
                             IF l = k THEN v ELSE shard[i].says[l]]
    BY <2>3 DEF says
  <2> QED
    BY <1>3, <2>2, <2>3, <2>4, MoreSpared
<1>5. CASE shard' = [shard EXCEPT ![i].pc = "stage", ![i].at = k]
  <2> HIDE DEF k
  <2>1. /\ shard'[i].says = shard[i].says /\ shard'[i].marred = shard[i].marred
        /\ shard'[i].code = shard[i].code /\ shard'[i].pc = "stage"
    BY <1>3, <1>5 DEF Fields
  <2>2. shard'[i].code \in {0, 2}
    BY <2>1 DEF Spared
  <2> QED
    BY <1>3, <2>1, <2>2, SameSpared
<1> QED
  BY <1>2, <1>4, <1>5 DEF CountAnchor

LEMMA TestSpares ==
  ASSUME RowsInv, NEW i \in Shards, Spared(i), Test(i)
  PROVE  Spared(i)'
<1> DEFINE k == shard[i].at
<1>1. Fields \subseteq DOMAIN shard[i] /\ DOMAIN shard = Shards /\ batch' = batch
  BY DEF Test, RowsInv, ShardsTyped
<1>2. PICK verdict :
        /\ k \notin shard[i].marred => verdict = Verdict(batch[k])
        /\ shard' = [shard EXCEPT ![i].says = [l \in DOMAIN shard[i].says \union {k} |->
                                       IF l = k THEN verdict ELSE shard[i].says[l]],
                                  ![i].pc = "rows", ![i].at = 0]
  BY DEF Test
<1> DEFINE says == [l \in DOMAIN shard[i].says \union {k} |->
                      IF l = k THEN verdict ELSE shard[i].says[l]]
<1>3. shard' = [shard EXCEPT ![i].says = says, ![i].pc = "rows", ![i].at = 0]
  BY <1>2
<1>4. /\ shard'[i].says = says /\ shard'[i].marred = shard[i].marred
      /\ shard'[i].code = shard[i].code /\ shard'[i].pc = "rows"
  <2> HIDE DEF says
  <2> QED
    BY <1>1, <1>3 DEF Fields
<1>5. shard[i].marred = {} => verdict = Verdict(batch[k])
  BY <1>2
<1> HIDE DEF k
<1>6. shard'[i].says = [l \in DOMAIN shard[i].says \union {k} |->
                          IF l = k THEN verdict ELSE shard[i].says[l]]
  BY <1>4
<1> HIDE DEF says
<1> QED
  BY <1>1, <1>4, <1>5, <1>6, MoreSpared

LEMMA ShardSpares ==
  ASSUME RowsInv, SpareInv, NEW i \in Shards,
         \/ Launch(i) \/ Baseline(i) \/ CountAnchor(i) \/ Stage(i) \/ Test(i)
         \/ Summarise(i) \/ Leave(i) \/ KillShard(i)
  PROVE  SpareInv'
<1>1. Fields \subseteq DOMAIN shard[i] /\ DOMAIN shard = Shards
  BY DEF RowsInv, ShardsTyped
<1>2. /\ UNCHANGED <<batch, report>> /\ (kills' = kills \/ kills' = kills + 1)
      /\ KillShard(i) => kills' = kills + 1
      /\ ~KillShard(i) => kills' = kills
  BY DEF Launch, Baseline, CountAnchor, Stage, Test, Summarise, Leave, KillShard, treeVars
<1>3. ~ShardAt(i, "over")
  BY DEF Launch, Baseline, CountAnchor, Stage, Test, Summarise, Leave, KillShard, ShardAt
<1>4. \A j \in Shards \ {i} : shard'[j] = shard[j]
  BY <1>1 DEF Launch, Baseline, CountAnchor, Stage, Test, Summarise, Leave, KillShard, Say
<1>5. ASSUME Preflight, kills' = 0 PROVE Spared(i)'
  <2>1. Spared(i) /\ ~KillShard(i)
    <3>1. kills \in Nat
      BY DEF SpareInv
    <3>2. kills = 0
      BY <1>2, <1>5, <3>1, KillsGrow
    <3>3. kills' # kills + 1
      BY <1>5, <3>2
    <3> QED
      BY <1>2, <1>5, <3>2, <3>3 DEF SpareInv
  <2>2. shard[i].code \in {0, 2} /\ (shard[i].pc = "leaving" /\ shard[i].code = 0 =>
                                       shard[i].summary /\ Left(i) = {})
    BY <2>1 DEF Spared
  <2>3. CASE Launch(i)
    <3>1. /\ shard'[i].says = shard[i].says /\ shard'[i].marred = shard[i].marred
          /\ shard'[i].code = shard[i].code /\ shard'[i].pc = "baseline"
      BY <1>1, <2>3 DEF Launch, Fields
    <3> QED
      BY <1>2, <2>1, <2>2, <3>1, SameSpared
  <2>4. CASE Baseline(i)
    <3>1. PICK good \in BOOLEAN :
            shard' = [shard EXCEPT ![i].pc = IF good THEN "rows" ELSE "leaving",
                                   ![i].code = IF good THEN 0 ELSE 2]
      BY <2>4 DEF Baseline
    <3>2. /\ shard'[i].says = shard[i].says /\ shard'[i].marred = shard[i].marred
          /\ shard'[i].pc = (IF good THEN "rows" ELSE "leaving")
          /\ shard'[i].code = (IF good THEN 0 ELSE 2)
      BY <1>1, <3>1 DEF Fields
    <3> QED
      BY <1>2, <2>1, <3>2, SameSpared
  <2>5. CASE Stage(i)
    <3>1. PICK marred : /\ shard[i].marred \subseteq marred
                        /\ shard' = [shard EXCEPT ![i].pc = "test", ![i].marred = marred]
      BY <2>5 DEF Stage
    <3>2. /\ shard'[i].says = shard[i].says /\ shard'[i].marred = marred
          /\ shard'[i].code = shard[i].code /\ shard'[i].pc = "test"
      BY <1>1, <3>1 DEF Fields
    <3> QED
      BY <1>2, <2>1, <2>2, <3>1, <3>2, SameSpared
  <2>6. CASE Summarise(i)
    <3>1. /\ shard'[i].says = shard[i].says /\ shard'[i].marred = shard[i].marred
          /\ shard'[i].code = shard[i].code /\ shard'[i].summary = TRUE /\ Left(i) = {}
      BY <1>1, <2>6 DEF Summarise, Fields
    <3> QED
      BY <1>2, <2>1, <2>2, <3>1, SameSpared
  <2>7. CASE Leave(i)
    <3>1. /\ shard'[i].says = shard[i].says /\ shard'[i].marred = shard[i].marred
          /\ shard'[i].code = shard[i].code /\ shard'[i].summary = shard[i].summary
          /\ shard[i].pc = "leaving"
      BY <1>1, <2>7 DEF Leave, Fields, ShardAt
    <3> QED
      BY <1>2, <2>1, <2>2, <3>1, SameSpared
  <2> QED
    BY <1>5, <2>1, <2>3, <2>4, <2>5, <2>6, <2>7, CountSpares, TestSpares
<1> QED
  BY <1>2, <1>3, <1>4, <1>5, OneShardSpares

LEMMA NextSpares == RowsInv /\ SpareInv /\ [Next]_vars => SpareInv'
<1> SUFFICES ASSUME RowsInv, SpareInv, [Next]_vars
             PROVE  SpareInv'
  OBVIOUS
<1>1. ASSUME UNCHANGED <<batch, shard>>, kills' = kills \/ kills' = kills + 1
      PROVE  /\ kills' \in Nat /\ Answers' = Answers
             /\ Preflight' /\ kills' = 0 => \A i \in Shards' : Spared(i)'
  <2>1. kills' \in Nat /\ (kills' = 0 => kills = 0)
    BY <1>1, KillsGrow DEF SpareInv
  <2>2. Preflight' = Preflight /\ Shards' = Shards /\ Answers' = Answers
    BY <1>1 DEF Preflight, Shards, Answers, Mine
  <2>3. ASSUME NEW i \in Shards, Spared(i) PROVE Spared(i)'
    <3>1. Left(i)' = Left(i)
      BY <1>1 DEF Left, Mine
    <3> QED
      BY <1>1, <2>3, <3>1 DEF Spared
  <2> QED
    BY <2>1, <2>2, <2>3 DEF SpareInv
<1>2. CASE UNCHANGED runVars /\ (TreeNext \/ UNCHANGED vars)
  <2>1. kills' = kills \/ kills' = kills + 1
    BY <1>2 DEF TreeNext, Selftest, Begin, SetAside, Plant, RunGuard, PutBack, End,
       Impersonate, Bury, ChildClears, Reclaim, KillSelftest, GhostDies, Sweep, StartSweep,
       ClearForSweep, ReadRow, ApplyRow, RestoreRow, EndSweep, KillSweep, Reading, Look,
       ClearLock, Read, vars, treeVars
  <2> QED
    BY <1>1, <1>2, <2>1 DEF runVars, SpareInv
<1>3. CASE Report
  <2>1. UNCHANGED <<batch, shard, kills>>
    BY <1>3 DEF Report, treeVars
  <2>2. /\ report' \in {"none", "refused", "not a result", "a result"}
        /\ report' = "refused" => batch = <<>>
        /\ report' = "not a result" => ~IsResult(Answers, Len(batch))
    BY <1>3 DEF Report
  <2> QED
    BY <1>1, <2>1, <2>2 DEF SpareInv
<1> QED
  BY <1>2, <1>3, ShardSpares DEF Next, RunNext, vars, runVars

(* The rows the summaries account for are as many as were sent, if every   *)
(* shard summed up.                                                        *)
LEMMA TotalIsLength ==
  ASSUME RowsInv, \A i \in Shards : shard[i].summary
  PROVE  Cardinality(Accounted(Answers)) = Len(batch)
<1> DEFINE A  == Accounted(Answers)
           to == [p \in A |-> p[2]]
<1>1. batch \in Seq({batch[l] : l \in DOMAIN batch})
  BY BatchesAssumption DEF RowsInv
<1>2. Len(batch) \in Nat /\ DOMAIN batch = 1 .. Len(batch)
  BY <1>1
<1>3. A = UNION {{i} \X Mine(i) : i \in Shards}
  BY DEF Accounted, Answers
<1>4. \A i \in Shards : \A k \in Mine(i) : <<i, k>> \in A
  BY <1>3
<1>5. \A p \in A : p \in Shards \X (1 .. Len(batch)) /\ p[2] \in Mine(p[1])
  BY <1>3 DEF Mine, Dealt
<1> HIDE DEF A
<1>6. ASSUME NEW p \in A, NEW q \in A, p[2] = q[2]
      PROVE  p = q
  <2>1. p[2] \in Mine(p[1]) /\ q[2] \in Mine(q[1])
    BY <1>5
  <2>2. p[1] = q[1]
    BY <1>6, <2>1 DEF Mine, Dealt
  <2> QED
    BY <1>5, <1>6, <2>2
<1>7. \A k \in 1 .. Len(batch) : \E p \in A : p[2] = k
  <2> SUFFICES ASSUME NEW k \in 1 .. Len(batch)
               PROVE  \E p \in A : p[2] = k
    OBVIOUS
  <2>1. PICK i \in Shards : k \in Mine(i)
    BY <1>2, RowsAreDealt
  <2>2. <<i, k>> \in A /\ <<i, k>>[2] = k
    BY <1>4, <2>1
  <2> QED
    BY <2>2
<1>8. to \in Bijection(A, 1 .. Len(batch))
  <2>1. to \in [A -> 1 .. Len(batch)]
    BY <1>5
  <2>2. to \in Injection(A, 1 .. Len(batch))
    BY <1>6, <2>1 DEF Injection, IsInjective
  <2>3. to \in Surjection(A, 1 .. Len(batch))
    BY <1>7, <2>1 DEF Surjection
  <2> QED
    BY <2>2, <2>3 DEF Bijection
<1>9. IsFiniteSet(1 .. Len(batch)) /\ Cardinality(1 .. Len(batch)) = Len(batch)
  <2>1. 1 \in Int /\ Len(batch) \in Int
    BY <1>2
  <2>2. /\ IsFiniteSet(1 .. Len(batch))
        /\ Cardinality(1 .. Len(batch)) = IF 1 > Len(batch) THEN 0 ELSE Len(batch) - 1 + 1
    BY <2>1, FS_Interval
  <2> QED
    BY <1>2, <2>2
<1>10. ExistsBijection(1 .. Len(batch), A)
  BY <1>8, Fun_ExistsBijSymmetric DEF ExistsBijection
<1>11. Cardinality(A) = Len(batch)
  BY <1>9, <1>10, FS_Bijection
<1> QED
  BY <1>11 DEF A

(* What the corpus guards pass is what the batch can measure: on a tree    *)
(* nobody broke, with nothing killed, a batch that passed them is a        *)
(* result, none of its rows is a bad anchor, and the invalid ones are      *)
(* those only the toolchain can tell.                                      *)
THEOREM GuardsSpareTheBatch == Spec => []PreflightSparesTheBatch
<1>1. ASSUME RowsInv, SpareInv PROVE PreflightSparesTheBatch
  <2> SUFFICES ASSUME Preflight, kills = 0, Unmarred, report # "none",
                      \A i \in Shards : shard[i].code # 2
               PROVE  /\ report = "a result"
                      /\ "bad anchor" \notin AllSaid(Answers)
                      /\ \A k \in DOMAIN batch : Said(Answers, k) = "invalid" =>
                            batch[k].effect \in {"type error", "goroutine", "lint hangs"}
    BY DEF PreflightSparesTheBatch
  <2>1. /\ DOMAIN Answers = Shards
        /\ \A i \in Shards : /\ Answers[i].says = shard[i].says
                             /\ Answers[i].code = shard[i].code
                             /\ Answers[i].summary = shard[i].summary
    BY DEF Answers
  <2>2. ASSUME NEW i \in Shards
        PROVE  /\ ~Broken(Answers[i]) /\ DOMAIN shard[i].says = Mine(i)
               /\ \A k \in DOMAIN shard[i].says : shard[i].says[k] = Verdict(batch[k])
    <3>1. Spared(i) /\ shard[i].pc = "over" /\ shard[i].marred = {} /\ shard[i].code # 2
      BY <1>1 DEF SpareInv, RowsInv, Over, ShardAt, Unmarred
    <3>2. /\ shard[i].code = 0 /\ shard[i].summary /\ Left(i) = {}
          /\ \A k \in DOMAIN shard[i].says : shard[i].says[k] = Verdict(batch[k])
      BY <3>1 DEF Spared
    <3>3. DOMAIN shard[i].says \subseteq Mine(i)
      BY <1>1 DEF RowsInv, RowsOf
    <3> QED
      BY <2>1, <3>2, <3>3 DEF Broken, Left
  <2>3. \A k \in DOMAIN batch : \E i \in DOMAIN Answers : k \in DOMAIN Answers[i].says
    BY <1>1, <2>1, <2>2, RowsAreDealt
  <2>4. Heard(Answers) = DOMAIN batch /\ DOMAIN batch = 1 .. Len(batch)
    <3>1. \A i \in Shards : Mine(i) \subseteq DOMAIN batch
      BY <1>1, MineAreRows DEF RowsInv
    <3>2. DOMAIN batch = 1 .. Len(batch)
      <4>1. batch \in Seq({batch[l] : l \in DOMAIN batch})
        BY <1>1, BatchesAssumption DEF RowsInv
      <4> QED
        BY <4>1
    <3> QED
      BY <2>1, <2>2, <2>3, <3>1, <3>2 DEF Heard
  <2>5. IsResult(Answers, Len(batch)) /\ batch # <<>>
    <3>1. \A i \in Shards : shard[i].summary
      BY <2>1, <2>2 DEF Broken
    <3>2. Cardinality(Accounted(Answers)) = Len(batch)
      BY <1>1, <3>1, TotalIsLength
    <3> QED
      BY <2>1, <2>2, <3>2 DEF IsResult, Preflight, CollisionsPass
  <2>6. report = "a result"
    BY <1>1, <2>5 DEF SpareInv
  <2>7. ASSUME NEW k \in DOMAIN batch PROVE Said(Answers, k) = Verdict(batch[k])
    <3> DEFINE j == CHOOSE i \in DOMAIN Answers : k \in DOMAIN Answers[i].says
    <3>1. j \in Shards /\ k \in DOMAIN shard[j].says /\ Said(Answers, k) = shard[j].says[k]
      BY <2>1, <2>3 DEF Said
    <3> HIDE DEF j
    <3> QED
      BY <2>2, <3>1
  <2>8. "bad anchor" \notin AllSaid(Answers)
    BY <1>1, <2>4, <2>7, PassedRows DEF AllSaid
  <2> QED
    BY <1>1, <2>6, <2>7, <2>8, PassedRows
<1> QED
  BY <1>1, InitPids, InitRows, NextKeepsPids, NextKeepsRows, InitSpare, NextSpares, PTL DEF Spec

-----------------------------------------------------------------------------
LockIs == IF At("impersonated") THEN st.ghost ELSE st.pid

PastTheLock(r) == rd[r] \in {"clearing", "reading", "misled"}

(* The self-test that runs is alive, and so is its stand-in; until a live  *)
(* holder's lock is cleared or somebody is killed, the lock it holds is    *)
(* its own or the stand-in's, and nobody gets past it.                     *)
LockInv ==
  /\ kills \in Nat /\ stolen \in BOOLEAN
  /\ DOMAIN rd = Readers /\ DOMAIN quiet = Readers
  /\ Rewriting => st.pid \in live
  /\ At("impersonated") => st.ghost \in live /\ st.ghost # st.pid
  /\ ~stolen /\ kills = 0 =>
        /\ Held => lock = LockIs
        /\ \A r \in Readers : PastTheLock(r) => quiet[r]

LEMMA InitLock == Init => LockInv
<1> SUFFICES ASSUME Init
             PROVE  LockInv
  OBVIOUS
<1>1. /\ st.pc = "off" /\ stolen = FALSE /\ kills = 0
      /\ rd = [r \in Readers |-> "idle"] /\ quiet = [r \in Readers |-> TRUE]
  BY DEF Init, TreeInit
<1>2. DOMAIN rd = Readers /\ DOMAIN quiet = Readers /\ \A r \in Readers : rd[r] = "idle"
  BY <1>1
<1> QED
  BY <1>1, <1>2 DEF LockInv, Rewriting, At, Held, PastTheLock

(* A held lock is a live process's, so whoever looks is refused.           *)
LEMMA HeldIsSeen ==
  ASSUME PidsInv, LockInv, ~stolen, kills = 0, Held
  PROVE  lock \in live /\ Holder = "another"
<1>1. lock \in live
  BY DEF LockInv, Held, LockIs, Rewriting, At
<1>2. lock # Nobody
  BY <1>1 DEF PidsInv, PidsTyped, Nobody
<1> QED
  BY <1>1, <1>2 DEF Holder

(* A step that leaves the lock, the self-test and the readers keeps them,  *)
(* if it ends neither the self-test nor its stand-in.                      *)
LEMMA ElsewhereKeepsLock ==
  ASSUME LockInv, UNCHANGED <<lock, st, rd, quiet, stolen>>,
         kills' = kills \/ kills' = kills + 1,
         Rewriting => st.pid \in live', At("impersonated") => st.ghost \in live'
  PROVE  LockInv'
<1>1. kills' \in Nat /\ (kills' = 0 => kills = 0)
  BY DEF LockInv
<1>2. Held' = Held /\ LockIs' = LockIs /\ Rewriting' = Rewriting
      /\ At("impersonated")' = At("impersonated")
      /\ \A r \in Readers : PastTheLock(r)' = PastTheLock(r)
  BY DEF Held, LockIs, Rewriting, At, PastTheLock
<1> QED
  BY <1>1, <1>2 DEF LockInv

LEMMA ShardKeepsLock ==
  ASSUME PidsInv, LockInv, NEW i \in Shards,
         \/ Launch(i) \/ Baseline(i) \/ CountAnchor(i) \/ Stage(i) \/ Test(i)
         \/ Summarise(i) \/ Leave(i) \/ KillShard(i)
  PROVE  LockInv'
<1>1. UNCHANGED <<lock, st, rd, quiet, stolen>> /\ (kills' = kills \/ kills' = kills + 1)
  BY DEF Launch, Baseline, CountAnchor, Stage, Test, Summarise, Leave, KillShard, treeVars
<1>2. {st.pid, st.ghost} \intersect live \subseteq live'
  <2>1. CASE Launch(i)
    BY <2>1 DEF Launch
  <2>2. CASE ~Launch(i)
    <3>1. ShardStep(i)
      BY <2>2, ShardSteps DEF PidsInv
    <3>2. shard[i].pid # st.pid /\ shard[i].pid # st.ghost
      BY <3>1 DEF PidsInv, ShardsApart, ShardStep
    <3> QED
      BY <3>1, <3>2 DEF ShardStep
  <2> QED
    BY <2>1, <2>2
<1> QED
  BY <1>1, <1>2, ElsewhereKeepsLock DEF LockInv

(* What a step of the self-test leaves of the lock and of itself.          *)
SelftestStep ==
  /\ UNCHANGED <<rd, quiet, stolen>> /\ (kills' = kills \/ kills' = kills + 1)
  /\ Rewriting' => st'.pid \in live'
  /\ At("impersonated")' => st'.ghost \in live' /\ st'.ghost # st'.pid
  /\ ~stolen /\ kills = 0 /\ Held' => lock' = LockIs'

LEMMA SelftestSteps ==
  ASSUME PidsInv, LockInv, Selftest \/ KillSelftest \/ GhostDies
  PROVE  SelftestStep
<1> USE DEF SelftestStep, LockInv, LockIs, Held, Rewriting, At
<1>0. {"pid", "pc", "at", "ghost"} \subseteq DOMAIN st /\ st.pid \in 0 .. born /\ born \in Nat
      /\ live \subseteq 1 .. born
  BY DEF PidsInv, ShardsTyped, PidsTyped
<1>1. CASE Begin
  <2>1. /\ live' = live \union {born'} /\ lock' = born' /\ UNCHANGED <<rd, quiet, stolen, kills>>
        /\ st' = [pid |-> born', pc |-> "control", at |-> 1, ghost |-> Nobody]
    BY <1>1 DEF Begin, Announce
  <2> QED
    BY <2>1
<1>2. CASE SetAside \/ Plant \/ RunGuard
  <2>1. /\ UNCHANGED <<lock, live, rd, quiet, stolen, kills>>
        /\ st.pc \in {"control", "aside", "planted"}
        /\ \E pc \in {"judged", "aside", "planted"} : Goto(pc)
    BY <1>2 DEF SetAside, Plant, RunGuard, OnAFile
  <2>2. /\ st'.pc \in {"judged", "aside", "planted"} /\ st'.pid = st.pid
    BY <1>0, <2>1 DEF Goto
  <2> QED
    BY <2>1, <2>2
<1>3. CASE PutBack
  <2>1. UNCHANGED <<lock, live, rd, quiet, stolen, kills>> /\ st.pc = "judged" /\ NextArm
    BY <1>3 DEF PutBack
  <2>2. st'.pc = "control" /\ st'.pid = st.pid
    BY <1>0, <2>1 DEF NextArm
  <2> QED
    BY <2>1, <2>2
<1>4. CASE Impersonate
  <2>1. /\ live' = live \union {born'} /\ born' = born + 1 /\ lock' = born'
        /\ UNCHANGED <<rd, quiet, stolen, kills>> /\ st.pc = "control"
        /\ st' = [st EXCEPT !.pc = "impersonated", !.ghost = born']
    BY <1>4 DEF Impersonate, Announce, InCases
  <2>2. st'.pc = "impersonated" /\ st'.pid = st.pid /\ st'.ghost = born'
    BY <1>0, <2>1
  <2>3. st.pid # born'
    BY <1>0, <2>1
  <2> QED
    BY <2>1, <2>2, <2>3
<1>5. CASE Bury
  <2>1. /\ live' = live \ {st.ghost} /\ UNCHANGED <<rd, quiet, stolen, kills>>
        /\ st.pc = "impersonated" /\ Goto("buried")
    BY <1>5 DEF Bury
  <2>2. st'.pc = "buried" /\ st'.pid = st.pid
    BY <1>0, <2>1 DEF Goto
  <2> QED
    BY <2>1, <2>2
<1>6. CASE ChildClears
  <2>1. /\ UNCHANGED <<live, rd, quiet, stolen, kills>> /\ st.pc = "buried" /\ Goto("cleared")
    BY <1>6 DEF ChildClears
  <2>2. st'.pc = "cleared" /\ st'.pid = st.pid
    BY <1>0, <2>1 DEF Goto
  <2> QED
    BY <2>1, <2>2
<1>7. CASE Reclaim
  <2>1. /\ UNCHANGED <<live, rd, quiet, stolen, kills>> /\ st.pc = "cleared" /\ NextArm
        /\ lock' = st.pid
    BY <1>7 DEF Reclaim, Announce
  <2>2. st'.pc = "control" /\ st'.pid = st.pid
    BY <1>0, <2>1 DEF NextArm
  <2> QED
    BY <2>1, <2>2
<1>8. CASE End \/ KillSelftest
  <2>1. UNCHANGED <<rd, quiet, stolen>> /\ Goto("off") /\ (kills' = kills \/ kills' = kills + 1)
    BY <1>8 DEF End, KillSelftest
  <2>2. st'.pc = "off"
    BY <1>0, <2>1 DEF Goto
  <2> QED
    BY <2>1, <2>2
<1>9. CASE GhostDies
  BY <1>9 DEF GhostDies
<1> QED
  BY <1>1, <1>2, <1>3, <1>4, <1>5, <1>6, <1>7, <1>8, <1>9 DEF Selftest

LEMMA SelftestKeepsLock ==
  ASSUME LockInv, SelftestStep
  PROVE  LockInv'
<1>1. kills' \in Nat /\ (kills' = 0 => kills = 0)
  BY DEF LockInv, SelftestStep
<1>2. \A r \in Readers : PastTheLock(r)' = PastTheLock(r)
  BY DEF SelftestStep, PastTheLock
<1> QED
  BY <1>1, <1>2 DEF LockInv, SelftestStep

(* Whoever clears a held lock steals it.                                   *)
LEMMA ClearingSteals ==
  ASSUME PidsInv, LockInv, ClearStale, ~stolen', kills = 0
  PROVE  ~stolen /\ ~Held
BY HeldIsSeen DEF ClearStale, LockInv

LEMMA SweepKeepsLock ==
  ASSUME PidsInv, LockInv, Sweep \/ KillSweep
  PROVE  LockInv'
<1>1. CASE ClearForSweep
  <2>1. UNCHANGED <<st, live, rd, quiet, kills>> /\ ClearStale
    BY <1>1 DEF ClearForSweep
  <2>2. ~stolen' /\ kills = 0 => ~stolen /\ ~Held
    BY <2>1, ClearingSteals
  <2>3. Held' = Held /\ Rewriting' = Rewriting /\ At("impersonated")' = At("impersonated")
        /\ \A r \in Readers : PastTheLock(r)' = PastTheLock(r)
    BY <2>1 DEF Held, Rewriting, At, PastTheLock
  <2>4. stolen' \in BOOLEAN
    BY <2>1 DEF ClearStale
  <2> QED
    BY <2>1, <2>2, <2>3, <2>4 DEF LockInv
<1>2. CASE ~ClearForSweep
  <2>1. UNCHANGED <<lock, live, st, rd, quiet, stolen>> /\ (kills' = kills \/ kills' = kills + 1)
    BY <1>2 DEF Sweep, KillSweep, StartSweep, ReadRow, ApplyRow, RestoreRow, EndSweep
  <2> QED
    BY <2>1, ElsewhereKeepsLock DEF LockInv
<1> QED
  BY <1>1, <1>2

LEMMA ReaderKeepsLock ==
  ASSUME PidsInv, LockInv, NEW r \in Readers, Reading(r)
  PROVE  LockInv'
<1>0. /\ UNCHANGED <<live, st, kills>> /\ Held' = Held /\ LockIs' = LockIs
      /\ Rewriting' = Rewriting /\ At("impersonated")' = At("impersonated")
  BY DEF Reading, Look, ClearLock, Read, Held, LockIs, Rewriting, At
<1> USE <1>0 DEF LockInv
<1>1. CASE Look(r)
  <2>1. /\ UNCHANGED <<lock, stolen>> /\ DOMAIN rd' = Readers /\ DOMAIN quiet' = Readers
        /\ quiet'[r] = ~Held /\ (Holder = "another" => rd'[r] = "refused")
        /\ \A q \in Readers \ {r} : rd'[q] = rd[q] /\ quiet'[q] = quiet[q]
    BY <1>1 DEF Look
  <2>2. ~stolen /\ kills = 0 /\ Held => rd'[r] = "refused"
    BY <2>1, HeldIsSeen
  <2>3. ~stolen /\ kills = 0 => \A q \in Readers : PastTheLock(q)' => quiet'[q]
    BY <2>1, <2>2 DEF PastTheLock
  <2> QED
    BY <2>1, <2>3
<1>2. CASE ClearLock(r)
  <2>1. /\ ClearStale /\ quiet' = quiet /\ DOMAIN rd' = Readers /\ rd[r] = "clearing"
        /\ \A q \in Readers \ {r} : rd'[q] = rd[q]
    BY <1>2 DEF ClearLock
  <2>2. ~stolen' /\ kills = 0 => ~stolen /\ ~Held
    BY <2>1, ClearingSteals
  <2>3. stolen' \in BOOLEAN
    BY <2>1 DEF ClearStale
  <2>4. ~stolen' /\ kills = 0 => \A q \in Readers : PastTheLock(q)' => quiet'[q]
    BY <2>1, <2>2 DEF PastTheLock
  <2> QED
    BY <2>1, <2>2, <2>3, <2>4
<1>3. CASE Read(r)
  <2>1. /\ UNCHANGED <<lock, stolen, quiet>> /\ DOMAIN rd' = Readers /\ rd[r] = "reading"
        /\ \A q \in Readers \ {r} : rd'[q] = rd[q]
    BY <1>3 DEF Read
  <2>2. ~stolen /\ kills = 0 => \A q \in Readers : PastTheLock(q)' => quiet'[q]
    BY <2>1 DEF PastTheLock
  <2> QED
    BY <2>1, <2>2
<1> QED
  BY <1>1, <1>2, <1>3 DEF Reading

LEMMA NextKeepsLock == PidsInv /\ LockInv /\ [Next]_vars => LockInv'
<1> SUFFICES ASSUME PidsInv, LockInv, [Next]_vars
             PROVE  LockInv'
  OBVIOUS
<1>1. CASE TreeNext
  BY <1>1, SelftestSteps, SelftestKeepsLock, SweepKeepsLock, ReaderKeepsLock DEF TreeNext
<1>2. CASE Report \/ UNCHANGED vars
  <2>1. UNCHANGED <<lock, live, st, rd, quiet, stolen, kills>>
    BY <1>2 DEF Report, vars, treeVars
  <2> QED
    BY <2>1, ElsewhereKeepsLock DEF LockInv
<1> QED
  BY <1>1, <1>2, ShardKeepsLock DEF Next, RunNext

(* "The readers refuse rather than report": a guard that reports a         *)
(* control's break had found the lock free, unless a live holder's lock    *)
(* was cleared as a dead one's or a process was killed.                    *)
THEOREM ReadersRefuse == Spec => []RefuseRatherThanReport
<1>1. LockInv => RefuseRatherThanReport
  BY DEF LockInv, PastTheLock, RefuseRatherThanReport
<1> QED
  BY <1>1, InitPids, NextKeepsPids, InitLock, NextKeepsLock, PTL DEF Spec

-----------------------------------------------------------------------------
(* What the two runners promise of a file: a file that both a control and  *)
(* a row break is excepted once they have been under way at once.          *)
Ok(f) == Shared(f) => ~met

InControl == st.pc \in {"aside", "planted", "judged"}
BreakIn   == st.pc \in {"planted", "judged"}
InRow     == ew.pc \in {"read", "applied"}

(* A control has a file and a copy of it, a row that was read has a file;  *)
(* runners that are under way at once have met.                            *)
TreeTyped ==
  /\ kills \in Nat /\ runs \in Nat
  /\ DOMAIN tree = Files /\ DOMAIN backup = Files
  /\ {"pid", "pc", "at", "ghost"} \subseteq DOMAIN st /\ st.at \in Nat \ {0}
  /\ {"pc", "at", "saw"} \subseteq DOMAIN ew /\ ew.at \in Nat \ {0}
  /\ 0 \notin ew.saw /\ \A f \in Files : 0 \notin tree[f]
  /\ InControl => /\ st.at \in DOMAIN Controls /\ File \in Files
                  /\ backup[File] # Nothing /\ 0 \notin backup[File]
  /\ InRow => ew.at \in DOMAIN Excused
  /\ Rewriting /\ Sweeping => met

(* With nobody killed, what either runner read and will write back is the  *)
(* original, and only the files they are at are not.                       *)
Restores ==
  kills = 0 =>
    /\ \A f \in Files : Ok(f) /\ Dirty(f) =>
         \/ BreakIn /\ f = File
         \/ ew.pc = "applied" /\ f = RowFile
    /\ InControl /\ Ok(File) => backup[File] = Original
    /\ InRow /\ Ok(RowFile) => ew.saw = Original

(* Up to a first run's end or death its breaks are in files of controls,   *)
(* in the one under control while it goes on, and none is in a copy.  A    *)
(* row may read what a killed run left, and write it back over the same.   *)
Spares(set) == \A c \in DOMAIN Controls : c \notin set

KeptAside(f) ==
  /\ f \in {Controls[i] : i \in DOMAIN Controls}
  /\ backup[f] # Nothing /\ Spares(backup[f])

Remains ==
  /\ runs = 0 => /\ ~Rewriting /\ \A f \in Files : Spares(tree[f])
                 /\ InRow => Spares(ew.saw)
  /\ runs <= 1 =>
       /\ \A f \in Files : Ok(f) /\ ~Spares(tree[f]) =>
            KeptAside(f) /\ (Rewriting => BreakIn /\ f = File)
       /\ InControl /\ Ok(File) => Spares(backup[File])
       /\ InRow /\ Ok(RowFile) /\ ~Spares(ew.saw) => KeptAside(RowFile) /\ ~Rewriting

TreeInv == TreeTyped /\ Restores /\ Remains

(* A promise, once gone, does not come back.                               *)
LEMMA OkShrinks ==
  ASSUME met => met', NEW f, Ok(f)'
  PROVE  Ok(f)
BY DEF Ok, Shared

(* Runners that are both under way owe nothing on the files they share.    *)
LEMMA NotBoth ==
  ASSUME TreeTyped, Rewriting, Sweeping, NEW i \in DOMAIN Controls, NEW j \in DOMAIN Excused,
         Ok(Controls[i])
  PROVE  Controls[i] # Excused[j]
BY DEF TreeTyped, Ok, Shared

LEMMA ControlFiles ==
  /\ \A i \in DOMAIN Controls : Controls[i] \in Files \/ Controls[i] = LockCases
  /\ DOMAIN Controls = 1 .. Len(Controls) /\ Len(Controls) \in Nat
  /\ \A j \in DOMAIN Excused : Excused[j] \in Files
  /\ DOMAIN Excused = 1 .. Len(Excused) /\ Len(Excused) \in Nat
BY FilesAssumption

LEMMA InitTree == Init => TreeInv
<1> SUFFICES ASSUME Init PROVE TreeInv
  OBVIOUS
<1>1. /\ kills = 0 /\ tree = [f \in Files |-> Original] /\ backup = [f \in Files |-> Nothing]
      /\ st = [pid |-> Nobody, pc |-> "off", at |-> 1, ghost |-> Nobody]
      /\ ew = [pc |-> "off", at |-> 1, saw |-> Original]
  BY DEF Init, TreeInit
<1>2. runs \in Nat
  BY DEF Init, TreeInit
<1>3. /\ ~InControl /\ ~InRow /\ ~Rewriting
      /\ \A f \in Files : ~Dirty(f) /\ Spares(tree[f]) /\ 0 \notin tree[f]
  BY <1>1 DEF InControl, InRow, Rewriting, Dirty, Spares, Original
<1>4. TreeTyped
  BY <1>1, <1>2, <1>3 DEF TreeTyped, Original
<1> QED
  BY <1>3, <1>4 DEF TreeInv, Restores, Remains

(* Whoever leaves the tree and its runners' places alone changes nothing.  *)
LEMMA ElsewhereKeepsTree ==
  ASSUME TreeInv, UNCHANGED <<tree, backup, st, ew, runs, met>>,
         kills' = kills \/ kills' = kills + 1
  PROVE  TreeInv'
<1>1. kills' \in Nat /\ (kills' = 0 => kills = 0)
  BY DEF TreeInv, TreeTyped
<1>2. /\ InControl' = InControl /\ BreakIn' = BreakIn /\ InRow' = InRow
      /\ Rewriting' = Rewriting /\ Sweeping' = Sweeping
      /\ File' = File /\ RowFile' = RowFile
      /\ \A f \in Files : Dirty(f)' = Dirty(f)
  BY DEF InControl, BreakIn, InRow, Rewriting, Sweeping, File, RowFile, Dirty
<1>3. \A f : Ok(f)' => Ok(f)
  BY OkShrinks
<1>4. TreeTyped'
  BY <1>1, <1>2 DEF TreeInv, TreeTyped
<1>5. Restores'
  BY <1>1, <1>2, <1>3 DEF TreeInv, Restores
<1>6. Remains'
  BY <1>1, <1>2, <1>3 DEF TreeInv, Remains, KeptAside
<1> QED
  BY <1>4, <1>5, <1>6 DEF TreeInv

(* What the self-test does between two controls: it starts, dies or goes   *)
(* on, and has no break of its own in the tree unless it is killed.        *)
Between ==
  /\ UNCHANGED <<tree, backup, ew>>
  /\ {"pid", "pc", "at", "ghost"} \subseteq DOMAIN st' /\ st'.at \in Nat \ {0}
  /\ ~InControl'
  /\ \/ runs' = runs + 1 /\ kills' = kills /\ ~Rewriting
     \/ runs' = runs /\ kills' = kills /\ (Rewriting' => Rewriting) /\ ~InControl
     \/ runs' = runs /\ kills' = kills + 1 /\ ~Rewriting'
  /\ met => met'
  /\ Rewriting' /\ Sweeping => Rewriting \/ met'

LEMMA BetweenKeepsTree ==
  ASSUME TreeInv, Between
  PROVE  TreeInv'
<1>1. /\ kills' \in Nat /\ (kills' = 0 => kills = 0 /\ ~BreakIn)
      /\ runs' \in Nat /\ (runs' = 0 => runs = 0 /\ runs' = runs)
      /\ runs' <= 1 => (runs = 0 \/ (runs <= 1 /\ (Rewriting' => Rewriting /\ ~BreakIn)))
  BY DEF TreeInv, TreeTyped, Between, InControl, BreakIn, Rewriting
<1>2. ~InControl' /\ ~BreakIn' /\ InRow' = InRow /\ RowFile' = RowFile
      /\ Sweeping' = Sweeping /\ \A f \in Files : Dirty(f)' = Dirty(f)
  BY DEF Between, InControl, BreakIn, InRow, RowFile, Dirty, Sweeping
<1>3. \A f : Ok(f)' => Ok(f)
  BY OkShrinks DEF Between
<1>4. TreeTyped'
  BY <1>1, <1>2 DEF TreeInv, TreeTyped, Between
<1>5. Restores'
  BY <1>1, <1>2, <1>3 DEF TreeInv, Restores, Between
<1>6. runs' = 0 => /\ ~Rewriting' /\ \A f \in Files : Spares(tree'[f])
                   /\ InRow' => Spares(ew'.saw)
  <2>1. runs' = 0 => runs = 0 /\ runs' = runs
    BY <1>1
  <2>2. runs' = 0 => ~Rewriting'
    BY <2>1 DEF TreeInv, TreeTyped, Remains, Between
  <2> QED
    BY <1>2, <2>1, <2>2 DEF TreeInv, Remains, Between
<1>7. ASSUME runs' <= 1
      PROVE  /\ \A f \in Files : Ok(f)' /\ ~Spares(tree'[f]) => KeptAside(f)' /\ ~Rewriting'
             /\ InRow' /\ Ok(RowFile)' /\ ~Spares(ew'.saw) =>
                   KeptAside(RowFile)' /\ ~Rewriting'
  <2>1. CASE runs = 0
    <3>1. (\A f \in Files : Spares(tree[f])) /\ (InRow => Spares(ew.saw))
      BY <2>1 DEF TreeInv, Remains
    <3> QED
      BY <3>1, <1>2 DEF Between
  <2>2. CASE runs <= 1 /\ (Rewriting' => Rewriting /\ ~BreakIn)
    <3>1. \A f : KeptAside(f) => KeptAside(f)'
      BY DEF KeptAside, Between
    <3> QED
      BY <2>2, <3>1, <1>2, <1>3 DEF TreeInv, Remains, Between
  <2> QED
    BY <1>1, <1>7, <2>1, <2>2
<1>8. Remains'
  BY <1>2, <1>6, <1>7 DEF Remains
<1> QED
  BY <1>4, <1>5, <1>8 DEF TreeInv

LEMMA BetweenSteps ==
  ASSUME TreeInv,
         \/ Begin \/ Impersonate \/ Bury \/ ChildClears \/ Reclaim \/ End
         \/ KillSelftest \/ GhostDies
  PROVE  Between
<1> USE DEF Between, InControl, Rewriting, Sweeping, At
<1>0. {"pid", "pc", "at", "ghost"} \subseteq DOMAIN st /\ st.at \in Nat \ {0}
  BY DEF TreeInv, TreeTyped
<1>1. CASE Begin
  <2>1. /\ st' = [pid |-> born', pc |-> "control", at |-> 1, ghost |-> Nobody]
        /\ st.pc = "off" /\ runs' = runs + 1 /\ UNCHANGED <<tree, backup, ew, kills>>
    BY <1>1 DEF Begin
  <2>2. (met => met') /\ (Sweeping => met')
    BY <1>1 DEF Begin
  <2> QED
    BY <2>1, <2>2
<1>2. CASE Impersonate
  <2>1. /\ st' = [st EXCEPT !.pc = "impersonated", !.ghost = born'] /\ st.pc = "control"
        /\ UNCHANGED <<tree, backup, ew, runs, kills, met>>
    BY <1>2 DEF Impersonate, InCases
  <2>2. st'.pc = "impersonated" /\ st'.at = st.at /\ DOMAIN st' = DOMAIN st
    BY <1>0, <2>1
  <2> QED
    BY <1>0, <2>1, <2>2
<1>3. CASE Bury \/ ChildClears
  <2>1. /\ st.pc \in {"impersonated", "buried"} /\ (Goto("buried") \/ Goto("cleared"))
        /\ UNCHANGED <<tree, backup, ew, runs, kills, met>>
    BY <1>3 DEF Bury, ChildClears
  <2>2. st'.pc \in {"buried", "cleared"} /\ st'.at = st.at /\ DOMAIN st' = DOMAIN st
    BY <1>0, <2>1 DEF Goto
  <2> QED
    BY <1>0, <2>1, <2>2
<1>4. CASE Reclaim
  <2>1. st.pc = "cleared" /\ NextArm /\ UNCHANGED <<tree, backup, ew, runs, kills, met>>
    BY <1>4 DEF Reclaim
  <2>2. st'.pc = "control" /\ st'.at = st.at + 1 /\ DOMAIN st' = DOMAIN st
    BY <1>0, <2>1 DEF NextArm
  <2> QED
    BY <1>0, <2>1, <2>2
<1>5. CASE End \/ KillSelftest
  <2>1. /\ Goto("off") /\ UNCHANGED <<tree, backup, ew, runs, met>>
        /\ (st.pc = "control" /\ kills' = kills) \/ (kills' = kills + 1)
    BY <1>5 DEF End, KillSelftest
  <2>2. st'.pc = "off" /\ st'.at = st.at /\ DOMAIN st' = DOMAIN st
    BY <1>0, <2>1 DEF Goto
  <2> QED
    BY <1>0, <2>1, <2>2
<1>6. CASE GhostDies
  BY <1>0, <1>6 DEF GhostDies
<1> QED
  BY <1>1, <1>2, <1>3, <1>4, <1>5, <1>6

(* A step that leaves the tree, the copies and the rows alone and goes     *)
(* from planting to judging, in the same control.                          *)
LEMMA RunGuardKeepsTree ==
  ASSUME TreeInv, RunGuard
  PROVE  TreeInv'
<1>1. /\ st.pc = "planted" /\ UNCHANGED <<tree, backup, ew, runs, kills, met>>
      /\ {"pid", "pc", "at", "ghost"} \subseteq DOMAIN st /\ st' = [st EXCEPT !.pc = "judged"]
  BY DEF RunGuard, At, Goto, TreeInv, TreeTyped
<1>2. st'.pc = "judged" /\ st'.at = st.at /\ DOMAIN st' = DOMAIN st
  BY <1>1
<1>3. /\ InControl /\ BreakIn /\ Rewriting /\ InControl' /\ BreakIn' /\ Rewriting'
      /\ File' = File /\ RowFile' = RowFile /\ InRow' = InRow
      /\ Sweeping' = Sweeping /\ \A f \in Files : Dirty(f)' = Dirty(f)
  BY <1>1, <1>2 DEF InControl, BreakIn, Rewriting, Sweeping, File, RowFile, InRow, Dirty
<1>7. \A f : Ok(f)' => Ok(f)
  BY <1>1, OkShrinks
<1>4. TreeTyped'
  BY <1>1, <1>2, <1>3 DEF TreeInv, TreeTyped
<1>5. Restores'
  BY <1>1, <1>3, <1>7 DEF TreeInv, Restores
<1>6. Remains'
  BY <1>1, <1>3, <1>7 DEF TreeInv, Remains, KeptAside
<1> QED
  BY <1>4, <1>5, <1>6 DEF TreeInv

LEMMA SetAsideKeepsTree ==
  ASSUME TreeInv, SetAside
  PROVE  TreeInv'
<1> DEFINE g == File
<1>1. /\ st.pc = "control" /\ st.at \in DOMAIN Controls /\ g # LockCases /\ g \in Files
      /\ g = Controls[st.at]
  BY ControlFiles DEF SetAside, OnAFile, At, File, TreeInv, TreeTyped
<1>2. /\ UNCHANGED <<tree, ew, runs, kills, met>>
      /\ backup' = [backup EXCEPT ![g] = tree[g]]
      /\ \E pc \in {"judged", "aside"} : st' = [st EXCEPT !.pc = pc]
  BY DEF SetAside, Goto
<1>3. st'.pc \in {"judged", "aside"} /\ st'.at = st.at /\ DOMAIN st' = DOMAIN st
  BY <1>2 DEF TreeInv, TreeTyped
<1>4. /\ ~InControl /\ ~BreakIn /\ Rewriting /\ InControl' /\ Rewriting'
      /\ File' = g /\ RowFile' = RowFile /\ InRow' = InRow
      /\ Sweeping' = Sweeping /\ \A f \in Files : Dirty(f)' = Dirty(f)
  BY <1>1, <1>2, <1>3 DEF InControl, BreakIn, Rewriting, Sweeping, File, RowFile, InRow, Dirty
<1>5. /\ DOMAIN backup' = Files /\ backup'[g] = tree[g]
      /\ \A f \in Files : f # g => backup'[f] = backup[f]
  BY <1>1, <1>2 DEF TreeInv, TreeTyped
<1>6. 0 \notin tree[g] /\ tree[g] # Nothing
  BY <1>1 DEF TreeInv, TreeTyped, Nothing
<1> HIDE DEF g
<1>7. TreeTyped'
  BY <1>1, <1>2, <1>3, <1>4, <1>5, <1>6 DEF TreeInv, TreeTyped
<1>8. ew.pc = "applied" /\ Ok(g) => RowFile # g
  <2>1. ew.pc = "applied" => Sweeping /\ ew.at \in DOMAIN Excused
    BY DEF TreeInv, TreeTyped, InRow, Sweeping
  <2> QED
    BY <1>1, <1>4, <2>1, NotBoth DEF TreeInv, RowFile
<1>9. kills = 0 /\ Ok(g) => tree[g] = Original
  BY <1>1, <1>4, <1>8 DEF TreeInv, Restores, Dirty
<1>10. \A f : Ok(f)' => Ok(f)
  BY <1>2, OkShrinks
<1>11. Restores'
  BY <1>2, <1>4, <1>5, <1>9, <1>10 DEF TreeInv, Restores
<1>12. runs <= 1 => /\ \A f \in Files : Ok(f) => Spares(tree[f])
                    /\ InRow /\ Ok(RowFile) => Spares(ew.saw)
  BY <1>4 DEF TreeInv, Remains
<1>13. Remains'
  BY <1>1, <1>2, <1>4, <1>5, <1>10, <1>12 DEF TreeInv, Remains
<1> QED
  BY <1>7, <1>11, <1>13 DEF TreeInv

LEMMA PlantKeepsTree ==
  ASSUME TreeInv, Plant
  PROVE  TreeInv'
<1> DEFINE g == File
<1>1. st.pc = "aside" /\ InControl /\ ~BreakIn /\ Rewriting
  BY DEF Plant, At, InControl, BreakIn, Rewriting
<1>2. st.at \in DOMAIN Controls /\ g \in Files /\ g = Controls[st.at] /\ st.at \in Nat \ {0}
  BY <1>1 DEF TreeInv, TreeTyped, File
<1>3. /\ UNCHANGED <<backup, ew, runs, kills, met>> /\ st' = [st EXCEPT !.pc = "planted"]
      /\ tree' = [tree EXCEPT ![g] = @ \union {st.at}]
  BY DEF Plant, Goto
<1>4. st'.pc = "planted" /\ st'.at = st.at /\ DOMAIN st' = DOMAIN st
  BY <1>3 DEF TreeInv, TreeTyped
<1>5. /\ InControl' /\ BreakIn' /\ Rewriting' /\ File' = g /\ RowFile' = RowFile /\ InRow' = InRow
      /\ Sweeping' = Sweeping
  BY <1>3, <1>4 DEF InControl, BreakIn, Rewriting, Sweeping, File, RowFile, InRow
<1>6. /\ DOMAIN tree' = Files /\ tree'[g] = tree[g] \union {st.at}
      /\ \A f \in Files : f # g => tree'[f] = tree[f]
  BY <1>2, <1>3 DEF TreeInv, TreeTyped
<1> HIDE DEF g
<1>7. InControl => g = File
  BY DEF g
<1>8. TreeTyped'
  BY <1>1, <1>2, <1>3, <1>4, <1>5, <1>6, <1>7 DEF TreeInv, TreeTyped
<1>9. \A f : Ok(f)' => Ok(f)
  BY <1>3, OkShrinks
<1>10. Restores'
  BY <1>1, <1>3, <1>5, <1>6, <1>7, <1>9 DEF TreeInv, Restores, Dirty
<1>11. runs <= 1 => /\ \A f \in Files : Ok(f) => Spares(tree[f])
                    /\ InRow /\ Ok(RowFile) => Spares(ew.saw)
  BY <1>1 DEF TreeInv, Remains
<1>12. runs <= 1 /\ Ok(g) => /\ g \in {Controls[i] : i \in DOMAIN Controls}
                             /\ backup[g] # Nothing /\ Spares(backup[g])
  BY <1>1, <1>2, <1>7 DEF TreeInv, TreeTyped, Remains
<1>13. Remains'
  <2>1. ASSUME runs <= 1, NEW f \in Files, Ok(f), ~Spares(tree'[f])
        PROVE  KeptAside(f)' /\ BreakIn' /\ f = g
    <3>1. f = g
      BY <1>6, <1>11, <2>1
    <3> QED
      BY <1>3, <1>5, <1>12, <2>1, <3>1 DEF KeptAside
  <2>2. runs <= 1 => /\ Ok(g) => Spares(backup'[g])
                     /\ InRow' /\ Ok(RowFile) => Spares(ew'.saw)
    BY <1>3, <1>5, <1>11, <1>12
  <2>3. runs # 0
    BY <1>1 DEF TreeInv, Remains
  <2> QED
    BY <1>3, <1>5, <1>9, <2>1, <2>2, <2>3 DEF Remains
<1> QED
  BY <1>8, <1>10, <1>13 DEF TreeInv

LEMMA PutBackKeepsTree ==
  ASSUME TreeInv, PutBack
  PROVE  TreeInv'
<1> DEFINE g == File
<1>1. st.pc = "judged" /\ InControl /\ BreakIn /\ Rewriting
  BY DEF PutBack, At, InControl, BreakIn, Rewriting
<1>2. /\ st.at \in DOMAIN Controls /\ g \in Files /\ g = Controls[st.at] /\ st.at \in Nat \ {0}
      /\ 0 \notin backup[g]
  BY <1>1 DEF TreeInv, TreeTyped, File
<1>3. /\ UNCHANGED <<ew, runs, kills, met>> /\ NextArm
      /\ tree' = [tree EXCEPT ![g] = backup[g]]
      /\ backup' = [backup EXCEPT ![g] = Nothing]
  BY DEF PutBack, MovedBack
<1>4. st'.pc = "control" /\ st'.at = st.at + 1 /\ DOMAIN st' = DOMAIN st
  BY <1>3 DEF TreeInv, TreeTyped, NextArm
<1>5. ~InControl' /\ ~BreakIn' /\ Rewriting' /\ RowFile' = RowFile /\ InRow' = InRow
      /\ Sweeping' = Sweeping
  BY <1>3, <1>4 DEF InControl, BreakIn, Rewriting, Sweeping, RowFile, InRow
<1>6. /\ DOMAIN tree' = Files /\ tree'[g] = backup[g] /\ DOMAIN backup' = Files
      /\ \A f \in Files : f # g => tree'[f] = tree[f] /\ backup'[f] = backup[f]
  BY <1>2, <1>3 DEF TreeInv, TreeTyped
<1> HIDE DEF g
<1>7. InControl => g = File
  BY DEF g
<1>8. TreeTyped'
  <2>1. Rewriting' /\ Sweeping' => met'
    BY <1>1, <1>3, <1>5 DEF TreeInv, TreeTyped
  <2> QED
    BY <1>2, <1>3, <1>4, <1>5, <1>6, <2>1 DEF TreeInv, TreeTyped
<1>9. \A f : Ok(f)' => Ok(f)
  BY <1>3, OkShrinks
<1>10. kills = 0 /\ Ok(g) => backup[g] = Original
  BY <1>1, <1>7 DEF TreeInv, Restores
<1>11. Restores'
  <2>1. kills = 0 => \A f \in Files : Ok(f)' /\ Dirty(f)' => f # g /\ Ok(f) /\ Dirty(f)
    BY <1>6, <1>9, <1>10 DEF Dirty
  <2> QED
    BY <1>1, <1>3, <1>5, <1>7, <1>9, <2>1 DEF TreeInv, Restores
<1>12. runs <= 1 => /\ Ok(g) => Spares(backup[g])
                    /\ \A f \in Files : Ok(f) /\ f # g => Spares(tree[f])
                    /\ InRow /\ Ok(RowFile) => Spares(ew.saw)
  BY <1>1, <1>7 DEF TreeInv, Remains
<1>13. runs # 0
  BY <1>1 DEF TreeInv, Remains
<1>14. Remains'
  <2>1. runs <= 1 => \A f \in Files : Ok(f)' => Spares(tree'[f])
    BY <1>6, <1>9, <1>12
  <2> QED
    BY <1>1, <1>3, <1>5, <1>9, <1>12, <1>13, <2>1 DEF TreeInv, Remains
<1> QED
  BY <1>8, <1>11, <1>14 DEF TreeInv

(* A row writes back what it had read.                                     *)
LEMMA ApplyKeepsTree ==
  ASSUME TreeInv, ApplyRow \/ RestoreRow
  PROVE  TreeInv'
<1> DEFINE g == RowFile
<1>1. /\ InRow /\ ew.at \in DOMAIN Excused /\ ew.at \in Nat \ {0}
      /\ {"pc", "at", "saw"} \subseteq DOMAIN ew /\ 0 \notin ew.saw
  BY DEF ApplyRow, RestoreRow, InRow, TreeInv, TreeTyped
<1>2. g \in Files /\ g = Excused[ew.at]
  BY <1>1, ControlFiles DEF RowFile
<1>3. UNCHANGED <<backup, st, runs, kills, met>>
  BY DEF ApplyRow, RestoreRow
<1> DEFINE new == IF ApplyRow THEN ew.saw \union {-ew.at} ELSE ew.saw
<1>4. tree' = [tree EXCEPT ![g] = new]
  BY DEF ApplyRow, RestoreRow
<1>5. /\ 0 \notin new /\ (Spares(ew.saw) => Spares(new))
  BY <1>1, ControlFiles DEF Spares
<1>6. /\ DOMAIN tree' = Files /\ tree'[g] = new
      /\ \A f \in Files : f # g => tree'[f] = tree[f]
  BY <1>2, <1>4 DEF TreeInv, TreeTyped
<1>7. /\ {"pc", "at", "saw"} \subseteq DOMAIN ew' /\ ew'.at \in Nat \ {0} /\ 0 \notin ew'.saw
      /\ \/ ew'.pc = "applied" /\ ew'.at = ew.at /\ ew'.saw = ew.saw
         \/ ew'.pc = "row" /\ ew.pc = "applied" /\ new = ew.saw
  <2>1. CASE ApplyRow
    <3>1. ew' = [ew EXCEPT !.pc = "applied"]
      BY <2>1 DEF ApplyRow
    <3>2. ew'.pc = "applied" /\ ew'.at = ew.at /\ ew'.saw = ew.saw /\ DOMAIN ew' = DOMAIN ew
      BY <1>1, <3>1
    <3> HIDE DEF new, g
    <3> QED
      BY <1>1, <3>2
  <2>2. CASE ~ApplyRow
    <3>1. ew' = [ew EXCEPT !.pc = "row", !.at = @ + 1, !.saw = Original] /\ ew.pc = "applied"
      BY <2>2 DEF RestoreRow, NextRow
    <3>2. ew'.pc = "row" /\ ew'.at = ew.at + 1 /\ ew'.saw = Original /\ DOMAIN ew' = DOMAIN ew
      BY <1>1, <3>1
    <3> QED
      BY <1>1, <2>2, <3>1, <3>2 DEF Original
  <2> QED
    BY <2>1, <2>2
<1>8. /\ InControl' = InControl /\ BreakIn' = BreakIn /\ Rewriting' = Rewriting /\ File' = File
      /\ InRow' => ew'.pc = "applied" /\ RowFile' = g /\ ew'.at = ew.at /\ ew'.saw = ew.saw
      /\ ew'.pc = "applied" => InRow' /\ RowFile' = g
      /\ Sweeping /\ Sweeping'
  BY <1>1, <1>3, <1>7 DEF InControl, BreakIn, Rewriting, Sweeping, File, InRow, RowFile
<1>9. InControl /\ Ok(File) => File # g
  BY <1>1, <1>2, <1>8, NotBoth DEF TreeInv, TreeTyped, File, InControl, Rewriting
<1>10. \A f : Ok(f)' => Ok(f)
  BY <1>3, OkShrinks
<1> HIDE DEF new
<1>11. g = RowFile
  OBVIOUS
<1> HIDE DEF g
<1>12. TreeTyped'
  BY <1>1, <1>2, <1>3, <1>5, <1>6, <1>7, <1>8 DEF TreeInv, TreeTyped
<1>13. Restores'
  <2>1. kills = 0 /\ Ok(g) => ew.saw = Original
    BY <1>1, <1>11 DEF TreeInv, Restores
  <2>2. kills = 0 => \A f \in Files : Ok(f) /\ Dirty(f)' =>
          \/ f # g /\ Dirty(f)
          \/ ew'.pc = "applied" /\ f = g
    BY <1>6, <1>7, <2>1 DEF Dirty
  <2>3. kills = 0 => \A f \in Files : f # g /\ Ok(f) /\ Dirty(f) => BreakIn /\ f = File
    BY <1>11 DEF TreeInv, Restores
  <2>4. kills = 0 /\ InControl /\ Ok(File) => backup[File] = Original
    BY DEF TreeInv, Restores
  <2>5. /\ BreakIn' = BreakIn /\ InControl' = InControl /\ File' = File
        /\ backup' = backup /\ kills' = kills
    BY <1>3, <1>8
  <2> QED
    BY <1>8, <1>10, <2>1, <2>2, <2>3, <2>4, <2>5 DEF Restores
<1>14. Remains'
  <2>1. runs <= 1 /\ Ok(g) /\ ~Spares(new) => KeptAside(g) /\ ~Rewriting /\ ~Spares(ew.saw)
    BY <1>1, <1>5, <1>11 DEF TreeInv, Remains
  <2>2. runs = 0 => /\ ~Rewriting /\ \A f \in Files : Spares(tree'[f])
                    /\ InRow' => Spares(ew'.saw)
    <3>1. runs = 0 => ~Rewriting /\ Spares(ew.saw) /\ \A f \in Files : Spares(tree[f])
      BY <1>1 DEF TreeInv, Remains
    <3> QED
      BY <1>5, <1>6, <1>8, <3>1
  <2>3. \A f : KeptAside(f)' = KeptAside(f)
    BY <1>3 DEF KeptAside
  <2>4. ASSUME runs <= 1
        PROVE  /\ \A f \in Files : f # g /\ Ok(f) /\ ~Spares(tree[f]) =>
                    KeptAside(f) /\ (Rewriting => BreakIn /\ f = File)
               /\ InControl /\ Ok(File) => Spares(backup[File])
               /\ InRow' /\ Ok(g) /\ ~Spares(ew'.saw) => KeptAside(g) /\ ~Rewriting
    BY <1>1, <1>8, <1>11, <2>4 DEF TreeInv, Remains
  <2>5. \A f \in Files : ~Spares(tree'[f]) => IF f = g THEN ~Spares(new) ELSE ~Spares(tree[f])
    BY <1>6
  <2>6. /\ Rewriting' = Rewriting /\ BreakIn' = BreakIn /\ InControl' = InControl
        /\ File' = File /\ backup' = backup /\ runs' = runs /\ (InRow' => RowFile' = g)
    BY <1>3, <1>8
  <2> QED
    BY <1>10, <2>1, <2>2, <2>3, <2>4, <2>5, <2>6 DEF Remains
<1> QED
  BY <1>12, <1>13, <1>14 DEF TreeInv

(* The other steps of check-elsewhere leave the tree alone.                *)
LEMMA LookingKeepsTree ==
  ASSUME TreeInv, StartSweep \/ ClearForSweep \/ ReadRow \/ EndSweep \/ KillSweep
  PROVE  TreeInv'
<1>1. /\ UNCHANGED <<tree, backup, st, runs>> /\ (kills' = kills \/ kills' = kills + 1)
      /\ kills' = kills => ew.pc # "applied"
      /\ met => met'
  <2>1. CASE KillSweep
    <3>1. kills \in Nat /\ kills' = kills + 1 /\ UNCHANGED <<tree, backup, st, runs, met>>
      BY <2>1 DEF KillSweep, TreeInv, TreeTyped
    <3> QED
      BY <3>1
  <2>2. CASE StartSweep
    <3>1. UNCHANGED <<tree, backup, st, runs, kills>> /\ ew.pc # "applied"
      BY <2>2 DEF StartSweep, Sweeping
    <3>2. met => met'
      BY <2>2 DEF StartSweep
    <3> QED
      BY <3>1, <3>2
  <2>3. CASE ClearForSweep \/ ReadRow \/ EndSweep
    BY <2>3 DEF ClearForSweep, ReadRow, EndSweep
  <2> QED
    BY <2>1, <2>2, <2>3
<1>2. /\ kills' \in Nat /\ (kills' = 0 => kills = 0 /\ ew.pc # "applied")
      /\ {"pc", "at", "saw"} \subseteq DOMAIN ew /\ ew.at \in Nat \ {0} /\ 0 \notin ew.saw
  BY <1>1 DEF TreeInv, TreeTyped
<1>3. /\ {"pc", "at", "saw"} \subseteq DOMAIN ew' /\ ew'.at \in Nat \ {0} /\ 0 \notin ew'.saw
      /\ \/ ew'.pc \in {"off", "row", "clearing"}
         \/ /\ ew'.pc = "read" /\ ew'.at \in DOMAIN Excused
            /\ ew'.saw = tree[Excused[ew'.at]]
  <2>1. CASE StartSweep
    <3>1. \E pc \in {"clearing", "row"} : ew' = [pc |-> pc, at |-> 1, saw |-> Original]
      BY <2>1 DEF StartSweep
    <3> QED
      BY <3>1 DEF Original
  <2>2. CASE ClearForSweep \/ EndSweep \/ KillSweep
    <3>1. \E pc \in {"off", "row"} : ew' = [ew EXCEPT !.pc = pc]
      BY <2>2 DEF ClearForSweep, EndSweep, KillSweep
    <3> QED
      BY <1>2, <3>1
  <2>3. CASE ReadRow
    <3>1. ew.at \in DOMAIN Excused
      BY <1>2, <2>3, ControlFiles DEF ReadRow
    <3>2. CASE ew' = [ew EXCEPT !.pc = "row", !.at = @ + 1, !.saw = Original]
      BY <1>2, <3>2 DEF Original
    <3>3. CASE ew' = [ew EXCEPT !.pc = "read", !.saw = tree[RowFile]]
      <4>1. /\ ew'.pc = "read" /\ ew'.at = ew.at /\ ew'.saw = tree[Excused[ew.at]]
            /\ DOMAIN ew' = DOMAIN ew
        BY <1>2, <3>3 DEF RowFile
      <4>2. 0 \notin tree[Excused[ew.at]]
        BY <3>1, ControlFiles DEF TreeInv, TreeTyped
      <4> QED
        BY <1>2, <3>1, <4>1, <4>2
    <3> QED
      BY <2>3, <3>2, <3>3 DEF ReadRow, NextRow
  <2> QED
    BY <2>1, <2>2, <2>3
<1>4. /\ InControl' = InControl /\ BreakIn' = BreakIn /\ Rewriting' = Rewriting
      /\ File' = File /\ ew'.pc # "applied"
      /\ InRow' => /\ ew'.at \in DOMAIN Excused /\ Excused[ew'.at] \in Files
                   /\ ew'.saw = tree[Excused[ew'.at]]
      /\ \A f \in Files : Dirty(f)' = Dirty(f)
  BY <1>1, <1>3, ControlFiles DEF InControl, BreakIn, Rewriting, File, InRow, Dirty
<1>5. /\ Rewriting' /\ Sweeping' => met'
      /\ InRow' => Sweeping /\ met' = met
  <2>1. CASE StartSweep
    BY <2>1 DEF StartSweep, Rewriting, InRow
  <2>2. CASE ~StartSweep
    <3>1. met' = met /\ Sweeping
      BY <2>2 DEF ClearForSweep, ReadRow, EndSweep, KillSweep, Sweeping
    <3> QED
      BY <1>4, <3>1 DEF TreeInv, TreeTyped
  <2> QED
    BY <2>1, <2>2
<1>6. TreeTyped'
  BY <1>1, <1>2, <1>3, <1>4, <1>5 DEF TreeInv, TreeTyped
<1>7. \A f : Ok(f)' => Ok(f)
  BY <1>1, OkShrinks
<1>8. InRow' => RowFile' = Excused[ew'.at]
  BY DEF RowFile
<1>9. Restores'
  <2>1. kills' = 0 => \A f \in Files : Ok(f) /\ Dirty(f) => BreakIn /\ f = File
    BY <1>2 DEF TreeInv, Restores
  <2>2. ASSUME kills' = 0, InRow', Ok(Excused[ew'.at]) PROVE ew'.saw = Original
    <3>1. ~Dirty(Excused[ew'.at])
      <4>1. BreakIn => Excused[ew'.at] # File
        BY <1>4, <1>5, <2>2, NotBoth DEF TreeInv, TreeTyped, InControl, BreakIn, Rewriting, File
      <4> QED
        BY <1>4, <2>1, <2>2, <4>1
    <3> QED
      BY <1>4, <2>2, <3>1 DEF Dirty
  <2> QED
    BY <1>1, <1>2, <1>4, <1>7, <1>8, <2>1, <2>2 DEF TreeInv, Restores
<1>10. Remains'
  <2>1. ASSUME runs <= 1, InRow', Ok(Excused[ew'.at]), ~Spares(ew'.saw)
        PROVE  KeptAside(Excused[ew'.at]) /\ ~Rewriting
    <3>1. /\ KeptAside(Excused[ew'.at])
          /\ Rewriting => BreakIn /\ Excused[ew'.at] = File
      BY <1>4, <2>1 DEF TreeInv, Remains
    <3>2. BreakIn => Excused[ew'.at] # File
      BY <1>4, <1>5, <2>1, NotBoth DEF TreeInv, TreeTyped, InControl, BreakIn, Rewriting, File
    <3> QED
      BY <3>1, <3>2
  <2>2. \A f : KeptAside(f)' = KeptAside(f)
    BY <1>1 DEF KeptAside
  <2>3. ASSUME runs = 0, InRow' PROVE Spares(ew'.saw)
    BY <1>4, <2>3 DEF TreeInv, Remains
  <2> QED
    BY <1>1, <1>4, <1>7, <1>8, <2>1, <2>2, <2>3 DEF TreeInv, Remains
<1> QED
  BY <1>6, <1>9, <1>10 DEF TreeInv

LEMMA NextKeepsTree ==
  ASSUME TreeInv, [Next]_vars
  PROVE  TreeInv'
<1>1. CASE Selftest \/ KillSelftest \/ GhostDies
  BY <1>1, BetweenSteps, BetweenKeepsTree, SetAsideKeepsTree, PlantKeepsTree,
     RunGuardKeepsTree, PutBackKeepsTree DEF Selftest
<1>2. CASE Sweep \/ KillSweep
  BY <1>2, ApplyKeepsTree, LookingKeepsTree DEF Sweep
<1>3. CASE \E r \in Readers : Reading(r)
  <2>1. UNCHANGED <<tree, backup, st, ew, runs, met, kills>>
    BY <1>3 DEF Reading, Look, ClearLock, Read
  <2> QED
    BY <2>1, ElsewhereKeepsTree
<1>4. CASE RunNext \/ UNCHANGED vars
  <2>1. UNCHANGED <<tree, backup, st, ew, runs, met>> /\ (kills' = kills \/ kills' = kills + 1)
    BY <1>4 DEF RunNext, Report, Launch, Baseline, CountAnchor, Stage, Test, Summarise,
                Leave, KillShard, vars, treeVars
  <2> QED
    BY <2>1, ElsewhereKeepsTree
<1> QED
  BY <1>1, <1>2, <1>3, <1>4 DEF Next, TreeNext

LEMMA TreeInvTells ==
  ASSUME TreeInv
  PROVE  OriginalsSurvive
<1>1. DOMAIN Controls = 1 .. Len(Controls) /\ DOMAIN Excused = 1 .. Len(Excused)
  BY ControlFiles
<1>2. BreakIn => InControl /\ Rewriting /\ st.at <= Len(Controls)
  BY <1>1 DEF TreeInv, TreeTyped, BreakIn, InControl, Rewriting
<1>3. ew.pc = "applied" => Sweeping /\ ew.at <= Len(Excused)
  BY <1>1 DEF TreeInv, TreeTyped, InRow, Sweeping
<1>4. runs <= 1 => \A f \in Files, c \in DOMAIN Controls : Ok(f) =>
        (c \in tree[f] => backup[f] # Nothing /\ c \notin backup[f])
  BY DEF TreeInv, Remains, KeptAside, Spares
<1>5. \A f \in Files : Ok(f) /\ kills = 0 /\ Dirty(f) =>
        \/ Rewriting /\ st.at <= Len(Controls) /\ f = File
        \/ Sweeping /\ ew.at <= Len(Excused) /\ f = RowFile
  BY <1>2, <1>3 DEF TreeInv, Restores
<1> QED
  BY <1>4, <1>5 DEF Ok, OriginalsSurvive

(* "Put the original back": however the steps of the self-test and of      *)
(* check-elsewhere interleave and whoever is killed, a file that only one  *)
(* of them breaks, and a file that both break until they have been under   *)
(* way at once, is broken, while nothing was killed, only when one of them *)
(* is at it; and until a second run a control's break stands only where a  *)
(* copy without it does.                                                   *)
THEOREM OriginalsAreRestored == Spec => []OriginalsSurvive
<1>1. TreeInv /\ [Next]_vars => TreeInv'
  BY NextKeepsTree
<1> QED
  BY <1>1, InitTree, TreeInvTells, PTL DEF Spec

=============================================================================
