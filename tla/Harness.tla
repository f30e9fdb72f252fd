------------------------------ MODULE Harness ------------------------------
(***************************************************************************)
(* A sharded mutation run (scripts/mutate-parallel.py over                 *)
(* scripts/mutate.py) beside the runners that rewrite the working tree.    *)
(* Each shard is a process with a shadow GNOROOT of its own                *)
(* (scripts/gnoroot.py); it copies the working tree into it anew for every *)
(* row and never asks for the lock.  Any shard may be killed.              *)
(***************************************************************************)
EXTENDS Worktree, Mutation

CONSTANTS
    Asked,      \* how many shards are asked for
    Batches,    \* batches run on a tree nobody rewrites
    Beside      \* batches run beside the other two runners

\* A run has a shard (none asked for means some).  A batch is a sequence of rows; the
\* toolchain says one of six things of a row, and its code is one nobody has
\* classified, or none.
ASSUME BatchesAssumption ==
    /\ Asked \in Nat \ {0}
    /\ \A b \in Batches \union Beside :
          /\ b \in Seq({b[k] : k \in DOMAIN b})
          /\ \A k \in DOMAIN b :
                /\ b[k].code \notin COMPILE_CODES \union RUNTIME_CODES
                /\ b[k].effect \in {"runs", "no parse", "unused name", "type error",
                                    "goroutine", "lint hangs"}

VARIABLES
    batch,     \* the rows that were sent
    shard,     \* each shard: its process, place, rows in hand and answer
    roots,     \* the processes whose shadow root stands
    report     \* the verdict of the whole run, once there is one

runVars == <<batch, shard, roots, report>>
vars    == <<treeVars, runVars>>

Shards == 0 .. (ShardCount(Asked, Len(batch)) - 1)
Mine(i) == Dealt(i, ShardCount(Asked, Len(batch)), Len(batch))

NotStarted ==
    [pid |-> Nobody, pc |-> "sent", at |-> 0, marred |-> {},
     says |-> <<>>, code |-> 0, summary |-> FALSE]

Init ==
    /\ TreeInit
    /\ \/ batch \in Beside
       \/ batch \in Batches /\ runs = MaxRuns /\ sweeps = MaxSweeps
    /\ shard = [i \in Shards |-> NotStarted]
    /\ roots = {}
    /\ report = "none"

ShardAt(i, pc) == shard[i].pc = pc

(***************************************************************************)
(* A new shard first reaps the roots whose owners are gone.                *)
(***************************************************************************)
\* Mutant: every root found is taken for an abandoned one.
Reap_All(rs) == {}

Reap(rs) == rs \intersect live

Launch(i) ==
    /\ ShardAt(i, "sent")
    /\ born' = born + 1 /\ live' = live \union {born'}
    /\ roots' = Reap(roots) \union {born'}
    /\ shard' = [shard EXCEPT ![i].pid = born', ![i].pc = "baseline"]
    /\ UNCHANGED <<lock, tree, backup, st, ew, rd, quiet, stolen, met, runs, sweeps, kills>>
    /\ UNCHANGED <<batch, report>>

\* The suites as they stand; over a broken tree they may be red, or never end.
Baseline(i) ==
    /\ ShardAt(i, "baseline")
    /\ \E good \in (IF TreeIsClean THEN {TRUE} ELSE BOOLEAN) :
          shard' = [shard EXCEPT ![i].pc = IF good THEN "rows" ELSE "leaving",
                                 ![i].code = IF good THEN 0 ELSE 2]
    /\ UNCHANGED <<treeVars, batch, roots, report>>

\* Mutant: a row whose anchor does not match ends the loop, not its turn in it.
Left_StopsAtBadAnchor(i) ==
    IF \E k \in DOMAIN shard[i].says : shard[i].says[k] = "bad anchor" THEN {}
    ELSE Mine(i) \ DOMAIN shard[i].says

Left(i) == Mine(i) \ DOMAIN shard[i].says
Next1(i) == CHOOSE k \in Left(i) : \A l \in Left(i) : k <= l

Say(i, k, verdict) ==
    shard' = [shard EXCEPT ![i].says = [l \in DOMAIN @ \union {k} |->
                                          IF l = k THEN verdict ELSE @[l]],
                           ![i].pc = "rows", ![i].at = 0,
                           ![i].marred = IF TreeIsClean THEN @ ELSE @ \union {k}]

\* The anchor is counted in the working tree, where a break may have taken it away.
CountAnchor(i) ==
    /\ ShardAt(i, "rows") /\ Left(i) # {}
    /\ LET k == Next1(i)
       IN  \/ /\ Fatal(batch[k])
              /\ shard' = [shard EXCEPT ![i].pc = "leaving", ![i].code = 1]
           \/ /\ ~Fatal(batch[k])
              /\ batch[k].matches # 1 \/ ~TreeIsClean
              /\ Say(i, k, "bad anchor")
           \/ /\ ~Fatal(batch[k]) /\ batch[k].matches = 1
              /\ shard' = [shard EXCEPT ![i].pc = "stage", ![i].at = k]
    /\ UNCHANGED <<treeVars, batch, roots, report>>

\* The tree is copied as it stands, and the row applied to the copy.
Stage(i) ==
    /\ ShardAt(i, "stage") /\ shard[i].pid \in roots
    /\ shard' = [shard EXCEPT ![i].pc = "test",
                              ![i].marred = IF TreeIsClean THEN @
                                            ELSE @ \union {shard[i].at}]
    /\ UNCHANGED <<treeVars, batch, roots, report>>

\* Over a copy with somebody's break in it the suites may say anything.
Test(i) ==
    /\ ShardAt(i, "test") /\ shard[i].pid \in roots
    /\ LET k == shard[i].at
       IN  \E verdict \in {Verdict(batch[k])} \union
                          (IF k \in shard[i].marred
                           THEN {"caught", "timed out", "invalid"} ELSE {}) :
             shard' = [shard EXCEPT ![i].says = [l \in DOMAIN @ \union {k} |->
                                                   IF l = k THEN verdict ELSE @[l]],
                                    ![i].pc = "rows", ![i].at = 0]
    /\ UNCHANGED <<treeVars, batch, roots, report>>

Summarise(i) ==
    /\ ShardAt(i, "rows") /\ Left(i) = {}
    /\ shard' = [shard EXCEPT ![i].pc = "leaving", ![i].summary = TRUE]
    /\ UNCHANGED <<treeVars, batch, roots, report>>

\* However it ends it takes its root with it, unless it is killed.
Leave(i) ==
    /\ ShardAt(i, "leaving")
    /\ live' = live \ {shard[i].pid}
    /\ roots' = roots \ {shard[i].pid}
    /\ shard' = [shard EXCEPT ![i].pc = "over"]
    /\ UNCHANGED <<lock, born, tree, backup, st, ew, rd, quiet, stolen, met, runs, sweeps, kills>>
    /\ UNCHANGED <<batch, report>>

KillShard(i) ==
    /\ shard[i].pc \notin {"sent", "over"} /\ kills < MaxKills
    /\ kills' = kills + 1
    /\ live' = live \ {shard[i].pid}
    /\ shard' = [shard EXCEPT ![i].pc = "over", ![i].code = -9]
    /\ UNCHANGED <<lock, born, tree, backup, st, ew, rd, quiet, stolen, met, runs, sweeps>>
    /\ UNCHANGED <<batch, roots, report>>

Answers == [i \in Shards |-> [code |-> shard[i].code, says |-> shard[i].says,
                              summary |-> shard[i].summary, of |-> Mine(i)]]

\* The shards are joined and one verdict is given; an empty batch is refused.
Report ==
    /\ report = "none"
    /\ \A i \in Shards : ShardAt(i, "over")
    /\ report' = CASE batch = <<>>                         -> "refused"
                   [] ~IsResult(Answers, Len(batch))       -> "not a result"
                   [] OTHER                                -> "a result"
    /\ UNCHANGED <<treeVars, batch, shard, roots>>

RunNext == \/ Report
           \/ \E i \in Shards : \/ Launch(i) \/ Baseline(i) \/ CountAnchor(i) \/ Stage(i)
                                \/ Test(i) \/ Summarise(i) \/ Leave(i) \/ KillShard(i)

Next == RunNext \/ (TreeNext /\ UNCHANGED runVars)

Spec     == Init /\ [][Next]_vars
FairSpec ==
    /\ Spec
    /\ WF_vars(Selftest /\ Rewriting /\ UNCHANGED runVars)
    /\ WF_vars(GhostDies /\ UNCHANGED runVars)
    /\ \A r \in Readers : WF_vars(Reading(r) /\ UNCHANGED runVars)

-----------------------------------------------------------------------------
Preflight == AnchorsPass(batch, FALSE) /\ CollisionsPass(batch)
Unmarred  == \A i \in Shards : shard[i].marred = {}

(***************************************************************************)
(* A non-result is not reported as a result: a row is reported caught only *)
(* if its mutation was applied once, built, and a suite that observes its  *)
(* package ran to the end and objected, unless the copy it was judged in   *)
(* had somebody's break in it.                                             *)
(***************************************************************************)
CaughtWasObjectedTo ==
    \A i \in Shards : \A k \in DOMAIN shard[i].says \ shard[i].marred :
       shard[i].says[k] = "caught" =>
          LET r == batch[k]
          IN  /\ r.matches = 1 /\ r.effect = "runs" /\ r.code = "none"
              /\ OBSERVERS[r.pkg] \intersect r.objectors # {}
              /\ OBSERVERS[r.pkg] \intersect r.hangs = {}

(***************************************************************************)
(* "A shard whose rows never ran must not be able to look like a shard     *)
(* whose rows all passed": the totals that are added up are the lengths of *)
(* the batches the shards were sent, said once in a summary, and a total   *)
(* stands for rows that were judged.  Whatever shard is red, is killed, or *)
(* meets a row that ends it or has no anchor, a run that is a result heard *)
(* of every row sent, from one shard each.                                 *)
(***************************************************************************)
ResultCountsEveryRow ==
    report = "a result" =>
       \A k \in DOMAIN batch :
          Cardinality({i \in Shards : k \in DOMAIN shard[i].says}) = 1

(***************************************************************************)
(* "Live roots are never touched": the shadow root of a shard that runs    *)
(* stands until the shard is over, whoever reaps meanwhile.                *)
(***************************************************************************)
RootsStayOwn ==
    \A i \in Shards : shard[i].pc \notin {"sent", "over"} => shard[i].pid \in roots

(***************************************************************************)
(* What the corpus guards pass is what the batch can measure: on a tree    *)
(* nobody broke, with nothing killed, a batch that passed them is a        *)
(* result, none of its rows is a bad anchor, and the invalid ones are      *)
(* those only the toolchain can tell.                                      *)
(***************************************************************************)
PreflightSparesTheBatch ==
    Preflight /\ kills = 0 /\ Unmarred /\ report # "none"
       /\ (\A i \in Shards : shard[i].code # 2) =>
          /\ report = "a result"
          /\ "bad anchor" \notin AllSaid(Answers)
          /\ \A k \in DOMAIN batch : Said(Answers, k) = "invalid" =>
                batch[k].effect \in {"type error", "goroutine", "lint hangs"}
=============================================================================
