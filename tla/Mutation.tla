------------------------------ MODULE Mutation ------------------------------
(***************************************************************************)
(* What a mutation run says of a row, and what a sharded run says of a     *)
(* batch: scripts/mutate.py and scripts/mutate-parallel.py as functions of *)
(* the rows.  Harness runs them as processes over the working tree.        *)
(***************************************************************************)
EXTENDS Corpus

(***************************************************************************)
(* One suite run of mutate.py over a staged copy: the mutant is linted     *)
(* first, and suites are run only on one that builds.                      *)
(***************************************************************************)
COMPILE_CODES == {"gnoTypeCheckError", "gnoParserError"}
RUNTIME_CODES == {"gnoUnknownError"}

\* What gno says when a mutant does not build; a planted goroutine is ambiguous.
LintCodes(r) ==
    CASE r.effect = "no parse"                     -> {"gnoParserError"}
      [] r.effect \in {"unused name", "type error"} -> {"gnoTypeCheckError"}
      [] r.effect = "goroutine"                    -> {"gnoUnknownError"}
      [] OTHER                                     -> {}

MutantBuilds(r) == r.effect = "runs"

\* What a run of the observers answers.
RunSuite(r) ==
    LET built  == MutantBuilds(r)
        names  == IF built THEN OBSERVERS[r.pkg] ELSE {}
        hung   == names \intersect r.hangs
        failed == (names \intersect r.objectors) \ hung
    IN  [built |-> built, hung |-> hung, ok |-> built /\ hung = {} /\ failed = {},
         codes |-> LintCodes(r) \union (IF names \ hung # {} /\ r.code # "none"
                                        THEN {r.code} ELSE {})]

\* Mutant: the codes alone tell what built.
Judge_TrustsCodes(r, run) ==
    CASE run.hung # {}                           -> "timed out"
      [] run.ok /\ r.elsewhere # "none"          -> "covered elsewhere"
      [] run.ok                                  -> "survived"
      [] run.codes \intersect COMPILE_CODES # {} -> "invalid"
      [] OTHER                                   -> "caught"

\* The ladder of verdicts, non-results first.
Judge(r, run) ==
    CASE run.codes \ (COMPILE_CODES \union RUNTIME_CODES) # {} -> "unclassified"
      [] run.hung # {}                                         -> "timed out"
      [] run.ok /\ r.elsewhere # "none"                        -> "covered elsewhere"
      [] run.ok                                                -> "survived"
      [] run.codes \intersect COMPILE_CODES # {}               -> "invalid"
      [] ~run.built                                            -> "invalid"
      [] OTHER                                                 -> "caught"

Verdict(r) == IF r.matches # 1 THEN "bad anchor" ELSE Judge(r, RunSuite(r))

\* A row whose package or file cannot be resolved ends the whole process.
Fatal(r) == ~r.shaped \/ ~Resolves(r)

\* What the summary of a shard counts.
NonResults == {"unclassified", "timed out", "invalid", "bad anchor"}
NotCaught  == NonResults \union {"survived"}

(***************************************************************************)
(* Rows are dealt round-robin.                                             *)
(***************************************************************************)
ShardCount(asked, len) == IF asked < len THEN asked ELSE len

\* The rows of shard i of n.
Dealt(i, n, len) == {k \in 1 .. len : (k - 1) % n = i}

(***************************************************************************)
(* The verdict over the shards.  A shard answers with an exit code, what   *)
(* it said of each of its rows, and, if it reached its summary, how many   *)
(* rows it was sent.  What is said of the rows is printed and not counted: *)
(* only the totals of the summaries are added up.                          *)
(***************************************************************************)
Broken(answer) == answer.code # 0 \/ ~answer.summary

\* The rows behind the totals, each with the shard whose summary counts it.
Accounted(answers) ==
    UNION {{i} \X (IF answers[i].summary THEN answers[i].of ELSE {}) : i \in DOMAIN answers}

IsResult(answers, len) ==
    /\ \A i \in DOMAIN answers : ~Broken(answers[i])
    /\ Cardinality(Accounted(answers)) = len

Heard(answers) == UNION {DOMAIN answers[i].says : i \in DOMAIN answers}

\* What is said of row k.
Said(answers, k) ==
    LET i == CHOOSE j \in DOMAIN answers : k \in DOMAIN answers[j].says
    IN  answers[i].says[k]

AllSaid(answers) == {Said(answers, k) : k \in Heard(answers)}
=============================================================================
