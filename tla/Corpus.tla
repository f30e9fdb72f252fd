------------------------------- MODULE Corpus -------------------------------
(***************************************************************************)
(* The mutation corpus and the guards that read it without running it:     *)
(* check-mutation-anchors, check-mutant-collisions, check-mutation-scope   *)
(* and check-elsewhere.  A row is a (pkg, file, find, replace) tuple with  *)
(* a label; its texts are abstracted to what the guards and the runner     *)
(* tell apart: how often the anchor occurs in the file, the identity of    *)
(* the text that results, and what the toolchain and the suites make of    *)
(* it.                                                                     *)
(***************************************************************************)
EXTENDS Integers, Sequences, FiniteSets

\* The trees a run stages, and the realms and packages each imports.
PKGS == {"govern", "checkpoint", "grc20votes", "governor", "offerer",
         "kourtv2", "twap", "curve", "ccwrap"}

Imports ==
    [p \in PKGS |->
       CASE p = "grc20votes" -> {"checkpoint"}
         [] p = "kourtv2"    -> {"checkpoint", "curve", "governor", "grc20votes", "twap"}
         [] p = "govern"     -> {"governor", "grc20votes"}
         [] p = "ccwrap"     -> {"kourtv2"}
         [] p = "offerer"    -> {"govern"}
         [] OTHER            -> {}]

\* Which suites are run on a mutation in a tree.
OBSERVERS ==
    [p \in PKGS |->
       CASE p = "offerer"    -> {"offerer", "govern"}
         [] p = "twap"       -> {"twap", "kourtv2"}
         [] p = "curve"      -> {"curve", "kourtv2"}
         [] p = "grc20votes" -> {"grc20votes", "kourtv2", "govern"}
         [] p = "governor"   -> {"governor", "kourtv2", "govern"}
         [] p = "checkpoint" -> {"checkpoint", "grc20votes", "governor", "govern", "kourtv2"}
         [] OTHER            -> {p}]

(***************************************************************************)
(* One row of the corpus; the variants the guards know are exceptions to   *)
(* it.  text is what the mutation makes of the file; effect what the       *)
(* toolchain says of it ("runs", "no parse", "unused name", "type error",  *)
(* "goroutine" or "lint hangs"); code an error code of gno's that nobody   *)
(* has classified; objectors and hangs the suites that object and that     *)
(* never finish.                                                           *)
(***************************************************************************)
Row == [shaped |-> TRUE, label |-> "a defect", pkg |-> "twap", file |-> "there",
        find |-> "once", replace |-> "x", matches |-> 1, text |-> "mutated",
        elsewhere |-> "none",
        effect |-> "runs", objectors |-> {"twap"}, hangs |-> {}, code |-> "none"]

(***************************************************************************)
(* routinely_run: an excuse counts only if a target that "check" reaches   *)
(* executes the harness; being mentioned in a recipe is not being run.     *)
(***************************************************************************)
Reached(mk) ==
    LET grow[n \in 0 .. Cardinality(DOMAIN mk)] ==
          IF n = 0 THEN {"check"} \intersect DOMAIN mk
          ELSE grow[n - 1] \union
               (UNION {mk[t].deps : t \in grow[n - 1]} \intersect DOMAIN mk)
    IN  grow[Cardinality(DOMAIN mk)]

Executor(where) ==
    CASE where \in {"a.txtar", "gone.txtar"} -> {"go test -tags txtar"}
      [] where = "g.py"                      -> {"python3 g.py"}
      [] where = "other.py"                  -> {"python3 other.py"}
      [] OTHER                               -> {}

RoutinelyRun(where, mk) ==
    \E t \in Reached(mk) : Executor(where) \intersect mk[t].runs # {}

Target(deps, runs) == [deps |-> deps, runs |-> runs]

\* The part of the Makefile the excuses rest on.
Makefile ==
    [t \in {"check", "realm-test", "txtar-test"} |->
       CASE t = "check"      -> Target({"realm-test", "txtar-test"}, {})
         [] t = "realm-test" -> Target({}, {"gno test", "python3 g.py"})
         [] t = "txtar-test" -> Target({}, {"go test -tags txtar"})]

(***************************************************************************)
(* check-mutation-anchors.  The faults of one row are independent up to    *)
(* the first that leaves nothing to resolve.                               *)
(***************************************************************************)
Resolves(r) == r.pkg \in PKGS /\ r.file = "there"
NoOp(r)     == r.find = r.replace

RowVerdicts(r) ==
    IF ~r.shaped THEN {"malformed"}
    ELSE {f \in {"unlabelled", "line-numbered", "stale elsewhere", "unrun elsewhere",
                 "unknown pkg", "missing file", "no-op", "bad anchor"} :
             \/ f = "unlabelled"      /\ r.label = "none"
             \/ f = "line-numbered"   /\ r.label = "a line number"
             \/ f = "stale elsewhere" /\ r.elsewhere = "gone.txtar"
             \/ f = "unrun elsewhere" /\ r.elsewhere \notin {"none", "gone.txtar"}
                                      /\ ~RoutinelyRun(r.elsewhere, Makefile)
             \/ f = "unknown pkg"     /\ r.pkg \notin PKGS
             \/ f = "missing file"    /\ r.pkg \in PKGS /\ r.file # "there"
             \/ f = "no-op"           /\ Resolves(r) /\ NoOp(r)
             \/ f = "bad anchor"      /\ Resolves(r) /\ ~NoOp(r) /\ r.matches # 1}

Mutation(r) == <<r.pkg, r.file, r.find, r.replace>>

CrossVerdicts(rows) ==
    {f \in {"duplicate triple", "duplicate label"} :
       \E i, j \in DOMAIN rows :
          /\ i < j /\ rows[i].shaped /\ rows[j].shaped
          /\ \/ f = "duplicate triple" /\ Mutation(rows[i]) = Mutation(rows[j])
             \/ f = "duplicate label"  /\ rows[i].label = rows[j].label
                                       /\ rows[i].label # "none"}

\* A package that is staged and has no observers would be judged by every suite.
Blind == PKGS \ DOMAIN OBSERVERS

AnchorsPass(rows, mayBeEmpty) ==
    /\ Blind = {}
    /\ rows = <<>> => mayBeEmpty
    /\ \A i \in DOMAIN rows : RowVerdicts(rows[i]) = {}
    /\ CrossVerdicts(rows) = {}

(***************************************************************************)
(* check-mutant-collisions: every row yields a mutant that differs from    *)
(* the source, parses and orphans no name, and no two rows yield the same. *)
(***************************************************************************)
Mutant(r) == <<r.file, r.text>>

\* Mutant: whether the mutant is Go is left to the run.
Usable_Unparsed(r) == Resolves(r) /\ r.shaped /\ r.matches = 1 /\ ~NoOp(r)

Usable(r) ==
    /\ Resolves(r) /\ r.shaped /\ r.matches = 1 /\ ~NoOp(r)
    /\ r.effect \notin {"no parse", "unused name"}

CollisionsPass(rows) ==
    /\ rows # <<>>
    /\ \A i \in DOMAIN rows : Usable(rows[i])
    /\ \A i, j \in DOMAIN rows : Mutant(rows[i]) = Mutant(rows[j]) => i = j

(***************************************************************************)
(* check-mutation-scope: what a run covers is a claim about the imports.   *)
(***************************************************************************)
Unmapped(imports) == UNION {imports[p] : p \in PKGS} \ PKGS
Rowless(rows)     == PKGS \ {rows[i].pkg : i \in DOMAIN rows}
ScopePass(rows)   == Unmapped(Imports) = {} /\ Rowless(rows) = {}

(***************************************************************************)
(* check-elsewhere: the harness a row names must fail under the mutation   *)
(* and name the line it failed at; a harness that died objected to         *)
(* nothing.                                                                *)
(***************************************************************************)
HarnessKnown(r) == r.elsewhere \in {"a.txtar", "g.py", "other.py", "gone.txtar"}

ElsewhereVerdict(r, said) ==
    CASE ~Resolves(r)      -> "unresolved"
      [] r.matches # 1     -> "bad anchor"
      [] ~HarnessKnown(r)  -> "unknown harness"
      [] said = "passes"   -> "does not assert"
      [] said = "dies"     -> "named no line"
      [] said = "objects"  -> "ok"

(***************************************************************************)
(* The guards' own fixtures: each verdict can be reached, the clean row    *)
(* stays clean, and a runner no target reaches does not count.             *)
(***************************************************************************)
InCheck   == [t \in {"check", "txtar-test"} |->
                IF t = "check" THEN Target({"realm-test", "txtar-test"}, {})
                ELSE Target({}, {"go test -tags txtar"})]
NoRunner  == [t \in {"check"} |-> Target({"realm-test"}, {})]
Unreached == [InCheck EXCEPT !["check"].deps = {"realm-test"}]
Mentioned == [t \in {"check", "scenarios-check"} |->
                IF t = "check" THEN Target({"scenarios-check"}, {})
                ELSE Target({}, {"cmp a.txtar"})]
PyIn      == [t \in {"check", "realm-test"} |->
                IF t = "check" THEN Target({"realm-test"}, {})
                ELSE Target({}, {"python3 g.py"})]

RowFixtures ==
    /\ RowVerdicts([Row EXCEPT !.pkg = "nope"]) = {"unknown pkg"}
    /\ RowVerdicts([Row EXCEPT !.file = "gone"]) = {"missing file"}
    /\ RowVerdicts([Row EXCEPT !.replace = "once"]) = {"no-op"}
    /\ \A n \in {0, 2} : RowVerdicts([Row EXCEPT !.matches = n]) = {"bad anchor"}
    /\ RowVerdicts([Row EXCEPT !.elsewhere = "gone.txtar"]) = {"stale elsewhere"}
    /\ RowVerdicts([Row EXCEPT !.label = "none"]) = {"unlabelled"}
    /\ RowVerdicts([Row EXCEPT !.shaped = FALSE]) = {"malformed"}
    /\ RowVerdicts([Row EXCEPT !.label = "a line number"]) = {"line-numbered"}
    /\ RowVerdicts(Row) = {}

CrossFixtures ==
    LET other == [Row EXCEPT !.label = "another defect"]
    IN  /\ CrossVerdicts(<<Row, other>>) = {"duplicate triple"}
        /\ CrossVerdicts(<<Row, [Row EXCEPT !.find = "other"]>>) = {"duplicate label"}
        /\ CrossVerdicts(<<Row, [other EXCEPT !.pkg = "govern"]>>) = {}
        /\ CrossVerdicts(<<Row, [other EXCEPT !.replace = "y"]>>) = {}
        /\ CrossVerdicts(<<Row>>) = {}

RunFixtures ==
    /\ RoutinelyRun("a.txtar", InCheck) /\ RoutinelyRun("g.py", PyIn)
    /\ \A mk \in {NoRunner, Unreached, Mentioned} : ~RoutinelyRun("a.txtar", mk)
    /\ ~RoutinelyRun("other.py", PyIn) /\ ~RoutinelyRun("NOTES.md", InCheck)

\* The scope guard holds of the map as it stands, for a corpus with a row a package.
ScopeFixtures ==
    /\ Unmapped(Imports) = {}
    /\ LET ps   == <<"govern", "checkpoint", "grc20votes", "governor", "offerer",
                    "kourtv2", "twap", "curve", "ccwrap">>
           rows == [i \in DOMAIN ps |-> [Row EXCEPT !.pkg = ps[i]]]
       IN  ScopePass(rows) /\ ~ScopePass(Tail(rows))

ASSUME FixturesHold == RowFixtures /\ CrossFixtures /\ RunFixtures /\ ScopeFixtures
=============================================================================
