------------------------------- MODULE Guards -------------------------------
(***************************************************************************)
(* The guards of the guards: scripts/selftest-checks.py breaks the tree    *)
(* once per control and requires a complaint; check-guards-armed,          *)
(* check-guards-run, check-control-anchors and check-stale-guards ask      *)
(* beforehand what can be asked without breaking anything.  The table of   *)
(* controls is written out as it stands: an arm is the guard it runs and   *)
(* the file it breaks (a script is named without its suffix; an arm whose  *)
(* file is its guard takes the guard's own eyes away).  What an arm plants *)
(* is in none of the questions asked here and is left out.                 *)
(***************************************************************************)
EXTENDS Integers, Sequences, FiniteSets, Corpus

Of(guard, files) == [i \in DOMAIN files |-> <<guard, files[i]>>]
Again(n, file)   == [i \in 1 .. n |-> file]

(***************************************************************************)
(* The controls, in the order they run.                                    *)
(***************************************************************************)
CitationArms ==
    Of("check-citations", Again(3, "check-citations") \o
        <<"errors.gno", "errors.gno", "kourtv2_usedrealm_seeded.txtar">>) \o
    Of("check-nontransferable", <<"records.gno", "records.gno", "check-nontransferable">>)

EpochArms ==
    Of("check-epoch-coherence",
       <<"stakeindex.gno", "governor.gno", "openrewards.gno", "stake.gno", "lock.gno",
         "dispute.gno", "dispute.gno", "governor.gno", "governor.gno", "voteweight.gno",
         "voteweight.gno", "session.gno">>)

LockArms ==
    Of("check-epoch-coherence",
       <<"claim.gno", "dispute.gno", "dispute.gno", "dispute.gno", "dispute.gno",
         "modvote.gno", "stakeseries.gno", "stakeseries.gno", "grc20votes.gno",
         "votelock.gno", "VOTEFLOOR.md", "VOTEFLOOR.md", "lock.gno", "ccwrap.gno",
         "check-epoch-coherence", "check-epoch-coherence">>)

MintArms ==
    Of("check-epoch-coherence",
       <<"emission.gno", "check-epoch-coherence", "emission.gno", "moderation.gno",
         "folders.gno", "check-epoch-coherence", "emission.gno", "emission.gno",
         "check-epoch-coherence">>)

PurityArms ==
    Of("check-nodelegate", <<"court.gno", "voteweight.gno", "grc20votes.gno",
                             "check-nodelegate">>) \o
    Of("check-membership-clears", <<"moderation.gno", "check-membership-clears">>) \o
    Of("check-read-purity", <<"folders.gno", "claim.gno", "claim.gno", "modvote.gno",
                              "stakeindex.gno", "check-read-purity", "check-read-purity">>)

SpendArms ==
    Of("check-spend-paths", <<"answer.gno", "lock.gno", "check-spend-paths">>) \o
    Of("check-abort-assertions", <<"dispute_test.gno", "stake_test.gno",
                                   "check-abort-assertions", "check-abort-assertions">>) \o
    Of("check-render-text", <<"modrender.gno", "ccwrap.gno", "ccwrap.gno">>)

\* These require a refusal as well as a complaint.
CollisionArms == Of("check-mutant-collisions", Again(4, "mutations-kourtv2.json"))

HarnessArms ==
    Of("check-control-anchors", <<"selftest-checks">>) \o
    Of("check-elsewhere", <<"kourtv2_paymentauth.txtar", "check-elsewhere",
                            "check-elsewhere">>) \o
    Of("check-paths", Again(5, "check-paths"))

CorpusArms ==
    Of("check-mutation-anchors", Again(7, "mutations-kourtv2.json") \o
                                 Again(2, "check-mutation-anchors")) \o
    Of("check-seed-emitters", <<"scenario", "scenario", "scenario", "check-seed-emitters">>)

ClockArms ==
    Of("check-demo-physics", <<"index.html", "check-demo-physics", "index.html">>) \o
    Of("check-height-shim", <<"stake.gno", "twap.gno", "buy.gno", "court.gno",
                              "testclock_test.gno", "clock.gno">>)

WebArms ==
    Of("check-web-selectors", <<"embed_layout.js">>) \o
    Of("check-chat-limits", <<"chat.js", "sanitize.go", "chat.js">>) \o
    Of("check-curation-reachable", <<"index.html", "index.html",
                                     "check-curation-reachable">>) \o
    Of("check-web-tests-reachable", <<"folders_test.js", "check-web-tests-reachable">>) \o
    Of("check-web-selectors", <<"check-web-selectors">>) \o
    Of("check-browser-checks-registered",
       <<"run.js", "run.js", "chat_all.js", "map_draws.js",
         "check-browser-checks-registered">>)

PageArms ==
    Of("check-seed-assets", <<"covid_demo">>) \o Of("check-tdz", <<"index.html">>) \o
    Of("check-mark-font", Again(3, "index.html")) \o
    Of("check-web-css", Again(3, "index.html")) \o
    Of("check-web-dupes", <<"index.html", "chat.js", "index.html">>) \o
    Of("check-bell-version", <<"chat.js", "chat.js">>)

ConstantArms ==
    Of("check-bell-strike", Again(2, "check-bell-strike")) \o
    Of("check-web-constants", <<"index.html", "index.html", "curve.gno">>) \o
    Of("check-block-time", <<"governor.gno", "clock.gno">>) \o
    Of("check-mutation-scope", <<"claim.gno", "mutate">>)

DeployArms ==
    Of("check-media-hosts", <<"media.gno", "nginx-security-headers.conf",
                              "nginx-security-headers.conf", "nginx.conf">>) \o
    Of("check-addr-shapes", Again(3, "bot.go")) \o
    Of("check-nginx-headers", <<"nginx.conf", "nginx.conf", "setup.sh", "nginx.conf">>) \o
    Of("check-live-reads", <<"check-live-reads">>)

StorageArms ==
    Of("check-storage", <<"check-storage", "grc20votes.gno", "court_test.gno",
                          "check-storage", "check-storage">>) \o
    Of("check-docnumbers", <<"doc.gno">>) \o
    Of("check-isolation", <<"clock_test.gno", "stake_test.gno", "stake_test.gno",
                            "Makefile", "check-isolation">>)

\* Fed a batch each; the last is run over a suite that is already red.
RunnerArms == Of("mutate", Again(9, "a batch") \o <<"clock_test.gno">>)

ParallelArms == Of("mutate-parallel", Again(5, "a batch") \o <<"stakeseries.gno">>)

LockfileArms == Of("repolock", Again(5, "the lock"))

RootArms == Of("gnoroot", Again(10, "a root"))

MetaArms ==
    Of("check-guards-armed", <<"selftest-checks", "check-guards-armed">>) \o
    Of("check-guards-run", <<"Makefile", "Makefile", "check-guards-run",
                             "check-guards-run", "check-guards-run">>) \o
    Of("check-stale-guards", <<"buy.gno", "testclock.gno", "check-stale-guards",
                               "check-stale-guards">>)

Arms == CitationArms \o EpochArms \o LockArms \o MintArms \o PurityArms \o SpendArms
        \o CollisionArms \o HarnessArms \o CorpusArms \o ClockArms \o WebArms \o PageArms
        \o ConstantArms \o DeployArms \o StorageArms \o RunnerArms \o ParallelArms
        \o LockfileArms \o RootArms \o MetaArms

\* Without a toolchain these are not run, and the self-test says so and fails.
NeedGno == {"check-storage", "check-docnumbers", "check-isolation", "mutate",
            "mutate-parallel", "gnoroot"}

ArmsOf(arms)   == {arms[i][1] : i \in DOMAIN arms}
BrokenBy(arms) == {arms[i][2] : i \in DOMAIN arms}

(***************************************************************************)
(* What a control says.  "want" is the complaint it requires, "said" what  *)
(* the guard prints over the break and "clean" what it prints without it,  *)
(* "code" its exit code over the break.                                    *)
(***************************************************************************)
Outcome(arm) ==
    CASE ~arm.there           -> "no such file"
      [] arm.matches # 1      -> "bad anchor"
      [] arm.want \in arm.said -> "fires"
      [] arm.code = 0         -> "silent"
      [] OTHER                -> "wrong complaint"

\* vacuity_audit: the arm wants what its guard prints anyway; an arm whose command is
\* not written out in literals is counted and passed over.
Vacuous(arm) == arm.legible /\ arm.want \in arm.clean

\* check-control-anchors, which runs nothing.
PlantsApply(arms) ==
    arms # {} /\ \A arm \in arms : arm.legible /\ arm.there /\ arm.matches = 1

EveryControlFires(arms, gno) ==
    gno /\ \A arm \in arms : Outcome(arm) = "fires" /\ ~Vacuous(arm)

(***************************************************************************)
(* check-guards-armed, check-guards-run and the coverage section of the    *)
(* self-test, over a repository: the guards found and committed, those a   *)
(* line of the self-test names, the Makefile and the guards exempt from    *)
(* it.  Being named in a reachable recipe is being run.                    *)
(***************************************************************************)
RUNNERS == {"mutate", "gnoroot", "mutate-parallel"}

Owed(repo)     == repo.found \intersect repo.tracked
Mentions(mk)   == UNION {mk[t].runs : t \in Reached(mk)}

ArmedPass(repo) == repo.git /\ repo.found # {} /\ Owed(repo) \subseteq repo.named

RunPass(repo) ==
    /\ "check" \in DOMAIN repo.makefile /\ Cardinality(repo.found) >= 10
    /\ repo.found \ repo.exempt \subseteq Mentions(repo.makefile)
    /\ repo.exempt \subseteq repo.found \ Mentions(repo.makefile)

CoveragePass(repo, arms) == repo.git /\ Owed(repo) \union RUNNERS \subseteq ArmsOf(arms)

(***************************************************************************)
(* check-stale-guards: what the first statement of every crossing          *)
(* entrypoint does with the frame.  It "checks" it, does something "else", *)
(* or is a call of a helper.                                               *)
(***************************************************************************)
\* The crossing helpers of a package, which are entrypoints themselves.
Helpers(entries, pkg) == {e \in entries : e.pkg = pkg /\ e.must}

FrameVerdict(e, entries, exempt) ==
    LET named == {h \in Helpers(entries, e.pkg) : h.name = e.first}
    IN  CASE <<e.pkg, e.name>> \in exempt             -> "exempt"
          [] e.first = "checks"                       -> "direct"
          [] \E h \in named : h.first = "checks"      -> "delegated"
          [] named # {}                               -> "DELEGATED"
          [] e.first # "else"                         -> "UNKNOWN"
          [] OTHER                                    -> "UNGUARDED"

FramesPass(entries, exempt) ==
    /\ entries # {}
    /\ \A e \in entries : FrameVerdict(e, entries, exempt) \in {"exempt", "direct", "delegated"}
    /\ exempt \subseteq {<<e.pkg, e.name>> : e \in entries}

(***************************************************************************)
(* scripts/gnoroot.py: what the reaper takes and what remove refuses.  A   *)
(* directory under the base is a shadow root by its prefix, and is owned   *)
(* by the process at the end of its name, if a number stands there.        *)
(***************************************************************************)
Nameless == 0

Reaped(dirs, alive) == {d \in dirs : d.shadow /\ d.owner # Nameless /\ d.owner \notin alive}
Removable(d)        == d.shadow /\ d.underBase
Buildable(real)     == real = "there"

(***************************************************************************)
(* The repository as it stands.                                            *)
(***************************************************************************)
GuardFiles ==
    {"check-abort-assertions", "check-addr-shapes", "check-bell-strike",
     "check-bell-version", "check-block-time", "check-browser-checks-registered",
     "check-chat-limits", "check-citations", "check-control-anchors",
     "check-curation-reachable", "check-demo-physics", "check-docnumbers",
     "check-elsewhere", "check-epoch-coherence", "check-guards-armed", "check-guards-run",
     "check-height-shim", "check-isolation", "check-live-reads", "check-mark-font",
     "check-media-hosts", "check-membership-clears", "check-mutant-collisions",
     "check-mutation-anchors", "check-mutation-scope", "check-nginx-headers",
     "check-nodelegate", "check-nontransferable", "check-paths", "check-read-purity",
     "check-render-text", "check-seed-assets", "check-seed-emitters", "check-spend-paths",
     "check-stale-guards", "check-storage", "check-tdz", "check-web-constants",
     "check-web-css", "check-web-dupes", "check-web-selectors",
     "check-web-tests-reachable"}

EXEMPT == {"check-isolation", "check-live-reads"}

\* What each target "check" needs says of guards.
Recipes ==
    [t \in {"realm-test", "web-guards", "guards", "web-constants", "one each"} |->
       CASE t = "realm-test" ->
              {"check-citations", "check-docnumbers", "check-storage",
               "check-nontransferable", "check-epoch-coherence",
               "check-membership-clears", "check-read-purity", "check-spend-paths",
               "check-abort-assertions"}
         [] t = "web-guards" ->
              {"check-tdz", "check-seed-assets", "check-web-dupes", "check-web-css",
               "check-web-selectors", "check-browser-checks-registered",
               "check-web-tests-reachable", "check-curation-reachable",
               "check-chat-limits", "check-bell-version", "check-bell-strike",
               "check-mark-font"}
         [] t = "guards" ->
              {"check-guards-armed", "check-guards-run", "check-browser-checks-registered",
               "check-block-time", "check-mutation-scope"}
         [] t = "web-constants" ->
              {"check-web-constants", "check-media-hosts", "check-nginx-headers",
               "check-addr-shapes"}
         [] t = "one each" ->
              {"check-elsewhere", "check-height-shim", "check-seed-emitters",
               "check-nodelegate", "check-demo-physics", "check-stale-guards",
               "check-control-anchors", "check-paths", "check-render-text",
               "check-mutant-collisions", "check-mutation-anchors"}]

CheckMakefile ==
    [t \in {"check"} \union DOMAIN Recipes |->
       IF t = "check" THEN Target(DOMAIN Recipes, {}) ELSE Target({}, Recipes[t])]

TheRepo == [git |-> TRUE, found |-> GuardFiles, tracked |-> GuardFiles, named |-> GuardFiles,
            makefile |-> CheckMakefile, exempt |-> EXEMPT]

\* The files check-elsewhere rewrites, and the harnesses it runs over them.
ExcusedFiles == {"testclock.gno", "stakeindex.gno", "buy.gno"}
Excuses      == {"kourtv2_usedrealm_seeded.txtar", "kourtv2_testclock.txtar",
                 "check-read-purity", "kourtv2_paymentauth.txtar",
                 "kourtv2_usedrealm_coin.txtar"}

-----------------------------------------------------------------------------
(***************************************************************************)
(* The tree as it stands is watched: every committed guard and runner has  *)
(* an arm, is named by the self-test, and is reached by "check" or exempt. *)
(***************************************************************************)
TreeIsWatched ==
    ArmedPass(TheRepo) /\ RunPass(TheRepo) /\ CoveragePass(TheRepo, Arms)

\* One edit away from it.
Edits ==
    {[TheRepo EXCEPT !.named = @ \ {g}] : g \in GuardFiles} \union
    {[TheRepo EXCEPT !.tracked = @ \ {g}] : g \in GuardFiles} \union
    {[TheRepo EXCEPT !.found = @ \ {g}] : g \in GuardFiles} \union
    {[TheRepo EXCEPT !.exempt = e] : e \in SUBSET {"check-isolation", "check-live-reads",
                                                  "check-paths", "check-gone"}} \union
    {[TheRepo EXCEPT !.makefile["check"].deps = @ \ {t}] : t \in DOMAIN Recipes} \union
    {[TheRepo EXCEPT !.makefile[t].runs = @ \ {g}] : t \in DOMAIN Recipes, g \in GuardFiles}
    \union
    {[TheRepo EXCEPT !.found = @ \union {"check-new"}, !.tracked = t, !.named = n] :
        t, n \in {GuardFiles, GuardFiles \union {"check-new"}}} \union
    {[TheRepo EXCEPT !.git = FALSE], [TheRepo EXCEPT !.found = {}]}

Runs(repo, g)   == g \in Mentions(repo.makefile) \union repo.exempt
Asleep(repo)    == {g \in Owed(repo) : ~Runs(repo, g) \/ g \notin ArmsOf(Arms)}
Noticed(repo)   == ~(ArmedPass(repo) /\ RunPass(repo) /\ CoveragePass(repo, Arms))
Harmless(repo)  == repo.git /\ repo.found # {} /\ repo.exempt = EXEMPT

(***************************************************************************)
(* No edit puts a committed guard to sleep unnoticed, and the guard of the *)
(* tree that only loses its second mention, or is not yet committed and    *)
(* run already, is not cried over.                                         *)
(***************************************************************************)
NoGuardSleeps ==
    \A repo \in Edits :
       /\ Asleep(repo) # {} => Noticed(repo)
       /\ Harmless(repo) /\ Noticed(repo) =>
             \/ Asleep(repo) # {}
             \/ \E g \in repo.found \ repo.exempt : ~Runs(repo, g)
             \/ ~(Owed(repo) \subseteq repo.named)
             \/ ~(repo.exempt \subseteq repo.found)

ArmCases ==
    [there: BOOLEAN, matches: 0 .. 2, legible: BOOLEAN, want: {"w"},
     said: SUBSET {"w", "v"}, clean: SUBSET {"w"}, code: {0, 1}]

(***************************************************************************)
(* The division of labour: an arm the self-test passes planted its break   *)
(* once, and its guard said of the break what it does not say without it;  *)
(* and an arm check-control-anchors passes is never a BROKEN CONTROL.      *)
(* That the guard also failed is not asked: one that prints its complaint  *)
(* and exits 0 fires.                                                      *)
(***************************************************************************)
FiringShowsTheBreak ==
    \A arm \in ArmCases :
       /\ EveryControlFires({arm}, TRUE) /\ arm.legible =>
             arm.there /\ arm.matches = 1 /\ arm.want \in arm.said \ arm.clean
       /\ PlantsApply({arm}) => Outcome(arm) \notin {"no such file", "bad anchor"}

TalkersFire ==
    \E arm \in ArmCases : EveryControlFires({arm}, TRUE) /\ PlantsApply({arm}) /\ arm.code = 0

\* Entrypoints of two packages, a helper of one name in each.
EntryIds  == {<<"p", "A">>, <<"p", "mustB">>, <<"p", "mustC">>, <<"q", "mustB">>}
EntrySets ==
    UNION {{{[pkg |-> id[1], name |-> id[2], must |-> id[2] # "A", first |-> f[id]] :
                id \in ids} : f \in [ids -> {"checks", "else", "mustB", "mustC"}]} :
           ids \in SUBSET EntryIds}

\* Where calls of helpers lead within n steps.
Checks(e, entries) ==
    LET within[n \in 0 .. 3] ==
          IF n = 0 THEN {x \in entries : x.first = "checks"}
          ELSE within[n - 1] \union
               {x \in entries : \E h \in within[n - 1] : h.pkg = x.pkg /\ h.name = x.first}
    IN  e \in within[3]

(***************************************************************************)
(* What check-stale-guards passes is checked: an entrypoint that is not    *)
(* exempt refuses a stale frame itself or in the helper its first          *)
(* statement calls, of its own package and not excused in its turn.        *)
(***************************************************************************)
FramesAreChecked ==
    \A entries \in EntrySets : \A exempt \in {{}, {<<"p", "A">>}, {<<"p", "mustB">>}} :
       FramesPass(entries, exempt) =>
          \A e \in entries : <<e.pkg, e.name>> \notin exempt => Checks(e, entries)

(***************************************************************************)
(* The reaper takes an abandoned root and leaves a live one, and nothing   *)
(* that is not a shadow is removed.                                        *)
(***************************************************************************)
RootsAreTold ==
    LET dir(s, o) == [shadow |-> s, owner |-> o, underBase |-> TRUE]
        dirs      == {dir(s, o) : s \in BOOLEAN, o \in {Nameless, 7, 8}}
    IN  /\ Reaped(dirs, {7}) = {dir(TRUE, 8)}
        /\ \A d \in Reaped(dirs, {7}) : Removable(d)
        /\ ~Removable(dir(FALSE, 7)) /\ ~Removable([dir(TRUE, 7) EXCEPT !.underBase = FALSE])
        /\ \A real \in {"", "a path that is not there"} : ~Buildable(real)

(***************************************************************************)
(* Every file that check-elsewhere rewrites, and harnesses it runs over    *)
(* them, are broken by some arm of the self-test as well.                  *)
(***************************************************************************)
FilesAreShared ==
    /\ ExcusedFiles \subseteq BrokenBy(Arms)
    /\ Excuses \intersect BrokenBy(Arms) # {}

ASSUME GuardsHold == TreeIsWatched /\ NoGuardSleeps /\ FiringShowsTheBreak /\ TalkersFire
ASSUME FramesHold == FramesAreChecked /\ RootsAreTold /\ FilesAreShared
=============================================================================
