------------------------------ MODULE Seeding -------------------------------
(***************************************************************************)
(* A scenario seeded onto a chain (scripts/scenario.py main, and the       *)
(* launcher that runs what it emits): the scenario is written, then each   *)
(* back end in turn emits it and runs the text on a chain of its own.      *)
(*                                                                         *)
(*   txtar    a test: calls, refusals and reads, stops at the first wrong  *)
(*   plan     a broadcast: calls, reads and mined blocks, set -e           *)
(*   genesis  every call in one block, a failed one passed over, and the   *)
(*            end-state reads afterwards                                   *)
(*                                                                         *)
(* A story is one of the files under scenarios/, built line by line; the   *)
(* story "written" is any short program over an alphabet of builder calls. *)
(***************************************************************************)
EXTENDS Scenario

CONSTANTS
    Told,          \* the stories this instance tells
    Program,       \* their programs, by name
    CI,            \* whether each is a CI scenario
    Alphabet,      \* the builder calls a written program is made of
    MaxCalls,      \* and how many it may make
    MaxSkew, AdvanceStep, GenesisTime

VARIABLES
    story,    \* which story is told
    file,     \* the lines of its file that have still to run
    calls,    \* how many builder calls a written program has made
    scn,      \* the scenario built so far
    phase,    \* "writing", "ready", "seeding" or "checking"
    path,     \* the back end at work
    todo,     \* the emitted lines it has still to run
    chain,    \* the chain it runs them on
    missed,   \* whether a call of the genesis file failed and was passed over
    outcome,  \* how each back end ended
    served    \* the chain each one that landed left behind

vars == <<story, file, calls, scn, phase, path, todo, chain, missed, outcome, served>>

D == INSTANCE Docket WITH YES <- 0, NO <- 1

Paths == <<"txtar", "plan", "genesis">>
NotRun == "not run"

\* A line every file may hold: it calls a builder's method, and where it names an
\* entrypoint, one of those the docket models.
Writable(o) ==
    /\ o[1] \in Verbs
    /\ o[1] \in {"call", "expect_refuse"} => o[3] \in D!Entrypoints

ASSUME ProgramAssumption ==
    /\ \A name \in Told \ {"written"} :
          Program[name] \in Seq({line \in ToSet(Program[name]) : Writable(line)})
    /\ \A line \in ToSet(Alphabet) : Writable(line)

Names(s) == {DEPLOYER} \union {s.accounts[i].name : i \in 1..Len(s.accounts)}

Premined(rows) == FoldLeft(LAMBDA f, r : D!Put(f, r.name, r.gnot), <<>>, rows)

\* The launcher premines the manifest; the deploy key owns the realm.
Funded(p, s) ==
    LET owner == IF p = "txtar" THEN DEPLOYER ELSE "deployer"
        rows  == IF p = "txtar"
                 THEN <<[name |-> DEPLOYER, gnot |-> GNODEV_DEFAULT_PREMINE]>> \o s.accounts
                 ELSE EmitAccounts(s)
    IN  [D!Pristine(owner) EXCEPT !.gnot = Premined(rows)]

Init ==
    /\ story \in Told
    /\ file = IF story = "written" THEN <<>> ELSE Program[story]
    /\ calls = 0
    /\ scn = Empty
    /\ phase = "writing"
    /\ path = 0
    /\ todo = <<>>
    /\ chain = <<>>
    /\ missed = FALSE
    /\ outcome = [p \in {"txtar", "plan", "genesis"} |-> NotRun]
    /\ served = [p \in {"plan", "genesis"} |-> <<>>]

\* The next line of the story's file.
Tell ==
    /\ phase = "writing" /\ ~scn.raised /\ file # <<>>
    /\ scn' = Apply(scn, Head(file))
    /\ file' = Tail(file)
    /\ UNCHANGED <<story, calls, phase, path, todo, chain, missed, outcome, served>>

\* One more line of a written program.
Write ==
    /\ phase = "writing" /\ ~scn.raised /\ story = "written" /\ calls < MaxCalls
    /\ \E line \in ToSet(Alphabet) : scn' = Apply(scn, line)
    /\ calls' = calls + 1
    /\ UNCHANGED <<story, file, phase, path, todo, chain, missed, outcome, served>>

\* The file is complete, or raised.
Save ==
    /\ phase = "writing" /\ (file = <<>> \/ scn.raised)
    /\ phase' = "ready"
    /\ UNCHANGED <<story, file, calls, scn, path, todo, chain, missed, outcome, served>>

Kind(p) == IF p = "genesis" THEN "txs" ELSE p

Ended(how) ==
    /\ outcome' = [outcome EXCEPT ![Paths[path]] = how]
    /\ phase' = "ready"
    /\ todo' = <<>>
    /\ chain' = <<>>

\* The next back end emits the scenario, or refuses to.
Launch ==
    /\ phase = "ready" /\ path < Len(Paths)
    /\ path' = path + 1
    /\ LET p    == Paths[path + 1]
           text == Emitted(Kind(p), scn, CI[story], Names(scn))
       IN  IF text.ok
           THEN /\ phase' = "seeding"
                /\ todo' = text.lines
                /\ chain' = Funded(p, scn)
                /\ UNCHANGED outcome
           ELSE /\ outcome' = [outcome EXCEPT ![p] = "refused"]
                /\ UNCHANGED <<phase, todo, chain>>
    /\ missed' = FALSE
    /\ UNCHANGED <<story, file, calls, scn, served>>

Here(kind) == todo # <<>> /\ Head(todo).kind = kind
Who(line) == IF Paths[path] = "txtar" THEN line.who ELSE Signer(line.who)
InBlocks(ch) == IF Paths[path] = "genesis" THEN ch ELSE [ch EXCEPT !.blocks = @ + 1]
Sent(line) == D!Submit(chain, Who(line), line.func, line.args, line.send, GAS_FEE)

\* A call, which the broadcast paths wait for and stop on, and the genesis
\* block passes over when it fails.
Transact ==
    /\ phase = "seeding" /\ Here("call")
    /\ LET r == Sent(Head(todo))
       IN  IF r.ok \/ Paths[path] = "genesis"
           THEN /\ chain' = InBlocks(r.chain)
                /\ todo' = Tail(todo)
                /\ missed' = (missed \/ ~r.ok)
                /\ UNCHANGED <<phase, outcome>>
           ELSE Ended("failed") /\ UNCHANGED missed
    /\ UNCHANGED <<story, file, calls, scn, path, served>>

\* A refusal the test expects of the chain.
BeRefused ==
    /\ phase = "seeding" /\ Here("refuse")
    /\ LET r == Sent(Head(todo))
       IN  IF r.ok
           THEN Ended("failed")
           ELSE /\ chain' = InBlocks(r.chain)
                /\ todo' = Tail(todo)
                /\ UNCHANGED <<phase, outcome>>
    /\ UNCHANGED <<story, file, calls, scn, path, missed, served>>

\* A read: an account name reaches the chain as an address on the served paths
\* and as a bare word in the test, where nothing resolves it.
Accepted(line) == IF Paths[path] = "txtar" THEN line.re.go ELSE line.re.ere
Resolved(line) == line.tok # ADDR \/ Paths[path] # "txtar"

Answer ==
    /\ phase \in {"seeding", "checking"} /\ Here("expect")
    /\ LET line == Head(todo)
       IN  IF Resolved(line) /\ D!Read(chain, line.func, line.args) \in Accepted(line)
           THEN todo' = Tail(todo) /\ UNCHANGED <<phase, chain, outcome>>
           ELSE Ended("failed")
    /\ UNCHANGED <<story, file, calls, scn, path, missed, served>>

\* Blocks: the harness waits for them, a live node makes one per self-send.
MineBlocks ==
    /\ phase = "seeding" /\ Here("mine")
    /\ LET line == Head(todo)
           cost == IF Paths[path] = "plan" THEN line.n * GAS_FEE ELSE 0
       IN  IF D!At(chain.gnot, chain.deployer) >= cost
           THEN /\ chain' = [chain EXCEPT !.blocks = @ + line.n,
                                          !.gnot = D!Gain(@, chain.deployer, -cost)]
                /\ todo' = Tail(todo)
                /\ UNCHANGED <<phase, outcome>>
           ELSE Ended("failed")
    /\ UNCHANGED <<story, file, calls, scn, path, missed, served>>

\* The writes are in; the genesis path now runs the end-state reads.
Check ==
    /\ phase = "seeding" /\ todo = <<>> /\ Paths[path] = "genesis"
    /\ LET text == Emitted("checks", scn, CI[story], Names(scn))
       IN  IF text.ok
           THEN /\ phase' = "checking" /\ todo' = text.lines
                /\ UNCHANGED <<chain, outcome>>
           ELSE Ended("refused")
    /\ UNCHANGED <<story, file, calls, scn, path, missed, served>>

Finish ==
    /\ todo = <<>> /\ phase = (IF path = 3 THEN "checking" ELSE "seeding")
    /\ Ended("landed")
    /\ served' = IF Paths[path] = "txtar" THEN served
                 ELSE [served EXCEPT ![Paths[path]] = chain]
    /\ UNCHANGED <<story, file, calls, scn, path, missed>>

Next == Tell \/ Write \/ Save \/ Launch \/ Transact \/ BeRefused \/ Answer \/ MineBlocks
        \/ Check \/ Finish

Spec == Init /\ [][Next]_vars

-----------------------------------------------------------------------------
Landed(p) == outcome[p] = "landed"

\* Everything a chain shows its readers: all of it but the heights its real
\* blocks gave it and the gas its accounts paid.
Content(ch) ==
    [ch EXCEPT !.blocks = 0, !.hbase = 0, !.hfloor = 0, !.since = 0, !.gnot = <<>>,
               !.claims = [i \in DOMAIN @ |-> [@[i] EXCEPT !.openedAt = 0, !.first = 0,
                                                          !.pool = <<>>]]]

(***************************************************************************)
(* "A scenario means one chain": when the broadcast lands, the genesis     *)
(* file passes over nothing and its reads pass, and the chains agree.      *)
(***************************************************************************)
SeedsAgree ==
    Landed("plan") /\ outcome["genesis"] \notin {NotRun, "refused"}
        => /\ Landed("genesis")
           /\ Content(served["plan"]) = Content(served["genesis"])

(***************************************************************************)
(* check-seed-emitters.py on any program at all: both served emitters send *)
(* the same calls in the same order, the seal included, and the genesis    *)
(* file is refused exactly when the program mines.                         *)
(***************************************************************************)
EmittersAgree == phase = "ready" /\ ~scn.raised => SeedsCompare(scn)

(***************************************************************************)
(* A chain the broadcast hands over is never left armed, and the line the  *)
(* plan prints about the clock is what the chain says of itself: sealing   *)
(* takes the steering wheel, not the invented dates.                       *)
(***************************************************************************)
ClockIsTold ==
    Landed("plan") =>
        LET ch == served["plan"]
        IN  /\ ~ch.armed
            /\ (PlanReport(scn) = "never armed") = ~ch.ever
            /\ PlanReport(scn) # "never armed" => ch.sealed

(***************************************************************************)
(* Each story in the tree is told to its end: the chain lands every call,  *)
(* refuses every refusal and answers every read as the file says.          *)
(***************************************************************************)
StoriesLand ==
    story # "written" =>
        \A p \in DOMAIN outcome : outcome[p] # "failed"

(***************************************************************************)
(* What mine says of itself, and deep.py of its two claims: the blocks it  *)
(* burns age the height, so a story that mines matures its rings and is    *)
(* told to its end.                                                        *)
(***************************************************************************)
MinedStoriesLand ==
    story # "written" /\ Mined(scn) > 0 => outcome["plan"] # "failed"
=============================================================================
