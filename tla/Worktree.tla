------------------------------ MODULE Worktree ------------------------------
(***************************************************************************)
(* The working tree and the two runners that rewrite it.  selftest-checks  *)
(* breaks a file, runs the guard that should notice, and puts the file     *)
(* back; scripts/repolock.py is the advisory lock by which it makes every  *)
(* other guard refuse meanwhile.  check-elsewhere applies a row of the     *)
(* corpus to the tree, runs the harness the row names, and writes back     *)
(* what it had read; it asks for the lock and does not take it.  Either    *)
(* may be killed between two steps, and run again.                         *)
(*                                                                         *)
(* A file is the set of breaks it has in it: control i plants i, row j     *)
(* plants -j.  Process ids are never reused, 0 is the lock file's absence, *)
(* and a child of the holder passes the lock by the pid it inherits.       *)
(***************************************************************************)
EXTENDS Integers, Sequences, FiniteSets

CONSTANTS
    Files,        \* the files of the tree
    LockCases,    \* stands in Controls for the arms that rehearse the lock itself
    Controls,     \* the file each control of the self-test breaks, in order
    Excused,      \* the file each row with an elsewhere mutates, in order
    Readers,      \* guards run on their own
    MaxRuns,      \* how often the self-test is run
    MaxSweeps,    \* how often check-elsewhere is run
    MaxKills      \* how many processes are killed

ASSUME FilesAssumption ==
    /\ LockCases \notin Files
    /\ Controls \in Seq(Files \union {LockCases})
    /\ Excused \in Seq(Files)

VARIABLES
    lock,      \* the pid in the lock file
    live,      \* the pids that are running
    born,      \* how many processes there have been
    tree,      \* each file: the breaks in it
    backup,    \* the copy a control keeps beside it
    st,        \* the self-test: its pid, control, place in the control and stand-in
    ew,        \* check-elsewhere: its row, its place in it and what it read
    rd,        \* each guard: idle, refused, about to clear a dead lock, reading, misled
    quiet,     \* whether the lock was free when it passed it
    stolen,    \* whether the lock of a live holder has been cleared as a dead one's
    met,       \* whether both rewriting runners have been under way at once
    runs, sweeps, kills

treeVars ==
    <<lock, live, born, tree, backup, st, ew, rd, quiet, stolen, met, runs, sweeps, kills>>

Nobody   == 0
Original == {}
Nothing  == {0}      \* no copy is kept

TreeInit ==
    /\ lock = Nobody /\ live = {} /\ born = 0
    /\ tree = [f \in Files |-> Original]
    /\ backup = [f \in Files |-> Nothing]
    /\ st = [pid |-> Nobody, pc |-> "off", at |-> 1, ghost |-> Nobody]
    /\ ew = [pc |-> "off", at |-> 1, saw |-> Original]
    /\ rd = [r \in Readers |-> "idle"]
    /\ quiet = [r \in Readers |-> TRUE]
    /\ stolen = FALSE /\ met = FALSE
    /\ runs \in 0 .. MaxRuns /\ sweeps \in 0 .. MaxSweeps /\ kills = 0

Dirty(f)    == tree[f] # Original
TreeIsClean == \A f \in Files : ~Dirty(f)

(***************************************************************************)
(* The lock: whom a reader finds in it.                                    *)
(***************************************************************************)
\* Mutant: the dead are not told from the living.
Holder_NeverClears == IF lock = Nobody THEN "nobody" ELSE "another"

Holder ==
    IF lock = Nobody THEN "nobody" ELSE IF lock \in live THEN "another" ELSE "dead"

\* Mutant: the runner does not announce itself.
Announce_Silent(pid) == UNCHANGED lock

Announce(pid) == lock' = pid
Withdraw      == lock' = Nobody

\* Whoever found a dead holder unlinks the file, whosever it has become.
ClearStale == Withdraw /\ stolen' = (stolen \/ lock \in live)

(***************************************************************************)
(* The self-test.  A control is: copy the file aside, count the anchor in  *)
(* it, plant the break, run the guard as a child, and move the copy back   *)
(* whatever happened.                                                      *)
(***************************************************************************)
Rewriting == st.pc # "off"
Sweeping  == ew.pc # "off"
At(pc)    == st.pc = pc
File      == Controls[st.at]
OnAFile   == At("control") /\ st.at <= Len(Controls) /\ File # LockCases
InCases   == At("control") /\ st.at <= Len(Controls) /\ File = LockCases
Goto(pc)  == st' = [st EXCEPT !.pc = pc]
NextArm   == st' = [st EXCEPT !.pc = "control", !.at = @ + 1, !.ghost = Nobody]

Begin ==
    /\ At("off") /\ runs < MaxRuns
    /\ runs' = runs + 1
    /\ born' = born + 1 /\ live' = live \union {born'}
    /\ Announce(born')
    /\ st' = [pid |-> born', pc |-> "control", at |-> 1, ghost |-> Nobody]
    /\ met' = (met \/ Sweeping)
    /\ UNCHANGED <<tree, backup, ew, rd, quiet, stolen, sweeps, kills>>

\* A file that already holds the break has no anchor; its copy is moved back all the same.
SetAside ==
    /\ OnAFile
    /\ backup' = [backup EXCEPT ![File] = tree[File]]
    /\ Goto(IF st.at \in tree[File] THEN "judged" ELSE "aside")
    /\ UNCHANGED <<lock, live, born, tree, ew, rd, quiet, stolen, met, runs, sweeps, kills>>

Plant ==
    /\ At("aside")
    /\ tree' = [tree EXCEPT ![File] = @ \union {st.at}]
    /\ Goto("planted")
    /\ UNCHANGED <<lock, live, born, backup, ew, rd, quiet, stolen, met, runs, sweeps, kills>>

RunGuard ==
    /\ At("planted")
    /\ Goto("judged")
    /\ UNCHANGED <<lock, live, born, tree, backup, ew, rd, quiet, stolen, met, runs, sweeps, kills>>

\* Mutant: what the control moves back is the file as it has become.
MovedBack_Tree(f) == tree[f]

MovedBack(f) == backup[f]

PutBack ==
    /\ At("judged")
    /\ tree' = [tree EXCEPT ![File] = MovedBack(File)]
    /\ backup' = [backup EXCEPT ![File] = Nothing]
    /\ NextArm
    /\ UNCHANGED <<lock, live, born, ew, rd, quiet, stolen, met, runs, sweeps, kills>>

(***************************************************************************)
(* The lock's own arms: a stand-in is written into the lock file, and a    *)
(* reader must refuse it; it dies, and a reader must clear it; then the    *)
(* self-test writes its own pid back.                                      *)
(***************************************************************************)
Impersonate ==
    /\ InCases
    /\ born' = born + 1 /\ live' = live \union {born'}
    /\ Announce(born')
    /\ st' = [st EXCEPT !.pc = "impersonated", !.ghost = born']
    /\ UNCHANGED <<tree, backup, ew, rd, quiet, stolen, met, runs, sweeps, kills>>

Bury ==
    /\ At("impersonated")
    /\ live' = live \ {st.ghost}
    /\ Goto("buried")
    /\ UNCHANGED <<lock, born, tree, backup, ew, rd, quiet, stolen, met, runs, sweeps, kills>>

ChildClears ==
    /\ At("buried")
    /\ Withdraw
    /\ Goto("cleared")
    /\ UNCHANGED <<live, born, tree, backup, ew, rd, quiet, stolen, met, runs, sweeps, kills>>

Reclaim ==
    /\ At("cleared")
    /\ Announce(st.pid)
    /\ NextArm
    /\ UNCHANGED <<live, born, tree, backup, ew, rd, quiet, stolen, met, runs, sweeps, kills>>

End ==
    /\ At("control") /\ st.at > Len(Controls)
    /\ Withdraw
    /\ live' = live \ {st.pid}
    /\ Goto("off")
    /\ UNCHANGED <<born, tree, backup, ew, rd, quiet, stolen, met, runs, sweeps, kills>>

\* A kill runs no cleanup: the lock, the break and the copy stay.
KillSelftest ==
    /\ Rewriting /\ kills < MaxKills
    /\ kills' = kills + 1
    /\ live' = live \ {st.pid}
    /\ Goto("off")
    /\ UNCHANGED <<lock, born, tree, backup, ew, rd, quiet, stolen, met, runs, sweeps>>

\* The stand-in of a run that was killed sleeps out its twenty seconds.
GhostDies ==
    /\ At("off") /\ st.ghost \in live
    /\ live' = live \ {st.ghost}
    /\ UNCHANGED <<lock, born, tree, backup, st, ew, rd, quiet, stolen, met, runs, sweeps, kills>>

Selftest == \/ Begin \/ SetAside \/ Plant \/ RunGuard \/ PutBack \/ End
            \/ Impersonate \/ Bury \/ ChildClears \/ Reclaim

(***************************************************************************)
(* check-elsewhere.  It looks at the lock once; each row is read, mutated  *)
(* in place and written back from what was read.                           *)
(***************************************************************************)
RowFile    == Excused[ew.at]
NextRow(e) == [e EXCEPT !.pc = "row", !.at = @ + 1, !.saw = Original]

StartSweep ==
    /\ ~Sweeping /\ sweeps < MaxSweeps
    /\ Holder # "another"
    /\ sweeps' = sweeps + 1
    /\ ew' = [pc |-> IF Holder = "dead" THEN "clearing" ELSE "row", at |-> 1, saw |-> Original]
    /\ met' = (met \/ Rewriting)
    /\ UNCHANGED <<lock, live, born, tree, backup, st, rd, quiet, stolen, runs, kills>>

ClearForSweep ==
    /\ ew.pc = "clearing"
    /\ ClearStale
    /\ ew' = [ew EXCEPT !.pc = "row"]
    /\ UNCHANGED <<live, born, tree, backup, st, rd, quiet, met, runs, sweeps, kills>>

\* A row whose anchor is not there is reported and passed over.
ReadRow ==
    /\ ew.pc = "row" /\ ew.at <= Len(Excused)
    /\ ew' = IF -ew.at \in tree[RowFile] THEN NextRow(ew)
             ELSE [ew EXCEPT !.pc = "read", !.saw = tree[RowFile]]
    /\ UNCHANGED <<lock, live, born, tree, backup, st, rd, quiet, stolen, met, runs, sweeps, kills>>

ApplyRow ==
    /\ ew.pc = "read"
    /\ tree' = [tree EXCEPT ![RowFile] = ew.saw \union {-ew.at}]
    /\ ew' = [ew EXCEPT !.pc = "applied"]
    /\ UNCHANGED <<lock, live, born, backup, st, rd, quiet, stolen, met, runs, sweeps, kills>>

RestoreRow ==
    /\ ew.pc = "applied"
    /\ tree' = [tree EXCEPT ![RowFile] = ew.saw]
    /\ ew' = NextRow(ew)
    /\ UNCHANGED <<lock, live, born, backup, st, rd, quiet, stolen, met, runs, sweeps, kills>>

EndSweep ==
    /\ ew.pc = "row" /\ ew.at > Len(Excused)
    /\ ew' = [ew EXCEPT !.pc = "off"]
    /\ UNCHANGED <<lock, live, born, tree, backup, st, rd, quiet, stolen, met, runs, sweeps, kills>>

KillSweep ==
    /\ Sweeping /\ kills < MaxKills
    /\ kills' = kills + 1
    /\ ew' = [ew EXCEPT !.pc = "off"]
    /\ UNCHANGED <<lock, live, born, tree, backup, st, rd, quiet, stolen, met, runs, sweeps>>

Sweep == StartSweep \/ ClearForSweep \/ ReadRow \/ ApplyRow \/ RestoreRow \/ EndSweep

(***************************************************************************)
(* A guard run on its own, again and again: it looks at the lock once,     *)
(* and a dead holder's lock is cleared in passing.                         *)
(***************************************************************************)
\* The self-test holds the lock, but for its rehearsal of a dead holder.
Held == Rewriting /\ st.pc \notin {"buried", "cleared"}

Look(r) ==
    /\ rd[r] \in {"idle", "refused"}
    /\ quiet' = [quiet EXCEPT ![r] = ~Held]
    /\ rd' = [rd EXCEPT ![r] = CASE Holder = "nobody"  -> "reading"
                                 [] Holder = "dead"    -> "clearing"
                                 [] Holder = "another" -> "refused"]
    /\ UNCHANGED <<lock, live, born, tree, backup, st, ew, stolen, met, runs, sweeps, kills>>

ClearLock(r) ==
    /\ rd[r] = "clearing"
    /\ ClearStale
    /\ rd' = [rd EXCEPT ![r] = "reading"]
    /\ UNCHANGED <<live, born, tree, backup, st, ew, quiet, met, runs, sweeps, kills>>

\* It reports whatever stands in the tree.
Read(r) ==
    /\ rd[r] = "reading"
    /\ rd' = [rd EXCEPT ![r] =
                 IF \E f \in Files, c \in DOMAIN Controls : c \in tree[f] THEN "misled"
                 ELSE "idle"]
    /\ UNCHANGED <<lock, live, born, tree, backup, st, ew, quiet, stolen, met, runs, sweeps, kills>>

Reading(r) == Look(r) \/ ClearLock(r) \/ Read(r)

TreeNext == \/ Selftest \/ KillSelftest \/ GhostDies \/ Sweep \/ KillSweep
            \/ \E r \in Readers : Reading(r)

-----------------------------------------------------------------------------
(***************************************************************************)
(* "The readers refuse rather than report": a guard that takes a control's *)
(* break for a finding had passed the lock before the self-test took it,   *)
(* or while the self-test gave it away to rehearse a dead holder, unless   *)
(* the lock had been cleared as a dead one's or a process was killed.      *)
(***************************************************************************)
RefuseRatherThanReport ==
    \A r \in Readers : rd[r] = "misled" => quiet[r] \/ stolen \/ kills > 0

(***************************************************************************)
(* Each control "puts the original back", beside a sweep too: while        *)
(* nothing was killed a file is broken only while it is under control or   *)
(* in the row being checked; and whatever was killed, a file or its copy   *)
(* is free of the controls' breaks until a run is started over the         *)
(* remains.  A file that both a control and a row break is promised this   *)
(* only until the two runners have been under way at once.                 *)
(***************************************************************************)
Shared(f) == f \in {Controls[i] : i \in DOMAIN Controls} \intersect
                   {Excused[j] : j \in DOMAIN Excused}

OriginalsSurvive ==
    \A f \in Files : (Shared(f) => ~met) =>
       /\ kills = 0 /\ Dirty(f) =>
             \/ Rewriting /\ st.at <= Len(Controls) /\ f = File
             \/ Sweeping /\ ew.at <= Len(Excused) /\ f = RowFile
       /\ runs <= 1 => \A c \in DOMAIN Controls :
             c \in tree[f] => backup[f] # Nothing /\ c \notin backup[f]

(***************************************************************************)
(* The runners that rewrite the tree are safe beside one another: when     *)
(* both are over and nothing was killed, every file is the original.       *)
(***************************************************************************)
WholeWhenOver ==
    kills = 0 /\ ~Rewriting /\ ~Sweeping => TreeIsClean

(***************************************************************************)
(* A guard that was refused gets through when it is tried again: a holder  *)
(* that died does not refuse everybody for ever.                           *)
(***************************************************************************)
ReadersGetThrough == \A r \in Readers : rd[r] = "refused" ~> rd[r] = "reading"
=============================================================================
