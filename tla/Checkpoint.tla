----------------------------- MODULE Checkpoint -----------------------------
(***************************************************************************)
(* realm/p/checkpoint: a Series remembers what a number used to be.        *)
(*                                                                         *)
(* A Series holds its two newest points inline; every older point rolls    *)
(* out into an Archive of pages, shared by many series and told apart by   *)
(* key.  A page covers PageEpochs consecutive epochs and holds its points  *)
(* in the order they were appended (the packed string of the code is a     *)
(* sequence of [epoch, value] entries here: the 12-byte encoding is exact  *)
(* for every uint32 epoch and int64 value and is left out).                *)
(*                                                                         *)
(* This module has no state of its own.  It defines what each call returns *)
(* and what it leaves behind, so that the modules of its callers hold a    *)
(* Series and an Archive as ordinary variables.                            *)
(***************************************************************************)
EXTENDS Integers, Sequences, FiniteSets

CONSTANT PageEpochs        \* how many epochs one archive page covers

ASSUME PageEpochsAssumption == PageEpochs \in Nat \ {0}

-----------------------------------------------------------------------------
(* The zero Series: e0 = 0 means "nothing was ever written", e1 = 0 means   *)
(* "the second slot was never used".                                       *)
NewSeries == [cur |-> 0, prev |-> 0, e0 |-> 0, e1 |-> 0]

SeriesRecords == [cur : Int, prev : Int, e0 : Nat, e1 : Nat]

EmptyArchive == [pk \in {} |-> <<>>]

PageKey(key, e) == <<key, e \div PageEpochs>>

(* An archive holds pages of points for the keys K.                        *)
Points == [e : Nat, v : Int]

IsArchive(archive, K) ==
  /\ archive = [pk \in DOMAIN archive |-> archive[pk]]
  /\ DOMAIN archive \subseteq K \X Nat
  /\ \A pk \in DOMAIN archive : archive[pk] \in Seq(Points)

(* Appends to the page of epoch e, opening the page if it is the first.    *)
AppendEntry(archive, key, e, v) ==
  LET pk == PageKey(key, e)
      old == IF pk \in DOMAIN archive THEN archive[pk] ELSE <<>>
  IN  [k \in DOMAIN archive \cup {pk} |->
         IF k = pk THEN Append(old, [e |-> e, v |-> v]) ELSE archive[k]]

-----------------------------------------------------------------------------
(* Mutant: epoch 0 is let in, so the unused-slot sentinel loses a point.   *)
MaySetAt_ZeroEpoch(s, e) == e >= s.e0

(* Mutant: a clock that goes backwards is let in.                          *)
MaySetAt_Backwards(s, e) == e # 0

(* SetAt panics, and so aborts the caller, on epoch 0 and on an epoch      *)
(* before the newest point.                                                *)
MaySetAt(s, e) == e # 0 /\ e >= s.e0

SeriesAfterSetAt(s, e, v) ==
  IF e = s.e0 THEN [s EXCEPT !.cur = v]
              ELSE [cur |-> v, prev |-> s.cur, e0 |-> e, e1 |-> s.e0]

ArchiveAfterSetAt(archive, key, s, e) ==
  IF e # s.e0 /\ s.e1 # 0 THEN AppendEntry(archive, key, s.e1, s.prev)
                          ELSE archive

-----------------------------------------------------------------------------
(* The entry a page answers with: scanned from its newest end, the first   *)
(* one that is not after at.                                               *)
Answers(pg, at) == {i \in 1 .. Len(pg) : pg[i].e <= at}

LastIndex(I) == CHOOSE i \in I : \A j \in I : j <= i

(* The pages of one key that can answer for at: not after at's own page,   *)
(* and holding an entry that is not after at.                              *)
Candidates(archive, key, at) ==
  {p \in 0 .. at \div PageEpochs :
      <<key, p>> \in DOMAIN archive /\ Answers(archive[<<key, p>>], at) # {}}

ArchivedValueAt(archive, key, at) ==
  LET P == Candidates(archive, key, at)
  IN  IF P = {} THEN 0
      ELSE LET pg == archive[<<key, LastIndex(P)>>]
           IN  pg[LastIndex(Answers(pg, at))].v

ValueAt(archive, key, s, at) ==
  IF at >= s.e0 THEN s.cur
  ELSE IF at >= s.e1 THEN s.prev
  ELSE ArchivedValueAt(archive, key, at)

-----------------------------------------------------------------------------
(* Trim walks the key's pages that lie wholly below keepFrom, oldest       *)
(* first, collecting one more than it may delete, and spares the newest    *)
(* page it collected.  So a page that is the newest wholly below keepFrom  *)
(* is never deleted: its last entry is still the answer for epochs inside  *)
(* the kept window.                                                        *)
Below(archive, key, keepFrom) ==
  {p \in 0 .. (keepFrom \div PageEpochs) - 1 : <<key, p>> \in DOMAIN archive}

Collected(archive, key, keepFrom, maxPages) ==
  {p \in Below(archive, key, keepFrom) :
      Cardinality({q \in Below(archive, key, keepFrom) : q < p}) <= maxPages}

(* Mutant: every collected page is deleted, the newest one with them.      *)
Deleted_NoSpare(archive, key, keepFrom, maxPages) ==
  IF maxPages <= 0 THEN {} ELSE Collected(archive, key, keepFrom, maxPages)

Deleted(archive, key, keepFrom, maxPages) ==
  LET C == Collected(archive, key, keepFrom, maxPages)
  IN  IF maxPages <= 0 THEN {} ELSE {p \in C : \E q \in C : p < q}

(* Mutant: the removal is not bounded to the key that is trimmed.          *)
ArchiveAfterTrim_EveryKey(archive, key, keepFrom, maxPages) ==
  [pk \in {x \in DOMAIN archive :
              x[2] \notin Deleted(archive, key, keepFrom, maxPages)} |->
      archive[pk]]

ArchiveAfterTrim(archive, key, keepFrom, maxPages) ==
  [pk \in DOMAIN archive \
            {<<key, p>> : p \in Deleted(archive, key, keepFrom, maxPages)} |->
      archive[pk]]

-----------------------------------------------------------------------------
(* The shape every read relies on.  An inline point is newer than the one  *)
(* before it, which reads zero while unused; a page is nonempty, holds     *)
(* only its own epochs and ascends (checkpoint.gno:108, "ascending"); and  *)
(* whatever was archived is older than the older inline point.             *)
InlineOrder(s) == \/ s = NewSeries
                  \/ s.e1 < s.e0 /\ (s.e1 = 0 => s.prev = 0)

PagesOrder(archive, key) ==
  \A pk \in DOMAIN archive : pk[1] = key =>
    /\ archive[pk] # <<>>
    /\ \A i \in 1 .. Len(archive[pk]) :
         /\ archive[pk][i].e \div PageEpochs = pk[2]
         /\ \A j \in 1 .. Len(archive[pk]) :
              i < j => archive[pk][i].e < archive[pk][j].e

ArchivedBefore(archive, key, epoch) ==
  \A pk \in DOMAIN archive : pk[1] = key =>
    \A i \in 1 .. Len(archive[pk]) : archive[pk][i].e < epoch

WellShaped(archive, key, s) == /\ InlineOrder(s)
                               /\ PagesOrder(archive, key)
                               /\ ArchivedBefore(archive, key, s.e1)
=============================================================================
