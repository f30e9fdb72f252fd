--------------------------- MODULE CheckpointStore ---------------------------
(***************************************************************************)
(* Several series sharing one archive, with callers that write at          *)
(* non-decreasing epochs and trim in bounded calls (checkpoint.gno SetAt,  *)
(* Trim, and the reads between them).                                      *)
(***************************************************************************)
EXTENDS Checkpoint

CONSTANTS SeriesKeys,  \* the series sharing the archive
          Epochs,      \* the epochs written, trimmed to and asked about
          Values,      \* the values written
          TrimPages,   \* the page budgets a Trim call may be given
          Lost         \* stands for the answer at an epoch trimmed away

ASSUME StoreAssumption == /\ Epochs \subseteq Nat
                          /\ Values \subseteq Int
                          /\ TrimPages \subseteq Int

VARIABLES
  series,    \* series[k]: the two inline points of key k
  pages,     \* the archive: <<key, page>> -> the entries of that page
  horizon    \* history: the highest keepFrom a Trim of the key was given

storeVars == <<series, pages, horizon>>

StoreInit == /\ series = [k \in SeriesKeys |-> NewSeries]
             /\ pages = EmptyArchive
             /\ horizon = [k \in SeriesKeys |-> 0]

SetAt(k, e, v) ==
  /\ MaySetAt(series[k], e)
  /\ series' = [series EXCEPT ![k] = SeriesAfterSetAt(series[k], e, v)]
  /\ pages' = ArchiveAfterSetAt(pages, k, series[k], e)
  /\ UNCHANGED horizon

Trim(k, keepFrom, maxPages) ==
  /\ pages' = ArchiveAfterTrim(pages, k, keepFrom, maxPages)
  /\ horizon' = [horizon EXCEPT ![k] =
                   IF keepFrom > horizon[k] THEN keepFrom ELSE horizon[k]]
  /\ UNCHANGED series

StoreNext == \E k \in SeriesKeys : \/ \E e \in Epochs, v \in Values : SetAt(k, e, v)
                                  \/ \E h \in Epochs, m \in TrimPages : Trim(k, h, m)

StoreSpec == StoreInit /\ [][StoreNext]_storeVars

-----------------------------------------------------------------------------
StoreTypeOK == /\ series \in [SeriesKeys -> SeriesRecords]
               /\ IsArchive(pages, SeriesKeys)
               /\ horizon \in [SeriesKeys -> Nat]

(* Every key's points are in the order the reads rely on, in every         *)
(* intermediate state of a bounded trim.                                   *)
ArchiveShape == \A k \in SeriesKeys : WellShaped(pages, k, series[k])

(* A sealed epoch, one a key has written past, reads the same for ever     *)
(* unless a trim gave it up: this is what lets a vote be weighed by a past *)
(* epoch (checkpoint.gno:1-40).                                            *)
SealedEpochsKeep ==
  [][\A k \in SeriesKeys : \A at \in Epochs :
        at < series[k].e0 /\ at >= horizon'[k] =>
          ValueAt(pages', k, series'[k], at) = ValueAt(pages, k, series[k], at)]_storeVars

(* The abstract history a store stands for: what ValueAt answers for every *)
(* epoch that was not trimmed away.                                        *)
Remembered(k) ==
  [at \in Epochs |-> IF at < horizon[k] THEN Lost
                     ELSE ValueAt(pages, k, series[k], at)]

H == INSTANCE History WITH
       Keys <- SeriesKeys,
       value <- [k \in SeriesKeys |-> Remembered(k)],
       newest <- [k \in SeriesKeys |-> series[k].e0]

(* The store implements the history: ValueAt answers with the value that   *)
(* was written for that epoch, at and above every trim's horizon, through  *)
(* every intermediate state of a bounded trim (checkpoint.gno:315-333).    *)
ImplementsHistory == H!Spec
=============================================================================
