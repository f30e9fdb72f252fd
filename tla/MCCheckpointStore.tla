-------------------------- MODULE MCCheckpointStore --------------------------
(* A small store: two keys, two-epoch pages and five epochs, so that a key  *)
(* fills more than one page, a page straddles a trim horizon and a trim     *)
(* bounded to one page needs several calls.                                 *)
EXTENDS CheckpointStore, TLC

CONSTANT MaxEpoch
MCEpochs == 0 .. MaxEpoch
Symmetry == Permutations(SeriesKeys)
=============================================================================
