---------------------------- MODULE MCVoteLedger ----------------------------
(* A small token: epochs of one block and pages of one epoch, so that a    *)
(* series rolls into the archive within a few blocks.                      *)
EXTENDS VoteLedger, TLC

Symmetry == Permutations(Addr)
=============================================================================
