---------------------------- MODULE MCMerklePaths -----------------------------
(* MerklePaths on every sequence of two commitments up to MaxSize entries.   *)
EXTENDS MerklePaths

CONSTANTS c1, c2

MCCommitment == {c1, c2}
==============================================================================
