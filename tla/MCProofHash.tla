----------------------------- MODULE MCProofHash -----------------------------
(* The storage node and the validator compute one proof each.              *)
EXTENDS ProofHash
CONSTANTS node, val
=============================================================================
