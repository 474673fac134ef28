------------------------------ MODULE ShortWalk ------------------------------
(***************************************************************************)
(* What CreatProofHash (src/validation/validation.go) hashes for a list of *)
(* at most seven blocks: the first index and every distance are 1          *)
(* (proofcrypto.GetIntFromHash), so the walk reads every block but the     *)
(* first, in order, and a list of one block or none leaves the empty text. *)
(* ProofHash has the walk itself, over lists of any length.                *)
(***************************************************************************)
EXTENDS Integers, Sequences, Functions

\* The texts over list l: each block read, or not read and hashed as such.
WalkTexts(l, unread) ==
  {t \in [1 .. Len(l) - 1 -> Range(l) \cup {unread}] :
     \A k \in DOMAIN t : t[k] \in {l[k + 1], unread}}
=============================================================================
