------------------------------ MODULE ProofHash ------------------------------
(***************************************************************************)
(* CreatProofHash (src/validation/validation.go) run by two nodes over one *)
(* list of blocks: which blocks a proof covers, and when two proofs agree. *)
(*                                                                         *)
(* A node walks the list from a first index that depends on the seed; at   *)
(* each index it stops at, it hashes the block and moves on by a distance  *)
(* that depends on the seed and on all it has hashed so far                *)
(* (proofcrypto.GetIntFromHash).  Hashes are taken to be free of           *)
(* collisions, so the text hashed so far is known by the blocks it covers  *)
(* and what was read of each: the file's bytes, or nothing, since a failed *)
(* download is hashed as a nil buffer (validation.go:25).  The distances   *)
(* are drawn as they are first needed, the same for the same text.         *)
(***************************************************************************)
EXTENDS Integers, Sequences

CONSTANTS
  Walkers,      \* the nodes that compute the proof
  MaxLength,    \* BOUND: the longest list of blocks
  FixedStep     \* up to this length every distance is 1; 7 in the code

ASSUME LengthAssumption == MaxLength \in Nat
ASSUME StepAssumption == FixedStep \in Nat \ {0}

VARIABLES
  length,       \* the number of blocks in the list
  drawn,        \* text hashed so far -> the number GetIntFromHash gives for it
  at,           \* walker -> "start", "loop" or "done"
  i,            \* walker -> the loop index
  seed,         \* walker -> the next index to stop at
  text          \* walker -> the blocks hashed so far, with what was read

vars == <<length, drawn, at, i, seed, text>>

Init == /\ length \in 0 .. MaxLength
        /\ drawn = [t \in {} |-> 0]
        /\ at = [w \in Walkers |-> "start"]
        /\ i = [w \in Walkers |-> 0]
        /\ seed = [w \in Walkers |-> 0]
        /\ text = [w \in Walkers |-> <<>>]

\* Wrong Distances, from 1 to the length and not from 0 to below it.
DistancesFromOne == IF length <= FixedStep THEN {1} ELSE 1 .. length

\* What GetIntFromHash may give: 1 for a short list, else less than the length.
Distances == IF length <= FixedStep THEN {1} ELSE 0 .. length - 1

\* A wrong IntFromHash, drawn anew at each node.
IntAtRandom(t, d) == UNCHANGED drawn

\* GetIntFromHash gives d for text t, as it did before if it was asked before.
IntFromHash(t, d) ==
  \/ /\ length <= FixedStep
     /\ UNCHANGED drawn
  \/ /\ length > FixedStep
     /\ t \in DOMAIN drawn
     /\ d = drawn[t]
     /\ UNCHANGED drawn
  \/ /\ length > FixedStep
     /\ t \notin DOMAIN drawn
     /\ drawn' = [u \in DOMAIN drawn \cup {t} |-> IF u = t THEN d ELSE drawn[u]]

\* Lines 46-54.
Start(w) ==
  /\ at[w] = "start"
  /\ at' = [at EXCEPT ![w] = "loop"]
  /\ \/ length = 0 /\ UNCHANGED <<drawn, seed>>
     \/ /\ length > 0
        /\ \E d \in Distances :
             /\ IntFromHash(<<>>, d)
             /\ seed' = [seed EXCEPT ![w] = d]
  /\ UNCHANGED <<length, i, text>>

\* A wrong Looping, without the break at the end of the list.
LoopingWithoutBreak(w) == at[w] = "loop" /\ i[w] <= length

Looping(w) == at[w] = "loop" /\ i[w] <= length /\ seed[w] < length

\* Lines 62-65: the block at the index is read, or not, and hashed.
HashBlock(w) ==
  /\ Looping(w)
  /\ i[w] = seed[w]
  /\ \E got \in {"bytes", "nil"} :
       LET more == Append(text[w], [block |-> i[w], got |-> got]) IN
       /\ text' = [text EXCEPT ![w] = more]
       /\ \E d \in Distances :
            /\ IntFromHash(more, d)
            /\ seed' = [seed EXCEPT ![w] = @ + d]
  /\ i' = [i EXCEPT ![w] = @ + 1]
  /\ UNCHANGED <<length, at>>

\* A wrong SkipBlock, which waits where the distance was 0.
SkipBlockUpToSeed(w) ==
  /\ Looping(w)
  /\ i[w] < seed[w]
  /\ i' = [i EXCEPT ![w] = @ + 1]
  /\ UNCHANGED <<length, drawn, at, seed, text>>

SkipBlock(w) ==
  /\ Looping(w)
  /\ i[w] # seed[w]
  /\ i' = [i EXCEPT ![w] = @ + 1]
  /\ UNCHANGED <<length, drawn, at, seed, text>>

\* The loop's condition, and its break at line 58.
Finish(w) ==
  /\ at[w] = "loop"
  /\ i[w] > length \/ seed[w] >= length
  /\ at' = [at EXCEPT ![w] = "done"]
  /\ UNCHANGED <<length, drawn, i, seed, text>>

Step(w) == Start(w) \/ HashBlock(w) \/ SkipBlock(w) \/ Finish(w)
Next == \E w \in Walkers : Step(w)
Spec == Init /\ [][Next]_vars /\ \A w \in Walkers : WF_vars(Step(w))

-----------------------------------------------------------------------------
Entries == [block : Nat, got : {"bytes", "nil"}]

TypeOK == /\ length \in 0 .. MaxLength
          /\ \A t \in DOMAIN drawn : t \in Seq(Entries) /\ drawn[t] \in 0 .. length - 1
          /\ at \in [Walkers -> {"start", "loop", "done"}]
          /\ i \in [Walkers -> 0 .. length + 1]
          /\ seed \in [Walkers -> Nat]
          /\ text \in [Walkers -> Seq(Entries)]

\* The walk indexes the list within its bounds, from first to last, and no
\* block twice (validation.go:63 reads cids[seed]).
WalkAscends ==
  \A w \in Walkers : \A k \in 1 .. Len(text[w]) :
    /\ text[w][k].block \in 0 .. length - 1
    /\ k > 1 => text[w][k - 1].block < text[w][k].block

\* A proof over a list of at least two blocks covers at least one of them,
\* whatever the seed.  Nothing of the kind holds for a shorter list: see
\* ValidMeansRead in ExchangeHistory.
CoversABlock ==
  \A w \in Walkers :
    at[w] = "done" /\ length >= 2 => text[w] # <<>>

\* Two nodes with the same list cover the same blocks as long as they read
\* them alike: where their texts first differ, the block is the same, and one
\* read what the other did not.  So the validator's comparison (proofs.go:77)
\* fails only over a block, and never because the two walks went apart.
DifferOverABlock ==
  \A v, w \in Walkers : \A k \in 1 .. Len(text[v]) :
    \/ k <= Len(text[w]) /\ text[v][k] = text[w][k]
    \/ at[w] # "done" /\ k > Len(text[w])
    \/ \E m \in 1 .. k : /\ m <= Len(text[w])
                         /\ text[v][m].block = text[w][m].block
                         /\ text[v][m].got # text[w][m].got

\* Every walk ends, also one whose distance is 0 and that stands still.
WalkEnds == \A w \in Walkers : <>(at[w] = "done")
=============================================================================
