------------------------------ MODULE BlockIndex ------------------------------
(***************************************************************************)
(* What the proof exchange relies on of the goroutines that index files on *)
(* one node: a goroutine that found no record of a file may later save any *)
(* list for it, whatever was saved meanwhile, or give up; and there are    *)
(* never more of them than the node has callers.  These are the steps      *)
(* BeginIndex, SaveRefs and AbandonIndex of ProofExchange, for one node.   *)
(***************************************************************************)
EXTENDS Integers

CONSTANTS Cids, Lists, NoList,
          Indexers      \* goroutines that may index one file at once

VARIABLES refs,         \* file -> the list on record, or NoList
          indexing      \* file -> goroutines between their check and their save

vars == <<refs, indexing>>

\* The record outlives the node.
Init == /\ refs \in [Cids -> Lists \cup {NoList}]
        /\ indexing = [c \in Cids |-> 0]

BeginIndex(c) == /\ refs[c] = NoList
                 /\ indexing[c] < Indexers
                 /\ indexing' = [indexing EXCEPT ![c] = @ + 1]
                 /\ UNCHANGED refs

SaveRefs(c) == /\ indexing[c] > 0
               /\ indexing' = [indexing EXCEPT ![c] = @ - 1]
               /\ \E l \in Lists : refs' = [refs EXCEPT ![c] = l]

AbandonIndex(c) == /\ indexing[c] > 0
                   /\ indexing' = [indexing EXCEPT ![c] = @ - 1]
                   /\ UNCHANGED refs

Restart == /\ indexing' = [c \in Cids |-> 0]
           /\ UNCHANGED refs

Next == Restart \/ \E c \in Cids : BeginIndex(c) \/ SaveRefs(c) \/ AbandonIndex(c)
Spec == Init /\ [][Next]_vars
=============================================================================
