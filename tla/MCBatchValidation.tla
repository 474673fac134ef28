-------------------------- MODULE MCBatchValidation --------------------------
(***************************************************************************)
(* A batch of two items with seeds of their own, about one file on one     *)
(* node, so that the first item's answer may come while the second is      *)
(* waited for.                                                             *)
(***************************************************************************)
EXTENDS BatchValidation, ShortWalk

CONSTANTS r1, r2, s1, s2, file, val, node, a, b, unread

MCBatch == <<r1, r2>>
MCSeedOf == [r \in Requests |-> IF r = r2 THEN s2 ELSE s1]
MCCidOf == [x \in Seeds |-> file]
MCPeerOf == [x \in Seeds |-> node]
\* Of the first two nothing is read, so they agree with each other.
MCLists == {<<>>, <<a>>, <<a, b>>}
MCTexts == [x \in Seeds |-> [l \in MCLists |-> WalkTexts(l, unread)]]
MCIndexers == [n \in {val, node} |-> 1]
=============================================================================
