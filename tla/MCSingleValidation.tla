------------------------- MODULE MCSingleValidation -------------------------
(***************************************************************************)
(* A client that asks and then retries with the SALT it used before, so    *)
(* that two requests wait on one seed's flags and record.                  *)
(***************************************************************************)
EXTENDS SingleValidation, ShortWalk, TLC

CONSTANTS r1, r2, seed, file, val, node, a, b, unread

MCSeedOf == [r \in Requests |-> seed]
MCCidOf == [x \in {seed} |-> file]
MCPeerOf == [x \in {seed} |-> node]
MCLists == {<<a, b>>}
MCTexts == [x \in Seeds |-> [l \in MCLists |-> WalkTexts(l, unread)]]
MCIndexers == [n \in {val, node} |-> 1]

\* The two requests differ in nothing.
RetrySymmetry == Permutations({r1, r2})
=============================================================================
