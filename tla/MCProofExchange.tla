--------------------------- MODULE MCProofExchange ---------------------------
(***************************************************************************)
(* One file, one storage node, and a client that retries with the SALT it  *)
(* used before: two requests with one seed, so that two answers are handled *)
(* at once.  The file has two blocks; IPFS lists one or both.              *)
(***************************************************************************)
EXTENDS ProofExchange, ShortWalk, TLC

CONSTANTS r1, r2, seed, file, val, node, a, b, unread

MCRequests == {r1, r2}
MCSeedOf == [r \in MCRequests |-> seed]
MCCidOf == [x \in {seed} |-> file]
MCPeerOf == [x \in {seed} |-> node]

\* A partial list (ipfs.go:457-471), of which nothing is read, and the whole one.
MCLists == {<<a>>, <<a, b>>}
MCTexts == [x \in {seed} |-> [l \in MCLists |-> WalkTexts(l, unread)]]

\* The validator may index a file for two reasons at once (main.go:102 and
\* main.go:120).
MCIndexers == [n \in {val, node} |-> IF n = val THEN 2 ELSE 1]

\* The two requests differ in nothing.
RetrySymmetry == Permutations(MCRequests)
=============================================================================
