-------------------------- MODULE MCExchangeHistory --------------------------
(***************************************************************************)
(* The instance of MCProofExchange with the history of ExchangeHistory: one *)
(* request and one storage node, since no finding needs a retry.           *)
(***************************************************************************)
EXTENDS ExchangeHistory, ShortWalk

CONSTANTS r1, seed, file, val, node, a, b, unread

MCSeedOf == [r \in {r1} |-> seed]
MCCidOf == [x \in {seed} |-> file]
MCPeerOf == [x \in {seed} |-> node]
MCLists == {<<>>, <<a>>, <<a, b>>}
MCTexts == [x \in {seed} |-> [l \in MCLists |-> WalkTexts(l, unread)]]
MCIndexers == [n \in {val, node} |-> 1]
=============================================================================
