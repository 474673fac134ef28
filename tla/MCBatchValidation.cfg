\* A batch of two items.  The system may stop: the batch is all there is.
SPECIFICATION BSpec
CONSTANTS
  r1 = r1  r2 = r2  s1 = s1  s2 = s2  file = file  val = val  node = node
  a = a  b = b  unread = unread
  Requests = {r1, r2}
  Seeds = {s1, s2}
  Cids = {file}
  Nodes = {val, node}
  Validator = val
  SeedOf <- MCSeedOf
  CidOf <- MCCidOf
  PeerOf <- MCPeerOf
  Lists <- MCLists
  NoList = nolist
  Texts <- MCTexts
  NoHash = nohash
  Indexers <- MCIndexers
  ProofLimit = 1
  Batch <- MCBatch
  PollLimit = 1
INVARIANTS BTypeOK ValidResultIsSound ValidResultStands
PROPERTY BatchEnds
CHECK_DEADLOCK FALSE
