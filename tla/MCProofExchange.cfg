\* Two requests with one seed: every passing property of the exchange.
\* The system may stop: its clients make finitely many requests.
SPECIFICATION Spec
CONSTANTS
  r1 = r1  r2 = r2  seed = seed  file = file  val = val  node = node
  a = a  b = b  unread = unread
  Requests <- MCRequests
  Seeds = {seed}
  Cids = {file}
  Nodes = {val, node}
  Validator = val
  SeedOf <- MCSeedOf
  CidOf <- MCCidOf
  PeerOf <- MCPeerOf
  Lists <- MCLists
  NoList = nolist
  Texts <- MCTexts
  NoHash = nohash
  Indexers <- MCIndexers
  ProofLimit = 1
INVARIANTS TypeOK ValidMeansSameText ValidWithinLimit PendingIsOwed
PROPERTY ImplementsVerdict
CHECK_DEADLOCK FALSE
SYMMETRY RetrySymmetry
