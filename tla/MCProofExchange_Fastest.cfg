\* Two requests with one seed: does the fastest time survive?
\* The system may stop: its clients make finitely many requests.
SPECIFICATION Spec
CONSTANTS
  r1 = r1  r2 = r2  seed = seed  file = file  val = val  node = node
  a = a  b = b  unread = unread
  Requests <- MCRequests
  Seeds = {seed}
  Cids = {file}
  Nodes = {val, node}
  Validator = val
  SeedOf <- MCSeedOf
  CidOf <- MCCidOf
  PeerOf <- MCPeerOf
  Lists <- MCLists
  NoList = nolist
  Texts <- MCTexts
  NoHash = nohash
  Indexers <- MCIndexers
  ProofLimit = 2
CHECK_DEADLOCK FALSE
SYMMETRY RetrySymmetry
INVARIANT FastestTimeKept
