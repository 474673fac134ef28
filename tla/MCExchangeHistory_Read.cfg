\* One request: does ValidMeansRead hold?
SPECIFICATION HSpec
CONSTANTS
  r1 = r1  seed = seed  file = file  val = val  node = node
  a = a  b = b  unread = unread
  Requests = {r1}
  Seeds = {seed}
  Cids = {file}
  Nodes = {val, node}
  Validator = val
  SeedOf <- MCSeedOf
  CidOf <- MCCidOf
  PeerOf <- MCPeerOf
  Lists <- MCLists
  NoList = nolist
  Texts <- MCTexts
  NoHash = nohash
  Unread = unread
  Indexers <- MCIndexers
  ProofLimit = 2
INVARIANT ValidMeansRead
CHECK_DEADLOCK FALSE
