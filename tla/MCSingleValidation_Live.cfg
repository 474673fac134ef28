\* One request: what the code must do in the end.
SPECIFICATION SSpec
CONSTANTS
  r1 = r1  r2 = r2  seed = seed  file = file  val = val  node = node
  a = a  b = b  unread = unread
  Requests = {r1}
  Seeds = {seed}
  Cids = {file}
  Nodes = {val, node}
  Validator = val
  SeedOf <- MCSeedOf
  CidOf <- MCCidOf
  PeerOf <- MCPeerOf
  Lists <- MCLists
  NoList = nolist
  Texts <- MCTexts
  NoHash = nohash
  Indexers <- MCIndexers
  ProofLimit = 1
CHECK_DEADLOCK FALSE
PROPERTIES AnsweredClientIsTold AnnouncedAnswerIsJudged
