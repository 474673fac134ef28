\* One node in one of five circumstances.  The system may stop: a node that
\* serves need not be asked anything.
SPECIFICATION FairSpec
CONSTANTS
  a = a  b = b  o = o
  Cids = {a, b, o}
  Below <- MCBelow
  Direct = {b}
  Validators = {val}
  Names = {val, unknown}
  Launches <- MCLaunches
  Size <- MCSize
  StorageLimit = 2
  Slack = 1
  Lists = {empty}
  EmptyList = empty
  NoList = nolist
  PageSize = 2
  MaxEntries = 4
  MaxRestarts = 1
  MaxUpdates = 1
INVARIANTS StartupTypeOK CountedOnce NoneSkipped PinnedWithinLimit LeftOutDidNotFit
           FoundIsKept StatusMeansStored SyncedMeansListed
PROPERTIES ImplementsBlockIndex StartupEnds IndexingEnds
CHECK_DEADLOCK FALSE
