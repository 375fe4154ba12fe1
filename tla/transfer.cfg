SPECIFICATION FairSpec
CONSTANTS
  Peers = {1, 2}
  Files = {"f", "g"}
  Blocks <- MCBlocks
  m_files <- MCFiles
  Wanted <- MCWanted
  ClientThreads = {c1, c2}
  ServerThreads = {s1, s2}
  Limit = 0
  MaxTries = 1
  UpAtFirst = {1}
  MaxKills <- MCKills
  FdNums = {1, 2, 3}
  ConnIds = {1, 2, 3}
CHECK_DEADLOCK FALSE
INVARIANTS TypeOK CountExact TransferInv DescriptorsOwned RequestsKept
PROPERTIES DownloadsWhole PushesWhole CrashesHaveCauses TransfersEnd
