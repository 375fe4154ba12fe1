SPECIFICATION FairSpec
CHECK_DEADLOCK FALSE
CONSTANTS
  Peers <- Star
  Neighbors <- StarNeighbors
  Files = {"f"}
  m_files <- StarFiles
  ReplicationFactor = 1
  TTL = 5
  CacheLimit = 100
  Commands <- StarCommands
  LoadTests <- OneCall
  RequiredPeer = 1
  MaxMsgId = 1
  NoFile = NoFile
INVARIANT TransfersBounded
PROPERTIES LookupCorrect HitReturns QueryAnswered TestObtainsDownload
