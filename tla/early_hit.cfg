SPECIFICATION FairSpec
CHECK_DEADLOCK FALSE
CONSTANTS
  Peers <- Star
  Neighbors <- StarNeighbors
  Files = {"f"}
  m_files <- StarFiles
  ReplicationFactor = 1
  TTL = 5
  CacheLimit = 100
  Commands <- StarCommands
  LoadTests <- NoTests
  RequiredPeer = 0
  MaxMsgId = 1
  NoFile = NoFile
PROPERTY ObtainDownloads
