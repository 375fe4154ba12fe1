SPECIFICATION FairSpec
CHECK_DEADLOCK FALSE
CONSTANTS
  Peers <- Star
  Neighbors <- StarNeighbors
  Files = {"f"}
  m_files <- HubFiles
  ReplicationFactor = 3
  TTL = 5
  CacheLimit = 100
  Commands <- NoCommands
  LoadTests <- NoTests
  RequiredPeer = 0
  MaxMsgId = 1
  NoFile = NoFile
PROPERTY AllHitsPushed
