SPECIFICATION Spec
CHECK_DEADLOCK FALSE
CONSTANTS
  Peers <- Star
  Neighbors <- StarNeighbors
  Files = {"f", "g"}
  m_files <- AgainFiles
  ReplicationFactor = 1
  TTL = 5
  CacheLimit = 100
  Commands <- AgainCommands
  LoadTests <- NoTests
  RequiredPeer = 0
  MaxMsgId = 1
  NoFile = NoFile
INVARIANT TransfersBounded
