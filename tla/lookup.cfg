SPECIFICATION Spec
CONSTRAINT TwoQueries
CHECK_DEADLOCK FALSE
CONSTANTS
  Peers <- Star
  Neighbors <- StarNeighbors
  Files = {"f", "g"}
  m_files <- LookupFiles
  ReplicationFactor = 3
  TTL = 5
  CacheLimit = 100
  Commands <- LookupCommands
  LoadTests <- NoTests
  RequiredPeer = 0
  MaxMsgId = 2
  NoFile = NoFile
INVARIANTS HitsTruthful TransfersSensible PushedOnce
PROPERTY LookupCorrect
