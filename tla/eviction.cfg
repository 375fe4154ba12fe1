SPECIFICATION Spec
CHECK_DEADLOCK FALSE
CONSTANTS
  Peers <- Star
  Neighbors <- StarNeighbors
  Files = {"f"}
  m_files <- EvictionFiles
  ReplicationFactor = 1
  TTL = 5
  CacheLimit = 2
  Commands <- EvictionCommands
  LoadTests <- OneCall
  RequiredPeer = 0
  MaxMsgId = 2
  NoFile = NoFile
INVARIANTS TypeOK RelayFindsUpstream NoDuplicateAnswers TransfersSensible
PROPERTY LookupCorrect
