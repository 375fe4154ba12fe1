SPECIFICATION FairSpec
CHECK_DEADLOCK FALSE
CONSTANTS
  Peers <- Mesh
  Neighbors <- MeshNeighbors
  Files = {"f"}
  m_files <- MeshFiles
  ReplicationFactor = 1
  TTL = 4
  CacheLimit = 100
  Commands <- MeshCommands
  LoadTests <- OneCall
  RequiredPeer = 0
  MaxMsgId = 1
  NoFile = NoFile
INVARIANTS UpstreamInv RelayFindsUpstream NoUpstreamCycle NoDuplicateAnswers
PROPERTY QueryAnswered
