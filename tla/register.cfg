SPECIFICATION FairSpec
CHECK_DEADLOCK FALSE
CONSTANTS
  Peers <- Star
  Neighbors <- StarNeighbors
  Hosts <- Machines
  host <- MachineOf
  MaxRestarts <- OneRestart
  NoIp = NoIp
INVARIANTS TypeOK RegisterInv RespondsInFull NobodyLeftOut TopologyConnected
PROPERTY EveryoneAnswered
