SPECIFICATION Spec
CHECK_DEADLOCK FALSE
CONSTANTS
  Peers <- Star
  Neighbors <- StarNeighbors
  Hosts <- Machines
  host <- MachineOf
  MaxRestarts <- NoRestart
  NoIp = NoIp
INVARIANT RightAddresses
