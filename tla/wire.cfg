SPECIFICATION FairSpec
CONSTANTS
  Messages = {"query", "relayed query", "hit", "other hit"}
  Threads = {"broadcast", "handler"}
  Receivers = {1, 2}
  Jobs <- MCJobs
  Size = 3
  Room = 2
  Torn = Torn
CHECK_DEADLOCK FALSE
INVARIANTS TypeOK StreamFramed TornLast WireInv
PROPERTIES KeepsPromise EverythingArrives
