SPECIFICATION FairSpec
CONSTANTS
  Clients = {c1, c2}
  MaxClients = 2
  FifoWords = 4
  CallWords = {3}
  MayLeave = {c1}
  MayCrash = {c1}
  NoResult = NoResult
  Garbage = Garbage
PROPERTY GoneClientDetected
CHECK_DEADLOCK FALSE
