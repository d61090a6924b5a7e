SPECIFICATION FairSpec
CONSTANTS
  Clients = {c1, c2}
  MayCrash = {}
  NoResult = NoResult
  None = None
PROPERTY EveryCallAnswered
CHECK_DEADLOCK FALSE
