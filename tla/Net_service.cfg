SPECIFICATION FairSpec
CONSTANTS
  Clients = {c1, c2}
  MayCrash = {c1}
  NoResult = NoResult
  None = None
INVARIANTS PacketsAsAwaited RunsForItsSender NeverStuck
PROPERTIES ServiceSpec AnsweredUnlessLost
CHECK_DEADLOCK FALSE
