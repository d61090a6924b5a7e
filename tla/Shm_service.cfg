SPECIFICATION Spec
CONSTANTS
  Clients = {c1, c2}
  MaxClients = 2
  FifoWords = 4
  CallWords = {3, 4}
  MayLeave = {c1, c2}
  MayCrash = {c1}
  NoResult = NoResult
  Garbage = Garbage
SYMMETRY ClientSymmetry
INVARIANT NeverStuck
PROPERTIES ServiceSpec StageFrozen
CHECK_DEADLOCK FALSE
