SPECIFICATION Spec
CONSTANTS
  Clients = {c1, c2, c3}
  MaxClients = 2
  FifoWords = 4
  CallWords = {3}
  MayLeave = {c1, c2, c3}
  MayCrash = {}
  NoResult = NoResult
  Garbage = Garbage
SYMMETRY ClientSymmetry
INVARIANTS LockMutex SlotExclusive ConnectionsMatchSlots
  ClaimedSlotClean CallsInOwnContext StageConsistent
