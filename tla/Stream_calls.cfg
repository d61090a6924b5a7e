SPECIFICATION FairSpec
CONSTANTS
  Clients = {c1, c2}
  Entries <- UsedCalls
  Rows <- AllRows
  Programs <- AloneOrBoth
  Capacity = 40
  None = None
INVARIANTS InSync KindsKept ReplyOwn UploadOwn
PROPERTIES EveryCallReturns QueueSpec
CHECK_DEADLOCK FALSE
