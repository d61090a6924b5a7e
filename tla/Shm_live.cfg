SPECIFICATION FairSpec
CONSTANTS
  Clients = {c1, c2}
  MaxClients = 2
  FifoWords = 4
  CallWords = {3}
  MayLeave = {c1}
  MayCrash = {}
  NoResult = NoResult
  Garbage = Garbage
PROPERTIES PublishedIsAnswered SomeonePublishes GoodbyeFreesSlot QuietMeansServed
CHECK_DEADLOCK FALSE
