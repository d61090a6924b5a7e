\* Mapped buffers, vertex arrays, the front ends and the kernel drivers
CONSTANTS
  Apps = {p1, p2}
  Buffers = {b1, b2}
  Size = 3
  Block = 2
  Ranges <- MapRanges
  MaxCalls = 2
  Junk = Junk
  Scratch = Scratch
  Nowhere = Nowhere
  Names = {b1, b2}
  Objects = {v1, v2}
  Attribs = {i1}
  Capacity = 2
  MaxSteps = 7
  Zero = Zero
  NoDraw = NoDraw
  Addresses = {p1, p2}
  Windows = {w1, w2, w3}
  Configs = {b1, b2}
  Depths = {v1, v2}
  MaxContexts = 2
  MaxDrawables = 2
  None = None
  Devices = {b1, b2}
  Largest = 7
  MaxHandles = 2
  Unused = Unused
  Sessions = {p1, p2}
  Vectors = {0, 1}
  Slots = {v1, v2}
  MaxMaps = 2
  MaxRaised = 2
  Nobody = Nobody
  LastBar = 3
SPECIFICATION GuestSpec
SYMMETRY GuestSymmetry
INVARIANTS DownloadsReadSource WritesReachBuffer IndicesAsBound DrawsReadWhatWasTold
INVARIANTS ContextsAccountedFor WindowsAsCreated ContextsFoundByHandle
INVARIANTS EventSlotsMatchList SessionsLeaveNothing InterruptsReachEvents ProbeUndoes
\* the bounds on calls, requests and interrupts end a behaviour
CHECK_DEADLOCK FALSE
