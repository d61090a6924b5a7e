SPECIFICATION Spec
CONSTANTS
  Clients = {c1, c2}
  Height = 4
  Vflip = TRUE
  MayCrash = {c1}
  NoResult = NoResult
  NoFrame = NoFrame
SYMMETRY ClientSymmetry
INVARIANTS ShownIsOwn ShownIsWhole FramebufferExclusive
CHECK_DEADLOCK FALSE
