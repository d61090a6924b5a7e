SPECIFICATION Spec
CONSTANTS
  Entries <- OddCalls
  Rows <- AllRows
INVARIANT PieceAgrees
