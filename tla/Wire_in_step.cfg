SPECIFICATION Spec
CONSTANTS
  Entries <- InStepCalls
  Rows <- AllRows
INVARIANT PieceAgrees
