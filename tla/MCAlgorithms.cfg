CONSTANTS
  Base = 4
  XLen = 8
  Length = 4
  Cap = 40
  Trips = 4
  Pow2 <- MCPow2
  BitAnd <- MCAnd
  BitOr <- MCOr
  BitXor <- MCXor
  Inputs <- MCInputs
  Seeds <- MCSeeds
SPECIFICATION Spec
INVARIANTS Permuted InOrder MovesAreInversions LoopsInClosedForm
PROPERTY Finishes
CHECK_DEADLOCK FALSE
