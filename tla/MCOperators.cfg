CONSTANTS
  Base = 4
  XLen = 8
  Pow2 <- MCPow2
  BitAnd <- MCAnd
  BitOr <- MCOr
  BitXor <- MCXor
  CodeWords <- MCCodeWords
SPECIFICATION Spec
INVARIANTS DivisionLaw ProductHalves ShiftLaw OrderLaw ArithmeticAgrees Lossless DecodersAgree
CHECK_DEADLOCK FALSE
