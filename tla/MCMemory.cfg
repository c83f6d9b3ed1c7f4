CONSTANTS
  Base = 2
  XLen = 4
  PageSize = 4
  MaxRequests = 4
  Pow2 <- MCPow2Small
  BitAnd <- MCAnd
  BitOr <- MCOr
  BitXor <- MCXor
  Requests <- MCRequests
SPECIFICATION PairSpec
INVARIANT OnlyGranularity
PROPERTIES ImplementsByteMap RefImplementsByteMap
CHECK_DEADLOCK FALSE
