CONSTANTS
  Base = 2
  XLen = 4
  PageSize = 4
  Pow2 <- MCPow2Small
  BitAnd <- MCAnd
  BitOr <- MCOr
  BitXor <- MCXor
  Files <- MCFiles
  Memories <- MCMemories
SPECIFICATION LoadSpec
INVARIANTS ImageExact AcceptedWhole RefusalLeavesNoTrace
PROPERTY AlwaysAnswers
CHECK_DEADLOCK FALSE
