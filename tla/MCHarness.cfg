CONSTANTS
  Base = 4
  XLen = 8
  PageSize = 16
  UpperUnit = 16
  MaxCalls = 1
  Pow2 <- MCPow2
  BitAnd <- MCAnd
  BitOr <- MCOr
  BitXor <- MCXor
  FieldsOf <- MCFieldsOf
  Images <- HarnessImages
  Budgets <- HarnessBudgets
  Disturbances <- MCDisturbances
  DataAddrs <- MCDataAddrs
SPECIFICATION HarnessSpec
INVARIANTS NoFalseAlarm CaughtAtOnce AgreedIsEqual
CHECK_DEADLOCK FALSE
