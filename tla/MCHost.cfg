CONSTANTS
  Base = 4
  XLen = 8
  PageSize = 16
  UpperUnit = 16
  MaxCalls = 4
  Pow2 <- MCPow2
  BitAnd <- MCAnd
  BitOr <- MCOr
  BitXor <- MCXor
  FieldsOf <- MCFieldsOf
  Images <- HostImages
  Budgets <- HostBudgets
  Backing <- MCBacking
  Answers <- MCAnswers
SPECIFICATION HostSpec
PROPERTIES FaultsAreInvisible CallReturns
CHECK_DEADLOCK FALSE
