CONSTANTS
  Base = 4
  XLen = 8
  PageSize = 16
  UpperUnit = 16
  MaxCalls = 2
  Pow2 <- MCPow2
  BitAnd <- MCAnd
  BitOr <- MCOr
  BitXor <- MCXor
  FieldsOf <- MCFieldsOf
  Images <- MCStoreImages
  Budgets <- MCBudgets
SPECIFICATION Spec
PROPERTY FirstWriteAllocates
CHECK_DEADLOCK FALSE
