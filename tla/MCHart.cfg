CONSTANTS
  Base = 4
  XLen = 8
  PageSize = 16
  UpperUnit = 16
  MaxCalls = 2
  Pow2 <- MCPow2
  BitAnd <- MCAnd
  BitOr <- MCOr
  BitXor <- MCXor
  FieldsOf <- MCFieldsOf
  Images <- MCImages
  Budgets <- MCBudgets
SPECIFICATION Spec
INVARIANTS TypeOK ZeroRegister PcAligned TrapTruthful BudgetExact
PROPERTIES TrapPrecise TrapIsFinal StoreConfined StoreReadBack ImplementsReference
CHECK_DEADLOCK FALSE
