CONSTANTS
  Base = 4
  XLen = 8
  PageSize = 16
  UpperUnit = 16
  MaxCalls = 2
  InBase = 176
  OutBase = 192
  Scratch = 240
  StackTop = 255
  Pow2 <- MCPow2
  BitAnd <- MCAnd
  BitOr <- MCOr
  BitXor <- MCXor
  FieldsOf <- InstructionOf
  Images <- MCImages
  Budgets <- MCBudgets
SPECIFICATION Spec
INVARIANTS OutputsAsDerived OnlyReturningFinishes
CHECK_DEADLOCK FALSE
