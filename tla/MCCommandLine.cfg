CONSTANTS
  Base = 4
  XLen = 8
  PageSize = 16
  UpperUnit = 16
  MaxCalls = 1
  DefaultSteps = 5
  Pow2 <- MCPow2
  BitAnd <- MCAnd
  BitOr <- MCOr
  BitXor <- MCXor
  FieldsOf <- MCFieldsOf
  Images <- CLImages
  Budgets <- CLBudgets
  CommandLines <- MCCommandLines
  Disk <- MCDisk
  Files <- CLFiles
  Memories <- CLMemories
SPECIFICATION MainSpec
INVARIANTS ObeysCommandLine StartsOnTheImage ExitCodeTruthful
PROPERTY AlwaysExits
CHECK_DEADLOCK FALSE
