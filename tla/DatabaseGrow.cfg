SPECIFICATION Spec
CONSTANTS
  a = a
  b = b
  Keys = {a, b}
  Var = Var
  Hash <- MCHash
  InitSize = 1
  MaxAsserts = 4
  Programs <- GrowPrograms
  MaxOpen = 2
  GrowUnderKeyed = TRUE
  AbolishUnderRetract = FALSE
CHECK_DEADLOCK FALSE
PROPERTIES
  LogicalView
