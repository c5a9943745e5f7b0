SPECIFICATION Spec
CONSTANTS
  a = a
  b = b
  Keys = {a, b}
  Var = Var
  Hash <- MCHash
  InitSize = 1
  MaxAsserts = 4
  Programs <- MCPrograms
  MaxOpen = 2
  GrowUnderKeyed = FALSE
  AbolishUnderRetract = FALSE
INVARIANTS
  WellFormed
 
  FreedIsUnreachable
  CountsAreOpenCalls
PROPERTIES
  Refines
CHECK_DEADLOCK FALSE
