CONSTANTS
  Programs <- MCPrograms
  MaxTriggers = 6
  Spare = {"dom"}
  MaxExcludes = 2
SPECIFICATION FairSpec
INVARIANTS TypeOK ExactlySolutions Watched Fixpoint
PROPERTIES Settles
CHECK_DEADLOCK FALSE
