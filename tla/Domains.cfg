CONSTANTS
  Lo <- MCLo
  Hi = 3
  NBITS_IN_LONG = 2
  Names = {"X", "Y"}
  Ports <- PortNames
  Watches <- MCWatches
  Operations <- MCOperations
  NoOp <- NoOpValue
  MaxChoices = 2
  MaxOps = 4
  HolesByUnify = FALSE
SPECIFICATION Spec
INVARIANTS WellFormed AgentsTold
PROPERTIES RefinesSets
CHECK_DEADLOCK FALSE
