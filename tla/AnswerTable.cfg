CONSTANTS
  Answers <- MCAnswers
  Value <- MCValue
  Hash <- MCHash
  InitSize = 2
  Declarations <- AllModes
  MaxCalls = 2
SPECIFICATION FairSpec
INVARIANTS PioneerReturnsAll WellFormed BestAreKept MissedMeansRevised
PROPERTIES Completes
CHECK_DEADLOCK FALSE
