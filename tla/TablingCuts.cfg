SPECIFICATION Spec
CONSTANTS
  Subgoals <- CutSubgoals
  Answers <- MCAnswers
  NoAnswer <- MCNoAnswer
  Clauses <- CutClauses
  HeadOf <- MCHeadOf
  Programs <- CutPrograms
  QueryModes = {"all"}
  MaxQueries = 2
  MaxThrows = 1
  MaxFrames = 10
  MaxAnswer = 2
INVARIANTS
  Sound
  MasterIsOnStack
  RootWalkEnds
\* Deep recursion through cut goals stops at MaxFrames.
CHECK_DEADLOCK FALSE
