SPECIFICATION FairSpec
CONSTANTS
  Subgoals <- AllSubgoals
  Answers <- MCAnswers
  NoAnswer <- MCNoAnswer
  Clauses <- AllClauses
  HeadOf <- MCHeadOf
  Programs <- AllPrograms
  QueryModes = {"all", "once"}
  MaxQueries = 2
  MaxThrows = 0
  MaxFrames = 12
  MaxAnswer = 2
INVARIANTS
  TypeOK
  QueryAnswered
  SetAsideIsFollowed
PROPERTIES
  Terminates
  CompleteIsFinal
  Refines
