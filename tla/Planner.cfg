SPECIFICATION FairSpec
CONSTANTS
  States <- MCStates
  Problems <- MCProblems
  Queries <- MCQueries
  MaxCost = 9
  Unlimited = 9
  MaxQueries = 2
INVARIANTS
  WellFormed
  FailureIsTrue
  CompletionIsTrue
  FirstAnswerIsRight
PROPERTIES
  SearchEnds
