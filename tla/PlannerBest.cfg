SPECIFICATION Spec
CONSTANTS
  States <- MCStates
  Problems <- MCProblems
  Queries <- BestQueries
  MaxCost = 9
  Unlimited = 9
  MaxQueries = 1
INVARIANTS
  BestPlanIsOptimal
