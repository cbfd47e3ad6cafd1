SPECIFICATION FairSpec
CONSTANTS
  Callers = {c1, c2, c3}
  Sizes <- MCSizes
  MaxBatches <- MCMaxBatches
  MayRaise = TRUE
INVARIANTS TypeOK NoneLost BatchBound
PROPERTIES ImplementsAnswers Answered
CHECK_DEADLOCK FALSE
