SPECIFICATION FairSpec
CONSTANTS
  UserInputs = {u1}
  SystemInputs = {s1}
  MaxSteps = 2
  LimitPasses = 0
  OverflowRetries = 1
  MaxCompactions = 2
  CancelStages = {"summarizing", "refreshing"}
  LateFailures = TRUE
  Goals = FALSE
PROPERTY InputConsumed
PROPERTY AbortSettles
CHECK_DEADLOCK FALSE
