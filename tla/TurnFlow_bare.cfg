SPECIFICATION Spec
CONSTANTS
  UserInputs = {u1, u2}
  SystemInputs = {s1}
  MaxSteps = 0
  LimitPasses = 0
  OverflowRetries = 0
  MaxCompactions = 2
  CancelStages = {"summarizing", "refreshing"}
  LateFailures = FALSE
  Goals = FALSE
PROPERTY NoBareRequest
CHECK_DEADLOCK FALSE
