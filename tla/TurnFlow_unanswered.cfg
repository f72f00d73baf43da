SPECIFICATION Spec
CONSTANTS
  UserInputs = {u1, u2}
  SystemInputs = {s1}
  MaxSteps = 0
  LimitPasses = 0
  OverflowRetries = 0
  MaxCompactions = 1
  CancelStages = {"summarizing"}
  LateFailures = FALSE
  Goals = FALSE
INVARIANT NoUnansweredInput
CHECK_DEADLOCK FALSE
