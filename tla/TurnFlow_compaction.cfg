SPECIFICATION Spec
CONSTANTS
  UserInputs = {u1}
  SystemInputs = {s1}
  MaxSteps = 2
  LimitPasses = 0
  OverflowRetries = 0
  MaxCompactions = 3
  CancelStages = {"summarizing"}
  LateFailures = FALSE
  Goals = TRUE
INVARIANT GoalPursued
INVARIANT NoStrandedInput
INVARIANT ContextHeld
PROPERTY NoBareRequest
CHECK_DEADLOCK FALSE
