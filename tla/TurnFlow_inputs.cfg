SPECIFICATION Spec
CONSTANTS
  UserInputs = {u1, u2}
  SystemInputs = {s1}
  MaxSteps = 0
  LimitPasses = 1
  OverflowRetries = 1
  MaxCompactions = 2
  CancelStages = {}
  LateFailures = FALSE
  Goals = FALSE
SYMMETRY Alike
INVARIANT TypeOK
INVARIANT NoUnansweredInput
PROPERTY NoOvertaking
CHECK_DEADLOCK FALSE
