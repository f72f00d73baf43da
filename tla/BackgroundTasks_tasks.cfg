SPECIFICATION Spec
CONSTANTS
  Tasks = {t1, t2}
  MaxRunning = 1
  MaxChunks = 3
  SpillChunks = 1
  MaxCrashes = 2
  WriteFailures = FALSE
SYMMETRY Alike
CONSTRAINT OneOrSilent
INVARIANT TypeOK
INVARIANT LogInOrder
INVARIANT NoDoubleReport
INVARIANT NoticeMatchesRecord
PROPERTY NoticeAfterOutput
CHECK_DEADLOCK FALSE
