SPECIFICATION FairSpec
CONSTANTS
  Tasks = {t1}
  MaxRunning = 1
  MaxChunks = 1
  SpillChunks = 0
  MaxCrashes = 2
  WriteFailures = TRUE
PROPERTY StopSettles
PROPERTY NoticeNeverLost
CHECK_DEADLOCK FALSE
