SPECIFICATION LiveSpec
CONSTANTS
  Files = {f1}
  Nodes = {n1}
  Tasks = {t1, t2}
  Submit = Submit
  MaxAttempts = 1
  MaxClicks = 1
  Worlds <- Stormy
INVARIANT ProcessingHasWorker
PROPERTIES FormAnswerWins UploadsSettle
CHECK_DEADLOCK FALSE
