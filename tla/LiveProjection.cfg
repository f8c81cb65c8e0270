SPECIFICATION FairSpec
CONSTANTS
  Histories <- MCHistories
  Limits = {0, 3}
  READ_BATCH = 2
  RAW_CHANNEL_CAP = 1
  BATCH_CHANNEL_CAP = 1
CHECK_DEADLOCK FALSE
INVARIANTS OkIsWhole TrueAnswer
PROPERTY Terminates
