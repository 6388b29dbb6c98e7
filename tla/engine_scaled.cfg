SPECIFICATION FairSpec
CONSTANTS
  w1 = w1
  w2 = w2
  t1 = t1
  t2 = t2
  j1 = j1
  j2 = j2
  j3 = j3
  kFirst = kFirst
  kOther = kOther
  Jobs = {j1}
  KeyOf <- TwoKeys
  ReadJobs = {j1}
  Workers = {w1, w2}
  Threads = {t1, t2}
  Requests = {"run", "cancel", "reprocess"}
  SyncModes = {TRUE, FALSE}
  Faults = {"worker"}
  MaxAttempts = 2
  MaxResets = 1
  MaxFaults = 1
  NoJob = NoJob
INVARIANT TypeOK
INVARIANT AttemptBound
INVARIANT TaskBacked
INVARIANT SyncAttemptAlone
PROPERTY LiveJobsFinish
CHECK_DEADLOCK FALSE
