SPECIFICATION Spec
CONSTANTS
  w1 = w1
  w2 = w2
  t1 = t1
  t2 = t2
  j1 = j1
  j2 = j2
  j3 = j3
  kFirst = kFirst
  kOther = kOther
  Jobs = {j2, j3}
  KeyOf <- TwoKeys
  ReadJobs = {}
  Workers = {w1}
  Threads = {t1}
  Requests = {"run", "cancel", "reprocess"}
  SyncModes = {TRUE, FALSE}
  Faults = {"request", "publish", "commit", "child", "worker"}
  MaxAttempts = 3
  MaxResets = 2
  MaxFaults = 2
  NoJob = NoJob
INVARIANT AttemptsMatchLogs
INVARIANT CancelRemembered
INVARIANT IgnoredHasSuccess
CHECK_DEADLOCK FALSE
