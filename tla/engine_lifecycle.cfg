SPECIFICATION UncontendedSpec
CONSTANTS
  w1 = w1
  w2 = w2
  t1 = t1
  t2 = t2
  j1 = j1
  j2 = j2
  j3 = j3
  kFirst = kFirst
  kOther = kOther
  Jobs = {j2, j3}
  KeyOf <- TwoKeys
  ReadJobs = {j3}
  Workers = {w1}
  Threads = {t1, t2}
  Requests = {"run", "cancel", "reprocess"}
  SyncModes = {FALSE}
  Faults = {"worker"}
  MaxAttempts = 2
  MaxResets = 1
  MaxFaults = 1
  NoJob = NoJob
PROPERTY ImplementsLifecycle
CHECK_DEADLOCK FALSE
