SPECIFICATION FairSpec
CONSTANTS
  w1 = w1
  w2 = w2
  t1 = t1
  t2 = t2
  j1 = j1
  j2 = j2
  j3 = j3
  kFirst = kFirst
  kOther = kOther
  Jobs = {j1}
  KeyOf <- TwoKeys
  ReadJobs = {j1}
  Workers = {w1}
  Threads = {t1}
  Requests = {"run"}
  SyncModes = {TRUE, FALSE}
  Faults = {}
  MaxAttempts = 3
  MaxResets = 0
  MaxFaults = 0
  NoJob = NoJob
PROPERTY RetriesConclude
CHECK_DEADLOCK FALSE
