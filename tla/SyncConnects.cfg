SPECIFICATION FairSpec
CONSTANTS
  Repo = {r1}
  Req = {q1, q2}
  Worker = {w1, w2}
  NoRepo = NoRepo
  NoWorker = NoWorker
  DeadWorker = DeadWorker
  NumBatches = 1
  MaxAttempts = 1
  MaxStalled = 1
  Faults = {}
  Ops = {"connect", "resync"}
PROPERTIES ConnectedGetsSynced
