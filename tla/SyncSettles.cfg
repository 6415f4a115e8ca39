SPECIFICATION FairSpec
CONSTANTS
  Repo = {r1}
  Req = {q1}
  Worker = {w1, w2}
  NoRepo = NoRepo
  NoWorker = NoWorker
  DeadWorker = DeadWorker
  NumBatches = 1
  MaxAttempts = 3
  MaxStalled = 1
  Faults = {"github", "stall", "crash"}
  Ops = {"connect", "resync"}
PROPERTIES JobSettles
