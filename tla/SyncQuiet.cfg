SPECIFICATION Spec
CONSTANTS
  Repo = {r1}
  Req = {q1}
  Worker = {w1}
  NoRepo = NoRepo
  NoWorker = NoWorker
  DeadWorker = DeadWorker
  NumBatches = 2
  MaxAttempts = 1
  MaxStalled = 1
  Faults = {}
  Ops = {"connect", "resync", "disconnect"}
INVARIANTS StoredWhenQuiet
