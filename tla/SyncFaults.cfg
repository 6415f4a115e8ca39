SPECIFICATION Spec
CONSTANTS
  Repo = {r1}
  Req = {q1}
  Worker = {w1, w2}
  NoRepo = NoRepo
  NoWorker = NoWorker
  DeadWorker = DeadWorker
  NumBatches = 2
  MaxAttempts = 2
  MaxStalled = 1
  Faults = {"github", "db", "redis", "stall", "crash"}
  Ops = {"connect", "resync", "disconnect"}
SYMMETRY Symmetry
INVARIANT CompletedMeansStored
PROPERTIES HeldJobIsStable SlotSpec
