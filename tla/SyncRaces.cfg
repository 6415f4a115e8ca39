SPECIFICATION Spec
CONSTANTS
  Repo = {r1}
  Req = {q1, q2}
  Worker = {w1, w2}
  NoRepo = NoRepo
  NoWorker = NoWorker
  DeadWorker = DeadWorker
  NumBatches = 1
  MaxAttempts = 2
  MaxStalled = 1
  Faults = {"github"}
  Ops = {"connect", "resync", "disconnect"}
SYMMETRY Symmetry
INVARIANTS OneAttemptPerRepo PromisedJobExists SyncedMeansStored NoAbandonedRows
