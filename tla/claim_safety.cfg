\* A row in the table and a stream added through a worker, one row per batch; the claim queries may fail, workers crash and restart.
SPECIFICATION Spec
CONSTANTS
  w1 = w1  w2 = w2  NoWorker = NoWorker
  Steady = {}
  Worker = {w1, w2}
  Stream = {1, 2}
  Preset = {1}
  Kinds = {"add"}
  Failing = {"claim", "select"}
  ClaimTimeout = 3
  ClaimBatch = 1
  SelectWindow = 1
  Heartbeat = 1
  MaxStall = 1
  MaxBoots = 2
INVARIANTS
  StartsOnlyItsOwn
  
SYMMETRY WorkerSymmetry
