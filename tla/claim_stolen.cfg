\* Two workers that never fail: no claim should change hands.
SPECIFICATION Spec
CONSTANTS
  w1 = w1  w2 = w2  NoWorker = NoWorker
  Steady = {w1, w2}
  Worker = {w1, w2}
  Stream = {1}
  Preset = {1}
  Kinds = {}
  Failing = {}
  ClaimTimeout = 3
  ClaimBatch = 1
  SelectWindow = 1
  Heartbeat = 1
  MaxStall = 1
  MaxBoots = 1
PROPERTIES
  ClaimTakenOnlyFromFailed
