\* w1 stays up; w2 crashes or is terminated and restarts; the stream may be removed through either.
SPECIFICATION FairSpec
CONSTANTS
  w1 = w1  w2 = w2  NoWorker = NoWorker
  Steady = {w1}
  Worker = {w1, w2}
  Stream = {1}
  Preset = {1}
  Kinds = {"remove"}
  Failing = {"select", "query"}
  ClaimTimeout = 2
  ClaimBatch = 1
  SelectWindow = 1
  Heartbeat = 1
  MaxStall = 1
  MaxBoots = 2
PROPERTIES
  StreamsRun
  
