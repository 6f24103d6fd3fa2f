\* A stopped stream restarted by its reconnection task.
SPECIFICATION Spec
CONSTANTS
  n1 = n1  f1 = f1  c1 = c1  c2 = c2
  Stream = {n1}
  FileStream = {}
  Restored = {n1}
  Caller = {c1}
  Kinds = {"start", "stop"}
  MaxBackoff = 2
  MaxPipeline = 2
  FailBound = 2
INVARIANTS
  StoppedStreamNotLive
CHECK_DEADLOCK FALSE
