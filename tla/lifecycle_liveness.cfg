\* Every operation by one caller, with failures and shutdown: supervision, and what must happen.
SPECIFICATION FairSpec
CONSTANTS
  n1 = n1  f1 = f1  c1 = c1  c2 = c2
  Stream = {n1}
  FileStream = {}
  Restored = {}
  Caller = {c1}
  Kinds = {"add", "start", "stop", "remove", "shutdown"}
  MaxBackoff = 2
  MaxPipeline = 3
  FailBound = 3
INVARIANTS
  NetworkStreamNotForgotten
PROPERTIES
  NetworkStreamRecovers
  
CHECK_DEADLOCK FALSE
