\* Streams are added and removed by two concurrent callers; shutdown_all may begin.
SPECIFICATION Spec
CONSTANTS
  n1 = n1  f1 = f1  c1 = c1  c2 = c2
  Stream = {n1, f1}
  FileStream = {f1}
  Restored = {}
  Caller = {c1, c2}
  Kinds = {"add", "remove", "shutdown"}
  MaxBackoff = 2
  MaxPipeline = 3
  FailBound = 4
INVARIANTS
  TypeOK
  LivePipelineSupervised
  OneLivePipeline
  LivePipelineReachable
  ErrorsMatchReconnects
  BackoffShowsError
  FinishedFileNotRestarted
  GaugeCoversHandles
CHECK_DEADLOCK FALSE
PROPERTIES
  RunsDoNotOverlap
SYMMETRY CallerSymmetry
