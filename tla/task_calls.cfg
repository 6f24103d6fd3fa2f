\* Two callers; calls on t1 do not overlap, calls on t2 do.
SPECIFICATION Spec
CONSTANTS
  t1 = t1  t2 = t2  c1 = c1  c2 = c2
  Task = {t1, t2}
  Serial = {t1}
  Caller = {c1, c2}
  Events = {"unstream", "unrun", "cleanup"}
  MaxRun = 3
INVARIANTS
  
  StatusMatchesRun
SYMMETRY CallerSymmetry
CHECK_DEADLOCK FALSE
PROPERTIES
  TasksFollowLife
