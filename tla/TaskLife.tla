------------------------------- MODULE TaskLife -------------------------------
(***************************************************************************)
(* What the task manager promises of a task whose calls do not overlap.    *)
(* The task is created, runs, pauses, goes on, stops and is deleted; it    *)
(* has a run of its own from shortly before it is called Running to        *)
(* shortly before it is called something else, and never two in a row      *)
(* without having been without one.                                        *)
(***************************************************************************)
CONSTANTS Task, Run, NoRun

VARIABLES
  life,   \* "none", "Created", "Running", "Paused", "Stopped", "gone"
  run     \* the run a task has, or NoRun

vars == <<life, run>>

Init ==
  /\ life = [t \in Task |-> "none"]
  /\ run = [t \in Task |-> NoRun]

Become(t, l) == life' = [life EXCEPT ![t] = l] /\ UNCHANGED run

Create(t) == life[t] = "none" /\ Become(t, "Created")

\* A run that no other task has, for a task that may start or go on.
Attach(t, r) ==
  /\ life[t] \in {"Created", "Paused"} /\ run[t] = NoRun
  /\ \A u \in Task : run[u] # r
  /\ run' = [run EXCEPT ![t] = r]
  /\ UNCHANGED life

Go(t) == life[t] \in {"Created", "Paused"} /\ run[t] # NoRun /\ Become(t, "Running")

Detach(t) ==
  /\ life[t] = "Running" /\ run[t] # NoRun
  /\ run' = [run EXCEPT ![t] = NoRun]
  /\ UNCHANGED life

Pause(t) == life[t] = "Running" /\ run[t] = NoRun /\ Become(t, "Paused")

Stop(t) == life[t] \in {"Running", "Paused"} /\ run[t] = NoRun /\ Become(t, "Stopped")

Delete(t) == life[t] # "none" /\ run[t] = NoRun /\ Become(t, "gone")

Next == \E t \in Task :
  \/ Create(t) \/ Go(t) \/ Detach(t) \/ Pause(t) \/ Stop(t) \/ Delete(t)
  \/ \E r \in Run : Attach(t, r)

Spec == Init /\ [][Next]_vars
=============================================================================
