------------------------------ MODULE TaskEngine ------------------------------
(***************************************************************************)
(* TaskManager: extraction tasks that are created, started, paused,        *)
(* resumed, stopped and deleted by concurrent API calls.  A started task   *)
(* has a run: a copy of its stream, registered under an identifier of its  *)
(* own in the stream registry, whose pipeline the stream manager starts.   *)
(*                                                                         *)
(* The stream manager is reduced to what the task manager sees of it: the  *)
(* registered runs and the runs with a handle in the map.  What a pipeline *)
(* does between start_pipeline and stop_pipeline is in StreamLifecycle.    *)
(* The table of tasks is written by the calls and never read by the        *)
(* program: it is left out.                                                *)
(***************************************************************************)
EXTENDS Integers, FiniteSets

CONSTANTS
  Task,      \* task identifiers; create_task draws a fresh one
  Serial,    \* tasks whose clients wait for a call on them to return
  Caller,    \* concurrent callers of the manager's operations
  Events,    \* what else happens: "unstream", "unrun", "cleanup"
  MaxRun     \* bound of the model: runs ever started

ASSUME TaskAssumption ==
  /\ Task # {} /\ Serial \subseteq Task
  /\ Events \subseteq {"unstream", "unrun", "cleanup"}
  /\ MaxRun \in Nat

VARIABLES
  created,   \* tasks ever created
  tasks,     \* tasks in the task registry
  status,    \* their status; Error is never assigned
  source,    \* tasks whose stream is in the stream registry
  runOf,     \* run_streams
  registry,  \* runs in the stream registry
  running,   \* runs with a handle in the stream manager's map
  runs,      \* number of runs so far; runs are 1..runs
  runFor,    \* the task a run was started for
  pc, op, subject, run   \* callers: where they are, operation, task, run

callVars == <<pc, op, subject, run>>
runVars == <<registry, running, runs, runFor>>
vars == <<created, tasks, status, source, runOf, registry, running, runs, runFor,
          pc, op, subject, run>>
-----------------------------------------------------------------------------
Run   == 1..MaxRun
NoRun == 0

Status == {"Created", "Running", "Paused", "Stopped"}
Op     == {"start", "pause", "resume", "stop", "delete"}

TypeOK ==
  /\ created \subseteq Task /\ tasks \subseteq created /\ source \subseteq Task
  /\ status \in [Task -> Status]
  /\ runOf \in [Task -> Run \cup {NoRun}]
  /\ registry \subseteq Run /\ running \subseteq Run
  /\ runs \in 0..MaxRun
  /\ runFor \in [Run -> Task]
  /\ pc \in [Caller -> {"idle", "register", "pipeline", "own", "drop", "mark", "unregister"}]
  /\ op \in [Caller -> Op \cup {"none"}]
  /\ subject \in [Caller -> Task]
  /\ run \in [Caller -> Run \cup {NoRun}]

SomeTask == CHOOSE t \in Task : TRUE

Init ==
  /\ created = {} /\ tasks = {} /\ source = Task
  /\ status = [t \in Task |-> "Created"]
  /\ runOf = [t \in Task |-> NoRun]
  /\ registry = {} /\ running = {} /\ runs = 0
  /\ runFor = [r \in Run |-> SomeTask]
  /\ pc = [c \in Caller |-> "idle"] /\ op = [c \in Caller |-> "none"]
  /\ subject = [c \in Caller |-> SomeTask] /\ run = [c \in Caller |-> NoRun]
-----------------------------------------------------------------------------
Goto(c, at) == pc' = [pc EXCEPT ![c] = at]

Call(c, o, t, at) ==
  /\ Goto(c, at)
  /\ op' = [op EXCEPT ![c] = o]
  /\ subject' = [subject EXCEPT ![c] = t]
  /\ run' = [run EXCEPT ![c] = NoRun]

Return(c) == Call(c, "none", SomeTask, "idle")

Busy(t) == \E c \in Caller : pc[c] # "idle" /\ subject[c] = t

MayCall(c, t) == pc[c] = "idle" /\ (t \in Serial => ~Busy(t))

CreateTask(t) ==
  /\ t \notin created
  /\ created' = created \cup {t} /\ tasks' = tasks \cup {t}
  /\ status' = [status EXCEPT ![t] = "Created"]
  /\ UNCHANGED <<source, runOf, runVars, callVars>>

\* The status the four operations ask for, on a copy of the task.
ResumesAnything == [start |-> {"Created"}, pause |-> {"Running"},
                    resume |-> {"Paused", "Running"}, stop |-> {"Running", "Paused"}]
AllowedFrom == [start |-> {"Created"}, pause |-> {"Running"},
                resume |-> {"Paused"}, stop |-> {"Running", "Paused"}]

Begin(c, o, t) ==
  /\ MayCall(c, t)
  /\ t \in tasks /\ status[t] \in AllowedFrom[o]
  /\ Call(c, o, t, IF o \in {"start", "resume"} THEN "register" ELSE "drop")
  /\ UNCHANGED <<created, tasks, status, source, runOf, runVars>>

\* delete_task asks for no status, nor for the task.
BeginDelete(c, t) ==
  /\ MayCall(c, t) /\ t \in created
  /\ Call(c, "delete", t, "drop")
  /\ UNCHANGED <<created, tasks, status, source, runOf, runVars>>
-----------------------------------------------------------------------------
(***************************************************************************)
(* start_task and resume_task                                              *)
(***************************************************************************)
\* The task's stream is copied to a new run; without it the call fails.
RegisterRun(c) ==
  /\ pc[c] = "register"
  /\ IF subject[c] \in source
     THEN \E r \in Run :
            /\ r = runs + 1 /\ runs' = r
            /\ runFor' = [runFor EXCEPT ![r] = subject[c]]
            /\ registry' = registry \cup {r}
            /\ run' = [run EXCEPT ![c] = r]
            /\ Goto(c, "pipeline") /\ UNCHANGED <<op, subject>>
     ELSE Return(c) /\ UNCHANGED <<registry, runs, runFor>>
  /\ UNCHANGED <<created, tasks, status, source, runOf, running>>

\* start_pipeline fails only for a run that is not registered.
StartRun(c) ==
  /\ pc[c] = "pipeline"
  /\ IF run[c] \in registry
     THEN running' = running \cup {run[c]} /\ Goto(c, "own") /\ UNCHANGED <<op, subject, run>>
     ELSE Return(c) /\ UNCHANGED running
  /\ UNCHANGED <<created, tasks, status, source, runOf, registry, runs, runFor>>

\* run_streams.insert forgets the run that was there.
OwnRun(c) ==
  /\ pc[c] = "own"
  /\ runOf' = [runOf EXCEPT ![subject[c]] = run[c]]
  /\ Goto(c, "mark") /\ UNCHANGED <<op, subject, run>>
  /\ UNCHANGED <<created, tasks, status, source, runVars>>
-----------------------------------------------------------------------------
(***************************************************************************)
(* pause_task, stop_task and delete_task                                   *)
(***************************************************************************)
KeepsEntry(t) == UNCHANGED runOf
TakeRun(t) == runOf' = [runOf EXCEPT ![t] = NoRun]

EndRun(r) == running' = running \ {r} /\ registry' = registry \ {r}

\* The lock of run_streams is held from the removal to the end of the block, and
\* nobody else knows the run: one step.
DropRun(c) ==
  /\ pc[c] = "drop"
  /\ TakeRun(subject[c])
  /\ EndRun(runOf[subject[c]])
  /\ Goto(c, IF op[c] = "delete" THEN "unregister" ELSE "mark")
  /\ UNCHANGED <<op, subject, run>>
  /\ UNCHANGED <<created, tasks, status, source, runs, runFor>>

Unregister(c) ==
  /\ pc[c] = "unregister"
  /\ tasks' = tasks \ {subject[c]}
  /\ Return(c)
  /\ UNCHANGED <<created, status, source, runOf, runVars>>

\* The last step of the four operations.  update_status ignores a task that is gone.
Outcome == [start |-> "Running", resume |-> "Running", pause |-> "Paused", stop |-> "Stopped"]

MarkTask(c) ==
  /\ pc[c] = "mark"
  /\ status' = IF subject[c] \in tasks
               THEN [status EXCEPT ![subject[c]] = Outcome[op[c]]] ELSE status
  /\ Return(c)
  /\ UNCHANGED <<created, tasks, source, runOf, runVars>>
-----------------------------------------------------------------------------
(***************************************************************************)
(* What happens around the task manager                                    *)
(***************************************************************************)
\* The stream a task refers to is removed.
RemoveSource(t) ==
  /\ "unstream" \in Events /\ t \in source
  /\ source' = source \ {t}
  /\ UNCHANGED <<created, tasks, status, runOf, runVars, callVars>>

\* A run is listed among the streams, and can be removed as one.
RemoveRun(r) ==
  /\ "unrun" \in Events /\ r \in running
  /\ running' = running \ {r} /\ registry' = registry \ {r}
  /\ UNCHANGED <<created, tasks, status, source, runOf, runs, runFor, callVars>>

\* In worker mode cleanup_orphaned_streams stops every registered stream that is not a
\* claimed row; a run is no row.
CleanUp(r) ==
  /\ "cleanup" \in Events /\ r \in running \cap registry
  /\ running' = running \ {r}
  /\ UNCHANGED <<created, tasks, status, source, runOf, registry, runs, runFor, callVars>>

CallerStep(c) ==
  \/ \E t \in Task : BeginDelete(c, t) \/ \E o \in DOMAIN AllowedFrom : Begin(c, o, t)
  \/ RegisterRun(c) \/ StartRun(c) \/ OwnRun(c)
  \/ DropRun(c) \/ Unregister(c) \/ MarkTask(c)

Next ==
  \/ \E c \in Caller : CallerStep(c)
  \/ \E t \in Task : CreateTask(t) \/ RemoveSource(t)
  \/ \E r \in Run : RemoveRun(r) \/ CleanUp(r)

Spec == Init /\ [][Next]_vars
-----------------------------------------------------------------------------
(***************************************************************************)
(* Correctness                                                             *)
(***************************************************************************)
\* The run a call has started and not yet entered in run_streams.
InHand(r) == \E c \in Caller : pc[c] \in {"pipeline", "own"} /\ run[c] = r

\* A run started for a task whose calls do not overlap can be stopped: it is the
\* task's entry of run_streams, or in the hands of the call that started it.  No
\* start, resume, pause, stop or delete, on this task or another, leaks a pipeline.
NoRunLeaks ==
  \A r \in registry \cup running :
    runFor[r] \in Serial => runOf[runFor[r]] = r \/ InHand(r)

\* Between calls a task whose calls do not overlap has a run exactly while it is
\* Running, and a deleted one has none.
StatusMatchesRun ==
  \A t \in Serial : ~Busy(t) => (runOf[t] # NoRun <=> t \in tasks /\ status[t] = "Running")

\* A task's life as TaskLife has it.
LifeOf(t) == IF t \notin created THEN "none" ELSE IF t \in tasks THEN status[t] ELSE "gone"

Life == INSTANCE TaskLife WITH
  Task <- Serial,
  life <- [t \in Serial |-> LifeOf(t)],
  run <- [t \in Serial |-> runOf[t]]

\* A call that has looked at the status of a task, and acts on it several steps later, acts on
\* what still holds: tasks whose calls do not overlap live the life of TaskLife.
TasksFollowLife == Life!Spec
=============================================================================
