--------------------------- MODULE TaskEngineProofs ---------------------------
(***************************************************************************)
(* A task whose calls do not overlap never leaks a run, for any number of  *)
(* tasks, callers and runs, and whatever calls on other tasks do.          *)
(***************************************************************************)
EXTENDS TaskEngine, TLAPS

\* No call on a serial task overlaps another.
CallsApart ==
  \A c, d \in Caller :
    pc[c] # "idle" /\ pc[d] # "idle" /\ subject[c] = subject[d] /\ subject[c] \in Serial
      => c = d

\* Runs are numbered in the order in which they are started, and one with a handle
\* is registered.
RunsNumbered ==
  /\ running \subseteq registry
  /\ \A r \in registry \cup running : r <= runs
  /\ \A t \in Task : runOf[t] <= runs
  /\ \A c \in Caller :
       /\ run[c] <= runs
       /\ pc[c] \in {"pipeline", "own"} => run[c] \in Run /\ runFor[run[c]] = subject[c]

Starting(o) == o \in {"start", "resume"}
Ending(o) == o \in {"pause", "stop"}

\* The operation a call is in.
OpsKnown ==
  \A c \in Caller :
    /\ pc[c] \in {"register", "pipeline", "own"} => Starting(op[c])
    /\ pc[c] = "drop" => op[c] = "delete" \/ Ending(op[c])
    /\ pc[c] = "unregister" => op[c] = "delete"
    /\ pc[c] = "mark" => Starting(op[c]) \/ Ending(op[c])

\* What a call on a serial task knows at each of its steps.
CallKnows(c) ==
  /\ pc[c] \in {"register", "pipeline", "own"} =>
       subject[c] \in tasks /\ runOf[subject[c]] = NoRun /\ status[subject[c]] # "Running"
  /\ pc[c] = "drop" => op[c] = "delete" \/ subject[c] \in tasks
  /\ pc[c] = "unregister" => runOf[subject[c]] = NoRun
  /\ pc[c] = "mark" =>
       subject[c] \in tasks /\ (Starting(op[c]) <=> runOf[subject[c]] # NoRun)

CallsKnow == \A c \in Caller : subject[c] \in Serial => CallKnows(c)

IInv ==
  TypeOK /\ OpsKnown /\ CallsApart /\ RunsNumbered /\ CallsKnow /\ NoRunLeaks /\ StatusMatchesRun

LEMMA SomeTaskType == SomeTask \in Task
BY TaskAssumption DEF SomeTask

LEMMA Statuses == \A o \in DOMAIN AllowedFrom :
  /\ o \in Op /\ AllowedFrom[o] \subseteq Status /\ o # "delete"
  /\ Outcome[o] \in Status
  /\ Starting(o) => Outcome[o] = "Running" /\ "Running" \notin AllowedFrom[o]
  /\ ~Starting(o) => Ending(o) /\ Outcome[o] # "Running"
BY DEF AllowedFrom, Outcome, Op, Status, Starting, Ending

LEMMA InitType == Init => TypeOK
BY SomeTaskType, TaskAssumption DEF Init, TypeOK, Run, NoRun, Status

LEMMA NextOps == ASSUME TypeOK, OpsKnown, [Next]_vars PROVE OpsKnown'
<1>. USE DEF TypeOK, OpsKnown, Starting, Ending, Call, Goto, Return, MayCall, callVars
<1>1. ASSUME NEW t \in Task, CreateTask(t) PROVE OpsKnown'
  BY <1>1 DEF CreateTask
<1>2. ASSUME NEW c \in Caller, NEW t \in Task, NEW o \in DOMAIN AllowedFrom, Begin(c, o, t) PROVE OpsKnown'
  BY <1>2, Statuses DEF Begin
<1>3. ASSUME NEW c \in Caller, NEW t \in Task, BeginDelete(c, t) PROVE OpsKnown'
  BY <1>3 DEF BeginDelete
<1>4. ASSUME NEW c \in Caller, RegisterRun(c) PROVE OpsKnown'
  <2>1. CASE subject[c] \in source
    BY <1>4, <2>1 DEF RegisterRun
  <2>2. CASE subject[c] \notin source
    BY <1>4, <2>2 DEF RegisterRun
  <2>. QED  BY <2>1, <2>2
<1>5. ASSUME NEW c \in Caller, StartRun(c) PROVE OpsKnown'
  <2>1. CASE run[c] \in registry
    BY <1>5, <2>1 DEF StartRun
  <2>2. CASE run[c] \notin registry
    BY <1>5, <2>2 DEF StartRun
  <2>. QED  BY <2>1, <2>2
<1>6. ASSUME NEW c \in Caller, OwnRun(c) PROVE OpsKnown'
  BY <1>6 DEF OwnRun
<1>7. ASSUME NEW c \in Caller, DropRun(c) PROVE OpsKnown'
  BY <1>7 DEF DropRun
<1>8. ASSUME NEW c \in Caller, Unregister(c) PROVE OpsKnown'
  BY <1>8 DEF Unregister
<1>9. ASSUME NEW c \in Caller, MarkTask(c) PROVE OpsKnown'
  BY <1>9 DEF MarkTask
<1>10. ASSUME NEW t \in Task, RemoveSource(t) PROVE OpsKnown'
  BY <1>10 DEF RemoveSource
<1>11. ASSUME NEW r \in Run, RemoveRun(r) PROVE OpsKnown'
  BY <1>11 DEF RemoveRun
<1>12. ASSUME NEW r \in Run, CleanUp(r) PROVE OpsKnown'
  BY <1>12 DEF CleanUp
<1>13. CASE UNCHANGED vars
  BY <1>13 DEF vars
<1>. QED
  BY <1>1, <1>2, <1>3, <1>4, <1>5, <1>6, <1>7, <1>8, <1>9, <1>10, <1>11, <1>12, <1>13 DEF Next, CallerStep

LEMMA NextType == ASSUME TypeOK, OpsKnown, [Next]_vars PROVE TypeOK'
<1>. USE SomeTaskType, TaskAssumption
     DEF TypeOK, Run, NoRun, Status, Op, Call, Goto, Return, MayCall, Busy, TakeRun, EndRun, callVars, runVars
<1>1. ASSUME NEW t \in Task, CreateTask(t) PROVE TypeOK'
  BY <1>1 DEF CreateTask
<1>2. ASSUME NEW c \in Caller, NEW t \in Task, NEW o \in DOMAIN AllowedFrom, Begin(c, o, t) PROVE TypeOK'
  BY <1>2, Statuses DEF Begin
<1>3. ASSUME NEW c \in Caller, NEW t \in Task, BeginDelete(c, t) PROVE TypeOK'
  BY <1>3 DEF BeginDelete
<1>4. ASSUME NEW c \in Caller, RegisterRun(c) PROVE TypeOK'
  <2>1. CASE subject[c] \in source
    <3>1. PICK r \in Run : /\ r = runs + 1 /\ runs' = r
                           /\ runFor' = [runFor EXCEPT ![r] = subject[c]]
                           /\ registry' = registry \cup {r}
                           /\ run' = [run EXCEPT ![c] = r]
                           /\ pc' = [pc EXCEPT ![c] = "pipeline"]
                           /\ UNCHANGED <<op, subject>>
      BY <1>4, <2>1 DEF RegisterRun
    <3>. QED  BY <1>4, <3>1 DEF RegisterRun
  <2>2. CASE subject[c] \notin source
    BY <1>4, <2>2, ZenonT(60) DEF RegisterRun
  <2>. QED  BY <2>1, <2>2
<1>5. ASSUME NEW c \in Caller, StartRun(c) PROVE TypeOK'
  <2>1. CASE run[c] \in registry
    BY <1>5, <2>1, ZenonT(60) DEF StartRun
  <2>2. CASE run[c] \notin registry
    BY <1>5, <2>2, ZenonT(60) DEF StartRun
  <2>. QED  BY <2>1, <2>2
<1>6. ASSUME NEW c \in Caller, OwnRun(c) PROVE TypeOK'
  BY <1>6 DEF OwnRun
<1>7. ASSUME NEW c \in Caller, DropRun(c) PROVE TypeOK'
  BY <1>7 DEF DropRun
<1>8. ASSUME NEW c \in Caller, Unregister(c) PROVE TypeOK'
  BY <1>8 DEF Unregister
<1>9. ASSUME NEW c \in Caller, MarkTask(c) PROVE TypeOK'
  <2>1. Outcome[op[c]] \in Status
    BY <1>9 DEF MarkTask, OpsKnown, Starting, Ending, Outcome
  <2>. QED  BY <1>9, <2>1 DEF MarkTask
<1>10. ASSUME NEW t \in Task, RemoveSource(t) PROVE TypeOK'
  BY <1>10 DEF RemoveSource
<1>11. ASSUME NEW r \in Run, RemoveRun(r) PROVE TypeOK'
  BY <1>11 DEF RemoveRun
<1>12. ASSUME NEW r \in Run, CleanUp(r) PROVE TypeOK'
  BY <1>12 DEF CleanUp
<1>13. CASE UNCHANGED vars
  BY <1>13 DEF vars
<1>. QED
  BY <1>1, <1>2, <1>3, <1>4, <1>5, <1>6, <1>7, <1>8, <1>9, <1>10, <1>11, <1>12, <1>13 DEF Next, CallerStep

LEMMA NextApart == ASSUME TypeOK, CallsApart, [Next]_vars PROVE CallsApart'
<1>. USE SomeTaskType DEF TypeOK, CallsApart, Call, Goto, Return, MayCall, Busy, TakeRun, EndRun, callVars, runVars
<1>1. ASSUME NEW t \in Task, CreateTask(t) PROVE CallsApart'
  BY <1>1 DEF CreateTask
<1>2. ASSUME NEW c \in Caller, NEW t \in Task, NEW o \in DOMAIN AllowedFrom, Begin(c, o, t) PROVE CallsApart'
  BY <1>2 DEF Begin
<1>3. ASSUME NEW c \in Caller, NEW t \in Task, BeginDelete(c, t) PROVE CallsApart'
  BY <1>3 DEF BeginDelete
<1>4. ASSUME NEW c \in Caller, RegisterRun(c) PROVE CallsApart'
  BY <1>4 DEF RegisterRun
<1>5. ASSUME NEW c \in Caller, StartRun(c) PROVE CallsApart'
  BY <1>5 DEF StartRun
<1>6. ASSUME NEW c \in Caller, OwnRun(c) PROVE CallsApart'
  BY <1>6 DEF OwnRun
<1>7. ASSUME NEW c \in Caller, DropRun(c) PROVE CallsApart'
  BY <1>7 DEF DropRun
<1>8. ASSUME NEW c \in Caller, Unregister(c) PROVE CallsApart'
  BY <1>8 DEF Unregister
<1>9. ASSUME NEW c \in Caller, MarkTask(c) PROVE CallsApart'
  BY <1>9 DEF MarkTask
<1>10. ASSUME NEW t \in Task, RemoveSource(t) PROVE CallsApart'
  BY <1>10 DEF RemoveSource
<1>11. ASSUME NEW r \in Run, RemoveRun(r) PROVE CallsApart'
  BY <1>11 DEF RemoveRun
<1>12. ASSUME NEW r \in Run, CleanUp(r) PROVE CallsApart'
  BY <1>12 DEF CleanUp
<1>13. CASE UNCHANGED vars
  BY <1>13 DEF vars
<1>. QED
  BY <1>1, <1>2, <1>3, <1>4, <1>5, <1>6, <1>7, <1>8, <1>9, <1>10, <1>11, <1>12, <1>13 DEF Next, CallerStep

LEMMA NextNumbered == ASSUME TypeOK, RunsNumbered, [Next]_vars PROVE RunsNumbered'
<1>. USE SomeTaskType, TaskAssumption DEF TypeOK, RunsNumbered, Run, NoRun, Call, Goto, Return, MayCall, Busy, TakeRun, EndRun, callVars, runVars
<1>1. ASSUME NEW t \in Task, CreateTask(t) PROVE RunsNumbered'
  BY <1>1 DEF CreateTask
<1>2. ASSUME NEW c \in Caller, NEW t \in Task, NEW o \in DOMAIN AllowedFrom, Begin(c, o, t) PROVE RunsNumbered'
  BY <1>2 DEF Begin
<1>3. ASSUME NEW c \in Caller, NEW t \in Task, BeginDelete(c, t) PROVE RunsNumbered'
  BY <1>3 DEF BeginDelete
<1>4. ASSUME NEW c \in Caller, RegisterRun(c) PROVE RunsNumbered'
  <2>1. CASE subject[c] \in source
    <3>1. PICK r \in Run : /\ r = runs + 1 /\ runs' = r
                           /\ runFor' = [runFor EXCEPT ![r] = subject[c]]
                           /\ registry' = registry \cup {r}
                           /\ run' = [run EXCEPT ![c] = r]
                           /\ pc' = [pc EXCEPT ![c] = "pipeline"]
                           /\ UNCHANGED <<op, subject>>
      BY <1>4, <2>1 DEF RegisterRun
    <3>2. running' \subseteq registry' /\ \A q \in registry' \cup running' : q <= runs'
      BY <1>4, <3>1 DEF RegisterRun
    <3>3. \A t \in Task : runOf'[t] <= runs'
      BY <1>4, <3>1 DEF RegisterRun
    <3>4. \A d \in Caller : run'[d] <= runs'
      BY <1>4, <3>1 DEF RegisterRun
    <3>5. ASSUME NEW d \in Caller, pc'[d] \in {"pipeline", "own"}
          PROVE  run'[d] \in Run /\ runFor'[run'[d]] = subject'[d]
      <4>1. CASE d = c
        BY <3>1, <4>1
      <4>2. CASE d # c
        <5>1. UNCHANGED <<pc[d], run[d], subject[d]>> /\ run[d] # r
          BY <3>1, <4>2
        <5>. QED  BY <3>1, <3>5, <5>1
      <4>. QED  BY <4>1, <4>2
    <3>. QED  BY <3>2, <3>3, <3>4, <3>5
  <2>2. CASE subject[c] \notin source
    <3>1. Return(c) /\ UNCHANGED <<registry, running, runs, runFor, runOf, status, tasks>>
      BY <1>4, <2>2 DEF RegisterRun
    <3>. QED  BY <1>4, <3>1 DEF RegisterRun
  <2>. QED  BY <2>1, <2>2
<1>5. ASSUME NEW c \in Caller, StartRun(c) PROVE RunsNumbered'
  <2>1. UNCHANGED <<registry, runs, runOf, runFor>>
    BY <1>5 DEF StartRun
  <2>2. running' \subseteq registry
    <3>1. CASE run[c] \in registry
      <4>1. running' = running \cup {run[c]}
        BY <1>5, <3>1 DEF StartRun
      <4>. QED  BY <3>1, <4>1
    <3>2. CASE run[c] \notin registry
      <4>1. UNCHANGED running
        BY <1>5, <3>2 DEF StartRun
      <4>. QED  BY <4>1
    <3>. QED  BY <3>1, <3>2
  <2>3. ASSUME NEW d \in Caller PROVE run'[d] \in {run[d], NoRun}
    BY <1>5 DEF StartRun
  <2>4. ASSUME NEW d \in Caller, pc'[d] \in {"pipeline", "own"}
        PROVE  pc[d] \in {"pipeline", "own"} /\ UNCHANGED <<run[d], subject[d]>>
    <3>1. CASE run[c] \in registry
      BY <1>5, <2>4, <3>1 DEF StartRun
    <3>2. CASE run[c] \notin registry
      BY <1>5, <2>4, <3>2 DEF StartRun
    <3>. QED  BY <3>1, <3>2
  <2>. QED  BY <2>1, <2>2, <2>3, <2>4
<1>6. ASSUME NEW c \in Caller, OwnRun(c) PROVE RunsNumbered'
  BY <1>6 DEF OwnRun
<1>7. ASSUME NEW c \in Caller, DropRun(c) PROVE RunsNumbered'
  <2>1. \A t \in Task : runOf'[t] <= runs
    BY <1>7 DEF DropRun
  <2>2. running' \subseteq registry' /\ registry' \subseteq registry /\ UNCHANGED <<runs, run, runFor, subject>>
    BY <1>7 DEF DropRun
  <2>3. \A d \in Caller : pc'[d] \in {"pipeline", "own"} => pc[d] \in {"pipeline", "own"}
    BY <1>7 DEF DropRun
  <2>. QED  BY <2>1, <2>2, <2>3
<1>8. ASSUME NEW c \in Caller, Unregister(c) PROVE RunsNumbered'
  BY <1>8 DEF Unregister
<1>9. ASSUME NEW c \in Caller, MarkTask(c) PROVE RunsNumbered'
  BY <1>9 DEF MarkTask
<1>10. ASSUME NEW t \in Task, RemoveSource(t) PROVE RunsNumbered'
  BY <1>10 DEF RemoveSource
<1>11. ASSUME NEW r \in Run, RemoveRun(r) PROVE RunsNumbered'
  BY <1>11 DEF RemoveRun
<1>12. ASSUME NEW r \in Run, CleanUp(r) PROVE RunsNumbered'
  BY <1>12 DEF CleanUp
<1>13. CASE UNCHANGED vars
  BY <1>13 DEF vars
<1>. QED
  BY <1>1, <1>2, <1>3, <1>4, <1>5, <1>6, <1>7, <1>8, <1>9, <1>10, <1>11, <1>12, <1>13 DEF Next, CallerStep

LEMMA NextKnow == ASSUME IInv, TypeOK', [Next]_vars PROVE CallsKnow'
<1>. USE DEF IInv, TypeOK, OpsKnown, CallsApart, RunsNumbered, CallsKnow, CallKnows,
             StatusMatchesRun, Run, NoRun, Call, Goto, Return, MayCall, Busy, TakeRun, EndRun, callVars, runVars
<1>1. ASSUME NEW t \in Task, CreateTask(t) PROVE CallsKnow'
  BY <1>1 DEF CreateTask
<1>2. ASSUME NEW c \in Caller, NEW t \in Task, NEW o \in DOMAIN AllowedFrom, Begin(c, o, t) PROVE CallsKnow'
  <2>1. t \in tasks /\ t = subject'[c] /\ pc'[c] \in {"register", "drop"} /\ op'[c] = o
    BY <1>2, Statuses DEF Begin
  <2>2. ASSUME t \in Serial PROVE CallKnows(c)'
    <3>1. ~Busy(t)  BY <1>2, <2>2 DEF Begin
    <3>2. pc'[c] = "register" => status[t] # "Running"
      BY <1>2, Statuses DEF Begin, Starting
    <3>3. pc'[c] = "register" => runOf[t] = NoRun
      BY <2>2, <3>1, <3>2
    <3>. QED  BY <1>2, <2>1, <3>2, <3>3 DEF Begin
  <2>3. ASSUME NEW d \in Caller, d # c, subject[d] \in Serial PROVE CallKnows(d)'
    <3>1. CallKnows(d)
      BY <2>3
    <3>2. UNCHANGED <<pc[d], op[d], subject[d], run[d], tasks, status, runOf, runFor>>
      BY <1>2, <2>3 DEF Begin
    <3>. QED  BY <3>1, <3>2
  <2>4. ASSUME NEW d \in Caller, subject'[d] \in Serial PROVE CallKnows(d)'
    <3>1. CASE d = c
      BY <2>1, <2>2, <2>4, <3>1
    <3>2. CASE d # c
      <4>1. subject'[d] = subject[d]
        BY <1>2, <3>2 DEF Begin
      <4>. QED  BY <2>3, <2>4, <3>2, <4>1
    <3>. QED  BY <3>1, <3>2
  <2>. QED  BY <2>4 DEF CallsKnow
<1>3. ASSUME NEW c \in Caller, NEW t \in Task, BeginDelete(c, t) PROVE CallsKnow'
  BY <1>3 DEF BeginDelete
<1>4. ASSUME NEW c \in Caller, RegisterRun(c) PROVE CallsKnow'
  BY <1>4 DEF RegisterRun
<1>5. ASSUME NEW c \in Caller, StartRun(c) PROVE CallsKnow'
  BY <1>5 DEF StartRun
<1>6. ASSUME NEW c \in Caller, OwnRun(c) PROVE CallsKnow'
  BY <1>6 DEF OwnRun
<1>7. ASSUME NEW c \in Caller, DropRun(c) PROVE CallsKnow'
  <2>1. ASSUME NEW d \in Caller, d # c, subject[d] \in Serial PROVE CallKnows(d)'
    <3>1. pc[d] = "idle" \/ subject[d] # subject[c]
      BY <1>7, <2>1 DEF DropRun
    <3>. QED  BY <1>7, <2>1, <3>1 DEF DropRun
  <2>2. ASSUME subject[c] \in Serial PROVE CallKnows(c)'
    BY <1>7, <2>2 DEF DropRun, Starting, Ending
  <2>. QED  BY <1>7, <2>1, <2>2 DEF DropRun
<1>8. ASSUME NEW c \in Caller, Unregister(c) PROVE CallsKnow'
  BY <1>8 DEF Unregister
<1>9. ASSUME NEW c \in Caller, MarkTask(c) PROVE CallsKnow'
  BY <1>9 DEF MarkTask
<1>10. ASSUME NEW t \in Task, RemoveSource(t) PROVE CallsKnow'
  BY <1>10 DEF RemoveSource
<1>11. ASSUME NEW r \in Run, RemoveRun(r) PROVE CallsKnow'
  BY <1>11 DEF RemoveRun
<1>12. ASSUME NEW r \in Run, CleanUp(r) PROVE CallsKnow'
  BY <1>12 DEF CleanUp
<1>13. CASE UNCHANGED vars
  BY <1>13 DEF vars
<1>. QED
  BY <1>1, <1>2, <1>3, <1>4, <1>5, <1>6, <1>7, <1>8, <1>9, <1>10, <1>11, <1>12, <1>13 DEF Next, CallerStep

LEMMA NextNoLeak == ASSUME IInv, TypeOK', [Next]_vars PROVE NoRunLeaks'
<1>. USE DEF IInv, TypeOK, OpsKnown, CallsApart, RunsNumbered, CallsKnow, CallKnows,
             NoRunLeaks, InHand, Run, NoRun, Call, Goto, Return, MayCall, Busy, TakeRun, EndRun, callVars, runVars
<1>1. ASSUME NEW t \in Task, CreateTask(t) PROVE NoRunLeaks'
  BY <1>1 DEF CreateTask
<1>2. ASSUME NEW c \in Caller, NEW t \in Task, NEW o \in DOMAIN AllowedFrom, Begin(c, o, t) PROVE NoRunLeaks'
  BY <1>2 DEF Begin
<1>3. ASSUME NEW c \in Caller, NEW t \in Task, BeginDelete(c, t) PROVE NoRunLeaks'
  BY <1>3 DEF BeginDelete
<1>4. ASSUME NEW c \in Caller, RegisterRun(c) PROVE NoRunLeaks'
  <2>1. CASE subject[c] \in source
    <3>1. PICK r \in Run : /\ r = runs + 1 /\ runs' = r
                           /\ runFor' = [runFor EXCEPT ![r] = subject[c]]
                           /\ registry' = registry \cup {r}
                           /\ run' = [run EXCEPT ![c] = r]
                           /\ pc' = [pc EXCEPT ![c] = "pipeline"]
                           /\ UNCHANGED <<op, subject>>
      BY <1>4, <2>1 DEF RegisterRun
    <3>2. ASSUME NEW q \in registry' \cup running', runFor'[q] \in Serial
          PROVE  runOf'[runFor'[q]] = q \/ InHand(q)'
      <4>1. CASE q = r
        <5>1. pc'[c] = "pipeline" /\ run'[c] = r
          BY <3>1
        <5>. QED  BY <4>1, <5>1
      <4>2. CASE q # r
        <5>0. q \in registry \cup running
          BY <1>4, <3>1, <3>2, <4>2 DEF RegisterRun
        <5>1. q \in registry \cup running /\ q \in Run /\ runFor'[q] = runFor[q]
          BY <3>1, <4>2, <5>0
        <5>2. InHand(q) => InHand(q)'
          <6>1. ASSUME NEW d \in Caller, pc[d] \in {"pipeline", "own"}, run[d] = q PROVE InHand(q)'
            <7>1. d # c
              BY <1>4, <6>1 DEF RegisterRun
            <7>2. pc'[d] = pc[d] /\ run'[d] = run[d]
              BY <3>1, <7>1
            <7>. QED  BY <6>1, <7>2
          <6>. QED  BY <6>1
        <5>. QED  BY <1>4, <3>2, <5>1, <5>2 DEF RegisterRun
      <4>. QED  BY <4>1, <4>2
    <3>. QED  BY <3>2
  <2>2. CASE subject[c] \notin source
    <3>1. Return(c) /\ UNCHANGED <<registry, running, runs, runFor, runOf, status, tasks>>
      BY <1>4, <2>2 DEF RegisterRun
    <3>. QED  BY <1>4, <3>1 DEF RegisterRun
  <2>. QED  BY <2>1, <2>2
<1>5. ASSUME NEW c \in Caller, StartRun(c) PROVE NoRunLeaks'
  <2>1. CASE run[c] \in registry
    BY <1>5, <2>1 DEF StartRun
  <2>2. CASE run[c] \notin registry
    <3>1. Return(c) /\ UNCHANGED <<registry, running, runs, runFor, runOf>>
      BY <1>5, <2>2 DEF StartRun
    <3>2. run[c] \notin registry \cup running
      BY <2>2
    <3>3. ASSUME NEW q \in registry \cup running, InHand(q) PROVE InHand(q)'
      BY <3>1, <3>2, <3>3
    <3>. QED  BY <3>1, <3>3
  <2>. QED  BY <2>1, <2>2
<1>6. ASSUME NEW c \in Caller, OwnRun(c) PROVE NoRunLeaks'
  <2>1. ASSUME NEW q \in registry \cup running, runFor[q] \in Serial
        PROVE  runOf'[runFor[q]] = q \/ InHand(q)'
    <3>0. q \in Run /\ (runOf[runFor[q]] = q \/ InHand(q))
      BY <2>1
    <3>1. CASE q = run[c]
      BY <1>6, <2>1, <3>1 DEF OwnRun
    <3>2. CASE q # run[c] /\ InHand(q)
      <4>1. PICK d \in Caller : pc[d] \in {"pipeline", "own"} /\ run[d] = q
        BY <3>2
      <4>2. pc'[d] = pc[d] /\ run'[d] = run[d]
        BY <1>6, <3>2, <4>1 DEF OwnRun
      <4>. QED  BY <4>1, <4>2
    <3>3. CASE q # run[c] /\ runOf[runFor[q]] = q
      <4>1. runFor[q] # subject[c]
        BY <1>6, <2>1, <3>0, <3>3 DEF OwnRun
      <4>. QED  BY <1>6, <3>0, <3>3, <4>1 DEF OwnRun
    <3>. QED  BY <3>0, <3>1, <3>2, <3>3
  <2>. QED  BY <1>6, <2>1 DEF OwnRun
<1>7. ASSUME NEW c \in Caller, DropRun(c) PROVE NoRunLeaks'
  BY <1>7 DEF DropRun
<1>8. ASSUME NEW c \in Caller, Unregister(c) PROVE NoRunLeaks'
  BY <1>8 DEF Unregister
<1>9. ASSUME NEW c \in Caller, MarkTask(c) PROVE NoRunLeaks'
  BY <1>9 DEF MarkTask
<1>10. ASSUME NEW t \in Task, RemoveSource(t) PROVE NoRunLeaks'
  BY <1>10 DEF RemoveSource
<1>11. ASSUME NEW r \in Run, RemoveRun(r) PROVE NoRunLeaks'
  BY <1>11 DEF RemoveRun
<1>12. ASSUME NEW r \in Run, CleanUp(r) PROVE NoRunLeaks'
  BY <1>12 DEF CleanUp
<1>13. CASE UNCHANGED vars
  BY <1>13 DEF vars
<1>. QED
  BY <1>1, <1>2, <1>3, <1>4, <1>5, <1>6, <1>7, <1>8, <1>9, <1>10, <1>11, <1>12, <1>13 DEF Next, CallerStep

\* A call that fails before its task has a run leaves the task as it was.
LEMMA ReturnMatches ==
  ASSUME IInv, NEW c \in Caller, pc[c] \in {"register", "pipeline"}, Return(c),
         UNCHANGED <<runOf, status, tasks>>
  PROVE  StatusMatchesRun'
<1>. USE DEF IInv, TypeOK, CallsKnow, CallKnows, StatusMatchesRun, Call, Goto, Return, Busy
<1>1. ASSUME NEW t \in Serial, ~Busy(t)'
      PROVE  runOf[t] # NoRun <=> t \in tasks /\ status[t] = "Running"
  <2>1. CASE t = subject[c]
    BY <1>1, <2>1
  <2>2. CASE t # subject[c]
    <3>1. ~Busy(t)  BY <1>1, <2>2
    <3>. QED  BY <1>1, <3>1
  <2>. QED  BY <2>1, <2>2
<1>. QED  BY <1>1

LEMMA NextMatches == ASSUME IInv, TypeOK', [Next]_vars PROVE StatusMatchesRun'
<1>. USE DEF IInv, TypeOK, OpsKnown, CallsApart, CallsKnow, CallKnows,
             StatusMatchesRun, NoRun, Call, Goto, Return, MayCall, Busy, TakeRun, EndRun, callVars, runVars
<1>1. ASSUME NEW t \in Task, CreateTask(t) PROVE StatusMatchesRun'
  BY <1>1 DEF CreateTask
<1>2. ASSUME NEW c \in Caller, NEW t \in Task, NEW o \in DOMAIN AllowedFrom, Begin(c, o, t) PROVE StatusMatchesRun'
  BY <1>2 DEF Begin
<1>3. ASSUME NEW c \in Caller, NEW t \in Task, BeginDelete(c, t) PROVE StatusMatchesRun'
  BY <1>3 DEF BeginDelete
<1>4. ASSUME NEW c \in Caller, RegisterRun(c) PROVE StatusMatchesRun'
  <2>1. CASE subject[c] \in source
    <3>1. PICK r \in Run : /\ r = runs + 1 /\ runs' = r
                           /\ runFor' = [runFor EXCEPT ![r] = subject[c]]
                           /\ registry' = registry \cup {r}
                           /\ run' = [run EXCEPT ![c] = r]
                           /\ pc' = [pc EXCEPT ![c] = "pipeline"]
                           /\ UNCHANGED <<op, subject>>
      BY <1>4, <2>1 DEF RegisterRun
    <3>. QED  BY <1>4, <3>1 DEF RegisterRun
  <2>2. CASE subject[c] \notin source
    <3>1. Return(c) /\ UNCHANGED <<runOf, status, tasks>> /\ pc[c] = "register"
      BY <1>4, <2>2 DEF RegisterRun
    <3>. QED  BY <3>1, ReturnMatches
  <2>. QED  BY <2>1, <2>2
<1>5. ASSUME NEW c \in Caller, StartRun(c) PROVE StatusMatchesRun'
  <2>1. CASE run[c] \in registry
    BY <1>5, <2>1 DEF StartRun
  <2>2. CASE run[c] \notin registry
    <3>1. Return(c) /\ UNCHANGED <<runOf, status, tasks>> /\ pc[c] = "pipeline"
      BY <1>5, <2>2 DEF StartRun
    <3>. QED  BY <3>1, ReturnMatches
  <2>. QED  BY <2>1, <2>2
<1>6. ASSUME NEW c \in Caller, OwnRun(c) PROVE StatusMatchesRun'
  BY <1>6 DEF OwnRun
<1>7. ASSUME NEW c \in Caller, DropRun(c) PROVE StatusMatchesRun'
  BY <1>7 DEF DropRun
<1>8. ASSUME NEW c \in Caller, Unregister(c) PROVE StatusMatchesRun'
  BY <1>8 DEF Unregister
<1>9. ASSUME NEW c \in Caller, MarkTask(c) PROVE StatusMatchesRun'
  <2>1. ASSUME NEW t \in Serial, ~Busy(t)'
        PROVE  runOf'[t] # NoRun <=> t \in tasks' /\ status'[t] = "Running"
    <3>1. CASE t = subject[c]
      <4>1. Starting(op[c]) => Outcome[op[c]] = "Running"
        BY DEF Starting, Outcome
      <4>2. Ending(op[c]) => Outcome[op[c]] # "Running"
        BY DEF Ending, Outcome
      <4>. QED  BY <1>9, <2>1, <3>1, <4>1, <4>2, TaskAssumption DEF MarkTask
    <3>2. CASE t # subject[c]
      <4>1. ~Busy(t)  BY <1>9, <2>1, <3>2 DEF MarkTask
      <4>. QED  BY <1>9, <2>1, <3>2, <4>1, TaskAssumption DEF MarkTask
    <3>. QED  BY <3>1, <3>2
  <2>. QED  BY <2>1
<1>10. ASSUME NEW t \in Task, RemoveSource(t) PROVE StatusMatchesRun'
  BY <1>10 DEF RemoveSource
<1>11. ASSUME NEW r \in Run, RemoveRun(r) PROVE StatusMatchesRun'
  BY <1>11 DEF RemoveRun
<1>12. ASSUME NEW r \in Run, CleanUp(r) PROVE StatusMatchesRun'
  BY <1>12 DEF CleanUp
<1>13. CASE UNCHANGED vars
  BY <1>13 DEF vars
<1>. QED
  BY <1>1, <1>2, <1>3, <1>4, <1>5, <1>6, <1>7, <1>8, <1>9, <1>10, <1>11, <1>12, <1>13 DEF Next, CallerStep

LEMMA IndInv == Spec => []IInv
<1>1. Init => IInv
  <2>. SUFFICES ASSUME Init PROVE IInv
    OBVIOUS
  <2>1. TypeOK
    BY InitType
  <2>. QED
    BY <2>1, TaskAssumption
    DEF Init, IInv, TypeOK, OpsKnown, CallsApart, RunsNumbered, CallsKnow, CallKnows, NoRunLeaks,
        StatusMatchesRun, Busy, Run, NoRun
<1>2. IInv /\ [Next]_vars => IInv'
  BY NextOps, NextType, NextApart, NextNumbered, NextKnow, NextNoLeak, NextMatches DEF IInv
<1>. QED  BY <1>1, <1>2, PTL DEF Spec

\* Every call of the task manager leaves its registries, the run map and the statuses well
\* formed, whatever the number of tasks, callers and runs.
THEOREM TaskTypeCorrect == Spec => []TypeOK
<1>. QED  BY IndInv, PTL DEF IInv

\* A run started for a task whose calls do not overlap can always be stopped: by the task's
\* entry of run_streams or by the call that is starting it (start_task and resume_task
\* against pause, stop and delete, on any number of tasks at once).
THEOREM NoRunEverLeaks == Spec => []NoRunLeaks
<1>. QED  BY IndInv, PTL DEF IInv

\* Between calls such a task has a run exactly while it is Running, and none once deleted:
\* failed starts, deletes and the removal of streams and runs included.
THEOREM StatusAlwaysMatches == Spec => []StatusMatchesRun
<1>. QED  BY IndInv, PTL DEF IInv

(***************************************************************************)
(* The life of a task.  A run in run_streams was started for its task, and *)
(* what a call was allowed to do by the status it read, it still is; one   *)
(* that is about to end a run finds the task Running.                      *)
(***************************************************************************)
RunsOwned == \A t \in Task : runOf[t] # NoRun => runOf[t] \in Run /\ runFor[runOf[t]] = t

StillAllowed ==
  \A c \in Caller :
    pc[c] # "idle" /\ op[c] # "delete" /\ subject[c] \in Serial =>
      op[c] \in DOMAIN AllowedFrom /\ subject[c] \in tasks /\ status[subject[c]] \in AllowedFrom[op[c]]

RunEndsRunning ==
  \A c \in Caller :
    pc[c] = "drop" /\ subject[c] \in Serial /\ runOf[subject[c]] # NoRun =>
      subject[c] \in tasks /\ status[subject[c]] = "Running"

LEMMA NextOwned == ASSUME IInv, RunsOwned, [Next]_vars PROVE RunsOwned'
<1>. USE DEF IInv, TypeOK, RunsNumbered, RunsOwned, Run, NoRun, TakeRun, runVars
<1>1. ASSUME NEW c \in Caller, RegisterRun(c) PROVE RunsOwned'
  <2>1. CASE subject[c] \in source
    <3>1. PICK r \in Run : /\ r = runs + 1
                           /\ runFor' = [runFor EXCEPT ![r] = subject[c]]
      BY <1>1, <2>1 DEF RegisterRun
    <3>2. runOf' = runOf  BY <1>1 DEF RegisterRun
    <3>3. ASSUME NEW t \in Task, runOf[t] # NoRun PROVE runOf[t] \in Run /\ runFor'[runOf[t]] = t
      <4>1. runOf[t] # r  BY <3>1
      <4>. QED  BY <3>1, <3>3, <4>1
    <3>. QED  BY <3>2, <3>3
  <2>2. CASE subject[c] \notin source
    BY <1>1, <2>2 DEF RegisterRun
  <2>. QED  BY <2>1, <2>2
<1>2. ASSUME NEW c \in Caller, OwnRun(c) PROVE RunsOwned'
  <2>1. /\ runOf' = [runOf EXCEPT ![subject[c]] = run[c]] /\ UNCHANGED runFor
        /\ run[c] \in Run /\ runFor[run[c]] = subject[c]
    BY <1>2 DEF OwnRun
  <2>. QED  BY <2>1
<1>3. ASSUME NEW c \in Caller, DropRun(c) PROVE RunsOwned'
  <2>1. runOf' = [runOf EXCEPT ![subject[c]] = NoRun] /\ UNCHANGED runFor
    BY <1>3 DEF DropRun
  <2>. QED  BY <2>1
<1>4. CASE UNCHANGED <<runOf, runFor>>
  BY <1>4
<1>. QED
  BY <1>1, <1>2, <1>3, <1>4
     DEF Next, CallerStep, CreateTask, Begin, BeginDelete, StartRun, Unregister, MarkTask, RemoveSource,
         RemoveRun, CleanUp, vars

\* No step but the last one of a call on it touches a serial task that is called.
LEMMA TasksApart ==
  ASSUME IInv, [Next]_vars, NEW d \in Caller, pc[d] # "idle", subject[d] \in Serial,
         UNCHANGED <<pc[d], op[d], subject[d]>>, subject[d] \in tasks
  PROVE  subject[d] \in tasks' /\ status'[subject[d]] = status[subject[d]]
<1>. USE DEF IInv, TypeOK, CallsApart, Call, Goto, Return, callVars, runVars
<1>1. ASSUME NEW t \in Task, CreateTask(t) PROVE subject[d] \in tasks' /\ status'[subject[d]] = status[subject[d]]
  BY <1>1 DEF CreateTask
<1>2. ASSUME NEW c \in Caller, Unregister(c)
      PROVE  subject[d] \in tasks' /\ status'[subject[d]] = status[subject[d]]
  <2>1. c # d /\ pc[c] # "idle"  BY <1>2 DEF Unregister
  <2>2. subject[c] # subject[d]  BY <2>1
  <2>. QED  BY <1>2, <2>2 DEF Unregister
<1>3. ASSUME NEW c \in Caller, MarkTask(c)
      PROVE  subject[d] \in tasks' /\ status'[subject[d]] = status[subject[d]]
  <2>1. c # d /\ pc[c] # "idle"  BY <1>3 DEF MarkTask
  <2>2. subject[c] # subject[d]  BY <2>1
  <2>. QED  BY <1>3, <2>2 DEF MarkTask
<1>4. CASE UNCHANGED <<tasks, status>>
  BY <1>4
<1>. QED
  BY <1>1, <1>2, <1>3, <1>4
     DEF Next, CallerStep, Begin, BeginDelete, RegisterRun, StartRun, OwnRun, DropRun, RemoveSource,
         RemoveRun, CleanUp, vars

\* A call begins, goes on with the same operation on the same task, or has returned.
LEMMA CallGoesOn ==
  ASSUME IInv, [Next]_vars, NEW d \in Caller
  PROVE  \/ UNCHANGED <<pc[d], op[d], subject[d]>>
         \/ pc[d] # "idle" /\ pc'[d] # "drop" /\ UNCHANGED <<op[d], subject[d], tasks, status>>
         \/ pc'[d] = "idle"
         \/ \E t \in Task : \E o \in DOMAIN AllowedFrom : Begin(d, o, t)
         \/ \E t \in Task : BeginDelete(d, t)
<1>. USE DEF IInv, TypeOK, Call, Goto, Return, callVars, runVars
<1>1. ASSUME NEW c \in Caller, CallerStep(c), c # d PROVE UNCHANGED <<pc[d], op[d], subject[d]>>
  BY <1>1 DEF CallerStep, Begin, BeginDelete, RegisterRun, StartRun, OwnRun, DropRun, Unregister, MarkTask
<1>2. ASSUME RegisterRun(d) \/ StartRun(d) \/ OwnRun(d) \/ DropRun(d)
      PROVE  (pc[d] # "idle" /\ pc'[d] # "drop" /\ UNCHANGED <<op[d], subject[d], tasks, status>>) \/ pc'[d] = "idle"
  BY <1>2 DEF RegisterRun, StartRun, OwnRun, DropRun
<1>3. ASSUME Unregister(d) \/ MarkTask(d) PROVE pc'[d] = "idle"
  BY <1>3 DEF Unregister, MarkTask
<1>4. CASE UNCHANGED <<pc, op, subject>>
  BY <1>4
<1>5. \/ \E c \in Caller : CallerStep(c)
      \/ UNCHANGED <<pc, op, subject>>
  BY DEF Next, CreateTask, RemoveSource, RemoveRun, CleanUp, vars
<1>6. CASE CallerStep(d)
  BY <1>2, <1>3, <1>6 DEF CallerStep
<1>. QED  BY <1>1, <1>4, <1>5, <1>6

LEMMA NextAllowed == ASSUME IInv, StillAllowed, [Next]_vars PROVE StillAllowed'
<1>. SUFFICES ASSUME NEW d \in Caller, pc'[d] # "idle", op'[d] # "delete", subject'[d] \in Serial
              PROVE  /\ op'[d] \in DOMAIN AllowedFrom /\ subject'[d] \in tasks'
                     /\ status'[subject'[d]] \in AllowedFrom[op'[d]]
  BY DEF StillAllowed
<1>1. CASE UNCHANGED <<pc[d], op[d], subject[d]>>
  BY <1>1, TasksApart DEF StillAllowed
<1>2. CASE pc[d] # "idle" /\ UNCHANGED <<op[d], subject[d], tasks, status>>
  BY <1>2 DEF StillAllowed
<1>3. ASSUME NEW t \in Task, NEW o \in DOMAIN AllowedFrom, Begin(d, o, t)
      PROVE  /\ op'[d] \in DOMAIN AllowedFrom /\ subject'[d] \in tasks'
             /\ status'[subject'[d]] \in AllowedFrom[op'[d]]
  <2>1. op'[d] = o /\ subject'[d] = t
    BY <1>3 DEF Begin, Call, IInv, TypeOK
  <2>2. t \in tasks /\ status[t] \in AllowedFrom[o] /\ UNCHANGED <<tasks, status>>
    BY <1>3 DEF Begin
  <2>. QED  BY <2>1, <2>2
<1>4. ASSUME NEW t \in Task, BeginDelete(d, t) PROVE op'[d] = "delete"
  BY <1>4 DEF BeginDelete, Call, IInv, TypeOK
<1>. QED  BY <1>1, <1>2, <1>3, <1>4, CallGoesOn

LEMMA NextEnds == ASSUME IInv, RunEndsRunning, [Next]_vars PROVE RunEndsRunning'
<1>. SUFFICES ASSUME NEW d \in Caller, pc'[d] = "drop", subject'[d] \in Serial, runOf'[subject'[d]] # NoRun
              PROVE  subject'[d] \in tasks' /\ status'[subject'[d]] = "Running"
  BY DEF RunEndsRunning
<1>1. CASE UNCHANGED <<pc[d], op[d], subject[d]>>
  <2>1. pc[d] # "idle" /\ subject[d] \in Serial  BY <1>1
  <2>2. ASSUME NEW c \in Caller, pc[c] \in {"own", "drop"}, c # d PROVE subject[c] # subject[d]
    BY <2>1, <2>2 DEF IInv, CallsApart
  <2>3. ASSUME NEW c \in Caller, OwnRun(c) PROVE UNCHANGED runOf[subject[d]]
    <3>1. c # d /\ pc[c] = "own"  BY <1>1, <2>3 DEF OwnRun
    <3>. QED  BY <2>2, <2>3, <3>1 DEF OwnRun, IInv, TypeOK
  <2>4. ASSUME NEW c \in Caller, DropRun(c), c # d PROVE UNCHANGED runOf[subject[d]]
    <3>1. pc[c] = "drop"  BY <2>4 DEF DropRun
    <3>. QED  BY <2>2, <2>4, <3>1 DEF DropRun, TakeRun, IInv, TypeOK
  <2>5. ~DropRun(d)  BY <1>1 DEF DropRun, Goto, IInv, TypeOK
  <2>6. UNCHANGED runOf[subject[d]]
    <3>1. (\E c \in Caller : OwnRun(c) \/ DropRun(c)) \/ UNCHANGED runOf
      BY DEF Next, CallerStep, CreateTask, Begin, BeginDelete, RegisterRun, StartRun, Unregister, MarkTask,
           RemoveSource, RemoveRun, CleanUp, runVars, vars
    <3>. QED  BY <1>1, <2>3, <2>4, <2>5, <3>1
  <2>7. subject[d] \in tasks /\ status[subject[d]] = "Running"
    BY <1>1, <2>6 DEF RunEndsRunning
  <2>. QED  BY <1>1, <2>1, <2>7, TasksApart
<1>2. ASSUME NEW t \in Task, ~Busy(t) \/ t \notin Serial, subject'[d] = t, UNCHANGED <<tasks, status, runOf>>
      PROVE  subject'[d] \in tasks' /\ status'[subject'[d]] = "Running"
  BY <1>2 DEF IInv, StatusMatchesRun
<1>3. ASSUME NEW t \in Task, NEW o \in DOMAIN AllowedFrom, Begin(d, o, t)
      PROVE  subject'[d] \in tasks' /\ status'[subject'[d]] = "Running"
  <2>1. subject'[d] = t  BY <1>3 DEF Begin, Call, IInv, TypeOK
  <2>2. (~Busy(t) \/ t \notin Serial) /\ UNCHANGED <<tasks, status, runOf>>
    BY <1>3 DEF Begin, MayCall
  <2>. QED  BY <1>2, <2>1, <2>2
<1>4. ASSUME NEW t \in Task, BeginDelete(d, t)
      PROVE  subject'[d] \in tasks' /\ status'[subject'[d]] = "Running"
  <2>1. subject'[d] = t  BY <1>4 DEF BeginDelete, Call, IInv, TypeOK
  <2>2. (~Busy(t) \/ t \notin Serial) /\ UNCHANGED <<tasks, status, runOf>>
    BY <1>4 DEF BeginDelete, MayCall
  <2>. QED  BY <1>2, <2>1, <2>2
<1>. QED  BY <1>1, <1>3, <1>4, CallGoesOn

LEMMA LifeInv == Spec => [](IInv /\ RunsOwned /\ StillAllowed /\ RunEndsRunning)
<1>1. Init => RunsOwned /\ StillAllowed /\ RunEndsRunning
  BY DEF Init, RunsOwned, StillAllowed, RunEndsRunning, NoRun
<1>2. IInv /\ RunsOwned /\ StillAllowed /\ RunEndsRunning /\ [Next]_vars
        => RunsOwned' /\ StillAllowed' /\ RunEndsRunning'
  BY NextOwned, NextAllowed, NextEnds
<1>. QED  BY <1>1, <1>2, IndInv, PTL DEF Spec

\* The state of TaskLife that a state of the task manager stands for.
Lives == [t \in Serial |-> LifeOf(t)]
RunsOf == [t \in Serial |-> runOf[t]]

LEMMA LifeUnchanged ==
  ASSUME UNCHANGED <<created, tasks, status, runOf>>
  PROVE  UNCHANGED Life!vars
BY DEF Life!vars, LifeOf

\* The life of a task changes alone.
LEMMA Becomes ==
  ASSUME NEW t \in Serial, UNCHANGED runOf, \A u \in Serial \ {t} : LifeOf(u)' = LifeOf(u)
  PROVE  Life!Become(t, LifeOf(t)') /\ (LifeOf(t)' = LifeOf(t) => UNCHANGED Life!vars)
<1>1. Lives' = [Lives EXCEPT ![t] = LifeOf(t)']  BY DEF Lives
<1>2. RunsOf' = RunsOf  BY DEF RunsOf
<1>3. LifeOf(t)' = LifeOf(t) => Lives' = Lives  BY DEF Lives
<1>. QED  BY <1>1, <1>2, <1>3 DEF Life!Become, Life!vars, Lives, RunsOf

LEMMA StepInLife ==
  ASSUME IInv, RunsOwned, StillAllowed, RunEndsRunning, [Next]_vars
  PROVE  [Life!Next]_(Life!vars)
<1>. USE DEF IInv, TypeOK
<1>1. ASSUME NEW t \in Task, CreateTask(t) PROVE [Life!Next]_(Life!vars)
  <2>1. /\ LifeOf(t) = "none" /\ LifeOf(t)' = "Created" /\ UNCHANGED runOf
        /\ \A u \in Task \ {t} : LifeOf(u)' = LifeOf(u)
    BY <1>1 DEF CreateTask, LifeOf
  <2>2. CASE t \in Serial
    <3>1. Life!Become(t, "Created")  BY <2>1, <2>2, TaskAssumption, Becomes
    <3>2. Life!Create(t)  BY <2>1, <2>2, <3>1 DEF Life!Create
    <3>. QED  BY <2>2, <3>2 DEF Life!Next
  <2>3. CASE t \notin Serial
    <3>1. Lives' = Lives /\ RunsOf' = RunsOf  BY <2>1, <2>3, TaskAssumption DEF Lives, RunsOf
    <3>. QED  BY <3>1 DEF Life!vars, Lives, RunsOf
  <2>. QED  BY <2>2, <2>3
<1>2. ASSUME NEW c \in Caller, OwnRun(c) PROVE [Life!Next]_(Life!vars)
  <2>0. PICK t \in Task : t = subject[c]  OBVIOUS
  <2>1. /\ pc[c] = "own" /\ t = subject[c] /\ run[c] \in Run /\ runFor[run[c]] = t
        /\ runOf' = [runOf EXCEPT ![t] = run[c]] /\ UNCHANGED <<created, tasks, status>>
    BY <1>2, <2>0 DEF OwnRun, RunsNumbered
  <2>2. CASE t \in Serial
    <3>1. Starting(op[c]) /\ t \in tasks /\ status[t] \in AllowedFrom[op[c]] /\ runOf[t] = NoRun
      BY <2>1, <2>2 DEF OpsKnown, CallsKnow, CallKnows, StillAllowed, Starting
    <3>2. LifeOf(t) \in {"Created", "Paused"}  BY <3>1 DEF LifeOf, AllowedFrom, Starting
    <3>3. \A u \in Serial : runOf[u] # run[c]
      BY <2>1, <3>1, TaskAssumption DEF RunsOwned, Run, NoRun
    <3>4. Lives' = Lives /\ RunsOf' = [RunsOf EXCEPT ![t] = run[c]]
      BY <2>1, <2>2, TaskAssumption DEF Lives, RunsOf, LifeOf
    <3>5. PICK r \in Run : r = run[c]  BY <2>1
    <3>6. Life!Attach(t, r)
      BY <2>2, <3>1, <3>2, <3>3, <3>4, <3>5 DEF Life!Attach, Lives, RunsOf
    <3>. QED  BY <2>2, <3>6 DEF Life!Next
  <2>3. CASE t \notin Serial
    <3>1. Lives' = Lives /\ RunsOf' = RunsOf  BY <2>1, <2>3, TaskAssumption DEF Lives, RunsOf, LifeOf
    <3>. QED  BY <3>1 DEF Life!vars, Lives, RunsOf
  <2>. QED  BY <2>2, <2>3
<1>3. ASSUME NEW c \in Caller, DropRun(c) PROVE [Life!Next]_(Life!vars)
  <2>0. PICK t \in Task : t = subject[c]  OBVIOUS
  <2>1. /\ pc[c] = "drop" /\ t = subject[c]
        /\ runOf' = [runOf EXCEPT ![t] = NoRun] /\ UNCHANGED <<created, tasks, status>>
    BY <1>3, <2>0 DEF DropRun, TakeRun
  <2>2. CASE t \in Serial /\ runOf[t] # NoRun
    <3>1. LifeOf(t) = "Running"  BY <2>1, <2>2 DEF RunEndsRunning, LifeOf
    <3>2. Lives' = Lives /\ RunsOf' = [RunsOf EXCEPT ![t] = NoRun]
      BY <2>1, <2>2, TaskAssumption DEF Lives, RunsOf, LifeOf
    <3>3. Life!Detach(t)
      BY <2>2, <3>1, <3>2 DEF Life!Detach, Lives, RunsOf
    <3>. QED  BY <2>2, <3>3 DEF Life!Next
  <2>3. CASE t \notin Serial \/ runOf[t] = NoRun
    <3>1. Lives' = Lives /\ RunsOf' = RunsOf  BY <2>1, <2>3, TaskAssumption DEF Lives, RunsOf, LifeOf
    <3>. QED  BY <3>1 DEF Life!vars, Lives, RunsOf
  <2>. QED  BY <2>2, <2>3
<1>4. ASSUME NEW c \in Caller, Unregister(c) PROVE [Life!Next]_(Life!vars)
  <2>0. PICK t \in Task : t = subject[c]  OBVIOUS
  <2>1. /\ pc[c] = "unregister" /\ t = subject[c] /\ tasks' = tasks \ {t} /\ UNCHANGED <<created, status, runOf>>
    BY <1>4, <2>0 DEF Unregister
  <2>2. /\ LifeOf(t)' = IF t \in created THEN "gone" ELSE "none"
        /\ \A u \in Task \ {t} : LifeOf(u)' = LifeOf(u)
    BY <2>1 DEF LifeOf
  <2>3. CASE t \in Serial
    <3>1. runOf[t] = NoRun  BY <2>1, <2>3 DEF CallsKnow, CallKnows
    <3>2. Life!Become(t, LifeOf(t)') /\ (LifeOf(t)' = LifeOf(t) => UNCHANGED Life!vars)
      BY <2>1, <2>2, <2>3, TaskAssumption, Becomes
    <3>3. LifeOf(t)' = LifeOf(t) \/ (LifeOf(t)' = "gone" /\ LifeOf(t) # "none")
      BY <2>2 DEF LifeOf, Status
    <3>4. LifeOf(t)' = "gone" /\ LifeOf(t) # "none" => Life!Delete(t)
      BY <2>3, <3>1, <3>2 DEF Life!Delete
    <3>. QED  BY <2>3, <3>2, <3>3, <3>4 DEF Life!Next
  <2>4. CASE t \notin Serial
    <3>1. Lives' = Lives /\ RunsOf' = RunsOf  BY <2>1, <2>2, <2>4, TaskAssumption DEF Lives, RunsOf
    <3>. QED  BY <3>1 DEF Life!vars, Lives, RunsOf
  <2>. QED  BY <2>3, <2>4
<1>5. ASSUME NEW c \in Caller, MarkTask(c) PROVE [Life!Next]_(Life!vars)
  <2>0. PICK t \in Task : t = subject[c]  OBVIOUS
  <2>1. /\ pc[c] = "mark" /\ t = subject[c] /\ UNCHANGED <<created, tasks, runOf>>
        /\ t \in tasks => status' = [status EXCEPT ![t] = Outcome[op[c]]]
        /\ t \notin tasks => UNCHANGED status
    BY <1>5, <2>0 DEF MarkTask
  <2>2. \A u \in Task \ {t} : LifeOf(u)' = LifeOf(u)
    BY <2>1 DEF LifeOf
  <2>3. CASE t \in Serial
    <3>1. /\ t \in tasks /\ op[c] \in {"start", "resume", "pause", "stop"}
          /\ Starting(op[c]) <=> runOf[t] # NoRun
      BY <2>1, <2>3 DEF OpsKnown, CallsKnow, CallKnows, Starting, Ending
    <3>2. status[t] \in AllowedFrom[op[c]]
      BY <2>1, <2>3, <3>1 DEF StillAllowed
    <3>3. LifeOf(t) = status[t] /\ LifeOf(t)' = Outcome[op[c]]
      BY <2>1, <3>1 DEF LifeOf
    <3>4. Life!Become(t, Outcome[op[c]])
      BY <2>1, <2>2, <2>3, <3>3, TaskAssumption, Becomes
    <3>5. CASE op[c] \in {"start", "resume"}
      <4>1. LifeOf(t) \in {"Created", "Paused"} /\ Outcome[op[c]] = "Running" /\ runOf[t] # NoRun
        BY <3>1, <3>2, <3>3, <3>5 DEF AllowedFrom, Outcome, Starting
      <4>2. Life!Go(t)  BY <2>3, <3>4, <4>1 DEF Life!Go
      <4>. QED  BY <2>3, <4>2 DEF Life!Next
    <3>6. CASE op[c] = "pause"
      <4>1. LifeOf(t) = "Running" /\ Outcome[op[c]] = "Paused" /\ runOf[t] = NoRun
        BY <3>1, <3>2, <3>3, <3>6 DEF AllowedFrom, Outcome, Starting
      <4>2. Life!Pause(t)  BY <2>3, <3>4, <4>1 DEF Life!Pause
      <4>. QED  BY <2>3, <4>2 DEF Life!Next
    <3>7. CASE op[c] = "stop"
      <4>1. LifeOf(t) \in {"Running", "Paused"} /\ Outcome[op[c]] = "Stopped" /\ runOf[t] = NoRun
        BY <3>1, <3>2, <3>3, <3>7 DEF AllowedFrom, Outcome, Starting
      <4>2. Life!Stop(t)  BY <2>3, <3>4, <4>1 DEF Life!Stop
      <4>. QED  BY <2>3, <4>2 DEF Life!Next
    <3>. QED  BY <3>1, <3>5, <3>6, <3>7
  <2>4. CASE t \notin Serial
    <3>1. Lives' = Lives /\ RunsOf' = RunsOf  BY <2>1, <2>2, <2>4, TaskAssumption DEF Lives, RunsOf
    <3>. QED  BY <3>1 DEF Life!vars, Lives, RunsOf
  <2>. QED  BY <2>3, <2>4
<1>6. CASE UNCHANGED <<created, tasks, status, runOf>>
  BY <1>6, LifeUnchanged
<1>. QED
  BY <1>1, <1>2, <1>3, <1>4, <1>5, <1>6
     DEF Next, CallerStep, Begin, BeginDelete, RegisterRun, StartRun, RemoveSource, RemoveRun, CleanUp,
         runVars, vars

\* Whatever calls on other tasks, failures and removals of streams and runs come between the
\* steps of its calls, a task whose calls do not overlap lives the life of TaskLife.
THEOREM TasksLiveOneLife == Spec => TasksFollowLife
<1>1. Init => Life!Init
  BY TaskAssumption DEF Init, Life!Init, LifeOf
<1>2. IInv /\ RunsOwned /\ StillAllowed /\ RunEndsRunning /\ [Next]_vars => [Life!Next]_(Life!vars)
  BY StepInLife
<1>. QED  BY <1>1, <1>2, LifeInv, PTL DEF Spec, TasksFollowLife, Life!Spec
=============================================================================
