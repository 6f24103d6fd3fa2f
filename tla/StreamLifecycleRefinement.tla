---------------------- MODULE StreamLifecycleRefinement ----------------------
(***************************************************************************)
(* In standalone mode the manager implements PipelineSlot: every step      *)
(* registers a stream, begins a run in an empty slot, ends the run in      *)
(* progress, or leaves the slots alone.                                    *)
(***************************************************************************)
EXTENDS StreamLifecycleProofs

\* Only pipelines that exist are cancelled: a new token is never cancelled already.
CancelledInv ==
  /\ \A p \in cancelled : p <= created
  /\ \A c \in Caller : pc[c] = "cancel" => pipe[c] <= created

SlotInv == StandaloneInv /\ OneLivePipeline /\ CancelledInv

LEMMA NextCancelled == ASSUME StandaloneInv, CancelledInv, [Next]_vars PROVE CancelledInv'
<1>. USE DEF StandaloneInv, SupervisionInv, TypeOK, HandleInv, CancelledInv,
         Call, Goto, Return, MayCall,
         Watch, CancelToken, CountActive, Reported,
         MarkError, MarkRecovered,
         pipeVars, watchVars, healthVars, callVars, mainVars, NoPipe
<1>1. ASSUME NEW c \in Caller, NEW s \in Stream, AddStream(c, s) \/ StartPipeline(c, s)
      PROVE  CancelledInv'
  BY <1>1 DEF AddStream, StartPipeline
<1>2. ASSUME NEW c \in Caller, LookUp(c) \/ Insert(c) \/ Count(c) \/ Cancel(c) \/ Notify(c) \/ Unregister(c)
      PROVE  CancelledInv'
  BY <1>2 DEF LookUp, Insert, Count, Cancel, Notify, Unregister
<1>3. ASSUME NEW c \in Caller, Spawn(c) PROVE CancelledInv'
  <2>1. PICK q \in Pipe : NewPipeline(subject[c], q) /\ pipe' = [pipe EXCEPT ![c] = q]
    BY <1>3 DEF Spawn
  <2>2. /\ q = created + 1 /\ created' = q
        /\ pc' = [pc EXCEPT ![c] = "insert"] /\ UNCHANGED cancelled
    BY <1>3, <2>1 DEF Spawn, NewPipeline
  <2>3. \A n \in Pipe \cup {NoPipe} : n <= created => n <= created'
    BY <2>2, BoundAssumption DEF Pipe
  <2>4. \A d \in Caller : pc'[d] = "cancel" => pc[d] = "cancel" /\ pipe'[d] = pipe[d]
    BY <2>1, <2>2
  <2>. QED  BY <2>2, <2>3, <2>4
<1>4. ASSUME NEW c \in Caller, NEW s \in Stream, NEW o \in Kinds, TakeHandle(c, o, s)
      PROVE  CancelledInv'
  BY <1>4 DEF TakeHandle
<1>5. ASSUME NEW p \in Pipe, Restart(p) PROVE CancelledInv'
  <2>1. /\ created' = created + 1
        /\ UNCHANGED <<cancelled, pc, pipe>>
    BY <1>5 DEF Restart, NewPipeline
  <2>2. \A n \in Pipe \cup {NoPipe} : n <= created => n <= created'
    BY <2>1, BoundAssumption DEF Pipe
  <2>. QED  BY <2>1, <2>2
<1>6. ASSUME NEW p \in Pipe, ReadExit(p) \/ WakeUp(p) \/ Reinsert(p) \/ Recovered(p) \/ ThreadStep(p)
      PROVE  CancelledInv'
  BY <1>6 DEF ReadExit, WakeUp, Reinsert, Recovered, ThreadStep, ThreadStart, ThreadExit
<1>7. CASE MainStep
  BY <1>7 DEF MainStep, BeginShutdown, DrainCancel, DrainNotify, DrainJoin, DrainEnd
<1>8. CASE UNCHANGED vars
  BY <1>8 DEF vars
<1>. QED
  BY <1>1, <1>2, <1>3, <1>4, <1>5, <1>6, <1>7, <1>8 DEF Next, CallerStep, TaskStep

(***************************************************************************)
(* What a step does to the slots.                                          *)
(***************************************************************************)
LEMMA CurrentRunIs ==
  ASSUME OneLivePipeline, NEW p \in Pipe, Live(p)
  PROVE  CurrentRun(owner[p]) = p
<1>1. \A r \in LivePipes(owner[p]) : r = p  BY DEF LivePipes, OneLivePipeline
<1>2. p \in LivePipes(owner[p])  BY DEF LivePipes
<1>3. LivePipes(owner[p]) = {p}  BY <1>1, <1>2
<1>. QED  BY <1>3 DEF CurrentRun, AnyOf

LEMMA SlotsUntouched ==
  ASSUME UNCHANGED <<fresh, created, owner>>, \A p \in Pipe : Live(p)' <=> Live(p)
  PROVE  UNCHANGED Slot!vars
<1>1. \A s : LivePipes(s)' = LivePipes(s)  BY DEF LivePipes
<1>2. \A s : CurrentRun(s)' = CurrentRun(s)  BY <1>1 DEF CurrentRun
<1>. QED  BY <1>2 DEF Slot!vars

LEMMA RunEnds ==
  ASSUME TypeOK, OneLivePipeline, UNCHANGED <<fresh, created, owner>>,
         NEW p \in Pipe, Live(p), ~Live(p)', \A r \in Pipe \ {p} : Live(r)' <=> Live(r)
  PROVE  Slot!Next
<1>1. owner[p] \in Stream /\ p # NoPipe  BY BoundAssumption DEF TypeOK, Pipe, NoPipe
<1>2. CurrentRun(owner[p]) = p  BY CurrentRunIs
<1>3. LivePipes(owner[p])' = {}  BY DEF LivePipes, OneLivePipeline
<1>4. \A s \in Stream : s # owner[p] => LivePipes(s)' = LivePipes(s)  BY DEF LivePipes
<1>5. CurrentRun(owner[p])' = NoPipe  BY <1>3 DEF CurrentRun, AnyOf, NoPipe
<1>6. \A s \in Stream : s # owner[p] => CurrentRun(s)' = CurrentRun(s)  BY <1>4 DEF CurrentRun
<1>7. Slot!End(owner[p])  BY <1>1, <1>2, <1>5, <1>6 DEF Slot!End
<1>. QED  BY <1>1, <1>7 DEF Slot!Next

LEMMA RunBegins ==
  ASSUME TypeOK, Allocated, OneLivePipeline', UNCHANGED <<fresh, cancelled>>,
         NEW s \in Stream \ fresh, NEW q \in Pipe, NewPipeline(s, q), q \notin cancelled
  PROVE  Slot!Next
<1>1. /\ q = created + 1 /\ created' = q
      /\ owner' = [owner EXCEPT ![q] = s] /\ thread' = [thread EXCEPT ![q] = "starting"]
  BY DEF NewPipeline
<1>2. Live(q)' /\ owner'[q] = s  BY <1>1 DEF TypeOK, Live
<1>3. \A p \in Pipe \ {q} : (Live(p)' <=> Live(p)) /\ owner'[p] = owner[p]
  BY <1>1 DEF TypeOK, Live
<1>4. q > created /\ thread[q] = "none"  BY <1>1, BoundAssumption DEF TypeOK, Allocated, Pipe
<1>5. ~Live(q)  BY <1>4 DEF Live
<1>6. LivePipes(s) = {}
  <2>1. ASSUME NEW r \in Pipe, Live(r), owner[r] = s PROVE FALSE
    BY <1>2, <1>3, <1>5, <2>1 DEF OneLivePipeline
  <2>. QED  BY <2>1 DEF LivePipes
<1>7. LivePipes(s)' = {q}
  <2>1. \A r \in LivePipes(s)' : r = q  BY <1>2 DEF OneLivePipeline, LivePipes
  <2>2. q \in LivePipes(s)'  BY <1>2 DEF LivePipes
  <2>. QED  BY <2>1, <2>2
<1>8. ASSUME NEW t \in Stream, t # s PROVE LivePipes(t)' = LivePipes(t)
  BY <1>2, <1>3, <1>5, <1>8 DEF LivePipes
<1>9. CurrentRun(s) = NoPipe /\ CurrentRun(s)' = q
  BY <1>6, <1>7 DEF CurrentRun, AnyOf
<1>10. \A t \in Stream : t # s => CurrentRun(t)' = CurrentRun(t)  BY <1>8 DEF CurrentRun
<1>11. q \notin 1..created /\ 1..created' = 1..created \cup {q}
  BY <1>1, BoundAssumption DEF TypeOK
<1>12. Slot!Begin(s, q)  BY <1>9, <1>10, <1>11 DEF Slot!Begin
<1>. QED  BY <1>12 DEF Slot!Next

LEMMA NextSlot ==
  ASSUME Standalone, SlotInv, OneLivePipeline', [Next]_vars
  PROVE  [Slot!Next]_(Slot!vars)
<1>. USE DEF SlotInv, StandaloneInv, SupervisionInv, Standalone
<1> DEFINE Same == UNCHANGED <<fresh, created, owner>> /\ \A p \in Pipe : Live(p)' <=> Live(p)
<1>1. ASSUME NEW c \in Caller, NEW s \in Stream, AddStream(c, s) PROVE Slot!Next
  <2>1. /\ s \in fresh /\ fresh' = fresh \ {s}
        /\ UNCHANGED <<created, owner, thread, cancelled>>
    BY <1>1 DEF AddStream, pipeVars
  <2>2. \A t : LivePipes(t)' = LivePipes(t)  BY <2>1 DEF LivePipes, Live
  <2>3. \A t : CurrentRun(t)' = CurrentRun(t)  BY <2>2 DEF CurrentRun
  <2>4. Slot!Register(s)  BY <2>1, <2>3 DEF Slot!Register
  <2>. QED  BY <2>4 DEF Slot!Next
<1>2. ASSUME NEW c \in Caller, NEW s \in Stream, StartPipeline(c, s) PROVE FALSE
  BY <1>2 DEF StartPipeline, MayCall
<1>3. ASSUME NEW c \in Caller, LookUp(c) \/ Insert(c) \/ Count(c) \/ Notify(c) \/ Unregister(c) PROVE Same
  BY <1>3 DEF LookUp, Insert, Count, Notify, Unregister, pipeVars, Live
<1>4. ASSUME NEW c \in Caller, Spawn(c) PROVE Slot!Next
  <2>1. PICK q \in Pipe : NewPipeline(subject[c], q)  BY <1>4 DEF Spawn
  <2>2. subject[c] \in Stream \ fresh /\ UNCHANGED <<fresh, cancelled>>
    BY <1>4 DEF Spawn, TypeOK, TokenInv, Adding
  <2>3. q \notin cancelled  BY <2>1, BoundAssumption DEF NewPipeline, CancelledInv, TypeOK
  <2>. QED  BY <2>1, <2>2, <2>3, RunBegins
<1>5. ASSUME NEW c \in Caller, NEW s \in Stream, NEW o \in Kinds, TakeHandle(c, o, s) PROVE Same
  BY <1>5 DEF TakeHandle, pipeVars, Live
<1>6. ASSUME NEW c \in Caller, Cancel(c) PROVE Slot!Next \/ Same
  <2>1. PICK p \in Pipe : /\ p = pipe[c] /\ cancelled' = cancelled \cup {p}
                          /\ UNCHANGED <<fresh, created, owner, thread>>
    BY <1>6 DEF Cancel, CancelToken, CallsOK, TypeOK, NoPipe, pipeVars
  <2>2. \A r \in Pipe \ {p} : Live(r)' <=> Live(r)  BY <2>1 DEF Live
  <2>3. ~Live(p)'  BY <2>1 DEF Live
  <2>4. CASE Live(p)  BY <2>1, <2>2, <2>3, <2>4, RunEnds
  <2>5. CASE ~Live(p)  BY <2>1, <2>2, <2>3, <2>5
  <2>. QED  BY <2>4, <2>5
<1>7. ASSUME NEW p \in Pipe, ReadExit(p) \/ WakeUp(p) \/ Reinsert(p) \/ Recovered(p) PROVE Same
  BY <1>7 DEF ReadExit, WakeUp, Reinsert, Recovered, pipeVars, Live
<1>8. ASSUME NEW p \in Pipe, Restart(p) PROVE Slot!Next
  <2>1. PICK q \in Pipe : NewPipeline(owner[p], q)  BY <1>8 DEF Restart
  <2>2. sup[p] = "restart" /\ UNCHANGED <<fresh, cancelled>>  BY <1>8 DEF Restart
  <2>3. p <= created  BY <2>2, BoundAssumption DEF Allocated, TypeOK, Pipe
  <2>4. owner[p] \in Stream \ fresh  BY <2>3 DEF TokenInv, TypeOK
  <2>5. q \notin cancelled  BY <2>1, BoundAssumption DEF NewPipeline, CancelledInv, TypeOK
  <2>. QED  BY <2>1, <2>2, <2>4, <2>5, RunBegins
<1>9. ASSUME NEW p \in Pipe, ThreadStart(p) PROVE Same
  BY <1>9 DEF ThreadStart, TypeOK, Live
<1>10. ASSUME NEW p \in Pipe, NEW r \in {"eof", "error"}, ThreadExit(p, r)
       PROVE  Slot!Next \/ Same
  <2>1. /\ thread' = [thread EXCEPT ![p] = "exited"]
        /\ UNCHANGED <<fresh, created, owner, cancelled>>
    BY <1>10 DEF ThreadExit
  <2>2. \A t \in Pipe \ {p} : Live(t)' <=> Live(t)  BY <2>1 DEF Live, TypeOK
  <2>3. ~Live(p)'  BY <2>1 DEF Live, TypeOK
  <2>4. CASE Live(p)  BY <2>1, <2>2, <2>3, <2>4, RunEnds
  <2>5. CASE ~Live(p)  BY <2>1, <2>2, <2>3, <2>5
  <2>. QED  BY <2>4, <2>5
<1>11. ASSUME NEW s \in Stream, DrainCancel(s) PROVE Slot!Next \/ Same
  <2>1. PICK p \in Pipe : /\ p = handle[s] /\ cancelled' = cancelled \cup {p}
                          /\ UNCHANGED <<fresh, created, owner, thread>>
    BY <1>11 DEF DrainCancel, CancelToken, TypeOK, NoPipe, pipeVars
  <2>2. \A r \in Pipe \ {p} : Live(r)' <=> Live(r)  BY <2>1 DEF Live
  <2>3. ~Live(p)'  BY <2>1 DEF Live
  <2>4. CASE Live(p)  BY <2>1, <2>2, <2>3, <2>4, RunEnds
  <2>5. CASE ~Live(p)  BY <2>1, <2>2, <2>3, <2>5
  <2>. QED  BY <2>4, <2>5
<1>12. CASE BeginShutdown \/ DrainNotify \/ DrainJoin \/ DrainEnd
  <2>1. Same  BY <1>12 DEF BeginShutdown, DrainNotify, DrainJoin, DrainEnd, pipeVars, Live
  <2>. QED  BY <2>1, SlotsUntouched
<1>13. CASE UNCHANGED vars
  <2>1. Same  BY <1>13 DEF vars, Live
  <2>. QED  BY <2>1, SlotsUntouched
<1>14. Same => UNCHANGED Slot!vars  BY SlotsUntouched
<1>. QED
  BY <1>1, <1>2, <1>3, <1>4, <1>5, <1>6, <1>7, <1>8, <1>9, <1>10, <1>11, <1>12, <1>13, <1>14
     DEF Next, CallerStep, TaskStep, ThreadStep, MainStep

\* Standalone mode: StreamLifecycle implements PipelineSlot.
THEOREM ManagerImplementsSlots == ASSUME Standalone PROVE Spec => RunsDoNotOverlap
<1>1. Init => Slot!Init
  <2>1. ASSUME Init PROVE \A s : LivePipes(s) = {}
    BY <2>1 DEF Init, LivePipes, Live
  <2>2. ASSUME Init PROVE \A s : CurrentRun(s) = NoPipe
    BY <2>1, <2>2 DEF CurrentRun, AnyOf
  <2>3. ASSUME Init PROVE Stream \ fresh = Restored /\ 1..created = {}
    BY <2>3, StreamAssumption DEF Init
  <2>. QED  BY <2>2, <2>3 DEF Slot!Init
<1>2. Init => CancelledInv  BY DEF Init, CancelledInv
<1>3. StandaloneInv /\ CancelledInv /\ [Next]_vars => CancelledInv'  BY NextCancelled
<1>4. StandaloneInv => OneLivePipeline  BY TokenIsUnique DEF StandaloneInv
<1>5. SlotInv /\ OneLivePipeline' /\ [Next]_vars => [Slot!Next]_(Slot!vars)  BY NextSlot
<1>6. SlotInv <=> StandaloneInv /\ OneLivePipeline /\ CancelledInv  BY DEF SlotInv
<1>. QED
  BY <1>1, <1>2, <1>3, <1>4, <1>5, <1>6, StandaloneInvariant, PTL DEF Spec, Slot!Spec, RunsDoNotOverlap
=============================================================================
