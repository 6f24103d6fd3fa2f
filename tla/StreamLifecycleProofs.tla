------------------------ MODULE StreamLifecycleProofs ------------------------
(***************************************************************************)
(* Proofs about StreamLifecycle, for any streams, callers and bounds.      *)
(***************************************************************************)
EXTENDS StreamLifecycle, FiniteSetTheorems, TLAPS

(***************************************************************************)
(* Supervision is never lost (every mode).  The exit reason a task reads   *)
(* is always that of a pipeline that is no longer live, because a caller   *)
(* cancels before it sends; and a pipeline gets its task before anybody    *)
(* can cancel it.                                                          *)
(***************************************************************************)
\* Pipelines beyond the counter do not exist.
Allocated == \A p \in Pipe : p > created => thread[p] = "none" /\ sup[p] = "none"

\* What callers and main hold.
CallsOK ==
  /\ \A c \in Caller :
       /\ pc[c] = "insert" => pipe[c] \in Pipe /\ pipe[c] <= created
       /\ pc[c] \in {"cancel", "notify"} => pipe[c] \in Pipe
       /\ pc[c] = "notify" => pipe[c] \in cancelled
  /\ main \in {"notify", "join"} => joining \in Pipe
  /\ main = "notify" => joining \in cancelled

\* An unread exit reason belongs to a pipeline that is no longer live.
ReportsEnd == \A p \in unseen : thread[p] = "exited" \/ p \in cancelled

SupervisionInv ==
  TypeOK /\ Allocated /\ CallsOK /\ ReportsEnd /\ LivePipelineSupervised

LEMMA SomeStreamType == SomeStream \in Stream
BY StreamAssumption DEF SomeStream

LEMMA BackoffType == \A b \in 1..MaxBackoff : NextBackoff(b) \in 1..MaxBackoff
BY BoundAssumption DEF NextBackoff

LEMMA NewPipelineType ==
  ASSUME TypeOK, NEW s \in Stream, NEW q \in Pipe, NewPipeline(s, q)
  PROVE  /\ created' \in 0..MaxPipeline
         /\ owner' \in [Pipe -> Stream]
         /\ thread' \in [Pipe -> {"none", "starting", "running", "exited"}]
<1>1. created' \in 0..MaxPipeline
  BY BoundAssumption DEF TypeOK, NewPipeline, Pipe
<1>. QED  BY <1>1 DEF TypeOK, NewPipeline

LEMMA InitType == Init => TypeOK
<1>1. 1 \in 1..MaxBackoff  BY BoundAssumption
<1>. QED  BY <1>1, SomeStreamType, StreamAssumption, BoundAssumption DEF Init, TypeOK, Pipe, NoPipe

LEMMA NextType == ASSUME TypeOK, CallsOK, [Next]_vars PROVE TypeOK'
<1>. USE SomeStreamType
     DEF TypeOK, CallsOK, Call, Goto, Return, MayCall, Send, NewPipeline,
         Watch, CancelToken, CountActive, Reported,
         MarkError, MarkRecovered,
         pipeVars, watchVars, healthVars, callVars, mainVars, NoPipe
<1>1. ASSUME NEW c \in Caller, NEW s \in Stream, AddStream(c, s) PROVE TypeOK'
  BY <1>1 DEF AddStream
<1>2. ASSUME NEW c \in Caller, NEW s \in Stream, StartPipeline(c, s) PROVE TypeOK'
  BY <1>2 DEF StartPipeline
<1>3. ASSUME NEW c \in Caller, LookUp(c) PROVE TypeOK'
  BY <1>3 DEF LookUp
<1>4. ASSUME NEW c \in Caller, Count(c) PROVE TypeOK'
  BY <1>4 DEF Count
<1>5. ASSUME NEW p \in Pipe, Recovered(p) PROVE TypeOK'
  BY <1>5 DEF Recovered
<1>6. ASSUME NEW c \in Caller, Spawn(c) PROVE TypeOK'
  <2>1. PICK q \in Pipe : NewPipeline(subject[c], q) /\ pipe' = [pipe EXCEPT ![c] = q]
    BY <1>6 DEF Spawn
  <2>. QED  BY <1>6, <2>1, NewPipelineType DEF Spawn
<1>7. ASSUME NEW c \in Caller, Insert(c) PROVE TypeOK'
  BY <1>7 DEF Insert
<1>8. ASSUME NEW c \in Caller, NEW s \in Stream, NEW o \in Kinds, TakeHandle(c, o, s) PROVE TypeOK'
  BY <1>8 DEF TakeHandle
<1>9. ASSUME NEW c \in Caller, Cancel(c) PROVE TypeOK'
  BY <1>9 DEF Cancel
<1>10. ASSUME NEW c \in Caller, Notify(c) PROVE TypeOK'
  BY <1>10 DEF Notify
<1>11. ASSUME NEW c \in Caller, Unregister(c) PROVE TypeOK'
  BY <1>11 DEF Unregister
<1>12. ASSUME NEW p \in Pipe, ReadExit(p) PROVE TypeOK'
  BY <1>12 DEF ReadExit
<1>13. ASSUME NEW p \in Pipe, WakeUp(p) PROVE TypeOK'
  BY <1>13, BackoffType DEF WakeUp
<1>14. ASSUME NEW p \in Pipe, Restart(p) PROVE TypeOK'
  <2>1. PICK q \in Pipe : /\ NewPipeline(owner[p], q)
                          /\ sup' = [sup EXCEPT ![p] = "over", ![q] = "insert"]
                          /\ backoff' = [backoff EXCEPT ![q] = backoff[p]]
    BY <1>14 DEF Restart
  <2>. QED  BY <1>14, <2>1, NewPipelineType DEF Restart
<1>15. ASSUME NEW p \in Pipe, Reinsert(p) PROVE TypeOK'
  BY <1>15 DEF Reinsert
<1>16. ASSUME NEW p \in Pipe, ThreadStep(p) PROVE TypeOK'
  BY <1>16 DEF ThreadStep, ThreadStart, ThreadExit
<1>17. CASE MainStep
  BY <1>17 DEF MainStep, BeginShutdown, DrainCancel, DrainNotify, DrainJoin, DrainEnd
<1>18. CASE UNCHANGED vars
  BY <1>18 DEF vars
<1>. QED
  BY <1>1, <1>2, <1>3, <1>4, <1>5, <1>6, <1>7, <1>8, <1>9, <1>10, <1>11, <1>12, <1>13, <1>14, <1>15,
     <1>16, <1>17, <1>18 DEF Next, CallerStep, TaskStep

(***************************************************************************)
(* Each action preserves the four non-typing conjuncts.                    *)
(***************************************************************************)
LEMMA NextSupervision ==
  ASSUME SupervisionInv, [Next]_vars
  PROVE  (Allocated /\ CallsOK /\ ReportsEnd /\ LivePipelineSupervised)'
<1> DEFINE Goal == (Allocated /\ CallsOK /\ ReportsEnd /\ LivePipelineSupervised)'
<1>. USE DEF SupervisionInv, TypeOK, Allocated, CallsOK, ReportsEnd,
         LivePipelineSupervised, Live, BeingInserted, Call, Goto, Return, MayCall, Send,
         Watch, CancelToken, CountActive, Reported,
         MarkError, MarkRecovered,
         pipeVars, watchVars, healthVars, callVars, mainVars, NoPipe
<1>1. ASSUME NEW c \in Caller, NEW s \in Stream, AddStream(c, s) PROVE Goal
  BY <1>1 DEF AddStream
<1>2. ASSUME NEW c \in Caller, NEW s \in Stream, StartPipeline(c, s) PROVE Goal
  BY <1>2 DEF StartPipeline
<1>3. ASSUME NEW c \in Caller, LookUp(c) PROVE Goal
  BY <1>3 DEF LookUp
<1>4. ASSUME NEW c \in Caller, Count(c) PROVE Goal
  BY <1>4 DEF Count
<1>5. ASSUME NEW p \in Pipe, Recovered(p) PROVE Goal
  BY <1>5 DEF Recovered
<1>6. ASSUME NEW c \in Caller, Spawn(c) PROVE Goal
  <2>1. PICK q \in Pipe : NewPipeline(subject[c], q) /\ pipe' = [pipe EXCEPT ![c] = q]
    BY <1>6 DEF Spawn
  <2>2. q = created + 1 /\ created' = q  BY <2>1 DEF NewPipeline
  <2>3. thread' = [thread EXCEPT ![q] = "starting"] /\ sup[q] = "none"
    BY <2>1, <2>2 DEF NewPipeline, Pipe
  <2>4. pc' = [pc EXCEPT ![c] = "insert"] /\ UNCHANGED <<cancelled, sup, unseen, main, joining>>
    BY <1>6 DEF Spawn
  <2>5. Allocated'  BY <2>2, <2>3, <2>4 DEF Pipe
  <2>6. CallsOK'  BY <2>1, <2>2, <2>4 DEF Pipe
  <2>7. ReportsEnd'  BY <2>2, <2>3, <2>4 DEF Pipe
  <2>8. ASSUME NEW p \in Pipe, Live(p)' PROVE (sup[p] \in {"insert", "online", "wait"} \/ BeingInserted(p))'
    <3>1. CASE p = q  BY <2>1, <2>4, <3>1
    <3>2. CASE p # q
      <4>1. Live(p)  BY <2>3, <2>4, <2>8, <3>2
      <4>2. ASSUME NEW d \in Caller, pc[d] = "insert", pipe[d] = p PROVE BeingInserted(p)'
        <5>1. d # c  BY <1>6, <4>2 DEF Spawn
        <5>. QED  BY <2>1, <2>4, <4>2, <5>1
      <4>. QED  BY <2>4, <4>1, <4>2
    <3>. QED  BY <3>1, <3>2
  <2>. QED  BY <2>5, <2>6, <2>7, <2>8
<1>7. ASSUME NEW c \in Caller, Insert(c) PROVE Goal
  <2>1. pipe[c] \in Pipe /\ pipe[c] <= created  BY <1>7 DEF Insert
  <2>9. /\ pc' = [pc EXCEPT ![c] = "count"]
        /\ pipe' = pipe
        /\ sup' = [sup EXCEPT ![pipe[c]] = "wait"]
        /\ UNCHANGED <<created, thread, cancelled, unseen, main, joining>>
    BY <1>7 DEF Insert
  <2>2. ASSUME NEW p \in Pipe, p > created PROVE thread'[p] = "none" /\ sup'[p] = "none"
    <3>1. p # pipe[c]  BY <2>1, <2>2, BoundAssumption DEF Pipe
    <3>. QED  BY <2>9, <2>2, <3>1
  <2>3. CallsOK'
    <3>1. ASSUME NEW d \in Caller
          PROVE  /\ pc'[d] = "insert" => pipe'[d] \in Pipe /\ pipe'[d] <= created'
                 /\ pc'[d] \in {"cancel", "notify"} => pipe'[d] \in Pipe
                 /\ pc'[d] = "notify" => pipe'[d] \in cancelled'
      BY <2>9
    <3>. QED  BY <2>9, <3>1
  <2>10. ReportsEnd'  BY <2>9
  <2>4. ASSUME NEW p \in Pipe, Live(p)' PROVE (sup[p] \in {"insert", "online", "wait"} \/ BeingInserted(p))'
    <3>1. Live(p)  BY <1>7, <2>4 DEF Insert
    <3>2. CASE p = pipe[c]  BY <1>7, <3>2 DEF Insert
    <3>3. CASE p # pipe[c]
      <4>1. CASE sup[p] \in {"insert", "online", "wait"}  BY <2>1, <2>9, <3>3, <4>1
      <4>2. ASSUME NEW d \in Caller, pc[d] = "insert", pipe[d] = p PROVE BeingInserted(p)'
        <5>1. d # c  BY <3>3, <4>2
        <5>. QED  BY <2>9, <4>2, <5>1
      <4>. QED  BY <3>1, <4>1, <4>2
    <3>. QED  BY <3>2, <3>3
  <2>. QED  BY <2>9, <2>2, <2>3, <2>10, <2>4
<1>8. ASSUME NEW c \in Caller, NEW s \in Stream, NEW o \in Kinds, TakeHandle(c, o, s) PROVE Goal
  BY <1>8 DEF TakeHandle
<1>9. ASSUME NEW c \in Caller, Cancel(c) PROVE Goal
  BY <1>9 DEF Cancel
<1>10. ASSUME NEW c \in Caller, Notify(c) PROVE Goal
  BY <1>10 DEF Notify
<1>11. ASSUME NEW c \in Caller, Unregister(c) PROVE Goal
  BY <1>11 DEF Unregister
<1>12. ASSUME NEW p \in Pipe, ReadExit(p) PROVE Goal
  BY <1>12 DEF ReadExit
<1>13. ASSUME NEW p \in Pipe, WakeUp(p) PROVE Goal
  BY <1>13 DEF WakeUp
<1>14. ASSUME NEW p \in Pipe, Restart(p) PROVE Goal
  <2>1. PICK q \in Pipe : /\ NewPipeline(owner[p], q)
                          /\ sup' = [sup EXCEPT ![p] = "over", ![q] = "insert"]
    BY <1>14 DEF Restart
  <2>2. q = created + 1 /\ created' = q  BY <2>1 DEF NewPipeline
  <2>3. thread' = [thread EXCEPT ![q] = "starting"] /\ sup[p] = "restart" /\ p # q
    BY <1>14, <2>1, <2>2 DEF NewPipeline, Restart, Pipe
  <2>4. UNCHANGED <<cancelled, unseen, pc, pipe, main, joining>>
    BY <1>14 DEF Restart
  <2>5. Allocated'  BY <1>14, <2>1, <2>2, <2>3 DEF Pipe
  <2>6. CallsOK'  BY <2>2, <2>4 DEF Pipe
  <2>7. ReportsEnd'  BY <2>2, <2>3, <2>4 DEF Pipe
  <2>8. LivePipelineSupervised'  BY <2>1, <2>3, <2>4
  <2>. QED  BY <2>5, <2>6, <2>7, <2>8
<1>15. ASSUME NEW p \in Pipe, Reinsert(p) PROVE Goal
  BY <1>15 DEF Reinsert
<1>16. ASSUME NEW p \in Pipe, ThreadStart(p) PROVE Goal
  BY <1>16 DEF ThreadStart
<1>17. ASSUME NEW p \in Pipe, NEW r \in {"eof", "error"}, ThreadExit(p, r) PROVE Goal
  BY <1>17 DEF ThreadExit
<1>18. ASSUME NEW s \in Stream, DrainCancel(s) PROVE Goal
  BY <1>18 DEF DrainCancel
<1>19. CASE BeginShutdown \/ DrainNotify \/ DrainJoin \/ DrainEnd
  BY <1>19 DEF BeginShutdown, DrainNotify, DrainJoin, DrainEnd
<1>20. CASE UNCHANGED vars
  BY <1>20 DEF vars
<1>. QED
  BY <1>1, <1>2, <1>3, <1>4, <1>5, <1>6, <1>7, <1>8, <1>9, <1>10, <1>11, <1>12, <1>13, <1>14, <1>15,
     <1>16, <1>17, <1>18, <1>19, <1>20
     DEF Next, CallerStep, TaskStep, ThreadStep, MainStep

LEMMA SupervisionInvariant == Spec => []SupervisionInv
<1>1. Init => SupervisionInv
  BY InitType DEF Init, SupervisionInv, TypeOK, Allocated, CallsOK, ReportsEnd,
                  LivePipelineSupervised, Live
<1>2. SupervisionInv /\ [Next]_vars => SupervisionInv'
  BY NextType, NextSupervision DEF SupervisionInv
<1>. QED  BY <1>1, <1>2, PTL DEF Spec

\* Every variable keeps its type.
THEOREM TypeCorrect == Spec => []TypeOK
<1>1. SupervisionInv => TypeOK  BY DEF SupervisionInv
<1>. QED  BY <1>1, SupervisionInvariant, PTL

\* In every mode, a live pipeline has, or is about to get, a reconnection task that
\* will hear of its end.
THEOREM SupervisionNeverLost == Spec => []LivePipelineSupervised
<1>1. SupervisionInv => LivePipelineSupervised  BY DEF SupervisionInv
<1>. QED  BY <1>1, SupervisionInvariant, PTL

(***************************************************************************)
(* One live pipeline per stream (standalone mode).  A stream has one token *)
(* at most: the call that is adding it, or the reconnection task that      *)
(* looks after its one supervised pipeline.  A live pipeline holds it.     *)
(***************************************************************************)
Standalone == "start" \notin Kinds

Adding(c) == pc[c] \in {"spawn", "insert"}
Supervising(p) == sup[p] \in {"insert", "online", "wait", "backoff", "restart"}

TokenInv ==
  /\ \A c \in Caller : pc[c] # "lookup"
  /\ \A c \in Caller : Adding(c) => subject[c] \notin fresh
  /\ \A p \in Pipe : p <= created => owner[p] \notin fresh
  /\ \A c \in Caller : pc[c] = "insert" => owner[pipe[c]] = subject[c] /\ sup[pipe[c]] = "none"
  /\ \A c, d \in Caller : Adding(c) /\ Adding(d) /\ subject[c] = subject[d] => c = d
  /\ \A c \in Caller, p \in Pipe : Adding(c) /\ subject[c] = owner[p] => ~Supervising(p)
  /\ \A p, q \in Pipe : Supervising(p) /\ Supervising(q) /\ owner[p] = owner[q] => p = q

HandleInv ==
  /\ \A s \in Stream : handle[s] # NoPipe => owner[handle[s]] = s /\ handle[s] <= created
  /\ LivePipelineReachable

StandaloneInv == SupervisionInv /\ TokenInv /\ HandleInv

LEMMA TokenIsUnique == SupervisionInv /\ TokenInv => OneLivePipeline
<1>. SUFFICES ASSUME SupervisionInv, TokenInv, NEW p \in Pipe, NEW q \in Pipe,
                     Live(p), Live(q), owner[p] = owner[q]
              PROVE  p = q
  BY DEF OneLivePipeline
<1>1. Supervising(p) \/ BeingInserted(p)
  BY DEF SupervisionInv, LivePipelineSupervised, Supervising
<1>2. Supervising(q) \/ BeingInserted(q)
  BY DEF SupervisionInv, LivePipelineSupervised, Supervising
<1>. QED  BY <1>1, <1>2 DEF TokenInv, BeingInserted, Adding

LEMMA NextToken == ASSUME Standalone, StandaloneInv, [Next]_vars PROVE TokenInv'
<1>. USE DEF Standalone, StandaloneInv, SupervisionInv, TypeOK, Allocated, CallsOK, TokenInv,
         Adding, Supervising, Call, Goto, Return, MayCall,
         Watch, CancelToken, CountActive, Reported,
         MarkError, MarkRecovered,
         pipeVars, watchVars, healthVars, callVars, mainVars, NoPipe
<1>1. ASSUME NEW c \in Caller, NEW s \in Stream, AddStream(c, s) PROVE TokenInv'
  <2>1. /\ pc' = [pc EXCEPT ![c] = "spawn"] /\ subject' = [subject EXCEPT ![c] = s]
        /\ pipe' = [pipe EXCEPT ![c] = NoPipe]
        /\ fresh' = fresh \ {s} /\ s \in fresh /\ pc[c] = "idle"
        /\ UNCHANGED <<created, owner, sup>>
    BY <1>1 DEF AddStream
  <2>2. \A p \in Pipe : Supervising(p) => owner[p] # s
    <3>1. ASSUME NEW p \in Pipe, Supervising(p) PROVE p <= created
      BY <3>1 DEF Pipe
    <3>. QED  BY <2>1, <3>1
  <2>3. \A d \in Caller : Adding(d) => subject[d] # s  BY <2>1
  <2>4. \A d \in Caller : d # c => pc'[d] = pc[d] /\ subject'[d] = subject[d] /\ pipe'[d] = pipe[d]
    BY <2>1
  <2>5. pc'[c] = "spawn" /\ subject'[c] = s  BY <2>1
  <2>6. \A d, e \in Caller : (Adding(d) /\ Adding(e))' /\ subject'[d] = subject'[e] => d = e
    BY <2>3, <2>4, <2>5
  <2>7. \A d \in Caller, p \in Pipe : Adding(d)' /\ subject'[d] = owner'[p] => ~Supervising(p)'
    BY <2>1, <2>2, <2>4, <2>5
  <2>8. \A d \in Caller : pc'[d] = "insert" => owner'[pipe'[d]] = subject'[d] /\ sup'[pipe'[d]] = "none"
    BY <2>1, <2>4, <2>5
  <2>9. \A d \in Caller : Adding(d)' => subject'[d] \notin fresh'
    BY <2>1, <2>4, <2>5
  <2>10. /\ \A d \in Caller : pc'[d] # "lookup"
         /\ \A p \in Pipe : p <= created' => owner'[p] \notin fresh'
         /\ \A p, q \in Pipe : (Supervising(p) /\ Supervising(q))' /\ owner'[p] = owner'[q] => p = q
    BY <2>1, <2>4, <2>5
  <2>. QED  BY <2>6, <2>7, <2>8, <2>9, <2>10
<1>2. ASSUME NEW c \in Caller, NEW s \in Stream, StartPipeline(c, s) PROVE TokenInv'
  BY <1>2 DEF StartPipeline
<1>3. ASSUME NEW c \in Caller, LookUp(c) PROVE TokenInv'
  BY <1>3 DEF LookUp
<1>4. ASSUME NEW c \in Caller, Count(c) PROVE TokenInv'
  BY <1>4 DEF Count
<1>5. ASSUME NEW p \in Pipe, Recovered(p) PROVE TokenInv'
  BY <1>5 DEF Recovered
<1>6. ASSUME NEW c \in Caller, Spawn(c) PROVE TokenInv'
  <2>1. PICK q \in Pipe : NewPipeline(subject[c], q) /\ pipe' = [pipe EXCEPT ![c] = q]
    BY <1>6 DEF Spawn
  <2>2. /\ q = created + 1 /\ created' = q
        /\ owner' = [owner EXCEPT ![q] = subject[c]]
        /\ pc' = [pc EXCEPT ![c] = "insert"] /\ pc[c] = "spawn"
        /\ UNCHANGED <<sup, subject, fresh>>
    BY <1>6, <2>1 DEF Spawn, NewPipeline
  <2>3. sup[q] = "none"  BY <2>2 DEF Pipe
  <2>4. \A p \in Pipe : p # q => owner'[p] = owner[p]  BY <2>2
  <2>5. owner'[q] = subject[c]  BY <2>2
  <2>6. \A d \in Caller : d # c => pc'[d] = pc[d] /\ pipe'[d] = pipe[d]  BY <2>1, <2>2
  <2>7. pc'[c] = "insert" /\ pipe'[c] = q  BY <2>1, <2>2
  <2>8. ASSUME NEW d \in Caller, pc'[d] = "insert"
        PROVE  owner'[pipe'[d]] = subject'[d] /\ sup'[pipe'[d]] = "none"
    <3>1. CASE d = c  BY <2>2, <2>3, <2>5, <2>7, <3>1
    <3>2. CASE d # c
      <4>1. pc[d] = "insert" /\ pipe[d] \in Pipe /\ pipe[d] <= created  BY <2>6, <2>8, <3>2
      <4>2. pipe[d] # q  BY <2>2, <4>1 DEF Pipe
      <4>. QED  BY <2>2, <2>4, <2>6, <3>2, <4>1, <4>2
    <3>. QED  BY <3>1, <3>2
  <2>9. \A d \in Caller : Adding(d)' <=> Adding(d)  BY <2>2, <2>6, <2>7
  <2>10. \A p \in Pipe : p <= created' => owner'[p] \notin fresh'
    <3>1. subject[c] \notin fresh  BY <2>2
    <3>2. ASSUME NEW p \in Pipe, p <= created', p # q PROVE p <= created
      BY <2>2, <3>2 DEF Pipe
    <3>. QED  BY <2>2, <2>4, <2>5, <3>1, <3>2
  <2>11. \A d \in Caller, p \in Pipe : Adding(d)' /\ subject'[d] = owner'[p] => ~Supervising(p)'
    BY <2>2, <2>3, <2>4, <2>9
  <2>12. \A p, r \in Pipe : (Supervising(p) /\ Supervising(r))' /\ owner'[p] = owner'[r] => p = r
    BY <2>2, <2>3, <2>4
  <2>13. /\ \A d \in Caller : pc'[d] # "lookup"
         /\ \A d \in Caller : Adding(d)' => subject'[d] \notin fresh'
         /\ \A d, e \in Caller : (Adding(d) /\ Adding(e))' /\ subject'[d] = subject'[e] => d = e
    BY <2>2, <2>6, <2>7, <2>9
  <2>. QED  BY <2>8, <2>10, <2>11, <2>12, <2>13
<1>7. ASSUME NEW c \in Caller, Insert(c) PROVE TokenInv'
  <2>1. /\ pc[c] = "insert" /\ pipe[c] \in Pipe
        /\ owner[pipe[c]] = subject[c]
        /\ sup' = [sup EXCEPT ![pipe[c]] = "wait"]
        /\ pc' = [pc EXCEPT ![c] = "count"]
        /\ UNCHANGED <<created, owner, fresh>>
    BY <1>7 DEF Insert
  <2>2. \A d \in Caller : d # c => pc'[d] = pc[d] /\ subject'[d] = subject[d] /\ pipe'[d] = pipe[d]
    BY <1>7 DEF Insert
  <2>3. \A d \in Caller : Adding(d)' => d # c /\ Adding(d) /\ subject[d] # subject[c]
    BY <2>1, <2>2
  <2>4. ASSUME NEW p \in Pipe, Supervising(p)'
        PROVE  p = pipe[c] \/ (Supervising(p) /\ owner[p] # subject[c])
    BY <2>1, <2>4
  <2>5. ASSUME NEW d \in Caller, pc'[d] = "insert"
        PROVE  owner'[pipe'[d]] = subject'[d] /\ sup'[pipe'[d]] = "none"
    <3>1. d # c /\ pc[d] = "insert" /\ pipe[d] \in Pipe /\ subject[d] # subject[c]
      BY <2>1, <2>2, <2>3, <2>5
    <3>2. owner[pipe[d]] = subject[d] /\ sup[pipe[d]] = "none" /\ pipe[d] # pipe[c]
      BY <2>1, <3>1
    <3>. QED  BY <2>1, <2>2, <3>1, <3>2
  <2>6. \A d \in Caller, p \in Pipe : Adding(d)' /\ subject'[d] = owner'[p] => ~Supervising(p)'
    BY <2>1, <2>2, <2>3, <2>4
  <2>7. \A p, q \in Pipe : (Supervising(p) /\ Supervising(q))' /\ owner'[p] = owner'[q] => p = q
    BY <2>1, <2>4
  <2>8. /\ \A d \in Caller : pc'[d] # "lookup"
        /\ \A d \in Caller : Adding(d)' => subject'[d] \notin fresh'
        /\ \A p \in Pipe : p <= created' => owner'[p] \notin fresh'
        /\ \A d, e \in Caller : (Adding(d) /\ Adding(e))' /\ subject'[d] = subject'[e] => d = e
    BY <2>1, <2>2, <2>3
  <2>. QED  BY <2>5, <2>6, <2>7, <2>8
<1>8. ASSUME NEW c \in Caller, NEW s \in Stream, NEW o \in Kinds, TakeHandle(c, o, s) PROVE TokenInv'
  <2>1. /\ pc' = [pc EXCEPT ![c] = "cancel"] /\ UNCHANGED <<fresh, created, owner, sup>>
        /\ \A d \in Caller : d # c => subject'[d] = subject[d] /\ pipe'[d] = pipe[d]
    BY <1>8 DEF TakeHandle
  <2>2. \A d \in Caller : pc'[d] \in {"lookup", "spawn", "insert"} => d # c /\ pc'[d] = pc[d]
    BY <2>1
  <2>. QED  BY <2>1, <2>2
<1>9. ASSUME NEW c \in Caller, Cancel(c) PROVE TokenInv'
  BY <1>9 DEF Cancel
<1>10. ASSUME NEW c \in Caller, Notify(c) PROVE TokenInv'
  <2>1. /\ pc'[c] \in {"idle", "unregister"} /\ UNCHANGED <<fresh, created, owner, sup>>
        /\ \A d \in Caller : d # c => pc'[d] = pc[d] /\ subject'[d] = subject[d] /\ pipe'[d] = pipe[d]
    BY <1>10 DEF Notify
  <2>2. \A d \in Caller : pc'[d] \in {"lookup", "spawn", "insert"} => d # c /\ pc'[d] = pc[d]
    BY <2>1
  <2>. QED  BY <2>1, <2>2
<1>11. ASSUME NEW c \in Caller, Unregister(c) PROVE TokenInv'
  BY <1>11 DEF Unregister
<1>12. ASSUME NEW p \in Pipe, ReadExit(p) PROVE TokenInv'
  BY <1>12, SMTT(30) DEF ReadExit
<1>13. ASSUME NEW p \in Pipe, WakeUp(p) PROVE TokenInv'
  BY <1>13 DEF WakeUp
<1>14. ASSUME NEW p \in Pipe, Restart(p) PROVE TokenInv'
  <2>1. PICK q \in Pipe : /\ NewPipeline(owner[p], q)
                          /\ sup' = [sup EXCEPT ![p] = "over", ![q] = "insert"]
    BY <1>14 DEF Restart
  <2>2. /\ q = created + 1 /\ created' = q
        /\ owner' = [owner EXCEPT ![q] = owner[p]]
        /\ sup[p] = "restart"
        /\ UNCHANGED <<pc, pipe, subject, fresh>>
    BY <1>14, <2>1 DEF Restart, NewPipeline
  <2>3. sup[q] = "none" /\ p # q /\ p <= created  BY <2>2 DEF Pipe
  <2>4. \A r \in Pipe : r # q => owner'[r] = owner[r]  BY <2>2
  <2>5. owner'[q] = owner[p] /\ owner'[p] = owner[p]  BY <2>2, <2>3
  <2>6. \A r \in Pipe : r # q /\ r # p => sup'[r] = sup[r]  BY <2>1
  <2>7. sup'[p] = "over" /\ sup'[q] = "insert"  BY <2>1, <2>3
  <2>8. ASSUME NEW d \in Caller, pc'[d] = "insert"
        PROVE  owner'[pipe'[d]] = subject'[d] /\ sup'[pipe'[d]] = "none"
    <3>1. pc[d] = "insert" /\ pipe[d] \in Pipe /\ pipe[d] <= created  BY <2>2, <2>8
    <3>2. pipe[d] # q  BY <2>2, <3>1 DEF Pipe
    <3>3. sup[pipe[d]] = "none" /\ owner[pipe[d]] = subject[d]  BY <3>1
    <3>4. pipe[d] # p  BY <2>2, <3>3
    <3>5. pipe'[d] = pipe[d] /\ subject'[d] = subject[d]  BY <2>2
    <3>6. owner'[pipe[d]] = owner[pipe[d]]  BY <2>4, <3>1, <3>2
    <3>7. sup'[pipe[d]] = sup[pipe[d]]  BY <2>6, <3>1, <3>2, <3>4
    <3>. QED  BY <3>3, <3>5, <3>6, <3>7
  <2>9. \A r \in Pipe : r <= created' => owner'[r] \notin fresh'
    <3>1. ASSUME NEW r \in Pipe, r <= created', r # q PROVE r <= created
      BY <2>2, <3>1 DEF Pipe
    <3>. QED  BY <2>2, <2>3, <2>4, <2>5, <3>1
  <2>10. ASSUME NEW r \in Pipe, Supervising(r)'
         PROVE  \/ r = q
                \/ r # p /\ r # q /\ Supervising(r) /\ owner'[r] = owner[r]
    BY <2>4, <2>6, <2>7, <2>10
  <2>11. \A r \in Pipe : Supervising(r) /\ owner[r] = owner[p] => r = p  BY <2>2
  <2>12. \A d \in Caller : Adding(d) => subject[d] # owner[p]  BY <2>2
  <2>13. \A r, t \in Pipe : (Supervising(r) /\ Supervising(t))' /\ owner'[r] = owner'[t] => r = t
    BY <2>5, <2>10, <2>11
  <2>14. \A d \in Caller, r \in Pipe : Adding(d)' /\ subject'[d] = owner'[r] => ~Supervising(r)'
    BY <2>2, <2>5, <2>10, <2>12
  <2>15. /\ \A d \in Caller : pc'[d] # "lookup"
         /\ \A d \in Caller : Adding(d)' => subject'[d] \notin fresh'
         /\ \A d, e \in Caller : (Adding(d) /\ Adding(e))' /\ subject'[d] = subject'[e] => d = e
    BY <2>2
  <2>. QED  BY <2>8, <2>9, <2>13, <2>14, <2>15
<1>15. ASSUME NEW p \in Pipe, Reinsert(p) PROVE TokenInv'
  BY <1>15 DEF Reinsert
<1>16. ASSUME NEW p \in Pipe, ThreadStart(p) PROVE TokenInv'
  BY <1>16 DEF ThreadStart
<1>17. ASSUME NEW p \in Pipe, NEW r \in {"eof", "error"}, ThreadExit(p, r) PROVE TokenInv'
  BY <1>17 DEF ThreadExit
<1>18. ASSUME NEW s \in Stream, DrainCancel(s) PROVE TokenInv'
  BY <1>18 DEF DrainCancel
<1>19. CASE BeginShutdown \/ DrainNotify \/ DrainJoin \/ DrainEnd
  BY <1>19 DEF BeginShutdown, DrainNotify, DrainJoin, DrainEnd
<1>20. CASE UNCHANGED vars
  BY <1>20 DEF vars
<1>. HIDE DEF TokenInv, TypeOK, CallsOK, Allocated, StandaloneInv, SupervisionInv
<1>. QED
  BY <1>1, <1>2, <1>3, <1>4, <1>5, <1>6, <1>7, <1>8, <1>9, <1>10, <1>11, <1>12, <1>13, <1>14, <1>15,
     <1>16, <1>17, <1>18, <1>19, <1>20
     DEF Next, CallerStep, TaskStep, ThreadStep, MainStep

LEMMA NextHandle == ASSUME Standalone, StandaloneInv, [Next]_vars PROVE HandleInv'
<1>. USE DEF Standalone, StandaloneInv, SupervisionInv, TypeOK, Allocated, CallsOK, HandleInv,
         LivePipelineReachable, Live, BeingInserted, BeingCancelled,
         Call, Goto, Return, MayCall,
         Watch, CancelToken, CountActive, Reported,
         MarkError, MarkRecovered,
         pipeVars, watchVars, healthVars, callVars, mainVars, NoPipe
<1>1. ASSUME NEW c \in Caller, NEW s \in Stream, AddStream(c, s) PROVE HandleInv'
  BY <1>1 DEF AddStream
<1>2. ASSUME NEW c \in Caller, NEW s \in Stream, StartPipeline(c, s) PROVE HandleInv'
  BY <1>2 DEF StartPipeline
<1>3. ASSUME NEW c \in Caller, LookUp(c) PROVE HandleInv'
  BY <1>3 DEF LookUp
<1>4. ASSUME NEW c \in Caller, Count(c) PROVE HandleInv'
  BY <1>4 DEF Count
<1>5. ASSUME NEW p \in Pipe, Recovered(p) PROVE HandleInv'
  BY <1>5 DEF Recovered
<1>6. ASSUME NEW c \in Caller, Spawn(c) PROVE HandleInv'
  <2>1. PICK q \in Pipe : NewPipeline(subject[c], q) /\ pipe' = [pipe EXCEPT ![c] = q]
    BY <1>6 DEF Spawn
  <2>2. /\ q = created + 1 /\ created' = q
        /\ owner' = [owner EXCEPT ![q] = subject[c]]
        /\ thread' = [thread EXCEPT ![q] = "starting"]
        /\ pc' = [pc EXCEPT ![c] = "insert"] /\ pc[c] = "spawn"
        /\ UNCHANGED <<handle, sup, cancelled>>
    BY <1>6, <2>1 DEF Spawn, NewPipeline
  <2>3. ASSUME NEW s \in Stream, handle[s] # NoPipe
        PROVE  owner'[handle[s]] = s /\ handle[s] <= created'
    <3>1. handle[s] \in Pipe /\ owner[handle[s]] = s /\ handle[s] <= created
      BY <2>3
    <3>2. handle[s] # q /\ handle[s] <= created'  BY <2>2, <3>1 DEF Pipe
    <3>. QED  BY <2>2, <3>1, <3>2
  <2>4. ASSUME NEW p \in Pipe, Live(p)'
        PROVE  (\/ handle[owner[p]] = p \/ BeingInserted(p)
                \/ sup[p] = "insert" \/ BeingCancelled(p))'
    <3>1. CASE p = q  BY <2>1, <2>2, <3>1
    <3>2. CASE p # q
      <4>1. Live(p) /\ owner'[p] = owner[p]  BY <2>2, <2>4, <3>2
      <4>2. ASSUME NEW d \in Caller, pc[d] \in {"insert", "cancel"}, pipe[d] = p
            PROVE  pc'[d] = pc[d] /\ pipe'[d] = p
        BY <2>1, <2>2, <4>2
      <4>. QED  BY <2>2, <4>1, <4>2
    <3>. QED  BY <3>1, <3>2
  <2>. QED  BY <2>2, <2>3, <2>4
<1>7. ASSUME NEW c \in Caller, Insert(c) PROVE HandleInv'
  <2>1. /\ pc[c] = "insert" /\ pipe[c] \in Pipe /\ pipe[c] <= created
        /\ owner[pipe[c]] = subject[c]
        /\ handle' = [handle EXCEPT ![subject[c]] = pipe[c]]
        /\ sup' = [sup EXCEPT ![pipe[c]] = "wait"]
        /\ pc' = [pc EXCEPT ![c] = "count"]
        /\ UNCHANGED <<created, owner, thread, cancelled, pipe>>
    BY <1>7 DEF Insert, TokenInv
  <2>2. ASSUME NEW s \in Stream, handle'[s] # NoPipe
        PROVE  owner'[handle'[s]] = s /\ handle'[s] <= created'
    BY <2>1, <2>2
  <2>3. ASSUME NEW p \in Pipe, Live(p), p # pipe[c] PROVE owner[p] # subject[c]
    BY <2>1, <2>3 DEF TokenInv, Adding, Supervising, LivePipelineSupervised
  <2>4. ASSUME NEW p \in Pipe, Live(p)'
        PROVE  (\/ handle[owner[p]] = p \/ BeingInserted(p)
                \/ sup[p] = "insert" \/ BeingCancelled(p))'
    <3>1. Live(p)  BY <2>1, <2>4
    <3>2. CASE p = pipe[c]
      <4>1. handle'[subject[c]] = pipe[c]  BY <2>1
      <4>. QED  BY <2>1, <3>2, <4>1
    <3>3. CASE p # pipe[c]
      <4>1. handle'[owner[p]] = handle[owner[p]]  BY <2>1, <2>3, <3>1, <3>3
      <4>2. sup'[p] = sup[p]  BY <2>1, <3>3
      <4>3. ASSUME NEW d \in Caller, pc[d] \in {"insert", "cancel"}, pipe[d] = p
            PROVE  pc'[d] = pc[d] /\ pipe'[d] = p
        BY <2>1, <3>3, <4>3
      <4>. QED  BY <2>1, <3>1, <4>1, <4>2, <4>3
    <3>. QED  BY <3>2, <3>3
  <2>. QED  BY <2>2, <2>4
<1>8. ASSUME NEW c \in Caller, NEW s \in Stream, NEW o \in Kinds, TakeHandle(c, o, s) PROVE HandleInv'
  BY <1>8 DEF TakeHandle
<1>9. ASSUME NEW c \in Caller, Cancel(c) PROVE HandleInv'
  BY <1>9 DEF Cancel
<1>10. ASSUME NEW c \in Caller, Notify(c) PROVE HandleInv'
  BY <1>10 DEF Notify
<1>11. ASSUME NEW c \in Caller, Unregister(c) PROVE HandleInv'
  BY <1>11 DEF Unregister
<1>12. ASSUME NEW p \in Pipe, ReadExit(p) PROVE HandleInv'
  BY <1>12 DEF ReadExit
<1>13. ASSUME NEW p \in Pipe, WakeUp(p) PROVE HandleInv'
  BY <1>13 DEF WakeUp
<1>14. ASSUME NEW p \in Pipe, Restart(p) PROVE HandleInv'
  <2>1. PICK q \in Pipe : /\ NewPipeline(owner[p], q)
                          /\ sup' = [sup EXCEPT ![p] = "over", ![q] = "insert"]
    BY <1>14 DEF Restart
  <2>2. /\ q = created + 1 /\ created' = q
        /\ owner' = [owner EXCEPT ![q] = owner[p]]
        /\ thread' = [thread EXCEPT ![q] = "starting"]
        /\ sup[p] = "restart"
        /\ UNCHANGED <<handle, pc, pipe, cancelled>>
    BY <1>14, <2>1 DEF Restart, NewPipeline
  <2>3. ASSUME NEW s \in Stream, handle[s] # NoPipe
        PROVE  owner'[handle[s]] = s /\ handle[s] <= created'
    <3>1. handle[s] \in Pipe /\ owner[handle[s]] = s /\ handle[s] <= created
      BY <2>3
    <3>2. handle[s] # q /\ handle[s] <= created'  BY <2>2, <3>1 DEF Pipe
    <3>. QED  BY <2>2, <3>1, <3>2
  <2>4. ASSUME NEW r \in Pipe, Live(r)'
        PROVE  (\/ handle[owner[r]] = r \/ BeingInserted(r)
                \/ sup[r] = "insert" \/ BeingCancelled(r))'
    <3>1. CASE r = q  BY <2>1, <3>1
    <3>2. CASE r # q
      <4>1. Live(r) /\ owner'[r] = owner[r]  BY <2>2, <2>4, <3>2
      <4>2. sup[r] = "insert" => sup'[r] = "insert"  BY <2>1, <2>2, <3>2
      <4>. QED  BY <2>2, <4>1, <4>2
    <3>. QED  BY <3>1, <3>2
  <2>. QED  BY <2>2, <2>3, <2>4
<1>15. ASSUME NEW q \in Pipe, Reinsert(q) PROVE HandleInv'
  <2>1. /\ sup[q] = "insert" /\ q <= created
        /\ handle' = [handle EXCEPT ![owner[q]] = q]
        /\ sup' = [sup EXCEPT ![q] = "online"]
        /\ UNCHANGED <<created, owner, thread, cancelled, pc, pipe>>
    BY <1>15 DEF Reinsert, Pipe
  <2>2. ASSUME NEW s \in Stream, handle'[s] # NoPipe
        PROVE  owner'[handle'[s]] = s /\ handle'[s] <= created'
    BY <2>1, <2>2
  <2>3. ASSUME NEW p \in Pipe, Live(p), p # q PROVE owner[p] # owner[q]
    BY <2>1, <2>3 DEF TokenInv, Adding, Supervising, LivePipelineSupervised
  <2>4. ASSUME NEW p \in Pipe, Live(p)'
        PROVE  (\/ handle[owner[p]] = p \/ BeingInserted(p)
                \/ sup[p] = "insert" \/ BeingCancelled(p))'
    <3>1. Live(p)  BY <2>1, <2>4
    <3>2. CASE p = q  BY <2>1, <3>2
    <3>3. CASE p # q
      <4>1. handle'[owner[p]] = handle[owner[p]]  BY <2>1, <2>3, <3>1, <3>3
      <4>2. sup'[p] = sup[p]  BY <2>1, <3>3
      <4>. QED  BY <2>1, <3>1, <4>1, <4>2
    <3>. QED  BY <3>2, <3>3
  <2>. QED  BY <2>2, <2>4
<1>16. ASSUME NEW p \in Pipe, ThreadStart(p) PROVE HandleInv'
  BY <1>16 DEF ThreadStart
<1>17. ASSUME NEW p \in Pipe, NEW r \in {"eof", "error"}, ThreadExit(p, r) PROVE HandleInv'
  BY <1>17 DEF ThreadExit
<1>18. ASSUME NEW s \in Stream, DrainCancel(s) PROVE HandleInv'
  BY <1>18 DEF DrainCancel
<1>19. CASE BeginShutdown \/ DrainNotify \/ DrainJoin \/ DrainEnd
  BY <1>19 DEF BeginShutdown, DrainNotify, DrainJoin, DrainEnd
<1>20. CASE UNCHANGED vars
  BY <1>20 DEF vars
<1>. HIDE DEF HandleInv, TypeOK, CallsOK, Allocated, StandaloneInv, SupervisionInv
<1>. QED
  BY <1>1, <1>2, <1>3, <1>4, <1>5, <1>6, <1>7, <1>8, <1>9, <1>10, <1>11, <1>12, <1>13, <1>14, <1>15,
     <1>16, <1>17, <1>18, <1>19, <1>20
     DEF Next, CallerStep, TaskStep, ThreadStep, MainStep

LEMMA StandaloneInvariant == ASSUME Standalone PROVE Spec => []StandaloneInv
<1>1. Init => StandaloneInv
  <2>1. ASSUME Init PROVE SupervisionInv
    BY <2>1, InitType DEF Init, SupervisionInv, TypeOK, Allocated, CallsOK, ReportsEnd,
                    LivePipelineSupervised, Live
  <2>2. ASSUME Init PROVE TokenInv
    BY <2>2 DEF Init, TokenInv, Adding, Supervising, Pipe
  <2>3. ASSUME Init PROVE HandleInv
    BY <2>3 DEF Init, HandleInv, LivePipelineReachable, Live
  <2>. QED  BY <2>1, <2>2, <2>3 DEF StandaloneInv
<1>2. StandaloneInv /\ [Next]_vars => StandaloneInv'
  BY NextType, NextSupervision, NextToken, NextHandle DEF StandaloneInv, SupervisionInv
<1>. QED  BY <1>1, <1>2, PTL DEF Spec

\* Standalone mode (no start_pipeline, so streams are only added and removed): no
\* source is ever decoded by two live pipelines.
THEOREM NeverTwoLivePipelines == ASSUME Standalone PROVE Spec => []OneLivePipeline
<1>1. StandaloneInv => OneLivePipeline  BY TokenIsUnique DEF StandaloneInv
<1>. QED  BY <1>1, StandaloneInvariant, PTL

\* Standalone mode: no live decode thread is ever without a handle that stops it, or
\* a caller or task that is about to insert that handle or has just taken it.
THEOREM NeverAnOrphanPipeline == ASSUME Standalone PROVE Spec => []LivePipelineReachable
<1>1. StandaloneInv => LivePipelineReachable  BY DEF StandaloneInv, HandleInv
<1>. QED  BY <1>1, StandaloneInvariant, PTL

(***************************************************************************)
(* A task only waits to reconnect for a thread that has ended (every       *)
(* mode), so nothing but a caller's "user" can replace the reason it read. *)
(***************************************************************************)
ReasonInv ==
  /\ \A p \in Pipe : reason[p] \in {"eof", "error"} => thread[p] = "exited"
  /\ \A p \in unseen : reason[p] # "none"
  /\ \A p \in Pipe : sup[p] \in {"backoff", "restart"} => thread[p] = "exited"
  /\ FinishedFileNotRestarted

LEMMA NextReason == ASSUME SupervisionInv, ReasonInv, [Next]_vars PROVE ReasonInv'
<1>. USE DEF SupervisionInv, TypeOK, Allocated, CallsOK, ReasonInv, FinishedFileNotRestarted,
         Call, Goto, Return, MayCall, Send, Watch, CancelToken, CountActive, Reported,
         MarkError, MarkRecovered,
         pipeVars, watchVars, healthVars, callVars, mainVars, NoPipe
<1>1. ASSUME NEW c \in Caller, NEW s \in Stream, AddStream(c, s) PROVE ReasonInv'
  BY <1>1 DEF AddStream
<1>2. ASSUME NEW c \in Caller, NEW s \in Stream, StartPipeline(c, s) PROVE ReasonInv'
  BY <1>2 DEF StartPipeline
<1>3. ASSUME NEW c \in Caller, LookUp(c) PROVE ReasonInv'
  BY <1>3 DEF LookUp
<1>4. ASSUME NEW c \in Caller, Count(c) PROVE ReasonInv'
  BY <1>4 DEF Count
<1>5. ASSUME NEW p \in Pipe, Recovered(p) PROVE ReasonInv'
  BY <1>5 DEF Recovered
<1>6. ASSUME NEW c \in Caller, Spawn(c) PROVE ReasonInv'
  <2>1. PICK q \in Pipe : NewPipeline(subject[c], q)  BY <1>6 DEF Spawn
  <2>2. /\ thread' = [thread EXCEPT ![q] = "starting"] /\ owner' = [owner EXCEPT ![q] = subject[c]]
        /\ thread[q] = "none" /\ sup[q] = "none"
    BY <2>1 DEF NewPipeline, Pipe
  <2>. QED  BY <1>6, <2>2 DEF Spawn
<1>7. ASSUME NEW c \in Caller, Insert(c) PROVE ReasonInv'
  BY <1>7 DEF Insert
<1>8. ASSUME NEW c \in Caller, NEW s \in Stream, NEW o \in Kinds, TakeHandle(c, o, s) PROVE ReasonInv'
  BY <1>8 DEF TakeHandle
<1>9. ASSUME NEW c \in Caller, Cancel(c) PROVE ReasonInv'
  BY <1>9 DEF Cancel
<1>10. ASSUME NEW c \in Caller, Notify(c) PROVE ReasonInv'
  BY <1>10 DEF Notify
<1>11. ASSUME NEW c \in Caller, Unregister(c) PROVE ReasonInv'
  BY <1>11 DEF Unregister
<1>12. ASSUME NEW p \in Pipe, ReadExit(p) PROVE ReasonInv'
  <2>1. CASE EndsSupervision(p)  BY <1>12, <2>1 DEF ReadExit
  <2>2. CASE ~EndsSupervision(p)
    <3>1. reason[p] # "user" /\ (reason[p] = "eof" => owner[p] \notin FileStream)
      BY <2>2 DEF EndsSupervision
    <3>2. reason[p] \in {"eof", "error"} /\ thread[p] = "exited"
      BY <1>12, <3>1 DEF ReadExit
    <3>. QED  BY <1>12, <2>2, <3>1, <3>2 DEF ReadExit
  <2>. QED  BY <2>1, <2>2
<1>13. ASSUME NEW p \in Pipe, WakeUp(p) PROVE ReasonInv'
  BY <1>13 DEF WakeUp
<1>14. ASSUME NEW p \in Pipe, Restart(p) PROVE ReasonInv'
  <2>1. PICK q \in Pipe : /\ NewPipeline(owner[p], q)
                          /\ sup' = [sup EXCEPT ![p] = "over", ![q] = "insert"]
    BY <1>14 DEF Restart
  <2>2. /\ thread' = [thread EXCEPT ![q] = "starting"] /\ owner' = [owner EXCEPT ![q] = owner[p]]
        /\ thread[q] = "none" /\ p # q
    BY <1>14, <2>1 DEF NewPipeline, Pipe, Restart
  <2>. QED  BY <1>14, <2>1, <2>2 DEF Restart
<1>15. ASSUME NEW p \in Pipe, Reinsert(p) PROVE ReasonInv'
  BY <1>15 DEF Reinsert
<1>16. ASSUME NEW p \in Pipe, ThreadStart(p) PROVE ReasonInv'
  BY <1>16 DEF ThreadStart
<1>17. ASSUME NEW p \in Pipe, NEW r \in {"eof", "error"}, ThreadExit(p, r) PROVE ReasonInv'
  BY <1>17 DEF ThreadExit
<1>18. ASSUME NEW s \in Stream, DrainCancel(s) PROVE ReasonInv'
  BY <1>18 DEF DrainCancel
<1>19. CASE BeginShutdown \/ DrainNotify \/ DrainJoin \/ DrainEnd
  BY <1>19 DEF BeginShutdown, DrainNotify, DrainJoin, DrainEnd
<1>20. CASE UNCHANGED vars
  BY <1>20 DEF vars
<1>. QED
  BY <1>1, <1>2, <1>3, <1>4, <1>5, <1>6, <1>7, <1>8, <1>9, <1>10, <1>11, <1>12, <1>13, <1>14, <1>15,
     <1>16, <1>17, <1>18, <1>19, <1>20
     DEF Next, CallerStep, TaskStep, ThreadStep, MainStep

LEMMA ReasonInvariant == Spec => []ReasonInv
<1>1. Init => ReasonInv
  BY DEF Init, ReasonInv, FinishedFileNotRestarted
<1>2. SupervisionInv /\ ReasonInv /\ [Next]_vars => ReasonInv'
  BY NextReason
<1>. QED  BY <1>1, <1>2, SupervisionInvariant, PTL DEF Spec

\* In every mode, a file that was read to its end is not read again by its task.
THEOREM FinishedFilesStayFinished == Spec => []FinishedFileNotRestarted
<1>1. ReasonInv => FinishedFileNotRestarted  BY DEF ReasonInv
<1>. QED  BY <1>1, ReasonInvariant, PTL

(***************************************************************************)
(* While a task sleeps, the status reads "error" (standalone mode).  Only  *)
(* the thread or the task of the stream's own supervised pipeline writes   *)
(* the status: a thread that has not ended is the supervised one.          *)
(***************************************************************************)
Unfinished(p) == thread[p] \in {"starting", "running"}

StatusInv ==
  /\ \A p, q \in Pipe : Unfinished(p) /\ Supervising(q) /\ owner[p] = owner[q] => p = q
  /\ \A c \in Caller, p \in Pipe :
       Adding(c) /\ Unfinished(p) /\ owner[p] = subject[c] => pc[c] = "insert" /\ p = pipe[c]
  /\ BackoffShowsError

LEMMA NextStatus ==
  ASSUME Standalone, StandaloneInv, ReasonInv, StatusInv, [Next]_vars
  PROVE  StatusInv'
<1>. USE DEF Standalone, StandaloneInv, SupervisionInv, TypeOK, Allocated, CallsOK, TokenInv,
         StatusInv, BackoffShowsError, Unfinished, Adding, Supervising,
         Call, Goto, Return, MayCall, Send, Watch, CancelToken, CountActive, Reported,
         MarkError, MarkRecovered,
         pipeVars, watchVars, healthVars, callVars, mainVars, NoPipe
<1>1. ASSUME NEW c \in Caller, NEW s \in Stream, AddStream(c, s) PROVE StatusInv'
  <2>1. ASSUME NEW p \in Pipe, Unfinished(p) PROVE owner[p] # s
    <3>1. p <= created  BY <2>1 DEF Pipe
    <3>. QED  BY <1>1, <3>1 DEF AddStream
  <2>2. /\ pc' = [pc EXCEPT ![c] = "spawn"] /\ subject' = [subject EXCEPT ![c] = s]
        /\ pipe' = [pipe EXCEPT ![c] = NoPipe]
        /\ UNCHANGED <<owner, sup, thread, status>>
    BY <1>1 DEF AddStream
  <2>. QED  BY <2>1, <2>2
<1>2. ASSUME NEW c \in Caller, NEW s \in Stream, StartPipeline(c, s) PROVE StatusInv'
  BY <1>2 DEF StartPipeline
<1>3. ASSUME NEW c \in Caller, LookUp(c) PROVE StatusInv'
  BY <1>3 DEF LookUp
<1>4. ASSUME NEW c \in Caller, Count(c) PROVE StatusInv'
  BY <1>4 DEF Count
<1>5. ASSUME NEW p \in Pipe, Recovered(p) PROVE StatusInv'
  BY <1>5 DEF Recovered
<1>6. ASSUME NEW c \in Caller, Spawn(c) PROVE StatusInv'
  <2>1. PICK q \in Pipe : NewPipeline(subject[c], q) /\ pipe' = [pipe EXCEPT ![c] = q]
    BY <1>6 DEF Spawn
  <2>2. /\ thread' = [thread EXCEPT ![q] = "starting"] /\ owner' = [owner EXCEPT ![q] = subject[c]]
        /\ pc[c] = "spawn" /\ pc' = [pc EXCEPT ![c] = "insert"]
        /\ thread[q] = "none" /\ sup[q] = "none"
        /\ UNCHANGED <<sup, subject, status>>
    BY <1>6, <2>1 DEF NewPipeline, Pipe, Spawn
  <2>3. ASSUME NEW p \in Pipe, Unfinished(p) PROVE owner[p] # subject[c]
    BY <2>2, <2>3
  <2>4. ASSUME NEW p \in Pipe, Supervising(p) PROVE owner[p] # subject[c] /\ p # q
    BY <2>2, <2>4
  <2>5. ASSUME NEW p \in Pipe, NEW r \in Pipe, (Unfinished(p) /\ Supervising(r))', owner'[p] = owner'[r]
        PROVE  p = r
    <3>1. Supervising(r) /\ owner'[r] = owner[r] /\ owner[r] # subject[c]  BY <2>2, <2>4, <2>5
    <3>. QED  BY <2>2, <2>5, <3>1
  <2>6. ASSUME NEW d \in Caller, NEW p \in Pipe, (Adding(d) /\ Unfinished(p))', owner'[p] = subject'[d]
        PROVE  pc'[d] = "insert" /\ p = pipe'[d]
    <3>1. CASE d = c  BY <2>1, <2>2, <2>3, <2>6, <3>1
    <3>2. CASE d # c
      <4>1. Adding(d) /\ subject[d] # subject[c]  BY <2>2, <2>6, <3>2
      <4>2. p # q  BY <2>2, <2>6, <4>1
      <4>. QED  BY <2>1, <2>2, <2>6, <3>2, <4>1, <4>2
    <3>. QED  BY <3>1, <3>2
  <2>7. BackoffShowsError'  BY <2>2
  <2>. QED  BY <2>5, <2>6, <2>7
<1>7. ASSUME NEW c \in Caller, Insert(c) PROVE StatusInv'
  <2>1. /\ pc[c] = "insert" /\ pipe[c] \in Pipe /\ owner[pipe[c]] = subject[c]
        /\ sup' = [sup EXCEPT ![pipe[c]] = "wait"] /\ pc' = [pc EXCEPT ![c] = "count"]
        /\ UNCHANGED <<thread, owner, subject, pipe, status>>
    BY <1>7 DEF Insert
  <2>. QED  BY <2>1
<1>8. ASSUME NEW c \in Caller, NEW s \in Stream, NEW o \in Kinds, TakeHandle(c, o, s) PROVE StatusInv'
  BY <1>8 DEF TakeHandle
<1>9. ASSUME NEW c \in Caller, Cancel(c) PROVE StatusInv'
  BY <1>9 DEF Cancel
<1>10. ASSUME NEW c \in Caller, Notify(c) PROVE StatusInv'
  BY <1>10 DEF Notify
<1>11. ASSUME NEW c \in Caller, Unregister(c) PROVE StatusInv'
  BY <1>11 DEF Unregister
<1>12. ASSUME NEW p \in Pipe, ReadExit(p) PROVE StatusInv'
  BY <1>12 DEF ReadExit
<1>13. ASSUME NEW p \in Pipe, WakeUp(p) PROVE StatusInv'
  BY <1>13 DEF WakeUp
<1>14. ASSUME NEW p \in Pipe, Restart(p) PROVE StatusInv'
  <2>1. PICK q \in Pipe : /\ NewPipeline(owner[p], q)
                          /\ sup' = [sup EXCEPT ![p] = "over", ![q] = "insert"]
    BY <1>14 DEF Restart
  <2>2. /\ thread' = [thread EXCEPT ![q] = "starting"] /\ owner' = [owner EXCEPT ![q] = owner[p]]
        /\ thread[q] = "none" /\ sup[q] = "none" /\ sup[p] = "restart" /\ p # q
        /\ UNCHANGED <<pc, subject, pipe, status>>
    BY <1>14, <2>1 DEF NewPipeline, Pipe, Restart
  <2>3. thread[p] = "exited"  BY <2>2 DEF ReasonInv
  <2>4. ASSUME NEW r \in Pipe, Unfinished(r) PROVE owner[r] # owner[p]
    BY <2>2, <2>3, <2>4
  <2>5. ASSUME NEW r \in Pipe, Supervising(r)' PROVE r = q \/ (Supervising(r) /\ r # p /\ r # q)
    BY <2>1, <2>2, <2>5
  <2>6. ASSUME NEW r \in Pipe, NEW t \in Pipe, (Unfinished(r) /\ Supervising(t))', owner'[r] = owner'[t]
        PROVE  r = t
    <3>1. CASE t = q
      <4>1. owner'[r] = owner[p]  BY <2>2, <2>6, <3>1
      <4>. QED  BY <2>2, <2>4, <2>6, <3>1, <4>1
    <3>2. CASE t # q
      <4>1. Supervising(t) /\ t # p  BY <2>5, <2>6, <3>2
      <4>2. owner[t] # owner[p]  BY <2>2, <4>1
      <4>3. r # q  BY <2>2, <2>6, <3>2, <4>2
      <4>. QED  BY <2>2, <2>6, <3>2, <4>1, <4>3
    <3>. QED  BY <3>1, <3>2
  <2>7. ASSUME NEW d \in Caller, NEW r \in Pipe, (Adding(d) /\ Unfinished(r))', owner'[r] = subject'[d]
        PROVE  pc'[d] = "insert" /\ r = pipe'[d]
    <3>1. Adding(d) /\ subject[d] # owner[p]  BY <2>2, <2>7
    <3>2. r # q  BY <2>2, <2>7, <3>1
    <3>. QED  BY <2>2, <2>7, <3>1, <3>2
  <2>8. BackoffShowsError'  BY <2>1, <2>2
  <2>. QED  BY <2>6, <2>7, <2>8
<1>15. ASSUME NEW p \in Pipe, Reinsert(p) PROVE StatusInv'
  BY <1>15 DEF Reinsert
<1>16. ASSUME NEW p \in Pipe, ThreadStart(p) PROVE StatusInv'
  <2>1. /\ thread[p] = "starting" /\ thread' = [thread EXCEPT ![p] = "running"]
        /\ status' = [status EXCEPT ![owner[p]] = "online"]
        /\ UNCHANGED <<owner, sup, pc, subject, pipe>>
    BY <1>16 DEF ThreadStart
  <2>2. ASSUME NEW q \in Pipe, sup[q] = "backoff" PROVE owner[q] # owner[p]
    <3>1. thread[q] = "exited"  BY <2>2 DEF ReasonInv
    <3>. QED  BY <2>1, <2>2, <3>1
  <2>3. BackoffShowsError'  BY <2>1, <2>2
  <2>. QED  BY <2>1, <2>3
<1>17. ASSUME NEW p \in Pipe, NEW r \in {"eof", "error"}, ThreadExit(p, r) PROVE StatusInv'
  BY <1>17 DEF ThreadExit
<1>18. ASSUME NEW s \in Stream, DrainCancel(s) PROVE StatusInv'
  BY <1>18 DEF DrainCancel
<1>19. CASE BeginShutdown \/ DrainNotify \/ DrainJoin \/ DrainEnd
  BY <1>19 DEF BeginShutdown, DrainNotify, DrainJoin, DrainEnd
<1>20. CASE UNCHANGED vars
  BY <1>20 DEF vars
<1>. HIDE DEF StatusInv, TypeOK, CallsOK, Allocated, StandaloneInv, SupervisionInv
<1>. QED
  BY <1>1, <1>2, <1>3, <1>4, <1>5, <1>6, <1>7, <1>8, <1>9, <1>10, <1>11, <1>12, <1>13, <1>14, <1>15,
     <1>16, <1>17, <1>18, <1>19, <1>20
     DEF Next, CallerStep, TaskStep, ThreadStep, MainStep

\* Standalone mode: while a task sleeps before it reconnects, the status of its stream
\* reads "error".
THEOREM OutageIsShown == ASSUME Standalone PROVE Spec => []BackoffShowsError
<1>1. Init => StatusInv
  BY DEF Init, StatusInv, BackoffShowsError, Unfinished, Adding
<1>2. StandaloneInv /\ ReasonInv /\ StatusInv /\ [Next]_vars => StatusInv'
  BY NextStatus
<1>3. StatusInv => BackoffShowsError  BY DEF StatusInv
<1>. QED  BY <1>1, <1>2, <1>3, StandaloneInvariant, ReasonInvariant, PTL DEF Spec

(***************************************************************************)
(* The counts of StreamHealth and of the gauge (every mode).  A pipeline   *)
(* in a caller's hands is that caller's alone and has no task yet, so each *)
(* step moves one pipeline, caller or stream from one count to another.    *)
(***************************************************************************)
\* Tasks between the error they counted and the reconnection they will count.
Pending(s) == {p \in Pipe : owner[p] = s /\ sup[p] \in {"backoff", "restart", "insert", "online"}}

OwnershipInv ==
  /\ \A c \in Caller : pc[c] = "insert" => sup[pipe[c]] = "none"
  /\ \A c, d \in Caller : pc[c] = "insert" /\ pc[d] = "insert" /\ pipe[c] = pipe[d] => c = d
  /\ main # "serving" => \A c \in Caller : pc[c] = "idle"

CountInv ==
  /\ \A s \in fresh : s \notin registry /\ errors[s] = 0 /\ reconnects[s] = 0
  /\ \A c \in Caller : pc[c] \in {"spawn", "insert"} => subject[c] \notin fresh
  /\ \A p \in Pipe : p <= created => owner[p] \notin fresh
  /\ \A s \in registry : errors[s] = reconnects[s] + Cardinality(Pending(s))

LEMMA NextOwnership == ASSUME SupervisionInv, OwnershipInv, [Next]_vars PROVE OwnershipInv'
<1>. USE DEF SupervisionInv, TypeOK, Allocated, CallsOK, OwnershipInv,
         Call, Goto, Return, MayCall, Send, Watch, CancelToken, CountActive, Reported,
         MarkError, MarkRecovered,
         pipeVars, watchVars, healthVars, callVars, mainVars, NoPipe
<1>1. ASSUME NEW c \in Caller, NEW s \in Stream, AddStream(c, s) PROVE OwnershipInv'
  BY <1>1 DEF AddStream
<1>2. ASSUME NEW c \in Caller, NEW s \in Stream, StartPipeline(c, s) PROVE OwnershipInv'
  BY <1>2 DEF StartPipeline
<1>3. ASSUME NEW c \in Caller, LookUp(c) PROVE OwnershipInv'
  BY <1>3 DEF LookUp
<1>4. ASSUME NEW c \in Caller, Count(c) PROVE OwnershipInv'
  BY <1>4 DEF Count
<1>5. ASSUME NEW p \in Pipe, Recovered(p) PROVE OwnershipInv'
  BY <1>5 DEF Recovered
<1>6. ASSUME NEW c \in Caller, Spawn(c) PROVE OwnershipInv'
  <2>1. PICK q \in Pipe : NewPipeline(subject[c], q) /\ pipe' = [pipe EXCEPT ![c] = q]
    BY <1>6 DEF Spawn
  <2>2. /\ q = created + 1 /\ pc[c] = "spawn" /\ pc' = [pc EXCEPT ![c] = "insert"]
        /\ sup[q] = "none" /\ UNCHANGED <<sup, main>>
    BY <1>6, <2>1 DEF Spawn, NewPipeline, Pipe
  <2>3. ASSUME NEW d \in Caller, pc[d] = "insert" PROVE pipe[d] # q /\ d # c
    BY <2>2, <2>3 DEF Pipe
  <2>. QED  BY <2>1, <2>2, <2>3
<1>7. ASSUME NEW c \in Caller, Insert(c) PROVE OwnershipInv'
  BY <1>7 DEF Insert
<1>8. ASSUME NEW c \in Caller, NEW s \in Stream, NEW o \in Kinds, TakeHandle(c, o, s) PROVE OwnershipInv'
  BY <1>8 DEF TakeHandle
<1>9. ASSUME NEW c \in Caller, Cancel(c) PROVE OwnershipInv'
  BY <1>9 DEF Cancel
<1>10. ASSUME NEW c \in Caller, Notify(c) PROVE OwnershipInv'
  BY <1>10 DEF Notify
<1>11. ASSUME NEW c \in Caller, Unregister(c) PROVE OwnershipInv'
  BY <1>11 DEF Unregister
<1>12. ASSUME NEW p \in Pipe, ReadExit(p) PROVE OwnershipInv'
  BY <1>12 DEF ReadExit
<1>13. ASSUME NEW p \in Pipe, WakeUp(p) PROVE OwnershipInv'
  BY <1>13 DEF WakeUp
<1>14. ASSUME NEW p \in Pipe, Restart(p) PROVE OwnershipInv'
  <2>1. PICK q \in Pipe : /\ NewPipeline(owner[p], q)
                          /\ sup' = [sup EXCEPT ![p] = "over", ![q] = "insert"]
    BY <1>14 DEF Restart
  <2>2. q = created + 1 /\ sup[p] = "restart" /\ UNCHANGED <<pc, pipe, main>>
    BY <1>14, <2>1 DEF Restart, NewPipeline
  <2>3. ASSUME NEW d \in Caller, pc[d] = "insert" PROVE pipe[d] # q /\ pipe[d] # p
    BY <2>2, <2>3 DEF Pipe
  <2>. QED  BY <2>1, <2>2, <2>3, ZenonT(60)
<1>15. ASSUME NEW p \in Pipe, Reinsert(p) PROVE OwnershipInv'
  BY <1>15 DEF Reinsert
<1>16. ASSUME NEW p \in Pipe, ThreadStep(p) PROVE OwnershipInv'
  BY <1>16 DEF ThreadStep, ThreadStart, ThreadExit
<1>17. CASE MainStep
  BY <1>17 DEF MainStep, BeginShutdown, DrainCancel, DrainNotify, DrainJoin, DrainEnd
<1>18. CASE UNCHANGED vars
  BY <1>18 DEF vars
<1>. HIDE DEF OwnershipInv, TypeOK, CallsOK, Allocated, SupervisionInv
<1>. QED
  BY <1>1, <1>2, <1>3, <1>4, <1>5, <1>6, <1>7, <1>8, <1>9, <1>10, <1>11, <1>12, <1>13, <1>14, <1>15,
     <1>16, <1>17, <1>18 DEF Next, CallerStep, TaskStep

LEMMA OwnershipInvariant == Spec => []OwnershipInv
<1>1. Init => OwnershipInv
  BY DEF Init, OwnershipInv
<1>2. SupervisionInv /\ OwnershipInv /\ [Next]_vars => OwnershipInv'
  BY NextOwnership
<1>. QED  BY <1>1, <1>2, SupervisionInvariant, PTL DEF Spec

LEMMA PipesFinite == \A T \in SUBSET Pipe : IsFiniteSet(T) /\ Cardinality(T) \in Nat
<1>1. IsFiniteSet(Pipe)  BY BoundAssumption, FS_Interval DEF Pipe
<1>. QED  BY <1>1, FS_Subset, FS_CardinalityType

\* One element enters or leaves a finite set.
LEMMA OneMore ==
  ASSUME NEW S, NEW T, NEW x, IsFiniteSet(S), x \notin S, T = S \cup {x}
  PROVE  /\ IsFiniteSet(T) /\ Cardinality(S) \in Nat
         /\ Cardinality(T) = Cardinality(S) + 1
BY FS_AddElement, FS_CardinalityType

LEMMA OneLess ==
  ASSUME NEW S, NEW T, NEW x, IsFiniteSet(S), x \in S, T = S \ {x}
  PROVE  /\ IsFiniteSet(T) /\ Cardinality(S) \in Nat
         /\ Cardinality(T) \in Nat /\ Cardinality(T) = Cardinality(S) - 1
BY FS_RemoveElement, FS_CardinalityType

LEMMA OneReplaced ==
  ASSUME NEW S, NEW T, NEW x, NEW y, IsFiniteSet(S), x \in S, y \notin S, T = (S \ {x}) \cup {y}
  PROVE  Cardinality(T) = Cardinality(S)
<1> DEFINE R == S \ {x}
<1>1. IsFiniteSet(R) /\ Cardinality(S) \in Nat /\ Cardinality(R) = Cardinality(S) - 1
  BY OneLess
<1>2. y \notin R /\ T = R \cup {y}  OBVIOUS
<1>. HIDE DEF R
<1>3. Cardinality(T) = Cardinality(R) + 1  BY <1>1, <1>2, OneMore
<1>. QED  BY <1>1, <1>3

LEMMA NextCount ==
  ASSUME SupervisionInv, OwnershipInv, CountInv, [Next]_vars PROVE CountInv'
<1>. USE DEF SupervisionInv, TypeOK, Allocated, CallsOK, OwnershipInv, CountInv,
         Call, Goto, Return, MayCall, Send, Watch, CancelToken, CountActive, Reported,
         MarkError, MarkRecovered,
         pipeVars, watchVars, healthVars, callVars, mainVars, NoPipe
<1>1. ASSUME NEW c \in Caller, NEW s \in Stream, AddStream(c, s) PROVE CountInv'
  <2>1. /\ s \in fresh /\ fresh' = fresh \ {s} /\ registry' = registry \cup {s}
        /\ pc' = [pc EXCEPT ![c] = "spawn"] /\ subject' = [subject EXCEPT ![c] = s]
        /\ UNCHANGED <<created, owner, sup, errors, reconnects>>
    BY <1>1 DEF AddStream
  <2>2. Pending(s) = {}
    <3>1. ASSUME NEW p \in Pipe, owner[p] = s PROVE sup[p] = "none"
      BY <2>1, <3>1 DEF Pipe
    <3>. QED  BY <3>1 DEF Pending
  <2>3. \A t \in Stream : Pending(t)' = Pending(t)  BY <2>1 DEF Pending
  <2>4. Cardinality({}) = 0  BY FS_EmptySet
  <2>5. \A t \in registry' : errors'[t] = reconnects'[t] + Cardinality(Pending(t)')
    <3>1. TAKE t \in registry'
    <3>2. CASE t = s
      <4>1. Cardinality(Pending(s)') = 0  BY <2>2, <2>3, <2>4
      <4>2. errors'[s] = 0 /\ reconnects'[s] = 0  BY <2>1
      <4>. QED  BY <3>2, <4>1, <4>2
    <3>3. CASE t # s  BY <2>1, <2>3, <3>3
    <3>. QED  BY <3>2, <3>3
  <2>. QED  BY <2>1, <2>5
<1>2. ASSUME NEW p \in Pipe, ReadExit(p) PROVE CountInv'
  <2>1. /\ sup[p] = "wait" /\ p <= created
        /\ UNCHANGED <<registry, fresh, pc, subject, created, owner, reconnects>>
    BY <1>2 DEF ReadExit, Pipe
  <2>2. CASE EndsSupervision(p)
    <3>1. sup' = [sup EXCEPT ![p] = "over"] /\ UNCHANGED errors  BY <1>2, <2>2 DEF ReadExit
    <3>2. \A t \in Stream : Pending(t)' = Pending(t)  BY <2>1, <3>1 DEF Pending
    <3>. QED  BY <2>1, <3>1, <3>2
  <2>3. CASE ~EndsSupervision(p)
    <3>1. /\ sup' = [sup EXCEPT ![p] = "backoff"]
          /\ errors' = [errors EXCEPT ![owner[p]] = errors[owner[p]] + 1]
      BY <1>2, <2>3 DEF ReadExit
    <3>2. Pending(owner[p])' = Pending(owner[p]) \cup {p}  BY <2>1, <3>1 DEF Pending
    <3>3. Cardinality(Pending(owner[p])') = Cardinality(Pending(owner[p])) + 1
      <4>1. IsFiniteSet(Pending(owner[p])) /\ p \notin Pending(owner[p])
        BY <2>1, PipesFinite DEF Pending
      <4> DEFINE P == Pending(owner[p])
                 Q == Pending(owner[p])'
      <4>2. IsFiniteSet(P) /\ p \notin P /\ Q = P \cup {p}  BY <3>2, <4>1
      <4>. HIDE DEF P, Q
      <4>3. Cardinality(Q) = Cardinality(P) + 1  BY <4>2, OneMore, ZenonT(60)
      <4>. QED  BY <4>3 DEF P, Q
    <3>4. \A t \in Stream \ {owner[p]} : Pending(t)' = Pending(t)  BY <2>1, <3>1 DEF Pending
    <3>5. \A t \in Stream : Cardinality(Pending(t)) \in Nat  BY PipesFinite DEF Pending
    <3>6. \A t \in registry' : errors'[t] = reconnects'[t] + Cardinality(Pending(t)')
      <4>1. TAKE t \in registry'
      <4>2. CASE t = owner[p]  BY <2>1, <3>1, <3>3, <3>5, <4>2
      <4>3. CASE t # owner[p]  BY <2>1, <3>1, <3>4, <4>3
      <4>. QED  BY <4>2, <4>3
    <3>. QED  BY <2>1, <3>1, <3>6
  <2>. QED  BY <2>2, <2>3
<1>3. ASSUME NEW p \in Pipe, Recovered(p) PROVE CountInv'
  <2>1. /\ sup[p] = "online" /\ p <= created
        /\ sup' = [sup EXCEPT ![p] = "wait"]
        /\ reconnects' = [reconnects EXCEPT ![owner[p]] = reconnects[owner[p]] + 1]
        /\ UNCHANGED <<registry, fresh, pc, subject, created, owner, errors>>
    BY <1>3 DEF Recovered, Pipe
  <2>2. Pending(owner[p])' = Pending(owner[p]) \ {p}  BY <2>1 DEF Pending
  <2>3. /\ Cardinality(Pending(owner[p])') = Cardinality(Pending(owner[p])) - 1
        /\ Cardinality(Pending(owner[p])') \in Nat
    <3>1. IsFiniteSet(Pending(owner[p])) /\ p \in Pending(owner[p])
      BY <2>1, PipesFinite DEF Pending
    <3>. QED  BY <2>2, <3>1, OneLess, ZenonT(60)
  <2>4. \A t \in Stream \ {owner[p]} : Pending(t)' = Pending(t)  BY <2>1 DEF Pending
  <2>5. \A t \in Stream : Cardinality(Pending(t)) \in Nat  BY PipesFinite DEF Pending
  <2>6. \A t \in registry' : errors'[t] = reconnects'[t] + Cardinality(Pending(t)')
    <3>1. TAKE t \in registry'
    <3>2. CASE t = owner[p]  BY <2>1, <2>3, <2>5, <3>2
    <3>3. CASE t # owner[p]  BY <2>1, <2>4, <3>3
    <3>. QED  BY <3>2, <3>3
  <2>. QED  BY <2>1, <2>6
<1>4. ASSUME NEW p \in Pipe, WakeUp(p) PROVE CountInv'
  <2>1. /\ sup[p] = "backoff"
        /\ UNCHANGED <<registry, fresh, pc, subject, created, owner, errors, reconnects>>
    BY <1>4 DEF WakeUp
  <2>2. ASSUME NEW t \in registry PROVE Pending(t)' = Pending(t)
    <3>1. CASE owner[p] \in registry
      <4>1. sup' = [sup EXCEPT ![p] = "restart"]  BY <1>4, <3>1 DEF WakeUp
      <4>. QED  BY <2>1, <4>1 DEF Pending
    <3>2. CASE owner[p] \notin registry
      <4>1. sup' = [sup EXCEPT ![p] = "over"] /\ owner[p] # t  BY <1>4, <3>2 DEF WakeUp
      <4>. QED  BY <2>1, <4>1 DEF Pending
    <3>. QED  BY <3>1, <3>2
  <2>. QED  BY <2>1, <2>2
<1>5. ASSUME NEW p \in Pipe, Restart(p) PROVE CountInv'
  <2>1. PICK q \in Pipe : /\ NewPipeline(owner[p], q)
                          /\ sup' = [sup EXCEPT ![p] = "over", ![q] = "insert"]
    BY <1>5 DEF Restart
  <2>2. /\ q = created + 1 /\ created' = q /\ owner' = [owner EXCEPT ![q] = owner[p]]
        /\ sup[p] = "restart" /\ sup[q] = "none" /\ p <= created
        /\ UNCHANGED <<registry, fresh, pc, subject, errors, reconnects>>
    BY <1>5, <2>1 DEF Restart, NewPipeline, Pipe
  <2>8. /\ owner'[q] = owner[p] /\ sup'[q] = "insert" /\ sup'[p] = "over" /\ p # q
        /\ \A r \in Pipe \ {q} : owner'[r] = owner[r]
        /\ \A r \in Pipe \ {p, q} : sup'[r] = sup[r]
    BY <2>1, <2>2
  <2>9. owner'[p] = owner[p]  BY <2>8
  <2>3. ASSUME NEW t \in Stream \ {owner[p]} PROVE Pending(t)' = Pending(t)
    <3>1. ASSUME NEW r \in Pipe PROVE r \in Pending(t)' <=> r \in Pending(t)
      <4>1. CASE r = p  BY <2>9, <4>1 DEF Pending
      <4>2. CASE r = q  BY <2>2, <2>8, <4>2 DEF Pending
      <4>3. CASE r # p /\ r # q  BY <2>8, <4>3 DEF Pending
      <4>. QED  BY <4>1, <4>2, <4>3
    <3>. QED  BY <3>1 DEF Pending
  <2>4. Pending(owner[p])' = (Pending(owner[p]) \ {p}) \cup {q}
    <3>1. ASSUME NEW r \in Pipe
          PROVE  r \in Pending(owner[p])' <=> r \in (Pending(owner[p]) \ {p}) \cup {q}
      <4>1. CASE r = p  BY <2>8, <4>1 DEF Pending
      <4>2. CASE r = q  BY <2>8, <2>9, <4>2 DEF Pending
      <4>3. CASE r # p /\ r # q  BY <2>8, <2>9, <4>3 DEF Pending
      <4>. QED  BY <4>1, <4>2, <4>3
    <3>. QED  BY <3>1 DEF Pending
  <2>5. Cardinality(Pending(owner[p])') = Cardinality(Pending(owner[p]))
    <3>1. IsFiniteSet(Pending(owner[p])) /\ p \in Pending(owner[p]) /\ q \notin Pending(owner[p])
      BY <2>2, PipesFinite DEF Pending
    <3> DEFINE P == Pending(owner[p])
               Q == Pending(owner[p])'
    <3>2. IsFiniteSet(P) /\ p \in P /\ q \notin P /\ Q = (P \ {p}) \cup {q}  BY <2>4, <3>1
    <3>. HIDE DEF P, Q
    <3>3. Cardinality(Q) = Cardinality(P)  BY <3>2, OneReplaced
    <3>. QED  BY <3>3 DEF P, Q
  <2>6. \A t \in registry' : errors'[t] = reconnects'[t] + Cardinality(Pending(t)')
    BY <2>2, <2>3, <2>5
  <2>7. \A r \in Pipe : r <= created' => owner'[r] \notin fresh'
    BY <2>2 DEF Pipe
  <2>. QED  BY <2>2, <2>6, <2>7
<1>6. ASSUME NEW c \in Caller, Spawn(c) PROVE CountInv'
  <2>1. PICK q \in Pipe : NewPipeline(subject[c], q)  BY <1>6 DEF Spawn
  <2>2. /\ q = created + 1 /\ created' = q /\ owner' = [owner EXCEPT ![q] = subject[c]]
        /\ pc[c] = "spawn" /\ sup[q] = "none" /\ pc' = [pc EXCEPT ![c] = "insert"]
        /\ UNCHANGED <<registry, fresh, subject, sup, errors, reconnects>>
    BY <1>6, <2>1 DEF Spawn, NewPipeline, Pipe
  <2>3. \A t \in Stream : Pending(t)' = Pending(t)  BY <2>2 DEF Pending
  <2>4. \A r \in Pipe : r <= created' => owner'[r] \notin fresh'
    BY <2>2 DEF Pipe
  <2>5. \A d \in Caller : pc'[d] \in {"spawn", "insert"} => subject'[d] \notin fresh'
    BY <2>2
  <2>. QED  BY <2>2, <2>3, <2>4, <2>5
<1>7. ASSUME NEW c \in Caller, Insert(c) PROVE CountInv'
  <2>1. \A t \in Stream : Pending(t)' = Pending(t)
    BY <1>7 DEF Insert, Pending
  <2>. QED  BY <1>7, <2>1 DEF Insert
<1>8. ASSUME NEW p \in Pipe, Reinsert(p) PROVE CountInv'
  <2>1. \A t \in Stream : Pending(t)' = Pending(t)
    BY <1>8 DEF Reinsert, Pending
  <2>. QED  BY <1>8, <2>1 DEF Reinsert
<1>9. ASSUME UNCHANGED <<owner, sup, created, fresh, errors, reconnects>>, registry' \subseteq registry,
             \A c \in Caller : pc'[c] \in {"spawn", "insert"}
               => subject'[c] \notin fresh
      PROVE  CountInv'
  <2>1. \A t \in Stream : Pending(t)' = Pending(t)  BY <1>9 DEF Pending
  <2>. QED  BY <1>9, <2>1
<1>10. ASSUME NEW c \in Caller, NEW s \in Stream, StartPipeline(c, s) PROVE CountInv'
  BY <1>9, <1>10 DEF StartPipeline
<1>11. ASSUME NEW c \in Caller, LookUp(c) PROVE CountInv'
  BY <1>9, <1>11 DEF LookUp
<1>12. ASSUME NEW c \in Caller, Count(c) PROVE CountInv'
  BY <1>9, <1>12 DEF Count
<1>13. ASSUME NEW c \in Caller, NEW s \in Stream, NEW o \in Kinds, TakeHandle(c, o, s) PROVE CountInv'
  BY <1>9, <1>13 DEF TakeHandle
<1>14. ASSUME NEW c \in Caller, Cancel(c) PROVE CountInv'
  BY <1>9, <1>14 DEF Cancel
<1>15. ASSUME NEW c \in Caller, Notify(c) PROVE CountInv'
  BY <1>9, <1>15 DEF Notify
<1>16. ASSUME NEW c \in Caller, Unregister(c) PROVE CountInv'
  BY <1>9, <1>16 DEF Unregister
<1>17. ASSUME NEW p \in Pipe, ThreadStep(p) PROVE CountInv'
  BY <1>9, <1>17 DEF ThreadStep, ThreadStart, ThreadExit
<1>18. CASE MainStep
  BY <1>9, <1>18 DEF MainStep, BeginShutdown, DrainCancel, DrainNotify, DrainJoin, DrainEnd
<1>19. CASE UNCHANGED vars
  BY <1>9, <1>19 DEF vars
<1>. HIDE DEF CountInv, OwnershipInv, TypeOK, CallsOK, Allocated, SupervisionInv
<1>. QED
  BY <1>1, <1>2, <1>3, <1>4, <1>5, <1>6, <1>7, <1>8, <1>10, <1>11, <1>12, <1>13, <1>14, <1>15,
     <1>16, <1>17, <1>18, <1>19 DEF Next, CallerStep, TaskStep

LEMMA CountInvariant == Spec => []CountInv
<1>1. Init => CountInv
  <2>1. ASSUME Init, NEW s \in Stream PROVE Pending(s) = {}
    BY <2>1 DEF Init, Pending
  <2>2. Cardinality({}) = 0  BY FS_EmptySet
  <2>3. ASSUME Init PROVE \A s \in registry : errors[s] = reconnects[s] + Cardinality(Pending(s))
    <3>1. registry \subseteq Stream  BY <2>3, StreamAssumption DEF Init
    <3>2. \A s \in Stream : errors[s] = 0 /\ reconnects[s] = 0  BY <2>3 DEF Init
    <3>. QED  BY <2>1, <2>2, <2>3, <3>1, <3>2
  <2>. QED  BY <2>3, StreamAssumption DEF Init, CountInv, Pipe
<1>2. SupervisionInv /\ OwnershipInv /\ CountInv /\ [Next]_vars => CountInv'
  BY NextCount
<1>. QED  BY <1>1, <1>2, SupervisionInvariant, OwnershipInvariant, PTL DEF Spec

\* In every mode, the errors and the reconnections a registered stream has counted
\* differ by the tasks that are on their way from the one to the other.
THEOREM EveryErrorIsAnswered == Spec => []ErrorsMatchReconnects
<1>1. CountInv => ErrorsMatchReconnects  BY DEF CountInv, ErrorsMatchReconnects, Pending
<1>. QED  BY <1>1, CountInvariant, PTL

(***************************************************************************)
(* The gauge (every mode).                                                 *)
(***************************************************************************)
Counting == {c \in Caller : pc[c] = "count"}
Ending == {c \in Caller : pc[c] \in {"cancel", "notify", "unregister"}}
Resuming == {p \in Pipe : sup[p] = "online"}
Held == {s \in Stream : handle[s] # NoPipe}

LEMMA GaugeRestated ==
  GaugeCoversHandles <=>
    gauge + Cardinality(Counting) + Cardinality(Resuming) >= Cardinality(Held) + Cardinality(Ending)
BY DEF GaugeCoversHandles, Counting, Ending, Resuming, Held

\* The five counts are numbers, and the sets behind them finite.
LEMMA GaugeSets ==
  ASSUME IsFiniteSet(Stream), IsFiniteSet(Caller)
  PROVE  /\ IsFiniteSet(Counting) /\ Cardinality(Counting) \in Nat
         /\ IsFiniteSet(Ending) /\ Cardinality(Ending) \in Nat
         /\ IsFiniteSet(Resuming) /\ Cardinality(Resuming) \in Nat
         /\ IsFiniteSet(Held) /\ Cardinality(Held) \in Nat
<1>1. Counting \in SUBSET Caller /\ Ending \in SUBSET Caller  BY DEF Counting, Ending
<1>2. Resuming \in SUBSET Pipe  BY DEF Resuming
<1>3. Held \in SUBSET Stream  BY DEF Held
<1>. QED  BY <1>1, <1>2, <1>3, PipesFinite, FS_Subset, FS_CardinalityType

\* A handle that enters the map raises the number of entries by one at most, and one
\* that leaves lowers it by one.
LEMMA HandleEnters ==
  ASSUME IsFiniteSet(Stream), IsFiniteSet(Caller), handle \in [Stream -> Pipe \cup {NoPipe}],
         NEW s \in Stream, NEW p \in Pipe, handle' = [handle EXCEPT ![s] = p]
  PROVE  Cardinality(Held') \in Nat /\ Cardinality(Held') <= Cardinality(Held) + 1
<1>1. Held' = Held \cup {s}  BY DEF Held, Pipe, NoPipe
<1>2. IsFiniteSet(Held) /\ Cardinality(Held) \in Nat  BY GaugeSets
<1> DEFINE H == Held
           J == Held'
<1>3. J = H \cup {s} /\ IsFiniteSet(H) /\ Cardinality(H) \in Nat  BY <1>1, <1>2
<1>. HIDE DEF H, J
<1>4. Cardinality(H \cup {s}) = IF s \in H THEN Cardinality(H) ELSE Cardinality(H) + 1
  BY <1>3, FS_AddElement
<1>5. Cardinality(J) \in Nat /\ Cardinality(J) <= Cardinality(H) + 1  BY <1>3, <1>4
<1>. QED  BY <1>5 DEF H, J

LEMMA HandleLeaves ==
  ASSUME IsFiniteSet(Stream), IsFiniteSet(Caller), handle \in [Stream -> Pipe \cup {NoPipe}],
         NEW s \in Stream, handle[s] # NoPipe, handle' = [handle EXCEPT ![s] = NoPipe]
  PROVE  Cardinality(Held') \in Nat /\ Cardinality(Held') = Cardinality(Held) - 1
<1>1. Held' = Held \ {s} /\ s \in Held  BY DEF Held
<1>2. IsFiniteSet(Held) /\ Cardinality(Held) \in Nat  BY GaugeSets
<1> DEFINE H == Held
           J == Held'
<1>3. J = H \ {s} /\ s \in H /\ IsFiniteSet(H)  BY <1>1, <1>2
<1>. HIDE DEF H, J
<1>4. Cardinality(J) \in Nat /\ Cardinality(J) = Cardinality(H) - 1  BY <1>3, OneLess
<1>. QED  BY <1>4 DEF H, J

\* A call between its insertion and its increment, or between its removal of the handle
\* and its decrement, is counted once.
LEMMA CallerEnters ==
  ASSUME IsFiniteSet(Stream), IsFiniteSet(Caller), NEW c \in Caller
  PROVE  /\ c \notin Counting /\ Counting' = Counting \cup {c}
              => Cardinality(Counting') = Cardinality(Counting) + 1
         /\ c \notin Ending /\ Ending' = Ending \cup {c}
              => Cardinality(Ending') = Cardinality(Ending) + 1
         /\ c \in Counting /\ Counting' = Counting \ {c}
              => Cardinality(Counting') = Cardinality(Counting) - 1
         /\ c \in Ending /\ Ending' = Ending \ {c}
              => Cardinality(Ending') = Cardinality(Ending) - 1
<1>1. IsFiniteSet(Counting) /\ IsFiniteSet(Ending)  BY GaugeSets
<1> DEFINE C == Counting
           D == Counting'
           E == Ending
           F == Ending'
<1>2. IsFiniteSet(C) /\ IsFiniteSet(E)  BY <1>1
<1>. HIDE DEF C, D, E, F
<1>3. c \notin C /\ D = C \cup {c} => Cardinality(D) = Cardinality(C) + 1  BY <1>2, OneMore
<1>4. c \notin E /\ F = E \cup {c} => Cardinality(F) = Cardinality(E) + 1  BY <1>2, OneMore
<1>5. c \in C /\ D = C \ {c} => Cardinality(D) = Cardinality(C) - 1  BY <1>2, OneLess
<1>6. c \in E /\ F = E \ {c} => Cardinality(F) = Cardinality(E) - 1  BY <1>2, OneLess
<1>. QED  BY <1>3, <1>4, <1>5, <1>6 DEF C, D, E, F

LEMMA NextGauge ==
  ASSUME IsFiniteSet(Stream), IsFiniteSet(Caller),
         SupervisionInv, OwnershipInv, GaugeCoversHandles, [Next]_vars
  PROVE  GaugeCoversHandles'
<1> DEFINE Covered ==
      gauge + Cardinality(Counting) + Cardinality(Resuming) >= Cardinality(Held) + Cardinality(Ending)
<1>a. Covered  BY GaugeRestated
<1>b. Covered' => GaugeCoversHandles'
  BY DEF GaugeCoversHandles, Counting, Ending, Resuming, Held
<1>n. /\ Cardinality(Counting) \in Nat /\ Cardinality(Ending) \in Nat
      /\ Cardinality(Resuming) \in Nat /\ Cardinality(Held) \in Nat /\ gauge \in Int
  BY GaugeSets DEF SupervisionInv, TypeOK
<1>t. /\ handle \in [Stream -> Pipe \cup {NoPipe}] /\ pc = [c \in Caller |-> pc[c]]
      /\ sup = [p \in Pipe |-> sup[p]] /\ subject \in [Caller -> Stream]
      /\ \A c \in Caller : pc[c] = "insert" => pipe[c] \in Pipe
  <2>1. TypeOK /\ CallsOK  BY DEF SupervisionInv
  <2>2. handle \in [Stream -> Pipe \cup {NoPipe}] /\ subject \in [Caller -> Stream]
    BY <2>1 DEF TypeOK
  <2>3. pc = [c \in Caller |-> pc[c]]  BY <2>1 DEF TypeOK
  <2>4. sup = [p \in Pipe |-> sup[p]]  BY <2>1 DEF TypeOK
  <2>5. \A c \in Caller : pc[c] = "insert" => pipe[c] \in Pipe  BY <2>1 DEF CallsOK
  <2>. QED  BY <2>2, <2>3, <2>4, <2>5
<1>. USE DEF Call, Goto, Return, MayCall, CancelToken, CountActive,
         pipeVars, watchVars, healthVars, callVars, mainVars
<1>1. ASSUME NEW c \in Caller, NEW s \in Stream, NEW o \in Kinds, TakeHandle(c, o, s) PROVE Covered'
  <2>1. /\ pc[c] = "idle" /\ pc' = [pc EXCEPT ![c] = "cancel"]
        /\ handle[s] # NoPipe /\ handle' = [handle EXCEPT ![s] = NoPipe]
        /\ UNCHANGED <<sup, gauge>>
    BY <1>1 DEF TakeHandle
  <2>2. Cardinality(Held') = Cardinality(Held) - 1  BY <1>t, <2>1, HandleLeaves
  <2>3. c \notin Ending /\ Ending' = Ending \cup {c}  BY <1>t, <2>1 DEF Ending
  <2>4. Cardinality(Ending') = Cardinality(Ending) + 1  BY <2>3, CallerEnters
  <2>5. Counting' = Counting /\ Resuming' = Resuming  BY <1>t, <2>1 DEF Counting, Resuming
  <2>. QED  BY <1>a, <1>n, <2>1, <2>2, <2>4, <2>5
<1>2. ASSUME NEW c \in Caller, Insert(c) PROVE Covered'
  <2>1. /\ pc[c] = "insert" /\ pc' = [pc EXCEPT ![c] = "count"]
        /\ handle' = [handle EXCEPT ![subject[c]] = pipe[c]]
        /\ sup' = [sup EXCEPT ![pipe[c]] = "wait"] /\ sup[pipe[c]] = "none"
        /\ UNCHANGED gauge
    BY <1>2 DEF Insert, Watch, OwnershipInv
  <2>2. Cardinality(Held') \in Nat /\ Cardinality(Held') <= Cardinality(Held) + 1
    BY <1>t, <2>1, HandleEnters
  <2>3. c \notin Counting /\ Counting' = Counting \cup {c}  BY <1>t, <2>1 DEF Counting
  <2>4. Cardinality(Counting') = Cardinality(Counting) + 1  BY <2>3, CallerEnters
  <2>5. Ending' = Ending /\ Resuming' = Resuming  BY <1>t, <2>1 DEF Ending, Resuming
  <2>. QED  BY <1>a, <1>n, <2>1, <2>2, <2>4, <2>5
<1>3. ASSUME NEW c \in Caller, Count(c) PROVE Covered'
  <2>1. /\ pc[c] = "count" /\ pc' = [pc EXCEPT ![c] = "idle"] /\ gauge' = gauge + 1
        /\ UNCHANGED <<sup, handle>>
    BY <1>3 DEF Count
  <2>2. c \in Counting /\ Counting' = Counting \ {c}  BY <1>t, <2>1 DEF Counting
  <2>3. Cardinality(Counting') = Cardinality(Counting) - 1  BY <2>2, CallerEnters
  <2>4. Ending' = Ending /\ Resuming' = Resuming /\ Held' = Held
    BY <1>t, <2>1 DEF Ending, Resuming, Held
  <2>. QED  BY <1>a, <1>n, <2>1, <2>3, <2>4
<1>4. ASSUME NEW c \in Caller, c \in Ending, pc' = [pc EXCEPT ![c] = "idle"], gauge' = gauge - 1,
             UNCHANGED <<sup, handle>>
      PROVE  Covered'
  <2>1. Ending' = Ending \ {c}  BY <1>t, <1>4 DEF Ending
  <2>2. Cardinality(Ending') = Cardinality(Ending) - 1  BY <1>4, <2>1, CallerEnters
  <2>3. Counting' = Counting /\ Resuming' = Resuming /\ Held' = Held
    BY <1>t, <1>4 DEF Counting, Ending, Resuming, Held
  <2>. QED  BY <1>a, <1>n, <1>4, <2>2, <2>3
<1>5. ASSUME \A c \in Caller : pc'[c] = "count" <=> pc[c] = "count",
             \A c \in Caller : pc'[c] \in {"cancel", "notify", "unregister"}
                               <=> pc[c] \in {"cancel", "notify", "unregister"},
             \A p \in Pipe : sup'[p] = "online" <=> sup[p] = "online",
             UNCHANGED <<handle, gauge>>
      PROVE  Covered'
  <2>1. Counting' = Counting /\ Ending' = Ending /\ Resuming' = Resuming /\ Held' = Held
    BY <1>5 DEF Counting, Ending, Resuming, Held
  <2>. QED  BY <1>a, <1>5, <2>1
<1>6. ASSUME NEW c \in Caller, Notify(c) PROVE Covered'
  <2>1. CASE op[c] = "remove"
    <3>1. /\ pc[c] = "notify" /\ pc' = [pc EXCEPT ![c] = "unregister"]
          /\ UNCHANGED <<sup, handle, gauge>>
      BY <1>6, <2>1 DEF Notify
    <3>. QED  BY <1>t, <1>5, <3>1
  <2>2. CASE op[c] # "remove"  BY <1>4, <1>6, <2>2 DEF Notify, Ending
  <2>. QED  BY <2>1, <2>2
<1>7. ASSUME NEW c \in Caller, Unregister(c) PROVE Covered'
  BY <1>4, <1>7 DEF Unregister, Ending
<1>8. ASSUME NEW c \in Caller, Cancel(c) PROVE Covered'
  BY <1>t, <1>5, <1>8 DEF Cancel
<1>9. ASSUME NEW c \in Caller, NEW s \in Stream, AddStream(c, s) PROVE Covered'
  BY <1>t, <1>5, <1>9 DEF AddStream
<1>10. ASSUME NEW c \in Caller, NEW s \in Stream, StartPipeline(c, s) PROVE Covered'
  BY <1>t, <1>5, <1>10 DEF StartPipeline
<1>11. ASSUME NEW c \in Caller, LookUp(c) PROVE Covered'
  BY <1>t, <1>5, <1>11 DEF LookUp
<1>12. ASSUME NEW c \in Caller, Spawn(c) PROVE Covered'
  BY <1>t, <1>5, <1>12 DEF Spawn
<1>13. ASSUME NEW p \in Pipe, ReadExit(p) PROVE Covered'
  BY <1>t, <1>5, <1>13 DEF ReadExit
<1>14. ASSUME NEW p \in Pipe, WakeUp(p) PROVE Covered'
  BY <1>t, <1>5, <1>14 DEF WakeUp
<1>15. ASSUME NEW p \in Pipe, Restart(p) PROVE Covered'
  <2>1. PICK q \in Pipe : /\ NewPipeline(owner[p], q)
                          /\ sup' = [sup EXCEPT ![p] = "over", ![q] = "insert"]
    BY <1>15 DEF Restart
  <2>2. sup[q] = "none" /\ sup[p] = "restart" /\ UNCHANGED <<pc, handle, gauge>>
    BY <1>15, <2>1 DEF Restart, NewPipeline, SupervisionInv, Allocated, TypeOK, Pipe
  <2>. QED  BY <1>t, <1>5, <2>1, <2>2
<1>16. ASSUME NEW p \in Pipe, Reinsert(p) PROVE Covered'
  <2>1. /\ sup[p] = "insert" /\ sup' = [sup EXCEPT ![p] = "online"]
        /\ handle' = [handle EXCEPT ![owner[p]] = p] /\ owner[p] \in Stream
        /\ UNCHANGED <<pc, gauge>>
    BY <1>16 DEF Reinsert, SupervisionInv, TypeOK
  <2>2. Cardinality(Held') \in Nat /\ Cardinality(Held') <= Cardinality(Held) + 1
    BY <1>t, <2>1, HandleEnters
  <2> DEFINE R == Resuming
             T == Resuming'
  <2>3. p \notin R /\ T = R \cup {p}  BY <1>t, <2>1 DEF Resuming
  <2>4. IsFiniteSet(R)  BY GaugeSets
  <2>. HIDE DEF R, T
  <2>5. Cardinality(T) = Cardinality(R) + 1  BY <2>3, <2>4, OneMore
  <2>6. Cardinality(Resuming') = Cardinality(Resuming) + 1  BY <2>5 DEF R, T
  <2>7. Counting' = Counting /\ Ending' = Ending  BY <2>1 DEF Counting, Ending
  <2>. QED  BY <1>a, <1>n, <2>1, <2>2, <2>6, <2>7
<1>17. ASSUME NEW p \in Pipe, Recovered(p) PROVE Covered'
  <2>1. /\ sup[p] = "online" /\ sup' = [sup EXCEPT ![p] = "wait"] /\ gauge' = gauge + 1
        /\ UNCHANGED <<pc, handle>>
    BY <1>17 DEF Recovered, Watch
  <2> DEFINE R == Resuming
             T == Resuming'
  <2>2. p \in R /\ T = R \ {p}  BY <1>t, <2>1 DEF Resuming
  <2>3. IsFiniteSet(R)  BY GaugeSets
  <2>. HIDE DEF R, T
  <2>4. Cardinality(T) = Cardinality(R) - 1 /\ Cardinality(T) \in Nat  BY <2>2, <2>3, OneLess
  <2>5. Cardinality(Resuming') = Cardinality(Resuming) - 1  BY <2>4 DEF R, T
  <2>6. Counting' = Counting /\ Ending' = Ending /\ Held' = Held  BY <2>1 DEF Counting, Ending, Held
  <2>. QED  BY <1>a, <1>n, <2>1, <2>5, <2>6
<1>18. ASSUME NEW p \in Pipe, ThreadStep(p) PROVE Covered'
  BY <1>5, <1>18 DEF ThreadStep, ThreadStart, ThreadExit
<1>19. ASSUME NEW s \in Stream, DrainCancel(s) PROVE Covered'
  <2>1. /\ handle[s] # NoPipe /\ handle' = [handle EXCEPT ![s] = NoPipe]
        /\ UNCHANGED <<pc, sup, gauge>>
    BY <1>19 DEF DrainCancel
  <2>2. Cardinality(Held') \in Nat /\ Cardinality(Held') = Cardinality(Held) - 1
    BY <1>t, <2>1, HandleLeaves
  <2>3. Counting' = Counting /\ Ending' = Ending /\ Resuming' = Resuming
    BY <2>1 DEF Counting, Ending, Resuming
  <2>. QED  BY <1>a, <1>n, <2>1, <2>2, <2>3
<1>20. CASE DrainEnd
  <2>1. /\ main = "drain" /\ \A s \in Stream : handle[s] = NoPipe
        /\ gauge' = 0 /\ UNCHANGED <<pc, sup, handle>>
    BY <1>20 DEF DrainEnd
  <2>2. Held' = {}  BY <2>1 DEF Held
  <2>3. Ending' = {}  BY <2>1 DEF Ending, OwnershipInv
  <2>4. Counting' = Counting /\ Resuming' = Resuming  BY <2>1 DEF Counting, Resuming
  <2>5. Cardinality(Held') = 0 /\ Cardinality(Ending') = 0  BY <2>2, <2>3, FS_EmptySet
  <2>6. /\ Cardinality(Counting') = Cardinality(Counting)
        /\ Cardinality(Resuming') = Cardinality(Resuming)
    BY <2>4
  <2>. QED  BY <1>n, <1>b, <2>1, <2>5, <2>6
<1>21. CASE BeginShutdown \/ DrainNotify \/ DrainJoin
  <2>1. pc' = pc /\ sup' = sup /\ handle' = handle /\ gauge' = gauge
    BY <1>21 DEF BeginShutdown, DrainNotify, DrainJoin
  <2>. QED  BY <1>5, <1>b, <2>1
<1>22. CASE UNCHANGED vars
  <2>1. pc' = pc /\ sup' = sup /\ handle' = handle /\ gauge' = gauge
    BY <1>22 DEF vars
  <2>. QED  BY <1>5, <1>b, <2>1
<1>. QED
  BY <1>b, <1>1, <1>2, <1>3, <1>6, <1>7, <1>8, <1>9, <1>10, <1>11, <1>12, <1>13, <1>14, <1>15, <1>16,
     <1>17, <1>18, <1>19, <1>20, <1>21, <1>22 DEF Next, CallerStep, TaskStep, MainStep

\* In every mode and for any finite sets of streams and callers, the gauge never falls
\* below the number of pipelines in the map, but for increments and decrements still owed.
THEOREM GaugeNeverTooLow ==
  ASSUME IsFiniteSet(Stream), IsFiniteSet(Caller) PROVE Spec => []GaugeCoversHandles
<1>1. Init => GaugeCoversHandles
  <2>1. ASSUME Init PROVE Counting = {} /\ Ending = {} /\ Resuming = {} /\ Held = {} /\ gauge = 0
    BY <2>1 DEF Init, Counting, Ending, Resuming, Held
  <2>. QED  BY <2>1, FS_EmptySet, GaugeRestated
<1>2. SupervisionInv /\ OwnershipInv /\ GaugeCoversHandles /\ [Next]_vars => GaugeCoversHandles'
  BY NextGauge
<1>. QED  BY <1>1, <1>2, SupervisionInvariant, OwnershipInvariant, PTL DEF Spec

(***************************************************************************)
(* A network stream is never forgotten (every mode).  The pipeline in the  *)
(* map is the stream's own; its exit stays unread until its task waits on  *)
(* its channel, and only a caller that cancelled it can replace the reason *)
(* the task then reads.                                                    *)
(***************************************************************************)
HandsInv ==
  /\ \A c \in Caller : pc[c] = "insert" => owner[pipe[c]] = subject[c]
  /\ \A s \in Stream : handle[s] # NoPipe => handle[s] <= created /\ owner[handle[s]] = s
  /\ \A p \in Pipe : p <= created => thread[p] # "none"
  /\ \A p \in Pipe :
       thread[p] = "exited" /\ p \notin cancelled /\ sup[p] \in {"none", "insert", "online"} => p \in unseen
  /\ \A p \in Pipe : reason[p] = "user" => p \in cancelled

LEMMA NextHands == ASSUME SupervisionInv, OwnershipInv, HandsInv, [Next]_vars PROVE HandsInv'
<1>. USE DEF SupervisionInv, TypeOK, Allocated, CallsOK, OwnershipInv, HandsInv,
         Call, Goto, Return, MayCall, Send, Watch, CancelToken, CountActive, Reported,
         MarkError, MarkRecovered,
         pipeVars, watchVars, healthVars, callVars, mainVars, NoPipe
<1>1. ASSUME NEW c \in Caller, NEW s \in Stream, AddStream(c, s) PROVE HandsInv'
  BY <1>1 DEF AddStream
<1>2. ASSUME NEW c \in Caller, NEW s \in Stream, StartPipeline(c, s) PROVE HandsInv'
  BY <1>2 DEF StartPipeline
<1>3. ASSUME NEW c \in Caller, LookUp(c) PROVE HandsInv'
  BY <1>3 DEF LookUp
<1>4. ASSUME NEW c \in Caller, Count(c) PROVE HandsInv'
  BY <1>4 DEF Count
<1>5. ASSUME NEW p \in Pipe, Recovered(p) PROVE HandsInv'
  BY <1>5 DEF Recovered
<1>6. ASSUME NEW c \in Caller, Spawn(c) PROVE HandsInv'
  <2>1. PICK q \in Pipe : NewPipeline(subject[c], q) /\ pipe' = [pipe EXCEPT ![c] = q]
    BY <1>6 DEF Spawn
  <2>2. /\ q = created + 1 /\ created' = q
        /\ thread' = [thread EXCEPT ![q] = "starting"] /\ owner' = [owner EXCEPT ![q] = subject[c]]
    BY <2>1 DEF NewPipeline
  <2>3. pc' = [pc EXCEPT ![c] = "insert"]
        /\ UNCHANGED <<handle, sup, cancelled, reason, unseen, subject>>
    BY <1>6 DEF Spawn
  <2>4. ASSUME NEW d \in Caller, pc'[d] = "insert" PROVE owner'[pipe'[d]] = subject'[d]
    <3>1. CASE d = c  BY <2>1, <2>2, <2>3, <3>1
    <3>2. CASE d # c
      <4>1. pc[d] = "insert" /\ pipe[d] # q /\ pipe'[d] = pipe[d]
        BY <2>1, <2>2, <2>3, <2>4, <3>2 DEF Pipe
      <4>. QED  BY <2>2, <2>3, <4>1
    <3>. QED  BY <3>1, <3>2
  <2>5. ASSUME NEW s \in Stream, handle'[s] # NoPipe PROVE handle'[s] <= created' /\ owner'[handle'[s]] = s
    <3>1. handle[s] \in Pipe /\ handle[s] <= created /\ handle[s] # q
      BY <2>2, <2>3, <2>5 DEF Pipe
    <3>2. handle[s] <= created'  BY <2>2, <3>1, BoundAssumption DEF Pipe
    <3>3. owner'[handle[s]] = s  BY <2>2, <2>3, <2>5, <3>1
    <3>. QED  BY <2>3, <3>2, <3>3
  <2>6. \A p \in Pipe : p <= created' => thread'[p] # "none"
    BY <2>2, BoundAssumption DEF Pipe
  <2>. QED  BY <2>2, <2>3, <2>4, <2>5, <2>6
<1>7. ASSUME NEW c \in Caller, Insert(c) PROVE HandsInv'
  BY <1>7 DEF Insert
<1>8. ASSUME NEW c \in Caller, NEW s \in Stream, NEW o \in Kinds, TakeHandle(c, o, s) PROVE HandsInv'
  BY <1>8 DEF TakeHandle
<1>9. ASSUME NEW c \in Caller, Cancel(c) PROVE HandsInv'
  BY <1>9 DEF Cancel
<1>10. ASSUME NEW c \in Caller, Notify(c) PROVE HandsInv'
  BY <1>10 DEF Notify
<1>11. ASSUME NEW c \in Caller, Unregister(c) PROVE HandsInv'
  BY <1>11 DEF Unregister
<1>12. ASSUME NEW p \in Pipe, ReadExit(p) PROVE HandsInv'
  BY <1>12 DEF ReadExit
<1>13. ASSUME NEW p \in Pipe, WakeUp(p) PROVE HandsInv'
  BY <1>13 DEF WakeUp
<1>14. ASSUME NEW p \in Pipe, Restart(p) PROVE HandsInv'
  <2>1. PICK q \in Pipe : /\ NewPipeline(owner[p], q)
                          /\ sup' = [sup EXCEPT ![p] = "over", ![q] = "insert"]
    BY <1>14 DEF Restart
  <2>2. /\ q = created + 1 /\ created' = q
        /\ thread' = [thread EXCEPT ![q] = "starting"] /\ owner' = [owner EXCEPT ![q] = owner[p]]
    BY <2>1 DEF NewPipeline
  <2>3. UNCHANGED <<handle, cancelled, reason, unseen, subject, pc, pipe>> /\ p # q
    BY <1>14, <2>2 DEF Restart, Pipe
  <2>4. ASSUME NEW d \in Caller, pc'[d] = "insert" PROVE owner'[pipe'[d]] = subject'[d]
    <3>1. pc[d] = "insert" /\ pipe[d] # q  BY <2>2, <2>3, <2>4 DEF Pipe
    <3>. QED  BY <2>2, <2>3, <3>1
  <2>5. ASSUME NEW s \in Stream, handle'[s] # NoPipe PROVE handle'[s] <= created' /\ owner'[handle'[s]] = s
    <3>1. handle[s] \in Pipe /\ handle[s] <= created /\ handle[s] # q
      BY <2>2, <2>3, <2>5 DEF Pipe
    <3>2. handle[s] <= created'  BY <2>2, <3>1, BoundAssumption DEF Pipe
    <3>3. owner'[handle[s]] = s  BY <2>2, <2>3, <2>5, <3>1
    <3>. QED  BY <2>3, <3>2, <3>3
  <2>6. \A u \in Pipe : u <= created' => thread'[u] # "none"
    BY <2>2, BoundAssumption DEF Pipe
  <2>7. ASSUME NEW u \in Pipe, thread'[u] = "exited", u \notin cancelled', sup'[u] \in {"none", "insert", "online"}
        PROVE  u \in unseen'
    BY <2>1, <2>2, <2>3, <2>7
  <2>. QED  BY <2>3, <2>4, <2>5, <2>6, <2>7
<1>15. ASSUME NEW p \in Pipe, Reinsert(p) PROVE HandsInv'
  <2>1. p <= created  BY <1>15, BoundAssumption DEF Reinsert, Pipe
  <2>. QED  BY <1>15, <2>1 DEF Reinsert
<1>16. ASSUME NEW p \in Pipe, ThreadStart(p) PROVE HandsInv'
  BY <1>16 DEF ThreadStart
<1>17. ASSUME NEW p \in Pipe, NEW r \in {"eof", "error"}, ThreadExit(p, r) PROVE HandsInv'
  BY <1>17 DEF ThreadExit
<1>18. ASSUME NEW s \in Stream, DrainCancel(s) PROVE HandsInv'
  BY <1>18 DEF DrainCancel
<1>19. CASE BeginShutdown \/ DrainNotify \/ DrainJoin \/ DrainEnd
  BY <1>19 DEF BeginShutdown, DrainNotify, DrainJoin, DrainEnd
<1>20. CASE UNCHANGED vars
  BY <1>20 DEF vars
<1>. QED
  BY <1>1, <1>2, <1>3, <1>4, <1>5, <1>6, <1>7, <1>8, <1>9, <1>10, <1>11, <1>12, <1>13, <1>14, <1>15,
     <1>16, <1>17, <1>18, <1>19, <1>20
     DEF Next, CallerStep, TaskStep, ThreadStep, MainStep

\* Somebody holds a pipeline of the stream that is to enter the map, or has left it.
InHands(s) == \E p \in PipesOf(s) : sup[p] = "insert" \/ BeingInserted(p) \/ BeingCancelled(p)
InMap(s) == handle[s] # NoPipe /\ (Live(handle[s]) \/ WillRestart(handle[s]))

Untouched(s) == main = "serving" /\ PipesOf(s) # {} /\ PipesOf(s) \cap cancelled = {}

AttendedInv == \A s \in registry \ FileStream : Untouched(s) => InMap(s) \/ InHands(s)

LEMMA Attended == AttendedInv <=> NetworkStreamNotForgotten
BY DEF AttendedInv, NetworkStreamNotForgotten, Untouched, InMap, InHands

\* Streams that nobody starts keep their pipelines.
LEMMA SamePipes ==
  ASSUME UNCHANGED <<created, owner>>, NEW s PROVE PipesOf(s)' = PipesOf(s)
BY DEF PipesOf

\* A new pipeline belongs to the stream it was started for, and to no other.
LEMMA OneMorePipe ==
  ASSUME NEW s, NEW t, NEW q \in Pipe, created \in 0..MaxPipeline, q = created + 1, created' = q,
         owner \in [Pipe -> Stream], owner' = [owner EXCEPT ![q] = t]
  PROVE  PipesOf(s)' = PipesOf(s) \cup (IF s = t THEN {q} ELSE {})
<1>1. created \in Nat /\ created <= MaxPipeline  BY BoundAssumption
<1>2. 1..created' = (1..created) \cup {q}  BY <1>1
<1>3. \A p \in 1..created : p # q /\ p \in Pipe  BY <1>1, BoundAssumption DEF Pipe
<1>4. \A p \in 1..created : owner'[p] = owner[p]  BY <1>3
<1>5. owner'[q] = t  OBVIOUS
<1>6. CASE s = t  BY <1>2, <1>4, <1>5, <1>6 DEF PipesOf
<1>7. CASE s # t  BY <1>2, <1>4, <1>5, <1>7 DEF PipesOf
<1>. QED  BY <1>6, <1>7

LEMMA StillInHands ==
  ASSUME NEW s, InHands(s), PipesOf(s) \subseteq PipesOf(s)',
         \A p \in PipesOf(s) : sup[p] = "insert" => sup'[p] = "insert",
         \A c \in Caller : pc[c] \in {"insert", "cancel"} => UNCHANGED <<pc[c], pipe[c]>>
  PROVE  InHands(s)'
BY DEF InHands, BeingInserted, BeingCancelled

LEMMA NextAttended ==
  ASSUME SupervisionInv, OwnershipInv, CountInv, HandsInv, AttendedInv, [Next]_vars
  PROVE  AttendedInv'
<1>. SUFFICES ASSUME NEW s \in registry', s \notin FileStream, Untouched(s)'
              PROVE  InMap(s)' \/ InHands(s)'
  BY DEF AttendedInv
<1>. USE DEF SupervisionInv, TypeOK, Allocated, CallsOK, OwnershipInv, HandsInv,
         Call, Goto, Return, MayCall, Send, Watch, CancelToken, CountActive, Reported,
         MarkError, MarkRecovered,
         pipeVars, watchVars, healthVars, callVars, mainVars, NoPipe
<1>p. PipesOf(s) \subseteq Pipe /\ (s \in Stream => (handle[s] # NoPipe => handle[s] \in PipesOf(s)))
  BY BoundAssumption DEF PipesOf, Pipe
<1>s. s \in Stream
  BY DEF Next, CallerStep, AddStream, StartPipeline, LookUp, Spawn, Insert, Count, TakeHandle, Cancel,
         Notify, Unregister, TaskStep, ReadExit, WakeUp, Restart, Reinsert, Recovered, ThreadStep,
         ThreadStart, ThreadExit, MainStep, BeginShutdown, DrainCancel, DrainNotify, DrainJoin, DrainEnd, vars
<1>h. ASSUME s \in registry, UNCHANGED <<created, owner, cancelled, main>>
      PROVE  PipesOf(s)' = PipesOf(s) /\ PipesOf(s) \cap cancelled = {} /\ (InMap(s) \/ InHands(s))
  <2>1. PipesOf(s)' = PipesOf(s)  BY <1>h, SamePipes
  <2>2. Untouched(s)  BY <1>h, <2>1 DEF Untouched
  <2>. QED  BY <1>h, <2>1, <2>2 DEF AttendedInv, Untouched
\* Steps that move no pipeline of the stream.
<1>i. ASSUME s \in registry, UNCHANGED <<created, owner, cancelled, main, handle, thread, sup>>,
             unseen \subseteq unseen',
             \A c \in Caller : pc[c] \in {"insert", "cancel"} => UNCHANGED <<pc[c], pipe[c]>>
      PROVE  InMap(s)' \/ InHands(s)'
  <2>1. PipesOf(s)' = PipesOf(s) /\ (InMap(s) \/ InHands(s))  BY <1>h, <1>i
  <2>2. InMap(s) => InMap(s)'  BY <1>i DEF InMap, Live, WillRestart
  <2>3. InHands(s) => InHands(s)'  BY <1>i, <2>1, StillInHands
  <2>. QED  BY <2>1, <2>2, <2>3
\* A step that changes one pipeline and leaves the map and the callers alone.
<1>j. ASSUME NEW p \in Pipe, s \in registry, UNCHANGED <<created, owner, cancelled, main, handle, pc, pipe>>,
             \A q \in Pipe \ {p} : UNCHANGED <<thread[q], sup[q], q \in unseen>>,
             sup[p] = "insert" => sup'[p] = "insert",
             handle[s] = p => Live(p)' \/ WillRestart(p)' \/ InHands(s)'
      PROVE  InMap(s)' \/ InHands(s)'
  <2>1. PipesOf(s)' = PipesOf(s) /\ (InMap(s) \/ InHands(s))  BY <1>h, <1>j
  <2>2. CASE InMap(s)
    <3>1. CASE handle[s] = p  BY <1>j, <2>2, <3>1 DEF InMap
    <3>2. CASE handle[s] # p
      <4>1. handle[s] \in Pipe \ {p}  BY <1>s, <2>2, <3>2 DEF InMap
      <4>. QED  BY <1>j, <2>2, <4>1 DEF InMap, Live, WillRestart
    <3>. QED  BY <3>1, <3>2
  <2>3. CASE InHands(s)
    <3>1. \A q \in PipesOf(s) : sup[q] = "insert" => sup'[q] = "insert"  BY <1>j, <1>p
    <3>. QED  BY <1>j, <2>1, <2>3, <3>1, StillInHands
  <2>. QED  BY <2>1, <2>2, <2>3
<1>1. ASSUME NEW c \in Caller, NEW t \in Stream, AddStream(c, t) PROVE InMap(s)' \/ InHands(s)'
  <2>1. s # t
    <3>1. PipesOf(s)' = PipesOf(s) /\ PipesOf(s)' # {}  BY <1>1, SamePipes DEF AddStream, Untouched
    <3>2. t \in fresh  BY <1>1 DEF AddStream
    <3>. QED  BY <1>p, <3>1, <3>2 DEF CountInv, PipesOf
  <2>. QED  BY <1>1, <1>i, <2>1 DEF AddStream
<1>2. ASSUME NEW c \in Caller, NEW t \in Stream, StartPipeline(c, t) PROVE InMap(s)' \/ InHands(s)'
  BY <1>2, <1>i DEF StartPipeline
<1>3. ASSUME NEW c \in Caller, LookUp(c) PROVE InMap(s)' \/ InHands(s)'
  BY <1>3, <1>i DEF LookUp
<1>4. ASSUME NEW c \in Caller, Count(c) PROVE InMap(s)' \/ InHands(s)'
  BY <1>4, <1>i DEF Count
<1>5. ASSUME NEW p \in Pipe, Recovered(p) PROVE InMap(s)' \/ InHands(s)'
  <2>1. /\ sup[p] = "online" /\ sup' = [sup EXCEPT ![p] = "wait"]
        /\ UNCHANGED <<registry, created, owner, thread, cancelled, main, handle, pc, pipe, unseen>>
    BY <1>5 DEF Recovered
  <2>2. ASSUME handle[s] = p PROVE Live(p)' \/ WillRestart(p)'
    <3>1. p <= created /\ p \in PipesOf(s)
      <4>1. p \in PipesOf(s)  BY <1>p, <1>s, <2>2 DEF Pipe
      <4>. QED  BY <4>1 DEF PipesOf
    <3>2. p \notin cancelled  BY <1>h, <2>1, <3>1
    <3>3. thread[p] = "exited" => p \in unseen  BY <2>1, <3>2
    <3>4. thread[p] # "none"  BY <3>1
    <3>. QED  BY <2>1, <3>2, <3>3, <3>4 DEF Live, WillRestart
  <2>. QED  BY <1>j, <2>1, <2>2
<1>6. ASSUME NEW c \in Caller, Spawn(c) PROVE InMap(s)' \/ InHands(s)'
  <2>1. PICK q \in Pipe : NewPipeline(subject[c], q) /\ pipe' = [pipe EXCEPT ![c] = q]
    BY <1>6 DEF Spawn
  <2>2. /\ q = created + 1 /\ created' = q
        /\ thread' = [thread EXCEPT ![q] = "starting"] /\ owner' = [owner EXCEPT ![q] = subject[c]]
    BY <2>1 DEF NewPipeline
  <2>3. /\ pc[c] = "spawn" /\ pc' = [pc EXCEPT ![c] = "insert"]
        /\ UNCHANGED <<registry, main, handle, sup, cancelled, unseen>>
    BY <1>6 DEF Spawn
  <2>4. PipesOf(s)' = PipesOf(s) \cup (IF s = subject[c] THEN {q} ELSE {})
    <3>1. created \in 0..MaxPipeline /\ owner \in [Pipe -> Stream]  OBVIOUS
    <3>. QED  BY ONLY <2>2, <3>1, q \in Pipe, OneMorePipe
  <2>5. CASE s = subject[c]
    <3>1. q \in PipesOf(s)' /\ pc'[c] = "insert" /\ pipe'[c] = q  BY <2>1, <2>3, <2>4, <2>5
    <3>. QED  BY <3>1 DEF InHands, BeingInserted
  <2>6. CASE s # subject[c]
    <3>1. PipesOf(s)' = PipesOf(s)  BY <2>4, <2>6
    <3>2. Untouched(s)  BY <2>3, <3>1 DEF Untouched
    <3>3. InMap(s) \/ InHands(s)  BY <2>3, <3>2 DEF AttendedInv
    <3>4. InMap(s) => InMap(s)'
      <4>1. handle[s] # NoPipe => handle[s] # q  BY <1>s, <2>2 DEF Pipe
      <4>. QED  BY <1>s, <2>2, <2>3, <4>1 DEF InMap, Live, WillRestart
    <3>5. InHands(s) => InHands(s)'
      <4>1. \A d \in Caller : pc[d] \in {"insert", "cancel"} => UNCHANGED <<pc[d], pipe[d]>>
        BY <2>1, <2>3
      <4>. QED  BY <2>3, <3>1, <4>1, StillInHands
    <3>. QED  BY <3>3, <3>4, <3>5
  <2>. QED  BY <2>5, <2>6
<1>7. ASSUME NEW c \in Caller, Insert(c) PROVE InMap(s)' \/ InHands(s)'
  <2>1. /\ pc[c] = "insert" /\ pc' = [pc EXCEPT ![c] = "count"]
        /\ handle' = [handle EXCEPT ![subject[c]] = pipe[c]]
        /\ sup' = [sup EXCEPT ![pipe[c]] = "wait"] /\ sup[pipe[c]] = "none"
        /\ pipe[c] \in Pipe /\ pipe[c] <= created /\ owner[pipe[c]] = subject[c]
        /\ UNCHANGED <<registry, created, owner, thread, cancelled, main, unseen, pipe>>
    BY <1>7 DEF Insert
  <2>2. PipesOf(s)' = PipesOf(s) /\ PipesOf(s) \cap cancelled = {} /\ (InMap(s) \/ InHands(s))
    BY <1>h, <2>1
  <2>3. CASE s = subject[c]
    <3>1. pipe[c] \in PipesOf(s)  BY <2>1, <2>3 DEF PipesOf, Pipe
    <3>2. pipe[c] \notin cancelled  BY <2>2, <3>1
    <3>3. thread[pipe[c]] = "exited" => pipe[c] \in unseen  BY <2>1, <3>2
    <3>4. thread[pipe[c]] # "none"  BY <2>1
    <3>5. handle'[s] = pipe[c] /\ sup'[pipe[c]] = "wait"  BY <1>s, <2>1, <2>3
    <3>. QED  BY <2>1, <3>2, <3>3, <3>4, <3>5 DEF InMap, Live, WillRestart, Pipe
  <2>4. CASE s # subject[c]
    <3>1. handle'[s] = handle[s]  BY <1>s, <2>1, <2>4
    <3>2. \A p \in PipesOf(s) : p # pipe[c] /\ sup'[p] = sup[p]
      BY <1>p, <2>1, <2>4 DEF PipesOf
    <3>3. InMap(s) => InMap(s)'
      BY <1>p, <1>s, <2>1, <3>1, <3>2 DEF InMap, Live, WillRestart
    <3>4. ASSUME NEW p \in PipesOf(s), BeingInserted(p) \/ BeingCancelled(p)
          PROVE  BeingInserted(p)' \/ BeingCancelled(p)'
      <4>1. PICK d \in Caller : pc[d] \in {"insert", "cancel"} /\ pipe[d] = p
                              /\ (pc[d] = "cancel" => BeingCancelled(p))
        BY <3>4 DEF BeingInserted, BeingCancelled
      <4>2. d # c  BY <3>2, <4>1
      <4>. QED  BY <2>1, <4>1, <4>2 DEF BeingInserted, BeingCancelled
    <3>5. InHands(s) => InHands(s)'  BY <2>2, <3>2, <3>4 DEF InHands
    <3>. QED  BY <2>2, <3>3, <3>5
  <2>. QED  BY <2>3, <2>4
<1>8. ASSUME NEW c \in Caller, NEW t \in Stream, NEW o \in Kinds, TakeHandle(c, o, t)
      PROVE  InMap(s)' \/ InHands(s)'
  <2>1. /\ pc[c] = "idle" /\ pc' = [pc EXCEPT ![c] = "cancel"] /\ pipe' = [pipe EXCEPT ![c] = handle[t]]
        /\ handle[t] # NoPipe /\ handle' = [handle EXCEPT ![t] = NoPipe]
        /\ UNCHANGED <<registry, created, owner, thread, cancelled, main, unseen, sup>>
    BY <1>8 DEF TakeHandle
  <2>2. PipesOf(s)' = PipesOf(s) /\ (InMap(s) \/ InHands(s))  BY <1>h, <2>1
  <2>3. CASE s = t
    <3>1. handle[t] \in PipesOf(s)' /\ pc'[c] = "cancel" /\ pipe'[c] = handle[t]
      BY <1>p, <1>s, <2>1, <2>2, <2>3
    <3>. QED  BY <3>1 DEF InHands, BeingCancelled
  <2>4. CASE s # t
    <3>1. InMap(s) => InMap(s)'  BY <1>s, <2>1, <2>4 DEF InMap, Live, WillRestart
    <3>2. InHands(s) => InHands(s)'
      <4>1. \A d \in Caller : pc[d] \in {"insert", "cancel"} => UNCHANGED <<pc[d], pipe[d]>>
        BY <2>1
      <4>. QED  BY <2>1, <2>2, <4>1, StillInHands
    <3>. QED  BY <2>2, <3>1, <3>2
  <2>. QED  BY <2>3, <2>4
<1>9. ASSUME NEW c \in Caller, Cancel(c) PROVE InMap(s)' \/ InHands(s)'
  <2>1. /\ pc[c] = "cancel" /\ pc' = [pc EXCEPT ![c] = "notify"] /\ cancelled' = cancelled \cup {pipe[c]}
        /\ UNCHANGED <<registry, created, owner, thread, main, handle, unseen, sup, pipe>>
    BY <1>9 DEF Cancel
  <2>2. PipesOf(s)' = PipesOf(s) /\ PipesOf(s) \cap cancelled' = {}
    BY <2>1, SamePipes DEF Untouched
  <2>3. pipe[c] \notin PipesOf(s)  BY <2>1, <2>2
  <2>4. Untouched(s)  BY <2>1, <2>2 DEF Untouched
  <2>5. InMap(s) \/ InHands(s)  BY <2>1, <2>4 DEF AttendedInv
  <2>6. InMap(s) => InMap(s)'
    <3>1. handle[s] # NoPipe => handle[s] # pipe[c]  BY <1>p, <1>s, <2>3
    <3>. QED  BY <2>1, <3>1 DEF InMap, Live, WillRestart
  <2>7. ASSUME NEW p \in PipesOf(s), BeingInserted(p) \/ BeingCancelled(p)
        PROVE  BeingInserted(p)' \/ BeingCancelled(p)'
    <3>1. PICK d \in Caller : pc[d] \in {"insert", "cancel"} /\ pipe[d] = p
      BY <2>7 DEF BeingInserted, BeingCancelled
    <3>2. d # c  BY <2>3, <3>1
    <3>. QED  BY <2>1, <3>1, <3>2 DEF BeingInserted, BeingCancelled
  <2>8. InHands(s) => InHands(s)'  BY <2>1, <2>2, <2>7 DEF InHands
  <2>. QED  BY <2>5, <2>6, <2>8
<1>10. ASSUME NEW c \in Caller, Notify(c) PROVE InMap(s)' \/ InHands(s)'
  BY <1>10, <1>i DEF Notify
<1>11. ASSUME NEW c \in Caller, Unregister(c) PROVE InMap(s)' \/ InHands(s)'
  BY <1>11, <1>i DEF Unregister
<1>12. ASSUME NEW p \in Pipe, ReadExit(p) PROVE InMap(s)' \/ InHands(s)'
  <2>1. /\ sup[p] = "wait" /\ p \in unseen /\ unseen' = unseen \ {p}
        /\ UNCHANGED <<registry, created, owner, thread, cancelled, main, handle, pc, pipe, reason>>
    BY <1>12 DEF ReadExit
  <2>2. sup' = [sup EXCEPT ![p] = IF EndsSupervision(p) THEN "over" ELSE "backoff"]
    BY <1>12 DEF ReadExit
  <2>3. ASSUME handle[s] = p PROVE WillRestart(p)'
    <3>1. p \in PipesOf(s)  BY <1>p, <1>s, <2>3 DEF Pipe
    <3>2. p \notin cancelled /\ owner[p] = s  BY <1>h, <2>1, <3>1 DEF PipesOf
    <3>3. ~EndsSupervision(p)  BY <3>2 DEF EndsSupervision
    <3>. QED  BY <2>2, <3>3 DEF WillRestart
  <2>. QED  BY <1>j, <2>1, <2>2, <2>3
<1>13. ASSUME NEW p \in Pipe, WakeUp(p) PROVE InMap(s)' \/ InHands(s)'
  <2>1. /\ sup[p] = "backoff"
        /\ UNCHANGED <<registry, created, owner, thread, cancelled, main, handle, pc, pipe, unseen>>
    BY <1>13 DEF WakeUp
  <2>2. sup' = [sup EXCEPT ![p] = IF owner[p] \in registry THEN "restart" ELSE "over"]
    BY <1>13 DEF WakeUp
  <2>3. ASSUME handle[s] = p PROVE WillRestart(p)'
    <3>1. owner[p] = s
      <4>1. p \in PipesOf(s)  BY <1>p, <1>s, <2>3 DEF Pipe
      <4>. QED  BY <4>1 DEF PipesOf
    <3>. QED  BY <2>1, <2>2, <3>1 DEF WillRestart
  <2>. QED  BY <1>j, <2>1, <2>2, <2>3
<1>14. ASSUME NEW p \in Pipe, Restart(p) PROVE InMap(s)' \/ InHands(s)'
  <2>1. PICK q \in Pipe : /\ NewPipeline(owner[p], q)
                          /\ sup' = [sup EXCEPT ![p] = "over", ![q] = "insert"]
    BY <1>14 DEF Restart
  <2>2. /\ q = created + 1 /\ created' = q
        /\ thread' = [thread EXCEPT ![q] = "starting"] /\ owner' = [owner EXCEPT ![q] = owner[p]]
    BY <2>1 DEF NewPipeline
  <2>3. /\ sup[p] = "restart" /\ p # q
        /\ UNCHANGED <<registry, main, handle, cancelled, unseen, pc, pipe>>
    BY <1>14, <2>2 DEF Restart, Pipe
  <2>4. PipesOf(s)' = PipesOf(s) \cup (IF s = owner[p] THEN {q} ELSE {})
    <3>1. created \in 0..MaxPipeline /\ owner \in [Pipe -> Stream]  OBVIOUS
    <3>. QED  BY ONLY <2>2, <3>1, q \in Pipe, OneMorePipe
  <2>5. CASE s = owner[p]
    <3>1. q \in PipesOf(s)' /\ sup'[q] = "insert"  BY <2>1, <2>4, <2>5
    <3>. QED  BY <3>1 DEF InHands
  <2>6. CASE s # owner[p]
    <3>1. PipesOf(s)' = PipesOf(s)  BY <2>4, <2>6
    <3>2. Untouched(s)  BY <2>3, <3>1 DEF Untouched
    <3>3. InMap(s) \/ InHands(s)  BY <2>3, <3>2 DEF AttendedInv
    <3>4. InMap(s) => InMap(s)'
      <4>1. handle[s] # NoPipe => handle[s] \in Pipe /\ handle[s] # q /\ handle[s] # p
        <5>. SUFFICES ASSUME handle[s] # NoPipe
                      PROVE  handle[s] \in Pipe /\ handle[s] # q /\ handle[s] # p
          OBVIOUS
        <5>1. handle[s] \in PipesOf(s)  BY <1>p, <1>s
        <5>2. handle[s] \in Pipe /\ handle[s] <= created /\ owner[handle[s]] = s
          BY <1>p, <5>1 DEF PipesOf
        <5>3. handle[s] # q  BY <2>2, <5>2, BoundAssumption, SMTT(30) DEF Pipe
        <5>. QED  BY <2>6, <5>2, <5>3
      <4>2. handle[s] # NoPipe => UNCHANGED <<thread[handle[s]], sup[handle[s]]>>
        <5>1. handle[s] # NoPipe => thread'[handle[s]] = thread[handle[s]]  BY <2>2, <4>1
        <5>2. handle[s] # NoPipe => sup'[handle[s]] = sup[handle[s]]  BY <2>1, <4>1
        <5>. QED  BY ONLY <2>3, <5>1, <5>2
      <4>. QED  BY ONLY <2>3, <4>2 DEF InMap, Live, WillRestart
    <3>5. InHands(s) => InHands(s)'
      <4>1. \A u \in PipesOf(s) : sup[u] = "insert" => sup'[u] = "insert"
        BY <1>p, <2>1, <2>3
      <4>. QED  BY <2>3, <3>1, <4>1, StillInHands
    <3>. QED  BY <3>3, <3>4, <3>5
  <2>. QED  BY <2>5, <2>6
<1>15. ASSUME NEW p \in Pipe, Reinsert(p) PROVE InMap(s)' \/ InHands(s)'
  <2>1. /\ sup[p] = "insert" /\ sup' = [sup EXCEPT ![p] = "online"]
        /\ handle' = [handle EXCEPT ![owner[p]] = p]
        /\ UNCHANGED <<registry, created, owner, thread, cancelled, main, pc, pipe, unseen>>
    BY <1>15 DEF Reinsert
  <2>2. PipesOf(s)' = PipesOf(s) /\ (InMap(s) \/ InHands(s))  BY <1>h, <2>1
  <2>3. CASE s = owner[p]
    <3>1. handle'[s] = p /\ sup'[p] = "online"  BY <1>s, <2>1, <2>3
    <3>. QED  BY <3>1 DEF InMap, WillRestart, Pipe
  <2>4. CASE s # owner[p]
    <3>1. handle'[s] = handle[s]  BY <1>s, <2>1, <2>4
    <3>2. \A u \in PipesOf(s) : sup'[u] = sup[u]  BY <1>p, <2>1, <2>4 DEF PipesOf
    <3>3. InMap(s) => InMap(s)'
      BY <1>p, <1>s, <2>1, <3>1, <3>2 DEF InMap, Live, WillRestart
    <3>4. InHands(s) => InHands(s)'  BY <2>1, <2>2, <3>2, StillInHands
    <3>. QED  BY <2>2, <3>3, <3>4
  <2>. QED  BY <2>3, <2>4
<1>16. ASSUME NEW p \in Pipe, ThreadStart(p) PROVE InMap(s)' \/ InHands(s)'
  <2>1. /\ thread[p] = "starting" /\ thread' = [thread EXCEPT ![p] = "running"]
        /\ UNCHANGED <<registry, created, owner, sup, cancelled, main, handle, pc, pipe, unseen>>
    BY <1>16 DEF ThreadStart
  <2>2. ASSUME handle[s] = p PROVE Live(p)'
    <3>1. p \in PipesOf(s)  BY <1>p, <1>s, <2>2 DEF Pipe
    <3>2. p \notin cancelled  BY <1>h, <2>1, <3>1
    <3>. QED  BY <2>1, <3>2 DEF Live
  <2>. QED  BY <1>j, <2>1, <2>2
<1>17. ASSUME NEW p \in Pipe, NEW r \in {"eof", "error"}, ThreadExit(p, r) PROVE InMap(s)' \/ InHands(s)'
  <2>1. /\ thread[p] \in {"starting", "running"} /\ thread' = [thread EXCEPT ![p] = "exited"]
        /\ unseen' = unseen \cup {p}
        /\ UNCHANGED <<registry, created, owner, sup, cancelled, main, handle, pc, pipe>>
    BY <1>17 DEF ThreadExit
  <2>2. ASSUME handle[s] = p PROVE WillRestart(p)' \/ InHands(s)'
    <3>1. p \in PipesOf(s)  BY <1>p, <1>s, <2>2 DEF Pipe
    <3>2. p \notin cancelled /\ PipesOf(s)' = PipesOf(s)  BY <1>h, <2>1, <3>1
    <3>3. sup[p] \in {"insert", "online", "wait"} \/ BeingInserted(p)
      BY <2>1, <3>2 DEF LivePipelineSupervised, Live
    <3>4. sup[p] \in {"online", "wait"} => WillRestart(p)'  BY <2>1 DEF WillRestart
    <3>5. sup[p] = "insert" \/ BeingInserted(p) => InHands(s)'
      BY <2>1, <3>1, <3>2 DEF InHands, BeingInserted
    <3>. QED  BY <3>3, <3>4, <3>5
  <2>. QED  BY <1>j, <2>1, <2>2
<1>18. ~MainStep
  BY DEF MainStep, BeginShutdown, DrainCancel, DrainNotify, DrainJoin, DrainEnd, Untouched
<1>19. CASE UNCHANGED vars
  BY <1>19, <1>i DEF vars
<1>. QED
  BY <1>1, <1>2, <1>3, <1>4, <1>5, <1>6, <1>7, <1>8, <1>9, <1>10, <1>11, <1>12, <1>13, <1>14, <1>15,
     <1>16, <1>17, <1>18, <1>19 DEF Next, CallerStep, TaskStep, ThreadStep

\* In every mode, while nobody stops or removes it a registered network stream is decoded by
\* the pipeline in the map, or a task or a call is at work to bring it back.
THEOREM NeverForgotten == Spec => []NetworkStreamNotForgotten
<1>1. Init => HandsInv /\ AttendedInv
  BY DEF Init, HandsInv, AttendedInv, Untouched, PipesOf, NoPipe, Pipe
<1>2. SupervisionInv /\ OwnershipInv /\ CountInv /\ HandsInv /\ AttendedInv /\ [Next]_vars
        => HandsInv' /\ AttendedInv'
  BY NextHands, NextAttended
<1>. QED
  BY <1>1, <1>2, Attended, SupervisionInvariant, OwnershipInvariant, CountInvariant, PTL DEF Spec
=============================================================================
