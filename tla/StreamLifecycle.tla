--------------------------- MODULE StreamLifecycle ---------------------------
(***************************************************************************)
(* The life of extraction pipelines inside one process: StreamManager with *)
(* its registry, its map of pipeline handles, the decode threads, the      *)
(* watch channels on which they report their end, and the reconnection     *)
(* tasks that restart them.                                                *)
(*                                                                         *)
(* A pipeline is one run of Pipeline::start: one decode thread, one        *)
(* cancellation token, one watch channel.  A pipeline has one reconnection *)
(* task at a time; when the task restarts the stream it moves to the new   *)
(* pipeline, so sup[p] is the state of the task that looks after p.        *)
(***************************************************************************)
EXTENDS Integers, FiniteSets

CONSTANTS
  Stream,        \* stream identifiers; add_stream draws a fresh one
  FileStream,    \* those of source_type "file" or "lavfi"
  Restored,      \* those already in the registry, loaded from the database
  Caller,        \* concurrent callers of the manager's operations
  Kinds,         \* operations in use: "add", "remove", "start", "stop", "shutdown"
  MaxBackoff,    \* max_backoff_seconds (30)
  MaxPipeline,   \* bound of the model: pipelines ever started
  FailBound      \* bound of the model: sources fail only while fewer exist

ASSUME StreamAssumption ==
  /\ Stream # {}
  /\ FileStream \subseteq Stream
  /\ Restored \subseteq Stream
  /\ Kinds \subseteq {"add", "remove", "start", "stop", "shutdown"}
ASSUME BoundAssumption ==
  MaxBackoff \in Nat \ {0} /\ MaxPipeline \in Nat /\ FailBound \in Nat

VARIABLES
  registry,   \* streams in the registry
  fresh,      \* identifiers never given out
  handle,     \* the pipelines map
  created,    \* number of pipelines started so far; pipelines are 1..created
  owner,      \* stream of a pipeline
  thread,     \* decode thread of a pipeline
  cancelled,  \* pipelines whose token is cancelled
  reason,     \* exit channel of a pipeline: the latest value sent
  unseen,     \* pipelines whose latest value the task has not seen
  sup,        \* reconnection task at a pipeline
  backoff,    \* that task's backoff_seconds
  status, errors, reconnects,   \* StreamHealth of a stream
  gauge,      \* STREAMS_ACTIVE
  pc, op, subject, pipe,        \* callers: where they are, operation, stream, pipeline
  main,       \* main(): serving, then shutdown_all
  joining     \* the pipeline shutdown_all is ending

pipeVars == <<created, owner, thread>>
watchVars == <<reason, unseen>>
healthVars == <<status, errors, reconnects>>
callVars == <<pc, op, subject, pipe>>
mainVars == <<main, joining>>
vars == <<registry, fresh, handle, created, owner, thread, cancelled, reason, unseen,
          sup, backoff, status, errors, reconnects, gauge, pc, op, subject, pipe,
          main, joining>>
-----------------------------------------------------------------------------
Pipe   == 1..MaxPipeline
NoPipe == 0

\* The map's mutex is held by shutdown_all from its first line to its last.
MapUnlocked == main \in {"serving", "drained"}

SomeStream == CHOOSE s \in Stream : TRUE

TypeOK ==
  /\ registry \subseteq Stream /\ fresh \subseteq Stream
  /\ handle \in [Stream -> Pipe \cup {NoPipe}]
  /\ created \in 0..MaxPipeline
  /\ owner \in [Pipe -> Stream]
  /\ thread \in [Pipe -> {"none", "starting", "running", "exited"}]
  /\ cancelled \subseteq Pipe
  /\ reason \in [Pipe -> {"none", "user", "eof", "error"}]
  /\ unseen \subseteq Pipe
  /\ sup \in [Pipe -> {"none", "insert", "online", "wait", "backoff", "restart", "over"}]
  /\ backoff \in [Pipe -> 1..MaxBackoff]
  /\ status \in [Stream -> {"connecting", "online", "error"}]
  /\ errors \in [Stream -> Nat] /\ reconnects \in [Stream -> Nat]
  /\ gauge \in Int
  /\ pc \in [Caller -> {"idle", "lookup", "spawn", "insert", "count",
                        "cancel", "notify", "unregister"}]
  /\ op \in [Caller -> {"none", "add", "remove", "start", "stop"}]
  /\ subject \in [Caller -> Stream]
  /\ pipe \in [Caller -> Pipe \cup {NoPipe}]
  /\ main \in {"serving", "drain", "notify", "join", "drained"}
  /\ joining \in Pipe \cup {NoPipe}

Init ==
  /\ registry = Restored /\ fresh = Stream \ Restored
  /\ handle = [s \in Stream |-> NoPipe]
  /\ created = 0
  /\ owner = [p \in Pipe |-> SomeStream]
  /\ thread = [p \in Pipe |-> "none"]
  /\ cancelled = {}
  /\ reason = [p \in Pipe |-> "none"] /\ unseen = {}
  /\ sup = [p \in Pipe |-> "none"]
  /\ backoff = [p \in Pipe |-> 1]
  /\ status = [s \in Stream |-> "connecting"]
  /\ errors = [s \in Stream |-> 0] /\ reconnects = [s \in Stream |-> 0]
  /\ gauge = 0
  /\ pc = [c \in Caller |-> "idle"]
  /\ op = [c \in Caller |-> "none"]
  /\ subject = [c \in Caller |-> SomeStream]
  /\ pipe = [c \in Caller |-> NoPipe]
  /\ main = "serving" /\ joining = NoPipe
-----------------------------------------------------------------------------
(***************************************************************************)
(* Callers                                                                 *)
(***************************************************************************)
Goto(c, at) == pc' = [pc EXCEPT ![c] = at]

Call(c, o, s, p, at) ==
  /\ Goto(c, at)
  /\ op' = [op EXCEPT ![c] = o]
  /\ subject' = [subject EXCEPT ![c] = s]
  /\ pipe' = [pipe EXCEPT ![c] = p]

Return(c) == Call(c, "none", SomeStream, NoPipe, "idle")

\* Once graceful shutdown has drained the server no new call arrives.
MayCall(c, o) == o \in Kinds /\ pc[c] = "idle" /\ main = "serving"

\* add_stream: a new identifier enters the registry.
AddStream(c, s) ==
  /\ MayCall(c, "add") /\ s \in fresh
  /\ fresh' = fresh \ {s}
  /\ registry' = registry \cup {s}
  /\ Call(c, "add", s, NoPipe, "spawn")
  /\ UNCHANGED <<handle, pipeVars, cancelled, watchVars, sup, backoff, healthVars, gauge, mainVars>>

\* start_pipeline: contains_key under its own lock; a present handle ends the call.
StartPipeline(c, s) ==
  /\ MayCall(c, "start") /\ MapUnlocked
  /\ handle[s] = NoPipe
  /\ Call(c, "start", s, NoPipe, "lookup")
  /\ UNCHANGED <<registry, fresh, handle, pipeVars, cancelled, watchVars, sup, backoff,
                 healthVars, gauge, mainVars>>

\* registry.get and get_rules_shared: a stream that is not registered ends the call.
LookUp(c) ==
  /\ pc[c] = "lookup"
  /\ IF subject[c] \in registry
     THEN Goto(c, "spawn") /\ UNCHANGED <<op, subject, pipe>>
     ELSE Return(c)
  /\ UNCHANGED <<registry, fresh, handle, pipeVars, cancelled, watchVars, sup, backoff,
                 healthVars, gauge, mainVars>>

\* Pipeline::start: a new token, a new watch channel and a new decode thread.
NewPipeline(s, q) ==
  /\ created < MaxPipeline /\ q = created + 1
  /\ created' = q
  /\ owner' = [owner EXCEPT ![q] = s]
  /\ thread' = [thread EXCEPT ![q] = "starting"]

Spawn(c) ==
  /\ pc[c] = "spawn"
  /\ \E q \in Pipe :
       /\ NewPipeline(subject[c], q)
       /\ pipe' = [pipe EXCEPT ![c] = q]
  /\ Goto(c, "insert") /\ UNCHANGED <<op, subject>>
  /\ UNCHANGED <<registry, fresh, handle, cancelled, watchVars, sup, backoff, healthVars,
                 gauge, mainVars>>

\* A reconnection task waits on the channel of p.
StopsWatching(p) == sup' = [sup EXCEPT ![p] = "over"]
Watch(p) == sup' = [sup EXCEPT ![p] = "wait"]

Uncounted == UNCHANGED gauge
CountActive == gauge' = gauge + 1

\* The handle enters the map, whatever the map holds by now, and the
\* reconnection task is spawned on the receiver of the new channel.
Insert(c) ==
  /\ pc[c] = "insert" /\ MapUnlocked
  /\ handle' = [handle EXCEPT ![subject[c]] = pipe[c]]
  /\ Watch(pipe[c])
  /\ Goto(c, "count") /\ UNCHANGED <<op, subject, pipe>>
  /\ UNCHANGED <<registry, fresh, pipeVars, cancelled, watchVars, backoff, healthVars,
                 gauge, mainVars>>

Count(c) ==
  /\ pc[c] = "count"
  /\ CountActive
  /\ Return(c)
  /\ UNCHANGED <<registry, fresh, handle, pipeVars, cancelled, watchVars, sup, backoff,
                 healthVars, mainVars>>

\* stop_pipeline and remove_stream take the handle out of the map first;
\* without one they return false and change nothing.
TakeHandle(c, o, s) ==
  /\ o \in {"stop", "remove"} /\ MayCall(c, o) /\ MapUnlocked
  /\ handle[s] # NoPipe
  /\ Call(c, o, s, handle[s], "cancel")
  /\ handle' = [handle EXCEPT ![s] = NoPipe]
  /\ UNCHANGED <<registry, fresh, pipeVars, cancelled, watchVars, sup, backoff, healthVars,
                 gauge, mainVars>>

OtherToken(p) == UNCHANGED cancelled
CancelToken(p) == cancelled' = cancelled \cup {p}

Cancel(c) ==
  /\ pc[c] = "cancel"
  /\ CancelToken(pipe[c])
  /\ Goto(c, "notify") /\ UNCHANGED <<op, subject, pipe>>
  /\ UNCHANGED <<registry, fresh, handle, pipeVars, watchVars, sup, backoff, healthVars,
                 gauge, mainVars>>

\* A watch channel keeps only the latest value: send overwrites an unread one.
Send(p, r) ==
  /\ reason' = [reason EXCEPT ![p] = r]
  /\ unseen' = unseen \cup {p}

Notify(c) ==
  /\ pc[c] = "notify"
  /\ Send(pipe[c], "user")
  /\ IF op[c] = "remove"
     THEN Goto(c, "unregister") /\ UNCHANGED <<op, subject, pipe, gauge>>
     ELSE Return(c) /\ gauge' = gauge - 1
  /\ UNCHANGED <<registry, fresh, handle, pipeVars, cancelled, sup, backoff, healthVars, mainVars>>

Unregister(c) ==
  /\ pc[c] = "unregister"
  /\ registry' = registry \ {subject[c]}
  /\ gauge' = gauge - 1
  /\ Return(c)
  /\ UNCHANGED <<fresh, handle, pipeVars, cancelled, watchVars, sup, backoff, healthVars, mainVars>>
-----------------------------------------------------------------------------
(***************************************************************************)
(* Decode threads                                                          *)
(***************************************************************************)
\* run_decode_pipeline marks the stream online once the source is open; it does not
\* look at the token while it opens it.
ThreadStart(p) ==
  /\ thread[p] = "starting"
  /\ thread' = [thread EXCEPT ![p] = "running"]
  /\ status' = [status EXCEPT ![owner[p]] = "online"]
  /\ UNCHANGED <<registry, fresh, handle, created, owner, cancelled, watchVars, sup,
                 backoff, errors, reconnects, gauge, callVars, mainVars>>

\* The thread ends: on an error, which may be that the source does not open, at the
\* end of the source, or cancelled; Ok is reported as Eof.
ThreadExit(p, r) ==
  /\ r \in {"eof", "error"}
  /\ thread[p] = "running" \/ (thread[p] = "starting" /\ r = "error")
  /\ p \in cancelled \/ created < FailBound
  /\ thread' = [thread EXCEPT ![p] = "exited"]
  /\ Send(p, r)
  /\ UNCHANGED <<registry, fresh, handle, created, owner, cancelled, sup, backoff,
                 healthVars, gauge, callVars, mainVars>>
-----------------------------------------------------------------------------
(***************************************************************************)
(* Reconnection tasks                                                      *)
(***************************************************************************)
\* A file that ended is not restarted; nor is a pipeline ended by the user.
EndsAtUserOnly(p) == reason[p] = "user"
EndsAtAnyEof(p) == reason[p] \in {"user", "eof"}
EndsSupervision(p) ==
  \/ reason[p] = "user"
  \/ reason[p] = "eof" /\ owner[p] \in FileStream

\* exit_rx.changed() returns once a value has been sent and not been seen.
AnyPoll(p) == TRUE
Reported(p) == p \in unseen

CountErrorOnly(s) == errors' = [errors EXCEPT ![s] = @ + 1] /\ UNCHANGED status
MarkError(s) == errors' = [errors EXCEPT ![s] = @ + 1] /\ status' = [status EXCEPT ![s] = "error"]

\* The task looks at the latest reason.
ReadExit(p) ==
  /\ sup[p] = "wait" /\ Reported(p)
  /\ unseen' = unseen \ {p}
  /\ IF EndsSupervision(p)
     THEN /\ sup' = [sup EXCEPT ![p] = "over"]
          /\ UNCHANGED <<status, errors>>
     ELSE /\ sup' = [sup EXCEPT ![p] = "backoff"]
          /\ MarkError(owner[p])
  /\ UNCHANGED <<registry, fresh, handle, pipeVars, cancelled, reason, backoff,
                 reconnects, gauge, callVars, mainVars>>

DoubleBackoff(b) == 2 * b
NextBackoff(b) == IF 2 * b < MaxBackoff THEN 2 * b ELSE MaxBackoff

\* The sleep is over: the wait doubles, and only the registry is consulted.
WakeUp(p) ==
  /\ sup[p] = "backoff"
  /\ backoff' = [backoff EXCEPT ![p] = NextBackoff(@)]
  /\ IF owner[p] \in registry
     THEN /\ sup' = [sup EXCEPT ![p] = "restart"]
          /\ status' = [status EXCEPT ![owner[p]] = "connecting"]
     ELSE /\ sup' = [sup EXCEPT ![p] = "over"]
          /\ UNCHANGED status
  /\ UNCHANGED <<registry, fresh, handle, pipeVars, cancelled, watchVars, errors,
                 reconnects, gauge, callVars, mainVars>>

Restart(p) ==
  /\ sup[p] = "restart"
  /\ \E q \in Pipe :
       /\ NewPipeline(owner[p], q)
       /\ sup' = [sup EXCEPT ![p] = "over", ![q] = "insert"]
       /\ backoff' = [backoff EXCEPT ![q] = backoff[p]]
  /\ UNCHANGED <<registry, fresh, handle, cancelled, watchVars, healthVars, gauge,
                 callVars, mainVars>>

RecoverUncounted(s) == status' = [status EXCEPT ![s] = "online"] /\ UNCHANGED reconnects
MarkRecovered(s) ==
  /\ status' = [status EXCEPT ![s] = "online"]
  /\ reconnects' = [reconnects EXCEPT ![s] = @ + 1]

\* The new handle replaces whatever the map holds...
Reinsert(q) ==
  /\ sup[q] = "insert" /\ MapUnlocked
  /\ handle' = [handle EXCEPT ![owner[q]] = q]
  /\ sup' = [sup EXCEPT ![q] = "online"]
  /\ UNCHANGED <<registry, fresh, pipeVars, cancelled, watchVars, backoff, healthVars,
                 gauge, callVars, mainVars>>

\* ...and the task, having reported the recovery, waits on the new channel.
Recovered(q) ==
  /\ sup[q] = "online"
  /\ MarkRecovered(owner[q])
  /\ CountActive
  /\ Watch(q)
  /\ UNCHANGED <<registry, fresh, handle, pipeVars, cancelled, watchVars, backoff, errors,
                 callVars, mainVars>>
-----------------------------------------------------------------------------
(***************************************************************************)
(* shutdown_all, called by main once the server has drained its requests   *)
(***************************************************************************)
BeginShutdown ==
  /\ "shutdown" \in Kinds
  /\ main = "serving" /\ \A c \in Caller : pc[c] = "idle"
  /\ main' = "drain"
  /\ UNCHANGED <<registry, fresh, handle, pipeVars, cancelled, watchVars, sup, backoff,
                 healthVars, gauge, callVars, joining>>

DrainCancel(s) ==
  /\ main = "drain" /\ handle[s] # NoPipe
  /\ joining' = handle[s]
  /\ CancelToken(handle[s])
  /\ handle' = [handle EXCEPT ![s] = NoPipe]
  /\ main' = "notify"
  /\ UNCHANGED <<registry, fresh, pipeVars, watchVars, sup, backoff, healthVars, gauge, callVars>>

DrainNotify ==
  /\ main = "notify"
  /\ Send(joining, "user")
  /\ main' = "join"
  /\ UNCHANGED <<registry, fresh, handle, pipeVars, cancelled, sup, backoff, healthVars,
                 gauge, callVars, joining>>

DrainJoin ==
  /\ main = "join" /\ thread[joining] = "exited"
  /\ joining' = NoPipe /\ main' = "drain"
  /\ UNCHANGED <<registry, fresh, handle, pipeVars, cancelled, watchVars, sup, backoff,
                 healthVars, gauge, callVars>>

DrainEnd ==
  /\ main = "drain" /\ \A s \in Stream : handle[s] = NoPipe
  /\ gauge' = 0
  /\ main' = "drained"
  /\ UNCHANGED <<registry, fresh, handle, pipeVars, cancelled, watchVars, sup, backoff,
                 healthVars, callVars, joining>>
-----------------------------------------------------------------------------
CallerStep(c) ==
  \/ \E s \in Stream : AddStream(c, s) \/ StartPipeline(c, s)
  \/ \E s \in Stream, o \in Kinds : TakeHandle(c, o, s)
  \/ LookUp(c) \/ Spawn(c) \/ Insert(c) \/ Count(c)
  \/ Cancel(c) \/ Notify(c) \/ Unregister(c)

TaskStep(p) == ReadExit(p) \/ WakeUp(p) \/ Restart(p) \/ Reinsert(p) \/ Recovered(p)

ThreadStep(p) == ThreadStart(p) \/ \E r \in {"eof", "error"} : ThreadExit(p, r)

MainStep ==
  \/ BeginShutdown
  \/ \E s \in Stream : DrainCancel(s)
  \/ DrainNotify \/ DrainJoin \/ DrainEnd

Next ==
  \/ \E c \in Caller : CallerStep(c)
  \/ \E p \in Pipe : TaskStep(p) \/ ThreadStep(p)
  \/ MainStep

Spec == Init /\ [][Next]_vars

(***************************************************************************)
(* Fairness.  An accepted call runs to its end, tokio polls every ready    *)
(* task, a sleep ends, a started thread runs, and a decode thread looks at *)
(* its token after every packet.  Nobody has to call, and a source that is *)
(* not cancelled need not fail.                                            *)
(***************************************************************************)
Fairness ==
  /\ \A c \in Caller :
       WF_vars(LookUp(c) \/ Spawn(c) \/ Insert(c) \/ Count(c)
               \/ Cancel(c) \/ Notify(c) \/ Unregister(c))
  /\ \A p \in Pipe :
       /\ WF_vars(TaskStep(p))
       /\ WF_vars(ThreadStart(p))
       /\ WF_vars(p \in cancelled /\ \E r \in {"eof", "error"} : ThreadExit(p, r))
  /\ WF_vars((\E s \in Stream : DrainCancel(s)) \/ DrainNotify \/ DrainJoin \/ DrainEnd)

FairSpec == Spec /\ Fairness
-----------------------------------------------------------------------------
(***************************************************************************)
(* Correctness                                                             *)
(***************************************************************************)
\* A pipeline is live while its decode thread may still extract frames and
\* nobody has told it to stop.
Live(p) == thread[p] \in {"starting", "running"} /\ p \notin cancelled

LivePipes(s) == {p \in Pipe : Live(p) /\ owner[p] = s}

BeingInserted(p) == \E c \in Caller : pc[c] = "insert" /\ pipe[c] = p
BeingCancelled(p) == \E c \in Caller : pc[c] = "cancel" /\ pipe[c] = p

\* In every mode: a live pipeline has a reconnection task that will hear of its
\* end (spawn_reconnection_task), or is about to get one.  No stream loses its
\* supervision to an overwritten exit reason or an overwritten handle.
LivePipelineSupervised ==
  \A p \in Pipe : Live(p) => sup[p] \in {"insert", "online", "wait"} \/ BeingInserted(p)

\* Standalone mode (streams are only added and removed): a source is never
\* decoded twice at once, however add, remove, failures and restarts interleave.
OneLivePipeline == \A p, q \in Pipe : Live(p) /\ Live(q) /\ owner[p] = owner[q] => p = q

\* Standalone mode: a live pipeline can be reached through the map, or is in the
\* hands of the caller or task that is inserting it, or of the one about to cancel it.
\* No decode thread runs on without a handle to stop it.
LivePipelineReachable ==
  \A p \in Pipe : Live(p) =>
    \/ handle[owner[p]] = p
    \/ BeingInserted(p) \/ sup[p] = "insert"
    \/ BeingCancelled(p)

\* In every mode: every error counted by a registered stream's health is matched by
\* a counted reconnection, or by a task that is still on its way to one.
ErrorsMatchReconnects ==
  \A s \in registry :
    errors[s] = reconnects[s]
      + Cardinality({p \in Pipe : owner[p] = s /\ sup[p] \in {"backoff", "restart", "insert", "online"}})

\* Standalone mode: while a task sleeps before it reconnects, the stream's status
\* reads "error"; no late mark_online of a thread or a task hides the outage.
BackoffShowsError ==
  \A p \in Pipe : sup[p] = "backoff" => status[owner[p]] = "error"

\* In every mode: a file that was read to its end is not read again by its task,
\* although stop and remove may overwrite the reason the thread reported.
FinishedFileNotRestarted ==
  \A p \in Pipe :
    sup[p] \in {"backoff", "restart"} /\ owner[p] \in FileStream => reason[p] # "eof"

\* In every mode: the gauge, with the increments that insertions still owe it, is never
\* lower than the number of pipelines the map holds plus the decrements that stops owe.
GaugeCoversHandles ==
  gauge + Cardinality({c \in Caller : pc[c] = "count"})
        + Cardinality({p \in Pipe : sup[p] = "online"})
        >= Cardinality({s \in Stream : handle[s] # NoPipe})
           + Cardinality({c \in Caller : pc[c] \in {"cancel", "notify", "unregister"}})

\* What docs/deployment.md:262 says of stop_pipeline: once the call has returned,
\* a stream without a handle has no live pipeline.
StoppedStreamNotLive ==
  (\A c \in Caller : pc[c] = "idle")
    => \A s \in Stream : handle[s] = NoPipe => LivePipes(s) = {}

\* A registered network stream always comes back to a live pipeline in the map, unless
\* it is stopped or removed, or the process shuts down.
NetworkStreamRecovers ==
  \A s \in Stream \ FileStream :
    s \in registry ~> \/ s \notin registry \/ main # "serving"
                      \/ \E p \in cancelled : owner[p] = s
                      \/ handle[s] # NoPipe /\ Live(handle[s])

\* In every mode: a registered network stream whose pipelines nobody has told to stop is never
\* forgotten.  It is decoded by the pipeline in the map, or the task of that pipeline is on its
\* way to restart it, or somebody is about to put another one there.
PipesOf(s) == {p \in 1..created : owner[p] = s}

WillRestart(p) ==
  sup[p] \in {"online", "backoff", "restart"} \/ (sup[p] = "wait" /\ p \in unseen)

NetworkStreamNotForgotten ==
  \A s \in registry \ FileStream :
    main = "serving" /\ PipesOf(s) # {} /\ PipesOf(s) \cap cancelled = {} =>
      \/ handle[s] # NoPipe /\ (Live(handle[s]) \/ WillRestart(handle[s]))
      \/ \E p \in PipesOf(s) : sup[p] = "insert" \/ BeingInserted(p) \/ BeingCancelled(p)

\* shutdown_all, joining the threads one after another under the map's lock, ends,
\* while reconnection tasks keep failing, waking and waiting for that lock.
ShutdownEnds == (main = "drain") ~> (main = "drained")

(***************************************************************************)
(* Standalone mode: the pipelines of a stream fill its slot one at a time. *)
(***************************************************************************)
AnyOf(runs) == IF runs = {} THEN NoPipe ELSE CHOOSE p \in runs : TRUE
CurrentRun(s) == AnyOf(LivePipes(s))

Slot == INSTANCE PipelineSlot WITH
  Run <- Pipe, NoRun <- NoPipe,
  known <- Stream \ fresh,
  current <- [s \in Stream |-> CurrentRun(s)],
  used <- 1..created

\* Standalone mode: whatever add, remove, failures, restarts and shutdown do, the
\* manager implements the slots: no run of a source starts before its last one is over
\* or told to stop, nor for a stream nobody registered.
RunsDoNotOverlap == Slot!Spec
=============================================================================
