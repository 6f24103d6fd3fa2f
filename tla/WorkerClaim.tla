----------------------------- MODULE WorkerClaim -----------------------------
(***************************************************************************)
(* Several worker processes share the streams table: each claims rows for  *)
(* a limited time, starts their pipelines, stops those it no longer holds, *)
(* and may crash, restart or be terminated.  A tick is one second of the   *)
(* database's clock.                                                       *)
(***************************************************************************)
EXTENDS Integers, FiniteSets

CONSTANTS
  Worker,        \* worker identifiers (the pod's HOSTNAME: kept over a restart)
  Steady,        \* workers that neither crash nor are terminated
  Stream,        \* identifiers, numbered in the order of created_at
  Preset,        \* rows of the table at the start
  Kinds,         \* API operations in use: "add", "remove"
  Failing,       \* queries of the loop that may fail: "claim", "select", "query"
  NoWorker,      \* SQL NULL in claimed_by
  ClaimTimeout,  \* claim_timeout_secs
  ClaimBatch,    \* claim_batch_size
  SelectWindow,  \* the 2 seconds of the second claim query
  Heartbeat,     \* heartbeat_interval_secs
  MaxStall,      \* bound of the model: an iteration of the loop takes no longer
  MaxBoots       \* bound of the model: processes a worker ever starts

ASSUME WorkerAssumption ==
  /\ NoWorker \notin Worker /\ Steady \subseteq Worker
  /\ Stream \subseteq Nat /\ IsFiniteSet(Stream) /\ Preset \subseteq Stream
  /\ Kinds \subseteq {"add", "remove"} /\ Failing \subseteq {"claim", "select", "query"}
ASSUME TimeAssumption ==
  /\ ClaimTimeout \in Nat /\ ClaimBatch \in Nat \ {0} /\ SelectWindow \in Nat
  /\ Heartbeat \in Nat \ {0} /\ MaxStall \in Nat /\ MaxBoots \in Nat

VARIABLES
  rows,       \* streams in the table
  claimedBy,  \* claimed_by of a row
  age,        \* seconds since its claimed_at, up to ClaimTimeout + 1
  fresh,      \* identifiers never given out
  pc,         \* where a worker's claim loop is
  since,      \* seconds since its iteration, or its sleep, began
  term,       \* workers that received SIGTERM
  registry,   \* streams in a worker's registry
  running,    \* streams with a pipeline in a worker's map
  ids,        \* ids a worker has read from the table and not yet acted on
  saving,     \* spawned upserts of a worker that have not run yet
  deleting,   \* spawned deletes of a worker that have not run yet
  boots       \* processes a worker has started

tableVars == <<rows, claimedBy, age>>
memoryVars == <<registry, running, ids>>
spawnVars == <<saving, deleting>>
vars == <<rows, claimedBy, age, fresh, pc, since, term, registry, running, ids,
          saving, deleting, boots>>
-----------------------------------------------------------------------------
Up(w) == pc[w] # "down"

TypeOK ==
  /\ rows \subseteq Stream /\ fresh \subseteq Stream
  /\ claimedBy \in [Stream -> Worker \cup {NoWorker}]
  /\ age \in [Stream -> 0..ClaimTimeout + 1]
  /\ pc \in [Worker -> {"down", "claim", "select", "start", "query", "clean",
                        "sleep", "unclaim", "left"}]
  /\ since \in [Worker -> Nat]
  /\ term \subseteq Worker
  /\ registry \in [Worker -> SUBSET Stream]
  /\ running \in [Worker -> SUBSET Stream]
  /\ ids \in [Worker -> SUBSET Stream]
  /\ saving \in [Worker -> SUBSET Stream]
  /\ deleting \in [Worker -> SUBSET Stream]
  /\ boots \in [Worker -> 0..MaxBoots]

Init ==
  /\ rows = Preset /\ fresh = Stream \ Preset
  /\ claimedBy = [s \in Stream |-> NoWorker]
  /\ age = [s \in Stream |-> 0]
  /\ pc = [w \in Worker |-> "down"] /\ since = [w \in Worker |-> 0]
  /\ term = {}
  /\ registry = [w \in Worker |-> {}]
  /\ running = [w \in Worker |-> {}]
  /\ ids = [w \in Worker |-> {}]
  /\ saving = [w \in Worker |-> {}] /\ deleting = [w \in Worker |-> {}]
  /\ boots = [w \in Worker |-> 0]

Goto(w, at) == pc' = [pc EXCEPT ![w] = at]
-----------------------------------------------------------------------------
(***************************************************************************)
(* The claim loop.  An error of a query is logged; the iteration goes on   *)
(* with its next part.  workers.heartbeat_at is written and never read, so *)
(* the heartbeat query is left out.                                        *)
(***************************************************************************)
ClaimedBy(w) == {s \in rows : claimedBy[s] = w}

Unclaimed(s) == s \in rows /\ claimedBy[s] = NoWorker
Claimable(s) == s \in rows /\ (claimedBy[s] = NoWorker \/ age[s] > ClaimTimeout)

\* ORDER BY created_at LIMIT claim_batch_size
ClaimSet ==
  {s \in Stream : Claimable(s)
                  /\ Cardinality({t \in Stream : Claimable(t) /\ t < s}) < ClaimBatch}

\* The UPDATE; when it changes no row the worker has nothing to start.
Claim(w) ==
  /\ pc[w] = "claim"
  /\ claimedBy' = [s \in Stream |-> IF s \in ClaimSet THEN w ELSE claimedBy[s]]
  /\ age' = [s \in Stream |-> IF s \in ClaimSet THEN 0 ELSE age[s]]
  /\ Goto(w, IF ClaimSet = {} THEN "query" ELSE "select")
  /\ UNCHANGED <<rows, fresh, since, term, memoryVars, spawnVars, boots>>

\* The SELECT does not know which rows the UPDATE changed: it takes the worker's rows
\* claimed within the window.
AnyonesRecent(w) == {s \in rows : claimedBy[s] # NoWorker /\ age[s] <= SelectWindow}
RecentlyClaimed(w) == {s \in ClaimedBy(w) : age[s] <= SelectWindow}

Select(w) ==
  /\ pc[w] = "select"
  /\ ids' = [ids EXCEPT ![w] = RecentlyClaimed(w)]
  /\ Goto(w, "start")
  /\ UNCHANGED <<tableVars, fresh, since, term, registry, running, spawnVars, boots>>

QueryFails(w) ==
  /\ pc[w] \in Failing
  /\ Goto(w, IF pc[w] = "query" THEN "sleep" ELSE "query")
  /\ since' = [since EXCEPT ![w] = IF pc[w] = "query" THEN 0 ELSE @]
  /\ UNCHANGED <<tableVars, fresh, term, memoryVars, spawnVars, boots>>

\* One row of the result: registered if it is unknown, and started.
StartClaimed(w, s) ==
  /\ pc[w] = "start" /\ s \in ids[w]
  /\ registry' = [registry EXCEPT ![w] = @ \cup {s}]
  /\ running' = [running EXCEPT ![w] = @ \cup {s}]
  /\ ids' = [ids EXCEPT ![w] = @ \ {s}]
  /\ UNCHANGED <<tableVars, fresh, pc, since, term, spawnVars, boots>>

\* cleanup_orphaned_streams: the ids still claimed...
Query(w) ==
  /\ pc[w] = "query" \/ (pc[w] = "start" /\ ids[w] = {})
  /\ ids' = [ids EXCEPT ![w] = ClaimedBy(w)]
  /\ Goto(w, "clean")
  /\ UNCHANGED <<tableVars, fresh, since, term, registry, running, spawnVars, boots>>

\* ...then every other registered stream is stopped.
OrphansWithRow(w) == {s \in registry[w] \ ids[w] : s \in rows}
OrphansWithoutRow(w) == {s \in registry[w] \ ids[w] : s \notin rows}
Orphans(w) == registry[w] \ ids[w]

Clean(w) ==
  /\ pc[w] = "clean"
  /\ running' = [running EXCEPT ![w] = @ \ Orphans(w)]
  /\ ids' = [ids EXCEPT ![w] = {}]
  /\ Goto(w, "sleep") /\ since' = [since EXCEPT ![w] = 0]
  /\ UNCHANGED <<tableVars, fresh, term, registry, spawnVars, boots>>

\* The interval ticks; after a slow iteration it ticks early to catch up.
Wake(w) ==
  /\ pc[w] = "sleep"
  /\ Goto(w, "claim") /\ since' = [since EXCEPT ![w] = 0]
  /\ UNCHANGED <<tableVars, fresh, term, memoryVars, spawnVars, boots>>
-----------------------------------------------------------------------------
(***************************************************************************)
(* Start, termination and crash of a worker                                *)
(***************************************************************************)
\* main restores every row into the registry before the claim loop starts.
Boot(w) ==
  /\ pc[w] = "down" /\ boots[w] < MaxBoots
  /\ boots' = [boots EXCEPT ![w] = @ + 1]
  /\ registry' = [registry EXCEPT ![w] = rows]
  /\ Goto(w, "claim") /\ since' = [since EXCEPT ![w] = 0]
  /\ UNCHANGED <<tableVars, fresh, term, running, ids, spawnVars>>

Terminate(w) ==
  /\ Up(w) /\ w \notin Steady \cup term
  /\ term' = term \cup {w}
  /\ UNCHANGED <<tableVars, fresh, pc, since, memoryVars, spawnVars, boots>>

\* release_all_claims, between two iterations of the loop: first the pipelines...
Release(w) ==
  /\ pc[w] = "sleep" /\ w \in term
  /\ running' = [running EXCEPT ![w] = @ \ registry[w]]
  /\ Goto(w, "unclaim") /\ since' = [since EXCEPT ![w] = 0]
  /\ UNCHANGED <<tableVars, fresh, term, registry, ids, spawnVars, boots>>

\* ...then the rows; an error of the query is ignored.
Unclaim(w) ==
  /\ pc[w] = "unclaim"
  /\ \/ /\ claimedBy' = [s \in Stream |-> IF claimedBy[s] = w THEN NoWorker ELSE claimedBy[s]]
        /\ age' = [s \in Stream |-> IF claimedBy[s] = w THEN 0 ELSE age[s]]
     \/ "query" \in Failing /\ UNCHANGED <<claimedBy, age>>
  /\ Goto(w, "left")
  /\ UNCHANGED <<rows, fresh, since, term, memoryVars, spawnVars, boots>>

GoDown(w) ==
  /\ Goto(w, "down") /\ since' = [since EXCEPT ![w] = 0]
  /\ term' = term \ {w}
  /\ registry' = [registry EXCEPT ![w] = {}]
  /\ running' = [running EXCEPT ![w] = {}]
  /\ ids' = [ids EXCEPT ![w] = {}]
  /\ saving' = [saving EXCEPT ![w] = {}] /\ deleting' = [deleting EXCEPT ![w] = {}]
  /\ UNCHANGED <<tableVars, fresh, boots>>

\* In worker mode main returns as soon as the server has drained, wherever the claim
\* loop, a spawned task nobody joins, has got to.
Exit(w) == Up(w) /\ w \in term /\ GoDown(w)

Crash(w) == Up(w) /\ w \notin Steady \cup term /\ GoDown(w)
-----------------------------------------------------------------------------
(***************************************************************************)
(* The API of a worker                                                     *)
(***************************************************************************)
\* add_stream starts the stream on the worker that was asked; the row, unclaimed, is
\* inserted by a spawned task.
AddStream(w, s) ==
  /\ "add" \in Kinds /\ Up(w) /\ w \notin term /\ s \in fresh
  /\ fresh' = fresh \ {s}
  /\ registry' = [registry EXCEPT ![w] = @ \cup {s}]
  /\ running' = [running EXCEPT ![w] = @ \cup {s}]
  /\ saving' = [saving EXCEPT ![w] = @ \cup {s}]
  /\ UNCHANGED <<tableVars, pc, since, term, ids, deleting, boots>>

Save(w, s) ==
  /\ s \in saving[w]
  /\ saving' = [saving EXCEPT ![w] = @ \ {s}]
  /\ rows' = rows \cup {s}
  /\ UNCHANGED <<claimedBy, age, fresh, pc, since, term, memoryVars, deleting, boots>>

\* remove_stream does nothing on a worker that has no pipeline of the stream.
RemoveStream(w, s) ==
  /\ "remove" \in Kinds /\ Up(w) /\ w \notin term /\ s \in running[w]
  /\ running' = [running EXCEPT ![w] = @ \ {s}]
  /\ registry' = [registry EXCEPT ![w] = @ \ {s}]
  /\ deleting' = [deleting EXCEPT ![w] = @ \cup {s}]
  /\ UNCHANGED <<tableVars, fresh, pc, since, term, ids, saving, boots>>

Delete(w, s) ==
  /\ s \in deleting[w]
  /\ deleting' = [deleting EXCEPT ![w] = @ \ {s}]
  /\ rows' = rows \ {s}
  /\ claimedBy' = [claimedBy EXCEPT ![s] = NoWorker] /\ age' = [age EXCEPT ![s] = 0]
  /\ UNCHANGED <<fresh, pc, since, term, memoryVars, saving, boots>>
-----------------------------------------------------------------------------
\* claimed_at recedes; what lies beyond the timeout is not told apart.
Older(s) == IF claimedBy[s] # NoWorker /\ age[s] <= ClaimTimeout THEN age[s] + 1 ELSE age[s]

\* An iteration stalls for MaxStall at most and a sleep lasts Heartbeat.
Tick ==
  /\ \A w \in Worker :
       pc[w] \notin {"down", "left"}
         => since[w] < (IF pc[w] = "sleep" THEN Heartbeat ELSE MaxStall)
  /\ age' = [s \in Stream |-> Older(s)]
  /\ since' = [w \in Worker |-> IF pc[w] \in {"down", "left"} THEN since[w] ELSE since[w] + 1]
  /\ UNCHANGED <<rows, claimedBy, fresh, pc, term, memoryVars, spawnVars, boots>>

LoopStep(w) ==
  \/ Claim(w) \/ Select(w) \/ QueryFails(w) \/ Query(w) \/ Clean(w) \/ Wake(w)
  \/ \E s \in Stream : StartClaimed(w, s)
  \/ Release(w) \/ Unclaim(w)

ProcessStep(w) == Boot(w) \/ Terminate(w) \/ Exit(w) \/ Crash(w)

ApiStep(w) ==
  \E s \in Stream : AddStream(w, s) \/ Save(w, s) \/ RemoveStream(w, s) \/ Delete(w, s)

Next == Tick \/ \E w \in Worker : LoopStep(w) \/ ProcessStep(w) \/ ApiStep(w)

Spec == Init /\ [][Next]_vars

(***************************************************************************)
(* Fairness.  The loop, the spawned tasks and the clock go on; a steady    *)
(* worker is started; a process that was told to end does.  For every      *)
(* stream, a claim query, a SELECT that finds it within its window, and    *)
(* the cleanup query succeed now and then.                                 *)
(***************************************************************************)
Fairness ==
  /\ WF_vars(Tick)
  /\ \A w \in Worker :
       /\ WF_vars(LoopStep(w)) /\ WF_vars(Exit(w))
       /\ SF_vars(Claim(w)) /\ SF_vars(Query(w)) /\ WF_vars(Clean(w))
       /\ \A s \in Stream :
            /\ SF_vars(Select(w) /\ s \in ids'[w])
            /\ WF_vars(StartClaimed(w, s)) /\ WF_vars(Save(w, s)) /\ WF_vars(Delete(w, s))
  /\ \A w \in Steady : WF_vars(Boot(w))

FairSpec == Spec /\ Fairness
-----------------------------------------------------------------------------
(***************************************************************************)
(* Correctness                                                             *)
(***************************************************************************)
Selected(w) == IF pc[w] = "start" THEN ids[w] ELSE {}

\* A worker only starts streams it holds: the two claim queries and the starts that
\* follow, with another worker claiming, a stall, a failed query or a restart between
\* any two, leave it nothing to start that has become another worker's.  Needs
\* SelectWindow + MaxStall <= ClaimTimeout.
StartsOnlyItsOwn ==
  \A w \in Worker, s \in rows : s \in Selected(w) => claimedBy[s] = w

\* Two workers decode one stream for a bounded time only: a worker that lost its claim
\* stops at the cleanup of its next iteration, within a sleep and two iterations.
OverlapIsShort ==
  \A w \in Worker, s \in rows :
    s \in running[w] /\ claimedBy[s] \notin {w, NoWorker}
      => age[s] <= Heartbeat + 2 * MaxStall

\* What docs/deployment.md:204 says of claim_timeout_secs: a claim is taken away from a
\* worker that failed, not from one whose claim loop is running on time.
ClaimTakenOnlyFromFailed ==
  [][\A w \in Worker, s \in Stream :
       claimedBy[s] = w /\ Up(w) /\ w \notin term => claimedBy'[s] \in {w, NoWorker}]_vars

\* While some worker stays up, every stream in the table is decoded somewhere, again
\* and again after each crash, termination, stolen claim and failed query.
StreamsRun ==
  \A s \in Stream : s \in rows ~> (s \notin rows \/ \E w \in Worker : s \in running[w])

\* A removed stream is decoded by no worker in the end, although remove_stream only
\* stops it on the worker that was asked.
RemovedStreamStops ==
  \A s \in Preset : s \notin rows ~> \A w \in Worker : s \notin running[w]
=============================================================================
