-------------------------- MODULE WorkerClaimProofs --------------------------
(***************************************************************************)
(* Proofs about WorkerClaim, for any workers, streams, batch size and      *)
(* times.  The claim protocol is safe because a selected row is younger    *)
(* than the window plus the time its worker has spent in the iteration.    *)
(***************************************************************************)
EXTENDS WorkerClaim, TLAPS

\* An iteration, with the two seconds the SELECT looks back, fits into the timeout.
Prompt == SelectWindow + MaxStall <= ClaimTimeout

\* A row that is still to be inserted has never been read from the table.
Unsaved ==
  /\ \A s \in fresh : s \notin rows /\ \A w \in Worker : s \notin ids[w] /\ s \notin saving[w]
  /\ \A v \in Worker : \A s \in saving[v] :
       /\ s \notin rows
       /\ \A w \in Worker : s \notin ids[w] /\ (s \in saving[w] => v = w)

\* A selected row is its worker's, and recently claimed.
SelectedIsRecent ==
  \A w \in Worker : \A s \in Selected(w) :
    s \in rows => claimedBy[s] = w /\ age[s] <= SelectWindow + since[w]

InTime == \A w \in Worker : pc[w] \in {"claim", "select", "start"} => since[w] <= MaxStall

ClaimInv == TypeOK /\ Unsaved /\ SelectedIsRecent /\ InTime

LEMMA InitType == Init => TypeOK
BY WorkerAssumption, TimeAssumption DEF Init, TypeOK

LEMMA NextType == ASSUME TypeOK, [Next]_vars PROVE TypeOK'
<1>. USE WorkerAssumption, TimeAssumption
     DEF TypeOK, Goto, tableVars, memoryVars, spawnVars, ClaimedBy, RecentlyClaimed, Older
<1>1. ASSUME NEW w \in Worker, Claim(w) PROVE TypeOK'
  BY <1>1 DEF Claim
<1>2. ASSUME NEW w \in Worker, Select(w) PROVE TypeOK'
  BY <1>2 DEF Select
<1>3. ASSUME NEW w \in Worker, QueryFails(w) PROVE TypeOK'
  BY <1>3 DEF QueryFails
<1>4. ASSUME NEW w \in Worker, NEW s \in Stream, StartClaimed(w, s) PROVE TypeOK'
  BY <1>4 DEF StartClaimed
<1>5. ASSUME NEW w \in Worker, Query(w) PROVE TypeOK'
  BY <1>5 DEF Query
<1>6. ASSUME NEW w \in Worker, Clean(w) PROVE TypeOK'
  BY <1>6 DEF Clean
<1>7. ASSUME NEW w \in Worker, Wake(w) PROVE TypeOK'
  BY <1>7 DEF Wake
<1>8. ASSUME NEW w \in Worker, Release(w) PROVE TypeOK'
  BY <1>8 DEF Release
<1>9. ASSUME NEW w \in Worker, Unclaim(w) PROVE TypeOK'
  BY <1>9 DEF Unclaim
<1>10. ASSUME NEW w \in Worker, Boot(w) PROVE TypeOK'
  BY <1>10 DEF Boot
<1>11. ASSUME NEW w \in Worker, Terminate(w) PROVE TypeOK'
  BY <1>11 DEF Terminate
<1>12. ASSUME NEW w \in Worker, GoDown(w) PROVE TypeOK'
  BY <1>12 DEF GoDown
<1>13. ASSUME NEW w \in Worker, NEW s \in Stream, AddStream(w, s) PROVE TypeOK'
  BY <1>13 DEF AddStream
<1>14. ASSUME NEW w \in Worker, NEW s \in Stream, Save(w, s) PROVE TypeOK'
  BY <1>14 DEF Save
<1>15. ASSUME NEW w \in Worker, NEW s \in Stream, RemoveStream(w, s) PROVE TypeOK'
  BY <1>15 DEF RemoveStream
<1>16. ASSUME NEW w \in Worker, NEW s \in Stream, Delete(w, s) PROVE TypeOK'
  BY <1>16 DEF Delete
<1>17. CASE Tick
  BY <1>17 DEF Tick
<1>18. CASE UNCHANGED vars
  BY <1>18 DEF vars
<1>. QED
  BY <1>1, <1>2, <1>3, <1>4, <1>5, <1>6, <1>7, <1>8, <1>9, <1>10, <1>11, <1>12, <1>13, <1>14,
     <1>15, <1>16, <1>17, <1>18
     DEF Next, LoopStep, ProcessStep, ApiStep, Exit, Crash

LEMMA NextUnsaved == ASSUME TypeOK, Unsaved, [Next]_vars PROVE Unsaved'
<1>. USE DEF TypeOK, Unsaved, Goto, tableVars, memoryVars, spawnVars, ClaimedBy, RecentlyClaimed, Older
<1>1. ASSUME NEW w \in Worker, Claim(w) PROVE Unsaved'
  BY <1>1 DEF Claim
<1>2. ASSUME NEW w \in Worker, Select(w) PROVE Unsaved'
  BY <1>2 DEF Select
<1>3. ASSUME NEW w \in Worker, QueryFails(w) PROVE Unsaved'
  BY <1>3 DEF QueryFails
<1>4. ASSUME NEW w \in Worker, NEW s \in Stream, StartClaimed(w, s) PROVE Unsaved'
  BY <1>4 DEF StartClaimed
<1>5. ASSUME NEW w \in Worker, Query(w) PROVE Unsaved'
  BY <1>5 DEF Query
<1>6. ASSUME NEW w \in Worker, Clean(w) PROVE Unsaved'
  BY <1>6 DEF Clean
<1>7. ASSUME NEW w \in Worker, Wake(w) PROVE Unsaved'
  BY <1>7 DEF Wake
<1>8. ASSUME NEW w \in Worker, Release(w) PROVE Unsaved'
  BY <1>8 DEF Release
<1>9. ASSUME NEW w \in Worker, Unclaim(w) PROVE Unsaved'
  BY <1>9 DEF Unclaim
<1>10. ASSUME NEW w \in Worker, Boot(w) PROVE Unsaved'
  BY <1>10 DEF Boot
<1>11. ASSUME NEW w \in Worker, Terminate(w) PROVE Unsaved'
  BY <1>11 DEF Terminate
<1>12. ASSUME NEW w \in Worker, GoDown(w) PROVE Unsaved'
  BY <1>12 DEF GoDown
<1>13. ASSUME NEW w \in Worker, NEW s \in Stream, AddStream(w, s) PROVE Unsaved'
  BY <1>13 DEF AddStream
<1>14. ASSUME NEW w \in Worker, NEW s \in Stream, Save(w, s) PROVE Unsaved'
  BY <1>14 DEF Save
<1>15. ASSUME NEW w \in Worker, NEW s \in Stream, RemoveStream(w, s) PROVE Unsaved'
  BY <1>15 DEF RemoveStream
<1>16. ASSUME NEW w \in Worker, NEW s \in Stream, Delete(w, s) PROVE Unsaved'
  BY <1>16 DEF Delete
<1>17. CASE Tick
  BY <1>17 DEF Tick
<1>18. CASE UNCHANGED vars
  BY <1>18 DEF vars
<1>. QED
  BY <1>1, <1>2, <1>3, <1>4, <1>5, <1>6, <1>7, <1>8, <1>9, <1>10, <1>11, <1>12, <1>13, <1>14,
     <1>15, <1>16, <1>17, <1>18
     DEF Next, LoopStep, ProcessStep, ApiStep, Exit, Crash

LEMMA NextSelected == ASSUME Prompt, ClaimInv, [Next]_vars PROVE (SelectedIsRecent /\ InTime)'
<1>. USE TimeAssumption
     DEF ClaimInv, TypeOK, SelectedIsRecent, InTime, Selected, Prompt, Goto, tableVars,
         memoryVars, spawnVars, ClaimedBy, RecentlyClaimed, Older
<1>1. ASSUME NEW w \in Worker, Claim(w) PROVE (SelectedIsRecent /\ InTime)'
  <2>1. InTime'  BY <1>1 DEF Claim
  <2>2. ASSUME NEW v \in Worker, NEW s \in Selected(v)', s \in rows'
        PROVE  claimedBy'[s] = v /\ age'[s] <= SelectWindow + since'[v]
    <3>1. v # w /\ s \in Selected(v) /\ s \in rows /\ since'[v] = since[v] /\ pc[v] = "start"
      BY <1>1, <2>2 DEF Claim
    <3>2. claimedBy[s] = v /\ age[s] <= SelectWindow + since[v] /\ since[v] <= MaxStall
      BY <3>1
    <3>3. age[s] <= ClaimTimeout  BY <3>1, <3>2
    <3>4. s \notin ClaimSet  BY WorkerAssumption, <3>1, <3>2, <3>3 DEF ClaimSet, Claimable
    <3>5. claimedBy'[s] = claimedBy[s] /\ age'[s] = age[s]  BY <1>1, <3>1, <3>4 DEF Claim
    <3>. QED  BY <3>1, <3>2, <3>5
  <2>. QED  BY <2>1, <2>2
<1>2. ASSUME NEW w \in Worker, Select(w) PROVE (SelectedIsRecent /\ InTime)'
  BY <1>2 DEF Select
<1>3. ASSUME NEW w \in Worker, QueryFails(w) PROVE (SelectedIsRecent /\ InTime)'
  BY <1>3 DEF QueryFails
<1>4. ASSUME NEW w \in Worker, NEW s \in Stream, StartClaimed(w, s) PROVE (SelectedIsRecent /\ InTime)'
  BY <1>4 DEF StartClaimed
<1>5. ASSUME NEW w \in Worker, Query(w) PROVE (SelectedIsRecent /\ InTime)'
  BY <1>5 DEF Query
<1>6. ASSUME NEW w \in Worker, Clean(w) PROVE (SelectedIsRecent /\ InTime)'
  BY <1>6 DEF Clean
<1>7. ASSUME NEW w \in Worker, Wake(w) PROVE (SelectedIsRecent /\ InTime)'
  BY <1>7 DEF Wake
<1>8. ASSUME NEW w \in Worker, Release(w) PROVE (SelectedIsRecent /\ InTime)'
  BY <1>8 DEF Release
<1>9. ASSUME NEW w \in Worker, Unclaim(w) PROVE (SelectedIsRecent /\ InTime)'
  BY <1>9 DEF Unclaim
<1>10. ASSUME NEW w \in Worker, Boot(w) PROVE (SelectedIsRecent /\ InTime)'
  BY <1>10 DEF Boot
<1>11. ASSUME NEW w \in Worker, Terminate(w) PROVE (SelectedIsRecent /\ InTime)'
  BY <1>11 DEF Terminate
<1>12. ASSUME NEW w \in Worker, GoDown(w) PROVE (SelectedIsRecent /\ InTime)'
  BY <1>12 DEF GoDown
<1>13. ASSUME NEW w \in Worker, NEW s \in Stream, AddStream(w, s) PROVE (SelectedIsRecent /\ InTime)'
  BY <1>13 DEF AddStream
<1>14. ASSUME NEW w \in Worker, NEW s \in Stream, Save(w, s) PROVE (SelectedIsRecent /\ InTime)'
  BY <1>14 DEF Save, Unsaved
<1>15. ASSUME NEW w \in Worker, NEW s \in Stream, RemoveStream(w, s) PROVE (SelectedIsRecent /\ InTime)'
  BY <1>15 DEF RemoveStream
<1>16. ASSUME NEW w \in Worker, NEW s \in Stream, Delete(w, s) PROVE (SelectedIsRecent /\ InTime)'
  BY <1>16 DEF Delete
<1>17. CASE Tick
  BY <1>17 DEF Tick
<1>18. CASE UNCHANGED vars
  BY <1>18 DEF vars
<1>. QED
  BY <1>1, <1>2, <1>3, <1>4, <1>5, <1>6, <1>7, <1>8, <1>9, <1>10, <1>11, <1>12, <1>13, <1>14,
     <1>15, <1>16, <1>17, <1>18
     DEF Next, LoopStep, ProcessStep, ApiStep, Exit, Crash

LEMMA ClaimInvariant == ASSUME Prompt PROVE Spec => []ClaimInv
<1>1. Init => ClaimInv
  <2>1. ASSUME Init PROVE Unsaved  BY <2>1 DEF Init, Unsaved
  <2>2. ASSUME Init PROVE SelectedIsRecent /\ InTime
    BY <2>2 DEF Init, SelectedIsRecent, InTime, Selected
  <2>. QED  BY <2>1, <2>2, InitType DEF ClaimInv
<1>2. ClaimInv /\ [Next]_vars => ClaimInv'
  BY NextType, NextUnsaved, NextSelected DEF ClaimInv
<1>. QED  BY <1>1, <1>2, PTL DEF Spec

\* Every variable keeps its type.
THEOREM ClaimTypeCorrect == Spec => []TypeOK
<1>1. TypeOK /\ [Next]_vars => TypeOK'  BY NextType
<1>. QED  BY <1>1, InitType, PTL DEF Spec

\* With a timeout longer than an iteration and the window of its SELECT, no worker ever
\* starts a stream whose claim has passed to another, for any number of workers, rows,
\* crashes, restarts, failed queries and API calls.
THEOREM NeverStartsAnothersStream == ASSUME Prompt PROVE Spec => []StartsOnlyItsOwn
<1>1. ClaimInv => StartsOnlyItsOwn
  BY DEF ClaimInv, SelectedIsRecent, StartsOnlyItsOwn
<1>. QED  BY <1>1, ClaimInvariant, PTL

(***************************************************************************)
(* A lost stream runs on for a bounded time.  The age of the new claim is  *)
(* the time since the loss; the cleanup of the next whole iteration stops  *)
(* the pipeline, and only a loss between the query of the cleanup and its  *)
(* stops survives it into the sleep.                                       *)
(***************************************************************************)
Lost(w, s) == s \in running[w] /\ claimedBy[s] \notin {w, NoWorker}

Bookkeeping ==
  /\ \A w \in Worker : running[w] \subseteq registry[w]
  /\ \A w \in Worker : pc[w] \in {"down", "unclaim", "left"} => running[w] = {}
  /\ \A w \in Worker : pc[w] \in {"unclaim", "left"} => w \in term
  /\ \A s \in Stream \ rows : claimedBy[s] = NoWorker
  /\ \A w \in Worker :
       /\ pc[w] \in {"claim", "select", "start", "query", "clean"} => since[w] <= MaxStall
       /\ pc[w] = "sleep" => since[w] <= Heartbeat

LossIsRecent ==
  \A w \in Worker : \A s \in rows :
    Lost(w, s) =>
      /\ age[s] <= Heartbeat + MaxStall + since[w]
      /\ pc[w] = "sleep" => age[s] <= MaxStall + since[w]
      /\ pc[w] = "clean" /\ s \in ids[w] => age[s] <= since[w]

OverlapInv == Bookkeeping /\ LossIsRecent

LEMMA NextBookkeeping ==
  ASSUME ClaimInv, Bookkeeping, [Next]_vars PROVE Bookkeeping'
<1>. USE WorkerAssumption, TimeAssumption
     DEF ClaimInv, TypeOK, Unsaved, Bookkeeping, Goto, Up, tableVars, memoryVars, spawnVars,
         ClaimedBy, RecentlyClaimed
<1>1. ASSUME NEW w \in Worker, Claim(w) PROVE Bookkeeping'
  <2>1. /\ pc[w] = "claim" /\ pc'[w] \in {"query", "select"}
        /\ \A v \in Worker \ {w} : pc'[v] = pc[v]
        /\ UNCHANGED <<rows, running, registry, term, since>>
    BY <1>1 DEF Claim
  <2>2. \A s \in Stream \ rows : claimedBy'[s] = claimedBy[s]
    BY <1>1 DEF Claim, ClaimSet, Claimable
  <2>. QED  BY <2>1, <2>2
<1>2. ASSUME NEW w \in Worker, Select(w) PROVE Bookkeeping'
  BY <1>2 DEF Select
<1>3. ASSUME NEW w \in Worker, QueryFails(w) PROVE Bookkeeping'
  BY <1>3 DEF QueryFails
<1>4. ASSUME NEW w \in Worker, NEW s \in Stream, StartClaimed(w, s) PROVE Bookkeeping'
  BY <1>4 DEF StartClaimed
<1>5. ASSUME NEW w \in Worker, Query(w) PROVE Bookkeeping'
  BY <1>5 DEF Query
<1>6. ASSUME NEW w \in Worker, Clean(w) PROVE Bookkeeping'
  BY <1>6 DEF Clean
<1>7. ASSUME NEW w \in Worker, Wake(w) PROVE Bookkeeping'
  BY <1>7 DEF Wake
<1>8. ASSUME NEW w \in Worker, Release(w) PROVE Bookkeeping'
  BY <1>8 DEF Release
<1>9. ASSUME NEW w \in Worker, Unclaim(w) PROVE Bookkeeping'
  BY <1>9 DEF Unclaim
<1>10. ASSUME NEW w \in Worker, Boot(w) PROVE Bookkeeping'
  BY <1>10 DEF Boot
<1>11. ASSUME NEW w \in Worker, Terminate(w) PROVE Bookkeeping'
  BY <1>11 DEF Terminate
<1>12. ASSUME NEW w \in Worker, GoDown(w) PROVE Bookkeeping'
  BY <1>12 DEF GoDown
<1>13. ASSUME NEW w \in Worker, NEW s \in Stream, AddStream(w, s) PROVE Bookkeeping'
  BY <1>13 DEF AddStream
<1>14. ASSUME NEW w \in Worker, NEW s \in Stream, Save(w, s) PROVE Bookkeeping'
  BY <1>14 DEF Save
<1>15. ASSUME NEW w \in Worker, NEW s \in Stream, RemoveStream(w, s) PROVE Bookkeeping'
  BY <1>15 DEF RemoveStream
<1>16. ASSUME NEW w \in Worker, NEW s \in Stream, Delete(w, s) PROVE Bookkeeping'
  BY <1>16 DEF Delete
<1>17. CASE Tick
  BY <1>17 DEF Tick, Older
<1>18. CASE UNCHANGED vars
  BY <1>18 DEF vars
<1>. QED
  BY <1>1, <1>2, <1>3, <1>4, <1>5, <1>6, <1>7, <1>8, <1>9, <1>10, <1>11, <1>12, <1>13, <1>14,
     <1>15, <1>16, <1>17, <1>18
     DEF Next, LoopStep, ProcessStep, ApiStep, Exit, Crash

LEMMA NextLoss ==
  ASSUME Prompt, "query" \notin Failing, ClaimInv, OverlapInv, [Next]_vars
  PROVE  LossIsRecent'
<1>. USE WorkerAssumption, TimeAssumption
     DEF ClaimInv, TypeOK, Unsaved, OverlapInv, Bookkeeping, LossIsRecent, Lost, Goto, Up, tableVars,
         memoryVars, spawnVars, ClaimedBy, RecentlyClaimed, Orphans
<1>1. ASSUME NEW w \in Worker, Claim(w) PROVE LossIsRecent'
  BY <1>1 DEF Claim
<1>2. ASSUME NEW w \in Worker, Select(w) PROVE LossIsRecent'
  BY <1>2 DEF Select
<1>3. ASSUME NEW w \in Worker, QueryFails(w) PROVE LossIsRecent'
  BY <1>3 DEF QueryFails
<1>4. ASSUME NEW w \in Worker, NEW s \in Stream, StartClaimed(w, s) PROVE LossIsRecent'
  <2>1. s \in rows => claimedBy[s] = w
    BY <1>4 DEF StartClaimed, SelectedIsRecent, Selected
  <2>2. /\ running' = [running EXCEPT ![w] = @ \cup {s}] /\ pc[w] = "start"
        /\ ids' = [ids EXCEPT ![w] = @ \ {s}]
        /\ UNCHANGED <<rows, claimedBy, age, pc, since>>
    BY <1>4 DEF StartClaimed
  <2>3. ASSUME NEW v \in Worker, NEW t \in rows, Lost(v, t)' PROVE Lost(v, t)
    BY <2>1, <2>2, <2>3
  <2>4. \A v \in Worker : ids'[v] \subseteq ids[v]  BY <2>2
  <2>. QED  BY <2>2, <2>3, <2>4
<1>5. ASSUME NEW w \in Worker, Query(w) PROVE LossIsRecent'
  BY <1>5 DEF Query
<1>6. ASSUME NEW w \in Worker, Clean(w) PROVE LossIsRecent'
  BY <1>6 DEF Clean
<1>7. ASSUME NEW w \in Worker, Wake(w) PROVE LossIsRecent'
  BY <1>7 DEF Wake
<1>8. ASSUME NEW w \in Worker, Release(w) PROVE LossIsRecent'
  BY <1>8 DEF Release
<1>9. ASSUME NEW w \in Worker, Unclaim(w) PROVE LossIsRecent'
  BY <1>9 DEF Unclaim
<1>10. ASSUME NEW w \in Worker, Boot(w) PROVE LossIsRecent'
  BY <1>10 DEF Boot
<1>11. ASSUME NEW w \in Worker, Terminate(w) PROVE LossIsRecent'
  BY <1>11 DEF Terminate
<1>12. ASSUME NEW w \in Worker, GoDown(w) PROVE LossIsRecent'
  BY <1>12 DEF GoDown
<1>13. ASSUME NEW w \in Worker, NEW s \in Stream, AddStream(w, s) PROVE LossIsRecent'
  BY <1>13 DEF AddStream
<1>14. ASSUME NEW w \in Worker, NEW s \in Stream, Save(w, s) PROVE LossIsRecent'
  BY <1>14 DEF Save
<1>15. ASSUME NEW w \in Worker, NEW s \in Stream, RemoveStream(w, s) PROVE LossIsRecent'
  BY <1>15 DEF RemoveStream
<1>16. ASSUME NEW w \in Worker, NEW s \in Stream, Delete(w, s) PROVE LossIsRecent'
  BY <1>16 DEF Delete
<1>17. CASE Tick
  BY <1>17 DEF Tick, Older
<1>18. CASE UNCHANGED vars
  BY <1>18 DEF vars
<1>. QED
  BY <1>1, <1>2, <1>3, <1>4, <1>5, <1>6, <1>7, <1>8, <1>9, <1>10, <1>11, <1>12, <1>13, <1>14,
     <1>15, <1>16, <1>17, <1>18
     DEF Next, LoopStep, ProcessStep, ApiStep, Exit, Crash

\* When the cleanup queries succeed and an iteration fits into the timeout, two workers
\* decode one stream no longer than a sleep and two iterations, for any number of
\* workers and streams, whatever crashes, restarts and API calls happen.
THEOREM OverlapBounded ==
  ASSUME Prompt, "query" \notin Failing PROVE Spec => []OverlapIsShort
<1>1. Init => OverlapInv
  BY TimeAssumption DEF Init, OverlapInv, Bookkeeping, LossIsRecent, Lost
<1>2. ClaimInv /\ OverlapInv /\ [Next]_vars => OverlapInv'
  BY NextBookkeeping, NextLoss DEF OverlapInv
<1>3. ClaimInv /\ OverlapInv => OverlapIsShort
  <2>. SUFFICES ASSUME ClaimInv, OverlapInv, NEW w \in Worker, NEW s \in rows, Lost(w, s)
                PROVE  age[s] <= Heartbeat + 2 * MaxStall
    BY DEF OverlapIsShort, Lost
  <2>1. age[s] \in Int /\ since[w] \in Nat  BY DEF ClaimInv, TypeOK
  <2>2. pc[w] # "sleep" => since[w] <= MaxStall
    BY DEF ClaimInv, TypeOK, OverlapInv, Bookkeeping, Lost
  <2>3. pc[w] = "sleep" => age[s] <= MaxStall + since[w] /\ since[w] <= Heartbeat
    BY DEF OverlapInv, Bookkeeping, LossIsRecent
  <2>4. age[s] <= Heartbeat + MaxStall + since[w]  BY DEF OverlapInv, LossIsRecent
  <2>. QED  BY <2>1, <2>2, <2>3, <2>4, TimeAssumption
<1>. QED  BY <1>1, <1>2, <1>3, ClaimInvariant, PTL DEF Spec
=============================================================================
