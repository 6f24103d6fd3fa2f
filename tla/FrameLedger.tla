----------------------------- MODULE FrameLedger -----------------------------
(***************************************************************************)
(* What the pipeline promises of the frames its runs extract.  A run       *)
(* numbers its frames; each waits for its place in the object store, and   *)
(* they get there, or fail to, in the order of their numbers.  What has    *)
(* been stored is announced, again in order, perhaps more than once or not *)
(* at all, and then counted as processed.  Frames that wait may be lost    *)
(* without a trace only after their run has been cancelled.                *)
(***************************************************************************)
EXTENDS Naturals, Sequences

CONSTANT Run

VARIABLES
  extracted,   \* frames extracted so far
  waiting,     \* frames extracted and not yet stored
  kept,        \* frames stored and not yet processed
  unstored,    \* frames counted as storage errors
  processed,   \* frames counted as processed
  log,         \* frames announced
  cancelled    \* runs that were cancelled

vars == <<extracted, waiting, kept, unstored, processed, log, cancelled>>

Init ==
  /\ extracted = [r \in Run |-> 0] /\ waiting = [r \in Run |-> {}] /\ kept = [r \in Run |-> {}]
  /\ unstored = [r \in Run |-> 0] /\ processed = [r \in Run |-> 0]
  /\ log = [r \in Run |-> <<>>]
  /\ cancelled = {}

First(n, S) == n \in S /\ \A m \in S : n <= m

Cancel(r) ==
  /\ cancelled' = cancelled \cup {r}
  /\ UNCHANGED <<extracted, waiting, kept, unstored, processed, log>>

Extract(r) ==
  /\ waiting' = [waiting EXCEPT ![r] = @ \cup {extracted[r]}]
  /\ extracted' = [extracted EXCEPT ![r] = @ + 1]
  /\ UNCHANGED <<kept, unstored, processed, log, cancelled>>

Store(r, n) ==
  /\ First(n, waiting[r])
  /\ waiting' = [waiting EXCEPT ![r] = @ \ {n}]
  /\ kept' = [kept EXCEPT ![r] = @ \cup {n}]
  /\ UNCHANGED <<extracted, unstored, processed, log, cancelled>>

Refuse(r, n) ==
  /\ First(n, waiting[r])
  /\ waiting' = [waiting EXCEPT ![r] = @ \ {n}]
  /\ unstored' = [unstored EXCEPT ![r] = @ + 1]
  /\ UNCHANGED <<extracted, kept, processed, log, cancelled>>

Lose(r, S) ==
  /\ r \in cancelled /\ S \subseteq waiting[r]
  /\ waiting' = [waiting EXCEPT ![r] = @ \ S]
  /\ UNCHANGED <<extracted, kept, unstored, processed, log, cancelled>>

Announce(r, n) ==
  /\ First(n, kept[r])
  /\ log' = [log EXCEPT ![r] = Append(@, n)]
  /\ UNCHANGED <<extracted, waiting, kept, unstored, processed, cancelled>>

\* With the last attempt, announced or given up.
Settle(r, n) ==
  /\ First(n, kept[r])
  /\ log' \in {log, [log EXCEPT ![r] = Append(@, n)]}
  /\ kept' = [kept EXCEPT ![r] = @ \ {n}]
  /\ processed' = [processed EXCEPT ![r] = @ + 1]
  /\ UNCHANGED <<extracted, waiting, unstored, cancelled>>

Next == \E r \in Run :
  \/ Cancel(r) \/ Extract(r)
  \/ \E n \in waiting[r] : Store(r, n) \/ Refuse(r, n)
  \/ \E S \in SUBSET waiting[r] : Lose(r, S)
  \/ \E n \in kept[r] : Announce(r, n) \/ Settle(r, n)

Spec == Init /\ [][Next]_vars
=============================================================================
