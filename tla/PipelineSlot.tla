----------------------------- MODULE PipelineSlot -----------------------------
(***************************************************************************)
(* What the stream manager promises of the sources it decodes: each source *)
(* has one slot, in which at most one run of the decoder is in progress,   *)
(* and the runs that fill a slot follow one another without overlapping.   *)
(***************************************************************************)
CONSTANTS Stream, Restored, Run, NoRun

VARIABLES
  known,     \* streams ever registered
  current,   \* the run in progress for a stream, or NoRun
  used       \* runs begun so far

vars == <<known, current, used>>

Init ==
  /\ known = Restored
  /\ current = [s \in Stream |-> NoRun]
  /\ used = {}

Register(s) ==
  /\ s \in Stream \ known
  /\ known' = known \cup {s}
  /\ UNCHANGED <<current, used>>

\* A run begins only for a registered stream whose slot is empty, and is new.
Begin(s, r) ==
  /\ s \in known /\ current[s] = NoRun
  /\ r \in Run \ used
  /\ current' = [current EXCEPT ![s] = r]
  /\ used' = used \cup {r}
  /\ UNCHANGED known

End(s) ==
  /\ current[s] # NoRun
  /\ current' = [current EXCEPT ![s] = NoRun]
  /\ UNCHANGED <<known, used>>

Next == \E s \in Stream : Register(s) \/ End(s) \/ \E r \in Run : Begin(s, r)

Spec == Init /\ [][Next]_vars
=============================================================================
