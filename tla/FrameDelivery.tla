---------------------------- MODULE FrameDelivery ----------------------------
(***************************************************************************)
(* What becomes of the frames a stream's pipelines extract.                *)
(*                                                                         *)
(* Each run of the stream (first start, reconnection, start after a stop)  *)
(* has its own decode thread, its own upload and publish tasks and its own *)
(* channels between them.  The decode thread numbers the frames and sends  *)
(* them on a bounded channel; the upload task has a blocking thread take   *)
(* the next one, puts it in the object store and passes it on; the publish *)
(* task sends a message that names the object.  A run can be cancelled.    *)
(* The runs of a stream share the object store.                            *)
(***************************************************************************)
EXTENDS Integers, Sequences, SequencesExt

CONSTANTS
  MaxRun,      \* bound of the model: runs of the stream
  MaxFrame,    \* bound of the model: frames each run extracts
  Capacity,    \* DECODE_TO_EXTRACT_CAPACITY
  PublishCapacity,  \* capacity of the channel between the two tasks
  Attempts,    \* retry_delays.len(), for uploads and for messages
  Epoch        \* the presentation time at which the source of a run starts

Run   == 1..MaxRun
Frame == Nat
None  == -1

ASSUME DeliveryAssumption ==
  /\ MaxRun \in Nat /\ MaxFrame \in [Run -> Nat]
  /\ Capacity \in Nat \ {0} /\ PublishCapacity \in Nat \ {0} /\ Attempts \in Nat \ {0}
  /\ Epoch \in [Run -> Nat]

VARIABLES
  decoder,     \* the decode thread: "off", "on", "flush", "gone"
  frames,      \* frame_number: frames extracted so far
  sending,     \* the thread is in frame_tx.send
  cancelled,   \* runs whose token is cancelled
  queue,       \* extracted frames in the channel
  receiver,    \* the blocking thread: "none", "waiting", "holding", "closed"
  taken,       \* the frame the blocking thread took
  upload,      \* the upload task: "off", "select", "put", "forward", "gone"
  hand, tries, \* its frame, and the attempts made for it
  results,     \* the channel to the publish task
  publish, retries,  \* the frame being published, and the attempts made for it
  objects,     \* the object store: the run that wrote a key last
  stored,      \* uploads that succeeded
  unstored,    \* the run's share of STORAGE_ERRORS
  processed,   \* its share of FRAMES_PROCESSED
  log          \* frames named by messages, in the order they were written

decoderVars == <<decoder, frames, sending, cancelled>>
receiverVars == <<queue, receiver, taken>>
uploadVars == <<upload, hand, tries>>
publishVars == <<publish, retries, processed, log>>
vars == <<decoder, frames, sending, cancelled, queue, receiver, taken, upload, hand, tries,
          results, publish, retries, objects, stored, unstored, processed, log>>
-----------------------------------------------------------------------------
\* generate_key: presentation time and frame number.  Both advance together in a run.
Key(r, n) == <<Epoch[r], n>>
Keys == UNION {{Key(r, n) : n \in 0..(MaxFrame[r] - 1)} : r \in Run}
NoRun == 0

ThreadType ==
  /\ decoder \in [Run -> {"off", "on", "flush", "gone"}]
  /\ frames \in [Run -> Nat] /\ \A r \in Run : frames[r] <= MaxFrame[r]
  /\ sending \in [Run -> BOOLEAN]
  /\ cancelled \subseteq Run
  /\ queue \in [Run -> Seq(Frame)] /\ \A r \in Run : Len(queue[r]) <= Capacity
  /\ receiver \in [Run -> {"none", "waiting", "holding", "closed"}]
  /\ taken \in [Run -> Frame \cup {None}]

UploadType ==
  /\ upload \in [Run -> {"off", "select", "put", "forward", "gone"}]
  /\ hand \in [Run -> Frame \cup {None}]
  /\ tries \in [Run -> 0..(Attempts - 1)]
  /\ objects \in [Keys -> Run \cup {NoRun}]
  /\ stored \in [Run -> Nat] /\ unstored \in [Run -> Nat]

PublishType ==
  /\ results \in [Run -> Seq(Frame)] /\ \A r \in Run : Len(results[r]) <= PublishCapacity
  /\ publish \in [Run -> Frame \cup {None}]
  /\ retries \in [Run -> 0..(Attempts - 1)]
  /\ processed \in [Run -> Nat]
  /\ log \in [Run -> Seq(Frame)]

TypeOK == ThreadType /\ UploadType /\ PublishType

Init ==
  /\ decoder = [r \in Run |-> "off"] /\ frames = [r \in Run |-> 0]
  /\ sending = [r \in Run |-> FALSE] /\ cancelled = {}
  /\ queue = [r \in Run |-> <<>>]
  /\ receiver = [r \in Run |-> "none"] /\ taken = [r \in Run |-> None]
  /\ upload = [r \in Run |-> "off"] /\ hand = [r \in Run |-> None] /\ tries = [r \in Run |-> 0]
  /\ results = [r \in Run |-> <<>>]
  /\ publish = [r \in Run |-> None] /\ retries = [r \in Run |-> 0]
  /\ objects = [k \in Keys |-> NoRun]
  /\ stored = [r \in Run |-> 0] /\ unstored = [r \in Run |-> 0] /\ processed = [r \in Run |-> 0]
  /\ log = [r \in Run |-> <<>>]
-----------------------------------------------------------------------------
(***************************************************************************)
(* The run and its decode thread                                           *)
(***************************************************************************)
\* The next run starts when the thread of the last has ended, or was told to.
StartRun(r) ==
  /\ decoder[r] = "off"
  /\ r > 1 => decoder[r - 1] = "gone" \/ (r - 1 \in cancelled /\ decoder[r - 1] # "off")
  /\ decoder' = [decoder EXCEPT ![r] = "on"]
  /\ upload' = [upload EXCEPT ![r] = "select"]
  /\ receiver' = [receiver EXCEPT ![r] = "waiting"]
  /\ UNCHANGED <<frames, sending, cancelled, queue, taken, hand, tries, results, publishVars,
                 objects, stored, unstored>>

Cancel(r) ==
  /\ decoder[r] # "off" /\ r \notin cancelled
  /\ cancelled' = cancelled \cup {r}
  /\ UNCHANGED <<decoder, frames, sending, receiverVars, uploadVars, results, publishVars,
                 objects, stored, unstored>>

\* A rule accepts a frame, from the input or from the flush.
Extract(r) ==
  /\ decoder[r] \in {"on", "flush"} /\ ~sending[r] /\ frames[r] < MaxFrame[r]
  /\ frames' = [frames EXCEPT ![r] = @ + 1]
  /\ sending' = [sending EXCEPT ![r] = TRUE]
  /\ UNCHANGED <<decoder, cancelled, receiverVars, uploadVars, results, publishVars,
                 objects, stored, unstored>>

\* The task and its blocking thread have dropped their ends of the channel.
DropsWhenFull(r) == Len(queue[r]) = Capacity
KeepsAReceiver(r) == FALSE
Disconnected(r) == upload[r] = "gone" /\ receiver[r] = "none"

AlwaysRoom(r) == TRUE
HasRoom(r) == Len(queue[r]) < Capacity

LastInFirstOut(q, f) == <<f>> \o q
Enqueue(q, f) == Append(q, f)

Send(r) ==
  /\ sending[r] /\ ~Disconnected(r) /\ HasRoom(r)
  /\ sending' = [sending EXCEPT ![r] = FALSE]
  /\ queue' = [queue EXCEPT ![r] = Enqueue(@, frames[r] - 1)]
  /\ UNCHANGED <<decoder, frames, cancelled, receiver, taken, uploadVars, results, publishVars,
                 objects, stored, unstored>>

\* The send fails: the loop returns, the flush goes on.
GivesUp(r) == decoder[r] = "on"

SendFails(r) ==
  /\ sending[r] /\ Disconnected(r)
  /\ sending' = [sending EXCEPT ![r] = FALSE]
  /\ decoder' = [decoder EXCEPT ![r] = IF GivesUp(r) THEN "gone" ELSE @]
  /\ UNCHANGED <<frames, cancelled, receiverVars, uploadVars, results, publishVars,
                 objects, stored, unstored>>

\* The input ends, or the loop finds the token cancelled at the next packet.
EndLoop(r) ==
  /\ decoder[r] = "on" /\ ~sending[r]
  /\ decoder' = [decoder EXCEPT ![r] = "flush"]
  /\ UNCHANGED <<frames, sending, cancelled, receiverVars, uploadVars, results, publishVars,
                 objects, stored, unstored>>

EndThread(r) ==
  /\ decoder[r] = "flush" /\ ~sending[r]
  /\ decoder' = [decoder EXCEPT ![r] = "gone"]
  /\ UNCHANGED <<frames, sending, cancelled, receiverVars, uploadVars, results, publishVars,
                 objects, stored, unstored>>
-----------------------------------------------------------------------------
(***************************************************************************)
(* The upload task and its blocking thread                                 *)
(***************************************************************************)
\* Nobody is left to take what the channel holds, and it is freed.
LeftOver(gone, q) == IF gone THEN <<>> ELSE q

\* rx.recv() returns a frame.  Without a task to hand it to, the thread drops it.
Take(r) ==
  /\ receiver[r] = "waiting" /\ queue[r] # <<>>
  /\ queue' = [queue EXCEPT ![r] = LeftOver(upload[r] = "gone", Tail(@))]
  /\ IF upload[r] = "gone"
     THEN receiver' = [receiver EXCEPT ![r] = "none"] /\ UNCHANGED taken
     ELSE /\ receiver' = [receiver EXCEPT ![r] = "holding"]
          /\ taken' = [taken EXCEPT ![r] = Head(queue[r])]
  /\ UNCHANGED <<decoderVars, uploadVars, results, publishVars, objects, stored, unstored>>

\* rx.recv() fails: the channel is empty and the decode thread has gone.
KeepsASender(r) == FALSE
Closed(r) == queue[r] = <<>> /\ decoder[r] = "gone"

Hear(r) ==
  /\ receiver[r] = "waiting" /\ Closed(r)
  /\ receiver' = [receiver EXCEPT ![r] = IF upload[r] = "gone" THEN "none" ELSE "closed"]
  /\ UNCHANGED <<decoderVars, queue, taken, uploadVars, results, publishVars,
                 objects, stored, unstored>>

Select(r) ==
  /\ upload' = [upload EXCEPT ![r] = "select"]
  /\ receiver' = [receiver EXCEPT ![r] = "waiting"]
  /\ hand' = [hand EXCEPT ![r] = None] /\ tries' = [tries EXCEPT ![r] = 0]

Collect(r) ==
  /\ upload[r] = "select" /\ receiver[r] = "holding"
  /\ upload' = [upload EXCEPT ![r] = "put"]
  /\ hand' = [hand EXCEPT ![r] = taken[r]]
  /\ taken' = [taken EXCEPT ![r] = None]
  /\ receiver' = [receiver EXCEPT ![r] = "none"]
  /\ UNCHANGED <<decoderVars, queue, tries, results, publishVars, objects, stored, unstored>>

Finish(r) ==
  /\ upload[r] = "select" /\ receiver[r] = "closed"
  /\ upload' = [upload EXCEPT ![r] = "gone"]
  /\ receiver' = [receiver EXCEPT ![r] = "none"]
  /\ UNCHANGED <<decoderVars, queue, taken, hand, tries, results, publishVars,
                 objects, stored, unstored>>

\* select! takes the cancelled branch, ready or not the other one is: the frame in the
\* blocking thread is lost, and a thread that still waits stays behind.
ShutDown(r) ==
  /\ upload[r] = "select" /\ r \in cancelled
  /\ upload' = [upload EXCEPT ![r] = "gone"]
  /\ receiver' = [receiver EXCEPT ![r] = IF @ = "waiting" THEN "waiting" ELSE "none"]
  /\ queue' = [queue EXCEPT ![r] = LeftOver(receiver[r] # "waiting", @)]
  /\ taken' = [taken EXCEPT ![r] = None]
  /\ UNCHANGED <<decoderVars, hand, tries, results, publishVars, objects, stored, unstored>>

Put(r, effect) == objects' = IF effect THEN [objects EXCEPT ![Key(r, hand[r])] = r] ELSE objects

UploadSucceeds(r) ==
  /\ upload[r] = "put"
  /\ Put(r, TRUE)
  /\ stored' = [stored EXCEPT ![r] = @ + 1]
  /\ upload' = [upload EXCEPT ![r] = "forward"]
  /\ UNCHANGED <<decoderVars, receiverVars, hand, tries, results, publishVars, unstored>>

\* What follows the last attempt: the frame is counted and dropped.
Forwarded(r) == upload' = [upload EXCEPT ![r] = "forward"] /\ UNCHANGED <<receiver, hand, tries>>
StartsOver(r) == tries' = [tries EXCEPT ![r] = 0] /\ UNCHANGED <<upload, hand, receiver>>
Abandon(r) == Select(r)

\* An attempt fails, or is reported as failed although it had its effect.
UploadFails(r) ==
  /\ upload[r] = "put"
  /\ \E effect \in BOOLEAN : Put(r, effect)
  /\ IF tries[r] + 1 < Attempts
     THEN tries' = [tries EXCEPT ![r] = @ + 1] /\ UNCHANGED <<upload, hand, receiver, unstored>>
     ELSE Abandon(r) /\ unstored' = [unstored EXCEPT ![r] = @ + 1]
  /\ UNCHANGED <<decoderVars, queue, taken, results, publishVars, stored>>

\* upload_tx.send: the publish task outlives the upload task.
Forward(r) ==
  /\ upload[r] = "forward" /\ Len(results[r]) < PublishCapacity
  /\ results' = [results EXCEPT ![r] = Enqueue(@, hand[r])]
  /\ Select(r)
  /\ UNCHANGED <<decoderVars, queue, taken, publishVars, objects, stored, unstored>>
-----------------------------------------------------------------------------
(***************************************************************************)
(* The publish task                                                        *)
(***************************************************************************)
StartPublish(r) ==
  /\ publish[r] = None /\ results[r] # <<>>
  /\ publish' = [publish EXCEPT ![r] = Head(results[r])]
  /\ results' = [results EXCEPT ![r] = Tail(@)]
  /\ UNCHANGED <<decoderVars, receiverVars, uploadVars, retries, processed, log,
                 objects, stored, unstored>>

Deliver(r, effect) == log' = IF effect THEN [log EXCEPT ![r] = Append(@, publish[r])] ELSE log

NextResult(r) ==
  /\ publish' = [publish EXCEPT ![r] = None] /\ retries' = [retries EXCEPT ![r] = 0]

PublishSucceeds(r) ==
  /\ publish[r] # None
  /\ Deliver(r, TRUE)
  /\ processed' = [processed EXCEPT ![r] = @ + 1]
  /\ NextResult(r)
  /\ UNCHANGED <<decoderVars, receiverVars, uploadVars, results, objects, stored, unstored>>

\* The frame of a failed last attempt counts as processed too.
PublishFails(r) ==
  /\ publish[r] # None
  /\ \E effect \in BOOLEAN : Deliver(r, effect)
  /\ IF retries[r] + 1 < Attempts
     THEN retries' = [retries EXCEPT ![r] = @ + 1] /\ UNCHANGED <<publish, processed>>
     ELSE processed' = [processed EXCEPT ![r] = @ + 1] /\ NextResult(r)
  /\ UNCHANGED <<decoderVars, receiverVars, uploadVars, results, objects, stored, unstored>>
-----------------------------------------------------------------------------
DecoderStep(r) == Extract(r) \/ Send(r) \/ SendFails(r) \/ EndLoop(r) \/ EndThread(r)
ReceiverStep(r) == Take(r) \/ Hear(r)
UploadStep(r) ==
  Collect(r) \/ Finish(r) \/ ShutDown(r) \/ UploadSucceeds(r) \/ UploadFails(r) \/ Forward(r)
PublishStep(r) == StartPublish(r) \/ PublishSucceeds(r) \/ PublishFails(r)

Next == \E r \in Run :
  StartRun(r) \/ Cancel(r) \/ DecoderStep(r) \/ ReceiverStep(r) \/ UploadStep(r) \/ PublishStep(r)

Spec == Init /\ [][Next]_vars

\* Threads and tasks are scheduled, and a put or a publish ends one way or the other: both
\* clients have timeouts.  A loop ends by itself never, or when it is cancelled.
Fairness == \A r \in Run :
  /\ WF_vars(Send(r) \/ SendFails(r) \/ EndThread(r)) /\ WF_vars(r \in cancelled /\ EndLoop(r))
  /\ WF_vars(ReceiverStep(r)) /\ WF_vars(UploadStep(r)) /\ WF_vars(PublishStep(r))

FairSpec == Spec /\ Fairness
-----------------------------------------------------------------------------
(***************************************************************************)
(* The ledger of the frames, as FrameLedger has it                         *)
(***************************************************************************)
OneIf(b, n) == IF b THEN {n} ELSE {}

\* From the decode thread to the end of the upload ...
Waiting(r) ==
  OneIf(sending[r], frames[r] - 1) \cup Range(queue[r])
    \cup OneIf(receiver[r] = "holding", taken[r]) \cup OneIf(upload[r] = "put", hand[r])

\* ... and from there to the end of the last attempt to publish.
Kept(r) == OneIf(upload[r] = "forward", hand[r]) \cup Range(results[r]) \cup ({publish[r]} \ {None})

Ledger == INSTANCE FrameLedger WITH
  extracted <- frames, waiting <- [r \in Run |-> Waiting(r)], kept <- [r \in Run |-> Kept(r)]
-----------------------------------------------------------------------------
(***************************************************************************)
(* Correctness                                                             *)
(***************************************************************************)
One(b) == IF b THEN 1 ELSE 0

\* Until a run is cancelled no frame is lost between the decode thread and the object store
\* without being counted as a storage error, whatever fails and whoever waits for whom.
FramesConserved ==
  \A r \in Run : r \notin cancelled \/ upload[r] # "gone" =>
    frames[r] = One(sending[r]) + Len(queue[r]) + One(receiver[r] = "holding")
                  + One(upload[r] = "put") + unstored[r] + stored[r]

\* Every stored frame comes to the end of the publish task, in cancelled runs too: published,
\* or given up after the last attempt.
StoredFramesConserved ==
  \A r \in Run :
    stored[r] = One(upload[r] = "forward") + Len(results[r]) + One(publish[r] # None) + processed[r]

\* The messages of a run name its frames in the order in which they were extracted; a
\* message may be repeated.
PublishedInOrder ==
  \A r \in Run : \A i \in DOMAIN log[r] : \A j \in 1..i : log[r][j] <= log[r][i]

\* The object a message names holds the frame the message describes.
MessageNamesItsFrame ==
  \A r \in Run : \A n \in Range(log[r]) : objects[Key(r, n)] = r

\* What tasks, threads and channels do with frames is what the ledger allows: uploads end in
\* the order of extraction and messages follow in that order, one frame after another, and
\* frames vanish only from a cancelled run, before they are stored.
FramesOnLedger == Ledger!Spec

\* The threads, tasks and channels of a run never all wait for one another: while something of
\* it is left, the decode thread is reading its input or someone has something to do.
SomeoneGoesOn(r) ==
  \/ sending[r] /\ (HasRoom(r) \/ Disconnected(r))
  \/ decoder[r] = "flush" /\ ~sending[r]
  \/ receiver[r] = "waiting" /\ (queue[r] # <<>> \/ Closed(r))
  \/ upload[r] = "select" /\ receiver[r] \in {"holding", "closed"}
  \/ upload[r] = "put"
  \/ upload[r] = "forward" /\ Len(results[r]) < PublishCapacity
  \/ publish[r] # None \/ results[r] # <<>>

Ended(r) == decoder[r] = "gone" /\ Disconnected(r) /\ results[r] = <<>> /\ publish[r] = None

NeverStuck ==
  \A r \in Run : decoder[r] = "off" \/ Ended(r) \/ (decoder[r] = "on" /\ ~sending[r]) \/ SomeoneGoesOn(r)

\* Retries end, and nobody goes round in circles: what a run may still have to do shrinks with
\* each of its steps, however uploads and messages fail.
ReadWork(r) ==
  (2 * Attempts + 7) * (MaxFrame[r] - frames[r]) + (IF sending[r] THEN 2 * Attempts + 6 ELSE 0)
    + (CASE decoder[r] = "off" -> 5 [] decoder[r] = "on" -> 2 [] decoder[r] = "flush" -> 1 [] OTHER -> 0)
    + One(r \notin cancelled)

UploadWork(r) ==
  (2 * Attempts + 5) * Len(queue[r])
    + (CASE receiver[r] = "holding" -> 2 * Attempts + 5 [] receiver[r] = "waiting" -> 2
         [] receiver[r] = "closed" -> 1 [] OTHER -> 0)
    + (CASE upload[r] = "put" -> 2 * Attempts + 6 - tries[r] [] upload[r] = "forward" -> Attempts + 6
         [] upload[r] = "gone" -> 0 [] OTHER -> 2)

PublishWork(r) ==
  (Attempts + 1) * Len(results[r]) + (IF publish[r] = None THEN 0 ELSE Attempts - retries[r])

Work(r) == ReadWork(r) + UploadWork(r) + PublishWork(r)

WorkShrinks ==
  [][\E r \in Run : /\ Work(r)' \in Nat /\ Work(r)' < Work(r)
                    /\ \A q \in Run \ {r} : Work(q)' = Work(q)]_vars

\* The decode thread of a cancelled run ends, even one that waits for room in the channel:
\* shutdown_all joins it.
CancelledDecoderEnds == \A r \in Run : r \in cancelled ~> decoder[r] = "gone"

\* When a decode thread has ended so do the two tasks and the blocking thread, with nothing
\* left to publish.
ConsumersEnd ==
  \A r \in Run : decoder[r] = "gone" ~> Ended(r)
=============================================================================
