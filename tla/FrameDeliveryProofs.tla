-------------------------- MODULE FrameDeliveryProofs --------------------------
(***************************************************************************)
(* No frame is lost silently, for any number of runs and frames, any       *)
(* capacity of the channels and any number of attempts.                    *)
(***************************************************************************)
EXTENDS FrameDelivery, TLAPS

\* What the decode thread, the blocking thread and the upload task of a run know of each
\* other.  A task that ended without being told to has heard that the thread has gone.
Handshake(r) ==
  /\ decoder[r] = "off" => upload[r] = "off" /\ ~sending[r]
  /\ upload[r] = "off" => decoder[r] = "off" /\ receiver[r] = "none"
  /\ sending[r] => frames[r] > 0 /\ decoder[r] # "gone"
  /\ receiver[r] = "holding" => taken[r] \in Frame
  /\ upload[r] \in {"put", "forward"} => receiver[r] = "none" /\ hand[r] \in Frame
  /\ receiver[r] = "closed" => decoder[r] = "gone" /\ queue[r] = <<>>
  /\ upload[r] = "gone" /\ r \notin cancelled => decoder[r] = "gone" /\ receiver[r] = "none"

Handshakes == \A r \in Run : Handshake(r)

LEMMA InitType == Init => TypeOK
BY DeliveryAssumption DEF Init, TypeOK, ThreadType, UploadType, PublishType, Frame, None, NoRun

\* The channels of the code are sequences, shortened and extended at their ends.
LEMMA Channels ==
  ASSUME NEW q \in Seq(Frame), NEW f \in Frame
  PROVE  /\ Append(q, f) \in Seq(Frame) /\ Len(Append(q, f)) = Len(q) + 1
         /\ q # <<>> => /\ Head(q) \in Frame /\ Tail(q) \in Seq(Frame)
                        /\ Len(Tail(q)) = Len(q) - 1
         /\ Len(q) \in Nat /\ <<>> \in Seq(Frame) /\ Len(<<>>) = 0
OBVIOUS

LEMMA NextHandshakes == ASSUME TypeOK, Handshakes, [Next]_vars PROVE Handshakes'
<1>. USE DEF TypeOK, ThreadType, UploadType, PublishType, Handshakes, Handshake, decoderVars, receiverVars, uploadVars, publishVars,
             Frame, None, Select
<1>1. ASSUME NEW r \in Run, StartRun(r) PROVE Handshakes'
  BY <1>1 DEF StartRun
<1>2. ASSUME NEW r \in Run, Cancel(r) PROVE Handshakes'
  BY <1>2 DEF Cancel
<1>3. ASSUME NEW r \in Run, Extract(r) PROVE Handshakes'
  <2>1. frames'[r] = frames[r] + 1 /\ frames[r] \in Nat /\ decoder[r] # "gone" /\ decoder[r] # "off"
    BY <1>3 DEF Extract
  <2>2. Handshake(r)'
    BY <1>3, <2>1 DEF Extract
  <2>3. ASSUME NEW q \in Run, q # r PROVE Handshake(q)'
    BY <1>3, <2>3 DEF Extract
  <2>. QED  BY <2>2, <2>3, SMTT(60)
<1>4. ASSUME NEW r \in Run, Send(r) PROVE Handshakes'
  BY <1>4 DEF Send
<1>5. ASSUME NEW r \in Run, SendFails(r) PROVE Handshakes'
  BY <1>5 DEF SendFails, GivesUp, Disconnected
<1>6. ASSUME NEW r \in Run, EndLoop(r) PROVE Handshakes'
  BY <1>6 DEF EndLoop
<1>7. ASSUME NEW r \in Run, EndThread(r) PROVE Handshakes'
  BY <1>7 DEF EndThread
<1>8. ASSUME NEW r \in Run, Take(r) PROVE Handshakes'
  <2>1. CASE upload[r] = "gone"
    BY <1>8, <2>1, SMTT(60) DEF Take, LeftOver
  <2>2. CASE upload[r] # "gone"
    <3>1. Head(queue[r]) \in Frame
      BY <1>8, Channels DEF Take
    <3>. QED  BY <1>8, <2>2, <3>1, SMTT(120) DEF Take, LeftOver
  <2>. QED  BY <2>1, <2>2
<1>9. ASSUME NEW r \in Run, Hear(r) PROVE Handshakes'
  BY <1>9 DEF Hear, Closed
<1>10. ASSUME NEW r \in Run, Collect(r) PROVE Handshakes'
  BY <1>10 DEF Collect
<1>11. ASSUME NEW r \in Run, Finish(r) PROVE Handshakes'
  BY <1>11 DEF Finish
<1>12. ASSUME NEW r \in Run, ShutDown(r) PROVE Handshakes'
  BY <1>12 DEF ShutDown, LeftOver
<1>13. ASSUME NEW r \in Run, UploadSucceeds(r) PROVE Handshakes'
  BY <1>13 DEF UploadSucceeds
<1>14. ASSUME NEW r \in Run, UploadFails(r) PROVE Handshakes'
  <2>1. CASE tries[r] + 1 < Attempts
    BY <1>14, <2>1 DEF UploadFails, Abandon
  <2>2. CASE ~(tries[r] + 1 < Attempts)
    <3>1. Select(r) /\ UNCHANGED <<decoderVars, queue, taken>> /\ upload[r] = "put"
      BY <1>14, <2>2 DEF UploadFails, Abandon
    <3>. QED  BY <3>1
  <2>. QED  BY <2>1, <2>2
<1>15. ASSUME NEW r \in Run, Forward(r) PROVE Handshakes'
  BY <1>15 DEF Forward
<1>16. ASSUME NEW r \in Run, PublishStep(r) PROVE Handshakes'
  BY <1>16 DEF PublishStep, StartPublish, PublishSucceeds, PublishFails
<1>17. CASE UNCHANGED vars
  BY <1>17 DEF vars
<1>. QED
  BY <1>1, <1>2, <1>3, <1>4, <1>5, <1>6, <1>7, <1>8, <1>9, <1>10, <1>11, <1>12, <1>13, <1>14,
     <1>15, <1>16, <1>17 DEF Next, DecoderStep, ReceiverStep, UploadStep

LEMMA NextType == ASSUME TypeOK, Handshakes, [Next]_vars PROVE TypeOK'
<1>. USE DeliveryAssumption
     DEF TypeOK, Handshakes, Handshake, decoderVars, receiverVars, uploadVars, publishVars,
         Frame, None, NoRun, Select
<1>a. UNCHANGED <<decoderVars, receiverVars>> => ThreadType'
  BY DEF ThreadType
<1>b. UNCHANGED <<uploadVars, objects, stored, unstored>> => UploadType'
  BY DEF UploadType
<1>c. UNCHANGED <<publishVars, results>> => PublishType'
  BY DEF PublishType
<1>1. ASSUME NEW r \in Run, StartRun(r) PROVE TypeOK'
  <2>1. ThreadType'  BY <1>1 DEF StartRun, ThreadType
  <2>2. UploadType'  BY <1>1 DEF StartRun, UploadType
  <2>. QED  BY <1>1, <1>c, <2>1, <2>2 DEF StartRun
<1>2. ASSUME NEW r \in Run, Cancel(r) PROVE TypeOK'
  <2>1. ThreadType'  BY <1>2 DEF Cancel, ThreadType
  <2>. QED  BY <1>2, <1>b, <1>c, <2>1 DEF Cancel
<1>3. ASSUME NEW r \in Run, Extract(r) PROVE TypeOK'
  <2>1. frames'[r] \in Nat /\ frames'[r] <= MaxFrame[r]
    BY <1>3 DEF Extract, ThreadType
  <2>2. ThreadType'  BY <1>3, <2>1 DEF Extract, ThreadType
  <2>. QED  BY <1>3, <1>b, <1>c, <2>2 DEF Extract
<1>4. ASSUME NEW r \in Run, Send(r) PROVE TypeOK'
  <2>1. frames[r] - 1 \in Frame
    BY <1>4 DEF Send, ThreadType
  <2>2. queue'[r] \in Seq(Frame) /\ Len(queue'[r]) = Len(queue[r]) + 1
    BY <1>4, <2>1, Channels DEF Send, Enqueue, ThreadType
  <2>3. Len(queue'[r]) <= Capacity
    BY <1>4, <2>2, Channels DEF Send, HasRoom, ThreadType
  <2>4. ThreadType'
    BY <1>4, <2>2, <2>3 DEF Send, ThreadType
  <2>. QED  BY <1>4, <1>b, <1>c, <2>4 DEF Send
<1>5. ASSUME NEW r \in Run, SendFails(r) \/ EndLoop(r) \/ EndThread(r) PROVE TypeOK'
  <2>1. ThreadType'
    BY <1>5 DEF SendFails, EndLoop, EndThread, ThreadType
  <2>. QED  BY <1>5, <1>b, <1>c, <2>1 DEF SendFails, EndLoop, EndThread
<1>8. ASSUME NEW r \in Run, Take(r) PROVE TypeOK'
  <2>1. Head(queue[r]) \in Frame /\ Tail(queue[r]) \in Seq(Frame) /\ Len(Tail(queue[r])) <= Capacity
    BY <1>8, Channels DEF Take, ThreadType
  <2>2. LeftOver(upload[r] = "gone", Tail(queue[r])) \in Seq(Frame)
        /\ Len(LeftOver(upload[r] = "gone", Tail(queue[r]))) <= Capacity
    BY <2>1, Channels DEF LeftOver
  <2>3. receiver' \in [Run -> {"none", "waiting", "holding", "closed"}] /\ taken' \in [Run -> Frame \cup {None}]
    BY <1>8, <2>1, ZenonT(60) DEF Take, ThreadType
  <2>4. ThreadType'
    BY <1>8, <2>2, <2>3 DEF Take, ThreadType
  <2>. QED  BY <1>8, <1>b, <1>c, <2>4 DEF Take
<1>9. ASSUME NEW r \in Run, Hear(r) PROVE TypeOK'
  <2>1. ThreadType'  BY <1>9 DEF Hear, ThreadType
  <2>. QED  BY <1>9, <1>b, <1>c, <2>1 DEF Hear
<1>10. ASSUME NEW r \in Run, Collect(r) PROVE TypeOK'
  <2>1. ThreadType'  BY <1>10 DEF Collect, ThreadType
  <2>2. UploadType'  BY <1>10 DEF Collect, ThreadType, UploadType
  <2>. QED  BY <1>10, <1>c, <2>1, <2>2 DEF Collect
<1>11. ASSUME NEW r \in Run, Finish(r) PROVE TypeOK'
  <2>1. ThreadType'  BY <1>11 DEF Finish, ThreadType
  <2>2. UploadType'  BY <1>11 DEF Finish, UploadType
  <2>. QED  BY <1>11, <1>c, <2>1, <2>2 DEF Finish
<1>12. ASSUME NEW r \in Run, ShutDown(r) PROVE TypeOK'
  <2>1. LeftOver(receiver[r] # "waiting", queue[r]) \in Seq(Frame)
        /\ Len(LeftOver(receiver[r] # "waiting", queue[r])) <= Capacity
    BY Channels DEF LeftOver, ThreadType
  <2>2. ThreadType'  BY <1>12, <2>1 DEF ShutDown, ThreadType
  <2>3. UploadType'  BY <1>12 DEF ShutDown, UploadType
  <2>. QED  BY <1>12, <1>c, <2>2, <2>3 DEF ShutDown
<1>13. ASSUME NEW r \in Run, UploadSucceeds(r) PROVE TypeOK'
  <2>1. objects' \in [Keys -> Run \cup {NoRun}]
    BY <1>13 DEF UploadSucceeds, Put, UploadType
  <2>2. UploadType'  BY <1>13, <2>1 DEF UploadSucceeds, UploadType
  <2>. QED  BY <1>13, <1>a, <1>c, <2>2 DEF UploadSucceeds
<1>14. ASSUME NEW r \in Run, UploadFails(r) PROVE TypeOK'
  <2>1. objects' \in [Keys -> Run \cup {NoRun}]
    <3>1. PICK effect \in BOOLEAN : Put(r, effect)
      BY <1>14 DEF UploadFails
    <3>. QED  BY <3>1 DEF Put, UploadType
  <2>2. CASE tries[r] + 1 < Attempts
    <3>0. tries' = [tries EXCEPT ![r] = @ + 1] /\ UNCHANGED <<upload, hand, unstored, stored>>
      BY <1>14, <2>2 DEF UploadFails
    <3>1. UploadType'  BY <2>1, <2>2, <3>0 DEF UploadType
    <3>. QED  BY <1>14, <1>a, <1>c, <2>2, <3>1 DEF UploadFails
  <2>3. CASE ~(tries[r] + 1 < Attempts)
    <3>1. Select(r) /\ unstored' = [unstored EXCEPT ![r] = @ + 1]
          /\ UNCHANGED <<decoderVars, queue, taken, results, publishVars, stored>>
      BY <1>14, <2>3 DEF UploadFails, Abandon
    <3>2. ThreadType'  BY <3>1 DEF ThreadType
    <3>3. UploadType'  BY <2>1, <3>1 DEF UploadType
    <3>. QED  BY <1>c, <3>1, <3>2, <3>3
  <2>. QED  BY <2>2, <2>3
<1>15. ASSUME NEW r \in Run, Forward(r) PROVE TypeOK'
  <2>1. results'[r] \in Seq(Frame) /\ Len(results'[r]) = Len(results[r]) + 1
    BY <1>15, Channels DEF Forward, Enqueue, PublishType
  <2>2. Len(results'[r]) <= PublishCapacity
    BY <1>15, <2>1, Channels DEF Forward, PublishType
  <2>3. PublishType'
    BY <1>15, <2>1, <2>2 DEF Forward, PublishType
  <2>4. ThreadType'  BY <1>15 DEF Forward, ThreadType
  <2>5. UploadType'  BY <1>15 DEF Forward, UploadType
  <2>. QED  BY <2>3, <2>4, <2>5
<1>16. ASSUME NEW r \in Run, StartPublish(r) PROVE TypeOK'
  <2>1. Head(results[r]) \in Frame /\ Tail(results[r]) \in Seq(Frame)
        /\ Len(Tail(results[r])) <= PublishCapacity
    BY <1>16, Channels DEF StartPublish, PublishType
  <2>2. PublishType'  BY <1>16, <2>1 DEF StartPublish, PublishType
  <2>. QED  BY <1>16, <1>a, <1>b, <2>2 DEF StartPublish
<1>17. ASSUME NEW r \in Run, PublishSucceeds(r) \/ PublishFails(r) PROVE TypeOK'
  <2>1. Append(log[r], publish[r]) \in Seq(Frame)
    BY <1>17, Channels DEF PublishSucceeds, PublishFails, PublishType
  <2>2. log' \in [Run -> Seq(Frame)]
    <3>1. PICK effect \in BOOLEAN : Deliver(r, effect)
      BY <1>17 DEF PublishSucceeds, PublishFails
    <3>. QED  BY <2>1, <3>1 DEF Deliver, PublishType
  <2>3. UNCHANGED <<decoderVars, receiverVars, uploadVars, results, objects, stored, unstored>>
    BY <1>17 DEF PublishSucceeds, PublishFails
  <2>4. CASE NextResult(r) /\ processed' = [processed EXCEPT ![r] = @ + 1]
    BY <1>a, <1>b, <2>2, <2>3, <2>4, SMTT(30) DEF NextResult, PublishType
  <2>5. CASE retries[r] + 1 < Attempts /\ retries' = [retries EXCEPT ![r] = @ + 1]
             /\ UNCHANGED <<publish, processed>>
    BY <1>a, <1>b, <2>2, <2>3, <2>5, SMTT(30) DEF PublishType
  <2>. QED  BY <1>17, <2>4, <2>5 DEF PublishSucceeds, PublishFails
<1>18. CASE UNCHANGED vars
  BY <1>a, <1>b, <1>c, <1>18 DEF vars
<1>. QED
  BY <1>1, <1>2, <1>3, <1>4, <1>5, <1>8, <1>9, <1>10, <1>11, <1>12, <1>13, <1>14, <1>15, <1>16,
     <1>17, <1>18 DEF Next, DecoderStep, ReceiverStep, UploadStep, PublishStep

(***************************************************************************)
(* The two sums, for one run                                               *)
(***************************************************************************)
Tally(r) ==
  One(sending[r]) + Len(queue[r]) + One(receiver[r] = "holding") + One(upload[r] = "put")
    + unstored[r] + stored[r]
Conserved(r) == r \notin cancelled \/ upload[r] # "gone" => frames[r] = Tally(r)

StoredTally(r) ==
  One(upload[r] = "forward") + Len(results[r]) + One(publish[r] # None) + processed[r]
StoredConserved(r) == stored[r] = StoredTally(r)

Step(r) ==
  StartRun(r) \/ Cancel(r) \/ DecoderStep(r) \/ ReceiverStep(r) \/ UploadStep(r) \/ PublishStep(r)

\* The part of a run's state that the sums are made of: the summands of the first ...
Extracted(r) ==
  <<frames[r], sending[r], queue[r], receiver[r] = "holding", upload[r] = "put", upload[r] = "gone",
    unstored[r], stored[r], r \in cancelled>>
\* ... and of the second.
Uploaded(r) == <<upload[r] = "forward", results[r], publish[r], processed[r], stored[r]>>

LEMMA SameExtracted ==
  ASSUME NEW r \in Run, Conserved(r), UNCHANGED Extracted(r) PROVE Conserved(r)'
BY DEF Conserved, Tally, One, Extracted

LEMMA SameUploaded ==
  ASSUME NEW r \in Run, StoredConserved(r), UNCHANGED Uploaded(r) PROVE StoredConserved(r)'
BY DEF StoredConserved, StoredTally, One, Uploaded

LEMMA Numbers ==
  ASSUME TypeOK, NEW r \in Run
  PROVE  /\ frames[r] \in Nat /\ unstored[r] \in Nat /\ stored[r] \in Nat /\ processed[r] \in Nat
         /\ Len(queue[r]) \in Nat /\ Len(results[r]) \in Nat
<1>1. queue[r] \in Seq(Frame) /\ results[r] \in Seq(Frame) /\ 0 \in Frame
  BY DEF TypeOK, ThreadType, PublishType, Frame
<1>. QED  BY <1>1, Channels DEF TypeOK, ThreadType, UploadType, PublishType

\* A step of one run leaves the other runs alone: they share the object store only.
LEMMA OthersUntouched ==
  ASSUME TypeOK, NEW r \in Run, NEW q \in Run, q # r, Step(r)
  PROVE  UNCHANGED <<Extracted(q), Uploaded(q)>>
<1>. USE DEF TypeOK, ThreadType, UploadType, PublishType, Extracted, Uploaded,
             decoderVars, receiverVars, uploadVars, publishVars, Select
<1>1. CASE StartRun(r) \/ Cancel(r)
  BY <1>1, SMTT(30) DEF StartRun, Cancel
<1>2. CASE DecoderStep(r)
  BY <1>2 DEF DecoderStep, Extract, Send, SendFails, EndLoop, EndThread
<1>3. CASE ReceiverStep(r)
  BY <1>3, SMTT(30) DEF ReceiverStep, Take, Hear
<1>4. CASE Collect(r) \/ Finish(r) \/ ShutDown(r)
  BY <1>4, SMTT(30) DEF Collect, Finish, ShutDown
<1>5. CASE UploadSucceeds(r) \/ UploadFails(r) \/ Forward(r)
  BY <1>5, ZenonT(60) DEF UploadSucceeds, UploadFails, Abandon, Forward
<1>6. CASE PublishStep(r)
  BY <1>6, ZenonT(60) DEF PublishStep, StartPublish, PublishSucceeds, PublishFails, NextResult
<1>. QED  BY <1>1, <1>2, <1>3, <1>4, <1>5, <1>6 DEF Step, UploadStep

\* Frames between the decode thread and the end of their upload.
LEMMA StepConserved ==
  ASSUME TypeOK, Handshakes, NEW r \in Run, Conserved(r), Step(r) PROVE Conserved(r)'
<1>. USE DEF TypeOK, ThreadType, UploadType, PublishType, Handshakes, Handshake,
             decoderVars, receiverVars, uploadVars, publishVars, Frame, None, Select
<1>n. /\ frames[r] \in Nat /\ unstored[r] \in Nat /\ stored[r] \in Nat /\ processed[r] \in Nat
      /\ Len(queue[r]) \in Nat /\ Len(results[r]) \in Nat
      /\ One(sending[r]) \in Nat /\ One(receiver[r] = "holding") \in Nat
      /\ One(upload[r] = "put") \in Nat
  BY Numbers DEF One
<1>a. UNCHANGED Extracted(r) => Conserved(r)'
  BY SameExtracted
<1>1. CASE StartRun(r)
  BY <1>1, <1>a DEF StartRun, Extracted
<1>2. CASE Cancel(r)
  BY <1>2, Numbers DEF Cancel, Conserved, Tally, One
<1>3. CASE Extract(r)
  <2>1. /\ frames'[r] = frames[r] + 1 /\ ~sending[r] /\ sending'[r]
        /\ UNCHANGED <<queue, receiver, upload, unstored, stored, cancelled>>
    BY <1>3 DEF Extract
  <2>o. /\ One(sending[r]) = 0 /\ One(sending[r])' = 1
        /\ One(receiver[r] = "holding")' = One(receiver[r] = "holding")
        /\ One(upload[r] = "put")' = One(upload[r] = "put")
    BY <2>1, <1>n DEF One
  <2>2. Tally(r) \in Nat /\ Tally(r)' = Tally(r) + 1
    BY SMTT(60), <2>o, <2>1, <1>n DEF Tally
  <2>. QED  BY <2>1, <2>2 DEF Conserved
<1>4. CASE Send(r)
  <2>1. Len(queue'[r]) = Len(queue[r]) + 1
    <3>1. frames[r] - 1 \in Frame
      BY <1>4 DEF Send
    <3>. QED  BY <1>4, <3>1, Channels DEF Send, Enqueue
  <2>2. /\ sending[r] /\ ~sending'[r]
        /\ UNCHANGED <<frames, receiver, upload, unstored, stored, cancelled>>
    BY <1>4 DEF Send
  <2>o. /\ One(sending[r]) = 1 /\ One(sending[r])' = 0
        /\ One(receiver[r] = "holding")' = One(receiver[r] = "holding")
        /\ One(upload[r] = "put")' = One(upload[r] = "put")
    BY <2>2, <1>n DEF One
  <2>. QED
    BY ONLY <2>o, <2>1, <2>2, <1>n, Conserved(r) DEF Conserved, Tally
<1>5. CASE SendFails(r)
  BY <1>5 DEF SendFails, Disconnected, Conserved
<1>6. CASE EndLoop(r) \/ EndThread(r)
  BY <1>6, <1>a DEF EndLoop, EndThread, Extracted
<1>8. CASE Take(r)
  <2>1. CASE upload[r] = "gone"
    BY <1>8, <2>1 DEF Take, Conserved
  <2>2. CASE upload[r] # "gone"
    <3>1. Len(queue'[r]) = Len(queue[r]) - 1
      BY <1>8, <2>2, Channels DEF Take, LeftOver
    <3>2. /\ receiver[r] = "waiting" /\ receiver'[r] = "holding"
          /\ UNCHANGED <<frames, sending, upload, unstored, stored, cancelled>>
      BY <1>8, <2>2 DEF Take
    <3>o. /\ One(sending[r])' = One(sending[r])
          /\ One(receiver[r] = "holding") = 0 /\ One(receiver[r] = "holding")' = 1
          /\ One(upload[r] = "put")' = One(upload[r] = "put")
      BY <3>2, <1>n DEF One
    <3>. QED
      BY ONLY <3>o, <3>1, <3>2, <1>n, Conserved(r) DEF Conserved, Tally
  <2>. QED  BY <2>1, <2>2
<1>9. CASE Hear(r)
  BY <1>9, <1>a DEF Hear, Extracted
<1>10. CASE Collect(r)
  <2>1. /\ receiver[r] = "holding" /\ receiver'[r] = "none"
        /\ upload[r] = "select" /\ upload'[r] = "put"
        /\ UNCHANGED <<frames, sending, queue, unstored, stored, cancelled>>
    BY <1>10 DEF Collect
  <2>o. /\ One(sending[r])' = One(sending[r])
        /\ One(receiver[r] = "holding") = 1 /\ One(receiver[r] = "holding")' = 0
        /\ One(upload[r] = "put") = 0 /\ One(upload[r] = "put")' = 1
    BY <2>1, <1>n DEF One
  <2>. QED  BY ONLY <2>o, <2>1, <1>n, Conserved(r) DEF Conserved, Tally
<1>11. CASE Finish(r)
  <2>1. /\ receiver[r] = "closed" /\ receiver'[r] = "none"
        /\ upload[r] = "select" /\ upload'[r] = "gone"
        /\ UNCHANGED <<frames, sending, queue, unstored, stored, cancelled>>
    BY <1>11 DEF Finish
  <2>. QED  BY ONLY <2>1, Conserved(r) DEF Conserved, Tally, One
<1>12. CASE ShutDown(r)
  BY <1>12 DEF ShutDown, Conserved
<1>13. CASE UploadSucceeds(r)
  <2>1. /\ upload[r] = "put" /\ upload'[r] = "forward" /\ stored'[r] = stored[r] + 1
        /\ UNCHANGED <<frames, sending, queue, receiver, unstored, cancelled>>
    BY <1>13 DEF UploadSucceeds
  <2>o. /\ One(sending[r])' = One(sending[r])
        /\ One(receiver[r] = "holding")' = One(receiver[r] = "holding")
        /\ One(upload[r] = "put") = 1 /\ One(upload[r] = "put")' = 0
    BY <2>1, <1>n DEF One
  <2>2. Tally(r)' = Tally(r)
    BY <2>o, <2>1, <1>n, SMTT(30) DEF Tally
  <2>. QED  BY <2>1, <2>2 DEF Conserved
<1>14. CASE UploadFails(r)
  <2>1. CASE tries[r] + 1 < Attempts
    BY <1>14, <2>1, <1>a DEF UploadFails, Extracted
  <2>2. CASE ~(tries[r] + 1 < Attempts)
    <3>1. /\ Select(r) /\ UNCHANGED <<decoderVars, queue, stored>> /\ upload[r] = "put"
          /\ unstored' = [unstored EXCEPT ![r] = @ + 1]
      BY <1>14, <2>2 DEF UploadFails, Abandon
    <3>2. /\ receiver[r] = "none" /\ receiver'[r] = "waiting"
          /\ upload'[r] = "select" /\ unstored'[r] = unstored[r] + 1
          /\ UNCHANGED <<frames, sending, queue, stored, cancelled>>
      BY <3>1
    <3>o. /\ One(sending[r])' = One(sending[r])
          /\ One(receiver[r] = "holding") = 0 /\ One(receiver[r] = "holding")' = 0
          /\ One(upload[r] = "put") = 1 /\ One(upload[r] = "put")' = 0
      BY <3>1, <3>2, <1>n DEF One
    <3>. QED
      BY ONLY <3>o, <3>1, <3>2, <1>n, Conserved(r) DEF Conserved, Tally
  <2>. QED  BY <2>1, <2>2
<1>15. CASE Forward(r)
  BY <1>15, <1>a DEF Forward, Extracted
<1>16. CASE PublishStep(r)
  BY <1>16, <1>a DEF PublishStep, StartPublish, PublishSucceeds, PublishFails, Extracted
<1>. QED
  BY <1>1, <1>2, <1>3, <1>4, <1>5, <1>6, <1>8, <1>9, <1>10, <1>11, <1>12, <1>13, <1>14, <1>15,
     <1>16 DEF Step, DecoderStep, ReceiverStep, UploadStep

\* Frames between their upload and the end of the publish task.
LEMMA StepStored ==
  ASSUME TypeOK, Handshakes, NEW r \in Run, StoredConserved(r), Step(r) PROVE StoredConserved(r)'
<1>. USE DEF TypeOK, ThreadType, UploadType, PublishType,
             decoderVars, receiverVars, uploadVars, publishVars, Frame, None, Select
<1>n. /\ frames[r] \in Nat /\ unstored[r] \in Nat /\ stored[r] \in Nat /\ processed[r] \in Nat
      /\ Len(queue[r]) \in Nat /\ Len(results[r]) \in Nat
      /\ One(upload[r] = "forward") \in Nat /\ One(publish[r] # None) \in Nat
  BY Numbers DEF One
<1>a. UNCHANGED Uploaded(r) => StoredConserved(r)'
  BY SameUploaded
<1>1. CASE StartRun(r) \/ Collect(r) \/ Finish(r) \/ ShutDown(r)
  <2>1. /\ upload[r] # "forward" /\ upload'[r] # "forward"
        /\ UNCHANGED <<results, publish, processed, stored>>
    BY <1>1 DEF StartRun, Collect, Finish, ShutDown, Handshakes, Handshake
  <2>. QED  BY <2>1, <1>a DEF Uploaded
<1>2. CASE Cancel(r) \/ DecoderStep(r) \/ ReceiverStep(r)
  <2>1. UNCHANGED <<upload, results, publish, processed, stored>>
    BY <1>2 DEF Cancel, DecoderStep, Extract, Send, SendFails, EndLoop, EndThread, ReceiverStep, Take, Hear
  <2>. QED  BY <2>1, <1>a DEF Uploaded
<1>13. CASE UploadSucceeds(r)
  <2>1. /\ upload[r] = "put" /\ upload'[r] = "forward" /\ stored'[r] = stored[r] + 1
        /\ UNCHANGED <<results, publish, processed>>
    BY <1>13 DEF UploadSucceeds
  <2>o. /\ One(upload[r] = "forward") = 0 /\ One(upload[r] = "forward")' = 1
        /\ One(publish[r] # None)' = One(publish[r] # None)
    BY <2>1, <1>n DEF One
  <2>. QED
    BY ONLY <2>o, <2>1, <1>n, StoredConserved(r), SMTT(60) DEF StoredConserved, StoredTally
<1>14. CASE UploadFails(r)
  <2>1. /\ upload[r] = "put" /\ upload'[r] # "forward"
        /\ UNCHANGED <<results, publish, processed, stored>>
    <3>1. CASE tries[r] + 1 < Attempts
      BY <1>14, <3>1 DEF UploadFails
    <3>2. CASE ~(tries[r] + 1 < Attempts)
      BY <1>14, <3>2 DEF UploadFails, Abandon
    <3>. QED  BY <3>1, <3>2
  <2>. QED  BY <2>1, <1>a DEF Uploaded
<1>15. CASE Forward(r)
  <2>1. hand[r] \in Frame
    BY <1>15 DEF Forward, Handshakes, Handshake
  <2>2. Len(results'[r]) = Len(results[r]) + 1
    BY <1>15, <2>1, Channels DEF Forward, Enqueue
  <2>3. /\ upload[r] = "forward" /\ upload'[r] # "forward"
        /\ UNCHANGED <<publish, processed, stored>>
    BY <1>15 DEF Forward
  <2>o. /\ One(upload[r] = "forward") = 1 /\ One(upload[r] = "forward")' = 0
        /\ One(publish[r] # None)' = One(publish[r] # None)
    BY <2>3, <1>n DEF One
  <2>. QED
    BY ONLY <2>o, <2>2, <2>3, <1>n, StoredConserved(r)
       DEF StoredConserved, StoredTally
<1>16. CASE StartPublish(r)
  <2>1. Len(results'[r]) = Len(results[r]) - 1 /\ Head(results[r]) \in Frame
    BY <1>16, Channels DEF StartPublish
  <2>2. /\ publish[r] = None /\ publish'[r] # None
        /\ UNCHANGED <<upload, processed, stored>>
    BY <1>16, <2>1 DEF StartPublish
  <2>o. /\ One(upload[r] = "forward")' = One(upload[r] = "forward")
        /\ One(publish[r] # None) = 0 /\ One(publish[r] # None)' = 1
    BY <2>2, <1>n DEF One
  <2>. QED
    BY ONLY <2>o, <2>1, <2>2, <1>n, StoredConserved(r)
       DEF StoredConserved, StoredTally
<1>b. ASSUME NextResult(r), processed' = [processed EXCEPT ![r] = @ + 1], publish[r] # None,
             UNCHANGED <<uploadVars, results, stored>>
      PROVE  StoredConserved(r)'
  <2>1. /\ publish'[r] = None /\ processed'[r] = processed[r] + 1 /\ publish[r] # None
        /\ UNCHANGED <<upload, results, stored>>
    BY <1>b DEF NextResult
  <2>o. /\ One(upload[r] = "forward")' = One(upload[r] = "forward")
        /\ One(publish[r] # None) = 1 /\ One(publish[r] # None)' = 0
    BY <2>1, <1>n DEF One
  <2>2. StoredTally(r)' = StoredTally(r)
    BY <2>o, <2>1, <1>n, SMTT(30) DEF StoredTally
  <2>. QED  BY <2>1, <2>2 DEF StoredConserved
<1>17. CASE PublishSucceeds(r)
  BY <1>17, <1>b DEF PublishSucceeds
<1>18. CASE PublishFails(r)
  <2>1. CASE retries[r] + 1 < Attempts
    BY <1>18, <2>1, <1>a DEF PublishFails, Uploaded
  <2>2. CASE ~(retries[r] + 1 < Attempts)
    BY <1>18, <2>2, <1>b DEF PublishFails
  <2>. QED  BY <2>1, <2>2
<1>. QED
  BY <1>1, <1>2, <1>13, <1>14, <1>15, <1>16, <1>17, <1>18 DEF Step, UploadStep, PublishStep

LEMMA NextConserved ==
  ASSUME TypeOK, Handshakes, FramesConserved, StoredFramesConserved, [Next]_vars
  PROVE  FramesConserved' /\ StoredFramesConserved'
<1>1. \A q \in Run : Conserved(q) /\ StoredConserved(q)
  BY DEF FramesConserved, StoredFramesConserved, Conserved, Tally, StoredConserved, StoredTally
<1>2. ASSUME NEW r \in Run, Step(r), NEW q \in Run PROVE Conserved(q)' /\ StoredConserved(q)'
  <2>1. CASE q = r
    BY <1>1, <1>2, <2>1, StepConserved, StepStored
  <2>2. CASE q # r
    BY <1>1, <1>2, <2>2, OthersUntouched, SameExtracted, SameUploaded
  <2>. QED  BY <2>1, <2>2
<1>3. ASSUME UNCHANGED vars, NEW q \in Run PROVE Conserved(q)' /\ StoredConserved(q)'
  <2>1. UNCHANGED <<Extracted(q), Uploaded(q)>>
    BY <1>3 DEF vars, Extracted, Uploaded
  <2>. QED  BY <1>1, <2>1, SameExtracted, SameUploaded
<1>4. \A q \in Run : Conserved(q)' /\ StoredConserved(q)'
  BY <1>2, <1>3 DEF Next, Step
<1>. QED
  BY <1>4 DEF FramesConserved, StoredFramesConserved, Conserved, Tally, StoredConserved, StoredTally

IInv == TypeOK /\ Handshakes /\ FramesConserved /\ StoredFramesConserved

LEMMA IndInv == Spec => []IInv
<1>1. Init => IInv
  <2>. SUFFICES ASSUME Init PROVE IInv
    OBVIOUS
  <2>1. Len(<<>>) = 0
    OBVIOUS
  <2>. QED
    BY <2>1, InitType DEF Init, IInv, Handshakes, Handshake, FramesConserved,
       StoredFramesConserved, One, None
<1>2. IInv /\ [Next]_vars => IInv'
  BY NextType, NextHandshakes, NextConserved DEF IInv
<1>. QED  BY <1>1, <1>2, PTL DEF Spec

\* The threads, tasks and channels of every run stay well formed, and the channels within
\* their capacities.
THEOREM DeliveryTypeCorrect == Spec => []TypeOK
<1>. QED  BY IndInv, PTL DEF IInv

\* Until its run is cancelled, a frame that a decode thread extracts is in the channel, in the
\* hands of the upload task, in the store or among the storage errors.
THEOREM NoFrameLostSilently == Spec => []FramesConserved
<1>. QED  BY IndInv, PTL DEF IInv

\* A stored frame is on its way to the topic or has come to the end of the publish task, in
\* a cancelled run too.
THEOREM NoStoredFrameForgotten == Spec => []StoredFramesConserved
<1>. QED  BY IndInv, PTL DEF IInv

(***************************************************************************)
(* The order of the messages.  The frames of a run stand in one line, from *)
(* the messages back to the decode thread; a step moves the first of a     *)
(* place to the end of the next one, or takes a frame out of the line.     *)
(***************************************************************************)
Elements(q) == {q[i] : i \in DOMAIN q}
Sorted(q) == \A i \in DOMAIN q : \A j \in 1..i : q[j] <= q[i]
Increasing(q) == \A i \in DOMAIN q : \A j \in 1..(i - 1) : q[j] < q[i]
Below(A, B) == \A m \in A, n \in B : m <= n
Before(A, B) == \A m \in A, n \in B : m < n

Announced(r) == Elements(log[r])
Announcing(r) == {publish[r]} \ {None}
Awaiting(r) == Elements(results[r])
Uploading(r) == IF upload[r] \in {"put", "forward"} THEN {hand[r]} ELSE {}
Held(r) == IF receiver[r] = "holding" THEN {taken[r]} ELSE {}
Queued(r) == Elements(queue[r])
Sending(r) == IF sending[r] THEN {frames[r] - 1} ELSE {}

\* Announced, announcing, awaiting, uploading, held, queued and sending, of f frames.  Only a
\* message can be repeated.
Chain(A, P, W, U, H, Q, S, f) ==
  /\ Below(A, P \cup W \cup U \cup H \cup Q \cup S)
  /\ Before(P, W \cup U \cup H \cup Q \cup S)
  /\ Before(W, U \cup H \cup Q \cup S)
  /\ Before(U, H \cup Q \cup S)
  /\ Before(H, Q \cup S)
  /\ Before(Q, S)
  /\ \A n \in A \cup P \cup W \cup U \cup H \cup Q \cup S : n \in Nat /\ n < f

Ordered(r) == Sorted(log[r]) /\ Increasing(results[r]) /\ Increasing(queue[r])

InChain(r) ==
  Chain(Announced(r), Announcing(r), Awaiting(r), Uploading(r), Held(r), Queued(r), Sending(r), frames[r])

Line(r) == Ordered(r) /\ InChain(r)

LEMMA Enqueued ==
  ASSUME NEW q \in Seq(Frame), NEW f \in Frame
  PROVE  /\ Elements(Append(q, f)) = Elements(q) \cup {f}
         /\ Sorted(q) /\ Below(Elements(q), {f}) => Sorted(Append(q, f))
         /\ Increasing(q) /\ Before(Elements(q), {f}) => Increasing(Append(q, f))
<1>1. /\ DOMAIN Append(q, f) = 1..(Len(q) + 1) /\ DOMAIN q = 1..Len(q) /\ Len(q) \in Nat
      /\ \A i \in 1..Len(q) : Append(q, f)[i] = q[i]
      /\ Append(q, f)[Len(q) + 1] = f
  OBVIOUS
<1>2. Elements(Append(q, f)) = Elements(q) \cup {f}
  <2>1. ASSUME NEW n \in Elements(Append(q, f)) PROVE n \in Elements(q) \cup {f}
    BY <1>1, <2>1 DEF Elements
  <2>2. ASSUME NEW n \in Elements(q) \cup {f} PROVE n \in Elements(Append(q, f))
    BY <1>1, <2>2 DEF Elements
  <2>. QED  BY <2>1, <2>2
<1>3. ASSUME Sorted(q), Below(Elements(q), {f}) PROVE Sorted(Append(q, f))
  <2>1. ASSUME NEW i \in 1..(Len(q) + 1), NEW j \in 1..i PROVE Append(q, f)[j] <= Append(q, f)[i]
    <3>1. CASE i <= Len(q)  BY <1>1, <1>3, <3>1 DEF Sorted
    <3>2. CASE i = Len(q) + 1 /\ j <= Len(q)
      <4>1. q[j] \in Elements(q)  BY <1>1, <3>2 DEF Elements
      <4>. QED  BY <1>1, <1>3, <3>2, <4>1 DEF Below
    <3>3. CASE i = Len(q) + 1 /\ j = Len(q) + 1  BY <1>1, <3>3 DEF Frame
    <3>. QED  BY <1>1, <3>1, <3>2, <3>3
  <2>. QED  BY <1>1, <2>1 DEF Sorted
<1>4. ASSUME Increasing(q), Before(Elements(q), {f}) PROVE Increasing(Append(q, f))
  <2>1. ASSUME NEW i \in 1..(Len(q) + 1), NEW j \in 1..(i - 1) PROVE Append(q, f)[j] < Append(q, f)[i]
    <3>1. CASE i <= Len(q)  BY <1>1, <1>4, <3>1 DEF Increasing
    <3>2. CASE i = Len(q) + 1
      <4>1. q[j] \in Elements(q)  BY <1>1, <3>2 DEF Elements
      <4>. QED  BY <1>1, <1>4, <3>2, <4>1 DEF Before
    <3>. QED  BY <1>1, <3>1, <3>2
  <2>. QED  BY <1>1, <2>1 DEF Increasing
<1>. QED  BY <1>2, <1>3, <1>4

LEMMA HeadAndTail ==
  ASSUME NEW q \in Seq(Frame), q # <<>>
  PROVE  Elements(q) = {Head(q)} \cup Elements(Tail(q))
<1>1. /\ Len(q) \in Nat /\ Len(q) > 0 /\ DOMAIN q = 1..Len(q) /\ Head(q) = q[1]
      /\ DOMAIN Tail(q) = 1..(Len(q) - 1)
      /\ \A i \in 1..(Len(q) - 1) : Tail(q)[i] = q[i + 1]
  OBVIOUS
<1>2. ASSUME NEW i \in DOMAIN q PROVE q[i] \in {Head(q)} \cup Elements(Tail(q))
  <2>1. CASE i = 1  BY <1>1, <2>1
  <2>2. CASE i > 1
    <3>1. i - 1 \in DOMAIN Tail(q) /\ Tail(q)[i - 1] = q[i]  BY <1>1, <1>2, <2>2
    <3>. QED  BY <3>1 DEF Elements
  <2>. QED  BY <1>1, <1>2, <2>1, <2>2
<1>3. {Head(q)} \cup Elements(Tail(q)) \subseteq Elements(q)  BY <1>1 DEF Elements
<1>. QED  BY <1>2, <1>3 DEF Elements

LEMMA Dequeued ==
  ASSUME NEW q \in Seq(Frame), q # <<>>
  PROVE  /\ Head(q) \in Elements(q)
         /\ Elements(Tail(q)) \subseteq Elements(q)
         /\ Increasing(q) => Increasing(Tail(q)) /\ Before({Head(q)}, Elements(Tail(q)))
<1>1. /\ Len(q) \in Nat /\ Len(q) > 0 /\ DOMAIN q = 1..Len(q) /\ Head(q) = q[1]
      /\ DOMAIN Tail(q) = 1..(Len(q) - 1)
      /\ \A i \in 1..(Len(q) - 1) : Tail(q)[i] = q[i + 1]
  OBVIOUS
<1>2. Head(q) \in Elements(q)  BY <1>1 DEF Elements
<1>3. Elements(Tail(q)) \subseteq Elements(q)  BY <1>1 DEF Elements
<1>4. ASSUME Increasing(q) PROVE Increasing(Tail(q))
  <2>1. ASSUME NEW i \in 1..(Len(q) - 1), NEW j \in 1..(i - 1) PROVE Tail(q)[j] < Tail(q)[i]
    <3>1. i + 1 \in DOMAIN q /\ j + 1 \in 1..((i + 1) - 1)  BY <1>1
    <3>. QED  BY <1>1, <1>4, <3>1 DEF Increasing
  <2>. QED  BY <1>1, <2>1 DEF Increasing
<1>5. ASSUME Increasing(q) PROVE Before({Head(q)}, Elements(Tail(q)))
  <2>1. \A i \in 1..(Len(q) - 1) : q[1] < q[i + 1]  BY <1>1, <1>5 DEF Increasing
  <2>. QED  BY <1>1, <2>1 DEF Before, Elements
<1>. QED  BY <1>2, <1>3, <1>4, <1>5

\* Frames that leave the line leave it in order.
LineState(r) == <<log[r], publish[r], results[r], upload[r] \in {"put", "forward"}, hand[r],
                  receiver[r] = "holding", taken[r], queue[r], sending[r], frames[r]>>

LEMMA SameLine == ASSUME NEW r \in Run, Line(r), UNCHANGED LineState(r) PROVE Line(r)'
<1>1. /\ log'[r] = log[r] /\ publish'[r] = publish[r] /\ results'[r] = results[r]
      /\ (upload'[r] \in {"put", "forward"}) = (upload[r] \in {"put", "forward"})
      /\ hand'[r] = hand[r] /\ (receiver'[r] = "holding") = (receiver[r] = "holding")
      /\ taken'[r] = taken[r] /\ queue'[r] = queue[r] /\ sending'[r] = sending[r] /\ frames'[r] = frames[r]
  BY DEF LineState
<1>2. Announced(r)' = Announced(r) /\ Announcing(r)' = Announcing(r) /\ Awaiting(r)' = Awaiting(r)
  BY <1>1 DEF Announced, Announcing, Awaiting
<1>3. Uploading(r)' = Uploading(r) /\ Held(r)' = Held(r)
  BY <1>1 DEF Uploading, Held
<1>4. Queued(r)' = Queued(r) /\ Sending(r)' = Sending(r)
  BY <1>1 DEF Queued, Sending
<1>5. Ordered(r)'  BY <1>1 DEF Line, Ordered
<1>6. InChain(r)'  BY <1>1, <1>2, <1>3, <1>4 DEF Line, InChain
<1>. QED  BY <1>5, <1>6 DEF Line

LEMMA OthersInLine ==
  ASSUME TypeOK, NEW r \in Run, NEW q \in Run, q # r, Step(r)
  PROVE  UNCHANGED <<LineState(q), upload[q]>>
<1>. USE DEF TypeOK, ThreadType, UploadType, PublishType, LineState,
             decoderVars, receiverVars, uploadVars, publishVars, Select
<1>1. CASE StartRun(r) \/ Cancel(r)
  BY <1>1 DEF StartRun, Cancel
<1>2. CASE DecoderStep(r)
  BY <1>2 DEF DecoderStep, Extract, Send, SendFails, EndLoop, EndThread
<1>3. CASE ReceiverStep(r)
  <2>1. UNCHANGED <<log, publish, results, upload, hand, sending, frames>>
    BY <1>3 DEF ReceiverStep, Take, Hear
  <2>2. queue'[q] = queue[q] /\ receiver'[q] = receiver[q] /\ taken'[q] = taken[q]
    BY <1>3, SMTT(30) DEF ReceiverStep, Take, Hear
  <2>. QED  BY <2>1, <2>2
<1>4. CASE Collect(r) \/ Finish(r) \/ ShutDown(r)
  BY <1>4 DEF Collect, Finish, ShutDown
<1>5. CASE UploadSucceeds(r) \/ UploadFails(r) \/ Forward(r)
  BY <1>5, ZenonT(60) DEF UploadSucceeds, UploadFails, Abandon, Forward
<1>6. CASE PublishStep(r)
  <2>1. UNCHANGED <<frames, sending, queue, receiver, taken, upload, hand>>
    BY <1>6 DEF PublishStep, StartPublish, PublishSucceeds, PublishFails
  <2>2. results'[q] = results[q]
    BY <1>6 DEF PublishStep, StartPublish, PublishSucceeds, PublishFails
  <2>3. publish'[q] = publish[q]
    <3>1. CASE StartPublish(r)  BY <3>1 DEF StartPublish
    <3>2. CASE PublishSucceeds(r)  BY <3>2 DEF PublishSucceeds, NextResult
    <3>3. CASE PublishFails(r)  BY <3>3, SMTT(30) DEF PublishFails, NextResult
    <3>. QED  BY <1>6, <3>1, <3>2, <3>3 DEF PublishStep
  <2>4. log'[q] = log[q]
    <3>1. CASE StartPublish(r)  BY <3>1 DEF StartPublish
    <3>2. CASE PublishSucceeds(r)  BY <3>2, SMTT(30) DEF PublishSucceeds, Deliver
    <3>3. CASE PublishFails(r)  BY <3>3, SMTT(30) DEF PublishFails, Deliver
    <3>. QED  BY <1>6, <3>1, <3>2, <3>3 DEF PublishStep
  <2>. QED  BY <2>1, <2>2, <2>3, <2>4
<1>. QED  BY <1>1, <1>2, <1>3, <1>4, <1>5, <1>6 DEF Step, UploadStep

LEMMA StepLine ==
  ASSUME TypeOK, Handshakes, NEW r \in Run, Line(r), Step(r) PROVE Line(r)'
<1> DEFINE A == Announced(r)
           P == Announcing(r)
           W == Awaiting(r)
           U == Uploading(r)
           H == Held(r)
           Q == Queued(r)
           S == Sending(r)
           f == frames[r]
<1>c. Chain(A, P, W, U, H, Q, S, f) /\ Ordered(r)  BY DEF Line, InChain
<1>f. /\ f \in Nat /\ queue[r] \in Seq(Frame) /\ results[r] \in Seq(Frame) /\ log[r] \in Seq(Frame)
      /\ publish[r] \in Frame \cup {None}
  BY DEF TypeOK, ThreadType, PublishType
<1>a. UNCHANGED LineState(r) => Line(r)'  BY SameLine
<1>d. ASSUME Ordered(r)',
             Chain(Announced(r)', Announcing(r)', Awaiting(r)', Uploading(r)', Held(r)', Queued(r)',
                   Sending(r)', frames'[r])
      PROVE  Line(r)'
  BY <1>d DEF Line, InChain
<1>. USE DEF TypeOK, ThreadType, UploadType, PublishType, Handshakes, Handshake,
             decoderVars, receiverVars, uploadVars, publishVars, Select
<1>1. CASE StartRun(r) \/ Cancel(r) \/ EndLoop(r) \/ EndThread(r) \/ Hear(r) \/ Finish(r)
  BY <1>1, <1>a DEF StartRun, Cancel, EndLoop, EndThread, Hear, Finish, LineState
<1>2. CASE UploadSucceeds(r)
  BY <1>2, <1>a DEF UploadSucceeds, LineState
<1>3. CASE Extract(r)
  <2>1. /\ ~sending[r] /\ sending'[r] /\ frames'[r] = f + 1
        /\ UNCHANGED <<log, publish, results, upload, hand, receiver, taken, queue>>
    BY <1>3 DEF Extract
  <2>2. S = {} /\ Sending(r)' = {f}  BY <1>f, <2>1 DEF Sending
  <2>3. /\ Announced(r)' = A /\ Announcing(r)' = P /\ Awaiting(r)' = W /\ Uploading(r)' = U
        /\ Held(r)' = H /\ Queued(r)' = Q /\ Ordered(r)'
    BY <1>c, <2>1 DEF Announced, Announcing, Awaiting, Uploading, Held, Queued, Ordered
  <2>. HIDE DEF A, P, W, U, H, Q, S, f
  <2>4. Chain(A, P, W, U, H, Q, {f}, f + 1)
    BY ONLY <1>c, <1>f, <2>2 DEF Chain, Below, Before
  <2>. QED  BY <1>d, <2>1, <2>2, <2>3, <2>4
<1>4. CASE Send(r)
  <2>1. /\ sending[r] /\ ~sending'[r] /\ queue'[r] = Append(queue[r], f - 1) /\ f > 0
        /\ UNCHANGED <<log, publish, results, upload, hand, receiver, taken, frames>>
    BY <1>4 DEF Send, Enqueue
  <2>2. S = {f - 1} /\ Sending(r)' = {} /\ f - 1 \in Frame  BY <1>f, <2>1 DEF Sending, Frame
  <2>3. Queued(r)' = Q \cup {f - 1}
    <3>1. Elements(Append(queue[r], f - 1)) = Elements(queue[r]) \cup {f - 1}
      BY ONLY <1>f, <2>2, Enqueued
    <3>. QED  BY <2>1, <3>1 DEF Queued
  <2>4. Before(Q, {f - 1})  BY <1>c, <2>2 DEF Chain
  <2>5. Increasing(queue'[r])  BY <1>c, <1>f, <2>1, <2>2, <2>4, Enqueued, ZenonT(60) DEF Queued, Ordered
  <2>6. /\ Announced(r)' = A /\ Announcing(r)' = P /\ Awaiting(r)' = W /\ Uploading(r)' = U
        /\ Held(r)' = H /\ Ordered(r)'
    BY <1>c, <2>1, <2>5 DEF Announced, Announcing, Awaiting, Uploading, Held, Ordered
  <2>. HIDE DEF A, P, W, U, H, Q, S, f
  <2>7. Chain(A, P, W, U, H, Q \cup {f - 1}, {}, f)
    BY ONLY <1>c, <1>f, <2>2 DEF Chain, Below, Before
  <2>. QED  BY <1>d, <2>1, <2>2, <2>3, <2>6, <2>7 DEF f
<1>5. CASE SendFails(r)
  <2>1. /\ sending[r] /\ ~sending'[r]
        /\ UNCHANGED <<log, publish, results, upload, hand, receiver, taken, queue, frames>>
    BY <1>5 DEF SendFails
  <2>2. Sending(r)' = {}  BY <2>1 DEF Sending
  <2>3. /\ Announced(r)' = A /\ Announcing(r)' = P /\ Awaiting(r)' = W /\ Uploading(r)' = U
        /\ Held(r)' = H /\ Queued(r)' = Q /\ Ordered(r)'
    BY <1>c, <2>1 DEF Announced, Announcing, Awaiting, Uploading, Held, Queued, Ordered
  <2>. HIDE DEF A, P, W, U, H, Q, S, f
  <2>4. Chain(A, P, W, U, H, Q, {}, f)  BY ONLY <1>c DEF Chain, Below, Before
  <2>. QED  BY <1>d, <2>1, <2>2, <2>3, <2>4 DEF f
<1>6. CASE Take(r)
  <2>1. /\ queue[r] # <<>> /\ receiver[r] = "waiting"
        /\ UNCHANGED <<log, publish, results, upload, hand, sending, frames>>
    BY <1>6 DEF Take
  <2>2. /\ Announced(r)' = A /\ Announcing(r)' = P /\ Awaiting(r)' = W /\ Uploading(r)' = U
        /\ Sending(r)' = S /\ H = {} /\ Sorted(log'[r]) /\ Increasing(results'[r])
    BY <1>c, <2>1 DEF Announced, Announcing, Awaiting, Uploading, Sending, Held, Ordered
  <2>3. CASE upload[r] = "gone"
    <3>1. queue'[r] = <<>> /\ receiver'[r] = "none"  BY <1>6, <2>3 DEF Take, LeftOver
    <3>2. Queued(r)' = {} /\ Held(r)' = {} /\ Increasing(queue'[r])
      BY <3>1 DEF Queued, Held, Increasing, Elements
    <3>3. Ordered(r)'  BY <2>2, <3>2 DEF Ordered
    <3>. HIDE DEF A, P, W, U, H, Q, S, f
    <3>4. Chain(A, P, W, U, {}, {}, S, f)  BY ONLY <1>c DEF Chain, Below, Before
    <3>. QED  BY <1>d, <2>1, <2>2, <3>2, <3>3, <3>4 DEF f
  <2>4. CASE upload[r] # "gone"
    <3> DEFINE n == Head(queue[r])
               T == Elements(Tail(queue[r]))
    <3>1. queue'[r] = Tail(queue[r]) /\ receiver'[r] = "holding" /\ taken'[r] = n
      BY <1>6, <2>4 DEF Take, LeftOver
    <3>2. Queued(r)' = T /\ Held(r)' = {n}  BY <3>1 DEF Queued, Held
    <3>3. n \in Q /\ T \subseteq Q /\ Increasing(queue'[r]) /\ Before({n}, T)
      BY <1>c, <1>f, <2>1, <3>1, Dequeued DEF Queued, Ordered
    <3>4. Ordered(r)'  BY <2>2, <3>3 DEF Ordered
    <3>. HIDE DEF A, P, W, U, H, Q, S, f, n, T
    <3>5. Chain(A, P, W, U, {n}, T, S, f)  BY ONLY <1>c, <3>3 DEF Chain, Below, Before
    <3>. QED  BY <1>d, <2>1, <2>2, <3>2, <3>4, <3>5 DEF f
  <2>. QED  BY <2>3, <2>4
<1>7. CASE Collect(r)
  <2>1. /\ upload[r] = "select" /\ upload'[r] = "put" /\ receiver[r] = "holding" /\ receiver'[r] = "none"
        /\ hand'[r] = taken[r]
        /\ UNCHANGED <<log, publish, results, queue, sending, frames>>
    BY <1>7 DEF Collect
  <2>2. Uploading(r)' = H /\ Held(r)' = {}  BY <2>1 DEF Uploading, Held
  <2>3. /\ Announced(r)' = A /\ Announcing(r)' = P /\ Awaiting(r)' = W /\ Queued(r)' = Q
        /\ Sending(r)' = S /\ Ordered(r)'
    BY <1>c, <2>1 DEF Announced, Announcing, Awaiting, Queued, Sending, Ordered
  <2>. HIDE DEF A, P, W, U, H, Q, S, f
  <2>4. Chain(A, P, W, H, {}, Q, S, f)  BY ONLY <1>c DEF Chain, Below, Before
  <2>. QED  BY <1>d, <2>1, <2>2, <2>3, <2>4 DEF f
<1>8. CASE ShutDown(r)
  <2>1. /\ upload[r] = "select" /\ upload'[r] = "gone" /\ receiver'[r] # "holding"
        /\ queue'[r] = <<>> \/ queue'[r] = queue[r]
        /\ UNCHANGED <<log, publish, results, sending, frames>>
    BY <1>8 DEF ShutDown, LeftOver
  <2>2. Uploading(r)' = {} /\ Held(r)' = {}  BY <2>1 DEF Uploading, Held
  <2>3. Queued(r)' \subseteq Q /\ Increasing(queue'[r])
    BY <1>c, <2>1 DEF Queued, Elements, Ordered, Increasing
  <2>4. /\ Announced(r)' = A /\ Announcing(r)' = P /\ Awaiting(r)' = W /\ Sending(r)' = S /\ Ordered(r)'
    BY <1>c, <2>1, <2>3 DEF Announced, Announcing, Awaiting, Sending, Ordered
  <2> DEFINE T == Queued(r)'
  <2>. HIDE DEF A, P, W, U, H, Q, S, f, T
  <2>5. T \subseteq Q  BY <2>3 DEF T
  <2>6. Chain(A, P, W, {}, {}, T, S, f)  BY ONLY <1>c, <2>5 DEF Chain, Below, Before
  <2>. QED  BY <1>d, <2>1, <2>2, <2>4, <2>6 DEF f, T
<1>9. CASE UploadFails(r)
  <2>1. CASE tries[r] + 1 < Attempts
    BY <1>9, <2>1, <1>a DEF UploadFails, LineState
  <2>2. CASE ~(tries[r] + 1 < Attempts)
    <3>1. /\ upload'[r] = "select" /\ receiver'[r] = "waiting" /\ receiver[r] = "none"
          /\ UNCHANGED <<log, publish, results, queue, sending, frames>>
      BY <1>9, <2>2 DEF UploadFails, Abandon
    <3>2. Uploading(r)' = {} /\ Held(r)' = {}  BY <3>1 DEF Uploading, Held
    <3>3. /\ Announced(r)' = A /\ Announcing(r)' = P /\ Awaiting(r)' = W /\ Queued(r)' = Q
          /\ Sending(r)' = S /\ Ordered(r)'
      BY <1>c, <3>1 DEF Announced, Announcing, Awaiting, Queued, Sending, Ordered
    <3>. HIDE DEF A, P, W, U, H, Q, S, f
    <3>4. Chain(A, P, W, {}, {}, Q, S, f)  BY ONLY <1>c DEF Chain, Below, Before
    <3>. QED  BY <1>d, <3>1, <3>2, <3>3, <3>4 DEF f
  <2>. QED  BY <2>1, <2>2
<1>10. CASE Forward(r)
  <2> DEFINE n == hand[r]
  <2>1. /\ upload[r] = "forward" /\ upload'[r] = "select" /\ receiver'[r] = "waiting" /\ receiver[r] = "none"
        /\ results'[r] = Append(results[r], n) /\ n \in Frame
        /\ UNCHANGED <<log, publish, queue, sending, frames>>
    BY <1>10 DEF Forward, Enqueue
  <2>2. U = {n} /\ Uploading(r)' = {} /\ Held(r)' = {}  BY <2>1 DEF Uploading, Held
  <2>3. Awaiting(r)' = W \cup {n}
    <3>1. Elements(Append(results[r], n)) = Elements(results[r]) \cup {n}
      BY ONLY <1>f, <2>1, Enqueued
    <3>. QED  BY <2>1, <3>1 DEF Awaiting
  <2>4. Before(W, {n})  BY <1>c, <2>2 DEF Chain, Below, Before
  <2>5. Increasing(results'[r])  BY <1>c, <1>f, <2>1, <2>4, Enqueued DEF Awaiting, Ordered
  <2>6. /\ Announced(r)' = A /\ Announcing(r)' = P /\ Queued(r)' = Q /\ Sending(r)' = S /\ Ordered(r)'
    BY <1>c, <2>1, <2>5 DEF Announced, Announcing, Queued, Sending, Ordered
  <2>. HIDE DEF A, P, W, U, H, Q, S, f, n
  <2>7. Chain(A, P, W \cup {n}, {}, {}, Q, S, f)  BY ONLY <1>c, <2>2 DEF Chain, Below, Before
  <2>. QED  BY <1>d, <2>1, <2>2, <2>3, <2>6, <2>7 DEF f
<1>11. CASE StartPublish(r)
  <2> DEFINE n == Head(results[r])
             T == Elements(Tail(results[r]))
  <2>1. /\ publish[r] = None /\ results[r] # <<>> /\ publish'[r] = n /\ results'[r] = Tail(results[r])
        /\ UNCHANGED <<log, upload, hand, receiver, taken, queue, sending, frames>>
    BY <1>11 DEF StartPublish
  <2>2. n \in W /\ T \subseteq W /\ Increasing(results'[r]) /\ Before({n}, T)
    BY <1>c, <1>f, <2>1, Dequeued DEF Awaiting, Ordered
  <2>3. n # None  BY <1>f, <2>1, Channels DEF Frame, None
  <2>4. P = {} /\ Announcing(r)' = {n} /\ Awaiting(r)' = T
    BY <2>1, <2>3 DEF Announcing, Awaiting
  <2>5. /\ Announced(r)' = A /\ Uploading(r)' = U /\ Held(r)' = H /\ Queued(r)' = Q /\ Sending(r)' = S
        /\ Ordered(r)'
    BY <1>c, <2>1, <2>2 DEF Announced, Uploading, Held, Queued, Sending, Ordered
  <2>. HIDE DEF A, P, W, U, H, Q, S, f, n, T
  <2>6. Chain(A, {n}, T, U, H, Q, S, f)  BY ONLY <1>c, <2>2 DEF Chain, Below, Before
  <2>. QED  BY <1>d, <2>1, <2>4, <2>5, <2>6 DEF f
<1>12. CASE PublishSucceeds(r) \/ PublishFails(r)
  <2> DEFINE n == publish[r]
  <2>1. /\ n # None /\ n \in Frame /\ publish'[r] \in {n, None}
        /\ log'[r] \in {log[r], Append(log[r], n)}
        /\ UNCHANGED <<results, upload, hand, receiver, taken, queue, sending, frames>>
    BY <1>f, <1>12 DEF PublishSucceeds, PublishFails, Deliver, NextResult
  <2>2. P = {n} /\ Announcing(r)' \subseteq {n}  BY <2>1 DEF Announcing
  <2>3. Below(A, {n})  BY <1>c, <2>2 DEF Chain, Below, Before
  <2>4. Announced(r)' \subseteq A \cup {n} /\ Sorted(log'[r])
    BY <1>c, <1>f, <2>1, <2>3, Enqueued, ZenonT(60) DEF Announced, Ordered
  <2>5. /\ Awaiting(r)' = W /\ Uploading(r)' = U /\ Held(r)' = H /\ Queued(r)' = Q /\ Sending(r)' = S
        /\ Ordered(r)'
    BY <1>c, <2>1, <2>4 DEF Awaiting, Uploading, Held, Queued, Sending, Ordered
  <2> DEFINE B == Announced(r)'
             R == Announcing(r)'
  <2>6. B \subseteq A \cup {n} /\ R \subseteq {n}  BY <2>2, <2>4
  <2>. HIDE DEF A, P, W, U, H, Q, S, f, n, B, R
  <2>7. Chain(B, R, W, U, H, Q, S, f)  BY ONLY <1>c, <2>2, <2>6 DEF Chain, Below, Before
  <2>. QED  BY <1>d, <2>1, <2>5, <2>7 DEF f, B, R
<1>. QED
  BY <1>1, <1>2, <1>3, <1>4, <1>5, <1>6, <1>7, <1>8, <1>9, <1>10, <1>11, <1>12
     DEF Step, DecoderStep, ReceiverStep, UploadStep, PublishStep

LEMMA LineInvariant == Spec => [](\A r \in Run : Line(r))
<1>1. Init => \A r \in Run : Line(r)
  <2>. SUFFICES ASSUME Init, NEW r \in Run PROVE Line(r)
    OBVIOUS
  <2>1. Elements(<<>>) = {} /\ Sorted(<<>>) /\ Increasing(<<>>)  BY DEF Elements, Sorted, Increasing
  <2>2. /\ Announced(r) = {} /\ Announcing(r) = {} /\ Awaiting(r) = {} /\ Uploading(r) = {}
        /\ Held(r) = {} /\ Queued(r) = {} /\ Sending(r) = {}
    BY <2>1 DEF Init, Announced, Announcing, Awaiting, Uploading, Held, Queued, Sending
  <2>3. Ordered(r)
    <3>1. log[r] = <<>> /\ results[r] = <<>> /\ queue[r] = <<>>  BY DEF Init
    <3>. QED  BY ONLY <2>1, <3>1 DEF Ordered, Sorted, Increasing
  <2>4. InChain(r)  BY <2>2 DEF InChain, Chain, Below, Before
  <2>. QED  BY <2>3, <2>4 DEF Line
<1>2. TypeOK /\ Handshakes /\ (\A r \in Run : Line(r)) /\ [Next]_vars => (\A r \in Run : Line(r))'
  <2>. SUFFICES ASSUME TypeOK, Handshakes, \A r \in Run : Line(r), [Next]_vars, NEW q \in Run
                PROVE  Line(q)'
    OBVIOUS
  <2>1. ASSUME NEW r \in Run, Step(r) PROVE Line(q)'
    <3>1. CASE q = r  BY <2>1, <3>1, StepLine
    <3>2. CASE q # r  BY <2>1, <3>2, OthersInLine, SameLine
    <3>. QED  BY <3>1, <3>2
  <2>2. CASE UNCHANGED vars
    <3>1. UNCHANGED LineState(q)  BY <2>2 DEF vars, LineState
    <3>. QED  BY <3>1, SameLine
  <2>. QED  BY <2>1, <2>2 DEF Next, Step
<1>. QED  BY <1>1, <1>2, IndInv, PTL DEF Spec, IInv

\* The messages of a run name its frames in the order in which they were extracted.
THEOREM MessagesInOrder == Spec => []PublishedInOrder
<1>1. (\A r \in Run : Line(r)) => PublishedInOrder
  BY DEF Line, Ordered, Sorted, PublishedInOrder
<1>. QED  BY <1>1, LineInvariant, PTL

(***************************************************************************)
(* Objects.  A key is written by the run it belongs to only, if no two     *)
(* runs of the stream start at the same presentation time.                 *)
(***************************************************************************)
DistinctEpochs == \A r, q \in Run : Epoch[r] = Epoch[q] => r = q

\* The frames whose upload has succeeded and whose message is out or to come.
Settled(r) == Announced(r) \cup Announcing(r) \cup Awaiting(r)
                \cup (IF upload[r] = "forward" THEN {hand[r]} ELSE {})

NamesItsFrames(r) == \A n \in Settled(r) : objects[Key(r, n)] = r

LEMMA KeyOf == ASSUME NEW r \in Run, NEW n \in 0..(MaxFrame[r] - 1) PROVE Key(r, n) \in Keys
BY DEF Keys

LEMMA PutKeeps ==
  ASSUME DistinctEpochs, NEW r \in Run, NEW q \in Run, NEW n, NEW effect \in BOOLEAN,
         objects \in [Keys -> Run \cup {NoRun}], Put(r, effect), objects[Key(q, n)] = q,
         Key(q, n) \in Keys
  PROVE  objects'[Key(q, n)] = q
<1>1. CASE q = r  BY <1>1 DEF Put
<1>2. CASE q # r
  <2>1. Key(q, n) # Key(r, hand[r])  BY <1>2 DEF Key, DistinctEpochs
  <2>. QED  BY <1>2, <2>1 DEF Put
<1>. QED  BY <1>1, <1>2

LEMMA StepObjects ==
  ASSUME TypeOK, Handshakes, \A r \in Run : Line(r), \A r \in Run : NamesItsFrames(r),
         DistinctEpochs, NEW r \in Run, Step(r), NEW q \in Run
  PROVE  NamesItsFrames(q)'
<1>1. \A n \in Settled(q) : n \in 0..(MaxFrame[q] - 1) /\ Key(q, n) \in Keys /\ objects[Key(q, n)] = q
  <2>. SUFFICES ASSUME NEW n \in Settled(q)
                PROVE  n \in 0..(MaxFrame[q] - 1) /\ Key(q, n) \in Keys
    BY DEF NamesItsFrames
  <2>1. n \in Nat /\ n < frames[q]
    <3>1. n \in Announced(q) \cup Announcing(q) \cup Awaiting(q) \cup Uploading(q)
      BY DEF Settled, Uploading
    <3>. QED  BY <3>1 DEF Line, InChain, Chain
  <2>2. frames[q] \in Nat /\ frames[q] <= MaxFrame[q] /\ MaxFrame[q] \in Nat
    BY DeliveryAssumption DEF TypeOK, ThreadType
  <2>3. n \in 0..(MaxFrame[q] - 1)  BY <2>1, <2>2
  <2>. QED  BY <2>3, KeyOf
<1>2. objects \in [Keys -> Run \cup {NoRun}]  BY DEF TypeOK, UploadType
<1>3. UNCHANGED objects \/ \E effect \in BOOLEAN : Put(r, effect)
  BY DEF Step, StartRun, Cancel, DecoderStep, Extract, Send, SendFails, EndLoop, EndThread, ReceiverStep,
         Take, Hear, UploadStep, Collect, Finish, ShutDown, UploadSucceeds, UploadFails, Forward,
         PublishStep, StartPublish, PublishSucceeds, PublishFails
<1>4. \A n \in Settled(q) : objects'[Key(q, n)] = q
  BY <1>1, <1>2, <1>3, PutKeeps
<1>5. CASE UploadSucceeds(r) /\ q = r
  <2>1. /\ upload[r] = "put" /\ Put(r, TRUE) /\ hand[r] \in Frame
        /\ UNCHANGED <<hand, results, publish, log>>
    BY <1>5 DEF UploadSucceeds, Handshakes, Handshake, uploadVars, publishVars
  <2>2. hand[r] < frames[r] /\ frames[r] <= MaxFrame[r] /\ frames[r] \in Nat /\ MaxFrame[r] \in Nat
    BY <2>1, DeliveryAssumption DEF Line, InChain, Chain, Uploading, TypeOK, ThreadType
  <2>3. Key(r, hand[r]) \in Keys
    <3>1. hand[r] \in 0..(MaxFrame[r] - 1)  BY <2>1, <2>2 DEF Frame
    <3>. QED  BY <3>1, KeyOf
  <2>4. objects'[Key(r, hand[r])] = r  BY <1>2, <2>1, <2>3 DEF Put
  <2>5. Settled(r)' \subseteq Settled(r) \cup {hand[r]}
    BY <2>1 DEF Settled, Announced, Announcing, Awaiting
  <2>. QED
    <3>1. ASSUME NEW n \in Settled(q)' PROVE objects'[Key(q, n)'] = q
      <4>1. CASE n \in Settled(q)  BY <1>4, <4>1 DEF Key
      <4>2. CASE n = hand[r]  BY <1>5, <2>4, <4>2 DEF Key
      <4>. QED  BY <1>5, <2>5, <3>1, <4>1, <4>2
    <3>. QED  BY <3>1 DEF NamesItsFrames
<1>6. CASE ~(UploadSucceeds(r) /\ q = r)
  <2>1. Settled(q)' \subseteq Settled(q)
    <3>1. CASE q # r
      <4>1. UNCHANGED <<LineState(q), upload[q]>>  BY <3>1, OthersInLine
      <4>. QED  BY <4>1 DEF LineState, Settled, Announced, Announcing, Awaiting
    <3>2. CASE q = r
      <4>t. /\ queue[r] \in Seq(Frame) /\ results[r] \in Seq(Frame) /\ log[r] \in Seq(Frame)
            /\ publish[r] \in Frame \cup {None}
        BY DEF TypeOK, ThreadType, PublishType
      <4>. USE DEF TypeOK, UploadType, PublishType, Handshakes, Handshake,
                   decoderVars, receiverVars, uploadVars, publishVars, Select
      <4>1. CASE StartRun(r) \/ Cancel(r) \/ DecoderStep(r) \/ ReceiverStep(r)
        <5>1. UNCHANGED <<log, publish, results, hand>> /\ (upload[r] = "forward" <=> upload'[r] = "forward")
          BY <4>1 DEF StartRun, Cancel, DecoderStep, Extract, Send, SendFails, EndLoop, EndThread,
                      ReceiverStep, Take, Hear
        <5>. QED  BY <3>2, <5>1 DEF Settled, Announced, Announcing, Awaiting
      <4>2. CASE Collect(r) \/ Finish(r) \/ ShutDown(r)
        <5>1. UNCHANGED <<log, publish, results>> /\ upload'[r] # "forward"
          BY <4>2 DEF Collect, Finish, ShutDown
        <5>. QED  BY <3>2, <5>1 DEF Settled, Announced, Announcing, Awaiting
      <4>3. CASE UploadFails(r)
        <5>1. UNCHANGED <<log, publish, results>> /\ upload'[r] # "forward"
          BY <4>3 DEF UploadFails, Abandon
        <5>. QED  BY <3>2, <5>1 DEF Settled, Announced, Announcing, Awaiting
      <4>4. CASE Forward(r)
        <5>1. /\ upload[r] = "forward" /\ upload'[r] = "select" /\ hand[r] \in Frame
              /\ results'[r] = Append(results[r], hand[r]) /\ UNCHANGED <<log, publish>>
          BY <4>4 DEF Forward, Enqueue
        <5>2. Elements(Append(results[r], hand[r])) = Elements(results[r]) \cup {hand[r]}
          BY ONLY <4>t, <5>1, Enqueued
        <5>3. Awaiting(r)' = Awaiting(r) \cup {hand[r]}  BY <5>1, <5>2 DEF Awaiting
        <5>4. Announced(r)' = Announced(r) /\ Announcing(r)' = Announcing(r)
          BY <5>1 DEF Announced, Announcing
        <5>. QED  BY <3>2, <5>1, <5>3, <5>4 DEF Settled
      <4>5. CASE StartPublish(r)
        <5>1. /\ results[r] # <<>> /\ publish'[r] = Head(results[r]) /\ results'[r] = Tail(results[r])
              /\ UNCHANGED <<log, upload, hand>>
          BY <4>5 DEF StartPublish
        <5>2. Head(results[r]) \in Elements(results[r]) /\ Elements(Tail(results[r])) \subseteq Elements(results[r])
          BY ONLY <4>t, <5>1, Dequeued
        <5>. QED  BY <3>2, <5>1, <5>2 DEF Settled, Announced, Announcing, Awaiting
      <4>6. CASE PublishSucceeds(r) \/ PublishFails(r)
        <5>1. /\ publish[r] # None /\ publish[r] \in Frame /\ publish'[r] \in {publish[r], None}
              /\ log'[r] \in {log[r], Append(log[r], publish[r])}
              /\ UNCHANGED <<results, upload, hand>>
          BY <4>t, <4>6 DEF PublishSucceeds, PublishFails, Deliver, NextResult
        <5>2. Elements(Append(log[r], publish[r])) = Elements(log[r]) \cup {publish[r]}
          BY ONLY <4>t, <5>1, Enqueued
        <5>3. Announced(r)' \subseteq Announced(r) \cup {publish[r]}
          BY <5>1, <5>2 DEF Announced
        <5>4. Announcing(r) = {publish[r]} /\ Announcing(r)' \subseteq {publish[r]}
          BY <5>1 DEF Announcing
        <5>5. Awaiting(r)' = Awaiting(r)  BY <5>1 DEF Awaiting
        <5>. QED  BY <3>2, <5>1, <5>3, <5>4, <5>5 DEF Settled
      <4>. QED
        BY <1>6, <3>2, <4>1, <4>2, <4>3, <4>4, <4>5, <4>6 DEF Step, UploadStep, PublishStep
    <3>. QED  BY <3>1, <3>2
  <2>. QED  BY <1>4, <2>1 DEF NamesItsFrames, Key
<1>. QED  BY <1>5, <1>6

\* For any number of runs that start at different presentation times, the object a
\* message names holds the frame the message describes.
THEOREM MessagesNameTheirFrames == ASSUME DistinctEpochs PROVE Spec => []MessageNamesItsFrame
<1> DEFINE Names == \A r \in Run : NamesItsFrames(r)
<1>1. Init => Names
  <2>. SUFFICES ASSUME Init, NEW r \in Run PROVE Settled(r) = {}
    BY DEF NamesItsFrames
  <2>. QED
    BY DEF Init, Settled, Announced, Announcing, Awaiting, Elements
<1>2. TypeOK /\ Handshakes /\ (\A r \in Run : Line(r)) /\ Names /\ [Next]_vars => Names'
  <2>. SUFFICES ASSUME TypeOK, Handshakes, \A r \in Run : Line(r), Names, [Next]_vars, NEW q \in Run
                PROVE  NamesItsFrames(q)'
    OBVIOUS
  <2>1. ASSUME NEW r \in Run, Step(r) PROVE NamesItsFrames(q)'
    BY <2>1, StepObjects
  <2>2. CASE UNCHANGED vars
    BY <2>2 DEF vars, NamesItsFrames, Settled, Announced, Announcing, Awaiting, Key
  <2>. QED  BY <2>1, <2>2 DEF Next, Step
<1>3. TypeOK /\ Names => MessageNamesItsFrame
  <2>. SUFFICES ASSUME TypeOK, Names, NEW r \in Run, NEW n \in Range(log[r]) PROVE objects[Key(r, n)] = r
    BY DEF MessageNamesItsFrame
  <2>1. n \in Elements(log[r])  BY DEF Range, Elements
  <2>. QED  BY <2>1 DEF NamesItsFrames, Settled, Announced
<1>. QED  BY <1>1, <1>2, <1>3, IndInv, LineInvariant, PTL DEF Spec, IInv

(***************************************************************************)
(* The ledger.  Every step of a run moves at most its first frame, or      *)
(* takes frames away from a cancelled run.                                 *)
(***************************************************************************)
WaitingOf == [r \in Run |-> Waiting(r)]
KeptOf == [r \in Run |-> Kept(r)]

\* Where the frames of the ledger stand in line.
LEMMA Places ==
  ASSUME NEW r \in Run
  PROVE  /\ Waiting(r) = Sending(r) \cup Queued(r) \cup Held(r) \cup OneIf(upload[r] = "put", hand[r])
         /\ Kept(r) = OneIf(upload[r] = "forward", hand[r]) \cup Awaiting(r) \cup Announcing(r)
BY DEF Waiting, Kept, OneIf, Sending, Queued, Held, Awaiting, Announcing, Elements, Range

LEMMA PlacesNext ==
  ASSUME NEW r \in Run
  PROVE  /\ Waiting(r)' = Sending(r)' \cup Queued(r)' \cup Held(r)' \cup OneIf(upload'[r] = "put", hand'[r])
         /\ Kept(r)' = OneIf(upload'[r] = "forward", hand'[r]) \cup Awaiting(r)' \cup Announcing(r)'
BY DEF Waiting, Kept, OneIf, Sending, Queued, Held, Awaiting, Announcing, Elements, Range

\* One place of a function of the runs changes.
LEMMA AtRun ==
  ASSUME NEW r \in Run, NEW F, NEW G, NEW X, F = [q \in Run |-> F[q]], G = [q \in Run |-> G[q]],
         G[r] = X, \A q \in Run \ {r} : G[q] = F[q]
  PROVE  G = [F EXCEPT ![r] = X]
OBVIOUS

LEMMA OthersOnLedger ==
  ASSUME TypeOK, NEW r \in Run, NEW q \in Run, q # r, Step(r)
  PROVE  Waiting(q)' = Waiting(q) /\ Kept(q)' = Kept(q)
<1>1. UNCHANGED <<LineState(q), upload[q]>>  BY OthersInLine
<1>2. /\ publish'[q] = publish[q] /\ results'[q] = results[q] /\ upload'[q] = upload[q]
      /\ hand'[q] = hand[q] /\ (receiver'[q] = "holding") = (receiver[q] = "holding")
      /\ taken'[q] = taken[q] /\ queue'[q] = queue[q] /\ sending'[q] = sending[q] /\ frames'[q] = frames[q]
  BY <1>1 DEF LineState
<1>3. Held(q)' = Held(q)  BY <1>2 DEF Held
<1>4. Sending(q)' = Sending(q) /\ Queued(q)' = Queued(q) /\ Awaiting(q)' = Awaiting(q) /\ Announcing(q)' = Announcing(q)
  BY <1>2 DEF Sending, Queued, Awaiting, Announcing
<1>. QED  BY <1>2, <1>3, <1>4, Places, PlacesNext

\* What a step of run r does to the ledger, given what it does to the two places of r.
LEMMA LedgerOf ==
  ASSUME TypeOK, NEW r \in Run, Step(r), NEW X, NEW Y, Waiting(r)' = X, Kept(r)' = Y
  PROVE  WaitingOf' = [WaitingOf EXCEPT ![r] = X] /\ KeptOf' = [KeptOf EXCEPT ![r] = Y]
<1>1. \A q \in Run \ {r} : Waiting(q)' = Waiting(q) /\ Kept(q)' = Kept(q)
  BY OthersOnLedger
<1>2. WaitingOf' = [WaitingOf EXCEPT ![r] = X]
  BY <1>1, AtRun DEF WaitingOf
<1>3. KeptOf' = [KeptOf EXCEPT ![r] = Y]
  BY <1>1, AtRun DEF KeptOf
<1>. QED  BY <1>2, <1>3

\* The first frame of a place, and the place without it.
LEMMA FirstOf ==
  ASSUME NEW n \in Nat, NEW T \in SUBSET Nat, Before({n}, T)
  PROVE  Ledger!First(n, {n} \cup T) /\ ({n} \cup T) \ {n} = T
BY DEF Ledger!First, Before

\* Steps that leave the ledger as it is: a frame changes hands within its place.
LEMMA WithinItsPlace ==
  ASSUME TypeOK, Handshakes, NEW r \in Run, Line(r),
         \/ StartRun(r) \/ Send(r) \/ EndLoop(r) \/ EndThread(r)
         \/ Take(r) /\ upload[r] # "gone"
         \/ Hear(r) \/ Collect(r) \/ Finish(r) \/ Forward(r) \/ StartPublish(r)
         \/ UploadFails(r) /\ tries[r] + 1 < Attempts
  PROVE  Waiting(r)' = Waiting(r) /\ Kept(r)' = Kept(r)
         /\ UNCHANGED <<frames, unstored, processed, log, cancelled>>
<1>f. /\ queue[r] \in Seq(Frame) /\ results[r] \in Seq(Frame) /\ log[r] \in Seq(Frame)
      /\ publish[r] \in Frame \cup {None} /\ frames[r] \in Nat
  BY DEF TypeOK, ThreadType, PublishType
<1>p. /\ Waiting(r) = Sending(r) \cup Queued(r) \cup Held(r) \cup OneIf(upload[r] = "put", hand[r])
      /\ Kept(r) = OneIf(upload[r] = "forward", hand[r]) \cup Awaiting(r) \cup Announcing(r)
  BY Places
<1>q. /\ Waiting(r)' = Sending(r)' \cup Queued(r)' \cup Held(r)' \cup OneIf(upload'[r] = "put", hand'[r])
      /\ Kept(r)' = OneIf(upload'[r] = "forward", hand'[r]) \cup Awaiting(r)' \cup Announcing(r)'
  BY PlacesNext
<1>. USE DEF TypeOK, ThreadType, UploadType, PublishType, Handshakes, Handshake,
         decoderVars, receiverVars, uploadVars, publishVars, Select
<1>1. CASE StartRun(r) \/ EndLoop(r) \/ EndThread(r) \/ Hear(r) \/ Finish(r)
  <2>1. /\ UNCHANGED <<frames, unstored, processed, log, cancelled, sending, queue, taken, hand, results, publish>>
        /\ (receiver'[r] = "holding") = (receiver[r] = "holding")
        /\ (upload'[r] = "put") = (upload[r] = "put") /\ (upload'[r] = "forward") = (upload[r] = "forward")
    BY <1>1, SMTT(30) DEF StartRun, EndLoop, EndThread, Hear, Finish
  <2>. QED  BY ONLY <2>1 DEF Waiting, Kept, OneIf
<1>2. CASE Send(r)
  <2>1. /\ sending[r] /\ ~sending'[r] /\ queue'[r] = Append(queue[r], frames[r] - 1) /\ frames[r] > 0
        /\ UNCHANGED <<frames, unstored, processed, log, cancelled, receiver, taken, upload, hand, results, publish>>
    BY <1>2 DEF Send, Enqueue
  <2>2. frames[r] - 1 \in Frame  BY <1>f, <2>1 DEF Frame
  <2>3. Elements(Append(queue[r], frames[r] - 1)) = Elements(queue[r]) \cup {frames[r] - 1}
    BY ONLY <1>f, <2>2, Enqueued
  <2>4. Queued(r)' = Queued(r) \cup Sending(r) /\ Sending(r)' = {} /\ Held(r)' = Held(r)
    BY <2>1, <2>3 DEF Queued, Sending, Held
  <2>5. Awaiting(r)' = Awaiting(r) /\ Announcing(r)' = Announcing(r)
    BY <2>1 DEF Awaiting, Announcing
  <2>6. /\ OneIf(upload'[r] = "put", hand'[r]) = OneIf(upload[r] = "put", hand[r])
        /\ OneIf(upload'[r] = "forward", hand'[r]) = OneIf(upload[r] = "forward", hand[r])
    BY <2>1 DEF OneIf
  <2>. QED  BY ONLY <1>p, <1>q, <2>1, <2>4, <2>5, <2>6
<1>3. CASE Take(r) /\ upload[r] # "gone"
  <2>1. /\ queue[r] # <<>> /\ queue'[r] = Tail(queue[r]) /\ receiver[r] = "waiting" /\ receiver'[r] = "holding"
        /\ taken'[r] = Head(queue[r])
        /\ UNCHANGED <<frames, sending, unstored, processed, log, cancelled, upload, hand, results, publish>>
    BY <1>3 DEF Take, LeftOver
  <2>2. Elements(queue[r]) = {Head(queue[r])} \cup Elements(Tail(queue[r]))
    BY ONLY <1>f, <2>1, HeadAndTail
  <2>3. Queued(r) = Queued(r)' \cup Held(r)' /\ Held(r) = {} /\ Sending(r)' = Sending(r)
    BY <2>1, <2>2 DEF Queued, Sending, Held
  <2>4. Awaiting(r)' = Awaiting(r) /\ Announcing(r)' = Announcing(r)
    BY <2>1 DEF Awaiting, Announcing
  <2>6. /\ OneIf(upload'[r] = "put", hand'[r]) = OneIf(upload[r] = "put", hand[r])
        /\ OneIf(upload'[r] = "forward", hand'[r]) = OneIf(upload[r] = "forward", hand[r])
    BY <2>1 DEF OneIf
  <2>. QED  BY ONLY <1>p, <1>q, <2>1, <2>3, <2>4, <2>6
<1>4. CASE Collect(r)
  <2>1. /\ upload[r] = "select" /\ upload'[r] = "put" /\ receiver[r] = "holding" /\ receiver'[r] = "none"
        /\ hand'[r] = taken[r]
        /\ UNCHANGED <<frames, unstored, processed, log, cancelled, sending, queue, results, publish>>
    BY <1>4 DEF Collect
  <2>. QED  BY ONLY <2>1 DEF Waiting, Kept, OneIf
<1>5. CASE Forward(r)
  <2>1. /\ upload[r] = "forward" /\ upload'[r] = "select" /\ receiver'[r] = "waiting" /\ receiver[r] = "none"
        /\ results'[r] = Append(results[r], hand[r]) /\ hand[r] \in Frame
        /\ UNCHANGED <<frames, unstored, processed, log, cancelled, sending, queue, publish>>
    BY <1>5 DEF Forward, Enqueue
  <2>2. Elements(Append(results[r], hand[r])) = Elements(results[r]) \cup {hand[r]}
    BY ONLY <1>f, <2>1, Enqueued
  <2>3. Awaiting(r)' = Awaiting(r) \cup {hand[r]} /\ Announcing(r)' = Announcing(r)
    BY <2>1, <2>2 DEF Awaiting, Announcing
  <2>4. Queued(r)' = Queued(r) /\ Sending(r)' = Sending(r) /\ Held(r)' = Held(r)
    BY <2>1 DEF Queued, Sending, Held
  <2>5. /\ OneIf(upload[r] = "forward", hand[r]) = {hand[r]} /\ OneIf(upload'[r] = "forward", hand'[r]) = {}
        /\ OneIf(upload[r] = "put", hand[r]) = {} /\ OneIf(upload'[r] = "put", hand'[r]) = {}
    BY <2>1 DEF OneIf
  <2>. QED  BY ONLY <1>p, <1>q, <2>1, <2>3, <2>4, <2>5
<1>6. CASE StartPublish(r)
  <2>1. /\ publish[r] = None /\ results[r] # <<>> /\ publish'[r] = Head(results[r])
        /\ results'[r] = Tail(results[r])
        /\ UNCHANGED <<frames, unstored, processed, log, cancelled, sending, queue, receiver, taken, upload, hand>>
    BY <1>6 DEF StartPublish
  <2>2. Elements(results[r]) = {Head(results[r])} \cup Elements(Tail(results[r]))
    BY ONLY <1>f, <2>1, HeadAndTail
  <2>3. Head(results[r]) # None  BY <1>f, <2>1, Channels DEF Frame, None
  <2>4. Announcing(r) = {} /\ Announcing(r)' = {Head(results[r])} /\ Awaiting(r) = Awaiting(r)' \cup Announcing(r)'
    BY <2>1, <2>2, <2>3 DEF Announcing, Awaiting
  <2>5. Queued(r)' = Queued(r) /\ Sending(r)' = Sending(r) /\ Held(r)' = Held(r)
    BY <2>1 DEF Queued, Sending, Held
  <2>6. /\ OneIf(upload'[r] = "put", hand'[r]) = OneIf(upload[r] = "put", hand[r])
        /\ OneIf(upload'[r] = "forward", hand'[r]) = OneIf(upload[r] = "forward", hand[r])
    BY <2>1 DEF OneIf
  <2>. QED  BY ONLY <1>p, <1>q, <2>1, <2>4, <2>5, <2>6
<1>7. CASE UploadFails(r) /\ tries[r] + 1 < Attempts
  <2>1. UNCHANGED <<frames, unstored, processed, log, cancelled, sending, queue, receiver, taken, upload, hand,
                    results, publish>>
    BY <1>7 DEF UploadFails
  <2>. QED  BY ONLY <2>1 DEF Waiting, Kept, OneIf
<1>. QED  BY <1>1, <1>2, <1>3, <1>4, <1>5, <1>6, <1>7

\* The end of an upload, one way or the other: the frame is the first that waits.
LEMMA UploadEnds ==
  ASSUME TypeOK, Handshakes, NEW r \in Run, Line(r),
         UploadSucceeds(r) \/ (UploadFails(r) /\ ~(tries[r] + 1 < Attempts))
  PROVE  /\ Ledger!First(hand[r], Waiting(r)) /\ Waiting(r)' = Waiting(r) \ {hand[r]}
         /\ UploadSucceeds(r) => Kept(r)' = Kept(r) \cup {hand[r]}
         /\ ~UploadSucceeds(r) => Kept(r)' = Kept(r)
<1> DEFINE n == hand[r]
           T == Sending(r) \cup Queued(r)
<1>p. /\ Waiting(r) = Sending(r) \cup Queued(r) \cup Held(r) \cup OneIf(upload[r] = "put", hand[r])
      /\ Kept(r) = OneIf(upload[r] = "forward", hand[r]) \cup Awaiting(r) \cup Announcing(r)
  BY Places
<1>q. /\ Waiting(r)' = Sending(r)' \cup Queued(r)' \cup Held(r)' \cup OneIf(upload'[r] = "put", hand'[r])
      /\ Kept(r)' = OneIf(upload'[r] = "forward", hand'[r]) \cup Awaiting(r)' \cup Announcing(r)'
  BY PlacesNext
<1>1. /\ upload[r] = "put" /\ receiver[r] = "none" /\ n \in Nat
      /\ UNCHANGED <<sending, frames, queue, results, publish>>
  BY DEF UploadSucceeds, UploadFails, Abandon, Handshakes, Handshake, decoderVars, receiverVars,
         publishVars, Frame
<1>2. /\ Sending(r)' = Sending(r) /\ Queued(r)' = Queued(r)
      /\ Awaiting(r)' = Awaiting(r) /\ Announcing(r)' = Announcing(r)
  BY <1>1 DEF Sending, Queued, Awaiting, Announcing
<1>3. Held(r) = {} /\ OneIf(upload[r] = "put", n) = {n} /\ OneIf(upload[r] = "forward", n) = {}
  BY <1>1 DEF Held, OneIf
<1>4. Before({n}, T) /\ T \subseteq Nat
  <2>1. Uploading(r) = {n}  BY <1>1 DEF Uploading
  <2>. QED  BY <2>1 DEF Line, InChain, Chain, Before
<1>5. Waiting(r) = {n} \cup T  BY ONLY <1>p, <1>3
<1>6. Ledger!First(n, Waiting(r)) /\ Waiting(r) \ {n} = T
  <2>. HIDE DEF n, T
  <2>. QED  BY ONLY <1>1, <1>4, <1>5, FirstOf
<1>7. CASE UploadSucceeds(r)
  <2>1. /\ upload' = [upload EXCEPT ![r] = "forward"] /\ UNCHANGED <<receiver, hand>>
    BY <1>7 DEF UploadSucceeds, receiverVars
  <2>2. Held(r)' = {} /\ OneIf(upload'[r] = "put", hand'[r]) = {} /\ OneIf(upload'[r] = "forward", hand'[r]) = {n}
    BY <1>1, <2>1 DEF Held, OneIf, TypeOK, UploadType
  <2>3. Waiting(r)' = T  BY ONLY <1>q, <1>2, <2>2
  <2>4. Kept(r)' = Kept(r) \cup {n}  BY ONLY <1>p, <1>q, <1>2, <1>3, <2>2
  <2>. QED  BY <1>6, <1>7, <2>3, <2>4
<1>8. CASE ~UploadSucceeds(r)
  <2>1. Select(r)  BY <1>8 DEF UploadFails, Abandon
  <2>2. Held(r)' = {} /\ OneIf(upload'[r] = "put", hand'[r]) = {} /\ OneIf(upload'[r] = "forward", hand'[r]) = {}
    BY <2>1 DEF Held, OneIf, Select, TypeOK, UploadType, ThreadType
  <2>3. Waiting(r)' = T  BY ONLY <1>q, <1>2, <2>2
  <2>4. Kept(r)' = Kept(r)  BY ONLY <1>p, <1>q, <1>2, <1>3, <2>2
  <2>. QED  BY <1>6, <1>8, <2>3, <2>4
<1>. QED  BY <1>7, <1>8

\* An attempt to publish: the frame is the first that is kept.
LEMMA PublishAttempt ==
  ASSUME TypeOK, NEW r \in Run, Line(r), PublishSucceeds(r) \/ PublishFails(r)
  PROVE  /\ Ledger!First(publish[r], Kept(r)) /\ Waiting(r)' = Waiting(r)
         /\ publish'[r] = publish[r] => Kept(r)' = Kept(r)
         /\ publish'[r] = None => Kept(r)' = Kept(r) \ {publish[r]}
<1> DEFINE n == publish[r]
           T == OneIf(upload[r] = "forward", hand[r]) \cup Awaiting(r)
<1>p. /\ Waiting(r) = Sending(r) \cup Queued(r) \cup Held(r) \cup OneIf(upload[r] = "put", hand[r])
      /\ Kept(r) = OneIf(upload[r] = "forward", hand[r]) \cup Awaiting(r) \cup Announcing(r)
  BY Places
<1>q. /\ Waiting(r)' = Sending(r)' \cup Queued(r)' \cup Held(r)' \cup OneIf(upload'[r] = "put", hand'[r])
      /\ Kept(r)' = OneIf(upload'[r] = "forward", hand'[r]) \cup Awaiting(r)' \cup Announcing(r)'
  BY PlacesNext
<1>1. /\ n # None /\ n \in Nat
      /\ UNCHANGED <<sending, frames, queue, receiver, taken, upload, hand, results>>
  BY DEF PublishSucceeds, PublishFails, decoderVars, receiverVars, uploadVars, TypeOK, PublishType, Frame
<1>2. /\ Sending(r)' = Sending(r) /\ Queued(r)' = Queued(r) /\ Held(r)' = Held(r)
      /\ Awaiting(r)' = Awaiting(r)
      /\ OneIf(upload'[r] = "put", hand'[r]) = OneIf(upload[r] = "put", hand[r])
      /\ OneIf(upload'[r] = "forward", hand'[r]) = OneIf(upload[r] = "forward", hand[r])
  BY <1>1 DEF Sending, Queued, Held, Awaiting, OneIf
<1>3. Announcing(r) = {n}  BY <1>1 DEF Announcing
<1>4. Before({n}, T) /\ T \subseteq Nat
  <2>1. OneIf(upload[r] = "forward", hand[r]) \subseteq Uploading(r)  BY DEF OneIf, Uploading
  <2>2. T \subseteq Awaiting(r) \cup Uploading(r)  BY <2>1
  <2>3. /\ Before({n}, Awaiting(r) \cup Uploading(r) \cup Held(r) \cup Queued(r) \cup Sending(r))
        /\ Awaiting(r) \cup Uploading(r) \subseteq Nat
    BY <1>3 DEF Line, InChain, Chain
  <2>. HIDE DEF n, T
  <2>. QED  BY ONLY <2>2, <2>3 DEF Before
<1>5. Kept(r) = {n} \cup T  BY ONLY <1>p, <1>3
<1>6. Ledger!First(n, Kept(r)) /\ Kept(r) \ {n} = T
  <2>. HIDE DEF n, T
  <2>. QED  BY ONLY <1>1, <1>4, <1>5, FirstOf
<1>7. Waiting(r)' = Waiting(r)  BY ONLY <1>p, <1>q, <1>2
<1>8. Kept(r)' = T \cup Announcing(r)'  BY ONLY <1>q, <1>2
<1>9. ASSUME publish'[r] = n PROVE Kept(r)' = Kept(r)
  <2>1. Announcing(r)' = {n}  BY <1>1, <1>9 DEF Announcing
  <2>. QED  BY ONLY <1>5, <1>8, <2>1
<1>10. ASSUME publish'[r] = None PROVE Kept(r)' = T
  <2>1. Announcing(r)' = {}  BY <1>10 DEF Announcing
  <2>. QED  BY ONLY <1>8, <2>1
<1>. QED  BY <1>6, <1>7, <1>9, <1>10

\* Frames vanish in three ways, all of them after the cancellation of the run.
LEMMA FramesVanish ==
  ASSUME TypeOK, Handshakes, NEW r \in Run,
         SendFails(r) \/ ShutDown(r) \/ (Take(r) /\ upload[r] = "gone")
  PROVE  /\ r \in cancelled /\ Waiting(r)' \subseteq Waiting(r) /\ Kept(r)' = Kept(r)
         /\ UNCHANGED <<frames, unstored, processed, log, cancelled>>
<1>1. /\ r \in cancelled /\ queue'[r] \in {queue[r], <<>>}
      /\ sending'[r] => sending[r]
      /\ (receiver'[r] = receiver[r] /\ taken'[r] = taken[r]) \/ receiver'[r] # "holding"
      /\ upload'[r] = upload[r] \/ (upload'[r] = "gone" /\ upload[r] = "select")
      /\ UNCHANGED <<frames, unstored, processed, log, cancelled, hand, results, publish>>
  <2>. USE DEF Handshakes, Handshake, TypeOK, ThreadType, UploadType,
               decoderVars, receiverVars, uploadVars, publishVars
  <2>1. CASE SendFails(r)
    <3>1. r \in cancelled  BY <2>1 DEF SendFails, Disconnected
    <3>2. ~sending'[r] /\ UNCHANGED <<queue, receiver, taken, upload>>
      BY <2>1 DEF SendFails
    <3>. QED  BY <2>1, <3>1, <3>2 DEF SendFails
  <2>2. CASE ShutDown(r)
    <3>1. r \in cancelled /\ upload[r] = "select" /\ upload'[r] = "gone" /\ UNCHANGED sending
      BY <2>2 DEF ShutDown
    <3>2. receiver'[r] # "holding" /\ queue'[r] \in {queue[r], <<>>}
      BY <2>2 DEF ShutDown, LeftOver
    <3>. QED  BY <2>2, <3>1, <3>2 DEF ShutDown
  <2>3. CASE Take(r) /\ upload[r] = "gone"  BY <2>3 DEF Take, LeftOver
  <2>. QED  BY <2>1, <2>2, <2>3
<1>2. Range(queue'[r]) \subseteq Range(queue[r])
  <2>1. Range(<<>>) = {}  BY DEF Range
  <2>. QED  BY <1>1, <2>1
<1>3. /\ OneIf(sending'[r], frames'[r] - 1) \subseteq OneIf(sending[r], frames[r] - 1)
      /\ OneIf(receiver'[r] = "holding", taken'[r]) \subseteq OneIf(receiver[r] = "holding", taken[r])
      /\ OneIf(upload'[r] = "put", hand'[r]) \subseteq OneIf(upload[r] = "put", hand[r])
      /\ OneIf(upload'[r] = "forward", hand'[r]) = OneIf(upload[r] = "forward", hand[r])
  BY <1>1 DEF OneIf
<1>4. Waiting(r)' \subseteq Waiting(r)  BY <1>2, <1>3 DEF Waiting
<1>5. Kept(r)' = Kept(r)  BY <1>1, <1>3 DEF Kept
<1>. QED  BY <1>1, <1>4, <1>5

\* A step of a run is a step of its ledger, or leaves the ledger alone.
LEMMA StepOnLedger ==
  ASSUME TypeOK, Handshakes, NEW r \in Run, Line(r), Step(r)
  PROVE  [Ledger!Next]_(Ledger!vars)
<1>w. WaitingOf[r] = Waiting(r) /\ KeptOf[r] = Kept(r)  BY DEF WaitingOf, KeptOf
<1>l. /\ WaitingOf' = [WaitingOf EXCEPT ![r] = Waiting(r)']
      /\ KeptOf' = [KeptOf EXCEPT ![r] = Kept(r)']
  BY LedgerOf
<1>s. ASSUME Waiting(r)' = Waiting(r), Kept(r)' = Kept(r),
             UNCHANGED <<frames, unstored, processed, log, cancelled>>
      PROVE  UNCHANGED Ledger!vars
  <2>1. WaitingOf' = WaitingOf /\ KeptOf' = KeptOf
    BY <1>l, <1>w, <1>s DEF WaitingOf, KeptOf
  <2>. QED  BY <1>s, <2>1 DEF Ledger!vars, WaitingOf, KeptOf
<1>1. CASE \/ StartRun(r) \/ Send(r) \/ EndLoop(r) \/ EndThread(r)
           \/ (Take(r) /\ upload[r] # "gone")
           \/ Hear(r) \/ Collect(r) \/ Finish(r) \/ Forward(r) \/ StartPublish(r)
           \/ (UploadFails(r) /\ tries[r] + 1 < Attempts)
  <2>1. /\ Waiting(r)' = Waiting(r) /\ Kept(r)' = Kept(r)
        /\ UNCHANGED <<frames, unstored, processed, log, cancelled>>
    BY <1>1, WithinItsPlace
  <2>. QED  BY <2>1, <1>s
<1>2. CASE Cancel(r)
  <2>1. /\ cancelled' = cancelled \cup {r}
        /\ UNCHANGED <<frames, sending, queue, receiver, taken, upload, hand, results, publish,
                       unstored, processed, log>>
    BY <1>2 DEF Cancel, receiverVars, uploadVars, publishVars
  <2>2. WaitingOf' = WaitingOf /\ KeptOf' = KeptOf
    BY <2>1 DEF WaitingOf, KeptOf, Waiting, Kept, OneIf
  <2>3. Ledger!Cancel(r)  BY <2>1, <2>2 DEF Ledger!Cancel, WaitingOf, KeptOf
  <2>. QED  BY <2>3 DEF Ledger!Next
<1>3. CASE Extract(r)
  <2>1. /\ ~sending[r] /\ sending'[r] /\ frames' = [frames EXCEPT ![r] = @ + 1] /\ frames'[r] = frames[r] + 1
        /\ frames[r] \in Nat
        /\ UNCHANGED <<cancelled, queue, receiver, taken, upload, hand, results, publish,
                       unstored, processed, log>>
    BY <1>3 DEF Extract, receiverVars, uploadVars, publishVars, TypeOK, ThreadType
  <2>2. OneIf(sending[r], frames[r] - 1) = {} /\ OneIf(sending'[r], frames'[r] - 1) = {frames[r]}
    BY <2>1 DEF OneIf
  <2>3. Waiting(r)' = Waiting(r) \cup {frames[r]} /\ Kept(r)' = Kept(r)
    BY <2>1, <2>2 DEF Waiting, Kept, OneIf
  <2>4. WaitingOf' = [WaitingOf EXCEPT ![r] = WaitingOf[r] \cup {frames[r]}] /\ KeptOf' = KeptOf
    BY <1>l, <1>w, <2>3 DEF KeptOf
  <2>5. Ledger!Extract(r)  BY <2>1, <2>4 DEF Ledger!Extract, WaitingOf, KeptOf
  <2>. QED  BY <2>5 DEF Ledger!Next
<1>4. CASE SendFails(r) \/ ShutDown(r) \/ (Take(r) /\ upload[r] = "gone")
  <2> DEFINE S == Waiting(r) \ Waiting(r)'
  <2>1. /\ r \in cancelled /\ Waiting(r)' \subseteq Waiting(r) /\ Kept(r)' = Kept(r)
        /\ UNCHANGED <<frames, unstored, processed, log, cancelled>>
    BY <1>4, FramesVanish
  <2>2. S \subseteq Waiting(r) /\ Waiting(r)' = Waiting(r) \ S  BY <2>1
  <2>. HIDE DEF S
  <2>3. WaitingOf' = [WaitingOf EXCEPT ![r] = WaitingOf[r] \ S] /\ KeptOf' = KeptOf
    BY <1>l, <1>w, <2>1, <2>2 DEF KeptOf
  <2>4. Ledger!Lose(r, S) /\ S \in SUBSET WaitingOf[r]
    BY <1>w, <2>1, <2>2, <2>3 DEF Ledger!Lose, WaitingOf, KeptOf
  <2>. QED  BY <2>4 DEF Ledger!Next, WaitingOf
<1>5. CASE UploadSucceeds(r) \/ (UploadFails(r) /\ ~(tries[r] + 1 < Attempts))
  <2> DEFINE n == hand[r]
  <2>1. /\ Ledger!First(n, Waiting(r)) /\ Waiting(r)' = Waiting(r) \ {n}
        /\ UploadSucceeds(r) => Kept(r)' = Kept(r) \cup {n}
        /\ ~UploadSucceeds(r) => Kept(r)' = Kept(r)
    BY <1>5, UploadEnds
  <2>2. n \in WaitingOf[r]  BY <1>w, <2>1 DEF Ledger!First
  <2>3. CASE UploadSucceeds(r)
    <3>1. UNCHANGED <<frames, unstored, processed, log, cancelled>>
      BY <2>3 DEF UploadSucceeds, decoderVars, publishVars
    <3>. HIDE DEF n
    <3>2. /\ WaitingOf' = [WaitingOf EXCEPT ![r] = WaitingOf[r] \ {n}]
          /\ KeptOf' = [KeptOf EXCEPT ![r] = KeptOf[r] \cup {n}]
      BY <1>l, <1>w, <2>1, <2>3
    <3>3. Ledger!Store(r, n)  BY <1>w, <2>1, <3>1, <3>2 DEF Ledger!Store, WaitingOf, KeptOf
    <3>. QED  BY <2>2, <3>3 DEF Ledger!Next, WaitingOf
  <2>4. CASE ~UploadSucceeds(r)
    <3>1. unstored' = [unstored EXCEPT ![r] = @ + 1] /\ UNCHANGED <<frames, processed, log, cancelled>>
      BY <1>5, <2>4 DEF UploadFails, decoderVars, publishVars
    <3>. HIDE DEF n
    <3>2. WaitingOf' = [WaitingOf EXCEPT ![r] = WaitingOf[r] \ {n}] /\ KeptOf' = KeptOf
      BY <1>l, <1>w, <2>1, <2>4 DEF KeptOf
    <3>3. Ledger!Refuse(r, n)  BY <1>w, <2>1, <3>1, <3>2 DEF Ledger!Refuse, WaitingOf, KeptOf
    <3>. QED  BY <2>2, <3>3 DEF Ledger!Next, WaitingOf
  <2>. QED  BY <2>3, <2>4
<1>6. CASE PublishSucceeds(r) \/ PublishFails(r)
  <2> DEFINE n == publish[r]
  <2>1. /\ Ledger!First(n, Kept(r)) /\ Waiting(r)' = Waiting(r)
        /\ publish'[r] = n => Kept(r)' = Kept(r)
        /\ publish'[r] = None => Kept(r)' = Kept(r) \ {n}
    BY <1>6, PublishAttempt
  <2>2. n \in KeptOf[r]  BY <1>w, <2>1 DEF Ledger!First
  <2>3. WaitingOf' = WaitingOf  BY <1>l, <1>w, <2>1 DEF WaitingOf
  <2>4. /\ log' \in {log, [log EXCEPT ![r] = Append(@, n)]}
        /\ UNCHANGED <<frames, unstored, cancelled>>
    BY <1>6 DEF PublishSucceeds, PublishFails, Deliver, decoderVars
  <2>5. CASE publish'[r] = n /\ UNCHANGED processed
    <3>. HIDE DEF n
    <3>1. KeptOf' = KeptOf  BY <1>l, <1>w, <2>1, <2>5 DEF KeptOf
    <3>2. CASE log' = log
      BY <2>3, <2>4, <2>5, <3>1, <3>2 DEF Ledger!vars, WaitingOf, KeptOf
    <3>3. CASE log' = [log EXCEPT ![r] = Append(@, n)]
      <4>1. Ledger!Announce(r, n)
        BY <1>w, <2>1, <2>3, <2>4, <2>5, <3>1, <3>3 DEF Ledger!Announce, WaitingOf, KeptOf
      <4>. QED  BY <2>2, <4>1 DEF Ledger!Next, KeptOf
    <3>. QED  BY <2>4, <3>2, <3>3
  <2>6. CASE publish'[r] = None /\ processed' = [processed EXCEPT ![r] = @ + 1]
    <3>. HIDE DEF n
    <3>1. KeptOf' = [KeptOf EXCEPT ![r] = KeptOf[r] \ {n}]  BY <1>l, <1>w, <2>1, <2>6
    <3>2. Ledger!Settle(r, n)
      BY <1>w, <2>1, <2>3, <2>4, <2>6, <3>1 DEF Ledger!Settle, WaitingOf, KeptOf
    <3>. QED  BY <2>2, <3>2 DEF Ledger!Next, KeptOf
  <2>7. \/ publish'[r] = n /\ UNCHANGED processed
        \/ publish'[r] = None /\ processed' = [processed EXCEPT ![r] = @ + 1]
    BY <1>6 DEF PublishSucceeds, PublishFails, NextResult, TypeOK, PublishType
  <2>. QED  BY <2>5, <2>6, <2>7
<1>. QED
  BY <1>1, <1>2, <1>3, <1>4, <1>5, <1>6
     DEF Step, DecoderStep, ReceiverStep, UploadStep, PublishStep

\* Whatever fails and whoever waits, the threads, tasks and channels of the runs do with their
\* frames what the ledger allows.
THEOREM DeliveryKeepsLedger == Spec => FramesOnLedger
<1>1. Init => Ledger!Init
  <2>. SUFFICES ASSUME Init PROVE Ledger!Init
    OBVIOUS
  <2>1. \A r \in Run : Waiting(r) = {} /\ Kept(r) = {}
    <3>1. Range(<<>>) = {}  BY DEF Range
    <3>. QED  BY <3>1 DEF Init, Waiting, Kept, OneIf
  <2>. QED  BY <2>1 DEF Init, Ledger!Init
<1>2. TypeOK /\ Handshakes /\ (\A r \in Run : Line(r)) /\ [Next]_vars => [Ledger!Next]_(Ledger!vars)
  <2>. SUFFICES ASSUME TypeOK, Handshakes, \A r \in Run : Line(r), [Next]_vars
                PROVE  [Ledger!Next]_(Ledger!vars)
    OBVIOUS
  <2>1. ASSUME NEW r \in Run, Step(r) PROVE [Ledger!Next]_(Ledger!vars)
    BY <2>1, StepOnLedger
  <2>2. CASE UNCHANGED vars
    BY <2>2 DEF vars, Ledger!vars, Waiting, Kept, OneIf
  <2>. QED  BY <2>1, <2>2 DEF Next, Step
<1>. QED  BY <1>1, <1>2, IndInv, LineInvariant, PTL DEF Spec, IInv, FramesOnLedger, Ledger!Spec

(***************************************************************************)
(* Nobody is stuck.  A selecting upload task has a blocking thread, and    *)
(* only a selecting task has one that is about to answer.                  *)
(***************************************************************************)
Paired(r) ==
  /\ upload[r] = "select" => receiver[r] # "none"
  /\ receiver[r] \in {"holding", "closed"} => upload[r] = "select"

LEMMA StepPaired ==
  ASSUME TypeOK, Handshakes, NEW r \in Run, Paired(r), Step(r) PROVE Paired(r)'
<1>. USE DEF TypeOK, ThreadType, UploadType, Handshakes, Handshake, Paired,
             decoderVars, receiverVars, uploadVars, Select
<1>1. CASE StartRun(r)  BY <1>1 DEF StartRun
<1>2. CASE Cancel(r) \/ DecoderStep(r) \/ PublishStep(r)
  <2>1. UNCHANGED <<upload, receiver>>
    BY <1>2 DEF Cancel, DecoderStep, Extract, Send, SendFails, EndLoop, EndThread,
                PublishStep, StartPublish, PublishSucceeds, PublishFails
  <2>. QED  BY <2>1
<1>3. CASE Take(r)
  <2>1. upload[r] # "off" /\ UNCHANGED upload /\ receiver[r] = "waiting"  BY <1>3 DEF Take
  <2>2. CASE upload[r] = "gone"  BY <1>3, <2>1, <2>2 DEF Take
  <2>3. CASE upload[r] # "gone"
    <3>1. upload[r] = "select"  BY <2>1, <2>3
    <3>. QED  BY <1>3, <2>1, <2>3, <3>1 DEF Take
  <2>. QED  BY <2>2, <2>3
<1>4. CASE Hear(r)
  <2>1. upload[r] # "off" /\ UNCHANGED upload /\ receiver[r] = "waiting"  BY <1>4 DEF Hear
  <2>2. CASE upload[r] = "gone"  BY <1>4, <2>1, <2>2 DEF Hear
  <2>3. CASE upload[r] # "gone"
    <3>1. upload[r] = "select"  BY <2>1, <2>3
    <3>. QED  BY <1>4, <2>1, <2>3, <3>1 DEF Hear
  <2>. QED  BY <2>2, <2>3
<1>5. CASE Collect(r) \/ Finish(r) \/ ShutDown(r)  BY <1>5 DEF Collect, Finish, ShutDown
<1>6. CASE UploadSucceeds(r)  BY <1>6 DEF UploadSucceeds
<1>7. CASE UploadFails(r)
  <2>1. \/ UNCHANGED <<upload, receiver>>
        \/ upload'[r] = "select" /\ receiver'[r] = "waiting"
    BY <1>7 DEF UploadFails, Abandon
  <2>. QED  BY <2>1
<1>8. CASE Forward(r)  BY <1>8 DEF Forward
<1>. QED  BY <1>1, <1>2, <1>3, <1>4, <1>5, <1>6, <1>7, <1>8 DEF Step, ReceiverStep, UploadStep

LEMMA OthersStill ==
  ASSUME TypeOK, NEW r \in Run, NEW q \in Run, q # r, Step(r)
  PROVE  UNCHANGED <<decoder[q], frames[q], sending[q], q \in cancelled, queue[q], receiver[q], upload[q],
                     tries[q], results[q], publish[q], retries[q]>>
<1>. USE DEF TypeOK, ThreadType, UploadType, PublishType,
             decoderVars, receiverVars, uploadVars, publishVars, Select
<1>1. CASE StartRun(r) \/ Cancel(r)  BY <1>1, SMTT(30) DEF StartRun, Cancel
<1>2. CASE DecoderStep(r)
  BY <1>2, SMTT(30) DEF DecoderStep, Extract, Send, SendFails, EndLoop, EndThread
<1>3. CASE ReceiverStep(r)  BY <1>3, SMTT(30) DEF ReceiverStep, Take, Hear
<1>4. CASE Collect(r) \/ Finish(r) \/ ShutDown(r)
  BY <1>4, SMTT(30) DEF Collect, Finish, ShutDown
<1>5. CASE UploadSucceeds(r) \/ UploadFails(r) \/ Forward(r)
  BY <1>5, ZenonT(60) DEF UploadSucceeds, UploadFails, Abandon, Forward
<1>6. CASE PublishStep(r)
  BY <1>6, ZenonT(60) DEF PublishStep, StartPublish, PublishSucceeds, PublishFails, NextResult
<1>. QED  BY <1>1, <1>2, <1>3, <1>4, <1>5, <1>6 DEF Step, UploadStep

\* The tasks, threads and channels of a run never wait for one another in a circle.
THEOREM NobodyIsStuck == Spec => []NeverStuck
<1> DEFINE AllPaired == \A r \in Run : Paired(r)
<1>1. Init => AllPaired
  BY DEF Init, Paired
<1>2. TypeOK /\ Handshakes /\ AllPaired /\ [Next]_vars => AllPaired'
  <2>. SUFFICES ASSUME TypeOK, Handshakes, AllPaired, [Next]_vars, NEW q \in Run PROVE Paired(q)'
    OBVIOUS
  <2>1. ASSUME NEW r \in Run, Step(r) PROVE Paired(q)'
    <3>1. CASE q = r  BY <2>1, <3>1, StepPaired
    <3>2. CASE q # r  BY <2>1, <3>2, OthersStill DEF Paired
    <3>. QED  BY <3>1, <3>2
  <2>2. CASE UNCHANGED vars  BY <2>2 DEF vars, Paired
  <2>. QED  BY <2>1, <2>2 DEF Next, Step
<1>3. TypeOK /\ Handshakes /\ AllPaired => NeverStuck
  <2>. SUFFICES ASSUME TypeOK, Handshakes, AllPaired, NEW r \in Run,
                       decoder[r] # "off", ~(decoder[r] = "on" /\ ~sending[r]), ~Ended(r),
                       ~SomeoneGoesOn(r)
                PROVE  FALSE
    BY DEF NeverStuck
  <2>1. /\ sending[r] => Len(queue[r]) >= Capacity /\ ~Disconnected(r)
        /\ ~sending[r] => decoder[r] = "gone"
    BY Numbers, DeliveryAssumption DEF SomeoneGoesOn, HasRoom, TypeOK, ThreadType
  <2>2. sending[r] => queue[r] # <<>>
    <3>1. Len(<<>>) = 0  OBVIOUS
    <3>. QED  BY <2>1, <3>1, DeliveryAssumption
  <2>3. receiver[r] # "waiting"
    BY <2>1, <2>2 DEF SomeoneGoesOn, Closed
  <2>4. publish[r] = None /\ results[r] = <<>>  BY DEF SomeoneGoesOn
  <2>5. upload[r] # "forward"
    <3>1. Len(<<>>) = 0  OBVIOUS
    <3>. QED  BY <2>4, <3>1, DeliveryAssumption DEF SomeoneGoesOn
  <2>6. upload[r] = "gone"
    BY <2>3, <2>5 DEF SomeoneGoesOn, Paired, TypeOK, ThreadType, UploadType, Handshakes, Handshake
  <2>7. receiver[r] = "none"
    BY <2>3, <2>6 DEF Paired, TypeOK, ThreadType
  <2>8. Disconnected(r)  BY <2>6, <2>7 DEF Disconnected
  <2>. QED  BY <2>1, <2>4, <2>8 DEF Ended
<1>. QED  BY <1>1, <1>2, <1>3, IndInv, PTL DEF Spec, IInv

(***************************************************************************)
(* Work.  A frame is worth less at each place it comes to, by more than    *)
(* the tasks gain when they turn to the next one.                          *)
(***************************************************************************)
DecoderShare(r) ==
  CASE decoder[r] = "off" -> 5 [] decoder[r] = "on" -> 2 [] decoder[r] = "flush" -> 1 [] OTHER -> 0
ReceiverShare(r) ==
  CASE receiver[r] = "holding" -> 2 * Attempts + 5 [] receiver[r] = "waiting" -> 2
    [] receiver[r] = "closed" -> 1 [] OTHER -> 0
UploadShare(r) ==
  CASE upload[r] = "put" -> 2 * Attempts + 6 - tries[r] [] upload[r] = "forward" -> Attempts + 6
    [] upload[r] = "gone" -> 0 [] OTHER -> 2
SendingShare(r) == IF sending[r] THEN 2 * Attempts + 6 ELSE 0
PublishShare(r) == IF publish[r] = None THEN 0 ELSE Attempts - retries[r]

LEMMA Shares ==
  ASSUME TypeOK, NEW r \in Run
  PROVE  /\ Attempts \in Nat /\ Attempts > 0
         /\ DecoderShare(r) \in Nat /\ ReceiverShare(r) \in Nat
         /\ UploadShare(r) \in Nat /\ PublishShare(r) \in Nat
         /\ SendingShare(r) \in Nat /\ One(r \notin cancelled) \in Nat
         /\ MaxFrame[r] - frames[r] \in Nat /\ Len(queue[r]) \in Nat /\ Len(results[r]) \in Nat
         /\ tries[r] \in Nat /\ tries[r] < Attempts /\ retries[r] \in Nat /\ retries[r] < Attempts
<1>1. Attempts \in Nat /\ Attempts > 0  BY DeliveryAssumption
<1>2. MaxFrame[r] \in Nat /\ frames[r] \in Nat /\ frames[r] <= MaxFrame[r]
  BY DeliveryAssumption DEF TypeOK, ThreadType
<1>3. tries[r] \in 0..(Attempts - 1) /\ retries[r] \in 0..(Attempts - 1)
  BY DEF TypeOK, UploadType, PublishType
<1>4. DecoderShare(r) \in Nat /\ SendingShare(r) \in Nat  BY <1>1 DEF DecoderShare, SendingShare
<1>5. ReceiverShare(r) \in Nat  BY <1>1 DEF ReceiverShare
<1>6. UploadShare(r) \in Nat  BY <1>1, <1>3 DEF UploadShare
<1>7. PublishShare(r) \in Nat  BY <1>1, <1>3 DEF PublishShare
<1>8. tries[r] \in Nat /\ tries[r] < Attempts /\ retries[r] \in Nat /\ retries[r] < Attempts
  BY ONLY <1>1, <1>3
<1>. QED  BY <1>1, <1>2, <1>4, <1>5, <1>6, <1>7, <1>8, Numbers DEF One

PerFrame(x) == (2 * Attempts + 7) * x
PerQueued(x) == (2 * Attempts + 5) * x
PerResult(x) == (Attempts + 1) * x

LEMMA Weights ==
  ASSUME NEW x \in Nat
  PROVE  /\ PerFrame(x) \in Nat /\ PerFrame(x + 1) = PerFrame(x) + 2 * Attempts + 7
         /\ PerQueued(x) \in Nat /\ PerQueued(x + 1) = PerQueued(x) + 2 * Attempts + 5
         /\ PerResult(x) \in Nat /\ PerResult(x + 1) = PerResult(x) + Attempts + 1
         /\ PerQueued(0) = 0
<1>1. Attempts \in Nat  BY DeliveryAssumption
<1>2. PerFrame(x) \in Nat /\ PerFrame(x + 1) = PerFrame(x) + 2 * Attempts + 7  BY <1>1 DEF PerFrame
<1>3. PerQueued(x) \in Nat /\ PerQueued(x + 1) = PerQueued(x) + 2 * Attempts + 5  BY <1>1 DEF PerQueued
<1>4. PerResult(x) \in Nat /\ PerResult(x + 1) = PerResult(x) + Attempts + 1  BY <1>1 DEF PerResult
<1>5. PerQueued(0) = 0  BY <1>1 DEF PerQueued
<1>. QED  BY <1>2, <1>3, <1>4, <1>5

LEMMA Weighed ==
  ASSUME TypeOK, NEW r \in Run
  PROVE  /\ PerFrame(MaxFrame[r] - frames[r]) \in Nat /\ PerQueued(Len(queue[r])) \in Nat
         /\ PerResult(Len(results[r])) \in Nat /\ PerQueued(0) = 0
<1>1. /\ MaxFrame[r] - frames[r] \in Nat /\ Len(queue[r]) \in Nat /\ Len(results[r]) \in Nat
  BY Shares
<1>2. PerFrame(MaxFrame[r] - frames[r]) \in Nat  BY ONLY <1>1, Weights
<1>3. PerQueued(Len(queue[r])) \in Nat  BY ONLY <1>1, Weights
<1>4. PerResult(Len(results[r])) \in Nat  BY ONLY <1>1, Weights
<1>5. 0 \in Nat  OBVIOUS
<1>6. PerQueued(0) = 0  BY ONLY <1>5, Weights
<1>. QED  BY ONLY <1>2, <1>3, <1>4, <1>6

LEMMA WorkIs ==
  ASSUME NEW r \in Run
  PROVE  /\ ReadWork(r) = PerFrame(MaxFrame[r] - frames[r]) + SendingShare(r)
                            + DecoderShare(r) + One(r \notin cancelled)
         /\ UploadWork(r) = PerQueued(Len(queue[r])) + ReceiverShare(r) + UploadShare(r)
         /\ PublishWork(r) = PerResult(Len(results[r])) + PublishShare(r)
BY DEF ReadWork, UploadWork, PublishWork, DecoderShare, ReceiverShare, UploadShare, PublishShare, SendingShare,
       PerFrame, PerQueued, PerResult

LEMMA WorkIsNext ==
  ASSUME NEW r \in Run
  PROVE  /\ ReadWork(r)' = PerFrame(MaxFrame[r] - frames'[r]) + SendingShare(r)'
                            + DecoderShare(r)' + One(r \notin cancelled')
         /\ UploadWork(r)' = PerQueued(Len(queue'[r])) + ReceiverShare(r)' + UploadShare(r)'
         /\ PublishWork(r)' = PerResult(Len(results'[r])) + PublishShare(r)'
BY DEF ReadWork, UploadWork, PublishWork, DecoderShare, ReceiverShare, UploadShare, PublishShare, SendingShare,
       PerFrame, PerQueued, PerResult

LEMMA WorkNatural ==
  ASSUME TypeOK, NEW r \in Run
  PROVE  ReadWork(r) \in Nat /\ UploadWork(r) \in Nat /\ PublishWork(r) \in Nat /\ Work(r) \in Nat
<1>1. /\ PerFrame(MaxFrame[r] - frames[r]) \in Nat
      /\ PerQueued(Len(queue[r])) \in Nat /\ PerResult(Len(results[r])) \in Nat
  BY Weighed
<1>s. /\ DecoderShare(r) \in Nat /\ ReceiverShare(r) \in Nat /\ UploadShare(r) \in Nat
      /\ PublishShare(r) \in Nat /\ SendingShare(r) \in Nat /\ One(r \notin cancelled) \in Nat
  BY Shares
<1>2. ReadWork(r) \in Nat  BY ONLY <1>1, <1>s, WorkIs, r \in Run, SMTT(30)
<1>3. UploadWork(r) \in Nat  BY ONLY <1>1, <1>s, WorkIs, r \in Run, SMTT(30)
<1>4. PublishWork(r) \in Nat  BY ONLY <1>1, <1>s, WorkIs, r \in Run, SMTT(30)
<1>. QED  BY <1>2, <1>3, <1>4 DEF Work

\* The decode thread.
LEMMA ReadingShrinks ==
  ASSUME TypeOK, Handshakes, NEW r \in Run,
         Cancel(r) \/ Extract(r) \/ SendFails(r) \/ EndLoop(r) \/ EndThread(r)
  PROVE  ReadWork(r)' < ReadWork(r) /\ UploadWork(r)' = UploadWork(r) /\ PublishWork(r)' = PublishWork(r)
<1>0. UNCHANGED <<queue, receiver, upload, tries, results, publish, retries>>
  BY DEF Cancel, Extract, SendFails, EndLoop, EndThread, receiverVars, uploadVars, publishVars
<1>1. UploadWork(r)' = UploadWork(r)  BY <1>0 DEF UploadWork
<1>2. PublishWork(r)' = PublishWork(r)  BY <1>0 DEF PublishWork
<1>s. /\ Attempts \in Nat /\ DecoderShare(r) \in Nat /\ One(r \notin cancelled) \in Nat
      /\ MaxFrame[r] - frames[r] \in Nat /\ MaxFrame[r] \in Nat /\ frames[r] \in Nat
      /\ PerFrame(MaxFrame[r] - frames[r]) \in Nat /\ SendingShare(r) \in Nat
  BY Shares, Weights, DeliveryAssumption DEF TypeOK, ThreadType
<1>w. /\ ReadWork(r) = PerFrame(MaxFrame[r] - frames[r]) + SendingShare(r)
                         + DecoderShare(r) + One(r \notin cancelled)
      /\ ReadWork(r)' = PerFrame(MaxFrame[r] - frames'[r]) + SendingShare(r)'
                         + DecoderShare(r)' + One(r \notin cancelled')
  BY WorkIs, WorkIsNext
<1>3. CASE Cancel(r)
  <2>1. One(r \notin cancelled) = 1 /\ One(r \notin cancelled') = 0 /\ UNCHANGED <<frames, sending, decoder>>
    BY <1>3 DEF Cancel, One
  <2>2. DecoderShare(r)' = DecoderShare(r)  BY <2>1 DEF DecoderShare
  <2>3. SendingShare(r)' = SendingShare(r)  BY <2>1 DEF SendingShare
  <2>4. ReadWork(r)' < ReadWork(r)  BY ONLY <1>s, <1>w, <2>1, <2>2, <2>3
  <2>. QED  BY <1>1, <1>2, <2>4
<1>4. CASE Extract(r)
  <2>1. /\ frames'[r] = frames[r] + 1 /\ frames[r] < MaxFrame[r]
        /\ SendingShare(r) = 0 /\ SendingShare(r)' = 2 * Attempts + 6 /\ UNCHANGED <<decoder, cancelled>>
    BY <1>4 DEF Extract, SendingShare, TypeOK, ThreadType
  <2>2. DecoderShare(r)' = DecoderShare(r)  BY <2>1 DEF DecoderShare
  <2> DEFINE x == MaxFrame[r] - frames'[r]
  <2>3. x \in Nat /\ MaxFrame[r] - frames[r] = x + 1  BY <1>s, <2>1
  <2>. HIDE DEF x
  <2>4. PerFrame(x + 1) = PerFrame(x) + 2 * Attempts + 7 /\ PerFrame(x) \in Nat  BY <2>3, Weights
  <2>5. ReadWork(r)' < ReadWork(r)
    <3>1. ReadWork(r) = PerFrame(x + 1) + 0 + DecoderShare(r) + One(r \notin cancelled)
      BY <1>w, <2>1, <2>3
    <3>2. ReadWork(r)' = PerFrame(x) + (2 * Attempts + 6) + DecoderShare(r) + One(r \notin cancelled)
      BY <1>w, <2>1, <2>2 DEF x
    <3>. QED  BY ONLY <1>s, <2>4, <3>1, <3>2
  <2>. QED  BY <1>1, <1>2, <2>5
<1>5. CASE SendFails(r)
  <2>1. /\ SendingShare(r) = 2 * Attempts + 6 /\ SendingShare(r)' = 0 /\ UNCHANGED <<frames, cancelled>>
        /\ decoder'[r] \in {decoder[r], "gone"}
    BY <1>5 DEF SendFails, SendingShare, TypeOK, ThreadType
  <2>2. DecoderShare(r)' <= DecoderShare(r) /\ DecoderShare(r)' \in Nat  BY <2>1 DEF DecoderShare
  <2>3. ReadWork(r)' < ReadWork(r)  BY ONLY <1>s, <1>w, <2>1, <2>2
  <2>. QED  BY <1>1, <1>2, <2>3
<1>6. CASE EndLoop(r) \/ EndThread(r)
  <2>1. UNCHANGED <<frames, sending, cancelled>>  BY <1>6 DEF EndLoop, EndThread
  <2>2. DecoderShare(r)' < DecoderShare(r) /\ DecoderShare(r)' \in Nat
    BY <1>6 DEF EndLoop, EndThread, DecoderShare, TypeOK, ThreadType
  <2>3. SendingShare(r)' = SendingShare(r)  BY <2>1 DEF SendingShare
  <2>4. ReadWork(r)' < ReadWork(r)  BY ONLY <1>s, <1>w, <2>1, <2>2, <2>3
  <2>. QED  BY <1>1, <1>2, <2>4
<1>. QED  BY <1>3, <1>4, <1>5, <1>6

\* The decode thread hands a frame to the channel, and a run starts.
LEMMA SendingShrinks ==
  ASSUME TypeOK, Handshakes, NEW r \in Run, StartRun(r) \/ Send(r)
  PROVE  ReadWork(r)' + UploadWork(r)' < ReadWork(r) + UploadWork(r) /\ PublishWork(r)' = PublishWork(r)
<1>0. UNCHANGED <<frames, cancelled, tries, results, publish, retries>>
  BY DEF StartRun, Send, uploadVars, publishVars
<1>2. PublishWork(r)' = PublishWork(r)  BY <1>0 DEF PublishWork
<1>s. /\ Attempts \in Nat /\ DecoderShare(r) \in Nat /\ One(r \notin cancelled) \in Nat
      /\ PerFrame(MaxFrame[r] - frames[r]) \in Nat /\ PerQueued(Len(queue[r])) \in Nat
      /\ ReceiverShare(r) \in Nat /\ UploadShare(r) \in Nat /\ SendingShare(r) \in Nat
  BY Shares, Weights
<1>w. /\ ReadWork(r) = PerFrame(MaxFrame[r] - frames[r]) + SendingShare(r)
                         + DecoderShare(r) + One(r \notin cancelled)
      /\ ReadWork(r)' = PerFrame(MaxFrame[r] - frames[r]) + SendingShare(r)'
                         + DecoderShare(r)' + One(r \notin cancelled)
      /\ UploadWork(r) = PerQueued(Len(queue[r])) + ReceiverShare(r) + UploadShare(r)
      /\ UploadWork(r)' = PerQueued(Len(queue'[r])) + ReceiverShare(r)' + UploadShare(r)'
  BY <1>0, WorkIs, WorkIsNext
<1>3. CASE StartRun(r)
  <2>1. /\ UNCHANGED <<sending, queue>> /\ decoder[r] = "off" /\ decoder'[r] = "on"
        /\ upload[r] = "off" /\ upload'[r] = "select"
        /\ receiver[r] = "none" /\ receiver'[r] = "waiting"
    BY <1>3 DEF StartRun, TypeOK, ThreadType, UploadType, Handshakes, Handshake
  <2>2. /\ DecoderShare(r) = 5 /\ DecoderShare(r)' = 2 /\ UploadShare(r) = 2 /\ UploadShare(r)' = 2 /\ SendingShare(r)' = SendingShare(r)
        /\ ReceiverShare(r) = 0 /\ ReceiverShare(r)' = 2
    BY <2>1 DEF DecoderShare, UploadShare, ReceiverShare, SendingShare
  <2>3. ReadWork(r)' + UploadWork(r)' < ReadWork(r) + UploadWork(r)  BY ONLY <1>s, <1>w, <2>1, <2>2
  <2>. QED  BY <1>2, <2>3
<1>4. CASE Send(r)
  <2>1. /\ SendingShare(r) = 2 * Attempts + 6 /\ SendingShare(r)' = 0 /\ UNCHANGED <<decoder, receiver, upload>>
        /\ queue'[r] = Append(queue[r], frames[r] - 1) /\ frames[r] - 1 \in Frame
    BY <1>4 DEF Send, SendingShare, Enqueue, uploadVars, TypeOK, ThreadType, Handshakes, Handshake, Frame
  <2>2. Len(queue'[r]) = Len(queue[r]) + 1 /\ Len(queue[r]) \in Nat
    BY <2>1, Channels DEF TypeOK, ThreadType
  <2>3. PerQueued(Len(queue[r]) + 1) = PerQueued(Len(queue[r])) + 2 * Attempts + 5
    BY <2>2, Weights
  <2>4. DecoderShare(r)' = DecoderShare(r) /\ UploadShare(r)' = UploadShare(r)
        /\ ReceiverShare(r)' = ReceiverShare(r)
    BY <1>0, <2>1 DEF DecoderShare, UploadShare, ReceiverShare
  <2>5. UploadWork(r)' = UploadWork(r) + 2 * Attempts + 5
    BY ONLY <1>s, <1>w, <2>2, <2>3, <2>4
  <2>6. ReadWork(r)' = ReadWork(r) - (2 * Attempts + 6)
    BY ONLY <1>s, <1>w, <2>1, <2>4
  <2>7. ReadWork(r) \in Nat /\ UploadWork(r) \in Nat  BY WorkNatural
  <2>8. ReadWork(r)' + UploadWork(r)' = ReadWork(r) + UploadWork(r) - 1
    BY ONLY <1>s, <2>5, <2>6, <2>7, SMTT(30)
  <2>9. ReadWork(r)' + UploadWork(r)' < ReadWork(r) + UploadWork(r)
    BY ONLY <2>7, <2>8
  <2>. QED  BY <1>2, <2>9
<1>. QED  BY <1>3, <1>4

\* The blocking thread and the upload task, but for the hand-over to the publish task.
LEMMA UploadingShrinks ==
  ASSUME TypeOK, Handshakes, NEW r \in Run,
         \/ Take(r) \/ Hear(r) \/ Collect(r) \/ Finish(r) \/ ShutDown(r)
         \/ UploadSucceeds(r) \/ UploadFails(r)
  PROVE  ReadWork(r)' = ReadWork(r) /\ UploadWork(r)' < UploadWork(r) /\ PublishWork(r)' = PublishWork(r)
<1>. USE DEF TypeOK, ThreadType, UploadType, Handshakes, Handshake, decoderVars, receiverVars, uploadVars,
             publishVars, Select
<1>0. UNCHANGED <<decoder, frames, sending, cancelled, results, publish, retries>>
  BY DEF Take, Hear, Collect, Finish, ShutDown, UploadSucceeds, UploadFails
<1>1. ReadWork(r)' = ReadWork(r)  BY <1>0 DEF ReadWork
<1>2. PublishWork(r)' = PublishWork(r)  BY <1>0 DEF PublishWork
<1>s. /\ Attempts \in Nat /\ Attempts > 0 /\ Len(queue[r]) \in Nat /\ PerQueued(Len(queue[r])) \in Nat
      /\ ReceiverShare(r) \in Nat /\ UploadShare(r) \in Nat /\ PerQueued(0) = 0
      /\ tries[r] \in Nat /\ tries[r] < Attempts
  <2>1. TypeOK  OBVIOUS
  <2>. QED  BY ONLY <2>1, Shares, Weighed, r \in Run
<1>w. /\ UploadWork(r) = PerQueued(Len(queue[r])) + ReceiverShare(r) + UploadShare(r)
      /\ UploadWork(r)' = PerQueued(Len(queue'[r])) + ReceiverShare(r)' + UploadShare(r)'
  BY WorkIs, WorkIsNext
<1>e. queue'[r] = <<>> => PerQueued(Len(queue'[r])) = 0
  <2>1. Len(<<>>) = 0  OBVIOUS
  <2>. QED  BY <1>s, <2>1
<1>3. CASE Take(r)
  <2>1. UploadShare(r)' = UploadShare(r)  BY <1>3 DEF Take, UploadShare
  <2>2. ReceiverShare(r) = 2  BY <1>3 DEF Take, ReceiverShare
  <2>3. CASE upload[r] = "gone"
    <3>1. queue'[r] = <<>> /\ receiver'[r] = "none"  BY <1>3, <2>3 DEF Take, LeftOver
    <3>2. ReceiverShare(r)' = 0  BY <3>1 DEF ReceiverShare
    <3>3. UploadWork(r)' < UploadWork(r)  BY ONLY <1>s, <1>w, <1>e, <2>1, <2>2, <3>1, <3>2
    <3>. QED  BY <1>1, <1>2, <3>3
  <2>4. CASE upload[r] # "gone"
    <3>1. queue[r] # <<>> /\ queue'[r] = Tail(queue[r]) /\ receiver'[r] = "holding"
      BY <1>3, <2>4 DEF Take, LeftOver
    <3>2. ReceiverShare(r)' = 2 * Attempts + 5  BY <3>1 DEF ReceiverShare
    <3>3. Len(queue'[r]) \in Nat /\ Len(queue[r]) = Len(queue'[r]) + 1
      <4>1. queue[r] \in Seq(Frame)  OBVIOUS
      <4>. QED  BY ONLY <3>1, <4>1, Channels
    <3>4. PerQueued(Len(queue[r])) = PerQueued(Len(queue'[r])) + 2 * Attempts + 5
          /\ PerQueued(Len(queue'[r])) \in Nat
      BY ONLY <3>3, Weights
    <3>5. UploadWork(r)' < UploadWork(r)  BY ONLY <1>s, <1>w, <2>1, <2>2, <3>2, <3>4
    <3>. QED  BY <1>1, <1>2, <3>5
  <2>. QED  BY <2>3, <2>4
<1>4. CASE Hear(r)
  <2>1. UNCHANGED <<queue, upload, tries>> /\ receiver[r] = "waiting" /\ receiver'[r] \in {"none", "closed"}
    BY <1>4 DEF Hear
  <2>2. UploadShare(r)' = UploadShare(r) /\ ReceiverShare(r) = 2 /\ ReceiverShare(r)' \in 0..1
    BY <2>1 DEF UploadShare, ReceiverShare
  <2>3. UploadWork(r)' < UploadWork(r)  BY ONLY <1>s, <1>w, <2>1, <2>2
  <2>. QED  BY <1>1, <1>2, <2>3
<1>5. CASE Collect(r)
  <2>1. /\ UNCHANGED <<queue, tries>> /\ receiver[r] = "holding" /\ receiver'[r] = "none"
        /\ upload[r] = "select" /\ upload'[r] = "put"
    BY <1>5 DEF Collect
  <2>2. /\ UploadShare(r) = 2 /\ UploadShare(r)' = 2 * Attempts + 6 - tries[r]
        /\ ReceiverShare(r) = 2 * Attempts + 5 /\ ReceiverShare(r)' = 0
    BY <2>1 DEF UploadShare, ReceiverShare
  <2>3. UploadWork(r)' < UploadWork(r)  BY ONLY <1>s, <1>w, <2>1, <2>2
  <2>. QED  BY <1>1, <1>2, <2>3
<1>6. CASE Finish(r)
  <2>1. /\ UNCHANGED queue /\ receiver'[r] = "none" /\ upload[r] = "select" /\ upload'[r] = "gone"
    BY <1>6 DEF Finish
  <2>2. UploadShare(r) = 2 /\ UploadShare(r)' = 0 /\ ReceiverShare(r)' = 0
    BY <2>1 DEF UploadShare, ReceiverShare
  <2>3. UploadWork(r)' < UploadWork(r)  BY ONLY <1>s, <1>w, <2>1, <2>2
  <2>. QED  BY <1>1, <1>2, <2>3
<1>7. CASE ShutDown(r)
  <2>1. /\ queue'[r] = <<>> \/ queue'[r] = queue[r]
        /\ receiver'[r] = "none" \/ receiver'[r] = receiver[r]
        /\ upload[r] = "select" /\ upload'[r] = "gone"
    BY <1>7 DEF ShutDown, LeftOver
  <2>2. /\ UploadShare(r) = 2 /\ UploadShare(r)' = 0
        /\ ReceiverShare(r)' = 0 \/ ReceiverShare(r)' = ReceiverShare(r)
    BY <2>1 DEF UploadShare, ReceiverShare
  <2>3. PerQueued(Len(queue'[r])) = 0 \/ PerQueued(Len(queue'[r])) = PerQueued(Len(queue[r]))
    BY <1>e, <2>1
  <2>4. UploadWork(r)' < UploadWork(r)  BY ONLY <1>s, <1>w, <2>2, <2>3
  <2>. QED  BY <1>1, <1>2, <2>4
<1>8. CASE UploadSucceeds(r)
  <2>1. UNCHANGED <<queue, receiver, tries>> /\ upload[r] = "put" /\ upload'[r] = "forward"
    BY <1>8 DEF UploadSucceeds
  <2>2. /\ UploadShare(r) = 2 * Attempts + 6 - tries[r] /\ UploadShare(r)' = Attempts + 6
        /\ ReceiverShare(r)' = ReceiverShare(r)
    BY <2>1 DEF UploadShare, ReceiverShare
  <2>3. UploadWork(r)' < UploadWork(r)  BY ONLY <1>s, <1>w, <2>1, <2>2
  <2>. QED  BY <1>1, <1>2, <2>3
<1>9. CASE UploadFails(r)
  <2>1. CASE tries[r] + 1 < Attempts
    <3>1. UNCHANGED <<queue, receiver, upload>> /\ upload[r] = "put" /\ tries'[r] = tries[r] + 1
      BY <1>9, <2>1 DEF UploadFails
    <3>2. /\ UploadShare(r) = 2 * Attempts + 6 - tries[r] /\ UploadShare(r)' = 2 * Attempts + 6 - (tries[r] + 1)
          /\ ReceiverShare(r)' = ReceiverShare(r)
      BY <3>1 DEF UploadShare, ReceiverShare
    <3>3. UploadWork(r)' < UploadWork(r)  BY ONLY <1>s, <1>w, <3>1, <3>2, SMTT(30)
    <3>. QED  BY <1>1, <1>2, <3>3
  <2>2. CASE ~(tries[r] + 1 < Attempts)
    <3>1. /\ UNCHANGED queue /\ upload[r] = "put" /\ upload'[r] = "select" /\ receiver'[r] = "waiting"
      BY <1>9, <2>2 DEF UploadFails, Abandon
    <3>2. /\ UploadShare(r) = 2 * Attempts + 6 - tries[r] /\ UploadShare(r)' = 2 /\ ReceiverShare(r)' = 2
      BY <3>1 DEF UploadShare, ReceiverShare
    <3>3. UploadWork(r)' < UploadWork(r)  BY ONLY <1>s, <1>w, <3>1, <3>2, SMTT(30)
    <3>. QED  BY <1>1, <1>2, <3>3
  <2>. QED  BY <2>1, <2>2
<1>. QED  BY <1>3, <1>4, <1>5, <1>6, <1>7, <1>8, <1>9

\* The publish task, and the hand-over to it.
LEMMA PublishingShrinks ==
  ASSUME TypeOK, Handshakes, NEW r \in Run,
         Forward(r) \/ StartPublish(r) \/ PublishSucceeds(r) \/ PublishFails(r)
  PROVE  ReadWork(r)' = ReadWork(r) /\ UploadWork(r)' + PublishWork(r)' < UploadWork(r) + PublishWork(r)
<1>. USE DEF TypeOK, ThreadType, UploadType, PublishType, Handshakes, Handshake, decoderVars, receiverVars,
             uploadVars, publishVars, Select
<1>0. UNCHANGED <<decoder, frames, sending, cancelled, queue>>
  BY DEF Forward, StartPublish, PublishSucceeds, PublishFails
<1>1. ReadWork(r)' = ReadWork(r)  BY <1>0 DEF ReadWork
<1>s. /\ Attempts \in Nat /\ Attempts > 0 /\ Len(queue[r]) \in Nat /\ PerQueued(Len(queue[r])) \in Nat
      /\ ReceiverShare(r) \in Nat /\ UploadShare(r) \in Nat /\ PublishShare(r) \in Nat
      /\ Len(results[r]) \in Nat /\ PerResult(Len(results[r])) \in Nat
      /\ retries[r] \in Nat /\ retries[r] < Attempts
  <2>1. TypeOK  OBVIOUS
  <2>. QED  BY ONLY <2>1, Shares, Weighed, r \in Run
<1>n. UploadWork(r) \in Nat /\ PublishWork(r) \in Nat  BY WorkNatural
<1>w. /\ UploadWork(r) = PerQueued(Len(queue[r])) + ReceiverShare(r) + UploadShare(r)
      /\ UploadWork(r)' = PerQueued(Len(queue[r])) + ReceiverShare(r)' + UploadShare(r)'
      /\ PublishWork(r) = PerResult(Len(results[r])) + PublishShare(r)
      /\ PublishWork(r)' = PerResult(Len(results'[r])) + PublishShare(r)'
  BY <1>0, WorkIs, WorkIsNext
<1>2. CASE Forward(r)
  <2>1. /\ upload[r] = "forward" /\ upload'[r] = "select" /\ receiver[r] = "none" /\ receiver'[r] = "waiting"
        /\ results'[r] = Append(results[r], hand[r]) /\ hand[r] \in Frame /\ UNCHANGED <<publish, retries>>
    BY <1>2 DEF Forward, Enqueue
  <2>2. /\ UploadShare(r) = Attempts + 6 /\ UploadShare(r)' = 2 /\ ReceiverShare(r) = 0 /\ ReceiverShare(r)' = 2
        /\ PublishShare(r)' = PublishShare(r)
    BY <2>1 DEF UploadShare, ReceiverShare, PublishShare
  <2>3. Len(results'[r]) = Len(results[r]) + 1
    <3>1. results[r] \in Seq(Frame)  OBVIOUS
    <3>. QED  BY ONLY <2>1, <3>1, Channels
  <2>4. PerResult(Len(results'[r])) = PerResult(Len(results[r])) + Attempts + 1
    BY ONLY <1>s, <2>3, Weights
  <2>5. UploadWork(r)' = UploadWork(r) - (Attempts + 2)  BY ONLY <1>s, <1>w, <2>2
  <2>6. PublishWork(r)' = PublishWork(r) + Attempts + 1  BY ONLY <1>s, <1>w, <2>2, <2>4
  <2>7. UploadWork(r)' + PublishWork(r)' = UploadWork(r) + PublishWork(r) - 1
    BY ONLY <1>s, <1>n, <2>5, <2>6
  <2>8. UploadWork(r)' + PublishWork(r)' < UploadWork(r) + PublishWork(r)  BY ONLY <1>n, <2>7
  <2>. QED  BY <1>1, <2>8
<1>3. ASSUME UNCHANGED <<receiver, upload, tries>>, PublishWork(r)' < PublishWork(r), PublishWork(r)' \in Nat
      PROVE  UploadWork(r)' + PublishWork(r)' < UploadWork(r) + PublishWork(r)
  <2>1. UploadWork(r)' = UploadWork(r)  BY <1>0, <1>3 DEF UploadWork
  <2>. QED  BY ONLY <1>n, <1>3, <2>1
<1>4. CASE StartPublish(r)
  <2>1. /\ results[r] # <<>> /\ publish[r] = None /\ publish'[r] = Head(results[r]) /\ results'[r] = Tail(results[r])
        /\ UNCHANGED <<receiver, upload, tries, retries>>
    BY <1>4 DEF StartPublish
  <2>2. Len(results'[r]) \in Nat /\ Len(results[r]) = Len(results'[r]) + 1 /\ Head(results[r]) \in Frame
    <3>1. results[r] \in Seq(Frame)  OBVIOUS
    <3>. QED  BY ONLY <2>1, <3>1, Channels
  <2>3. /\ PerResult(Len(results[r])) = PerResult(Len(results'[r])) + Attempts + 1
        /\ PerResult(Len(results'[r])) \in Nat
    BY ONLY <2>2, Weights
  <2>4. PublishShare(r) = 0 /\ PublishShare(r)' = Attempts - retries[r]
    BY <2>1, <2>2 DEF PublishShare, Frame, None
  <2>5. PublishWork(r)' < PublishWork(r) /\ PublishWork(r)' \in Nat  BY ONLY <1>s, <1>w, <2>3, <2>4, SMTT(30)
  <2>. QED  BY <1>1, <1>3, <2>1, <2>5
<1>5. CASE PublishSucceeds(r) \/ PublishFails(r)
  <2>1. publish[r] # None /\ UNCHANGED <<receiver, upload, tries, results>>
    BY <1>5 DEF PublishSucceeds, PublishFails
  <2>2. \/ publish'[r] = None
        \/ publish'[r] = publish[r] /\ retries'[r] = retries[r] + 1 /\ retries[r] + 1 < Attempts
    <3>1. CASE PublishSucceeds(r)  BY <3>1 DEF PublishSucceeds, NextResult
    <3>2. CASE PublishFails(r)
      <4>1. CASE retries[r] + 1 < Attempts  BY <3>2, <4>1 DEF PublishFails
      <4>2. CASE ~(retries[r] + 1 < Attempts)  BY <3>2, <4>2 DEF PublishFails, NextResult
      <4>. QED  BY <4>1, <4>2
    <3>. QED  BY <1>5, <3>1, <3>2
  <2>3. PublishShare(r) = Attempts - retries[r]  BY <2>1 DEF PublishShare
  <2>4. ASSUME publish'[r] = None PROVE PublishWork(r)' < PublishWork(r) /\ PublishWork(r)' \in Nat
    <3>1. PublishShare(r)' = 0  BY <2>4 DEF PublishShare
    <3>. QED  BY ONLY <1>s, <1>w, <2>1, <2>3, <3>1
  <2>5. ASSUME publish'[r] = publish[r], retries'[r] = retries[r] + 1, retries[r] + 1 < Attempts
        PROVE  PublishWork(r)' < PublishWork(r) /\ PublishWork(r)' \in Nat
    <3>1. PublishShare(r)' = Attempts - (retries[r] + 1)  BY ONLY <2>1, <2>5 DEF PublishShare
    <3>2. PublishShare(r)' \in Nat /\ PublishShare(r)' < PublishShare(r)
      BY ONLY <1>s, <2>3, <2>5, <3>1
    <3>3. PublishWork(r) = PerResult(Len(results[r])) + PublishShare(r)
          /\ PublishWork(r)' = PerResult(Len(results[r])) + PublishShare(r)'
      BY <1>w, <2>1
    <3>. QED  BY ONLY <1>s, <3>2, <3>3
  <2>6. PublishWork(r)' < PublishWork(r) /\ PublishWork(r)' \in Nat  BY ONLY <2>2, <2>4, <2>5
  <2>. QED  BY <1>1, <1>3, <2>1, <2>6
<1>. QED  BY <1>2, <1>4, <1>5

\* Each step of a run leaves less to do in it, and nothing changes in the others.
LEMMA StepShrinks ==
  ASSUME TypeOK, Handshakes, NEW r \in Run, Step(r),
         ReadWork(r)' \in Nat, UploadWork(r)' \in Nat, PublishWork(r)' \in Nat
  PROVE  /\ Work(r)' \in Nat /\ Work(r)' < Work(r)
         /\ \A q \in Run \ {r} : Work(q)' = Work(q)
<1>1. ASSUME NEW q \in Run \ {r} PROVE Work(q)' = Work(q)
  <2>1. UNCHANGED <<decoder[q], frames[q], sending[q], q \in cancelled, queue[q], receiver[q], upload[q],
                    tries[q], results[q], publish[q], retries[q]>>
    BY OthersStill
  <2>2. ReadWork(q)' = ReadWork(q)  BY <2>1 DEF ReadWork, One
  <2>3. UploadWork(q)' = UploadWork(q)  BY <2>1 DEF UploadWork
  <2>4. PublishWork(q)' = PublishWork(q)  BY <2>1 DEF PublishWork
  <2>. QED  BY <2>2, <2>3, <2>4 DEF Work
<1>n. ReadWork(r) \in Nat /\ UploadWork(r) \in Nat /\ PublishWork(r) \in Nat  BY WorkNatural
<1>m. ReadWork(r)' \in Nat /\ UploadWork(r)' \in Nat /\ PublishWork(r)' \in Nat  OBVIOUS
<1>2. \/ ReadWork(r)' < ReadWork(r) /\ UploadWork(r)' = UploadWork(r) /\ PublishWork(r)' = PublishWork(r)
      \/ ReadWork(r)' + UploadWork(r)' < ReadWork(r) + UploadWork(r) /\ PublishWork(r)' = PublishWork(r)
      \/ ReadWork(r)' = ReadWork(r) /\ UploadWork(r)' < UploadWork(r) /\ PublishWork(r)' = PublishWork(r)
      \/ ReadWork(r)' = ReadWork(r) /\ UploadWork(r)' + PublishWork(r)' < UploadWork(r) + PublishWork(r)
  BY ReadingShrinks, SendingShrinks, UploadingShrinks, PublishingShrinks
     DEF Step, DecoderStep, ReceiverStep, UploadStep, PublishStep
<1>3. ReadWork(r)' + UploadWork(r)' + PublishWork(r)' < ReadWork(r) + UploadWork(r) + PublishWork(r)
  BY ONLY <1>n, <1>m, <1>2
<1>. QED  BY <1>1, <1>m, <1>3 DEF Work

\* Every step, of whichever thread or task, leaves less to do: no retry, no wait and no failure
\* keeps a run busy for ever.
THEOREM EveryStepIsProgress == Spec => WorkShrinks
<1> DEFINE Progress == \E r \in Run : /\ Work(r)' \in Nat /\ Work(r)' < Work(r)
                                      /\ \A q \in Run \ {r} : Work(q)' = Work(q)
<1> DEFINE Natural == \A r \in Run : ReadWork(r) \in Nat /\ UploadWork(r) \in Nat /\ PublishWork(r) \in Nat
<1>2. TypeOK => Natural  BY WorkNatural
<1>1. TypeOK /\ Natural' /\ Handshakes /\ [Next]_vars => [Progress]_vars
  <2>. SUFFICES ASSUME TypeOK, Natural', Handshakes, Next PROVE Progress
    OBVIOUS
  <2>1. PICK r \in Run : Step(r)  BY DEF Next, Step
  <2>. QED  BY <2>1, StepShrinks
<1>. HIDE DEF Natural
<1>. QED  BY <1>1, <1>2, IndInv, PTL DEF Spec, IInv, WorkShrinks
=============================================================================
