---------------------------- MODULE XXfmRecorderC ----------------------------
(***************************************************************************)
(* The desktop recorder of C/ffmpeg/XXfmRecorder.c.  start runs the loop   *)
(* on the thread that calls it, stop comes from another thread, or from a  *)
(* callback of the loop.  Two plain flags connect them.                    *)
(***************************************************************************)
EXTENDS Integers

CONSTANTS MaxTake   \* bound: calls of start

VARIABLES
  pc,             \* the thread of start: "None" without a handle, "Idle", or where it is
  isRunning, isInterruptionRequested,
  decoded,        \* the decoder has a frame for the packet that was sent
  result,         \* of this take
  stopper,        \* stop: "Idle", or "Seen" after it has read isRunning
  takes,          \* calls of start
  asked,          \* a stop of this take has seen it running
  leftover        \* the flag was set by nobody, or for a take that was over

flags == <<isRunning, isInterruptionRequested>>
vars == <<pc, flags, decoded, result, stopper, takes, asked, leftover>>

Init ==
  /\ pc = "None" /\ isRunning = FALSE /\ isInterruptionRequested = FALSE
  /\ decoded = FALSE /\ result = "None" /\ stopper = "Idle" /\ takes = 0
  /\ asked = FALSE /\ leftover = FALSE

\* malloc: the two flags keep what the memory holds.
create ==
  /\ pc = "None"
  /\ pc' = "Idle"
  /\ isRunning' \in BOOLEAN /\ isInterruptionRequested' \in BOOLEAN
  /\ leftover' = isInterruptionRequested'
  /\ UNCHANGED <<decoded, result, stopper, takes, asked>>

\* The owner frees what neither start nor stop is using.
free ==
  /\ pc = "Idle" /\ stopper = "Idle" /\ takes < MaxTake
  /\ pc' = "None" /\ leftover' = FALSE
  /\ UNCHANGED <<flags, decoded, result, stopper, takes, asked>>

(***************************************************************************)
(* start                                                                   *)
(***************************************************************************)
start ==
  /\ pc = "Idle" /\ takes < MaxTake
  /\ takes' = takes + 1
  /\ isRunning' = TRUE
  /\ result' = "Finished" /\ decoded' = FALSE /\ asked' = FALSE
  /\ pc' = "Loop"
  /\ UNCHANGED <<isInterruptionRequested, stopper, leftover>>

goto(label) == pc' = label /\ UNCHANGED <<flags, stopper, takes, asked, leftover>>
failure(r) == result' = r /\ goto("End") /\ UNCHANGED decoded

\* Variant: the loop is left when the flag comes up between two packets only.
loop_Once == isInterruptionRequested /\ decoded
\* The head of the outer loop.
interrupted == isInterruptionRequested

leave == pc = "Loop" /\ interrupted /\ goto("End") /\ UNCHANGED <<decoded, result>>

\* av_read_frame and avcodec_send_packet.
readFrame ==
  /\ pc = "Loop" /\ ~interrupted
  /\ \/ \E r \in {"FailureToReadFrame", "FailureToSendPacket"} : failure(r)
     \/ decoded' = TRUE /\ goto("Receive") /\ UNCHANGED result

\* avcodec_receive_frame: EAGAIN leads back to the head of the outer loop, whether the
\* packet gave a frame (one, bound) or none yet.
tryAgain ==
  /\ pc = "Receive"
  /\ decoded' = FALSE
  /\ goto("Loop") /\ UNCHANGED result

\* A frame is scaled and encoded, and its packet given to gotVideoFunc.  An encoder that
\* asks for more, EAGAIN, fails the take too.
\* The decoder is never drained: AVERROR_EOF, and isFinished with it, does not occur.
receiveFrame ==
  /\ pc = "Receive" /\ decoded
  /\ \/ \E r \in {"FailureToReceiveFrame", "FailureToScale", "FailureToSendFrame",
                  "FailureToReceivePacket"} : failure(r)
     \/ decoded' = FALSE /\ goto("Receive") /\ UNCHANGED result

\* Variant: only isRunning is reset.
clearInterruption_Kept == UNCHANGED isInterruptionRequested
clearInterruption == isInterruptionRequested' = FALSE

endInterruption ==
  /\ pc = "End"
  /\ clearInterruption /\ leftover' = FALSE
  /\ pc' = "Stopping"
  /\ UNCHANGED <<isRunning, decoded, result, stopper, takes, asked>>

endRunning ==
  /\ pc = "Stopping"
  /\ isRunning' = FALSE
  /\ pc' = "Result"
  /\ UNCHANGED <<isInterruptionRequested, decoded, result, stopper, takes, asked, leftover>>

\* resultFunc, and start returns.
resultFunc ==
  /\ pc = "Result"
  /\ pc' = "Idle"
  /\ UNCHANGED <<flags, decoded, result, stopper, takes, asked, leftover>>

(***************************************************************************)
(* stop                                                                    *)
(***************************************************************************)
recording == pc \in {"Loop", "Receive", "End"}

\* A recorder that is not running, or not yet, loses the call.
stop ==
  /\ pc # "None" /\ stopper = "Idle" /\ isRunning
  /\ stopper' = "Seen"
  /\ asked' = (asked \/ recording)
  /\ UNCHANGED <<pc, flags, decoded, result, takes, leftover>>

requestInterruption ==
  /\ stopper = "Seen"
  /\ stopper' = "Idle"
  /\ isInterruptionRequested' = TRUE
  /\ leftover' = (leftover \/ ~asked \/ pc \in {"Stopping", "Result", "Idle"})
  /\ UNCHANGED <<pc, isRunning, decoded, result, takes, asked>>

run == \/ leave \/ readFrame \/ tryAgain \/ receiveFrame
       \/ endInterruption \/ endRunning \/ resultFunc

Next == create \/ free \/ start \/ run \/ stop \/ requestInterruption

\* The loop's calls of ffmpeg return, a decoder gives a finite number of frames for a
\* packet, and a stop that has begun ends.
Fairness == WF_vars(run) /\ WF_vars(requestInterruption)
Spec == Init /\ [][Next]_vars /\ Fairness

(***************************************************************************)
(* Properties                                                              *)
(***************************************************************************)

\* A take that ends without a failure was asked to: by a stop that saw it running, or by
\* a flag that was there before it, from the memory of a new handle or from a stop that
\* wrote it after the take it saw was over.
EndsForAReason == pc = "End" /\ result = "Finished" => asked \/ leftover

\* A stop that has seen the recorder running ends the take it saw.
StopEndsTake == stopper = "Seen" /\ pc \in {"Loop", "Receive"} ~> pc = "Idle"
=============================================================================
