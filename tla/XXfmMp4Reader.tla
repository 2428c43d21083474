---------------------------- MODULE XXfmMp4Reader ----------------------------
(***************************************************************************)
(* The reader of C/ffmpeg/XXfmMp4Reader.c: next reads a packet, gives it   *)
(* to the decoder of its stream and returns one decoded frame, seek moves  *)
(* to a key frame.  A decoder of libavcodec holds back some frames; next   *)
(* takes one frame for one packet.  A frame is the position of its packet. *)
(***************************************************************************)
EXTENDS Integers, Sequences, FiniteSets

CONSTANTS
  File,       \* the packets: [stream |-> "V", "A" or "Other", key |-> BOOLEAN]
  MaxDelay,   \* bound: frames a decoder holds back
  MaxSeek     \* bound: calls of seek

VARIABLES
  handle,     \* "None", "Open", or "Crashed": a call reached a decoder that is NULL
  needDecode,
  delay,      \* what the two decoders hold back
  position,   \* packets read of the file
  codec,      \* frames inside each decoder
  ret, frame, \* what the last call returned, and the frame it filled
  seeks,      \* calls of seek
  since,      \* positions given to each decoder after the last seek, in order
  given       \* frames of each stream that were returned after the last seek

vars == <<handle, needDecode, delay, position, codec, ret, frame, seeks, since, given>>

Stream == {"V", "A"}
NoFrame == [stream |-> "None", of |-> 0, isKey |-> FALSE]
Nothing == [s \in Stream |-> <<>>]

Init ==
  /\ handle = "None" /\ needDecode = FALSE /\ delay = [s \in Stream |-> 0]
  /\ position = 0 /\ codec = Nothing /\ ret = "None" /\ frame = NoFrame
  /\ seeks = 0 /\ since = Nothing /\ given = Nothing

\* Both streams must be there and, if frames are to be decoded, both decoders open.
create ==
  /\ handle = "None"
  /\ \A s \in Stream : \E k \in DOMAIN File : File[k].stream = s
  /\ handle' = "Open"
  /\ needDecode' \in BOOLEAN /\ delay' \in [Stream -> 0..MaxDelay]
  /\ UNCHANGED <<position, codec, ret, frame, seeks, since, given>>

free ==
  /\ handle = "Open"
  /\ handle' = "None"
  /\ position' = 0 /\ codec' = Nothing /\ ret' = "None" /\ frame' = NoFrame
  /\ since' = Nothing /\ given' = Nothing
  /\ UNCHANGED <<needDecode, delay, seeks>>

(***************************************************************************)
(* next                                                                    *)
(***************************************************************************)
endOfFile ==
  /\ handle = "Open" /\ position = Len(File)
  /\ ret' = "EndOfFile"
  /\ UNCHANGED <<handle, needDecode, delay, position, codec, frame, seeks, since, given>>

\* av_read_frame: the packet is read whatever becomes of it.
readFrame(s) ==
  /\ handle = "Open" /\ position < Len(File)
  /\ position' = position + 1
  /\ File[position'].stream = s
  /\ UNCHANGED <<needDecode, delay, seeks>>

otherStream ==
  /\ readFrame("Other")
  /\ ret' = "Error"
  /\ UNCHANGED <<handle, codec, frame, since, given>>

\* Without needDecode there is no decoder to send to.
noDecoder(s) ==
  /\ readFrame(s) /\ ~needDecode
  /\ handle' = "Crashed"
  /\ UNCHANGED <<codec, ret, frame, since, given>>

\* avcodec_send_packet refuses the packet; an error of avcodec_receive_frame that is not EAGAIN
\* is taken for the same: the packet's frame is lost and no other.
refused(s) ==
  /\ readFrame(s) /\ needDecode
  /\ ret' = "Error"
  /\ UNCHANGED <<handle, codec, frame, since, given>>

sendPacket(s) ==
  /\ readFrame(s) /\ needDecode
  /\ since' = [since EXCEPT ![s] = Append(@, position')]
  /\ UNCHANGED handle

\* avcodec_receive_frame has EAGAIN while the decoder holds back the frame.
nextPacket(s) ==
  /\ sendPacket(s) /\ Len(codec[s]) < delay[s]
  /\ codec' = [codec EXCEPT ![s] = Append(@, position')]
  /\ ret' = "Next"
  /\ UNCHANGED <<frame, given>>

\* One frame is taken.  The key flag is the packet's.
receiveFrame(s) ==
  /\ sendPacket(s) /\ Len(codec[s]) >= delay[s]
  /\ LET all == Append(codec[s], position') IN
     /\ codec' = [codec EXCEPT ![s] = Tail(all)]
     /\ frame' = [stream |-> s, of |-> Head(all), isKey |-> s = "V" /\ File[position'].key]
     /\ given' = [given EXCEPT ![s] = Append(@, Head(all))]
  /\ ret' = "Frame"

(***************************************************************************)
(* seek                                                                    *)
(***************************************************************************)

\* AVSEEK_FLAG_BACKWARD: the last key frame of the video that is not after k, if any.
keyFrames(k) == {j \in 1..k : File[j].stream = "V" /\ File[j].key}
seekFrame(k) ==
  position' = IF keyFrames(k) = {} THEN position
              ELSE (CHOOSE j \in keyFrames(k) : \A i \in keyFrames(k) : i <= j) - 1

\* Variant: no decoder is flushed.
flushBuffers_None == UNCHANGED codec
\* avcodec_flush_buffers, of the video's decoder alone.
flushBuffers == codec' = [codec EXCEPT !["V"] = <<>>]

seek(k) ==
  /\ handle = "Open" /\ seeks < MaxSeek
  /\ seeks' = seeks + 1
  /\ seekFrame(k)
  /\ IF needDecode
     THEN flushBuffers /\ UNCHANGED handle /\ since' = Nothing /\ given' = Nothing
     ELSE handle' = "Crashed" /\ UNCHANGED <<codec, since, given>>
  /\ ret' = "Sought"
  /\ UNCHANGED <<needDecode, delay, frame>>

Next ==
  \/ create \/ free \/ endOfFile \/ otherStream
  \/ \E s \in Stream : noDecoder(s) \/ refused(s) \/ nextPacket(s) \/ receiveFrame(s)
  \/ \E k \in DOMAIN File : seek(k)

Spec == Init /\ [][Next]_vars

(***************************************************************************)
(* Properties                                                              *)
(***************************************************************************)

\* What was decoded before the seek and comes out after it.
stale(s) == Len(given[s]) + Len(codec[s]) - Len(since[s])

\* Frames come out in the order of their packets, each once: what was returned and what
\* the decoder still holds is what it was given since the seek, behind what it held then.
InOrder ==
  \A s \in Stream :
    /\ stale(s) >= 0
    /\ LET all == given[s] \o codec[s] IN SubSeq(all, stale(s) + 1, Len(all)) = since[s]

\* A seek flushes the video's decoder: no picture of before the seek is returned after it.
\* The decoder of the audio keeps its frames, so up to its delay of them are.
AfterSeek == stale("V") = 0 /\ stale("A") <= delay["A"]

\* At the end of the file nothing is drained: the last frames of a stream, as many as its
\* decoder holds back, are never returned.
TailHeldBack ==
  ret = "EndOfFile" => \A s \in Stream : Len(codec[s]) <= delay[s]

\* The key flag is the one of the packet just read; it is the one of the frame when the
\* decoder holds nothing back.
KeyOfFrame ==
  ret = "Frame" /\ frame.stream = "V" /\ delay["V"] = 0
    => frame.isKey = File[frame.of].key

\* What the reader promises of the frames it returns.
ReaderSound == InOrder /\ AfterSeek /\ TailHeldBack /\ KeyOfFrame
=============================================================================
