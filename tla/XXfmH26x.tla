------------------------------ MODULE XXfmH26x ------------------------------
(***************************************************************************)
(* The software codecs of C/ffmpeg/XXfmH26xEncoder.c and XXfmH26xDecoder.c *)
(* at the two ends of a channel that keeps the order: one call of encode   *)
(* for a picture, one call of decode for a packet.  Either codec may hold  *)
(* pictures back; a call that gives nothing then returns an error although *)
(* it has taken its input.  A picture is its number.                       *)
(***************************************************************************)
EXTENDS Integers, Sequences

CONSTANTS MaxPicture, MaxDelay   \* bounds: pictures encoded, pictures a codec holds back

VARIABLES
  encoder, decoder,    \* the handles: "None", "Open", or "Freed" for one that is left to leak
  format,              \* pix_fmt of the encoder
  encDelay, decDelay,  \* what the codecs hold back
  encHeld, decHeld,    \* pictures inside them
  channel,             \* packets on their way
  pictures,            \* pictures encode was called with
  encRet, decRet,      \* what the last calls returned
  output,              \* pictures decode has given
  dropped              \* pictures that an error of a codec took

ends == <<encoder, decoder, format, encDelay, decDelay>>
vars == <<ends, encHeld, decHeld, channel, pictures, encRet, decRet, output, dropped>>

Init ==
  /\ encoder = "None" /\ decoder = "None" /\ format = "None"
  /\ encDelay = 0 /\ decDelay = 0
  /\ encHeld = <<>> /\ decHeld = <<>> /\ channel = <<>> /\ pictures = 0
  /\ encRet = "None" /\ decRet = "None" /\ output = <<>> /\ dropped = {}

(***************************************************************************)
(* The encoder                                                             *)
(***************************************************************************)

\* allocHandle; a format it does not know makes no encoder.
createEncoder(f) ==
  /\ encoder = "None" /\ f \in {"Rgb24", "Yuv420"}
  /\ encoder' = "Open" /\ format' = f /\ encDelay' \in 0..MaxDelay
  /\ UNCHANGED <<decoder, decDelay, encHeld, decHeld, channel, pictures,
                 encRet, decRet, output, dropped>>

\* toFrame and avcodec_send_frame: RGB is accepted by create and refused here.
sendFrame ==
  /\ encoder = "Open" /\ pictures < MaxPicture
  /\ pictures' = pictures + 1
  /\ UNCHANGED <<ends, decHeld, decRet, output>>

encodeFails ==
  /\ sendFrame
  /\ dropped' = dropped \cup {pictures'}
  /\ encRet' = "Error"
  /\ UNCHANGED <<encHeld, channel>>

\* avcodec_receive_packet has EAGAIN.
encodeAgain ==
  /\ sendFrame /\ format = "Yuv420" /\ Len(encHeld) < encDelay
  /\ encHeld' = Append(encHeld, pictures')
  /\ encRet' = "Error"
  /\ UNCHANGED <<channel, dropped>>

\* Variant: the packet carries the picture of this call.
packetOf_This(held) == held[Len(held)]
packetOf(held) == Head(held)

encode ==
  /\ sendFrame /\ format = "Yuv420" /\ Len(encHeld) >= encDelay
  /\ LET held == Append(encHeld, pictures') IN
     channel' = Append(channel, packetOf(held)) /\ encHeld' = Tail(held)
  /\ encRet' = "Ok"
  /\ UNCHANGED dropped

\* xxfmH26xEncoder_free drops what the codec holds and leaves the caller's handle as it is.
freeEncoder ==
  /\ encoder = "Open"
  /\ encoder' = "Freed"
  /\ dropped' = dropped \cup {encHeld[k] : k \in DOMAIN encHeld}
  /\ encHeld' = <<>>
  /\ UNCHANGED <<decoder, format, encDelay, decDelay, decHeld, channel, pictures,
                 encRet, decRet, output>>

(***************************************************************************)
(* The decoder                                                             *)
(***************************************************************************)
createDecoder ==
  /\ decoder = "None"
  /\ decoder' = "Open" /\ decDelay' \in 0..MaxDelay
  /\ UNCHANGED <<encoder, format, encDelay, encHeld, decHeld, channel, pictures,
                 encRet, decRet, output, dropped>>

\* avcodec_send_packet.
sendPacket ==
  /\ decoder = "Open" /\ channel # <<>>
  /\ channel' = Tail(channel)
  /\ UNCHANGED <<ends, encHeld, pictures, encRet>>

decodeFails ==
  /\ sendPacket
  /\ dropped' = dropped \cup {Head(channel)}
  /\ decRet' = "Error"
  /\ UNCHANGED <<decHeld, output>>

\* avcodec_receive_frame has EAGAIN, an error like any other.
decodeAgain ==
  /\ sendPacket /\ Len(decHeld) < decDelay
  /\ decHeld' = Append(decHeld, Head(channel))
  /\ decRet' = "Error"
  /\ UNCHANGED <<output, dropped>>

decode ==
  /\ sendPacket /\ Len(decHeld) >= decDelay
  /\ LET held == Append(decHeld, Head(channel)) IN
     output' = Append(output, Head(held)) /\ decHeld' = Tail(held)
  /\ decRet' = "Ok"
  /\ UNCHANGED dropped

Next ==
  \/ \E f \in {"Rgb24", "Yuv420"} : createEncoder(f)
  \/ encodeFails \/ encodeAgain \/ encode \/ freeEncoder
  \/ createDecoder \/ decodeFails \/ decodeAgain \/ decode

Spec == Init /\ [][Next]_vars

(***************************************************************************)
(* Properties                                                              *)
(***************************************************************************)

\* Pictures come out in the order they went in, each at most once, and none is missing but
\* those a codec failed on: an error of encode or decode that was EAGAIN has lost nothing,
\* its picture comes out of a later call.
LoopInOrder ==
  LET all == output \o decHeld \o channel \o encHeld IN
  /\ \A i, j \in DOMAIN all : i < j => all[i] < all[j]
  /\ {all[i] : i \in DOMAIN all} \cup dropped = 1..pictures
=============================================================================
