------------------------------- MODULE MCmedia -------------------------------
(***************************************************************************)
(* Eight parts around codecs, frames and their pacing that do not call     *)
(* each other, checked side by side: `unit` says whose behaviours these    *)
(* are, and the variables of the others keep their initial values.         *)
(***************************************************************************)
EXTENDS XXtimestampSyncer, Sequences, FiniteSets

CONSTANTS H264, MaxPicture, MaxVersion, MaxDelay, File, MaxSeek, MaxTake,
          Client, MaxQueue, Frame, Size, MaxSize, MaxAudio, MaxOpen, MaxStart, MaxTick,
          Buffer

VARIABLES
  unit,
  isInited, vps, sps, pps, description, session, pixel, result, given,
  version, picture, invalid,
  handle, needDecode, delay, position, codec, ret, frame, seeks, since, returned,
  encoder, decoder, format, encDelay, decDelay, encHeld, decHeld, channel, pictures,
  encRet, decRet, output, dropped,
  pc, isRunning, isInterruptionRequested, decoded, takeResult, stopper, takes, asked,
  leftover,
  pushing, interrupting, loop, videoOpen, videoLimit, videoAtLimit, videoQueue,
  queueResult, audioCount, polling, wanted, source, sent, taker, pushed, firstKept, opens,
  timer, timing, index, singleShot, isMainThreadBlock, where, returnTo, starts, resumed,
  cancelled, mainQueue, told, stopped, late, wasSingle,
  playing, busy, pusher, control, pending, worker, isStarted, enqueued, due, lost, unsafe

Packet == [stream : {"V", "A", "Other"}, key : BOOLEAN]

\* A frame of the live stream is a name of its own.
ASSUME MediaAssumption ==
  /\ H264 \in BOOLEAN /\ MaxPicture \in Nat \ {0} /\ MaxVersion \in Nat \ {0}
  /\ MaxDelay \in Nat /\ File \in Seq(Packet) /\ MaxSeek \in Nat /\ MaxTake \in Nat
  /\ "None" \notin Client /\ MaxQueue \in Nat \ {0} /\ MaxSize \in Nat \ {0}
  /\ Frame \in Seq(STRING) /\ \A i, j \in DOMAIN Frame : Frame[i] = Frame[j] => i = j
  /\ Size \in [DOMAIN Frame -> Nat]
  /\ MaxAudio \in Nat /\ MaxOpen \in Nat /\ MaxStart \in Nat /\ MaxTick \in Nat
  /\ "none" \notin Buffer

MCPacket(stream, key) == [stream |-> stream, key |-> key]
MCFile == <<MCPacket("V", TRUE), MCPacket("A", FALSE), MCPacket("V", FALSE), MCPacket("A", FALSE),
            MCPacket("Other", FALSE), MCPacket("V", TRUE), MCPacket("A", FALSE), MCPacket("V", FALSE)>>
MCFrame == <<"f1", "f2", "f3", "f4">>
MCSize == <<2, 1, 2, 2>>

dVars == <<isInited, vps, sps, pps, description, session, pixel, result, given,
           version, picture, invalid>>
rVars == <<handle, needDecode, delay, position, codec, ret, frame, seeks, since, returned>>
cVars == <<encoder, decoder, format, encDelay, decDelay, encHeld, decHeld, channel,
           pictures, encRet, decRet, output, dropped>>
tVars == <<pc, isRunning, isInterruptionRequested, decoded, takeResult, stopper, takes,
           asked, leftover>>
pVars == <<pushing, interrupting, loop, videoOpen, videoLimit, videoAtLimit, videoQueue,
           queueResult, audioCount, polling, wanted, source, sent, taker, pushed, firstKept,
           opens>>
mVars == <<timer, timing, index, singleShot, isMainThreadBlock, where, returnTo, starts, resumed,
           cancelled, mainQueue, told, stopped, late, wasSingle>>
aVars == <<playing, busy, pusher, control, pending, worker, isStarted, enqueued, due, lost,
           unsafe>>
sVars == <<now, timeliveRefer, timestampRefer, slept, owed>>

D == INSTANCE XXh26xDecoder
R == INSTANCE XXfmMp4Reader WITH given <- returned
C == INSTANCE XXfmH26x
T == INSTANCE XXfmRecorderC WITH result <- takeResult
P == INSTANCE XXl5StreamPusher
       WITH isRunning <- pushing, isInterruptionRequested <- interrupting, asked <- wanted
M == INSTANCE XXtimer WITH isRunning <- timing, pc <- where
A == INSTANCE XXaudioPlayer WITH isRunning <- playing, returned <- due

MediaInit ==
  /\ unit \in {"XXh26xDecoder", "XXfmMp4Reader", "XXfmH26x", "XXfmRecorderC",
               "XXl5StreamPusher", "XXtimer", "XXaudioPlayer", "XXtimestampSyncer"}
  /\ D!Init /\ R!Init /\ C!Init /\ T!Init /\ P!Init /\ M!Init /\ A!Init /\ Init

MediaNext ==
  /\ UNCHANGED unit
  /\ \/ /\ unit = "XXh26xDecoder" /\ D!Next
        /\ UNCHANGED <<rVars, cVars, tVars, pVars, mVars, aVars, sVars>>
     \/ /\ unit = "XXfmMp4Reader" /\ R!Next
        /\ UNCHANGED <<dVars, cVars, tVars, pVars, mVars, aVars, sVars>>
     \/ /\ unit = "XXfmH26x" /\ C!Next
        /\ UNCHANGED <<dVars, rVars, tVars, pVars, mVars, aVars, sVars>>
     \/ /\ unit = "XXfmRecorderC" /\ T!Next
        /\ UNCHANGED <<dVars, rVars, cVars, pVars, mVars, aVars, sVars>>
     \/ /\ unit = "XXl5StreamPusher" /\ P!Next
        /\ UNCHANGED <<dVars, rVars, cVars, tVars, mVars, aVars, sVars>>
     \/ /\ unit = "XXtimer" /\ M!Next
        /\ UNCHANGED <<dVars, rVars, cVars, tVars, pVars, aVars, sVars>>
     \/ /\ unit = "XXaudioPlayer" /\ A!Next
        /\ UNCHANGED <<dVars, rVars, cVars, tVars, pVars, mVars, sVars>>
     \/ /\ unit = "XXtimestampSyncer" /\ Next
        /\ UNCHANGED <<dVars, rVars, cVars, tVars, pVars, mVars, aVars>>

MediaVars == <<unit, dVars, rVars, cVars, tVars, pVars, mVars, aVars, sVars>>

\* The fairness of each part; the steps it names are disabled where the part does not run.
decoding(step) ==
  unit = "XXh26xDecoder" /\ step /\ UNCHANGED <<unit, rVars, cVars, tVars, pVars, mVars, aVars, sVars>>

MediaFairness ==
  /\ WF_MediaVars(decoding(D!decodeData(D!KeyPacket))) /\ SF_MediaVars(decoding(D!showsPicture))
  /\ T!Fairness /\ P!Fairness /\ M!Fairness /\ A!Fairness

MediaSpec == MediaInit /\ [][MediaNext]_MediaVars /\ MediaFairness

\* A frame or picture that comes out of the mp4 reader or of the software codecs is one that
\* went in, in order and once, across seeks and what a decoder holds back.
FramesSound == R!ReaderSound /\ C!LoopInOrder

\* The hardware decoder (XXh26xDecoder): a picture is of the packet it was asked for, and a
\* decoder that is ready has the session and the parameters its pictures need.
PictureSound == D!TypeOK /\ D!PictureOfPacket /\ D!ReadyToDecode

\* What a client of the live pusher sees of the stream: StreamSound of XXl5StreamPusher.
StreamSound == P!StreamSound

\* A timer's timeouts come in order and once, late handlers apart: TimerSound of XXtimer.
TimerSound == M!TimerSound

\* The desktop recorder's takes end for a reason.
EndsForAReason == T!EndsForAReason

\* The audio player's buffers have one user each, and silence follows a stop: OnePlace and
\* QuietAfterStop of XXaudioPlayer.
OnePlace == A!OnePlace
QuietAfterStop == A!QuietAfterStop

\* A running player's buffers come back, unless they are lost: BuffersComeBack of XXaudioPlayer.
BuffersComeBack == A!BuffersComeBack

\* What must happen does: the hardware decoder comes back after its session was taken away,
\* a take that is stopped ends, a live frame that waits is taken, a timer that runs times
\* out.
Progress == D!Recovers /\ T!StopEndsTake /\ P!Drains /\ M!TimesOut
==============================================================================
