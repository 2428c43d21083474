---------------------------- MODULE XXfmMp4Writer ----------------------------
(***************************************************************************)
(* The mp4 writer of C/ffmpeg/XXfmMp4Writer.c: one handle, used by one     *)
(* thread at a time, as the recorder uses it under its mutex.              *)
(*                                                                         *)
(* A call is a step.  The data of a video packet is abstracted to the set  *)
(* of nalu types splitNalu finds in it; the caller's time stamps are       *)
(* either all milliseconds, increasing on each track, or all 0.            *)
(***************************************************************************)
EXTENDS Integers

CONSTANTS
  VideoData,     \* the sets of nalu types a video packet may hold
  Stamp,         \* milliseconds since the caller's first packet
  FrameRate, SampleRate, FrameSize,  \* frameSize: samples of an aac frame
  VideoDen,      \* time_base.den of the video track once the header is written
  MaxInt,        \* the largest int
  MaxFrames      \* bound on the calls that reach a frame counter

NaluType == {"Unknown", "VPS", "SPS", "PPS", "IFrame", "PFrame"}

ASSUME WriterAssumption ==
  /\ VideoData \subseteq SUBSET NaluType
  /\ Stamp \subseteq Nat
  /\ FrameRate \in Nat \ {0} /\ SampleRate \in Nat \ {0} /\ FrameSize \in Nat \ {0}
  /\ VideoDen \in Nat /\ VideoDen >= FrameRate /\ VideoDen >= 1000
  /\ SampleRate >= 1000 /\ FrameSize * 1000 >= SampleRate
  /\ MaxInt \in Nat /\ MaxFrames \in Nat

VARIABLES
  isOpen, isH264, isInited,                   \* the handle
  videoFrameCount, videoFirstTimestamp,
  audioFrameCount, audioFirstTimestamp,
  file,
  isMsec,     \* whether the caller's time stamps are milliseconds
  lastStamp,  \* the caller's last time stamp of each track, -1 before
  offered,    \* history: the last pts given to the muxer on each track, -1 before
  given       \* history: how many frames of each track, and key frames, the muxer got

writerContext == <<isOpen, isH264, isInited, videoFrameCount, videoFirstTimestamp,
             audioFrameCount, audioFirstTimestamp>>
writerVars == <<writerContext, file, isMsec, lastStamp, offered, given>>

Track == {"video", "audio"}
Given == Track \cup {"key"}
NoData == {"no data"}   \* data NULL and length 0

none == [track \in Track |-> -1]

WriterInit ==
  /\ isOpen = FALSE /\ isH264 = TRUE /\ isInited = FALSE
  /\ videoFrameCount = 0 /\ videoFirstTimestamp = -1
  /\ audioFrameCount = 0 /\ audioFirstTimestamp = -1
  /\ file = "absent" /\ isMsec = FALSE
  /\ lastStamp = none /\ offered = none /\ given = [g \in Given |-> 0]

(***************************************************************************)
(* Arithmetic of int                                                       *)
(***************************************************************************)

wrap(x) == ((x + MaxInt + 1) % (2 * (MaxInt + 1))) - (MaxInt + 1)
quotient(a, b) == IF a >= 0 THEN a \div b ELSE -((-a) \div b)

\* (timestamp - first) * timeBaseDen / 1000, in 64 bits.
msecPts(stamp, first, den) == ((stamp - first) * den) \div 1000

videoIndexPts(index) == quotient(wrap(index * VideoDen), FrameRate)

\* The time base of the audio track is 1/SampleRate once the header is written.
audioIndexPts(index) ==
  wrap(wrap(index * ((FrameSize * 1000) \div SampleRate)) * (SampleRate \div 1000))

(***************************************************************************)
(* The calls                                                               *)
(***************************************************************************)

\* Succeeds or returns NULL; a caller that got a handle keeps it.
create(h264, msec) ==
  /\ ~isOpen
  /\ isOpen' = TRUE /\ isH264' = h264 /\ isInited' = FALSE
  /\ videoFrameCount' = 0 /\ videoFirstTimestamp' = -1
  /\ audioFrameCount' = 0 /\ audioFirstTimestamp' = -1
  /\ file' = "partial" /\ isMsec' = msec
  /\ lastStamp' = none /\ offered' = none /\ given' = [g \in Given |-> 0]

\* The time stamps a caller may pass for the next packet of a track.
nextStamp(track) == IF isMsec THEN {t \in Stamp : t > lastStamp[track]} ELSE {-1}

\* sps, pps and for h265 vps of one packet.
hasParameters(data) == {"SPS", "PPS"} \subseteq data /\ (isH264 \/ "VPS" \in data)

\* Either the writer has its header, or this packet gives it one (initVideoContext).
initVideoContext(data) ==
  IF isInited THEN TRUE ELSE data # NoData /\ hasParameters(data)

\* The nalu that is written, if any: an I frame, or else a P frame.
hasFrame(data, isKeyFrame) ==
  data = NoData \/ (isKeyFrame /\ "IFrame" \in data) \/ "PFrame" \in data

rejectVideo(data, isKeyFrame) ==
  \/ ~isInited /\ ~isKeyFrame
  \/ data = {}                       \* splitNalu found nothing
  \/ ~initVideoContext(data)

\* The packet is refused before it reaches a counter.
videoRejected(data, isKeyFrame) ==
  /\ rejectVideo(data, isKeyFrame)
  /\ UNCHANGED <<writerContext, offered, given>>

\* initVideoContext fails: libav refuses the parameters or the header.
videoInitFailed(data, isKeyFrame) ==
  /\ ~rejectVideo(data, isKeyFrame) /\ ~isInited
  /\ UNCHANGED <<writerContext, offered, given>>

\* The header is written, but the packet has no frame.
videoNoFrame(data, isKeyFrame) ==
  /\ ~rejectVideo(data, isKeyFrame) /\ ~hasFrame(data, isKeyFrame)
  /\ isInited' = TRUE
  /\ UNCHANGED <<isOpen, isH264, videoFrameCount, videoFirstTimestamp, audioFrameCount,
                 audioFirstTimestamp, offered, given>>

\* Variant: the frame is counted only when it was written.
videoFrame_CountWritten(data, isKeyFrame, stamp) ==
  /\ ~rejectVideo(data, isKeyFrame) /\ hasFrame(data, isKeyFrame)
  /\ videoFrameCount < MaxFrames
  /\ isInited' = TRUE
  /\ videoFirstTimestamp' =
       IF isMsec /\ videoFirstTimestamp < 0 THEN stamp ELSE videoFirstTimestamp
  /\ offered' = [offered EXCEPT !["video"] =
       IF isMsec THEN msecPts(stamp, videoFirstTimestamp', VideoDen)
       ELSE videoIndexPts(videoFrameCount)]
  /\ given' = [given EXCEPT !["video"] = @ + 1, !["key"] = IF isKeyFrame THEN @ + 1 ELSE @]
  /\ videoFrameCount' \in {videoFrameCount, videoFrameCount + 1}
  /\ UNCHANGED <<isOpen, isH264, audioFrameCount, audioFirstTimestamp>>

\* The frame is counted, stamped and given to the muxer.  If the muxer refuses
\* it the call fails, and nothing is taken back.
videoFrame(data, isKeyFrame, stamp) ==
  /\ ~rejectVideo(data, isKeyFrame) /\ hasFrame(data, isKeyFrame)
  /\ videoFrameCount < MaxFrames
  /\ isInited' = TRUE
  /\ videoFrameCount' = videoFrameCount + 1
  /\ videoFirstTimestamp' =
       IF isMsec /\ videoFirstTimestamp < 0 THEN stamp ELSE videoFirstTimestamp
  /\ offered' = [offered EXCEPT !["video"] =
       IF isMsec THEN msecPts(stamp, videoFirstTimestamp', VideoDen)
       ELSE videoIndexPts(videoFrameCount)]
  /\ given' = [given EXCEPT !["video"] = @ + 1, !["key"] = IF isKeyFrame THEN @ + 1 ELSE @]
  /\ UNCHANGED <<isOpen, isH264, audioFrameCount, audioFirstTimestamp>>

\* Assumed of the callers, not tested by the code: an empty packet is not flagged a key frame.
\* One that were would pass the test for the header before there is one.
CallerFlags(data, isKeyFrame) == data = NoData => ~isKeyFrame

\* toXXavNaluType knows no vps in h264.
video(data, isKeyFrame) ==
  /\ isOpen /\ CallerFlags(data, isKeyFrame)
  /\ isH264 => "VPS" \notin data
  /\ \E stamp \in nextStamp("video") :
       /\ lastStamp' = [lastStamp EXCEPT !["video"] = stamp]
       /\ \/ videoRejected(data, isKeyFrame) \/ videoInitFailed(data, isKeyFrame)
          \/ videoNoFrame(data, isKeyFrame) \/ videoFrame(data, isKeyFrame, stamp)
  /\ UNCHANGED <<file, isMsec>>

audioRejected ==
  /\ ~isInited
  /\ UNCHANGED <<writerContext, offered, given>>

\* The adts filter fails after the frame was counted.
audioFiltered ==
  /\ isInited /\ audioFrameCount < MaxFrames
  /\ audioFrameCount' = audioFrameCount + 1
  /\ UNCHANGED <<isOpen, isH264, isInited, videoFrameCount, videoFirstTimestamp,
                 audioFirstTimestamp, offered, given>>

\* Variant: the first time stamp is not kept.
audioFrame_NoFirst(stamp) ==
  /\ isInited /\ audioFrameCount < MaxFrames
  /\ audioFrameCount' = audioFrameCount + 1
  /\ audioFirstTimestamp' = IF isMsec THEN stamp ELSE audioFirstTimestamp
  /\ offered' = [offered EXCEPT !["audio"] =
       IF isMsec THEN msecPts(stamp, audioFirstTimestamp', SampleRate)
       ELSE audioIndexPts(audioFrameCount)]
  /\ given' = [given EXCEPT !["audio"] = @ + 1]
  /\ UNCHANGED <<isOpen, isH264, isInited, videoFrameCount, videoFirstTimestamp>>

audioFrame(stamp) ==
  /\ isInited /\ audioFrameCount < MaxFrames
  /\ audioFrameCount' = audioFrameCount + 1
  /\ audioFirstTimestamp' =
       IF isMsec /\ audioFirstTimestamp < 0 THEN stamp ELSE audioFirstTimestamp
  /\ offered' = [offered EXCEPT !["audio"] =
       IF isMsec THEN msecPts(stamp, audioFirstTimestamp', SampleRate)
       ELSE audioIndexPts(audioFrameCount)]
  /\ given' = [given EXCEPT !["audio"] = @ + 1]
  /\ UNCHANGED <<isOpen, isH264, isInited, videoFrameCount, videoFirstTimestamp>>

audio ==
  /\ isOpen
  /\ \E stamp \in nextStamp("audio") :
       /\ lastStamp' = [lastStamp EXCEPT !["audio"] = stamp]
       /\ \/ audioRejected \/ audioFiltered \/ audioFrame(stamp)
  /\ UNCHANGED <<file, isMsec>>

\* Variant: an unwanted file is not removed.
close_Keep(save) ==
  /\ isOpen
  /\ isOpen' = FALSE
  /\ file' \in IF save THEN {"complete", "broken"} ELSE {"absent"}
  /\ UNCHANGED <<isH264, isInited, videoFrameCount, videoFirstTimestamp, audioFrameCount,
                 audioFirstTimestamp, isMsec, lastStamp, offered, given>>

\* The trailer's failure is only logged; without a header the file is removed.
close(save) ==
  /\ isOpen
  /\ isOpen' = FALSE
  /\ file' \in IF save /\ isInited THEN {"complete", "broken"} ELSE {"absent"}
  /\ UNCHANGED <<isH264, isInited, videoFrameCount, videoFirstTimestamp, audioFrameCount,
                 audioFirstTimestamp, isMsec, lastStamp, offered, given>>

WriterNext ==
  \/ \E h264, msec \in BOOLEAN : create(h264, msec)
  \/ \E data \in VideoData \cup {NoData}, key \in BOOLEAN : video(data, key)
  \/ audio
  \/ \E save \in BOOLEAN : close(save)

WriterSpec == WriterInit /\ [][WriterNext]_writerVars

-----------------------------------------------------------------------------
(***************************************************************************)
(* Properties                                                              *)
(***************************************************************************)

\* Every variable keeps its type; every frame the muxer got was
\* counted, so an index is used for one frame at most.
WriterTypeOK ==
  /\ isOpen \in BOOLEAN /\ isInited \in BOOLEAN /\ isMsec \in BOOLEAN /\ isH264 \in BOOLEAN
  /\ videoFrameCount \in 0..MaxFrames /\ audioFrameCount \in 0..MaxFrames
  /\ videoFirstTimestamp \in Stamp \cup {-1} /\ audioFirstTimestamp \in Stamp \cup {-1}
  /\ file \in {"absent", "partial", "complete", "broken"}
  /\ lastStamp \in [Track -> Stamp \cup {-1}]
  /\ offered \in [Track -> Int]
  /\ given \in [Given -> 0..MaxFrames]
  /\ given["key"] <= given["video"] /\ given["video"] <= videoFrameCount
  /\ given["audio"] <= audioFrameCount

\* The muxer refuses a packet whose pts is not above the last one of its track.
\* The pts the writer computes do increase: with millisecond time stamps
\* always, with the frame counters until the product overflows an int.
fitsInt(track) ==
  IF track = "video" THEN videoFrameCount * VideoDen <= MaxInt
                     ELSE audioFrameCount * FrameSize <= MaxInt
PtsIncrease ==
  [][\A track \in Track :
       given'[track] > given[track] /\ (isMsec \/ fitsInt(track))
         => offered'[track] > offered[track]]_writerVars

\* The writer keeps what Mp4File promises: media only after the header, a kept
\* file only with a header, and no partial file once the handle is closed.
phase == IF ~isOpen THEN "closed" ELSE IF isInited THEN "writing" ELSE "waiting"
File == INSTANCE Mp4File WITH media <- {t \in Track : given[t] > 0}
KeepsFile == File!Spec

-----------------------------------------------------------------------------
(***************************************************************************)
(* The inductive invariant behind PtsIncrease: what was offered on a track *)
(* is below what the next frame of the track will be offered with.         *)
(***************************************************************************)

VideoPtsBounded ==
  IF ~isMsec THEN fitsInt("video") => offered["video"] < videoIndexPts(videoFrameCount)
  ELSE IF videoFirstTimestamp = -1 THEN offered["video"] = -1
  ELSE /\ videoFirstTimestamp <= lastStamp["video"]
       /\ offered["video"] <= msecPts(lastStamp["video"], videoFirstTimestamp, VideoDen)

AudioPtsBounded ==
  IF ~isMsec THEN fitsInt("audio") => offered["audio"] < audioIndexPts(audioFrameCount)
  ELSE IF audioFirstTimestamp = -1 THEN offered["audio"] = -1
  ELSE /\ audioFirstTimestamp <= lastStamp["audio"]
       /\ offered["audio"] <= msecPts(lastStamp["audio"], audioFirstTimestamp, SampleRate)

\* A handle is open exactly while its file is partial.
FileOpen == isOpen <=> file = "partial"

IInv == WriterTypeOK /\ VideoPtsBounded /\ AudioPtsBounded /\ FileOpen
=============================================================================
