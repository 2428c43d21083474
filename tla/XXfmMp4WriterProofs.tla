------------------------- MODULE XXfmMp4WriterProofs -------------------------
(***************************************************************************)
(* Proofs about the mp4 writer, for every set of packets, frame rate,      *)
(* sample rate and width of an int: its types, that the pts of a track     *)
(* increase, and that it implements Mp4File.                               *)
(***************************************************************************)
EXTENDS XXfmMp4Writer, TLAPS

(***************************************************************************)
(* Arithmetic                                                              *)
(***************************************************************************)

\* The quotient of a natural number is a natural number.
LEMMA DivNat ==
  ASSUME NEW a \in Nat, NEW r \in Nat \ {0}
  PROVE  a \div r \in Nat /\ r * (a \div r) <= a
BY SMTT(30)

\* Numbers that lie a divisor apart have different quotients.
LEMMA DivStep ==
  ASSUME NEW a \in Nat, NEW b \in Nat, NEW r \in Nat \ {0}, a + r <= b
  PROVE  a \div r < b \div r
BY SMTT(30)

\* A product that fits an int is not changed by it.
LEMMA WrapSmall ==
  ASSUME NEW x \in 0..MaxInt
  PROVE  wrap(x) = x
<1>1. (x + MaxInt + 1) % (2 * (MaxInt + 1)) = x + MaxInt + 1
  BY WriterAssumption, SMTT(30)
<1> QED  BY <1>1, WriterAssumption DEF wrap

\* An int wraps to an integer.
LEMMA WrapInt ==
  ASSUME NEW x \in Int
  PROVE  wrap(x) \in Int
BY WriterAssumption, SMTT(30) DEF wrap

\* The pts of a frame index, while the product fits, and of any index.
LEMMA VideoIndex ==
  ASSUME NEW n \in Nat
  PROVE  /\ videoIndexPts(n) \in Int
         /\ n * VideoDen <= MaxInt => videoIndexPts(n) = (n * VideoDen) \div FrameRate
<1> DEFINE w == wrap(n * VideoDen)
<1>1. n * VideoDen \in Nat  BY WriterAssumption
<1>2. w \in Int  BY <1>1, WrapInt
<1>3. quotient(w, FrameRate) \in Int
  <2>1. CASE w >= 0  BY <2>1, <1>2, DivNat, WriterAssumption DEF quotient
  <2>2. CASE ~(w >= 0)
    <3>1. -w \in Nat  BY <2>2, <1>2
    <3>2. (-w) \div FrameRate \in Nat  BY <3>1, DivNat, WriterAssumption
    <3> QED  BY <3>2, <2>2 DEF quotient
  <2> QED  BY <2>1, <2>2
<1>4. ASSUME n * VideoDen <= MaxInt
      PROVE  videoIndexPts(n) = (n * VideoDen) \div FrameRate
  BY <1>1, <1>4, WrapSmall, WriterAssumption DEF videoIndexPts, quotient
<1> QED  BY <1>3, <1>4 DEF videoIndexPts

LEMMA VideoIndexStep ==
  ASSUME NEW n \in Nat, (n + 1) * VideoDen <= MaxInt
  PROVE  videoIndexPts(n) < videoIndexPts(n + 1)
<1>1. /\ n * VideoDen \in Nat /\ (n + 1) * VideoDen \in Nat
      /\ n * VideoDen + FrameRate <= (n + 1) * VideoDen
  BY WriterAssumption
<1>2. n * VideoDen <= MaxInt  BY <1>1, WriterAssumption
<1>3. (n * VideoDen) \div FrameRate < ((n + 1) * VideoDen) \div FrameRate
  BY <1>1, DivStep, WriterAssumption
<1> QED  BY <1>2, <1>3, VideoIndex

\* The audio track advances by a constant number of ticks, at most frameSize.
LEMMA AudioIndex ==
  /\ \A n \in Nat : audioIndexPts(n) \in Int
  /\ \E k \in Nat \ {0} :
       \A n \in Nat : n * FrameSize <= MaxInt => audioIndexPts(n) = n * k
<1> DEFINE msec == (FrameSize * 1000) \div SampleRate
           khz == SampleRate \div 1000
<1>1. msec \in Nat \ {0} /\ SampleRate * msec <= FrameSize * 1000
  <2>1. msec \in Nat /\ SampleRate * msec <= FrameSize * 1000
    BY DivNat, WriterAssumption
  <2>2. 0 \div SampleRate < msec  BY DivStep, WriterAssumption
  <2>3. 0 \div SampleRate \in Nat  BY DivNat, WriterAssumption
  <2> QED  BY <2>1, <2>2, <2>3
<1>2. khz \in Nat \ {0} /\ 1000 * khz <= SampleRate
  BY WriterAssumption
<1>3. msec * khz \in Nat \ {0} /\ msec * khz <= FrameSize
  <2>1. msec * khz \in Nat \ {0}  BY <1>1, <1>2
  <2>2. msec * (1000 * khz) <= msec * SampleRate
    BY <1>1, <1>2, WriterAssumption, SMTT(30)
  <2>3. msec * (1000 * khz) = 1000 * (msec * khz)  BY <1>1, <1>2
  <2>4. msec * SampleRate = SampleRate * msec  BY <1>1, WriterAssumption
  <2> QED  BY <2>1, <2>2, <2>3, <2>4, <1>1, WriterAssumption
<1>4. ASSUME NEW n \in Nat  PROVE audioIndexPts(n) \in Int
  <2>1. n * msec \in Int  BY <1>1
  <2>2. wrap(n * msec) * khz \in Int  BY <2>1, <1>2, WrapInt
  <2> QED  BY <2>2, WrapInt DEF audioIndexPts
<1>5. ASSUME NEW n \in Nat, n * FrameSize <= MaxInt
      PROVE  audioIndexPts(n) = n * (msec * khz)
  <2>1. n * (msec * khz) <= n * FrameSize  BY <1>3, WriterAssumption, SMTT(30)
  <2>2. n * msec * khz = n * (msec * khz)  BY <1>1, <1>2
  <2>3. n * msec \in Nat /\ n * msec <= n * msec * khz
    BY <1>1, <1>2, SMTT(30)
  <2>4. n * (msec * khz) \in Nat /\ n * FrameSize \in Nat
    BY <1>3, WriterAssumption
  <2>5. n * msec \in 0..MaxInt /\ n * msec * khz \in 0..MaxInt
    BY <2>1, <2>2, <2>3, <2>4, <1>5, WriterAssumption
  <2>6. wrap(n * msec) = n * msec /\ wrap(n * msec * khz) = n * msec * khz
    BY <2>5, WrapSmall
  <2> QED  BY <2>2, <2>6 DEF audioIndexPts
<1> QED  BY <1>3, <1>4, <1>5

LEMMA AudioIndexStep ==
  ASSUME NEW n \in Nat, (n + 1) * FrameSize <= MaxInt
  PROVE  audioIndexPts(n) < audioIndexPts(n + 1)
<1>1. PICK k \in Nat \ {0} :
        \A m \in Nat : m * FrameSize <= MaxInt => audioIndexPts(m) = m * k
  BY AudioIndex
<1>2. n * FrameSize <= MaxInt  BY WriterAssumption, SMTT(30)
<1>3. audioIndexPts(n) = n * k /\ audioIndexPts(n + 1) = (n + 1) * k  BY <1>1, <1>2
<1> QED  BY <1>3, <1>1

\* A later millisecond gives a larger pts.
LEMMA MsecStep ==
  ASSUME NEW first \in Nat, NEW s \in Nat, NEW t \in Nat, first <= s, s < t,
         NEW den \in Nat, den >= 1000
  PROVE  /\ msecPts(s, first, den) \in Nat /\ msecPts(t, first, den) \in Nat
         /\ msecPts(s, first, den) < msecPts(t, first, den)
<1> DEFINE a == (s - first) * den
           b == (t - first) * den
<1>1. s - first \in Nat /\ t - first \in Nat /\ (s - first) + 1 <= t - first  OBVIOUS
<1>2. a \in Nat /\ b \in Nat  BY <1>1
<1>3. ((s - first) + 1) * den <= b  BY <1>1, SMTT(30)
<1>4. a + 1000 <= b  BY <1>1, <1>2, <1>3
<1>5. a \div 1000 \in Nat /\ b \div 1000 \in Nat  BY <1>2, DivNat
<1>6. a \div 1000 < b \div 1000  BY <1>2, <1>4, DivStep
<1> QED  BY <1>5, <1>6 DEF msecPts

\* The pts of the first packet is 0.
LEMMA MsecFirst ==
  ASSUME NEW s \in Nat, NEW den \in Nat
  PROVE  msecPts(s, s, den) = 0
<1>1. (s - s) * den = 0  OBVIOUS
<1> QED  BY <1>1 DEF msecPts

(***************************************************************************)
(* The inductive invariant                                                 *)
(***************************************************************************)

LEMMA InitIInv == WriterInit => IInv
<1> SUFFICES ASSUME WriterInit PROVE IInv  OBVIOUS
<1>1. WriterTypeOK
  <2>1. 0 \in 0..MaxFrames  BY WriterAssumption
  <2>2. given \in [Given -> 0..MaxFrames] /\ \A g \in Given : given[g] = 0
    BY <2>1 DEF WriterInit
  <2>3. given["key"] = 0 /\ given["video"] = 0 /\ given["audio"] = 0
    BY <2>2 DEF Given, Track
  <2>4. none \in [Track -> Stamp \cup {-1}] /\ none \in [Track -> Int]  BY DEF none
  <2>5. /\ given["key"] <= given["video"] /\ given["video"] <= videoFrameCount
        /\ given["audio"] <= audioFrameCount
    BY <2>3 DEF WriterInit
  <2> QED  BY <2>1, <2>2, <2>4, <2>5, Zenon DEF WriterInit, WriterTypeOK
<1>2. VideoPtsBounded
  <2>1. videoIndexPts(0) = 0 \div FrameRate /\ 0 \div FrameRate \in Nat
    BY VideoIndex, DivNat, WriterAssumption
  <2> QED  BY <2>1 DEF WriterInit, VideoPtsBounded, none, Track
<1>3. AudioPtsBounded
  <2>1. PICK k \in Nat : \A n \in Nat : n * FrameSize <= MaxInt => audioIndexPts(n) = n * k
    BY AudioIndex
  <2>2. audioIndexPts(0) = 0  BY <2>1, WriterAssumption
  <2> QED  BY <2>2 DEF WriterInit, AudioPtsBounded, none, Track
<1>4. FileOpen  BY DEF WriterInit, FileOpen
<1> QED  BY <1>1, <1>2, <1>3, <1>4 DEF IInv

\* The shape of a step of video() or audio() as far as the pts is concerned.
LEMMA StampIsLater ==
  ASSUME WriterTypeOK, NEW track \in Track, NEW stamp \in nextStamp(track)
  PROVE  /\ stamp \in Stamp \cup {-1}
         /\ isMsec => stamp \in Nat /\ stamp > lastStamp[track]
BY WriterAssumption DEF WriterTypeOK, nextStamp

LEMMA CreateIInv ==
  ASSUME IInv, NEW h264 \in BOOLEAN, NEW msec \in BOOLEAN, create(h264, msec)
  PROVE  IInv'
<1>1. WriterTypeOK'
  <2>1. 0 \in 0..MaxFrames  BY WriterAssumption
  <2>2. given' \in [Given -> 0..MaxFrames] /\ \A g \in Given : given'[g] = 0
    BY <2>1 DEF create
  <2>3. given'["key"] = 0 /\ given'["video"] = 0 /\ given'["audio"] = 0
    BY <2>2 DEF Given, Track
  <2>4. none \in [Track -> Stamp \cup {-1}] /\ none \in [Track -> Int]  BY DEF none
  <2>5. /\ given'["key"] <= given'["video"] /\ given'["video"] <= videoFrameCount'
        /\ given'["audio"] <= audioFrameCount'
    BY <2>3 DEF create
  <2> QED  BY <2>1, <2>2, <2>4, <2>5, Zenon DEF create, WriterTypeOK
<1>2. VideoPtsBounded'
  <2>1. videoIndexPts(0) = 0 \div FrameRate /\ 0 \div FrameRate \in Nat
    BY VideoIndex, DivNat, WriterAssumption
  <2>2. videoFrameCount' = 0 /\ offered'["video"] = -1 /\ videoFirstTimestamp' = -1
    BY DEF create, none, Track
  <2> QED  BY <2>1, <2>2 DEF VideoPtsBounded
<1>3. AudioPtsBounded'
  <2>1. PICK k \in Nat : \A n \in Nat : n * FrameSize <= MaxInt => audioIndexPts(n) = n * k
    BY AudioIndex
  <2>2. audioIndexPts(0) = 0  BY <2>1, WriterAssumption
  <2>3. audioFrameCount' = 0 /\ offered'["audio"] = -1 /\ audioFirstTimestamp' = -1
    BY DEF create, none, Track
  <2> QED  BY <2>2, <2>3 DEF AudioPtsBounded
<1>4. FileOpen'  BY DEF create, FileOpen
<1> QED  BY <1>1, <1>2, <1>3, <1>4 DEF IInv

\* A video packet that is not counted only moves the caller's time stamp.
LEMMA VideoUncounted ==
  ASSUME IInv, NEW stamp \in nextStamp("video"),
         lastStamp' = [lastStamp EXCEPT !["video"] = stamp],
         isInited' \in BOOLEAN,
         UNCHANGED <<isOpen, isH264, videoFrameCount, videoFirstTimestamp, audioFrameCount,
                     audioFirstTimestamp, offered, given, file, isMsec>>
  PROVE  IInv'
<1>1. /\ stamp \in Stamp \cup {-1}
      /\ isMsec => stamp \in Nat /\ stamp > lastStamp["video"]
  BY StampIsLater DEF IInv, Track
<1>2. WriterTypeOK'  BY <1>1 DEF IInv, WriterTypeOK, Track
<1>3. lastStamp'["video"] = stamp /\ lastStamp'["audio"] = lastStamp["audio"]
  BY DEF IInv, WriterTypeOK, Track
<1>4. VideoPtsBounded'
  <2>1. CASE ~isMsec  BY <2>1 DEF IInv, VideoPtsBounded, fitsInt
  <2>2. CASE isMsec /\ videoFirstTimestamp = -1  BY <2>2 DEF IInv, VideoPtsBounded
  <2>3. CASE isMsec /\ videoFirstTimestamp # -1
    <3>1. /\ videoFirstTimestamp \in Nat /\ lastStamp["video"] \in Nat /\ stamp \in Nat
          /\ videoFirstTimestamp <= lastStamp["video"] /\ lastStamp["video"] < stamp
      <4>1. videoFirstTimestamp \in Nat
        BY <2>3, WriterAssumption DEF IInv, WriterTypeOK
      <4>2. lastStamp["video"] \in Stamp \cup {-1}  BY DEF IInv, WriterTypeOK, Track
      <4>3. videoFirstTimestamp <= lastStamp["video"]
        BY <2>3 DEF IInv, VideoPtsBounded
      <4>4. lastStamp["video"] # -1  BY <4>1, <4>3
      <4>5. lastStamp["video"] \in Nat  BY <4>2, <4>4, WriterAssumption
      <4> QED  BY <4>1, <4>3, <4>5, <1>1, <2>3
    <3>2. /\ msecPts(lastStamp["video"], videoFirstTimestamp, VideoDen) \in Nat
          /\ msecPts(stamp, videoFirstTimestamp, VideoDen) \in Nat
          /\ msecPts(lastStamp["video"], videoFirstTimestamp, VideoDen)
               < msecPts(stamp, videoFirstTimestamp, VideoDen)
      BY <3>1, MsecStep, WriterAssumption
    <3>3. offered["video"] \in Int  BY DEF IInv, WriterTypeOK, Track
    <3>4. offered["video"] <= msecPts(lastStamp["video"], videoFirstTimestamp, VideoDen)
      BY <2>3 DEF IInv, VideoPtsBounded
    <3>5. offered["video"] <= msecPts(stamp, videoFirstTimestamp, VideoDen)
      BY <3>2, <3>3, <3>4
    <3> QED  BY <2>3, <3>1, <3>5, <1>3 DEF VideoPtsBounded
  <2> QED  BY <2>1, <2>2, <2>3
<1>5. AudioPtsBounded'  BY <1>3 DEF IInv, AudioPtsBounded, fitsInt
<1>6. FileOpen'  BY DEF IInv, FileOpen
<1> QED  BY <1>2, <1>4, <1>5, <1>6 DEF IInv

\* A video frame that is given has a pts above the last one of the track.
LEMMA VideoGiven ==
  ASSUME IInv, NEW data, NEW isKeyFrame \in BOOLEAN, NEW stamp \in nextStamp("video"),
         lastStamp' = [lastStamp EXCEPT !["video"] = stamp],
         videoFrame(data, isKeyFrame, stamp), UNCHANGED <<file, isMsec>>
  PROVE  /\ IInv'
         /\ isMsec \/ fitsInt("video") => offered'["video"] > offered["video"]
<1>1. /\ stamp \in Stamp \cup {-1}
      /\ isMsec => stamp \in Nat /\ stamp > lastStamp["video"]
  BY StampIsLater DEF IInv, Track
<1> DEFINE first == videoFirstTimestamp'
           pts == IF isMsec THEN msecPts(stamp, first, VideoDen)
                  ELSE videoIndexPts(videoFrameCount)
<1>2. /\ lastStamp'["video"] = stamp /\ lastStamp'["audio"] = lastStamp["audio"]
      /\ offered'["video"] = pts /\ offered'["audio"] = offered["audio"]
      /\ videoFrameCount' = videoFrameCount + 1 /\ videoFrameCount \in Nat
      /\ offered["video"] \in Int
  BY DEF IInv, WriterTypeOK, Track, videoFrame
<1>3. isMsec => /\ first \in Nat /\ first <= stamp
                /\ pts \in Nat /\ pts > offered["video"]
  <2> SUFFICES ASSUME isMsec
               PROVE  first \in Nat /\ first <= stamp /\ pts \in Nat /\ pts > offered["video"]
    OBVIOUS
  <2>1. stamp \in Nat /\ stamp > lastStamp["video"]  BY <1>1
  <2>2. CASE videoFirstTimestamp = -1
    <3>1. first = stamp  BY <2>2 DEF videoFrame
    <3>2. msecPts(stamp, first, VideoDen) = 0  BY <3>1, <2>1, MsecFirst, WriterAssumption
    <3>3. offered["video"] = -1  BY <2>2 DEF IInv, VideoPtsBounded
    <3> QED  BY <2>1, <3>1, <3>2, <3>3
  <2>3. CASE videoFirstTimestamp # -1
    <3>1. /\ videoFirstTimestamp \in Nat /\ lastStamp["video"] \in Nat
          /\ videoFirstTimestamp <= lastStamp["video"] /\ lastStamp["video"] < stamp
          /\ offered["video"] <= msecPts(lastStamp["video"], videoFirstTimestamp, VideoDen)
      <4>1. videoFirstTimestamp \in Nat
        BY <2>3, WriterAssumption DEF IInv, WriterTypeOK
      <4>2. lastStamp["video"] \in Stamp \cup {-1}  BY DEF IInv, WriterTypeOK, Track
      <4>3. /\ videoFirstTimestamp <= lastStamp["video"]
            /\ offered["video"] <= msecPts(lastStamp["video"], videoFirstTimestamp, VideoDen)
        BY <2>3 DEF IInv, VideoPtsBounded
      <4>4. lastStamp["video"] # -1  BY <4>1, <4>3
      <4>5. lastStamp["video"] \in Nat  BY <4>2, <4>4, WriterAssumption
      <4> QED  BY <4>1, <4>3, <4>5, <2>1
    <3>2. first = videoFirstTimestamp  BY <3>1 DEF videoFrame
    <3>3. /\ msecPts(lastStamp["video"], first, VideoDen) \in Nat
          /\ msecPts(stamp, first, VideoDen) \in Nat
          /\ msecPts(lastStamp["video"], first, VideoDen) < msecPts(stamp, first, VideoDen)
      BY <3>1, <3>2, <2>1, MsecStep, WriterAssumption
    <3>4. offered["video"] <= msecPts(lastStamp["video"], first, VideoDen)
      BY <3>1, <3>2
    <3>5. pts = msecPts(stamp, first, VideoDen)  OBVIOUS
    <3>6. first \in Nat /\ first <= stamp  BY <3>1, <3>2, <2>1
    <3> HIDE DEF first, pts
    <3> QED  BY <3>3, <3>4, <3>5, <3>6, <1>2
  <2> QED  BY <2>2, <2>3
<1>4. ~isMsec => /\ first = videoFirstTimestamp /\ pts \in Int
                 /\ fitsInt("video") => pts > offered["video"]
  BY <1>2, VideoIndex DEF IInv, VideoPtsBounded, videoFrame
<1>5. WriterTypeOK'
  <2>1. pts \in Int  BY <1>3, <1>4
  <2>2. first \in Stamp \cup {-1}  BY <1>1 DEF videoFrame, IInv, WriterTypeOK
  <2> HIDE DEF pts, first
  <2>3. offered' \in [Track -> Int]  BY <2>1, <1>2 DEF videoFrame, IInv, WriterTypeOK, pts, first
  <2>4. lastStamp' \in [Track -> Stamp \cup {-1}]  BY <1>1 DEF IInv, WriterTypeOK
  <2>5. /\ given["video"] \in Nat /\ given["key"] \in Nat /\ given["video"] + 1 <= MaxFrames
        /\ given["key"] <= given["video"] /\ given["video"] <= videoFrameCount
        /\ videoFrameCount + 1 \in 0..MaxFrames
    BY WriterAssumption DEF videoFrame, IInv, WriterTypeOK, Given, Track
  <2>6. /\ given'["video"] = given["video"] + 1
        /\ given'["key"] \in {given["key"], given["key"] + 1}
        /\ given'["audio"] = given["audio"]
    BY DEF videoFrame, IInv, WriterTypeOK, Given, Track
  <2>7. given' \in [Given -> 0..MaxFrames]
    <3>1. given' = [given EXCEPT !["video"] = given["video"] + 1, !["key"] = given'["key"]]
      BY DEF videoFrame, IInv, WriterTypeOK, Given, Track
    <3>2. given["video"] + 1 \in 0..MaxFrames /\ given'["key"] \in 0..MaxFrames
      BY <2>5, <2>6, WriterAssumption
    <3> QED  BY <3>1, <3>2 DEF IInv, WriterTypeOK, Given, Track
  <2> QED
    BY <2>2, <2>3, <2>4, <2>5, <2>6, <2>7 DEF videoFrame, IInv, WriterTypeOK, first
<1>6. VideoPtsBounded'
  <2>1. CASE ~isMsec
    <3>1. ASSUME (videoFrameCount + 1) * VideoDen <= MaxInt
          PROVE  pts < videoIndexPts(videoFrameCount + 1)
      BY <2>1, <3>1, <1>2, VideoIndexStep
    <3> HIDE DEF pts
    <3> QED  BY <2>1, <3>1, <1>2 DEF VideoPtsBounded, fitsInt
  <2>2. CASE isMsec
    <3>1. first # -1 /\ first <= stamp /\ pts = msecPts(stamp, first, VideoDen) /\ pts \in Nat
      BY <2>2, <1>3
    <3> HIDE DEF pts
    <3> QED  BY <2>2, <3>1, <1>2 DEF VideoPtsBounded
  <2> QED  BY <2>1, <2>2
<1>7. AudioPtsBounded'
  BY <1>2 DEF IInv, AudioPtsBounded, videoFrame, fitsInt
<1>8. FileOpen'  BY DEF IInv, FileOpen, videoFrame
<1>9. isMsec \/ fitsInt("video") => offered'["video"] > offered["video"]
  BY <1>2, <1>3, <1>4
<1> QED  BY <1>5, <1>6, <1>7, <1>8, <1>9 DEF IInv

\* An audio packet that is not given only moves the caller's time stamp.
LEMMA AudioUngiven ==
  ASSUME IInv, NEW stamp \in nextStamp("audio"),
         lastStamp' = [lastStamp EXCEPT !["audio"] = stamp],
         audioRejected \/ audioFiltered, UNCHANGED <<file, isMsec>>
  PROVE  IInv'
<1>1. /\ stamp \in Stamp \cup {-1}
      /\ isMsec => stamp \in Nat /\ stamp > lastStamp["audio"]
  BY StampIsLater DEF IInv, Track
<1>2. WriterTypeOK'
  <2>1. lastStamp' \in [Track -> Stamp \cup {-1}]  BY <1>1 DEF IInv, WriterTypeOK
  <2>2. audioFrameCount' \in 0..MaxFrames /\ given["audio"] <= audioFrameCount'
    <3>1. /\ audioFrameCount \in 0..MaxFrames /\ given["audio"] \in 0..MaxFrames
          /\ given["audio"] <= audioFrameCount
      BY DEF IInv, WriterTypeOK, Given, Track
    <3> QED  BY <3>1, WriterAssumption DEF audioRejected, audioFiltered, writerContext
  <2> QED
    BY <2>1, <2>2 DEF audioRejected, audioFiltered, writerContext, IInv, WriterTypeOK
<1>4. audioFrameCount' \in {audioFrameCount, audioFrameCount + 1}
  BY DEF audioRejected, audioFiltered, writerContext
<1>3. lastStamp'["audio"] = stamp /\ lastStamp'["video"] = lastStamp["video"]
  BY DEF IInv, WriterTypeOK, Track
<1>5. AudioPtsBounded'
  <2>1. CASE ~isMsec
    <3>1. audioFrameCount \in Nat /\ offered["audio"] \in Int  BY DEF IInv, WriterTypeOK, Track
    <3>2. ASSUME (audioFrameCount + 1) * FrameSize <= MaxInt
          PROVE  offered["audio"] < audioIndexPts(audioFrameCount + 1)
      <4>1. audioFrameCount * FrameSize <= MaxInt
        BY <3>1, <3>2, WriterAssumption, SMTT(30)
      <4>2. offered["audio"] < audioIndexPts(audioFrameCount)
        BY <2>1, <4>1 DEF IInv, AudioPtsBounded, fitsInt
      <4>3. audioIndexPts(audioFrameCount) < audioIndexPts(audioFrameCount + 1)
        BY <3>1, <3>2, AudioIndexStep
      <4>4. /\ audioIndexPts(audioFrameCount) \in Int
            /\ audioIndexPts(audioFrameCount + 1) \in Int
        BY <3>1, AudioIndex
      <4> QED  BY <4>2, <4>3, <4>4, <3>1
    <3>3. UNCHANGED <<isMsec, offered>>  BY DEF audioRejected, audioFiltered
    <3> QED  BY <2>1, <3>2, <3>3, <1>4 DEF IInv, AudioPtsBounded, fitsInt
  <2>2. CASE isMsec /\ audioFirstTimestamp = -1
    BY <2>2 DEF IInv, AudioPtsBounded, audioRejected, audioFiltered, writerContext
  <2>3. CASE isMsec /\ audioFirstTimestamp # -1
    <3>1. /\ audioFirstTimestamp \in Nat /\ lastStamp["audio"] \in Nat /\ stamp \in Nat
          /\ audioFirstTimestamp <= lastStamp["audio"] /\ lastStamp["audio"] < stamp
      <4>1. audioFirstTimestamp \in Nat
        BY <2>3, WriterAssumption DEF IInv, WriterTypeOK
      <4>2. lastStamp["audio"] \in Stamp \cup {-1}  BY DEF IInv, WriterTypeOK, Track
      <4>3. audioFirstTimestamp <= lastStamp["audio"]
        BY <2>3 DEF IInv, AudioPtsBounded
      <4>4. lastStamp["audio"] # -1  BY <4>1, <4>3
      <4>5. lastStamp["audio"] \in Nat  BY <4>2, <4>4, WriterAssumption
      <4> QED  BY <4>1, <4>3, <4>5, <1>1, <2>3
    <3>2. /\ msecPts(lastStamp["audio"], audioFirstTimestamp, SampleRate) \in Nat
          /\ msecPts(stamp, audioFirstTimestamp, SampleRate) \in Nat
          /\ msecPts(lastStamp["audio"], audioFirstTimestamp, SampleRate)
               < msecPts(stamp, audioFirstTimestamp, SampleRate)
      BY <3>1, MsecStep, WriterAssumption
    <3>3. offered["audio"] \in Int  BY DEF IInv, WriterTypeOK, Track
    <3>4. offered["audio"] <= msecPts(lastStamp["audio"], audioFirstTimestamp, SampleRate)
      BY <2>3 DEF IInv, AudioPtsBounded
    <3>5. offered["audio"] <= msecPts(stamp, audioFirstTimestamp, SampleRate)
      BY <3>2, <3>3, <3>4
    <3> QED
      BY <2>3, <3>1, <3>5, <1>3 DEF AudioPtsBounded, audioRejected, audioFiltered, writerContext
  <2> QED  BY <2>1, <2>2, <2>3
<1>6. VideoPtsBounded'
  BY <1>3 DEF IInv, VideoPtsBounded, fitsInt, audioRejected, audioFiltered, writerContext
<1>7. FileOpen'  BY DEF IInv, FileOpen, audioRejected, audioFiltered, writerContext
<1> QED  BY <1>2, <1>5, <1>6, <1>7 DEF IInv

\* An audio frame that is given has a pts above the last one of the track.
LEMMA AudioGiven ==
  ASSUME IInv, NEW stamp \in nextStamp("audio"),
         lastStamp' = [lastStamp EXCEPT !["audio"] = stamp],
         audioFrame(stamp), UNCHANGED <<file, isMsec>>
  PROVE  /\ IInv'
         /\ isMsec \/ fitsInt("audio") => offered'["audio"] > offered["audio"]
<1>1. /\ stamp \in Stamp \cup {-1}
      /\ isMsec => stamp \in Nat /\ stamp > lastStamp["audio"]
  BY StampIsLater DEF IInv, Track
<1> DEFINE first == audioFirstTimestamp'
           pts == IF isMsec THEN msecPts(stamp, first, SampleRate)
                  ELSE audioIndexPts(audioFrameCount)
<1>2. /\ lastStamp'["audio"] = stamp /\ lastStamp'["video"] = lastStamp["video"]
      /\ offered'["audio"] = pts /\ offered'["video"] = offered["video"]
      /\ audioFrameCount' = audioFrameCount + 1 /\ audioFrameCount \in Nat
      /\ offered["audio"] \in Int
  BY DEF IInv, WriterTypeOK, Track, audioFrame
<1>3. isMsec => /\ first \in Nat /\ first <= stamp
                /\ pts \in Nat /\ pts > offered["audio"]
  <2> SUFFICES ASSUME isMsec
               PROVE  first \in Nat /\ first <= stamp /\ pts \in Nat /\ pts > offered["audio"]
    OBVIOUS
  <2>1. stamp \in Nat /\ stamp > lastStamp["audio"]  BY <1>1
  <2>2. CASE audioFirstTimestamp = -1
    <3>1. first = stamp  BY <2>2 DEF audioFrame
    <3>2. msecPts(stamp, first, SampleRate) = 0  BY <3>1, <2>1, MsecFirst, WriterAssumption
    <3>3. offered["audio"] = -1  BY <2>2 DEF IInv, AudioPtsBounded
    <3> QED  BY <2>1, <3>1, <3>2, <3>3
  <2>3. CASE audioFirstTimestamp # -1
    <3>1. /\ audioFirstTimestamp \in Nat /\ lastStamp["audio"] \in Nat
          /\ audioFirstTimestamp <= lastStamp["audio"] /\ lastStamp["audio"] < stamp
          /\ offered["audio"] <= msecPts(lastStamp["audio"], audioFirstTimestamp, SampleRate)
      <4>1. audioFirstTimestamp \in Nat
        BY <2>3, WriterAssumption DEF IInv, WriterTypeOK
      <4>2. lastStamp["audio"] \in Stamp \cup {-1}  BY DEF IInv, WriterTypeOK, Track
      <4>3. /\ audioFirstTimestamp <= lastStamp["audio"]
            /\ offered["audio"] <= msecPts(lastStamp["audio"], audioFirstTimestamp, SampleRate)
        BY <2>3 DEF IInv, AudioPtsBounded
      <4>4. lastStamp["audio"] # -1  BY <4>1, <4>3
      <4>5. lastStamp["audio"] \in Nat  BY <4>2, <4>4, WriterAssumption
      <4> QED  BY <4>1, <4>3, <4>5, <2>1
    <3>2. first = audioFirstTimestamp  BY <3>1 DEF audioFrame
    <3>3. /\ msecPts(lastStamp["audio"], first, SampleRate) \in Nat
          /\ msecPts(stamp, first, SampleRate) \in Nat
          /\ msecPts(lastStamp["audio"], first, SampleRate) < msecPts(stamp, first, SampleRate)
      BY <3>1, <3>2, <2>1, MsecStep, WriterAssumption
    <3>4. offered["audio"] <= msecPts(lastStamp["audio"], first, SampleRate)
      BY <3>1, <3>2
    <3>5. pts = msecPts(stamp, first, SampleRate)  OBVIOUS
    <3>6. first \in Nat /\ first <= stamp  BY <3>1, <3>2, <2>1
    <3> HIDE DEF first, pts
    <3> QED  BY <3>3, <3>4, <3>5, <3>6, <1>2
  <2> QED  BY <2>2, <2>3
<1>4. ~isMsec => /\ first = audioFirstTimestamp /\ pts \in Int
                 /\ fitsInt("audio") => pts > offered["audio"]
  BY <1>2, AudioIndex DEF IInv, AudioPtsBounded, audioFrame
<1>5. WriterTypeOK'
  <2>1. pts \in Int  BY <1>3, <1>4
  <2>2. first \in Stamp \cup {-1}  BY <1>1 DEF audioFrame, IInv, WriterTypeOK
  <2> HIDE DEF pts, first
  <2>3. offered' \in [Track -> Int]  BY <2>1, <1>2 DEF audioFrame, IInv, WriterTypeOK, pts, first
  <2>4. lastStamp' \in [Track -> Stamp \cup {-1}]  BY <1>1 DEF IInv, WriterTypeOK
  <2>5. /\ given["audio"] \in Nat /\ given["audio"] + 1 \in 0..MaxFrames
        /\ given["audio"] <= audioFrameCount /\ audioFrameCount + 1 \in 0..MaxFrames
    BY WriterAssumption DEF audioFrame, IInv, WriterTypeOK, Given, Track
  <2>6. /\ given'["audio"] = given["audio"] + 1
        /\ given'["key"] = given["key"] /\ given'["video"] = given["video"]
    BY DEF audioFrame, IInv, WriterTypeOK, Given, Track
  <2>7. given' \in [Given -> 0..MaxFrames]
    BY <2>5 DEF audioFrame, IInv, WriterTypeOK, Given, Track
  <2> QED
    BY <2>2, <2>3, <2>4, <2>5, <2>6, <2>7 DEF audioFrame, IInv, WriterTypeOK, first
<1>6. AudioPtsBounded'
  <2>1. CASE ~isMsec
    <3>1. ASSUME (audioFrameCount + 1) * FrameSize <= MaxInt
          PROVE  pts < audioIndexPts(audioFrameCount + 1)
      BY <2>1, <3>1, <1>2, AudioIndexStep
    <3> HIDE DEF pts
    <3> QED  BY <2>1, <3>1, <1>2 DEF AudioPtsBounded, fitsInt
  <2>2. CASE isMsec
    <3>1. first # -1 /\ first <= stamp /\ pts = msecPts(stamp, first, SampleRate) /\ pts \in Nat
      BY <2>2, <1>3
    <3> HIDE DEF pts
    <3> QED  BY <2>2, <3>1, <1>2 DEF AudioPtsBounded
  <2> QED  BY <2>1, <2>2
<1>7. VideoPtsBounded'
  BY <1>2 DEF IInv, VideoPtsBounded, audioFrame, fitsInt
<1>8. FileOpen'  BY DEF IInv, FileOpen, audioFrame
<1>9. isMsec \/ fitsInt("audio") => offered'["audio"] > offered["audio"]
  BY <1>2, <1>3, <1>4
<1> QED  BY <1>5, <1>6, <1>7, <1>8, <1>9 DEF IInv

(***************************************************************************)
(* The theorems                                                            *)
(***************************************************************************)

\* The invariant and the order of the pts, for one step.
LEMMA StepIInv ==
  ASSUME IInv, WriterNext
  PROVE  /\ IInv'
         /\ \A track \in Track :
              given'[track] > given[track] /\ (isMsec \/ fitsInt(track))
                => offered'[track] > offered[track]
<1> DEFINE Increase == \A track \in Track :
             given'[track] > given[track] /\ (isMsec \/ fitsInt(track))
               => offered'[track] > offered[track]
<1>0. \A g \in Given : given[g] \in 0..MaxFrames  BY DEF IInv, WriterTypeOK
<1>n. ASSUME UNCHANGED given  PROVE Increase
  BY <1>0, <1>n, WriterAssumption DEF Given
<1>1. ASSUME NEW h264 \in BOOLEAN, NEW msec \in BOOLEAN, create(h264, msec)
      PROVE  IInv' /\ Increase
  <2>1. \A g \in Given : given'[g] = 0  BY <1>1 DEF create
  <2> QED  BY <1>0, <1>1, <2>1, CreateIInv, WriterAssumption DEF Given
<1>2. ASSUME NEW data, NEW key \in BOOLEAN, video(data, key)
      PROVE  IInv' /\ Increase
  <2>1. PICK stamp \in nextStamp("video") :
          /\ lastStamp' = [lastStamp EXCEPT !["video"] = stamp]
          /\ \/ videoRejected(data, key) \/ videoInitFailed(data, key)
             \/ videoNoFrame(data, key) \/ videoFrame(data, key, stamp)
    BY <1>2 DEF video
  <2>2. UNCHANGED <<file, isMsec>>  BY <1>2 DEF video
  <2>3. CASE videoFrame(data, key, stamp)
    <3>1. given'["audio"] = given["audio"]
      BY <2>3 DEF videoFrame, IInv, WriterTypeOK, Given, Track
    <3>2. IInv' /\ (isMsec \/ fitsInt("video") => offered'["video"] > offered["video"])
      BY <2>1, <2>2, <2>3, VideoGiven
    <3>3. given["audio"] \in Nat  BY <1>0 DEF Given, Track
    <3> QED  BY <3>1, <3>2, <3>3 DEF Track
  <2>4. CASE videoRejected(data, key) \/ videoInitFailed(data, key) \/ videoNoFrame(data, key)
    <3>1. /\ isInited' \in BOOLEAN
          /\ UNCHANGED <<isOpen, isH264, videoFrameCount, videoFirstTimestamp,
                         audioFrameCount, audioFirstTimestamp, offered, given>>
      BY <2>4 DEF videoRejected, videoInitFailed, videoNoFrame, writerContext, IInv, WriterTypeOK
    <3>2. IInv'  BY <2>1, <2>2, <3>1, VideoUncounted
    <3> QED  BY <3>1, <3>2, <1>n
  <2> QED  BY <2>1, <2>3, <2>4
<1>3. ASSUME audio  PROVE IInv' /\ Increase
  <2>1. PICK stamp \in nextStamp("audio") :
          /\ lastStamp' = [lastStamp EXCEPT !["audio"] = stamp]
          /\ \/ audioRejected \/ audioFiltered \/ audioFrame(stamp)
    BY <1>3 DEF audio
  <2>2. UNCHANGED <<file, isMsec>>  BY <1>3 DEF audio
  <2>3. CASE audioFrame(stamp)
    <3>1. given'["video"] = given["video"]
      BY <2>3 DEF audioFrame, IInv, WriterTypeOK, Given, Track
    <3>2. IInv' /\ (isMsec \/ fitsInt("audio") => offered'["audio"] > offered["audio"])
      BY <2>1, <2>2, <2>3, AudioGiven
    <3>3. given["video"] \in Nat  BY <1>0 DEF Given, Track
    <3> QED  BY <3>1, <3>2, <3>3 DEF Track
  <2>4. CASE audioRejected \/ audioFiltered
    <3>1. UNCHANGED given  BY <2>4 DEF audioRejected, audioFiltered
    <3>2. IInv'  BY <2>1, <2>2, <2>4, AudioUngiven
    <3> QED  BY <3>1, <3>2, <1>n
  <2> QED  BY <2>1, <2>3, <2>4
<1>4. ASSUME NEW save \in BOOLEAN, close(save)  PROVE IInv' /\ Increase
  <2>1. UNCHANGED given  BY <1>4 DEF close
  <2>2. file' \in {"absent", "complete", "broken"}  BY <1>4 DEF close
  <2>3. WriterTypeOK'  BY <1>4, <2>2 DEF close, IInv, WriterTypeOK
  <2>4. VideoPtsBounded' /\ AudioPtsBounded'
    BY <1>4 DEF close, IInv, VideoPtsBounded, AudioPtsBounded, fitsInt
  <2>5. FileOpen'  BY <1>4, <2>2 DEF close, FileOpen
  <2> QED  BY <2>1, <2>3, <2>4, <2>5, <1>n DEF IInv
<1> QED  BY <1>1, <1>2, <1>3, <1>4 DEF WriterNext

LEMMA StutterIInv == IInv /\ UNCHANGED writerVars => IInv'
BY DEF IInv, WriterTypeOK, VideoPtsBounded, AudioPtsBounded, FileOpen, fitsInt, writerVars, writerContext

\* The inductive invariant holds in every reachable state.
THEOREM Invariance == WriterSpec => []IInv
<1>1. WriterInit => IInv  BY InitIInv
<1>2. IInv /\ [WriterNext]_writerVars => IInv'  BY StepIInv, StutterIInv
<1> QED  BY <1>1, <1>2, PTL DEF WriterSpec

\* The writer's variables keep their types and no index is used for two frames.
THEOREM TypeCorrect == WriterSpec => []WriterTypeOK
<1>1. IInv => WriterTypeOK  BY DEF IInv
<1> QED  BY <1>1, Invariance, PTL

\* The pts given to the muxer increase on each track, for every frame rate,
\* sample rate and number of frames, until the frame counter overflows an int.
THEOREM TimeGoesForward == WriterSpec => PtsIncrease
<1> DEFINE Increase == \A track \in Track :
             given'[track] > given[track] /\ (isMsec \/ fitsInt(track))
               => offered'[track] > offered[track]
<1>1. IInv /\ [WriterNext]_writerVars => [Increase]_writerVars
  <2> SUFFICES ASSUME IInv, WriterNext PROVE Increase  OBVIOUS
  <2> QED  BY StepIInv
<1> QED  BY <1>1, Invariance, PTL DEF WriterSpec, PtsIncrease

\* The writer implements Mp4File: it gives media to the file only after the
\* header, keeps a file only with a header, and leaves no partial file behind.
THEOREM ImplementsFile == WriterSpec => KeepsFile
<1>1. WriterInit => File!Init
  BY DEF WriterInit, File!Init, phase, Track, Given
<1>2. IInv /\ [WriterNext]_writerVars => [File!Next]_(File!vars)
  <2> SUFFICES ASSUME IInv, WriterNext PROVE [File!Next]_(File!vars)
    BY DEF writerVars, writerContext, File!vars, phase
  <2> DEFINE media == {t \in Track : given[t] > 0}
  <2>0. given \in [Given -> 0..MaxFrames]  BY DEF IInv, WriterTypeOK
  <2>b. isInited \in BOOLEAN  BY DEF IInv, WriterTypeOK
  <2>1. ASSUME NEW h264 \in BOOLEAN, NEW msec \in BOOLEAN, create(h264, msec)
        PROVE  File!Create
    BY <2>1 DEF create, File!Create, phase, Track, Given
  <2>2. ASSUME NEW data, NEW key \in BOOLEAN, video(data, key)
        PROVE  [File!Next]_(File!vars)
    <3>1. PICK stamp \in nextStamp("video") :
            \/ videoRejected(data, key) \/ videoInitFailed(data, key)
            \/ videoNoFrame(data, key) \/ videoFrame(data, key, stamp)
      BY <2>2 DEF video
    <3>2. isOpen /\ UNCHANGED file  BY <2>2 DEF video
    <3>3. CASE videoRejected(data, key) \/ videoInitFailed(data, key)
      <4>1. UNCHANGED <<isOpen, isInited, given>>
        BY <3>3 DEF videoRejected, videoInitFailed, writerContext
      <4> QED  BY <3>2, <4>1 DEF File!vars, phase
    <3>4. CASE videoNoFrame(data, key)
      <4>1. isInited' = TRUE /\ UNCHANGED <<isOpen, given>>  BY <3>4 DEF videoNoFrame
      <4>2. CASE isInited
        <5>1. UNCHANGED isInited  BY <4>1, <4>2, <2>b
        <5> QED  BY <3>2, <4>1, <5>1 DEF File!vars, phase
      <4>3. CASE ~isInited
        <5>1. File!Header  BY <3>2, <4>1, <4>3 DEF File!Header, phase
        <5> QED  BY <5>1 DEF File!Next
      <4> QED  BY <4>2, <4>3
    <3>5. CASE videoFrame(data, key, stamp)
      <4>1. isInited' = TRUE /\ UNCHANGED isOpen  BY <3>5 DEF videoFrame
      <4>2. media' = media \cup {"video"}
        <5>1. /\ given["video"] \in Nat /\ given'["video"] = given["video"] + 1
              /\ given'["audio"] = given["audio"]
          BY <2>0, <3>5 DEF videoFrame, Given, Track
        <5> QED  BY <5>1 DEF Track
      <4> HIDE DEF media
      <4>3. CASE isInited
        <5>1. File!Packet("video")
          BY <3>2, <4>1, <4>2, <4>3 DEF File!Packet, phase, media
        <5> QED  BY <5>1 DEF File!Next
      <4>4. CASE ~isInited
        <5>1. File!Header  BY <3>2, <4>1, <4>2, <4>4 DEF File!Header, phase, media
        <5> QED  BY <5>1 DEF File!Next
      <4> QED  BY <4>3, <4>4
    <3> QED  BY <3>1, <3>3, <3>4, <3>5
  <2>3. ASSUME audio  PROVE [File!Next]_(File!vars)
    <3>1. PICK stamp \in nextStamp("audio") : audioRejected \/ audioFiltered \/ audioFrame(stamp)
      BY <2>3 DEF audio
    <3>2. isOpen /\ UNCHANGED file  BY <2>3 DEF audio
    <3>3. CASE audioRejected \/ audioFiltered
      <4>1. UNCHANGED <<isOpen, isInited, given>>
        BY <3>3 DEF audioRejected, audioFiltered, writerContext
      <4> QED  BY <3>2, <4>1 DEF File!vars, phase
    <3>4. CASE audioFrame(stamp)
      <4>1. isInited /\ UNCHANGED <<isOpen, isInited>>  BY <3>4 DEF audioFrame
      <4>2. media' = media \cup {"audio"}
        <5>1. /\ given["audio"] \in Nat /\ given'["audio"] = given["audio"] + 1
              /\ given'["video"] = given["video"]
          BY <2>0, <3>4 DEF audioFrame, Given, Track
        <5> QED  BY <5>1 DEF Track
      <4> HIDE DEF media
      <4>3. File!Packet("audio")  BY <3>2, <4>1, <4>2 DEF File!Packet, phase, media
      <4> QED  BY <4>3 DEF File!Next
    <3> QED  BY <3>1, <3>3, <3>4
  <2>4. ASSUME NEW save \in BOOLEAN, close(save)  PROVE File!Next
    <3>1. CASE save /\ isInited
      BY <2>4, <3>1 DEF close, File!Next, File!Save, phase
    <3>2. CASE ~(save /\ isInited)
      BY <2>4, <3>2 DEF close, File!Next, File!Discard, phase
    <3> QED  BY <3>1, <3>2
  <2> QED  BY <2>1, <2>2, <2>3, <2>4 DEF WriterNext, File!Next
<1> QED  BY <1>1, <1>2, Invariance, PTL DEF WriterSpec, KeepsFile, File!Spec
=============================================================================
