---------------------------- MODULE MCmediaProofs ----------------------------
(***************************************************************************)
(* Proofs about the units of MCmedia, one after the other.  No two of them *)
(* share a variable: the lemmas of a unit say that each of its actions     *)
(* keeps its invariant, which the steps of the others leave alone, and its *)
(* theorem is about every behaviour of MCmedia.                            *)
(*                                                                         *)
(*   recorder     a flag that is up was asked for, or is left over         *)
(*   decoder      one that is ready has its sets, its pictures their packet *)
(*   pacing       the clock has no reference, or a frame is behind it      *)
(*   timer        its sources are known, and its timeouts are counted       *)
(*   codecs       the pictures on the way are in order, the others dropped *)
(*   mp4 reader   what came of a stream ends with what went in since a seek *)
(*   live pusher  the queue holds the last frames without a gap            *)
(*   player       a buffer of an audio queue is in one place               *)
(***************************************************************************)
EXTENDS MCmedia, FiniteSetTheorems, SequenceTheorems, TLAPS

-----------------------------------------------------------------------------
(***************************************************************************)
(* The desktop recorder (XXfmRecorderC)                                    *)
(***************************************************************************)

\* The flag is up only for the take that is on and was asked to end, or left over.
TakeInv ==
  /\ pc \in {"None", "Idle", "Loop", "Receive", "End", "Stopping", "Result"}
  /\ isInterruptionRequested \in BOOLEAN /\ asked \in BOOLEAN /\ leftover \in BOOLEAN
  /\ pc # "None" /\ isInterruptionRequested
       => leftover \/ (asked /\ pc \in {"Loop", "Receive", "End"})
  /\ T!EndsForAReason

\* Every step of the loop and of stop keeps it.
LEMMA TakeNext ==
  ASSUME TakeInv, T!Next
  PROVE  TakeInv'
<1> USE DEF TakeInv, T!EndsForAReason
<1>1. CASE T!create
  <2>1. /\ pc' = "Idle" /\ isInterruptionRequested' \in BOOLEAN
        /\ leftover' = isInterruptionRequested' /\ asked' = asked
    BY <1>1 DEF T!create
  <2> QED BY <2>1
<1>6. CASE T!free
  BY <1>6 DEF T!free, T!flags
<1>7. CASE T!start
  BY <1>7 DEF T!start
<1>2. CASE T!leave \/ T!readFrame \/ T!tryAgain \/ T!receiveFrame
  <2>1. UNCHANGED <<isInterruptionRequested, asked, leftover>>
    BY <1>2 DEF T!leave, T!readFrame, T!tryAgain, T!receiveFrame, T!failure, T!goto, T!flags
  <2>2. pc \in {"Loop", "Receive"} /\ pc' \in {"Loop", "Receive", "End"}
    BY <1>2 DEF T!leave, T!readFrame, T!tryAgain, T!receiveFrame, T!failure, T!goto
  <2>3. pc' = "End" /\ takeResult' = "Finished" => isInterruptionRequested
    BY <1>2 DEF T!leave, T!readFrame, T!tryAgain, T!receiveFrame, T!failure, T!goto, T!interrupted
  <2> QED BY <2>1, <2>2, <2>3
<1>3. CASE T!endInterruption
  BY <1>3 DEF T!endInterruption, T!clearInterruption
<1>8. CASE T!endRunning
  BY <1>8 DEF T!endRunning
<1>9. CASE T!resultFunc
  BY <1>9 DEF T!resultFunc, T!flags
<1>4. CASE T!stop
  <2>1. asked' = (asked \/ T!recording) /\ UNCHANGED <<pc, isInterruptionRequested, takeResult, leftover>>
    BY <1>4 DEF T!stop, T!flags
  <2>2. asked' \in BOOLEAN /\ (asked => asked')  BY <2>1, Zenon
  <2> HIDE DEF T!recording
  <2> QED BY <2>1, <2>2
<1>5. CASE T!requestInterruption
  <2>1. /\ isInterruptionRequested' = TRUE /\ UNCHANGED <<pc, takeResult, asked>>
        /\ leftover' = (leftover \/ ~asked \/ pc \in {"Stopping", "Result", "Idle"})
    BY <1>5 DEF T!requestInterruption
  <2>2. leftover' \in BOOLEAN  BY <2>1, Zenon
  <2>3. leftover \/ ~asked \/ pc \in {"Stopping", "Result", "Idle"} => leftover'  BY <2>1, Zenon
  <2>4. pc # "None" => leftover' \/ (asked' /\ pc' \in {"Loop", "Receive", "End"})
    BY <2>1, <2>3
  <2> QED BY <2>1, <2>2, <2>3, <2>4
<1> QED BY <1>1, <1>2, <1>3, <1>4, <1>5, <1>6, <1>7, <1>8, <1>9 DEF T!Next, T!run

\* A take of the desktop recorder that ends without a failure was asked to end, or began
\* with the flag up.
THEOREM TakesEndForAReason == MediaSpec => []EndsForAReason
<1>1. MediaInit => TakeInv
  BY DEF MediaInit, T!Init, TakeInv, T!EndsForAReason
<1>2. TakeInv /\ [MediaNext]_MediaVars => TakeInv'
  <2> SUFFICES ASSUME TakeInv, [MediaNext]_MediaVars PROVE TakeInv'
    OBVIOUS
  <2>1. T!Next \/ UNCHANGED tVars
    BY DEF MediaNext, MediaVars
  <2> QED BY <2>1, TakeNext DEF tVars, TakeInv, T!EndsForAReason
<1>3. TakeInv => EndsForAReason
  BY DEF TakeInv, EndsForAReason
<1> QED BY <1>1, <1>2, <1>3, PTL DEF MediaSpec

-----------------------------------------------------------------------------
(***************************************************************************)
(* The hardware decoder (XXh26xDecoder)                                    *)
(***************************************************************************)

\* The bounds of the decoder, apart from the other assumptions.
LEMMA DecoderBounds == H264 \in BOOLEAN /\ MaxVersion \in Nat \ {0} /\ MaxPicture \in Nat \ {0}
  BY MediaAssumption

\* Its types, one by one, and what PictureSound says.
PictureInv ==
  /\ isInited \in BOOLEAN /\ invalid \in BOOLEAN
  /\ vps \in 0..MaxVersion /\ sps \in 0..MaxVersion /\ pps \in 0..MaxVersion
  /\ description \in 0..MaxVersion /\ session \in 0..MaxVersion /\ version \in 1..MaxVersion
  /\ pixel \in 0..MaxPicture /\ result \in 0..MaxPicture /\ given \in 0..MaxPicture
  /\ picture \in 0..MaxPicture
  /\ D!PictureOfPacket /\ D!ReadyToDecode

\* initDecode makes a session of the sets of the packet or finds one that is ready.
LEMMA InitDecode ==
  ASSUME PictureInv, version' = version, NEW packet, D!initDecode(packet)
  PROVE  /\ isInited' \in BOOLEAN /\ invalid' \in BOOLEAN
         /\ vps' \in 0..MaxVersion /\ sps' \in 0..MaxVersion /\ pps' \in 0..MaxVersion
         /\ description' \in 0..MaxVersion /\ session' \in 0..MaxVersion
         /\ D!ReadyToDecode'
<1> USE DEF PictureInv, D!ReadyToDecode, D!None
<1>0. 0 \in 0..MaxVersion /\ version \in 0..MaxVersion /\ version # 0
  BY DecoderBounds
<1>1. CASE isInited
  BY <1>1 DEF D!initDecode
<1>2. CASE ~isInited
  <2>1. /\ "SPS" \in packet /\ "PPS" \in packet /\ (~H264 => "VPS" \in packet)
        /\ D!mediaInfo(packet)
        /\ description' = version /\ session' = version /\ isInited' = TRUE /\ invalid' = FALSE
    BY <1>2 DEF D!initDecode, D!lacksSets, D!Sets
  <2> QED BY <1>0, <2>1 DEF D!mediaInfo
<1> QED BY <1>1, <1>2

\* The next packet's number is that of a picture.
LEMMA NextPicture ==
  ASSUME PictureInv, NEW packet, D!decodeData(packet)
  PROVE  picture' \in 1..MaxPicture /\ given' = picture' /\ version' = version
<1>1. picture' = IF picture = MaxPicture THEN 1 ELSE picture + 1
  BY DEF D!decodeData
<1>2. picture \in 0..MaxPicture /\ MaxPicture \in Nat \ {0}
  BY DecoderBounds DEF PictureInv
<1>3. picture' \in 1..MaxPicture
  BY <1>1, <1>2
<1> QED BY <1>3 DEF D!decodeData

\* A call of decodeData and a step of the world around it keep it.
LEMMA PictureNext ==
  ASSUME PictureInv, D!Next
  PROVE  PictureInv'
<1> USE DEF PictureInv, D!PictureOfPacket, D!ReadyToDecode, D!None
<1>1. CASE D!newVersion
  BY <1>1, DecoderBounds DEF D!newVersion, D!decoder
<1>3. CASE D!invalidate
  BY <1>3 DEF D!invalidate, D!decoder
<1>2. ASSUME NEW packet \in D!Packet, D!decodeData(packet)
      PROVE  PictureInv'
  <2>0. /\ picture' \in 1..MaxPicture /\ picture' \in 0..MaxPicture /\ 0 \in 0..MaxPicture
        /\ given' = picture' /\ version' = version
    BY <1>2, NextPicture, DecoderBounds
  <2>1. CASE packet = {}
    BY <1>2, <2>0, <2>1 DEF D!decodeData, D!decoder
  <2>2. CASE packet # {}
    <3>0. D!call(packet)  BY <1>2, <2>2 DEF D!decodeData
    <3>1. CASE D!initFails(packet)
      <4>1. invalid' \in BOOLEAN /\ pixel' = pixel /\ result' = 0
        BY <3>1, Zenon DEF D!initFails
      <4>2. vps' \in 0..MaxVersion /\ sps' \in 0..MaxVersion /\ pps' \in 0..MaxVersion
        BY <3>1, DecoderBounds DEF D!initFails, D!mediaInfo
      <4>3. description' \in 0..MaxVersion /\ session' \in 0..MaxVersion /\ isInited' = FALSE
        BY <3>1, DecoderBounds DEF D!initFails, D!sessionFails
      <4> QED BY <2>0, <4>1, <4>2, <4>3
    <3>2. CASE D!noFrame(packet) \/ D!decoded(packet) \/ D!badData(packet)
      <4>1. D!initDecode(packet)
        BY <3>2 DEF D!noFrame, D!decoded, D!badData
      <4>2. \/ result' = 0 /\ pixel' = pixel
            \/ result' = pixel' /\ pixel' \in {0, picture'}
        BY <3>2 DEF D!noFrame, D!decoded, D!badData, D!setPixelBufferRef
      <4> QED BY <2>0, <4>1, <4>2, InitDecode
    <3>3. CASE D!sessionLost(packet)
      <4>1. /\ isInited' = FALSE /\ result' = 0 /\ vps' = 0 /\ sps' = 0 /\ pps' = 0
            /\ UNCHANGED <<description, session, invalid, pixel>>
        BY <3>3 DEF D!sessionLost, D!resetDecoder
      <4>2. 0 \in 0..MaxVersion  BY DecoderBounds
      <4> QED BY <2>0, <4>1, <4>2
    <3> QED BY <3>0, <3>1, <3>2, <3>3 DEF D!call
  <2> QED BY <2>1, <2>2
<1> QED BY <1>1, <1>2, <1>3 DEF D!Next

\* Whatever packets are lost and whenever a session is refused or taken away, a picture is
\* of the packet it was asked for, and a decoder that is ready has what its pictures need.
THEOREM PicturesOfPackets == MediaSpec => []PictureSound
<1>1. MediaInit => PictureInv
  <2>1. 0 \in 0..MaxVersion /\ 1 \in 1..MaxVersion /\ 0 \in 0..MaxPicture  BY DecoderBounds
  <2> QED BY <2>1 DEF MediaInit, D!Init, PictureInv, D!PictureOfPacket, D!ReadyToDecode, D!None
<1>2. PictureInv /\ [MediaNext]_MediaVars => PictureInv'
  <2> SUFFICES ASSUME PictureInv, [MediaNext]_MediaVars PROVE PictureInv'
    OBVIOUS
  <2>1. D!Next \/ UNCHANGED dVars
    BY DEF MediaNext, MediaVars
  <2> QED BY <2>1, PictureNext DEF dVars, PictureInv, D!PictureOfPacket, D!ReadyToDecode
<1>3. PictureInv => PictureSound
  BY DEF PictureInv, PictureSound, D!TypeOK
<1> QED BY <1>1, <1>2, <1>3, PTL DEF MediaSpec

-----------------------------------------------------------------------------
(***************************************************************************)
(* The pacing of frames (XXtimestampSyncer)                                *)
(***************************************************************************)

\* A frame is never early: the time left is below zero once there is a reference.
LEMMA NeverEarly ==
  ASSUME TypeOK, NEW msec \in Int, IS_MSEC(msec), timeliveRefer > 0
  PROVE  takeDiff(msec) < 0
<1>1. PICK first \in Timestamp : timestampRefer = Second * first /\ timeliveRefer <= now
  BY DEF TypeOK
<1>2. Second * MIN_MSEC_TIMESTAMP < Second * first
  <2>1. \A a, b, c \in Nat : a # 0 /\ b < c => a * b < a * c
    OBVIOUS
  <2>2. MIN_MSEC_TIMESTAMP < first /\ first \in Nat
    BY <1>1, SyncerAssumption DEF Timestamp
  <2>3. QED BY <2>1, <2>2, SyncerAssumption
<1>3. msec < timestampRefer
  <2>1. timestampRefer \in Int /\ Second * MIN_MSEC_TIMESTAMP \in Int
    BY <1>1, SyncerAssumption DEF Timestamp
  <2>2. QED BY <1>1, <1>2, <2>1, SyncerAssumption DEF IS_MSEC
<1>4. now \in Int /\ timeliveRefer \in Int /\ timestampRefer \in Int
  BY <1>1, SyncerAssumption DEF TypeOK, Timestamp
<1>5. QED BY <1>1, <1>3, <1>4 DEF takeDiff

\* A call of sync keeps the types and sleeps for none of its limits.
LEMMA SyncStep ==
  ASSUME TypeOK, NeverSleeps, NEW msec \in MIN_MSEC_TIMESTAMP..MAX_MSEC_TIMESTAMP,
         NEW max \in 0..MaxSync, NEW min \in 0..max, sync(msec, min, max)
  PROVE  TypeOK' /\ NeverSleeps'
<1>1. msec \in Int /\ min \in Int /\ min >= 0
  BY SyncerAssumption
<1>2. CASE ~IS_MSEC(msec)
  BY <1>2 DEF sync, TypeOK, NeverSleeps, Timestamp
<1>3. CASE IS_MSEC(msec) /\ timeliveRefer <= 0
  <2>1. msec \in Timestamp /\ msec # 0
    BY <1>1, <1>3, SyncerAssumption DEF IS_MSEC, Timestamp
  <2>2. timeliveRefer' = now /\ timestampRefer' = Second * msec
        /\ slept' = 0 /\ owed' = 0 /\ now' = now
    <3>1. ~(timeliveRefer > 0)  BY <1>3 DEF TypeOK
    <3>2. QED BY <1>3, <3>1 DEF sync, refer
  <2>3. QED BY <2>1, <2>2 DEF TypeOK, NeverSleeps, Timestamp
<1>4. CASE IS_MSEC(msec) /\ ~(timeliveRefer <= 0)
  <2>1. timeliveRefer > 0
    BY <1>4 DEF TypeOK
  <2>2. ~(min <= takeDiff(msec))
    <3>1. takeDiff(msec) < 0
      BY <1>1, <1>4, <2>1, NeverEarly
    <3>2. takeDiff(msec) \in Int
      BY <1>1, SyncerAssumption DEF takeDiff, TypeOK, Timestamp
    <3>3. QED BY <1>1, <3>1, <3>2
  <2>3. slept' = 0 /\ now' = now + slept' /\ UNCHANGED <<timeliveRefer, timestampRefer>>
        /\ owed' = allowed(ahead(msec), min, max)
    BY <1>4, <2>1, <2>2 DEF sync, allowed
  <2>4. owed' \in Nat
    <3>1. ahead(msec) \in Int
      <4>1. timestampRefer \in Int /\ now \in Int /\ timeliveRefer \in Int
        BY SyncerAssumption DEF TypeOK, Timestamp
      <4>2. Second \in Nat /\ Second > 0  BY SyncerAssumption
      <4>3. timestampRefer \div Second \in Int  BY <4>1, <4>2
      <4>4. QED BY <1>1, <4>1, <4>3 DEF ahead
    <3>2. QED BY <1>1, <2>3, <3>1 DEF allowed
  <2>5. now' = now
    BY <2>3 DEF TypeOK
  <2>6. QED BY <2>3, <2>4, <2>5 DEF TypeOK, NeverSleeps, Timestamp
<1>5. QED BY <1>2, <1>3, <1>4

\* sync never sleeps, whatever the time stamps and the limits: the constants of the code
\* make it so, and no frame is ever held.
THEOREM SyncNeverSleeps == MediaSpec => []NeverSleeps
<1>1. MediaInit => TypeOK /\ NeverSleeps
  BY DEF MediaInit, Init, TypeOK, NeverSleeps, Timestamp
<1>2. TypeOK /\ NeverSleeps /\ [MediaNext]_MediaVars => TypeOK' /\ NeverSleeps'
  <2> SUFFICES ASSUME TypeOK, NeverSleeps, [MediaNext]_MediaVars
               PROVE  TypeOK' /\ NeverSleeps'
    OBVIOUS
  <2>1. CASE tick
    BY <2>1 DEF tick, TypeOK, NeverSleeps, Timestamp
  <2>2. CASE reset
    BY <2>2 DEF reset, TypeOK, NeverSleeps, Timestamp
  <2>3. CASE \E msec \in MIN_MSEC_TIMESTAMP..MAX_MSEC_TIMESTAMP, max \in 0..MaxSync :
               \E min \in 0..max : sync(msec, min, max)
    BY <2>3, SyncStep
  <2>4. CASE UNCHANGED sVars
    BY <2>4 DEF sVars, TypeOK, NeverSleeps, Timestamp
  <2>5. Next \/ UNCHANGED sVars
    BY DEF MediaNext, MediaVars
  <2>6. QED BY <2>1, <2>2, <2>3, <2>4, <2>5 DEF Next
<1>3. QED BY <1>1, <1>2, PTL DEF MediaSpec

-----------------------------------------------------------------------------
(***************************************************************************)
(* The timer (XXtimer)                                                     *)
(***************************************************************************)

\* The bounds of the timer, apart from the other assumptions.
LEMMA TimerBounds == MaxStart \in Nat /\ MaxTick \in Nat
  BY MediaAssumption

Handlers == 1..MaxStart
Stops == {"Test", "Cancel", "Nil", "Flag"}
OwnersPlaces == Stops \cup {"New", "Idle", "Single", "Repeated", "Reset", "Make", "Resume", "Run",
                            "Crashed"}
HandlersPlaces == Stops \cup {"Idle", "Called", "Counted", "Timeout", "Tell", "Crashed"}

TimerTyped ==
  /\ timer \in 0..MaxStart /\ starts \in 0..MaxStart /\ timing \in BOOLEAN /\ index \in Int
  /\ singleShot \in BOOLEAN /\ isMainThreadBlock \in BOOLEAN /\ wasSingle \in BOOLEAN
  /\ where \in [0..MaxStart -> M!Place]
  /\ where[0] \in OwnersPlaces /\ \A s \in Handlers : where[s] \in HandlersPlaces
  /\ returnTo \in {"Idle", "Single", "Repeated", "Reset"}
  /\ resumed \subseteq 1..starts /\ cancelled \subseteq 1..starts
  /\ mainQueue \in Seq(Handlers) /\ told \in Seq(Int) /\ stopped \in BOOLEAN /\ late \in BOOLEAN

\* The timer's source is the last one made, the others are cancelled, and none is called before
\* it is resumed; where the owner has given up the source or has not made it yet there is none.
TimerSources ==
  /\ timer \in {0, starts} /\ \A s \in 1..starts : s # timer => s \in cancelled
  /\ \A s \in Handlers : where[s] # "Idle" => s \in resumed
  /\ where[0] \in {"Flag", "Single", "Repeated", "Reset", "Make"} => timer = 0
  /\ where[0] \in {"Single", "Repeated"} => ~timing /\ stopped
  /\ where[0] \in Stops /\ returnTo \in {"Single", "Repeated"} => stopped
  /\ where[0] \in Stops /\ returnTo = "Reset" => starts < MaxStart
  /\ where[0] \in {"Reset", "Make"} => starts < MaxStart
  /\ where[0] = "Resume" => starts \notin resumed /\ starts > 0
  /\ where[0] = "New" => starts = 0 /\ mainQueue = <<>> /\ ~timing
  /\ isMainThreadBlock \/ mainQueue = <<>>

\* No handler of a timer that never was a single shot stops it.
TimerRepeats ==
  ~wasSingle =>
    /\ ~singleShot /\ \A s \in Handlers : where[s] \notin Stops \cup {"Crashed"}
    /\ where[0] # "Crashed"
    /\ where[0] \in {"New", "Idle", "Test"} => (timing <=> timer # 0)
    /\ where[0] \in {"Idle", "Test", "Cancel", "Run"} /\ timer # 0 => timer \in resumed \ cancelled
    /\ where[0] \in {"Cancel", "Nil", "Resume", "Run"} => timer # 0
    /\ where[0] = "Resume" => timer \notin cancelled
    /\ where[0] \in {"Reset", "Make"} => ~timing

\* Without a late handler every timeout counted since start is told, waits on the main thread,
\* or is in the handler of the last source.
Underway ==
  IF \/ where[starts] \in Stops \cup {"Timeout", "Tell", "Crashed"}
     \/ (where[starts] = "Counted" /\ index >= 0)
  THEN 1 ELSE 0
Timeouts == IF index < 0 THEN 0 ELSE index + 1

TimerCount ==
  ~late =>
    /\ starts = 0 => Len(told) = 0 /\ Len(mainQueue) = 0
    /\ starts > 0 => Len(told) + Len(mainQueue) + Underway = Timeouts
    /\ \A i \in 1..Len(told) : /\ told[i] \in i - 1..index
                               /\ ~isMainThreadBlock => told[i] = i - 1

TimerCalls ==
  ~late =>
    /\ \A s \in Handlers : where[s] # "Idle" => s = starts
    /\ where[0] = "Make" => /\ index = -2 /\ told = <<>> /\ mainQueue = <<>>
                            /\ \A s \in Handlers : where[s] = "Idle"
    /\ starts > 0 /\ where[starts] \in Stops \cup {"Timeout", "Tell"} => index >= 0
    /\ starts > 0 /\ singleShot /\ ~stopped =>
         /\ index <= 0
         /\ index = 0 => \/ where[starts] \in {"Counted", "Timeout", "Test", "Cancel", "Nil"}
                         \/ starts \in cancelled /\ where[starts] # "Called"

\* A single shot that stops the timer has expired.
TimerExpires ==
  ~late =>
    /\ where[0] = "Resume" => timer = starts
    /\ starts > 0 /\ where[starts] \in {"Test", "Cancel", "Nil"} /\ timer # 0 => singleShot
    /\ starts > 0 /\ where[starts] = "Flag" => timer = 0
    /\ where[0] = "Idle" /\ timer # 0 => timing
    /\ where[0] = "Idle" /\ timing /\ timer = 0 => singleShot /\ index >= 0
    /\ where[0] = "Run" /\ timer = 0 => singleShot /\ index >= 0

TimerInv ==
  TimerTyped /\ TimerSources /\ TimerRepeats /\ TimerCount /\ TimerCalls /\ TimerExpires

\* A thread that goes somewhere leaves the others where they are.
LEMMA TimerGoes ==
  ASSUME TimerTyped, NEW t \in 0..MaxStart, NEW p \in M!Place, M!go(t, p)
  PROVE  /\ where' \in [0..MaxStart -> M!Place] /\ where'[t] = p
         /\ \A u \in 0..MaxStart : u # t => where'[u] = where[u]
  BY DEF TimerTyped, M!go
\* The owner makes the timer, starts and stops it.
LEMMA TimerCreate ==
  ASSUME TimerInv, NEW s \in BOOLEAN, NEW m \in BOOLEAN, M!create(s, m)
  PROVE  TimerInv'
<1>1. /\ where[0] = "New"
      /\ singleShot' = s /\ isMainThreadBlock' = m /\ wasSingle' = s
      /\ UNCHANGED <<timer, timing, index, returnTo, starts, resumed, cancelled,
                     mainQueue, told, stopped, late>>
  BY TimerBounds DEF M!create, M!at, M!Owner, M!settings, M!sources, M!news
<1>2. /\ 0 \in 0..MaxStart /\ "Idle" \in M!Place
      /\ M!go(0, "Idle")
  BY TimerBounds
     DEF M!create, M!at, M!Owner, M!settings, M!sources, M!news, M!Place, TimerInv, TimerTyped,
         M!Source
<1>3. /\ where' \in [0..MaxStart -> M!Place] /\ where'[0] = "Idle"
      /\ \A u \in 0..MaxStart : u # 0 => where'[u] = where[u]
  BY <1>2, TimerGoes DEF TimerInv
<1>4. TimerTyped'
  BY <1>1, <1>2, <1>3, TimerBounds
     DEF TimerInv, TimerTyped, Handlers, Stops, OwnersPlaces, HandlersPlaces
<1>5. TimerSources'
  BY <1>1, <1>2, <1>3, TimerBounds DEF TimerInv, TimerSources, TimerTyped, Handlers, Stops
<1>6. TimerRepeats'
  BY <1>1, <1>2, <1>3, TimerBounds
     DEF TimerInv, TimerRepeats, TimerTyped, TimerSources, Handlers, Stops
<1>7. TimerCount'
  BY <1>1, <1>2, <1>3, TimerBounds
     DEF TimerInv, TimerCount, TimerTyped, TimerSources, TimerCalls, Handlers, Stops, Underway,
         Timeouts
<1>8. TimerCalls'
  BY <1>1, <1>2, <1>3, TimerBounds
     DEF TimerInv, TimerCalls, TimerTyped, TimerSources, TimerCount, Handlers, Stops
<1>9. TimerExpires'
  BY <1>1, <1>2, <1>3, TimerBounds
     DEF TimerInv, TimerExpires, TimerTyped, TimerSources, TimerCalls, Handlers, Stops
<1> QED BY <1>4, <1>5, <1>6, <1>7, <1>8, <1>9 DEF TimerInv

\* stop and resetDelay go into stop.
LEMMA TimerStop ==
  ASSUME TimerInv, M!stop
  PROVE  TimerInv'
<1>1. /\ where[0] = "Idle"
      /\ stopped' = TRUE
      /\ returnTo' = "Idle"
      /\ UNCHANGED <<timer, timing, index, singleShot, isMainThreadBlock, wasSingle,
                     starts, resumed, cancelled, mainQueue, told, late>>
  BY TimerBounds DEF M!stop, M!at, M!Owner, M!settings, M!sources, M!news
<1>2. /\ 0 \in 0..MaxStart /\ "Test" \in M!Place
      /\ M!go(0, "Test")
  BY TimerBounds
     DEF M!stop, M!at, M!Owner, M!settings, M!sources, M!news, M!Place, TimerInv, TimerTyped,
         M!Source
<1>3. /\ where' \in [0..MaxStart -> M!Place] /\ where'[0] = "Test"
      /\ \A u \in 0..MaxStart : u # 0 => where'[u] = where[u]
  BY <1>2, TimerGoes DEF TimerInv
<1>4. TimerTyped'
  BY <1>1, <1>2, <1>3, TimerBounds
     DEF TimerInv, TimerTyped, Handlers, Stops, OwnersPlaces, HandlersPlaces
<1>5. TimerSources'
  BY <1>1, <1>2, <1>3, TimerBounds DEF TimerInv, TimerSources, TimerTyped, Handlers, Stops
<1>6. TimerRepeats'
  BY <1>1, <1>2, <1>3, TimerBounds
     DEF TimerInv, TimerRepeats, TimerTyped, TimerSources, Handlers, Stops
<1>7. TimerCount'
  BY <1>1, <1>2, <1>3, TimerBounds
     DEF TimerInv, TimerCount, TimerTyped, TimerSources, TimerCalls, Handlers, Stops, Underway,
         Timeouts
<1>8. TimerCalls'
  BY <1>1, <1>2, <1>3, TimerBounds
     DEF TimerInv, TimerCalls, TimerTyped, TimerSources, TimerCount, Handlers, Stops
<1>9. TimerExpires'
  BY <1>1, <1>2, <1>3, TimerBounds
     DEF TimerInv, TimerExpires, TimerTyped, TimerSources, TimerCalls, Handlers, Stops
<1> QED BY <1>4, <1>5, <1>6, <1>7, <1>8, <1>9 DEF TimerInv

\* stop and resetDelay go into stop.
LEMMA TimerDelay ==
  ASSUME TimerInv, NEW s \in BOOLEAN, M!resetDelay(s)
  PROVE  TimerInv'
<1>1. /\ where[0] = "Idle"
      /\ stopped' = TRUE
      /\ returnTo' \in {"Single", "Repeated"}
      /\ UNCHANGED <<timer, timing, index, singleShot, isMainThreadBlock, wasSingle,
                     starts, resumed, cancelled, mainQueue, told, late>>
  BY TimerBounds DEF M!resetDelay, M!at, M!Owner, M!settings, M!sources, M!news
<1>2. /\ 0 \in 0..MaxStart /\ "Test" \in M!Place
      /\ M!go(0, "Test")
  BY TimerBounds
     DEF M!resetDelay, M!at, M!Owner, M!settings, M!sources, M!news, M!Place, TimerInv,
         TimerTyped, M!Source
<1>3. /\ where' \in [0..MaxStart -> M!Place] /\ where'[0] = "Test"
      /\ \A u \in 0..MaxStart : u # 0 => where'[u] = where[u]
  BY <1>2, TimerGoes DEF TimerInv
<1>4. TimerTyped'
  BY <1>1, <1>2, <1>3, TimerBounds
     DEF TimerInv, TimerTyped, Handlers, Stops, OwnersPlaces, HandlersPlaces
<1>5. TimerSources'
  BY <1>1, <1>2, <1>3, TimerBounds DEF TimerInv, TimerSources, TimerTyped, Handlers, Stops
<1>6. TimerRepeats'
  BY <1>1, <1>2, <1>3, TimerBounds
     DEF TimerInv, TimerRepeats, TimerTyped, TimerSources, Handlers, Stops
<1>7. TimerCount'
  BY <1>1, <1>2, <1>3, TimerBounds
     DEF TimerInv, TimerCount, TimerTyped, TimerSources, TimerCalls, Handlers, Stops, Underway,
         Timeouts
<1>8. TimerCalls'
  BY <1>1, <1>2, <1>3, TimerBounds
     DEF TimerInv, TimerCalls, TimerTyped, TimerSources, TimerCount, Handlers, Stops
<1>9. TimerExpires'
  BY <1>1, <1>2, <1>3, TimerBounds
     DEF TimerInv, TimerExpires, TimerTyped, TimerSources, TimerCalls, Handlers, Stops
<1> QED BY <1>4, <1>5, <1>6, <1>7, <1>8, <1>9 DEF TimerInv

\* resetDelay sets what the timer is once it has stopped.
LEMMA TimerSettings ==
  ASSUME TimerInv, M!resetSettings
  PROVE  TimerInv'
<1>1. /\ where[0] \in {"Single", "Repeated"}
      /\ singleShot' \in BOOLEAN /\ wasSingle' = (wasSingle \/ singleShot')
      /\ UNCHANGED <<timer, timing, index, isMainThreadBlock, returnTo, starts, resumed,
                     cancelled, mainQueue, told, stopped, late>>
  BY TimerBounds DEF M!resetSettings, M!at, M!Owner, M!settings, M!sources, M!news
<1>2. /\ 0 \in 0..MaxStart /\ "Idle" \in M!Place
      /\ M!go(0, "Idle")
  BY TimerBounds
     DEF M!resetSettings, M!at, M!Owner, M!settings, M!sources, M!news, M!Place, TimerInv,
         TimerTyped, M!Source
<1>3. /\ where' \in [0..MaxStart -> M!Place] /\ where'[0] = "Idle"
      /\ \A u \in 0..MaxStart : u # 0 => where'[u] = where[u]
  BY <1>2, TimerGoes DEF TimerInv
<1>4. TimerTyped'
  BY <1>1, <1>2, <1>3, TimerBounds
     DEF TimerInv, TimerTyped, Handlers, Stops, OwnersPlaces, HandlersPlaces
<1>5. TimerSources'
  BY <1>1, <1>2, <1>3, TimerBounds DEF TimerInv, TimerSources, TimerTyped, Handlers, Stops
<1>6. TimerRepeats'
  BY <1>1, <1>2, <1>3, TimerBounds
     DEF TimerInv, TimerRepeats, TimerTyped, TimerSources, Handlers, Stops
<1>7. TimerCount'
  BY <1>1, <1>2, <1>3, TimerBounds
     DEF TimerInv, TimerCount, TimerTyped, TimerSources, TimerCalls, Handlers, Stops, Underway,
         Timeouts
<1>8. TimerCalls'
  BY <1>1, <1>2, <1>3, TimerBounds
     DEF TimerInv, TimerCalls, TimerTyped, TimerSources, TimerCount, Handlers, Stops
<1>9. TimerExpires'
  BY <1>1, <1>2, <1>3, TimerBounds
     DEF TimerInv, TimerExpires, TimerTyped, TimerSources, TimerCalls, Handlers, Stops
<1> QED BY <1>4, <1>5, <1>6, <1>7, <1>8, <1>9 DEF TimerInv

\* start goes into stop if there is a source.
LEMMA TimerStart ==
  ASSUME TimerInv, M!start
  PROVE  TimerInv'
<1>1. /\ where[0] = "Idle" /\ starts < MaxStart
      /\ timer # 0 \/ where'[0] = "Reset"
      /\ timer = 0 \/ where'[0] = "Test"
      /\ returnTo' = "Reset"
      /\ UNCHANGED <<timer, timing, index, singleShot, isMainThreadBlock, wasSingle,
                     starts, resumed, cancelled, mainQueue, told, stopped, late>>
  BY TimerBounds
     DEF M!start, M!isOld, M!go, TimerInv, TimerTyped, M!at, M!Owner, M!settings, M!sources,
         M!news
<1>2. /\ 0 \in 0..MaxStart /\ (IF timer # 0 THEN "Test" ELSE "Reset") \in M!Place
      /\ M!go(0, (IF timer # 0 THEN "Test" ELSE "Reset"))
  BY TimerBounds
     DEF M!start, M!isOld, M!go, TimerInv, TimerTyped, M!at, M!Owner, M!settings, M!sources,
         M!news, M!Place, TimerInv, TimerTyped, M!Source
<1>3. /\ where' \in [0..MaxStart -> M!Place] /\ where'[0] = (IF timer # 0 THEN "Test" ELSE "Reset")
      /\ \A u \in 0..MaxStart : u # 0 => where'[u] = where[u]
  BY <1>2, TimerGoes DEF TimerInv
<1>4. TimerTyped'
  BY <1>1, <1>2, <1>3, TimerBounds
     DEF TimerInv, TimerTyped, Handlers, Stops, OwnersPlaces, HandlersPlaces
<1>5. TimerSources'
  BY <1>1, <1>2, <1>3, TimerBounds DEF TimerInv, TimerSources, TimerTyped, Handlers, Stops
<1>6. TimerRepeats'
  BY <1>1, <1>2, <1>3, TimerBounds
     DEF TimerInv, TimerRepeats, TimerTyped, TimerSources, Handlers, Stops
<1>7. TimerCount'
  BY <1>1, <1>2, <1>3, TimerBounds
     DEF TimerInv, TimerCount, TimerTyped, TimerSources, TimerCalls, Handlers, Stops, Underway,
         Timeouts
<1>8. TimerCalls'
  BY <1>1, <1>2, <1>3, TimerBounds
     DEF TimerInv, TimerCalls, TimerTyped, TimerSources, TimerCount, Handlers, Stops
<1>9. TimerExpires'
  BY <1>1, <1>2, <1>3, TimerBounds
     DEF TimerInv, TimerExpires, TimerTyped, TimerSources, TimerCalls, Handlers, Stops
<1> QED BY <1>4, <1>5, <1>6, <1>7, <1>8, <1>9 DEF TimerInv

\* What is under way when start resets the index is late.
LEMMA TimerReset ==
  ASSUME TimerInv, M!startReset
  PROVE  TimerInv'
<1>1. /\ where[0] = "Reset"
      /\ index' = -2 /\ told' = <<>> /\ stopped' = FALSE
      /\ late' \in BOOLEAN /\ (~late' => mainQueue = <<>> /\ \A s \in Handlers : where[s] = "Idle")
      /\ UNCHANGED <<timer, timing, singleShot, isMainThreadBlock, wasSingle, returnTo,
                     starts, resumed, cancelled, mainQueue>>
  BY TimerBounds
     DEF M!startReset, M!Source, Handlers, M!at, M!Owner, M!settings, M!sources, M!news
<1>2. /\ 0 \in 0..MaxStart /\ "Make" \in M!Place
      /\ M!go(0, "Make")
  BY TimerBounds
     DEF M!startReset, M!Source, Handlers, M!at, M!Owner, M!settings, M!sources, M!news,
         M!Place, TimerInv, TimerTyped, M!Source
<1>3. /\ where' \in [0..MaxStart -> M!Place] /\ where'[0] = "Make"
      /\ \A u \in 0..MaxStart : u # 0 => where'[u] = where[u]
  BY <1>2, TimerGoes DEF TimerInv
<1>4. ~late' => mainQueue = <<>> /\ \A s \in Handlers : where'[s] = "Idle"
  BY <1>1, <1>3, TimerBounds DEF Handlers
<1>5. starts \in 0..MaxStart /\ Len(told') = 0 /\ (mainQueue = <<>> => Len(mainQueue) = 0)
  BY <1>1 DEF TimerInv, TimerTyped
<1>6. ~late' => starts = 0 \/ (Underway' = 0 /\ Timeouts' = 0)
  BY <1>1, <1>4, <1>5, TimerBounds DEF Underway, Timeouts, Handlers, Stops
<1>7. TimerTyped'
  <2>1. /\ resumed' \subseteq 1..starts' /\ cancelled' \subseteq 1..starts'
        /\ timer' \in 0..MaxStart /\ starts' \in 0..MaxStart
    <3>1. timer' \in 0..MaxStart /\ starts' \in 0..MaxStart /\ timer' <= starts' /\ starts <= starts'
      BY <1>1, TimerBounds DEF TimerInv, TimerTyped, TimerSources
    <3>2. timer = 0 \/ timer \in 1..starts
      BY TimerBounds DEF TimerInv, TimerTyped, TimerSources
    <3>3. \A r \in resumed' \cup cancelled' : r \in 1..starts
      BY <1>1, <3>2 DEF TimerInv, TimerTyped
    <3>4. 1..starts \subseteq 1..starts'
      BY <3>1, TimerBounds DEF TimerInv, TimerTyped
    <3> QED BY <3>1, <3>3, <3>4
  <2>2. where'[0] \in OwnersPlaces /\ \A s \in Handlers : where'[s] \in HandlersPlaces
    BY <1>1, <1>2, <1>3, TimerBounds
       DEF TimerInv, TimerTyped, Handlers, Stops, OwnersPlaces, HandlersPlaces
  <2>3. mainQueue' \in Seq(Handlers) /\ told' \in Seq(Int) /\ index' \in Int
    BY <1>1 DEF TimerInv, TimerTyped
  <2> QED BY <1>1, <1>3, <2>1, <2>2, <2>3 DEF TimerInv, TimerTyped
<1>8. TimerSources'
  BY <1>1, <1>2, <1>3, <1>4, <1>5, <1>6, TimerBounds
     DEF TimerInv, TimerSources, TimerTyped, Handlers, Stops
<1>9. TimerRepeats'
  BY <1>1, <1>2, <1>3, <1>4, <1>5, <1>6, TimerBounds
     DEF TimerInv, TimerRepeats, TimerTyped, TimerSources, Handlers, Stops
<1>10. TimerCount'
  BY <1>1, <1>4, <1>5, <1>6 DEF TimerCount
<1>11. TimerCalls'
  BY <1>1, <1>3, <1>4, <1>5, TimerBounds DEF TimerCalls, Handlers, Stops
<1>12. TimerExpires'
  BY <1>1, <1>2, <1>3, <1>4, <1>5, <1>6, TimerBounds
     DEF TimerInv, TimerExpires, TimerTyped, TimerSources, TimerCalls, Handlers, Stops
<1> QED BY <1>7, <1>8, <1>9, <1>10, <1>11, <1>12 DEF TimerInv

\* The new source is the timer's.
LEMMA TimerMake ==
  ASSUME TimerInv, M!startMake
  PROVE  TimerInv'
<1>1. /\ where[0] = "Make"
      /\ starts' = starts + 1 /\ timer' = starts + 1 /\ cancelled' = cancelled \cup ({timer} \ {0})
      /\ UNCHANGED <<timing, index, singleShot, isMainThreadBlock, wasSingle, returnTo,
                     resumed, mainQueue, told, stopped, late>>
  BY TimerBounds DEF M!startMake, M!assign, M!at, M!Owner, M!settings, M!sources, M!news
<1>2. /\ 0 \in 0..MaxStart /\ "Resume" \in M!Place
      /\ M!go(0, "Resume")
  BY TimerBounds
     DEF M!startMake, M!assign, M!at, M!Owner, M!settings, M!sources, M!news, M!Place, TimerInv,
         TimerTyped, M!Source
<1>3. /\ where' \in [0..MaxStart -> M!Place] /\ where'[0] = "Resume"
      /\ \A u \in 0..MaxStart : u # 0 => where'[u] = where[u]
  BY <1>2, TimerGoes DEF TimerInv
<1>4. /\ starts \in 0..MaxStart /\ starts < MaxStart /\ starts' \in Handlers
      /\ resumed \subseteq 1..starts /\ starts' # 0
  BY <1>1, TimerBounds DEF TimerInv, TimerTyped, TimerSources, Handlers
<1>5. where'[starts'] = "Idle"
  BY <1>1, <1>3, <1>4, TimerBounds DEF TimerInv, TimerSources, Handlers
<1>6. ~late => /\ index = -2 /\ Len(told) = 0 /\ Len(mainQueue) = 0
               /\ \A s \in Handlers : where'[s] = "Idle"
  BY <1>1, <1>3, TimerBounds DEF TimerInv, TimerCalls, Handlers
<1>7. ~late => Underway' = 0 /\ Timeouts' = 0
  BY <1>1, <1>5, <1>6 DEF Underway, Timeouts, Stops
<1>8. TimerTyped'
  <2>1. /\ resumed' \subseteq 1..starts' /\ cancelled' \subseteq 1..starts'
        /\ timer' \in 0..MaxStart /\ starts' \in 0..MaxStart
    <3>1. timer' \in 0..MaxStart /\ starts' \in 0..MaxStart /\ timer' <= starts' /\ starts <= starts'
      BY <1>1, TimerBounds DEF TimerInv, TimerTyped, TimerSources
    <3>2. timer = 0 \/ timer \in 1..starts
      BY TimerBounds DEF TimerInv, TimerTyped, TimerSources
    <3>3. \A r \in resumed' \cup cancelled' : r \in 1..starts
      BY <1>1, <3>2 DEF TimerInv, TimerTyped
    <3>4. 1..starts \subseteq 1..starts'
      BY <3>1, TimerBounds DEF TimerInv, TimerTyped
    <3> QED BY <3>1, <3>3, <3>4
  <2>2. where'[0] \in OwnersPlaces /\ \A s \in Handlers : where'[s] \in HandlersPlaces
    BY <1>1, <1>2, <1>3, TimerBounds
       DEF TimerInv, TimerTyped, Handlers, Stops, OwnersPlaces, HandlersPlaces
  <2>3. mainQueue' \in Seq(Handlers) /\ told' \in Seq(Int) /\ index' \in Int
    BY <1>1 DEF TimerInv, TimerTyped
  <2> QED BY <1>1, <1>3, <2>1, <2>2, <2>3 DEF TimerInv, TimerTyped
<1>9. TimerSources'
  BY <1>1, <1>2, <1>3, TimerBounds DEF TimerInv, TimerSources, TimerTyped, Handlers, Stops
<1>10. TimerRepeats'
  BY <1>1, <1>2, <1>3, TimerBounds
     DEF TimerInv, TimerRepeats, TimerTyped, TimerSources, Handlers, Stops
<1>11. TimerCount'
  BY <1>1, <1>4, <1>6, <1>7 DEF TimerCount
<1>12. TimerCalls'
  BY <1>1, <1>3, <1>4, <1>5, <1>6 DEF TimerCalls, Handlers, Stops
<1>13. TimerExpires'
  BY <1>1, <1>2, <1>3, TimerBounds
     DEF TimerInv, TimerExpires, TimerTyped, TimerSources, TimerCalls, Handlers, Stops
<1> QED BY <1>8, <1>9, <1>10, <1>11, <1>12, <1>13 DEF TimerInv

\* It is resumed, if a handler has left it.
LEMMA TimerResume ==
  ASSUME TimerInv, M!startResume
  PROVE  TimerInv'
<1>1. /\ where[0] = "Resume"
      /\ timer = 0 => resumed' = resumed
      /\ timer # 0 => resumed' = resumed \cup {timer}
      /\ UNCHANGED <<timer, timing, index, singleShot, isMainThreadBlock, wasSingle,
                     returnTo, starts, cancelled, mainQueue, told, stopped, late>>
  BY TimerBounds DEF M!startResume, M!unsuspend, M!at, M!Owner, M!settings, M!sources, M!news
<1>2. /\ 0 \in 0..MaxStart /\ (IF timer = 0 THEN "Crashed" ELSE "Run") \in M!Place
      /\ M!go(0, (IF timer = 0 THEN "Crashed" ELSE "Run"))
  BY TimerBounds
     DEF M!startResume, M!unsuspend, M!at, M!Owner, M!settings, M!sources, M!news, M!Place,
         TimerInv, TimerTyped, M!Source
<1>3. /\ where' \in [0..MaxStart -> M!Place] /\ where'[0] = (IF timer = 0 THEN "Crashed" ELSE "Run")
      /\ \A u \in 0..MaxStart : u # 0 => where'[u] = where[u]
  BY <1>2, TimerGoes DEF TimerInv
<1>4. TimerTyped'
  <2>1. /\ resumed' \subseteq 1..starts' /\ cancelled' \subseteq 1..starts'
        /\ timer' \in 0..MaxStart /\ starts' \in 0..MaxStart
    <3>1. timer' \in 0..MaxStart /\ starts' \in 0..MaxStart /\ timer' <= starts' /\ starts <= starts'
      BY <1>1, TimerBounds DEF TimerInv, TimerTyped, TimerSources
    <3>2. timer = 0 \/ timer \in 1..starts
      BY TimerBounds DEF TimerInv, TimerTyped, TimerSources
    <3>3. \A r \in resumed' \cup cancelled' : r \in 1..starts
      BY <1>1, <3>2 DEF TimerInv, TimerTyped
    <3>4. 1..starts \subseteq 1..starts'
      BY <3>1, TimerBounds DEF TimerInv, TimerTyped
    <3> QED BY <3>1, <3>3, <3>4
  <2>2. where'[0] \in OwnersPlaces /\ \A s \in Handlers : where'[s] \in HandlersPlaces
    BY <1>1, <1>2, <1>3, TimerBounds
       DEF TimerInv, TimerTyped, Handlers, Stops, OwnersPlaces, HandlersPlaces
  <2>3. mainQueue' \in Seq(Handlers) /\ told' \in Seq(Int) /\ index' \in Int
    BY <1>1 DEF TimerInv, TimerTyped
  <2> QED BY <1>1, <1>3, <2>1, <2>2, <2>3 DEF TimerInv, TimerTyped
<1>5. TimerSources'
  BY <1>1, <1>2, <1>3, TimerBounds DEF TimerInv, TimerSources, TimerTyped, Handlers, Stops
<1>6. TimerRepeats'
  BY <1>1, <1>2, <1>3, TimerBounds
     DEF TimerInv, TimerRepeats, TimerTyped, TimerSources, Handlers, Stops
<1>7. TimerCount'
  BY <1>1, <1>2, <1>3, TimerBounds
     DEF TimerInv, TimerCount, TimerTyped, TimerSources, TimerCalls, Handlers, Stops, Underway,
         Timeouts
<1>8. TimerCalls'
  BY <1>1, <1>2, <1>3, TimerBounds
     DEF TimerInv, TimerCalls, TimerTyped, TimerSources, TimerCount, Handlers, Stops
<1>9. TimerExpires'
  BY <1>1, <1>2, <1>3, TimerBounds
     DEF TimerInv, TimerExpires, TimerTyped, TimerSources, TimerCalls, Handlers, Stops
<1> QED BY <1>4, <1>5, <1>6, <1>7, <1>8, <1>9 DEF TimerInv

\* The flag is set.
LEMMA TimerRun ==
  ASSUME TimerInv, M!startRun
  PROVE  TimerInv'
<1>1. /\ where[0] = "Run"
      /\ timing' = TRUE
      /\ UNCHANGED <<timer, index, singleShot, isMainThreadBlock, wasSingle, returnTo,
                     starts, resumed, cancelled, mainQueue, told, stopped, late>>
  BY TimerBounds DEF M!startRun, M!at, M!Owner, M!settings, M!sources, M!news
<1>2. /\ 0 \in 0..MaxStart /\ "Idle" \in M!Place
      /\ M!go(0, "Idle")
  BY TimerBounds
     DEF M!startRun, M!at, M!Owner, M!settings, M!sources, M!news, M!Place, TimerInv,
         TimerTyped, M!Source
<1>3. /\ where' \in [0..MaxStart -> M!Place] /\ where'[0] = "Idle"
      /\ \A u \in 0..MaxStart : u # 0 => where'[u] = where[u]
  BY <1>2, TimerGoes DEF TimerInv
<1>4. TimerTyped'
  BY <1>1, <1>2, <1>3, TimerBounds
     DEF TimerInv, TimerTyped, Handlers, Stops, OwnersPlaces, HandlersPlaces
<1>5. TimerSources'
  BY <1>1, <1>2, <1>3, TimerBounds DEF TimerInv, TimerSources, TimerTyped, Handlers, Stops
<1>6. TimerRepeats'
  BY <1>1, <1>2, <1>3, TimerBounds
     DEF TimerInv, TimerRepeats, TimerTyped, TimerSources, Handlers, Stops
<1>7. TimerCount'
  BY <1>1, <1>2, <1>3, TimerBounds
     DEF TimerInv, TimerCount, TimerTyped, TimerSources, TimerCalls, Handlers, Stops, Underway,
         Timeouts
<1>8. TimerCalls'
  BY <1>1, <1>2, <1>3, TimerBounds
     DEF TimerInv, TimerCalls, TimerTyped, TimerSources, TimerCount, Handlers, Stops
<1>9. TimerExpires'
  BY <1>1, <1>2, <1>3, TimerBounds
     DEF TimerInv, TimerExpires, TimerTyped, TimerSources, TimerCalls, Handlers, Stops
<1> QED BY <1>4, <1>5, <1>6, <1>7, <1>8, <1>9 DEF TimerInv

\* The steps of stop, by the owner or by a handler.
LEMMA TimerTest ==
  ASSUME TimerInv, NEW t \in 0..MaxStart, M!stopTest(t)
  PROVE  TimerInv'
<1>1. /\ where[t] = "Test"
      /\ UNCHANGED <<timer, timing, index, singleShot, isMainThreadBlock, wasSingle,
                     returnTo, starts, resumed, cancelled, mainQueue, told, stopped,
                     late>>
  BY TimerBounds DEF M!stopTest, M!at, M!Owner, M!settings, M!sources, M!news
<1>2. /\ t \in 0..MaxStart /\ (IF timer # 0 THEN "Cancel" ELSE "Flag") \in M!Place
      /\ M!go(t, (IF timer # 0 THEN "Cancel" ELSE "Flag"))
  BY TimerBounds
     DEF M!stopTest, M!at, M!Owner, M!settings, M!sources, M!news, M!Place, TimerInv,
         TimerTyped, M!Source
<1>3. /\ where' \in [0..MaxStart -> M!Place] /\ where'[t] = (IF timer # 0 THEN "Cancel" ELSE "Flag")
      /\ \A u \in 0..MaxStart : u # t => where'[u] = where[u]
  BY <1>2, TimerGoes DEF TimerInv
<1>4. TimerTyped'
  <2>1. /\ resumed' \subseteq 1..starts' /\ cancelled' \subseteq 1..starts'
        /\ timer' \in 0..MaxStart /\ starts' \in 0..MaxStart
    <3>1. timer' \in 0..MaxStart /\ starts' \in 0..MaxStart /\ timer' <= starts' /\ starts <= starts'
      BY <1>1, TimerBounds DEF TimerInv, TimerTyped, TimerSources
    <3>2. timer = 0 \/ timer \in 1..starts
      BY TimerBounds DEF TimerInv, TimerTyped, TimerSources
    <3>3. \A r \in resumed' \cup cancelled' : r \in 1..starts
      BY <1>1, <3>2 DEF TimerInv, TimerTyped
    <3>4. 1..starts \subseteq 1..starts'
      BY <3>1, TimerBounds DEF TimerInv, TimerTyped
    <3> QED BY <3>1, <3>3, <3>4
  <2>2. where'[0] \in OwnersPlaces /\ \A s \in Handlers : where'[s] \in HandlersPlaces
    BY <1>1, <1>2, <1>3, TimerBounds
       DEF TimerInv, TimerTyped, Handlers, Stops, OwnersPlaces, HandlersPlaces
  <2>3. mainQueue' \in Seq(Handlers) /\ told' \in Seq(Int) /\ index' \in Int
    BY <1>1 DEF TimerInv, TimerTyped
  <2> QED BY <1>1, <1>3, <2>1, <2>2, <2>3 DEF TimerInv, TimerTyped
<1>5. TimerSources'
  BY <1>1, <1>2, <1>3, TimerBounds DEF TimerInv, TimerSources, TimerTyped, Handlers, Stops
<1>6. TimerRepeats'
  BY <1>1, <1>2, <1>3, TimerBounds
     DEF TimerInv, TimerRepeats, TimerTyped, TimerSources, Handlers, Stops
<1>7. TimerCount'
  BY <1>1, <1>2, <1>3, TimerBounds
     DEF TimerInv, TimerCount, TimerTyped, TimerSources, TimerCalls, Handlers, Stops, Underway,
         Timeouts
<1>8. TimerCalls'
  BY <1>1, <1>2, <1>3, TimerBounds
     DEF TimerInv, TimerCalls, TimerTyped, TimerSources, TimerCount, Handlers, Stops
<1>9. TimerExpires'
  BY <1>1, <1>2, <1>3, TimerBounds
     DEF TimerInv, TimerExpires, TimerTyped, TimerSources, TimerCalls, Handlers, Stops
<1> QED BY <1>4, <1>5, <1>6, <1>7, <1>8, <1>9 DEF TimerInv

\* stop cancels the source, or dies of nil.
LEMMA TimerCancel ==
  ASSUME TimerInv, NEW t \in 0..MaxStart, M!stopCancel(t)
  PROVE  TimerInv'
<1>1. /\ where[t] = "Cancel"
      /\ timer = 0 => cancelled' = cancelled
      /\ timer # 0 => cancelled' = cancelled \cup {timer}
      /\ UNCHANGED <<timer, timing, index, singleShot, isMainThreadBlock, wasSingle,
                     returnTo, starts, resumed, mainQueue, told, stopped, late>>
  BY TimerBounds DEF M!stopCancel, M!at, M!Owner, M!settings, M!sources, M!news
<1>2. /\ t \in 0..MaxStart /\ (IF timer = 0 THEN "Crashed" ELSE "Nil") \in M!Place
      /\ M!go(t, (IF timer = 0 THEN "Crashed" ELSE "Nil"))
  BY TimerBounds
     DEF M!stopCancel, M!at, M!Owner, M!settings, M!sources, M!news, M!Place, TimerInv,
         TimerTyped, M!Source
<1>3. /\ where' \in [0..MaxStart -> M!Place] /\ where'[t] = (IF timer = 0 THEN "Crashed" ELSE "Nil")
      /\ \A u \in 0..MaxStart : u # t => where'[u] = where[u]
  BY <1>2, TimerGoes DEF TimerInv
<1>4. TimerTyped'
  <2>1. /\ resumed' \subseteq 1..starts' /\ cancelled' \subseteq 1..starts'
        /\ timer' \in 0..MaxStart /\ starts' \in 0..MaxStart
    <3>1. timer' \in 0..MaxStart /\ starts' \in 0..MaxStart /\ timer' <= starts' /\ starts <= starts'
      BY <1>1, TimerBounds DEF TimerInv, TimerTyped, TimerSources
    <3>2. timer = 0 \/ timer \in 1..starts
      BY TimerBounds DEF TimerInv, TimerTyped, TimerSources
    <3>3. \A r \in resumed' \cup cancelled' : r \in 1..starts
      BY <1>1, <3>2 DEF TimerInv, TimerTyped
    <3>4. 1..starts \subseteq 1..starts'
      BY <3>1, TimerBounds DEF TimerInv, TimerTyped
    <3> QED BY <3>1, <3>3, <3>4
  <2>2. where'[0] \in OwnersPlaces /\ \A s \in Handlers : where'[s] \in HandlersPlaces
    BY <1>1, <1>2, <1>3, TimerBounds
       DEF TimerInv, TimerTyped, Handlers, Stops, OwnersPlaces, HandlersPlaces
  <2>3. mainQueue' \in Seq(Handlers) /\ told' \in Seq(Int) /\ index' \in Int
    BY <1>1 DEF TimerInv, TimerTyped
  <2> QED BY <1>1, <1>3, <2>1, <2>2, <2>3 DEF TimerInv, TimerTyped
<1>5. TimerSources'
  BY <1>1, <1>2, <1>3, TimerBounds DEF TimerInv, TimerSources, TimerTyped, Handlers, Stops
<1>6. TimerRepeats'
  BY <1>1, <1>2, <1>3, TimerBounds
     DEF TimerInv, TimerRepeats, TimerTyped, TimerSources, Handlers, Stops
<1>7. TimerCount'
  BY <1>1, <1>2, <1>3, TimerBounds
     DEF TimerInv, TimerCount, TimerTyped, TimerSources, TimerCalls, Handlers, Stops, Underway,
         Timeouts
<1>8. TimerCalls'
  BY <1>1, <1>2, <1>3, TimerBounds
     DEF TimerInv, TimerCalls, TimerTyped, TimerSources, TimerCount, Handlers, Stops
<1>9. TimerExpires'
  BY <1>1, <1>2, <1>3, TimerBounds
     DEF TimerInv, TimerExpires, TimerTyped, TimerSources, TimerCalls, Handlers, Stops
<1> QED BY <1>4, <1>5, <1>6, <1>7, <1>8, <1>9 DEF TimerInv

\* stop gives it up.
LEMMA TimerNil ==
  ASSUME TimerInv, NEW t \in 0..MaxStart, M!stopNil(t)
  PROVE  TimerInv'
<1>1. /\ where[t] = "Nil"
      /\ timer' = 0 /\ cancelled' = cancelled \cup ({timer} \ {0})
      /\ UNCHANGED <<timing, index, singleShot, isMainThreadBlock, wasSingle, returnTo,
                     starts, resumed, mainQueue, told, stopped, late>>
  BY TimerBounds DEF M!stopNil, M!assign, M!at, M!Owner, M!settings, M!sources, M!news
<1>2. /\ t \in 0..MaxStart /\ "Flag" \in M!Place
      /\ M!go(t, "Flag")
  BY TimerBounds
     DEF M!stopNil, M!assign, M!at, M!Owner, M!settings, M!sources, M!news, M!Place, TimerInv,
         TimerTyped, M!Source
<1>3. /\ where' \in [0..MaxStart -> M!Place] /\ where'[t] = "Flag"
      /\ \A u \in 0..MaxStart : u # t => where'[u] = where[u]
  BY <1>2, TimerGoes DEF TimerInv
<1>4. TimerTyped'
  <2>1. /\ resumed' \subseteq 1..starts' /\ cancelled' \subseteq 1..starts'
        /\ timer' \in 0..MaxStart /\ starts' \in 0..MaxStart
    <3>1. timer' \in 0..MaxStart /\ starts' \in 0..MaxStart /\ timer' <= starts' /\ starts <= starts'
      BY <1>1, TimerBounds DEF TimerInv, TimerTyped, TimerSources
    <3>2. timer = 0 \/ timer \in 1..starts
      BY TimerBounds DEF TimerInv, TimerTyped, TimerSources
    <3>3. \A r \in resumed' \cup cancelled' : r \in 1..starts
      BY <1>1, <3>2 DEF TimerInv, TimerTyped
    <3>4. 1..starts \subseteq 1..starts'
      BY <3>1, TimerBounds DEF TimerInv, TimerTyped
    <3> QED BY <3>1, <3>3, <3>4
  <2>2. where'[0] \in OwnersPlaces /\ \A s \in Handlers : where'[s] \in HandlersPlaces
    BY <1>1, <1>2, <1>3, TimerBounds
       DEF TimerInv, TimerTyped, Handlers, Stops, OwnersPlaces, HandlersPlaces
  <2>3. mainQueue' \in Seq(Handlers) /\ told' \in Seq(Int) /\ index' \in Int
    BY <1>1 DEF TimerInv, TimerTyped
  <2> QED BY <1>1, <1>3, <2>1, <2>2, <2>3 DEF TimerInv, TimerTyped
<1>5. TimerSources'
  BY <1>1, <1>2, <1>3, TimerBounds DEF TimerInv, TimerSources, TimerTyped, Handlers, Stops
<1>6. TimerRepeats'
  BY <1>1, <1>2, <1>3, TimerBounds
     DEF TimerInv, TimerRepeats, TimerTyped, TimerSources, Handlers, Stops
<1>7. TimerCount'
  BY <1>1, <1>2, <1>3, TimerBounds
     DEF TimerInv, TimerCount, TimerTyped, TimerSources, TimerCalls, Handlers, Stops, Underway,
         Timeouts
<1>8. TimerCalls'
  BY <1>1, <1>2, <1>3, TimerBounds
     DEF TimerInv, TimerCalls, TimerTyped, TimerSources, TimerCount, Handlers, Stops
<1>9. TimerExpires'
  BY <1>1, <1>2, <1>3, TimerBounds
     DEF TimerInv, TimerExpires, TimerTyped, TimerSources, TimerCalls, Handlers, Stops
<1> QED BY <1>4, <1>5, <1>6, <1>7, <1>8, <1>9 DEF TimerInv

\* stop and clears the flag.
LEMMA TimerFlag ==
  ASSUME TimerInv, NEW t \in 0..MaxStart, M!stopFlag(t)
  PROVE  TimerInv'
<1>1. /\ where[t] = "Flag"
      /\ timing' = FALSE
      /\ UNCHANGED <<timer, index, singleShot, isMainThreadBlock, wasSingle, returnTo,
                     starts, resumed, cancelled, mainQueue, told, stopped, late>>
  BY TimerBounds DEF M!stopFlag, M!at, M!Owner, M!settings, M!sources, M!news
<1>2. /\ t \in 0..MaxStart /\ (IF t = 0 THEN returnTo ELSE "Tell") \in M!Place
      /\ M!go(t, (IF t = 0 THEN returnTo ELSE "Tell"))
  BY TimerBounds
     DEF M!stopFlag, M!at, M!Owner, M!settings, M!sources, M!news, M!Place, TimerInv,
         TimerTyped, M!Source
<1>3. /\ where' \in [0..MaxStart -> M!Place] /\ where'[t] = (IF t = 0 THEN returnTo ELSE "Tell")
      /\ \A u \in 0..MaxStart : u # t => where'[u] = where[u]
  BY <1>2, TimerGoes DEF TimerInv
<1>4. TimerTyped'
  <2>1. /\ resumed' \subseteq 1..starts' /\ cancelled' \subseteq 1..starts'
        /\ timer' \in 0..MaxStart /\ starts' \in 0..MaxStart
    <3>1. timer' \in 0..MaxStart /\ starts' \in 0..MaxStart /\ timer' <= starts' /\ starts <= starts'
      BY <1>1, TimerBounds DEF TimerInv, TimerTyped, TimerSources
    <3>2. timer = 0 \/ timer \in 1..starts
      BY TimerBounds DEF TimerInv, TimerTyped, TimerSources
    <3>3. \A r \in resumed' \cup cancelled' : r \in 1..starts
      BY <1>1, <3>2 DEF TimerInv, TimerTyped
    <3>4. 1..starts \subseteq 1..starts'
      BY <3>1, TimerBounds DEF TimerInv, TimerTyped
    <3> QED BY <3>1, <3>3, <3>4
  <2>2. where'[0] \in OwnersPlaces /\ \A s \in Handlers : where'[s] \in HandlersPlaces
    BY <1>1, <1>2, <1>3, TimerBounds
       DEF TimerInv, TimerTyped, Handlers, Stops, OwnersPlaces, HandlersPlaces
  <2>3. mainQueue' \in Seq(Handlers) /\ told' \in Seq(Int) /\ index' \in Int
    BY <1>1 DEF TimerInv, TimerTyped
  <2> QED BY <1>1, <1>3, <2>1, <2>2, <2>3 DEF TimerInv, TimerTyped
<1>5. TimerSources'
  BY <1>1, <1>2, <1>3, TimerBounds DEF TimerInv, TimerSources, TimerTyped, Handlers, Stops
<1>6. TimerRepeats'
  BY <1>1, <1>2, <1>3, TimerBounds
     DEF TimerInv, TimerRepeats, TimerTyped, TimerSources, Handlers, Stops
<1>7. TimerCount'
  BY <1>1, <1>2, <1>3, TimerBounds
     DEF TimerInv, TimerCount, TimerTyped, TimerSources, TimerCalls, Handlers, Stops, Underway,
         Timeouts
<1>8. TimerCalls'
  BY <1>1, <1>2, <1>3, TimerBounds
     DEF TimerInv, TimerCalls, TimerTyped, TimerSources, TimerCount, Handlers, Stops
<1>9. TimerExpires'
  BY <1>1, <1>2, <1>3, TimerBounds
     DEF TimerInv, TimerExpires, TimerTyped, TimerSources, TimerCalls, Handlers, Stops
<1> QED BY <1>4, <1>5, <1>6, <1>7, <1>8, <1>9 DEF TimerInv

\* The handler of a live source: the timer's.
LEMMA TimerInvoke ==
  ASSUME TimerInv, NEW s \in Handlers, M!invoke(s)
  PROVE  TimerInv'
<1>1. /\ where[s] = "Idle" /\ s \in resumed /\ s \notin cancelled
      /\ UNCHANGED <<timer, timing, index, singleShot, isMainThreadBlock, wasSingle,
                     returnTo, starts, resumed, cancelled, mainQueue, told, stopped,
                     late>>
  BY TimerBounds DEF M!invoke, M!live, Handlers, M!at, M!Owner, M!settings, M!sources, M!news
<1>2. /\ s \in 0..MaxStart /\ "Called" \in M!Place
      /\ M!go(s, "Called")
  BY TimerBounds
     DEF M!invoke, M!live, Handlers, M!at, M!Owner, M!settings, M!sources, M!news, M!Place,
         TimerInv, TimerTyped, M!Source
<1>3. /\ where' \in [0..MaxStart -> M!Place] /\ where'[s] = "Called"
      /\ \A u \in 0..MaxStart : u # s => where'[u] = where[u]
  BY <1>2, TimerGoes DEF TimerInv
<1>4. TimerTyped'
  BY <1>1, <1>2, <1>3, TimerBounds
     DEF TimerInv, TimerTyped, Handlers, Stops, OwnersPlaces, HandlersPlaces
<1>5. TimerSources'
  BY <1>1, <1>2, <1>3, TimerBounds DEF TimerInv, TimerSources, TimerTyped, Handlers, Stops
<1>6. TimerRepeats'
  BY <1>1, <1>2, <1>3, TimerBounds
     DEF TimerInv, TimerRepeats, TimerTyped, TimerSources, Handlers, Stops
<1>7. TimerCount'
  BY <1>1, <1>2, <1>3, TimerBounds
     DEF TimerInv, TimerCount, TimerTyped, TimerSources, TimerCalls, Handlers, Stops, Underway,
         Timeouts
<1>8. TimerCalls'
  BY <1>1, <1>2, <1>3, TimerBounds
     DEF TimerInv, TimerCalls, TimerTyped, TimerSources, TimerCount, Handlers, Stops
<1>9. TimerExpires'
  BY <1>1, <1>2, <1>3, TimerBounds
     DEF TimerInv, TimerExpires, TimerTyped, TimerSources, TimerCalls, Handlers, Stops
<1> QED BY <1>4, <1>5, <1>6, <1>7, <1>8, <1>9 DEF TimerInv

\* It counts, passes over the delay, and stops a single shot.
LEMMA TimerCounts ==
  ASSUME TimerInv, NEW s \in Handlers, M!count(s)
  PROVE  TimerInv'
<1>1. /\ where[s] = "Called"
      /\ index' = index + 1
      /\ UNCHANGED <<timer, timing, singleShot, isMainThreadBlock, wasSingle, returnTo,
                     starts, resumed, cancelled, mainQueue, told, stopped, late>>
  BY TimerBounds DEF M!count, Handlers, M!at, M!Owner, M!settings, M!sources, M!news
<1>2. /\ s \in 0..MaxStart /\ "Counted" \in M!Place
      /\ M!go(s, "Counted")
  BY TimerBounds
     DEF M!count, Handlers, M!at, M!Owner, M!settings, M!sources, M!news, M!Place, TimerInv,
         TimerTyped, M!Source
<1>3. /\ where' \in [0..MaxStart -> M!Place] /\ where'[s] = "Counted"
      /\ \A u \in 0..MaxStart : u # s => where'[u] = where[u]
  BY <1>2, TimerGoes DEF TimerInv
<1>4. TimerTyped'
  BY <1>1, <1>2, <1>3, TimerBounds
     DEF TimerInv, TimerTyped, Handlers, Stops, OwnersPlaces, HandlersPlaces
<1>5. TimerSources'
  BY <1>1, <1>2, <1>3, TimerBounds DEF TimerInv, TimerSources, TimerTyped, Handlers, Stops
<1>6. TimerRepeats'
  BY <1>1, <1>2, <1>3, TimerBounds
     DEF TimerInv, TimerRepeats, TimerTyped, TimerSources, Handlers, Stops
<1>7. ASSUME ~late PROVE TimerCount'
  <2>1. s = starts /\ starts > 0
    BY <1>1, <1>7 DEF TimerInv, TimerCalls, Handlers
  <2>2. Underway = 0 /\ Underway' = IF index + 1 >= 0 THEN 1 ELSE 0
    BY <1>1, <1>3, <2>1 DEF Underway, Stops
  <2>3. index \in Int /\ Timeouts' = Timeouts + (IF index + 1 >= 0 THEN 1 ELSE 0)
    BY <1>1, TimerBounds DEF TimerInv, TimerTyped, Timeouts
  <2>4. Len(told) + Len(mainQueue) + Underway = Timeouts
    BY <1>7, <2>1 DEF TimerInv, TimerCount
  <2>5. Len(told) \in Nat /\ Len(mainQueue) \in Nat
    BY DEF TimerInv, TimerTyped
  <2>6. Len(told') + Len(mainQueue') + Underway' = Timeouts'
    BY <1>1, <2>2, <2>3, <2>4, <2>5
  <2>7. \A i \in 1..Len(told) : /\ told[i] \in i - 1..index'
                                /\ ~isMainThreadBlock => told[i] = i - 1
    BY <1>1, <1>7, <2>3, <2>5 DEF TimerInv, TimerCount
  <2> QED BY <1>1, <2>1, <2>6, <2>7 DEF TimerCount
<1>8. TimerCalls'
  BY <1>1, <1>2, <1>3, TimerBounds
     DEF TimerInv, TimerCalls, TimerTyped, TimerSources, TimerCount, Handlers, Stops
<1>9. TimerExpires'
  BY <1>1, <1>2, <1>3, TimerBounds
     DEF TimerInv, TimerExpires, TimerTyped, TimerSources, TimerCalls, Handlers, Stops
<1>10. TimerCount'  BY <1>1, <1>7 DEF TimerCount
<1> QED BY <1>4, <1>5, <1>6, <1>8, <1>9, <1>10 DEF TimerInv

\* The end of the delay is no timeout.
LEMMA TimerDelayed ==
  ASSUME TimerInv, NEW s \in Handlers, M!delayed(s)
  PROVE  TimerInv'
<1>1. /\ where[s] = "Counted"
      /\ UNCHANGED <<timer, timing, index, singleShot, isMainThreadBlock, wasSingle,
                     returnTo, starts, resumed, cancelled, mainQueue, told, stopped,
                     late>>
  BY TimerBounds DEF M!delayed, M!isDelay, Handlers, M!at, M!Owner, M!settings, M!sources, M!news
<1>2. /\ s \in 0..MaxStart /\ (IF index < 0 THEN "Idle" ELSE "Timeout") \in M!Place
      /\ M!go(s, (IF index < 0 THEN "Idle" ELSE "Timeout"))
  BY TimerBounds
     DEF M!delayed, M!isDelay, Handlers, M!at, M!Owner, M!settings, M!sources, M!news, M!Place,
         TimerInv, TimerTyped, M!Source
<1>3. /\ where' \in [0..MaxStart -> M!Place] /\ where'[s] = (IF index < 0 THEN "Idle" ELSE "Timeout")
      /\ \A u \in 0..MaxStart : u # s => where'[u] = where[u]
  BY <1>2, TimerGoes DEF TimerInv
<1>4. TimerTyped'
  BY <1>1, <1>2, <1>3, TimerBounds
     DEF TimerInv, TimerTyped, Handlers, Stops, OwnersPlaces, HandlersPlaces
<1>5. TimerSources'
  BY <1>1, <1>2, <1>3, TimerBounds DEF TimerInv, TimerSources, TimerTyped, Handlers, Stops
<1>6. TimerRepeats'
  BY <1>1, <1>2, <1>3, TimerBounds
     DEF TimerInv, TimerRepeats, TimerTyped, TimerSources, Handlers, Stops
<1>7. TimerCount'
  BY <1>1, <1>2, <1>3, TimerBounds
     DEF TimerInv, TimerCount, TimerTyped, TimerSources, TimerCalls, Handlers, Stops, Underway,
         Timeouts
<1>8. TimerCalls'
  BY <1>1, <1>2, <1>3, TimerBounds
     DEF TimerInv, TimerCalls, TimerTyped, TimerSources, TimerCount, Handlers, Stops
<1>9. TimerExpires'
  BY <1>1, <1>2, <1>3, TimerBounds
     DEF TimerInv, TimerExpires, TimerTyped, TimerSources, TimerCalls, Handlers, Stops
<1> QED BY <1>4, <1>5, <1>6, <1>7, <1>8, <1>9 DEF TimerInv

\* A single shot stops the timer first.
LEMMA TimerTimeout ==
  ASSUME TimerInv, NEW s \in Handlers, M!timeout(s)
  PROVE  TimerInv'
<1>1. /\ where[s] = "Timeout"
      /\ UNCHANGED <<timer, timing, index, singleShot, isMainThreadBlock, wasSingle,
                     returnTo, starts, resumed, cancelled, mainQueue, told, stopped,
                     late>>
  BY TimerBounds DEF M!timeout, M!once, Handlers, M!at, M!Owner, M!settings, M!sources, M!news
<1>2. /\ s \in 0..MaxStart /\ (IF singleShot THEN "Test" ELSE "Tell") \in M!Place
      /\ M!go(s, (IF singleShot THEN "Test" ELSE "Tell"))
  BY TimerBounds
     DEF M!timeout, M!once, Handlers, M!at, M!Owner, M!settings, M!sources, M!news, M!Place,
         TimerInv, TimerTyped, M!Source
<1>3. /\ where' \in [0..MaxStart -> M!Place] /\ where'[s] = (IF singleShot THEN "Test" ELSE "Tell")
      /\ \A u \in 0..MaxStart : u # s => where'[u] = where[u]
  BY <1>2, TimerGoes DEF TimerInv
<1>4. TimerTyped'
  BY <1>1, <1>2, <1>3, TimerBounds
     DEF TimerInv, TimerTyped, Handlers, Stops, OwnersPlaces, HandlersPlaces
<1>5. TimerSources'
  BY <1>1, <1>2, <1>3, TimerBounds DEF TimerInv, TimerSources, TimerTyped, Handlers, Stops
<1>6. TimerRepeats'
  BY <1>1, <1>2, <1>3, TimerBounds
     DEF TimerInv, TimerRepeats, TimerTyped, TimerSources, Handlers, Stops
<1>7. TimerCount'
  BY <1>1, <1>2, <1>3, TimerBounds
     DEF TimerInv, TimerCount, TimerTyped, TimerSources, TimerCalls, Handlers, Stops, Underway,
         Timeouts
<1>8. TimerCalls'
  BY <1>1, <1>2, <1>3, TimerBounds
     DEF TimerInv, TimerCalls, TimerTyped, TimerSources, TimerCount, Handlers, Stops
<1>9. TimerExpires'
  BY <1>1, <1>2, <1>3, TimerBounds
     DEF TimerInv, TimerExpires, TimerTyped, TimerSources, TimerCalls, Handlers, Stops
<1> QED BY <1>4, <1>5, <1>6, <1>7, <1>8, <1>9 DEF TimerInv

\* What onTimeout is given next: the number of timeouts so far when nothing is behind it.
LEMMA TimerTold ==
  ASSUME TimerInv, ~late, starts > 0, NEW n \in Nat, n > 0,
         Len(told) + n = Timeouts, ~isMainThreadBlock => n = 1
  PROVE  /\ index >= 0
         /\ Append(told, index) \in Seq(Int) /\ Len(Append(told, index)) = Len(told) + 1
         /\ \A i \in 1..Len(told) + 1 :
              /\ Append(told, index)[i] \in i - 1..index
              /\ ~isMainThreadBlock => Append(told, index)[i] = i - 1
<1>1. index \in Int /\ told \in Seq(Int) /\ Len(told) \in Nat
  BY DEF TimerInv, TimerTyped
<1>2. index >= 0 /\ Len(told) <= index /\ (~isMainThreadBlock => Len(told) = index)
  BY <1>1 DEF Timeouts
<1>3. /\ Append(told, index) \in Seq(Int) /\ Len(Append(told, index)) = Len(told) + 1
      /\ Append(told, index)[Len(told) + 1] = index
      /\ \A i \in 1..Len(told) : Append(told, index)[i] = told[i]
  BY <1>1
<1>4. \A i \in 1..Len(told) : told[i] \in i - 1..index /\ (~isMainThreadBlock => told[i] = i - 1)
  BY DEF TimerInv, TimerCount
<1> QED BY <1>1, <1>2, <1>3, <1>4

\* The handler tells the timeout or leaves that to the main thread.
LEMMA TimerTell ==
  ASSUME TimerInv, NEW s \in Handlers, M!tell(s)
  PROVE  TimerInv'
<1>1. /\ where[s] = "Tell" /\ (isMainThreadBlock \/ mainQueue' = mainQueue)
      /\ UNCHANGED <<timer, timing, index, singleShot, isMainThreadBlock, wasSingle, returnTo,
                     starts, resumed, cancelled, stopped, late>>
  BY DEF M!tell, M!onTimeout, M!at, M!settings, M!sources
<1>0. \/ isMainThreadBlock /\ mainQueue' = Append(mainQueue, s) /\ told' = told
      \/ ~isMainThreadBlock /\ mainQueue' = mainQueue /\ late /\ told' = told
      \/ ~isMainThreadBlock /\ mainQueue' = mainQueue /\ ~late /\ told' = Append(told, index)
  BY DEF M!tell, M!onTimeout
<1>2. s \in 0..MaxStart /\ "Idle" \in M!Place /\ M!go(s, "Idle")
  BY TimerBounds DEF M!tell, M!Place, Handlers
<1>3. /\ where' \in [0..MaxStart -> M!Place] /\ where'[s] = "Idle"
      /\ \A u \in 0..MaxStart : u # s => where'[u] = where[u]
  BY <1>2, TimerGoes DEF TimerInv
<1>4. /\ told \in Seq(Int) /\ index \in Int /\ mainQueue \in Seq(Handlers) /\ starts \in 0..MaxStart
      /\ Len(told) \in Nat /\ Len(mainQueue) \in Nat /\ where[0] # "New" /\ starts > 0 /\ s > 0
      /\ resumed \subseteq 1..starts
  BY <1>1, TimerBounds DEF TimerInv, TimerTyped, TimerSources, Handlers
<1>11. 0 \in 0..MaxStart /\ where'[0] = where[0]
  <2>1. 0 \in 0..MaxStart /\ s # 0  BY <1>4, TimerBounds
  <2> QED BY <1>3, <2>1
<1>5. TimerTyped'
  <2>1. mainQueue' \in Seq(Handlers) /\ told' \in Seq(Int)
    <3>1. Append(mainQueue, s) \in Seq(Handlers) /\ Append(told, index) \in Seq(Int)  BY <1>4
    <3> QED BY <1>0, <1>4, <3>1
  <2>2. where'[0] \in OwnersPlaces /\ \A h \in Handlers : where'[h] \in HandlersPlaces
    BY <1>1, <1>2, <1>3, <1>11, TimerBounds DEF TimerInv, TimerTyped, Handlers, HandlersPlaces
  <2> QED BY <1>1, <1>3, <2>1, <2>2 DEF TimerInv, TimerTyped
<1>6. TimerSources'
  BY <1>1, <1>3, <1>4, <1>11, TimerBounds DEF TimerInv, TimerSources, Handlers, Stops
<1>7. TimerRepeats'
  <2>1. \A h \in Handlers : where'[h] \in {where[h], "Idle"}
    BY <1>2, <1>3, TimerBounds DEF Handlers
  <2>2. "Idle" \notin Stops \cup {"Crashed"}  BY DEF Stops
  <2> QED BY <1>1, <1>11, <2>1, <2>2 DEF TimerInv, TimerRepeats
<1>8. TimerCount'
  <2> SUFFICES ASSUME ~late PROVE TimerCount'
    BY <1>1 DEF TimerCount
  <2>1. s = starts /\ index >= 0 /\ starts > 0
    BY <1>1, <1>4 DEF TimerInv, TimerCalls, Stops
  <2>2. Underway = 1 /\ Underway' = 0 /\ Timeouts' = Timeouts
    BY <1>1, <1>3, <2>1 DEF Underway, Timeouts, Stops
  <2>3. Len(told) + Len(mainQueue) + 1 = Timeouts
    BY <2>1, <2>2 DEF TimerInv, TimerCount
  <2>4. CASE isMainThreadBlock
    <3>1. Len(mainQueue') = Len(mainQueue) + 1 /\ told' = told  BY <1>0, <1>4, <2>4
    <3> QED BY <1>1, <1>4, <2>1, <2>2, <2>3, <2>4, <3>1 DEF TimerInv, TimerCount
  <2>5. CASE ~isMainThreadBlock
    <3>1. Len(mainQueue) = 0 /\ mainQueue' = mainQueue /\ told' = Append(told, index)
      BY <1>0, <2>5 DEF TimerInv, TimerSources
    <3>2. Len(told) + 1 = Timeouts  BY <1>4, <2>3, <3>1
    <3>3. /\ Len(told') = Len(told) + 1
          /\ \A i \in 1..Len(told') : told'[i] \in i - 1..index /\ told'[i] = i - 1
      BY <2>1, <2>5, <3>1, <3>2, TimerTold
    <3> QED BY <1>1, <1>4, <2>1, <2>2, <3>1, <3>2, <3>3 DEF TimerCount
  <2> QED BY <2>4, <2>5
<1>9. TimerCalls'
  <2>1. ~late => s = starts /\ where[0] # "Make"
    BY <1>1, <1>4 DEF TimerInv, TimerCalls
  <2>2. ASSUME ~late, singleShot, ~stopped
        PROVE  index <= 0 /\ (index = 0 => starts \in cancelled)
    BY <1>1, <1>4, <2>1, <2>2 DEF TimerInv, TimerCalls
  <2> QED BY <1>1, <1>3, <1>4, <1>11, <2>1, <2>2, TimerBounds DEF TimerInv, TimerCalls, Handlers, Stops
<1>10. TimerExpires'
  BY <1>1, <1>3, <1>4, <1>11, TimerBounds DEF TimerInv, TimerExpires, Handlers
<1> QED BY <1>5, <1>6, <1>7, <1>8, <1>9, <1>10 DEF TimerInv

\* The main thread tells a timeout that waits.
LEMMA TimerBlock ==
  ASSUME TimerInv, M!mainBlock
  PROVE  TimerInv'
<1>1. /\ mainQueue # <<>> /\ mainQueue' = Tail(mainQueue)
      /\ told' = IF late THEN told ELSE Append(told, index)
      /\ UNCHANGED <<timer, timing, index, singleShot, isMainThreadBlock, wasSingle, where, returnTo,
                     starts, resumed, cancelled, stopped, late>>
      /\ where[0] = "Idle"
  BY DEF M!mainBlock, M!onTimeout, M!at, M!Owner, M!settings, M!sources
<1>2. /\ told \in Seq(Int) /\ index \in Int /\ mainQueue \in Seq(Handlers) /\ starts \in 0..MaxStart
      /\ Len(told) \in Nat /\ Len(mainQueue) \in Nat
  BY DEF TimerInv, TimerTyped
<1>3. Len(mainQueue) > 0 /\ mainQueue' \in Seq(Handlers) /\ Len(mainQueue') = Len(mainQueue) - 1
  BY <1>1, <1>2
<1>4. isMainThreadBlock  BY <1>1 DEF TimerInv, TimerSources
<1>5. TimerTyped'
  BY <1>1, <1>2, <1>3 DEF TimerInv, TimerTyped
<1>6. TimerSources' /\ TimerRepeats' /\ TimerExpires'
  BY <1>1, <1>4 DEF TimerInv, TimerSources, TimerRepeats, TimerExpires
<1>7. TimerCalls'
  BY <1>1 DEF TimerInv, TimerCalls
<1>8. TimerCount'
  <2> SUFFICES ASSUME ~late PROVE TimerCount'
    BY <1>1 DEF TimerCount
  <2>1. starts > 0  BY <1>2, <1>3 DEF TimerInv, TimerCount
  <2>2. Underway' = Underway /\ Timeouts' = Timeouts /\ Underway \in Nat
    BY <1>1 DEF Underway, Timeouts
  <2>3. PICK n \in Nat : n = Len(mainQueue) + Underway /\ n > 0  BY <1>2, <1>3, <2>2
  <2>4. Len(told) + n = Timeouts
    BY <1>2, <2>1, <2>2, <2>3 DEF TimerInv, TimerCount
  <2>5. /\ Len(told') = Len(told) + 1
        /\ \A i \in 1..Len(told') : told'[i] \in i - 1..index
    BY <1>1, <1>4, <2>1, <2>3, <2>4, TimerTold
  <2> QED BY <1>1, <1>2, <1>3, <1>4, <2>1, <2>2, <2>3, <2>4, <2>5 DEF TimerCount
<1> QED BY <1>5, <1>6, <1>7, <1>8 DEF TimerInv

\* Timeouts come in order and once, a single shot fires at most once, and isRunning tells the
\* owner whether there is a source that fires, however start, stop and the handlers interleave,
\* with the exceptions the properties name (XXtimer: start, stop, the handler).
THEOREM TimersAreSound == MediaSpec => []TimerSound
<1>1. MediaInit => TimerInv
  <2> SUFFICES ASSUME MediaInit PROVE TimerInv
    OBVIOUS
  <2>1. /\ timer = 0 /\ timing = FALSE /\ index = 0 /\ singleShot = FALSE /\ isMainThreadBlock = FALSE
        /\ wasSingle = FALSE /\ returnTo = "Idle" /\ starts = 0 /\ resumed = {} /\ cancelled = {}
        /\ mainQueue = <<>> /\ told = <<>> /\ stopped = FALSE /\ late = FALSE
        /\ where = [t \in {0} \cup Handlers |-> IF t = 0 THEN "New" ELSE "Idle"]
    BY DEF MediaInit, M!Init, M!Source, M!Owner, Handlers
  <2>2. {0} \cup Handlers = 0..MaxStart /\ 0 \notin Handlers  BY TimerBounds DEF Handlers
  <2>3. /\ where \in [0..MaxStart -> M!Place] /\ where[0] = "New"
        /\ \A s \in Handlers : where[s] = "Idle"
    BY <2>1, <2>2 DEF M!Place
  <2>4. TimerTyped
    <3>1. 0 \in 0..MaxStart  BY TimerBounds
    <3>2. <<>> \in Seq(Handlers) /\ <<>> \in Seq(Int)  OBVIOUS
    <3> QED BY <2>1, <2>3, <3>1, <3>2 DEF TimerTyped, OwnersPlaces, HandlersPlaces
  <2>5. TimerSources /\ TimerRepeats
    BY <2>1, <2>3 DEF TimerSources, TimerRepeats, Stops
  <2>6. TimerCount /\ TimerCalls /\ TimerExpires
    BY <2>1, <2>3 DEF TimerCount, TimerCalls, TimerExpires
  <2> QED BY <2>4, <2>5, <2>6 DEF TimerInv
<1>2. TimerInv /\ [MediaNext]_MediaVars => TimerInv'
  <2> SUFFICES ASSUME TimerInv, [MediaNext]_MediaVars PROVE TimerInv'
    OBVIOUS
  <2>1. M!Next \/ UNCHANGED mVars
    BY DEF MediaNext, MediaVars
  <2>2. CASE UNCHANGED mVars
    BY <2>2 DEF mVars, TimerInv, TimerTyped, TimerSources, TimerRepeats, TimerCount, TimerCalls,
                TimerExpires, Underway, Timeouts
  <2>3. CASE M!Next
    <3>1. 0 \in 0..MaxStart /\ \A s \in Handlers : s \in 0..MaxStart
      BY TimerBounds DEF Handlers
    <3>2. ASSUME NEW t \in 0..MaxStart, M!stopping(t) PROVE TimerInv'
      BY <3>2, TimerTest, TimerCancel, TimerNil, TimerFlag DEF M!stopping
    <3>3. ASSUME M!returns PROVE TimerInv'
      BY <3>1, <3>2, <3>3, TimerSettings, TimerReset, TimerMake, TimerResume, TimerRun
         DEF M!returns, M!Owner
    <3>4. ASSUME NEW s \in Handlers, M!invoke(s) \/ M!runs(s) PROVE TimerInv'
      BY <3>1, <3>2, <3>4, TimerInvoke, TimerCounts, TimerDelayed, TimerTimeout, TimerTell
         DEF M!runs
    <3> QED BY <2>3, <3>3, <3>4, TimerCreate, TimerDelay, TimerStart, TimerStop, TimerBlock
            DEF M!Next, M!Source, Handlers
  <2> QED BY <2>1, <2>2, <2>3
<1>3. TimerInv => TimerSound
  <2> SUFFICES ASSUME TimerInv PROVE TimerSound
    OBVIOUS
  <2>0. {0} \cup 1..MaxStart = 0..MaxStart  BY TimerBounds
  <2>1. M!TypeOK
    <3>1. 1..starts \subseteq 1..MaxStart  BY TimerBounds DEF TimerInv, TimerTyped
    <3> QED BY <2>0, <3>1 DEF TimerInv, TimerTyped, M!TypeOK, M!Source, M!Owner, Handlers
  <2>2. M!InOrder
    <3> SUFFICES ASSUME ~late
                 PROVE  /\ \A i \in DOMAIN told : IF isMainThreadBlock THEN told[i] \in i - 1..index
                                                  ELSE told[i] = i - 1
                        /\ singleShot /\ ~stopped => Len(told) <= 1
      BY DEF M!InOrder
    <3>1. DOMAIN told = 1..Len(told) /\ Len(told) \in Nat /\ Len(mainQueue) \in Nat
          /\ index \in Int /\ starts \in 0..MaxStart /\ MaxStart \in Nat
      BY TimerBounds DEF TimerInv, TimerTyped
    <3>2. \A i \in 1..Len(told) : told[i] \in i - 1..index /\ (~isMainThreadBlock => told[i] = i - 1)
      BY DEF TimerInv, TimerCount
    <3>3. ASSUME singleShot, ~stopped
          PROVE  Len(told) <= 1
      <4>1. CASE starts = 0
        BY <4>1 DEF TimerInv, TimerCount
      <4>2. CASE starts > 0
        <5>1. index <= 0  BY <3>3, <4>2 DEF TimerInv, TimerCalls
        <5>2. Len(told) + Len(mainQueue) + Underway = Timeouts
          BY <4>2 DEF TimerInv, TimerCount
        <5>3. Underway \in {0, 1}  BY DEF Underway
        <5>4. Timeouts <= 1 /\ Timeouts \in Nat  BY <3>1, <5>1 DEF Timeouts
        <5> HIDE DEF Timeouts, Underway
        <5> QED BY <3>1, <5>2, <5>3, <5>4
      <4> QED BY <3>1, <4>1, <4>2
    <3> QED BY <3>1, <3>2, <3>3
  <2>3. M!FlagTells
    <3> SUFFICES ASSUME where[0] = "Idle" PROVE M!FlagTells
      BY DEF M!FlagTells, M!at, M!Owner
    <3>1. ~wasSingle => (timing <=> timer # 0) /\ (timer # 0 => timer \in resumed \ cancelled)
      BY DEF TimerInv, TimerRepeats
    <3>2. ~late => (timer # 0 => timing) /\ (timing /\ timer = 0 => singleShot /\ index >= 0)
      BY DEF TimerInv, TimerExpires
    <3> QED BY <3>1, <3>2 DEF M!FlagTells, M!live
  <2>4. M!CrashesSingle
    <3> SUFFICES ASSUME ~wasSingle, NEW t \in 0..MaxStart PROVE where[t] # "Crashed"
      BY <2>0 DEF M!CrashesSingle, M!alive, M!at, M!Source, M!Owner
    <3>1. t = 0 \/ t \in Handlers  BY TimerBounds DEF Handlers
    <3> QED BY <3>1 DEF TimerInv, TimerRepeats
  <2> QED BY <2>1, <2>2, <2>3, <2>4 DEF TimerSound, M!TimerSound
<1> QED BY <1>1, <1>2, <1>3, PTL DEF MediaSpec

-----------------------------------------------------------------------------
(***************************************************************************)
(* Sequences that frames move along                                        *)
(***************************************************************************)

\* What is taken from the head of a sequence and put behind the one before it leaves the
\* two together as they were.
LEMMA Shifted ==
  ASSUME NEW S, NEW s \in Seq(S), NEW t \in Seq(S), t # <<>>
  PROVE  Append(s, Head(t)) \o Tail(t) = s \o t
<1>1. Head(t) \in S /\ Tail(t) \in Seq(S) /\ t = <<Head(t)>> \o Tail(t)
  BY HeadTailProperties
<1>2. Append(s, Head(t)) = s \o <<Head(t)>> /\ <<Head(t)>> \in Seq(S)
  BY <1>1, AppendIsConcat
<1> QED BY <1>1, <1>2, ConcatAssociative

\* What is put behind the last of two is put behind both.
LEMMA AppendedLast ==
  ASSUME NEW S, NEW s \in Seq(S), NEW t \in Seq(S), NEW x \in S
  PROVE  s \o Append(t, x) = Append(s \o t, x)
<1>1. /\ Append(t, x) = t \o <<x>> /\ <<x>> \in Seq(S) /\ s \o t \in Seq(S)
      /\ Append(s \o t, x) = (s \o t) \o <<x>>
  BY AppendIsConcat, ConcatProperties
<1> QED BY <1>1, ConcatAssociative

Elements(s) == {s[i] : i \in 1..Len(s)}
Increasing(s) == \A i, j \in 1..Len(s) : i < j => s[i] < s[j]

LEMMA ElementsAppended ==
  ASSUME NEW S, NEW s \in Seq(S), NEW x \in S
  PROVE  Elements(Append(s, x)) = Elements(s) \cup {x}
<1>1. /\ Len(Append(s, x)) = Len(s) + 1 /\ Len(s) \in Nat
      /\ \A i \in 1..Len(s) : Append(s, x)[i] = s[i]
      /\ Append(s, x)[Len(s) + 1] = x
  BY AppendProperties
<1>2. 1..Len(s) + 1 = 1..Len(s) \cup {Len(s) + 1}  BY <1>1
<1> QED BY <1>1, <1>2 DEF Elements

LEMMA ElementsOfBoth ==
  ASSUME NEW S, NEW s \in Seq(S), NEW t \in Seq(S)
  PROVE  Elements(s \o t) = Elements(s) \cup Elements(t)
<1>1. /\ Len(s \o t) = Len(s) + Len(t) /\ Len(s) \in Nat /\ Len(t) \in Nat
      /\ \A i \in 1..Len(s) : (s \o t)[i] = s[i]
      /\ \A i \in 1..Len(t) : (s \o t)[Len(s) + i] = t[i]
  <2>1. /\ Len(s) \in Nat /\ Len(t) \in Nat  OBVIOUS
  <2> QED BY <2>1, ConcatProperties
<1>2. \A k \in 1..Len(s) + Len(t) : k \in 1..Len(s) \/ \E i \in 1..Len(t) : k = Len(s) + i
  <2>1. \A k \in 1..Len(s) + Len(t) : k \in 1..Len(s) \/ k - Len(s) \in 1..Len(t)
    BY <1>1
  <2>2. \A k \in 1..Len(s) + Len(t) : k = Len(s) + (k - Len(s))
    BY <1>1
  <2> QED BY <2>1, <2>2
<1>3. \A i \in 1..Len(t) : Len(s) + i \in 1..Len(s) + Len(t)  BY <1>1
<1>4. \A i \in 1..Len(s) : i \in 1..Len(s) + Len(t)  BY <1>1
<1>5. Elements(s \o t) \subseteq Elements(s) \cup Elements(t)
  BY <1>1, <1>2 DEF Elements
<1>6. Elements(s) \cup Elements(t) \subseteq Elements(s \o t)
  BY <1>1, <1>3, <1>4 DEF Elements
<1> QED BY <1>5, <1>6

\* A number above those of a sequence may follow them.
LEMMA IncreasingAppended ==
  ASSUME NEW s \in Seq(Nat), NEW n \in Nat, Increasing(s), \A x \in Elements(s) : x < n
  PROVE  Increasing(Append(s, n))
<1>1. /\ Len(Append(s, n)) = Len(s) + 1 /\ Len(s) \in Nat
      /\ \A i \in 1..Len(s) : Append(s, n)[i] = s[i]
      /\ Append(s, n)[Len(s) + 1] = n
  BY AppendProperties
<1>2. \A i \in 1..Len(s) : s[i] < n  BY DEF Elements
<1> QED BY <1>1, <1>2 DEF Increasing

\* One that is missing in the middle leaves the order of the others.
LEMMA IncreasingWithout ==
  ASSUME NEW s \in Seq(Nat), NEW t \in Seq(Nat), t # <<>>, Increasing(s \o t)
  PROVE  Increasing(s \o Tail(t))
<1>1. /\ Tail(t) \in Seq(Nat) /\ Len(Tail(t)) = Len(t) - 1 /\ Len(t) \in Nat /\ Len(s) \in Nat
      /\ \A i \in 1..Len(t) - 1 : Tail(t)[i] = t[i + 1]
  BY HeadTailProperties
<1>2. /\ Len(s \o t) = Len(s) + Len(t) /\ Len(s \o Tail(t)) = Len(s) + Len(t) - 1
      /\ \A i \in 1..Len(s) + Len(t) : (s \o t)[i] = IF i <= Len(s) THEN s[i] ELSE t[i - Len(s)]
      /\ \A i \in 1..Len(s) + Len(t) - 1 :
           (s \o Tail(t))[i] = IF i <= Len(s) THEN s[i] ELSE Tail(t)[i - Len(s)]
  <2>1. /\ Len(s \o Tail(t)) = Len(s) + Len(Tail(t))
        /\ \A i \in 1..Len(s) + Len(Tail(t)) :
             (s \o Tail(t))[i] = IF i <= Len(s) THEN s[i] ELSE Tail(t)[i - Len(s)]
    BY <1>1, ConcatProperties
  <2>2. Len(s) + Len(Tail(t)) = Len(s) + Len(t) - 1  BY <1>1
  <2> QED BY <2>1, <2>2, ConcatProperties
<1>3. ASSUME NEW i \in 1..Len(s) + Len(t) - 1
      PROVE  \/ i <= Len(s) /\ (s \o Tail(t))[i] = (s \o t)[i]
             \/ i > Len(s) /\ (s \o Tail(t))[i] = (s \o t)[i + 1]
  <2>1. CASE i <= Len(s)
    <3>1. i \in 1..Len(s) + Len(t)  BY <1>1
    <3> QED BY <1>2, <2>1, <3>1
  <2>2. CASE ~(i <= Len(s))
    <3>1. /\ i + 1 \in 1..Len(s) + Len(t) /\ ~(i + 1 <= Len(s)) /\ i > Len(s)
          /\ i - Len(s) \in 1..Len(t) - 1 /\ (i + 1) - Len(s) = (i - Len(s)) + 1
      BY <1>1, <2>2
    <3>2. (s \o Tail(t))[i] = Tail(t)[i - Len(s)] /\ (s \o t)[i + 1] = t[(i + 1) - Len(s)]
      BY <1>2, <2>2, <3>1
    <3> QED BY <1>1, <3>1, <3>2
  <2> QED BY <2>1, <2>2
<1>4. ASSUME NEW i \in 1..Len(s) + Len(t) - 1, NEW j \in 1..Len(s) + Len(t) - 1, i < j
      PROVE  (s \o Tail(t))[i] < (s \o Tail(t))[j]
  <2>1. /\ i \in 1..Len(s) + Len(t) /\ i + 1 \in 1..Len(s) + Len(t)
        /\ j \in 1..Len(s) + Len(t) /\ j + 1 \in 1..Len(s) + Len(t)
        /\ i < j /\ i + 1 < j + 1 /\ i < j + 1 /\ ~(i > Len(s) /\ j <= Len(s))
    BY <1>1, <1>4
  <2> QED BY <1>2, <1>3, <2>1 DEF Increasing
<1> QED BY <1>2, <1>4 DEF Increasing

\* So does an end that is cut off.
LEMMA IncreasingFirst ==
  ASSUME NEW s \in Seq(Nat), NEW t \in Seq(Nat), Increasing(s \o t)
  PROVE  Increasing(s)
<1>1. /\ Len(s) \in Nat /\ Len(t) \in Nat /\ Len(s \o t) = Len(s) + Len(t)
      /\ \A i \in 1..Len(s) : (s \o t)[i] = s[i]
  <2>1. Len(s) \in Nat /\ Len(t) \in Nat  OBVIOUS
  <2> QED BY <2>1, ConcatProperties
<1> QED BY <1>1 DEF Increasing

-----------------------------------------------------------------------------
(***************************************************************************)
(* The software codecs (XXfmH26x)                                          *)
(***************************************************************************)

\* The pictures on their way, from the first that came out to the last that went in.
Way == output \o decHeld \o channel \o encHeld

LoopInv ==
  /\ pictures \in Nat
  /\ output \in Seq(Nat) /\ decHeld \in Seq(Nat) /\ channel \in Seq(Nat) /\ encHeld \in Seq(Nat)
  /\ Increasing(Way) /\ Elements(Way) \cup dropped = 1..pictures

\* A step that moves pictures along the way and loses none.
LEMMA LoopMoves ==
  ASSUME LoopInv, UNCHANGED <<pictures, dropped>>, Way' = Way,
         output' \in Seq(Nat), decHeld' \in Seq(Nat), channel' \in Seq(Nat), encHeld' \in Seq(Nat)
  PROVE  LoopInv'
BY DEF LoopInv

\* A step that puts the next picture on the way.
LEMMA LoopTakes ==
  ASSUME LoopInv, pictures' = pictures + 1, dropped' = dropped, Way' = Append(Way, pictures'),
         output' \in Seq(Nat), decHeld' \in Seq(Nat), channel' \in Seq(Nat), encHeld' \in Seq(Nat)
  PROVE  LoopInv'
<1>1. Way \in Seq(Nat) /\ pictures' \in Nat
  <2>1. \A s, t \in Seq(Nat) : s \o t \in Seq(Nat)  BY ConcatProperties
  <2>2. /\ output \in Seq(Nat) /\ decHeld \in Seq(Nat) /\ channel \in Seq(Nat)
        /\ encHeld \in Seq(Nat) /\ pictures' \in Nat
    BY DEF LoopInv
  <2>3. output \o decHeld \in Seq(Nat)  BY <2>1, <2>2
  <2>4. (output \o decHeld) \o channel \in Seq(Nat)  BY <2>1, <2>2, <2>3
  <2> QED BY <2>1, <2>2, <2>4 DEF Way
<1> HIDE DEF Way
<1>2. \A x \in Elements(Way) : x < pictures'  BY DEF LoopInv
<1>3. Increasing(Append(Way, pictures'))  BY <1>1, <1>2, IncreasingAppended DEF LoopInv
<1>4. Elements(Append(Way, pictures')) = Elements(Way) \cup {pictures'}
  <2>1. \A s \in Seq(Nat), n \in Nat : Elements(Append(s, n)) = Elements(s) \cup {n}
    BY ElementsAppended
  <2> QED BY <1>1, <2>1
<1>5. 1..pictures' = 1..pictures \cup {pictures'}  BY DEF LoopInv
<1> QED BY <1>1, <1>3, <1>4, <1>5 DEF LoopInv

\* The encoder takes a picture in and, once it holds enough back, gives another out.
LEMMA LoopEncode ==
  ASSUME LoopInv, C!encodeFails \/ C!encodeAgain \/ C!encode
  PROVE  LoopInv'
<1>1. /\ pictures' = pictures + 1 /\ UNCHANGED <<decHeld, output>> /\ pictures' \in Nat
      /\ output \in Seq(Nat) /\ decHeld \in Seq(Nat) /\ channel \in Seq(Nat) /\ encHeld \in Seq(Nat)
  BY DEF LoopInv, C!encodeFails, C!encodeAgain, C!encode, C!sendFrame
<1> DEFINE before == output \o decHeld
<1>2. before \in Seq(Nat) /\ before \o channel \in Seq(Nat)
  <2>1. before \in Seq(Nat)  BY <1>1, ConcatProperties
  <2> HIDE DEF before
  <2> QED BY <1>1, <2>1, ConcatProperties
<1>6. Way = (before \o channel) \o encHeld /\ Way' = (before \o channel') \o encHeld'
  BY <1>1 DEF Way
<1> HIDE DEF before
<1>7. /\ \A s, t \in Seq(Nat) : \A n \in Nat : s \o Append(t, n) = Append(s \o t, n)
      /\ \A s, t \in Seq(Nat) : t # <<>> => Append(s, Head(t)) \o Tail(t) = s \o t
  <2>1. \A s, t \in Seq(Nat) : \A n \in Nat : s \o Append(t, n) = Append(s \o t, n)
    BY AppendedLast
  <2>2. \A s, t \in Seq(Nat) : t # <<>> => Append(s, Head(t)) \o Tail(t) = s \o t
    BY Shifted
  <2> QED BY <2>1, <2>2
<1>3. CASE C!encodeFails
  <2>1. dropped' = dropped \cup {pictures'} /\ UNCHANGED <<channel, encHeld>>
    BY <1>3 DEF C!encodeFails
  <2>2. Way' = Way  BY <1>6, <2>1
  <2>3. 1..pictures' = 1..pictures \cup {pictures'}  BY <1>1 DEF LoopInv
  <2> QED BY <1>1, <2>1, <2>2, <2>3 DEF LoopInv
<1>4. CASE C!encodeAgain
  <2>1. encHeld' = Append(encHeld, pictures') /\ UNCHANGED <<channel, dropped>>
    BY <1>4 DEF C!encodeAgain
  <2>2. Way' = Append(Way, pictures')
    BY <1>1, <1>2, <1>6, <1>7, <2>1
  <2>3. encHeld' \in Seq(Nat)  BY <1>1, <2>1, AppendProperties
  <2> QED BY <1>1, <2>1, <2>2, <2>3, LoopTakes
<1>5. CASE C!encode
  <2> DEFINE held == Append(encHeld, pictures')
  <2>1. channel' = Append(channel, Head(held)) /\ encHeld' = Tail(held) /\ dropped' = dropped
    BY <1>5 DEF C!encode, C!packetOf
  <2>2. held \in Seq(Nat) /\ held # <<>>  BY <1>1, AppendProperties
  <2>3. Head(held) \in Nat /\ Tail(held) \in Seq(Nat)
    <3> HIDE DEF held
    <3> QED BY <2>2, HeadTailProperties
  <2>4. channel' \in Seq(Nat)
    <3> HIDE DEF held
    <3> QED BY <1>1, <2>1, <2>3, AppendProperties
  <2>5. (before \o channel) \o held = Append(Way, pictures')
    BY <1>1, <1>2, <1>6, <1>7
  <2>6. Way' = (before \o channel) \o held
    <3> HIDE DEF held
    <3>1. before \o Append(channel, Head(held)) = Append(before \o channel, Head(held))
      BY <1>1, <1>2, <1>7, <2>3
    <3>2. Append(before \o channel, Head(held)) \o Tail(held) = (before \o channel) \o held
      BY <1>2, <1>7, <2>2
    <3> QED BY <1>6, <2>1, <3>1, <3>2
  <2> HIDE DEF held
  <2> QED BY <1>1, <2>1, <2>3, <2>4, <2>5, <2>6, LoopTakes
<1> QED BY <1>3, <1>4, <1>5

\* What the encoder holds back is lost when it is freed.
LEMMA LoopFree ==
  ASSUME LoopInv, C!freeEncoder
  PROVE  LoopInv'
<1>1. /\ dropped' = dropped \cup {encHeld[k] : k \in DOMAIN encHeld} /\ encHeld' = <<>>
      /\ UNCHANGED <<decHeld, channel, pictures, output>>
  BY DEF C!freeEncoder
<1>2. /\ output \in Seq(Nat) /\ decHeld \in Seq(Nat) /\ channel \in Seq(Nat) /\ encHeld \in Seq(Nat)
      /\ DOMAIN encHeld = 1..Len(encHeld)
  BY DEF LoopInv
<1> DEFINE inFront == output \o decHeld \o channel
<1>3. inFront \in Seq(Nat)
  <2>1. output \o decHeld \in Seq(Nat)  BY <1>2, ConcatProperties
  <2> QED BY <1>2, <2>1, ConcatProperties
<1>4. Way = inFront \o encHeld /\ Way' = inFront \o <<>>
  BY <1>1 DEF Way
<1> HIDE DEF inFront
<1>5. Way' = inFront  BY <1>3, <1>4, ConcatEmptySeq
<1>6. Increasing(inFront)  BY <1>2, <1>3, <1>4, IncreasingFirst DEF LoopInv
<1>7. Elements(Way) = Elements(inFront) \cup Elements(encHeld)  BY <1>2, <1>3, <1>4, ElementsOfBoth
<1>8. dropped' = dropped \cup Elements(encHeld)  BY <1>1, <1>2 DEF Elements
<1> QED BY <1>1, <1>2, <1>5, <1>6, <1>7, <1>8 DEF LoopInv

\* The decoder takes the first packet of the channel.
LEMMA LoopDecode ==
  ASSUME LoopInv, C!decodeFails \/ C!decodeAgain \/ C!decode
  PROVE  LoopInv'
<1>1. /\ channel # <<>> /\ channel' = Tail(channel) /\ UNCHANGED <<encHeld, pictures>>
      /\ output \in Seq(Nat) /\ decHeld \in Seq(Nat) /\ channel \in Seq(Nat) /\ encHeld \in Seq(Nat)
  BY DEF LoopInv, C!decodeFails, C!decodeAgain, C!decode, C!sendPacket
<1>2. output \o decHeld \in Seq(Nat) /\ Head(channel) \in Nat /\ Tail(channel) \in Seq(Nat)
  <2>1. output \o decHeld \in Seq(Nat)  BY <1>1, ConcatProperties
  <2> QED BY <1>1, <2>1, HeadTailProperties
<1>6. \A s, t \in Seq(Nat) : \A n \in Nat : s \o Append(t, n) = Append(s \o t, n)
  BY AppendedLast
<1>7. \A s, t \in Seq(Nat) : t # <<>> => Append(s, Head(t)) \o Tail(t) = s \o t
  BY Shifted
<1>3. CASE C!decodeFails
  <2> DEFINE before == output \o decHeld
  <2>1. dropped' = dropped \cup {Head(channel)} /\ UNCHANGED <<decHeld, output>>
    BY <1>3 DEF C!decodeFails
  <2>2. before \in Seq(Nat) /\ Way = (before \o channel) \o encHeld
        /\ Way' = (before \o Tail(channel)) \o encHeld
    BY <1>1, <1>2, <2>1 DEF Way
  <2> HIDE DEF before
  <2>3. channel \o encHeld \in Seq(Nat) /\ channel \o encHeld # <<>>
    BY <1>1, ConcatProperties, ConcatEqualIffEmpty
  <2>4. channel = <<Head(channel)>> \o Tail(channel) /\ <<Head(channel)>> \in Seq(Nat)
    BY <1>1, <1>2, HeadTailProperties
  <2>5. channel \o encHeld = <<Head(channel)>> \o (Tail(channel) \o encHeld)
    BY <1>1, <1>2, <2>4, ConcatAssociative
  <2>6. Tail(channel \o encHeld) = Tail(channel) \o encHeld
    <3> DEFINE rest == Tail(channel) \o encHeld
    <3>1. rest \in Seq(Nat)  BY <1>1, <1>2, ConcatProperties
    <3> HIDE DEF rest
    <3>2. Tail(<<Head(channel)>> \o rest) = rest
      BY <1>2, <3>1
    <3> QED BY <2>5, <3>2 DEF rest
  <2>7. Way = before \o (channel \o encHeld) /\ Way' = before \o Tail(channel \o encHeld)
    <3>1. \A s, t, u \in Seq(Nat) : (s \o t) \o u = s \o (t \o u)
      BY ConcatAssociative, SMTT(20)
    <3>2. (before \o channel) \o encHeld = before \o (channel \o encHeld)  BY <1>1, <2>2, <3>1
    <3>3. (before \o Tail(channel)) \o encHeld = before \o (Tail(channel) \o encHeld)
      BY <1>1, <1>2, <2>2, <3>1
    <3> QED BY <2>2, <2>6, <3>2, <3>3
  <2>8. Increasing(Way')
    BY <2>2, <2>3, <2>7, IncreasingWithout DEF LoopInv
  <2>9. Elements(channel) = {Head(channel)} \cup Elements(Tail(channel))
    <3>1. Elements(channel) = Elements(<<Head(channel)>>) \cup Elements(Tail(channel))
      BY <1>2, <2>4, ElementsOfBoth
    <3>2. Elements(<<Head(channel)>>) = {Head(channel)}  BY DEF Elements
    <3> QED BY <3>1, <3>2
  <2>10. /\ Elements(Way) = Elements(before) \cup Elements(channel) \cup Elements(encHeld)
         /\ Elements(Way') = Elements(before) \cup Elements(Tail(channel)) \cup Elements(encHeld)
    <3>1. before \o channel \in Seq(Nat) /\ before \o Tail(channel) \in Seq(Nat)
      BY <1>1, <1>2, <2>2, ConcatProperties
    <3>2. \A s, t \in Seq(Nat) : Elements(s \o t) = Elements(s) \cup Elements(t)
      BY ElementsOfBoth
    <3>3. /\ Elements(Way) = Elements(before \o channel) \cup Elements(encHeld)
          /\ Elements(Way') = Elements(before \o Tail(channel)) \cup Elements(encHeld)
      BY <1>1, <2>2, <3>1, <3>2
    <3>4. /\ Elements(before \o channel) = Elements(before) \cup Elements(channel)
          /\ Elements(before \o Tail(channel)) = Elements(before) \cup Elements(Tail(channel))
      BY <1>1, <1>2, <2>2, <3>2
    <3> QED BY <3>3, <3>4
  <2> QED BY <1>1, <1>2, <2>1, <2>8, <2>9, <2>10 DEF LoopInv
<1>4. CASE C!decodeAgain
  <2>1. decHeld' = Append(decHeld, Head(channel)) /\ UNCHANGED <<output, dropped>>
    BY <1>4 DEF C!decodeAgain
  <2>2. output \o Append(decHeld, Head(channel)) = Append(output \o decHeld, Head(channel))
    BY <1>1, <1>2, <1>6
  <2>3. Append(output \o decHeld, Head(channel)) \o Tail(channel) = (output \o decHeld) \o channel
    BY <1>1, <1>2, <1>7
  <2>4. decHeld' \in Seq(Nat)  BY <1>1, <1>2, <2>1, AppendProperties
  <2>5. Way' = Way  BY <1>1, <2>1, <2>2, <2>3 DEF Way
  <2> QED BY <1>1, <1>2, <2>1, <2>4, <2>5, LoopMoves
<1>5. CASE C!decode
  <2> DEFINE held == Append(decHeld, Head(channel))
  <2>1. output' = Append(output, Head(held)) /\ decHeld' = Tail(held) /\ dropped' = dropped
    BY <1>5 DEF C!decode
  <2>2. held \in Seq(Nat) /\ held # <<>>
    <3>1. \A s \in Seq(Nat), n \in Nat : Append(s, n) \in Seq(Nat) /\ Append(s, n) # <<>>
      BY AppendProperties
    <3> QED BY <1>1, <1>2, <3>1
  <2>3. output \o held = Append(output \o decHeld, Head(channel))
    BY <1>1, <1>2, <1>6
  <2>4. Append(output \o decHeld, Head(channel)) \o Tail(channel) = (output \o decHeld) \o channel
    BY <1>1, <1>2, <1>7
  <2> HIDE DEF held
  <2>5. Head(held) \in Nat /\ Tail(held) \in Seq(Nat)  BY <2>2, HeadTailProperties
  <2>6. Append(output, Head(held)) \o Tail(held) = output \o held  BY <1>1, <1>7, <2>2
  <2>7. output' \in Seq(Nat)  BY <1>1, <2>1, <2>5, AppendProperties
  <2>8. Way' = Way  BY <1>1, <2>1, <2>3, <2>4, <2>6 DEF Way
  <2> QED BY <1>1, <1>2, <2>1, <2>5, <2>7, <2>8, LoopMoves
<1> QED BY <1>3, <1>4, <1>5

LEMMA LoopNext ==
  ASSUME LoopInv, C!Next
  PROVE  LoopInv'
<1>1. CASE C!createDecoder \/ \E f \in {"Rgb24", "Yuv420"} : C!createEncoder(f)
  <2>1. UNCHANGED <<output, decHeld, channel, encHeld, pictures, dropped>>
    BY <1>1 DEF C!createDecoder, C!createEncoder
  <2>2. Way' = Way  BY <2>1 DEF Way
  <2> QED BY <2>1, <2>2, LoopMoves DEF LoopInv
<1> QED BY <1>1, LoopEncode, LoopFree, LoopDecode DEF C!Next

-----------------------------------------------------------------------------
(***************************************************************************)
(* The mp4 reader (XXfmMp4Reader)                                          *)
(***************************************************************************)

\* A set of numbers up to n has a greatest one, as seek's CHOOSE needs.
LEMMA Greatest ==
  ASSUME NEW n \in Nat, NEW S \in SUBSET (1..n), S # {}
  PROVE  \E m \in S : \A k \in S : k <= m
<1> DEFINE B == 1..n
           F == {k..n : k \in S}
<1>1. IsWellFoundedOn(StrictSubsetOrdering(B), FiniteSubsetsOf(B))
  BY FS_StrictSubsetOrderingWellFounded
<1>2. F \subseteq FiniteSubsetsOf(B) /\ F # {}
  <2>1. ASSUME NEW k \in S
        PROVE  k..n \in FiniteSubsetsOf(B)
    <3>1. k \in Int /\ k..n \subseteq B  OBVIOUS
    <3>2. IsFiniteSet(k..n)  BY <3>1, FS_Interval
    <3> QED BY <3>1, <3>2 DEF FiniteSubsetsOf
  <2> QED BY <2>1
<1>3. PICK I \in F : \A J \in F : ~(<<J, I>> \in StrictSubsetOrdering(B))
  <2> HIDE DEF F, B
  <2> QED BY <1>1, <1>2, WFMin
<1>4. PICK m \in S : I = m..n  BY <1>3
<1>5. ASSUME NEW k \in S, k > m PROVE FALSE
  <2>1. k..n \in F /\ k..n \subseteq I /\ k..n # I /\ I \subseteq B  BY <1>4, <1>5
  <2>2. <<k..n, I>> \in StrictSubsetOrdering(B)  BY <2>1 DEF StrictSubsetOrdering
  <2> QED BY <1>3, <2>1, <2>2
<1> QED BY <1>4, <1>5

\* The end of a sequence; more behind both keeps it the end.
IsEnd(t, s) ==
  Len(t) <= Len(s) /\ \A i \in 1..Len(t) : s[Len(s) - Len(t) + i] = t[i]

LEMMA EndAppended ==
  ASSUME NEW s \in Seq(Nat), NEW t \in Seq(Nat), NEW n \in Nat, IsEnd(t, s)
  PROVE  /\ IsEnd(Append(t, n), Append(s, n))
         /\ Len(Append(s, n)) - Len(Append(t, n)) = Len(s) - Len(t)
<1>1. /\ Len(s) \in Nat /\ Len(t) \in Nat
      /\ Len(Append(s, n)) = Len(s) + 1 /\ Len(Append(t, n)) = Len(t) + 1
      /\ \A i \in 1..Len(s) : Append(s, n)[i] = s[i]
      /\ \A i \in 1..Len(t) : Append(t, n)[i] = t[i]
      /\ Append(s, n)[Len(s) + 1] = n /\ Append(t, n)[Len(t) + 1] = n
  BY AppendProperties
<1>2. ASSUME NEW i \in 1..Len(t) + 1
      PROVE  Append(s, n)[(Len(s) + 1) - (Len(t) + 1) + i] = Append(t, n)[i]
  <2>1. (Len(s) + 1) - (Len(t) + 1) + i = Len(s) - Len(t) + i  BY <1>1
  <2>2. CASE i \in 1..Len(t)
    <3>1. Len(s) - Len(t) + i \in 1..Len(s)  BY <1>1, <2>2 DEF IsEnd
    <3> QED BY <1>1, <2>1, <2>2, <3>1 DEF IsEnd
  <2>3. CASE i = Len(t) + 1
    <3>1. Len(s) - Len(t) + i = Len(s) + 1  BY <1>1, <2>3
    <3> QED BY <1>1, <2>1, <2>3, <3>1
  <2>4. i \in 1..Len(t) \/ i = Len(t) + 1  BY <1>1
  <2> QED BY <2>2, <2>3, <2>4
<1>3. Len(Append(t, n)) <= Len(Append(s, n))
  BY <1>1 DEF IsEnd
<1>4. \A i \in 1..Len(Append(t, n)) :
        Append(s, n)[Len(Append(s, n)) - Len(Append(t, n)) + i] = Append(t, n)[i]
  <2>1. Len(Append(s, n)) = Len(s) + 1 /\ Len(Append(t, n)) = Len(t) + 1  BY <1>1
  <2> QED BY <1>2, <2>1
<1>5. Len(Append(s, n)) - Len(Append(t, n)) = Len(s) - Len(t)
  BY <1>1
<1> QED BY <1>3, <1>4, <1>5 DEF IsEnd

LEMMA EndIsSubSeq ==
  ASSUME NEW s \in Seq(Nat), NEW t \in Seq(Nat), IsEnd(t, s)
  PROVE  SubSeq(s, Len(s) - Len(t) + 1, Len(s)) = t
<1> DEFINE m == Len(s) - Len(t) + 1
<1>1. Len(s) \in Nat /\ Len(t) \in Nat /\ Len(t) <= Len(s) /\ m \in Int /\ Len(s) - m + 1 = Len(t)
  BY DEF IsEnd
<1>2. \A i \in m..Len(s) : s[i] \in Nat
  BY <1>1
<1>3. /\ SubSeq(s, m, Len(s)) \in Seq(Nat)
      /\ Len(SubSeq(s, m, Len(s))) = Len(t)
      /\ \A i \in 1..Len(t) : SubSeq(s, m, Len(s))[i] = s[m + i - 1]
  <2>1. /\ SubSeq(s, m, Len(s)) \in Seq(Nat)
        /\ Len(SubSeq(s, m, Len(s))) = IF m <= Len(s) THEN Len(s) - m + 1 ELSE 0
        /\ \A i \in 1..Len(s) - m + 1 : SubSeq(s, m, Len(s))[i] = s[m + i - 1]
    <3> HIDE DEF m
    <3> QED BY <1>1, <1>2, SubSeqProperties
  <2>2. (IF m <= Len(s) THEN Len(s) - m + 1 ELSE 0) = Len(t)  BY <1>1
  <2> HIDE DEF m
  <2> QED BY <1>1, <2>1, <2>2
<1>4. \A i \in 1..Len(t) : m + i - 1 = Len(s) - Len(t) + i  BY <1>1
<1>5. \A i \in 1..Len(t) : SubSeq(s, m, Len(s))[i] = t[i]
  BY <1>3, <1>4 DEF IsEnd
<1> HIDE DEF m
<1>6. SubSeq(s, m, Len(s)) = t
  BY <1>3, <1>5, SeqEqual
<1> QED BY <1>6 DEF m

\* What was returned and what a decoder holds end with what it was given since the seek;
\* only the decoder of the audio may have more, what a seek left in it.
Came(s) == returned[s] \o codec[s]
Streams == {"V", "A"}

ReaderInv ==
  /\ position \in Nat /\ delay \in [Streams -> 0..MaxDelay]
  /\ codec \in [Streams -> Seq(Nat)] /\ since \in [Streams -> Seq(Nat)]
  /\ returned \in [Streams -> Seq(Nat)]
  /\ handle = "None" => /\ ret # "Frame"
                        /\ \A s \in Streams : codec[s] = <<>> /\ since[s] = <<>> /\ returned[s] = <<>>
  /\ \A s \in Streams : IsEnd(since[s], Came(s)) /\ Len(codec[s]) <= delay[s]
  /\ Len(Came("V")) = Len(since["V"]) /\ Len(Came("A")) - Len(since["A"]) <= delay["A"]
  /\ R!KeyOfFrame

LEMMA ReaderBounds == MaxDelay \in Nat /\ File \in Seq(Packet)
  BY MediaAssumption

\* What came of a stream is a sequence of positions.
LEMMA CameTyped ==
  ASSUME ReaderInv, NEW s \in Streams
  PROVE  Came(s) \in Seq(Nat) /\ Len(Came(s)) = Len(returned[s]) + Len(codec[s])
         /\ Len(returned[s]) \in Nat /\ Len(codec[s]) \in Nat /\ Len(since[s]) \in Nat
<1>1. returned[s] \in Seq(Nat) /\ codec[s] \in Seq(Nat) /\ since[s] \in Seq(Nat)
  BY DEF ReaderInv
<1> QED BY <1>1, ConcatProperties DEF Came

\* Steps that leave the streams as they are.
LEMMA ReaderStays ==
  ASSUME ReaderInv, UNCHANGED <<delay, codec, since, returned>>, position' \in Nat,
         handle' # "None" \/ handle' = handle,
         ret' # "Frame" \/ UNCHANGED <<ret, frame>>
  PROVE  ReaderInv'
<1>1. \A s \in Streams : Came(s)' = Came(s)  BY DEF Came
<1>2. R!KeyOfFrame'  BY DEF ReaderInv, R!KeyOfFrame
<1>3. handle' = "None" => ret' # "Frame"  BY DEF ReaderInv
<1> HIDE DEF Came
<1> QED BY <1>1, <1>2, <1>3 DEF ReaderInv, Streams

\* Steps that give a packet to a decoder.
LEMMA ReaderSends ==
  ASSUME ReaderInv, NEW s \in Streams, NEW p \in Nat,
         position' = p, handle # "None", handle' = handle, delay' = delay,
         since' = [since EXCEPT ![s] = Append(@, p)],
         codec' \in [Streams -> Seq(Nat)], returned' \in [Streams -> Seq(Nat)],
         \A r \in Streams : r # s => codec'[r] = codec[r] /\ returned'[r] = returned[r],
         returned'[s] \o codec'[s] = Append(Came(s), p), Len(codec'[s]) <= delay[s],
         R!KeyOfFrame'
  PROVE  ReaderInv'
<1>1. since' \in [Streams -> Seq(Nat)] /\ since'[s] = Append(since[s], p)
      /\ \A r \in Streams : r # s => since'[r] = since[r]
  <2>1. since \in [Streams -> Seq(Nat)] /\ since[s] \in Seq(Nat)  BY DEF ReaderInv
  <2>2. Append(since[s], p) \in Seq(Nat)  BY <2>1, AppendProperties
  <2> QED BY <2>1, <2>2
<1>2. \A r \in Streams : Came(r)' = IF r = s THEN Append(Came(s), p) ELSE Came(r)
  BY DEF Came
<1>3. Came(s) \in Seq(Nat) /\ since[s] \in Seq(Nat) /\ IsEnd(since[s], Came(s))
  BY CameTyped DEF ReaderInv
<1> HIDE DEF Came
<1>4. /\ IsEnd(Append(since[s], p), Append(Came(s), p))
      /\ Len(Append(Came(s), p)) - Len(Append(since[s], p)) = Len(Came(s)) - Len(since[s])
  BY <1>3, EndAppended
<1>5. \A r \in Streams : IsEnd(since'[r], Came(r)') /\ Len(codec'[r]) <= delay'[r]
  BY <1>1, <1>2, <1>4 DEF ReaderInv
<1>6. \A r \in Streams : Len(Came(r)') - Len(since'[r]) = Len(Came(r)) - Len(since[r])
  BY <1>1, <1>2, <1>4
<1>7. Len(Came("V")') = Len(since'["V"]) /\ Len(Came("A")') - Len(since'["A"]) <= delay'["A"]
  <2>1. /\ Len(Came("V")') - Len(since'["V"]) = Len(Came("V")) - Len(since["V"])
        /\ Len(Came("A")') - Len(since'["A"]) = Len(Came("A")) - Len(since["A"])
    BY <1>6 DEF Streams
  <2>2. \A r \in Streams : Came(r)' \in Seq(Nat) /\ since'[r] \in Seq(Nat)
    <3>1. ASSUME NEW r \in Streams PROVE Came(r)' \in Seq(Nat) /\ since'[r] \in Seq(Nat)
      <4>1. CASE r = s
        <5>1. Append(Came(s), p) \in Seq(Nat) /\ Append(since[s], p) \in Seq(Nat)
          BY <1>3, AppendProperties
        <5> QED BY <1>1, <1>2, <4>1, <5>1
      <4>2. CASE r # s
        <5>1. Came(r) \in Seq(Nat)  BY CameTyped
        <5> QED BY <1>1, <1>2, <4>2, <5>1
      <4> QED BY <4>1, <4>2
    <3> QED BY <3>1
  <2>3. /\ Len(Came("V")') \in Nat /\ Len(since'["V"]) \in Nat
        /\ Len(Came("A")') \in Nat /\ Len(since'["A"]) \in Nat
    BY <2>2 DEF Streams
  <2>4. /\ Len(Came("V")) = Len(since["V"]) /\ Len(Came("A")) - Len(since["A"]) <= delay["A"]
        /\ Len(since["V"]) \in Nat
    <3>1. Len(since["V"]) \in Nat  BY CameTyped DEF Streams
    <3> QED BY <3>1 DEF ReaderInv
  <2>5. delay'["A"] = delay["A"]  OBVIOUS
  <2>6. Len(Came("V")') = Len(since'["V"])
    BY <2>1, <2>3, <2>4
  <2>7. Len(Came("A")') - Len(since'["A"]) <= delay'["A"]
    BY <2>1, <2>4, <2>5
  <2> QED BY <2>6, <2>7
<1> QED BY <1>1, <1>5, <1>7 DEF ReaderInv

\* Opening and closing.
LEMMA ReaderCreate ==
  ASSUME ReaderInv, R!create
  PROVE  ReaderInv'
<1>1. /\ delay' \in [Streams -> 0..MaxDelay] /\ handle' = "Open" /\ ret # "Frame"
      /\ UNCHANGED <<position, codec, ret, frame, since, returned>>
      /\ \A s \in Streams : codec[s] = <<>> /\ since[s] = <<>> /\ returned[s] = <<>>
  BY DEF R!create, R!Stream, Streams, ReaderInv
<1>2. \A s \in Streams : delay'[s] >= 0
  BY <1>1, ReaderBounds
<1>3. \A s \in Streams : Came(s)' = Came(s)  BY <1>1 DEF Came
<1>4. \A s \in Streams : Len(Came(s)) = 0 /\ Len(since[s]) = 0
  <2>1. \A s \in Streams : Came(s) = <<>>
    BY <1>1, ConcatEmptySeq, EmptySeq DEF Came, ReaderInv
  <2> QED BY <1>1, <2>1, EmptySeq
<1> HIDE DEF Came
<1>5. \A s \in Streams : IsEnd(since'[s], Came(s)') /\ Len(codec'[s]) <= delay'[s]
  BY <1>1, <1>2, <1>3, EmptySeq DEF ReaderInv
<1>6. Len(Came("V")') = Len(since'["V"]) /\ Len(Came("A")') - Len(since'["A"]) <= delay'["A"]
  <2>1. "V" \in Streams /\ "A" \in Streams  BY DEF Streams
  <2> QED BY <1>1, <1>2, <1>3, <1>4, <2>1
<1>7. R!KeyOfFrame'  BY <1>1 DEF R!KeyOfFrame
<1> QED BY <1>1, <1>5, <1>6, <1>7 DEF ReaderInv

LEMMA ReaderEmpty ==
  ASSUME delay' \in [Streams -> 0..MaxDelay], position' \in Nat, ret' # "Frame",
         codec' = [s \in Streams |-> <<>>], since' = codec', returned' = codec'
  PROVE  ReaderInv'
<1>1. \A s \in Streams : codec'[s] = <<>> /\ since'[s] = <<>> /\ returned'[s] = <<>>
  OBVIOUS
<1>2. \A s \in Streams : Came(s)' = <<>>
  BY <1>1, ConcatEmptySeq, EmptySeq DEF Came
<1>3. \A s \in Streams : delay'[s] >= 0
  BY ReaderBounds
<1> HIDE DEF Came
<1>4. \A s \in Streams : IsEnd(since'[s], Came(s)') /\ Len(codec'[s]) <= delay'[s]
  BY <1>1, <1>2, <1>3 DEF IsEnd
<1>5. Len(Came("V")') = Len(since'["V"]) /\ Len(Came("A")') - Len(since'["A"]) <= delay'["A"]
  <2>1. "V" \in Streams /\ "A" \in Streams  BY DEF Streams
  <2> QED BY <1>1, <1>2, <1>3, <2>1
<1>6. R!KeyOfFrame'  BY DEF R!KeyOfFrame
<1>7. codec' \in [Streams -> Seq(Nat)]  BY EmptySeq
<1> QED BY <1>1, <1>4, <1>5, <1>6, <1>7 DEF ReaderInv

LEMMA ReaderFree ==
  ASSUME ReaderInv, R!free
  PROVE  ReaderInv'
BY ReaderEmpty DEF R!free, R!Nothing, R!Stream, Streams, ReaderInv

\* Calls of next that return no frame and give nothing to a decoder.
LEMMA ReaderReads ==
  ASSUME ReaderInv,
         \/ R!endOfFile \/ R!otherStream
         \/ \E s \in {"V", "A"} : R!noDecoder(s) \/ R!refused(s)
  PROVE  ReaderInv'
<1>1. position \in Nat  BY DEF ReaderInv
<1>2. CASE R!endOfFile
  BY <1>1, <1>2, ReaderStays DEF R!endOfFile
<1>3. CASE R!otherStream
  BY <1>1, <1>3, ReaderStays DEF R!otherStream, R!readFrame
<1>4. ASSUME NEW s \in {"V", "A"}, R!noDecoder(s) PROVE ReaderInv'
  BY <1>1, <1>4, ReaderStays DEF R!noDecoder, R!readFrame
<1>5. ASSUME NEW s \in {"V", "A"}, R!refused(s) PROVE ReaderInv'
  BY <1>1, <1>5, ReaderStays DEF R!refused, R!readFrame
<1> QED BY <1>2, <1>3, <1>4, <1>5

\* The decoder has taken the packet and gives no frame yet.
LEMMA ReaderWaits ==
  ASSUME ReaderInv, NEW s \in Streams, R!nextPacket(s)
  PROVE  ReaderInv'
<1> DEFINE p == position + 1
<1>1. /\ p \in Nat /\ position' = p /\ handle = "Open" /\ handle' = handle /\ delay' = delay
      /\ since' = [since EXCEPT ![s] = Append(@, p)]
      /\ codec' = [codec EXCEPT ![s] = Append(@, p)]
      /\ Len(codec[s]) < delay[s] /\ returned' = returned /\ ret' = "Next"
  BY DEF R!nextPacket, R!sendPacket, R!readFrame, ReaderInv
<1> HIDE DEF p
<1>2. codec \in [Streams -> Seq(Nat)] /\ codec[s] \in Seq(Nat) /\ returned \in [Streams -> Seq(Nat)]
      /\ returned[s] \in Seq(Nat)
  BY DEF ReaderInv
<1>3. Append(codec[s], p) \in Seq(Nat) /\ Len(Append(codec[s], p)) = Len(codec[s]) + 1
  BY <1>1, <1>2, AppendProperties
<1>4. /\ codec' \in [Streams -> Seq(Nat)] /\ codec'[s] = Append(codec[s], p)
      /\ \A r \in Streams : r # s => codec'[r] = codec[r]
  BY <1>1, <1>2, <1>3
<1>5. returned'[s] \o codec'[s] = Append(Came(s), p)
  <2>1. \A u, v \in Seq(Nat), n \in Nat : u \o Append(v, n) = Append(u \o v, n)
    BY AppendedLast
  <2> QED BY <1>1, <1>2, <1>4, <2>1 DEF Came
<1>6. Len(codec'[s]) <= delay[s]
  <2>1. Len(codec[s]) \in Nat /\ delay[s] \in Nat  BY <1>2, ReaderBounds DEF ReaderInv
  <2> QED BY <1>1, <1>3, <1>4, <2>1
<1>7. R!KeyOfFrame'  BY <1>1 DEF R!KeyOfFrame
<1>8. handle # "None"  BY <1>1
<1>9. returned' \in [Streams -> Seq(Nat)] /\ \A r \in Streams : r # s => returned'[r] = returned[r]
  BY <1>1, <1>2
<1> HIDE DEF Came
<1> QED BY <1>1, <1>4, <1>5, <1>6, <1>7, <1>8, <1>9, ReaderSends

\* The decoder has taken the packet and gives the frame it holds longest.
LEMMA ReaderReceives ==
  ASSUME ReaderInv, NEW s \in Streams, R!receiveFrame(s)
  PROVE  ReaderInv'
<1> DEFINE p == position + 1
           all == Append(codec[s], p)
<1>1. /\ p \in 1..Len(File) /\ position' = p /\ handle = "Open" /\ handle' = handle
      /\ delay' = delay
      /\ since' = [since EXCEPT ![s] = Append(@, p)]
      /\ codec' = [codec EXCEPT ![s] = Tail(all)]
      /\ returned' = [returned EXCEPT ![s] = Append(@, Head(all))]
      /\ frame' = [stream |-> s, of |-> Head(all), isKey |-> s = "V" /\ File[p].key]
  BY ReaderBounds DEF R!receiveFrame, R!sendPacket, R!readFrame, ReaderInv
<1> HIDE DEF p
<1>2. codec \in [Streams -> Seq(Nat)] /\ codec[s] \in Seq(Nat) /\ returned \in [Streams -> Seq(Nat)]
      /\ returned[s] \in Seq(Nat) /\ p \in Nat
  BY <1>1, ReaderBounds DEF ReaderInv
<1>3. all \in Seq(Nat) /\ all # <<>> /\ Len(all) = Len(codec[s]) + 1 /\ Len(codec[s]) \in Nat
  <2>1. all \in Seq(Nat) /\ Len(all) = Len(codec[s]) + 1 /\ Len(codec[s]) \in Nat
    BY <1>2, AppendProperties
  <2> HIDE DEF all
  <2> QED BY <2>1, EmptySeq
<1>4. codec[s] = <<>> => Head(all) = p
  BY <1>2, AppendProperties
<1>5. returned[s] \o all = Append(Came(s), p)
  <2>1. \A u, v \in Seq(Nat), n \in Nat : u \o Append(v, n) = Append(u \o v, n)
    BY AppendedLast
  <2> QED BY <1>2, <2>1 DEF Came
<1> HIDE DEF all
<1>6. Head(all) \in Nat /\ Tail(all) \in Seq(Nat) /\ Len(Tail(all)) = Len(codec[s])
  BY <1>3, HeadTailProperties
<1>7. Append(returned[s], Head(all)) \in Seq(Nat)
  BY <1>2, <1>6, AppendProperties
<1>8. /\ codec' \in [Streams -> Seq(Nat)] /\ codec'[s] = Tail(all)
      /\ returned' \in [Streams -> Seq(Nat)] /\ returned'[s] = Append(returned[s], Head(all))
      /\ \A r \in Streams : r # s => codec'[r] = codec[r] /\ returned'[r] = returned[r]
  BY <1>1, <1>2, <1>6, <1>7
<1>9. returned'[s] \o codec'[s] = Append(Came(s), p)
  <2>1. \A u, v \in Seq(Nat) : v # <<>> => Append(u, Head(v)) \o Tail(v) = u \o v
    BY Shifted
  <2>2. Append(returned[s], Head(all)) \o Tail(all) = returned[s] \o all
    BY <1>2, <1>3, <2>1
  <2> QED BY <1>5, <1>8, <2>2
<1>10. Len(codec'[s]) <= delay[s]
  BY <1>6, <1>8 DEF ReaderInv
<1>11. R!KeyOfFrame'
  <2>1. ASSUME frame'.stream = "V", delay'["V"] = 0
        PROVE  frame'.isKey = File[frame'.of].key
    <3>1. s = "V"  BY <1>1, <2>1
    <3>2. Len(codec[s]) <= delay[s]  BY DEF ReaderInv
    <3>3. Len(codec[s]) = 0  BY <1>1, <1>3, <2>1, <3>1, <3>2
    <3>4. codec[s] = <<>>  BY <1>2, <3>3, EmptySeq
    <3>5. frame'.of = p  BY <1>1, <1>4, <3>4
    <3>6. File[p] \in Packet  BY <1>1, ReaderBounds
    <3>7. frame'.isKey = File[p].key  BY <1>1, <3>1, <3>6 DEF Packet
    <3> QED BY <3>5, <3>7
  <2> QED BY <2>1 DEF R!KeyOfFrame
<1>12. handle # "None"  BY <1>1
<1> HIDE DEF Came
<1> QED BY <1>1, <1>2, <1>8, <1>9, <1>10, <1>11, <1>12, ReaderSends

\* A seek empties the video's decoder and leaves the audio's what it holds.
LEMMA ReaderSeeks ==
  ASSUME ReaderInv, NEW k \in DOMAIN File, R!seek(k)
  PROVE  ReaderInv'
<1>1. position' \in Nat
  <2>1. k \in Nat  BY ReaderBounds
  <2>2. position \in Nat  BY DEF ReaderInv
  <2>3. position' = IF R!keyFrames(k) = {} THEN position
                    ELSE (CHOOSE j \in R!keyFrames(k) : \A i \in R!keyFrames(k) : i <= j) - 1
    BY DEF R!seek, R!seekFrame
  <2>4. R!keyFrames(k) \in SUBSET (1..k)  BY DEF R!keyFrames
  <2>5. CASE R!keyFrames(k) # {}
    <3> DEFINE j == CHOOSE j \in R!keyFrames(k) : \A i \in R!keyFrames(k) : i <= j
    <3>1. \E m \in R!keyFrames(k) : \A i \in R!keyFrames(k) : i <= m
      BY <2>1, <2>4, <2>5, Greatest
    <3>2. j \in R!keyFrames(k)  BY <3>1
    <3>3. position' = j - 1  BY <2>3, <2>5
    <3> HIDE DEF j
    <3> QED BY <2>1, <2>4, <3>2, <3>3
  <2> QED BY <2>2, <2>3, <2>5
<1>2. CASE ~needDecode
  BY <1>1, <1>2, ReaderStays DEF R!seek
<1>3. CASE needDecode
  <2>1. /\ handle' = handle /\ handle # "None" /\ ret' = "Sought" /\ delay' = delay
        /\ codec' = [codec EXCEPT !["V"] = <<>>]
        /\ since' = [s \in Streams |-> <<>>] /\ returned' = [s \in Streams |-> <<>>]
    BY <1>3 DEF R!seek, R!flushBuffers, R!Nothing, R!Stream, Streams
  <2>2. /\ codec' \in [Streams -> Seq(Nat)] /\ codec'["V"] = <<>> /\ codec'["A"] = codec["A"]
        /\ \A s \in Streams : since'[s] = <<>> /\ returned'[s] = <<>>
        /\ since' \in [Streams -> Seq(Nat)] /\ returned' \in [Streams -> Seq(Nat)]
    BY <2>1, EmptySeq DEF ReaderInv, Streams
  <2>3. \A s \in Streams : Came(s)' = codec'[s]
    BY <2>2, ConcatEmptySeq DEF Came
  <2>4. /\ delay["V"] \in Nat /\ delay["A"] \in Nat /\ codec["A"] \in Seq(Nat)
        /\ Len(codec["A"]) <= delay["A"]
    BY ReaderBounds DEF ReaderInv, Streams
  <2> HIDE DEF Came
  <2>5. \A s \in Streams : IsEnd(since'[s], Came(s)')
    <3>1. \A s \in Streams : codec'[s] \in Seq(Nat)  BY <2>2
    <3> QED BY <2>2, <2>3, <3>1, EmptySeq DEF IsEnd
  <2>6. \A s \in Streams : Len(codec'[s]) <= delay'[s]
    BY <2>1, <2>2, <2>4 DEF Streams
  <2>7. Len(Came("V")') = Len(since'["V"]) /\ Len(Came("A")') - Len(since'["A"]) <= delay'["A"]
    <3>1. Len(codec["A"]) \in Nat /\ Len(Came("V")') = 0 /\ Len(since'["V"]) = 0
          /\ Len(Came("A")') = Len(codec["A"]) /\ Len(since'["A"]) = 0
      BY <2>2, <2>3, <2>4 DEF Streams
    <3> QED BY <2>1, <2>4, <3>1
  <2>8. R!KeyOfFrame'  BY <2>1 DEF R!KeyOfFrame
  <2>9. delay' \in [Streams -> 0..MaxDelay]  BY <2>1 DEF ReaderInv
  <2> QED BY <1>1, <2>1, <2>2, <2>5, <2>6, <2>7, <2>8, <2>9 DEF ReaderInv
<1> QED BY <1>2, <1>3

LEMMA ReaderNext ==
  ASSUME ReaderInv, R!Next
  PROVE  ReaderInv'
<1>1. ASSUME NEW s \in R!Stream, R!nextPacket(s) \/ R!receiveFrame(s)
      PROVE  ReaderInv'
  BY <1>1, ReaderWaits, ReaderReceives DEF R!Stream, Streams
<1>2. ASSUME NEW k \in DOMAIN File, R!seek(k)
      PROVE  ReaderInv'
  BY <1>2, ReaderSeeks
<1>3. \/ R!create \/ R!free
      \/ \/ R!endOfFile \/ R!otherStream
         \/ \E s \in {"V", "A"} : R!noDecoder(s) \/ R!refused(s)
      \/ \E s \in R!Stream : R!nextPacket(s) \/ R!receiveFrame(s)
      \/ \E k \in DOMAIN File : R!seek(k)
  BY DEF R!Next, R!Stream
<1> QED BY <1>1, <1>2, <1>3, ReaderCreate, ReaderFree, ReaderReads

LEMMA ReaderPromises ==
  ASSUME ReaderInv
  PROVE  R!ReaderSound
<1>1. ASSUME NEW s \in Streams
      PROVE  /\ R!stale(s) = Len(Came(s)) - Len(since[s])
             /\ R!stale(s) \in Int /\ R!stale(s) >= 0
             /\ SubSeq(Came(s), R!stale(s) + 1, Len(Came(s))) = since[s]
  <2>1. /\ Len(Came(s)) = Len(returned[s]) + Len(codec[s]) /\ Came(s) \in Seq(Nat)
        /\ Len(returned[s]) \in Nat /\ Len(codec[s]) \in Nat /\ Len(since[s]) \in Nat
    BY CameTyped
  <2>2. since[s] \in Seq(Nat) /\ IsEnd(since[s], Came(s))  BY DEF ReaderInv
  <2> HIDE DEF Came
  <2>3. R!stale(s) = Len(Came(s)) - Len(since[s])
    BY <2>1 DEF R!stale
  <2>4. Len(since[s]) <= Len(Came(s))  BY <2>2 DEF IsEnd
  <2>5. SubSeq(Came(s), Len(Came(s)) - Len(since[s]) + 1, Len(Came(s))) = since[s]
    BY <2>1, <2>2, EndIsSubSeq
  <2>6. Len(Came(s)) \in Nat
    <3>1. \A u \in Seq(Nat) : Len(u) \in Nat  OBVIOUS
    <3> QED BY <2>1, <3>1
  <2>7. R!stale(s) \in Int /\ R!stale(s) >= 0
    <3>1. \A m, n \in Nat : n <= m => m - n \in Int /\ m - n >= 0  OBVIOUS
    <3>2. Len(Came(s)) - Len(since[s]) \in Int /\ Len(Came(s)) - Len(since[s]) >= 0
      BY <2>1, <2>4, <2>6, <3>1
    <3> QED BY <2>3, <3>2
  <2> QED BY <2>3, <2>5, <2>7
<1>2. R!InOrder
  BY <1>1 DEF R!InOrder, R!Stream, Streams, Came
<1> HIDE DEF Came
<1>3. R!AfterSeek
  <2>1. "V" \in Streams /\ "A" \in Streams  BY DEF Streams
  <2>2. Len(Came("V")) \in Nat /\ Len(since["V"]) \in Nat  BY <2>1, CameTyped
  <2>3. Len(Came("V")) = Len(since["V"]) /\ Len(Came("A")) - Len(since["A"]) <= delay["A"]
    BY DEF ReaderInv
  <2>4. R!stale("V") = 0  BY <1>1, <2>1, <2>2, <2>3
  <2> QED BY <1>1, <2>1, <2>3, <2>4 DEF R!AfterSeek
<1>4. R!TailHeldBack /\ R!KeyOfFrame
  BY DEF ReaderInv, R!TailHeldBack, R!Stream, Streams
<1> QED BY <1>2, <1>3, <1>4 DEF R!ReaderSound

\* Frames of the mp4 reader and pictures of the software codecs come out as they went in.
THEOREM FramesAreSound == MediaSpec => []FramesSound
<1>1. MediaInit => ReaderInv /\ LoopInv
  <2> SUFFICES ASSUME MediaInit PROVE ReaderInv /\ LoopInv
    OBVIOUS
  <2>1. /\ handle = "None" /\ position = 0 /\ ret = "None"
        /\ delay = [s \in Streams |-> 0] /\ codec = [s \in Streams |-> <<>>]
        /\ since = codec /\ returned = codec
    BY DEF MediaInit, R!Init, R!Nothing, R!Stream, Streams
  <2>2. delay \in [Streams -> 0..MaxDelay] /\ \A s \in Streams : delay[s] = 0
    BY <2>1, ReaderBounds
  <2>3. /\ codec \in [Streams -> Seq(Nat)]
        /\ \A s \in Streams : codec[s] = <<>> /\ since[s] = <<>> /\ returned[s] = <<>>
    BY <2>1, EmptySeq
  <2>4. \A s \in Streams : Came(s) = <<>>
    BY <2>3, ConcatEmptySeq, EmptySeq DEF Came
  <2> HIDE DEF Came
  <2>5. \A s \in Streams : IsEnd(since[s], Came(s)) /\ Len(codec[s]) <= delay[s]
    <3>1. \A s \in Streams : since[s] = <<>> /\ Came(s) = <<>> /\ codec[s] = <<>> /\ delay[s] = 0
      BY <2>2, <2>3, <2>4
    <3>2. IsEnd(<<>>, <<>>) /\ Len(<<>>) <= 0  BY DEF IsEnd
    <3> QED BY <3>1, <3>2
  <2>6. Len(Came("V")) = Len(since["V"]) /\ Len(Came("A")) - Len(since["A"]) <= delay["A"]
    <3>1. "V" \in Streams /\ "A" \in Streams  BY DEF Streams
    <3> QED BY <2>2, <2>3, <2>4, <3>1
  <2>7. R!KeyOfFrame  BY <2>1 DEF R!KeyOfFrame
  <2>8. ReaderInv
    BY <2>1, <2>2, <2>3, <2>5, <2>6, <2>7 DEF ReaderInv
  <2>9. LoopInv
    <3>1. pictures = 0 /\ dropped = {} /\ output = <<>> /\ decHeld = <<>> /\ channel = <<>>
          /\ encHeld = <<>>
      BY DEF MediaInit, C!Init
    <3>2. Way = <<>>  BY <3>1, ConcatEmptySeq, EmptySeq DEF Way
    <3> HIDE DEF Way
    <3> QED BY <3>1, <3>2, EmptySeq DEF LoopInv, Increasing, Elements
  <2> QED BY <2>8, <2>9
<1>2. ReaderInv /\ LoopInv /\ [MediaNext]_MediaVars => (ReaderInv /\ LoopInv)'
  <2> SUFFICES ASSUME ReaderInv, LoopInv, [MediaNext]_MediaVars PROVE ReaderInv' /\ LoopInv'
    OBVIOUS
  <2>1. /\ R!Next \/ UNCHANGED rVars
        /\ C!Next \/ UNCHANGED cVars
    BY DEF MediaNext, MediaVars
  <2>2. ASSUME UNCHANGED rVars PROVE ReaderInv'
    BY <2>2, ReaderStays DEF rVars, ReaderInv
  <2>3. ASSUME UNCHANGED cVars PROVE LoopInv'
    BY <2>3 DEF cVars, LoopInv, Way
  <2>4. ReaderInv'  BY <2>1, <2>2, ReaderNext
  <2>5. LoopInv'  BY <2>1, <2>3, LoopNext
  <2> QED BY <2>4, <2>5
<1>3. ReaderInv /\ LoopInv => FramesSound
  <2> SUFFICES ASSUME ReaderInv, LoopInv PROVE FramesSound
    OBVIOUS
  <2>1. R!ReaderSound  BY ReaderPromises
  <2>2. C!LoopInOrder
    <3>1. Way \in Seq(Nat)
      <4>1. output \o decHeld \in Seq(Nat)  BY ConcatProperties DEF LoopInv
      <4>2. (output \o decHeld) \o channel \in Seq(Nat)  BY <4>1, ConcatProperties DEF LoopInv
      <4> QED BY <4>2, ConcatProperties DEF LoopInv, Way
    <3>2. DOMAIN Way = 1..Len(Way)  BY <3>1
    <3>3. /\ \A i, j \in DOMAIN Way : i < j => Way[i] < Way[j]
          /\ {Way[i] : i \in DOMAIN Way} \cup dropped = 1..pictures
      <4> HIDE DEF Way
      <4> QED BY <3>2 DEF LoopInv, Increasing, Elements
    <3> QED BY <3>3 DEF C!LoopInOrder, Way
  <2> QED BY <2>1, <2>2 DEF FramesSound
<1> QED BY <1>1, <1>2, <1>3, PTL DEF MediaSpec

-----------------------------------------------------------------------------
(***************************************************************************)
(* The live pusher (XXl5StreamPusher)                                      *)
(***************************************************************************)

Ids == 1..Len(Frame)
Piece == [frame : Ids, from : Nat, upto : Nat]
Source == [frame : Nat, max : Nat, read : Nat]

FlagsInv ==
  /\ pushing \in BOOLEAN /\ interrupting \in BOOLEAN
  /\ loop \in {"None", "Run", "Loop", "Over", "Broken"}
  /\ audioCount \in 0..MaxAudio /\ opens \in 0..MaxOpen

\* The queue holds the last frames that were pushed, and none of them was taken.
QueueInv ==
  /\ pushed \in 0..Len(Frame) /\ firstKept \in 1..Len(Frame) + 1
  /\ videoQueue \in Seq(STRING) /\ Len(videoQueue) <= pushed /\ Len(videoQueue) <= MaxQueue
  /\ \A i \in 1..Len(videoQueue) : videoQueue[i] = Frame[pushed - Len(videoQueue) + i]
  /\ videoOpen \in BOOLEAN
  /\ videoOpen => videoLimit = MaxQueue /\ videoAtLimit = 1
  /\ ~videoOpen => videoQueue = <<>>
  /\ ~videoOpen /\ loop # "Broken" => firstKept = pushed + 1
  /\ taker \in [Ids -> Client \cup {"None"}]
  /\ \A f \in Ids : taker[f] # "None" => f <= pushed - Len(videoQueue)
  /\ loop # "Broken" =>
       \A f \in firstKept..pushed :
         \/ taker[f] # "None"
         \/ f > pushed - Len(videoQueue)
         \/ videoOpen /\ f + MaxQueue <= pushed

\* FramesWhole of one client's pieces.
Whole(s) ==
  \A i \in DOMAIN s :
    IF i = 1 \/ s[i - 1].frame # s[i].frame
    THEN s[i].from = 0 /\ (i > 1 => s[i - 1].frame < s[i].frame)
    ELSE s[i].from = s[i - 1].upto /\ s[i].from < s[i].upto

\* A source with something left of a frame stands where its last piece ended.
Resumes(r, s) ==
  \/ r = P!None
  \/ /\ r.frame \in Ids /\ r.read < r.max
     /\ s # <<>> /\ s[Len(s)].frame = r.frame /\ s[Len(s)].upto = r.read

SentInv ==
  /\ DOMAIN source \subseteq Client
  /\ source \in [DOMAIN source -> Source]
  /\ sent \in [Client -> Seq(Piece)]
  /\ polling \in DOMAIN source \cup {"None"} /\ wanted \in 0..MaxSize
  /\ polling # "None" => source[polling] = P!None
  /\ \A c \in DOMAIN source : Resumes(source[c], sent[c])
  /\ \A c \in Client : Whole(sent[c])
  /\ \A c \in Client : \A i \in 1..Len(sent[c]) : taker[sent[c][i].frame] = c

LEMMA PusherBounds ==
  /\ "None" \notin Client /\ MaxQueue \in Nat \ {0} /\ MaxSize \in Nat \ {0}
  /\ Frame \in Seq(STRING) /\ Len(Frame) \in Nat
  /\ MaxAudio \in Nat /\ MaxOpen \in Nat
  /\ Size \in [Ids -> Nat]
<1>1. Frame \in Seq(STRING) /\ Size \in [DOMAIN Frame -> Nat]  BY MediaAssumption
<1>2. DOMAIN Frame = Ids  BY <1>1 DEF Ids
<1> QED BY <1>1, <1>2, MediaAssumption

\* A frame's name gives its number.
LEMMA FrameId ==
  ASSUME NEW f \in Ids
  PROVE  P!id(Frame[f]) = f
<1>1. \A i, j \in Ids : Frame[i] = Frame[j] => i = j
  BY MediaAssumption DEF Ids
<1>2. \E g \in Ids : Frame[g] = Frame[f]  OBVIOUS
<1>3. P!id(Frame[f]) = CHOOSE g \in Ids : Frame[g] = Frame[f]
  BY DEF P!id, P!MaxFrame, Ids
<1> QED BY <1>1, <1>2, <1>3

\* A piece of a later frame, or the next one of the same, keeps the pieces whole.
LEMMA WholeAppended ==
  ASSUME NEW s \in Seq(Piece), Whole(s), NEW p \in Piece,
         \/ p.from = 0 /\ \A i \in 1..Len(s) : s[i].frame < p.frame
         \/ /\ s # <<>> /\ p.frame = s[Len(s)].frame
            /\ p.from = s[Len(s)].upto /\ p.from < p.upto
  PROVE  /\ Append(s, p) \in Seq(Piece) /\ Whole(Append(s, p))
         /\ Append(s, p) # <<>> /\ Len(Append(s, p)) = Len(s) + 1
         /\ \A i \in 1..Len(s) : Append(s, p)[i] = s[i]
         /\ Append(s, p)[Len(s) + 1] = p
<1> DEFINE t == Append(s, p)
<1>1. /\ Len(s) \in Nat /\ t \in Seq(Piece) /\ Len(t) = Len(s) + 1 /\ DOMAIN t = 1..Len(s) + 1
      /\ DOMAIN s = 1..Len(s)
      /\ \A i \in 1..Len(s) : t[i] = s[i] /\ t[Len(s) + 1] = p
      /\ t[Len(s) + 1] = p
  BY AppendProperties
<1> HIDE DEF t
<1>2. t # <<>>  BY <1>1, EmptySeq
<1>3. ASSUME NEW i \in DOMAIN t
      PROVE  IF i = 1 \/ t[i - 1].frame # t[i].frame
             THEN t[i].from = 0 /\ (i > 1 => t[i - 1].frame < t[i].frame)
             ELSE t[i].from = t[i - 1].upto /\ t[i].from < t[i].upto
  <2>1. CASE i \in 1..Len(s)
    <3>1. t[i] = s[i] /\ (i > 1 => t[i - 1] = s[i - 1])  BY <1>1, <2>1
    <3>2. i = 1 \/ i > 1  BY <1>1, <2>1
    <3> QED BY <1>1, <2>1, <3>1, <3>2 DEF Whole
  <2>2. CASE i = Len(s) + 1
    <3>1. t[i] = p /\ (i > 1 => t[i - 1] = s[Len(s)] /\ Len(s) \in 1..Len(s))
      BY <1>1, <2>2
    <3>2. i = 1 => s = <<>>  BY <1>1, <2>2, EmptySeq
    <3>3. i = 1 \/ i > 1  BY <1>1, <2>2
    <3>4. CASE p.from = 0 /\ \A j \in 1..Len(s) : s[j].frame < p.frame
      <4>1. i > 1 => t[i - 1].frame < t[i].frame /\ t[i - 1].frame # t[i].frame
        <5>1. ASSUME i > 1 PROVE s[Len(s)].frame < p.frame /\ s[Len(s)].frame \in Nat /\ p.frame \in Nat
          <6>1. Len(s) \in 1..Len(s) /\ s[Len(s)] \in Piece  BY <1>1, <3>1, <5>1
          <6> QED BY <3>4, <6>1, PusherBounds DEF Piece, Ids
        <5> QED BY <3>1, <5>1
      <4> QED BY <3>1, <3>3, <3>4, <4>1
    <3>5. CASE /\ s # <<>> /\ p.frame = s[Len(s)].frame
               /\ p.from = s[Len(s)].upto /\ p.from < p.upto
      BY <3>1, <3>2, <3>3, <3>5
    <3> QED BY <3>4, <3>5
  <2>3. i \in 1..Len(s) \/ i = Len(s) + 1  BY <1>1
  <2> QED BY <2>1, <2>2, <2>3
<1>4. Whole(t)  BY <1>3 DEF Whole
<1> QED BY <1>1, <1>2, <1>4 DEF t

LEMMA FlagsNext ==
  ASSUME FlagsInv, P!Next
  PROVE  FlagsInv'
<1> USE PusherBounds
<1>1. CASE P!start  BY <1>1 DEF FlagsInv, P!start, P!history
<1>2. CASE P!stop  BY <1>2 DEF FlagsInv, P!stop, P!history
<1>3. CASE P!destroy
  <2>1. /\ interrupting' = (interrupting \/ pushing) /\ loop' = "Broken" /\ audioCount' = 0
        /\ UNCHANGED <<pushing, opens>>
    BY <1>3 DEF P!destroy, P!history
  <2>2. interrupting' \in BOOLEAN  BY <2>1, Zenon DEF FlagsInv
  <2> QED BY <2>1, <2>2 DEF FlagsInv
<1>4. CASE P!run  BY <1>4 DEF FlagsInv, P!run, P!history, P!flags
<1>5. CASE P!pushVideoData  BY <1>5 DEF FlagsInv, P!pushVideoData, P!flags
<1>6. CASE P!pushAudioData  BY <1>6 DEF FlagsInv, P!pushAudioData, P!flags, P!history
<1>7. ASSUME NEW c \in Client, P!createNewStreamSource(c) PROVE FlagsInv'
  BY <1>7 DEF FlagsInv, P!createNewStreamSource, P!flags
<1>8. ASSUME NEW c \in Client, P!closeSource(c) PROVE FlagsInv'
  BY <1>8 DEF FlagsInv, P!closeSource, P!flags, P!history
<1>9. ASSUME NEW c \in Client, NEW n \in 1..MaxSize, P!nextPiece(c, n) PROVE FlagsInv'
  BY <1>9 DEF FlagsInv, P!nextPiece, P!flags, P!history
<1>10. ASSUME NEW c \in Client, NEW n \in 1..MaxSize, P!askFrame(c, n) PROVE FlagsInv'
  BY <1>10 DEF FlagsInv, P!askFrame, P!flags, P!history
<1>11. ASSUME NEW c \in Client, P!gotFrame(c) PROVE FlagsInv'
  BY <1>11 DEF FlagsInv, P!gotFrame, P!flags
<1> QED BY <1>1, <1>2, <1>3, <1>4, <1>5, <1>6, <1>7, <1>8, <1>9, <1>10, <1>11
        DEF P!Next, P!doGetNextFrame

\* Steps that leave the queue and what was taken of it.
LEMMA QueueKept ==
  ASSUME QueueInv, UNCHANGED <<videoOpen, videoLimit, videoAtLimit, videoQueue>>,
         UNCHANGED <<taker, pushed, firstKept>>, loop # "Broken" \/ loop' = "Broken"
  PROVE  QueueInv'
BY DEF QueueInv

LEMMA QueuePushed ==
  ASSUME QueueInv, P!pushVideoData
  PROVE  QueueInv'
<1>1. /\ loop # "Broken" /\ loop' = loop /\ pushed < Len(Frame) /\ pushed' = pushed + 1
      /\ taker' = taker /\ pushed \in Nat
  BY PusherBounds DEF P!pushVideoData, P!MaxFrame, QueueInv
<1>2. CASE ~videoOpen
  <2>1. /\ firstKept' = pushed + 2
        /\ UNCHANGED <<videoOpen, videoLimit, videoAtLimit, videoQueue>>
    BY <1>2 DEF P!pushVideoData, P!video, P!queueArgs
  <2>2. videoQueue = <<>> /\ Len(videoQueue) = 0  BY <1>2, EmptySeq DEF QueueInv
  <2>3. \A f \in Ids : taker[f] # "None" => f <= pushed' - Len(videoQueue)
    BY <1>1, <2>2, PusherBounds DEF QueueInv, Ids
  <2>4. \A i \in 1..Len(videoQueue') : videoQueue'[i] = Frame[pushed' - Len(videoQueue') + i]
    BY <2>1, <2>2
  <2>5. firstKept' \in 1..Len(Frame) + 1 /\ firstKept'..pushed' = {}
    BY <1>1, <2>1, PusherBounds
  <2>6. pushed' \in 0..Len(Frame) /\ Len(videoQueue') <= pushed' /\ Len(videoQueue') <= MaxQueue
    BY <1>1, <2>1, <2>2, PusherBounds
  <2> QED BY <1>1, <1>2, <2>1, <2>2, <2>3, <2>4, <2>5, <2>6 DEF QueueInv
<1>3. CASE videoOpen
  <2> DEFINE n == Len(videoQueue)
             full == MaxQueue > 0 /\ n >= MaxQueue
             k == pushed + 1 - Len(videoQueue')
  <2>1. /\ firstKept' = firstKept /\ videoOpen' = videoOpen /\ videoLimit' = videoLimit
        /\ videoAtLimit' = videoAtLimit
        /\ videoQueue' = IF full THEN Append(Tail(videoQueue), Frame[pushed + 1])
                         ELSE Append(videoQueue, Frame[pushed + 1])
    BY <1>3 DEF P!pushVideoData, P!Queue!Enqueue, P!Queue!full, QueueInv
  <2>2. /\ n \in Nat /\ n <= pushed /\ n <= MaxQueue /\ videoQueue \in Seq(STRING)
        /\ \A i \in 1..n : videoQueue[i] = Frame[pushed - n + i]
    BY DEF QueueInv
  <2>3. Frame[pushed + 1] \in STRING  BY <1>1, PusherBounds
  <2>4. /\ videoQueue' \in Seq(STRING)
        /\ Len(videoQueue') \in Nat /\ Len(videoQueue') <= pushed' /\ Len(videoQueue') <= MaxQueue
        /\ k >= pushed - n /\ (k > pushed - n => n = MaxQueue /\ k = pushed + 1 - MaxQueue)
        /\ k \in Nat
        /\ \A i \in 1..Len(videoQueue') : videoQueue'[i] = Frame[k + i]
    <3>1. CASE ~full
      <4>1. /\ videoQueue' = Append(videoQueue, Frame[pushed + 1])
            /\ videoQueue' \in Seq(STRING) /\ Len(videoQueue') = n + 1
            /\ \A i \in 1..n : videoQueue'[i] = videoQueue[i]
            /\ videoQueue'[n + 1] = Frame[pushed + 1]
        <5>1. \A s \in Seq(STRING), x \in STRING :
                /\ Append(s, x) \in Seq(STRING) /\ Len(Append(s, x)) = Len(s) + 1
                /\ \A i \in 1..Len(s) : Append(s, x)[i] = s[i]
                /\ Append(s, x)[Len(s) + 1] = x
          BY AppendProperties
        <5>2. videoQueue' = Append(videoQueue, Frame[pushed + 1])  BY <2>1, <3>1
        <5> QED BY <2>2, <2>3, <5>1, <5>2
      <4>2. k = pushed - n /\ n + 1 <= MaxQueue
        <5>1. MaxQueue \in Nat \ {0} /\ pushed \in Nat  BY <1>1, PusherBounds
        <5>2. k = pushed + 1 - (n + 1)  BY <4>1
        <5> HIDE DEF n, k
        <5> QED BY <2>2, <3>1, <5>1, <5>2
      <4> HIDE DEF n
      <4>3. ASSUME NEW i \in 1..n + 1 PROVE videoQueue'[i] = Frame[k + i]
        <5>1. CASE i \in 1..n  BY <2>2, <4>1, <4>2, <5>1
        <5>2. CASE i = n + 1
          <6>1. k + i = pushed + 1  BY <1>1, <2>2, <4>2, <5>2
          <6> QED BY <4>1, <5>2, <6>1
        <5>3. i \in 1..n \/ i = n + 1  BY <2>2
        <5> QED BY <5>1, <5>2, <5>3
      <4> HIDE DEF k
      <4> QED BY <1>1, <2>2, <4>1, <4>2, <4>3
    <3>2. CASE full
      <4>1. videoQueue # <<>> /\ n = MaxQueue /\ n >= 1
        BY <2>2, <3>2, PusherBounds, EmptySeq
      <4>2. /\ Tail(videoQueue) \in Seq(STRING) /\ Len(Tail(videoQueue)) = n - 1
            /\ \A i \in 1..n - 1 : Tail(videoQueue)[i] = videoQueue[i + 1]
        BY <2>2, <4>1, HeadTailProperties
      <4>3. /\ videoQueue' \in Seq(STRING) /\ Len(videoQueue') = n
            /\ \A i \in 1..n - 1 : videoQueue'[i] = videoQueue[i + 1]
            /\ videoQueue'[n] = Frame[pushed + 1]
        <5>1. videoQueue' = Append(Tail(videoQueue), Frame[pushed + 1])  BY <2>1, <3>2
        <5>2. n - 1 + 1 = n  BY <2>2
        <5> HIDE DEF n
        <5> QED BY <2>3, <4>2, <5>1, <5>2, AppendProperties
      <4> HIDE DEF n
      <4>4. k = pushed + 1 - n  BY <4>3
      <4> HIDE DEF k
      <4>5. ASSUME NEW i \in 1..n PROVE videoQueue'[i] = Frame[k + i]
        <5>1. CASE i \in 1..n - 1
          <6>1. i + 1 \in 1..n /\ pushed - n + (i + 1) = k + i
            BY <1>1, <2>2, <4>4, <5>1
          <6>2. videoQueue[i + 1] = Frame[pushed - n + (i + 1)]  BY <2>2, <6>1
          <6> QED BY <4>3, <5>1, <6>1, <6>2
        <5>2. CASE i = n
          <6>1. k + i = pushed + 1  BY <1>1, <2>2, <4>4, <5>2
          <6> QED BY <4>3, <5>2, <6>1
        <5>3. i \in 1..n - 1 \/ i = n  BY <2>2
        <5> QED BY <5>1, <5>2, <5>3
      <4> QED BY <1>1, <2>2, <4>1, <4>3, <4>4, <4>5
    <3> QED BY <3>1, <3>2
  <2>5. \A i \in 1..Len(videoQueue') : videoQueue'[i] = Frame[pushed' - Len(videoQueue') + i]
    BY <1>1, <2>4
  <2>6. k = pushed' - Len(videoQueue')  BY <1>1
  <2> HIDE DEF k, n, full
  <2>7. \A f \in Ids : taker'[f] # "None" => f <= k
    <3>1. \A f \in Ids : taker[f] # "None" => f <= pushed - n  BY DEF QueueInv, n
    <3> QED BY <1>1, <2>2, <2>4, <3>1 DEF Ids
  <2>8. ASSUME NEW f \in firstKept'..pushed'
        PROVE  \/ taker'[f] # "None"
               \/ f > k
               \/ videoOpen' /\ f + MaxQueue <= pushed'
    <3>1. f \in Nat /\ f <= pushed + 1 /\ f >= firstKept  BY <1>1, <2>1 DEF QueueInv
    <3>2. CASE f = pushed + 1
      <4>1. Len(videoQueue') > 0  BY <2>1, <2>2, <2>3, AppendProperties, HeadTailProperties, EmptySeq DEF full, n
      <4> QED BY <1>1, <2>4, <2>6, <3>2, <4>1
    <3>3. CASE f <= pushed
      <4>1. f \in firstKept..pushed  BY <1>1, <3>1, <3>3 DEF QueueInv
      <4>2. \/ taker[f] # "None" \/ f > pushed - n \/ f + MaxQueue <= pushed
        BY <1>1, <4>1 DEF QueueInv, n
      <4> QED BY <1>1, <1>3, <2>1, <2>2, <2>4, <3>1, <4>2, PusherBounds
    <3> QED BY <1>1, <3>1, <3>2, <3>3
  <2>9. pushed' \in 0..Len(Frame)  BY <1>1, PusherBounds
  <2> QED BY <1>1, <1>3, <2>1, <2>4, <2>5, <2>6, <2>7, <2>8, <2>9 DEF QueueInv
<1> QED BY <1>2, <1>3 DEF QueueInv

\* The source that asks first makes the queue.
LEMMA QueueAsked ==
  ASSUME QueueInv, NEW c, NEW n, P!askFrame(c, n)
  PROVE  QueueInv'
<1>1. loop = "Loop" /\ UNCHANGED <<loop, taker, pushed, firstKept>>
  BY DEF P!askFrame, P!inLoop, P!history
<1>2. CASE videoOpen
  BY <1>1, <1>2, QueueKept DEF P!askFrame, P!video, P!queueArgs
<1>3. CASE ~videoOpen
  <2>1. videoOpen' = TRUE /\ videoLimit' = MaxQueue /\ videoAtLimit' = 1 /\ videoQueue' = <<>>
    BY <1>3 DEF P!askFrame, P!Queue!Create, P!atMax
  <2>2. videoQueue = <<>> /\ firstKept = pushed + 1 /\ pushed \in Nat
    BY <1>1, <1>3, PusherBounds DEF QueueInv
  <2>3. firstKept'..pushed' = {}  BY <1>1, <2>2
  <2> QED BY <1>1, <2>1, <2>2, <2>3, PusherBounds DEF QueueInv
<1> QED BY <1>2, <1>3 DEF QueueInv

\* The frame that is taken is the oldest that waits: the first after what is behind it.
LEMMA QueueTaken ==
  ASSUME QueueInv, NEW c \in Client, P!gotFrame(c)
  PROVE  /\ QueueInv'
         /\ LET f == pushed - Len(videoQueue) + 1
            IN  /\ f \in Ids /\ P!id(Head(videoQueue)) = f
                /\ taker' = [taker EXCEPT ![f] = c]
<1> DEFINE n == Len(videoQueue)
           f == pushed - n + 1
<1>1. /\ n > 0 /\ loop = "Loop" /\ loop' = loop /\ UNCHANGED <<pushed, firstKept>>
      /\ videoQueue # <<>>
      /\ videoOpen /\ videoQueue' = Tail(videoQueue)
      /\ UNCHANGED <<videoOpen, videoLimit, videoAtLimit>>
      /\ taker' = [taker EXCEPT ![P!id(Head(videoQueue))] = c]
  BY DEF P!gotFrame, P!hasFrame, P!Queue!Dequeue
<1>2. /\ n \in Nat /\ n <= pushed /\ n <= MaxQueue /\ videoQueue \in Seq(STRING)
      /\ \A i \in 1..n : videoQueue[i] = Frame[pushed - n + i]
      /\ pushed \in 0..Len(Frame) /\ pushed \in Nat
  BY PusherBounds DEF QueueInv
<1>3. /\ Tail(videoQueue) \in Seq(STRING) /\ Len(Tail(videoQueue)) = n - 1
      /\ \A i \in 1..n - 1 : Tail(videoQueue)[i] = videoQueue[i + 1]
      /\ Head(videoQueue) = videoQueue[1]
  BY <1>1, <1>2, HeadTailProperties
<1> HIDE DEF n
<1>4. f \in Ids /\ videoQueue[1] = Frame[f]
  <2>1. 1 \in 1..n  BY <1>1, <1>2
  <2> QED BY <1>1, <1>2, <2>1, PusherBounds DEF Ids
<1>5. P!id(Head(videoQueue)) = f  BY <1>3, <1>4, FrameId
<1>6. taker' = [taker EXCEPT ![f] = c]  BY <1>1, <1>5
<1>7. /\ taker \in [Ids -> Client \cup {"None"}]
      /\ taker' \in [Ids -> Client \cup {"None"}] /\ taker'[f] = c
      /\ \A g \in Ids : g # f => taker'[g] = taker[g]
  <2>1. taker \in [Ids -> Client \cup {"None"}]  BY DEF QueueInv
  <2> HIDE DEF f
  <2> QED BY <1>4, <1>6, <2>1
<1>8. Len(videoQueue') = n - 1 /\ pushed' - Len(videoQueue') = f /\ f \in Nat
  <2>1. Len(videoQueue') = n - 1  BY <1>1, <1>3
  <2>2. pushed' - (n - 1) = pushed - n + 1 /\ pushed - n + 1 \in Nat  BY <1>1, <1>2
  <2> QED BY <2>1, <2>2
<1>9. \A i \in 1..Len(videoQueue') : videoQueue'[i] = Frame[pushed' - Len(videoQueue') + i]
  <2>1. ASSUME NEW i \in 1..n - 1 PROVE videoQueue'[i] = Frame[f + i]
    <3>1. i + 1 \in 1..n /\ pushed - n + (i + 1) = f + i  BY <1>2
    <3>2. videoQueue[i + 1] = Frame[pushed - n + (i + 1)]  BY <1>2, <3>1
    <3> QED BY <1>1, <1>3, <3>1, <3>2
  <2> HIDE DEF f
  <2> QED BY <1>8, <2>1
<1>10. \A g \in Ids : taker'[g] # "None" => g <= f
  <2>1. \A g \in Ids : taker[g] # "None" => g <= pushed - n  BY DEF QueueInv, n
  <2> QED BY <1>2, <1>7, <2>1 DEF Ids
<1>11. ASSUME NEW g \in firstKept'..pushed'
       PROVE  \/ taker'[g] # "None"
              \/ g > f
              \/ videoOpen' /\ g + MaxQueue <= pushed'
  <2>1. /\ g \in firstKept..pushed /\ g \in Ids
    BY <1>1, <1>2, PusherBounds DEF QueueInv, Ids
  <2>2. taker[g] # "None" \/ g > pushed - n \/ g + MaxQueue <= pushed
    BY <1>1, <2>1 DEF QueueInv, n
  <2>3. CASE g = f  BY <1>7, <2>3, PusherBounds
  <2>4. CASE g # f
    <3>1. taker'[g] = taker[g]  BY <1>7, <2>1, <2>4
    <3>2. g \in Nat  BY <2>1 DEF Ids
    <3>3. g > pushed - n => g > f  BY <1>2, <2>4, <3>2
    <3> QED BY <1>1, <2>2, <3>1, <3>3
  <2> QED BY <2>3, <2>4
<1>12. Len(videoQueue') <= pushed' /\ Len(videoQueue') <= MaxQueue
  BY <1>1, <1>2, <1>8, PusherBounds
<1> HIDE DEF f
<1>13. QueueInv'
  BY <1>1, <1>2, <1>3, <1>7, <1>8, <1>9, <1>10, <1>11, <1>12 DEF QueueInv
<1> QED BY <1>4, <1>5, <1>6, <1>13 DEF f, n

LEMMA QueueNext ==
  ASSUME QueueInv, P!Next
  PROVE  QueueInv'
<1> USE DEF P!history, P!video, P!queueArgs, P!inLoop
<1>1. CASE P!start  BY <1>1, QueueKept DEF P!start
<1>2. CASE P!stop  BY <1>2, QueueKept DEF P!stop
<1>3. CASE P!destroy
  <2>1. /\ loop' = "Broken" /\ videoOpen' = FALSE /\ videoQueue' = <<>>
        /\ UNCHANGED <<taker, pushed, firstKept>>
    BY <1>3 DEF P!destroy
  <2>2. pushed \in Nat  BY PusherBounds DEF QueueInv
  <2>3. \A g \in Ids : taker[g] # "None" => g <= pushed
    BY <2>2, PusherBounds DEF QueueInv, Ids
  <2>4. Len(videoQueue') = 0 /\ videoQueue' \in Seq(STRING)  BY <2>1, EmptySeq
  <2>5. pushed' - Len(videoQueue') = pushed  BY <2>1, <2>2, <2>4
  <2>6. Len(videoQueue') <= pushed' /\ Len(videoQueue') <= MaxQueue /\ 1..Len(videoQueue') = {}
    BY <2>1, <2>2, <2>4, PusherBounds
  <2>7. \A g \in Ids : taker'[g] # "None" => g <= pushed' - Len(videoQueue')
    BY <2>1, <2>3, <2>5
  <2> QED BY <2>1, <2>4, <2>6, <2>7 DEF QueueInv
<1>4. CASE P!run  BY <1>4, QueueKept DEF P!run
<1>5. CASE P!pushAudioData  BY <1>5, QueueKept DEF P!pushAudioData
<1>6. ASSUME NEW c \in Client, P!createNewStreamSource(c) PROVE QueueInv'
  BY <1>6, QueueKept DEF P!createNewStreamSource
<1>7. ASSUME NEW c \in Client, P!closeSource(c) PROVE QueueInv'
  BY <1>7, QueueKept DEF P!closeSource
<1>8. ASSUME NEW c \in Client, NEW n \in 1..MaxSize, P!nextPiece(c, n) PROVE QueueInv'
  BY <1>8, QueueKept DEF P!nextPiece
<1> QED BY <1>1, <1>2, <1>3, <1>4, <1>5, <1>6, <1>7, <1>8, QueuePushed, QueueAsked, QueueTaken
        DEF P!Next, P!doGetNextFrame

LEMMA SentKept ==
  ASSUME SentInv, UNCHANGED <<source, sent, polling, wanted, taker>>
  PROVE  SentInv'
BY DEF SentInv

\* What a source has handed over goes behind the pieces of its client.
LEMMA SentPiece ==
  ASSUME SentInv, NEW c \in DOMAIN source, NEW p \in Piece, NEW r \in Source,
         source' = [source EXCEPT ![c] = r], sent' = [sent EXCEPT ![c] = Append(sent[c], p)],
         Whole(Append(sent[c], p)), Resumes(r, Append(sent[c], p)),
         \A d \in Client : \A i \in 1..Len(sent[d]) : taker'[sent[d][i].frame] = d,
         taker'[p.frame] = c, polling' = "None", wanted' \in 0..MaxSize
  PROVE  SentInv'
<1>1. /\ DOMAIN source \subseteq Client /\ source \in [DOMAIN source -> Source]
      /\ sent \in [Client -> Seq(Piece)] /\ c \in Client /\ sent[c] \in Seq(Piece)
  BY DEF SentInv
<1> DEFINE t == Append(sent[c], p)
<1>2. /\ t \in Seq(Piece) /\ Len(t) = Len(sent[c]) + 1 /\ Len(sent[c]) \in Nat
      /\ \A i \in 1..Len(sent[c]) : t[i] = sent[c][i]
      /\ t[Len(sent[c]) + 1] = p
  BY <1>1, AppendProperties
<1>3. /\ DOMAIN source' = DOMAIN source /\ source'[c] = r
      /\ \A d \in DOMAIN source : d # c => source'[d] = source[d]
      /\ source' \in [DOMAIN source' -> Source]
  BY <1>1
<1>4. sent'[c] = t /\ \A d \in Client : d # c => sent'[d] = sent[d]
  BY <1>1
<1>5. sent' \in [Client -> Seq(Piece)]
  BY <1>1, <1>2
<1>6. Whole(t) /\ Resumes(r, t)  OBVIOUS
<1> HIDE DEF t
<1>7. \A d \in DOMAIN source : Resumes(source'[d], sent'[d])
  <2>1. \A d \in DOMAIN source : d # c => Resumes(source[d], sent[d])  BY DEF SentInv
  <2> QED BY <1>1, <1>3, <1>4, <1>6, <2>1
<1>8. \A d \in Client : Whole(sent'[d])
  <2>1. \A d \in Client : d # c => Whole(sent[d])  BY DEF SentInv
  <2> QED BY <1>4, <1>6, <2>1
<1>9. ASSUME NEW d \in Client, NEW i \in 1..Len(sent'[d])
      PROVE  taker'[sent'[d][i].frame] = d
  <2>1. CASE d # c  BY <1>4, <2>1
  <2>2. CASE d = c
    <3>1. i \in 1..Len(sent[c]) \/ i = Len(sent[c]) + 1  BY <1>2, <1>4, <2>2
    <3> QED BY <1>2, <1>4, <2>2, <3>1
  <2> QED BY <2>1, <2>2
<1> QED BY <1>1, <1>3, <1>5, <1>7, <1>8, <1>9 DEF SentInv

\* What is handed over of a frame from `read` on, up to n bytes, and what is kept.
LEMMA PieceGiven ==
  ASSUME NEW f \in Ids, NEW max \in Nat, NEW read \in Nat, NEW n \in Nat, read <= max,
         NEW r, r = [frame |-> f, max |-> max, read |-> read]
  PROVE  \E p \in Piece, s \in Source :
           /\ P!piece(r, n).given = p /\ P!piece(r, n).rest = s
           /\ p.frame = f /\ p.from = read
           /\ n > 0 /\ read < max => p.from < p.upto
           /\ \/ s = P!None
              \/ s.frame = f /\ s.read < s.max /\ s.read = p.upto
<1> DEFINE more == max - read > n
           upto == IF more THEN read + n ELSE max
           p == [frame |-> f, from |-> read, upto |-> upto]
           s == IF more THEN [frame |-> f, max |-> max, read |-> read + n] ELSE P!None
<1>1. P!piece(r, n) = [given |-> p, rest |-> s]
  <2>1. r.max = max /\ r.read = read /\ r.frame = f  OBVIOUS
  <2>2. [r EXCEPT !.read = r.read + n] = [frame |-> f, max |-> max, read |-> read + n]
    BY <2>1
  <2> QED BY <2>1, <2>2 DEF P!piece
<1>2. upto \in Nat  OBVIOUS
<1>3. p \in Piece  BY <1>2 DEF Piece
<1>4. s \in Source  BY PusherBounds DEF Source, P!None, Ids
<1>5. p.frame = f /\ p.from = read /\ p.upto = upto  OBVIOUS
<1>6. n > 0 /\ read < max => p.from < p.upto  BY <1>5
<1>7. s = P!None \/ (s.frame = f /\ s.read < s.max /\ s.read = p.upto)
  BY <1>5
<1> HIDE DEF p, s
<1> QED BY <1>1, <1>3, <1>4, <1>5, <1>6, <1>7

LEMMA SentNextPiece ==
  ASSUME SentInv, NEW c \in Client, NEW n \in 1..MaxSize, P!nextPiece(c, n)
  PROVE  SentInv'
<1>1. /\ c \in DOMAIN source /\ source[c].max > 0 /\ polling = "None"
      /\ source' = [source EXCEPT ![c] = P!piece(source[c], n).rest]
      /\ sent' = [sent EXCEPT ![c] = Append(sent[c], P!piece(source[c], n).given)]
      /\ UNCHANGED <<polling, wanted, taker>>
  BY DEF P!nextPiece, P!inLoop, P!Open, P!deliver, P!request, P!history
<1>2. /\ source[c] \in Source /\ sent[c] \in Seq(Piece) /\ Whole(sent[c])
      /\ Resumes(source[c], sent[c]) /\ n \in Nat /\ n > 0
  BY <1>1, PusherBounds DEF SentInv
<1> DEFINE r == source[c]
           s == sent[c]
<1>3. /\ r.frame \in Ids /\ r.read < r.max /\ r.max \in Nat /\ r.read \in Nat
      /\ s # <<>> /\ s[Len(s)].frame = r.frame /\ s[Len(s)].upto = r.read
  <2>1. r # P!None  BY <1>1 DEF P!None
  <2> QED BY <1>2, <2>1 DEF Resumes, Source
<1>4. r = [frame |-> r.frame, max |-> r.max, read |-> r.read]  BY <1>2 DEF Source
<1>5. PICK p \in Piece, q \in Source :
        /\ P!piece(r, n).given = p /\ P!piece(r, n).rest = q
        /\ p.frame = r.frame /\ p.from = r.read
        /\ n > 0 /\ r.read < r.max => p.from < p.upto
        /\ \/ q = P!None
           \/ q.frame = r.frame /\ q.read < q.max /\ q.read = p.upto
  <2>1. r.read <= r.max  BY <1>3
  <2> HIDE DEF r
  <2> QED BY <1>2, <1>3, <1>4, <2>1, PieceGiven
<1>6. /\ Append(s, p) \in Seq(Piece) /\ Whole(Append(s, p))
      /\ Append(s, p) # <<>> /\ Len(Append(s, p)) = Len(s) + 1
      /\ Append(s, p)[Len(s) + 1] = p
  <2>1. /\ s # <<>> /\ p.frame = s[Len(s)].frame
        /\ p.from = s[Len(s)].upto /\ p.from < p.upto
    BY <1>2, <1>3, <1>5
  <2>2. s \in Seq(Piece) /\ Whole(s)  BY <1>2
  <2> HIDE DEF s
  <2> QED BY <2>1, <2>2, WholeAppended
<1>7. Resumes(q, Append(s, p))
  BY <1>3, <1>5, <1>6 DEF Resumes
<1>8. taker'[p.frame] = c
  <2>1. Len(s) \in 1..Len(s)  BY <1>2, <1>3, EmptySeq
  <2>2. \A i \in 1..Len(s) : taker[s[i].frame] = c  BY <1>1 DEF SentInv
  <2> QED BY <1>1, <1>3, <1>5, <2>1, <2>2
<1>9. \A d \in Client : \A i \in 1..Len(sent[d]) : taker'[sent[d][i].frame] = d
  BY <1>1 DEF SentInv
<1>10. /\ source' = [source EXCEPT ![c] = q] /\ sent' = [sent EXCEPT ![c] = Append(sent[c], p)]
       /\ polling' = "None" /\ wanted' \in 0..MaxSize
  BY <1>1, <1>5 DEF SentInv
<1> QED BY <1>1, <1>6, <1>7, <1>8, <1>9, <1>10, SentPiece

LEMMA SentTaken ==
  ASSUME SentInv, QueueInv, NEW c \in Client, P!gotFrame(c)
  PROVE  SentInv'
<1> DEFINE f == pushed - Len(videoQueue) + 1
           new == [frame |-> f, max |-> Size[f], read |-> 0]
<1>1. f \in Ids /\ P!id(Head(videoQueue)) = f /\ taker' = [taker EXCEPT ![f] = c]
  BY QueueTaken
<1>2. polling = c /\ c # "None"  BY PusherBounds DEF P!gotFrame
<1>3. /\ c \in DOMAIN source /\ source[c] = P!None /\ wanted \in Nat
      /\ sent[c] \in Seq(Piece) /\ Whole(sent[c])
      /\ \A d \in Client : sent[d] \in Seq(Piece)
  BY <1>2, PusherBounds DEF SentInv
<1> HIDE DEF f
<1>4. [source[c] EXCEPT !.frame = f, !.max = Size[f]] = new
  <2>1. source[c] = [frame |-> 0, max |-> 0, read |-> 0]  BY <1>3 DEF P!None
  <2> DEFINE part == [source[c] EXCEPT !.frame = f]
  <2>2. part = [frame |-> f, max |-> 0, read |-> 0]  BY <2>1
  <2>3. [part EXCEPT !.max = Size[f]] = new
    <3> HIDE DEF part
    <3> QED BY <2>2
  <2> QED BY <2>3, Zenon
<1>5. /\ source' = [source EXCEPT ![c] = P!piece(new, wanted).rest]
      /\ sent' = [sent EXCEPT ![c] = Append(sent[c], P!piece(new, wanted).given)]
      /\ polling' = "None" /\ wanted' = 0
  BY <1>1, <1>4 DEF P!gotFrame, P!deliver
<1>6. PICK p \in Piece, q \in Source :
        /\ P!piece(new, wanted).given = p /\ P!piece(new, wanted).rest = q
        /\ p.frame = f /\ p.from = 0
        /\ \/ q = P!None
           \/ q.frame = f /\ q.read < q.max /\ q.read = p.upto
  <2>1. Size[f] \in Nat /\ 0 <= Size[f] /\ 0 \in Nat  BY <1>1, PusherBounds
  <2> QED BY <1>1, <1>3, <2>1, PieceGiven
<1> HIDE DEF new
<1>7. \A g \in Ids : taker[g] # "None" => g < f
  <2>1. \A g \in Ids : taker[g] # "None" => g <= pushed - Len(videoQueue)  BY DEF QueueInv
  <2>2. pushed - Len(videoQueue) < f /\ pushed - Len(videoQueue) \in Int /\ f \in Int
    <3>1. pushed \in Nat /\ Len(videoQueue) \in Nat  BY PusherBounds DEF QueueInv
    <3> QED BY <3>1 DEF f
  <2> QED BY <2>1, <2>2, PusherBounds DEF Ids
<1>8. ASSUME NEW d \in Client, NEW i \in 1..Len(sent[d])
      PROVE  sent[d][i].frame < f /\ taker'[sent[d][i].frame] = d
  <2>1. sent[d][i].frame \in Ids
    <3>1. sent[d][i] \in Piece  BY <1>3
    <3> QED BY <3>1 DEF Piece
  <2>2. taker[sent[d][i].frame] = d /\ d # "None"  BY PusherBounds DEF SentInv
  <2>3. sent[d][i].frame < f  BY <1>7, <2>1, <2>2
  <2>4. sent[d][i].frame # f  BY <1>1, <2>1, <2>3, PusherBounds DEF Ids
  <2>5. taker \in [Ids -> Client \cup {"None"}]  BY DEF QueueInv
  <2> QED BY <1>1, <2>1, <2>2, <2>3, <2>4, <2>5
<1> DEFINE s == sent[c]
<1>9. /\ Append(s, p) \in Seq(Piece) /\ Whole(Append(s, p))
      /\ Append(s, p) # <<>> /\ Len(Append(s, p)) = Len(s) + 1
      /\ Append(s, p)[Len(s) + 1] = p
  <2>1. p.from = 0 /\ \A i \in 1..Len(s) : s[i].frame < p.frame
    BY <1>6, <1>8
  <2>2. s \in Seq(Piece) /\ Whole(s)  BY <1>3
  <2> HIDE DEF s
  <2> QED BY <2>1, <2>2, WholeAppended
<1>10. Resumes(q, Append(s, p))
  BY <1>1, <1>6, <1>9 DEF Resumes
<1>11. taker'[p.frame] = c
  <2>1. taker \in [Ids -> Client \cup {"None"}]  BY DEF QueueInv
  <2> QED BY <1>1, <1>6, <2>1
<1>12. /\ source' = [source EXCEPT ![c] = q] /\ sent' = [sent EXCEPT ![c] = Append(sent[c], p)]
       /\ wanted' \in 0..MaxSize
  BY <1>5, <1>6, PusherBounds
<1>13. \A d \in Client : \A i \in 1..Len(sent[d]) : taker'[sent[d][i].frame] = d
  BY <1>8
<1> QED BY <1>3, <1>5, <1>9, <1>10, <1>11, <1>12, <1>13, SentPiece

\* A source that opens has given nothing; one that closes leaves its pieces.
LEMMA SentOpened ==
  ASSUME SentInv, NEW c \in Client, P!createNewStreamSource(c)
  PROVE  SentInv'
<1>1. /\ c \notin DOMAIN source /\ polling = "None"
      /\ source' = [d \in DOMAIN source \cup {c} |-> IF d = c THEN P!None ELSE source[d]]
      /\ sent' = [sent EXCEPT ![c] = <<>>]
      /\ UNCHANGED <<polling, wanted, taker>>
  BY DEF P!createNewStreamSource, P!inLoop, P!Open, P!request
<1>2. /\ DOMAIN source \subseteq Client /\ source \in [DOMAIN source -> Source]
      /\ sent \in [Client -> Seq(Piece)] /\ wanted \in 0..MaxSize
  BY DEF SentInv
<1>3. P!None \in Source  BY DEF P!None, Source
<1>4. /\ DOMAIN source' = DOMAIN source \cup {c} /\ source'[c] = P!None
      /\ \A d \in DOMAIN source : source'[d] = source[d]
      /\ source' \in [DOMAIN source' -> Source] /\ DOMAIN source' \subseteq Client
  BY <1>1, <1>2, <1>3
<1>5. /\ sent'[c] = <<>> /\ \A d \in Client : d # c => sent'[d] = sent[d]
      /\ sent' \in [Client -> Seq(Piece)]
  BY <1>1, <1>2, EmptySeq
<1>6. \A d \in DOMAIN source' : Resumes(source'[d], sent'[d])
  <2>1. \A d \in DOMAIN source : Resumes(source[d], sent[d])  BY DEF SentInv
  <2>2. Resumes(source'[c], sent'[c])  BY <1>4 DEF Resumes
  <2>3. ASSUME NEW d \in DOMAIN source PROVE Resumes(source'[d], sent'[d])
    BY <1>1, <1>2, <1>4, <1>5, <2>1
  <2> QED BY <1>4, <2>2, <2>3
<1>7. \A d \in Client : Whole(sent'[d]) /\ \A i \in 1..Len(sent'[d]) : taker'[sent'[d][i].frame] = d
  <2>1. ASSUME NEW d \in Client, d # c
        PROVE  Whole(sent'[d]) /\ \A i \in 1..Len(sent'[d]) : taker'[sent'[d][i].frame] = d
    <3>1. sent'[d] = sent[d] /\ taker' = taker  BY <1>1, <1>5, <2>1
    <3> QED BY <3>1 DEF SentInv
  <2>2. Whole(sent'[c]) /\ 1..Len(sent'[c]) = {}  BY <1>5, EmptySeq DEF Whole
  <2> QED BY <2>1, <2>2
<1> QED BY <1>1, <1>2, <1>4, <1>5, <1>6, <1>7 DEF SentInv

LEMMA SentClosed ==
  ASSUME SentInv, NEW c \in Client, P!closeSource(c)
  PROVE  SentInv'
<1>1. /\ polling = "None" /\ source' = [d \in DOMAIN source \ {c} |-> source[d]]
      /\ UNCHANGED <<polling, wanted, taker, sent>>
  BY DEF P!closeSource, P!inLoop, P!Open, P!request, P!history
<1>2. /\ DOMAIN source' \subseteq DOMAIN source /\ source' \in [DOMAIN source' -> Source]
      /\ \A d \in DOMAIN source' : source'[d] = source[d]
  BY <1>1 DEF SentInv
<1> QED BY <1>1, <1>2 DEF SentInv

LEMMA SentNext ==
  ASSUME SentInv, QueueInv, P!Next
  PROVE  SentInv'
<1> USE DEF P!history, P!request
<1>1. CASE P!start  BY <1>1, SentKept DEF P!start
<1>2. CASE P!stop  BY <1>2, SentKept DEF P!stop
<1>3. CASE P!destroy  BY <1>3, SentKept DEF P!destroy
<1>4. CASE P!run  BY <1>4, SentKept DEF P!run
<1>5. CASE P!pushAudioData  BY <1>5, SentKept DEF P!pushAudioData
<1>6. CASE P!pushVideoData  BY <1>6, SentKept DEF P!pushVideoData
<1>7. ASSUME NEW c \in Client, NEW n \in 1..MaxSize, P!askFrame(c, n) PROVE SentInv'
  <2>1. /\ c \in DOMAIN source /\ source[c].max = 0 /\ polling' = c /\ wanted' = n
        /\ UNCHANGED <<source, sent, taker>>
    BY <1>7 DEF P!askFrame, P!inLoop, P!Open
  <2>2. source[c] = P!None
    <3>1. Resumes(source[c], sent[c]) /\ source[c] \in Source  BY <2>1 DEF SentInv
    <3> QED BY <2>1, <3>1 DEF Resumes, Source
  <2>3. n \in 0..MaxSize  BY PusherBounds
  <2> QED BY <2>1, <2>2, <2>3 DEF SentInv
<1> QED BY <1>1, <1>2, <1>3, <1>4, <1>5, <1>6, <1>7, SentNextPiece, SentTaken, SentOpened,
           SentClosed DEF P!Next, P!doGetNextFrame

LEMMA PusherPromises ==
  ASSUME FlagsInv, QueueInv, SentInv
  PROVE  StreamSound
<1>1. P!TypeOK
  BY DEF FlagsInv, QueueInv, SentInv, P!TypeOK, P!Open, P!MaxFrame, Ids
<1>2. \A c \in Client : sent[c] \in Seq(Piece) /\ DOMAIN sent[c] = 1..Len(sent[c])
  <2>1. \A c \in Client : sent[c] \in Seq(Piece)  BY DEF SentInv
  <2> QED BY <2>1
<1>3. P!FramesWhole
  BY DEF SentInv, Whole, P!FramesWhole
<1>4. P!OneClientGetsIt
  <2>1. \A c \in Client : \A i \in DOMAIN sent[c] : taker[sent[c][i].frame] = c
    BY <1>2 DEF SentInv
  <2>2. ASSUME NEW i \in DOMAIN videoQueue PROVE taker[P!id(videoQueue[i])] = "None"
    <3> DEFINE g == pushed - Len(videoQueue) + i
    <3>1. /\ Len(videoQueue) \in Nat /\ i \in 1..Len(videoQueue) /\ Len(videoQueue) <= pushed
          /\ pushed \in 0..Len(Frame) /\ videoQueue[i] = Frame[g]
      BY DEF QueueInv
    <3>2. g \in Ids /\ g > pushed - Len(videoQueue)  BY <3>1, PusherBounds DEF Ids
    <3>3. P!id(videoQueue[i]) = g
      <4> HIDE DEF g
      <4> QED BY <3>1, <3>2, FrameId
    <3>4. pushed - Len(videoQueue) \in Int /\ g \in Int  BY <3>1, PusherBounds
    <3>5. taker[g] # "None" => g <= pushed - Len(videoQueue)
      <4> HIDE DEF g
      <4> QED BY <3>2 DEF QueueInv
    <3> HIDE DEF g
    <3> QED BY <3>2, <3>3, <3>4, <3>5
  <2> QED BY <2>1, <2>2 DEF P!OneClientGetsIt
<1>5. P!OldestAreLost
  <2>1. ASSUME loop # "Broken", NEW f \in firstKept..pushed, taker[f] = "None",
               ~(videoOpen /\ f + MaxQueue <= pushed)
        PROVE  \E i \in DOMAIN videoQueue : videoQueue[i] = Frame[f]
    <3> DEFINE i == f - (pushed - Len(videoQueue))
    <3>1. f > pushed - Len(videoQueue)  BY <2>1 DEF QueueInv
    <3>2. /\ Len(videoQueue) \in Nat /\ pushed \in Nat /\ f \in Nat /\ f <= pushed
          /\ DOMAIN videoQueue = 1..Len(videoQueue)
      BY PusherBounds DEF QueueInv
    <3>3. i \in 1..Len(videoQueue) /\ pushed - Len(videoQueue) + i = f  BY <3>1, <3>2
    <3>4. videoQueue[i] = Frame[pushed - Len(videoQueue) + i]
      <4> HIDE DEF i
      <4> QED BY <3>3 DEF QueueInv
    <3> QED BY <3>2, <3>3, <3>4
  <2> QED BY <2>1 DEF P!OldestAreLost
<1> QED BY <1>1, <1>3, <1>4, <1>5 DEF StreamSound, P!StreamSound

\* What a client of the live pusher sees is whole frames in order, each given to no other,
\* and of the frames pushed only the oldest are lost.
THEOREM StreamsAreSound == MediaSpec => []StreamSound
<1> DEFINE PusherInv == FlagsInv /\ QueueInv /\ SentInv
<1>1. MediaInit => PusherInv
  <2> SUFFICES ASSUME MediaInit PROVE PusherInv
    OBVIOUS
  <2>1. /\ pushing = FALSE /\ interrupting = FALSE /\ loop = "None"
        /\ videoOpen = FALSE /\ videoQueue = <<>> /\ audioCount = 0 /\ opens = 0
        /\ polling = "None" /\ wanted = 0
        /\ source = [c \in {} |-> P!None] /\ sent = [c \in Client |-> <<>>]
        /\ taker = [f \in Ids |-> "None"] /\ pushed = 0 /\ firstKept = 1
    BY DEF MediaInit, P!Init, P!MaxFrame, Ids
  <2>2. FlagsInv
    <3>1. 0 \in 0..MaxAudio /\ 0 \in 0..MaxOpen  BY PusherBounds
    <3>2. pushing \in BOOLEAN /\ interrupting \in BOOLEAN  BY <2>1
    <3> QED BY <2>1, <3>1, <3>2 DEF FlagsInv
  <2>3. QueueInv
    <3>1. Len(videoQueue) = 0 /\ videoQueue \in Seq(STRING) /\ firstKept..pushed = {}
          /\ 1..Len(videoQueue) = {}
      BY <2>1, EmptySeq
    <3>2. pushed \in 0..Len(Frame) /\ firstKept \in 1..Len(Frame) + 1
          /\ Len(videoQueue) <= pushed /\ Len(videoQueue) <= MaxQueue
          /\ firstKept = pushed + 1
      BY <2>1, <3>1, PusherBounds
    <3>3. videoOpen \in BOOLEAN /\ ~videoOpen  BY <2>1
    <3>4. taker \in [Ids -> Client \cup {"None"}] /\ \A f \in Ids : taker[f] = "None"
      BY <2>1
    <3> QED BY <2>1, <3>1, <3>2, <3>3, <3>4 DEF QueueInv
  <2>4. SentInv
    <3>1. DOMAIN source = {} /\ source \in [DOMAIN source -> Source]  BY <2>1
    <3>2. \A c \in Client : sent[c] = <<>>  BY <2>1
    <3>3. sent \in [Client -> Seq(Piece)]  BY <2>1, EmptySeq
    <3>4. \A c \in Client : Whole(sent[c]) /\ 1..Len(sent[c]) = {}  BY <3>2, EmptySeq DEF Whole
    <3> QED BY <2>1, <3>1, <3>3, <3>4, PusherBounds DEF SentInv
  <2> QED BY <2>2, <2>3, <2>4
<1>2. PusherInv /\ [MediaNext]_MediaVars => PusherInv'
  <2> SUFFICES ASSUME PusherInv, [MediaNext]_MediaVars PROVE PusherInv'
    OBVIOUS
  <2>1. P!Next \/ UNCHANGED pVars  BY DEF MediaNext, MediaVars
  <2>2. ASSUME UNCHANGED pVars PROVE PusherInv'
    BY <2>2, SentKept, QueueKept DEF pVars, FlagsInv
  <2> QED BY <2>1, <2>2, FlagsNext, QueueNext, SentNext
<1>3. PusherInv => StreamSound
  BY PusherPromises
<1> QED BY <1>1, <1>2, <1>3, PTL DEF MediaSpec

-----------------------------------------------------------------------------
(***************************************************************************)
(* The audio player (XXaudioPlayer)                                        *)
(*                                                                         *)
(* A step moves buffers from one place to another, or takes one out of the *)
(* pool, or puts one back; the lemmas BuffersMove, BufferTaken and         *)
(* BufferBack say that this keeps the places disjoint.                     *)
(***************************************************************************)

LEMMA PlayerBounds == A!None \notin Buffer
  BY MediaAssumption DEF A!None

(***************************************************************************)
(* Sequences                                                               *)
(***************************************************************************)

LEMMA AppendRange ==
  ASSUME NEW S, NEW s \in Seq(S), NEW x \in S
  PROVE  /\ Append(s, x) \in Seq(S)
         /\ Len(Append(s, x)) = Len(s) + 1
         /\ A!Range(Append(s, x)) = A!Range(s) \cup {x}
         /\ A!IsInjective(s) /\ x \notin A!Range(s) => A!IsInjective(Append(s, x))
<1> DEFINE t == Append(s, x)
<1>1. t \in Seq(S) /\ Len(t) = Len(s) + 1 /\ Len(s) \in Nat
  BY AppendProperties, LenProperties
<1>2. \A i \in 1..Len(s) : t[i] = s[i]  BY AppendProperties
<1>3. t[Len(s) + 1] = x  BY AppendProperties
<1>4. DOMAIN t = 1..(Len(s) + 1) /\ DOMAIN s = 1..Len(s)  BY <1>1, LenProperties
<1>5. A!Range(t) = A!Range(s) \cup {x}
  <2>1. ASSUME NEW y \in A!Range(t)  PROVE y \in A!Range(s) \cup {x}
    <3>1. PICK i \in 1..(Len(s) + 1) : y = t[i]  BY <1>4 DEF A!Range
    <3>2. CASE i = Len(s) + 1  BY <1>3, <3>1, <3>2
    <3>3. CASE i \in 1..Len(s)  BY <1>2, <1>4, <3>1, <3>3 DEF A!Range
    <3> QED  BY <1>1, <3>1, <3>2, <3>3
  <2>2. ASSUME NEW y \in A!Range(s)  PROVE y \in A!Range(t)
    <3>1. PICK i \in 1..Len(s) : y = s[i]  BY <1>4 DEF A!Range
    <3>2. i \in DOMAIN t /\ y = t[i]  BY <1>1, <1>2, <1>4, <3>1
    <3> QED  BY <3>2 DEF A!Range
  <2>3. x \in A!Range(t)
    <3>1. Len(s) + 1 \in DOMAIN t  BY <1>1, <1>4
    <3> QED  BY <1>3, <3>1 DEF A!Range
  <2> QED  BY <2>1, <2>2, <2>3
<1>6. ASSUME A!IsInjective(s), x \notin A!Range(s)  PROVE A!IsInjective(t)
  <2> SUFFICES ASSUME NEW i \in 1..(Len(s) + 1), NEW j \in 1..(Len(s) + 1), t[i] = t[j]
               PROVE  i = j
    BY <1>4 DEF A!IsInjective
  <2>1. \A k \in 1..Len(s) : s[k] # x  BY <1>4, <1>6 DEF A!Range
  <2>2. CASE i \in 1..Len(s) /\ j \in 1..Len(s)
    BY <1>2, <1>4, <1>6, <2>2 DEF A!IsInjective
  <2>3. CASE i = Len(s) + 1 /\ j \in 1..Len(s)  BY <1>2, <1>3, <2>1, <2>3
  <2>4. CASE i \in 1..Len(s) /\ j = Len(s) + 1  BY <1>2, <1>3, <2>1, <2>4
  <2>5. CASE i = Len(s) + 1 /\ j = Len(s) + 1  BY <2>5
  <2> QED  BY <1>1, <2>2, <2>3, <2>4, <2>5
<1> QED  BY <1>1, <1>5, <1>6

LEMMA TailRange ==
  ASSUME NEW S, NEW s \in Seq(S), s # <<>>, A!IsInjective(s)
  PROVE  /\ Head(s) \in S /\ Head(s) \in A!Range(s)
         /\ Tail(s) \in Seq(S) /\ Len(Tail(s)) = Len(s) - 1
         /\ A!Range(Tail(s)) = A!Range(s) \ {Head(s)}
         /\ A!IsInjective(Tail(s))
<1> DEFINE t == Tail(s)
<1>1. /\ t \in Seq(S) /\ Len(t) = Len(s) - 1 /\ Head(s) \in S
      /\ \A i \in 1..Len(t) : t[i] = s[i + 1]
  BY HeadTailProperties
<1>2. Len(s) \in Nat \ {0} /\ DOMAIN s = 1..Len(s)  BY EmptySeq, LenProperties
<1>3. DOMAIN t = 1..(Len(s) - 1)  BY <1>1, LenProperties
<1>4. Head(s) = s[1] /\ 1 \in DOMAIN s  BY <1>2
<1>5. Head(s) \in A!Range(s)  BY <1>4 DEF A!Range
<1>6. A!Range(t) = A!Range(s) \ {Head(s)}
  <2>1. ASSUME NEW y \in A!Range(t)  PROVE y \in A!Range(s) /\ y # Head(s)
    <3>1. PICK i \in 1..(Len(s) - 1) : y = t[i]  BY <1>3 DEF A!Range
    <3>2. i + 1 \in DOMAIN s /\ y = s[i + 1] /\ i + 1 # 1  BY <1>1, <1>2, <3>1
    <3>3. s[i + 1] # s[1]  BY <1>4, <3>2 DEF A!IsInjective
    <3> QED  BY <1>4, <3>2, <3>3 DEF A!Range
  <2>2. ASSUME NEW y \in A!Range(s), y # Head(s)  PROVE y \in A!Range(t)
    <3>1. PICK i \in 1..Len(s) : y = s[i]  BY <1>2 DEF A!Range
    <3>2. i # 1  BY <1>4, <2>2, <3>1
    <3>3. i - 1 \in 1..(Len(s) - 1) /\ (i - 1) + 1 = i  BY <1>2, <3>1, <3>2
    <3>4. t[i - 1] = s[i] /\ i - 1 \in DOMAIN t  BY <1>1, <1>3, <3>3
    <3> QED  BY <3>1, <3>4 DEF A!Range
  <2> QED  BY <2>1, <2>2
<1>7. A!IsInjective(t)
  <2> SUFFICES ASSUME NEW i \in 1..(Len(s) - 1), NEW j \in 1..(Len(s) - 1), t[i] = t[j]
               PROVE  i = j
    BY <1>3 DEF A!IsInjective
  <2>1. i + 1 \in DOMAIN s /\ j + 1 \in DOMAIN s /\ s[i + 1] = s[j + 1]
    BY <1>1, <1>2
  <2>2. i + 1 = j + 1  BY <2>1 DEF A!IsInjective
  <2> QED  BY <2>2
<1> QED  BY <1>1, <1>5, <1>6, <1>7

LEMMA EmptyRange ==
  ASSUME NEW S
  PROVE  <<>> \in Seq(S) /\ Len(<<>>) = 0 /\ A!Range(<<>>) = {} /\ A!IsInjective(<<>>)
<1>1. <<>> \in Seq(S) /\ Len(<<>>) = 0 /\ DOMAIN <<>> = {}  BY EmptySeq
<1> QED  BY <1>1 DEF A!Range, A!IsInjective

LEMMA SeqRange ==
  ASSUME NEW S, NEW s \in Seq(S)
  PROVE  A!Range(s) \subseteq S /\ Len(s) \in Nat
BY LenProperties, ElementOfSeq DEF A!Range

(***************************************************************************)
(* Places                                                                  *)
(***************************************************************************)

Disjoint(m) == \A p, q \in A!Place : p # q => m[p] \cap m[q] = {}
AllIn(m) == UNION {m[p] : p \in A!Place}

\* Moving a set of buffers from one place to another keeps the places disjoint
\* and what they hold together.
LEMMA BuffersMove ==
  ASSUME NEW m, NEW n, Disjoint(m), NEW from \in A!Place, NEW to \in A!Place, from # to,
         NEW X, X \subseteq m[from],
         n[from] = m[from] \ X, n[to] = m[to] \cup X,
         \A p \in A!Place \ {from, to} : n[p] = m[p]
  PROVE  Disjoint(n) /\ AllIn(n) = AllIn(m)
<1>1. Disjoint(n)
  <2> SUFFICES ASSUME NEW p \in A!Place, NEW q \in A!Place, p # q, NEW x, x \in n[p], x \in n[q]
               PROVE  FALSE
    BY Zenon DEF Disjoint
  <2>1. \A r \in A!Place : x \in n[r] => x \in m[r] \/ (r = to /\ x \in X)  BY Zenon
  <2>2. \A r, s \in A!Place : r # s => ~(x \in m[r] /\ x \in m[s])  BY Zenon DEF Disjoint
  <2>3. CASE x \notin X  BY <2>1, <2>2, <2>3
  <2>4. CASE x \in X
    <3>1. x \in m[from] /\ x \notin n[from]  BY <2>4
    <3>2. \A r \in A!Place : x \in n[r] => r = to  BY <2>1, <2>2, <3>1
    <3> QED  BY <3>2
  <2> QED  BY <2>3, <2>4
<1>2. ASSUME NEW x, x \in AllIn(n)  PROVE x \in AllIn(m)
  <2>1. PICK p \in A!Place : x \in n[p]  BY <1>2 DEF AllIn
  <2>2. x \in m[p] \/ x \in m[from]  BY <2>1
  <2> QED  BY <2>2 DEF AllIn
<1>3. ASSUME NEW x, x \in AllIn(m)  PROVE x \in AllIn(n)
  <2>1. PICK p \in A!Place : x \in m[p]  BY <1>3 DEF AllIn
  <2>2. x \in n[p] \/ x \in n[to]  BY <2>1
  <2> QED  BY <2>2 DEF AllIn
<1> QED  BY <1>1, <1>2, <1>3

\* Giving a place a buffer that was nowhere.
LEMMA BufferTaken ==
  ASSUME NEW m, NEW n, Disjoint(m), NEW to \in A!Place, NEW b, b \notin AllIn(m),
         n[to] = m[to] \cup {b}, \A p \in A!Place \ {to} : n[p] = m[p]
  PROVE  Disjoint(n) /\ AllIn(n) = AllIn(m) \cup {b}
<1>1. \A p \in A!Place : b \notin m[p]  BY DEF AllIn
<1>2. Disjoint(n)
  <2> SUFFICES ASSUME NEW p \in A!Place, NEW q \in A!Place, p # q, NEW x, x \in n[p], x \in n[q]
               PROVE  FALSE
    BY Zenon DEF Disjoint
  <2>1. \A r \in A!Place : x \in n[r] => x \in m[r] \/ (r = to /\ x = b)  BY Zenon
  <2>2. \A r, s \in A!Place : r # s => ~(x \in m[r] /\ x \in m[s])  BY Zenon DEF Disjoint
  <2> QED  BY <1>1, <2>1, <2>2
<1>3. ASSUME NEW x, x \in AllIn(n)  PROVE x \in AllIn(m) \cup {b}
  <2>1. PICK p \in A!Place : x \in n[p]  BY <1>3 DEF AllIn
  <2> QED  BY <2>1 DEF AllIn
<1>4. ASSUME NEW x, x \in AllIn(m) \cup {b}  PROVE x \in AllIn(n)
  <2>1. CASE x = b  BY <2>1 DEF AllIn
  <2>2. CASE x \in AllIn(m)
    <3>1. PICK p \in A!Place : x \in m[p]  BY <2>2 DEF AllIn
    <3>2. x \in n[p]  BY <3>1
    <3> QED  BY <3>2 DEF AllIn
  <2> QED  BY <1>4, <2>1, <2>2
<1> QED  BY <1>2, <1>3, <1>4

\* Putting the buffer of a place back into the pool.
LEMMA BufferBack ==
  ASSUME NEW m, NEW n, Disjoint(m), NEW from \in A!Place, NEW b, b \in m[from],
         n[from] = m[from] \ {b}, \A p \in A!Place \ {from} : n[p] = m[p]
  PROVE  Disjoint(n) /\ AllIn(n) = AllIn(m) \ {b}
<1>1. \A p \in A!Place \ {from} : b \notin m[p]  BY DEF Disjoint
<1>2. Disjoint(n)
  <2> SUFFICES ASSUME NEW p \in A!Place, NEW q \in A!Place, p # q, NEW x, x \in n[p], x \in n[q]
               PROVE  FALSE
    BY Zenon DEF Disjoint
  <2>1. \A r \in A!Place : x \in n[r] => x \in m[r]  BY Zenon
  <2>2. \A r, s \in A!Place : r # s => ~(x \in m[r] /\ x \in m[s])  BY Zenon DEF Disjoint
  <2> QED  BY <2>1, <2>2
<1>3. ASSUME NEW x, x \in AllIn(n)  PROVE x \in AllIn(m) \ {b}
  <2>1. PICK p \in A!Place : x \in n[p]  BY <1>3 DEF AllIn
  <2> QED  BY <1>1, <2>1 DEF AllIn
<1>4. ASSUME NEW x, x \in AllIn(m) \ {b}  PROVE x \in AllIn(n)
  <2>1. PICK p \in A!Place : x \in m[p]  BY <1>4 DEF AllIn
  <2>2. x \in n[p]  BY <1>4, <2>1
  <2> QED  BY <2>2 DEF AllIn
<1> QED  BY <1>2, <1>3, <1>4

(***************************************************************************)
(* The invariant.  While the pool is safe, Sound holds; a step that does   *)
(* not make it unsafe keeps it.                                            *)
(***************************************************************************)

PlayerSound == /\ Disjoint(A!at) /\ busy = AllIn(A!at)
         /\ A!IsInjective(pending) /\ A!IsInjective(enqueued)

PlayerInv == A!TypeOK /\ (~unsafe => PlayerSound) /\ A!QuietAfterStop

LEMMA PlaceAt ==
  /\ A!at["pusher"] = {pusher.buffer} \ {A!None} /\ A!at["worker"] = {worker.buffer} \ {A!None}
  /\ A!at["pending"] = A!Range(pending) /\ A!at["enqueued"] = A!Range(enqueued)
  /\ A!at["returned"] = due /\ A!at["lost"] = lost
BY DEF A!at

LEMMA PlaceAtPrime ==
  /\ A!at'["pusher"] = {pusher'.buffer} \ {A!None} /\ A!at'["worker"] = {worker'.buffer} \ {A!None}
  /\ A!at'["pending"] = A!Range(pending') /\ A!at'["enqueued"] = A!Range(enqueued')
  /\ A!at'["returned"] = due' /\ A!at'["lost"] = lost'
BY DEF A!at

\* What the types say of the two records.
LEMMA HandsTyped ==
  ASSUME A!TypeOK
  PROVE  /\ pusher.at \in {"idle", "scan"} => pusher.buffer = A!None
         /\ pusher.at = "marked" => pusher.buffer \in Buffer /\ pusher.buffer # A!None
         /\ worker.at = "idle" => worker.buffer = A!None
         /\ worker.at \in {"started", "copying"} => worker.buffer \in Buffer /\ worker.buffer # A!None
         /\ pusher.at \in {"idle", "scan", "marked"}
         /\ worker.at \in {"idle", "started", "copying"}
         /\ worker \in [at : {"idle", "started", "copying"}, buffer : Buffer \cup {A!None}]
BY PlayerBounds DEF A!TypeOK, A!idle

LEMMA PlacesApart ==
  ASSUME PlayerInv, ~unsafe
  PROVE  /\ Disjoint(A!at)
         /\ "pusher" \in A!Place /\ "worker" \in A!Place /\ "pending" \in A!Place
         /\ "enqueued" \in A!Place /\ "returned" \in A!Place /\ "lost" \in A!Place
BY DEF PlayerInv, PlayerSound, A!Place

LEMMA PlayerInit == A!Init => PlayerInv
<1> SUFFICES ASSUME A!Init PROVE PlayerInv  OBVIOUS
<1>0. /\ pusher.buffer = A!None /\ worker.buffer = A!None /\ worker.at = "idle"
      /\ pending = <<>> /\ enqueued = <<>> /\ busy = {} /\ due = {} /\ lost = {}
  BY DEF A!Init, A!idle
<1>1. A!TypeOK  BY EmptyRange DEF A!Init, A!TypeOK
<1>2. PlayerSound
  <2>1. \A p \in A!Place : A!at[p] = {}  BY <1>0, PlaceAt, EmptyRange DEF A!Place
  <2> QED  BY <1>0, <2>1, EmptyRange DEF PlayerSound, Disjoint, AllIn
<1>3. A!QuietAfterStop  BY <1>0, EmptyRange DEF A!QuietAfterStop
<1> QED  BY <1>1, <1>2, <1>3 DEF PlayerInv

(***************************************************************************)
(* Steps of the thread that pushes                                         *)
(***************************************************************************)

LEMMA PlayerPushCheck == ASSUME PlayerInv, ~unsafe, A!pushCheck PROVE PlayerInv'
<1>1. pusher'.buffer = A!None /\ pusher.buffer = A!None
  BY HandsTyped DEF A!pushCheck, PlayerInv
<1>2. A!TypeOK'  BY DEF A!pushCheck, A!audioQueue, A!history, PlayerInv, A!TypeOK
<1>3. \A p \in A!Place : A!at'[p] = A!at[p]
  BY <1>1, PlaceAt, PlaceAtPrime DEF A!pushCheck, A!audioQueue, A!history, A!Place
<1>4. PlayerSound'  BY <1>3 DEF A!pushCheck, A!audioQueue, A!history, PlayerInv, PlayerSound, Disjoint, AllIn
<1>5. A!QuietAfterStop'  BY DEF A!pushCheck, A!audioQueue, PlayerInv, A!QuietAfterStop
<1> QED  BY <1>2, <1>4, <1>5 DEF PlayerInv

LEMMA PlayerPushMark == ASSUME PlayerInv, ~unsafe, A!pushMark PROVE PlayerInv'
<1>1. PICK b \in Buffer \ busy :
        /\ busy' = busy \cup {b} /\ pusher' = [at |-> "marked", buffer |-> b]
  BY DEF A!pushMark
<1>2. UNCHANGED <<playing, control, pending, worker, isStarted, enqueued, due, lost, unsafe>>
  BY DEF A!pushMark, A!audioQueue, A!history
<1>3. A!TypeOK'  BY <1>1, <1>2 DEF PlayerInv, A!TypeOK
<1>4. A!at["pusher"] = {} /\ A!at'["pusher"] = {b}
  <2>1. pusher.buffer = A!None /\ pusher'.buffer = b /\ b # A!None
    BY <1>1, HandsTyped, PlayerBounds DEF A!pushMark, PlayerInv
  <2> QED  BY <2>1, PlaceAt, PlaceAtPrime
<1>5. \A p \in A!Place \ {"pusher"} : A!at'[p] = A!at[p]
  BY <1>2, PlaceAt, PlaceAtPrime DEF A!Place
<1>6. Disjoint(A!at') /\ AllIn(A!at') = AllIn(A!at) \cup {b}
  <2>1. b \notin AllIn(A!at)  BY <1>1 DEF PlayerInv, PlayerSound
  <2>2. ASSUME NEW c, c \notin AllIn(A!at), A!at'["pusher"] = A!at["pusher"] \cup {c}
        PROVE  Disjoint(A!at') /\ AllIn(A!at') = AllIn(A!at) \cup {c}
    BY <1>5, <2>2, BufferTaken, PlacesApart
  <2> QED  BY <1>4, <2>1, <2>2
<1>7. PlayerSound'  BY <1>1, <1>2, <1>6 DEF PlayerInv, PlayerSound
<1>8. A!QuietAfterStop'  BY <1>2 DEF PlayerInv, A!QuietAfterStop
<1> QED  BY <1>3, <1>7, <1>8 DEF PlayerInv

LEMMA PlayerPushRefused == ASSUME PlayerInv, ~unsafe, A!pushRefused PROVE PlayerInv'
<1>1. pusher'.buffer = A!None /\ pusher.buffer = A!None
  BY HandsTyped DEF A!pushRefused, PlayerInv, A!idle
<1>2. A!TypeOK'  BY DEF A!pushRefused, A!audioQueue, A!history, PlayerInv, A!TypeOK
<1>3. \A p \in A!Place : A!at'[p] = A!at[p]
  BY <1>1, PlaceAt, PlaceAtPrime DEF A!pushRefused, A!audioQueue, A!history, A!Place
<1>4. PlayerSound'  BY <1>3 DEF A!pushRefused, A!audioQueue, A!history, PlayerInv, PlayerSound, Disjoint, AllIn
<1>5. A!QuietAfterStop'  BY DEF A!pushRefused, A!audioQueue, PlayerInv, A!QuietAfterStop
<1> QED  BY <1>2, <1>4, <1>5 DEF PlayerInv

LEMMA PlayerPushAdd == ASSUME PlayerInv, ~unsafe, A!pushAdd PROVE PlayerInv'
<1> DEFINE b == pusher.buffer
<1>1. b \in Buffer /\ b # A!None  BY HandsTyped DEF A!pushAdd, PlayerInv
<1>2. pending' = Append(pending, b) /\ pusher' = A!idle /\ pending \in Seq(Buffer)
  BY DEF A!pushAdd, PlayerInv, A!TypeOK
<1>3. UNCHANGED <<playing, busy, control, worker, isStarted, enqueued, due, lost, unsafe>>
  BY DEF A!pushAdd, A!audioQueue, A!history
<1>4. b \notin A!Range(pending)
  <2>1. b \in A!at["pusher"] /\ A!at["pending"] = A!Range(pending)  BY <1>1, PlaceAt
  <2> QED  BY <2>1 DEF PlayerInv, PlayerSound, Disjoint, A!Place
<1>5. /\ pending' \in Seq(Buffer) /\ A!Range(pending') = A!Range(pending) \cup {b}
      /\ A!IsInjective(pending')
  BY <1>1, <1>2, <1>4, AppendRange DEF PlayerInv, PlayerSound
<1>6. A!TypeOK'  BY <1>2, <1>3, <1>5 DEF PlayerInv, A!TypeOK
<1>7. A!at["pusher"] = {b} /\ A!at'["pusher"] = {}  BY <1>1, <1>2, PlaceAt, PlaceAtPrime DEF A!idle
<1>8. A!at'["pending"] = A!at["pending"] \cup {b}  BY <1>5, PlaceAt, PlaceAtPrime
<1>9. \A p \in A!Place \ {"pusher", "pending"} : A!at'[p] = A!at[p]
  BY <1>3, PlaceAt, PlaceAtPrime DEF A!Place
<1>10. Disjoint(A!at') /\ AllIn(A!at') = AllIn(A!at)
  <2>1. ASSUME NEW X, X \subseteq A!at["pusher"], A!at'["pusher"] = A!at["pusher"] \ X,
               A!at'["pending"] = A!at["pending"] \cup X
        PROVE  Disjoint(A!at') /\ AllIn(A!at') = AllIn(A!at)
    BY <1>9, <2>1, BuffersMove, PlacesApart
  <2>2. A!at'["pusher"] = A!at["pusher"] \ {b} /\ {b} \subseteq A!at["pusher"] /\ A!at'["pending"] = A!at["pending"] \cup {b}
    BY <1>7, <1>8
  <2> QED  BY <2>1, <2>2
<1>11. PlayerSound'  BY <1>3, <1>5, <1>10 DEF PlayerInv, PlayerSound
<1>12. A!QuietAfterStop'  BY <1>3 DEF PlayerInv, A!QuietAfterStop
<1> QED  BY <1>6, <1>11, <1>12 DEF PlayerInv

(***************************************************************************)
(* Steps of the worker                                                     *)
(***************************************************************************)

LEMMA PlayerOperationStart == ASSUME PlayerInv, ~unsafe, A!operationStart PROVE PlayerInv'
<1> DEFINE b == Head(pending)
<1>1. /\ b \in Buffer /\ b \in A!Range(pending) /\ pending' \in Seq(Buffer)
      /\ A!Range(pending') = A!Range(pending) \ {b} /\ A!IsInjective(pending')
  BY TailRange DEF A!operationStart, PlayerInv, A!TypeOK, PlayerSound
<1>2. worker' = [at |-> "started", buffer |-> b] /\ worker.at = "idle"  BY DEF A!operationStart
<1>3. UNCHANGED <<playing, busy, pusher, control, isStarted, enqueued, due, lost, unsafe>>
  BY DEF A!operationStart, A!audioQueue, A!history
<1>4. A!TypeOK'  BY <1>1, <1>2, <1>3 DEF PlayerInv, A!TypeOK
<1>5. A!at["worker"] = {} /\ A!at'["worker"] = {b}
  <2>1. worker.buffer = A!None /\ worker'.buffer = b /\ b # A!None
    BY <1>1, <1>2, HandsTyped, PlayerBounds DEF PlayerInv
  <2> QED  BY <2>1, PlaceAt, PlaceAtPrime
<1>6. b \in A!at["pending"] /\ A!at'["pending"] = A!at["pending"] \ {b}  BY <1>1, PlaceAt, PlaceAtPrime
<1>7. \A p \in A!Place \ {"pending", "worker"} : A!at'[p] = A!at[p]
  BY <1>3, PlaceAt, PlaceAtPrime DEF A!Place
<1>8. Disjoint(A!at') /\ AllIn(A!at') = AllIn(A!at)
  <2>1. ASSUME NEW X, X \subseteq A!at["pending"], A!at'["pending"] = A!at["pending"] \ X,
               A!at'["worker"] = A!at["worker"] \cup X
        PROVE  Disjoint(A!at') /\ AllIn(A!at') = AllIn(A!at)
    BY <1>7, <2>1, BuffersMove, PlacesApart
  <2>2. A!at'["pending"] = A!at["pending"] \ {b} /\ {b} \subseteq A!at["pending"] /\ A!at'["worker"] = A!at["worker"] \cup {b}
    BY <1>5, <1>6
  <2> QED  BY <2>1, <2>2
<1>9. PlayerSound'  BY <1>1, <1>3, <1>8 DEF PlayerInv, PlayerSound
<1>10. A!QuietAfterStop'
  <2>1. worker'.at # "copying" /\ worker.at # "copying"  BY <1>2
  <2> QED  BY <1>3, <2>1 DEF PlayerInv, A!QuietAfterStop
<1> QED  BY <1>4, <1>9, <1>10 DEF PlayerInv

LEMMA PlayerOperationCheck == ASSUME PlayerInv, ~unsafe, A!operationCheck PROVE PlayerInv'
<1> DEFINE b == worker.buffer
<1>1. b \in Buffer /\ b # A!None /\ worker.at = "started"
  BY HandsTyped DEF A!operationCheck, PlayerInv
<1>2. UNCHANGED <<playing, pusher, control, pending, isStarted, enqueued, due, lost, unsafe>>
  BY DEF A!operationCheck, A!audioQueue, A!history
<1>3. CASE playing
  <2>1. worker' = [at |-> "copying", buffer |-> b] /\ busy' = busy
    BY <1>1, <1>3, HandsTyped DEF A!operationCheck, PlayerInv
  <2>2. A!TypeOK'  BY <1>1, <1>2, <2>1 DEF PlayerInv, A!TypeOK
  <2>3. \A p \in A!Place : A!at'[p] = A!at[p]  BY <1>2, <2>1, PlaceAt, PlaceAtPrime DEF A!Place
  <2>4. PlayerSound'  BY <1>2, <2>1, <2>3 DEF PlayerInv, PlayerSound, Disjoint, AllIn
  <2>5. A!QuietAfterStop'  BY <1>2, <1>3 DEF A!QuietAfterStop
  <2> QED  BY <2>2, <2>4, <2>5 DEF PlayerInv
<1>4. CASE ~playing
  <2>1. worker' = A!idle /\ busy' = busy \ {b}  BY <1>4 DEF A!operationCheck
  <2>2. A!TypeOK'  BY <1>2, <2>1 DEF PlayerInv, A!TypeOK
  <2>3. b \in A!at["worker"] /\ A!at'["worker"] = A!at["worker"] \ {b}
    BY <1>1, <2>1, PlaceAt, PlaceAtPrime DEF A!idle
  <2>4. \A p \in A!Place \ {"worker"} : A!at'[p] = A!at[p]  BY <1>2, PlaceAt, PlaceAtPrime DEF A!Place
  <2>5. Disjoint(A!at') /\ AllIn(A!at') = AllIn(A!at) \ {b}
    <3>1. ASSUME NEW c, c \in A!at["worker"], A!at'["worker"] = A!at["worker"] \ {c}
          PROVE  Disjoint(A!at') /\ AllIn(A!at') = AllIn(A!at) \ {c}
      BY <2>4, <3>1, BufferBack, PlacesApart
    <3> QED  BY <2>3, <3>1
  <2>6. PlayerSound'  BY <1>2, <2>1, <2>5 DEF PlayerInv, PlayerSound
  <2>7. A!QuietAfterStop'
    <3>1. worker'.at # "copying" /\ worker.at # "copying"  BY <1>1, <2>1 DEF A!idle
    <3> QED  BY <1>2, <3>1 DEF PlayerInv, A!QuietAfterStop
  <2> QED  BY <2>2, <2>6, <2>7 DEF PlayerInv
<1> QED  BY <1>3, <1>4

\* A buffer goes to the audio queue or, refused, is lost.
LEMMA PlayerOperationEnqueue == ASSUME PlayerInv, ~unsafe, A!operationEnqueue PROVE PlayerInv'
<1> DEFINE b == worker.buffer
<1>1. b \in Buffer /\ b # A!None /\ worker.at = "copying" /\ worker' = A!idle
  BY HandsTyped DEF A!operationEnqueue, PlayerInv
<1>2. UNCHANGED <<playing, busy, pusher, control, pending, isStarted, due, unsafe>>
  BY DEF A!operationEnqueue
<1>3. enqueued \in Seq(Buffer) /\ lost \subseteq Buffer /\ Len(enqueued) \in Nat
  BY SeqRange DEF PlayerInv, A!TypeOK
<1>4. PICK to \in {"enqueued", "lost"} :
        /\ enqueued' = IF to = "enqueued" THEN Append(enqueued, b) ELSE enqueued
        /\ lost' = IF to = "lost" THEN lost \cup {b} ELSE lost
  BY DEF A!operationEnqueue
<1>5. b \notin A!Range(enqueued)
  <2>1. b \in A!at["worker"] /\ A!at["enqueued"] = A!Range(enqueued)  BY <1>1, PlaceAt
  <2> QED  BY <2>1 DEF PlayerInv, PlayerSound, Disjoint, A!Place
<1>6. /\ enqueued' \in Seq(Buffer) /\ Len(enqueued') <= Len(enqueued) + 1 /\ Len(enqueued') \in Nat
      /\ A!IsInjective(enqueued')
      /\ A!Range(enqueued') = IF to = "enqueued" THEN A!Range(enqueued) \cup {b}
                              ELSE A!Range(enqueued)
  <2>1. CASE to = "enqueued"
    BY <1>1, <1>3, <1>4, <1>5, <2>1, AppendRange DEF PlayerInv, PlayerSound
  <2>2. CASE to = "lost"
    BY <1>3, <1>4, <2>2 DEF PlayerInv, PlayerSound
  <2> QED BY <2>1, <2>2
<1>7. A!TypeOK'  BY <1>1, <1>2, <1>3, <1>4, <1>6 DEF PlayerInv, A!TypeOK
<1>8. A!at["worker"] = {b} /\ A!at'["worker"] = {}  BY <1>1, PlaceAt, PlaceAtPrime DEF A!idle
<1>9. A!at'[to] = A!at[to] \cup {b}  BY <1>4, <1>6, PlaceAt, PlaceAtPrime
<1>10. \A p \in A!Place \ {"worker", to} : A!at'[p] = A!at[p]
  BY <1>2, <1>4, <1>6, PlaceAt, PlaceAtPrime DEF A!Place
<1>11. Disjoint(A!at') /\ AllIn(A!at') = AllIn(A!at)
  <2>1. ASSUME NEW X, X \subseteq A!at["worker"], A!at'["worker"] = A!at["worker"] \ X,
               A!at'[to] = A!at[to] \cup X
        PROVE  Disjoint(A!at') /\ AllIn(A!at') = AllIn(A!at)
    <3>1. to \in A!Place /\ to # "worker"  BY DEF A!Place
    <3> QED BY <1>10, <2>1, <3>1, BuffersMove, PlacesApart
  <2>2. A!at'["worker"] = A!at["worker"] \ {b} /\ {b} \subseteq A!at["worker"]
    BY <1>8
  <2> QED  BY <1>9, <2>1, <2>2
<1>12. PlayerSound'  BY <1>2, <1>6, <1>11 DEF PlayerInv, PlayerSound
<1>13. A!QuietAfterStop'
  <2>1. worker'.at # "copying"  BY <1>1 DEF A!idle
  <2> QED  BY <1>1, <1>2, <1>3, <1>6, <2>1 DEF PlayerInv, A!QuietAfterStop
<1> QED  BY <1>7, <1>12, <1>13 DEF PlayerInv

(***************************************************************************)
(* Steps of the audio queue                                                *)
(***************************************************************************)

LEMMA PlayerPlayed == ASSUME PlayerInv, ~unsafe, A!played PROVE PlayerInv'
<1> DEFINE b == Head(enqueued)
<1>1. /\ b \in Buffer /\ b \in A!Range(enqueued) /\ enqueued' \in Seq(Buffer)
      /\ Len(enqueued') = Len(enqueued) - 1
      /\ A!Range(enqueued') = A!Range(enqueued) \ {b} /\ A!IsInjective(enqueued')
  BY TailRange DEF A!played, PlayerInv, A!TypeOK, PlayerSound
<1>2. due' = due \cup {b}  BY DEF A!played
<1>3. UNCHANGED <<playing, busy, pusher, control, pending, worker, isStarted, lost, unsafe>>
  BY DEF A!played, A!history
<1>4. A!TypeOK'  BY <1>1, <1>2, <1>3 DEF PlayerInv, A!TypeOK
<1>5. /\ b \in A!at["enqueued"] /\ A!at'["enqueued"] = A!at["enqueued"] \ {b}
      /\ A!at'["returned"] = A!at["returned"] \cup {b}
  BY <1>1, <1>2, PlaceAt, PlaceAtPrime
<1>6. \A p \in A!Place \ {"enqueued", "returned"} : A!at'[p] = A!at[p]
  BY <1>3, PlaceAt, PlaceAtPrime DEF A!Place
<1>7. Disjoint(A!at') /\ AllIn(A!at') = AllIn(A!at)
  <2>1. ASSUME NEW X, X \subseteq A!at["enqueued"], A!at'["enqueued"] = A!at["enqueued"] \ X,
               A!at'["returned"] = A!at["returned"] \cup X
        PROVE  Disjoint(A!at') /\ AllIn(A!at') = AllIn(A!at)
    BY <1>6, <2>1, BuffersMove, PlacesApart
  <2> QED  BY <1>5, <2>1
<1>8. PlayerSound'  BY <1>1, <1>3, <1>7 DEF PlayerInv, PlayerSound
<1>9. A!QuietAfterStop'
  <2>1. Len(enqueued) \in Nat  BY SeqRange DEF PlayerInv, A!TypeOK
  <2> QED  BY <1>1, <1>3, <2>1 DEF PlayerInv, A!QuietAfterStop
<1> QED  BY <1>4, <1>8, <1>9 DEF PlayerInv

LEMMA PlayerCallback == ASSUME PlayerInv, ~unsafe, NEW b \in Buffer, A!AQInputCallback(b) PROVE PlayerInv'
<1>1. b \in due /\ due' = due \ {b} /\ busy' = busy \ {b}
  BY DEF A!AQInputCallback
<1>2. UNCHANGED <<playing, pusher, control, pending, worker, isStarted, enqueued, lost, unsafe>>
  BY DEF A!AQInputCallback, A!history
<1>3. A!TypeOK'  BY <1>1, <1>2 DEF PlayerInv, A!TypeOK
<1>4. b \in A!at["returned"] /\ A!at'["returned"] = A!at["returned"] \ {b}  BY <1>1, PlaceAt, PlaceAtPrime
<1>5. \A p \in A!Place \ {"returned"} : A!at'[p] = A!at[p]  BY <1>2, PlaceAt, PlaceAtPrime DEF A!Place
<1>6. Disjoint(A!at') /\ AllIn(A!at') = AllIn(A!at) \ {b}
  BY <1>4, <1>5, BufferBack, PlacesApart
<1>7. PlayerSound'  BY <1>1, <1>2, <1>6 DEF PlayerInv, PlayerSound
<1>8. A!QuietAfterStop'  BY <1>2 DEF PlayerInv, A!QuietAfterStop
<1> QED  BY <1>3, <1>7, <1>8 DEF PlayerInv

(***************************************************************************)
(* Steps of the controlling thread                                         *)
(***************************************************************************)

\* Steps that touch no buffer.
LEMMA PlayerControl ==
  ASSUME PlayerInv, ~unsafe, A!start \/ A!startQueue \/ A!stop
  PROVE  PlayerInv'
<1>1. UNCHANGED <<busy, pusher, pending, worker, enqueued, due, lost, unsafe>>
  BY DEF A!start, A!startQueue, A!stop, A!audioQueue, A!history
<1>2. A!TypeOK'  BY DEF A!start, A!startQueue, A!stop, A!audioQueue, A!history, PlayerInv, A!TypeOK
<1>3. \A p \in A!Place : A!at'[p] = A!at[p]  BY <1>1, PlaceAt, PlaceAtPrime DEF A!Place
<1>4. PlayerSound'  BY <1>1, <1>3 DEF PlayerInv, PlayerSound, Disjoint, AllIn
<1>5. A!QuietAfterStop'
  <2>1. CASE A!start  BY <2>1 DEF A!start, A!QuietAfterStop
  <2>2. CASE A!stop  BY <2>2 DEF A!stop, A!QuietAfterStop
  <2>3. CASE A!startQueue  BY <1>1, <2>3 DEF A!startQueue, PlayerInv, A!QuietAfterStop
  <2> QED  BY <2>1, <2>2, <2>3
<1> QED  BY <1>2, <1>4, <1>5 DEF PlayerInv

\* Cancelling: the waiting buffers are lost.
LEMMA PlayerCancel ==
  ASSUME PlayerInv, ~unsafe, A!stopCancel \/ A!resetData
  PROVE  PlayerInv'
<1>1. pending' = <<>> /\ lost' = lost \cup A!Range(pending)
  BY DEF A!stopCancel, A!resetData, A!cancelAllOperations
<1>2. UNCHANGED <<playing, busy, pusher, worker, isStarted, enqueued, due, unsafe>>
  BY DEF A!stopCancel, A!resetData, A!audioQueue
<1>3. control' \in {"stopped", "reset"}  BY DEF A!stopCancel, A!resetData
<1>4. pending' \in Seq(Buffer) /\ A!Range(pending') = {} /\ A!IsInjective(pending')
  BY <1>1, EmptyRange
<1>5. A!Range(pending) \subseteq Buffer  BY SeqRange DEF PlayerInv, A!TypeOK
<1>6. A!TypeOK'  BY <1>1, <1>2, <1>3, <1>4, <1>5 DEF PlayerInv, A!TypeOK
<1>7. /\ A!at'["pending"] = A!at["pending"] \ A!at["pending"]
      /\ A!at'["lost"] = A!at["lost"] \cup A!at["pending"]
  BY <1>1, <1>4, PlaceAt, PlaceAtPrime
<1>8. \A p \in A!Place \ {"pending", "lost"} : A!at'[p] = A!at[p]
  BY <1>2, PlaceAt, PlaceAtPrime DEF A!Place
<1>9. Disjoint(A!at') /\ AllIn(A!at') = AllIn(A!at)
  BY <1>7, <1>8, BuffersMove, PlacesApart
<1>10. PlayerSound'  BY <1>2, <1>4, <1>9 DEF PlayerInv, PlayerSound
<1>11. A!QuietAfterStop'
  <2>1. CASE A!stopCancel  BY <2>1 DEF A!stopCancel, A!QuietAfterStop
  <2>2. CASE A!resetData  BY <1>2, <2>2 DEF A!resetData, PlayerInv, A!QuietAfterStop
  <2> QED  BY <2>1, <2>2
<1> QED  BY <1>6, <1>10, <1>11 DEF PlayerInv

\* Emptying the audio queue: its buffers are returned.
LEMMA PlayerEmpty ==
  ASSUME PlayerInv, ~unsafe, A!stopQueue \/ A!resetQueue
  PROVE  PlayerInv'
<1>1. enqueued' = <<>> /\ due' = due \cup A!Range(enqueued)
  BY DEF A!stopQueue, A!resetQueue, A!AudioQueueReset
<1>2. UNCHANGED <<playing, busy, pusher, pending, worker, lost, unsafe>>
  BY DEF A!stopQueue, A!resetQueue, A!history
<1>3. control' \in {"idle", "resetFlags"} /\ isStarted' \in BOOLEAN
  BY DEF A!stopQueue, A!resetQueue, PlayerInv, A!TypeOK
<1>4. /\ enqueued' \in Seq(Buffer) /\ Len(enqueued') = 0
      /\ A!Range(enqueued') = {} /\ A!IsInjective(enqueued')
  BY <1>1, EmptyRange
<1>5. A!Range(enqueued) \subseteq Buffer  BY SeqRange DEF PlayerInv, A!TypeOK
<1>6. A!TypeOK'  BY <1>1, <1>2, <1>3, <1>4, <1>5 DEF PlayerInv, A!TypeOK
<1>7. /\ A!at'["enqueued"] = A!at["enqueued"] \ A!at["enqueued"]
      /\ A!at'["returned"] = A!at["returned"] \cup A!at["enqueued"]
  BY <1>1, <1>4, PlaceAt, PlaceAtPrime
<1>8. \A p \in A!Place \ {"enqueued", "returned"} : A!at'[p] = A!at[p]
  BY <1>2, PlaceAt, PlaceAtPrime DEF A!Place
<1>9. Disjoint(A!at') /\ AllIn(A!at') = AllIn(A!at)
  BY <1>7, <1>8, BuffersMove, PlacesApart
<1>10. PlayerSound'  BY <1>2, <1>4, <1>9 DEF PlayerInv, PlayerSound
<1>11. A!QuietAfterStop'  BY <1>4 DEF A!QuietAfterStop
<1> QED  BY <1>6, <1>10, <1>11 DEF PlayerInv

\* With no buffer in use the pool is full again.
LEMMA PlayerAllBack ==
  ASSUME A!TypeOK, A!held \cap Buffer = {}, busy' = {}, lost' = {}, due' = {},
         UNCHANGED <<pusher, worker, pending>>, enqueued' = <<>>
  PROVE  PlayerSound'
<1>1. A!Range(pending) \subseteq Buffer /\ pending \in Seq(Buffer)  BY SeqRange DEF A!TypeOK
<1>2. A!Range(pending) = {}  BY <1>1 DEF A!held
<1>3. A!IsInjective(pending)
  BY <1>2 DEF A!IsInjective, A!Range
<1>4. pusher.buffer = A!None /\ worker.buffer = A!None
  BY HandsTyped DEF A!held
<1>5. \A p \in A!Place : A!at'[p] = {}  BY <1>2, <1>4, PlaceAtPrime, EmptyRange DEF A!Place
<1> QED  BY <1>3, <1>5, EmptyRange DEF PlayerSound, Disjoint, AllIn

LEMMA PlayerResetFlags == ASSUME PlayerInv, ~unsafe, A!resetFlags PROVE PlayerInv'
<1>1. busy' = {} /\ lost' = {} /\ control' = "idle"  BY DEF A!resetFlags
<1>2. UNCHANGED <<playing, pusher, pending, worker, isStarted, enqueued, due>>
  BY DEF A!resetFlags, A!audioQueue
<1>3. A!TypeOK'  BY <1>1, <1>2 DEF A!resetFlags, PlayerInv, A!TypeOK
<1>4. ASSUME ~unsafe'  PROVE PlayerSound'
  <2>1. (A!held \cup A!Range(enqueued) \cup due) \cap Buffer = {}  BY <1>4 DEF A!resetFlags
  <2>2. A!Range(enqueued) \subseteq Buffer /\ due \subseteq Buffer
        /\ enqueued \in Seq(Buffer)
    BY SeqRange DEF PlayerInv, A!TypeOK
  <2>3. A!Range(enqueued) = {} /\ due = {}  BY <2>1, <2>2
  <2>4. enqueued = <<>>
    <3>1. enqueued # <<>> => Len(enqueued) \in Nat \ {0} /\ DOMAIN enqueued = 1..Len(enqueued)
      BY <2>2, EmptySeq, LenProperties
    <3>2. enqueued # <<>> => 1 \in DOMAIN enqueued  BY <3>1
    <3> QED  BY <2>3, <3>2 DEF A!Range
  <2>5. A!held \cap Buffer = {}  BY <2>1
  <2> QED  BY <1>1, <1>2, <2>3, <2>4, <2>5, PlayerAllBack DEF PlayerInv
<1>5. A!QuietAfterStop'  BY <1>2 DEF A!resetFlags, PlayerInv, A!QuietAfterStop
<1> QED  BY <1>3, <1>4, <1>5 DEF PlayerInv

LEMMA PlayerConfig == ASSUME PlayerInv, ~unsafe, A!config PROVE PlayerInv'
<1>1. /\ busy' = {} /\ lost' = {} /\ due' = {} /\ enqueued' = <<>> /\ isStarted' = FALSE
      /\ UNCHANGED <<playing, pusher, control, pending, worker>>
  BY DEF A!config
<1>2. enqueued' \in Seq(Buffer) /\ Len(enqueued') = 0  BY <1>1, EmptyRange
<1>3. A!TypeOK'  BY <1>1, <1>2 DEF A!config, PlayerInv, A!TypeOK
<1>4. ASSUME ~unsafe'  PROVE PlayerSound'
  <2>1. A!held \cap Buffer = {}  BY <1>4 DEF A!config
  <2> QED  BY <1>1, <2>1, PlayerAllBack DEF PlayerInv
<1>5. A!QuietAfterStop'  BY <1>2 DEF A!QuietAfterStop
<1> QED  BY <1>3, <1>4, <1>5 DEF PlayerInv

LEMMA PlayerNext == ASSUME PlayerInv, A!Next \/ UNCHANGED A!vars PROVE PlayerInv'
<1>1. CASE UNCHANGED A!vars
  <2>1. UNCHANGED <<playing, busy, pusher, control, pending, worker, isStarted, enqueued,
                    due, lost, unsafe>>
    BY <1>1 DEF A!vars
  <2>2. \A p \in A!Place : A!at'[p] = A!at[p]  BY <2>1, PlaceAt, PlaceAtPrime DEF A!Place
  <2>3. unsafe \/ PlayerSound'  BY <2>1, <2>2 DEF PlayerInv, PlayerSound, Disjoint, AllIn
  <2>4. A!TypeOK' /\ A!QuietAfterStop'  BY <2>1 DEF PlayerInv, A!TypeOK, A!QuietAfterStop
  <2> QED  BY <2>1, <2>3, <2>4 DEF PlayerInv
<1>2. CASE ~unsafe /\ A!step
  <2>1. CASE A!pushData
    BY <1>2, <2>1, PlayerPushCheck, PlayerPushMark, PlayerPushRefused, PlayerPushAdd DEF A!pushData
  <2>2. CASE A!operation
    BY <1>2, <2>2, PlayerOperationStart, PlayerOperationCheck, PlayerOperationEnqueue DEF A!operation
  <2>3. CASE A!played \/ \E b \in Buffer : A!AQInputCallback(b)
    BY <1>2, <2>3, PlayerPlayed, PlayerCallback
  <2>4. CASE A!start \/ A!stop \/ A!startQueue  BY <1>2, <2>4, PlayerControl
  <2>5. CASE A!resetData \/ A!stopCancel  BY <1>2, <2>5, PlayerCancel
  <2>6. CASE A!stopQueue \/ A!resetQueue  BY <1>2, <2>6, PlayerEmpty
  <2>7. CASE A!resetFlags \/ A!config  BY <1>2, <2>7, PlayerResetFlags, PlayerConfig
  <2> QED  BY <1>2, <2>1, <2>2, <2>3, <2>4, <2>5, <2>6, <2>7 DEF A!step, A!finish
<1> QED  BY <1>1, <1>2 DEF A!Next

\* The audio player's variables keep their types, and as long as the pool is not reset
\* under a buffer in use, a buffer is in one place only and busy exactly while it is in one.
\* A stopped player has at most one buffer left to play.
LEMMA PlayersInvariance == MediaSpec => []PlayerInv
<1>1. MediaInit => PlayerInv
  BY PlayerInit DEF MediaInit
<1>2. PlayerInv /\ [MediaNext]_MediaVars => PlayerInv'
  <2> SUFFICES ASSUME PlayerInv, [MediaNext]_MediaVars PROVE PlayerInv'
    OBVIOUS
  <2>1. A!Next \/ UNCHANGED aVars
    BY DEF MediaNext, MediaVars
  <2>2. A!Next \/ UNCHANGED A!vars
    BY <2>1 DEF aVars, A!vars, A!audioQueue, A!history
  <2> QED BY <2>2, PlayerNext
<1> QED BY <1>1, <1>2, PTL DEF MediaSpec

\* As long as the pool is not reset under a buffer in use, a buffer of the audio player is
\* in one place only and flagged busy exactly while it is in one.
THEOREM OneUserAtATime == MediaSpec => []OnePlace
<1>1. PlayerInv => OnePlace
  BY DEF PlayerInv, PlayerSound, OnePlace, A!OnePlace, Disjoint, AllIn
<1> QED BY <1>1, PlayersInvariance, PTL

\* A stopped player has at most one buffer left to play.
THEOREM StopsQuiet == MediaSpec => []QuietAfterStop
<1>1. PlayerInv => QuietAfterStop
  BY DEF PlayerInv, QuietAfterStop
<1> QED BY <1>1, PlayersInvariance, PTL
=============================================================================
