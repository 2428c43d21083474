------------------------- MODULE XXfmRecorderProofs -------------------------
(***************************************************************************)
(* Proofs about the recorder, for every set of paths, with and without     *)
(* audio and device failures, and for every bound: IInv is inductive, and  *)
(* the safety properties of XXfmRecorder follow from it.                   *)
(***************************************************************************)
EXTENDS XXfmRecorder, TLAPS

\* A null writer handle is a value of the type of writer handles.
LEMMA NullType == NULL \in Handle
  BY RecorderAssumption DEF NULL, Handle, RecorderAssumption

\* The history count of foreign packets stays in its range.
LEMMA ForeignType ==
  ASSUME NEW n \in 0..2, NEW t
  PROVE  countForeign(n, t) \in 0..2
  BY DEF countForeign

\* The owners _writeMutex can have are different for different threads.
LEMMA Owners ==
  ASSUME NEW i \in Session, NEW j \in Session
  PROVE  /\ <<"video", i>> # <<"audio", j>>
         /\ <<"video", i>> # NoThread /\ <<"audio", i>> # NoThread
         /\ <<"video", i>> = <<"video", j>> => i = j
         /\ <<"audio", i>> = <<"audio", j>> => i = j
  BY DEF NoThread

-----------------------------------------------------------------------------
(***************************************************************************)
(* Type correctness                                                        *)
(***************************************************************************)

\* The client's calls keep the types.
LEMMA CallerType ==
  ASSUME IInv, callerCall \/ callerStep
  PROVE  TypeOK'
<1> USE DEF IInv, TypeOK, State, CallerPc, RunPc, Session, callerGoto, setState,
          shared, threads, history
<1>1. CASE openCheck
  BY <1>1 DEF openCheck
<1>2. CASE openSet
  BY <1>2 DEF openSet
<1>3. CASE openNewID
  BY <1>3, RecorderAssumption DEF openNewID
<1>4. CASE openSpawn
  BY <1>4, RecorderAssumption DEF openSpawn, Protocol, ClosedQuiet
<1>5. CASE startCheck
  BY <1>5 DEF startCheck
<1>6. CASE startSet
  BY <1>6, RecorderAssumption DEF startSet, Protocol, OpenedPending
<1>7. CASE stopCheck
  BY <1>7 DEF stopCheck
<1>8. CASE stopSet
  BY <1>8 DEF stopSet
<1>9. CASE closeCheck
  BY <1>9 DEF closeCheck
<1>10. CASE closeInvalidate
  BY <1>10 DEF closeInvalidate
<1>11. CASE closeStop
  BY <1>11 DEF closeStop
<1>12. CASE closeSet
  BY <1>12 DEF closeSet
<1>13. CASE destroyClear
  BY <1>13 DEF destroyClear
<1>14. CASE destroyClose
  BY <1>14 DEF destroyClose
<1>15. CASE destroyJoin
  BY <1>15, RecorderAssumption DEF destroyJoin
<1>16. ASSUME NEW p \in Path, startPath(p) PROVE TypeOK'
  BY <1>16 DEF startPath
<1>17. ASSUME NEW save \in BOOLEAN, stopFree(save) PROVE TypeOK'
  BY <1>17, NullType DEF stopFree, Handle
<1> QED
  BY <1>1, <1>2, <1>3, <1>4, <1>5, <1>6, <1>7, <1>8, <1>9, <1>10, <1>11, <1>12, <1>13, <1>14, <1>15, <1>16, <1>17 DEF callerCall, callerStep

\* The run thread keeps the types.
LEMMA RunType ==
  ASSUME NEW i \in Session, IInv, run(i)
  PROVE  TypeOK'
<1> USE DEF IInv, TypeOK, State, RunPc, VideoPc, AudioPc, runGoto, runFrame, setState, caller
<1>1. CASE runStart(i)
  BY <1>1 DEF runStart
<1>2. CASE runInitVideo(i)
  <2>1. runPc' \in [Session -> RunPc]
    BY <1>2 DEF runInitVideo
  <2>2. aborted' \in BOOLEAN
    BY <1>2 DEF runInitVideo
  <2> QED
    BY <1>2, <2>1, <2>2 DEF runInitVideo
<1>3. CASE runInitAudio(i)
  <2>1. runPc' \in [Session -> RunPc]
    BY <1>3 DEF runInitAudio
  <2>2. aborted' \in BOOLEAN
    BY <1>3 DEF runInitAudio
  <2> QED
    BY <1>3, <2>1, <2>2 DEF runInitAudio
<1>4. CASE runSpawn(i)
  BY <1>4 DEF runSpawn
<1>5. CASE runJoinVideo(i)
  BY <1>5 DEF runJoinVideo
<1>6. CASE runJoinAudio(i)
  BY <1>6 DEF runJoinAudio
<1>7. CASE runReport(i)
  BY <1>7 DEF runReport
<1>8. CASE runClosed(i)
  BY <1>8 DEF runClosed, Handle
<1>9. CASE runEnd(i)
  BY <1>9 DEF runEnd
<1> QED
  BY <1>1, <1>2, <1>3, <1>4, <1>5, <1>6, <1>7, <1>8, <1>9 DEF run

\* The video thread keeps the types.
LEMMA VideoType ==
  ASSUME NEW i \in Session, IInv, videoRun(i)
  PROVE  TypeOK'
<1> USE DEF IInv, TypeOK, State, VideoPc, videoGoto, videoFrame, noWrite, caller
<1>1. CASE videoLoop(i)
  BY <1>1 DEF videoLoop
<1>2. CASE videoRead(i)
  BY <1>2 DEF videoRead
<1>3. CASE videoPreview(i)
  BY <1>3 DEF videoPreview
<1>4. CASE videoCheckOpening(i)
  BY <1>4 DEF videoCheckOpening
<1>5. CASE videoSetOpened(i)
  BY <1>5 DEF videoSetOpened, setState
<1>6. CASE videoShow(i)
  BY <1>6 DEF videoShow
<1>7. CASE videoEncode(i)
  <2>1. PICK pc \in {"write", "loop", "ended"} : videoPc' = [videoPc EXCEPT ![i] = pc]
    BY <1>7 DEF videoEncode
  <2>2. videoPc' \in [Session -> VideoPc]
    BY <2>1
  <2>3. packet' \in [Session -> [video : 0..MaxTake, audio : 0..MaxTake]]
    BY <1>7 DEF videoEncode
  <2> QED
    BY <1>7, <2>2, <2>3 DEF videoEncode
<1>8. CASE videoLock(i)
  BY <1>8 DEF videoLock, Session, NoThread
<1>9. CASE videoCreate(i)
  <2>1. writeHandle' \in Handle
    BY <1>9, NullType DEF videoCreate, Handle, NULL
  <2>2. files' \in [Path -> {"absent", "partial", "saved"}]
    BY <1>9 DEF videoCreate
  <2>3. videoPc' \in [Session -> VideoPc]
    BY <1>9 DEF videoCreate
  <2> QED
    BY <1>9, <2>1, <2>2, <2>3 DEF videoCreate
<1>10. CASE videoAppend(i)
  <2>1. PICK key \in BOOLEAN :
          writeHandle' = IF writeHandle.isInited \/ key
            THEN [writeHandle EXCEPT !.isInited = TRUE,
                                     !.foreignVideo = countForeign(@, packet[i].video)]
            ELSE writeHandle
    BY <1>10 DEF videoAppend
  <2>2. countForeign(writeHandle.foreignVideo, packet[i].video) \in 0..2
    BY ForeignType DEF Handle
  <2>3. writeHandle' \in Handle
    BY <2>1, <2>2 DEF Handle
  <2>4. packet' \in [Session -> [video : 0..MaxTake, audio : 0..MaxTake]]
    BY <1>10, RecorderAssumption DEF videoAppend, RecorderAssumption
  <2> QED
    BY <1>10, <2>3, <2>4 DEF videoAppend
<1> QED
  BY <1>1, <1>2, <1>3, <1>4, <1>5, <1>6, <1>7, <1>8, <1>9, <1>10 DEF videoRun

\* The audio thread keeps the types.
LEMMA AudioType ==
  ASSUME NEW i \in Session, IInv, audioRun(i)
  PROVE  TypeOK'
<1> USE DEF IInv, TypeOK, AudioPc, audioGoto, audioFrame, caller
<1>1. CASE audioLoop(i)
  <2>1. PICK pc \in {"read", "encode", "ended"} : audioPc' = [audioPc EXCEPT ![i] = pc]
    BY <1>1 DEF audioLoop
  <2>2. audioPc' \in [Session -> AudioPc]
    BY <2>1
  <2> QED
    BY <1>1, <2>2 DEF audioLoop
<1>2. CASE audioRead(i)
  BY <1>2 DEF audioRead
<1>3. CASE audioEncode(i)
  <2>1. PICK pc \in {"write", "loop", "ended"} : audioPc' = [audioPc EXCEPT ![i] = pc]
    BY <1>3 DEF audioEncode
  <2>2. audioPc' \in [Session -> AudioPc]
    BY <2>1
  <2>3. packet' \in [Session -> [video : 0..MaxTake, audio : 0..MaxTake]]
    BY <1>3 DEF audioEncode
  <2> QED
    BY <1>3, <2>2, <2>3 DEF audioEncode
<1>4. CASE audioLock(i)
  <2>1. audioPc' \in [Session -> AudioPc]
    BY <1>4 DEF audioLock
  <2>2. writeMutex' \in ({"video", "audio"} \X Session) \cup {NoThread}
    BY <1>4 DEF audioLock
  <2> QED
    BY <1>4, <2>1, <2>2 DEF audioLock
<1>5. CASE audioAppend(i)
  <2>1. countForeign(writeHandle.foreignAudio, packet[i].audio) \in 0..2
    BY ForeignType DEF Handle
  <2>2. writeHandle' \in Handle
    BY <1>5, <2>1 DEF audioAppend, Handle
  <2>3. packet' \in [Session -> [video : 0..MaxTake, audio : 0..MaxTake]]
    BY <1>5, RecorderAssumption DEF audioAppend, RecorderAssumption
  <2> QED
    BY <1>5, <2>2, <2>3 DEF audioAppend
<1> QED
  BY <1>1, <1>2, <1>3, <1>4, <1>5 DEF audioRun

-----------------------------------------------------------------------------
(***************************************************************************)
(* The protocol between the threads                                        *)
(***************************************************************************)

\* The client's calls keep the protocol.
LEMMA CallerProtocol ==
  ASSUME IInv, callerCall \/ callerStep
  PROVE  Protocol'
<1> USE DEF IInv, Protocol, LockOwner, ThreadsNested, ClosedQuiet, WritersInTake,
          CloseInvalidates, OpenedPending, HandleInTake, TypeOK, live, videoWriting,
          audioWriting, Session, callerGoto, setState, shared,
          threads, history, NULL
<1>1. CASE openCheck
  BY <1>1 DEF openCheck
<1>2. CASE openSet
  BY <1>2 DEF openSet
<1>3. CASE openNewID
  <2>1. ClosedQuiet'
    BY <1>3, RecorderAssumption DEF openNewID
  <2>2. LockOwner'
    BY <1>3 DEF openNewID
  <2>3. ThreadsNested'
    BY <1>3 DEF openNewID
  <2>4. WritersInTake'
    BY <1>3 DEF openNewID
  <2>5. CloseInvalidates'
    BY <1>3 DEF openNewID
  <2>6. OpenedPending'
    BY <1>3 DEF openNewID
  <2>7. HandleInTake'
    BY <1>3 DEF openNewID
  <2> QED
    BY <2>1, <2>2, <2>3, <2>4, <2>5, <2>6, <2>7
<1>4. CASE openSpawn
  BY <1>4 DEF openSpawn
<1>5. CASE startCheck
  BY <1>5 DEF startCheck
<1>6. CASE startSet
  BY <1>6 DEF startSet
<1>7. CASE stopCheck
  BY <1>7 DEF stopCheck
<1>8. CASE stopSet
  BY <1>8 DEF stopSet
<1>9. CASE closeCheck
  BY <1>9 DEF closeCheck
<1>10. CASE closeInvalidate
  BY <1>10 DEF closeInvalidate
<1>11. CASE closeStop
  BY <1>11 DEF closeStop
<1>12. CASE closeSet
  BY <1>12 DEF closeSet
<1>13. CASE destroyClear
  BY <1>13 DEF destroyClear
<1>14. CASE destroyClose
  BY <1>14 DEF destroyClose
<1>15. CASE destroyJoin
  BY <1>15 DEF destroyJoin
<1>16. ASSUME NEW p \in Path, startPath(p) PROVE Protocol'
  BY <1>16 DEF startPath
<1>17. ASSUME NEW save \in BOOLEAN, stopFree(save) PROVE Protocol'
  <2>1. WritersInTake'
    BY <1>17, Owners DEF stopFree
  <2>2. LockOwner'
    BY <1>17 DEF stopFree
  <2>3. ThreadsNested'
    BY <1>17 DEF stopFree
  <2>4. ClosedQuiet'
    BY <1>17 DEF stopFree
  <2>5. CloseInvalidates'
    BY <1>17 DEF stopFree
  <2>6. OpenedPending'
    BY <1>17 DEF stopFree
  <2>7. HandleInTake'
    BY <1>17 DEF stopFree
  <2> QED
    BY <2>1, <2>2, <2>3, <2>4, <2>5, <2>6, <2>7
<1> QED
  BY <1>1, <1>2, <1>3, <1>4, <1>5, <1>6, <1>7, <1>8, <1>9, <1>10, <1>11, <1>12, <1>13, <1>14, <1>15, <1>16, <1>17 DEF callerCall, callerStep

\* The run thread keeps the protocol.
LEMMA RunProtocol ==
  ASSUME NEW i \in Session, IInv, run(i)
  PROVE  Protocol'
<1> USE DEF IInv, Protocol, LockOwner, ThreadsNested, ClosedQuiet, WritersInTake,
          CloseInvalidates, OpenedPending, HandleInTake, TypeOK, live, videoWriting,
          audioWriting, Session, runGoto, runFrame, setState,
          isNewestValid, caller
<1>1. CASE runStart(i)
  BY <1>1 DEF runStart
<1>2. CASE runInitVideo(i)
  BY <1>2 DEF runInitVideo
<1>3. CASE runInitAudio(i)
  BY <1>3 DEF runInitAudio
<1>4. CASE runSpawn(i)
  BY <1>4 DEF runSpawn
<1>5. CASE runJoinVideo(i)
  <2>1. ThreadsNested'
    <3>1. PICK pc \in {"join_audio", "close"} :
            runPc' = [runPc EXCEPT ![i] = pc] /\ (AudioEnable => pc = "join_audio")
      BY <1>5 DEF runJoinVideo
    <3> QED
      BY <1>5, <3>1 DEF runJoinVideo
  <2>2. LockOwner'
    BY <1>5 DEF runJoinVideo
  <2>3. ClosedQuiet'
    BY <1>5 DEF runJoinVideo
  <2>4. WritersInTake'
    BY <1>5 DEF runJoinVideo
  <2>5. CloseInvalidates'
    BY <1>5 DEF runJoinVideo
  <2>6. OpenedPending'
    BY <1>5 DEF runJoinVideo
  <2>7. HandleInTake'
    BY <1>5 DEF runJoinVideo
  <2> QED
    BY <2>1, <2>2, <2>3, <2>4, <2>5, <2>6, <2>7
<1>6. CASE runJoinAudio(i)
  BY <1>6 DEF runJoinAudio
<1>7. CASE runReport(i)
  BY <1>7 DEF runReport
<1>8. CASE runClosed(i)
  BY <1>8 DEF runClosed
<1>9. CASE runEnd(i)
  BY <1>9 DEF runEnd
<1> QED
  BY <1>1, <1>2, <1>3, <1>4, <1>5, <1>6, <1>7, <1>8, <1>9 DEF run

\* The video thread keeps the protocol.
LEMMA VideoProtocol ==
  ASSUME NEW i \in Session, IInv, videoRun(i)
  PROVE  Protocol'
<1> USE DEF IInv, Protocol, LockOwner, ThreadsNested, ClosedQuiet, WritersInTake,
          CloseInvalidates, OpenedPending, HandleInTake, TypeOK, live, videoWriting,
          audioWriting, Session, videoGoto, videoFrame, noWrite,
          setState, isNewestValid, mayWrite, caller
<1>1. CASE videoLoop(i)
  BY <1>1 DEF videoLoop
<1>2. CASE videoRead(i)
  BY <1>2 DEF videoRead
<1>3. CASE videoPreview(i)
  BY <1>3 DEF videoPreview
<1>4. CASE videoCheckOpening(i)
  BY <1>4 DEF videoCheckOpening
<1>5. CASE videoSetOpened(i)
  BY <1>5 DEF videoSetOpened
<1>6. CASE videoShow(i)
  BY <1>6 DEF videoShow
<1>7. CASE videoEncode(i)
  <2>1. LockOwner' /\ OpenedPending'
    <3>1. PICK pc \in {"write", "loop", "ended"} : videoPc' = [videoPc EXCEPT ![i] = pc]
      BY <1>7 DEF videoEncode
    <3> QED
      BY <1>7, <3>1 DEF videoEncode
  <2>2. ThreadsNested'
    BY <1>7 DEF videoEncode
  <2>3. ClosedQuiet'
    BY <1>7 DEF videoEncode
  <2>4. WritersInTake'
    BY <1>7 DEF videoEncode
  <2>5. CloseInvalidates'
    BY <1>7 DEF videoEncode
  <2>6. HandleInTake'
    BY <1>7 DEF videoEncode
  <2> QED
    BY <2>1, <2>2, <2>3, <2>4, <2>5, <2>6
<1>8. CASE videoLock(i)
  <2>1. LockOwner'
    <3>1. CASE mayWrite(i)
      <4>1. PICK pc \in {"append", "create"} : videoPc' = [videoPc EXCEPT ![i] = pc]
        BY <1>8, <3>1 DEF videoLock
      <4> QED
        BY <1>8, <3>1, <4>1, Owners DEF videoLock
    <3>2. CASE ~mayWrite(i)
      BY <1>8, <3>2, Owners DEF videoLock
    <3> QED
      BY <3>1, <3>2
  <2>2. ThreadsNested'
    BY <1>8 DEF videoLock
  <2>3. ClosedQuiet'
    BY <1>8 DEF videoLock
  <2>4. WritersInTake'
    BY <1>8 DEF videoLock
  <2>5. CloseInvalidates'
    BY <1>8 DEF videoLock
  <2>6. OpenedPending'
    BY <1>8 DEF videoLock
  <2>7. HandleInTake'
    BY <1>8 DEF videoLock
  <2> QED
    BY <2>1, <2>2, <2>3, <2>4, <2>5, <2>6, <2>7
<1>9. CASE videoCreate(i)
  <2>1. LockOwner'
    <3>1. writeMutex = <<"video", i>> /\ UNCHANGED audioPc
      BY <1>9 DEF videoCreate
    <3>2. CASE writeMutex' = NoThread /\ videoPc' = [videoPc EXCEPT ![i] = "loop"]
      BY <1>9, <3>1, <3>2, Owners
    <3>3. CASE UNCHANGED writeMutex /\ videoPc' = [videoPc EXCEPT ![i] = "append"]
      BY <1>9, <3>1, <3>3, Owners
    <3> QED
      BY <1>9, <3>2, <3>3 DEF videoCreate
  <2>2. ThreadsNested'
    BY <1>9 DEF videoCreate, NULL
  <2>3. ClosedQuiet'
    BY <1>9 DEF videoCreate, NULL
  <2>4. WritersInTake'
    BY <1>9 DEF videoCreate, NULL
  <2>5. CloseInvalidates'
    BY <1>9 DEF videoCreate, NULL
  <2>6. OpenedPending'
    <3>1. PICK pc \in {"append", "loop"} : videoPc' = [videoPc EXCEPT ![i] = pc]
      BY <1>9 DEF videoCreate
    <3>2. UNCHANGED <<state, callerPc, take>>
      BY <1>9 DEF videoCreate
    <3> QED
      BY <3>1, <3>2
  <2>7. HandleInTake'
    <3>1. CASE UNCHANGED writeHandle
      BY <1>9, <3>1 DEF videoCreate
    <3>2. CASE writeHandle' = [NULL EXCEPT !.isOpen = TRUE, !.path = path, !.take = take]
      <4>1. writeHandle'.take = take /\ writeHandle'.path = path
        BY <3>2 DEF NULL
      <4>2. videoPc[i] = "create" /\ UNCHANGED <<state, callerPc, take, path, orphan>>
        BY <1>9 DEF videoCreate
      <4>3. state = "Recording" \/ callerPc = "stop_free"
        BY <4>2
      <4> QED
        BY <4>1, <4>2, <4>3
    <3> QED
      BY <1>9, <3>1, <3>2 DEF videoCreate
  <2> QED
    BY <2>1, <2>2, <2>3, <2>4, <2>5, <2>6, <2>7
<1>10. CASE videoAppend(i)
  BY <1>10 DEF videoAppend, NoThread
<1> QED
  BY <1>1, <1>2, <1>3, <1>4, <1>5, <1>6, <1>7, <1>8, <1>9, <1>10 DEF videoRun

\* The audio thread keeps the protocol.
LEMMA AudioProtocol ==
  ASSUME NEW i \in Session, IInv, audioRun(i)
  PROVE  Protocol'
<1> USE DEF IInv, Protocol, LockOwner, ThreadsNested, ClosedQuiet, WritersInTake,
          CloseInvalidates, OpenedPending, HandleInTake, TypeOK, live, videoWriting,
          audioWriting, Session, audioGoto, audioFrame,
          isNewestValid, mayWrite, caller
<1>1. CASE audioLoop(i)
  <2>1. LockOwner'
    BY <1>1 DEF audioLoop
  <2>2. ThreadsNested'
    BY <1>1 DEF audioLoop
  <2>3. ClosedQuiet'
    BY <1>1 DEF audioLoop
  <2>4. WritersInTake'
    BY <1>1 DEF audioLoop
  <2>5. CloseInvalidates'
    BY <1>1 DEF audioLoop
  <2>6. OpenedPending'
    BY <1>1 DEF audioLoop
  <2>7. HandleInTake'
    BY <1>1 DEF audioLoop
  <2> QED
    BY <2>1, <2>2, <2>3, <2>4, <2>5, <2>6, <2>7
<1>2. CASE audioRead(i)
  BY <1>2 DEF audioRead
<1>3. CASE audioEncode(i)
  <2>1. LockOwner'
    <3>1. PICK pc \in {"write", "loop", "ended"} : audioPc' = [audioPc EXCEPT ![i] = pc]
      BY <1>3 DEF audioEncode
    <3> QED
      BY <1>3, <3>1 DEF audioEncode
  <2>2. ThreadsNested'
    BY <1>3 DEF audioEncode
  <2>3. ClosedQuiet'
    BY <1>3 DEF audioEncode
  <2>4. WritersInTake'
    BY <1>3 DEF audioEncode
  <2>5. CloseInvalidates'
    BY <1>3 DEF audioEncode
  <2>6. OpenedPending'
    BY <1>3 DEF audioEncode
  <2>7. HandleInTake'
    BY <1>3 DEF audioEncode
  <2> QED
    BY <2>1, <2>2, <2>3, <2>4, <2>5, <2>6, <2>7
<1>4. CASE audioLock(i)
  <2>1. LockOwner'
    <3>1. audioPc[i] = "write" /\ writeMutex = NoThread /\ UNCHANGED videoPc
      BY <1>4 DEF audioLock
    <3>2. CASE writeMutex' = <<"audio", i>> /\ audioPc' = [audioPc EXCEPT ![i] = "append"]
      BY <3>1, <3>2, Owners
    <3>3. CASE UNCHANGED writeMutex /\ audioPc' = [audioPc EXCEPT ![i] = "loop"]
      BY <3>1, <3>3, Owners
    <3> QED
      BY <1>4, <3>2, <3>3 DEF audioLock
  <2>2. ThreadsNested'
    BY <1>4 DEF audioLock
  <2>3. ClosedQuiet'
    BY <1>4 DEF audioLock
  <2>4. WritersInTake'
    BY <1>4 DEF audioLock
  <2>5. CloseInvalidates'
    BY <1>4 DEF audioLock
  <2>6. OpenedPending'
    BY <1>4 DEF audioLock
  <2>7. HandleInTake'
    BY <1>4 DEF audioLock
  <2> QED
    BY <2>1, <2>2, <2>3, <2>4, <2>5, <2>6, <2>7
<1>5. CASE audioAppend(i)
  BY <1>5 DEF audioAppend, NoThread
<1> QED
  BY <1>1, <1>2, <1>3, <1>4, <1>5 DEF audioRun

-----------------------------------------------------------------------------
(***************************************************************************)
(* The theorems                                                            *)
(***************************************************************************)

\* IInv holds initially ...
LEMMA InitInv == Init => IInv
<1> SUFFICES ASSUME Init PROVE IInv
  OBVIOUS
<1>1. TypeOK
  <2>1. path \in Path /\ writeHandle \in Handle
    BY NullType DEF Init, Handle
  <2>2. /\ runPc \in [Session -> RunPc]
        /\ videoPc \in [Session -> VideoPc] /\ audioPc \in [Session -> AudioPc]
    BY DEF Init, RunPc, VideoPc, AudioPc
  <2>3. packet \in [Session -> [video : 0..MaxTake, audio : 0..MaxTake]]
    BY RecorderAssumption DEF Init
  <2>4. files \in [Path -> {"absent", "partial", "saved"}]
    BY DEF Init
  <2>5. /\ state \in State /\ validID \in Nat
        /\ mainThread \in 0..MaxID /\ take \in 0..MaxTake /\ callerPc \in CallerPc
    BY <2>1, RecorderAssumption DEF Init, State, CallerPc
  <2>6. writeMutex \in ({"video", "audio"} \X Session) \cup {NoThread}
    BY DEF Init
  <2>7. /\ blocks \in BOOLEAN /\ inClose \in BOOLEAN
        /\ aborted \in BOOLEAN /\ orphan \in BOOLEAN
    BY DEF Init
  <2> QED
    BY <2>1, <2>2, <2>3, <2>4, <2>5, <2>6, <2>7 DEF TypeOK
<1>2. Protocol
  BY Owners, RecorderAssumption DEF Init, Protocol, LockOwner, ThreadsNested, ClosedQuiet,
     WritersInTake, CloseInvalidates, OpenedPending, HandleInTake, videoWriting, audioWriting,
     live, NULL
<1> QED
  BY <1>1, <1>2 DEF IInv

\* ... and every step of every thread preserves it.
LEMMA StepInv == IInv /\ [Next]_vars => IInv'
<1> SUFFICES ASSUME IInv, [Next]_vars PROVE IInv'
  OBVIOUS
<1>1. CASE callerCall \/ callerStep
  BY <1>1, CallerType, CallerProtocol DEF IInv
<1>2. ASSUME NEW i \in Session, run(i) PROVE IInv'
  BY <1>2, RunType, RunProtocol DEF IInv
<1>3. ASSUME NEW i \in Session, videoRun(i) PROVE IInv'
  BY <1>3, VideoType, VideoProtocol DEF IInv
<1>4. ASSUME NEW i \in Session, audioRun(i) PROVE IInv'
  BY <1>4, AudioType, AudioProtocol DEF IInv
<1>5. ASSUME UNCHANGED <<shared, caller, runPc, videoPc, audioPc, packet, history>>,
             aborted' \in BOOLEAN
      PROVE  IInv'
  BY <1>5 DEF IInv, TypeOK, Protocol, LockOwner, ThreadsNested, ClosedQuiet, WritersInTake,
     CloseInvalidates, OpenedPending, HandleInTake, videoWriting, audioWriting, shared, caller,
     history
<1>6. CASE UNCHANGED vars
  BY <1>5, <1>6 DEF vars, IInv, TypeOK
<1>7. ASSUME NEW i \in Session, isTimeout(i) PROVE IInv'
  BY <1>5, <1>7 DEF isTimeout
<1> QED
  BY <1>1, <1>2, <1>3, <1>4, <1>6, <1>7 DEF Next

\* The threads of the recorder keep to the protocol in every reachable state.
THEOREM Invariance == Spec => []IInv
  BY InitInv, StepInv, PTL DEF Spec

\* Every variable keeps its type.
THEOREM TypeCorrect == Spec => []TypeOK
<1>1. IInv => TypeOK
  BY DEF IInv
<1> QED
  BY <1>1, Invariance, PTL

\* The threads of two sessions are never alive together: open() and the joins
\* of run() are enough, whatever the devices do and whenever calls are made.
THEOREM SessionsAreExclusive == Spec => []OneSession
<1>1. IInv => OneSession
  BY DEF IInv, Protocol, ThreadsNested, OneSession, alive, live
<1> QED
  BY <1>1, Invariance, PTL

\* start() never assigns _path while writeVideo reads it, without a lock.
THEOREM PathIsNotTorn == Spec => []PathNotTorn
<1>1. IInv => PathNotTorn
  BY DEF IInv, Protocol, WritersInTake, OpenedPending, PathNotTorn, videoWriting
<1> QED
  BY <1>1, Invariance, PTL

\* Unless a session died recording, an open writer is that of the current take.
THEOREM WriterIsOfTake == Spec => []WriterOfTake
<1>1. IInv => WriterOfTake
  BY DEF IInv, Protocol, HandleInTake, WriterOfTake
<1> QED
  BY <1>1, Invariance, PTL

\* The destructor returns to a recorder that no thread uses.
THEOREM DestroyedIsQuiet == Spec => []GoneQuiet
<1>1. IInv => GoneQuiet
  BY DEF IInv, Protocol, ThreadsNested, GoneQuiet, alive, live, Session
<1> QED
  BY <1>1, Invariance, PTL

\* open() finds the recorder still Closed when it sets Opening.
THEOREM OpensOnlyFromClosed == Spec => OpenOnlyFromClosed
<1>1. IInv /\ [Next]_vars => [state # "Opening" /\ state' = "Opening" => state = "Closed"]_vars
  <2> SUFFICES ASSUME IInv, Next, state # "Opening", state' = "Opening"
               PROVE  state = "Closed"
    OBVIOUS
  <2>1. CASE callerCall \/ callerStep
    BY <2>1 DEF callerCall, callerStep, openCheck, openSet, openNewID, openSpawn, startCheck,
       startPath, startSet, stopCheck, stopSet, stopFree, closeCheck, closeInvalidate,
       closeStop, closeSet, destroyClear, destroyClose, destroyJoin, setState, shared,
       IInv, Protocol, ClosedQuiet
  <2>2. ASSUME NEW i \in Session, run(i) PROVE FALSE
    BY <2>2 DEF run, runStart, runInitVideo, runInitAudio, runSpawn, runJoinVideo,
       runJoinAudio, runReport, runClosed, runEnd,
       setState
  <2>3. ASSUME NEW i \in Session, videoRun(i) PROVE FALSE
    BY <2>3 DEF videoRun, videoLoop, videoRead, videoPreview, videoCheckOpening,
       videoSetOpened, videoShow, videoEncode, videoLock, videoCreate, videoAppend, setState
  <2>4. ASSUME NEW i \in Session, audioRun(i) \/ isTimeout(i) PROVE FALSE
    BY <2>4 DEF audioRun, audioLoop, audioRead, audioEncode, audioLock, audioAppend,
       audioFrame, isTimeout, shared
  <2> QED
    BY <2>1, <2>2, <2>3, <2>4 DEF Next, vars, shared
<1> QED
  BY <1>1, Invariance, PTL DEF Spec, OpenOnlyFromClosed

\* Between the return of stop() and the next start() nothing reaches a file.
THEOREM WritesOnlyWithinTake == Spec => WritesWithinTake
<1>1. IInv /\ [Next]_vars =>
        [writeHandle' # writeHandle => state = "Recording" \/ callerPc = "stop_free"]_vars
  <2> SUFFICES ASSUME IInv, Next, writeHandle' # writeHandle
               PROVE  state = "Recording" \/ callerPc = "stop_free"
    OBVIOUS
  <2>1. CASE callerCall \/ callerStep
    BY <2>1 DEF callerCall, callerStep, openCheck, openSet, openNewID, openSpawn, startCheck,
       startPath, startSet, stopCheck, stopSet, stopFree, closeCheck, closeInvalidate,
       closeStop, closeSet, destroyClear, destroyClose, destroyJoin, shared
  <2>2. ASSUME NEW i \in Session, run(i) \/ isTimeout(i) PROVE FALSE
    BY <2>2 DEF run, runStart, runInitVideo, runInitAudio, runSpawn, runJoinVideo,
       runJoinAudio, runReport, runClosed, runEnd, runFrame, isTimeout, shared
  <2>3. ASSUME NEW i \in Session, videoRun(i) PROVE videoWriting(i)
    BY <2>3 DEF videoRun, videoLoop, videoRead, videoPreview, videoCheckOpening,
       videoSetOpened, videoShow, videoEncode, videoLock, videoCreate, videoAppend, noWrite,
       videoWriting
  <2>4. ASSUME NEW i \in Session, audioRun(i) PROVE audioWriting(i)
    BY <2>4 DEF audioRun, audioLoop, audioRead, audioEncode, audioLock, audioAppend,
       audioWriting
  <2>5. \A i \in Session : videoWriting(i) \/ audioWriting(i)
          => state = "Recording" \/ callerPc = "stop_free"
    BY DEF IInv, Protocol, WritersInTake
  <2> QED
    BY <2>1, <2>2, <2>3, <2>4, <2>5 DEF Next, vars, shared
<1> QED
  BY <1>1, Invariance, PTL DEF Spec, WritesWithinTake

-----------------------------------------------------------------------------
(***************************************************************************)
(* Packets of another take.  A packet waits for the lock or is being       *)
(* written; one that waits across a stop() and a start() is foreign to the *)
(* file it gets into.  Its thread encodes the next one within the take, so *)
(* once a track holds a foreign packet no foreign packet of it waits.      *)
(***************************************************************************)

videoPending(i) == videoPc[i] \in {"write", "create", "append"}
audioPending(i) == audioPc[i] \in {"write", "append"}

\* Only an open writer is appended to, and a writer starts without foreign packets.
AppendsToOpen ==
  /\ \A i \in Session : videoPc[i] = "append" \/ audioPc[i] = "append" => writeHandle.isOpen
  /\ ~writeHandle.isOpen => writeHandle.foreignVideo = 0 /\ writeHandle.foreignAudio = 0

ForeignOnce ==
  ~orphan =>
    /\ writeHandle.foreignVideo <= 1 /\ writeHandle.foreignAudio <= 1
    /\ writeHandle.foreignVideo = 1 =>
         \A i \in Session : videoPending(i) => packet[i].video = writeHandle.take
    /\ writeHandle.foreignAudio = 1 =>
         \A i \in Session : audioPending(i) => packet[i].audio = writeHandle.take

Foreign == AppendsToOpen /\ ForeignOnce

\* The client's calls change the writer only to release it, when no thread writes.
LEMMA CallerForeign ==
  ASSUME IInv, Foreign, callerCall \/ callerStep
  PROVE  Foreign'
<1>1. UNCHANGED <<videoPc, audioPc, packet, orphan>>
  BY DEF callerCall, callerStep, openCheck, openSet, openNewID, openSpawn, startCheck,
     startPath, startSet, stopCheck, stopSet, stopFree, closeCheck, closeInvalidate,
     closeStop, closeSet, destroyClear, destroyClose, destroyJoin, threads, history
<1>2. CASE writeHandle' = writeHandle
  BY <1>1, <1>2 DEF Foreign, AppendsToOpen, ForeignOnce, videoPending, audioPending
<1>3. CASE writeHandle' # writeHandle
  <2>1. writeHandle' = NULL /\ writeMutex = NoThread
    BY <1>3 DEF callerCall, callerStep, openCheck, openSet, openNewID, openSpawn, startCheck,
       startPath, startSet, stopCheck, stopSet, stopFree, closeCheck, closeInvalidate,
       closeStop, closeSet, destroyClear, destroyClose, destroyJoin, shared
  <2>2. \A i \in Session : videoPc[i] # "append" /\ audioPc[i] # "append"
    BY <2>1, Owners DEF IInv, Protocol, LockOwner, videoWriting, audioWriting
  <2> QED
    BY <1>1, <2>1, <2>2 DEF NULL, Foreign, AppendsToOpen, ForeignOnce
<1> QED
  BY <1>2, <1>3

\* The main thread of a session leaves the writer alone; it may orphan it.
LEMMA RunForeign ==
  ASSUME NEW i \in Session, IInv, Foreign, run(i)
  PROVE  Foreign'
<1>0. UNCHANGED <<writeHandle, packet>>
  BY DEF run, runStart, runInitVideo, runInitAudio, runSpawn, runJoinVideo, runJoinAudio,
     runReport, runClosed, runEnd, runFrame
<1>1. ~orphan' => ~orphan
  <2>1. orphan' = orphan \/ orphan' = (orphan \/ writeHandle.isOpen)
    BY DEF run, runStart, runInitVideo, runInitAudio, runSpawn, runJoinVideo, runJoinAudio,
       runReport, runClosed, runEnd
  <2> QED
    BY <2>1, Zenon
<1>2. /\ videoPc' = videoPc \/ videoPc' = [videoPc EXCEPT ![i] = "loop"]
      /\ audioPc' = audioPc \/ audioPc' = [audioPc EXCEPT ![i] = "loop"]
  BY DEF run, runStart, runInitVideo, runInitAudio, runSpawn, runJoinVideo, runJoinAudio,
     runReport, runClosed, runEnd, runFrame
<1>3. \A j \in Session : /\ videoPc'[j] = videoPc[j] \/ videoPc'[j] = "loop"
                         /\ audioPc'[j] = audioPc[j] \/ audioPc'[j] = "loop"
  BY <1>2 DEF IInv, TypeOK
<1> QED
  BY <1>0, <1>1, <1>3 DEF Foreign, AppendsToOpen, ForeignOnce, videoPending, audioPending

\* A video thread takes a packet for the take that is on, and leaves the pending
\* packets when it wrote it.
LEMMA VideoForeign ==
  ASSUME NEW i \in Session, IInv, Foreign, videoRun(i)
  PROVE  Foreign'
<1> USE DEF Foreign, AppendsToOpen, ForeignOnce, videoPending, audioPending
<1>0. /\ videoPc \in [Session -> VideoPc] /\ writeHandle \in Handle
      /\ packet \in [Session -> [video : 0..MaxTake, audio : 0..MaxTake]]
      /\ orphan' = orphan /\ audioPc' = audioPc
  BY DEF IInv, TypeOK, videoRun, videoLoop, videoRead, videoPreview, videoCheckOpening,
     videoSetOpened, videoShow, videoEncode, videoLock, videoCreate, videoAppend, videoFrame
<1>1. CASE /\ UNCHANGED <<writeHandle, packet>>
           /\ \E pc \in VideoPc \ {"write", "create", "append"} :
                videoPc' = [videoPc EXCEPT ![i] = pc]
  BY <1>0, <1>1
<1>2. CASE videoLoop(i) \/ videoRead(i) \/ videoPreview(i) \/ videoCheckOpening(i)
           \/ videoSetOpened(i) \/ videoShow(i)
  <2>1. UNCHANGED <<writeHandle, packet>>
    BY <1>2 DEF videoLoop, videoRead, videoPreview, videoCheckOpening, videoSetOpened,
       videoShow, noWrite
  <2>2. PICK pc \in {"read", "ended", "preview", "loop", "check_opening", "encode",
                     "set_opened", "show"} : videoPc' = [videoPc EXCEPT ![i] = pc]
    BY <1>2 DEF videoLoop, videoRead, videoPreview, videoCheckOpening, videoSetOpened,
       videoShow, videoGoto
  <2> QED
    BY <1>1, <2>1, <2>2 DEF VideoPc
<1>3. CASE videoEncode(i)
  <2>1. UNCHANGED writeHandle
    BY <1>3 DEF videoEncode, noWrite
  <2>2. CASE UNCHANGED packet /\ \E pc \in {"loop", "ended"} : videoPc' = [videoPc EXCEPT ![i] = pc]
    BY <1>1, <2>1, <2>2 DEF VideoPc
  <2>3. CASE /\ state = "Recording"
             /\ videoPc' = [videoPc EXCEPT ![i] = "write"]
             /\ packet' = [packet EXCEPT ![i].video = take]
    <3>1. /\ packet'[i].video = take /\ videoPc'[i] = "write"
          /\ \A j \in Session : /\ packet'[j].audio = packet[j].audio
                                /\ j # i => packet'[j] = packet[j] /\ videoPc'[j] = videoPc[j]
      BY <1>0, <2>3
    <3>2. writeHandle.isOpen /\ ~orphan => writeHandle.take = take
      BY DEF IInv, Protocol, HandleInTake
    <3> QED
      BY <1>0, <2>1, <3>1, <3>2
  <2> QED
    BY <1>3, <2>2, <2>3 DEF videoEncode, videoGoto
<1>4. CASE videoLock(i)
  <2>1. UNCHANGED <<writeHandle, packet>> /\ videoPc[i] = "write"
    BY <1>4 DEF videoLock
  <2>2. PICK pc \in VideoPc : videoPc' = [videoPc EXCEPT ![i] = pc] /\ (pc = "append" => writeHandle.isOpen)
    BY <1>4 DEF videoLock, videoGoto, VideoPc
  <2> QED
    BY <1>0, <2>1, <2>2
<1>5. CASE videoCreate(i)
  <2>1. packet' = packet /\ videoPc[i] = "create"
    BY <1>5 DEF videoCreate
  <2>2. CASE writeHandle' = writeHandle /\ videoPc' = [videoPc EXCEPT ![i] = "loop"]
    BY <1>1, <2>1, <2>2 DEF VideoPc
  <2>3. CASE /\ writeHandle' = [NULL EXCEPT !.isOpen = TRUE, !.path = path, !.take = take]
             /\ videoPc' = [videoPc EXCEPT ![i] = "append"]
    <3>1. writeHandle'.isOpen /\ writeHandle'.foreignVideo = 0 /\ writeHandle'.foreignAudio = 0
      BY <2>3 DEF NULL
    <3> QED
      BY <3>1
  <2> QED
    BY <1>5, <2>2, <2>3 DEF videoCreate, videoGoto, noWrite
<1>6. CASE videoAppend(i)
  <2>1. /\ videoPc[i] = "append" /\ videoPc' = [videoPc EXCEPT ![i] = "loop"]
        /\ packet' = [packet EXCEPT ![i].video = 0]
    BY <1>6 DEF videoAppend, videoGoto
  <2>2. \A j \in Session : j # i => ~videoPending(j)
    BY <2>1 DEF IInv, Protocol, ThreadsNested, live
  <2>3. \A j \in Session : ~videoPending(j)' /\ packet'[j].audio = packet[j].audio
    BY <1>0, <2>1, <2>2
  <2>4. /\ writeHandle'.isOpen = writeHandle.isOpen /\ writeHandle'.take = writeHandle.take
        /\ writeHandle'.foreignAudio = writeHandle.foreignAudio
        /\ \/ writeHandle'.foreignVideo = writeHandle.foreignVideo
           \/ writeHandle'.foreignVideo = countForeign(writeHandle.foreignVideo, packet[i].video)
    BY <1>0, <1>6 DEF videoAppend, Handle
  <2>5. ~orphan => writeHandle'.foreignVideo <= 1
    <3>1. writeHandle.foreignVideo \in 0..2
      BY <1>0 DEF Handle
    <3>2. CASE writeHandle.foreignVideo = 1
      BY <2>1, <2>4, <3>2 DEF countForeign
    <3>3. CASE writeHandle.foreignVideo = 0
      BY <2>4, <3>3 DEF countForeign
    <3> QED
      BY <3>1, <3>2, <3>3
  <2> QED
    BY <1>0, <2>1, <2>3, <2>4, <2>5
<1> QED
  BY <1>2, <1>3, <1>4, <1>5, <1>6 DEF videoRun

\* So does an audio thread.
LEMMA AudioForeign ==
  ASSUME NEW i \in Session, IInv, Foreign, audioRun(i)
  PROVE  Foreign'
<1> USE DEF Foreign, AppendsToOpen, ForeignOnce, videoPending, audioPending
<1>0. /\ audioPc \in [Session -> AudioPc] /\ writeHandle \in Handle
      /\ packet \in [Session -> [video : 0..MaxTake, audio : 0..MaxTake]]
      /\ orphan' = orphan /\ videoPc' = videoPc
  BY DEF IInv, TypeOK, audioRun, audioLoop, audioRead, audioEncode, audioLock, audioAppend,
     audioFrame
<1>1. ASSUME UNCHANGED <<writeHandle, packet>>,
             NEW pc \in {"loop", "read", "encode", "ended"}, audioPc' = [audioPc EXCEPT ![i] = pc]
      PROVE  Foreign'
  BY <1>0, <1>1
<1>2. CASE audioLoop(i) \/ audioRead(i)
  <2>1. UNCHANGED <<writeHandle, packet>>
    BY <1>2 DEF audioLoop, audioRead
  <2>2. \E pc \in {"loop", "read", "encode", "ended"} : audioPc' = [audioPc EXCEPT ![i] = pc]
    BY <1>2 DEF audioLoop, audioRead, audioGoto
  <2> QED
    BY <1>1, <2>1, <2>2
<1>3. CASE audioEncode(i)
  <2>1. UNCHANGED writeHandle
    BY <1>3 DEF audioEncode
  <2>2. CASE UNCHANGED packet /\ \E pc \in {"loop", "ended"} : audioPc' = [audioPc EXCEPT ![i] = pc]
    BY <1>1, <2>1, <2>2
  <2>3. CASE /\ state = "Recording"
             /\ audioPc' = [audioPc EXCEPT ![i] = "write"]
             /\ packet' = [packet EXCEPT ![i].audio = take]
    <3>1. /\ packet'[i].audio = take /\ audioPc'[i] = "write"
          /\ \A j \in Session : /\ packet'[j].video = packet[j].video
                                /\ j # i => packet'[j] = packet[j] /\ audioPc'[j] = audioPc[j]
      BY <1>0, <2>3
    <3>2. writeHandle.isOpen /\ ~orphan => writeHandle.take = take
      BY DEF IInv, Protocol, HandleInTake
    <3> QED
      BY <1>0, <2>1, <3>1, <3>2
  <2> QED
    BY <1>3, <2>2, <2>3 DEF audioEncode, audioGoto
<1>4. CASE audioLock(i)
  <2>1. UNCHANGED <<writeHandle, packet>> /\ audioPc[i] = "write"
    BY <1>4 DEF audioLock
  <2>2. \/ audioPc' = [audioPc EXCEPT ![i] = "loop"]
        \/ audioPc' = [audioPc EXCEPT ![i] = "append"] /\ writeHandle.isOpen
    BY <1>4 DEF audioLock, audioGoto
  <2> QED
    BY <1>0, <2>1, <2>2
<1>5. CASE audioAppend(i)
  <2>1. /\ audioPc[i] = "append" /\ audioPc' = [audioPc EXCEPT ![i] = "loop"]
        /\ packet' = [packet EXCEPT ![i].audio = 0]
    BY <1>5 DEF audioAppend, audioGoto
  <2>2. \A j \in Session : j # i => ~audioPending(j)
    BY <2>1 DEF IInv, Protocol, ThreadsNested, live
  <2>3. \A j \in Session : ~audioPending(j)' /\ packet'[j].video = packet[j].video
    BY <1>0, <2>1, <2>2
  <2>4. /\ writeHandle'.isOpen = writeHandle.isOpen /\ writeHandle'.take = writeHandle.take
        /\ writeHandle'.foreignVideo = writeHandle.foreignVideo
        /\ \/ writeHandle'.foreignAudio = writeHandle.foreignAudio
           \/ writeHandle'.foreignAudio = countForeign(writeHandle.foreignAudio, packet[i].audio)
    BY <1>0, <1>5 DEF audioAppend, Handle
  <2>5. ~orphan => writeHandle'.foreignAudio <= 1
    <3>1. writeHandle.foreignAudio \in 0..2
      BY <1>0 DEF Handle
    <3>2. CASE writeHandle.foreignAudio = 1
      BY <2>1, <2>4, <3>2 DEF countForeign
    <3>3. CASE writeHandle.foreignAudio = 0
      BY <2>4, <3>3 DEF countForeign
    <3> QED
      BY <3>1, <3>2, <3>3
  <2> QED
    BY <1>0, <2>1, <2>3, <2>4, <2>5
<1> QED
  BY <1>2, <1>3, <1>4, <1>5 DEF audioRun

\* However often the client stops and starts again while packets wait, a file
\* gets at most one packet of each track that was encoded for another take.
THEOREM AtMostOneForeign == Spec => []FewForeignPackets
<1>1. Init => Foreign
  BY DEF Init, NULL, Foreign, AppendsToOpen, ForeignOnce
<1>2. IInv /\ Foreign /\ [Next]_vars => Foreign'
  <2> SUFFICES ASSUME IInv, Foreign, [Next]_vars PROVE Foreign'
    OBVIOUS
  <2>1. CASE UNCHANGED <<writeHandle, videoPc, audioPc, packet, orphan>>
    BY <2>1 DEF Foreign, AppendsToOpen, ForeignOnce, videoPending, audioPending
  <2>2. ASSUME NEW i \in Session, isTimeout(i) PROVE Foreign'
    BY <2>1, <2>2 DEF isTimeout, shared, history
  <2> QED
    BY <2>1, <2>2, CallerForeign, RunForeign, VideoForeign, AudioForeign
       DEF Next, vars, shared, history
<1>3. Foreign => FewForeignPackets
  BY DEF Foreign, ForeignOnce, FewForeignPackets
<1> QED
  BY <1>1, <1>2, <1>3, Invariance, PTL DEF Spec
=============================================================================
