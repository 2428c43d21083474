---------------------------- MODULE XXfmRecorder ----------------------------
(***************************************************************************)
(* The camera/microphone recorder of C++/ffmpeg/XXfmRecorder.cpp.          *)
(*                                                                         *)
(* Threads: the client's thread (open, start, stop, close and the          *)
(* destructor, one call at a time), and for every successful open a run    *)
(* thread that opens the devices, spawns a video and an audio thread,      *)
(* joins them and sets the recorder Closed.  A session is named by the     *)
(* value _validID had when it was opened.                                  *)
(*                                                                         *)
(* A step is one access to what the threads share: _state, _validID,       *)
(* _path and _writeHandle.  Only _writeHandle is accessed under            *)
(* _writeMutex, so a check of _state and the assignment it guards are two  *)
(* steps.  Frames are abstracted to what the writer tells apart (a key     *)
(* packet or not) and to the take they were encoded for.                   *)
(***************************************************************************)
EXTENDS Naturals, FiniteSets

CONSTANTS
  Path,           \* the paths a client passes to start()
  AudioEnable,    \* run(): ""!=mic && samplerate>0
  DeviceMayFail,  \* whether opening or reading a device can fail
  MaxID,          \* bound on _validID: no open() that could exceed it
  MaxTake         \* bound on the number of successful start() calls

ASSUME RecorderAssumption ==
  /\ Path # {}
  /\ AudioEnable \in BOOLEAN /\ DeviceMayFail \in BOOLEAN
  /\ MaxID \in Nat \ {0} /\ MaxTake \in Nat

VARIABLES
  state, validID, path, writeHandle, writeMutex,  \* the members of the class
  mainThread,  \* the session whose run thread _mainThread holds, 0 for nullptr
  blocks,      \* the client's callbacks are installed
  callerPc, inClose,                              \* the client's call
  runPc, videoPc, audioPc,                        \* the threads of each session
  packet,      \* the take each video or audio thread's packet was encoded for
  aborted,     \* the process was terminated (uncaught exception, NULL access)
  take,        \* number of takes started so far (history)
  files,       \* what is on disk
  orphan       \* a session ended with the writer left open (history)

shared == <<state, validID, path, writeHandle, writeMutex, mainThread, blocks>>
caller == <<callerPc, inClose>>
history == <<take, files, orphan>>
vars == <<shared, caller, runPc, videoPc, audioPc, packet, aborted, history>>

Session == 1..MaxID
State == {"Closed", "Opening", "Opened", "Recording", "Closing"}
NoThread == <<"none", 0>>

\* An XXfmMp4WriterContext, as far as the recorder can tell: the file it was
\* created for, whether the mp4 header is written, and (history) the take it
\* was created in and how many packets of other takes each track received.
Handle == [isOpen : BOOLEAN, path : Path, take : 0..MaxTake,
           isInited : BOOLEAN, foreignVideo : 0..2, foreignAudio : 0..2]
NULL == [isOpen |-> FALSE, path |-> CHOOSE p \in Path : TRUE, take |-> 0,
         isInited |-> FALSE, foreignVideo |-> 0, foreignAudio |-> 0]

Init ==
  /\ state = "Closed" /\ validID = 0
  /\ path = NULL.path     \* "", not read before the first start()
  /\ writeHandle = NULL /\ writeMutex = NoThread
  /\ mainThread = 0 /\ blocks = TRUE
  /\ callerPc = "idle" /\ inClose = FALSE
  /\ runPc = [i \in Session |-> "none"]
  /\ videoPc = [i \in Session |-> "none"]
  /\ audioPc = [i \in Session |-> "none"]
  /\ packet = [i \in Session |-> [video |-> 0, audio |-> 0]]
  /\ aborted = FALSE
  /\ take = 0 /\ files = [p \in Path |-> "absent"] /\ orphan = FALSE

isNewestValid(i) == validID = i     \* IS_NEWSET_VALID
setState(s) == state' = s
live(pc) == pc \notin {"none", "ended"}

threads == <<runPc, videoPc, audioPc, packet, aborted>>

(***************************************************************************)
(* The client's calls                                                      *)
(***************************************************************************)

callerGoto(pc) == callerPc' = pc

openCheck ==
  /\ callerPc = "idle" /\ state = "Closed"
  /\ validID < MaxID
  /\ callerGoto("open_set")
  /\ UNCHANGED <<shared, inClose, threads, history>>

openSet ==
  /\ callerPc = "open_set"
  /\ setState("Opening") /\ callerGoto("open_id")
  /\ UNCHANGED <<validID, path, writeHandle, writeMutex, mainThread, blocks,
                 inClose, threads, history>>

openNewID ==
  /\ callerPc = "open_id"
  /\ validID' = validID + 1 /\ callerGoto("open_join")
  /\ UNCHANGED <<state, path, writeHandle, writeMutex, mainThread, blocks,
                 inClose, threads, history>>

\* Variant: the previous run thread is not joined.
openSpawn_NoJoin ==
  /\ callerPc = "open_join"
  /\ mainThread' = validID
  /\ runPc' = [runPc EXCEPT ![validID] = "start"]
  /\ callerGoto("idle")
  /\ UNCHANGED <<state, validID, path, writeHandle, writeMutex, blocks,
                 inClose, videoPc, audioPc, packet, aborted, history>>

\* Joins the previous run thread, then starts the new one.
openSpawn ==
  /\ callerPc = "open_join"
  /\ mainThread # 0 => runPc[mainThread] = "ended"
  /\ mainThread' = validID
  /\ runPc' = [runPc EXCEPT ![validID] = "start"]
  /\ callerGoto("idle")
  /\ UNCHANGED <<state, validID, path, writeHandle, writeMutex, blocks,
                 inClose, videoPc, audioPc, packet, aborted,
                 history>>

startCheck ==
  /\ callerPc = "idle" /\ state = "Opened"
  /\ take < MaxTake
  /\ callerGoto("start_path")
  /\ UNCHANGED <<shared, inClose, threads, history>>

startPath(p) ==
  /\ callerPc = "start_path"
  /\ path' = p /\ callerGoto("start_set")
  /\ UNCHANGED <<state, validID, writeHandle, writeMutex, mainThread, blocks,
                 inClose, threads, history>>

startSet ==
  /\ callerPc = "start_set"
  /\ setState("Recording") /\ take' = take + 1 /\ callerGoto("idle")
  /\ UNCHANGED <<validID, path, writeHandle, writeMutex, mainThread, blocks,
                 inClose, threads, files, orphan>>

stopCheck ==
  /\ callerPc = "idle" /\ state = "Recording"
  /\ callerGoto("stop_set")
  /\ UNCHANGED <<shared, inClose, threads, history>>

stopSet ==
  /\ callerPc = "stop_set"
  /\ setState("Opened") /\ callerGoto("stop_free")
  /\ UNCHANGED <<validID, path, writeHandle, writeMutex, mainThread, blocks,
                 inClose, threads, history>>

\* Variants: the writer is released without the lock, or only when it is saved.
stopFree_NoLock(save) ==
  /\ inClose => ~save
  /\ callerPc = "stop_free"
  /\ files' = [files EXCEPT ![writeHandle.path] = IF save THEN "saved" ELSE "absent"]
  /\ writeHandle' = NULL
  /\ callerGoto(IF inClose THEN "close_set" ELSE "idle")
  /\ UNCHANGED <<state, validID, path, writeMutex, mainThread, blocks,
                 inClose, threads, take, orphan>>

stopFree_OnlySaved(save) ==
  /\ inClose => ~save
  /\ callerPc = "stop_free" /\ writeMutex = NoThread
  /\ files' = files
  /\ writeHandle' = IF save THEN NULL ELSE writeHandle
  /\ callerGoto(IF inClose THEN "close_set" ELSE "idle")
  /\ UNCHANGED <<state, validID, path, writeMutex, mainThread, blocks,
                 inClose, threads, take, orphan>>

\* freeWriterHandle and xxfmMp4Writer_close under _writeMutex: the file is
\* completed if it is to be saved and has a header, removed otherwise.
stopFree(save) ==
  /\ inClose => ~save
  /\ callerPc = "stop_free" /\ writeMutex = NoThread
  /\ files' = IF writeHandle.isOpen
              THEN [files EXCEPT ![writeHandle.path] =
                      IF save /\ writeHandle.isInited THEN "saved" ELSE "absent"]
              ELSE files
  /\ writeHandle' = NULL
  /\ callerGoto(IF inClose THEN "close_set" ELSE "idle")
  /\ UNCHANGED <<state, validID, path, writeMutex, mainThread, blocks,
                 inClose, threads, take, orphan>>

closeCheck ==
  /\ callerPc = "idle" /\ state \notin {"Closed", "Closing"}
  /\ callerGoto("close_id")
  /\ UNCHANGED <<shared, inClose, threads, history>>

\* Variant: close() does not invalidate the session.
closeInvalidate_Skip ==
  /\ callerPc = "close_id"
  /\ callerGoto("close_stop")
  /\ UNCHANGED <<shared, inClose, threads, history>>

closeInvalidate ==
  /\ callerPc = "close_id"
  /\ validID' = validID + 1 /\ callerGoto("close_stop")
  /\ UNCHANGED <<state, path, writeHandle, writeMutex, mainThread, blocks,
                 inClose, threads, history>>

closeStop ==
  /\ callerPc = "close_stop"
  /\ inClose' = TRUE
  /\ callerGoto(IF state = "Recording" THEN "stop_set" ELSE "close_set")
  /\ UNCHANGED <<shared, threads, history>>

closeSet ==
  /\ callerPc = "close_set"
  /\ setState("Closing") /\ inClose' = FALSE
  /\ callerGoto(IF blocks THEN "idle" ELSE "destroy_join")
  /\ UNCHANGED <<validID, path, writeHandle, writeMutex, mainThread, blocks,
                 threads, history>>

\* The destructor clears the callbacks, closes and joins.  Clearing them races
\* with the threads that test and then call them: a call of an empty
\* std::function outside videoRun's try block terminates the process.
destroyClear ==
  /\ callerPc = "idle"
  /\ blocks' = FALSE /\ callerGoto("destroy_close")
  /\ aborted' \in {FALSE, \E i \in Session : live(runPc[i])}
  /\ UNCHANGED <<state, validID, path, writeHandle, writeMutex, mainThread,
                 inClose, runPc, videoPc, audioPc, packet, history>>

\* The destructor's close() may find the recorder Closed or Closing.
destroyClose ==
  /\ callerPc = "destroy_close"
  /\ callerGoto(IF state \in {"Closed", "Closing"} THEN "destroy_join" ELSE "close_id")
  /\ UNCHANGED <<shared, inClose, threads, history>>

\* Variant: the destructor does not join.
destroyJoin_Skip ==
  /\ callerPc = "destroy_join"
  /\ mainThread' = 0 /\ callerGoto("gone")
  /\ UNCHANGED <<state, validID, path, writeHandle, writeMutex, blocks,
                 inClose, threads, history>>

destroyJoin ==
  /\ callerPc = "destroy_join"
  /\ mainThread # 0 => runPc[mainThread] = "ended"
  /\ mainThread' = 0 /\ callerGoto("gone")
  /\ UNCHANGED <<state, validID, path, writeHandle, writeMutex, blocks,
                 inClose, threads, history>>

callerStep ==
  \/ openSet \/ openNewID \/ openSpawn
  \/ (\E p \in Path : startPath(p)) \/ startSet
  \/ stopSet \/ (\E save \in BOOLEAN : stopFree(save))
  \/ closeInvalidate \/ closeStop \/ closeSet
  \/ destroyClose \/ destroyJoin

callerCall ==
  \/ openCheck
  \/ startCheck \/ stopCheck \/ closeCheck
  \/ destroyClear

(***************************************************************************)
(* run(): the main thread of session i                                     *)
(***************************************************************************)

runGoto(i, pc) == runPc' = [runPc EXCEPT ![i] = pc]
runFrame == UNCHANGED <<validID, path, writeHandle, writeMutex, mainThread, blocks,
                        caller, packet, take, files>>

\* A session that is stale before it starts returns without setState(Closed).
runStart(i) ==
  /\ runPc[i] = "start"
  /\ runGoto(i, IF isNewestValid(i) THEN "init_video" ELSE "ended")
  /\ UNCHANGED <<state, orphan, videoPc, audioPc, aborted>> /\ runFrame

\* initVideoContext returns 0 with NULL contexts when the decoder does not
\* open, and videoRun then dereferences them.
runInitVideo(i) ==
  /\ runPc[i] = "init_video"
  /\ \/ runGoto(i, IF AudioEnable THEN "init_audio" ELSE "spawn") /\ aborted' = FALSE
     \/ DeviceMayFail /\ runGoto(i, "failed") /\ aborted' = FALSE
     \/ DeviceMayFail /\ aborted' = TRUE /\ UNCHANGED runPc
  /\ UNCHANGED <<state, orphan, videoPc, audioPc>> /\ runFrame

runInitAudio(i) ==
  /\ runPc[i] = "init_audio"
  /\ \/ runGoto(i, "spawn")
     \/ DeviceMayFail /\ runGoto(i, "failed")
  /\ UNCHANGED <<state, orphan, videoPc, audioPc, aborted>> /\ runFrame

runSpawn(i) ==
  /\ runPc[i] = "spawn"
  /\ videoPc' = [videoPc EXCEPT ![i] = "loop"]
  /\ audioPc' = IF AudioEnable THEN [audioPc EXCEPT ![i] = "loop"] ELSE audioPc
  /\ runGoto(i, "join_video")
  /\ UNCHANGED <<state, orphan, aborted>> /\ runFrame

\* Variant: run() does not wait for the audio thread.
runJoinVideo_NoAudio(i) ==
  /\ runPc[i] = "join_video" /\ videoPc[i] = "ended"
  /\ runGoto(i, "close")
  /\ UNCHANGED <<state, orphan, videoPc, audioPc, aborted>> /\ runFrame

runJoinVideo(i) ==
  /\ runPc[i] = "join_video" /\ videoPc[i] = "ended"
  /\ runGoto(i, IF AudioEnable THEN "join_audio" ELSE "close")
  /\ UNCHANGED <<state, orphan, videoPc, audioPc, aborted>> /\ runFrame

runJoinAudio(i) ==
  /\ runPc[i] = "join_audio" /\ audioPc[i] = "ended"
  /\ runGoto(i, "close")
  /\ UNCHANGED <<state, orphan, videoPc, audioPc, aborted>> /\ runFrame

\* The error report calls _messageBlock without testing it.
runReport(i) ==
  /\ runPc[i] = "failed"
  /\ runGoto(i, "close") /\ aborted' = ~blocks
  /\ UNCHANGED <<state, orphan, videoPc, audioPc>> /\ runFrame

\* setState(Closed); the writer is not released here.
runClosed(i) ==
  /\ runPc[i] = "close"
  /\ setState("Closed") /\ runGoto(i, "closed")
  /\ orphan' = (orphan \/ writeHandle.isOpen)
  /\ UNCHANGED <<videoPc, audioPc, aborted>> /\ runFrame

\* The last message; the recorder may be opened again already.
runEnd(i) ==
  /\ runPc[i] = "closed"
  /\ runGoto(i, "ended")
  /\ UNCHANGED <<state, orphan, videoPc, audioPc, aborted>> /\ runFrame

run(i) ==
  \/ runStart(i) \/ runInitVideo(i) \/ runInitAudio(i) \/ runSpawn(i)
  \/ runJoinVideo(i) \/ runJoinAudio(i) \/ runReport(i) \/ runClosed(i)
  \/ runEnd(i)

(***************************************************************************)
(* videoRun() of session i                                                 *)
(***************************************************************************)

videoGoto(i, pc) == videoPc' = [videoPc EXCEPT ![i] = pc]
videoFrame == UNCHANGED <<validID, path, mainThread, blocks, caller, runPc, audioPc,
                          take, orphan, aborted>>
noWrite == UNCHANGED <<writeHandle, writeMutex, files>>

\* Variant: the loop does not test the session.
videoLoop_Forever(i) ==
  /\ videoPc[i] = "loop"
  /\ videoGoto(i, "read")
  /\ UNCHANGED <<state, packet>> /\ noWrite /\ videoFrame

videoLoop(i) ==
  /\ videoPc[i] = "loop"
  /\ videoGoto(i, IF isNewestValid(i) THEN "read" ELSE "ended")
  /\ UNCHANGED <<state, packet>> /\ noWrite /\ videoFrame

\* A frame, AVERROR(EAGAIN), or an error of the device, decoder or rescaler.
videoRead(i) ==
  /\ videoPc[i] = "read"
  /\ \E outcome \in {"preview", "loop"} \cup IF DeviceMayFail THEN {"ended"} ELSE {} :
       videoGoto(i, outcome)
  /\ UNCHANGED <<state, packet>> /\ noWrite /\ videoFrame

videoPreview(i) ==
  /\ videoPc[i] = "preview"
  /\ videoGoto(i, IF blocks /\ isNewestValid(i) THEN "check_opening" ELSE "encode")
  /\ UNCHANGED <<state, packet>> /\ noWrite /\ videoFrame

videoCheckOpening(i) ==
  /\ videoPc[i] = "check_opening"
  /\ videoGoto(i, IF state = "Opening" THEN "set_opened" ELSE "show")
  /\ UNCHANGED <<state, packet>> /\ noWrite /\ videoFrame

videoSetOpened(i) ==
  /\ videoPc[i] = "set_opened"
  /\ setState("Opened") /\ videoGoto(i, "show")
  /\ UNCHANGED packet /\ noWrite /\ videoFrame

\* The preview callback; an empty one throws and the try block ends the thread.
videoShow(i) ==
  /\ videoPc[i] = "show"
  /\ videoGoto(i, IF blocks THEN "encode" ELSE "ended")
  /\ UNCHANGED <<state, packet>> /\ noWrite /\ videoFrame

\* -11 (the encoder wants more input) and any other encoder error.
videoEncode(i) ==
  /\ videoPc[i] = "encode"
  /\ IF state = "Recording" /\ isNewestValid(i)
     THEN \/ videoGoto(i, "write") /\ packet' = [packet EXCEPT ![i].video = take]
          \/ videoGoto(i, "loop") /\ UNCHANGED packet
          \/ DeviceMayFail /\ videoGoto(i, "ended") /\ UNCHANGED packet
     ELSE videoGoto(i, "loop") /\ UNCHANGED packet
  /\ UNCHANGED state /\ noWrite /\ videoFrame

\* Variant: only the session is tested under the lock.
mayWrite_AnyState(i) == isNewestValid(i)

\* writeVideo takes _writeMutex and tests the session and the state ...
mayWrite(i) == isNewestValid(i) /\ state = "Recording"

videoLock(i) ==
  /\ videoPc[i] = "write" /\ writeMutex = NoThread
  /\ IF mayWrite(i)
     THEN /\ writeMutex' = <<"video", i>>
          /\ videoGoto(i, IF writeHandle.isOpen THEN "append" ELSE "create")
     ELSE videoGoto(i, "loop") /\ UNCHANGED writeMutex
  /\ UNCHANGED <<state, packet, writeHandle, files>> /\ videoFrame

\* ... creates the writer for _path, which may fail ...
videoCreate(i) ==
  /\ videoPc[i] = "create"
  /\ \/ /\ writeHandle' = [NULL EXCEPT !.isOpen = TRUE, !.path = path, !.take = take]
        /\ files' = [files EXCEPT ![path] = "partial"]
        /\ videoGoto(i, "append") /\ UNCHANGED writeMutex
     \/ /\ writeMutex' = NoThread /\ videoGoto(i, "loop")
        /\ UNCHANGED <<writeHandle, files>>
  /\ UNCHANGED <<state, packet>> /\ videoFrame

countForeign(n, packetTake) ==
  IF packetTake = writeHandle.take \/ n = 2 THEN n ELSE n + 1

\* ... and xxfmMp4Writer_video accepts the packet once a key packet came.
videoAppend(i) ==
  /\ videoPc[i] = "append"
  /\ \E key \in BOOLEAN :
       writeHandle' = IF writeHandle.isInited \/ key
         THEN [writeHandle EXCEPT !.isInited = TRUE,
                                  !.foreignVideo = countForeign(@, packet[i].video)]
         ELSE writeHandle
  /\ writeMutex' = NoThread /\ videoGoto(i, "loop")
  /\ packet' = [packet EXCEPT ![i].video = 0]
  /\ UNCHANGED <<state, files>> /\ videoFrame

videoRun(i) ==
  \/ videoLoop(i) \/ videoRead(i) \/ videoPreview(i) \/ videoCheckOpening(i)
  \/ videoSetOpened(i) \/ videoShow(i) \/ videoEncode(i) \/ videoLock(i)
  \/ videoCreate(i) \/ videoAppend(i)

(***************************************************************************)
(* audioRun() of session i                                                 *)
(***************************************************************************)

audioGoto(i, pc) == audioPc' = [audioPc EXCEPT ![i] = pc]
audioFrame == UNCHANGED <<state, validID, path, mainThread, blocks, caller, runPc,
                          videoPc, take, files, orphan, aborted>>

\* The fifo holds too few samples ("read") or enough for an encoder frame.
audioLoop(i) ==
  /\ audioPc[i] = "loop"
  /\ IF isNewestValid(i)
     THEN \E next \in {"read", "encode"} : audioGoto(i, next)
     ELSE audioGoto(i, "ended")
  /\ UNCHANGED <<packet, writeHandle, writeMutex>> /\ audioFrame

\* Unlike videoRun, any error of the device ends the thread, EAGAIN included.
audioRead(i) ==
  /\ audioPc[i] = "read"
  /\ \E outcome \in {"loop"} \cup IF DeviceMayFail THEN {"ended"} ELSE {} :
       audioGoto(i, outcome)
  /\ UNCHANGED <<packet, writeHandle, writeMutex>> /\ audioFrame

audioEncode(i) ==
  /\ audioPc[i] = "encode"
  /\ IF state = "Recording" /\ isNewestValid(i)
     THEN \/ audioGoto(i, "write") /\ packet' = [packet EXCEPT ![i].audio = take]
          \/ audioGoto(i, "loop") /\ UNCHANGED packet
          \/ DeviceMayFail /\ audioGoto(i, "ended") /\ UNCHANGED packet
     ELSE audioGoto(i, "loop") /\ UNCHANGED packet
  /\ UNCHANGED <<writeHandle, writeMutex>> /\ audioFrame

audioLock(i) ==
  /\ audioPc[i] = "write" /\ writeMutex = NoThread
  /\ IF mayWrite(i) /\ writeHandle.isOpen
     THEN writeMutex' = <<"audio", i>> /\ audioGoto(i, "append")
     ELSE audioGoto(i, "loop") /\ UNCHANGED writeMutex
  /\ UNCHANGED <<packet, writeHandle>> /\ audioFrame

\* Variant: the lock is not released when the packet is dropped.
audioAppend_KeepLock(i) ==
  /\ audioPc[i] = "append"
  /\ writeHandle' = IF writeHandle.isInited
       THEN [writeHandle EXCEPT !.foreignAudio = countForeign(@, packet[i].audio)]
       ELSE writeHandle
  /\ writeMutex' = (IF writeHandle.isInited THEN NoThread ELSE writeMutex)
  /\ audioGoto(i, "loop")
  /\ packet' = [packet EXCEPT ![i].audio = 0]
  /\ audioFrame

\* xxfmMp4Writer_audio drops packets until the header is written.
audioAppend(i) ==
  /\ audioPc[i] = "append"
  /\ writeHandle' = IF writeHandle.isInited
       THEN [writeHandle EXCEPT !.foreignAudio = countForeign(@, packet[i].audio)]
       ELSE writeHandle
  /\ writeMutex' = NoThread /\ audioGoto(i, "loop")
  /\ packet' = [packet EXCEPT ![i].audio = 0]
  /\ audioFrame

audioRun(i) ==
  audioLoop(i) \/ audioRead(i) \/ audioEncode(i) \/ audioLock(i) \/ audioAppend(i)

\* The interrupt callback, polled while a device is opened or read, calls
\* messageBlock() without testing it.
isTimeout(i) ==
  /\ ~blocks
  /\ runPc[i] \in {"init_video", "init_audio"} \/ videoPc[i] = "read" \/ audioPc[i] = "read"
  /\ aborted' = TRUE
  /\ UNCHANGED <<shared, caller, runPc, videoPc, audioPc, packet, history>>

-----------------------------------------------------------------------------

Next ==
  \/ /\ ~aborted
     /\ \/ callerCall \/ callerStep
        \/ \E i \in Session : run(i) \/ videoRun(i) \/ audioRun(i) \/ isTimeout(i)
  \/ (aborted \/ callerPc = "gone") /\ UNCHANGED vars

Spec == Init /\ [][Next]_vars

\* A call that was made goes on, threads are scheduled, device reads return.
Fairness ==
  /\ WF_vars(~aborted /\ callerStep)
  /\ \A i \in Session : /\ WF_vars(~aborted /\ run(i))
                        /\ WF_vars(~aborted /\ videoRun(i))
                        /\ WF_vars(~aborted /\ audioRun(i))

FairSpec == Spec /\ Fairness

-----------------------------------------------------------------------------
(***************************************************************************)
(* Properties                                                              *)
(***************************************************************************)

CallerPc == {"idle", "open_set", "open_id", "open_join", "start_path", "start_set",
             "stop_set", "stop_free", "close_id", "close_stop", "close_set",
             "destroy_close", "destroy_join", "gone"}
RunPc == {"none", "start", "init_video", "init_audio", "failed", "spawn",
          "join_video", "join_audio", "close", "closed", "ended"}
VideoPc == {"none", "loop", "read", "preview", "check_opening", "set_opened", "show",
            "encode", "write", "create", "append", "ended"}
AudioPc == {"none", "loop", "read", "encode", "write", "append", "ended"}

\* Every variable keeps its type; _validID stays a counter that open() may use
\* as the name of a session.
TypeOK ==
  /\ state \in State /\ validID \in Nat /\ path \in Path
  /\ writeHandle \in Handle
  /\ writeMutex \in ({"video", "audio"} \X Session) \cup {NoThread}
  /\ mainThread \in 0..MaxID /\ blocks \in BOOLEAN
  /\ callerPc \in CallerPc /\ inClose \in BOOLEAN
  /\ runPc \in [Session -> RunPc]
  /\ videoPc \in [Session -> VideoPc] /\ audioPc \in [Session -> AudioPc]
  /\ packet \in [Session -> [video : 0..MaxTake, audio : 0..MaxTake]]
  /\ aborted \in BOOLEAN /\ take \in 0..MaxTake
  /\ files \in [Path -> {"absent", "partial", "saved"}] /\ orphan \in BOOLEAN

alive(i) == live(runPc[i]) \/ live(videoPc[i]) \/ live(audioPc[i])

\* open() joins the previous run thread, and a run thread ends after its video
\* and audio threads: two sessions never have threads at the same time, so
\* the devices are never opened twice.
OneSession == \A i, j \in Session : alive(i) /\ alive(j) => i = j

\* _path is assigned by start() without _writeMutex.  It is never assigned
\* while writeVideo reads it to create the writer.
PathNotTorn ==
  callerPc = "start_path" => \A i \in Session : videoPc[i] # "create"

\* stop() releases the writer before it returns, so the open writer is always
\* that of the current take and of its path, unless a session died recording.
WriterOfTake ==
  writeHandle.isOpen /\ ~orphan => writeHandle.take = take /\ writeHandle.path = path

\* A packet encoded during one take can be written into the file of the next
\* one (the state is Recording again when writeVideo tests it), but at most one
\* packet of each track.
FewForeignPackets ==
  ~orphan => writeHandle.foreignVideo <= 1 /\ writeHandle.foreignAudio <= 1

\* Once the destructor returned, no thread uses the recorder any more.
GoneQuiet == callerPc = "gone" => \A i \in Session : ~alive(i)

\* The recorder starts to open only when it is Closed at that moment, although
\* open() tests the state one step before.
OpenOnlyFromClosed == [][state # "Opening" /\ state' = "Opening" => state = "Closed"]_vars

\* The recorder starts to record only when it is Opened at that moment.
\* This is what start() tests one step before; it is not what happens.
RecordOnlyFromOpened ==
  [][state # "Recording" /\ state' = "Recording" => state = "Opened"]_vars

\* Between the return of stop() and the next start() nothing reaches a file.
WritesWithinTake ==
  [][writeHandle' # writeHandle => state = "Recording" \/ callerPc = "stop_free"]_vars

\* A session that is invalidated after its run thread passed its first test
\* brings the recorder to Closed.
StaleSessionCloses ==
  \A i \in Session :
    validID # i /\ runPc[i] \notin {"none", "start", "closed", "ended"} ~> state = "Closed" \/ aborted

\* stop() gets _writeMutex, and the destructor returns: it never joins a
\* session that nobody told to end.
StopReturns == callerPc = "stop_free" ~> callerPc # "stop_free" \/ aborted
DestructorReturns == callerPc = "destroy_close" ~> callerPc = "gone" \/ aborted

-----------------------------------------------------------------------------
(***************************************************************************)
(* The inductive invariant behind the safety properties                    *)
(***************************************************************************)

videoWriting(i) == videoPc[i] \in {"create", "append"}
audioWriting(i) == audioPc[i] = "append"

\* _writeMutex is held by exactly the thread that is past the lock.
LockOwner ==
  \A i \in Session : /\ videoWriting(i) <=> writeMutex = <<"video", i>>
                     /\ audioWriting(i) <=> writeMutex = <<"audio", i>>

\* The video and audio threads live inside the joins of their run thread, and
\* the only run thread alive is the one _mainThread holds.
ThreadsNested ==
  /\ \A i \in Session :
       /\ live(videoPc[i]) => runPc[i] = "join_video"
       /\ live(audioPc[i]) => AudioEnable /\ runPc[i] \in {"join_video", "join_audio"}
       /\ live(runPc[i]) => i = mainThread
  /\ mainThread <= validID
  /\ callerPc = "gone" => mainThread = 0

\* Closed means that no session is alive but for its last message, and open()
\* keeps it so until it spawns the next one.
ClosedQuiet ==
  /\ state = "Closed" \/ callerPc \in {"open_set", "open_id", "open_join"}
       => \A i \in Session : runPc[i] \in {"none", "closed", "ended"}
  /\ callerPc = "open_set" => state = "Closed"
  /\ callerPc \in {"open_id", "open_join"} => state = "Opening"
  /\ callerPc \in {"open_set", "open_id"} => validID < MaxID
  /\ callerPc = "open_join" => validID \in Session

\* Whoever is past the lock is inside the take, which stop() cannot leave
\* before it had the lock itself.
WritersInTake ==
  \A i \in Session :
    videoWriting(i) \/ audioWriting(i) => state = "Recording" \/ callerPc = "stop_free"

\* Within close() the session of _mainThread is stale, and once stop() set
\* Opened no take is on until the next start().
CloseInvalidates ==
  /\ callerPc \in {"close_stop", "close_set"} \/ inClose => mainThread < validID
  /\ inClose => callerPc \in {"stop_set", "stop_free", "close_set"}
  /\ callerPc \in {"stop_free", "close_set"} => state # "Recording"

\* A video thread about to set Opened read Opening; by then only close() can
\* have been called.
OpenedPending ==
  /\ \A i \in Session : videoPc[i] = "set_opened" =>
       /\ state \in {"Opening", "Closing"}
       /\ callerPc \notin {"start_path", "start_set", "stop_set", "stop_free"}
  /\ callerPc \in {"start_path", "start_set"} => state \in {"Opened", "Closed"} /\ take < MaxTake
  /\ callerPc \in {"stop_set", "stop_free"} => state # "Opening"

\* The writer is open only during the take it was created in.
HandleInTake ==
  writeHandle.isOpen /\ ~orphan =>
    /\ writeHandle.take = take /\ writeHandle.path = path
    /\ state = "Recording" \/ callerPc = "stop_free"

Protocol ==
  /\ LockOwner /\ ThreadsNested /\ ClosedQuiet /\ WritersInTake
  /\ CloseInvalidates /\ OpenedPending /\ HandleInTake

IInv == TypeOK /\ Protocol
=============================================================================
