--------------------------- MODULE XXl5StreamPusher ---------------------------
(***************************************************************************)
(* The RTSP live pusher of C++/live555: the encoder's thread pushes frames *)
(* into a bounded queue, the detached thread that runs the event loop of   *)
(* live555 takes them out, one XXframedLiveSource per client, and hands    *)
(* them to the client's sink in pieces of the size the sink asks for.      *)
(*                                                                         *)
(* The queue is the abstract one, Fifo, which XXqueue implements.          *)
(***************************************************************************)
EXTENDS Integers, Sequences

CONSTANTS
  Client,       \* the streams the RTSP server may open
  MaxQueue,     \* the limit the video queue is created with: 12 in the code
  Frame,        \* the frames in the order they are pushed; bound: their number
  Size,         \* of each frame, its time stamp of 8 bytes left out
  MaxSize,      \* bound: of a frame and of what a sink asks for
  MaxAudio,     \* bound: audio frames pushed
  MaxOpen       \* bound: streams opened

VARIABLES
  isRunning, isInterruptionRequested,
  loop,         \* the run thread: "None", "Run", "Loop", "Over", or "Broken" once the
                \* pusher was destroyed under it
  videoOpen, videoLimit, videoAtLimit, videoQueue, queueResult,
                \* the video queue, NULL until a source asks
  audioCount,   \* what waits in the audio queue
  polling,      \* the client for which the loop is in getVideoDataInQueue, or "None"
  asked,        \* fMaxSize of that request
  source,       \* [frame, max, read] of every stream that is open
  sent,         \* pieces a client was given, [frame, from, upto]
  taker,        \* the client for which a frame left the queue
  pushed, firstKept,    \* frames pushed, and the first the queue was there for
  opens

flags == <<isRunning, isInterruptionRequested>>
queueArgs == <<videoLimit, videoAtLimit>>
video == <<videoOpen, queueArgs, videoQueue, queueResult>>
request == <<polling, asked>>
history == <<taker, pushed, firstKept, opens>>
vars == <<flags, loop, video, audioCount, request, source, sent, history>>

MaxFrame == Len(Frame)
None == [frame |-> 0, max |-> 0, read |-> 0]
Open == DOMAIN source

\* Variant: what comes too late for a full queue is refused.
atMax_Refuse == 0
\* What xxqueue_createWithLimit is asked to do at the limit: drop the first.
atMax == 1

Queue == INSTANCE Fifo WITH
  Value <- {Frame[i] : i \in 1..MaxFrame}, Limit <- {MaxQueue}, DropFirst <- {atMax},
  isOpen <- videoOpen, limit <- videoLimit, atLimit <- videoAtLimit,
  queue <- videoQueue, result <- queueResult

Init ==
  /\ isRunning = FALSE /\ isInterruptionRequested = FALSE /\ loop = "None"
  /\ videoOpen = FALSE /\ videoLimit = 0 /\ videoAtLimit = 0
  /\ videoQueue = <<>> /\ queueResult = "ok" /\ audioCount = 0
  /\ polling = "None" /\ asked = 0
  /\ source = [c \in {} |-> None] /\ sent = [c \in Client |-> <<>>]
  /\ taker = [f \in 1..MaxFrame |-> "None"] /\ pushed = 0 /\ firstKept = 1 /\ opens = 0

(***************************************************************************)
(* The owner's calls                                                       *)
(***************************************************************************)

\* run reads neither flag before its end: the order in which start makes the thread and
\* sets _isRunning is not seen.
start ==
  /\ loop \in {"None", "Loop", "Over"}
  /\ ~isRunning /\ ~isInterruptionRequested
  /\ loop' = "Run" /\ isRunning' = TRUE
  /\ UNCHANGED <<isInterruptionRequested, video, audioCount, request, source, sent, history>>

\* The flag is read by start only: the event loop has no watch variable.
stop ==
  /\ isRunning /\ loop # "Broken"
  /\ isInterruptionRequested' = TRUE
  /\ UNCHANGED <<isRunning, loop, video, audioCount, request, source, sent, history>>

\* The frame is lost while no source has asked for one yet.
pushVideoData ==
  /\ loop # "Broken" /\ pushed < MaxFrame
  /\ pushed' = pushed + 1
  /\ IF videoOpen THEN Queue!Enqueue(Frame[pushed + 1]) /\ UNCHANGED firstKept
     ELSE firstKept' = pushed + 2 /\ UNCHANGED video
  /\ UNCHANGED <<flags, loop, audioCount, request, source, sent, taker, opens>>

\* Nothing takes from the audio queue.
pushAudioData ==
  /\ loop # "Broken" /\ audioCount < MaxAudio
  /\ audioCount' = audioCount + 1
  /\ UNCHANGED <<flags, loop, video, request, source, sent, history>>

\* stop, then both queues are freed: a loop that runs does so in freed memory from here on.
destroy ==
  /\ loop # "Broken"
  /\ isInterruptionRequested' = (isInterruptionRequested \/ isRunning)
  /\ loop' = "Broken"
  /\ videoOpen' = FALSE /\ videoQueue' = <<>> /\ audioCount' = 0
  /\ UNCHANGED <<isRunning, queueArgs, queueResult, request, source, sent, history>>

(***************************************************************************)
(* The run thread                                                          *)
(***************************************************************************)

\* Without a server, the port being taken for one, run returns and leaves _isRunning set.
run ==
  /\ loop = "Run"
  /\ loop' \in {"Loop", "Over"}
  /\ UNCHANGED <<flags, video, audioCount, request, source, sent, history>>

\* The number of a frame.
id(frame) == CHOOSE f \in 1..MaxFrame : Frame[f] = frame

inLoop == loop = "Loop" /\ polling = "None"

\* Every client gets a source of its own: reuseFirstSource is false.
createNewStreamSource(c) ==
  /\ inLoop /\ c \in Client \ Open /\ opens < MaxOpen
  /\ source' = [d \in Open \cup {c} |-> IF d = c THEN None ELSE source[d]]
  /\ sent' = [sent EXCEPT ![c] = <<>>]
  /\ opens' = opens + 1
  /\ UNCHANGED <<flags, loop, video, audioCount, request, taker, pushed, firstKept>>

\* live555 closes the stream of a client that leaves.
closeSource(c) ==
  /\ inLoop /\ c \in Open
  /\ source' = [d \in Open \ {c} |-> source[d]]
  /\ UNCHANGED <<flags, loop, video, audioCount, request, sent, history>>

\* Variant: what was read of the last frame is not forgotten when it ends.
piece_Kept(s, fMaxSize) ==
  LET more == s.max - s.read > fMaxSize
  IN  [given |-> [frame |-> s.frame, from |-> s.read,
                  upto |-> IF more THEN s.read + fMaxSize ELSE s.max],
       rest |-> IF more THEN [s EXCEPT !.read = s.read + fMaxSize]
                ELSE [None EXCEPT !.read = s.read]]

\* What doGetNextFrame hands over of its buffer, and what it keeps.
piece(s, fMaxSize) ==
  LET more == s.max - s.read > fMaxSize
  IN  [given |-> [frame |-> s.frame, from |-> s.read,
                  upto |-> IF more THEN s.read + fMaxSize ELSE s.max],
       rest |-> IF more THEN [s EXCEPT !.read = s.read + fMaxSize] ELSE None]

deliver(c, s, fMaxSize) ==
  /\ source' = [source EXCEPT ![c] = piece(s, fMaxSize).rest]
  /\ sent' = [sent EXCEPT ![c] = Append(sent[c], piece(s, fMaxSize).given)]

\* doGetNextFrame with something in the buffer.
nextPiece(c, fMaxSize) ==
  /\ inLoop /\ c \in Open /\ source[c].max > 0
  /\ deliver(c, source[c], fMaxSize)
  /\ UNCHANGED <<flags, loop, video, audioCount, request, history>>

\* doGetNextFrame with an empty buffer: the call stays in getVideoDataInQueue, which makes
\* the queue if there is none, and the whole loop with it.
askFrame(c, fMaxSize) ==
  /\ inLoop /\ c \in Open /\ source[c].max = 0
  /\ polling' = c /\ asked' = fMaxSize
  /\ IF videoOpen THEN UNCHANGED video ELSE Queue!Create
  /\ UNCHANGED <<flags, loop, audioCount, source, sent, history>>

\* Variant: one frame is left in the queue.
hasFrame_One == Len(videoQueue) > 1
hasFrame == Len(videoQueue) > 0

\* The poll that finds a frame; the one that does not changes nothing.
gotFrame(c) ==
  /\ loop = "Loop" /\ polling = c /\ hasFrame
  /\ Queue!Dequeue
  /\ LET f == id(Head(videoQueue))
     IN  /\ deliver(c, [source[c] EXCEPT !.frame = f, !.max = Size[f]], asked)
         /\ taker' = [taker EXCEPT ![f] = c]
  /\ polling' = "None" /\ asked' = 0
  /\ UNCHANGED <<flags, loop, audioCount, pushed, firstKept, opens>>

(***************************************************************************)

doGetNextFrame(c) == \E n \in 1..MaxSize : nextPiece(c, n) \/ askFrame(c, n)

Next ==
  \/ start \/ stop \/ destroy \/ run \/ pushVideoData \/ pushAudioData
  \/ \E c \in Client : createNewStreamSource(c) \/ closeSource(c) \/ doGetNextFrame(c)
                       \/ gotFrame(c)

\* The event loop polls, and a sink asks for the next frame after each one.
Fairness == \A c \in Client : WF_vars(gotFrame(c)) /\ WF_vars(doGetNextFrame(c))

Spec == Init /\ [][Next]_vars /\ Fairness

TypeOK ==
  /\ isRunning \in BOOLEAN /\ isInterruptionRequested \in BOOLEAN
  /\ loop \in {"None", "Run", "Loop", "Over", "Broken"}
  /\ videoOpen \in BOOLEAN /\ videoQueue \in Seq(STRING) /\ audioCount \in 0..MaxAudio
  /\ polling \in Open \cup {"None"} /\ asked \in 0..MaxSize
  /\ Open \subseteq Client
  /\ taker \in [1..MaxFrame -> Client \cup {"None"}]
  /\ pushed \in 0..MaxFrame /\ firstKept \in 1..MaxFrame + 1 /\ opens \in 0..MaxOpen

\* A client's pieces are frames from their first byte on, without a gap and each to its
\* end before the next, which was pushed later.
FramesWhole ==
  \A c \in Client : \A i \in DOMAIN sent[c] :
    LET p == sent[c][i]
    IN  IF i = 1 \/ sent[c][i - 1].frame # p.frame
        THEN p.from = 0 /\ (i > 1 => sent[c][i - 1].frame < p.frame)
        ELSE p.from = sent[c][i - 1].upto /\ p.from < p.upto

\* Clients share the queue: a frame goes to one of them and the others never see it.
OneClientGetsIt ==
  /\ \A c \in Client : \A i \in DOMAIN sent[c] : taker[sent[c][i].frame] = c
  /\ \A i \in DOMAIN videoQueue : taker[id(videoQueue[i])] = "None"

\* From the first request on only the oldest frames are lost, and only to MaxQueue later ones.
OldestAreLost ==
  loop # "Broken" =>
    \A f \in firstKept..pushed :
      \/ taker[f] # "None"
      \/ \E i \in DOMAIN videoQueue : videoQueue[i] = Frame[f]
      \/ videoOpen /\ f + MaxQueue <= pushed

\* What a client sees of the stream: FramesWhole, OneClientGetsIt and OldestAreLost.
StreamSound == TypeOK /\ FramesWhole /\ OneClientGetsIt /\ OldestAreLost

\* While a client plays, the frames that wait for it are taken.
Drains == []<>(videoQueue = <<>> \/ Open = {})
===============================================================================
