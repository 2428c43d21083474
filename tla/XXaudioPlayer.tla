---------------------------- MODULE XXaudioPlayer ----------------------------
(***************************************************************************)
(* The player of Objective-C/AV/XXaudioPlayer.m: a pool of buffers that    *)
(* go from pushData() through a serial operation queue into an audio       *)
(* queue, whose callback puts them back into the pool.                     *)
(*                                                                         *)
(* Four threads: one that pushes data, one that controls the player, the   *)
(* worker of _dataQueue, and the audio queue's own.  There is no lock.     *)
(* A step is an access to shared state; samples are left out.              *)
(***************************************************************************)
EXTENDS Integers, Sequences, Functions

CONSTANT Buffer   \* kBufferCountMax buffers; None is none of them

VARIABLES
  isRunning,    \* _isRunning and not _isInterruptRequested
  busy,         \* the buffers flagged kBufferBusy
  pusher,       \* where pushData() is, and the buffer it took
  control,      \* where start(), stop() or resetData() is
  pending,      \* the buffers of the operations that have not started
  worker,       \* where the running operation is, and its buffer
  isStarted, enqueued, returned,  \* the audio queue; returned: callbacks still due
  lost,         \* history: the buffers whose operation was cancelled or their enqueueing refused
  unsafe        \* history: the pool was reset under a buffer in use

vars == <<isRunning, busy, pusher, control, pending, worker, isStarted, enqueued, returned,
          lost, unsafe>>
audioQueue == <<isStarted, enqueued, returned>>
history == <<lost, unsafe>>

None == "none"
idle == [at |-> "idle", buffer |-> None]

Init ==
  /\ isRunning = FALSE /\ busy = {} /\ pusher = idle /\ control = "idle"
  /\ pending = <<>> /\ worker = idle
  /\ isStarted = FALSE /\ enqueued = <<>> /\ returned = {}
  /\ lost = {} /\ unsafe = FALSE

(***************************************************************************)
(* pushData                                                                *)
(***************************************************************************)

pushCheck ==
  /\ pusher.at = "idle"
  /\ isRunning
  /\ pusher' = [at |-> "scan", buffer |-> None]
  /\ UNCHANGED <<isRunning, busy, control, pending, worker, audioQueue, history>>

\* Variant: the buffer is not flagged.
pushMark_NotFlagged ==
  /\ pusher.at = "scan"
  /\ \E b \in Buffer \ busy : pusher' = [at |-> "marked", buffer |-> b]
  /\ UNCHANGED <<isRunning, busy, control, pending, worker, audioQueue, history>>

\* The scan may pass a buffer that is flagged available behind it, so any
\* available buffer can be the one it finds.
pushMark ==
  /\ pusher.at = "scan"
  /\ \E b \in Buffer \ busy :
       /\ busy' = busy \cup {b}
       /\ pusher' = [at |-> "marked", buffer |-> b]
  /\ UNCHANGED <<isRunning, control, pending, worker, audioQueue, history>>

\* Variant: the operation is added without a buffer.
pushRefused_Added ==
  /\ pusher.at = "scan"
  /\ busy = Buffer
  /\ pusher' = idle
  /\ pending' = Append(pending, None)
  /\ UNCHANGED <<isRunning, busy, control, worker, audioQueue, history>>

pushRefused ==
  /\ pusher.at = "scan"
  /\ busy = Buffer
  /\ pusher' = idle
  /\ UNCHANGED <<isRunning, busy, control, pending, worker, audioQueue, history>>

pushAdd ==
  /\ pusher.at = "marked"
  /\ pending' = Append(pending, pusher.buffer)
  /\ pusher' = idle
  /\ UNCHANGED <<isRunning, busy, control, worker, audioQueue, history>>

pushData == pushCheck \/ pushMark \/ pushRefused \/ pushAdd

(***************************************************************************)
(* The operation                                                           *)
(***************************************************************************)

\* From here on cancelAllOperations does not reach the operation.
operationStart ==
  /\ worker.at = "idle" /\ pending # <<>>
  /\ worker' = [at |-> "started", buffer |-> Head(pending)]
  /\ pending' = Tail(pending)
  /\ UNCHANGED <<isRunning, busy, pusher, control, audioQueue, history>>

\* Variant: a stopped player is not noticed.
operationCheck_Never ==
  /\ worker.at = "started"
  /\ worker' = [worker EXCEPT !.at = "copying"] /\ UNCHANGED busy
  /\ UNCHANGED <<isRunning, pusher, control, pending, audioQueue, history>>

\* Variant: the buffer of a stopped player is not put back.
operationCheck_Keep ==
  /\ worker.at = "started"
  /\ worker' = IF isRunning THEN [worker EXCEPT !.at = "copying"] ELSE idle
  /\ UNCHANGED <<isRunning, busy, pusher, control, pending, audioQueue, history>>

operationCheck ==
  /\ worker.at = "started"
  /\ IF isRunning
     THEN worker' = [worker EXCEPT !.at = "copying"] /\ UNCHANGED busy
     ELSE worker' = idle /\ busy' = busy \ {worker.buffer}
  /\ UNCHANGED <<isRunning, pusher, control, pending, audioQueue, history>>

\* AudioQueueEnqueueBuffer may fail, as for a buffer it already has or while the queue is reset.
\* The code does not look: the buffer stays busy, and no callback will come.
operationEnqueue ==
  /\ worker.at = "copying" /\ worker' = idle
  /\ \/ worker.buffer \notin Range(enqueued)
        /\ enqueued' = Append(enqueued, worker.buffer) /\ UNCHANGED lost
     \/ lost' = lost \cup {worker.buffer} /\ UNCHANGED enqueued
  /\ UNCHANGED <<isRunning, busy, pusher, control, pending, isStarted, returned, unsafe>>

operation == operationStart \/ operationCheck \/ operationEnqueue

(***************************************************************************)
(* The audio queue                                                         *)
(***************************************************************************)

played ==
  /\ isStarted /\ enqueued # <<>>
  /\ returned' = returned \cup {Head(enqueued)}
  /\ enqueued' = Tail(enqueued)
  /\ UNCHANGED <<isRunning, busy, pusher, control, pending, worker, isStarted, history>>

AQInputCallback(b) ==
  /\ b \in returned
  /\ returned' = returned \ {b}
  /\ busy' = busy \ {b}
  /\ UNCHANGED <<isRunning, pusher, control, pending, worker, isStarted, enqueued, history>>

\* AudioQueueReset, and AudioQueueStop at once, give every buffer back.
AudioQueueReset ==
  /\ returned' = returned \cup Range(enqueued)
  /\ enqueued' = <<>>

(***************************************************************************)
(* start, stop, resetData, config                                          *)
(***************************************************************************)

start ==
  /\ control = "idle" /\ ~isRunning
  /\ isRunning' = TRUE /\ control' = "start"
  /\ UNCHANGED <<busy, pusher, pending, worker, audioQueue, history>>

\* The code does not look whether AudioQueueStart did it.
startQueue ==
  /\ control = "start"
  /\ isStarted' \in {isStarted, TRUE} /\ control' = "idle"
  /\ UNCHANGED <<isRunning, busy, pusher, pending, worker, enqueued, returned, history>>

stop ==
  /\ control = "idle" /\ isRunning
  /\ isRunning' = FALSE /\ control' = "stop"
  /\ UNCHANGED <<busy, pusher, pending, worker, audioQueue, history>>

cancelAllOperations ==
  /\ pending' = <<>>
  /\ lost' = lost \cup Range(pending)

stopCancel ==
  /\ control = "stop"
  /\ cancelAllOperations
  /\ control' = "stopped"
  /\ UNCHANGED <<isRunning, busy, pusher, worker, audioQueue, unsafe>>

stopQueue ==
  /\ control = "stopped"
  /\ AudioQueueReset /\ isStarted' = FALSE
  /\ control' = "idle"
  /\ UNCHANGED <<isRunning, busy, pusher, pending, worker, history>>

resetData ==
  /\ control = "idle"
  /\ cancelAllOperations
  /\ control' = "reset"
  /\ UNCHANGED <<isRunning, busy, pusher, worker, audioQueue, unsafe>>

resetQueue ==
  /\ control = "reset"
  /\ AudioQueueReset
  /\ control' = "resetFlags"
  /\ UNCHANGED <<isRunning, busy, pusher, pending, worker, isStarted, history>>

\* The buffers in the hands of pushData() and of the operations.
held == {pusher.buffer, worker.buffer} \cup Range(pending)

resetFlags ==
  /\ control = "resetFlags"
  /\ busy' = {} /\ lost' = {}
  /\ unsafe' = (unsafe \/ (held \cup Range(enqueued) \cup returned) \cap Buffer # {})
  /\ control' = "idle"
  /\ UNCHANGED <<isRunning, pusher, pending, worker, audioQueue>>

\* uninit and initFormat: another audio queue with buffers of its own.
config ==
  /\ control = "idle" /\ ~isRunning
  /\ isStarted' = FALSE /\ enqueued' = <<>> /\ returned' = {}
  /\ busy' = {} /\ lost' = {}
  /\ unsafe' = (unsafe \/ held \cap Buffer # {})
  /\ UNCHANGED <<isRunning, pusher, control, pending, worker>>

finish == startQueue \/ stopCancel \/ stopQueue \/ resetQueue \/ resetFlags

step ==
  \/ pushData \/ operation
  \/ played \/ \E b \in Buffer : AQInputCallback(b)
  \/ start \/ stop \/ resetData \/ config \/ finish

\* Two users of one buffer, or a freed one: what follows is not described.
Next == (~unsafe /\ step) \/ (unsafe /\ UNCHANGED vars)

\* The threads are scheduled, and a started audio queue plays what it has.
Fairness ==
  /\ WF_vars(pushMark \/ pushRefused \/ pushAdd) /\ WF_vars(operation) /\ WF_vars(finish)
  /\ WF_vars(played) /\ \A b \in Buffer : WF_vars(AQInputCallback(b))

Spec == Init /\ [][Next]_vars /\ Fairness

-----------------------------------------------------------------------------
(***************************************************************************)
(* Properties                                                              *)
(***************************************************************************)

TypeOK ==
  /\ isRunning \in BOOLEAN /\ isStarted \in BOOLEAN /\ unsafe \in BOOLEAN
  /\ busy \subseteq Buffer /\ returned \subseteq Buffer /\ lost \subseteq Buffer
  /\ pusher \in {idle, [at |-> "scan", buffer |-> None]} \cup [at : {"marked"}, buffer : Buffer]
  /\ worker \in {idle} \cup [at : {"started", "copying"}, buffer : Buffer]
  /\ control \in {"idle", "start", "stop", "stopped", "reset", "resetFlags"}
  /\ pending \in Seq(Buffer) /\ enqueued \in Seq(Buffer)

Place == {"pusher", "pending", "worker", "enqueued", "returned", "lost"}
at == [pusher   |-> {pusher.buffer} \ {None}, pending  |-> Range(pending),
       worker   |-> {worker.buffer} \ {None}, enqueued |-> Range(enqueued),
       returned |-> returned,                 lost     |-> lost]

\* A buffer is flagged busy exactly while it is somewhere, and it is in one
\* place only: nobody fills a buffer that is waiting or playing.  This holds as
\* long as no reset or config finds a buffer in use.
OnePlace ==
  ~unsafe =>
    /\ busy = UNION {at[p] : p \in Place}
    /\ \A p, q \in Place : p # q => at[p] \cap at[q] = {}
    /\ IsInjective(pending) /\ IsInjective(enqueued)

\* What was pushed is not played after stop(): at most the buffer of the one
\* operation that had made its test is left in the audio queue.
QuietAfterStop ==
  ~isRunning /\ control \notin {"stop", "stopped"} =>
    Len(enqueued) + (IF worker.at = "copying" THEN 1 ELSE 0) <= 1

\* A player that runs, and whose queue did start, gives its buffers back, but for those that
\* stop() or resetData() dropped with their operations and those the audio queue refused: these
\* are lost to the pool, however long the player runs, until a reset or config.
BuffersComeBack ==
  <>[](isRunning /\ isStarted) =>
    \A b \in Buffer : (b \in busy) ~> (b \notin busy \/ b \in lost \/ unsafe)
=============================================================================
