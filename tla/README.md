# XXkit in TLA+

XXkit is a utility library for audio, video, networking and UI, in C, C++,
Objective-C, Qt, C# and ReactNative. It has no tests. This directory holds TLA+
models of the parts of it that carry state across calls or share it between
threads, TLC runs that check them on small instances, and TLAPS proofs that hold
for every instance. All paths below are relative to `src/`.

Contents: [parts of the system](#1-parts-of-the-system) ·
[modules](#2-modules) · [runs and bounds](#3-runs-and-bounds) ·
[divergences found](#4-where-the-code-and-its-words-differ) ·
[fairness](#5-fairness) · [proofs](#6-proofs) ·
[not modelled](#7-what-is-not-modelled) · [plan](#8-plan)

## 1. Parts of the system

The parts are mostly independent of each other. The exceptions: the C++ recorder
owns an mp4 writer, the live pusher and its sources share two queues, the iOS
codecs use the C nalu splitter, and JSON is made of path maps.

| part | state it keeps | operations | what is hard | what makes it correct |
|---|---|---|---|---|
| camera/microphone recorder, `C++/ffmpeg/XXfmRecorder.cpp` | `_state`, `_validID`, `_path`, `_writeHandle` under `_writeMutex`, `_mainThread` | open, start, stop, close, destructor; run, video and audio threads | three threads per session, checks and assignments of `_state` without a lock, sessions that end by themselves, device failures | sessions exclude each other; the writer belongs to the take; every call returns; nothing runs after the destructor |
| mp4 writer, `C/ffmpeg/XXfmMp4Writer.c` | gate `isInited`, frame counters, first time stamps, muxer and file | create, video, audio, close | header before media, counters taken before a call that fails, int products | pts increase per track; a kept file has a header, an unkept one is removed |
| queue, `C/XXqueue.c` on `C/list.h` | linked ring, count, limit and its policy | create, enqueue, dequeue, removeOne, removeAll, free | head against item in the ring, the limit, removal in the middle | the ring has no dangling pointer; values come out in order |
| audio player, `Objective-C/AV/XXaudioPlayer.m` | running flag, pool of four buffers with busy flags, operation queue, audio queue | pushData, start, stop, resetData, config, callback | four threads, no lock; cancelled operations; callbacks that come late | a buffer has one user; silence after stop; buffers come back |
| TCP socket, `C/XXtcpSocket.c` | descriptor, connected flag, two members that outlive a call | alloc, connect, recv, waitForRecv, disconnect, free | partial reads, end of stream, resets, stale memory of an earlier call, reused descriptors | no leak, no double close; CLOSED is true and is told; no bytes lost |
| UDP socket, `C/XXudpSocket.c` | descriptor, bound flag, the same two members | alloc, bind, recv, free | the loop of TCP over datagrams: joined, cut, empty ones | whole datagrams in order; only the end of the buffer cuts one |
| transport stream reader, `C/XXtsReader.c` | PAT and PMT items, pids and types, one buffer with its pts per stream | create, push, free | interleaved streams, table changes, lost packets, full buffers | frames come out whole, in order, with their own pts and type |
| nalu splitter, `C/XXnaluSpliter.c` | array of nalus | create, split, ref getters, free | more nalus than the array, stale count | the nalus tile the packet |
| mp4 bytes, `C/ffmpeg/XXfmMp4Writer.c` | none | avcC, hvcC and ADTS headers; hev1 renamed in the finished file | many nalus, partial matches | a reader of the format gets back what was written |
| Qt logger, `Qt/Utility/{XXlogger,FileLogFifo,TcpClientLogFifo}` | map of fifos, events, file or socket per fifo | message, configFifo, reset, push | log threads, a fifo's failure is itself logged, a singleton made in a race | a message stands where it was asked to, in order; reports die out |
| h264/h265 codecs, `Objective-C/AV/XXh26x*` | parameter sets, description, session, last picture | decodeData, session lost; encoder output | parameter sets that change, a session taken away | a picture belongs to its packet; the decoder comes back |
| mp4 reader and software codecs, `C/ffmpeg/XXfmMp4Reader.c`, `XXfmH26x*.c` | file position, what the codecs hold back | open, next, seek, close; encode, decode | one packet in, one frame out, with frames held back; seeks | frames in order, once, of after the seek |
| desktop recorder, `C/ffmpeg/XXfmRecorder.c` | two plain flags | start (the loop), stop | stop from another thread or a callback, before, in and after a take | a take ends for a reason, and a stopped one ends |
| live pusher, `C++/live555` | two queues, event loop, a source per client | start, stop, push; the sources' callbacks | encoder thread against event loop, a full queue, several clients | a client gets whole frames in order; the oldest are lost |
| timer, `Objective-C/Utility/XXtimer.m` | dispatch source, index, flags | start, stop, handlers | a handler of an earlier start meets the next one | timeouts come in order, once; one source |
| pacing, `Objective-C/AV/XXtimestampSyncer.m` | two references of time | reset, sync | units | none: it never sleeps |
| path map and JSON, `C++/XXmap` | map of paths, arrays as values | arrays, items, clean, writes by path; to and from JSON | paths are rewritten as arrays change | an edit changes what it names; JSON is read back |
| string extensions, `C++/Extend` | none | split, section, search, count | the ends of a text | the pieces make the text again |
| table shell, `Objective-C/Shell/XXtableViewShell.m` | sections of rows, cells on screen | every edit; the data source's calls; cell events | edits that reload all, a row or nothing, against what the table knows | the table shows what the shell holds |
| Qt database, `Qt/Utility/SqlDatabaseManager.cpp` | connections shared by name, transaction | open, close, add, remove, find | two managers, statements and commits that fail | a failed call changes nothing; a manager works on its file |
| Qt JSON, `Qt/Utility/XXjson.cpp` | a document and items that copy its parts | item, assignment, load, save | copies written over newer values | an assignment keeps the rest |
| Qt control shells, `Qt/Shell` | page, index, text and what is shown | settings, clicks, edits | any order of settings and inputs | a control shows what it holds |
| others (recorders of iOS, views, widgets, queries) | see `components` in PROJECT.json | | | |

PROJECT.json lists every component with its files, and under `hazards` the places
in the code where a test would hardly reach, each with the properties that watch it
or the reason that none does yet.

## 2. Modules

One module per component, a `Proofs` module with its theorems, and an `MC` module with
its bounds, which `MCstore`, `MCmedia` and `MCdata` are for several components at once
(`XXlogger`, `XXfmRecorder` and `MediaBytes` need none: their cfgs say all); the proofs about those
components are in `MCmediaProofs` and `MCdataProofs`, and those about `XXtcpSocket` are with the ones
about other bytes in `MediaBytesProofs`. Definitions that start with the name of an action and a suffix
(`openSpawn_NoJoin`) are variants of it, each with a mistake a programmer could make:
no specification uses them, and PROJECT.json's `mutants` puts them in the place of
the action to see that a property notices.

### XXfmRecorder

Names are those of the code. A step is one access to what threads share; everything
between two such accesses is one action. `callerPc`, `runPc`, `videoPc` and `audioPc`
hold where the client's call and the three threads of each session are. Sessions
are named by the value of `_validID` they were opened with, as in the code.

* `openCheck … openSpawn` are the statements of `open()` (50–64): test, set Opening,
  new id, join the old run thread, start the new one. `startCheck …`, `stopSet`,
  `stopFree …` and the steps of `close()` and of the destructor likewise.
* `run` opens the devices, spawns and joins the two other threads, and sets Closed.
  `videoRun` and `audioRun` read, test the state, and write under `_writeMutex`.
* `_writeHandle` is a record: the path and take it was created for, whether its
  header is out, and how many packets of other takes each track got.
* A device can fail whenever `DeviceMayFail` allows. Where the code
  uses a decoder that did not open, or calls a callback the destructor has cleared,
  the process ends: `aborted` becomes true and nothing follows.

Assumed: memory is sequentially consistent (the members are plain: a data race in C++, see
section 4); the client calls from one thread and not from inside
a callback; the callbacks are installed from the start. Frames are abstracted to
the take they were encoded for.

What the model makes visible and no property excludes: `run()` returns at line 126
without setting Closed when its session is already stale, and `close()` sets Closing
last (94); either way a recorder can stay Closing for ever. A device that fails while
recording leaves the writer open (`orphan`) until the next take's `stop()`.

### Mp4File, XXfmMp4Writer

`Mp4File` is what a writer promises: a file from create to close, media only behind
a header, a kept file only with one. `XXfmMp4Writer` has the four operations with
each early return: the gate, the counters, the computation of the pts in
truncating arithmetic, the bit stream filter and the muxer that can fail. A packet is
the set of nalu types `splitNalu` would find in it; its bytes are the matter of
`XXfmMp4Boxes`, below. That it implements `Mp4File` is the property
`KeepsFile`, with `phase` computed from `isOpen` and `isInited` and `media` from the
tracks that got packets. `MaxInt` stands for the largest int and
`MaxFrames` bounds the counters.

Assumed of the callers (`CallerFlags`): an empty packet is not flagged a key frame. The code does not
test it (209, 214): an empty key packet on a handle without a header would skip `initVideoContext` and
reach the muxer. No caller in the repository makes one.

### Fifo, XXqueue

`Fifo` is a sequence with a limit and a policy. `XXqueue` keeps the ring of `list.h`
as a function from pointers to next and prev, with `list_add_tail`, `list_del` and the
walks of the code, and the memory it may use as a set. It implements `Fifo` under the
refinement `content`: what a walk along `next` meets. `ChecksIndex` says whether the
caller of `removeOne` avoids the two indices the code does not survive: a negative one and
one equal to the count.

### XXaudioPlayer

The busy flags, the operation queue as a sequence, the audio queue as a sequence and
a set of callbacks still to come. `_isRunning` and `_isInterruptRequested` change
together and are one variable. `pushData` is a test, a scan that marks a buffer, and
an addition to the queue; the operation is taken, tests, copies and enqueues; `stop`,
`resetData` and `config` are split at each call they make. The code does not look at what
`AudioQueueEnqueueBuffer` (195) and `AudioQueueStart` (134) return, and both may fail here: a refused
buffer stays busy and is noted in `lost`, like one whose operation was cancelled; a queue that was not
started plays nothing. After a reset or a
config that met a buffer in use (`unsafe`) nothing is described: the memory may be
freed. `setMute` and the format are left out, as are failures of `AudioQueueNewOutput`,
`AudioQueueAllocateBuffer`, `AudioQueueStop` and `AudioQueueReset`.

### XXtcpSocket

The handle, `loopToRecv` iteration by iteration, the peer's side as the system shows
it (connecting, open, closed, reset; bytes sent and taken; a pending error), and the
process's descriptor table, in which others open and close too. The descriptor does not
block, so `connect` succeeds before the peer answers. Bytes are counted. `send`
does not change the handle and is left out, as is the look-up of a host name.
`recvCountAfterSelect` is only compared with 0 and is 0 or 1 here.

### XXtsReader

A step is one turn of the loop in `xxts_reader_push`, for one packet of a multiplex that
interleaves streams, may lose any packet, can change its tables, and may be joined
within a frame (`passBy` is a packet the reader does not see or does not know). `es` is
what the multiplex has sent of the current frame of each pid; `collected` remembers
whose frame a buffer has had whole so far. `pushPAT` and `pushPMT` replace the first
items of a table and leave the rest (`replaceItems`), then walk all of them, as the
code does. `pesDataOffset` is the walk of `pesHeaderFromData` over the optional fields,
against `dataOffset`, where the standard says the data begin; the difference of the two
is added to what the reader takes for data. Payloads are chunks with a size.

Assumed: callers push whole packets; a table fits into one packet without an adaptation
field; a pid keeps its codec; and a table has no more than `TS_MAP_ITEM_MAX` items
(`TableAssumption`), since the code writes its arrays of 32 without a comparison. The header declares these functions as `xxtsReader_*`, the source
defines them as `xxts_reader_*`; the model takes them for the same.

### XXlogger

The map of fifos, the posted events of each, and the threads that call: clients and
the log threads themselves, since a fifo that fails logs the failure to the singleton.
`instance()` is split where `_instance` is read and where it is assigned. A disk may fail
at any time (`broken`); `output` is what stands in the files, with where each message was
asked to go. `aborted` follows the destruction of a fifo under its running thread, which ends the process:
no property says more of it, since nothing in the code makes a replacement safe. `raced` remembers that a
client asked for the instance while another was making it.

### MCmedia: codecs, readers, the pusher and time

Eight parts that do not call each other are checked side by side, the audio player
(above) among them: `unit` says whose behaviours these are, and the others' variables
keep their initial values. The state space is the sum of theirs, not the product.
`MediaAssumption` says what the proofs need of the constants: bounds are numbers, a queue
holds a frame at least, and frames of the live stream have names of their own.

* `XXh26xDecoder`: one call of `decodeData` is one step, from the look-up of the nalus to
  the picture; the sender changes parameter sets, packets are lost, the system takes the
  session away.
* `XXfmMp4Reader`, `XXfmH26x`: a frame is the position of its packet, a picture its
  number; libavcodec is a FIFO that holds back up to `MaxDelay` of them. An error of
  `avcodec_receive_frame` other than EAGAIN (158) is taken for a refusal of the packet, of which the caller
  learns as much.
* `XXfmRecorderC`: the loop of `start` with its two flags, statement by statement where
  `stop` reads or writes them. A new handle's flags hold anything (malloc).
* `XXl5StreamPusher`: the pusher and one source per client over `Fifo`, which `XXqueue`
  implements. live555 is modelled by how it calls the sources.
* `XXtimer`: the owner's `start`, `stop` and `resetDelay` and the handler of every source are taken step
  by step: a step is one access to `_timer`, `index` or `_isRunning`, or one GCD call. A handler is
  called, then counts, then tells, and may be overtaken anywhere by the owner's stop and next start; that of a
  single shot runs the steps of `stop` itself. `dispatch_source_cancel` and `dispatch_resume` of
  nil end the process (`Crashed`). A GCD source does not run its handler twice at once, and cancelling does not
  wait for a handler under way. `++index` is one step.
* `XXtimestampSyncer`: times in milliseconds, with `Second` of them in a second.

### MediaBytes: formats and texts

`MediaBytes` grows every short list of nalus, file, number and text, over `XXnaluSpliter` (the
splitter, and the encoder's Annex B output as its input), `XXfmMp4Boxes` (avcC, hvcC, ADTS,
the renaming of hev1; each beside the reader a player has), `XXbyteOrder` and `XXstdStringExtend`.
`BytesAssumption` says that bytes are numbers, that the length of a parameter set fits into the two
bytes the boxes have for it, and that a split has room for a nalu.

### MCdata: maps, tables, controls

Nine modules in the same way, those of Qt through `MCqt`. `DataAssumption` is what the
code takes for granted of its callers: a buffer has room for a byte, and the socket tries once
at least; the rest gives the sets of inputs their types.

* `XXmap` is the map of paths with every call of it; `XXjson` adds fromMap, toString,
  fromString and toMap on tokens. `Undefined` and `Hung` are where the code has no
  defined behaviour or does not return.
* `XXtableViewShell` holds the sections and, beside them, the `UITableView`: the counts it was last told
  (`loaded`), its cells on screen (`shown`) and the cells that left it (`pool`), which it hands out
  again and which the application may also keep. It throws when counts do not fit, as UIKit does. A
  cell is what each label shows, by the row it is from, and the path its block posts to: `fill` sets only the
  labels whose keys the row has, and `latePost` is a post of a cell off the screen. `Positions` is
  what NSMutableArray leaves of an array, and SQLite of a table, when elements are removed by a
  condition.
* `XXudpSocket` is the receive loop of TCP over numbered datagrams.
* `SqlDatabaseManager` has two managers, the connections they share by name, transactions, and one
  table; a statement is what SQLite does with it, and may fail. `XXqtJson` has a document and
  two items somebody keeps.
* `ButtonPage`, `ComboBoxOtherInput`, `LineEditShell`: settings, clicks and edits in any order.

## 3. Runs and bounds

| run | what it shows | bounds |
|---|---|---|
| `recorder_threads` | sessions exclude each other (`OneSession`), `_path` is never assigned while it is read (`PathNotTorn`), the writer is that of the take (`WriterOfTake`), at most one packet of each track comes from another take (`FewForeignPackets`), nothing runs after the destructor (`GoneQuiet`), files are touched only within a take (`WritesWithinTake`) | 3 sessions, 2 takes, 2 paths, failing devices |
| `recorder_liveness` | `stop()` and the destructor return; a session told to end reaches Closed | 3 sessions, 1 take, 1 path |
| `recorder_start_race` | violation, see below | 1 session, 1 take, no audio |
| `store` | the queue: a ring without dangling pointers (`Ring`), refinement of `Fifo` (`ImplementsFifo`); the mp4 writer: pts increase until an int overflows (`PtsIncrease`), refinement of `Mp4File` (`KeepsFile`) | 4 items, 2 values, limits 0, 2, 4, both policies; 4 frames per track, 3 time stamps, 9 kinds of packet, int of 200000 |
| `tcp` | no leak or double close, CLOSED is true, waiting data are read, an end is told | 2 descriptors, 3 iterations, 3 bytes |
| `tcp_end_loss` | violation, see below | the same |
| `ts_reader` | undamaged frames come out whole, with their own time stamp and codec (`FramesWhole`), data stay in order and are given once (`OrderKept`), the last table is followed, but for items a longer one left behind its end (`FollowsTable`) | 4 pids, 3 tables, 3 frames, 4 chunks under way, buffers for 2 |
| `logger` | messages stand in order where they were asked to (`WrittenAsAsked`), a second logger needs a failing file or two clients at once (`OneLoggerUnlessFails`), reports of failures die out unless two files fail (`ReportsDieOut`) | 2 client threads, 2 names, 1 place, 2 calls, 2 fifos, 2 loggers |
| `media` | frames in order and once (`FramesSound`), pictures of their packets (`PictureSound`), what a live client sees (`StreamSound`), timeouts (`TimerSound`), takes end for a reason (`EndsForAReason`), a buffer of the player has one user (`OnePlace`), silence follows its stop (`QuietAfterStop`), its buffers come back (`BuffersComeBack`), and each of the other parts goes on (`Progress`) | 4 pictures, 3 versions of parameter sets, 2 held back, 2 seeks, 2 takes, 2 clients, queues of 2, 2 starts of a delay and 2 ticks, a second of 3, 3 buffers |
| `pacing` | violation, see below | as `media` |
| `bytes` | streams, boxes, headers, numbers and texts are read back (`BytesSound`) | as below |
| `data` | JSON is read back (`JsonKeeps`), datagrams (`DatagramsSound`), databases (`DatabaseSound`), an edit keeps the rest (`EditsKeepTheRest`), controls show what they hold (`ControlsSound`) | as below |

Why the bounds are enough. *Recorder:* a session can meet its predecessor (in open's
join) and its successor; three sessions have one with both. Two takes and two paths
tell a packet or a file of the wrong take; `MaxID` and `MaxTake` are guards of `openCheck`
and `startCheck`. *Writer:* the counters enter only in products, and four frames reach
both sides of the overflow that the small `MaxInt` gives; three stamps are a first, a
next and one after a gap. *Queue:* a ring of four has first, last and two inner
items, so every neighbour of a removed item is once the head and once an item; a limit
below and one at the memory's size meet both ends. *Player:* three of the code's four buffers:
one is played while one waits and one is filled; the theorems are for any number. *TCP:* a closed
descriptor can come back as the handle's or as another's; three iterations are the
fewest in which data and the end meet in one call; three bytes let a call ask for
less than, as much as and more than what is there. *Transport stream:* two videos, one
sound and a stream of no interest, in tables of three, two and one, let an item of a
longer one stand behind a shorter and win over it or not; four chunks overflow a buffer for two with one to spare, and three
frames are one given, one collected and one of another pid. Headers have a time
stamp alone or every optional field, and no stuffing.
*Logger:* two that fail need two fifos, and so do two loggers with a default each; two
clients can race for the instance; two
calls are a message and a change of the configuration in either order. *Media:* each part meets
its limit once and goes past it: one picture more than a codec holds back, a third version
after a session of the second, a queue that drops, a timer started again under a late handler.
`Second` = 3 stands for 1000, `MaxQueue` = 2 for 12. *Data:* arrays of two items with items in
them and four calls (create, move, take, put back); two sections of a row, four edits, one kind of cell off the screen; three
datagrams of 0 to 2 bytes, buffers of 1 and 3, three tries; two managers on files of one name, two keys, five statements; four to six
inputs for each control. *Bytes:* up to six bytes, with a list of three nalus (`NaluListMax`) in place of ten so
that a fourth is dropped; seven characters, enough for "hhev1"; numbers of all bytes at the
sign's edge; texts of six with separators of one and two characters.

`CHECK_DEADLOCK FALSE` is set for `tcp` and `tcp_end_loss`, where a freed handle has
nothing more to do, and for `logger`, `media`, `pacing`, `bytes` and `data`, whose clients stop at their
bounds. Everywhere else a state without a successor would be an error.

Properties that a theorem states and that hold for every instance anyway (`TypeOK` of the
first six components, `IInv` of the recorder, `OpenOnlyFromClosed`) are not run again. Where a
property names an exception (a dropped buffer, two failing files, a flag nobody set), the
exception is behaviour of the code, described in the next section or in the property's comment.

## 4. Where the code and its words differ

Shown by a run that violates what the repository says:

* `start()` (XXfmRecorder.cpp:70) tests for Opened and assigns Recording two
  statements later. If the session ends in between, the recorder records
  nothing in a state Recording without threads, though the message at line 71 says it
  cannot start when not opened (`recorder_start_race`).
* A receive that has data and then meets the end of the stream returns CLOSED and drops
  what it took (XXtcpSocket.c:268, `tcp_end_loss`).
* `sync` should sleep to hold a frame that is early (XXtimestampSyncer.h:15, 21). The first time stamp is kept
  in milliseconds and compared with seconds (XXtimestampSyncer.m:46): no call ever sleeps (`pacing` shows
  a frame that is not held, the theorem `SyncNeverSleeps` that none is).

Met while modelling; the model does what the code does, and a property that would say
more excepts it by name:

* *Recorder.* `close()` sets Closing last (94) and `run()` may have returned without setting
  Closed (126): Closing may stay for ever. The destructor clears callbacks that threads test and then call.
  The members are plain: a data race.
* *Mp4 writer.* Without millisecond stamps the audio clock is truncated twice (356): at 44100 Hz
  a frame lasts 1012 ticks instead of 1024. Parameter sets alone open the gate of the
  header, documented as the arrival of a key frame (250). The eleventh nalu of a packet is dropped
  (653); a failed partial match of hev1 is not restarted.
* *Queue.* `removeOne` with an index equal to the count takes the head for an item and frees
  the handle (181). The run therefore has callers that check the index (`ChecksIndex`).
* *Audio player.* `config()` gives the new audio queue its volume although the player is muted (88). A buffer
  that `AudioQueueEnqueueBuffer` refuses is never available again (195), and a player whose queue did not
  start says that it is running (134); `BuffersComeBack` excepts both.
* *UDP socket.* An empty datagram is reported as a closed connection (216), or as the end of what is there if
  it comes behind data; `DatagramsSound` says of CLOSED exactly that.
* *Timer.* A handler called before `stop` counts after the next `start` (XXtimer.m:52), which `InOrder` excepts (`late`).
  A single shot's handler stops the timer beside the owner: one of the two may give GCD nil and end the
  process (91, 86), and a single shot that expires between `dispatch_resume` and `_isRunning = YES` (87) leaves
  isRunning YES without a source; `FlagTells` and `CrashesSingle` except timers that have been single shots.
* *Transport stream reader.* An item that a longer table left behind the end of the last one overrides the pid
  and type of its kind (120); `FollowsTable` excepts exactly such an item. Items are written without a
  comparison with the 32 there is room for (519). Stuffing of a header is taken for data (569). The header declares
  `xxtsReader_*`, the source defines `xxts_reader_*`.
* *Logger.* Two fifos that both cannot write report to each other for ever (FileLogFifo.cpp:68), the
  endless loop its comment excludes for one. A default file that cannot be opened makes a second singleton
  (XXlogger.cpp:55). `isSocketReady` of the TCP fifo is true exactly when it is not connected.
* *Media.* The flags of a new desktop recorder are not initialised (XXfmRecorder.c:110).
  `seek` flushes the video decoder only (XXfmMp4Reader.c:194). A codec that holds a picture back
  returns an error for input it took. The pusher's `stop` sets a flag that `doEventLoop` was not given,
  and its destructor frees the queues under the detached thread.
* *Path map and JSON.* Of no items `createArray` reads the last (XXmap.cpp:134); `addArrayItem(item)` does not
  return (260); the last pair without a comma is lost, and arrays out of order come back sorted
  (XXjson.cpp:337, 183).
* *Byte order.* The little endian readers lack a mask (XXbyteOrder.c:46).
* *Strings.* `section` with the default end is empty (XXstdStringExtend.cpp:72), the last node of a
  split keeps its separator (13), `lastIndexOf` of a character is one too far (211).
* *Table shell.* Emptying a section removes all equal ones (XXtableViewShell.m:486); an update by key
  ignores the key (523); `configDataUsingBlock:` hands rows to a method for arrays (246). A cell that is handed out
  again keeps the labels of its earlier row that the new one has no key for (781): `InStep` speaks of the labels
  the row sets. A cell that is off the screen, or posts before the table has laid out an edit, overwrites
  whatever row is at its old path (812); `InStep` and `ThrowsForAReason` except a post from off the screen.
* *Qt.* A connection is found by the file's name without its directory (SqlDatabaseManager.cpp:41); a commit that
  fails is not noticed (307). `saveToFile` returns false also when it has saved (XXjson.cpp:112). The combo
  box with an explicit index shows its edit always (ComboBoxOtherInput.cpp:152). The line edit's strong
  mode takes every first text back (LineEditShell.cpp:84). `ButtonPage` lets the number of pages through as an
  index and divides by a number per page of 0 (110).

## 5. Fairness

* *Recorder* (`Fairness`): weak fairness of each thread and of a call that was begun.
  The system schedules runnable threads, a mutex is released by a thread that keeps
  running, and reads from a device return with a frame or an error. No fairness for
  the client's decision to call, nor for timeouts.
* *Player*: weak fairness of the worker, of the rest of a push or a control call that was begun,
  of playing while started, and of each callback. Nothing for the calls themselves.
* *TCP*: weak fairness of `loopToRecv`, whose system calls do not block beyond the timeout of
  `select`. `EndIsReported` further supposes, in its own words, a caller that keeps
  receiving and signals that stop interrupting.
* *Logger*: weak fairness of each call under way and of each log thread's next event. None for the
  clients' calls or for disks to fail or recover.
* *Media*: for the decoder, weak fairness of key packets being decoded and strong fairness of
  decoding that gives a picture, i.e. a sender that goes on (`Recovers` speaks of such a sender
  only); for the desktop recorder, of its loop and of the rest of a `stop()`; for the pusher, of each
  client's frames and requests, which live555's loop serves in turn; for the timer, of GCD, which
  fires, runs handlers and the main queue's blocks.
* The writer, the queue, the transport stream reader and all of `bytes` and `data` run in their caller's thread; only
  safety is claimed. (The reader gives a frame only when the next one starts, so the last
  frame of a stream is never given.)

## 6. Proofs

`tlapm` checks the eight `Proofs` modules without open leaves. Each theorem about a
specification follows the same argument: an inductive invariant, one lemma per
operation, and temporal steps at the end. The constants satisfy only the named
assumptions of the modules: the sizes are arbitrary. Every invariant a run checks has its
theorem, but for `JsonKeeps`.

* **XXfmRecorderProofs** (`RecorderAssumption`). `IInv` is `TypeOK` with seven parts. `OneSession`
  alone is not inductive: it needs that video and audio threads live within
  the joins of their run thread, which is the one `_mainThread` holds
  (`ThreadsNested`), that Closed means the last session is over (`ClosedQuiet`), and that
  `close()` has outdated the session it joins (`CloseInvalidates`). `WriterOfTake` and
  `WritesWithinTake` need that a thread past the lock is inside the take
  (`LockOwner`, `WritersInTake`, `HandleInTake`), which holds since `stop()` leaves
  the take only after it had the lock, and `OpenedPending`: only `close()` can have
  been called while a video thread is about to set Opened. From `IInv` follow
  `TypeCorrect`, `SessionsAreExclusive`, `PathIsNotTorn`, `WriterIsOfTake`,
  `DestroyedIsQuiet`, `OpensOnlyFromClosed` and `WritesOnlyWithinTake`. `AtMostOneForeign`
  needs `Foreign` besides: a packet of another take is one that waited for the lock across a
  stop and a start, its thread encodes the next one within the take, and so once a track
  holds a foreign packet none waits.
* **XXfmMp4WriterProofs**. What a track was offered lies below what its next frame will be
  offered with (`VideoPtsBounded`, `AudioPtsBounded`), and a file is partial exactly while
  the handle is open (`FileOpen`). From them `TimeGoesForward` for any rates, stamps and
  width of int, and `ImplementsFile`: every step is a step of `Mp4File` or a stutter.
* **XXqueueProofs**. `Chain` says that the ring is the list of some sequence of distinct items:
  the head, its items and the head again are linked in that order, to and fro. In place of an
  induction over the ring stands the first place where a walk and the
  sequence would differ (`WalkMeets`, and from it `Position` for the walk of
  `removeOne`). `list_del` and `list_add_tail` make a chain of a chain (`DelKeepsRing`,
  `AddKeepsRing`). So `RingHolds` for any number of items, limit and policy, and
  `QueueImplementsFifo`: what a walk meets is what `Fifo` holds, call by call.
* **MediaBytesProofs** (`BytesAssumption`, `SocketAssumption`). The prover has no induction over data, so each
  recursion is first given its steps. A fold (`FoldLeft`, `FlattenSeq`) or a recursive function is a CHOOSE of a
  function with an equation; that there is one follows from the least number for which there
  would be none (`Least`, `Induct`, `FoldExists`, `RecursionExists`, `BackwardsExists`), and two with the same
  steps are equal. Every operator over a sequence then becomes a function of positions with a rule for the
  next one, and its properties sets of positions that are closed under that rule.
  * *Texts*: `TextsStaySound`. The walks of splitting and searching meet the same places (`SplitWalk`,
    `IndexWalk`); two ascending sequences of the same numbers are equal, hence the search from behind.
  * *Nalus*: `NalusAreSplit`. In a stream of nalus without start codes in them, codes are where nalus
    begin and nowhere else, also behind one that ends with zeros (`CodesAre`), since the 1 of a code has its own
    three zeros before it; and as no two of them overlap, the scan that steps over each meets them all.
  * *Parameter sets* (`ParametersAreRead`), *audio header*, *numbers* (`NumbersAreRead`), *hev1*
    (`Hev1IsReplaced`). With the inputs' types they give `BytesStaySound`.
  * *TCP socket*. `IInv` adds `WantsMore` (a call in its loop wants at least one more
    byte, so a zero can only mean the end) to `OwnsItsDescriptor` and `ClosedIsTrue`;
    `DescriptorOwned` and `ClosedTold` follow for any number of descriptors, lengths and tries. `WaitingDataRead`
    needs that as long as nothing is taken the data still wait, with an iteration left (`DataWaits`).
* **XXtsReaderProofs**. `FramesGivenWhole` needs that a followed pid carries what it is taken for
  (`PidKinds`) and that while nothing was lost the buffer is what was sent, or the frame is
  too long for it (`CollectedWhole`). `DataInOrder` needs that everything collected
  was sent (`SentBefore`): a packet then follows all of it. Both, and `TypeCorrect`, suppose
  `HeadersPlain`, that the walk over a header ends where its data begin, which is so without
  stuffing. `TableFollowed` needs `Items`: the first items are those of the last table, and every one
  behind them stands at its place in some table that was read; the last of a kind is then either the last of that kind in the
  table, or one that a longer table left behind.
* **XXloggerProofs** (`LoggerAssumption`). For `StandsAsAsked` each step is first reduced to what it does
  to one fifo's events and output (`Step`). The place of every push that waits is where the
  resets before it lead (`Placed`), the output and then the pushes are in the order of the client's calls
  (`Ordered`), and what a client hands out is newer than what a fifo has from it (`Handed`); no fifo has two
  names (`Distinct`). `OneLogger`, for any number of clients: until the instance is assigned without a race one client makes it, the
  log threads have nothing to do but to open places, and without a failure they do not log.
* **MCmediaProofs** (`MediaAssumption`, `SyncerAssumption`), unit by unit; a step of another unit changes none of
  the variables.
  * *Desktop recorder*: `TakesEndForAReason` from when the flag can be up at all (`TakeInv`).
  * *Decoder*: `PicturesOfPackets`; whichever step of `initDecode` failed before, a decoder that is ready
    has a session and a description made of the parameter sets it keeps.
  * *Pacing*: `SyncNeverSleeps`. The reference is `Second` times a time stamp, or
    none, and no stamp within the code's limits comes up to that (the largest is at most `Second` times
    the smallest, in the code 4687730032000 and 1000 times 31507200000), so what is left to wait is
    never positive.
  * *Timer*: `TimersAreSound`. `TimerInv` says which sources have been made, resumed and cancelled
    (`TimerSources`), that a timer that was never a single shot is stopped by its owner alone
    (`TimerRepeats`), that the timeouts told are counted one by one as long as no earlier handler is under way
    (`TimerCount`, `TimerCalls`), and where a single shot stands that has expired (`TimerExpires`).
  * *Codecs and mp4 reader*: `FramesAreSound`. All pictures on their way, from the output back
    through what the decoder holds, the channel and the encoder, are one increasing sequence, which with the
    dropped ones has all that went in (`LoopInv`); what the reader returned and holds ends with what its
    decoder was given since the last seek (`ReaderInv`).
  * *Live pusher*: `StreamsAreSound`. The queue holds the last frames that were pushed without a
    gap (`QueueInv`); a client's pieces are whole frames in order, and a source with
    something left of a frame stands where its last piece ended (`SentInv`).
  * *Audio player*: while nothing is unsafe the places of the buffers are disjoint and their
    union is the set of busy ones; three lemmas say what moving, taking and putting back a buffer
    do to that. From it `OneUserAtATime` and `StopsQuiet` for a pool of any size.
* **MCdataProofs** (`DataAssumption`), unit by unit.
  * *UDP socket*: `DatagramsAreSound`. Datagrams wait numbered without gaps behind those a call has taken,
    whose pieces fill its buffer one behind the other (`UdpInv`); `hasSomething` without a reception since
    means that something waits; and a count of 0 beside data taken means that the call has read an empty
    datagram or found the socket dry, which is what a report of CLOSED comes from.
  * *Table*: `ShellInv`; a cell that is filled shows its row and posts to it whichever cell it was; an edit is taken apart into what it makes of the sections and what the
    table does about it (reloads all, reloads some, is not told, throws), with lemmas about sequences without
    some of their elements. `EmptiedSectionsGo` is `RemovesItself`, a part of `EditsKeepTheRest`: to pick
    every section that is not empty is to remove the one that became so (`PickedAllButOne`).
  * *Pages, combo box, line edit*: their values and what is shown of them (`PageInv`, `ComboInv`, `EditInv`), whatever
    was set before. With the table, `ControlsAreSound`.
  * *Database*: `DatabaseIsSound`. `Own` says who has a connection: of a name that is not shared, the one
    manager that asked for it, with the path it asked for. A failed batch restores the file from the
    copy that the transaction began with; `AddedIsFound` counts the rows that agree before and after
    (`AgreeingRows`), which needs that all rows have the keys of their table.
  * *Qt's JSON*: `JsonSavesTheRest`. The document is an object whose values are arrays of a length, objects or
    scalars, and a kept item has a name of it (`JsonInv`). What an assignment writes back over each
    parent is what the parent had, but for the key (`ChildAssigned`); an index puts off what it does to the
    array until then.
  * *Path map*: `MapKeepsTheRest` and `FreshItems`, for any paths, values and numbers of items and calls. `MapInv`
    says that items of an array nobody put there by hand differ and go up to its max, and that every
    node of a path that is an item has a number that the array above it has made (`Covered`): without
    this a new item could find data under it. A walk of `getRealPath` is followed
    node by node (`WalkStep`): where it has come to, nothing further down has changed, and what is seen
    of the map is as before (`WalkEnds`), also when it fails. An array operation is a rearrangement of items
    (`Rearranges`), and what is seen under each index moves with it (`RearrangedMoves`). With Qt's JSON and
    the table, `CallsKeepTheRest`. `NodesDiffer`, a part of `DataAssumption`, says of the
    nodes' strings what the code relies on: numbers are told apart, with and without the point, and no name is one.

Only model-checked:

* liveness, which is out of the prover's reach: `StaleSessionCloses`, `StopReturns`, `DestructorReturns`,
  `EndIsReported`, `ReportsDieOut`, `Progress`, `BuffersComeBack`;
* `JsonKeeps`, which holds only for maps whose order of paths is that of the items: with more than ten, "10"
  comes before "2".

## 7. What is not modelled

* *Recorders and file audio of iOS* (`XXvideoRecorder`, `XXaudioRecorder`, `XXaudioFile*`): what they do
  rests on behaviour of AVFoundation and RemoteIO (when callbacks come after a stop, on which queue)
  that the code neither checks nor states; a model would be of our guesses.
* *The encoder's session* and settings: its failures are VideoToolbox's.
* *The C++ logger* is an unfinished port whose file fifo does not compile; the viewer and the loggers of iOS
  show lines.
* *The 64-bit readers* of `XXbyteOrder` shift an int by 32 and more, which C leaves undefined.
* *Audio player*: `setMute` and the format. *TCP*: `send`, which leaves the handle alone, and host look-up.
* *Queries and thin wrappers*: `XXnet`, platform information, application helpers, quick construction,
  C# value conversions.
* *Layout, animation, painting*: views, toasts, Qt widgets, React Native controls, and the shells that
  set properties of one control.
* *Third-party code*: live555, `C++/third/json`.

## 8. Plan

1. *Proofs*: `JsonKeeps` for maps of up to ten items an array, which needs the two orders to agree.
2. *Composition*: `XXfmRecorder` with the writer of `Mp4File` in place of its record of a handle.
3. *Transport stream*: a run of headers with stuffing that violates `FramesWhole`, and tables in packets with
   an adaptation field (`adjustOffsetForPSI` then skips no pointer field).
4. *Audio player*: `setMute`, the volume that survives a `config`.
