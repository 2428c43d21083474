----------------------------- MODULE XXtsReader -----------------------------
(***************************************************************************)
(* The transport stream reader of C/XXtsReader.c: PAT and PMT packets say  *)
(* which pids carry video and audio, and the packets of these two are      *)
(* collected into frames, each given to a callback when the next starts.   *)
(*                                                                         *)
(* A step is one turn of xxts_reader_push's loop: one packet of a          *)
(* multiplex that may lose packets, change its tables, and be joined in    *)
(* the middle of a frame.  Payloads are chunks with a size.  A pid keeps   *)
(* its codec.  Table packets have no adaptation field, tables fit into one *)
(* packet, and callers push whole packets.                                 *)
(***************************************************************************)
EXTENDS Integers, Sequences
LOCAL INSTANCE FiniteSetsExt

CONSTANTS
  Pid,        \* the pids of elementary streams
  Codec,      \* what each carries: AAC, H264, H265 or other
  PmtPid,     \* the pids of PMT packets
  PAT,        \* what a PAT can say: the pmt pids of its programs, in order
  PMT,        \* what a PMT can say: the pids of its streams, in order
  Header,     \* the PES headers that occur: optional fields and stuffing
  Size,       \* the sizes of chunks
  BufferMax,  \* TS_DATA_VIDEO_BUFFER_MAX and TS_DATA_AUDIO_BUFFER_MAX
  MaxFrame, MaxChunk   \* bounds on the frames, and on the chunks under way, of all pids

VARIABLES
  alive,               \* the handle is created and not freed
  patItem, pmtItem,    \* the items of the tables
  pmtPid, pid, type,   \* pid and type of the video and of the audio
  buffer, length, pts, \* the frame that is being collected of each
  frame,               \* what frameCallBack was given in this step
  es,                  \* the frame being sent on each pid
  table, read,         \* history: the last PMT that was read, and all that were
  collected            \* history: the pid whose frame each buffer has had whole so far

tables == <<patItem, pmtItem, pmtPid, pid, type, table, read>>
frames == <<buffer, length, pts>>
vars == <<alive, tables, frames, frame, es, collected>>

Stream == {"video", "audio"}
NoPid == 0
NoFrame == [stream |-> "none"]

kind(p) == CASE Codec[p] \in {"H264", "H265"} -> "video"
             [] Codec[p] = "AAC" -> "audio"
             [] OTHER -> "none"

ASSUME ReaderAssumption ==
  /\ Pid \subseteq Nat \ {NoPid} /\ PmtPid \subseteq Nat \ {NoPid} /\ Pid \cap PmtPid = {}
  /\ Codec \in [Pid -> {"AAC", "H264", "H265", "other"}]
  /\ PAT \subseteq Seq(PmtPid) /\ PMT \subseteq Seq(Pid)
  /\ Size \subseteq Nat \ {0} /\ BufferMax \in Nat
  /\ MaxFrame \in Nat /\ MaxChunk \in Nat

\* The code does not compare a table's length with that of its array of items.
TS_MAP_ITEM_MAX == 32
ASSUME TableAssumption == \A t \in PAT \cup PMT : Len(t) <= TS_MAP_ITEM_MAX

Init ==
  /\ alive = FALSE
  /\ patItem = <<>> /\ pmtItem = <<>> /\ pmtPid = NoPid
  /\ table = <<>> /\ read = {}
  /\ pid = [s \in Stream |-> NoPid] /\ type = [s \in Stream |-> "Unknown"]
  /\ buffer = [s \in Stream |-> <<>>] /\ length = [s \in Stream |-> 0]
  /\ pts = [s \in Stream |-> 0] /\ collected = [s \in Stream |-> NoPid]
  /\ frame = NoFrame
  /\ es = [p \in Pid |-> [frame |-> 0, chunks |-> <<>>, total |-> 0, pts |-> 0]]

(***************************************************************************)
(* The tables                                                              *)
(***************************************************************************)

\* Variant: an item that exists is kept.
replaceItems_Keep(item, new) ==
  [i \in 1..(IF Len(new) > Len(item) THEN Len(new) ELSE Len(item)) |->
    IF i <= Len(item) THEN item[i] ELSE new[i]]

\* patFromData and pmtFromData replace the first items and leave the rest.
replaceItems(item, new) ==
  [i \in 1..(IF Len(new) > Len(item) THEN Len(new) ELSE Len(item)) |->
    IF i <= Len(new) THEN new[i] ELSE item[i]]

pushPAT ==
  /\ \E pat \in PAT :
       /\ patItem' = replaceItems(patItem, pat)
       /\ pmtPid' = IF patItem' = <<>> THEN pmtPid ELSE patItem'[1]
  /\ frame' = NoFrame
  /\ UNCHANGED <<alive, pmtItem, pid, type, table, read, frames, es, collected>>

\* The last item of a kind wins; a kind that no item has is left as it was.
hasKind(items, s) == \E i \in DOMAIN items : kind(items[i]) = s
isLast(items, s, p) ==
  \E i \in DOMAIN items :
    items[i] = p /\ kind(p) = s /\ \A j \in DOMAIN items : kind(items[j]) = s => j <= i

pushPMT ==
  /\ \E q \in PmtPid, pmt \in PMT :
       IF q = pmtPid
       THEN /\ pmtItem' = replaceItems(pmtItem, pmt) /\ table' = pmt
            /\ read' = read \cup {pmt}
            /\ pid' \in [Stream -> Pid \cup {NoPid}]
            /\ \A s \in Stream : IF hasKind(pmtItem', s) THEN isLast(pmtItem', s, pid'[s])
                                                         ELSE pid'[s] = pid[s]
            /\ type' = [s \in Stream |-> IF hasKind(pmtItem', s) THEN Codec[pid'[s]] ELSE type[s]]
            /\ collected' = [s \in Stream |-> IF pid'[s] = pid[s] THEN collected[s] ELSE NoPid]
       ELSE UNCHANGED <<pmtItem, pid, type, table, read, collected>>
  /\ frame' = NoFrame
  /\ UNCHANGED <<alive, patItem, pmtPid, frames, es>>

(***************************************************************************)
(* The PES header, and the multiplex                                       *)
(***************************************************************************)

\* The optional fields a header can have, with their lengths (ISO 13818-1); one
\* of variable length has its length byte and, here, one byte more.  Those from
\* private_data on occur only with an extension.
fieldLength == [PTS |-> 5, DTS |-> 5, ESCR |-> 6, ES_rate |-> 3, trick_mode |-> 1,
                copy_info |-> 1, CRC |-> 2, extension |-> 1, private_data |-> 16,
                pack_header |-> 2, sequence_counter |-> 2, P_STD |-> 2, extension_2 |-> 2]

\* Where the data begin: PES_header_data_length counts the fields and stuffing.
dataOffset(h) == 9 + MapThenSumSet(LAMBDA f : fieldLength[f], h.fields) + h.stuffing

present(h, f, n) == IF f \in h.fields THEN n ELSE 0

\* The extension's own fields, behind its flags.  The original stuff length is
\* taken for a number of stuffing bytes here.
extensionLength(h) ==
  IF "extension" \notin h.fields THEN 0
  ELSE 1 + present(h, "private_data", 16) + present(h, "pack_header", 1 + 1)
         + present(h, "sequence_counter", 1 + 1 + h.originalStuffLength)
         + present(h, "P_STD", 2) + present(h, "extension_2", 1 + 1)

\* Variant: the dts is not skipped.
pesDataOffset_NoDTS(h) ==
  9 + present(h, "PTS", 1 + 2 + 2) + present(h, "ESCR", 1 + 2 + 2 + 1) + present(h, "ES_rate", 3)
    + present(h, "trick_mode", 1) + present(h, "copy_info", 1) + present(h, "CRC", 2)
    + extensionLength(h)

\* Variant: the time stamp is read for each of the two flags.
pesDataOffset_PTSTwice(h) == pesDataOffset_NoDTS(h) + present(h, "DTS", 10)

\* Where pesHeaderFromData takes the data to begin: it walks the fields and does
\* not use the length the header has.
pesDataOffset(h) ==
  9 + present(h, "PTS", 1 + 2 + 2) + present(h, "DTS", 1 + 2 + 2)
    + present(h, "ESCR", 1 + 2 + 2 + 1) + present(h, "ES_rate", 3)
    + present(h, "trick_mode", 1) + present(h, "copy_info", 1) + present(h, "CRC", 2)
    + extensionLength(h)

ticks(n) == n * 3600                    \* the time stamp of a pid's n-th frame
msec(t) == (t * 1000) \div 90000

chunk(p, f, i) == [pid |-> p, frame |-> f, index |-> i]

sendStart(p, h, size) ==
  LET n == es[p].frame + 1
  IN  /\ MapThenSumSet(LAMBDA q : es[q].frame, Pid) < MaxFrame
      /\ es' = [es EXCEPT ![p] = [frame |-> n, chunks |-> <<chunk(p, n, 1)>>, total |-> size,
                                  pts |-> IF "PTS" \in h.fields THEN ticks(n) ELSE 0]]

sendNext(p, size) ==
  /\ MapThenSumSet(LAMBDA q : Len(es[q].chunks), Pid) < MaxChunk
  /\ es' = [es EXCEPT ![p] =
              [frame |-> @.frame, total |-> @.total + size, pts |-> @.pts,
               chunks |-> Append(@.chunks, chunk(p, @.frame, Len(@.chunks) + 1))]]

sent(p) == es'[p].chunks[Len(es'[p].chunks)]

(***************************************************************************)
(* The frames                                                              *)
(***************************************************************************)

isFollowed(p) == \E s \in Stream : pid[s] = p
streamOf(p) == IF p = pid["video"] THEN "video" ELSE "audio"

\* addVideoData and addAudioData: a chunk that does not fit is dropped.
addData(s, old, oldLength, c, size) ==
  IF oldLength + size > BufferMax
  THEN buffer' = [buffer EXCEPT ![s] = old] /\ length' = [length EXCEPT ![s] = oldLength]
  ELSE /\ buffer' = [buffer EXCEPT ![s] = Append(old, c)]
       /\ length' = [length EXCEPT ![s] = oldLength + size]

frameCallBack(s) ==
  IF length[s] > 0
  THEN frame' = [stream |-> s, data |-> buffer[s], length |-> length[s], pts |-> pts[s],
                 type |-> type[s]]
  ELSE frame' = NoFrame

\* Variant: the buffer is not emptied.
pushStart_NotCleared(p) ==
  /\ isFollowed(p)
  /\ \E h \in Header, size \in Size :
       LET s == streamOf(p)
           received == size + dataOffset(h) - pesDataOffset(h)
       IN  /\ sendStart(p, h, size)
           /\ frameCallBack(s)
           /\ addData(s, buffer[s], length[s], sent(p), received)
           /\ pts' = [pts EXCEPT ![s] = msec(es'[p].pts)]
           /\ collected' = [collected EXCEPT ![s] = p]
  /\ UNCHANGED <<alive, tables>>

pushStart(p) ==
  /\ isFollowed(p)
  /\ \E h \in Header, size \in Size :
       LET s == streamOf(p)
           received == size + dataOffset(h) - pesDataOffset(h)
       IN  /\ sendStart(p, h, size)
           /\ frameCallBack(s)
           /\ addData(s, <<>>, 0, sent(p), received)
           /\ pts' = [pts EXCEPT ![s] = msec(es'[p].pts)]
           /\ collected' = [collected EXCEPT ![s] = p]
  /\ UNCHANGED <<alive, tables>>

pushNext(p) ==
  /\ isFollowed(p)
  /\ \E size \in Size :
       /\ sendNext(p, size)
       /\ addData(streamOf(p), buffer[streamOf(p)], length[streamOf(p)], sent(p), size)
  /\ frame' = NoFrame
  /\ UNCHANGED <<alive, tables, pts, collected>>

\* A packet that is lost on the way, or is of a pid the reader does not know.
passBy(p) ==
  /\ kind(p) \in Stream
  /\ \/ \E h \in Header, size \in Size : sendStart(p, h, size)
     \/ \E size \in Size : sendNext(p, size)
  /\ collected' = [s \in Stream |-> IF collected[s] = p THEN NoPid ELSE collected[s]]
  /\ frame' = NoFrame
  /\ UNCHANGED <<alive, tables, frames>>

xxts_reader_push ==
  alive /\ (pushPAT \/ pushPMT \/ \E p \in Pid : pushStart(p) \/ pushNext(p) \/ passBy(p))

(***************************************************************************)
(* Create and free                                                         *)
(***************************************************************************)

\* The memory is zero when it is created, and nobody's once it is freed.
clear ==
  /\ patItem' = <<>> /\ pmtItem' = <<>> /\ pmtPid' = NoPid
  /\ table' = <<>> /\ read' = {}
  /\ pid' = [s \in Stream |-> NoPid] /\ type' = [s \in Stream |-> "Unknown"]
  /\ buffer' = [s \in Stream |-> <<>>] /\ length' = [s \in Stream |-> 0]
  /\ pts' = [s \in Stream |-> 0] /\ collected' = [s \in Stream |-> NoPid]
  /\ frame' = NoFrame

xxts_reader_create == ~alive /\ alive' = TRUE /\ clear /\ UNCHANGED es
xxts_reader_free == alive /\ alive' = FALSE /\ clear /\ UNCHANGED es

Next == xxts_reader_push \/ xxts_reader_free \/ xxts_reader_create

Spec == Init /\ [][Next]_vars

-----------------------------------------------------------------------------
(***************************************************************************)
(* Properties                                                              *)
(***************************************************************************)

TypeOK ==
  /\ alive \in BOOLEAN
  /\ patItem \in Seq(PmtPid) /\ pmtItem \in Seq(Pid) /\ pmtPid \in PmtPid \cup {NoPid}
  /\ table \in Seq(Pid) /\ read \subseteq PMT
  /\ pid \in [Stream -> Pid \cup {NoPid}]
  /\ type \in [Stream -> {"Unknown", "AAC", "H264", "H265"}]
  /\ buffer \in [Stream -> Seq([pid : Pid, frame : Nat, index : Nat])]
  /\ length \in [Stream -> Nat] /\ pts \in [Stream -> Nat]
  /\ es \in [Pid -> [frame : Nat, chunks : Seq([pid : Pid, frame : Nat, index : Nat]),
                     total : Nat, pts : Nat]]
  /\ collected \in [Stream -> Pid \cup {NoPid}]

\* A frame of which no packet was lost, and that the buffer can hold, is given to
\* the callback when the next one starts: all of its data, its own time stamp and
\* its codec, whatever other frames, tables and losses there were around it.
FramesWhole ==
  [][\A s \in Stream : LET p == collected[s] IN
       /\ p # NoPid /\ collected'[s] = p
       /\ es'[p].frame # es[p].frame /\ es[p].total <= BufferMax
       => frame' = [stream |-> s, data |-> es[p].chunks, length |-> es[p].total,
                    pts |-> msec(es[p].pts), type |-> Codec[p]]]_vars

\* Losses and overflows leave holes but never turn the data of a pid around, and
\* none is given twice: what is still collected was sent after what was given.
before(c, d) == c.frame < d.frame \/ (c.frame = d.frame /\ c.index < d.index)
inOrder(q) == \A i, j \in DOMAIN q : i < j /\ q[i].pid = q[j].pid => before(q[i], q[j])
OrderKept ==
  /\ \A s \in Stream : inOrder(buffer[s])
  /\ frame # NoFrame =>
       /\ inOrder(frame.data)
       /\ \A i \in DOMAIN frame.data, s \in Stream : \A j \in DOMAIN buffer[s] :
            frame.data[i].pid = buffer[s][j].pid => before(frame.data[i], buffer[s][j])

\* A kind of which the last PMT has a stream is followed as its last one, with that stream's
\* codec.  Only an item that a longer table has left behind the end of this one can stand in
\* for it, as long as one of the right kind is there: the reader goes on behind that end.
leftBehind(p) == \E t \in read : \E i \in DOMAIN t : i > Len(table) /\ t[i] = p
FollowsTable ==
  \A s \in Stream : hasKind(table, s) =>
    /\ isLast(table, s, pid[s]) \/ (leftBehind(pid[s]) /\ kind(pid[s]) = s)
    /\ type[s] = Codec[pid[s]]
=============================================================================
