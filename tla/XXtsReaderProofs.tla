-------------------------- MODULE XXtsReaderProofs --------------------------
(***************************************************************************)
(* Theorems about XXtsReader, for any pids, codecs, tables, sizes and      *)
(* bounds; where the lengths matter, for PES headers as HeadersPlain says. *)
(***************************************************************************)
EXTENDS XXtsReader, TLAPS

\* The walk over the optional fields ends where the data begin: no stuffing.
HeadersPlain == \A h \in Header : dataOffset(h) \in Nat /\ pesDataOffset(h) = dataOffset(h)

Chunk == [pid : Pid, frame : Nat, index : Nat]

\* The pids the reader follows carry what it takes them for.
PidKinds ==
  \A s \in Stream : pid[s] # NoPid => kind(pid[s]) = s /\ type[s] = Codec[pid[s]]

\* As long as nothing of a frame was lost, the buffer holds what was sent of it.
CollectedWhole ==
  \A s \in Stream : LET p == collected[s] IN p # NoPid =>
    /\ pid[s] = p /\ es[p].total > 0 /\ pts[s] = msec(es[p].pts)
    /\ es[p].total <= BufferMax => buffer[s] = es[p].chunks /\ length[s] = es[p].total

WInv == TypeOK /\ PidKinds /\ CollectedWhole

\* The last table's items are in front, those behind it are of tables read before, and the
\* pids are those of the last items.
Items ==
  /\ \A i \in DOMAIN pmtItem : i \in DOMAIN table \/ \E t \in read : i \in DOMAIN t /\ pmtItem[i] = t[i]
  /\ \A i \in DOMAIN table : i \in DOMAIN pmtItem /\ pmtItem[i] = table[i]
  /\ DOMAIN table # {} => table \in read
  /\ \A s \in Stream : hasKind(pmtItem, s) =>
       isLast(pmtItem, s, pid[s]) /\ type[s] = Codec[pid[s]]

\* Nothing is collected that was not sent, nor in the buffer of the other kind.
isSent(c) ==
  c.frame < es[c.pid].frame
    \/ (c.frame = es[c.pid].frame /\ c.index <= Len(es[c.pid].chunks))
SentBefore ==
  \A s \in Stream : \A i \in DOMAIN buffer[s] : isSent(buffer[s][i]) /\ kind(buffer[s][i].pid) = s

-----------------------------------------------------------------------------
(***************************************************************************)
(* The steps of a packet                                                   *)
(***************************************************************************)

LEMMA KindType == \A p \in Pid : kind(p) \in {"video", "audio", "none"}
BY DEF kind

\* A pid that is followed is followed as what it carries.
LEMMA StreamOf ==
  ASSUME WInv, NEW p \in Pid, isFollowed(p)
  PROVE  streamOf(p) \in Stream /\ pid[streamOf(p)] = p /\ kind(p) = streamOf(p)
         /\ type[streamOf(p)] = Codec[p] /\ \A s \in Stream : s # streamOf(p) => pid[s] # p
BY ReaderAssumption DEF WInv, TypeOK, PidKinds, isFollowed, streamOf, Stream, NoPid

\* sendStart and sendNext change the pid they send on, and it alone.
LEMMA SendStart ==
  ASSUME TypeOK, NEW p \in Pid, NEW h \in Header, NEW size \in Size, sendStart(p, h, size)
  PROVE  /\ es' \in [Pid -> [frame : Nat, chunks : Seq(Chunk), total : Nat, pts : Nat]]
         /\ \A q \in Pid : q # p => es'[q] = es[q]
         /\ es'[p].frame = es[p].frame + 1 /\ es'[p].total = size /\ size > 0 /\ size \in Nat
         /\ es'[p].chunks = <<sent(p)>> /\ Len(es'[p].chunks) = 1
         /\ sent(p) = chunk(p, es[p].frame + 1, 1) /\ sent(p) \in Chunk
<1> DEFINE n == es[p].frame + 1
<1>1. n \in Nat /\ chunk(p, n, 1) \in Chunk /\ size \in Nat /\ size > 0
  BY ReaderAssumption DEF TypeOK, chunk, Chunk
<1>2. ticks(n) \in Nat  BY <1>1 DEF ticks
<1> DEFINE stamp == IF "PTS" \in h.fields THEN ticks(n) ELSE 0
           new == [frame |-> n, chunks |-> <<chunk(p, n, 1)>>, total |-> size, pts |-> stamp]
<1>3. stamp \in Nat  BY <1>2
<1>4. new \in [frame : Nat, chunks : Seq(Chunk), total : Nat, pts : Nat]
  BY <1>1, <1>3
<1>5. es' = [es EXCEPT ![p] = new]  BY DEF sendStart
<1>6. es \in [Pid -> [frame : Nat, chunks : Seq(Chunk), total : Nat, pts : Nat]]
  BY DEF TypeOK, Chunk
<1>7. es'[p] = new /\ \A q \in Pid : q # p => es'[q] = es[q]  BY <1>5, <1>6
<1>8. Len(<<chunk(p, n, 1)>>) = 1 /\ <<chunk(p, n, 1)>>[1] = chunk(p, n, 1)  OBVIOUS
<1>9. sent(p) = chunk(p, n, 1)  BY <1>7, <1>8 DEF sent
<1> QED  BY <1>1, <1>4, <1>5, <1>6, <1>7, <1>8, <1>9

LEMMA SendNext ==
  ASSUME TypeOK, NEW p \in Pid, NEW size \in Size, sendNext(p, size)
  PROVE  /\ es' \in [Pid -> [frame : Nat, chunks : Seq(Chunk), total : Nat, pts : Nat]]
         /\ \A q \in Pid : q # p => es'[q] = es[q]
         /\ es'[p].frame = es[p].frame /\ es'[p].pts = es[p].pts
         /\ es'[p].total = es[p].total + size /\ size > 0 /\ size \in Nat
         /\ es'[p].chunks = Append(es[p].chunks, sent(p))
         /\ Len(es'[p].chunks) = Len(es[p].chunks) + 1
         /\ sent(p) = chunk(p, es[p].frame, Len(es[p].chunks) + 1) /\ sent(p) \in Chunk
<1> DEFINE old == es[p].chunks
           c == chunk(p, es[p].frame, Len(old) + 1)
<1>1. es \in [Pid -> [frame : Nat, chunks : Seq(Chunk), total : Nat, pts : Nat]]
  BY DEF TypeOK, Chunk
<1>2. old \in Seq(Chunk) /\ Len(old) \in Nat /\ size \in Nat /\ size > 0
  BY <1>1, ReaderAssumption
<1>3. c \in Chunk  BY <1>1, <1>2 DEF chunk, Chunk
<1>4. /\ es'[p] = [frame |-> es[p].frame, total |-> es[p].total + size, pts |-> es[p].pts,
                    chunks |-> Append(old, c)]
      /\ \A q \in Pid : q # p => es'[q] = es[q]
      /\ es' = [es EXCEPT ![p] = es'[p]]
  BY <1>1 DEF sendNext
<1>5. Append(old, c) \in Seq(Chunk) /\ Len(Append(old, c)) = Len(old) + 1
      /\ Append(old, c)[Len(old) + 1] = c
  BY <1>2, <1>3
<1>6. /\ es'[p].chunks = Append(old, c) /\ es'[p].total = es[p].total + size
      /\ es'[p].frame = es[p].frame /\ es'[p].pts = es[p].pts
      /\ es'[p] \in [frame : Nat, chunks : Seq(Chunk), total : Nat, pts : Nat]
  BY <1>1, <1>2, <1>4, <1>5
<1>7. sent(p) = c  BY <1>5, <1>6 DEF sent
<1> QED  BY <1>1, <1>2, <1>3, <1>4, <1>5, <1>6, <1>7

LEMMA AddData ==
  ASSUME TypeOK, NEW s \in Stream, NEW old \in Seq(Chunk), NEW oldLength \in Nat,
         NEW c \in Chunk, NEW size \in Nat, addData(s, old, oldLength, c, size)
  PROVE  /\ buffer' \in [Stream -> Seq(Chunk)] /\ length' \in [Stream -> Nat]
         /\ \A t \in Stream : t # s => buffer'[t] = buffer[t] /\ length'[t] = length[t]
         /\ IF oldLength + size > BufferMax THEN buffer'[s] = old /\ length'[s] = oldLength
            ELSE buffer'[s] = Append(old, c) /\ length'[s] = oldLength + size
<1>1. buffer \in [Stream -> Seq(Chunk)] /\ length \in [Stream -> Nat]  BY DEF TypeOK, Chunk
<1>2. Append(old, c) \in Seq(Chunk) /\ oldLength + size \in Nat  OBVIOUS
<1>3. CASE oldLength + size > BufferMax
  <2>1. /\ buffer' = [buffer EXCEPT ![s] = old] /\ length' = [length EXCEPT ![s] = oldLength]
    BY <1>3 DEF addData
  <2> QED  BY <1>1, <1>3, <2>1
<1>4. CASE ~(oldLength + size > BufferMax)
  <2>1. /\ buffer' = [buffer EXCEPT ![s] = Append(old, c)]
        /\ length' = [length EXCEPT ![s] = oldLength + size]
    BY <1>4 DEF addData
  <2> QED  BY <1>1, <1>2, <1>4, <2>1
<1> QED  BY <1>3, <1>4

-----------------------------------------------------------------------------
(***************************************************************************)
(* The invariant of whole frames                                           *)
(***************************************************************************)

LEMMA Msec == \A t \in Nat : msec(t) \in Nat
BY DEF msec

LEMMA InitWInv == Init => WInv
<1> SUFFICES ASSUME Init PROVE WInv  OBVIOUS
<1>1. TypeOK
  <2> DEFINE new == [frame |-> 0, chunks |-> <<>>, total |-> 0, pts |-> 0]
  <2>1. <<>> \in Seq(PmtPid) /\ <<>> \in Seq(Pid) /\ <<>> \in Seq(Chunk)  OBVIOUS
  <2>2. new \in [frame : Nat, chunks : Seq(Chunk), total : Nat, pts : Nat]  BY <2>1
  <2>3. es \in [Pid -> [frame : Nat, chunks : Seq(Chunk), total : Nat, pts : Nat]]
    BY <2>2 DEF Init
  <2>4. buffer \in [Stream -> Seq(Chunk)]  BY <2>1 DEF Init
  <2>5. patItem \in Seq(PmtPid) /\ pmtItem \in Seq(Pid) /\ table \in Seq(Pid)  BY <2>1 DEF Init
  <2> QED  BY <2>3, <2>4, <2>5 DEF Init, TypeOK, Chunk
<1> QED  BY <1>1 DEF Init, WInv, PidKinds, CollectedWhole, Stream

\* What a table replaces, and what it leaves.
LEMMA Replace ==
  ASSUME NEW S, NEW item \in Seq(S), NEW new \in Seq(S)
  PROVE  LET r == replaceItems(item, new) IN
         /\ r \in Seq(S)
         /\ DOMAIN r = DOMAIN item \cup DOMAIN new
         /\ \A i \in DOMAIN r : r[i] = IF i \in DOMAIN new THEN new[i] ELSE item[i]
<1> DEFINE n == IF Len(new) > Len(item) THEN Len(new) ELSE Len(item)
           f == [i \in 1..n |-> IF i <= Len(new) THEN new[i] ELSE item[i]]
<1>1. n \in Nat /\ DOMAIN item = 1..Len(item) /\ DOMAIN new = 1..Len(new)
      /\ Len(item) \in Nat /\ Len(new) \in Nat
  OBVIOUS
<1>2. \A i \in 1..n : f[i] = (IF i \in DOMAIN new THEN new[i] ELSE item[i]) /\ f[i] \in S
  BY <1>1
<1>3. f \in Seq(S)  BY <1>1, <1>2
<1>4. DOMAIN f = DOMAIN item \cup DOMAIN new  BY <1>1
<1> QED  BY <1>2, <1>3, <1>4 DEF replaceItems

LEMMA PATWInv == ASSUME WInv, pushPAT PROVE WInv'
<1> PICK pat \in PAT : /\ patItem' = replaceItems(patItem, pat)
                       /\ pmtPid' = IF patItem' = <<>> THEN pmtPid ELSE patItem'[1]
  BY DEF pushPAT
<1>1. patItem \in Seq(PmtPid) /\ pat \in Seq(PmtPid)  BY ReaderAssumption DEF WInv, TypeOK
<1>2. patItem' \in Seq(PmtPid)  BY <1>1, Replace
<1>3. pmtPid' \in PmtPid \cup {NoPid}  BY <1>2 DEF WInv, TypeOK
<1>4. TypeOK'  BY <1>2, <1>3 DEF WInv, TypeOK, pushPAT, frames
<1> QED  BY <1>4 DEF WInv, PidKinds, CollectedWhole, pushPAT, frames

LEMMA PMTWInv == ASSUME WInv, pushPMT PROVE WInv'
<1> PICK q \in PmtPid, pmt \in PMT :
       IF q = pmtPid
       THEN /\ pmtItem' = replaceItems(pmtItem, pmt) /\ table' = pmt
            /\ read' = read \cup {pmt}
            /\ pid' \in [Stream -> Pid \cup {NoPid}]
            /\ \A s \in Stream : IF hasKind(pmtItem', s) THEN isLast(pmtItem', s, pid'[s])
                                                         ELSE pid'[s] = pid[s]
            /\ type' = [s \in Stream |-> IF hasKind(pmtItem', s) THEN Codec[pid'[s]] ELSE type[s]]
            /\ collected' = [s \in Stream |-> IF pid'[s] = pid[s] THEN collected[s] ELSE NoPid]
       ELSE UNCHANGED <<pmtItem, pid, type, table, read, collected>>
  BY DEF pushPMT
<1>1. CASE q # pmtPid
  BY <1>1 DEF WInv, TypeOK, PidKinds, CollectedWhole, pushPMT, frames
<1>2. CASE q = pmtPid
  <2>1. pmtItem \in Seq(Pid) /\ pmt \in Seq(Pid)  BY ReaderAssumption DEF WInv, TypeOK
  <2>2. pmtItem' \in Seq(Pid) /\ table' \in Seq(Pid)
    <3>1. replaceItems(pmtItem, pmt) \in Seq(Pid)  BY <2>1, Replace
    <3> QED  BY <1>2, <2>1, <3>1
  <2>3. ASSUME NEW s \in Stream, hasKind(pmtItem', s)
        PROVE  pid'[s] \in Pid /\ kind(pid'[s]) = s /\ type'[s] = Codec[pid'[s]]
               /\ type'[s] \in {"AAC", "H264", "H265"}
    <3>1. PICK i \in DOMAIN pmtItem' : pmtItem'[i] = pid'[s] /\ kind(pid'[s]) = s
      BY <1>2, <2>3 DEF isLast
    <3>2. pid'[s] \in Pid /\ type'[s] = Codec[pid'[s]]  BY <1>2, <2>2, <2>3, <3>1
    <3> QED  BY <3>1, <3>2, ReaderAssumption DEF kind, Stream
  <2>4. ASSUME NEW s \in Stream, ~hasKind(pmtItem', s)
        PROVE  pid'[s] = pid[s] /\ type'[s] = type[s]
    BY <1>2, <2>4
  <2>5. TypeOK'
    <3>1. type' \in [Stream -> {"Unknown", "AAC", "H264", "H265"}]
      BY <1>2, <2>3, <2>4 DEF WInv, TypeOK
    <3>2. collected' \in [Stream -> Pid \cup {NoPid}]  BY <1>2 DEF WInv, TypeOK
    <3> QED  BY <1>2, <2>2, <3>1, <3>2 DEF WInv, TypeOK, pushPMT, frames
  <2>6. PidKinds'  BY <2>3, <2>4 DEF WInv, PidKinds
  <2>7. CollectedWhole'
    <3>1. \A s \in Stream : collected'[s] # NoPid => pid'[s] = pid[s] /\ collected'[s] = collected[s]
      BY <1>2
    <3> QED  BY <3>1 DEF WInv, CollectedWhole, pushPMT, frames
  <2> QED  BY <2>5, <2>6, <2>7 DEF WInv
<1> QED  BY <1>1, <1>2

LEMMA StartWInv ==
  ASSUME WInv, HeadersPlain, NEW p \in Pid, pushStart(p)
  PROVE  WInv'
<1> DEFINE s == streamOf(p)
<1> PICK h \in Header, size \in Size :
      LET received == size + dataOffset(h) - pesDataOffset(h)
      IN  /\ sendStart(p, h, size)
          /\ addData(s, <<>>, 0, sent(p), received)
          /\ pts' = [pts EXCEPT ![s] = msec(es'[p].pts)]
          /\ collected' = [collected EXCEPT ![s] = p]
  BY DEF pushStart
<1> USE DEF WInv
<1>1. s \in Stream /\ pid[s] = p /\ \A t \in Stream : t # s => pid[t] # p
  BY StreamOf DEF pushStart
<1>2. size \in Nat /\ size > 0 /\ size + dataOffset(h) - pesDataOffset(h) = size
  BY ReaderAssumption DEF HeadersPlain
<1>3. sendStart(p, h, size) /\ addData(s, <<>>, 0, sent(p), size)  BY <1>2
<1>4. /\ es' \in [Pid -> [frame : Nat, chunks : Seq(Chunk), total : Nat, pts : Nat]]
      /\ \A q \in Pid : q # p => es'[q] = es[q]
      /\ es'[p].total = size /\ es'[p].chunks = <<sent(p)>> /\ sent(p) \in Chunk
  BY <1>3, SendStart
<1>5. /\ buffer' \in [Stream -> Seq(Chunk)] /\ length' \in [Stream -> Nat]
      /\ \A t \in Stream : t # s => buffer'[t] = buffer[t] /\ length'[t] = length[t]
      /\ size <= BufferMax => buffer'[s] = Append(<<>>, sent(p)) /\ length'[s] = size
  <2>1. <<>> \in Seq(Chunk) /\ 0 \in Nat /\ 0 + size = size  BY <1>2
  <2>2. addData(s, <<>>, 0, sent(p), size) /\ sent(p) \in Chunk  BY <1>3, <1>4
  <2>3. /\ buffer' \in [Stream -> Seq(Chunk)] /\ length' \in [Stream -> Nat]
        /\ \A t \in Stream : t # s => buffer'[t] = buffer[t] /\ length'[t] = length[t]
        /\ IF 0 + size > BufferMax THEN buffer'[s] = <<>> /\ length'[s] = 0
           ELSE buffer'[s] = Append(<<>>, sent(p)) /\ length'[s] = 0 + size
    BY <1>1, <1>2, <2>1, <2>2, AddData
  <2>4. size <= BufferMax => ~(0 + size > BufferMax)  BY <1>2, <2>1, ReaderAssumption
  <2> QED  BY <2>1, <2>3, <2>4
<1>6. Append(<<>>, sent(p)) = <<sent(p)>>  OBVIOUS
<1>7. pts' \in [Stream -> Nat]  BY <1>4, Msec DEF TypeOK
<1>8. collected' \in [Stream -> Pid \cup {NoPid}]  BY <1>1 DEF TypeOK
<1>9. TypeOK'  BY <1>4, <1>5, <1>7, <1>8 DEF TypeOK, pushStart, tables, Chunk
<1>10. PidKinds'  BY DEF PidKinds, pushStart, tables
<1>11. CollectedWhole'
  <2>1. /\ collected'[s] = p /\ pts'[s] = msec(es'[p].pts) /\ pid'[s] = p
        /\ \A t \in Stream : t # s => pts'[t] = pts[t] /\ collected'[t] = collected[t]
    BY <1>1 DEF TypeOK, pushStart, tables
  <2>2. pid' = pid  BY DEF pushStart, tables
  <2>3. \A t \in Stream : t # s /\ collected[t] # NoPid => collected[t] # p /\ collected[t] \in Pid
    BY <1>1 DEF CollectedWhole, TypeOK
  <2> SUFFICES ASSUME NEW t \in Stream, collected'[t] # NoPid
               PROVE  LET q == collected'[t] IN
                      /\ pid'[t] = q /\ es'[q].total > 0 /\ pts'[t] = msec(es'[q].pts)
                      /\ es'[q].total <= BufferMax =>
                           buffer'[t] = es'[q].chunks /\ length'[t] = es'[q].total
    BY DEF CollectedWhole
  <2>4. CASE t = s  BY <1>2, <1>4, <1>5, <1>6, <2>1, <2>4
  <2>5. CASE t # s
    <3>1. collected'[t] = collected[t] /\ pts'[t] = pts[t] /\ buffer'[t] = buffer[t]
          /\ length'[t] = length[t]
      BY <1>5, <2>1, <2>5
    <3>2. es'[collected[t]] = es[collected[t]]  BY <1>4, <2>3, <2>5, <3>1
    <3> QED  BY <2>2, <3>1, <3>2 DEF CollectedWhole
  <2> QED  BY <2>4, <2>5
<1> QED  BY <1>9, <1>10, <1>11

LEMMA NextWInv ==
  ASSUME WInv, NEW p \in Pid, pushNext(p)
  PROVE  WInv'
<1> DEFINE s == streamOf(p)
<1> PICK size \in Size : sendNext(p, size) /\ addData(s, buffer[s], length[s], sent(p), size)
  BY DEF pushNext
<1> USE DEF WInv
<1>1. s \in Stream /\ pid[s] = p /\ \A t \in Stream : t # s => pid[t] # p
  BY StreamOf DEF pushNext
<1>2. /\ es' \in [Pid -> [frame : Nat, chunks : Seq(Chunk), total : Nat, pts : Nat]]
      /\ \A q \in Pid : q # p => es'[q] = es[q]
      /\ es'[p].pts = es[p].pts /\ es'[p].total = es[p].total + size /\ size \in Nat
      /\ es'[p].chunks = Append(es[p].chunks, sent(p)) /\ sent(p) \in Chunk
  BY SendNext
<1>3. buffer[s] \in Seq(Chunk) /\ length[s] \in Nat  BY <1>1 DEF TypeOK, Chunk
<1>4. /\ buffer' \in [Stream -> Seq(Chunk)] /\ length' \in [Stream -> Nat]
      /\ \A t \in Stream : t # s => buffer'[t] = buffer[t] /\ length'[t] = length[t]
      /\ length[s] + size <= BufferMax =>
           buffer'[s] = Append(buffer[s], sent(p)) /\ length'[s] = length[s] + size
  <2>1. /\ buffer' \in [Stream -> Seq(Chunk)] /\ length' \in [Stream -> Nat]
        /\ \A t \in Stream : t # s => buffer'[t] = buffer[t] /\ length'[t] = length[t]
        /\ IF length[s] + size > BufferMax THEN buffer'[s] = buffer[s] /\ length'[s] = length[s]
           ELSE buffer'[s] = Append(buffer[s], sent(p)) /\ length'[s] = length[s] + size
    BY <1>1, <1>2, <1>3, AddData
  <2>2. length[s] + size <= BufferMax => ~(length[s] + size > BufferMax)
    BY <1>2, <1>3, ReaderAssumption
  <2> QED  BY <2>1, <2>2
<1>5. TypeOK'  BY <1>2, <1>4 DEF TypeOK, pushNext, tables, Chunk
<1>6. PidKinds'  BY DEF PidKinds, pushNext, tables
<1>7. CollectedWhole'
  <2>1. pid' = pid /\ pts' = pts /\ collected' = collected  BY DEF pushNext, tables
  <2>2. \A t \in Stream : collected[t] # NoPid => collected[t] \in Pid /\ collected[t] = pid[t]
    BY DEF CollectedWhole, TypeOK
  <2>3. \A q \in Pid : es[q].total \in Nat  BY DEF TypeOK
  <2> SUFFICES ASSUME NEW t \in Stream, collected[t] # NoPid
               PROVE  LET q == collected[t] IN
                      /\ pid[t] = q /\ es'[q].total > 0 /\ pts[t] = msec(es'[q].pts)
                      /\ es'[q].total <= BufferMax =>
                           buffer'[t] = es'[q].chunks /\ length'[t] = es'[q].total
    BY <2>1 DEF CollectedWhole
  <2>4. CASE t = s
    <3>1. collected[t] = p /\ p # NoPid  BY <1>1, <2>2, <2>4
    <3>2. /\ es[p].total > 0 /\ pts[s] = msec(es[p].pts)
          /\ es[p].total <= BufferMax => buffer[s] = es[p].chunks /\ length[s] = es[p].total
      BY <2>4, <3>1 DEF CollectedWhole
    <3>3. es[p].total + size <= BufferMax => es[p].total <= BufferMax
      BY <1>2, <2>3, ReaderAssumption
    <3>4. es'[p].total > 0 /\ pts[t] = msec(es'[p].pts) /\ pid[t] = p
      BY <1>1, <1>2, <2>3, <2>4, <3>2
    <3>5. ASSUME es'[p].total <= BufferMax
          PROVE  buffer'[t] = es'[p].chunks /\ length'[t] = es'[p].total
      <4>1. buffer[s] = es[p].chunks /\ length[s] = es[p].total  BY <1>2, <3>2, <3>3, <3>5
      <4>2. length[s] + size <= BufferMax  BY <1>2, <3>5, <4>1
      <4> QED  BY <1>2, <1>4, <2>4, <4>1, <4>2
    <3> QED  BY <3>1, <3>4, <3>5
  <2>5. CASE t # s
    <3>1. collected[t] \in Pid /\ collected[t] # p  BY <1>1, <2>2, <2>5
    <3>2. es'[collected[t]] = es[collected[t]]  BY <1>2, <3>1
    <3>3. buffer'[t] = buffer[t] /\ length'[t] = length[t]  BY <1>4, <2>5
    <3> QED  BY <3>2, <3>3 DEF CollectedWhole
  <2> QED  BY <2>4, <2>5
<1> QED  BY <1>5, <1>6, <1>7

LEMMA PassWInv ==
  ASSUME WInv, NEW p \in Pid, passBy(p)
  PROVE  WInv'
<1> USE DEF WInv
<1>1. /\ es' \in [Pid -> [frame : Nat, chunks : Seq(Chunk), total : Nat, pts : Nat]]
      /\ \A q \in Pid : q # p => es'[q] = es[q]
  <2>1. CASE \E h \in Header, size \in Size : sendStart(p, h, size)  BY <2>1, SendStart
  <2>2. CASE \E size \in Size : sendNext(p, size)  BY <2>2, SendNext
  <2> QED  BY <2>1, <2>2 DEF passBy
<1>2. collected' \in [Stream -> Pid \cup {NoPid}]  BY DEF TypeOK, passBy
<1>3. TypeOK'  BY <1>1, <1>2 DEF TypeOK, passBy, tables, frames, Chunk
<1>4. PidKinds'  BY DEF PidKinds, passBy, tables
<1>5. \A t \in Stream : collected'[t] # NoPid =>
        collected'[t] = collected[t] /\ collected[t] # p /\ collected[t] \in Pid
  BY DEF passBy, TypeOK
<1>6. CollectedWhole'  BY <1>1, <1>5 DEF CollectedWhole, passBy, tables, frames
<1> QED  BY <1>3, <1>4, <1>6

LEMMA ClearWInv == ASSUME WInv, alive' \in BOOLEAN, clear, UNCHANGED es PROVE WInv'
<1>1. TypeOK'
  <2>1. <<>> \in Seq(PmtPid) /\ <<>> \in Seq(Pid) /\ <<>> \in Seq(Chunk)  OBVIOUS
  <2>2. buffer' \in [Stream -> Seq(Chunk)]  BY <2>1 DEF clear
  <2>3. patItem' \in Seq(PmtPid) /\ pmtItem' \in Seq(Pid) /\ table' \in Seq(Pid)
    BY <2>1 DEF clear
  <2> QED  BY <2>2, <2>3 DEF clear, WInv, TypeOK, Chunk
<1> QED  BY <1>1 DEF clear, WInv, PidKinds, CollectedWhole, Stream

LEMMA StepWInv == ASSUME WInv, HeadersPlain, [Next]_vars PROVE WInv'
<1>1. CASE xxts_reader_push
  BY <1>1, PATWInv, PMTWInv, StartWInv, NextWInv, PassWInv DEF xxts_reader_push
<1>2. CASE xxts_reader_free \/ xxts_reader_create
  BY <1>2, ClearWInv DEF xxts_reader_free, xxts_reader_create
<1>3. CASE UNCHANGED vars
  BY <1>3 DEF WInv, TypeOK, PidKinds, CollectedWhole, vars, tables, frames
<1> QED  BY <1>1, <1>2, <1>3 DEF Next

\* Every variable of the reader keeps its type.
THEOREM TypeCorrect == ASSUME HeadersPlain PROVE Spec => []TypeOK
<1>1. WInv /\ [Next]_vars => WInv'  BY StepWInv
<1>2. WInv => TypeOK  BY DEF WInv
<1> QED  BY InitWInv, <1>1, <1>2, PTL DEF Spec

-----------------------------------------------------------------------------
(***************************************************************************)
(* Whole frames                                                            *)
(***************************************************************************)

WholeStep(s) ==
  LET p == collected[s] IN
    /\ p # NoPid /\ collected'[s] = p
    /\ es'[p].frame # es[p].frame /\ es[p].total <= BufferMax
    => frame' = [stream |-> s, data |-> es[p].chunks, length |-> es[p].total,
                 pts |-> msec(es[p].pts), type |-> Codec[p]]

\* Only a packet that starts a frame on p ends the one before.
LEMMA StartWhole ==
  ASSUME WInv, NEW p \in Pid, pushStart(p), NEW s \in Stream
  PROVE  WholeStep(s)
<1> SUFFICES ASSUME collected[s] # NoPid, es'[collected[s]].frame # es[collected[s]].frame,
                    es[collected[s]].total <= BufferMax
             PROVE  frame' = [stream |-> s, data |-> es[collected[s]].chunks,
                              length |-> es[collected[s]].total,
                              pts |-> msec(es[collected[s]].pts), type |-> Codec[collected[s]]]
  BY DEF WholeStep
<1> PICK h \in Header, size \in Size : sendStart(p, h, size) /\ frameCallBack(streamOf(p))
  BY DEF pushStart
<1>1. collected[s] \in Pid /\ pid[s] = collected[s]  BY DEF WInv, TypeOK, CollectedWhole
<1>2. collected[s] = p  BY <1>1, SendStart DEF WInv
<1>3. streamOf(p) = s /\ type[s] = Codec[p]  BY <1>1, <1>2, StreamOf DEF pushStart
<1>4. /\ es[p].total > 0 /\ pts[s] = msec(es[p].pts)
      /\ buffer[s] = es[p].chunks /\ length[s] = es[p].total
  BY <1>2 DEF WInv, CollectedWhole
<1>5. length[s] > 0  BY <1>4
<1> QED  BY <1>2, <1>3, <1>4, <1>5 DEF frameCallBack

LEMMA StepWhole == ASSUME WInv, [Next]_vars, NEW s \in Stream PROVE WholeStep(s)
<1>1. \A p \in Pid : pushStart(p) => WholeStep(s)  BY StartWhole
<1>2. ASSUME NEW p \in Pid, pushNext(p) PROVE WholeStep(s)
  <2>1. PICK size \in Size : sendNext(p, size)  BY <1>2 DEF pushNext
  <2>2. \A q \in Pid : es'[q].frame = es[q].frame  BY <2>1, SendNext DEF WInv
  <2> QED  BY <2>2 DEF WholeStep, WInv, TypeOK
<1>3. ASSUME NEW p \in Pid, passBy(p) PROVE WholeStep(s)
  <2>1. \A q \in Pid : q # p => es'[q] = es[q]
    BY <1>3, SendStart, SendNext DEF passBy, WInv
  <2>2. collected[s] = p => collected'[s] = NoPid  BY <1>3 DEF passBy
  <2>3. collected[s] \in Pid \cup {NoPid}  BY DEF WInv, TypeOK
  <2> QED  BY <2>1, <2>2, <2>3 DEF WholeStep
<1>4. UNCHANGED es => WholeStep(s)  BY DEF WholeStep
<1> QED
  BY <1>1, <1>2, <1>3, <1>4 DEF Next, xxts_reader_push, pushPAT, pushPMT, xxts_reader_create,
                                xxts_reader_free, vars

\* A frame that the buffer can hold and of which nothing was lost reaches the
\* callback as it was sent, with its own time stamp and codec.
THEOREM FramesGivenWhole == ASSUME HeadersPlain PROVE Spec => FramesWhole
<1>1. WInv /\ [Next]_vars => WInv'  BY StepWInv
<1>2. ASSUME WInv, [Next]_vars
      PROVE  [\A s \in Stream : LET p == collected[s] IN
                /\ p # NoPid /\ collected'[s] = p
                /\ es'[p].frame # es[p].frame /\ es[p].total <= BufferMax
                => frame' = [stream |-> s, data |-> es[p].chunks, length |-> es[p].total,
                             pts |-> msec(es[p].pts), type |-> Codec[p]]]_vars
  <2>1. \A s \in Stream : WholeStep(s)  BY <1>2, StepWhole
  <2> QED  BY <2>1 DEF WholeStep
<1> QED  BY InitWInv, <1>1, <1>2, PTL DEF Spec, FramesWhole

-----------------------------------------------------------------------------
(***************************************************************************)
(* The table that is followed                                              *)
(***************************************************************************)

ItemsInv == pmtItem \in Seq(Pid) /\ table \in Seq(Pid) /\ Items

LEMMA PMTItems == ASSUME ItemsInv, pushPMT PROVE ItemsInv'
<1> USE DEF ItemsInv
<1> PICK q \in PmtPid, pmt \in PMT :
       IF q = pmtPid
       THEN /\ pmtItem' = replaceItems(pmtItem, pmt) /\ table' = pmt
            /\ read' = read \cup {pmt}
            /\ pid' \in [Stream -> Pid \cup {NoPid}]
            /\ \A s \in Stream : IF hasKind(pmtItem', s) THEN isLast(pmtItem', s, pid'[s])
                                                         ELSE pid'[s] = pid[s]
            /\ type' = [s \in Stream |-> IF hasKind(pmtItem', s) THEN Codec[pid'[s]] ELSE type[s]]
            /\ collected' = [s \in Stream |-> IF pid'[s] = pid[s] THEN collected[s] ELSE NoPid]
       ELSE UNCHANGED <<pmtItem, pid, type, table, read, collected>>
  BY DEF pushPMT
<1>1. CASE q # pmtPid  BY <1>1 DEF Items
<1>2. CASE q = pmtPid
  <2>1. pmtItem \in Seq(Pid) /\ pmt \in Seq(Pid)  BY ReaderAssumption
  <2>2. /\ DOMAIN pmtItem' = DOMAIN pmtItem \cup DOMAIN pmt
        /\ \A i \in DOMAIN pmtItem' :
             pmtItem'[i] = IF i \in DOMAIN pmt THEN pmt[i] ELSE pmtItem[i]
    <3> DEFINE r == replaceItems(pmtItem, pmt)
    <3>1. /\ DOMAIN r = DOMAIN pmtItem \cup DOMAIN pmt
          /\ \A i \in DOMAIN r : r[i] = IF i \in DOMAIN pmt THEN pmt[i] ELSE pmtItem[i]
      <4>1. \A item, new \in Seq(Pid) :
              /\ DOMAIN replaceItems(item, new) = DOMAIN item \cup DOMAIN new
              /\ \A i \in DOMAIN replaceItems(item, new) :
                   replaceItems(item, new)[i] = IF i \in DOMAIN new THEN new[i] ELSE item[i]
        BY Replace
      <4> QED BY <2>1, <4>1
    <3>2. pmtItem' = r  BY <1>2
    <3> HIDE DEF r
    <3> QED  BY <3>1, <3>2
  <2>3. ASSUME NEW i \in DOMAIN pmtItem', i \notin DOMAIN table'
        PROVE  \E t \in read' : i \in DOMAIN t /\ pmtItem'[i] = t[i]
    <3>1. table' = pmt /\ read' = read \cup {pmt}  BY <1>2
    <3>2. i \in DOMAIN pmtItem /\ pmtItem'[i] = pmtItem[i]  BY <2>2, <2>3, <3>1
    <3>3. CASE i \in DOMAIN table
      <4>1. table \in read  BY <3>3 DEF Items
      <4>2. pmtItem[i] = table[i]  BY <3>3 DEF Items
      <4> QED  BY <3>1, <3>2, <3>3, <4>1, <4>2
    <3>4. CASE i \notin DOMAIN table  BY <3>1, <3>2, <3>4 DEF Items
    <3> QED  BY <3>3, <3>4
  <2>4. \A i \in DOMAIN table' : i \in DOMAIN pmtItem' /\ pmtItem'[i] = table'[i]
    BY <1>2, <2>2
  <2>5. DOMAIN table' # {} => table' \in read'  BY <1>2
  <2>6. ASSUME NEW s \in Stream, hasKind(pmtItem', s)
        PROVE  isLast(pmtItem', s, pid'[s]) /\ type'[s] = Codec[pid'[s]]
    BY <1>2, <2>6
  <2>7. pmtItem' \in Seq(Pid)
    <3>1. replaceItems(pmtItem, pmt) \in Seq(Pid)  BY <2>1, Replace
    <3> QED  BY <1>2, <3>1
  <2>8. Items'
    <3>1. \A i \in DOMAIN pmtItem' :
            i \in DOMAIN table' \/ \E t \in read' : i \in DOMAIN t /\ pmtItem'[i] = t[i]
      BY <2>3
    <3>2. \A s \in Stream : hasKind(pmtItem', s) => isLast(pmtItem', s, pid'[s])
                                                   /\ type'[s] = Codec[pid'[s]]
      BY <2>6
    <3> QED  BY <2>4, <2>5, <3>1, <3>2 DEF Items, hasKind, isLast, kind
  <2>9. table' \in Seq(Pid)  BY <1>2, <2>1
  <2> QED  BY <2>7, <2>8, <2>9
<1> QED  BY <1>1, <1>2

LEMMA StepItems == ASSUME ItemsInv, [Next]_vars PROVE ItemsInv'
<1>1. CASE UNCHANGED tables \/ pushPAT  BY <1>1 DEF ItemsInv, Items, tables, pushPAT
<1>2. CASE clear
  <2>1. <<>> \in Seq(Pid)  OBVIOUS
  <2> QED  BY <1>2, <2>1 DEF ItemsInv, Items, clear, hasKind
<1>3. CASE pushPMT  BY <1>3, PMTItems
<1>4. (\E p \in Pid : pushStart(p) \/ pushNext(p) \/ passBy(p)) => UNCHANGED tables
  BY DEF pushStart, pushNext, passBy
<1> QED
  BY <1>1, <1>2, <1>3, <1>4 DEF Next, xxts_reader_push, xxts_reader_create, xxts_reader_free, vars

\* For each kind that the last table has, the reader follows its last stream in that table
\* with the right codec, unless a longer table before has left one of the kind behind its end.
THEOREM TableFollowed == Spec => []FollowsTable
<1>1. Init => ItemsInv
  <2>1. <<>> \in Seq(Pid)  OBVIOUS
  <2> QED  BY <2>1 DEF Init, ItemsInv, Items, hasKind
<1>2. ItemsInv /\ [Next]_vars => ItemsInv'  BY StepItems
<1>3. ItemsInv => FollowsTable
  <2> SUFFICES ASSUME ItemsInv, NEW s \in Stream, hasKind(table, s)
               PROVE  /\ isLast(table, s, pid[s]) \/ (leftBehind(pid[s]) /\ kind(pid[s]) = s)
                      /\ type[s] = Codec[pid[s]]
    BY DEF FollowsTable
  <2>1. \A i \in DOMAIN table : i \in DOMAIN pmtItem /\ pmtItem[i] = table[i]
    BY DEF ItemsInv, Items
  <2>2. hasKind(pmtItem, s)  BY <2>1 DEF hasKind
  <2>3. isLast(pmtItem, s, pid[s]) /\ type[s] = Codec[pid[s]]  BY <2>2 DEF ItemsInv, Items
  <2>4. PICK i \in DOMAIN pmtItem :
          /\ pmtItem[i] = pid[s] /\ kind(pid[s]) = s
          /\ \A j \in DOMAIN pmtItem : kind(pmtItem[j]) = s => j <= i
    BY <2>3 DEF isLast
  <2>5. CASE i \in DOMAIN table
    <3>1. isLast(table, s, pid[s])  BY <2>1, <2>4, <2>5 DEF isLast
    <3> QED  BY <2>3, <3>1
  <2>6. CASE i \notin DOMAIN table
    <3>1. PICK t \in read : i \in DOMAIN t /\ pmtItem[i] = t[i]
      BY <2>6 DEF ItemsInv, Items
    <3>2. i > Len(table)  BY <2>6 DEF ItemsInv
    <3>3. leftBehind(pid[s])  BY <2>4, <3>1, <3>2 DEF leftBehind
    <3> QED  BY <2>3, <2>4, <3>3
  <2> QED  BY <2>5, <2>6
<1> QED  BY <1>1, <1>2, <1>3, PTL DEF Spec

-----------------------------------------------------------------------------
(***************************************************************************)
(* The order of the data                                                   *)
(***************************************************************************)

\* A packet is sent after everything sent on its pid before.
Follows(p) ==
  /\ es' \in [Pid -> [frame : Nat, chunks : Seq(Chunk), total : Nat, pts : Nat]]
  /\ sent(p) \in Chunk /\ sent(p).pid = p
  /\ \A c \in Chunk : isSent(c) => isSent(c)' /\ (c.pid = p => before(c, sent(p)))
  /\ \A c \in Chunk : c = sent(p) => isSent(c)'

LEMMA StartFollows ==
  ASSUME TypeOK, NEW p \in Pid, NEW h \in Header, NEW size \in Size, sendStart(p, h, size)
  PROVE  Follows(p)
<1>1. /\ es' \in [Pid -> [frame : Nat, chunks : Seq(Chunk), total : Nat, pts : Nat]]
      /\ \A q \in Pid : q # p => es'[q] = es[q]
      /\ es'[p].frame = es[p].frame + 1 /\ Len(es'[p].chunks) = 1
      /\ sent(p) = chunk(p, es[p].frame + 1, 1) /\ sent(p) \in Chunk
  BY SendStart
<1>2. sent(p).pid = p /\ sent(p).frame = es[p].frame + 1 /\ sent(p).index = 1
  BY <1>1 DEF chunk
<1>3. es[p].frame \in Nat  BY DEF TypeOK
<1>4. ASSUME NEW c \in Chunk, isSent(c)
      PROVE  isSent(c)' /\ (c.pid = p => before(c, sent(p)))
  <2>1. c.pid \in Pid /\ c.frame \in Nat  BY DEF Chunk
  <2>2. CASE c.pid = p
    <3>1. c.frame <= es[p].frame  BY <1>3, <1>4, <2>1, <2>2 DEF isSent
    <3>2. c.frame < es[p].frame + 1  BY <1>3, <2>1, <3>1
    <3> QED  BY <1>1, <1>2, <2>2, <3>2 DEF isSent, before
  <2>3. CASE c.pid # p  BY <1>1, <1>4, <2>1, <2>3 DEF isSent
  <2> QED  BY <2>2, <2>3
<1>5. \A c \in Chunk : c = sent(p) => isSent(c)'
  <2>1. sent(p).index <= Len(es'[p].chunks)  BY <1>1, <1>2
  <2> QED  BY <1>1, <1>2, <2>1 DEF isSent
<1> QED  BY <1>1, <1>2, <1>4, <1>5 DEF Follows

LEMMA NextFollows ==
  ASSUME TypeOK, NEW p \in Pid, NEW size \in Size, sendNext(p, size)
  PROVE  Follows(p)
<1>1. /\ es' \in [Pid -> [frame : Nat, chunks : Seq(Chunk), total : Nat, pts : Nat]]
      /\ \A q \in Pid : q # p => es'[q] = es[q]
      /\ es'[p].frame = es[p].frame /\ Len(es'[p].chunks) = Len(es[p].chunks) + 1
      /\ sent(p) = chunk(p, es[p].frame, Len(es[p].chunks) + 1) /\ sent(p) \in Chunk
  BY SendNext
<1>2. sent(p).pid = p /\ sent(p).frame = es[p].frame /\ sent(p).index = Len(es[p].chunks) + 1
  BY <1>1 DEF chunk
<1>3. es[p].frame \in Nat /\ Len(es[p].chunks) \in Nat  BY DEF TypeOK
<1>4. ASSUME NEW c \in Chunk, isSent(c)
      PROVE  isSent(c)' /\ (c.pid = p => before(c, sent(p)))
  <2>1. c.pid \in Pid /\ c.frame \in Nat /\ c.index \in Nat  BY DEF Chunk
  <2>2. CASE c.pid = p
    <3>1. c.frame < es[p].frame \/ (c.frame = es[p].frame /\ c.index < Len(es[p].chunks) + 1)
      BY <1>3, <1>4, <2>1, <2>2 DEF isSent
    <3>2. c.frame < es'[p].frame \/ (c.frame = es'[p].frame /\ c.index <= Len(es'[p].chunks))
      BY <1>1, <1>3, <2>1, <3>1
    <3> QED  BY <1>2, <2>2, <3>1, <3>2 DEF isSent, before
  <2>3. CASE c.pid # p  BY <1>1, <1>4, <2>1, <2>3 DEF isSent
  <2> QED  BY <2>2, <2>3
<1>5. \A c \in Chunk : c = sent(p) => isSent(c)'
  <2>1. sent(p).index <= Len(es'[p].chunks)  BY <1>1, <1>2, <1>3
  <2> QED  BY <1>1, <1>2, <2>1 DEF isSent
<1> QED  BY <1>1, <1>2, <1>4, <1>5 DEF Follows

-----------------------------------------------------------------------------
\* What addData does to a buffer that is in order, when what it appends follows.
LEMMA AppendKeeps ==
  ASSUME NEW old \in Seq(Chunk), NEW c \in Chunk, inOrder(old),
         \A i \in DOMAIN old : old[i].pid = c.pid => before(old[i], c)
  PROVE  inOrder(Append(old, c))
<1> DEFINE new == Append(old, c)
<1>1. /\ DOMAIN new = 1..(Len(old) + 1) /\ DOMAIN old = 1..Len(old) /\ Len(old) \in Nat
      /\ new[Len(old) + 1] = c /\ \A i \in 1..Len(old) : new[i] = old[i]
  OBVIOUS
<1> SUFFICES ASSUME NEW i \in DOMAIN new, NEW j \in DOMAIN new, i < j, new[i].pid = new[j].pid
             PROVE  before(new[i], new[j])
  BY DEF inOrder
<1>2. i \in DOMAIN old /\ new[i] = old[i]  BY <1>1
<1>3. CASE j \in DOMAIN old
  <2>1. new[j] = old[j]  BY <1>1, <1>3
  <2> QED  BY <1>2, <1>3, <2>1 DEF inOrder
<1>4. CASE j = Len(old) + 1  BY <1>1, <1>2, <1>4
<1> QED  BY <1>1, <1>3, <1>4

\* Every chunk of a new buffer was in the old one, or is the one just sent.
Kept(s, old, c) ==
  \/ buffer'[s] = old
  \/ buffer'[s] = Append(old, c)

LEMMA BufferOf ==
  ASSUME NEW old \in Seq(Chunk), NEW c \in Chunk, NEW new, new = old \/ new = Append(old, c)
  PROVE  \A i \in DOMAIN new : (i \in DOMAIN old /\ new[i] = old[i]) \/ new[i] = c
<1>1. CASE new = old  BY <1>1
<1>2. CASE new = Append(old, c)
  <2>1. /\ DOMAIN new = 1..(Len(old) + 1) /\ DOMAIN old = 1..Len(old) /\ Len(old) \in Nat
        /\ new[Len(old) + 1] = c /\ \A i \in 1..Len(old) : new[i] = old[i]
    BY <1>2
  <2> QED  BY <2>1
<1> QED  BY <1>1, <1>2

\* One packet of p, collected behind what is kept of the buffer.
LEMMA CollectKeeps ==
  ASSUME TypeOK, SentBefore, NEW p \in Pid, NEW s \in Stream, kind(p) = s, Follows(p),
         NEW old \in Seq(Chunk), Kept(s, old, sent(p)),
         old = <<>> \/ old = buffer[s], inOrder(old),
         \A t \in Stream : t # s => buffer'[t] = buffer[t],
         \A t \in Stream : inOrder(buffer[t])
  PROVE  SentBefore' /\ \A t \in Stream : inOrder(buffer'[t])
<1> DEFINE c == sent(p)
<1>1. c \in Chunk /\ c.pid = p  BY DEF Follows
<1>2. \A t \in Stream : buffer[t] \in Seq(Chunk)  BY DEF TypeOK, Chunk
<1>3. \A i \in DOMAIN old : old[i] \in Chunk /\ isSent(old[i]) /\ kind(old[i].pid) = s
  BY <1>2 DEF SentBefore
<1>4. \A t \in Stream : \A i \in DOMAIN buffer[t] :
        buffer[t][i] \in Chunk /\ isSent(buffer[t][i]) /\ kind(buffer[t][i].pid) = t
  BY <1>2 DEF SentBefore
<1>5. ASSUME NEW t \in Stream, NEW i \in DOMAIN buffer'[t]
      PROVE  \E d \in Chunk : d = buffer'[t][i] /\ isSent(d)' /\ kind(d.pid) = t
  <2>1. CASE t # s  BY <1>4, <2>1 DEF Follows
  <2>2. CASE t = s
    <3>1. \A k \in DOMAIN buffer'[s] :
            (k \in DOMAIN old /\ buffer'[s][k] = old[k]) \/ buffer'[s][k] = sent(p)
      BY <1>1, BufferOf DEF Kept
    <3> QED  BY <1>1, <1>3, <2>2, <3>1 DEF Follows
  <2> QED  BY <2>1, <2>2
<1>6. SentBefore'
  BY <1>5 DEF SentBefore, isSent
<1>7. ASSUME NEW t \in Stream PROVE inOrder(buffer'[t])
  <2>1. CASE t # s  BY <2>1
  <2>2. CASE t = s
    <3>1. \A i \in DOMAIN old : old[i].pid = c.pid => before(old[i], c)
      BY <1>1, <1>3 DEF Follows
    <3>2. inOrder(Append(old, c))  BY <1>1, <3>1, AppendKeeps
    <3> QED  BY <2>2, <3>2 DEF Kept
  <2> QED  BY <2>1, <2>2
<1> QED  BY <1>6, <1>7

\* A frame that is given is in order, and older than what is collected then.
GivenBefore ==
  frame # NoFrame =>
    /\ inOrder(frame.data)
    /\ \A i \in DOMAIN frame.data, s \in Stream : \A j \in DOMAIN buffer[s] :
         frame.data[i].pid = buffer[s][j].pid => before(frame.data[i], buffer[s][j])

SInv == WInv /\ SentBefore /\ \A s \in Stream : inOrder(buffer[s])

LEMMA StartKeeps ==
  ASSUME SInv, HeadersPlain, NEW p \in Pid, pushStart(p)
  PROVE  SentBefore' /\ (\A t \in Stream : inOrder(buffer'[t])) /\ GivenBefore'
<1> DEFINE s == streamOf(p)
           c == sent(p)
<1> PICK h \in Header, size \in Size :
      LET received == size + dataOffset(h) - pesDataOffset(h)
      IN  /\ sendStart(p, h, size)
          /\ frameCallBack(s)
          /\ addData(s, <<>>, 0, sent(p), received)
  BY DEF pushStart
<1> USE DEF SInv, WInv
<1>1. s \in Stream /\ kind(p) = s  BY StreamOf DEF pushStart
<1>2. size \in Nat /\ size + dataOffset(h) - pesDataOffset(h) = size
  BY ReaderAssumption DEF HeadersPlain
<1>3. addData(s, <<>>, 0, sent(p), size)  BY <1>2
<1>4. Follows(p) /\ c \in Chunk /\ c.pid = p  BY StartFollows DEF Follows
<1>5. <<>> \in Seq(Chunk) /\ inOrder(<<>>)  BY DEF inOrder
<1>6. /\ \A t \in Stream : t # s => buffer'[t] = buffer[t]
      /\ Kept(s, <<>>, c)
  <2>1. 0 \in Nat  OBVIOUS
  <2> QED  BY <1>1, <1>2, <1>3, <1>4, <1>5, <2>1, AddData DEF Kept
<1>7. SentBefore' /\ \A t \in Stream : inOrder(buffer'[t])
  BY <1>1, <1>4, <1>5, <1>6, CollectKeeps
<1>8. GivenBefore'
  <2> SUFFICES ASSUME frame' # NoFrame PROVE GivenBefore'  BY DEF GivenBefore
  <2>1. frame'.data = buffer[s] /\ inOrder(buffer[s])  BY <1>1 DEF frameCallBack
  <2>2. buffer[s] \in Seq(Chunk)  BY <1>1 DEF TypeOK, Chunk
  <2>3. ASSUME NEW i \in DOMAIN buffer[s], NEW t \in Stream, NEW j \in DOMAIN buffer'[t],
               buffer[s][i].pid = buffer'[t][j].pid
        PROVE  before(buffer[s][i], buffer'[t][j])
    <3>1. buffer[s][i] \in Chunk /\ isSent(buffer[s][i]) /\ kind(buffer[s][i].pid) = s
      BY <1>1, <2>2 DEF SentBefore
    <3>2. CASE t = s
      <4>1. \A k \in DOMAIN buffer'[s] :
              (k \in DOMAIN <<>> /\ buffer'[s][k] = <<>>[k]) \/ buffer'[s][k] = c
        BY <1>4, <1>5, <1>6, BufferOf DEF Kept
      <4>2. buffer'[t][j] = c  BY <3>2, <4>1
      <4> QED  BY <1>4, <2>3, <3>1, <4>2 DEF Follows
    <3>3. CASE t # s
      <4>1. buffer'[t] = buffer[t]  BY <1>6, <3>3
      <4>2. kind(buffer'[t][j].pid) = t  BY <4>1 DEF SentBefore
      <4> QED  BY <2>3, <3>1, <3>3, <4>2
    <3> QED  BY <3>2, <3>3
  <2> QED  BY <2>1, <2>3 DEF GivenBefore
<1> QED  BY <1>7, <1>8

LEMMA NextKeeps ==
  ASSUME SInv, NEW p \in Pid, pushNext(p)
  PROVE  SentBefore' /\ (\A t \in Stream : inOrder(buffer'[t])) /\ GivenBefore'
<1> DEFINE s == streamOf(p)
<1> PICK size \in Size : sendNext(p, size) /\ addData(s, buffer[s], length[s], sent(p), size)
  BY DEF pushNext
<1> USE DEF SInv, WInv
<1>1. s \in Stream /\ kind(p) = s  BY StreamOf DEF pushNext
<1>2. Follows(p) /\ sent(p) \in Chunk  BY NextFollows DEF Follows
<1>3. buffer[s] \in Seq(Chunk) /\ length[s] \in Nat /\ size \in Nat /\ inOrder(buffer[s])
  BY <1>1, ReaderAssumption DEF TypeOK, Chunk
<1>4. /\ \A t \in Stream : t # s => buffer'[t] = buffer[t]
      /\ Kept(s, buffer[s], sent(p))
  BY <1>1, <1>2, <1>3, AddData DEF Kept
<1>5. SentBefore' /\ \A t \in Stream : inOrder(buffer'[t])
  BY <1>1, <1>2, <1>3, <1>4, CollectKeeps
<1>6. GivenBefore'  BY DEF GivenBefore, pushNext
<1> QED  BY <1>5, <1>6

LEMMA PassKeeps ==
  ASSUME SInv, NEW p \in Pid, passBy(p)
  PROVE  SentBefore' /\ (\A t \in Stream : inOrder(buffer'[t])) /\ GivenBefore'
<1> USE DEF SInv, WInv
<1>1. Follows(p)  BY StartFollows, NextFollows DEF passBy
<1>2. buffer' = buffer /\ frame' = NoFrame  BY DEF passBy, frames
<1>3. \A t \in Stream : \A i \in DOMAIN buffer[t] :
        buffer[t][i] \in Chunk /\ isSent(buffer[t][i]) /\ kind(buffer[t][i].pid) = t
  <2>1. \A t \in Stream : buffer[t] \in Seq(Chunk)  BY DEF TypeOK, Chunk
  <2> QED  BY <2>1 DEF SentBefore
<1>4. ASSUME NEW t \in Stream, NEW i \in DOMAIN buffer[t]
      PROVE  \E d \in Chunk : d = buffer[t][i] /\ isSent(d)' /\ kind(d.pid) = t
  BY <1>1, <1>3 DEF Follows
<1>5. SentBefore'  BY <1>2, <1>4 DEF SentBefore, isSent
<1> QED  BY <1>2, <1>5 DEF GivenBefore

LEMMA StillKeeps ==
  ASSUME SInv, UNCHANGED <<buffer, es>>, frame' \in {NoFrame, frame}, GivenBefore
  PROVE  SentBefore' /\ (\A t \in Stream : inOrder(buffer'[t])) /\ GivenBefore'
BY DEF SInv, SentBefore, isSent, GivenBefore

LEMMA ClearKeeps ==
  ASSUME clear
  PROVE  SentBefore' /\ (\A t \in Stream : inOrder(buffer'[t])) /\ GivenBefore'
BY DEF clear, SentBefore, GivenBefore, inOrder

LEMMA StepKeeps ==
  ASSUME SInv, HeadersPlain, GivenBefore, [Next]_vars
  PROVE  SentBefore' /\ (\A t \in Stream : inOrder(buffer'[t])) /\ GivenBefore'
<1>1. CASE pushPAT \/ pushPMT \/ UNCHANGED vars
  BY <1>1, StillKeeps DEF pushPAT, pushPMT, vars, frames
<1>2. CASE \E p \in Pid : pushStart(p) \/ pushNext(p) \/ passBy(p)
  BY <1>2, StartKeeps, NextKeeps, PassKeeps
<1>3. CASE clear  BY <1>3, ClearKeeps
<1> QED
  BY <1>1, <1>2, <1>3 DEF Next, xxts_reader_push, xxts_reader_create, xxts_reader_free

\* No loss, overflow or change of tables turns the data of a pid around, and
\* nothing is given that was given before.
THEOREM DataInOrder == ASSUME HeadersPlain PROVE Spec => []OrderKept
<1>1. Init => SInv /\ GivenBefore
  <2> SUFFICES ASSUME Init PROVE SInv /\ GivenBefore  OBVIOUS
  <2>1. WInv  BY InitWInv
  <2>2. SentBefore /\ \A s \in Stream : inOrder(buffer[s])  BY DEF Init, SentBefore, inOrder
  <2> QED  BY <2>1, <2>2 DEF SInv, GivenBefore, Init
<1>2. SInv /\ GivenBefore /\ [Next]_vars => SInv' /\ GivenBefore'
  <2> SUFFICES ASSUME SInv, GivenBefore, [Next]_vars PROVE SInv' /\ GivenBefore'  OBVIOUS
  <2>1. WInv'  BY StepWInv DEF SInv
  <2>2. SentBefore' /\ (\A t \in Stream : inOrder(buffer'[t])) /\ GivenBefore'  BY StepKeeps
  <2> QED  BY <2>1, <2>2 DEF SInv, inOrder, before
<1>3. SInv /\ GivenBefore => OrderKept  BY DEF SInv, GivenBefore, OrderKept
<1> QED  BY <1>1, <1>2, <1>3, PTL DEF Spec
=============================================================================
