---------------------------- MODULE XXloggerProofs ----------------------------
(***************************************************************************)
(* The Qt logger, for any number of clients, names, fifos and loggers: the *)
(* types, that messages stand in order where they were asked to, and that  *)
(* a second logger needs two clients that ask at once, or a failure.       *)
(*                                                                         *)
(* What a step does is first told fifo by fifo (Effect); the invariant is  *)
(* then proved from the effects, not from the actions.                     *)
(***************************************************************************)
EXTENDS XXlogger, FiniteSetTheorems, SequenceTheorems, TLAPS

\* The names left have a first one: a set of numbers up to n has a least one.
LEMMA Least ==
  ASSUME NEW n \in Nat, NEW S \in SUBSET (0..n), S # {}
  PROVE  \E m \in S : \A k \in S : m <= k
<1> DEFINE B == 0..n
           F == {0..k : k \in S}
<1>1. IsWellFoundedOn(StrictSubsetOrdering(B), FiniteSubsetsOf(B))
  BY FS_StrictSubsetOrderingWellFounded
<1>2. F \subseteq FiniteSubsetsOf(B) /\ F # {}
  <2>1. ASSUME NEW k \in S
        PROVE  0..k \in FiniteSubsetsOf(B)
    <3>1. k \in Int /\ 0..k \subseteq B  OBVIOUS
    <3>2. IsFiniteSet(0..k)  BY <3>1, FS_Interval
    <3> QED BY <3>1, <3>2 DEF FiniteSubsetsOf
  <2> QED BY <2>1
<1>3. PICK I \in F : \A J \in F : ~(<<J, I>> \in StrictSubsetOrdering(B))
  <2> HIDE DEF F, B
  <2> QED BY <1>1, <1>2, WFMin
<1>4. PICK m \in S : I = 0..m  BY <1>3
<1>5. ASSUME NEW k \in S, k < m PROVE FALSE
  <2>1. 0..k \in F /\ 0..k \subseteq I /\ 0..k # I /\ I \subseteq B  BY <1>4, <1>5
  <2>2. <<0..k, I>> \in StrictSubsetOrdering(B)  BY <2>1 DEF StrictSubsetOrdering
  <2> QED BY <1>3, <2>1, <2>2
<1> QED BY <1>4, <1>5

(***************************************************************************)
(* Types                                                                   *)
(***************************************************************************)

Site == Place \cup {NoPlace}
Msg == [by : Actor, n : 0..MaxOps]
Event == [do : {"push"}, msg : Msg, place : Site] \cup [do : {"reset"}, place : Site]
Entry == [msg : Msg, place : Site, asked : Site]
AnyOp ==
  [do : {"message"}, msg : Msg, without : 0..MaxFifo]
  \cup [do : {"config"}, name : Name, kind : {"file", "tcp"}, place : Place]
  \cup [do : {"enable"}, name : Name, on : {"no"}]
  \cup [do : {"reset"}, name : Name, place : Site]
  \cup [do : {"setEnable"}, fifo : Fifo, on : {"yes"}]
Frame == [at : {"assign", "run"}, logger : Logger, op : AnyOp, cursor : 0..NumNames]
FifoState == [kind : {"file", "tcp"}, enable : {"unset", "yes", "no"}, place : Site,
              link : {"none", "connecting", "settled"}]

Typed ==
  /\ TypeOK
  /\ fifo \in [Fifo -> FifoState]
  /\ events \in [Fifo -> Seq(Event)] /\ output \in [Fifo -> Seq(Entry)]
  /\ frame \in [Actor -> {Idle} \cup Frame]
  /\ \A a \in Actor : frame[a] # Idle => frame[a].logger <= loggers

\* A call on the singleton, whether it is there or made now.
LEMMA EnterTyped ==
  ASSUME Typed, NEW a \in Actor, NEW op \in AnyOp, NEW home \in Place,
         NEW ev \in [Fifo -> Seq(Event)], enter(a, op, home, ev)
  PROVE  /\ loggers' \in 0..MaxLogger /\ fifos' \in 0..MaxFifo
         /\ loggers <= loggers' /\ fifos <= fifos'
         /\ nameToFifo' \in [Logger -> [Name -> 0..fifos']]
         /\ events' \in [Fifo -> Seq(Event)]
         /\ asked' \in [Fifo -> Site]
         /\ frame' \in [Actor -> {Idle} \cup Frame]
         /\ \A b \in Actor : frame'[b] # Idle => frame'[b].logger <= loggers'
         /\ loggers' > loggers => fifos' \in Fifo
<1> USE LoggerAssumption DEF Logger, Fifo
<1>0. /\ instance \in 0..loggers /\ loggers \in 0..MaxLogger /\ fifos \in 0..MaxFifo
      /\ nameToFifo \in [Logger -> [Name -> 0..fifos]] /\ asked \in [Fifo -> Site]
  BY DEF Typed, TypeOK, Site
<1>1. CASE instance # NoLogger
  <2>1. /\ frame' = [frame EXCEPT ![a] = [at |-> "run", logger |-> instance, op |-> op, cursor |-> 0]]
        /\ events' = ev /\ UNCHANGED <<loggers, nameToFifo, fifos, asked>>
    BY <1>1 DEF enter
  <2>2. [at |-> "run", logger |-> instance, op |-> op, cursor |-> 0] \in Frame
    BY <1>0, <1>1 DEF Frame, NoLogger
  <2>3. frame' \in [Actor -> {Idle} \cup Frame]
    BY <2>1, <2>2 DEF Typed
  <2>4. \A b \in Actor : frame'[b] # Idle => frame'[b].logger <= loggers'
    BY <1>0, <2>1 DEF Typed
  <2> QED BY <1>0, <2>1, <2>3, <2>4
<1>2. CASE instance = NoLogger
  <2>1. /\ fifos < MaxFifo /\ loggers < MaxLogger
        /\ frame' = [frame EXCEPT ![a] = [at |-> "assign", logger |-> loggers + 1, op |-> op, cursor |-> 0]]
        /\ loggers' = loggers + 1 /\ fifos' = fifos + 1
        /\ nameToFifo' = [nameToFifo EXCEPT ![loggers + 1][fileFifo] = fifos + 1]
        /\ events' = [ev EXCEPT ![fifos + 1] = <<[do |-> "reset", place |-> home]>>]
        /\ asked' = [asked EXCEPT ![fifos + 1] = home]
    BY <1>2 DEF enter
  <2>2. [at |-> "assign", logger |-> loggers + 1, op |-> op, cursor |-> 0] \in Frame
    BY <1>0, <2>1 DEF Frame
  <2>3. frame' \in [Actor -> {Idle} \cup Frame]
    BY <2>1, <2>2 DEF Typed
  <2>4. \A b \in Actor : frame'[b] # Idle => frame'[b].logger <= loggers'
    BY <1>0, <2>1 DEF Typed, Frame
  <2>5. nameToFifo' \in [Logger -> [Name -> 0..fifos']]
    <3> DEFINE row == [nameToFifo[loggers + 1] EXCEPT ![fileFifo] = fifos + 1]
    <3>1. nameToFifo \in [Logger -> [Name -> 0..fifos']]
      <4>1. \A l \in Logger : nameToFifo[l] \in [Name -> 0..fifos']  BY <1>0, <2>1
      <4> QED BY <1>0, <4>1
    <3>2. row \in [Name -> 0..fifos']
      BY <1>0, <2>1, <3>1 DEF Name, fileFifo
    <3>3. nameToFifo' = [nameToFifo EXCEPT ![loggers + 1] = row]  BY <2>1
    <3> HIDE DEF row
    <3> QED BY <3>1, <3>2, <3>3
  <2>6. events' \in [Fifo -> Seq(Event)]
    <3>1. [do |-> "reset", place |-> home] \in Event  BY DEF Event, Site
    <3>2. <<[do |-> "reset", place |-> home]>> \in Seq(Event)
      <4> HIDE DEF Event
      <4> DEFINE e == [do |-> "reset", place |-> home]
      <4> HIDE DEF e
      <4>1. \A x \in Event : <<x>> \in Seq(Event)  OBVIOUS
      <4> QED BY <3>1, <4>1
    <3> QED BY <2>1, <3>2
  <2>7. asked' \in [Fifo -> Site]
    BY <1>0, <2>1 DEF Site
  <2> QED BY <1>0, <2>1, <2>3, <2>4, <2>5, <2>6, <2>7
<1> QED BY <1>1, <1>2

\* A new logger's fifo is enabled; nothing else of a fifo is touched.
LEMMA DefaultTyped ==
  ASSUME Typed, loggers' > loggers => fifos' \in Fifo
  PROVE  /\ withDefault \in [Fifo -> FifoState]
         /\ \A f \in Fifo : /\ withDefault[f].place = fifo[f].place /\ withDefault[f].link = fifo[f].link
                            /\ withDefault[f].kind = fifo[f].kind
<1>1. fifo \in [Fifo -> FifoState]  BY DEF Typed
<1>2. CASE ~(loggers' > loggers)
  BY <1>1, <1>2 DEF withDefault
<1>3. CASE loggers' > loggers
  <2> DEFINE st == [fifo[fifos'] EXCEPT !.enable = "yes"]
  <2>1. fifos' \in Fifo /\ fifo[fifos'] \in FifoState  BY <1>1, <1>3
  <2>2. st \in FifoState /\ st.place = fifo[fifos'].place /\ st.link = fifo[fifos'].link
        /\ st.kind = fifo[fifos'].kind
    BY <2>1 DEF FifoState
  <2>3. withDefault = [fifo EXCEPT ![fifos'] = st]  BY <1>3 DEF withDefault
  <2> HIDE DEF st
  <2> QED BY <1>1, <2>1, <2>2, <2>3
<1> QED BY <1>2, <1>3

LEMMA TypedInit == Init => Typed
<1> SUFFICES ASSUME Init PROVE Typed  OBVIOUS
<1> USE LoggerAssumption DEF Init
<1>1. TypeOK
  <2>1. nameToFifo \in [Logger -> [Name -> 0..fifos]]  BY DEF NoFifo
  <2>2. \A f \in Fifo : fifo[f] \in [kind : {"file", "tcp"}, enable : {"unset", "yes", "no"},
          place : Place \cup {NoPlace}, link : {"none", "connecting", "settled"}]
    OBVIOUS
  <2>3. asked \in [Fifo -> Place \cup {NoPlace}]  OBVIOUS
  <2>4. instance \in 0..loggers /\ loggers \in 0..MaxLogger /\ fifos \in 0..MaxFifo /\ ops \in 0..MaxOps
    BY DEF NoLogger
  <2>5. broken \subseteq Fifo /\ raced \in BOOLEAN /\ aborted \in BOOLEAN  OBVIOUS
  <2> QED BY <2>1, <2>2, <2>3, <2>4, <2>5 DEF TypeOK
<1>2. fifo \in [Fifo -> FifoState]  BY DEF FifoState, Site
<1>3. events \in [Fifo -> Seq(Event)] /\ output \in [Fifo -> Seq(Entry)]  OBVIOUS
<1>4. frame \in [Actor -> {Idle} \cup Frame] /\ \A a \in Actor : frame[a] = Idle  OBVIOUS
<1> QED BY <1>1, <1>2, <1>3, <1>4 DEF Typed

\* An actor that left idle is in a frame.
LEMMA FrameTyped ==
  ASSUME Typed, NEW a \in Actor, frame[a].at # "idle"
  PROVE  /\ frame[a] \in Frame /\ frame[a].logger \in 1..loggers /\ frame[a] # Idle
         /\ frame[a].logger \in Logger /\ frame[a].op \in AnyOp /\ frame[a].cursor \in 0..NumNames
BY DEF Typed, Frame, Idle, Logger, TypeOK

LEMMA TypedNext == Typed /\ [Next]_vars => Typed'
<1> SUFFICES ASSUME Typed, [Next]_vars PROVE Typed'  OBVIOUS
<1>0. /\ instance \in 0..loggers /\ loggers \in 0..MaxLogger /\ fifos \in 0..MaxFifo
      /\ nameToFifo \in [Logger -> [Name -> 0..fifos]] /\ asked \in [Fifo -> Site]
      /\ fifo \in [Fifo -> FifoState]
      /\ broken \subseteq Fifo /\ ops \in 0..MaxOps /\ raced \in BOOLEAN /\ aborted \in BOOLEAN
      /\ events \in [Fifo -> Seq(Event)] /\ output \in [Fifo -> Seq(Entry)]
      /\ frame \in [Actor -> {Idle} \cup Frame]
      /\ \A a \in Actor : frame[a] # Idle => frame[a].logger <= loggers
  BY DEF Typed, TypeOK, Site
<1>1. ASSUME /\ instance' \in 0..loggers' /\ loggers' \in 0..MaxLogger /\ fifos' \in 0..MaxFifo
             /\ nameToFifo' \in [Logger -> [Name -> 0..fifos']] /\ asked' \in [Fifo -> Site]
             /\ fifo' \in [Fifo -> FifoState]
             /\ broken' \subseteq Fifo /\ ops' \in 0..MaxOps /\ raced' \in BOOLEAN /\ aborted' \in BOOLEAN
             /\ events' \in [Fifo -> Seq(Event)] /\ output' \in [Fifo -> Seq(Entry)]
             /\ frame' \in [Actor -> {Idle} \cup Frame]
             /\ \A a \in Actor : frame'[a] # Idle => frame'[a].logger <= loggers'
      PROVE  Typed'
  <2>1. \A f \in Fifo : fifo'[f] \in [kind : {"file", "tcp"}, enable : {"unset", "yes", "no"},
          place : Place \cup {NoPlace}, link : {"none", "connecting", "settled"}]
    BY <1>1 DEF FifoState, Site
  <2>2. TypeOK'  BY <1>1, <2>1 DEF TypeOK, Site
  <2> QED BY <1>1, <2>2 DEF Typed
<1>2. CASE UNCHANGED vars
  BY <1>0, <1>1, <1>2 DEF vars
<1>3. ASSUME NEW a \in Actor, frame' = [frame EXCEPT ![a] = Idle], loggers' = loggers
      PROVE  /\ frame' \in [Actor -> {Idle} \cup Frame]
             /\ \A b \in Actor : frame'[b] # Idle => frame'[b].logger <= loggers'
  BY <1>0, <1>3
<1>4. ASSUME NEW a \in Actor, NEW fr \in Frame, fr.logger = frame[a].logger, frame[a] # Idle,
             frame' = [frame EXCEPT ![a] = fr], loggers' = loggers
      PROVE  /\ frame' \in [Actor -> {Idle} \cup Frame]
             /\ \A b \in Actor : frame'[b] # Idle => frame'[b].logger <= loggers'
  BY <1>0, <1>4
<1>5. ASSUME NEW t \in Thread, call(t)
      PROVE  Typed'
  <2>0. t \in Actor  BY DEF Actor
  <2>1. PICK op \in Op(t), home \in Place : enter(t, op, home, events)
    BY <1>5 DEF call
  <2>2. ops' = ops + 1 /\ ops' \in 0..MaxOps /\ fifo' = withDefault
        /\ UNCHANGED <<instance, broken, aborted, output>>
    BY <1>0, <1>5, LoggerAssumption DEF call
  <2>3. op \in AnyOp
    <3>1. [by |-> t, n |-> ops + 1] \in Msg  BY <2>0, <2>2 DEF Msg
    <3>2. NoFifo \in 0..MaxFifo  BY LoggerAssumption DEF NoFifo
    <3> HIDE DEF Msg
    <3> QED BY <3>1, <3>2 DEF Op, AnyOp, Site
  <2>4. /\ loggers' \in 0..MaxLogger /\ fifos' \in 0..MaxFifo
        /\ loggers <= loggers' /\ fifos <= fifos'
        /\ nameToFifo' \in [Logger -> [Name -> 0..fifos']]
        /\ events' \in [Fifo -> Seq(Event)]
        /\ asked' \in [Fifo -> Site]
        /\ frame' \in [Actor -> {Idle} \cup Frame]
        /\ \A b \in Actor : frame'[b] # Idle => frame'[b].logger <= loggers'
        /\ loggers' > loggers => fifos' \in Fifo
    BY <1>0, <2>0, <2>1, <2>3, EnterTyped
  <2>5. fifo' \in [Fifo -> FifoState]
    <3>1. withDefault \in [Fifo -> FifoState]  BY <2>4, DefaultTyped
    <3> QED BY <2>2, <3>1
  <2>6. raced' \in BOOLEAN
    <3> DEFINE also == instance = NoLogger /\ \E u \in Thread : frame[u].at = "assign"
    <3>1. raced' = (raced \/ also)  BY <1>5 DEF call
    <3> HIDE DEF also
    <3> QED BY <3>1
  <2> QED BY <1>0, <1>1, <2>2, <2>4, <2>5, <2>6
<1>6. ASSUME NEW a \in Actor, assign(a)
      PROVE  Typed'
  <2>1. frame[a] \in Frame /\ frame[a].logger \in 1..loggers /\ frame[a] # Idle
    BY <1>6, FrameTyped DEF assign
  <2>2. [frame[a] EXCEPT !.at = "run"] \in Frame /\ [frame[a] EXCEPT !.at = "run"].logger = frame[a].logger
    BY <2>1 DEF Frame
  <2>3. frame' = [frame EXCEPT ![a] = [frame[a] EXCEPT !.at = "run"]] /\ instance' = frame[a].logger
        /\ UNCHANGED <<loggers, nameToFifo, fifos, fifo, events, broken, ops, raced, aborted, asked, output>>
    BY <1>6 DEF assign
  <2>4. /\ frame' \in [Actor -> {Idle} \cup Frame]
        /\ \A b \in Actor : frame'[b] # Idle => frame'[b].logger <= loggers'
    BY <1>4, <2>1, <2>2, <2>3
  <2> QED BY <1>0, <1>1, <2>1, <2>3, <2>4
<1>7. ASSUME NEW a \in Actor, message(a)
      PROVE  Typed'
  <2>0. frame[a] \in Frame /\ frame[a] # Idle /\ frame[a].op \in AnyOp /\ frame[a].op.do = "message"
        /\ frame[a].logger \in Logger
    BY <1>7, FrameTyped DEF message, doing
  <2> DEFINE map == nameToFifo[frame[a].logger]
             rest == {n \in Name : n > frame[a].cursor /\ map[n] # NoFifo}
             n == CHOOSE k \in rest : \A m \in rest : k <= m
             ev == [do |-> "push", msg |-> frame[a].op.msg, place |-> asked[map[n]]]
  <2>1. UNCHANGED <<instance, loggers, nameToFifo, fifos, fifo, broken, ops, raced, aborted, asked, output>>
    BY <1>7 DEF message
  <2>2. CASE rest = {}
    <3>1. frame' = [frame EXCEPT ![a] = Idle] /\ events' = events  BY <1>7, <2>2 DEF message, done
    <3> QED BY <1>0, <1>1, <1>3, <2>1, <3>1
  <2>3. CASE rest # {}
    <3>1. n \in rest
      <4>1. rest \in SUBSET (0..NumNames)  BY LoggerAssumption DEF Name
      <4> HIDE DEF rest
      <4>2. \E m \in rest : \A k \in rest : m <= k  BY <2>3, <4>1, LoggerAssumption, Least
      <4> QED BY <4>2
    <3>2. frame' = [frame EXCEPT ![a].cursor = n]  BY <1>7, <2>3 DEF message
    <3>3. events' = events \/ events' = [events EXCEPT ![map[n]] = Append(@, ev)]
      BY <1>7, <2>3 DEF message
    <3>4. map[n] \in Fifo
      <4>1. n \in Name /\ map[n] # NoFifo  BY <3>1
      <4> HIDE DEF n
      <4>2. map[n] \in 0..fifos  BY <1>0, <2>0, <4>1
      <4>3. fifos \in 0..MaxFifo /\ MaxFifo \in Nat  BY <1>0, LoggerAssumption
      <4> HIDE DEF map
      <4> QED BY <4>1, <4>2, <4>3 DEF Fifo, NoFifo
    <3> HIDE DEF n
    <3>5. ev \in Event
      <4>1. frame[a].op.msg \in Msg  BY <2>0 DEF AnyOp
      <4>2. asked[map[n]] \in Site  BY <1>0, <3>4
      <4> QED BY <4>1, <4>2 DEF Event
    <3> HIDE DEF ev, map
    <3>6. events' \in [Fifo -> Seq(Event)]
      <4>1. events[map[n]] \in Seq(Event)  BY <1>0, <3>4
      <4>2. Append(events[map[n]], ev) \in Seq(Event)  BY <3>5, <4>1
      <4> QED BY <1>0, <3>3, <3>4, <4>2
    <3>7. [frame[a] EXCEPT !.cursor = n] \in Frame /\ [frame[a] EXCEPT !.cursor = n].logger = frame[a].logger
      <4>1. n \in 0..NumNames  BY <3>1, LoggerAssumption DEF Name
      <4> QED BY <2>0, <4>1 DEF Frame
    <3>8. frame' = [frame EXCEPT ![a] = [frame[a] EXCEPT !.cursor = n]]  BY <3>2
    <3>9. /\ frame' \in [Actor -> {Idle} \cup Frame]
          /\ \A b \in Actor : frame'[b] # Idle => frame'[b].logger <= loggers'
      BY <1>4, <2>0, <2>1, <3>7, <3>8
    <3> QED BY <1>0, <1>1, <2>1, <3>6, <3>9
  <2> QED BY <2>2, <2>3
<1>8. ASSUME NEW a \in Actor, configFifo(a)
      PROVE  Typed'
  <2>0. frame[a] \in Frame /\ frame[a] # Idle /\ frame[a].op \in AnyOp /\ frame[a].op.do = "config"
        /\ frame[a].logger \in Logger
    BY <1>8, FrameTyped DEF configFifo, doing
  <2>1. frame[a].op.name \in Name /\ frame[a].op.kind \in {"file", "tcp"} /\ frame[a].op.place \in Site
    BY <2>0 DEF AnyOp, Site
  <2> DEFINE f == fifos + 1
             op == frame[a].op
             l == frame[a].logger
             new == [do |-> "setEnable", fifo |-> f, on |-> "yes"]
  <2>2. f \in Fifo /\ f = fifos' /\ fifos' \in 0..MaxFifo
    BY <1>0, <1>8, LoggerAssumption DEF configFifo, Fifo
  <2>3. /\ fifo' = [fifo EXCEPT ![f] = [fifo[f] EXCEPT !.kind = op.kind]]
        /\ events' = [events EXCEPT ![f] = <<[do |-> "reset", place |-> op.place]>>]
        /\ asked' = [asked EXCEPT ![f] = op.place]
        /\ destroy(nameToFifo[l][op.name])
        /\ nameToFifo' = [nameToFifo EXCEPT ![l] = [nameToFifo[l] EXCEPT ![op.name] = f]]
        /\ frame' = [frame EXCEPT ![a] = [frame[a] EXCEPT !.op = new]]
        /\ UNCHANGED <<instance, loggers, broken, ops, raced, output>>
    BY <1>8 DEF configFifo
  <2>4. raced' \in BOOLEAN /\ aborted' \in BOOLEAN
    BY <1>0, <2>3 DEF destroy
  <2>5. nameToFifo' \in [Logger -> [Name -> 0..fifos']]
    <3>1. \A k \in Logger : nameToFifo[k] \in [Name -> 0..fifos']  BY <1>0, <2>2
    <3>2. [nameToFifo[l] EXCEPT ![op.name] = f] \in [Name -> 0..fifos']
      BY <1>0, <2>0, <2>1, <2>2, <3>1
    <3> QED BY <1>0, <2>3, <3>1, <3>2
  <2>6. events' \in [Fifo -> Seq(Event)]
    <3>1. [do |-> "reset", place |-> op.place] \in Event  BY <2>1 DEF Event
    <3>2. \A x \in Event : <<x>> \in Seq(Event)  OBVIOUS
    <3>3. <<[do |-> "reset", place |-> op.place]>> \in Seq(Event)  BY <3>1, <3>2
    <3> QED BY <1>0, <2>3, <3>3
  <2>7. fifo' \in [Fifo -> FifoState]
    <3>1. [fifo[f] EXCEPT !.kind = op.kind] \in FifoState  BY <1>0, <2>1, <2>2 DEF FifoState
    <3> QED BY <1>0, <2>3, <3>1
  <2>8. /\ frame' \in [Actor -> {Idle} \cup Frame]
        /\ \A b \in Actor : frame'[b] # Idle => frame'[b].logger <= loggers'
    <3>1. new \in AnyOp  BY <2>2 DEF AnyOp
    <3> HIDE DEF new
    <3>2. [frame[a] EXCEPT !.op = new] \in Frame /\ [frame[a] EXCEPT !.op = new].logger = frame[a].logger
      BY <2>0, <3>1 DEF Frame
    <3> QED BY <1>4, <2>0, <2>3, <3>2
  <2>9. asked' \in [Fifo -> Site]  BY <1>0, <2>1, <2>3
  <2> QED BY <1>0, <1>1, <2>2, <2>3, <2>4, <2>5, <2>6, <2>7, <2>8, <2>9
<1>9. ASSUME NEW a \in Actor, setEnable(a)
      PROVE  Typed'
  <2>0. frame[a].op \in AnyOp /\ frame[a].op.do = "setEnable"
    BY <1>9, FrameTyped DEF setEnable, doing
  <2>1. frame[a].op.fifo \in Fifo /\ frame[a].op.on = "yes"  BY <2>0 DEF AnyOp
  <2>2. fifo' \in [Fifo -> FifoState]
    BY <1>0, <1>9, <2>1 DEF setEnable, FifoState
  <2> QED BY <1>0, <1>1, <1>3, <1>9, <2>2 DEF setEnable, done
<1>10. ASSUME NEW a \in Actor, setFifoEnable(a)
       PROVE  Typed'
  <2>0. frame[a].op \in AnyOp /\ frame[a].op.do = "enable" /\ frame[a].logger \in Logger
    BY <1>10, FrameTyped DEF setFifoEnable, doing
  <2>1. frame[a].op.name \in Name /\ frame[a].op.on = "no"  BY <2>0 DEF AnyOp
  <2>2. nameToFifo[frame[a].logger][frame[a].op.name] \in Fifo \cup {NoFifo}
    BY <1>0, <2>0, <2>1, LoggerAssumption DEF Fifo, NoFifo
  <2>3. fifo' \in [Fifo -> FifoState]
    <3>1. CASE nameToFifo[frame[a].logger][frame[a].op.name] = NoFifo
      BY <1>0, <1>10, <3>1 DEF setFifoEnable
    <3>2. CASE nameToFifo[frame[a].logger][frame[a].op.name] \in Fifo
      <4> DEFINE f == nameToFifo[frame[a].logger][frame[a].op.name]
      <4>1. \A r \in FifoState : [r EXCEPT !.enable = "no"] \in FifoState
        BY DEF FifoState
      <4>2. fifo' = fifo \/ fifo' = [fifo EXCEPT ![f] = [fifo[f] EXCEPT !.enable = "no"]]
        BY <1>10, <2>1 DEF setFifoEnable
      <4>3. f \in Fifo /\ fifo[f] \in FifoState  BY <1>0, <3>2
      <4> HIDE DEF f
      <4>4. PICK r \in FifoState : fifo' = fifo \/ fifo' = [fifo EXCEPT ![f] = r]
        BY <4>1, <4>2, <4>3
      <4> QED BY <1>0, <4>3, <4>4
    <3> QED BY <2>2, <3>1, <3>2
  <2> QED BY <1>0, <1>1, <1>3, <1>10, <2>3 DEF setFifoEnable, done
<1>11. ASSUME NEW a \in Actor, resetFifo(a)
       PROVE  Typed'
  <2>0. frame[a].op \in AnyOp /\ frame[a].op.do = "reset" /\ frame[a].logger \in Logger
    BY <1>11, FrameTyped DEF resetFifo, doing
  <2>1. frame[a].op.name \in Name /\ frame[a].op.place \in Site  BY <2>0 DEF AnyOp
  <2> DEFINE f == nameToFifo[frame[a].logger][frame[a].op.name]
             ev == [do |-> "reset", place |-> frame[a].op.place]
  <2>2. f \in Fifo \cup {NoFifo}
    BY <1>0, <2>0, <2>1, LoggerAssumption DEF Fifo, NoFifo
  <2>3. asked' \in [Fifo -> Site] /\ events' \in [Fifo -> Seq(Event)]
    <3>1. CASE f = NoFifo  BY <1>0, <1>11, <3>1 DEF resetFifo
    <3>2. CASE f # NoFifo
      <4>1. events' = [events EXCEPT ![f] = Append(@, ev)] /\ asked' = [asked EXCEPT ![f] = frame[a].op.place]
        BY <1>11, <3>2 DEF resetFifo
      <4>2. ev \in Event  BY <2>1 DEF Event
      <4> HIDE DEF f, ev
      <4>3. Append(events[f], ev) \in Seq(Event)  BY <1>0, <2>2, <3>2, <4>2
      <4> QED BY <1>0, <2>1, <4>1, <4>3
    <3> QED BY <3>1, <3>2
  <2> QED BY <1>0, <1>1, <1>3, <1>11, <2>3 DEF resetFifo, done
<1>12. ASSUME NEW f \in Fifo, slots(f)
       PROVE  Typed'
  <2>1. UNCHANGED <<instance, broken, ops, raced, aborted>> /\ alive(f) /\ events[f] # <<>>
    BY <1>12 DEF slots, next, file_onPush, tcp_onPush, file_onReset, tcp_onReset
  <2>2. taken(f) \in [Fifo -> Seq(Event)] /\ Head(events[f]) \in Event
    <3>1. events[f] \in Seq(Event)  BY <1>0
    <3>2. Tail(events[f]) \in Seq(Event) /\ Head(events[f]) \in Event  BY <2>1, <3>1
    <3> QED BY <1>0, <3>2 DEF taken
  <2>3. f \in Actor  BY DEF Actor
  <2>4. /\ loggers' \in 0..MaxLogger /\ fifos' \in 0..MaxFifo /\ loggers <= loggers'
        /\ nameToFifo' \in [Logger -> [Name -> 0..fifos']]
        /\ events' \in [Fifo -> Seq(Event)]
        /\ asked' \in [Fifo -> Site]
        /\ frame' \in [Actor -> {Idle} \cup Frame]
        /\ \A b \in Actor : frame'[b] # Idle => frame'[b].logger <= loggers'
        /\ loggers' > loggers => fifos' \in Fifo
    <3>1. CASE takes(f)
      BY <1>0, <2>2, <3>1 DEF takes
    <3>2. CASE report(f)
      <4> DEFINE op == [do |-> "message", msg |-> [by |-> f, n |-> 0], without |-> f]
      <4>1. PICK home \in Place : enter(f, op, home, taken(f))  BY <3>2 DEF report
      <4>2. op \in AnyOp
        <5>1. [by |-> f, n |-> 0] \in Msg  BY <2>3, LoggerAssumption DEF Msg
        <5>2. f \in 0..MaxFifo  BY LoggerAssumption DEF Fifo
        <5> QED BY <5>1, <5>2 DEF AnyOp
      <4> HIDE DEF op
      <4> QED BY <2>2, <2>3, <4>1, <4>2, EnterTyped
    <3> QED BY <1>12, <3>1, <3>2 DEF slots, file_onPush, tcp_onPush, file_onReset, tcp_onReset
  <2>5. output' \in [Fifo -> Seq(Entry)]
    <3>1. CASE wrote(f) /\ Head(events[f]).do = "push"
      <4> DEFINE e == [msg |-> Head(events[f]).msg, place |-> fifo[f].place, asked |-> Head(events[f]).place]
      <4>1. e \in Entry
        <5>1. Head(events[f]).msg \in Msg /\ Head(events[f]).place \in Site  BY <2>2, <3>1 DEF Event
        <5>2. fifo[f].place \in Site  BY <1>0 DEF FifoState
        <5> QED BY <5>1, <5>2 DEF Entry
      <4>2. output' = output \/ output' = [output EXCEPT ![f] = Append(@, e)]  BY <3>1 DEF wrote
      <4> HIDE DEF e
      <4>3. Append(output[f], e) \in Seq(Entry)
        <5>1. output[f] \in Seq(Entry)  BY <1>0
        <5> QED BY <4>1, <5>1
      <4> QED BY <1>0, <4>2, <4>3
    <3>2. CASE output' = output  BY <1>0, <3>2
    <3> QED BY <1>12, <3>1, <3>2 DEF slots, next, file_onPush, tcp_onPush, file_onReset, tcp_onReset
  <2>6. fifo' \in [Fifo -> FifoState]
    <3>1. withDefault \in [Fifo -> FifoState]  BY <2>4, DefaultTyped
    <3>2. CASE file_onPush(f)  BY <3>1, <3>2 DEF file_onPush
    <3>3. CASE tcp_onPush(f)  BY <1>0, <3>3 DEF tcp_onPush
    <3>4. CASE file_onReset(f)
      <4>1. Head(events[f]).place \in Site  BY <2>2 DEF Event
      <4>2. opened(f, Head(events[f]).place) \in Site  BY <4>1 DEF opened, Site
      <4>3. fifo' = [withDefault EXCEPT ![f] = [withDefault[f] EXCEPT !.place = opened(f, Head(events[f]).place)]]
        BY <3>1, <3>4 DEF file_onReset
      <4>4. [withDefault[f] EXCEPT !.place = opened(f, Head(events[f]).place)] \in FifoState
        BY <3>1, <4>2 DEF FifoState
      <4> QED BY <3>1, <4>3, <4>4
    <3>5. CASE tcp_onReset(f)
      <4> DEFINE p == Head(events[f]).place
                 link == IF p = NoPlace THEN "none" ELSE "connecting"
                 st == [[withDefault[f] EXCEPT !.place = p] EXCEPT !.link = link]
      <4>1. p \in Site  BY <2>2 DEF Event
      <4>2. fifo' = [withDefault EXCEPT ![f] = st]
        BY <3>1, <3>5 DEF tcp_onReset
      <4>3. st \in FifoState
        BY <3>1, <4>1 DEF FifoState
      <4> HIDE DEF st
      <4> QED BY <3>1, <4>2, <4>3
    <3> QED BY <1>12, <3>2, <3>3, <3>4, <3>5 DEF slots
  <2> QED BY <1>0, <1>1, <2>1, <2>4, <2>5, <2>6
<1>13. ASSUME NEW f \in Fifo, settles(f)
       PROVE  Typed'
  <2>1. fifo' = [fifo EXCEPT ![f] = [fifo[f] EXCEPT !.link = "settled"]]  BY <1>13 DEF settles
  <2>2. [fifo[f] EXCEPT !.link = "settled"] \in FifoState  BY <1>0 DEF FifoState
  <2>3. fifo' \in [Fifo -> FifoState]  BY <1>0, <2>1, <2>2
  <2> QED BY <1>0, <1>1, <1>13, <2>3 DEF settles
<1>14. ASSUME NEW f \in Fifo, breaks(f)
       PROVE  Typed'
  BY <1>0, <1>1, <1>14 DEF breaks
<1> QED BY <1>2, <1>5, <1>6, <1>7, <1>8, <1>9, <1>10, <1>11, <1>12, <1>13, <1>14
        DEF Next, calls

(***************************************************************************)
(* What a step does                                                        *)
(***************************************************************************)

\* A socket connects to a place; a fifo not made yet has no link.
Linked ==
  \A f \in Fifo : /\ fifo[f].link = "connecting" => fifo[f].kind = "tcp" /\ fifo[f].place # NoPlace
                  /\ f > fifos => fifo[f].link = "none"

\* The events of a fifo, and where it was told to write, by one step.
Kept(f) == events'[f] = events[f] /\ asked'[f] = asked[f]
Given(f) ==
  /\ f <= fifos /\ asked'[f] = asked[f] /\ UNCHANGED <<nameToFifo, ops>>
  /\ \E a \in Actor, n \in Name :
       /\ frame[a] \in Frame /\ frame[a].op.do = "message"
       /\ n > frame[a].cursor /\ nameToFifo[frame[a].logger][n] = f
       /\ frame' = [frame EXCEPT ![a] = [frame[a] EXCEPT !.cursor = n]]
       /\ events'[f] = Append(events[f], [do |-> "push", msg |-> frame[a].op.msg, place |-> asked[f]])
Told(f) ==
  /\ f <= fifos /\ asked'[f] \in Site
  /\ events'[f] = Append(events[f], [do |-> "reset", place |-> asked'[f]])
Born(f) ==
  /\ f = fifos + 1 /\ fifos' = f /\ asked'[f] \in Site
  /\ events'[f] = <<[do |-> "reset", place |-> asked'[f]]>>
Took(f) ==
  /\ f <= fifos /\ events[f] # <<>>
  /\ events'[f] = Tail(events[f]) /\ asked'[f] = asked[f]

\* What it writes to, and what it wrote.
Still(f) == fifo'[f].place = fifo[f].place /\ output'[f] = output[f]
Pushes(f) ==
  LET e == Head(events[f]) IN
  /\ e.do = "push" /\ fifo'[f].place = fifo[f].place
  /\ \/ output'[f] = output[f]
     \/ /\ e.msg.by \in Thread /\ fifo[f].place # NoPlace
        /\ output'[f] = Append(output[f], [msg |-> e.msg, place |-> fifo[f].place, asked |-> e.place])
Resets(f) ==
  LET e == Head(events[f]) IN
  e.do = "reset" /\ fifo'[f].place \in {NoPlace, e.place} /\ output'[f] = output[f]

Effect(f) ==
  \/ (Kept(f) \/ Given(f) \/ Told(f) \/ Born(f)) /\ Still(f)
  \/ Took(f) /\ (Pushes(f) \/ Resets(f))

\* A fifo takes at most one name, when it is made.
Mapped ==
  \/ nameToFifo' = nameToFifo /\ fifos' = fifos
  \/ /\ fifos + 1 \in Fifo /\ fifos' = fifos + 1
     /\ \E l \in Logger, n \in Name :
          nameToFifo' = [nameToFifo EXCEPT ![l] = [nameToFifo[l] EXCEPT ![n] = fifos + 1]]

\* The message an actor hands out, and how far it is.
Hands(a) == frame[a] # Idle /\ frame[a].op.do = "message"
Framed(a) ==
  \/ frame'[a] = frame[a]
  \/ ~Hands(a)'
  \/ /\ frame'[a].op.msg.by = a /\ frame'[a].cursor = 0
     /\ a \in Thread => frame'[a].op.msg.n = ops + 1 /\ ops' = ops + 1
  \/ /\ Hands(a) /\ frame'[a].op = frame[a].op /\ frame'[a].logger = frame[a].logger
     /\ frame'[a].cursor >= frame[a].cursor

Step ==
  /\ \A f \in Fifo : Effect(f)
  /\ Mapped
  /\ \A a \in Actor : Framed(a)
  /\ ops <= ops'

LEMMA StepSame ==
  ASSUME Typed, UNCHANGED <<events, asked, fifos, output, nameToFifo, ops>>,
         \A f \in Fifo : fifo'[f].place = fifo[f].place,
         \A a \in Actor : Framed(a)
  PROVE  Step
BY DEF Step, Effect, Kept, Still, Mapped, Typed, TypeOK

\* Only the frame of an actor that ends its call changes.
LEMMA FramedDone ==
  ASSUME Typed, NEW a \in Actor, frame' = [frame EXCEPT ![a] = Idle]
  PROVE  \A b \in Actor : Framed(b)
BY DEF Typed, Framed, Hands

\* A call on the singleton enters its frame, and may make a fifo.
LEMMA EnterStep ==
  ASSUME Typed, NEW a \in Actor, NEW op \in AnyOp, op.do = "message" => op.msg.by = a,
         a \in Thread /\ op.do = "message" => op.msg.n = ops + 1 /\ ops' = ops + 1,
         NEW home \in Place, NEW ev \in [Fifo -> Seq(Event)], enter(a, op, home, ev)
  PROVE  /\ Mapped
         /\ \A b \in Actor : Framed(b)
         /\ \A f \in Fifo : \/ events'[f] = ev[f] /\ asked'[f] = asked[f]
                            \/ Born(f)
<1> USE LoggerAssumption DEF Fifo
<1>0. /\ fifos \in 0..MaxFifo /\ loggers \in 0..MaxLogger
      /\ nameToFifo \in [Logger -> [Name -> 0..fifos]] /\ asked \in [Fifo -> Site]
      /\ frame \in [Actor -> {Idle} \cup Frame]
  BY DEF Typed, TypeOK, Site
<1>1. ASSUME NEW fr, fr.op = op, fr.cursor = 0, fr # Idle, frame' = [frame EXCEPT ![a] = fr],
             NEW b \in Actor
      PROVE  Framed(b)
  BY <1>0, <1>1 DEF Framed, Hands
<1>2. CASE instance # NoLogger
  <2> DEFINE fr == [at |-> "run", logger |-> instance, op |-> op, cursor |-> 0]
  <2>1. frame' = [frame EXCEPT ![a] = fr] /\ events' = ev /\ UNCHANGED <<loggers, nameToFifo, fifos, asked>>
    BY <1>2 DEF enter
  <2>2. fr.op = op /\ fr.cursor = 0 /\ fr # Idle  BY DEF Idle
  <2> HIDE DEF fr
  <2> QED BY <1>1, <2>1, <2>2 DEF Mapped
<1>3. CASE instance = NoLogger
  <2> DEFINE fr == [at |-> "assign", logger |-> loggers + 1, op |-> op, cursor |-> 0]
  <2>1. /\ fifos < MaxFifo /\ loggers < MaxLogger /\ frame' = [frame EXCEPT ![a] = fr]
        /\ fifos' = fifos + 1
        /\ nameToFifo' = [nameToFifo EXCEPT ![loggers + 1] = [nameToFifo[loggers + 1] EXCEPT ![fileFifo] = fifos + 1]]
        /\ events' = [ev EXCEPT ![fifos + 1] = <<[do |-> "reset", place |-> home]>>]
        /\ asked' = [asked EXCEPT ![fifos + 1] = home]
    BY <1>3 DEF enter
  <2>2. fr.op = op /\ fr.cursor = 0 /\ fr # Idle  BY DEF Idle
  <2>3. loggers + 1 \in Logger /\ fileFifo \in Name /\ fifos + 1 \in Fifo
    BY <1>0, <2>1 DEF Logger, Name, fileFifo
  <2>4. Mapped  BY <2>1, <2>3 DEF Mapped
  <2> HIDE DEF fr
  <2>5. \A b \in Actor : Framed(b)  BY <1>1, <2>1, <2>2
  <2>6. ASSUME NEW f \in Fifo
        PROVE  (events'[f] = ev[f] /\ asked'[f] = asked[f]) \/ Born(f)
    BY <1>0, <2>1, <2>3 DEF Born, Site
  <2> QED BY <2>4, <2>5, <2>6
<1> QED BY <1>2, <1>3

LEMMA StepTold == Typed /\ Linked /\ [Next]_vars => Step
<1> SUFFICES ASSUME Typed, Linked, [Next]_vars PROVE Step  OBVIOUS
<1> USE LoggerAssumption
<1>0. /\ fifos \in 0..MaxFifo /\ loggers \in 0..MaxLogger /\ ops \in 0..MaxOps
      /\ nameToFifo \in [Logger -> [Name -> 0..fifos]] /\ asked \in [Fifo -> Site]
      /\ frame \in [Actor -> {Idle} \cup Frame] /\ fifo \in [Fifo -> FifoState]
      /\ events \in [Fifo -> Seq(Event)] /\ output \in [Fifo -> Seq(Entry)]
  BY DEF Typed, TypeOK, Site
<1>1. CASE UNCHANGED vars
  BY <1>1, StepSame DEF vars, Framed
<1>2. ASSUME NEW t \in Thread, call(t)
      PROVE  Step
  <2>1. PICK op \in Op(t), home \in Place : enter(t, op, home, events)  BY <1>2 DEF call
  <2>2. ops' = ops + 1 /\ ops' \in 0..MaxOps /\ fifo' = withDefault /\ output' = output
    BY <1>0, <1>2 DEF call
  <2>3. t \in Actor  BY DEF Actor
  <2>4. op \in AnyOp /\ (op.do = "message" => op.msg = [by |-> t, n |-> ops + 1])
    <3>1. [by |-> t, n |-> ops + 1] \in Msg  BY <2>2, <2>3 DEF Msg
    <3>2. NoFifo \in 0..MaxFifo  BY DEF NoFifo
    <3> HIDE DEF Msg
    <3> QED BY <3>1, <3>2 DEF Op, AnyOp, Site
  <2>5. op.do = "message" => op.msg.by = t /\ op.msg.n = ops + 1  BY <2>4
  <2>6. /\ Mapped /\ \A b \in Actor : Framed(b)
        /\ \A f \in Fifo : (events'[f] = events[f] /\ asked'[f] = asked[f]) \/ Born(f)
    BY <1>0, <2>1, <2>2, <2>3, <2>4, <2>5, EnterStep
  <2>7. loggers' > loggers => fifos' \in Fifo
    BY <1>0, <2>1, <2>3, <2>4, EnterTyped
  <2>8. \A f \in Fifo : fifo'[f].place = fifo[f].place
    BY <2>2, <2>7, DefaultTyped
  <2> QED BY <1>0, <2>2, <2>6, <2>8 DEF Step, Effect, Kept, Still
<1>3. ASSUME NEW a \in Actor, assign(a)
      PROVE  Step
  <2>1. frame[a] \in Frame /\ frame[a] # Idle  BY <1>3, FrameTyped DEF assign
  <2>2. frame' = [frame EXCEPT ![a] = [frame[a] EXCEPT !.at = "run"]]  BY <1>3 DEF assign
  <2>3. Framed(a)
    <3>1. frame'[a] = [frame[a] EXCEPT !.at = "run"]  BY <1>0, <2>2
    <3>2. /\ frame'[a].op = frame[a].op /\ frame'[a].logger = frame[a].logger
          /\ frame'[a].cursor = frame[a].cursor /\ frame[a].cursor \in Int
      BY <2>1, <3>1 DEF Frame
    <3> QED BY <2>1, <3>2 DEF Framed, Hands
  <2>4. \A b \in Actor : Framed(b)  BY <1>0, <2>2, <2>3 DEF Framed
  <2> QED BY <1>3, <2>4, StepSame DEF assign
<1>4. ASSUME NEW a \in Actor, message(a)
      PROVE  Step
  <2>0. frame[a] \in Frame /\ frame[a] # Idle /\ frame[a].op \in AnyOp /\ frame[a].op.do = "message"
        /\ frame[a].logger \in Logger /\ frame[a].cursor \in 0..NumNames
    BY <1>4, FrameTyped DEF message, doing
  <2> DEFINE map == nameToFifo[frame[a].logger]
             rest == {n \in Name : n > frame[a].cursor /\ map[n] # NoFifo}
             n == CHOOSE k \in rest : \A m \in rest : k <= m
             ev == [do |-> "push", msg |-> frame[a].op.msg, place |-> asked[map[n]]]
  <2>1. UNCHANGED <<instance, loggers, nameToFifo, fifos, fifo, broken, ops, raced, aborted, asked, output>>
    BY <1>4 DEF message
  <2>2. CASE rest = {}
    <3>1. frame' = [frame EXCEPT ![a] = Idle] /\ events' = events  BY <1>4, <2>2 DEF message, done
    <3> QED BY <2>1, <3>1, FramedDone, StepSame
  <2>3. CASE rest # {}
    <3>1. n \in rest
      <4>1. rest \in SUBSET (0..NumNames)  BY DEF Name
      <4> HIDE DEF rest
      <4>2. \E m \in rest : \A k \in rest : m <= k  BY <2>3, <4>1, Least
      <4> QED BY <4>2
    <3>2. frame' = [frame EXCEPT ![a] = [frame[a] EXCEPT !.cursor = n]]  BY <1>4, <2>3 DEF message
    <3>3. events' = events \/ events' = [events EXCEPT ![map[n]] = Append(@, ev)]
      BY <1>4, <2>3 DEF message
    <3>4. n \in Name /\ n > frame[a].cursor /\ map[n] # NoFifo  BY <3>1
    <3> HIDE DEF n
    <3>5. map[n] \in Fifo /\ map[n] <= fifos
      <4>1. map[n] \in 0..fifos  BY <1>0, <2>0, <3>4
      <4> QED BY <1>0, <3>4, <4>1 DEF Fifo, NoFifo
    <3>6. Framed(a)
      <4>1. frame'[a] = [frame[a] EXCEPT !.cursor = n]  BY <1>0, <3>2
      <4>2. /\ frame'[a].op = frame[a].op /\ frame'[a].logger = frame[a].logger
            /\ frame'[a].cursor = n /\ n >= frame[a].cursor
        BY <2>0, <3>4, <4>1 DEF Frame, Name
      <4> QED BY <2>0, <4>2 DEF Framed, Hands
    <3>7. \A b \in Actor : Framed(b)  BY <1>0, <3>2, <3>6 DEF Framed
    <3>8. ASSUME NEW f \in Fifo
          PROVE  Effect(f)
      <4>1. Still(f)  BY <2>1 DEF Still
      <4>2. CASE events'[f] = events[f]  BY <2>1, <4>1, <4>2 DEF Effect, Kept
      <4>3. CASE events'[f] # events[f]
        <5>1. f = map[n] /\ events'[f] = Append(events[f], ev)
          BY <1>0, <3>3, <3>5, <4>3
        <5>2. Given(f)
          <6> HIDE DEF map
          <6> QED BY <2>0, <2>1, <3>2, <3>4, <3>5, <5>1 DEF Given, map
        <5> QED BY <4>1, <5>2 DEF Effect
      <4> QED BY <4>2, <4>3
    <3> QED BY <1>0, <2>1, <3>7, <3>8 DEF Step, Mapped
  <2> QED BY <2>2, <2>3
<1>5. ASSUME NEW a \in Actor, configFifo(a)
      PROVE  Step
  <2>0. frame[a] \in Frame /\ frame[a] # Idle /\ frame[a].op \in AnyOp /\ frame[a].op.do = "config"
        /\ frame[a].logger \in Logger
    BY <1>5, FrameTyped DEF configFifo, doing
  <2>1. frame[a].op.name \in Name /\ frame[a].op.place \in Site  BY <2>0 DEF AnyOp, Site
  <2> DEFINE f0 == fifos + 1
             new == [do |-> "setEnable", fifo |-> f0, on |-> "yes"]
  <2>2. f0 \in Fifo /\ f0 = fifos'  BY <1>0, <1>5 DEF configFifo, Fifo
  <2>3. /\ fifo' = [fifo EXCEPT ![f0] = [fifo[f0] EXCEPT !.kind = frame[a].op.kind]]
        /\ events' = [events EXCEPT ![f0] = <<[do |-> "reset", place |-> frame[a].op.place]>>]
        /\ asked' = [asked EXCEPT ![f0] = frame[a].op.place]
        /\ nameToFifo' = [nameToFifo EXCEPT ![frame[a].logger] =
             [nameToFifo[frame[a].logger] EXCEPT ![frame[a].op.name] = f0]]
        /\ frame' = [frame EXCEPT ![a] = [frame[a] EXCEPT !.op = new]]
        /\ ops' = ops /\ output' = output
    BY <1>5 DEF configFifo
  <2>4. Mapped  BY <2>0, <2>1, <2>2, <2>3 DEF Mapped
  <2>5. \A b \in Actor : Framed(b)
    <3>1. frame'[a].op.do # "message"  BY <1>0, <2>0, <2>3 DEF Frame
    <3> QED BY <1>0, <2>3, <3>1 DEF Framed, Hands
  <2>6. ASSUME NEW f \in Fifo
        PROVE  Effect(f)
    <3>1. Still(f)  BY <1>0, <2>2, <2>3 DEF Still, FifoState
    <3>2. CASE f = f0
      <4>1. Born(f)  BY <1>0, <2>1, <2>2, <2>3, <3>2 DEF Born
      <4> QED BY <3>1, <4>1 DEF Effect
    <3>3. CASE f # f0
      BY <1>0, <2>3, <3>1, <3>3 DEF Effect, Kept
    <3> QED BY <3>2, <3>3
  <2> QED BY <1>0, <2>3, <2>4, <2>5, <2>6 DEF Step
<1>6. ASSUME NEW a \in Actor, setEnable(a) \/ setFifoEnable(a)
      PROVE  Step
  <2>1. frame' = [frame EXCEPT ![a] = Idle] /\ UNCHANGED <<events, asked, fifos, output, nameToFifo, ops>>
    BY <1>6 DEF setEnable, setFifoEnable, done
  <2>2. \A f \in Fifo : fifo'[f].place = fifo[f].place
    <3>1. ASSUME NEW g, NEW on, fifo' = [fifo EXCEPT ![g] = [fifo[g] EXCEPT !.enable = on]]
          PROVE  \A f \in Fifo : fifo'[f].place = fifo[f].place
      BY <1>0, <3>1 DEF FifoState
    <3>2. CASE setEnable(a)
      BY <3>1, <3>2 DEF setEnable
    <3>3. CASE setFifoEnable(a)
      BY <3>1, <3>3 DEF setFifoEnable
    <3> QED BY <1>6, <3>2, <3>3
  <2> QED BY <2>1, <2>2, FramedDone, StepSame
<1>7. ASSUME NEW a \in Actor, resetFifo(a)
      PROVE  Step
  <2>0. frame[a].op \in AnyOp /\ frame[a].op.do = "reset" /\ frame[a].logger \in Logger
    BY <1>7, FrameTyped DEF resetFifo, doing
  <2>1. frame[a].op.name \in Name /\ frame[a].op.place \in Site  BY <2>0 DEF AnyOp
  <2> DEFINE f0 == nameToFifo[frame[a].logger][frame[a].op.name]
             ev == [do |-> "reset", place |-> frame[a].op.place]
  <2>2. f0 \in 0..fifos  BY <1>0, <2>0, <2>1
  <2>3. frame' = [frame EXCEPT ![a] = Idle] /\ UNCHANGED <<fifo, fifos, output, nameToFifo, ops>>
    BY <1>7 DEF resetFifo, done
  <2>4. CASE f0 = NoFifo
    BY <1>7, <2>3, <2>4, FramedDone, StepSame DEF resetFifo
  <2>5. CASE f0 # NoFifo
    <3>1. events' = [events EXCEPT ![f0] = Append(@, ev)] /\ asked' = [asked EXCEPT ![f0] = frame[a].op.place]
      BY <1>7, <2>5 DEF resetFifo
    <3>2. ASSUME NEW f \in Fifo
          PROVE  Effect(f)
      <4>1. Still(f)  BY <2>3 DEF Still
      <4>2. CASE f = f0
        <5>1. asked'[f] = frame[a].op.place /\ events'[f] = Append(events[f], ev)
          BY <1>0, <3>1, <4>2
        <5>2. f <= fifos  BY <1>0, <2>2, <4>2
        <5>3. Told(f)  BY <2>1, <5>1, <5>2 DEF Told
        <5> QED BY <4>1, <5>3 DEF Effect
      <4>3. CASE f # f0
        BY <1>0, <3>1, <4>1, <4>3 DEF Effect, Kept
      <4> QED BY <4>2, <4>3
    <3>3. \A b \in Actor : Framed(b)  BY <2>3, FramedDone
    <3>4. Mapped /\ ops <= ops'  BY <1>0, <2>3 DEF Mapped
    <3> QED BY <3>2, <3>3, <3>4 DEF Step
  <2> QED BY <2>4, <2>5
<1>8. ASSUME NEW f \in Fifo, slots(f)
      PROVE  Step
  <2>1. ops' = ops /\ events[f] # <<>> /\ f <= fifos
    BY <1>8 DEF slots, next, alive, file_onPush, tcp_onPush, file_onReset, tcp_onReset
  <2>2. f \in Actor  BY DEF Actor
  <2>3. taken(f) \in [Fifo -> Seq(Event)]
    <3>1. events[f] \in Seq(Event)  BY <1>0
    <3>2. Tail(events[f]) \in Seq(Event)  BY <2>1, <3>1
    <3> QED BY <1>0, <3>2 DEF taken
  <2>4. /\ Mapped /\ \A b \in Actor : Framed(b)
        /\ \A g \in Fifo : (events'[g] = taken(f)[g] /\ asked'[g] = asked[g]) \/ Born(g)
        /\ loggers' > loggers => fifos' \in Fifo
    <3>1. CASE takes(f)
      <4>1. loggers' = loggers /\ ~(loggers' > loggers)  BY <1>0, <3>1 DEF takes
      <4> QED BY <3>1, <4>1 DEF takes, Mapped, Framed
    <3>2. CASE report(f)
      <4> DEFINE op == [do |-> "message", msg |-> [by |-> f, n |-> 0], without |-> f]
      <4>1. PICK home \in Place : enter(f, op, home, taken(f))  BY <3>2 DEF report
      <4>2. op \in AnyOp /\ op.msg.by = f
        <5>1. [by |-> f, n |-> 0] \in Msg  BY <2>2 DEF Msg
        <5>2. f \in 0..MaxFifo  BY DEF Fifo
        <5> QED BY <5>1, <5>2 DEF AnyOp
      <4>3. f \notin Thread  OBVIOUS
      <4> HIDE DEF op
      <4>4. loggers' > loggers => fifos' \in Fifo
        BY <2>2, <2>3, <4>1, <4>2, EnterTyped
      <4>5. /\ Mapped /\ \A b \in Actor : Framed(b)
            /\ \A g \in Fifo : (events'[g] = taken(f)[g] /\ asked'[g] = asked[g]) \/ Born(g)
        BY <2>2, <2>3, <4>1, <4>2, <4>3, EnterStep
      <4> QED BY <4>4, <4>5
    <3> QED BY <1>8, <3>1, <3>2 DEF slots, file_onPush, tcp_onPush, file_onReset, tcp_onReset
  <2>5. withDefault \in [Fifo -> FifoState] /\ \A g \in Fifo : withDefault[g].place = fifo[g].place
    BY <2>4, DefaultTyped
  <2>6. ASSUME NEW g \in Fifo, g # f
        PROVE  Effect(g)
    <3>1. Still(g)
      <4>1. output'[g] = output[g]
        BY <1>0, <1>8, <2>6 DEF slots, wrote, file_onPush, tcp_onPush, file_onReset, tcp_onReset
      <4>2. fifo'[g].place = fifo[g].place
        BY <1>0, <1>8, <2>5, <2>6 DEF slots, file_onPush, tcp_onPush, file_onReset, tcp_onReset
      <4> QED BY <4>1, <4>2 DEF Still
    <3>2. taken(f)[g] = events[g]  BY <1>0, <2>6 DEF taken
    <3> QED BY <2>4, <3>1, <3>2 DEF Effect, Kept
  <2>7. Took(f)
    <3>1. ~Born(f)  BY <1>0, <2>1 DEF Born, Fifo
    <3>2. taken(f)[f] = Tail(events[f])  BY <1>0 DEF taken
    <3> QED BY <2>1, <2>4, <3>1, <3>2 DEF Took
  <2>8. ASSUME file_onPush(f)
        PROVE  Effect(f)
    <3>1. Pushes(f)
      <4>1. fifo'[f].place = fifo[f].place  BY <2>5, <2>8 DEF file_onPush
      <4>2. output' = output \/ (fifo[f].place # NoPlace /\ wrote(f))  BY <2>8 DEF file_onPush
      <4>3. Head(events[f]).do = "push"  BY <2>8 DEF file_onPush, next
      <4> QED BY <1>0, <4>1, <4>2, <4>3 DEF Pushes, wrote
    <3> QED BY <2>7, <3>1 DEF Effect
  <2>9. ASSUME tcp_onPush(f)
        PROVE  Effect(f)
    <3>1. Pushes(f)
      <4>1. fifo'[f].place = fifo[f].place  BY <2>9 DEF tcp_onPush
      <4>2. output' = output \/ (fifo[f].place # NoPlace /\ wrote(f))  BY <2>9 DEF tcp_onPush, Linked
      <4>3. Head(events[f]).do = "push"  BY <2>9 DEF tcp_onPush, next
      <4> QED BY <1>0, <4>1, <4>2, <4>3 DEF Pushes, wrote
    <3> QED BY <2>7, <3>1 DEF Effect
  <2>10. ASSUME file_onReset(f) \/ tcp_onReset(f)
        PROVE  Effect(f)
    <3>1. Resets(f)
      <4>1. fifo'[f].place \in {NoPlace, Head(events[f]).place}
        <5>1. CASE file_onReset(f)
          BY <2>5, <5>1 DEF file_onReset, opened, FifoState
        <5>2. CASE tcp_onReset(f)
          BY <2>5, <5>2 DEF tcp_onReset, FifoState
        <5> QED BY <2>10, <5>1, <5>2
      <4>2. output' = output /\ Head(events[f]).do = "reset"
        BY <2>10 DEF file_onReset, tcp_onReset, next
      <4> QED BY <4>1, <4>2 DEF Resets
    <3> QED BY <2>7, <3>1 DEF Effect
  <2>11. Effect(f)  BY <1>8, <2>8, <2>9, <2>10 DEF slots
  <2> QED BY <1>0, <2>1, <2>4, <2>6, <2>11 DEF Step
<1>9. ASSUME NEW f \in Fifo, settles(f) \/ breaks(f)
      PROVE  Step
  <2>1. UNCHANGED <<events, asked, fifos, output, nameToFifo, ops, frame>>
    BY <1>9 DEF settles, breaks
  <2>2. \A g \in Fifo : fifo'[g].place = fifo[g].place
    <3>1. CASE settles(f)  BY <1>0, <3>1 DEF settles, FifoState
    <3>2. CASE breaks(f)  BY <3>2 DEF breaks
    <3> QED BY <1>9, <3>1, <3>2
  <2> QED BY <2>1, <2>2, StepSame DEF Framed
<1> QED BY <1>1, <1>2, <1>3, <1>4, <1>5, <1>6, <1>7, <1>8, <1>9 DEF Next, calls

LEMMA LinkedNext == Typed /\ Linked /\ [Next]_vars => Linked'
<1> SUFFICES ASSUME Typed, Linked, [Next]_vars, NEW f \in Fifo
             PROVE  /\ fifo'[f].link = "connecting" => fifo'[f].kind = "tcp" /\ fifo'[f].place # NoPlace
                    /\ f > fifos' => fifo'[f].link = "none"
  BY DEF Linked
<1> USE LoggerAssumption
<1>0. /\ fifos \in 0..MaxFifo /\ fifos' \in 0..MaxFifo /\ fifos <= fifos' /\ f \in Int
      /\ fifo \in [Fifo -> FifoState] /\ fifo' \in [Fifo -> FifoState]
      /\ nameToFifo \in [Logger -> [Name -> 0..fifos]]
  <2>1. Typed'  BY TypedNext
  <2>2. Mapped  BY StepTold DEF Step
  <2>3. /\ fifos \in 0..MaxFifo /\ fifos' \in 0..MaxFifo
        /\ fifo \in [Fifo -> FifoState] /\ fifo' \in [Fifo -> FifoState]
        /\ nameToFifo \in [Logger -> [Name -> 0..fifos]]
    BY <2>1 DEF Typed, TypeOK
  <2> QED BY <2>2, <2>3 DEF Mapped, Fifo
<1>1. ASSUME fifo'[f].link = fifo[f].link, fifo'[f].kind = fifo[f].kind, fifo'[f].place = fifo[f].place
      PROVE  /\ fifo'[f].link = "connecting" => fifo'[f].kind = "tcp" /\ fifo'[f].place # NoPlace
             /\ f > fifos' => fifo'[f].link = "none"
  BY <1>0, <1>1 DEF Linked
<1>2. CASE fifo' = fifo
  BY <1>1, <1>2
<1>3. ASSUME fifo' = withDefault, loggers' > loggers => fifos' \in Fifo
      PROVE  /\ fifo'[f].link = fifo[f].link /\ fifo'[f].kind = fifo[f].kind
             /\ fifo'[f].place = fifo[f].place
  BY <1>3, DefaultTyped
<1>4. ASSUME NEW a \in Actor, configFifo(a)
      PROVE  /\ fifo'[f].link = "connecting" => fifo'[f].kind = "tcp" /\ fifo'[f].place # NoPlace
             /\ f > fifos' => fifo'[f].link = "none"
  <2>1. fifo' = [fifo EXCEPT ![fifos + 1] = [fifo[fifos + 1] EXCEPT !.kind = frame[a].op.kind]]
    BY <1>4 DEF configFifo
  <2>2. CASE f # fifos + 1  BY <1>0, <1>1, <2>1, <2>2
  <2>3. CASE f = fifos + 1
    <3>1. fifo[f].link = "none"  BY <1>0, <2>3 DEF Linked
    <3>2. fifo'[f].link = "none"  BY <1>0, <2>1, <2>3, <3>1 DEF FifoState
    <3> QED BY <3>2
  <2> QED BY <2>2, <2>3
<1>5. ASSUME NEW g, NEW on, fifo' = [fifo EXCEPT ![g] = [fifo[g] EXCEPT !.enable = on]]
      PROVE  /\ fifo'[f].link = fifo[f].link /\ fifo'[f].kind = fifo[f].kind
             /\ fifo'[f].place = fifo[f].place
  BY <1>0, <1>5 DEF FifoState
<1>6. loggers' > loggers => fifos' \in Fifo
  <2>1. CASE loggers' = loggers
    BY <2>1, TypedNext DEF Typed, TypeOK
  <2>2. CASE fifos' # fifos
    BY <2>2, StepTold DEF Step, Mapped
  <2>3. CASE loggers' # loggers /\ fifos' = fifos
    <3>1. ASSUME NEW a, NEW op, NEW home, NEW ev, enter(a, op, home, ev)
          PROVE  FALSE
      BY <1>0, <2>3, <3>1 DEF enter
    <3>2. [Next]_vars => (\E t \in Thread : call(t)) \/ \E g \in Fifo : slots(g)
      BY <2>3 DEF vars, Next, calls, assign, message, configFifo, setEnable, setFifoEnable, resetFifo,
                  settles, breaks
    <3>3. \A t \in Thread : ~call(t)  BY <3>1 DEF call
    <3>4. \A g \in Fifo : ~slots(g)
      BY <2>3, <3>1 DEF slots, file_onPush, tcp_onPush, file_onReset, tcp_onReset, report, takes
    <3> QED BY <3>2, <3>3, <3>4
  <2> QED BY <2>1, <2>2, <2>3
<1>7. ASSUME NEW t \in Thread, call(t)
      PROVE  /\ fifo'[f].link = "connecting" => fifo'[f].kind = "tcp" /\ fifo'[f].place # NoPlace
             /\ f > fifos' => fifo'[f].link = "none"
  BY <1>1, <1>3, <1>6, <1>7 DEF call
<1>8. ASSUME NEW a \in Actor, assign(a) \/ message(a) \/ resetFifo(a)
      PROVE  fifo' = fifo
  BY <1>8 DEF assign, message, resetFifo
<1>9. ASSUME NEW a \in Actor, setEnable(a) \/ setFifoEnable(a)
      PROVE  /\ fifo'[f].link = "connecting" => fifo'[f].kind = "tcp" /\ fifo'[f].place # NoPlace
             /\ f > fifos' => fifo'[f].link = "none"
  <2>1. CASE setEnable(a)
    BY <1>1, <1>5, <2>1 DEF setEnable
  <2>2. CASE setFifoEnable(a)
    BY <1>1, <1>2, <1>5, <2>2 DEF setFifoEnable
  <2> QED BY <1>9, <2>1, <2>2
<1>10. ASSUME NEW g \in Fifo, slots(g)
       PROVE  /\ fifo'[f].link = "connecting" => fifo'[f].kind = "tcp" /\ fifo'[f].place # NoPlace
              /\ f > fifos' => fifo'[f].link = "none"
  <2>0. /\ withDefault \in [Fifo -> FifoState]
        /\ withDefault[f].link = fifo[f].link /\ withDefault[f].kind = fifo[f].kind
        /\ withDefault[f].place = fifo[f].place
    BY <1>6, DefaultTyped
  <2>1. CASE file_onPush(g)  BY <1>1, <1>3, <1>6, <2>1 DEF file_onPush
  <2>2. CASE tcp_onPush(g)  BY <1>2, <2>2 DEF tcp_onPush
  <2>3. CASE file_onReset(g)
    <3>1. fifo[g].kind = "file" /\ fifo' = [withDefault EXCEPT ![g].place = opened(g, Head(events[g]).place)]
      BY <2>3 DEF file_onReset
    <3>2. fifo'[f].link = fifo[f].link  BY <2>0, <3>1 DEF FifoState
    <3>3. CASE f = g  BY <1>0, <3>1, <3>2, <3>3 DEF Linked
    <3>4. CASE f # g
      <4>1. fifo'[f].kind = fifo[f].kind /\ fifo'[f].place = fifo[f].place  BY <2>0, <3>1, <3>4
      <4> QED BY <1>1, <3>2, <4>1
    <3> QED BY <3>3, <3>4
  <2>4. CASE tcp_onReset(g)
    <3> DEFINE p == Head(events[g]).place
               link == IF p = NoPlace THEN "none" ELSE "connecting"
    <3>1. fifo[g].kind = "tcp" /\ fifo' = [withDefault EXCEPT ![g].place = p, ![g].link = link]
      BY <2>4 DEF tcp_onReset
    <3>2. g <= fifos'
      BY <1>0, <2>4 DEF tcp_onReset, next, alive
    <3>3. CASE f = g
      <4>1. fifo'[f].place = p /\ fifo'[f].link = link /\ fifo'[f].kind = "tcp"
        BY <2>0, <3>1, <3>3 DEF FifoState
      <4> QED BY <1>0, <3>2, <3>3, <4>1
    <3>4. CASE f # g
      <4>1. fifo'[f] = withDefault[f]  BY <2>0, <3>1, <3>4
      <4> QED BY <1>1, <2>0, <4>1
    <3> QED BY <3>3, <3>4
  <2> QED BY <1>10, <2>1, <2>2, <2>3, <2>4 DEF slots
<1>11. ASSUME NEW g \in Fifo, settles(g)
       PROVE  /\ fifo'[f].link = "connecting" => fifo'[f].kind = "tcp" /\ fifo'[f].place # NoPlace
              /\ f > fifos' => fifo'[f].link = "none"
  <2>1. fifo[g].link = "connecting" /\ fifos' = fifos
        /\ fifo' = [fifo EXCEPT ![g] = [fifo[g] EXCEPT !.link = "settled"]]
    BY <1>11 DEF settles
  <2>2. CASE f = g  BY <1>0, <2>1, <2>2 DEF Linked, FifoState
  <2>3. CASE f # g  BY <1>0, <1>1, <2>1, <2>3
  <2> QED BY <2>2, <2>3
<1>12. ASSUME NEW g \in Fifo, breaks(g)
       PROVE  fifo' = fifo
  BY <1>12 DEF breaks
<1>13. CASE UNCHANGED vars
  BY <1>2, <1>13 DEF vars
<1> QED BY <1>2, <1>4, <1>7, <1>8, <1>9, <1>10, <1>11, <1>12, <1>13 DEF Next, calls

(***************************************************************************)
(* Messages stand where they were asked to                                 *)
(***************************************************************************)

\* Between two resets every message was asked to where the one before it was; the
\* first goes where the fifo writes now, unless that failed to open.
Placed(f) ==
  LET e == events[f] IN
  /\ \A j \in 2..Len(e) : e[j].do = "push" => e[j].place = e[j - 1].place
  /\ e # <<>> /\ e[1].do = "push" => fifo[f].place \in {NoPlace, e[1].place}
  /\ e # <<>> => asked[f] = e[Len(e)].place
  /\ e = <<>> => fifo[f].place \in {NoPlace, asked[f]}
  /\ \A i \in 1..Len(output[f]) : output[f][i].place = output[f][i].asked
  /\ f > fifos => e = <<>> /\ output[f] = <<>> /\ fifo[f].place = NoPlace

LEMMA PlacedNext ==
  ASSUME Typed, Typed', Step, NEW f \in Fifo, Placed(f)
  PROVE  Placed(f)'
<1> DEFINE e == events[f]
           d == events'[f]
<1>0. /\ e \in Seq(Event) /\ Len(e) \in Nat /\ d \in Seq(Event)
      /\ output[f] \in Seq(Entry) /\ Len(output[f]) \in Nat
      /\ fifos \in 0..MaxFifo /\ fifos' \in 0..MaxFifo /\ fifos <= fifos' /\ f \in Int
  <2>1. e \in Seq(Event) /\ d \in Seq(Event) /\ output[f] \in Seq(Entry)  BY DEF Typed
  <2>2. fifos \in 0..MaxFifo /\ fifos' \in 0..MaxFifo  BY DEF Typed, TypeOK
  <2>3. fifos <= fifos'  BY <2>2, LoggerAssumption DEF Step, Mapped
  <2> QED BY <2>1, <2>2, <2>3, LoggerAssumption DEF Fifo
<1>1. Effect(f)  BY DEF Step
<1>2. CASE Kept(f) /\ Still(f)
  BY <1>0, <1>2 DEF Kept, Still, Placed
<1>3. ASSUME Still(f), NEW ev \in Event, d = Append(e, ev), f <= fifos,
             asked'[f] = ev.place, ev.do = "push" => ev.place = asked[f]
      PROVE  Placed(f)'
  <2>1. /\ Len(d) = Len(e) + 1 /\ d # <<>>
        /\ \A j \in 1..Len(e) : d[j] = e[j]
        /\ d[Len(e) + 1] = ev
    BY <1>0, <1>3
  <2>2. \A j \in 2..Len(d) : d[j].do = "push" => d[j].place = d[j - 1].place
    <3> SUFFICES ASSUME NEW j \in 2..Len(d), d[j].do = "push" PROVE d[j].place = d[j - 1].place
      OBVIOUS
    <3>1. CASE j <= Len(e)
      <4>1. j \in 2..Len(e) /\ j \in 1..Len(e) /\ j - 1 \in 1..Len(e)  BY <1>0, <2>1, <3>1
      <4> QED BY <2>1, <4>1 DEF Placed
    <3>2. CASE j = Len(e) + 1
      <4>1. e # <<>> /\ j - 1 \in 1..Len(e) /\ j - 1 = Len(e)  BY <1>0, <2>1, <3>2
      <4>2. ev.place = e[Len(e)].place  BY <1>3, <2>1, <3>2, <4>1 DEF Placed
      <4> QED BY <2>1, <3>2, <4>1, <4>2
    <3> QED BY <1>0, <2>1, <3>1, <3>2
  <2>3. d[1].do = "push" => fifo'[f].place \in {NoPlace, d[1].place}
    <3>1. CASE e = <<>>
      <4>1. d[1] = ev  BY <1>0, <2>1, <3>1
      <4> QED BY <1>3, <3>1, <4>1 DEF Placed, Still
    <3>2. CASE e # <<>>
      <4>1. d[1] = e[1]  BY <1>0, <2>1, <3>2
      <4> QED BY <1>3, <3>2, <4>1 DEF Placed, Still
    <3> QED BY <3>1, <3>2
  <2>4. asked'[f] = d[Len(d)].place  BY <1>3, <2>1
  <2> QED BY <1>0, <1>3, <2>1, <2>2, <2>3, <2>4 DEF Placed, Still
<1>4. CASE Given(f) /\ Still(f)
  <2>1. PICK msg : d = Append(e, [do |-> "push", msg |-> msg, place |-> asked[f]]) /\ msg \in Msg
    <3>1. PICK a \in Actor : /\ frame[a] \in Frame /\ frame[a].op.do = "message"
            /\ d = Append(e, [do |-> "push", msg |-> frame[a].op.msg, place |-> asked[f]])
      BY <1>4 DEF Given
    <3>2. frame[a].op.msg \in Msg  BY <3>1 DEF Frame, AnyOp
    <3> QED BY <3>1, <3>2
  <2>2. [do |-> "push", msg |-> msg, place |-> asked[f]] \in Event
    <3>1. asked[f] \in Site  BY DEF Typed, TypeOK, Site
    <3> QED BY <2>1, <3>1 DEF Event
  <2>3. f <= fifos /\ asked'[f] = asked[f]  BY <1>4 DEF Given
  <2> QED BY <1>3, <1>4, <2>1, <2>2, <2>3
<1>5. CASE Told(f) /\ Still(f)
  <2>1. [do |-> "reset", place |-> asked'[f]] \in Event  BY <1>5 DEF Told, Event
  <2> QED BY <1>3, <1>5, <2>1 DEF Told
<1>6. CASE Born(f) /\ Still(f)
  <2>1. f > fifos /\ f = fifos' /\ Len(d) = 1 /\ d[1] = [do |-> "reset", place |-> asked'[f]] /\ d # <<>>
    BY <1>0, <1>6 DEF Born
  <2>2. d[1].do # "push" /\ d[Len(d)].place = asked'[f]  BY <2>1
  <2>3. \A j \in 2..Len(d) : FALSE  BY <2>1
  <2> QED BY <1>0, <1>6, <2>1, <2>2, <2>3 DEF Placed, Still
<1>7. CASE Took(f) /\ (Pushes(f) \/ Resets(f))
  <2>0. e # <<>> /\ d = Tail(e) /\ asked'[f] = asked[f] /\ f <= fifos  BY <1>7 DEF Took
  <2>1. /\ Len(e) > 0 /\ Len(d) = Len(e) - 1 /\ Head(e) = e[1]
        /\ \A j \in 1..Len(e) - 1 : d[j] = e[j + 1]
        /\ d = <<>> <=> Len(e) = 1
    <3> HIDE DEF e, d
    <3>1. Len(e) > 0 /\ Head(e) = e[1]  BY <1>0, <2>0
    <3>2. Tail(e) \in Seq(Event) /\ Len(Tail(e)) = Len(e) - 1 /\ \A j \in 1..Len(e) - 1 : Tail(e)[j] = e[j + 1]
      BY <1>0, <2>0
    <3>3. d = <<>> <=> Len(d) = 0
      <4>1. \A x \in Seq(Event) : x = <<>> <=> Len(x) = 0  OBVIOUS
      <4> QED BY <1>0, <4>1
    <3>4. Len(d) = Len(e) - 1 /\ \A j \in 1..Len(e) - 1 : d[j] = e[j + 1]  BY <2>0, <3>2
    <3>5. d = <<>> <=> Len(e) = 1  BY <1>0, <3>3, <3>4
    <3> QED BY <3>1, <3>4, <3>5
  <2>2. fifo'[f].place \in {NoPlace, e[1].place}
    <3>1. CASE Pushes(f)  BY <2>0, <2>1, <3>1 DEF Pushes, Placed
    <3>2. CASE Resets(f)  BY <2>1, <3>2 DEF Resets
    <3> QED BY <1>7, <3>1, <3>2
  <2>3. \A j \in 2..Len(d) : d[j].do = "push" => d[j].place = d[j - 1].place
    <3> SUFFICES ASSUME NEW j \in 2..Len(d), d[j].do = "push" PROVE d[j].place = d[j - 1].place
      OBVIOUS
    <3>1. /\ j + 1 \in 2..Len(e) /\ j \in 1..Len(e) - 1 /\ j - 1 \in 1..Len(e) - 1
          /\ j - 1 + 1 = j /\ j + 1 - 1 = j
      BY <1>0, <2>1
    <3>2. d[j] = e[j + 1] /\ d[j - 1] = e[j]  BY <2>1, <3>1
    <3> QED BY <3>1, <3>2 DEF Placed
  <2>4. d # <<>> /\ d[1].do = "push" => fifo'[f].place \in {NoPlace, d[1].place}
    <3> SUFFICES ASSUME d # <<>>, d[1].do = "push" PROVE fifo'[f].place \in {NoPlace, d[1].place}
      OBVIOUS
    <3>1. 2 \in 2..Len(e) /\ d[1] = e[2]  BY <1>0, <2>1
    <3>2. e[2].place = e[1].place  BY <3>1 DEF Placed
    <3> QED BY <2>2, <3>1, <3>2
  <2>5. d # <<>> => asked'[f] = d[Len(d)].place
    <3> SUFFICES ASSUME d # <<>> PROVE asked'[f] = d[Len(d)].place  OBVIOUS
    <3>1. Len(d) \in 1..Len(e) - 1 /\ Len(d) + 1 = Len(e)  BY <1>0, <2>1
    <3>2. d[Len(d)] = e[Len(e)]  BY <2>1, <3>1
    <3> QED BY <2>0, <3>2 DEF Placed
  <2>6. d = <<>> => fifo'[f].place \in {NoPlace, asked'[f]}
    BY <2>0, <2>1, <2>2 DEF Placed
  <2>7. \A i \in 1..Len(output'[f]) : output'[f][i].place = output'[f][i].asked
    <3>1. CASE output'[f] = output[f]  BY <3>1 DEF Placed
    <3>2. CASE output'[f] # output[f]
      <4> DEFINE w == [msg |-> Head(e).msg, place |-> fifo[f].place, asked |-> Head(e).place]
      <4>1. /\ Pushes(f) /\ fifo[f].place # NoPlace /\ Head(e).do = "push"
            /\ output'[f] = Append(output[f], w)
        BY <1>7, <3>2 DEF Pushes, Resets
      <4>2. w.place = w.asked  BY <2>0, <2>1, <4>1 DEF Placed
      <4> HIDE DEF w
      <4>3. \A i \in 1..Len(output'[f]) : output'[f][i] = w \/ (i \in 1..Len(output[f]) /\ output'[f][i] = output[f][i])
        BY <1>0, <4>1
      <4> QED BY <4>2, <4>3 DEF Placed
    <3> QED BY <3>1, <3>2
  <2>8. ~(f > fifos')  BY <1>0, <2>0
  <2> QED BY <2>3, <2>4, <2>5, <2>6, <2>7, <2>8 DEF Placed
<1> QED BY <1>1, <1>2, <1>4, <1>5, <1>6, <1>7 DEF Effect

(***************************************************************************)
(* Messages stand in order                                                 *)
(***************************************************************************)

\* No fifo has two names.
Distinct ==
  \A l, k \in Logger, n, m \in Name :
    nameToFifo[l][n] = nameToFifo[k][m] /\ nameToFifo[l][n] # NoFifo => l = k /\ n = m

\* A message handed out is the actor's own; that of a client is one of its calls.
Speaks ==
  \A a \in Actor : Hands(a) =>
    frame[a].op.msg.by = a /\ (a \in Thread => frame[a].op.msg.n <= ops)

\* What a fifo was given, in its file and in its events.
pushesOf(e) == {j \in 1..Len(e) : e[j].do = "push"}
Said(f) ==
  {output[f][i].msg : i \in 1..Len(output[f])} \cup {events[f][j].msg : j \in pushesOf(events[f])}

\* A client's messages are given in order: what a fifo has from it is older than what
\* it hands out, or the same, which then goes to this fifo no more.
Handed(f) ==
  \A m \in Said(f) : m.by \in Thread =>
    /\ m.n <= ops
    /\ Hands(m.by) =>
         LET fr == frame[m.by] IN
         \/ m.n < fr.op.msg.n
         \/ m.n = fr.op.msg.n /\ \A k \in Name : k > fr.cursor => nameToFifo[fr.logger][k] # f

before(m, k) == m.by = k.by /\ k.by \in Thread => m.n < k.n

Ordered(f) ==
  /\ \A i, j \in 1..Len(output[f]) : i < j => before(output[f][i].msg, output[f][j].msg)
  /\ \A i, j \in pushesOf(events[f]) : i < j => before(events[f][i].msg, events[f][j].msg)
  /\ \A i \in 1..Len(output[f]), j \in pushesOf(events[f]) : before(output[f][i].msg, events[f][j].msg)

LEMMA DistinctNext ==
  ASSUME Typed, Mapped, Distinct
  PROVE  Distinct'
<1>0. nameToFifo \in [Logger -> [Name -> 0..fifos]] /\ fifos \in Int /\ fifos >= 0
  BY LoggerAssumption DEF Typed, TypeOK
<1>1. CASE nameToFifo' = nameToFifo
  BY <1>1 DEF Distinct
<1>2. CASE \E l \in Logger, n \in Name :
             nameToFifo' = [nameToFifo EXCEPT ![l] = [nameToFifo[l] EXCEPT ![n] = fifos + 1]]
  <2>1. PICK l0 \in Logger, n0 \in Name :
          nameToFifo' = [nameToFifo EXCEPT ![l0] = [nameToFifo[l0] EXCEPT ![n0] = fifos + 1]]
    BY <1>2
  <2>2. \A l \in Logger, n \in Name :
          nameToFifo'[l][n] = IF l = l0 /\ n = n0 THEN fifos + 1 ELSE nameToFifo[l][n]
    BY <1>0, <2>1
  <2>3. \A l \in Logger, n \in Name : nameToFifo[l][n] # fifos + 1
    <3>1. \A l \in Logger, n \in Name : nameToFifo[l][n] \in 0..fifos  BY <1>0
    <3> QED BY <1>0, <3>1
  <2> QED BY <2>2, <2>3 DEF Distinct
<1> QED BY <1>1, <1>2 DEF Mapped

LEMMA SpeaksNext ==
  ASSUME Typed, Typed', Step, Speaks
  PROVE  Speaks'
<1> SUFFICES ASSUME NEW a \in Actor, Hands(a)'
             PROVE  frame'[a].op.msg.by = a /\ (a \in Thread => frame'[a].op.msg.n <= ops')
  BY DEF Speaks
<1>1. Framed(a) /\ ops <= ops' /\ ops \in Int /\ ops' \in Int
  BY LoggerAssumption DEF Step, Typed, TypeOK
<1>2. CASE Hands(a) /\ frame'[a].op = frame[a].op
  <2>1. frame[a].op.msg.n \in Int
    <3>1. frame[a] \in Frame  BY <1>2 DEF Typed, Hands
    <3>2. frame[a].op.msg \in Msg  BY <1>2, <3>1 DEF Frame, AnyOp, Hands
    <3> QED BY <3>2, LoggerAssumption DEF Msg
  <2> QED BY <1>1, <1>2, <2>1 DEF Speaks
<1>3. CASE /\ frame'[a].op.msg.by = a
           /\ a \in Thread => frame'[a].op.msg.n = ops + 1 /\ ops' = ops + 1
  BY <1>1, <1>3
<1> QED BY <1>1, <1>2, <1>3 DEF Framed, Hands

\* A fifo is given at most one message by a step.
LEMMA SaidNext ==
  ASSUME Typed, Step, NEW f \in Fifo, NEW m \in Said(f)'
  PROVE  \/ m \in Said(f)
         \/ Given(f) /\ \E a \in Actor, n \in Name :
              /\ frame[a] \in Frame /\ frame[a].op.do = "message" /\ m = frame[a].op.msg
              /\ n > frame[a].cursor /\ nameToFifo[frame[a].logger][n] = f
              /\ frame' = [frame EXCEPT ![a] = [frame[a] EXCEPT !.cursor = n]]
<1> DEFINE e == events[f]
           d == events'[f]
<1>0. e \in Seq(Event) /\ Len(e) \in Nat /\ output[f] \in Seq(Entry) /\ Len(output[f]) \in Nat
  BY DEF Typed
<1>1. Effect(f)  BY DEF Step
<1>2. CASE \E i \in 1..Len(output'[f]) : m = output'[f][i].msg
  <2>1. PICK i \in 1..Len(output'[f]) : m = output'[f][i].msg  BY <1>2
  <2>2. CASE output'[f] = output[f]  BY <2>1, <2>2 DEF Said
  <2>3. CASE output'[f] # output[f]
    <3> DEFINE w == [msg |-> Head(e).msg, place |-> fifo[f].place, asked |-> Head(e).place]
    <3>1. e # <<>> /\ Head(e).do = "push" /\ output'[f] = Append(output[f], w)
      BY <1>1, <2>3 DEF Effect, Still, Pushes, Resets, Took
    <3>2. w.msg = e[1].msg /\ 1 \in pushesOf(e)  BY <1>0, <3>1 DEF pushesOf
    <3> HIDE DEF w
    <3>3. output'[f][i] = w \/ (i \in 1..Len(output[f]) /\ output'[f][i] = output[f][i])
      BY <1>0, <2>1, <3>1
    <3> QED BY <2>1, <3>2, <3>3 DEF Said
  <2> QED BY <2>2, <2>3
<1>3. CASE \E j \in pushesOf(d) : m = d[j].msg
  <2>1. PICK j \in 1..Len(d) : d[j].do = "push" /\ m = d[j].msg  BY <1>3 DEF pushesOf
  <2>2. CASE Kept(f)  BY <2>1, <2>2 DEF Said, Kept, pushesOf
  <2>3. ASSUME NEW ev, d = Append(e, ev)
        PROVE  (j \in 1..Len(e) /\ d[j] = e[j]) \/ d[j] = ev
    BY <1>0, <2>1, <2>3
  <2>4. CASE Told(f)
    <3>1. j \in 1..Len(e) /\ d[j] = e[j]  BY <2>1, <2>3, <2>4 DEF Told
    <3> QED BY <2>1, <3>1 DEF Said, pushesOf
  <2>5. CASE Given(f)
    <3>1. PICK a \in Actor, n \in Name :
            /\ frame[a] \in Frame /\ frame[a].op.do = "message"
            /\ n > frame[a].cursor /\ nameToFifo[frame[a].logger][n] = f
            /\ frame' = [frame EXCEPT ![a] = [frame[a] EXCEPT !.cursor = n]]
            /\ d = Append(e, [do |-> "push", msg |-> frame[a].op.msg, place |-> asked[f]])
      BY <2>5 DEF Given
    <3>2. CASE j \in 1..Len(e) /\ d[j] = e[j]
      BY <2>1, <3>2 DEF Said, pushesOf
    <3>3. CASE d[j] = [do |-> "push", msg |-> frame[a].op.msg, place |-> asked[f]]
      <4>1. m = frame[a].op.msg  BY <2>1, <3>3
      <4> QED BY <2>5, <3>1, <4>1
    <3> QED BY <2>3, <3>1, <3>2, <3>3
  <2>6. CASE Born(f)  BY <2>1, <2>6 DEF Born
  <2>7. CASE Took(f)
    <3>1. j + 1 \in 1..Len(e) /\ d[j] = e[j + 1]
      <4>1. e # <<>> /\ d = Tail(e)  BY <2>7 DEF Took
      <4> HIDE DEF e, d
      <4>2. Len(d) = Len(e) - 1 /\ \A x \in 1..Len(e) - 1 : d[x] = e[x + 1]  BY <1>0, <4>1
      <4> QED BY <1>0, <2>1, <4>2
    <3> QED BY <2>1, <3>1 DEF Said, pushesOf
  <2> QED BY <1>1, <2>2, <2>4, <2>5, <2>6, <2>7 DEF Effect
<1> QED BY <1>2, <1>3 DEF Said, pushesOf

LEMMA HandedNext ==
  ASSUME Typed, Typed', Step, Distinct, Speaks, NEW f \in Fifo, Placed(f), Handed(f)
  PROVE  Handed(f)'
<1> USE LoggerAssumption
<1> SUFFICES ASSUME NEW m \in Said(f)', m.by \in Thread
             PROVE  /\ m.n <= ops'
                    /\ Hands(m.by)' =>
                         \/ m.n < frame'[m.by].op.msg.n
                         \/ /\ m.n = frame'[m.by].op.msg.n
                            /\ \A k \in Name : k > frame'[m.by].cursor => nameToFifo'[frame'[m.by].logger][k] # f
  BY DEF Handed
<1> DEFINE t == m.by
<1>0. /\ t \in Actor /\ ops \in Int /\ ops' \in Int /\ ops <= ops' /\ fifos \in Nat
      /\ nameToFifo \in [Logger -> [Name -> 0..fifos]] /\ frame \in [Actor -> {Idle} \cup Frame]
      /\ frame' \in [Actor -> {Idle} \cup Frame]
  BY DEF Actor, Step, Typed, TypeOK
<1>1. CASE m \in Said(f)
  <2>0. f <= fifos /\ m.n \in Int
    <3>1. ~(f > fifos)  BY <1>1 DEF Placed, Said, pushesOf
    <3>2. m \in Msg
      <4>1. \A i \in 1..Len(output[f]) : output[f][i].msg \in Msg
        <5>1. \A i \in 1..Len(output[f]) : output[f][i] \in Entry  BY DEF Typed
        <5> QED BY <5>1 DEF Entry
      <4>2. \A j \in pushesOf(events[f]) : events[f][j].msg \in Msg
        <5>1. \A j \in 1..Len(events[f]) : events[f][j] \in Event  BY DEF Typed
        <5> QED BY <5>1 DEF Event, pushesOf
      <4> QED BY <1>1, <4>1, <4>2 DEF Said
    <3> QED BY <1>0, <3>1, <3>2 DEF Fifo, Msg
  <2>1. m.n <= ops'  BY <1>0, <1>1, <2>0 DEF Handed
  <2>2. ASSUME NEW l \in Logger, NEW k \in Name, nameToFifo[l][k] # f
        PROVE  nameToFifo'[l][k] # f
    <3>1. CASE nameToFifo' = nameToFifo  BY <2>2, <3>1
    <3>2. CASE nameToFifo' # nameToFifo
      <4>1. PICK l0 \in Logger, n0 \in Name :
              nameToFifo' = [nameToFifo EXCEPT ![l0] = [nameToFifo[l0] EXCEPT ![n0] = fifos + 1]]
        BY <3>2 DEF Step, Mapped
      <4>2. nameToFifo'[l][k] \in {nameToFifo[l][k], fifos + 1}  BY <1>0, <4>1
      <4>3. f # fifos + 1  BY <1>0, <2>0 DEF Fifo
      <4> QED BY <2>2, <4>2, <4>3
    <3> QED BY <3>1, <3>2
  <2>3. ASSUME Hands(t)'
        PROVE  \/ m.n < frame'[t].op.msg.n
               \/ /\ m.n = frame'[t].op.msg.n
                  /\ \A k \in Name : k > frame'[t].cursor => nameToFifo'[frame'[t].logger][k] # f
    <3>1. CASE /\ Hands(t) /\ frame'[t].op = frame[t].op /\ frame'[t].logger = frame[t].logger
               /\ frame'[t].cursor >= frame[t].cursor
      <4>1. frame[t] \in Frame /\ frame'[t] \in Frame  BY <1>0, <2>3, <3>1 DEF Hands
      <4>2. frame[t].logger \in Logger /\ frame[t].cursor \in Int /\ frame'[t].cursor \in Int
        BY <4>1 DEF Frame
      <4>3. CASE m.n < frame[t].op.msg.n  BY <3>1, <4>3
      <4>4. CASE m.n = frame[t].op.msg.n /\ \A k \in Name : k > frame[t].cursor => nameToFifo[frame[t].logger][k] # f
        <5> SUFFICES ASSUME NEW k \in Name, k > frame'[t].cursor
                     PROVE  nameToFifo'[frame'[t].logger][k] # f
          BY <3>1, <4>4
        <5>1. k > frame[t].cursor  BY <3>1, <4>2 DEF Name
        <5> QED BY <2>2, <3>1, <4>2, <4>4, <5>1
      <4> QED BY <1>1, <3>1, <4>3, <4>4 DEF Handed
    <3>2. CASE frame'[t] = frame[t]
      <4>1. Hands(t) /\ frame[t] \in Frame  BY <1>0, <2>3, <3>2 DEF Hands
      <4>2. frame[t].cursor \in Int  BY <4>1 DEF Frame
      <4> QED BY <3>1, <3>2, <4>1, <4>2
    <3>3. CASE frame'[t].op.msg.n = ops + 1
      BY <1>0, <1>1, <2>0, <3>3 DEF Handed
    <3> QED BY <1>0, <2>3, <3>1, <3>2, <3>3 DEF Step, Framed
  <2> QED BY <2>1, <2>3
<1>2. CASE m \notin Said(f)
  <2>1. Given(f)  BY <1>2, SaidNext
  <2>2. PICK a \in Actor, n \in Name :
              /\ frame[a] \in Frame /\ frame[a].op.do = "message" /\ m = frame[a].op.msg
              /\ n > frame[a].cursor /\ nameToFifo[frame[a].logger][n] = f
              /\ frame' = [frame EXCEPT ![a] = [frame[a] EXCEPT !.cursor = n]]
    BY <1>2, SaidNext
  <2>3. Hands(a) /\ m.by = a
    <3>1. Hands(a)  BY <2>2 DEF Hands, Frame, Idle
    <3> QED BY <2>2, <3>1 DEF Speaks
  <2>4. m.n <= ops /\ m.n \in Int
    <3>1. m \in Msg  BY <2>2 DEF Frame, AnyOp
    <3> QED BY <2>2, <2>3, <3>1 DEF Speaks, Msg
  <2>5. frame'[t].op = frame[t].op /\ frame'[t].cursor = n /\ frame'[t].logger = frame[t].logger
        /\ frame[t].logger \in Logger
    BY <1>0, <2>2, <2>3 DEF Frame
  <2>6. nameToFifo' = nameToFifo  BY <2>1 DEF Given
  <2>7. ASSUME NEW k \in Name, k > n
        PROVE  nameToFifo[frame[t].logger][k] # f
    <3>1. k # n /\ f # NoFifo  BY <2>7 DEF Name, Fifo, NoFifo
    <3> QED BY <2>2, <2>3, <2>5, <3>1 DEF Distinct
  <2> QED BY <1>0, <2>2, <2>3, <2>4, <2>5, <2>6, <2>7
<1> QED BY <1>1, <1>2

LEMMA OrderedNext ==
  ASSUME Typed, Typed', Step, Speaks, NEW f \in Fifo, Placed(f), Handed(f), Ordered(f)
  PROVE  Ordered(f)'
<1> DEFINE e == events[f]
           d == events'[f]
           o == output[f]
           w == output'[f]
<1>0. e \in Seq(Event) /\ Len(e) \in Nat /\ o \in Seq(Entry) /\ Len(o) \in Nat
  BY DEF Typed
<1>1. Effect(f)  BY DEF Step
<1>2. CASE Kept(f) /\ Still(f)
  BY <1>2 DEF Kept, Still, Ordered
<1>3. ASSUME w = o, NEW ev, d = Append(e, ev),
             ev.do = "push" => \A m \in Said(f) : before(m, ev.msg)
      PROVE  Ordered(f)'
  <2>1. /\ Len(d) = Len(e) + 1 /\ \A j \in 1..Len(e) : d[j] = e[j]
        /\ d[Len(e) + 1] = ev
    BY <1>0, <1>3
  <2>2. pushesOf(d) = pushesOf(e) \cup (IF ev.do = "push" THEN {Len(e) + 1} ELSE {})
    BY <1>0, <2>1 DEF pushesOf
  <2>3. \A j \in pushesOf(e) : j \in 1..Len(e) /\ d[j] = e[j]
    BY <2>1 DEF pushesOf
  <2>4. \A i, j \in pushesOf(d) : i < j => before(d[i].msg, d[j].msg)
    <3> SUFFICES ASSUME NEW i \in pushesOf(d), NEW j \in pushesOf(d), i < j
                 PROVE  before(d[i].msg, d[j].msg)
      OBVIOUS
    <3>1. i \in pushesOf(e)
      <4>1. j <= Len(e) + 1  BY <1>0, <2>2, <2>3
      <4> QED BY <1>0, <2>2, <2>3, <4>1
    <3>2. CASE j \in pushesOf(e)  BY <2>3, <3>1, <3>2 DEF Ordered
    <3>3. CASE j = Len(e) + 1 /\ ev.do = "push"
      <4>1. e[i].msg \in Said(f)  BY <3>1 DEF Said
      <4> QED BY <1>3, <2>1, <2>3, <3>1, <3>3, <4>1
    <3> QED BY <2>2, <3>2, <3>3
  <2>5. \A i \in 1..Len(w), j \in pushesOf(d) : before(w[i].msg, d[j].msg)
    <3> SUFFICES ASSUME NEW i \in 1..Len(o), NEW j \in pushesOf(d)
                 PROVE  before(o[i].msg, d[j].msg)
      BY <1>3
    <3>1. CASE j \in pushesOf(e)  BY <2>3, <3>1 DEF Ordered
    <3>2. CASE j = Len(e) + 1 /\ ev.do = "push"
      <4>1. o[i].msg \in Said(f)  BY DEF Said
      <4> QED BY <1>3, <2>1, <3>2, <4>1
    <3> QED BY <2>2, <3>1, <3>2
  <2>6. \A i, j \in 1..Len(w) : i < j => before(w[i].msg, w[j].msg)
    BY <1>3 DEF Ordered
  <2> HIDE DEF d, w
  <2> QED BY <2>4, <2>5, <2>6 DEF Ordered, d, w
<1>4. CASE Told(f) /\ Still(f)
  <2>1. [do |-> "reset", place |-> asked'[f]].do # "push"  OBVIOUS
  <2> QED BY <1>3, <1>4, <2>1 DEF Told, Still
<1>5. CASE Given(f) /\ Still(f)
  <2>1. PICK a \in Actor, n \in Name :
          /\ frame[a] \in Frame /\ frame[a].op.do = "message"
          /\ n > frame[a].cursor /\ nameToFifo[frame[a].logger][n] = f
          /\ d = Append(e, [do |-> "push", msg |-> frame[a].op.msg, place |-> asked[f]])
    BY <1>5 DEF Given
  <2>2. Hands(a) /\ frame[a].op.msg.by = a
    <3>1. Hands(a)  BY <2>1 DEF Hands, Frame, Idle
    <3> QED BY <3>1 DEF Speaks
  <2>3. \A m \in Said(f) : before(m, frame[a].op.msg)
    BY <2>1, <2>2 DEF Handed, before
  <2> DEFINE ev == [do |-> "push", msg |-> frame[a].op.msg, place |-> asked[f]]
  <2>4. ev.msg = frame[a].op.msg  OBVIOUS
  <2> HIDE DEF ev
  <2> QED BY <1>3, <1>5, <2>1, <2>3, <2>4 DEF Still, ev
<1>6. CASE Born(f) /\ Still(f)
  <2>1. pushesOf(d) = {}  BY <1>6 DEF Born, pushesOf
  <2>2. w = o  BY <1>6 DEF Still
  <2> QED BY <2>1, <2>2 DEF Ordered
<1>7. CASE Took(f) /\ (Pushes(f) \/ Resets(f))
  <2>1. e # <<>> /\ d = Tail(e)  BY <1>7 DEF Took
  <2>2. /\ Len(d) = Len(e) - 1 /\ Len(e) > 0 /\ Head(e) = e[1]
        /\ \A j \in 1..Len(e) - 1 : d[j] = e[j + 1]
    <3> HIDE DEF e, d
    <3> QED BY <1>0, <2>1
  <2>3. \A j \in pushesOf(d) : j + 1 \in pushesOf(e) /\ d[j] = e[j + 1] /\ j \in Nat /\ j > 0
    <3> SUFFICES ASSUME NEW j \in 1..Len(d), d[j].do = "push"
                 PROVE  j + 1 \in 1..Len(e) /\ e[j + 1].do = "push" /\ d[j] = e[j + 1]
      BY DEF pushesOf
    <3> QED BY <1>0, <2>2
  <2>4. \A i, j \in pushesOf(d) : i < j => before(d[i].msg, d[j].msg)
    <3> SUFFICES ASSUME NEW i \in pushesOf(d), NEW j \in pushesOf(d), i < j
                 PROVE  before(d[i].msg, d[j].msg)
      OBVIOUS
    <3>1. i + 1 < j + 1  BY <2>3
    <3> QED BY <2>3, <3>1 DEF Ordered
  <2>5. \A i \in 1..Len(o), j \in pushesOf(d) : before(o[i].msg, d[j].msg)
    BY <2>3 DEF Ordered
  <2>6. CASE w = o
    BY <2>4, <2>5, <2>6 DEF Ordered
  <2>7. CASE w # o
    <3> DEFINE x == [msg |-> Head(e).msg, place |-> fifo[f].place, asked |-> Head(e).place]
    <3>1. Head(e).do = "push" /\ w = Append(o, x)  BY <1>7, <2>7 DEF Pushes, Resets
    <3>2. x.msg = e[1].msg /\ 1 \in pushesOf(e)  BY <1>0, <2>2, <3>1 DEF pushesOf
    <3> HIDE DEF x
    <3>3. /\ Len(w) = Len(o) + 1 /\ \A i \in 1..Len(o) : w[i] = o[i]
          /\ w[Len(o) + 1] = x
      BY <1>0, <3>1
    <3>4. \A i, j \in 1..Len(w) : i < j => before(w[i].msg, w[j].msg)
      <4> SUFFICES ASSUME NEW i \in 1..Len(w), NEW j \in 1..Len(w), i < j
                   PROVE  before(w[i].msg, w[j].msg)
        OBVIOUS
      <4>1. i \in 1..Len(o) /\ w[i] = o[i]  BY <1>0, <3>3
      <4>2. CASE j \in 1..Len(o)  BY <3>3, <4>1, <4>2 DEF Ordered
      <4>3. CASE j = Len(o) + 1  BY <3>2, <3>3, <4>1, <4>3 DEF Ordered
      <4> QED BY <1>0, <3>3, <4>2, <4>3
    <3>5. \A i \in 1..Len(w), j \in pushesOf(d) : before(w[i].msg, d[j].msg)
      <4> SUFFICES ASSUME NEW i \in 1..Len(w), NEW j \in pushesOf(d)
                   PROVE  before(w[i].msg, d[j].msg)
        OBVIOUS
      <4>1. CASE i \in 1..Len(o)  BY <2>5, <3>3, <4>1
      <4>2. CASE i = Len(o) + 1
        <5>1. 1 < j + 1  BY <2>3
        <5> QED BY <2>3, <3>2, <3>3, <4>2, <5>1 DEF Ordered
      <4> QED BY <1>0, <3>3, <4>1, <4>2
    <3> HIDE DEF d, w
    <3> QED BY <2>4, <3>4, <3>5 DEF Ordered, d, w
  <2> QED BY <2>6, <2>7
<1> QED BY <1>1, <1>2, <1>4, <1>5, <1>6, <1>7 DEF Effect

IInv ==
  /\ Typed /\ Linked /\ Distinct /\ Speaks
  /\ \A f \in Fifo : Placed(f) /\ Handed(f) /\ Ordered(f)

\* Every step of clients and log threads keeps the types and the order.
THEOREM Invariance == Spec => []IInv
<1>1. Init => IInv
  <2> SUFFICES ASSUME Init PROVE IInv  OBVIOUS
  <2> USE LoggerAssumption
  <2>1. Typed  BY TypedInit
  <2>2. Linked /\ Distinct  BY DEF Init, Linked, Distinct
  <2>3. Speaks  BY DEF Init, Speaks, Hands
  <2>4. ASSUME NEW f \in Fifo
        PROVE  Placed(f) /\ Handed(f) /\ Ordered(f)
    <3>1. events[f] = <<>> /\ output[f] = <<>> /\ asked[f] = NoPlace /\ fifo[f].place = NoPlace
      BY DEF Init
    <3>2. pushesOf(events[f]) = {} /\ Said(f) = {}  BY <3>1 DEF pushesOf, Said
    <3> QED BY <3>1, <3>2 DEF Placed, Handed, Ordered
  <2> QED BY <2>1, <2>2, <2>3, <2>4 DEF IInv
<1>2. IInv /\ [Next]_vars => IInv'
  <2> SUFFICES ASSUME IInv, [Next]_vars PROVE IInv'  OBVIOUS
  <2>1. Typed /\ Typed' /\ Linked' /\ Step
    BY TypedNext, LinkedNext, StepTold DEF IInv
  <2>2. Distinct' /\ Speaks'  BY <2>1, DistinctNext, SpeaksNext DEF IInv, Step
  <2>3. ASSUME NEW f \in Fifo
        PROVE  (Placed(f) /\ Handed(f) /\ Ordered(f))'
    BY <2>1, PlacedNext, HandedNext, OrderedNext DEF IInv
  <2> QED BY <2>1, <2>2, <2>3 DEF IInv
<1> QED BY <1>1, <1>2, PTL DEF Spec

\* The types hold for any number of clients, names, fifos and loggers.
THEOREM TypeCorrect == Spec => []TypeOK
<1>1. IInv => TypeOK  BY DEF IInv, Typed
<1> QED BY <1>1, Invariance, PTL

\* What a client logged stands in each fifo in the order of its calls, where the fifo
\* was last told to write before, whatever fails and whoever else logs.
THEOREM StandsAsAsked == Spec => []WrittenAsAsked
<1>1. IInv => WrittenAsAsked
  <2> SUFFICES ASSUME IInv, NEW f \in Fifo, NEW i \in DOMAIN output[f]
               PROVE  /\ output[f][i].place = output[f][i].asked
                      /\ \A j \in 1..(i - 1) :
                           output[f][i].msg.by = output[f][j].msg.by /\ output[f][i].msg.by \in Thread
                             => output[f][j].msg.n < output[f][i].msg.n
    BY DEF WrittenAsAsked
  <2>1. output[f] \in Seq(Entry) /\ i \in 1..Len(output[f])  BY DEF IInv, Typed
  <2>2. output[f][i].place = output[f][i].asked  BY <2>1 DEF IInv, Placed
  <2>3. ASSUME NEW j \in 1..(i - 1)
        PROVE  before(output[f][j].msg, output[f][i].msg)
    <3>1. j \in 1..Len(output[f]) /\ j < i  BY <2>1
    <3> QED BY <2>1, <3>1 DEF IInv, Ordered
  <2> QED BY <2>2, <2>3 DEF before
<1> QED BY <1>1, Invariance, PTL

(***************************************************************************)
(* A second logger needs two clients that ask at once, or a failure        *)
(***************************************************************************)

\* Until the instance is assigned the client that makes it is the only one in a call, and
\* the log threads have nothing to report: all they are asked is to write to places that open.
Starts ==
  instance = NoLogger =>
    /\ \A t \in Thread : frame[t].at \in {"idle", "assign"}
    /\ loggers # 0 => \E t \in Thread : frame[t].at = "assign"
    /\ \A f \in Fifo : /\ frame[f] = Idle
                       /\ \A i \in 1..Len(events[f]) : events[f][i].do = "reset" /\ events[f][i].place \in Place

OneMade == ~raced /\ broken = {} => loggers <= 1 /\ Starts

LEMMA OneMadeNext ==
  ASSUME Typed, OneMade, [Next]_vars
  PROVE  OneMade'
<1> USE LoggerAssumption
<1>0. /\ frame \in [Actor -> {Idle} \cup Frame] /\ events \in [Fifo -> Seq(Event)]
      /\ instance \in 0..loggers /\ loggers \in Nat
  BY DEF Typed, TypeOK
<1>1. SUFFICES ASSUME ~raced', broken' = {}
               PROVE  loggers' <= 1 /\ Starts'
  BY DEF OneMade
<1>2. broken = {} /\ ~raced
  <2>1. broken' = broken \/ \E f \in Fifo : broken' = broken \cup {f}
    BY DEF Next, vars, call, calls, slots, assign, message, configFifo, setEnable, setFifoEnable,
           resetFifo, file_onPush, tcp_onPush, file_onReset, tcp_onReset, settles, breaks
  <2>2. raced' = raced \/ \E t \in Thread : call(t)
    BY DEF Next, vars, calls, slots, assign, message, configFifo, setEnable, setFifoEnable,
           resetFifo, file_onPush, tcp_onPush, file_onReset, tcp_onReset, settles, breaks
  <2>3. ASSUME NEW t \in Thread, call(t)
        PROVE  raced => raced'
    BY <2>3 DEF call
  <2> QED BY <1>1, <2>1, <2>2, <2>3
<1>3. loggers <= 1 /\ Starts  BY <1>2 DEF OneMade
<1>5. \A a \in Actor : a \in Thread \/ a \in Fifo  BY DEF Actor
<1>6. ASSUME instance # NoLogger, instance' # NoLogger, loggers' = loggers
      PROVE  loggers' <= 1 /\ Starts'
  BY <1>3, <1>6 DEF Starts
<1>7. CASE UNCHANGED vars
  BY <1>3, <1>7 DEF vars, Starts
<1>8. ASSUME NEW t \in Thread, call(t)
      PROVE  loggers' <= 1 /\ Starts'
  <2>1. PICK op \in Op(t) : \E home \in Place : enter(t, op, home, events)  BY <1>8 DEF call
  <2>5. PICK home \in Place : enter(t, op, home, events)  BY <2>1
  <2>2. instance' = instance /\ frame[t] = Idle  BY <1>8 DEF call
  <2>3. CASE instance # NoLogger
    <3>1. loggers' = loggers  BY <2>5, <2>3 DEF enter
    <3> QED BY <1>6, <2>2, <2>3, <3>1
  <2>4. CASE instance = NoLogger
    <3>0. \A u \in Thread : frame[u].at # "assign"  BY <1>1, <1>8, <2>4 DEF call
    <3>1. loggers = 0  BY <1>3, <2>4, <3>0 DEF Starts
    <3>2. /\ loggers' = 1 /\ fifos < MaxFifo
          /\ frame' = [frame EXCEPT ![t] = [at |-> "assign", logger |-> loggers + 1, op |-> op, cursor |-> 0]]
          /\ events' = [events EXCEPT ![fifos + 1] = <<[do |-> "reset", place |-> home]>>]
      BY <2>5, <2>4, <3>1 DEF enter
    <3>3. t \in Actor /\ t \notin Fifo  BY DEF Actor
    <3>4. /\ frame'[t].at = "assign" /\ \A f \in Fifo : frame'[f] = frame[f]
          /\ \A u \in Thread : u = t \/ frame'[u] = frame[u]
      BY <1>0, <3>2, <3>3 DEF Actor
    <3>5. ASSUME NEW f \in Fifo, NEW i \in 1..Len(events'[f])
          PROVE  events'[f][i].do = "reset" /\ events'[f][i].place \in Place
      <4>1. CASE f = fifos + 1  BY <1>0, <3>2, <3>5, <4>1
      <4>2. CASE f # fifos + 1
        <5>1. events'[f] = events[f]  BY <1>0, <3>2, <4>2
        <5> QED BY <1>3, <2>4, <3>5, <5>1 DEF Starts
      <4> QED BY <4>1, <4>2
    <3> QED BY <1>3, <2>4, <3>2, <3>4, <3>5 DEF Starts
  <2> QED BY <2>3, <2>4
<1>9. ASSUME NEW a \in Actor, assign(a)
      PROVE  loggers' <= 1 /\ Starts'
  <2>1. instance' = frame[a].logger /\ loggers' = loggers  BY <1>9 DEF assign
  <2>2. frame[a].logger \in Logger  BY <1>9, FrameTyped DEF assign
  <2> QED BY <1>3, <2>1, <2>2 DEF Starts, Logger, NoLogger
<1>10. ASSUME NEW a \in Actor, frame[a].at = "run", instance' = instance, loggers' = loggers
       PROVE  loggers' <= 1 /\ Starts'
  <2>1. instance # NoLogger
    <3>1. CASE a \in Thread  BY <1>3, <1>10, <3>1 DEF Starts
    <3>2. CASE a \in Fifo  BY <1>3, <1>10, <3>2 DEF Starts, Idle
    <3> QED BY <1>5, <3>1, <3>2
  <2> QED BY <1>6, <1>10, <2>1
<1>11. ASSUME NEW f \in Fifo, slots(f)
       PROVE  loggers' <= 1 /\ Starts'
  <2>0. instance' = instance /\ events[f] # <<>>
    BY <1>11 DEF slots, next, file_onPush, tcp_onPush, file_onReset, tcp_onReset
  <2>1. CASE instance # NoLogger
    <3>1. loggers' = loggers
      <4>1. CASE takes(f)  BY <4>1 DEF takes
      <4>2. CASE report(f)  BY <2>1, <4>2 DEF report, enter
      <4> QED BY <1>11, <4>1, <4>2 DEF slots, file_onPush, tcp_onPush, file_onReset, tcp_onReset
    <3> QED BY <1>6, <2>0, <2>1, <3>1
  <2>2. CASE instance = NoLogger
    <3>1. Head(events[f]).do = "reset" /\ Head(events[f]).place \in Place
      <4>1. events[f] \in Seq(Event)  BY <1>0
      <4>2. 1 \in 1..Len(events[f]) /\ Head(events[f]) = events[f][1]  BY <2>0, <4>1
      <4> QED BY <1>3, <2>2, <4>2 DEF Starts
    <3>2. takes(f)
      <4>1. f \notin broken /\ Head(events[f]).place # NoPlace  BY <1>2, <3>1
      <4> QED BY <1>11, <3>1, <4>1 DEF slots, next, file_onPush, tcp_onPush, file_onReset, tcp_onReset
    <3>3. frame' = frame /\ loggers' = loggers /\ events' = [events EXCEPT ![f] = Tail(@)]
      BY <3>2 DEF takes, taken
    <3>4. ASSUME NEW g \in Fifo, NEW i \in 1..Len(events'[g])
          PROVE  events'[g][i].do = "reset" /\ events'[g][i].place \in Place
      <4>1. CASE g # f
        <5>1. events'[g] = events[g]  BY <1>0, <3>3, <4>1
        <5> QED BY <1>3, <2>2, <3>4, <5>1 DEF Starts
      <4>2. CASE g = f
        <5>1. events[f] \in Seq(Event) /\ events'[f] = Tail(events[f])  BY <1>0, <3>3
        <5>2. Len(events'[f]) = Len(events[f]) - 1 /\ Len(events[f]) \in Nat
              /\ \A j \in 1..Len(events[f]) - 1 : events'[f][j] = events[f][j + 1]
          BY <2>0, <5>1
        <5>3. i + 1 \in 1..Len(events[f]) /\ events'[f][i] = events[f][i + 1]  BY <3>4, <4>2, <5>2
        <5> QED BY <1>3, <2>2, <4>2, <5>3 DEF Starts
      <4> QED BY <4>1, <4>2
    <3> QED BY <1>3, <2>0, <2>2, <3>3, <3>4 DEF Starts
  <2> QED BY <2>1, <2>2
<1>12. ASSUME NEW f \in Fifo, settles(f) \/ breaks(f)
       PROVE  loggers' <= 1 /\ Starts'
  <2>1. UNCHANGED <<instance, loggers, frame, events>>  BY <1>12 DEF settles, breaks
  <2> QED BY <1>3, <2>1 DEF Starts
<1>13. ASSUME NEW a \in Actor, calls(a), ~assign(a)
       PROVE  loggers' <= 1 /\ Starts'
  <2>1. frame[a].at = "run" /\ instance' = instance /\ loggers' = loggers
    BY <1>13 DEF calls, doing, message, configFifo, setEnable, setFifoEnable, resetFifo
  <2> QED BY <1>10, <2>1
<1> QED BY <1>7, <1>8, <1>9, <1>11, <1>12, <1>13 DEF Next

\* However many clients, fifos, names and calls: a second logger is made only once two
\* clients asked while there was none, or a disk refused.
THEOREM OneLogger == Spec => []OneLoggerUnlessFails
<1>1. Init => OneMade
  <2> SUFFICES ASSUME Init PROVE loggers <= 1 /\ Starts  BY DEF OneMade
  <2>1. \A t \in Thread : frame[t].at = "idle"  BY DEF Init, Idle, Actor
  <2>2. \A f \in Fifo : frame[f] = Idle /\ Len(events[f]) = 0  BY DEF Init, Actor
  <2> QED BY <2>1, <2>2 DEF Init, Starts
<1>2. IInv /\ OneMade /\ [Next]_vars => OneMade'  BY OneMadeNext DEF IInv
<1>3. IInv /\ OneMade => OneLoggerUnlessFails
  BY LoggerAssumption DEF IInv, Typed, TypeOK, OneMade, OneLoggerUnlessFails
<1> QED BY <1>1, <1>2, <1>3, Invariance, PTL DEF Spec
=============================================================================
