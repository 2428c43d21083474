------------------------------ MODULE XXlogger ------------------------------
(***************************************************************************)
(* The Qt logger (Qt/Utility/XXlogger, FileLogFifo, TcpClientLogFifo): a   *)
(* singleton hands every message to its fifos, and each fifo writes in a   *)
(* log thread of its own, whose failures it reports to the same singleton. *)
(*                                                                         *)
(* Clients call from several threads; nothing is locked.  A step is one    *)
(* access to the singleton or its map, or one slot of a log thread.  Posted *)
(* events keep their order (queued connections).  The text of a message,   *)
(* its date and the qDebug fifo are left out.                              *)
(***************************************************************************)
EXTENDS Integers, Sequences, FiniteSets

CONSTANTS
  Thread,     \* the client threads
  NumNames,   \* the aliases of fifos are 1 .. NumNames, in the map's order
  Place,      \* what reset can ask for: directories, addresses
  MaxOps,     \* bound: calls of the clients
  MaxFifo, MaxLogger   \* bounds: fifos and loggers made

VARIABLES
  instance,    \* XXlogger::_instance
  loggers,     \* how many XXlogger were made; each is a number
  nameToFifo,  \* _nameToFifo of each
  fifos,       \* how many fifos were made; each is a number
  fifo,        \* kind, _enable, and what it writes to (_file, _socket)
  events,      \* sigPush and sigReset posted to each log thread
  frame,       \* the call of XXlogger that every thread is in
  broken,      \* the fifos whose disk refuses
  ops,         \* how many calls the clients made
  raced,       \* history: a client asked for the instance while another one made it
  aborted,     \* a QThread was destroyed while it ran: Qt ends the process
  asked,       \* history: the place each fifo was last told to use
  output       \* history: what each fifo wrote, where, and where it should have

vars == <<instance, loggers, nameToFifo, fifos, fifo, events, frame, broken, ops,
          raced, aborted, asked, output>>

Name == 1..NumNames
fileFifo == 1
Fifo == 1..MaxFifo
Logger == 1..MaxLogger
Actor == Thread \cup Fifo
NoLogger == 0
NoFifo == 0
NoPlace == "none"
Idle == [at |-> "idle"]

ASSUME LoggerAssumption ==
  /\ NumNames \in Nat \ {0} /\ MaxFifo \in Nat /\ MaxLogger \in Nat /\ MaxOps \in Nat
  /\ IsFiniteSet(Thread) /\ Thread \cap Fifo = {} /\ NoPlace \notin Place

Init ==
  /\ instance = NoLogger /\ loggers = 0 /\ fifos = 0 /\ ops = 0
  /\ nameToFifo = [l \in Logger |-> [n \in Name |-> NoFifo]]
  /\ fifo = [f \in Fifo |-> [kind |-> "file", enable |-> "unset", place |-> NoPlace, link |-> "none"]]
  /\ events = [f \in Fifo |-> <<>>] /\ output = [f \in Fifo |-> <<>>]
  /\ asked = [f \in Fifo |-> NoPlace]
  /\ frame = [a \in Actor |-> Idle]
  /\ broken = {} /\ raced = FALSE /\ aborted = FALSE

(***************************************************************************)
(* The singleton                                                           *)
(***************************************************************************)

\* XXlogger::instance(), then a call on what it returned.  _instance is tested here
\* and assigned after the constructor, which makes and enables the default fifo; the
\* fifo's log thread runs from then on.  ev are the events other than the new fifo's.
enter(a, op, home, ev) ==
  LET in(at, l) == frame' = [frame EXCEPT ![a] = [at |-> at, logger |-> l, op |-> op, cursor |-> 0]] IN
  IF instance # NoLogger
  THEN /\ in("run", instance)
       /\ events' = ev
       /\ UNCHANGED <<loggers, nameToFifo, fifos, asked>>
  ELSE /\ fifos < MaxFifo /\ loggers < MaxLogger
       /\ in("assign", loggers + 1)
       /\ loggers' = loggers + 1 /\ fifos' = fifos + 1
       /\ nameToFifo' = [nameToFifo EXCEPT ![loggers + 1][fileFifo] = fifos + 1]
       /\ events' = [ev EXCEPT ![fifos + 1] = <<[do |-> "reset", place |-> home]>>]
       /\ asked' = [asked EXCEPT ![fifos + 1] = home]

\* The fifos, with that of a logger made in this step.
withDefault == IF loggers' > loggers THEN [fifo EXCEPT ![fifos'].enable = "yes"] ELSE fifo

\* Variant: the new logger goes to a local of the same name.
assign_Local(a) ==
  /\ ~aborted /\ frame[a].at = "assign"
  /\ frame' = [frame EXCEPT ![a].at = "run"]
  /\ UNCHANGED <<instance, loggers, nameToFifo, fifos, fifo, events, broken, ops, raced, aborted, asked, output>>

assign(a) ==
  /\ ~aborted /\ frame[a].at = "assign"
  /\ instance' = frame[a].logger
  /\ frame' = [frame EXCEPT ![a].at = "run"]
  /\ UNCHANGED <<loggers, nameToFifo, fifos, fifo, events, broken, ops, raced, aborted, asked, output>>

(***************************************************************************)
(* Calls of the clients                                                    *)
(***************************************************************************)
Op(t) == [do : {"message"}, msg : {[by |-> t, n |-> ops + 1]}, without : {NoFifo}]
         \cup [do : {"config"}, name : Name, kind : {"file", "tcp"}, place : Place]
         \cup [do : {"enable"}, name : Name, on : {"no"}]
         \cup [do : {"reset"}, name : Name, place : Place \cup {NoPlace}]

call(t) ==
  /\ ~aborted /\ frame[t] = Idle /\ ops < MaxOps
  /\ ops' = ops + 1
  /\ raced' = (raced \/ (instance = NoLogger /\ \E u \in Thread : frame[u].at = "assign"))
  /\ \E op \in Op(t), home \in Place : enter(t, op, home, events)
  /\ fifo' = withDefault
  /\ UNCHANGED <<instance, broken, aborted, output>>

doing(a, what) == ~aborted /\ frame[a].at = "run" /\ frame[a].op.do = what
done(a) == frame' = [frame EXCEPT ![a] = Idle]

\* Variant: every fifo gets the report of a failure.
skips_None(f, without) == FALSE
\* output() leaves out the fifo that reports.
skips(f, without) == f = without

\* One turn of output()'s loop over the map, as it is by now.
message(a) ==
  /\ doing(a, "message")
  /\ LET map == nameToFifo[frame[a].logger]
         rest == {n \in Name : n > frame[a].cursor /\ map[n] # NoFifo}
         n == CHOOSE k \in rest : \A m \in rest : k <= m
         op == frame[a].op
     IN IF rest = {}
        THEN done(a) /\ UNCHANGED events
        ELSE /\ frame' = [frame EXCEPT ![a].cursor = n]
             /\ \/ /\ fifo[map[n]].enable \in {"yes", "unset"} /\ ~skips(map[n], op.without)
                   /\ events' = [events EXCEPT ![map[n]] =
                        Append(@, [do |-> "push", msg |-> op.msg, place |-> asked[map[n]]])]
                \/ /\ fifo[map[n]].enable \in {"no", "unset"} \/ skips(map[n], op.without)
                   /\ UNCHANGED events
  /\ UNCHANGED <<instance, loggers, nameToFifo, fifos, fifo, broken, ops, raced, aborted, asked, output>>

\* The fifo that had the name is destroyed: its thread is asked to quit and its
\* QThread destroyed at once, which aborts the process unless the thread has ended.
destroy(f) ==
  IF f = NoFifo THEN UNCHANGED aborted
  ELSE aborted' \in {TRUE} \cup (IF frame[f] = Idle THEN {FALSE} ELSE {})

\* A fifo's constructor starts its log thread and posts the first reset; _enable is
\* not initialised, and the fifo is in the map before it is enabled.
configFifo(a) ==
  /\ doing(a, "config") /\ fifos < MaxFifo
  /\ LET op == frame[a].op
         l == frame[a].logger
         f == fifos + 1
     IN /\ fifos' = f
        /\ fifo' = [fifo EXCEPT ![f].kind = op.kind]
        /\ events' = [events EXCEPT ![f] = <<[do |-> "reset", place |-> op.place]>>]
        /\ asked' = [asked EXCEPT ![f] = op.place]
        /\ destroy(nameToFifo[l][op.name])
        /\ nameToFifo' = [nameToFifo EXCEPT ![l][op.name] = f]
        /\ frame' = [frame EXCEPT ![a].op = [do |-> "setEnable", fifo |-> f, on |-> "yes"]]
  /\ UNCHANGED <<instance, loggers, broken, ops, raced, output>>

setEnable(a) ==
  /\ doing(a, "setEnable")
  /\ fifo' = [fifo EXCEPT ![frame[a].op.fifo].enable = frame[a].op.on]
  /\ done(a)
  /\ UNCHANGED <<instance, loggers, nameToFifo, fifos, events, broken, ops, raced, aborted, asked, output>>

setFifoEnable(a) ==
  /\ doing(a, "enable")
  /\ LET f == nameToFifo[frame[a].logger][frame[a].op.name] IN
       fifo' = IF f = NoFifo THEN fifo ELSE [fifo EXCEPT ![f].enable = frame[a].op.on]
  /\ done(a)
  /\ UNCHANGED <<instance, loggers, nameToFifo, fifos, events, broken, ops, raced, aborted, asked, output>>

resetFifo(a) ==
  /\ doing(a, "reset")
  /\ LET f == nameToFifo[frame[a].logger][frame[a].op.name]
         p == frame[a].op.place
     IN IF f = NoFifo THEN UNCHANGED <<events, asked>>
        ELSE /\ events' = [events EXCEPT ![f] = Append(@, [do |-> "reset", place |-> p])]
             /\ asked' = [asked EXCEPT ![f] = p]
  /\ done(a)
  /\ UNCHANGED <<instance, loggers, nameToFifo, fifos, fifo, broken, ops, raced, aborted, output>>

(***************************************************************************)
(* The log threads                                                         *)
(***************************************************************************)
alive(f) == f <= fifos /\ (f \in {nameToFifo[l][n] : l \in Logger, n \in Name})

taken(f) == [events EXCEPT ![f] = Tail(@)]

\* xxLogWithout(this, ...), in the log thread.
report(f) ==
  \E home \in Place :
    enter(f, [do |-> "message", msg |-> [by |-> f, n |-> 0], without |-> f], home, taken(f))

takes(f) ==
  /\ events' = taken(f)
  /\ UNCHANGED <<frame, loggers, nameToFifo, fifos, asked>>

next(f, what) == ~aborted /\ alive(f) /\ frame[f] = Idle /\ events[f] # <<>> /\ Head(events[f]).do = what

\* The history keeps what clients logged, not the reports.
wrote(f) ==
  LET ev == Head(events[f]) IN
  output' = IF ev.msg.by \notin Thread THEN output
            ELSE [output EXCEPT ![f] = Append(@, [msg |-> ev.msg, place |-> fifo[f].place, asked |-> ev.place])]

\* A file that cannot be written reports each message.
file_onPush(f) ==
  /\ next(f, "push") /\ fifo[f].kind = "file"
  /\ IF fifo[f].place # NoPlace /\ f \in broken THEN report(f) ELSE takes(f)
  /\ IF fifo[f].place # NoPlace /\ f \notin broken THEN wrote(f) ELSE UNCHANGED output
  /\ fifo' = withDefault
  /\ UNCHANGED <<instance, broken, ops, raced, aborted>>

\* isSocketReady is true of a socket that is not connected: what is pushed while it
\* connects is kept and sent then, and nothing is from then on.
tcp_onPush(f) ==
  /\ next(f, "push") /\ fifo[f].kind = "tcp"
  /\ takes(f)
  /\ IF fifo[f].link = "connecting" THEN wrote(f) ELSE UNCHANGED output
  /\ UNCHANGED <<fifo, instance, broken, ops, raced, aborted>>

\* Variant: a file that cannot be opened leaves the one before in use.
opened_Kept(f, p) == IF f \in broken \/ p = NoPlace THEN fifo[f].place ELSE p
opened(f, p) == IF f \in broken THEN NoPlace ELSE p

file_onReset(f) ==
  /\ next(f, "reset") /\ fifo[f].kind = "file"
  /\ LET p == Head(events[f]).place IN
     /\ IF f \in broken \/ p = NoPlace THEN report(f) ELSE takes(f)
     /\ fifo' = [withDefault EXCEPT ![f].place = opened(f, p)]
  /\ UNCHANGED <<instance, broken, ops, raced, aborted, output>>

tcp_onReset(f) ==
  /\ next(f, "reset") /\ fifo[f].kind = "tcp"
  /\ LET p == Head(events[f]).place IN
     /\ IF p = NoPlace THEN report(f) ELSE takes(f)
     /\ fifo' = [withDefault EXCEPT ![f].place = p, ![f].link = IF p = NoPlace THEN "none" ELSE "connecting"]
  /\ UNCHANGED <<instance, broken, ops, raced, aborted, output>>

\* The socket is connected, or has failed to: the slots of the two signals are empty.
settles(f) ==
  /\ ~aborted /\ fifo[f].link = "connecting"
  /\ fifo' = [fifo EXCEPT ![f].link = "settled"]
  /\ UNCHANGED <<instance, loggers, nameToFifo, fifos, events, frame, broken, ops, raced, aborted, asked, output>>

\* A disk fills up or goes away: no directory is made, no file opened or written.
breaks(f) ==
  /\ ~aborted /\ f <= fifos /\ f \notin broken /\ fifo[f].kind = "file"
  /\ broken' = broken \cup {f}
  /\ UNCHANGED <<instance, loggers, nameToFifo, fifos, fifo, events, frame, ops, raced, aborted, asked, output>>

calls(a) == assign(a) \/ message(a) \/ configFifo(a) \/ setEnable(a) \/ setFifoEnable(a) \/ resetFifo(a)
slots(f) == file_onPush(f) \/ tcp_onPush(f) \/ file_onReset(f) \/ tcp_onReset(f)

Next ==
  \/ \E t \in Thread : call(t)
  \/ \E a \in Actor : calls(a)
  \/ \E f \in Fifo : slots(f) \/ settles(f) \/ breaks(f)

\* Threads run on: a thread finishes the call it is in, a log thread takes its events.
Fairness ==
  /\ \A a \in Actor : WF_vars(calls(a))
  /\ \A f \in Fifo : WF_vars(slots(f))

Spec == Init /\ [][Next]_vars /\ Fairness

(***************************************************************************)
(* Properties                                                              *)
(***************************************************************************)
TypeOK ==
  /\ instance \in 0..loggers /\ loggers \in 0..MaxLogger /\ fifos \in 0..MaxFifo
  /\ nameToFifo \in [Logger -> [Name -> 0..fifos]]
  /\ \A f \in Fifo : fifo[f] \in [kind : {"file", "tcp"}, enable : {"unset", "yes", "no"},
       place : Place \cup {NoPlace}, link : {"none", "connecting", "settled"}]
  /\ broken \subseteq Fifo /\ ops \in 0..MaxOps /\ raced \in BOOLEAN /\ aborted \in BOOLEAN
  /\ asked \in [Fifo -> Place \cup {NoPlace}]

\* What a client logged reaches each fifo in the order of its calls, and stands where
\* the fifo was last told to write before the message was given to it, whatever resets
\* failed or were asked for since (push, reset, onPush, onReset).
WrittenAsAsked ==
  \A f \in Fifo : \A i \in DOMAIN output[f] :
    /\ output[f][i].place = output[f][i].asked
    /\ \A j \in 1..(i - 1) :
         output[f][i].msg.by = output[f][j].msg.by /\ output[f][i].msg.by \in Thread
           => output[f][j].msg.n < output[f][i].msg.n

\* There is one logger, as the header says of instance(), with two exceptions.  Two clients ask
\* for the first time at once; or the default file cannot be opened: then its log thread reports
\* that to an instance which is not assigned yet, and makes another.
OneLoggerUnlessFails == loggers > 1 => raced \/ broken # {}

\* Reports of failures die out, and with them all events, unless two files fail: two
\* fifos that cannot write report to each other for ever (output, onPush).
fileFails(f) == alive(f) /\ fifo[f].kind = "file" /\ f \in broken
quiet == aborted \/ \A f \in Fifo : alive(f) => events[f] = <<>>
TwoFail == \E f, g \in Fifo : f # g /\ fileFails(f) /\ fileFails(g)
ReportsDieOut == <>[]quiet \/ []<>TwoFail
=============================================================================
