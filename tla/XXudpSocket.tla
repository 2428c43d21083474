----------------------------- MODULE XXudpSocket -----------------------------
(***************************************************************************)
(* The socket handle of C/XXudpSocket.c.  Datagrams arrive at any time and *)
(* may be empty; they are numbered in the order in which the system keeps  *)
(* them.  The loop that receives is the one of the TCP socket: it asks for *)
(* more until the caller's buffer is full.                                 *)
(***************************************************************************)
EXTENDS Integers, Sequences

CONSTANTS
  DatagramSize,  \* the sizes of datagrams, 0 for an empty one
  BufferSize,    \* the lengths a caller asks for
  TryTimes,      \* tryTimes
  MaxDatagram    \* bound: datagrams

VARIABLES
  socket,        \* "open" or "freed"
  binded, hasSomething,
  recvCountAfterSelect,   \* 1 for every count that is not 0: the code asks no more
  datagrams,     \* waiting: their numbers and sizes
  arrived,       \* datagrams so far
  recvCall,      \* loopToRecv()'s arguments and locals; parts is what it took of which, and where,
                 \* empties counts the empty ones, dry says that it has once found nothing
  recvResult,    \* what the last call that received returned
  udpSent        \* the last send: the length or -1

udpVars == <<socket, binded, hasSomething, recvCountAfterSelect, datagrams, arrived,
             recvCall, recvResult, udpSent>>
memory == <<hasSomething, recvCountAfterSelect>>
handle == <<socket, binded>>

XXSOCKET_ERROR_CLOSED == -3
noCall == [inLoop |-> FALSE, index |-> 0, received |-> 0, maxLength |-> 0,
           waited |-> FALSE, empties |-> 0, dry |-> FALSE, parts |-> <<>>]

UdpInit ==
  /\ socket = "open" /\ binded = FALSE
  /\ hasSomething = FALSE /\ recvCountAfterSelect = 0
  /\ datagrams = <<>> /\ arrived = 0
  /\ recvCall = noCall /\ recvResult = 0 /\ udpSent = -1

canCall == socket = "open" /\ ~recvCall.inLoop

\* The port may be taken; a handle is bound once.
bind ==
  /\ canCall
  /\ binded' \in {binded, TRUE}
  /\ UNCHANGED <<socket, memory, datagrams, arrived, recvCall, recvResult, udpSent>>

\* Waits until it can send, and after the last try sends all the same.
send ==
  /\ canCall
  /\ \E length \in BufferSize, whole \in BOOLEAN :
       udpSent' = IF binded /\ whole THEN length ELSE -1
  /\ UNCHANGED <<handle, memory, datagrams, arrived, recvCall, recvResult>>

freeSocket ==
  /\ canCall
  /\ socket' = "freed" /\ datagrams' = <<>>
  /\ UNCHANGED <<binded, memory, arrived, recvCall, recvResult, udpSent>>

recv ==
  /\ canCall /\ binded
  /\ \E length \in BufferSize :
       recvCall' = [noCall EXCEPT !.inLoop = TRUE, !.maxLength = length,
                                  !.waited = datagrams # <<>> /\ datagrams[1].size > 0]
  /\ UNCHANGED <<handle, memory, datagrams, arrived, recvResult, udpSent>>

(***************************************************************************)
(* loopToRecv                                                              *)
(***************************************************************************)
trying == recvCall.inLoop /\ recvCall.index < TryTimes
stays == UNCHANGED <<handle, arrived, udpSent>>
returns(result) == recvResult' = result /\ recvCall' = [recvCall EXCEPT !.inLoop = FALSE]
tryAgain == recvCall' = [recvCall EXCEPT !.index = @ + 1] /\ UNCHANGED recvResult

selectPassed ==
  /\ trying /\ ~hasSomething /\ datagrams # <<>>
  /\ hasSomething' = TRUE /\ recvCountAfterSelect' = 0
  /\ UNCHANGED <<recvCall, recvResult, datagrams>> /\ stays

\* Variant: the socket is not put back into the set of select().
selectTimesOut_NotSet ==
  /\ trying /\ ~hasSomething
  /\ tryAgain
  /\ UNCHANGED <<memory, datagrams>> /\ stays
selectTimesOut ==
  /\ trying /\ ~hasSomething /\ datagrams = <<>>
  /\ tryAgain
  /\ UNCHANGED <<memory, datagrams>> /\ stays

\* A signal arrives.
selectError ==
  /\ trying /\ ~hasSomething
  /\ returns(-100)
  /\ UNCHANGED <<memory, datagrams>> /\ stays

\* Variant: each datagram is written to the buffer's begin.
roomLeft_All(call) == call.maxLength
\* What is left of the buffer.
roomLeft(call) == call.maxLength - call.received

\* Variant: what is taken is not counted.
counted_Not == recvCountAfterSelect
counted == 1

\* One datagram; what does not fit is lost.
recvfromSome ==
  /\ trying /\ hasSomething /\ datagrams # <<>> /\ datagrams[1].size > 0
  /\ LET room == roomLeft(recvCall)
         size == IF datagrams[1].size < room THEN datagrams[1].size ELSE room
         received == recvCall.received + size
         part == [number |-> datagrams[1].number, of |-> datagrams[1].size,
                  at |-> recvCall.received, size |-> size]
         after == [recvCall EXCEPT !.received = received, !.parts = Append(@, part)]
     IN IF received > recvCall.maxLength
        THEN recvResult' = -102 /\ recvCall' = [after EXCEPT !.inLoop = FALSE]
        ELSE IF received = recvCall.maxLength
        THEN recvResult' = received /\ recvCall' = [after EXCEPT !.inLoop = FALSE]
        ELSE recvCall' = [after EXCEPT !.index = @ + 1] /\ UNCHANGED recvResult
  /\ recvCountAfterSelect' = counted
  /\ datagrams' = Tail(datagrams)
  /\ UNCHANGED hasSomething /\ stays

\* recvfrom() is below zero: nothing is there.
recvfromNothing ==
  /\ trying /\ hasSomething /\ datagrams = <<>>
  /\ hasSomething' = FALSE
  /\ recvCall' = [recvCall EXCEPT !.index = @ + 1, !.dry = TRUE]
  /\ UNCHANGED <<recvCountAfterSelect, recvResult, datagrams>> /\ stays

\* recvfrom() is zero, for an empty datagram: taken for the end of a connection.
recvfromEmpty ==
  /\ trying /\ hasSomething /\ datagrams # <<>> /\ datagrams[1].size = 0
  /\ datagrams' = Tail(datagrams)
  /\ IF recvCountAfterSelect = 0
     THEN /\ recvCall' = [recvCall EXCEPT !.inLoop = FALSE, !.empties = @ + 1]
          /\ recvResult' = XXSOCKET_ERROR_CLOSED /\ UNCHANGED memory
     ELSE /\ recvCall' = [recvCall EXCEPT !.index = @ + 1, !.empties = @ + 1]
          /\ recvCountAfterSelect' = 0 /\ hasSomething' = FALSE
          /\ UNCHANGED recvResult
  /\ stays

recvLoopEnds ==
  /\ recvCall.inLoop /\ recvCall.index = TryTimes
  /\ returns(recvCall.received)
  /\ UNCHANGED <<memory, datagrams>> /\ stays

(***************************************************************************)
(* The network: what gets lost or out of order does so before it arrives   *)
(***************************************************************************)
datagramArrives ==
  /\ socket = "open" /\ binded /\ arrived < MaxDatagram
  /\ arrived' = arrived + 1
  /\ \E size \in DatagramSize : datagrams' = Append(datagrams, [number |-> arrived + 1, size |-> size])
  /\ UNCHANGED <<handle, memory, recvCall, recvResult, udpSent>>

UdpNext ==
  bind \/ send \/ freeSocket \/ recv \/ datagramArrives
    \/ selectPassed \/ selectTimesOut \/ selectError
    \/ recvfromSome \/ recvfromNothing \/ recvfromEmpty \/ recvLoopEnds

UdpSpec == UdpInit /\ [][UdpNext]_udpVars

(***************************************************************************)
(* Properties                                                              *)
(***************************************************************************)
\* What a call has taken, while it runs and when it has returned a length, is whole
\* datagrams in the order they came, one behind the other in the buffer, only empty ones left
\* out; only the last can be cut, and only by the end of the buffer.  A call that reports the
\* end of the connection has read an empty datagram, and one more if it had data before and
\* never found the socket dry: one that comes behind data is passed over.
DatagramsSound ==
  LET parts == recvCall.parts
      last == parts[Len(parts)]
  IN
  /\ \A k \in DOMAIN parts :
       parts[k].at = IF k = 1 THEN 0 ELSE parts[k - 1].at + parts[k - 1].size
  /\ recvCall.received = IF parts = <<>> THEN 0 ELSE last.at + last.size
  /\ recvCall.received <= recvCall.maxLength
  /\ \A k \in 1..(Len(parts) - 1) : parts[k].number < parts[k + 1].number
                                    /\ parts[k].size = parts[k].of
  /\ parts # <<>> => last.number - parts[1].number <= Len(parts) - 1 + recvCall.empties
  /\ parts # <<>> /\ last.size < last.of => recvCall.received = recvCall.maxLength
  /\ ~recvCall.inLoop /\ recvResult > 0 => recvResult = recvCall.received
  /\ ~recvCall.inLoop /\ recvResult = XXSOCKET_ERROR_CLOSED
       => recvCall.empties > (IF parts = <<>> \/ recvCall.dry THEN 0 ELSE 1)

\* A call does not return 0 although a datagram waited when it was made, whatever an earlier
\* call has left in the two members.
WaitingIsRead == ~recvCall.inLoop /\ recvCall.waited => recvResult # 0
===============================================================================
