----------------------------- MODULE XXtcpSocket -----------------------------
(***************************************************************************)
(* The socket handle of C/XXtcpSocket.c: its life, and the loop that       *)
(* receives, against a peer that connects late, refuses, sends, closes and *)
(* resets at any time, and a process whose other parts open descriptors.   *)
(*                                                                         *)
(* One thread uses the handle.  Bytes are counted, not stored: those of a  *)
(* connection are numbered from 1.  send() leaves the handle as it is.     *)
(***************************************************************************)
EXTENDS Integers

CONSTANTS
  FD,        \* the descriptors the process can have
  Length,    \* the lengths a caller asks for
  Times,     \* recvTryTimes
  MaxSent    \* the bytes a peer sends on a connection

VARIABLES
  alive,                  \* the handle is not freed
  isConnected, socket, hasSomething,
  recvCountAfterSelect,   \* 1 for every count that is not 0: the code asks no more
  call,                   \* loopToRecv()'s arguments and locals
  result,                 \* what the last call that received returned
  table,                  \* the process's descriptors: free, ours or other
  peer                    \* the connection as the system keeps it

context == <<alive, isConnected, socket>>
memory == <<hasSomething, recvCountAfterSelect>>
vars == <<context, memory, call, result, table, peer>>

CLOSED == -3
SELECT_FAILED == -100
NOFD == -1

ASSUME SocketAssumption ==
  /\ FD \subseteq Nat \ {0} /\ Length \subseteq Nat \ {0}
  /\ Times \in Nat \ {0} /\ MaxSent \in Nat

\* What the system knows of no connection, or of one that is not answered yet.
nobody == [state |-> "connecting", sent |-> 0, taken |-> 0, error |-> FALSE]
returned == [inLoop |-> FALSE, index |-> 0, received |-> 0, maxLength |-> 0, hadData |-> FALSE]

Init ==
  /\ alive = TRUE /\ isConnected = FALSE /\ socket = NOFD
  /\ hasSomething = FALSE /\ recvCountAfterSelect = 0
  /\ call = returned /\ result = 0
  /\ table = [fd \in FD |-> "free"]
  /\ peer = nobody

(***************************************************************************)
(* The handle's life                                                       *)
(***************************************************************************)

\* The connection is made later, if at all: the descriptor does not block.
connectToHost ==
  /\ alive /\ ~call.inLoop /\ ~isConnected
  /\ \E fd \in FD :
       /\ table[fd] = "free"
       /\ table' = [table EXCEPT ![fd] = "ours"]
       /\ socket' = fd
  /\ isConnected' = TRUE
  /\ peer' = nobody /\ result' = 0
  /\ UNCHANGED <<alive, memory, call>>

close(fd) == table' = [table EXCEPT ![fd] = "free"]

\* Variant: the handle stays connected.
disconnect_StaysConnected ==
  /\ alive /\ ~call.inLoop
  /\ socket >= 0 /\ isConnected
  /\ close(socket)
  /\ UNCHANGED <<context, memory, call, result, peer>>

disconnect ==
  /\ alive /\ ~call.inLoop
  /\ socket >= 0 /\ isConnected
  /\ close(socket)
  /\ isConnected' = FALSE
  /\ UNCHANGED <<alive, socket, memory, call, result, peer>>

free ==
  /\ alive /\ ~call.inLoop
  /\ alive' = FALSE /\ isConnected' = FALSE
  /\ IF socket > 0 /\ isConnected THEN close(socket) ELSE UNCHANGED table
  /\ UNCHANGED <<socket, memory, call, result, peer>>

(***************************************************************************)
(* The connection, as the system shows it to select() and recv()           *)
(***************************************************************************)

unread == peer.sent - peer.taken
isOver == peer.state \in {"closed", "reset"}
readable == unread > 0 \/ isOver

(***************************************************************************)
(* recv, waitForRecv                                                       *)
(***************************************************************************)

recvCall ==
  /\ alive /\ ~call.inLoop
  /\ socket >= 0 /\ isConnected
  /\ \E maxLength \in Length :
       call' = [inLoop |-> TRUE, index |-> 0, received |-> 0, maxLength |-> maxLength,
                hadData |-> unread > 0]
  /\ UNCHANGED <<context, memory, result, table, peer>>

return(value) == result' = value /\ call' = returned
continue == call' = [call EXCEPT !.index = @ + 1] /\ UNCHANGED result

inIteration == call.inLoop /\ call.index < Times

selectReady ==
  /\ inIteration /\ ~hasSomething
  /\ readable
  /\ hasSomething' = TRUE /\ recvCountAfterSelect' = 0
  /\ UNCHANGED <<context, call, result, table, peer>>

\* Variant: the socket is not put back into the set of select().
selectTimeout_NotSet ==
  /\ inIteration /\ ~hasSomething
  /\ continue
  /\ UNCHANGED <<context, memory, table, peer>>

selectTimeout ==
  /\ inIteration /\ ~hasSomething
  /\ ~readable
  /\ continue
  /\ UNCHANGED <<context, memory, table, peer>>

\* A signal arrives.
selectFails ==
  /\ inIteration /\ ~hasSomething
  /\ return(SELECT_FAILED)
  /\ UNCHANGED <<context, memory, table, peer>>

\* The system gives all it has, up to what is asked for.
recvSome ==
  /\ inIteration /\ hasSomething
  /\ unread > 0 /\ ~peer.error
  /\ LET asked == call.maxLength - call.received
         size == IF unread < asked THEN unread ELSE asked
     IN /\ peer' = [peer EXCEPT !.taken = @ + size]
        /\ IF size = asked
           THEN return(call.maxLength)
           ELSE /\ call' = [call EXCEPT !.index = @ + 1, !.received = @ + size]
                /\ UNCHANGED result
  /\ recvCountAfterSelect' = 1
  /\ UNCHANGED <<context, hasSomething, table>>

\* Variant: no data is taken for the end.
recvError_End ==
  /\ inIteration /\ hasSomething
  /\ peer.error \/ ~readable
  /\ peer' = [peer EXCEPT !.error = FALSE]
  /\ return(CLOSED)
  /\ UNCHANGED <<context, memory, table>>

\* recv() below zero: nothing is there, or the error of a reset, told once.
recvError ==
  /\ inIteration /\ hasSomething
  /\ peer.error \/ ~readable
  /\ hasSomething' = FALSE
  /\ peer' = [peer EXCEPT !.error = FALSE]
  /\ continue
  /\ UNCHANGED <<context, recvCountAfterSelect, table>>

\* Variant: the end is a reason to try again.
recvEnd_Again ==
  /\ inIteration /\ hasSomething
  /\ isOver /\ unread = 0 /\ ~peer.error
  /\ continue /\ recvCountAfterSelect' = 0 /\ hasSomething' = FALSE
  /\ UNCHANGED <<context, table, peer>>

\* recv() is zero: the end of the stream.
recvEnd ==
  /\ inIteration /\ hasSomething
  /\ isOver /\ unread = 0 /\ ~peer.error
  /\ IF recvCountAfterSelect = 0
     THEN return(CLOSED) /\ UNCHANGED memory
     ELSE continue /\ recvCountAfterSelect' = 0 /\ hasSomething' = FALSE
  /\ UNCHANGED <<context, table, peer>>

loopEnds ==
  /\ call.inLoop /\ call.index = Times
  /\ return(call.received)
  /\ UNCHANGED <<context, memory, table, peer>>

loopToRecv ==
  selectReady \/ selectTimeout \/ selectFails \/ recvSome \/ recvError \/ recvEnd \/ loopEnds

(***************************************************************************)
(* The peer, and the rest of the process                                   *)
(***************************************************************************)

peerStep ==
  /\ isConnected
  /\ \/ /\ peer.state = "connecting"
        /\ peer' = [peer EXCEPT !.state = "open"]
     \/ /\ peer.state = "open" /\ peer.sent < MaxSent
        /\ \E n \in (peer.sent + 1)..MaxSent : peer' = [peer EXCEPT !.sent = n]
     \/ /\ peer.state = "open"
        /\ peer' = [peer EXCEPT !.state = "closed"]
     \/ \* A refusal is a reset; what was not taken may be dropped.
        /\ peer.state \in {"connecting", "open"}
        /\ \E n \in {peer.taken, peer.sent} :
             peer' = [peer EXCEPT !.state = "reset", !.error = TRUE, !.sent = n]
  /\ UNCHANGED <<context, memory, call, result, table>>

otherStep ==
  /\ \E fd \in FD :
       \/ table[fd] = "free" /\ table' = [table EXCEPT ![fd] = "other"]
       \/ table[fd] = "other" /\ table' = [table EXCEPT ![fd] = "free"]
  /\ UNCHANGED <<context, memory, call, result, peer>>

Next == connectToHost \/ disconnect \/ free \/ recvCall \/ loopToRecv \/ peerStep \/ otherStep

Spec == Init /\ [][Next]_vars /\ WF_vars(loopToRecv)

-----------------------------------------------------------------------------
(***************************************************************************)
(* Properties                                                              *)
(***************************************************************************)

TypeOK ==
  /\ alive \in BOOLEAN /\ isConnected \in BOOLEAN /\ hasSomething \in BOOLEAN
  /\ socket \in FD \cup {NOFD} /\ recvCountAfterSelect \in {0, 1}
  /\ call \in [inLoop : BOOLEAN, index : 0..Times, received : Nat,
               maxLength : Length \cup {0}, hadData : BOOLEAN]
  /\ result \in Nat \cup {CLOSED, SELECT_FAILED}
  /\ table \in [FD -> {"free", "ours", "other"}]
  /\ peer \in [state : {"connecting", "open", "closed", "reset"},
               sent : Nat, taken : Nat, error : BOOLEAN]

\* The handle has one descriptor while it is connected and none otherwise: none
\* leaks, and none is closed or read that another part of the process has
\* opened under the same number.
OwnsItsDescriptor == \A fd \in FD : (table[fd] = "ours") <=> (isConnected /\ socket = fd)

\* A call that returns CLOSED speaks of this connection, which is over and has
\* nothing left to read: the two members that outlive a call and a connection do
\* not make it see an end too early.
ClosedIsTrue == result = CLOSED => isOver /\ unread = 0

\* A call never returns 0 although data waited when it was made, unless the
\* connection was reset meanwhile.
WaitingDataIsRead ==
  [][call.inLoop /\ ~call'.inLoop /\ call.hadData /\ peer.state # "reset" => result' # 0]_vars

\* A caller that keeps receiving learns that the connection is over, if signals
\* do not break in for ever.
EndIsReported ==
  []<><<recvCall>>_vars /\ <>[][~selectFails]_vars =>
    (isConnected /\ isOver ~> result = CLOSED \/ ~isConnected)

\* A call that returns CLOSED has taken no bytes: XXtcpSocket.h:49 knows a length
\* or a failure, and bytes that were taken cannot be received again.
EndTakesNothing ==
  [][call.inLoop /\ ~call'.inLoop /\ result' = CLOSED => call.received = 0]_vars
=============================================================================
