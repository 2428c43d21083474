-------------------------------- MODULE Fifo --------------------------------
(***************************************************************************)
(* What a queue promises: the values come out in the order they went in,   *)
(* each once, except those removed by position, cleared, or dropped from   *)
(* the front to make room.                                                 *)
(***************************************************************************)
EXTENDS Integers, Sequences, SequencesExt

CONSTANTS Value, Limit, DropFirst

VARIABLES isOpen, limit, atLimit, queue,
          result   \* what the last call returned

vars == <<isOpen, limit, atLimit, queue, result>>

Init ==
  /\ ~isOpen /\ limit = 0 /\ queue = <<>> /\ result = "ok"
  /\ atLimit \in DropFirst

Create ==
  /\ ~isOpen
  /\ isOpen' = TRUE /\ limit' \in Limit /\ atLimit' \in DropFirst
  /\ queue' = <<>> /\ result' = "ok"

full == limit > 0 /\ Len(queue) >= limit

Enqueue(value) ==
  /\ isOpen
  /\ \/ ~full /\ queue' = Append(queue, value) /\ result' = "ok"
     \/ full /\ atLimit = 1 /\ queue' = Append(Tail(queue), value) /\ result' = "ok"
     \/ full /\ atLimit # 1 /\ queue' = queue /\ result' = "full"
  /\ UNCHANGED <<isOpen, limit, atLimit>>

Dequeue ==
  /\ isOpen
  /\ IF queue = <<>> THEN queue' = queue /\ result' = "empty"
     ELSE queue' = Tail(queue) /\ result' = Head(queue)
  /\ UNCHANGED <<isOpen, limit, atLimit>>

\* A position that holds no value changes nothing.
RemoveOne(index) ==
  /\ isOpen
  /\ queue' = IF index \in 0..Len(queue) - 1 THEN RemoveAt(queue, index + 1) ELSE queue
  /\ result' = "ok"
  /\ UNCHANGED <<isOpen, limit, atLimit>>

RemoveAll ==
  /\ isOpen
  /\ queue' = <<>> /\ result' = "ok"
  /\ UNCHANGED <<isOpen, limit, atLimit>>

Free ==
  /\ isOpen
  /\ isOpen' = FALSE /\ queue' = <<>> /\ result' = "ok"
  /\ UNCHANGED <<limit, atLimit>>

Next ==
  \/ Create \/ Dequeue \/ RemoveAll \/ Free
  \/ \E value \in Value : Enqueue(value)
  \/ \E index \in 0..Len(queue) : RemoveOne(index)

Spec == Init /\ [][Next]_vars
=============================================================================
