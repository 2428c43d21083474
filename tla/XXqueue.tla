------------------------------- MODULE XXqueue -------------------------------
(***************************************************************************)
(* The queue of C/XXqueue.c on the ring of C/list.h: items are linked into *)
(* a ring through the head item that lives in the handle itself.           *)
(*                                                                         *)
(* The heap is the set of live items; a pointer is an item or the head.    *)
(* A call is a step, as the queue has no lock and its callers take turns.  *)
(***************************************************************************)
EXTENDS Integers, FiniteSets

CONSTANTS
  Item,         \* addresses malloc may give an item (bounds the length)
  HeadItem,     \* the address of headItem, the start of the handle
  Value,        \* what the data of an item may be
  Limit,        \* maxCount of the handles, 0 for none
  MaxHandle,    \* maxHandle of the handles
  ChecksIndex   \* whether the client passes removeOne no index below 0
                \* and none equal to the count

NULL == "NULL"

ASSUME QueueAssumption ==
  /\ IsFiniteSet(Item) /\ HeadItem \notin Item
  /\ NULL \notin Item \cup {HeadItem}
  /\ Limit \subseteq Nat /\ MaxHandle \subseteq Int
  /\ ChecksIndex \in BOOLEAN

VARIABLES
  handle,               \* "null", "open", or "broken" once its memory was freed under it
  maxCount, maxHandle, count,
  list,                 \* next and prev of the head and of every live item
  data,                 \* the data of every live item
  result                \* what the last call returned

vars == <<handle, maxCount, maxHandle, count, list, data, result>>
context == <<maxCount, maxHandle>>

items == DOMAIN data

(***************************************************************************)
(* list.h                                                                  *)
(***************************************************************************)

INIT_LIST_HEAD == [n \in {HeadItem} |-> [next |-> HeadItem, prev |-> HeadItem]]

list_empty(l) == l[HeadItem].next = HeadItem

\* The new item goes between the last one and the head.
list_add_tail(l, new) ==
  LET last == l[HeadItem].prev
  IN  [n \in DOMAIN l \cup {new} |->
        [next |-> IF n = last THEN new ELSE IF n = new THEN HeadItem ELSE l[n].next,
         prev |-> IF n = HeadItem THEN new ELSE IF n = new THEN last ELSE l[n].prev]]

\* Variant: only the forward links are mended.
list_del_Forward(l, entry) ==
  [n \in DOMAIN l \ {entry} |->
    [next |-> IF n = l[entry].prev THEN l[entry].next ELSE l[n].next, prev |-> l[n].prev]]

\* The neighbours are joined and the entry is freed by the caller.
list_del(l, entry) ==
  [n \in DOMAIN l \ {entry} |->
    [next |-> IF n = l[entry].prev THEN l[entry].next ELSE l[n].next,
     prev |-> IF n = l[entry].next THEN l[entry].prev ELSE l[n].prev]]

freeQueueItem(d, item) == [n \in DOMAIN d \ {item} |-> d[n]]

(***************************************************************************)
(* posQueueItem: index steps from the first item; stepping on from the     *)
(* head gives NULL, stopping at the head does not.                         *)
(***************************************************************************)

\* Where i steps along next lead, in a ring that has HeadItem.
walk(l) ==
  LET pos[i \in 0..Cardinality(Item) + 1] ==
        IF i = 0 THEN l[HeadItem].next
        ELSE IF pos[i - 1] \in {HeadItem, NULL} THEN NULL
        ELSE l[pos[i - 1]].next
  IN  pos

\* Variant: the first item has index 1.
posQueueItem_FromOne(l, index) ==
  IF list_empty(l) THEN NULL ELSE IF index <= 1 THEN walk(l)[0] ELSE walk(l)[index - 1]

posQueueItem(l, index) ==
  IF list_empty(l) THEN NULL ELSE IF index < 0 THEN walk(l)[0] ELSE walk(l)[index]

(***************************************************************************)
(* The calls                                                               *)
(***************************************************************************)

Init ==
  /\ handle = "null" /\ maxCount = 0 /\ maxHandle \in MaxHandle /\ count = 0
  /\ list = INIT_LIST_HEAD /\ data = [n \in {} |-> {}] /\ result = "ok"

\* xxqueue_create is the case of no limit: maxHandle is then never read.
createWithLimit(max, atMax) ==
  /\ handle = "null"
  /\ handle' = "open" /\ maxCount' = max /\ maxHandle' = atMax /\ count' = 0
  /\ list' = INIT_LIST_HEAD /\ data' = [n \in {} |-> {}] /\ result' = "ok"

isFull == maxCount > 0 /\ count >= maxCount

enqueueRefused ==
  /\ isFull /\ maxHandle # 1
  /\ result' = "full"
  /\ UNCHANGED <<count, list, data>>

\* Variant: dropping the first item does not count it off.
enqueueAdded_DropUncounted(value) ==
  LET dropped == IF isFull THEN {posQueueItem(list, 0)} ELSE {}
      rest == IF isFull THEN list_del(list, posQueueItem(list, 0)) ELSE list
  IN  /\ isFull => maxHandle = 1
      /\ \E new \in Item \ (items \ dropped) :
           /\ list' = list_add_tail(rest, new)
           /\ data' = [n \in (items \ dropped) \cup {new} |-> IF n = new THEN value ELSE data[n]]
      /\ count' = count + 1
      /\ result' = "ok"

\* At the limit the first item is removed, and its memory may be given to the new one.
enqueueAdded(value) ==
  LET dropped == IF isFull THEN {posQueueItem(list, 0)} ELSE {}
      rest == IF isFull THEN list_del(list, posQueueItem(list, 0)) ELSE list
  IN  /\ isFull => maxHandle = 1
      /\ \E new \in Item \ (items \ dropped) :
           /\ list' = list_add_tail(rest, new)
           /\ data' = [n \in (items \ dropped) \cup {new} |-> IF n = new THEN value ELSE data[n]]
      /\ count' = count - Cardinality(dropped) + 1
      /\ result' = "ok"

enqueue(value) ==
  /\ handle = "open"
  /\ enqueueRefused \/ enqueueAdded(value)
  /\ UNCHANGED <<handle, context>>

dequeue ==
  /\ handle = "open"
  /\ IF list_empty(list)
     THEN result' = "empty" /\ UNCHANGED <<count, list, data>>
     ELSE LET item == list[HeadItem].next
          IN  /\ list' = list_del(list, item)
              /\ result' = data[item]
              /\ count' = count - 1
              /\ data' = freeQueueItem(data, item)
  /\ UNCHANGED <<handle, context>>

\* Freeing the item that is the head frees the handle: what follows is undefined.
removeOne(index) ==
  /\ handle = "open"
  /\ ChecksIndex => index >= 0 /\ index # count
  /\ LET item == posQueueItem(list, index)
     IN  CASE item = NULL -> UNCHANGED <<handle, count, list, data>>
           [] item = HeadItem -> handle' = "broken" /\ UNCHANGED <<count, list, data>>
           [] OTHER -> /\ list' = list_del(list, item)
                       /\ data' = freeQueueItem(data, item)
                       /\ count' = count - 1
                       /\ UNCHANGED handle
  /\ result' = "ok"
  /\ UNCHANGED context

removeAll ==
  /\ handle = "open"
  /\ list' = INIT_LIST_HEAD /\ data' = [n \in {} |-> {}] /\ count' = 0
  /\ result' = "ok"
  /\ UNCHANGED <<handle, context>>

free ==
  /\ handle = "open"
  /\ handle' = "null"
  /\ list' = INIT_LIST_HEAD /\ data' = [n \in {} |-> {}] /\ count' = 0
  /\ result' = "ok"
  /\ UNCHANGED context

Next ==
  \/ \E max \in Limit, atMax \in MaxHandle : createWithLimit(max, atMax)
  \/ \E value \in Value : enqueue(value)
  \/ dequeue
  \/ \E index \in -1..Cardinality(Item) + 1 : removeOne(index)
  \/ removeAll
  \/ free

Spec == Init /\ [][Next]_vars

-----------------------------------------------------------------------------
(***************************************************************************)
(* Properties                                                              *)
(***************************************************************************)

Pointer == items \cup {HeadItem}

TypeOK ==
  /\ handle \in {"null", "open", "broken"}
  /\ maxCount \in Limit \cup {0} /\ maxHandle \in MaxHandle
  /\ count \in 0..Cardinality(Item)
  /\ items \subseteq Item /\ \A n \in items : data[n] \in Value
  /\ DOMAIN list = Pointer
  /\ \A n \in Pointer : DOMAIN list[n] = {"next", "prev"}
  /\ result \in Value \cup {"ok", "full", "empty"}

\* The links form a ring: no pointer dangles, prev undoes next, and the count
\* is the number of items, which the limit bounds.
isRing(l) ==
  \A n \in DOMAIN l : /\ l[n].next \in DOMAIN l /\ l[l[n].next].prev = n
                      /\ l[n].prev \in DOMAIN l /\ l[l[n].prev].next = n
Ring ==
  /\ isRing(list)
  /\ count = Cardinality(items)
  /\ maxCount > 0 => count <= maxCount

\* The queue implements Fifo: its content is what a walk along next meets.
content == [i \in 1..count |-> data[posQueueItem(list, i - 1)]]
Queue == INSTANCE Fifo WITH isOpen <- handle = "open", limit <- maxCount, atLimit <- maxHandle,
                            queue <- content, DropFirst <- MaxHandle
ImplementsFifo == Queue!Spec
=============================================================================
