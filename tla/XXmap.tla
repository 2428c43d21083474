-------------------------------- MODULE XXmap --------------------------------
(***************************************************************************)
(* The path map of C++/XXmap/XXmap.cpp: a flat map from paths to values    *)
(* that stands for a tree.  An array is a value ".,MAX,item,item,..." at   *)
(* its own path; items are numbers that order the array, and the data of   *)
(* an item are under path/item.  (n) makes a node ".n", which getRealPath  *)
(* replaces by the item at index n.                                        *)
(***************************************************************************)
EXTENDS Integers, Sequences, SequencesExt, FiniteSets, TLC

CONSTANTS
  Path,      \* the paths used: sequences of names and index nodes
  Value,
  MaxItem,   \* bound: the largest item number
  MaxIndex,  \* bound: the largest index given
  MaxCall    \* bound: calls

VARIABLES
  data,      \* _data: a function of real paths
  state,     \* "Live", or what a call led to: "Undefined", "Hung"
  handmade,  \* paths where createArray or an assignment put an array over what was there
  calls      \* calls so far

vars == <<data, state, handmade, calls>>

None == ""   \* XXMAP_VALUE_INVALID
Item == 0..MaxItem
Index == 0..MaxIndex
indexNode(n) == "." \o ToString(n)
isIndexNode(node) == \E n \in Index : node = indexNode(n)
indexOf(node) == CHOOSE n \in Index : node = indexNode(n)
itemNode(i) == ToString(i)

plain(v) == [plain |-> v]
arrayInfo(max, items) == [max |-> max, items |-> items]
isArrayInfo(value) == "items" \in DOMAIN value
hasInfo(d, p) == p \in DOMAIN d /\ isArrayInfo(d[p])
put(d, p, value) == [q \in DOMAIN d \cup {p} |-> IF q = p THEN value ELSE d[q]]

Init == data = <<>> /\ state = "Live" /\ handmade = {} /\ calls = 0

(***************************************************************************)
(* getRealPath                                                             *)
(***************************************************************************)

\* Variant: a new item takes the index it is created at.
newItem_Index(info) == Len(info.items)
\* The item that addArrayItem makes: one more than any before.
newItem(info) == info.max + 1
addItem(info) == arrayInfo(newItem(info), Append(info.items, newItem(info)))

\* One node of a path: what the walk has made of the path and of the data so far.
walkNode(at, node, creating) ==
  LET to(next, d) == [ok |-> TRUE, real |-> Append(at.real, next), data |-> d]
      failed == [ok |-> FALSE, real |-> at.real, data |-> at.data]
      n == indexOf(node)
      info == at.data[at.real]
  IN IF ~at.ok THEN at
     ELSE IF ~isIndexNode(node) THEN to(node, at.data)
     ELSE IF at.real \notin DOMAIN at.data
     THEN IF n = 0 /\ creating
          THEN to(itemNode(0), put(at.data, at.real, arrayInfo(0, <<0>>))) ELSE failed
     ELSE IF ~isArrayInfo(info) THEN failed
     ELSE IF n < Len(info.items) THEN to(itemNode(info.items[n + 1]), at.data)
     ELSE IF n = Len(info.items) /\ creating
     THEN to(itemNode(newItem(info)), put(at.data, at.real, addItem(info))) ELSE failed

\* A walk that fails keeps the arrays and items it has created on the way.
getRealPath(d, path, creating) ==
  LET walk[k \in 0..Len(path)] ==
        IF k = 0 THEN [ok |-> TRUE, real |-> <<>>, data |-> d]
        ELSE walkNode(walk[k - 1], path[k], creating)
  IN walk[Len(path)]

(***************************************************************************)
(* Reading and writing values                                              *)
(***************************************************************************)
checkAndSetValue(d, p, value) ==
  LET at == getRealPath(d, p, TRUE) IN
  IF at.ok THEN put(at.data, at.real, value) ELSE at.data

\* toString: the value at a path, or none.
checkAndGetValue(d, p) ==
  LET at == getRealPath(d, p, FALSE) IN
  IF at.ok /\ at.real \in DOMAIN d THEN d[at.real] ELSE plain(None)

\* Bound: items up to MaxItem.
fits(d) == \A q \in DOMAIN d : isArrayInfo(d[q]) => d[q].max <= MaxItem
wrote(d) == state = "Live" /\ fits(d) /\ data' = d /\ UNCHANGED state

set(p, v) == wrote(checkAndSetValue(data, p, plain(v))) /\ UNCHANGED handmade

\* operator=(XXmapRef&) copies the value alone; of an array, its array info.
assign(p, q) ==
  LET value == checkAndGetValue(data, q)
      at == getRealPath(data, p, TRUE)
  IN /\ value # plain(None)
     /\ wrote(checkAndSetValue(data, p, value))
     /\ handmade' = handmade \cup (IF at.ok /\ isArrayInfo(value) THEN {at.real} ELSE {})

\* Variant: the path without what is under it.
cleanup_One(d, p) == [q \in DOMAIN d \ {p} |-> d[q]]
cleanup(d, p) == [q \in {q \in DOMAIN d : ~IsPrefix(p, q)} |-> d[q]]

\* The path is taken as it is written, index nodes included.
clean(p) == wrote(cleanup(data, p)) /\ UNCHANGED handmade

(***************************************************************************)
(* Arrays.  These calls look up _path as it is written, index nodes        *)
(* included: a nested array that getRealPath made is never found, and one   *)
(* that createArray makes at such a path is no part of any real path.       *)
(***************************************************************************)
hasItem(p, n) == hasInfo(data, p) /\ n < Len(data[p].items)
setInfo(p, info) == wrote(put(data, p, info)) /\ UNCHANGED handmade

\* swap, take, remove and an insertion behind an index that is not there read or erase the
\* vector past its end.
undefined(p, n) ==
  /\ state = "Live" /\ hasInfo(data, p) /\ ~hasItem(p, n)
  /\ state' = "Undefined"
  /\ UNCHANGED <<data, handmade>>

swapArrayItem(p, n, m) ==
  /\ hasItem(p, n) /\ hasItem(p, m)
  /\ LET items == data[p].items IN
     setInfo(p, [data[p] EXCEPT !.items[n + 1] = items[m + 1], !.items[m + 1] = items[n + 1]])

\* The item is returned, and its data stay.
takeArrayItem(p, n) ==
  /\ hasItem(p, n)
  /\ setInfo(p, [data[p] EXCEPT !.items = RemoveAt(@, n + 1)])

\* The item and its data.
removeArrayItem(p, n) ==
  /\ hasItem(p, n)
  /\ LET item == data[p].items[n + 1] IN
     wrote(cleanup(put(data, p, [data[p] EXCEPT !.items = RemoveAt(@, n + 1)]),
                   Append(p, itemNode(item))))
  /\ UNCHANGED handmade

addArrayItem(p) == hasInfo(data, p) /\ setInfo(p, addItem(data[p]))

largest(i, j) == IF i > j THEN i ELSE j

\* With an item of the caller's, the search for a double never moves on: it returns for an
\* empty array, or when the first item is the one.
addThisItem(p, item) ==
  /\ state = "Live" /\ hasInfo(data, p)
  /\ LET info == data[p] IN
     IF info.items = <<>>
     THEN setInfo(p, arrayInfo(largest(item, info.max), <<item>>))
     ELSE /\ state' = IF info.items[1] = item THEN state ELSE "Hung"
          /\ UNCHANGED <<data, handmade>>

\* Before index n, or behind it (toBack).
place(n, toBack) == IF toBack THEN n + 1 ELSE n
insertAt(info, at, item) ==
  arrayInfo(largest(item, info.max), InsertAt(info.items, at + 1, item))

insertArrayItem(p, n, toBack) ==
  /\ hasItem(p, n)
  /\ setInfo(p, insertAt(data[p], place(n, toBack), newItem(data[p])))

\* An item of the caller's, who keeps it unique: one that was taken, for example.
insertThisItem(p, n, item, toBack) ==
  /\ hasItem(p, n)
  /\ item \notin ToSet(data[p].items)
  /\ setInfo(p, insertAt(data[p], place(n, toBack), item))

\* MAX is the last item given, not the largest; without items it is read past the end.
createArray(p, items) ==
  /\ state = "Live"
  /\ IF items = <<>> THEN state' = "Undefined" /\ UNCHANGED <<data, handmade>>
     ELSE /\ wrote(put(data, p, arrayInfo(items[Len(items)], items)))
          /\ handmade' = handmade \cup {p}

\* The arrays that createArray is called with.
Items == {<<>>, <<1, 0>>}

operation ==
  \E p \in Path :
    \/ \E v \in Value : set(p, v)
    \/ \E q \in Path : assign(p, q)
    \/ clean(p)
    \/ addArrayItem(p)
    \/ \E items \in Items : createArray(p, items)
    \/ \E i \in Item : addThisItem(p, i)
    \/ \E n \in Index :
         \/ undefined(p, n) \/ takeArrayItem(p, n) \/ removeArrayItem(p, n)
         \/ \E m \in Index : n < m /\ swapArrayItem(p, n, m)
         \/ \E b \in BOOLEAN :
              insertArrayItem(p, n, b) \/ \E i \in Item : insertThisItem(p, n, i, b)

Next == calls < MaxCall /\ calls' = calls + 1 /\ operation

Spec == Init /\ [][Next]_vars

(***************************************************************************)
(* Properties                                                              *)
(***************************************************************************)

AnyItem == 0..(MaxItem + 1)   \* an item, one that does not fit included
Position == 0..MaxCall        \* an index: a call adds one item to an array, and the first two

\* Paths that are their own real paths.
Written == {p \in Path : \A k \in DOMAIN p : ~isIndexNode(p[k])}

\* What a caller can read: a real path with its items replaced by their indices.  Data of
\* an item that the array does not have (any more) are out of reach.
isItem(d, p, node) == \E i \in AnyItem : node = itemNode(i) /\ hasInfo(d, p)
indicesOf(d, p, node) == {j \in DOMAIN d[p].items : itemNode(d[p].items[j]) = node}
asWritten(d, q) ==
  [k \in DOMAIN q |->
     LET p == SubSeq(q, 1, k - 1) IN
     IF isItem(d, p, q[k]) THEN indexNode((CHOOSE j \in indicesOf(d, p, q[k]) : TRUE) - 1)
     ELSE q[k]]
inReach(d, q) ==
  \A k \in DOMAIN q : LET p == SubSeq(q, 1, k - 1) IN
    isItem(d, p, q[k]) => indicesOf(d, p, q[k]) # {}
seen(d) == {[path |-> asWritten(d, q), value |-> d[q].plain] :
              q \in {r \in DOMAIN d : ~isArrayInfo(d[r]) /\ inReach(d, r)}}

outside(view, p) == {e \in view : ~IsPrefix(p, e.path)}
atIndex(p, n) == Append(p, indexNode(n))

\* Where index n of the array at p, and what is under it, is found after it moved to f[n];
\* all else stays.
elsewhere(view, p) == {e \in view : \A n \in Position : ~IsPrefix(atIndex(p, n), e.path)}
moved(view, p, f) ==
  elsewhere(view, p) \cup
  UNION {{[e EXCEPT !.path[Len(p) + 1] = indexNode(f[n])] :
            e \in {e \in view : IsPrefix(atIndex(p, n), e.path)}} : n \in DOMAIN f}
exchange(n, m) == [k \in Position |-> IF k = n THEN m ELSE IF k = m THEN n ELSE k]
without(n) == [k \in Position \ {n} |-> IF k > n THEN k - 1 ELSE k]
opened(n) == [k \in Position |-> IF k < n THEN k ELSE k + 1]

\* The header leaves it to the caller; createArray and what follows may break it.
itemsUnique(d) ==
  \A q \in DOMAIN d : isArrayInfo(d[q]) => IsInjective(d[q].items)

\* While the items of each array differ, what a call may change is what it names: an array
\* operation moves each item with all that is under it and keeps the rest, a removed or
\* taken item takes its own with it, clean takes exactly what is under its path, and a write
\* changes nothing outside its path, even when it creates arrays on the way or fails half
\* way.
keepsTheRest ==
  /\ \A p \in Written, n, m \in Index :
       swapArrayItem(p, n, m) => seen(data)' = moved(seen(data), p, exchange(n, m))
  /\ \A p \in Written, n \in Index :
       takeArrayItem(p, n) \/ removeArrayItem(p, n)
         => seen(data)' = moved(seen(data), p, without(n))
  /\ \A p \in Written, n \in Index, i \in Item, b \in BOOLEAN :
       insertThisItem(p, n, i, b)
         => LET at == place(n, b) IN
            outside(seen(data)', atIndex(p, at)) = moved(seen(data), p, opened(at))
  /\ \A p \in Written : clean(p) => seen(data)' = outside(seen(data), p)
  /\ \A p \in Path, v \in Value :
       set(p, v) /\ handmade = {} => outside(seen(data)', p) = outside(seen(data), p)
  /\ \A p, q \in Path :
       assign(p, q) /\ handmade = {} => outside(seen(data)', p) = outside(seen(data), p)

EditsKeepTheRest == [][calls' > calls /\ itemsUnique(data) => keepsTheRest]_vars

\* An item the map makes itself is new: nothing is under it yet, whatever was taken,
\* removed or put back before; unless the array was put over another by hand, or made of
\* items whose last is not the largest.
makesFresh ==
  \A p \in Written \ handmade :
    /\ addArrayItem(p) => seen(data)' = seen(data)
    /\ \A n \in Index, b \in BOOLEAN :
         insertArrayItem(p, n, b)
           => seen(data)' = moved(seen(data), p, opened(place(n, b)))

NewItemsAreFresh == [][calls' > calls => makesFresh]_vars
=============================================================================
