------------------------------- MODULE XXqtJson -------------------------------
(***************************************************************************)
(* XXjson and XXjsonItem of Qt/Utility/XXjson.cpp.  json["k"] is an item:  *)
(* a copy of the value there, with its key and the item it came from.  It  *)
(* makes what it does not find, in its own copy; an assignment saves the   *)
(* value into the copies of the parents, up to the root.  A caller may     *)
(* keep the items: first of the root, second of first.  (An item whose     *)
(* parent was a temporary must not be used any more, and is not.)          *)
(***************************************************************************)
EXTENDS Integers, Sequences, SequencesExt

CONSTANTS
  JsonKey,   \* records [name] and [index], the index not negative
  Scalar,
  MaxStep    \* bound: calls

VARIABLES
  root,      \* _jvalue of _root
  first, second,   \* items the caller keeps: none, or key, jvalue and whether it has a parent
  saved,     \* the file: none or a value
  loadedFrom,      \* what the last call that loads or saves returned
  status,    \* "Live", or "Undefined" after an index past the end
  steps

qtJsonVars == <<root, first, second, saved, loadedFrom, status, steps>>
itemVars == <<first, second>>

NullValue == [kind |-> "null"]
scalar(s) == [kind |-> "scalar", is |-> s]
object(fields) == [kind |-> "object", fields |-> fields]
array(items) == [kind |-> "array", items |-> items]
isIndex(key) == "index" \in DOMAIN key

toObject(value) == IF value.kind = "object" THEN value.fields ELSE <<>>
toArray(value) == IF value.kind = "array" THEN value.items ELSE <<>>
insert(fields, name, value) ==
  [k \in DOMAIN fields \cup {name} |-> IF k = name THEN value ELSE fields[k]]

QtJsonInit ==
  /\ root = object(<<>>)
  /\ first = <<>> /\ second = <<>>
  /\ saved = <<>> /\ loadedFrom = TRUE
  /\ status = "Live" /\ steps = 0

(***************************************************************************)
(* XXjsonItem                                                              *)
(***************************************************************************)

\* What operator[] leaves in the item it is called on: a value of another kind gives way to
\* an empty container, one index behind the end is appended.
opened(value, key) ==
  IF isIndex(key)
  THEN IF key.index = Len(toArray(value)) THEN array(Append(toArray(value), NullValue)) ELSE value
  ELSE IF key.name \in DOMAIN toObject(value) THEN value
  ELSE object(insert(toObject(value), key.name, NullValue))

\* An index further on gives an item of nothing.
found(value, key) == ~isIndex(key) \/ key.index <= Len(toArray(value))
at(value, key) ==
  IF isIndex(key) THEN toArray(opened(value, key))[key.index + 1]
  ELSE toObject(opened(value, key))[key.name]
itemAt(value, key) ==
  IF found(value, key) THEN [key |-> key, jvalue |-> at(value, key), hasParent |-> TRUE]
  ELSE [key |-> [name |-> ""], jvalue |-> NullValue, hasParent |-> FALSE]

\* Variant: the parent gets a new container.
saveAtParent_Alone(parent, item) ==
  IF isIndex(item.key) THEN array(<<item.jvalue>>) ELSE object(insert(<<>>, item.key.name, item.jvalue))

\* saveAtParent: the parent's copy with the item's in it.
saveAtParent(parent, item) ==
  IF isIndex(item.key) THEN array([toArray(parent) EXCEPT ![item.key.index + 1] = item.jvalue])
  ELSE object(insert(toObject(parent), item.key.name, item.jvalue))

\* An index that the parent does not have (any more) is written past the end.
canSave(parent, item) ==
  isIndex(item.key) => item.key.index < Len(toArray(parent))

(***************************************************************************)
(* Expressions: json["k"]["l"] = v and the reading of it, on temporaries   *)
(***************************************************************************)

\* A value after v is assigned to what one key, or two, name in it: each copy is opened on
\* the way down and saved on the way up.
assigned2(value, key, v) ==
  IF found(value, key) THEN saveAtParent(opened(value, key), [itemAt(value, key) EXCEPT !.jvalue = v])
  ELSE value
assigned(value, keys, v) ==
  IF Len(keys) = 1 THEN assigned2(value, keys[1], v)
  ELSE LET item == itemAt(value, keys[1]) IN
       IF ~found(value, keys[1]) \/ ~found(item.jvalue, keys[2]) THEN opened(value, keys[1])
       ELSE saveAtParent(opened(value, keys[1]),
                         [item EXCEPT !.jvalue = assigned2(item.jvalue, keys[2], v)])

Chain == {k \in UNION {[1..n -> JsonKey] : n \in 1..2} : ~isIndex(k[1])}

kept == UNCHANGED <<saved, loadedFrom, status>>
writeJson(keys, v) ==
  /\ root' = assigned(root, keys, v)
  /\ UNCHANGED itemVars /\ kept

\* Only the root's copy outlives the expression.
readJson(keys) ==
  /\ root' = opened(root, keys[1])
  /\ UNCHANGED itemVars /\ kept

(***************************************************************************)
(* Items that are kept                                                     *)
(***************************************************************************)
keepFirst(key) ==
  /\ root' = opened(root, key) /\ first' = <<itemAt(root, key)>>
  /\ UNCHANGED second /\ kept

keepSecond(key) ==
  /\ first # <<>>
  /\ second' = <<itemAt(first[1].jvalue, key)>>
  /\ first' = [first EXCEPT ![1].jvalue = opened(@, key)]
  /\ UNCHANGED root /\ kept

rootAfter(item) == IF item.hasParent THEN saveAtParent(root, item) ELSE root

assignFirst(v) ==
  /\ first # <<>>
  /\ LET item == [first[1] EXCEPT !.jvalue = v] IN
     first' = <<item>> /\ root' = rootAfter(item)
  /\ UNCHANGED second /\ kept

\* Through first's copy, whatever it has become.
assignSecond(v) ==
  /\ first # <<>> /\ second # <<>>
  /\ LET item == [second[1] EXCEPT !.jvalue = v] IN
     IF ~item.hasParent THEN second' = <<item>> /\ UNCHANGED <<first, root>> /\ kept
     ELSE IF ~canSave(first[1].jvalue, item)
     THEN /\ status' = "Undefined"
          /\ UNCHANGED <<root, itemVars, saved, loadedFrom>>
     ELSE LET parent == [first[1] EXCEPT !.jvalue = saveAtParent(@, item)] IN
          second' = <<item>> /\ first' = <<parent>> /\ root' = rootAfter(parent) /\ kept

(***************************************************************************)
(* The file                                                                *)
(***************************************************************************)

\* The file is removed before it is opened anew, which may fail; the result is always false.
saveToFile ==
  /\ \/ saved' = <<object(toObject(root))>>
     \/ saved' = <<>>
  /\ loadedFrom' = FALSE
  /\ UNCHANGED <<root, itemVars, status>>

\* What cannot be read, opened or parsed leaves an empty root.
loadFromFile ==
  /\ \/ saved # <<>> /\ root' = object(toObject(saved[1])) /\ loadedFrom' = TRUE
     \/ root' = object(<<>>) /\ loadedFrom' = FALSE
  /\ UNCHANGED <<itemVars, saved, status>>

QtJsonNext ==
  /\ status = "Live" /\ steps < MaxStep /\ steps' = steps + 1
  /\ \/ \E keys \in Chain : readJson(keys) \/ \E s \in Scalar : writeJson(keys, scalar(s))
     \/ \E key \in JsonKey : ~isIndex(key) /\ keepFirst(key)
     \/ \E key \in JsonKey : keepSecond(key)
     \/ \E s \in Scalar : assignFirst(scalar(s)) \/ assignSecond(scalar(s))
     \/ saveToFile \/ loadFromFile

QtJsonSpec == QtJsonInit /\ [][QtJsonNext]_qtJsonVars

(***************************************************************************)
(* Properties                                                              *)
(***************************************************************************)

\* The scalars of a value, with their keys.
children(value) ==
  IF value.kind = "object" THEN {<<[name |-> k], value.fields[k]>> : k \in DOMAIN value.fields}
  ELSE IF value.kind = "array" THEN {<<[index |-> i - 1], value.items[i]>> : i \in DOMAIN value.items}
  ELSE {}
leaves1(value) == {c \in children(value) : c[2].kind = "scalar"}
leaves(value) ==
  {[keys |-> <<c[1]>>, value |-> c[2]] : c \in leaves1(value)} \cup
  UNION {{[keys |-> <<c[1], d[1]>>, value |-> d[2]] : d \in leaves1(c[2])} : c \in children(value)}
\* What an assignment replaces: also a value on the way that is no container for its key.
holds(value, key) == value.kind = (IF isIndex(key) THEN "array" ELSE "object")
replaced(keys) ==
  IF Len(keys) = 1 \/ holds(itemAt(root, keys[1]).jvalue, keys[2]) THEN keys ELSE <<keys[1]>>
apart(view, keys) == {e \in view : ~IsPrefix(keys, e.keys) /\ ~IsPrefix(e.keys, keys)}

\* Reading changes no scalar; an assignment to an expression changes what it names and what
\* was in its way, and can be read back; an assignment to a kept item changes nothing
\* outside the first key it came by, however stale its copy is.
savesRest ==
  /\ \A keys \in Chain : readJson(keys) => leaves(root') = leaves(root)
  /\ \A keys \in Chain, s \in Scalar : writeJson(keys, scalar(s)) =>
       /\ apart(leaves(root'), replaced(keys)) = apart(leaves(root), replaced(keys))
       /\ (\A k \in DOMAIN keys : ~isIndex(keys[k]))
            => [keys |-> keys, value |-> scalar(s)] \in leaves(root')
  /\ \A s \in Scalar : assignFirst(scalar(s)) \/ assignSecond(scalar(s)) =>
       LET keys == <<first[1].key>> IN
       apart(leaves(root'), keys) = apart(leaves(root), keys)

SavesTheRest == [][steps' > steps => savesRest]_qtJsonVars
===============================================================================
