------------------------------- MODULE XXjson -------------------------------
(***************************************************************************)
(* JSON of the path map, C++/XXmap/XXjson.cpp: fromMap gives every path of *)
(* a map its kind, toString writes them in the order of the paths,         *)
(* fromString reads such a text, and toMap makes a map again.  A text is   *)
(* its tokens; a string is in quotes whatever it contains.                 *)
(***************************************************************************)
EXTENDS XXmap

CONSTANT NodeOrder   \* the nodes in the order of strings, as a sequence

(***************************************************************************)
(* The order of std::map: "/" comes before every character of a name       *)
(***************************************************************************)
rank(node) == CHOOSE k \in DOMAIN NodeOrder : NodeOrder[k] = node
pathBefore(p, q) ==
  \/ IsStrictPrefix(p, q)
  \/ \E k \in DOMAIN p \cap DOMAIN q :
       SubSeq(p, 1, k - 1) = SubSeq(q, 1, k - 1) /\ rank(p[k]) < rank(q[k])
inOrder(paths) == SetToSortSeq(paths, pathBefore)

(***************************************************************************)
(* fromMap and toMap                                                       *)
(***************************************************************************)
jvalue(type, value) == [type |-> type, value |-> value]
NoValue == ""

\* The prefixes of a path that no path before it has given a kind.
newNodes(jmap, p) == {q \in {SubSeq(p, 1, k) : k \in 1..(Len(p) - 1)} : q \notin DOMAIN jmap}

\* One path of the map: what is pending are items of arrays already met.
addPath(at, d, p) ==
  LET items == IF isArrayInfo(d[p]) THEN {Append(p, itemNode(i)) : i \in ToSet(d[p].items)} ELSE {}
      own == IF isArrayInfo(d[p]) THEN jvalue("ArrayInfo", NoValue)
             ELSE jvalue(IF p \in at.pending THEN "ArrayValue" ELSE "PathValue", d[p].plain)
      pending == (at.pending \cup items) \ (IF isArrayInfo(d[p]) THEN {} ELSE {p})
      above == newNodes(at.jmap, p)
      node(q) == jvalue(IF q \in pending THEN "ArrayItem" ELSE "PathNode", NoValue)
  IN [jmap |-> (p :> own) @@ [q \in above |-> node(q)] @@ at.jmap, pending |-> pending \ above]

fromMap(d) ==
  FoldLeft(LAMBDA at, p : addPath(at, d, p), [jmap |-> <<>>, pending |-> {}], inOrder(DOMAIN d)).jmap

ofType(jmap, types) == {p \in DOMAIN jmap : jmap[p].type \in types}
itemOf(p) == CHOOSE i \in 0..MaxItem : itemNode(i) = Last(p)

\* The items of an array, sorted; an array without items reads its last item all the same.
itemsOf(jmap, p) ==
  SetToSortSeq({itemOf(q) : q \in {r \in ofType(jmap, {"ArrayItem", "ArrayValue"}) : Front(r) = p}}, <)
toMap(jmap) ==
  [p \in ofType(jmap, {"ArrayInfo"}) |->
     LET items == itemsOf(jmap, p) IN arrayInfo(IF items = <<>> THEN 0 ELSE Last(items), items)]
  @@ [p \in ofType(jmap, {"PathValue", "ArrayValue"}) |-> plain(jmap[p].value)]

(***************************************************************************)
(* toString                                                                *)
(***************************************************************************)
quoted(s) == <<"quoted", s>>
mark(c) == <<"mark", c>>

\* Brackets that close from one depth down to another, the arrays that are open being
\* known by their depths.
closings(from, to, arrays) ==
  FoldLeft(LAMBDA at, depth :
             IF at.arrays # <<>> /\ Last(at.arrays) = depth
             THEN [text |-> at.text \o <<mark("]"), mark(",")>>, arrays |-> Front(at.arrays)]
             ELSE [at EXCEPT !.text = @ \o <<mark("}"), mark(",")>>],
           [text |-> <<>>, arrays |-> arrays], [k \in 1..(from - to) |-> from - k])

\* Variant: a pair ends without a comma.
pair_Bare(key, value) == <<quoted(key), mark(":"), quoted(value)>>
pair(key, value) == <<quoted(key), mark(":"), quoted(value), mark(",")>>

written(type, key, value) ==
  CASE type = "PathValue" -> pair(key, value)
    [] type = "PathNode" -> <<quoted(key), mark(":")>>
    [] type = "ArrayInfo" -> <<quoted(key), mark(":"), mark("[")>>
    [] type = "ArrayItem" -> <<>>
    [] type = "ArrayValue" -> <<quoted(value), mark(",")>>

writeNode(at, jmap, p) ==
  LET j == jmap[p]
      closed == closings(at.depth, Len(p), at.arrays)
      open == IF at.depth < Len(p) /\ j.type \notin {"ArrayItem", "ArrayValue"}
              THEN <<mark("{")>> ELSE <<>>
  IN [text |-> at.text \o closed.text \o open \o written(j.type, Last(p), j.value),
      depth |-> Len(p),
      arrays |-> IF j.type = "ArrayInfo" THEN Append(closed.arrays, Len(p)) ELSE closed.arrays]

toString(jmap) ==
  LET all == FoldLeft(LAMBDA at, p : writeNode(at, jmap, p),
                      [text |-> <<>>, depth |-> 0, arrays |-> <<>>], inOrder(DOMAIN jmap))
      rest == closings(all.depth, 0, all.arrays).text
  IN all.text \o (IF rest = <<>> THEN <<>> ELSE Front(rest))

(***************************************************************************)
(* fromString                                                              *)
(***************************************************************************)
Start == [ok |-> TRUE, depth |-> 0, path |-> <<>>, key |-> NoValue, value |-> NoValue,
          counts |-> <<>>, jmap |-> <<>>]
failed(at) == [at EXCEPT !.ok = FALSE]
reset(at) == [at EXCEPT !.key = NoValue, !.value = NoValue]
isOn(s) == s # NoValue
store(at, p, j) == [at EXCEPT !.jmap = (p :> j) @@ @]

\* The next item of the array whose path this is.
nextItem(at, j) ==
  IF at.path \notin DOMAIN at.counts THEN failed(at)
  ELSE LET item == Append(at.path, itemNode(at.counts[at.path])) IN
       [store(at, item, j) EXCEPT !.counts[at.path] = @ + 1]
storePair(at) == store(at, Append(at.path, at.key), jvalue("PathValue", at.value))
leaveNode(at) == reset([at EXCEPT !.path = IF @ = <<>> THEN @ ELSE Front(@), !.depth = @ - 1])

openObject(at) ==
  IF at.depth = 0 THEN [at EXCEPT !.depth = 1]
  ELSE IF isOn(at.key)
  THEN LET p == Append(at.path, at.key) IN
       reset([store(at, p, jvalue("PathNode", NoValue)) EXCEPT !.path = p, !.depth = @ + 1])
  ELSE LET next == nextItem(at, jvalue("ArrayItem", NoValue)) IN
       IF ~next.ok THEN next
       ELSE reset([next EXCEPT !.path = Append(@, itemNode(at.counts[@])), !.depth = @ + 1])

\* At the outermost one a pair without a comma behind it is forgotten.
closeObject(at) ==
  IF at.depth = 1 THEN [at EXCEPT !.depth = 0]
  ELSE IF ~isOn(at.key) THEN leaveNode(at)
  ELSE IF ~isOn(at.value) THEN failed(at) ELSE leaveNode(storePair(at))

openArray(at) ==
  LET p == Append(at.path, at.key) IN
  reset([at EXCEPT !.path = p, !.counts = (p :> 0) @@ @, !.depth = @ + 1])

\* A last string without a comma behind it is in key, and forgotten.
closeArray(at) ==
  IF at.path \notin DOMAIN at.counts THEN failed(at)
  ELSE IF ~isOn(at.value) THEN leaveNode(at)
  ELSE leaveNode(nextItem(at, jvalue("ArrayValue", at.value)))

comma(at) ==
  IF ~isOn(at.key) THEN at
  ELSE IF isOn(at.value) THEN reset(storePair(at))
  ELSE reset(nextItem(at, jvalue("ArrayValue", at.key)))

read(at, token) ==
  IF ~at.ok THEN at
  ELSE IF token[1] = "quoted"
  THEN IF isOn(at.key) THEN [at EXCEPT !.value = token[2]] ELSE [at EXCEPT !.key = token[2]]
  ELSE CASE token[2] = "{" -> openObject(at) [] token[2] = "}" -> closeObject(at)
         [] token[2] = "[" -> openArray(at) [] token[2] = "]" -> closeArray(at)
         [] token[2] = "," -> comma(at) [] token[2] = ":" -> at

\* The arrays are entered last; a text that is refused leaves nothing.
fromString(text) ==
  LET at == FoldLeft(read, Start, text) IN
  IF ~at.ok THEN <<>>
  ELSE [p \in DOMAIN at.counts |-> jvalue("ArrayInfo", NoValue)] @@ at.jmap

(***************************************************************************)
(* Properties                                                              *)
(***************************************************************************)
under(d, p) == {q \in DOMAIN d : IsStrictPrefix(p, q)}
ascending(items) == \A i, j \in DOMAIN items : i < j => items[i] < items[j]

\* What the code can write: no path has both a value and something under it, an array is in
\* the order of its items and has some, each item has data and is no array itself, and
\* nothing else is under the array's path.
Printable(d) ==
  \A p \in DOMAIN d :
    IF isArrayInfo(d[p])
    THEN /\ d[p].items # <<>> /\ ascending(d[p].items)
         /\ \A i \in ToSet(d[p].items) :
              LET item == Append(p, itemNode(i)) IN
              ~hasInfo(d, item) /\ (item \in DOMAIN d \/ under(d, item) # {})
         /\ \A q \in under(d, p) : q[Len(p) + 1] \in {itemNode(i) : i \in ToSet(d[p].items)}
    ELSE under(d, p) = {}

\* Written as JSON and read again, a map reads as before, as long as it is Printable.
JsonKeeps ==
  Printable(data) => seen(toMap(fromString(toString(fromMap(data))))) = seen(data)
=============================================================================
