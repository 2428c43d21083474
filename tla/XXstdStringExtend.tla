--------------------------- MODULE XXstdStringExtend ---------------------------
(***************************************************************************)
(* C++/Extend/XXstdStringExtend.cpp: splitting, searching and counting by  *)
(* a separator.  A string is a sequence of characters; positions count     *)
(* from 0, as in the code.  The texts checked are all up to a length.      *)
(***************************************************************************)
EXTENDS Integers, Sequences, SequencesExt

CONSTANTS
  TextChar,    \* the characters of a text
  Separator,   \* the separators
  MaxText      \* bound: the length of a text

VARIABLES target, sep

textVars == <<target, sep>>

from(s, pos) == SubSeq(s, pos + 1, Len(s))
substr(s, pos, length) == SubSeq(s, pos + 1, pos + length)

\* An empty string is no prefix or suffix of any.
hasPrefix(s, prefix) == s # <<>> /\ prefix # <<>> /\ IsPrefix(prefix, s)
hasSuffix(s, suffix) == s # <<>> /\ suffix # <<>> /\ IsSuffix(suffix, s)

(***************************************************************************)
(* Splitting                                                               *)
(***************************************************************************)

\* Variant: what follows a separator begins with it.
nextNode_AtSep(pos, p) == pos
nextNode(pos, p) == pos + Len(p)

\* What lies before a separator; the rest of the text if that overlaps the one before.
node(s, begin, pos) == IF pos < begin THEN from(s, begin) ELSE substr(s, begin, pos - begin)

\* The walk stops before a separator at the end of the text.
splitWalk(s, p) ==
  FoldLeft(LAMBDA walk, k :
             LET pos == k - 1 IN
             IF substr(s, pos, Len(p)) # p THEN walk
             ELSE [nodes |-> Append(walk.nodes, node(s, walk.begin, pos)),
                   begin |-> nextNode(pos, p)],
           [nodes |-> <<>>, begin |-> 0], [k \in 1..(Len(s) - Len(p)) |-> k])

splitToList(s, p) == LET walk == splitWalk(s, p) IN Append(walk.nodes, from(s, walk.begin))

\* One more empty node before a separator at the begin, and behind one at the end.
splitToVector(s, p) ==
  (IF hasPrefix(s, p) THEN <<<<>>>> ELSE <<>>) \o splitToList(s, p)
    \o (IF hasSuffix(s, p) THEN <<<<>>>> ELSE <<>>)

join(nodes, p) ==
  FoldLeft(LAMBDA all, k : (IF k = 1 THEN <<>> ELSE all \o p) \o nodes[k], <<>>,
           [k \in DOMAIN nodes |-> k])

\* start and end count from 0, or below 0 from behind; they are compared as they are given.
\* (Bound: fewer than 128 nodes, so that they fit into int8_t.)
section(s, p, start, end) ==
  LET nodes == splitToVector(s, p)
      size == Len(nodes)
      first == IF start < 0 THEN size + start ELSE start
      last == IF end < 0 THEN size + end ELSE end
  IN IF s = <<>> \/ p = <<>> \/ start > end THEN <<>>
     ELSE IF first = 0 /\ last = 0 THEN nodes[1]
     ELSE IF first = -1 /\ last = -1 THEN nodes[size]
     ELSE IF first < 0 THEN <<>>
     ELSE join(SubSeq(nodes, first + 1, IF last < 0 \/ last >= size THEN size ELSE last + 1), p)

(***************************************************************************)
(* Searching                                                               *)
(***************************************************************************)

\* Matches do not overlap.
afterMatch(pos, p) == pos + Len(p)

\* indexVector; a comparison that reaches the end of the text fails there.
indexVector(s, p) ==
  IF s = <<>> \/ p = <<>> THEN <<>>
  ELSE FoldLeft(LAMBDA walk, k :
                  LET pos == k - 1 IN
                  IF pos < walk.next \/ substr(s, pos, Len(p)) # p THEN walk
                  ELSE [at |-> Append(walk.at, pos), next |-> afterMatch(pos, p)],
                [at |-> <<>>, next |-> 0], [k \in 1..(Len(s) - Len(p) + 1) |-> k]).at

count(s, p) == Len(indexVector(s, p))
indexOf(s, p, index) ==
  IF index < count(s, p) THEN indexVector(s, p)[index + 1] ELSE -1

\* From behind: the same on the text and the separator read backwards.
lastIndexOf(s, p, index) ==
  LET behind == indexVector(Reverse(s), Reverse(p)) IN
  IF index < Len(behind) THEN Len(s) - Len(p) - behind[index + 1] ELSE -1

\* Of a character, one more than its position.
lastIndexOfChar(s, c, index) ==
  LET pos == lastIndexOf(s, <<c>>, index) IN IF pos = -1 THEN -1 ELSE pos + 1

-----------------------------------------------------------------------------
TextInit == target = <<>> /\ sep \in Separator
TextNext ==
  /\ Len(target) < MaxText
  /\ \E c \in TextChar : target' = Append(target, c)
  /\ UNCHANGED sep
TextSpec == TextInit /\ [][TextNext]_textVars

(***************************************************************************)
(* Property                                                                *)
(***************************************************************************)
contains(s, p) == \E pos \in 0..(Len(s) - Len(p)) : substr(s, pos, Len(p)) = p
inMiddle(s, p) == \E pos \in 0..(Len(s) - Len(p) - 1) : substr(s, pos, Len(p)) = p

\* For separators that do not overlap themselves: the nodes of a list joined by the
\* separator are the text, and none has a separator in it but for one at its end in the
\* last; the vector has one separator more at an end where the text has one; a section is
\* the same nodes joined; the positions found are all there are, from before and from
\* behind.
TextSound ==
  LET list == splitToList(target, sep)
      vector == splitToVector(target, sep)
      found == indexVector(target, sep)
  IN /\ join(list, sep) = target
     /\ \A k \in DOMAIN list : ~inMiddle(list[k], sep)
     /\ \A k \in 1..(Len(list) - 1) : ~contains(list[k], sep)
     /\ join(vector, sep) = (IF hasPrefix(target, sep) THEN sep ELSE <<>>) \o target
                              \o (IF hasSuffix(target, sep) THEN sep ELSE <<>>)
     /\ target # <<>> => \A first, last \in DOMAIN vector : first <= last =>
          section(target, sep, first - 1, last - 1) = join(SubSeq(vector, first, last), sep)
     /\ ToSet(found) = {pos \in 0..(Len(target) - Len(sep)) : substr(target, pos, Len(sep)) = sep}
     /\ Len(list) = Len(found) + (IF hasSuffix(target, sep) THEN 0 ELSE 1)
     /\ \A k \in DOMAIN found :
          lastIndexOf(target, sep, Len(found) - k) = indexOf(target, sep, k - 1)
================================================================================
