---------------------------- MODULE XXqueueProofs ----------------------------
(***************************************************************************)
(* The ring operations of list.h, for rings of any length; the ring that   *)
(* the calls leave at every moment; and the queue as an implementation of  *)
(* Fifo. The proofs see the ring as the sequence of its items (Chain).     *)
(***************************************************************************)
EXTENDS XXqueue, SequencesExt, FiniteSetTheorems, SequenceTheorems, TLAPS

\* list_del takes any entry but the head out of a ring and leaves a ring of the rest.
THEOREM DelKeepsRing ==
  ASSUME NEW l, isRing(l), HeadItem \in DOMAIN l,
         NEW entry \in DOMAIN l, entry # HeadItem
  PROVE  isRing(list_del(l, entry)) /\ DOMAIN list_del(l, entry) = DOMAIN l \ {entry}
<1> DEFINE k == list_del(l, entry)
<1>1. DOMAIN k = DOMAIN l \ {entry}  BY DEF list_del
<1>2. /\ l[entry].next \in DOMAIN l /\ l[l[entry].next].prev = entry
      /\ l[entry].prev \in DOMAIN l /\ l[l[entry].prev].next = entry
  BY DEF isRing
<1>3. ASSUME NEW n \in DOMAIN k
      PROVE  /\ k[n].next = IF n = l[entry].prev THEN l[entry].next ELSE l[n].next
             /\ k[n].prev = IF n = l[entry].next THEN l[entry].prev ELSE l[n].prev
  BY <1>1 DEF list_del
<1>4. ASSUME NEW n \in DOMAIN k
      PROVE  k[n].next \in DOMAIN k /\ k[k[n].next].prev = n
  <2>1. n \in DOMAIN l /\ n # entry  BY <1>1
  <2>2. l[n].next \in DOMAIN l /\ l[l[n].next].prev = n /\ l[l[n].prev].next = n
    BY <2>1 DEF isRing
  <2>3. CASE n = l[entry].prev
    <3>1. k[n].next = l[entry].next  BY <1>3, <2>3
    <3>2. l[entry].next # entry  BY <1>2, <2>1, <2>3
    <3> QED  BY <1>1, <1>2, <1>3, <2>3, <3>1, <3>2
  <2>4. CASE n # l[entry].prev
    <3>1. k[n].next = l[n].next  BY <1>3, <2>4
    <3>2. l[n].next # entry  BY <2>2, <2>4
    <3>3. l[n].next # l[entry].next  BY <1>2, <2>1, <2>2
    <3> QED  BY <1>1, <1>3, <2>2, <3>1, <3>2, <3>3
  <2> QED  BY <2>3, <2>4
<1>5. ASSUME NEW n \in DOMAIN k
      PROVE  k[n].prev \in DOMAIN k /\ k[k[n].prev].next = n
  <2>1. n \in DOMAIN l /\ n # entry  BY <1>1
  <2>2. l[n].prev \in DOMAIN l /\ l[l[n].prev].next = n /\ l[l[n].next].prev = n
    BY <2>1 DEF isRing
  <2>3. CASE n = l[entry].next
    <3>1. k[n].prev = l[entry].prev  BY <1>3, <2>3
    <3>2. l[entry].prev # entry  BY <1>2, <2>1, <2>3
    <3> QED  BY <1>1, <1>2, <1>3, <2>3, <3>1, <3>2
  <2>4. CASE n # l[entry].next
    <3>1. k[n].prev = l[n].prev  BY <1>3, <2>4
    <3>2. l[n].prev # entry  BY <2>2, <2>4
    <3>3. l[n].prev # l[entry].prev  BY <1>2, <2>1, <2>2
    <3> QED  BY <1>1, <1>3, <2>2, <3>1, <3>2, <3>3
  <2> QED  BY <2>3, <2>4
<1> QED  BY <1>1, <1>4, <1>5 DEF isRing

\* list_add_tail puts a new item into a ring as the head's predecessor and the
\* old last item's successor, and leaves a ring.
THEOREM AddKeepsRing ==
  ASSUME NEW l, isRing(l), HeadItem \in DOMAIN l, NEW new, new \notin DOMAIN l
  PROVE  /\ isRing(list_add_tail(l, new))
         /\ DOMAIN list_add_tail(l, new) = DOMAIN l \cup {new}
         /\ list_add_tail(l, new)[HeadItem].prev = new
         /\ list_add_tail(l, new)[l[HeadItem].prev].next = new
<1> DEFINE k == list_add_tail(l, new)
           last == l[HeadItem].prev
<1>1. DOMAIN k = DOMAIN l \cup {new}  BY DEF list_add_tail
<1>2. last \in DOMAIN l /\ l[last].next = HeadItem /\ last # new /\ HeadItem # new
  BY DEF isRing
<1>3. ASSUME NEW n \in DOMAIN k
      PROVE  /\ k[n].next = IF n = last THEN new ELSE IF n = new THEN HeadItem ELSE l[n].next
             /\ k[n].prev = IF n = HeadItem THEN new ELSE IF n = new THEN last ELSE l[n].prev
  BY <1>1 DEF list_add_tail
<1>4. ASSUME NEW n \in DOMAIN k
      PROVE  k[n].next \in DOMAIN k /\ k[k[n].next].prev = n
  <2>1. CASE n = last  BY <1>1, <1>2, <1>3, <2>1
  <2>2. CASE n = new  BY <1>1, <1>2, <1>3, <2>2
  <2>3. CASE n # last /\ n # new
    <3>1. n \in DOMAIN l  BY <1>1, <2>3
    <3>2. l[n].next \in DOMAIN l /\ l[l[n].next].prev = n  BY <3>1 DEF isRing
    <3>3. l[n].next # HeadItem  BY <2>3, <3>2
    <3>4. k[n].next = l[n].next  BY <1>3, <2>3
    <3> QED  BY <1>1, <1>3, <3>2, <3>3, <3>4
  <2> QED  BY <2>1, <2>2, <2>3
<1>5. ASSUME NEW n \in DOMAIN k
      PROVE  k[n].prev \in DOMAIN k /\ k[k[n].prev].next = n
  <2>1. CASE n = HeadItem  BY <1>1, <1>2, <1>3, <2>1
  <2>2. CASE n = new  BY <1>1, <1>2, <1>3, <2>2
  <2>3. CASE n # HeadItem /\ n # new
    <3>1. n \in DOMAIN l  BY <1>1, <2>3
    <3>2. l[n].prev \in DOMAIN l /\ l[l[n].prev].next = n  BY <3>1 DEF isRing
    <3>3. l[n].prev # last  BY <1>2, <2>3, <3>2
    <3>4. k[n].prev = l[n].prev  BY <1>3, <2>3
    <3> QED  BY <1>1, <1>3, <3>2, <3>3, <3>4
  <2> QED  BY <2>1, <2>2, <2>3
<1> QED  BY <1>1, <1>2, <1>3, <1>4, <1>5 DEF isRing

(***************************************************************************)
(* A ring as the sequence of its items.                                    *)
(***************************************************************************)

\* The i-th pointer of a walk along next from the head, which stands at both ends.
at(s, i) == IF i \in 1..Len(s) THEN s[i] ELSE HeadItem

\* The items of the sequence, each once, are linked in its order, to and fro.
Chain(l, s) ==
  /\ s \in Seq(Item)
  /\ \A i, j \in 1..Len(s) : s[i] = s[j] => i = j
  /\ DOMAIN l = {s[i] : i \in 1..Len(s)} \cup {HeadItem}
  /\ \A i \in 0..Len(s) : l[at(s, i)].next = at(s, i + 1) /\ l[at(s, i + 1)].prev = at(s, i)

\* A set of numbers up to n has a least one: induction for the proofs below.
LEMMA Least ==
  ASSUME NEW n \in Nat, NEW S \in SUBSET (0..n), S # {}
  PROVE  \E m \in S : \A k \in S : m <= k
<1> DEFINE B == 0..n
           F == {0..k : k \in S}
<1>1. IsWellFoundedOn(StrictSubsetOrdering(B), FiniteSubsetsOf(B))
  BY FS_StrictSubsetOrderingWellFounded
<1>2. F \subseteq FiniteSubsetsOf(B) /\ F # {}
  <2>1. ASSUME NEW k \in S
        PROVE  0..k \in FiniteSubsetsOf(B)
    <3>1. k \in Int /\ 0..k \subseteq B  OBVIOUS
    <3>2. IsFiniteSet(0..k)  BY <3>1, FS_Interval
    <3> QED  BY <3>1, <3>2 DEF FiniteSubsetsOf
  <2> QED  BY <2>1
<1>3. PICK I \in F : \A J \in F : ~(<<J, I>> \in StrictSubsetOrdering(B))
  <2> HIDE DEF F, B
  <2> QED BY <1>1, <1>2, WFMin
<1>4. PICK m \in S : I = 0..m  BY <1>3
<1>5. ASSUME NEW k \in S, k < m PROVE FALSE
  <2>1. 0..k \in F /\ 0..k \subseteq I /\ 0..k # I /\ I \subseteq B BY <1>4, <1>5
  <2>2. <<0..k, I>> \in StrictSubsetOrdering(B) BY <2>1 DEF StrictSubsetOrdering
  <2> QED BY <1>3, <2>1, <2>2
<1> QED BY <1>4, <1>5

\* What a step of the walk makes of the one before.
stepped(l, w) ==
  [i \in 0..Cardinality(Item) + 1 |->
    IF i = 0 THEN l[HeadItem].next
    ELSE IF w[i - 1] \in {HeadItem, NULL} THEN NULL
    ELSE l[w[i - 1]].next]

\* Whatever its own steps unfold to is the walk.
LEMMA WalkIs ==
  ASSUME NEW l, NEW v, v = stepped(l, v)
  PROVE  \A i \in 0..Cardinality(Item) + 1 : walk(l)[i] = v[i]
<1> DEFINE N == Cardinality(Item) + 1
           P(w) == w = stepped(l, w)
           S == {i \in 0..N : walk(l)[i] # v[i]}
<1>1. walk(l) = CHOOSE w : P(w)  BY DEF walk, stepped
<1>2. P(v)  OBVIOUS
<1>3. walk(l) = stepped(l, walk(l))  BY <1>1, <1>2
<1>4. N \in Nat  BY FS_CardinalityType, QueueAssumption
<1>5. ASSUME NEW w, w = stepped(l, w), NEW i \in 0..N
      PROVE  w[i] = IF i = 0 THEN l[HeadItem].next
                    ELSE IF w[i - 1] \in {HeadItem, NULL} THEN NULL ELSE l[w[i - 1]].next
  BY <1>5 DEF stepped
<1>6. SUFFICES ASSUME S # {} PROVE FALSE  OBVIOUS
<1>7. PICK m \in S : \A k \in S : m <= k
  <2>1. S \in SUBSET (0..N)  OBVIOUS
  <2> HIDE DEF S
  <2> QED BY <1>4, <1>6, <2>1, Least
<1>8. m \in 0..N /\ walk(l)[m] # v[m] /\ (m # 0 => walk(l)[m - 1] = v[m - 1])
  BY <1>4, <1>7
<1> QED BY <1>3, <1>5, <1>8

\* The walk meets the items in the order of the chain, then the head, then nothing.
THEOREM WalkMeets ==
  ASSUME NEW l, NEW s, Chain(l, s)
  PROVE  \A i \in 0..Cardinality(Item) + 1 :
           walk(l)[i] = IF i <= Len(s) THEN at(s, i + 1) ELSE NULL
<1> DEFINE N == Cardinality(Item) + 1
           v == [i \in 0..N |-> IF i <= Len(s) THEN at(s, i + 1) ELSE NULL]
<1>1. N \in Nat /\ Len(s) \in Nat
  BY FS_CardinalityType, QueueAssumption DEF Chain
<1>2. ASSUME NEW i \in 0..N
      PROVE  v[i] = IF i = 0 THEN l[HeadItem].next
                    ELSE IF v[i - 1] \in {HeadItem, NULL} THEN NULL ELSE l[v[i - 1]].next
  <2>1. CASE i = 0
    BY <1>1, <2>1 DEF Chain, at
  <2>2. CASE i \in 1..Len(s)
    <3>1. v[i - 1] = s[i] /\ s[i] \in Item  BY <1>1, <2>2 DEF Chain, at
    <3>2. l[s[i]].next = at(s, i + 1)  BY <1>1, <2>2 DEF Chain, at
    <3> QED BY <1>1, <2>2, <3>1, <3>2, QueueAssumption
  <2>3. CASE i = Len(s) + 1
    BY <1>1, <2>3 DEF at
  <2>4. CASE i > Len(s) + 1
    BY <1>1, <2>4
  <2> QED BY <1>1, <2>1, <2>2, <2>3, <2>4
<1>3. v = stepped(l, v)  BY <1>2 DEF stepped
<1>4. \A i \in 0..N : walk(l)[i] = v[i]
  <2> HIDE DEF v
  <2> QED BY <1>3, WalkIs
<1> QED BY <1>4

\* A sequence without its k-th element.
LEMMA Removed ==
  ASSUME NEW S, NEW s \in Seq(S), NEW k \in 1..Len(s)
  PROVE  /\ RemoveAt(s, k) \in Seq(S)
         /\ Len(RemoveAt(s, k)) = Len(s) - 1
         /\ \A i \in 1..Len(s) - 1 : RemoveAt(s, k)[i] = IF i < k THEN s[i] ELSE s[i + 1]
<1> DEFINE a == SubSeq(s, 1, k - 1)
           b == SubSeq(s, k + 1, Len(s))
<1>1. /\ a \in Seq(S) /\ Len(a) = k - 1
      /\ \A i \in 1..k - 1 : a[i] = s[i]
  <2>1. k - 1 \in Int /\ \A i \in 1..k - 1 : s[i] \in S  OBVIOUS
  <2> QED BY <2>1, SubSeqProperties
<1>2. /\ b \in Seq(S) /\ Len(b) = Len(s) - k
      /\ \A i \in 1..Len(s) - k : b[i] = s[k + i]
  <2>1. k + 1 \in Int /\ Len(s) \in Int /\ \A i \in k + 1..Len(s) : s[i] \in S  OBVIOUS
  <2>2. /\ b \in Seq(S) /\ Len(b) = IF k + 1 <= Len(s) THEN Len(s) - (k + 1) + 1 ELSE 0
        /\ \A i \in 1..Len(s) - (k + 1) + 1 : b[i] = s[k + 1 + i - 1]
    BY <2>1, SubSeqProperties
  <2> QED BY <2>2
<1>3. /\ a \o b \in Seq(S) /\ Len(a \o b) = Len(a) + Len(b)
      /\ \A i \in 1..Len(a) + Len(b) : (a \o b)[i] = IF i <= Len(a) THEN a[i] ELSE b[i - Len(a)]
  <2> HIDE DEF a, b
  <2> QED BY <1>1, <1>2, ConcatProperties
<1>4. RemoveAt(s, k) = a \o b  BY DEF RemoveAt
<1>5. Len(s) \in Nat /\ k \in Nat  OBVIOUS
<1> HIDE DEF a, b
<1>6. ASSUME NEW i \in 1..Len(s) - 1
      PROVE  (a \o b)[i] = IF i < k THEN s[i] ELSE s[i + 1]
  <2>1. CASE i < k
    <3>1. (a \o b)[i] = a[i] /\ a[i] = s[i]  BY <1>1, <1>2, <1>3, <1>5, <2>1
    <3> QED BY <2>1, <3>1
  <2>2. CASE ~(i < k)
    <3>1. (a \o b)[i] = b[i - (k - 1)]  BY <1>1, <1>2, <1>3, <1>5, <2>2
    <3>2. i - (k - 1) \in 1..Len(s) - k /\ k + (i - (k - 1)) = i + 1  BY <1>5, <2>2
    <3> QED BY <1>2, <2>2, <3>1, <3>2
  <2> QED BY <2>1, <2>2
<1>7. Len(a \o b) = Len(s) - 1  BY <1>1, <1>2, <1>3, <1>5
<1> QED BY <1>3, <1>4, <1>6, <1>7

\* The walk stands at each pointer of the ring once, the head at both of its ends.
LEMMA AtOnce ==
  ASSUME NEW l, NEW s, Chain(l, s)
  PROVE  /\ \A i, j \in 0..Len(s) : at(s, i) = at(s, j) => i = j
         /\ \A i, j \in 1..Len(s) + 1 : at(s, i) = at(s, j) => i = j
         /\ \A i \in 0..Len(s) + 1 : at(s, i) \in DOMAIN l
         /\ \A n \in DOMAIN l : \E i \in 0..Len(s) : n = at(s, i)
         /\ \A n \in DOMAIN l : \E i \in 0..Len(s) : n = at(s, i + 1)
<1>1. Len(s) \in Nat /\ \A i \in 1..Len(s) : s[i] # HeadItem
  BY QueueAssumption DEF Chain
<1>2. \A i \in 0..Len(s) + 1 : at(s, i) = IF i = 0 \/ i = Len(s) + 1 THEN HeadItem ELSE s[i]
  BY <1>1 DEF at
<1>3. \A n \in DOMAIN l : n = HeadItem \/ \E i \in 1..Len(s) : n = s[i]
  BY DEF Chain
<1>4. \A i \in 0..Len(s) + 1 : at(s, i) \in DOMAIN l
  BY <1>1, <1>2 DEF Chain
<1>5. \A i, j \in 1..Len(s) : s[i] = s[j] => i = j
  BY DEF Chain
<1>6. \A i, j \in 0..Len(s) : at(s, i) = at(s, j) => i = j
  BY <1>1, <1>2, <1>5
<1>7. \A i, j \in 1..Len(s) + 1 : at(s, i) = at(s, j) => i = j
  BY <1>1, <1>2, <1>5
<1>8. ASSUME NEW n \in DOMAIN l
      PROVE  (\E i \in 0..Len(s) : n = at(s, i)) /\ \E i \in 0..Len(s) : n = at(s, i + 1)
  <2>1. CASE n = HeadItem
    BY <1>1, <1>2, <2>1
  <2>2. CASE n # HeadItem
    <3>1. PICK i \in 1..Len(s) : n = s[i]  BY <1>3, <2>2
    <3>2. i \in 0..Len(s) /\ i - 1 \in 0..Len(s) /\ n = at(s, i) /\ n = at(s, (i - 1) + 1)
      BY <1>1, <1>2, <3>1
    <3> QED BY <3>2
  <2> QED BY <2>1, <2>2
<1> QED BY <1>4, <1>6, <1>7, <1>8

\* A chain is a ring.
LEMMA ChainRing ==
  ASSUME NEW l, NEW s, Chain(l, s)
  PROVE  isRing(l)
<1>1. Len(s) \in Nat  BY DEF Chain
<1> SUFFICES ASSUME NEW n \in DOMAIN l
             PROVE  /\ l[n].next \in DOMAIN l /\ l[l[n].next].prev = n
                    /\ l[n].prev \in DOMAIN l /\ l[l[n].prev].next = n
  BY DEF isRing
<1>2. PICK i \in 0..Len(s) : n = at(s, i)  BY AtOnce
<1>3. PICK j \in 0..Len(s) : n = at(s, j + 1)  BY AtOnce
<1>4. l[n].next = at(s, i + 1) /\ l[at(s, i + 1)].prev = n  BY <1>2 DEF Chain
<1>5. l[n].prev = at(s, j) /\ l[at(s, j)].next = n  BY <1>3 DEF Chain
<1>6. at(s, i + 1) \in DOMAIN l /\ at(s, j) \in DOMAIN l  BY <1>1, AtOnce
<1> QED BY <1>4, <1>5, <1>6

\* The items of a chain, counted.
LEMMA ChainCount ==
  ASSUME NEW l, NEW s, Chain(l, s)
  PROVE  /\ IsFiniteSet({s[i] : i \in 1..Len(s)})
         /\ Cardinality({s[i] : i \in 1..Len(s)}) = Len(s)
         /\ Len(s) \in 0..Cardinality(Item)
<1> DEFINE T == {s[i] : i \in 1..Len(s)}
<1>1. Len(s) \in Nat /\ s \in [1..Len(s) -> T] /\ T \subseteq Item
  BY DEF Chain
<1>2. s \in Bijection(1..Len(s), T)
  BY <1>1 DEF Chain, Bijection, Injection, Surjection, IsInjective
<1>3. ExistsBijection(1..Len(s), T)
  BY <1>2 DEF ExistsBijection
<1>4. IsFiniteSet(T) /\ Cardinality(T) = Len(s)
  <2> HIDE DEF T
  <2> QED BY <1>1, <1>3, FS_CountingElements, FS_NatBijection
<1>5. Cardinality(T) <= Cardinality(Item)
  <2> HIDE DEF T
  <2> QED BY <1>1, QueueAssumption, FS_Subset
<1>6. Len(s) \in 0..Cardinality(Item)
  <2>1. Cardinality(Item) \in Nat  BY FS_CardinalityType, QueueAssumption
  <2> HIDE DEF T
  <2> QED BY <1>1, <1>4, <1>5, <2>1
<1> QED BY <1>4, <1>6

\* What list_del leaves is the chain without the entry.
LEMMA ChainDel ==
  ASSUME NEW l, NEW s, Chain(l, s), NEW k \in 1..Len(s)
  PROVE  /\ Chain(list_del(l, s[k]), RemoveAt(s, k))
         /\ Len(RemoveAt(s, k)) = Len(s) - 1
         /\ {RemoveAt(s, k)[i] : i \in 1..Len(s) - 1} = {s[i] : i \in 1..Len(s)} \ {s[k]}
<1> DEFINE e == s[k]
           d == list_del(l, e)
           t == RemoveAt(s, k)
<1>1. s \in Seq(Item) /\ Len(s) \in Nat /\ k \in Nat /\ e = at(s, k) /\ e # HeadItem
  BY QueueAssumption DEF Chain, at
<1>2. /\ t \in Seq(Item) /\ Len(t) = Len(s) - 1
      /\ \A i \in 1..Len(s) - 1 : t[i] = IF i < k THEN s[i] ELSE s[i + 1]
  BY <1>1, Removed
<1> HIDE DEF t
<1>3. \A i \in 0..Len(s) : at(t, i) = IF i < k THEN at(s, i) ELSE at(s, i + 1)
  BY <1>1, <1>2 DEF at
<1>4. {t[i] : i \in 1..Len(s) - 1} = {s[i] : i \in 1..Len(s)} \ {e}
  <2>1. ASSUME NEW i \in 1..Len(s) - 1
        PROVE  t[i] \in {s[j] : j \in 1..Len(s)} /\ t[i] # e
    <3>1. CASE i < k
      BY <1>1, <1>2, <3>1 DEF Chain
    <3>2. CASE ~(i < k)
      <4>1. i + 1 \in 1..Len(s) /\ i + 1 # k /\ t[i] = s[i + 1]  BY <1>1, <1>2, <3>2
      <4> QED BY <4>1 DEF Chain
    <3> QED BY <3>1, <3>2
  <2>2. ASSUME NEW j \in 1..Len(s), s[j] # e
        PROVE  \E i \in 1..Len(s) - 1 : t[i] = s[j]
    <3>1. j # k  BY <2>2
    <3>2. CASE j < k
      <4>1. j \in 1..Len(s) - 1 /\ t[j] = s[j]  BY <1>1, <1>2, <3>2
      <4> QED BY <4>1
    <3>3. CASE j > k
      <4>1. j - 1 \in 1..Len(s) - 1 /\ t[j - 1] = s[j]  BY <1>1, <1>2, <3>3
      <4> QED BY <4>1
    <3> QED BY <1>1, <3>1, <3>2, <3>3
  <2> QED BY <2>1, <2>2
<1>5. \A i, j \in 1..Len(t) : t[i] = t[j] => i = j
  <2> SUFFICES ASSUME NEW i \in 1..Len(t), NEW j \in 1..Len(t), t[i] = t[j]
               PROVE  i = j
    OBVIOUS
  <2> DEFINE f(n) == IF n < k THEN n ELSE n + 1
  <2>1. /\ f(i) \in 1..Len(s) /\ f(j) \in 1..Len(s)
        /\ t[i] = s[f(i)] /\ t[j] = s[f(j)]
    BY <1>1, <1>2
  <2>2. f(i) = f(j)
    <3> HIDE DEF f
    <3> QED BY <2>1 DEF Chain
  <2> QED BY <1>1, <1>2, <2>2
<1>6. DOMAIN d = {t[i] : i \in 1..Len(t)} \cup {HeadItem}
  <2>1. DOMAIN d = DOMAIN l \ {e}  BY DEF list_del
  <2> HIDE DEF d
  <2> QED BY <1>1, <1>2, <1>4, <2>1 DEF Chain
<1>7. /\ l[e].next = at(s, k + 1) /\ l[e].prev = at(s, k - 1)
  <2>1. k \in 0..Len(s) /\ k - 1 \in 0..Len(s) /\ k - 1 + 1 = k  BY <1>1
  <2> QED BY <1>1, <2>1 DEF Chain
<1>8. ASSUME NEW n \in DOMAIN d
      PROVE  /\ d[n].next = IF n = at(s, k - 1) THEN at(s, k + 1) ELSE l[n].next
             /\ d[n].prev = IF n = at(s, k + 1) THEN at(s, k - 1) ELSE l[n].prev
  BY <1>7 DEF list_del
<1> HIDE DEF e, d
<1>9. \A i \in 0..Len(t) + 1 : at(t, i) \in DOMAIN d
  BY <1>1, <1>2, <1>6 DEF at
<1>10. ASSUME NEW i \in 0..Len(t)
       PROVE  d[at(t, i)].next = at(t, i + 1)
  <2>1. CASE i = k - 1
    BY <1>1, <1>2, <1>3, <1>8, <1>9, <2>1
  <2>2. CASE i < k - 1
    <3>1. at(t, i) = at(s, i) /\ at(t, i + 1) = at(s, i + 1)  BY <1>1, <1>2, <1>3, <2>2
    <3>2. at(s, i) # at(s, k - 1)  BY <1>1, <1>2, <2>2, AtOnce
    <3>3. l[at(s, i)].next = at(s, i + 1)  BY <1>1, <1>2, <2>2 DEF Chain
    <3> QED BY <1>2, <1>8, <1>9, <3>1, <3>2, <3>3
  <2>3. CASE i >= k
    <3>0. i + 1 \in 0..Len(s) /\ k - 1 \in 0..Len(s) /\ i + 1 # k - 1 /\ i + 1 + 1 = i + 2
      BY <1>1, <1>2, <2>3
    <3>1. at(t, i) = at(s, i + 1) /\ at(t, i + 1) = at(s, i + 2)  BY <1>1, <1>2, <1>3, <2>3, <3>0
    <3>2. at(s, i + 1) # at(s, k - 1)  BY <3>0, AtOnce
    <3>3. l[at(s, i + 1)].next = at(s, i + 2)  BY <3>0 DEF Chain
    <3> QED BY <1>2, <1>8, <1>9, <3>1, <3>2, <3>3
  <2> QED BY <1>1, <1>2, <2>1, <2>2, <2>3
<1>11. ASSUME NEW i \in 0..Len(t)
       PROVE  d[at(t, i + 1)].prev = at(t, i)
  <2>1. CASE i = k - 1
    BY <1>1, <1>2, <1>3, <1>8, <1>9, <2>1
  <2>2. CASE i < k - 1
    <3>0. i + 1 \in 1..Len(s) + 1 /\ k + 1 \in 1..Len(s) + 1 /\ i + 1 # k + 1 /\ i \in 0..Len(s)
      BY <1>1, <1>2, <2>2
    <3>1. at(t, i) = at(s, i) /\ at(t, i + 1) = at(s, i + 1)  BY <1>1, <1>2, <1>3, <2>2
    <3>2. at(s, i + 1) # at(s, k + 1)  BY <3>0, AtOnce
    <3>3. l[at(s, i + 1)].prev = at(s, i)  BY <3>0 DEF Chain
    <3> QED BY <1>2, <1>8, <1>9, <3>1, <3>2, <3>3
  <2>3. CASE i >= k
    <3>0. /\ i + 1 \in 0..Len(s) /\ i + 2 \in 1..Len(s) + 1 /\ k + 1 \in 1..Len(s) + 1
          /\ i + 2 # k + 1 /\ i + 1 + 1 = i + 2
      BY <1>1, <1>2, <2>3
    <3>1. at(t, i) = at(s, i + 1) /\ at(t, i + 1) = at(s, i + 2)  BY <1>1, <1>2, <1>3, <2>3, <3>0
    <3>2. at(s, i + 2) # at(s, k + 1)  BY <3>0, AtOnce
    <3>3. l[at(s, i + 2)].prev = at(s, i + 1)  BY <3>0 DEF Chain
    <3> QED BY <1>2, <1>8, <1>9, <3>1, <3>2, <3>3
  <2> QED BY <1>1, <1>2, <2>1, <2>2, <2>3
<1>12. Chain(d, t)
  BY <1>2, <1>5, <1>6, <1>10, <1>11 DEF Chain
<1> QED BY <1>2, <1>4, <1>12 DEF d, e, t

\* What list_add_tail makes is the chain with the new item at its end.
LEMMA ChainAdd ==
  ASSUME NEW l, NEW s, Chain(l, s), NEW new \in Item, new \notin DOMAIN l
  PROVE  /\ Chain(list_add_tail(l, new), Append(s, new))
         /\ Len(Append(s, new)) = Len(s) + 1
         /\ {Append(s, new)[i] : i \in 1..Len(s) + 1} = {s[i] : i \in 1..Len(s)} \cup {new}
<1> DEFINE d == list_add_tail(l, new)
           t == Append(s, new)
           last == at(s, Len(s))
<1>1. s \in Seq(Item) /\ Len(s) \in Nat /\ new # HeadItem
  BY QueueAssumption DEF Chain
<1>2. /\ t \in Seq(Item) /\ Len(t) = Len(s) + 1
      /\ \A i \in 1..Len(s) + 1 : t[i] = IF i <= Len(s) THEN s[i] ELSE new
  BY <1>1
<1> HIDE DEF t
<1>3. \A i \in 0..Len(s) + 2 :
        at(t, i) = IF i <= Len(s) THEN at(s, i) ELSE IF i = Len(s) + 1 THEN new ELSE HeadItem
  BY <1>1, <1>2 DEF at
<1>4. {t[i] : i \in 1..Len(s) + 1} = {s[i] : i \in 1..Len(s)} \cup {new}
  <2>1. \A i \in 1..Len(s) : i \in 1..Len(s) + 1 /\ t[i] = s[i]  BY <1>1, <1>2
  <2>2. Len(s) + 1 \in 1..Len(s) + 1 /\ t[Len(s) + 1] = new  BY <1>1, <1>2
  <2>3. \A i \in 1..Len(s) + 1 : t[i] = new \/ (i \in 1..Len(s) /\ t[i] = s[i])  BY <1>1, <1>2
  <2> QED BY <2>1, <2>2, <2>3
<1>5. \A i \in 1..Len(s) : s[i] # new
  BY DEF Chain
<1>6. \A i, j \in 1..Len(t) : t[i] = t[j] => i = j
  <2>1. \A i, j \in 1..Len(s) : s[i] = s[j] => i = j  BY DEF Chain
  <2> QED BY <1>1, <1>2, <1>5, <2>1
<1>7. l[HeadItem].prev = last
  <2>1. Len(s) \in 0..Len(s) /\ at(s, Len(s) + 1) = HeadItem  BY <1>1 DEF at
  <2> QED BY <2>1 DEF Chain
<1>8. ASSUME NEW n \in DOMAIN d
      PROVE  /\ d[n].next = IF n = last THEN new ELSE IF n = new THEN HeadItem ELSE l[n].next
             /\ d[n].prev = IF n = HeadItem THEN new ELSE IF n = new THEN last ELSE l[n].prev
  BY <1>7 DEF list_add_tail
<1>9. DOMAIN d = {t[i] : i \in 1..Len(t)} \cup {HeadItem}
  <2>1. DOMAIN d = DOMAIN l \cup {new}  BY DEF list_add_tail
  <2> HIDE DEF d
  <2> QED BY <1>2, <1>4, <2>1 DEF Chain
<1> HIDE DEF d
<1>10. /\ \A i \in 0..Len(t) + 1 : at(t, i) \in DOMAIN d
       /\ \A i \in 0..Len(s) : at(s, i) # new
  BY <1>1, <1>2, <1>5, <1>9 DEF at
<1>11. ASSUME NEW i \in 0..Len(t)
       PROVE  d[at(t, i)].next = at(t, i + 1) /\ d[at(t, i + 1)].prev = at(t, i)
  <2>0. at(t, i) \in DOMAIN d /\ at(t, i + 1) \in DOMAIN d  BY <1>1, <1>2, <1>10
  <2>1. CASE i = Len(s) + 1
    <3>1. at(t, i) = new /\ at(t, i + 1) = HeadItem  BY <1>1, <1>3, <2>1
    <3>2. last # new  BY <1>1, <1>10
    <3> QED BY <1>1, <1>8, <2>0, <3>1, <3>2
  <2>2. CASE i = Len(s)
    <3>1. at(t, i) = last /\ at(t, i + 1) = new  BY <1>1, <1>3, <2>2
    <3> QED BY <1>1, <1>8, <2>0, <3>1
  <2>3. CASE i < Len(s)
    <3>0. i \in 0..Len(s) /\ i + 1 \in 1..Len(s) /\ i # Len(s) /\ i + 1 # Len(s) + 1  BY <1>1, <2>3
    <3>1. at(t, i) = at(s, i) /\ at(t, i + 1) = at(s, i + 1)  BY <1>1, <1>3, <3>0
    <3>2. at(s, i) # last /\ at(s, i) # new  BY <1>1, <1>10, <3>0, AtOnce
    <3>3. at(s, i + 1) # HeadItem /\ at(s, i + 1) # new
      BY <1>1, <1>5, <3>0, QueueAssumption DEF at
    <3>4. l[at(s, i)].next = at(s, i + 1) /\ l[at(s, i + 1)].prev = at(s, i)
      BY <3>0 DEF Chain
    <3> QED BY <1>8, <2>0, <3>1, <3>2, <3>3, <3>4
  <2> QED BY <1>1, <1>2, <2>1, <2>2, <2>3
<1>12. Chain(d, t)
  BY <1>2, <1>6, <1>9, <1>11 DEF Chain
<1> QED BY <1>2, <1>4, <1>12 DEF d, t

\* The item posQueueItem finds: none in an empty ring, the head when the index
\* is the length, and none beyond it.
LEMMA Position ==
  ASSUME NEW l, NEW s, Chain(l, s), NEW index \in -1..Cardinality(Item) + 1
  PROVE  posQueueItem(l, index) =
           IF Len(s) = 0 THEN NULL
           ELSE IF index < 0 THEN s[1]
           ELSE IF index < Len(s) THEN s[index + 1]
           ELSE IF index = Len(s) THEN HeadItem ELSE NULL
<1>1. Len(s) \in Nat /\ Cardinality(Item) \in Nat /\ index \in Int
  BY FS_CardinalityType, QueueAssumption DEF Chain
<1>2. list_empty(l) <=> Len(s) = 0
  <2>1. l[HeadItem].next = at(s, 1)  BY <1>1 DEF Chain, at
  <2>2. Len(s) # 0 => s[1] \in Item  BY <1>1 DEF Chain
  <2> QED BY <1>1, <2>1, <2>2, QueueAssumption DEF at, list_empty
<1>3. CASE index < 0
  BY <1>1, <1>2, <1>3, WalkMeets DEF posQueueItem, at
<1>4. CASE index \in 0..Len(s)
  BY <1>1, <1>2, <1>4, WalkMeets DEF posQueueItem, at
<1>5. CASE index > Len(s)
  BY <1>1, <1>2, <1>5, WalkMeets DEF posQueueItem
<1> QED BY <1>1, <1>3, <1>4, <1>5

(***************************************************************************)
(* What the ring holds, and what each call makes of it.                    *)
(***************************************************************************)

Held(s) ==
  /\ Chain(list, s)
  /\ items = {s[i] : i \in 1..Len(s)}
  /\ count = Len(s)

\* The inductive invariant: the list is the chain of the live items, as many
\* as are counted and as the limit allows.
IInv ==
  /\ handle \in {"null", "open", "broken"}
  /\ maxCount \in Limit \cup {0} /\ maxHandle \in MaxHandle
  /\ maxCount > 0 => count <= maxCount
  /\ \A n \in items : data[n] \in Value
  /\ \E s : Held(s)

\* A ring that was initialised holds nothing.
LEMMA ClearedHolds ==
  /\ list = INIT_LIST_HEAD /\ data = [n \in {} |-> {}] /\ count = 0 => Held(<<>>)
  /\ list' = INIT_LIST_HEAD /\ data' = [n \in {} |-> {}] /\ count' = 0 => Held(<<>>)'
<1>1. Chain(INIT_LIST_HEAD, <<>>)
  <2>1. <<>> \in Seq(Item) /\ Len(<<>>) = 0 /\ \A i \in Int : at(<<>>, i) = HeadItem
    BY DEF at
  <2> QED BY <2>1 DEF Chain, INIT_LIST_HEAD
<1>2. {<<>>[i] : i \in 1..Len(<<>>)} = {}  OBVIOUS
<1> QED BY <1>1, <1>2 DEF Held, items

\* Freeing the k-th item.
LEMMA FreedHolds ==
  ASSUME NEW s, Held(s), NEW k \in 1..Len(s),
         list' = list_del(list, s[k]), data' = freeQueueItem(data, s[k]), count' = count - 1
  PROVE  Held(RemoveAt(s, k))'
<1>1. /\ Chain(list_del(list, s[k]), RemoveAt(s, k))
      /\ Len(RemoveAt(s, k)) = Len(s) - 1
      /\ {RemoveAt(s, k)[i] : i \in 1..Len(s) - 1} = {s[i] : i \in 1..Len(s)} \ {s[k]}
  BY ChainDel DEF Held
<1>2. items' = items \ {s[k]}  BY DEF freeQueueItem, items
<1> QED BY <1>1, <1>2 DEF Held

\* What stays of the chain when the new item makes the first one go.
kept(s) == IF isFull THEN RemoveAt(s, 1) ELSE s

\* At the limit the first item is found and taken out of the chain.
LEMMA KeptHolds ==
  ASSUME IInv, NEW s, Held(s)
  PROVE  /\ isFull => Len(s) > 0 /\ posQueueItem(list, 0) = s[1]
         /\ LET rest == IF isFull THEN list_del(list, posQueueItem(list, 0)) ELSE list
                dropped == IF isFull THEN {posQueueItem(list, 0)} ELSE {}
            IN  /\ Chain(rest, kept(s))
                /\ {kept(s)[i] : i \in 1..Len(kept(s))} = items \ dropped
                /\ Len(kept(s)) = count - Cardinality(dropped)
<1>1. Len(s) \in Nat /\ count = Len(s)  BY DEF Held, Chain
<1>2. CASE ~isFull
  <2>1. Cardinality({}) = 0  BY FS_EmptySet
  <2> QED BY <1>1, <1>2, <2>1 DEF kept, Held
<1>3. CASE isFull
  <2>1. maxCount \in Nat /\ Cardinality(Item) \in Nat
    BY FS_CardinalityType, QueueAssumption DEF IInv
  <2>2. Len(s) > 0  BY <1>1, <1>3, <2>1 DEF isFull
  <2>3. posQueueItem(list, 0) = s[1]
    <3>1. 0 \in -1..Cardinality(Item) + 1  BY <2>1
    <3> QED BY <1>1, <2>2, <3>1, Position DEF Held
  <2>4. Cardinality({s[1]}) = 1  BY FS_Singleton
  <2>5. /\ Chain(list_del(list, s[1]), RemoveAt(s, 1))
        /\ Len(RemoveAt(s, 1)) = Len(s) - 1
        /\ {RemoveAt(s, 1)[i] : i \in 1..Len(s) - 1} = {s[i] : i \in 1..Len(s)} \ {s[1]}
    <3>1. 1 \in 1..Len(s)  BY <1>1, <2>2
    <3> QED BY <3>1, ChainDel DEF Held
  <2> QED BY <1>1, <1>3, <2>2, <2>3, <2>4, <2>5 DEF kept, Held
<1> QED BY <1>2, <1>3

\* An item added, at the limit after the first one was taken out.
LEMMA AddedHolds ==
  ASSUME IInv, NEW s, Held(s), NEW value \in Value, enqueueAdded(value)
  PROVE  \E new \in Item : \E t \in {Append(kept(s), new)} :
           /\ Held(t)'
           /\ new \notin {kept(s)[i] : i \in 1..Len(kept(s))}
           /\ data' = [n \in {kept(s)[i] : i \in 1..Len(kept(s))} \cup {new} |->
                        IF n = new THEN value ELSE data[n]]
           /\ count' = Len(kept(s)) + 1
<1> DEFINE dropped == IF isFull THEN {posQueueItem(list, 0)} ELSE {}
           rest == IF isFull THEN list_del(list, posQueueItem(list, 0)) ELSE list
           K == {kept(s)[i] : i \in 1..Len(kept(s))}
<1>1. PICK new \in Item \ (items \ dropped) :
        /\ list' = list_add_tail(rest, new)
        /\ data' = [n \in (items \ dropped) \cup {new} |-> IF n = new THEN value ELSE data[n]]
  BY DEF enqueueAdded
<1>2. Chain(rest, kept(s)) /\ K = items \ dropped /\ Len(kept(s)) = count - Cardinality(dropped)
  BY KeptHolds
<1>3. count' = Len(kept(s)) + 1
  <2>1. count' = count - Cardinality(dropped) + 1  BY DEF enqueueAdded
  <2> HIDE DEF dropped
  <2> QED BY <1>2, <2>1
<1> HIDE DEF dropped, rest, K
<1>4. new \notin DOMAIN rest
  BY <1>1, <1>2, QueueAssumption DEF Chain, K
<1>5. /\ Chain(list_add_tail(rest, new), Append(kept(s), new))
      /\ Len(Append(kept(s), new)) = Len(kept(s)) + 1
      /\ {Append(kept(s), new)[i] : i \in 1..Len(kept(s)) + 1} = K \cup {new}
  BY <1>1, <1>2, <1>4, ChainAdd DEF K
<1>6. items' = K \cup {new}  BY <1>1, <1>2 DEF items
<1>7. PICK t : t = Append(kept(s), new)  OBVIOUS
<1>8. Held(t)'
  BY <1>1, <1>3, <1>5, <1>6, <1>7 DEF Held
<1> QED BY <1>1, <1>2, <1>3, <1>7, <1>8 DEF K

\* What holding a sequence says of the count, the items and the links.
LEMMA HeldCount ==
  ASSUME NEW s, Held(s)
  PROVE  /\ Len(s) \in Nat /\ count = Len(s) /\ count = Cardinality(items)
         /\ count \in 0..Cardinality(Item) /\ items \subseteq Item
         /\ isRing(list) /\ DOMAIN list = Pointer
<1>1. Chain(list, s) /\ count = Len(s) /\ items = {s[i] : i \in 1..Len(s)}
  BY DEF Held
<1>2. isRing(list)  BY <1>1, ChainRing
<1>3. Len(s) \in 0..Cardinality(Item) /\ count = Cardinality(items)
  BY <1>1, ChainCount
<1>4. items \subseteq Item /\ DOMAIN list = Pointer /\ Len(s) \in Nat
  BY <1>1 DEF Chain, Pointer
<1> QED BY <1>1, <1>2, <1>3, <1>4

\* Every call keeps the ring, the count and the values together.
THEOREM Invariance == Spec => []IInv
<1> USE DEF context
<1>1. Init => IInv
  BY ClearedHolds, QueueAssumption DEF Init, IInv, items
<1>2. IInv /\ [Next]_vars => IInv'
  <2> SUFFICES ASSUME IInv, [Next]_vars PROVE IInv'  OBVIOUS
  <2>0. PICK s : Held(s)  BY DEF IInv
  <2>1. Len(s) \in Nat /\ count = Len(s) /\ maxCount \in Nat
    <3>1. Len(s) \in Nat /\ count = Len(s)  BY <2>0, HeldCount
    <3>2. maxCount \in Limit \cup {0} /\ Limit \subseteq Nat  BY QueueAssumption DEF IInv
    <3> QED BY <3>1, <3>2
  <2>2. CASE UNCHANGED vars
    BY <2>2 DEF IInv, vars, Held, items
  <2>3. ASSUME NEW max \in Limit, NEW atMax \in MaxHandle, createWithLimit(max, atMax)
        PROVE  IInv'
    <3>1. Held(<<>>)'  BY <2>3, ClearedHolds DEF createWithLimit
    <3> QED BY <2>3, <3>1, QueueAssumption DEF createWithLimit, IInv, items
  <2>4. ASSUME NEW value \in Value, enqueue(value)
        PROVE  IInv'
    <3>1. CASE enqueueRefused
      BY <2>4, <3>1 DEF enqueue, enqueueRefused, IInv, Held, items
    <3>2. CASE enqueueAdded(value)
      <4>1. PICK new \in Item : \E t \in {Append(kept(s), new)} :
              /\ Held(t)'
              /\ new \notin {kept(s)[i] : i \in 1..Len(kept(s))}
              /\ data' = [n \in {kept(s)[i] : i \in 1..Len(kept(s))} \cup {new} |->
                           IF n = new THEN value ELSE data[n]]
              /\ count' = Len(kept(s)) + 1
        BY <2>0, <3>2, AddedHolds
      <4>2. {kept(s)[i] : i \in 1..Len(kept(s))} \subseteq items
        BY <2>0, KeptHolds
      <4>3. \A n \in items' : data'[n] \in Value
        BY <4>1, <4>2 DEF IInv, items
      <4>4. Len(kept(s)) = IF isFull THEN Len(s) - 1 ELSE Len(s)
        <5>1. CASE ~isFull  BY <5>1 DEF kept
        <5>2. CASE isFull
          <6>1. Len(s) > 0  BY <2>0, <5>2, KeptHolds
          <6>2. 1 \in 1..Len(s) /\ s \in Seq(Item)  BY <2>0, <2>1, <6>1 DEF Held, Chain
          <6> QED BY <5>2, <6>2, Removed DEF kept
        <5> QED BY <5>1, <5>2
      <4>5. maxCount' = maxCount /\ (maxCount > 0 => count' <= maxCount)
        BY <2>1, <2>4, <4>1, <4>4 DEF IInv, isFull, enqueue
      <4>6. \E t : Held(t)'  BY <4>1
      <4> QED BY <2>4, <4>3, <4>5, <4>6 DEF IInv, enqueue
    <3> QED BY <2>4, <3>1, <3>2 DEF enqueue
  <2>5. ASSUME NEW k \in 1..Len(s), handle' = handle, UNCHANGED context,
               list' = list_del(list, s[k]), data' = freeQueueItem(data, s[k]), count' = count - 1
        PROVE  IInv'
    <3>1. PICK t : t = RemoveAt(s, k)  OBVIOUS
    <3>2. Held(t)'  BY <2>0, <2>5, <3>1, FreedHolds
    <3>3. \A n \in items' : data'[n] \in Value
      BY <2>5 DEF IInv, items, freeQueueItem
    <3> QED BY <2>1, <2>5, <3>2, <3>3 DEF IInv
  <2>6. CASE dequeue
    <3>1. CASE list_empty(list)
      BY <2>6, <3>1 DEF dequeue, IInv, Held, items
    <3>2. CASE ~list_empty(list)
      <4>1. list[HeadItem].next = at(s, 1)
        BY <2>0, <2>1 DEF Held, Chain, at
      <4>2. 1 \in 1..Len(s) /\ list[HeadItem].next = s[1]
        BY <2>1, <3>2, <4>1 DEF at, list_empty
      <4> QED BY <2>5, <2>6, <3>2, <4>2 DEF dequeue
    <3> QED BY <3>1, <3>2
  <2>7. ASSUME NEW index \in -1..Cardinality(Item) + 1, removeOne(index)
        PROVE  IInv'
    <3> DEFINE item == posQueueItem(list, index)
    <3>1. CASE item = NULL
      BY <2>7, <3>1 DEF removeOne, IInv, Held, items
    <3>2. CASE item = HeadItem
      BY <2>7, <3>2, QueueAssumption DEF removeOne, IInv, Held, items
    <3>3. CASE item \notin {NULL, HeadItem}
      <4>1. PICK k \in 1..Len(s) : item = s[k]
        <5>1. index < 0 => 1 \in 1..Len(s) /\ item = s[1]
          BY <2>0, <2>1, <3>3, Position DEF Held
        <5>2. index >= 0 => index + 1 \in 1..Len(s) /\ item = s[index + 1]
          BY <2>0, <2>1, <3>3, Position DEF Held
        <5>3. index \in Int  BY FS_CardinalityType, QueueAssumption
        <5> QED BY <5>1, <5>2, <5>3
      <4>2. /\ list' = list_del(list, item) /\ data' = freeQueueItem(data, item)
            /\ count' = count - 1 /\ handle' = handle /\ UNCHANGED context
        BY <2>7, <3>3 DEF removeOne
      <4> QED BY <2>5, <4>1, <4>2
    <3> QED BY <3>1, <3>2, <3>3
  <2>8. CASE removeAll
    <3>1. Held(<<>>)'  BY <2>8, ClearedHolds DEF removeAll
    <3> QED BY <2>1, <2>8, <3>1 DEF removeAll, IInv, items
  <2>9. CASE free
    <3>1. Held(<<>>)'  BY <2>9, ClearedHolds DEF free
    <3> QED BY <2>1, <2>9, <3>1 DEF free, IInv, items
  <2> QED BY <2>2, <2>3, <2>4, <2>6, <2>7, <2>8, <2>9 DEF Next
<1> QED BY <1>1, <1>2, PTL DEF Spec

\* At every moment, whatever the limits and the calls, the links are a ring of
\* exactly the live items, as many as are counted, and no more than the limit.
THEOREM RingHolds == Spec => []Ring
<1>1. IInv => Ring
  BY HeldCount DEF IInv, Ring
<1> QED BY <1>1, Invariance, PTL

(***************************************************************************)
(* The queue implements Fifo.                                              *)
(***************************************************************************)

valuesOf(d, s) == [i \in 1..Len(s) |-> d[s[i]]]

\* A walk along next reads the values of the items in the order of the chain.
LEMMA ContentIs ==
  /\ \A s : Held(s) => content = valuesOf(data, s)
  /\ \A s : Held(s)' => content' = valuesOf(data', s)
<1>1. ASSUME NEW l, NEW s, Chain(l, s), NEW i \in 1..Len(s)
      PROVE  posQueueItem(l, i - 1) = s[i]
  <2>1. Len(s) \in 0..Cardinality(Item) /\ Cardinality(Item) \in Nat
    BY <1>1, ChainCount, FS_CardinalityType, QueueAssumption
  <2>2. i - 1 \in -1..Cardinality(Item) + 1 /\ Len(s) > 0 /\ i - 1 >= 0 /\ i - 1 < Len(s)
        /\ (i - 1) + 1 = i
    BY <2>1
  <2> QED BY <1>1, <2>1, <2>2, Position
<1> QED BY <1>1 DEF Held, content, valuesOf

\* The values of a chain are a sequence as long as it.
LEMMA Values ==
  ASSUME NEW l, NEW s, Chain(l, s), NEW d, \A n \in {s[i] : i \in 1..Len(s)} : d[n] \in Value
  PROVE  /\ valuesOf(d, s) \in Seq(Value) /\ Len(valuesOf(d, s)) = Len(s)
         /\ \A i \in 1..Len(s) : valuesOf(d, s)[i] = d[s[i]]
<1>1. Len(s) \in Nat /\ valuesOf(d, s) \in [1..Len(s) -> Value]  BY DEF valuesOf, Chain
<1> QED BY <1>1 DEF valuesOf

\* Freeing the k-th item takes the k-th value out.
LEMMA ValuesFreed ==
  ASSUME NEW l, NEW s, Chain(l, s), NEW k \in 1..Len(s),
         NEW d, \A n \in {s[i] : i \in 1..Len(s)} : d[n] \in Value,
         DOMAIN d = {s[i] : i \in 1..Len(s)}
  PROVE  /\ valuesOf(freeQueueItem(d, s[k]), RemoveAt(s, k)) = RemoveAt(valuesOf(d, s), k)
         /\ k = 1 => RemoveAt(valuesOf(d, s), 1) = Tail(valuesOf(d, s))
<1> DEFINE v == valuesOf(d, s)
           t == RemoveAt(s, k)
           w == valuesOf(freeQueueItem(d, s[k]), t)
<1>1. v \in Seq(Value) /\ Len(v) = Len(s) /\ \A i \in 1..Len(s) : v[i] = d[s[i]]
  BY Values
<1>2. s \in Seq(Item) /\ Len(s) \in Nat /\ k \in 1..Len(s)  BY DEF Chain
<1>3. /\ t \in Seq(Item) /\ Len(t) = Len(s) - 1
      /\ \A i \in 1..Len(s) - 1 : t[i] = IF i < k THEN s[i] ELSE s[i + 1]
  BY <1>2, Removed
<1> HIDE DEF v
<1>4. /\ RemoveAt(v, k) \in Seq(Value) /\ Len(RemoveAt(v, k)) = Len(s) - 1
      /\ \A i \in 1..Len(s) - 1 : RemoveAt(v, k)[i] = IF i < k THEN v[i] ELSE v[i + 1]
  BY <1>1, <1>2, Removed
<1> HIDE DEF t
<1>5. Len(w) = Len(s) - 1 /\ w = [i \in 1..Len(s) - 1 |-> freeQueueItem(d, s[k])[t[i]]]
  BY <1>2, <1>3 DEF valuesOf
<1>6. ASSUME NEW i \in 1..Len(s) - 1
      PROVE  freeQueueItem(d, s[k])[t[i]] = RemoveAt(v, k)[i]
  <2>1. PICK j \in 1..Len(s) : j # k /\ t[i] = s[j] /\ RemoveAt(v, k)[i] = v[j]
    <3>1. CASE i < k
      BY <1>2, <1>3, <1>4, <3>1
    <3>2. CASE ~(i < k)
      <4>1. i + 1 \in 1..Len(s) /\ i + 1 # k  BY <1>2, <3>2
      <4> QED BY <1>3, <1>4, <3>2, <4>1
    <3> QED BY <3>1, <3>2
  <2>2. s[j] # s[k]  BY <2>1 DEF Chain
  <2> QED BY <1>1, <2>1, <2>2 DEF freeQueueItem
<1>7. w = RemoveAt(v, k)
  <2>1. RemoveAt(v, k) = [i \in 1..Len(s) - 1 |-> RemoveAt(v, k)[i]]  BY <1>4
  <2> HIDE DEF w
  <2> QED BY <1>5, <1>6, <2>1
<1>8. ASSUME k = 1
      PROVE  RemoveAt(v, 1) = Tail(v)
  <2>1. v # <<>>  BY <1>1, <1>2
  <2>2. Tail(v) \in Seq(Value) /\ Len(Tail(v)) = Len(s) - 1
        /\ \A i \in 1..Len(s) - 1 : Tail(v)[i] = v[i + 1]
    BY <1>1, <1>2, <2>1
  <2>3. \A i \in 1..Len(s) - 1 : RemoveAt(v, 1)[i] = v[i + 1]  BY <1>4, <1>8
  <2> QED BY <1>4, <1>8, <2>2, <2>3, SeqEqual
<1> QED BY <1>7, <1>8 DEF v, t

\* A new last item adds its value at the end.
LEMMA ValuesAdded ==
  ASSUME NEW s \in Seq(Item), NEW new \in Item, new \notin {s[i] : i \in 1..Len(s)},
         NEW value \in Value, NEW d,
         \A n \in {s[i] : i \in 1..Len(s)} : d[n] \in Value,
         NEW e, e = [n \in {s[i] : i \in 1..Len(s)} \cup {new} |-> IF n = new THEN value ELSE d[n]]
  PROVE  valuesOf(e, Append(s, new)) = Append(valuesOf(d, s), value)
<1> DEFINE v == valuesOf(d, s)
           t == Append(s, new)
<1>1. v \in Seq(Value) /\ Len(v) = Len(s) /\ \A i \in 1..Len(s) : v[i] = d[s[i]]
  <2>1. v \in [1..Len(s) -> Value] /\ Len(s) \in Nat  BY DEF valuesOf
  <2> QED BY <2>1 DEF valuesOf
<1>2. /\ t \in Seq(Item) /\ Len(t) = Len(s) + 1 /\ Len(s) \in Nat
      /\ \A i \in 1..Len(s) + 1 : t[i] = IF i <= Len(s) THEN s[i] ELSE new
  OBVIOUS
<1> HIDE DEF v, t
<1>3. /\ Append(v, value) \in Seq(Value) /\ Len(Append(v, value)) = Len(s) + 1
      /\ \A i \in 1..Len(s) + 1 : Append(v, value)[i] = IF i <= Len(s) THEN v[i] ELSE value
  BY <1>1
<1>4. valuesOf(e, t) = [i \in 1..Len(s) + 1 |-> e[t[i]]]  BY <1>2 DEF valuesOf
<1>5. ASSUME NEW i \in 1..Len(s) + 1
      PROVE  e[t[i]] = Append(v, value)[i]
  <2>1. CASE i <= Len(s)
    <3>1. i \in 1..Len(s) /\ t[i] = s[i] /\ s[i] # new /\ Append(v, value)[i] = d[s[i]]
      BY <1>1, <1>2, <1>3, <2>1
    <3> QED BY <3>1
  <2>2. CASE ~(i <= Len(s))
    BY <1>2, <1>3, <2>2
  <2> QED BY <2>1, <2>2
<1>6. Append(v, value) = [i \in 1..Len(s) + 1 |-> Append(v, value)[i]]
  <2> HIDE DEF v
  <2>1. Append(v, value) \in [1..Len(s) + 1 -> Value]  BY <1>3, LenProperties
  <2> QED BY <2>1
<1> QED BY <1>4, <1>5, <1>6 DEF v, t

LEMMA ImplementsInit == Init => Queue!Init
<1>1. Init => content = <<>>  BY DEF Init, content
<1> QED BY <1>1 DEF Init, Queue!Init

\* Freeing the k-th item, as Fifo sees it.
LEMMA ContentFreed ==
  ASSUME IInv, NEW s, Held(s), NEW k \in 1..Len(s),
         list' = list_del(list, s[k]), data' = freeQueueItem(data, s[k]), count' = count - 1
  PROVE  /\ content' = RemoveAt(content, k)
         /\ k = 1 => content' = Tail(content)
<1>1. PICK t : t = RemoveAt(s, k)  OBVIOUS
<1>2. Held(t)'  BY <1>1, FreedHolds
<1>3. content' = valuesOf(data', t) /\ content = valuesOf(data, s)  BY <1>2, ContentIs
<1>4. /\ Chain(list, s) /\ DOMAIN data = {s[i] : i \in 1..Len(s)}
      /\ \A n \in {s[i] : i \in 1..Len(s)} : data[n] \in Value
  BY DEF Held, IInv, items
<1>5. /\ valuesOf(freeQueueItem(data, s[k]), t) = RemoveAt(content, k)
      /\ k = 1 => RemoveAt(content, 1) = Tail(content)
  BY <1>1, <1>3, <1>4, ValuesFreed
<1> QED BY <1>3, <1>5

\* Every call is the one of Fifo with the same name, or changes nothing it shows.
LEMMA ImplementsNext ==
  ASSUME IInv, [Next]_vars, ChecksIndex
  PROVE  [Queue!Next]_(Queue!vars)
<1> USE DEF context
<1>0. PICK s : Held(s)  BY DEF IInv
<1>1. /\ Len(s) \in Nat /\ count = Len(s) /\ maxCount \in Nat
      /\ Chain(list, s) /\ DOMAIN data = {s[i] : i \in 1..Len(s)}
      /\ \A n \in {s[i] : i \in 1..Len(s)} : data[n] \in Value
  <2>1. Len(s) \in Nat /\ count = Len(s)  BY <1>0, HeldCount
  <2>4. maxCount \in Nat
    <3>1. maxCount \in Limit \cup {0} /\ Limit \subseteq Nat  BY QueueAssumption DEF IInv
    <3> QED BY <3>1
  <2>2. Chain(list, s) /\ DOMAIN data = {s[i] : i \in 1..Len(s)}
    BY <1>0 DEF Held, items
  <2>3. \A n \in DOMAIN data : data[n] \in Value  BY DEF IInv, items
  <2> QED BY <2>1, <2>2, <2>3, <2>4
<1>2. content = valuesOf(data, s) /\ content \in Seq(Value) /\ Len(content) = Len(s)
  BY <1>0, <1>1, ContentIs, Values
<1>3. list' = list /\ data' = data /\ count' = count => content' = content
  BY DEF content
<1>4. Held(<<>>)' => content' = <<>>
  <2>1. valuesOf(data', <<>>) = <<>>  BY DEF valuesOf
  <2> QED BY <2>1, ContentIs
<1>5. CASE UNCHANGED vars
  BY <1>3, <1>5 DEF vars, Queue!vars
<1>6. ASSUME NEW max \in Limit, NEW atMax \in MaxHandle, createWithLimit(max, atMax)
      PROVE  Queue!Create
  <2>1. content' = <<>>  BY <1>4, <1>6, ClearedHolds DEF createWithLimit
  <2> QED BY <1>6, <2>1 DEF createWithLimit, Queue!Create
<1>7. ASSUME NEW value \in Value, enqueue(value)
      PROVE  Queue!Enqueue(value)
  <2>0. isFull <=> Queue!full
    BY <1>1, <1>2 DEF isFull, Queue!full
  <2>1. CASE enqueueRefused
    BY <1>3, <1>7, <2>0, <2>1 DEF enqueue, enqueueRefused, Queue!Enqueue
  <2>2. CASE enqueueAdded(value)
    <3>1. PICK new \in Item : \E t \in {Append(kept(s), new)} :
            /\ Held(t)'
            /\ new \notin {kept(s)[i] : i \in 1..Len(kept(s))}
            /\ data' = [n \in {kept(s)[i] : i \in 1..Len(kept(s))} \cup {new} |->
                         IF n = new THEN value ELSE data[n]]
            /\ count' = Len(kept(s)) + 1
      BY <1>0, <2>2, AddedHolds
    <3>2. /\ kept(s) \in Seq(Item)
          /\ \A n \in {kept(s)[i] : i \in 1..Len(kept(s))} : data[n] \in Value
      <4>1. kept(s) \in Seq(Item)
        BY <1>0, KeptHolds DEF Chain
      <4>2. {kept(s)[i] : i \in 1..Len(kept(s))} \subseteq items
        BY <1>0, KeptHolds
      <4> QED BY <4>1, <4>2 DEF IInv
    <3>3. valuesOf(data', Append(kept(s), new)) = Append(valuesOf(data, kept(s)), value)
      BY <3>1, <3>2, ValuesAdded
    <3>4. content' = Append(valuesOf(data, kept(s)), value)
      <4>1. PICK t \in {Append(kept(s), new)} : Held(t)'  BY <3>1
      <4>2. content' = valuesOf(data', t)  BY <4>1, ContentIs
      <4> QED BY <3>3, <4>1, <4>2
    <3>5. valuesOf(data, kept(s)) = IF isFull THEN Tail(content) ELSE content
      <4>1. CASE ~isFull  BY <1>2, <4>1 DEF kept
      <4>2. CASE isFull
        <5>1. 1 \in 1..Len(s)  BY <1>0, <1>1, <4>2, KeptHolds
        <5>2. valuesOf(freeQueueItem(data, s[1]), RemoveAt(s, 1)) = Tail(content)
          BY <1>1, <1>2, <5>1, ValuesFreed
        <5>3. /\ kept(s) = RemoveAt(s, 1) /\ Len(kept(s)) \in Nat
              /\ \A i \in 1..Len(kept(s)) : kept(s)[i] \in items \ {s[1]}
          <6>1. /\ Len(RemoveAt(s, 1)) = Len(s) - 1
                /\ {RemoveAt(s, 1)[i] : i \in 1..Len(s) - 1} = {s[i] : i \in 1..Len(s)} \ {s[1]}
            BY <1>1, <5>1, ChainDel
          <6>2. \A i \in 1..Len(s) - 1 : RemoveAt(s, 1)[i] \in items \ {s[1]}
            BY <1>1, <6>1 DEF items
          <6> QED BY <1>1, <4>2, <5>1, <6>1, <6>2 DEF kept
        <5>4. valuesOf(freeQueueItem(data, s[1]), kept(s)) = valuesOf(data, kept(s))
          BY <5>3 DEF valuesOf, freeQueueItem, items
        <5> QED BY <4>2, <5>2, <5>3, <5>4
      <4> QED BY <4>1, <4>2
    <3>6. isFull => maxHandle = 1  BY <2>2 DEF enqueueAdded
    <3>7. result' = "ok"  BY <2>2 DEF enqueueAdded
    <3> QED BY <1>7, <2>0, <3>4, <3>5, <3>6, <3>7 DEF enqueue, Queue!Enqueue
  <2> QED BY <1>7, <2>1, <2>2 DEF enqueue
<1>8. CASE dequeue
  <2>0. list[HeadItem].next = at(s, 1)
    BY <1>1 DEF Chain, at
  <2>1. CASE list_empty(list)
    <3>1. Len(s) = 0
      <4>1. Len(s) # 0 => s[1] \in Item  BY <1>1 DEF Chain
      <4> QED BY <1>1, <2>0, <2>1, <4>1, QueueAssumption DEF at, list_empty
    <3>2. content = <<>>  BY <1>2, <3>1
    <3> QED BY <1>3, <1>8, <2>1, <3>2 DEF dequeue, Queue!Dequeue, Queue!Next
  <2>2. CASE ~list_empty(list)
    <3>1. 1 \in 1..Len(s) /\ list[HeadItem].next = s[1]
      BY <1>1, <2>0, <2>2 DEF at, list_empty
    <3>2. content' = Tail(content)
      BY <1>0, <1>8, <2>2, <3>1, ContentFreed DEF dequeue
    <3>3. content # <<>> /\ Head(content) = data[s[1]]
      BY <1>1, <1>2, <3>1, Values
    <3> QED BY <1>8, <2>2, <3>1, <3>2, <3>3 DEF dequeue, Queue!Dequeue, Queue!Next
  <2> QED BY <2>1, <2>2
<1>9. ASSUME NEW index \in -1..Cardinality(Item) + 1, removeOne(index)
      PROVE  [Queue!Next]_(Queue!vars)
  <2> DEFINE item == posQueueItem(list, index)
  <2>0. index \in Nat /\ index # Len(s)
    BY <1>1, <1>9, FS_CardinalityType, QueueAssumption DEF removeOne
  <2>1. CASE index > Len(s) \/ Len(s) = 0
    <3>1. item = NULL  BY <1>1, <2>0, <2>1, Position
    <3>2. content' = content /\ handle' = handle /\ handle = "open" /\ result' = "ok"
      BY <1>3, <1>9, <3>1, QueueAssumption DEF removeOne
    <3>3. Queue!RemoveOne(Len(content))
      BY <1>1, <1>2, <1>9, <3>2 DEF removeOne, Queue!RemoveOne
    <3>4. Len(content) \in 0..Len(content)  BY <1>1, <1>2
    <3> QED BY <3>3, <3>4 DEF Queue!Next
  <2>2. CASE index < Len(s)
    <3>0. index + 1 \in 1..Len(s)  BY <1>1, <2>0, <2>2
    <3>1. item = s[index + 1] /\ item \in Item
      <4>1. item = s[index + 1]  BY <1>1, <2>0, <2>2, Position
      <4>2. s[index + 1] \in Item  BY <1>1, <3>0 DEF Chain
      <4> HIDE DEF item
      <4> QED BY <4>1, <4>2
    <3>2. /\ list' = list_del(list, item) /\ data' = freeQueueItem(data, item)
          /\ count' = count - 1 /\ handle' = handle
      BY <1>9, <3>1, QueueAssumption DEF removeOne
    <3>3. content' = RemoveAt(content, index + 1)
      BY <1>0, <3>0, <3>1, <3>2, ContentFreed
    <3>4. index \in 0..Len(content) /\ index \in 0..Len(content) - 1  BY <1>1, <1>2, <2>0, <2>2
    <3>5. Queue!RemoveOne(index)
      BY <1>9, <3>2, <3>3, <3>4 DEF removeOne, Queue!RemoveOne, Queue!RemoveAt, RemoveAt
    <3> QED BY <3>4, <3>5 DEF Queue!Next
  <2> QED BY <1>1, <2>0, <2>1, <2>2
<1>10. CASE removeAll
  <2>1. content' = <<>>  BY <1>4, <1>10, ClearedHolds DEF removeAll
  <2> QED BY <1>10, <2>1 DEF removeAll, Queue!RemoveAll, Queue!Next
<1>11. CASE free
  <2>1. content' = <<>>  BY <1>4, <1>11, ClearedHolds DEF free
  <2> QED BY <1>11, <2>1 DEF free, Queue!Free, Queue!Next
<1> QED BY <1>5, <1>6, <1>7, <1>8, <1>9, <1>10, <1>11 DEF Next, Queue!Next

\* The ring is a first-in first-out queue of any length: every call does to the
\* sequence of values what Fifo says, as long as the client checks the index it removes.
THEOREM QueueImplementsFifo == ASSUME ChecksIndex PROVE Spec => ImplementsFifo
<1>1. IInv /\ [Next]_vars => [Queue!Next]_(Queue!vars)  BY ImplementsNext
<1> QED BY <1>1, ImplementsInit, Invariance, PTL DEF Spec, ImplementsFifo, Queue!Spec
=============================================================================
