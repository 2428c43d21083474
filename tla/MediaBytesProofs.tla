--------------------------- MODULE MediaBytesProofs ---------------------------
(***************************************************************************)
(* Proofs about bytes: what MediaBytes writes, splits and searches is read *)
(* back, for any bytes, characters and lengths; and what the socket handle *)
(* of XXtcpSocket makes of the bytes and descriptors it gets.              *)
(*                                                                         *)
(*   folds        a fold and a recursive function are what their steps     *)
(*                make of them, one behind the other                       *)
(*   text         nodes and matches lie between the places where the       *)
(*                separator is                                             *)
(*   numbers, audio header, hev1                                           *)
(*   parameter sets   each box is a few sequences behind each other        *)
(*   stream       the start codes of a stream are those between its nalus  *)
(*   socket       the inductive invariant adds to the properties that a    *)
(*                call in the loop wants more than it has                  *)
(***************************************************************************)
EXTENDS MediaBytes, XXtcpSocket, FiniteSetTheorems, SequenceTheorems, WellFoundedInduction, TLAPS

\* A set of numbers up to n that is not empty has a least one.
LEMMA Least ==
  ASSUME NEW n \in Nat, NEW S \in SUBSET (0..n), S # {}
  PROVE  \E m \in S : \A k \in S : m <= k
<1> DEFINE B == 0..n
           F == {0..k : k \in S}
<1>1. IsWellFoundedOn(StrictSubsetOrdering(B), FiniteSubsetsOf(B))
  BY FS_StrictSubsetOrderingWellFounded
<1>2. F \subseteq FiniteSubsetsOf(B) /\ F # {}
  <2>1. ASSUME NEW k \in S
        PROVE  0..k \in FiniteSubsetsOf(B)
    <3>1. k \in Int /\ 0..k \subseteq B  OBVIOUS
    <3>2. IsFiniteSet(0..k)  BY <3>1, FS_Interval
    <3> QED  BY <3>1, <3>2 DEF FiniteSubsetsOf
  <2> QED  BY <2>1
<1>3. PICK I \in F : \A J \in F : ~(<<J, I>> \in StrictSubsetOrdering(B))
  <2> HIDE DEF F, B
  <2> QED BY <1>1, <1>2, WFMin
<1>4. PICK m \in S : I = 0..m  BY <1>3
<1>5. ASSUME NEW k \in S, k < m PROVE FALSE
  <2>1. 0..k \in F /\ 0..k \subseteq I /\ 0..k # I /\ I \subseteq B  BY <1>4, <1>5
  <2>2. <<0..k, I>> \in StrictSubsetOrdering(B)  BY <2>1 DEF StrictSubsetOrdering
  <2> QED BY <1>3, <2>1, <2>2
<1> QED BY <1>4, <1>5

-----------------------------------------------------------------------------
(***************************************************************************)
(* Folds.  FoldLeft of SequencesExt is a function of sets of positions     *)
(* that takes the largest off and folds the rest.                          *)
(***************************************************************************)
top(S) == CHOOSE x \in S : \A y \in S : x >= y

LEMMA TopIs ==
  ASSUME NEW n \in Nat, NEW S \in SUBSET (1..n), S # {}
  PROVE  top(S) \in S /\ \A y \in S : top(S) >= y
<1> DEFINE D == {n - x : x \in S}
<1>2. D \in SUBSET (0..n) /\ D # {}
  <2>1. \A x \in S : x \in 1..n  OBVIOUS
  <2>2. \A x \in 1..n : n - x \in 0..n  OBVIOUS
  <2> QED BY <2>1, <2>2
<1>3. PICK m \in D : \A k \in D : m <= k
  <2> HIDE DEF D
  <2> QED BY <1>2, Least
<1>4. PICK x \in S : m = n - x  BY <1>3
<1>5. ASSUME NEW y \in S PROVE x >= y
  <2>1. n - y \in D /\ x \in 1..n /\ y \in 1..n  OBVIOUS
  <2> HIDE DEF D
  <2> QED BY <1>3, <1>4, <2>1
<1>6. \E z \in S : \A y \in S : z >= y  BY <1>5
<1> QED BY <1>6 DEF top

folds(n, step, base, g) ==
  \A S \in SUBSET (1..n) : g[S] = IF S = {} THEN base ELSE step[<<g[S \ {top(S)}], top(S)>>]

\* There is such a function for any step.
LEMMA FoldExists ==
  ASSUME NEW n \in Nat, NEW A, NEW base \in A, NEW step \in [A \X (1..n) -> A]
  PROVE  \E g \in [SUBSET (1..n) -> A] : folds(n, step, base, g)
<1> DEFINE has(m) == \E g \in [SUBSET (1..m) -> A] : folds(m, step, base, g)
           bad == {m \in 0..n : ~has(m)}
<1>1. SUFFICES ASSUME bad # {} PROVE FALSE
  <2>1. n \in 0..n  OBVIOUS
  <2> HIDE DEF has
  <2>2. bad = {} => has(n)  BY <2>1
  <2> HIDE DEF bad
  <2> QED BY <2>2 DEF has
<1>2. PICK m \in bad : \A k \in bad : m <= k
  <2>1. bad \in SUBSET (0..n)  OBVIOUS
  <2> HIDE DEF bad
  <2> QED BY <1>1, <2>1, Least
<1>0. m \in 0..n /\ ~has(m) /\ \A k \in 0..n : k < m => has(k)
  <2> HIDE DEF has
  <2> QED BY <1>2
<1> HIDE DEF bad
<1>3. CASE m = 0
  <2> DEFINE g == [S \in SUBSET (1..0) |-> base]
  <2>1. \A S \in SUBSET (1..0) : S = {}  OBVIOUS
  <2>2. g \in [SUBSET (1..0) -> A] /\ folds(0, step, base, g)  BY <2>1 DEF folds
  <2>3. has(0)
    <3> HIDE DEF g
    <3> QED BY <2>2
  <2> HIDE DEF has
  <2> QED BY <1>0, <1>3, <2>3
<1>4. CASE m # 0
  <2>1. m \in 1..n /\ m - 1 \in 0..n /\ m - 1 < m
    <3> HIDE DEF has
    <3> QED BY <1>0, <1>4
  <2>2. has(m - 1)
    <3> HIDE DEF has
    <3> QED BY <1>0, <2>1
  <2>3. PICK h \in [SUBSET (1..(m - 1)) -> A] : folds(m - 1, step, base, h)
    BY <2>2
  <2> DEFINE g == [S \in SUBSET (1..m) |-> IF m \in S THEN step[<<h[S \ {m}], m>>] ELSE h[S]]
  <2>4. \A S \in SUBSET (1..m) : /\ m \in S => S \ {m} \in SUBSET (1..(m - 1))
                                 /\ m \notin S => S \in SUBSET (1..(m - 1))
    BY <2>1
  <2>5. g \in [SUBSET (1..m) -> A]  BY <2>1, <2>4
  <2>6. ASSUME NEW S \in SUBSET (1..(m - 1)) PROVE g[S] = h[S]
    <3>1. m \notin 1..(m - 1) /\ 1..(m - 1) \subseteq 1..m  BY <2>1
    <3>2. S \in SUBSET (1..m) /\ m \notin S  BY <3>1
    <3> QED BY <3>2
  <2>7. ASSUME NEW S \in SUBSET (1..m)
        PROVE  g[S] = IF S = {} THEN base ELSE step[<<g[S \ {top(S)}], top(S)>>]
    <3>1. CASE m \in S
      <4>1. top(S) \in S /\ top(S) >= m
        <5>1. m \in Nat /\ S # {}  BY <2>1, <3>1
        <5>2. top(S) \in S /\ \A y \in S : top(S) >= y  BY <5>1, TopIs
        <5> QED BY <3>1, <5>2
      <4>2. top(S) = m
        <5>1. top(S) \in 1..m  BY <4>1
        <5> QED BY <2>1, <4>1, <5>1
      <4>3. g[S \ {m}] = h[S \ {m}]  BY <2>4, <2>6, <3>1
      <4>4. g[S] = step[<<h[S \ {m}], m>>]  BY <3>1
      <4> HIDE DEF g
      <4> QED BY <3>1, <4>2, <4>3, <4>4
    <3>2. CASE m \notin S /\ S # {}
      <4>1. S \in SUBSET (1..(m - 1)) /\ S \ {top(S)} \in SUBSET (1..(m - 1))  BY <2>4, <3>2
      <4>2. g[S] = h[S] /\ g[S \ {top(S)}] = h[S \ {top(S)}]  BY <2>6, <4>1
      <4>3. h[S] = step[<<h[S \ {top(S)}], top(S)>>]  BY <2>3, <3>2, <4>1 DEF folds
      <4> HIDE DEF g
      <4> QED BY <3>2, <4>2, <4>3
    <3>3. CASE S = {}
      <4>1. {} \in SUBSET (1..(m - 1)) /\ g[{}] = h[{}]  BY <2>6
      <4>2. h[{}] = base  BY <2>3, <4>1 DEF folds
      <4> HIDE DEF g
      <4> QED BY <3>3, <4>1, <4>2
    <3> QED BY <3>1, <3>2, <3>3
  <2>8. folds(m, step, base, g)
    <3> HIDE DEF g
    <3> QED BY <2>7 DEF folds
  <2>9. has(m)
    <3> HIDE DEF g
    <3> QED BY <2>5, <2>8
  <2> HIDE DEF has
  <2> QED BY <1>0, <2>9
<1> QED BY <1>3, <1>4

\* The largest of 1..k, and what is left without it.
LEMMA TopOfPrefix ==
  ASSUME NEW n \in Nat, NEW k \in 1..n
  PROVE  /\ 1..k \in SUBSET (1..n) /\ 1..k # {}
         /\ top(1..k) = k /\ (1..k) \ {k} = 1..(k - 1)
<1>1. 1..k \in SUBSET (1..n) /\ k \in 1..k  OBVIOUS
<1>2. top(1..k) \in 1..k /\ top(1..k) >= k  BY <1>1, TopIs
<1>3. top(1..k) = k  BY <1>2
<1> QED BY <1>1, <1>3

-----------------------------------------------------------------------------
(***************************************************************************)
(* Induction and recursion over numbers up to n, for a set or a function   *)
(* given as such.                                                          *)
(***************************************************************************)

\* What has 0 and with each number the next has all.
LEMMA Induct ==
  ASSUME NEW n \in Nat, NEW G \in SUBSET (0..n), 0 \in G,
         \A k \in 1..n : k - 1 \in G => k \in G
  PROVE  G = 0..n
<1> DEFINE bad == (0..n) \ G
<1>1. SUFFICES ASSUME bad # {} PROVE FALSE
  OBVIOUS
<1>2. PICK m \in bad : \A k \in bad : m <= k
  <2>1. bad \in SUBSET (0..n)  OBVIOUS
  <2> HIDE DEF bad
  <2> QED BY <1>1, <2>1, Least
<1>3. m \in 0..n /\ m \notin G /\ m # 0  BY <1>2
<1>4. m \in 1..n /\ m - 1 \in 0..n /\ ~(m <= m - 1)  BY <1>3
<1>5. m - 1 \in G  BY <1>2, <1>4
<1> QED BY <1>3, <1>4, <1>5

-----------------------------------------------------------------------------
\* Nodes joined one by one: the k-th behind what the ones before it have become.
cat(s, t) == s \o t
glue(all, p, x, k) == cat(IF k = 1 THEN <<>> ELSE cat(all, p), x)

joins(nodes, p, W) ==
  /\ W[0] = <<>>
  /\ \A k \in 1..Len(nodes) : W[k] = glue(W[k - 1], p, nodes[k], k)
  /\ Text!join(nodes, p) = W[Len(nodes)]

LEMMA JoinIs ==
  ASSUME NEW C, NEW p \in Seq(C), NEW nodes \in Seq(Seq(C))
  PROVE  \E W \in [0..Len(nodes) -> Seq(C)] : joins(nodes, p, W)
<1> DEFINE n == Len(nodes)
           next(w, k) == glue(w, p, nodes[k], k)
           step == [x \in Seq(C) \X (1..n) |-> next(x[1], x[2])]
           ks == [k \in DOMAIN nodes |-> k]
           eq(g) == g = [S \in SUBSET DOMAIN ks |->
                           IF S = {} THEN <<>> ELSE next(g[S \ {top(S)}], ks[top(S)])]
           iter == CHOOSE g : eq(g)
<1>1. n \in Nat /\ DOMAIN nodes = 1..n /\ \A k \in 1..n : nodes[k] \in Seq(C)
  BY LenProperties, ElementOfSeq
<1>2. \A w \in Seq(C), k \in 1..n : next(w, k) \in Seq(C)
  BY <1>1, ConcatProperties, EmptySeq DEF glue, cat
<1>3. step \in [Seq(C) \X (1..n) -> Seq(C)]
  <2> HIDE DEF next
  <2> QED BY <1>2
<1>4. PICK g \in [SUBSET (1..n) -> Seq(C)] : folds(n, step, <<>>, g)
  <2>1. <<>> \in Seq(C)  BY EmptySeq
  <2> HIDE DEF step
  <2> QED BY <1>1, <1>3, <2>1, FoldExists
<1>5. eq(g)
  <2>1. ASSUME NEW S \in SUBSET (1..n), S # {}
        PROVE  g[S] = next(g[S \ {top(S)}], ks[top(S)])
    <3>1. top(S) \in 1..n /\ ks[top(S)] = top(S)  BY <1>1, <2>1, TopIs
    <3>2. g[S] = step[<<g[S \ {top(S)}], top(S)>>]  BY <1>4, <2>1 DEF folds
    <3>3. g[S \ {top(S)}] \in Seq(C)  BY <1>4
    <3> HIDE DEF next, ks
    <3> QED BY <3>1, <3>2, <3>3
  <2>2. g[{}] = <<>>  BY <1>4 DEF folds
  <2>3. DOMAIN ks = 1..n  BY <1>1
  <2> HIDE DEF next, ks
  <2> QED BY <1>4, <2>1, <2>2, <2>3
<1>6. eq(iter)
  <2> HIDE DEF eq
  <2> QED BY <1>5
<1>7. Text!join(nodes, p) = iter[DOMAIN ks]
  BY Zenon DEF Text!join, glue, cat, Text!FoldLeft, Text!MapThenFoldSet, Text!Max, top
<1> DEFINE W == [k \in 0..n |-> iter[1..k]]
<1> HIDE DEF iter
<1>8. ASSUME NEW k \in 1..n PROVE W[k] = next(W[k - 1], k)
  <2>1. 1..k \in SUBSET (1..n) /\ 1..k # {} /\ top(1..k) = k /\ (1..k) \ {k} = 1..(k - 1)
    BY <1>1, TopOfPrefix
  <2>2. ks[k] = k /\ DOMAIN ks = 1..n  BY <1>1
  <2> HIDE DEF next, ks
  <2>3. iter[1..k] = next(iter[1..(k - 1)], k)  BY <1>6, <2>1, <2>2
  <2>4. k \in 0..n /\ k - 1 \in 0..n  BY <1>1
  <2> QED BY <2>3, <2>4
<1>9. W[0] = <<>>
  <2>1. 1..0 = {} /\ DOMAIN ks = 1..n  BY <1>1
  <2> HIDE DEF next, ks
  <2> QED BY <1>1, <1>6, <2>1
<1>10. \A k \in 0..n : W[k] \in Seq(C)
  <2> DEFINE G == {k \in 0..n : W[k] \in Seq(C)}
  <2>1. 0 \in G
    <3>1. 0 \in 0..n /\ <<>> \in Seq(C)  BY <1>1, EmptySeq
    <3> HIDE DEF W, next
    <3> QED BY <1>9, <3>1
  <2>2. ASSUME NEW k \in 1..n, k - 1 \in G PROVE k \in G
    <3> HIDE DEF W, next
    <3> QED BY <1>2, <1>8, <2>2
  <2>3. G = 0..n
    <3>1. G \in SUBSET (0..n)  OBVIOUS
    <3> HIDE DEF G
    <3> QED BY <1>1, <2>1, <2>2, <3>1, Induct
  <2> HIDE DEF W
  <2> QED BY <2>3
<1>11. W \in [0..n -> Seq(C)]
  <2>1. W = [k \in 0..n |-> W[k]]  OBVIOUS
  <2> HIDE DEF W
  <2> QED BY <1>10, <2>1
<1>12. Text!join(nodes, p) = W[n]  BY <1>1, <1>7
<1> HIDE DEF W
<1>13. joins(nodes, p, W)  BY <1>1, <1>8, <1>9, <1>12 DEF joins
<1> HIDE DEF n
<1> QED BY <1>11, <1>13 DEF n

LEMMA Cat ==
  ASSUME NEW C, NEW s \in Seq(C), NEW t \in Seq(C)
  PROVE  /\ cat(s, t) \in Seq(C) /\ Len(cat(s, t)) = Len(s) + Len(t)
         /\ cat(<<>>, s) = s /\ cat(s, <<>>) = s
  BY ConcatProperties, ConcatEmptySeq DEF cat

LEMMA CatTyped ==
  ASSUME NEW C, NEW s \in Seq(C), NEW t \in Seq(C)
  PROVE  cat(s, t) \in Seq(C)
  BY Cat

LEMMA CatCat ==
  ASSUME NEW C, NEW s \in Seq(C), NEW t \in Seq(C), NEW u \in Seq(C)
  PROVE  cat(cat(s, t), u) = cat(s, cat(t, u))
  BY DEF cat

LEMMA GlueIs ==
  ASSUME NEW C, NEW all \in Seq(C), NEW p \in Seq(C), NEW x \in Seq(C), NEW k
  PROVE  /\ k = 1 => glue(all, p, x, k) = x
         /\ k # 1 => glue(all, p, x, k) = cat(cat(all, p), x)
  BY Cat DEF glue

\* One node is itself, and a node behind others comes behind a separator.
LEMMA JoinOne ==
  ASSUME NEW C, NEW p \in Seq(C), NEW x \in Seq(C)
  PROVE  Text!join(<<x>>, p) = x
<1>1. <<x>> \in Seq(Seq(C)) /\ Len(<<x>>) = 1 /\ <<x>>[1] = x  OBVIOUS
<1>2. PICK W \in [0..Len(<<x>>) -> Seq(C)] : joins(<<x>>, p, W)
  BY <1>1, JoinIs
<1>3. W[1] = glue(W[0], p, x, 1) /\ Text!join(<<x>>, p) = W[1] /\ W[0] \in Seq(C)
  BY <1>1, <1>2 DEF joins
<1> QED BY <1>3, GlueIs

LEMMA JoinTyped ==
  ASSUME NEW C, NEW p \in Seq(C), NEW nodes \in Seq(Seq(C))
  PROVE  Text!join(nodes, p) \in Seq(C)
<1>1. PICK W \in [0..Len(nodes) -> Seq(C)] : joins(nodes, p, W)
  BY JoinIs
<1>2. Text!join(nodes, p) = W[Len(nodes)]  BY <1>1 DEF joins
<1>3. Len(nodes) \in 0..Len(nodes)  BY LenProperties
<1> QED BY <1>2, <1>3

LEMMA JoinAppend ==
  ASSUME NEW C, NEW p \in Seq(C), NEW nodes \in Seq(Seq(C)), nodes # <<>>, NEW x \in Seq(C)
  PROVE  Text!join(Append(nodes, x), p) = cat(cat(Text!join(nodes, p), p), x)
<1> DEFINE n == Len(nodes)
           all == Append(nodes, x)
<1>1. /\ all \in Seq(Seq(C)) /\ Len(all) = n + 1 /\ all[n + 1] = x
      /\ \A k \in 1..n : all[k] = nodes[k]
  BY AppendProperties
<1>2. n \in Nat \ {0}  BY LenProperties
<1> HIDE DEF all
<1>3. PICK V \in [0..Len(all) -> Seq(C)] : joins(all, p, V)
  BY <1>1, JoinIs
<1>4. PICK W \in [0..Len(nodes) -> Seq(C)] : joins(nodes, p, W)
  BY JoinIs
<1> HIDE DEF n
<1>V. /\ V[0] = <<>>
      /\ \A k \in 1..(n + 1) : V[k] = glue(V[k - 1], p, all[k], k)
      /\ Text!join(all, p) = V[n + 1]
  BY <1>1, <1>3 DEF joins
<1>W. /\ W[0] = <<>>
      /\ \A k \in 1..n : W[k] = glue(W[k - 1], p, nodes[k], k)
      /\ Text!join(nodes, p) = W[n]
      /\ W \in [0..n -> Seq(C)]
  BY <1>4 DEF joins, n
<1> DEFINE G == {k \in 0..n : V[k] = W[k]}
<1>5. 0 \in G  BY <1>2, <1>V, <1>W
<1>6. ASSUME NEW k \in 1..n, k - 1 \in G PROVE k \in G
  <2>1. k \in 1..(n + 1) /\ k \in 0..n /\ V[k - 1] = W[k - 1] /\ all[k] = nodes[k]
    BY <1>1, <1>2, <1>6
  <2>2. V[k] = W[k]  BY <1>V, <1>W, <2>1
  <2> QED BY <2>1, <2>2
<1>7. G = 0..n
  <2>1. G \in SUBSET (0..n)  OBVIOUS
  <2> HIDE DEF G
  <2> QED BY <1>2, <1>5, <1>6, <2>1, Induct
<1>8. V[n] = W[n]  BY <1>2, <1>7
<1>9. V[n + 1] = cat(cat(V[n], p), x)
  <2>1. n + 1 \in 1..(n + 1) /\ (n + 1) - 1 = n /\ n + 1 # 1 /\ n \in 0..n  BY <1>2
  <2>2. V[n + 1] = glue(V[n], p, x, n + 1)  BY <1>1, <1>V, <2>1
  <2>3. V[n] \in Seq(C)  BY <1>8, <1>W, <2>1
  <2> QED BY <2>1, <2>2, <2>3, GlueIs
<1> QED BY <1>1, <1>V, <1>W, <1>8, <1>9 DEF all

\* A node before others.
LEMMA JoinBefore ==
  ASSUME NEW C, NEW p \in Seq(C), NEW nodes \in Seq(Seq(C)), nodes # <<>>, NEW x \in Seq(C)
  PROVE  Text!join(<<x>> \o nodes, p) = cat(cat(x, p), Text!join(nodes, p))
<1> DEFINE n == Len(nodes)
           all == <<x>> \o nodes
<1>1. /\ all \in Seq(Seq(C)) /\ Len(all) = n + 1 /\ all[1] = x
      /\ \A k \in 1..n : all[k + 1] = nodes[k]
  <2>1. <<x>> \in Seq(Seq(C)) /\ Len(<<x>>) = 1 /\ <<x>>[1] = x  OBVIOUS
  <2>2. n \in Nat  BY LenProperties
  <2>3. /\ all \in Seq(Seq(C)) /\ Len(all) = 1 + n
        /\ \A k \in 1..(1 + n) : all[k] = IF k <= 1 THEN <<x>>[k] ELSE nodes[k - 1]
    BY <2>1, ConcatProperties
  <2> HIDE DEF all, n
  <2>4. Len(all) = n + 1 /\ 1 \in 1..(1 + n) /\ \A k \in 1..n : k + 1 \in 1..(1 + n) /\ ~(k + 1 <= 1) /\ (k + 1) - 1 = k
    BY <2>2, <2>3
  <2>5. all[1] = x  BY <2>1, <2>3, <2>4
  <2>6. \A k \in 1..n : all[k + 1] = nodes[k]  BY <2>3, <2>4
  <2> QED BY <2>3, <2>4, <2>5, <2>6
<1>2. n \in Nat \ {0}  BY LenProperties
<1> HIDE DEF all
<1>3. PICK V \in [0..Len(all) -> Seq(C)] : joins(all, p, V)
  BY <1>1, JoinIs
<1>4. PICK W \in [0..Len(nodes) -> Seq(C)] : joins(nodes, p, W)
  BY JoinIs
<1> HIDE DEF n
<1>V. /\ V[0] = <<>>
      /\ \A k \in 1..(n + 1) : V[k] = glue(V[k - 1], p, all[k], k)
      /\ Text!join(all, p) = V[n + 1]
  BY <1>1, <1>3 DEF joins
<1>W. /\ W[0] = <<>>
      /\ \A k \in 1..n : W[k] = glue(W[k - 1], p, nodes[k], k)
      /\ Text!join(nodes, p) = W[n]
      /\ W \in [0..n -> Seq(C)]
  BY <1>4 DEF joins, n
<1>5. \A k \in 1..n : nodes[k] \in Seq(C)  BY ElementOfSeq DEF n
<1>6. cat(x, p) \in Seq(C)  BY Cat
<1> DEFINE G == {k \in 0..n : k # 0 => V[k + 1] = cat(cat(x, p), W[k])}
<1>7. 0 \in G  BY <1>2
<1>8. ASSUME NEW k \in 1..n, k - 1 \in G PROVE k \in G
  <2>1. /\ k + 1 \in 1..(n + 1) /\ (k + 1) - 1 = k /\ k + 1 # 1 /\ k \in 0..n /\ k - 1 \in 0..n
        /\ 1 \in 1..(n + 1) /\ 1 - 1 = 0 /\ (k = 1 => k - 1 = 0) /\ (k - 1) + 1 = k
    BY <1>2
  <2>2. V[k + 1] = glue(V[k], p, nodes[k], k + 1) /\ nodes[k] \in Seq(C)
    BY <1>1, <1>5, <1>V, <2>1
  <2>3. W[k] = glue(W[k - 1], p, nodes[k], k) /\ W[k - 1] \in Seq(C)
    BY <1>W, <2>1
  <2>4. CASE k = 1
    <3>1. V[1] = glue(V[0], p, x, 1)  BY <1>1, <1>V, <2>1
    <3>2. V[1] = x /\ W[1] = nodes[1]
      <4>1. V[0] \in Seq(C)  BY <1>V, EmptySeq
      <4>2. V[1] = x  BY <3>1, <4>1, GlueIs
      <4> QED BY <2>2, <2>3, <2>4, <4>2, GlueIs
    <3>3. V[k + 1] = cat(cat(x, p), nodes[k])  BY <2>1, <2>2, <2>4, <3>2, GlueIs
    <3> QED BY <2>1, <2>4, <3>2, <3>3
  <2>5. CASE k # 1
    <3>1. V[k] = cat(cat(x, p), W[k - 1])
      <4>1. k - 1 # 0  BY <2>5
      <4> QED BY <1>8, <2>1, <4>1
    <3>2. W[k] = cat(cat(W[k - 1], p), nodes[k])  BY <2>3, <2>2, <2>5, GlueIs
    <3>3. V[k] \in Seq(C)  BY <3>1, <1>6, <2>3, CatTyped
    <3>4. V[k + 1] = cat(cat(V[k], p), nodes[k])  BY <2>1, <2>2, <3>3, GlueIs
    <3>5. cat(cat(cat(x, p), W[k - 1]), p) = cat(cat(x, p), cat(W[k - 1], p))
      BY <1>6, <2>3, CatCat
    <3>8. cat(W[k - 1], p) \in Seq(C)  BY <2>3, CatTyped
    <3>6. cat(cat(cat(x, p), cat(W[k - 1], p)), nodes[k]) = cat(cat(x, p), cat(cat(W[k - 1], p), nodes[k]))
      BY <1>6, <2>2, <3>8, CatCat
    <3>7. V[k + 1] = cat(cat(x, p), W[k])  BY <3>1, <3>2, <3>4, <3>5, <3>6
    <3> QED BY <2>1, <3>7
  <2> QED BY <2>4, <2>5
<1>9. G = 0..n
  <2>1. G \in SUBSET (0..n)  OBVIOUS
  <2> HIDE DEF G
  <2> QED BY <1>2, <1>7, <1>8, <2>1, Induct
<1>10. V[n + 1] = cat(cat(x, p), W[n])
  <2>1. n \in 0..n /\ n # 0  BY <1>2
  <2>2. n \in G  BY <1>9, <2>1
  <2> QED BY <2>1, <2>2
<1> QED BY <1>1, <1>V, <1>W, <1>10 DEF all

-----------------------------------------------------------------------------
(***************************************************************************)
(* The walks of splitToList and indexVector, position by position.         *)
(***************************************************************************)
splitSteps(s, p) == IF Len(s) > Len(p) THEN Len(s) - Len(p) ELSE 0

cut(s, p, walk, k) ==
  IF Text!substr(s, k - 1, Len(p)) # p THEN walk
  ELSE [nodes |-> Append(walk.nodes, Text!node(s, walk.begin, k - 1)),
        begin |-> Text!nextNode(k - 1, p)]

cuts(s, p, W) ==
  /\ W[0] = [nodes |-> <<>>, begin |-> 0]
  /\ \A k \in 1..splitSteps(s, p) : W[k] = cut(s, p, W[k - 1], k)
  /\ Text!splitWalk(s, p) = W[splitSteps(s, p)]

LEMMA SplitWalkIs ==
  ASSUME NEW C, NEW s \in Seq(C), NEW p \in Seq(C)
  PROVE  \E W \in [0..splitSteps(s, p) -> [nodes : Seq(Seq(C)), begin : Nat]] : cuts(s, p, W)
<1> DEFINE n == splitSteps(s, p)
           A == [nodes : Seq(Seq(C)), begin : Nat]
           base == [nodes |-> <<>>, begin |-> 0]
           next(w, k) == cut(s, p, w, k)
           step == [x \in A \X (1..n) |-> next(x[1], x[2])]
           ks == [k \in 1..(Len(s) - Len(p)) |-> k]
           eq(g) == g = [S \in SUBSET DOMAIN ks |->
                           IF S = {} THEN base ELSE next(g[S \ {top(S)}], ks[top(S)])]
           iter == CHOOSE g : eq(g)
<1>1. n \in Nat /\ 1..(Len(s) - Len(p)) = 1..n /\ n \in 0..n
  BY LenProperties DEF splitSteps
<1>2. base \in A /\ \A w \in A, k \in 1..n : next(w, k) \in A
  <2>1. <<>> \in Seq(Seq(C))  BY EmptySeq
  <2>2. \A i \in Nat, j \in 0..Len(s) : SubSeq(s, i + 1, j) \in Seq(C)  OBVIOUS
  <2>3. ASSUME NEW w \in A, NEW k \in 1..n PROVE next(w, k) \in A
    <3>1. /\ w.begin \in Nat /\ Len(p) \in Nat /\ Len(s) \in 0..Len(s)
          /\ k - 1 \in 0..Len(s) /\ w.begin + (k - 1 - w.begin) = k - 1
      BY <1>1, LenProperties DEF splitSteps
    <3>2. Text!node(s, w.begin, k - 1) \in Seq(C)
      <4>1. Text!from(s, w.begin) \in Seq(C)  BY <2>2, <3>1 DEF Text!from
      <4>2. Text!substr(s, w.begin, k - 1 - w.begin) \in Seq(C)  BY <2>2, <3>1 DEF Text!substr
      <4> QED BY <4>1, <4>2 DEF Text!node
    <3>3. Append(w.nodes, Text!node(s, w.begin, k - 1)) \in Seq(Seq(C))
      BY <3>2, AppendProperties
    <3>4. Text!nextNode(k - 1, p) \in Nat  BY <3>1 DEF Text!nextNode
    <3> QED BY <3>3, <3>4 DEF cut
  <2> QED BY <2>1, <2>3
<1>3. step \in [A \X (1..n) -> A]
  <2> HIDE DEF next, A, n
  <2> QED BY <1>2
<1>4. PICK g \in [SUBSET (1..n) -> A] : folds(n, step, base, g)
  <2> HIDE DEF step, A, base, n
  <2> QED BY <1>1, <1>2, <1>3, FoldExists
<1>5. eq(g)
  <2> HIDE DEF A, base, n, next
  <2>1. ASSUME NEW S \in SUBSET (1..n), S # {}
        PROVE  g[S] = next(g[S \ {top(S)}], ks[top(S)])
    <3>1. top(S) \in 1..n /\ ks[top(S)] = top(S)  BY <1>1, <2>1, TopIs
    <3>2. g[S] = step[<<g[S \ {top(S)}], top(S)>>]  BY <1>4, <2>1 DEF folds
    <3>3. g[S \ {top(S)}] \in A  BY <1>4
    <3> HIDE DEF ks
    <3> QED BY <3>1, <3>2, <3>3
  <2>2. g[{}] = base  BY <1>4 DEF folds
  <2>3. DOMAIN ks = 1..n  BY <1>1
  <2> HIDE DEF ks
  <2> QED BY <1>4, <2>1, <2>2, <2>3
<1>6. eq(iter)
  <2> HIDE DEF eq
  <2> QED BY <1>5
<1>7. Text!splitWalk(s, p) = iter[DOMAIN ks]
  BY Zenon DEF Text!splitWalk, Text!FoldLeft, Text!MapThenFoldSet, Text!Max, top, cut
<1> DEFINE W == [k \in 0..n |-> iter[1..k]]
<1> HIDE DEF iter, A, base, n, next, ks
<1>10. DOMAIN ks = 1..n /\ \A k \in 1..n : ks[k] = k  BY <1>1 DEF ks
<1>8. ASSUME NEW k \in 1..n PROVE W[k] = next(W[k - 1], k)
  <2>1. 1..k \in SUBSET (1..n) /\ 1..k # {} /\ top(1..k) = k /\ (1..k) \ {k} = 1..(k - 1)
    BY <1>1, TopOfPrefix
  <2>2. k \in DOMAIN ks /\ ks[k] = k  BY <1>10
  <2>3. iter[1..k] = next(iter[1..(k - 1)], k)
    <3>1. \A S \in SUBSET DOMAIN ks :
            iter[S] = IF S = {} THEN base ELSE next(iter[S \ {top(S)}], ks[top(S)])
      BY <1>6
    <3>2. iter[1..k] = next(iter[(1..k) \ {top(1..k)}], ks[top(1..k)])
      BY Zenon, <1>10, <2>1, <3>1
    <3> QED BY Zenon, <2>1, <2>2, <3>2
  <2>4. k \in 0..n /\ k - 1 \in 0..n  BY <1>1
  <2> QED BY <2>3, <2>4
<1>9. W[0] = base
  <2>1. 1..0 = {} /\ 0 \in 0..n  BY <1>1
  <2> QED BY <1>6, <1>10, <2>1
<1>11. \A k \in 0..n : W[k] \in A
  <2> HIDE DEF W
  <2> DEFINE G == {k \in 0..n : W[k] \in A}
  <2>1. 0 \in G  BY <1>1, <1>2, <1>9
  <2>2. ASSUME NEW k \in 1..n, k - 1 \in G PROVE k \in G
    <3>1. k \in 0..n /\ W[k - 1] \in A  BY <1>1, <2>2
    <3> QED BY <1>2, <1>8, <3>1
  <2>3. G = 0..n
    <3>1. G \in SUBSET (0..n)  OBVIOUS
    <3> HIDE DEF G
    <3> QED BY <1>1, <2>1, <2>2, <3>1, Induct
  <2> QED BY <2>3
<1>12. W \in [0..n -> A]
  <2>1. W = [k \in 0..n |-> W[k]]  OBVIOUS
  <2> HIDE DEF W
  <2> QED BY <1>11, <2>1
<1>13. Text!splitWalk(s, p) = W[n]  BY <1>1, <1>7, <1>10
<1> HIDE DEF W
<1>14. cuts(s, p, W)  BY <1>8, <1>9, <1>13 DEF cuts, n, base, next
<1> QED BY <1>12, <1>14 DEF A, n

indexSteps(s, p) == IF Len(s) >= Len(p) THEN Len(s) - Len(p) + 1 ELSE 0

mark(s, p, walk, k) ==
  IF k - 1 < walk.next \/ Text!substr(s, k - 1, Len(p)) # p THEN walk
  ELSE [at |-> Append(walk.at, k - 1), next |-> Text!afterMatch(k - 1, p)]

marks(s, p, W) ==
  /\ W[0] = [at |-> <<>>, next |-> 0]
  /\ \A k \in 1..indexSteps(s, p) : W[k] = mark(s, p, W[k - 1], k)
  /\ Text!indexVector(s, p) = W[indexSteps(s, p)].at

LEMMA IndexWalkIs ==
  ASSUME NEW C, NEW s \in Seq(C), NEW p \in Seq(C), s # <<>>, p # <<>>
  PROVE  \E W \in [0..indexSteps(s, p) -> [at : Seq(Nat), next : Nat]] : marks(s, p, W)
<1> DEFINE n == indexSteps(s, p)
           A == [at : Seq(Nat), next : Nat]
           base == [at |-> <<>>, next |-> 0]
           next(w, k) == mark(s, p, w, k)
           step == [x \in A \X (1..n) |-> next(x[1], x[2])]
           ks == [k \in 1..(Len(s) - Len(p) + 1) |-> k]
           eq(g) == g = [S \in SUBSET DOMAIN ks |->
                           IF S = {} THEN base ELSE next(g[S \ {top(S)}], ks[top(S)])]
           iter == CHOOSE g : eq(g)
<1>1. n \in Nat /\ 1..(Len(s) - Len(p) + 1) = 1..n /\ n \in 0..n
  BY LenProperties DEF indexSteps
<1>2. base \in A /\ \A w \in A, k \in 1..n : next(w, k) \in A
  <2>1. <<>> \in Seq(Nat)  BY EmptySeq
  <2>3. ASSUME NEW w \in A, NEW k \in 1..n PROVE next(w, k) \in A
    <3>1. k - 1 \in Nat /\ Len(p) \in Nat /\ w.at \in Seq(Nat)  BY <1>1, LenProperties
    <3>2. Append(w.at, k - 1) \in Seq(Nat)  BY <3>1, AppendProperties
    <3>3. Text!afterMatch(k - 1, p) \in Nat  BY <3>1 DEF Text!afterMatch
    <3> QED BY <3>2, <3>3 DEF mark
  <2> QED BY <2>1, <2>3
<1>3. step \in [A \X (1..n) -> A]
  <2> HIDE DEF next, A, n
  <2> QED BY <1>2
<1>4. PICK g \in [SUBSET (1..n) -> A] : folds(n, step, base, g)
  <2> HIDE DEF step, A, base, n
  <2> QED BY <1>1, <1>2, <1>3, FoldExists
<1>5. eq(g)
  <2> HIDE DEF A, base, n, next
  <2>1. ASSUME NEW S \in SUBSET (1..n), S # {}
        PROVE  g[S] = next(g[S \ {top(S)}], ks[top(S)])
    <3>1. top(S) \in 1..n /\ ks[top(S)] = top(S)  BY <1>1, <2>1, TopIs
    <3>2. g[S] = step[<<g[S \ {top(S)}], top(S)>>]  BY <1>4, <2>1 DEF folds
    <3>3. g[S \ {top(S)}] \in A  BY <1>4
    <3> HIDE DEF ks
    <3> QED BY <3>1, <3>2, <3>3
  <2>2. g[{}] = base  BY <1>4 DEF folds
  <2>3. DOMAIN ks = 1..n  BY <1>1
  <2> HIDE DEF ks
  <2> QED BY <1>4, <2>1, <2>2, <2>3
<1>6. eq(iter)
  <2> HIDE DEF eq
  <2> QED BY <1>5
<1>7. Text!indexVector(s, p) = iter[DOMAIN ks].at
  BY Zenon DEF Text!indexVector, Text!FoldLeft, Text!MapThenFoldSet, Text!Max, top, mark
<1> DEFINE W == [k \in 0..n |-> iter[1..k]]
<1> HIDE DEF iter, A, base, n, next, ks
<1>10. DOMAIN ks = 1..n /\ \A k \in 1..n : ks[k] = k  BY <1>1 DEF ks
<1>8. ASSUME NEW k \in 1..n PROVE W[k] = next(W[k - 1], k)
  <2>1. 1..k \in SUBSET (1..n) /\ 1..k # {} /\ top(1..k) = k /\ (1..k) \ {k} = 1..(k - 1)
    BY <1>1, TopOfPrefix
  <2>2. k \in DOMAIN ks /\ ks[k] = k  BY <1>10
  <2>3. iter[1..k] = next(iter[1..(k - 1)], k)
    <3>1. \A S \in SUBSET DOMAIN ks :
            iter[S] = IF S = {} THEN base ELSE next(iter[S \ {top(S)}], ks[top(S)])
      BY <1>6
    <3>2. iter[1..k] = next(iter[(1..k) \ {top(1..k)}], ks[top(1..k)])
      BY Zenon, <1>10, <2>1, <3>1
    <3> QED BY Zenon, <2>1, <2>2, <3>2
  <2>4. k \in 0..n /\ k - 1 \in 0..n  BY <1>1
  <2> QED BY <2>3, <2>4
<1>9. W[0] = base
  <2>1. 1..0 = {} /\ 0 \in 0..n  BY <1>1
  <2> QED BY <1>6, <1>10, <2>1
<1>11. \A k \in 0..n : W[k] \in A
  <2> HIDE DEF W
  <2> DEFINE G == {k \in 0..n : W[k] \in A}
  <2>1. 0 \in G  BY <1>1, <1>2, <1>9
  <2>2. ASSUME NEW k \in 1..n, k - 1 \in G PROVE k \in G
    <3>1. k \in 0..n /\ W[k - 1] \in A  BY <1>1, <2>2
    <3> QED BY <1>2, <1>8, <3>1
  <2>3. G = 0..n
    <3>1. G \in SUBSET (0..n)  OBVIOUS
    <3> HIDE DEF G
    <3> QED BY <1>1, <2>1, <2>2, <3>1, Induct
  <2> QED BY <2>3
<1>12. W \in [0..n -> A]
  <2>1. W = [k \in 0..n |-> W[k]]  OBVIOUS
  <2> HIDE DEF W
  <2> QED BY <1>11, <2>1
<1>13. Text!indexVector(s, p) = W[n].at  BY <1>1, <1>7, <1>10
<1> HIDE DEF W
<1>14. marks(s, p, W)  BY <1>8, <1>9, <1>13 DEF marks, n, base, next
<1> QED BY <1>12, <1>14 DEF A, n

\* A separator at a position, and one that does not overlap itself.
isAt(s, p, pos) == \A i \in 1..Len(p) : s[pos + i] = p[i]
PlainSep(p) ==
  p # <<>> /\ \A d \in 1..(Len(p) - 1) : \E i \in 1..(Len(p) - d) : p[d + i] # p[i]

LEMMA SubstrIs ==
  ASSUME NEW C, NEW s \in Seq(C), NEW p \in Seq(C), NEW pos \in 0..(Len(s) - Len(p))
  PROVE  Text!substr(s, pos, Len(p)) = p <=> isAt(s, p, pos)
<1> DEFINE x == SubSeq(s, pos + 1, pos + Len(p))
<1>1. Len(s) \in Nat /\ Len(p) \in Nat  BY LenProperties
<1>2. x \in Seq(C) /\ Len(x) = Len(p) /\ \A i \in 1..Len(p) : x[i] = s[pos + i]
  BY <1>1, SubSeqProperties
<1>3. Text!substr(s, pos, Len(p)) = x  BY DEF Text!substr
<1> HIDE DEF x
<1>4. x = p <=> \A i \in 1..Len(p) : x[i] = p[i]
  BY <1>2, SeqEqual
<1> QED BY <1>2, <1>3, <1>4 DEF isAt

LEMMA Apart ==
  ASSUME NEW C, NEW s, NEW p \in Seq(C), PlainSep(p), NEW i \in Nat, NEW j \in Nat,
         isAt(s, p, i), isAt(s, p, j), i < j
  PROVE  i + Len(p) <= j
<1> SUFFICES ASSUME j < i + Len(p) PROVE FALSE
  BY LenProperties
<1>1. Len(p) \in Nat /\ j - i \in 1..(Len(p) - 1)  BY LenProperties
<1>2. PICK m \in 1..(Len(p) - (j - i)) : p[(j - i) + m] # p[m]  BY <1>1 DEF PlainSep
<1>3. m \in 1..Len(p) /\ (j - i) + m \in 1..Len(p) /\ i + ((j - i) + m) = j + m  BY <1>1
<1>4. s[j + m] = p[m] /\ s[i + ((j - i) + m)] = p[(j - i) + m]  BY <1>3 DEF isAt
<1> QED BY <1>2, <1>3, <1>4

\* What is at a position of a piece is in the text.
LEMMA Inside ==
  ASSUME NEW C, NEW s \in Seq(C), NEW p \in Seq(C), NEW e \in 0..Len(s), NEW b \in 0..e,
         NEW m \in 0..(e - b - Len(p)),
         Text!substr(SubSeq(s, b + 1, e), m, Len(p)) = p
  PROVE  isAt(s, p, b + m)
<1> DEFINE x == SubSeq(s, b + 1, e)
<1>1. Len(s) \in Nat /\ Len(p) \in Nat  BY LenProperties
<1>2. x \in Seq(C) /\ Len(x) = e - b /\ \A i \in 1..(e - b) : x[i] = s[b + i]
  BY <1>1, SubSeqProperties
<1> HIDE DEF x
<1>3. isAt(x, p, m)  BY <1>2, SubstrIs DEF x
<1>4. ASSUME NEW i \in 1..Len(p) PROVE s[(b + m) + i] = p[i]
  <2>1. m + i \in 1..(e - b) /\ b + (m + i) = (b + m) + i  BY <1>1
  <2>2. x[m + i] = p[i]  BY <1>3 DEF isAt
  <2> QED BY <1>2, <2>1, <2>2
<1> QED BY <1>4 DEF isAt

\* One position more for each separator that was passed.
indexGrows(s, p, V) ==
  \A k \in 1..indexSteps(s, p) :
    Len(V[k].at) = Len(V[k - 1].at) + (IF isAt(s, p, k - 1) THEN 1 ELSE 0)

LEMMA IndexWalk ==
  ASSUME NEW C, NEW s \in Seq(C), NEW p \in Seq(C), PlainSep(p),
         NEW V \in [0..indexSteps(s, p) -> [at : Seq(Nat), next : Nat]], marks(s, p, V)
  PROVE  /\ \A k \in 0..indexSteps(s, p) :
              /\ \A j \in 1..Len(V[k].at) : V[k].at[j] \in 0..(k - 1) /\ isAt(s, p, V[k].at[j])
              /\ \A pos \in 0..(k - 1) : isAt(s, p, pos) => \E j \in 1..Len(V[k].at) : V[k].at[j] = pos
              /\ \A i, j \in 1..Len(V[k].at) : i < j => V[k].at[i] < V[k].at[j]
         /\ indexGrows(s, p, V)
<1> DEFINE n == indexSteps(s, p)
           Found(k) == \A j \in 1..Len(V[k].at) : V[k].at[j] \in 0..(k - 1) /\ isAt(s, p, V[k].at[j])
           All(k) == \A pos \in 0..(k - 1) : isAt(s, p, pos) => \E j \in 1..Len(V[k].at) : V[k].at[j] = pos
           Asc(k) == \A i, j \in 1..Len(V[k].at) : i < j => V[k].at[i] < V[k].at[j]
           Next_(k) == IF V[k].at = <<>> THEN V[k].next = 0
                       ELSE V[k].next = V[k].at[Len(V[k].at)] + Len(p)
           G == {k \in 0..n : Found(k) /\ All(k) /\ Asc(k) /\ Next_(k)}
<1>1. Len(s) \in Nat /\ Len(p) \in Nat \ {0} /\ n \in Nat /\ (n # 0 => n = Len(s) - Len(p) + 1)
  BY LenProperties DEF indexSteps, PlainSep
<1>2. /\ V[0] = [at |-> <<>>, next |-> 0]
      /\ \A k \in 1..n : V[k] = mark(s, p, V[k - 1], k)
  BY DEF marks
<1>3. \A k \in 0..n : V[k].at \in Seq(Nat) /\ V[k].next \in Nat /\ Len(V[k].at) \in Nat
  <2>1. \A k \in 0..n : V[k].at \in Seq(Nat) /\ V[k].next \in Nat  OBVIOUS
  <2> QED BY <2>1, LenProperties
<1>4. \A k \in 1..n : k \in 0..n /\ k - 1 \in 0..n /\ k - 1 \in 0..(Len(s) - Len(p))
  BY <1>1
<1> HIDE DEF n
<1>5. 0 \in G
  <2>1. V[0].at = <<>> /\ V[0].next = 0 /\ Len(V[0].at) = 0 /\ 0 \in 0..n  BY <1>1, <1>2
  <2> QED BY <2>1
<1>6. ASSUME NEW k \in 1..n, Found(k - 1), Next_(k - 1), isAt(s, p, k - 1)
      PROVE  ~(k - 1 < V[k - 1].next)
  <2>1. CASE V[k - 1].at = <<>>
    BY <1>3, <1>4, <1>6, <2>1
  <2>2. CASE V[k - 1].at # <<>>
    <3> DEFINE at == V[k - 1].at
    <3>1. at \in Seq(Nat) /\ Len(at) \in Nat /\ Len(at) # 0 /\ Len(at) \in 1..Len(at)
      BY <1>3, <1>4, <2>2
    <3>2. at[Len(at)] \in 0..(k - 1 - 1) /\ isAt(s, p, at[Len(at)])  BY <1>6, <3>1
    <3>3. V[k - 1].next = at[Len(at)] + Len(p)  BY <1>6, <2>2
    <3> HIDE DEF at
    <3>4. at[Len(at)] \in Nat /\ k - 1 \in Nat /\ at[Len(at)] < k - 1  BY <1>4, <3>2
    <3>5. at[Len(at)] + Len(p) <= k - 1  BY <1>6, <3>2, <3>4, Apart
    <3> QED BY <1>1, <3>3, <3>4, <3>5
  <2> QED BY <2>1, <2>2
<1>7. ASSUME NEW k \in 1..n, Found(k - 1), Next_(k - 1)
      PROVE  V[k] = IF isAt(s, p, k - 1)
                    THEN [at |-> Append(V[k - 1].at, k - 1), next |-> (k - 1) + Len(p)]
                    ELSE V[k - 1]
  <2>1. Text!substr(s, k - 1, Len(p)) = p <=> isAt(s, p, k - 1)  BY <1>4, SubstrIs
  <2>2. isAt(s, p, k - 1) => ~(k - 1 < V[k - 1].next)
    <3> HIDE DEF Found, Next_
    <3> QED BY <1>6, <1>7
  <2>3. V[k] = mark(s, p, V[k - 1], k)  BY <1>2
  <2> HIDE DEF Found, Next_
  <2> QED BY <2>1, <2>2, <2>3 DEF mark, Text!afterMatch
<1>8. ASSUME NEW k \in 1..n, Found(k - 1), Next_(k - 1), isAt(s, p, k - 1)
      PROVE  /\ V[k].at \in Seq(Nat) /\ Len(V[k].at) = Len(V[k - 1].at) + 1
             /\ Len(V[k - 1].at) \in Nat
             /\ V[k].at[Len(V[k - 1].at) + 1] = k - 1
             /\ \A j \in 1..Len(V[k - 1].at) : V[k].at[j] = V[k - 1].at[j]
             /\ V[k].next = (k - 1) + Len(p)
  <2>1. V[k - 1].at \in Seq(Nat) /\ Len(V[k - 1].at) \in Nat /\ k - 1 \in Nat  BY <1>3, <1>4
  <2>2. V[k] = [at |-> Append(V[k - 1].at, k - 1), next |-> (k - 1) + Len(p)]
    <3> HIDE DEF Found, Next_
    <3> QED BY <1>7, <1>8
  <2>3. V[k].at = Append(V[k - 1].at, k - 1) /\ V[k].next = (k - 1) + Len(p)  BY <2>2
  <2> QED BY <2>1, <2>3, AppendProperties
<1>9. ASSUME NEW k \in 1..n, k - 1 \in G PROVE k \in G
  <2>1. Found(k - 1) /\ All(k - 1) /\ Asc(k - 1) /\ Next_(k - 1) /\ k \in 0..n /\ k - 1 \in Nat
        /\ 0..(k - 1 - 1) \subseteq 0..(k - 1) /\ (0..(k - 1)) \ {k - 1} = 0..(k - 1 - 1)
    <3> HIDE DEF Found, All, Asc, Next_
    <3> QED BY <1>4, <1>9
  <2>2. CASE isAt(s, p, k - 1)
    <3> DEFINE m == Len(V[k - 1].at)
    <3>1. /\ V[k].at \in Seq(Nat) /\ Len(V[k].at) = m + 1 /\ m \in Nat
          /\ V[k].at[m + 1] = k - 1
          /\ \A j \in 1..m : V[k].at[j] = V[k - 1].at[j]
          /\ V[k].next = (k - 1) + Len(p)
      <4> HIDE DEF Found, Next_
      <4> QED BY <1>8, <2>1, <2>2
    <3>2. \A j \in 1..(m + 1) : j = m + 1 \/ j \in 1..m  BY <3>1
    <3>3. m + 1 \in 1..(m + 1) /\ 1..m \subseteq 1..(m + 1)  BY <3>1
    <3>4. \A j \in 1..m : V[k - 1].at[j] \in 0..(k - 1 - 1) /\ isAt(s, p, V[k - 1].at[j])  BY <2>1
    <3>5. \A pos \in 0..(k - 1 - 1) : isAt(s, p, pos) => \E j \in 1..m : V[k - 1].at[j] = pos  BY <2>1
    <3>6. \A i, j \in 1..m : i < j => V[k - 1].at[i] < V[k - 1].at[j]  BY <2>1
    <3> HIDE DEF m
    <3>7. Found(k)
      <4>1. ASSUME NEW j \in 1..(m + 1) PROVE V[k].at[j] \in 0..(k - 1) /\ isAt(s, p, V[k].at[j])
        <5>1. CASE j = m + 1
          <6>1. k - 1 \in 0..(k - 1)  BY <1>4
          <6> QED BY <2>2, <3>1, <5>1, <6>1
        <5>2. CASE j \in 1..m
          <6>1. V[k - 1].at[j] \in 0..(k - 1) /\ isAt(s, p, V[k - 1].at[j])  BY <2>1, <3>4, <5>2
          <6> QED BY <3>1, <5>2, <6>1
        <5> QED BY <3>2, <5>1, <5>2
      <4> QED BY <3>1, <4>1
    <3>8. All(k)
      <4>1. ASSUME NEW pos \in 0..(k - 1), isAt(s, p, pos)
            PROVE  \E j \in 1..(m + 1) : V[k].at[j] = pos
        <5>1. CASE pos = k - 1  BY <3>1, <3>3, <5>1
        <5>2. CASE pos \in 0..(k - 1 - 1)
          <6>1. PICK j \in 1..m : V[k - 1].at[j] = pos  BY <3>5, <4>1, <5>2
          <6> QED BY <3>1, <3>3, <6>1
        <5> QED BY <2>1, <5>1, <5>2
      <4> QED BY <3>1, <4>1
    <3>9. Asc(k)
      <4>1. ASSUME NEW i \in 1..(m + 1), NEW j \in 1..(m + 1), i < j
            PROVE  V[k].at[i] < V[k].at[j]
        <5>1. i \in 1..m  BY <3>1, <4>1
        <5>2. CASE j = m + 1
          <6>1. V[k - 1].at[i] \in 0..(k - 1 - 1)  BY <3>4, <5>1
          <6>2. V[k - 1].at[i] < k - 1  BY <2>1, <6>1
          <6> QED BY <3>1, <5>1, <5>2, <6>2
        <5>3. CASE j \in 1..m  BY <3>1, <3>6, <4>1, <5>1, <5>3
        <5> QED BY <3>2, <5>2, <5>3
      <4> QED BY <3>1, <4>1
    <3>10. Next_(k)
      <4>1. V[k].at # <<>>  BY <3>1
      <4> QED BY <3>1, <4>1
    <3> HIDE DEF Found, All, Asc, Next_
    <3> QED BY <2>1, <3>7, <3>8, <3>9, <3>10
  <2>3. CASE ~isAt(s, p, k - 1)
    <3>1. V[k] = V[k - 1]
      <4> HIDE DEF Found, Next_
      <4> QED BY <1>7, <2>1, <2>3
    <3>2. Found(k) /\ Asc(k) /\ Next_(k)  BY <2>1, <3>1
    <3>3. All(k)  BY <2>1, <2>3, <3>1
    <3> HIDE DEF Found, All, Asc, Next_
    <3> QED BY <2>1, <3>2, <3>3
  <2> QED BY <2>2, <2>3
<1>10. G = 0..n
  <2>1. G \in SUBSET (0..n)  OBVIOUS
  <2> HIDE DEF G
  <2> QED BY <1>1, <1>5, <1>9, <2>1, Induct
<1>11. \A k \in 0..n : Found(k) /\ All(k) /\ Asc(k) /\ Next_(k)
  <2> HIDE DEF Found, All, Asc, Next_
  <2> QED BY <1>10
<1>12. ASSUME NEW k \in 1..n
       PROVE  Len(V[k].at) = Len(V[k - 1].at) + (IF isAt(s, p, k - 1) THEN 1 ELSE 0)
  <2>1. Found(k - 1) /\ Next_(k - 1) /\ Len(V[k - 1].at) \in Nat
    <3> HIDE DEF Found, All, Asc, Next_
    <3> QED BY <1>3, <1>4, <1>11
  <2> HIDE DEF Found, Next_
  <2>2. CASE isAt(s, p, k - 1)
    <3>1. Len(V[k].at) = Len(V[k - 1].at) + 1  BY <1>8, <2>1, <2>2
    <3> QED BY <2>2, <3>1
  <2>3. CASE ~isAt(s, p, k - 1)
    <3>1. V[k] = V[k - 1]  BY <1>7, <2>1, <2>3
    <3> QED BY <2>1, <2>3, <3>1
  <2> QED BY <2>2, <2>3
<1>13. indexGrows(s, p, V)  BY <1>12 DEF indexGrows, n
<1> QED BY <1>11, <1>13 DEF n

\* The piece of a text between two positions.
piece(s, b, e) == SubSeq(s, b + 1, e)

LEMMA Pieces ==
  ASSUME NEW C, NEW s \in Seq(C), NEW e \in 0..Len(s), NEW m \in 0..e, NEW b \in 0..m
  PROVE  cat(piece(s, b, m), piece(s, m, e)) = piece(s, b, e)
<1>1. b + 1 \in 1..(Len(s) + 1) /\ m \in (b + 1 - 1)..Len(s) /\ e \in m..Len(s)  BY LenProperties
<1>2. SubSeq(s, b + 1, m) \o SubSeq(s, m + 1, e) = SubSeq(s, b + 1, e)
  BY <1>1, ConcatAdjacentSubSeq
<1> QED BY <1>2 DEF cat, piece

LEMMA PieceTyped ==
  ASSUME NEW C, NEW s \in Seq(C), NEW e \in 0..Len(s), NEW b \in 0..e
  PROVE  piece(s, b, e) \in Seq(C) /\ Len(piece(s, b, e)) = e - b
<1>1. Len(s) \in Nat  BY LenProperties
<1> QED BY <1>1, SubSeqProperties DEF piece

LEMMA PieceAll ==
  ASSUME NEW C, NEW s \in Seq(C)
  PROVE  piece(s, 0, Len(s)) = s
  BY LenProperties, SeqEqual, SubSeqProperties DEF piece

\* A node for each separator that was passed.
splitGrows(s, p, W) ==
  \A k \in 1..splitSteps(s, p) :
    Len(W[k].nodes) = Len(W[k - 1].nodes) + (IF isAt(s, p, k - 1) THEN 1 ELSE 0)

LEMMA SplitWalk ==
  ASSUME NEW C, NEW s \in Seq(C), NEW p \in Seq(C), PlainSep(p),
         NEW W \in [0..splitSteps(s, p) -> [nodes : Seq(Seq(C)), begin : Nat]], cuts(s, p, W)
  PROVE  LET end == W[splitSteps(s, p)]
             list == Append(end.nodes, piece(s, end.begin, Len(s)))
         IN /\ end.begin \in 0..Len(s)
            /\ \A m \in end.begin..(splitSteps(s, p) - 1) : ~isAt(s, p, m)
            /\ IF end.nodes = <<>> THEN end.begin = 0
               ELSE cat(Text!join(end.nodes, p), p) = piece(s, 0, end.begin)
            /\ \A j \in 1..Len(end.nodes) : ~Text!contains(end.nodes[j], p)
            /\ splitGrows(s, p, W)
<1> DEFINE n == splitSteps(s, p)
           N(k) == W[k].nodes
           B(k) == W[k].begin
           Started(k) == /\ B(k) \in 0..Len(s)
                         /\ B(k) # 0 => B(k) - Len(p) \in 0..(k - 1) /\ isAt(s, p, B(k) - Len(p))
           Clear(k) == \A m \in B(k)..(k - 1) : ~isAt(s, p, m)
           Joined(k) == IF N(k) = <<>> THEN B(k) = 0
                        ELSE cat(Text!join(N(k), p), p) = piece(s, 0, B(k))
           Free(k) == \A j \in 1..Len(N(k)) : ~Text!contains(N(k)[j], p)
           G == {k \in 0..n : Started(k) /\ Clear(k) /\ Joined(k) /\ Free(k)}
<1>1. Len(s) \in Nat /\ Len(p) \in Nat \ {0} /\ n \in Nat /\ (n # 0 => n = Len(s) - Len(p))
  BY LenProperties DEF splitSteps, PlainSep
<1>2. /\ W[0] = [nodes |-> <<>>, begin |-> 0]
      /\ \A k \in 1..n : W[k] = cut(s, p, W[k - 1], k)
  BY DEF cuts
<1>3. \A k \in 0..n : N(k) \in Seq(Seq(C)) /\ B(k) \in Nat /\ Len(N(k)) \in Nat
  <2>1. \A k \in 0..n : N(k) \in Seq(Seq(C)) /\ B(k) \in Nat  OBVIOUS
  <2> QED BY <2>1, LenProperties
<1>4. \A k \in 1..n : /\ k \in 0..n /\ k - 1 \in 0..n /\ k - 1 \in 0..(Len(s) - Len(p)) /\ k - 1 \in Nat
                      /\ k - 1 \in 0..Len(s) /\ (k - 1) + Len(p) \in 0..Len(s)
  BY <1>1
<1> HIDE DEF n
<1>5. 0 \in G
  <2>1. W[0].nodes = <<>> /\ W[0].begin = 0 /\ Len(W[0].nodes) = 0 /\ 0 \in 0..n  BY <1>1, <1>2
  <2> QED BY <1>1, <2>1
<1>6. ASSUME NEW k \in 1..n, Started(k - 1), isAt(s, p, k - 1)
      PROVE  B(k - 1) <= k - 1
  <2>1. CASE B(k - 1) = 0  BY <1>4, <2>1
  <2>2. CASE B(k - 1) # 0
    <3>1. B(k - 1) - Len(p) \in 0..(k - 1 - 1) /\ isAt(s, p, B(k - 1) - Len(p))  BY <1>6, <2>2
    <3>2. B(k - 1) \in Nat  BY <1>3, <1>4
    <3> DEFINE b == B(k - 1) - Len(p)
    <3>3. b \in Nat /\ b < k - 1 /\ isAt(s, p, b)  BY <1>4, <3>1
    <3>4. b + Len(p) = B(k - 1)  BY <1>1, <3>2
    <3> HIDE DEF b
    <3>5. b + Len(p) <= k - 1  BY <1>4, <1>6, <3>3, Apart
    <3> QED BY <3>4, <3>5
  <2> QED BY <2>1, <2>2
<1>7. ASSUME NEW k \in 1..n, ~isAt(s, p, k - 1) PROVE W[k] = W[k - 1]
  <2>1. Text!substr(s, k - 1, Len(p)) # p  BY <1>4, <1>7, SubstrIs
  <2>2. W[k] = cut(s, p, W[k - 1], k)  BY <1>2
  <2> QED BY <2>1, <2>2 DEF cut
<1>8. ASSUME NEW k \in 1..n, Started(k - 1), isAt(s, p, k - 1)
      PROVE  /\ N(k) = Append(N(k - 1), piece(s, B(k - 1), k - 1))
             /\ B(k) = (k - 1) + Len(p)
  <2>1. Text!substr(s, k - 1, Len(p)) = p  BY <1>4, <1>8, SubstrIs
  <2>2. W[k] = cut(s, p, W[k - 1], k)  BY <1>2
  <2>3. ~(k - 1 < B(k - 1)) /\ B(k - 1) + (k - 1 - B(k - 1)) = k - 1
    <3>1. B(k - 1) <= k - 1
      <4> HIDE DEF Started
      <4> QED BY <1>6, <1>8
    <3> QED BY <1>3, <1>4, <3>1
  <2>4. Text!node(s, B(k - 1), k - 1) = piece(s, B(k - 1), k - 1)
    BY <2>3 DEF Text!node, Text!substr, piece
  <2>5. W[k] = [nodes |-> Append(N(k - 1), piece(s, B(k - 1), k - 1)), begin |-> (k - 1) + Len(p)]
    BY <2>1, <2>2, <2>4 DEF cut, Text!nextNode
  <2> QED BY <2>5
<1>9. ASSUME NEW k \in 1..n, k - 1 \in G PROVE k \in G
  <2>1. /\ Started(k - 1) /\ Clear(k - 1) /\ Joined(k - 1) /\ Free(k - 1) /\ k \in 0..n
        /\ 0..(k - 1 - 1) \subseteq 0..(k - 1)
    <3> HIDE DEF Started, Clear, Joined, Free
    <3> QED BY <1>4, <1>9
  <2>2. CASE isAt(s, p, k - 1)
    <3> DEFINE b == B(k - 1)
               nodes1 == N(k - 1)
               x == piece(s, b, k - 1)
    <3>1. /\ N(k) = Append(nodes1, x) /\ B(k) = (k - 1) + Len(p)
          /\ b <= k - 1
      <4> HIDE DEF Started
      <4> QED BY <1>6, <1>8, <2>1, <2>2
    <3>2. b \in 0..(k - 1) /\ k - 1 \in 0..Len(s)  BY <1>3, <1>4, <3>1
    <3>3. x \in Seq(C) /\ Len(x) = (k - 1) - b  BY <3>2, PieceTyped
    <3>4. nodes1 \in Seq(Seq(C)) /\ Len(nodes1) \in Nat  BY <1>3, <1>4
    <3>5. p = piece(s, k - 1, (k - 1) + Len(p))
      <4>1. Text!substr(s, k - 1, Len(p)) = p  BY <1>4, <2>2, SubstrIs
      <4> QED BY <4>1 DEF Text!substr, piece
    <3>6. Started(k)
      <4>1. B(k) - Len(p) = k - 1 /\ B(k) \in 0..Len(s) /\ k - 1 \in 0..(k - 1)  BY <1>1, <1>4, <3>1
      <4> QED BY <2>2, <4>1
    <3>7. Clear(k)
      <4>1. B(k)..(k - 1) = {}  BY <1>1, <1>4, <3>1
      <4> QED BY <4>1
    <3>8. ~Text!contains(x, p)
      <4>1. ASSUME NEW m \in 0..(Len(x) - Len(p)), Text!substr(x, m, Len(p)) = p
            PROVE  FALSE
        <5>1. m \in 0..((k - 1) - b - Len(p)) /\ Text!substr(SubSeq(s, b + 1, k - 1), m, Len(p)) = p
          BY <3>3, <4>1 DEF piece
        <5>2. isAt(s, p, b + m)
          <6> HIDE DEF b, x
          <6> QED BY <3>2, <5>1, Inside
        <5>3. b + m \in b..(k - 1 - 1)
          <6>1. k - 1 \in Nat  BY <1>4
          <6> HIDE DEF b, x
          <6>2. b \in 0..(k - 1) /\ m \in 0..((k - 1) - b - Len(p))  BY <3>2, <5>1
          <6> QED BY <1>1, <6>1, <6>2
        <5> QED BY <2>1, <5>2, <5>3
      <4> HIDE DEF x
      <4> QED BY <4>1 DEF Text!contains
    <3> HIDE DEF x
    <3>9. Free(k)
      <4>1. Len(N(k)) = Len(nodes1) + 1 /\ N(k)[Len(nodes1) + 1] = x
            /\ \A j \in 1..Len(nodes1) : N(k)[j] = nodes1[j]
        BY <3>1, <3>3, <3>4, AppendProperties
      <4>2. ASSUME NEW j \in 1..(Len(nodes1) + 1) PROVE ~Text!contains(N(k)[j], p)
        <5>1. CASE j = Len(nodes1) + 1  BY <3>8, <4>1, <5>1
        <5>2. CASE j \in 1..Len(nodes1)  BY <2>1, <4>1, <5>2
        <5>3. Len(nodes1) \in Nat  BY <3>4
        <5> HIDE DEF nodes1
        <5> QED BY <5>1, <5>2, <5>3
      <4> QED BY <4>1, <4>2
    <3>10. Joined(k)
      <4>1. N(k) # <<>>
        <5>1. Len(N(k)) = Len(nodes1) + 1  BY <3>1, <3>3, <3>4, AppendProperties
        <5> QED BY <3>4, <5>1
      <4>2. Text!join(N(k), p) = piece(s, 0, k - 1)
        <5>1. CASE nodes1 = <<>>
          <6>1. b = 0  BY <2>1, <5>1
          <6>2. N(k) = <<x>>  BY <3>1, <5>1
          <6>3. Text!join(<<x>>, p) = x  BY <3>3, JoinOne
          <6> QED BY <6>1, <6>2, <6>3 DEF x
        <5>2. CASE nodes1 # <<>>
          <6>1. Text!join(N(k), p) = cat(cat(Text!join(nodes1, p), p), x)
            <7> HIDE DEF nodes1
            <7> QED BY <3>1, <3>3, <3>4, <5>2, JoinAppend
          <6>2. cat(Text!join(nodes1, p), p) = piece(s, 0, b)  BY <2>1, <5>2
          <6>3. cat(piece(s, 0, b), piece(s, b, k - 1)) = piece(s, 0, k - 1)
            <7>1. 0 \in 0..b  BY <3>2
            <7> HIDE DEF b
            <7> QED BY <3>2, <7>1, Pieces
          <6> QED BY <6>1, <6>2, <6>3 DEF x
        <5> QED BY <5>1, <5>2
      <4>3. cat(piece(s, 0, k - 1), piece(s, k - 1, (k - 1) + Len(p))) = piece(s, 0, (k - 1) + Len(p))
        <5>1. k - 1 \in 0..((k - 1) + Len(p)) /\ 0 \in 0..(k - 1) /\ (k - 1) + Len(p) \in 0..Len(s)
          BY <1>1, <1>4
        <5> DEFINE e == (k - 1) + Len(p)
                   q == k - 1
        <5> HIDE DEF e, q
        <5>2. q \in 0..e /\ 0 \in 0..q /\ e \in 0..Len(s)  BY <5>1 DEF e, q
        <5>3. cat(piece(s, 0, q), piece(s, q, e)) = piece(s, 0, e)  BY <5>2, Pieces
        <5> QED BY <5>3 DEF e, q
      <4>4. cat(Text!join(N(k), p), p) = piece(s, 0, B(k))
        BY Zenon, <3>1, <3>5, <4>2, <4>3
      <4> QED BY <4>1, <4>4
    <3> HIDE DEF Started, Clear, Joined, Free
    <3> QED BY <2>1, <3>6, <3>7, <3>9, <3>10
  <2>3. CASE ~isAt(s, p, k - 1)
    <3>1. W[k] = W[k - 1]  BY <1>7, <2>3
    <3>2. Started(k)  BY <2>1, <3>1
    <3>3. Clear(k)
      <4>1. ASSUME NEW m \in B(k)..(k - 1) PROVE ~isAt(s, p, m)
        <5>1. m = k - 1 \/ m \in B(k - 1)..(k - 1 - 1)  BY <1>3, <1>4, <3>1
        <5> QED BY <2>1, <2>3, <5>1
      <4> QED BY <4>1
    <3>4. Joined(k) /\ Free(k)  BY <2>1, <3>1
    <3> HIDE DEF Started, Clear, Joined, Free
    <3> QED BY <2>1, <3>2, <3>3, <3>4
  <2> QED BY <2>2, <2>3
<1>10. G = 0..n
  <2>1. G \in SUBSET (0..n)  OBVIOUS
  <2> HIDE DEF G
  <2> QED BY <1>1, <1>5, <1>9, <2>1, Induct
<1>11. \A k \in 0..n : Started(k) /\ Clear(k) /\ Joined(k) /\ Free(k)
  <2> HIDE DEF Started, Clear, Joined, Free
  <2> QED BY <1>10
<1>12. ASSUME NEW k \in 1..n
       PROVE  Len(W[k].nodes) = Len(W[k - 1].nodes) + (IF isAt(s, p, k - 1) THEN 1 ELSE 0)
  <2>1. Started(k - 1) /\ N(k - 1) \in Seq(Seq(C)) /\ B(k - 1) \in Nat /\ Len(N(k - 1)) \in Nat
    <3> HIDE DEF Started, Clear, Joined, Free
    <3> QED BY <1>3, <1>4, <1>11
  <2>2. CASE isAt(s, p, k - 1)
    <3>1. N(k) = Append(N(k - 1), piece(s, B(k - 1), k - 1)) /\ B(k - 1) <= k - 1
      <4> HIDE DEF Started
      <4> QED BY <1>6, <1>8, <2>1, <2>2
    <3>2. piece(s, B(k - 1), k - 1) \in Seq(C)
      <4>1. k - 1 \in 0..Len(s) /\ B(k - 1) \in 0..(k - 1)  BY <1>4, <2>1, <3>1
      <4> QED BY <4>1, PieceTyped
    <3>3. Len(N(k)) = Len(N(k - 1)) + 1  BY <2>1, <3>1, <3>2, AppendProperties
    <3> QED BY <2>2, <3>3
  <2>3. CASE ~isAt(s, p, k - 1)
    <3>1. W[k] = W[k - 1]  BY <1>7, <2>3
    <3> QED BY <2>1, <2>3, <3>1
  <2> QED BY <2>2, <2>3
<1>13. n \in 0..n  BY <1>1
<1>14. Started(n) /\ Clear(n) /\ Joined(n) /\ Free(n)
  <2> HIDE DEF Started, Clear, Joined, Free
  <2> QED BY <1>11, <1>13
<1>15. splitGrows(s, p, W)  BY <1>12 DEF splitGrows, n
<1> QED BY <1>14, <1>15 DEF n

-----------------------------------------------------------------------------
(***************************************************************************)
(* Strings: what TextSound says of a text and a separator that does not    *)
(* overlap itself.                                                         *)
(***************************************************************************)

\* The nodes of a list joined are the text, and no separator is left in them.
LEMMA ListSound ==
  ASSUME NEW C, NEW s \in Seq(C), NEW p \in Seq(C), PlainSep(p)
  PROVE  LET list == Text!splitToList(s, p)
         IN /\ list \in Seq(Seq(C)) /\ list # <<>>
            /\ Text!join(list, p) = s
            /\ \A k \in DOMAIN list : ~Text!inMiddle(list[k], p)
            /\ \A k \in 1..(Len(list) - 1) : ~Text!contains(list[k], p)
<1> DEFINE list == Text!splitToList(s, p)
<1>1. PICK W \in [0..splitSteps(s, p) -> [nodes : Seq(Seq(C)), begin : Nat]] : cuts(s, p, W)
  BY SplitWalkIs
<1> DEFINE n == splitSteps(s, p)
           nodes == W[n].nodes
           b == W[n].begin
           x == piece(s, b, Len(s))
<1>2. /\ b \in 0..Len(s)
      /\ \A m \in b..(n - 1) : ~isAt(s, p, m)
      /\ IF nodes = <<>> THEN b = 0 ELSE cat(Text!join(nodes, p), p) = piece(s, 0, b)
      /\ \A j \in 1..Len(nodes) : ~Text!contains(nodes[j], p)
  BY <1>1, SplitWalk
<1>3. /\ Len(s) \in Nat /\ Len(p) \in Nat /\ n \in Nat /\ n \in 0..n
      /\ \A i \in 0..(Len(s) - Len(p) - 1) : i \in 0..(n - 1)
  BY LenProperties DEF splitSteps
<1>4. nodes \in Seq(Seq(C)) /\ Len(nodes) \in Nat
  <2>1. nodes \in Seq(Seq(C))  BY <1>3
  <2> QED BY <2>1, LenProperties
<1>5. list = Append(nodes, x)
  BY <1>1 DEF Text!splitToList, cuts, Text!from, piece
<1> HIDE DEF list, n
<1>6. Len(s) \in 0..Len(s) /\ b \in 0..Len(s)  BY <1>2, <1>3
<1>7. x \in Seq(C) /\ Len(x) = Len(s) - b
  <2> HIDE DEF b
  <2> QED BY <1>6, PieceTyped
<1> HIDE DEF b, x, nodes
<1>8. /\ list \in Seq(Seq(C)) /\ Len(list) = Len(nodes) + 1 /\ list[Len(nodes) + 1] = x
      /\ \A j \in 1..Len(nodes) : list[j] = nodes[j]
      /\ DOMAIN list = 1..(Len(nodes) + 1)
  BY <1>4, <1>5, <1>7, AppendProperties
<1>9. Text!join(list, p) = s
  <2>1. CASE nodes = <<>>
    <3>1. list = <<x>> /\ b = 0  BY <1>2, <1>5, <2>1
    <3>2. x = s  BY <3>1, PieceAll DEF x
    <3> QED BY <1>7, <3>1, <3>2, JoinOne
  <2>2. CASE nodes # <<>>
    <3>1. Text!join(list, p) = cat(cat(Text!join(nodes, p), p), x)
      BY <1>4, <1>5, <1>7, <2>2, JoinAppend
    <3>2. cat(Text!join(nodes, p), p) = piece(s, 0, b)  BY <1>2, <2>2
    <3>3. cat(piece(s, 0, b), piece(s, b, Len(s))) = piece(s, 0, Len(s))
      <4>1. 0 \in 0..b  BY <1>6
      <4> QED BY <1>6, <4>1, Pieces
    <3> QED BY <3>1, <3>2, <3>3, PieceAll DEF x
  <2> QED BY <2>1, <2>2
<1>10. ~Text!inMiddle(x, p)
  <2>1. ASSUME NEW m \in 0..(Len(x) - Len(p) - 1), Text!substr(x, m, Len(p)) = p
        PROVE  FALSE
    <3>1. m \in 0..(Len(s) - b - Len(p)) /\ Text!substr(SubSeq(s, b + 1, Len(s)), m, Len(p)) = p
      BY <1>3, <1>6, <1>7, <2>1 DEF x, piece
    <3>2. isAt(s, p, b + m)  BY <1>6, <3>1, Inside
    <3>3. b + m \in b..(n - 1)
      <4>1. b + m \in 0..(Len(s) - Len(p) - 1) /\ b <= b + m /\ b \in Nat  BY <1>3, <1>6, <1>7, <2>1
      <4>2. b + m \in 0..(n - 1)  BY <1>3, <4>1
      <4> QED BY <1>3, <4>1, <4>2
    <3> QED BY <1>2, <3>2, <3>3
  <2> QED BY <2>1 DEF Text!inMiddle
<1>11. ASSUME NEW y \in Seq(C), Text!inMiddle(y, p) PROVE Text!contains(y, p)
  <2>1. PICK m \in 0..(Len(y) - Len(p) - 1) : Text!substr(y, m, Len(p)) = p
    BY <1>11 DEF Text!inMiddle
  <2>2. Len(y) \in Nat  BY LenProperties
  <2>3. m \in 0..(Len(y) - Len(p))  BY <1>3, <2>2
  <2> QED BY <2>1, <2>3 DEF Text!contains
<1>12. ASSUME NEW j \in 1..Len(nodes) PROVE ~Text!contains(list[j], p) /\ ~Text!inMiddle(list[j], p)
  <2>1. nodes[j] \in Seq(C)  BY <1>4, ElementOfSeq
  <2>2. ~Text!contains(nodes[j], p)  BY <1>2
  <2> QED BY <1>8, <1>11, <2>1, <2>2
<1>13. \A k \in DOMAIN list : ~Text!inMiddle(list[k], p)
  <2>1. ASSUME NEW k \in 1..(Len(nodes) + 1) PROVE ~Text!inMiddle(list[k], p)
    <3>1. k = Len(nodes) + 1 \/ k \in 1..Len(nodes)  BY <1>4
    <3> QED BY <1>8, <1>10, <1>12, <3>1
  <2> QED BY <1>8, <2>1
<1>14. \A k \in 1..(Len(list) - 1) : ~Text!contains(list[k], p)
  <2>1. Len(list) - 1 = Len(nodes)  BY <1>4, <1>8
  <2> QED BY <1>12, <2>1
<1>15. list # <<>>  BY <1>4, <1>8
<1> QED BY <1>8, <1>9, <1>13, <1>14, <1>15 DEF list

\* The vector has a separator more at an end where the text has one.
LEMMA VectorSound ==
  ASSUME NEW C, NEW s \in Seq(C), NEW p \in Seq(C), PlainSep(p)
  PROVE  LET vector == Text!splitToVector(s, p)
         IN /\ vector \in Seq(Seq(C)) /\ vector # <<>>
            /\ Text!join(vector, p) = (IF Text!hasPrefix(s, p) THEN p ELSE <<>>) \o s
                                        \o (IF Text!hasSuffix(s, p) THEN p ELSE <<>>)
<1> DEFINE list == Text!splitToList(s, p)
           vector == Text!splitToVector(s, p)
           behind == IF Text!hasSuffix(s, p) THEN <<<<>>>> ELSE <<>>
           before == IF Text!hasPrefix(s, p) THEN <<<<>>>> ELSE <<>>
<1>1. list \in Seq(Seq(C)) /\ list # <<>> /\ Text!join(list, p) = s  BY ListSound
<1>2. <<>> \in Seq(C) /\ <<>> \in Seq(Seq(C)) /\ <<<<>>>> \in Seq(Seq(C)) /\ <<<<>>>> # <<>>
  <2>1. <<>> \in Seq(C) /\ <<>> \in Seq(Seq(C))  BY EmptySeq
  <2> QED BY <2>1
<1>3. vector = (before \o list) \o behind  BY DEF Text!splitToVector
<1> HIDE DEF list, vector
<1>4. PICK front \in Seq(Seq(C)) : /\ front = before \o list /\ front # <<>>
                                   /\ Text!join(front, p) = cat(IF Text!hasPrefix(s, p) THEN p ELSE <<>>, s)
  <2>1. CASE Text!hasPrefix(s, p)
    <3>1. before \o list = <<<<>>>> \o list  BY <2>1
    <3>2. <<<<>>>> \o list \in Seq(Seq(C)) /\ <<<<>>>> \o list # <<>>
      BY <1>1, <1>2, ConcatProperties
    <3>3. Text!join(<<<<>>>> \o list, p) = cat(cat(<<>>, p), Text!join(list, p))
      <4>1. PICK e \in Seq(C) : e = <<>>  BY <1>2
      <4>2. Text!join(<<e>> \o list, p) = cat(cat(e, p), Text!join(list, p))
        BY <1>1, JoinBefore
      <4> QED BY <4>1, <4>2
    <3>4. cat(<<>>, p) = p  BY Cat
    <3> QED BY <1>1, <2>1, <3>1, <3>2, <3>3, <3>4
  <2>2. CASE ~Text!hasPrefix(s, p)
    <3>1. before \o list = list  BY <1>1, <2>2, ConcatEmptySeq
    <3>2. cat(<<>>, s) = s  BY Cat
    <3> QED BY <1>1, <2>2, <3>1, <3>2
  <2> QED BY <2>1, <2>2
<1>5. /\ vector \in Seq(Seq(C)) /\ vector # <<>>
      /\ Text!join(vector, p) = cat(cat(IF Text!hasPrefix(s, p) THEN p ELSE <<>>, s),
                                    IF Text!hasSuffix(s, p) THEN p ELSE <<>>)
  <2>1. CASE Text!hasSuffix(s, p)
    <3>1. vector = front \o <<<<>>>>  BY <1>3, <1>4, <2>1
    <3>2. PICK e \in Seq(C) : e = <<>>  BY <1>2
    <3>3. vector = Append(front, e)  BY <1>4, <3>1, <3>2, AppendIsConcat
    <3>4. vector \in Seq(Seq(C)) /\ Len(vector) = Len(front) + 1 /\ Len(front) \in Nat
      BY <1>4, <3>3, AppendProperties, LenProperties
    <3>5. Text!join(vector, p) = cat(cat(Text!join(front, p), p), e)
      BY <1>4, <3>3, JoinAppend
    <3>6. cat(cat(Text!join(front, p), p), e) = cat(Text!join(front, p), p)
      <4>1. Text!join(front, p) \in Seq(C)  BY <1>4, JoinTyped
      <4>2. cat(Text!join(front, p), p) \in Seq(C)  BY <4>1, CatTyped
      <4> QED BY <3>2, <4>2, Cat
    <3>7. vector # <<>>  BY <3>4
    <3> QED BY <1>4, <2>1, <3>4, <3>5, <3>6, <3>7
  <2>2. CASE ~Text!hasSuffix(s, p)
    <3>1. vector = front  BY <1>3, <1>4, <2>2, ConcatEmptySeq
    <3>2. Text!join(front, p) \in Seq(C)  BY <1>4, JoinTyped
    <3>3. cat(Text!join(front, p), <<>>) = Text!join(front, p)  BY <3>2, Cat
    <3> QED BY <1>4, <2>2, <3>1, <3>3
  <2> QED BY <2>1, <2>2
<1> QED BY <1>5 DEF vector, cat

\* A section is nodes of the vector joined.
LEMMA SectionSound ==
  ASSUME NEW C, NEW s \in Seq(C), NEW p \in Seq(C), PlainSep(p), s # <<>>
  PROVE  LET vector == Text!splitToVector(s, p)
         IN \A from_, last_ \in DOMAIN vector : from_ <= last_ =>
              Text!section(s, p, from_ - 1, last_ - 1) = Text!join(SubSeq(vector, from_, last_), p)
<1> DEFINE vector == Text!splitToVector(s, p)
<1>1. vector \in Seq(Seq(C)) /\ Len(vector) \in Nat /\ DOMAIN vector = 1..Len(vector)
  BY VectorSound, LenProperties
<1> HIDE DEF vector
<1>2. ASSUME NEW i \in 1..Len(vector), NEW j \in 1..Len(vector), i <= j
      PROVE  Text!section(s, p, i - 1, j - 1) = Text!join(SubSeq(vector, i, j), p)
  <2>1. /\ ~(i - 1 > j - 1) /\ ~(i - 1 < 0) /\ ~(j - 1 < 0) /\ i - 1 # -1 /\ ~(j - 1 >= Len(vector))
        /\ (i - 1) + 1 = i /\ (j - 1) + 1 = j
    BY <1>1, <1>2
  <2>2. CASE i - 1 = 0 /\ j - 1 = 0
    <3>1. i = 1 /\ j = 1  BY <1>1, <2>2
    <3>3. vector[1] \in Seq(C) /\ 1 \in 1..Len(vector)  BY <1>1, <3>1, ElementOfSeq
    <3>2. SubSeq(vector, 1, 1) = <<vector[1]>>
      <4>1. /\ SubSeq(vector, 1, 1) \in Seq(Seq(C)) /\ Len(SubSeq(vector, 1, 1)) = 1
            /\ SubSeq(vector, 1, 1)[1] = vector[1]
        BY <1>1, <3>3, SubSeqProperties
      <4>2. /\ <<vector[1]>> \in Seq(Seq(C)) /\ Len(<<vector[1]>>) = 1
            /\ <<vector[1]>>[1] = vector[1]
        BY <3>3
      <4> DEFINE a == SubSeq(vector, 1, 1)
                 b == <<vector[1]>>
      <4>3. \A i_ \in 1..Len(a) : a[i_] = b[i_]  BY <4>1, <4>2
      <4> HIDE DEF a, b
      <4>4. a \in Seq(Seq(C)) /\ b \in Seq(Seq(C)) /\ Len(a) = Len(b)  BY <4>1, <4>2 DEF a, b
      <4>5. a = b  BY <4>3, <4>4, SeqEqual
      <4> QED BY <4>5 DEF a, b
    <3>4. Text!join(<<vector[1]>>, p) = vector[1]  BY <3>3, JoinOne
    <3>5. Text!section(s, p, i - 1, j - 1) = vector[1]
      BY <2>1, <2>2 DEF Text!section, PlainSep, vector
    <3> QED BY <3>1, <3>2, <3>4, <3>5
  <2>3. CASE ~(i - 1 = 0 /\ j - 1 = 0)
    BY Zenon, <2>1, <2>3 DEF Text!section, PlainSep, vector
  <2> QED BY <2>2, <2>3
<1> QED BY <1>1, <1>2 DEF vector

\* Two strictly ascending sequences of the same numbers are the same.
LEMMA AscendingEqual ==
  ASSUME NEW a \in Seq(Nat), NEW b \in Seq(Nat),
         \A i, j \in 1..Len(a) : i < j => a[i] < a[j],
         \A i, j \in 1..Len(b) : i < j => b[i] < b[j],
         \A i \in 1..Len(a) : \E j \in 1..Len(b) : a[i] = b[j],
         \A j \in 1..Len(b) : \E i \in 1..Len(a) : a[i] = b[j]
  PROVE  a = b
<1>1. /\ Len(a) \in Nat /\ Len(b) \in Nat
      /\ \A i \in 1..Len(a) : a[i] \in Nat
      /\ \A i \in 1..Len(b) : b[i] \in Nat
  BY LenProperties, ElementOfSeq
<1> DEFINE la == Len(a)
           lb == Len(b)
           bad == {k \in 0..la : k \in 1..la /\ k \in 1..lb /\ a[k] # b[k]}
<1> HIDE DEF la, lb
<1>n. la \in Nat /\ lb \in Nat /\ (\A i \in 1..la : a[i] \in Nat) /\ (\A i \in 1..lb : b[i] \in Nat)
  BY <1>1 DEF la, lb
<1>2. bad = {}
  <2> SUFFICES ASSUME bad # {} PROVE FALSE
    OBVIOUS
  <2>1. PICK k \in bad : \A m \in bad : k <= m
    <3>1. bad \in SUBSET (0..la) /\ la \in Nat  BY <1>1 DEF la
    <3> HIDE DEF bad
    <3> QED BY <3>1, Least
  <2>2. k \in 1..la /\ k \in 1..lb /\ a[k] # b[k]  OBVIOUS
  <2>3. \A m \in 1..la : m \in 1..lb /\ m < k => a[m] = b[m]
    <3>1. \A m \in 1..la : m < k => ~(k <= m) /\ m \in 0..la  BY <1>1, <2>2 DEF la
    <3> QED BY <2>1, <3>1
  <2>4. CASE a[k] < b[k]
    <3>1. PICK j \in 1..lb : a[k] = b[j]  BY <2>2 DEF la, lb
    <3>2. j < k
      <4>1. ~(k < j)
        <5>1. k < j => b[k] < b[j]  BY <2>2 DEF lb
        <5>2. b[k] \in Nat /\ b[j] \in Nat  BY <1>1, <2>2 DEF lb
        <5> QED BY <2>4, <3>1, <5>1, <5>2
      <4>2. j # k  BY <2>2, <3>1
      <4> QED BY <1>1, <2>2, <4>1, <4>2 DEF la, lb
    <3>3. j \in 1..la  BY <1>1, <2>2, <3>2 DEF la, lb
    <3>4. a[j] = a[k] /\ a[j] < a[k]  BY <2>2, <2>3, <3>1, <3>2, <3>3 DEF la
    <3>5. a[k] \in Nat  BY <1>n, <2>2
    <3> QED BY <3>4, <3>5
  <2>5. CASE b[k] < a[k]
    <3>1. PICK i \in 1..la : a[i] = b[k]  BY <2>2 DEF la, lb
    <3>2. i < k
      <4>1. ~(k < i)
        <5>1. k < i => a[k] < a[i]  BY <2>2 DEF la
        <5>2. a[k] \in Nat /\ a[i] \in Nat  BY <1>1, <2>2 DEF la
        <5> QED BY <2>5, <3>1, <5>1, <5>2
      <4>2. i # k  BY <2>2, <3>1
      <4> QED BY <1>1, <2>2, <4>1, <4>2 DEF la, lb
    <3>3. i \in 1..lb  BY <1>1, <2>2, <3>2 DEF la, lb
    <3>4. b[i] = b[k] /\ b[i] < b[k]  BY <2>2, <2>3, <3>1, <3>2, <3>3 DEF lb
    <3>5. b[k] \in Nat  BY <1>n, <2>2
    <3> QED BY <3>4, <3>5
  <2>6. a[k] \in Nat /\ b[k] \in Nat  BY <1>1, <2>2 DEF la, lb
  <2> QED BY <2>2, <2>4, <2>5, <2>6
<1>3. \A k \in 1..la : k \in 1..lb => a[k] = b[k]
  <2>1. \A k \in 1..la : k \in 0..la  BY <1>1 DEF la
  <2> QED BY <1>2, <2>1
<1>4. ~(la < lb)
  <2> SUFFICES ASSUME la < lb PROVE FALSE
    OBVIOUS
  <2>1. la + 1 \in 1..lb  BY <1>1 DEF la, lb
  <2>2. PICK i \in 1..la : a[i] = b[la + 1]  BY <2>1 DEF la, lb
  <2>3. i \in 1..lb /\ i < la + 1  BY <1>n
  <2>4. b[i] < b[la + 1] /\ a[i] = b[i]  BY <1>3, <2>1, <2>3 DEF lb
  <2>5. b[la + 1] \in Nat  BY <1>n, <2>1
  <2> QED BY <2>2, <2>4, <2>5
<1>5. ~(lb < la)
  <2> SUFFICES ASSUME lb < la PROVE FALSE
    OBVIOUS
  <2>1. lb + 1 \in 1..la  BY <1>1 DEF la, lb
  <2>2. PICK j \in 1..lb : a[lb + 1] = b[j]  BY <2>1 DEF la, lb
  <2>3. j \in 1..la /\ j < lb + 1  BY <1>n
  <2>4. a[j] < a[lb + 1] /\ a[j] = b[j]  BY <1>3, <2>1, <2>3 DEF la
  <2>5. a[lb + 1] \in Nat  BY <1>n, <2>1
  <2> QED BY <2>2, <2>4, <2>5
<1>6. la = lb  BY <1>1, <1>4, <1>5 DEF la, lb
<1> QED BY <1>3, <1>6, SeqEqual DEF la, lb

\* The positions found are those of the separators, in order.
LEMMA FoundSound ==
  ASSUME NEW C, NEW s \in Seq(C), NEW p \in Seq(C), PlainSep(p)
  PROVE  LET found == Text!indexVector(s, p)
         IN /\ found \in Seq(Nat) /\ Len(found) \in Nat /\ DOMAIN found = 1..Len(found)
            /\ \A j \in 1..Len(found) : found[j] \in 0..(Len(s) - Len(p)) /\ isAt(s, p, found[j])
            /\ \A pos \in 0..(Len(s) - Len(p)) : isAt(s, p, pos) => \E j \in 1..Len(found) : found[j] = pos
            /\ \A i, j \in 1..Len(found) : i < j => found[i] < found[j]
<1> DEFINE found == Text!indexVector(s, p)
<1>1. Len(s) \in Nat /\ Len(p) \in Nat \ {0} /\ p # <<>>
  BY LenProperties DEF PlainSep
<1>2. CASE s = <<>>
  <2>1. found = <<>> /\ Len(s) = 0  BY <1>2 DEF Text!indexVector
  <2>2. found \in Seq(Nat) /\ Len(found) = 0  BY <2>1, EmptySeq
  <2>3. 0..(Len(s) - Len(p)) = {} /\ 1..0 = {}  BY <1>1, <2>1
  <2> HIDE DEF found
  <2>4. DOMAIN found = 1..Len(found)  BY <2>2, LenProperties
  <2>5. 1..Len(found) = {} /\ Len(found) \in Nat  BY <2>2, <2>3
  <2>6. \A pos \in 0..(Len(s) - Len(p)) : FALSE  BY <2>3
  <2> QED BY Zenon, <2>2, <2>4, <2>5, <2>6 DEF found
<1>3. CASE s # <<>>
  <2> DEFINE n == indexSteps(s, p)
  <2>1. PICK V \in [0..indexSteps(s, p) -> [at : Seq(Nat), next : Nat]] : marks(s, p, V)
    BY <1>1, <1>3, IndexWalkIs
  <2>2. n \in Nat /\ n \in 0..n /\ 0..(n - 1) = 0..(Len(s) - Len(p))  BY <1>1 DEF indexSteps
  <2>3. found = V[n].at  BY <2>1 DEF marks
  <2>4. /\ \A j \in 1..Len(V[n].at) : V[n].at[j] \in 0..(n - 1) /\ isAt(s, p, V[n].at[j])
        /\ \A pos \in 0..(n - 1) : isAt(s, p, pos) => \E j \in 1..Len(V[n].at) : V[n].at[j] = pos
        /\ \A i, j \in 1..Len(V[n].at) : i < j => V[n].at[i] < V[n].at[j]
    <3>1. \A k \in 0..n :
              /\ \A j \in 1..Len(V[k].at) : V[k].at[j] \in 0..(k - 1) /\ isAt(s, p, V[k].at[j])
              /\ \A pos \in 0..(k - 1) : isAt(s, p, pos) => \E j \in 1..Len(V[k].at) : V[k].at[j] = pos
              /\ \A i, j \in 1..Len(V[k].at) : i < j => V[k].at[i] < V[k].at[j]
      BY <2>1, IndexWalk
    <3> HIDE DEF n
    <3> QED BY <2>2, <3>1
  <2>5. V[n].at \in Seq(Nat)
    <3> HIDE DEF n
    <3>1. V \in [0..n -> [at : Seq(Nat), next : Nat]]  BY <2>1 DEF n
    <3> QED BY <2>2, <3>1
  <2> HIDE DEF found, n
  <2>6. Len(found) \in Nat /\ DOMAIN found = 1..Len(found)  BY <2>3, <2>5, LenProperties
  <2> QED BY <2>2, <2>3, <2>4, <2>5, <2>6 DEF found
<1> QED BY <1>2, <1>3

\* Backwards.
LEMMA Backwards ==
  ASSUME NEW C, NEW s \in Seq(C)
  PROVE  /\ Text!Reverse(s) \in Seq(C) /\ Len(Text!Reverse(s)) = Len(s)
         /\ \A i \in 1..Len(s) : Text!Reverse(s)[i] = s[(Len(s) - i) + 1]
<1>1. Len(s) \in Nat  BY LenProperties
<1>2. \A i \in 1..Len(s) : s[(Len(s) - i) + 1] \in C
  <2>1. \A i \in 1..Len(s) : (Len(s) - i) + 1 \in 1..Len(s)  BY <1>1
  <2>2. \A j \in 1..Len(s) : s[j] \in C  BY ElementOfSeq
  <2> QED BY <2>1, <2>2
<1> DEFINE r == [i \in 1..Len(s) |-> s[(Len(s) - i) + 1]]
<1>3. r \in [1..Len(s) -> C]  BY <1>2
<1>4. r \in Seq(C) /\ Len(r) = Len(s)
  <2> HIDE DEF r
  <2> QED BY <1>1, <1>3, LenProperties
<1> QED BY <1>4 DEF Text!Reverse

\* Backwards: where a separator is, and that it does not overlap itself.
LEMMA BackwardsAt ==
  ASSUME NEW C, NEW s \in Seq(C), NEW p \in Seq(C), NEW pos \in 0..(Len(s) - Len(p))
  PROVE  isAt(Text!Reverse(s), Text!Reverse(p), pos) <=> isAt(s, p, Len(s) - Len(p) - pos)
<1> DEFINE rs == Text!Reverse(s)
           rp == Text!Reverse(p)
           ls == Len(s)
           lp == Len(p)
<1>1. /\ ls \in Nat /\ lp \in Nat /\ Len(rp) = lp
      /\ \A i \in 1..ls : rs[i] = s[(ls - i) + 1]
      /\ \A i \in 1..lp : rp[i] = p[(lp - i) + 1]
  BY Backwards, LenProperties
<1>2. pos \in 0..(ls - lp)  OBVIOUS
<1> HIDE DEF rs, rp, ls, lp
<1>3. ASSUME NEW i \in 1..lp
      PROVE  /\ (lp - i) + 1 \in 1..lp /\ pos + i \in 1..ls
             /\ (ls - (pos + i)) + 1 = (ls - lp - pos) + ((lp - i) + 1)
             /\ lp - ((lp - i) + 1) + 1 = i
  BY <1>1, <1>2
<1>4. ASSUME isAt(rs, rp, pos), NEW i \in 1..lp PROVE s[(ls - lp - pos) + i] = p[i]
  <2> DEFINE j == (lp - i) + 1
  <2>1. j \in 1..lp /\ pos + j \in 1..ls /\ (ls - (pos + j)) + 1 = (ls - lp - pos) + i /\ (lp - j) + 1 = i
    BY <1>1, <1>2
  <2> HIDE DEF j
  <2>2. rs[pos + j] = rp[j]  BY <1>1, <1>4, <2>1 DEF isAt
  <2>3. rs[pos + j] = s[(ls - (pos + j)) + 1] /\ rp[j] = p[(lp - j) + 1]  BY <1>1, <2>1
  <2> QED BY <2>1, <2>2, <2>3
<1>5. ASSUME isAt(s, p, ls - lp - pos), NEW i \in 1..lp PROVE rs[pos + i] = rp[i]
  <2> DEFINE j == (lp - i) + 1
  <2>1. j \in 1..lp /\ pos + i \in 1..ls /\ (ls - (pos + i)) + 1 = (ls - lp - pos) + j
    BY <1>1, <1>2
  <2>2. rs[pos + i] = s[(ls - (pos + i)) + 1] /\ rp[i] = p[j]  BY <1>1, <2>1
  <2> HIDE DEF j
  <2>3. s[(ls - lp - pos) + j] = p[j]  BY <1>5, <2>1 DEF isAt, lp
  <2> QED BY <2>1, <2>2, <2>3
<1>6. isAt(rs, rp, pos) => isAt(s, p, ls - lp - pos)  BY <1>4 DEF isAt, lp
<1>7. isAt(s, p, ls - lp - pos) => isAt(rs, rp, pos)  BY <1>1, <1>5 DEF isAt
<1> QED BY <1>6, <1>7 DEF rs, rp, ls, lp

LEMMA BackwardsPlain ==
  ASSUME NEW C, NEW p \in Seq(C), PlainSep(p)
  PROVE  PlainSep(Text!Reverse(p))
<1> DEFINE rp == Text!Reverse(p)
           lp == Len(p)
<1>1. /\ lp \in Nat \ {0} /\ Len(rp) = lp /\ rp \in Seq(C)
      /\ \A i \in 1..lp : rp[i] = p[(lp - i) + 1]
  BY Backwards, LenProperties DEF PlainSep
<1>2. \A d \in 1..(lp - 1) : \E i \in 1..(lp - d) : p[d + i] # p[i]  BY DEF PlainSep
<1> HIDE DEF rp, lp
<1>3. ASSUME NEW d \in 1..(lp - 1) PROVE \E i \in 1..(lp - d) : rp[d + i] # rp[i]
  <2>1. PICK i \in 1..(lp - d) : p[d + i] # p[i]  BY <1>2
  <2> DEFINE j == (lp - d - i) + 1
  <2>2. j \in 1..(lp - d) /\ d + j \in 1..lp /\ j \in 1..lp
        /\ (lp - (d + j)) + 1 = i /\ (lp - j) + 1 = d + i
    BY <1>1
  <2> HIDE DEF j
  <2>3. rp[d + j] = p[i] /\ rp[j] = p[d + i]  BY <1>1, <2>2
  <2> QED BY <2>1, <2>2, <2>3
<1>4. rp # <<>>  BY <1>1
<1> QED BY <1>1, <1>3, <1>4 DEF PlainSep, rp

LEMMA SuffixIs ==
  ASSUME NEW C, NEW s \in Seq(C), NEW p \in Seq(C), PlainSep(p)
  PROVE  Text!hasSuffix(s, p) <=> Len(p) <= Len(s) /\ isAt(s, p, Len(s) - Len(p))
<1> DEFINE rs == Text!Reverse(s)
           rp == Text!Reverse(p)
<1>1. Len(s) \in Nat /\ Len(p) \in Nat \ {0} /\ p # <<>> /\ (s = <<>> => Len(s) = 0)
  BY LenProperties DEF PlainSep
<1>2. rs \in Seq(C) /\ rp \in Seq(C) /\ Len(rs) = Len(s) /\ Len(rp) = Len(p)  BY Backwards
<1>3. Text!IsSuffix(p, s) <=> Len(rp) <= Len(rs) /\ SubSeq(rp, 1, Len(rp)) = SubSeq(rs, 1, Len(rp))
  BY DEF Text!IsSuffix, Text!IsPrefix
<1> HIDE DEF rs, rp
<1>4. SubSeq(rp, 1, Len(rp)) = rp
  <2>1. piece(rp, 0, Len(rp)) = rp  BY <1>2, PieceAll
  <2> QED BY <2>1 DEF piece
<1>5. ASSUME Len(p) <= Len(s)
      PROVE  SubSeq(rs, 1, Len(rp)) = rp <=> isAt(s, p, Len(s) - Len(p))
  <2>1. 0 \in 0..(Len(s) - Len(p)) /\ 0 \in 0..(Len(rs) - Len(rp)) /\ (Len(s) - Len(p)) - 0 = Len(s) - Len(p)
    BY <1>1, <1>2, <1>5
  <2>2. Text!substr(rs, 0, Len(rp)) = rp <=> isAt(rs, rp, 0)  BY <1>2, <2>1, SubstrIs
  <2>3. Text!substr(rs, 0, Len(rp)) = SubSeq(rs, 1, Len(rp))  BY <1>1, <1>2 DEF Text!substr
  <2>4. isAt(rs, rp, 0) <=> isAt(s, p, Len(s) - Len(p) - 0)  BY <2>1, BackwardsAt DEF rs, rp
  <2> QED BY <2>1, <2>2, <2>3, <2>4
<1>6. Text!hasSuffix(s, p) <=> s # <<>> /\ Text!IsSuffix(p, s)  BY <1>1 DEF Text!hasSuffix
<1>7. Len(p) <= Len(s) => s # <<>>  BY <1>1
<1> QED BY <1>2, <1>3, <1>4, <1>5, <1>6, <1>7

\* A list has one node more than the text has separators before its end.
LEMMA ListLength ==
  ASSUME NEW C, NEW s \in Seq(C), NEW p \in Seq(C), PlainSep(p)
  PROVE  Len(Text!splitToList(s, p)) =
           Len(Text!indexVector(s, p)) + (IF Text!hasSuffix(s, p) THEN 0 ELSE 1)
<1> DEFINE n == splitSteps(s, p)
           m == indexSteps(s, p)
<1>1. PICK W \in [0..splitSteps(s, p) -> [nodes : Seq(Seq(C)), begin : Nat]] : cuts(s, p, W)
  BY SplitWalkIs
<1>2. /\ W[n].begin \in 0..Len(s)
      /\ \A k \in 1..n : Len(W[k].nodes) = Len(W[k - 1].nodes) + (IF isAt(s, p, k - 1) THEN 1 ELSE 0)
      /\ W[0].nodes = <<>>
      /\ Text!splitToList(s, p) = Append(W[n].nodes, piece(s, W[n].begin, Len(s)))
  <2>1. /\ W[n].begin \in 0..Len(s)
        /\ \A k \in 1..n : Len(W[k].nodes) = Len(W[k - 1].nodes) + (IF isAt(s, p, k - 1) THEN 1 ELSE 0)
    <3>1. W[n].begin \in 0..Len(s) /\ splitGrows(s, p, W)  BY <1>1, SplitWalk
    <3> QED BY <3>1 DEF splitGrows
  <2>2. W[0].nodes = <<>>  BY <1>1 DEF cuts
  <2>3. Text!splitToList(s, p) = Append(W[n].nodes, piece(s, W[n].begin, Len(s)))
    BY <1>1 DEF Text!splitToList, cuts, Text!from, piece
  <2> QED BY <2>1, <2>2, <2>3
<1>3. /\ Len(s) \in Nat /\ Len(p) \in Nat \ {0} /\ n \in Nat /\ n \in 0..n /\ Len(s) \in 0..Len(s)
      /\ (Len(s) >= Len(p) => n = Len(s) - Len(p) /\ m = n + 1)
      /\ (~(Len(s) >= Len(p)) => n = 0 /\ m = 0)
  BY LenProperties DEF splitSteps, indexSteps, PlainSep
<1>4. W[n].nodes \in Seq(Seq(C)) /\ Len(W[n].nodes) \in Nat /\ W \in [0..n -> [nodes : Seq(Seq(C)), begin : Nat]]
  <2>1. W \in [0..n -> [nodes : Seq(Seq(C)), begin : Nat]]  BY <1>1
  <2> HIDE DEF n
  <2>2. W[n].nodes \in Seq(Seq(C))  BY <1>3, <2>1
  <2> QED BY <2>1, <2>2, LenProperties
<1>5. Len(Text!splitToList(s, p)) = Len(W[n].nodes) + 1
  <2>1. piece(s, W[n].begin, Len(s)) \in Seq(C)
    <3> HIDE DEF n
    <3>1. PICK b \in 0..Len(s) : b = W[n].begin  BY <1>2
    <3>2. piece(s, b, Len(s)) \in Seq(C)  BY <1>3, <3>1, PieceTyped
    <3> QED BY <3>1, <3>2
  <2> HIDE DEF n
  <2> QED BY <1>2, <1>4, <2>1, AppendProperties
<1>6. CASE s = <<>>
  <2>1. Text!indexVector(s, p) = <<>> /\ Len(s) = 0  BY <1>6 DEF Text!indexVector
  <2>2. n = 0 /\ ~Text!hasSuffix(s, p)  BY <1>3, <1>6, <2>1 DEF Text!hasSuffix
  <2>3. Len(W[n].nodes) = 0 /\ Len(Text!indexVector(s, p)) = 0
    <3> HIDE DEF n
    <3> QED BY <1>2, <2>1, <2>2
  <2> QED BY <1>5, <2>2, <2>3
<1>7. CASE s # <<>>
  <2>1. PICK V \in [0..indexSteps(s, p) -> [at : Seq(Nat), next : Nat]] : marks(s, p, V)
    BY <1>3, <1>7, IndexWalkIs DEF PlainSep
  <2>2. /\ \A k \in 1..m : Len(V[k].at) = Len(V[k - 1].at) + (IF isAt(s, p, k - 1) THEN 1 ELSE 0)
        /\ V[0].at = <<>>
        /\ Text!indexVector(s, p) = V[m].at
    <3>1. indexGrows(s, p, V)  BY <2>1, IndexWalk
    <3>2. V[0].at = <<>> /\ Text!indexVector(s, p) = V[m].at  BY <2>1 DEF marks
    <3> QED BY <3>1, <3>2 DEF indexGrows
  <2> HIDE DEF n, m
  <2>3. \A k \in 0..n : Len(V[k].at) = Len(W[k].nodes)
    <3> DEFINE G == {k \in 0..n : Len(V[k].at) = Len(W[k].nodes)}
    <3>1. 0 \in G  BY <1>2, <1>3, <2>2
    <3>2. ASSUME NEW k \in 1..n, k - 1 \in G PROVE k \in G
      <4>1. k \in 1..m /\ k \in 0..n /\ Len(V[k - 1].at) = Len(W[k - 1].nodes)  BY <1>3, <3>2
      <4> QED BY <1>2, <2>2, <4>1
    <3>3. G = 0..n
      <4>1. G \in SUBSET (0..n)  OBVIOUS
      <4> HIDE DEF G
      <4> QED BY <1>3, <3>1, <3>2, <4>1, Induct
    <3> QED BY <3>3
  <2>4. Len(V[n].at) = Len(W[n].nodes)  BY <1>3, <2>3
  <2>5. CASE Len(s) >= Len(p)
    <3>1. n + 1 \in 1..m /\ (n + 1) - 1 = n  BY <1>3, <2>5
    <3>2. Len(V[m].at) = Len(V[n].at) + (IF isAt(s, p, n) THEN 1 ELSE 0)
      BY <1>3, <2>2, <2>5, <3>1
    <3>3. Text!hasSuffix(s, p) <=> isAt(s, p, n)  BY <1>3, <2>5, SuffixIs
    <3>4. Len(Text!indexVector(s, p)) = Len(W[n].nodes) + (IF Text!hasSuffix(s, p) THEN 1 ELSE 0)
      BY <2>2, <2>4, <3>2, <3>3
    <3>5. Len(W[n].nodes) \in Nat  BY <1>4
    <3>6. CASE Text!hasSuffix(s, p)
      <4>1. Len(Text!indexVector(s, p)) = Len(W[n].nodes) + 1  BY <3>4, <3>6
      <4> QED BY <1>5, <3>5, <3>6, <4>1
    <3>7. CASE ~Text!hasSuffix(s, p)
      <4>1. Len(Text!indexVector(s, p)) = Len(W[n].nodes)  BY <3>4, <3>5, <3>7
      <4> QED BY <1>5, <3>5, <3>7, <4>1
    <3> QED BY <3>6, <3>7
  <2>6. CASE ~(Len(s) >= Len(p))
    <3>1. ~Text!hasSuffix(s, p)  BY <1>3, <2>6, SuffixIs
    <3>2. V[m].at = V[n].at  BY <1>3, <2>6
    <3> QED BY <1>4, <1>5, <2>2, <2>4, <3>1, <3>2
  <2> QED BY <2>5, <2>6
<1> QED BY <1>6, <1>7

\* From behind, the same positions are found.
LEMMA LastIndexSound ==
  ASSUME NEW C, NEW s \in Seq(C), NEW p \in Seq(C), PlainSep(p)
  PROVE  LET found == Text!indexVector(s, p)
         IN \A k \in DOMAIN found :
              Text!lastIndexOf(s, p, Len(found) - k) = Text!indexOf(s, p, k - 1)
<1> DEFINE a == Text!indexVector(s, p)
           b == Text!indexVector(Text!Reverse(s), Text!Reverse(p))
           d == Len(s) - Len(p)
           L == Len(a)
           c == [j \in 1..L |-> d - a[(L + 1) - j]]
<1>1. /\ a \in Seq(Nat) /\ L \in Nat /\ DOMAIN a = 1..L
      /\ \A j \in 1..L : a[j] \in 0..d /\ isAt(s, p, a[j])
      /\ \A pos \in 0..d : isAt(s, p, pos) => \E j \in 1..L : a[j] = pos
      /\ \A i, j \in 1..L : i < j => a[i] < a[j]
  BY FoundSound
<1>2. /\ b \in Seq(Nat) /\ Len(b) \in Nat
      /\ \A j \in 1..Len(b) : b[j] \in 0..d /\ isAt(s, p, d - b[j])
      /\ \A pos \in 0..d : isAt(s, p, d - pos) => \E j \in 1..Len(b) : b[j] = pos
      /\ \A i, j \in 1..Len(b) : i < j => b[i] < b[j]
  <2>1. /\ Text!Reverse(s) \in Seq(C) /\ Text!Reverse(p) \in Seq(C)
        /\ Len(Text!Reverse(s)) = Len(s) /\ Len(Text!Reverse(p)) = Len(p)
        /\ PlainSep(Text!Reverse(p))
    BY Backwards, BackwardsPlain
  <2>2. \A pos \in 0..d : isAt(Text!Reverse(s), Text!Reverse(p), pos) <=> isAt(s, p, d - pos)
    BY BackwardsAt
  <2> DEFINE rs == Text!Reverse(s)
             rp == Text!Reverse(p)
  <2> HIDE DEF rs, rp
  <2>3. rs \in Seq(C) /\ rp \in Seq(C) /\ Len(rs) - Len(rp) = d /\ PlainSep(rp)  BY <2>1 DEF rs, rp
  <2>4. LET found == Text!indexVector(rs, rp)
        IN /\ found \in Seq(Nat) /\ Len(found) \in Nat
           /\ \A j \in 1..Len(found) : found[j] \in 0..d /\ isAt(rs, rp, found[j])
           /\ \A pos \in 0..d : isAt(rs, rp, pos) => \E j \in 1..Len(found) : found[j] = pos
           /\ \A i, j \in 1..Len(found) : i < j => found[i] < found[j]
    <3>1. LET found == Text!indexVector(rs, rp)
        IN /\ found \in Seq(Nat) /\ Len(found) \in Nat /\ DOMAIN found = 1..Len(found)
           /\ \A j \in 1..Len(found) : found[j] \in 0..(Len(rs) - Len(rp)) /\ isAt(rs, rp, found[j])
           /\ \A pos \in 0..(Len(rs) - Len(rp)) : isAt(rs, rp, pos) => \E j \in 1..Len(found) : found[j] = pos
           /\ \A i, j \in 1..Len(found) : i < j => found[i] < found[j]
      BY Zenon, <2>3, FoundSound
    <3> HIDE DEF d
    <3> QED BY Zenon, <2>3, <3>1
  <2>5. b = Text!indexVector(rs, rp)  BY DEF rs, rp
  <2>6. \A pos \in 0..d : isAt(rs, rp, pos) <=> isAt(s, p, d - pos)  BY <2>2 DEF rs, rp
  <2> HIDE DEF b, d
  <2> QED BY <2>4, <2>5, <2>6
<1>3. d \in Int  BY LenProperties
<1> HIDE DEF a, b, d, L
<1>4. ASSUME NEW j \in 1..L PROVE (L + 1) - j \in 1..L /\ c[j] = d - a[(L + 1) - j] /\ c[j] \in 0..d
  <2>1. (L + 1) - j \in 1..L  BY <1>1
  <2>2. a[(L + 1) - j] \in 0..d  BY <1>1, <2>1
  <2> QED BY <1>3, <2>1, <2>2
<1>5. c \in Seq(Nat) /\ Len(c) = L
  <2>1. \A j \in 1..L : c[j] \in Nat
    <3> HIDE DEF c
    <3> QED BY <1>3, <1>4
  <2>2. c \in [1..L -> Nat]
    <3>1. c = [j \in 1..L |-> c[j]]  OBVIOUS
    <3> HIDE DEF c
    <3> QED BY <2>1, <3>1
  <2> HIDE DEF c
  <2> QED BY <1>1, <2>2, LenProperties
<1> HIDE DEF c
<1>6. ASSUME NEW i \in 1..L, NEW j \in 1..L, i < j PROVE c[i] < c[j]
  <2>1. (L + 1) - j < (L + 1) - i /\ (L + 1) - j \in 1..L /\ (L + 1) - i \in 1..L  BY <1>1, <1>6
  <2>2. a[(L + 1) - j] < a[(L + 1) - i]  BY <1>1, <2>1
  <2>3. a[(L + 1) - j] \in 0..d /\ a[(L + 1) - i] \in 0..d  BY <1>1, <2>1
  <2> QED BY <1>3, <1>4, <2>2, <2>3
<1>7. ASSUME NEW j \in 1..Len(b) PROVE \E i \in 1..L : c[i] = b[j]
  <2>1. b[j] \in 0..d /\ isAt(s, p, d - b[j]) /\ d - b[j] \in 0..d  BY <1>2, <1>3
  <2>2. PICK i \in 1..L : a[i] = d - b[j]  BY <1>1, <2>1
  <2>3. (L + 1) - i \in 1..L /\ (L + 1) - ((L + 1) - i) = i  BY <1>1
  <2>4. c[(L + 1) - i] = d - a[i]  BY <1>4, <2>3
  <2>5. d - a[i] = b[j]  BY <1>3, <2>1, <2>2
  <2> QED BY <2>3, <2>4, <2>5
<1>8. ASSUME NEW i \in 1..L PROVE \E j \in 1..Len(b) : c[i] = b[j]
  <2>1. c[i] \in 0..d /\ (L + 1) - i \in 1..L /\ c[i] = d - a[(L + 1) - i]  BY <1>4
  <2>2. isAt(s, p, a[(L + 1) - i]) /\ a[(L + 1) - i] \in 0..d  BY <1>1, <2>1
  <2>3. d - c[i] = a[(L + 1) - i]  BY <1>3, <2>1, <2>2
  <2> QED BY <1>2, <2>1, <2>2, <2>3
<1>9. b = c
  <2>1. \A i \in 1..Len(c) : \E j \in 1..Len(b) : c[i] = b[j]  BY <1>5, <1>8
  <2>2. \A j \in 1..Len(b) : \E i \in 1..Len(c) : c[i] = b[j]  BY <1>5, <1>7
  <2>3. \A i, j \in 1..Len(c) : i < j => c[i] < c[j]  BY <1>5, <1>6
  <2>4. \A i, j \in 1..Len(b) : i < j => b[i] < b[j]  BY <1>2
  <2>5. c = b  BY <1>2, <1>5, <2>1, <2>2, <2>3, <2>4, AscendingEqual
  <2> QED BY <2>5
<1>10. ASSUME NEW k \in 1..L
       PROVE  Text!lastIndexOf(s, p, L - k) = Text!indexOf(s, p, k - 1)
  <2>1. (L - k) + 1 \in 1..L /\ L - k < L /\ k - 1 < L /\ (k - 1) + 1 = k /\ (L + 1) - ((L - k) + 1) = k
    BY <1>1
  <2>2. b[(L - k) + 1] = d - a[k]  BY <1>4, <1>9, <2>1
  <2>3. Text!lastIndexOf(s, p, L - k) = d - b[(L - k) + 1]
    BY <1>5, <1>9, <2>1 DEF Text!lastIndexOf, b, d
  <2>4. Text!indexOf(s, p, k - 1) = a[k]  BY <2>1 DEF Text!indexOf, Text!count, a, L
  <2>5. d - (d - a[k]) = a[k]  BY <1>1, <1>3
  <2> QED BY <2>2, <2>3, <2>4, <2>5
<1> QED BY <1>1, <1>10 DEF a, L

\* All of it.
LEMMA TextIsSound ==
  ASSUME NEW C, target \in Seq(C), sep \in Seq(C), PlainSep(sep)
  PROVE  Text!TextSound
<1> DEFINE list == Text!splitToList(target, sep)
           vector == Text!splitToVector(target, sep)
           found_ == Text!indexVector(target, sep)
<1>0. PICK s \in Seq(C), p \in Seq(C) : s = target /\ p = sep /\ PlainSep(p)  OBVIOUS
<1>1. /\ Text!join(list, sep) = target
      /\ \A k \in DOMAIN list : ~Text!inMiddle(list[k], sep)
      /\ \A k \in 1..(Len(list) - 1) : ~Text!contains(list[k], sep)
  <2>1. LET l == Text!splitToList(s, p)
        IN /\ Text!join(l, p) = s
           /\ \A k \in DOMAIN l : ~Text!inMiddle(l[k], p)
           /\ \A k \in 1..(Len(l) - 1) : ~Text!contains(l[k], p)
    BY Zenon, <1>0, ListSound
  <2> QED BY Zenon, <1>0, <2>1
<1>2. Text!join(vector, sep) = (IF Text!hasPrefix(target, sep) THEN sep ELSE <<>>) \o target
                                 \o (IF Text!hasSuffix(target, sep) THEN sep ELSE <<>>)
  <2>1. Text!join(Text!splitToVector(s, p), p) =
          (IF Text!hasPrefix(s, p) THEN p ELSE <<>>) \o s \o (IF Text!hasSuffix(s, p) THEN p ELSE <<>>)
    BY Zenon, <1>0, VectorSound
  <2> QED BY Zenon, <1>0, <2>1
<1>3. target # <<>> => \A i, j \in DOMAIN vector : i <= j =>
        Text!section(target, sep, i - 1, j - 1) = Text!join(SubSeq(vector, i, j), sep)
  <2>1. s # <<>> => \A i, j \in DOMAIN Text!splitToVector(s, p) : i <= j =>
          Text!section(s, p, i - 1, j - 1) = Text!join(SubSeq(Text!splitToVector(s, p), i, j), p)
    <3> SUFFICES ASSUME s # <<>>
                 PROVE  \A i, j \in DOMAIN Text!splitToVector(s, p) : i <= j =>
                          Text!section(s, p, i - 1, j - 1)
                            = Text!join(SubSeq(Text!splitToVector(s, p), i, j), p)
      OBVIOUS
    <3>1. LET v == Text!splitToVector(s, p)
          IN \A i, j \in DOMAIN v : i <= j =>
               Text!section(s, p, i - 1, j - 1) = Text!join(SubSeq(v, i, j), p)
      BY <1>0, SectionSound
    <3> QED BY Zenon, <3>1
  <2> QED BY Zenon, <1>0, <2>1
<1>4. /\ Text!ToSet(found_) =
           {pos \in 0..(Len(target) - Len(sep)) : Text!substr(target, pos, Len(sep)) = sep}
      /\ Len(list) = Len(found_) + (IF Text!hasSuffix(target, sep) THEN 0 ELSE 1)
      /\ \A k \in DOMAIN found_ :
           Text!lastIndexOf(target, sep, Len(found_) - k) = Text!indexOf(target, sep, k - 1)
  <2> DEFINE f == Text!indexVector(s, p)
             S == {pos \in 0..(Len(s) - Len(p)) : Text!substr(s, pos, Len(p)) = p}
  <2>1. /\ DOMAIN f = 1..Len(f)
        /\ \A j \in 1..Len(f) : f[j] \in 0..(Len(s) - Len(p)) /\ isAt(s, p, f[j])
        /\ \A pos \in 0..(Len(s) - Len(p)) : isAt(s, p, pos) => \E j \in 1..Len(f) : f[j] = pos
    <3>1. LET found == Text!indexVector(s, p)
          IN /\ found \in Seq(Nat) /\ Len(found) \in Nat /\ DOMAIN found = 1..Len(found)
             /\ \A j \in 1..Len(found) : found[j] \in 0..(Len(s) - Len(p)) /\ isAt(s, p, found[j])
             /\ \A pos \in 0..(Len(s) - Len(p)) :
                  isAt(s, p, pos) => \E j \in 1..Len(found) : found[j] = pos
             /\ \A i, j \in 1..Len(found) : i < j => found[i] < found[j]
      <4>1. PlainSep(p)  BY <1>0
      <4> QED BY Zenon, <4>1, FoundSound
    <3>2. f = Text!indexVector(s, p)  OBVIOUS
    <3> HIDE DEF f
    <3> QED BY Zenon, <3>1, <3>2
  <2>2. \A pos \in 0..(Len(s) - Len(p)) : Text!substr(s, pos, Len(p)) = p <=> isAt(s, p, pos)
    BY SubstrIs
  <2>3. {f[j] : j \in DOMAIN f} = S
    <3> HIDE DEF f
    <3>1. \A j \in DOMAIN f : f[j] \in S  BY Zenon, <2>1, <2>2
    <3>2. ASSUME NEW pos \in S PROVE \E j \in DOMAIN f : f[j] = pos
      <4>1. pos \in 0..(Len(s) - Len(p)) /\ Text!substr(s, pos, Len(p)) = p  OBVIOUS
      <4> QED BY Zenon, <2>1, <2>2, <4>1
    <3> HIDE DEF S
    <3> QED BY Zenon, <3>1, <3>2
  <2>4. Text!ToSet(f) = S
    <3> HIDE DEF f, S
    <3> QED BY <2>3 DEF Text!ToSet
  <2>5. Len(Text!splitToList(s, p)) = Len(f) + (IF Text!hasSuffix(s, p) THEN 0 ELSE 1)
    BY <1>0, ListLength
  <2>6. \A k \in DOMAIN f : Text!lastIndexOf(s, p, Len(f) - k) = Text!indexOf(s, p, k - 1)
    BY Zenon, <1>0, LastIndexSound
  <2> QED BY Zenon, <1>0, <2>4, <2>5, <2>6
<1> HIDE DEF list, vector, found_
<1> QED BY Zenon, <1>1, <1>2, <1>3, <1>4 DEF Text!TextSound, list, vector, found_

\* The separators do not overlap themselves.
TextInv ==
  /\ target \in Seq(TextChar \cup {"/", ":"})
  /\ sep \in Seq(TextChar \cup {"/", ":"}) /\ PlainSep(sep)

LEMMA SeparatorsPlain ==
  ASSUME NEW p \in Separator
  PROVE  p \in Seq(TextChar \cup {"/", ":"}) /\ PlainSep(p)
<1> DEFINE C == TextChar \cup {"/", ":"}
<1>1. "/" \in C /\ ":" \in C  OBVIOUS
<1> HIDE DEF C
<1>2. CASE p = <<"/">>
  <2>1. p \in Seq(C) /\ p # <<>> /\ Len(p) = 1  BY <1>1, <1>2
  <2>2. 1..(Len(p) - 1) = {}  BY <2>1
  <2> QED BY <2>1, <2>2 DEF PlainSep, C
<1>3. CASE p = <<":", "/">>
  <2>1. p \in Seq(C) /\ p # <<>> /\ Len(p) = 2 /\ p[1] = ":" /\ p[2] = "/"  BY <1>1, <1>3
  <2>2. ASSUME NEW d \in 1..(Len(p) - 1) PROVE \E i \in 1..(Len(p) - d) : p[d + i] # p[i]
    <3>1. d = 1 /\ 1 \in 1..(Len(p) - d) /\ d + 1 = 2  BY <2>1
    <3>2. ":" # "/"  OBVIOUS
    <3> QED BY <2>1, <3>1, <3>2
  <2> QED BY <2>1, <2>2 DEF PlainSep, C
<1> QED BY <1>2, <1>3 DEF Separator

LEMMA TextInvInit == BytesInit => TextInv
<1> SUFFICES ASSUME BytesInit PROVE TextInv
  OBVIOUS
<1>1. target = <<>> /\ sep \in Separator  BY DEF BytesInit, Text!TextInit
<1>2. <<>> \in Seq(TextChar \cup {"/", ":"})  BY EmptySeq
<1> QED BY <1>1, <1>2, SeparatorsPlain DEF TextInv

LEMMA TextInvStep == TextInv /\ [BytesNext]_bytesVars => TextInv'
<1> SUFFICES ASSUME TextInv, [BytesNext]_bytesVars PROVE TextInv'
  OBVIOUS
<1> DEFINE C == TextChar \cup {"/", ":"}
<1>1. CASE Text!TextNext
  <2>1. PICK c \in TextChar : target' = Append(target, c) /\ sep' = sep
    BY <1>1 DEF Text!TextNext
  <2>2. c \in C /\ target \in Seq(C)  BY DEF TextInv
  <2> HIDE DEF C
  <2>3. Append(target, c) \in Seq(C)  BY <2>2, AppendProperties
  <2> QED BY <2>1, <2>3 DEF TextInv, C
<1>2. CASE UNCHANGED <<target, sep>>
  BY <1>2 DEF TextInv
<1> QED BY <1>1, <1>2 DEF BytesNext, bytesVars, addByte, addChar, addDigit, addText

\* Every text and separator that does not overlap itself: split, joined, cut and searched
\* as TextSound of XXstdStringExtend says, whatever the characters and however long.
THEOREM TextsStaySound == BytesSpec => []Text!TextSound
<1>1. TextInv => Text!TextSound
  BY TextIsSound DEF TextInv
<1> QED BY <1>1, TextInvInit, TextInvStep, PTL DEF BytesSpec

-----------------------------------------------------------------------------
(***************************************************************************)
(* Byte formats: the audio header.                                         *)
(***************************************************************************)
LEMMA RatesAre ==
  /\ DOMAIN Rates = 1..13
  /\ \A i, j \in 1..13 : Rates[i] = Rates[j] => i = j
  /\ \A i \in 1..13 : Rates[i] # 0
<1>1. DOMAIN Rates = 1..13  BY DEF Rates
<1>2. \A i \in 1..13 : i = 1 \/ i = 2 \/ i = 3 \/ i = 4 \/ i = 5 \/ i = 6 \/ i = 7 \/ i = 8
                         \/ i = 9 \/ i = 10 \/ i = 11 \/ i = 12 \/ i = 13
  OBVIOUS
<1>3. /\ Rates[1] = 96000 /\ Rates[2] = 88200 /\ Rates[3] = 64000
      /\ Rates[4] = 48000 /\ Rates[5] = 44100 /\ Rates[6] = 32000
      /\ Rates[7] = 24000 /\ Rates[8] = 22050 /\ Rates[9] = 16000
      /\ Rates[10] = 12000 /\ Rates[11] = 11025 /\ Rates[12] = 8000
      /\ Rates[13] = 7350
  BY DEF Rates
<1>4. \A i, j \in 1..13 : i < j => Rates[i] > Rates[j]
  BY <1>2, <1>3
<1>5. \A i \in 1..13 : Rates[i] \in Nat \ {0}  BY <1>2, <1>3
<1>6. \A i, j \in 1..13 : Rates[i] = Rates[j] => i = j
  <2> SUFFICES ASSUME NEW i \in 1..13, NEW j \in 1..13, Rates[i] = Rates[j], i # j
               PROVE  FALSE
    OBVIOUS
  <2>1. i < j \/ j < i  OBVIOUS
  <2>2. Rates[i] \in Nat /\ Rates[j] \in Nat  BY <1>5
  <2> QED BY <1>4, <2>1, <2>2
<1> QED BY <1>1, <1>5, <1>6

\* An index of four bits is spread over the two bytes and read again.
header(index, channel) ==
  <<IF index = 255 THEN 127 ELSE 16 + index \div 2, byte((index % 2) * 128 + channel * 8)>>

LEMMA AudioHeader ==
  ASSUME NEW index \in (0..12) \cup {255}, NEW channel \in 1..2
  PROVE  readAdts(header(index, channel)) =
           IF index = 255 THEN [objectType |-> 15, index |-> 15, channel |-> channel]
           ELSE [objectType |-> 2, index |-> index, channel |-> channel]
<1>1. \/ index = 0 \/ index = 1 \/ index = 2 \/ index = 3 \/ index = 4 \/ index = 5 \/ index = 6
      \/ index = 7 \/ index = 8 \/ index = 9 \/ index = 10 \/ index = 11 \/ index = 12
      \/ index = 255
  OBVIOUS
<1>2. channel = 1 \/ channel = 2  OBVIOUS
<1> DEFINE low == index \div 2
           odd == index % 2
           first_ == IF index = 255 THEN 127 ELSE 16 + low
           second_ == byte(odd * 128 + channel * 8)
<1>3. low \in Nat /\ odd \in 0..1 /\ index = 2 * low + odd  BY <1>1
<1>4. second_ = odd * 128 + channel * 8
  <2>1. odd * 128 + channel * 8 \in 0..255  BY <1>2, <1>3
  <2> HIDE DEF odd
  <2> QED BY <2>1 DEF byte
<1>5. second_ \div 128 = odd /\ (second_ \div 8) % 16 = channel
  <2> HIDE DEF odd, second_
  <2>1. odd = 0 \/ odd = 1  BY <1>3
  <2> QED BY <1>2, <1>4, <2>1
<1> HIDE DEF low, odd, second_
<1>6. CASE index = 255
  <2>1. first_ = 127 /\ low = 127 /\ odd = 1  BY <1>3, <1>6
  <2>2. first_ \div 8 = 15 /\ first_ % 8 = 7  BY <2>1
  <2>3. (first_ % 8) * 2 + second_ \div 128 = 15  BY <1>5, <2>1, <2>2
  <2> HIDE DEF first_
  <2>4. readAdts(<<first_, second_>>) = [objectType |-> 15, index |-> 15, channel |-> channel]
    BY <1>5, <2>2, <2>3 DEF readAdts
  <2> QED BY <1>6, <2>4 DEF header, first_, second_, low, odd
<1>7. CASE index # 255
  <2>1. index \in 0..12 /\ first_ = 16 + low /\ low \in 0..6  BY <1>3, <1>7
  <2>2. first_ \div 8 = 2 /\ first_ % 8 = low  BY <2>1
  <2>3. (first_ % 8) * 2 + second_ \div 128 = index  BY <1>3, <1>5, <2>2
  <2> HIDE DEF first_
  <2>4. readAdts(<<first_, second_>>) = [objectType |-> 2, index |-> index, channel |-> channel]
    BY <1>5, <2>2, <2>3 DEF readAdts
  <2> QED BY <1>7, <2>4 DEF header, first_, second_, low, odd
<1> QED BY <1>6, <1>7

LEMMA AudioIsReadBack == AudioReadsBack
<1> SUFFICES ASSUME NEW rate \in ToSet(Rates) \cup {0}, NEW channel \in 1..2
             PROVE  readAdts(makeAdts(rate, channel)) =
                      IF rate = 0 THEN [objectType |-> 15, index |-> 15, channel |-> channel]
                      ELSE [objectType |-> 2, index |-> sampleRateIndex(rate), channel |-> channel]
  BY DEF AudioReadsBack
<1> DEFINE index == sampleRateIndex(rate)
<1>1. rate # 0 => index \in 0..12
  <2> SUFFICES ASSUME rate # 0 PROVE index \in 0..12
    OBVIOUS
  <2>1. rate \in ToSet(Rates)  OBVIOUS
  <2>2. PICK i \in 1..13 : Rates[i] = rate  BY <2>1, RatesAre DEF ToSet
  <2> DEFINE k == CHOOSE k \in DOMAIN Rates : Rates[k] = rate
  <2>3. k \in 1..13  BY <2>2, RatesAre
  <2>4. index = k - 1  BY <2>1 DEF sampleRateIndex
  <2> HIDE DEF k, index
  <2> QED BY <2>3, <2>4
<1>2. rate = 0 => index = 255
  <2>1. 0 \notin ToSet(Rates)  BY RatesAre DEF ToSet
  <2> QED BY <2>1 DEF sampleRateIndex
<1>3. makeAdts(rate, channel) = header(index, channel)
  BY DEF makeAdts, header
<1> HIDE DEF index
<1>5. readAdts(header(index, channel)) =
        IF index = 255 THEN [objectType |-> 15, index |-> 15, channel |-> channel]
        ELSE [objectType |-> 2, index |-> index, channel |-> channel]
  <2>1. index \in (0..12) \cup {255}  BY <1>1, <1>2
  <2> QED BY <2>1, AudioHeader
<1>6. index = 255 <=> rate = 0  BY <1>1, <1>2
<1> QED BY <1>3, <1>5, <1>6 DEF index

-----------------------------------------------------------------------------
(***************************************************************************)
(* Byte formats: numbers.                                                  *)
(***************************************************************************)

\* The "or" of contributions, added one by one.
sums(f, W) ==
  /\ W[0] = 0
  /\ \A k \in DOMAIN f : W[k] = W[k - 1] + f[k]

LEMMA OrIs ==
  ASSUME NEW n \in Nat, NEW f \in [1..n -> Int]
  PROVE  \E W \in [0..n -> Int] :
           /\ sums(f, W)
           /\ orOf(f) = IF 255 \in {f[j] : j \in 1..n} THEN 255 ELSE W[n]
<1> DEFINE A == Int
           base == 0
           next(w, k) == w + f[k]
           step == [x \in A \X (1..n) |-> next(x[1], x[2])]
           eq(g) == g = [S \in SUBSET DOMAIN f |->
                           IF S = {} THEN base ELSE next(g[S \ {top(S)}], top(S))]
           iter == CHOOSE g : eq(g)
<1>1. DOMAIN f = 1..n /\ n \in 0..n
  OBVIOUS
<1>2. base \in A /\ \A w \in A, k \in 1..n : next(w, k) \in A
  OBVIOUS
<1>3. step \in [A \X (1..n) -> A]
  <2> HIDE DEF next, A
  <2> QED BY <1>2
<1>4. PICK g \in [SUBSET (1..n) -> A] : folds(n, step, base, g)
  <2> HIDE DEF step, A, base
  <2> QED BY <1>1, <1>2, <1>3, FoldExists
<1>5. eq(g)
  <2> HIDE DEF A, base, next
  <2>1. ASSUME NEW S \in SUBSET (1..n), S # {}
        PROVE  g[S] = next(g[S \ {top(S)}], top(S))
    <3>1. top(S) \in 1..n  BY <1>1, <2>1, TopIs
    <3>2. g[S] = step[<<g[S \ {top(S)}], top(S)>>]  BY <1>4, <2>1 DEF folds
    <3>3. g[S \ {top(S)}] \in A  BY <1>4
    <3> QED BY <3>1, <3>2, <3>3
  <2>2. g[{}] = base  BY <1>4 DEF folds
  <2> QED BY <1>1, <1>4, <2>1, <2>2
<1>6. eq(iter)
  <2> HIDE DEF eq
  <2> QED BY <1>5
<1>7. orOf(f) = IF 255 \in {f[j] : j \in DOMAIN f} THEN 255 ELSE iter[DOMAIN f]
  BY Zenon DEF orOf, FoldLeft, MapThenFoldSet, Max, top
<1> DEFINE W == [k \in 0..n |-> iter[1..k]]
<1> HIDE DEF iter, A, base, next
<1>8. ASSUME NEW k \in 1..n PROVE W[k] = next(W[k - 1], k)
  <2>1. 1..k \in SUBSET (1..n) /\ 1..k # {} /\ top(1..k) = k /\ (1..k) \ {k} = 1..(k - 1)
    BY <1>1, TopOfPrefix
  <2>3. iter[1..k] = next(iter[1..(k - 1)], k)
    <3>1. \A S \in SUBSET (1..n) :
            iter[S] = IF S = {} THEN base ELSE next(iter[S \ {top(S)}], top(S))
      BY <1>1, <1>6
    <3>2. iter[1..k] = next(iter[(1..k) \ {top(1..k)}], top(1..k))
      BY Zenon, <2>1, <3>1
    <3> QED BY Zenon, <2>1, <3>2
  <2>4. k \in 0..n /\ k - 1 \in 0..n  BY <1>1
  <2> QED BY <2>3, <2>4
<1>9. W[0] = base
  <2>1. 1..0 = {} /\ 0 \in 0..n  BY <1>1
  <2> QED BY <1>6, <1>1, <2>1
<1>11. \A k \in 0..n : W[k] \in A
  <2> HIDE DEF W
  <2> DEFINE G == {k \in 0..n : W[k] \in A}
  <2>1. 0 \in G  BY <1>1, <1>2, <1>9
  <2>2. ASSUME NEW k \in 1..n, k - 1 \in G PROVE k \in G
    <3>1. k \in 0..n /\ W[k - 1] \in A  BY <1>1, <2>2
    <3> QED BY <1>2, <1>8, <3>1
  <2>3. G = 0..n
    <3>1. G \in SUBSET (0..n)  OBVIOUS
    <3> HIDE DEF G
    <3> QED BY <1>1, <2>1, <2>2, <3>1, Induct
  <2> QED BY <2>3
<1>12. W \in [0..n -> A]
  <2>1. W = [k \in 0..n |-> W[k]]  OBVIOUS
  <2> HIDE DEF W
  <2> QED BY <1>11, <2>1
<1>13. iter[1..n] = W[n]  BY <1>1
<1> HIDE DEF W
<1>14. sums(f, W)  BY <1>1, <1>8, <1>9 DEF sums, base, next
<1>15. orOf(f) = IF 255 \in {f[j] : j \in 1..n} THEN 255 ELSE W[n]
  BY <1>1, <1>7, <1>13
<1> QED BY <1>12, <1>14, <1>15 DEF A

\* One byte, and what its sign or those of lower bytes make of it.
onlySigns(f, n, k) == \A j \in 1..n : j # k => f[j] \in {0, 255}
oneByte(f, n, k) == IF \E j \in 1..n : f[j] = 255 THEN 255 ELSE IF k <= n THEN f[k] ELSE 0

LEMMA OrOfOne ==
  ASSUME NEW n \in Nat, NEW f \in [1..n -> 0..255], NEW k \in Nat \ {0}, onlySigns(f, n, k)
  PROVE  orOf(f) = oneByte(f, n, k)
<1>0. \A j \in 1..n : f[j] \in Int
  <2>1. \A j \in 1..n : f[j] \in 0..255  OBVIOUS
  <2>2. \A x \in 0..255 : x \in Int  OBVIOUS
  <2> QED BY Zenon, <2>1, <2>2
<1>1. f \in [1..n -> Int]
  <2>1. f = [j \in 1..n |-> f[j]]  OBVIOUS
  <2> QED BY <1>0, <2>1
<1>2. PICK W \in [0..n -> Int] :
        /\ sums(f, W)
        /\ orOf(f) = IF 255 \in {f[j] : j \in 1..n} THEN 255 ELSE W[n]
  BY <1>1, OrIs
<1>3. CASE \E j \in 1..n : f[j] = 255
  BY <1>2, <1>3 DEF oneByte
<1>4. CASE ~\E j \in 1..n : f[j] = 255
  <2> DEFINE G == {m \in 0..n : W[m] = IF k <= m THEN f[k] ELSE 0}
  <2>1. 0 \in G  BY <1>2 DEF sums
  <2>2. ASSUME NEW m \in 1..n, m - 1 \in G PROVE m \in G
    <3>1. W[m] = W[m - 1] + f[m] /\ W[m - 1] = (IF k <= m - 1 THEN f[k] ELSE 0) /\ m \in 0..n
      BY <1>2, <2>2 DEF sums
    <3>2. m # k => f[m] = 0  BY <1>4 DEF onlySigns
    <3>3. f[m] \in Int /\ (k <= m => f[k] \in Int)
      <4>1. k <= m => k \in 1..n  OBVIOUS
      <4> QED BY <1>0, <4>1
    <3> QED BY <3>1, <3>2, <3>3
  <2>3. G = 0..n
    <3>1. G \in SUBSET (0..n)  OBVIOUS
    <3> HIDE DEF G
    <3> QED BY <2>1, <2>2, <3>1, Induct
  <2>4. n \in G  BY <2>3
  <2>5. ~(255 \in {f[j] : j \in 1..n})  BY <1>4
  <2> QED BY <1>2, <1>4, <2>4, <2>5 DEF oneByte
<1> QED BY <1>3, <1>4

\* Three or four bytes of three, and as many as there are else.
filled(bytes) == IF Len(bytes) = 3 THEN Append(bytes, 0) ELSE bytes

LEMMA FilledIs ==
  ASSUME NEW d \in Seq(0..255)
  PROVE  /\ wide(d) = 1..Len(filled(d)) /\ Len(d) <= Len(filled(d)) /\ Len(filled(d)) \in Nat
         /\ filled(d) \in Seq(0..255)
         /\ \A k \in 1..Len(filled(d)) : filled(d)[k] = IF k <= Len(d) THEN d[k] ELSE 0
<1>1. Len(d) \in Nat  BY LenProperties
<1>2. CASE Len(d) = 3
  <2> DEFINE e == Append(d, 0)
  <2>0. 0 \in 0..255  OBVIOUS
  <2>1. e \in Seq(0..255) /\ Len(e) = 4 /\ e[4] = 0 /\ \A i \in 1..3 : e[i] = d[i]
    <3>1. /\ e \in Seq(0..255) /\ Len(e) = Len(d) + 1 /\ e[Len(d) + 1] = 0
          /\ \A i \in 1..Len(d) : e[i] = d[i]
      BY <2>0, AppendProperties
    <3> HIDE DEF e
    <3> QED BY <1>2, <3>1
  <2> HIDE DEF e
  <2>2. filled(d) = e  BY <1>2 DEF filled, e
  <2>3. \A k \in 1..4 : k \in 1..3 \/ k = 4  OBVIOUS
  <2>4. wide(d) = 1..4  BY <1>2 DEF wide
  <2>5. \A k \in 1..4 : (k <= 3 <=> k \in 1..3)  BY <2>3
  <2>6. \A k \in 1..4 : e[k] = IF k <= 3 THEN d[k] ELSE 0  BY <2>1, <2>3, <2>5
  <2>7. Len(d) = 3 /\ Len(e) = 4  BY <1>2, <2>1
  <2>8. 3 <= 4 /\ 4 \in Nat  OBVIOUS
  <2> QED BY Zenon, <2>1, <2>2, <2>4, <2>6, <2>7, <2>8
<1>3. CASE Len(d) # 3
  <2>1. filled(d) = d /\ wide(d) = 1..Len(d)  BY <1>3 DEF filled, wide
  <2> QED BY <1>1, <2>1
<1> QED BY <1>2, <1>3

\* Two functions of positions.
LEMMA NumbersOf ==
  ASSUME NEW d \in Seq(0..255)
  PROVE  /\ [k \in wide(d) |-> orOf([j \in DOMAIN d |-> masked(d, j, k)])] = filled(d)
         /\ \A k \in wide(d) :
              leTo(d)[k] = IF \E j \in DOMAIN d : j < k /\ d[j] >= 128 THEN 255 ELSE filled(d)[k]
<1> DEFINE n == Len(d)
<1>1. n \in Nat /\ DOMAIN d = 1..n /\ \A j \in 1..n : d[j] \in 0..255
  BY LenProperties, ElementOfSeq
<1>2. /\ wide(d) = 1..Len(filled(d)) /\ n <= Len(filled(d)) /\ Len(filled(d)) \in Nat
      /\ filled(d) \in Seq(0..255)
      /\ \A k \in 1..Len(filled(d)) : filled(d)[k] = IF k <= n THEN d[k] ELSE 0
  BY FilledIs
<1> HIDE DEF n
<1>3. ASSUME NEW k \in 1..Len(filled(d))
      PROVE  orOf([j \in 1..n |-> masked(d, j, k)]) = filled(d)[k]
  <2> DEFINE f == [j \in 1..n |-> masked(d, j, k)]
  <2>1. ASSUME NEW j \in 1..n PROVE f[j] = (IF k = j THEN d[j] ELSE 0) /\ f[j] \in 0..255
    BY <1>1 DEF masked
  <2>2. f \in [1..n -> 0..255]
    <3>1. f = [j \in 1..n |-> f[j]]  OBVIOUS
    <3> HIDE DEF f
    <3> QED BY <2>1, <3>1
  <2> HIDE DEF f
  <2>3. k \in Nat \ {0} /\ onlySigns(f, n, k)  BY <1>2, <2>1 DEF onlySigns
  <2>9. n \in Nat  BY <1>1
  <2>10. orOf(f) = oneByte(f, n, k)
    BY Zenon, <2>2, <2>3, <2>9, OrOfOne
  <2>4. orOf(f) = IF \E j \in 1..n : f[j] = 255 THEN 255 ELSE IF k <= n THEN f[k] ELSE 0
    BY Zenon, <2>10 DEF oneByte
  <2>5. (\E j \in 1..n : f[j] = 255) => k <= n /\ f[k] = 255  BY <1>1, <2>1
  <2>6. k <= n => f[k] = d[k]  BY <1>1, <2>1
  <2>7. orOf(f) = IF k <= n THEN d[k] ELSE 0  BY <2>4, <2>5, <2>6
  <2> QED BY <1>2, <2>7 DEF f
<1>4. [k \in 1..Len(filled(d)) |-> orOf([j \in 1..n |-> masked(d, j, k)])] = filled(d)
  <2> DEFINE h == [k \in 1..Len(filled(d)) |-> orOf([j \in 1..n |-> masked(d, j, k)])]
  <2>1. \A k \in 1..Len(filled(d)) : h[k] = filled(d)[k]  BY <1>3
  <2>2. h = [k \in 1..Len(filled(d)) |-> h[k]]  OBVIOUS
  <2>3. filled(d) = [k \in 1..Len(filled(d)) |-> filled(d)[k]]  BY <1>2
  <2> HIDE DEF h
  <2>4. h = filled(d)  BY <2>1, <2>2, <2>3
  <2> QED BY <2>4 DEF h
<1>5. ASSUME NEW k \in 1..Len(filled(d))
      PROVE  orOf([j \in 1..n |-> spread(d, j, k)])
               = IF \E j \in 1..n : j < k /\ d[j] >= 128 THEN 255 ELSE filled(d)[k]
  <2> DEFINE f == [j \in 1..n |-> spread(d, j, k)]
  <2>1. ASSUME NEW j \in 1..n
        PROVE  /\ f[j] = (IF k = j THEN d[j] ELSE IF j < k /\ d[j] >= 128 THEN 255 ELSE 0)
               /\ f[j] \in 0..255
    BY <1>1 DEF spread
  <2>2. f \in [1..n -> 0..255]
    <3>1. f = [j \in 1..n |-> f[j]]  OBVIOUS
    <3> HIDE DEF f
    <3> QED BY <2>1, <3>1
  <2> HIDE DEF f
  <2>3. k \in Nat \ {0} /\ onlySigns(f, n, k)  BY <1>2, <2>1 DEF onlySigns
  <2>9. n \in Nat  BY <1>1
  <2>10. orOf(f) = oneByte(f, n, k)
    BY Zenon, <2>2, <2>3, <2>9, OrOfOne
  <2>4. orOf(f) = IF \E j \in 1..n : f[j] = 255 THEN 255 ELSE IF k <= n THEN f[k] ELSE 0
    BY Zenon, <2>10 DEF oneByte
  <2>5. CASE \E j \in 1..n : j < k /\ d[j] >= 128
    <3>1. \E j \in 1..n : f[j] = 255  BY <2>1, <2>5
    <3> QED BY <2>4, <2>5, <3>1 DEF f
  <2>6. CASE ~\E j \in 1..n : j < k /\ d[j] >= 128
    <3>1. (\E j \in 1..n : f[j] = 255) => k <= n /\ f[k] = 255  BY <1>1, <2>1, <2>6
    <3>2. k <= n => f[k] = d[k]  BY <1>1, <2>1
    <3>3. orOf(f) = IF k <= n THEN d[k] ELSE 0  BY <2>4, <3>1, <3>2
    <3> QED BY <1>2, <2>6, <3>3 DEF f
  <2> QED BY <2>5, <2>6
<1>6. ASSUME NEW k \in 1..Len(filled(d))
      PROVE  leTo(d)[k] = orOf([j \in 1..n |-> spread(d, j, k)])
  BY <1>1, <1>2 DEF leTo
<1>7. \A k \in wide(d) :
        leTo(d)[k] = IF \E j \in DOMAIN d : j < k /\ d[j] >= 128 THEN 255 ELSE filled(d)[k]
  <2>1. ASSUME NEW k \in wide(d)
        PROVE  leTo(d)[k] = IF \E j \in DOMAIN d : j < k /\ d[j] >= 128 THEN 255 ELSE filled(d)[k]
    <3>1. k \in 1..Len(filled(d))  BY Zenon, <1>2
    <3>2. leTo(d)[k] = orOf([j \in 1..n |-> spread(d, j, k)])  BY Zenon, <3>1, <1>6
    <3>3. orOf([j \in 1..n |-> spread(d, j, k)])
            = IF \E j \in 1..n : j < k /\ d[j] >= 128 THEN 255 ELSE filled(d)[k]
      BY <3>1, <1>5
    <3>4. leTo(d)[k] = IF \E j \in 1..n : j < k /\ d[j] >= 128 THEN 255 ELSE filled(d)[k]
      BY Zenon, <3>2, <3>3
    <3>5. DOMAIN d = 1..n  BY <1>1
    <3> QED BY <3>4, <3>5
  <2> QED BY <2>1
<1>8. [k \in wide(d) |-> orOf([j \in DOMAIN d |-> masked(d, j, k)])] = filled(d)
  BY Zenon, <1>1, <1>2, <1>4
<1> QED BY Zenon, <1>7, <1>8

\* Big endian numbers are read as they are, little endian ones when no sign spreads.
signsFit(d) ==
  leTo(d) = filled(d) <=>
    \A j \in DOMAIN d, k \in wide(d) : j < k /\ d[j] >= 128 => filled(d)[k] = 255

LEMMA NumberIsRead ==
  ASSUME NEW d \in Seq(0..255)
  PROVE  beTo(d) = filled(Reverse(d)) /\ signsFit(d)
<1> DEFINE r == Reverse(d)
<1>2. r \in Seq(0..255)
  <2>1. Text!Reverse(d) \in Seq(0..255)  BY Backwards
  <2>2. r = Text!Reverse(d)  BY DEF Reverse, Text!Reverse
  <2> QED BY <2>1, <2>2
<1>3. beTo(d) = filled(r)
  <2>1. beTo(d) = [k \in wide(r) |-> orOf([j \in DOMAIN r |-> masked(r, j, k)])]
    BY DEF beTo
  <2> HIDE DEF r
  <2> QED BY <1>2, <2>1, NumbersOf
<1>4. leTo(d) = filled(d) <=>
        \A j \in DOMAIN d, k \in wide(d) : j < k /\ d[j] >= 128 => filled(d)[k] = 255
  <2>1. \A k \in wide(d) :
          leTo(d)[k] = IF \E j \in DOMAIN d : j < k /\ d[j] >= 128 THEN 255 ELSE filled(d)[k]
    BY NumbersOf
  <2>2. /\ DOMAIN filled(d) = wide(d) /\ filled(d) = [k \in wide(d) |-> filled(d)[k]]
    BY FilledIs
  <2>3. leTo(d) = [k \in wide(d) |-> leTo(d)[k]]  BY DEF leTo
  <2>4. leTo(d) = filled(d) <=> \A k \in wide(d) : leTo(d)[k] = filled(d)[k]
    BY Zenon, <2>2, <2>3
  <2>5. ASSUME \A k \in wide(d) : leTo(d)[k] = filled(d)[k],
               NEW j \in DOMAIN d, NEW k \in wide(d), j < k, d[j] >= 128
        PROVE  filled(d)[k] = 255
    BY <2>1, <2>5
  <2>6. ASSUME \A j \in DOMAIN d, k \in wide(d) : j < k /\ d[j] >= 128 => filled(d)[k] = 255,
               NEW k \in wide(d)
        PROVE  leTo(d)[k] = filled(d)[k]
    BY <2>1, <2>6
  <2>7. (\A k \in wide(d) : leTo(d)[k] = filled(d)[k]) <=>
          \A j \in DOMAIN d, k \in wide(d) : j < k /\ d[j] >= 128 => filled(d)[k] = 255
    BY <2>5, <2>6
  <2> QED BY Zenon, <2>4, <2>7
<1> QED BY Zenon, <1>3, <1>4 DEF signsFit

LEMMA NumbersAreRead ==
  ASSUME digits \in Seq(0..255)
  PROVE  NumbersRead
<1>1. PICK d \in Seq(0..255) : d = digits  OBVIOUS
<1>2. beTo(d) = filled(Reverse(d))  BY Zenon, NumberIsRead
<1>3. signsFit(d)  BY Zenon, NumberIsRead
<1>4. beTo(digits) = filled(Reverse(digits))  BY Zenon, <1>1, <1>2
<1>5. signsFit(digits)  BY <1>1, <1>3
<1> QED BY Zenon, <1>4, <1>5 DEF NumbersRead, filled, signsFit

-----------------------------------------------------------------------------
(***************************************************************************)
(* Byte formats: the search for hev1 in a file.                            *)
(***************************************************************************)
MatchState == [count : Nat, pos : Nat, found : Int]

passes(s, V) ==
  /\ V[0] = [count |-> 0, pos |-> 0, found |-> 0]
  /\ \A k \in 1..Len(s) : V[k] = match(V[k - 1], s[k], Hev1)
  /\ search(s, Hev1) = V[Len(s)].found

LEMMA Hev1Is == Len(Hev1) = 4 /\ Len(Hvc1) = 4
BY DEF Hev1, Hvc1

LEMMA SearchIs ==
  ASSUME NEW C, NEW s \in Seq(C)
  PROVE  \E V \in [0..Len(s) -> MatchState] : passes(s, V)
<1> DEFINE n == Len(s)
           A == MatchState
           base == [count |-> 0, pos |-> 0, found |-> 0]
           next(w, k) == match(w, s[k], Hev1)
           step == [x \in A \X (1..n) |-> next(x[1], x[2])]
           eq(g) == g = [S \in SUBSET DOMAIN s |->
                           IF S = {} THEN base ELSE next(g[S \ {top(S)}], top(S))]
           iter == CHOOSE g : eq(g)
<1>1. DOMAIN s = 1..n /\ n \in Nat /\ n \in 0..n
  BY LenProperties
<1>2. base \in A /\ \A w \in A, k \in 1..n : next(w, k) \in A
  <2>1. base \in A  BY DEF MatchState
  <2>2. ASSUME NEW w \in A, NEW k \in 1..n PROVE next(w, k) \in A
    <3>1. w \in MatchState /\ w.pos + 1 \in Nat  BY DEF MatchState
    <3> DEFINE u == [w EXCEPT !.count = 0]
               v == [u EXCEPT !.pos = w.pos + 1]
               on == [count |-> w.count + 1, pos |-> w.pos + 1,
                      found |-> IF w.count + 1 = Len(Hev1) THEN w.pos + 2 - Len(Hev1) ELSE 0]
    <3>2. u \in MatchState  BY <3>1 DEF MatchState
    <3> HIDE DEF u
    <3>3. v \in MatchState  BY <3>1, <3>2 DEF MatchState
    <3>4. on \in MatchState  BY <3>1, Hev1Is DEF MatchState
    <3> HIDE DEF v, on
    <3>5. next(w, k) = w \/ next(w, k) = v \/ next(w, k) = on
      BY Zenon DEF match, u, v, on
    <3> QED BY <3>1, <3>3, <3>4, <3>5
  <2> QED BY <2>1, <2>2
<1>3. step \in [A \X (1..n) -> A]
  <2> HIDE DEF next, A, n
  <2> QED BY <1>2
<1>4. PICK g \in [SUBSET (1..n) -> A] : folds(n, step, base, g)
  <2> HIDE DEF step, A, base, n
  <2> QED BY <1>1, <1>2, <1>3, FoldExists
<1>5. eq(g)
  <2> HIDE DEF A, base, next, n
  <2>1. ASSUME NEW S \in SUBSET (1..n), S # {}
        PROVE  g[S] = next(g[S \ {top(S)}], top(S))
    <3>1. top(S) \in 1..n  BY <1>1, <2>1, TopIs
    <3>2. g[S] = step[<<g[S \ {top(S)}], top(S)>>]  BY <1>4, <2>1 DEF folds
    <3>3. g[S \ {top(S)}] \in A  BY <1>4
    <3> QED BY <3>1, <3>2, <3>3
  <2>2. g[{}] = base  BY <1>4 DEF folds
  <2> QED BY <1>1, <1>4, <2>1, <2>2
<1>6. eq(iter)
  <2> HIDE DEF eq
  <2> QED BY <1>5
<1>7. search(s, Hev1) = iter[DOMAIN s].found
  BY Zenon DEF search, FoldLeft, MapThenFoldSet, Max, top
<1> DEFINE V == [k \in 0..n |-> iter[1..k]]
<1> HIDE DEF iter, A, base, next, n
<1>8. ASSUME NEW k \in 1..n PROVE V[k] = next(V[k - 1], k)
  <2>1. 1..k \in SUBSET (1..n) /\ 1..k # {} /\ top(1..k) = k /\ (1..k) \ {k} = 1..(k - 1)
    BY <1>1, TopOfPrefix
  <2>3. iter[1..k] = next(iter[1..(k - 1)], k)
    <3>1. \A S \in SUBSET (1..n) :
            iter[S] = IF S = {} THEN base ELSE next(iter[S \ {top(S)}], top(S))
      BY <1>1, <1>6
    <3>2. iter[1..k] = next(iter[(1..k) \ {top(1..k)}], top(1..k))
      BY Zenon, <2>1, <3>1
    <3> QED BY Zenon, <2>1, <3>2
  <2>4. k \in 0..n /\ k - 1 \in 0..n  BY <1>1
  <2> QED BY <2>3, <2>4
<1>9. V[0] = base
  <2>1. 1..0 = {} /\ 0 \in 0..n  BY <1>1
  <2> QED BY <1>6, <1>1, <2>1
<1>11. \A k \in 0..n : V[k] \in A
  <2> HIDE DEF V
  <2> DEFINE G == {k \in 0..n : V[k] \in A}
  <2>1. 0 \in G  BY <1>1, <1>2, <1>9
  <2>2. ASSUME NEW k \in 1..n, k - 1 \in G PROVE k \in G
    <3>1. k \in 0..n /\ V[k - 1] \in A  BY <1>1, <2>2
    <3> QED BY <1>2, <1>8, <3>1
  <2>3. G = 0..n
    <3>1. G \in SUBSET (0..n)  OBVIOUS
    <3> HIDE DEF G
    <3> QED BY <1>1, <2>1, <2>2, <3>1, Induct
  <2> QED BY <2>3
<1>12. V \in [0..n -> A]
  <2>1. V = [k \in 0..n |-> V[k]]  OBVIOUS
  <2> HIDE DEF V
  <2> QED BY <1>11, <2>1
<1>13. search(s, Hev1) = V[n].found  BY <1>1, <1>7
<1> HIDE DEF V
<1>14. passes(s, V)  BY <1>1, <1>8, <1>9, <1>13 DEF passes, base, next, n
<1> QED BY <1>12, <1>14 DEF A, n

\* hev1 at a place, and the first of its characters directly before it.
hasHev1(s, k) == k + 3 <= Len(s) /\ \A i \in 1..4 : s[(k + i) - 1] = Hev1[i]
partly(s, k, c) == \A i \in 1..c : s[(k - c) + i] = Hev1[i]

\* What is found is an hev1, and one that no beginning of another precedes is not passed.
LEMMA SearchSound ==
  ASSUME NEW C, NEW s \in Seq(C)
  PROVE  LET k == search(s, Hev1)
         IN /\ k \in Int
            /\ k # 0 => k \in 1..Len(s) /\ hasHev1(s, k)
            /\ \A i \in 1..Len(s) :
                 hasHev1(s, i) /\ k = 0 => \E c \in 1..3 : c <= i - 1 /\ partly(s, i - 1, c)
<1> DEFINE n == Len(s)
<1>0. n \in Nat /\ n \in 0..n  BY LenProperties
<1>1. PICK V \in [0..n -> MatchState] : passes(s, V)  BY SearchIs
<1>2. \A k \in 0..n : V[k].count \in Nat /\ V[k].pos \in Nat /\ V[k].found \in Int
  BY <1>1 DEF MatchState
<1> DEFINE part(k) == V[k].found = 0 => /\ V[k].pos = k /\ V[k].count \in 0..3 /\ V[k].count <= k
                                        /\ partly(s, k, V[k].count)
           good_(k) == V[k].found # 0 => V[k].found \in 1..k /\ hasHev1(s, V[k].found)
           first_(i) == hasHev1(s, i) /\ ~\E c \in 1..3 : c <= i - 1 /\ partly(s, i - 1, c)
           all_(k) == V[k].found = 0 =>
                       \A i \in 1..n : first_(i) /\ i - 1 <= k => V[k].count = (k - i) + 1 /\ k <= i + 2
           G == {k \in 0..n : part(k) /\ good_(k) /\ all_(k)}
<1>3. /\ V[0] = [count |-> 0, pos |-> 0, found |-> 0]
      /\ \A k \in 1..n : V[k] = match(V[k - 1], s[k], Hev1)
      /\ search(s, Hev1) = V[n].found
  BY <1>1 DEF passes
<1> HIDE DEF n
<1>4. ASSUME NEW k \in 1..n
      PROVE  /\ k \in 0..n /\ k - 1 \in 0..n /\ k \in Nat /\ k - 1 \in Nat
             /\ V[k - 1].found # 0 => V[k] = V[k - 1]
             /\ V[k - 1].found = 0 /\ Hev1[V[k - 1].count + 1] # s[k] =>
                  V[k].found = 0 /\ V[k].count = 0 /\ V[k].pos = V[k - 1].pos + 1
             /\ V[k - 1].found = 0 /\ Hev1[V[k - 1].count + 1] = s[k] =>
                  /\ V[k].count = V[k - 1].count + 1 /\ V[k].pos = V[k - 1].pos + 1
                  /\ V[k].found = IF V[k].count = 4 THEN V[k - 1].pos - 2 ELSE 0
  <2>1. k \in 0..n /\ k - 1 \in 0..n /\ k \in Nat /\ k - 1 \in Nat  BY <1>0
  <2>2. V[k] = match(V[k - 1], s[k], Hev1)  BY <1>3
  <2>3. V[k - 1] \in MatchState  BY <1>1, <2>1
  <2> QED BY <2>1, <2>2, <2>3, Hev1Is DEF match, MatchState
<1>5. 0 \in G
  <2>1. partly(s, 0, 0)  BY DEF partly
  <2>2. V[0].count = 0 /\ V[0].pos = 0 /\ V[0].found = 0  BY <1>3
  <2>3. 0 \in 0..n  BY <1>0
  <2>4. part(0) /\ good_(0)  BY <2>1, <2>2
  <2>5. all_(0)
    <3>1. ASSUME NEW i \in 1..n, i - 1 <= 0 PROVE 0 = (0 - i) + 1 /\ 0 <= i + 2
      <4>1. i = 1  BY <1>0, <3>1
      <4> QED BY <4>1
    <3> QED BY <2>2, <3>1
  <2> HIDE DEF part, good_, all_
  <2> QED BY <2>3, <2>4, <2>5
<1>6. ASSUME NEW k \in 1..n, part(k - 1), good_(k - 1) PROVE part(k) /\ good_(k)
  <2>1. CASE V[k - 1].found # 0
    <3>1. V[k] = V[k - 1] /\ k \in Nat /\ k - 1 \in Nat  BY <1>4, <2>1
    <3>2. V[k].found \in 1..(k - 1) /\ hasHev1(s, V[k].found)  BY <1>6, <2>1, <3>1
    <3>3. V[k].found \in 1..k  BY <3>1, <3>2
    <3> QED BY <2>1, <3>1, <3>2, <3>3
  <2>2. CASE V[k - 1].found = 0 /\ Hev1[V[k - 1].count + 1] # s[k]
    <3>1. partly(s, k, 0)  BY DEF partly
    <3> QED BY <1>4, <1>6, <2>2, <3>1
  <2>3. CASE V[k - 1].found = 0 /\ Hev1[V[k - 1].count + 1] = s[k]
    <3> DEFINE c == V[k - 1].count
    <3>1. c \in 0..3 /\ c <= k - 1 /\ partly(s, k - 1, c) /\ V[k - 1].pos = k - 1  BY <1>6, <2>3
    <3>2. /\ V[k].count = c + 1 /\ V[k].pos = V[k - 1].pos + 1
          /\ V[k].found = IF c + 1 = 4 THEN V[k - 1].pos - 2 ELSE 0
      BY <1>4, <2>3
    <3>3. Hev1[c + 1] = s[k]  BY <2>3
    <3>4. k \in Nat /\ k - 1 \in Nat /\ k <= n  BY <1>0, <1>4
    <3> HIDE DEF c
    <3>5. partly(s, k, c + 1)
      <4>1. ASSUME NEW i \in 1..(c + 1) PROVE s[(k - (c + 1)) + i] = Hev1[i]
        <5>1. CASE i = c + 1
          <6>1. (k - (c + 1)) + i = k  BY <3>1, <3>4, <5>1
          <6> QED BY <3>3, <5>1, <6>1
        <5>2. CASE i # c + 1
          <6>1. i \in 1..c /\ (k - (c + 1)) + i = ((k - 1) - c) + i  BY <3>1, <3>4, <5>2
          <6> QED BY <3>1, <6>1 DEF partly
        <5> QED BY <5>1, <5>2
      <4> QED BY <4>1 DEF partly
    <3>6. CASE c + 1 = 4
      <4>1. V[k].found = k - 3 /\ k - 3 \in 1..k  BY <3>1, <3>2, <3>4, <3>6
      <4>2. hasHev1(s, k - 3)
        <5>1. (k - 3) + 3 <= Len(s)  BY <3>4 DEF n
        <5>2. ASSUME NEW i \in 1..4 PROVE s[((k - 3) + i) - 1] = Hev1[i]
          <6>1. ((k - 3) + i) - 1 = (k - (c + 1)) + i /\ i \in 1..(c + 1)  BY <3>1, <3>4, <3>6
          <6> QED BY <3>5, <6>1 DEF partly
        <5> QED BY <5>1, <5>2 DEF hasHev1
      <4> QED BY <4>1, <4>2
    <3>7. CASE c + 1 # 4
      <4>1. V[k].found = 0 /\ V[k].pos = k /\ c + 1 \in 0..3 /\ c + 1 <= k
        BY <3>1, <3>2, <3>4, <3>7
      <4> QED BY <3>2, <3>5, <4>1
    <3> QED BY <3>6, <3>7
  <2> QED BY <2>1, <2>2, <2>3
<1>7. ASSUME NEW k \in 1..n, part(k - 1), part(k), all_(k - 1) PROVE all_(k)
  <2> SUFFICES ASSUME V[k].found = 0, NEW i \in 1..n, first_(i), i - 1 <= k
               PROVE  V[k].count = (k - i) + 1 /\ k <= i + 2
    OBVIOUS
  <2>0. k \in Nat /\ k - 1 \in Nat /\ i \in Nat /\ i >= 1 /\ V[k - 1].found = 0
    BY <1>0, <1>4
  <2>1. CASE i - 1 = k
    <3> DEFINE c == V[k].count
    <3>1. c \in 0..3 /\ c <= i - 1 /\ partly(s, i - 1, c)  BY <1>7, <2>1
    <3> HIDE DEF c
    <3>2. c = 0
      <4>1. c # 0 => c \in 1..3  BY <3>1
      <4> QED BY <3>1, <4>1
    <3> QED BY <2>0, <2>1, <3>2 DEF c
  <2>2. CASE i - 1 # k
    <3>1. i - 1 <= k - 1  BY <2>0, <2>2
    <3>2. V[k - 1].count = ((k - 1) - i) + 1 /\ k - 1 <= i + 2  BY <1>7, <2>0, <3>1
    <3>3. V[k - 1].count = k - i /\ (k - i) + 1 \in 1..4  BY <2>0, <3>1, <3>2
    <3>4. s[k] = Hev1[(k - i) + 1]
      <4> DEFINE j == (k - i) + 1
      <4>1. j \in 1..4 /\ (i + j) - 1 = k  BY <2>0, <3>3
      <4> HIDE DEF j
      <4>2. s[(i + j) - 1] = Hev1[j]  BY <4>1 DEF hasHev1
      <4> QED BY <4>1, <4>2 DEF j
    <3>5. /\ V[k].count = (k - i) + 1
          /\ V[k].found = IF V[k].count = 4 THEN V[k - 1].pos - 2 ELSE 0
      BY <1>4, <2>0, <3>3, <3>4
    <3>6. V[k - 1].pos = k - 1 /\ k \in 1..n  BY <1>7, <2>0
    <3>7. V[k].count # 4
      <4> SUFFICES ASSUME V[k].count = 4 PROVE FALSE
        OBVIOUS
      <4>1. k - 1 - 2 = 0 /\ (k - i) + 1 = 4  BY <2>0, <3>5, <3>6
      <4> QED BY <2>0, <4>1
    <3> QED BY <2>0, <3>3, <3>5, <3>7
  <2> QED BY <2>1, <2>2
<1>8. ASSUME NEW k \in 1..n, k - 1 \in G PROVE k \in G
  <2> HIDE DEF part, good_, all_
  <2>1. part(k - 1) /\ good_(k - 1) /\ all_(k - 1) /\ k \in 0..n  BY <1>4, <1>8
  <2> QED BY <1>6, <1>7, <2>1
<1>9. G = 0..n
  <2>1. G \in SUBSET (0..n)  OBVIOUS
  <2> HIDE DEF G
  <2> QED BY <1>0, <1>5, <1>8, <2>1, Induct
<1>10. part(n) /\ good_(n) /\ all_(n)
  <2> HIDE DEF part, good_, all_
  <2> QED BY <1>0, <1>9
<1> DEFINE k == search(s, Hev1)
<1>11. k = V[n].found /\ k \in Int  BY <1>0, <1>2, <1>3
<1>12. k # 0 => k \in 1..n /\ hasHev1(s, k)  BY <1>10, <1>11
<1>13. ASSUME NEW i \in 1..n, hasHev1(s, i), k = 0
       PROVE  \E c \in 1..3 : c <= i - 1 /\ partly(s, i - 1, c)
  <2> SUFFICES ASSUME ~\E c \in 1..3 : c <= i - 1 /\ partly(s, i - 1, c) PROVE FALSE
    OBVIOUS
  <2>1. first_(i)  BY <1>13
  <2>2. i \in Nat /\ i <= n /\ i - 1 <= n /\ i + 3 <= n  BY <1>0, <1>13 DEF hasHev1, n
  <2>3. n <= i + 2
    <3> HIDE DEF first_
    <3> QED BY <1>10, <1>11, <1>13, <2>1, <2>2
  <2> QED BY <1>0, <2>2, <2>3
<1> HIDE DEF k
<1>14. /\ k \in Int
       /\ k # 0 => k \in 1..n /\ hasHev1(s, k)
       /\ \A i \in 1..n :
            hasHev1(s, i) /\ k = 0 => \E c \in 1..3 : c <= i - 1 /\ partly(s, i - 1, c)
  BY <1>11, <1>12, <1>13
<1> QED BY Zenon, <1>14 DEF k, n

\* Four characters of a text for others, and the rest as it was.
putAt(s, w, k) ==
  LET after == SubSeq(s, 1, k - 1) \o w \o SubSeq(s, k + 4, Len(s))
  IN /\ Len(after) = Len(s)
     /\ \A i \in 1..Len(s) :
          after[i] = IF i \in k..(k + 3) THEN w[(i - k) + 1] ELSE s[i]

LEMMA PutInPlace ==
  ASSUME NEW C, NEW s \in Seq(C), NEW w \in Seq(C), Len(w) = 4, NEW k \in 1..Len(s), k + 3 <= Len(s)
  PROVE  putAt(s, w, k)
<1> DEFINE n == Len(s)
           b == SubSeq(s, 1, k - 1)
           e == SubSeq(s, k + 4, n)
           bw == b \o w
           after == bw \o e
<1>0. n \in Nat /\ k \in 1..n /\ k + 3 <= n  BY LenProperties
<1> HIDE DEF n
<1>1. b \in Seq(C) /\ Len(b) = k - 1 /\ \A i \in 1..(k - 1) : b[i] = s[i]
  <2>1. 1 \in 1..(n + 1) /\ k - 1 \in 1 - 1..n  BY <1>0
  <2>2. /\ b \in Seq(C)
        /\ Len(b) = IF 1 <= k - 1 THEN (k - 1) - 1 + 1 ELSE 0
        /\ \A i \in 1..((k - 1) - 1 + 1) : b[i] = s[1 + i - 1]
    BY <1>0, SubSeqProperties DEF n
  <2> HIDE DEF b
  <2>3. \A i \in 1..(k - 1) : i \in 1..((k - 1) - 1 + 1) /\ 1 + i - 1 = i  BY <1>0
  <2> QED BY <1>0, <2>2, <2>3
<1>2. e \in Seq(C) /\ Len(e) = n - k - 3 /\ \A i \in 1..(n - k - 3) : e[i] = s[(k + 3) + i]
  <2>2. /\ e \in Seq(C)
        /\ Len(e) = IF k + 4 <= n THEN n - (k + 4) + 1 ELSE 0
        /\ \A i \in 1..(n - (k + 4) + 1) : e[i] = s[(k + 4) + i - 1]
    BY <1>0, SubSeqProperties DEF n
  <2> HIDE DEF e
  <2>3. \A i \in 1..(n - k - 3) : i \in 1..(n - (k + 4) + 1) /\ (k + 4) + i - 1 = (k + 3) + i  BY <1>0
  <2> QED BY <1>0, <2>2, <2>3
<1> HIDE DEF b, e
<1>3. /\ bw \in Seq(C) /\ Len(bw) = k + 3
      /\ \A i \in 1..(k - 1) : bw[i] = s[i]
      /\ \A i \in k..(k + 3) : bw[i] = w[(i - k) + 1]
  <2>1. /\ bw \in Seq(C) /\ Len(bw) = Len(b) + Len(w)
        /\ \A i \in 1..(Len(b) + Len(w)) : bw[i] = IF i <= Len(b) THEN b[i] ELSE w[i - Len(b)]
    BY <1>1, ConcatProperties
  <2> HIDE DEF bw
  <2>2. Len(bw) = k + 3 /\ \A i \in 1..(k + 3) : bw[i] = IF i <= k - 1 THEN b[i] ELSE w[i - (k - 1)]
    BY <1>0, <1>1, <2>1
  <2>3. \A i \in 1..(k - 1) : i \in 1..(k + 3) /\ i <= k - 1  BY <1>0
  <2>4. \A i \in k..(k + 3) : i \in 1..(k + 3) /\ ~(i <= k - 1) /\ i - (k - 1) = (i - k) + 1  BY <1>0
  <2> QED BY <1>1, <2>1, <2>2, <2>3, <2>4
<1> HIDE DEF bw
<1>4. /\ Len(after) = n
      /\ \A i \in 1..n : after[i] = IF i <= k + 3 THEN bw[i] ELSE e[i - (k + 3)]
  <2>1. /\ after \in Seq(C) /\ Len(after) = Len(bw) + Len(e)
        /\ \A i \in 1..(Len(bw) + Len(e)) : after[i] = IF i <= Len(bw) THEN bw[i] ELSE e[i - Len(bw)]
    BY <1>2, <1>3, ConcatProperties
  <2> HIDE DEF after
  <2>2. Len(bw) + Len(e) = n  BY <1>0, <1>2, <1>3
  <2> QED BY <1>3, <2>1, <2>2
<1> HIDE DEF after
<1>5. ASSUME NEW i \in 1..n
      PROVE  after[i] = IF i \in k..(k + 3) THEN w[(i - k) + 1] ELSE s[i]
  <2>1. CASE i \in k..(k + 3)
    <3>1. i <= k + 3  BY <1>0, <2>1
    <3> QED BY <1>3, <1>4, <2>1, <3>1
  <2>2. CASE i < k
    <3>1. i \in 1..(k - 1) /\ i <= k + 3 /\ i \notin k..(k + 3)  BY <1>0, <2>2
    <3> QED BY <1>3, <1>4, <3>1
  <2>3. CASE i > k + 3
    <3>1. /\ i - (k + 3) \in 1..(n - k - 3) /\ (k + 3) + (i - (k + 3)) = i /\ ~(i <= k + 3)
          /\ i \notin k..(k + 3)
      BY <1>0, <2>3
    <3>2. e[i - (k + 3)] = s[(k + 3) + (i - (k + 3))]  BY <1>2, <3>1
    <3> QED BY <1>4, <3>1, <3>2
  <2> QED BY <1>0, <2>1, <2>2, <2>3
<1>6. LET a == b \o w \o e
      IN Len(a) = n /\ \A i \in 1..n : a[i] = IF i \in k..(k + 3) THEN w[(i - k) + 1] ELSE s[i]
  BY <1>4, <1>5 DEF after, bw
<1> QED BY Zenon, <1>6 DEF b, e, n, putAt

\* In the words of the property.
LEMMA OccursIs ==
  ASSUME NEW C, NEW s \in Seq(C), NEW k \in 1..Len(s)
  PROVE  /\ hasHev1(s, k) <=> k + 3 <= Len(s) /\ SubSeq(s, k, k + 3) = Hev1
         /\ \A c \in 1..3 : c <= k - 1 /\ partly(s, k - 1, c) <=>
              k > c /\ SubSeq(s, k - c, k - 1) = SubSeq(Hev1, 1, c)
<1>0. Len(s) \in Nat /\ k \in Nat /\ Len(Hev1) = 4  BY LenProperties, Hev1Is
<1> DEFINE H == {"h", "e", "v", "1"}
<1>1. Hev1 \in Seq(H)
  <2>1. "h" \in H /\ "e" \in H /\ "v" \in H /\ "1" \in H  OBVIOUS
  <2> HIDE DEF H
  <2> QED BY <2>1 DEF Hev1
<1> HIDE DEF H
<1>2. ASSUME k + 3 <= Len(s)
      PROVE  hasHev1(s, k) <=> SubSeq(s, k, k + 3) = Hev1
  <2> DEFINE x == SubSeq(s, k, k + 3)
  <2>1. x \in Seq(C) /\ Len(x) = 4 /\ \A i \in 1..4 : x[i] = s[(k + i) - 1]
    <3>1. /\ x \in Seq(C)
          /\ Len(x) = IF k <= k + 3 THEN (k + 3) - k + 1 ELSE 0
          /\ \A i \in 1..((k + 3) - k + 1) : x[i] = s[k + i - 1]
      BY <1>0, <1>2, SubSeqProperties
    <3> HIDE DEF x
    <3>2. (k + 3) - k + 1 = 4 /\ k <= k + 3  BY <1>0
    <3> QED BY <3>1, <3>2
  <2> HIDE DEF x
  <2>2. x = Hev1 <=> \A i \in 1..4 : x[i] = Hev1[i]
    <3>1. x = [i \in 1..4 |-> x[i]] /\ Hev1 = [i \in 1..4 |-> Hev1[i]]
      BY <1>0, <1>1, <2>1
    <3> QED BY Zenon, <3>1
  <2>3. hasHev1(s, k) <=> \A i \in 1..4 : x[i] = Hev1[i]
    BY <1>2, <2>1 DEF hasHev1
  <2> QED BY Zenon, <2>2, <2>3 DEF x
<1>3. ASSUME NEW c \in 1..3, c <= k - 1
      PROVE  partly(s, k - 1, c) <=> SubSeq(s, k - c, k - 1) = SubSeq(Hev1, 1, c)
  <2> DEFINE x == SubSeq(s, k - c, k - 1)
             h == SubSeq(Hev1, 1, c)
  <2>1. x \in Seq(C) /\ Len(x) = c /\ \A i \in 1..c : x[i] = s[((k - 1) - c) + i]
    <3>1. k - c \in 1..(k - 1) /\ k - c \in 1..(Len(s) + 1) /\ k - 1 \in ((k - c) - 1)..Len(s)
      BY <1>0, <1>3
    <3>2. /\ x \in Seq(C)
          /\ Len(x) = IF k - c <= k - 1 THEN (k - 1) - (k - c) + 1 ELSE 0
          /\ \A i \in 1..((k - 1) - (k - c) + 1) : x[i] = s[(k - c) + i - 1]
      BY <3>1, SubSeqProperties
    <3> HIDE DEF x
    <3>3. (k - 1) - (k - c) + 1 = c /\ k - c <= k - 1  BY <1>0, <3>1
    <3>4. \A i \in 1..c : (k - c) + i - 1 = ((k - 1) - c) + i  BY <1>0
    <3> QED BY <3>2, <3>3, <3>4
  <2>2. h \in Seq(H) /\ Len(h) = c /\ \A i \in 1..c : h[i] = Hev1[i]
    <3>5. 1 \in 1..(Len(Hev1) + 1) /\ c \in (1 - 1)..Len(Hev1)  BY <1>0
    <3>1. /\ h \in Seq(H)
          /\ Len(h) = IF 1 <= c THEN c - 1 + 1 ELSE 0
          /\ \A i \in 1..(c - 1 + 1) : h[i] = Hev1[1 + i - 1]
      BY <1>1, <3>5, SubSeqProperties
    <3> HIDE DEF h
    <3>3. c - 1 + 1 = c /\ 1 <= c /\ \A i \in 1..c : 1 + i - 1 = i  OBVIOUS
    <3> QED BY <3>1, <3>3
  <2> HIDE DEF x, h
  <2>3. x = h <=> \A i \in 1..c : x[i] = h[i]
    <3>1. x = [i \in 1..c |-> x[i]] /\ h = [i \in 1..c |-> h[i]]
      BY <2>1, <2>2
    <3> QED BY Zenon, <3>1
  <2>4. partly(s, k - 1, c) <=> \A i \in 1..c : x[i] = h[i]
    BY <2>1, <2>2 DEF partly
  <2> QED BY Zenon, <2>3, <2>4 DEF x, h
<1>4. \A c \in 1..3 : c <= k - 1 <=> k > c  BY <1>0
<1>5. \A c \in 1..3 : c <= k - 1 /\ partly(s, k - 1, c) <=>
        k > c /\ SubSeq(s, k - c, k - 1) = SubSeq(Hev1, 1, c)
  BY Zenon, <1>3, <1>4
<1>6. hasHev1(s, k) <=> k + 3 <= Len(s) /\ SubSeq(s, k, k + 3) = Hev1
  <2>1. hasHev1(s, k) => k + 3 <= Len(s)  BY DEF hasHev1
  <2> QED BY Zenon, <1>2, <2>1
<1> QED BY Zenon, <1>5, <1>6

LEMMA Hev1IsReplaced ==
  ASSUME NEW C, file \in Seq(C)
  PROVE  ReplacesHev1
<1> DEFINE D == C \cup {"h", "v", "c", "1"}
<1>1. file \in Seq(D) /\ Hvc1 \in Seq(D)
  <2>1. file \in Seq(D)
    <3>1. file \in [1..Len(file) -> C] /\ Len(file) \in Nat  BY LenProperties
    <3>2. file = [i \in 1..Len(file) |-> file[i]] /\ \A i \in 1..Len(file) : file[i] \in D  BY <3>1
    <3> HIDE DEF D
    <3>3. file \in [1..Len(file) -> D]  BY <3>2
    <3> QED BY <3>1, <3>3
  <2>2. "h" \in D /\ "v" \in D /\ "c" \in D /\ "1" \in D  OBVIOUS
  <2> HIDE DEF D
  <2>3. Hvc1 \in Seq(D)  BY <2>2 DEF Hvc1
  <2> QED BY <2>1, <2>3
<1> HIDE DEF D
<1>2. PICK s \in Seq(D), w \in Seq(D) : s = file /\ w = Hvc1 /\ Len(w) = 4
  BY <1>1, Hev1Is
<1> DEFINE k == search(s, Hev1)
           after == replaceStringInFile(s, Hev1, w)
<1>3. DOMAIN s = 1..Len(s) /\ Len(s) \in Nat  BY LenProperties
<1>4. /\ k \in Int
      /\ k # 0 => k \in 1..Len(s) /\ hasHev1(s, k)
      /\ \A i \in 1..Len(s) :
           hasHev1(s, i) /\ k = 0 => \E c \in 1..3 : c <= i - 1 /\ partly(s, i - 1, c)
  BY Zenon, SearchSound
<1>5. k # 0 => /\ after = SubSeq(s, 1, k - 1) \o w \o SubSeq(s, k + 4, Len(s))
               /\ k \in 1..Len(s) /\ k + 3 <= Len(s)
  <2>1. k # 0 => k + 3 <= Len(s)  BY <1>4 DEF hasHev1
  <2> QED BY <1>4, <2>1, Hev1Is DEF replaceStringInFile
<1>6. k = 0 => after = s  BY DEF replaceStringInFile
<1> HIDE DEF k, after
<1>7. /\ Len(after) = Len(s)
      /\ \A i \in 1..Len(s) :
           after[i] = IF k # 0 /\ i \in k..(k + 3) THEN w[i - k + 1] ELSE s[i]
  <2>1. CASE k = 0
    BY <1>6, <2>1
  <2>2. CASE k # 0
    <3> DEFINE a == SubSeq(s, 1, k - 1) \o w \o SubSeq(s, k + 4, Len(s))
    <3>1. PICK j \in 1..Len(s) : j = k /\ j + 3 <= Len(s)  BY <1>5, <2>2
    <3>2. putAt(s, w, j)
      <4>1. Len(w) = 4 /\ j + 3 <= Len(s)  BY <1>2, <3>1
      <4> QED BY <4>1, PutInPlace
    <3>3. /\ Len(a) = Len(s)
          /\ \A i \in 1..Len(s) : a[i] = IF i \in k..(k + 3) THEN w[(i - k) + 1] ELSE s[i]
      BY Zenon, <3>1, <3>2 DEF putAt
    <3>4. after = a  BY <1>5, <2>2
    <3> HIDE DEF a
    <3> QED BY <2>2, <3>3, <3>4
  <2> QED BY <2>1, <2>2
<1>8. ASSUME NEW i \in 1..Len(s)
      PROVE  /\ hasHev1(s, i) <=> occurs(i)
             /\ (\E c \in 1..3 : c <= i - 1 /\ partly(s, i - 1, c)) <=> behindPartialMatch(i)
  <2>1. /\ hasHev1(s, i) <=> i + 3 <= Len(s) /\ SubSeq(s, i, i + 3) = Hev1
        /\ \A c \in 1..3 : c <= i - 1 /\ partly(s, i - 1, c) <=>
             i > c /\ SubSeq(s, i - c, i - 1) = SubSeq(Hev1, 1, c)
    BY OccursIs
  <2> QED BY Zenon, <1>2, <2>1 DEF occurs, behindPartialMatch
<1>9. /\ (\E i \in DOMAIN file : occurs(i) /\ ~behindPartialMatch(i)) => k # 0
      /\ k # 0 => occurs(k)
  <2>1. \A i \in DOMAIN file : i \in 1..Len(s)  BY <1>2, <1>3
  <2>2. k # 0 => occurs(k)  BY <1>4, <1>8
  <2>3. ASSUME NEW i \in DOMAIN file, occurs(i), ~behindPartialMatch(i) PROVE k # 0
    BY <1>4, <1>8, <2>1, <2>3
  <2> QED BY <2>2, <2>3
<1>10. /\ Len(after) = Len(file)
       /\ \A i \in DOMAIN file :
            after[i] = IF k # 0 /\ i \in k..(k + 3) THEN Hvc1[i - k + 1] ELSE file[i]
  BY Zenon, <1>2, <1>3, <1>7
<1> QED BY Zenon, <1>2, <1>9, <1>10 DEF ReplacesHev1, k, after

-----------------------------------------------------------------------------
(***************************************************************************)
(* FlattenSeq, part by part.                                               *)
(***************************************************************************)
recurs(n, step, base, W) == W[0] = base /\ \A k \in 1..n : W[k] = step[<<W[k - 1], k>>]

LEMMA RecursionExists ==
  ASSUME NEW n \in Nat, NEW A, NEW base \in A, NEW step \in [A \X (1..n) -> A]
  PROVE  \E W \in [0..n -> A] : recurs(n, step, base, W)
<1>1. PICK g \in [SUBSET (1..n) -> A] : folds(n, step, base, g)  BY FoldExists
<1> DEFINE W == [k \in 0..n |-> g[1..k]]
<1>2. \A k \in 0..n : 1..k \in SUBSET (1..n)  OBVIOUS
<1>3. W \in [0..n -> A]  BY <1>1, <1>2
<1>4. W[0] = base
  <2>1. 1..0 = {} /\ 0 \in 0..n /\ {} \in SUBSET (1..n)  OBVIOUS
  <2>2. g[{}] = base  BY <1>1, <2>1 DEF folds
  <2> QED BY <2>1, <2>2
<1>5. ASSUME NEW k \in 1..n PROVE W[k] = step[<<W[k - 1], k>>]
  <2>1. 1..k \in SUBSET (1..n) /\ 1..k # {} /\ top(1..k) = k /\ (1..k) \ {k} = 1..(k - 1)
    BY TopOfPrefix
  <2>2. g[1..k] = step[<<g[(1..k) \ {top(1..k)}], top(1..k)>>]  BY Zenon, <1>1, <2>1 DEF folds
  <2>3. g[1..k] = step[<<g[1..(k - 1)], k>>]  BY Zenon, <2>1, <2>2
  <2>4. k \in 0..n /\ k - 1 \in 0..n  OBVIOUS
  <2> QED BY <2>3, <2>4
<1> HIDE DEF W
<1> QED BY <1>3, <1>4, <1>5 DEF recurs

flat(q, F) ==
  /\ F[0] = <<>>
  /\ \A k \in 1..Len(q) : F[k] = cat(F[k - 1], q[k])
  /\ FlattenSeq(q) = F[Len(q)]

LEMMA FlattenIs ==
  ASSUME NEW C, NEW q \in Seq(Seq(C))
  PROVE  \E F \in [0..Len(q) -> Seq(C)] : flat(q, F)
<1> DEFINE n == Len(q)
           A == Seq(C)
           step == [x \in A \X (1..n) |-> cat(x[1], q[x[2]])]
<1>1. n \in Nat /\ (\A k \in 1..n : q[k] \in A) /\ <<>> \in A
  BY LenProperties, ElementOfSeq, EmptySeq
<1>2. \A x \in A, k \in 1..n : cat(x, q[k]) \in A  BY <1>1, CatTyped
<1>3. step \in [A \X (1..n) -> A]
  <2> HIDE DEF A, n
  <2> QED BY <1>2
<1>4. PICK F \in [0..n -> A] : recurs(n, step, <<>>, F)
  <2> HIDE DEF step, A, n
  <2> QED BY <1>1, <1>3, RecursionExists
<1>5. ASSUME NEW k \in 1..n PROVE F[k] = cat(F[k - 1], q[k])
  <2>1. k - 1 \in 0..n  BY <1>1
  <2>2. F[k - 1] \in A  BY <1>4, <2>1
  <2>3. F[k] = step[<<F[k - 1], k>>]  BY <1>4 DEF recurs
  <2> HIDE DEF A, n
  <2> QED BY <2>2, <2>3
<1> HIDE DEF step
<1>6. F[0] = <<>>  BY <1>4 DEF recurs
<1>7. FlattenSeq(q) = F[n]
  <2>1. CASE n = 0
    <3>1. q = <<>>  BY <2>1, EmptySeq
    <3>2. FlattenSeq(q) = q  BY <2>1 DEF FlattenSeq
    <3> QED BY <1>6, <2>1, <3>1, <3>2
  <2>2. CASE n # 0
    <3> DEFINE eq(h) == h = [i \in 1..n |-> IF i = 1 THEN q[i] ELSE h[i - 1] \o q[i]]
               flatten == CHOOSE h : eq(h)
               f == [i \in 1..n |-> F[i]]
    <3>1. FlattenSeq(q) = flatten[n]  BY <2>2 DEF FlattenSeq
    <3>2. eq(f)
      <4>1. ASSUME NEW i \in 1..n PROVE f[i] = IF i = 1 THEN q[i] ELSE f[i - 1] \o q[i]
        <5>1. F[i] = cat(F[i - 1], q[i])  BY <1>5
        <5>4. cat(<<>>, q[i]) = q[i]
          <6>1. q[i] \in Seq(C)  BY <1>1
          <6> QED BY <6>1, Cat
        <5>2. i = 1 => cat(F[i - 1], q[i]) = q[i]
          <6>1. i = 1 => F[i - 1] = <<>>  BY <1>6
          <6> QED BY <5>4, <6>1
        <5>3. i # 1 => i - 1 \in 1..n  BY <1>1
        <5> QED BY <5>1, <5>2, <5>3 DEF cat
      <4>2. f = [i \in 1..n |-> f[i]]  OBVIOUS
      <4> HIDE DEF f, n
      <4> QED BY <4>1, <4>2
    <3> HIDE DEF f
    <3>3. eq(flatten)
      <4> HIDE DEF eq
      <4> QED BY <3>2
    <3> HIDE DEF flatten, n, A
    <3> DEFINE G == {k \in 0..n : k # 0 => flatten[k] = F[k]}
    <3>4. 0 \in G  BY <1>1
    <3>5. ASSUME NEW k \in 1..n, k - 1 \in G PROVE k \in G
      <4>1. k \in 0..n /\ k - 1 \in 0..n  BY <1>1
      <4>2. flatten[k] = IF k = 1 THEN q[k] ELSE flatten[k - 1] \o q[k]  BY <3>3
      <4>3. F[k] = cat(F[k - 1], q[k])  BY <1>5
      <4>4. CASE k = 1
        <5>1. cat(<<>>, q[k]) = q[k]  BY <1>1, Cat DEF A
        <5>2. F[k - 1] = <<>>  BY <1>6, <4>4
        <5> QED BY <4>1, <4>2, <4>3, <4>4, <5>1, <5>2
      <4>5. CASE k # 1
        <5>1. flatten[k - 1] = F[k - 1]  BY <3>5, <4>1, <4>5
        <5> QED BY <4>1, <4>2, <4>3, <4>5, <5>1 DEF cat
      <4> QED BY <4>4, <4>5
    <3>6. G = 0..n
      <4>1. G \in SUBSET (0..n)  OBVIOUS
      <4> HIDE DEF G
      <4> QED BY <1>1, <3>4, <3>5, <4>1, Induct
    <3>7. n \in G  BY <1>1, <3>6
    <3> QED BY <2>2, <3>1, <3>7
  <2> QED BY <2>1, <2>2
<1>8. flat(q, F)  BY <1>5, <1>6, <1>7 DEF flat
<1> QED BY <1>4, <1>8

\* Where the parts lie.
parts(q, F) ==
  /\ Len(F[0]) = 0
  /\ \A k \in 0..Len(q) : Len(F[k]) \in Nat /\ Len(F[k]) <= Len(F[Len(q)])
  /\ \A k \in 1..Len(q) : Len(F[k]) = Len(F[k - 1]) + Len(q[k])
  /\ \A k \in 0..Len(q) : \A i \in 1..Len(F[k]) : F[Len(q)][i] = F[k][i]
  /\ \A k \in 1..Len(q) : \A i \in 1..Len(q[k]) : F[Len(q)][Len(F[k - 1]) + i] = q[k][i]

LEMMA CatAt ==
  ASSUME NEW C, NEW s \in Seq(C), NEW t \in Seq(C)
  PROVE  /\ Len(cat(s, t)) = Len(s) + Len(t) /\ Len(s) \in Nat /\ Len(t) \in Nat
         /\ \A i \in 1..Len(s) : cat(s, t)[i] = s[i]
         /\ \A i \in 1..Len(t) : cat(s, t)[Len(s) + i] = t[i]
<1>1. Len(s) \in Nat /\ Len(t) \in Nat  BY LenProperties
<1>2. /\ Len(cat(s, t)) = Len(s) + Len(t)
      /\ \A i \in 1..(Len(s) + Len(t)) : cat(s, t)[i] = IF i <= Len(s) THEN s[i] ELSE t[i - Len(s)]
  BY ConcatProperties DEF cat
<1>3. \A i \in 1..Len(s) : i \in 1..(Len(s) + Len(t)) /\ i <= Len(s)  BY <1>1
<1>4. \A i \in 1..Len(t) : /\ Len(s) + i \in 1..(Len(s) + Len(t)) /\ ~(Len(s) + i <= Len(s))
                           /\ (Len(s) + i) - Len(s) = i
  BY <1>1
<1> QED BY <1>1, <1>2, <1>3, <1>4

LEMMA FlattenParts ==
  ASSUME NEW C, NEW q \in Seq(Seq(C)), NEW F \in [0..Len(q) -> Seq(C)], flat(q, F)
  PROVE  parts(q, F)
<1> DEFINE n == Len(q)
<1>1. n \in Nat /\ n \in 0..n /\ 0 \in 0..n /\ (\A k \in 1..n : q[k] \in Seq(C))
      /\ \A k \in 0..n : F[k] \in Seq(C)
  BY LenProperties, ElementOfSeq
<1>2. F[0] = <<>> /\ \A k \in 1..n : F[k] = cat(F[k - 1], q[k])  BY DEF flat
<1> HIDE DEF n
<1>3. Len(F[0]) = 0 /\ \A k \in 0..n : Len(F[k]) \in Nat  BY <1>1, <1>2, LenProperties
<1>4. ASSUME NEW k \in 1..n
      PROVE  /\ k - 1 \in 0..n /\ k \in 0..n
             /\ Len(F[k]) = Len(F[k - 1]) + Len(q[k]) /\ Len(q[k]) \in Nat
             /\ \A i \in 1..Len(F[k - 1]) : F[k][i] = F[k - 1][i]
             /\ \A i \in 1..Len(q[k]) : F[k][Len(F[k - 1]) + i] = q[k][i]
  <2>1. k - 1 \in 0..n /\ k \in 0..n  BY <1>1
  <2>2. F[k - 1] \in Seq(C) /\ q[k] \in Seq(C) /\ F[k] = cat(F[k - 1], q[k])  BY <1>1, <1>2, <2>1
  <2> DEFINE s == F[k - 1]
             t == q[k]
  <2> HIDE DEF s, t
  <2>3. /\ Len(cat(s, t)) = Len(s) + Len(t) /\ Len(s) \in Nat /\ Len(t) \in Nat
        /\ \A i \in 1..Len(s) : cat(s, t)[i] = s[i]
        /\ \A i \in 1..Len(t) : cat(s, t)[Len(s) + i] = t[i]
    <3>1. s \in Seq(C) /\ t \in Seq(C)  BY <2>2 DEF s, t
    <3> QED BY <3>1, CatAt
  <2>4. F[k] = cat(s, t)  BY <2>2 DEF s, t
  <2> QED BY Zenon, <2>1, <2>3, <2>4 DEF s, t
<1> DEFINE begins(k, m) == /\ Len(F[k]) <= Len(F[m])
                           /\ \A i \in 1..Len(F[k]) : F[m][i] = F[k][i]
<1>5. ASSUME NEW k \in 0..n PROVE begins(k, n)
  <2> DEFINE G == {m \in 0..n : k <= m => begins(k, m)}
  <2>1. 0 \in G
    <3>1. k <= 0 => k = 0  BY <1>1
    <3> QED BY <1>1, <1>3, <3>1
  <2>2. ASSUME NEW m \in 1..n, m - 1 \in G PROVE m \in G
    <3>1. m \in 0..n /\ k \in Nat /\ m \in Nat /\ m - 1 \in 0..n /\ m - 1 < m  BY <1>1
    <3>2. CASE k <= m - 1
      <4>1. begins(k, m - 1)
        <5> HIDE DEF begins
        <5> QED BY <2>2, <3>2
      <4>2. /\ Len(F[m]) = Len(F[m - 1]) + Len(q[m]) /\ Len(q[m]) \in Nat
            /\ \A i \in 1..Len(F[m - 1]) : F[m][i] = F[m - 1][i]
        BY <1>4
      <4>3. Len(F[m - 1]) \in Nat /\ Len(F[k]) \in Nat /\ Len(F[m]) \in Nat  BY <1>3, <3>1
      <4>4. Len(F[k]) <= Len(F[m]) /\ \A i \in 1..Len(F[k]) : i \in 1..Len(F[m - 1])
        <5>1. Len(F[k]) <= Len(F[m - 1])  BY <4>1
        <5>2. \A a, b, c, d \in Nat : a <= b /\ c = b + d => a <= c /\ \A i \in 1..a : i \in 1..b
          OBVIOUS
        <5> QED BY Zenon, <4>2, <4>3, <5>1, <5>2
      <4>5. begins(k, m)  BY <4>1, <4>2, <4>4
      <4> HIDE DEF begins
      <4> QED BY <3>1, <4>5
    <3>3. CASE k = m
      <4>1. begins(m, m)  BY <1>3, <3>1
      <4> HIDE DEF begins
      <4> QED BY <3>1, <3>3, <4>1
    <3>4. CASE k > m
      <4> HIDE DEF begins
      <4> QED BY <3>1, <3>4
    <3> QED BY <3>1, <3>2, <3>3, <3>4
  <2>3. G = 0..n
    <3>1. G \in SUBSET (0..n)  OBVIOUS
    <3> HIDE DEF G
    <3> QED BY <1>1, <2>1, <2>2, <3>1, Induct
  <2>5. k <= n  BY <1>1
  <2>4. n \in G
    <3> HIDE DEF G
    <3> QED BY <1>1, <2>3
  <2> HIDE DEF begins
  <2> QED BY <2>4, <2>5
<1>6. ASSUME NEW k \in 1..n, NEW i \in 1..Len(q[k])
      PROVE  F[n][Len(F[k - 1]) + i] = q[k][i]
  <2>1. /\ k \in 0..n /\ k - 1 \in 0..n /\ Len(F[k]) = Len(F[k - 1]) + Len(q[k]) /\ Len(q[k]) \in Nat
        /\ F[k][Len(F[k - 1]) + i] = q[k][i]
    BY <1>4
  <2>2. Len(F[k - 1]) \in Nat  BY <1>3, <2>1
  <2>3. Len(F[k - 1]) + i \in 1..Len(F[k])
    <3>1. \A a, b \in Nat : \A j \in 1..b : a + j \in 1..(a + b)  OBVIOUS
    <3> QED BY Zenon, <2>1, <2>2, <3>1
  <2> QED BY <1>5, <2>1, <2>3
<1>7. \A k \in 0..n : /\ Len(F[k]) <= Len(F[n])
                      /\ \A i \in 1..Len(F[k]) : F[n][i] = F[k][i]
  BY <1>5
<1> QED BY <1>3, <1>4, <1>6, <1>7 DEF parts, n

-----------------------------------------------------------------------------
(***************************************************************************)
(* Byte formats: the parameter sets.                                       *)
(***************************************************************************)

short(x) == Len(x) < 65536
hasBytes(C) == \A v \in Nat : v < 256 => v \in C

LEMMA CatMakes ==
  ASSUME NEW C, NEW s \in Seq(C), NEW t \in Seq(C)
  PROVE  cat(s, t) \in Seq(C) /\ Len(cat(s, t)) = Len(s) + Len(t)
BY Cat

\* What lies in data behind the first bytes.
lies(bytes, at, x) == at + Len(x) <= Len(bytes) /\ \A i \in 1..Len(x) : bytes[at + i] = x[i]

LEMMA LiesParts ==
  ASSUME NEW C, NEW bytes, NEW at \in Nat, NEW s \in Seq(C), NEW t \in Seq(C),
         Len(bytes) \in Nat, lies(bytes, at, cat(s, t))
  PROVE  lies(bytes, at, s) /\ lies(bytes, at + Len(s), t)
<1>1. /\ Len(cat(s, t)) = Len(s) + Len(t) /\ Len(s) \in Nat /\ Len(t) \in Nat
      /\ \A i \in 1..Len(s) : cat(s, t)[i] = s[i]
      /\ \A i \in 1..Len(t) : cat(s, t)[Len(s) + i] = t[i]
  BY CatAt
<1>2. /\ at + Len(cat(s, t)) <= Len(bytes)
      /\ \A i \in 1..Len(cat(s, t)) : bytes[at + i] = cat(s, t)[i]
  BY DEF lies
<1>3. at + Len(s) <= Len(bytes) /\ (at + Len(s)) + Len(t) <= Len(bytes)  BY <1>1, <1>2
<1>4. ASSUME NEW i \in 1..Len(s) PROVE bytes[at + i] = s[i]
  <2>1. i \in 1..Len(cat(s, t))  BY <1>1
  <2> QED BY <1>1, <1>2, <2>1
<1>5. ASSUME NEW i \in 1..Len(t) PROVE bytes[(at + Len(s)) + i] = t[i]
  <2>1. Len(s) + i \in 1..Len(cat(s, t)) /\ at + (Len(s) + i) = (at + Len(s)) + i  BY <1>1
  <2> QED BY <1>1, <1>2, <2>1
<1> QED BY <1>3, <1>4, <1>5 DEF lies

LEMMA LiesIs ==
  ASSUME NEW C, NEW bytes \in Seq(C), NEW at \in Nat, NEW x \in Seq(C), lies(bytes, at, x)
  PROVE  SubSeq(bytes, at + 1, at + Len(x)) = x
<1> DEFINE y == SubSeq(bytes, at + 1, at + Len(x))
<1>1. Len(bytes) \in Nat /\ Len(x) \in Nat /\ at + Len(x) <= Len(bytes)
  BY LenProperties DEF lies
<1>2. y \in Seq(C) /\ Len(y) = Len(x) /\ \A i \in 1..Len(x) : y[i] = bytes[at + i]
  BY <1>1, SubSeqProperties
<1> HIDE DEF y
<1>3. \A i \in 1..Len(x) : y[i] = x[i]  BY <1>2 DEF lies
<1>4. y = x  BY <1>2, <1>3, SeqEqual
<1> QED BY <1>4 DEF y

\* A length of two bytes and as many bytes as it says.
LEMMA SizedIs ==
  ASSUME NEW C, hasBytes(C), NEW x \in Seq(C), short(x)
  PROVE  LET two == twoBytes(Len(x))
         IN /\ sized(x) = cat(two, x) /\ two \in Seq(C) /\ Len(two) = 2
            /\ number(two) = Len(x)
<1> DEFINE n == Len(x)
           hi == n \div 256
           lo == n % 256
<1>0. n \in Nat /\ n < 65536  BY LenProperties DEF short
<1> HIDE DEF n
<1>1. n \in Nat /\ hi \in Nat /\ hi < 256 /\ lo \in Nat /\ lo < 256 /\ n = 256 * hi + lo  BY <1>0
<1>2. byte(hi) = hi /\ byte(n) = lo
  <2>1. \A v \in Nat : v < 256 => v % 256 = v  OBVIOUS
  <2>2. hi % 256 = hi
    <3> HIDE DEF hi
    <3> QED BY <1>1, <2>1
  <2> QED BY <2>2 DEF byte
<1>3. twoBytes(n) = <<hi, lo>>  BY <1>2 DEF twoBytes
<1> HIDE DEF hi, lo, n
<1>4. number(<<hi, lo>>) = n  BY <1>1 DEF number
<1>5. <<hi, lo>> \in Seq(C) /\ Len(<<hi, lo>>) = 2
  <2>1. hi \in C /\ lo \in C  BY <1>1 DEF hasBytes
  <2> QED BY <2>1
<1> QED BY <1>3, <1>4, <1>5 DEF sized, cat, n

LEMMA SizedTyped ==
  ASSUME NEW C, hasBytes(C), NEW x \in Seq(C), short(x)
  PROVE  sized(x) \in Seq(C) /\ Len(sized(x)) = 2 + Len(x)
<1> DEFINE two == twoBytes(Len(x))
<1>1. sized(x) = cat(two, x) /\ two \in Seq(C) /\ Len(two) = 2
  BY SizedIs
<1> HIDE DEF two
<1>3. two \in Seq(C)  BY <1>1
<1>4. cat(two, x) \in Seq(C) /\ Len(cat(two, x)) = Len(two) + Len(x)  BY Zenon, <1>3, CatMakes
<1>2. cat(two, x) \in Seq(C) /\ Len(cat(two, x)) = 2 + Len(x)  BY Zenon, <1>1, <1>4
<1> QED BY <1>1, <1>2

LEMMA NaluIsRead ==
  ASSUME NEW C, hasBytes(C), NEW bytes \in Seq(C), NEW at \in Nat, NEW x \in Seq(C), short(x),
         lies(bytes, at, sized(x))
  PROVE  /\ naluAt(bytes, at + 1) = x
         /\ sized(x) \in Seq(C) /\ Len(sized(x)) = 2 + Len(x)
<1> DEFINE two == twoBytes(Len(x))
<1>1. /\ sized(x) = cat(two, x) /\ two \in Seq(C) /\ Len(two) = 2
      /\ number(two) = Len(x)
  BY SizedIs
<1> HIDE DEF two
<1>2. Len(bytes) \in Nat  BY LenProperties
<1>3. lies(bytes, at, two) /\ lies(bytes, at + 2, x)
  <2>1. lies(bytes, at, cat(two, x)) /\ two \in Seq(C)  BY <1>1
  <2>2. lies(bytes, at, two) /\ lies(bytes, at + Len(two), x)  BY Zenon, <1>2, <2>1, LiesParts
  <2>3. at + Len(two) = at + 2  BY Zenon, <1>1
  <2> QED BY Zenon, <2>2, <2>3
<1>4. SubSeq(bytes, at + 1, at + 2) = two  BY <1>1, <1>3, LiesIs
<1>5. SubSeq(bytes, (at + 2) + 1, (at + 2) + Len(x)) = x
  <2>1. at + 2 \in Nat  OBVIOUS
  <2> QED BY <1>3, <2>1, LiesIs
<1>6. /\ (at + 1) + 1 = at + 2 /\ (at + 1) + 2 = (at + 2) + 1
      /\ (at + 1) + 1 + Len(x) = (at + 2) + Len(x)
  OBVIOUS
<1>7. naluAt(bytes, at + 1) = x
  <2>1. naluAt(bytes, at + 1) =
          SubSeq(bytes, (at + 1) + 2,
                 (at + 1) + 1 + number(SubSeq(bytes, at + 1, (at + 1) + 1)))
    BY DEF naluAt
  <2> QED BY Zenon, <1>1, <1>4, <1>5, <1>6, <2>1
<1> QED BY Zenon, <1>7, SizedTyped

LEMMA AvccIsRead ==
  ASSUME NEW C, hasBytes(C), NEW s \in Seq(C), NEW p \in Seq(C), 4 <= Len(s), short(s), short(p)
  PROVE  readAvcc(makeAvcc(s, p)) =
           [version |-> 1, profile |-> SubSeq(s, 2, 4), lengthSize |-> 4, sets |-> <<s, p>>]
<1> DEFINE prof == SubSeq(s, 2, 4)
           sizedS == sized(s)
           sizedP == sized(p)
           x1 == <<1>>
           x225 == <<225>>
           x255 == <<255>>
           d1 == <<1>>
           d2 == cat(d1, prof)
           d3 == cat(d2, x255)
           d4 == cat(d3, x225)
           d5 == cat(d4, sizedS)
           d6 == cat(d5, x1)
           d7 == cat(d6, sizedP)
<1>1. makeAvcc(s, p) = d7  BY DEF makeAvcc, cat
<1>2. prof \in Seq(C) /\ Len(prof) = 3
  <2>1. \A i \in 2..4 : s[i] \in C  BY LenProperties, ElementOfSeq
  <2> QED BY <2>1, SubSeqProperties
<1>3. /\ sizedS \in Seq(C) /\ Len(sizedS) = 2 + Len(s)
      /\ sizedP \in Seq(C) /\ Len(sizedP) = 2 + Len(p)
  <2>1. short(s)  OBVIOUS
  <2> QED BY <2>1, SizedTyped
<1>0. 1 \in C /\ 225 \in C /\ 255 \in C  BY DEF hasBytes
<1>4. d1 \in Seq(C) /\ Len(d1) = 1 /\ d1[1] = 1  BY <1>0
<1>5. /\ x1 \in Seq(C) /\ Len(x1) = 1
      /\ x225 \in Seq(C) /\ Len(x225) = 1
      /\ x255 \in Seq(C) /\ Len(x255) = 1 /\ x255[1] = 255
  BY <1>0
<1> HIDE DEF x1, x225, x255
<1> HIDE DEF prof, sizedS, sizedP
<1>6. d2 \in Seq(C) /\ Len(d2) = 4
  <2> HIDE DEF d1
  <2>1. d1 \in Seq(C) /\ prof \in Seq(C)  BY <1>2, <1>4
  <2>2. cat(d1, prof) \in Seq(C) /\ Len(cat(d1, prof)) = Len(d1) + Len(prof)
    BY Zenon, <2>1, CatMakes
  <2> QED BY <2>2, <1>2, <1>4
<1> HIDE DEF d1
<1>7. d3 \in Seq(C) /\ Len(d3) = 5
  <2> HIDE DEF d2
  <2>1. d2 \in Seq(C) /\ x255 \in Seq(C)  BY <1>5, <1>6
  <2>2. cat(d2, x255) \in Seq(C) /\ Len(cat(d2, x255)) = Len(d2) + Len(x255)
    BY Zenon, <2>1, CatMakes
  <2> QED BY <2>2, <1>5, <1>6
<1>8. d4 \in Seq(C) /\ Len(d4) = 6
  <2> HIDE DEF d3
  <2>1. d3 \in Seq(C) /\ x225 \in Seq(C)  BY <1>5, <1>7
  <2>2. cat(d3, x225) \in Seq(C) /\ Len(cat(d3, x225)) = Len(d3) + Len(x225)
    BY Zenon, <2>1, CatMakes
  <2> QED BY <2>2, <1>5, <1>7
<1>9. d5 \in Seq(C) /\ Len(d5) = 8 + Len(s)
  <2> HIDE DEF d4
  <2>1. d4 \in Seq(C) /\ sizedS \in Seq(C)  BY <1>3, <1>8
  <2>2. cat(d4, sizedS) \in Seq(C) /\ Len(cat(d4, sizedS)) = Len(d4) + Len(sizedS)
    BY Zenon, <2>1, CatMakes
  <2> QED BY <2>2, <1>3, <1>8
<1>10. d6 \in Seq(C) /\ Len(d6) = 9 + Len(s)
  <2> HIDE DEF d5
  <2>1. d5 \in Seq(C) /\ x1 \in Seq(C)  BY <1>5, <1>9
  <2>2. cat(d5, x1) \in Seq(C) /\ Len(cat(d5, x1)) = Len(d5) + Len(x1)
    BY Zenon, <2>1, CatMakes
  <2> QED BY <2>2, <1>5, <1>9
<1>11. d7 \in Seq(C) /\ Len(d7) = 11 + Len(s) + Len(p)
  <2> HIDE DEF d6
  <2>1. d6 \in Seq(C) /\ sizedP \in Seq(C)  BY <1>3, <1>10
  <2>2. cat(d6, sizedP) \in Seq(C) /\ Len(cat(d6, sizedP)) = Len(d6) + Len(sizedP)
    BY Zenon, <2>1, CatMakes
  <2> QED BY <2>2, <1>3, <1>10
<1>12. lies(d7, 0, d7) /\ Len(d7) \in Nat
  <2> HIDE DEF d7
  <2>1. Len(d7) \in Nat  BY <1>11, LenProperties
  <2>2. 0 + Len(d7) <= Len(d7) /\ \A i \in 1..Len(d7) : 0 + i = i  BY <2>1
  <2> QED BY <2>1, <2>2 DEF lies
<1>13. lies(d7, 0, d6) /\ lies(d7, 9 + Len(s), sizedP)
  <2>1. lies(d7, 0, cat(d6, sizedP))  BY <1>12
  <2> HIDE DEF d6, d7
  <2>2. 0 \in Nat /\ d6 \in Seq(C) /\ sizedP \in Seq(C)  BY <1>3, <1>10
  <2>3. lies(d7, 0, d6) /\ lies(d7, 0 + Len(d6), sizedP)
    BY Zenon, <1>12, <2>1, <2>2, LiesParts
  <2>4. 0 + Len(d6) = 9 + Len(s)  BY <1>3, <1>10
  <2> QED BY Zenon, <2>3, <2>4
<1> HIDE DEF d7
<1>14. lies(d7, 0, d5)
  <2>1. lies(d7, 0, cat(d5, x1))  BY <1>13
  <2> HIDE DEF d5, d6
  <2>2. 0 \in Nat /\ d5 \in Seq(C) /\ x1 \in Seq(C)  BY <1>5, <1>9
  <2>3. lies(d7, 0, d5) /\ lies(d7, 0 + Len(d5), x1)
    BY Zenon, <1>12, <2>1, <2>2, LiesParts
  <2> QED BY <2>3
<1> HIDE DEF d6
<1>15. lies(d7, 0, d4) /\ lies(d7, 6, sizedS)
  <2>1. lies(d7, 0, cat(d4, sizedS))  BY <1>14
  <2> HIDE DEF d4, d5
  <2>2. 0 \in Nat /\ d4 \in Seq(C) /\ sizedS \in Seq(C)  BY <1>3, <1>8
  <2>3. lies(d7, 0, d4) /\ lies(d7, 0 + Len(d4), sizedS)
    BY Zenon, <1>12, <2>1, <2>2, LiesParts
  <2>4. 0 + Len(d4) = 6  BY <1>3, <1>8
  <2> QED BY Zenon, <2>3, <2>4
<1> HIDE DEF d5
<1>16. lies(d7, 0, d3)
  <2>1. lies(d7, 0, cat(d3, x225))  BY <1>15
  <2> HIDE DEF d3, d4
  <2>2. 0 \in Nat /\ d3 \in Seq(C) /\ x225 \in Seq(C)  BY <1>5, <1>7
  <2>3. lies(d7, 0, d3) /\ lies(d7, 0 + Len(d3), x225)
    BY Zenon, <1>12, <2>1, <2>2, LiesParts
  <2> QED BY <2>3
<1> HIDE DEF d4
<1>17. lies(d7, 0, d2) /\ lies(d7, 4, x255)
  <2>1. lies(d7, 0, cat(d2, x255))  BY <1>16
  <2> HIDE DEF d2, d3
  <2>2. 0 \in Nat /\ d2 \in Seq(C) /\ x255 \in Seq(C)  BY <1>5, <1>6
  <2>3. lies(d7, 0, d2) /\ lies(d7, 0 + Len(d2), x255)
    BY Zenon, <1>12, <2>1, <2>2, LiesParts
  <2>4. 0 + Len(d2) = 4  BY <1>5, <1>6
  <2> QED BY Zenon, <2>3, <2>4
<1> HIDE DEF d3
<1>18. lies(d7, 0, d1) /\ lies(d7, 1, prof)
  <2>1. lies(d7, 0, cat(d1, prof))  BY <1>17
  <2> HIDE DEF d2
  <2>2. 0 \in Nat /\ d1 \in Seq(C) /\ prof \in Seq(C)  BY <1>2, <1>4
  <2>3. lies(d7, 0, d1) /\ lies(d7, 0 + Len(d1), prof)
    BY Zenon, <1>12, <2>1, <2>2, LiesParts
  <2>4. 0 + Len(d1) = 1  BY <1>2, <1>4
  <2> QED BY Zenon, <2>3, <2>4
<1> HIDE DEF d2
<1>19. d7[1] = 1
  <2>1. 1 \in 1..Len(d1) /\ 0 + 1 = 1  BY <1>4
  <2> QED BY <1>4, <1>18, <2>1 DEF lies
<1>20. SubSeq(d7, 2, 4) = prof
  <2>1. SubSeq(d7, 1 + 1, 1 + Len(prof)) = prof  BY <1>2, <1>11, <1>18, LiesIs
  <2> QED BY <1>2, <2>1
<1>21. (d7[5] % 4) + 1 = 4
  <2>1. 1 \in 1..Len(x255) /\ 4 + 1 = 5 /\ x255[1] = 255  BY <1>5
  <2>2. d7[5] = 255  BY <1>17, <2>1 DEF lies
  <2> QED BY <2>2
<1>22. naluAt(d7, 7) = s
  <2>1. 6 \in Nat /\ 6 + 1 = 7 /\ short(s) /\ lies(d7, 6, sized(s))
    BY <1>15 DEF sizedS
  <2>2. naluAt(d7, 6 + 1) = s  BY <1>11, <2>1, NaluIsRead
  <2> QED BY <2>2
<1>23. naluAt(d7, 10 + Len(s)) = p
  <2>1. 9 + Len(s) \in Nat /\ (9 + Len(s)) + 1 = 10 + Len(s)  OBVIOUS
  <2>2. lies(d7, 9 + Len(s), sized(p))  BY <1>13 DEF sizedP
  <2>3. naluAt(d7, (9 + Len(s)) + 1) = p  BY <1>11, <2>1, <2>2, NaluIsRead
  <2> QED BY <2>1, <2>3
<1>24. readAvcc(d7) = [version |-> 1, profile |-> prof, lengthSize |-> 4, sets |-> <<s, p>>]
  BY Zenon, <1>19, <1>20, <1>21, <1>22, <1>23 DEF readAvcc
<1> QED BY <1>1, <1>24 DEF prof

typeBytes(type) == <<type, 0, 1>>
isType(type) == type \in Nat /\ type < 64

LEMMA ArrayTyped ==
  ASSUME NEW C, hasBytes(C), NEW type, NEW x \in Seq(C), short(x), isType(type)
  PROVE  /\ hvccArray(type, x) = cat(typeBytes(type), sized(x))
         /\ typeBytes(type) \in Seq(C) /\ Len(typeBytes(type)) = 3 /\ typeBytes(type)[1] = type
         /\ hvccArray(type, x) \in Seq(C) /\ Len(hvccArray(type, x)) = 5 + Len(x)
<1> DEFINE three == typeBytes(type)
           y == sized(x)
<1>1. hvccArray(type, x) = cat(three, y)  BY DEF hvccArray, cat, typeBytes
<1>2. three \in Seq(C) /\ Len(three) = 3 /\ three[1] = type
  <2>1. type \in C /\ 0 \in C /\ 1 \in C  BY DEF hasBytes, isType
  <2> QED BY <2>1 DEF typeBytes
<1>3. y \in Seq(C) /\ Len(y) = 2 + Len(x)  BY SizedTyped
<1>4. Len(x) \in Nat  BY LenProperties
<1> HIDE DEF three, y
<1>5. cat(three, y) \in Seq(C) /\ Len(cat(three, y)) = Len(three) + Len(y)
  BY Zenon, <1>2, <1>3, CatMakes
<1>6. Len(cat(three, y)) = 5 + Len(x)
  BY <1>2, <1>3, <1>4, <1>5
<1> QED BY Zenon, <1>1, <1>2, <1>5, <1>6 DEF three, y

LEMMA ArrayLength ==
  ASSUME NEW C, hasBytes(C), NEW type, NEW x \in Seq(C), short(x), isType(type)
  PROVE  hvccArray(type, x) \in Seq(C) /\ Len(hvccArray(type, x)) = 5 + Len(x)
BY ArrayTyped

LEMMA ArrayIsRead ==
  ASSUME NEW C, hasBytes(C), NEW bytes \in Seq(C), NEW at \in Nat, NEW type, NEW x \in Seq(C),
         short(x), isType(type), lies(bytes, at, hvccArray(type, x))
  PROVE  bytes[at + 1] = type /\ naluAt(bytes, (at + 1) + 3) = x
<1> DEFINE three == typeBytes(type)
           y == sized(x)
<1>1. /\ hvccArray(type, x) = cat(three, y)
      /\ three \in Seq(C) /\ Len(three) = 3 /\ three[1] = type
  BY ArrayTyped
<1>2. y \in Seq(C)  BY SizedTyped
<1> HIDE DEF three
<1>3. lies(bytes, at, three) /\ lies(bytes, at + 3, y)
  <2> HIDE DEF y
  <2>1. lies(bytes, at, cat(three, y)) /\ three \in Seq(C) /\ Len(bytes) \in Nat
    BY <1>1, LenProperties
  <2>2. lies(bytes, at, three) /\ lies(bytes, at + Len(three), y)  BY Zenon, <1>2, <2>1, LiesParts
  <2> QED BY Zenon, <1>1, <2>2
<1>4. bytes[at + 1] = type
  <2>1. 1 \in 1..Len(three)  BY <1>1
  <2> QED BY <1>1, <1>3, <2>1 DEF lies
<1>5. naluAt(bytes, (at + 3) + 1) = x
  <2>1. at + 3 \in Nat  OBVIOUS
  <2> QED BY Zenon, <1>3, <2>1, NaluIsRead
<1>6. (at + 3) + 1 = (at + 1) + 3  OBVIOUS
<1> QED BY Zenon, <1>4, <1>5, <1>6

\* One array after the other.
arrayNext(bytes, a) ==
  [at |-> a.at + 5 + Len(naluAt(bytes, a.at + 3)),
   sets |-> Append(a.sets, <<bytes[a.at] % 64, naluAt(bytes, a.at + 3)>>)]

LEMMA ArraysAre ==
  ASSUME NEW bytes, bytes[23] = 3
  PROVE  readHvcc(bytes) =
           arrayNext(bytes, arrayNext(bytes, arrayNext(bytes, [at |-> 24, sets |-> <<>>]))).sets
<1> DEFINE a1 == [at |-> 24, sets |-> <<>>]
           a2 == arrayNext(bytes, a1)
           a3 == arrayNext(bytes, a2)
           a4 == arrayNext(bytes, a3)
           eq(h) == h = [k \in 1..4 |-> IF k = 1 THEN a1 ELSE arrayNext(bytes, h[k - 1])]
           arrays == CHOOSE h : eq(h)
           f == [k \in 1..4 |-> IF k = 1 THEN a1 ELSE IF k = 2 THEN a2 ELSE IF k = 3 THEN a3 ELSE a4]
<1>1. readHvcc(bytes) = arrays[bytes[23] + 1].sets
  BY Zenon DEF readHvcc, arrayNext
<1>2. eq(f)
  <2>1. f[1] = a1 /\ f[2] = a2 /\ f[3] = a3 /\ f[4] = a4  OBVIOUS
  <2>2. f = [k \in 1..4 |-> f[k]]  OBVIOUS
  <2>3. a2 = arrayNext(bytes, a1) /\ a3 = arrayNext(bytes, a2) /\ a4 = arrayNext(bytes, a3)
    OBVIOUS
  <2> HIDE DEF f, a1, a2, a3, a4
  <2>4. ASSUME NEW k \in 1..4 PROVE f[k] = IF k = 1 THEN a1 ELSE arrayNext(bytes, f[k - 1])
    <3>1. k = 1 \/ k = 2 \/ k = 3 \/ k = 4  OBVIOUS
    <3>2. 2 - 1 = 1 /\ 3 - 1 = 2 /\ 4 - 1 = 3 /\ 2 # 1 /\ 3 # 1 /\ 4 # 1  OBVIOUS
    <3> QED BY <2>1, <2>3, <3>1, <3>2
  <2> QED BY Zenon, <2>2, <2>4
<1>3. eq(arrays)
  <2> HIDE DEF eq
  <2> QED BY <1>2
<1> HIDE DEF arrays
<1>4. arrays[4] = a4
  <2>1. \A k \in 1..4 : arrays[k] = IF k = 1 THEN a1 ELSE arrayNext(bytes, arrays[k - 1])
    BY <1>3
  <2> HIDE DEF a1, eq
  <2>2. arrays[1] = a1 /\ arrays[2] = arrayNext(bytes, arrays[1])
        /\ arrays[3] = arrayNext(bytes, arrays[2]) /\ arrays[4] = arrayNext(bytes, arrays[3])
    <3>1. 1 \in 1..4 /\ 2 \in 1..4 /\ 3 \in 1..4 /\ 4 \in 1..4
          /\ 2 - 1 = 1 /\ 3 - 1 = 2 /\ 4 - 1 = 3 /\ 2 # 1 /\ 3 # 1 /\ 4 # 1
      OBVIOUS
    <3> QED BY <2>1, <3>1
  <2> QED BY Zenon, <2>2
<1>5. bytes[23] + 1 = 4  OBVIOUS
<1> QED BY Zenon, <1>1, <1>4, <1>5

stepsTo(bytes, at, type, x, sets) ==
  arrayNext(bytes, [at |-> at + 1, sets |-> sets]) =
    [at |-> (at + 5 + Len(x)) + 1, sets |-> Append(sets, <<type, x>>)]

LEMMA ArrayStep ==
  ASSUME NEW C, hasBytes(C), NEW bytes \in Seq(C), NEW at \in Nat, NEW type, NEW x \in Seq(C),
         short(x), isType(type), lies(bytes, at, hvccArray(type, x)), NEW sets
  PROVE  stepsTo(bytes, at, type, x, sets)
<1>1. bytes[at + 1] = type /\ naluAt(bytes, (at + 1) + 3) = x  BY Zenon, ArrayIsRead
<1>2. type % 64 = type  BY DEF isType
<1>3. (at + 1) + 5 + Len(x) = (at + 5 + Len(x)) + 1
  <2>1. Len(x) \in Nat  BY LenProperties
  <2> QED BY <2>1
<1>4. arrayNext(bytes, [at |-> at + 1, sets |-> sets]) =
        [at |-> (at + 1) + 5 + Len(naluAt(bytes, (at + 1) + 3)),
         sets |-> Append(sets, <<bytes[at + 1] % 64, naluAt(bytes, (at + 1) + 3)>>)]
  BY DEF arrayNext
<1> QED BY Zenon, <1>1, <1>2, <1>3, <1>4 DEF stepsTo

LEMMA ThreeAppended ==
  ASSUME NEW e1, NEW e2, NEW e3
  PROVE  Append(Append(Append(<<>>, e1), e2), e3) = <<e1, e2, e3>>
<1> DEFINE D == {e1, e2, e3}
           a == Append(<<>>, e1)
           b == Append(a, e2)
           c == Append(b, e3)
           d == <<e1, e2, e3>>
<1>1. e1 \in D /\ e2 \in D /\ e3 \in D  OBVIOUS
<1> HIDE DEF D
<1>2. a \in Seq(D) /\ Len(a) = 1 /\ a[1] = e1  BY <1>1
<1> HIDE DEF a
<1>3. b \in Seq(D) /\ Len(b) = 2 /\ b[1] = e1 /\ b[2] = e2  BY <1>1, <1>2, AppendProperties
<1> HIDE DEF b
<1>4. c \in Seq(D) /\ Len(c) = 3 /\ c[1] = e1 /\ c[2] = e2 /\ c[3] = e3
  <2>1. /\ c \in Seq(D) /\ Len(c) = Len(b) + 1 /\ c[Len(b) + 1] = e3
        /\ \A i \in 1..Len(b) : c[i] = b[i]
    <3>1. b \in Seq(D) /\ e3 \in D  BY <1>1, <1>3
    <3> QED BY <3>1, AppendProperties
  <2> HIDE DEF c
  <2>2. 1 \in 1..Len(b) /\ 2 \in 1..Len(b) /\ Len(b) + 1 = 3  BY <1>3
  <2> QED BY <1>3, <2>1, <2>2
<1>5. d \in Seq(D) /\ Len(d) = 3 /\ d[1] = e1 /\ d[2] = e2 /\ d[3] = e3  BY <1>1
<1> HIDE DEF c, d
<1>6. \A i \in 1..3 : i = 1 \/ i = 2 \/ i = 3  OBVIOUS
<1>7. \A i \in 1..Len(c) : c[i] = d[i]  BY <1>4, <1>5, <1>6
<1>8. c = d  BY <1>4, <1>5, <1>7, SeqEqual
<1> QED BY <1>8 DEF a, b, c, d

LEMMA HvccIsRead ==
  ASSUME NEW C, hasBytes(C), NEW v \in Seq(C), NEW s \in Seq(C), NEW p \in Seq(C),
         short(v), short(s), short(p)
  PROVE  readHvcc(makeHvcc(s, p, v)) = <<<<32, v>>, <<33, s>>, <<34, p>>>>
<1> DEFINE h1 == <<1, 0>>
           z == zeros(19)
           x3 == <<3, 3>>
           arrV == hvccArray(32, v)
           arrS == hvccArray(33, s)
           arrP == hvccArray(34, p)
           h2 == cat(h1, z)
           h3 == cat(h2, x3)
           h4 == cat(h3, arrV)
           h5 == cat(h4, arrS)
           h6 == cat(h5, arrP)
<1>1. makeHvcc(s, p, v) = h6  BY DEF makeHvcc, cat
<1>0. 0 \in C /\ 1 \in C /\ 3 \in C  BY DEF hasBytes
<1>2. /\ h1 \in Seq(C) /\ Len(h1) = 2
      /\ x3 \in Seq(C) /\ Len(x3) = 2 /\ x3[2] = 3
  BY <1>0
<1>3. z \in Seq(C) /\ Len(z) = 19
  <2>1. z = [k \in 1..19 |-> 0]  BY DEF zeros
  <2>2. z \in [1..19 -> C]  BY <1>0, <2>1
  <2> HIDE DEF z
  <2> DEFINE m == 19
  <2>3. m \in Nat /\ z \in [1..m -> C]  BY <2>2
  <2> HIDE DEF m
  <2>4. z \in Seq(C) /\ Len(z) = m  BY <2>3, LenProperties
  <2> QED BY <2>4 DEF m
<1>4. /\ arrV \in Seq(C) /\ Len(arrV) = 5 + Len(v)
      /\ arrS \in Seq(C) /\ Len(arrS) = 5 + Len(s)
      /\ arrP \in Seq(C) /\ Len(arrP) = 5 + Len(p)
  <2>1. isType(32) /\ isType(33) /\ isType(34)  BY DEF isType
  <2> QED BY Zenon, <2>1, ArrayLength
<1>5. Len(v) \in Nat /\ Len(s) \in Nat /\ Len(p) \in Nat  BY LenProperties
<1> HIDE DEF h1, z, x3, arrV, arrS, arrP
<1>6. h2 \in Seq(C) /\ Len(h2) = 21
  <2>1. h2 \in Seq(C) /\ Len(h2) = Len(h1) + Len(z)  BY Zenon, <1>2, <1>3, CatMakes
  <2> HIDE DEF h2
  <2> QED BY <1>2, <1>3, <2>1
<1>7. h3 \in Seq(C) /\ Len(h3) = 23
  <2> HIDE DEF h2
  <2>1. h3 \in Seq(C) /\ Len(h3) = Len(h2) + Len(x3)  BY Zenon, <1>2, <1>6, CatMakes
  <2> HIDE DEF h3
  <2> QED BY <1>2, <1>6, <2>1
<1>8. h4 \in Seq(C) /\ Len(h4) = 28 + Len(v)
  <2> HIDE DEF h3
  <2>1. h4 \in Seq(C) /\ Len(h4) = Len(h3) + Len(arrV)  BY Zenon, <1>4, <1>7, CatMakes
  <2> HIDE DEF h4
  <2> QED BY <1>4, <1>5, <1>7, <2>1
<1>9. h5 \in Seq(C) /\ Len(h5) = 33 + Len(v) + Len(s)
  <2> HIDE DEF h4
  <2>1. h5 \in Seq(C) /\ Len(h5) = Len(h4) + Len(arrS)  BY Zenon, <1>4, <1>8, CatMakes
  <2> HIDE DEF h5
  <2> QED BY <1>4, <1>5, <1>8, <2>1
<1>10. h6 \in Seq(C)
  <2> HIDE DEF h5
  <2> QED BY Zenon, <1>4, <1>9, CatMakes
<1>11. lies(h6, 0, h6) /\ Len(h6) \in Nat
  <2> HIDE DEF h6
  <2>1. Len(h6) \in Nat  BY <1>10, LenProperties
  <2>2. 0 + Len(h6) <= Len(h6) /\ \A i \in 1..Len(h6) : 0 + i = i  BY <2>1
  <2> QED BY <2>1, <2>2 DEF lies
<1>12. 0 \in Nat  OBVIOUS
<1>13. lies(h6, 0, h5) /\ lies(h6, 33 + Len(v) + Len(s), arrP)
  <2>1. lies(h6, 0, cat(h5, arrP))  BY <1>11
  <2> HIDE DEF h5, h6
  <2>2. lies(h6, 0, h5) /\ lies(h6, 0 + Len(h5), arrP)
    BY Zenon, <1>4, <1>9, <1>11, <1>12, <2>1, LiesParts
  <2>3. 0 + Len(h5) = 33 + Len(v) + Len(s)  BY <1>5, <1>9
  <2> QED BY Zenon, <2>2, <2>3
<1> HIDE DEF h6
<1>14. lies(h6, 0, h4) /\ lies(h6, 28 + Len(v), arrS)
  <2>1. lies(h6, 0, cat(h4, arrS))  BY <1>13
  <2> HIDE DEF h4, h5
  <2>2. lies(h6, 0, h4) /\ lies(h6, 0 + Len(h4), arrS)
    BY Zenon, <1>4, <1>8, <1>11, <1>12, <2>1, LiesParts
  <2>3. 0 + Len(h4) = 28 + Len(v)  BY <1>5, <1>8
  <2> QED BY Zenon, <2>2, <2>3
<1> HIDE DEF h5
<1>15. lies(h6, 0, h3) /\ lies(h6, 23, arrV)
  <2>1. lies(h6, 0, cat(h3, arrV))  BY <1>14
  <2> HIDE DEF h3, h4
  <2>2. lies(h6, 0, h3) /\ lies(h6, 0 + Len(h3), arrV)
    BY Zenon, <1>4, <1>7, <1>11, <1>12, <2>1, LiesParts
  <2>3. 0 + Len(h3) = 23  BY <1>7
  <2> QED BY Zenon, <2>2, <2>3
<1> HIDE DEF h4
<1>16. lies(h6, 21, x3)
  <2>1. lies(h6, 0, cat(h2, x3))  BY <1>15
  <2> HIDE DEF h2, h3
  <2>2. lies(h6, 0, h2) /\ lies(h6, 0 + Len(h2), x3)
    BY Zenon, <1>2, <1>6, <1>11, <1>12, <2>1, LiesParts
  <2>3. 0 + Len(h2) = 21  BY <1>6
  <2> QED BY Zenon, <2>2, <2>3
<1> HIDE DEF h2, h3
<1>17. h6[23] = 3
  <2>1. 2 \in 1..Len(x3) /\ 21 + 2 = 23  BY <1>2
  <2> QED BY <1>2, <1>16, <2>1 DEF lies
<1> DEFINE s0 == <<>>
           s1 == Append(s0, <<32, v>>)
           s2 == Append(s1, <<33, s>>)
           s3 == Append(s2, <<34, p>>)
<1>18. arrayNext(h6, [at |-> 24, sets |-> s0]) = [at |-> (28 + Len(v)) + 1, sets |-> s1]
  <2>1. 23 \in Nat /\ 23 + 1 = 24 /\ 23 + 5 + Len(v) = 28 + Len(v)  BY <1>5
  <2> DEFINE b == 23
             type == 32
  <2>2. b \in Nat /\ isType(type) /\ lies(h6, b, hvccArray(type, v))
    BY <1>13, <1>14, <1>15, <2>1 DEF arrV, isType
  <2> HIDE DEF s0, b, type
  <2>4. stepsTo(h6, b, type, v, s0)  BY Zenon, <1>10, <2>2, ArrayStep
  <2>3. arrayNext(h6, [at |-> 23 + 1, sets |-> s0]) =
          [at |-> (23 + 5 + Len(v)) + 1, sets |-> Append(s0, <<32, v>>)]
    BY Zenon, <2>4 DEF b, type, stepsTo
  <2> QED BY Zenon, <2>1, <2>3
<1>19. arrayNext(h6, [at |-> (28 + Len(v)) + 1, sets |-> s1]) =
         [at |-> (33 + Len(v) + Len(s)) + 1, sets |-> s2]
  <2>1. /\ 28 + Len(v) \in Nat
        /\ (28 + Len(v)) + 5 + Len(s) = 33 + Len(v) + Len(s)
    BY <1>5
  <2> DEFINE b == 28 + Len(v)
             type == 33
  <2>2. b \in Nat /\ isType(type) /\ lies(h6, b, hvccArray(type, s))
    BY <1>13, <1>14, <1>15, <2>1 DEF arrS, isType
  <2> HIDE DEF s1, b, type
  <2>4. stepsTo(h6, b, type, s, s1)  BY Zenon, <1>10, <2>2, ArrayStep
  <2>3. arrayNext(h6, [at |-> (28 + Len(v)) + 1, sets |-> s1]) =
          [at |-> ((28 + Len(v)) + 5 + Len(s)) + 1, sets |-> Append(s1, <<33, s>>)]
    BY Zenon, <2>4 DEF b, type, stepsTo
  <2> QED BY Zenon, <2>1, <2>3
<1>20. arrayNext(h6, [at |-> (33 + Len(v) + Len(s)) + 1, sets |-> s2]).sets = s3
  <2>1. 33 + Len(v) + Len(s) \in Nat  BY <1>5
  <2> DEFINE b == 33 + Len(v) + Len(s)
             type == 34
  <2>2. b \in Nat /\ isType(type) /\ lies(h6, b, hvccArray(type, p))
    BY <1>13, <1>14, <1>15, <2>1 DEF arrP, isType
  <2> HIDE DEF s2, b, type
  <2>4. stepsTo(h6, b, type, p, s2)  BY Zenon, <1>10, <2>2, ArrayStep
  <2>3. arrayNext(h6, [at |-> (33 + Len(v) + Len(s)) + 1, sets |-> s2]) =
          [at |-> ((33 + Len(v) + Len(s)) + 5 + Len(p)) + 1, sets |-> Append(s2, <<34, p>>)]
    BY Zenon, <2>4 DEF b, type, stepsTo
  <2> QED BY <2>3
<1>21. s3 = <<<<32, v>>, <<33, s>>, <<34, p>>>>
  <2> DEFINE e1 == <<32, v>>
             e2 == <<33, s>>
             e3 == <<34, p>>
  <2> HIDE DEF e1, e2, e3
  <2>1. Append(Append(Append(<<>>, e1), e2), e3) = <<e1, e2, e3>>  BY Zenon, ThreeAppended
  <2> QED BY Zenon, <2>1 DEF e1, e2, e3
<1> HIDE DEF s1, s2, s3
<1>22. readHvcc(h6) =
         arrayNext(h6, arrayNext(h6, arrayNext(h6, [at |-> 24, sets |-> s0]))).sets
  BY Zenon, <1>17, ArraysAre DEF s0
<1> QED BY Zenon, <1>1, <1>18, <1>19, <1>20, <1>21, <1>22

\* For the nalus that there are.
LEMMA ParametersAreRead ==
  ASSUME NEW C, hasBytes(C), nalus \in Seq(Seq(C)), \A k \in 1..Len(nalus) : short(nalus[k])
  PROVE  ParametersReadBack
<1>1. \A x \in ToSet(nalus) : x \in Seq(C) /\ short(x)
  <2>1. \A k \in 1..Len(nalus) : nalus[k] \in Seq(C)  BY ElementOfSeq
  <2>2. DOMAIN nalus = 1..Len(nalus)  BY LenProperties
  <2> QED BY <2>1, <2>2 DEF ToSet
<1>2. ASSUME NEW sps \in ToSet(nalus), NEW pps \in ToSet(nalus)
      PROVE  /\ Len(sps) >= 4 =>
                  readAvcc(makeAvcc(sps, pps)) =
                    [version |-> 1, profile |-> SubSeq(sps, 2, 4), lengthSize |-> 4, sets |-> <<sps, pps>>]
             /\ readHvcc(makeHvcc(sps, pps, sps)) = <<<<32, sps>>, <<33, sps>>, <<34, pps>>>>
  <2>1. sps \in Seq(C) /\ short(sps) /\ pps \in Seq(C) /\ short(pps)  BY <1>1
  <2>2. readHvcc(makeHvcc(sps, pps, sps)) = <<<<32, sps>>, <<33, sps>>, <<34, pps>>>>
    BY Zenon, <2>1, HvccIsRead
  <2>3. ASSUME Len(sps) >= 4
        PROVE  readAvcc(makeAvcc(sps, pps)) =
                 [version |-> 1, profile |-> SubSeq(sps, 2, 4), lengthSize |-> 4, sets |-> <<sps, pps>>]
    <3>1. 4 <= Len(sps)  BY <2>1, <2>3, LenProperties
    <3> QED BY Zenon, <2>1, <3>1, AvccIsRead
  <2> QED BY Zenon, <2>2, <2>3
<1> QED BY Zenon, <1>2 DEF ParametersReadBack

-----------------------------------------------------------------------------
(***************************************************************************)
(* Recursion from the end, and streams of parts behind four bytes each.    *)
(***************************************************************************)
Behind(n, A, body) ==
  \A g, h \in [0..n -> A], i \in 0..n :
    (\A j \in 0..n : j > i => g[j] = h[j]) => body[<<g, i>>] = body[<<h, i>>]

madeBehind(n, body, f) == \A i \in 0..n : f[i] = body[<<f, i>>]

\* A value may be made of those behind it.
LEMMA BackwardsExists ==
  ASSUME NEW n \in Nat, NEW A, NEW a \in A, NEW body \in [[0..n -> A] \X (0..n) -> A],
         Behind(n, A, body)
  PROVE  \E f \in [0..n -> A] : madeBehind(n, body, f)
<1> DEFINE B == [0..n -> A]
           N == n + 1
           base == [i \in 0..n |-> a]
           put(g, k) == [g EXCEPT ![N - k] = body[<<g, N - k>>]]
           step == [x \in B \X (1..N) |-> put(x[1], x[2])]
<1>1. N \in Nat /\ base \in B  OBVIOUS
<1>2. ASSUME NEW g \in B, NEW k \in 1..N PROVE put(g, k) \in B
  <2>1. N - k \in 0..n  OBVIOUS
  <2>2. body[<<g, N - k>>] \in A  BY <2>1
  <2> QED BY <2>1, <2>2
<1>3. step \in [B \X (1..N) -> B]
  <2> HIDE DEF put, B, N
  <2> QED BY <1>2
<1>4. PICK W \in [0..N -> B] : recurs(N, step, base, W)
  <2> HIDE DEF step, B, base, N
  <2> QED BY <1>1, <1>3, RecursionExists
<1>5. ASSUME NEW k \in 1..N
      PROVE  /\ k \in 0..N /\ k - 1 \in 0..N /\ N - k \in 0..n
             /\ W[k] \in B /\ W[k - 1] \in B
             /\ W[k][N - k] = body[<<W[k - 1], N - k>>]
             /\ \A i \in 0..n : i # N - k => W[k][i] = W[k - 1][i]
  <2>1. k \in 0..N /\ k - 1 \in 0..N /\ N - k \in 0..n  OBVIOUS
  <2>2. W[k] \in B /\ W[k - 1] \in B  BY <1>4, <2>1
  <2>3. W[k] = step[<<W[k - 1], k>>]  BY <1>4 DEF recurs
  <2>4. W[k] = put(W[k - 1], k)
    <3> HIDE DEF put, B, N
    <3> QED BY <2>2, <2>3
  <2> DEFINE g == W[k - 1]
             v == body[<<g, N - k>>]
  <2>5. W[k] = [g EXCEPT ![N - k] = v]  BY <2>4
  <2>6. g \in [0..n -> A]  BY <2>2
  <2> HIDE DEF g, v, N
  <2>7. W[k][N - k] = v /\ \A i \in 0..n : i # N - k => W[k][i] = g[i]  BY <2>1, <2>5, <2>6
  <2> QED BY <2>1, <2>2, <2>7 DEF g, v
<1> DEFINE done(k) == \A i \in 0..n : i > n - k => W[k][i] = body[<<W[k], i>>]
           G == {k \in 0..N : done(k)}
<1>6. 0 \in G
  <2>1. \A i \in 0..n : ~(i > n - 0)  OBVIOUS
  <2> QED BY <2>1
<1>7. ASSUME NEW k \in 1..N, k - 1 \in G PROVE k \in G
  <2>1. /\ k \in 0..N /\ k - 1 \in 0..N /\ N - k \in 0..n
        /\ W[k] \in B /\ W[k - 1] \in B
        /\ W[k][N - k] = body[<<W[k - 1], N - k>>]
        /\ \A i \in 0..n : i # N - k => W[k][i] = W[k - 1][i]
    BY <1>5
  <2>2. done(k - 1)  BY <1>7
  <2>3. ASSUME NEW i \in 0..n, i > n - k PROVE W[k][i] = body[<<W[k], i>>]
    <3>1. \A j \in 0..n : j > i => j # N - k  BY <2>3
    <3>2. \A j \in 0..n : j > i => W[k - 1][j] = W[k][j]  BY <2>1, <3>1
    <3>3. body[<<W[k - 1], i>>] = body[<<W[k], i>>]
      <4> DEFINE g == W[k - 1]
                 h == W[k]
      <4>1. g \in [0..n -> A] /\ h \in [0..n -> A]  BY <2>1
      <4>2. \A j \in 0..n : j > i => g[j] = h[j]  BY <3>2
      <4> HIDE DEF g, h
      <4>3. body[<<g, i>>] = body[<<h, i>>]  BY <4>1, <4>2 DEF Behind
      <4> QED BY <4>3 DEF g, h
    <3>4. CASE i = N - k
      BY <2>1, <3>3, <3>4
    <3>5. CASE i # N - k
      <4>1. i > n - (k - 1)  BY <2>3, <3>5
      <4>2. W[k - 1][i] = body[<<W[k - 1], i>>]  BY <2>2, <4>1
      <4> QED BY <2>1, <3>3, <3>5, <4>2
    <3> QED BY <3>4, <3>5
  <2>4. done(k)  BY <2>3
  <2> HIDE DEF done, N
  <2> QED BY <2>1, <2>4
<1>8. G = 0..N
  <2>1. G \in SUBSET (0..N)  OBVIOUS
  <2> HIDE DEF G, N
  <2> QED BY <1>1, <1>6, <1>7, <2>1, Induct
<1>9. done(N) /\ W[N] \in B
  <2>1. N \in 0..N  BY <1>1
  <2> HIDE DEF done, N, B
  <2> QED BY <1>4, <1>8, <2>1
<1>10. \A i \in 0..n : i > n - N  OBVIOUS
<1>11. \A i \in 0..n : W[N][i] = body[<<W[N], i>>]  BY <1>9, <1>10
<1>12. madeBehind(n, body, W[N])  BY Zenon, <1>11 DEF madeBehind
<1> HIDE DEF N
<1> QED BY Zenon, <1>9, <1>12

\* Parts behind four bytes each.
behind(r, w) == [k \in DOMAIN r |-> cat(w[k], r[k])]

placed(r, w, F) ==
  /\ flat(behind(r, w), F)
  /\ Len(F[0]) = 0
  /\ \A k \in 0..Len(r) : Len(F[k]) \in Nat /\ Len(F[k]) <= Len(F[Len(r)])
  /\ \A k \in 1..Len(r) : /\ Len(F[k]) = Len(F[k - 1]) + 4 + Len(r[k])
                          /\ lies(F[Len(r)], Len(F[k - 1]), w[k])
                          /\ lies(F[Len(r)], Len(F[k - 1]) + 4, r[k])

LEMMA PartsPlaced ==
  ASSUME NEW C, NEW r \in Seq(Seq(C)), NEW w \in [1..Len(r) -> Seq(C)],
         \A k \in 1..Len(r) : Len(w[k]) = 4
  PROVE  \E F \in [0..Len(r) -> Seq(C)] : placed(r, w, F)
<1> DEFINE n == Len(r)
           q == behind(r, w)
<1>1. n \in Nat /\ DOMAIN r = 1..n /\ n \in 0..n /\ \A k \in 1..n : r[k] \in Seq(C) /\ w[k] \in Seq(C)
  BY LenProperties, ElementOfSeq
<1>2. \A k \in 1..n : cat(w[k], r[k]) \in Seq(C)  BY <1>1, CatTyped
<1>3. q = [k \in 1..n |-> cat(w[k], r[k])]  BY <1>1 DEF behind
<1> HIDE DEF n
<1>4. q \in Seq(Seq(C)) /\ Len(q) = n
  <2>1. q \in [1..n -> Seq(C)]  BY <1>2, <1>3
  <2> HIDE DEF q
  <2> QED BY <1>1, <2>1, LenProperties
<1>5. \A k \in 1..n : q[k] = cat(w[k], r[k])  BY <1>3
<1> HIDE DEF q
<1>6. PICK F \in [0..n -> Seq(C)] : flat(q, F)  BY <1>4, FlattenIs
<1>7. parts(q, F)  BY <1>4, <1>6, FlattenParts
<1>8. /\ Len(F[0]) = 0
      /\ \A k \in 0..n : Len(F[k]) \in Nat /\ Len(F[k]) <= Len(F[n])
      /\ \A k \in 1..n : Len(F[k]) = Len(F[k - 1]) + Len(q[k])
      /\ \A k \in 1..n : \A i \in 1..Len(q[k]) : F[n][Len(F[k - 1]) + i] = q[k][i]
  BY <1>4, <1>7 DEF parts
<1>9. ASSUME NEW k \in 1..n
      PROVE  /\ Len(F[k]) = Len(F[k - 1]) + 4 + Len(r[k])
             /\ lies(F[n], Len(F[k - 1]), w[k])
             /\ lies(F[n], Len(F[k - 1]) + 4, r[k])
  <2> DEFINE s == w[k]
             t == r[k]
             b == Len(F[k - 1])
             d == F[n]
             e == Len(F[k])
  <2>1. k - 1 \in 0..n /\ k \in 0..n  BY <1>1
  <2>2. s \in Seq(C) /\ t \in Seq(C) /\ Len(s) = 4 /\ b \in Nat /\ Len(d) \in Nat /\ e <= Len(d)
    <3>1. s \in Seq(C) /\ t \in Seq(C)  BY <1>1
    <3>2. Len(s) = 4  BY DEF n
    <3> QED BY <1>1, <1>8, <2>1, <3>1, <3>2
  <2>3. e = b + Len(cat(s, t)) /\ \A i \in 1..Len(cat(s, t)) : d[b + i] = cat(s, t)[i]
    <3>1. q[k] = cat(s, t)  BY <1>5
    <3>2. Len(F[k]) = Len(F[k - 1]) + Len(q[k]) /\ \A i \in 1..Len(q[k]) : F[n][Len(F[k - 1]) + i] = q[k][i]
      BY <1>8
    <3> HIDE DEF s, t
    <3> QED BY Zenon, <3>1, <3>2 DEF b, d, e
  <2> HIDE DEF s, t, b, d, e
  <2>4. lies(d, b, cat(s, t))  BY <2>2, <2>3 DEF lies
  <2>5. lies(d, b, s) /\ lies(d, b + Len(s), t)  BY Zenon, <2>2, <2>4, LiesParts
  <2>6. Len(cat(s, t)) = Len(s) + Len(t) /\ Len(t) \in Nat  BY <2>2, CatAt
  <2>7. e = b + 4 + Len(t)  BY <2>2, <2>3, <2>6
  <2>8. lies(d, b + 4, t)  BY Zenon, <2>2, <2>5
  <2> QED BY Zenon, <2>5, <2>7, <2>8 DEF s, t, b, d, e
<1>10. placed(r, w, F)  BY <1>6, <1>8, <1>9 DEF placed, q, n
<1> QED BY <1>6, <1>10 DEF n

-----------------------------------------------------------------------------
(***************************************************************************)
(* Byte formats: start codes.                                              *)
(***************************************************************************)
LEMMA StartCodeIs ==
  ASSUME NEW C, hasBytes(C)
  PROVE  /\ StartCode \in Seq(C) /\ Len(StartCode) = 4
         /\ StartCode[1] = 0 /\ StartCode[2] = 0 /\ StartCode[3] = 0
         /\ StartCode[4] = 1
<1>1. 0 \in C /\ 1 \in C  BY DEF hasBytes
<1> QED BY <1>1 DEF StartCode

LEMMA CodeAtIs ==
  ASSUME NEW C, hasBytes(C), NEW d \in Seq(C), NEW i \in Nat, i + 4 <= Len(d)
  PROVE  codeAt(d, i + 1) <=> lies(d, i, StartCode)
<1> DEFINE x == SubSeq(d, i + 1, (i + 1) + 3)
           c == StartCode
<1>1. c \in Seq(C) /\ Len(c) = 4  BY StartCodeIs
<1>2. Len(d) \in Nat  BY LenProperties
<1>3. x \in Seq(C) /\ Len(x) = 4 /\ \A m \in 1..4 : x[m] = d[i + m]
  BY <1>2, SubSeqProperties
<1> HIDE DEF x, c
<1>4. x = c <=> \A m \in 1..4 : x[m] = c[m]
  <2>1. ASSUME \A m \in 1..4 : x[m] = c[m] PROVE x = c
    BY <1>1, <1>3, <2>1, SeqEqual
  <2> QED BY <2>1
<1>5. lies(d, i, c) <=> \A m \in 1..4 : x[m] = c[m]  BY <1>1, <1>3 DEF lies
<1> QED BY Zenon, <1>4, <1>5 DEF codeAt, x, c

streamed(r, F) == placed(r, [k \in 1..Len(r) |-> StartCode], F)

\* In a nalu without a code there is none, and neither at its end.
LEMMA NoCodeAt ==
  ASSUME NEW C, hasBytes(C), NEW d \in Seq(C), NEW x \in Seq(C), NEW b \in Nat, NEW i \in Nat,
         lies(d, b, x), ~containsCode(x), b <= i, i < b + Len(x), i + 4 <= Len(d),
         b + Len(x) = Len(d) \/ lies(d, b + Len(x), StartCode)
  PROVE  ~codeAt(d, i + 1)
<1> DEFINE c == StartCode
           l == Len(x)
           e == Len(d)
<1>1. c \in Seq(C) /\ Len(c) = 4 /\ c[1] = 0 /\ c[2] = 0 /\ c[3] = 0 /\ c[4] = 1
  BY StartCodeIs
<1>2. /\ l \in Nat /\ e \in Nat /\ b + l <= e /\ b <= i /\ i < b + l /\ i + 4 <= e
      /\ \A m \in 1..l : d[b + m] = x[m]
  BY LenProperties DEF lies
<1>3. SUFFICES ASSUME lies(d, i, c) PROVE FALSE
  BY CodeAtIs
<1>4. \A m \in 1..4 : d[i + m] = c[m]  BY <1>1, <1>3 DEF lies
<1> HIDE DEF c
<1>5. CASE i + 4 <= b + l
  <2> DEFINE j == i - b
  <2>1. j \in Nat /\ j + 4 <= l /\ i = b + j
    <3> HIDE DEF l, e
    <3> QED BY <1>2, <1>5
  <2> HIDE DEF j
  <2>2. ASSUME NEW m \in 1..4 PROVE x[j + m] = c[m]
    <3>1. j + m \in 1..l /\ b + (j + m) = i + m
      <4> HIDE DEF l
      <4> QED BY <1>2, <2>1
    <3> QED BY <1>2, <1>4, <3>1
  <2>3. lies(x, j, c)  BY <1>1, <2>1, <2>2 DEF lies
  <2>4. codeAt(x, j + 1)
    <3>1. j + 4 <= Len(x) /\ j \in Nat  BY <2>1
    <3> QED BY <2>3, <3>1, CodeAtIs DEF c
  <2>5. j + 1 \in 1..(Len(x) - 3)
    <3>1. j + 1 \in 1..(l - 3)
      <4> HIDE DEF l
      <4> QED BY <1>2, <2>1
    <3> QED BY <3>1
  <2> QED BY <2>4, <2>5 DEF containsCode
<1>6. CASE i + 4 > b + l
  <2>1. b + l # e
    <3> HIDE DEF l, e
    <3> QED BY <1>2, <1>6
  <2>2. lies(d, b + l, c)  BY <2>1 DEF c
  <2>3. \A m \in 1..4 : d[(b + l) + m] = c[m]  BY <1>1, <2>2 DEF lies
  <2> DEFINE m == (i + 4) - (b + l)
  <2>4. m \in 1..3 /\ (b + l) + m = i + 4
    <3> HIDE DEF l, e
    <3> QED BY <1>2, <1>6
  <2> HIDE DEF m
  <2>5. d[i + 4] = c[4] /\ d[i + 4] = c[m]  BY <1>4, <2>3, <2>4
  <2>6. m = 1 \/ m = 2 \/ m = 3  BY <2>4
  <2> QED BY <1>1, <2>5, <2>6
<1>7. i + 4 <= b + l \/ i + 4 > b + l
  <2> HIDE DEF l
  <2> QED BY <1>2
<1> QED BY <1>5, <1>6, <1>7

LEMMA NoCodeInside ==
  ASSUME NEW C, hasBytes(C), NEW r \in Seq(Seq(C)), NEW F \in [0..Len(r) -> Seq(C)],
         streamed(r, F), NEW k \in 1..Len(r), ~containsCode(r[k]),
         NEW i \in Nat, Len(F[k - 1]) + 4 <= i, i < Len(F[k]), i + 4 <= Len(F[Len(r)])
  PROVE  ~codeAt(F[Len(r)], i + 1)
<1>1. PICK n \in Nat, x \in Seq(C), d \in Seq(C), b \in Nat, e \in Nat :
        /\ n = Len(r) /\ x = r[k] /\ d = F[Len(r)] /\ b = Len(F[k - 1]) + 4 /\ e = Len(F[k])
  <2>1. Len(r) \in Nat /\ Len(r) \in 0..Len(r) /\ k - 1 \in 0..Len(r) /\ k \in 0..Len(r)
    BY LenProperties
  <2>2. r[k] \in Seq(C)  BY ElementOfSeq
  <2>3. F[Len(r)] \in Seq(C) /\ F[k - 1] \in Seq(C) /\ F[k] \in Seq(C)  BY <2>1
  <2>4. Len(F[k - 1]) \in Nat /\ Len(F[k]) \in Nat  BY <2>3, LenProperties
  <2>5. Len(F[k - 1]) + 4 \in Nat  BY <2>4
  <2> QED BY <2>1, <2>2, <2>3, <2>4, <2>5
<1> DEFINE w == [j \in 1..Len(r) |-> StartCode]
<1>2. placed(r, w, F)  BY DEF streamed
<1>3. \A j \in 1..n : w[j] = StartCode  BY <1>1
<1> HIDE DEF w
<1>4. \A j \in 1..n : /\ Len(F[j]) = Len(F[j - 1]) + 4 + Len(r[j])
                      /\ lies(d, Len(F[j - 1]), w[j])
                      /\ lies(d, Len(F[j - 1]) + 4, r[j])
  BY Zenon, <1>1, <1>2 DEF placed
<1>5. Len(x) \in Nat /\ k \in 1..n  BY <1>1, LenProperties
<1>6. e = b + Len(x) /\ lies(d, b, x)
  <2>1. /\ Len(F[k]) = Len(F[k - 1]) + 4 + Len(r[k])
        /\ lies(d, Len(F[k - 1]) + 4, r[k])
    BY <1>4, <1>5
  <2> QED BY Zenon, <1>1, <2>1
<1>7. b + Len(x) = Len(d) \/ lies(d, b + Len(x), StartCode)
  <2>1. CASE k = n
    <3>1. Len(F[k]) = Len(F[Len(r)])  BY <1>1, <2>1
    <3> QED BY Zenon, <1>1, <1>6, <3>1
  <2>2. CASE k # n
    <3>1. k + 1 \in 1..n /\ (k + 1) - 1 = k  BY <1>5, <2>2
    <3>2. lies(d, Len(F[(k + 1) - 1]), w[k + 1])  BY <1>4, <3>1
    <3>3. lies(d, Len(F[k]), StartCode)  BY <1>3, <3>1, <3>2
    <3> QED BY Zenon, <1>1, <1>6, <3>3
  <2> QED BY <2>1, <2>2
<1>8. b <= i /\ i < b + Len(x) /\ i + 4 <= Len(d) /\ ~containsCode(x)
  <2>1. b <= i /\ i < e /\ i + 4 <= Len(d) /\ ~containsCode(x)  BY Zenon, <1>1
  <2> QED BY Zenon, <1>6, <2>1
<1>9. ~codeAt(d, i + 1)  BY <1>6, <1>7, <1>8, NoCodeAt
<1> QED BY Zenon, <1>1, <1>9

\* Where nalus start, as a recursion from the end.
scans(d, f) ==
  \A i \in 0..(Len(d) + 4) :
    f[i] = IF i > Len(d) - 4 THEN <<>>
           ELSE IF i # 0 /\ codeAt(d, i) THEN cat(<<i + 4>>, f[i + 4]) ELSE f[i + 1]

LEMMA CodesUnfold ==
  ASSUME NEW C, NEW d \in Seq(C)
  PROVE  \E f \in [0..(Len(d) + 4) -> Seq(Nat)] : scans(d, f) /\ codes(d) = f[1]
<1>1. PICK l \in Nat : l = Len(d)  BY LenProperties
<1> DEFINE n == l + 4
           A == Seq(Nat)
           at(i) == i # 0 /\ codeAt(d, i)
           next(g, i) == IF i > l - 4 THEN <<>>
                         ELSE IF at(i) THEN cat(<<i + 4>>, g[i + 4]) ELSE g[i + 1]
           body == [x \in [0..n -> A] \X (0..n) |-> next(x[1], x[2])]
<1>2. n \in Nat /\ <<>> \in A  BY EmptySeq
<1>3. ASSUME NEW i \in 0..n, ~(i > l - 4) PROVE i + 4 \in 0..n /\ i + 1 \in 0..n /\ i + 4 \in Nat
  BY <1>3
<1>4. ASSUME NEW g \in [0..n -> A], NEW i \in 0..n PROVE next(g, i) \in A
  <2> HIDE DEF at, n
  <2>1. ASSUME ~(i > l - 4) PROVE g[i + 1] \in A /\ cat(<<i + 4>>, g[i + 4]) \in A
    <3>1. g[i + 1] \in A /\ g[i + 4] \in A  BY <1>3, <2>1
    <3> DEFINE s == <<i + 4>>
               t == g[i + 4]
    <3>2. s \in Seq(Nat)  BY <1>3, <2>1
    <3>3. t \in Seq(Nat)  BY <3>1
    <3> HIDE DEF s, t
    <3>4. cat(s, t) \in Seq(Nat)  BY Zenon, <3>2, <3>3, CatTyped
    <3> QED BY <3>1, <3>4 DEF s, t
  <2> HIDE DEF A
  <2> QED BY <1>2, <2>1
<1>5. body \in [[0..n -> A] \X (0..n) -> A]
  <2> HIDE DEF next, A, n
  <2> QED BY <1>4
<1>6. \A g \in [0..n -> A], i \in 0..n : body[<<g, i>>] = next(g, i)
  <2> HIDE DEF next, A, n
  <2> QED OBVIOUS
<1>7. Behind(n, A, body)
  <2>1. ASSUME NEW g \in [0..n -> A], NEW h \in [0..n -> A], NEW i \in 0..n,
               \A j \in 0..n : j > i => g[j] = h[j]
        PROVE  next(g, i) = next(h, i)
    <3>1. ASSUME ~(i > l - 4) PROVE g[i + 4] = h[i + 4] /\ g[i + 1] = h[i + 1]
      <4>1. i + 4 \in 0..n /\ i + 1 \in 0..n  BY <1>3, <3>1
      <4>2. i + 4 > i /\ i + 1 > i  OBVIOUS
      <4> QED BY <2>1, <4>1, <4>2
    <3> HIDE DEF at, n
    <3> QED BY <3>1
  <2> HIDE DEF next, body, A, n
  <2>2. ASSUME NEW g \in [0..n -> A], NEW h \in [0..n -> A], NEW i \in 0..n,
               \A j \in 0..n : j > i => g[j] = h[j]
        PROVE  body[<<g, i>>] = body[<<h, i>>]
    <3>1. next(g, i) = next(h, i)  BY Zenon, <2>1, <2>2
    <3> QED BY Zenon, <1>6, <3>1
  <2> QED BY Zenon, <2>2 DEF Behind
<1>8. PICK f \in [0..n -> A] : madeBehind(n, body, f)
  <2> HIDE DEF body, next, A, n
  <2>1. n \in Nat  BY <1>2
  <2>2. PICK a \in A : a = <<>>  BY <1>2
  <2>3. body \in [[0..n -> A] \X (0..n) -> A]  BY <1>5
  <2> HIDE DEF at
  <2>4. a \in A  BY <2>2
  <2>5. Behind(n, A, body)  BY <1>7
  <2> QED BY <2>1, <2>3, <2>4, <2>5, BackwardsExists
<1>9. \A i \in 0..n : f[i] = next(f, i)
  <2> HIDE DEF body, next, A, n
  <2> QED BY <1>6, <1>8 DEF madeBehind
<1> HIDE DEF body
<1>10. scans(d, f)  BY <1>1, <1>9 DEF scans
<1> DEFINE eq(h) == h = [i \in 1..(Len(d) + 4) |->
                           IF i > Len(d) - 4 THEN <<>>
                           ELSE IF codeAt(d, i) THEN <<i + 4>> \o h[i + 4] ELSE h[i + 1]]
           found_ == CHOOSE h : eq(h)
           g == [i \in 1..n |-> f[i]]
<1>11. codes(d) = found_[1]  BY DEF codes
<1>12. ASSUME NEW i \in 1..n
       PROVE  /\ i \in 0..n
              /\ f[i] = IF i > l - 4 THEN <<>>
                        ELSE IF codeAt(d, i) THEN <<i + 4>> \o f[i + 4] ELSE f[i + 1]
              /\ ~(i > l - 4) => i + 4 \in 1..n /\ i + 1 \in 1..n
  <2>1. i \in 0..n /\ i # 0 /\ (~(i > l - 4) => i + 4 \in 1..n /\ i + 1 \in 1..n)  OBVIOUS
  <2>2. f[i] = next(f, i)  BY <1>9, <2>1
  <2> HIDE DEF n
  <2> QED BY <2>1, <2>2 DEF cat
<1>13. eq(g)
  <2>1. ASSUME NEW i \in 1..n
        PROVE  g[i] = IF i > l - 4 THEN <<>>
                      ELSE IF codeAt(d, i) THEN <<i + 4>> \o g[i + 4] ELSE g[i + 1]
    <3>1. ~(i > l - 4) => g[i + 4] = f[i + 4] /\ g[i + 1] = f[i + 1]  BY <1>12
    <3>2. g[i] = f[i]  OBVIOUS
    <3> HIDE DEF g, n
    <3> QED BY <1>12, <3>1, <3>2
  <2>2. g = [i \in 1..n |-> g[i]]  OBVIOUS
  <2>3. 1..n = 1..(Len(d) + 4) /\ l = Len(d)  BY <1>1
  <2> HIDE DEF g, n
  <2> QED BY <2>1, <2>2, <2>3
<1> HIDE DEF g
<1>14. eq(found_)
  <2> HIDE DEF eq
  <2> QED BY <1>13
<1> HIDE DEF found_
<1>15. ASSUME NEW i \in 1..n
       PROVE  found_[i] = IF i > l - 4 THEN <<>>
                        ELSE IF codeAt(d, i) THEN <<i + 4>> \o found_[i + 4] ELSE found_[i + 1]
  <2>1. 1..n = 1..(Len(d) + 4) /\ l = Len(d)  BY <1>1
  <2> HIDE DEF n
  <2> QED BY <1>14, <2>1
\* Below n - k both are the same.
<1> DEFINE same(m) == \A i \in 1..n : i > n - m => found_[i] = f[i]
           G == {m \in 0..n : same(m)}
<1>16. 0 \in G
  <2>1. \A i \in 1..n : ~(i > n - 0)  OBVIOUS
  <2> QED BY <2>1
<1>17. ASSUME NEW m \in 1..n, m - 1 \in G PROVE m \in G
  <2>1. same(m - 1) /\ m \in 0..n  BY <1>17
  <2>2. ASSUME NEW i \in 1..n, i > n - m PROVE found_[i] = f[i]
    <3>1. ASSUME ~(i > l - 4)
          PROVE  /\ i + 4 \in 1..n /\ i + 1 \in 1..n
                 /\ found_[i + 4] = f[i + 4] /\ found_[i + 1] = f[i + 1]
      <4>1. i + 4 \in 1..n /\ i + 1 \in 1..n  BY <1>12, <3>1
      <4>2. i + 4 > n - (m - 1) /\ i + 1 > n - (m - 1)  BY <2>2
      <4> QED BY <2>1, <4>1, <4>2
    <3> HIDE DEF n
    <3> QED BY <1>12, <1>15, <3>1
  <2> HIDE DEF n
  <2> QED BY <2>1, <2>2
<1>18. G = 0..n
  <2>1. G \in SUBSET (0..n)  OBVIOUS
  <2> HIDE DEF G, n
  <2> QED BY <1>2, <1>16, <1>17, <2>1, Induct
<1>19. same(n)
  <2>1. n \in 0..n  BY <1>2
  <2> HIDE DEF same, n
  <2> QED BY <1>18, <2>1
<1>20. found_[1] = f[1]
  <2>1. 1 \in 1..n /\ 1 > n - n  OBVIOUS
  <2> QED BY <1>19, <2>1
<1>21. n = Len(d) + 4  BY <1>1
<1> QED BY <1>8, <1>10, <1>11, <1>20, <1>21

\* A sequence from its k-th on.
suffix(q, k) == [j \in 1..((Len(q) + 1) - k) |-> q[(k + j) - 1]]

LEMMA RestIs ==
  ASSUME NEW A, NEW q \in Seq(A)
  PROVE  /\ suffix(q, Len(q) + 1) = <<>> /\ suffix(q, 1) = q
         /\ \A k \in 1..Len(q) : suffix(q, k) = cat(<<q[k]>>, suffix(q, k + 1))
<1>1. PICK n \in Nat : n = Len(q)  BY LenProperties
<1>2. \A k \in 1..n : q[k] \in A  BY <1>1, ElementOfSeq
<1>3. ASSUME NEW k \in 1..(n + 1)
      PROVE  /\ suffix(q, k) \in Seq(A) /\ Len(suffix(q, k)) = (n + 1) - k
             /\ \A j \in 1..((n + 1) - k) : suffix(q, k)[j] = q[(k + j) - 1]
  <2> DEFINE u == suffix(q, k)
             m == (n + 1) - k
  <2>1. m \in Nat /\ \A j \in 1..m : (k + j) - 1 \in 1..n  OBVIOUS
  <2>2. u = [j \in 1..m |-> q[(k + j) - 1]]  BY <1>1 DEF suffix
  <2> HIDE DEF u, m
  <2>3. u \in [1..m -> A]  BY <1>2, <2>1, <2>2
  <2>4. u \in Seq(A) /\ Len(u) = m  BY <2>1, <2>3, LenProperties
  <2>5. \A j \in 1..m : u[j] = q[(k + j) - 1]  BY <2>2
  <2> QED BY Zenon, <2>4, <2>5 DEF u, m
<1>4. suffix(q, n + 1) = <<>>
  <2>1. n + 1 \in 1..(n + 1) /\ (n + 1) - (n + 1) = 0  OBVIOUS
  <2>2. suffix(q, n + 1) \in Seq(A) /\ Len(suffix(q, n + 1)) = (n + 1) - (n + 1)  BY <1>3, <2>1
  <2> QED BY <2>1, <2>2, EmptySeq
<1>5. suffix(q, 1) = q
  <2>1. 1 \in 1..(n + 1) /\ (n + 1) - 1 = n /\ \A j \in 1..n : (1 + j) - 1 = j  OBVIOUS
  <2>2. /\ suffix(q, 1) \in Seq(A) /\ Len(suffix(q, 1)) = (n + 1) - 1
        /\ \A j \in 1..((n + 1) - 1) : suffix(q, 1)[j] = q[(1 + j) - 1]
    BY <1>3, <2>1
  <2>3. Len(suffix(q, 1)) = n /\ \A j \in 1..n : suffix(q, 1)[j] = q[j]  BY <2>1, <2>2
  <2> QED BY <1>1, <2>2, <2>3, SeqEqual
<1>6. ASSUME NEW k \in 1..n PROVE suffix(q, k) = cat(<<q[k]>>, suffix(q, k + 1))
  <2> DEFINE s == <<q[k]>>
             t == suffix(q, k + 1)
             u == suffix(q, k)
             v == cat(s, t)
             m == n - k
  <2>1. /\ m \in Nat /\ (n + 1) - (k + 1) = m /\ (n + 1) - k = m + 1
        /\ k \in 1..(n + 1) /\ k + 1 \in 1..(n + 1)
    OBVIOUS
  <2>2. s \in Seq(A) /\ Len(s) = 1 /\ s[1] = q[k]  BY <1>2
  <2>3. t \in Seq(A) /\ Len(t) = m /\ \A j \in 1..m : t[j] = q[((k + 1) + j) - 1]
    <3>1. /\ t \in Seq(A) /\ Len(t) = (n + 1) - (k + 1)
          /\ \A j \in 1..((n + 1) - (k + 1)) : t[j] = q[((k + 1) + j) - 1]
      BY Zenon, <1>3, <2>1
    <3> HIDE DEF t, m
    <3> QED BY <2>1, <3>1
  <2>4. u \in Seq(A) /\ Len(u) = m + 1 /\ \A j \in 1..(m + 1) : u[j] = q[(k + j) - 1]
    <3>1. /\ u \in Seq(A) /\ Len(u) = (n + 1) - k
          /\ \A j \in 1..((n + 1) - k) : u[j] = q[(k + j) - 1]
      BY Zenon, <1>3, <2>1
    <3> HIDE DEF u, m
    <3> QED BY <2>1, <3>1
  <2> HIDE DEF m, s, t, u
  <2>5. v \in Seq(A) /\ Len(v) = m + 1 /\ v[1] = s[1] /\ \A i \in 1..m : v[1 + i] = t[i]
    <3>1. s \in Seq(A)  BY <2>2
    <3>2. t \in Seq(A)  BY <2>3
    <3>3. v \in Seq(A)  BY Zenon, <3>1, <3>2, CatMakes
    <3>4. /\ Len(v) = Len(s) + Len(t) /\ Len(s) \in Nat /\ Len(t) \in Nat
          /\ \A i \in 1..Len(s) : v[i] = s[i]
          /\ \A i \in 1..Len(t) : v[Len(s) + i] = t[i]
      <4>1. PICK x \in Seq(A), y \in Seq(A) : x = s /\ y = t  BY <3>1, <3>2
      <4>2. /\ Len(cat(x, y)) = Len(x) + Len(y) /\ Len(x) \in Nat /\ Len(y) \in Nat
            /\ \A i \in 1..Len(x) : cat(x, y)[i] = x[i]
            /\ \A i \in 1..Len(y) : cat(x, y)[Len(x) + i] = y[i]
        BY CatAt
      <4> QED BY Zenon, <4>1, <4>2
    <3> HIDE DEF v
    <3> QED BY <2>1, <2>2, <2>3, <3>3, <3>4
  <2> HIDE DEF v
  <2>6. ASSUME NEW i \in 1..(m + 1) PROVE u[i] = v[i]
    <3>1. CASE i = 1
      <4>1. (k + 1) - 1 = k  OBVIOUS
      <4>2. u[1] = q[k]  BY <2>1, <2>4, <4>1
      <4> QED BY <2>2, <2>5, <3>1, <4>2
    <3>2. CASE i # 1
      <4>1. i - 1 \in 1..m /\ 1 + (i - 1) = i /\ ((k + 1) + (i - 1)) - 1 = (k + i) - 1
        BY <2>1, <3>2
      <4>2. t[i - 1] = q[((k + 1) + (i - 1)) - 1] /\ v[1 + (i - 1)] = t[i - 1]
        BY <2>3, <2>5, <4>1
      <4>3. v[i] = q[(k + i) - 1]  BY Zenon, <4>1, <4>2
      <4> QED BY <2>4, <4>3
    <3> QED BY <3>1, <3>2
  <2>7. u = v  BY <2>4, <2>5, <2>6, SeqEqual
  <2> QED BY Zenon, <2>7 DEF s, t, u, v
<1> QED BY Zenon, <1>1, <1>4, <1>5, <1>6

\* The places behind the codes from the k-th on.
allStarts(n, e) == [j \in 1..n |-> e[j - 1] + 5]
starts(n, e, k) == suffix(allStarts(n, e), k)

LEMMA StartsIs ==
  ASSUME NEW n \in Nat, NEW e \in [0..n -> Nat]
  PROVE  /\ starts(n, e, n + 1) = <<>> /\ starts(n, e, 1) = allStarts(n, e)
         /\ \A k \in 1..n : starts(n, e, k) = cat(<<e[k - 1] + 5>>, starts(n, e, k + 1))
<1> DEFINE s == allStarts(n, e)
<1>1. ASSUME NEW k \in 1..n PROVE e[k - 1] + 5 \in Nat /\ s[k] = e[k - 1] + 5
  <2>1. k - 1 \in 0..n  OBVIOUS
  <2>2. e[k - 1] \in Nat  BY <2>1
  <2> QED BY <2>2 DEF allStarts
<1>2. s \in [1..n -> Nat]  BY <1>1 DEF allStarts
<1> HIDE DEF s
<1>3. s \in Seq(Nat) /\ Len(s) = n  BY <1>2, LenProperties
<1>4. /\ suffix(s, Len(s) + 1) = <<>> /\ suffix(s, 1) = s
      /\ \A k \in 1..Len(s) : suffix(s, k) = cat(<<s[k]>>, suffix(s, k + 1))
  BY <1>3, RestIs
<1>5. ASSUME NEW k \in 1..n PROVE suffix(s, k) = cat(<<e[k - 1] + 5>>, suffix(s, k + 1))
  <2>1. suffix(s, k) = cat(<<s[k]>>, suffix(s, k + 1))  BY Zenon, <1>3, <1>4
  <2> QED BY Zenon, <1>1, <2>1
<1> QED BY Zenon, <1>3, <1>4, <1>5 DEF starts, s

\* What a scan from the end finds, from e[k - 2] + 5 up to e[k - 1] + 1: the k-th code and
\* those behind it.
from(e, k) == IF k = 1 THEN 1 ELSE e[k - 2] + 5

finds(f, P, l) ==
  \A i \in 1..(l + 1) :
    f[i] = IF i > l - 4 THEN <<>> ELSE IF i \in P THEN cat(<<i + 4>>, f[i + 4]) ELSE f[i + 1]

LEMMA ScanIs ==
  ASSUME NEW n \in Nat, NEW e \in [0..n -> Nat], NEW l \in Nat, e[0] = 0, e[n] = l,
         NEW f, NEW P, finds(f, P, l),
         \A k \in 0..n : e[k] <= l,
         \A k \in 1..n : e[k - 1] + 5 <= e[k],
         \A k \in 1..n : e[k - 1] + 1 \in P,
         \A k \in 1..n : \A i \in Nat : e[k - 1] + 5 <= i /\ i <= e[k] /\ i + 3 <= l => i \notin P
  PROVE  f[1] = starts(n, e, 1)
<1> DEFINE right(i) == \A k \in 1..(n + 1) :
                         from(e, k) <= i /\ i <= e[k - 1] + 1 => f[i] = starts(n, e, k)
           bad == {m \in 0..l : ~right((l + 1) - m)}
<1>1. SUFFICES bad = {}
  <2>1. SUFFICES ASSUME bad = {} PROVE f[1] = starts(n, e, 1)
    OBVIOUS
  <2>2. l \in 0..l /\ (l + 1) - l = 1 /\ 1 \in 1..(n + 1)  OBVIOUS
  <2>3. right(1)
    <3> HIDE DEF right
    <3> QED BY <2>1, <2>2
  <2>4. from(e, 1) <= 1 /\ 1 <= e[1 - 1] + 1  BY DEF from
  <2> QED BY <2>2, <2>3, <2>4
<1>2. SUFFICES ASSUME bad # {} PROVE FALSE
  OBVIOUS
<1>3. PICK m \in bad : \A j \in bad : m <= j
  <2>1. bad \in SUBSET (0..l)  OBVIOUS
  <2> HIDE DEF bad
  <2> QED BY <1>2, <2>1, Least
<1>4. PICK i \in 1..(l + 1) : i = (l + 1) - m
  <2>1. m \in 0..l  OBVIOUS
  <2>2. (l + 1) - m \in 1..(l + 1)  BY <2>1
  <2> QED BY <2>2
<1>5. ASSUME NEW j \in 1..(l + 1), j > i PROVE right(j)
  <2>1. (l + 1) - j \in 0..l /\ ~(m <= (l + 1) - j) /\ (l + 1) - ((l + 1) - j) = j
    <3>1. m \in 0..l  OBVIOUS
    <3> QED BY <1>4, <1>5, <3>1
  <2> HIDE DEF right
  <2>2. (l + 1) - j \notin bad
    <3> HIDE DEF bad
    <3> QED BY <1>3, <2>1
  <2> QED BY <2>1, <2>2
<1>6. ~right(i)
  <2> HIDE DEF right
  <2> QED BY <1>4
<1>7. PICK k \in 1..(n + 1) : from(e, k) <= i /\ i <= e[k - 1] + 1 /\ f[i] # starts(n, e, k)
  BY <1>6
<1> HIDE DEF bad
<1>8. k - 1 \in 0..n /\ e[k - 1] \in Nat /\ e[k - 1] <= l /\ k \in 1..(n + 1)
  <2>1. k - 1 \in 0..n  OBVIOUS
  <2> QED BY <2>1
<1>9. f[i] = IF i > l - 4 THEN <<>> ELSE IF i \in P THEN cat(<<i + 4>>, f[i + 4]) ELSE f[i + 1]
  BY DEF finds
<1>10. ASSUME NEW q \in 1..n
       PROVE  q - 1 \in 0..n /\ q \in 0..n /\ e[q - 1] \in Nat /\ e[q] \in Nat
              /\ e[q - 1] + 5 <= e[q] /\ e[q] <= l
  <2>1. q - 1 \in 0..n /\ q \in 0..n  OBVIOUS
  <2> QED BY <2>1
<1>11. CASE i > l - 4
  <2>1. k = n + 1
    <3> SUFFICES ASSUME k # n + 1 PROVE FALSE
      OBVIOUS
    <3>1. k \in 1..n  OBVIOUS
    <3>2. e[k - 1] \in Nat /\ e[k] \in Nat /\ e[k - 1] + 5 <= e[k] /\ e[k] <= l  BY <1>10, <3>1
    <3> QED BY <1>7, <1>11, <3>2
  <2>2. starts(n, e, n + 1) = <<>>  BY StartsIs
  <2> QED BY <1>7, <1>9, <1>11, <2>1, <2>2
<1>12. CASE ~(i > l - 4) /\ i <= e[k - 1]
  <2>1. k # 1
    <3>1. k = 1 => e[k - 1] = 0  OBVIOUS
    <3> QED BY <1>12, <3>1
  <2>2. k - 1 \in 1..n /\ (k - 1) - 1 = k - 2  BY <2>1
  <2>3. e[k - 2] \in Nat /\ e[k - 2] + 5 <= i
    <3>1. e[(k - 1) - 1] \in Nat  BY <1>10, <2>2
    <3> QED BY <1>7, <2>1, <2>2, <3>1 DEF from
  <2>4. i \notin P
    <3>1. e[(k - 1) - 1] + 5 <= i /\ i <= e[k - 1] /\ i + 3 <= l /\ i \in Nat
      BY <1>12, <2>2, <2>3
    <3> QED BY <2>2, <3>1
  <2>5. f[i] = f[i + 1]  BY <1>9, <1>12, <2>4
  <2>6. i + 1 \in 1..(l + 1) /\ i + 1 > i  BY <1>8, <1>12
  <2>7. from(e, k) <= i + 1 /\ i + 1 <= e[k - 1] + 1
    <3>1. from(e, k) \in Nat  BY <2>1, <2>3 DEF from
    <3> QED BY <1>7, <1>8, <1>12, <3>1
  <2>8. right(i + 1)
    <3> HIDE DEF right
    <3> QED BY <1>5, <2>6
  <2> QED BY <1>7, <2>5, <2>7, <2>8
<1>13. CASE ~(i > l - 4) /\ i = e[k - 1] + 1
  <2>1. k \in 1..n
    <3>1. k # n + 1
      <4>1. k = n + 1 => e[k - 1] = l  OBVIOUS
      <4> QED BY <1>13, <4>1
    <3> QED BY <3>1
  <2>2. /\ e[k - 1] \in Nat /\ e[k] \in Nat /\ e[k - 1] + 5 <= e[k] /\ e[k] <= l
        /\ e[k - 1] + 1 \in P
    BY <1>10, <2>1
  <2>3. f[i] = cat(<<i + 4>>, f[i + 4])  BY <1>9, <1>13, <2>2
  <2>4. i + 4 = e[k - 1] + 5 /\ i + 4 \in 1..(l + 1) /\ i + 4 > i  BY <1>13, <2>2
  <2>5. right(i + 4)
    <3> HIDE DEF right
    <3> QED BY <1>5, <2>4
  <2>6. k + 1 \in 1..(n + 1) /\ (k + 1) - 1 = k /\ (k + 1) - 2 = k - 1 /\ k + 1 # 1  BY <2>1
  <2>7. from(e, k + 1) <= i + 4 /\ i + 4 <= e[(k + 1) - 1] + 1
    <3>1. from(e, k + 1) = e[k - 1] + 5  BY <2>6 DEF from
    <3> QED BY <2>2, <2>4, <2>6, <3>1
  <2>8. f[i + 4] = starts(n, e, k + 1)  BY <2>5, <2>6, <2>7
  <2>9. starts(n, e, k) = cat(<<e[k - 1] + 5>>, starts(n, e, k + 1))  BY <2>1, StartsIs
  <2> QED BY Zenon, <1>7, <2>3, <2>4, <2>8, <2>9
<1>14. i <= e[k - 1] \/ i = e[k - 1] + 1  BY <1>7, <1>8
<1> QED BY <1>11, <1>12, <1>13, <1>14

behindCodes(r, F) == [k \in 1..Len(r) |-> Len(F[k - 1]) + 5]

\* In a stream of nalus without codes in them, codes gives where each begins.
LEMMA CodesAre ==
  ASSUME NEW C, hasBytes(C), NEW r \in Seq(Seq(C)), NEW F \in [0..Len(r) -> Seq(C)],
         streamed(r, F),
         \A k \in 1..Len(r) : ~containsCode(r[k]) /\ Len(r[k]) # 0
  PROVE  codes(F[Len(r)]) = behindCodes(r, F)
<1>1. PICK n \in Nat : n = Len(r)  BY LenProperties
<1> DEFINE e == [k \in 0..n |-> Len(F[k])]
           w == [j \in 1..Len(r) |-> StartCode]
<1>2. PICK d \in Seq(C) : d = F[n]
  <2>1. n \in 0..Len(r)  BY <1>1
  <2> QED BY <2>1
<1>3. PICK l \in Nat : l = Len(d)  BY LenProperties
<1>4. placed(r, w, F)  BY DEF streamed
<1>5. \A j \in 1..n : w[j] = StartCode  BY <1>1
<1> HIDE DEF w
<1>6. /\ Len(F[0]) = 0
      /\ \A k \in 0..n : Len(F[k]) \in Nat /\ Len(F[k]) <= l
      /\ \A k \in 1..n : Len(F[k]) = Len(F[k - 1]) + 4 + Len(r[k]) /\ lies(d, Len(F[k - 1]), w[k])
  BY Zenon, <1>1, <1>2, <1>3, <1>4 DEF placed
<1>7. e \in [0..n -> Nat]  BY <1>6
<1>8. e[0] = 0 /\ e[n] = l /\ \A k \in 0..n : e[k] = Len(F[k]) /\ e[k] <= l
  <2>1. 0 \in 0..n /\ n \in 0..n  OBVIOUS
  <2>2. Len(F[n]) = l  BY <1>2, <1>3
  <2> QED BY <1>6, <2>1, <2>2
<1> HIDE DEF e
<1>9. ASSUME NEW k \in 1..n
      PROVE  /\ k - 1 \in 0..n /\ k \in 0..n /\ e[k - 1] \in Nat /\ e[k] \in Nat
             /\ e[k - 1] + 5 <= e[k] /\ e[k] <= l
             /\ lies(d, e[k - 1], StartCode)
  <2>1. k - 1 \in 0..n /\ k \in 0..n  OBVIOUS
  <2>2. e[k - 1] \in Nat /\ e[k] \in Nat /\ e[k - 1] = Len(F[k - 1]) /\ e[k] = Len(F[k]) /\ e[k] <= l
    BY <1>7, <1>8, <2>1
  <2>3. PICK x \in Seq(C) : x = r[k]
    <3>1. k \in 1..Len(r)  BY <1>1
    <3> QED BY <3>1, ElementOfSeq
  <2>4. Len(x) \in Nat /\ Len(x) # 0
    <3>1. k \in 1..Len(r)  BY <1>1
    <3>2. Len(r[k]) # 0  BY <3>1
    <3> QED BY <2>3, <3>2, LenProperties
  <2>5. e[k] = e[k - 1] + 4 + Len(x) /\ lies(d, e[k - 1], StartCode)
    <3>1. /\ Len(F[k]) = Len(F[k - 1]) + 4 + Len(r[k]) /\ lies(d, Len(F[k - 1]), w[k])
          /\ w[k] = StartCode
      BY <1>5, <1>6
    <3> QED BY Zenon, <2>2, <2>3, <3>1
  <2> QED BY <2>1, <2>2, <2>4, <2>5
<1> DEFINE P == {i \in 1..(l + 4) : codeAt(d, i)}
<1>10. ASSUME NEW k \in 1..n PROVE e[k - 1] + 1 \in P
  <2>1. e[k - 1] \in Nat /\ e[k - 1] + 4 <= l /\ lies(d, e[k - 1], StartCode)
    <3>1. /\ e[k - 1] \in Nat /\ e[k] \in Nat /\ e[k - 1] + 5 <= e[k] /\ e[k] <= l
          /\ lies(d, e[k - 1], StartCode)
      BY Zenon, <1>9
    <3>2. \A a, b, c \in Nat : a + 5 <= b /\ b <= c => a + 4 <= c  OBVIOUS
    <3> QED BY Zenon, <3>1, <3>2
  <2>2. codeAt(d, e[k - 1] + 1)  BY <1>3, <2>1, CodeAtIs
  <2> QED BY <2>1, <2>2
<1>11. ASSUME NEW k \in 1..n, NEW i \in Nat, e[k - 1] + 5 <= i, i <= e[k], i + 3 <= l
       PROVE  i \notin P
  <2>1. PICK j \in Nat : j + 1 = i /\ e[k - 1] + 4 <= j /\ j < e[k] /\ j + 4 <= l
    <3>1. e[k - 1] \in Nat /\ e[k] \in Nat  BY <1>9
    <3>2. i - 1 \in Nat /\ (i - 1) + 1 = i /\ e[k - 1] + 4 <= i - 1 /\ i - 1 < e[k] /\ (i - 1) + 4 <= l
      BY <1>11, <3>1
    <3> QED BY <3>2
  <2>2. /\ k \in 1..Len(r) /\ ~containsCode(r[k])
        /\ Len(F[k - 1]) + 4 <= j /\ j < Len(F[k]) /\ j + 4 <= Len(F[Len(r)])
    <3>1. k - 1 \in 0..n /\ k \in 0..n /\ k \in 1..Len(r)  BY <1>1
    <3>2. e[k - 1] = Len(F[k - 1]) /\ e[k] = Len(F[k])  BY <1>8, <3>1
    <3>3. Len(F[Len(r)]) = l  BY <1>1, <1>2, <1>3
    <3> QED BY <2>1, <3>1, <3>2, <3>3
  <2>3. ~codeAt(F[Len(r)], j + 1)  BY <2>2, NoCodeInside
  <2>4. ~codeAt(d, i)  BY Zenon, <1>1, <1>2, <2>1, <2>3
  <2> QED BY <2>4
<1>12. PICK f \in [0..(Len(d) + 4) -> Seq(Nat)] : scans(d, f) /\ codes(d) = f[1]
  BY CodesUnfold
<1>13. finds(f, P, l)
  <2>1. ASSUME NEW i \in 1..(l + 1)
        PROVE  f[i] = IF i > l - 4 THEN <<>> ELSE IF i \in P THEN cat(<<i + 4>>, f[i + 4]) ELSE f[i + 1]
    <3>1. i \in 0..(l + 4) /\ i # 0 /\ i \in 1..(l + 4)  OBVIOUS
    <3>2. f[i] = IF i > l - 4 THEN <<>>
                 ELSE IF i # 0 /\ codeAt(d, i) THEN cat(<<i + 4>>, f[i + 4]) ELSE f[i + 1]
      BY <1>3, <1>12, <3>1 DEF scans
    <3>3. i \in P <=> codeAt(d, i)  BY <3>1
    <3> HIDE DEF P
    <3> QED BY <3>1, <3>2, <3>3
  <2> HIDE DEF P
  <2> QED BY Zenon, <2>1 DEF finds
<1>14. f[1] = starts(n, e, 1)
  <2>1. /\ \A k \in 0..n : e[k] <= l
        /\ \A k \in 1..n : e[k - 1] + 5 <= e[k]
        /\ \A k \in 1..n : e[k - 1] + 1 \in P
        /\ \A k \in 1..n : \A i \in Nat : e[k - 1] + 5 <= i /\ i <= e[k] /\ i + 3 <= l => i \notin P
    <3> HIDE DEF P
    <3> QED BY <1>8, <1>9, <1>10, <1>11
  <2> HIDE DEF P
  <2> QED BY <1>7, <1>8, <1>13, <2>1, ScanIs
<1>15. starts(n, e, 1) = [k \in 1..n |-> Len(F[k - 1]) + 5]
  <2>1. \A k \in 1..n : e[k - 1] + 5 = Len(F[k - 1]) + 5
    <3>1. \A k \in 1..n : k - 1 \in 0..n  OBVIOUS
    <3> QED BY <1>8, <3>1
  <2>2. starts(n, e, 1) = allStarts(n, e)  BY <1>7, StartsIs
  <2> QED BY <2>1, <2>2 DEF allStarts
<1>16. codes(d) = [k \in 1..n |-> Len(F[k - 1]) + 5]  BY Zenon, <1>12, <1>14, <1>15
<1>17. behindCodes(r, F) = [k \in 1..n |-> Len(F[k - 1]) + 5]  BY Zenon, <1>1 DEF behindCodes
<1> QED BY Zenon, <1>1, <1>2, <1>16, <1>17

LEMMA StreamIs ==
  ASSUME NEW C, hasBytes(C), NEW r \in Seq(Seq(C))
  PROVE  \E F \in [0..Len(r) -> Seq(C)] : streamed(r, F)
<1> DEFINE w == [k \in 1..Len(r) |-> StartCode]
<1>1. StartCode \in Seq(C) /\ Len(StartCode) = 4  BY StartCodeIs
<1>2. w \in [1..Len(r) -> Seq(C)] /\ \A k \in 1..Len(r) : Len(w[k]) = 4  BY <1>1
<1> HIDE DEF w
<1>3. PICK F \in [0..Len(r) -> Seq(C)] : placed(r, w, F)  BY <1>2, PartsPlaced
<1> QED BY <1>3 DEF streamed, w

grows(r, F) ==
  /\ F[0] = <<>>
  /\ \A k \in 1..Len(r) : F[k] = cat(F[k - 1], cat(StartCode, r[k]))

\* The stream of nalus, and how it grows.
LEMMA StreamedIs ==
  ASSUME NEW C, hasBytes(C), NEW r \in Seq(Seq(C)), NEW F \in [0..Len(r) -> Seq(C)],
         streamed(r, F)
  PROVE  grows(r, F) /\ toStream(r, <<>>) = F[Len(r)]
<1> DEFINE w == [k \in 1..Len(r) |-> StartCode]
           q == behind(r, w)
           c == StartCode
<1>1. Len(r) \in Nat /\ DOMAIN r = 1..Len(r)  BY LenProperties
<1>2. flat(q, F)  BY DEF streamed, placed
<1>3. q = [k \in 1..Len(r) |-> cat(c, r[k])]
  <2>1. \A k \in 1..Len(r) : w[k] = c  OBVIOUS
  <2> HIDE DEF w, c
  <2> QED BY <1>1, <2>1 DEF behind
<1>4. Len(q) = Len(r)
  <2>1. q \in [1..Len(r) -> {cat(c, r[k]) : k \in 1..Len(r)}]
    <3> HIDE DEF c, q
    <3> QED BY <1>3
  <2> HIDE DEF q, c
  <2> QED BY <1>1, <2>1, LenProperties
<1>5. \A k \in 1..Len(r) : q[k] = cat(c, r[k])
  <2> HIDE DEF c, q
  <2> QED BY <1>3
<1>6. grows(r, F)
  <2> HIDE DEF q
  <2> QED BY <1>2, <1>4, <1>5 DEF grows, flat
<1>7. toStream(r, <<>>) = FlattenSeq(q)
  <2>1. <<>> \o r = r  BY ConcatEmptySeq
  <2>2. toStream(r, <<>>) = FlattenSeq([k \in DOMAIN r |-> c \o r[k]])
    <3> HIDE DEF c
    <3> QED BY Zenon, <2>1 DEF toStream, c
  <2>3. q = [k \in DOMAIN r |-> c \o r[k]]
    <3> HIDE DEF q, c
    <3> QED BY <1>1, <1>3 DEF cat
  <2> HIDE DEF q, c
  <2> QED BY Zenon, <2>2, <2>3
<1> HIDE DEF q
<1> QED BY <1>2, <1>4, <1>6, <1>7 DEF flat

\* What lies behind the first m nalus is the stream of the others.
LEMMA TailIs ==
  ASSUME NEW C, hasBytes(C), NEW r \in Seq(Seq(C)), NEW F \in [0..Len(r) -> Seq(C)],
         streamed(r, F), NEW m \in 0..Len(r)
  PROVE  LET t == toStream(SubSeq(r, m + 1, Len(r)), <<>>)
         IN t \in Seq(C) /\ F[Len(r)] = cat(F[m], t)
<1>1. PICK n \in Nat : n = Len(r)  BY LenProperties
<1>2. PICK s : s = SubSeq(r, m + 1, n)  OBVIOUS
<1>3. s \in Seq(Seq(C)) /\ Len(s) = n - m /\ \A j \in 1..(n - m) : s[j] = r[m + j]
  <2>1. \A i \in (m + 1)..n : r[i] \in Seq(C)
    <3>1. \A i \in (m + 1)..n : i \in 1..Len(r)  BY <1>1
    <3> QED BY <3>1, ElementOfSeq
  <2>2. m + 1 \in Nat \ {0} /\ m + 1 <= n + 1 /\ n - (m + 1) + 1 = n - m  BY <1>1
  <2>3. PICK i \in Nat \ {0} : i = m + 1  BY <2>2
  <2>4. \A j \in 1..(n - m) : i + j - 1 = m + j  BY <1>1, <2>3
  <2>5. /\ SubSeq(r, i, n) \in Seq(Seq(C)) /\ Len(SubSeq(r, i, n)) = n - i + 1
        /\ \A j \in 1..(n - i + 1) : SubSeq(r, i, n)[j] = r[i + j - 1]
    BY <1>1, <2>1, <2>2, <2>3, SubSeqProperties
  <2> QED BY <1>1, <1>2, <2>2, <2>3, <2>4, <2>5
<1>4. PICK H \in [0..Len(s) -> Seq(C)] : streamed(s, H)  BY <1>3, StreamIs
<1>5. grows(s, H) /\ toStream(s, <<>>) = H[Len(s)]  BY <1>3, <1>4, StreamedIs
<1>6. grows(r, F)  BY StreamedIs
<1>7. PICK l \in Nat : l = Len(s) /\ l = n - m /\ m + l = n
  <2>1. m \in 0..n  BY <1>1
  <2>2. n - m \in Nat /\ m + (n - m) = n  BY <2>1
  <2> QED BY Zenon, <1>3, <2>2
<1>8. /\ H[0] = <<>>
      /\ \A j \in 1..l : H[j] = cat(H[j - 1], cat(StartCode, s[j]))
  BY Zenon, <1>5, <1>7 DEF grows
<1>9. \A k \in 1..n : F[k] = cat(F[k - 1], cat(StartCode, r[k]))
  BY Zenon, <1>1, <1>6 DEF grows
<1>10. \A j \in 0..l : H[j] \in Seq(C)  BY <1>7
<1>11. \A k \in 0..n : F[k] \in Seq(C)  BY <1>1
<1>12. m \in 0..n  BY <1>1
<1> DEFINE G == {j \in 0..l : F[m + j] = cat(F[m], H[j])}
<1>13. 0 \in G
  <2>1. cat(F[m], <<>>) = F[m]
    <3>1. F[m] \in Seq(C)  BY <1>11, <1>12
    <3> QED BY <3>1, Cat
  <2>2. m + 0 = m  BY <1>12
  <2> QED BY <1>8, <2>1, <2>2
<1>14. ASSUME NEW j \in 1..l, j - 1 \in G PROVE j \in G
  <2>1. /\ m + j \in 1..n /\ (m + j) - 1 = m + (j - 1) /\ j - 1 \in 0..l /\ j \in 0..l
        /\ m + (j - 1) \in 0..n /\ j \in 1..(n - m)
    BY <1>7, <1>12
  <2>2. F[m + (j - 1)] = cat(F[m], H[j - 1])  BY <1>14
  <2> DEFINE x == cat(StartCode, s[j])
             a == F[m]
             b == H[j - 1]
  <2>3. x \in Seq(C) /\ a \in Seq(C) /\ b \in Seq(C)
    <3>1. s[j] \in Seq(C)  BY <1>3, <1>7, <2>1, ElementOfSeq
    <3>2. StartCode \in Seq(C)  BY StartCodeIs
    <3>3. x \in Seq(C)  BY Zenon, <3>1, <3>2, CatTyped
    <3>4. a \in Seq(C) /\ b \in Seq(C)  BY <1>10, <1>11, <1>12, <2>1
    <3> HIDE DEF x
    <3> QED BY <3>3, <3>4
  <2>4. F[m + j] = cat(F[m + (j - 1)], x)
    <3>1. F[m + j] = cat(F[(m + j) - 1], cat(StartCode, r[m + j]))  BY <1>9, <2>1
    <3>2. s[j] = r[m + j]  BY <1>3, <2>1
    <3> QED BY Zenon, <2>1, <3>1, <3>2
  <2>5. H[j] = cat(b, x)  BY <1>8
  <2> HIDE DEF x, a, b
  <2>6. cat(cat(a, b), x) = cat(a, cat(b, x))
    <3>1. x \in Seq(C)  BY <2>3
    <3>2. a \in Seq(C)  BY <2>3
    <3>3. b \in Seq(C)  BY <2>3
    <3> QED BY <3>1, <3>2, <3>3, CatCat
  <2>7. F[m + j] = cat(F[m], H[j])  BY Zenon, <2>2, <2>4, <2>5, <2>6 DEF a, b
  <2> QED BY <2>1, <2>7
<1>15. G = 0..l
  <2>1. G \in SUBSET (0..l)  OBVIOUS
  <2> HIDE DEF G
  <2> QED BY <1>13, <1>14, <2>1, Induct
<1>16. F[n] = cat(F[m], H[l])
  <2>1. l \in G  BY <1>15
  <2> QED BY <1>7, <2>1
<1>17. H[l] \in Seq(C)  BY <1>10
<1> QED BY Zenon, <1>1, <1>2, <1>5, <1>7, <1>16, <1>17

LEMMA LiesJoin ==
  ASSUME NEW C, NEW bytes \in Seq(C), NEW at \in Nat, NEW s \in Seq(C), NEW t \in Seq(C),
         lies(bytes, at, s), lies(bytes, at + Len(s), t)
  PROVE  lies(bytes, at, cat(s, t))
<1>1. /\ Len(cat(s, t)) = Len(s) + Len(t) /\ Len(s) \in Nat /\ Len(t) \in Nat
      /\ \A i \in 1..Len(s) : cat(s, t)[i] = s[i]
      /\ \A i \in 1..Len(t) : cat(s, t)[Len(s) + i] = t[i]
  BY CatAt
<1>2. /\ (at + Len(s)) + Len(t) <= Len(bytes)
      /\ \A i \in 1..Len(s) : bytes[at + i] = s[i]
      /\ \A i \in 1..Len(t) : bytes[(at + Len(s)) + i] = t[i]
  BY DEF lies
<1>3. Len(bytes) \in Nat  BY LenProperties
<1> DEFINE ls == Len(s)
           lt == Len(t)
           u == cat(s, t)
<1>4. ASSUME NEW i \in 1..Len(u) PROVE bytes[at + i] = u[i]
  <2>1. i \in 1..(ls + lt)  BY <1>1
  <2>2. CASE i <= ls
    <3>1. i \in 1..ls
      <4> HIDE DEF ls, lt
      <4> QED BY <2>1, <2>2
    <3> QED BY <1>1, <1>2, <3>1
  <2>3. CASE ~(i <= ls)
    <3>1. i - ls \in 1..lt /\ ls + (i - ls) = i /\ (at + ls) + (i - ls) = at + i
      <4>1. ls \in Nat /\ lt \in Nat  BY <1>1
      <4> HIDE DEF ls, lt
      <4> QED BY <2>1, <2>3, <4>1
    <3>2. bytes[(at + ls) + (i - ls)] = t[i - ls] /\ u[ls + (i - ls)] = t[i - ls]  BY <1>1, <1>2, <3>1
    <3> QED BY Zenon, <3>1, <3>2
  <2> QED BY <2>2, <2>3
<1>5. at + Len(u) <= Len(bytes)  BY <1>1, <1>2, <1>3
<1> HIDE DEF u
<1>6. lies(bytes, at, u)  BY Zenon, <1>4, <1>5 DEF lies
<1> QED BY <1>6 DEF u

\* One nalu of a stream, and the last that a split has room for with all behind it.
LEMMA NaluCut ==
  ASSUME NEW C, hasBytes(C), NEW r \in Seq(Seq(C)), NEW F \in [0..Len(r) -> Seq(C)],
         streamed(r, F), NEW k \in 1..Len(r)
  PROVE  LET d == F[Len(r)]
             t == toStream(SubSeq(r, k + 1, Len(r)), <<>>)
         IN /\ SubSeq(d, Len(F[k - 1]) + 5, Len(F[k])) = r[k]
            /\ SubSeq(d, Len(F[k - 1]) + 5, Len(d)) = cat(r[k], t)
<1>1. PICK n \in Nat, x \in Seq(C), d \in Seq(C), b \in Nat, e \in Nat :
        /\ n = Len(r) /\ x = r[k] /\ d = F[Len(r)] /\ b = Len(F[k - 1]) + 4 /\ e = Len(F[k])
        /\ b + 1 = Len(F[k - 1]) + 5
  <2>1. Len(r) \in Nat /\ Len(r) \in 0..Len(r) /\ k - 1 \in 0..Len(r) /\ k \in 0..Len(r)
    BY LenProperties
  <2>2. r[k] \in Seq(C)  BY ElementOfSeq
  <2>3. F[Len(r)] \in Seq(C) /\ F[k - 1] \in Seq(C) /\ F[k] \in Seq(C)  BY <2>1
  <2>4. Len(F[k - 1]) \in Nat /\ Len(F[k]) \in Nat  BY <2>3, LenProperties
  <2>5. Len(F[k - 1]) + 4 \in Nat /\ (Len(F[k - 1]) + 4) + 1 = Len(F[k - 1]) + 5  BY <2>4
  <2> QED BY <2>1, <2>2, <2>3, <2>4, <2>5
<1>2. lies(d, b, x) /\ e = b + Len(x)
  <2> DEFINE w == [j \in 1..Len(r) |-> StartCode]
  <2>1. placed(r, w, F)  BY DEF streamed
  <2> HIDE DEF w
  <2>2. Len(F[k]) = Len(F[k - 1]) + 4 + Len(r[k]) /\ lies(F[Len(r)], Len(F[k - 1]) + 4, r[k])
    BY <2>1 DEF placed
  <2> QED BY Zenon, <1>1, <2>2
<1>3. SubSeq(d, b + 1, b + Len(x)) = x  BY <1>2, LiesIs
<1>4. PICK t \in Seq(C) : /\ t = toStream(SubSeq(r, k + 1, Len(r)), <<>>)
                          /\ d = cat(F[k], t)
  <2>1. k \in 0..Len(r)  OBVIOUS
  <2>2. LET u == toStream(SubSeq(r, k + 1, Len(r)), <<>>)
        IN u \in Seq(C) /\ F[Len(r)] = cat(F[k], u)
    BY <2>1, TailIs
  <2> QED BY <1>1, <2>2
<1>5. PICK g \in Seq(C) : g = F[k]
  <2>1. k \in 0..Len(r)  OBVIOUS
  <2> QED BY <2>1
<1>6. d = cat(g, t) /\ Len(g) = e  BY <1>1, <1>4, <1>5
<1>7. Len(d) \in Nat /\ Len(d) = Len(g) + Len(t)
  <2>1. Len(cat(g, t)) = Len(g) + Len(t)  BY CatAt
  <2> QED BY <1>6, <2>1, LenProperties
<1>8. lies(d, 0, cat(g, t))
  <2>1. 0 + Len(d) <= Len(d) /\ \A i \in 1..Len(d) : d[0 + i] = d[i]  BY <1>7
  <2> QED BY <1>6, <2>1 DEF lies
<1>9. lies(d, b + Len(x), t)
  <2>1. lies(d, 0 + Len(g), t)  BY <1>7, <1>8, LiesParts
  <2>2. 0 + Len(g) = b + Len(x)  BY <1>2, <1>6
  <2> QED BY Zenon, <2>1, <2>2
<1>10. lies(d, b, cat(x, t))  BY <1>2, <1>9, LiesJoin
<1>11. SubSeq(d, b + 1, Len(d)) = cat(x, t)
  <2>1. PICK v \in Seq(C) : v = cat(x, t) /\ Len(v) = Len(x) + Len(t)  BY CatMakes
  <2>2. lies(d, b, v)  BY <1>10, <2>1
  <2>3. SubSeq(d, b + 1, b + Len(v)) = v  BY <2>2, LiesIs
  <2>4. b + Len(v) = Len(d)
    <3>1. Len(x) \in Nat /\ Len(t) \in Nat  BY LenProperties
    <3> QED BY <1>2, <1>6, <1>7, <2>1, <3>1
  <2> QED BY Zenon, <2>1, <2>3, <2>4
<1> QED BY Zenon, <1>1, <1>2, <1>3, <1>4, <1>11

\* A stream of nalus that is split.
LEMMA SplitIs ==
  ASSUME NEW C, hasBytes(C), NEW r \in Seq(Seq(C)), NEW max \in Nat \ {0},
         \A k \in 1..Len(r) : ~containsCode(r[k]) /\ Len(r[k]) # 0
  PROVE  splitNalu(toStream(r, <<>>), max) = absorbed(r, max)
<1>1. PICK F \in [0..Len(r) -> Seq(C)] : streamed(r, F)  BY StreamIs
<1>2. PICK n \in Nat : n = Len(r)  BY LenProperties
<1>3. PICK d \in Seq(C) : d = F[n]
  <2>1. n \in 0..Len(r)  BY <1>2
  <2> QED BY <2>1
<1>4. toStream(r, <<>>) = d  BY <1>1, <1>2, <1>3, StreamedIs
<1> DEFINE all == [k \in 1..n |-> Len(F[k - 1]) + 5]
<1>5. codes(d) = all
  <2>1. codes(F[Len(r)]) = behindCodes(r, F)  BY <1>1, CodesAre
  <2>2. behindCodes(r, F) = all  BY Zenon, <1>2 DEF behindCodes
  <2> QED BY Zenon, <1>2, <1>3, <2>1, <2>2
<1>6. \A k \in 0..n : Len(F[k]) \in Nat
  <2>1. \A k \in 0..n : F[k] \in Seq(C)  BY <1>2
  <2> QED BY <2>1, LenProperties
<1>7. all \in Seq(Nat) /\ Len(all) = n /\ \A k \in 1..n : all[k] = Len(F[k - 1]) + 5
  <2>1. \A k \in 1..n : Len(F[k - 1]) + 5 \in Nat
    <3>1. \A k \in 1..n : k - 1 \in 0..n  OBVIOUS
    <3> QED BY <1>6, <3>1
  <2>2. all \in [1..n -> Nat]  BY <2>1
  <2>3. \A k \in 1..n : all[k] = Len(F[k - 1]) + 5  OBVIOUS
  <2> HIDE DEF all
  <2> QED BY <2>2, <2>3, LenProperties
<1> HIDE DEF all
<1> DEFINE c == IF n < max THEN n ELSE max
           first_ == SubSeq(all, 1, c)
           part(k) == SubSeq(d, all[k], IF k < c THEN all[k + 1] - 5 ELSE Len(d))
<1>8. c \in Nat /\ c <= n  OBVIOUS
<1>9. first_ \in Seq(Nat) /\ Len(first_) = c /\ DOMAIN first_ = 1..c
      /\ \A k \in 1..c : first_[k] = all[k]
  <2>1. \A i \in 1..c : all[i] \in Nat
    <3>1. \A i \in 1..n : all[i] \in Nat  BY <1>7, ElementOfSeq
    <3> QED BY <1>8, <3>1
  <2>2. /\ first_ \in Seq(Nat) /\ Len(first_) = IF 1 <= c THEN c - 1 + 1 ELSE 0
        /\ \A i \in 1..(c - 1 + 1) : first_[i] = all[1 + i - 1]
    <3> HIDE DEF c
    <3> QED BY <1>8, <2>1, SubSeqProperties
  <2>3. Len(first_) = c  
    <3> HIDE DEF c, first_
    <3> QED BY <1>8, <2>2
  <2>4. \A k \in 1..c : first_[k] = all[k]
    <3> HIDE DEF c, first_
    <3>1. \A k \in 1..c : k \in 1..(c - 1 + 1) /\ 1 + k - 1 = k  BY <1>8
    <3> QED BY <2>2, <3>1
  <2> HIDE DEF c, first_
  <2> QED BY <2>2, <2>3, <2>4, LenProperties
<1>10. splitNalu(d, max) = [k \in 1..c |-> part(k)]
  <2>1. splitNalu(d, max) =
          [k \in DOMAIN first_ |->
             SubSeq(d, first_[k], IF k < Len(first_) THEN first_[k + 1] - 5 ELSE Len(d))]
    <3>1. (IF Len(all) < max THEN Len(all) ELSE max) = c  BY <1>7
    <3> HIDE DEF c
    <3> QED BY Zenon, <1>5, <3>1 DEF splitNalu
  <2>2. ASSUME NEW k \in 1..c
        PROVE  SubSeq(d, first_[k], IF k < Len(first_) THEN first_[k + 1] - 5 ELSE Len(d)) = part(k)
    <3>1. first_[k] = all[k] /\ Len(first_) = c  BY <1>9
    <3>2. k < c => first_[k + 1] = all[k + 1]
      <4>1. k < c => k + 1 \in 1..c
        <5> HIDE DEF c
        <5> QED BY <1>8
      <4> HIDE DEF c, first_
      <4> QED BY <1>9, <4>1
    <3> HIDE DEF c, first_
    <3> QED BY <3>1, <3>2
  <2> HIDE DEF c, first_, part
  <2> QED BY <1>9, <2>1, <2>2
<1>11. ASSUME NEW k \in 1..n
       PROVE  /\ SubSeq(d, all[k], Len(F[k])) = r[k]
              /\ SubSeq(d, all[k], Len(d)) = cat(r[k], toStream(SubSeq(r, k + 1, n), <<>>))
  <2>1. k \in 1..Len(r)  BY <1>2
  <2>2. /\ SubSeq(F[Len(r)], Len(F[k - 1]) + 5, Len(F[k])) = r[k]
        /\ SubSeq(F[Len(r)], Len(F[k - 1]) + 5, Len(F[Len(r)]))
             = cat(r[k], toStream(SubSeq(r, k + 1, Len(r)), <<>>))
    BY <1>1, <2>1, NaluCut
  <2>3. all[k] = Len(F[k - 1]) + 5  BY <1>7
  <2> QED BY Zenon, <1>2, <1>3, <2>2, <2>3
<1>12. ASSUME NEW k \in 1..c, k < c PROVE part(k) = r[k]
  <2>1. k \in 1..n /\ k + 1 \in 1..n /\ (k + 1) - 1 = k /\ k \in 0..n
    <3> HIDE DEF c
    <3> QED BY <1>8, <1>12
  <2>2. all[k + 1] = Len(F[(k + 1) - 1]) + 5  BY <1>7, <2>1
  <2>3. all[k + 1] - 5 = Len(F[k])
    <3>1. all[k + 1] = Len(F[k]) + 5  BY Zenon, <2>1, <2>2
    <3>2. Len(F[k]) \in Nat  BY <1>6, <2>1
    <3> QED BY <3>1, <3>2
  <2>4. part(k) = SubSeq(d, all[k], all[k + 1] - 5)
    <3> HIDE DEF c
    <3> QED BY <1>12
  <2> QED BY Zenon, <1>11, <2>1, <2>3, <2>4
<1>13. ASSUME NEW k \in 1..c, ~(k < c) PROVE part(k) = SubSeq(d, all[k], Len(d))
  <2> HIDE DEF c
  <2> QED BY <1>13
<1> HIDE DEF part
<1>14. CASE n <= max
  <2>1. c = n  BY <1>14
  <2>2. ASSUME NEW k \in 1..n PROVE part(k) = r[k]
    <3>1. k < c => part(k) = r[k]  BY <1>12, <2>1
    <3>2. ASSUME ~(k < c) PROVE part(k) = r[k]
      <4>1. part(k) = SubSeq(d, all[k], Len(d))  BY <1>13, <2>1, <3>2
      <4>2. k = n  BY <2>1, <3>2
      <4>3. Len(F[k]) = Len(d)  BY <1>3, <4>2
      <4> QED BY Zenon, <1>11, <4>1, <4>3
    <3> QED BY Zenon, <3>1, <3>2
  <2>3. [k \in 1..n |-> part(k)] = r
    <3>1. r = [k \in 1..n |-> r[k]]  BY <1>2
    <3> QED BY <2>2, <3>1
  <2>4. absorbed(r, max) = r  BY <1>2, <1>14 DEF absorbed
  <2> HIDE DEF c
  <2> QED BY Zenon, <1>4, <1>10, <2>1, <2>3, <2>4
<1>15. CASE ~(n <= max)
  <2>1. c = max /\ max \in 1..n /\ max - 1 \in Nat  BY <1>15
  <2> HIDE DEF c
  <2>2. \A k \in 1..(max - 1) : k \in 1..c /\ k < c /\ k \in 1..n  BY <2>1
  <2>3. \A k \in 1..(max - 1) : part(k) = r[k]  BY <1>12, <2>2
  <2> DEFINE x == cat(r[max], toStream(SubSeq(r, max + 1, n), <<>>))
             begin == SubSeq(r, 1, max - 1)
             u == [k \in 1..max |-> part(k)]
  <2>4. part(max) = x
    <3>1. max \in 1..c /\ ~(max < c)  BY <2>1
    <3>2. part(max) = SubSeq(d, all[max], Len(d))  BY <1>13, <3>1
    <3> QED BY Zenon, <1>11, <2>1, <3>2
  <2>5. absorbed(r, max) = cat(begin, <<x>>)  BY <1>2, <1>15 DEF absorbed, cat
  <2>6. x \in Seq(C)
    <3>1. max \in 0..Len(r) /\ max \in 1..Len(r)  BY <1>2, <2>1
    <3>2. LET t == toStream(SubSeq(r, max + 1, Len(r)), <<>>)
          IN t \in Seq(C) /\ F[Len(r)] = cat(F[max], t)
      BY <1>1, <3>1, TailIs
    <3>3. PICK t \in Seq(C) : t = toStream(SubSeq(r, max + 1, n), <<>>)  BY <1>2, <3>2
    <3>4. PICK y \in Seq(C) : y = r[max]  BY <3>1, ElementOfSeq
    <3>5. cat(y, t) \in Seq(C)  BY CatTyped
    <3> QED BY Zenon, <3>3, <3>4, <3>5
  <2> HIDE DEF x
  <2>7. begin \in Seq(Seq(C)) /\ Len(begin) = max - 1 /\ \A k \in 1..(max - 1) : begin[k] = r[k]
    <3>1. \A i \in 1..(max - 1) : r[i] \in Seq(C)
      <4>1. \A i \in 1..(max - 1) : i \in 1..Len(r)  BY <1>2, <2>1
      <4> QED BY <4>1, ElementOfSeq
    <3>2. PICK m \in Nat : m = max - 1  BY <2>1
    <3>3. \A i \in 1..m : r[i] \in Seq(C)  BY <3>1, <3>2
    <3>4. SubSeq(r, 1, m) \in Seq(Seq(C)) /\ Len(SubSeq(r, 1, m)) = m
          /\ \A k \in 1..m : SubSeq(r, 1, m)[k] = r[k]
      BY <3>3, SubSeqProperties
    <3> QED BY Zenon, <3>2, <3>4
  <2> HIDE DEF begin
  <2>8. <<x>> \in Seq(Seq(C)) /\ Len(<<x>>) = 1 /\ <<x>>[1] = x  BY <2>6
  <2>9. u \in Seq(Seq(C)) /\ Len(u) = max /\ \A k \in 1..max : u[k] = part(k)
    <3>1. ASSUME NEW k \in 1..max PROVE part(k) \in Seq(C)
      <4>1. CASE k = max
        BY <2>4, <2>6, <4>1
      <4>2. CASE k # max
        <5>1. k \in 1..(max - 1) /\ k \in 1..Len(r)  BY <1>2, <2>1, <4>2
        <5>2. part(k) = r[k] /\ r[k] \in Seq(C)  BY <2>3, <5>1, ElementOfSeq
        <5> QED BY <5>2
      <4> QED BY <4>1, <4>2
    <3>2. u \in [1..max -> Seq(C)]  BY <3>1
    <3>3. \A k \in 1..max : u[k] = part(k)  OBVIOUS
    <3> HIDE DEF u
    <3> QED BY <3>2, <3>3, LenProperties
  <2> DEFINE y == <<x>>
             v == cat(begin, y)
  <2>10. /\ v \in Seq(Seq(C)) /\ Len(v) = max
         /\ \A k \in 1..(max - 1) : v[k] = r[k]
         /\ v[max] = x
    <3> HIDE DEF y
    <3>0. y \in Seq(Seq(C)) /\ Len(y) = 1 /\ y[1] = x  BY <2>8 DEF y
    <3>1. begin \in Seq(Seq(C))  BY <2>7
    <3>2. y \in Seq(Seq(C))  BY <3>0
    <3>3. v \in Seq(Seq(C)) /\ Len(v) = Len(begin) + Len(y)  BY Zenon, <3>1, <3>2, CatMakes
    <3>4. /\ \A i \in 1..Len(begin) : v[i] = begin[i]
          /\ \A i \in 1..Len(y) : v[Len(begin) + i] = y[i]
      BY <3>1, <3>2, CatAt
    <3> HIDE DEF v
    <3>5. Len(v) = max  BY <2>1, <2>7, <3>0, <3>3
    <3>6. \A k \in 1..(max - 1) : v[k] = r[k]  BY <2>7, <3>4
    <3>7. v[max] = x
      <4>1. 1 \in 1..Len(y) /\ Len(begin) + 1 = max  BY <2>1, <2>7, <3>0
      <4>2. v[Len(begin) + 1] = y[1]  BY <3>4, <4>1
      <4> QED BY <3>0, <4>1, <4>2
    <3> QED BY <3>3, <3>5, <3>6, <3>7
  <2> HIDE DEF u, v
  <2>11. ASSUME NEW k \in 1..max PROVE u[k] = v[k]
    <3>1. CASE k = max
      BY <2>4, <2>9, <2>10, <3>1
    <3>2. CASE k # max
      <4>1. k \in 1..(max - 1)  BY <3>2
      <4> QED BY <2>3, <2>9, <2>10, <4>1
    <3> QED BY <3>1, <3>2
  <2>12. u = v  BY <2>9, <2>10, <2>11, SeqEqual
  <2>13. splitNalu(d, max) = u  BY Zenon, <1>10, <2>1 DEF u
  <2> QED BY Zenon, <1>4, <2>5, <2>12, <2>13 DEF v
<1> QED BY <1>14, <1>15

\* A length in four bytes.
lengthBytes(x) == <<0, 0, 0, Len(x)>>

LEMMA LengthBytesAre ==
  ASSUME NEW x, Len(x) \in Nat
  PROVE  lengthBytes(x) \in Seq(Nat) /\ Len(lengthBytes(x)) = 4 /\ lengthBytes(x)[4] = Len(x)
BY DEF lengthBytes

cutting(d, a, b) == SubSeq(d, a, b)

\* toAnnexBWithXVCC read as what it asks of its function.
slicesOf(d, f) ==
  \A i \in Nat :
    f[i] = IF i >= Len(d) - 4 THEN <<>>
           ELSE cat(<<SubSeq(d, i + 5, i + 4 + d[i + 4])>>, f[i + d[i + 4] + 4])

LEMMA XvccUnfold ==
  ASSUME NEW d \in Seq(Nat), ~(Len(d) < 5)
  PROVE  \E f : slicesOf(d, f) /\ toAnnexBWithXVCC(d) = f[0]
<1>1. PICK l \in Nat : l = Len(d)  BY LenProperties
<1> DEFINE S == {cutting(d, a, b) : a \in Nat, b \in Nat}
           A == Seq(S)
           to(i) == i + d[i + 4] + 4
           one(i) == <<cutting(d, i + 5, i + 4 + d[i + 4])>>
           next(g, i) == IF i >= l - 4 THEN <<>>
                         ELSE cat(one(i), IF to(i) > l THEN <<>> ELSE g[to(i)])
           body == [x \in [0..l -> A] \X (0..l) |-> next(x[1], x[2])]
<1>2. ASSUME NEW i \in Nat, ~(i >= l - 4)
      PROVE  i + 4 \in 1..Len(d) /\ d[i + 4] \in Nat /\ to(i) \in Nat /\ to(i) > i /\ one(i) \in A
  <2>1. i + 4 \in 1..Len(d)  BY <1>1, <1>2
  <2>2. PICK v \in Nat : v = d[i + 4]  BY <2>1, ElementOfSeq
  <2>3. i + v + 4 \in Nat /\ i + v + 4 > i /\ i + 5 \in Nat /\ i + 4 + v \in Nat  OBVIOUS
  <2>4. cutting(d, i + 5, i + 4 + v) \in S  BY <2>3
  <2> HIDE DEF S
  <2>5. one(i) \in A  BY <2>2, <2>4
  <2> QED BY <2>1, <2>2, <2>3, <2>5
<1>3. <<>> \in A  BY EmptySeq
<1> HIDE DEF S, one, to
<1>4. ASSUME NEW g \in [0..l -> A], NEW i \in 0..l PROVE next(g, i) \in A
  <2>1. ASSUME ~(i >= l - 4)
        PROVE  cat(one(i), IF to(i) > l THEN <<>> ELSE g[to(i)]) \in A
    <3> DEFINE t == IF to(i) > l THEN <<>> ELSE g[to(i)]
               s == one(i)
    <3>1. t \in A
      <4>1. to(i) \in Nat  BY <1>2, <2>1
      <4>2. ~(to(i) > l) => to(i) \in 0..l  BY <4>1
      <4> HIDE DEF A
      <4> QED BY <1>3, <4>2
    <3>2. s \in A  BY <1>2, <2>1
    <3> HIDE DEF s, t
    <3>3. s \in Seq(S)  BY <3>2
    <3>4. t \in Seq(S)  BY <3>1
    <3>5. cat(s, t) \in Seq(S)  BY Zenon, <3>3, <3>4, CatTyped
    <3> QED BY <3>5 DEF s, t
  <2> HIDE DEF A
  <2> QED BY <1>3, <2>1
<1>5. body \in [[0..l -> A] \X (0..l) -> A]
  <2> HIDE DEF next, A
  <2> QED BY <1>4
<1>6. \A g \in [0..l -> A], i \in 0..l : body[<<g, i>>] = next(g, i)
  <2> HIDE DEF next, A
  <2> QED OBVIOUS
<1>7. Behind(l, A, body)
  <2>1. ASSUME NEW g \in [0..l -> A], NEW h \in [0..l -> A], NEW i \in 0..l,
               \A j \in 0..l : j > i => g[j] = h[j]
        PROVE  body[<<g, i>>] = body[<<h, i>>]
    <3>1. next(g, i) = next(h, i)
      <4>1. ASSUME ~(i >= l - 4), ~(to(i) > l) PROVE g[to(i)] = h[to(i)]
        <5>1. to(i) \in Nat /\ to(i) > i  BY <1>2, <4>1
        <5>2. to(i) \in 0..l  BY <4>1, <5>1
        <5> QED BY <2>1, <5>1, <5>2
      <4> QED BY <4>1
    <3> HIDE DEF next, body, A
    <3> QED BY Zenon, <1>6, <3>1
  <2> HIDE DEF body, A
  <2> QED BY Zenon, <2>1 DEF Behind
<1>8. PICK F \in [0..l -> A] : madeBehind(l, body, F)
  <2> HIDE DEF body, A
  <2>1. PICK a \in A : a = <<>>  BY <1>3
  <2> QED BY <2>1, <1>5, <1>7, BackwardsExists
<1>9. ASSUME NEW i \in 0..l PROVE F[i] = next(F, i)
  <2> HIDE DEF body, next, A
  <2> QED BY <1>6, <1>8 DEF madeBehind
<1> HIDE DEF body
<1> DEFINE f == [i \in Nat |-> IF i > l THEN <<>> ELSE F[i]]
           eq(h) == h = [i \in Nat |-> IF i >= Len(d) - 4 THEN <<>>
                           ELSE <<SubSeq(d, i + 5, i + 4 + d[i + 4])>> \o h[i + d[i + 4] + 4]]
           found_ == CHOOSE h : eq(h)
<1>10. toAnnexBWithXVCC(d) = found_[0]  BY DEF toAnnexBWithXVCC
<1>11. eq(f)
  <2>1. ASSUME NEW i \in Nat
        PROVE  f[i] = IF i >= l - 4 THEN <<>> ELSE cat(one(i), f[to(i)])
    <3>1. CASE i >= l - 4
      <4>1. i > l \/ i \in 0..l  OBVIOUS
      <4>2. i \in 0..l => F[i] = <<>>  BY <1>9, <3>1
      <4>3. f[i] = <<>>  BY <4>1, <4>2
      <4> QED BY <3>1, <4>3
    <3>2. CASE ~(i >= l - 4)
      <4>1. i \in 0..l /\ to(i) \in Nat /\ ~(i > l)  BY <1>2, <3>2
      <4>2. F[i] = cat(one(i), IF to(i) > l THEN <<>> ELSE F[to(i)])  BY <1>9, <3>2, <4>1
      <4>3. f[to(i)] = IF to(i) > l THEN <<>> ELSE F[to(i)]  BY <4>1
      <4>4. f[i] = F[i]  BY <4>1
      <4> HIDE DEF f
      <4> QED BY Zenon, <3>2, <4>2, <4>3, <4>4
    <3> QED BY Zenon, <3>1, <3>2
  <2>2. f = [i \in Nat |-> f[i]]  OBVIOUS
  <2> HIDE DEF f
  <2>3. f = [i \in Nat |-> IF i >= l - 4 THEN <<>> ELSE cat(one(i), f[to(i)])]  BY <2>1, <2>2
  <2> QED BY Zenon, <1>1, <2>3 DEF one, to, cat, cutting
<1> HIDE DEF f
<1>12. eq(found_)
  <2> HIDE DEF eq
  <2> QED BY <1>11
<1> HIDE DEF found_
<1>13. slicesOf(d, found_)  BY <1>12 DEF slicesOf, cat
<1> QED BY <1>10, <1>13

LEMMA XvccIsRead ==
  ASSUME NEW q \in Seq(Seq(Nat)), Len(q) # 0, \A k \in 1..Len(q) : Len(q[k]) # 0
  PROVE  toAnnexBWithXVCC(xvcc(q)) = q
<1>1. PICK n \in Nat : n = Len(q) /\ n # 0  BY LenProperties
<1>2. \A k \in 1..n : q[k] \in Seq(Nat) /\ Len(q[k]) \in Nat /\ Len(q[k]) # 0
  BY <1>1, ElementOfSeq, LenProperties
<1> DEFINE w == [k \in 1..Len(q) |-> lengthBytes(q[k])]
<1>3. w \in [1..Len(q) -> Seq(Nat)] /\ \A k \in 1..Len(q) : Len(w[k]) = 4
  BY <1>1, <1>2, LengthBytesAre
<1>4. \A k \in 1..n : w[k] = lengthBytes(q[k]) /\ Len(w[k]) = 4 /\ w[k][4] = Len(q[k])
  BY <1>1, <1>2, LengthBytesAre
<1>5. xvcc(q) = FlattenSeq(behind(q, w))
  <2>1. DOMAIN q = 1..Len(q)  BY LenProperties
  <2>2. behind(q, w) = [k \in DOMAIN q |-> cat(lengthBytes(q[k]), q[k])]
    <3>1. \A k \in DOMAIN q : w[k] = lengthBytes(q[k])  BY <2>1
    <3> HIDE DEF w
    <3> QED BY <3>1 DEF behind
  <2> HIDE DEF w
  <2> QED BY Zenon, <2>2 DEF xvcc, cat, lengthBytes
<1> HIDE DEF w
<1>6. PICK F \in [0..Len(q) -> Seq(Nat)] : placed(q, w, F)  BY <1>3, PartsPlaced
<1>7. Len(behind(q, w)) = n
  <2>1. behind(q, w) = [k \in 1..n |-> cat(w[k], q[k])]  BY <1>1, LenProperties DEF behind
  <2>2. behind(q, w) \in [1..n -> {cat(w[k], q[k]) : k \in 1..n}]  BY <2>1
  <2> QED BY <2>2, LenProperties
<1>8. PICK d \in Seq(Nat) : d = F[n] /\ xvcc(q) = d
  <2>1. n \in 0..Len(q)  BY <1>1
  <2>2. FlattenSeq(behind(q, w)) = F[n]  BY <1>6, <1>7 DEF placed, flat
  <2> QED BY <1>5, <2>1, <2>2
<1>9. PICK l \in Nat : l = Len(d)  BY LenProperties
<1>10. /\ Len(F[0]) = 0
       /\ \A k \in 0..n : Len(F[k]) \in Nat /\ Len(F[k]) <= l
       /\ \A k \in 1..n : /\ Len(F[k]) = Len(F[k - 1]) + 4 + Len(q[k])
                          /\ lies(d, Len(F[k - 1]), w[k])
                          /\ lies(d, Len(F[k - 1]) + 4, q[k])
  BY Zenon, <1>1, <1>6, <1>8, <1>9 DEF placed
<1>11. ASSUME NEW k \in 1..n
       PROVE  \E b \in Nat, e \in Nat, x \in Seq(Nat) :
                /\ b = Len(F[k - 1]) /\ e = Len(F[k]) /\ x = q[k]
                /\ Len(x) \in Nat /\ e = b + 4 + Len(x) /\ b + 5 <= l
                /\ d[b + 4] = Len(x) /\ SubSeq(d, b + 5, b + 4 + Len(x)) = x
  <2>1. k - 1 \in 0..n /\ k \in 0..n  OBVIOUS
  <2>2. PICK b \in Nat, e \in Nat, x \in Seq(Nat) :
          b = Len(F[k - 1]) /\ e = Len(F[k]) /\ x = q[k]
    BY <1>2, <1>10, <2>1
  <2>3. Len(x) \in Nat /\ Len(x) # 0 /\ e <= l  BY <1>2, <1>10, <2>1, <2>2
  <2>4. e = b + 4 + Len(x) /\ lies(d, b, w[k]) /\ lies(d, b + 4, x)
    <3>1. /\ Len(F[k]) = Len(F[k - 1]) + 4 + Len(q[k])
          /\ lies(d, Len(F[k - 1]), w[k])
          /\ lies(d, Len(F[k - 1]) + 4, q[k])
      BY <1>10
    <3> QED BY Zenon, <2>2, <3>1
  <2>5. b + 5 <= l  BY <2>3, <2>4
  <2>6. d[b + 4] = Len(x)
    <3>1. Len(w[k]) = 4 /\ w[k][4] = Len(x)  BY Zenon, <1>4, <2>2
    <3>2. 4 \in 1..Len(w[k])  BY <3>1
    <3>3. d[b + 4] = w[k][4]  BY Zenon, <2>4, <3>2 DEF lies
    <3> QED BY Zenon, <3>1, <3>3
  <2>7. SubSeq(d, b + 5, b + 4 + Len(x)) = x
    <3>1. SubSeq(d, (b + 4) + 1, (b + 4) + Len(x)) = x
      <4>1. b + 4 \in Nat  OBVIOUS
      <4> QED BY <2>4, <4>1, LiesIs
    <3>2. (b + 4) + 1 = b + 5  OBVIOUS
    <3> QED BY <3>1, <3>2
  <2> QED BY <2>2, <2>3, <2>4, <2>5, <2>6, <2>7
<1>12. ~(Len(d) < 5)
  <2>1. 1 \in 1..n  BY <1>1
  <2>2. PICK b \in Nat : b + 5 <= l  BY <1>11, <2>1
  <2> QED BY <1>9, <2>2
<1>13. PICK f : slicesOf(d, f) /\ toAnnexBWithXVCC(d) = f[0]  BY <1>12, XvccUnfold
<1>14. \A i \in Nat :
         f[i] = IF i >= l - 4 THEN <<>>
                ELSE cat(<<SubSeq(d, i + 5, i + 4 + d[i + 4])>>, f[i + d[i + 4] + 4])
  BY Zenon, <1>9, <1>13 DEF slicesOf
<1>15. ASSUME NEW k \in 1..n PROVE f[Len(F[k - 1])] = cat(<<q[k]>>, f[Len(F[k])])
  <2>1. PICK b \in Nat, e \in Nat, x \in Seq(Nat) :
                /\ b = Len(F[k - 1]) /\ e = Len(F[k]) /\ x = q[k]
                /\ Len(x) \in Nat /\ e = b + 4 + Len(x) /\ b + 5 <= l
                /\ d[b + 4] = Len(x) /\ SubSeq(d, b + 5, b + 4 + Len(x)) = x
    BY <1>11
  <2>2. ~(b >= l - 4)  BY <2>1
  <2>3. f[b] = cat(<<SubSeq(d, b + 5, b + 4 + d[b + 4])>>, f[b + d[b + 4] + 4])
    BY Zenon, <1>14, <2>2
  <2>4. b + Len(x) + 4 = e
    <3>1. \A u, v \in Nat : u + v + 4 = u + 4 + v  OBVIOUS
    <3> QED BY Zenon, <2>1, <3>1
  <2>5. f[b] = cat(<<x>>, f[e])  BY Zenon, <2>1, <2>3, <2>4
  <2> QED BY Zenon, <2>1, <2>5
<1>16. f[Len(F[n])] = <<>>
  <2>1. l >= l - 4  OBVIOUS
  <2>2. f[l] = <<>>  BY Zenon, <1>14, <2>1
  <2> QED BY Zenon, <1>8, <1>9, <2>2
<1>17. /\ suffix(q, n + 1) = <<>> /\ suffix(q, 1) = q
       /\ \A k \in 1..n : suffix(q, k) = cat(<<q[k]>>, suffix(q, k + 1))
  <2>1. /\ suffix(q, Len(q) + 1) = <<>> /\ suffix(q, 1) = q
        /\ \A k \in 1..Len(q) : suffix(q, k) = cat(<<q[k]>>, suffix(q, k + 1))
    BY RestIs
  <2> QED BY Zenon, <1>1, <2>1
<1> DEFINE G == {j \in 0..n : f[Len(F[n - j])] = suffix(q, (n + 1) - j)}
<1>18. 0 \in G
  <2>1. n - 0 = n /\ (n + 1) - 0 = n + 1 /\ 0 \in 0..n  OBVIOUS
  <2> QED BY <1>16, <1>17, <2>1
<1>19. ASSUME NEW j \in 1..n, j - 1 \in G PROVE j \in G
  <2>1. PICK k \in 1..n : k = (n + 1) - j /\ n - j = k - 1 /\ n - (j - 1) = k /\ (n + 1) - (j - 1) = k + 1
    <3>1. (n + 1) - j \in 1..n  OBVIOUS
    <3> QED BY <3>1
  <2>2. f[Len(F[k])] = suffix(q, k + 1)  BY <1>19, <2>1
  <2>3. f[Len(F[k - 1])] = suffix(q, k)  BY Zenon, <1>15, <1>17, <2>2
  <2>4. j \in 0..n  OBVIOUS
  <2> QED BY <2>1, <2>3, <2>4
<1>20. G = 0..n
  <2>1. G \in SUBSET (0..n)  OBVIOUS
  <2> HIDE DEF G
  <2> QED BY <1>18, <1>19, <2>1, Induct
<1>21. f[0] = q
  <2>1. n \in G /\ n - n = 0 /\ (n + 1) - n = 1
    <3> HIDE DEF G
    <3> QED BY <1>20
  <2>2. f[Len(F[0])] = suffix(q, 1)  BY <2>1
  <2> QED BY <1>10, <1>17, <2>2
<1> QED BY Zenon, <1>8, <1>13, <1>21

\* NalusComeBack.
LEMMA NalusAreSplit ==
  ASSUME nalus \in Seq(Seq(Nat)), \A k \in 1..Len(nalus) : Len(nalus[k]) # 0,
         NaluListMax \in Nat \ {0}
  PROVE  NalusComeBack
<1>1. hasBytes(Nat)  BY DEF hasBytes
<1>2. PICK q \in Seq(Seq(Nat)) : q = nalus  OBVIOUS
<1>3. PICK m \in Nat \ {0} : m = NaluListMax  OBVIOUS
<1>4. Len(q) \in Nat /\ DOMAIN q = 1..Len(q) /\ \A k \in 1..Len(q) : q[k] \in Seq(Nat) /\ Len(q[k]) # 0
  BY <1>2, LenProperties, ElementOfSeq
<1> SUFFICES ASSUME \A k \in DOMAIN q : ~containsCode(q[k])
             PROVE  /\ splitNalu(toStream(q, <<>>), m) = absorbed(q, m)
                    /\ q # <<>> =>
                         splitNalu(compressionOutput(xvcc(q), TRUE, <<q[1]>>), m)
                           = absorbed(<<q[1]>> \o q, m)
  BY Zenon, <1>2, <1>3 DEF NalusComeBack
<1>5. \A k \in 1..Len(q) : ~containsCode(q[k]) /\ Len(q[k]) # 0  BY <1>4
<1>6. splitNalu(toStream(q, <<>>), m) = absorbed(q, m)
  BY <1>1, <1>5, SplitIs
<1>7. ASSUME q # <<>>
      PROVE  splitNalu(compressionOutput(xvcc(q), TRUE, <<q[1]>>), m)
               = absorbed(<<q[1]>> \o q, m)
  <2>1. Len(q) # 0 /\ 1 \in 1..Len(q)
    <3>1. Len(q) # 0  BY <1>7, EmptySeq
    <3> QED BY <1>4, <3>1
  <2>2. toAnnexBWithXVCC(xvcc(q)) = q  BY <1>4, <2>1, XvccIsRead
  <2> DEFINE p == <<q[1]>>
             r == cat(p, q)
  <2>3. p \in Seq(Seq(Nat)) /\ Len(p) = 1 /\ p[1] = q[1]  BY <1>4, <2>1
  <2> HIDE DEF p
  <2>4. r \in Seq(Seq(Nat)) /\ Len(r) = 1 + Len(q)
        /\ r[1] = q[1] /\ \A i \in 1..Len(q) : r[1 + i] = q[i]
    <3>1. p \in Seq(Seq(Nat))  BY <2>3
    <3>2. r \in Seq(Seq(Nat)) /\ Len(r) = Len(p) + Len(q)  BY Zenon, <3>1, CatMakes
    <3>3. /\ \A i \in 1..Len(p) : r[i] = p[i]
          /\ \A i \in 1..Len(q) : r[Len(p) + i] = q[i]
      BY <3>1, CatAt
    <3> HIDE DEF r
    <3> QED BY <1>4, <2>3, <3>2, <3>3
  <2>5. compressionOutput(xvcc(q), TRUE, p) = toStream(r, <<>>)
    <3>1. compressionOutput(xvcc(q), TRUE, p) = toStream(q, p)
      BY Zenon, <1>7, <2>2 DEF compressionOutput
    <3>2. <<>> \o r = r
      <4> HIDE DEF r
      <4> QED BY <2>4, ConcatEmptySeq
    <3>3. toStream(q, p) = toStream(r, <<>>)
      <4>1. p \o q = r  BY DEF cat
      <4> HIDE DEF r
      <4> QED BY Zenon, <3>2, <4>1 DEF toStream
    <3> QED BY Zenon, <3>1, <3>3
  <2> HIDE DEF r
  <2>6. ASSUME NEW k \in 1..Len(r) PROVE ~containsCode(r[k]) /\ Len(r[k]) # 0
    <3>1. CASE k = 1
      BY Zenon, <1>5, <2>1, <2>4, <3>1
    <3>2. CASE k # 1
      <4>1. k - 1 \in 1..Len(q) /\ 1 + (k - 1) = k  BY <1>4, <2>4, <3>2
      <4>2. r[1 + (k - 1)] = q[k - 1]  BY <2>4, <4>1
      <4> QED BY Zenon, <1>5, <4>1, <4>2
    <3> QED BY <3>1, <3>2
  <2>7. splitNalu(toStream(r, <<>>), m) = absorbed(r, m)
    BY <1>1, <2>4, <2>6, SplitIs
  <2> QED BY Zenon, <2>5, <2>7 DEF r, p, cat
<1> QED BY Zenon, <1>6, <1>7

(***************************************************************************)
(* Byte formats: what the actions make of the inputs.                      *)
(***************************************************************************)
BytesInv ==
  /\ nalus \in Seq(Seq(Nat)) /\ \A k \in 1..Len(nalus) : Len(nalus[k]) \in 1..MaxBytes
  /\ file \in Seq(Chars)
  /\ digits \in Seq(0..255)

LEMMA BoundedIsShort ==
  ASSUME NEW x, Len(x) \in 1..MaxBytes
  PROVE  short(x) /\ Len(x) # 0
<1>1. MaxBytes \in Nat /\ MaxBytes < 65536  BY BytesAssumption
<1> QED BY <1>1 DEF short

LEMMA BytesInvInit == BytesInit => BytesInv
<1> SUFFICES ASSUME BytesInit PROVE BytesInv
  OBVIOUS
<1>1. nalus = <<>> /\ file = <<>> /\ digits = <<>>  BY DEF BytesInit
<1>2. nalus \in Seq(Seq(Nat)) /\ Len(nalus) = 0  BY <1>1, EmptySeq
<1>3. file \in Seq(Chars) /\ digits \in Seq(0..255)  BY <1>1, EmptySeq
<1>4. 1..0 = {}  OBVIOUS
<1> QED BY <1>2, <1>3, <1>4 DEF BytesInv

LEMMA NaluFits ==
  ASSUME NEW q \in Seq(Seq(Nat)), NEW k \in 1..Len(q)
  PROVE  /\ Len(FlattenSeq(q)) \in Nat /\ Len(q[k]) \in Nat
         /\ Len(q[k]) <= Len(FlattenSeq(q))
<1>1. PICK n \in Nat : n = Len(q)  BY LenProperties
<1>2. PICK F \in [0..Len(q) -> Seq(Nat)] : flat(q, F)  BY FlattenIs
<1>3. parts(q, F)  BY <1>2, FlattenParts
<1>4. /\ \A j \in 0..n : Len(F[j]) \in Nat /\ Len(F[j]) <= Len(F[n])
      /\ \A j \in 1..n : Len(F[j]) = Len(F[j - 1]) + Len(q[j])
  BY Zenon, <1>1, <1>3 DEF parts
<1>5. FlattenSeq(q) = F[n]  BY Zenon, <1>1, <1>2 DEF flat
<1>6. k \in 1..n /\ k - 1 \in 0..n /\ k \in 0..n /\ n \in 0..n  BY <1>1
<1>7. Len(q[k]) \in Nat
  <2>1. q[k] \in Seq(Nat)  BY ElementOfSeq
  <2> QED BY <2>1, LenProperties
<1>8. PICK a \in Nat, b \in Nat, c \in Nat, d \in Nat :
        a = Len(F[k - 1]) /\ b = Len(F[k]) /\ c = Len(F[n]) /\ d = Len(q[k])
  BY <1>4, <1>6, <1>7
<1>9. b = a + d /\ b <= c  BY Zenon, <1>4, <1>6, <1>8
<1>10. d <= c  BY <1>9
<1> QED BY Zenon, <1>5, <1>8, <1>10

LEMMA StreamHasLength ==
  ASSUME NEW q \in Seq(Seq(Nat))
  PROVE  Len(FlattenSeq(q)) \in Nat
<1>1. PICK F \in [0..Len(q) -> Seq(Nat)] : flat(q, F)  BY FlattenIs
<1>2. Len(q) \in 0..Len(q)  BY LenProperties
<1>3. F[Len(q)] \in Seq(Nat)  BY <1>2
<1> QED BY <1>1, <1>3, LenProperties DEF flat

LEMMA ByteStep ==
  ASSUME BytesInv, addByte
  PROVE  BytesInv'
<1>1. PICK b \in Bytes :
        \/ nalus' = Append(nalus, <<b>>)
        \/ nalus # <<>> /\ nalus' = [nalus EXCEPT ![Len(nalus)] = Append(@, b)]
  BY DEF addByte
<1>2. Len(FlattenSeq(nalus)) < MaxBytes /\ file' = file /\ digits' = digits
  BY DEF addByte
<1>3. MaxBytes \in Nat /\ b \in Nat  BY BytesAssumption
<1>4. PICK q \in Seq(Seq(Nat)) : q = nalus /\ \A k \in 1..Len(q) : Len(q[k]) \in 1..MaxBytes
  BY DEF BytesInv
<1>5. PICK n \in Nat : n = Len(q)  BY LenProperties
<1>6. \A k \in 1..n : q[k] \in Seq(Nat)  BY <1>5, ElementOfSeq
<1>7. CASE nalus' = Append(nalus, <<b>>)
  <2>1. PICK x \in Seq(Nat) : x = <<b>> /\ Len(x) = 1
    <3>1. <<b>> \in Seq(Nat) /\ Len(<<b>>) = 1  BY <1>3
    <3> QED BY Zenon, <3>1
  <2>2. 1 \in 1..MaxBytes
    <3>1. Len(FlattenSeq(q)) \in Nat  BY StreamHasLength
    <3> QED BY <1>2, <1>3, <1>4, <3>1
  <2>3. PICK u \in Seq(Seq(Nat)) :
          /\ u = Append(q, x) /\ Len(u) = n + 1 /\ u[n + 1] = x
          /\ \A k \in 1..n : u[k] = q[k]
    <3>1. /\ Append(q, x) \in Seq(Seq(Nat)) /\ Len(Append(q, x)) = Len(q) + 1
          /\ \A i \in 1..Len(q) : Append(q, x)[i] = q[i]
          /\ Append(q, x)[Len(q) + 1] = x
      BY AppendProperties
    <3> QED BY Zenon, <1>5, <3>1
  <2>4. ASSUME NEW k \in 1..Len(u) PROVE Len(u[k]) \in 1..MaxBytes
    <3>1. CASE k = n + 1
      BY <2>1, <2>2, <2>3, <3>1
    <3>2. CASE k # n + 1
      <4>1. k \in 1..n  BY <2>3, <3>2
      <4> QED BY Zenon, <1>4, <1>5, <2>3, <4>1
    <3> QED BY <3>1, <3>2
  <2>5. nalus' = u  BY Zenon, <1>4, <1>7, <2>1, <2>3
  <2> QED BY <1>2, <2>4, <2>5 DEF BytesInv
<1>8. CASE nalus # <<>> /\ nalus' = [nalus EXCEPT ![Len(nalus)] = Append(@, b)]
  <2>1. n \in 1..n
    <3>1. Len(q) # 0  BY <1>4, <1>8, EmptySeq
    <3> QED BY <1>5, <3>1
  <2>2. PICK y \in Seq(Nat) : y = q[n]  BY <1>6, <2>1
  <2>3. PICK x \in Seq(Nat) : x = Append(y, b) /\ Len(x) = Len(y) + 1
    <3>1. y \in Seq(Nat) /\ b \in Nat  BY <1>3
    <3> QED BY <3>1, AppendProperties
  <2>4. Len(x) \in 1..MaxBytes
    <3>1. /\ Len(FlattenSeq(q)) \in Nat /\ Len(y) \in Nat
          /\ Len(y) <= Len(FlattenSeq(q))
      BY <1>5, <2>1, <2>2, NaluFits
    <3> QED BY <1>2, <1>3, <1>4, <2>3, <3>1
  <2>5. PICK u : u = [q EXCEPT ![n] = x]  OBVIOUS
  <2>6. u \in Seq(Seq(Nat)) /\ Len(u) = n /\ u[n] = x /\ \A k \in 1..n : k # n => u[k] = q[k]
    <3>1. q \in [1..n -> Seq(Nat)]  BY <1>5, LenProperties
    <3>2. u \in [1..n -> Seq(Nat)] /\ u[n] = x /\ \A k \in 1..n : k # n => u[k] = q[k]
      BY <2>1, <2>5, <3>1
    <3> QED BY <3>2, LenProperties
  <2>7. ASSUME NEW k \in 1..Len(u) PROVE Len(u[k]) \in 1..MaxBytes
    <3>1. k \in 1..n  BY <2>6
    <3>2. CASE k = n
      BY <2>4, <2>6, <3>2
    <3>3. CASE k # n
      BY Zenon, <1>4, <1>5, <2>6, <3>1, <3>3
    <3> QED BY <3>2, <3>3
  <2>8. nalus' = u  BY Zenon, <1>4, <1>5, <1>8, <2>2, <2>3, <2>5
  <2> QED BY <1>2, <2>6, <2>7, <2>8 DEF BytesInv
<1> QED BY <1>1, <1>7, <1>8

LEMMA BytesInvStep == BytesInv /\ [BytesNext]_bytesVars => BytesInv'
<1> SUFFICES ASSUME BytesInv, [BytesNext]_bytesVars PROVE BytesInv'
  OBVIOUS
<1>1. CASE addByte
  BY <1>1, ByteStep
<1>2. CASE addChar
  <2>1. PICK ch \in Chars : file' = Append(file, ch) /\ nalus' = nalus /\ digits' = digits
    BY <1>2 DEF addChar
  <2>2. file \in Seq(Chars)  BY DEF BytesInv
  <2>3. Append(file, ch) \in Seq(Chars)  BY <2>2, AppendProperties
  <2> QED BY <2>1, <2>3 DEF BytesInv
<1>3. CASE addDigit
  <2>1. PICK b \in NumberBytes : digits' = Append(digits, b) /\ nalus' = nalus /\ file' = file
    BY <1>3 DEF addDigit
  <2>2. PICK D : D = 0..255  OBVIOUS
  <2>3. digits \in Seq(D) /\ b \in D  BY <2>2, BytesAssumption DEF BytesInv
  <2>4. Append(digits, b) \in Seq(D)  BY <2>3, AppendProperties
  <2> QED BY Zenon, <2>1, <2>2, <2>4 DEF BytesInv
<1>4. CASE addText \/ UNCHANGED bytesVars
  BY <1>4 DEF BytesInv, addText, bytesVars
<1> QED BY <1>1, <1>2, <1>3, <1>4 DEF BytesNext

\* What is split, wrapped in boxes or headers, renamed or spread over bytes is read back,
\* and what is cut at separators can be put together again: whatever the bytes and
\* characters, and however long the nalus, the file and the text.
THEOREM BytesStaySound == BytesSpec => []BytesSound
<1>1. BytesInv /\ Text!TextSound => BytesSound
  <2> SUFFICES ASSUME BytesInv, Text!TextSound PROVE BytesSound
    OBVIOUS
  <2>1. nalus \in Seq(Seq(Nat)) /\ \A k \in 1..Len(nalus) : short(nalus[k]) /\ Len(nalus[k]) # 0
    BY BoundedIsShort DEF BytesInv
  <2>2. NalusComeBack
    <3>1. NaluListMax \in Nat \ {0}  BY BytesAssumption
    <3> QED BY <2>1, <3>1, NalusAreSplit
  <2>3. ParametersReadBack
    <3>1. hasBytes(Nat)  BY DEF hasBytes
    <3> QED BY <2>1, <3>1, ParametersAreRead
  <2>4. ReplacesHev1  BY Hev1IsReplaced DEF BytesInv
  <2>5. NumbersRead  BY NumbersAreRead DEF BytesInv
  <2> QED BY <2>2, <2>3, <2>4, <2>5, AudioIsReadBack DEF BytesSound
<1> QED BY <1>1, BytesInvInit, BytesInvStep, TextsStaySound, PTL DEF BytesSpec

-----------------------------------------------------------------------------
(***************************************************************************)
(* The socket handle.                                                      *)
(***************************************************************************)

WantsMore == call.inLoop => call.received < call.maxLength

IInv == TypeOK /\ WantsMore /\ OwnsItsDescriptor /\ ClosedIsTrue

LEMMA Codes == CLOSED \notin Nat /\ SELECT_FAILED # CLOSED /\ NOFD \notin FD
BY SocketAssumption DEF CLOSED, SELECT_FAILED, NOFD

LEMMA ReturnedType ==
  returned \in [inLoop : BOOLEAN, index : 0..Times, received : Nat,
                maxLength : Length \cup {0}, hadData : BOOLEAN]
BY SocketAssumption DEF returned

LEMMA InitIInv == Init => IInv
<1> SUFFICES ASSUME Init PROVE IInv  OBVIOUS
<1>1. TypeOK  BY ReturnedType DEF Init, TypeOK, nobody
<1>2. WantsMore  BY DEF Init, WantsMore, returned
<1>3. OwnsItsDescriptor  BY DEF Init, OwnsItsDescriptor
<1>4. ClosedIsTrue  BY Codes DEF Init, ClosedIsTrue
<1> QED  BY <1>1, <1>2, <1>3, <1>4 DEF IInv

\* A step that leaves the descriptors and isConnected alone.
LEMMA SameDescriptors ==
  ASSUME OwnsItsDescriptor, UNCHANGED <<isConnected, socket, table>>
  PROVE  OwnsItsDescriptor'
BY DEF OwnsItsDescriptor

\* What the loop does to the connection and to the result.
LEMMA SameEnd ==
  ASSUME ClosedIsTrue, UNCHANGED <<result, peer>>
  PROVE  ClosedIsTrue'
BY DEF ClosedIsTrue, isOver, unread

(***************************************************************************)
(* The handle's life                                                       *)
(***************************************************************************)

LEMMA Connect == ASSUME IInv, connectToHost PROVE IInv'
<1>1. PICK fd \in FD : /\ table[fd] = "free" /\ table' = [table EXCEPT ![fd] = "ours"]
                       /\ socket' = fd
  BY DEF connectToHost
<1>2. isConnected' = TRUE /\ ~isConnected /\ result' = 0 /\ UNCHANGED <<alive, memory, call>>
      /\ peer' = nobody
  BY DEF connectToHost
<1>3. TypeOK'  BY <1>1, <1>2 DEF IInv, TypeOK, memory, nobody
<1>4. OwnsItsDescriptor'  BY <1>1, <1>2 DEF IInv, TypeOK, OwnsItsDescriptor
<1>5. ClosedIsTrue'  BY <1>2, Codes DEF ClosedIsTrue
<1>6. WantsMore'  BY <1>2 DEF IInv, WantsMore
<1> QED  BY <1>3, <1>4, <1>5, <1>6 DEF IInv

LEMMA Close == ASSUME IInv, disconnect \/ free PROVE IInv'
<1>1. UNCHANGED <<socket, memory, call, result, peer>> /\ isConnected' = FALSE
  BY DEF disconnect, free
<1>2. /\ alive' \in BOOLEAN
      /\ \/ isConnected /\ table' = [table EXCEPT ![socket] = "free"]
         \/ ~isConnected /\ table' = table
  <2>1. CASE disconnect  BY <2>1 DEF disconnect, close, IInv, TypeOK
  <2>2. CASE free
    <3>1. socket > 0 \/ socket = NOFD  BY SocketAssumption DEF IInv, TypeOK
    <3>2. isConnected /\ socket = NOFD => table = [table EXCEPT ![socket] = "free"]
      BY Codes DEF IInv, TypeOK
    <3> QED  BY <2>2, <3>1, <3>2 DEF free, close
  <2> QED  BY <2>1, <2>2
<1>3. TypeOK'  BY <1>1, <1>2 DEF IInv, TypeOK, memory
<1>4. OwnsItsDescriptor'  BY <1>1, <1>2 DEF IInv, TypeOK, OwnsItsDescriptor
<1>5. ClosedIsTrue'  BY <1>1, SameEnd DEF IInv
<1>6. WantsMore'  BY <1>1 DEF IInv, WantsMore
<1> QED  BY <1>3, <1>4, <1>5, <1>6 DEF IInv

(***************************************************************************)
(* Receiving                                                               *)
(***************************************************************************)

LEMMA RecvCall == ASSUME IInv, recvCall PROVE IInv'
<1>1. PICK maxLength \in Length :
        call' = [inLoop |-> TRUE, index |-> 0, received |-> 0, maxLength |-> maxLength,
                 hadData |-> unread > 0]
  BY DEF recvCall
<1>2. UNCHANGED <<alive, isConnected, socket, memory, result, table, peer>>
  BY DEF recvCall, context
<1>3. call' \in [inLoop : BOOLEAN, index : 0..Times, received : Nat,
                 maxLength : Length \cup {0}, hadData : BOOLEAN]
  BY <1>1, SocketAssumption
<1>4. TypeOK'  BY <1>2, <1>3 DEF IInv, TypeOK, memory
<1>5. WantsMore'  BY <1>1, SocketAssumption DEF WantsMore
<1> QED  BY <1>2, <1>4, <1>5, SameDescriptors, SameEnd DEF IInv

\* One more iteration.
LEMMA Continue ==
  ASSUME TypeOK, inIteration, NEW n \in Nat, call' = [call EXCEPT !.index = @ + 1, !.received = n]
  PROVE  /\ call' \in [inLoop : BOOLEAN, index : 0..Times, received : Nat,
                       maxLength : Length \cup {0}, hadData : BOOLEAN]
         /\ call'.received = n /\ call'.maxLength = call.maxLength
<1>1. call \in [inLoop : BOOLEAN, index : 0..Times, received : Nat,
                maxLength : Length \cup {0}, hadData : BOOLEAN]
  BY DEF TypeOK
<1>2. call.index + 1 \in 0..Times  BY <1>1, SocketAssumption DEF inIteration
<1>3. call' = [call EXCEPT !.index = call.index + 1, !.received = n]  BY <1>1
<1> QED  BY <1>1, <1>2, <1>3

LEMMA ContinueSame ==
  ASSUME TypeOK, WantsMore, inIteration, continue
  PROVE  /\ call' \in [inLoop : BOOLEAN, index : 0..Times, received : Nat,
                       maxLength : Length \cup {0}, hadData : BOOLEAN]
         /\ WantsMore'
BY SocketAssumption DEF TypeOK, inIteration, continue, WantsMore

LEMMA Return ==
  ASSUME NEW v \in Nat \cup {CLOSED, SELECT_FAILED}, return(v)
  PROVE  /\ call' \in [inLoop : BOOLEAN, index : 0..Times, received : Nat,
                       maxLength : Length \cup {0}, hadData : BOOLEAN]
         /\ result' \in Nat \cup {CLOSED, SELECT_FAILED} /\ result' = v
         /\ WantsMore'
BY ReturnedType DEF return, returned, WantsMore

LEMMA Selects == ASSUME IInv, selectReady \/ selectTimeout \/ selectFails PROVE IInv'
<1>1. UNCHANGED <<alive, isConnected, socket, table, peer>>
  BY DEF selectReady, selectTimeout, selectFails, context
<1>2. /\ call' \in [inLoop : BOOLEAN, index : 0..Times, received : Nat,
                    maxLength : Length \cup {0}, hadData : BOOLEAN]
      /\ WantsMore'
      /\ hasSomething' \in BOOLEAN /\ recvCountAfterSelect' \in {0, 1}
      /\ result' = result \/ result' = SELECT_FAILED
  <2>1. CASE selectReady  BY <2>1 DEF selectReady, IInv, TypeOK, WantsMore
  <2>2. CASE selectTimeout
    BY <2>2, ContinueSame DEF selectTimeout, continue, IInv, TypeOK, memory
  <2>3. CASE selectFails
    BY <2>3, Return DEF selectFails, IInv, TypeOK, memory
  <2> QED  BY <2>1, <2>2, <2>3
<1>3. TypeOK'  BY <1>1, <1>2 DEF IInv, TypeOK
<1>4. ClosedIsTrue'
  BY <1>1, <1>2, Codes DEF IInv, ClosedIsTrue, isOver, unread
<1> QED  BY <1>1, <1>2, <1>3, <1>4, SameDescriptors DEF IInv

LEMMA RecvSome == ASSUME IInv, recvSome PROVE IInv'
<1> DEFINE asked == call.maxLength - call.received
           size == IF unread < asked THEN unread ELSE asked
<1>1. call.maxLength \in Nat /\ call.received \in Nat /\ peer.taken \in Nat /\ peer.sent \in Nat
  <2>1. call.maxLength \in Length \cup {0} /\ call.received \in Nat  BY DEF IInv, TypeOK
  <2>2. peer.taken \in Nat /\ peer.sent \in Nat  BY DEF IInv, TypeOK
  <2>3. Length \cup {0} \subseteq Nat  BY SocketAssumption
  <2>4. call.maxLength \in Nat  BY <2>1, <2>3, Zenon
  <2> QED  BY <2>1, <2>2, <2>4
<1>2. asked \in Nat \ {0} /\ unread \in Nat \ {0}
  BY <1>1 DEF recvSome, inIteration, IInv, WantsMore, unread
<1>3. size \in Nat \ {0} /\ size <= asked  BY <1>2
<1>4. peer' = [peer EXCEPT !.taken = @ + size]  BY DEF recvSome
<1>5. /\ call' \in [inLoop : BOOLEAN, index : 0..Times, received : Nat,
                    maxLength : Length \cup {0}, hadData : BOOLEAN]
      /\ WantsMore'
      /\ result' \in Nat \/ result' = result
  <2>1. CASE size = asked
    <3>1. return(call.maxLength)  BY <2>1 DEF recvSome
    <3> QED  BY <1>1, <3>1, Return
  <2>2. CASE size # asked
    <3>1. call' = [call EXCEPT !.index = @ + 1, !.received = @ + size] /\ result' = result
      BY <2>2 DEF recvSome
    <3>2. call.received + size \in Nat /\ call.received + size < call.maxLength
      BY <1>1, <1>3, <2>2
    <3>3. call' = [call EXCEPT !.index = @ + 1, !.received = call.received + size]
      BY <3>1 DEF IInv, TypeOK
    <3>4. inIteration  BY DEF recvSome
    <3> QED  BY <3>1, <3>2, <3>3, <3>4, Continue DEF IInv, WantsMore
  <2> QED  BY <2>1, <2>2
<1>6. peer' \in [state : {"connecting", "open", "closed", "reset"},
                 sent : Nat, taken : Nat, error : BOOLEAN]
  BY <1>1, <1>3, <1>4 DEF IInv, TypeOK
<1>7. UNCHANGED <<alive, isConnected, socket, hasSomething, table>>
      /\ recvCountAfterSelect' = 1
  BY DEF recvSome, context
<1>8. TypeOK'  BY <1>5, <1>6, <1>7 DEF IInv, TypeOK
<1>9. ClosedIsTrue'
  <2>1. result # CLOSED  BY <1>2 DEF IInv, ClosedIsTrue
  <2> QED  BY <1>5, <2>1, Codes DEF ClosedIsTrue
<1> QED  BY <1>5, <1>7, <1>8, <1>9, SameDescriptors DEF IInv

LEMMA RecvError == ASSUME IInv, recvError PROVE IInv'
<1>1. UNCHANGED <<alive, isConnected, socket, table, recvCountAfterSelect, result>>
      /\ hasSomething' = FALSE /\ peer' = [peer EXCEPT !.error = FALSE]
  BY DEF recvError, continue, context
<1>2. /\ call' \in [inLoop : BOOLEAN, index : 0..Times, received : Nat,
                    maxLength : Length \cup {0}, hadData : BOOLEAN]
      /\ WantsMore'
  BY ContinueSame DEF recvError, IInv
<1>3. TypeOK'  BY <1>1, <1>2 DEF IInv, TypeOK
<1>4. ClosedIsTrue'  BY <1>1 DEF IInv, TypeOK, ClosedIsTrue, isOver, unread
<1> QED  BY <1>1, <1>2, <1>3, <1>4, SameDescriptors DEF IInv

LEMMA RecvEnd == ASSUME IInv, recvEnd PROVE IInv'
<1>1. UNCHANGED <<alive, isConnected, socket, table, peer>> /\ isOver /\ unread = 0
  BY DEF recvEnd, context
<1>2. /\ call' \in [inLoop : BOOLEAN, index : 0..Times, received : Nat,
                    maxLength : Length \cup {0}, hadData : BOOLEAN]
      /\ WantsMore'
      /\ hasSomething' \in BOOLEAN /\ recvCountAfterSelect' \in {0, 1}
      /\ result' \in Nat \cup {CLOSED, SELECT_FAILED}
  <2>1. CASE recvCountAfterSelect = 0
    BY <2>1, Return DEF recvEnd, IInv, TypeOK, memory
  <2>2. CASE recvCountAfterSelect # 0
    BY <2>2, ContinueSame DEF recvEnd, continue, IInv, TypeOK
  <2> QED  BY <2>1, <2>2
<1>3. TypeOK'  BY <1>1, <1>2 DEF IInv, TypeOK
<1>4. ClosedIsTrue'  BY <1>1 DEF ClosedIsTrue, isOver, unread
<1> QED  BY <1>1, <1>2, <1>3, <1>4, SameDescriptors DEF IInv

LEMMA LoopEnds == ASSUME IInv, loopEnds PROVE IInv'
<1>1. UNCHANGED <<alive, isConnected, socket, memory, table, peer>> /\ call.received \in Nat
  BY DEF loopEnds, context, IInv, TypeOK
<1>2. /\ call' \in [inLoop : BOOLEAN, index : 0..Times, received : Nat,
                    maxLength : Length \cup {0}, hadData : BOOLEAN]
      /\ WantsMore' /\ result' \in Nat
  BY <1>1, Return DEF loopEnds
<1>3. TypeOK'  BY <1>1, <1>2 DEF IInv, TypeOK, memory
<1>4. ClosedIsTrue'  BY <1>2, Codes DEF ClosedIsTrue
<1> QED  BY <1>1, <1>2, <1>3, <1>4, SameDescriptors DEF IInv

(***************************************************************************)
(* The peer, and the rest of the process                                   *)
(***************************************************************************)

LEMMA PeerStep == ASSUME IInv, peerStep PROVE IInv'
<1>1. UNCHANGED <<alive, isConnected, socket, memory, call, result, table>>
  BY DEF peerStep, context
<1>2. ~isOver  BY DEF peerStep, isOver
<1>3. peer' \in [state : {"connecting", "open", "closed", "reset"},
                 sent : Nat, taken : Nat, error : BOOLEAN]
  <2>1. /\ peer \in [state : {"connecting", "open", "closed", "reset"},
                    sent : Nat, taken : Nat, error : BOOLEAN]
        /\ MaxSent \in Nat
    BY SocketAssumption DEF IInv, TypeOK
  <2>2. CASE \E x \in {"open", "closed"} : peer' = [peer EXCEPT !.state = x]  BY <2>1, <2>2
  <2>3. CASE \E n \in (peer.sent + 1)..MaxSent : peer' = [peer EXCEPT !.sent = n]
    <3>1. PICK n \in (peer.sent + 1)..MaxSent : peer' = [peer EXCEPT !.sent = n]  BY <2>3
    <3>2. n \in Nat  BY <2>1
    <3> QED  BY <2>1, <3>1, <3>2
  <2>4. CASE \E n \in {peer.taken, peer.sent} :
               peer' = [peer EXCEPT !.state = "reset", !.error = TRUE, !.sent = n]
    BY <2>1, <2>4
  <2> QED  BY <2>2, <2>3, <2>4 DEF peerStep
<1>4. TypeOK'  BY <1>1, <1>3 DEF IInv, TypeOK, memory
<1>5. ClosedIsTrue'  BY <1>1, <1>2 DEF IInv, ClosedIsTrue
<1>6. WantsMore'  BY <1>1 DEF IInv, WantsMore
<1> QED  BY <1>1, <1>4, <1>5, <1>6, SameDescriptors DEF IInv

LEMMA OtherStep == ASSUME IInv, otherStep PROVE IInv'
<1>1. UNCHANGED <<alive, isConnected, socket, memory, call, result, peer>>
  BY DEF otherStep, context
<1>2. PICK fd \in FD, x \in {"free", "other"} :
        table[fd] # "ours" /\ table' = [table EXCEPT ![fd] = x]
  BY DEF otherStep
<1>3. TypeOK'  BY <1>1, <1>2 DEF IInv, TypeOK, memory
<1>4. OwnsItsDescriptor'  BY <1>1, <1>2 DEF IInv, TypeOK, OwnsItsDescriptor
<1>5. WantsMore'  BY <1>1 DEF IInv, WantsMore
<1> QED  BY <1>1, <1>3, <1>4, <1>5, SameEnd DEF IInv

LEMMA NextIInv == ASSUME IInv, [Next]_vars PROVE IInv'
<1>1. CASE UNCHANGED vars
  <2>1. UNCHANGED <<alive, isConnected, socket, memory, call, result, table, peer>>
    BY <1>1 DEF vars, context
  <2>2. TypeOK' /\ WantsMore'  BY <2>1 DEF IInv, TypeOK, WantsMore, memory
  <2> QED  BY <2>1, <2>2, SameDescriptors, SameEnd DEF IInv
<1>2. CASE connectToHost \/ disconnect \/ free  BY <1>2, Connect, Close
<1>3. CASE recvCall \/ loopToRecv
  BY <1>3, RecvCall, Selects, RecvSome, RecvError, RecvEnd, LoopEnds DEF loopToRecv
<1>4. CASE peerStep \/ otherStep  BY <1>4, PeerStep, OtherStep
<1> QED  BY <1>1, <1>2, <1>3, <1>4 DEF Next

\* The inductive invariant of the handle.
THEOREM Invariance == Spec => []IInv
<1>1. Init => IInv  BY InitIInv
<1>2. IInv /\ [Next]_vars => IInv'  BY NextIInv
<1> QED  BY <1>1, <1>2, PTL DEF Spec

\* Every variable keeps its type.
THEOREM TypeCorrect == Spec => []TypeOK
<1>1. IInv => TypeOK  BY DEF IInv
<1> QED  BY <1>1, Invariance, PTL

\* The handle has one descriptor while it is connected and none otherwise.
THEOREM DescriptorOwned == Spec => []OwnsItsDescriptor
<1>1. IInv => OwnsItsDescriptor  BY DEF IInv
<1> QED  BY <1>1, Invariance, PTL

\* CLOSED is returned only when the connection is over and read to its end.
THEOREM ClosedTold == Spec => []ClosedIsTrue
<1>1. IInv => ClosedIsTrue  BY DEF IInv
<1> QED  BY <1>1, Invariance, PTL

(***************************************************************************)
(* A call that data waited for.                                            *)
(***************************************************************************)

\* An error is that of a reset, and as long as there is none, data that waited when the call
\* was made are read or still wait, with an iteration left.
DataWaits ==
  /\ peer.error => peer.state = "reset"
  /\ call.inLoop /\ call.hadData /\ peer.state # "reset" /\ call.received = 0
       => unread > 0 /\ call.index < Times

LEMMA SameWait ==
  ASSUME DataWaits, UNCHANGED <<call, peer>>
  PROVE  DataWaits'
BY DEF DataWaits, unread

\* A call that has returned.
LEMMA NoCallWaits ==
  ASSUME DataWaits, ~call'.inLoop, peer'.error => peer'.state = "reset"
  PROVE  DataWaits'
BY DEF DataWaits

\* One more iteration needs a call without data.
LEMMA ContinueWaits ==
  ASSUME TypeOK, DataWaits, continue, ~peer.error \/ peer.state = "reset",
         unread > 0 => peer.state = "reset",
         peer' = peer \/ peer' = [peer EXCEPT !.error = FALSE]
  PROVE  DataWaits'
<1>1. /\ call'.inLoop = call.inLoop /\ call'.hadData = call.hadData
      /\ call'.received = call.received
  BY DEF TypeOK, continue
<1>2. /\ peer'.state = peer.state
      /\ peer'.error => peer.state = "reset"
  BY DEF TypeOK
<1> QED  BY <1>1, <1>2 DEF DataWaits

LEMMA LoopWaits ==
  ASSUME IInv, DataWaits, loopToRecv
  PROVE  DataWaits' /\ (call.inLoop /\ ~call'.inLoop /\ call.hadData /\ peer.state # "reset"
                          => result' # 0)
<1>1. TypeOK /\ WantsMore /\ ~returned.inLoop  BY DEF IInv, returned
<1>2. CASE selectReady
  <2>1. UNCHANGED <<call, peer>>  BY <1>2 DEF selectReady
  <2> QED  BY <2>1, SameWait
<1>3. CASE selectTimeout
  <2>1. continue /\ peer' = peer /\ ~(unread > 0)  BY <1>3 DEF selectTimeout, readable
  <2>2. call'.inLoop = call.inLoop  BY <2>1, <1>1 DEF continue, TypeOK
  <2> QED  BY <1>1, <2>1, <2>2, ContinueWaits DEF DataWaits
<1>4. CASE selectFails
  <2>1. result' = SELECT_FAILED /\ ~call'.inLoop /\ peer' = peer
    BY <1>1, <1>4 DEF selectFails, return
  <2> QED  BY <2>1, NoCallWaits DEF DataWaits, SELECT_FAILED
<1>5. CASE recvSome
  <2> DEFINE asked == call.maxLength - call.received
             size == IF unread < asked THEN unread ELSE asked
  <2>1. call.maxLength \in Nat /\ call.received \in Nat
    <3>1. call.maxLength \in Length \cup {0} /\ call.received \in Nat  BY <1>1 DEF TypeOK
    <3>2. Length \cup {0} \subseteq Nat  BY SocketAssumption
    <3> QED  BY Zenon, <3>1, <3>2
  <2>2. unread \in Int /\ unread > 0
    <3>1. peer.sent \in Nat /\ peer.taken \in Nat  BY <1>1 DEF TypeOK
    <3> QED  BY <1>5, <3>1 DEF recvSome, unread
  <2>3. asked > 0 /\ asked \in Int  BY <1>1, <1>5, <2>1 DEF recvSome, inIteration, WantsMore
  <2>4. size > 0 /\ size \in Int  BY <2>2, <2>3
  <2>5. peer'.error = peer.error /\ peer'.state = peer.state
    BY <1>1, <1>5 DEF recvSome, TypeOK
  <2>6. CASE size = asked
    <3>1. result' = call.maxLength /\ ~call'.inLoop  BY <1>1, <1>5, <2>6 DEF recvSome, return
    <3>2. call.maxLength # 0  BY <2>1, <2>3
    <3> QED  BY <2>5, <3>1, <3>2, NoCallWaits DEF DataWaits
  <2>7. CASE size # asked
    <3>1. call' = [call EXCEPT !.index = @ + 1, !.received = @ + size]
      BY <1>5, <2>7 DEF recvSome
    <3> HIDE DEF size
    <3>2. call'.received = call.received + size /\ call'.inLoop = call.inLoop
      BY <1>1, <3>1 DEF TypeOK
    <3>3. call'.received # 0  BY <2>1, <2>4, <3>2
    <3> QED  BY <2>5, <3>2, <3>3 DEF DataWaits
  <2> QED  BY <2>6, <2>7
<1>6. CASE recvError
  <2>1. /\ continue /\ peer' = [peer EXCEPT !.error = FALSE]
        /\ peer.error \/ ~(unread > 0)
    BY <1>6 DEF recvError, readable
  <2>2. call'.inLoop = call.inLoop  BY <2>1, <1>1 DEF continue, TypeOK
  <2>3. ~peer.error \/ peer.state = "reset"  BY DEF DataWaits
  <2>4. unread > 0 => peer.state = "reset"  BY <2>1, <2>3
  <2> QED  BY <1>1, <2>1, <2>2, <2>3, <2>4, ContinueWaits
<1>7. CASE recvEnd
  <2>1. peer' = peer /\ ~(unread > 0)  BY <1>7 DEF recvEnd
  <2>2. CASE return(CLOSED)
    <3>1. result' = CLOSED /\ ~call'.inLoop  BY <1>1, <2>2 DEF return
    <3> QED  BY <2>1, <3>1, NoCallWaits DEF DataWaits, CLOSED
  <2>3. CASE continue
    <3>1. call'.inLoop = call.inLoop  BY <2>3, <1>1 DEF continue, TypeOK
    <3> QED  BY <1>1, <2>1, <2>3, <3>1, ContinueWaits DEF DataWaits
  <2> QED  BY <1>7, <2>2, <2>3 DEF recvEnd
<1>8. CASE loopEnds
  <2>1. result' = call.received /\ ~call'.inLoop /\ peer' = peer /\ call.index = Times
    BY <1>1, <1>8 DEF loopEnds, return
  <2>2. ~(call.index < Times)  BY <2>1, SocketAssumption
  <2>3. DataWaits'  BY <2>1, NoCallWaits DEF DataWaits
  <2> QED  BY <2>1, <2>2, <2>3 DEF DataWaits
<1> QED  BY <1>2, <1>3, <1>4, <1>5, <1>6, <1>7, <1>8 DEF loopToRecv

LEMMA PeerWaits ==
  ASSUME IInv, DataWaits, peerStep
  PROVE  DataWaits'
<1>1. TypeOK /\ call' = call  BY DEF IInv, peerStep
<1>2. ~peer.error  BY DEF peerStep, DataWaits
<1>3. peer.sent \in Nat /\ peer.taken \in Nat /\ MaxSent \in Nat
  BY <1>1, SocketAssumption DEF TypeOK
<1>4. CASE \E x \in {"open", "closed"} : peer' = [peer EXCEPT !.state = x]
  <2>1. PICK x \in {"open", "closed"} : peer' = [peer EXCEPT !.state = x]  BY <1>4
  <2>2. /\ peer'.error = peer.error /\ peer'.sent = peer.sent /\ peer'.taken = peer.taken
        /\ peer.state # "reset"
    BY <1>1, <2>1 DEF TypeOK, peerStep
  <2> QED  BY <1>1, <1>2, <2>2 DEF DataWaits, unread
<1>5. CASE \E n \in (peer.sent + 1)..MaxSent : peer' = [peer EXCEPT !.sent = n]
  <2>1. PICK n \in (peer.sent + 1)..MaxSent : peer' = [peer EXCEPT !.sent = n]  BY <1>5
  <2>2. /\ peer'.error = peer.error /\ peer'.sent = n /\ peer'.taken = peer.taken
        /\ peer'.state = peer.state
    BY <1>1, <2>1 DEF TypeOK
  <2>3. unread > 0 => unread' > 0  BY <1>3, <2>2 DEF unread
  <2> QED  BY <1>1, <1>2, <2>2, <2>3 DEF DataWaits
<1>6. CASE \E n \in {peer.taken, peer.sent} :
             peer' = [peer EXCEPT !.state = "reset", !.error = TRUE, !.sent = n]
  <2>1. peer'.state = "reset"  BY <1>1, <1>6 DEF TypeOK
  <2> QED  BY <2>1 DEF DataWaits
<1> QED  BY <1>4, <1>5, <1>6 DEF peerStep

LEMMA StepWaits ==
  ASSUME IInv, DataWaits, [Next]_vars
  PROVE  DataWaits' /\ (call.inLoop /\ ~call'.inLoop /\ call.hadData /\ peer.state # "reset"
                          => result' # 0)
<1>1. CASE disconnect \/ free \/ otherStep \/ UNCHANGED vars
  <2>1. UNCHANGED <<call, peer>>  BY <1>1 DEF disconnect, free, otherStep, vars
  <2> QED  BY <2>1, SameWait
<1>2. CASE connectToHost
  BY <1>2 DEF connectToHost, nobody, DataWaits
<1>3. CASE recvCall
  <2>1. /\ call'.index = 0 /\ call'.hadData = (unread > 0) /\ peer' = peer /\ ~call.inLoop
    BY <1>3 DEF recvCall
  <2>2. call'.hadData => unread > 0  BY <2>1
  <2>3. unread' = unread  BY <2>1 DEF unread
  <2>4. 0 < Times  BY SocketAssumption
  <2> QED  BY Zenon, <2>1, <2>2, <2>3, <2>4 DEF DataWaits
<1>4. CASE loopToRecv  BY <1>4, LoopWaits
<1>5. CASE peerStep
  <2>1. call' = call  BY <1>5 DEF peerStep
  <2> QED  BY <1>5, <2>1, PeerWaits
<1> QED  BY <1>1, <1>2, <1>3, <1>4, <1>5 DEF Next

\* A call never returns 0 although data waited when it was made, whatever the iterations
\* before and whatever an earlier call or connection left in the context.
THEOREM WaitingDataRead == Spec => WaitingDataIsRead
<1>1. Init => DataWaits  BY DEF Init, DataWaits, nobody, returned
<1>2. IInv /\ DataWaits /\ [Next]_vars => DataWaits'  BY StepWaits
<1>3. IInv /\ DataWaits /\ [Next]_vars
        => [call.inLoop /\ ~call'.inLoop /\ call.hadData /\ peer.state # "reset" => result' # 0]_vars
  BY StepWaits
<1> QED  BY <1>1, <1>2, <1>3, Invariance, PTL DEF Spec, WaitingDataIsRead
===============================================================================
