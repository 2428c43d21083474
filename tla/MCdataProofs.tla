---------------------------- MODULE MCdataProofs ----------------------------
(***************************************************************************)
(* Proofs about the parts of MCdata, one after the other: the lemmas of a  *)
(* part say what its actions make of its invariant, and its theorem is     *)
(* about every behaviour of MCdata, where the others leave it alone.       *)
(*                                                                         *)
(*   UDP socket   what waits is numbered without gaps and follows what a   *)
(*                call has taken, which lies in its buffer piece by piece  *)
(*   pages        once a reset was good, the members are a page, and       *)
(*                buttons, label and the last event say the same           *)
(*   line edit    what was taken in the strong mode is nothing or matches  *)
(*   combo box    with other as the last option the edit is shown for it   *)
(*   table view   a laid out table has the data's counts and rows          *)
(*   database     a name that one manager uses for one path is connected   *)
(*                to it while that manager is open                         *)
(*   Qt's JSON    the document is an object, a kept item has a name of it  *)
(*   path map     what is under an array's path has the number of an item  *)
(*                the array has made, unless it was made by hand           *)
(***************************************************************************)
EXTENDS MCdata, FiniteSetTheorems, SequenceTheorems, WellFoundedInduction, TLAPS

\* A set of numbers up to n that is not empty has a least one.
LEMMA Least ==
  ASSUME NEW n \in Nat, NEW S \in SUBSET (0..n), S # {}
  PROVE  \E m \in S : \A k \in S : m <= k
<1> DEFINE B == 0..n
           F == {0..k : k \in S}
<1>1. IsWellFoundedOn(StrictSubsetOrdering(B), FiniteSubsetsOf(B))
  BY FS_StrictSubsetOrderingWellFounded
<1>2. F \subseteq FiniteSubsetsOf(B) /\ F # {}
  <2>1. ASSUME NEW k \in S
        PROVE  0..k \in FiniteSubsetsOf(B)
    <3>1. k \in Int /\ 0..k \subseteq B  OBVIOUS
    <3>2. IsFiniteSet(0..k)  BY <3>1, FS_Interval
    <3> QED  BY <3>1, <3>2 DEF FiniteSubsetsOf
  <2> QED  BY <2>1
<1>3. PICK I \in F : \A J \in F : ~(<<J, I>> \in StrictSubsetOrdering(B))
  <2> HIDE DEF F, B
  <2> QED BY <1>1, <1>2, WFMin
<1>4. PICK m \in S : I = 0..m  BY <1>3
<1>5. ASSUME NEW k \in S, k < m PROVE FALSE
  <2>1. 0..k \in F /\ 0..k \subseteq I /\ 0..k # I /\ I \subseteq B  BY <1>4, <1>5
  <2>2. <<0..k, I>> \in StrictSubsetOrdering(B)  BY <2>1 DEF StrictSubsetOrdering
  <2> QED BY <1>3, <2>1, <2>2
<1> QED BY <1>4, <1>5

\* A finite set of numbers that is not empty has a greatest one.
LEMMA Greatest ==
  ASSUME NEW B \in SUBSET Int, IsFiniteSet(B), B # {}
  PROVE  \E m \in B : \A k \in B : k <= m
<1> DEFINE above(m) == {x \in B : m <= x}
           F == {above(k) : k \in B}
<1>1. IsWellFoundedOn(StrictSubsetOrdering(B), FiniteSubsetsOf(B))
  BY FS_StrictSubsetOrderingWellFounded
<1>2. F \subseteq FiniteSubsetsOf(B) /\ F # {}
  <2>1. ASSUME NEW k \in B
        PROVE  above(k) \in FiniteSubsetsOf(B)
    <3>1. above(k) \subseteq B  OBVIOUS
    <3>2. IsFiniteSet(above(k))  BY <3>1, FS_Subset
    <3> QED BY <3>1, <3>2 DEF FiniteSubsetsOf
  <2> QED BY <2>1
<1>3. PICK I \in F : \A J \in F : ~(<<J, I>> \in StrictSubsetOrdering(B))
  <2> HIDE DEF F
  <2> QED BY <1>1, <1>2, WFMin
<1>4. PICK m \in B : I = above(m)  BY <1>3
<1>5. ASSUME NEW k \in B, k > m PROVE FALSE
  <2>1. above(k) \in F /\ above(k) \subseteq I /\ above(k) # I /\ I \subseteq B
    <3>1. m \in I /\ m \notin above(k)  BY <1>4, <1>5
    <3>2. above(k) \subseteq I
      <4>1. \A x \in B : k <= x => m <= x
        <5>1. B \subseteq Int /\ k \in Int /\ m \in Int /\ m < k  BY <1>4, <1>5
        <5> QED BY <5>1
      <4> QED BY <1>4, <4>1
    <3> QED BY <1>4, <3>1, <3>2
  <2>2. <<above(k), I>> \in StrictSubsetOrdering(B)  BY <2>1 DEF StrictSubsetOrdering
  <2> QED BY <1>3, <2>1, <2>2
<1> QED BY <1>4, <1>5

LEMMA FunctionIsSeq ==
  ASSUME NEW S, NEW n \in Nat, NEW f \in [1..n -> S]
  PROVE  f \in Seq(S) /\ Len(f) = n
OBVIOUS

\* Of the positions up to j, one more than up to j - 1 if j is one of them.
LEMMA OneMore ==
  ASSUME NEW n \in Nat, NEW I \in SUBSET (1..n), NEW j \in 1..n
  PROVE  /\ Cardinality(I \cap 1..j) \in Nat /\ Cardinality(I \cap 1..(j - 1)) \in Nat
         /\ Cardinality(I \cap 1..j) = Cardinality(I \cap 1..(j - 1)) + (IF j \in I THEN 1 ELSE 0)
<1> DEFINE A == I \cap 1..(j - 1)
           C == I \cap 1..j
<1>1. IsFiniteSet(1..n) /\ IsFiniteSet(I)
  <2>1. IsFiniteSet(1..n) /\ I \subseteq 1..n  BY FS_Interval
  <2> QED BY <2>1, FS_Subset
<1>2. IsFiniteSet(A) /\ IsFiniteSet(C) /\ j \notin A
  <2>1. A \subseteq I /\ C \subseteq I /\ j \notin A  OBVIOUS
  <2> QED BY <1>1, <2>1, FS_Subset
<1>3. Cardinality(A) \in Nat /\ Cardinality(C) \in Nat  BY <1>2, FS_CardinalityType
<1>4. CASE j \in I
  <2>1. C = A \cup {j}  BY <1>4
  <2> HIDE DEF A, C
  <2>2. Cardinality(A \cup {j}) = Cardinality(A) + 1  BY <1>2, FS_AddElement
  <2> QED BY <1>3, <1>4, <2>1, <2>2 DEF A, C
<1>5. CASE j \notin I
  <2>1. C = A  BY <1>5
  <2> HIDE DEF A, C
  <2>2. Cardinality(C) = Cardinality(A)  BY <2>1
  <2> QED BY <1>3, <1>5, <2>2 DEF A, C
<1> QED BY <1>4, <1>5

\* So each position up to which k of them are is found.
LEMMA KthPosition ==
  ASSUME NEW n \in Nat, NEW I \in SUBSET (1..n), NEW k \in 1..Cardinality(I)
  PROVE  \E i \in I : Cardinality(I \cap 1..i) = k
<1> DEFINE J == {j \in 0..n : Cardinality(I \cap 1..j) >= k}
<1>1. IsFiniteSet(I) /\ Cardinality(I) \in Nat /\ I \cap 1..n = I
  <2>1. IsFiniteSet(1..n) /\ I \subseteq 1..n  BY FS_Interval
  <2> QED BY <2>1, FS_Subset, FS_CardinalityType
<1>2. n \in J  BY <1>1
<1>3. PICK j \in J : \A i \in J : j <= i
  <2>1. J \in SUBSET (0..n) /\ J # {}  BY <1>2
  <2> HIDE DEF J
  <2> QED BY <2>1, Least
<1>4. j # 0
  <2>1. I \cap 1..0 = {}  OBVIOUS
  <2>2. Cardinality(I \cap 1..0) = 0  BY <2>1, FS_EmptySet
  <2> QED BY <1>3, <2>2
<1>5. j \in 1..n /\ j - 1 \in 0..n /\ j - 1 \notin J  BY <1>3, <1>4
<1>6. /\ Cardinality(I \cap 1..j) \in Nat /\ Cardinality(I \cap 1..(j - 1)) \in Nat
      /\ Cardinality(I \cap 1..j) = Cardinality(I \cap 1..(j - 1)) + (IF j \in I THEN 1 ELSE 0)
  BY <1>5, OneMore
<1>7. Cardinality(I \cap 1..j) >= k /\ ~(Cardinality(I \cap 1..(j - 1)) >= k)
  BY <1>3, <1>5
<1>8. j \in I
  <2>1. k \in Int  BY <1>1
  <2> QED BY <1>6, <1>7, <2>1
<1>9. Cardinality(I \cap 1..j) = k
  <2> DEFINE a == Cardinality(I \cap 1..j)
             b == Cardinality(I \cap 1..(j - 1))
  <2>1. a \in Nat /\ b \in Nat /\ a = b + 1 /\ a >= k /\ ~(b >= k) /\ k \in Int
    BY <1>1, <1>6, <1>7, <1>8
  <2> HIDE DEF a, b
  <2>2. a = k  BY <2>1
  <2> QED BY <2>2 DEF a
<1> QED BY <1>8, <1>9

\* What is picked are elements of the sequence, as many as positions.
LEMMA Picked ==
  ASSUME NEW S, NEW s \in Seq(S), NEW I \in SUBSET (1..Len(s))
  PROVE  /\ Sql!picked(s, I) \in Seq(S)
         /\ Len(Sql!picked(s, I)) = Cardinality(I)
         /\ \A k \in 1..Cardinality(I) : \E i \in I : Sql!picked(s, I)[k] = s[i]
<1> DEFINE n == Len(s)
           kth(k) == CHOOSE i \in I : Cardinality(I \cap 1..i) = k
           t == [k \in 1..Cardinality(I) |-> s[kth(k)]]
<1>1. n \in Nat /\ Cardinality(I) \in Nat
  <2>1. IsFiniteSet(1..n) /\ n \in Nat  BY FS_Interval, LenProperties
  <2> QED BY <2>1, FS_Subset, FS_CardinalityType
<1>2. ASSUME NEW k \in 1..Cardinality(I)
      PROVE  kth(k) \in I /\ s[kth(k)] \in S
  <2>1. \E i \in I : Cardinality(I \cap 1..i) = k  BY <1>1, KthPosition
  <2>2. kth(k) \in I  BY <2>1
  <2> HIDE DEF kth
  <2> QED BY <2>2, ElementOfSeq
<1>3. Sql!picked(s, I) = t  BY Zenon DEF Sql!picked, Sql!Cardinality, Cardinality
<1> HIDE DEF kth
<1>4. t \in [1..Cardinality(I) -> S]  BY <1>2
<1>5. t \in Seq(S) /\ Len(t) = Cardinality(I)
  <2> HIDE DEF t
  <2> QED BY <1>1, <1>4, FunctionIsSeq
<1>6. \A k \in 1..Cardinality(I) : \E i \in I : t[k] = s[i]  BY <1>2
<1> QED BY <1>3, <1>5, <1>6

----
\* The UDP socket (XXudpSocket)

Datagram == [number : Nat, size : Nat]
Part == [number : Nat, of : Nat, at : Nat, size : Nat]
RecvCall == [inLoop : BOOLEAN, index : Nat, received : Nat, maxLength : Nat,
             waited : BOOLEAN, empties : Nat, dry : BOOLEAN, parts : Seq(Part)]

LEMMA UdpBounds == /\ DatagramSize \subseteq Nat /\ BufferSize \subseteq Nat \ {0}
                   /\ TryTimes \in Nat \ {0}
  BY DataAssumption

LEMMA PartsTyped ==
  ASSUME NEW parts \in Seq(Part), NEW k \in 1..Len(parts)
  PROVE  /\ parts[k].number \in Nat /\ parts[k].size \in Nat
         /\ parts[k].of \in Nat /\ parts[k].at \in Nat
<1>1. parts[k] \in Part  BY ElementOfSeq
<1> QED BY <1>1 DEF Part

\* The number of the last datagram that was taken or lost, of those in order.
gone == arrived - Len(datagrams)

\* What a call has taken lies in its buffer, whole and in order but for the end.
InBuffer(call) ==
  LET parts == call.parts
      n == Len(parts)
  IN /\ \A k \in 1..n : parts[k].at = IF k = 1 THEN 0 ELSE parts[k - 1].at + parts[k - 1].size
     /\ call.received = IF n = 0 THEN 0 ELSE parts[n].at + parts[n].size
     /\ call.received <= call.maxLength
     /\ \A k \in 1..(n - 1) : parts[k].number < parts[k + 1].number /\ parts[k].size = parts[k].of
     /\ n > 0 => parts[n].number - parts[1].number <= n - 1 + call.empties
     /\ n > 0 /\ parts[n].size < parts[n].of => call.received = call.maxLength
     /\ n > 0 => parts[n].size <= parts[n].of

UdpTypes ==
  /\ datagrams \in Seq(Datagram) /\ arrived \in Nat /\ hasSomething \in BOOLEAN
  /\ recvCall \in RecvCall /\ recvResult \in Int

\* While a call runs, what waits follows what it has taken, its buffer has room, what waited
\* when it began was taken or waits still, and what it has taken is counted until it reads
\* nothing or an empty datagram.
Running ==
  recvCall.inLoop =>
    /\ recvCall.received < recvCall.maxLength
    /\ Len(recvCall.parts) > 0 =>
         /\ recvCall.parts[Len(recvCall.parts)].number <= gone
         /\ gone - recvCall.parts[1].number < Len(recvCall.parts) + recvCall.empties
    /\ recvCall.waited /\ recvCall.received = 0
         => recvCall.index = 0 /\ Len(datagrams) > 0 /\ datagrams[1].size > 0
    /\ Len(recvCall.parts) > 0 /\ ~recvCall.dry
         => (hasSomething /\ recvCountAfterSelect # 0) \/ recvCall.empties > 0

Returned ==
  ~recvCall.inLoop =>
    /\ recvResult > 0 => recvResult = recvCall.received
    /\ recvResult = -3
         => recvCall.empties > 0 /\ (Len(recvCall.parts) = 0 \/ recvCall.dry \/ recvCall.empties > 1)
    /\ recvCall.waited => recvResult # 0

UdpInv ==
  /\ UdpTypes /\ Running /\ Returned /\ InBuffer(recvCall)
  /\ \A k \in 1..Len(datagrams) : datagrams[k].number = gone + k

LEMMA UdpPromises ==
  ASSUME UdpInv
  PROVE  DatagramsSound
<1> DEFINE parts == recvCall.parts
<1>1. parts \in Seq(Part) /\ DOMAIN parts = 1..Len(parts) /\ (parts # <<>> <=> Len(parts) > 0)
      /\ Len(parts) \in Nat
  BY EmptySeq, LenProperties DEF UdpInv, UdpTypes, RecvCall
<1>2. Udp!DatagramsSound
  <2>1. recvCall.empties \in Nat  BY DEF UdpInv, UdpTypes, RecvCall
  <2> QED BY <1>1, <2>1 DEF UdpInv, InBuffer, Returned, Udp!DatagramsSound,
                            Udp!XXSOCKET_ERROR_CLOSED
<1>3. Udp!WaitingIsRead
  BY DEF UdpInv, Returned, Udp!WaitingIsRead
<1> QED BY <1>2, <1>3 DEF DatagramsSound

\* The first of what waits is gone, and the rest follows it.
LEMMA FirstGone ==
  ASSUME UdpInv, datagrams # <<>>, datagrams' = Tail(datagrams), arrived' = arrived
  PROVE  /\ datagrams' \in Seq(Datagram) /\ gone' = gone + 1 /\ gone \in Int
         /\ datagrams[1] \in Datagram /\ datagrams[1].number = gone + 1
         /\ Len(datagrams) > 0 /\ Len(datagrams') = Len(datagrams) - 1
         /\ \A k \in 1..Len(datagrams') : datagrams'[k].number = gone' + k
<1>1. datagrams \in Seq(Datagram) /\ arrived \in Nat /\ Len(datagrams) \in Nat
  BY LenProperties DEF UdpInv, UdpTypes
<1>2. /\ Len(datagrams) > 0 /\ datagrams' \in Seq(Datagram)
      /\ Len(datagrams') = Len(datagrams) - 1
      /\ \A k \in 1..Len(datagrams') : datagrams'[k] = datagrams[k + 1]
      /\ datagrams[1] \in Datagram
  BY <1>1, HeadTailProperties, EmptySeq, ElementOfSeq
<1>3. gone' = gone + 1 /\ gone \in Int
  BY <1>1, <1>2 DEF gone
<1>4. \A k \in 1..Len(datagrams) : datagrams[k].number = gone + k
  BY DEF UdpInv
<1> HIDE DEF gone
<1>5. \A k \in 1..Len(datagrams') : datagrams'[k].number = gone' + k
  <2> TAKE k \in 1..Len(datagrams')
  <2>1. k + 1 \in 1..Len(datagrams) /\ k \in Int  BY <1>1, <1>2
  <2> QED BY <1>2, <1>3, <1>4, <2>1
<1> QED BY <1>1, <1>2, <1>3, <1>4, <1>5

\* The members alone may change, and while something is counted they do not.
LEMMA UdpKept ==
  ASSUME UdpInv, UNCHANGED <<datagrams, arrived, recvCall, recvResult>>, hasSomething' \in BOOLEAN,
         ~hasSomething \/ UNCHANGED <<hasSomething, recvCountAfterSelect>>
  PROVE  UdpInv'
<1>1. gone' = gone  BY DEF gone
<1>2. UdpTypes'  BY DEF UdpInv, UdpTypes
<1>3. Running'  BY <1>1 DEF UdpInv, Running
<1>4. Returned'  BY DEF UdpInv, Returned
<1>5. InBuffer(recvCall)'  BY DEF UdpInv, InBuffer
<1> QED BY <1>1, <1>2, <1>3, <1>4, <1>5 DEF UdpInv

\* A call comes back with what it was, and a result that is an error or its length.
LEMMA UdpReturns ==
  ASSUME UdpInv, recvCall.inLoop, Udp!returns(recvResult'), recvResult' \in Int,
         recvResult' # -3,
         recvResult' < 0 \/ (recvResult' = recvCall.received
                               /\ (recvCall.waited => recvCall.received # 0)),
         datagrams' \in Seq(Datagram), arrived' = arrived, hasSomething' \in BOOLEAN,
         \A k \in 1..Len(datagrams') : datagrams'[k].number = gone' + k
  PROVE  UdpInv'
<1>1. /\ recvCall' \in RecvCall /\ ~recvCall'.inLoop
      /\ recvCall'.parts = recvCall.parts /\ recvCall'.received = recvCall.received
      /\ recvCall'.maxLength = recvCall.maxLength /\ recvCall'.waited = recvCall.waited
      /\ recvCall'.empties = recvCall.empties
  BY DEF UdpInv, UdpTypes, RecvCall, Udp!returns
<1>2. UdpTypes'  BY <1>1 DEF UdpInv, UdpTypes
<1>3. Running'  BY <1>1 DEF Running
<1>4. Returned'
  <2>1. recvCall.received \in Nat  BY DEF UdpInv, UdpTypes, RecvCall
  <2> QED BY <1>1, <2>1 DEF Returned
<1>5. InBuffer(recvCall')  BY <1>1 DEF UdpInv, InBuffer
<1> QED BY <1>2, <1>3, <1>4, <1>5 DEF UdpInv, InBuffer

\* Nothing is there, and nothing was: one more try.
LEMMA UdpTriesAgain ==
  ASSUME UdpInv, recvCall.inLoop, datagrams = <<>>,
         UNCHANGED <<datagrams, arrived, recvResult>>,
         \/ Udp!tryAgain /\ UNCHANGED <<hasSomething, recvCountAfterSelect>>
         \/ recvCall' = [recvCall EXCEPT !.index = @ + 1, !.dry = TRUE] /\ hasSomething' = FALSE
  PROVE  UdpInv'
<1>1. /\ recvCall' \in RecvCall /\ recvCall'.inLoop = recvCall.inLoop
      /\ recvCall'.parts = recvCall.parts /\ recvCall'.received = recvCall.received
      /\ recvCall'.maxLength = recvCall.maxLength /\ recvCall'.waited = recvCall.waited
      /\ recvCall'.empties = recvCall.empties
      /\ \/ recvCall'.dry = TRUE
         \/ recvCall'.dry = recvCall.dry /\ UNCHANGED <<hasSomething, recvCountAfterSelect>>
      /\ hasSomething' \in BOOLEAN
  <2>1. recvCall \in RecvCall /\ recvCall.index + 1 \in Nat /\ hasSomething \in BOOLEAN
    BY DEF UdpInv, UdpTypes, RecvCall
  <2>2. CASE Udp!tryAgain /\ UNCHANGED <<hasSomething, recvCountAfterSelect>>
    <3>1. recvCall' = [recvCall EXCEPT !.index = recvCall.index + 1]  BY <2>2 DEF Udp!tryAgain
    <3> QED BY <2>1, <2>2, <3>1 DEF RecvCall
  <2>3. CASE recvCall' = [recvCall EXCEPT !.index = @ + 1, !.dry = TRUE] /\ hasSomething' = FALSE
    <3>1. recvCall' = [recvCall EXCEPT !.index = recvCall.index + 1, !.dry = TRUE]  BY <2>3
    <3>2. recvCall' \in RecvCall /\ recvCall'.dry = TRUE  BY <2>1, <3>1 DEF RecvCall
    <3>3. recvCall'.inLoop = recvCall.inLoop /\ recvCall'.parts = recvCall.parts
          /\ recvCall'.received = recvCall.received /\ recvCall'.maxLength = recvCall.maxLength
          /\ recvCall'.waited = recvCall.waited /\ recvCall'.empties = recvCall.empties
      BY <2>1, <3>1 DEF RecvCall
    <3> QED BY <2>3, <3>2, <3>3
  <2> QED BY <2>2, <2>3
<1>2. gone' = gone /\ Len(datagrams) = 0  BY EmptySeq DEF gone
<1>3. UdpTypes'  BY <1>1 DEF UdpInv, UdpTypes
<1>4. Running'  BY <1>1, <1>2 DEF UdpInv, Running
<1>5. Returned'  BY <1>1 DEF Returned
<1>6. InBuffer(recvCall')  BY <1>1 DEF UdpInv, InBuffer
<1> QED BY <1>2, <1>3, <1>4, <1>5, <1>6 DEF UdpInv, InBuffer

\* An empty datagram is passed over, or taken for the end: the numbers have a gap more.
LEMMA UdpSkips ==
  ASSUME UdpInv, recvCall.inLoop, datagrams # <<>>, datagrams[1].size = 0,
         datagrams' = Tail(datagrams), arrived' = arrived, hasSomething' \in BOOLEAN,
         \/ /\ recvCall' = [recvCall EXCEPT !.index = @ + 1, !.empties = @ + 1]
            /\ recvResult' = recvResult
         \/ /\ recvCall' = [recvCall EXCEPT !.inLoop = FALSE, !.empties = @ + 1]
            /\ recvResult' = -3 /\ recvCountAfterSelect = 0
  PROVE  UdpInv'
<1>1. /\ recvCall' \in RecvCall
      /\ \/ recvCall'.inLoop /\ recvResult' = recvResult
         \/ ~recvCall'.inLoop /\ recvResult' = -3 /\ recvCountAfterSelect = 0
      /\ recvCall'.dry = recvCall.dry
      /\ recvCall'.parts = recvCall.parts /\ recvCall'.received = recvCall.received
      /\ recvCall'.maxLength = recvCall.maxLength /\ recvCall'.waited = recvCall.waited
      /\ recvCall'.empties = recvCall.empties + 1 /\ recvCall.empties \in Nat
      /\ recvCall.parts \in Seq(Part)
  <2>1. recvCall \in RecvCall /\ recvCall.index + 1 \in Nat /\ recvCall.empties \in Nat
        /\ recvCall.empties + 1 \in Nat /\ recvCall.parts \in Seq(Part)
    BY DEF UdpInv, UdpTypes, RecvCall
  <2>2. CASE /\ recvCall' = [recvCall EXCEPT !.index = @ + 1, !.empties = @ + 1]
             /\ recvResult' = recvResult
    <3>1. recvCall' = [recvCall EXCEPT !.index = recvCall.index + 1,
                                       !.empties = recvCall.empties + 1]
      BY <2>2
    <3> QED BY <2>1, <2>2, <3>1 DEF RecvCall
  <2>3. CASE /\ recvCall' = [recvCall EXCEPT !.inLoop = FALSE, !.empties = @ + 1]
             /\ recvResult' = -3 /\ recvCountAfterSelect = 0
    <3>1. recvCall' = [recvCall EXCEPT !.inLoop = FALSE, !.empties = recvCall.empties + 1]
      BY <2>3
    <3> QED BY <2>1, <2>3, <3>1 DEF RecvCall
  <2> QED BY <2>2, <2>3
<1>2. /\ datagrams' \in Seq(Datagram) /\ gone' = gone + 1 /\ gone \in Int
      /\ \A k \in 1..Len(datagrams') : datagrams'[k].number = gone' + k
      /\ Len(datagrams) > 0
  BY FirstGone
<1>3. \A k \in 1..Len(recvCall.parts) : recvCall.parts[k].number \in Nat
  BY <1>1, PartsTyped
<1>4. Len(recvCall.parts) \in Nat  BY <1>1, LenProperties
<1> HIDE DEF gone
<1>5. UdpTypes'  BY <1>1, <1>2 DEF UdpInv, UdpTypes
<1> DEFINE n == Len(recvCall.parts)
<1>9. n > 0 => n \in 1..n /\ 1 \in 1..n  BY <1>4
<1>10. n > 0 => recvCall.parts[n].number \in Nat /\ recvCall.parts[1].number \in Nat
  BY <1>3, <1>9
<1>6. Running'
  <2>1. recvCall.received < recvCall.maxLength  BY DEF UdpInv, Running
  <2>2. n > 0 => /\ recvCall.parts[n].number <= gone
                 /\ gone - recvCall.parts[1].number < n + recvCall.empties
    BY DEF UdpInv, Running
  <2>3. ~(recvCall.waited /\ recvCall.received = 0)  BY DEF UdpInv, Running
  <2>4. n > 0 => /\ recvCall.parts[n].number <= gone'
                 /\ gone' - recvCall.parts[1].number < n + recvCall'.empties
    <3>1. n \in Nat /\ recvCall'.empties = recvCall.empties + 1 /\ recvCall.empties \in Nat
      BY <1>1, <1>4
    <3>2. \A g, l, f, m, e \in Int :
            l <= g /\ g - f < m + e => l <= g + 1 /\ (g + 1) - f < m + (e + 1)
      OBVIOUS
    <3> DEFINE l == recvCall.parts[n].number
               f == recvCall.parts[1].number
               e == recvCall'.empties
               d == recvCall.empties
    <3>3. ASSUME n > 0 PROVE l <= gone' /\ gone' - f < n + e
      <4>1. l \in Nat /\ f \in Nat /\ l <= gone /\ gone - f < n + d  BY <1>10, <2>2, <3>3
      <4>2. e = d + 1 /\ d \in Nat /\ n \in Nat /\ gone' = gone + 1 /\ gone \in Int
        BY <1>2, <3>1
      <4> HIDE DEF n, l, f, d, e
      <4> QED BY <3>2, <4>1, <4>2
    <3> QED BY <3>3
  <2>5. recvCall'.empties > 0  BY <1>1
  <2> QED BY <1>1, <2>1, <2>3, <2>4, <2>5 DEF Running
<1>7. Returned'  BY <1>1, <1>4 DEF UdpInv, Running, Returned
<1>8. InBuffer(recvCall')
  <2>1. InBuffer(recvCall)  BY DEF UdpInv
  <2>2. n > 0 => recvCall.parts[n].number - recvCall.parts[1].number <= n - 1 + recvCall'.empties
    BY <1>1, <1>4, <1>10, <2>1 DEF InBuffer
  <2> QED BY <1>1, <2>1, <2>2 DEF InBuffer
<1> QED BY <1>2, <1>5, <1>6, <1>7, <1>8 DEF UdpInv, InBuffer

\* A datagram is taken: it lies behind the last, and is cut only where the buffer ends.
LEMMA UdpTakes ==
  ASSUME UdpInv, Udp!recvfromSome
  PROVE  UdpInv'
<1> DEFINE parts == recvCall.parts
           n == Len(parts)
           room == recvCall.maxLength - recvCall.received
           size == IF datagrams[1].size < room THEN datagrams[1].size ELSE room
           part == [number |-> datagrams[1].number, of |-> datagrams[1].size,
                    at |-> recvCall.received, size |-> size]
           taken == Append(parts, part)
<1>1. /\ recvCall \in RecvCall /\ parts \in Seq(Part) /\ n \in Nat
      /\ recvCall.received \in Nat /\ recvCall.maxLength \in Nat /\ recvCall.empties \in Nat
      /\ recvCall.received < recvCall.maxLength
  BY LenProperties DEF UdpInv, UdpTypes, RecvCall, Running, Udp!recvfromSome, Udp!trying
<1>2. /\ datagrams' \in Seq(Datagram) /\ gone' = gone + 1 /\ gone \in Int
      /\ \A k \in 1..Len(datagrams') : datagrams'[k].number = gone' + k
      /\ datagrams[1] \in Datagram /\ datagrams[1].number = gone + 1
  BY FirstGone DEF Udp!recvfromSome, Udp!stays
<1>3. /\ datagrams[1].number \in Nat /\ datagrams[1].size \in Nat /\ datagrams[1].size > 0
  BY <1>2 DEF Datagram, Udp!recvfromSome
<1>4. /\ size \in Nat /\ size > 0 /\ size <= datagrams[1].size
      /\ recvCall.received + size <= recvCall.maxLength
      /\ size < datagrams[1].size => recvCall.received + size = recvCall.maxLength
  BY <1>1, <1>3
<1> DEFINE after == [recvCall EXCEPT !.received = recvCall.received + size, !.parts = taken]
<1>5. \/ recvResult' = recvCall.received + size /\ recvCall' = [after EXCEPT !.inLoop = FALSE]
      \/ /\ recvCall.received + size < recvCall.maxLength
         /\ recvCall' = [after EXCEPT !.index = @ + 1] /\ recvResult' = recvResult
  <2>1. ~(recvCall.received + size > recvCall.maxLength)  BY <1>1, <1>4
  <2> HIDE DEF size
  <2>2. part = [number |-> datagrams[1].number, of |-> datagrams[1].size,
                at |-> recvCall.received, size |-> size]
    OBVIOUS
  <2>3. IF recvCall.received + size = recvCall.maxLength
        THEN recvResult' = recvCall.received + size /\ recvCall' = [after EXCEPT !.inLoop = FALSE]
        ELSE recvCall' = [after EXCEPT !.index = @ + 1] /\ recvResult' = recvResult
    BY <2>1, Zenon DEF Udp!recvfromSome, Udp!roomLeft, size
  <2>4. recvCall.received + size \in Nat  BY <1>1, <1>4
  <2> HIDE DEF after
  <2> QED BY <1>1, <1>4, <2>3, <2>4
<1>6. part \in Part
  BY <1>1, <1>3, <1>4 DEF Part
<1> HIDE DEF size, gone
<1>7. /\ taken \in Seq(Part) /\ Len(taken) = n + 1
      /\ \A k \in 1..n : taken[k] = parts[k]
      /\ taken[n + 1] = part
  <2> HIDE DEF part
  <2> QED BY <1>1, <1>6, AppendProperties
<1> HIDE DEF taken
<1>8. /\ recvCall' \in RecvCall
      /\ recvCall'.parts = taken /\ recvCall'.received = recvCall.received + size
      /\ recvCall'.maxLength = recvCall.maxLength /\ recvCall'.empties = recvCall.empties
      /\ recvCall'.waited = recvCall.waited
      /\ \/ ~recvCall'.inLoop /\ recvResult' = recvCall'.received
         \/ recvCall'.inLoop /\ recvResult' = recvResult /\ recvCall'.received < recvCall'.maxLength
  <2> HIDE DEF n, parts
  <2>1. recvCall.received + size \in Nat /\ recvCall.index + 1 \in Nat
    BY <1>1, <1>4 DEF RecvCall
  <2>2. /\ after \in RecvCall /\ after.parts = taken /\ after.received = recvCall.received + size
        /\ after.maxLength = recvCall.maxLength /\ after.empties = recvCall.empties
        /\ after.waited = recvCall.waited /\ after.index = recvCall.index
        /\ after.inLoop = recvCall.inLoop
    BY <1>1, <1>7, <2>1 DEF RecvCall
  <2> HIDE DEF after
  <2>3. CASE recvResult' = recvCall.received + size /\ recvCall' = [after EXCEPT !.inLoop = FALSE]
    BY <2>2, <2>3 DEF RecvCall
  <2>4. CASE /\ recvCall.received + size < recvCall.maxLength
             /\ recvCall' = [after EXCEPT !.index = @ + 1] /\ recvResult' = recvResult
    <3>1. recvCall' = [after EXCEPT !.index = recvCall.index + 1]  BY <2>2, <2>4
    <3>2. recvCall.inLoop  BY DEF Udp!recvfromSome, Udp!trying
    <3> QED BY <2>1, <2>2, <2>4, <3>1, <3>2 DEF RecvCall
  <2> QED BY <1>5, <2>3, <2>4
<1>9. part.number = gone + 1 /\ part.of = datagrams[1].size /\ part.at = recvCall.received
      /\ part.size = size
  BY <1>2
<1> HIDE DEF part
<1>10. recvResult \in Int /\ recvCall.inLoop /\ hasSomething' \in BOOLEAN /\ arrived' \in Nat
  BY DEF UdpInv, UdpTypes, Udp!recvfromSome, Udp!trying, Udp!stays
<1>11. UdpTypes'
  BY <1>1, <1>2, <1>4, <1>8, <1>10 DEF UdpTypes
<1>12. \A k \in 1..n : parts[k].number \in Nat /\ parts[k].size \in Nat
         /\ parts[k].of \in Nat /\ parts[k].at \in Nat
  BY <1>1, PartsTyped
<1>13. /\ n > 0 => parts[n].number <= gone /\ gone - parts[1].number < n + recvCall.empties
       /\ n > 0 => ~(parts[n].size < parts[n].of) /\ parts[n].size <= parts[n].of
  BY <1>1, <1>10 DEF UdpInv, Running, InBuffer
<1>14. n > 0 => n \in 1..n /\ 1 \in 1..n  BY <1>1
<1>15. n > 0 => parts[n].size = parts[n].of
  BY <1>12, <1>13, <1>14
<1>16. recvCall'.received > 0  BY <1>1, <1>4, <1>8
<1>16a. taken[1].number \in Int /\ gone - taken[1].number < n + recvCall.empties
  <2>1. CASE n = 0
    <3>1. taken[1].number = gone + 1  BY <1>7, <1>9, <2>1
    <3>2. \A a, e \in Int : 0 <= e => a - (a + 1) < 0 + e  OBVIOUS
    <3>3. 0 <= recvCall.empties /\ recvCall.empties \in Int  BY <1>1
    <3> QED BY <1>2, <2>1, <3>1, <3>2, <3>3
  <2>2. CASE n > 0
    <3>1. taken[1].number = parts[1].number /\ parts[1].number \in Nat
      BY <1>7, <1>12, <1>14, <2>2
    <3>2. gone - parts[1].number < n + recvCall.empties  BY <1>13, <2>2
    <3> QED BY <3>1, <3>2
  <2> QED BY <1>1, <2>1, <2>2
<1>17. Running'
  <2>2. taken[n + 1].number = gone + 1  BY <1>7, <1>9
  <2>3. gone' - taken[1].number < n + 1 + recvCall.empties
    <3>1. taken[1].number \in Int /\ gone - taken[1].number < n + recvCall.empties
      BY <1>16a
    <3>2. \A a, f, m, e \in Int : a - f < m + e => (a + 1) - f < m + 1 + e
      OBVIOUS
    <3> QED BY <1>1, <1>2, <3>1, <3>2
  <2>4. taken[n + 1].number <= gone'  BY <1>2, <2>2
  <2>5. Len(recvCall'.parts) = n + 1 /\ recvCall'.parts = taken  BY <1>7, <1>8
  <2>6. recvCall'.inLoop => recvCall'.received < recvCall'.maxLength  BY <1>8, <1>10
  <2>7. hasSomething' /\ recvCountAfterSelect' # 0
    BY DEF Udp!recvfromSome, Udp!counted
  <2> HIDE DEF n, parts
  <2> QED BY <1>8, <1>16, <2>3, <2>4, <2>5, <2>6, <2>7 DEF Running
<1>18. Returned'
  BY <1>8, <1>16 DEF Returned
<1>19. InBuffer(recvCall')
  <2>1. \A k \in 1..(n + 1) :
          taken[k].at = IF k = 1 THEN 0 ELSE taken[k - 1].at + taken[k - 1].size
    <3> TAKE k \in 1..(n + 1)
    <3>1. CASE k \in 1..n
      <4>1. parts[k].at = IF k = 1 THEN 0 ELSE parts[k - 1].at + parts[k - 1].size
        BY <3>1 DEF UdpInv, InBuffer
      <4>2. k = 1 \/ k - 1 \in 1..n  BY <1>1, <3>1
      <4> QED BY <1>7, <3>1, <4>1, <4>2
    <3>2. CASE k = n + 1
      <4>1. recvCall.received = IF n = 0 THEN 0 ELSE parts[n].at + parts[n].size
        BY DEF UdpInv, InBuffer
      <4>2. n = 0 \/ (k - 1 = n /\ k # 1)  BY <1>1, <3>2
      <4> QED BY <1>1, <1>7, <1>9, <1>14, <3>2, <4>1, <4>2
    <3> QED BY <1>1, <3>1, <3>2
  <2>2. \A k \in 1..n : taken[k].number < taken[k + 1].number /\ taken[k].size = taken[k].of
    <3> TAKE k \in 1..n
    <3>1. CASE k \in 1..(n - 1)
      <4>1. parts[k].number < parts[k + 1].number /\ parts[k].size = parts[k].of
        BY <3>1 DEF UdpInv, InBuffer
      <4>2. k + 1 \in 1..n  BY <1>1, <3>1
      <4> QED BY <1>7, <4>1, <4>2
    <3>2. CASE k = n
      <4>1. n > 0 /\ n \in 1..n  BY <1>1, <3>2
      <4>2. taken[n].number <= gone /\ taken[n].size = taken[n].of /\ taken[n].number \in Nat
        BY <1>7, <1>12, <1>13, <1>15, <4>1
      <4>3. taken[n + 1].number = gone + 1  BY <1>7, <1>9
      <4> HIDE DEF n
      <4> QED BY <1>2, <3>2, <4>2, <4>3
    <3> QED BY <1>1, <3>1, <3>2
  <2>3. taken[n + 1].number - taken[1].number <= n + recvCall'.empties
    <3>1. taken[n + 1].number = gone + 1 /\ recvCall'.empties = recvCall.empties
      BY <1>7, <1>8, <1>9
    <3>2. taken[1].number \in Int /\ gone - taken[1].number < n + recvCall.empties
      BY <1>16a
    <3>3. \A a, f, m, e \in Int : a - f < m + e => (a + 1) - f <= m + e
      OBVIOUS
    <3> HIDE DEF n
    <3> QED BY <1>1, <1>2, <3>1, <3>2, <3>3
  <2>4. taken[n + 1].size < taken[n + 1].of => recvCall'.received = recvCall'.maxLength
    BY <1>4, <1>7, <1>8, <1>9
  <2>5. taken[n + 1].size <= taken[n + 1].of /\ recvCall'.received <= recvCall'.maxLength
        /\ recvCall'.received = taken[n + 1].at + taken[n + 1].size
    BY <1>4, <1>7, <1>8, <1>9
  <2> HIDE DEF n
  <2>6. (n + 1) - 1 = n /\ n + 1 > 0 /\ n + 1 # 0 /\ Len(recvCall'.parts) = n + 1
    BY <1>1, <1>7, <1>8
  <2> QED BY <1>8, <2>1, <2>2, <2>3, <2>4, <2>5, <2>6 DEF InBuffer
<1> QED BY <1>2, <1>11, <1>17, <1>18, <1>19 DEF UdpInv, InBuffer

\* Every step of the socket keeps all of it.
LEMMA UdpNext ==
  ASSUME UdpInv, Udp!UdpNext
  PROVE  UdpInv'
<1>0. /\ hasSomething \in BOOLEAN /\ datagrams \in Seq(Datagram) /\ arrived \in Nat
      /\ recvCall \in RecvCall /\ recvResult \in Int
      /\ \A k \in 1..Len(datagrams) : datagrams[k].number = gone + k
  BY DEF UdpInv, UdpTypes
<1>1. CASE Udp!bind \/ Udp!send \/ Udp!selectPassed
  <2>1. /\ UNCHANGED <<datagrams, arrived, recvCall, recvResult>> /\ hasSomething' \in BOOLEAN
        /\ ~hasSomething \/ UNCHANGED <<hasSomething, recvCountAfterSelect>>
    BY <1>0, <1>1 DEF Udp!bind, Udp!send, Udp!selectPassed, Udp!stays, Udp!memory
  <2> QED BY <2>1, UdpKept
<1>2. CASE Udp!freeSocket
  <2>1. ~recvCall.inLoop /\ UNCHANGED <<hasSomething, arrived, recvCall, recvResult>>
        /\ datagrams' = <<>>
    BY <1>2 DEF Udp!freeSocket, Udp!canCall, Udp!memory
  <2>2. UdpTypes'  BY <1>0, <2>1, EmptySeq DEF UdpTypes
  <2>3. Running' /\ Returned'  BY <2>1 DEF UdpInv, Running, Returned
  <2>4. InBuffer(recvCall')  BY <2>1 DEF UdpInv, InBuffer
  <2> QED BY <2>1, <2>2, <2>3, <2>4, EmptySeq DEF UdpInv, InBuffer
<1>3. CASE Udp!recv
  <2>1. PICK length \in BufferSize :
          recvCall' = [Udp!noCall EXCEPT !.inLoop = TRUE, !.maxLength = length,
                                         !.waited = datagrams # <<>> /\ datagrams[1].size > 0]
    BY <1>3 DEF Udp!recv
  <2>2. UNCHANGED <<hasSomething, datagrams, arrived, recvResult>>
    BY <1>3 DEF Udp!recv, Udp!memory
  <2> DEFINE waits == datagrams # <<>> /\ datagrams[1].size > 0
  <2>3. waits \in BOOLEAN  OBVIOUS
  <2>4. waits => Len(datagrams) > 0 /\ datagrams[1].size > 0  BY <1>0, EmptySeq, LenProperties
  <2>5. length \in Nat /\ length > 0  BY UdpBounds
  <2> HIDE DEF waits
  <2>6. recvCall' = [inLoop |-> TRUE, index |-> 0, received |-> 0, maxLength |-> length,
                     waited |-> waits, empties |-> 0, dry |-> FALSE, parts |-> <<>>]
    BY <2>1 DEF Udp!noCall, waits
  <2>7. <<>> \in Seq(Part) /\ Len(<<>>) = 0  BY EmptySeq
  <2>8. UdpTypes'  BY <1>0, <2>2, <2>3, <2>5, <2>6, <2>7 DEF UdpTypes, RecvCall
  <2>9. Running'  BY <2>2, <2>4, <2>5, <2>6, <2>7 DEF Running
  <2>10. Returned'  BY <2>6 DEF Returned
  <2>11. InBuffer(recvCall')  BY <2>5, <2>6, <2>7 DEF InBuffer
  <2>12. gone' = gone  BY <2>2 DEF gone
  <2> QED BY <1>0, <2>2, <2>8, <2>9, <2>10, <2>11, <2>12 DEF UdpInv, InBuffer
<1>4. CASE Udp!datagramArrives
  <2>1. PICK size \in DatagramSize :
          datagrams' = Append(datagrams, [number |-> arrived + 1, size |-> size])
    BY <1>4 DEF Udp!datagramArrives
  <2>2. /\ arrived' = arrived + 1
        /\ UNCHANGED <<hasSomething, recvCountAfterSelect, recvCall, recvResult>>
    BY <1>4 DEF Udp!datagramArrives, Udp!memory
  <2>3. [number |-> arrived + 1, size |-> size] \in Datagram
    BY <1>0, UdpBounds DEF Datagram
  <2>4. /\ datagrams' \in Seq(Datagram) /\ Len(datagrams') = Len(datagrams) + 1
        /\ \A k \in 1..Len(datagrams) : datagrams'[k] = datagrams[k]
        /\ datagrams'[Len(datagrams) + 1].number = arrived + 1
        /\ Len(datagrams) \in Nat
    BY <1>0, <2>1, <2>3, AppendProperties, LenProperties
  <2>5. gone' = gone /\ gone + Len(datagrams) + 1 = arrived + 1  BY <1>0, <2>2, <2>4 DEF gone
  <2>6. gone \in Int  BY <1>0, <2>4 DEF gone
  <2> HIDE DEF gone
  <2>7. \A k \in 1..Len(datagrams') : datagrams'[k].number = gone' + k
    <3> TAKE k \in 1..Len(datagrams')
    <3>1. CASE k \in 1..Len(datagrams)
      <4>1. datagrams'[k].number = gone + k  BY <1>0, <2>4, <3>1
      <4> QED BY <2>5, <4>1
    <3>2. CASE k = Len(datagrams) + 1
      <4>1. arrived + 1 = gone + k  BY <2>4, <2>5, <2>6, <3>2
      <4> QED BY <2>4, <2>5, <3>2, <4>1
    <3> QED BY <2>4, <3>1, <3>2
  <2>8. UdpTypes'  BY <1>0, <2>2, <2>4 DEF UdpTypes
  <2>9. Running'
    <3>1. Len(datagrams) > 0 => Len(datagrams') > 0 /\ datagrams'[1] = datagrams[1]
      BY <2>4
    <3> QED BY <2>2, <2>5, <3>1 DEF UdpInv, Running
  <2>10. Returned'  BY <2>2 DEF UdpInv, Returned
  <2>11. InBuffer(recvCall')  BY <2>2 DEF UdpInv, InBuffer
  <2> QED BY <2>7, <2>8, <2>9, <2>10, <2>11 DEF UdpInv, InBuffer
<1>5. CASE Udp!selectTimesOut \/ Udp!recvfromNothing
  <2>1. /\ recvCall.inLoop /\ datagrams = <<>>
        /\ UNCHANGED <<datagrams, arrived, recvResult>>
        /\ \/ Udp!tryAgain /\ UNCHANGED <<hasSomething, recvCountAfterSelect>>
           \/ recvCall' = [recvCall EXCEPT !.index = @ + 1, !.dry = TRUE] /\ hasSomething' = FALSE
    BY <1>5 DEF Udp!selectTimesOut, Udp!recvfromNothing, Udp!trying, Udp!stays, Udp!memory,
                Udp!tryAgain
  <2> QED BY <2>1, UdpTriesAgain
<1>6. CASE Udp!selectError
  <2>1. /\ recvCall.inLoop /\ Udp!returns(-100) /\ UNCHANGED <<datagrams, arrived, hasSomething>>
    BY <1>6 DEF Udp!selectError, Udp!trying, Udp!stays, Udp!memory
  <2>2. recvResult' = -100 /\ Udp!returns(recvResult')  BY <2>1 DEF Udp!returns
  <2>3. gone' = gone  BY <2>1 DEF gone
  <2> QED BY <1>0, <2>1, <2>2, <2>3, UdpReturns
<1>7. CASE Udp!recvfromSome
  BY <1>7, UdpTakes
<1>8. CASE Udp!recvfromEmpty
  <2>1. /\ recvCall.inLoop /\ datagrams # <<>> /\ datagrams[1].size = 0
        /\ datagrams' = Tail(datagrams) /\ arrived' = arrived
    BY <1>8 DEF Udp!recvfromEmpty, Udp!trying, Udp!stays
  <2>2. CASE recvCountAfterSelect = 0
    <3>1. /\ recvCall' = [recvCall EXCEPT !.inLoop = FALSE, !.empties = @ + 1]
          /\ recvResult' = -3 /\ hasSomething' \in BOOLEAN
      BY <1>0, <1>8, <2>2 DEF Udp!recvfromEmpty, Udp!memory, Udp!XXSOCKET_ERROR_CLOSED
    <3> QED BY <2>1, <2>2, <3>1, UdpSkips
  <2>3. CASE recvCountAfterSelect # 0
    BY <1>8, <2>1, <2>3, UdpSkips DEF Udp!recvfromEmpty
  <2> QED BY <2>2, <2>3
<1>9. CASE Udp!recvLoopEnds
  <2>1. /\ recvCall.inLoop /\ recvCall.index = TryTimes /\ Udp!returns(recvCall.received)
        /\ UNCHANGED <<datagrams, arrived, hasSomething>>
    BY <1>9 DEF Udp!recvLoopEnds, Udp!stays, Udp!memory
  <2>2. recvResult' = recvCall.received /\ Udp!returns(recvResult') /\ recvCall.received \in Nat
    BY <1>0, <2>1 DEF Udp!returns, RecvCall
  <2>3. recvCall.waited => recvCall.received # 0
    BY <2>1, UdpBounds DEF UdpInv, Running
  <2>4. gone' = gone  BY <2>1 DEF gone
  <2>5. recvResult' # -3  BY <2>2
  <2> QED BY <1>0, <2>1, <2>2, <2>3, <2>4, <2>5, UdpReturns
<1> QED BY <1>1, <1>2, <1>3, <1>4, <1>5, <1>6, <1>7, <1>8, <1>9 DEF Udp!UdpNext

\* What a call that receives has taken is whole datagrams in order, one behind the other,
\* what waited when it was made is not reported as nothing, and the end of a connection is
\* reported for an empty datagram alone, for a second one when data came before.
THEOREM DatagramsAreSound == Spec => []DatagramsSound
<1>1. Init => UdpInv
  <2> SUFFICES ASSUME Udp!UdpInit PROVE UdpInv
    BY DEF Init
  <2>1. <<>> \in Seq(Part) /\ <<>> \in Seq(Datagram) /\ Len(<<>>) = 0  BY EmptySeq
  <2>2. /\ datagrams = <<>> /\ arrived = 0 /\ hasSomething = FALSE /\ recvResult = 0
        /\ recvCall = [inLoop |-> FALSE, index |-> 0, received |-> 0, maxLength |-> 0,
                       waited |-> FALSE, empties |-> 0, dry |-> FALSE, parts |-> <<>>]
    BY DEF Udp!UdpInit, Udp!noCall
  <2>4. recvCall \in RecvCall  BY <2>1, <2>2 DEF RecvCall
  <2>5. datagrams = <<>> /\ arrived = 0 /\ hasSomething = FALSE /\ recvResult = 0
    BY <2>2
  <2>6. datagrams \in Seq(Datagram)  BY <2>1, <2>5, Zenon
  <2>7. arrived \in Nat /\ recvResult \in Int  BY <2>5
  <2>8. hasSomething \in BOOLEAN  BY <2>5, Zenon
  <2>3. UdpTypes  BY <2>4, <2>6, <2>7, <2>8 DEF UdpTypes
  <2> QED BY <2>1, <2>2, <2>3 DEF UdpInv, Running, Returned, InBuffer
<1>2. UdpInv /\ [Next]_dataVars => UdpInv'
  <2> SUFFICES ASSUME UdpInv, [Next]_dataVars PROVE UdpInv'
    OBVIOUS
  <2>1. CASE Udp!UdpNext
    BY <2>1, UdpNext
  <2>2. CASE UNCHANGED udpVars
    BY <2>2, UdpKept DEF udpVars, UdpInv, UdpTypes
  <2> QED BY <2>1, <2>2 DEF Next, dataVars
<1> QED BY <1>1, <1>2, UdpPromises, PTL DEF Spec

----
\* The pages of ButtonPage

LEMMA PageBounds == /\ Count \subseteq Nat /\ CountPerPage \subseteq Nat
                    /\ PageIndex \subseteq Int /\ Garbage \subseteq Int
  BY DataAssumption

PageInv ==
  /\ pageIndex \in Int /\ pageCount \in Int /\ good \in BOOLEAN
  /\ told # <<>> => told[1] = pageIndex
  /\ good => pageCount >= 0
  /\ Page!PagesSound

LEMMA PagesCounted ==
  ASSUME NEW count \in Nat, NEW perPage \in Nat, perPage # 0
  PROVE  Page!pagesOf(count, perPage) \in Nat
<1>1. count \div perPage \in Nat  OBVIOUS
<1> QED BY <1>1 DEF Page!pagesOf

\* From a page that there is to another: all of it is shown and told.
LEMMA PageShown ==
  ASSUME PageInv, NEW index \in Int, NEW pages \in Int, Page!setPageIndex(index, pages)
  PROVE  /\ pageIndex' \in Int /\ pageCount' = pages
         /\ told' # <<>> => told'[1] = pageIndex'
         /\ pages >= 0 /\ index \in 0..((IF pages = 0 THEN 1 ELSE pages) - 1)
              => Page!PagesSound'
<1>1. pageCount' = pages  BY DEF Page!setPageIndex
<1>2. CASE index > pages
  <2>1. UNCHANGED <<pageIndex, told>>  BY <1>2 DEF Page!setPageIndex
  <2>2. ~(pages >= 0 /\ index \in 0..((IF pages = 0 THEN 1 ELSE pages) - 1))
    BY <1>2
  <2> QED BY <1>1, <2>1, <2>2 DEF PageInv
<1>3. CASE ~(index > pages)
  <2>1. /\ pageIndex' = index
        /\ back' = (index > 0) /\ forward' = Page!hasNext(index, pages)
        /\ label' = Page!shown(index, pages)
        /\ told' = IF pageIndex # index THEN <<index>> ELSE told
    BY <1>3 DEF Page!setPageIndex
  <2>2. told' # <<>> => told'[1] = pageIndex'
    BY <2>1 DEF PageInv
  <2>3. ASSUME pages >= 0, index \in 0..((IF pages = 0 THEN 1 ELSE pages) - 1)
        PROVE  Page!PagesSound'
    <3> DEFINE p == IF pages = 0 THEN 1 ELSE pages
    <3>1. p \in Int /\ p >= 1 /\ index >= 0 /\ index <= p - 1  BY <2>3
    <3>2. label' = [page |-> index + 1, of |-> p]
      BY <2>1, <3>1 DEF Page!shown
    <3>3. forward' <=> index < p - 1
      <4>1. forward' <=> index >= 0 /\ index + 1 < pages
        BY <2>1, Zenon DEF Page!hasNext
      <4>2. index >= 0 /\ index + 1 < pages <=> index < p - 1
        BY <2>3, <3>1
      <4> QED BY <4>1, <4>2
    <3>4. back' <=> index > 0  BY <2>1
    <3>5. index \in 0..(p - 1)  BY <3>1
    <3>6. (IF pageCount' = 0 THEN 1 ELSE pageCount') = p  BY <1>1
    <3> HIDE DEF p
    <3> QED BY <2>1, <2>2, <3>2, <3>3, <3>4, <3>5, <3>6 DEF Page!PagesSound
  <2> QED BY <1>1, <2>1, <2>2, <2>3
<1> QED BY <1>2, <1>3

LEMMA PageNext ==
  ASSUME PageInv, Page!PageNext
  PROVE  PageInv'
<1>0. /\ pageIndex \in Int /\ pageCount \in Int /\ good \in BOOLEAN
      /\ good => pageCount >= 0
  BY DEF PageInv
<1>1. ASSUME NEW c \in Count, NEW n \in CountPerPage, NEW i \in PageIndex, Page!reset(c, n, i)
      PROVE  PageInv'
  <2>1. CASE n = 0
    BY <1>1, <2>1 DEF Page!reset, PageInv, Page!PagesSound
  <2>2. CASE n # 0
    <3> DEFINE pages == Page!pagesOf(c, n)
    <3>1. pages \in Nat /\ i \in Int  BY <2>2, PageBounds, PagesCounted
    <3>2. Page!setPageIndex(i, pages) /\ good' = (i = 0 \/ i \in 0..(pages - 1))
      BY <1>1, <2>2 DEF Page!reset
    <3> HIDE DEF pages
    <3>3. good' \in BOOLEAN /\ (good' <=> i = 0 \/ i \in 0..(pages - 1))  BY <3>2
    <3>4. good' => pages >= 0 /\ i \in 0..((IF pages = 0 THEN 1 ELSE pages) - 1)
      BY <3>1, <3>3
    <3>5. /\ pageIndex' \in Int /\ pageCount' = pages
          /\ told' # <<>> => told'[1] = pageIndex'
          /\ good' => Page!PagesSound'
      BY <3>1, <3>2, <3>4, PageShown
    <3>6. ~good' => Page!PagesSound'  BY DEF Page!PagesSound
    <3> QED BY <3>1, <3>3, <3>5, <3>6 DEF PageInv
  <2> QED BY <2>1, <2>2
<1>2. ASSUME NEW index \in Int, Page!goes(index),
             good => index \in 0..((IF pageCount = 0 THEN 1 ELSE pageCount) - 1)
      PROVE  PageInv'
  <2>1. Page!setPageIndex(index, pageCount) /\ good' = good  BY <1>2 DEF Page!goes
  <2>2. /\ pageIndex' \in Int /\ pageCount' = pageCount
        /\ told' # <<>> => told'[1] = pageIndex'
        /\ good => Page!PagesSound'
    BY <1>0, <1>2, <2>1, PageShown
  <2>3. ~good' => Page!PagesSound'  BY DEF Page!PagesSound
  <2> QED BY <1>0, <2>1, <2>2, <2>3 DEF PageInv
<1>3. good => /\ pageIndex \in 0..((IF pageCount = 0 THEN 1 ELSE pageCount) - 1)
              /\ back <=> pageIndex > 0
              /\ forward <=> pageIndex < (IF pageCount = 0 THEN 1 ELSE pageCount) - 1
  BY DEF PageInv, Page!PagesSound
<1>4. CASE Page!firstPage_onClicked
  <2>1. Page!goes(0) /\ pageCount > 1  BY <1>4 DEF Page!firstPage_onClicked, Page!several
  <2> QED BY <1>0, <1>2, <2>1
<1>5. CASE Page!previousPage_onClicked
  <2>1. Page!goes(pageIndex - 1) /\ pageCount > 1 /\ back
    BY <1>5 DEF Page!previousPage_onClicked, Page!several
  <2>2. pageIndex - 1 \in Int
        /\ (good => pageIndex - 1 \in 0..((IF pageCount = 0 THEN 1 ELSE pageCount) - 1))
    BY <1>0, <1>3, <2>1
  <2> QED BY <1>2, <2>1, <2>2
<1>6. CASE Page!nextPage_onClicked
  <2>1. Page!goes(pageIndex + 1) /\ pageCount > 1 /\ forward
    BY <1>6 DEF Page!nextPage_onClicked, Page!several
  <2>2. pageIndex + 1 \in Int
        /\ (good => pageIndex + 1 \in 0..((IF pageCount = 0 THEN 1 ELSE pageCount) - 1))
    BY <1>0, <1>3, <2>1
  <2> QED BY <1>2, <2>1, <2>2
<1>7. CASE Page!lastPage_onClicked
  <2>1. Page!goes(pageCount - 1) /\ pageCount > 1
    BY <1>7 DEF Page!lastPage_onClicked, Page!several
  <2>2. pageCount - 1 \in Int
        /\ (good => pageCount - 1 \in 0..((IF pageCount = 0 THEN 1 ELSE pageCount) - 1))
    BY <1>0, <2>1
  <2> QED BY <1>2, <2>1, <2>2
<1> QED BY <1>1, <1>4, <1>5, <1>6, <1>7 DEF Page!PageNext

LEMMA PagesInvariance == Spec => []PageInv
<1>1. Init => PageInv
  BY PageBounds DEF Init, QtInit, Page!PageInit, PageInv, Page!PagesSound
<1>2. PageInv /\ [Next]_dataVars => PageInv'
  <2> SUFFICES ASSUME PageInv, [Next]_dataVars PROVE PageInv'
    OBVIOUS
  <2>1. Page!PageNext \/ UNCHANGED pageVars
    BY DEF Next, QtNext, dataVars, qtVars
  <2>2. UNCHANGED pageVars => PageInv'
    BY DEF pageVars, PageInv, Page!PagesSound
  <2> QED BY <2>1, <2>2, PageNext
<1> QED BY <1>1, <1>2, PTL DEF Spec

----
\* The line edit of LineEditShell

LEMMA EditBounds == EditText \subseteq [matches : BOOLEAN, length : Nat] /\ EmptyText \in EditText
  BY DataAssumption

\* What was taken in the strong mode is nothing or matches.
EditInv ==
  /\ weak \in BOOLEAN /\ isMatching \in BOOLEAN
  /\ previousText = text
  /\ strongMatchMode /\ ~weak => text = EmptyText \/ Edit!matches(text)
  /\ ~weak /\ ~strongMatchMode => text = EmptyText

LEMMA EditNext ==
  ASSUME EditInv, Edit!EditNext
  PROVE  EditInv'
<1>1. CASE Edit!configAll
  <2>1. /\ weak' = (weak \/ text # EmptyText)
        /\ UNCHANGED <<text, previousText, isMatching>>
    BY <1>1 DEF Edit!configAll
  <2>2. weak' \in BOOLEAN /\ (~weak' => text = EmptyText)  BY <2>1, Zenon
  <2> QED BY <2>1, <2>2 DEF EditInv
<1>2. ASSUME NEW t \in EditText, Edit!onTextEdited(t)
      PROVE  EditInv'
  <2>1. UNCHANGED <<hasExpression, maxLength, strongMatchMode>> /\ previousText' = text'
    BY <1>2 DEF Edit!onTextEdited, Edit!settings
  <2>2. weak' = (weak \/ ~strongMatchMode)  BY <1>2 DEF Edit!onTextEdited
  <2>3. weak' \in BOOLEAN /\ (~weak' => ~weak /\ strongMatchMode)
    <3>1. weak \in BOOLEAN  BY DEF EditInv
    <3> QED BY <2>2, <3>1, Zenon
  <2>4. CASE strongMatchMode /\ ~Edit!flag(t)
    <3>1. text' = text /\ isMatching' = TRUE
      BY <1>2, <2>4 DEF Edit!onTextEdited, EditInv
    <3>2. Edit!matches(text)' <=> Edit!matches(text)  BY <2>1, <3>1 DEF Edit!matches
    <3> QED BY <2>1, <2>3, <3>1, <3>2 DEF EditInv
  <2>5. CASE ~(strongMatchMode /\ ~Edit!flag(t))
    <3>1. text' = t /\ isMatching' = Edit!flag(t)
      BY <1>2, <2>5 DEF Edit!onTextEdited
    <3>2. isMatching' \in BOOLEAN  BY <3>1, Zenon DEF Edit!flag
    <3>3. strongMatchMode => Edit!matches(t)  BY <2>5 DEF Edit!flag
    <3>4. Edit!matches(text)' <=> Edit!matches(t)  BY <2>1, <3>1 DEF Edit!matches
    <3> QED BY <2>1, <2>3, <3>1, <3>2, <3>3, <3>4 DEF EditInv
  <2> QED BY <2>4, <2>5
<1> QED BY <1>1, <1>2 DEF Edit!EditNext

\* In the strong mode, the edit shows nothing or what matches, and takes what matches when
\* the text before was taken.
EditPromise ==
  /\ strongMatchMode /\ ~weak => text = EmptyText \/ Edit!matches(text)
  /\ \A t \in EditText : strongMatchMode /\ isMatching /\ Edit!matches(t) /\ Edit!onTextEdited(t)
       => text' = t

LEMMA EditPromises ==
  ASSUME EditInv
  PROVE  EditPromise
<1>1. ASSUME NEW t \in EditText,
             strongMatchMode /\ isMatching /\ Edit!matches(t) /\ Edit!onTextEdited(t)
      PROVE  text' = t
  <2>1. Edit!flag(t)  BY <1>1 DEF Edit!flag
  <2> QED BY <1>1, <2>1 DEF Edit!onTextEdited
<1> QED BY <1>1 DEF EditInv, EditPromise

LEMMA EditInvariance == Spec => []EditInv
<1>1. Init => EditInv
  BY DEF Init, QtInit, Edit!EditInit, EditInv
<1>2. EditInv /\ [Next]_dataVars => EditInv'
  <2> SUFFICES ASSUME EditInv, [Next]_dataVars PROVE EditInv'
    OBVIOUS
  <2>1. Edit!EditNext \/ UNCHANGED editVars
    BY DEF Next, QtNext, dataVars, qtVars
  <2>2. UNCHANGED editVars => EditInv'
    BY DEF editVars, EditInv, Edit!matches
  <2> QED BY <2>1, <2>2, EditNext
<1> QED BY <1>1, <1>2, PTL DEF Spec

LEMMA EditsAreSound == Spec => Edit!EditSound
<1>1. EditInv => [EditPromise]_Edit!editVars
  BY EditPromises
<1> QED BY <1>1, EditInvariance, PTL DEF Edit!EditSound, EditPromise

----
\* The combo box of ComboBoxOtherInput

LEMMA ComboBounds == /\ Optionals \subseteq Seq(STRING) /\ Typed \subseteq STRING
                     /\ OtherIndices \subseteq Nat \cup {-1}
  BY DataAssumption

\* With other as the last of several: the edit is shown exactly for that.
ComboInv ==
  /\ optionals \in Seq(STRING) /\ otherIndex \in Nat \cup {-1}
  /\ currentIndex \in -1..(Len(optionals) - 1) /\ isHidden \in BOOLEAN
  /\ optionals # <<>> => currentIndex >= 0
  /\ otherIndex = -1 /\ Len(optionals) > 1 => (~isHidden <=> currentIndex = Len(optionals) - 1)

\* The position of a title, if it is one.
LEMMA TargetFound ==
  ASSUME ComboInv, NEW title
  PROVE  /\ Combo!targetOf(title) \in -1..(Len(optionals) - 1)
         /\ Combo!targetOf(title) # -1 => Combo!titleAt(Combo!targetOf(title)) = title
<1>1. optionals \in Seq(STRING) /\ Len(optionals) \in Nat /\ DOMAIN optionals = 1..Len(optionals)
  BY LenProperties DEF ComboInv
<1>2. CASE ~\E k \in DOMAIN optionals : optionals[k] = title
  BY <1>1, <1>2 DEF Combo!targetOf
<1>3. CASE \E k \in DOMAIN optionals : optionals[k] = title
  <2> DEFINE I == {i \in 1..Len(optionals) : optionals[i] = title}
             least == CHOOSE x \in I : \A y \in I : x <= y
  <2>1. I # {} /\ I \subseteq Nat  BY <1>1, <1>3
  <2>2. \E x \in I : \A y \in I : x <= y
    <3>1. I \in SUBSET (0..Len(optionals))  BY <1>1
    <3> HIDE DEF I
    <3> QED BY <1>1, <2>1, <3>1, Least
  <2>3. least \in I  BY <2>2
  <2>4. Combo!targetOf(title) = least - 1
    BY <1>1, <2>1 DEF Combo!targetOf
  <2> HIDE DEF least
  <2> QED BY <1>1, <2>3, <2>4 DEF Combo!titleAt
<1> QED BY <1>2, <1>3

LEMMA ComboShows ==
  ASSUME ComboInv, NEW index \in -1..(Len(optionals) - 1), index >= 0,
         Combo!setCurrentIndex(index), UNCHANGED <<optionals, otherIndex>>
  PROVE  ComboInv' /\ currentIndex' = index
<1>1. optionals \in Seq(STRING) /\ Len(optionals) \in Nat /\ currentIndex' = index
  BY LenProperties DEF ComboInv, Combo!setCurrentIndex
<1>2. isHidden' \in BOOLEAN
  <2>1. CASE index = currentIndex
    BY <2>1 DEF ComboInv, Combo!setCurrentIndex
  <2>2. CASE index # currentIndex
    <3>1. isHidden' = (index < 0 \/ optionals = <<>> \/ Combo!hides(index, otherIndex, Len(optionals)))
      BY <2>2 DEF Combo!setCurrentIndex
    <3> QED BY <3>1, Zenon
  <2> QED BY <2>1, <2>2
<1>3. otherIndex = -1 /\ Len(optionals) > 1 => (~isHidden' <=> index = Len(optionals) - 1)
  <2> SUFFICES ASSUME otherIndex = -1 /\ Len(optionals) > 1
               PROVE  ~isHidden' <=> index = Len(optionals) - 1
    OBVIOUS
  <2>1. CASE index = currentIndex
    BY <2>1 DEF ComboInv, Combo!setCurrentIndex
  <2>2. CASE index # currentIndex
    <3>1. isHidden' <=> (index < 0 \/ optionals = <<>> \/ Combo!hides(index, otherIndex, Len(optionals)))
      BY <2>2, Zenon DEF Combo!setCurrentIndex
    <3>2. ~(index < 0) /\ optionals # <<>>  BY <1>1, EmptySeq
    <3>3. Combo!hides(index, otherIndex, Len(optionals)) <=> index + 1 # Len(optionals)
      BY <1>1 DEF Combo!hides
    <3> QED BY <1>1, <3>1, <3>2, <3>3
  <2> QED BY <2>1, <2>2
<1> QED BY <1>1, <1>2, <1>3 DEF ComboInv

LEMMA ComboSets ==
  ASSUME ComboInv, NEW title, Combo!setText(title)
  PROVE  ComboInv'
<1>1. optionals \in Seq(STRING) /\ Len(optionals) \in Nat /\ optionals # <<>>
      /\ Len(optionals) > 0 /\ UNCHANGED <<optionals, otherIndex>>
  BY LenProperties, EmptySeq DEF ComboInv, Combo!setText
<1> DEFINE found == Combo!targetOf(title)
<1>2. found \in -1..(Len(optionals) - 1)  BY TargetFound
<1>3. otherIndex \in Nat \cup {-1}  BY DEF ComboInv
<1>4. CASE found = otherIndex
  <2> DEFINE index == IF otherIndex < 0 THEN Len(optionals) - 1 ELSE found
  <2>1. Combo!setCurrentIndex(index)  BY <1>4 DEF Combo!setText
  <2> HIDE DEF found
  <2>2. index \in -1..(Len(optionals) - 1) /\ index >= 0
    BY <1>1, <1>2, <1>3, <1>4
  <2> HIDE DEF index
  <2>3. PICK i \in -1..(Len(optionals) - 1) : i = index  BY <2>2
  <2>4. i >= 0 /\ Combo!setCurrentIndex(i)  BY <2>1, <2>2, <2>3
  <2> QED BY <1>1, <2>4, ComboShows
<1>5. CASE found # otherIndex /\ found = -1
  <2>1. UNCHANGED <<lineEdit, currentIndex, isHidden>>  BY <1>5 DEF Combo!setText
  <2> QED BY <1>1, <2>1 DEF ComboInv
<1>6. CASE found # otherIndex /\ found # -1
  <2>1. Combo!setCurrentIndex(found)  BY <1>6 DEF Combo!setText
  <2> HIDE DEF found
  <2> QED BY <1>1, <1>2, <1>6, <2>1, ComboShows
<1> QED BY <1>4, <1>5, <1>6

LEMMA ComboNext ==
  ASSUME ComboInv, Combo!ComboNext
  PROVE  ComboInv'
<1>0. optionals \in Seq(STRING) /\ Len(optionals) \in Nat
  BY LenProperties DEF ComboInv
<1>1. ASSUME NEW list \in Optionals, NEW other \in OtherIndices, Combo!config(list, other)
      PROVE  ComboInv'
  <2>1. list \in Seq(STRING) /\ other \in Nat \cup {-1} /\ Len(list) \in Nat
        /\ (list = <<>> <=> Len(list) = 0)
    BY ComboBounds, EmptySeq, LenProperties
  <2>2. /\ optionals' = list /\ otherIndex' = other /\ isHidden' = TRUE
        /\ currentIndex' = IF list = <<>> THEN -1 ELSE 0
    BY <1>1 DEF Combo!config
  <2>3. CASE list = <<>>
    <3>1. currentIndex' = -1 /\ Len(list) = 0  BY <2>1, <2>2, <2>3
    <3> QED BY <2>1, <2>2, <2>3, <3>1 DEF ComboInv
  <2>4. CASE list # <<>>
    <3>1. currentIndex' = 0 /\ Len(list) > 0  BY <2>1, <2>2, <2>4
    <3>2. isHidden' = TRUE  BY <2>2
    <3>3. currentIndex' \in -1..(Len(list) - 1) /\ (Len(list) > 1 => currentIndex' # Len(list) - 1)
      <4>1. \A n \in Nat : n > 0 => 0 \in -1..(n - 1) /\ (n > 1 => 0 # n - 1)  OBVIOUS
      <4>2. Len(list) \in Nat  BY <2>1
      <4> QED BY <3>1, <4>1, <4>2
    <3> QED BY <2>1, <2>2, <3>1, <3>2, <3>3 DEF ComboInv
  <2> QED BY <2>3, <2>4
<1>2. ASSUME NEW title \in Typed, Combo!setText(title)
      PROVE  ComboInv'
  BY <1>2, ComboSets
<1>3. ASSUME NEW title \in Typed, Combo!type(title)
      PROVE  ComboInv'
  BY <1>3 DEF Combo!type, ComboInv
<1>4. ASSUME NEW index \in 0..2, Combo!select(index)
      PROVE  ComboInv'
  <2>1. index < Len(optionals) /\ Combo!setCurrentIndex(index) /\ UNCHANGED <<optionals, otherIndex>>
    BY <1>4 DEF Combo!select
  <2>2. index \in -1..(Len(optionals) - 1) /\ index >= 0  BY <1>0, <2>1
  <2> QED BY <2>1, <2>2, ComboShows
<1> QED BY <1>1, <1>2, <1>3, <1>4 DEF Combo!ComboNext

LEMMA ComboPromises ==
  ASSUME ComboInv
  PROVE  Combo!ShowsTheText
<1>0. optionals \in Seq(STRING) /\ Len(optionals) \in Nat
  BY LenProperties DEF ComboInv
<1>1. ASSUME otherIndex = -1 /\ Len(optionals) > 1, NEW title \in Typed,
             Combo!setText(title), Combo!targetOf(title) # Len(optionals) - 1
      PROVE  Combo!getText' = title
  <2> DEFINE found == Combo!targetOf(title)
  <2>1. /\ found \in -1..(Len(optionals) - 1) /\ found # Len(optionals) - 1
        /\ found # -1 => Combo!titleAt(found) = title
    BY <1>1, TargetFound
  <2>2. ComboInv' /\ UNCHANGED <<optionals, otherIndex>>
    BY <1>1, ComboSets DEF Combo!setText
  <2>3. ~isHidden' <=> currentIndex' = Len(optionals) - 1
    BY <1>1, <2>2 DEF ComboInv
  <2>4. CASE found = -1
    <3>1. lineEdit' = title /\ Combo!setCurrentIndex(Len(optionals) - 1)
      BY <1>1, <2>4 DEF Combo!setText, Combo!cleared
    <3>2. currentIndex' = Len(optionals) - 1  BY <3>1 DEF Combo!setCurrentIndex
    <3>3. ~(currentIndex' < 0) /\ ~isHidden'  BY <1>0, <1>1, <2>3, <3>2
    <3> QED BY <3>1, <3>3 DEF Combo!getText
  <2>5. CASE found # -1
    <3>1. Combo!setCurrentIndex(found)
      BY <1>1, <2>5 DEF Combo!setText
    <3>2. currentIndex' = found  BY <3>1 DEF Combo!setCurrentIndex
    <3> HIDE DEF found
    <3>3. ~(currentIndex' < 0) /\ isHidden'  BY <1>0, <2>1, <2>3, <2>5, <3>2
    <3>4. Combo!titleAt(currentIndex)' = Combo!titleAt(found)
      BY <2>2, <3>2 DEF Combo!titleAt
    <3> QED BY <2>1, <2>5, <3>3, <3>4 DEF Combo!getText
  <2> QED BY <2>4, <2>5
<1> QED BY <1>1 DEF ComboInv, Combo!ShowsTheText

LEMMA ComboInvariance == Spec => []ComboInv
<1>1. Init => ComboInv
  BY EmptySeq DEF Init, QtInit, Combo!ComboInit, ComboInv
<1>2. ComboInv /\ [Next]_dataVars => ComboInv'
  <2> SUFFICES ASSUME ComboInv, [Next]_dataVars PROVE ComboInv'
    OBVIOUS
  <2>1. Combo!ComboNext \/ UNCHANGED comboVars
    BY DEF Next, QtNext, dataVars, qtVars
  <2>2. UNCHANGED comboVars => ComboInv'
    BY DEF comboVars, ComboInv
  <2> QED BY <2>1, <2>2, ComboNext
<1> QED BY <1>1, <1>2, PTL DEF Spec

LEMMA CombosAreSound == Spec => Combo!ComboSound
<1>1. ComboInv => [Combo!ShowsTheText]_Combo!comboVars
  BY ComboPromises
<1> QED BY <1>1, ComboInvariance, PTL DEF Combo!ComboSound

----
\* The table of XXtableViewShell

LEMMA ShellBounds == MaxSection \in Nat /\ MaxRow \in Nat
  BY DataAssumption

ShellRows == [foreign : BOOLEAN, of : Seq(Shell!Row)]
ShellSection == [titled : BOOLEAN, hasRows : BOOLEAN, rows : ShellRows]
ShellLabels == [Shell!Text -> Shell!Row \cup {"None"}]
Cells ==
  /\ DOMAIN shown \subseteq Shell!IndexPath(loaded)
  /\ \A p \in DOMAIN shown : shown[p].text \in ShellLabels
  /\ \A cell \in pool : cell.text \in ShellLabels

ShellInv ==
  /\ sectionDatas \in Seq(ShellSection) /\ Len(sectionDatas) <= MaxSection
  /\ shellState \in {"Live", "Exception"} /\ dirty \in BOOLEAN /\ silent \in BOOLEAN
  /\ Cells
  /\ Shell!InStep /\ Shell!ThrowsForAReason

LEMMA PathOf ==
  ASSUME NEW c, NEW p
  PROVE  p \in Shell!IndexPath(c) <=> \E s \in DOMAIN c : \E r \in 1..c[s] : p = <<s, r>>
<1> DEFINE rows(s) == {<<s, r>> : r \in 1..c[s]}
<1>1. Shell!IndexPath(c) = UNION {rows(s) : s \in DOMAIN c}  BY DEF Shell!IndexPath
<1>2. p \in UNION {rows(s) : s \in DOMAIN c} <=> \E s \in DOMAIN c : p \in rows(s)
  <2> HIDE DEF rows
  <2> QED OBVIOUS
<1>3. \A s \in DOMAIN c : p \in rows(s) <=> \E r \in 1..c[s] : p = <<s, r>>
  OBVIOUS
<1> HIDE DEF rows
<1> QED BY <1>1, <1>2, <1>3

LEMMA RowOfPath ==
  ASSUME NEW datas \in Seq(ShellSection), NEW p \in Shell!IndexPath(Shell!counts(datas))
  PROVE  /\ p[1] \in DOMAIN datas /\ p = <<p[1], p[2]>>
         /\ p[2] \in 1..Len(datas[p[1]].rows.of)
         /\ datas[p[1]] \in ShellSection /\ datas[p[1]].rows.of \in Seq(Shell!Row)
         /\ datas[p[1]].rows.of[p[2]] \in Shell!Row
<1>1. PICK s \in DOMAIN datas : \E r \in 1..Len(datas[s].rows.of) : p = <<s, r>>
  BY PathOf DEF Shell!counts
<1>2. PICK r \in 1..Len(datas[s].rows.of) : p = <<s, r>>  BY <1>1
<1>3. datas[s] \in ShellSection
  <2> HIDE DEF ShellSection
  <2> QED BY ElementOfSeq, LenProperties
<1>4. datas[s].rows.of \in Seq(Shell!Row)  BY <1>3 DEF ShellSection, ShellRows
<1>5. datas[s].rows.of[r] \in Shell!Row  BY <1>4, ElementOfSeq
<1> HIDE DEF ShellSection, Shell!Row
<1> QED BY <1>2, <1>3, <1>4, <1>5

LEMMA SectionOf ==
  ASSUME NEW datas \in Seq(ShellSection), NEW s \in DOMAIN datas
  PROVE  /\ s \in 1..Len(datas) /\ Len(datas) \in Nat
         /\ datas[s] \in ShellSection /\ datas[s].rows.of \in Seq(Shell!Row)
         /\ Len(datas[s].rows.of) \in Nat
         /\ DOMAIN datas[s].rows.of = 1..Len(datas[s].rows.of)
<1>1. s \in 1..Len(datas) /\ Len(datas) \in Nat  BY LenProperties
<1>2. datas[s] \in ShellSection
  <2> HIDE DEF ShellSection
  <2> QED BY <1>1, ElementOfSeq
<1>3. datas[s].rows.of \in Seq(Shell!Row)  BY <1>2 DEF ShellSection, ShellRows
<1> QED BY <1>1, <1>2, <1>3, LenProperties

\* TypeOK of the table follows.
LEMMA ShellTyped ==
  ASSUME ShellInv
  PROVE  Shell!TypeOK
<1>1. ASSUME NEW s \in DOMAIN sectionDatas, NEW r \in DOMAIN Shell!rowsOf(s)
      PROVE  Shell!rowsOf(s)[r] \in Shell!Row
  <2>1. /\ sectionDatas[s].rows.of \in Seq(Shell!Row)
        /\ r \in 1..Len(sectionDatas[s].rows.of)
    BY <1>1, SectionOf DEF ShellInv, Shell!rowsOf
  <2> QED BY <2>1, ElementOfSeq DEF Shell!rowsOf
<1>2. /\ DOMAIN shown \subseteq Shell!IndexPath(loaded)
      /\ \A cell \in pool \cup {shown[p] : p \in DOMAIN shown} :
           cell.text \in [Shell!Text -> Shell!Row \cup {Shell!None}]
  BY DEF ShellInv, Cells, ShellLabels, Shell!None
<1> QED BY <1>1, <1>2 DEF ShellInv, Shell!TypeOK

\* A cell that is filled shows the row and posts to its path.
LEMMA Filled ==
  ASSUME NEW cell, cell.text \in ShellLabels, NEW p, NEW row \in Shell!Row
  PROVE  /\ Shell!fill(cell, p, row).text \in ShellLabels
         /\ Shell!fill(cell, p, row).path = Shell!postsTo(p)
         /\ \A k \in Shell!sets(row) : Shell!fill(cell, p, row).text[k] = row
<1>1. Shell!sets(row) \subseteq Shell!Text
  BY DEF Shell!sets, Shell!keysOf, Shell!Text, Shell!Row
<1> DEFINE labels == [k \in Shell!Text |-> IF k \in Shell!sets(row) THEN row ELSE cell.text[k]]
<1>2. Shell!fill(cell, p, row).text = labels /\ Shell!fill(cell, p, row).path = Shell!postsTo(p)
  BY DEF Shell!fill
<1>3. labels \in ShellLabels
  <2> HIDE DEF Shell!Row, Shell!Text
  <2> QED BY DEF ShellLabels
<1>4. \A k \in Shell!sets(row) : labels[k] = row  BY <1>1
<1> QED BY <1>2, <1>3, <1>4

LEMMA NewCellTyped == Shell!NewCell.text \in ShellLabels
BY DEF Shell!NewCell, ShellLabels, Shell!Text, Shell!None

\* What is left off the screen was there, or came from it.
LEMMA KeptTyped ==
  ASSUME Cells, NEW P \in SUBSET DOMAIN shown,
         NEW S \in Shell!kept({shown[p] : p \in P}), NEW cell \in S
  PROVE  cell.text \in ShellLabels
<1>1. cell \in pool \cup {shown[p] : p \in P}  BY DEF Shell!kept
<1> QED BY <1>1 DEF Cells

\* A call that reloads, or leaves the reload to its caller.
LEMMA Reloads ==
  ASSUME ShellInv, shellState = "Live",
         sectionDatas' \in Seq(ShellSection), Len(sectionDatas') <= MaxSection,
         Shell!reloadData \/ Shell!noReload
  PROVE  ShellInv'
<1>1. shellState = "Live" /\ UNCHANGED <<shellState, loaded, shown, pool>>
  BY DEF Shell!reloadData, Shell!noReload, Shell!table
<1>2. dirty' \in BOOLEAN /\ silent' \in BOOLEAN /\ (dirty' \/ silent')
  BY DEF ShellInv, Shell!reloadData, Shell!noReload, Shell!table
<1>3. Cells'  BY <1>1 DEF ShellInv, Cells
<1>4. Shell!InStep' /\ Shell!ThrowsForAReason'
  BY <1>1, <1>2 DEF Shell!InStep, Shell!ThrowsForAReason
<1> HIDE DEF ShellSection, Cells
<1> QED BY <1>1, <1>2, <1>3, <1>4 DEF ShellInv

LEMMA ShellThrows ==
  ASSUME ShellInv, Shell!throws,
         silent \/ dirty \/ \E s \in DOMAIN sectionDatas : Shell!isForeign(s)
  PROVE  ShellInv'
<1>1. shellState' = "Exception" /\ UNCHANGED <<sectionDatas, dirty, loaded, shown, pool, silent>>
  BY DEF Shell!throws, Shell!table
<1>2. Shell!InStep'  BY <1>1 DEF Shell!InStep
<1>3. Shell!ThrowsForAReason'
  BY <1>1 DEF Shell!ThrowsForAReason, Shell!isForeign
<1>4. Cells'  BY <1>1 DEF ShellInv, Cells
<1> HIDE DEF ShellSection, Cells
<1> QED BY <1>1, <1>2, <1>3, <1>4 DEF ShellInv

\* A table in step has a row for each of its paths.
LEMMA InStepHasRows ==
  ASSUME ShellInv, shellState = "Live", ~dirty, ~silent
  PROVE  /\ loaded = Shell!counts(sectionDatas)
         /\ \A p \in Shell!IndexPath(loaded) : Shell!hasRow(p)
         /\ \A p \in DOMAIN shown : Shell!inPlace(p) /\ Shell!hasRow(p)
<1>1. DOMAIN shown \subseteq Shell!IndexPath(loaded)  BY DEF ShellInv, Cells
<1> QED BY <1>1 DEF ShellInv, Shell!InStep, Shell!hasRow

\* An edit of some rows that asks for their cells again.
LEMMA ReloadsSome ==
  ASSUME ShellInv, NEW datas \in Seq(ShellSection), NEW paths,
         shellState = "Live", sectionDatas' = datas, Len(datas) <= MaxSection,
         Shell!reloadSome(paths),
         Shell!counts(datas) = Shell!counts(sectionDatas),
         \A p \in Shell!IndexPath(Shell!counts(datas)) :
           p \notin paths => datas[p[1]].rows.of[p[2]] = Shell!rowAt(p)
  PROVE  ShellInv'
<1>1. /\ sectionDatas' = datas /\ Len(datas) <= MaxSection /\ shellState = "Live"
  OBVIOUS
<1>2. CASE dirty
  <2>1. UNCHANGED <<dirty, loaded, shown, pool, silent, shellState>>
    BY <1>2 DEF Shell!reloadSome, Shell!table
  <2>2. Shell!InStep' /\ Shell!ThrowsForAReason'
    BY <1>1, <1>2, <2>1 DEF Shell!InStep, Shell!ThrowsForAReason
  <2>3. Cells'  BY <2>1 DEF ShellInv, Cells
  <2> HIDE DEF ShellSection, Cells
  <2> QED BY <1>1, <2>1, <2>2, <2>3 DEF ShellInv
<1>3. CASE ~dirty /\ loaded # Shell!counts(datas)
  <2>1. shellState' = "Exception" /\ UNCHANGED <<dirty, loaded, shown, pool, silent>>
    BY <1>1, <1>3 DEF Shell!reloadSome, Shell!table
  <2>2. silent  BY <1>1, <1>3, InStepHasRows DEF ShellInv
  <2>3. Shell!InStep' /\ Shell!ThrowsForAReason'
    BY <2>1, <2>2 DEF Shell!InStep, Shell!ThrowsForAReason
  <2>4. Cells'  BY <2>1 DEF ShellInv, Cells
  <2> HIDE DEF ShellSection, Cells
  <2> QED BY <1>1, <2>1, <2>3, <2>4 DEF ShellInv
<1>4. CASE ~dirty /\ loaded = Shell!counts(datas)
  <2> DEFINE new(p) == datas[p[1]].rows.of[p[2]]
  <2> DEFINE again == DOMAIN shown \cap paths
  <2>1. PICK from \in [again -> pool \cup {Shell!NewCell}] :
          /\ shown' = [p \in DOMAIN shown |-> IF p \in paths THEN Shell!fill(from[p], p, new(p))
                                              ELSE shown[p]]
          /\ pool' \in Shell!kept({shown[p] : p \in again})
          /\ UNCHANGED <<dirty, loaded, rowClass, silent, shellState>>
    BY <1>1, <1>4 DEF Shell!reloadSome
  <2>2. /\ DOMAIN shown \subseteq Shell!IndexPath(loaded) /\ DOMAIN shown' = DOMAIN shown
        /\ \A p \in DOMAIN shown : shown[p].text \in ShellLabels
    BY <2>1 DEF ShellInv, Cells
  <2>3. \A p \in Shell!IndexPath(loaded) : new(p) \in Shell!Row  BY <1>4, RowOfPath
  <2>8. ASSUME NEW p \in again
        PROVE  /\ shown'[p].text \in ShellLabels /\ shown'[p].path = Shell!postsTo(p)
               /\ \A k \in Shell!sets(new(p)) : shown'[p].text[k] = new(p)
    <3>1. from[p].text \in ShellLabels
      <4>1. from[p] \in pool \cup {Shell!NewCell}  BY <2>1
      <4> QED BY <4>1, NewCellTyped DEF ShellInv, Cells
    <3>2. new(p) \in Shell!Row  BY <2>2, <2>3
    <3> HIDE DEF new, Shell!Row, ShellLabels
    <3>3. shown'[p] = Shell!fill(from[p], p, new(p))  BY <2>1
    <3> QED BY <3>1, <3>2, <3>3, Filled
  <2>4. Cells'
    <3>1. ASSUME NEW c \in pool' PROVE c.text \in ShellLabels
      <4>1. again \in SUBSET DOMAIN shown  OBVIOUS
      <4> HIDE DEF again
      <4> QED BY <2>1, <4>1, KeptTyped DEF ShellInv
    <3>2. ASSUME NEW p \in DOMAIN shown PROVE shown'[p].text \in ShellLabels
      <4>1. p \notin paths => shown'[p] = shown[p]  BY <2>1
      <4> QED BY <2>2, <2>8, <4>1
    <3> HIDE DEF ShellLabels
    <3> QED BY <2>1, <2>2, <3>1, <3>2 DEF Cells
  <2>5. ASSUME ~silent, NEW p \in DOMAIN shown
        PROVE  /\ \A k \in Shell!sets(new(p)) : shown'[p].text[k] = new(p)
               /\ shown'[p].path = Shell!postsTo(p)
    <3>1. CASE p \in paths
      <4>1. p \in again  BY <3>1
      <4> HIDE DEF again
      <4> QED BY <2>8, <4>1
    <3>2. CASE p \notin paths
      <4>1. Shell!inPlace(p)  BY <1>1, <1>4, <2>5, InStepHasRows
      <4>2. shown'[p] = shown[p] /\ new(p) = Shell!rowAt(p)  BY <1>4, <2>1, <2>2, <3>2
      <4> HIDE DEF new
      <4> QED BY <4>1, <4>2 DEF Shell!inPlace
    <3> QED BY <3>1, <3>2
  <2>6. Shell!InStep'
    <3>1. ASSUME ~silent, NEW p \in DOMAIN shown PROVE Shell!inPlace(p)'
      <4>1. Shell!rowAt(p)' = new(p)  BY <1>1 DEF Shell!rowAt, Shell!rowsOf
      <4>2. rowClass' = rowClass  BY <2>1
      <4> HIDE DEF new
      <4> QED BY <2>5, <3>1, <4>1, <4>2 DEF Shell!inPlace, Shell!sets, Shell!postsTo
    <3>2. Shell!counts(sectionDatas)' = Shell!counts(datas)  BY <1>1 DEF Shell!counts
    <3> HIDE DEF Shell!inPlace
    <3> QED BY <1>4, <2>1, <2>2, <3>1, <3>2 DEF Shell!InStep
  <2>7. Shell!ThrowsForAReason'  BY <1>1, <2>1 DEF Shell!ThrowsForAReason
  <2> HIDE DEF ShellSection, Cells
  <2> QED BY <1>1, <2>1, <2>4, <2>6, <2>7 DEF ShellInv
<1> QED BY <1>1, <1>2, <1>3, <1>4 DEF ShellInv

\* Sections and rows as calls give and leave them.
LEMMA SectionsMade ==
  /\ Shell!Rows \subseteq Seq(Shell!Row) /\ Shell!Section \subseteq ShellSection
  /\ Shell!BlockSection \subseteq ShellSection
<1>1. ASSUME NEW S \in SUBSET Shell!Row, NEW rows \in Shell!rowsOfAny(S)
      PROVE  rows \in Seq(Shell!Row)
  <2>1. PICK n \in 0..MaxRow : rows \in [1..n -> S]  BY DEF Shell!rowsOfAny
  <2>2. n \in Nat /\ rows \in [1..n -> Shell!Row]
    <3> HIDE DEF Shell!Row
    <3> QED BY <2>1, ShellBounds
  <2> QED BY <2>2, FunctionIsSeq
<1>2. ASSUME NEW S \in SUBSET Seq(Shell!Row), NEW x \in Shell!withRows(S)
      PROVE  x \in ShellSection
  <2> HIDE DEF Shell!Row
  <2> QED BY DEF Shell!withRows, ShellSection, ShellRows
<1>3. Shell!Rows \subseteq Seq(Shell!Row)
  <2>1. {"String", "Dictionary"} \in SUBSET Shell!Row  BY DEF Shell!Row
  <2> QED BY <1>1, <2>1 DEF Shell!Rows
<1>4. Shell!rowsOfAny({"Keys"}) \subseteq Seq(Shell!Row)
  <2>1. {"Keys"} \in SUBSET Shell!Row  BY DEF Shell!Row
  <2> QED BY <1>1, <2>1
<1>5. [titled : BOOLEAN, hasRows : {FALSE}, rows : {Shell!NoRows}] \subseteq ShellSection
  <2>1. Shell!NoRows \in ShellRows  BY EmptySeq DEF Shell!NoRows, Shell!own, ShellRows
  <2> HIDE DEF ShellRows
  <2> QED BY <2>1 DEF ShellSection
<1> HIDE DEF ShellSection
<1>6. Shell!Section \subseteq ShellSection  BY <1>2, <1>3, <1>5 DEF Shell!Section
<1>7. Shell!BlockSection \subseteq ShellSection  BY <1>2, <1>4 DEF Shell!BlockSection
<1> QED BY <1>3, <1>6, <1>7

LEMMA OneInserted ==
  ASSUME NEW S, NEW s \in Seq(S), NEW e \in S, NEW i \in 1..Len(s)
  PROVE  Shell!InsertAt(s, i, e) \in Seq(S)
<1>1. Len(s) \in Nat /\ \A j \in 1..Len(s) : s[j] \in S  BY LenProperties, ElementOfSeq
<1>2. SubSeq(s, 1, i - 1) \in Seq(S)
  <2>1. i - 1 \in Int /\ \A j \in 1..(i - 1) : s[j] \in S  BY <1>1
  <2> QED BY <2>1, SubSeqProperties
<1>3. SubSeq(s, i, Len(s)) \in Seq(S)
  <2>1. i \in Int /\ Len(s) \in Int /\ \A j \in i..Len(s) : s[j] \in S  BY <1>1
  <2> QED BY <2>1, SubSeqProperties
<1>4. <<e>> \in Seq(S)  OBVIOUS
<1>5. SubSeq(s, 1, i - 1) \o <<e>> \in Seq(S)  BY <1>2, <1>4, ConcatProperties
<1>6. (SubSeq(s, 1, i - 1) \o <<e>>) \o SubSeq(s, i, Len(s)) \in Seq(S)
  BY <1>3, <1>5, ConcatProperties
<1> QED BY <1>6, Zenon DEF Shell!InsertAt

\* A sequence without one of its elements.
LEMMA Without ==
  ASSUME NEW S, NEW s \in Seq(S), NEW j \in 1..Len(s)
  PROVE  /\ Shell!RemoveAt(s, j) \in Seq(S)
         /\ Len(Shell!RemoveAt(s, j)) = Len(s) - 1
         /\ \A i \in 1..Len(s) - 1 : Shell!RemoveAt(s, j)[i] = IF i < j THEN s[i] ELSE s[i + 1]
<1>0. Len(s) \in Nat /\ \A i \in 1..Len(s) : s[i] \in S  BY LenProperties, ElementOfSeq
<1> DEFINE a == SubSeq(s, 1, j - 1)
           b == SubSeq(s, j + 1, Len(s))
<1>1. a \in Seq(S) /\ Len(a) = j - 1 /\ \A i \in 1..j - 1 : a[i] = s[i]
  <2>1. j - 1 \in Int /\ \A i \in 1..j - 1 : s[i] \in S  BY <1>0
  <2>2. /\ a \in Seq(S) /\ Len(a) = IF 1 <= j - 1 THEN j - 1 - 1 + 1 ELSE 0
        /\ \A i \in 1..j - 1 - 1 + 1 : a[i] = s[1 + i - 1]
    BY <2>1, SubSeqProperties
  <2> HIDE DEF a
  <2> QED BY <1>0, <2>2
<1>2. b \in Seq(S) /\ Len(b) = Len(s) - j /\ \A i \in 1..Len(s) - j : b[i] = s[j + i]
  <2>1. j + 1 \in Int /\ Len(s) \in Int /\ \A i \in j + 1..Len(s) : s[i] \in S  BY <1>0
  <2>2. /\ b \in Seq(S) /\ Len(b) = IF j + 1 <= Len(s) THEN Len(s) - (j + 1) + 1 ELSE 0
        /\ \A i \in 1..Len(s) - (j + 1) + 1 : b[i] = s[j + 1 + i - 1]
    BY <2>1, SubSeqProperties
  <2> HIDE DEF b
  <2> QED BY <1>0, <2>2
<1>3. /\ a \o b \in Seq(S) /\ Len(a \o b) = Len(a) + Len(b)
      /\ \A i \in 1..Len(a) + Len(b) : (a \o b)[i] = IF i <= Len(a) THEN a[i] ELSE b[i - Len(a)]
  <2> HIDE DEF a, b
  <2> QED BY <1>1, <1>2, ConcatProperties
<1>4. Shell!RemoveAt(s, j) = a \o b  BY Zenon DEF Shell!RemoveAt
<1> HIDE DEF a, b
<1>5. ASSUME NEW i \in 1..Len(s) - 1
      PROVE  (a \o b)[i] = IF i < j THEN s[i] ELSE s[i + 1]
  <2>1. CASE i < j
    <3>1. (a \o b)[i] = a[i] /\ a[i] = s[i]  BY <1>0, <1>1, <1>2, <1>3, <2>1
    <3> QED BY <2>1, <3>1
  <2>2. CASE ~(i < j)
    <3>1. (a \o b)[i] = b[i - (j - 1)]  BY <1>0, <1>1, <1>2, <1>3, <2>2
    <3>2. i - (j - 1) \in 1..Len(s) - j /\ j + (i - (j - 1)) = i + 1  BY <1>0, <2>2
    <3> QED BY <1>2, <2>2, <3>1, <3>2
  <2> QED BY <2>1, <2>2
<1>6. Len(a \o b) = Len(s) - 1  BY <1>0, <1>1, <1>2, <1>3
<1> QED BY <1>3, <1>4, <1>5, <1>6

LEMMA SectionReplaced ==
  ASSUME NEW datas \in Seq(ShellSection), NEW s \in DOMAIN datas, NEW d \in ShellSection
  PROVE  /\ [datas EXCEPT ![s] = d] \in Seq(ShellSection)
         /\ Len([datas EXCEPT ![s] = d]) = Len(datas)
         /\ DOMAIN [datas EXCEPT ![s] = d] = DOMAIN datas
         /\ [datas EXCEPT ![s] = d][s] = d
         /\ \A t \in DOMAIN datas : t # s => [datas EXCEPT ![s] = d][t] = datas[t]
<1> HIDE DEF ShellSection
<1> QED BY ExceptSeq, LenProperties

\* Other rows for a section, and their counts.
LEMMA RowsReplaced ==
  ASSUME NEW datas \in Seq(ShellSection), NEW s \in DOMAIN datas, NEW rows \in Seq(Shell!Row)
  PROVE  LET new == [datas EXCEPT ![s].rows.of = rows]
         IN /\ new \in Seq(ShellSection) /\ DOMAIN new = DOMAIN datas
            /\ Len(new) = Len(datas)
            /\ new[s].rows.of = rows
            /\ \A t \in DOMAIN datas : t # s => new[t] = datas[t]
            /\ Len(rows) = Len(datas[s].rows.of) => Shell!counts(new) = Shell!counts(datas)
<1> DEFINE new == [datas EXCEPT ![s].rows.of = rows]
           d == [titled |-> datas[s].titled, hasRows |-> datas[s].hasRows,
                 rows |-> [foreign |-> datas[s].rows.foreign, of |-> rows]]
<1>1. datas[s] \in ShellSection  BY SectionOf
<1>2. d \in ShellSection /\ d.rows.of = rows  BY <1>1 DEF ShellSection, ShellRows
<1>3. new = [datas EXCEPT ![s] = d]
  <2>1. /\ datas[s] = [titled |-> datas[s].titled, hasRows |-> datas[s].hasRows,
                       rows |-> datas[s].rows]
        /\ datas[s].rows = [foreign |-> datas[s].rows.foreign, of |-> datas[s].rows.of]
    BY <1>1 DEF ShellSection, ShellRows
  <2>2. [datas[s] EXCEPT !.rows.of = rows] = d  BY <2>1
  <2>3. new = [datas EXCEPT ![s] = [datas[s] EXCEPT !.rows.of = rows]]  OBVIOUS
  <2> QED BY <2>2, <2>3
<1> HIDE DEF new, d
<1>4. /\ new \in Seq(ShellSection) /\ DOMAIN new = DOMAIN datas /\ Len(new) = Len(datas)
      /\ new[s] = d /\ \A t \in DOMAIN datas : t # s => new[t] = datas[t]
  BY <1>2, <1>3, SectionReplaced
<1>5. Len(rows) = Len(datas[s].rows.of) => Shell!counts(new) = Shell!counts(datas)
  <2>1. ASSUME Len(rows) = Len(datas[s].rows.of), NEW t \in DOMAIN datas
        PROVE  Len(new[t].rows.of) = Len(datas[t].rows.of)
    BY <1>2, <1>4, <2>1
  <2> QED BY <1>4, <2>1 DEF Shell!counts
<1> QED BY <1>2, <1>4, <1>5 DEF new

\* Sections that come, go or change.
LEMMA ShellEditsSections ==
  ASSUME ShellInv,
         \/ \E new \in Shell!Section : Shell!addSection(new) \/ Shell!configSection(new)
         \/ \E new \in Shell!Section, s \in DOMAIN sectionDatas : Shell!insertSection(new, s)
         \/ \E all \in {<<>>} \cup {<<x>> : x \in Shell!BlockSection} :
              Shell!configDataUsingBlock(all)
         \/ Shell!removeAllSections \/ Shell!configFinished
         \/ \E s \in DOMAIN sectionDatas :
              \/ Shell!removeSection(s) \/ Shell!removeSectionHeader(s)
              \/ \E new \in Shell!Section : Shell!setSection(s, new)
  PROVE  ShellInv'
<1> USE DEF Shell!edit
<1>0. /\ sectionDatas \in Seq(ShellSection) /\ Len(sectionDatas) <= MaxSection
      /\ DOMAIN sectionDatas = 1..Len(sectionDatas)
  BY LenProperties DEF ShellInv
<1> HIDE DEF ShellSection
<1>1. ASSUME NEW new \in Shell!Section, Shell!addSection(new) \/ Shell!configSection(new)
      PROVE  ShellInv'
  <2>1. Append(sectionDatas, new) \in Seq(ShellSection)  BY <1>0, SectionsMade, AppendProperties
  <2> QED BY <1>1, <2>1, Reloads DEF Shell!addSection, Shell!configSection
<1>2. ASSUME NEW new \in Shell!Section, NEW s \in DOMAIN sectionDatas, Shell!insertSection(new, s)
      PROVE  ShellInv'
  <2>1. Shell!InsertAt(sectionDatas, s, new) \in Seq(ShellSection)
    BY <1>0, SectionsMade, OneInserted
  <2> QED BY <1>2, <2>1, Reloads DEF Shell!insertSection
<1>3. ASSUME NEW all \in {<<>>} \cup {<<x>> : x \in Shell!BlockSection},
             Shell!configDataUsingBlock(all)
      PROVE  ShellInv'
  <2>1. all \in Seq(ShellSection)
    <3>1. CASE all = <<>>  BY <3>1, EmptySeq
    <3>2. CASE all # <<>>
      <4>1. PICK x \in ShellSection : all = <<x>>  BY <3>2, SectionsMade
      <4> QED BY <4>1
    <3> QED BY <3>1, <3>2
  <2> QED BY <1>3, <2>1, Reloads DEF Shell!configDataUsingBlock
<1>4. CASE Shell!removeAllSections
  <2>1. <<>> \in Seq(ShellSection)  BY EmptySeq
  <2> QED BY <1>4, <2>1, Reloads DEF Shell!removeAllSections
<1>5. CASE Shell!configFinished
  BY <1>0, <1>5, Reloads DEF Shell!configFinished
<1>6. ASSUME NEW s \in DOMAIN sectionDatas, Shell!removeSection(s)
      PROVE  ShellInv'
  <2>1. Shell!RemoveAt(sectionDatas, s) \in Seq(ShellSection)  BY <1>0, Without
  <2> QED BY <1>6, <2>1, Reloads DEF Shell!removeSection
<1>7. ASSUME NEW s \in DOMAIN sectionDatas, Shell!removeSectionHeader(s)
      PROVE  ShellInv'
  <2>0. PICK titled \in BOOLEAN : sectionDatas' = [sectionDatas EXCEPT ![s].titled = titled]
    <3>1. sectionDatas[s] \in ShellSection  BY <1>0, SectionOf
    <3> QED BY <1>7, <3>1 DEF Shell!removeSectionHeader, ShellSection
  <2>1. [sectionDatas EXCEPT ![s].titled = titled] \in Seq(ShellSection)
    <3> DEFINE d == [sectionDatas[s] EXCEPT !.titled = titled]
    <3>1. sectionDatas[s] \in ShellSection  BY <1>0, SectionOf
    <3>2. d \in ShellSection  BY <3>1 DEF ShellSection
    <3>3. [sectionDatas EXCEPT ![s].titled = titled] = [sectionDatas EXCEPT ![s] = d]
      OBVIOUS
    <3> HIDE DEF d
    <3> QED BY <1>0, <3>2, <3>3, SectionReplaced
  <2> QED BY <1>7, <2>0, <2>1, Reloads DEF Shell!removeSectionHeader
<1>8. ASSUME NEW s \in DOMAIN sectionDatas, NEW new \in Shell!Section, Shell!setSection(s, new)
      PROVE  ShellInv'
  <2> DEFINE d == [new EXCEPT !.rows.foreign = new.hasRows]
  <2>1. d \in ShellSection
    <3>1. new \in ShellSection  BY SectionsMade
    <3>2. /\ new.titled \in BOOLEAN /\ new.hasRows \in BOOLEAN /\ new.rows.of \in Seq(Shell!Row)
          /\ new = [titled |-> new.titled, hasRows |-> new.hasRows, rows |-> new.rows]
          /\ new.rows = [foreign |-> new.rows.foreign, of |-> new.rows.of]
      BY <3>1 DEF ShellSection, ShellRows
    <3>3. d = [titled |-> new.titled, hasRows |-> new.hasRows,
               rows |-> [foreign |-> new.hasRows, of |-> new.rows.of]]
      BY <3>2
    <3> QED BY <3>2, <3>3 DEF ShellSection, ShellRows
  <2> HIDE DEF d
  <2>2. [sectionDatas EXCEPT ![s] = d] \in Seq(ShellSection)  BY <1>0, <2>1, SectionReplaced
  <2>3. sectionDatas' = [sectionDatas EXCEPT ![s] = d]  BY <1>8 DEF Shell!setSection, d
  <2> QED BY <1>8, <2>2, <2>3, Reloads DEF Shell!setSection
<1> QED BY <1>1, <1>2, <1>3, <1>4, <1>5, <1>6, <1>7, <1>8

LEMMA SectionEmptied ==
  ASSUME NEW x \in ShellSection, NEW h \in BOOLEAN, NEW rows \in ShellRows
  PROVE  /\ [x EXCEPT !.hasRows = h] = [titled |-> x.titled, hasRows |-> h, rows |-> x.rows]
         /\ [[x EXCEPT !.hasRows = h] EXCEPT !.rows = rows]
              = [titled |-> x.titled, hasRows |-> h, rows |-> rows]
<1>1. x = [titled |-> x.titled, hasRows |-> x.hasRows, rows |-> x.rows]  BY DEF ShellSection
<1>2. [x EXCEPT !.hasRows = h] = [titled |-> x.titled, hasRows |-> h, rows |-> x.rows]
  BY <1>1
<1> DEFINE y == [titled |-> x.titled, hasRows |-> h, rows |-> x.rows]
<1>3. [y EXCEPT !.rows = rows] = [titled |-> x.titled, hasRows |-> h, rows |-> rows]
  OBVIOUS
<1> HIDE DEF y
<1>4. [x EXCEPT !.hasRows = h] = y  BY <1>2 DEF y
<1> QED BY <1>2, <1>3, <1>4

\* A section once its rows and their key are gone.
rowless(s) == Shell!section(sectionDatas[s].titled, FALSE, Shell!NoRows)

LEMMA Rowless ==
  ASSUME sectionDatas \in Seq(ShellSection), NEW s \in DOMAIN sectionDatas
  PROVE  /\ rowless(s) \in ShellSection
         /\ [sectionDatas EXCEPT ![s].hasRows = FALSE, ![s].rows = Shell!NoRows]
              = [sectionDatas EXCEPT ![s] = rowless(s)]
<1> DEFINE d == [titled |-> sectionDatas[s].titled, hasRows |-> FALSE, rows |-> Shell!NoRows]
           new == [sectionDatas EXCEPT ![s].hasRows = FALSE, ![s].rows = Shell!NoRows]
<1>0. Shell!NoRows \in ShellRows  BY EmptySeq DEF Shell!NoRows, Shell!own, ShellRows
<1>1. sectionDatas[s] \in ShellSection  BY SectionOf
<1>2. d \in ShellSection
  <2> HIDE DEF ShellRows
  <2> QED BY <1>0, <1>1 DEF ShellSection
<1>3. new = [sectionDatas EXCEPT ![s] = d]
  <2>1. [[sectionDatas[s] EXCEPT !.hasRows = FALSE] EXCEPT !.rows = Shell!NoRows] = d
    <3>1. PICK x \in ShellSection : x = sectionDatas[s]  BY <1>1
    <3>2. PICK rows \in ShellRows : rows = Shell!NoRows  BY <1>0
    <3>3. [[x EXCEPT !.hasRows = FALSE] EXCEPT !.rows = rows]
            = [titled |-> x.titled, hasRows |-> FALSE, rows |-> rows]
      BY SectionEmptied
    <3> QED BY <3>1, <3>2, <3>3
  <2> HIDE DEF d
  <2>2. new = [sectionDatas EXCEPT
                 ![s] = [[sectionDatas[s] EXCEPT !.hasRows = FALSE] EXCEPT !.rows = Shell!NoRows]]
    BY LenProperties
  <2> QED BY <2>1, <2>2
<1>4. rowless(s) = d  BY Zenon DEF rowless, Shell!section
<1> HIDE DEF d
<1> QED BY <1>2, <1>3, <1>4

\* What is left when a section has lost its rows.
LEMMA RowsLost ==
  ASSUME sectionDatas \in Seq(ShellSection), NEW s \in DOMAIN sectionDatas
  PROVE  Shell!removeRows(s) \in Seq(ShellSection)
<1> DEFINE d == rowless(s)
           new == [sectionDatas EXCEPT ![s].hasRows = FALSE, ![s].rows = Shell!NoRows]
<1>2. d \in ShellSection  BY Rowless
<1>3. new = [sectionDatas EXCEPT ![s] = d]  BY Rowless
<1> HIDE DEF new, d
<1>4. new \in Seq(ShellSection)  BY <1>2, <1>3, SectionReplaced
<1>5. Shell!dropEmptied(new) \in Seq(ShellSection)
  <2> DEFINE I == {t \in DOMAIN new : new[t] # Shell!emptySection}
  <2>1. I \in SUBSET (1..Len(new))  BY <1>4, LenProperties
  <2>2. Shell!dropEmptied(new) = Shell!picked(new, I)  BY DEF Shell!dropEmptied
  <2> HIDE DEF I, ShellSection
  <2>3. Shell!picked(new, I) = Sql!picked(new, I)
    BY Zenon DEF Shell!picked, Sql!picked, Shell!Cardinality, Sql!Cardinality
  <2>4. Sql!picked(new, I) \in Seq(ShellSection)
    <3>1. PICK datas \in Seq(ShellSection) : datas = new  BY <1>4
    <3>2. PICK J \in SUBSET (1..Len(datas)) : J = I  BY <2>1, <3>1
    <3>3. Sql!picked(datas, J) \in Seq(ShellSection)  BY Picked
    <3> QED BY <3>1, <3>2, <3>3
  <2> QED BY <2>2, <2>3, <2>4
<1>6. Shell!removeRows(s) = IF new[s] = Shell!emptySection THEN Shell!dropEmptied(new) ELSE new
  BY DEF Shell!removeRows, new
<1> QED BY <1>4, <1>5, <1>6

LEMMA RowsUpdated ==
  ASSUME NEW rows \in Seq(Shell!Row), NEW P
  PROVE  /\ [r \in DOMAIN rows |-> IF r \in P THEN Shell!updated(rows[r]) ELSE rows[r]]
              \in Seq(Shell!Row)
         /\ Len([r \in DOMAIN rows |-> IF r \in P THEN Shell!updated(rows[r]) ELSE rows[r]])
              = Len(rows)
<1>1. Len(rows) \in Nat /\ DOMAIN rows = 1..Len(rows)  BY LenProperties
<1>2. \A r \in 1..Len(rows) : rows[r] \in Shell!Row /\ Shell!updated(rows[r]) \in Shell!Row
  <2>1. \A r \in 1..Len(rows) : rows[r] \in Shell!Row  BY ElementOfSeq
  <2> QED BY <2>1 DEF Shell!updated, Shell!Row
<1> DEFINE new == [r \in DOMAIN rows |-> IF r \in P THEN Shell!updated(rows[r]) ELSE rows[r]]
<1>3. new \in [1..Len(rows) -> Shell!Row]
  <2> HIDE DEF Shell!Row
  <2> QED BY <1>1, <1>2
<1> HIDE DEF new
<1>4. new \in Seq(Shell!Row) /\ Len(new) = Len(rows)  BY <1>1, <1>3, FunctionIsSeq
<1> QED BY <1>4 DEF new

LEMMA RowsGiven ==
  ASSUME sectionDatas \in Seq(ShellSection), NEW rows \in Seq(Shell!Row)
  PROVE  /\ Append(sectionDatas, Shell!section(FALSE, TRUE, Shell!own(rows))) \in Seq(ShellSection)
         /\ \A s \in DOMAIN sectionDatas :
              /\ [sectionDatas EXCEPT ![s].hasRows = TRUE, ![s].rows = Shell!own(rows)]
                   \in Seq(ShellSection)
              /\ [sectionDatas EXCEPT ![s].hasRows = TRUE, ![s].rows.of = @ \o rows]
                   \in Seq(ShellSection)
<1>1. Shell!own(rows) \in ShellRows  BY DEF Shell!own, ShellRows
<1>2. Append(sectionDatas, Shell!section(FALSE, TRUE, Shell!own(rows))) \in Seq(ShellSection)
  <2>1. Shell!section(FALSE, TRUE, Shell!own(rows)) \in ShellSection
    <3> HIDE DEF ShellRows
    <3> QED BY <1>1 DEF Shell!section, ShellSection
  <2> HIDE DEF ShellSection
  <2> QED BY <2>1, AppendProperties
<1>3. ASSUME NEW s \in DOMAIN sectionDatas
      PROVE  /\ [sectionDatas EXCEPT ![s].hasRows = TRUE, ![s].rows = Shell!own(rows)]
                  \in Seq(ShellSection)
             /\ [sectionDatas EXCEPT ![s].hasRows = TRUE, ![s].rows.of = @ \o rows]
                  \in Seq(ShellSection)
  <2>1. PICK x \in ShellSection : x = sectionDatas[s]  BY SectionOf
  <2>2. x.titled \in BOOLEAN /\ x.rows \in ShellRows  BY DEF ShellSection
  <2>3. [sectionDatas EXCEPT ![s].hasRows = TRUE, ![s].rows = Shell!own(rows)] \in Seq(ShellSection)
    <3> DEFINE d == [titled |-> x.titled, hasRows |-> TRUE, rows |-> Shell!own(rows)]
    <3>1. PICK own \in ShellRows : own = Shell!own(rows)  BY <1>1
    <3>2. [[x EXCEPT !.hasRows = TRUE] EXCEPT !.rows = own]
            = [titled |-> x.titled, hasRows |-> TRUE, rows |-> own]
      BY SectionEmptied
    <3>3. d \in ShellSection
      <4> HIDE DEF ShellRows
      <4> QED BY <1>1, <2>2 DEF ShellSection
    <3>4. [[x EXCEPT !.hasRows = TRUE] EXCEPT !.rows = Shell!own(rows)] = d  BY <3>1, <3>2
    <3> HIDE DEF d
    <3>5. [sectionDatas EXCEPT ![s].hasRows = TRUE, ![s].rows = Shell!own(rows)]
            = [sectionDatas EXCEPT
                 ![s] = [[sectionDatas[s] EXCEPT !.hasRows = TRUE] EXCEPT !.rows = Shell!own(rows)]]
      BY LenProperties
    <3> QED BY <2>1, <3>3, <3>4, <3>5, SectionReplaced
  <2>4. [sectionDatas EXCEPT ![s].hasRows = TRUE, ![s].rows.of = @ \o rows] \in Seq(ShellSection)
    <3> DEFINE d == [titled |-> x.titled, hasRows |-> TRUE, rows |-> x.rows]
               a == [sectionDatas EXCEPT ![s] = d]
    <3>1. d \in ShellSection
      <4> HIDE DEF ShellRows
      <4> QED BY <2>2 DEF ShellSection
    <3>2. [x EXCEPT !.hasRows = TRUE] = d
      BY <2>2, SectionEmptied
    <3> HIDE DEF d
    <3>3. a \in Seq(ShellSection) /\ DOMAIN a = DOMAIN sectionDatas /\ a[s] = d
      BY <3>1, SectionReplaced
    <3>4. a = [sectionDatas EXCEPT ![s].hasRows = TRUE]  BY <2>1, <3>2
    <3>5. d.rows.of \o rows \in Seq(Shell!Row)
      <4>1. d.rows.of \in Seq(Shell!Row)  BY <3>1 DEF ShellSection, ShellRows
      <4> HIDE DEF Shell!Row
      <4> QED BY <4>1, ConcatProperties
    <3>6. [a EXCEPT ![s].rows.of = d.rows.of \o rows] \in Seq(ShellSection)
      <4>1. PICK datas \in Seq(ShellSection) : datas = a  BY <3>3
      <4>2. PICK of \in Seq(Shell!Row) : of = d.rows.of \o rows  BY <3>5
      <4> HIDE DEF a, ShellSection
      <4>3. [datas EXCEPT ![s].rows.of = of] \in Seq(ShellSection)
        BY <3>3, <4>1, RowsReplaced
      <4> QED BY <4>1, <4>2, <4>3
    <3>7. [sectionDatas EXCEPT ![s].hasRows = TRUE, ![s].rows.of = @ \o rows]
            = [a EXCEPT ![s].rows.of = @ \o rows]
      <4>1. [sectionDatas EXCEPT ![s].hasRows = TRUE, ![s].rows.of = @ \o rows]
              = [[sectionDatas EXCEPT ![s].hasRows = TRUE] EXCEPT ![s].rows.of = @ \o rows]
        BY Zenon
      <4> HIDE DEF a
      <4> QED BY <3>4, <4>1, Zenon
    <3> HIDE DEF a
    <3> QED BY <3>3, <3>6, <3>7
  <2> QED BY <2>3, <2>4
<1> QED BY <1>2, <1>3

\* Rows that are set, added or removed, and whose cells are all asked for again.
LEMMA ShellEditsRows ==
  ASSUME ShellInv,
         \/ \E s \in DOMAIN sectionDatas : Shell!removeSectionRows(s)
         \/ \E s \in 1..(Len(sectionDatas) + 1), rows \in Shell!Rows :
              Shell!setSectionRows(s, rows) \/ Shell!addSectionRows(s, rows)
         \/ \E p \in Shell!IndexPath(Shell!counts(sectionDatas)) :
              Shell!removeSectionRow(p) \/ Shell!updateMatchingRows({p})
  PROVE  ShellInv'
<1> USE DEF Shell!edit
<1>0. sectionDatas \in Seq(ShellSection)  BY DEF ShellInv
<1> HIDE DEF ShellSection
<1>1. ASSUME NEW s \in DOMAIN sectionDatas, Shell!removeSectionRows(s)
      PROVE  ShellInv'
  <2>1. Shell!removeRows(s) \in Seq(ShellSection)  BY <1>0, RowsLost
  <2> QED BY <1>1, <2>1, Reloads DEF Shell!removeSectionRows
<1>2. ASSUME NEW s, NEW rows \in Shell!Rows, Shell!setSectionRows(s, rows)
      PROVE  ShellInv'
  <2>1. rows \in Seq(Shell!Row)  BY SectionsMade
  <2>2. sectionDatas' \in Seq(ShellSection)
    BY <1>0, <1>2, <2>1, RowsGiven DEF Shell!setSectionRows
  <2> QED BY <1>2, <2>2, Reloads DEF Shell!setSectionRows
<1>3. ASSUME NEW s, NEW rows \in Shell!Rows, Shell!addSectionRows(s, rows)
      PROVE  ShellInv'
  <2>1. rows \in Seq(Shell!Row)  BY SectionsMade
  <2>2. CASE s \in DOMAIN sectionDatas /\ Shell!isForeign(s)
    BY <1>3, <2>2, ShellThrows DEF Shell!addSectionRows
  <2>3. CASE ~(s \in DOMAIN sectionDatas /\ Shell!isForeign(s))
    <3>1. sectionDatas' \in Seq(ShellSection)
      BY <1>0, <1>3, <2>1, <2>3, RowsGiven DEF Shell!addSectionRows
    <3> QED BY <1>3, <2>3, <3>1, Reloads DEF Shell!addSectionRows
  <2> QED BY <2>2, <2>3
<1>4. ASSUME NEW p \in Shell!IndexPath(Shell!counts(sectionDatas)), Shell!removeSectionRow(p)
      PROVE  ShellInv'
  <2> DEFINE s == p[1]
             rows == Shell!RemoveAt(sectionDatas[s].rows.of, p[2])
  <2>1. s \in DOMAIN sectionDatas /\ rows \in Seq(Shell!Row)
    <3>1. /\ s \in DOMAIN sectionDatas /\ sectionDatas[s].rows.of \in Seq(Shell!Row)
          /\ p[2] \in 1..Len(sectionDatas[s].rows.of)
      BY <1>0, RowOfPath
    <3> QED BY <3>1, Without
  <2>2. CASE Shell!isForeign(s)
    BY <1>4, <2>1, <2>2, ShellThrows DEF Shell!removeSectionRow
  <2>3. CASE ~Shell!isForeign(s)
    <3>1. sectionDatas' = [sectionDatas EXCEPT ![s].rows.of = rows]
      BY <1>4, <2>3 DEF Shell!removeSectionRow
    <3> HIDE DEF s, rows
    <3>2. [sectionDatas EXCEPT ![s].rows.of = rows] \in Seq(ShellSection)
      BY <1>0, <2>1, RowsReplaced
    <3>3. shellState = "Live" /\ Len(sectionDatas') <= MaxSection /\ Shell!reloadData
      BY <1>4, <2>3 DEF Shell!removeSectionRow, s
    <3> QED BY <3>1, <3>2, <3>3, Reloads
  <2> QED BY <2>2, <2>3
<1>5. ASSUME NEW p, Shell!updateMatchingRows({p})
      PROVE  ShellInv'
  <2> DEFINE P(s) == {r \in DOMAIN sectionDatas[s].rows.of : <<s, r>> \in {p}}
             d(s) == [sectionDatas[s] EXCEPT !.rows.of =
                        [r \in DOMAIN @ |-> IF <<s, r>> \in {p} THEN Shell!updated(@[r]) ELSE @[r]]]
             datas == [s \in DOMAIN sectionDatas |-> d(s)]
  <2>1. ASSUME NEW s \in DOMAIN sectionDatas
        PROVE  d(s) \in ShellSection
    <3> DEFINE rows == [r \in DOMAIN sectionDatas[s].rows.of |->
                          IF <<s, r>> \in {p} THEN Shell!updated(sectionDatas[s].rows.of[r])
                                              ELSE sectionDatas[s].rows.of[r]]
    <3>1. sectionDatas[s] \in ShellSection /\ sectionDatas[s].rows.of \in Seq(Shell!Row)
      BY <1>0, SectionOf
    <3>2. rows \in Seq(Shell!Row)
      <4> DEFINE old == sectionDatas[s].rows.of
                 new == [r \in DOMAIN old |-> IF r \in P(s) THEN Shell!updated(old[r]) ELSE old[r]]
      <4>1. rows = new  OBVIOUS
      <4> HIDE DEF P, rows
      <4>2. new \in Seq(Shell!Row)  BY <3>1, RowsUpdated
      <4> QED BY <4>1, <4>2
    <3>3. d(s) = [sectionDatas[s] EXCEPT !.rows.of = rows]  OBVIOUS
    <3> HIDE DEF rows, d
    <3>4. [sectionDatas[s] EXCEPT !.rows.of = rows] \in ShellSection
      BY <3>1, <3>2 DEF ShellSection, ShellRows
    <3> QED BY <3>3, <3>4
  <2>2. sectionDatas' = datas  BY <1>5 DEF Shell!updateMatchingRows
  <2>3. datas \in Seq(ShellSection)
    <3> HIDE DEF d
    <3>1. Len(sectionDatas) \in Nat /\ DOMAIN sectionDatas = 1..Len(sectionDatas)
      BY <1>0, LenProperties
    <3>2. datas \in [1..Len(sectionDatas) -> ShellSection]  BY <2>1, <3>1
    <3> HIDE DEF datas
    <3> QED BY <3>1, <3>2, FunctionIsSeq
  <2> HIDE DEF datas
  <2>4. shellState = "Live" /\ Len(sectionDatas') <= MaxSection /\ Shell!reloadData
    BY <1>5 DEF Shell!updateMatchingRows
  <2> QED BY <2>2, <2>3, <2>4, Reloads
<1> QED BY <1>1, <1>2, <1>3, <1>4, <1>5

\* The rows of a section change, one for one, and the table asks for the cells of those.
LEMMA RowsReloaded ==
  ASSUME ShellInv, shellState = "Live", NEW s \in DOMAIN sectionDatas,
         NEW rows \in Seq(Shell!Row), NEW paths,
         Len(rows) = Len(sectionDatas[s].rows.of),
         sectionDatas' = [sectionDatas EXCEPT ![s].rows.of = rows],
         \A r \in 1..Len(rows) : <<s, r>> \notin paths => rows[r] = sectionDatas[s].rows.of[r],
         Len(sectionDatas') <= MaxSection, Shell!reloadSome(paths)
  PROVE  ShellInv'
<1>1. sectionDatas \in Seq(ShellSection)  BY DEF ShellInv
<1> HIDE DEF ShellSection
<1>2. PICK datas \in Seq(ShellSection) : datas = [sectionDatas EXCEPT ![s].rows.of = rows]
  BY <1>1, RowsReplaced
<1>3. /\ DOMAIN datas = DOMAIN sectionDatas /\ datas[s].rows.of = rows
      /\ \A t \in DOMAIN datas : t # s => datas[t] = sectionDatas[t]
      /\ Shell!counts(datas) = Shell!counts(sectionDatas)
  <2> DEFINE new == [sectionDatas EXCEPT ![s].rows.of = rows]
  <2>1. /\ DOMAIN new = DOMAIN sectionDatas /\ new[s].rows.of = rows
        /\ \A t \in DOMAIN sectionDatas : t # s => new[t] = sectionDatas[t]
    BY <1>1, RowsReplaced
  <2> HIDE DEF new
  <2>2. datas = new  BY <1>2 DEF new
  <2>3. \A t \in DOMAIN datas : Len(datas[t].rows.of) = Len(sectionDatas[t].rows.of)
    BY <2>1, <2>2
  <2>4. Shell!counts(datas) = Shell!counts(sectionDatas)
    BY <2>1, <2>2, <2>3 DEF Shell!counts
  <2> QED BY <2>1, <2>2, <2>4
<1>4. ASSUME NEW p \in Shell!IndexPath(Shell!counts(datas)), p \notin paths
      PROVE  datas[p[1]].rows.of[p[2]] = Shell!rowAt(p)
  <2>1. /\ p[1] \in DOMAIN datas /\ p = <<p[1], p[2]>>
        /\ p[2] \in 1..Len(datas[p[1]].rows.of)
    BY RowOfPath
  <2>2. CASE p[1] = s
    <3>1. <<s, p[2]>> \notin paths /\ p[2] \in 1..Len(rows)  BY <1>3, <1>4, <2>1, <2>2
    <3>2. rows[p[2]] = sectionDatas[s].rows.of[p[2]]  BY <3>1
    <3> QED BY <1>3, <2>2, <3>2 DEF Shell!rowAt, Shell!rowsOf
  <2>3. CASE p[1] # s
    BY <1>3, <2>1, <2>3 DEF Shell!rowAt, Shell!rowsOf
  <2> QED BY <2>2, <2>3
<1>5. sectionDatas' = datas /\ Len(datas) <= MaxSection  BY <1>2
<1> QED BY <1>3, <1>4, <1>5, ReloadsSome

LEMMA RowReplaced ==
  ASSUME NEW rows \in Seq(Shell!Row), NEW r \in 1..Len(rows), NEW row \in Shell!Row
  PROVE  /\ [rows EXCEPT ![r] = row] \in Seq(Shell!Row)
         /\ Len([rows EXCEPT ![r] = row]) = Len(rows)
         /\ [rows EXCEPT ![r] = row][r] = row
         /\ \A i \in 1..Len(rows) : i # r => [rows EXCEPT ![r] = row][i] = rows[i]
<1> HIDE DEF Shell!Row
<1> QED BY ExceptSeq

LEMMA OneRowReloaded ==
  ASSUME ShellInv, NEW p \in Shell!IndexPath(Shell!counts(sectionDatas)), NEW row \in Shell!Row,
         Shell!edit([sectionDatas EXCEPT ![p[1]].rows.of[p[2]] = row]), Shell!reloadSome({p})
  PROVE  ShellInv'
<1>1. sectionDatas \in Seq(ShellSection)  BY DEF ShellInv
<1> DEFINE s == p[1]
           r == p[2]
           old == sectionDatas[s].rows.of
<1>2. /\ s \in DOMAIN sectionDatas /\ p = <<s, r>> /\ r \in 1..Len(old) /\ old \in Seq(Shell!Row)
  BY <1>1, RowOfPath
<1> HIDE DEF s, r
<1>3. PICK rows \in Seq(Shell!Row) : rows = [old EXCEPT ![r] = row]
  <2> HIDE DEF old
  <2> QED BY <1>2, RowReplaced
<1>4. Len(rows) = Len(old) /\ \A i \in 1..Len(old) : i # r => rows[i] = old[i]
  <2> HIDE DEF old
  <2> QED BY <1>2, <1>3, RowReplaced
<1>5. sectionDatas' = [sectionDatas EXCEPT ![s].rows.of = rows]
  <2>1. sectionDatas' = [sectionDatas EXCEPT ![s].rows.of[r] = row]  BY DEF Shell!edit, s, r
  <2> QED BY <1>3, <2>1
<1>6. \A i \in 1..Len(rows) : <<s, i>> \notin {p} => rows[i] = sectionDatas[s].rows.of[i]
  BY <1>2, <1>4
<1>7. shellState = "Live" /\ Len(sectionDatas') <= MaxSection  BY DEF Shell!edit
<1> QED BY <1>2, <1>4, <1>5, <1>6, <1>7, RowsReloaded

LEMMA ShellReloadsSome ==
  ASSUME ShellInv,
         \/ \E s \in DOMAIN sectionDatas : Shell!updateSectionRowsOf(s)
         \/ \E p \in Shell!IndexPath(Shell!counts(sectionDatas)) :
              \/ Shell!updateSectionRow(p)
              \/ \E row \in {"String", "Updated"} : Shell!setSectionRow(p, row)
  PROVE  ShellInv'
<1>0. sectionDatas \in Seq(ShellSection)  BY DEF ShellInv
<1> HIDE DEF ShellSection
<1>1. ASSUME NEW p \in Shell!IndexPath(Shell!counts(sectionDatas)), Shell!updateSectionRow(p)
      PROVE  ShellInv'
  <2>1. /\ p[1] \in DOMAIN sectionDatas
        /\ sectionDatas[p[1]].rows.of[p[2]] \in Shell!Row
    BY <1>0, RowOfPath
  <2>2. PICK row \in Shell!Row : row = Shell!updated(sectionDatas[p[1]].rows.of[p[2]])
    BY <2>1 DEF Shell!updated, Shell!Row
  <2>3. [sectionDatas EXCEPT ![p[1]].rows.of[p[2]] = Shell!updated(@)]
          = [sectionDatas EXCEPT ![p[1]].rows.of[p[2]] = row]
    BY <2>2
  <2>4. /\ Shell!edit([sectionDatas EXCEPT ![p[1]].rows.of[p[2]] = row])
        /\ Shell!reloadSome({p})
    BY <1>1, <2>3 DEF Shell!updateSectionRow, Shell!edit
  <2> QED BY <2>4, OneRowReloaded
<1>2. ASSUME NEW p \in Shell!IndexPath(Shell!counts(sectionDatas)), NEW row \in {"String", "Updated"},
             Shell!setSectionRow(p, row)
      PROVE  ShellInv'
  <2>1. p[1] \in DOMAIN sectionDatas /\ row \in Shell!Row  BY <1>0, RowOfPath DEF Shell!Row
  <2>2. CASE Shell!isForeign(p[1])
    BY <1>2, <2>1, <2>2, ShellThrows DEF Shell!setSectionRow
  <2>3. CASE ~Shell!isForeign(p[1])
    <3>1. /\ Shell!edit([sectionDatas EXCEPT ![p[1]].rows.of[p[2]] = row])
          /\ Shell!reloadSome({p})
      BY <1>2, <2>3 DEF Shell!setSectionRow
    <3> QED BY <2>1, <3>1, OneRowReloaded
  <2> QED BY <2>2, <2>3
<1>3. ASSUME NEW s \in DOMAIN sectionDatas, Shell!updateSectionRowsOf(s)
      PROVE  ShellInv'
  <2> DEFINE old == sectionDatas[s].rows.of
             paths == {s} \X (1..MaxRow)
             new == [i \in DOMAIN old |-> IF i \in DOMAIN old THEN Shell!updated(old[i]) ELSE old[i]]
  <2>1. old \in Seq(Shell!Row) /\ DOMAIN old = 1..Len(old) /\ Len(old) \in Nat
    BY <1>0, SectionOf
  <2> HIDE DEF old
  <2>2. new \in Seq(Shell!Row) /\ Len(new) = Len(old)  BY <2>1, RowsUpdated
  <2>3. PICK rows \in Seq(Shell!Row) : rows = new  BY <2>2
  <2>4. rows = [i \in DOMAIN old |-> Shell!updated(old[i])]  BY <2>3
  <2>5. /\ sectionDatas' = [sectionDatas EXCEPT ![s].rows.of = rows]
        /\ Len(sectionDatas') <= MaxSection /\ shellState = "Live"
        /\ \A t \in DOMAIN sectionDatas' : Len(sectionDatas'[t].rows.of) <= MaxRow
        /\ Shell!reloadSome(paths)
    BY <1>3, <2>4 DEF Shell!updateSectionRowsOf, Shell!edit, old
  <2>6. Len(rows) <= MaxRow
    <3>1. s \in DOMAIN sectionDatas' /\ sectionDatas'[s].rows.of = rows
      BY <1>0, <2>5, RowsReplaced
    <3> QED BY <2>5, <3>1
  <2>7. \A i \in 1..Len(rows) : <<s, i>> \in paths
    <3>1. Len(rows) \in Nat /\ MaxRow \in Nat  BY LenProperties, ShellBounds
    <3> QED BY <2>6, <3>1
  <2>8. Len(rows) = Len(sectionDatas[s].rows.of)  BY <2>2, <2>3 DEF old
  <2> HIDE DEF paths, new
  <2>9. PICK P : P = paths  OBVIOUS
  <2> QED BY <2>5, <2>7, <2>8, <2>9, RowsReloaded
<1> QED BY <1>1, <1>2, <1>3

\* One row of the data is replaced, whoever does it.
LEMMA RowPosted ==
  ASSUME sectionDatas \in Seq(ShellSection), NEW q, Shell!hasRow(q), NEW row \in Shell!Row,
         sectionDatas' = [sectionDatas EXCEPT ![q[1]].rows.of[q[2]] = row]
  PROVE  /\ sectionDatas' \in Seq(ShellSection)
         /\ Shell!counts(sectionDatas)' = Shell!counts(sectionDatas)
         /\ \A p \in Shell!IndexPath(Shell!counts(sectionDatas)) :
              Shell!rowAt(p)' = IF p = q THEN row ELSE Shell!rowAt(p)
<1> DEFINE s == q[1]
           r == q[2]
           old == sectionDatas[s].rows.of
<1>1. sectionDatas' = [sectionDatas EXCEPT ![s].rows.of[r] = row]  OBVIOUS
<1>2. /\ q = <<s, r>> /\ s \in DOMAIN sectionDatas
      /\ r \in 1..Len(old) /\ old \in Seq(Shell!Row)
  BY RowOfPath DEF Shell!hasRow
<1> HIDE DEF s, r
<1>3. PICK rows \in Seq(Shell!Row) : rows = [old EXCEPT ![r] = row]
  <2> HIDE DEF old
  <2> QED BY <1>2, RowReplaced
<1>4. /\ Len(rows) = Len(old) /\ rows[r] = row
      /\ \A i \in 1..Len(old) : i # r => rows[i] = old[i]
  <2> HIDE DEF old
  <2> QED BY <1>2, <1>3, RowReplaced
<1> DEFINE new == [sectionDatas EXCEPT ![s].rows.of = rows]
<1>5. sectionDatas' = new  BY <1>1, <1>3
<1>6. /\ new \in Seq(ShellSection) /\ DOMAIN new = DOMAIN sectionDatas /\ new[s].rows.of = rows
      /\ \A t \in DOMAIN sectionDatas : t # s => new[t] = sectionDatas[t]
  BY <1>2, RowsReplaced
<1> HIDE DEF new
<1>10. Shell!counts(new) = Shell!counts(sectionDatas)
  <2>1. \A t \in DOMAIN sectionDatas : Len(new[t].rows.of) = Len(sectionDatas[t].rows.of)
    BY <1>4, <1>6
  <2> QED BY <1>6, <2>1 DEF Shell!counts
<1>7. ASSUME NEW p \in Shell!IndexPath(Shell!counts(sectionDatas))
      PROVE  new[p[1]].rows.of[p[2]] = IF p = q THEN row ELSE Shell!rowAt(p)
  <2>1. /\ p[1] \in DOMAIN sectionDatas /\ p = <<p[1], p[2]>>
        /\ p[2] \in 1..Len(sectionDatas[p[1]].rows.of)
    BY RowOfPath
  <2>2. CASE p = q
    <3>1. p[1] = s /\ p[2] = r  BY <1>2, <2>2
    <3> QED BY <1>4, <1>6, <2>2, <3>1
  <2>3. CASE p # q /\ p[1] = s
    <3>1. p[2] # r  BY <1>2, <2>1, <2>3
    <3> QED BY <1>4, <1>6, <2>1, <2>3, <3>1 DEF Shell!rowAt, Shell!rowsOf
  <2>4. CASE p # q /\ p[1] # s
    BY <1>6, <2>1, <2>4 DEF Shell!rowAt, Shell!rowsOf
  <2> QED BY <2>2, <2>3, <2>4
<1>8. Shell!counts(sectionDatas)' = Shell!counts(new)  BY <1>5 DEF Shell!counts
<1>9. \A p : Shell!rowAt(p)' = new[p[1]].rows.of[p[2]]  BY <1>5 DEF Shell!rowAt, Shell!rowsOf
<1> QED BY <1>5, <1>6, <1>7, <1>8, <1>9, <1>10

\* A post: the cells on screen stay in place, except one that the row is taken from, or the
\* table is no longer in step.
LEMMA Posted ==
  ASSUME ShellInv, shellState = "Live", NEW q, Shell!hasRow(q), NEW row \in Shell!Row,
         Shell!replaceRow(q, row), Cells',
         UNCHANGED <<shellState, dirty, loaded, rowClass>>, DOMAIN shown' = DOMAIN shown,
         silent' \in BOOLEAN, silent => silent',
         ~dirty /\ ~silent' =>
           \A p \in DOMAIN shown :
             IF p = q THEN /\ \A k \in Shell!sets(row) : shown'[p].text[k] = row
                           /\ shown'[p].path = Shell!postsTo(p)
                      ELSE shown'[p] = shown[p]
  PROVE  ShellInv'
<1>1. sectionDatas \in Seq(ShellSection) /\ DOMAIN shown \subseteq Shell!IndexPath(loaded)
  BY DEF ShellInv, Cells
<1> HIDE DEF ShellSection, Shell!Row
<1>2. /\ sectionDatas' = [sectionDatas EXCEPT ![q[1]].rows.of[q[2]] = row]
      /\ Len(sectionDatas') <= MaxSection
  BY DEF Shell!replaceRow, Shell!edit
<1>3. /\ sectionDatas' \in Seq(ShellSection)
      /\ Shell!counts(sectionDatas)' = Shell!counts(sectionDatas)
      /\ \A p \in Shell!IndexPath(Shell!counts(sectionDatas)) :
           Shell!rowAt(p)' = IF p = q THEN row ELSE Shell!rowAt(p)
  BY <1>1, <1>2, RowPosted
<1>4. ASSUME ~dirty, ~silent'
      PROVE  loaded = Shell!counts(sectionDatas) /\ \A p \in DOMAIN shown : Shell!inPlace(p)'
  <2>1. ~silent  BY <1>4
  <2>2. /\ loaded = Shell!counts(sectionDatas) /\ \A p \in DOMAIN shown : Shell!inPlace(p)
    BY <1>4, <2>1, InStepHasRows
  <2>3. ASSUME NEW p \in DOMAIN shown
        PROVE  Shell!inPlace(p)'
    <3>1. Shell!rowAt(p)' = IF p = q THEN row ELSE Shell!rowAt(p)  BY <1>1, <1>3, <2>2
    <3>2. CASE p = q
      <4>1. /\ \A k \in Shell!sets(row) : shown'[p].text[k] = row
            /\ shown'[p].path = Shell!postsTo(p)
        BY <1>4, <3>2
      <4> QED BY <3>1, <3>2, <4>1 DEF Shell!inPlace, Shell!sets, Shell!postsTo
    <3>3. CASE p # q
      <4>1. shown'[p] = shown[p] /\ Shell!inPlace(p)  BY <1>4, <2>2, <3>3
      <4> QED BY <3>1, <3>3, <4>1 DEF Shell!inPlace, Shell!sets, Shell!postsTo
    <3> QED BY <3>2, <3>3
  <2> QED BY <2>2, <2>3
<1>5. Shell!InStep'
  <2> HIDE DEF Shell!inPlace
  <2> QED BY <1>3, <1>4 DEF Shell!InStep
<1>6. Shell!ThrowsForAReason'  BY DEF Shell!ThrowsForAReason
<1> HIDE DEF Cells
<1> QED BY <1>2, <1>3, <1>5, <1>6 DEF ShellInv

\* The table: it lays out, and asks for cells and gives their events back.
LEMMA ShellTable ==
  ASSUME ShellInv,
         \/ Shell!layout
         \/ \E p \in Shell!IndexPath(loaded) \ DOMAIN shown : Shell!cellForRow(p)
         \/ \E p \in DOMAIN shown :
              \/ Shell!endDisplaying(p) \/ Shell!didSelectRow(p) \/ Shell!commitDelete(p)
              \/ \E row \in {"String", "Updated"} : Shell!onDataPost(p, row)
         \/ \E cell \in pool, row \in {"String", "Updated"} : Shell!latePost(cell, row)
  PROVE  ShellInv'
<1>0. /\ sectionDatas \in Seq(ShellSection) /\ Len(sectionDatas) <= MaxSection
      /\ DOMAIN shown \subseteq Shell!IndexPath(loaded) /\ Cells
      /\ dirty \in BOOLEAN /\ silent \in BOOLEAN
  BY DEF ShellInv, Cells
<1> HIDE DEF ShellSection
<1>9. ASSUME shellState = "Live", NEW p \in Shell!IndexPath(loaded), Shell!missing(p)
      PROVE  silent \/ dirty
  <2>1. ~Shell!hasRow(p)
    <3>1. Shell!hasRow(p) => p[1] \in DOMAIN sectionDatas  BY <1>0, RowOfPath DEF Shell!hasRow
    <3> QED BY <1>9, <3>1 DEF Shell!missing
  <2> QED BY <1>0, <1>9, <2>1, InStepHasRows
<1>1. CASE Shell!layout
  <2>1. /\ dirty' = FALSE /\ silent' = FALSE /\ loaded' = Shell!counts(sectionDatas)
        /\ shown' = <<>> /\ pool' \in Shell!kept({shown[p] : p \in DOMAIN shown})
        /\ UNCHANGED <<sectionDatas, shellState>> /\ shellState = "Live"
    BY <1>1 DEF Shell!layout
  <2>2. DOMAIN shown' = {}  BY <2>1
  <2>3. Shell!InStep' /\ Shell!ThrowsForAReason'
    BY <2>1, <2>2 DEF Shell!InStep, Shell!ThrowsForAReason, Shell!counts
  <2>4. Cells'
    <3>1. ASSUME NEW cell \in pool' PROVE cell.text \in ShellLabels
      BY <1>0, <2>1, KeptTyped
    <3> HIDE DEF ShellLabels
    <3> QED BY <2>2, <3>1 DEF Cells
  <2>5. dirty' \in BOOLEAN /\ silent' \in BOOLEAN  BY <2>1
  <2> HIDE DEF Cells
  <2> QED BY <1>0, <2>1, <2>3, <2>4, <2>5 DEF ShellInv
<1>2. ASSUME NEW p \in Shell!IndexPath(loaded) \ DOMAIN shown, Shell!cellForRow(p)
      PROVE  ShellInv'
  <2>0. shellState = "Live" /\ ~dirty  BY <1>2 DEF Shell!cellForRow
  <2>1. CASE Shell!missing(p)
    <3>1. Shell!throws  BY <1>2, <2>1 DEF Shell!cellForRow
    <3> QED BY <1>9, <2>0, <2>1, <3>1, ShellThrows
  <2>2. CASE ~Shell!missing(p)
    <3>1. PICK cell \in pool \cup {Shell!NewCell} :
            /\ shown' = [q \in DOMAIN shown \cup {p} |->
                           IF q # p THEN shown[q]
                           ELSE IF Shell!hasRow(p) THEN Shell!fill(cell, p, Shell!rowAt(p)) ELSE cell]
            /\ pool' \in Shell!kept({})
            /\ UNCHANGED <<sectionDatas, shellState, dirty, loaded, rowClass, silent>>
      BY <1>2, <2>2 DEF Shell!cellForRow
    <3>2. cell.text \in ShellLabels  BY <1>0, <3>1, NewCellTyped DEF Cells
    <3>3. DOMAIN shown' = DOMAIN shown \cup {p} /\ \A q \in DOMAIN shown : shown'[q] = shown[q]
      BY <1>2, <3>1
    <3>4. ASSUME Shell!hasRow(p)
          PROVE  /\ shown'[p].text \in ShellLabels /\ Shell!inPlace(p)'
      <4>1. Shell!rowAt(p) \in Shell!Row
        BY <1>0, <3>4, RowOfPath DEF Shell!hasRow, Shell!rowAt, Shell!rowsOf
      <4>2. shown'[p] = Shell!fill(cell, p, Shell!rowAt(p))  BY <3>1, <3>4
      <4>3. Shell!rowAt(p)' = Shell!rowAt(p)  BY <3>1 DEF Shell!rowAt, Shell!rowsOf
      <4> HIDE DEF Shell!Row, Shell!rowAt
      <4>4. /\ shown'[p].text \in ShellLabels /\ shown'[p].path = Shell!postsTo(p)
            /\ \A k \in Shell!sets(Shell!rowAt(p)) : shown'[p].text[k] = Shell!rowAt(p)
        BY <3>2, <4>1, <4>2, Filled
      <4> QED BY <3>1, <4>3, <4>4 DEF Shell!inPlace, Shell!sets, Shell!postsTo
    <3>5. ~Shell!hasRow(p) => shown'[p] = cell  BY <3>1
    <3>6. Cells'
      <4>1. ASSUME NEW c \in pool' PROVE c.text \in ShellLabels
        <5>1. {} = {shown[q] : q \in {}}  OBVIOUS
        <5>2. pool' \in Shell!kept({shown[q] : q \in {}})  BY <3>1, <5>1
        <5> QED BY <1>0, <5>2, KeptTyped
      <4> HIDE DEF ShellLabels
      <4> QED BY <1>0, <1>2, <3>1, <3>2, <3>3, <3>4, <3>5, <4>1 DEF Cells
    <3>7. Shell!InStep'
      <4>1. ASSUME ~silent
            PROVE  loaded = Shell!counts(sectionDatas) /\ \A q \in DOMAIN shown' : Shell!inPlace(q)'
        <5>1. /\ loaded = Shell!counts(sectionDatas) /\ Shell!hasRow(p)
              /\ \A q \in DOMAIN shown : Shell!inPlace(q)
          BY <1>2, <2>0, <4>1, InStepHasRows
        <5>2. ASSUME NEW q \in DOMAIN shown PROVE Shell!inPlace(q)'
          BY <3>1, <3>3, <5>1 DEF Shell!inPlace, Shell!sets, Shell!postsTo, Shell!rowAt, Shell!rowsOf
        <5> QED BY <3>3, <3>4, <5>1, <5>2
      <4>2. Shell!counts(sectionDatas)' = Shell!counts(sectionDatas)  BY <3>1 DEF Shell!counts
      <4> HIDE DEF Shell!inPlace
      <4> QED BY <3>1, <4>1, <4>2 DEF Shell!InStep
    <3>8. Shell!ThrowsForAReason'  BY <2>0, <3>1 DEF Shell!ThrowsForAReason
    <3> HIDE DEF Cells
    <3> QED BY <1>0, <2>0, <3>1, <3>6, <3>7, <3>8 DEF ShellInv
  <2> QED BY <2>1, <2>2
<1>6. ASSUME NEW p \in DOMAIN shown, Shell!endDisplaying(p)
      PROVE  ShellInv'
  <2>1. /\ shellState = "Live" /\ shown' = [q \in DOMAIN shown \ {p} |-> shown[q]]
        /\ pool' \in Shell!kept({shown[p]})
        /\ UNCHANGED <<sectionDatas, shellState, dirty, loaded, rowClass, silent>>
    BY <1>6 DEF Shell!endDisplaying
  <2>2. DOMAIN shown' \subseteq DOMAIN shown /\ \A q \in DOMAIN shown' : shown'[q] = shown[q]
    BY <2>1
  <2>3. Cells'
    <3>1. ASSUME NEW c \in pool' PROVE c.text \in ShellLabels
      <4>1. {shown[p]} = {shown[q] : q \in {p}}  OBVIOUS
      <4>2. pool' \in Shell!kept({shown[q] : q \in {p}})  BY <2>1, <4>1
      <4> QED BY <1>0, <1>6, <4>2, KeptTyped
    <3> HIDE DEF ShellLabels
    <3> QED BY <1>0, <2>1, <2>2, <3>1 DEF Cells
  <2>4. ASSUME ~dirty, ~silent
        PROVE  loaded = Shell!counts(sectionDatas) /\ \A q \in DOMAIN shown' : Shell!inPlace(q)'
    <3>1. loaded = Shell!counts(sectionDatas) /\ \A q \in DOMAIN shown : Shell!inPlace(q)
      BY <2>1, <2>4, InStepHasRows
    <3> QED BY <2>1, <2>2, <3>1
            DEF Shell!inPlace, Shell!sets, Shell!postsTo, Shell!rowAt, Shell!rowsOf
  <2>5. Shell!InStep'
    <3>1. Shell!counts(sectionDatas)' = Shell!counts(sectionDatas)  BY <2>1 DEF Shell!counts
    <3> HIDE DEF Shell!inPlace
    <3> QED BY <2>1, <2>4, <3>1 DEF Shell!InStep
  <2>6. Shell!ThrowsForAReason'  BY <2>1 DEF Shell!ThrowsForAReason
  <2> HIDE DEF Cells
  <2> QED BY <1>0, <2>1, <2>3, <2>5, <2>6 DEF ShellInv
<1>3. ASSUME NEW p \in DOMAIN shown, Shell!didSelectRow(p)
      PROVE  ShellInv'
  <2>1. Shell!throws /\ shellState = "Live" /\ Shell!missing(p)
    BY <1>3 DEF Shell!didSelectRow, Shell!throws
  <2> QED BY <1>0, <1>9, <2>1, ShellThrows
<1>4. ASSUME NEW p \in DOMAIN shown, Shell!commitDelete(p)
      PROVE  ShellInv'
  <2>1. Shell!removeSectionRow(p) /\ p \in Shell!IndexPath(Shell!counts(sectionDatas))
    BY <1>4 DEF Shell!commitDelete, Shell!removeSectionRow, Shell!hasRow
  <2> QED BY <2>1, ShellEditsRows
<1>5. ASSUME NEW p \in DOMAIN shown, NEW row \in {"String", "Updated"}, Shell!onDataPost(p, row)
      PROVE  ShellInv'
  <2> DEFINE q == shown[p].path
  <2>1. Shell!reaches(q) /\ row \in Shell!Row  BY <1>5 DEF Shell!onDataPost, Shell!Row
  <2>2. ASSUME shellState = "Live", ~dirty, ~silent
        PROVE  p = q /\ Shell!hasRow(p) /\ Shell!postsTo(p) = p
    <3>1. q = Shell!postsTo(p) /\ Shell!hasRow(p)  BY <2>2, InStepHasRows DEF Shell!inPlace
    <3>2. q # Shell!NoPath  BY <2>1 DEF Shell!reaches
    <3> HIDE DEF q
    <3> QED BY <3>1, <3>2 DEF Shell!postsTo
  <2>3. CASE Shell!refuses(q)
    <3>1. Shell!throws /\ shellState = "Live"  BY <1>5, <2>3 DEF Shell!onDataPost, Shell!throws
    <3>2. q[1] \in DOMAIN sectionDatas  BY <2>1 DEF Shell!reaches
    <3> HIDE DEF q
    <3>3. silent \/ dirty \/ \E s \in DOMAIN sectionDatas : Shell!isForeign(s)
      BY <1>0, <2>2, <2>3, <3>1, <3>2 DEF Shell!refuses
    <3> QED BY <3>1, <3>3, ShellThrows
  <2>4. CASE ~Shell!refuses(q)
    <3>1. /\ Shell!replaceRow(q, row) /\ shellState = "Live" /\ Shell!hasRow(q)
          /\ shown' = [shown EXCEPT ![p] = Shell!fill(shown[p], q, row)]
          /\ UNCHANGED <<shellState, dirty, loaded, pool, rowClass, silent>>
      BY <1>5, <2>4 DEF Shell!onDataPost, Shell!replaceRow, Shell!edit, Shell!refuses
    <3> DEFINE new == Shell!fill(shown[p], q, row)
    <3>2. /\ new.text \in ShellLabels /\ new.path = Shell!postsTo(q)
          /\ \A k \in Shell!sets(row) : new.text[k] = row
      <4>1. shown[p].text \in ShellLabels  BY <1>0 DEF Cells
      <4> HIDE DEF q, Shell!Row, ShellLabels
      <4> QED BY <2>1, <4>1, Filled
    <3> HIDE DEF new, q
    <3>3. /\ DOMAIN shown' = DOMAIN shown
          /\ \A x \in DOMAIN shown : shown'[x] = IF x = p THEN new ELSE shown[x]
      BY <3>1 DEF new
    <3>4. Cells'
      <4> HIDE DEF ShellLabels
      <4> QED BY <1>0, <3>1, <3>2, <3>3 DEF Cells
    <3>5. ASSUME ~dirty, ~silent', NEW x \in DOMAIN shown
          PROVE  IF x = q THEN /\ \A k \in Shell!sets(row) : shown'[x].text[k] = row
                               /\ shown'[x].path = Shell!postsTo(x)
                          ELSE shown'[x] = shown[x]
      <4>1. p = q  BY <2>2, <3>1, <3>5
      <4> QED BY <3>2, <3>3, <3>5, <4>1
    <3>6. silent' \in BOOLEAN /\ (silent => silent')  BY <1>0, <3>1
    <3> HIDE DEF Cells, Shell!Row
    <3> QED BY <2>1, <3>1, <3>3, <3>4, <3>5, <3>6, Posted
  <2> QED BY <2>3, <2>4
<1>7. ASSUME NEW cell \in pool, NEW row \in {"String", "Updated"}, Shell!latePost(cell, row)
      PROVE  ShellInv'
  <2> DEFINE q == cell.path
  <2>1. /\ shellState = "Live" /\ row \in Shell!Row
        /\ UNCHANGED <<dirty, loaded, shown, pool, rowClass>>
    BY <1>7 DEF Shell!latePost, Shell!Row, Shell!table
  <2>2. Cells'  BY <1>0, <2>1 DEF Cells
  <2>3. CASE Shell!refuses(q)
    <3>1. shellState' = "Exception" /\ silent' = TRUE /\ UNCHANGED sectionDatas
      BY <1>7, <2>3 DEF Shell!latePost
    <3>2. Shell!InStep' /\ Shell!ThrowsForAReason'
      BY <3>1 DEF Shell!InStep, Shell!ThrowsForAReason
    <3> HIDE DEF Cells
    <3> QED BY <1>0, <2>1, <2>2, <3>1, <3>2 DEF ShellInv
  <2>4. CASE ~Shell!refuses(q)
    <3>1. /\ Shell!replaceRow(q, row) /\ Shell!hasRow(q) /\ shellState' = shellState
          /\ silent' = (silent \/ q \in DOMAIN shown)
      BY <1>7, <2>4 DEF Shell!latePost, Shell!refuses
    <3>2. silent' \in BOOLEAN /\ (silent => silent') /\ (~silent' => q \notin DOMAIN shown)
      BY <1>0, <3>1
    <3> HIDE DEF q, Cells, Shell!Row
    <3>3. UNCHANGED <<shellState, dirty, loaded, rowClass>> /\ DOMAIN shown' = DOMAIN shown
      BY <2>1, <3>1
    <3>4. ASSUME ~silent', NEW x \in DOMAIN shown
          PROVE  IF x = q THEN /\ \A k \in Shell!sets(row) : shown'[x].text[k] = row
                               /\ shown'[x].path = Shell!postsTo(x)
                          ELSE shown'[x] = shown[x]
      BY <2>1, <3>2, <3>4
    <3> QED BY <2>1, <2>2, <3>1, <3>2, <3>3, <3>4, Posted
  <2> QED BY <2>3, <2>4
<1> QED BY <1>1, <1>2, <1>3, <1>4, <1>5, <1>6, <1>7

LEMMA ShellSteps ==
  ASSUME ShellInv, Shell!Next
  PROVE  ShellInv'
<1>1. CASE \/ \E new \in Shell!Section : Shell!addSection(new) \/ Shell!configSection(new)
           \/ \E new \in Shell!Section, s \in DOMAIN sectionDatas : Shell!insertSection(new, s)
           \/ \E all \in {<<>>} \cup {<<x>> : x \in Shell!BlockSection} :
                Shell!configDataUsingBlock(all)
           \/ Shell!removeAllSections \/ Shell!configFinished
           \/ \E s \in DOMAIN sectionDatas :
                \/ Shell!removeSection(s) \/ Shell!removeSectionHeader(s)
                \/ \E new \in Shell!Section : Shell!setSection(s, new)
  BY <1>1, ShellEditsSections
<1>2. CASE \/ \E s \in DOMAIN sectionDatas : Shell!removeSectionRows(s)
           \/ \E s \in 1..(Len(sectionDatas) + 1), rows \in Shell!Rows :
                Shell!setSectionRows(s, rows) \/ Shell!addSectionRows(s, rows)
           \/ \E p \in Shell!IndexPath(Shell!counts(sectionDatas)) :
                Shell!removeSectionRow(p) \/ Shell!updateMatchingRows({p})
  BY <1>2, ShellEditsRows
<1>3. CASE \/ \E s \in DOMAIN sectionDatas : Shell!updateSectionRowsOf(s)
           \/ \E p \in Shell!IndexPath(Shell!counts(sectionDatas)) :
                \/ Shell!updateSectionRow(p)
                \/ \E row \in {"String", "Updated"} : Shell!setSectionRow(p, row)
  BY <1>3, ShellReloadsSome
<1>4. CASE \/ Shell!layout
           \/ \E p \in Shell!IndexPath(loaded) \ DOMAIN shown : Shell!cellForRow(p)
           \/ \E p \in DOMAIN shown :
                \/ Shell!endDisplaying(p) \/ Shell!didSelectRow(p) \/ Shell!commitDelete(p)
                \/ \E row \in {"String", "Updated"} : Shell!onDataPost(p, row)
           \/ \E cell \in pool, row \in {"String", "Updated"} : Shell!latePost(cell, row)
  BY <1>4, ShellTable
<1> QED BY <1>1, <1>2, <1>3, <1>4 DEF Shell!Next

LEMMA ShellInvariance == Spec => []ShellInv
<1>1. Init => ShellInv
  <2> SUFFICES ASSUME Init PROVE ShellInv
    OBVIOUS
  <2>1. /\ sectionDatas = <<>> /\ shellState = "Live" /\ dirty = FALSE
        /\ loaded = <<>> /\ shown = <<>> /\ silent = FALSE /\ pool = {}
    BY DEF Init, Shell!Init
  <2>2. DOMAIN sectionDatas = {} /\ DOMAIN loaded = {} /\ DOMAIN shown = {}  BY <2>1
  <2>3. Shell!IndexPath(loaded) = {}  BY <2>2, PathOf
  <2>4. Cells  BY <2>1, <2>2 DEF Cells
  <2>5. Shell!counts(sectionDatas) = <<>>  BY <2>1, <2>2 DEF Shell!counts
  <2>6. Shell!InStep  BY <2>1, <2>2, <2>5 DEF Shell!InStep
  <2>7. Shell!ThrowsForAReason  BY <2>1 DEF Shell!ThrowsForAReason
  <2>8. sectionDatas \in Seq(ShellSection) /\ Len(sectionDatas) <= MaxSection
    BY <2>1, EmptySeq, ShellBounds
  <2> HIDE DEF ShellSection, Cells
  <2> QED BY <2>1, <2>4, <2>6, <2>7, <2>8 DEF ShellInv
<1>2. ShellInv /\ [Next]_dataVars => ShellInv'
  <2> SUFFICES ASSUME ShellInv, [Next]_dataVars PROVE ShellInv'
    OBVIOUS
  <2>1. Shell!Next \/ UNCHANGED shellVars
    BY DEF Next, dataVars
  <2>2. UNCHANGED shellVars => ShellInv'
    <3> HIDE DEF ShellSection, Shell!Row
    <3> QED BY DEF shellVars, ShellInv, Cells, Shell!InStep, Shell!ThrowsForAReason, Shell!inPlace,
                   Shell!counts, Shell!rowAt, Shell!rowsOf, Shell!isForeign, Shell!sets, Shell!postsTo
  <2> QED BY <2>1, <2>2, ShellSteps
<1> QED BY <1>1, <1>2, PTL DEF Spec

LEMMA TablesAreSound ==
  Spec => [](Shell!TypeOK /\ Shell!InStep /\ Shell!ThrowsForAReason)
<1>1. ShellInv => Shell!TypeOK /\ Shell!InStep /\ Shell!ThrowsForAReason
  <2> SUFFICES ASSUME ShellInv PROVE Shell!TypeOK /\ Shell!InStep /\ Shell!ThrowsForAReason
    OBVIOUS
  <2>1. Shell!TypeOK  BY ShellTyped
  <2> QED BY <2>1 DEF ShellInv
<1> QED BY <1>1, ShellInvariance, PTL

----
\* A section that loses its rows

\* Of all positions but one, as many are up to a position as without it, less one behind it.
LEMMA OthersUpTo ==
  ASSUME NEW n \in Nat, NEW j \in 1..n, NEW i \in 1..n
  PROVE  Cardinality(((1..n) \ {j}) \cap 1..i) = IF i < j THEN i ELSE i - 1
<1>1. IsFiniteSet(1..i) /\ Cardinality(1..i) = i  BY FS_Interval
<1>2. CASE i < j
  <2>1. ((1..n) \ {j}) \cap 1..i = 1..i  BY <1>2
  <2> QED BY <1>1, <1>2, <2>1
<1>3. CASE ~(i < j)
  <2>1. ((1..n) \ {j}) \cap 1..i = (1..i) \ {j} /\ j \in 1..i  BY <1>3
  <2>2. Cardinality((1..i) \ {j}) = i - 1  BY <1>1, <2>1, FS_RemoveElement
  <2> QED BY <1>3, <2>1, <2>2
<1> QED BY <1>2, <1>3

\* To pick all but one is to remove that one.
LEMMA PickedAllButOne ==
  ASSUME NEW S, NEW s \in Seq(S), NEW j \in 1..Len(s)
  PROVE  Shell!picked(s, (1..Len(s)) \ {j}) = Shell!RemoveAt(s, j)
<1> DEFINE n == Len(s)
           I == (1..n) \ {j}
           kth(k) == CHOOSE i \in I : Cardinality(I \cap 1..i) = k
           t == [k \in 1..Cardinality(I) |-> s[kth(k)]]
<1>1. n \in Nat /\ Cardinality(I) = n - 1
  <2>1. n \in Nat /\ IsFiniteSet(1..n) /\ Cardinality(1..n) = n  BY LenProperties, FS_Interval
  <2>2. Cardinality(I) = n - 1  BY <2>1, FS_RemoveElement
  <2> QED BY <2>1, <2>2
<1>2. Shell!picked(s, I) = t  BY Zenon DEF Shell!picked, Shell!Cardinality, Cardinality
<1>3. ASSUME NEW k \in 1..(n - 1)
      PROVE  kth(k) = IF k < j THEN k ELSE k + 1
  <2> DEFINE i == IF k < j THEN k ELSE k + 1
  <2>1. i \in I /\ i \in 1..n  BY <1>1
  <2>2. \A x \in I : Cardinality(I \cap 1..x) = (IF x < j THEN x ELSE x - 1)
    BY <1>1, OthersUpTo
  <2>3. \A x \in I : Cardinality(I \cap 1..x) = k <=> x = i
    <3>1. \A x \in I : (IF x < j THEN x ELSE x - 1) = k <=> x = i  BY <1>1
    <3> HIDE DEF I, i
    <3> QED BY <2>2, <3>1
  <2>4. \E x \in I : Cardinality(I \cap 1..x) = k
    <3> HIDE DEF I, i
    <3> QED BY <2>1, <2>3
  <2>5. kth(k) \in I /\ Cardinality(I \cap 1..kth(k)) = k
    <3> HIDE DEF I, i
    <3> QED BY <2>4
  <2> HIDE DEF kth, I, i
  <2>6. kth(k) = i  BY <2>3, <2>5
  <2> QED BY <2>6 DEF i
<1> HIDE DEF kth, I
<1>4. /\ Shell!RemoveAt(s, j) \in Seq(S) /\ Len(Shell!RemoveAt(s, j)) = n - 1
      /\ \A i \in 1..n - 1 : Shell!RemoveAt(s, j)[i] = IF i < j THEN s[i] ELSE s[i + 1]
  BY Without
<1>5. Shell!RemoveAt(s, j) = [k \in 1..(n - 1) |-> Shell!RemoveAt(s, j)[k]]
  BY <1>1, <1>4
<1>6. t = [k \in 1..(n - 1) |-> s[kth(k)]]  BY <1>1
<1>7. \A k \in 1..(n - 1) : s[kth(k)] = Shell!RemoveAt(s, j)[k]
  BY <1>3, <1>4
<1> HIDE DEF t, n
<1>8. Shell!picked(s, I) = Shell!RemoveAt(s, j)  BY <1>2, <1>5, <1>6, <1>7
<1> QED BY <1>8 DEF I, n

\* The rows of one section go while no other is empty: with a title the section stays,
\* without one it goes, and no other does.
LEMMA RowsLeave ==
  ASSUME sectionDatas \in Seq(ShellSection), NEW s \in DOMAIN sectionDatas,
         Shell!removeSectionRows(s),
         \A t \in DOMAIN sectionDatas \ {s} : sectionDatas[t] # Shell!emptySection
  PROVE  sectionDatas' = IF sectionDatas[s].titled
                         THEN [sectionDatas EXCEPT ![s] = Shell!section(TRUE, FALSE, Shell!NoRows)]
                         ELSE Shell!RemoveAt(sectionDatas, s)
<1> DEFINE n == Len(sectionDatas)
           d == rowless(s)
           new == [sectionDatas EXCEPT ![s] = d]
<1>0. n \in Nat /\ DOMAIN sectionDatas = 1..n  BY LenProperties
<1>1. d \in ShellSection
      /\ [sectionDatas EXCEPT ![s].hasRows = FALSE, ![s].rows = Shell!NoRows] = new
  BY Rowless
<1>2. new \in Seq(ShellSection) /\ DOMAIN new = 1..n /\ new[s] = d
      /\ \A t \in (1..n) \ {s} : new[t] = sectionDatas[t]
  <2> HIDE DEF d, ShellSection
  <2> QED BY <1>0, <1>1, SectionReplaced
<1>3. sectionDatas[s].titled \in BOOLEAN
  <2>1. sectionDatas[s] \in ShellSection  BY SectionOf
  <2> QED BY <2>1 DEF ShellSection
<1>4. sectionDatas' = IF new[s] = Shell!emptySection THEN Shell!dropEmptied(new) ELSE new
  <2>1. sectionDatas' = Shell!removeRows(s)  BY DEF Shell!removeSectionRows, Shell!edit
  <2> HIDE DEF d
  <2> QED BY <1>1, <2>1 DEF Shell!removeRows
<1>5. CASE sectionDatas[s].titled
  <2>1. d = Shell!section(TRUE, FALSE, Shell!NoRows)
    <3>1. sectionDatas[s].titled = TRUE  BY <1>3, <1>5
    <3> QED BY <3>1, Zenon DEF rowless
  <2>2. d # Shell!emptySection
    <3>1. Shell!section(TRUE, FALSE, Shell!NoRows).titled = TRUE  BY DEF Shell!section
    <3>2. Shell!emptySection.titled = FALSE  BY DEF Shell!section, Shell!emptySection
    <3> QED BY <2>1, <3>1, <3>2
  <2> HIDE DEF d
  <2>3. sectionDatas' = new  BY <1>2, <1>4, <2>2
  <2> QED BY <1>5, <2>1, <2>3
<1>6. CASE ~sectionDatas[s].titled
  <2>1. d = Shell!emptySection
    <3>1. sectionDatas[s].titled = FALSE  BY <1>3, <1>6
    <3> QED BY <3>1, Zenon DEF rowless, Shell!emptySection
  <2> HIDE DEF d
  <2>2. {t \in DOMAIN new : new[t] # Shell!emptySection} = (1..n) \ {s}
    <3> HIDE DEF new, n
    <3> QED BY <1>0, <1>2, <2>1
  <2>3. Len(new) = n
    <3> HIDE DEF new
    <3> QED BY <1>0, <1>2, LenProperties
  <2> HIDE DEF new, ShellSection
  <2>4. sectionDatas' = Shell!picked(new, (1..n) \ {s})
    BY <1>2, <1>4, <2>1, <2>2, Zenon DEF Shell!dropEmptied
  <2>5. Shell!picked(new, (1..n) \ {s}) = Shell!RemoveAt(new, s)
    <3>1. PICK datas \in Seq(ShellSection) : datas = new  BY <1>2
    <3>2. Shell!picked(datas, (1..Len(datas)) \ {s}) = Shell!RemoveAt(datas, s)
      BY <1>0, <2>3, <3>1, PickedAllButOne
    <3> QED BY <2>3, <3>1, <3>2
  <2>6. Shell!RemoveAt(new, s) = Shell!RemoveAt(sectionDatas, s)
    <3>1. PICK datas \in Seq(ShellSection) : datas = new  BY <1>2
    <3> DEFINE a == Shell!RemoveAt(datas, s)
               b == Shell!RemoveAt(sectionDatas, s)
    <3>2. /\ a \in Seq(ShellSection) /\ Len(a) = n - 1
          /\ \A i \in 1..n - 1 : a[i] = IF i < s THEN datas[i] ELSE datas[i + 1]
      BY <1>0, <2>3, <3>1, Without
    <3>3. /\ b \in Seq(ShellSection) /\ Len(b) = n - 1
          /\ \A i \in 1..n - 1 : b[i] = IF i < s THEN sectionDatas[i] ELSE sectionDatas[i + 1]
      BY <1>0, Without
    <3>4. ASSUME NEW i \in 1..n - 1 PROVE a[i] = b[i]
      <4> HIDE DEF a, b, n
      <4> QED BY <1>0, <1>2, <3>1, <3>2, <3>3
    <3> HIDE DEF a, b
    <3>5. a = b  BY <1>0, <3>2, <3>3, <3>4, SeqEqual
    <3> QED BY <3>1, <3>5 DEF a, b
  <2> QED BY <1>6, <2>4, <2>5, <2>6
<1> QED BY <1>5, <1>6

\* A section without a title that loses its rows is removed, and no other; unless another is
\* empty already (removeObject: removes every section equal to it): XXtableViewShell.m.
THEOREM EmptiedSectionsGo == Spec => Shell!RemovesItself
<1>1. ShellInv /\ [Next]_dataVars =>
        [edits' > edits => \A s \in DOMAIN sectionDatas :
           Shell!removeSectionRows(s)
             /\ (\A t \in DOMAIN sectionDatas \ {s} : sectionDatas[t] # Shell!emptySection)
             => sectionDatas' = IF sectionDatas[s].titled
                                THEN [sectionDatas EXCEPT
                                        ![s] = Shell!section(TRUE, FALSE, Shell!NoRows)]
                                ELSE Shell!RemoveAt(sectionDatas, s)]_(Shell!vars)
  <2>1. ShellInv => sectionDatas \in Seq(ShellSection)
    <3> HIDE DEF ShellSection
    <3> QED BY DEF ShellInv
  <2> QED BY <2>1, RowsLeave, Zenon
<1> QED BY <1>1, ShellInvariance, PTL DEF Spec, Shell!RemovesItself

\* A control shows what it holds, whatever it was told before: the table, the pages, the
\* combo box and the line edit (XXtableViewShell, ButtonPage, ComboBoxOtherInput,
\* LineEditShell).
THEOREM ControlsAreSound == Spec => ControlsSound
<1>1. PageInv => Page!PagesSound  BY DEF PageInv
<1> QED BY <1>1, TablesAreSound, PagesInvariance, CombosAreSound, EditsAreSound, PTL
        DEF ControlsSound

----
\* The files and connections of SqlDatabaseManager

LEMMA SqlBounds == /\ DbPath \subseteq [dir : STRING, file : STRING \ {"none"}]
                   /\ Number \subseteq Nat \ {0} /\ MaxMap \in Nat
  BY DataAssumption

RowOf(keys) == [keys -> Number \cup {0}]
TableRow == UNION {RowOf(keys) : keys \in SUBSET Key}
Table == {t \in [keys : SUBSET Key, rows : Seq(TableRow)] :
            \A i \in 1..Len(t.rows) : t.rows[i] \in RowOf(t.keys)}
Connection == [path : DbPath, open : BOOLEAN, begin : {<<>>} \cup {<<t>> : t \in Table}]
AtMostOne(S) == {<<>>} \cup {<<x>> : x \in S}

SqlTypes ==
  /\ isOpen \in [Manager -> BOOLEAN]
  /\ database \in [Manager -> Sql!Name \cup {"none"}]
  /\ connections \in [Sql!Name -> AtMostOne(Connection)]
  /\ files \in [DbPath -> Table]
  /\ asked \in [Manager -> AtMostOne(DbPath)]
  /\ answer \in BOOLEAN

\* Who has a name has its connection, and asked for a path of that name; two that have one
\* name share it; and a connection of a name that is not shared is the one asked for.
Own ==
  /\ \A m \in Manager : database[m] # "none" =>
       /\ connections[database[m]] # <<>>
       /\ asked[m] # <<>> /\ asked[m][1].file = database[m]
  /\ \A m, k \in Manager : m # k /\ database[m] # "none" /\ database[m] = database[k]
       => database[m] \in shared
  /\ \A m \in Manager : isOpen[m] =>
       /\ asked[m] # <<>>
       /\ \/ asked[m][1].file \in shared
          \/ /\ database[m] = asked[m][1].file
             /\ connections[database[m]][1].open
             /\ connections[database[m]][1].path = asked[m][1]

SqlInv == SqlTypes /\ Own

LEMMA NoneNamed == "none" \notin Sql!Name /\ \A p \in DbPath : p.file \in Sql!Name
  BY SqlBounds DEF Sql!Name

LEMMA OwnIsOpen ==
  ASSUME SqlInv
  PROVE  Sql!OpenMeansOwn
<1> SUFFICES ASSUME NEW m \in Manager, isOpen[m], asked[m][1].file \notin shared
             PROVE  Sql!usable(m) /\ Sql!pathOf(m) = asked[m][1]
  BY DEF Sql!OpenMeansOwn
<1>1. /\ database[m] = asked[m][1].file /\ asked[m] # <<>>
      /\ connections[database[m]][1].open
      /\ connections[database[m]][1].path = asked[m][1]
  BY DEF SqlInv, Own
<1>2. asked[m] \in AtMostOne(DbPath)  BY DEF SqlInv, SqlTypes
<1>3. asked[m][1] \in DbPath  BY <1>1, <1>2 DEF AtMostOne
<1>4. database[m] # "none"  BY <1>1, <1>3, NoneNamed
<1> QED BY <1>1, <1>4 DEF Sql!usable, Sql!pathOf, Sql!connection, Sql!None

\* The connection a manager uses, and its file.
LEMMA Usable ==
  ASSUME SqlInv, NEW m \in Manager, Sql!usable(m)
  PROVE  /\ database[m] \in Sql!Name /\ database[m] # "none"
         /\ Sql!connection(m) \in Connection
         /\ connections[database[m]] = <<Sql!connection(m)>>
         /\ Sql!pathOf(m) \in DbPath
         /\ Sql!table(m) \in Table /\ Sql!table(m) = files[Sql!pathOf(m)]
<1>1. database[m] # "none" /\ database[m] \in Sql!Name
  BY DEF Sql!usable, Sql!None, SqlInv, SqlTypes
<1>2. connections[database[m]] # <<>> /\ connections[database[m]] \in AtMostOne(Connection)
  BY <1>1 DEF SqlInv, SqlTypes, Own
<1>3. PICK c \in Connection : connections[database[m]] = <<c>>
  BY <1>2 DEF AtMostOne
<1>4. Sql!connection(m) = c  BY <1>3 DEF Sql!connection
<1>5. c.path \in DbPath  BY DEF Connection
<1>6. files \in [DbPath -> Table]  BY DEF SqlInv, SqlTypes
<1> QED BY <1>1, <1>3, <1>4, <1>5, <1>6 DEF Sql!pathOf, Sql!table

\* A table is its keys and rows of them.
LEMMA TableOf ==
  ASSUME NEW keys \in SUBSET Key, NEW rows \in Seq(RowOf(keys))
  PROVE  [keys |-> keys, rows |-> rows] \in Table
<1>1. RowOf(keys) \subseteq TableRow  BY DEF TableRow
<1>2. rows \in Seq(TableRow)
  <2>1. Len(rows) \in Nat /\ rows \in [1..Len(rows) -> RowOf(keys)]  BY LenProperties
  <2>2. rows \in [1..Len(rows) -> TableRow]  BY <1>1, <2>1
  <2> QED BY <2>1, <2>2, FunctionIsSeq
<1>3. \A i \in 1..Len(rows) : rows[i] \in RowOf(keys)  BY ElementOfSeq
<1> HIDE DEF RowOf
<1> QED BY <1>2, <1>3 DEF Table

LEMMA TableHas ==
  ASSUME NEW t \in Table
  PROVE  /\ t = [keys |-> t.keys, rows |-> t.rows]
         /\ t.keys \in SUBSET Key /\ t.rows \in Seq(RowOf(t.keys))
         /\ Len(t.rows) \in Nat /\ DOMAIN t.rows = 1..Len(t.rows)
<1>1. /\ t = [keys |-> t.keys, rows |-> t.rows] /\ t.keys \in SUBSET Key
      /\ t.rows \in Seq(TableRow)
      /\ \A i \in 1..Len(t.rows) : t.rows[i] \in RowOf(t.keys)
  BY DEF Table
<1>2. Len(t.rows) \in Nat /\ DOMAIN t.rows = 1..Len(t.rows)
      /\ t.rows = [i \in 1..Len(t.rows) |-> t.rows[i]]
  BY <1>1, LenProperties
<1> HIDE DEF RowOf
<1>4. t.rows \in [1..Len(t.rows) -> RowOf(t.keys)]  BY <1>1, <1>2
<1> QED BY <1>1, <1>2, <1>4, FunctionIsSeq

\* Rows of the table, one more, some of them, or changed ones.
LEMMA RowsChanged ==
  ASSUME NEW t \in Table, NEW rows \in Seq(RowOf(t.keys))
  PROVE  [t EXCEPT !.rows = rows] \in Table
<1>1. t = [keys |-> t.keys, rows |-> t.rows] /\ t.keys \in SUBSET Key  BY TableHas
<1>2. [t EXCEPT !.rows = rows] = [keys |-> t.keys, rows |-> rows]  BY <1>1
<1> QED BY <1>1, <1>2, TableOf

LEMMA RowFull ==
  ASSUME NEW map \in Sql!Map, NEW keys \in SUBSET Key
  PROVE  Sql!full(map, keys) \in RowOf(keys)
<1>1. PICK ks \in SUBSET Key : map \in [ks -> Number]  BY DEF Sql!Map
<1> QED BY <1>1 DEF Sql!full, RowOf, Sql!Null

LEMMA TableAdded ==
  ASSUME NEW t \in Table, NEW map \in Sql!Map
  PROVE  Sql!added(t, map) \in Table
<1>1. t.keys \in SUBSET Key /\ t.rows \in Seq(RowOf(t.keys))  BY TableHas
<1>2. Sql!full(map, t.keys) \in RowOf(t.keys)  BY <1>1, RowFull
<1> DEFINE rows == Append(t.rows, Sql!full(map, t.keys))
<1>3. rows \in Seq(RowOf(t.keys))
  <2> HIDE DEF RowOf
  <2> QED BY <1>1, <1>2, AppendProperties
<1> HIDE DEF rows
<1>4. [t EXCEPT !.rows = rows] \in Table  BY <1>3, RowsChanged
<1> QED BY <1>4 DEF rows, Sql!added

LEMMA TableWidened ==
  ASSUME NEW t \in Table, NEW k \in Key
  PROVE  [keys |-> t.keys \cup {k},
          rows |-> [i \in DOMAIN t.rows |-> Sql!widened(t.rows[i], k)]] \in Table
<1> DEFINE keys == t.keys \cup {k}
           rows == [i \in DOMAIN t.rows |-> Sql!widened(t.rows[i], k)]
<1>1. /\ t.keys \in SUBSET Key /\ t.rows \in Seq(RowOf(t.keys))
      /\ Len(t.rows) \in Nat /\ DOMAIN t.rows = 1..Len(t.rows)
  BY TableHas
<1>2. ASSUME NEW i \in 1..Len(t.rows)
      PROVE  Sql!widened(t.rows[i], k) \in RowOf(keys)
  <2>1. t.rows[i] \in RowOf(t.keys)  BY <1>1, ElementOfSeq
  <2> QED BY <2>1 DEF RowOf, Sql!widened, Sql!Null
<1>3. rows \in [1..Len(t.rows) -> RowOf(keys)]
  <2> HIDE DEF RowOf, keys
  <2> QED BY <1>1, <1>2
<1>5. keys \in SUBSET Key  BY <1>1
<1> HIDE DEF rows, keys, RowOf
<1>6. rows \in Seq(RowOf(keys))  BY <1>1, <1>3, FunctionIsSeq
<1>7. [keys |-> keys, rows |-> rows] \in Table  BY <1>5, <1>6, TableOf
<1> QED BY <1>7 DEF keys, rows

LEMMA TablePicked ==
  ASSUME NEW t \in Table, NEW I \in SUBSET (1..Len(t.rows))
  PROVE  [t EXCEPT !.rows = Sql!picked(@, I)] \in Table
<1>1. t.rows \in Seq(RowOf(t.keys))  BY TableHas
<1> DEFINE rows == Sql!picked(t.rows, I)
<1>2. rows \in Seq(RowOf(t.keys))
  <2> HIDE DEF RowOf
  <2> QED BY <1>1, Picked
<1> HIDE DEF rows
<1>3. [t EXCEPT !.rows = rows] \in Table  BY <1>2, RowsChanged
<1> QED BY <1>3 DEF rows

LEMMA TableRewritten ==
  ASSUME NEW t \in Table, NEW map \in Sql!Map, NEW equalTo
  PROVE  [t EXCEPT !.rows = [i \in DOMAIN @ |->
            IF Sql!agrees(@[i], equalTo) THEN Sql!rewritten(@[i], map) ELSE @[i]]] \in Table
<1>1. t.rows \in Seq(RowOf(t.keys)) /\ Len(t.rows) \in Nat /\ DOMAIN t.rows = 1..Len(t.rows)
  BY TableHas
<1> DEFINE new(i) == IF Sql!agrees(t.rows[i], equalTo) THEN Sql!rewritten(t.rows[i], map)
                                                       ELSE t.rows[i]
           rows == [i \in DOMAIN t.rows |-> new(i)]
<1>2. ASSUME NEW i \in 1..Len(t.rows)
      PROVE  new(i) \in RowOf(t.keys)
  <2>1. t.rows[i] \in RowOf(t.keys)  BY <1>1, ElementOfSeq
  <2>2. PICK ks \in SUBSET Key : map \in [ks -> Number]  BY DEF Sql!Map
  <2>3. Sql!rewritten(t.rows[i], map) \in RowOf(t.keys)
    BY <2>1, <2>2 DEF RowOf, Sql!rewritten
  <2> QED BY <2>1, <2>3
<1> HIDE DEF new
<1>3. rows \in [1..Len(t.rows) -> RowOf(t.keys)]
  <2> HIDE DEF RowOf
  <2> QED BY <1>1, <1>2
<1> HIDE DEF rows, RowOf
<1>5. rows \in Seq(RowOf(t.keys))  BY <1>1, <1>3, FunctionIsSeq
<1>6. [t EXCEPT !.rows = rows] \in Table  BY <1>5, RowsChanged
<1> QED BY <1>6 DEF rows, new

\* A call that touches no connection keeps what belongs to whom.
LEMMA FilesChange ==
  ASSUME SqlInv, UNCHANGED <<isOpen, database, connections, asked, shared>>,
         files' \in [DbPath -> Table], answer' \in BOOLEAN
  PROVE  SqlInv'
<1>1. SqlTypes'
  <2> HIDE DEF Connection, Table
  <2> QED BY DEF SqlInv, SqlTypes
<1>2. Own'  BY DEF SqlInv, Own
<1> QED BY <1>1, <1>2 DEF SqlInv

\* A write changes one file to a table, or nothing.
LEMMA Written ==
  ASSUME SqlInv, NEW m \in Manager, Sql!usable(m), NEW t \in Table,
         files' = [files EXCEPT ![Sql!pathOf(m)] = t]
  PROVE  files' \in [DbPath -> Table]
<1>1. files \in [DbPath -> Table] /\ Sql!pathOf(m) \in DbPath
  BY Usable DEF SqlInv, SqlTypes
<1> HIDE DEF Table
<1> QED BY <1>1

LEMMA WriteFails ==
  ASSUME SqlInv, UNCHANGED <<isOpen, database, connections, asked, shared>>,
         answer' = FALSE, UNCHANGED files
  PROVE  SqlInv'
<1>1. files' \in [DbPath -> Table]
  <2> HIDE DEF Table
  <2> QED BY DEF SqlInv, SqlTypes
<1>2. answer' \in BOOLEAN  OBVIOUS
<1> QED BY <1>1, <1>2, FilesChange

LEMMA WriteSucceeds ==
  ASSUME SqlInv, UNCHANGED <<isOpen, database, connections, asked, shared>>,
         NEW m \in Manager, Sql!usable(m), NEW t \in Table,
         answer' = TRUE, files' = [files EXCEPT ![Sql!pathOf(m)] = t]
  PROVE  SqlInv'
<1>1. files' \in [DbPath -> Table]  BY Written
<1>2. answer' \in BOOLEAN  OBVIOUS
<1> QED BY <1>1, <1>2, FilesChange

LEMMA SqlWrites ==
  ASSUME SqlInv, NEW m \in Manager,
         \/ \E keys \in SUBSET Key : Sql!createTable(m, keys)
         \/ Sql!removeKeyAtTable(m)
         \/ \E k \in Key : Sql!addKey2Table(m, k)
         \/ \E map \in Sql!Map : Sql!addMap2Table(m, map) \/ Sql!removeMapAtTable(m, map)
         \/ \E map, equalTo \in Sql!Map : Sql!setValues2Table(m, map, equalTo)
  PROVE  SqlInv'
<1> USE DEF Sql!write, Sql!managerVars, Sql!historyVars
<1>0. Sql!tableExisted(m) => Sql!usable(m)  BY DEF Sql!tableExisted
<1>1. ASSUME NEW keys \in SUBSET Key, Sql!createTable(m, keys)
      PROVE  SqlInv'
  <2>1. UNCHANGED <<isOpen, database, connections, asked, shared>>
    BY <1>1 DEF Sql!createTable
  <2>2. \/ /\ answer' = TRUE /\ Sql!usable(m)
           /\ files' = [files EXCEPT ![Sql!pathOf(m)] = [keys |-> keys, rows |-> <<>>]]
        \/ answer' = FALSE /\ UNCHANGED files
    BY <1>1 DEF Sql!createTable
  <2>3. [keys |-> keys, rows |-> <<>>] \in Table
    <3>1. <<>> \in Seq(RowOf(keys))  BY EmptySeq
    <3> HIDE DEF RowOf
    <3> QED BY <3>1, TableOf
  <2> HIDE DEF Table
  <2> QED BY <2>1, <2>2, <2>3, WriteFails, WriteSucceeds
<1>2. CASE Sql!removeKeyAtTable(m)
  BY <1>2, WriteFails DEF Sql!removeKeyAtTable
<1>3. ASSUME NEW k \in Key, Sql!addKey2Table(m, k)
      PROVE  SqlInv'
  <2> DEFINE t == [keys |-> Sql!table(m).keys \cup {k},
                   rows |-> [i \in DOMAIN Sql!table(m).rows |-> Sql!widened(Sql!table(m).rows[i], k)]]
  <2>1. UNCHANGED <<isOpen, database, connections, asked, shared>>
    BY <1>3 DEF Sql!addKey2Table
  <2>2. \/ /\ answer' = TRUE /\ Sql!usable(m)
           /\ files' = [files EXCEPT ![Sql!pathOf(m)] = t]
        \/ answer' = FALSE /\ UNCHANGED files
    BY <1>0, <1>3 DEF Sql!addKey2Table
  <2>3. Sql!usable(m) => t \in Table  BY Usable, TableWidened
  <2> HIDE DEF Table, t
  <2>4. Sql!usable(m) => \E s \in Table : s = t  BY <2>3
  <2> QED BY <2>1, <2>2, <2>4, WriteFails, WriteSucceeds
<1>4. ASSUME NEW map \in Sql!Map, Sql!addMap2Table(m, map)
      PROVE  SqlInv'
  <2> DEFINE t == Sql!added(Sql!table(m), map)
  <2>1. UNCHANGED <<isOpen, database, connections, asked, shared>>
    BY <1>4 DEF Sql!addMap2Table
  <2>2. \/ /\ answer' = TRUE /\ Sql!usable(m)
           /\ files' = [files EXCEPT ![Sql!pathOf(m)] = t]
        \/ answer' = FALSE /\ UNCHANGED files
    BY <1>0, <1>4 DEF Sql!addMap2Table, Sql!canAdd
  <2>3. Sql!usable(m) => t \in Table  BY Usable, TableAdded
  <2> HIDE DEF Table, t
  <2>4. Sql!usable(m) => \E s \in Table : s = t  BY <2>3
  <2> QED BY <2>1, <2>2, <2>4, WriteFails, WriteSucceeds
<1>5. ASSUME NEW map \in Sql!Map, Sql!removeMapAtTable(m, map)
      PROVE  SqlInv'
  <2> DEFINE I == {i \in DOMAIN Sql!table(m).rows : ~Sql!agrees(Sql!table(m).rows[i], map)}
             t == [Sql!table(m) EXCEPT !.rows = Sql!picked(@, I)]
  <2>1. UNCHANGED <<isOpen, database, connections, asked, shared>>
    BY <1>5 DEF Sql!removeMapAtTable
  <2>2. \/ /\ answer' = TRUE /\ Sql!usable(m)
           /\ files' = [files EXCEPT ![Sql!pathOf(m)] = t]
        \/ answer' = FALSE /\ UNCHANGED files
    BY <1>5 DEF Sql!removeMapAtTable
  <2>3. ASSUME Sql!usable(m) PROVE t \in Table
    <3>1. Sql!table(m) \in Table  BY <2>3, Usable
    <3>2. I \in SUBSET (1..Len(Sql!table(m).rows))  BY <3>1, TableHas
    <3> HIDE DEF I, Table
    <3> QED BY <3>1, <3>2, TablePicked
  <2> HIDE DEF Table, t
  <2>4. Sql!usable(m) => \E s \in Table : s = t  BY <2>3
  <2> QED BY <2>1, <2>2, <2>4, WriteFails, WriteSucceeds
<1>6. ASSUME NEW map \in Sql!Map, NEW equalTo \in Sql!Map, Sql!setValues2Table(m, map, equalTo)
      PROVE  SqlInv'
  <2> DEFINE t == [Sql!table(m) EXCEPT !.rows = [i \in DOMAIN @ |->
                     IF Sql!agrees(@[i], equalTo) THEN Sql!rewritten(@[i], map) ELSE @[i]]]
  <2>1. UNCHANGED <<isOpen, database, connections, asked, shared>>
    BY <1>6 DEF Sql!setValues2Table
  <2>2. \/ /\ answer' = TRUE /\ Sql!usable(m)
           /\ files' = [files EXCEPT ![Sql!pathOf(m)] = t]
        \/ answer' = FALSE /\ UNCHANGED files
    BY <1>0, <1>6 DEF Sql!setValues2Table
  <2>3. Sql!usable(m) => t \in Table  BY Usable, TableRewritten
  <2> HIDE DEF Table, t
  <2>4. Sql!usable(m) => \E s \in Table : s = t  BY <2>3
  <2> QED BY <2>1, <2>2, <2>4, WriteFails, WriteSucceeds
<1> QED BY <1>1, <1>2, <1>3, <1>4, <1>5, <1>6

\* A connection that ends leaves tables, and the same ones if nothing was pending.
LEMMA RolledBack ==
  ASSUME NEW f \in [DbPath -> Table], NEW cs \in AtMostOne(Connection)
  PROVE  /\ Sql!rolledBack(f, cs) \in [DbPath -> Table]
         /\ cs = <<>> \/ cs[1].begin = <<>> => Sql!rolledBack(f, cs) = f
<1>1. CASE cs = <<>>
  <2>1. DOMAIN cs = {}  BY <1>1
  <2>2. Sql!rolledBack(f, cs) = [p \in DbPath |-> f[p]]  BY <2>1, Zenon DEF Sql!rolledBack
  <2> HIDE DEF Table
  <2> QED BY <2>2
<1>2. CASE cs # <<>>
  <2>1. PICK c \in Connection : cs = <<c>>  BY <1>2 DEF AtMostOne
  <2>2. DOMAIN cs = {1} /\ cs[1] = c  BY <2>1
  <2> DEFINE undo(p) == c.path = p /\ c.begin # <<>>
  <2>3. Sql!rolledBack(f, cs) = [p \in DbPath |-> IF undo(p) THEN c.begin[1] ELSE f[p]]
    <3>1. ASSUME NEW p \in DbPath
          PROVE  (IF \E k \in DOMAIN cs : cs[k].path = p /\ cs[k].begin # <<>>
                  THEN cs[CHOOSE k \in DOMAIN cs : cs[k].path = p].begin[1] ELSE f[p])
                   = IF undo(p) THEN c.begin[1] ELSE f[p]
      <4>1. (\E k \in DOMAIN cs : cs[k].path = p /\ cs[k].begin # <<>>) <=> undo(p)
        BY <2>2
      <4>2. ASSUME undo(p) PROVE (CHOOSE k \in DOMAIN cs : cs[k].path = p) = 1
        <5>1. \E k \in DOMAIN cs : cs[k].path = p  BY <2>2, <4>2
        <5>2. (CHOOSE k \in DOMAIN cs : cs[k].path = p) \in DOMAIN cs  BY <5>1, Zenon
        <5> QED BY <2>2, <5>2
      <4> HIDE DEF undo
      <4> QED BY <2>2, <4>1, <4>2
    <3> HIDE DEF undo
    <3> QED BY <3>1 DEF Sql!rolledBack
  <2>4. c.begin \in {<<>>} \cup {<<t>> : t \in Table}  BY DEF Connection
  <2>5. c.begin # <<>> => c.begin[1] \in Table
    <3> HIDE DEF Table
    <3> QED BY <2>4
  <2>6. ASSUME NEW p \in DbPath
        PROVE  (IF undo(p) THEN c.begin[1] ELSE f[p]) \in Table
    <3>1. f[p] \in Table
      <4> HIDE DEF Table
      <4> QED OBVIOUS
    <3> HIDE DEF Table
    <3> QED BY <2>5, <3>1
  <2>7. Sql!rolledBack(f, cs) \in [DbPath -> Table]
    <3> HIDE DEF undo, Table
    <3> QED BY <2>3, <2>6
  <2>8. ASSUME c.begin = <<>> PROVE Sql!rolledBack(f, cs) = f
    <3>1. \A p \in DbPath : ~undo(p)  BY <2>8
    <3>2. f = [p \in DbPath |-> f[p]]
      <4> HIDE DEF Table
      <4> QED OBVIOUS
    <3> HIDE DEF undo, Table
    <3> QED BY <2>3, <3>1, <3>2
  <2> QED BY <1>2, <2>2, <2>7, <2>8
<1> QED BY <1>1, <1>2

Begin == {<<>>} \cup {<<t>> : t \in Table}

\* The rows of a batch, as many as were added.
LEMMA TableAfter ==
  ASSUME NEW t \in Table, NEW maps \in Seq(Sql!Map), NEW n \in 0..Len(maps)
  PROVE  [t EXCEPT !.rows = @ \o [i \in 1..n |-> Sql!full(maps[i], t.keys)]] \in Table
<1> DEFINE more == [i \in 1..n |-> Sql!full(maps[i], t.keys)]
           rows == t.rows \o more
<1>1. t.rows \in Seq(RowOf(t.keys)) /\ t.keys \in SUBSET Key  BY TableHas
<1>2. ASSUME NEW i \in 1..n
      PROVE  Sql!full(maps[i], t.keys) \in RowOf(t.keys)
  <2>1. i \in 1..Len(maps)  BY LenProperties
  <2>2. maps[i] \in Sql!Map  BY <2>1, ElementOfSeq
  <2> QED BY <1>1, <2>2, RowFull
<1>3. more \in [1..n -> RowOf(t.keys)] /\ n \in Nat
  <2> HIDE DEF RowOf
  <2> QED BY <1>2
<1> HIDE DEF more, RowOf
<1>4. more \in Seq(RowOf(t.keys))  BY <1>3, FunctionIsSeq
<1>5. rows \in Seq(RowOf(t.keys))  BY <1>1, <1>4, ConcatProperties
<1> HIDE DEF rows
<1>6. [t EXCEPT !.rows = rows] \in Table  BY <1>5, RowsChanged
<1> QED BY <1>6 DEF rows, more

\* A transaction that begins or ends on a connection changes no owner.
LEMMA Leaves ==
  ASSUME SqlInv, NEW m \in Manager, Sql!usable(m), NEW rest \in Begin, NEW t \in Table,
         connections' = [connections EXCEPT ![database[m]] =
                           <<[Sql!connection(m) EXCEPT !.begin = rest]>>],
         files' = [files EXCEPT ![Sql!pathOf(m)] = t],
         UNCHANGED <<isOpen, database, asked, shared>>, answer' \in BOOLEAN
  PROVE  SqlInv'
<1> DEFINE c == [Sql!connection(m) EXCEPT !.begin = rest]
<1>1. /\ database[m] \in Sql!Name /\ Sql!connection(m) \in Connection
      /\ connections[database[m]] = <<Sql!connection(m)>>
  BY Usable
<1>2. c \in Connection /\ c.path = Sql!connection(m).path /\ c.open = Sql!connection(m).open
  <2> HIDE DEF Table
  <2> QED BY <1>1 DEF Connection, Begin
<1> HIDE DEF c
<1>3. connections' = [connections EXCEPT ![database[m]] = <<c>>]  BY DEF c
<1>4. connections \in [Sql!Name -> AtMostOne(Connection)]  BY DEF SqlInv, SqlTypes
<1>5. connections' \in [Sql!Name -> AtMostOne(Connection)]
  <2>1. <<c>> \in AtMostOne(Connection)  BY <1>2 DEF AtMostOne
  <2> HIDE DEF AtMostOne, Connection
  <2> QED BY <1>3, <1>4, <2>1
<1>6. files' \in [DbPath -> Table]  BY Written
<1>7. SqlTypes'
  <2> HIDE DEF Connection, Table, AtMostOne
  <2> QED BY <1>5, <1>6 DEF SqlInv, SqlTypes
<1>8. \A n \in Sql!Name :
        /\ connections[n] # <<>> => connections'[n] # <<>>
        /\ n # database[m] => connections'[n] = connections[n]
  <2> HIDE DEF Connection, AtMostOne
  <2> QED BY <1>3, <1>4
<1>9. /\ connections'[database[m]] = <<c>>
      /\ connections'[database[m]][1].open = connections[database[m]][1].open
      /\ connections'[database[m]][1].path = connections[database[m]][1].path
  <2>1. connections'[database[m]] = <<c>>
    <3> HIDE DEF Connection, AtMostOne
    <3> QED BY <1>1, <1>3, <1>4
  <2> HIDE DEF Connection, AtMostOne
  <2> QED BY <1>1, <1>2, <2>1
<1>10. \A k \in Manager : database[k] \in Sql!Name \cup {"none"}  BY DEF SqlInv, SqlTypes
<1>11. Own'
  <2>1. ASSUME NEW k \in Manager, database[k] # "none"
        PROVE  connections'[database[k]] # <<>>
    <3>1. connections[database[k]] # <<>> /\ database[k] \in Sql!Name
      BY <1>10, <2>1 DEF SqlInv, Own
    <3> QED BY <1>8, <3>1
  <2>2. ASSUME NEW k \in Manager, isOpen[k], asked[k][1].file \notin shared
        PROVE  connections'[database[k]][1].open /\ connections'[database[k]][1].path = asked[k][1]
    <3>1. /\ database[k] = asked[k][1].file /\ asked[k] # <<>>
          /\ connections[database[k]][1].open
          /\ connections[database[k]][1].path = asked[k][1]
      BY <2>2 DEF SqlInv, Own
    <3>2. asked[k] \in AtMostOne(DbPath)  BY DEF SqlInv, SqlTypes
    <3>3. asked[k][1] \in DbPath  BY <3>1, <3>2 DEF AtMostOne
    <3>4. database[k] \in Sql!Name  BY <3>1, <3>3, NoneNamed
    <3>5. CASE database[k] = database[m]  BY <1>9, <3>1, <3>5
    <3>6. CASE database[k] # database[m]  BY <1>8, <3>1, <3>4, <3>6
    <3> QED BY <3>5, <3>6
  <2> QED BY <2>1, <2>2 DEF SqlInv, Own
<1> QED BY <1>7, <1>11 DEF SqlInv

LEMMA SqlBatches ==
  ASSUME SqlInv, NEW m \in Manager, NEW maps \in Seq(Sql!Map), Sql!addMaps2Table(m, maps)
  PROVE  SqlInv'
<1>1. CASE ~Sql!usable(m)
  <2>1. answer' = FALSE /\ UNCHANGED <<isOpen, database, connections, files, asked, shared>>
    BY <1>1 DEF Sql!addMaps2Table, Sql!managerVars, Sql!historyVars
  <2> QED BY <2>1, WriteFails
<1>2. CASE Sql!usable(m)
  <2> DEFINE begin == IF Sql!connection(m).begin # <<>> THEN Sql!connection(m).begin
                      ELSE <<Sql!table(m)>>
             after(n) == [Sql!table(m) EXCEPT !.rows =
                            @ \o [i \in 1..n |-> Sql!full(maps[i], Sql!table(m).keys)]]
             leaves(rest, t) ==
               /\ connections' = [connections EXCEPT ![database[m]] =
                                    <<[Sql!connection(m) EXCEPT !.begin = rest]>>]
               /\ files' = [files EXCEPT ![Sql!pathOf(m)] = t]
  <2>1. PICK n \in 0..Len(maps) :
          /\ answer' = (maps # <<>> /\ n = Len(maps))
          /\ IF answer' THEN \E rest \in {<<>>, begin} : leaves(rest, after(n))
             ELSE leaves(<<>>, Sql!undone(begin[1], after(n)))
          /\ UNCHANGED <<isOpen, database, asked, shared>>
    BY <1>2 DEF Sql!addMaps2Table, Sql!managerVars, Sql!historyVars
  <2>2. Sql!table(m) \in Table /\ Sql!connection(m) \in Connection  BY <1>2, Usable
  <2>3. <<>> \in Begin /\ begin \in Begin /\ begin[1] \in Table
    <3>1. Sql!connection(m).begin \in Begin  BY <2>2 DEF Connection, Begin
    <3> HIDE DEF Table
    <3> QED BY <2>2, <3>1 DEF Begin
  <2>4. after(n) \in Table  BY <2>2, TableAfter
  <2>5. answer' \in BOOLEAN
    <3>1. answer' = (maps # <<>> /\ n = Len(maps))  BY <2>1
    <3> QED BY <3>1, Zenon
  <2>6. \E rest \in Begin, t \in Table : leaves(rest, t)
    <3> HIDE DEF begin, after, leaves, Begin, Table
    <3> QED BY <2>1, <2>3, <2>4 DEF Sql!undone
  <2>7. PICK rest \in Begin, t \in Table : leaves(rest, t)  BY <2>6
  <2> HIDE DEF begin, after, Begin, Table
  <2> QED BY <1>2, <2>1, <2>5, <2>7, Leaves
<1> QED BY <1>1, <1>2

\* Opening: whoever had the connection of that name shares it from now on.
LEMMA SqlOpens ==
  ASSUME SqlInv, NEW m \in Manager, NEW p \in DbPath, Sql!open(m, p)
  PROVE  SqlInv'
<1> USE DEF Sql!managerVars, Sql!historyVars
<1>1. CASE isOpen[m]
  <2>1. answer' = FALSE /\ UNCHANGED <<isOpen, database, connections, files, asked, shared>>
    <3>1. PICK ok \in BOOLEAN : answer' = (~isOpen[m] /\ ok)  BY DEF Sql!open
    <3>2. answer' = FALSE  BY <1>1, <3>1, Zenon
    <3> QED BY <1>1, <3>2 DEF Sql!open
  <2> QED BY <2>1, WriteFails
<1>2. CASE ~isOpen[m]
  <2> DEFINE known == connections[p.file]
             c == IF known # <<>> THEN known[1] ELSE Sql!newConnection(p)
             meets == known # <<>> /\ (c.path # p \/ \E k \in Manager \ {m} : database[k] = p.file)
  <2>1. PICK ok \in BOOLEAN :
          /\ answer' = (~isOpen[m] /\ ok)
          /\ isOpen' = [isOpen EXCEPT ![m] = ok]
          /\ database' = [database EXCEPT ![m] = p.file]
          /\ connections' = [connections EXCEPT ![p.file] = <<[c EXCEPT !.open = ok, !.begin = <<>>]>>]
          /\ files' = Sql!rolledBack(files, known)
          /\ asked' = [asked EXCEPT ![m] = <<p>>]
          /\ shared' = IF meets THEN shared \cup {p.file} ELSE shared
    BY <1>2 DEF Sql!open, Sql!openFlag
  <2>2. p.file \in Sql!Name /\ p.file # "none"  BY NoneNamed
  <2>3. /\ isOpen \in [Manager -> BOOLEAN]
        /\ database \in [Manager -> Sql!Name \cup {"none"}]
        /\ connections \in [Sql!Name -> AtMostOne(Connection)]
        /\ files \in [DbPath -> Table] /\ asked \in [Manager -> AtMostOne(DbPath)]
    BY DEF SqlInv, SqlTypes
  <2>4. known \in AtMostOne(Connection)
    <3> HIDE DEF AtMostOne, Connection
    <3> QED BY <2>2, <2>3
  <2>5. c \in Connection
    <3>1. CASE known # <<>>
      <4>1. PICK x \in Connection : known = <<x>>  BY <2>4, <3>1 DEF AtMostOne
      <4> HIDE DEF Connection, known
      <4> QED BY <3>1, <4>1
    <3>2. CASE known = <<>>
      <4>1. c = [path |-> p, open |-> FALSE, begin |-> <<>>]  BY <3>2 DEF Sql!newConnection
      <4> HIDE DEF Table, c
      <4> QED BY <4>1 DEF Connection
    <3> QED BY <3>1, <3>2
  <2>6. known = <<>> => c.path = p  BY DEF Sql!newConnection
  <2>7. known # <<>> => known = <<c>>
    <3>1. ASSUME known # <<>> PROVE known = <<c>>
      <4>1. PICK x \in Connection : known = <<x>>  BY <2>4, <3>1 DEF AtMostOne
      <4> HIDE DEF Connection, known
      <4> QED BY <3>1, <4>1
    <3> QED BY <3>1
  <2> DEFINE d == [c EXCEPT !.open = ok, !.begin = <<>>]
  <2>8. d \in Connection /\ d.path = c.path /\ d.open = ok
    <3> HIDE DEF c, Table
    <3> QED BY <2>5 DEF Connection
  <2> HIDE DEF c, d
  <2>9. connections' = [connections EXCEPT ![p.file] = <<d>>]  BY <2>1 DEF d
  <2>10. /\ connections' \in [Sql!Name -> AtMostOne(Connection)]
         /\ connections'[p.file] = <<d>>
         /\ \A n \in Sql!Name : n # p.file => connections'[n] = connections[n]
    <3>1. <<d>> \in AtMostOne(Connection)  BY <2>8 DEF AtMostOne
    <3> HIDE DEF AtMostOne, Connection
    <3> QED BY <2>2, <2>3, <2>9, <3>1
  <2> HIDE DEF known
  <2>11. files' \in [DbPath -> Table]
    <3> HIDE DEF Table, Connection
    <3> QED BY <2>1, <2>3, <2>4, RolledBack
  <2>12. <<p>> \in AtMostOne(DbPath) /\ answer' \in BOOLEAN
    <3>1. answer' = (~isOpen[m] /\ ok)  BY <2>1
    <3>2. answer' \in BOOLEAN  BY <3>1, Zenon
    <3> QED BY <3>2 DEF AtMostOne
  <2>13. SqlTypes'
    <3> HIDE DEF AtMostOne, Connection, Table, meets
    <3> QED BY <2>1, <2>2, <2>3, <2>10, <2>11, <2>12 DEF SqlTypes
  <2>14. /\ isOpen'[m] = ok /\ database'[m] = p.file /\ asked'[m] = <<p>>
         /\ shared \subseteq shared'
         /\ meets => p.file \in shared'
         /\ \A k \in Manager \ {m} : /\ isOpen'[k] = isOpen[k] /\ database'[k] = database[k]
                                     /\ asked'[k] = asked[k]
    <3> HIDE DEF AtMostOne, Connection, Table, meets
    <3> QED BY <2>1, <2>3
  <2> HIDE DEF meets
  <2>15. \A k \in Manager \ {m} : database[k] = p.file => p.file \in shared'
    <3> SUFFICES ASSUME NEW k \in Manager \ {m}, database[k] = p.file
                 PROVE  p.file \in shared'
      OBVIOUS
    <3>1. known # <<>>  BY <2>2 DEF SqlInv, Own, known
    <3>2. meets  BY <3>1 DEF meets
    <3> QED BY <2>14, <3>2
  <2>16. ASSUME NEW k \in Manager, database'[k] # "none"
         PROVE  /\ connections'[database'[k]] # <<>>
                /\ asked'[k] # <<>> /\ asked'[k][1].file = database'[k]
    <3>1. CASE k = m  BY <2>10, <2>14, <3>1
    <3>2. CASE k # m
      <4>1. /\ database[k] # "none" /\ connections[database[k]] # <<>>
            /\ asked[k] # <<>> /\ asked[k][1].file = database[k]
        BY <2>14, <2>16, <3>2 DEF SqlInv, Own
      <4>2. database[k] \in Sql!Name  BY <2>3, <4>1
      <4> QED BY <2>10, <2>14, <3>2, <4>1, <4>2
    <3> QED BY <3>1, <3>2
  <2>17. ASSUME NEW i \in Manager, NEW k \in Manager, i # k, database'[i] # "none",
                database'[i] = database'[k]
         PROVE  database'[i] \in shared'
    <3>1. CASE i = m  BY <2>14, <2>15, <2>17, <3>1
    <3>2. CASE k = m  BY <2>14, <2>15, <2>17, <3>2
    <3>3. CASE i # m /\ k # m
      <4>1. database[i] \in shared  BY <2>14, <2>17, <3>3 DEF SqlInv, Own
      <4> QED BY <2>14, <3>3, <4>1
    <3> QED BY <3>1, <3>2, <3>3
  <2>18. ASSUME NEW k \in Manager, isOpen'[k]
         PROVE  /\ asked'[k] # <<>>
                /\ \/ asked'[k][1].file \in shared'
                   \/ /\ database'[k] = asked'[k][1].file
                      /\ connections'[database'[k]][1].open
                      /\ connections'[database'[k]][1].path = asked'[k][1]
    <3>1. CASE k = m
      <4>1. asked'[k] = <<p>> /\ database'[k] = p.file /\ ok  BY <2>14, <2>18, <3>1
      <4>2. CASE meets  BY <2>14, <4>1, <4>2
      <4>3. CASE ~meets
        <5>1. c.path = p  BY <2>6, <4>3 DEF meets
        <5>2. connections'[database'[k]] = <<d>>  BY <2>10, <4>1
        <5>3. /\ connections'[database'[k]][1] = d
              /\ asked'[k][1] = p /\ asked'[k] # <<>>
          BY <4>1, <5>2
        <5>4. d.open /\ d.path = p  BY <2>8, <4>1, <5>1
        <5> HIDE DEF Connection, AtMostOne
        <5> QED BY <4>1, <5>3, <5>4
      <4> QED BY <4>2, <4>3
    <3>2. CASE k # m
      <4>1. isOpen[k] /\ asked'[k] = asked[k] /\ database'[k] = database[k]
        BY <2>14, <2>18, <3>2
      <4>2. asked[k] # <<>>  BY <4>1 DEF SqlInv, Own
      <4>3. CASE asked[k][1].file \in shared  BY <2>14, <4>1, <4>2, <4>3
      <4>4. CASE database[k] = p.file
        <5>1. asked[k][1].file = p.file  BY <2>2, <4>4 DEF SqlInv, Own
        <5> QED BY <2>15, <3>2, <4>1, <4>2, <4>4, <5>1
      <4>5. CASE asked[k][1].file \notin shared /\ database[k] # p.file
        <5>1. /\ database[k] = asked[k][1].file
              /\ connections[database[k]][1].open
              /\ connections[database[k]][1].path = asked[k][1]
          BY <4>1, <4>5 DEF SqlInv, Own
        <5>2. asked[k] \in AtMostOne(DbPath)  BY <2>3
        <5>3. asked[k][1] \in DbPath  BY <4>2, <5>2 DEF AtMostOne
        <5>4. database[k] \in Sql!Name  BY <5>1, <5>3, NoneNamed
        <5> QED BY <2>10, <4>1, <4>2, <4>5, <5>1, <5>4
      <4> QED BY <4>3, <4>4, <4>5
    <3> QED BY <3>1, <3>2
  <2>19. Own'
    <3> QED BY <2>16, <2>17, <2>18 DEF Own
  <2> QED BY <2>13, <2>19 DEF SqlInv
<1> QED BY <1>1, <1>2

\* Closing: whoever shared the connection is left with none.
LEMMA SqlRemoves ==
  ASSUME SqlInv, NEW m \in Manager, database[m] # "none",
         isOpen' = [isOpen EXCEPT ![m] = FALSE], Sql!removeConnection(database[m]),
         UNCHANGED <<asked, shared>>, answer' \in BOOLEAN
  PROVE  SqlInv'
<1> DEFINE n == database[m]
<1>1. /\ isOpen \in [Manager -> BOOLEAN]
      /\ database \in [Manager -> Sql!Name \cup {"none"}]
      /\ connections \in [Sql!Name -> AtMostOne(Connection)]
      /\ files \in [DbPath -> Table] /\ asked \in [Manager -> AtMostOne(DbPath)]
  BY DEF SqlInv, SqlTypes
<1>2. n \in Sql!Name /\ n # "none"  BY <1>1
<1>3. /\ connections' = [connections EXCEPT ![n] = <<>>]
      /\ files' = Sql!rolledBack(files, connections[n])
      /\ database' = [k \in Manager |-> IF database[k] = n THEN "none" ELSE database[k]]
  BY DEF Sql!removeConnection, Sql!None
<1> HIDE DEF n
<1>4. files' \in [DbPath -> Table]
  <2>1. connections[n] \in AtMostOne(Connection)
    <3> HIDE DEF AtMostOne, Connection
    <3> QED BY <1>1, <1>2
  <2> HIDE DEF Table, Connection
  <2> QED BY <1>1, <1>3, <2>1, RolledBack
<1>5. /\ connections' \in [Sql!Name -> AtMostOne(Connection)]
      /\ \A i \in Sql!Name : i # n => connections'[i] = connections[i]
  <2>1. <<>> \in AtMostOne(Connection)  BY DEF AtMostOne
  <2> HIDE DEF AtMostOne, Connection
  <2> QED BY <1>1, <1>2, <1>3, <2>1
<1>6. SqlTypes'
  <2> HIDE DEF AtMostOne, Connection, Table
  <2> QED BY <1>1, <1>3, <1>4, <1>5 DEF SqlTypes
<1>7. /\ \A k \in Manager : database[k] # n => database'[k] = database[k]
      /\ \A k \in Manager : database[k] = n => database'[k] = "none"
      /\ \A k \in Manager : isOpen'[k] => isOpen[k] /\ k # m
  <2> HIDE DEF AtMostOne, Connection, Table
  <2> QED BY <1>1, <1>3
<1>8. \A k \in Manager : database'[k] # "none" =>
        /\ connections'[database'[k]] # <<>>
        /\ asked'[k] # <<>> /\ asked'[k][1].file = database'[k]
  <2> SUFFICES ASSUME NEW k \in Manager, database'[k] # "none"
               PROVE  /\ connections'[database'[k]] # <<>>
                      /\ asked'[k] # <<>> /\ asked'[k][1].file = database'[k]
    OBVIOUS
  <2>1. database[k] # n /\ database'[k] = database[k]  BY <1>7
  <2>2. /\ connections[database[k]] # <<>>
        /\ asked[k] # <<>> /\ asked[k][1].file = database[k]
    BY <2>1 DEF SqlInv, Own
  <2>3. database[k] \in Sql!Name  BY <1>1, <2>1
  <2> QED BY <1>5, <2>1, <2>2, <2>3
<1>9. \A i, k \in Manager : i # k /\ database'[i] # "none" /\ database'[i] = database'[k]
        => database'[i] \in shared'
  BY <1>7 DEF SqlInv, Own
<1>10. ASSUME NEW k \in Manager, isOpen'[k]
       PROVE  /\ asked'[k] # <<>>
              /\ \/ asked'[k][1].file \in shared'
                 \/ /\ database'[k] = asked'[k][1].file
                    /\ connections'[database'[k]][1].open
                    /\ connections'[database'[k]][1].path = asked'[k][1]
  <2>1. isOpen[k] /\ k # m  BY <1>7, <1>10
  <2>2. asked[k] # <<>>  BY <2>1 DEF SqlInv, Own
  <2>3. CASE asked[k][1].file \in shared  BY <2>2, <2>3
  <2>4. CASE database[k] = n
    <3>1. n \in shared /\ asked[k][1].file = n
      BY <1>2, <2>1, <2>4 DEF SqlInv, Own, n
    <3> QED BY <2>2, <3>1
  <2>5. CASE asked[k][1].file \notin shared /\ database[k] # n
    <3>1. /\ database[k] = asked[k][1].file
          /\ connections[database[k]][1].open
          /\ connections[database[k]][1].path = asked[k][1]
      BY <2>1, <2>5 DEF SqlInv, Own
    <3>2. asked[k] \in AtMostOne(DbPath)  BY <1>1
    <3>3. asked[k][1] \in DbPath  BY <2>2, <3>2 DEF AtMostOne
    <3>4. database[k] \in Sql!Name  BY <3>1, <3>3, NoneNamed
    <3> QED BY <1>5, <1>7, <2>2, <2>5, <3>1, <3>4
  <2> QED BY <2>3, <2>4, <2>5
<1>11. Own'  BY <1>8, <1>9, <1>10 DEF Own
<1> QED BY <1>6, <1>11 DEF SqlInv

\* Closing without a connection, or one that was not open.
LEMMA SqlForgets ==
  ASSUME SqlInv, NEW m \in Manager, isOpen' = [isOpen EXCEPT ![m] = FALSE],
         database' \in {database, [database EXCEPT ![m] = "none"]},
         UNCHANGED <<connections, files, asked, shared>>, answer' \in BOOLEAN,
         database' = database \/ ~isOpen[m] \/ database[m] = "none"
  PROVE  SqlInv'
<1>1. /\ isOpen \in [Manager -> BOOLEAN]
      /\ database \in [Manager -> Sql!Name \cup {"none"}]
      /\ UNCHANGED <<connections, files, asked, shared>>
  BY DEF SqlInv, SqlTypes
<1>2. \A k \in Manager : /\ database'[k] \in {database[k], "none"}
                         /\ isOpen'[k] => isOpen[k] /\ k # m
                         /\ k # m => database'[k] = database[k]
  BY <1>1
<1>3. SqlTypes'
  <2> HIDE DEF AtMostOne, Connection, Table
  <2>1. database' \in [Manager -> Sql!Name \cup {"none"}]  BY <1>1
  <2> QED BY <1>1, <2>1 DEF SqlInv, SqlTypes
<1>4. Own'  BY <1>2 DEF SqlInv, Own
<1> QED BY <1>3, <1>4 DEF SqlInv

LEMMA SqlCloses ==
  ASSUME SqlInv, NEW m \in Manager, Sql!close(m) \/ Sql!destroy(m)
  PROVE  SqlInv'
<1> USE DEF Sql!historyVars, Sql!None
<1>1. /\ isOpen' = [isOpen EXCEPT ![m] = FALSE] /\ UNCHANGED <<asked, shared>>
      /\ answer' \in BOOLEAN
  <2>1. isOpen[m] \in BOOLEAN  BY DEF SqlInv, SqlTypes
  <2> QED BY <2>1 DEF Sql!close, Sql!destroy
<1>2. CASE isOpen[m] /\ database[m] # "none"
  <2>1. Sql!removeConnection(database[m])  BY <1>2 DEF Sql!close, Sql!destroy
  <2> QED BY <1>1, <1>2, <2>1, SqlRemoves
<1>3. CASE ~(isOpen[m] /\ database[m] # "none")
  <2>1. /\ database' \in {database, [database EXCEPT ![m] = "none"]}
        /\ UNCHANGED <<connections, files>>
    BY <1>3 DEF Sql!close, Sql!destroy
  <2> QED BY <1>1, <1>3, <2>1, SqlForgets
<1> QED BY <1>2, <1>3

LEMMA SqlSteps ==
  ASSUME SqlInv, Sql!SqlNext
  PROVE  SqlInv'
<1>1. PICK m \in Manager :
        \/ \E p \in DbPath : Sql!open(m, p)
        \/ Sql!close(m) \/ Sql!destroy(m)
        \/ \E keys \in SUBSET Key : Sql!createTable(m, keys)
        \/ Sql!removeKeyAtTable(m)
        \/ \E k \in Key : Sql!addKey2Table(m, k)
        \/ \E map \in Sql!Map :
             \/ Sql!addMap2Table(m, map) \/ Sql!removeMapAtTable(m, map)
             \/ \E equalTo \in Sql!Map : Sql!setValues2Table(m, map, equalTo)
             \/ \E next \in Sql!Map : Sql!addMaps2Table(m, <<map, next>>)
        \/ Sql!addMaps2Table(m, <<>>)
  BY DEF Sql!SqlNext
<1>2. CASE \E p \in DbPath : Sql!open(m, p)  BY <1>2, SqlOpens
<1>3. CASE Sql!close(m) \/ Sql!destroy(m)  BY <1>3, SqlCloses
<1>4. CASE \/ \E keys \in SUBSET Key : Sql!createTable(m, keys)
           \/ Sql!removeKeyAtTable(m)
           \/ \E k \in Key : Sql!addKey2Table(m, k)
           \/ \E map \in Sql!Map : Sql!addMap2Table(m, map) \/ Sql!removeMapAtTable(m, map)
           \/ \E map, equalTo \in Sql!Map : Sql!setValues2Table(m, map, equalTo)
  BY <1>4, SqlWrites
<1>5. CASE \E map, next \in Sql!Map : Sql!addMaps2Table(m, <<map, next>>)
  <2>1. PICK map \in Sql!Map, next \in Sql!Map : Sql!addMaps2Table(m, <<map, next>>)  BY <1>5
  <2>2. PICK maps \in Seq(Sql!Map) : maps = <<map, next>>
    <3>1. <<map, next>> \in Seq(Sql!Map)  OBVIOUS
    <3> QED BY <3>1
  <2>3. Sql!addMaps2Table(m, maps)  BY <2>1, <2>2
  <2> QED BY <2>3, SqlBatches
<1>6. CASE Sql!addMaps2Table(m, <<>>)
  <2>1. PICK maps \in Seq(Sql!Map) : maps = <<>>  BY EmptySeq
  <2>2. Sql!addMaps2Table(m, maps)  BY <1>6, <2>1
  <2> QED BY <2>2, SqlBatches
<1> QED BY <1>1, <1>2, <1>3, <1>4, <1>5, <1>6

\* What calls of SqlDatabaseManager promise

\* Nothing is pending: no connection that ends takes a table back.
LEMMA NothingPending ==
  ASSUME SqlInv, ~Sql!pending, NEW n \in Sql!Name
  PROVE  connections[n] = <<>> \/ connections[n][1].begin = <<>>
BY DEF Sql!pending

LEMMA RollsNothingBack ==
  ASSUME SqlInv, ~Sql!pending, NEW n \in Sql!Name
  PROVE  Sql!rolledBack(files, connections[n]) = files
<1>1. PICK f \in [DbPath -> Table], cs \in AtMostOne(Connection) :
        f = files /\ cs = connections[n]
  <2>1. files \in [DbPath -> Table] /\ connections \in [Sql!Name -> AtMostOne(Connection)]
    BY DEF SqlInv, SqlTypes
  <2> HIDE DEF Table, Connection, AtMostOne
  <2> QED BY <2>1
<1>2. cs = <<>> \/ cs[1].begin = <<>>  BY <1>1, NothingPending
<1> HIDE DEF Table, Connection, AtMostOne
<1>3. Sql!rolledBack(f, cs) = f  BY <1>2, RolledBack
<1> QED BY <1>1, <1>3

LEMMA KeepsTheFiles ==
  ASSUME SqlInv, Sql!SqlNext
  PROVE  Sql!KeepsFiles
<1> SUFFICES ASSUME ~answer', ~Sql!pending
             PROVE  files' = files
  BY DEF Sql!KeepsFiles
<1>1. PICK m \in Manager :
        \/ \E p \in DbPath : Sql!open(m, p)
        \/ Sql!close(m) \/ Sql!destroy(m)
        \/ \E keys \in SUBSET Key : Sql!createTable(m, keys)
        \/ Sql!removeKeyAtTable(m)
        \/ \E k \in Key : Sql!addKey2Table(m, k)
        \/ \E map \in Sql!Map :
             \/ Sql!addMap2Table(m, map) \/ Sql!removeMapAtTable(m, map)
             \/ \E equalTo \in Sql!Map : Sql!setValues2Table(m, map, equalTo)
             \/ \E next \in Sql!Map : Sql!addMaps2Table(m, <<map, next>>)
        \/ Sql!addMaps2Table(m, <<>>)
  BY DEF Sql!SqlNext
<1>2. ASSUME NEW p \in DbPath, Sql!open(m, p)
      PROVE  files' = files
  <2>1. p.file \in Sql!Name  BY NoneNamed
  <2>2. files' = files \/ files' = Sql!rolledBack(files, connections[p.file])
    BY <1>2 DEF Sql!open
  <2> QED BY <2>1, <2>2, RollsNothingBack
<1>3. ASSUME Sql!close(m) \/ Sql!destroy(m)
      PROVE  files' = files
  <2>1. ~isOpen[m]  BY <1>3 DEF Sql!close, Sql!destroy
  <2> QED BY <1>3, <2>1 DEF Sql!close, Sql!destroy
<1>4. ASSUME NEW can, NEW changed, Sql!write(m, can, changed)
      PROVE  files' = files
  BY <1>4 DEF Sql!write
<1>5. ASSUME NEW maps, Sql!addMaps2Table(m, maps)
      PROVE  files' = files
  <2>1. CASE ~Sql!usable(m)  BY <1>5, <2>1 DEF Sql!addMaps2Table
  <2>2. CASE Sql!usable(m)
    <3> DEFINE t == IF Sql!connection(m).begin # <<>> THEN Sql!connection(m).begin[1]
                    ELSE Sql!table(m)
    <3>1. files' = [files EXCEPT ![Sql!pathOf(m)] = t]
      <4> DEFINE begin == IF Sql!connection(m).begin # <<>> THEN Sql!connection(m).begin
                          ELSE <<Sql!table(m)>>
      <4>1. files' = [files EXCEPT ![Sql!pathOf(m)] = begin[1]]
        BY <1>5, <2>2 DEF Sql!addMaps2Table, Sql!undone
      <4> QED BY <4>1
    <3>2. /\ database[m] \in Sql!Name /\ Sql!pathOf(m) \in DbPath
          /\ Sql!table(m) = files[Sql!pathOf(m)]
          /\ connections[database[m]] = <<Sql!connection(m)>>
      BY <2>2, Usable
    <3>3. Sql!connection(m).begin = <<>>
      <4>1. connections[database[m]] = <<>> \/ connections[database[m]][1].begin = <<>>
        BY <3>2, NothingPending
      <4> QED BY <3>2, <4>1
    <3>4. t = files[Sql!pathOf(m)]  BY <3>2, <3>3
    <3>5. files \in [DbPath -> Table]  BY DEF SqlInv, SqlTypes
    <3> HIDE DEF t, Table
    <3> QED BY <3>1, <3>4, <3>5
  <2> QED BY <2>1, <2>2
<1>6. CASE \E keys \in SUBSET Key : Sql!createTable(m, keys)
  BY <1>4, <1>6 DEF Sql!createTable
<1>7. CASE Sql!removeKeyAtTable(m)
  BY <1>4, <1>7 DEF Sql!removeKeyAtTable
<1>8. CASE \E k \in Key : Sql!addKey2Table(m, k)
  BY <1>4, <1>8 DEF Sql!addKey2Table
<1>9. CASE \E map \in Sql!Map : Sql!addMap2Table(m, map)
  BY <1>4, <1>9 DEF Sql!addMap2Table
<1>10. CASE \E map \in Sql!Map : Sql!removeMapAtTable(m, map)
  BY <1>4, <1>10 DEF Sql!removeMapAtTable
<1>11. CASE \E map, equalTo \in Sql!Map : Sql!setValues2Table(m, map, equalTo)
  BY <1>4, <1>11 DEF Sql!setValues2Table
<1>12. CASE \E map, next \in Sql!Map : Sql!addMaps2Table(m, <<map, next>>)
  BY <1>5, <1>12
<1> QED BY <1>1, <1>2, <1>3, <1>5, <1>6, <1>7, <1>8, <1>9, <1>10, <1>11, <1>12

\* The rows that agree are one more after a row that agrees was added.
LEMMA AgreeingRows ==
  ASSUME NEW t \in Table, NEW map \in Sql!Map, DOMAIN map \subseteq t.keys,
         NEW u \in Table, u.rows = Append(t.rows, Sql!full(map, t.keys))
  PROVE  Len(Sql!picked(u.rows, {i \in DOMAIN u.rows : Sql!agrees(u.rows[i], map)}))
           = Len(Sql!picked(t.rows, {i \in DOMAIN t.rows : Sql!agrees(t.rows[i], map)})) + 1
<1> DEFINE n == Len(t.rows)
           row == Sql!full(map, t.keys)
           I == {i \in DOMAIN t.rows : Sql!agrees(t.rows[i], map)}
           J == {i \in DOMAIN u.rows : Sql!agrees(u.rows[i], map)}
<1>1. /\ t.rows \in Seq(RowOf(t.keys)) /\ n \in Nat /\ DOMAIN t.rows = 1..n
      /\ u.rows \in Seq(RowOf(u.keys)) /\ DOMAIN u.rows = 1..Len(u.rows)
  BY TableHas
<1>2. /\ Len(u.rows) = n + 1 /\ u.rows[n + 1] = row
      /\ \A i \in 1..n : u.rows[i] = t.rows[i]
  <2>1. t.keys \in SUBSET Key  BY TableHas
  <2>2. row \in RowOf(t.keys)  BY <2>1, RowFull
  <2> HIDE DEF RowOf, row, n
  <2>3. /\ Len(Append(t.rows, row)) = Len(t.rows) + 1
        /\ \A i \in 1..Len(t.rows) : Append(t.rows, row)[i] = t.rows[i]
        /\ Append(t.rows, row)[Len(t.rows) + 1] = row
    BY <1>1, <2>2, AppendProperties
  <2> QED BY <2>3 DEF row, n
<1>3. Sql!agrees(row, map)  BY DEF Sql!agrees, Sql!full
<1> HIDE DEF n, row
<1>4. J = I \cup {n + 1} /\ n + 1 \notin I /\ I \in SUBSET (1..n) /\ J \in SUBSET (1..Len(u.rows))
  <2>1. DOMAIN u.rows = 1..n \cup {n + 1}  BY <1>1, <1>2
  <2>2. ASSUME NEW i \in 1..n PROVE Sql!agrees(u.rows[i], map) <=> Sql!agrees(t.rows[i], map)
    BY <1>2
  <2>3. Sql!agrees(u.rows[n + 1], map)  BY <1>2, <1>3
  <2>4. n + 1 \notin 1..n  BY <1>1
  <2> QED BY <1>1, <2>1, <2>2, <2>3, <2>4
<1>5. IsFiniteSet(I)
  <2>1. IsFiniteSet(1..n)  BY <1>1, FS_Interval
  <2> QED BY <1>4, <2>1, FS_Subset
<1> HIDE DEF I, J
<1>6. Cardinality(I \cup {n + 1}) = Cardinality(I) + 1  BY <1>4, <1>5, FS_AddElement
<1>7. Len(Sql!picked(t.rows, I)) = Cardinality(I)
  <2>1. I \in SUBSET (1..Len(t.rows))  BY <1>4 DEF n
  <2> HIDE DEF RowOf
  <2> QED BY <1>1, <2>1, Picked
<1>8. Len(Sql!picked(u.rows, J)) = Cardinality(J)
  <2> HIDE DEF RowOf
  <2> QED BY <1>1, <1>4, Picked
<1> QED BY <1>4, <1>6, <1>7, <1>8 DEF I, J

\* The largest number of a key is none below that of a row.
LEMMA MaxCovers ==
  ASSUME NEW u \in Table, NEW k \in u.keys, NEW i \in 1..Len(u.rows)
  PROVE  LET ns == {Sql!Null} \cup {u.rows[j][k] : j \in DOMAIN u.rows}
         IN (CHOOSE n \in ns : \A j \in ns : j <= n) >= u.rows[i][k]
<1> DEFINE n == Len(u.rows)
           numbers == {u.rows[j][k] : j \in 1..n}
           ns == {Sql!Null} \cup {u.rows[j][k] : j \in DOMAIN u.rows}
           f == [j \in 1..n |-> u.rows[j][k]]
           max == CHOOSE m \in ns : \A j \in ns : j <= m
<1>1. u.rows \in Seq(RowOf(u.keys)) /\ n \in Nat /\ DOMAIN u.rows = 1..n  BY TableHas
<1>2. ns = {0} \cup numbers  BY <1>1 DEF Sql!Null
<1>3. \A j \in 1..n : u.rows[j][k] \in Int
  <2> SUFFICES ASSUME NEW j \in 1..n PROVE u.rows[j][k] \in Int
    OBVIOUS
  <2>1. u.rows[j] \in RowOf(u.keys)
    <3> HIDE DEF RowOf
    <3> QED BY <1>1, ElementOfSeq
  <2>2. u.rows[j][k] \in Number \cup {0}  BY <2>1 DEF RowOf
  <2>3. Number \cup {0} \subseteq Int  BY SqlBounds
  <2> HIDE DEF n, numbers, ns
  <2> QED BY <2>2, <2>3
<1>4. IsFiniteSet(numbers)
  <2>1. f \in Surjection(1..n, numbers)  BY DEF Surjection
  <2>2. IsFiniteSet(1..n)  BY <1>1, FS_Interval
  <2> HIDE DEF f, numbers, n
  <2> QED BY <2>1, <2>2, FS_Surjection
<1>5. ns \in SUBSET Int /\ IsFiniteSet(ns) /\ ns # {} /\ u.rows[i][k] \in ns
  <2>1. numbers \in SUBSET Int /\ u.rows[i][k] \in numbers  BY <1>3
  <2> HIDE DEF numbers, ns
  <2>2. IsFiniteSet(numbers \cup {0})  BY <1>4, FS_AddElement
  <2>3. ns = numbers \cup {0}  BY <1>2
  <2> DEFINE all == numbers \cup {0}
             r == u.rows[i][k]
  <2>4. all \in SUBSET Int /\ all # {} /\ r \in all  BY <2>1
  <2> HIDE DEF all
  <2> QED BY <2>2, <2>3, <2>4 DEF all
<1> HIDE DEF ns
<1>6. \E m \in ns : \A j \in ns : j <= m  BY <1>5, Greatest
<1>7. max \in ns /\ \A j \in ns : j <= max
  <2> HIDE DEF max
  <2> QED BY <1>6, Zenon DEF max
<1> HIDE DEF max
<1>8. u.rows[i][k] <= max /\ max \in Int /\ u.rows[i][k] \in Int  BY <1>5, <1>7
<1>9. max >= u.rows[i][k]  BY <1>8
<1> QED BY <1>9 DEF max, ns

LEMMA FindsAdded ==
  ASSUME SqlInv
  PROVE  Sql!FindsTheAdded
<1> SUFFICES ASSUME NEW m \in Manager, NEW map \in Sql!Map, Sql!addMap2Table(m, map), answer'
             PROVE  /\ Len(Sql!getMapFromTable(m, map)') = Len(Sql!getMapFromTable(m, map)) + 1
                    /\ \A k \in DOMAIN map : Sql!getKeyMaxFromTable(m, k)' >= map[k]
  BY DEF Sql!FindsTheAdded
<1> DEFINE t == Sql!table(m)
           u == Sql!added(t, map)
<1>1. /\ Sql!tableExisted(m) /\ Sql!names(map, t)
      /\ files' = [files EXCEPT ![Sql!pathOf(m)] = u]
      /\ UNCHANGED <<isOpen, database, connections>>
  BY DEF Sql!addMap2Table, Sql!write, Sql!canAdd, Sql!managerVars
<1>2. /\ isOpen[m] /\ Sql!usable(m) /\ DOMAIN map # {} /\ DOMAIN map \subseteq t.keys
  BY <1>1 DEF Sql!tableExisted, Sql!names
<1>3. Sql!pathOf(m) \in DbPath /\ t \in Table  BY <1>2, Usable
<1>4. u \in Table  BY <1>3, TableAdded
<1>5. u.keys = t.keys /\ u.rows = Append(t.rows, Sql!full(map, t.keys))
  <2>1. t = [keys |-> t.keys, rows |-> t.rows]  BY <1>3, TableHas
  <2> HIDE DEF t
  <2> QED BY <2>1 DEF Sql!added
<1>6. files \in [DbPath -> Table]  BY DEF SqlInv, SqlTypes
<1> HIDE DEF t, u
<1>7. /\ Sql!usable(m)' /\ isOpen'[m] /\ Sql!pathOf(m)' = Sql!pathOf(m)
  BY <1>1, <1>2 DEF Sql!usable, Sql!pathOf, Sql!connection
<1>8. Sql!table(m)' = u
  <2> HIDE DEF Table
  <2>1. files'[Sql!pathOf(m)] = u  BY <1>1, <1>3, <1>6
  <2> QED BY <1>7, <2>1 DEF Sql!table
<1>9. u # Sql!noTable  BY <1>2, <1>5 DEF Sql!noTable
<1>10. Sql!tableExisted(m)'  BY <1>7, <1>8, <1>9 DEF Sql!tableExisted
<1>11. Sql!getMapFromTable(m, map)
         = Sql!picked(t.rows, {i \in DOMAIN t.rows : Sql!agrees(t.rows[i], map)})
  BY <1>1, <1>2 DEF Sql!getMapFromTable, t
<1>12. Sql!getMapFromTable(m, map)'
         = Sql!picked(u.rows, {i \in DOMAIN u.rows : Sql!agrees(u.rows[i], map)})
  BY <1>2, <1>5, <1>8, <1>10 DEF Sql!getMapFromTable
<1>13. Len(Sql!getMapFromTable(m, map)') = Len(Sql!getMapFromTable(m, map)) + 1
  <2>1. Len(Sql!picked(u.rows, {i \in DOMAIN u.rows : Sql!agrees(u.rows[i], map)}))
          = Len(Sql!picked(t.rows, {i \in DOMAIN t.rows : Sql!agrees(t.rows[i], map)})) + 1
    <3> HIDE DEF Table
    <3> QED BY <1>2, <1>3, <1>4, <1>5, AgreeingRows
  <2> QED BY <1>11, <1>12, <2>1, Zenon
<1>14. ASSUME NEW k \in DOMAIN map
       PROVE  Sql!getKeyMaxFromTable(m, k)' >= map[k]
  <2> DEFINE ns == {Sql!Null} \cup {u.rows[j][k] : j \in DOMAIN u.rows}
             max == CHOOSE n \in ns : \A j \in ns : j <= n
  <2>1. k \in u.keys /\ Sql!keyExisted(m, k)'
    BY <1>2, <1>5, <1>8, <1>10 DEF Sql!keyExisted
  <2>2. Sql!getKeyMaxFromTable(m, k)' = max
    BY <1>8, <2>1 DEF Sql!getKeyMaxFromTable
  <2>3. \E i \in 1..Len(u.rows) : u.rows[i][k] = map[k]
    <3>1. t.rows \in Seq(RowOf(t.keys)) /\ Len(t.rows) \in Nat /\ t.keys \in SUBSET Key
      BY <1>3, TableHas
    <3>2. Sql!full(map, t.keys) \in RowOf(t.keys)  BY <3>1, RowFull
    <3>3. Len(u.rows) = Len(t.rows) + 1 /\ u.rows[Len(t.rows) + 1] = Sql!full(map, t.keys)
      <4> HIDE DEF RowOf
      <4> QED BY <1>5, <3>1, <3>2, AppendProperties
    <3>4. Sql!full(map, t.keys)[k] = map[k]  BY <1>2 DEF Sql!full
    <3> QED BY <3>1, <3>3, <3>4
  <2>4. \A i \in 1..Len(u.rows) : max >= u.rows[i][k]
    BY <1>4, <2>1, MaxCovers
  <2> HIDE DEF max
  <2> QED BY <2>2, <2>3, <2>4
<1> QED BY <1>13, <1>14

LEMMA SqlInvariance == Spec => []SqlInv
<1>1. Init => SqlInv
  <2> SUFFICES ASSUME Init PROVE SqlInv
    OBVIOUS
  <2>1. /\ isOpen = [m \in Manager |-> FALSE] /\ database = [m \in Manager |-> "none"]
        /\ connections = [n \in Sql!Name |-> <<>>]
        /\ files = [p \in DbPath |-> Sql!noTable]
        /\ asked = [m \in Manager |-> <<>>] /\ answer = TRUE
    BY DEF Init, QtInit, Sql!SqlInit, Sql!None
  <2>2. Sql!noTable \in Table
    <3>1. {} \in SUBSET Key /\ <<>> \in Seq(RowOf({}))  BY EmptySeq
    <3> HIDE DEF RowOf
    <3> QED BY <3>1, TableOf DEF Sql!noTable
  <2>3. <<>> \in AtMostOne(Connection) /\ <<>> \in AtMostOne(DbPath)  BY DEF AtMostOne
  <2> HIDE DEF Table, Connection, AtMostOne
  <2>4. SqlTypes  BY <2>1, <2>2, <2>3 DEF SqlTypes
  <2>5. Own  BY <2>1 DEF Own
  <2> QED BY <2>4, <2>5 DEF SqlInv
<1>2. SqlInv /\ [Next]_dataVars => SqlInv'
  <2> SUFFICES ASSUME SqlInv, [Next]_dataVars PROVE SqlInv'
    OBVIOUS
  <2>1. Sql!SqlNext \/ UNCHANGED sqlVars
    BY DEF Next, QtNext, dataVars, qtVars
  <2>2. UNCHANGED sqlVars => SqlInv'
    <3> HIDE DEF Table, Connection, AtMostOne
    <3> QED BY DEF sqlVars, SqlInv, SqlTypes, Own
  <2> QED BY <2>1, <2>2, SqlSteps
<1> QED BY <1>1, <1>2, PTL DEF Spec

\* A manager works on the file it was asked for, a call that fails leaves the files alone, and
\* what is added is found (SqlDatabaseManager: open, close, the writes and the readers).
THEOREM DatabaseIsSound == Spec => DatabaseSound
<1>1. SqlInv => Sql!OpenMeansOwn  BY OwnIsOpen
<1>2. SqlInv /\ [Next]_dataVars => [Sql!KeepsFiles]_Sql!sqlVars
  <2> SUFFICES ASSUME SqlInv, [Next]_dataVars PROVE Sql!KeepsFiles \/ UNCHANGED Sql!sqlVars
    OBVIOUS
  <2>1. Sql!SqlNext \/ UNCHANGED sqlVars
    BY DEF Next, QtNext, dataVars, qtVars
  <2>2. UNCHANGED sqlVars => UNCHANGED Sql!sqlVars
    BY DEF sqlVars, Sql!sqlVars, Sql!managerVars, Sql!historyVars
  <2> QED BY <2>1, <2>2, KeepsTheFiles
<1>3. SqlInv => [Sql!FindsTheAdded]_Sql!sqlVars
  BY FindsAdded
<1> QED BY <1>1, <1>2, <1>3, SqlInvariance, PTL
        DEF Spec, DatabaseSound, Sql!FailureChangesNothing, Sql!AddedIsFound

----
\* Qt's JSON: what an assignment leaves alone.
LEMMA KeyIs ==
  ASSUME NEW key \in JsonKey
  PROVE  IF Json!isIndex(key) THEN key.index \in Nat /\ key = [index |-> key.index]
         ELSE key.name \in STRING /\ key = [name |-> key.name]
<1>1. key \in [name : STRING] \/ key \in [index : Nat]  BY DataAssumption
<1>2. CASE key \in [name : STRING]
  <2>1. DOMAIN key = {"name"}  BY <1>2
  <2>2. ~Json!isIndex(key)  BY <2>1 DEF Json!isIndex
  <2> QED BY <1>2, <2>2
<1>3. CASE key \in [index : Nat]
  <2>1. DOMAIN key = {"index"}  BY <1>3
  <2>2. Json!isIndex(key)  BY <2>1 DEF Json!isIndex
  <2> QED BY <1>3, <2>2
<1> QED BY <1>1, <1>2, <1>3

LEMMA PrefixIs ==
  ASSUME NEW S, NEW s \in Seq(S), NEW t \in Seq(S)
  PROVE  Json!IsPrefix(s, t) <=> Len(s) <= Len(t) /\ \A i \in 1..Len(s) : s[i] = t[i]
<1>1. SUFFICES ASSUME Len(s) <= Len(t)
               PROVE  SubSeq(s, 1, Len(s)) = SubSeq(t, 1, Len(s))
                        <=> \A i \in 1..Len(s) : s[i] = t[i]
  BY DEF Json!IsPrefix
<1>2. Len(s) \in Nat /\ Len(t) \in Nat  OBVIOUS
<1> DEFINE p == SubSeq(s, 1, Len(s))
           q == SubSeq(t, 1, Len(s))
<1>3. /\ p \in Seq(S) /\ Len(p) = Len(s) /\ \A i \in 1..Len(s) : p[i] = s[i]
      /\ q \in Seq(S) /\ Len(q) = Len(s) /\ \A i \in 1..Len(s) : q[i] = t[i]
  BY <1>1, <1>2, SubSeqProperties
<1> HIDE DEF p, q
<1>4. p = q <=> \A i \in 1..Len(s) : p[i] = q[i]
  BY <1>3, SeqEqual
<1>5. p = q <=> \A i \in 1..Len(s) : s[i] = t[i]
  BY <1>3, <1>4
<1> QED BY <1>5 DEF p, q

\* One key before one or two, and two before one or two.
LEMMA PrefixOf ==
  /\ \A a, c : Json!IsPrefix(<<a>>, <<c>>) <=> a = c
  /\ \A a, c, d : Json!IsPrefix(<<a>>, <<c, d>>) <=> a = c
  /\ \A a, b, c : ~Json!IsPrefix(<<a, b>>, <<c>>)
  /\ \A a, b, c, d : Json!IsPrefix(<<a, b>>, <<c, d>>) <=> a = c /\ b = d
<1>1. ASSUME NEW a, NEW b
      PROVE  /\ <<a, b>> \in Seq({a, b}) /\ Len(<<a, b>>) = 2
             /\ <<a, b>>[1] = a /\ <<a, b>>[2] = b
  OBVIOUS
<1>0. ASSUME NEW a
      PROVE  <<a>> \in Seq({a}) /\ Len(<<a>>) = 1 /\ <<a>>[1] = a
  OBVIOUS
<1>2. ASSUME NEW A, NEW B, NEW s \in Seq(A), NEW t \in Seq(B)
      PROVE  Json!IsPrefix(s, t) <=> Len(s) <= Len(t) /\ \A i \in 1..Len(s) : s[i] = t[i]
  <2>1. s \in Seq(A \cup B) /\ t \in Seq(A \cup B)  OBVIOUS
  <2> QED BY <2>1, PrefixIs
<1>3. ASSUME NEW a, NEW B, NEW s \in Seq(B), Len(s) \in 1..2
      PROVE  Json!IsPrefix(<<a>>, s) <=> a = s[1]
  <2> DEFINE p == <<a>>
  <2>1. p \in Seq({a}) /\ Len(p) = 1 /\ p[1] = a  BY <1>0
  <2> HIDE DEF p
  <2>2. Json!IsPrefix(p, s) <=> Len(p) <= Len(s) /\ \A i \in 1..Len(p) : p[i] = s[i]
    BY <1>2, <1>3, <2>1
  <2>3. Json!IsPrefix(p, s) <=> a = s[1]
    BY <1>3, <2>1, <2>2
  <2> QED BY <2>3 DEF p
<1>4. ASSUME NEW a, NEW b, NEW B, NEW s \in Seq(B), Len(s) \in 1..2
      PROVE  Json!IsPrefix(<<a, b>>, s) <=> Len(s) = 2 /\ a = s[1] /\ b = s[2]
  <2> DEFINE p == <<a, b>>
  <2>1. p \in Seq({a, b}) /\ Len(p) = 2 /\ p[1] = a /\ p[2] = b  BY <1>1
  <2> HIDE DEF p
  <2>2. Json!IsPrefix(p, s) <=> Len(p) <= Len(s) /\ \A i \in 1..Len(p) : p[i] = s[i]
    BY <1>2, <1>4, <2>1
  <2>3. Json!IsPrefix(p, s) <=> Len(s) = 2 /\ a = s[1] /\ b = s[2]
    BY <1>4, <2>1, <2>2
  <2> QED BY <2>3 DEF p
<1>5. ASSUME NEW a, NEW c PROVE Json!IsPrefix(<<a>>, <<c>>) <=> a = c
  <2> DEFINE s == <<c>>
  <2>1. s \in Seq({c}) /\ Len(s) = 1 /\ s[1] = c  BY <1>0
  <2> HIDE DEF s
  <2>2. Len(s) \in 1..2  BY <2>1
  <2>3. Json!IsPrefix(<<a>>, s) <=> a = s[1]  BY <1>3, <2>1, <2>2
  <2> QED BY <2>1, <2>3 DEF s
<1>6. ASSUME NEW a, NEW c, NEW d PROVE Json!IsPrefix(<<a>>, <<c, d>>) <=> a = c
  <2> DEFINE s == <<c, d>>
  <2>1. s \in Seq({c, d}) /\ Len(s) = 2 /\ s[1] = c /\ s[2] = d  BY <1>1
  <2> HIDE DEF s
  <2>2. Len(s) \in 1..2  BY <2>1
  <2>3. Json!IsPrefix(<<a>>, s) <=> a = s[1]  BY <1>3, <2>1, <2>2
  <2> QED BY <2>1, <2>3 DEF s
<1>7. ASSUME NEW a, NEW b, NEW c PROVE ~Json!IsPrefix(<<a, b>>, <<c>>)
  <2> DEFINE s == <<c>>
  <2>1. s \in Seq({c}) /\ Len(s) = 1 /\ s[1] = c  BY <1>0
  <2> HIDE DEF s
  <2>2. Len(s) \in 1..2  BY <2>1
  <2>3. Json!IsPrefix(<<a, b>>, s) => Len(s) = 2  BY <1>4, <2>1, <2>2
  <2> QED BY <2>1, <2>3 DEF s
<1>8. ASSUME NEW a, NEW b, NEW c, NEW d
      PROVE  Json!IsPrefix(<<a, b>>, <<c, d>>) <=> a = c /\ b = d
  <2> DEFINE s == <<c, d>>
  <2>1. s \in Seq({c, d}) /\ Len(s) = 2 /\ s[1] = c /\ s[2] = d  BY <1>1
  <2> HIDE DEF s
  <2>2. Len(s) \in 1..2  BY <2>1
  <2>3. Json!IsPrefix(<<a, b>>, s) <=> Len(s) = 2 /\ a = s[1] /\ b = s[2]
    BY <1>4, <2>1, <2>2
  <2> QED BY <2>1, <2>3 DEF s
<1> QED BY <1>5, <1>6, <1>7, <1>8

\* A scalar that is the value under a name, or a child of it.
under(k, v, e) ==
  \/ v.kind = "scalar" /\ e = [keys |-> <<[name |-> k]>>, value |-> v]
  \/ \E d \in Json!leaves1(v) : e = [keys |-> <<[name |-> k], d[1]>>, value |-> d[2]]

LEMMA LeavesOfObject ==
  ASSUME NEW g, NEW e
  PROVE  e \in Json!leaves(Json!object(g)) <=> \E k \in DOMAIN g : under(k, g[k], e)
<1> DEFINE C == Json!children(Json!object(g))
<1>1. C = {<<[name |-> k], g[k]>> : k \in DOMAIN g}
  BY DEF Json!children, Json!object
<1>2. ASSUME NEW k \in DOMAIN g
      PROVE  <<[name |-> k], g[k]>>[1] = [name |-> k] /\ <<[name |-> k], g[k]>>[2] = g[k]
  OBVIOUS
<1>3. e \in Json!leaves(Json!object(g)) <=>
        \/ \E c \in C : c[2].kind = "scalar" /\ e = [keys |-> <<c[1]>>, value |-> c[2]]
        \/ \E c \in C : \E d \in Json!leaves1(c[2]) :
             e = [keys |-> <<c[1], d[1]>>, value |-> d[2]]
  BY DEF Json!leaves, Json!leaves1
<1> HIDE DEF C
<1>4. ASSUME NEW k \in DOMAIN g PROVE <<[name |-> k], g[k]>> \in C
  BY <1>1
<1>5. ASSUME NEW c \in C PROVE \E k \in DOMAIN g : c[1] = [name |-> k] /\ c[2] = g[k]
  BY <1>1
<1>6. ASSUME e \in Json!leaves(Json!object(g)) PROVE \E k \in DOMAIN g : under(k, g[k], e)
  BY <1>3, <1>5, <1>6, Zenon DEF under
<1>7. ASSUME NEW k \in DOMAIN g, under(k, g[k], e)
      PROVE  e \in Json!leaves(Json!object(g))
  BY <1>2, <1>3, <1>4, <1>7, Zenon DEF under
<1> QED BY <1>6, <1>7

isApart(e, keys) == ~Json!IsPrefix(keys, e.keys) /\ ~Json!IsPrefix(e.keys, keys)

LEMMA ApartIs ==
  ASSUME NEW e, NEW c
  PROVE  /\ e.keys = <<c>> => /\ \A a : isApart(e, <<a>>) <=> a # c
                             /\ \A a, b : isApart(e, <<a, b>>) <=> a # c
         /\ \A d : e.keys = <<c, d>> => /\ \A a : isApart(e, <<a>>) <=> a # c
                                       /\ \A a, b : isApart(e, <<a, b>>) <=> a # c \/ b # d
<1>1. ASSUME e.keys = <<c>>, NEW a, NEW b
      PROVE  (isApart(e, <<a>>) <=> a # c) /\ (isApart(e, <<a, b>>) <=> a # c)
  <2>1. Json!IsPrefix(<<a>>, e.keys) <=> a = c  BY <1>1, PrefixOf
  <2>2. Json!IsPrefix(e.keys, <<a>>) <=> a = c  BY <1>1, PrefixOf
  <2>3. ~Json!IsPrefix(<<a, b>>, e.keys)  BY <1>1, PrefixOf
  <2>4. Json!IsPrefix(e.keys, <<a, b>>) <=> a = c  BY <1>1, PrefixOf
  <2> QED BY <2>1, <2>2, <2>3, <2>4, Zenon DEF isApart
<1>2. ASSUME NEW d, e.keys = <<c, d>>, NEW a, NEW b
      PROVE  /\ isApart(e, <<a>>) <=> a # c
             /\ isApart(e, <<a, b>>) <=> a # c \/ b # d
  <2>1. Json!IsPrefix(<<a>>, e.keys) <=> a = c  BY <1>2, PrefixOf
  <2>2. ~Json!IsPrefix(e.keys, <<a>>)  BY <1>2, PrefixOf
  <2>3. Json!IsPrefix(<<a, b>>, e.keys) <=> a = c /\ b = d  BY <1>2, PrefixOf
  <2>4. Json!IsPrefix(e.keys, <<a, b>>) <=> a = c /\ b = d  BY <1>2, PrefixOf
  <2> QED BY <2>1, <2>2, <2>3, <2>4, Zenon DEF isApart
<1> QED BY <1>1, <1>2

\* A scalar apart from one key.
LEMMA ApartFromOne ==
  ASSUME NEW k, NEW v, NEW e, under(k, v, e), NEW n
  PROVE  isApart(e, <<[name |-> n]>>) <=> k # n
<1>1. [name |-> n] = [name |-> k] <=> n = k
  <2>1. [name |-> n].name = n /\ [name |-> k].name = k  OBVIOUS
  <2> QED BY <2>1
<1>2. CASE e = [keys |-> <<[name |-> k]>>, value |-> v]
  <2>1. e.keys = <<[name |-> k]>>  BY <1>2
  <2> QED BY <1>1, <2>1, ApartIs
<1>3. ASSUME NEW d, e = [keys |-> <<[name |-> k], d[1]>>, value |-> d[2]]
      PROVE  isApart(e, <<[name |-> n]>>) <=> k # n
  <2>1. e.keys = <<[name |-> k], d[1]>>  BY <1>3
  <2> QED BY <1>1, <2>1, ApartIs
<1> QED BY <1>2, <1>3 DEF under

\* A scalar apart from a key under another.
LEMMA ApartFromTwo ==
  ASSUME NEW k, NEW v, NEW e, NEW n, NEW b
  PROVE  under(k, v, e) /\ isApart(e, <<[name |-> n], b>>) <=>
           \/ k # n /\ under(k, v, e)
           \/ \E d \in Json!leaves1(v) :
                d[1] # b /\ k = n /\ e = [keys |-> <<[name |-> k], d[1]>>, value |-> d[2]]
<1>1. [name |-> n] = [name |-> k] <=> n = k
  <2>1. [name |-> n].name = n /\ [name |-> k].name = k  OBVIOUS
  <2> QED BY <2>1
<1>2. ASSUME e = [keys |-> <<[name |-> k]>>, value |-> v]
      PROVE  isApart(e, <<[name |-> n], b>>) <=> k # n
  <2>1. e.keys = <<[name |-> k]>>  BY <1>2
  <2> QED BY <1>1, <2>1, ApartIs
<1>3. ASSUME NEW d, e = [keys |-> <<[name |-> k], d[1]>>, value |-> d[2]]
      PROVE  isApart(e, <<[name |-> n], b>>) <=> k # n \/ d[1] # b
  <2>1. e.keys = <<[name |-> k], d[1]>>  BY <1>3
  <2> QED BY <1>1, <2>1, ApartIs
<1> QED BY <1>2, <1>3, Zenon DEF under

\* The same but for one name.
LEMMA OneNameChanged ==
  ASSUME NEW g, NEW h, NEW n,
         \A k : k # n => ((k \in DOMAIN h <=> k \in DOMAIN g) /\ (k \in DOMAIN g => h[k] = g[k]))
  PROVE  LET keys == <<[name |-> n]>> IN
         Json!apart(Json!leaves(Json!object(h)), keys)
           = Json!apart(Json!leaves(Json!object(g)), keys)
<1> DEFINE keys == <<[name |-> n]>>
           G == Json!leaves(Json!object(g))
           H == Json!leaves(Json!object(h))
<1>1. ASSUME NEW e, isApart(e, keys) PROVE e \in H <=> e \in G
  <2>1. ASSUME NEW k, NEW v, under(k, v, e) PROVE k # n
    BY <1>1, <2>1, ApartFromOne
  <2>2. e \in H <=> \E k \in DOMAIN h : under(k, h[k], e)  BY LeavesOfObject
  <2>3. e \in G <=> \E k \in DOMAIN g : under(k, g[k], e)  BY LeavesOfObject
  <2> QED BY <2>1, <2>2, <2>3
<1> HIDE DEF G, H
<1>2. Json!apart(H, keys) = Json!apart(G, keys)
  BY <1>1 DEF Json!apart, isApart
<1> QED BY <1>2 DEF G, H

\* A child changed, or made, in what is under one name.
LEMMA OneChildChanged ==
  ASSUME NEW g, NEW h, NEW n \in DOMAIN g \cap DOMAIN h, NEW b,
         \A k : k # n => ((k \in DOMAIN h <=> k \in DOMAIN g) /\ (k \in DOMAIN g => h[k] = g[k])),
         \A d : d[1] # b => (d \in Json!leaves1(h[n]) <=> d \in Json!leaves1(g[n]))
  PROVE  LET keys == <<[name |-> n], b>> IN
         Json!apart(Json!leaves(Json!object(h)), keys)
           = Json!apart(Json!leaves(Json!object(g)), keys)
<1> DEFINE keys == <<[name |-> n], b>>
           G == Json!leaves(Json!object(g))
           H == Json!leaves(Json!object(h))
           other(k, v, e) == \E d \in Json!leaves1(v) :
             d[1] # b /\ k = n /\ e = [keys |-> <<[name |-> k], d[1]>>, value |-> d[2]]
<1>1. ASSUME NEW e PROVE (e \in H /\ isApart(e, keys)) <=> (e \in G /\ isApart(e, keys))
  <2>1. ASSUME NEW k, NEW v
        PROVE  (under(k, v, e) /\ isApart(e, keys)) <=> (k # n /\ under(k, v, e)) \/ other(k, v, e)
    BY ApartFromTwo
  <2>2. e \in H <=> \E k \in DOMAIN h : under(k, h[k], e)  BY LeavesOfObject
  <2>3. e \in G <=> \E k \in DOMAIN g : under(k, g[k], e)  BY LeavesOfObject
  <2>4. other(n, h[n], e) <=> other(n, g[n], e)  OBVIOUS
  <2>5. ASSUME NEW k, NEW v, other(k, v, e) PROVE k = n  BY <2>5
  <2> HIDE DEF other, keys, G, H
  <2>6. ASSUME e \in H, isApart(e, keys) PROVE e \in G
    <3>1. PICK k \in DOMAIN h : under(k, h[k], e)  BY <2>2, <2>6
    <3>2. (k # n /\ under(k, h[k], e)) \/ other(k, h[k], e)  BY <2>1, <2>6, <3>1
    <3>3. CASE k # n  BY <2>3, <3>1, <3>3
    <3>4. CASE k = n
      <4>1. other(n, g[n], e)  BY <2>4, <3>2, <3>4
      <4> QED BY <2>1, <2>3, <4>1
    <3> QED BY <3>3, <3>4
  <2>7. ASSUME e \in G, isApart(e, keys) PROVE e \in H
    <3>1. PICK k \in DOMAIN g : under(k, g[k], e)  BY <2>3, <2>7
    <3>2. (k # n /\ under(k, g[k], e)) \/ other(k, g[k], e)  BY <2>1, <2>7, <3>1
    <3>3. CASE k # n  BY <2>2, <3>1, <3>3
    <3>4. CASE k = n
      <4>1. other(n, h[n], e)  BY <2>4, <3>2, <3>4
      <4> QED BY <2>1, <2>2, <4>1
    <3> QED BY <3>3, <3>4
  <2> QED BY <2>6, <2>7
<1> HIDE DEF G, H
<1>2. Json!apart(H, keys) = Json!apart(G, keys)
  BY <1>1 DEF Json!apart, isApart
<1> QED BY <1>2 DEF G, H

----
(* What is kept: a root with names, arrays that are sequences, and a name in first. *)

SeqIfArray(v) == v.kind = "array" => \E S : v.items \in Seq(S)
Fields(g) == \A k \in DOMAIN g : SeqIfArray(g[k])
ObjectOf(v) == \E g : v = Json!object(g) /\ Fields(g)
FirstNamed(items) ==
  items # <<>> => \E n, v : /\ items = <<[key |-> [name |-> n], jvalue |-> v, hasParent |-> TRUE]>>
                            /\ SeqIfArray(v)

JsonInv ==
  /\ ObjectOf(root)
  /\ saved # <<>> => ObjectOf(saved[1])
  /\ FirstNamed(first)

LEMMA ObjectIs ==
  ASSUME NEW g
  PROVE  /\ Json!object(g).kind = "object" /\ Json!object(g).fields = g
         /\ Json!toObject(Json!object(g)) = g
BY DEF Json!object, Json!toObject

LEMMA NullIs ==
  /\ Json!NullValue.kind = "null"
  /\ \A k, e : ~under(k, Json!NullValue, e)
  /\ SeqIfArray(Json!NullValue)
<1>1. Json!NullValue.kind = "null"  BY DEF Json!NullValue
<1>2. Json!leaves1(Json!NullValue) = {}  BY <1>1 DEF Json!leaves1, Json!children
<1> QED BY <1>1, <1>2 DEF under, SeqIfArray

LEMMA ScalarIs ==
  ASSUME NEW s
  PROVE  /\ Json!scalar(s).kind = "scalar"
         /\ SeqIfArray(Json!scalar(s))
BY DEF Json!scalar, SeqIfArray

LEMMA ArraySeq ==
  ASSUME NEW v, SeqIfArray(v)
  PROVE  \E S : Json!toArray(v) \in Seq(S)
<1>1. <<>> \in Seq({})  BY EmptySeq
<1> QED BY <1>1 DEF SeqIfArray, Json!toArray

\* An object, a name made in it when it is not there.
Opens(g, key, h) ==
  /\ Json!opened(Json!object(g), key) = Json!object(h) /\ Fields(h)
  /\ DOMAIN h = DOMAIN g \cup {key.name}
  /\ \A k \in DOMAIN g : h[k] = g[k]
  /\ key.name \notin DOMAIN g => h[key.name] = Json!NullValue

LEMMA OpenedObject ==
  ASSUME NEW g, NEW key, ~Json!isIndex(key), Fields(g)
  PROVE  \E h : Opens(g, key, h)
<1> DEFINE n == key.name
           h == Json!insert(g, n, Json!NullValue)
<1>1. CASE n \in DOMAIN g
  <2>1. Json!opened(Json!object(g), key) = Json!object(g)  BY <1>1, ObjectIs DEF Json!opened
  <2>2. Opens(g, key, g)  BY <1>1, <2>1 DEF Opens
  <2> QED BY <2>2
<1>2. CASE n \notin DOMAIN g
  <2>1. Json!opened(Json!object(g), key) = Json!object(h)
    BY <1>2, ObjectIs DEF Json!opened
  <2>2. DOMAIN h = DOMAIN g \cup {n} /\ h[n] = Json!NullValue /\ \A k \in DOMAIN g : h[k] = g[k]
    BY <1>2 DEF Json!insert
  <2> HIDE DEF h
  <2>3. Fields(h)  BY <2>2, NullIs DEF Fields
  <2>4. Opens(g, key, h)  BY <2>1, <2>2, <2>3 DEF Opens
  <2> QED BY <2>4
<1> QED BY <1>1, <1>2

\* A name given a value in a root.
LEMMA Inserted ==
  ASSUME NEW g, NEW n, NEW v
  PROVE  LET h == Json!insert(g, n, v) IN
         /\ DOMAIN h = DOMAIN g \cup {n} /\ h[n] = v /\ \A k \in DOMAIN g \ {n} : h[k] = g[k]
         /\ Fields(g) /\ SeqIfArray(v) => Fields(h)
BY DEF Json!insert, Fields

LEMMA SavedAtRoot ==
  ASSUME NEW g, NEW item, ~Json!isIndex(item.key)
  PROVE  Json!saveAtParent(Json!object(g), item)
           = Json!object(Json!insert(g, item.key.name, item.jvalue))
BY ObjectIs DEF Json!saveAtParent

\* A kept item saved in the root changes what is under its name.
LEMMA RootAfterItem ==
  ASSUME ObjectOf(root), NEW item, NEW n, NEW v,
         item = [key |-> [name |-> n], jvalue |-> v, hasParent |-> TRUE]
  PROVE  LET keys == <<[name |-> n]>> IN
         /\ Json!apart(Json!leaves(Json!rootAfter(item)), keys)
              = Json!apart(Json!leaves(root), keys)
         /\ SeqIfArray(v) => ObjectOf(Json!rootAfter(item))
<1>1. PICK g : root = Json!object(g) /\ Fields(g)  BY DEF ObjectOf
<1> DEFINE h == Json!insert(g, n, v)
<1>2. ~Json!isIndex(item.key)
  <2>1. DOMAIN item.key = {"name"}  OBVIOUS
  <2> QED BY <2>1 DEF Json!isIndex
<1>3. Json!rootAfter(item) = Json!object(h)
  BY <1>1, <1>2, SavedAtRoot DEF Json!rootAfter
<1>4. /\ DOMAIN h = DOMAIN g \cup {n} /\ h[n] = v /\ \A k \in DOMAIN g \ {n} : h[k] = g[k]
      /\ Fields(g) /\ SeqIfArray(v) => Fields(h)
  BY Inserted
<1> HIDE DEF h
<1>5. \A k : k # n => ((k \in DOMAIN h <=> k \in DOMAIN g) /\ (k \in DOMAIN g => h[k] = g[k]))
  BY <1>4
<1>6. LET keys == <<[name |-> n]>> IN
      Json!apart(Json!leaves(Json!object(h)), keys)
        = Json!apart(Json!leaves(Json!object(g)), keys)
  BY <1>5, OneNameChanged
<1>7. SeqIfArray(v) => ObjectOf(Json!object(h))  BY <1>1, <1>4 DEF ObjectOf
<1> QED BY <1>1, <1>3, <1>6, <1>7

\* What is opened or saved under a key stays a sequence if it is an array.
LEMMA OpenedSeq ==
  ASSUME NEW v, SeqIfArray(v), NEW key
  PROVE  SeqIfArray(Json!opened(v, key))
<1>1. CASE Json!isIndex(key) /\ key.index = Len(Json!toArray(v))
  <2>1. PICK S : Json!toArray(v) \in Seq(S)  BY ArraySeq
  <2>2. Append(Json!toArray(v), Json!NullValue) \in Seq(S \cup {Json!NullValue})  BY <2>1
  <2> QED BY <1>1, <2>2 DEF Json!opened, Json!array, SeqIfArray
<1>2. CASE ~(Json!isIndex(key) /\ key.index = Len(Json!toArray(v)))
  BY <1>2, ObjectIs DEF Json!opened, SeqIfArray
<1> QED BY <1>1, <1>2

LEMMA SavedSeq ==
  ASSUME NEW v, SeqIfArray(v), NEW item
  PROVE  SeqIfArray(Json!saveAtParent(v, item))
<1>1. CASE Json!isIndex(item.key)
  <2> DEFINE w == item.jvalue
             i == item.key.index
  <2>1. PICK S : Json!toArray(v) \in Seq(S)  BY ArraySeq
  <2>2. [Json!toArray(v) EXCEPT ![i + 1] = w] \in Seq(S \cup {w})
    <3> HIDE DEF w, i
    <3> DEFINE a == Json!toArray(v)
    <3>1. a \in Seq(S \cup {w}) /\ w \in S \cup {w}  BY <2>1
    <3> HIDE DEF a
    <3>2. a \in [1..Len(a) -> S \cup {w}] /\ Len(a) \in Nat  BY <3>1
    <3>3. [a EXCEPT ![i + 1] = w] \in [1..Len(a) -> S \cup {w}]  BY <3>1, <3>2
    <3> QED BY <3>2, <3>3, SeqDef DEF a
  <2> QED BY <1>1, <2>2 DEF Json!saveAtParent, Json!array, SeqIfArray
<1>2. CASE ~Json!isIndex(item.key)
  BY <1>2, ObjectIs DEF Json!saveAtParent, SeqIfArray
<1> QED BY <1>1, <1>2

ItemAs(key, v) == [key |-> key, jvalue |-> v, hasParent |-> TRUE]

LEMMA ItemIs ==
  ASSUME NEW key, NEW v
  PROVE  /\ ItemAs(key, v).key = key /\ ItemAs(key, v).jvalue = v
         /\ ItemAs(key, v).hasParent
         /\ \A x : [ItemAs(key, v) EXCEPT !.jvalue = x] = ItemAs(key, x)
<1>1. /\ ItemAs(key, v).key = key /\ ItemAs(key, v).jvalue = v
      /\ ItemAs(key, v).hasParent
  BY DEF ItemAs
<1>2. ASSUME NEW x PROVE [ItemAs(key, v) EXCEPT !.jvalue = x] = ItemAs(key, x)
  <2> DEFINE yes == TRUE
  <2> HIDE DEF yes
  <2>1. [[key |-> key, jvalue |-> v, hasParent |-> yes] EXCEPT !.jvalue = x]
          = [key |-> key, jvalue |-> x, hasParent |-> yes]
    OBVIOUS
  <2> QED BY <2>1, Zenon DEF yes, ItemAs
<1> QED BY <1>1, <1>2

\* The item of a name in a root, and the root it leaves.
LEMMA NameOpened ==
  ASSUME NEW g, Fields(g), NEW key \in JsonKey, ~Json!isIndex(key)
  PROVE  \E h : /\ Opens(g, key, h)
                /\ Json!found(Json!object(g), key)
                /\ Json!itemAt(Json!object(g), key)
                     = [key |-> [name |-> key.name], jvalue |-> h[key.name], hasParent |-> TRUE]
                /\ SeqIfArray(h[key.name])
<1>0. PICK h : Opens(g, key, h)  BY OpenedObject
<1>1. /\ Json!opened(Json!object(g), key) = Json!object(h) /\ Fields(h)
      /\ DOMAIN h = DOMAIN g \cup {key.name}
  BY <1>0 DEF Opens
<1>2. Json!found(Json!object(g), key)  BY DEF Json!found
<1>3. Json!at(Json!object(g), key) = h[key.name]  BY <1>1, ObjectIs DEF Json!at
<1>4. key = [name |-> key.name]  BY KeyIs
<1>5. Json!itemAt(Json!object(g), key)
        = [key |-> [name |-> key.name], jvalue |-> h[key.name], hasParent |-> TRUE]
  BY <1>2, <1>3, <1>4 DEF Json!itemAt
<1>6. SeqIfArray(h[key.name])  BY <1>1 DEF Fields
<1> QED BY <1>0, <1>2, <1>5, <1>6

LEMMA ReadKeepsLeaves ==
  ASSUME NEW g, Fields(g), NEW key \in JsonKey, ~Json!isIndex(key)
  PROVE  Json!leaves(Json!opened(Json!object(g), key)) = Json!leaves(Json!object(g))
<1>0. PICK h : Opens(g, key, h)  BY OpenedObject
<1>1. /\ Json!opened(Json!object(g), key) = Json!object(h)
      /\ DOMAIN h = DOMAIN g \cup {key.name}
      /\ \A k \in DOMAIN g : h[k] = g[k]
      /\ key.name \notin DOMAIN g => h[key.name] = Json!NullValue
  BY <1>0 DEF Opens
<1>2. ASSUME NEW e
      PROVE  (\E k \in DOMAIN h : under(k, h[k], e)) <=> (\E k \in DOMAIN g : under(k, g[k], e))
  BY <1>1, NullIs
<1>3. ASSUME NEW e
      PROVE  e \in Json!leaves(Json!object(h)) <=> e \in Json!leaves(Json!object(g))
  BY <1>2, LeavesOfObject
<1>4. Json!leaves(Json!object(h)) = Json!leaves(Json!object(g))
  BY <1>3
<1> QED BY <1>1, <1>4

\* What is in an object, and in an array.
LEMMA ScalarsOfObject ==
  ASSUME NEW f, NEW d
  PROVE  d \in Json!leaves1(Json!object(f))
           <=> \E k \in DOMAIN f : d = <<[name |-> k], f[k]>> /\ f[k].kind = "scalar"
<1>1. Json!children(Json!object(f)) = {<<[name |-> k], f[k]>> : k \in DOMAIN f}
  BY ObjectIs DEF Json!children
<1>2. ASSUME NEW k PROVE <<[name |-> k], f[k]>>[2] = f[k]  OBVIOUS
<1> QED BY <1>1, <1>2 DEF Json!leaves1

LEMMA ScalarsOfArray ==
  ASSUME NEW a, NEW d
  PROVE  d \in Json!leaves1(Json!array(a))
           <=> \E i \in DOMAIN a : d = <<[index |-> i - 1], a[i]>> /\ a[i].kind = "scalar"
<1>1. Json!children(Json!array(a)) = {<<[index |-> i - 1], a[i]>> : i \in DOMAIN a}
  BY DEF Json!children, Json!array
<1>2. ASSUME NEW i PROVE <<[index |-> i - 1], a[i]>>[2] = a[i]  OBVIOUS
<1> QED BY <1>1, <1>2 DEF Json!leaves1

\* An assignment to a key of what holds such keys changes no other child.
LEMMA ChildAssigned ==
  ASSUME NEW u, SeqIfArray(u), NEW b \in JsonKey, NEW v,
         Json!holds(u, b), Json!found(u, b)
  PROVE  \A d : d[1] # b =>
           (d \in Json!leaves1(Json!assigned2(u, b, v)) <=> d \in Json!leaves1(u))
<1> DEFINE w == Json!assigned2(u, b, v)
           item == ItemAs(b, v)
<1>1. /\ Json!itemAt(u, b) = ItemAs(b, Json!at(u, b))
      /\ w = Json!saveAtParent(Json!opened(u, b), [Json!itemAt(u, b) EXCEPT !.jvalue = v])
  BY DEF Json!assigned2, Json!itemAt, ItemAs
<1>2. w = Json!saveAtParent(Json!opened(u, b), item)
  BY <1>1, ItemIs
<1>3. item.key = b /\ item.jvalue = v  BY ItemIs
<1> HIDE DEF w, item
<1>4. CASE Json!isIndex(b)
  <2>1. u.kind = "array" /\ b.index \in Nat /\ b = [index |-> b.index]
    BY <1>4, KeyIs DEF Json!holds
  <2> DEFINE a == u.items
             o == Json!toArray(Json!opened(u, b))
             i == b.index
  <2>2. PICK S : a \in Seq(S)  BY <2>1 DEF SeqIfArray
  <2>3. Json!toArray(u) = a /\ i <= Len(a)  BY <1>4, <2>1 DEF Json!toArray, Json!found
  <2>4. o = IF i = Len(a) THEN Append(a, Json!NullValue) ELSE a
    BY <1>4, <2>3 DEF Json!opened, Json!array, Json!toArray
  <2>5. w = Json!array([o EXCEPT ![i + 1] = v])
    BY <1>2, <1>3, <1>4 DEF Json!saveAtParent
  <2>6. DOMAIN a = 1..Len(a) /\ Len(a) \in Nat /\ i \in Nat  BY <2>1, <2>2
  <2>7. /\ DOMAIN o = 1..(IF i = Len(a) THEN Len(a) + 1 ELSE Len(a))
        /\ \A j \in 1..Len(a) : o[j] = a[j]
    <3> HIDE DEF a, o, i
    <3>1. CASE i = Len(a)
      <4>1. a \in Seq(S \cup {Json!NullValue})  BY <2>2
      <4>2. o = Append(a, Json!NullValue)  BY <2>4, <3>1
      <4>3. Json!NullValue \in S \cup {Json!NullValue}  OBVIOUS
      <4>4. LET t == Append(a, Json!NullValue) IN
            /\ t \in Seq(S \cup {Json!NullValue}) /\ Len(t) = Len(a) + 1
            /\ \A j \in 1..Len(a) : t[j] = a[j]
        BY ONLY <4>1, <4>3, AppendProperties
      <4>5. /\ o \in Seq(S \cup {Json!NullValue}) /\ Len(o) = Len(a) + 1
            /\ \A j \in 1..Len(a) : o[j] = a[j]
        BY <4>2, <4>4, Zenon
      <4> QED BY <3>1, <4>5
    <3>2. CASE i # Len(a)  BY <2>4, <2>6, <3>2
    <3> QED BY <3>1, <3>2
  <2> DEFINE p == [o EXCEPT ![i + 1] = v]
  <2>8. DOMAIN p = DOMAIN o /\ \A j \in DOMAIN o : j # i + 1 => p[j] = o[j]
    BY DEF Json!toArray
  <2>9. u = Json!array(a) \/ Json!leaves1(u) = Json!leaves1(Json!array(a))
    BY <2>1 DEF Json!leaves1, Json!children, Json!array
  <2>10. ASSUME NEW d, d[1] # b
         PROVE  d \in Json!leaves1(w) <=> d \in Json!leaves1(u)
    <3> HIDE DEF a, o, p
    <3>1. ASSUME NEW j \in Int, NEW x, d = <<[index |-> j - 1], x>> PROVE j # i + 1
      <4>1. d[1] = [index |-> j - 1]  BY <3>1
      <4>2. d[1] # [index |-> i]  BY <2>1, <2>10
      <4> QED BY <2>6, <4>1, <4>2
    <3>2. d \in Json!leaves1(w)
            <=> \E j \in DOMAIN p : d = <<[index |-> j - 1], p[j]>> /\ p[j].kind = "scalar"
      BY <2>5, ScalarsOfArray DEF p
    <3>3. d \in Json!leaves1(u)
            <=> \E j \in DOMAIN a : d = <<[index |-> j - 1], a[j]>> /\ a[j].kind = "scalar"
      BY <2>9, ScalarsOfArray
    <3>4. \A j \in DOMAIN p : j # i + 1 => j \in DOMAIN a /\ p[j] = a[j]
      BY <2>6, <2>7, <2>8
    <3>5. \A j \in DOMAIN a : j # i + 1 => j \in DOMAIN p /\ p[j] = a[j]
      BY <2>6, <2>7, <2>8
    <3>6. DOMAIN p \subseteq Int /\ DOMAIN a \subseteq Int  BY <2>6, <2>7, <2>8
    <3> QED BY <3>1, <3>2, <3>3, <3>4, <3>5, <3>6, Zenon
  <2> QED BY <2>10 DEF w
<1>5. CASE ~Json!isIndex(b)
  <2>1. u.kind = "object" /\ b = [name |-> b.name]
    BY <1>5, KeyIs DEF Json!holds
  <2> DEFINE f == u.fields
             m == b.name
             o == Json!toObject(Json!opened(u, b))
             p == Json!insert(o, m, v)
  <2>2. Json!toObject(u) = f  BY <2>1 DEF Json!toObject
  <2>3. o = IF m \in DOMAIN f THEN f ELSE Json!insert(f, m, Json!NullValue)
    BY <1>5, <2>2, ObjectIs DEF Json!opened
  <2>4. w = Json!object(p)  BY <1>2, <1>3, <1>5 DEF Json!saveAtParent
  <2>5. DOMAIN o = DOMAIN f \cup {m} /\ \A k \in DOMAIN f : k # m => o[k] = f[k]
    <3> HIDE DEF f, m, o
    <3> QED BY <2>3 DEF Json!insert
  <2>6. DOMAIN p = DOMAIN o /\ \A k \in DOMAIN o : k # m => p[k] = o[k]
    <3> HIDE DEF f, m, o
    <3> QED BY <2>5 DEF Json!insert
  <2>7. Json!leaves1(u) = Json!leaves1(Json!object(f))
    BY <2>1 DEF Json!leaves1, Json!children, Json!object
  <2>8. ASSUME NEW d, d[1] # b
        PROVE  d \in Json!leaves1(w) <=> d \in Json!leaves1(u)
    <3> HIDE DEF f, o, p
    <3>1. ASSUME NEW k, NEW x, d = <<[name |-> k], x>> PROVE k # m
      <4>1. d[1] = [name |-> k]  BY <3>1
      <4> QED BY <2>1, <2>8, <4>1
    <3>2. d \in Json!leaves1(w)
            <=> \E k \in DOMAIN p : d = <<[name |-> k], p[k]>> /\ p[k].kind = "scalar"
      BY <2>4, ScalarsOfObject
    <3>3. d \in Json!leaves1(u)
            <=> \E k \in DOMAIN f : d = <<[name |-> k], f[k]>> /\ f[k].kind = "scalar"
      BY <2>7, ScalarsOfObject
    <3> HIDE DEF m
    <3>4. \A k \in DOMAIN p : k # m => k \in DOMAIN f /\ p[k] = f[k]
      BY <2>5, <2>6
    <3>5. \A k \in DOMAIN f : k # m => k \in DOMAIN p /\ p[k] = f[k]
      BY <2>5, <2>6
    <3> QED BY <3>1, <3>2, <3>3, <3>4, <3>5, Zenon
  <2> QED BY <2>8 DEF w
<1> QED BY <1>4, <1>5

\* What is assigned to one key, or two, is saved under the first.
Assigns(g, h, keys, v, w) ==
  /\ Opens(g, keys[1], h)
  /\ SeqIfArray(h[keys[1].name])
  /\ Len(keys) = 1 => w = v
  /\ Len(keys) = 2 => /\ Json!found(h[keys[1].name], keys[2])
                      /\ w = Json!assigned2(h[keys[1].name], keys[2], v)
  /\ Json!assigned(Json!object(g), keys, v)
       = Json!object(Json!insert(h, keys[1].name, w))

LEMMA AssignedIs ==
  ASSUME NEW g, Fields(g), NEW keys, NEW v, keys[1] \in JsonKey, ~Json!isIndex(keys[1]),
         Len(keys) \in 1..2
  PROVE  \/ \E h, w : Assigns(g, h, keys, v, w)
         \/ /\ Len(keys) = 2
            /\ \E h : Opens(g, keys[1], h) /\ ~Json!found(h[keys[1].name], keys[2])
            /\ Json!assigned(Json!object(g), keys, v) = Json!opened(Json!object(g), keys[1])
<1> DEFINE K == keys[1]
           n == K.name
           r == Json!object(g)
<1>1. PICK h : /\ Opens(g, K, h)
               /\ Json!found(r, K)
               /\ Json!itemAt(r, K) = ItemAs([name |-> n], h[n])
               /\ SeqIfArray(h[n])
  BY NameOpened DEF ItemAs
<1>2. Json!opened(r, K) = Json!object(h)  BY <1>1 DEF Opens
<1>3. ASSUME NEW x
      PROVE  Json!saveAtParent(Json!object(h), ItemAs([name |-> n], x))
               = Json!object(Json!insert(h, n, x))
  <2>1. ItemAs([name |-> n], x).key = [name |-> n] /\ ItemAs([name |-> n], x).jvalue = x
    BY ItemIs
  <2>2. ~Json!isIndex([name |-> n]) /\ [name |-> n].name = n  BY DEF Json!isIndex
  <2> HIDE DEF n
  <2> QED BY <2>1, <2>2, SavedAtRoot
<1> HIDE DEF r, n, K
<1>4. CASE Len(keys) = 1
  <2>1. Json!assigned(r, keys, v)
          = Json!saveAtParent(Json!opened(r, K), [Json!itemAt(r, K) EXCEPT !.jvalue = v])
    BY <1>1, <1>4 DEF Json!assigned, Json!assigned2, K
  <2>2. [Json!itemAt(r, K) EXCEPT !.jvalue = v] = ItemAs([name |-> n], v)
    BY <1>1, ItemIs
  <2>3. Json!assigned(r, keys, v) = Json!object(Json!insert(h, n, v))
    BY <1>2, <1>3, <2>1, <2>2
  <2>4. Assigns(g, h, keys, v, v)
    BY <1>1, <1>4, <2>3 DEF Assigns, r, n, K
  <2> QED BY <2>4
<1>5. CASE Len(keys) = 2
  <2>1. Json!itemAt(r, K).jvalue = h[n]  BY <1>1, ItemIs
  <2>2. CASE Json!found(h[n], keys[2])
    <3> DEFINE w == Json!assigned2(h[n], keys[2], v)
    <3>1. Json!assigned(r, keys, v)
            = Json!saveAtParent(Json!opened(r, K), [Json!itemAt(r, K) EXCEPT !.jvalue = w])
      BY <1>1, <1>5, <2>1, <2>2 DEF Json!assigned, K
    <3> HIDE DEF w
    <3>2. [Json!itemAt(r, K) EXCEPT !.jvalue = w] = ItemAs([name |-> n], w)
      BY <1>1, ItemIs
    <3>3. Json!assigned(r, keys, v) = Json!object(Json!insert(h, n, w))
      BY <1>2, <1>3, <3>1, <3>2
    <3>4. Assigns(g, h, keys, v, w)
      BY <1>1, <1>5, <2>2, <3>3 DEF Assigns, r, n, K, w
    <3> QED BY <3>4
  <2>3. CASE ~Json!found(h[n], keys[2])
    <3>1. Json!assigned(r, keys, v) = Json!opened(r, K)
      BY <1>5, <2>1, <2>3 DEF Json!assigned, K
    <3> QED BY <1>1, <1>5, <2>3, <3>1 DEF r, n, K
  <2> QED BY <2>2, <2>3
<1>6. Len(keys) = 1 \/ Len(keys) = 2  OBVIOUS
<1> QED BY <1>4, <1>5, <1>6

LEMMA ChainIs ==
  ASSUME NEW keys \in Json!Chain
  PROVE  /\ keys[1] \in JsonKey /\ ~Json!isIndex(keys[1]) /\ Len(keys) \in 1..2
         /\ Len(keys) = 1 => keys = <<keys[1]>>
         /\ Len(keys) = 2 => keys = <<keys[1], keys[2]>> /\ keys[2] \in JsonKey
         /\ DOMAIN keys = 1..Len(keys)
<1>1. PICK n \in 1..2 : keys \in [1..n -> JsonKey]  BY DEF Json!Chain
<1>2. keys \in Seq(JsonKey) /\ Len(keys) = n  BY <1>1, FunctionIsSeq
<1>3. ~Json!isIndex(keys[1])  BY DEF Json!Chain
<1>4. keys[1] \in JsonKey  BY <1>1
<1>5. n = 1 => keys = <<keys[1]>>  BY <1>2
<1>6. n = 2 => keys = <<keys[1], keys[2]>>
  <2> SUFFICES ASSUME n = 2 PROVE keys = <<keys[1], keys[2]>>
    OBVIOUS
  <2>1. /\ <<keys[1], keys[2]>> \in Seq(JsonKey) /\ Len(<<keys[1], keys[2]>>) = 2
        /\ \A i \in 1..2 : <<keys[1], keys[2]>>[i] = keys[i]
    BY <1>1
  <2> QED BY <1>2, <2>1, SeqEqual
<1>7. n = 2 => keys[2] \in JsonKey  BY <1>1
<1> QED BY <1>1, <1>2, <1>3, <1>4, <1>5, <1>6, <1>7

\* An assignment to a chain changes what it replaces, and can be read back.
LEMMA ChainAssigned ==
  ASSUME NEW g, Fields(g), root = Json!object(g), NEW keys \in Json!Chain, NEW s,
         NEW r, r = Json!assigned(root, keys, Json!scalar(s))
  PROVE  /\ ObjectOf(r)
         /\ Json!apart(Json!leaves(r), Json!replaced(keys))
              = Json!apart(Json!leaves(root), Json!replaced(keys))
         /\ (\A k \in DOMAIN keys : ~Json!isIndex(keys[k]))
              => [keys |-> keys, value |-> Json!scalar(s)] \in Json!leaves(r)
<1> DEFINE K == keys[1]
           n == K.name
           b == keys[2]
           v == Json!scalar(s)
<1>1. /\ K \in JsonKey /\ ~Json!isIndex(K) /\ Len(keys) \in 1..2
      /\ Len(keys) = 1 => keys = <<K>>
      /\ Len(keys) = 2 => keys = <<K, b>> /\ b \in JsonKey
      /\ DOMAIN keys = 1..Len(keys)
      /\ K = [name |-> n]
  <2>1. K = [name |-> n]  BY ChainIs, KeyIs
  <2> QED BY <2>1, ChainIs
<1>2. v.kind = "scalar" /\ SeqIfArray(v)  BY ScalarIs
<1> HIDE DEF K, n, b, v
<1>3. CASE \E h, w : Assigns(g, h, keys, v, w)
  <2>1. PICK h, w : Assigns(g, h, keys, v, w)  BY <1>3
  <2> DEFINE u == h[n]
             p == Json!insert(h, n, w)
  <2>2. /\ Opens(g, K, h) /\ SeqIfArray(u)
        /\ Len(keys) = 1 => w = v
        /\ Len(keys) = 2 => Json!found(u, b) /\ w = Json!assigned2(u, b, v)
        /\ r = Json!object(p)
    BY <2>1 DEF Assigns, K, n, b, v
  <2>3. /\ Fields(h) /\ DOMAIN h = DOMAIN g \cup {n} /\ \A k \in DOMAIN g : h[k] = g[k]
        /\ n \notin DOMAIN g => u = Json!NullValue
    BY <2>2 DEF Opens, n
  <2>4. SeqIfArray(w)
    <3>1. Len(keys) = 1 => SeqIfArray(w)  BY <1>2, <2>2
    <3>2. Len(keys) = 2 => SeqIfArray(w)
      BY <2>2, OpenedSeq, SavedSeq DEF Json!assigned2
    <3> QED BY <1>1, <3>1, <3>2
  <2>5. /\ DOMAIN p = DOMAIN h \cup {n} /\ p[n] = w /\ \A k \in DOMAIN h \ {n} : p[k] = h[k]
        /\ Fields(p)
    <3>1. /\ DOMAIN p = DOMAIN h \cup {n} /\ p[n] = w /\ \A k \in DOMAIN h \ {n} : p[k] = h[k]
          /\ Fields(h) /\ SeqIfArray(w) => Fields(p)
      BY Inserted
    <3> HIDE DEF p
    <3> QED BY <2>3, <2>4, <3>1
  <2> HIDE DEF p, u
  <2>6. \A k : k # n => ((k \in DOMAIN p <=> k \in DOMAIN g) /\ (k \in DOMAIN g => p[k] = g[k]))
    BY <2>3, <2>5
  <2>7. ObjectOf(r)  BY <2>2, <2>5 DEF ObjectOf
  <2>8. Json!replaced(keys) = <<K>> \/ (Json!replaced(keys) = <<K, b>> /\ Len(keys) = 2 /\ Json!holds(u, b))
    <3>1. Json!itemAt(root, K).jvalue = u
      <4>1. Json!opened(root, K) = Json!object(h)  BY <2>2 DEF Opens
      <4>2. Json!itemAt(root, K).jvalue = Json!at(root, K)
        BY <1>1 DEF Json!itemAt, Json!found
      <4>3. Json!at(root, K) = u  BY <1>1, <4>1, ObjectIs DEF Json!at, u, n
      <4> QED BY <4>2, <4>3
    <3> QED BY <1>1, <3>1 DEF Json!replaced, K, b
  <2>9. Json!apart(Json!leaves(r), Json!replaced(keys))
          = Json!apart(Json!leaves(root), Json!replaced(keys))
    <3>1. CASE Json!replaced(keys) = <<K>>
      <4>1. LET ks == <<[name |-> n]>> IN
            Json!apart(Json!leaves(Json!object(p)), ks)
              = Json!apart(Json!leaves(Json!object(g)), ks)
        BY <2>6, OneNameChanged
      <4> QED BY <1>1, <2>2, <3>1, <4>1
    <3>2. CASE Json!replaced(keys) = <<K, b>> /\ Len(keys) = 2 /\ Json!holds(u, b)
      <4>1. n \in DOMAIN g
        <5>1. u.kind \in {"array", "object"}  BY <3>2 DEF Json!holds
        <5> QED BY <2>3, <5>1, NullIs
      <4>2. u = g[n] /\ p[n] = w /\ n \in DOMAIN g \cap DOMAIN p  BY <2>3, <2>5, <4>1 DEF u
      <4>3. \A d : d[1] # b => (d \in Json!leaves1(w) <=> d \in Json!leaves1(u))
        BY <1>1, <2>2, <3>2, ChildAssigned
      <4>4. \A d : d[1] # b => (d \in Json!leaves1(p[n]) <=> d \in Json!leaves1(g[n]))
        BY <4>2, <4>3
      <4>5. LET ks == <<[name |-> n], b>> IN
            Json!apart(Json!leaves(Json!object(p)), ks)
              = Json!apart(Json!leaves(Json!object(g)), ks)
        BY <2>6, <4>2, <4>4, OneChildChanged
      <4> QED BY <1>1, <2>2, <3>2, <4>5
    <3> QED BY <2>8, <3>1, <3>2
  <2>10. ASSUME \A k \in DOMAIN keys : ~Json!isIndex(keys[k])
         PROVE  [keys |-> keys, value |-> v] \in Json!leaves(r)
    <3>1. ASSUME under(n, w, [keys |-> keys, value |-> v])
          PROVE  [keys |-> keys, value |-> v] \in Json!leaves(r)
      BY <2>2, <2>5, <3>1, LeavesOfObject
    <3>2. CASE Len(keys) = 1
      <4>1. under(n, w, [keys |-> keys, value |-> v])
        BY <1>1, <1>2, <2>2, <3>2 DEF under
      <4> QED BY <3>1, <4>1
    <3>3. CASE Len(keys) = 2
      <4>1. ~Json!isIndex(b) /\ b = [name |-> b.name]
        BY <1>1, <2>10, <3>3, KeyIs DEF b
      <4> DEFINE m == b.name
                 o == Json!toObject(Json!opened(u, b))
                 q == Json!insert(o, m, v)
      <4>2. w = Json!object(q)
        <5>1. Json!itemAt(u, b) = ItemAs(b, Json!at(u, b))
          BY <2>2, <3>3 DEF Json!itemAt, ItemAs
        <5>2. [Json!itemAt(u, b) EXCEPT !.jvalue = v] = ItemAs(b, v)  BY <5>1, ItemIs
        <5>3. ItemAs(b, v).key = b /\ ItemAs(b, v).jvalue = v  BY ItemIs
        <5>4. w = Json!saveAtParent(Json!opened(u, b), ItemAs(b, v))
          BY <2>2, <3>3, <5>2 DEF Json!assigned2
        <5> QED BY <4>1, <5>3, <5>4 DEF Json!saveAtParent
      <4>3. m \in DOMAIN q /\ q[m] = v  BY DEF Json!insert
      <4> HIDE DEF q
      <4>4. <<[name |-> m], v>> \in Json!leaves1(w)
        BY <1>2, <4>2, <4>3, ScalarsOfObject
      <4> DEFINE d == <<[name |-> m], v>>
      <4>5. d[1] = b /\ d[2] = v  BY <4>1
      <4> HIDE DEF d, m
      <4>6. [keys |-> keys, value |-> v] = [keys |-> <<[name |-> n], d[1]>>, value |-> d[2]]
        BY <1>1, <3>3, <4>5
      <4>7. under(n, w, [keys |-> keys, value |-> v])
        BY <4>4, <4>6, Zenon DEF under, d
      <4> QED BY <3>1, <4>7
    <3> QED BY <1>1, <3>2, <3>3
  <2> QED BY <2>7, <2>9, <2>10 DEF v
<1>4. CASE /\ Len(keys) = 2
           /\ \E h : Opens(g, K, h) /\ ~Json!found(h[n], b)
           /\ r = Json!opened(root, K)
  <2>1. PICK h : Opens(g, K, h) /\ ~Json!found(h[n], b)  BY <1>4
  <2>2. Json!leaves(r) = Json!leaves(root)  BY <1>1, <1>4, ReadKeepsLeaves
  <2>3. ObjectOf(r)  BY <1>4, <2>1 DEF Opens, ObjectOf
  <2>4. Json!isIndex(b) /\ 2 \in DOMAIN keys  BY <1>1, <1>4, <2>1 DEF Json!found
  <2> QED BY <2>2, <2>3, <2>4 DEF b
<1> QED
  <2>1. \/ \E h, w : Assigns(g, h, keys, v, w)
        \/ /\ Len(keys) = 2
           /\ \E h : Opens(g, keys[1], h) /\ ~Json!found(h[keys[1].name], keys[2])
           /\ Json!assigned(Json!object(g), keys, v) = Json!opened(Json!object(g), keys[1])
    BY <1>1, AssignedIs DEF K
  <2>2. r = Json!assigned(Json!object(g), keys, v)  BY DEF v
  <2> QED BY <1>3, <1>4, <2>1, <2>2 DEF K, n, b

----
(* The steps. *)

LEMMA ReadOrWritten ==
  ASSUME JsonInv, NEW keys \in Json!Chain, NEW s,
         Json!readJson(keys) \/ Json!writeJson(keys, Json!scalar(s))
  PROVE  JsonInv'
<1>1. PICK g : root = Json!object(g) /\ Fields(g)  BY DEF JsonInv, ObjectOf
<1>2. ObjectOf(root')
  <2>1. CASE Json!readJson(keys)
    <3>1. PICK h : Opens(g, keys[1], h)  BY <1>1, ChainIs, OpenedObject
    <3> QED BY <1>1, <2>1, <3>1 DEF Opens, ObjectOf, Json!readJson
  <2>2. CASE Json!writeJson(keys, Json!scalar(s))
    BY <1>1, <2>2, ChainAssigned DEF Json!writeJson
  <2> QED BY <2>1, <2>2
<1>3. UNCHANGED <<first, saved>>
  BY DEF Json!readJson, Json!writeJson, Json!kept, Json!itemVars
<1> QED BY <1>2, <1>3 DEF JsonInv

LEMMA FirstKept ==
  ASSUME JsonInv, NEW key \in JsonKey, ~Json!isIndex(key), Json!keepFirst(key)
  PROVE  JsonInv'
<1>1. PICK g : root = Json!object(g) /\ Fields(g)  BY DEF JsonInv, ObjectOf
<1>2. PICK h : /\ Opens(g, key, h)
               /\ Json!itemAt(Json!object(g), key)
                    = [key |-> [name |-> key.name], jvalue |-> h[key.name], hasParent |-> TRUE]
               /\ SeqIfArray(h[key.name])
  BY <1>1, NameOpened
<1>3. ObjectOf(root')  BY <1>1, <1>2 DEF Opens, ObjectOf, Json!keepFirst
<1>4. first' = <<[key |-> [name |-> key.name], jvalue |-> h[key.name], hasParent |-> TRUE]>>
  BY <1>1, <1>2 DEF Json!keepFirst
<1>5. FirstNamed(first')  BY <1>2, <1>4 DEF FirstNamed
<1>6. UNCHANGED saved  BY DEF Json!keepFirst, Json!kept
<1> QED BY <1>3, <1>5, <1>6 DEF JsonInv

\* What first is, when there is one.
LEMMA FirstIs ==
  ASSUME FirstNamed(first), first # <<>>
  PROVE  \E n, v : first = <<ItemAs([name |-> n], v)>> /\ SeqIfArray(v)
BY DEF FirstNamed, ItemAs

LEMMA FirstStays ==
  ASSUME NEW f, NEW n, NEW v, f = <<ItemAs([name |-> n], v)>>, SeqIfArray(v)
  PROVE  FirstNamed(f)
BY DEF FirstNamed, ItemAs

LEMMA SecondKept ==
  ASSUME JsonInv, NEW key, Json!keepSecond(key)
  PROVE  JsonInv'
<1>1. PICK n, v : first = <<ItemAs([name |-> n], v)>> /\ SeqIfArray(v)
  BY FirstIs DEF JsonInv, Json!keepSecond
<1>2. first' = <<ItemAs([name |-> n], Json!opened(v, key))>>
  <2> DEFINE i == ItemAs([name |-> n], v)
             j == ItemAs([name |-> n], Json!opened(v, key))
  <2>1. i.jvalue = v /\ [i EXCEPT !.jvalue = Json!opened(v, key)] = j  BY ItemIs
  <2> HIDE DEF i, j
  <2>2. first = <<i>> /\ first[1] = i  BY <1>1 DEF i
  <2>3. first' = [first EXCEPT ![1] = [first[1] EXCEPT !.jvalue = Json!opened(first[1].jvalue, key)]]
    BY DEF Json!keepSecond
  <2>4. first' = [first EXCEPT ![1] = j]  BY <2>1, <2>2, <2>3
  <2>5. first' = <<j>>  BY <2>2, <2>4
  <2> QED BY <2>5 DEF j
<1>3. FirstNamed(first')  BY <1>1, <1>2, OpenedSeq, FirstStays
<1>4. UNCHANGED <<root, saved>>  BY DEF Json!keepSecond, Json!kept
<1> QED BY <1>3, <1>4 DEF JsonInv

\* What an assignment to a kept item makes of first and of the root.
LEMMA KeptAssigned ==
  ASSUME JsonInv, NEW s,
         Json!assignFirst(Json!scalar(s)) \/ Json!assignSecond(Json!scalar(s))
  PROVE  /\ first # <<>>
         /\ \/ UNCHANGED <<first, root>>
            \/ \E n, v : /\ first[1].key = [name |-> n]
                         /\ first' = <<ItemAs([name |-> n], v)>> /\ SeqIfArray(v)
                         /\ root' = Json!rootAfter(ItemAs([name |-> n], v))
<1>1. first # <<>>  BY DEF Json!assignFirst, Json!assignSecond
<1>2. PICK n, u : first = <<ItemAs([name |-> n], u)>> /\ SeqIfArray(u)
  BY <1>1, FirstIs DEF JsonInv
<1> DEFINE i == ItemAs([name |-> n], u)
<1>3. /\ i.key = [name |-> n] /\ i.jvalue = u
      /\ \A x : [i EXCEPT !.jvalue = x] = ItemAs([name |-> n], x)
  BY ItemIs
<1> HIDE DEF i
<1>4. first[1] = i  BY <1>2 DEF i
<1>5. CASE Json!assignFirst(Json!scalar(s))
  <2> DEFINE v == Json!scalar(s)
  <2>1. SeqIfArray(v)  BY ScalarIs
  <2> HIDE DEF v
  <2>2. [first[1] EXCEPT !.jvalue = v] = ItemAs([name |-> n], v)  BY <1>3, <1>4
  <2>3. first' = <<ItemAs([name |-> n], v)>> /\ root' = Json!rootAfter(ItemAs([name |-> n], v))
    BY <1>5, <2>2 DEF Json!assignFirst, v
  <2> QED BY <1>1, <1>3, <1>4, <2>1, <2>3
<1>6. CASE Json!assignSecond(Json!scalar(s)) /\ ~UNCHANGED <<first, root>>
  <2> DEFINE item == [second[1] EXCEPT !.jvalue = Json!scalar(s)]
             v == Json!saveAtParent(u, item)
  <2>1. SeqIfArray(v)  BY <1>2, SavedSeq
  <2>2. /\ first' = <<[first[1] EXCEPT !.jvalue = Json!saveAtParent(first[1].jvalue, item)]>>
        /\ root' = Json!rootAfter([first[1] EXCEPT !.jvalue = Json!saveAtParent(first[1].jvalue, item)])
    <3> HIDE DEF item
    <3> QED BY <1>6 DEF Json!assignSecond, Json!itemVars, item
  <2> HIDE DEF item
  <2>3. [first[1] EXCEPT !.jvalue = Json!saveAtParent(first[1].jvalue, item)] = ItemAs([name |-> n], v)
    BY <1>3, <1>4
  <2> HIDE DEF v
  <2>4. first' = <<ItemAs([name |-> n], v)>> /\ root' = Json!rootAfter(ItemAs([name |-> n], v))
    BY <2>2, <2>3
  <2> QED BY <1>1, <1>3, <1>4, <2>1, <2>4
<1> QED BY <1>1, <1>5, <1>6

LEMMA KeptStay ==
  ASSUME JsonInv, NEW s,
         Json!assignFirst(Json!scalar(s)) \/ Json!assignSecond(Json!scalar(s))
  PROVE  JsonInv'
<1>1. UNCHANGED saved
  BY DEF Json!assignFirst, Json!assignSecond, Json!kept
<1>2. CASE UNCHANGED <<first, root>>  BY <1>1, <1>2 DEF JsonInv
<1>3. ASSUME NEW n, NEW v,
             first' = <<ItemAs([name |-> n], v)>>, SeqIfArray(v),
             root' = Json!rootAfter(ItemAs([name |-> n], v))
      PROVE  JsonInv'
  <2>1. ObjectOf(root')
    BY <1>3, RootAfterItem DEF JsonInv, ItemAs
  <2>2. FirstNamed(first')  BY <1>3, FirstStays
  <2> QED BY <1>1, <2>1, <2>2 DEF JsonInv
<1> QED BY <1>2, <1>3, KeptAssigned

LEMMA FileTouched ==
  ASSUME JsonInv, Json!saveToFile \/ Json!loadFromFile
  PROVE  JsonInv'
<1>1. PICK g : root = Json!object(g) /\ Fields(g)  BY DEF JsonInv, ObjectOf
<1>2. ObjectOf(Json!object(<<>>))
  <2>1. DOMAIN <<>> = {}  OBVIOUS
  <2> QED BY <2>1 DEF ObjectOf, Fields
<1>3. ASSUME NEW v, ObjectOf(v) PROVE ObjectOf(Json!object(Json!toObject(v)))
  BY <1>3, ObjectIs DEF ObjectOf
<1>4. CASE Json!saveToFile
  <2>1. saved' = <<Json!object(Json!toObject(root))>> \/ saved' = <<>>
    BY <1>4 DEF Json!saveToFile
  <2>2. saved' # <<>> => ObjectOf(saved'[1])
    BY <1>3, <2>1 DEF JsonInv
  <2>3. UNCHANGED <<root, first>>  BY <1>4 DEF Json!saveToFile, Json!itemVars
  <2> QED BY <2>2, <2>3 DEF JsonInv
<1>5. CASE Json!loadFromFile
  <2>1. ObjectOf(root')  BY <1>2, <1>3, <1>5 DEF JsonInv, Json!loadFromFile
  <2>2. UNCHANGED <<saved, first>>  BY <1>5 DEF Json!loadFromFile, Json!itemVars
  <2> QED BY <2>1, <2>2 DEF JsonInv
<1> QED BY <1>4, <1>5

LEMMA JsonSteps ==
  ASSUME JsonInv, Json!QtJsonNext
  PROVE  JsonInv'
<1>1. CASE \E keys \in Json!Chain :
             Json!readJson(keys) \/ \E s \in Scalar : Json!writeJson(keys, Json!scalar(s))
  BY <1>1, ReadOrWritten
<1>2. CASE \E key \in JsonKey : ~Json!isIndex(key) /\ Json!keepFirst(key)
  BY <1>2, FirstKept
<1>3. CASE \E key \in JsonKey : Json!keepSecond(key)
  BY <1>3, SecondKept
<1>4. CASE \E s \in Scalar : Json!assignFirst(Json!scalar(s)) \/ Json!assignSecond(Json!scalar(s))
  BY <1>4, KeptStay
<1>5. CASE Json!saveToFile \/ Json!loadFromFile
  BY <1>5, FileTouched
<1> QED BY <1>1, <1>2, <1>3, <1>4, <1>5 DEF Json!QtJsonNext

LEMMA JsonInvariance == Spec => []JsonInv
<1>1. Init => JsonInv
  <2> SUFFICES ASSUME Init PROVE JsonInv
    OBVIOUS
  <2>1. root = Json!object(<<>>) /\ first = <<>> /\ saved = <<>>
    BY DEF Init, QtInit, Json!QtJsonInit
  <2>2. DOMAIN <<>> = {}  OBVIOUS
  <2> QED BY <2>1, <2>2 DEF JsonInv, ObjectOf, Fields, FirstNamed
<1>2. JsonInv /\ [Next]_dataVars => JsonInv'
  <2> SUFFICES ASSUME JsonInv, [Next]_dataVars PROVE JsonInv'
    OBVIOUS
  <2>1. Json!QtJsonNext \/ UNCHANGED qtJsonVars
    BY DEF Next, QtNext, dataVars, qtVars
  <2>2. UNCHANGED qtJsonVars => JsonInv'
    BY DEF qtJsonVars, JsonInv
  <2> QED BY <2>1, <2>2, JsonSteps
<1> QED BY <1>1, <1>2, PTL DEF Spec

\* What a call saves is what it is for: a reading changes no scalar, an assignment what its
\* keys name, and an assignment to a kept item nothing outside its first key.
LEMMA RestSaved ==
  ASSUME JsonInv
  PROVE  Json!savesRest
<1>1. PICK g : root = Json!object(g) /\ Fields(g)  BY DEF JsonInv, ObjectOf
<1>2. ASSUME NEW keys \in Json!Chain, Json!readJson(keys)
      PROVE  Json!leaves(root') = Json!leaves(root)
  BY <1>1, <1>2, ChainIs, ReadKeepsLeaves DEF Json!readJson
<1>3. ASSUME NEW keys \in Json!Chain, NEW s \in Scalar, Json!writeJson(keys, Json!scalar(s))
      PROVE  /\ Json!apart(Json!leaves(root'), Json!replaced(keys))
                  = Json!apart(Json!leaves(root), Json!replaced(keys))
             /\ (\A k \in DOMAIN keys : ~Json!isIndex(keys[k]))
                  => [keys |-> keys, value |-> Json!scalar(s)] \in Json!leaves(root')
  BY <1>1, <1>3, ChainAssigned DEF Json!writeJson
<1>4. ASSUME NEW s \in Scalar,
             Json!assignFirst(Json!scalar(s)) \/ Json!assignSecond(Json!scalar(s))
      PROVE  LET keys == <<first[1].key>> IN
             Json!apart(Json!leaves(root'), keys) = Json!apart(Json!leaves(root), keys)
  <2>1. CASE UNCHANGED <<first, root>>  BY <2>1
  <2>2. ASSUME NEW n, NEW v, first[1].key = [name |-> n],
               root' = Json!rootAfter(ItemAs([name |-> n], v))
        PROVE  LET keys == <<first[1].key>> IN
               Json!apart(Json!leaves(root'), keys) = Json!apart(Json!leaves(root), keys)
    <3>1. LET keys == <<[name |-> n]>> IN
          Json!apart(Json!leaves(Json!rootAfter(ItemAs([name |-> n], v))), keys)
            = Json!apart(Json!leaves(root), keys)
      BY RootAfterItem DEF JsonInv, ItemAs
    <3> QED BY <2>2, <3>1
  <2> QED BY <1>4, <2>1, <2>2, KeptAssigned
<1> QED BY <1>2, <1>3, <1>4 DEF Json!savesRest

\* Every call on Qt's JSON leaves the rest of it alone (XXjson.cpp: operator[] and operator=
\* of XXjson and XXjsonItem).
THEOREM JsonSavesTheRest == Spec => Json!SavesTheRest
<1>1. JsonInv => [steps' > steps => Json!savesRest]_Json!qtJsonVars
  BY RestSaved
<1> QED BY <1>1, JsonInvariance, PTL DEF Json!SavesTheRest

----
\* The path map.  What is under a path is known to the array there: an
\* item the array does not have has a number up to its max.
LEMMA MapBounds ==
  /\ MaxItem \in Nat /\ MapJson!AnyItem = 0..(MaxItem + 1) /\ MapJson!Index = 0..MaxIndex
  /\ MaxCall \in Nat /\ MapJson!Item = 0..MaxItem /\ MapJson!Position = 0..MaxCall
  /\ MapJson!AnyItem \subseteq NodeNumber /\ 0..(MaxCall + 1) \subseteq NodeNumber
  /\ NodeNumber \subseteq Nat
BY DataAssumption DEF NodeNumber, MapJson!AnyItem, MapJson!Position, MapJson!Index, MapJson!Item

\* Item nodes and index nodes are told apart, up to one behind the largest position.
LEMMA NodesApart ==
  ASSUME NEW i \in NodeNumber, NEW j \in NodeNumber
  PROVE  /\ MapJson!itemNode(i) = MapJson!itemNode(j) => i = j
         /\ MapJson!indexNode(i) = MapJson!indexNode(j) => i = j
         /\ MapJson!itemNode(i) # MapJson!indexNode(j)
BY DataAssumption DEF NodesDiffer

LEMMA PathNodes ==
  ASSUME NEW p \in Path, NEW k \in DOMAIN p, NEW i \in NodeNumber
  PROVE  /\ p[k] # MapJson!itemNode(i)
         /\ p[k] = MapJson!indexNode(i) => MapJson!isIndexNode(p[k])
BY DataAssumption DEF NodesDiffer, MapJson!isIndexNode

LEMMA IndexOfNode ==
  ASSUME NEW node, MapJson!isIndexNode(node)
  PROVE  /\ MapJson!indexOf(node) \in MapJson!Index
         /\ node = MapJson!indexNode(MapJson!indexOf(node))
BY DEF MapJson!isIndexNode, MapJson!indexOf

Node == STRING \cup {MapJson!itemNode(i) : i \in Nat}
Plain == [plain : Value]
Info == [max : Nat, items : Seq(Nat)]
Map == UNION {[D -> Plain \cup Info] : D \in SUBSET Seq(Node)}

LEMMA MapIs ==
  ASSUME NEW d
  PROVE  d \in Map <=> /\ DOMAIN d \subseteq Seq(Node)
                       /\ d = [q \in DOMAIN d |-> d[q]]
                       /\ \A q \in DOMAIN d : d[q] \in Plain \cup Info
<1> HIDE DEF Node, Plain, Info
<1>1. ASSUME d \in Map
      PROVE  /\ DOMAIN d \subseteq Seq(Node)
             /\ d = [q \in DOMAIN d |-> d[q]]
             /\ \A q \in DOMAIN d : d[q] \in Plain \cup Info
  <2>1. PICK D \in SUBSET Seq(Node) : d \in [D -> Plain \cup Info]  BY <1>1 DEF Map
  <2> QED BY <2>1
<1>2. ASSUME DOMAIN d \subseteq Seq(Node), d = [q \in DOMAIN d |-> d[q]],
             \A q \in DOMAIN d : d[q] \in Plain \cup Info
      PROVE  d \in Map
  <2> DEFINE D == DOMAIN d
  <2>1. D \in SUBSET Seq(Node) /\ d \in [D -> Plain \cup Info]  BY <1>2
  <2> QED BY <2>1 DEF Map
<1> QED BY <1>1, <1>2

LEMMA ValueIs ==
  ASSUME NEW v \in Plain \cup Info
  PROVE  IF MapJson!isArrayInfo(v) THEN v \in Info ELSE v \in Plain
<1>1. v \in Plain => ~MapJson!isArrayInfo(v)  BY DEF Plain, MapJson!isArrayInfo
<1>2. v \in Info => MapJson!isArrayInfo(v)  BY DEF Info, MapJson!isArrayInfo
<1> QED BY <1>1, <1>2

LEMMA InfoIs ==
  ASSUME NEW m \in Nat, NEW s \in Seq(Nat)
  PROVE  /\ MapJson!arrayInfo(m, s) \in Info
         /\ MapJson!arrayInfo(m, s).max = m /\ MapJson!arrayInfo(m, s).items = s
         /\ MapJson!isArrayInfo(MapJson!arrayInfo(m, s))
BY DEF MapJson!arrayInfo, Info, MapJson!isArrayInfo

LEMMA PutIs ==
  ASSUME NEW d \in Map, NEW r \in Seq(Node), NEW v \in Plain \cup Info
  PROVE  /\ MapJson!put(d, r, v) \in Map
         /\ DOMAIN MapJson!put(d, r, v) = DOMAIN d \cup {r}
         /\ MapJson!put(d, r, v)[r] = v
         /\ \A q \in DOMAIN d : q # r => MapJson!put(d, r, v)[q] = d[q]
<1> HIDE DEF Node, Plain, Info
<1> DEFINE e == MapJson!put(d, r, v)
<1>1. /\ DOMAIN e = DOMAIN d \cup {r} /\ e[r] = v
      /\ \A q \in DOMAIN d : q # r => e[q] = d[q]
      /\ e = [q \in DOMAIN e |-> e[q]]
  BY DEF MapJson!put
<1> HIDE DEF e
<1>2. e \in Map  BY <1>1, MapIs
<1> QED BY <1>1, <1>2 DEF e

LEMMA CleanupIs ==
  ASSUME NEW d \in Map, NEW p
  PROVE  /\ MapJson!cleanup(d, p) \in Map
         /\ DOMAIN MapJson!cleanup(d, p) = {q \in DOMAIN d : ~MapJson!IsPrefix(p, q)}
         /\ \A q \in DOMAIN d : ~MapJson!IsPrefix(p, q) => MapJson!cleanup(d, p)[q] = d[q]
<1> HIDE DEF Node, Plain, Info
<1> DEFINE e == MapJson!cleanup(d, p)
<1>1. /\ DOMAIN e = {q \in DOMAIN d : ~MapJson!IsPrefix(p, q)}
      /\ \A q \in DOMAIN d : ~MapJson!IsPrefix(p, q) => e[q] = d[q]
      /\ e = [q \in DOMAIN e |-> e[q]]
  BY DEF MapJson!cleanup
<1> HIDE DEF e
<1>2. e \in Map  BY <1>1, MapIs
<1> QED BY <1>1, <1>2 DEF e

\* What is above a position of a path.
above(q, k) == SubSeq(q, 1, k - 1)

LEMMA AboveIs ==
  ASSUME NEW S, NEW q \in Seq(S), NEW k \in 1..(Len(q) + 1)
  PROVE  /\ above(q, k) \in Seq(S) /\ Len(above(q, k)) = k - 1
         /\ \A i \in 1..(k - 1) : above(q, k)[i] = q[i]
         /\ \A r \in Seq(S) : Len(r) = k - 1 /\ (\A i \in 1..(k - 1) : r[i] = q[i])
                                => r = above(q, k)
<1>1. Len(q) \in Nat /\ k - 1 \in 0..Len(q)  OBVIOUS
<1> DEFINE a == above(q, k)
<1>2. a \in Seq(S) /\ Len(a) = k - 1 /\ \A i \in 1..(k - 1) : a[i] = q[i]
  BY <1>1, SubSeqProperties DEF above
<1> HIDE DEF a
<1>3. ASSUME NEW r \in Seq(S), Len(r) = k - 1, \A i \in 1..(k - 1) : r[i] = q[i]
      PROVE  r = a
  BY <1>2, <1>3, SeqEqual
<1> QED BY <1>2, <1>3 DEF a

LEMMA MapPrefix ==
  ASSUME NEW S, NEW s \in Seq(S), NEW t \in Seq(S)
  PROVE  MapJson!IsPrefix(s, t) <=> Len(s) <= Len(t) /\ \A i \in 1..Len(s) : s[i] = t[i]
<1>1. SUFFICES ASSUME Len(s) <= Len(t)
               PROVE  SubSeq(s, 1, Len(s)) = SubSeq(t, 1, Len(s))
                        <=> \A i \in 1..Len(s) : s[i] = t[i]
  BY DEF MapJson!IsPrefix
<1>2. Len(s) \in Nat /\ Len(t) \in Nat  OBVIOUS
<1> DEFINE p == SubSeq(s, 1, Len(s))
           q == SubSeq(t, 1, Len(s))
<1>3. /\ p \in Seq(S) /\ Len(p) = Len(s) /\ \A i \in 1..Len(s) : p[i] = s[i]
      /\ q \in Seq(S) /\ Len(q) = Len(s) /\ \A i \in 1..Len(s) : q[i] = t[i]
  BY <1>1, <1>2, SubSeqProperties
<1> HIDE DEF p, q
<1>4. p = q <=> \A i \in 1..Len(s) : p[i] = q[i]
  BY <1>3, SeqEqual
<1>5. p = q <=> \A i \in 1..Len(s) : s[i] = t[i]
  BY <1>3, <1>4
<1> QED BY <1>5 DEF p, q

----
(* How a path is seen. *)

Word == Node \cup {MapJson!indexNode(i) : i \in Nat}
spot(d, q, k) == CHOOSE j \in MapJson!indicesOf(d, above(q, k), q[k]) : TRUE
isItemAt(d, q, k) == MapJson!isItem(d, above(q, k), q[k])
indicesAt(d, q, k) == MapJson!indicesOf(d, above(q, k), q[k])

LEMMA SeenAs ==
  ASSUME NEW d, NEW q
  PROVE  /\ MapJson!asWritten(d, q)
              = [k \in DOMAIN q |-> IF isItemAt(d, q, k)
                                    THEN MapJson!indexNode(spot(d, q, k) - 1) ELSE q[k]]
         /\ MapJson!inReach(d, q) <=> \A k \in DOMAIN q : isItemAt(d, q, k) => indicesAt(d, q, k) # {}
BY DEF MapJson!asWritten, MapJson!inReach, above, spot, isItemAt, indicesAt

LEMMA WrittenIs ==
  ASSUME NEW d \in Map, NEW q \in Seq(Node), MapJson!inReach(d, q)
  PROVE  LET w == MapJson!asWritten(d, q) IN
         /\ w \in Seq(Word) /\ Len(w) = Len(q) /\ DOMAIN w = 1..Len(q) /\ DOMAIN q = 1..Len(q)
         /\ \A k \in 1..Len(q) :
              IF isItemAt(d, q, k)
              THEN w[k] = MapJson!indexNode(spot(d, q, k) - 1) /\ spot(d, q, k) \in indicesAt(d, q, k)
              ELSE w[k] = q[k]
<1> DEFINE w == MapJson!asWritten(d, q)
<1>1. /\ w = [k \in 1..Len(q) |-> IF isItemAt(d, q, k)
                                  THEN MapJson!indexNode(spot(d, q, k) - 1) ELSE q[k]]
      /\ Len(q) \in Nat /\ DOMAIN q = 1..Len(q) /\ \A k \in 1..Len(q) : q[k] \in Node
  <2> HIDE DEF Node
  <2> QED BY SeenAs
<1> HIDE DEF w
<1>2. ASSUME NEW k \in 1..Len(q), isItemAt(d, q, k)
      PROVE  spot(d, q, k) \in indicesAt(d, q, k) /\ spot(d, q, k) - 1 \in Nat
  <2>1. indicesAt(d, q, k) # {}  BY <1>1, <1>2, SeenAs
  <2>2. spot(d, q, k) \in indicesAt(d, q, k)  BY <2>1 DEF spot, indicesAt
  <2>3. /\ above(q, k) \in DOMAIN d /\ MapJson!isArrayInfo(d[above(q, k)])
        /\ spot(d, q, k) \in DOMAIN d[above(q, k)].items
    BY <1>2, <2>2 DEF isItemAt, MapJson!isItem, MapJson!hasInfo, indicesAt, MapJson!indicesOf
  <2>4. d[above(q, k)] \in Info
    <3>1. d[above(q, k)] \in Plain \cup Info  BY <2>3, MapIs
    <3> QED BY <2>3, <3>1, ValueIs
  <2>5. d[above(q, k)].items \in Seq(Nat)  BY <2>4 DEF Info
  <2>6. spot(d, q, k) \in 1..Len(d[above(q, k)].items)  BY <2>3, <2>5
  <2> QED BY <2>2, <2>5, <2>6
<1>3. \A k \in 1..Len(q) : w[k] \in Word
  <2> HIDE DEF Node
  <2> QED BY <1>1, <1>2 DEF Word
<1>4. w \in Seq(Word) /\ Len(w) = Len(q)
  <2>1. w \in [1..Len(q) -> Word]  BY <1>1, <1>3
  <2> HIDE DEF Word
  <2> QED BY <1>1, <2>1, FunctionIsSeq
<1> QED BY <1>1, <1>2, <1>4 DEF w

\* Two maps show a path the same way if they have the same indices for its nodes.
LEMMA SameView ==
  ASSUME NEW d, NEW e, NEW q,
         \A k \in DOMAIN q : /\ isItemAt(d, q, k) <=> isItemAt(e, q, k)
                             /\ isItemAt(d, q, k) => indicesAt(d, q, k) = indicesAt(e, q, k)
  PROVE  /\ MapJson!asWritten(d, q) = MapJson!asWritten(e, q)
         /\ MapJson!inReach(d, q) <=> MapJson!inReach(e, q)
<1>1. \A k \in DOMAIN q : isItemAt(d, q, k) => spot(d, q, k) = spot(e, q, k)
  BY DEF spot, indicesAt
<1>2. MapJson!asWritten(d, q) = MapJson!asWritten(e, q)
  BY <1>1, SeenAs
<1>3. MapJson!inReach(d, q) <=> MapJson!inReach(e, q)
  BY SeenAs
<1> QED BY <1>2, <1>3

shows(d, q) == q \in DOMAIN d /\ ~MapJson!isArrayInfo(d[q]) /\ MapJson!inReach(d, q)
entry(d, q) == [path |-> MapJson!asWritten(d, q), value |-> d[q].plain]

LEMMA SeenIs ==
  ASSUME NEW d, NEW e
  PROVE  e \in MapJson!seen(d) <=> \E q : shows(d, q) /\ e = entry(d, q)
BY DEF MapJson!seen, shows, entry

LEMMA SeenEqual ==
  ASSUME NEW d, NEW e,
         \A q : shows(d, q) <=> shows(e, q),
         \A q : shows(d, q) => entry(d, q) = entry(e, q)
  PROVE  MapJson!seen(d) = MapJson!seen(e)
<1>1. \A x : x \in MapJson!seen(d) <=> x \in MapJson!seen(e)
  BY SeenIs
<1> QED BY <1>1

\* The indices of an item number in an array.
LEMMA IndicesAre ==
  ASSUME NEW d, NEW p, MapJson!hasInfo(d, p),
         \A j \in DOMAIN d[p].items : d[p].items[j] \in MapJson!AnyItem,
         NEW i \in MapJson!AnyItem
  PROVE  /\ MapJson!isItem(d, p, MapJson!itemNode(i))
         /\ MapJson!indicesOf(d, p, MapJson!itemNode(i)) = {j \in DOMAIN d[p].items : d[p].items[j] = i}
<1>1. MapJson!isItem(d, p, MapJson!itemNode(i))  BY DEF MapJson!isItem
<1>2. MapJson!AnyItem \subseteq NodeNumber  BY MapBounds
<1>3. \A j \in DOMAIN d[p].items : MapJson!itemNode(d[p].items[j]) = MapJson!itemNode(i)
                                     <=> d[p].items[j] = i
  BY <1>2, NodesApart
<1> QED BY <1>1, <1>3 DEF MapJson!indicesOf

\* Arrays up to a number b; in those that are not made by hand items differ and have
\* numbers up to the max.
Arrays(d, H, b) ==
  \A r \in DOMAIN d : MapJson!isArrayInfo(d[r]) =>
    /\ d[r].max <= b
    /\ \A j \in DOMAIN d[r].items : d[r].items[j] \in MapJson!AnyItem
    /\ r \notin H => /\ MapJson!IsInjective(d[r].items)
                     /\ \A j \in DOMAIN d[r].items : d[r].items[j] <= d[r].max

\* The node of a path is an item that the array above it has made.
CoveredAt(d, H, q, k) ==
  \A i \in MapJson!AnyItem : q[k] = MapJson!itemNode(i) /\ above(q, k) \notin H =>
    /\ above(q, k) \in DOMAIN d
    /\ MapJson!isArrayInfo(d[above(q, k)]) => i <= d[above(q, k)].max
Covered(d, H) == \A q \in DOMAIN d : \A k \in DOMAIN q : CoveredAt(d, H, q, k)

\* No node that could be an index.
Proper(q) == \A k \in DOMAIN q, n \in NodeNumber : q[k] # MapJson!indexNode(n)
Reals(d) == \A q \in DOMAIN d : ~MapJson!isArrayInfo(d[q]) => Proper(q)

Tidy(d, H, b) == d \in Map /\ Arrays(d, H, b) /\ Covered(d, H) /\ Reals(d)

LEMMA PutTidy ==
  ASSUME NEW d, NEW H, NEW b \in Nat, Tidy(d, H, b), NEW I, H \subseteq I,
         NEW c \in Nat, b <= c,
         NEW r \in Seq(Node), NEW v \in Plain \cup Info,
         r \in DOMAIN d \/ \A k \in DOMAIN r : CoveredAt(d, I, r, k),
         ~MapJson!isArrayInfo(v) => Proper(r),
         MapJson!isArrayInfo(v) =>
           /\ v.max <= c
           /\ \A j \in DOMAIN v.items : v.items[j] \in MapJson!AnyItem
           /\ r \notin I => /\ MapJson!IsInjective(v.items)
                            /\ \A j \in DOMAIN v.items : v.items[j] <= v.max
                            /\ r \in DOMAIN d => /\ MapJson!isArrayInfo(d[r])
                                                 /\ d[r].max <= v.max
  PROVE  Tidy(MapJson!put(d, r, v), I, c)
<1> DEFINE e == MapJson!put(d, r, v)
<1>1. d \in Map /\ Arrays(d, H, b) /\ Covered(d, H) /\ Reals(d)  BY DEF Tidy
<1>2. /\ e \in Map /\ DOMAIN e = DOMAIN d \cup {r} /\ e[r] = v
      /\ \A q \in DOMAIN d : q # r => e[q] = d[q]
  BY <1>1, PutIs
<1>3. \A q \in DOMAIN e : MapJson!isArrayInfo(e[q]) => e[q].max \in Nat
  <2> HIDE DEF e
  <2>1. \A q \in DOMAIN e : e[q] \in Plain \cup Info  BY <1>2, MapIs
  <2>2. \A q \in DOMAIN e : MapJson!isArrayInfo(e[q]) => e[q] \in Info  BY <2>1, ValueIs
  <2> QED BY <2>2 DEF Info
<1> HIDE DEF e
<1>4. Arrays(e, I, c)
  <2> SUFFICES ASSUME NEW q \in DOMAIN e, MapJson!isArrayInfo(e[q])
               PROVE  /\ e[q].max <= c
                      /\ \A j \in DOMAIN e[q].items : e[q].items[j] \in MapJson!AnyItem
                      /\ q \notin I => /\ MapJson!IsInjective(e[q].items)
                                       /\ \A j \in DOMAIN e[q].items : e[q].items[j] <= e[q].max
    BY DEF Arrays
  <2>1. CASE q = r  BY <1>2, <2>1
  <2>2. CASE q # r
    <3>1. q \in DOMAIN d /\ e[q] = d[q]  BY <1>2, <2>2
    <3>2. /\ d[q].max <= b
          /\ \A j \in DOMAIN d[q].items : d[q].items[j] \in MapJson!AnyItem
          /\ q \notin H => /\ MapJson!IsInjective(d[q].items)
                           /\ \A j \in DOMAIN d[q].items : d[q].items[j] <= d[q].max
      BY <1>1, <3>1 DEF Arrays
    <3>3. e[q].max <= c
      <4>1. e[q].max \in Nat /\ e[q].max <= b  BY <1>3, <3>1, <3>2
      <4> QED BY <4>1
    <3> QED BY <3>1, <3>2, <3>3
  <2> QED BY <2>1, <2>2
<1>5. Covered(e, I)
  <2> SUFFICES ASSUME NEW q \in DOMAIN e, NEW k \in DOMAIN q, NEW i \in MapJson!AnyItem,
                      q[k] = MapJson!itemNode(i), above(q, k) \notin I
               PROVE  /\ above(q, k) \in DOMAIN e
                      /\ MapJson!isArrayInfo(e[above(q, k)]) => i <= e[above(q, k)].max
    BY DEF Covered, CoveredAt
  <2> DEFINE a == above(q, k)
  <2>1. a \in DOMAIN d /\ (MapJson!isArrayInfo(d[a]) => i <= d[a].max)
    <3>1. CASE q \in DOMAIN d
      <4>1. CoveredAt(d, H, q, k)  BY <1>1, <3>1 DEF Covered
      <4> QED BY <4>1 DEF CoveredAt
    <3>2. CASE q \notin DOMAIN d
      <4>1. q = r  BY <1>2, <3>2
      <4>2. CoveredAt(d, I, q, k)  BY <3>2, <4>1
      <4> QED BY <4>2 DEF CoveredAt
    <3> QED BY <3>1, <3>2
  <2> HIDE DEF a
  <2>2. CASE a = r
    <3>1. MapJson!isArrayInfo(v) => d[r].max <= v.max /\ i <= d[r].max
      BY <2>1, <2>2 DEF a
    <3>2. MapJson!isArrayInfo(v) => i <= v.max
      <4> SUFFICES ASSUME MapJson!isArrayInfo(v) PROVE i <= v.max
        OBVIOUS
      <4>1. v.max \in Nat  BY <1>2, <1>3
      <4>2. i \in Int  BY MapBounds
      <4>3. d[r].max \in Nat
        <5>1. d[r] \in Info  BY <1>1, <2>1, <2>2, MapIs, ValueIs DEF a
        <5> QED BY <5>1 DEF Info
      <4> QED BY <3>1, <4>1, <4>2, <4>3
    <3> QED BY <1>2, <2>1, <2>2, <3>2 DEF a
  <2>3. CASE a # r  BY <1>2, <2>1, <2>3 DEF a
  <2> QED BY <2>2, <2>3
<1>6. Reals(e)  BY <1>1, <1>2 DEF Reals
<1> QED BY <1>2, <1>4, <1>5, <1>6 DEF Tidy, e

LEMMA CleanupTidy ==
  ASSUME NEW d, NEW H, NEW b, Tidy(d, H, b), NEW p \in Seq(Node)
  PROVE  Tidy(MapJson!cleanup(d, p), H, b)
<1> DEFINE e == MapJson!cleanup(d, p)
<1>1. d \in Map /\ Arrays(d, H, b) /\ Covered(d, H) /\ Reals(d)  BY DEF Tidy
<1>2. /\ e \in Map /\ DOMAIN e = {q \in DOMAIN d : ~MapJson!IsPrefix(p, q)}
      /\ \A q \in DOMAIN e : e[q] = d[q]
  BY <1>1, CleanupIs
<1> HIDE DEF e
<1>3. Arrays(e, H, b) /\ Reals(e)  BY <1>1, <1>2 DEF Arrays, Reals
<1>4. Covered(e, H)
  <2> SUFFICES ASSUME NEW q \in DOMAIN e, NEW k \in DOMAIN q, NEW i \in MapJson!AnyItem,
                      q[k] = MapJson!itemNode(i), above(q, k) \notin H
               PROVE  /\ above(q, k) \in DOMAIN e
                      /\ MapJson!isArrayInfo(e[above(q, k)]) => i <= e[above(q, k)].max
    BY DEF Covered, CoveredAt
  <2>1. CoveredAt(d, H, q, k)  BY <1>1, <1>2 DEF Covered
  <2>2. /\ above(q, k) \in DOMAIN d
        /\ MapJson!isArrayInfo(d[above(q, k)]) => i <= d[above(q, k)].max
    BY <2>1 DEF CoveredAt
  <2>3. ~MapJson!IsPrefix(p, above(q, k))
    <3>1. q \in Seq(Node) /\ k \in 1..Len(q)
      <4>1. q \in Seq(Node)  BY <1>1, <1>2, MapIs
      <4> HIDE DEF Node
      <4> QED BY <4>1
    <3> HIDE DEF Node
    <3>2. /\ above(q, k) \in Seq(Node) /\ Len(above(q, k)) = k - 1
          /\ \A j \in 1..(k - 1) : above(q, k)[j] = q[j]
      <4>1. q \in Seq(Node) /\ k \in 1..(Len(q) + 1)  BY <3>1
      <4> QED BY ONLY <4>1, AboveIs
    <3> SUFFICES ASSUME MapJson!IsPrefix(p, above(q, k)) PROVE MapJson!IsPrefix(p, q)
      BY <1>2
    <3>3. Len(p) <= k - 1 /\ \A j \in 1..Len(p) : p[j] = above(q, k)[j]
      BY <3>2, MapPrefix
    <3>4. Len(p) \in Nat /\ Len(q) \in Nat  BY <3>1
    <3>5. Len(p) <= Len(q) /\ \A j \in 1..Len(p) : p[j] = q[j]
      BY <3>1, <3>2, <3>3, <3>4
    <3> QED BY <3>1, <3>5, MapPrefix
  <2> QED BY <1>2, <2>2, <2>3
<1> QED BY <1>2, <1>3, <1>4 DEF Tidy, e

LEMMA FitsTidy ==
  ASSUME NEW d, NEW H, NEW b, Tidy(d, H, b), MapJson!fits(d)
  PROVE  Tidy(d, H, MaxItem)
BY DEF Tidy, Arrays, MapJson!fits

LEMMA TidyMore ==
  ASSUME NEW d, NEW H, NEW b \in Nat, Tidy(d, H, b), NEW c \in Nat, b <= c
  PROVE  Tidy(d, H, c)
<1>1. \A r \in DOMAIN d : MapJson!isArrayInfo(d[r]) => d[r].max \in Nat /\ d[r].max <= b
  <2>1. \A q \in DOMAIN d : d[q] \in Plain \cup Info  BY MapIs DEF Tidy
  <2>2. \A q \in DOMAIN d : MapJson!isArrayInfo(d[q]) => d[q] \in Info  BY <2>1, ValueIs
  <2> QED BY <2>2 DEF Info, Tidy, Arrays
<1>2. \A r \in DOMAIN d : MapJson!isArrayInfo(d[r]) => d[r].max <= c  BY <1>1
<1> QED BY <1>2 DEF Tidy, Arrays

----
(* What adds an item, or an array, above nothing else. *)

\* An array put where nothing under it is an item, or an item added that nothing is under.
LEMMA FreshKeeps ==
  ASSUME NEW d \in Map, NEW r \in Seq(Node), NEW v \in Info,
         r \notin DOMAIN d \/ MapJson!hasInfo(d, r),
         \A q \in DOMAIN d : \A k \in DOMAIN q :
           above(q, k) = r /\ MapJson!isItem(MapJson!put(d, r, v), r, q[k]) =>
             /\ MapJson!hasInfo(d, r)
             /\ MapJson!indicesOf(MapJson!put(d, r, v), r, q[k]) = MapJson!indicesOf(d, r, q[k])
  PROVE  MapJson!seen(MapJson!put(d, r, v)) = MapJson!seen(d)
<1> DEFINE e == MapJson!put(d, r, v)
<1>1. /\ e \in Map /\ DOMAIN e = DOMAIN d \cup {r} /\ e[r] = v
      /\ \A q \in DOMAIN d : q # r => e[q] = d[q]
  <2>1. v \in Plain \cup Info  OBVIOUS
  <2> HIDE DEF Plain, Info, Node
  <2> QED BY <2>1, PutIs
<1>2. MapJson!isArrayInfo(v)  BY DEF Info, MapJson!isArrayInfo
<1> HIDE DEF e
<1>3. ASSUME NEW q \in DOMAIN d
      PROVE  /\ MapJson!asWritten(d, q) = MapJson!asWritten(e, q)
             /\ MapJson!inReach(d, q) <=> MapJson!inReach(e, q)
  <2>1. ASSUME NEW k \in DOMAIN q
        PROVE  /\ isItemAt(d, q, k) <=> isItemAt(e, q, k)
               /\ isItemAt(d, q, k) => indicesAt(d, q, k) = indicesAt(e, q, k)
    <3>1. CASE above(q, k) = r
      <4>1. isItemAt(d, q, k) => isItemAt(e, q, k)
        BY <1>1, <1>2, <3>1 DEF isItemAt, MapJson!isItem, MapJson!hasInfo
      <4>2. ASSUME isItemAt(e, q, k)
            PROVE  isItemAt(d, q, k) /\ indicesAt(d, q, k) = indicesAt(e, q, k)
        <5>1. /\ MapJson!hasInfo(d, r)
              /\ MapJson!indicesOf(e, r, q[k]) = MapJson!indicesOf(d, r, q[k])
          BY <3>1, <4>2 DEF isItemAt, e
        <5>2. isItemAt(d, q, k)  BY <3>1, <4>2, <5>1 DEF isItemAt, MapJson!isItem
        <5> QED BY <3>1, <5>1, <5>2 DEF indicesAt
      <4> QED BY <4>1, <4>2
    <3>2. CASE above(q, k) # r
      BY <1>1, <3>2 DEF isItemAt, indicesAt, MapJson!isItem, MapJson!hasInfo, MapJson!indicesOf
    <3> QED BY <3>1, <3>2
  <2> QED BY <2>1, SameView
<1>4. \A q : shows(d, q) <=> shows(e, q)
  BY <1>1, <1>2, <1>3 DEF shows, MapJson!hasInfo
<1>5. \A q : shows(d, q) => entry(d, q) = entry(e, q)
  BY <1>1, <1>2, <1>3 DEF shows, entry, MapJson!hasInfo
<1> QED BY <1>4, <1>5, SeenEqual DEF e

----
(* getRealPath, node by node. *)

on(r, d) == [ok |-> TRUE, real |-> r, data |-> d]
off(r, d) == [ok |-> FALSE, real |-> r, data |-> d]

LEMMA WalkHas ==
  ASSUME NEW r, NEW d
  PROVE  /\ on(r, d).ok /\ on(r, d).real = r /\ on(r, d).data = d
         /\ ~off(r, d).ok /\ off(r, d).real = r /\ off(r, d).data = d
BY DEF on, off

\* What one node makes of a walk.
LEMMA WalkIs ==
  ASSUME NEW r, NEW d, NEW node, NEW creating
  PROVE  LET n == MapJson!indexOf(node)
             info == d[r]
             next == MapJson!walkNode(on(r, d), node, creating)
         IN /\ ~MapJson!isIndexNode(node) => next = on(Append(r, node), d)
            /\ MapJson!isIndexNode(node) =>
                 \/ next = off(r, d)
                 \/ /\ creating /\ r \notin DOMAIN d /\ n = 0
                    /\ next = on(Append(r, MapJson!itemNode(0)),
                                 MapJson!put(d, r, MapJson!arrayInfo(0, <<0>>)))
                 \/ /\ MapJson!hasInfo(d, r) /\ n < Len(info.items)
                    /\ next = on(Append(r, MapJson!itemNode(info.items[n + 1])), d)
                 \/ /\ creating /\ MapJson!hasInfo(d, r) /\ n = Len(info.items)
                    /\ next = on(Append(r, MapJson!itemNode(MapJson!newItem(info))),
                                 MapJson!put(d, r, MapJson!addItem(info)))
<1> DEFINE at == on(r, d)
           next == MapJson!walkNode(at, node, creating)
<1>1. at.ok /\ at.real = r /\ at.data = d  BY WalkHas
<1>2. /\ \A s, e : [ok |-> TRUE, real |-> s, data |-> e] = on(s, e)
      /\ \A s, e : [ok |-> FALSE, real |-> s, data |-> e] = off(s, e)
  BY Zenon DEF on, off
<1> HIDE DEF at
<1>5. CASE ~MapJson!isIndexNode(node)
  BY Zenon, <1>1, <1>2, <1>5 DEF MapJson!walkNode
<1>6. CASE MapJson!isIndexNode(node)
  <2> DEFINE n == MapJson!indexOf(node)
             info == d[r]
  <2>1. next = IF r \notin DOMAIN d
               THEN IF n = 0 /\ creating
                    THEN on(Append(r, MapJson!itemNode(0)),
                            MapJson!put(d, r, MapJson!arrayInfo(0, <<0>>)))
                    ELSE off(r, d)
               ELSE IF ~MapJson!isArrayInfo(info) THEN off(r, d)
               ELSE IF n < Len(info.items)
               THEN on(Append(r, MapJson!itemNode(info.items[n + 1])), d)
               ELSE IF n = Len(info.items) /\ creating
               THEN on(Append(r, MapJson!itemNode(MapJson!newItem(info))),
                       MapJson!put(d, r, MapJson!addItem(info)))
               ELSE off(r, d)
    BY Zenon, <1>1, <1>2, <1>6 DEF MapJson!walkNode
  <2> HIDE DEF next
  <2>2. r \in DOMAIN d /\ MapJson!isArrayInfo(info) => MapJson!hasInfo(d, r)
    BY DEF MapJson!hasInfo
  <2> HIDE DEF n, info
  <2> QED BY <1>6, <2>1, <2>2 DEF n, info, next, at
<1> QED BY <1>5, <1>6 DEF at

LEMMA WalkStays ==
  ASSUME NEW r, NEW d, NEW node, NEW creating
  PROVE  MapJson!walkNode(off(r, d), node, creating) = off(r, d)
BY Zenon, WalkHas DEF MapJson!walkNode

walks(d, path, creating, W, n) ==
  /\ W[0] = on(<<>>, d)
  /\ \A k \in 1..n : W[k] = MapJson!walkNode(W[k - 1], path[k], creating)

LEMMA Counted ==
  ASSUME NEW n \in Nat, NEW G \in SUBSET (0..n), 0 \in G,
         \A k \in 1..n : k - 1 \in G => k \in G
  PROVE  G = 0..n
<1> DEFINE bad == (0..n) \ G
<1>1. SUFFICES ASSUME bad # {} PROVE FALSE
  OBVIOUS
<1>2. PICK m \in bad : \A k \in bad : m <= k
  <2>1. bad \in SUBSET (0..n)  OBVIOUS
  <2> HIDE DEF bad
  <2> QED BY <1>1, <2>1, Least
<1>3. m \in 0..n /\ m \notin G /\ m # 0  BY <1>2
<1>4. m \in 1..n /\ m - 1 \in 0..n /\ ~(m <= m - 1)  BY <1>3
<1>5. m - 1 \in G  BY <1>2, <1>4
<1> QED BY <1>3, <1>4, <1>5

LEMMA RealPathIs ==
  ASSUME NEW d, NEW path, Len(path) \in Nat, NEW creating
  PROVE  \E W : /\ walks(d, path, creating, W, Len(path))
                /\ MapJson!getRealPath(d, path, creating) = W[Len(path)]
<1> DEFINE n == Len(path)
           step(at, k) == MapJson!walkNode(at, path[k], creating)
           start == on(<<>>, d)
           eq(W, m) == W = [k \in 0..m |-> IF k = 0 THEN start ELSE step(W[k - 1], k)]
           G == {m \in 0..n : \E W : eq(W, m)}
<1> HIDE DEF start, step
<1>1. 0 \in G
  <2> DEFINE W == [k \in 0..0 |-> start]
  <2>1. eq(W, 0)  OBVIOUS
  <2> HIDE DEF eq
  <2> QED BY <2>1
<1>2. ASSUME NEW m \in 1..n, m - 1 \in G PROVE m \in G
  <2>1. PICK V : eq(V, m - 1)  BY <1>2
  <2> DEFINE W == [k \in 0..m |-> IF k = m THEN step(V[m - 1], m) ELSE V[k]]
  <2>2. \A k \in 0..(m - 1) : V[k] = IF k = 0 THEN start ELSE step(V[k - 1], k)
    BY <2>1
  <2>3. \A k \in 0..m : W[k] = IF k = 0 THEN start ELSE step(W[k - 1], k)
    <3> SUFFICES ASSUME NEW k \in 0..m PROVE W[k] = IF k = 0 THEN start ELSE step(W[k - 1], k)
      OBVIOUS
    <3>1. CASE k = m
      <4>1. k - 1 \in 0..m /\ k - 1 # m /\ k # 0  BY <3>1
      <4>2. W[k - 1] = V[m - 1] /\ W[k] = step(V[m - 1], m)  BY <3>1, <4>1
      <4> QED BY <3>1, <4>1, <4>2
    <3>2. CASE k # m
      <4>1. k \in 0..(m - 1) /\ W[k] = V[k]  BY <3>2
      <4>2. k # 0 => k - 1 \in 0..m /\ k - 1 # m /\ W[k - 1] = V[k - 1]  BY <3>2
      <4> HIDE DEF W
      <4> QED BY <2>2, <4>1, <4>2
    <3> QED BY <3>1, <3>2
  <2>4. W = [k \in 0..m |-> W[k]]  OBVIOUS
  <2> HIDE DEF W
  <2>5. eq(W, m)  BY <2>3, <2>4
  <2> HIDE DEF eq
  <2> QED BY <2>5
<1>3. n \in G
  <2>1. G \in SUBSET (0..n)  OBVIOUS
  <2> HIDE DEF G
  <2>2. G = 0..n  BY <1>1, <1>2, <2>1, Counted
  <2> QED BY <2>2
<1> DEFINE walk == CHOOSE W : eq(W, n)
<1>4. eq(walk, n)
  <2>1. \E W : eq(W, n)
    <3> HIDE DEF eq
    <3> QED BY <1>3
  <2> HIDE DEF eq
  <2> QED BY <2>1
<1>5. MapJson!getRealPath(d, path, creating) = walk[n]
  BY Zenon DEF MapJson!getRealPath, step, start, on
<1> HIDE DEF walk
<1>6. \A k \in 0..n : walk[k] = IF k = 0 THEN start ELSE step(walk[k - 1], k)
  BY <1>4
<1>7. walks(d, path, creating, walk, n)
  <2>1. walk[0] = start  BY <1>6
  <2>2. \A k \in 1..n : walk[k] = step(walk[k - 1], k)  BY <1>6
  <2> QED BY <2>1, <2>2 DEF walks, start, step
<1> QED BY <1>5, <1>7

----
(* What a walk may put: the first item of a new array, or an item more. *)

Short(d, l) == \A r \in DOMAIN d : MapJson!isArrayInfo(d[r]) => Len(d[r].items) <= l

LEMMA InfoHas ==
  ASSUME NEW d \in Map, NEW r \in DOMAIN d, MapJson!isArrayInfo(d[r])
  PROVE  /\ d[r] \in Info /\ d[r].max \in Nat /\ d[r].items \in Seq(Nat)
         /\ Len(d[r].items) \in Nat /\ DOMAIN d[r].items = 1..Len(d[r].items)
<1>1. d[r] \in Plain \cup Info
  <2> HIDE DEF Node, Plain, Info
  <2> QED BY MapIs
<1>2. d[r] \in Info
  <2> HIDE DEF Node, Plain, Info
  <2> QED BY <1>1, ValueIs
<1>3. d[r].items \in Seq(Nat) /\ d[r].max \in Nat  BY <1>2 DEF Info
<1>4. Len(d[r].items) \in Nat /\ DOMAIN d[r].items = 1..Len(d[r].items)  BY <1>3
<1> QED BY <1>2, <1>3, <1>4

LEMMA PutShort ==
  ASSUME NEW d \in Map, NEW l \in Nat, Short(d, l), NEW r \in Seq(Node),
         NEW v \in Plain \cup Info, NEW m \in Nat, l <= m,
         MapJson!isArrayInfo(v) => Len(v.items) <= m
  PROVE  Short(MapJson!put(d, r, v), m)
<1> DEFINE e == MapJson!put(d, r, v)
<1>1. /\ e \in Map /\ DOMAIN e = DOMAIN d \cup {r} /\ e[r] = v
      /\ \A q \in DOMAIN d : q # r => e[q] = d[q]
  BY PutIs
<1> HIDE DEF e
<1>2. ASSUME NEW q \in DOMAIN e, MapJson!isArrayInfo(e[q]) PROVE Len(e[q].items) <= m
  <2>1. CASE q = r  BY <1>1, <1>2, <2>1
  <2>2. CASE q # r
    <3>1. q \in DOMAIN d /\ e[q] = d[q]  BY <1>1, <2>2
    <3>2. Len(d[q].items) <= l /\ Len(d[q].items) \in Nat
      BY <1>2, <3>1, InfoHas DEF Short
    <3> QED BY <3>1, <3>2
  <2> QED BY <2>1, <2>2
<1> QED BY <1>2 DEF Short, e

LEMMA AddIs ==
  ASSUME NEW info \in Info
  PROVE  LET new == MapJson!addItem(info) IN
         /\ MapJson!newItem(info) = info.max + 1
         /\ new \in Info /\ MapJson!isArrayInfo(new) /\ new.max = info.max + 1
         /\ new.items = Append(info.items, info.max + 1)
         /\ Len(new.items) = Len(info.items) + 1 /\ DOMAIN new.items = 1..(Len(info.items) + 1)
         /\ \A j \in 1..Len(info.items) : new.items[j] = info.items[j]
         /\ new.items[Len(info.items) + 1] = info.max + 1
<1>1. info.max \in Nat /\ info.items \in Seq(Nat)  BY DEF Info
<1>2. info.max + 1 \in Nat /\ Append(info.items, info.max + 1) \in Seq(Nat)  BY <1>1
<1>3. MapJson!newItem(info) = info.max + 1
      /\ MapJson!addItem(info) = MapJson!arrayInfo(info.max + 1, Append(info.items, info.max + 1))
  BY DEF MapJson!newItem, MapJson!addItem
<1>4. /\ MapJson!addItem(info) \in Info /\ MapJson!isArrayInfo(MapJson!addItem(info))
      /\ MapJson!addItem(info).max = info.max + 1
      /\ MapJson!addItem(info).items = Append(info.items, info.max + 1)
  <2> DEFINE m == info.max + 1
             s == Append(info.items, m)
  <2>1. m \in Nat /\ s \in Seq(Nat) /\ MapJson!addItem(info) = MapJson!arrayInfo(m, s)
    BY <1>2, <1>3
  <2> HIDE DEF Info, m, s
  <2>2. /\ MapJson!addItem(info) \in Info /\ MapJson!isArrayInfo(MapJson!addItem(info))
        /\ MapJson!addItem(info).max = m /\ MapJson!addItem(info).items = s
    BY <2>1, InfoIs
  <2> QED BY <2>2 DEF m, s
<1>5. PICK t \in Seq(Nat) : t = info.items  BY <1>1
<1>6. PICK u : u = Append(t, info.max + 1)  OBVIOUS
<1>7. /\ Len(u) = Len(t) + 1 /\ DOMAIN u = 1..(Len(t) + 1)
      /\ \A j \in 1..Len(t) : u[j] = t[j]
      /\ u[Len(t) + 1] = info.max + 1
  BY <1>1, <1>6
<1>8. MapJson!addItem(info).items = u  BY <1>4, <1>5, <1>6
<1> QED BY <1>3, <1>4, <1>5, <1>6, <1>7, <1>8, Zenon

LEMMA FirstItemIs ==
  LET start == MapJson!arrayInfo(0, <<0>>) IN
  /\ start \in Info /\ MapJson!isArrayInfo(start) /\ start.max = 0 /\ start.items = <<0>>
  /\ Len(start.items) = 1 /\ DOMAIN start.items = {1} /\ start.items[1] = 0
<1>1. <<0>> \in Seq(Nat) /\ Len(<<0>>) = 1 /\ DOMAIN <<0>> = {1} /\ <<0>>[1] = 0  OBVIOUS
<1> QED BY <1>1, InfoIs

makes(e, r, v) ==
  \/ r \notin DOMAIN e /\ v = MapJson!arrayInfo(0, <<0>>)
  \/ MapJson!hasInfo(e, r) /\ e[r].max <= MaxItem /\ v = MapJson!addItem(e[r])

LEMMA MakesTidy ==
  ASSUME NEW e, NEW H, Tidy(e, H, MaxItem + 1), NEW r \in Seq(Node), NEW v, makes(e, r, v),
         r \in DOMAIN e \/ \A k \in DOMAIN r : CoveredAt(e, H, r, k)
  PROVE  Tidy(MapJson!put(e, r, v), H, MaxItem + 1) /\ v \in Info /\ MapJson!isArrayInfo(v)
<1>1. e \in Map /\ MaxItem \in Nat /\ MapJson!AnyItem = 0..(MaxItem + 1)
  BY MapBounds DEF Tidy
<1>2. CASE r \notin DOMAIN e /\ v = MapJson!arrayInfo(0, <<0>>)
  <2>1. /\ v \in Info /\ MapJson!isArrayInfo(v) /\ v.max = 0
        /\ DOMAIN v.items = {1} /\ v.items[1] = 0
    BY <1>2, FirstItemIs
  <2>2. MapJson!IsInjective(v.items)  BY <2>1 DEF MapJson!IsInjective
  <2>3. v.max <= MaxItem + 1 /\ \A j \in DOMAIN v.items : v.items[j] \in MapJson!AnyItem /\ v.items[j] <= v.max
    BY <1>1, <2>1
  <2>4. v \in Plain \cup Info /\ MaxItem + 1 \in Nat /\ MaxItem + 1 <= MaxItem + 1  BY <1>1, <2>1
  <2> HIDE DEF Node, Plain, Info
  <2> QED BY <1>2, <2>1, <2>2, <2>3, <2>4, PutTidy
<1>3. CASE MapJson!hasInfo(e, r) /\ e[r].max <= MaxItem /\ v = MapJson!addItem(e[r])
  <2>1. r \in DOMAIN e /\ MapJson!isArrayInfo(e[r])  BY <1>3 DEF MapJson!hasInfo
  <2> DEFINE info == e[r]
             n == Len(info.items)
  <2>2. info \in Info /\ info.max \in Nat /\ n \in Nat /\ DOMAIN info.items = 1..n
    BY <1>1, <2>1, InfoHas
  <2>3. /\ v \in Info /\ MapJson!isArrayInfo(v) /\ v.max = info.max + 1
        /\ DOMAIN v.items = 1..(n + 1) /\ v.items[n + 1] = info.max + 1
        /\ \A j \in 1..n : v.items[j] = info.items[j]
    BY <1>3, <2>2, AddIs
  <2>4. /\ \A j \in 1..n : info.items[j] \in MapJson!AnyItem
        /\ r \notin H => /\ MapJson!IsInjective(info.items)
                         /\ \A j \in 1..n : info.items[j] <= info.max
    BY <2>1, <2>2 DEF Tidy, Arrays
  <2>5. v.max <= MaxItem + 1 /\ \A j \in DOMAIN v.items : v.items[j] \in MapJson!AnyItem
    <3>1. \A j \in 1..(n + 1) : j \in 1..n \/ j = n + 1  BY <2>2
    <3>2. info.max + 1 \in MapJson!AnyItem  BY <1>1, <1>3, <2>2
    <3> HIDE DEF n, info
    <3> QED BY <1>1, <1>3, <2>2, <2>3, <2>4, <3>1, <3>2 DEF info
  <2>6. ASSUME r \notin H
        PROVE  MapJson!IsInjective(v.items) /\ \A j \in DOMAIN v.items : v.items[j] <= v.max
    <3>1. \A j \in 1..(n + 1) : j \in 1..n \/ j = n + 1  BY <2>2
    <3>2. \A j \in 1..n : info.items[j] <= info.max /\ info.items[j] \in Int
      BY <1>1, <2>4, <2>6
    <3>3. \A j \in 1..n, i \in 1..n : info.items[j] = info.items[i] => i = j
      BY <2>2, <2>4, <2>6 DEF MapJson!IsInjective
    <3> HIDE DEF n, info
    <3>4. \A j \in DOMAIN v.items : v.items[j] <= v.max  BY <2>2, <2>3, <3>1, <3>2
    <3>5. ASSUME NEW j \in DOMAIN v.items, NEW i \in DOMAIN v.items, v.items[j] = v.items[i]
          PROVE  i = j
      <4>1. \A k \in 1..n : v.items[k] < info.max + 1
        <5> SUFFICES ASSUME NEW k \in 1..n PROVE v.items[k] < info.max + 1
          OBVIOUS
        <5>1. v.items[k] = info.items[k] /\ info.items[k] <= info.max /\ info.items[k] \in Int
          BY <2>3, <3>2
        <5> QED BY <2>2, <5>1
      <4>2. CASE j \in 1..n /\ i \in 1..n  BY <2>3, <3>3, <3>5, <4>2
      <4>3. CASE j = n + 1 /\ i = n + 1  BY <4>3
      <4>4. CASE j \in 1..n /\ i = n + 1  BY <2>2, <2>3, <3>5, <4>1, <4>4
      <4>5. CASE i \in 1..n /\ j = n + 1  BY <2>2, <2>3, <3>5, <4>1, <4>5
      <4> QED BY <2>3, <3>1, <4>2, <4>3, <4>4, <4>5
    <3> QED BY <3>4, <3>5 DEF MapJson!IsInjective
  <2>7. info.max <= v.max /\ v \in Plain \cup Info /\ MaxItem + 1 \in Nat /\ MaxItem + 1 <= MaxItem + 1
    BY <1>1, <2>2, <2>3
  <2> HIDE DEF n, Node, Plain, Info
  <2> QED BY <2>1, <2>3, <2>5, <2>6, <2>7, PutTidy
<1> QED BY <1>2, <1>3 DEF makes

LEMMA MakesKeeps ==
  ASSUME NEW e, NEW H, Tidy(e, H, MaxItem + 1), NEW r \in Seq(Node), NEW v, makes(e, r, v),
         r \notin H
  PROVE  MapJson!seen(MapJson!put(e, r, v)) = MapJson!seen(e)
<1>1. e \in Map /\ MaxItem \in Nat /\ MapJson!AnyItem = 0..(MaxItem + 1)
  BY MapBounds DEF Tidy
<1> DEFINE f == MapJson!put(e, r, v)
<1>2. v \in Info /\ MapJson!isArrayInfo(v)
  <2>1. r \in DOMAIN e /\ MapJson!isArrayInfo(e[r]) => e[r] \in Info  BY <1>1, InfoHas
  <2> QED BY <2>1, FirstItemIs, AddIs DEF makes, MapJson!hasInfo
<1>3. f[r] = v /\ r \in DOMAIN f  BY DEF MapJson!put
<1>4. ASSUME NEW q \in DOMAIN e, NEW k \in DOMAIN q, above(q, k) = r,
             MapJson!isItem(f, r, q[k])
      PROVE  /\ MapJson!hasInfo(e, r)
             /\ MapJson!indicesOf(f, r, q[k]) = MapJson!indicesOf(e, r, q[k])
  <2>1. PICK i \in MapJson!AnyItem : q[k] = MapJson!itemNode(i)
    BY <1>4 DEF MapJson!isItem
  <2>2. CoveredAt(e, H, q, k)  BY <1>4 DEF Tidy, Covered
  <2>3. r \in DOMAIN e /\ (MapJson!isArrayInfo(e[r]) => i <= e[r].max)
    BY <1>4, <2>1, <2>2 DEF CoveredAt
  <2>4. MapJson!hasInfo(e, r) /\ e[r].max <= MaxItem /\ v = MapJson!addItem(e[r])
    BY <2>3 DEF makes
  <2>5. MapJson!isArrayInfo(e[r])  BY <2>4 DEF MapJson!hasInfo
  <2> DEFINE info == e[r]
             n == Len(info.items)
  <2>6. info \in Info /\ info.max \in Nat /\ n \in Nat /\ DOMAIN info.items = 1..n
    BY <1>1, <2>3, <2>5, InfoHas
  <2>7. /\ DOMAIN v.items = 1..(n + 1) /\ v.items[n + 1] = info.max + 1
        /\ \A j \in 1..n : v.items[j] = info.items[j]
    BY <2>4, <2>6, AddIs
  <2>8. \A j \in 1..n : info.items[j] \in MapJson!AnyItem  BY <2>3, <2>5, <2>6 DEF Tidy, Arrays
  <2>9. MapJson!indicesOf(e, r, q[k]) = {j \in DOMAIN info.items : info.items[j] = i}
    BY <2>1, <2>4, <2>6, <2>8, IndicesAre
  <2>10. MapJson!indicesOf(f, r, q[k]) = {j \in DOMAIN v.items : v.items[j] = i}
    <3>1. MapJson!hasInfo(f, r)  BY <1>2, <1>3 DEF MapJson!hasInfo
    <3>2. info.max + 1 \in MapJson!AnyItem  BY <1>1, <2>4, <2>6
    <3>3. \A j \in 1..(n + 1) : j \in 1..n \/ j = n + 1  BY <2>6
    <3> HIDE DEF n, info, f
    <3>4. \A j \in DOMAIN v.items : v.items[j] \in MapJson!AnyItem
      BY <2>7, <2>8, <3>2, <3>3
    <3> QED BY <1>3, <2>1, <3>1, <3>4, IndicesAre
  <2>11. {j \in DOMAIN v.items : v.items[j] = i} = {j \in DOMAIN info.items : info.items[j] = i}
    <3>1. i <= info.max /\ i \in Int  BY <1>1, <2>3, <2>5
    <3> HIDE DEF info
    <3>2. i # info.max + 1  BY <2>6, <3>1
    <3>3. \A j : j \in 1..(n + 1) <=> j \in 1..n \/ j = n + 1  BY <2>6
    <3> HIDE DEF n
    <3> QED BY <2>6, <2>7, <3>2, <3>3
  <2> QED BY <2>4, <2>9, <2>10, <2>11
<1>5. r \notin DOMAIN e \/ MapJson!hasInfo(e, r)  BY DEF makes
<1> HIDE DEF Node, Plain, Info
<1> QED BY <1>1, <1>2, <1>4, <1>5, FreshKeeps

----
(* What a walk has reached: for each node of the path its own or that of the *)
(* item at its index; deeper than it came nothing has changed.               *)

Leads(e, r, p, j) ==
  IF MapJson!isIndexNode(p[j])
  THEN LET n == MapJson!indexOf(p[j])
           a == above(r, j)
       IN /\ MapJson!hasInfo(e, a) /\ n < Len(e[a].items)
          /\ r[j] = MapJson!itemNode(e[a].items[n + 1])
  ELSE r[j] = p[j]

Deep(d, e, k) ==
  \A q \in Seq(Node) : Len(q) >= k => /\ q \in DOMAIN e <=> q \in DOMAIN d
                                      /\ q \in DOMAIN d => e[q] = d[q]

Made(d, H, l, e) ==
  /\ Tidy(e, H, MaxItem + 1) /\ Short(e, l + 1)
  /\ H = {} => MapJson!seen(e) = MapJson!seen(d)

Reached(d, H, l, p, k, r, e) ==
  /\ Made(d, H, l, e) /\ Deep(d, e, k)
  /\ r \in Seq(Node) /\ Len(r) = k
  /\ \A j \in 1..k : Leads(e, r, p, j)

LEMMA AboveAppend ==
  ASSUME NEW r \in Seq(Node), NEW x \in Node
  PROVE  /\ Append(r, x) \in Seq(Node) /\ Len(Append(r, x)) = Len(r) + 1 /\ Len(r) \in Nat
         /\ Append(r, x)[Len(r) + 1] = x /\ above(Append(r, x), Len(r) + 1) = r
         /\ \A j \in 1..Len(r) : /\ Append(r, x)[j] = r[j]
                                 /\ above(Append(r, x), j) = above(r, j)
<1> HIDE DEF Node
<1> DEFINE s == Append(r, x)
           n == Len(r)
<1>1. /\ s \in Seq(Node) /\ Len(s) = n + 1 /\ n \in Nat /\ s[n + 1] = x
      /\ \A j \in 1..n : s[j] = r[j]
  OBVIOUS
<1> HIDE DEF s
<1>2. above(s, n + 1) = r
  <2> DEFINE k == n + 1
  <2>1. k \in 1..(Len(s) + 1)  BY <1>1
  <2>2. Len(r) = k - 1 /\ \A i \in 1..(k - 1) : r[i] = s[i]  BY <1>1
  <2> HIDE DEF k, n
  <2>3. r = above(s, k)  BY <1>1, <2>1, <2>2, AboveIs
  <2> QED BY <2>3 DEF k
<1>3. ASSUME NEW j \in 1..n PROVE above(s, j) = above(r, j)
  <2>1. j \in 1..(Len(s) + 1) /\ j \in 1..(Len(r) + 1)  BY <1>1
  <2>2. /\ above(r, j) \in Seq(Node) /\ Len(above(r, j)) = j - 1
        /\ \A i \in 1..(j - 1) : above(r, j)[i] = r[i]
    BY <2>1, AboveIs
  <2>3. \A i \in 1..(j - 1) : above(r, j)[i] = s[i]
    <3>1. \A i \in 1..(j - 1) : i \in 1..n  BY <1>1
    <3> QED BY <1>1, <2>2, <3>1
  <2> QED BY <1>1, <2>1, <2>2, <2>3, AboveIs
<1> QED BY <1>1, <1>2, <1>3 DEF s

LEMMA NodesAre ==
  /\ \A i \in Nat : MapJson!itemNode(i) \in Node
  /\ \A p \in Path : /\ p \in Seq(STRING) /\ p \in Seq(Node) /\ Len(p) \in Nat
                     /\ \A k \in 1..Len(p) : p[k] \in Node
<1>1. \A p \in Path : p \in Seq(STRING)  BY DataAssumption
<1>2. STRING \subseteq Node  BY DEF Node
<1>3. \A i \in Nat : MapJson!itemNode(i) \in Node  BY DEF Node
<1> HIDE DEF Node
<1>4. ASSUME NEW p \in Path
      PROVE  /\ p \in Seq(Node) /\ Len(p) \in Nat
             /\ \A k \in 1..Len(p) : p[k] \in Node
  <2>0. \A S : p \in Seq(S) => Len(p) \in Nat /\ \A k \in 1..Len(p) : p[k] \in S
    OBVIOUS
  <2>1. Len(p) \in Nat /\ \A k \in 1..Len(p) : p[k] \in Node  BY Zenon, <1>1, <1>2, <1>4, <2>0
  <2>2. p = [k \in 1..Len(p) |-> p[k]]  BY <1>1, <1>4
  <2>3. p \in [1..Len(p) -> Node]  BY <2>1, <2>2
  <2> QED BY <2>1, <2>3, FunctionIsSeq
<1> QED BY <1>1, <1>3, <1>4

\* Where a path leads goes on leading there when something is put further down.
LEMMA LeadsOn ==
  ASSUME NEW r \in Seq(Node), NEW x \in Node, NEW e, NEW f, NEW p,
         NEW j \in 1..Len(r), Leads(e, r, p, j),
         \A q : q # r => /\ q \in DOMAIN e <=> q \in DOMAIN f
                         /\ q \in DOMAIN e => f[q] = e[q]
  PROVE  Leads(f, Append(r, x), p, j)
<1> HIDE DEF Node
<1>1. above(Append(r, x), j) = above(r, j) /\ Append(r, x)[j] = r[j]  BY AboveAppend
<1>2. above(r, j) # r
  <2>1. j \in 1..(Len(r) + 1) /\ Len(r) \in Nat  OBVIOUS
  <2>2. Len(above(r, j)) = j - 1  BY <2>1, AboveIs
  <2> QED BY <2>1, <2>2
<1>3. MapJson!hasInfo(e, above(r, j)) =>
        MapJson!hasInfo(f, above(r, j)) /\ f[above(r, j)] = e[above(r, j)]
  BY <1>2 DEF MapJson!hasInfo
<1> QED BY Zenon, <1>1, <1>3 DEF Leads

LEMMA DeepMore ==
  ASSUME NEW d, NEW e, NEW k \in Nat, Deep(d, e, k), NEW r \in Seq(Node), Len(r) = k,
         NEW f, \A q : q # r => /\ q \in DOMAIN e <=> q \in DOMAIN f
                                /\ q \in DOMAIN e => f[q] = e[q]
  PROVE  Deep(d, f, k + 1)
<1> HIDE DEF Node
<1> SUFFICES ASSUME NEW q \in Seq(Node), Len(q) >= k + 1
             PROVE  (q \in DOMAIN f <=> q \in DOMAIN d) /\ (q \in DOMAIN d => f[q] = d[q])
  BY DEF Deep
<1>1. Len(q) >= k /\ q # r
  <2>1. Len(q) \in Nat  OBVIOUS
  <2> QED BY <2>1
<1> QED BY <1>1 DEF Deep

\* The item that a path leads to at an index.
LEMMA LedItem ==
  ASSUME NEW e, NEW H, NEW b, Tidy(e, H, b), NEW r, NEW p, NEW j,
         Leads(e, r, p, j), MapJson!isIndexNode(p[j])
  PROVE  LET a == above(r, j)
             n == MapJson!indexOf(p[j])
             item == e[a].items[n + 1]
         IN /\ MapJson!hasInfo(e, a) /\ a \in DOMAIN e /\ MapJson!isArrayInfo(e[a])
            /\ n \in Nat /\ n + 1 \in DOMAIN e[a].items /\ r[j] = MapJson!itemNode(item)
            /\ item \in MapJson!AnyItem /\ item \in NodeNumber
            /\ a \notin H => item <= e[a].max
<1> DEFINE a == above(r, j)
           n == MapJson!indexOf(p[j])
           item == e[a].items[n + 1]
<1>1. MapJson!hasInfo(e, a) /\ n < Len(e[a].items) /\ r[j] = MapJson!itemNode(item)
  BY DEF Leads
<1>2. a \in DOMAIN e /\ MapJson!isArrayInfo(e[a])  BY <1>1 DEF MapJson!hasInfo
<1>3. n \in Nat  BY IndexOfNode, MapBounds
<1>4. Len(e[a].items) \in Nat /\ DOMAIN e[a].items = 1..Len(e[a].items)
  BY <1>2, InfoHas DEF Tidy
<1> HIDE DEF n, a
<1>5. n + 1 \in DOMAIN e[a].items  BY <1>1, <1>3, <1>4
<1>6. item \in MapJson!AnyItem /\ (a \notin H => item <= e[a].max)
  BY <1>2, <1>5 DEF Tidy, Arrays
<1>7. item \in NodeNumber  BY <1>6, MapBounds
<1> QED BY <1>1, <1>2, <1>3, <1>5, <1>6, <1>7 DEF a, n

LEMMA CoveredReal ==
  ASSUME NEW e, NEW H, NEW b, Tidy(e, H, b), NEW p \in Path, NEW r,
         DOMAIN r \subseteq DOMAIN p, \A j \in DOMAIN r : Leads(e, r, p, j)
  PROVE  (\A j \in DOMAIN r : CoveredAt(e, H, r, j)) /\ Proper(r)
<1> SUFFICES ASSUME NEW j \in DOMAIN r
             PROVE  CoveredAt(e, H, r, j) /\ \A n \in NodeNumber : r[j] # MapJson!indexNode(n)
  BY DEF Proper
<1>1. j \in DOMAIN p /\ Leads(e, r, p, j)  OBVIOUS
<1>2. CASE MapJson!isIndexNode(p[j])
  <2> DEFINE a == above(r, j)
             item == e[a].items[MapJson!indexOf(p[j]) + 1]
  <2>1. /\ a \in DOMAIN e /\ r[j] = MapJson!itemNode(item)
        /\ item \in NodeNumber /\ (a \notin H => item <= e[a].max)
    BY <1>1, <1>2, LedItem
  <2> HIDE DEF item
  <2>2. \A i \in MapJson!AnyItem : r[j] = MapJson!itemNode(i) => i = item
    BY <2>1, MapBounds, NodesApart
  <2>3. CoveredAt(e, H, r, j)  BY <2>1, <2>2 DEF CoveredAt
  <2>4. \A n \in NodeNumber : r[j] # MapJson!indexNode(n)  BY <2>1, NodesApart
  <2> QED BY <2>3, <2>4
<1>3. CASE ~MapJson!isIndexNode(p[j])
  <2>1. r[j] = p[j]  BY <1>1, <1>3 DEF Leads
  <2>2. \A i \in NodeNumber : p[j] # MapJson!itemNode(i) /\ p[j] # MapJson!indexNode(i)
    BY <1>1, <1>3, PathNodes
  <2>3. \A i \in MapJson!AnyItem : r[j] # MapJson!itemNode(i)  BY <2>1, <2>2, MapBounds
  <2> QED BY <2>1, <2>2, <2>3 DEF CoveredAt
<1> QED BY <1>2, <1>3

\* What a walk puts at the path it has reached leaves it well.
LEMMA MadeMore ==
  ASSUME NEW d, NEW H, NEW l \in Nat, Tidy(d, H, MaxItem), Short(d, l),
         NEW p \in Path, NEW k \in 0..(Len(p) - 1), NEW r, NEW e, Reached(d, H, l, p, k, r, e),
         NEW v,
         \/ r \notin DOMAIN e /\ v = MapJson!arrayInfo(0, << 0 >>)
         \/ MapJson!hasInfo(e, r) /\ v = MapJson!addItem(e[r])
  PROVE  Made(d, H, l, MapJson!put(e, r, v)) /\ v \in Info /\ MapJson!isArrayInfo(v)
<1> HIDE DEF Node, Info, Plain
<1>1. /\ Tidy(e, H, MaxItem + 1) /\ Short(e, l + 1) /\ Deep(d, e, k) /\ r \in Seq(Node)
      /\ Len(r) = k /\ e \in Map /\ d \in Map /\ MaxItem \in Nat
      /\ H = {} => MapJson!seen(e) = MapJson!seen(d)
  BY MapBounds DEF Reached, Made, Tidy
<1>2. MapJson!hasInfo(e, r) => /\ e[r] = d[r] /\ e[r].max <= MaxItem /\ e[r] \in Info
                               /\ Len(e[r].items) <= l /\ Len(e[r].items) \in Nat
  <2> SUFFICES ASSUME MapJson!hasInfo(e, r)
               PROVE  /\ e[r] = d[r] /\ e[r].max <= MaxItem /\ e[r] \in Info
                      /\ Len(e[r].items) <= l /\ Len(e[r].items) \in Nat
    OBVIOUS
  <2>1. r \in DOMAIN e /\ MapJson!isArrayInfo(e[r])  BY DEF MapJson!hasInfo
  <2>2. Len(r) >= k  BY <1>1
  <2>3. r \in DOMAIN d /\ e[r] = d[r]  BY <1>1, <2>1, <2>2 DEF Deep
  <2>4. d[r].max <= MaxItem  BY <2>1, <2>3 DEF Tidy, Arrays
  <2>5. Len(d[r].items) <= l  BY <2>1, <2>3 DEF Short
  <2>6. e[r] \in Info /\ Len(e[r].items) \in Nat  BY <1>1, <2>1, InfoHas
  <2> QED BY <2>3, <2>4, <2>5, <2>6
<1>3. makes(e, r, v)  BY <1>2 DEF makes
<1>4. \A j \in DOMAIN r : CoveredAt(e, H, r, j)
  <2>1. DOMAIN r = 1..k /\ DOMAIN p = 1..Len(p) /\ Len(p) \in Nat
    <3>1. DOMAIN r = 1..Len(r)  BY <1>1
    <3>2. p \in Seq(Node)  BY NodesAre
    <3> QED BY <1>1, <3>1, <3>2
  <2>2. DOMAIN r \subseteq DOMAIN p  BY <2>1
  <2>3. \A j \in DOMAIN r : Leads(e, r, p, j)  BY <2>1 DEF Reached
  <2> QED BY <1>1, <2>2, <2>3, CoveredReal
<1>5. Tidy(MapJson!put(e, r, v), H, MaxItem + 1) /\ v \in Info /\ MapJson!isArrayInfo(v)
  BY <1>1, <1>3, <1>4, MakesTidy
<1>6. Len(v.items) <= l + 1
  <2>1. CASE v = MapJson!arrayInfo(0, <<0>>)
    <3>1. Len(v.items) = 1  BY <2>1, FirstItemIs
    <3> QED BY <3>1
  <2>2. CASE MapJson!hasInfo(e, r) /\ v = MapJson!addItem(e[r])
    <3>1. Len(v.items) = Len(e[r].items) + 1  BY <1>2, <2>2, AddIs
    <3> QED BY <1>2, <2>2, <3>1
  <2> QED BY <2>1, <2>2
<1>7. Short(MapJson!put(e, r, v), l + 1)
  <2>1. v \in Plain \cup Info /\ l + 1 \in Nat /\ l + 1 <= l + 1  BY <1>5
  <2> QED BY <1>1, <1>6, <2>1, PutShort
<1>8. H = {} => MapJson!seen(MapJson!put(e, r, v)) = MapJson!seen(d)
  <2>1. H = {} => r \notin H  OBVIOUS
  <2>2. H = {} => MapJson!seen(MapJson!put(e, r, v)) = MapJson!seen(e)
    BY <1>1, <1>3, <2>1, MakesKeeps
  <2> QED BY <1>1, <2>2
<1> QED BY <1>5, <1>7, <1>8 DEF Made

LEMMA ReachedMore ==
  ASSUME NEW d, NEW H, NEW l \in Nat, Tidy(d, H, MaxItem), Short(d, l),
         NEW p \in Path, NEW k \in 0..(Len(p) - 1), NEW r, NEW e, Reached(d, H, l, p, k, r, e),
         NEW x \in Node, NEW f, Made(d, H, l, f),
         \A q : q # r => /\ q \in DOMAIN e <=> q \in DOMAIN f
                         /\ q \in DOMAIN e => f[q] = e[q],
         Leads(f, Append(r, x), p, k + 1)
  PROVE  Reached(d, H, l, p, k + 1, Append(r, x), f)
<1> HIDE DEF Node
<1> DEFINE s == Append(r, x)
<1>1. /\ r \in Seq(Node) /\ Len(r) = k /\ k \in Nat /\ Deep(d, e, k)
      /\ \A j \in 1..k : Leads(e, r, p, j)
  BY DEF Reached
<1>2. s \in Seq(Node) /\ Len(s) = k + 1  BY <1>1, AboveAppend
<1>3. Deep(d, f, k + 1)  BY <1>1, DeepMore
<1>4. \A j \in 1..k : Leads(f, s, p, j)  BY <1>1, LeadsOn
<1>5. \A j \in 1..(k + 1) : j \in 1..k \/ j = k + 1  BY <1>1
<1>6. \A j \in 1..(k + 1) : Leads(f, s, p, j)  BY <1>4, <1>5
<1> QED BY <1>2, <1>3, <1>6 DEF Reached

walked(d, H, l, p, k, at) ==
  \E r, e : \/ at = on(r, e) /\ Reached(d, H, l, p, k, r, e)
            \/ at = off(r, e) /\ Made(d, H, l, e)

LEMMA WalkStep ==
  ASSUME NEW d, NEW H, NEW l \in Nat, Tidy(d, H, MaxItem), Short(d, l),
         NEW p \in Path, NEW k \in 0..(Len(p) - 1), NEW at, walked(d, H, l, p, k, at),
         NEW creating
  PROVE  walked(d, H, l, p, k + 1, MapJson!walkNode(at, p[k + 1], creating))
<1> HIDE DEF Node, Info, Plain
<1> DEFINE node == p[k + 1]
           next == MapJson!walkNode(at, node, creating)
           n == MapJson!indexOf(node)
<1> SUFFICES walked(d, H, l, p, k + 1, next)
  OBVIOUS
<1>1. PICK r, e : \/ at = on(r, e) /\ Reached(d, H, l, p, k, r, e)
                  \/ at = off(r, e) /\ Made(d, H, l, e)
  BY DEF walked
<1>2. CASE at = off(r, e) /\ Made(d, H, l, e)
  <2>1. next = off(r, e)  BY <1>2, WalkStays
  <2> QED BY <1>2, <2>1 DEF walked
<1>3. CASE at = on(r, e) /\ Reached(d, H, l, p, k, r, e)
  <2>1. /\ Made(d, H, l, e) /\ Tidy(e, H, MaxItem + 1) /\ e \in Map
        /\ r \in Seq(Node) /\ Len(r) = k /\ k \in Nat
    BY <1>3 DEF Reached, Made, Tidy
  <2>2. k + 1 \in DOMAIN p /\ node \in Node
    <3>1. /\ p \in Seq(Node) /\ Len(p) \in Nat /\ \A j \in 1..Len(p) : p[j] \in Node
      BY NodesAre
    <3>2. k + 1 \in 1..Len(p)  BY <3>1
    <3> QED BY <3>1, <3>2
  <2>3. \A x \in Node : above(Append(r, x), k + 1) = r /\ Append(r, x)[k + 1] = x
    BY <2>1, AboveAppend
  <2>4. ASSUME NEW x \in Node, NEW f, Made(d, H, l, f), next = on(Append(r, x), f),
               \A q : q # r => /\ q \in DOMAIN e <=> q \in DOMAIN f
                               /\ q \in DOMAIN e => f[q] = e[q],
               Leads(f, Append(r, x), p, k + 1)
        PROVE  walked(d, H, l, p, k + 1, next)
    <3>1. Reached(d, H, l, p, k + 1, Append(r, x), f)  BY <1>3, <2>4, ReachedMore
    <3> HIDE DEF next
    <3> QED BY <2>4, <3>1 DEF walked
  <2>5. CASE ~MapJson!isIndexNode(node)
    <3>1. next = on(Append(r, node), e)  BY <1>3, <2>5, WalkIs
    <3>2. Leads(e, Append(r, node), p, k + 1)  BY <2>2, <2>3, <2>5 DEF Leads
    <3> HIDE DEF next, node
    <3> QED BY Zenon, <2>1, <2>2, <2>4, <3>1, <3>2
  <2>6. CASE MapJson!isIndexNode(node)
    <3>0. /\ \A x \in Node : Leads(e, Append(r, x), p, k + 1) <=>
               /\ MapJson!hasInfo(e, r) /\ n < Len(e[r].items)
               /\ x = MapJson!itemNode(e[r].items[n + 1])
          /\ \A f : \A x \in Node : Leads(f, Append(r, x), p, k + 1) <=>
               /\ MapJson!hasInfo(f, r) /\ n < Len(f[r].items)
               /\ x = MapJson!itemNode(f[r].items[n + 1])
      BY <2>3, <2>6 DEF Leads
    <3>1. \/ next = off(r, e)
          \/ /\ creating /\ r \notin DOMAIN e /\ n = 0
             /\ next = on(Append(r, MapJson!itemNode(0)),
                          MapJson!put(e, r, MapJson!arrayInfo(0, <<0>>)))
          \/ /\ MapJson!hasInfo(e, r) /\ n < Len(e[r].items)
             /\ next = on(Append(r, MapJson!itemNode(e[r].items[n + 1])), e)
          \/ /\ creating /\ MapJson!hasInfo(e, r) /\ n = Len(e[r].items)
             /\ next = on(Append(r, MapJson!itemNode(MapJson!newItem(e[r]))),
                          MapJson!put(e, r, MapJson!addItem(e[r])))
      <4>1. at = on(r, e)  BY <1>3
      <4> QED BY Zenon, <2>6, <4>1, WalkIs
    <3>2. MapJson!hasInfo(e, r) => e[r] \in Info /\ e[r].max \in Nat /\ e[r].items \in Seq(Nat)
      BY <2>1, InfoHas DEF MapJson!hasInfo
    <3>3. n \in Nat  BY <2>6, IndexOfNode, MapBounds
    <3>4. ASSUME NEW v PROVE \A q : q # r =>
                 /\ q \in DOMAIN e <=> q \in DOMAIN MapJson!put(e, r, v)
                 /\ q \in DOMAIN e => MapJson!put(e, r, v)[q] = e[q]
      BY DEF MapJson!put
    <3>5. ASSUME NEW v PROVE r \in DOMAIN MapJson!put(e, r, v) /\ MapJson!put(e, r, v)[r] = v
      BY DEF MapJson!put
    <3> HIDE DEF next, node, n
    <3>6. CASE next = off(r, e)
      BY Zenon, <2>1, <3>6 DEF walked
    <3>7. CASE /\ r \notin DOMAIN e /\ n = 0
               /\ next = on(Append(r, MapJson!itemNode(0)),
                            MapJson!put(e, r, MapJson!arrayInfo(0, <<0>>)))
      <4> DEFINE v == MapJson!arrayInfo(0, <<0>>)
                 f == MapJson!put(e, r, v)
                 x == MapJson!itemNode(0)
      <4>1. Made(d, H, l, f) /\ MapJson!isArrayInfo(v)  BY <1>3, <3>7, MadeMore
      <4>2. Len(v.items) = 1 /\ v.items[1] = 0  BY FirstItemIs
      <4>3. x \in Node  BY NodesAre
      <4>4. MapJson!hasInfo(f, r) /\ f[r] = v  BY <3>5, <4>1 DEF MapJson!hasInfo
      <4>5. next = on(Append(r, x), f)  BY <3>7
      <4>6. \A q : q # r => (q \in DOMAIN e <=> q \in DOMAIN f) /\ (q \in DOMAIN e => f[q] = e[q])
        BY <3>4
      <4> HIDE DEF f, v
      <4>7. n < Len(f[r].items) /\ x = MapJson!itemNode(f[r].items[n + 1])
        BY <3>7, <4>2, <4>4
      <4> HIDE DEF x
      <4>8. Leads(f, Append(r, x), p, k + 1)  BY <3>0, <4>3, <4>4, <4>7
      <4> QED BY Zenon, <2>4, <4>1, <4>3, <4>5, <4>6, <4>8
    <3>8. CASE /\ MapJson!hasInfo(e, r) /\ n < Len(e[r].items)
               /\ next = on(Append(r, MapJson!itemNode(e[r].items[n + 1])), e)
      <4> DEFINE x == MapJson!itemNode(e[r].items[n + 1])
      <4>1. e[r].items[n + 1] \in Nat
        <5>1. n + 1 \in 1..Len(e[r].items)  BY <3>2, <3>3, <3>8
        <5> QED BY <3>2, <3>8, <5>1
      <4>2. x \in Node  BY <4>1, NodesAre
      <4>3. next = on(Append(r, x), e)  BY <3>8
      <4>4. Leads(e, Append(r, x), p, k + 1)  BY <3>0, <3>8, <4>2
      <4> HIDE DEF x
      <4> QED BY Zenon, <2>1, <2>4, <4>2, <4>3, <4>4
    <3>9. CASE /\ MapJson!hasInfo(e, r) /\ n = Len(e[r].items)
               /\ next = on(Append(r, MapJson!itemNode(MapJson!newItem(e[r]))),
                            MapJson!put(e, r, MapJson!addItem(e[r])))
      <4> DEFINE v == MapJson!addItem(e[r])
                 f == MapJson!put(e, r, v)
                 x == MapJson!itemNode(MapJson!newItem(e[r]))
      <4>1. Made(d, H, l, f) /\ MapJson!isArrayInfo(v)  BY <1>3, <3>9, MadeMore
      <4>2. /\ MapJson!newItem(e[r]) = e[r].max + 1
            /\ Len(v.items) = Len(e[r].items) + 1
            /\ v.items[Len(e[r].items) + 1] = e[r].max + 1
        BY <3>2, <3>9, AddIs
      <4>3. x \in Node
        <5>1. MapJson!newItem(e[r]) \in Nat  BY <3>2, <3>9, <4>2
        <5> QED BY <5>1, NodesAre
      <4>4. MapJson!hasInfo(f, r) /\ f[r] = v  BY <3>5, <4>1 DEF MapJson!hasInfo
      <4>5. next = on(Append(r, x), f)  BY <3>9
      <4>6. \A q : q # r => (q \in DOMAIN e <=> q \in DOMAIN f) /\ (q \in DOMAIN e => f[q] = e[q])
        BY <3>4
      <4> HIDE DEF f, v
      <4>7. n < Len(f[r].items) /\ x = MapJson!itemNode(f[r].items[n + 1])
        BY <3>3, <3>9, <4>2, <4>4
      <4> HIDE DEF x
      <4>8. Leads(f, Append(r, x), p, k + 1)  BY <3>0, <4>3, <4>4, <4>7
      <4> QED BY Zenon, <2>4, <4>1, <4>3, <4>5, <4>6, <4>8
    <3> QED BY <3>1, <3>6, <3>7, <3>8, <3>9
  <2> QED BY <2>5, <2>6
<1> QED BY <1>1, <1>2, <1>3

\* What getRealPath comes to: a path of the same length that leads where the given one
\* does, or a failure; what it has put on the way leaves the map well, and what is seen of
\* it as it was.
LEMMA WalkEnds ==
  ASSUME NEW d, NEW H, NEW l \in Nat, Tidy(d, H, MaxItem), Short(d, l),
         NEW p \in Path, NEW creating
  PROVE  walked(d, H, l, p, Len(p), MapJson!getRealPath(d, p, creating))
<1> HIDE DEF Node, Info, Plain
<1>1. Len(p) \in Nat  BY NodesAre
<1>2. PICK W : /\ walks(d, p, creating, W, Len(p))
               /\ MapJson!getRealPath(d, p, creating) = W[Len(p)]
  BY <1>1, RealPathIs
<1> DEFINE G == {k \in 0..Len(p) : walked(d, H, l, p, k, W[k])}
<1>3. 0 \in G
  <2>1. W[0] = on(<<>>, d)  BY <1>2 DEF walks
  <2>2. Made(d, H, l, d)
    <3>1. Tidy(d, H, MaxItem + 1)
      <4>1. MaxItem \in Nat /\ MaxItem + 1 \in Nat /\ MaxItem <= MaxItem + 1  BY MapBounds
      <4> QED BY <4>1, TidyMore
    <3>2. Short(d, l + 1)
      <4> SUFFICES ASSUME NEW r \in DOMAIN d, MapJson!isArrayInfo(d[r])
                   PROVE  Len(d[r].items) <= l + 1
        BY DEF Short
      <4>1. Len(d[r].items) <= l /\ Len(d[r].items) \in Nat  BY InfoHas DEF Short, Tidy
      <4> QED BY <4>1
    <3> QED BY <3>1, <3>2 DEF Made
  <2>3. Reached(d, H, l, p, 0, <<>>, d)
    <3>1. Deep(d, d, 0)  BY DEF Deep
    <3>2. <<>> \in Seq(Node) /\ Len(<<>>) = 0  OBVIOUS
    <3>3. \A j \in 1..0 : Leads(d, <<>>, p, j)  OBVIOUS
    <3> QED BY <2>2, <3>1, <3>2, <3>3 DEF Reached
  <2>4. walked(d, H, l, p, 0, W[0])  BY <2>1, <2>3 DEF walked
  <2> QED BY <1>1, <2>4
<1>4. ASSUME NEW k \in 1..Len(p), k - 1 \in G PROVE k \in G
  <2> DEFINE j == k - 1
  <2>1. j \in 0..(Len(p) - 1) /\ walked(d, H, l, p, j, W[j]) /\ j + 1 = k  BY <1>1, <1>4
  <2>2. W[k] = MapJson!walkNode(W[j], p[k], creating)  BY <1>2 DEF walks
  <2> HIDE DEF j
  <2>3. walked(d, H, l, p, j + 1, MapJson!walkNode(W[j], p[j + 1], creating))
    BY <2>1, WalkStep
  <2>4. walked(d, H, l, p, k, W[k])  BY <2>1, <2>2, <2>3
  <2> QED BY <1>1, <2>4
<1>5. G = 0..Len(p)
  <2>1. G \in SUBSET (0..Len(p))  OBVIOUS
  <2> HIDE DEF G
  <2> QED BY <1>1, <1>3, <1>4, <2>1, Counted
<1> QED BY <1>1, <1>2, <1>5

----
(* A write at a real path is seen under the path it is written by.          *)

Others(e, f, r) ==
  \A q : q # r => /\ q \in DOMAIN e <=> q \in DOMAIN f
                  /\ q \in DOMAIN e => f[q] = e[q]

LEMMA PutOthers ==
  ASSUME NEW e, NEW r, NEW v
  PROVE  Others(e, MapJson!put(e, r, v), r) /\ Others(e, e, r)
BY DEF Others, MapJson!put

LEMMA WordsAre ==
  /\ Node \subseteq Word
  /\ \A p \in Path : p \in Seq(Word)
<1>1. Node \subseteq Word  BY DEF Word
<1>2. \A p \in Path : /\ p \in Seq(Node) /\ Len(p) \in Nat
                      /\ \A k \in 1..Len(p) : p[k] \in Node
  BY NodesAre
<1> HIDE DEF Node, Word
<1>3. ASSUME NEW p \in Path PROVE p \in Seq(Word)
  <2>1. p = [k \in 1..Len(p) |-> p[k]]  BY <1>2
  <2>2. p \in [1..Len(p) -> Word]  BY <1>1, <1>2, <2>1
  <2> QED BY <1>2, <2>2, FunctionIsSeq
<1> QED BY <1>1, <1>3

LEMMA UnderReal ==
  ASSUME NEW e, NEW b, Tidy(e, {}, b), NEW p \in Path, NEW r \in Seq(Node), Len(r) = Len(p),
         \A j \in 1..Len(p) : Leads(e, r, p, j),
         NEW f \in Map, Others(e, f, r),
         NEW q \in Seq(Node), MapJson!IsPrefix(r, q), MapJson!inReach(f, q)
  PROVE  MapJson!IsPrefix(p, MapJson!asWritten(f, q))
<1> HIDE DEF Node, Word, Info, Plain
<1> DEFINE w == MapJson!asWritten(f, q)
<1>1. /\ w \in Seq(Word) /\ Len(w) = Len(q) /\ DOMAIN q = 1..Len(q)
      /\ \A k \in 1..Len(q) :
           IF isItemAt(f, q, k)
           THEN w[k] = MapJson!indexNode(spot(f, q, k) - 1) /\ spot(f, q, k) \in indicesAt(f, q, k)
           ELSE w[k] = q[k]
  BY WrittenIs
<1>2. /\ Len(p) \in Nat /\ Len(q) \in Nat /\ Len(p) <= Len(q) /\ DOMAIN p = 1..Len(p)
      /\ \A k \in 1..Len(p) : r[k] = q[k]
  <2>1. Len(r) <= Len(q) /\ \A i \in 1..Len(r) : r[i] = q[i]  BY MapPrefix
  <2>2. Len(q) \in Nat /\ p \in Seq(Node) /\ Len(p) \in Nat  BY NodesAre
  <2> QED BY <2>1, <2>2
<1> HIDE DEF w
<1>3. ASSUME NEW k \in 1..Len(p) PROVE w[k] = p[k]
  <2> DEFINE a == above(r, k)
  <2>1. k \in 1..Len(q) /\ k \in 1..(Len(q) + 1) /\ k \in 1..(Len(r) + 1)  BY <1>2
  <2>2. a \in Seq(Node) /\ Len(a) = k - 1 /\ \A i \in 1..(k - 1) : a[i] = r[i]
    BY <2>1, AboveIs
  <2>3. above(q, k) = a
    <3>1. \A i \in 1..(k - 1) : a[i] = q[i]
      <4>1. \A i \in 1..(k - 1) : i \in 1..Len(p)  BY <1>2
      <4> QED BY <1>2, <2>2, <4>1
    <3> HIDE DEF a
    <3> QED BY <2>1, <2>2, <3>1, AboveIs
  <2>4. a # r  BY <1>2, <2>2
  <2>5. Leads(e, r, p, k) /\ k \in DOMAIN p /\ r[k] = q[k]  BY <1>2
  <2>6. CASE MapJson!isIndexNode(p[k])
    <3> DEFINE n == MapJson!indexOf(p[k])
               item == e[a].items[n + 1]
    <3>1. /\ MapJson!hasInfo(e, a) /\ a \in DOMAIN e /\ MapJson!isArrayInfo(e[a])
          /\ n \in Nat /\ n + 1 \in DOMAIN e[a].items /\ r[k] = MapJson!itemNode(item)
          /\ item \in MapJson!AnyItem
      BY <2>5, <2>6, LedItem
    <3>2. p[k] = MapJson!indexNode(n)  BY <2>6, IndexOfNode
    <3> HIDE DEF n, a
    <3>3. MapJson!hasInfo(f, a) /\ f[a] = e[a]
      BY <2>4, <3>1 DEF Others, MapJson!hasInfo
    <3>4. /\ MapJson!IsInjective(e[a].items)
          /\ \A j \in DOMAIN e[a].items : e[a].items[j] \in MapJson!AnyItem
      BY <3>1 DEF Tidy, Arrays
    <3> HIDE DEF item
    <3>5. /\ MapJson!isItem(f, a, MapJson!itemNode(item))
          /\ MapJson!indicesOf(f, a, MapJson!itemNode(item)) = {j \in DOMAIN f[a].items : f[a].items[j] = item}
      BY <3>1, <3>3, <3>4, IndicesAre
    <3>6. isItemAt(f, q, k)  BY <2>3, <2>5, <3>1, <3>5 DEF isItemAt
    <3>7. w[k] = MapJson!indexNode(spot(f, q, k) - 1) /\ spot(f, q, k) \in indicesAt(f, q, k)
      BY <1>1, <2>1, <3>6
    <3>8. spot(f, q, k) \in {j \in DOMAIN f[a].items : f[a].items[j] = item}
      BY <2>3, <2>5, <3>1, <3>5, <3>7 DEF indicesAt
    <3>9. spot(f, q, k) = n + 1
      BY <3>1, <3>3, <3>4, <3>8 DEF MapJson!IsInjective, item
    <3>10. spot(f, q, k) - 1 = n  BY <3>1, <3>9
    <3> QED BY <3>2, <3>7, <3>10
  <2>7. CASE ~MapJson!isIndexNode(p[k])
    <3>1. q[k] = p[k]  BY <2>5, <2>7 DEF Leads
    <3>2. ~isItemAt(f, q, k)
      BY <2>5, <3>1, PathNodes, MapBounds DEF isItemAt, MapJson!isItem
    <3> QED BY <1>1, <2>1, <3>1, <3>2
  <2> QED BY <2>6, <2>7
<1>4. Len(p) <= Len(w) /\ \A k \in 1..Len(p) : p[k] = w[k]  BY <1>1, <1>2, <1>3
<1>5. p \in Seq(Word)  BY WordsAre
<1> QED BY <1>1, <1>4, <1>5, MapPrefix DEF w

\* A path that does not go through another is seen the same whatever is put at that.
LEMMA AsideSame ==
  ASSUME NEW e, NEW f, NEW r \in Seq(Node), Others(e, f, r),
         NEW q \in Seq(Node), ~MapJson!IsPrefix(r, q)
  PROVE  /\ shows(e, q) <=> shows(f, q)
         /\ shows(e, q) => entry(e, q) = entry(f, q)
<1> HIDE DEF Node
<1>1. q # r
  <2>1. MapJson!IsPrefix(r, r)  BY MapPrefix
  <2> QED BY <2>1
<1>2. ASSUME NEW k \in DOMAIN q PROVE above(q, k) # r
  <2>1. k \in 1..Len(q) /\ k \in 1..(Len(q) + 1) /\ Len(q) \in Nat /\ Len(r) \in Nat  OBVIOUS
  <2>2. Len(above(q, k)) = k - 1 /\ \A i \in 1..(k - 1) : above(q, k)[i] = q[i]
    BY <2>1, AboveIs
  <2> SUFFICES ASSUME above(q, k) = r PROVE FALSE
    OBVIOUS
  <2>3. Len(r) <= Len(q) /\ \A i \in 1..Len(r) : r[i] = q[i]  BY <2>1, <2>2
  <2> QED BY <2>3, MapPrefix
<1>3. /\ MapJson!asWritten(e, q) = MapJson!asWritten(f, q)
      /\ MapJson!inReach(e, q) <=> MapJson!inReach(f, q)
  <2>1. ASSUME NEW k \in DOMAIN q
        PROVE  /\ isItemAt(e, q, k) <=> isItemAt(f, q, k)
               /\ isItemAt(e, q, k) => indicesAt(e, q, k) = indicesAt(f, q, k)
    BY <1>2 DEF Others, isItemAt, indicesAt, MapJson!isItem, MapJson!hasInfo, MapJson!indicesOf
  <2> QED BY <2>1, SameView
<1>4. (q \in DOMAIN e <=> q \in DOMAIN f) /\ (q \in DOMAIN e => f[q] = e[q])
  BY <1>1 DEF Others
<1> QED BY <1>3, <1>4 DEF shows, entry

LEMMA OutsideIs ==
  ASSUME NEW d, NEW p, NEW x
  PROVE  x \in MapJson!outside(MapJson!seen(d), p)
           <=> \E q : shows(d, q) /\ x = entry(d, q) /\ ~MapJson!IsPrefix(p, MapJson!asWritten(d, q))
<1>1. x \in MapJson!outside(MapJson!seen(d), p)
        <=> x \in MapJson!seen(d) /\ ~MapJson!IsPrefix(p, x.path)
  BY DEF MapJson!outside
<1>2. \A q : entry(d, q).path = MapJson!asWritten(d, q)  BY DEF entry
<1> QED BY <1>1, <1>2, SeenIs

LEMMA PutOutside ==
  ASSUME NEW e, NEW b, Tidy(e, {}, b), NEW p \in Path, NEW r \in Seq(Node), Len(r) = Len(p),
         \A j \in 1..Len(p) : Leads(e, r, p, j), NEW v \in Plain \cup Info
  PROVE  MapJson!outside(MapJson!seen(MapJson!put(e, r, v)), p) = MapJson!outside(MapJson!seen(e), p)
<1> HIDE DEF Node, Word, Info, Plain
<1> DEFINE f == MapJson!put(e, r, v)
<1>1. e \in Map /\ f \in Map /\ Others(e, f, r) /\ Others(e, e, r)
  BY PutIs, PutOthers DEF Tidy
<1> HIDE DEF f
<1>2. ASSUME NEW g, g = e \/ g = f, NEW q, shows(g, q),
             ~MapJson!IsPrefix(p, MapJson!asWritten(g, q))
      PROVE  q \in Seq(Node) /\ ~MapJson!IsPrefix(r, q)
  <2>1. g \in Map /\ Others(e, g, r)  BY <1>1, <1>2
  <2>2. q \in Seq(Node) /\ MapJson!inReach(g, q)  BY <1>2, <2>1, MapIs DEF shows
  <2> QED BY <1>2, <2>1, <2>2, UnderReal
<1>3. ASSUME NEW x, x \in MapJson!outside(MapJson!seen(f), p)
      PROVE  x \in MapJson!outside(MapJson!seen(e), p)
  <2>1. PICK q : shows(f, q) /\ x = entry(f, q) /\ ~MapJson!IsPrefix(p, MapJson!asWritten(f, q))
    BY <1>3, OutsideIs
  <2>2. q \in Seq(Node) /\ ~MapJson!IsPrefix(r, q)  BY <1>2, <2>1
  <2>3. shows(e, q) /\ entry(e, q) = entry(f, q)  BY <1>1, <2>1, <2>2, AsideSame
  <2>4. MapJson!asWritten(e, q) = MapJson!asWritten(f, q)  BY <2>3 DEF entry
  <2> QED BY <2>1, <2>3, <2>4, OutsideIs
<1>4. ASSUME NEW x, x \in MapJson!outside(MapJson!seen(e), p)
      PROVE  x \in MapJson!outside(MapJson!seen(f), p)
  <2>1. PICK q : shows(e, q) /\ x = entry(e, q) /\ ~MapJson!IsPrefix(p, MapJson!asWritten(e, q))
    BY <1>4, OutsideIs
  <2>2. q \in Seq(Node) /\ ~MapJson!IsPrefix(r, q)  BY <1>2, <2>1
  <2>3. shows(f, q) /\ entry(e, q) = entry(f, q)  BY <1>1, <2>1, <2>2, AsideSame
  <2>4. MapJson!asWritten(e, q) = MapJson!asWritten(f, q)  BY <2>3 DEF entry
  <2> QED BY <2>1, <2>3, <2>4, OutsideIs
<1> QED BY <1>3, <1>4 DEF f

----
(* A value written by its path. *)

fitting(v, l) ==
  MapJson!isArrayInfo(v) =>
    /\ v.max <= MaxItem + 1 /\ Len(v.items) <= l
    /\ \A j \in DOMAIN v.items : v.items[j] \in MapJson!AnyItem

LEMMA TidyWider ==
  ASSUME NEW d, NEW H, NEW b, Tidy(d, H, b), NEW I, H \subseteq I
  PROVE  Tidy(d, I, b)
<1>1. Arrays(d, I, b)  BY DEF Tidy, Arrays
<1>2. Covered(d, I)  BY DEF Tidy, Covered, CoveredAt
<1> QED BY <1>1, <1>2 DEF Tidy

LEMMA WriteIs ==
  ASSUME NEW d, NEW H, NEW l \in Nat, Tidy(d, H, MaxItem), Short(d, l),
         NEW p \in Path, NEW v \in Plain \cup Info, fitting(v, l + 1)
  PROVE  LET at == MapJson!getRealPath(d, p, TRUE)
             e == MapJson!checkAndSetValue(d, p, v)
             I == H \cup IF at.ok /\ MapJson!isArrayInfo(v) THEN {at.real} ELSE {}
         IN /\ Tidy(e, I, MaxItem + 1) /\ Short(e, l + 1)
            /\ H = {} => MapJson!outside(MapJson!seen(e), p) = MapJson!outside(MapJson!seen(d), p)
<1> HIDE DEF Node, Word, Info, Plain
<1> DEFINE at == MapJson!getRealPath(d, p, TRUE)
           e == MapJson!checkAndSetValue(d, p, v)
           I == H \cup IF at.ok /\ MapJson!isArrayInfo(v) THEN {at.real} ELSE {}
           same == H = {} => MapJson!outside(MapJson!seen(e), p) = MapJson!outside(MapJson!seen(d), p)
<1> SUFFICES Tidy(e, I, MaxItem + 1) /\ Short(e, l + 1) /\ same
  OBVIOUS
<1>1. walked(d, H, l, p, Len(p), at)
  <2> HIDE DEF at
  <2>1. \A c : walked(d, H, l, p, Len(p), MapJson!getRealPath(d, p, c))  BY WalkEnds
  <2> QED BY Zenon, <2>1 DEF at
<1>2. e = IF at.ok THEN MapJson!put(at.data, at.real, v) ELSE at.data
  BY Zenon DEF MapJson!checkAndSetValue
<1> HIDE DEF at
<1>3. PICK r, f : \/ at = on(r, f) /\ Reached(d, H, l, p, Len(p), r, f)
                  \/ at = off(r, f) /\ Made(d, H, l, f)
  BY <1>1 DEF walked
<1> HIDE DEF e
<1>4. CASE at = off(r, f) /\ Made(d, H, l, f)
  <2>1. ~at.ok /\ at.data = f  BY <1>4 DEF off
  <2>2. e = f /\ I = H  BY Zenon, <1>2, <2>1
  <2> HIDE DEF I
  <2>3. Tidy(e, I, MaxItem + 1) /\ Short(e, l + 1)  BY <1>4, <2>2 DEF Made
  <2>4. same  BY <1>4, <2>2 DEF Made
  <2> QED BY <2>3, <2>4
<1>5. CASE at = on(r, f) /\ Reached(d, H, l, p, Len(p), r, f)
  <2>1. at.ok /\ at.real = r /\ at.data = f
    <3>1. on(r, f).ok /\ on(r, f).real = r /\ on(r, f).data = f  BY WalkHas
    <3>2. at = on(r, f)  BY <1>5
    <3> QED BY <3>1, <3>2
  <2>2. e = MapJson!put(f, r, v)  BY <1>2, <2>1
  <2>3. H \subseteq I /\ (MapJson!isArrayInfo(v) => r \in I)  BY <2>1
  <2> HIDE DEF I
  <2>4. /\ Tidy(f, H, MaxItem + 1) /\ Short(f, l + 1) /\ f \in Map
        /\ H = {} => MapJson!seen(f) = MapJson!seen(d)
        /\ r \in Seq(Node) /\ Len(r) = Len(p)
        /\ \A j \in 1..Len(p) : Leads(f, r, p, j)
    BY <1>5 DEF Reached, Made, Tidy
  <2>5. (\A j \in DOMAIN r : CoveredAt(f, I, r, j)) /\ Proper(r)
    <3>1. DOMAIN r = 1..Len(p) /\ DOMAIN p = 1..Len(p)
      <4>1. DOMAIN r = 1..Len(r)  BY <2>4
      <4>2. p \in Seq(Node)  BY NodesAre
      <4> QED BY <2>4, <4>1, <4>2
    <3>2. Tidy(f, I, MaxItem + 1)  BY <2>3, <2>4, TidyWider
    <3> QED BY <2>4, <3>1, <3>2, CoveredReal
  <2>6. MaxItem + 1 \in Nat /\ MaxItem + 1 <= MaxItem + 1 /\ l + 1 \in Nat /\ l + 1 <= l + 1
    BY MapBounds
  <2>7. Tidy(e, I, MaxItem + 1)
    BY <2>2, <2>3, <2>4, <2>5, <2>6, PutTidy DEF fitting
  <2>8. Short(e, l + 1)  BY <2>2, <2>4, <2>6, PutShort DEF fitting
  <2>9. same
    <3> SUFFICES ASSUME H = {}
                 PROVE  MapJson!outside(MapJson!seen(e), p) = MapJson!outside(MapJson!seen(d), p)
      OBVIOUS
    <3>1. Tidy(f, {}, MaxItem + 1) /\ MapJson!seen(f) = MapJson!seen(d)  BY <2>4
    <3> QED BY <2>2, <2>4, <3>1, PutOutside
  <2> QED BY <2>7, <2>8, <2>9
<1> QED BY <1>3, <1>4, <1>5

----
(* The items of an array, rearranged. *)

LEMMA RemovedIs ==
  ASSUME NEW S, NEW s \in Seq(S), NEW i \in 1..Len(s)
  PROVE  LET t == MapJson!RemoveAt(s, i) IN
         /\ t \in Seq(S) /\ Len(t) = Len(s) - 1
         /\ \A j \in 1..(Len(s) - 1) : t[j] = IF j < i THEN s[j] ELSE s[j + 1]
<1> DEFINE n == Len(s)
           a == SubSeq(s, 1, i - 1)
           b == SubSeq(s, i + 1, n)
<1>1. n \in Nat /\ i \in Nat  OBVIOUS
<1>2. a \in Seq(S) /\ Len(a) = i - 1 /\ \A j \in 1..(i - 1) : a[j] = s[j]
  BY <1>1, SubSeqProperties
<1>3. b \in Seq(S) /\ Len(b) = n - i /\ \A j \in 1..(n - i) : b[j] = s[j + i]
  BY <1>1, SubSeqProperties
<1>4. MapJson!RemoveAt(s, i) = a \o b  BY DEF MapJson!RemoveAt
<1> HIDE DEF a, b
<1>5. /\ a \o b \in Seq(S) /\ Len(a \o b) = n - 1
      /\ \A j \in 1..(n - 1) : (a \o b)[j] = IF j <= i - 1 THEN a[j] ELSE b[j - (i - 1)]
  <2>1. a \o b \in Seq(S) /\ Len(a \o b) = Len(a) + Len(b)
        /\ \A j \in 1..(Len(a) + Len(b)) : (a \o b)[j] = IF j <= Len(a) THEN a[j] ELSE b[j - Len(a)]
    BY <1>2, <1>3, ConcatProperties
  <2>2. Len(a) + Len(b) = n - 1  BY <1>1, <1>2, <1>3
  <2> QED BY <1>2, <2>1, <2>2
<1>6. ASSUME NEW j \in 1..(n - 1) PROVE (a \o b)[j] = IF j < i THEN s[j] ELSE s[j + 1]
  <2>1. CASE j < i
    <3>1. j \in 1..(i - 1) /\ j <= i - 1  BY <1>1, <2>1
    <3> QED BY <1>2, <1>5, <2>1, <3>1
  <2>2. CASE ~(j < i)
    <3>1. j - (i - 1) \in 1..(n - i) /\ ~(j <= i - 1) /\ j - (i - 1) + i = j + 1  BY <1>1, <2>2
    <3>2. b[j - (i - 1)] = s[j + 1]  BY <1>3, <3>1
    <3> QED BY <1>5, <2>2, <3>1, <3>2
  <2> QED BY <2>1, <2>2
<1> QED BY <1>4, <1>5, <1>6

LEMMA InsertedIs ==
  ASSUME NEW S, NEW s \in Seq(S), NEW i \in 1..(Len(s) + 1), NEW x \in S
  PROVE  LET t == MapJson!InsertAt(s, i, x) IN
         /\ t \in Seq(S) /\ Len(t) = Len(s) + 1
         /\ t[i] = x
         /\ \A j \in 1..(Len(s) + 1) : j < i => t[j] = s[j]
         /\ \A j \in 1..(Len(s) + 1) : j > i => t[j] = s[j - 1]
<1> DEFINE n == Len(s)
           a == SubSeq(s, 1, i - 1)
           b == SubSeq(s, i, n)
           c == a \o <<x>>
<1>1. n \in Nat /\ i \in Nat  OBVIOUS
<1>2. a \in Seq(S) /\ Len(a) = i - 1 /\ \A j \in 1..(i - 1) : a[j] = s[j]
  BY <1>1, SubSeqProperties
<1>3. b \in Seq(S) /\ Len(b) = n - i + 1 /\ \A j \in 1..(n - i + 1) : b[j] = s[j + i - 1]
  BY <1>1, SubSeqProperties
<1>4. MapJson!InsertAt(s, i, x) = c \o b  BY DEF MapJson!InsertAt
<1> HIDE DEF a, b
<1>5. c \in Seq(S) /\ Len(c) = i /\ c[i] = x /\ \A j \in 1..(i - 1) : c[j] = s[j]
  <2>1. c \in Seq(S) /\ Len(c) = Len(a) + 1 /\ c[Len(a) + 1] = x /\ \A j \in 1..Len(a) : c[j] = a[j]
    BY <1>2
  <2> HIDE DEF c
  <2>2. Len(a) + 1 = i  BY <1>1, <1>2
  <2> QED BY <1>2, <2>1, <2>2
<1> HIDE DEF c
<1>6. /\ c \o b \in Seq(S) /\ Len(c \o b) = n + 1
      /\ \A j \in 1..(n + 1) : (c \o b)[j] = IF j <= i THEN c[j] ELSE b[j - i]
  <2>1. c \o b \in Seq(S) /\ Len(c \o b) = Len(c) + Len(b)
        /\ \A j \in 1..(Len(c) + Len(b)) : (c \o b)[j] = IF j <= Len(c) THEN c[j] ELSE b[j - Len(c)]
    BY <1>3, <1>5
  <2>2. Len(c) + Len(b) = n + 1  BY <1>1, <1>3, <1>5
  <2> QED BY <1>5, <2>1, <2>2
<1>7. ASSUME NEW j \in 1..(n + 1)
      PROVE  /\ j < i => (c \o b)[j] = s[j]
             /\ j > i => (c \o b)[j] = s[j - 1]
  <2>1. CASE j < i
    <3>1. j \in 1..(i - 1) /\ j <= i /\ ~(j > i)  BY <1>1, <2>1
    <3> QED BY <1>5, <1>6, <2>1, <3>1
  <2>3. CASE j > i
    <3>1. j - i \in 1..(n - i + 1) /\ ~(j <= i) /\ j - i + i - 1 = j - 1 /\ ~(j < i)
      BY <1>1, <2>3
    <3>2. b[j - i] = s[j - 1]  BY <1>3, <3>1
    <3> QED BY <1>1, <1>6, <2>3, <3>1, <3>2
  <2> QED BY <2>1, <2>3
<1>8. (c \o b)[i] = x
  <2>1. i \in 1..(n + 1) /\ i <= i  BY <1>1
  <2> QED BY <1>5, <1>6, <2>1
<1> QED BY <1>4, <1>6, <1>7, <1>8

LEMMA InsertedSeq ==
  ASSUME NEW S, NEW s \in Seq(S), NEW i \in 1..(Len(s) + 1), NEW x \in S
  PROVE  MapJson!InsertAt(s, i, x) \in Seq(S) /\ Len(MapJson!InsertAt(s, i, x)) = Len(s) + 1
<1>1. s \in Seq(S) /\ i \in 1..(Len(s) + 1) /\ x \in S  OBVIOUS
<1> QED BY ONLY <1>1, InsertedIs

LEMMA InsertedAt ==
  ASSUME NEW S, NEW s \in Seq(S), NEW i \in 1..(Len(s) + 1), NEW x \in S
  PROVE  LET t == MapJson!InsertAt(s, i, x) IN
         /\ t[i] = x
         /\ \A j \in 1..(Len(s) + 1) : j < i => t[j] = s[j]
         /\ \A j \in 1..(Len(s) + 1) : j > i => t[j] = s[j - 1]
<1>1. s \in Seq(S) /\ i \in 1..(Len(s) + 1) /\ x \in S  OBVIOUS
<1>2. LET t == MapJson!InsertAt(s, i, x) IN t[i] = x  BY ONLY <1>1, InsertedIs
<1>3. LET t == MapJson!InsertAt(s, i, x) IN \A j \in 1..(Len(s) + 1) : j < i => t[j] = s[j]
  BY ONLY <1>1, InsertedIs
<1>4. LET t == MapJson!InsertAt(s, i, x) IN \A j \in 1..(Len(s) + 1) : j > i => t[j] = s[j - 1]
  BY ONLY <1>1, InsertedIs
<1> QED BY ONLY <1>2, <1>3, <1>4

----
(* The invariant of the path map, and what keeps it.                        *)

MapOk(d, H, c) == Tidy(d, H, MaxItem) /\ Short(d, c + 1)
MapInv == MapOk(data, handmade, calls) /\ calls \in 0..MaxCall

LEMMA WroteOk ==
  ASSUME NEW e, NEW I, NEW b, NEW c \in Nat, Tidy(e, I, b), Short(e, c + 2), MapJson!wrote(e),
         handmade' = I
  PROVE  MapOk(data', handmade', c + 1)
<1>1. Tidy(e, I, MaxItem) /\ data' = e  BY FitsTidy DEF MapJson!wrote
<1>2. c + 1 + 1 = c + 2  OBVIOUS
<1> QED BY <1>1, <1>2 DEF MapOk

LEMMA InvHas ==
  ASSUME MapInv
  PROVE  /\ Tidy(data, handmade, MaxItem) /\ Short(data, calls + 1) /\ data \in Map
         /\ MaxItem \in Nat /\ MaxCall \in Nat /\ calls \in Nat /\ calls + 1 \in Nat
         /\ calls + 2 \in Nat /\ calls + 1 <= calls + 2 /\ calls + 1 + 1 = calls + 2
BY MapBounds DEF MapInv, MapOk, Tidy

\* The array at a path that a call finds.
LEMMA FoundIs ==
  ASSUME MapInv, NEW p, MapJson!hasInfo(data, p)
  PROVE  LET info == data[p] IN
         /\ p \in DOMAIN data /\ MapJson!isArrayInfo(info) /\ info \in Info /\ p \in Seq(Node)
         /\ info.max \in Nat /\ info.max <= MaxItem /\ info.items \in Seq(Nat)
         /\ Len(info.items) \in Nat /\ Len(info.items) <= calls + 1
         /\ DOMAIN info.items = 1..Len(info.items)
         /\ \A j \in 1..Len(info.items) :
              info.items[j] \in MapJson!AnyItem /\ info.items[j] \in Nat
         /\ p \notin handmade => /\ MapJson!IsInjective(info.items)
                                 /\ \A j \in 1..Len(info.items) : info.items[j] <= info.max
<1> HIDE DEF Node, Info, Plain
<1>1. /\ Tidy(data, handmade, MaxItem) /\ Short(data, calls + 1) /\ data \in Map
      /\ p \in DOMAIN data /\ MapJson!isArrayInfo(data[p])
  BY InvHas DEF MapJson!hasInfo
<1>2. /\ data[p] \in Info /\ data[p].max \in Nat /\ data[p].items \in Seq(Nat)
      /\ Len(data[p].items) \in Nat /\ DOMAIN data[p].items = 1..Len(data[p].items)
  BY <1>1, InfoHas
<1>3. p \in Seq(Node)  BY <1>1, MapIs
<1>4. /\ data[p].max <= MaxItem /\ Len(data[p].items) <= calls + 1
      /\ \A j \in DOMAIN data[p].items : data[p].items[j] \in MapJson!AnyItem
      /\ p \notin handmade => /\ MapJson!IsInjective(data[p].items)
                              /\ \A j \in DOMAIN data[p].items : data[p].items[j] <= data[p].max
  BY <1>1 DEF Tidy, Arrays, Short
<1>5. \A j \in 1..Len(data[p].items) : data[p].items[j] \in Nat
  BY <1>2, <1>4, MapBounds
<1> QED BY <1>1, <1>2, <1>3, <1>4, <1>5

\* Another array in the place of one.
replaces(p, v) ==
  /\ MapJson!hasInfo(data, p) /\ v \in Info /\ MapJson!isArrayInfo(v)
  /\ v.max <= MaxItem + 1 /\ data[p].max <= v.max /\ Len(v.items) <= calls + 2
  /\ \A j \in DOMAIN v.items : v.items[j] \in MapJson!AnyItem
  /\ p \notin handmade => /\ MapJson!IsInjective(v.items)
                          /\ \A j \in DOMAIN v.items : v.items[j] <= v.max

LEMMA ReplacedOk ==
  ASSUME MapInv, NEW p, NEW v, replaces(p, v)
  PROVE  LET e == MapJson!put(data, p, v) IN
         Tidy(e, handmade, MaxItem + 1) /\ Short(e, calls + 2) /\ e \in Map
<1> HIDE DEF Node, Info, Plain
<1>1. /\ Tidy(data, handmade, MaxItem) /\ Short(data, calls + 1) /\ data \in Map
      /\ MaxItem \in Nat /\ calls + 1 \in Nat /\ calls + 2 \in Nat /\ calls + 1 <= calls + 2
  BY InvHas
<1>2. p \in DOMAIN data /\ MapJson!isArrayInfo(data[p]) /\ p \in Seq(Node)
  BY FoundIs DEF replaces
<1>3. v \in Plain \cup Info /\ MapJson!isArrayInfo(v)  BY DEF replaces
<1>4. MaxItem + 1 \in Nat /\ MaxItem <= MaxItem + 1  BY <1>1
<1>5. Tidy(MapJson!put(data, p, v), handmade, MaxItem + 1)
  BY <1>1, <1>2, <1>3, <1>4, PutTidy DEF replaces
<1>6. Short(MapJson!put(data, p, v), calls + 2)
  BY <1>1, <1>2, <1>3, PutShort DEF replaces
<1> QED BY <1>5, <1>6 DEF Tidy

LEMMA SetInfoOk ==
  ASSUME MapInv, NEW p, NEW v, replaces(p, v), MapJson!setInfo(p, v)
  PROVE  MapOk(data', handmade', calls + 1)
<1>1. /\ Tidy(MapJson!put(data, p, v), handmade, MaxItem + 1)
      /\ Short(MapJson!put(data, p, v), calls + 2) /\ calls \in Nat
  BY ReplacedOk, InvHas
<1> QED BY <1>1, WroteOk DEF MapJson!setInfo

LEMMA AddReplaces ==
  ASSUME MapInv, NEW p, MapJson!hasInfo(data, p)
  PROVE  replaces(p, MapJson!addItem(data[p])) /\ makes(data, p, MapJson!addItem(data[p]))
<1> HIDE DEF Node, Info, Plain
<1>1. makes(data, p, MapJson!addItem(data[p]))  BY FoundIs DEF makes
<1> DEFINE info == data[p]
           n == Len(info.items)
           v == MapJson!addItem(info)
<1>2. /\ info \in Info /\ info.max \in Nat /\ info.max <= MaxItem /\ n \in Nat /\ n <= calls + 1
      /\ \A j \in 1..n : info.items[j] \in MapJson!AnyItem /\ info.items[j] \in Nat
      /\ p \notin handmade => /\ MapJson!IsInjective(info.items)
                              /\ \A j \in 1..n : info.items[j] <= info.max
      /\ DOMAIN info.items = 1..n
  BY FoundIs
<1>3. /\ v \in Info /\ MapJson!isArrayInfo(v) /\ v.max = info.max + 1 /\ Len(v.items) = n + 1
      /\ DOMAIN v.items = 1..(n + 1) /\ v.items[n + 1] = info.max + 1
      /\ \A j \in 1..n : v.items[j] = info.items[j]
  BY <1>2, AddIs
<1>4. MaxItem \in Nat /\ calls \in Nat /\ MapJson!AnyItem = 0..(MaxItem + 1)  BY InvHas, MapBounds
<1>5. \A j \in 1..(n + 1) : j \in 1..n \/ j = n + 1  BY <1>2
<1> HIDE DEF v, n, info
<1>6. v.max <= MaxItem + 1 /\ info.max <= v.max /\ Len(v.items) <= calls + 2
  BY <1>2, <1>3, <1>4
<1>7. info.max + 1 \in MapJson!AnyItem  BY <1>2, <1>4
<1>8. \A j \in DOMAIN v.items : v.items[j] \in MapJson!AnyItem
  BY <1>2, <1>3, <1>5, <1>7
<1>9. ASSUME p \notin handmade
      PROVE  MapJson!IsInjective(v.items) /\ \A j \in DOMAIN v.items : v.items[j] <= v.max
  <2>1. \A j \in 1..n : v.items[j] < info.max + 1 /\ v.items[j] <= info.max + 1
    <3> SUFFICES ASSUME NEW j \in 1..n
                 PROVE  v.items[j] < info.max + 1 /\ v.items[j] <= info.max + 1
      OBVIOUS
    <3>1. v.items[j] = info.items[j] /\ info.items[j] <= info.max /\ info.items[j] \in Nat
      BY <1>2, <1>3, <1>9
    <3> QED BY <1>2, <3>1
  <2>2. \A j \in DOMAIN v.items : v.items[j] <= v.max  BY <1>2, <1>3, <1>5, <2>1
  <2>3. ASSUME NEW j \in DOMAIN v.items, NEW i \in DOMAIN v.items, v.items[j] = v.items[i]
        PROVE  i = j
    <3>1. CASE j \in 1..n /\ i \in 1..n
      <4>1. info.items[i] = info.items[j]  BY <1>3, <2>3, <3>1
      <4> QED BY <1>2, <1>9, <3>1, <4>1 DEF MapJson!IsInjective
    <3>2. CASE j = n + 1 /\ i = n + 1  BY <3>2
    <3>3. CASE j \in 1..n /\ i = n + 1  BY <1>2, <1>3, <2>1, <2>3, <3>3
    <3>4. CASE i \in 1..n /\ j = n + 1  BY <1>2, <1>3, <2>1, <2>3, <3>4
    <3> QED BY <1>3, <1>5, <3>1, <3>2, <3>3, <3>4
  <2> QED BY <2>2, <2>3 DEF MapJson!IsInjective
<1>10. replaces(p, v)  BY <1>3, <1>6, <1>8, <1>9 DEF replaces, info
<1> QED BY <1>1, <1>10 DEF v, info

\* Items t come from items s: the one at index n goes to f[n], or is taken out; at the
\* indices F there are others.
Rearranges(s, t, f, F) ==
  /\ \A n \in 0..(Len(s) - 1) :
       IF n \in DOMAIN f
       THEN f[n] \in 0..(Len(t) - 1) /\ f[n] \notin F /\ t[f[n] + 1] = s[n + 1]
       ELSE \A m \in 0..(Len(t) - 1) : t[m + 1] # s[n + 1]
  /\ \A m \in 0..(Len(t) - 1) :
       IF m \in F THEN \A n \in 0..(Len(s) - 1) : s[n + 1] # t[m + 1]
       ELSE \E n \in 0..(Len(s) - 1) : n \in DOMAIN f /\ f[n] = m

\* The same items, or some of them, in another order.
LEMMA ReorderedReplaces ==
  ASSUME MapInv, NEW p, MapJson!hasInfo(data, p), NEW v \in Info, MapJson!isArrayInfo(v),
         v.max = data[p].max, Len(v.items) <= calls + 2,
         \A j \in DOMAIN v.items : \E i \in 1..Len(data[p].items) : v.items[j] = data[p].items[i],
         MapJson!IsInjective(data[p].items) => MapJson!IsInjective(v.items)
  PROVE  replaces(p, v)
<1> DEFINE s == data[p].items
           max == data[p].max
           t == v.items
<1>1. /\ max \in Nat /\ max <= MaxItem /\ MaxItem \in Nat
      /\ \A j \in 1..Len(s) : s[j] \in MapJson!AnyItem
      /\ p \notin handmade => /\ MapJson!IsInjective(s)
                              /\ \A j \in 1..Len(s) : s[j] <= max
  BY FoundIs, InvHas
<1>2. v.max <= MaxItem + 1 /\ max <= v.max  BY <1>1
<1>3. \A j \in DOMAIN t : t[j] \in MapJson!AnyItem  BY <1>1
<1>4. ASSUME p \notin handmade
      PROVE  MapJson!IsInjective(t) /\ \A j \in DOMAIN t : t[j] <= v.max
  BY <1>1, <1>4
<1> QED BY <1>2, <1>3, <1>4 DEF replaces

LEMMA SwapRearranges ==
  ASSUME NEW s, NEW t, NEW l \in Nat, Len(s) = l, Len(t) = l, 0..(l - 1) \subseteq MapJson!Position,
         NEW n \in 0..(l - 1), NEW m \in 0..(l - 1),
         \A j \in 1..l : t[j] = IF j = m + 1 THEN s[n + 1] ELSE IF j = n + 1 THEN s[m + 1] ELSE s[j]
  PROVE  Rearranges(s, t, MapJson!exchange(n, m), {})
<1> DEFINE f == MapJson!exchange(n, m)
<1>1. /\ DOMAIN f = MapJson!Position
      /\ \A k \in MapJson!Position : f[k] = IF k = n THEN m ELSE IF k = m THEN n ELSE k
  BY DEF MapJson!exchange
<1> HIDE DEF f
<1>2. ASSUME NEW k \in 0..(l - 1)
      PROVE  /\ k \in DOMAIN f /\ f[k] \in 0..(l - 1) /\ t[f[k] + 1] = s[k + 1]
             /\ f[f[k]] = k
  <2>1. k \in DOMAIN f /\ f[k] = IF k = n THEN m ELSE IF k = m THEN n ELSE k  BY <1>1
  <2> DEFINE j == f[k] + 1
  <2>0. f[k] = n \/ f[k] = m \/ f[k] = k  BY <2>1
  <2>2. f[k] \in 0..(l - 1) /\ j \in 1..l  BY <2>0
  <2>3. f[f[k]] = k  BY <1>1, <2>1, <2>2
  <2>4. /\ j = m + 1 => k + 1 = n + 1
        /\ j # m + 1 /\ j = n + 1 => k + 1 = m + 1
        /\ j # m + 1 /\ j # n + 1 => k + 1 = j
    BY <2>1
  <2> HIDE DEF j
  <2>5. t[j] = s[k + 1]  BY <2>2, <2>4
  <2> QED BY <2>1, <2>2, <2>3, <2>5 DEF j
<1> QED BY <1>2 DEF Rearranges, f

LEMMA TakeRearranges ==
  ASSUME NEW s, NEW t, NEW l \in Nat, Len(s) = l, Len(t) = l - 1,
         0..(l - 1) \subseteq MapJson!Position, NEW n \in 0..(l - 1),
         \A j \in 1..(l - 1) : t[j] = IF j < n + 1 THEN s[j] ELSE s[j + 1],
         \A i, j \in 1..l : s[i] = s[j] => i = j
  PROVE  Rearranges(s, t, MapJson!without(n), {})
<1> DEFINE f == MapJson!without(n)
<1>1. /\ DOMAIN f = MapJson!Position \ {n}
      /\ \A k \in MapJson!Position \ {n} : f[k] = IF k > n THEN k - 1 ELSE k
  BY DEF MapJson!without
<1> HIDE DEF f
<1>2. ASSUME NEW k \in 0..(l - 1), k # n
      PROVE  k \in DOMAIN f /\ f[k] \in 0..(l - 2) /\ t[f[k] + 1] = s[k + 1]
  <2>1. k \in DOMAIN f /\ f[k] = IF k > n THEN k - 1 ELSE k  BY <1>1, <1>2
  <2>2. CASE k > n
    <3>1. f[k] = k - 1 /\ k \in 1..(l - 1) /\ ~(k < n + 1) /\ f[k] + 1 = k  BY <2>1, <2>2
    <3>2. t[k] = s[k + 1]  BY <3>1
    <3> QED BY <2>1, <3>1, <3>2
  <2>3. CASE ~(k > n)
    <3>1. f[k] = k /\ k + 1 \in 1..(l - 1) /\ k + 1 < n + 1 /\ k \in 0..(l - 2)
      BY <1>2, <2>1, <2>3
    <3>2. t[k + 1] = s[k + 1]  BY <3>1
    <3> QED BY <2>1, <3>1, <3>2
  <2> QED BY <2>2, <2>3
<1>3. ASSUME NEW m \in 0..(l - 2) PROVE t[m + 1] # s[n + 1]
  <2>1. m + 1 \in 1..(l - 1) /\ m + 1 \in 1..l /\ m + 2 \in 1..l /\ n + 1 \in 1..l  BY <1>3
  <2>2. t[m + 1] = IF m + 1 < n + 1 THEN s[m + 1] ELSE s[m + 2]  BY <2>1
  <2>3. CASE m + 1 < n + 1
    <3>1. m + 1 # n + 1  BY <2>3
    <3> QED BY <2>1, <2>2, <2>3, <3>1
  <2>4. CASE ~(m + 1 < n + 1)
    <3>1. m + 2 # n + 1  BY <2>4
    <3> QED BY <2>1, <2>2, <2>4, <3>1
  <2> QED BY <2>3, <2>4
<1>4. ASSUME NEW m \in 0..(l - 2)
      PROVE  \E k \in 0..(l - 1) : k \in DOMAIN f /\ f[k] = m
  <2>1. CASE m < n
    <3>1. m \in 0..(l - 1) /\ m # n /\ ~(m > n)  BY <2>1
    <3>2. m \in DOMAIN f /\ f[m] = m  BY <1>1, <3>1
    <3> QED BY <3>1, <3>2
  <2>2. CASE ~(m < n)
    <3> DEFINE k == m + 1
    <3>1. k \in 0..(l - 1) /\ k # n /\ k > n /\ k - 1 = m  BY <2>2
    <3> HIDE DEF k
    <3>2. k \in DOMAIN f /\ f[k] = m  BY <1>1, <3>1
    <3> QED BY <3>1, <3>2
  <2> QED BY <2>1, <2>2
<1>5. n \notin DOMAIN f /\ Len(t) - 1 = l - 2  BY <1>1
<1> QED BY <1>2, <1>3, <1>4, <1>5 DEF Rearranges, f

LEMMA InsertRearranges ==
  ASSUME NEW s, NEW t, NEW l \in Nat, Len(s) = l, Len(t) = l + 1,
         0..l \subseteq MapJson!Position, NEW n \in 0..l, NEW x,
         t[n + 1] = x,
         \A j \in 1..(l + 1) : j < n + 1 => t[j] = s[j],
         \A j \in 1..(l + 1) : j > n + 1 => t[j] = s[j - 1],
         \A j \in 1..l : s[j] # x
  PROVE  Rearranges(s, t, MapJson!opened(n), {n})
<1> DEFINE f == MapJson!opened(n)
<1>1. /\ DOMAIN f = MapJson!Position
      /\ \A k \in MapJson!Position : f[k] = IF k < n THEN k ELSE k + 1
  BY DEF MapJson!opened
<1> HIDE DEF f
<1>2. ASSUME NEW k \in 0..(l - 1)
      PROVE  k \in DOMAIN f /\ f[k] \in 0..l /\ f[k] # n /\ t[f[k] + 1] = s[k + 1]
  <2>1. k \in DOMAIN f /\ f[k] = IF k < n THEN k ELSE k + 1  BY <1>1
  <2>2. CASE k < n
    <3>1. f[k] = k /\ k + 1 \in 1..(l + 1) /\ k + 1 < n + 1 /\ k \in 0..l /\ k # n
      BY <2>1, <2>2
    <3>2. t[k + 1] = s[k + 1]  BY <3>1
    <3> QED BY <2>1, <3>1, <3>2
  <2>3. CASE ~(k < n)
    <3>1. /\ f[k] = k + 1 /\ k + 2 \in 1..(l + 1) /\ k + 2 > n + 1
          /\ k + 1 \in 0..l /\ k + 1 # n /\ k + 2 - 1 = k + 1 /\ k + 1 + 1 = k + 2
      BY <2>1, <2>3
    <3>2. t[k + 2] = s[k + 1]  BY <3>1
    <3> QED BY <2>1, <3>1, <3>2
  <2> QED BY <2>2, <2>3
<1>3. n + 1 \in 1..(l + 1)  OBVIOUS
<1>4. ASSUME NEW m \in 0..l, m # n
      PROVE  \E k \in 0..(l - 1) : k \in DOMAIN f /\ f[k] = m
  <2>1. CASE m < n
    <3>1. m \in 0..(l - 1) /\ m \in 0..l  BY <2>1
    <3>2. m \in DOMAIN f /\ f[m] = m  BY <1>1, <2>1, <3>1
    <3> QED BY <3>1, <3>2
  <2>2. CASE ~(m < n)
    <3> DEFINE k == m - 1
    <3>1. k \in 0..(l - 1) /\ k \in 0..l /\ ~(k < n) /\ k + 1 = m  BY <1>4, <2>2
    <3> HIDE DEF k
    <3>2. k \in DOMAIN f /\ f[k] = m  BY <1>1, <3>1
    <3> QED BY <3>1, <3>2
  <2> QED BY <2>1, <2>2
<1>5. \A k \in 0..(l - 1) : s[k + 1] # x
  <2>1. \A k \in 0..(l - 1) : k + 1 \in 1..l  OBVIOUS
  <2> QED BY <2>1
<1>6. Len(t) - 1 = l  OBVIOUS
<1> QED BY <1>2, <1>3, <1>4, <1>5, <1>6 DEF Rearranges, f

LEMMA SwapReplaces ==
  ASSUME MapInv, calls < MaxCall, NEW p, NEW n \in Nat, NEW m \in Nat,
         MapJson!hasItem(p, n), MapJson!hasItem(p, m),
         NEW v, v = [data[p] EXCEPT !.items[n + 1] = data[p].items[m + 1],
                                    !.items[m + 1] = data[p].items[n + 1]]
  PROVE  replaces(p, v) /\ Rearranges(data[p].items, v.items, MapJson!exchange(n, m), {})
<1> SUFFICES ASSUME NEW a, a = n + 1, NEW b, b = m + 1,
                    NEW info, info = data[p], NEW s, s = info.items, NEW l, l = Len(s)
             PROVE  replaces(p, v) /\ Rearranges(s, v.items, MapJson!exchange(n, m), {})
  BY Zenon
<1>1. MapJson!hasInfo(data, p) /\ n < l /\ m < l  BY DEF MapJson!hasItem
<1>2. /\ data[p] \in Info /\ l \in Nat /\ l <= calls + 1 /\ calls \in Nat /\ MaxCall \in Nat
      /\ DOMAIN s = 1..l
  BY <1>1, FoundIs, InvHas
<1>3. a \in 1..l /\ b \in 1..l /\ n \in 0..(l - 1) /\ m \in 0..(l - 1)  BY <1>1, <1>2
<1>4. /\ v \in Info /\ MapJson!isArrayInfo(v) /\ v.max = data[p].max /\ Len(v.items) = l
      /\ \A j \in 1..l : v.items[j] = IF j = b THEN s[a] ELSE IF j = a THEN s[b] ELSE s[j]
  <2> DEFINE t == [[s EXCEPT ![a] = s[b]] EXCEPT ![b] = s[a]]
  <2>1. info = [max |-> info.max, items |-> s] /\ info.max \in Nat /\ s \in Seq(Nat)
    BY <1>2 DEF Info
  <2>2. v = [info EXCEPT !.items[a] = info.items[b], !.items[b] = info.items[a]]
    BY Zenon
  <2>3. v = [max |-> info.max, items |-> t]  BY <2>1, <2>2
  <2>4. s \in [1..l -> Nat]  BY <1>2, <2>1
  <2>5. /\ t \in [1..l -> Nat]
        /\ \A j \in 1..l : t[j] = IF j = b THEN s[a] ELSE IF j = a THEN s[b] ELSE s[j]
    BY <1>3, <2>4
  <2> HIDE DEF t
  <2>6. t \in Seq(Nat) /\ Len(t) = l  BY <1>2, <2>5, FunctionIsSeq
  <2>7. v.max = info.max /\ v.items = t /\ DOMAIN v = {"max", "items"}  BY ONLY <2>3
  <2>8. v \in Info  BY ONLY <2>1, <2>3, <2>6 DEF Info
  <2> QED BY <2>5, <2>6, <2>7, <2>8 DEF MapJson!isArrayInfo
<1>5. DOMAIN v.items = 1..l  BY <1>4 DEF Info
<1>6. replaces(p, v)
  <2>1. \A j \in 1..l : \E i \in 1..l : v.items[j] = s[i]  BY <1>3, <1>4
  <2>2. ASSUME MapJson!IsInjective(s), NEW i \in 1..l, NEW j \in 1..l, v.items[i] = v.items[j]
        PROVE  i = j
    <3> DEFINE g(k) == IF k = b THEN a ELSE IF k = a THEN b ELSE k
    <3>1. g(i) \in 1..l /\ g(j) \in 1..l  BY <1>3
    <3>2. s[g(i)] = s[g(j)]  BY <1>4, <2>2
    <3>3. g(i) = g(j) => i = j  OBVIOUS
    <3> HIDE DEF g
    <3> QED BY <1>2, <2>2, <3>1, <3>2, <3>3 DEF MapJson!IsInjective
  <2>3. MapJson!IsInjective(s) => MapJson!IsInjective(v.items)
    BY <1>5, <2>2 DEF MapJson!IsInjective
  <2>4. Len(v.items) <= calls + 2  BY <1>2, <1>4
  <2>0. Len(data[p].items) = l /\ data[p].items = s  OBVIOUS
  <2>5. \A j \in DOMAIN v.items : \E i \in 1..Len(data[p].items) : v.items[j] = data[p].items[i]
    BY <1>5, <2>0, <2>1
  <2> HIDE DEF Info
  <2> QED BY <1>1, <1>4, <2>3, <2>4, <2>5, ReorderedReplaces
<1>7. Rearranges(s, v.items, MapJson!exchange(n, m), {})
  <2>1. 0..(l - 1) \subseteq MapJson!Position  BY <1>2, MapBounds
  <2> DEFINE t == v.items
  <2>2. \A j \in 1..l : t[j] = IF j = m + 1 THEN s[n + 1] ELSE IF j = n + 1 THEN s[m + 1] ELSE s[j]
    BY Zenon, <1>4
  <2>3. Len(s) = l /\ Len(t) = l /\ l \in Nat /\ n \in 0..(l - 1) /\ m \in 0..(l - 1)
    BY <1>2, <1>3, <1>4
  <2> HIDE DEF t
  <2>4. Rearranges(s, t, MapJson!exchange(n, m), {})  BY ONLY <2>1, <2>2, <2>3, SwapRearranges
  <2> QED BY <2>4 DEF t
<1> QED BY <1>6, <1>7

LEMMA TakeReplaces ==
  ASSUME MapInv, calls < MaxCall, NEW p, NEW n \in Nat, MapJson!hasItem(p, n),
         NEW v, v = [data[p] EXCEPT !.items = MapJson!RemoveAt(@, n + 1)]
  PROVE  /\ replaces(p, v)
         /\ MapJson!IsInjective(data[p].items)
              => Rearranges(data[p].items, v.items, MapJson!without(n), {})
<1> SUFFICES ASSUME NEW s, s = data[p].items, NEW l, l = Len(s),
                    NEW t, t = MapJson!RemoveAt(s, n + 1)
             PROVE  /\ replaces(p, v)
                    /\ MapJson!IsInjective(s) => Rearranges(s, v.items, MapJson!without(n), {})
  BY Zenon
<1>1. MapJson!hasInfo(data, p) /\ n < l  BY DEF MapJson!hasItem
<1>2. /\ data[p] \in Info /\ l \in Nat /\ l <= calls + 1 /\ calls \in Nat /\ MaxCall \in Nat
      /\ data[p].max \in Nat /\ s \in Seq(Nat) /\ DOMAIN s = 1..l
  BY <1>1, FoundIs, InvHas
<1>3. n + 1 \in 1..l /\ n \in 0..(l - 1)  BY <1>1, <1>2
<1>4. /\ t \in Seq(Nat) /\ Len(t) = l - 1
      /\ \A j \in 1..(l - 1) : t[j] = IF j < n + 1 THEN s[j] ELSE s[j + 1]
  BY <1>2, <1>3, RemovedIs
<1>5. v = [max |-> data[p].max, items |-> t]
  <2>1. v = [data[p] EXCEPT !.items = t]  BY Zenon
  <2>2. data[p] = [max |-> data[p].max, items |-> s]  BY <1>2 DEF Info
  <2> QED BY <2>1, <2>2
<1>6. /\ v \in Info /\ MapJson!isArrayInfo(v) /\ v.max = data[p].max /\ v.items = t
      /\ DOMAIN t = 1..(l - 1)
  <2>1. v.max = data[p].max /\ v.items = t /\ DOMAIN v = {"max", "items"}  BY <1>5
  <2>2. v \in Info  BY <1>2, <1>4, <1>5 DEF Info
  <2>3. DOMAIN t = 1..(l - 1)  BY <1>4
  <2> QED BY <2>1, <2>2, <2>3 DEF MapJson!isArrayInfo
<1>7. replaces(p, v)
  <2>1. \A j \in 1..(l - 1) : \E i \in 1..l : t[j] = s[i]
    <3>1. \A j \in 1..(l - 1) : j \in 1..l /\ j + 1 \in 1..l  BY <1>2
    <3> QED BY <1>4, <3>1
  <2>2. ASSUME MapJson!IsInjective(s), NEW i \in 1..(l - 1), NEW j \in 1..(l - 1), t[i] = t[j]
        PROVE  i = j
    <3> DEFINE g(k) == IF k < n + 1 THEN k ELSE k + 1
    <3>0. /\ i \in 1..l /\ i + 1 \in 1..l /\ (g(i) = i \/ g(i) = i + 1)
          /\ j \in 1..l /\ j + 1 \in 1..l /\ (g(j) = j \/ g(j) = j + 1)
      <4>1. l \in Nat  BY <1>2
      <4>2. \A k \in 1..(l - 1) : k \in 1..l /\ k + 1 \in 1..l  BY <4>1
      <4> QED BY <4>2
    <3>1. g(i) \in 1..l /\ g(j) \in 1..l  BY <3>0
    <3>2. s[g(i)] = s[g(j)]  BY <1>4, <2>2
    <3>3. g(i) = g(j) => i = j  OBVIOUS
    <3> HIDE DEF g
    <3> QED BY <1>2, <2>2, <3>1, <3>2, <3>3 DEF MapJson!IsInjective
  <2>3. MapJson!IsInjective(s) => MapJson!IsInjective(t)
    BY <1>6, <2>2 DEF MapJson!IsInjective
  <2>4. Len(v.items) <= calls + 2  BY <1>2, <1>4, <1>6
  <2>5. \A j \in DOMAIN v.items : \E i \in 1..Len(data[p].items) : v.items[j] = data[p].items[i]
    BY <1>6, <2>1
  <2> HIDE DEF Info
  <2> QED BY <1>1, <1>6, <2>3, <2>4, <2>5, ReorderedReplaces
<1>8. ASSUME MapJson!IsInjective(s) PROVE Rearranges(s, t, MapJson!without(n), {})
  <2>1. 0..(l - 1) \subseteq MapJson!Position  BY <1>2, MapBounds
  <2>2. \A i, j \in 1..l : s[i] = s[j] => i = j  BY <1>2, <1>8 DEF MapJson!IsInjective
  <2>3. Len(s) = l  OBVIOUS
  <2> QED BY Zenon, <1>2, <1>3, <1>4, <2>1, <2>2, <2>3, TakeRearranges
<1> QED BY <1>6, <1>7, <1>8

LEMMA InsertReplaces ==
  ASSUME MapInv, calls < MaxCall, NEW p, NEW n \in Nat, NEW b, MapJson!hasItem(p, n),
         NEW item \in MapJson!AnyItem,
         p \notin handmade => \A j \in 1..Len(data[p].items) : data[p].items[j] # item
  PROVE  LET at == MapJson!place(n, b)
             v == MapJson!insertAt(data[p], at, item)
         IN /\ replaces(p, v) /\ at \in MapJson!Position /\ v.items[at + 1] = item
            /\ at \in 0..(Len(v.items) - 1)
            /\ (\A j \in 1..Len(data[p].items) : data[p].items[j] # item)
                 => Rearranges(data[p].items, v.items, MapJson!opened(at), {at})
<1> SUFFICES ASSUME NEW info, info = data[p], NEW s, s = info.items, NEW l, l = Len(s),
                    NEW at, at = MapJson!place(n, b),
                    NEW t, t = MapJson!InsertAt(s, at + 1, item),
                    NEW v, v = MapJson!insertAt(info, at, item)
             PROVE  /\ replaces(p, v) /\ at \in MapJson!Position /\ v.items[at + 1] = item
                    /\ at \in 0..(Len(v.items) - 1)
                    /\ (\A j \in 1..l : s[j] # item)
                         => Rearranges(s, v.items, MapJson!opened(at), {at})
  BY Zenon
<1>1. MapJson!hasInfo(data, p) /\ n < l  BY DEF MapJson!hasItem
<1>2. /\ info \in Info /\ l \in Nat /\ l <= calls + 1 /\ calls \in Nat /\ MaxCall \in Nat
      /\ info.max \in Nat /\ info.max <= MaxItem /\ s \in Seq(Nat) /\ DOMAIN s = 1..l
      /\ MaxItem \in Nat
      /\ \A j \in 1..l : s[j] \in MapJson!AnyItem /\ s[j] \in Nat
      /\ p \notin handmade => /\ MapJson!IsInjective(s) /\ \A j \in 1..l : s[j] <= info.max
                              /\ \A j \in 1..l : s[j] # item
  BY <1>1, FoundIs, InvHas
<1>3. at + 1 \in 1..(l + 1) /\ at \in 0..l
  <2>1. at = n \/ at = n + 1  BY DEF MapJson!place
  <2> QED BY <1>1, <1>2, <2>1
<1>4. item \in Nat /\ item <= MaxItem + 1  BY <1>2, MapBounds
<1>5. /\ t \in Seq(Nat) /\ Len(t) = l + 1 /\ DOMAIN t = 1..(l + 1)
      /\ t[at + 1] = item
      /\ \A j \in 1..(l + 1) : j < at + 1 => t[j] = s[j]
      /\ \A j \in 1..(l + 1) : j > at + 1 => t[j] = s[j - 1]
  <2> SUFFICES ASSUME NEW i \in 1..(l + 1), t = MapJson!InsertAt(s, i, item)
               PROVE  /\ t \in Seq(Nat) /\ Len(t) = l + 1 /\ DOMAIN t = 1..(l + 1)
                      /\ t[i] = item
                      /\ \A j \in 1..(l + 1) : j < i => t[j] = s[j]
                      /\ \A j \in 1..(l + 1) : j > i => t[j] = s[j - 1]
    BY Zenon, <1>3
  <2>1. Len(s) = l /\ s \in Seq(Nat) /\ item \in Nat /\ i \in 1..(Len(s) + 1)  BY <1>2, <1>4
  <2>2. LET u == MapJson!InsertAt(s, i, item) IN u \in Seq(Nat) /\ Len(u) = Len(s) + 1
    BY ONLY <2>1, InsertedSeq
  <2>3. LET u == MapJson!InsertAt(s, i, item) IN
        /\ u[i] = item
        /\ \A j \in 1..(Len(s) + 1) : j < i => u[j] = s[j]
        /\ \A j \in 1..(Len(s) + 1) : j > i => u[j] = s[j - 1]
    BY ONLY <2>1, InsertedAt
  <2> QED BY <2>1, <2>2, <2>3
<1> DEFINE max == MapJson!largest(item, info.max)
<1>6. /\ max \in Nat /\ max <= MaxItem + 1 /\ info.max <= max /\ item <= max
  <2>1. max = IF item > info.max THEN item ELSE info.max  BY DEF MapJson!largest
  <2> QED BY <1>2, <1>4, <2>1
<1>7. v \in Info /\ MapJson!isArrayInfo(v) /\ v.max = max /\ v.items = t
  <2>1. v = MapJson!arrayInfo(max, t)  BY DEF MapJson!insertAt
  <2> HIDE DEF max, Info
  <2> QED BY <1>5, <1>6, <2>1, InfoIs
<1> HIDE DEF max
<1>8. ASSUME NEW j \in 1..(l + 1)
      PROVE  \/ j < at + 1 /\ j \in 1..l /\ t[j] = s[j]
             \/ j = at + 1 /\ t[j] = item
             \/ j > at + 1 /\ j - 1 \in 1..l /\ t[j] = s[j - 1]
  <2>1. CASE j < at + 1
    <3>1. j \in 1..l  BY <1>2, <1>3, <2>1
    <3> QED BY <1>5, <2>1, <3>1
  <2>2. CASE j > at + 1
    <3>1. j - 1 \in 1..l  BY <1>2, <1>3, <2>2
    <3> QED BY <1>5, <2>2, <3>1
  <2>3. j < at + 1 \/ j = at + 1 \/ j > at + 1  BY <1>3
  <2> QED BY <1>5, <2>1, <2>2, <2>3
<1>9. replaces(p, v)
  <2>1. \A j \in DOMAIN t : t[j] \in MapJson!AnyItem
    <3>1. ASSUME NEW j \in 1..(l + 1) PROVE t[j] \in MapJson!AnyItem
      <4>1. \A k \in 1..l : s[k] \in MapJson!AnyItem  BY <1>2
      <4> QED BY <1>8, <4>1
    <3> QED BY <1>5, <3>1
  <2>2. ASSUME p \notin handmade
        PROVE  MapJson!IsInjective(t) /\ \A j \in DOMAIN t : t[j] <= max
    <3>1. \A j \in 1..l : s[j] <= max
      <4> SUFFICES ASSUME NEW j \in 1..l PROVE s[j] <= max
        OBVIOUS
      <4>1. s[j] <= info.max /\ s[j] \in Nat  BY <1>2, <2>2
      <4> QED BY <1>2, <1>6, <4>1
    <3>2. \A j \in DOMAIN t : t[j] <= max
      <4>1. ASSUME NEW j \in 1..(l + 1) PROVE t[j] <= max
        BY <1>6, <1>8, <3>1
      <4> QED BY <1>5, <4>1
    <3>3. ASSUME NEW i \in 1..(l + 1), NEW j \in 1..(l + 1), t[i] = t[j] PROVE i = j
      <4>0. \A k, m \in 1..l : s[k] = s[m] => k = m
        BY <1>2, <2>2 DEF MapJson!IsInjective
      <4>1. \A k \in 1..l : s[k] # item  BY <1>2, <2>2
      <4>2. CASE i = at + 1
        BY <1>8, <3>3, <4>1, <4>2
      <4>3. CASE j = at + 1
        BY <1>8, <3>3, <4>1, <4>3
      <4>4. CASE i # at + 1 /\ j # at + 1
        <5>1. (i < at + 1 /\ i \in 1..l /\ t[i] = s[i]) \/ (i > at + 1 /\ i - 1 \in 1..l /\ t[i] = s[i - 1])
          BY <1>8, <4>4
        <5>2. (j < at + 1 /\ j \in 1..l /\ t[j] = s[j]) \/ (j > at + 1 /\ j - 1 \in 1..l /\ t[j] = s[j - 1])
          BY <1>8, <4>4
        <5>3. CASE i < at + 1 /\ i \in 1..l /\ t[i] = s[i]
          <6>1. CASE j < at + 1 /\ j \in 1..l /\ t[j] = s[j]  BY <3>3, <4>0, <5>3, <6>1
          <6>2. CASE j > at + 1 /\ j - 1 \in 1..l /\ t[j] = s[j - 1]
            <7>1. i = j - 1  BY <3>3, <4>0, <5>3, <6>2
            <7> QED BY <1>3, <5>3, <6>2, <7>1
          <6> QED BY <5>2, <6>1, <6>2
        <5>4. CASE i > at + 1 /\ i - 1 \in 1..l /\ t[i] = s[i - 1]
          <6>1. CASE j < at + 1 /\ j \in 1..l /\ t[j] = s[j]
            <7>1. i - 1 = j  BY <3>3, <4>0, <5>4, <6>1
            <7> QED BY <1>3, <5>4, <6>1, <7>1
          <6>2. CASE j > at + 1 /\ j - 1 \in 1..l /\ t[j] = s[j - 1]
            <7>1. i - 1 = j - 1  BY <3>3, <4>0, <5>4, <6>2
            <7> QED BY <7>1
          <6> QED BY <5>2, <6>1, <6>2
        <5> QED BY <5>1, <5>3, <5>4
      <4> QED BY <4>2, <4>3, <4>4
    <3>4. DOMAIN t = 1..(l + 1)  BY <1>5
    <3>5. \A i, j \in DOMAIN t : t[i] = t[j] => i = j  BY <3>3, <3>4
    <3> QED BY Zenon, <3>2, <3>5 DEF MapJson!IsInjective
  <2>3. Len(t) <= calls + 2  BY <1>2, <1>5
  <2> QED BY <1>1, <1>6, <1>7, <2>1, <2>2, <2>3 DEF replaces
<1>10. at \in MapJson!Position /\ at \in 0..(Len(t) - 1)
  <2>1. l <= MaxCall  BY <1>2
  <2>2. at \in 0..MaxCall  BY <1>2, <1>3, <2>1
  <2>3. at \in 0..(Len(t) - 1)  BY <1>2, <1>3, <1>5
  <2> QED BY <2>2, <2>3, MapBounds
<1>12. ASSUME \A j \in 1..l : s[j] # item
       PROVE  Rearranges(s, t, MapJson!opened(at), {at})
  <2>1. 0..l \subseteq MapJson!Position  BY <1>2, MapBounds
  <2>2. Len(s) = l /\ Len(t) = l + 1 /\ l \in Nat /\ at \in 0..l  BY <1>2, <1>3, <1>5
  <2>3. /\ t[at + 1] = item
        /\ \A j \in 1..(l + 1) : j < at + 1 => t[j] = s[j]
        /\ \A j \in 1..(l + 1) : j > at + 1 => t[j] = s[j - 1]
    BY <1>5
  <2> QED BY ONLY <1>12, <2>1, <2>2, <2>3, InsertRearranges
<1> QED BY <1>5, <1>7, <1>9, <1>10, <1>12

----
(* What each call makes of the invariant. *)

LEMMA CleanupShort ==
  ASSUME NEW d \in Map, NEW l, Short(d, l), NEW p
  PROVE  Short(MapJson!cleanup(d, p), l)
<1> DEFINE e == MapJson!cleanup(d, p)
<1>1. /\ DOMAIN e \subseteq DOMAIN d
      /\ \A q \in DOMAIN e : e[q] = d[q]
  BY CleanupIs
<1> HIDE DEF e
<1>2. Short(e, l)  BY <1>1 DEF Short
<1> QED BY <1>2 DEF e

\* The value of a path is at some real path.
LEMMA ValueFits ==
  ASSUME MapInv, NEW x \in DOMAIN data
  PROVE  data[x] \in Plain \cup Info /\ fitting(data[x], calls + 2)
<1> HIDE DEF Node, Info, Plain
<1>1. data[x] \in Plain \cup Info  BY InvHas, MapIs
<1>2. ASSUME MapJson!isArrayInfo(data[x]) PROVE fitting(data[x], calls + 2)
  <2>1. data[x].max \in Nat /\ Len(data[x].items) \in Nat  BY <1>2, InvHas, InfoHas
  <2>2. /\ data[x].max <= MaxItem /\ Len(data[x].items) <= calls + 1
        /\ \A j \in DOMAIN data[x].items : data[x].items[j] \in MapJson!AnyItem
    BY <1>2, InvHas DEF Tidy, Arrays, Short
  <2>3. data[x].max <= MaxItem + 1 /\ Len(data[x].items) <= calls + 2
    BY <2>1, <2>2, InvHas
  <2> QED BY <2>2, <2>3 DEF fitting
<1> QED BY <1>1, <1>2 DEF fitting

\* A write leaves what is outside its path.
LEMMA WriteKeeps ==
  ASSUME MapInv, NEW p \in Path, NEW v \in Plain \cup Info, fitting(v, calls + 2),
         MapJson!wrote(MapJson!checkAndSetValue(data, p, v)),
         LET at == MapJson!getRealPath(data, p, TRUE) IN
         handmade' = handmade \cup IF at.ok /\ MapJson!isArrayInfo(v) THEN {at.real} ELSE {}
  PROVE  /\ MapOk(data', handmade', calls + 1)
         /\ handmade = {} =>
              MapJson!outside(MapJson!seen(data'), p) = MapJson!outside(MapJson!seen(data), p)
<1> HIDE DEF Node, Info, Plain
<1> DEFINE e == MapJson!checkAndSetValue(data, p, v)
<1>0. Tidy(data, handmade, MaxItem) /\ Short(data, calls + 1) /\ calls + 1 \in Nat
      /\ calls + 1 + 1 = calls + 2 /\ calls \in Nat
  BY InvHas
<1>1. /\ Tidy(e, handmade', MaxItem + 1) /\ Short(e, calls + 1 + 1)
      /\ handmade = {} =>
           MapJson!outside(MapJson!seen(e), p) = MapJson!outside(MapJson!seen(data), p)
  <2>1. fitting(v, calls + 1 + 1)  BY <1>0
  <2> QED BY <1>0, <2>1, WriteIs
<1>2. data' = e  BY DEF MapJson!wrote
<1>3. Short(e, calls + 2)  BY <1>0, <1>1
<1> HIDE DEF e
<1>4. MapOk(data', handmade', calls + 1)
  <2>1. MapJson!wrote(e)  BY DEF e
  <2> QED BY <1>0, <1>1, <1>3, <2>1, WroteOk
<1> QED BY <1>1, <1>2, <1>4

LEMMA SetOk ==
  ASSUME MapInv, NEW p \in Path, NEW v \in Value, MapJson!set(p, v)
  PROVE  /\ MapOk(data', handmade', calls + 1)
         /\ handmade = {} =>
              MapJson!outside(MapJson!seen(data'), p) = MapJson!outside(MapJson!seen(data), p)
<1> DEFINE value == MapJson!plain(v)
           at == MapJson!getRealPath(data, p, TRUE)
<1>1. value \in Plain  BY DEF MapJson!plain, Plain
<1>2. ~MapJson!isArrayInfo(value)  BY DEF MapJson!plain, MapJson!isArrayInfo
<1>3. /\ MapJson!wrote(MapJson!checkAndSetValue(data, p, value)) /\ handmade' = handmade
  BY DEF MapJson!set
<1> HIDE DEF value, at, Plain
<1>4. fitting(value, calls + 2)  BY <1>2 DEF fitting
<1>5. handmade' = handmade \cup IF at.ok /\ MapJson!isArrayInfo(value) THEN {at.real} ELSE {}
  BY <1>2, <1>3
<1> QED BY <1>1, <1>3, <1>4, <1>5, WriteKeeps DEF at

LEMMA AssignOk ==
  ASSUME MapInv, NEW p \in Path, NEW q \in Path, MapJson!assign(p, q)
  PROVE  /\ MapOk(data', handmade', calls + 1)
         /\ handmade = {} =>
              MapJson!outside(MapJson!seen(data'), p) = MapJson!outside(MapJson!seen(data), p)
<1> DEFINE value == MapJson!checkAndGetValue(data, q)
           at == MapJson!getRealPath(data, p, TRUE)
           from == MapJson!getRealPath(data, q, FALSE)
<1>1. /\ value # MapJson!plain(MapJson!None)
      /\ MapJson!wrote(MapJson!checkAndSetValue(data, p, value))
      /\ handmade' = handmade \cup IF at.ok /\ MapJson!isArrayInfo(value) THEN {at.real} ELSE {}
  BY Zenon DEF MapJson!assign
<1>2. value = IF from.ok /\ from.real \in DOMAIN data THEN data[from.real]
              ELSE MapJson!plain(MapJson!None)
  BY Zenon DEF MapJson!checkAndGetValue
<1> HIDE DEF value, at, from
<1>3. value = data[from.real] /\ from.real \in DOMAIN data  BY <1>1, <1>2
<1>4. value \in Plain \cup Info /\ fitting(value, calls + 2)  BY <1>3, ValueFits
<1> QED BY <1>1, <1>4, WriteKeeps DEF at

LEMMA CleanOk ==
  ASSUME MapInv, NEW p \in Path, MapJson!clean(p)
  PROVE  MapOk(data', handmade', calls + 1)
<1> HIDE DEF Node, Info, Plain
<1>1. /\ Tidy(data, handmade, MaxItem) /\ Short(data, calls + 1) /\ data \in Map /\ calls \in Nat
      /\ p \in Seq(Node)
  BY InvHas, NodesAre
<1>2. Tidy(MapJson!cleanup(data, p), handmade, MaxItem)  BY <1>1, CleanupTidy
<1>3. Short(MapJson!cleanup(data, p), calls + 1)  BY <1>1, CleanupShort
<1>4. Short(MapJson!cleanup(data, p), calls + 2)
  <2>1. \A d \in Map : Short(d, calls + 1) => Short(d, calls + 2)
    <3> SUFFICES ASSUME NEW d \in Map, Short(d, calls + 1), NEW r \in DOMAIN d,
                        MapJson!isArrayInfo(d[r])
                 PROVE  Len(d[r].items) <= calls + 2
      BY DEF Short
    <3>1. Len(d[r].items) \in Nat  BY InfoHas
    <3> QED BY <1>1, <3>1 DEF Short
  <2>2. MapJson!cleanup(data, p) \in Map  BY <1>1, CleanupIs
  <2> QED BY <1>3, <2>1, <2>2
<1> QED BY <1>1, <1>2, <1>4, WroteOk DEF MapJson!clean

LEMMA SwapOk ==
  ASSUME MapInv, calls < MaxCall, NEW p, NEW n \in Nat, NEW m \in Nat,
         MapJson!swapArrayItem(p, n, m)
  PROVE  MapOk(data', handmade', calls + 1)
<1> DEFINE v == [data[p] EXCEPT !.items[n + 1] = data[p].items[m + 1],
                                !.items[m + 1] = data[p].items[n + 1]]
<1>1. MapJson!hasItem(p, n) /\ MapJson!hasItem(p, m) /\ MapJson!setInfo(p, v)
  BY Zenon DEF MapJson!swapArrayItem
<1> HIDE DEF v
<1>2. replaces(p, v)  BY <1>1, SwapReplaces, Zenon DEF v
<1> QED BY <1>1, <1>2, SetInfoOk

LEMMA TakeOk ==
  ASSUME MapInv, calls < MaxCall, NEW p, NEW n \in Nat, MapJson!takeArrayItem(p, n)
  PROVE  MapOk(data', handmade', calls + 1)
<1> DEFINE v == [data[p] EXCEPT !.items = MapJson!RemoveAt(@, n + 1)]
<1>1. MapJson!hasItem(p, n) /\ MapJson!setInfo(p, v)  BY Zenon DEF MapJson!takeArrayItem
<1> HIDE DEF v
<1>2. replaces(p, v)  BY <1>1, TakeReplaces, Zenon DEF v
<1> QED BY <1>1, <1>2, SetInfoOk

LEMMA RemoveOk ==
  ASSUME MapInv, calls < MaxCall, NEW p, NEW n \in Nat, MapJson!removeArrayItem(p, n)
  PROVE  MapOk(data', handmade', calls + 1)
<1> DEFINE v == [data[p] EXCEPT !.items = MapJson!RemoveAt(@, n + 1)]
           item == data[p].items[n + 1]
           lost == Append(p, MapJson!itemNode(item))
           e == MapJson!put(data, p, v)
<1>1. /\ MapJson!hasItem(p, n) /\ MapJson!wrote(MapJson!cleanup(e, lost))
      /\ handmade' = handmade
  BY Zenon DEF MapJson!removeArrayItem
<1>2. lost \in Seq(Node)
  <2>1. /\ p \in Seq(Node) /\ item \in Nat
    <3>1. MapJson!hasInfo(data, p) /\ n < Len(data[p].items)  BY <1>1 DEF MapJson!hasItem
    <3>2. n + 1 \in 1..Len(data[p].items) /\ p \in Seq(Node)
          /\ \A j \in 1..Len(data[p].items) : data[p].items[j] \in Nat
      BY <3>1, FoundIs
    <3> QED BY <3>2
  <2> HIDE DEF item, Node
  <2>2. MapJson!itemNode(item) \in Node  BY <2>1, NodesAre
  <2> QED BY <2>1, <2>2
<1> HIDE DEF v, lost, item
<1>3. replaces(p, v)  BY <1>1, TakeReplaces, Zenon DEF v
<1>4. Tidy(e, handmade, MaxItem + 1) /\ Short(e, calls + 2) /\ e \in Map  BY <1>3, ReplacedOk
<1> HIDE DEF e, Node
<1>5. Tidy(MapJson!cleanup(e, lost), handmade, MaxItem + 1)  BY <1>2, <1>4, CleanupTidy
<1>6. Short(MapJson!cleanup(e, lost), calls + 2)  BY <1>4, CleanupShort
<1> QED BY <1>1, <1>5, <1>6, WroteOk, InvHas

LEMMA SameOk ==
  ASSUME MapInv, UNCHANGED <<data, handmade>>
  PROVE  MapOk(data', handmade', calls + 1)
<1>1. /\ Tidy(data, handmade, MaxItem) /\ Short(data, calls + 1) /\ data \in Map /\ calls \in Nat
  BY InvHas
<1>2. Short(data, calls + 2)
  <2> SUFFICES ASSUME NEW r \in DOMAIN data, MapJson!isArrayInfo(data[r])
               PROVE  Len(data[r].items) <= calls + 2
    BY DEF Short
  <2>1. Len(data[r].items) \in Nat  BY <1>1, InfoHas
  <2> QED BY <1>1, <2>1 DEF Short
<1>3. calls + 1 + 1 = calls + 2  BY <1>1
<1> QED BY <1>1, <1>2, <1>3 DEF MapOk

LEMMA AddOk ==
  ASSUME MapInv, NEW p, MapJson!addArrayItem(p)
  PROVE  MapOk(data', handmade', calls + 1)
<1>1. MapJson!hasInfo(data, p) /\ MapJson!setInfo(p, MapJson!addItem(data[p]))
  BY DEF MapJson!addArrayItem
<1> QED BY <1>1, AddReplaces, SetInfoOk

\* The number of a new item is not one of those before.
LEMMA NewIs ==
  ASSUME MapInv, NEW p, MapJson!hasInfo(data, p)
  PROVE  LET item == MapJson!newItem(data[p]) IN
         /\ item = data[p].max + 1 /\ item \in MapJson!AnyItem
         /\ p \notin handmade => \A j \in 1..Len(data[p].items) : data[p].items[j] # item
<1> DEFINE max == data[p].max
           s == data[p].items
<1>1. /\ max \in Nat /\ max <= MaxItem
      /\ p \notin handmade => \A j \in 1..Len(s) : s[j] \in Nat /\ s[j] <= max
  BY FoundIs
<1>2. MapJson!newItem(data[p]) = max + 1  BY DEF MapJson!newItem
<1> HIDE DEF max, s
<1>3. max + 1 \in MapJson!AnyItem  BY <1>1, MapBounds
<1>4. p \notin handmade => \A j \in 1..Len(s) : s[j] # max + 1  BY <1>1
<1> QED BY <1>2, <1>3, <1>4 DEF max, s

LEMMA InsertOk ==
  ASSUME MapInv, calls < MaxCall, NEW p, NEW n \in Nat, NEW b,
         MapJson!insertArrayItem(p, n, b)
  PROVE  MapOk(data', handmade', calls + 1)
<1> DEFINE item == MapJson!newItem(data[p])
           v == MapJson!insertAt(data[p], MapJson!place(n, b), item)
<1>1. MapJson!hasItem(p, n) /\ MapJson!setInfo(p, v)  BY Zenon DEF MapJson!insertArrayItem
<1>2. MapJson!hasInfo(data, p)  BY <1>1 DEF MapJson!hasItem
<1> HIDE DEF item
<1>3. /\ item \in MapJson!AnyItem
      /\ p \notin handmade => \A j \in 1..Len(data[p].items) : data[p].items[j] # item
  BY <1>2, NewIs DEF item
<1>4. replaces(p, v)  BY <1>1, <1>3, InsertReplaces
<1> QED BY <1>1, <1>4, SetInfoOk

LEMMA InsertThisOk ==
  ASSUME MapInv, calls < MaxCall, NEW p, NEW n \in Nat, NEW b, NEW item \in MapJson!Item,
         MapJson!insertThisItem(p, n, item, b)
  PROVE  /\ MapOk(data', handmade', calls + 1)
         /\ item \in MapJson!AnyItem
         /\ \A j \in 1..Len(data[p].items) : data[p].items[j] # item
<1> DEFINE v == MapJson!insertAt(data[p], MapJson!place(n, b), item)
<1>1. /\ MapJson!hasItem(p, n) /\ MapJson!setInfo(p, v)
      /\ item \notin MapJson!ToSet(data[p].items)
  BY Zenon DEF MapJson!insertThisItem
<1>2. MapJson!hasInfo(data, p)  BY <1>1 DEF MapJson!hasItem
<1>3. item \in MapJson!AnyItem  BY MapBounds
<1>4. \A j \in 1..Len(data[p].items) : data[p].items[j] # item
  <2>1. DOMAIN data[p].items = 1..Len(data[p].items)  BY <1>2, FoundIs
  <2> QED BY <1>1, <2>1 DEF MapJson!ToSet
<1>5. replaces(p, v)  BY <1>1, <1>3, <1>4, InsertReplaces
<1> QED BY <1>1, <1>3, <1>4, <1>5, SetInfoOk

LEMMA AddThisOk ==
  ASSUME MapInv, NEW p, NEW item \in MapJson!Item, MapJson!addThisItem(p, item)
  PROVE  MapOk(data', handmade', calls + 1)
<1> DEFINE info == data[p]
           max == MapJson!largest(item, info.max)
           v == MapJson!arrayInfo(max, <<item>>)
<1>1. MapJson!hasInfo(data, p)  BY DEF MapJson!addThisItem
<1>2. CASE info.items # <<>>
  <2>1. UNCHANGED <<data, handmade>>  BY <1>2 DEF MapJson!addThisItem
  <2> QED BY <2>1, SameOk
<1>3. CASE info.items = <<>>
  <2>1. MapJson!setInfo(p, v)  BY <1>3 DEF MapJson!addThisItem
  <2>2. info.max \in Nat /\ info.max <= MaxItem /\ item \in Nat /\ item <= MaxItem
        /\ MaxItem \in Nat /\ calls \in Nat /\ item \in MapJson!AnyItem
    BY <1>1, FoundIs, MapBounds, InvHas
  <2>3. max \in Nat /\ max <= MaxItem + 1 /\ info.max <= max /\ item <= max
    <3>1. max = IF item > info.max THEN item ELSE info.max  BY DEF MapJson!largest
    <3> HIDE DEF max, info
    <3> QED BY <2>2, <3>1
  <2> HIDE DEF max, info
  <2>4. <<item>> \in Seq(Nat)  BY <2>2
  <2>5. v \in Info /\ MapJson!isArrayInfo(v) /\ v.max = max /\ v.items = <<item>>
    BY <2>3, <2>4, InfoIs
  <2>6. Len(<<item>>) = 1 /\ DOMAIN <<item>> = {1} /\ <<item>>[1] = item  OBVIOUS
  <2> HIDE DEF v
  <2>7. Len(v.items) <= calls + 2 /\ v.max <= MaxItem + 1  BY <2>2, <2>3, <2>5, <2>6
  <2>8. \A j \in DOMAIN v.items : v.items[j] \in MapJson!AnyItem /\ v.items[j] <= v.max
    BY <2>2, <2>3, <2>5, <2>6
  <2>9. MapJson!IsInjective(v.items)  BY <2>5, <2>6 DEF MapJson!IsInjective
  <2>10. replaces(p, v)  BY <1>1, <2>3, <2>5, <2>7, <2>8, <2>9 DEF replaces, info
  <2> QED BY <2>1, <2>10, SetInfoOk
<1> QED BY <1>2, <1>3

LEMMA CreateOk ==
  ASSUME MapInv, NEW p \in Path, NEW items \in MapJson!Items, MapJson!createArray(p, items)
  PROVE  MapOk(data', handmade', calls + 1)
<1> HIDE DEF Node, Plain, Info
<1>1. CASE items = <<>>
  <2>1. UNCHANGED <<data, handmade>>  BY <1>1 DEF MapJson!createArray
  <2> QED BY <2>1, SameOk
<1>2. CASE items # <<>>
  <2>1. items = <<1, 0>>  BY <1>2 DEF MapJson!Items
  <2>2. Len(items) = 2 /\ items[Len(items)] = 0 /\ DOMAIN items = {1, 2} /\ items \in Seq(Nat)
        /\ items[1] = 1 /\ items[2] = 0
    BY <2>1
  <2> DEFINE v == MapJson!arrayInfo(0, items)
             e == MapJson!put(data, p, v)
             I == handmade \cup {p}
  <2>3. MapJson!wrote(e) /\ handmade' = I  BY <1>2, <2>2 DEF MapJson!createArray
  <2>4. v \in Info /\ MapJson!isArrayInfo(v) /\ v.max = 0 /\ v.items = items
    BY <2>2, InfoIs
  <2>5. /\ Tidy(data, handmade, MaxItem) /\ Short(data, calls + 1) /\ data \in Map
        /\ MaxItem \in Nat /\ calls \in Nat /\ calls + 1 \in Nat /\ calls + 2 \in Nat
        /\ calls + 1 <= calls + 2
    BY InvHas
  <2>6. p \in Seq(Node)  BY NodesAre
  <2>7. \A k \in DOMAIN p : CoveredAt(data, I, p, k)
    BY PathNodes, MapBounds DEF CoveredAt
  <2>8. 0 \in MapJson!AnyItem /\ 1 \in MapJson!AnyItem  BY MapBounds
  <2> HIDE DEF v
  <2>9. /\ v.max <= MaxItem /\ Len(v.items) <= calls + 2
        /\ \A j \in DOMAIN v.items : v.items[j] \in MapJson!AnyItem
    <3>1. v.max <= MaxItem  BY <2>4, <2>5
    <3>2. Len(v.items) <= calls + 2
      <4>1. Len(v.items) = 2  BY <2>2, <2>4, Zenon
      <4>2. 2 <= calls + 2  BY <2>5
      <4> QED BY <4>1, <4>2, Zenon
    <3>3. \A j \in {1, 2} : items[j] \in MapJson!AnyItem
      <4>1. items[1] \in MapJson!AnyItem /\ items[2] \in MapJson!AnyItem  BY <2>2, <2>8, Zenon
      <4> QED BY ONLY <4>1
    <3> QED BY <2>2, <2>4, <3>1, <3>2, <3>3, Zenon
  <2>10. handmade \subseteq I /\ p \in I  OBVIOUS
  <2>11. MaxItem <= MaxItem  BY <2>5
  <2> HIDE DEF I
  <2>12. Tidy(e, I, MaxItem)
    BY <2>4, <2>5, <2>6, <2>7, <2>9, <2>10, <2>11, PutTidy
  <2>13. Short(e, calls + 2)  BY <2>4, <2>5, <2>6, <2>9, PutShort
  <2> QED BY <2>3, <2>5, <2>12, <2>13, WroteOk
<1> QED BY <1>1, <1>2

LEMMA OperationOk ==
  ASSUME MapInv, calls < MaxCall, MapJson!operation
  PROVE  MapOk(data', handmade', calls + 1)
<1>0. MapJson!Index \subseteq Nat  BY MapBounds
<1>1. PICK p \in Path :
        \/ \E v \in Value : MapJson!set(p, v)
        \/ \E q \in Path : MapJson!assign(p, q)
        \/ MapJson!clean(p)
        \/ MapJson!addArrayItem(p)
        \/ \E items \in MapJson!Items : MapJson!createArray(p, items)
        \/ \E i \in MapJson!Item : MapJson!addThisItem(p, i)
        \/ \E n \in MapJson!Index :
             \/ MapJson!undefined(p, n) \/ MapJson!takeArrayItem(p, n)
             \/ MapJson!removeArrayItem(p, n)
             \/ \E m \in MapJson!Index : MapJson!swapArrayItem(p, n, m)
             \/ \E b \in BOOLEAN :
                  \/ MapJson!insertArrayItem(p, n, b)
                  \/ \E i \in MapJson!Item : MapJson!insertThisItem(p, n, i, b)
  BY Zenon DEF MapJson!operation
<1>2. CASE \E v \in Value : MapJson!set(p, v)  BY <1>2, SetOk
<1>3. CASE \E q \in Path : MapJson!assign(p, q)  BY <1>3, AssignOk
<1>4. CASE MapJson!clean(p)  BY <1>4, CleanOk
<1>5. CASE MapJson!addArrayItem(p)  BY <1>5, AddOk
<1>6. CASE \E items \in MapJson!Items : MapJson!createArray(p, items)  BY <1>6, CreateOk
<1>7. CASE \E i \in MapJson!Item : MapJson!addThisItem(p, i)  BY <1>7, AddThisOk
<1>8. ASSUME NEW n \in MapJson!Index,
             \/ MapJson!undefined(p, n) \/ MapJson!takeArrayItem(p, n)
             \/ MapJson!removeArrayItem(p, n)
             \/ \E m \in MapJson!Index : MapJson!swapArrayItem(p, n, m)
             \/ \E b \in BOOLEAN :
                  \/ MapJson!insertArrayItem(p, n, b)
                  \/ \E i \in MapJson!Item : MapJson!insertThisItem(p, n, i, b)
      PROVE  MapOk(data', handmade', calls + 1)
  <2>0. n \in Nat  BY <1>0
  <2>1. CASE MapJson!undefined(p, n)
    <3>1. UNCHANGED <<data, handmade>>  BY <2>1 DEF MapJson!undefined
    <3> QED BY <3>1, SameOk
  <2>2. CASE MapJson!takeArrayItem(p, n)  BY <2>0, <2>2, TakeOk
  <2>3. CASE MapJson!removeArrayItem(p, n)  BY <2>0, <2>3, RemoveOk
  <2>4. CASE \E m \in MapJson!Index : MapJson!swapArrayItem(p, n, m)
    BY <1>0, <2>0, <2>4, SwapOk
  <2>5. CASE \E b \in BOOLEAN : MapJson!insertArrayItem(p, n, b)  BY <2>0, <2>5, InsertOk
  <2>6. CASE \E b \in BOOLEAN : \E i \in MapJson!Item : MapJson!insertThisItem(p, n, i, b)
    BY <2>0, <2>6, InsertThisOk
  <2> QED BY <1>8, <2>1, <2>2, <2>3, <2>4, <2>5, <2>6
<1> QED BY <1>1, <1>2, <1>3, <1>4, <1>5, <1>6, <1>7, <1>8

LEMMA MapInvariance == Spec => []MapInv
<1>1. Init => MapInv
  <2> SUFFICES ASSUME Init PROVE MapInv
    OBVIOUS
  <2>1. data = <<>> /\ handmade = {} /\ calls = 0  BY DEF Init, MapJson!Init
  <2>2. DOMAIN data = {} /\ data = [q \in {} |-> data[q]]  BY <2>1
  <2>3. data \in Map  BY <2>2, MapIs
  <2>4. Tidy(data, handmade, MaxItem)
    BY <2>2, <2>3 DEF Tidy, Arrays, Covered, Reals
  <2>5. Short(data, calls + 1)  BY <2>2 DEF Short
  <2>6. calls \in 0..MaxCall  BY <2>1, MapBounds
  <2> QED BY <2>4, <2>5, <2>6 DEF MapInv, MapOk
<1>2. MapInv /\ [Next]_dataVars => MapInv'
  <2> SUFFICES ASSUME MapInv, [Next]_dataVars PROVE MapInv'
    OBVIOUS
  <2>1. MapJson!Next \/ UNCHANGED mapVars
    BY DEF Next, dataVars
  <2>2. CASE UNCHANGED mapVars  BY <2>2 DEF mapVars, MapInv
  <2>3. CASE MapJson!Next
    <3>1. calls < MaxCall /\ calls' = calls + 1 /\ MapJson!operation  BY <2>3 DEF MapJson!Next
    <3>2. MapOk(data', handmade', calls')  BY <3>1, OperationOk
    <3>3. calls' \in 0..MaxCall  BY <3>1, InvHas
    <3> QED BY <3>2, <3>3 DEF MapInv
  <2> QED BY <2>1, <2>2, <2>3
<1> QED BY <1>1, <1>2, PTL DEF Spec

----
(* What clean takes. *)

\* A path that is not under another is seen the same without what is under that.
LEMMA CleanedSame ==
  ASSUME NEW d \in Map, NEW p \in Seq(Node), NEW q \in Seq(Node), ~MapJson!IsPrefix(p, q)
  PROVE  LET e == MapJson!cleanup(d, p) IN
         /\ shows(e, q) <=> shows(d, q)
         /\ shows(d, q) => entry(e, q) = entry(d, q)
<1> HIDE DEF Node
<1> DEFINE e == MapJson!cleanup(d, p)
<1>1. /\ \A x : x \in DOMAIN e <=> x \in DOMAIN d /\ ~MapJson!IsPrefix(p, x)
      /\ \A x \in DOMAIN d : ~MapJson!IsPrefix(p, x) => e[x] = d[x]
  BY CleanupIs
<1> HIDE DEF e
<1>2. ASSUME NEW k \in DOMAIN q PROVE ~MapJson!IsPrefix(p, above(q, k))
  <2>1. k \in 1..Len(q) /\ k \in 1..(Len(q) + 1) /\ Len(q) \in Nat /\ Len(p) \in Nat  OBVIOUS
  <2>2. /\ above(q, k) \in Seq(Node) /\ Len(above(q, k)) = k - 1
        /\ \A i \in 1..(k - 1) : above(q, k)[i] = q[i]
    BY <2>1, AboveIs
  <2> SUFFICES ASSUME MapJson!IsPrefix(p, above(q, k)) PROVE FALSE
    OBVIOUS
  <2>3. Len(p) <= k - 1 /\ \A i \in 1..Len(p) : p[i] = above(q, k)[i]
    BY <2>2, MapPrefix
  <2>4. Len(p) <= Len(q) /\ \A i \in 1..Len(p) : p[i] = q[i]
    BY <2>1, <2>2, <2>3
  <2> QED BY <2>4, MapPrefix
<1>3. /\ MapJson!asWritten(e, q) = MapJson!asWritten(d, q)
      /\ MapJson!inReach(e, q) <=> MapJson!inReach(d, q)
  <2>1. ASSUME NEW k \in DOMAIN q
        PROVE  /\ isItemAt(e, q, k) <=> isItemAt(d, q, k)
               /\ isItemAt(e, q, k) => indicesAt(e, q, k) = indicesAt(d, q, k)
    BY <1>1, <1>2 DEF isItemAt, indicesAt, MapJson!isItem, MapJson!hasInfo, MapJson!indicesOf
  <2> QED BY <2>1, SameView
<1>4. (q \in DOMAIN e <=> q \in DOMAIN d) /\ (q \in DOMAIN d => e[q] = d[q])
  BY <1>1
<1> QED BY <1>3, <1>4 DEF shows, entry, e

\* A path without indices is above another exactly if it is above what that is seen as.
LEMMA WrittenAbove ==
  ASSUME NEW d \in Map, Short(d, MaxCall + 1),
         NEW p \in MapJson!Written, NEW q \in Seq(Node), MapJson!inReach(d, q)
  PROVE  MapJson!IsPrefix(p, q) <=> MapJson!IsPrefix(p, MapJson!asWritten(d, q))
<1> HIDE DEF Node, Word, Info, Plain
<1> DEFINE w == MapJson!asWritten(d, q)
<1>1. /\ w \in Seq(Word) /\ Len(w) = Len(q) /\ DOMAIN q = 1..Len(q)
      /\ \A k \in 1..Len(q) :
           IF isItemAt(d, q, k)
           THEN w[k] = MapJson!indexNode(spot(d, q, k) - 1) /\ spot(d, q, k) \in indicesAt(d, q, k)
           ELSE w[k] = q[k]
  BY WrittenIs
<1> HIDE DEF w
<1>2. /\ p \in Path /\ \A k \in DOMAIN p : ~MapJson!isIndexNode(p[k])
      /\ p \in Seq(Node) /\ p \in Seq(Word) /\ Len(p) \in Nat /\ DOMAIN p = 1..Len(p)
  <2>1. p \in Path /\ \A k \in DOMAIN p : ~MapJson!isIndexNode(p[k])  BY DEF MapJson!Written
  <2>2. p \in Seq(Node) /\ p \in Seq(Word)  BY <2>1, NodesAre, WordsAre
  <2> QED BY <2>1, <2>2
<1>3. Len(q) \in Nat  OBVIOUS
<1>4. ASSUME NEW k \in 1..Len(p), k \in 1..Len(q)
      PROVE  p[k] = q[k] <=> p[k] = w[k]
  <2>1. CASE ~isItemAt(d, q, k)  BY <1>1, <1>4, <2>1
  <2>2. CASE isItemAt(d, q, k)
    <3>1. p[k] # q[k]
      BY <1>2, <2>2, PathNodes, MapBounds DEF isItemAt, MapJson!isItem
    <3> DEFINE a == above(q, k)
               j == spot(d, q, k)
    <3>2. w[k] = MapJson!indexNode(j - 1) /\ j \in indicesAt(d, q, k)
      BY <1>1, <1>4, <2>2
    <3>3. MapJson!hasInfo(d, a)  BY <2>2 DEF isItemAt, MapJson!isItem
    <3>4. a \in DOMAIN d /\ MapJson!isArrayInfo(d[a]) /\ d \in Map
      BY <3>3 DEF MapJson!hasInfo
    <3>5. Len(d[a].items) <= MaxCall + 1 /\ Len(d[a].items) \in Nat
          /\ DOMAIN d[a].items = 1..Len(d[a].items)
      BY <3>4, InfoHas DEF Short
    <3>6. j \in DOMAIN d[a].items  BY <3>2 DEF indicesAt, MapJson!indicesOf
    <3> HIDE DEF a, j
    <3>7. j - 1 \in 0..(MaxCall + 1)  BY <3>5, <3>6, MapBounds
    <3>8. j - 1 \in NodeNumber  BY <3>7, MapBounds
    <3>9. p[k] # w[k]  BY <1>2, <3>2, <3>8, PathNodes
    <3> QED BY <3>1, <3>9
  <2> QED BY <2>1, <2>2
<1>5. MapJson!IsPrefix(p, q) <=> Len(p) <= Len(q) /\ \A k \in 1..Len(p) : p[k] = q[k]
  BY <1>2, MapPrefix
<1>6. MapJson!IsPrefix(p, w) <=> Len(p) <= Len(w) /\ \A k \in 1..Len(p) : p[k] = w[k]
  BY <1>1, <1>2, MapPrefix
<1>7. Len(p) <= Len(q) => \A k \in 1..Len(p) : k \in 1..Len(q)  BY <1>2, <1>3
<1>8. MapJson!IsPrefix(p, q) <=> MapJson!IsPrefix(p, w)
  BY <1>1, <1>4, <1>5, <1>6, <1>7
<1> QED BY <1>8 DEF w

LEMMA CleanKeeps ==
  ASSUME MapInv, NEW p \in MapJson!Written, MapJson!clean(p)
  PROVE  MapJson!seen(data') = MapJson!outside(MapJson!seen(data), p)
<1> HIDE DEF Node, Info, Plain
<1> DEFINE e == MapJson!cleanup(data, p)
<1>1. data' = e  BY DEF MapJson!clean, MapJson!wrote
<1>2. /\ Tidy(data, handmade, MaxItem) /\ data \in Map /\ Short(data, MaxCall + 1)
      /\ p \in Seq(Node) /\ DOMAIN e = {q \in DOMAIN data : ~MapJson!IsPrefix(p, q)}
      /\ DOMAIN data \subseteq Seq(Node)
  <2>1. Tidy(data, handmade, MaxItem) /\ data \in Map /\ Short(data, calls + 1)
        /\ calls + 1 <= MaxCall + 1 /\ calls + 1 \in Nat /\ MaxCall + 1 \in Nat
    BY InvHas DEF MapInv
  <2>2. p \in Seq(Node)  BY NodesAre DEF MapJson!Written
  <2>3. Short(data, MaxCall + 1)
    <3> SUFFICES ASSUME NEW r \in DOMAIN data, MapJson!isArrayInfo(data[r])
                 PROVE  Len(data[r].items) <= MaxCall + 1
      BY DEF Short
    <3>1. Len(data[r].items) \in Nat  BY <2>1, InfoHas
    <3> QED BY <2>1, <3>1 DEF Short
  <2> QED BY <2>1, <2>2, <2>3, CleanupIs, MapIs
<1> HIDE DEF e
<1>3. \A q : shows(data, q) => q \in Seq(Node) /\ MapJson!inReach(data, q)
  BY <1>2 DEF shows
<1>4. \A q \in Seq(Node) : ~MapJson!IsPrefix(p, q) =>
        /\ shows(e, q) <=> shows(data, q)
        /\ shows(data, q) => entry(e, q) = entry(data, q)
  BY <1>2, CleanedSame DEF e
<1>5. \A q : shows(e, q) => q \in Seq(Node) /\ ~MapJson!IsPrefix(p, q)
  BY <1>2 DEF shows
<1>6. \A q : shows(data, q) =>
        (MapJson!IsPrefix(p, q) <=> MapJson!IsPrefix(p, MapJson!asWritten(data, q)))
  BY <1>2, <1>3, WrittenAbove
<1>7. ASSUME NEW x
      PROVE  x \in MapJson!seen(e) <=> x \in MapJson!outside(MapJson!seen(data), p)
  <2>1. x \in MapJson!seen(e) <=> \E q : shows(e, q) /\ x = entry(e, q)  BY SeenIs
  <2>2. x \in MapJson!outside(MapJson!seen(data), p)
          <=> \E q : shows(data, q) /\ x = entry(data, q)
                     /\ ~MapJson!IsPrefix(p, MapJson!asWritten(data, q))
    BY OutsideIs
  <2> QED BY <1>3, <1>4, <1>5, <1>6, <2>1, <2>2
<1> QED BY <1>1, <1>7

----
(* What is under an item of an array, and what becomes of it when the items  *)
(* are rearranged.                                                           *)

Under(p, q, i) ==
  /\ MapJson!IsPrefix(p, q) /\ Len(p) + 1 <= Len(q) /\ q[Len(p) + 1] = MapJson!itemNode(i)

\* An array whose items differ, and paths that can be seen.
Legible(g, p) ==
  /\ g \in Map /\ Reals(g) /\ Short(g, MaxCall + 1) /\ MapJson!hasInfo(g, p)
  /\ MapJson!IsInjective(g[p].items)
  /\ \A j \in DOMAIN g[p].items : g[p].items[j] \in MapJson!AnyItem

LEMMA LegibleHas ==
  ASSUME NEW g, NEW p \in MapJson!Written, Legible(g, p)
  PROVE  /\ g \in Map /\ p \in Seq(Node) /\ p \in Seq(Word) /\ p \in Path /\ Len(p) \in Nat
         /\ p \in DOMAIN g /\ MapJson!isArrayInfo(g[p]) /\ g[p].items \in Seq(Nat)
         /\ Len(g[p].items) \in Nat /\ Len(g[p].items) <= MaxCall + 1
         /\ DOMAIN g[p].items = 1..Len(g[p].items)
         /\ \A j \in 1..Len(g[p].items) :
              g[p].items[j] \in MapJson!AnyItem /\ g[p].items[j] \in NodeNumber
         /\ \A i, j \in 1..Len(g[p].items) : g[p].items[i] = g[p].items[j] => i = j
<1> HIDE DEF Node, Word, Info, Plain
<1>1. p \in Path /\ p \in Seq(Node) /\ p \in Seq(Word) /\ Len(p) \in Nat
  BY NodesAre, WordsAre DEF MapJson!Written
<1>2. g \in Map /\ p \in DOMAIN g /\ MapJson!isArrayInfo(g[p])
  BY DEF Legible, MapJson!hasInfo
<1>3. /\ g[p].items \in Seq(Nat) /\ Len(g[p].items) \in Nat
      /\ DOMAIN g[p].items = 1..Len(g[p].items)
  BY <1>2, InfoHas
<1>4. Len(g[p].items) <= MaxCall + 1  BY <1>2 DEF Legible, Short
<1>5. \A j \in 1..Len(g[p].items) : g[p].items[j] \in MapJson!AnyItem
  BY <1>3 DEF Legible
<1>6. \A i, j \in 1..Len(g[p].items) : g[p].items[i] = g[p].items[j] => i = j
  BY <1>3 DEF Legible, MapJson!IsInjective
<1> QED BY <1>1, <1>2, <1>3, <1>4, <1>5, <1>6, MapBounds

LEMMA AboveUnder ==
  ASSUME NEW p \in Seq(Node), NEW q \in Seq(Node)
  PROVE  /\ MapJson!IsPrefix(p, q) /\ Len(p) + 1 <= Len(q) =>
              Len(p) + 1 \in DOMAIN q /\ above(q, Len(p) + 1) = p
         /\ \A k \in DOMAIN q : above(q, k) = p =>
              k = Len(p) + 1 /\ MapJson!IsPrefix(p, q) /\ Len(p) + 1 <= Len(q)
<1> HIDE DEF Node
<1>1. Len(p) \in Nat /\ Len(q) \in Nat /\ DOMAIN q = 1..Len(q)  OBVIOUS
<1>2. ASSUME MapJson!IsPrefix(p, q), Len(p) + 1 <= Len(q)
      PROVE  Len(p) + 1 \in DOMAIN q /\ above(q, Len(p) + 1) = p
  <2> SUFFICES ASSUME NEW k, k = Len(p) + 1 PROVE k \in DOMAIN q /\ above(q, k) = p
    BY Zenon
  <2>1. k \in 1..Len(q) /\ k \in 1..(Len(q) + 1) /\ k - 1 = Len(p)  BY <1>1, <1>2
  <2>2. \A i \in 1..Len(p) : p[i] = q[i]  BY <1>2, MapPrefix
  <2>3. Len(p) = k - 1 /\ \A i \in 1..(k - 1) : p[i] = q[i]  BY <2>1, <2>2
  <2>4. p = above(q, k)  BY <2>1, <2>3, AboveIs
  <2> QED BY <1>1, <2>1, <2>4
<1>3. ASSUME NEW k \in DOMAIN q, above(q, k) = p
      PROVE  k = Len(p) + 1 /\ MapJson!IsPrefix(p, q) /\ Len(p) + 1 <= Len(q)
  <2>1. k \in 1..Len(q) /\ k \in 1..(Len(q) + 1)  BY <1>1
  <2>2. Len(p) = k - 1 /\ \A i \in 1..(k - 1) : p[i] = q[i]  BY <1>3, <2>1, AboveIs
  <2>3. k = Len(p) + 1 /\ Len(p) <= Len(q) /\ \A i \in 1..Len(p) : p[i] = q[i]
    BY <1>1, <2>1, <2>2
  <2> QED BY <1>1, <2>1, <2>3, MapPrefix
<1> QED BY <1>2, <1>3

\* What is under an item of the array is seen under the item's index.
LEMMA UnderIs ==
  ASSUME NEW g, NEW p \in MapJson!Written, Legible(g, p),
         NEW q \in Seq(Node), NEW i \in MapJson!AnyItem, Under(p, q, i), MapJson!inReach(g, q)
  PROVE  \E j \in 1..Len(g[p].items) :
           /\ g[p].items[j] = i
           /\ MapJson!asWritten(g, q)[Len(p) + 1] = MapJson!indexNode(j - 1)
<1> HIDE DEF Node, Word, Info, Plain
<1> SUFFICES ASSUME NEW k, k = Len(p) + 1
             PROVE  \E j \in 1..Len(g[p].items) :
                      /\ g[p].items[j] = i
                      /\ MapJson!asWritten(g, q)[k] = MapJson!indexNode(j - 1)
  BY Zenon
<1>1. p \in Seq(Node) /\ g \in Map /\ DOMAIN g[p].items = 1..Len(g[p].items)  BY LegibleHas
<1>2. k \in DOMAIN q /\ above(q, k) = p /\ q[k] = MapJson!itemNode(i)
  BY <1>1, AboveUnder DEF Under
<1>3. /\ MapJson!isItem(g, p, q[k])
      /\ MapJson!indicesOf(g, p, q[k]) = {j \in DOMAIN g[p].items : g[p].items[j] = i}
  BY <1>2, IndicesAre DEF Legible
<1>4. isItemAt(g, q, k)  BY <1>2, <1>3 DEF isItemAt
<1>5. k \in 1..Len(q)  BY <1>2
<1>6. /\ MapJson!asWritten(g, q)[k] = MapJson!indexNode(spot(g, q, k) - 1)
      /\ spot(g, q, k) \in indicesAt(g, q, k)
  BY <1>1, <1>4, <1>5, WrittenIs
<1>7. spot(g, q, k) \in {j \in DOMAIN g[p].items : g[p].items[j] = i}
  BY <1>2, <1>3, <1>6 DEF indicesAt
<1> QED BY <1>1, <1>6, <1>7

\* The other way round: what is seen under an index is under the item there.
LEMMA AtIndexIs ==
  ASSUME NEW g, NEW p \in MapJson!Written, Legible(g, p), NEW q, shows(g, q),
         NEW n \in NodeNumber
  PROVE  MapJson!IsPrefix(MapJson!atIndex(p, n), MapJson!asWritten(g, q))
           <=> n \in 0..(Len(g[p].items) - 1) /\ Under(p, q, g[p].items[n + 1])
<1> HIDE DEF Node, Word, Info, Plain
<1> DEFINE w == MapJson!asWritten(g, q)
           s == g[p].items
           a == MapJson!atIndex(p, n)
<1>1. /\ g \in Map /\ p \in Seq(Node) /\ p \in Seq(Word) /\ Len(p) \in Nat
      /\ Len(s) \in Nat /\ Len(s) <= MaxCall + 1 /\ DOMAIN s = 1..Len(s)
      /\ \A j \in 1..Len(s) : s[j] \in MapJson!AnyItem /\ s[j] \in NodeNumber
      /\ \A i, j \in 1..Len(s) : s[i] = s[j] => i = j
      /\ n \in Nat
  BY LegibleHas, MapBounds
<1>2. q \in Seq(Node) /\ MapJson!inReach(g, q) /\ Proper(q) /\ Len(q) \in Nat
  <2>1. q \in DOMAIN g /\ ~MapJson!isArrayInfo(g[q]) /\ MapJson!inReach(g, q)  BY DEF shows
  <2>2. q \in Seq(Node)  BY <1>1, <2>1, MapIs
  <2> QED BY <2>1, <2>2 DEF Legible, Reals
<1>3. /\ w \in Seq(Word) /\ Len(w) = Len(q) /\ DOMAIN q = 1..Len(q)
      /\ \A k \in 1..Len(q) :
           IF isItemAt(g, q, k)
           THEN w[k] = MapJson!indexNode(spot(g, q, k) - 1) /\ spot(g, q, k) \in indicesAt(g, q, k)
           ELSE w[k] = q[k]
  BY <1>1, <1>2, WrittenIs
<1>4. a \in Seq(Word) /\ Len(a) = Len(p) + 1 /\ a[Len(p) + 1] = MapJson!indexNode(n)
      /\ \A k \in 1..Len(p) : a[k] = p[k]
  <2>1. MapJson!indexNode(n) \in Word  BY <1>1 DEF Word
  <2>2. a = Append(p, MapJson!indexNode(n))  BY DEF MapJson!atIndex
  <2> HIDE DEF a
  <2> QED BY <1>1, <2>1, <2>2
<1> HIDE DEF w, a
<1>5. MapJson!IsPrefix(p, q) <=> MapJson!IsPrefix(p, w)
  BY <1>1, <1>2, WrittenAbove DEF Legible, w
<1>6. MapJson!IsPrefix(a, w)
        <=> /\ MapJson!IsPrefix(p, q) /\ Len(p) + 1 <= Len(q)
            /\ w[Len(p) + 1] = MapJson!indexNode(n)
  <2>1. MapJson!IsPrefix(a, w)
          <=> Len(p) + 1 <= Len(q) /\ \A k \in 1..(Len(p) + 1) : a[k] = w[k]
    BY <1>3, <1>4, MapPrefix
  <2>2. MapJson!IsPrefix(p, w) <=> Len(p) <= Len(q) /\ \A k \in 1..Len(p) : p[k] = w[k]
    BY <1>1, <1>3, MapPrefix
  <2>3. (\A k \in 1..(Len(p) + 1) : a[k] = w[k])
          <=> (\A k \in 1..Len(p) : a[k] = w[k]) /\ a[Len(p) + 1] = w[Len(p) + 1]
    <3>1. \A k \in 1..(Len(p) + 1) : k \in 1..Len(p) \/ k = Len(p) + 1  BY <1>1
    <3>2. Len(p) + 1 \in 1..(Len(p) + 1) /\ \A k \in 1..Len(p) : k \in 1..(Len(p) + 1)
      BY <1>1
    <3> QED BY Zenon, <3>1, <3>2
  <2>4. Len(p) + 1 <= Len(q) => Len(p) <= Len(q)  BY <1>1, <1>2
  <2> QED BY <1>4, <1>5, <2>1, <2>2, <2>3, <2>4
<1>7. ASSUME MapJson!IsPrefix(a, w)
      PROVE  n \in 0..(Len(s) - 1) /\ Under(p, q, s[n + 1])
  <2> DEFINE k == Len(p) + 1
  <2>1. /\ MapJson!IsPrefix(p, q) /\ k <= Len(q) /\ w[k] = MapJson!indexNode(n)
        /\ k \in DOMAIN q /\ above(q, k) = p /\ k \in 1..Len(q)
    BY <1>1, <1>2, <1>3, <1>6, <1>7, AboveUnder
  <2> HIDE DEF k, s
  <2>2. isItemAt(g, q, k)
    <3> SUFFICES ASSUME ~isItemAt(g, q, k) PROVE FALSE
      OBVIOUS
    <3>1. q[k] = MapJson!indexNode(n)  BY <1>3, <2>1
    <3> QED BY <1>2, <2>1, <3>1 DEF Proper
  <2>3. PICK i \in MapJson!AnyItem : q[k] = MapJson!itemNode(i)
    BY <2>2 DEF isItemAt, MapJson!isItem
  <2>4. Under(p, q, i)  BY <2>1, <2>3 DEF Under, k
  <2>5. PICK j \in 1..Len(s) : s[j] = i /\ w[k] = MapJson!indexNode(j - 1)
    BY <1>2, <2>4, UnderIs DEF k, w, s
  <2>6. j - 1 \in 0..(MaxCall + 1) /\ j - 1 \in 0..(Len(s) - 1) /\ j - 1 + 1 = j
    BY <1>1, MapBounds
  <2>7. j - 1 \in NodeNumber  BY <2>6, MapBounds
  <2>8. n = j - 1  BY <2>1, <2>5, <2>7, NodesApart
  <2>9. s[n + 1] = i  BY <2>5, <2>6, <2>8
  <2> QED BY <2>4, <2>6, <2>8, <2>9
<1>8. ASSUME n \in 0..(Len(s) - 1), Under(p, q, s[n + 1])
      PROVE  MapJson!IsPrefix(a, w)
  <2>1. n + 1 \in 1..Len(s)  BY <1>1, <1>8
  <2> DEFINE i == s[n + 1]
             k == Len(p) + 1
  <2>2. i \in MapJson!AnyItem /\ Under(p, q, i)  BY <1>1, <1>8, <2>1
  <2> HIDE DEF i, s, k
  <2>3. PICK j \in 1..Len(s) : s[j] = i /\ w[k] = MapJson!indexNode(j - 1)
    BY <1>2, <2>2, UnderIs DEF k, w, s
  <2>4. j = n + 1  BY <1>1, <2>1, <2>3 DEF i
  <2>5. j - 1 = n  BY <1>1, <2>4
  <2>6. w[Len(p) + 1] = MapJson!indexNode(n)  BY <2>3, <2>5 DEF k
  <2> QED BY <1>6, <2>2, <2>6 DEF Under
<1> QED BY <1>7, <1>8 DEF w, a

LEMMA ReplaceIs ==
  ASSUME NEW d \in Map, NEW p \in Seq(Node), p \in DOMAIN d, NEW v \in Info
  PROVE  LET e == MapJson!put(d, p, v) IN
         e \in Map /\ DOMAIN e = DOMAIN d /\ e[p] = v /\ Others(d, e, p)
<1> DEFINE e == MapJson!put(d, p, v)
<1>1. v \in Plain \cup Info  OBVIOUS
<1> HIDE DEF Plain, Info, Node
<1>2. e \in Map /\ DOMAIN e = DOMAIN d \cup {p} /\ e[p] = v  BY <1>1, PutIs
<1>3. Others(d, e, p)  BY PutOthers
<1> HIDE DEF e
<1>4. DOMAIN e = DOMAIN d  BY <1>2
<1> QED BY <1>2, <1>3, <1>4 DEF e

\* What is not under an item is seen the same when the array is replaced.
LEMMA NotUnderSame ==
  ASSUME NEW d \in Map, NEW p \in Seq(Node), MapJson!hasInfo(d, p),
         NEW v \in Info, MapJson!isArrayInfo(v),
         NEW q \in Seq(Node), \A i \in MapJson!AnyItem : ~Under(p, q, i)
  PROVE  LET e == MapJson!put(d, p, v) IN
         /\ shows(e, q) <=> shows(d, q)
         /\ shows(d, q) => entry(e, q) = entry(d, q)
<1> DEFINE e == MapJson!put(d, p, v)
<1>1. /\ DOMAIN e = DOMAIN d /\ e[p] = v /\ Others(d, e, p)
      /\ p \in DOMAIN d /\ MapJson!isArrayInfo(d[p])
  <2>1. p \in DOMAIN d /\ MapJson!isArrayInfo(d[p])  BY DEF MapJson!hasInfo
  <2> HIDE DEF Info, Node
  <2> QED BY <2>1, ReplaceIs
<1> HIDE DEF e, Node, Info
<1>2. ASSUME NEW k \in DOMAIN q
      PROVE  /\ isItemAt(e, q, k) <=> isItemAt(d, q, k)
             /\ isItemAt(e, q, k) => indicesAt(e, q, k) = indicesAt(d, q, k)
  <2>1. CASE above(q, k) = p
    <3>1. k = Len(p) + 1 /\ MapJson!IsPrefix(p, q) /\ Len(p) + 1 <= Len(q)
      BY <2>1, AboveUnder
    <3>2. \A i \in MapJson!AnyItem : q[k] # MapJson!itemNode(i)  BY <3>1 DEF Under
    <3> QED BY <3>2 DEF isItemAt, MapJson!isItem
  <2>2. CASE above(q, k) # p
    BY <1>1, <2>2 DEF Others, isItemAt, indicesAt, MapJson!isItem, MapJson!hasInfo,
                      MapJson!indicesOf
  <2> QED BY <2>1, <2>2
<1>3. /\ MapJson!asWritten(e, q) = MapJson!asWritten(d, q)
      /\ MapJson!inReach(e, q) <=> MapJson!inReach(d, q)
  BY <1>2, SameView
<1>4. q # p => e[q] = d[q] \/ q \notin DOMAIN d  BY <1>1 DEF Others
<1>5. CASE q = p
  <2>1. ~shows(d, q) /\ ~shows(e, q)  BY <1>1, <1>5 DEF shows
  <2> QED BY <2>1 DEF e
<1>6. CASE q # p
  <2>1. shows(e, q) <=> shows(d, q)  BY <1>1, <1>3, <1>4, <1>6 DEF shows
  <2>2. ASSUME shows(d, q) PROVE entry(e, q) = entry(d, q)
    <3>1. e[q] = d[q]  BY <1>4, <1>6, <2>2 DEF shows
    <3> QED BY <1>3, <3>1 DEF entry
  <2> QED BY <2>1, <2>2 DEF e
<1> QED BY <1>5, <1>6

\* What is under an item moves with it.
LEMMA UnderMoves ==
  ASSUME NEW d, NEW p \in MapJson!Written, Legible(d, p), NEW v \in Info,
         Legible(MapJson!put(d, p, v), p),
         NEW n \in 0..(Len(d[p].items) - 1), NEW m \in 0..(Len(v.items) - 1),
         v.items[m + 1] = d[p].items[n + 1],
         NEW q \in Seq(Node), Under(p, q, d[p].items[n + 1])
  PROVE  LET e == MapJson!put(d, p, v) IN
         /\ shows(e, q) <=> shows(d, q)
         /\ shows(d, q) =>
              entry(e, q) = [entry(d, q) EXCEPT !.path[Len(p) + 1] = MapJson!indexNode(m)]
<1> DEFINE e == MapJson!put(d, p, v)
           s == d[p].items
           i == s[n + 1]
<1> SUFFICES ASSUME NEW l, l = Len(p) + 1
             PROVE  /\ shows(e, q) <=> shows(d, q)
                    /\ shows(d, q) =>
                         entry(e, q) = [entry(d, q) EXCEPT !.path[l] = MapJson!indexNode(m)]
  BY Zenon
<1>0. d \in Map /\ p \in Seq(Node) /\ p \in DOMAIN d /\ Len(p) \in Nat  BY LegibleHas
<1>1. DOMAIN e = DOMAIN d /\ e[p] = v /\ Others(d, e, p)
  <2> HIDE DEF Info, Node
  <2> QED BY <1>0, ReplaceIs
<1>2. /\ Legible(e, p) /\ e \in Map
      /\ Len(s) \in Nat /\ DOMAIN s = 1..Len(s) /\ \A j, k \in 1..Len(s) : s[j] = s[k] => j = k
      /\ Len(v.items) \in Nat /\ DOMAIN v.items = 1..Len(v.items)
      /\ \A j, k \in 1..Len(v.items) : v.items[j] = v.items[k] => j = k
      /\ \A j \in 1..Len(s) : s[j] \in MapJson!AnyItem
      /\ MapJson!hasInfo(d, p) /\ MapJson!hasInfo(e, p)
      /\ \A j \in DOMAIN v.items : v.items[j] \in MapJson!AnyItem
      /\ \A j \in DOMAIN s : s[j] \in MapJson!AnyItem
  <2>1. Legible(e, p) /\ Legible(d, p)  OBVIOUS
  <2> HIDE DEF e
  <2> QED BY <1>1, <2>1, LegibleHas DEF Legible
<1>3. n + 1 \in 1..Len(s) /\ m + 1 \in 1..Len(v.items) /\ m + 1 - 1 = m /\ m \in Nat  BY <1>2
<1> HIDE DEF e, Node, Info
<1>4. i \in MapJson!AnyItem /\ Under(p, q, i) /\ v.items[m + 1] = i  BY <1>2, <1>3
<1> HIDE DEF i
<1>5. l \in DOMAIN q /\ above(q, l) = p /\ q[l] = MapJson!itemNode(i)
      /\ \A k \in DOMAIN q : above(q, k) = p => k = l
  BY <1>0, <1>4, AboveUnder DEF Under
<1>6. /\ MapJson!isItem(d, p, q[l]) /\ MapJson!isItem(e, p, q[l])
      /\ MapJson!indicesOf(d, p, q[l]) = {j \in DOMAIN s : s[j] = i}
      /\ MapJson!indicesOf(e, p, q[l]) = {j \in DOMAIN v.items : v.items[j] = i}
  <2>1. \A g : MapJson!hasInfo(g, p) /\ (\A j \in DOMAIN g[p].items : g[p].items[j] \in MapJson!AnyItem)
          => /\ MapJson!isItem(g, p, q[l])
             /\ MapJson!indicesOf(g, p, q[l]) = {j \in DOMAIN g[p].items : g[p].items[j] = i}
    BY <1>4, <1>5, IndicesAre
  <2>2. MapJson!hasInfo(d, p) /\ \A j \in DOMAIN d[p].items : d[p].items[j] \in MapJson!AnyItem
    BY <1>2
  <2>3. MapJson!hasInfo(e, p) /\ \A j \in DOMAIN e[p].items : e[p].items[j] \in MapJson!AnyItem
    BY <1>1, <1>2
  <2> QED BY <1>1, <2>1, <2>2, <2>3
<1> HIDE DEF s
<1>7. /\ isItemAt(d, q, l) /\ isItemAt(e, q, l)
      /\ indicesAt(d, q, l) # {} /\ indicesAt(e, q, l) = {m + 1}
  <2>1. n + 1 \in {j \in DOMAIN s : s[j] = i}  BY <1>2, <1>3 DEF i
  <2>2. {j \in DOMAIN v.items : v.items[j] = i} = {m + 1}
    <3>1. m + 1 \in DOMAIN v.items /\ v.items[m + 1] = i  BY <1>2, <1>3, <1>4
    <3>2. \A j \in DOMAIN v.items : v.items[j] = i => j = m + 1  BY <1>2, <3>1
    <3> QED BY Zenon, <3>1, <3>2
  <2> QED BY <1>5, <1>6, <2>1, <2>2 DEF isItemAt, indicesAt
<1>8. ASSUME NEW k \in DOMAIN q, k # l
      PROVE  /\ isItemAt(e, q, k) <=> isItemAt(d, q, k)
             /\ isItemAt(e, q, k) => indicesAt(e, q, k) = indicesAt(d, q, k)
                                     /\ spot(e, q, k) = spot(d, q, k)
  <2>1. above(q, k) # p  BY <1>5, <1>8
  <2>2. /\ isItemAt(e, q, k) <=> isItemAt(d, q, k)
        /\ isItemAt(e, q, k) => indicesAt(e, q, k) = indicesAt(d, q, k)
    BY <1>1, <2>1 DEF Others, isItemAt, indicesAt, MapJson!isItem, MapJson!hasInfo,
                      MapJson!indicesOf
  <2> QED BY <2>2 DEF spot, indicesAt
<1>9. MapJson!inReach(e, q) <=> MapJson!inReach(d, q)
  <2>1. MapJson!inReach(d, q) <=> \A k \in DOMAIN q : isItemAt(d, q, k) => indicesAt(d, q, k) # {}
    BY SeenAs
  <2>2. MapJson!inReach(e, q) <=> \A k \in DOMAIN q : isItemAt(e, q, k) => indicesAt(e, q, k) # {}
    BY SeenAs
  <2> QED BY <1>7, <1>8, <2>1, <2>2
<1>10. MapJson!asWritten(e, q) = [MapJson!asWritten(d, q) EXCEPT ![l] = MapJson!indexNode(m)]
  <2> DEFINE w == MapJson!asWritten(d, q)
             x == MapJson!asWritten(e, q)
  <2>1. w = [k \in DOMAIN q |-> IF isItemAt(d, q, k)
                                THEN MapJson!indexNode(spot(d, q, k) - 1) ELSE q[k]]
    BY SeenAs
  <2>2. x = [k \in DOMAIN q |-> IF isItemAt(e, q, k)
                                THEN MapJson!indexNode(spot(e, q, k) - 1) ELSE q[k]]
    BY SeenAs
  <2>3. x[l] = MapJson!indexNode(m)
    <3>1. spot(e, q, l) \in indicesAt(e, q, l)  BY <1>7 DEF spot, indicesAt
    <3>2. spot(e, q, l) = m + 1  BY <1>7, <3>1
    <3>3. spot(e, q, l) - 1 = m  BY <1>3, <3>2
    <3>4. x[l] = MapJson!indexNode(spot(e, q, l) - 1)  BY <1>5, <1>7, <2>2
    <3> HIDE DEF x
    <3> QED BY <3>3, <3>4
  <2>4. \A k \in DOMAIN q : k # l => x[k] = w[k]
    <3> SUFFICES ASSUME NEW k \in DOMAIN q, k # l PROVE x[k] = w[k]
      OBVIOUS
    <3>1. /\ isItemAt(e, q, k) <=> isItemAt(d, q, k)
          /\ isItemAt(e, q, k) => spot(e, q, k) = spot(d, q, k)
      BY <1>8
    <3>2. w[k] = IF isItemAt(d, q, k) THEN MapJson!indexNode(spot(d, q, k) - 1) ELSE q[k]
      BY <2>1
    <3>3. x[k] = IF isItemAt(e, q, k) THEN MapJson!indexNode(spot(e, q, k) - 1) ELSE q[k]
      BY <2>2
    <3> HIDE DEF x, w
    <3> QED BY <3>1, <3>2, <3>3
  <2>5. DOMAIN w = DOMAIN q /\ DOMAIN x = DOMAIN q /\ x = [k \in DOMAIN q |-> x[k]]
    <3>1. DOMAIN w = DOMAIN q  BY ONLY <2>1
    <3>2. DOMAIN x = DOMAIN q /\ x = [k \in DOMAIN q |-> x[k]]  BY ONLY <2>2
    <3> QED BY <3>1, <3>2
  <2> HIDE DEF w, x
  <2>6. x = [w EXCEPT ![l] = MapJson!indexNode(m)]
    BY ONLY <1>5, <2>3, <2>4, <2>5
  <2> QED BY <2>6 DEF w, x
<1>11. q # p
  <2>1. Len(p) + 1 <= Len(q)  BY <1>4 DEF Under
  <2> QED BY <1>0, <2>1
<1>12. (q \in DOMAIN e <=> q \in DOMAIN d) /\ (q \in DOMAIN d => e[q] = d[q])
  BY <1>1, <1>11 DEF Others
<1>13. shows(e, q) <=> shows(d, q)  BY <1>9, <1>12 DEF shows
<1>14. ASSUME shows(d, q)
       PROVE  entry(e, q) = [entry(d, q) EXCEPT !.path[l] = MapJson!indexNode(m)]
  <2>1. e[q] = d[q]  BY <1>12, <1>14 DEF shows
  <2>2. entry(d, q) = [path |-> MapJson!asWritten(d, q), value |-> d[q].plain]  BY DEF entry
  <2>3. entry(e, q) = [path |-> MapJson!asWritten(e, q), value |-> d[q].plain]
    BY <2>1 DEF entry
  <2> DEFINE w == MapJson!asWritten(d, q)
             y == d[q].plain
             node == MapJson!indexNode(m)
             x == MapJson!asWritten(e, q)
  <2>4. x = [w EXCEPT ![l] = node]  BY <1>10
  <2>5. entry(d, q) = [path |-> w, value |-> y] /\ entry(e, q) = [path |-> x, value |-> y]
    BY <2>2, <2>3
  <2> HIDE DEF w, x, y, node
  <2>6. entry(e, q) = [entry(d, q) EXCEPT !.path[l] = node]  BY ONLY <2>4, <2>5
  <2> QED BY <2>6 DEF node
<1> QED BY <1>13, <1>14

LEMMA ShownIs ==
  ASSUME NEW g \in Map, NEW q, shows(g, q)
  PROVE  q \in Seq(Node) /\ MapJson!inReach(g, q)
BY MapIs DEF shows

\* What is not at an index of the array is under none of its items.
LEMMA AsideIs ==
  ASSUME NEW g, NEW p \in MapJson!Written, Legible(g, p), NEW q, shows(g, q)
  PROVE  (\A n \in 0..(Len(g[p].items) - 1) :
            ~MapJson!IsPrefix(MapJson!atIndex(p, n), MapJson!asWritten(g, q)))
           <=> \A i \in MapJson!AnyItem : ~Under(p, q, i)
<1> HIDE DEF Node
<1>1. /\ g \in Map /\ Len(g[p].items) \in Nat /\ Len(g[p].items) <= MaxCall + 1
      /\ \A j \in 1..Len(g[p].items) : g[p].items[j] \in MapJson!AnyItem
      /\ \A n \in 0..(Len(g[p].items) - 1) : n \in NodeNumber /\ n + 1 \in 1..Len(g[p].items)
  <2>1. /\ g \in Map /\ Len(g[p].items) \in Nat /\ Len(g[p].items) <= MaxCall + 1
        /\ \A j \in 1..Len(g[p].items) : g[p].items[j] \in MapJson!AnyItem
    BY LegibleHas
  <2>2. \A n \in 0..(Len(g[p].items) - 1) : n \in 0..(MaxCall + 1) /\ n + 1 \in 1..Len(g[p].items)
    BY <2>1, MapBounds
  <2> QED BY <2>1, <2>2, MapBounds
<1>2. q \in Seq(Node) /\ MapJson!inReach(g, q)  BY <1>1, ShownIs
<1>3. \A n \in 0..(Len(g[p].items) - 1) :
        MapJson!IsPrefix(MapJson!atIndex(p, n), MapJson!asWritten(g, q))
          <=> Under(p, q, g[p].items[n + 1])
  BY <1>1, AtIndexIs
<1>4. ASSUME NEW i \in MapJson!AnyItem, Under(p, q, i)
      PROVE  \E n \in 0..(Len(g[p].items) - 1) : Under(p, q, g[p].items[n + 1])
  <2>1. PICK j \in 1..Len(g[p].items) : g[p].items[j] = i  BY <1>2, <1>4, UnderIs
  <2> DEFINE n == j - 1
  <2>2. n \in 0..(Len(g[p].items) - 1) /\ n + 1 = j  BY <1>1
  <2> HIDE DEF n
  <2> QED BY <1>4, <2>1, <2>2
<1> QED BY <1>1, <1>3, <1>4

LEMMA MovedIs ==
  ASSUME NEW view, NEW p, NEW f, NEW x
  PROVE  x \in MapJson!moved(view, p, f) <=>
           \/ /\ x \in view
              /\ \A n \in MapJson!Position : ~MapJson!IsPrefix(MapJson!atIndex(p, n), x.path)
           \/ \E n \in DOMAIN f : \E y \in view :
                /\ MapJson!IsPrefix(MapJson!atIndex(p, n), y.path)
                /\ x = [y EXCEPT !.path[Len(p) + 1] = MapJson!indexNode(f[n])]
<1> DEFINE goes(y, n) == [y EXCEPT !.path[Len(p) + 1] = MapJson!indexNode(f[n])]
           below(n) == {y \in view : MapJson!IsPrefix(MapJson!atIndex(p, n), y.path)}
           part(n) == {goes(y, n) : y \in below(n)}
<1>1. MapJson!moved(view, p, f)
        = MapJson!elsewhere(view, p) \cup UNION {part(n) : n \in DOMAIN f}
  BY DEF MapJson!moved
<1> SUFFICES x \in MapJson!moved(view, p, f) <=>
           \/ /\ x \in view
              /\ \A n \in MapJson!Position : ~MapJson!IsPrefix(MapJson!atIndex(p, n), x.path)
           \/ \E n \in DOMAIN f : \E y \in view :
                MapJson!IsPrefix(MapJson!atIndex(p, n), y.path) /\ x = goes(y, n)
  BY Zenon
<1> HIDE DEF goes
<1>2. x \in MapJson!elsewhere(view, p) <=>
        /\ x \in view
        /\ \A n \in MapJson!Position : ~MapJson!IsPrefix(MapJson!atIndex(p, n), x.path)
  BY DEF MapJson!elsewhere
<1>3. \A n : x \in part(n) <=>
        \E y \in view : MapJson!IsPrefix(MapJson!atIndex(p, n), y.path) /\ x = goes(y, n)
  OBVIOUS
<1> HIDE DEF part
<1> QED BY <1>1, <1>2, <1>3

\* The heart of it: what is seen after the items of an array were rearranged is what was
\* seen before, moved; but for what is at the indices of other items.
\* What a view shows outside the indices `F` of an array.
Beside(view, p, F) ==
  {x \in view : \A m \in F : ~MapJson!IsPrefix(MapJson!atIndex(p, m), x.path)}

LEMMA RearrangedMoves ==
  ASSUME NEW d, NEW p \in MapJson!Written, Legible(d, p), NEW v \in Info,
         Legible(MapJson!put(d, p, v), p), Len(d[p].items) <= MaxCall,
         NEW f, DOMAIN f \subseteq MapJson!Position, NEW F \in SUBSET MapJson!Position,
         Rearranges(d[p].items, v.items, f, F)
  PROVE  Beside(MapJson!seen(MapJson!put(d, p, v)), p, F) = MapJson!moved(MapJson!seen(d), p, f)
<1> HIDE DEF Node, Info
<1> DEFINE e == MapJson!put(d, p, v)
           s == d[p].items
           t == v.items
           at(n) == MapJson!atIndex(p, n)
<1>1. /\ d \in Map /\ p \in Seq(Node) /\ p \in DOMAIN d /\ MapJson!hasInfo(d, p)
      /\ Len(s) \in Nat /\ DOMAIN s = 1..Len(s)
      /\ \A j \in 1..Len(s) : s[j] \in MapJson!AnyItem /\ s[j] \in NodeNumber
  BY LegibleHas DEF Legible
<1>2. e \in Map /\ e[p] = v /\ Legible(e, p) /\ MapJson!isArrayInfo(v)
  BY <1>1, ReplaceIs DEF Legible, MapJson!hasInfo
<1> HIDE DEF e
<1>3. /\ Len(t) \in Nat /\ DOMAIN t = 1..Len(t) /\ Len(t) <= MaxCall + 1
      /\ \A j \in 1..Len(t) : t[j] \in MapJson!AnyItem /\ t[j] \in NodeNumber
      /\ \A i, j \in 1..Len(t) : t[i] = t[j] => i = j
  BY <1>2, LegibleHas
<1>4. /\ MapJson!Position \subseteq NodeNumber
      /\ 0..(Len(s) - 1) \subseteq MapJson!Position /\ 0..(Len(t) - 1) \subseteq NodeNumber
      /\ \A n \in 0..(Len(s) - 1) : n + 1 \in 1..Len(s)
      /\ \A n \in 0..(Len(t) - 1) : n + 1 \in 1..Len(t) /\ n \in Nat
  <2>1. Len(s) <= MaxCall  OBVIOUS
  <2> HIDE DEF s, t
  <2>2. 0..(Len(s) - 1) \subseteq 0..MaxCall /\ 0..MaxCall \subseteq 0..(MaxCall + 1)
        /\ 0..(Len(t) - 1) \subseteq 0..(MaxCall + 1)
    BY <1>1, <1>3, <2>1, MapBounds
  <2>3. /\ \A n \in 0..(Len(s) - 1) : n + 1 \in 1..Len(s)
        /\ \A n \in 0..(Len(t) - 1) : n + 1 \in 1..Len(t) /\ n \in Nat
    BY <1>1, <1>3
  <2> QED BY <2>2, <2>3, MapBounds
<1>5. /\ \A n \in 0..(Len(s) - 1) : n \in DOMAIN f =>
             f[n] \in 0..(Len(t) - 1) /\ f[n] \notin F /\ t[f[n] + 1] = s[n + 1]
      /\ \A m \in 0..(Len(t) - 1) :
             m \in F \/ \E n \in 0..(Len(s) - 1) : n \in DOMAIN f /\ f[n] = m
  BY DEF Rearranges
<1>6. \A q, n : shows(d, q) /\ n \in NodeNumber =>
        (MapJson!IsPrefix(at(n), MapJson!asWritten(d, q))
           <=> n \in 0..(Len(s) - 1) /\ Under(p, q, s[n + 1]))
  BY AtIndexIs
<1>7. \A q, n : shows(e, q) /\ n \in NodeNumber =>
        (MapJson!IsPrefix(at(n), MapJson!asWritten(e, q))
           <=> n \in 0..(Len(t) - 1) /\ Under(p, q, t[n + 1]))
  BY <1>2, AtIndexIs
<1>8. \A q : entry(d, q).path = MapJson!asWritten(d, q) /\ entry(e, q).path = MapJson!asWritten(e, q)
  BY DEF entry
<1>9. \A q : shows(d, q) \/ shows(e, q) => q \in Seq(Node)  BY <1>1, <1>2, ShownIs
<1>10. ASSUME NEW q \in Seq(Node), \A i \in MapJson!AnyItem : ~Under(p, q, i)
       PROVE  (shows(e, q) <=> shows(d, q)) /\ (shows(d, q) => entry(e, q) = entry(d, q))
  BY <1>1, <1>2, <1>10, NotUnderSame DEF e
<1>11. ASSUME NEW n \in 0..(Len(s) - 1), n \in DOMAIN f, NEW q \in Seq(Node),
              Under(p, q, s[n + 1])
       PROVE  /\ shows(e, q) <=> shows(d, q)
              /\ shows(d, q) =>
                   entry(e, q) = [entry(d, q) EXCEPT !.path[Len(p) + 1] = MapJson!indexNode(f[n])]
  <2>1. f[n] \in 0..(Len(t) - 1) /\ t[f[n] + 1] = s[n + 1]  BY <1>5, <1>11
  <2> QED BY <1>11, <2>1, UnderMoves DEF e
<1>12. \A q : shows(d, q) => ((\A n \in 0..(Len(s) - 1) :
            ~MapJson!IsPrefix(at(n), MapJson!asWritten(d, q)))
           <=> \A i \in MapJson!AnyItem : ~Under(p, q, i))
  BY AsideIs
<1>13. \A q : shows(e, q) => ((\A n \in 0..(Len(t) - 1) :
            ~MapJson!IsPrefix(at(n), MapJson!asWritten(e, q)))
           <=> \A i \in MapJson!AnyItem : ~Under(p, q, i))
  BY <1>2, AsideIs
<1> HIDE DEF s, t, at
<1> DEFINE L == {x \in MapJson!seen(e) : \A m \in F : ~MapJson!IsPrefix(at(m), x.path)}
           R == MapJson!moved(MapJson!seen(d), p, f)
           goes(y, n) == [y EXCEPT !.path[Len(p) + 1] = MapJson!indexNode(f[n])]
<1>14. \A x : x \in R <=>
         \/ x \in MapJson!seen(d) /\ \A n \in MapJson!Position : ~MapJson!IsPrefix(at(n), x.path)
         \/ \E n \in DOMAIN f : \E y \in MapJson!seen(d) :
              MapJson!IsPrefix(at(n), y.path) /\ x = goes(y, n)
  BY MovedIs DEF at, goes, R
<1>15. \A x : x \in L <=> x \in MapJson!seen(e) /\ \A m \in F : ~MapJson!IsPrefix(at(m), x.path)
  BY Zenon DEF L
<1> HIDE DEF L, R, goes
<1>16. ASSUME NEW x \in L PROVE x \in R
  <2>1. PICK q : shows(e, q) /\ x = entry(e, q)  BY <1>15, SeenIs
  <2>2. \A m \in F : ~MapJson!IsPrefix(at(m), MapJson!asWritten(e, q))  BY <1>8, <1>15, <2>1
  <2>3. q \in Seq(Node)  BY <1>9, <2>1
  <2>4. CASE \A i \in MapJson!AnyItem : ~Under(p, q, i)
    <3>1. shows(d, q) /\ x = entry(d, q)  BY <1>10, <2>1, <2>3, <2>4
    <3>2. \A n \in MapJson!Position : ~MapJson!IsPrefix(at(n), MapJson!asWritten(d, q))
      BY <1>1, <1>4, <1>6, <2>4, <3>1
    <3>3. x \in MapJson!seen(d) /\ x.path = MapJson!asWritten(d, q)  BY <1>8, <3>1, SeenIs
    <3> QED BY <1>14, <3>2, <3>3
  <2>5. CASE ~(\A i \in MapJson!AnyItem : ~Under(p, q, i))
    <3>1. PICK m \in 0..(Len(t) - 1) : MapJson!IsPrefix(at(m), MapJson!asWritten(e, q))
      BY <1>13, <2>1, <2>5
    <3>2. m \notin F /\ m \in NodeNumber /\ Under(p, q, t[m + 1])
      BY <1>4, <1>7, <2>1, <2>2, <3>1
    <3>3. PICK n \in 0..(Len(s) - 1) : n \in DOMAIN f /\ f[n] = m  BY <1>5, <3>2
    <3>4. Under(p, q, s[n + 1])  BY <1>5, <3>2, <3>3
    <3>5. shows(d, q) /\ x = goes(entry(d, q), n)  BY <1>11, <2>1, <2>3, <3>3, <3>4 DEF goes
    <3>6. n \in NodeNumber  BY <1>4
    <3>7. MapJson!IsPrefix(at(n), MapJson!asWritten(d, q))  BY <1>6, <3>4, <3>5, <3>6
    <3>8. entry(d, q) \in MapJson!seen(d) /\ MapJson!IsPrefix(at(n), entry(d, q).path)
      BY <1>8, <3>5, <3>7, SeenIs
    <3> QED BY <1>14, <3>3, <3>5, <3>8
  <2> QED BY <2>4, <2>5
<1>17. ASSUME NEW q, shows(d, q), \A n \in MapJson!Position :
                 ~MapJson!IsPrefix(at(n), MapJson!asWritten(d, q))
       PROVE  entry(d, q) \in L
  <2>1. \A i \in MapJson!AnyItem : ~Under(p, q, i)  BY <1>4, <1>12, <1>17
  <2>2. shows(e, q) /\ entry(e, q) = entry(d, q)  BY <1>9, <1>10, <1>17, <2>1
  <2>3. \A m \in F : ~MapJson!IsPrefix(at(m), MapJson!asWritten(e, q))
    BY <1>3, <1>4, <1>7, <2>1, <2>2
  <2> QED BY <1>8, <1>15, <2>2, <2>3, SeenIs
<1>18. ASSUME NEW n \in DOMAIN f, NEW q, shows(d, q),
              MapJson!IsPrefix(at(n), MapJson!asWritten(d, q))
       PROVE  goes(entry(d, q), n) \in L
  <2>1. n \in 0..(Len(s) - 1) /\ Under(p, q, s[n + 1])  BY <1>4, <1>6, <1>18
  <2>2. shows(e, q) /\ entry(e, q) = goes(entry(d, q), n)
    BY <1>9, <1>11, <1>18, <2>1 DEF goes
  <2>3. f[n] \in 0..(Len(t) - 1) /\ f[n] \notin F /\ t[f[n] + 1] = s[n + 1]  BY <1>5, <2>1
  <2>4. ASSUME NEW m \in F, MapJson!IsPrefix(at(m), MapJson!asWritten(e, q))
        PROVE  FALSE
    <3>1. m \in 0..(Len(t) - 1) /\ Under(p, q, t[m + 1])  BY <1>4, <1>7, <2>2, <2>4
    <3>2. MapJson!itemNode(t[m + 1]) = MapJson!itemNode(t[f[n] + 1])
      BY <2>1, <2>3, <3>1 DEF Under
    <3>3. m + 1 \in 1..Len(t) /\ f[n] + 1 \in 1..Len(t)  BY <1>4, <2>3, <3>1
    <3>4. t[m + 1] = t[f[n] + 1]  BY <1>3, <3>2, <3>3, NodesApart
    <3>5. m + 1 = f[n] + 1  BY <1>3, <3>3, <3>4
    <3>6. m = f[n]  BY <1>4, <2>3, <3>1, <3>5
    <3> QED BY <2>3, <2>4, <3>6
  <2> QED BY <1>8, <1>15, <2>2, <2>4, SeenIs
<1>19. ASSUME NEW x \in R PROVE x \in L
  <2>1. CASE x \in MapJson!seen(d) /\ \A n \in MapJson!Position : ~MapJson!IsPrefix(at(n), x.path)
    <3>1. PICK q : shows(d, q) /\ x = entry(d, q)  BY <2>1, SeenIs
    <3>2. x.path = MapJson!asWritten(d, q)  BY <1>8, <3>1
    <3> QED BY <1>17, <2>1, <3>1, <3>2
  <2>2. CASE \E n \in DOMAIN f : \E y \in MapJson!seen(d) :
               MapJson!IsPrefix(at(n), y.path) /\ x = goes(y, n)
    <3>1. PICK n \in DOMAIN f, y \in MapJson!seen(d) :
            MapJson!IsPrefix(at(n), y.path) /\ x = goes(y, n)
      BY <2>2
    <3>2. PICK q : shows(d, q) /\ y = entry(d, q)  BY SeenIs
    <3>3. y.path = MapJson!asWritten(d, q)  BY <1>8, <3>2
    <3> QED BY <1>18, <3>1, <3>2, <3>3
  <2> QED BY <1>14, <2>1, <2>2
<1>20. L = R  BY <1>16, <1>19
<1> QED BY <1>20 DEF L, R, at, e, Beside

----
(* What the calls on arrays promise. *)

LEMMA RearrangedDiffer ==
  ASSUME NEW s \in Seq(Nat), NEW t \in Seq(Nat), MapJson!IsInjective(s), NEW f, NEW F,
         Rearranges(s, t, f, F), \A i, j \in F : i = j
  PROVE  MapJson!IsInjective(t)
<1>1. Len(s) \in Nat /\ Len(t) \in Nat /\ DOMAIN s = 1..Len(s) /\ DOMAIN t = 1..Len(t)  OBVIOUS
<1>2. \A n, m \in 0..(Len(s) - 1) : s[n + 1] = s[m + 1] => n = m
  <2> SUFFICES ASSUME NEW n \in 0..(Len(s) - 1), NEW m \in 0..(Len(s) - 1), s[n + 1] = s[m + 1]
               PROVE  n = m
    OBVIOUS
  <2>1. n + 1 \in DOMAIN s /\ m + 1 \in DOMAIN s  BY <1>1
  <2>2. n + 1 = m + 1  BY <2>1 DEF MapJson!IsInjective
  <2> QED BY <2>2
<1>3. \A m \in 0..(Len(t) - 1) :
        IF m \in F THEN \A n \in 0..(Len(s) - 1) : s[n + 1] # t[m + 1]
        ELSE \E n \in 0..(Len(s) - 1) : n \in DOMAIN f /\ f[n] = m /\ t[m + 1] = s[n + 1]
  BY DEF Rearranges
<1>4. ASSUME NEW i \in 0..(Len(t) - 1), NEW j \in 0..(Len(t) - 1), t[i + 1] = t[j + 1]
      PROVE  i = j
  <2>1. CASE i \in F /\ j \in F  BY <2>1
  <2>2. CASE i \notin F /\ j \in F  BY <1>3, <1>4, <2>2
  <2>3. CASE i \in F /\ j \notin F  BY <1>3, <1>4, <2>3
  <2>4. CASE i \notin F /\ j \notin F
    <3>1. PICK n \in 0..(Len(s) - 1) : f[n] = i /\ t[i + 1] = s[n + 1]  BY <1>3, <2>4
    <3>2. PICK m \in 0..(Len(s) - 1) : f[m] = j /\ t[j + 1] = s[m + 1]  BY <1>3, <2>4
    <3>3. n = m  BY <1>2, <1>4, <3>1, <3>2
    <3> QED BY <3>1, <3>2, <3>3
  <2> QED BY <2>1, <2>2, <2>3, <2>4
<1>5. ASSUME NEW i \in DOMAIN t, NEW j \in DOMAIN t, t[i] = t[j] PROVE i = j
  <2>1. i - 1 \in 0..(Len(t) - 1) /\ j - 1 \in 0..(Len(t) - 1) /\ i - 1 + 1 = i /\ j - 1 + 1 = j
    BY <1>1
  <2>2. i - 1 = j - 1  BY <1>4, <1>5, <2>1
  <2> QED BY <2>1, <2>2
<1> QED BY <1>5 DEF MapJson!IsInjective

LEMMA LegibleNow ==
  ASSUME MapInv, calls < MaxCall, NEW p, MapJson!hasInfo(data, p),
         MapJson!IsInjective(data[p].items)
  PROVE  Legible(data, p) /\ Len(data[p].items) <= MaxCall
<1>1. /\ Tidy(data, handmade, MaxItem) /\ data \in Map /\ Short(data, calls + 1)
      /\ calls \in Nat /\ MaxCall \in Nat
  BY InvHas
<1>2. Short(data, MaxCall + 1)
  <2> SUFFICES ASSUME NEW r \in DOMAIN data, MapJson!isArrayInfo(data[r])
               PROVE  Len(data[r].items) <= MaxCall + 1
    BY DEF Short
  <2>1. Len(data[r].items) \in Nat  BY <1>1, InfoHas
  <2> QED BY <1>1, <2>1 DEF Short
<1>3. Len(data[p].items) <= calls + 1 /\ Len(data[p].items) \in Nat  BY FoundIs
<1>4. \A j \in DOMAIN data[p].items : data[p].items[j] \in MapJson!AnyItem  BY FoundIs
<1> QED BY <1>1, <1>2, <1>3, <1>4 DEF Legible, Tidy

LEMMA LegibleNext ==
  ASSUME MapInv, calls < MaxCall, NEW p, NEW v, replaces(p, v), MapJson!IsInjective(v.items)
  PROVE  Legible(MapJson!put(data, p, v), p)
<1> HIDE DEF Node, Info
<1> DEFINE e == MapJson!put(data, p, v)
<1>1. Tidy(e, handmade, MaxItem + 1) /\ Short(e, calls + 2) /\ e \in Map  BY ReplacedOk
<1>2. p \in DOMAIN data /\ p \in Seq(Node) /\ data \in Map /\ v \in Info /\ MapJson!isArrayInfo(v)
  BY FoundIs, InvHas DEF replaces
<1>3. DOMAIN e = DOMAIN data /\ e[p] = v  BY <1>2, ReplaceIs
<1> HIDE DEF e
<1>4. calls \in Nat /\ MaxCall \in Nat  BY InvHas
<1>5. Short(e, MaxCall + 1)
  <2> SUFFICES ASSUME NEW r \in DOMAIN e, MapJson!isArrayInfo(e[r])
               PROVE  Len(e[r].items) <= MaxCall + 1
    BY DEF Short
  <2>1. Len(e[r].items) \in Nat  BY <1>1, InfoHas
  <2> QED BY <1>1, <1>4, <2>1 DEF Short
<1>6. MapJson!hasInfo(e, p)  BY <1>2, <1>3 DEF MapJson!hasInfo
<1>7. \A j \in DOMAIN e[p].items : e[p].items[j] \in MapJson!AnyItem
  BY <1>1, <1>2, <1>3 DEF Tidy, Arrays
<1>8. Legible(e, p)  BY <1>1, <1>3, <1>5, <1>6, <1>7 DEF Legible, Tidy
<1> QED BY <1>8 DEF e

LEMMA ReplacedMoves ==
  ASSUME MapInv, calls < MaxCall, NEW p \in MapJson!Written, NEW v, replaces(p, v),
         MapJson!IsInjective(data[p].items), NEW f, DOMAIN f \subseteq MapJson!Position,
         NEW F \in SUBSET MapJson!Position, \A i, j \in F : i = j,
         Rearranges(data[p].items, v.items, f, F)
  PROVE  LET e == MapJson!put(data, p, v) IN
         /\ Legible(e, p) /\ e \in Map
         /\ Beside(MapJson!seen(e), p, F) = MapJson!moved(MapJson!seen(data), p, f)
<1> HIDE DEF Node, Info
<1>1. /\ MapJson!hasInfo(data, p) /\ v \in Info /\ MapJson!isArrayInfo(v)
      /\ data[p].items \in Seq(Nat)
  BY FoundIs DEF replaces
<1>2. v.items \in Seq(Nat)  BY <1>1 DEF Info
<1>3. MapJson!IsInjective(v.items)  BY <1>1, <1>2, RearrangedDiffer
<1>4. Legible(data, p) /\ Len(data[p].items) <= MaxCall  BY <1>1, LegibleNow
<1>5. Legible(MapJson!put(data, p, v), p)  BY <1>3, LegibleNext
<1>6. MapJson!put(data, p, v) \in Map  BY <1>5 DEF Legible
<1>7. Beside(MapJson!seen(MapJson!put(data, p, v)), p, F) = MapJson!moved(MapJson!seen(data), p, f)
  BY <1>1, <1>4, <1>5, RearrangedMoves, Zenon
<1> QED BY <1>5, <1>6, <1>7, Zenon

LEMMA SetInfoIs ==
  ASSUME NEW p, NEW v, MapJson!setInfo(p, v)
  PROVE  data' = MapJson!put(data, p, v)
BY DEF MapJson!setInfo, MapJson!wrote

LEMMA SwapKeeps ==
  ASSUME MapInv, calls < MaxCall, MapJson!itemsUnique(data),
         NEW p \in MapJson!Written, NEW n \in MapJson!Index, NEW m \in MapJson!Index,
         MapJson!swapArrayItem(p, n, m)
  PROVE  MapJson!seen(data') = MapJson!moved(MapJson!seen(data), p, MapJson!exchange(n, m))
<1> DEFINE v == [data[p] EXCEPT !.items[n + 1] = data[p].items[m + 1],
                                !.items[m + 1] = data[p].items[n + 1]]
           f == MapJson!exchange(n, m)
<1>1. MapJson!hasItem(p, n) /\ MapJson!hasItem(p, m) /\ MapJson!setInfo(p, v)
  BY Zenon DEF MapJson!swapArrayItem
<1> HIDE DEF v
<1>2. n \in Nat /\ m \in Nat  BY MapBounds
<1>3. replaces(p, v) /\ Rearranges(data[p].items, v.items, f, {})
  BY <1>1, <1>2, SwapReplaces, Zenon DEF v
<1>4. MapJson!IsInjective(data[p].items)
  BY <1>1 DEF MapJson!hasItem, MapJson!hasInfo, MapJson!itemsUnique
<1>5. DOMAIN f \subseteq MapJson!Position  BY DEF MapJson!exchange
<1> HIDE DEF f
<1> DEFINE e == MapJson!put(data, p, v)
<1>6. Beside(MapJson!seen(e), p, {}) = MapJson!moved(MapJson!seen(data), p, f)
  BY <1>3, <1>4, <1>5, ReplacedMoves
<1>7. data' = e  BY <1>1, SetInfoIs
<1> HIDE DEF e
<1>8. MapJson!seen(e) = MapJson!moved(MapJson!seen(data), p, f)  BY <1>6 DEF Beside
<1> QED BY <1>7, <1>8 DEF f

LEMMA TakenMoves ==
  ASSUME MapInv, calls < MaxCall, MapJson!itemsUnique(data),
         NEW p \in MapJson!Written, NEW n \in MapJson!Index, MapJson!hasItem(p, n)
  PROVE  LET v == [data[p] EXCEPT !.items = MapJson!RemoveAt(@, n + 1)]
             e == MapJson!put(data, p, v)
         IN /\ Legible(e, p) /\ e \in Map /\ e[p] = v
            /\ \A j \in 1..Len(v.items) : v.items[j] # data[p].items[n + 1]
            /\ MapJson!seen(e) = MapJson!moved(MapJson!seen(data), p, MapJson!without(n))
<1> DEFINE f == MapJson!without(n)
<1> SUFFICES ASSUME NEW v, v = [data[p] EXCEPT !.items = MapJson!RemoveAt(@, n + 1)],
                    NEW e, e = MapJson!put(data, p, v)
             PROVE  /\ Legible(e, p) /\ e \in Map /\ e[p] = v
                    /\ \A j \in 1..Len(v.items) : v.items[j] # data[p].items[n + 1]
                    /\ MapJson!seen(e) = MapJson!moved(MapJson!seen(data), p, f)
  BY Zenon
<1>1. n \in Nat  BY MapBounds
<1>2. MapJson!IsInjective(data[p].items) /\ MapJson!hasInfo(data, p) /\ n < Len(data[p].items)
  BY DEF MapJson!hasItem, MapJson!hasInfo, MapJson!itemsUnique
<1>3. replaces(p, v) /\ Rearranges(data[p].items, v.items, f, {})
  BY <1>1, <1>2, TakeReplaces, Zenon
<1>4. DOMAIN f \subseteq MapJson!Position /\ n \notin DOMAIN f  BY DEF MapJson!without
<1> HIDE DEF f
<1>5. /\ Beside(MapJson!seen(e), p, {}) = MapJson!moved(MapJson!seen(data), p, f)
      /\ Legible(e, p) /\ e \in Map
  <2>1. {} \in SUBSET MapJson!Position /\ \A i, j \in {} : i = j  OBVIOUS
  <2> QED BY <1>2, <1>3, <1>4, <2>1, ReplacedMoves, Zenon
<1>6. MapJson!seen(e) = MapJson!moved(MapJson!seen(data), p, f)  BY <1>5 DEF Beside
<1>7. e[p] = v
  <2> HIDE DEF Node, Info
  <2>1. p \in DOMAIN data /\ p \in Seq(Node) /\ data \in Map /\ v \in Info
    BY <1>2, <1>3, FoundIs, InvHas DEF replaces
  <2> QED BY <2>1, ReplaceIs
<1>8. ASSUME NEW j \in 1..Len(v.items) PROVE v.items[j] # data[p].items[n + 1]
  <2>1. n \in 0..(Len(data[p].items) - 1) /\ Len(v.items) \in Nat
    <3>1. Len(data[p].items) \in Nat  BY <1>2, FoundIs
    <3>2. v \in Info  BY <1>3 DEF replaces
    <3>3. Len(v.items) \in Nat  BY <3>2 DEF Info
    <3> QED BY <1>1, <1>2, <3>1, <3>3
  <2>2. \A k \in 0..(Len(v.items) - 1) : v.items[k + 1] # data[p].items[n + 1]
    BY <1>3, <1>4, <2>1 DEF Rearranges
  <2>3. j - 1 \in 0..(Len(v.items) - 1) /\ j - 1 + 1 = j  BY <2>1
  <2> QED BY <2>2, <2>3
<1> QED BY <1>5, <1>6, <1>7, <1>8

LEMMA TakeKeeps ==
  ASSUME MapInv, calls < MaxCall, MapJson!itemsUnique(data),
         NEW p \in MapJson!Written, NEW n \in MapJson!Index, MapJson!takeArrayItem(p, n)
  PROVE  MapJson!seen(data') = MapJson!moved(MapJson!seen(data), p, MapJson!without(n))
<1> DEFINE v == [data[p] EXCEPT !.items = MapJson!RemoveAt(@, n + 1)]
<1>1. MapJson!hasItem(p, n) /\ MapJson!setInfo(p, v)  BY Zenon DEF MapJson!takeArrayItem
<1>2. MapJson!seen(MapJson!put(data, p, v))
        = MapJson!moved(MapJson!seen(data), p, MapJson!without(n))
  BY <1>1, TakenMoves, Zenon
<1> HIDE DEF v
<1>3. data' = MapJson!put(data, p, v)  BY <1>1, SetInfoIs
<1> QED BY <1>2, <1>3

\* What is under an item's path is under the item.
LEMMA ItemPathIs ==
  ASSUME NEW p \in Seq(Node), NEW i \in Nat, NEW q \in Seq(Node),
         MapJson!IsPrefix(Append(p, MapJson!itemNode(i)), q)
  PROVE  Under(p, q, i)
<1> HIDE DEF Node
<1> SUFFICES ASSUME NEW x \in Node, x = MapJson!itemNode(i)
             PROVE  Under(p, q, i)
  BY NodesAre
<1>1. /\ Append(p, x) \in Seq(Node) /\ Len(Append(p, x)) = Len(p) + 1 /\ Len(p) \in Nat
      /\ Append(p, x)[Len(p) + 1] = x /\ \A j \in 1..Len(p) : Append(p, x)[j] = p[j]
  BY AboveAppend
<1>2. Len(Append(p, x)) <= Len(q) /\ \A j \in 1..Len(Append(p, x)) : Append(p, x)[j] = q[j]
  <2>1. MapJson!IsPrefix(Append(p, x), q)  OBVIOUS
  <2>2. Append(p, x) \in Seq(Node)  BY <1>1
  <2> QED BY ONLY <2>1, <2>2, q \in Seq(Node), MapPrefix, Zenon
<1>3. Len(p) + 1 <= Len(q) /\ \A j \in 1..(Len(p) + 1) : Append(p, x)[j] = q[j]  BY <1>1, <1>2
<1>4. q[Len(p) + 1] = x /\ \A j \in 1..Len(p) : p[j] = q[j]  BY <1>1, <1>3
<1>5. MapJson!IsPrefix(p, q)
  <2>1. Len(p) <= Len(q)  BY <1>1, <1>3
  <2> QED BY <1>4, <2>1, MapPrefix
<1> QED BY <1>3, <1>4, <1>5 DEF Under

\* What is under an item that is not in the array is out of reach: nothing seen goes with it.
LEMMA GoneSame ==
  ASSUME NEW g, NEW p \in MapJson!Written, Legible(g, p), NEW i \in MapJson!AnyItem,
         \A j \in 1..Len(g[p].items) : g[p].items[j] # i
  PROVE  MapJson!seen(MapJson!cleanup(g, Append(p, MapJson!itemNode(i)))) = MapJson!seen(g)
<1> HIDE DEF Node
<1> DEFINE lost == Append(p, MapJson!itemNode(i))
           e == MapJson!cleanup(g, lost)
<1>1. g \in Map /\ p \in Seq(Node) /\ i \in Nat  BY LegibleHas, MapBounds
<1>2. lost \in Seq(Node)
  <2>1. MapJson!itemNode(i) \in Node  BY <1>1, NodesAre
  <2> QED BY <1>1, <2>1
<1>3. \A q \in Seq(Node) : MapJson!IsPrefix(lost, q) => Under(p, q, i)  BY <1>1, ItemPathIs
<1> HIDE DEF lost
<1>4. e \in Map /\ DOMAIN e = {q \in DOMAIN g : ~MapJson!IsPrefix(lost, q)}  BY <1>1, CleanupIs
<1>5. \A q \in Seq(Node) : ~MapJson!IsPrefix(lost, q) =>
        /\ shows(e, q) <=> shows(g, q)
        /\ shows(g, q) => entry(e, q) = entry(g, q)
  BY <1>1, <1>2, CleanedSame
<1> HIDE DEF e
<1>6. \A q : shows(g, q) => q \in Seq(Node) /\ MapJson!inReach(g, q)  BY <1>1, ShownIs
<1>7. \A q : shows(e, q) => q \in Seq(Node) /\ ~MapJson!IsPrefix(lost, q)
  BY <1>4, ShownIs DEF shows
<1>8. \A q : shows(g, q) => ~MapJson!IsPrefix(lost, q)
  <2> SUFFICES ASSUME NEW q, shows(g, q), MapJson!IsPrefix(lost, q) PROVE FALSE
    OBVIOUS
  <2>1. q \in Seq(Node) /\ MapJson!inReach(g, q) /\ Under(p, q, i)  BY <1>3, <1>6
  <2> QED BY <2>1, UnderIs
<1>9. MapJson!seen(e) = MapJson!seen(g)
  <2>1. \A q : shows(e, q) <=> shows(g, q)  BY <1>5, <1>6, <1>7, <1>8
  <2>2. \A q : shows(e, q) => entry(e, q) = entry(g, q)  BY <1>5, <1>7, <2>1
  <2> QED BY <2>1, <2>2, SeenEqual
<1> QED BY <1>9 DEF e, lost

LEMMA RemoveKeeps ==
  ASSUME MapInv, calls < MaxCall, MapJson!itemsUnique(data),
         NEW p \in MapJson!Written, NEW n \in MapJson!Index, MapJson!removeArrayItem(p, n)
  PROVE  MapJson!seen(data') = MapJson!moved(MapJson!seen(data), p, MapJson!without(n))
<1> DEFINE v == [data[p] EXCEPT !.items = MapJson!RemoveAt(@, n + 1)]
           e == MapJson!put(data, p, v)
           item == data[p].items[n + 1]
<1>1. /\ MapJson!hasItem(p, n)
      /\ MapJson!wrote(MapJson!cleanup(e, Append(p, MapJson!itemNode(item))))
  BY Zenon DEF MapJson!removeArrayItem
<1>2. /\ Legible(e, p) /\ e[p] = v
      /\ \A j \in 1..Len(v.items) : v.items[j] # item
      /\ MapJson!seen(e) = MapJson!moved(MapJson!seen(data), p, MapJson!without(n))
  BY <1>1, TakenMoves, Zenon
<1> HIDE DEF v, e
<1>3. item \in MapJson!AnyItem
  <2>1. MapJson!hasInfo(data, p) /\ n < Len(data[p].items) /\ n \in Nat
    BY <1>1, MapBounds DEF MapJson!hasItem
  <2>2. Len(data[p].items) \in Nat
        /\ \A j \in 1..Len(data[p].items) : data[p].items[j] \in MapJson!AnyItem
    BY <2>1, FoundIs
  <2>3. n + 1 \in 1..Len(data[p].items)  BY <2>1, <2>2
  <2> QED BY <2>2, <2>3
<1> HIDE DEF item
<1>4. MapJson!seen(MapJson!cleanup(e, Append(p, MapJson!itemNode(item)))) = MapJson!seen(e)
  BY <1>2, <1>3, GoneSame
<1>5. data' = MapJson!cleanup(e, Append(p, MapJson!itemNode(item)))  BY <1>1 DEF MapJson!wrote
<1> QED BY <1>2, <1>4, <1>5

\* An inserted item moves those behind it, and what is at its own place is its own.
Opened(p, at, item, v, e) ==
  /\ Legible(e, p) /\ e[p] = v /\ v.items[at + 1] = item
  /\ at \in NodeNumber /\ at \in 0..(Len(v.items) - 1)
  /\ MapJson!outside(MapJson!seen(e), MapJson!atIndex(p, at))
       = MapJson!moved(MapJson!seen(data), p, MapJson!opened(at))

LEMMA InsertedMoves ==
  ASSUME MapInv, calls < MaxCall, NEW p \in MapJson!Written,
         MapJson!IsInjective(data[p].items), NEW n \in MapJson!Index, NEW b, MapJson!hasItem(p, n),
         NEW item \in MapJson!AnyItem,
         \A j \in 1..Len(data[p].items) : data[p].items[j] # item
  PROVE  LET at == MapJson!place(n, b)
             v == MapJson!insertAt(data[p], at, item)
         IN Opened(p, at, item, v, MapJson!put(data, p, v))
<1> SUFFICES ASSUME NEW at, at = MapJson!place(n, b),
                    NEW v, v = MapJson!insertAt(data[p], at, item),
                    NEW e, e = MapJson!put(data, p, v)
             PROVE  Opened(p, at, item, v, e)
  BY Zenon
<1>1. n \in Nat /\ MapJson!hasInfo(data, p) /\ p \notin handmade =>
        \A j \in 1..Len(data[p].items) : data[p].items[j] # item
  BY MapBounds DEF MapJson!hasItem
<1>2. /\ replaces(p, v) /\ at \in MapJson!Position /\ v.items[at + 1] = item
      /\ at \in 0..(Len(v.items) - 1)
      /\ Rearranges(data[p].items, v.items, MapJson!opened(at), {at})
  <2> DEFINE a == MapJson!place(n, b)
             u == MapJson!insertAt(data[p], a, item)
  <2>1. n \in Nat  BY MapBounds
  <2>2. /\ replaces(p, u) /\ a \in MapJson!Position /\ u.items[a + 1] = item
        /\ a \in 0..(Len(u.items) - 1)
        /\ (\A j \in 1..Len(data[p].items) : data[p].items[j] # item)
             => Rearranges(data[p].items, u.items, MapJson!opened(a), {a})
    BY <2>1, InsertReplaces, Zenon
  <2>3. a = at /\ u = v  OBVIOUS
  <2> HIDE DEF a, u
  <2> QED BY <2>2, <2>3
<1>3. at \in NodeNumber
  <2>1. MapJson!Position \subseteq NodeNumber
    <3>1. 0..MaxCall \subseteq 0..(MaxCall + 1)  BY MapBounds
    <3> QED BY <3>1, MapBounds
  <2> QED BY <1>2, <2>1
<1>4. DOMAIN MapJson!opened(at) = MapJson!Position  BY DEF MapJson!opened
<1>5. {at} \in SUBSET MapJson!Position /\ \A i, j \in {at} : i = j  BY <1>2
<1>6. /\ Legible(e, p)
      /\ Beside(MapJson!seen(e), p, {at})
           = MapJson!moved(MapJson!seen(data), p, MapJson!opened(at))
  <2>1. DOMAIN MapJson!opened(at) \subseteq MapJson!Position  BY <1>4
  <2>2. \A F \in SUBSET MapJson!Position : (\A i, j \in F : i = j)
          /\ Rearranges(data[p].items, v.items, MapJson!opened(at), F) =>
          /\ Legible(e, p)
          /\ Beside(MapJson!seen(e), p, F)
               = MapJson!moved(MapJson!seen(data), p, MapJson!opened(at))
    BY <1>2, <2>1, ReplacedMoves, Zenon
  <2> QED BY <1>2, <1>5, <2>2
<1>7. Beside(MapJson!seen(e), p, {at}) = MapJson!outside(MapJson!seen(e), MapJson!atIndex(p, at))
  BY DEF Beside, MapJson!outside
<1>8. e[p] = v
  <2> HIDE DEF Node, Info
  <2>1. p \in DOMAIN data /\ p \in Seq(Node) /\ data \in Map /\ v \in Info
    BY <1>2, FoundIs, InvHas DEF replaces
  <2> QED BY <2>1, ReplaceIs
<1> QED BY <1>2, <1>3, <1>6, <1>7, <1>8 DEF Opened

LEMMA InsertThisKeeps ==
  ASSUME MapInv, calls < MaxCall, MapJson!itemsUnique(data),
         NEW p \in MapJson!Written, NEW n \in MapJson!Index, NEW item \in MapJson!Item, NEW b,
         MapJson!insertThisItem(p, n, item, b)
  PROVE  LET at == MapJson!place(n, b) IN
         MapJson!outside(MapJson!seen(data'), MapJson!atIndex(p, at))
           = MapJson!moved(MapJson!seen(data), p, MapJson!opened(at))
<1> DEFINE at == MapJson!place(n, b)
           v == MapJson!insertAt(data[p], at, item)
           e == MapJson!put(data, p, v)
<1>1. MapJson!hasItem(p, n) /\ MapJson!setInfo(p, v)  BY Zenon DEF MapJson!insertThisItem
<1>2. item \in MapJson!AnyItem /\ \A j \in 1..Len(data[p].items) : data[p].items[j] # item
  <2>1. n \in Nat  BY MapBounds
  <2> QED BY <2>1, InsertThisOk, Zenon
<1>3. MapJson!IsInjective(data[p].items)
  BY <1>1 DEF MapJson!hasItem, MapJson!hasInfo, MapJson!itemsUnique
<1>4. Opened(p, at, item, v, e)
  BY <1>1, <1>2, <1>3, InsertedMoves, Zenon
<1> HIDE DEF at, v
<1>5. data' = e  BY <1>1, SetInfoIs
<1> HIDE DEF e
<1>6. MapJson!outside(MapJson!seen(data'), MapJson!atIndex(p, at))
        = MapJson!moved(MapJson!seen(data), p, MapJson!opened(at))
  BY <1>4, <1>5 DEF Opened
<1> QED BY <1>6 DEF at

\* Nothing is under the item that comes next.
LEMMA NothingUnderNew ==
  ASSUME MapInv, NEW p, MapJson!hasInfo(data, p), p \notin handmade, NEW q \in DOMAIN data
  PROVE  ~Under(p, q, MapJson!newItem(data[p]))
<1> HIDE DEF Node
<1> SUFFICES ASSUME NEW item, item = MapJson!newItem(data[p]), Under(p, q, item) PROVE FALSE
  OBVIOUS
<1>1. item = data[p].max + 1 /\ item \in MapJson!AnyItem  BY NewIs
<1>2. Covered(data, handmade) /\ q \in Seq(Node) /\ p \in Seq(Node)
  BY FoundIs, InvHas, MapIs DEF Tidy
<1>3. Len(p) + 1 \in DOMAIN q /\ above(q, Len(p) + 1) = p  BY <1>2, AboveUnder DEF Under
<1>4. CoveredAt(data, handmade, q, Len(p) + 1)  BY <1>2, <1>3 DEF Covered
<1>5. MapJson!isArrayInfo(data[p]) => item <= data[p].max
  BY <1>1, <1>3, <1>4 DEF CoveredAt, Under
<1>6. MapJson!isArrayInfo(data[p]) /\ data[p].max \in Nat  BY FoundIs
<1> QED BY <1>1, <1>5, <1>6

LEMMA InsertKeeps ==
  ASSUME MapInv, calls < MaxCall, NEW p \in MapJson!Written, p \notin handmade,
         NEW n \in MapJson!Index, NEW b, MapJson!insertArrayItem(p, n, b)
  PROVE  MapJson!seen(data')
           = MapJson!moved(MapJson!seen(data), p, MapJson!opened(MapJson!place(n, b)))
<1> DEFINE at == MapJson!place(n, b)
           item == MapJson!newItem(data[p])
           v == MapJson!insertAt(data[p], at, item)
           e == MapJson!put(data, p, v)
<1>1. MapJson!hasItem(p, n) /\ MapJson!setInfo(p, v)  BY Zenon DEF MapJson!insertArrayItem
<1>2. MapJson!hasInfo(data, p)  BY <1>1 DEF MapJson!hasItem
<1>3. item \in MapJson!AnyItem /\ \A j \in 1..Len(data[p].items) : data[p].items[j] # item
  BY <1>2, NewIs, Zenon
<1>4. MapJson!IsInjective(data[p].items)  BY <1>2, FoundIs, Zenon
<1>5. Opened(p, at, item, v, e)
  BY <1>1, <1>3, <1>4, InsertedMoves, Zenon
<1>6. DOMAIN e = DOMAIN data
  BY <1>2, Zenon DEF MapJson!put, MapJson!hasInfo
<1>7. data' = e  BY <1>1, SetInfoIs
<1>8. \A q \in DOMAIN data : ~Under(p, q, item)  BY <1>2, NothingUnderNew
<1> HIDE DEF at, item, v, e
<1>9. ASSUME NEW x \in MapJson!seen(e)
      PROVE  ~MapJson!IsPrefix(MapJson!atIndex(p, at), x.path)
  <2>1. PICK q : shows(e, q) /\ x = entry(e, q)  BY SeenIs
  <2>2. x.path = MapJson!asWritten(e, q)  BY <2>1 DEF entry
  <2>3. q \in DOMAIN data  BY <1>6, <2>1 DEF shows
  <2>4. ~Under(p, q, e[p].items[at + 1])  BY <1>5, <1>8, <2>3 DEF Opened
  <2>5. ~MapJson!IsPrefix(MapJson!atIndex(p, at), MapJson!asWritten(e, q))
    BY <1>5, <2>1, <2>4, AtIndexIs DEF Opened
  <2> QED BY <2>2, <2>5
<1>10. MapJson!outside(MapJson!seen(e), MapJson!atIndex(p, at)) = MapJson!seen(e)
  BY <1>9 DEF MapJson!outside
<1> QED BY <1>5, <1>7, <1>10 DEF at, Opened

LEMMA AddKeeps ==
  ASSUME MapInv, NEW p, p \notin handmade, MapJson!addArrayItem(p)
  PROVE  MapJson!seen(data') = MapJson!seen(data)
<1> HIDE DEF Node, Info
<1>1. MapJson!hasInfo(data, p) /\ MapJson!setInfo(p, MapJson!addItem(data[p]))
  BY DEF MapJson!addArrayItem
<1>2. makes(data, p, MapJson!addItem(data[p])) /\ p \in Seq(Node)  BY <1>1, AddReplaces, FoundIs
<1>3. Tidy(data, handmade, MaxItem + 1)
  <2>1. Tidy(data, handmade, MaxItem) /\ MaxItem \in Nat /\ MaxItem + 1 \in Nat
        /\ MaxItem <= MaxItem + 1
    BY InvHas
  <2> QED BY <2>1, TidyMore
<1>4. data' = MapJson!put(data, p, MapJson!addItem(data[p]))  BY <1>1, SetInfoIs
<1> QED BY <1>2, <1>3, <1>4, MakesKeeps

LEMMA MapStepKeeps ==
  ASSUME MapInv, calls < MaxCall
  PROVE  (MapJson!itemsUnique(data) => MapJson!keepsTheRest) /\ MapJson!makesFresh
<1>1. ASSUME MapJson!itemsUnique(data) PROVE MapJson!keepsTheRest
  <2>1. ASSUME NEW p \in MapJson!Written, NEW n \in MapJson!Index, NEW m \in MapJson!Index,
               MapJson!swapArrayItem(p, n, m)
        PROVE  MapJson!seen(data')
                 = MapJson!moved(MapJson!seen(data), p, MapJson!exchange(n, m))
    BY <1>1, <2>1, SwapKeeps
  <2>2. ASSUME NEW p \in MapJson!Written, NEW n \in MapJson!Index,
               MapJson!takeArrayItem(p, n) \/ MapJson!removeArrayItem(p, n)
        PROVE  MapJson!seen(data') = MapJson!moved(MapJson!seen(data), p, MapJson!without(n))
    BY <1>1, <2>2, TakeKeeps, RemoveKeeps
  <2>3. ASSUME NEW p \in MapJson!Written, NEW n \in MapJson!Index, NEW i \in MapJson!Item,
               NEW b \in BOOLEAN, MapJson!insertThisItem(p, n, i, b)
        PROVE  LET at == MapJson!place(n, b) IN
               MapJson!outside(MapJson!seen(data'), MapJson!atIndex(p, at))
                 = MapJson!moved(MapJson!seen(data), p, MapJson!opened(at))
    BY <1>1, <2>3, InsertThisKeeps, Zenon
  <2>4. ASSUME NEW p \in MapJson!Written, MapJson!clean(p)
        PROVE  MapJson!seen(data') = MapJson!outside(MapJson!seen(data), p)
    BY <2>4, CleanKeeps
  <2>5. ASSUME NEW p \in Path, NEW v \in Value, MapJson!set(p, v), handmade = {}
        PROVE  MapJson!outside(MapJson!seen(data'), p) = MapJson!outside(MapJson!seen(data), p)
    BY <2>5, SetOk
  <2>6. ASSUME NEW p \in Path, NEW q \in Path, MapJson!assign(p, q), handmade = {}
        PROVE  MapJson!outside(MapJson!seen(data'), p) = MapJson!outside(MapJson!seen(data), p)
    BY <2>6, AssignOk
  <2> QED BY <2>1, <2>2, <2>3, <2>4, <2>5, <2>6, Zenon DEF MapJson!keepsTheRest
<1>2. MapJson!makesFresh
  <2>1. ASSUME NEW p \in MapJson!Written, p \notin handmade, MapJson!addArrayItem(p)
        PROVE  MapJson!seen(data') = MapJson!seen(data)
    BY <2>1, AddKeeps
  <2>2. ASSUME NEW p \in MapJson!Written, p \notin handmade, NEW n \in MapJson!Index,
               NEW b \in BOOLEAN, MapJson!insertArrayItem(p, n, b)
        PROVE  MapJson!seen(data')
                 = MapJson!moved(MapJson!seen(data), p, MapJson!opened(MapJson!place(n, b)))
    BY <2>2, InsertKeeps
  <2> QED BY <2>1, <2>2, Zenon DEF MapJson!makesFresh
<1> QED BY <1>1, <1>2

\* A call that says nothing of the rest leaves it, in every reachable map: an array operation
\* moves each item with what is under it, a write changes nothing outside its path, even
\* when it makes arrays on the way or fails half way.
THEOREM MapKeepsTheRest == Spec => MapJson!EditsKeepTheRest
<1>1. MapInv /\ [Next]_dataVars
        => [calls' > calls /\ MapJson!itemsUnique(data) => MapJson!keepsTheRest]_(MapJson!vars)
  <2> SUFFICES ASSUME MapInv, [Next]_dataVars, calls' > calls, MapJson!itemsUnique(data)
               PROVE  MapJson!keepsTheRest
    BY DEF MapJson!vars
  <2>1. calls < MaxCall
    BY InvHas DEF Next, dataVars, mapVars, MapJson!Next
  <2> QED BY <2>1, MapStepKeeps
<1>2. Spec => [][Next]_dataVars  BY PTL DEF Spec
<1> QED BY <1>1, <1>2, MapInvariance, PTL DEF MapJson!EditsKeepTheRest

\* An item that the map makes itself has nothing under it.
THEOREM FreshItems == Spec => MapJson!NewItemsAreFresh
<1>1. MapInv /\ [Next]_dataVars => [calls' > calls => MapJson!makesFresh]_(MapJson!vars)
  <2> SUFFICES ASSUME MapInv, [Next]_dataVars, calls' > calls
               PROVE  MapJson!makesFresh
    BY DEF MapJson!vars
  <2>1. calls < MaxCall
    BY InvHas DEF Next, dataVars, mapVars, MapJson!Next
  <2> QED BY <2>1, MapStepKeeps
<1>2. Spec => [][Next]_dataVars  BY PTL DEF Spec
<1> QED BY <1>1, <1>2, MapInvariance, PTL DEF MapJson!NewItemsAreFresh

\* A call changes what it names and nothing else: in the path map, in Qt's JSON and in a
\* table whose section loses its last rows.
THEOREM CallsKeepTheRest == Spec => EditsKeepTheRest
BY MapKeepsTheRest, FreshItems, JsonSavesTheRest, EmptiedSectionsGo DEF EditsKeepTheRest
=============================================================================
