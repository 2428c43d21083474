----------------------------- MODULE MediaBytes -----------------------------
(***************************************************************************)
(* The byte formats and the string extensions checked on every small       *)
(* input: a list of nalus, the characters of a file, the bytes of a        *)
(* number, or a text and its separator, grown one at a time.               *)
(***************************************************************************)
EXTENDS XXnaluSpliter, XXfmMp4Boxes, XXbyteOrder

CONSTANTS
  Bytes,       \* bytes of nalus
  MaxBytes,    \* bound: bytes in all nalus together
  NaluListMax, \* nalus a split has room for: 10 in the code
  Chars,       \* characters of the file
  MaxChars,    \* bound: its length
  NumberBytes, \* bytes of a number
  TextChar,    \* characters of the text
  MaxText      \* bound: its length

VARIABLES nalus, file, digits, target, sep
bytesVars == <<nalus, file, digits, target, sep>>

\* Bytes are numbers, those of a number have eight bits; a parameter set has a length that two
\* bytes can hold, and a split has room for a nalu.
ASSUME BytesAssumption ==
  /\ Bytes \subseteq Nat /\ NumberBytes \subseteq 0..255
  /\ MaxBytes \in Nat /\ MaxBytes < 65536
  /\ NaluListMax \in Nat \ {0}

\* A separator of one character and one of two.
Separator == {<<"/">>, <<":", "/">>}

Text == INSTANCE XXstdStringExtend

BytesInit == nalus = <<>> /\ file = <<>> /\ digits = <<>> /\ Text!TextInit

addByte ==
  /\ file = <<>> /\ digits = <<>> /\ target = <<>>
  /\ Len(FlattenSeq(nalus)) < MaxBytes
  /\ \E b \in Bytes :
       \/ nalus' = Append(nalus, <<b>>)
       \/ nalus # <<>> /\ nalus' = [nalus EXCEPT ![Len(nalus)] = Append(@, b)]
  /\ UNCHANGED <<file, digits, target, sep>>

addChar ==
  /\ nalus = <<>> /\ digits = <<>> /\ target = <<>> /\ Len(file) < MaxChars
  /\ \E ch \in Chars : file' = Append(file, ch)
  /\ UNCHANGED <<nalus, digits, target, sep>>

addDigit ==
  /\ nalus = <<>> /\ file = <<>> /\ target = <<>> /\ Len(digits) < 4
  /\ \E b \in NumberBytes : digits' = Append(digits, b)
  /\ UNCHANGED <<nalus, file, target, sep>>

addText ==
  /\ nalus = <<>> /\ file = <<>> /\ digits = <<>>
  /\ Text!TextNext
  /\ UNCHANGED <<nalus, file, digits>>

BytesNext == addByte \/ addChar \/ addDigit \/ addText

BytesSpec == BytesInit /\ [][BytesNext]_bytesVars

(***************************************************************************)
(* Properties                                                              *)
(***************************************************************************)
containsCode(nalu) == \E k \in 1..(Len(nalu) - 3) : codeAt(nalu, k)

\* What a split with too little room makes of nalus: the last place takes the rest, start
\* codes included.
absorbed(all, max) ==
  IF Len(all) <= max THEN all
  ELSE SubSeq(all, 1, max - 1)
         \o <<all[max] \o toStream(SubSeq(all, max + 1, Len(all)), <<>>)>>

\* A stream of nalus that is split gives the nalus again, wherever they end with zeros; the
\* encoder's slices come out of it behind its parameter sets.
NalusComeBack ==
  (\A k \in DOMAIN nalus : ~containsCode(nalus[k])) =>
    /\ splitNalu(toStream(nalus, <<>>), NaluListMax) = absorbed(nalus, NaluListMax)
    /\ nalus # <<>> =>
         splitNalu(compressionOutput(xvcc(nalus), TRUE, <<nalus[1]>>), NaluListMax)
           = absorbed(<<nalus[1]>> \o nalus, NaluListMax)

\* The parameter sets that the writer found in a packet are those a player reads from the
\* file, and the profile and level are those of the SPS if it has the four bytes they take.
ParametersReadBack ==
  \A sps, pps \in ToSet(nalus) :
    /\ Len(sps) >= 4 =>
         readAvcc(makeAvcc(sps, pps)) =
           [version |-> 1, profile |-> SubSeq(sps, 2, 4), lengthSize |-> 4, sets |-> <<sps, pps>>]
    /\ readHvcc(makeHvcc(sps, pps, sps)) = <<<<32, sps>>, <<33, sps>>, <<34, pps>>>>

\* The same for the audio, for a rate of the list; another one turns the object type into
\* 15 and the index into "explicit", with no rate behind it.
AudioReadsBack ==
  \A rate \in ToSet(Rates) \cup {0}, channel \in 1..2 :
    readAdts(makeAdts(rate, channel)) =
      IF rate = 0 THEN [objectType |-> 15, index |-> 15, channel |-> channel]
      ELSE [objectType |-> 2, index |-> sampleRateIndex(rate), channel |-> channel]

Hev1 == <<"h", "e", "v", "1">>
Hvc1 == <<"h", "v", "c", "1">>
occurs(k) == k + 3 <= Len(file) /\ SubSeq(file, k, k + 3) = Hev1
behindPartialMatch(k) ==
  \E j \in 1..3 : k > j /\ SubSeq(file, k - j, k - 1) = SubSeq(Hev1, 1, j)

\* An hev1 that does not come directly behind the beginning of another is found; what is
\* replaced is one hev1, and nothing else in the file changes.
ReplacesHev1 ==
  LET k == search(file, Hev1)
      after == replaceStringInFile(file, Hev1, Hvc1)
  IN /\ (\E i \in DOMAIN file : occurs(i) /\ ~behindPartialMatch(i)) => k # 0
     /\ k # 0 => occurs(k)
     /\ Len(after) = Len(file)
     /\ \A i \in DOMAIN file :
          after[i] = IF k # 0 /\ i \in k..(k + 3) THEN Hvc1[i - k + 1] ELSE file[i]

\* Big endian numbers are read as they are; a little endian one is when no byte but the
\* highest has its top bit set: the sign of a lower one spreads over all above it.
NumbersRead ==
  LET filled(bytes) == IF Len(bytes) = 3 THEN Append(bytes, 0) ELSE bytes
  IN /\ beTo(digits) = filled(Reverse(digits))
     /\ (leTo(digits) = filled(digits)) <=>
          \A j \in DOMAIN digits, k \in wide(digits) :
            j < k /\ digits[j] >= 128 => filled(digits)[k] = 255

\* What is split, wrapped in boxes or headers, renamed or spread over bytes is read back,
\* and what is cut at separators can be put together again: the five properties above and
\* TextSound of XXstdStringExtend.
BytesSound ==
  /\ NalusComeBack /\ ParametersReadBack /\ AudioReadsBack /\ ReplacesHev1 /\ NumbersRead
  /\ Text!TextSound
=============================================================================
