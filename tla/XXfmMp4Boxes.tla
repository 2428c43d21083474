---------------------------- MODULE XXfmMp4Boxes ----------------------------
(***************************************************************************)
(* What C/ffmpeg/XXfmMp4Writer.c writes byte by byte: the descriptions of   *)
(* the streams that it hands to libavformat, and the change of hev1 to     *)
(* hvc1 in the finished file.  Beside each stands the reader that a player  *)
(* has, by which the properties judge it.                                  *)
(***************************************************************************)
EXTENDS Integers, Sequences, SequencesExt

byte(n) == n % 256
zeros(n) == [k \in 1..n |-> 0]

twoBytes(n) == <<byte(n \div 256), byte(n)>>
sized(nalu) == twoBytes(Len(nalu)) \o nalu

\* The bytes behind the first of the SPS are copied without looking at its length.
makeAvcc(sps, pps) ==
  <<1>> \o SubSeq(sps, 2, 4) \o <<255>> \o <<225>> \o sized(sps) \o <<1>> \o sized(pps)

\* Variant: every array says VPS.
hvccArray_Vps(type, nalu) == <<32, 0, 1>> \o sized(nalu)
\* One array of one nalu for each of the three.
hvccArray(type, nalu) == <<type, 0, 1>> \o sized(nalu)
makeHvcc(sps, pps, vps) ==
  <<1, 0>> \o zeros(19) \o <<3, 3>>
    \o hvccArray(32, vps) \o hvccArray(33, sps) \o hvccArray(34, pps)

Rates == <<96000, 88200, 64000, 48000, 44100, 32000, 24000, 22050, 16000, 12000, 11025, 8000, 7350>>
\* -1 as a byte for a rate that is not in the list.
sampleRateIndex(rate) ==
  IF rate \in ToSet(Rates) THEN (CHOOSE k \in DOMAIN Rates : Rates[k] = rate) - 1 ELSE 255
\* AAC LC is 2.  The index has four bits on paper, and here it is "or"ed in as it is.
makeAdts(rate, channel) ==
  LET index == sampleRateIndex(rate) IN
  <<IF index = 255 THEN 127 ELSE 16 + index \div 2, byte((index % 2) * 128 + channel * 8)>>

(***************************************************************************)
(* replaceStringInFile                                                     *)
(***************************************************************************)

\* Variant: a character that does not match is passed over.
match_On(at, ch, src) ==
  IF at.found # 0 THEN at
  ELSE IF src[at.count + 1] # ch THEN [at EXCEPT !.pos = @ + 1]
  ELSE [count |-> at.count + 1, pos |-> at.pos + 1,
        found |-> IF at.count + 1 = Len(src) THEN at.pos + 2 - Len(src) ELSE 0]

\* One character of the search: a character that does not go on with the match ends it, and
\* begins none.
match(at, ch, src) ==
  IF at.found # 0 THEN at
  ELSE IF src[at.count + 1] # ch THEN [at EXCEPT !.count = 0, !.pos = @ + 1]
  ELSE [count |-> at.count + 1, pos |-> at.pos + 1,
        found |-> IF at.count + 1 = Len(src) THEN at.pos + 2 - Len(src) ELSE 0]

\* The start of what is found, or 0.
search(file, src) ==
  FoldLeft(LAMBDA at, ch : match(at, ch, src), [count |-> 0, pos |-> 0, found |-> 0], file).found

replaceStringInFile(file, src, dest) ==
  LET k == search(file, src) IN
  IF k = 0 THEN file ELSE SubSeq(file, 1, k - 1) \o dest \o SubSeq(file, k + Len(src), Len(file))

(***************************************************************************)
(* The readers                                                             *)
(***************************************************************************)
number(bytes) == 256 * bytes[1] + bytes[2]

\* A nalu with two bytes of length, at position k.
naluAt(data, k) == SubSeq(data, k + 2, k + 1 + number(SubSeq(data, k, k + 1)))

\* ISO/IEC 14496-15: profile and level of the SPS, lengths of four bytes, one SPS, one PPS.
readAvcc(data) ==
  LET sps == naluAt(data, 7) IN
  [version |-> data[1], profile |-> SubSeq(data, 2, 4), lengthSize |-> (data[5] % 4) + 1,
   sets |-> <<sps, naluAt(data, 10 + Len(sps))>>]

\* ISO/IEC 14496-15: the arrays begin behind 23 bytes.
readHvcc(data) ==
  LET arrays[k \in 1..4] ==
        IF k = 1 THEN [at |-> 24, sets |-> <<>>]
        ELSE LET a == arrays[k - 1]
                 nalu == naluAt(data, a.at + 3)
             IN [at |-> a.at + 5 + Len(nalu), sets |-> Append(a.sets, <<data[a.at] % 64, nalu>>)]
  IN arrays[data[23] + 1].sets

\* ISO/IEC 14496-3: five bits of object type, four of the rate's index, four of channels.
readAdts(data) ==
  [objectType |-> data[1] \div 8, index |-> (data[1] % 8) * 2 + data[2] \div 128,
   channel |-> (data[2] \div 8) % 16]
=============================================================================
