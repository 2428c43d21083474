--------------------------- MODULE XXnaluSpliter ---------------------------
(***************************************************************************)
(* The bytes of a video packet: C/XXnaluSpliter.c cuts a stream with start  *)
(* codes into nalus, and Objective-C/AV/XXh26xEncoder.mm makes such a       *)
(* stream of the slices that the hardware encoder prefixes with lengths.    *)
(* A nalu is a sequence of bytes; its first byte tells its type.            *)
(***************************************************************************)
EXTENDS Integers, Sequences, SequencesExt

StartCode == <<0, 0, 0, 1>>

\* memcmp(START_CODE, data + index, 4), with indices from 1.
codeAt(data, i) == SubSeq(data, i, i + 3) = StartCode

\* Where nalus start: the scan stops before the last four bytes, and steps over a
\* start code it has found.
codes(data) ==
  LET f[i \in 1..(Len(data) + 4)] ==
        IF i > Len(data) - 4 THEN <<>>
        ELSE IF codeAt(data, i) THEN <<i + 4>> \o f[i + 4] ELSE f[i + 1]
  IN f[1]

\* Variant: the last nalu ends where a dropped one begins.
splitNalu_Cut(data, naluListMax) ==
  LET all == codes(data)
      start == SubSeq(all, 1, IF Len(all) < naluListMax THEN Len(all) ELSE naluListMax)
  IN [k \in DOMAIN start |->
        SubSeq(data, start[k], IF k < Len(all) THEN all[k + 1] - 5 ELSE Len(data))]

\* The nalus without their start codes: at most naluListMax, the last of them up to the
\* end of the data.
splitNalu(data, naluListMax) ==
  LET all == codes(data)
      start == SubSeq(all, 1, IF Len(all) < naluListMax THEN Len(all) ELSE naluListMax)
  IN [k \in DOMAIN start |->
        SubSeq(data, start[k], IF k < Len(start) THEN start[k + 1] - 5 ELSE Len(data))]

\* toXXnaluType: five bits of the first byte, or six after the first.
toXXnaluType(byte, isH264) ==
  IF isH264
  THEN CASE byte % 32 = 7 -> "SPS" [] byte % 32 = 8 -> "PPS"
         [] byte % 32 = 5 -> "IFrame" [] byte % 32 = 1 -> "PFrame" [] OTHER -> "Unknown"
  ELSE LET t == (byte \div 2) % 64 IN
       CASE t = 32 -> "VPS" [] t = 33 -> "SPS" [] t = 34 -> "PPS"
         [] t = 19 -> "IFrame" [] t = 1 -> "PFrame" [] OTHER -> "Unknown"

\* xxnaluSpliter_contains: the types of what was split.
contains(nalus, isH264) == {toXXnaluType(nalus[k][1], isH264) : k \in DOMAIN nalus} \ {"Unknown"}

\* getNalu: the first nalu of a type, as a sequence of none or one.
getNalu(nalus, type, isH264) ==
  LET of == SelectSeq(nalus, LAMBDA n : toXXnaluType(n[1], isH264) = type)
  IN SubSeq(of, 1, IF of = <<>> THEN 0 ELSE 1)

\* What the hardware encoder gives: every slice with its length in four bytes.
xvcc(slices) == FlattenSeq([k \in DOMAIN slices |-> <<0, 0, 0, Len(slices[k])>> \o slices[k]])

\* toAnnexBWithXVCC: the slices again; data too short for one slice give none.
toAnnexBWithXVCC(data) ==
  LET f[i \in Nat] == IF i >= Len(data) - 4 THEN <<>>
                      ELSE <<SubSeq(data, i + 5, i + 4 + data[i + 4])>> \o f[i + data[i + 4] + 4]
  IN IF Len(data) < 5 THEN <<>> ELSE f[0]

\* toStream: parameter sets, if any, and slices, each behind a start code.
toStream(slices, parameterSets) ==
  LET all == parameterSets \o slices
  IN FlattenSeq([k \in DOMAIN all |-> StartCode \o all[k]])

\* compressionOutputCallback: only a key frame carries parameter sets; data without a
\* slice are not given on.
compressionOutput(data, isKeyFrame, parameterSets) ==
  LET nalus == toAnnexBWithXVCC(data) IN
  IF nalus = <<>> THEN <<>> ELSE toStream(nalus, IF isKeyFrame THEN parameterSets ELSE <<>>)
=============================================================================
