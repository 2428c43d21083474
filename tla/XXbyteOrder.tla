---------------------------- MODULE XXbyteOrder ----------------------------
(***************************************************************************)
(* C/XXbyteOrder.c: numbers of two, three or four bytes.  The bytes come   *)
(* as int8_t, so that one from 128 on is negative.  A result is the        *)
(* sequence of its bytes, the lowest first.                                *)
(***************************************************************************)
EXTENDS Integers, Sequences, SequencesExt

\* The bits of byte j in byte k of the result: its sign fills what is above it.
spread(data, j, k) ==
  IF k = j THEN data[j] ELSE IF k > j /\ data[j] >= 128 THEN 255 ELSE 0

\* Variant: the mask is missing.
masked_Not(data, j, k) == spread(data, j, k)
\* The mask cuts the sign off.
masked(data, j, k) == IF k = j THEN data[j] ELSE 0

\* "or" of what each byte contributes to byte k: own byte, or 255 from a sign below.
orOf(f) == IF 255 \in {f[j] : j \in DOMAIN f} THEN 255
           ELSE FoldLeft(LAMBDA a, b : a + b, 0, f)

\* A number of three bytes is read into four.
wide(data) == 1..(IF Len(data) = 3 THEN 4 ELSE Len(data))

beTo(data) == LET low == Reverse(data) IN
  [k \in wide(low) |-> orOf([j \in DOMAIN low |-> masked(low, j, k)])]
leTo(data) == [k \in wide(data) |-> orOf([j \in DOMAIN data |-> spread(data, j, k)])]
=============================================================================
