---------------------------- MODULE MCXXtcpSocket ----------------------------
(***************************************************************************)
(* Bounds for XXtcpSocket: two descriptors, so that a closed one comes     *)
(* back under the same number; three iterations, the fewest in which data  *)
(* and the end of the stream meet in one call; three bytes, so that a call *)
(* can ask for less, as much or more than is there.                        *)
(***************************************************************************)
EXTENDS XXtcpSocket

Descriptors == {3, 4}
Lengths == {1, 2, 3}
=============================================================================
