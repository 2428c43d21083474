---------------------------- MODULE MCXXtsReader ----------------------------
(***************************************************************************)
(* Bounds for XXtsReader: one table with video, sound and a stream the     *)
(* reader does not know, and shorter ones with sound and video in another  *)
(* order and with another video; an item of the first or second can stand  *)
(* behind the third and win.  PMTs are of the program the reader follows   *)
(* and of another.  PES headers have a time stamp alone or every optional  *)
(* field, and no stuffing.  Three frames, four chunks under way, and a     *)
(* buffer for two.                                                         *)
(***************************************************************************)
EXTENDS XXtsReader

Pids == 1..4
Codecs == <<"H264", "AAC", "H265", "other">>
PmtPids == {16, 17}
PATs == {<<>>, <<16>>}
PMTs == {<<1, 2, 4>>, <<2, 1>>, <<3>>}

plain(f) == [fields |-> f, stuffing |-> 0, originalStuffLength |-> 0]
Headers == {plain({"PTS"}), plain(DOMAIN fieldLength)}
=============================================================================
