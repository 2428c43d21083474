-------------------------------- MODULE MCstore --------------------------------
(***************************************************************************)
(* TLC instances of the queue and of the mp4 writer, which do not call     *)
(* each other: `unit` says whose behaviours these are.                     *)
(*                                                                         *)
(* The queue has memory for four items, so that a limit of two is met with *)
(* a free item left and one of four with none.  A packet of the writer     *)
(* holds parameter sets, a frame, both or neither; three time stamps give  *)
(* a first, a next and a last frame; MaxInt is small enough for the frame  *)
(* counters to overflow.                                                   *)
(***************************************************************************)
EXTENDS XXqueue, XXfmMp4Writer

VARIABLE unit

StoreInit == unit \in {"XXqueue", "XXfmMp4Writer"} /\ Init /\ WriterInit

StoreNext ==
  /\ UNCHANGED unit
  /\ \/ unit = "XXqueue" /\ Next /\ UNCHANGED writerVars
     \/ unit = "XXfmMp4Writer" /\ WriterNext /\ UNCHANGED vars

StoreSpec == StoreInit /\ [][StoreNext]_<<unit, vars, writerVars>>

CONSTANTS i1, i2, i3, i4, v1, v2

MCItem == {i1, i2, i3, i4}
MCValue == {v1, v2}
MCLimit == {0, 2, 4}
MCMaxHandle == {1, 2}

MCVideoData == {{}, {"Unknown"}, {"SPS", "PPS"}, {"SPS", "IFrame"}, {"PFrame"},
                {"VPS", "SPS", "PPS"}, {"VPS", "SPS", "PPS", "IFrame"},
                {"SPS", "PPS", "IFrame"}, {"SPS", "PPS", "PFrame"}}
MCStamp == {0, 40, 1000}
================================================================================
