--------------------------- MODULE XXtimestampSyncer ---------------------------
(***************************************************************************)
(* The pacing of frames by their time stamps, Objective-C/AV/              *)
(* XXtimestampSyncer.m.  The times of the code are seconds, fractions of   *)
(* them included; here they count in milliseconds.                         *)
(***************************************************************************)
EXTENDS Integers

CONSTANTS
  Second,           \* milliseconds in one: 1000
  MIN_MSEC_TIMESTAMP, MAX_MSEC_TIMESTAMP,
  MaxSync,          \* the syncTimeMax a caller may choose
  MaxTime           \* bound: of the clock

\* In the code 1000, 31507200000 and 4687730032000.
ASSUME SyncerAssumption ==
  /\ Second \in Nat \ {0} /\ MaxSync \in Nat /\ MaxTime \in Nat
  /\ MIN_MSEC_TIMESTAMP \in Nat /\ MAX_MSEC_TIMESTAMP \in Nat
  /\ MAX_MSEC_TIMESTAMP <= Second * MIN_MSEC_TIMESTAMP

VARIABLES
  now,              \* CFAbsoluteTimeGetCurrent
  timeliveRefer,    \* the time of the first frame, 0 for none
  timestampRefer,   \* the number of its time stamp, which is taken for seconds
  slept,            \* what the last sync slept
  owed              \* history: how long it should have, its limits allowing

vars == <<now, timeliveRefer, timestampRefer, slept, owed>>

IS_MSEC(msec) == MIN_MSEC_TIMESTAMP < msec /\ msec < MAX_MSEC_TIMESTAMP
Timestamp == MIN_MSEC_TIMESTAMP + 1 .. MAX_MSEC_TIMESTAMP - 1

Init == now = 1 /\ timeliveRefer = 0 /\ timestampRefer = 0 /\ slept = 0 /\ owed = 0

tick == now < MaxTime /\ now' = now + 1 /\ UNCHANGED <<timeliveRefer, timestampRefer, slept, owed>>

\* What the number of a time stamp kept as it is means, being read as seconds.
refer(msec) == Second * msec

\* The time that is left until the frame is due, as the code has it.
takeDiff(msec) == (msec - timestampRefer) - (now - timeliveRefer)

\* The same with both time stamps in one unit.
ahead(msec) == (msec - timestampRefer \div Second) - (now - timeliveRefer)

allowed(time, min, max) == IF min <= time /\ time <= max THEN time ELSE 0

sync(msec, min, max) ==
  \/ /\ ~IS_MSEC(msec)
     /\ slept' = 0 /\ owed' = 0 /\ UNCHANGED <<now, timeliveRefer, timestampRefer>>
  \/ /\ IS_MSEC(msec) /\ timeliveRefer <= 0
     /\ timeliveRefer' = now /\ timestampRefer' = refer(msec)
     /\ slept' = 0 /\ owed' = 0 /\ UNCHANGED now
  \/ /\ IS_MSEC(msec) /\ timeliveRefer > 0
     /\ slept' = allowed(takeDiff(msec), min, max) /\ owed' = allowed(ahead(msec), min, max)
     /\ now' = now + slept' /\ UNCHANGED <<timeliveRefer, timestampRefer>>

reset == timeliveRefer' = 0 /\ timestampRefer' = 0 /\ UNCHANGED <<now, slept, owed>>

Next ==
  \/ tick \/ reset
  \/ \E msec \in MIN_MSEC_TIMESTAMP..MAX_MSEC_TIMESTAMP, max \in 0..MaxSync :
       \E min \in 0..max : sync(msec, min, max)

Spec == Init /\ [][Next]_vars

TypeOK ==
  /\ now \in Nat \ {0} /\ timeliveRefer \in 0..now /\ slept \in Nat /\ owed \in Nat
  /\ IF timeliveRefer = 0 THEN timestampRefer = 0
     ELSE \E first \in Timestamp : timestampRefer = Second * first

\* What XXtimestampSyncer.h:15 and :21 say of sync, that it sleeps: a frame that is ahead of the
\* first one and of the clock, by a time the limits allow, is held for that time.
HoldsFrames == slept = owed

\* What the code does instead: no call of sync ever sleeps, whatever the frames and the limits.
\* The reference is the first time stamp in milliseconds, and a later one in seconds is far
\* below it.
NeverSleeps == slept = 0
================================================================================
