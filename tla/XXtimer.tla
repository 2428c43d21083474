-------------------------------- MODULE XXtimer --------------------------------
(***************************************************************************)
(* The timer of Objective-C/Utility/XXtimer.m on GCD timer sources.  The   *)
(* owner is the main thread.  The handler of a source runs on a global     *)
(* queue, never twice at once; cancelling a source keeps its handler from  *)
(* being called again but does not wait for the call that is under way,    *)
(* and so does giving up the last reference to it.  A handler of an        *)
(* earlier start may meet the next one, and that of a single shot stops    *)
(* the timer on its own thread, step by step beside the owner.             *)
(***************************************************************************)
EXTENDS Integers, Sequences

CONSTANTS
  MaxStart,     \* bound: calls of start
  MaxTick       \* bound: the index up to which handlers are called

VARIABLES
  timer,            \* _timer: the source of a start, or 0
  isRunning, index, singleShot,
  isMainThreadBlock,
  pc,               \* where the owner and the handler of every source are
  returnTo,         \* where the owner goes after stop
  starts,           \* sources made
  resumed, cancelled,   \* the sources that were
  mainQueue,        \* sources whose onTimeout waits for the main thread
  told,             \* the indexes onTimeout was given since start, unless late
  stopped,          \* the owner called stop or resetDelay since start
  late,             \* a handler or a block of an earlier start met this one
  wasSingle         \* the timer has been a single shot

settings == <<singleShot, isMainThreadBlock, wasSingle>>
sources == <<starts, resumed, cancelled>>
news == <<mainQueue, told, stopped, late>>
vars == <<timer, isRunning, index, settings, pc, returnTo, sources, news>>

Source == 1..MaxStart
Owner == 0

Init ==
  /\ timer = 0 /\ isRunning = FALSE /\ index = 0
  /\ singleShot = FALSE /\ isMainThreadBlock = FALSE /\ wasSingle = FALSE
  /\ pc = [t \in {Owner} \cup Source |-> IF t = Owner THEN "New" ELSE "Idle"] /\ returnTo = "Idle"
  /\ starts = 0 /\ resumed = {} /\ cancelled = {}
  /\ mainQueue = <<>> /\ told = <<>> /\ stopped = FALSE /\ late = FALSE

at(t, place) == pc[t] = place
go(t, place) == pc' = [pc EXCEPT ![t] = place]

create(once, onMain) ==
  /\ at(Owner, "New") /\ go(Owner, "Idle")
  /\ singleShot' = once /\ isMainThreadBlock' = onMain /\ wasSingle' = once
  /\ UNCHANGED <<timer, isRunning, index, returnTo, sources, news>>

(***************************************************************************)
(* stop, by the owner or by a handler t                                    *)
(***************************************************************************)

stopTest(t) ==
  /\ at(t, "Test") /\ go(t, IF timer # 0 THEN "Cancel" ELSE "Flag")
  /\ UNCHANGED <<timer, isRunning, index, settings, returnTo, sources, news>>

\* dispatch_source_cancel does not survive nil: the other thread has been here, too.
stopCancel(t) ==
  /\ at(t, "Cancel")
  /\ IF timer = 0 THEN go(t, "Crashed") /\ UNCHANGED cancelled
     ELSE go(t, "Nil") /\ cancelled' = cancelled \cup {timer}
  /\ UNCHANGED <<timer, isRunning, index, settings, returnTo, starts, resumed, news>>

\* A source nobody refers to is as good as cancelled.
assign(source) == timer' = source /\ cancelled' = cancelled \cup ({timer} \ {0})

stopNil(t) ==
  /\ at(t, "Nil") /\ go(t, "Flag") /\ assign(0)
  /\ UNCHANGED <<isRunning, index, settings, returnTo, starts, resumed, news>>

stopFlag(t) ==
  /\ at(t, "Flag") /\ go(t, IF t = Owner THEN returnTo ELSE "Tell") /\ isRunning' = FALSE
  /\ UNCHANGED <<timer, index, settings, returnTo, sources, news>>

stopping(t) == stopTest(t) \/ stopCancel(t) \/ stopNil(t) \/ stopFlag(t)

(***************************************************************************)
(* The owner                                                               *)
(***************************************************************************)

stop ==
  /\ at(Owner, "Idle") /\ go(Owner, "Test") /\ returnTo' = "Idle" /\ stopped' = TRUE
  /\ UNCHANGED <<timer, isRunning, index, settings, sources, mainQueue, told, late>>

resetDelay(once) ==
  /\ at(Owner, "Idle") /\ go(Owner, "Test") /\ stopped' = TRUE
  /\ returnTo' = IF once THEN "Single" ELSE "Repeated"
  /\ UNCHANGED <<timer, isRunning, index, settings, sources, mainQueue, told, late>>

resetSettings ==
  /\ pc[Owner] \in {"Single", "Repeated"} /\ go(Owner, "Idle")
  /\ singleShot' = at(Owner, "Single") /\ wasSingle' = (wasSingle \/ singleShot')
  /\ UNCHANGED <<timer, isRunning, index, isMainThreadBlock, returnTo, sources, news>>

\* Variant: a restart leaves the source that runs as it is.
isOld_No == FALSE
isOld == timer # 0

start ==
  /\ at(Owner, "Idle") /\ starts < MaxStart
  /\ go(Owner, IF isOld THEN "Test" ELSE "Reset") /\ returnTo' = "Reset"
  /\ UNCHANGED <<timer, isRunning, index, settings, sources, news>>

startReset ==
  /\ at(Owner, "Reset") /\ go(Owner, "Make") /\ index' = -2
  /\ told' = <<>> /\ stopped' = FALSE
  /\ late' = (mainQueue # <<>> \/ \E s \in Source : pc[s] # "Idle")
  /\ UNCHANGED <<timer, isRunning, settings, returnTo, sources, mainQueue>>

startMake ==
  /\ at(Owner, "Make") /\ go(Owner, "Resume") /\ starts' = starts + 1 /\ assign(starts + 1)
  /\ UNCHANGED <<isRunning, index, settings, returnTo, resumed, news>>

\* Variant: the new source is left suspended.
unsuspend_Not == UNCHANGED resumed
unsuspend == resumed' = resumed \cup {timer}

\* dispatch_resume does not survive nil, either.
startResume ==
  /\ at(Owner, "Resume")
  /\ IF timer = 0 THEN go(Owner, "Crashed") /\ UNCHANGED resumed
     ELSE go(Owner, "Run") /\ unsuspend
  /\ UNCHANGED <<timer, isRunning, index, settings, returnTo, starts, cancelled, news>>

startRun ==
  /\ at(Owner, "Run") /\ go(Owner, "Idle") /\ isRunning' = TRUE
  /\ UNCHANGED <<timer, index, settings, returnTo, sources, news>>

returns == stopping(Owner) \/ resetSettings \/ startReset \/ startMake \/ startResume \/ startRun

(***************************************************************************)
(* The handler of a source s                                               *)
(***************************************************************************)

live == resumed \ cancelled

invoke(s) ==
  /\ s \in live /\ at(s, "Idle") /\ index < MaxTick /\ go(s, "Called")
  /\ UNCHANGED <<timer, isRunning, index, settings, returnTo, sources, news>>

count(s) ==
  /\ at(s, "Called") /\ go(s, "Counted") /\ index' = index + 1
  /\ UNCHANGED <<timer, isRunning, settings, returnTo, sources, news>>

\* Variant: the end of the delay counts as a timeout.
isDelay_None == FALSE
\* The source fires at the end of the delay first: index -1 is no timeout.
isDelay == index < 0

delayed(s) ==
  /\ at(s, "Counted") /\ go(s, IF isDelay THEN "Idle" ELSE "Timeout")
  /\ UNCHANGED <<timer, isRunning, index, settings, returnTo, sources, news>>

\* Variant: a single shot does not stop.
once_Never == FALSE
once == singleShot

\* A single shot stops the timer: the source that is the timer's by then.
timeout(s) ==
  /\ at(s, "Timeout") /\ go(s, IF once THEN "Test" ELSE "Tell")
  /\ UNCHANGED <<timer, isRunning, index, settings, returnTo, sources, news>>

\* onTimeout is given the index as it is by now.
onTimeout == told' = IF late THEN told ELSE Append(told, index)

tell(s) ==
  /\ at(s, "Tell") /\ go(s, "Idle")
  /\ IF isMainThreadBlock THEN mainQueue' = Append(mainQueue, s) /\ UNCHANGED told
     ELSE onTimeout /\ UNCHANGED mainQueue
  /\ UNCHANGED <<timer, isRunning, index, settings, returnTo, sources, stopped, late>>

runs(s) == count(s) \/ delayed(s) \/ timeout(s) \/ stopping(s) \/ tell(s)

mainBlock ==
  /\ at(Owner, "Idle") /\ mainQueue # <<>>
  /\ mainQueue' = Tail(mainQueue) /\ onTimeout
  /\ UNCHANGED <<timer, isRunning, index, settings, pc, returnTo, sources, stopped, late>>

(***************************************************************************)

alive == \A t \in {Owner} \cup Source : ~at(t, "Crashed")

Next ==
  /\ alive
  /\ \/ \E s, m \in BOOLEAN : create(s, m)
     \/ \E s \in BOOLEAN : resetDelay(s)
     \/ start \/ stop \/ returns \/ mainBlock
     \/ \E s \in Source : invoke(s) \/ runs(s)

\* GCD calls the handlers of live sources, what was begun goes on, and what is queued is run.
Fairness ==
  /\ WF_vars(alive /\ returns) /\ WF_vars(alive /\ mainBlock)
  /\ WF_vars(alive /\ \E s \in Source : invoke(s)) /\ WF_vars(alive /\ \E s \in Source : runs(s))

Spec == Init /\ [][Next]_vars /\ Fairness

Place == {"New", "Idle", "Test", "Cancel", "Nil", "Flag", "Single", "Repeated", "Reset", "Make",
          "Resume", "Run", "Called", "Counted", "Timeout", "Tell", "Crashed"}

TypeOK ==
  /\ timer \in Source \cup {0} /\ isRunning \in BOOLEAN /\ index \in Int
  /\ singleShot \in BOOLEAN /\ isMainThreadBlock \in BOOLEAN /\ wasSingle \in BOOLEAN
  /\ pc \in [{Owner} \cup Source -> Place] /\ returnTo \in {"Idle", "Single", "Repeated", "Reset"}
  /\ starts \in 0..MaxStart /\ resumed \subseteq Source /\ cancelled \subseteq Source
  /\ mainQueue \in Seq(Source) /\ told \in Seq(Int)
  /\ stopped \in BOOLEAN /\ late \in BOOLEAN

\* Unless a handler of an earlier start is still under way, onTimeout is given 0, 1, 2, ...;
\* a single shot is given once.  On the main thread an index may be that of a later timeout.
InOrder ==
  ~late =>
    /\ \A i \in DOMAIN told : IF isMainThreadBlock THEN told[i] \in i - 1..index
                              ELSE told[i] = i - 1
    /\ singleShot /\ ~stopped => Len(told) <= 1

\* Between the owner's calls isRunning tells whether the timer has a source that fires, late
\* handlers or not, if it never was a single shot; one that is may have expired before start
\* came to set the flag, and this is the only way, late handlers apart.
FlagTells ==
  at(Owner, "Idle") =>
    /\ ~wasSingle => (isRunning <=> timer # 0) /\ (timer # 0 => timer \in live)
    /\ ~late => (timer # 0 => isRunning) /\ (isRunning /\ timer = 0 => singleShot /\ index >= 0)

\* Only a timer that was a single shot can end the process: its handler's stop meets the owner's
\* stop or start.
CrashesSingle == ~wasSingle => alive

TimerSound == TypeOK /\ InOrder /\ FlagTells /\ CrashesSingle

\* A timer that runs times out, unless it is stopped, started anew or a late handler comes.
TimesOut == isRunning ~> (told # <<>> \/ stopped \/ ~at(Owner, "Idle") \/ late)
================================================================================
