------------------------------- MODULE AATicks -------------------------------
(***************************************************************************)
(* The tick handler and its two lists: aaTick_ wakes the tasks whose delay *)
(* is over (AADelayList), then aaTimerTick_ calls the timers back          *)
(* (AATimer).  A task neither runs nor delays itself meanwhile; handlers   *)
(* of other interrupts, and the call backs, wake tasks and start and stop  *)
(* timers.                                                                 *)
(***************************************************************************)
EXTENDS AATimer

CONSTANTS
  Task,
  Delays       \* the delays asked for

ASSUME TicksAssumption == Delays \subseteq 0 .. Infinite

VARIABLES
  delayed,     \* aaTaskDelayedList
  delay,       \* listNode.value of each task
  expiring     \* aaTick_ is at work on it

D == INSTANCE AADelayList WITH list <- delayed, value <- delay

delays    == <<delayed, delay, expiring>>
ticksVars == <<delays, vars>>

TicksInit == D!Init /\ Init

InTick == expiring \/ scanning

(* Only a task delays itself.                                              *)
DelayCalls == ~ InTick /\ (\E t \in Task, d \in Delays : D!Add(t, d)) /\ UNCHANGED vars

(* What handlers and call backs ask for too.                               *)
WakeCalls  == (\E t \in Task : D!Remove(t)) /\ UNCHANGED vars
TimerCalls ==
  /\ \E t \in Timer : \/ TimerCreate(t) \/ TimerStart(t) \/ TimerStop(t) \/ TimerDelete(t)
                       \/ \E d \in Timeouts : TimerSet(t, d)
  /\ UNCHANGED delays

(* aaTick_: first the delayed tasks, then aaTimerTick_.                    *)
TickBegin  == ~ InTick /\ D!Tick /\ UNCHANGED vars
Expire     == D!Expire /\ UNCHANGED vars
TimerTick  == D!TickEnd /\ Tick
CallBacks  == (Call \/ CallStops \/ CallRestarts \/ TickEnd) /\ UNCHANGED delays

TicksNext == DelayCalls \/ WakeCalls \/ TimerCalls \/ TickBegin \/ Expire \/ TimerTick \/ CallBacks

TicksSpec == TicksInit /\ [][TicksNext]_ticksVars

-----------------------------------------------------------------------------
(* Each task is woken after its own number of ticks, whatever is added to  *)
(* the list or taken out of it meanwhile, in the order of AADelayPromise.  *)
KeepsDelays == D!KeepsPromise
=============================================================================
