------------------------------ MODULE AATimer ------------------------------
(***************************************************************************)
(* The software timers (aatimer.c): a list of differences like the one of  *)
(* the delayed tasks, walked by the tick handler, which calls back outside *)
(* of the critical section.  The call back and, while it runs, handlers of *)
(* other interrupts may start and stop timers.  A call back that starts    *)
(* or deletes its own timer answers 0.  Nobody uses a timer while another  *)
(* task deletes it.                                                        *)
(***************************************************************************)
EXTENDS AALists

CONSTANTS
  Timer,       \* aaTimers
  Timeouts,    \* the time-outs aaTimerSet is called with
  Infinite,    \* AA_INFINITE: the time-out of a free timer
  None         \* no timer

ASSUME TimerAssumption ==
  /\ Infinite \in Nat \ {0}
  /\ Timeouts \subseteq 1 .. Infinite - 1
  /\ None \notin Timer

VARIABLES
  list,        \* aaTimerList
  value,       \* node.value: the difference, or the index of a free timer
  timeout,     \* per timer
  fn,          \* the timers whose call back is set: node.ptr.pFn
  scanning,    \* aaTimerTick_ is at work
  calling      \* the timer whose call back runs, or None

vars == <<list, value, timeout, fn, scanning, calling>>

Index == 0       \* the index that a free timer has in node.value; any number

TypeOK ==
  /\ list \in Seq(Timer) /\ NoRepeat(list)
  /\ value \in [Timer -> 0 .. Infinite]
  /\ timeout \in [Timer -> 1 .. Infinite]
  /\ fn \subseteq Timer /\ scanning \in BOOLEAN
  /\ calling \in Timer \cup {None}

(* aaTimerInit_; aaTimers is not initialised data, pFn is set by Create.   *)
Init == /\ list = << >>
        /\ value = [t \in Timer |-> Index]
        /\ timeout = [t \in Timer |-> Infinite]
        /\ fn = {} /\ scanning = FALSE /\ calling = None

Allocated(t) == timeout[t] # Infinite
InUse(t)     == t \in Range(list)

-----------------------------------------------------------------------------
(* aaAddToTimerList_, on a list l of nodes with the values v: the walk as  *)
(* in AADelayList.                                                         *)
Added(l, v, t) ==
  LET rest[i \in 0 .. Len(l)] == IF i = 0 THEN timeout[t] ELSE rest[i-1] - v[l[i]]
      stops == {i \in 0 .. Len(l) - 1 : rest[i] <= v[l[i+1]]}
      place == IF stops = {} THEN Len(l) ELSE Least(stops)
      shift == [v EXCEPT ![t] = rest[place]]
  IN  /\ list'  = InsertAt(l, place + 1, t)
      /\ value' = IF place < Len(l) THEN [shift EXCEPT ![l[place+1]] = @ - rest[place]]
                                    ELSE shift

(* Fault: the time of the timer that goes is lost for the next one.        *)
HandedOnNot(t) == value

(* The next timer gets the time of the one that is taken out.              *)
HandedOn(t) ==
  LET i == CHOOSE j \in DOMAIN list : list[j] = t
  IN  IF i < Len(list) THEN [value EXCEPT ![list[i+1]] = @ + value[t]] ELSE value

TimerCreate(t) ==
  /\ ~ Allocated(t)
  /\ timeout' = [timeout EXCEPT ![t] = 1] /\ fn' = fn \ {t}
  /\ UNCHANGED <<list, value, scanning, calling>>

TimerSet(t, d) ==
  /\ Allocated(t) /\ ~ InUse(t)
  /\ timeout' = [timeout EXCEPT ![t] = d] /\ fn' = fn \cup {t}
  /\ UNCHANGED <<list, value, scanning, calling>>

(* Fault: a running timer is not taken out first.                          *)
TimerStartTwice(t) ==
  /\ Allocated(t) /\ t \in fn
  /\ Added(list, value, t)
  /\ UNCHANGED <<timeout, fn, scanning, calling>>

TimerStart(t) ==
  /\ Allocated(t) /\ t \in fn
  /\ IF InUse(t) THEN Added(ListRemove(list, t), HandedOn(t), t) ELSE Added(list, value, t)
  /\ UNCHANGED <<timeout, fn, scanning, calling>>

TimerStop(t) ==
  /\ InUse(t)
  /\ list' = ListRemove(list, t) /\ value' = HandedOn(t)
  /\ UNCHANGED <<timeout, fn, scanning, calling>>

(* aaTimerStop, then free.                                                 *)
TimerDelete(t) ==
  /\ Allocated(t)
  /\ list' = ListRemove(list, t)
  /\ value' = [IF InUse(t) THEN HandedOn(t) ELSE value EXCEPT ![t] = Index]
  /\ timeout' = [timeout EXCEPT ![t] = Infinite]
  /\ UNCHANGED <<fn, scanning, calling>>

-----------------------------------------------------------------------------
(* aaTimerTick_                                                            *)
Tick == /\ ~ scanning
        /\ value' = IF list = << >> THEN value ELSE [value EXCEPT ![Head(list)] = @ - 1]
        /\ scanning' = TRUE
        /\ UNCHANGED <<list, timeout, fn, calling>>

Call == /\ scanning /\ calling = None
        /\ list # << >> /\ value[Head(list)] = 0
        /\ list' = Tail(list) /\ calling' = Head(list)
        /\ UNCHANGED <<value, timeout, fn, scanning>>

(* The call back answers 0, or not 0: start again.                         *)
CallStops    == /\ calling # None /\ calling' = None
                /\ UNCHANGED <<list, value, timeout, fn, scanning>>
CallRestarts == /\ calling # None /\ calling \in fn /\ ~ InUse(calling)
                /\ Allocated(calling)
                /\ Added(list, value, calling) /\ calling' = None
                /\ UNCHANGED <<timeout, fn, scanning>>

TickEnd == /\ scanning /\ calling = None
           /\ list # << >> => value[Head(list)] # 0
           /\ scanning' = FALSE
           /\ UNCHANGED <<list, value, timeout, fn, calling>>

Next == \/ \E t \in Timer : \/ TimerCreate(t) \/ TimerStart(t) \/ TimerStop(t)
                            \/ TimerDelete(t)
                            \/ \E d \in Timeouts : TimerSet(t, d)
        \/ Tick \/ Call \/ CallStops \/ CallRestarts \/ TickEnd

Spec == Init /\ [][Next]_vars

-----------------------------------------------------------------------------
(* A started timer calls back exactly its time-out later, whatever is      *)
(* started, stopped or called back meanwhile.                              *)
Left == LET sum[i \in 0 .. Len(list)] ==
              IF i = 0 THEN 0 ELSE sum[i-1] + value[list[i]]
        IN  [t \in Timer |-> IF InUse(t)
                             THEN sum[CHOOSE i \in DOMAIN list : list[i] = t] ELSE -1]

Promise == INSTANCE AATimerPromise WITH left <- Left
KeepsPromise == Promise!Spec
=============================================================================
