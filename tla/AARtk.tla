------------------------------- MODULE AARtk -------------------------------
(***************************************************************************)
(* The whole kernel: tasks that may make any call at any time, the tick    *)
(* interrupt (aaTick_, aakernel.c) and the handlers that give semaphores,  *)
(* send signals and end I/O.                                               *)
(***************************************************************************)
EXTENDS AATask

CONSTANTS
  StartPrio,     \* [Task -> Prio], the priorities the tasks start with
  StartTasks,    \* the tasks created before the kernel starts
  StartMutexes,  \* the mutexes created before the kernel starts
  StartCount     \* [Sem -> Int], the counts the semaphores start with

ASSUME StartAssumption ==
  /\ StartPrio \in [Task -> Prio]
  /\ \A t \in Task : StartPrio[t] = 0 <=> t = Idle
  /\ StartTasks \subseteq Task /\ Idle \in StartTasks
  /\ StartCount \in [Sem -> Int]

-----------------------------------------------------------------------------
(* aaTick_: one tick less for the finite delays, then one critical section *)
(* per expired task; the first shares the critical section of the count.   *)

Expire(s) == IF Expired(s) THEN WakeByTimeout(s, Head(s.delayed)) ELSE s

Tick == /\ isr = "none" /\ flushing = None
        /\ k' = Expire(CountDown(k))
        /\ isr' = "tick"
        /\ UNCHANGED <<pc, arg, flushing>>

TickExpire == /\ isr = "tick" /\ flushing = None
              /\ Expired(k)
              /\ k' = Expire(k)
              /\ Stays

(* aaIntExit of the tick handler.                                          *)
TickEnd == /\ isr = "tick" /\ flushing = None
           /\ ~ Expired(k)
           /\ k' = Schedule(k)
           /\ isr' = "none"
           /\ UNCHANGED <<pc, arg, flushing>>

TickNext == Tick \/ TickExpire \/ TickEnd

-----------------------------------------------------------------------------
(* aaInit_ and aaStart_: the start tasks are ready, the first one of the   *)
(* highest priority runs.                                                  *)
StartReady(p) == SE!SetToSeq({t \in StartTasks : StartPrio[t] = p})

StartTables ==
  [ cur |-> Idle, sched |-> FALSE,
    state |-> [t \in Task |-> IF t \in StartTasks THEN "ready" ELSE "none"],
    priority |-> StartPrio, basePriority |-> StartPrio,
    flags |-> [t \in Task |-> {}], objPtr |-> [t \in Task |-> None],
    waitValue |-> [t \in Task |-> 0],
    sigsWait |-> [t \in Task |-> {}], sigsRecv |-> [t \in Task |-> {}],
    mutexList |-> [t \in Task |-> {}],
    ready |-> [p \in Prio |-> StartReady(p)],
    prioGroup |-> {StartPrio[t] : t \in StartTasks},
    suspended |-> {}, delayed |-> << >>, delay |-> [t \in Task |-> 0],
    zombies |-> << >>, freeTcb |-> Task \ StartTasks,
    waitingList |-> [x \in SyncObj |-> << >>],
    pOwner |-> [m \in Mutex |-> IF m \in StartMutexes THEN None ELSE Free],
    count |-> [x \in Counted |-> IF x \in Sem THEN StartCount[x] ELSE 0],
    semUsed |-> Sem ]

Init == /\ k = Schedule(StartTables)
        /\ pc = [t \in Task |-> "run"]
        /\ arg = [t \in Task |-> None]
        /\ isr = "none" /\ flushing = None

Next == MutexNext \/ SemNext \/ SignalNext \/ TaskNext \/ TickNext

Spec == Init /\ [][Next]_vars
=============================================================================
