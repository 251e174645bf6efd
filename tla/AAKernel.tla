------------------------------ MODULE AAKernel ------------------------------
(***************************************************************************)
(* The AdAstra real-time kernel: the tables of the kernel and its internal *)
(* functions (aakernel.c, and the helpers of aamutex.c and aatask.c that   *)
(* every service shares).                                                  *)
(*                                                                         *)
(* All kernel code runs in critical sections on one core.  What one        *)
(* critical section does to the tables is an operator from tables to       *)
(* tables; the modules AAMutex, AASema, AASignal, AATask and AARtk make    *)
(* the services out of them, one action per critical section.              *)
(***************************************************************************)
EXTENDS AADelays, FiniteSets

CONSTANTS
  Idle,          \* aaTcbArray [0], the idle task
  MaxPrio,       \* AA_PRIO_COUNT - 1
  Mutex, Sem,    \* aaMutexArray, aaSemArray
  Driver,        \* the aaDriverDesc_t of the I/O drivers
  Signal,        \* the bits of aaSignal_t in use
  None,          \* the NULL pointer
  Free           \* MUTEX_FREE_TAG

Prio     == 0 .. MaxPrio
SyncObj  == Mutex \cup Sem \cup Driver      \* what has a waiting list
Counted  == Mutex \cup Sem                  \* what has a count
Flag     == {"DELAYTMO", "FLUSH", "SIGNALAND", "SUSPEND"}
State    == {"none", "ready", "delayed", "suspended",
             "mutexWait", "semWait", "signalWait", "ioWait"}

ASSUME KernelAssumption ==
  /\ IsFiniteSet(Task) /\ Idle \in Task
  /\ MaxPrio \in Nat \ {0}
  /\ Mutex \cap Sem = {} /\ Mutex \cap Driver = {} /\ Sem \cap Driver = {}
  /\ None \notin Task \cup SyncObj /\ Free \notin Task \cup {None}

VARIABLES
  k,     \* the kernel tables
  pc,    \* per task: the blocking call it is inside of
  arg,   \* per task: the object or task that call is about (a local of the C call)
  isr,   \* aaInIsrCounter: "none", or the handler that runs
  flushing  \* the semaphore an aaSemFlush critical section is emptying, or None

vars == <<k, pc, arg, isr, flushing>>

(* The TCB fields, then the lists, then the synchronisation objects.       *)
Tables ==
  [ cur          : Task,                         \* pAaCurrentTcb
    sched        : BOOLEAN,                      \* bRequestSchedule
    state        : [Task -> State],
    priority     : [Task -> Prio],
    basePriority : [Task -> Prio],
    flags        : [Task -> SUBSET Flag],
    objPtr       : [Task -> SyncObj \cup {None} \cup SUBSET Signal],
    waitValue    : [Task -> Prio],               \* waitNode.value
    sigsWait     : [Task -> SUBSET Signal],
    sigsRecv     : [Task -> SUBSET Signal],
    mutexList    : [Task -> SUBSET Mutex],
    ready        : [Prio -> Seq(Task)],          \* aaTaskReadyList
    prioGroup    : SUBSET Prio,                  \* aaPrioGroup: the bits that are set
    suspended    : SUBSET Task,                  \* aaTaskSuspendedList
    delayed      : Seq(Task),                    \* aaTaskDelayedList
    delay        : [Task -> 0 .. Infinite],      \* ticks left of a delayed task
    zombies      : Seq(Task),                    \* aaTaskDeleteList
    freeTcb      : SUBSET Task,                  \* aaTaskFreeList
    waitingList  : [SyncObj -> Seq(Task)],
    pOwner       : [Mutex -> Task \cup {None, Free}],
    count        : [Counted -> Int],
    semUsed      : SUBSET Sem ]                  \* flags & AA_SEMTYPE_SEM_

Call == {"run", "mutexTake", "semTake", "signalWait", "delay", "delayForever",
         "semDelete", "ioWait", "ioWaitForever", "delete", "create", "reap"}

-----------------------------------------------------------------------------
(* Scheduling                                                              *)

(* aaGetHighestPrio looks at the bit map, not at the lists.                *)
HighestPrio(s) == CHOOSE p \in s.prioGroup : \A q \in s.prioGroup : q <= p

(* aaSchedule_, aaIntExit and the switch itself (aaTaskSwitch_).           *)
Schedule(s) == [s EXCEPT !.cur = Head(s.ready[HighestPrio(s)]), !.sched = FALSE]

(* The end of most services: switch only if bRequestSchedule says so.      *)
ScheduleIf(s) == IF s.sched THEN Schedule(s) ELSE s

(* aaRemoveReady_ clears the bit of a list that holds one task only.       *)
RemoveReady(s, t) ==
  LET p == s.priority[t]
  IN  [s EXCEPT !.prioGroup = IF Len(s.ready[p]) = 1 THEN @ \ {p} ELSE @,
                !.ready[p] = ListRemove(@, t)]

(* aaAddReady_                                                             *)
AddReady(s, t) == [s EXCEPT !.state[t] = "ready",
                            !.prioGroup = @ \cup {s.priority[t]},
                            !.ready[s.priority[t]] = Append(@, t)]

Suspend(s, t) == [s EXCEPT !.state[t] = "suspended",
                           !.suspended = @ \cup {t}]

(* aaTcbPutInList_                                                         *)
PutInList(s, t) ==
  IF "SUSPEND" \in s.flags[t]
  THEN [Suspend(s, t) EXCEPT !.flags[t] = @ \ {"SUSPEND"}, !.sched = FALSE]
  ELSE [AddReady(s, t) EXCEPT !.sched = s.priority[t] > s.priority[s.cur]]

-----------------------------------------------------------------------------
(* Priorities                                                              *)

(* The lists a priority change reorders: mutex and semaphore waiters.      *)
InOrderedList(s, t) == s.state[t] \in {"mutexWait", "semWait"}

Reinsert(list, value, t) == AddOrdered(ListRemove(list, t), value, t)

(* The scan of aaMutexNewPrio_ over the owned mutexes.  It is entered when *)
(* aaListIsEmpty (& pTask->mutexList) == 1, so it only sees an empty list. *)
ScannedMutexes(s, t) == IF s.mutexList[t] = {} THEN s.mutexList[t] ELSE {}

HighestWaiting(s, t) ==
  LET heads == {s.waitValue[Head(s.waitingList[m])] :
                  m \in {n \in ScannedMutexes(s, t) : s.waitingList[n] # << >>}}
  IN  CHOOSE p \in heads \cup {s.basePriority[t]} :
        \A q \in heads \cup {s.basePriority[t]} : q <= p

(* Faults: the inherited priority is kept; a waiter keeps its place.       *)
NewPrioNever(s, t) == [s EXCEPT !.sched = FALSE]
NewPrioUnsorted(s, t) ==
  IF s.state[t] = "ready"
  THEN [AddReady([RemoveReady(s, t) EXCEPT !.priority[t] = HighestWaiting(s, t)], t)
          EXCEPT !.sched = TRUE]
  ELSE [s EXCEPT !.priority[t] = HighestWaiting(s, t), !.sched = FALSE]

(* aaMutexNewPrio_                                                         *)
NewPrio(s, t) ==
  LET p     == HighestWaiting(s, t)
      value == [s.waitValue EXCEPT ![t] = p]
      moved == [RemoveReady(s, t) EXCEPT !.priority[t] = p]
  IN  IF p = s.priority[t] THEN [s EXCEPT !.sched = FALSE]
      ELSE IF s.state[t] = "ready" THEN [AddReady(moved, t) EXCEPT !.sched = TRUE]
      ELSE IF InOrderedList(s, t)
           THEN [s EXCEPT !.priority[t] = p, !.waitValue = value, !.sched = FALSE,
                          !.waitingList[s.objPtr[t]] = Reinsert(@, value, t)]
           ELSE [s EXCEPT !.priority[t] = p, !.sched = FALSE]

(* Fault: the comparison of the loop is the other way round.               *)
RaisedLess(s, t) == {o \in Task : /\ s.priority[o] > s.priority[t]
                                  /\ s.pOwner[s.objPtr[t]] = o}

(* The owners aaMutexPropagate_ raises to the priority of t: the owner of  *)
(* the mutex t asks for, then, as long as the last one raised waits for a  *)
(* mutex itself, the owner of that one; an owner of at least that priority *)
(* ends the walk.  It is the least set closed under such steps.            *)
LowerOwners(s, t, S) == {o \in Task : /\ s.priority[o] < s.priority[t]
                                      /\ \E u \in S : s.pOwner[s.objPtr[u]] = o}

WalkClosed(s, t, U) ==
  LowerOwners(s, t, {t} \cup {u \in U : s.state[u] = "mutexWait"}) \subseteq U

Raised(s, t) ==
  {o \in Task : \A U \in SUBSET Task : WalkClosed(s, t, U) => o \in U}

(* The owners raised take the priority p.  One that waits is put again in  *)
(* its waiting list, with the value its node had: only priority is updated.*)
Relisted(s, up, x) == {o \in up : InOrderedList(s, o) /\ s.objPtr[o] = x}

Lend(s, up, p) ==
  [s EXCEPT
    !.priority = [o \in Task |-> IF o \in up THEN p ELSE @[o]],
    !.waitingList = [x \in SyncObj |->
       IF Relisted(s, up, x) = {} THEN @[x]
       ELSE Reinsert(@[x], s.waitValue, CHOOSE o \in Relisted(s, up, x) : TRUE)]]

(* aaMutexPropagate_.  At most one of the owners raised is ready: the walk *)
(* ends there.                                                             *)
Propagate(s, t) ==
  LET up    == Raised(s, t)
      moved == {o \in up : s.state[o] = "ready"}
      ready == CHOOSE o \in moved : TRUE
  IN  IF moved = {} THEN Lend(s, up, s.priority[t])
      ELSE AddReady(Lend(RemoveReady(s, ready), up, s.priority[t]), ready)

-----------------------------------------------------------------------------
(* Leaving a wait                                                          *)

Unlist(s, t) == [s EXCEPT !.waitingList[s.objPtr[t]] = ListRemove(@, t)]

InheritsFrom(s, o, t) == /\ s.priority[o] = s.priority[t]
                         /\ s.priority[o] # s.basePriority[o]

(* aaRemoveTaskFromLists_                                                  *)
RemoveFromLists(s, t) ==
  LET u == IF t \in Range(s.delayed) THEN RemoveFromDelayed(s, t) ELSE s
      o == s.pOwner[s.objPtr[t]]
      v == IF s.state[t] = "mutexWait" /\ InheritsFrom(s, o, t)
           THEN NewPrio(Unlist(u, t), o) ELSE Unlist(u, t)
  IN  IF InOrderedList(s, t) THEN [v EXCEPT !.objPtr[t] = None]
      ELSE IF s.state[t] = "ioWait" THEN Unlist(u, t)
      ELSE u

(* Fault: the cause is not noted.                                          *)
WakeByTimeoutUntold(s, t) == PutInList(RemoveFromLists(s, t), t)

(* Wake t because its delay is over or aaTaskWakeUp says so.               *)
WakeByTimeout(s, t) ==
  PutInList([RemoveFromLists(s, t) EXCEPT !.flags[t] = @ \cup {"DELAYTMO"}], t)

(* Hand what was waited for to the task at the head of a waiting list.     *)
WakeFirst(s, x) ==
  LET t == Head(s.waitingList[x])
  IN  PutInList(RemoveFromDelayed([s EXCEPT !.waitingList[x] = Tail(@),
                                            !.objPtr[t] = None], t), t)

-----------------------------------------------------------------------------
(* Task-level steps: the running task, outside of any blocking call.       *)

TaskLevel     == isr = "none" /\ flushing = None
Runs(t)       == TaskLevel /\ t = k.cur /\ t # Idle /\ pc[t] = "run"
Resumes(t, c) == TaskLevel /\ t = k.cur /\ pc[t] = c

(* A handler can start whenever interrupts are enabled: at task level, and *)
(* in the gaps the tick handler leaves between two expired delays.         *)
Interruptible == flushing = None

(* The end of a call that did not block: stay in the program.              *)
Stays == UNCHANGED <<pc, arg, isr, flushing>>

(* Block the running task t inside call c about object x.                  *)
Blocks(t, c, x) == /\ pc'  = [pc EXCEPT ![t] = c]
                   /\ arg' = [arg EXCEPT ![t] = x]
                   /\ UNCHANGED <<isr, flushing>>

Returns(t) == Blocks(t, "run", None)

(* A service that interrupt handlers may call too: from a task it ends in  *)
(* ScheduleIf, from a handler in aaIntExit, and nested in the tick handler *)
(* the switch is left to the end of the outer handler.                     *)
CalledFromTask(s) == k' = ScheduleIf(s) /\ Stays
CalledFromIsrNoSwitch(s) == Interruptible /\ k' = s /\ Stays  \* Fault
CalledFromIsr(s)  == /\ Interruptible
                     /\ k' = IF isr = "none" THEN Schedule(s)
                                             ELSE [s EXCEPT !.sched = FALSE]
                     /\ Stays

TypeOK ==
  /\ k \in Tables
  /\ pc \in [Task -> Call]
  /\ arg \in [Task -> SyncObj \cup Task \cup {None}]
  /\ isr \in {"none", "tick", "other"}
  /\ flushing \in Sem \cup {None}
=============================================================================
