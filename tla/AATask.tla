------------------------------- MODULE AATask -------------------------------
(***************************************************************************)
(* Task management (aatask.c) and waiting for an I/O driver (aaIoWait and  *)
(* aaIoResume of aakernel.c).                                              *)
(***************************************************************************)
EXTENDS AASignal

CONSTANTS
  TaskDelays,    \* what aaTaskDelay is called with
  IoDelays,      \* the time-outs given to aaIoWait; 0 waits for ever
  NewPrios,      \* the priorities aaTaskSetPriority and aaTaskCreate are called with
  TaskControl    \* which of "create", "delete", "suspend", "wakeUp",
                 \* "setPriority", "yield" are called

ASSUME TaskAssumption ==
  /\ TaskDelays \subseteq 0 .. Infinite
  /\ IoDelays \subseteq 0 .. Infinite
  /\ NewPrios \subseteq 1 .. MaxPrio

Last(list) == list[Len(list)]

(* aaTaskGetTcb_ finds the task; the calls refuse the idle task.           *)
Exists(v) == k.state[v] # "none"

(* aaTaskYield: behind the other ready tasks of its priority, if any.      *)
TaskYield(t) ==
  /\ "yield" \in TaskControl
  /\ Runs(t) /\ Len(k.ready[k.priority[t]]) > 1
  /\ k' = Schedule(AddReady(RemoveReady(k, t), t))
  /\ Stays

(* aaTaskDelay, and its end.  A delay of 0 leaves the task in no list: it  *)
(* sleeps until aaTaskWakeUp.                                              *)
TaskDelay(t, d) ==
  /\ Runs(t)
  /\ k' = Schedule(AddToDelayed([RemoveReady(k, t) EXCEPT !.state[t] = "delayed"], t, d))
  /\ Blocks(t, IF d = 0 THEN "delayForever" ELSE "delay", None)

TaskDelayEnd(t) ==
  /\ Resumes(t, "delay") \/ Resumes(t, "delayForever")
  /\ k' = [k EXCEPT !.flags[t] = @ \ {"DELAYTMO"}]
  /\ Returns(t)

(* aaTaskWakeUp                                                            *)
Asleep(v) == k.state[v] \notin {"ready", "suspended", "none"}

TaskWakeUp(t, v) ==
  /\ "wakeUp" \in TaskControl
  /\ Runs(t) /\ Asleep(v)
  /\ CalledFromTask(WakeByTimeout(k, v))

(* aaTaskSetPriority                                                       *)
TaskSetPriority(t, v, p) ==
  LET s == NewPrio([k EXCEPT !.basePriority[v] = p], v)
  IN  /\ "setPriority" \in TaskControl
      /\ Runs(t) /\ Exists(v) /\ k.basePriority[v] # 0
      /\ k' = Schedule(IF s.state[v] = "mutexWait" THEN Propagate(s, v) ELSE s)
      /\ Stays

(* aaTaskSuspend: a ready task at once, any other when its wait is over.   *)
TaskSuspend(t, v) ==
  LET s == IF k.state[v] = "ready" THEN Suspend(RemoveReady(k, v), v)
           ELSE [k EXCEPT !.flags[v] = @ \cup {"SUSPEND"}]
  IN  /\ "suspend" \in TaskControl
      /\ Runs(t) /\ Exists(v) /\ v # Idle
      /\ k' = IF v = t THEN Schedule(s) ELSE s
      /\ Stays

(* aaTaskResume                                                            *)
TaskResume(t, v) ==
  LET s == IF k.state[v] = "suspended"
           THEN [AddReady([k EXCEPT !.suspended = @ \ {v}], v)
                   EXCEPT !.sched = k.priority[v] > k.priority[t]]
           ELSE [k EXCEPT !.flags[v] = @ \ {"SUSPEND"}]
  IN  /\ "suspend" \in TaskControl
      /\ Runs(t) /\ Exists(v) /\ v # t
      /\ CalledFromTask(s)

(* Fault: the task stays in the lists of what it waits for.                *)
DeletedListed(s, v) ==
  [ IF s.state[v] = "ready" THEN RemoveReady(s, v) ELSE s
    EXCEPT !.state[v] = "none", !.sched = FALSE ]

(* aaTaskDelete: the task leaves its list; a task that deletes itself is   *)
(* left to aaTaskFreeZombies_, the stack of another one is freed outside   *)
(* of the critical section, and its TCB listed in a second one.            *)
Deleted(s, v) ==
  [ IF s.state[v] = "ready" THEN RemoveReady(s, v)
    ELSE IF s.state[v] = "suspended" THEN [s EXCEPT !.suspended = @ \ {v}]
    ELSE RemoveFromLists(s, v)
    EXCEPT !.state[v] = "none", !.sched = FALSE ]

TaskDeleteSelf(t) ==
  /\ "delete" \in TaskControl
  /\ Runs(t)
  /\ k' = Schedule([Deleted(k, t) EXCEPT !.zombies = Append(@, t)])
  /\ Stays

TaskDelete(t, v) ==
  /\ "delete" \in TaskControl
  /\ Runs(t) /\ v # t /\ Exists(v) /\ k.basePriority[v] # 0
  /\ k' = Deleted(k, v)
  /\ Blocks(t, "delete", v)

(* The second critical section; aaTryFree or aaUserReleaseStack may fail.  *)
TaskDeleteEnd(t) ==
  /\ Resumes(t, "delete")
  /\ k' \in { [k EXCEPT !.freeTcb = @ \cup {arg[t]}],
              [k EXCEPT !.zombies = Append(@, arg[t])] }
  /\ Returns(t)

(* Fault: the zombie stays on its list while its stack is freed.           *)
ReapPeeks(t) ==
  /\ (Runs(t) /\ "create" \in TaskControl) \/ (Resumes(t, "run") /\ t = Idle)
  /\ k.zombies # << >>
  /\ UNCHANGED k
  /\ Blocks(t, "reap", Head(k.zombies))

(* aaTaskFreeZombies_, by the idle task and at the start of aaTaskCreate:  *)
(* take a zombie off its list, free its stack, list the TCB as free or,    *)
(* when the stack could not be freed, as a zombie again.                   *)
ReapBegin(t) ==
  /\ \/ Runs(t) /\ "create" \in TaskControl
     \/ Resumes(t, "run") /\ t = Idle
  /\ k.zombies # << >>
  /\ k' = [k EXCEPT !.zombies = Tail(@)]
  /\ Blocks(t, "reap", Head(k.zombies))

ReapEnd(t) ==
  /\ Resumes(t, "reap")
  /\ k' \in { [k EXCEPT !.freeTcb = @ \cup {arg[t]}],
              [k EXCEPT !.zombies = Append(@, arg[t])] }
  /\ Returns(t)

(* aaTaskCreate: a TCB is taken and initialised, but for its signals; then *)
(* it is made ready or suspended, or given back for want of a stack.       *)
TaskCreate(t, v, p) ==
  /\ "create" \in TaskControl
  /\ Runs(t) /\ v \in k.freeTcb
  /\ k' = [k EXCEPT !.freeTcb = @ \ {v}, !.mutexList[v] = {}, !.flags[v] = {},
                    !.priority[v] = p, !.basePriority[v] = p]
  /\ pc'  = [pc EXCEPT ![t] = "create", ![v] = "run"]
  /\ arg' = [arg EXCEPT ![t] = v, ![v] = None]
  /\ UNCHANGED <<isr, flushing>>

TaskCreateEnd(t) ==
  /\ Resumes(t, "create")
  /\ k' \in { Schedule(AddReady(k, arg[t])), Suspend(k, arg[t]),
              [k EXCEPT !.freeTcb = @ \cup {arg[t]}] }
  /\ Returns(t)

(* aaIoWait, FIFO or ordered by the priority the driver put in waitValue;  *)
(* a time-out of 0 waits for ever, outside of the delayed list.            *)
IoWait(t, x, ordered, d) ==
  LET value == [k.waitValue EXCEPT ![t] = IF ordered THEN k.priority[t] ELSE @]
      clear == IF d = 0 THEN {} ELSE {"DELAYTMO"}
      u == [RemoveReady(k, t) EXCEPT
              !.state[t] = "ioWait", !.objPtr[t] = x, !.waitValue = value,
              !.flags[t] = @ \ clear,
              !.waitingList[x] = IF ordered THEN AddOrdered(@, value, t)
                                            ELSE Append(@, t)]
  IN  /\ Runs(t)
      /\ k' = Schedule(AddToDelayed(u, t, d))
      /\ Blocks(t, IF d = 0 THEN "ioWaitForever" ELSE "ioWait", x)

(* The end of aaIoWait: DELAYTMO is looked at only if there was a time-out.*)
IoWaitEnd(t) ==
  \/ /\ Resumes(t, "ioWait")
     /\ k' = [k EXCEPT !.flags[t] = @ \ {"DELAYTMO"}]
     /\ Returns(t)
  \/ /\ Resumes(t, "ioWaitForever")
     /\ UNCHANGED k
     /\ Returns(t)

(* aaIoResume, from a handler of the driver or (aaIoResumeWaitingTask) from *)
(* a task.                                                                 *)
Resumed(s, x) ==
  LET t == Head(s.waitingList[x])
      u == [s EXCEPT !.waitingList[x] = Tail(@)]
  IN  PutInList(IF t \in Range(u.delayed) THEN RemoveFromDelayed(u, t) ELSE u, t)

IoResumeFromIsr(x) == k.waitingList[x] # << >> /\ CalledFromIsr(Resumed(k, x))
IoResume(t, x) == /\ Runs(t) /\ k.waitingList[x] # << >>
                  /\ CalledFromTask(Resumed(k, x))

TaskNext ==
  \/ \E t, v \in Task :
       \/ TaskWakeUp(t, v) \/ TaskSuspend(t, v) \/ TaskResume(t, v)
       \/ TaskDelete(t, v)
       \/ \E p \in NewPrios : TaskSetPriority(t, v, p) \/ TaskCreate(t, v, p)
  \/ \E t \in Task :
       \/ TaskYield(t) \/ \E d \in TaskDelays : TaskDelay(t, d)
       \/ TaskDelayEnd(t) \/ TaskDeleteSelf(t) \/ TaskDeleteEnd(t)
       \/ ReapBegin(t) \/ ReapEnd(t) \/ TaskCreateEnd(t) \/ IoWaitEnd(t)
       \/ \E x \in Driver :
            \/ \E d \in IoDelays, ordered \in BOOLEAN : IoWait(t, x, ordered, d)
            \/ IoResume(t, x)
  \/ \E x \in Driver : IoResumeFromIsr(x)
=============================================================================
