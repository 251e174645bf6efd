---------------------------- MODULE AAKernelInv ----------------------------
(***************************************************************************)
(* What the tables of the kernel keep to between the operations of a       *)
(* critical section: F holds the tasks that are between two lists, T those *)
(* whose delay or I/O wait has a time-out.                                 *)
(***************************************************************************)
EXTENDS AAKernel

(* The states of the tasks that are in a waiting list.                     *)
ListWait == {"mutexWait", "semWait", "ioWait"}

(* The ready lists and the bit map of the priorities.                      *)
ReadyAgree(s, F) ==
  \A p \in Prio :
    /\ NoRepeat(s.ready[p])
    /\ p \in s.prioGroup <=> s.ready[p] # << >>
    /\ \A t \in Task : t \in Range(s.ready[p])
                         <=> t \notin F /\ s.state[t] = "ready" /\ s.priority[t] = p

(* The waiting lists of the mutexes, the semaphores and the drivers.       *)
WaitersAgree(s, F) ==
  \A x \in SyncObj :
    /\ NoRepeat(s.waitingList[x])
    /\ \A t \in Task : t \in Range(s.waitingList[x])
                         <=> t \notin F /\ s.state[t] \in ListWait /\ s.objPtr[t] = x

(* The waits that have a time-out.                                         *)
Timed(s, T, t) == \/ s.state[t] \in {"mutexWait", "semWait", "signalWait"}
                  \/ s.state[t] \in {"delayed", "ioWait"} /\ t \in T

(* The list of the delayed tasks, in the order of their delays.            *)
DelayedAgree(s, F, T) ==
  /\ NoRepeat(s.delayed)
  /\ Ascending(s.delayed, s.delay)
  /\ \A t \in Task : t \in Range(s.delayed) <=> t \notin F /\ Timed(s, T, t)

SuspendedAgree(s, F) ==
  \A t \in Task : t \in s.suspended <=> t \notin F /\ s.state[t] = "suspended"

(* All the lists.                                                          *)
Lists(s, F, T) == /\ s \in Tables
                  /\ ReadyAgree(s, F) /\ WaitersAgree(s, F)
                  /\ DelayedAgree(s, F, T) /\ SuspendedAgree(s, F)

(* A waiter waits for something that exists and that it cannot have: a     *)
(* mutex of another task, a semaphore without permits, a driver.           *)
Waits(s) ==
  \A t \in Task :
    /\ s.state[t] = "mutexWait" => /\ s.objPtr[t] \in Mutex
                                  /\ s.pOwner[s.objPtr[t]] \in Task \ {t}
                                  /\ s.count[s.objPtr[t]] > 0
    /\ s.state[t] = "semWait" => /\ s.objPtr[t] \in Sem
                                /\ s.objPtr[t] \in s.semUsed
                                /\ s.count[s.objPtr[t]] <= 0
    /\ s.state[t] = "ioWait" => s.objPtr[t] \in Driver

(* No delay that is over, but in the tick handler.                         *)
Pending(s) == \A t \in Range(s.delayed) : s.delay[t] > 0

(* What no operation on the lists touches.                                 *)
SameObjects(u, s) ==
  /\ u.basePriority = s.basePriority
  /\ u.sigsWait = s.sigsWait /\ u.sigsRecv = s.sigsRecv
  /\ u.mutexList = s.mutexList
  /\ u.zombies = s.zombies /\ u.freeTcb = s.freeTcb
  /\ u.pOwner = s.pOwner /\ u.count = s.count /\ u.semUsed = s.semUsed

(* ... nor the switch to another task.                                     *)
SameRest(u, s) == u.cur = s.cur /\ SameObjects(u, s)

(* What only a change of state touches.                                    *)
SameTasks(u, s) ==
  /\ u.state = s.state /\ u.flags = s.flags /\ u.objPtr = s.objPtr
  /\ u.delayed = s.delayed /\ u.delay = s.delay

(* If t is ready, bRequestSchedule says whether it outranks the task that  *)
(* runs.                                                                   *)
Asked(u, t) ==
  u.state[t] = "ready" => (u.sched <=> u.priority[t] > u.priority[u.cur])

(* The wait of t is over; told are the flags that say why.                 *)
Woken(u, s, t, told) ==
  /\ SameRest(u, s)
  /\ u.state = [s.state EXCEPT ![t] =
                   IF "SUSPEND" \in s.flags[t] THEN "suspended" ELSE "ready"]
  /\ u.flags = [s.flags EXCEPT ![t] = (@ \cup told) \ {"SUSPEND"}]
  /\ \A a \in Task \ {t} : u.objPtr[a] = s.objPtr[a]
  /\ Asked(u, t)
  /\ Pending(s) => Pending(u)

(* The states of a task that waits for nothing; the flags that say why a   *)
(* wait ended.                                                             *)
Settled == {"ready", "suspended"}
Causes  == {"FLUSH", "DELAYTMO"}

(* What the services of the mutexes, semaphores and signals keep.          *)
SameHeld(u, s) ==
  /\ u.mutexList = s.mutexList /\ u.pOwner = s.pOwner /\ u.count = s.count
  /\ u.sigsWait = s.sigsWait /\ u.sigsRecv = s.sigsRecv

(* The wait of t goes on, or t is as settled as it was.                    *)
SameWait(u, s, t) ==
  /\ u.state[t] = s.state[t] \/ {u.state[t], s.state[t]} \subseteq Settled
  /\ s.state[t] \in ListWait => u.objPtr[t] = s.objPtr[t]
  /\ u.flags[t] \ {"SUSPEND"} = s.flags[t] \ {"SUSPEND"}

(* The wait of v ends, in vain if it was for a mutex or a semaphore, or v  *)
(* is deleted.                                                             *)
Leaves(u, s, v) ==
  \/ u.state[v] = "none"
  \/ /\ s.state[v] \notin Settled \cup {"none"} /\ u.state[v] \in Settled
     /\ s.state[v] = "mutexWait" => "DELAYTMO" \in u.flags[v]
     /\ s.state[v] = "semWait" => u.flags[v] \cap Causes # {}

(* No object changes, and every wait goes on, or every wait but that of v. *)
Quiet(u, s) == SameHeld(u, s) /\ \A t \in Task : SameWait(u, s, t)

Mild(u, s, v) == /\ SameHeld(u, s)
                 /\ \A t \in Task : SameWait(u, s, t) \/ (t = v /\ Leaves(u, s, v))

(* What no change of the objects, the flags and the signals touches.       *)
Unmoved(u, s) ==
  /\ u.cur = s.cur /\ u.state = s.state /\ u.priority = s.priority
  /\ u.objPtr = s.objPtr
  /\ u.ready = s.ready /\ u.prioGroup = s.prioGroup
  /\ u.waitingList = s.waitingList /\ u.suspended = s.suspended
  /\ u.delayed = s.delayed /\ u.delay = s.delay

(* The task t, which ran, waits in the list l of x.                        *)
Enqueued(s, t, st, x, value, c, l) ==
  [RemoveReady(s, t) EXCEPT !.state[t] = st, !.objPtr[t] = x, !.waitValue = value,
                            !.flags[t] = c, !.waitingList[x] = l]

(* The task t, which ran, waits for nothing that has a list.               *)
Idled(s, t, st, c) == [RemoveReady(s, t) EXCEPT !.state[t] = st, !.flags[t] = c]

(* The running task t went to sleep.                                       *)
Slept(u, s, t, st) ==
  /\ u.state[t] = st
  /\ \A a \in Task \ {t} : u.state[a] = s.state[a] /\ u.objPtr[a] = s.objPtr[a]
  /\ SameObjects(u, s)
  /\ Pending(s) => Pending(u)

(* The task v is deleted.                                                  *)
Gone(u, s, v) ==
  /\ u.state[v] = "none"
  /\ \A a \in Task \ {v} : u.state[a] = s.state[a] /\ u.objPtr[a] = s.objPtr[a]
  /\ SameRest(u, s)
  /\ Pending(s) => Pending(u)

(* The tables between two operations of a service, and between services.   *)
Whole(s, T) == /\ Lists(s, {}, T) /\ Waits(s)
               /\ s.state[Idle] = "ready" /\ s.basePriority[Idle] = 0

(* ... and the task that runs, or that a handler interrupted, is ready.    *)
Running(s, T) == Whole(s, T) /\ s.state[s.cur] = "ready"

(* An operation that makes, deletes and puts to wait for a semaphore no    *)
(* task.                                                                   *)
Keeps(u, s) ==
  /\ u.zombies = s.zombies /\ u.freeTcb = s.freeTcb
  /\ Pending(s) => Pending(u)
  /\ \A t \in Task : u.state[t] = "none" <=> s.state[t] = "none"
  /\ \A t \in Task : u.state[t] = "semWait" => /\ s.state[t] = "semWait"
                                              /\ u.objPtr[t] = s.objPtr[t]
=============================================================================
