----------------------------- MODULE AARtkProps -----------------------------
(***************************************************************************)
(* What the kernel promises its tasks.                                     *)
(***************************************************************************)
EXTENDS AARtk

-----------------------------------------------------------------------------
(* Lists and states                                                        *)

WaitsFor(t, x) == /\ k.state[t] \in {"mutexWait", "semWait", "ioWait"}
                  /\ k.objPtr[t] = x

(* A delay or a time-out of 0 is none.                                     *)
TimedWait(t) == \/ k.state[t] \in {"mutexWait", "semWait", "signalWait"}
                \/ k.state[t] \in {"delayed", "ioWait"} /\ pc[t] \in {"delay", "ioWait"}

(* After every critical section each task is in the lists its state names  *)
(* and in no other, once in each, and in the ready list of its current     *)
(* priority: what every removal from a doubly linked list relies on.  The   *)
(* bit map of the priorities agrees with the ready lists.                  *)
ListsAgree ==
  /\ \A t \in Task :
       /\ \A p \in Prio : t \in Range(k.ready[p])
                            <=> k.state[t] = "ready" /\ k.priority[t] = p
       /\ \A x \in SyncObj : t \in Range(k.waitingList[x]) <=> WaitsFor(t, x)
       /\ t \in Range(k.delayed) <=> TimedWait(t)
       /\ t \in k.suspended <=> k.state[t] = "suspended"
       /\ t \in k.freeTcb \cup Range(k.zombies) => k.state[t] = "none"
  /\ \A p \in Prio : NoRepeat(k.ready[p]) /\ (p \in k.prioGroup <=> k.ready[p] # << >>)
  /\ \A x \in SyncObj : NoRepeat(k.waitingList[x])
  /\ NoRepeat(k.delayed) /\ NoRepeat(k.zombies)

(* No TCB is handed out twice: what a task is making, deleting or freeing  *)
(* is in no list and is nobody else's.                                     *)
TcbNotShared ==
  \A t \in Task :
    LET busy == {u \in Task : k.state[u] # "none" /\ arg[u] = t
                                /\ pc[u] \in {"create", "delete", "reap"}}
    IN  /\ t \in k.freeTcb => t \notin Range(k.zombies)
        /\ busy # {} => /\ \A u, v \in busy : u = v
                        /\ k.state[t] = "none"
                        /\ t \notin k.freeTcb \cup Range(k.zombies)

-----------------------------------------------------------------------------
(* Scheduling                                                              *)

(* Preemption is strict: while a task runs no ready task outranks it.      *)
RunsHighest ==
  TaskLevel =>
    /\ k.state[k.cur] = "ready"
    /\ \A t \in Task : k.state[t] = "ready" => k.priority[t] <= k.priority[k.cur]

-----------------------------------------------------------------------------
(* Mutexes                                                                 *)

(* What aaMutexTake has been granted and aaMutexGive has not given back.   *)
Holds(t, m) == m \in k.mutexList[t]

(* A mutex handed over whose new owner has not run yet.                    *)
HandedTo(t, m) == /\ pc[t] = "mutexTake" /\ arg[t] = m
                  /\ k.state[t] \in {"ready", "suspended"}
                  /\ "DELAYTMO" \notin k.flags[t]

(* A mutex has one holder at most, even while it is being handed over: the *)
(* window between aaMutexGive and the waiter's own end of aaMutexTake.     *)
MutualExclusion ==
  \A t, u \in Task, m \in Mutex :
    /\ (Holds(t, m) \/ HandedTo(t, m)) /\ (Holds(u, m) \/ HandedTo(u, m)) => t = u
    /\ Holds(t, m) => ~ HandedTo(t, m)

(* The mutexes keep what AALock promises, the free ones counting as      *)
(* having no owner.                                                        *)
Lock == INSTANCE AALock WITH
          owner   <- [m \in Mutex |-> IF k.count[m] > 0 THEN k.pOwner[m] ELSE None],
          waiting <- [m \in Mutex |-> Range(k.waitingList[m])],
          running <- k.cur
LockSpec == Lock!Spec

(* Time-out against give: a waiter is told it owns the mutex (no DELAYTMO) *)
(* exactly when the mutex was made its own, whichever came first.          *)
WakeCauseTold ==
  \A t \in Task :
    pc[t] = "mutexTake" /\ k.state[t] \in {"ready", "suspended"} =>
      ("DELAYTMO" \notin k.flags[t] <=>
         k.pOwner[arg[t]] = t /\ k.count[arg[t]] > 0)

(* Nobody waits for what is available.                                     *)
NothingAvailableIsWaitedFor ==
  /\ \A m \in Mutex : k.count[m] = 0 => k.waitingList[m] = << >>
  /\ \A x \in k.semUsed : k.count[x] > 0 => k.waitingList[x] = << >>

(* Priority inheritance: no task waits for a mutex whose owner is less     *)
(* urgent than itself.                                                     *)
Inherited ==
  \A m \in Mutex : \A t \in Range(k.waitingList[m]) :
    k.priority[k.pOwner[m]] >= k.priority[t]

(* aaMutexNewPrio_ finds the highest priority of the tasks waiting for the *)
(* mutexes a task owns: the giver of one mutex keeps what it inherits      *)
(* through another.                                                        *)
KeepsInherited ==
  \A t \in Task : \A m \in k.mutexList[t] : \A u \in Range(k.waitingList[m]) :
    k.priority[t] >= k.priority[u]

(* ... and no longer than needed: a task above its own priority has a      *)
(* waiter of that priority.                                                *)
NotAboveNeed ==
  \A t \in Task :
    \/ k.priority[t] = k.basePriority[t]
    \/ \E m \in Mutex : /\ k.pOwner[m] = t
                        /\ \E u \in Range(k.waitingList[m]) :
                             k.priority[u] = k.priority[t]

(* aakernel.h: the waiting list is sorted by the priority of the waiting   *)
(* threads, and the node value is that priority; so an object goes to the  *)
(* most urgent of them, whoever changed whose priority while it waited.    *)
WaitersSorted ==
  \A x \in Counted : \A i, j \in DOMAIN k.waitingList[x] :
    i < j => k.priority[k.waitingList[x][i]] >= k.priority[k.waitingList[x][j]]

-----------------------------------------------------------------------------
(* Semaphores                                                              *)

(* Given to t, which has not run since.                                    *)
GrantedTo(t, x) == /\ pc[t] = "semTake" /\ arg[t] = x
                   /\ k.state[t] \in {"ready", "suspended"}
                   /\ k.flags[t] \cap {"FLUSH", "DELAYTMO"} = {}

Permits(x) == k.count[x] + Cardinality({t \in Task : GrantedTo(t, x)})

Gives(x)  == SemGiveFromIsr(x) \/ \E t \in Task : SemGive(t, x)
Takes(x)  == \E t \in Task : SemTakeNow(t, x) \/ (SemTakeGranted(t) /\ arg[t] = x)
Resets(x) == \E t \in Task :
               \/ \E n \in SemCounts : SemCreate(t, x, n)
               \/ \E n \in ResetCounts : SemReset(t, x, n)

(* Permits are neither lost nor made up: each give adds one, to the count  *)
(* or to a waiter, each successful take uses one, and no time-out, wake-up,*)
(* flush, suspension or delete of the semaphore that comes between the give*)
(* and the return of the take that it serves changes their number.  Only a *)
(* task deleted before it returns takes with it the permit it was granted. *)
Orphaned(x) == \E t \in Task : GrantedTo(t, x) /\ k'.state[t] = "none"

PermitsConserved ==
  [][\A x \in Sem : ~ Resets(x) /\ ~ Orphaned(x) =>
       Permits(x)' = Permits(x) + (IF Gives(x) THEN 1 ELSE 0)
                                - (IF Takes(x) THEN 1 ELSE 0)]_vars

-----------------------------------------------------------------------------
(* Signals                                                                 *)

(* No wake-up is lost: a task does not wait for signals it has already.    *)
NoSignalMissed ==
  \A t \in Task : k.state[t] = "signalWait" =>
    Matched(k.sigsWait[t], k.sigsRecv[t], "SIGNALAND" \in k.flags[t]) = {}

-----------------------------------------------------------------------------
(* Liveness.  The tick interrupt keeps coming and its handler ends: while  *)
(* interrupts are off, or a nested handler is at work, again and again, it *)
(* is pending and is served when they end.  A critical section ends.       *)

TickFairness == /\ SF_vars(Tick \/ TickExpire \/ TickEnd)
                /\ \A x \in Sem : WF_vars(FlushOne(x)) /\ WF_vars(FlushEnd(x))

(* The tasks of a sane application: one that gets to run again and again   *)
(* ends the blocking call it is in, and gives the mutexes it owns.         *)
Ends(t)  == MutexTakeGranted(t) \/ MutexTakeTimedOut(t) \/ TaskDelayEnd(t)
GivesIt(t)   == \E m \in Mutex : MutexGive(t, m)
GivesOnce(t) == \E m \in Mutex : MutexGiveOnce(t, m)

TaskFairness == \A t \in Task \ {Idle} :
                  SF_vars(Ends(t)) /\ SF_vars(GivesIt(t)) /\ SF_vars(GivesOnce(t))

LiveSpec == Spec /\ TickFairness
FairSpec == Spec /\ TickFairness /\ TaskFairness

(* A finite time-out ends the wait.                                        *)
TimeoutsExpire ==
  \A t \in Task :
    (TimedWait(t) /\ k.delay[t] # Infinite) ~> ~ TimedWait(t)

(* Priority inversion is bounded: the most urgent task gets the mutex of a *)
(* less urgent one even if tasks in between never stop, unless another gets*)
(* as urgent meanwhile.                                                    *)
MostUrgent(t) == \A u \in Task \ {t} : k.basePriority[u] < k.basePriority[t]

UrgentGetsMutex ==
  \A t \in Task, m \in Mutex :
    (MostUrgent(t) /\ pc[t] = "mutexTake" /\ arg[t] = m) ~> (pc[t] = "run" \/ ~ MostUrgent(t))
=============================================================================
