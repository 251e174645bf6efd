---------------------------- MODULE AARtkProofs ----------------------------
(***************************************************************************)
(* The lists of the kernel agree with the states of the tasks, whatever    *)
(* the tasks and the interrupt handlers call: IInv holds initially, and    *)
(* every action of AARtk keeps it.                                         *)
(***************************************************************************)
EXTENDS AARtkInv, AAKernelProofs

-----------------------------------------------------------------------------
(* What most actions have in common.                                       *)

(* What every proof below starts from.                                     *)
LEMMA TablesTyped ==
  ASSUME IInv
  PROVE  /\ k \in Tables /\ Running(k, TimedCalls(pc)) /\ Waits(k)
         /\ pc \in [Task -> Call] /\ arg \in [Task -> SyncObj \cup Task \cup {None}]
         /\ k.cur \in Task /\ k.state[k.cur] = "ready"
         /\ Idle \in Task /\ k.state[Idle] = "ready" /\ k.basePriority[Idle] = 0
<1>1. k \in Tables /\ Idle \in Task
  BY KernelAssumption DEF IInv, Running, Whole, Lists
<1>2. k.cur \in Task
  BY <1>1 DEF Tables
<1> QED BY <1>1, <1>2 DEF IInv, Running, Whole, CallsTyped

(* Nobody takes a TCB, gives one back or dies.                             *)
LEMMA TcbsKept ==
  ASSUME IInv, k'.zombies = k.zombies, k'.freeTcb = k.freeTcb,
         \A t \in Task : k'.state[t] = "none" <=> k.state[t] = "none",
         \A t \in Task : k.state[t] = "none" => pc'[t] = pc[t],
         \A t \in Task : pc'[t] \in Making => pc'[t] = pc[t] /\ arg'[t] = arg[t]
  PROVE  Tcbs(k', pc', arg')
<1>1. Tcbs(k, pc, arg)
  BY DEF IInv
<1>2. \A t \in Task : Busy(k', pc', t) => Busy(k, pc, t) /\ arg'[t] = arg[t]
  BY DEF Busy
<1>3. k.freeTcb \subseteq Task /\ k.zombies \in Seq(Task)
  BY TablesTyped DEF Tables
<1>4. Range(k.zombies) \subseteq Task
  BY <1>3, EmptyFacts
<1>5. ASSUME NEW t \in Task, Busy(k', pc', t)
      PROVE  /\ arg'[t] \in Task /\ k'.state[arg'[t]] = "none"
             /\ arg'[t] \notin k'.freeTcb /\ arg'[t] \notin Range(k'.zombies)
             /\ \A u \in Task : Busy(k', pc', u) /\ arg'[u] = arg'[t] => u = t
             /\ pc'[t] = "create" => pc'[arg'[t]] = "run"
  <2>1. /\ arg[t] \in Task /\ k.state[arg[t]] = "none"
        /\ arg[t] \notin k.freeTcb /\ arg[t] \notin Range(k.zombies)
        /\ \A u \in Task : Busy(k, pc, u) /\ arg[u] = arg[t] => u = t
        /\ pc[t] = "create" => pc[arg[t]] = "run"
    BY <1>1, <1>2, <1>5 DEF Tcbs
  <2>2. arg'[t] = arg[t] /\ pc'[t] = pc[t] /\ pc'[arg[t]] = pc[arg[t]]
    BY <1>2, <1>5, <2>1 DEF Busy
  <2> QED BY <2>1, <2>2, <1>2
<1>6. /\ \A t \in k'.freeTcb : k'.state[t] = "none" /\ t \notin Range(k'.zombies)
      /\ \A t \in Range(k'.zombies) : k'.state[t] = "none"
      /\ NoRepeat(k'.zombies)
  BY <1>1, <1>3, <1>4 DEF Tcbs
<1> QED BY <1>5, <1>6 DEF Tcbs

(* An action that keeps the tasks there are, and their semaphore waits.    *)
LEMMA Kept ==
  ASSUME IInv, CallsTyped', Running(k', TimedCalls(pc')), Keeps(k', k),
         isr' # "tick" => isr # "tick" \/ Pending(k'),
         \A t \in Task : k.state[t] = "none" => pc'[t] = pc[t],
         \A t \in Task : pc'[t] \in Making \cup {"semDelete"} =>
           pc'[t] = pc[t] /\ arg'[t] = arg[t],
         \/ flushing' = flushing \/ flushing = None
         \/ \A t \in Task : k'.state[t] = "semWait" => k'.objPtr[t] # flushing
  PROVE  IInv'
<1>1. Tcbs(k, pc, arg) /\ Deletes(k, pc, arg, flushing)
  BY DEF IInv
<1>2. Tcbs(k', pc', arg')
  BY TcbsKept DEF Keeps
<1>3. Deletes(k', pc', arg', flushing')
  <2> SUFFICES ASSUME NEW t \in Task, pc'[t] = "semDelete"
               PROVE  /\ arg'[t] \in Sem
                      /\ \/ flushing' = arg'[t]
                         \/ \A u \in Task : k'.state[u] = "semWait" => k'.objPtr[u] # arg'[t]
    BY DEF Deletes
  <2>1. pc[t] = "semDelete" /\ arg'[t] = arg[t] /\ arg[t] \in Sem
    BY <1>1 DEF Deletes
  <2>2. \/ flushing = arg[t]
        \/ \A u \in Task : k.state[u] = "semWait" => k.objPtr[u] # arg[t]
    BY <1>1, <2>1 DEF Deletes
  <2>3. None \notin Sem
    BY KernelAssumption DEF SyncObj
  <2> QED BY <2>1, <2>2, <2>3 DEF Keeps
<1>4. isr' # "tick" => Pending(k')
  BY DEF IInv, Keeps
<1> QED BY <1>2, <1>3, <1>4 DEF IInv

(* An action inside of no call.                                            *)
LEMMA StaysKept ==
  ASSUME IInv, Stays, Running(k', TimedCalls(pc)), Keeps(k', k)
  PROVE  IInv'
<1>1. pc' = pc /\ arg' = arg /\ isr' = isr /\ flushing' = flushing
  BY DEF Stays
<1>2. CallsTyped' /\ Running(k', TimedCalls(pc'))
  BY <1>1 DEF CallsTyped, IInv
<1> QED BY <1>1, <1>2, Kept

(* The end of a service, from a task or from a handler.                    *)
LEMMA CalledSame ==
  ASSUME IInv, NEW s, Running(s, TimedCalls(pc)), CalledFromTask(s) \/ CalledFromIsr(s)
  PROVE  /\ SameObjects(k', s) /\ SameTasks(k', s) /\ Quiet(k', s)
         /\ pc' = pc /\ arg' = arg
<1>1. SameObjects(k', s) /\ SameTasks(k', s)
  <2>1. CASE k' = ScheduleIf(s)
    BY <2>1, ScheduleIfRuns
  <2>2. CASE k' = Schedule(s)
    BY <2>2, ScheduleRuns DEF Running
  <2>3. CASE k' = [s EXCEPT !.sched = FALSE]
    BY <2>3, NoScheduleRuns
  <2> QED BY <2>1, <2>2, <2>3 DEF CalledFromTask, CalledFromIsr
<1>2. Quiet(k', s)
  BY <1>1, QuietSame
<1> QED BY <1>1, <1>2 DEF CalledFromTask, CalledFromIsr, Stays

(* The end of a service that handlers may call too.                        *)
LEMMA CalledKept ==
  ASSUME IInv, NEW s, Running(s, TimedCalls(pc)), Keeps(s, k),
         CalledFromTask(s) \/ CalledFromIsr(s)
  PROVE  IInv'
<1> DEFINE T == TimedCalls(pc)
<1>1. Stays /\ \/ k' = ScheduleIf(s) \/ k' = Schedule(s)
               \/ k' = [s EXCEPT !.sched = FALSE]
  BY DEF CalledFromTask, CalledFromIsr
<1>2. Whole(s, T)
  BY DEF Running
<1> HIDE DEF T
<1>3. Running(k', T) /\ Keeps(k', s)
  <2>1. CASE k' = ScheduleIf(s)
    BY <2>1, ScheduleIfRuns DEF T
  <2>2. CASE k' = Schedule(s)
    BY <2>2, <1>2, ScheduleRuns
  <2>3. CASE k' = [s EXCEPT !.sched = FALSE]
    BY <2>3, NoScheduleRuns DEF T
  <2> QED BY <1>1, <2>1, <2>2, <2>3
<1>4. Keeps(k', k)
  BY <1>3, KeepsTransitive
<1> QED BY <1>1, <1>3, <1>4, StaysKept DEF T

(* The running task enters or ends a call that takes no TCB.               *)
LEMMA BlocksTyped ==
  ASSUME IInv, NEW t \in Task, NEW c \in Call, NEW x \in SyncObj \cup Task \cup {None},
         c = "mutexTake" => x \in Mutex, Blocks(t, c, x)
  PROVE  /\ CallsTyped' /\ isr' = isr /\ flushing' = flushing
         /\ pc'[t] = c /\ arg'[t] = x
         /\ \A u \in Task \ {t} : pc'[u] = pc[u] /\ arg'[u] = arg[u]
BY DEF IInv, CallsTyped, Blocks

(* The running task enters or ends a call that takes no TCB.               *)
LEMMA BlocksKept ==
  ASSUME IInv, NEW t \in Task, NEW c \in Call \ (Making \cup {"semDelete"}),
         NEW x \in SyncObj \cup Task \cup {None},
         c = "mutexTake" => x \in Mutex, Blocks(t, c, x), k.state[t] = "ready",
         Running(k', TimedCalls(pc')), Keeps(k', k)
  PROVE  IInv'
<1>1. /\ CallsTyped' /\ isr' = isr /\ flushing' = flushing
      /\ pc'[t] = c /\ arg'[t] = x
      /\ \A u \in Task \ {t} : pc'[u] = pc[u] /\ arg'[u] = arg[u]
  BY BlocksTyped
<1>2. \A u \in Task : pc'[u] \in Making \cup {"semDelete"} =>
        pc'[u] = pc[u] /\ arg'[u] = arg[u]
  BY <1>1
<1> QED BY <1>1, <1>2, Kept

(* A call of the running task changes the timed calls at that task only.   *)
LEMMA BlocksTimed ==
  ASSUME IInv, NEW t \in Task, NEW c \in Call, NEW x \in SyncObj \cup Task \cup {None},
         c = "mutexTake" => x \in Mutex, Blocks(t, c, x),
         k.state[t] \notin {"delayed", "ioWait"}
  PROVE  /\ Running(k, TimedCalls(pc'))
         /\ t \in TimedCalls(pc') <=> c \in {"delay", "ioWait"}
<1>1. /\ pc'[t] = c
      /\ \A u \in Task \ {t} : pc'[u] = pc[u]
  BY BlocksTyped
<1>2. Running(k, TimedCalls(pc))
  BY DEF IInv
<1>3. \A u \in Task : k.state[u] \in {"delayed", "ioWait"} =>
        (u \in TimedCalls(pc) <=> u \in TimedCalls(pc'))
  BY <1>1 DEF TimedCalls
<1>4. Running(k, TimedCalls(pc'))
  BY <1>2, <1>3, TimedChange
<1> QED BY <1>1, <1>4 DEF TimedCalls

(* The end of a call leaves the lists alone.                               *)
LEMMA ReturnsKept ==
  ASSUME IInv, NEW t \in Task, k.state[t] = "ready", Returns(t),
         k' \in Tables, Unmoved(k', k), Waits(k'), k'.basePriority[Idle] = 0,
         k'.zombies = k.zombies, k'.freeTcb = k.freeTcb
  PROVE  IInv'
<1>1. Blocks(t, "run", None)
  BY DEF Returns
<1>2. "run" \in Call \ (Making \cup {"semDelete"})
  BY DEF Call, Making
<1>3. Running(k, TimedCalls(pc'))
  BY <1>1, <1>2, BlocksTimed
<1>4. Running(k', TimedCalls(pc')) /\ Keeps(k', k)
  BY <1>3, UnmovedRunning
<1> QED BY <1>1, <1>2, <1>4, BlocksKept

-----------------------------------------------------------------------------
(* Waiting.                                                                *)

(* The wait every blocking call of a mutex or a semaphore ends in.         *)
LEMMA WaitOrderedRuns ==
  ASSUME NEW s, NEW T, Running(s, T), NEW t \in Task \ {Idle}, s.state[t] = "ready",
         NEW x \in SyncObj, NEW st \in {"mutexWait", "semWait"},
         NEW causes, NEW d \in 1 .. Infinite,
         st = "mutexWait" => /\ x \in Mutex /\ s.pOwner[x] \in Task \ {t}
                             /\ s.count[x] > 0,
         st = "semWait" => x \in Sem /\ x \in s.semUsed /\ s.count[x] <= 0
  PROVE  LET u == WaitOrdered(s, t, x, st, causes, d) IN
         /\ Running(u, T) /\ Slept(u, s, t, st)
         /\ u.objPtr = [s.objPtr EXCEPT ![t] = x]
         /\ u.flags = [s.flags EXCEPT ![t] = @ \ causes]
<1> DEFINE value == [s.waitValue EXCEPT ![t] = s.priority[t]]
           l == AddOrdered(s.waitingList[x], value, t)
           c == s.flags[t] \ causes
           u == WaitOrdered(s, t, x, st, causes, d)
<1>1. s \in Tables /\ WaitersAgree(s, {})
  BY DEF Running, Whole, Lists
<1>2. RemoveReady(s, t).waitingList = s.waitingList /\ RemoveReady(s, t).flags = s.flags
  BY DEF RemoveReady
<1>3. Enqueued(s, t, st, x, value, c, l)
        = [RemoveReady(s, t) EXCEPT
             !.state[t] = st, !.objPtr[t] = x, !.waitValue = value,
             !.flags[t] = @ \ causes,
             !.waitingList[x] = AddOrdered(@, value, t)]
  BY <1>2, Zenon DEF Enqueued
<1>4. u = Schedule(AddToDelayed(Enqueued(s, t, st, x, value, c, l), t, d))
  BY <1>3 DEF WaitOrdered
<1>5. value \in [Task -> Prio] /\ c \in SUBSET Flag
  BY <1>1 DEF Tables
<1>6. s.waitingList[x] \in Seq(Task) /\ NoRepeat(s.waitingList[x])
  BY <1>1 DEF Tables, WaitersAgree
<1>7. t \notin Range(s.waitingList[x])
  BY <1>1 DEF WaitersAgree, ListWait
<1> HIDE DEF value
<1>8. /\ l \in Seq(Task) /\ NoRepeat(l)
      /\ Range(l) = Range(s.waitingList[x]) \cup {t}
  BY <1>6, <1>7, AddOrderedFacts
<1>9. st \in ListWait /\ st # "ioWait" /\ d \in 0 .. Infinite /\ d # 0
  BY DelayAssumption DEF ListWait
<1>10. s.flags = [s.flags EXCEPT ![t] = s.flags[t]]
  BY <1>1 DEF Tables
<1> HIDE DEF l, u, c
<1>11. /\ Running(u, T) /\ Slept(u, s, t, st)
       /\ u.objPtr = [s.objPtr EXCEPT ![t] = x]
       /\ u.flags = [s.flags EXCEPT ![t] = c]
  BY <1>4, <1>5, <1>8, <1>9, EnqueueRuns
<1> QED BY <1>11 DEF u, c

(* A task put to sleep for anything but a semaphore.                       *)
LEMMA SleptKeeps ==
  ASSUME NEW s, NEW u, NEW t \in Task, s.state[t] = "ready",
         NEW st \in State \ {"none", "semWait"}, Slept(u, s, t, st)
  PROVE  Keeps(u, s)
BY DEF Slept, Keeps, SameObjects

-----------------------------------------------------------------------------
(* Mutexes.                                                                *)

(* The running task, outside of the blocking calls.                        *)
LEMMA RunsFacts ==
  ASSUME IInv, NEW t, Runs(t)
  PROVE  /\ t \in Task \ {Idle} /\ t = k.cur /\ k.state[t] = "ready" /\ isr = "none"
         /\ flushing = None /\ pc[t] = "run" /\ Pending(k)
BY TablesTyped DEF Runs, TaskLevel, IInv

(* The running task, at the end of a blocking call.                        *)
LEMMA ResumesFacts ==
  ASSUME IInv, NEW t, NEW c, Resumes(t, c)
  PROVE  /\ t \in Task /\ t = k.cur /\ k.state[t] = "ready" /\ isr = "none"
         /\ flushing = None /\ pc[t] = c /\ Pending(k)
BY TablesTyped DEF Resumes, TaskLevel, IInv

(* A count, an owner or a list of mutexes changes.                         *)
LEMMA CountTyped ==
  ASSUME NEW s \in Tables, NEW x \in Counted, NEW n \in Int
  PROVE  [s EXCEPT !.count[x] = n] \in Tables
BY DEF Tables

(* An owner changes.                                                       *)
LEMMA OwnerTyped ==
  ASSUME NEW s \in Tables, NEW m \in Mutex, NEW o \in Task \cup {None, Free}
  PROVE  [s EXCEPT !.pOwner[m] = o] \in Tables
BY DEF Tables

(* A list of mutexes changes.                                              *)
LEMMA MutexListTyped ==
  ASSUME NEW s \in Tables, NEW t \in Task, NEW l \in SUBSET Mutex
  PROVE  [s EXCEPT !.mutexList[t] = l] \in Tables
BY DEF Tables

(* aaMutexCreate.                                                          *)
LEMMA MutexCreateKept ==
  ASSUME IInv, NEW t \in Task, NEW m \in Mutex, MutexCreate(t, m)
  PROVE  IInv'
<1>1. /\ k \in Tables /\ Running(k, TimedCalls(pc)) /\ Waits(k)
      /\ k.basePriority[Idle] = 0
  BY TablesTyped
<1>2. /\ Stays /\ k.pOwner[m] = Free
      /\ k' = [k EXCEPT !.pOwner[m] = None, !.count[m] = 0, !.waitingList[m] = << >>]
  BY DEF MutexCreate
<1>3. k.waitingList[m] = << >>
  <2>1. Free \notin Task /\ m \in SyncObj
    BY KernelAssumption DEF SyncObj
  <2>2. SUFFICES ASSUME k.waitingList[m] # << >> PROVE FALSE
    OBVIOUS
  <2> DEFINE a == Head(k.waitingList[m])
  <2>3. a \in Task /\ k.state[a] = "mutexWait" /\ k.objPtr[a] = m
    BY <1>1, <2>1, <2>2, HeadWaits
  <2> QED BY <1>1, <1>2, <2>1, <2>3 DEF Waits
<1> DEFINE v == [k EXCEPT !.pOwner[m] = None]
           u == [v EXCEPT !.count[m] = 0]
<1>4. k' = u
  <2>1. k.waitingList = [k.waitingList EXCEPT ![m] = << >>]
    BY <1>1, <1>3 DEF Tables
  <2> QED BY <1>1, <1>2, <2>1 DEF Tables
<1>5. v \in Tables
  BY <1>1, OwnerTyped
<1>6. /\ u.pOwner = [k.pOwner EXCEPT ![m] = None] /\ u.count = [k.count EXCEPT ![m] = 0]
      /\ u.basePriority = k.basePriority /\ u.zombies = k.zombies
      /\ u.freeTcb = k.freeTcb /\ u.semUsed = k.semUsed
      /\ Unmoved(u, k)
  BY DEF Unmoved
<1>7. u \in Tables
  <2>1. m \in Counted /\ 0 \in Int
    BY DEF Counted
  <2> QED BY <1>5, <2>1, CountTyped
<1> HIDE DEF u, v
<1>8. Waits(u)
  <2>1. Free \notin Task /\ m \notin Sem
    BY KernelAssumption
  <2>2. \A x \in Mutex \ {m} : u.pOwner[x] = k.pOwner[x]
    BY <1>1, <1>6 DEF Tables
  <2>3. \A x \in Counted \ {m} : u.count[x] = k.count[x]
    BY <1>1, <1>6 DEF Tables
  <2>4. u.state = k.state /\ u.objPtr = k.objPtr
    BY <1>6 DEF Unmoved
  <2> QED BY <1>1, <1>2, <1>6, <2>1, <2>2, <2>3, <2>4 DEF Waits, Counted
<1>9. Running(u, TimedCalls(pc)) /\ Keeps(u, k)
  BY <1>1, <1>6, <1>7, <1>8, UnmovedRunning
<1> QED BY <1>2, <1>4, <1>9, StaysKept

(* aaMutexDelete.                                                          *)
LEMMA MutexDeleteKept ==
  ASSUME IInv, NEW t \in Task, NEW m \in Mutex, MutexDelete(t, m)
  PROVE  IInv'
<1>1. /\ k \in Tables /\ Running(k, TimedCalls(pc)) /\ Waits(k)
      /\ k.basePriority[Idle] = 0
  BY TablesTyped
<1> DEFINE u == [k EXCEPT !.pOwner[m] = Free]
<1>2. Stays /\ k' = u /\ k.count[m] = 0
  BY DEF MutexDelete
<1>3. /\ u.pOwner = [k.pOwner EXCEPT ![m] = Free] /\ u.count = k.count
      /\ u.basePriority = k.basePriority /\ u.zombies = k.zombies
      /\ u.freeTcb = k.freeTcb /\ u.semUsed = k.semUsed
      /\ Unmoved(u, k)
  BY DEF Unmoved
<1>4. u \in Tables
  BY <1>1, OwnerTyped
<1> HIDE DEF u
<1>5. Waits(u)
  <2>1. \A x \in Mutex \ {m} : u.pOwner[x] = k.pOwner[x]
    BY <1>1, <1>3 DEF Tables
  <2>2. u.state = k.state /\ u.objPtr = k.objPtr
    BY <1>3 DEF Unmoved
  <2> QED BY <1>1, <1>2, <1>3, <2>1, <2>2 DEF Waits
<1>6. Running(u, TimedCalls(pc)) /\ Keeps(u, k)
  BY <1>1, <1>3, <1>4, <1>5, UnmovedRunning
<1> QED BY <1>2, <1>6, StaysKept

(* A mutex without waiters that is taken, and one that is taken again or   *)
(* given back once: nobody waits for it in vain.                           *)
LEMMA MutexCountKept ==
  ASSUME IInv, NEW t \in Task, NEW m \in Mutex, NEW u \in Tables,
         Stays, k' = u, Unmoved(u, k), u.basePriority = k.basePriority,
         u.zombies = k.zombies, u.freeTcb = k.freeTcb, u.semUsed = k.semUsed,
         \A x \in Mutex \ {m} : u.pOwner[x] = k.pOwner[x],
         \A x \in Counted \ {m} : u.count[x] = k.count[x],
         u.count[m] > 0, k.count[m] = 0 \/ u.pOwner[m] = k.pOwner[m]
  PROVE  IInv'
<1>1. /\ k \in Tables /\ Running(k, TimedCalls(pc)) /\ Waits(k)
      /\ k.basePriority[Idle] = 0
  BY TablesTyped
<1>2. Waits(u)
  <2>1. m \notin Sem
    BY KernelAssumption
  <2>2. u.state = k.state /\ u.objPtr = k.objPtr
    BY DEF Unmoved
  <2> QED BY <1>1, <2>1, <2>2 DEF Waits, Counted
<1>3. Running(u, TimedCalls(pc)) /\ Keeps(u, k)
  BY <1>1, <1>2, UnmovedRunning
<1> QED BY <1>3, StaysKept

(* aaMutexTake of a free mutex.                                            *)
LEMMA MutexTakeFreeKept ==
  ASSUME IInv, NEW t \in Task, NEW m \in Mutex, MutexTakeFree(t, m)
  PROVE  IInv'
<1>1. k \in Tables
  BY TablesTyped
<1> DEFINE v == [k EXCEPT !.count[m] = 1]
           w == [v EXCEPT !.pOwner[m] = t]
           l == k.mutexList[t] \cup {m}
           u == [w EXCEPT !.mutexList[t] = l]
<1>2. Stays /\ k' = u /\ k.count[m] = 0
  BY DEF MutexTakeFree
<1>3. m \in Counted /\ 1 \in Int /\ l \in SUBSET Mutex
  BY <1>1 DEF Counted, Tables
<1>4. v \in Tables
  BY <1>1, <1>3, CountTyped
<1>5. w \in Tables
  BY <1>4, OwnerTyped
<1>6. /\ u.pOwner = [k.pOwner EXCEPT ![m] = t] /\ u.count = [k.count EXCEPT ![m] = 1]
      /\ u.basePriority = k.basePriority /\ u.zombies = k.zombies
      /\ u.freeTcb = k.freeTcb /\ u.semUsed = k.semUsed
      /\ Unmoved(u, k)
  BY DEF Unmoved
<1> HIDE DEF l, w
<1>7. u \in Tables
  BY <1>3, <1>5, MutexListTyped
<1> HIDE DEF u
<1>8. /\ \A x \in Mutex \ {m} : u.pOwner[x] = k.pOwner[x]
      /\ \A x \in Counted \ {m} : u.count[x] = k.count[x]
      /\ u.count[m] > 0
  BY <1>1, <1>3, <1>6 DEF Tables
<1> QED BY <1>2, <1>6, <1>7, <1>8, MutexCountKept

(* The nesting of a mutex that its owner keeps.                            *)
LEMMA MutexRecountKept ==
  ASSUME IInv, NEW t \in Task, NEW m \in Mutex, NEW n \in Int, n > 0,
         Stays, k' = [k EXCEPT !.count[m] = n]
  PROVE  IInv'
<1>1. k \in Tables
  BY TablesTyped
<1> DEFINE u == [k EXCEPT !.count[m] = n]
<1>2. m \in Counted
  BY DEF Counted
<1>3. u \in Tables
  BY <1>1, <1>2, CountTyped
<1>4. /\ u.pOwner = k.pOwner /\ u.count = [k.count EXCEPT ![m] = n]
      /\ u.basePriority = k.basePriority /\ u.zombies = k.zombies
      /\ u.freeTcb = k.freeTcb /\ u.semUsed = k.semUsed
      /\ Unmoved(u, k)
  BY DEF Unmoved
<1>5. k' = u
  OBVIOUS
<1> HIDE DEF u
<1>6. /\ \A x \in Mutex \ {m} : u.pOwner[x] = k.pOwner[x]
      /\ \A x \in Counted \ {m} : u.count[x] = k.count[x]
      /\ u.count[m] > 0 /\ u.pOwner[m] = k.pOwner[m]
  BY <1>1, <1>2, <1>4 DEF Tables
<1> QED BY <1>3, <1>4, <1>5, <1>6, MutexCountKept

(* aaMutexTake by the owner.                                               *)
LEMMA MutexTakeAgainKept ==
  ASSUME IInv, NEW t \in Task, NEW m \in Mutex, MutexTakeAgain(t, m)
  PROVE  IInv'
<1>1. /\ Stays /\ k' = [k EXCEPT !.count[m] = k.count[m] + 1]
      /\ k.count[m] + 1 \in Int /\ k.count[m] + 1 > 0
  BY MutexAssumption DEF MutexTakeAgain
<1> QED BY <1>1, MutexRecountKept

(* aaMutexGive of a nested mutex.                                          *)
LEMMA MutexGiveOnceKept ==
  ASSUME IInv, NEW t \in Task, NEW m \in Mutex, MutexGiveOnce(t, m)
  PROVE  IInv'
<1>1. k.count[m] \in Int
  BY TablesTyped DEF Tables, Counted
<1>2. /\ Stays /\ k' = [k EXCEPT !.count[m] = k.count[m] - 1]
      /\ k.count[m] - 1 \in Int /\ k.count[m] - 1 > 0
  BY <1>1 DEF MutexGiveOnce
<1> QED BY <1>2, MutexRecountKept

(* The owners of the mutexes take the priority of t.                       *)
LEMMA PropagateRuns ==
  ASSUME NEW s, NEW T, Running(s, T), NEW t \in Task
  PROVE  LET u == Propagate(s, t) IN
         Running(u, T) /\ Keeps(u, s) /\ SameRest(u, s) /\ SameTasks(u, s)
<1> DEFINE u == Propagate(s, t)
<1>1. Lists(u, {}, T) /\ SameRest(u, s) /\ SameTasks(u, s)
  BY PropagateLists DEF Running, Whole
<1> HIDE DEF u
<1>2. Whole(u, T) /\ Keeps(u, s)
  BY <1>1, ReorderedWhole DEF Running, SameRest
<1> QED BY <1>1, <1>2 DEF Running, SameRest, SameTasks, u

(* What a task asks for while it runs.                                     *)
LEMMA AskedRuns ==
  ASSUME NEW s, NEW T, Running(s, T), NEW t \in Task, s.state[t] = "ready",
         NEW x \in SyncObj
  PROVE  LET u == [s EXCEPT !.objPtr[t] = x] IN
         /\ Running(u, T) /\ SameObjects(u, s) /\ u.cur = s.cur
         /\ u.state = s.state /\ u.flags = s.flags
         /\ u.objPtr = [s.objPtr EXCEPT ![t] = x]
         /\ u.delayed = s.delayed /\ u.delay = s.delay
<1> DEFINE u == [s EXCEPT !.objPtr[t] = x]
<1>1. s \in Tables
  BY DEF Running, Whole, Lists
<1>2. u \in Tables
  BY <1>1 DEF Tables
<1>3. /\ SameObjects(u, s) /\ u.cur = s.cur
      /\ u.state = s.state /\ u.flags = s.flags
      /\ u.objPtr = [s.objPtr EXCEPT ![t] = x]
      /\ u.delayed = s.delayed /\ u.delay = s.delay
      /\ u.ready = s.ready /\ u.prioGroup = s.prioGroup /\ u.priority = s.priority
      /\ u.waitingList = s.waitingList /\ u.suspended = s.suspended
  BY DEF SameObjects
<1> HIDE DEF u
<1>4. \A a \in Task \ {t} : u.objPtr[a] = s.objPtr[a]
  BY <1>1, <1>3 DEF Tables
<1>5. ReadyAgree(u, {}) /\ SuspendedAgree(u, {}) /\ DelayedAgree(u, {}, T)
  <2>1. ReadyAgree(u, {})
    BY <1>3 DEF Running, Whole, Lists, ReadyAgree
  <2>2. SuspendedAgree(u, {})
    BY <1>3 DEF Running, Whole, Lists, SuspendedAgree
  <2>3. DelayedAgree(u, {}, T)
    BY <1>3 DEF Running, Whole, Lists, DelayedAgree, Timed
  <2> QED BY <2>1, <2>2, <2>3
<1>6. WaitersAgree(u, {})
  BY <1>3, <1>4 DEF Running, Whole, Lists, WaitersAgree, ListWait
<1>7. Waits(u)
  BY <1>3, <1>4 DEF Running, Whole, Waits, SameObjects
<1>8. Running(u, T)
  BY <1>2, <1>3, <1>5, <1>6, <1>7 DEF Running, Whole, Lists, SameObjects
<1> QED BY <1>3, <1>8 DEF u

(* aaMutexTake that waits, and lends its priority to the owners.           *)
LEMMA MutexTakeWaitKept ==
  ASSUME IInv, NEW t \in Task, NEW m \in Mutex, NEW d \in TakeDelays,
         MutexTakeWait(t, m, d)
  PROVE  /\ IInv' /\ Slept(k', k, t, "mutexWait") /\ k'.objPtr[t] = m
         /\ k'.flags = [k.flags EXCEPT ![t] = @ \ {"DELAYTMO"}]
<1> DEFINE asked == [k EXCEPT !.objPtr[t] = m]
           lent == IF k.priority[t] > k.priority[k.pOwner[m]] THEN Propagate(asked, t)
                                                              ELSE asked
           T == TimedCalls(pc')
<1>1. /\ Runs(t) /\ k.count[m] > 0 /\ k.pOwner[m] \in Task \ {t}
      /\ k' = WaitOrdered(lent, t, m, "mutexWait", {"DELAYTMO"}, d)
      /\ Blocks(t, "mutexTake", m)
  BY DEF MutexTakeWait
<1>2. t \in Task \ {Idle} /\ k.state[t] = "ready"
  BY <1>1, RunsFacts
<1>3. "mutexTake" \in Call \ (Making \cup {"semDelete"}) /\ m \in SyncObj
  BY DEF Call, Making, SyncObj
<1>4. Running(k, T)
  BY <1>1, <1>2, <1>3, BlocksTimed
<1> HIDE DEF T
<1>5. /\ Running(asked, T) /\ SameObjects(asked, k)
      /\ asked.state = k.state /\ asked.flags = k.flags
      /\ asked.objPtr = [k.objPtr EXCEPT ![t] = m]
      /\ asked.delayed = k.delayed /\ asked.delay = k.delay
  BY <1>2, <1>3, <1>4, AskedRuns
<1> HIDE DEF asked
<1>6. Running(lent, T) /\ SameObjects(lent, asked) /\ SameTasks(lent, asked)
  <2>1. CASE lent = asked
    BY <2>1, <1>5 DEF SameObjects, SameTasks
  <2>2. CASE lent = Propagate(asked, t)
    BY <2>2, <1>5, PropagateRuns DEF SameRest
  <2> QED BY <2>1, <2>2
<1> HIDE DEF lent
<1>7. /\ lent.state[t] = "ready" /\ lent.pOwner[m] \in Task \ {t} /\ lent.count[m] > 0
      /\ d \in 1 .. Infinite
  BY <1>1, <1>2, <1>5, <1>6, MutexAssumption DEF SameObjects, SameTasks
<1>8. /\ Running(k', T) /\ Slept(k', lent, t, "mutexWait")
      /\ k'.objPtr = [lent.objPtr EXCEPT ![t] = m]
      /\ k'.flags = [lent.flags EXCEPT ![t] = @ \ {"DELAYTMO"}]
  BY <1>1, <1>2, <1>3, <1>6, <1>7, WaitOrderedRuns
<1>9. Slept(k', k, t, "mutexWait")
  <2>1. k.objPtr \in [Task -> SyncObj \cup {None} \cup SUBSET Signal]
    BY TablesTyped DEF Tables
  <2> QED BY <2>1, <1>5, <1>6, <1>8 DEF Slept, SameObjects, SameTasks, Pending
<1>10. Keeps(k', k)
  BY <1>2, <1>9, SleptKeeps DEF State
<1>11. IInv'
  BY <1>1, <1>2, <1>3, <1>8, <1>10, BlocksKept DEF T
<1>12. k'.objPtr[t] = m
  BY <1>6, <1>8 DEF Running, Whole, Lists, Tables
<1>13. k'.flags = [k.flags EXCEPT ![t] = @ \ {"DELAYTMO"}]
  BY <1>5, <1>6, <1>8 DEF SameTasks
<1> QED BY <1>9, <1>11, <1>12, <1>13

(* The end of a wait, when the waiter runs again.                          *)
LEMMA FlagsReturnKept ==
  ASSUME IInv, NEW t \in Task, k.state[t] = "ready", Returns(t), NEW c,
         k' = [k EXCEPT !.flags[t] = c], c \subseteq k.flags[t]
  PROVE  IInv'
<1>1. k \in Tables /\ Running(k, TimedCalls(pc)) /\ Waits(k) /\ k.basePriority[Idle] = 0
  BY TablesTyped
<1>2. c \in SUBSET Flag
  BY <1>1 DEF Tables
<1>3. k' \in Tables
  BY <1>1, <1>2, FlagsTyped
<1>4. Unmoved(k', k) /\ SameObjects(k', k)
  BY DEF Unmoved, SameObjects
<1>5. Waits(k') /\ k'.basePriority[Idle] = 0
  BY <1>1, <1>4 DEF Waits, SameObjects, Unmoved
<1> QED BY <1>3, <1>4, <1>5, ReturnsKept DEF SameObjects

(* The end of a call that changes no table.                                *)
LEMMA UnchangedReturnKept ==
  ASSUME IInv, NEW t \in Task, k.state[t] = "ready", Returns(t), UNCHANGED k
  PROVE  IInv'
<1>1. k \in Tables /\ Running(k, TimedCalls(pc)) /\ Waits(k) /\ k.basePriority[Idle] = 0
  BY TablesTyped
<1>2. Unmoved(k', k)
  BY DEF Unmoved
<1> QED BY <1>1, <1>2, ReturnsKept

(* The end of aaMutexTake, without the mutex.                              *)
LEMMA MutexTakeTimedOutKept ==
  ASSUME IInv, NEW t \in Task, MutexTakeTimedOut(t)
  PROVE  IInv'
<1>1. /\ Resumes(t, "mutexTake") /\ Returns(t)
      /\ k' = [k EXCEPT !.flags[t] = k.flags[t] \ {"DELAYTMO"}]
  BY DEF MutexTakeTimedOut
<1> QED BY <1>1, ResumesFacts, FlagsReturnKept

(* The end of aaMutexTake, with the mutex.                                 *)
LEMMA MutexTakeGrantedKept ==
  ASSUME IInv, NEW t \in Task, MutexTakeGranted(t)
  PROVE  IInv'
<1> DEFINE l == k.mutexList[t] \cup {arg[t]}
           u == [k EXCEPT !.mutexList[t] = l]
<1>1. Resumes(t, "mutexTake") /\ Returns(t) /\ k' = u
  BY DEF MutexTakeGranted
<1>2. k \in Tables /\ Running(k, TimedCalls(pc)) /\ Waits(k) /\ k.basePriority[Idle] = 0
  BY TablesTyped
<1>3. l \in SUBSET Mutex
  BY <1>1, <1>2, ResumesFacts DEF Tables, IInv, CallsTyped
<1>4. /\ Unmoved(u, k) /\ u.basePriority = k.basePriority
      /\ u.zombies = k.zombies /\ u.freeTcb = k.freeTcb
      /\ u.pOwner = k.pOwner /\ u.count = k.count /\ u.semUsed = k.semUsed
  BY DEF Unmoved
<1>5. k' \in Tables
  BY <1>1, <1>2, <1>3, MutexListTyped
<1> HIDE DEF u
<1>6. Waits(u) /\ u.basePriority[Idle] = 0
  BY <1>2, <1>4 DEF Waits, Unmoved
<1> QED BY <1>1, <1>4, <1>5, <1>6, ResumesFacts, ReturnsKept

(* aaMutexNewPrio_ after a change that the lists do not depend on.         *)
LEMMA NewPrioRuns ==
  ASSUME NEW s, NEW T, Running(s, T), NEW t \in Task
  PROVE  LET u == NewPrio(s, t) IN
         Running(u, T) /\ Keeps(u, s) /\ SameRest(u, s) /\ SameTasks(u, s)
<1> DEFINE u == NewPrio(s, t)
<1>1. s.state[t] \in ListWait => s.objPtr[t] \in SyncObj
  BY DEF Running, Whole, Waits, ListWait, SyncObj
<1>2. Lists(u, {}, T) /\ SameRest(u, s) /\ SameTasks(u, s)
  BY <1>1, NewPrioLists DEF Running, Whole
<1> HIDE DEF u
<1>3. Whole(u, T) /\ Keeps(u, s)
  BY <1>2, ReorderedWhole DEF Running, SameRest
<1> QED BY <1>2, <1>3 DEF Running, SameRest, SameTasks, u

(* Nobody waits for an object whose waiting list is empty.                 *)
LEMMA NobodyWaits ==
  ASSUME NEW s, NEW T, Running(s, T), NEW x \in SyncObj, s.waitingList[x] = << >>
  PROVE  \A t \in Task : s.state[t] \in ListWait => s.objPtr[t] # x
<1>1. s.waitingList[x] \in Seq(Task)
  BY DEF Running, Whole, Lists, Tables
<1>2. Range(s.waitingList[x]) = {}
  BY <1>1, EmptyFacts
<1> QED BY <1>2 DEF Running, Whole, Lists, WaitersAgree

(* The mutex goes to the first waiter, or becomes free.                    *)
LEMMA HandOverRuns ==
  ASSUME NEW s, NEW T, Running(s, T), NEW m \in Mutex
  PROVE  Running(HandOver(s, m), T) /\ Keeps(HandOver(s, m), s)
<1>1. s \in Tables /\ Waits(s) /\ s.basePriority[Idle] = 0 /\ m \in SyncObj
  BY DEF Running, Whole, Lists, SyncObj
<1>2. CASE s.waitingList[m] # << >>
  <2> DEFINE h == Head(s.waitingList[m])
             v == WakeFirst(s, m)
             u == [v EXCEPT !.pOwner[m] = h]
  <2>1. HandOver(s, m) = u
    BY <1>2 DEF HandOver
  <2>2. h \in Task /\ s.state[h] = "mutexWait" /\ s.objPtr[h] = m
    BY <1>1, <1>2, HeadWaits
  <2>3. Running(v, T) /\ Keeps(v, s) /\ Woken(v, s, h, {})
    BY <1>1, <1>2, WakeFirstRuns
  <2> HIDE DEF v, h
  <2>4. v \in Tables /\ Waits(v) /\ v.basePriority[Idle] = 0
    BY <2>3 DEF Running, Whole, Lists
  <2>5. u \in Tables
    BY <2>2, <2>4, OwnerTyped
  <2>6. /\ Unmoved(u, v) /\ u.basePriority = v.basePriority
        /\ u.zombies = v.zombies /\ u.freeTcb = v.freeTcb
        /\ u.pOwner = [v.pOwner EXCEPT ![m] = h]
        /\ u.count = v.count /\ u.semUsed = v.semUsed
    BY DEF Unmoved
  <2> HIDE DEF u
  <2>7. Waits(u)
    <3>1. v.state[h] \notin ListWait
      BY <1>1, <2>2, <2>3 DEF Woken, Tables, ListWait
    <3>2. u.pOwner[m] = h /\ \A x \in Mutex \ {m} : u.pOwner[x] = v.pOwner[x]
      BY <2>4, <2>6 DEF Tables
    <3>3. u.state = v.state /\ u.objPtr = v.objPtr
      BY <2>6 DEF Unmoved
    <3> QED BY <2>2, <2>4, <2>6, <3>1, <3>2, <3>3 DEF Waits, ListWait
  <2>8. Running(u, T) /\ Keeps(u, v)
    BY <2>3, <2>4, <2>5, <2>6, <2>7, UnmovedRunning
  <2>9. Keeps(u, s)
    BY <2>3, <2>8, KeepsTransitive
  <2> QED BY <2>1, <2>8, <2>9
<1>3. CASE s.waitingList[m] = << >>
  <2> DEFINE v == [s EXCEPT !.count[m] = 0]
             u == [v EXCEPT !.pOwner[m] = None]
  <2>1. HandOver(s, m) = u
    BY <1>3 DEF HandOver
  <2>2. m \in Counted /\ 0 \in Int
    BY DEF Counted
  <2>3. v \in Tables
    BY <1>1, <2>2, CountTyped
  <2>4. u \in Tables
    BY <2>3, OwnerTyped
  <2>5. /\ Unmoved(u, s) /\ u.basePriority = s.basePriority
        /\ u.zombies = s.zombies /\ u.freeTcb = s.freeTcb
        /\ u.pOwner = [s.pOwner EXCEPT ![m] = None]
        /\ u.count = [s.count EXCEPT ![m] = 0] /\ u.semUsed = s.semUsed
    BY DEF Unmoved
  <2> HIDE DEF u, v
  <2>6. Waits(u)
    <3>1. \A t \in Task : s.state[t] \in ListWait => s.objPtr[t] # m
      BY <1>1, <1>3, NobodyWaits
    <3>2. /\ \A x \in Mutex \ {m} : u.pOwner[x] = s.pOwner[x]
          /\ \A x \in Counted \ {m} : u.count[x] = s.count[x]
      BY <1>1, <2>5 DEF Tables
    <3>3. u.state = s.state /\ u.objPtr = s.objPtr
      BY <2>5 DEF Unmoved
    <3> QED BY <1>1, <2>5, <3>1, <3>2, <3>3 DEF Waits, ListWait, Counted
  <2> QED BY <1>1, <2>1, <2>4, <2>5, <2>6, UnmovedRunning
<1> QED BY <1>2, <1>3

(* aaMutexGive.                                                            *)
LEMMA MutexGiveKept ==
  ASSUME IInv, NEW t \in Task, NEW m \in Mutex, MutexGive(t, m)
  PROVE  IInv'
<1> DEFINE T == TimedCalls(pc)
           l == k.mutexList[t] \ {m}
           s == [k EXCEPT !.mutexList[t] = l]
           v == NewPrio(s, t)
           u == HandOver(v, m)
<1>1. CalledFromTask(u)
  BY DEF MutexGive
<1>2. k \in Tables /\ Running(k, T) /\ Waits(k) /\ k.basePriority[Idle] = 0
  BY TablesTyped
<1>3. l \in SUBSET Mutex
  BY <1>2 DEF Tables
<1>4. s \in Tables
  BY <1>2, <1>3, MutexListTyped
<1>5. /\ Unmoved(s, k) /\ s.basePriority = k.basePriority
      /\ s.zombies = k.zombies /\ s.freeTcb = k.freeTcb
      /\ s.pOwner = k.pOwner /\ s.count = k.count /\ s.semUsed = k.semUsed
  BY DEF Unmoved
<1> HIDE DEF s, T
<1>6. Waits(s)
  BY <1>2, <1>5 DEF Waits, Unmoved
<1>7. Running(s, T) /\ Keeps(s, k)
  BY <1>2, <1>4, <1>5, <1>6, UnmovedRunning
<1>8. Running(v, T) /\ Keeps(v, s)
  BY <1>7, NewPrioRuns
<1> HIDE DEF v
<1>9. Running(u, T) /\ Keeps(u, v)
  BY <1>8, HandOverRuns
<1> HIDE DEF u
<1>10. Keeps(u, k)
  BY <1>7, <1>8, <1>9, KeepsTransitive
<1> QED BY <1>1, <1>9, <1>10, CalledKept DEF T

(* The mutexes.                                                            *)
LEMMA MutexNextKept ==
  ASSUME IInv, MutexNext
  PROVE  IInv'
BY MutexCreateKept, MutexDeleteKept, MutexTakeFreeKept, MutexTakeAgainKept,
   MutexTakeWaitKept, MutexTakeTimedOutKept, MutexTakeGrantedKept, MutexGiveKept,
   MutexGiveOnceKept DEF MutexNext

-----------------------------------------------------------------------------
(* Semaphores.                                                             *)

(* The count of a semaphore without waiters changes.                       *)
LEMMA SemCountRuns ==
  ASSUME NEW s, NEW T, Running(s, T), NEW x \in Sem, NEW u \in Tables,
         Unmoved(u, s), u.basePriority = s.basePriority, u.pOwner = s.pOwner,
         u.zombies = s.zombies, u.freeTcb = s.freeTcb, s.semUsed \subseteq u.semUsed,
         \A y \in Counted \ {x} : u.count[y] = s.count[y],
         u.count[x] <= 0 \/ \A t \in Task : s.state[t] = "semWait" => s.objPtr[t] # x
  PROVE  Running(u, T) /\ Keeps(u, s)
<1>1. Waits(s) /\ s.basePriority[Idle] = 0
  BY DEF Running, Whole
<1>2. x \notin Mutex
  BY KernelAssumption
<1>3. u.state = s.state /\ u.objPtr = s.objPtr
  BY DEF Unmoved
<1>4. Waits(u)
  BY <1>1, <1>2, <1>3 DEF Waits, Counted
<1> QED BY <1>1, <1>4, UnmovedRunning

(* aaSemCreate.                                                            *)
LEMMA SemCreateKept ==
  ASSUME IInv, NEW t \in Task, NEW x \in Sem, NEW n \in SemCounts, SemCreate(t, x, n)
  PROVE  IInv'
<1>1. k \in Tables /\ Running(k, TimedCalls(pc)) /\ Waits(k)
  BY TablesTyped
<1>2. /\ Stays /\ x \notin k.semUsed
      /\ k' = [k EXCEPT !.semUsed = @ \cup {x}, !.count[x] = n,
                        !.waitingList[x] = << >>]
  BY DEF SemCreate
<1>3. \A a \in Task : k.state[a] = "semWait" => k.objPtr[a] # x
  BY <1>1, <1>2 DEF Waits
<1>4. k.waitingList[x] = << >>
  <2>1. SUFFICES ASSUME k.waitingList[x] # << >> PROVE FALSE
    OBVIOUS
  <2>2. x \in SyncObj
    BY DEF SyncObj
  <2> DEFINE a == Head(k.waitingList[x])
  <2>3. a \in Task /\ k.state[a] = "semWait" /\ k.objPtr[a] = x
    BY <1>1, <2>1, <2>2, HeadWaits
  <2> QED BY <1>3, <2>3
<1> DEFINE v == [k EXCEPT !.semUsed = @ \cup {x}]
           u == [v EXCEPT !.count[x] = n]
<1>5. k' = u
  <2>1. k.waitingList = [k.waitingList EXCEPT ![x] = << >>]
    BY <1>1, <1>4 DEF Tables
  <2> QED BY <1>1, <1>2, <2>1 DEF Tables
<1>6. v \in Tables
  BY <1>1 DEF Tables
<1>7. x \in Counted /\ n \in Int
  BY SemAssumption DEF Counted
<1>8. /\ Unmoved(u, k) /\ u.basePriority = k.basePriority /\ u.pOwner = k.pOwner
      /\ u.zombies = k.zombies /\ u.freeTcb = k.freeTcb
      /\ k.semUsed \subseteq u.semUsed
      /\ u.count = [k.count EXCEPT ![x] = n]
  BY DEF Unmoved
<1> HIDE DEF v
<1>9. u \in Tables
  BY <1>6, <1>7, CountTyped
<1> HIDE DEF u
<1>10. \A y \in Counted \ {x} : u.count[y] = k.count[y]
  BY <1>1, <1>8 DEF Tables
<1>11. Running(u, TimedCalls(pc)) /\ Keeps(u, k)
  BY <1>1, <1>3, <1>8, <1>9, <1>10, SemCountRuns
<1> QED BY <1>2, <1>5, <1>11, StaysKept

(* The count of a semaphore changes, to none left or with nobody waiting.  *)
LEMMA SemRecountRuns ==
  ASSUME NEW s, NEW T, Running(s, T), NEW x \in Sem, NEW n \in Int,
         n <= 0 \/ \A t \in Task : s.state[t] = "semWait" => s.objPtr[t] # x
  PROVE  LET u == [s EXCEPT !.count[x] = n] IN Running(u, T) /\ Keeps(u, s)
<1> DEFINE u == [s EXCEPT !.count[x] = n]
<1>1. s \in Tables /\ x \in Counted
  BY DEF Running, Whole, Lists, Counted
<1>2. /\ Unmoved(u, s) /\ u.basePriority = s.basePriority /\ u.pOwner = s.pOwner
      /\ u.zombies = s.zombies /\ u.freeTcb = s.freeTcb
      /\ u.semUsed = s.semUsed
      /\ u.count = [s.count EXCEPT ![x] = n]
  BY DEF Unmoved
<1>3. u \in Tables
  BY <1>1, CountTyped
<1> HIDE DEF u
<1>4. u.count[x] = n /\ \A y \in Counted \ {x} : u.count[y] = s.count[y]
  BY <1>1, <1>2 DEF Tables
<1>5. Running(u, T) /\ Keeps(u, s)
  BY <1>2, <1>3, <1>4, SemCountRuns
<1> QED BY <1>5 DEF u

(* aaSemTake of a semaphore that has permits.                              *)
LEMMA SemTakeNowKept ==
  ASSUME IInv, NEW t \in Task, NEW x \in Sem, SemTakeNow(t, x)
  PROVE  IInv'
<1>1. k \in Tables /\ Running(k, TimedCalls(pc)) /\ Waits(k)
  BY TablesTyped
<1>2. k.count[x] \in Int
  BY <1>1 DEF Tables, Counted
<1>3. Stays /\ k.count[x] > 0 /\ k' = [k EXCEPT !.count[x] = k.count[x] - 1]
  BY DEF SemTakeNow
<1>4. \A a \in Task : k.state[a] = "semWait" => k.objPtr[a] # x
  BY <1>1, <1>2, <1>3 DEF Waits
<1>5. k.count[x] - 1 \in Int
  BY <1>2
<1>6. Running(k', TimedCalls(pc)) /\ Keeps(k', k)
  BY <1>1, <1>3, <1>4, <1>5, SemRecountRuns
<1> QED BY <1>3, <1>6, StaysKept

(* aaSemReset.                                                             *)
LEMMA SemResetKept ==
  ASSUME IInv, NEW t \in Task, NEW x \in Sem, NEW n \in ResetCounts, SemReset(t, x, n)
  PROVE  IInv'
<1>1. k \in Tables /\ Running(k, TimedCalls(pc))
  BY TablesTyped
<1>2. Stays /\ k.waitingList[x] = << >> /\ k' = [k EXCEPT !.count[x] = n % 65536]
  BY DEF SemReset
<1>3. x \in SyncObj /\ n % 65536 \in Int
  BY SemAssumption DEF SyncObj
<1>4. \A a \in Task : k.state[a] = "semWait" => k.objPtr[a] # x
  BY <1>1, <1>2, <1>3, NobodyWaits DEF ListWait
<1>5. Running(k', TimedCalls(pc)) /\ Keeps(k', k)
  BY <1>1, <1>2, <1>3, <1>4, SemRecountRuns
<1> QED BY <1>2, <1>5, StaysKept

(* aaSemTake that waits.                                                   *)
LEMMA SemTakeWaitKept ==
  ASSUME IInv, NEW t \in Task, NEW x \in Sem, NEW d \in TakeDelays, SemTakeWait(t, x, d)
  PROVE  /\ IInv' /\ Slept(k', k, t, "semWait") /\ k'.objPtr[t] = x
         /\ k'.flags = [k.flags EXCEPT ![t] = @ \ {"FLUSH", "DELAYTMO"}]
<1> DEFINE T == TimedCalls(pc')
<1>1. /\ Runs(t) /\ Usable(x) /\ k.count[x] <= 0
      /\ k' = WaitOrdered(k, t, x, "semWait", {"FLUSH", "DELAYTMO"}, d)
      /\ Blocks(t, "semTake", x)
  BY DEF SemTakeWait
<1>2. /\ t \in Task \ {Idle} /\ k.state[t] = "ready" /\ isr = "none"
      /\ flushing = None /\ Pending(k)
  BY <1>1, RunsFacts
<1>3. "semTake" \in Call \ (Making \cup {"semDelete"}) /\ x \in SyncObj
  BY DEF Call, Making, SyncObj
<1>4. Running(k, T)
  BY <1>1, <1>2, <1>3, BlocksTimed
<1> HIDE DEF T
<1>5. d \in 1 .. Infinite /\ x \in k.semUsed
  BY <1>1, MutexAssumption DEF Usable
<1> DEFINE u == WaitOrdered(k, t, x, "semWait", {"FLUSH", "DELAYTMO"}, d)
<1>6. /\ Running(u, T) /\ Slept(u, k, t, "semWait")
      /\ u.objPtr = [k.objPtr EXCEPT ![t] = x]
      /\ u.flags = [k.flags EXCEPT ![t] = @ \ {"FLUSH", "DELAYTMO"}]
  BY <1>1, <1>2, <1>3, <1>4, <1>5, WaitOrderedRuns
<1>7. /\ Running(k', T) /\ Slept(k', k, t, "semWait")
      /\ k'.objPtr = [k.objPtr EXCEPT ![t] = x]
  BY <1>1, <1>6
<1>8. /\ CallsTyped' /\ isr' = isr /\ flushing' = flushing
      /\ pc'[t] = "semTake"
      /\ \A a \in Task \ {t} : pc'[a] = pc[a] /\ arg'[a] = arg[a]
  BY <1>1, <1>3, BlocksTyped
<1>9. Tcbs(k', pc', arg')
  BY <1>2, <1>7, <1>8, TcbsKept DEF Slept, SameObjects, Making
<1>10. Deletes(k', pc', arg', flushing')
  <2> SUFFICES ASSUME NEW v \in Task, pc'[v] = "semDelete"
               PROVE  /\ arg'[v] \in Sem
                      /\ \A a \in Task : k'.state[a] = "semWait" => k'.objPtr[a] # arg'[v]
    BY DEF Deletes
  <2>1. v # t /\ pc[v] = "semDelete" /\ arg'[v] = arg[v]
    BY <1>8
  <2>2. arg[v] \in Sem /\ arg[v] # x /\ None \notin Sem
    BY <1>1, <2>1, KernelAssumption DEF IInv, Deletes, Usable, BeingDeleted, SyncObj
  <2>3. \A a \in Task : k.state[a] = "semWait" => k.objPtr[a] # arg[v]
    BY <1>2, <2>1, <2>2 DEF IInv, Deletes
  <2>4. k'.objPtr[t] = x
    BY <1>7, TablesTyped DEF Tables
  <2> QED BY <1>7, <2>1, <2>2, <2>3, <2>4 DEF Slept
<1>11. Pending(k')
  BY <1>2, <1>7 DEF Slept
<1>12. k'.objPtr[t] = x
  BY <1>7, TablesTyped DEF Tables
<1> QED BY <1>1, <1>6, <1>7, <1>8, <1>9, <1>10, <1>11, <1>12 DEF T, IInv

(* The end of aaSemTake, flushed or timed out.                             *)
LEMMA SemTakeFailedKept ==
  ASSUME IInv, NEW t \in Task, SemTakeFailed(t)
  PROVE  IInv'
<1> DEFINE c == IF "FLUSH" \in k.flags[t] THEN k.flags[t] \ {"FLUSH"}
                                          ELSE k.flags[t] \ {"DELAYTMO"}
<1>1. Resumes(t, "semTake") /\ Returns(t) /\ k' = [k EXCEPT !.flags[t] = c]
  BY DEF SemTakeFailed
<1>2. c \subseteq k.flags[t]
  OBVIOUS
<1> HIDE DEF c
<1> QED BY <1>1, <1>2, ResumesFacts, FlagsReturnKept

(* The end of aaSemTake, with a permit.                                    *)
LEMMA SemTakeGrantedKept ==
  ASSUME IInv, NEW t \in Task, SemTakeGranted(t)
  PROVE  IInv'
BY ResumesFacts, UnchangedReturnKept DEF SemTakeGranted

(* A permit goes to the first waiter, or to the count.                     *)
LEMMA GiveRuns ==
  ASSUME NEW s, NEW T, Running(s, T), NEW x \in Sem
  PROVE  Running(Give(s, x), T) /\ Keeps(Give(s, x), s)
<1>1. x \in SyncObj /\ s.count[x] \in Int
  BY DEF SyncObj, Running, Whole, Lists, Tables, Counted
<1>2. CASE s.count[x] < 0 \/ s.waitingList[x] = << >>
  <2> DEFINE n == s.count[x] + 1
             v == [s EXCEPT !.count[x] = n]
             u == [v EXCEPT !.sched = FALSE]
  <2>1. Give(s, x) = u
    BY <1>2 DEF Give
  <2>2. n \in Int
    BY <1>1
  <2>3. n <= 0 \/ \A t \in Task : s.state[t] = "semWait" => s.objPtr[t] # x
    <3>1. CASE s.count[x] < 0
      BY <3>1, <1>1
    <3>2. CASE s.waitingList[x] = << >>
      BY <3>2, <1>1, NobodyWaits DEF ListWait
    <3> QED BY <1>2, <3>1, <3>2
  <2> HIDE DEF n
  <2>4. Running(v, T) /\ Keeps(v, s)
    BY <2>2, <2>3, SemRecountRuns
  <2> HIDE DEF v
  <2>5. Running(u, T) /\ Keeps(u, v)
    BY <2>4, NoScheduleRuns
  <2> HIDE DEF u
  <2>6. Keeps(u, s)
    BY <2>4, <2>5, KeepsTransitive
  <2> QED BY <2>1, <2>5, <2>6
<1>3. CASE ~ (s.count[x] < 0 \/ s.waitingList[x] = << >>)
  <2>1. Give(s, x) = WakeFirst(s, x)
    BY <1>3 DEF Give
  <2> QED BY <2>1, <1>1, <1>3, WakeFirstRuns
<1> QED BY <1>2, <1>3

(* aaSemGive, from a task or a handler.                                    *)
LEMMA SemGiveKept ==
  ASSUME IInv, NEW x \in Sem,
         CalledFromTask(Give(k, x)) \/ CalledFromIsr(Give(k, x))
  PROVE  IInv'
<1>1. Running(Give(k, x), TimedCalls(pc)) /\ Keeps(Give(k, x), k)
  BY TablesTyped, GiveRuns
<1> QED BY <1>1, CalledKept

(* aaSemFlush begins.                                                      *)
LEMMA FlushBeginKept ==
  ASSUME IInv, NEW x \in Sem, FlushBegin(x), pc' = pc, arg' = arg,
         isr' = isr \/ (isr = "none" /\ isr' = "other")
  PROVE  IInv'
<1>1. k' = k /\ pc' = pc /\ arg' = arg /\ flushing = None /\ flushing' = x
  BY DEF FlushBegin
<1>2. CallsTyped' /\ Running(k', TimedCalls(pc')) /\ Keeps(k', k)
  BY <1>1, KeepsItself DEF IInv, CallsTyped
<1> QED BY <1>1, <1>2, Kept

(* aaSemFlush wakes one waiter.                                            *)
LEMMA FlushOneKept ==
  ASSUME IInv, NEW x \in Sem, FlushOne(x)
  PROVE  IInv'
<1> DEFINE h == Head(k.waitingList[x])
           c == k.flags[h] \cup {"FLUSH"}
           s == [k EXCEPT !.flags[h] = c]
           u == WakeFirst(s, x)
<1>1. Stays /\ k.waitingList[x] # << >> /\ k' = u
  BY DEF FlushOne
<1>2. k \in Tables /\ Running(k, TimedCalls(pc)) /\ x \in SyncObj
  BY TablesTyped DEF SyncObj
<1>3. h \in Task
  BY <1>1, <1>2, HeadWaits
<1> HIDE DEF h
<1>4. c \in SUBSET Flag
  BY <1>2, <1>3 DEF Tables, Flag
<1> HIDE DEF c
<1>5. Running(s, TimedCalls(pc)) /\ Keeps(s, k) /\ Unmoved(s, k)
  BY <1>2, <1>3, <1>4, FlagsRun
<1> HIDE DEF s
<1>6. s.waitingList[x] # << >>
  BY <1>1, <1>5 DEF Unmoved
<1>7. Running(u, TimedCalls(pc)) /\ Keeps(u, s)
  BY <1>2, <1>5, <1>6, WakeFirstRuns
<1> HIDE DEF u
<1>8. Keeps(u, k)
  BY <1>5, <1>7, KeepsTransitive
<1> QED BY <1>1, <1>7, <1>8, StaysKept

(* aaSemFlush ends.                                                        *)
LEMMA FlushEndKept ==
  ASSUME IInv, NEW x \in Sem, FlushEnd(x)
  PROVE  IInv'
<1>1. /\ flushing = x /\ k.waitingList[x] = << >> /\ flushing' = None
      /\ pc' = pc /\ arg' = arg /\ isr' \in {isr, "none"}
      /\ isr = "tick" => isr' = isr
  BY DEF FlushEnd, IInv, CallsTyped
<1>2. Running(k, TimedCalls(pc)) /\ x \in SyncObj
  BY TablesTyped DEF SyncObj
<1>3. Running(k', TimedCalls(pc)) /\ Keeps(k', k)
  <2>0. isr = "none" \/ isr = "other" \/ isr = "tick"
    BY DEF IInv, CallsTyped
  <2>1. \/ k' = ScheduleIf(k) \/ k' = Schedule(k) \/ k' = [k EXCEPT !.sched = FALSE]
    BY <2>0 DEF FlushEnd
  <2> QED BY <1>2, <2>1, ScheduleIfRuns, ScheduleRuns, NoScheduleRuns DEF Running
<1>4. \A t \in Task : k'.state[t] = "semWait" => k'.objPtr[t] # flushing
  BY <1>1, <1>2, <1>3, NobodyWaits DEF Keeps, ListWait
<1>5. CallsTyped'
  BY <1>1 DEF IInv, CallsTyped
<1> QED BY <1>1, <1>3, <1>4, <1>5, Kept

(* The semaphore is flushed in the critical section that begins to delete  *)
(* it, and stays without waiters.                                          *)
LEMMA SemDeleteKept ==
  ASSUME IInv, NEW t \in Task, NEW x \in Sem, SemDelete(t, x)
  PROVE  IInv'
<1>1. /\ Runs(t) /\ k' = k /\ isr' = isr
      /\ flushing' = IF k.waitingList[x] = << >> THEN None ELSE x
      /\ pc' = [pc EXCEPT ![t] = "semDelete"] /\ arg' = [arg EXCEPT ![t] = x]
  BY DEF SemDelete
<1>2. /\ Running(k, TimedCalls(pc)) /\ x \in SyncObj
      /\ pc \in [Task -> Call] /\ arg \in [Task -> SyncObj \cup Task \cup {None}]
  BY TablesTyped DEF SyncObj
<1>3. flushing = None /\ pc[t] = "run" /\ k.state[t] = "ready"
  BY <1>1, RunsFacts
<1>4. CallsTyped'
  BY <1>1, <1>2 DEF IInv, CallsTyped, Call
<1>5. TimedCalls(pc') = TimedCalls(pc)
  BY <1>1, <1>2, <1>3 DEF TimedCalls
<1>6. Tcbs(k', pc', arg')
  BY <1>1, <1>2, <1>3, TcbsKept DEF Making
<1>7. Deletes(k', pc', arg', flushing')
  <2>1. flushing' = x \/ \A a \in Task : k.state[a] = "semWait" => k.objPtr[a] # x
    BY <1>1, <1>2, NobodyWaits DEF ListWait
  <2>2. None \notin Sem
    BY KernelAssumption DEF SyncObj
  <2> QED BY <1>1, <1>2, <1>3, <2>1, <2>2 DEF IInv, Deletes
<1> QED BY <1>1, <1>2, <1>4, <1>5, <1>6, <1>7 DEF IInv

(* The second half of aaSemDelete.                                         *)
LEMMA SemDeleteEndKept ==
  ASSUME IInv, NEW t \in Task, SemDeleteEnd(t)
  PROVE  IInv'
<1> DEFINE x == arg[t]
           u == [k EXCEPT !.semUsed = @ \ {x}]
<1>1. Resumes(t, "semDelete") /\ Returns(t) /\ k' = u
  BY DEF SemDeleteEnd
<1>2. k \in Tables /\ Waits(k) /\ k.basePriority[Idle] = 0
  BY TablesTyped
<1>3. k.state[t] = "ready" /\ flushing = None /\ pc[t] = "semDelete"
  BY <1>1, ResumesFacts
<1>4. \A a \in Task : k.state[a] = "semWait" => k.objPtr[a] # x
  BY <1>3, KernelAssumption DEF IInv, Deletes, SyncObj
<1>5. u \in Tables
  BY <1>2 DEF Tables
<1>6. /\ Unmoved(u, k) /\ u.basePriority = k.basePriority
      /\ u.zombies = k.zombies /\ u.freeTcb = k.freeTcb
      /\ u.pOwner = k.pOwner /\ u.count = k.count /\ u.semUsed = k.semUsed \ {x}
  BY DEF Unmoved
<1> HIDE DEF u
<1>7. Waits(u)
  BY <1>2, <1>4, <1>6 DEF Waits, Unmoved
<1> QED BY <1>1, <1>2, <1>3, <1>5, <1>6, <1>7, ReturnsKept

(* The semaphores.                                                         *)
LEMMA SemNextKept ==
  ASSUME IInv, SemNext
  PROVE  IInv'
<1>1. ASSUME NEW t \in Task, NEW x \in Sem, SemFlush(t, x)
      PROVE  IInv'
  <2>1. FlushBegin(x) /\ pc' = pc /\ arg' = arg /\ isr' = isr
    BY <1>1 DEF SemFlush
  <2> QED BY <2>1, FlushBeginKept
<1>2. ASSUME NEW x \in Sem, SemFlushFromIsr(x)
      PROVE  IInv'
  <2>1. /\ FlushBegin(x) /\ pc' = pc /\ arg' = arg
        /\ isr' = isr \/ (isr = "none" /\ isr' = "other")
    BY <1>2 DEF SemFlushFromIsr
  <2> QED BY <2>1, FlushBeginKept
<1>3. ASSUME NEW t \in Task, NEW x \in Sem, SemGive(t, x)
      PROVE  IInv'
  BY <1>3, SemGiveKept DEF SemGive
<1>4. ASSUME NEW x \in Sem, SemGiveFromIsr(x)
      PROVE  IInv'
  BY <1>4, SemGiveKept DEF SemGiveFromIsr
<1> QED BY <1>1, <1>2, <1>3, <1>4, SemCreateKept, SemResetKept, SemTakeNowKept,
           SemTakeWaitKept, SemDeleteKept, SemTakeFailedKept, SemTakeGrantedKept,
           SemDeleteEndKept, FlushOneKept, FlushEndKept DEF SemNext

-----------------------------------------------------------------------------
(* Signals.                                                                *)

(* A change of the signals, the flags and the reschedule request only.     *)
LEMMA SignalsRun ==
  ASSUME NEW s, NEW T, Running(s, T), NEW u \in Tables, Unmoved(u, s),
         u.basePriority = s.basePriority, u.pOwner = s.pOwner, u.count = s.count,
         u.semUsed = s.semUsed, u.zombies = s.zombies, u.freeTcb = s.freeTcb
  PROVE  Running(u, T) /\ Keeps(u, s)
<1>1. Waits(s) /\ s.basePriority[Idle] = 0
  BY DEF Running, Whole
<1>2. Waits(u)
  BY <1>1 DEF Waits, Unmoved
<1> QED BY <1>1, <1>2, UnmovedRunning

(* The signals received change.                                            *)
LEMMA SigsRecvRuns ==
  ASSUME NEW s, NEW T, Running(s, T), NEW t \in Task, NEW r \in SUBSET Signal
  PROVE  LET u == [s EXCEPT !.sigsRecv[t] = r] IN
         /\ Running(u, T) /\ Keeps(u, s) /\ Unmoved(u, s) /\ u.flags = s.flags
         /\ u.mutexList = s.mutexList /\ u.pOwner = s.pOwner /\ u.count = s.count
         /\ u.sigsWait = s.sigsWait /\ u.sigsRecv = [s.sigsRecv EXCEPT ![t] = r]
<1> DEFINE u == [s EXCEPT !.sigsRecv[t] = r]
<1>1. s \in Tables
  BY DEF Running, Whole, Lists
<1>2. u \in Tables
  BY <1>1 DEF Tables
<1>3. /\ Unmoved(u, s)
      /\ u.basePriority = s.basePriority /\ u.pOwner = s.pOwner /\ u.count = s.count
      /\ u.semUsed = s.semUsed /\ u.zombies = s.zombies /\ u.freeTcb = s.freeTcb
      /\ u.flags = s.flags
  BY DEF Unmoved
<1> HIDE DEF u
<1>4. Running(u, T) /\ Keeps(u, s)
  BY <1>2, <1>3, SignalsRun
<1> QED BY <1>3, <1>4 DEF u

(* A task notes what it waits for.                                         *)
LEMMA SignalAskedRuns ==
  ASSUME NEW T, Running(k, T), NEW t \in Task, NEW w \in SUBSET Signal,
         NEW mode \in SUBSET Flag
  PROVE  LET u == SignalAsked(t, w, mode) IN
         /\ Running(u, T) /\ Keeps(u, k) /\ Unmoved(u, k)
         /\ u.mutexList = k.mutexList /\ u.pOwner = k.pOwner /\ u.count = k.count
         /\ u.sigsRecv = k.sigsRecv /\ u.sigsWait = [k.sigsWait EXCEPT ![t] = w]
         /\ u.flags = [k.flags EXCEPT ![t] = (@ \ {"SIGNALAND"}) \cup mode]
<1> DEFINE c == (k.flags[t] \ {"SIGNALAND"}) \cup mode
           v == [k EXCEPT !.flags[t] = c]
           u == [v EXCEPT !.sigsWait[t] = w]
<1>1. k \in Tables
  BY DEF Running, Whole, Lists
<1>2. c \in SUBSET Flag
  BY <1>1 DEF Tables
<1>3. SignalAsked(t, w, mode) = u
  BY Zenon DEF SignalAsked
<1> HIDE DEF c
<1>4. v \in Tables
  BY <1>1, <1>2, FlagsTyped
<1>5. /\ Unmoved(u, k)
      /\ u.basePriority = k.basePriority /\ u.pOwner = k.pOwner /\ u.count = k.count
      /\ u.semUsed = k.semUsed /\ u.zombies = k.zombies /\ u.freeTcb = k.freeTcb
      /\ u.mutexList = k.mutexList /\ u.sigsRecv = k.sigsRecv
      /\ u.sigsWait = [k.sigsWait EXCEPT ![t] = w]
      /\ u.flags = [k.flags EXCEPT ![t] = c]
  BY DEF Unmoved
<1> HIDE DEF v
<1>6. u \in Tables
  BY <1>4 DEF Tables
<1> HIDE DEF u
<1>7. Running(u, T) /\ Keeps(u, k)
  BY <1>5, <1>6, SignalsRun
<1> QED BY <1>3, <1>5, <1>7 DEF c

(* The signals and the modes asked for are signals and flags.              *)
LEMMA SignalTyped ==
  ASSUME NEW w \in SignalSets, NEW mode \in Modes
  PROVE  w \in SUBSET Signal /\ mode \in SUBSET Flag
BY SignalAssumption DEF Modes, Flag

(* aaSignalWait that does not wait.                                        *)
LEMMA SignalTryKept ==
  ASSUME IInv, NEW t \in Task, NEW w \in SignalSets, NEW mode \in Modes,
         SignalTry(t, w, mode)
  PROVE  IInv'
<1> DEFINE T == TimedCalls(pc)
           s == SignalAsked(t, w, mode)
           r == s.sigsRecv[t] \ Matched(w, s.sigsRecv[t], mode # {})
           u == [s EXCEPT !.sigsRecv[t] = r]
<1>1. Stays /\ k' = u
  BY Zenon DEF SignalTry
<1>2. Running(k, T)
  BY TablesTyped
<1> HIDE DEF T
<1>3. Running(s, T) /\ Keeps(s, k)
  BY <1>2, SignalTyped, SignalAskedRuns
<1> HIDE DEF s
<1>4. r \in SUBSET Signal
  BY <1>3 DEF Running, Whole, Lists, Tables
<1> HIDE DEF r
<1>5. Running(u, T) /\ Keeps(u, s)
  BY <1>3, <1>4, SigsRecvRuns
<1> HIDE DEF u
<1>6. Keeps(u, k)
  BY <1>3, <1>5, KeepsTransitive
<1> QED BY <1>1, <1>5, <1>6, StaysKept DEF T

(* aaSignalClear.                                                          *)
LEMMA SignalClearKept ==
  ASSUME IInv, NEW t \in Task, NEW v \in Task, NEW bits \in SignalSets,
         SignalClear(t, v, bits)
  PROVE  IInv'
<1> DEFINE r == k.sigsRecv[v] \ bits
<1>1. Stays /\ k' = [k EXCEPT !.sigsRecv[v] = r]
  BY Zenon DEF SignalClear
<1>2. Running(k, TimedCalls(pc))
  BY TablesTyped
<1>3. r \in SUBSET Signal
  BY <1>2 DEF Running, Whole, Lists, Tables
<1> HIDE DEF r
<1>4. Running(k', TimedCalls(pc)) /\ Keeps(k', k)
  BY <1>1, <1>2, <1>3, SigsRecvRuns
<1> QED BY <1>1, <1>4, StaysKept

(* aaSignalWait that waits.                                                *)
LEMMA SignalWaitKept ==
  ASSUME IInv, NEW t \in Task, NEW w \in SignalSets, NEW mode \in Modes,
         NEW d \in TakeDelays, SignalWait(t, w, mode, d)
  PROVE  LET s == SignalAsked(t, w, mode) IN
         /\ IInv' /\ Slept(k', s, t, "signalWait")
         /\ k'.flags = [s.flags EXCEPT ![t] = @ \ {"DELAYTMO"}]
<1> DEFINE T == TimedCalls(pc')
           s == SignalAsked(t, w, mode)
           c == s.flags[t] \ {"DELAYTMO"}
           u == Schedule(AddToDelayed(Idled(s, t, "signalWait", c), t, d))
<1>1. Runs(t) /\ Blocks(t, "signalWait", None)
  BY DEF SignalWait
<1>2. k' = u
  <2>1. RemoveReady(s, t).flags = s.flags
    BY DEF RemoveReady
  <2>2. Idled(s, t, "signalWait", c)
          = [RemoveReady(s, t) EXCEPT !.state[t] = "signalWait",
                                      !.flags[t] = @ \ {"DELAYTMO"}]
    BY <2>1, Zenon DEF Idled
  <2> HIDE DEF s, c
  <2> QED BY <2>2, Zenon DEF SignalWait, s
<1>3. t \in Task \ {Idle} /\ k.state[t] = "ready"
  BY <1>1, RunsFacts
<1>4. "signalWait" \in Call \ (Making \cup {"semDelete"})
  BY DEF Call, Making
<1>5. Running(k, T)
  BY <1>1, <1>3, <1>4, BlocksTimed
<1> HIDE DEF T
<1>6. Running(s, T) /\ Keeps(s, k) /\ Unmoved(s, k)
  BY <1>5, SignalTyped, SignalAskedRuns
<1> HIDE DEF s
<1>7. c \in SUBSET Flag /\ d \in 0 .. Infinite /\ d # 0
  BY <1>6, MutexAssumption, DelayAssumption DEF Running, Whole, Lists, Tables
<1> HIDE DEF c
<1>8. s.state[t] = "ready"
  BY <1>3, <1>6 DEF Unmoved
<1>9. /\ Running(u, T) /\ Slept(u, s, t, "signalWait")
      /\ u.flags = [s.flags EXCEPT ![t] = c]
  BY <1>3, <1>6, <1>7, <1>8, IdledRuns
<1> HIDE DEF u
<1>10. Keeps(u, s)
  BY <1>8, <1>9, SleptKeeps DEF State
<1>11. Keeps(u, k)
  BY <1>6, <1>10, KeepsTransitive
<1>12. IInv'
  BY <1>1, <1>2, <1>3, <1>4, <1>9, <1>11, BlocksKept DEF T
<1> QED BY <1>2, <1>9, <1>12 DEF s, c

(* The end of aaSignalWait.                                                *)
LEMMA SignalWaitEndKept ==
  ASSUME IInv, NEW t \in Task, SignalWaitEnd(t)
  PROVE  IInv'
<1>1. /\ Resumes(t, "signalWait") /\ Returns(t)
      /\ k' = [k EXCEPT !.flags[t] = k.flags[t] \ {"DELAYTMO"}]
  BY DEF SignalWaitEnd
<1> QED BY <1>1, ResumesFacts, FlagsReturnKept

(* A wake-up asks.                                                         *)
LEMMA WokenAsks ==
  ASSUME NEW s, NEW u, s \in Tables, u \in Tables, NEW t \in Task, NEW told,
         Woken(u, s, t, told)
  PROVE  Asks(u, s)
<1>1. \A a \in Task \ {t} : u.state[a] = s.state[a]
  BY DEF Woken, Tables
<1> QED BY <1>1 DEF Asks, Asked, Woken, SameRest, SameObjects

(* So does a service before or after a step that the tasks do not notice.  *)
LEMMA AsksAfter ==
  ASSUME NEW s, NEW v, NEW u, Asks(u, v), v.cur = s.cur, v.state = s.state,
         v.basePriority = s.basePriority
  PROVE  Asks(u, s)
BY DEF Asks

(* A service that wakes nobody has nothing to ask.                         *)
LEMMA SameAsks ==
  ASSUME NEW s, NEW u, u.cur = s.cur, u.state = s.state, u.basePriority = s.basePriority
  PROVE  Asks(u, s)
BY DEF Asks, Asked

(* The bits that end the wait are handed over in objPtr.                   *)
LEMMA SignalledRuns ==
  ASSUME NEW s, NEW T, Running(s, T), NEW v \in Task, NEW bits \in SUBSET Signal,
         NEW pulse
  PROVE  LET u == Signalled(s, v, bits, pulse) IN
         /\ Running(u, T) /\ Keeps(u, s) /\ SentTo(u, s, v, bits)
         /\ Asks(u, s)
<1> DEFINE all   == s.sigsRecv[v] \cup bits
           got   == Matched(s.sigsWait[v], all, "SIGNALAND" \in s.flags[v])
           r     == all \ pulse
           sent  == [s EXCEPT !.sigsRecv[v] = r]
           kept  == [sent EXCEPT !.sched = FALSE]
           q     == kept.sigsRecv[v] \ got
           left  == [kept EXCEPT !.sigsRecv[v] = q]
           used  == [left EXCEPT !.objPtr[v] = got]
           z     == RemoveFromDelayed(used, v)
<1>1. s \in Tables
  BY DEF Running, Whole, Lists
<1>2. Signalled(s, v, bits, pulse) =
        IF s.state[v] = "signalWait" /\ got # {} THEN PutInList(z, v) ELSE kept
  BY Zenon DEF Signalled
<1>3. all \in SUBSET Signal /\ r \in SUBSET Signal /\ got \in SUBSET Signal
  BY <1>1 DEF Tables, Matched
<1> HIDE DEF all, got, r
<1>4. /\ Running(sent, T) /\ Keeps(sent, s) /\ Unmoved(sent, s) /\ sent.flags = s.flags
      /\ sent.mutexList = s.mutexList /\ sent.pOwner = s.pOwner
      /\ sent.count = s.count /\ sent.sigsWait = s.sigsWait
      /\ sent.sigsRecv = [s.sigsRecv EXCEPT ![v] = r]
  BY <1>3, SigsRecvRuns
<1>a. /\ kept.cur = s.cur /\ kept.state = s.state
      /\ kept.basePriority = s.basePriority
  BY <1>1 DEF Tables
<1> HIDE DEF sent
<1>5. /\ Running(kept, T) /\ Keeps(kept, sent) /\ SameObjects(kept, sent)
      /\ SameTasks(kept, sent)
  BY <1>4, NoScheduleRuns
<1> HIDE DEF kept
<1>6. Keeps(kept, s)
  BY <1>4, <1>5, KeepsTransitive
<1>7. CASE ~ (s.state[v] = "signalWait" /\ got # {})
  <2>1. SentTo(kept, s, v, bits)
    <3>1. /\ SameTasks(kept, s) /\ kept.sigsWait = s.sigsWait
          /\ kept.mutexList = s.mutexList /\ kept.pOwner = s.pOwner
          /\ kept.count = s.count
          /\ kept.sigsRecv = [s.sigsRecv EXCEPT ![v] = r]
      BY <1>4, <1>5 DEF SameObjects, SameTasks, Unmoved
    <3>2. /\ kept.sigsRecv[v] \subseteq s.sigsRecv[v] \cup bits
          /\ \A a \in Task \ {v} : kept.sigsRecv[a] = s.sigsRecv[a]
      BY <1>1, <3>1 DEF Tables, r, all
    <3>3. s.state[v] = "signalWait" =>
            Matched(s.sigsWait[v], s.sigsRecv[v] \cup bits, "SIGNALAND" \in s.flags[v]) = {}
      BY <1>7 DEF got, all
    <3>4. \A a \in Task : SameWait(kept, s, a)
      BY <3>1 DEF SameTasks, SameWait
    <3> QED BY <3>1, <3>2, <3>3, <3>4 DEF SentTo
  <2>2. Asks(kept, s)
    BY <1>a, SameAsks
  <2> QED BY <1>2, <1>5, <1>6, <1>7, <2>1, <2>2
<1>8. CASE s.state[v] = "signalWait" /\ got # {}
  <2>1. q \in SUBSET Signal
    BY <1>5 DEF Running, Whole, Lists, Tables
  <2> HIDE DEF q
  <2>2. /\ Running(left, T) /\ Keeps(left, kept) /\ Unmoved(left, kept)
        /\ left.flags = kept.flags /\ left.mutexList = kept.mutexList
        /\ left.pOwner = kept.pOwner /\ left.count = kept.count
        /\ left.sigsWait = kept.sigsWait
        /\ left.sigsRecv = [kept.sigsRecv EXCEPT ![v] = q]
    BY <1>5, <2>1, SigsRecvRuns
  <2>a. /\ left.cur = s.cur /\ left.state = s.state
        /\ left.basePriority = s.basePriority
    <3>1. kept \in Tables
      BY <1>5 DEF Running, Whole, Lists
    <3> QED BY <3>1, <1>a DEF Tables
  <2> HIDE DEF left
  <2>3. left.state[v] = "signalWait"
    BY <1>4, <1>5, <1>8, <2>2 DEF Unmoved, SameTasks
  <2>4. left \in Tables
    BY <2>2 DEF Running, Whole, Lists
  <2>5. used \in Tables
    BY <1>3, <2>4 DEF Tables
  <2>6. /\ SameRest(used, left) /\ used.state = left.state /\ used.flags = left.flags
        /\ used.objPtr = [left.objPtr EXCEPT ![v] = got]
        /\ used.delayed = left.delayed /\ used.delay = left.delay
        /\ used.priority = left.priority /\ used.suspended = left.suspended
        /\ used.waitingList = left.waitingList
        /\ used.ready = left.ready /\ used.prioGroup = left.prioGroup
    BY DEF SameRest, SameObjects
  <2> HIDE DEF used
  <2>7. \A a \in Task \ {v} : used.objPtr[a] = left.objPtr[a]
    BY <2>4, <2>6 DEF Tables
  <2>8. DelayedAgree(used, {}, T)
    BY <2>2, <2>6 DEF Running, Whole, Lists, DelayedAgree, Timed
  <2>9. /\ z \in Tables
        /\ DelayedAgree(z, {} \cup {v}, T)
        /\ Pending(used) => Pending(z)
        /\ SameRest(z, used)
        /\ z.state = used.state /\ z.flags = used.flags /\ z.objPtr = used.objPtr
        /\ z.priority = used.priority /\ z.waitValue = used.waitValue
        /\ z.waitingList = used.waitingList /\ z.suspended = used.suspended
        /\ z.ready = used.ready /\ z.prioGroup = used.prioGroup
    BY <2>5, <2>8, RemoveFromDelayedFacts
  <2> HIDE DEF z
  <2>10. Lists(z, {v}, T)
    <3>1. {} \cup {v} = {v}
      OBVIOUS
    <3>2. ReadyAgree(z, {v})
      BY <2>2, <2>3, <2>6, <2>9 DEF Running, Whole, Lists, ReadyAgree
    <3>3. WaitersAgree(z, {v})
      BY <2>2, <2>3, <2>6, <2>7, <2>9 DEF Running, Whole, Lists, WaitersAgree, ListWait
    <3>4. SuspendedAgree(z, {v})
      BY <2>2, <2>3, <2>6, <2>9 DEF Running, Whole, Lists, SuspendedAgree
    <3> QED BY <2>9, <3>1, <3>2, <3>3, <3>4 DEF Lists
  <2>11. /\ SameRest(z, left) /\ z.state = left.state /\ z.flags = left.flags
         /\ \A a \in Task \ {v} : z.objPtr[a] = left.objPtr[a]
         /\ Pending(left) => Pending(z)
    BY <2>6, <2>7, <2>9 DEF SameRest, SameObjects, Pending
  <2> DEFINE u == PutInList(z, v)
  <2>12. Running(u, T) /\ Keeps(u, left) /\ Woken(u, left, v, {})
    BY <2>2, <2>3, <2>10, <2>11, PutInListRuns
  <2> HIDE DEF u
  <2>13. Keeps(u, s)
    BY <1>6, <2>2, <2>12, KeepsTransitive
  <2>14. SentTo(u, s, v, bits)
    <3>1. /\ left.state = s.state /\ left.flags = s.flags /\ left.objPtr = s.objPtr
          /\ left.mutexList = s.mutexList /\ left.pOwner = s.pOwner
          /\ left.count = s.count /\ left.sigsWait = s.sigsWait
          /\ \A a \in Task \ {v} : left.sigsRecv[a] = s.sigsRecv[a]
      <4>1. /\ sent.sigsRecv = [s.sigsRecv EXCEPT ![v] = r]
            /\ kept.sigsRecv = sent.sigsRecv
            /\ left.sigsRecv = [kept.sigsRecv EXCEPT ![v] = q]
        BY <1>4, <1>5, <2>2 DEF SameObjects
      <4>2. \A a \in Task \ {v} : left.sigsRecv[a] = s.sigsRecv[a]
        BY <1>1, <4>1 DEF Tables
      <4> QED BY <1>4, <1>5, <2>2, <4>2 DEF SameObjects, SameTasks, Unmoved
    <3>2. /\ SameHeld(u, left)
          /\ \A a \in Task \ {v} : SameWait(u, left, a)
          /\ u.state[v] \in Settled
      BY <2>4, <2>12, WokenFacts
    <3>3. \A a \in Task \ {v} : SameWait(u, s, a)
      BY <3>1, <3>2 DEF SameWait
    <3> QED BY <1>8, <3>1, <3>2, <3>3 DEF SentTo, SameHeld
  <2>15. Asks(u, s)
    <3>1. u \in Tables
      BY <2>12 DEF Running, Whole, Lists
    <3>2. Asks(u, left)
      BY <3>1, <2>4, <2>12, WokenAsks
    <3> QED BY <3>2, <2>a, AsksAfter
  <2> QED BY <1>2, <1>8, <2>12, <2>13, <2>14, <2>15 DEF u
<1> QED BY <1>7, <1>8

(* aaSignalSend and aaSignalPulse, from a task or a handler.               *)
LEMMA SignalSendKept ==
  ASSUME IInv, NEW v \in Task, NEW bits \in SignalSets, NEW pulse,
         \/ CalledFromTask(Signalled(k, v, bits, pulse))
         \/ CalledFromIsr(Signalled(k, v, bits, pulse))
  PROVE  IInv'
<1> DEFINE u == Signalled(k, v, bits, pulse)
<1>1. bits \in SUBSET Signal
  BY SignalAssumption
<1>2. Running(u, TimedCalls(pc)) /\ Keeps(u, k)
  BY <1>1, TablesTyped, SignalledRuns
<1> HIDE DEF u
<1> QED BY <1>2, CalledKept DEF u

(* The signals.                                                            *)
LEMMA SignalNextKept ==
  ASSUME IInv, SignalNext
  PROVE  IInv'
<1>1. ASSUME NEW t \in Task, NEW v \in Task, NEW bits \in SignalSets, NEW pulse,
             SignalSend(t, v, bits, pulse)
      PROVE  IInv'
  BY <1>1, SignalSendKept DEF SignalSend
<1>2. ASSUME NEW v \in Task, NEW bits \in SignalSets, NEW pulse,
             SignalSendFromIsr(v, bits, pulse)
      PROVE  IInv'
  BY <1>2, SignalSendKept DEF SignalSendFromIsr
<1> QED BY <1>1, <1>2, SignalTryKept, SignalWaitKept, SignalClearKept,
           SignalWaitEndKept DEF SignalNext

-----------------------------------------------------------------------------
(* Tasks.                                                                  *)

(* aaTaskYield.                                                            *)
LEMMA TaskYieldKept ==
  ASSUME IInv, NEW t \in Task, TaskYield(t)
  PROVE  IInv' /\ Quiet(k', k)
<1> DEFINE T == TimedCalls(pc)
           v == RemoveReady(k, t)
           w == AddReady(v, t)
<1>1. Runs(t) /\ Stays /\ k' = Schedule(w)
  BY DEF TaskYield
<1>2. Running(k, T) /\ k.state \in [Task -> State]
  BY TablesTyped DEF Tables
<1> HIDE DEF T
<1>3. k.state[t] = "ready"
  BY <1>1, RunsFacts
<1>4. Lists(k, {}, T)
  BY <1>2 DEF Running, Whole
<1>5. /\ Lists(v, {} \cup {t}, T)
      /\ SameRest(v, k)
      /\ v.state = k.state /\ v.flags = k.flags /\ v.objPtr = k.objPtr
      /\ v.priority = k.priority /\ v.waitValue = k.waitValue
      /\ v.waitingList = k.waitingList /\ v.suspended = k.suspended
      /\ v.delayed = k.delayed /\ v.delay = k.delay
  <2>1. t \in Task \ {}
    OBVIOUS
  <2> QED BY <1>3, <1>4, <2>1, RemoveReadyLists
<1> HIDE DEF v
<1>6. t \in Task \cap ({} \cup {t}) /\ ({} \cup {t}) \ {t} = {}
  OBVIOUS
<1>7. /\ Lists(w, ({} \cup {t}) \ {t}, T)
      /\ SameRest(w, v)
      /\ w.state = [v.state EXCEPT ![t] = "ready"]
      /\ w.flags = v.flags /\ w.objPtr = v.objPtr /\ w.sched = v.sched
      /\ w.priority = v.priority /\ w.waitValue = v.waitValue
      /\ w.waitingList = v.waitingList /\ w.suspended = v.suspended
      /\ w.delayed = v.delayed /\ w.delay = v.delay
  BY <1>5, <1>6, AddReadyLists
<1> HIDE DEF w
<1>8. w.state = k.state
  BY <1>2, <1>3, <1>5, <1>7
<1>9. Lists(w, {}, T) /\ SameObjects(w, k) /\ SameTasks(w, k)
  <2>1. Lists(w, {}, T)
    BY <1>6, <1>7
  <2>2. SameObjects(w, k)
    BY <1>5, <1>7 DEF SameRest, SameObjects
  <2>3. SameTasks(w, k)
    BY <1>5, <1>7, <1>8 DEF SameTasks
  <2> QED BY <2>1, <2>2, <2>3
<1>10. Whole(w, T) /\ Keeps(w, k)
  BY <1>2, <1>9, ReorderedWhole DEF Running
<1>11. Running(k', T) /\ Keeps(k', w)
  BY <1>1, <1>10, ScheduleRuns
<1>12. Keeps(k', k)
  BY <1>10, <1>11, KeepsTransitive
<1>13. Quiet(w, k) /\ Quiet(k', w)
  BY <1>1, <1>9, <1>10, ScheduleRuns, QuietSame
<1>14. Quiet(k', k)
  BY <1>13, QuietTransitive
<1> QED BY <1>1, <1>11, <1>12, <1>14, StaysKept DEF T

(* aaTaskDelay.                                                            *)
LEMMA TaskDelayKept ==
  ASSUME IInv, NEW t \in Task, NEW d \in TaskDelays, TaskDelay(t, d)
  PROVE  /\ IInv' /\ Slept(k', k, t, "delayed")
         /\ \E c : k'.flags = [k.flags EXCEPT ![t] = c]
<1> DEFINE T == TimedCalls(pc')
           call == IF d = 0 THEN "delayForever" ELSE "delay"
           c == k.flags[t]
           u == Schedule(AddToDelayed(Idled(k, t, "delayed", c), t, d))
<1>1. Runs(t) /\ Blocks(t, call, None)
  BY DEF TaskDelay
<1>2. t \in Task \ {Idle} /\ k.state[t] = "ready"
  BY <1>1, RunsFacts
<1>3. Running(k, TimedCalls(pc)) /\ k \in Tables
  BY TablesTyped
<1>4. k' = u
  <2> DEFINE v == [RemoveReady(k, t) EXCEPT !.state[t] = "delayed"]
  <2>1. v.flags = k.flags
    BY DEF RemoveReady
  <2>2. Idled(k, t, "delayed", c) = [v EXCEPT !.flags[t] = c]
    BY Zenon DEF Idled
  <2>3. v = [v EXCEPT !.flags[t] = v.flags[t]]
    <3>1. Lists(RemoveReady(k, t), {} \cup {t}, TimedCalls(pc))
      <4>1. t \in Task \ {} /\ Lists(k, {}, TimedCalls(pc))
        BY <1>3 DEF Running, Whole
      <4> QED BY <4>1, <1>2, RemoveReadyLists
    <3>2. v \in Tables
      BY <3>1 DEF Lists, Tables, State
    <3> HIDE DEF v
    <3> QED BY <3>2 DEF Tables
  <2>4. Idled(k, t, "delayed", c) = v
    BY <2>1, <2>2, <2>3
  <2> HIDE DEF c
  <2> QED BY <2>4, Zenon DEF TaskDelay
<1>5. call \in Call \ (Making \cup {"semDelete"}) /\ call # "mutexTake"
  BY DEF Call, Making
<1>6. Running(k, T) /\ (t \in T <=> call \in {"delay", "ioWait"})
  BY <1>1, <1>2, <1>5, BlocksTimed
<1> HIDE DEF T
<1>7. c \in SUBSET Flag /\ d \in 0 .. Infinite /\ (d # 0 <=> t \in T)
  BY <1>3, <1>6, TaskAssumption DEF Tables
<1> HIDE DEF c, call
<1>8. /\ Running(u, T) /\ Slept(u, k, t, "delayed")
      /\ u.flags = [k.flags EXCEPT ![t] = c]
  BY <1>2, <1>6, <1>7, IdledRuns
<1> HIDE DEF u
<1>9. Keeps(u, k)
  BY <1>2, <1>8, SleptKeeps DEF State
<1>10. IInv'
  BY <1>1, <1>2, <1>4, <1>5, <1>8, <1>9, BlocksKept DEF T
<1> QED BY <1>4, <1>8, <1>10

(* The end of aaTaskDelay.                                                 *)
LEMMA TaskDelayEndKept ==
  ASSUME IInv, NEW t \in Task, TaskDelayEnd(t)
  PROVE  IInv'
<1>1. /\ Resumes(t, "delay") \/ Resumes(t, "delayForever")
      /\ Returns(t) /\ k' = [k EXCEPT !.flags[t] = k.flags[t] \ {"DELAYTMO"}]
  BY DEF TaskDelayEnd
<1>2. k.state[t] = "ready"
  BY <1>1, ResumesFacts
<1> QED BY <1>1, <1>2, FlagsReturnKept

(* aaTaskWakeUp.                                                           *)
LEMMA TaskWakeUpKept ==
  ASSUME IInv, NEW t \in Task, NEW v \in Task, TaskWakeUp(t, v)
  PROVE  IInv'
<1> DEFINE u == WakeByTimeout(k, v)
<1>1. Asleep(v) /\ CalledFromTask(u)
  BY DEF TaskWakeUp
<1>2. Running(u, TimedCalls(pc)) /\ Keeps(u, k)
  BY <1>1, TablesTyped, WakeByTimeoutRuns DEF Asleep
<1> HIDE DEF u
<1> QED BY <1>1, <1>2, CalledKept

(* aaTaskSetPriority.                                                      *)
LEMMA TaskSetPriorityKept ==
  ASSUME IInv, NEW t \in Task, NEW v \in Task, NEW p \in NewPrios,
         TaskSetPriority(t, v, p)
  PROVE  IInv' /\ Quiet(k', k)
<1> DEFINE T == TimedCalls(pc)
           z == [k EXCEPT !.basePriority[v] = p]
           s == NewPrio(z, v)
           w == IF s.state[v] = "mutexWait" THEN Propagate(s, v) ELSE s
<1>1. Stays /\ k' = Schedule(w) /\ k.basePriority[v] # 0
  BY DEF TaskSetPriority
<1>2. /\ k \in Tables /\ Running(k, T) /\ Waits(k) /\ k.basePriority[Idle] = 0
      /\ Idle \in Task
  BY TablesTyped
<1>3. p \in Prio
  BY TaskAssumption, KernelAssumption DEF Prio
<1>4. z \in Tables
  BY <1>2, <1>3 DEF Tables
<1>5. /\ Unmoved(z, k) /\ z.basePriority = [k.basePriority EXCEPT ![v] = p]
      /\ z.zombies = k.zombies /\ z.freeTcb = k.freeTcb
      /\ z.pOwner = k.pOwner /\ z.count = k.count /\ z.semUsed = k.semUsed
  BY DEF Unmoved
<1>z. Quiet(z, k)
  BY DEF Quiet, SameHeld, SameWait
<1> HIDE DEF z, T
<1>6. z.basePriority[Idle] = 0
  BY <1>1, <1>2, <1>5 DEF Tables
<1>7. Waits(z)
  BY <1>2, <1>5 DEF Waits, Unmoved
<1>8. Running(z, T) /\ Keeps(z, k)
  BY <1>2, <1>4, <1>5, <1>6, <1>7, UnmovedRunning
<1>9. Running(s, T) /\ Keeps(s, z) /\ Quiet(s, z)
  BY <1>8, NewPrioRuns, QuietSame DEF SameRest
<1> HIDE DEF s
<1>10. Running(w, T) /\ Keeps(w, s) /\ Quiet(w, s)
  <2>1. CASE w = s
    BY <2>1, <1>9, KeepsItself DEF Quiet, SameHeld, SameWait
  <2>2. CASE w = Propagate(s, v)
    BY <2>2, <1>9, PropagateRuns, QuietSame DEF SameRest
  <2> QED BY <2>1, <2>2
<1> HIDE DEF w
<1>11. Running(k', T) /\ Keeps(k', w) /\ Quiet(k', w)
  BY <1>1, <1>10, ScheduleRuns, QuietSame DEF Running
<1>12. Keeps(k', k)
  BY <1>8, <1>9, <1>10, <1>11, KeepsTransitive
<1>13. Quiet(k', k)
  BY <1>z, <1>9, <1>10, <1>11, QuietTransitive
<1> QED BY <1>1, <1>11, <1>12, <1>13, StaysKept DEF T

(* A task is suspended at once, or when its wait is over.                  *)
LEMMA SuspendedNow ==
  ASSUME NEW s, NEW T, Running(s, T), NEW v \in Task \ {Idle}, s.state[v] = "ready"
  PROVE  LET u == Suspend(RemoveReady(s, v), v) IN
         /\ Whole(u, T) /\ Keeps(u, s) /\ Quiet(u, s) /\ u.cur = s.cur
         /\ v # s.cur => Running(u, T)
<1> DEFINE w == RemoveReady(s, v)
           u == Suspend(w, v)
<1>1. s \in Tables /\ Lists(s, {}, T) /\ Waits(s)
  BY DEF Running, Whole, Lists
<1>2. /\ Lists(w, {} \cup {v}, T)
      /\ SameRest(w, s)
      /\ w.state = s.state /\ w.flags = s.flags /\ w.objPtr = s.objPtr
      /\ w.priority = s.priority /\ w.waitValue = s.waitValue
      /\ w.waitingList = s.waitingList /\ w.suspended = s.suspended
      /\ w.delayed = s.delayed /\ w.delay = s.delay
  <2>1. v \in Task \ {}
    OBVIOUS
  <2> QED BY <1>1, <2>1, RemoveReadyLists
<1> HIDE DEF w
<1>3. v \in Task \cap ({} \cup {v}) /\ ({} \cup {v}) \ {v} = {}
  OBVIOUS
<1>4. /\ Lists(u, ({} \cup {v}) \ {v}, T)
      /\ SameRest(u, w)
      /\ u.state = [w.state EXCEPT ![v] = "suspended"]
      /\ u.flags = w.flags /\ u.objPtr = w.objPtr /\ u.sched = w.sched
      /\ u.priority = w.priority /\ u.waitValue = w.waitValue
      /\ u.waitingList = w.waitingList /\ u.ready = w.ready
      /\ u.delayed = w.delayed /\ u.delay = w.delay
  BY <1>2, <1>3, SuspendLists
<1> HIDE DEF u
<1>5. u.state[v] = "suspended" /\ \A a \in Task \ {v} : u.state[a] = s.state[a]
  BY <1>1, <1>2, <1>4 DEF Tables
<1>6. SameRest(u, s) /\ u.objPtr = s.objPtr
  BY <1>2, <1>4 DEF SameRest, SameObjects
<1>7. Waits(u)
  BY <1>1, <1>5, <1>6 DEF Waits, SameRest, SameObjects
<1>8. Whole(u, T)
  BY <1>3, <1>4, <1>5, <1>6, <1>7, KernelAssumption
     DEF Whole, Running, SameRest, SameObjects
<1>9. Keeps(u, s)
  <2>1. Pending(s) => Pending(u)
    BY <1>2, <1>4 DEF Pending
  <2> QED BY <2>1, <1>5, <1>6 DEF Keeps, SameRest, SameObjects
<1>10. s.cur \in Task
  BY <1>1 DEF Tables
<1>11. Quiet(u, s)
  BY <1>2, <1>4, <1>5, <1>6
  DEF Quiet, SameWait, SameHeld, SameRest, SameObjects, Settled
<1> QED BY <1>5, <1>6, <1>8, <1>9, <1>10, <1>11 DEF u, w, Running, SameRest

(* aaTaskSuspend.                                                          *)
LEMMA TaskSuspendKept ==
  ASSUME IInv, NEW t \in Task, NEW v \in Task, TaskSuspend(t, v)
  PROVE  IInv' /\ Quiet(k', k)
<1> DEFINE T == TimedCalls(pc)
           c == k.flags[v] \cup {"SUSPEND"}
           s == IF k.state[v] = "ready" THEN Suspend(RemoveReady(k, v), v)
                ELSE [k EXCEPT !.flags[v] = c]
<1>1. /\ Runs(t) /\ Stays /\ v # Idle
      /\ k' = IF v = t THEN Schedule(s) ELSE s
  BY Zenon DEF TaskSuspend
<1>2. k \in Tables /\ Running(k, T)
  BY TablesTyped
<1> HIDE DEF T
<1>3. t = k.cur /\ k.state[t] = "ready"
  BY <1>1, RunsFacts
<1>4. c \in SUBSET Flag /\ c \ {"SUSPEND"} = k.flags[v] \ {"SUSPEND"}
  BY <1>2 DEF Tables, Flag
<1> HIDE DEF c
<1>5. Whole(s, T) /\ Keeps(s, k) /\ Quiet(s, k) /\ (v # t => Running(s, T))
  <2>1. CASE k.state[v] = "ready"
    <3>1. s = Suspend(RemoveReady(k, v), v)
      BY <2>1
    <3> HIDE DEF s
    <3> QED BY <3>1, <1>1, <1>2, <1>3, <2>1, SuspendedNow
  <2>2. CASE k.state[v] # "ready"
    <3>1. s = [k EXCEPT !.flags[v] = c]
      BY <2>2
    <3> HIDE DEF s
    <3> QED BY <3>1, <1>2, <1>4, FlagsRun, SuspendFlagQuiet DEF Running
  <2> QED BY <2>1, <2>2
<1> HIDE DEF s
<1>6. Running(k', T) /\ Keeps(k', s) /\ Quiet(k', s)
  <2>1. CASE v = t
    BY <2>1, <1>1, <1>5, ScheduleRuns, QuietSame
  <2>2. CASE v # t
    BY <2>2, <1>1, <1>5, KeepsItself DEF Quiet, SameHeld, SameWait
  <2> QED BY <2>1, <2>2
<1>7. Keeps(k', k)
  BY <1>5, <1>6, KeepsTransitive
<1>8. Quiet(k', k)
  BY <1>5, <1>6, QuietTransitive
<1> QED BY <1>1, <1>6, <1>7, <1>8, StaysKept DEF T

(* A suspended task leaves the list of the suspended tasks.                *)
LEMMA UnsuspendedLists ==
  ASSUME NEW s, NEW T, Lists(s, {}, T), NEW v \in Task, s.state[v] = "suspended"
  PROVE  LET u == [s EXCEPT !.suspended = @ \ {v}] IN
         /\ Lists(u, {v}, T) /\ SameRest(u, s) /\ SameTasks(u, s)
         /\ u.priority = s.priority
<1> DEFINE u == [s EXCEPT !.suspended = @ \ {v}]
<1>1. s \in Tables
  BY DEF Lists
<1>2. u \in Tables
  BY <1>1 DEF Tables
<1>3. /\ SameRest(u, s) /\ SameTasks(u, s)
      /\ u.suspended = s.suspended \ {v}
      /\ u.priority = s.priority /\ u.ready = s.ready /\ u.prioGroup = s.prioGroup
      /\ u.waitingList = s.waitingList
  BY DEF SameRest, SameObjects, SameTasks
<1> HIDE DEF u
<1>4. ReadyAgree(u, {v})
  BY <1>3 DEF Lists, ReadyAgree, SameTasks
<1>5. WaitersAgree(u, {v})
  BY <1>3 DEF Lists, WaitersAgree, SameTasks, ListWait
<1>6. DelayedAgree(u, {v}, T)
  BY <1>3 DEF Lists, DelayedAgree, Timed, SameTasks
<1>7. SuspendedAgree(u, {v})
  BY <1>3 DEF Lists, SuspendedAgree, SameTasks
<1> QED BY <1>2, <1>3, <1>4, <1>5, <1>6, <1>7 DEF Lists, u

(* A suspended task is made ready.                                         *)
LEMMA ResumedReady ==
  ASSUME NEW s, NEW T, Running(s, T), NEW v \in Task, s.state[v] = "suspended"
  PROVE  LET u == AddReady([s EXCEPT !.suspended = @ \ {v}], v) IN
         Running(u, T) /\ Keeps(u, s) /\ Quiet(u, s)
<1> DEFINE w == [s EXCEPT !.suspended = @ \ {v}]
           u == AddReady(w, v)
<1>1. s \in Tables /\ Lists(s, {}, T) /\ Waits(s)
  BY DEF Running, Whole, Lists
<1>2. Lists(w, {v}, T) /\ SameRest(w, s) /\ SameTasks(w, s)
  BY <1>1, UnsuspendedLists
<1> HIDE DEF w
<1>3. v \in Task \cap {v} /\ {v} \ {v} = {}
  OBVIOUS
<1>4. /\ Lists(u, {v} \ {v}, T)
      /\ SameRest(u, w)
      /\ u.state = [w.state EXCEPT ![v] = "ready"]
      /\ u.flags = w.flags /\ u.objPtr = w.objPtr /\ u.sched = w.sched
      /\ u.priority = w.priority /\ u.waitValue = w.waitValue
      /\ u.waitingList = w.waitingList /\ u.suspended = w.suspended
      /\ u.delayed = w.delayed /\ u.delay = w.delay
  BY <1>2, <1>3, AddReadyLists
<1> HIDE DEF u
<1>5. u.state[v] = "ready" /\ \A a \in Task \ {v} : u.state[a] = s.state[a]
  BY <1>1, <1>2, <1>4 DEF Tables, SameTasks
<1>6. SameRest(u, s) /\ u.objPtr = s.objPtr
  BY <1>2, <1>4 DEF SameRest, SameObjects, SameTasks
<1>7. Waits(u)
  BY <1>1, <1>5, <1>6 DEF Waits, SameRest, SameObjects
<1>8. s.cur \in Task /\ s.cur # v /\ Idle \in Task /\ Idle # v
  BY <1>1, KernelAssumption DEF Tables, Running, Whole
<1>9. Running(u, T)
  BY <1>3, <1>4, <1>5, <1>6, <1>7, <1>8
     DEF Whole, Running, SameRest, SameObjects
<1>10. Keeps(u, s)
  <2>1. Pending(s) => Pending(u)
    BY <1>2, <1>4 DEF Pending, SameTasks
  <2> QED BY <2>1, <1>5, <1>6 DEF Keeps, SameRest, SameObjects
<1>11. Quiet(u, s)
  BY <1>2, <1>4, <1>5, <1>6
  DEF Quiet, SameWait, SameHeld, SameRest, SameObjects, SameTasks, Settled
<1> QED BY <1>9, <1>10, <1>11 DEF u, w

(* The reschedule request.                                                 *)
LEMMA SchedRuns ==
  ASSUME NEW s, NEW T, Running(s, T), NEW b \in BOOLEAN
  PROVE  LET u == [s EXCEPT !.sched = b] IN
         Running(u, T) /\ Keeps(u, s) /\ Quiet(u, s)
<1> DEFINE u == [s EXCEPT !.sched = b]
<1>1. s \in Tables
  BY DEF Running, Whole, Lists
<1>2. u \in Tables
  BY <1>1 DEF Tables
<1>3. /\ Unmoved(u, s)
      /\ u.basePriority = s.basePriority /\ u.pOwner = s.pOwner /\ u.count = s.count
      /\ u.semUsed = s.semUsed /\ u.zombies = s.zombies /\ u.freeTcb = s.freeTcb
  BY DEF Unmoved
<1>4. Quiet(u, s)
  BY DEF Quiet, SameHeld, SameWait
<1> HIDE DEF u
<1> QED BY <1>2, <1>3, <1>4, SignalsRun DEF u

(* aaTaskResume.                                                           *)
LEMMA TaskResumeKept ==
  ASSUME IInv, NEW t \in Task, NEW v \in Task, TaskResume(t, v)
  PROVE  IInv' /\ Quiet(k', k)
<1> DEFINE T == TimedCalls(pc)
           w == AddReady([k EXCEPT !.suspended = @ \ {v}], v)
           b == k.priority[v] > k.priority[t]
           c == k.flags[v] \ {"SUSPEND"}
           s == IF k.state[v] = "suspended" THEN [w EXCEPT !.sched = b]
                ELSE [k EXCEPT !.flags[v] = c]
<1>1. CalledFromTask(s)
  BY Zenon DEF TaskResume
<1>2. k \in Tables /\ Running(k, T)
  BY TablesTyped
<1> HIDE DEF T
<1>3. Running(s, T) /\ Keeps(s, k) /\ Quiet(s, k)
  <2>1. CASE k.state[v] = "suspended"
    <3>1. s = [w EXCEPT !.sched = b]
      BY <2>1
    <3>2. Running(w, T) /\ Keeps(w, k) /\ Quiet(w, k)
      BY <2>1, <1>2, ResumedReady
    <3>3. b \in BOOLEAN
      OBVIOUS
    <3> HIDE DEF s, w, b
    <3>4. Running(s, T) /\ Keeps(s, w) /\ Quiet(s, w)
      BY <3>1, <3>2, <3>3, SchedRuns
    <3> QED BY <3>2, <3>4, KeepsTransitive, QuietTransitive
  <2>2. CASE k.state[v] # "suspended"
    <3>1. s = [k EXCEPT !.flags[v] = c]
      BY <2>2
    <3>2. c \in SUBSET Flag /\ c \ {"SUSPEND"} = k.flags[v] \ {"SUSPEND"}
      BY <1>2 DEF Tables
    <3> HIDE DEF s, c
    <3> QED BY <3>1, <3>2, <1>2, FlagsRun, SuspendFlagQuiet
  <2> QED BY <2>1, <2>2
<1> HIDE DEF s
<1>4. IInv' /\ Quiet(k', s)
  BY <1>1, <1>3, CalledKept, CalledSame DEF T
<1> QED BY <1>3, <1>4, QuietTransitive

(* A task in no list ceases to exist.                                      *)
LEMMA NoneLists ==
  ASSUME NEW s, NEW T, NEW v \in Task, Lists(s, {v}, T)
  PROVE  LET u == [s EXCEPT !.state[v] = "none", !.sched = FALSE] IN
         /\ Lists(u, {}, T) /\ SameRest(u, s) /\ u.objPtr = s.objPtr
         /\ u.delayed = s.delayed /\ u.delay = s.delay
         /\ u.flags = s.flags
         /\ u.state = [s.state EXCEPT ![v] = "none"]
<1> DEFINE w == [s EXCEPT !.state[v] = "none"]
           u == [w EXCEPT !.sched = FALSE]
<1>1. s \in Tables
  BY DEF Lists
<1>2. w \in Tables
  BY <1>1 DEF Tables, State
<1>3. /\ SameRest(u, s) /\ u.objPtr = s.objPtr
      /\ u.delayed = s.delayed /\ u.delay = s.delay /\ u.flags = s.flags
      /\ u.state = [s.state EXCEPT ![v] = "none"]
      /\ u.priority = s.priority /\ u.ready = s.ready /\ u.prioGroup = s.prioGroup
      /\ u.waitingList = s.waitingList /\ u.suspended = s.suspended
  BY DEF SameRest, SameObjects
<1>4. u = [s EXCEPT !.state[v] = "none", !.sched = FALSE]
  BY Zenon
<1> HIDE DEF w
<1>5. u \in Tables
  BY <1>2 DEF Tables
<1> HIDE DEF u
<1>6. u.state[v] = "none" /\ \A a \in Task \ {v} : u.state[a] = s.state[a]
  BY <1>1, <1>3 DEF Tables
<1>7. ReadyAgree(u, {})
  BY <1>3, <1>6 DEF Lists, ReadyAgree
<1>8. WaitersAgree(u, {})
  BY <1>3, <1>6 DEF Lists, WaitersAgree, ListWait
<1>9. DelayedAgree(u, {}, T)
  BY <1>3, <1>6 DEF Lists, DelayedAgree, Timed
<1>10. SuspendedAgree(u, {})
  BY <1>3, <1>6 DEF Lists, SuspendedAgree
<1>11. Lists(u, {}, T)
  BY <1>5, <1>7, <1>8, <1>9, <1>10 DEF Lists
<1> QED BY <1>3, <1>4, <1>11

(* The first half of aaTaskDelete.                                         *)
LEMMA DeletedRuns ==
  ASSUME NEW s, NEW T, Running(s, T), NEW v \in Task \ {Idle}, s.state[v] # "none"
  PROVE  LET u == Deleted(s, v) IN
         /\ Whole(u, T) /\ Gone(u, s, v) /\ Mild(u, s, v)
         /\ v # s.cur => Running(u, T)
<1> DEFINE w == IF s.state[v] = "ready" THEN RemoveReady(s, v)
                ELSE IF s.state[v] = "suspended" THEN [s EXCEPT !.suspended = @ \ {v}]
                ELSE RemoveFromLists(s, v)
           u == [w EXCEPT !.state[v] = "none", !.sched = FALSE]
<1>1. s \in Tables /\ Lists(s, {}, T) /\ Waits(s)
  BY DEF Running, Whole, Lists
<1>2. Deleted(s, v) = u
  BY Zenon DEF Deleted
<1>3. /\ Lists(w, {v}, T) /\ SameRest(w, s) /\ w.state = s.state /\ w.flags = s.flags
      /\ \A a \in Task \ {v} : w.objPtr[a] = s.objPtr[a]
      /\ Pending(s) => Pending(w)
  <2>1. CASE s.state[v] = "ready"
    <3>1. w = RemoveReady(s, v)
      BY <2>1
    <3>2. v \in Task \ {} /\ {} \cup {v} = {v}
      OBVIOUS
    <3> HIDE DEF w
    <3>3. /\ Lists(w, {} \cup {v}, T)
          /\ SameRest(w, s)
          /\ w.state = s.state /\ w.flags = s.flags /\ w.objPtr = s.objPtr
          /\ w.priority = s.priority /\ w.waitValue = s.waitValue
          /\ w.waitingList = s.waitingList /\ w.suspended = s.suspended
          /\ w.delayed = s.delayed /\ w.delay = s.delay
      BY <1>1, <2>1, <3>1, <3>2, RemoveReadyLists
    <3> QED BY <3>2, <3>3 DEF Pending
  <2>2. CASE s.state[v] = "suspended"
    <3>1. w = [s EXCEPT !.suspended = @ \ {v}]
      BY <2>2
    <3> HIDE DEF w
    <3> QED BY <1>1, <2>2, <3>1, UnsuspendedLists DEF SameTasks, Pending
  <2>3. CASE s.state[v] \notin {"ready", "suspended"}
    <3>1. w = RemoveFromLists(s, v)
      BY <2>3
    <3> HIDE DEF w
    <3>2. /\ Lists(w, {v}, T)
          /\ Pending(s) => Pending(w)
          /\ SameRest(w, s)
          /\ w.state = s.state /\ w.flags = s.flags
          /\ w.objPtr = s.objPtr \/ w.objPtr = [s.objPtr EXCEPT ![v] = None]
      BY <1>1, <2>3, <3>1, RemoveFromListsLists
    <3>3. \A a \in Task \ {v} : w.objPtr[a] = s.objPtr[a]
      BY <1>1, <3>2 DEF Tables
    <3> QED BY <3>2, <3>3
  <2> QED BY <2>1, <2>2, <2>3
<1> HIDE DEF w
<1>4. /\ Lists(u, {}, T) /\ SameRest(u, w) /\ u.objPtr = w.objPtr
      /\ u.delayed = w.delayed /\ u.delay = w.delay
      /\ u.flags = w.flags
      /\ u.state = [w.state EXCEPT ![v] = "none"]
  BY <1>3, NoneLists
<1> HIDE DEF u
<1>5. u.state[v] = "none" /\ \A a \in Task \ {v} : u.state[a] = s.state[a]
  BY <1>1, <1>3, <1>4 DEF Tables
<1>6. SameRest(u, s)
  BY <1>3, <1>4 DEF SameRest, SameObjects
<1>7. \A a \in Task \ {v} : u.objPtr[a] = s.objPtr[a]
  BY <1>3, <1>4
<1>8. Pending(s) => Pending(u)
  BY <1>3, <1>4 DEF Pending
<1>9. Gone(u, s, v)
  BY <1>5, <1>6, <1>7, <1>8 DEF Gone
<1>10. Waits(u)
  BY <1>1, <1>5, <1>6, <1>7 DEF Waits, SameRest, SameObjects
<1>11. s.cur \in Task /\ Idle \in Task
  BY <1>1, KernelAssumption DEF Tables
<1>12. Whole(u, T)
  BY <1>4, <1>5, <1>6, <1>10, <1>11 DEF Whole, Running, SameRest, SameObjects
<1>13. Mild(u, s, v)
  <2>1. \A a \in Task \ {v} : SameWait(u, s, a)
    BY <1>3, <1>4, <1>5, <1>7 DEF SameWait
  <2>2. SameHeld(u, s) /\ Leaves(u, s, v)
    BY <1>5, <1>6 DEF Leaves, SameHeld, SameRest, SameObjects
  <2> QED BY <2>1, <2>2 DEF Mild
<1> QED BY <1>2, <1>5, <1>6, <1>9, <1>11, <1>12, <1>13 DEF Running, SameRest

(* What tells the steps that take and give back TCBs from the others.      *)
LEMMA OwnedKept ==
  ASSUME IInv, CallsTyped', Running(k', TimedCalls(pc')),
         Pending(k) => Pending(k'), isr' = isr, flushing' = flushing,
         \A t \in Task : pc'[t] = "semDelete" => pc'[t] = pc[t] /\ arg'[t] = arg[t],
         \A t \in Task : k'.state[t] = "semWait" => /\ k.state[t] = "semWait"
                                                   /\ k'.objPtr[t] = k.objPtr[t],
         Tcbs(k', pc', arg')
  PROVE  IInv'
<1>1. Deletes(k', pc', arg', flushing')
  BY DEF IInv, Deletes
<1> QED BY <1>1 DEF IInv

(* The lists of the TCBs that are not in use.                              *)
LEMMA TcbFacts ==
  ASSUME IInv
  PROVE  /\ k.freeTcb \subseteq Task /\ k.zombies \in Seq(Task)
         /\ Range(k.zombies) \subseteq Task /\ NoRepeat(k.zombies)
         /\ \A t \in k.freeTcb : k.state[t] = "none" /\ t \notin Range(k.zombies)
         /\ \A t \in Range(k.zombies) : k.state[t] = "none"
<1>1. k.freeTcb \subseteq Task /\ k.zombies \in Seq(Task)
  BY TablesTyped DEF Tables
<1>2. Range(k.zombies) \subseteq Task
  BY <1>1, EmptyFacts
<1> QED BY <1>1, <1>2 DEF IInv, Tcbs

(* aaTaskDelete of another task.                                           *)
LEMMA TaskDeleteKept ==
  ASSUME IInv, NEW t \in Task, NEW v \in Task, TaskDelete(t, v)
  PROVE  IInv'
<1> DEFINE T == TimedCalls(pc')
<1>1. /\ Runs(t) /\ v # t /\ k.state[v] # "none" /\ k.basePriority[v] # 0
      /\ k' = Deleted(k, v) /\ Blocks(t, "delete", v)
  BY DEF TaskDelete, Exists
<1>2. /\ t = k.cur /\ k.state[t] = "ready" /\ k.basePriority[Idle] = 0
      /\ pc[t] = "run"
  BY <1>1, RunsFacts, TablesTyped
<1>3. /\ CallsTyped' /\ isr' = isr /\ flushing' = flushing
      /\ pc'[t] = "delete" /\ arg'[t] = v
      /\ \A u \in Task \ {t} : pc'[u] = pc[u] /\ arg'[u] = arg[u]
  BY <1>1, BlocksTyped DEF Call
<1>4. Running(k, T)
  BY <1>1, <1>2, BlocksTimed DEF Call
<1>5. v \in Task \ {Idle}
  BY <1>1, <1>2
<1>6. Running(k', T) /\ Gone(k', k, v)
  <2> HIDE DEF T
  <2> QED BY <1>1, <1>2, <1>4, <1>5, DeletedRuns
<1>7. /\ k'.state[v] = "none"
      /\ \A a \in Task \ {v} : k'.state[a] = k.state[a] /\ k'.objPtr[a] = k.objPtr[a]
      /\ k'.freeTcb = k.freeTcb /\ k'.zombies = k.zombies
      /\ Pending(k) => Pending(k')
  BY <1>6 DEF Gone, SameRest, SameObjects
<1>8. Tcbs(k, pc, arg)
  BY DEF IInv
<1>9. Tcbs(k', pc', arg')
  <2>1. /\ \A u \in k'.freeTcb : k'.state[u] = "none" /\ u \notin Range(k'.zombies)
        /\ \A u \in Range(k'.zombies) : k'.state[u] = "none"
        /\ NoRepeat(k'.zombies)
    BY <1>7, <1>8, TcbFacts
  <2>2. ASSUME NEW u \in Task \ {t}, Busy(k', pc', u)
        PROVE  /\ Busy(k, pc, u) /\ arg'[u] = arg[u]
               /\ arg[u] \in Task /\ arg[u] # v /\ k'.state[arg[u]] = "none"
               /\ arg[u] \notin k.freeTcb /\ arg[u] \notin Range(k.zombies)
               /\ pc'[u] = "create" => pc'[arg[u]] = "run"
    <3>1. Busy(k, pc, u) /\ arg'[u] = arg[u]
      BY <2>2, <1>3, <1>7 DEF Busy
    <3> QED BY <3>1, <1>1, <1>2, <1>3, <1>7, <1>8 DEF Tcbs
  <2>3. /\ arg'[t] = v /\ k'.state[v] = "none"
        /\ v \notin k'.freeTcb /\ v \notin Range(k'.zombies)
    BY <1>1, <1>3, <1>7, <1>8 DEF Tcbs
  <2>4. ASSUME NEW a \in Task, NEW b \in Task, Busy(k', pc', a), Busy(k', pc', b),
               arg'[b] = arg'[a]
        PROVE  b = a
    <3>1. CASE a = t \/ b = t
      BY <3>1, <2>2, <2>3, <2>4
    <3>2. CASE a # t /\ b # t
      BY <3>2, <2>2, <2>4, <1>8 DEF Tcbs
    <3> QED BY <3>1, <3>2
  <2>5. ASSUME NEW a \in Task, Busy(k', pc', a)
        PROVE  /\ arg'[a] \in Task /\ k'.state[arg'[a]] = "none"
               /\ arg'[a] \notin k'.freeTcb /\ arg'[a] \notin Range(k'.zombies)
               /\ pc'[a] = "create" => pc'[arg'[a]] = "run"
    BY <2>5, <2>2, <2>3, <1>3, <1>7
  <2> QED BY <2>1, <2>4, <2>5 DEF Tcbs
<1> HIDE DEF T
<1>10. \A a \in Task : k'.state[a] = "semWait" => /\ k.state[a] = "semWait"
                                                 /\ k'.objPtr[a] = k.objPtr[a]
  BY <1>7
<1>11. \A a \in Task : pc'[a] = "semDelete" => pc'[a] = pc[a] /\ arg'[a] = arg[a]
  BY <1>3
<1> QED BY <1>3, <1>6, <1>7, <1>9, <1>10, <1>11, OwnedKept DEF T

(* The lists of the TCBs that are not in use are not the kernel's lists.   *)
LEMMA TcbListsRun ==
  ASSUME NEW s, NEW T, Whole(s, T), NEW u,
         \/ \E z \in Seq(Task) : u = [s EXCEPT !.zombies = z]
         \/ \E f \in SUBSET Task : u = [s EXCEPT !.freeTcb = f]
  PROVE  /\ Whole(u, T) /\ Unmoved(u, s)
         /\ Running(s, T) => Running(u, T)
<1>1. s \in Tables /\ Waits(s)
  BY DEF Whole, Lists
<1>2. /\ u \in Tables
      /\ Unmoved(u, s) /\ u.basePriority = s.basePriority
      /\ u.pOwner = s.pOwner /\ u.count = s.count /\ u.semUsed = s.semUsed
  <2>1. ASSUME NEW z \in Seq(Task), u = [s EXCEPT !.zombies = z]
        PROVE  u \in Tables
    BY <1>1, <2>1 DEF Tables
  <2>2. ASSUME NEW f \in SUBSET Task, u = [s EXCEPT !.freeTcb = f]
        PROVE  u \in Tables
    BY <1>1, <2>2 DEF Tables
  <2>3. ASSUME NEW z \in Seq(Task), u = [s EXCEPT !.zombies = z]
        PROVE  /\ Unmoved(u, s) /\ u.basePriority = s.basePriority
               /\ u.pOwner = s.pOwner /\ u.count = s.count /\ u.semUsed = s.semUsed
    BY <2>3 DEF Unmoved
  <2>4. ASSUME NEW f \in SUBSET Task, u = [s EXCEPT !.freeTcb = f]
        PROVE  /\ Unmoved(u, s) /\ u.basePriority = s.basePriority
               /\ u.pOwner = s.pOwner /\ u.count = s.count /\ u.semUsed = s.semUsed
    BY <2>4 DEF Unmoved
  <2> QED BY <2>1, <2>2, <2>3, <2>4
<1>3. Waits(u)
  BY <1>1, <1>2 DEF Waits, Unmoved
<1>4. Lists(u, {}, T)
  BY <1>2, ListsFrame DEF Unmoved, Whole
<1>5. Whole(u, T)
  BY <1>2, <1>3, <1>4 DEF Whole, Unmoved
<1> QED BY <1>2, <1>5 DEF Running, Unmoved

(* aaTaskDelete of the task itself: its TCB becomes a zombie.              *)
LEMMA TaskDeleteSelfKept ==
  ASSUME IInv, NEW t \in Task, TaskDeleteSelf(t)
  PROVE  IInv' /\ Mild(k', k, t)
<1> DEFINE T == TimedCalls(pc)
           v == Deleted(k, t)
           z == Append(v.zombies, t)
           w == [v EXCEPT !.zombies = z]
<1>1. /\ Runs(t) /\ Stays /\ k' = Schedule([v EXCEPT !.zombies = Append(v.zombies, t)])
  BY DEF TaskDeleteSelf
<1>2. /\ t = k.cur /\ k.state[t] = "ready" /\ t \in Task \ {Idle} /\ Running(k, T)
  BY <1>1, RunsFacts, TablesTyped
<1>3. CallsTyped' /\ pc' = pc /\ arg' = arg /\ isr' = isr /\ flushing' = flushing
  BY <1>1 DEF Stays, IInv, CallsTyped
<1> HIDE DEF T
<1>4. Whole(v, T) /\ Gone(v, k, t) /\ Mild(v, k, t)
  BY <1>2, DeletedRuns
<1> HIDE DEF v
<1>5. /\ v.state[t] = "none"
      /\ \A a \in Task \ {t} : v.state[a] = k.state[a] /\ v.objPtr[a] = k.objPtr[a]
      /\ v.freeTcb = k.freeTcb /\ v.zombies = k.zombies
      /\ Pending(k) => Pending(v)
  BY <1>4 DEF Gone, SameRest, SameObjects
<1>6. t \notin Range(k.zombies) /\ k.zombies \in Seq(Task) /\ NoRepeat(k.zombies)
  BY <1>2, TcbFacts
<1>7. z \in Seq(Task) /\ NoRepeat(z) /\ Range(z) = Range(k.zombies) \cup {t}
  BY <1>5, <1>6, AppendFacts
<1>8. v.zombies \in Seq(Task) /\ v \in Tables
  BY <1>4, <1>5, <1>6 DEF Whole, Lists
<1>9. w.zombies = z /\ w.freeTcb = v.freeTcb
  BY <1>8 DEF Tables
<1> HIDE DEF z
<1>10. Whole(w, T) /\ Unmoved(w, v)
  BY <1>4, <1>7, TcbListsRun
<1>11. k' = Schedule(w)
  BY <1>1 DEF z
<1>w. Quiet(w, v)
  BY DEF Quiet, SameHeld, SameWait
<1> HIDE DEF w
<1>12. /\ Running(k', T) /\ Keeps(k', w) /\ SameObjects(k', w) /\ SameTasks(k', w)
  BY <1>10, <1>11, ScheduleRuns
<1>13. /\ k'.state[t] = "none"
       /\ \A a \in Task \ {t} : k'.state[a] = k.state[a] /\ k'.objPtr[a] = k.objPtr[a]
       /\ k'.freeTcb = k.freeTcb /\ k'.zombies = z
  BY <1>5, <1>9, <1>10, <1>12 DEF Unmoved, SameTasks, SameObjects
<1>14. Pending(k) => Pending(k')
  BY <1>5, <1>10, <1>12 DEF Unmoved, SameTasks, Pending
<1>15. Tcbs(k, pc, arg)
  BY DEF IInv
<1>16. Tcbs(k', pc', arg')
  <2>1. \A a \in Task : Busy(k', pc', a) => a # t /\ Busy(k, pc, a)
    BY <1>3, <1>13 DEF Busy
  <2>2. \A a \in Task : k.state[a] = "none" => a # t /\ k'.state[a] = "none"
    BY <1>2, <1>13
  <2>3. /\ \A u \in k'.freeTcb : k'.state[u] = "none" /\ u \notin Range(k'.zombies)
        /\ \A u \in Range(k'.zombies) : k'.state[u] = "none"
        /\ NoRepeat(k'.zombies)
    BY <1>7, <1>13, <2>2, TcbFacts
  <2>4. ASSUME NEW a \in Task, Busy(k', pc', a)
        PROVE  /\ arg'[a] \in Task /\ k'.state[arg'[a]] = "none"
               /\ arg'[a] \notin k'.freeTcb /\ arg'[a] \notin Range(k'.zombies)
               /\ \A b \in Task : Busy(k', pc', b) /\ arg'[b] = arg'[a] => b = a
               /\ pc'[a] = "create" => pc'[arg'[a]] = "run"
    <3>1. /\ arg[a] \in Task /\ k.state[arg[a]] = "none"
          /\ arg[a] \notin k.freeTcb /\ arg[a] \notin Range(k.zombies)
          /\ \A b \in Task : Busy(k, pc, b) /\ arg[b] = arg[a] => b = a
          /\ pc[a] = "create" => pc[arg[a]] = "run"
      BY <2>1, <2>4, <1>15 DEF Tcbs
    <3> QED BY <3>1, <2>1, <2>2, <1>3, <1>7, <1>13
  <2> QED BY <2>3, <2>4 DEF Tcbs
<1>17. \A a \in Task : k'.state[a] = "semWait" => /\ k.state[a] = "semWait"
                                                 /\ k'.objPtr[a] = k.objPtr[a]
  BY <1>13
<1>18. Quiet(k', w)
  BY <1>12, QuietSame
<1>19. Mild(k', k, t)
  BY <1>4, <1>w, <1>18, MildTransitive
<1>20. IInv'
  BY <1>3, <1>12, <1>14, <1>16, <1>17, OwnedKept DEF T
<1> QED BY <1>19, <1>20

(* What a task that has taken a TCB knows of it.                           *)
LEMMA BusyFacts ==
  ASSUME IInv, NEW t \in Task, k.state[t] # "none", pc[t] \in Making
  PROVE  /\ arg[t] \in Task /\ arg[t] # t /\ k.state[arg[t]] = "none"
         /\ arg[t] \notin k.freeTcb /\ arg[t] \notin Range(k.zombies)
         /\ pc[t] = "create" => pc[arg[t]] = "run"
         /\ \A u \in Task : k.state[u] # "none" /\ pc[u] \in Making /\ arg[u] = arg[t]
              => u = t
BY DEF IInv, Tcbs, Busy

(* The end of a call that took a TCB: who had taken another still has it,  *)
(* and the task v, if its TCB was put in use, has no call behind it.       *)
LEMMA StillBusy ==
  ASSUME IInv, NEW t \in Task, k.state[t] = "ready", pc[t] \in Making, Returns(t),
         NEW v \in Task, v = arg[t],
         \A a \in Task \ {v} : k'.state[a] = k.state[a],
         k'.state[v] = "none" \/ pc[v] = "run",
         k'.freeTcb \subseteq k.freeTcb \cup {v},
         Range(k'.zombies) \subseteq Range(k.zombies) \cup {v}
  PROVE  \A a \in Task : Busy(k', pc', a) =>
           /\ arg'[a] \in Task /\ k'.state[arg'[a]] = "none"
           /\ arg'[a] \notin k'.freeTcb /\ arg'[a] \notin Range(k'.zombies)
           /\ \A b \in Task : Busy(k', pc', b) /\ arg'[b] = arg'[a] => b = a
           /\ pc'[a] = "create" => pc'[arg'[a]] = "run"
<1>1. Blocks(t, "run", None)
  BY DEF Returns
<1>2. /\ pc'[t] = "run"
      /\ \A u \in Task \ {t} : pc'[u] = pc[u] /\ arg'[u] = arg[u]
  BY <1>1, BlocksTyped DEF Call
<1>3. /\ v # t /\ k.state[v] = "none"
      /\ \A u \in Task : k.state[u] # "none" /\ pc[u] \in Making /\ arg[u] = v => u = t
  BY BusyFacts
<1>4. ASSUME NEW a \in Task, Busy(k', pc', a)
      PROVE  /\ a # t /\ a # v /\ k.state[a] # "none" /\ pc[a] \in Making
             /\ arg'[a] = arg[a] /\ arg[a] # v
  <2>1. a # t
    BY <1>2, <1>4 DEF Busy, Making
  <2>2. a # v
    BY <1>2, <1>3, <1>4 DEF Busy, Making
  <2>3. k.state[a] # "none" /\ pc[a] \in Making /\ arg'[a] = arg[a]
    BY <1>2, <1>4, <2>1, <2>2 DEF Busy
  <2> QED BY <1>3, <2>1, <2>2, <2>3
<1> SUFFICES ASSUME NEW a \in Task, Busy(k', pc', a)
             PROVE  /\ arg'[a] \in Task /\ k'.state[arg'[a]] = "none"
                    /\ arg'[a] \notin k'.freeTcb /\ arg'[a] \notin Range(k'.zombies)
                    /\ \A b \in Task : Busy(k', pc', b) /\ arg'[b] = arg'[a] => b = a
                    /\ pc'[a] = "create" => pc'[arg'[a]] = "run"
  OBVIOUS
<1>5. /\ a # t /\ a # v /\ k.state[a] # "none" /\ pc[a] \in Making
      /\ arg'[a] = arg[a] /\ arg[a] # v
  BY <1>4
<1>6. /\ arg[a] \in Task /\ arg[a] # a /\ k.state[arg[a]] = "none"
      /\ arg[a] \notin k.freeTcb /\ arg[a] \notin Range(k.zombies)
      /\ pc[a] = "create" => pc[arg[a]] = "run"
      /\ \A u \in Task : k.state[u] # "none" /\ pc[u] \in Making /\ arg[u] = arg[a]
           => u = a
  BY <1>5, BusyFacts
<1>7. arg[a] # t /\ k'.state[arg[a]] = "none"
  BY <1>5, <1>6
<1>8. pc'[a] = "create" => pc'[arg'[a]] = "run"
  BY <1>2, <1>5, <1>6, <1>7
<1>9. \A b \in Task : Busy(k', pc', b) /\ arg'[b] = arg'[a] => b = a
  BY <1>4, <1>5, <1>6
<1> QED BY <1>5, <1>6, <1>7, <1>8, <1>9

(* A TCB is given back, as a free one or as a zombie.                      *)
LEMMA GivenBackKept ==
  ASSUME IInv, NEW t \in Task, k.state[t] = "ready", pc[t] \in Making, Returns(t),
         k' \in { [k EXCEPT !.freeTcb = @ \cup {arg[t]}],
                  [k EXCEPT !.zombies = Append(@, arg[t])] }
  PROVE  IInv'
<1> DEFINE T == TimedCalls(pc')
           v == arg[t]
           f == k.freeTcb \cup {v}
           z == Append(k.zombies, v)
<1>1. /\ v \in Task /\ k.state[v] = "none"
      /\ v \notin k.freeTcb /\ v \notin Range(k.zombies)
  BY BusyFacts
<1>2. k \in Tables /\ k.freeTcb \subseteq Task /\ k.zombies \in Seq(Task)
      /\ NoRepeat(k.zombies)
  BY TablesTyped, TcbFacts
<1>3. Blocks(t, "run", None)
  BY DEF Returns
<1>4. /\ CallsTyped' /\ isr' = isr /\ flushing' = flushing
      /\ pc'[t] = "run"
      /\ \A u \in Task \ {t} : pc'[u] = pc[u] /\ arg'[u] = arg[u]
  BY <1>3, BlocksTyped DEF Call
<1>5. Running(k, T)
  BY <1>3, BlocksTimed DEF Call
<1>6. f \in SUBSET Task
  BY <1>1, <1>2
<1>7. z \in Seq(Task) /\ NoRepeat(z) /\ Range(z) = Range(k.zombies) \cup {v}
  BY <1>1, <1>2, AppendFacts
<1> HIDE DEF T, v
<1>8. \/ k' = [k EXCEPT !.freeTcb = f]
      \/ k' = [k EXCEPT !.zombies = z]
  BY DEF v
<1>9. \/ k'.freeTcb = f /\ k'.zombies = k.zombies
      \/ k'.freeTcb = k.freeTcb /\ k'.zombies = z
  BY <1>2, <1>8 DEF Tables
<1> HIDE DEF f, z
<1>10. Running(k', T) /\ Unmoved(k', k)
  BY <1>5, <1>6, <1>7, <1>8, TcbListsRun DEF Running
<1>11. /\ k'.state = k.state /\ k'.objPtr = k.objPtr
       /\ Pending(k) => Pending(k')
  BY <1>10 DEF Unmoved, Pending
<1>12. \A a \in Task : Busy(k', pc', a) =>
         /\ arg'[a] \in Task /\ k'.state[arg'[a]] = "none"
         /\ arg'[a] \notin k'.freeTcb /\ arg'[a] \notin Range(k'.zombies)
         /\ \A b \in Task : Busy(k', pc', b) /\ arg'[b] = arg'[a] => b = a
         /\ pc'[a] = "create" => pc'[arg'[a]] = "run"
  <2>1. k'.freeTcb \subseteq k.freeTcb \cup {v}
        /\ Range(k'.zombies) \subseteq Range(k.zombies) \cup {v}
    BY <1>7, <1>9 DEF f
  <2>2. k'.state[v] = "none"
    BY <1>1, <1>11
  <2> QED BY <1>1, <1>11, <2>1, <2>2, StillBusy DEF v
<1>13. /\ \A a \in k'.freeTcb : k'.state[a] = "none" /\ a \notin Range(k'.zombies)
       /\ \A a \in Range(k'.zombies) : k'.state[a] = "none"
       /\ NoRepeat(k'.zombies)
  <2>1. CASE k'.freeTcb = f /\ k'.zombies = k.zombies
    BY <2>1, <1>1, <1>11, TcbFacts DEF f
  <2>2. CASE k'.freeTcb = k.freeTcb /\ k'.zombies = z
    BY <2>2, <1>1, <1>7, <1>11, TcbFacts
  <2> QED BY <1>9, <2>1, <2>2
<1>14. Tcbs(k', pc', arg')
  BY <1>12, <1>13 DEF Tcbs
<1>15. \A a \in Task : pc'[a] = "semDelete" => pc'[a] = pc[a] /\ arg'[a] = arg[a]
  BY <1>4
<1> QED BY <1>4, <1>10, <1>11, <1>14, <1>15, OwnedKept DEF T

(* The second half of aaTaskDelete.                                        *)
LEMMA TaskDeleteEndKept ==
  ASSUME IInv, NEW t \in Task, TaskDeleteEnd(t)
  PROVE  IInv'
<1>1. /\ Resumes(t, "delete") /\ Returns(t)
      /\ k' \in { [k EXCEPT !.freeTcb = @ \cup {arg[t]}],
                  [k EXCEPT !.zombies = Append(@, arg[t])] }
  BY DEF TaskDeleteEnd
<1>2. k.state[t] = "ready" /\ pc[t] \in Making
  BY <1>1, ResumesFacts DEF Making
<1> QED BY <1>1, <1>2, GivenBackKept

(* The end of aaTaskFreeZombies_.                                          *)
LEMMA ReapEndKept ==
  ASSUME IInv, NEW t \in Task, ReapEnd(t)
  PROVE  IInv'
<1>1. /\ Resumes(t, "reap") /\ Returns(t)
      /\ k' \in { [k EXCEPT !.freeTcb = @ \cup {arg[t]}],
                  [k EXCEPT !.zombies = Append(@, arg[t])] }
  BY DEF ReapEnd
<1>2. k.state[t] = "ready" /\ pc[t] \in Making
  BY <1>1, ResumesFacts DEF Making
<1> QED BY <1>1, <1>2, GivenBackKept

(* aaTaskFreeZombies_ takes a zombie off its list.                         *)
LEMMA ReapBeginKept ==
  ASSUME IInv, NEW t \in Task, ReapBegin(t)
  PROVE  IInv'
<1> DEFINE T == TimedCalls(pc')
           v == Head(k.zombies)
           z == Tail(k.zombies)
<1>1. /\ k.zombies # << >> /\ k' = [k EXCEPT !.zombies = z]
      /\ Blocks(t, "reap", v) /\ pc[t] = "run" /\ k.state[t] = "ready"
  BY RunsFacts, ResumesFacts DEF ReapBegin
<1>2. k \in Tables /\ k.zombies \in Seq(Task) /\ NoRepeat(k.zombies)
  BY TablesTyped, TcbFacts
<1>3. /\ v \in Task /\ v \in Range(k.zombies)
      /\ z \in Seq(Task) /\ NoRepeat(z) /\ Range(z) = Range(k.zombies) \ {v}
  BY <1>1, <1>2, TailFacts
<1>4. /\ CallsTyped' /\ isr' = isr /\ flushing' = flushing
      /\ pc'[t] = "reap" /\ arg'[t] = v
      /\ \A u \in Task \ {t} : pc'[u] = pc[u] /\ arg'[u] = arg[u]
  BY <1>1, <1>3, BlocksTyped DEF Call
<1>5. Running(k, T)
  BY <1>1, <1>3, BlocksTimed DEF Call
<1> HIDE DEF T, v, z
<1>6. k'.zombies = z /\ k'.freeTcb = k.freeTcb
  BY <1>1, <1>2 DEF Tables
<1>7. Running(k', T) /\ Unmoved(k', k)
  BY <1>1, <1>3, <1>5, TcbListsRun DEF Running
<1>8. /\ k'.state = k.state /\ k'.objPtr = k.objPtr
      /\ Pending(k) => Pending(k')
  BY <1>7 DEF Unmoved, Pending
<1>9. k.state[v] = "none" /\ v \notin k.freeTcb
  BY <1>3, TcbFacts
<1>10. ASSUME NEW a \in Task \ {t}, Busy(k', pc', a)
       PROVE  /\ k.state[a] # "none" /\ pc[a] \in Making /\ arg'[a] = arg[a]
              /\ arg[a] \in Task /\ arg[a] # v /\ k.state[arg[a]] = "none"
              /\ arg[a] \notin k.freeTcb /\ arg[a] \notin Range(k.zombies)
              /\ pc'[a] = "create" => pc'[arg[a]] = "run"
              /\ \A b \in Task : k.state[b] # "none" /\ pc[b] \in Making
                                   /\ arg[b] = arg[a] => b = a
  <2>1. k.state[a] # "none" /\ pc[a] \in Making /\ arg'[a] = arg[a] /\ pc'[a] = pc[a]
    BY <1>4, <1>8, <1>10 DEF Busy
  <2>2. /\ arg[a] \in Task /\ k.state[arg[a]] = "none"
        /\ arg[a] \notin k.freeTcb /\ arg[a] \notin Range(k.zombies)
        /\ pc[a] = "create" => pc[arg[a]] = "run"
        /\ \A b \in Task : k.state[b] # "none" /\ pc[b] \in Making
                             /\ arg[b] = arg[a] => b = a
    BY <2>1, BusyFacts
  <2>3. arg[a] # t /\ arg[a] # v
    BY <1>1, <1>3, <2>2
  <2> QED BY <1>4, <2>1, <2>2, <2>3
<1>11. ASSUME NEW a \in Task, Busy(k', pc', a)
       PROVE  /\ arg'[a] \in Task /\ k'.state[arg'[a]] = "none"
              /\ arg'[a] \notin k'.freeTcb /\ arg'[a] \notin Range(k'.zombies)
              /\ \A b \in Task : Busy(k', pc', b) /\ arg'[b] = arg'[a] => b = a
              /\ pc'[a] = "create" => pc'[arg'[a]] = "run"
  <2>1. CASE a = t
    BY <2>1, <1>3, <1>4, <1>6, <1>8, <1>9, <1>10
  <2>2. CASE a # t
    BY <2>2, <1>3, <1>4, <1>6, <1>8, <1>10, <1>11
  <2> QED BY <2>1, <2>2
<1>12. /\ \A a \in k'.freeTcb : k'.state[a] = "none" /\ a \notin Range(k'.zombies)
       /\ \A a \in Range(k'.zombies) : k'.state[a] = "none"
       /\ NoRepeat(k'.zombies)
  BY <1>3, <1>6, <1>8, TcbFacts
<1>13. Tcbs(k', pc', arg')
  BY <1>11, <1>12 DEF Tcbs
<1>14. \A a \in Task : pc'[a] = "semDelete" => pc'[a] = pc[a] /\ arg'[a] = arg[a]
  BY <1>4
<1> QED BY <1>4, <1>7, <1>8, <1>13, <1>14, OwnedKept DEF T

(* The fields of a TCB that is not in use.                                 *)
LEMMA UnusedRuns ==
  ASSUME NEW s, NEW T, Running(s, T), NEW v \in Task, s.state[v] = "none",
         NEW f \in SUBSET Task, NEW p \in Prio
  PROVE  LET u == [s EXCEPT !.freeTcb = f, !.mutexList[v] = {}, !.flags[v] = {},
                            !.priority[v] = p, !.basePriority[v] = p]
         IN  /\ Running(u, T) /\ u.freeTcb = f /\ u.zombies = s.zombies
             /\ u.state = s.state /\ u.objPtr = s.objPtr
             /\ Pending(s) => Pending(u)
<1> DEFINE u1 == [s EXCEPT !.freeTcb = f]
           u2 == [u1 EXCEPT !.mutexList[v] = {}]
           u3 == [u2 EXCEPT !.flags[v] = {}]
           u4 == [u3 EXCEPT !.priority[v] = p]
           u5 == [u4 EXCEPT !.basePriority[v] = p]
           u  == [s EXCEPT !.freeTcb = f, !.mutexList[v] = {}, !.flags[v] = {},
                           !.priority[v] = p, !.basePriority[v] = p]
<1>1. s \in Tables /\ Lists(s, {}, T) /\ Waits(s) /\ Idle \in Task
      /\ s.basePriority[Idle] = 0 /\ s.state[Idle] = "ready"
      /\ s.state[s.cur] = "ready"
  BY KernelAssumption DEF Running, Whole, Lists
<1>2. u1 \in Tables
  BY <1>1 DEF Tables
<1>3. /\ u.cur = s.cur /\ u.state = s.state /\ u.objPtr = s.objPtr
      /\ u.ready = s.ready /\ u.prioGroup = s.prioGroup
      /\ u.waitingList = s.waitingList /\ u.suspended = s.suspended
      /\ u.delayed = s.delayed /\ u.delay = s.delay
      /\ u.pOwner = s.pOwner /\ u.count = s.count /\ u.semUsed = s.semUsed
      /\ u.zombies = s.zombies
      /\ u.priority = [s.priority EXCEPT ![v] = p]
      /\ u.basePriority = [s.basePriority EXCEPT ![v] = p]
  OBVIOUS
<1>4. u = u5
  BY Zenon
<1>5. u1.freeTcb = f
  BY <1>1 DEF Tables
<1>6. u.freeTcb = u1.freeTcb
  OBVIOUS
<1> HIDE DEF u, u1
<1>7. u2 \in Tables
  BY <1>2 DEF Tables
<1> HIDE DEF u2
<1>8. u3 \in Tables
  BY <1>7 DEF Tables
<1> HIDE DEF u3
<1>9. u4 \in Tables
  BY <1>8 DEF Tables
<1> HIDE DEF u4
<1>10. u \in Tables
  <2>1. u5 \in Tables
    BY <1>9 DEF Tables
  <2> HIDE DEF u5
  <2> QED BY <1>4, <2>1
<1>11. /\ \A a \in Task \ {v} : u.priority[a] = s.priority[a]
       /\ u.basePriority[Idle] = 0
  BY <1>1, <1>3 DEF Tables
<1>12. ReadyAgree(u, {})
  BY <1>1, <1>3, <1>11 DEF Lists, ReadyAgree
<1>13. WaitersAgree(u, {}) /\ DelayedAgree(u, {}, T) /\ SuspendedAgree(u, {})
  BY <1>1, <1>3 DEF Lists, WaitersAgree, DelayedAgree, Timed, SuspendedAgree
<1>14. Waits(u)
  BY <1>1, <1>3 DEF Waits
<1>15. Pending(s) => Pending(u)
  BY <1>3 DEF Pending
<1>16. Running(u, T)
  BY <1>1, <1>3, <1>10, <1>11, <1>12, <1>13, <1>14 DEF Running, Whole, Lists
<1> QED BY <1>3, <1>5, <1>6, <1>15, <1>16 DEF u

(* aaTaskCreate takes a TCB off the list of the free ones.                 *)
LEMMA TaskCreateKept ==
  ASSUME IInv, NEW t \in Task, NEW v \in Task, NEW p \in NewPrios, TaskCreate(t, v, p)
  PROVE  IInv'
<1> DEFINE T == TimedCalls(pc')
           f == k.freeTcb \ {v}
<1>1. /\ Runs(t) /\ v \in k.freeTcb
      /\ k' = [k EXCEPT !.freeTcb = f, !.mutexList[v] = {}, !.flags[v] = {},
                        !.priority[v] = p, !.basePriority[v] = p]
      /\ pc'  = [pc EXCEPT ![t] = "create", ![v] = "run"]
      /\ arg' = [arg EXCEPT ![t] = v, ![v] = None]
      /\ isr' = isr /\ flushing' = flushing
  BY DEF TaskCreate
<1>2. /\ pc[t] = "run" /\ k.state[t] = "ready" /\ Running(k, TimedCalls(pc))
      /\ k.state[v] = "none" /\ t # v /\ v \notin Range(k.zombies)
  BY <1>1, RunsFacts, TablesTyped, TcbFacts
<1>3. p \in Prio
  BY TaskAssumption, KernelAssumption DEF Prio
<1>4. /\ pc \in [Task -> Call] /\ arg \in [Task -> SyncObj \cup Task \cup {None}]
      /\ \A a \in Task : pc[a] = "mutexTake" => arg[a] \in Mutex
  BY DEF IInv, CallsTyped
<1>5. /\ pc'[t] = "create" /\ arg'[t] = v /\ pc'[v] = "run"
      /\ \A a \in Task \ {t, v} : pc'[a] = pc[a] /\ arg'[a] = arg[a]
  BY <1>1, <1>2, <1>4
<1>6. CallsTyped'
  <2>1. /\ pc' \in [Task -> Call]
        /\ arg' \in [Task -> SyncObj \cup Task \cup {None}]
    BY <1>1, <1>4 DEF Call
  <2>2. \A a \in Task : pc'[a] = "mutexTake" => arg'[a] \in Mutex
    BY <1>4, <1>5
  <2> QED BY <2>1, <2>2, <1>1 DEF IInv, CallsTyped
<1>7. Running(k, T)
  <2>1. \A a \in Task : k.state[a] \in {"delayed", "ioWait"} =>
          (a \in TimedCalls(pc) <=> a \in T)
    BY <1>2, <1>5 DEF TimedCalls
  <2> HIDE DEF T
  <2> QED BY <1>2, <2>1, TimedChange
<1>8. f \in SUBSET Task
  BY TcbFacts
<1> HIDE DEF T, f
<1>9. /\ Running(k', T) /\ k'.freeTcb = f /\ k'.zombies = k.zombies
      /\ k'.state = k.state /\ k'.objPtr = k.objPtr
      /\ Pending(k) => Pending(k')
  <2> DEFINE u == [k EXCEPT !.freeTcb = f, !.mutexList[v] = {}, !.flags[v] = {},
                            !.priority[v] = p, !.basePriority[v] = p]
  <2>1. k.state[v] = "none"
    BY <1>2
  <2>2. /\ Running(u, T) /\ u.freeTcb = f /\ u.zombies = k.zombies
        /\ u.state = k.state /\ u.objPtr = k.objPtr
        /\ Pending(k) => Pending(u)
    BY <1>3, <1>7, <1>8, <2>1, UnusedRuns
  <2>3. k' = u
    BY <1>1
  <2> HIDE DEF u
  <2> QED BY <2>2, <2>3
<1>10. ASSUME NEW a \in Task, a # t, Busy(k', pc', a)
       PROVE  /\ arg'[a] = arg[a] /\ arg[a] # v
              /\ arg'[a] \in Task /\ k'.state[arg'[a]] = "none"
              /\ arg'[a] \notin k'.freeTcb /\ arg'[a] \notin Range(k'.zombies)
              /\ \A b \in Task : b # t /\ Busy(k', pc', b) /\ arg'[b] = arg'[a] => b = a
              /\ pc'[a] = "create" => pc'[arg'[a]] = "run"
  <2>1. \A b \in Task : b # t /\ Busy(k', pc', b) =>
          /\ b # v /\ k.state[b] # "none" /\ pc[b] \in Making
          /\ arg'[b] = arg[b] /\ pc'[b] = pc[b]
    BY <1>2, <1>5, <1>9 DEF Busy
  <2>2. a # v /\ k.state[a] # "none" /\ pc[a] \in Making /\ arg'[a] = arg[a]
        /\ pc'[a] = pc[a]
    BY <2>1, <1>10
  <2>3. /\ arg[a] \in Task /\ k.state[arg[a]] = "none"
        /\ arg[a] \notin k.freeTcb /\ arg[a] \notin Range(k.zombies)
        /\ pc[a] = "create" => pc[arg[a]] = "run"
        /\ \A b \in Task : k.state[b] # "none" /\ pc[b] \in Making /\ arg[b] = arg[a]
             => b = a
    BY <2>2, BusyFacts
  <2>4. arg[a] # v /\ arg[a] # t
    BY <1>1, <1>2, <2>3
  <2>5. pc'[arg[a]] = pc[arg[a]]
    BY <1>5, <2>3, <2>4
  <2> QED BY <1>9, <2>1, <2>2, <2>3, <2>4, <2>5 DEF f
<1>11. ASSUME NEW a \in Task, Busy(k', pc', a)
       PROVE  /\ arg'[a] \in Task /\ k'.state[arg'[a]] = "none"
              /\ arg'[a] \notin k'.freeTcb /\ arg'[a] \notin Range(k'.zombies)
              /\ \A b \in Task : Busy(k', pc', b) /\ arg'[b] = arg'[a] => b = a
              /\ pc'[a] = "create" => pc'[arg'[a]] = "run"
  <2>1. CASE a = t
    BY <2>1, <1>2, <1>5, <1>9, <1>10 DEF f
  <2>2. CASE a # t
    BY <2>2, <1>5, <1>10, <1>11
  <2> QED BY <2>1, <2>2
<1>12. /\ \A a \in k'.freeTcb : k'.state[a] = "none" /\ a \notin Range(k'.zombies)
       /\ \A a \in Range(k'.zombies) : k'.state[a] = "none"
       /\ NoRepeat(k'.zombies)
  BY <1>9, TcbFacts DEF f
<1>13. Tcbs(k', pc', arg')
  BY <1>11, <1>12 DEF Tcbs
<1>14. \A a \in Task : pc'[a] = "semDelete" => pc'[a] = pc[a] /\ arg'[a] = arg[a]
  BY <1>5
<1> QED BY <1>1, <1>6, <1>9, <1>13, <1>14, OwnedKept DEF T

(* The end of aaTaskCreate: the task is ready, or suspended.               *)
LEMMA CreatedRuns ==
  ASSUME NEW s, NEW T, Running(s, T), NEW v \in Task, s.state[v] = "none", NEW u,
         u = Schedule(AddReady(s, v)) \/ u = Suspend(s, v)
  PROVE  /\ Running(u, T) /\ u.zombies = s.zombies /\ u.freeTcb = s.freeTcb
         /\ u.state[v] \in {"ready", "suspended"} /\ u.objPtr = s.objPtr
         /\ \A a \in Task \ {v} : u.state[a] = s.state[a]
         /\ u.flags = s.flags /\ SameHeld(u, s)
         /\ Pending(s) => Pending(u)
<1>1. /\ s \in Tables /\ Lists(s, {}, T) /\ Waits(s) /\ s.state[Idle] = "ready"
      /\ s.basePriority[Idle] = 0 /\ s.state[s.cur] = "ready" /\ v # Idle
  BY DEF Running, Whole, Lists
<1>2. Lists(s, {v}, T)
  <2>1. ReadyAgree(s, {v}) /\ WaitersAgree(s, {v})
    BY <1>1 DEF Lists, ReadyAgree, WaitersAgree, ListWait
  <2>2. DelayedAgree(s, {v}, T) /\ SuspendedAgree(s, {v})
    BY <1>1 DEF Lists, DelayedAgree, SuspendedAgree, Timed
  <2> QED BY <2>1, <2>2, <1>1 DEF Lists
<1>3. {v} \ {v} = {} /\ v \in Task \cap {v}
  OBVIOUS
<1>4. s.state \in [Task -> State]
  BY <1>1 DEF Tables
<1>5. CASE u = Schedule(AddReady(s, v))
  <2> DEFINE w == AddReady(s, v)
  <2>1. /\ Lists(w, {v} \ {v}, T) /\ SameRest(w, s)
        /\ w.state = [s.state EXCEPT ![v] = "ready"] /\ w.objPtr = s.objPtr
        /\ w.delayed = s.delayed /\ w.delay = s.delay /\ w.flags = s.flags
    BY <1>2, <1>3, AddReadyLists
  <2>2. u = Schedule(w)
    BY <1>5
  <2> HIDE DEF w
  <2>3. /\ w.state[v] = "ready" /\ \A a \in Task \ {v} : w.state[a] = s.state[a]
    BY <2>1, <1>4
  <2>4. Waits(w)
    BY <1>1, <2>1, <2>3 DEF Waits, SameRest, SameObjects
  <2>5. Whole(w, T)
    BY <1>1, <1>3, <2>1, <2>3, <2>4, KernelAssumption DEF Whole, SameRest, SameObjects
  <2>6. Running(u, T) /\ SameObjects(u, w) /\ SameTasks(u, w)
    BY <2>2, <2>5, ScheduleRuns
  <2> QED BY <2>1, <2>3, <2>6 DEF SameRest, SameObjects, SameTasks, SameHeld, Pending
<1>6. CASE u = Suspend(s, v)
  <2>1. /\ Lists(u, {v} \ {v}, T) /\ SameRest(u, s)
        /\ u.state = [s.state EXCEPT ![v] = "suspended"] /\ u.objPtr = s.objPtr
        /\ u.delayed = s.delayed /\ u.delay = s.delay /\ u.flags = s.flags
    BY <1>2, <1>3, <1>6, SuspendLists
  <2>3. /\ u.state[v] = "suspended" /\ \A a \in Task \ {v} : u.state[a] = s.state[a]
    BY <2>1, <1>4
  <2>4. Waits(u)
    BY <1>1, <2>1, <2>3 DEF Waits, SameRest, SameObjects
  <2>5. s.cur \in Task \ {v}
    BY <1>1 DEF Tables
  <2>6. Running(u, T)
    BY <1>1, <1>3, <2>1, <2>3, <2>4, <2>5, KernelAssumption
    DEF Running, Whole, SameRest, SameObjects
  <2> QED BY <2>1, <2>3, <2>6 DEF SameRest, SameObjects, SameHeld, Pending
<1> QED BY <1>5, <1>6

(* The end of aaTaskCreate, with a stack or without.                       *)
LEMMA TaskCreateEndKept ==
  ASSUME IInv, NEW t \in Task, TaskCreateEnd(t)
  PROVE  IInv'
<1> DEFINE T == TimedCalls(pc')
           v == arg[t]
<1>1. Resumes(t, "create") /\ Returns(t)
  BY DEF TaskCreateEnd
<1>2. k.state[t] = "ready" /\ pc[t] = "create"
  BY <1>1, ResumesFacts
<1>3. /\ v \in Task /\ v # t /\ k.state[v] = "none" /\ pc[v] = "run"
      /\ v \notin k.freeTcb /\ v \notin Range(k.zombies)
  BY <1>2, BusyFacts DEF Making
<1>4. CASE k' = [k EXCEPT !.freeTcb = @ \cup {arg[t]}]
  <2>1. k' \in {[k EXCEPT !.freeTcb = @ \cup {arg[t]}],
                [k EXCEPT !.zombies = Append(@, arg[t])]}
    BY <1>4
  <2> QED BY <1>1, <1>2, <2>1, GivenBackKept DEF Making
<1>5. CASE k' = Schedule(AddReady(k, v)) \/ k' = Suspend(k, v)
  <2>1. Blocks(t, "run", None)
    BY <1>1 DEF Returns
  <2>2. /\ CallsTyped' /\ isr' = isr /\ flushing' = flushing
        /\ pc'[t] = "run"
        /\ \A u \in Task \ {t} : pc'[u] = pc[u] /\ arg'[u] = arg[u]
    BY <2>1, BlocksTyped DEF Call
  <2>3. Running(k, T)
    BY <1>2, <2>1, BlocksTimed DEF Call
  <2> HIDE DEF T, v
  <2>4. /\ Running(k', T) /\ k'.zombies = k.zombies /\ k'.freeTcb = k.freeTcb
        /\ k'.state[v] \in {"ready", "suspended"} /\ k'.objPtr = k.objPtr
        /\ \A a \in Task \ {v} : k'.state[a] = k.state[a]
        /\ Pending(k) => Pending(k')
    BY <1>3, <1>5, <2>3, CreatedRuns
  <2>5. \A a \in Task : Busy(k', pc', a) =>
          /\ arg'[a] \in Task /\ k'.state[arg'[a]] = "none"
          /\ arg'[a] \notin k'.freeTcb /\ arg'[a] \notin Range(k'.zombies)
          /\ \A b \in Task : Busy(k', pc', b) /\ arg'[b] = arg'[a] => b = a
          /\ pc'[a] = "create" => pc'[arg'[a]] = "run"
    <3>1. pc[t] \in Making
      BY <1>2 DEF Making
    <3> QED BY <1>1, <1>2, <1>3, <2>4, <3>1, StillBusy DEF v
  <2>6. /\ \A a \in k'.freeTcb : k'.state[a] = "none" /\ a \notin Range(k'.zombies)
        /\ \A a \in Range(k'.zombies) : k'.state[a] = "none"
        /\ NoRepeat(k'.zombies)
    BY <1>3, <2>4, TcbFacts
  <2>7. Tcbs(k', pc', arg')
    BY <2>5, <2>6 DEF Tcbs
  <2>8. \A a \in Task : pc'[a] = "semDelete" => pc'[a] = pc[a] /\ arg'[a] = arg[a]
    BY <2>2
  <2>9. \A a \in Task : k'.state[a] = "semWait" => /\ k.state[a] = "semWait"
                                                  /\ k'.objPtr[a] = k.objPtr[a]
    BY <2>4
  <2> QED BY <2>2, <2>4, <2>7, <2>8, <2>9, OwnedKept DEF T
<1> QED BY <1>4, <1>5 DEF TaskCreateEnd

(* aaIoWait.                                                               *)
LEMMA IoWaitKept ==
  ASSUME IInv, NEW t \in Task, NEW x \in Driver, NEW ordered \in BOOLEAN,
         NEW d \in IoDelays, IoWait(t, x, ordered, d)
  PROVE  /\ IInv' /\ Slept(k', k, t, "ioWait")
         /\ \E c : k'.flags = [k.flags EXCEPT ![t] = c]
<1> DEFINE T     == TimedCalls(pc')
           call  == IF d = 0 THEN "ioWaitForever" ELSE "ioWait"
           value == [k.waitValue EXCEPT ![t] = IF ordered THEN k.priority[t]
                                               ELSE k.waitValue[t]]
           clear == IF d = 0 THEN {} ELSE {"DELAYTMO"}
           c     == k.flags[t] \ clear
           l     == IF ordered THEN AddOrdered(k.waitingList[x], value, t)
                               ELSE Append(k.waitingList[x], t)
           u     == Schedule(AddToDelayed(Enqueued(k, t, "ioWait", x, value, c, l), t, d))
<1>1. Runs(t) /\ Blocks(t, call, x)
  BY DEF IoWait
<1>2. /\ t \in Task \ {Idle} /\ k.state[t] = "ready" /\ x \in SyncObj
      /\ k \in Tables /\ WaitersAgree(k, {})
  BY <1>1, RunsFacts, TablesTyped DEF Running, Whole, Lists, SyncObj
<1>3. k' = u
  <2>1. RemoveReady(k, t).waitingList = k.waitingList /\ RemoveReady(k, t).flags = k.flags
    BY DEF RemoveReady
  <2>2. Enqueued(k, t, "ioWait", x, value, c, l)
          = [RemoveReady(k, t) EXCEPT
               !.state[t] = "ioWait", !.objPtr[t] = x, !.waitValue = value,
               !.flags[t] = @ \ clear,
               !.waitingList[x] = IF ordered THEN AddOrdered(@, value, t)
                                             ELSE Append(@, t)]
    BY <2>1, Zenon DEF Enqueued
  <2> HIDE DEF c, l, clear
  <2> QED BY <2>2, Zenon DEF IoWait, clear
<1>4. call \in Call \ (Making \cup {"semDelete"}) /\ call # "mutexTake"
      /\ x \in SyncObj \cup Task \cup {None}
  BY <1>2 DEF Call, Making
<1>5. Running(k, T) /\ (t \in T <=> call \in {"delay", "ioWait"})
  BY <1>1, <1>2, <1>4, BlocksTimed
<1>6. d \in 0 .. Infinite /\ (d # 0 <=> t \in T)
  BY <1>5, TaskAssumption
<1>7. value \in [Task -> Prio] /\ c \in SUBSET Flag
  BY <1>2 DEF Tables
<1>8. k.waitingList[x] \in Seq(Task) /\ NoRepeat(k.waitingList[x])
  BY <1>2 DEF Tables, WaitersAgree
<1>9. t \notin Range(k.waitingList[x])
  BY <1>2 DEF WaitersAgree, ListWait
<1> HIDE DEF T, call, value, c, clear
<1>10. /\ l \in Seq(Task) /\ NoRepeat(l)
       /\ Range(l) = Range(k.waitingList[x]) \cup {t}
  <2>1. CASE ordered
    BY <1>2, <1>8, <1>9, <2>1, AddOrderedFacts
  <2>2. CASE ~ ordered
    BY <1>2, <1>8, <1>9, <2>2, AppendFacts
  <2> QED BY <2>1, <2>2
<1> HIDE DEF l
<1>11. /\ Running(u, T) /\ Slept(u, k, t, "ioWait")
       /\ u.flags = [k.flags EXCEPT ![t] = c]
  <2>1. "ioWait" \in ListWait /\ "ioWait" # "mutexWait" /\ "ioWait" # "semWait"
    BY DEF ListWait
  <2>2. /\ Running(k, T) /\ t \in Task \ {Idle} /\ k.state[t] = "ready" /\ x \in SyncObj
        /\ d \in 0 .. Infinite /\ (d # 0 <=> ("ioWait" = "ioWait" => t \in T))
        /\ value \in [Task -> Prio] /\ c \in SUBSET Flag
    BY <1>2, <1>5, <1>6, <1>7
  <2>3. /\ Running(u, T) /\ Slept(u, k, t, "ioWait")
        /\ u.objPtr = [k.objPtr EXCEPT ![t] = x]
        /\ u.flags = [k.flags EXCEPT ![t] = c]
    BY <1>10, <2>1, <2>2, EnqueueRuns
  <2> HIDE DEF u
  <2> QED BY <2>3
<1> HIDE DEF u
<1>12. Keeps(u, k)
  BY <1>2, <1>11, SleptKeeps DEF State
<1>13. IInv'
  BY <1>1, <1>2, <1>3, <1>4, <1>11, <1>12, BlocksKept DEF T
<1> QED BY <1>3, <1>11, <1>13

(* The end of aaIoWait.                                                    *)
LEMMA IoWaitEndKept ==
  ASSUME IInv, NEW t \in Task, IoWaitEnd(t)
  PROVE  IInv'
<1>1. CASE Resumes(t, "ioWait")
  <2>1. \/ Returns(t) /\ k' = [k EXCEPT !.flags[t] = k.flags[t] \ {"DELAYTMO"}]
        \/ Returns(t) /\ UNCHANGED k
    BY DEF IoWaitEnd
  <2> QED BY <1>1, <2>1, ResumesFacts, FlagsReturnKept, UnchangedReturnKept
<1>2. CASE Resumes(t, "ioWaitForever") /\ UNCHANGED k /\ Returns(t)
  BY <1>2, ResumesFacts, UnchangedReturnKept
<1> QED BY <1>1, <1>2 DEF IoWaitEnd

(* aaIoResume takes the first waiter off the list of the driver.           *)
LEMMA ResumedRuns ==
  ASSUME NEW s, NEW T, Running(s, T), NEW x \in SyncObj, s.waitingList[x] # << >>
  PROVE  LET u == Resumed(s, x) IN
         /\ Running(u, T) /\ Keeps(u, s)
         /\ Woken(u, s, Head(s.waitingList[x]), {})
<1> DEFINE t == Head(s.waitingList[x])
           v == [s EXCEPT !.waitingList[x] = Tail(@)]
           z == IF t \in Range(v.delayed) THEN RemoveFromDelayed(v, t) ELSE v
<1>1. t \in Task /\ s.state[t] \in ListWait
  BY HeadWaits
<1>2. /\ v \in Tables
      /\ WaitersAgree(v, {t})
      /\ SameRest(v, s) /\ SameTasks(v, s)
      /\ v.priority = s.priority /\ v.suspended = s.suspended
      /\ v.ready = s.ready /\ v.prioGroup = s.prioGroup
  BY UnlinkHead
<1>3. Resumed(s, x) = PutInList(z, t)
  BY DEF Resumed
<1> HIDE DEF v, t
<1>4. DelayedAgree(v, {}, T)
  BY <1>2 DEF Running, Whole, Lists, DelayedAgree, Timed, SameTasks
<1>5. /\ z \in Tables
      /\ DelayedAgree(z, {t}, T)
      /\ Pending(v) => Pending(z)
      /\ SameRest(z, v)
      /\ z.state = v.state /\ z.flags = v.flags /\ z.objPtr = v.objPtr
      /\ z.priority = v.priority /\ z.waitValue = v.waitValue
      /\ z.waitingList = v.waitingList /\ z.suspended = v.suspended
      /\ z.ready = v.ready /\ z.prioGroup = v.prioGroup
  BY <1>1, <1>2, <1>4, UndelayedFacts
<1> HIDE DEF z
<1>6. z.state = s.state /\ z.objPtr = s.objPtr /\ z.flags = s.flags
  BY <1>2, <1>5 DEF SameTasks
<1>7. Lists(z, {t}, T)
  <2>1. ReadyAgree(z, {t})
    BY <1>1, <1>2, <1>5, <1>6 DEF Running, Whole, Lists, ReadyAgree, ListWait
  <2>2. WaitersAgree(z, {t})
    BY <1>2, <1>5, <1>6 DEF WaitersAgree, SameTasks
  <2>3. SuspendedAgree(z, {t})
    BY <1>1, <1>2, <1>5, <1>6 DEF Running, Whole, Lists, SuspendedAgree, ListWait
  <2> QED BY <1>5, <2>1, <2>2, <2>3 DEF Lists
<1>8. SameRest(z, s) /\ (Pending(s) => Pending(z))
  BY <1>2, <1>5 DEF SameRest, SameObjects, SameTasks, Pending
<1>9. s.state[t] \notin {"ready", "none"}
  BY <1>1 DEF ListWait
<1>10. LET u == PutInList(z, t) IN
       Running(u, T) /\ Keeps(u, s) /\ Woken(u, s, t, {})
  BY <1>1, <1>6, <1>7, <1>8, <1>9, PutInListRuns
<1> QED BY <1>3, <1>10 DEF t

(* aaIoResume, from a task or a handler.                                   *)
LEMMA IoResumeKept ==
  ASSUME IInv, NEW x \in Driver, k.waitingList[x] # << >>,
         CalledFromTask(Resumed(k, x)) \/ CalledFromIsr(Resumed(k, x))
  PROVE  IInv'
<1>1. x \in SyncObj
  BY DEF SyncObj
<1>2. Running(Resumed(k, x), TimedCalls(pc)) /\ Keeps(Resumed(k, x), k)
  BY <1>1, TablesTyped, ResumedRuns
<1> QED BY <1>2, CalledKept

(* The tasks.                                                              *)
LEMMA TaskNextKept ==
  ASSUME IInv, TaskNext
  PROVE  IInv'
<1>1. ASSUME NEW t \in Task, NEW v \in Task,
             \/ TaskWakeUp(t, v) \/ TaskSuspend(t, v) \/ TaskResume(t, v)
             \/ TaskDelete(t, v)
             \/ \E p \in NewPrios : TaskSetPriority(t, v, p) \/ TaskCreate(t, v, p)
      PROVE  IInv'
  BY <1>1, TaskWakeUpKept, TaskSuspendKept, TaskResumeKept, TaskDeleteKept,
     TaskSetPriorityKept, TaskCreateKept
<1>2. ASSUME NEW t \in Task,
             \/ TaskYield(t) \/ \E d \in TaskDelays : TaskDelay(t, d)
             \/ TaskDelayEnd(t) \/ TaskDeleteSelf(t) \/ TaskDeleteEnd(t)
             \/ ReapBegin(t) \/ ReapEnd(t) \/ TaskCreateEnd(t) \/ IoWaitEnd(t)
      PROVE  IInv'
  BY <1>2, TaskYieldKept, TaskDelayKept, TaskDelayEndKept, TaskDeleteSelfKept,
     TaskDeleteEndKept, ReapBeginKept, ReapEndKept, TaskCreateEndKept, IoWaitEndKept
<1>3. ASSUME NEW t \in Task, NEW x \in Driver,
             \/ \E d \in IoDelays, ordered \in BOOLEAN : IoWait(t, x, ordered, d)
             \/ IoResume(t, x)
      PROVE  IInv'
  BY <1>3, IoWaitKept, IoResumeKept DEF IoResume
<1>4. ASSUME NEW x \in Driver, IoResumeFromIsr(x)
      PROVE  IInv'
  BY <1>4, IoResumeKept DEF IoResumeFromIsr
<1> QED BY <1>1, <1>2, <1>3, <1>4 DEF TaskNext

-----------------------------------------------------------------------------
(* The tick.                                                               *)

(* One tick less for each finite delay keeps the order of the list.        *)
LEMMA CountDownRuns ==
  ASSUME NEW s, NEW T, Running(s, T), Pending(s)
  PROVE  LET u == CountDown(s) IN
         /\ Running(u, T) /\ u.zombies = s.zombies /\ u.freeTcb = s.freeTcb
         /\ u.state = s.state /\ u.objPtr = s.objPtr /\ Quiet(u, s)
<1> DEFINE left(t) == IF t \in Range(s.delayed) /\ s.delay[t] # Infinite
                      THEN s.delay[t] - 1 ELSE s.delay[t]
           v == [t \in Task |-> left(t)]
           w == [s EXCEPT !.delay = v]
           u == CountDown(s)
<1>1. /\ s \in Tables /\ Lists(s, {}, T) /\ Waits(s)
      /\ s.delayed \in Seq(Task) /\ s.delay \in [Task -> 0 .. Infinite]
  BY DEF Running, Whole, Lists, Tables
<1>2. Range(s.delayed) \subseteq Task
  BY <1>1, EmptyFacts
<1>3. v \in [Task -> 0 .. Infinite]
  <2>1. ASSUME NEW t \in Task
        PROVE  left(t) \in 0 .. Infinite
    <3>1. s.delay[t] \in 0 .. Infinite /\ (t \in Range(s.delayed) => s.delay[t] > 0)
      BY <1>1 DEF Pending
    <3> QED BY <3>1, DelayAssumption
  <2> HIDE DEF left
  <2> QED BY <2>1
<1>4. u = w
  BY Zenon DEF CountDown
<1>5. \A a \in Task, b \in Task :
        a \in Range(s.delayed) /\ b \in Range(s.delayed) /\ s.delay[a] <= s.delay[b]
          => v[a] <= v[b]
  <2> SUFFICES ASSUME NEW a \in Range(s.delayed), NEW b \in Range(s.delayed),
                      s.delay[a] <= s.delay[b]
               PROVE  left(a) <= left(b)
    BY <1>2
  <2>1. s.delay[a] \in 0 .. Infinite /\ s.delay[b] \in 0 .. Infinite
    BY <1>1, <1>2
  <2> QED BY <2>1, DelayAssumption
<1> HIDE DEF v
<1>6. w \in Tables
  BY <1>1, <1>3 DEF Tables
<1>7. w.delay = v
  BY <1>1 DEF Tables
<1>8. /\ w.cur = s.cur /\ w.state = s.state /\ w.priority = s.priority
      /\ w.objPtr = s.objPtr /\ w.ready = s.ready /\ w.prioGroup = s.prioGroup
      /\ w.waitingList = s.waitingList /\ w.suspended = s.suspended
      /\ w.delayed = s.delayed /\ w.basePriority = s.basePriority
      /\ w.pOwner = s.pOwner /\ w.count = s.count /\ w.semUsed = s.semUsed
      /\ w.zombies = s.zombies /\ w.freeTcb = s.freeTcb
      /\ w.flags = s.flags /\ SameHeld(w, s)
  BY DEF SameHeld
<1> HIDE DEF w, u
<1>9. DelayedAgree(w, {}, T)
  <2>1. /\ NoRepeat(s.delayed) /\ Ascending(s.delayed, s.delay)
        /\ \A t \in Task : t \in Range(s.delayed) <=> Timed(s, T, t)
    BY <1>1 DEF Lists, DelayedAgree
  <2>2. \A i \in DOMAIN s.delayed : s.delayed[i] \in Range(s.delayed)
    BY DEF Range
  <2>3. Ascending(s.delayed, v)
    BY <2>1, <2>2, <1>2, <1>5 DEF Ascending
  <2>4. \A t \in Task : Timed(w, T, t) <=> Timed(s, T, t)
    BY <1>8 DEF Timed
  <2> QED BY <2>1, <2>3, <2>4, <1>7, <1>8 DEF DelayedAgree
<1>10. ReadyAgree(w, {}) /\ WaitersAgree(w, {}) /\ SuspendedAgree(w, {})
  BY <1>1, <1>8 DEF Lists, ReadyAgree, WaitersAgree, SuspendedAgree
<1>11. Waits(w)
  BY <1>1, <1>8 DEF Waits
<1>12. Running(w, T)
  BY <1>6, <1>8, <1>9, <1>10, <1>11 DEF Running, Whole, Lists
<1>13. Quiet(w, s)
  BY <1>8 DEF Quiet, SameWait
<1> QED BY <1>4, <1>8, <1>12, <1>13 DEF u

(* The task at the head of the delayed list sleeps.                        *)
LEMMA ExpireRuns ==
  ASSUME NEW s, NEW T, Running(s, T)
  PROVE  /\ Running(Expire(s), T) /\ Keeps(Expire(s), s)
         /\ \E t \in Task : Mild(Expire(s), s, t)
<1>1. CASE ~ Expired(s)
  <2>1. Mild(s, s, Idle) /\ Idle \in Task
    BY KernelAssumption DEF Mild, SameHeld, SameWait
  <2> QED BY <1>1, <2>1, KeepsItself DEF Expire
<1>2. CASE Expired(s)
  <2> DEFINE t == Head(s.delayed)
  <2>1. s.delayed # << >> /\ s.delayed \in Seq(Task) /\ NoRepeat(s.delayed)
    BY <1>2 DEF Expired, Running, Whole, Lists, Tables, DelayedAgree
  <2>2. t \in Task /\ t \in Range(s.delayed)
    BY <2>1, TailFacts
  <2> HIDE DEF t
  <2>3. Timed(s, T, t)
    BY <2>2 DEF Running, Whole, Lists, DelayedAgree
  <2>4. s.state[t] \notin {"ready", "suspended", "none"}
    BY <2>3 DEF Timed
  <2> DEFINE u == WakeByTimeout(s, t)
  <2>5. Running(u, T) /\ Keeps(u, s) /\ Woken(u, s, t, {"DELAYTMO"})
    BY <2>2, <2>4, WakeByTimeoutRuns
  <2>6. Expire(s) = WakeByTimeout(s, t)
    BY <1>2 DEF Expire, t
  <2> HIDE DEF u
  <2>7. s \in Tables
    BY DEF Running, Whole, Lists
  <2>8. Mild(u, s, t)
    BY <2>2, <2>4, <2>5, <2>7, WokenMild DEF Settled
  <2> QED BY <2>2, <2>5, <2>6, <2>8 DEF u
<1> QED BY <1>1, <1>2

(* aaTick_ begins: it counts, and wakes the first task whose delay is      *)
(* over.                                                                   *)
LEMMA TickKept ==
  ASSUME IInv, Tick
  PROVE  IInv'
<1> DEFINE T == TimedCalls(pc)
           s == CountDown(k)
<1>1. /\ isr = "none" /\ flushing = None /\ k' = Expire(s) /\ isr' = "tick"
      /\ pc' = pc /\ arg' = arg /\ flushing' = flushing
  BY DEF Tick
<1>2. Running(k, T) /\ Pending(k)
  BY <1>1 DEF IInv
<1> HIDE DEF T
<1>3. /\ Running(s, T) /\ s.zombies = k.zombies /\ s.freeTcb = k.freeTcb
      /\ s.state = k.state /\ s.objPtr = k.objPtr
  BY <1>2, CountDownRuns
<1> HIDE DEF s
<1>4. Running(k', T) /\ Keeps(k', s)
  BY <1>1, <1>3, ExpireRuns
<1>5. Tcbs(k', pc', arg')
  BY <1>1, <1>3, <1>4, TcbsKept DEF Keeps
<1>6. Deletes(k', pc', arg', flushing')
  BY <1>1, <1>3, <1>4 DEF IInv, Deletes, Keeps
<1>7. CallsTyped'
  BY <1>1 DEF IInv, CallsTyped
<1> QED BY <1>1, <1>4, <1>5, <1>6, <1>7 DEF IInv, T

(* aaTick_ wakes the next task whose delay is over.                        *)
LEMMA TickExpireKept ==
  ASSUME IInv, TickExpire
  PROVE  IInv'
BY ExpireRuns, StaysKept DEF TickExpire, IInv

(* When the handler is done, no delay is over.                             *)
LEMMA TickEndKept ==
  ASSUME IInv, TickEnd
  PROVE  IInv'
<1> DEFINE T == TimedCalls(pc)
<1>1. /\ flushing' = flushing /\ ~ Expired(k) /\ k' = Schedule(k) /\ isr' = "none"
      /\ pc' = pc /\ arg' = arg
  BY DEF TickEnd
<1>2. /\ Running(k, T) /\ k.delayed \in Seq(Task) /\ k.delay \in [Task -> 0 .. Infinite]
      /\ NoRepeat(k.delayed) /\ Ascending(k.delayed, k.delay)
  BY DEF IInv, Running, Whole, Lists, Tables, DelayedAgree
<1>3. Pending(k)
  <2> SUFFICES ASSUME NEW t \in Range(k.delayed)
               PROVE  k.delay[t] > 0
    BY DEF Pending
  <2>1. PICK i \in DOMAIN k.delayed : k.delayed[i] = t
    BY DEF Range
  <2>2. /\ DOMAIN k.delayed = 1 .. Len(k.delayed) /\ Len(k.delayed) \in Nat
        /\ k.delayed # << >> /\ Head(k.delayed) = k.delayed[1] /\ 1 \in DOMAIN k.delayed
    BY <1>2, <2>1
  <2>3. /\ k.delay[k.delayed[1]] \in 0 .. Infinite /\ k.delay[t] \in 0 .. Infinite
        /\ k.delay[k.delayed[1]] # 0
    <3>1. k.delayed[1] \in Task /\ t \in Task
      BY <1>2, <2>1, <2>2, EmptyFacts
    <3> QED BY <3>1, <1>1, <1>2, <2>2 DEF Expired
  <2>4. k.delay[k.delayed[1]] <= k.delay[t]
    BY <1>2, <2>1, <2>2, <2>3, DelayAssumption DEF Ascending
  <2> QED BY <2>3, <2>4, DelayAssumption
<1> HIDE DEF T
<1>4. Running(k', T) /\ Keeps(k', k)
  BY <1>1, <1>2, ScheduleRuns DEF Running
<1>5. CallsTyped' /\ Pending(k')
  BY <1>1, <1>3, <1>4 DEF IInv, CallsTyped, Keeps
<1> QED BY <1>1, <1>4, <1>5, Kept DEF T

(* The tick.                                                               *)
LEMMA TickNextKept ==
  ASSUME IInv, TickNext
  PROVE  IInv'
BY TickKept, TickExpireKept, TickEndKept DEF TickNext

-----------------------------------------------------------------------------
(* The start.                                                              *)

(* The tables aaInit_ makes are typed, each task once in its ready list.   *)
LEMMA StartTyped ==
  /\ StartTables \in Tables
  /\ \A p \in Prio : /\ NoRepeat(StartReady(p))
                     /\ Range(StartReady(p)) = {t \in StartTasks : StartPrio[t] = p}
<1>1. /\ StartPrio \in [Task -> Prio] /\ StartTasks \subseteq Task /\ Idle \in StartTasks
      /\ StartCount \in [Sem -> Int] /\ Idle \in Task /\ IsFiniteSet(Task)
  BY StartAssumption, KernelAssumption
<1>2. \A p \in Prio : /\ StartReady(p) \in Seq(Task) /\ NoRepeat(StartReady(p))
                      /\ Range(StartReady(p)) = {t \in StartTasks : StartPrio[t] = p}
  <2> SUFFICES ASSUME NEW p \in Prio
               PROVE  /\ StartReady(p) \in Seq(Task) /\ NoRepeat(StartReady(p))
                      /\ Range(StartReady(p)) = {t \in StartTasks : StartPrio[t] = p}
    OBVIOUS
  <2> DEFINE S == {t \in StartTasks : StartPrio[t] = p}
  <2>1. S \subseteq Task
    BY <1>1
  <2> HIDE DEF S
  <2>2. IsFiniteSet(S)
    BY <1>1, <2>1, FS_Subset
  <2> DEFINE list == SE!SetToSeq(S)
  <2>3. list \in Seq(S) /\ NoRepeat(list) /\ Range(list) = S
    BY <2>2, SetToSeqFacts
  <2>4. StartReady(p) = list
    BY DEF StartReady, S
  <2> HIDE DEF list
  <2>5. list \in Seq(Task)
    BY <2>1, <2>3
  <2> QED BY <2>3, <2>4, <2>5 DEF S
<1> DEFINE ready   == [p \in Prio |-> StartReady(p)]
           group   == {StartPrio[t] : t \in StartTasks}
           state   == [t \in Task |-> IF t \in StartTasks THEN "ready" ELSE "none"]
           owner   == [m \in Mutex |-> IF m \in StartMutexes THEN None ELSE Free]
           counts  == [x \in Counted |-> IF x \in Sem THEN StartCount[x] ELSE 0]
<1>3. ready \in [Prio -> Seq(Task)]
  BY <1>2
<1>4. group \subseteq Prio /\ state \in [Task -> State]
  BY <1>1 DEF State
<1>5. owner \in [Mutex -> Task \cup {None, Free}] /\ counts \in [Counted -> Int]
  BY <1>1 DEF Counted
<1>6. 0 \in Prio /\ 0 \in 0 .. Infinite /\ << >> \in Seq(Task)
  BY KernelAssumption, DelayAssumption DEF Prio
<1> HIDE DEF ready, group, state, owner, counts
<1>7. StartTables =
        [ cur |-> Idle, sched |-> FALSE, state |-> state,
          priority |-> StartPrio, basePriority |-> StartPrio,
          flags |-> [t \in Task |-> {}], objPtr |-> [t \in Task |-> None],
          waitValue |-> [t \in Task |-> 0],
          sigsWait |-> [t \in Task |-> {}], sigsRecv |-> [t \in Task |-> {}],
          mutexList |-> [t \in Task |-> {}],
          ready |-> ready, prioGroup |-> group,
          suspended |-> {}, delayed |-> << >>, delay |-> [t \in Task |-> 0],
          zombies |-> << >>, freeTcb |-> Task \ StartTasks,
          waitingList |-> [x \in SyncObj |-> << >>],
          pOwner |-> owner, count |-> counts, semUsed |-> Sem ]
  BY DEF StartTables, ready, group, state, owner, counts
<1>8. StartTables \in Tables
  BY <1>1, <1>3, <1>4, <1>5, <1>6, <1>7 DEF Tables
<1> QED BY <1>2, <1>8

(* The kernel starts with the tasks of StartTasks ready and nothing else.  *)
LEMMA StartRuns ==
  ASSUME NEW T
  PROVE  Whole(StartTables, T)
<1> DEFINE s == StartTables
<1>1. /\ StartPrio \in [Task -> Prio] /\ StartTasks \subseteq Task /\ Idle \in StartTasks
      /\ StartPrio[Idle] = 0 /\ Idle \in Task
  BY StartAssumption, KernelAssumption
<1>2. /\ \A t \in Task : s.state[t] = IF t \in StartTasks THEN "ready" ELSE "none"
      /\ s.priority = StartPrio /\ s.basePriority = StartPrio
      /\ \A p \in Prio : s.ready[p] = StartReady(p)
      /\ s.prioGroup = {StartPrio[t] : t \in StartTasks}
      /\ s.suspended = {} /\ s.delayed = << >>
      /\ \A x \in SyncObj : s.waitingList[x] = << >>
  BY DEF StartTables
<1>3. s \in Tables
  BY StartTyped
<1> HIDE DEF s
<1>4. NoRepeat(<< >>) /\ Range(<< >>) = {} /\ DOMAIN << >> = {}
  BY NoNodes
<1>5. ReadyAgree(s, {})
  <2> SUFFICES ASSUME NEW p \in Prio
               PROVE  /\ NoRepeat(s.ready[p])
                      /\ p \in s.prioGroup <=> s.ready[p] # << >>
                      /\ \A t \in Task : t \in Range(s.ready[p])
                           <=> s.state[t] = "ready" /\ s.priority[t] = p
    BY DEF ReadyAgree
  <2>1. /\ NoRepeat(s.ready[p])
        /\ Range(s.ready[p]) = {t \in StartTasks : StartPrio[t] = p}
    BY <1>2, StartTyped
  <2>2. \A t \in Task : t \in Range(s.ready[p])
                          <=> s.state[t] = "ready" /\ s.priority[t] = p
    BY <1>1, <1>2, <2>1
  <2>3. p \in s.prioGroup <=> Range(s.ready[p]) # {}
    BY <1>2, <2>1
  <2>4. s.ready[p] \in Seq(Task)
    BY <1>3 DEF Tables
  <2>5. s.ready[p] = << >> <=> Range(s.ready[p]) = {}
    BY <2>4, EmptyFacts
  <2> QED BY <2>1, <2>2, <2>3, <2>5
<1>6. WaitersAgree(s, {})
  BY <1>2, <1>4 DEF WaitersAgree, ListWait
<1>7. DelayedAgree(s, {}, T)
  BY <1>2, <1>4 DEF DelayedAgree, Ascending, Timed
<1>8. SuspendedAgree(s, {})
  BY <1>2 DEF SuspendedAgree
<1>9. Waits(s)
  BY <1>2 DEF Waits
<1>10. Lists(s, {}, T)
  BY <1>3, <1>5, <1>6, <1>7, <1>8 DEF Lists
<1>11. s.state[Idle] = "ready" /\ s.basePriority[Idle] = 0
  BY <1>1, <1>2
<1> QED BY <1>9, <1>10, <1>11 DEF Whole, s

(* The invariant holds when aaStart_ switches to the first task.           *)
LEMMA InitHolds ==
  ASSUME Init
  PROVE  IInv
<1> DEFINE s == StartTables
           T == TimedCalls(pc)
<1>1. /\ k = Schedule(s) /\ pc = [t \in Task |-> "run"] /\ arg = [t \in Task |-> None]
      /\ isr = "none" /\ flushing = None
  BY DEF Init
<1>2. /\ s.zombies = << >> /\ s.freeTcb = Task \ StartTasks /\ s.delayed = << >>
      /\ \A t \in Task : s.state[t] = IF t \in StartTasks THEN "ready" ELSE "none"
  BY DEF StartTables
<1>3. NoRepeat(<< >>) /\ Range(<< >>) = {}
  BY NoNodes
<1>4. Whole(s, T)
  BY StartRuns
<1> HIDE DEF s, T
<1>5. Running(k, T) /\ Keeps(k, s) /\ SameTasks(k, s)
  BY <1>1, <1>4, ScheduleRuns
<1>6. Pending(k)
  BY <1>2, <1>3, <1>5 DEF Pending, SameTasks
<1>7. Tcbs(k, pc, arg)
  BY <1>1, <1>2, <1>3, <1>5 DEF Tcbs, Busy, Making, Keeps, SameTasks
<1>8. Deletes(k, pc, arg, flushing)
  BY <1>1 DEF Deletes
<1>9. CallsTyped
  BY <1>1 DEF CallsTyped, Call
<1> QED BY <1>5, <1>6, <1>7, <1>8, <1>9 DEF IInv, T

(* Every action keeps the invariant.                                       *)
LEMMA NextKept ==
  ASSUME IInv, [Next]_vars
  PROVE  IInv'
<1>1. CASE UNCHANGED vars
  <2>1. /\ k' = k /\ pc' = pc /\ arg' = arg /\ isr' = isr /\ flushing' = flushing
    BY <1>1 DEF vars
  <2> QED BY <2>1, KeepsItself, StaysKept DEF Stays, IInv
<1>2. CASE Next
  BY <1>2, MutexNextKept, SemNextKept, SignalNextKept, TaskNextKept, TickNextKept
  DEF Next
<1> QED BY <1>1, <1>2

-----------------------------------------------------------------------------
(* What follows.                                                           *)

(* The inductive invariant: whatever the tasks and the handlers call, each *)
(* critical section finds the lists, the states, the waits and the TCBs    *)
(* taken out of the lists in agreement, and leaves them so.                *)
THEOREM Invariant == Spec => []IInv
<1>1. Init => IInv
  BY InitHolds
<1>2. IInv /\ [Next]_vars => IInv'
  BY NextKept
<1> QED BY <1>1, <1>2, PTL DEF Spec

(* The tables stay within their types: no delay goes below zero, no list   *)
(* gets a null node, no pointer leaves the objects it may point to.        *)
THEOREM TypeCorrect == Spec => []TypeOK
<1>1. IInv => TypeOK
  BY TablesTyped DEF IInv, CallsTyped, TypeOK
<1> QED BY <1>1, Invariant, PTL

(* Each task is in the lists its state names and in no other, once in      *)
(* each, and the bit map of the priorities agrees with the ready lists.    *)
THEOREM ListsAlwaysAgree == Spec => []ListsAgree
<1>1. IInv => ListsAgree
  <2> SUFFICES ASSUME IInv
               PROVE  ListsAgree
    OBVIOUS
  <2>1. Lists(k, {}, TimedCalls(pc))
    BY DEF IInv, Running, Whole
  <2>2. \A p \in Prio :
          /\ NoRepeat(k.ready[p]) /\ (p \in k.prioGroup <=> k.ready[p] # << >>)
          /\ \A t \in Task : t \in Range(k.ready[p])
                               <=> k.state[t] = "ready" /\ k.priority[t] = p
    BY <2>1 DEF Lists, ReadyAgree
  <2>3. \A x \in SyncObj :
          /\ NoRepeat(k.waitingList[x])
          /\ \A t \in Task : t \in Range(k.waitingList[x]) <=> WaitsFor(t, x)
    BY <2>1 DEF Lists, WaitersAgree, WaitsFor, ListWait
  <2>4. /\ NoRepeat(k.delayed)
        /\ \A t \in Task : t \in Range(k.delayed) <=> TimedWait(t)
    BY <2>1 DEF Lists, DelayedAgree, Timed, TimedWait, TimedCalls
  <2>5. \A t \in Task : t \in k.suspended <=> k.state[t] = "suspended"
    BY <2>1 DEF Lists, SuspendedAgree
  <2>6. /\ NoRepeat(k.zombies)
        /\ \A t \in Task : t \in k.freeTcb \cup Range(k.zombies) => k.state[t] = "none"
    BY TcbFacts
  <2> QED BY <2>2, <2>3, <2>4, <2>5, <2>6 DEF ListsAgree
<1> QED BY <1>1, Invariant, PTL

(* The TCB a task makes, deletes or frees the stack of is in no list and   *)
(* is nobody else's.                                                       *)
THEOREM TcbsNeverShared == Spec => []TcbNotShared
<1>1. IInv => TcbNotShared
  <2> SUFFICES ASSUME IInv, NEW t \in Task
               PROVE  LET busy == {u \in Task : k.state[u] # "none" /\ arg[u] = t
                                     /\ pc[u] \in {"create", "delete", "reap"}}
                      IN  /\ t \in k.freeTcb => t \notin Range(k.zombies)
                          /\ busy # {} => /\ \A u, v \in busy : u = v
                                          /\ k.state[t] = "none"
                                          /\ t \notin k.freeTcb \cup Range(k.zombies)
    BY DEF TcbNotShared
  <2> QED BY TcbFacts, BusyFacts DEF Making
<1> QED BY <1>1, Invariant, PTL

(* Nobody waits for a mutex that is free or a semaphore that has permits.  *)
THEOREM NoWaitForTheAvailable == Spec => []NothingAvailableIsWaitedFor
<1>1. IInv => NothingAvailableIsWaitedFor
  <2> SUFFICES ASSUME IInv
               PROVE  NothingAvailableIsWaitedFor
    OBVIOUS
  <2>1. Running(k, TimedCalls(pc)) /\ Waits(k) /\ k \in Tables
    BY TablesTyped
  <2>2. ASSUME NEW m \in Mutex, k.count[m] = 0
        PROVE  k.waitingList[m] = << >>
    <3> SUFFICES ASSUME k.waitingList[m] # << >>
                 PROVE  FALSE
      OBVIOUS
    <3> DEFINE t == Head(k.waitingList[m])
    <3>1. m \in SyncObj
      BY DEF SyncObj
    <3>2. t \in Task /\ k.objPtr[t] = m /\ k.state[t] = "mutexWait"
      BY <2>1, <3>1, HeadWaits
    <3> HIDE DEF t
    <3> QED BY <2>1, <2>2, <3>2 DEF Waits
  <2>3. ASSUME NEW x \in k.semUsed, k.count[x] > 0
        PROVE  k.waitingList[x] = << >>
    <3> SUFFICES ASSUME k.waitingList[x] # << >>
                 PROVE  FALSE
      OBVIOUS
    <3> DEFINE t == Head(k.waitingList[x])
    <3>1. x \in SyncObj /\ x \in Sem /\ k.count[x] \in Int
      BY <2>1 DEF SyncObj, Tables, Counted
    <3>2. t \in Task /\ k.objPtr[t] = x /\ k.state[t] = "semWait"
      BY <2>1, <3>1, HeadWaits
    <3> HIDE DEF t
    <3>3. k.count[x] <= 0
      BY <2>1, <3>2 DEF Waits
    <3> QED BY <2>3, <3>1, <3>3
  <2> QED BY <2>2, <2>3 DEF NothingAvailableIsWaitedFor
<1> QED BY <1>1, Invariant, PTL

-----------------------------------------------------------------------------
(* Strict preemption, as long as no priority is lent and no task flushes a *)
(* semaphore.                                                              *)

(* aaSchedule_ chooses a ready task that no other one outranks.            *)
LEMMA SwitchForemost ==
  ASSUME NEW s, NEW u, NEW T, u = Schedule(s), Running(u, T)
  PROVE  /\ Foremost(u)
         /\ u.state = s.state /\ u.priority = s.priority
         /\ u.basePriority = s.basePriority
<1> DEFINE c == Head(s.ready[HighestPrio(s)])
<1>1. u = [s EXCEPT !.cur = c, !.sched = FALSE]
  BY DEF Schedule
<1>2. u \in Tables /\ Lists(u, {}, T)
  BY DEF Running, Whole, Lists
<1> HIDE DEF c
<1>3. /\ u.cur = c /\ u.ready = s.ready /\ u.prioGroup = s.prioGroup
      /\ u.state = s.state /\ u.priority = s.priority
      /\ u.basePriority = s.basePriority
  BY <1>1, <1>2 DEF Tables
<1>4. HighestPrio(u) = HighestPrio(s)
  BY <1>3 DEF HighestPrio
<1>5. u.cur = Head(u.ready[HighestPrio(u)])
  BY <1>3, <1>4 DEF c
<1>6. ASSUME NEW t \in Task, u.state[t] = "ready"
      PROVE  u.priority[t] <= u.priority[u.cur]
  BY <1>2, <1>5, <1>6, HighestPrioFacts
<1> QED BY <1>3, <1>6 DEF Foremost

(* A step that makes no task ready and switches to none.                   *)
LEMMA StillForemost ==
  ASSUME IInv, IInv', Foremost(k), NoneLent, NoneLent', k'.cur = k.cur,
         \A t \in Task : k'.state[t] = "ready" =>
           k.state[t] = "ready" /\ k'.basePriority[t] = k.basePriority[t]
  PROVE  Foremost(k')
<1>1. k.cur \in Task /\ k'.cur \in Task /\ k'.state[k'.cur] = "ready"
  <2>1. Running(k', TimedCalls(pc'))
    BY DEF IInv
  <2> QED BY <2>1, TablesTyped DEF Running
<1>2. ASSUME NEW t \in Task, k'.state[t] = "ready"
      PROVE  k'.priority[t] = k.priority[t]
  BY <1>2 DEF NoneLent
<1> QED BY <1>1, <1>2 DEF Foremost

(* The end of a service called from a task, that may have woken others.    *)
LEMMA CalledForemost ==
  ASSUME IInv, IInv', Foremost(k), NoneLent, NoneLent',
         NEW u, Asks(u, k), Running(u, TimedCalls(pc)), CalledFromTask(u)
  PROVE  Foremost(k')
<1>1. k' = ScheduleIf(u)
  BY DEF CalledFromTask
<1>2. CASE u.sched
  <2>1. k' = Schedule(u)
    BY <1>1, <1>2 DEF ScheduleIf
  <2>2. Running(k', TimedCalls(pc'))
    BY DEF IInv
  <2> DEFINE s == k'
  <2> HIDE DEF s
  <2>3. s = Schedule(u) /\ Running(s, TimedCalls(pc'))
    BY <2>1, <2>2 DEF s
  <2>4. Foremost(s)
    BY <2>3, SwitchForemost
  <2> QED BY <2>4 DEF s
<1>3. CASE ~ u.sched
  <2>1. k' = u
    BY <1>1, <1>3 DEF ScheduleIf
  <2>2. /\ k.cur \in Task /\ k.state[k.cur] = "ready" /\ u.cur = k.cur
        /\ MaxPrio \in Nat /\ \A t \in Task : u.priority[t] \in 0 .. MaxPrio
    BY TablesTyped, KernelAssumption DEF Asks, Running, Whole, Lists, Tables, Prio
  <2>3. \A t \in Task : u.priority[t] = k.priority[t]
    BY <2>1 DEF NoneLent, Asks
  <2>4. ASSUME NEW t \in Task, u.state[t] = "ready"
        PROVE  u.priority[t] <= u.priority[u.cur]
    <3>1. CASE k.state[t] = "ready"
      BY <3>1, <2>2, <2>3 DEF Foremost
    <3>2. CASE k.state[t] # "ready"
      <4>1. ~ (u.priority[t] > u.priority[u.cur])
        BY <3>2, <2>4, <1>3 DEF Asks, Asked
      <4> QED BY <4>1, <2>2
    <3> QED BY <3>1, <3>2
  <2> QED BY <2>1, <2>4 DEF Foremost
<1> QED BY <1>2, <1>3

(* aaMutexGive hands the mutex to the first waiter, if any.                *)
LEMMA HandOverAsks ==
  ASSUME NEW s, NEW T, Running(s, T), NEW m \in Mutex
  PROVE  Asks(HandOver(s, m), s)
<1>1. s \in Tables /\ m \in SyncObj
  BY DEF Running, Whole, Lists, SyncObj
<1>2. CASE s.waitingList[m] # << >>
  <2> DEFINE h == Head(s.waitingList[m])
             v == WakeFirst(s, m)
             u == [v EXCEPT !.pOwner[m] = h]
  <2>1. HandOver(s, m) = u
    BY <1>2 DEF HandOver
  <2>2. h \in Task
    BY <1>1, <1>2, HeadWaits
  <2>3. Running(v, T) /\ Woken(v, s, h, {})
    BY <1>1, <1>2, WakeFirstRuns
  <2> HIDE DEF v, h
  <2>4. v \in Tables
    BY <2>3 DEF Running, Whole, Lists
  <2>5. Asks(v, s)
    BY <1>1, <2>2, <2>3, <2>4, WokenAsks
  <2>6. /\ u.cur = v.cur /\ u.basePriority = v.basePriority /\ u.state = v.state
        /\ u.priority = v.priority /\ u.sched = v.sched
    BY <2>4 DEF Tables
  <2> HIDE DEF u
  <2> QED BY <2>1, <2>5, <2>6 DEF Asks, Asked
<1>3. CASE s.waitingList[m] = << >>
  <2> DEFINE u == [s EXCEPT !.count[m] = 0, !.pOwner[m] = None]
  <2>1. HandOver(s, m) = u
    BY <1>3 DEF HandOver
  <2>2. u.cur = s.cur /\ u.state = s.state /\ u.basePriority = s.basePriority
    BY <1>1 DEF Tables
  <2> HIDE DEF u
  <2> QED BY <2>1, <2>2, SameAsks
<1> QED BY <1>2, <1>3

(* aaMutexGive.  What it undoes of a lent priority is nothing here.        *)
LEMMA MutexGiveForemost ==
  ASSUME IInv, IInv', Foremost(k), NoneLent, NoneLent',
         NEW t \in Task, NEW m \in Mutex, MutexGive(t, m)
  PROVE  Foremost(k')
<1> DEFINE T == TimedCalls(pc)
           l == k.mutexList[t] \ {m}
           s == [k EXCEPT !.mutexList[t] = l]
           v == NewPrio(s, t)
           u == HandOver(v, m)
<1>1. CalledFromTask(u)
  BY DEF MutexGive
<1>2. k \in Tables /\ Running(k, T) /\ Waits(k) /\ k.basePriority[Idle] = 0
  BY TablesTyped
<1>3. l \in SUBSET Mutex
  BY <1>2 DEF Tables
<1>4. s \in Tables
  BY <1>2, <1>3, MutexListTyped
<1>5. Unmoved(s, k) /\ s.basePriority = k.basePriority
      /\ s.pOwner = k.pOwner /\ s.count = k.count /\ s.semUsed = k.semUsed
  BY DEF Unmoved
<1> HIDE DEF s, T
<1>6. Waits(s)
  BY <1>2, <1>5 DEF Waits, Unmoved
<1>7. Running(s, T)
  BY <1>2, <1>4, <1>5, <1>6, UnmovedRunning
<1>8. /\ Running(v, T) /\ v.cur = k.cur /\ v.state = k.state
      /\ v.basePriority = k.basePriority
  BY <1>5, <1>7, NewPrioRuns DEF SameRest, SameObjects, SameTasks, Unmoved
<1> HIDE DEF v
<1>9. Running(u, T) /\ Asks(u, v)
  BY <1>8, HandOverRuns, HandOverAsks
<1> HIDE DEF u
<1>10. Asks(u, k)
  BY <1>8, <1>9, AsksAfter
<1> QED BY <1>1, <1>9, <1>10, CalledForemost DEF T

(* A step that ends in aaSchedule_.                                        *)
LEMMA SwitchedForemost ==
  ASSUME IInv', NEW w, k' = Schedule(w)
  PROVE  Foremost(k')
<1> DEFINE u == k'
<1> HIDE DEF u
<1>1. u = Schedule(w) /\ Running(u, TimedCalls(pc'))
  BY DEF u, IInv
<1>2. Foremost(u)
  BY <1>1, SwitchForemost
<1> QED BY <1>2 DEF u

(* The mutexes.                                                            *)
LEMMA MutexForemost ==
  ASSUME IInv, IInv', Foremost(k), NoneLent, NoneLent', MutexNext
  PROVE  Foremost(k')
<1>1. k \in Tables
  BY TablesTyped
<1>2. ASSUME NEW t \in Task, NEW m \in Mutex,
             \/ MutexCreate(t, m) \/ MutexDelete(t, m)
             \/ MutexTakeFree(t, m) \/ MutexTakeAgain(t, m) \/ MutexGiveOnce(t, m)
      PROVE  Foremost(k')
  <2>1. k'.cur = k.cur /\ k'.state = k.state /\ k'.basePriority = k.basePriority
    BY <1>1, <1>2 DEF Tables, MutexCreate, MutexDelete, MutexTakeFree, MutexTakeAgain,
                      MutexGiveOnce
  <2> QED BY <2>1, StillForemost
<1>3. ASSUME NEW t \in Task, NEW m \in Mutex, NEW d \in TakeDelays, MutexTakeWait(t, m, d)
      PROVE  Foremost(k')
  BY <1>3, SwitchedForemost DEF MutexTakeWait, WaitOrdered
<1>4. ASSUME NEW t \in Task, MutexTakeTimedOut(t) \/ MutexTakeGranted(t)
      PROVE  Foremost(k')
  <2>1. k'.cur = k.cur /\ k'.state = k.state /\ k'.basePriority = k.basePriority
    BY <1>1, <1>4 DEF Tables, MutexTakeTimedOut, MutexTakeGranted
  <2> QED BY <2>1, StillForemost
<1> QED BY <1>2, <1>3, <1>4, MutexGiveForemost DEF MutexNext

(* A service called from a handler: the switch follows, or is left to the  *)
(* end of the tick.                                                        *)
LEMMA IsrForemost ==
  ASSUME IInv', NEW u, CalledFromIsr(u), TaskLevel'
  PROVE  Foremost(k')
<1>1. k' = Schedule(u)
  BY DEF CalledFromIsr, Stays, TaskLevel
<1> QED BY <1>1, SwitchedForemost

(* A permit goes to the first waiter, or to the count.                     *)
LEMMA GiveAsks ==
  ASSUME NEW s, NEW T, Running(s, T), NEW x \in Sem
  PROVE  Asks(Give(s, x), s)
<1>1. s \in Tables /\ x \in SyncObj
  BY DEF SyncObj, Running, Whole, Lists
<1>2. CASE s.count[x] < 0 \/ s.waitingList[x] = << >>
  <2> DEFINE u == [s EXCEPT !.count[x] = @ + 1, !.sched = FALSE]
  <2>1. Give(s, x) = u
    BY <1>2 DEF Give
  <2>2. u.cur = s.cur /\ u.state = s.state /\ u.basePriority = s.basePriority
    BY <1>1 DEF Tables
  <2> HIDE DEF u
  <2> QED BY <2>1, <2>2, SameAsks
<1>3. CASE ~ (s.count[x] < 0 \/ s.waitingList[x] = << >>)
  <2> DEFINE u == WakeFirst(s, x)
             h == Head(s.waitingList[x])
  <2>1. Give(s, x) = u
    BY <1>3 DEF Give
  <2>2. h \in Task
    BY <1>1, <1>3, HeadWaits
  <2>3. Running(u, T) /\ Woken(u, s, h, {})
    BY <1>1, <1>3, WakeFirstRuns
  <2> HIDE DEF u, h
  <2>4. u \in Tables
    BY <2>3 DEF Running, Whole, Lists
  <2> QED BY <2>1, <2>2, <2>3, <2>4, <1>1, WokenAsks
<1> QED BY <1>2, <1>3

(* The semaphores.                                                         *)
LEMMA SemForemost ==
  ASSUME IInv, IInv', TaskLevel => Foremost(k), TaskLevel', NoneLent, NoneLent',
         HandlersFlush, SemNext
  PROVE  Foremost(k')
<1>1. k \in Tables /\ None \notin Sem
  BY TablesTyped, KernelAssumption DEF SyncObj
<1>2. ASSUME NEW t \in Task, NEW x \in Sem, NEW n,
             \/ SemCreate(t, x, n) \/ SemReset(t, x, n)
             \/ SemTakeNow(t, x) \/ SemDelete(t, x)
      PROVE  Foremost(k')
  <2>1. k'.cur = k.cur /\ k'.state = k.state /\ k'.basePriority = k.basePriority
    <3>1. CASE SemReset(t, x, n)
      <4> DEFINE c == n % 65536
      <4>1. k' = [k EXCEPT !.count[x] = c]
        BY <3>1 DEF SemReset
      <4> HIDE DEF c
      <4> QED BY <4>1, <1>1 DEF Tables
    <3>2. CASE SemCreate(t, x, n)
      BY <3>2, <1>1 DEF Tables, SemCreate
    <3>3. CASE SemTakeNow(t, x) \/ SemDelete(t, x)
      BY <3>3, <1>1 DEF Tables, SemTakeNow, SemDelete
    <3> QED BY <3>1, <3>2, <3>3, <1>2
  <2>2. TaskLevel
    BY <1>2, RunsFacts DEF TaskLevel, SemCreate, SemReset, SemTakeNow, SemDelete
  <2> QED BY <2>1, <2>2, StillForemost
<1>3. ASSUME NEW t \in Task,
             SemTakeFailed(t) \/ SemTakeGranted(t) \/ SemDeleteEnd(t)
      PROVE  Foremost(k')
  <2>1. k'.cur = k.cur /\ k'.state = k.state /\ k'.basePriority = k.basePriority
    BY <1>1, <1>3 DEF Tables, SemTakeFailed, SemTakeGranted, SemDeleteEnd
  <2>2. TaskLevel
    BY <1>3, ResumesFacts DEF TaskLevel, SemTakeFailed, SemTakeGranted, SemDeleteEnd
  <2> QED BY <2>1, <2>2, StillForemost
<1>4. ASSUME NEW t \in Task, NEW x \in Sem, NEW d \in TakeDelays, SemTakeWait(t, x, d)
      PROVE  Foremost(k')
  BY <1>4, SwitchedForemost DEF SemTakeWait, WaitOrdered
<1>5. ASSUME NEW t \in Task, NEW x \in Sem, SemGive(t, x)
      PROVE  Foremost(k')
  <2> DEFINE u == Give(k, x)
  <2>1. CalledFromTask(u) /\ TaskLevel
    BY <1>5, RunsFacts DEF TaskLevel, SemGive
  <2>2. Running(u, TimedCalls(pc)) /\ Asks(u, k)
    BY TablesTyped, GiveRuns, GiveAsks
  <2> HIDE DEF u
  <2> QED BY <2>1, <2>2, CalledForemost
<1>6. ASSUME NEW x \in Sem, SemGiveFromIsr(x)
      PROVE  Foremost(k')
  BY <1>6, IsrForemost DEF SemGiveFromIsr
<1>7. ASSUME NEW x \in Sem,
             (\E t \in Task : SemFlush(t, x)) \/ SemFlushFromIsr(x) \/ FlushOne(x)
      PROVE  FALSE
  BY <1>1, <1>7 DEF SemFlush, SemFlushFromIsr, FlushBegin, FlushOne, Stays, TaskLevel
<1>9. ASSUME NEW x \in Sem, FlushEnd(x)
      PROVE  Foremost(k')
  <2>1. isr = "other"
    BY <1>1, <1>9 DEF FlushEnd, TaskLevel, HandlersFlush
  <2>2. k' = Schedule(k)
    BY <1>9, <2>1 DEF FlushEnd
  <2> QED BY <2>2, SwitchedForemost
<1>8. CASE \E t \in Task, x \in Sem :
             \/ \E n \in SemCounts : SemCreate(t, x, n)
             \/ \E n \in ResetCounts : SemReset(t, x, n)
             \/ SemTakeNow(t, x) \/ SemDelete(t, x)
  BY <1>2, <1>8
<1> QED BY <1>3, <1>4, <1>5, <1>6, <1>7, <1>8, <1>9 DEF SemNext

(* The signals.                                                            *)
LEMMA SignalForemost ==
  ASSUME IInv, IInv', TaskLevel => Foremost(k), TaskLevel', NoneLent, NoneLent',
         SignalNext
  PROVE  Foremost(k')
<1>1. k \in Tables
  BY TablesTyped
<1>2. ASSUME NEW t \in Task, NEW v \in Task, NEW bits \in SignalSets, NEW mode \in Modes,
             SignalTry(t, bits, mode) \/ SignalClear(t, v, bits)
      PROVE  Foremost(k')
  <2>1. k'.cur = k.cur /\ k'.state = k.state /\ k'.basePriority = k.basePriority
    BY <1>1, <1>2 DEF Tables, SignalTry, SignalAsked, SignalClear
  <2>2. TaskLevel
    BY <1>2, RunsFacts DEF TaskLevel, SignalTry, SignalClear
  <2> QED BY <2>1, <2>2, StillForemost
<1>3. ASSUME NEW t \in Task, SignalWaitEnd(t)
      PROVE  Foremost(k')
  <2>1. k'.cur = k.cur /\ k'.state = k.state /\ k'.basePriority = k.basePriority
    BY <1>1, <1>3 DEF Tables, SignalWaitEnd
  <2>2. TaskLevel
    BY <1>3, ResumesFacts DEF TaskLevel, SignalWaitEnd
  <2> QED BY <2>1, <2>2, StillForemost
<1>4. ASSUME NEW t \in Task, NEW bits \in SignalSets, NEW mode \in Modes,
             NEW d \in TakeDelays, SignalWait(t, bits, mode, d)
      PROVE  Foremost(k')
  BY <1>4, SwitchedForemost DEF SignalWait
<1>5. ASSUME NEW t \in Task, NEW v \in Task, NEW bits \in SignalSets, NEW pulse,
             SignalSend(t, v, bits, pulse)
      PROVE  Foremost(k')
  <2> DEFINE u == Signalled(k, v, bits, pulse)
  <2>1. CalledFromTask(u) /\ TaskLevel
    BY <1>5, RunsFacts DEF TaskLevel, SignalSend
  <2>2. bits \in SUBSET Signal
    BY SignalAssumption
  <2>3. Running(u, TimedCalls(pc)) /\ Asks(u, k)
    BY <2>2, TablesTyped, SignalledRuns
  <2> HIDE DEF u
  <2> QED BY <2>1, <2>3, CalledForemost
<1>6. ASSUME NEW v \in Task, NEW bits \in SignalSets, NEW pulse,
             SignalSendFromIsr(v, bits, pulse)
      PROVE  Foremost(k')
  BY <1>6, IsrForemost DEF SignalSendFromIsr
<1> QED BY <1>2, <1>3, <1>4, <1>5, <1>6 DEF SignalNext

(* aaTaskResume makes v ready.                                             *)
LEMMA TaskResumeForemost ==
  ASSUME IInv, IInv', Foremost(k), NoneLent, NoneLent',
         NEW t \in Task, NEW v \in Task, TaskResume(t, v)
  PROVE  Foremost(k')
<1> DEFINE T == TimedCalls(pc)
           w == AddReady([k EXCEPT !.suspended = @ \ {v}], v)
           b == k.priority[v] > k.priority[t]
           c == k.flags[v] \ {"SUSPEND"}
           s == IF k.state[v] = "suspended" THEN [w EXCEPT !.sched = b]
                ELSE [k EXCEPT !.flags[v] = c]
<1>1. CalledFromTask(s) /\ Runs(t)
  BY Zenon DEF TaskResume
<1>2. k \in Tables /\ Running(k, T) /\ t = k.cur
  BY <1>1, TablesTyped, RunsFacts
<1> HIDE DEF T
<1>3. Running(s, T) /\ Asks(s, k)
  <2>1. CASE k.state[v] = "suspended"
    <3>1. s = [w EXCEPT !.sched = b]
      BY <2>1
    <3>2. Running(w, T)
      BY <2>1, <1>2, ResumedReady
    <3>3. /\ w.cur = k.cur /\ w.basePriority = k.basePriority /\ w.priority = k.priority
          /\ w.state = [k.state EXCEPT ![v] = "ready"]
      BY <1>2 DEF AddReady, Tables
    <3>4. b \in BOOLEAN /\ (b <=> k.priority[v] > k.priority[k.cur])
      BY <1>2
    <3>5. w \in Tables
      BY <3>2 DEF Running, Whole, Lists
    <3> HIDE DEF s, w, b
    <3>6. Running(s, T)
      BY <3>1, <3>2, <3>4, SchedRuns
    <3>7. /\ s.cur = k.cur /\ s.basePriority = k.basePriority /\ s.priority = k.priority
          /\ s.state = [k.state EXCEPT ![v] = "ready"] /\ s.sched = b
      BY <3>1, <3>3, <3>5 DEF Tables
    <3>8. ASSUME NEW a \in Task, k.state[a] # "ready"
          PROVE  Asked(s, a)
      <4>1. CASE a = v
        BY <4>1, <3>4, <3>7 DEF Asked
      <4>2. CASE a # v
        BY <4>2, <3>7, <3>8, <1>2 DEF Asked, Tables
      <4> QED BY <4>1, <4>2
    <3> QED BY <3>6, <3>7, <3>8 DEF Asks
  <2>2. CASE k.state[v] # "suspended"
    <3>1. s = [k EXCEPT !.flags[v] = c]
      BY <2>2
    <3>2. c \in SUBSET Flag /\ c \ {"SUSPEND"} = k.flags[v] \ {"SUSPEND"}
      BY <1>2 DEF Tables
    <3> HIDE DEF s, c
    <3>3. s.cur = k.cur /\ s.state = k.state /\ s.basePriority = k.basePriority
      BY <3>1, <1>2 DEF Tables
    <3>4. Running(s, T)
      BY <3>1, <3>2, <1>2, FlagsRun
    <3>5. Asks(s, k)
      BY <3>3, SameAsks
    <3> QED BY <3>4, <3>5
  <2> QED BY <2>1, <2>2
<1> HIDE DEF s
<1> QED BY <1>1, <1>3, CalledForemost DEF T

(* aaTaskCreate, and its end: the new task is ready only after a switch.   *)
LEMMA TaskCreateForemost ==
  ASSUME IInv, IInv', Foremost(k), NoneLent, NoneLent', NEW t \in Task,
         (\E v \in Task, p \in NewPrios : TaskCreate(t, v, p)) \/ TaskCreateEnd(t)
  PROVE  Foremost(k')
<1>1. k \in Tables
  BY TablesTyped
<1>2. ASSUME NEW v \in Task, NEW p \in NewPrios, TaskCreate(t, v, p)
      PROVE  Foremost(k')
  <2>1. v \in k.freeTcb /\ k.state[v] = "none"
    BY <1>2, TcbFacts DEF TaskCreate
  <2>2. /\ k'.cur = k.cur /\ k'.state = k.state
        /\ k'.basePriority = [k.basePriority EXCEPT ![v] = p]
    BY <1>1, <1>2 DEF TaskCreate, Tables
  <2>3. ASSUME NEW a \in Task, k'.state[a] = "ready"
        PROVE  k.state[a] = "ready" /\ k'.basePriority[a] = k.basePriority[a]
    BY <1>1, <2>1, <2>2, <2>3 DEF Tables
  <2> QED BY <2>2, <2>3, StillForemost
<1>3. ASSUME TaskCreateEnd(t)
      PROVE  Foremost(k')
  <2>1. CASE k' = Schedule(AddReady(k, arg[t]))
    BY <2>1, SwitchedForemost
  <2>2. CASE k' = Suspend(k, arg[t])
    <3>1. /\ k'.cur = k.cur /\ k'.basePriority = k.basePriority
          /\ k'.state = [k.state EXCEPT ![arg[t]] = "suspended"]
      BY <1>1, <2>2 DEF Suspend, Tables
    <3>2. ASSUME NEW a \in Task, k'.state[a] = "ready"
          PROVE  k.state[a] = "ready"
      BY <1>1, <3>1, <3>2 DEF Tables
    <3> QED BY <3>1, <3>2, StillForemost
  <2>3. CASE k' = [k EXCEPT !.freeTcb = @ \cup {arg[t]}]
    <3>1. k'.cur = k.cur /\ k'.state = k.state /\ k'.basePriority = k.basePriority
      BY <1>1, <2>3 DEF Tables
    <3> QED BY <3>1, StillForemost
  <2> QED BY <1>3, <2>1, <2>2, <2>3 DEF TaskCreateEnd
<1> QED BY <1>2, <1>3

(* The ends of the calls, the zombies, and the deletion of another task.   *)
LEMMA TaskQuietForemost ==
  ASSUME IInv, IInv', Foremost(k), NoneLent, NoneLent', NEW t \in Task,
         \/ TaskDelayEnd(t) \/ IoWaitEnd(t) \/ TaskDeleteEnd(t)
         \/ ReapBegin(t) \/ ReapEnd(t) \/ \E v \in Task : TaskDelete(t, v)
  PROVE  Foremost(k')
<1>1. k \in Tables
  BY TablesTyped
<1>2. CASE \/ TaskDelayEnd(t) \/ IoWaitEnd(t) \/ ReapBegin(t)
  <2>1. k'.cur = k.cur /\ k'.state = k.state /\ k'.basePriority = k.basePriority
    BY <1>1, <1>2 DEF Tables, TaskDelayEnd, IoWaitEnd, ReapBegin
  <2> QED BY <2>1, StillForemost
<1>3. CASE TaskDeleteEnd(t) \/ ReapEnd(t)
  <2>1. k'.cur = k.cur /\ k'.state = k.state /\ k'.basePriority = k.basePriority
    <3>1. CASE k' = [k EXCEPT !.freeTcb = @ \cup {arg[t]}]
      BY <1>1, <3>1 DEF Tables
    <3>2. CASE k' = [k EXCEPT !.zombies = Append(@, arg[t])]
      BY <1>1, <3>2 DEF Tables
    <3> QED BY <1>3, <3>1, <3>2 DEF TaskDeleteEnd, ReapEnd
  <2> QED BY <2>1, StillForemost
<1>4. ASSUME NEW v \in Task, TaskDelete(t, v)
      PROVE  Foremost(k')
  <2> DEFINE u == Deleted(k, v)
  <2>1. k' = u /\ v \in Task \ {Idle} /\ k.state[v] # "none"
    BY <1>4, TablesTyped DEF TaskDelete, Exists
  <2>2. Gone(u, k, v)
    BY <2>1, TablesTyped, DeletedRuns
  <2> HIDE DEF u
  <2>3. ASSUME NEW a \in Task, u.state[a] = "ready"
        PROVE  k.state[a] = "ready"
    BY <2>2, <2>3 DEF Gone
  <2>4. u.cur = k.cur /\ u.basePriority = k.basePriority
    BY <2>2 DEF Gone, SameRest, SameObjects
  <2> QED BY <2>1, <2>3, <2>4, StillForemost
<1> QED BY <1>2, <1>3, <1>4

(* aaTaskSuspend.                                                          *)
LEMMA TaskSuspendForemost ==
  ASSUME IInv, IInv', Foremost(k), NoneLent, NoneLent',
         NEW t \in Task, NEW v \in Task, TaskSuspend(t, v)
  PROVE  Foremost(k')
<1> DEFINE c == k.flags[v] \cup {"SUSPEND"}
           s == IF k.state[v] = "ready" THEN Suspend(RemoveReady(k, v), v)
                ELSE [k EXCEPT !.flags[v] = c]
<1>1. k' = IF v = t THEN Schedule(s) ELSE s
  BY Zenon DEF TaskSuspend
<1>2. k \in Tables
  BY TablesTyped
<1>3. /\ s.cur = k.cur /\ s.basePriority = k.basePriority
      /\ \A a \in Task : s.state[a] = "ready" => k.state[a] = "ready"
  <2>1. CASE k.state[v] = "ready"
    <3>1. s = Suspend(RemoveReady(k, v), v)
      BY <2>1
    <3> HIDE DEF s
    <3>2. /\ s.cur = k.cur /\ s.basePriority = k.basePriority
          /\ s.state = [k.state EXCEPT ![v] = "suspended"]
      BY <3>1, <1>2 DEF Suspend, RemoveReady, Tables
    <3> QED BY <3>2, <1>2 DEF Tables
  <2>2. CASE k.state[v] # "ready"
    <3>1. s = [k EXCEPT !.flags[v] = c]
      BY <2>2
    <3> HIDE DEF s
    <3> QED BY <3>1, <1>2 DEF Tables
  <2> QED BY <2>1, <2>2
<1> HIDE DEF s
<1>4. CASE v = t
  BY <1>1, <1>4, SwitchedForemost
<1>5. CASE v # t
  BY <1>1, <1>3, <1>5, StillForemost
<1> QED BY <1>4, <1>5

(* aaTaskWakeUp and aaIoResume wake a task.                                *)
LEMMA TaskWakesForemost ==
  ASSUME IInv, IInv', Foremost(k), NoneLent, NoneLent', NEW t \in Task,
         \/ \E v \in Task : TaskWakeUp(t, v)
         \/ \E x \in Driver : IoResume(t, x)
  PROVE  Foremost(k')
<1>1. k \in Tables /\ Running(k, TimedCalls(pc))
  BY TablesTyped
<1>2. ASSUME NEW v \in Task, TaskWakeUp(t, v)
      PROVE  Foremost(k')
  <2> DEFINE u == WakeByTimeout(k, v)
  <2>1. CalledFromTask(u) /\ Asleep(v)
    BY <1>2 DEF TaskWakeUp
  <2>2. Running(u, TimedCalls(pc)) /\ Keeps(u, k) /\ Woken(u, k, v, {"DELAYTMO"})
    BY <1>1, <2>1, WakeByTimeoutRuns DEF Asleep
  <2> HIDE DEF u
  <2>3. Asks(u, k)
    BY <1>1, <2>2, WokenAsks DEF Running, Whole, Lists
  <2> QED BY <2>1, <2>2, <2>3, CalledForemost
<1>3. ASSUME NEW x \in Driver, IoResume(t, x)
      PROVE  Foremost(k')
  <2> DEFINE u == Resumed(k, x)
             h == Head(k.waitingList[x])
  <2>1. CalledFromTask(u) /\ k.waitingList[x] # << >> /\ x \in SyncObj
    BY <1>3 DEF IoResume, SyncObj
  <2>2. h \in Task
    BY <1>1, <2>1, HeadWaits
  <2>3. Running(u, TimedCalls(pc)) /\ Keeps(u, k) /\ Woken(u, k, h, {})
    BY <1>1, <2>1, ResumedRuns
  <2> HIDE DEF u, h
  <2>4. Asks(u, k)
    BY <1>1, <2>2, <2>3, WokenAsks DEF Running, Whole, Lists
  <2> QED BY <2>1, <2>3, <2>4, CalledForemost
<1> QED BY <1>2, <1>3

(* The calls of a task about tasks and drivers.                            *)
LEMMA TaskForemost ==
  ASSUME IInv, IInv', TaskLevel => Foremost(k), TaskLevel', NoneLent, NoneLent',
         TaskNext
  PROVE  Foremost(k')
<1>1. ASSUME NEW t \in Task,
             \/ TaskDelayEnd(t) \/ IoWaitEnd(t) \/ TaskDeleteEnd(t)
             \/ ReapBegin(t) \/ ReapEnd(t) \/ \E v \in Task : TaskDelete(t, v)
      PROVE  Foremost(k')
  <2>1. TaskLevel
    BY <1>1 DEF TaskDelayEnd, IoWaitEnd, TaskDeleteEnd, ReapBegin, ReapEnd, TaskDelete,
                Runs, Resumes
  <2> QED BY <1>1, <2>1, TaskQuietForemost
<1>2. ASSUME NEW t \in Task, NEW v \in Task, NEW p \in NewPrios, TaskSetPriority(t, v, p)
      PROVE  Foremost(k')
  BY <1>2, SwitchedForemost DEF TaskSetPriority
<1>3. ASSUME NEW t \in Task,
             \/ TaskYield(t) \/ TaskDeleteSelf(t) \/ \E d \in TaskDelays : TaskDelay(t, d)
      PROVE  Foremost(k')
  BY <1>3, SwitchedForemost DEF TaskYield, TaskDelay, TaskDeleteSelf
<1>4. ASSUME NEW t \in Task, NEW x \in Driver, NEW d \in IoDelays, NEW ordered \in BOOLEAN,
             IoWait(t, x, ordered, d)
      PROVE  Foremost(k')
  BY <1>4, SwitchedForemost DEF IoWait
<1>5. ASSUME NEW t \in Task, NEW v \in Task, TaskSuspend(t, v)
      PROVE  Foremost(k')
  BY <1>5, TaskSuspendForemost DEF TaskSuspend, Runs
<1>6. ASSUME NEW t \in Task, NEW v \in Task, TaskResume(t, v)
      PROVE  Foremost(k')
  BY <1>6, TaskResumeForemost DEF TaskResume, Runs
<1>7. ASSUME NEW t \in Task,
             (\E v \in Task, p \in NewPrios : TaskCreate(t, v, p)) \/ TaskCreateEnd(t)
      PROVE  Foremost(k')
  <2>1. TaskLevel
    BY <1>7 DEF TaskCreate, TaskCreateEnd, Runs, Resumes
  <2> QED BY <1>7, <2>1, TaskCreateForemost
<1>8. ASSUME NEW t \in Task,
             \/ \E v \in Task : TaskWakeUp(t, v)
             \/ \E x \in Driver : IoResume(t, x)
      PROVE  Foremost(k')
  <2>1. TaskLevel
    BY <1>8 DEF TaskWakeUp, IoResume, Runs
  <2> QED BY <1>8, <2>1, TaskWakesForemost
<1>9. ASSUME NEW x \in Driver, IoResumeFromIsr(x)
      PROVE  Foremost(k')
  BY <1>9, IsrForemost DEF IoResumeFromIsr
<1> QED BY <1>1, <1>2, <1>3, <1>4, <1>5, <1>6, <1>7, <1>8, <1>9 DEF TaskNext

(* The tick: its handler ends in a switch.                                 *)
LEMMA TickForemost ==
  ASSUME IInv', TaskLevel', TickNext
  PROVE  Foremost(k')
<1>1. CASE Tick \/ TickExpire
  BY <1>1 DEF Tick, TickExpire, Stays, TaskLevel
<1>2. CASE TickEnd
  BY <1>2, SwitchedForemost DEF TickEnd
<1> QED BY <1>1, <1>2 DEF TickNext

(* At task level, no ready task outranks the task that runs.               *)
LEMMA ForemostKept ==
  ASSUME IInv, IInv', TaskLevel => Foremost(k), NoneLent, NoneLent', HandlersFlush,
         [Next]_vars
  PROVE  TaskLevel' => Foremost(k')
<1> SUFFICES ASSUME TaskLevel' PROVE Foremost(k')
  OBVIOUS
<1>1. CASE MutexNext
  <2>1. PICK t \in Task : Runs(t) \/ Resumes(t, "mutexTake")
    BY <1>1 DEF MutexNext, MutexCreate, MutexDelete, MutexTakeFree, MutexTakeAgain,
                MutexGiveOnce, MutexTakeWait, MutexTakeTimedOut, MutexTakeGranted,
                MutexGive
  <2>2. TaskLevel
    BY <2>1 DEF Runs, Resumes
  <2> QED BY <1>1, <2>2, MutexForemost
<1>2. CASE SemNext
  BY <1>2, SemForemost
<1>3. CASE SignalNext
  BY <1>3, SignalForemost
<1>4. CASE TaskNext
  BY <1>4, TaskForemost
<1>5. CASE TickNext
  BY <1>5, TickForemost
<1>6. CASE UNCHANGED vars
  BY <1>6 DEF vars, TaskLevel
<1> QED BY <1>1, <1>2, <1>3, <1>4, <1>5, <1>6 DEF Next

(* RunsHighest: as long as no mutex lends a priority and only handlers     *)
(* flush semaphores, whatever the tasks and the handlers call, the task    *)
(* that runs is ready and no other ready task outranks it (aaSchedule_ and *)
(* bRequestSchedule of aakernel.c).                                        *)
THEOREM StrictPreemption ==
  Spec /\ []NoneLent /\ []HandlersFlush => []RunsHighest
<1> DEFINE F == TaskLevel => Foremost(k)
<1>1. Init => F
  <2> SUFFICES ASSUME Init PROVE Foremost(k)
    OBVIOUS
  <2>1. k = Schedule(StartTables)
    BY DEF Init
  <2>2. Running(k, TimedCalls(pc))
    BY InitHolds DEF IInv
  <2> QED BY <2>1, <2>2, SwitchForemost
<1>2. /\ IInv /\ IInv' /\ NoneLent /\ NoneLent' /\ HandlersFlush
      /\ F /\ [Next]_vars
      => F'
  BY ForemostKept
<1>3. IInv /\ F => RunsHighest
  <2> SUFFICES ASSUME IInv, F PROVE RunsHighest
    OBVIOUS
  <2>1. k.state[k.cur] = "ready"
    BY TablesTyped DEF Running
  <2> QED BY <2>1 DEF RunsHighest, Foremost
<1> QED BY <1>1, <1>2, <1>3, Invariant, PTL DEF Spec
=============================================================================
