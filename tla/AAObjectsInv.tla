---------------------------- MODULE AAObjectsInv ----------------------------
(***************************************************************************)
(* What the tables of the kernel and the calls the tasks are in have to do *)
(* with each other: who waits for which object in which call, what a task  *)
(* that waits no more is told, and whose the mutexes are.                  *)
(***************************************************************************)
EXTENDS AARtkInv

(* A task waits in the state st in the call c only, for what it has asked; *)
(* its call outlasts the wait.                                             *)
InCall(s, p, a, st, c) ==
  \A t \in Task :
    /\ s.state[t] = st => p[t] = c /\ s.objPtr[t] = a[t]
    /\ p[t] = c => s.state[t] \in {st, "none"} \cup Settled

(* A task that waits has not been told anything yet.                       *)
MutexCalls(s, p, a) ==
  /\ InCall(s, p, a, "mutexWait", "mutexTake")
  /\ \A t \in Task : s.state[t] = "mutexWait" => "DELAYTMO" \notin s.flags[t]

SemCalls(s, p, a) ==
  /\ InCall(s, p, a, "semWait", "semTake")
  /\ \A t \in Task : s.state[t] = "semWait" => s.flags[t] \cap Causes = {}

(* A mutex that is taken has an owner, which knows of it: from its list,   *)
(* or because it has not been told that its wait was in vain.              *)
Owners(s, p, a) ==
  /\ \A m \in Mutex : s.count[m] # 0 => s.count[m] > 0 /\ s.pOwner[m] \in Task
  /\ \A t \in Task :
       /\ \A m \in s.mutexList[t] : s.pOwner[m] = t /\ s.count[m] > 0
       /\ p[t] = "mutexTake" /\ s.state[t] # "none" => a[t] \notin s.mutexList[t]
       /\ p[t] = "mutexTake" /\ s.state[t] \in Settled =>
            ("DELAYTMO" \notin s.flags[t] <=> s.pOwner[a[t]] = t /\ s.count[a[t]] > 0)

(* The second inductive invariant, on top of IInv.                         *)
OInv == /\ MutexCalls(k, pc, arg) /\ Owners(k, pc, arg)
        /\ SemCalls(k, pc, arg)
        /\ NoSignalMissed

-----------------------------------------------------------------------------
(* What a step does to each task.                                          *)

Granted(x) == {t \in Task : GrantedTo(t, x)}

(* It stays in its call and its wait, or it is v and its wait is in vain.  *)
SameCall(t)   == pc'[t] = pc[t] /\ arg'[t] = arg[t]
GoesOn(t)     == SameCall(t) /\ SameWait(k', k, t)
IsEnded(t, v) == t = v /\ SameCall(t) /\ Leaves(k', k, t)

(* It has nothing to do with the mutexes, the semaphores or the signals.   *)
AwayFromMutexes(t) == /\ "mutexWait" \notin {k.state[t], k'.state[t]}
                      /\ pc'[t] # "mutexTake"
AwayFromSems(t)    == /\ "semWait" \notin {k.state[t], k'.state[t]}
                      /\ pc'[t] # "semTake"
                      /\ \A x \in Sem : ~ GrantedTo(t, x)
Elsewhere(t)       == /\ AwayFromMutexes(t) /\ AwayFromSems(t)
                      /\ k'.state[t] # "signalWait"

(* Nobody asks for an object or is given one; v only may be told so.       *)
CalmMutexes(v) == \A t \in Task : GoesOn(t) \/ IsEnded(t, v) \/ AwayFromMutexes(t)
CalmSems(v)    == \A t \in Task : GoesOn(t) \/ IsEnded(t, v) \/ AwayFromSems(t)
Calm(v)        == \A t \in Task : GoesOn(t) \/ IsEnded(t, v) \/ Elsewhere(t)

(* No mutex changes hands; no signals come to a task that waits for some.  *)
SameMutexes == /\ \A m \in Mutex :
                    /\ k'.count[m] = k.count[m] \/ (k'.count[m] > 0 /\ k.count[m] > 0)
                    /\ k.count[m] > 0 => k'.pOwner[m] = k.pOwner[m]
               /\ \A t \in Task :
                    \/ k'.mutexList[t] \subseteq k.mutexList[t]
                    \/ /\ pc'[t] # "mutexTake"
                       /\ \A m \in k'.mutexList[t] \ k.mutexList[t] :
                            m \in Mutex /\ k.pOwner[m] = t /\ k.count[m] > 0
SameSignals == \A t \in Task : k'.state[t] = "signalWait" =>
                 /\ k'.sigsWait[t] = k.sigsWait[t]
                 /\ k'.sigsRecv[t] \subseteq k.sigsRecv[t]
Untouched   == /\ SameMutexes /\ SameSignals
               /\ \A x \in Sem : k'.count[x] = k.count[x]

-----------------------------------------------------------------------------
(* What every step is shown to do: it keeps OInv, it is one of AALock, and *)
(* it changes the permits of a semaphore only as it may.                   *)

MutexesHonest == /\ MutexCalls(k', pc', arg') /\ Owners(k', pc', arg')
                 /\ [Lock!Next]_(Lock!vars)

SemsHonest == /\ SemCalls(k', pc', arg')
              /\ \A x \in Sem : \/ Gives(x) \/ Takes(x) \/ Resets(x) \/ Orphaned(x)
                                \/ k'.count[x] = k.count[x] /\ Granted(x)' = Granted(x)

Honest == MutexesHonest /\ SemsHonest /\ NoSignalMissed'

-----------------------------------------------------------------------------
(* The order of the waiting lists, and the priorities mutexes lend.        *)

(* A list in the order of the priorities, which its nodes agree with.      *)
Ranked(list, value, prio) ==
  /\ \A t \in Range(list) : value[t] = prio[t]
  /\ Ascending(list, [t \in Task |-> - prio[t]])

Sorted(s) == \A x \in Counted : Ranked(s.waitingList[x], s.waitValue, s.priority)

(* A task above its own priority has a waiter of that priority.            *)
LentTo(s, t) == \E m \in Mutex : /\ s.pOwner[m] = t
                                 /\ \E u \in Range(s.waitingList[m]) :
                                      s.priority[u] = s.priority[t]
Lent(s) == \A t \in Task : s.priority[t] = s.basePriority[t] \/ LentTo(s, t)

(* What keeps both.                                                        *)
KeepsRanks(u, s) == (Sorted(s) => Sorted(u)) /\ (Lent(s) => Lent(u))

(* No list of waiters changes, nor what its order depends on; no priority  *)
(* changes, unless it goes back to what the task was given.                *)
SameRanks(u, s) ==
  /\ \A x \in Counted :
       /\ u.waitingList[x] = s.waitingList[x]
       /\ \A a \in Range(s.waitingList[x]) : /\ u.priority[a] = s.priority[a]
                                             /\ u.waitValue[a] = s.waitValue[a]
  /\ \A m \in Mutex : s.waitingList[m] # << >> => u.pOwner[m] = s.pOwner[m]
  /\ \A a \in Task : \/ u.priority[a] = u.basePriority[a]
                     \/ /\ u.priority[a] = s.priority[a]
                        /\ u.basePriority[a] = s.basePriority[a]

(* None of the fields in question changes.                                 *)
SameQueues(u, s) ==
  /\ u.waitingList = s.waitingList /\ u.waitValue = s.waitValue
  /\ u.priority = s.priority /\ u.basePriority = s.basePriority
  /\ u.pOwner = s.pOwner

(* The list of x is l now; only owners go back to what they were given, and*)
(* that of x does, unless it did not have its priority from t, which left. *)
Shortened(u, s, x, t, l) ==
  /\ u.waitingList = [s.waitingList EXCEPT ![x] = l]
  /\ u.waitValue = s.waitValue /\ u.basePriority = s.basePriority
  /\ \A m \in Mutex \ {x} : u.pOwner[m] = s.pOwner[m]
  /\ \A a \in Task : \/ u.priority[a] = s.priority[a]
                     \/ /\ u.priority[a] = u.basePriority[a]
                        /\ \E m \in Mutex : s.pOwner[m] = a
  /\ x \in Mutex /\ s.pOwner[x] \in Task =>
       \/ u.priority[s.pOwner[x]] = u.basePriority[s.pOwner[x]]
       \/ u.pOwner[x] = s.pOwner[x] /\ s.priority[t] # s.priority[s.pOwner[x]]

(* The owner t of m gave it to the first of its waiters, if there is one.  *)
GivenOn(u, s, t, m) ==
  LET l == s.waitingList[m]
  IN  /\ u.waitValue = s.waitValue /\ u.basePriority = s.basePriority
      /\ u.priority = [s.priority EXCEPT ![t] = s.basePriority[t]]
      /\ l # << >> => /\ u.waitingList = [s.waitingList EXCEPT ![m] = Tail(l)]
                     /\ u.pOwner = [s.pOwner EXCEPT ![m] = Head(l)]
      /\ l = << >> => /\ u.waitingList = s.waitingList
                     /\ u.pOwner = [s.pOwner EXCEPT ![m] = None]

(* The task t is in the list of x now, with its priority as value ...      *)
Joined(u, s, t, x) ==
  LET value == [s.waitValue EXCEPT ![t] = s.priority[t]]
  IN  /\ u.waitingList = [s.waitingList EXCEPT ![x] = AddOrdered(@, value, t)]
      /\ u.waitValue = value /\ u.basePriority = s.basePriority
      /\ u.pOwner = s.pOwner

(* ... which it may have lent to the owner of x.                           *)
MayLend(u, s, t, x) ==
  /\ u.priority \in [Task -> Prio] /\ u.priority[t] = s.priority[t]
  /\ \A a \in Task : \/ u.priority[a] = s.priority[a]
                     \/ /\ u.priority[a] = s.priority[t]
                        /\ x \in Mutex /\ s.pOwner[x] = a

(* No task that owns a mutex waits for another one, or for a semaphore.    *)
OwnersRun(s) == \A m \in Mutex :
  s.pOwner[m] \in Task => s.state[s.pOwner[m]] \notin {"mutexWait", "semWait"}

OwnersNeverWait == OwnersRun(k)

(* Nobody lowers the priority of a task that waits for a mutex.            *)
WaitersNotLowered == \A t, v \in Task, p \in NewPrios :
  TaskSetPriority(t, v, p) /\ k.state[v] = "mutexWait" => p >= k.basePriority[v]

(* The owner of a mutex is as urgent as every task that waits for it.      *)
Served(s) == \A m \in Mutex : \A t \in Range(s.waitingList[m]) :
  s.priority[s.pOwner[m]] >= s.priority[t]

KeepsLoans(u, s) == KeepsRanks(u, s) /\ (Served(s) => Served(u))

(* The waiters of m that are above what its owner was given: it has their  *)
(* priority from them.                                                     *)
Above(s, m) == {t \in Range(s.waitingList[m]) :
                  s.priority[t] > s.basePriority[s.pOwner[m]]}

(* The owner of what t waits for has nothing from anybody else.            *)
OnlyLender(s, t) == \A n \in Mutex :
  s.pOwner[n] = s.pOwner[s.objPtr[t]] => Above(s, n) \subseteq {t}

(* A mutex is given back only when its owner inherits through no other.    *)
GivenAlone == \A t \in Task, m \in Mutex : MutexGive(t, m) =>
  \A n \in Mutex \ {m} : k.pOwner[n] = t => Above(k, n) = {}

(* A wait for a mutex ends in vain (its time-out, aaTaskWakeUp or          *)
(* aaTaskDelete ends it) only when the owner inherits from nobody else.    *)
NoneInVain == \A t \in Task :
  /\ k.state[t] = "mutexWait" /\ k'.state[t] # "mutexWait"
  /\ k'.pOwner[k.objPtr[t]] # t
  => OnlyLender(k, t)

(* The priority set for the owner of a mutex is not below its waiters'; nor*)
(* is that of a new task, whose TCB may still be the owner of a mutex.     *)
SetAbove == \A t, v \in Task, p \in NewPrios :
  TaskSetPriority(t, v, p) \/ TaskCreate(t, v, p) =>
    \A m \in Mutex : k.pOwner[m] = v =>
      \A a \in Range(k.waitingList[m]) : p >= k.priority[a]

-----------------------------------------------------------------------------
(* Conditions on the constants under which all of that holds: there is     *)
(* nothing an owner could wait for ...                                     *)
OneMutex == (\A m, n \in Mutex : m = n) /\ Sem = {}

(* ... no call has a time-out, and nobody ends the wait of another task ...*)
WaitsForEver == TakeDelays \subseteq {Infinite} /\ TaskControl \cap {"wakeUp", "delete"} = {}

(* ... and a priority that is set is the highest there is.                 *)
SetsHighest == NewPrios \subseteq {MaxPrio} \/ TaskControl \cap {"setPriority", "create"} = {}

(* Who waits for a mutex waits for ever.                                   *)
Patient(s) == \A t \in Task : s.state[t] = "mutexWait" => s.delay[t] = Infinite

(* The tables as far as the waits and the delays of the tasks go: those of *)
(* all but v are the same.                                                 *)
Plain(s) == DOMAIN s.state = Task /\ DOMAIN s.delay = Task

Spares(u, s, v) ==
  /\ Plain(u)
  /\ \A a \in Task \ {v} : u.state[a] = s.state[a] /\ u.delay[a] = s.delay[a]
=============================================================================
