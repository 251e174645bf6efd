------------------------------ MODULE AAMutex ------------------------------
(***************************************************************************)
(* Recursive mutexes with priority inheritance and hand-over to the first  *)
(* waiter (aamutex.c).  Calls that return an error change nothing and are  *)
(* not steps.                                                              *)
(***************************************************************************)
EXTENDS AAKernel

CONSTANTS
  MaxCount,      \* MUTEX_MAX_VALUE, the deepest recursion
  MutexControl,  \* which of "create", "delete" are called
  TakeDelays     \* the non-zero time-outs passed to the blocking calls

ASSUME MutexAssumption ==
  /\ MaxCount \in Nat \ {0}
  /\ TakeDelays \subseteq 1 .. Infinite

(* The part of the wait every blocking call of a synchronisation object    *)
(* shares: out of the ready list, into the ordered waiting list and the    *)
(* delayed list, and away; causes are the flags that will tell why it ends.*)
WaitOrdered(s, t, x, st, causes, d) ==
  LET value == [s.waitValue EXCEPT ![t] = s.priority[t]]
      u == [RemoveReady(s, t) EXCEPT
              !.state[t] = st, !.objPtr[t] = x, !.waitValue = value,
              !.flags[t] = @ \ causes,
              !.waitingList[x] = AddOrdered(@, value, t)]
  IN  Schedule(AddToDelayed(u, t, d))

(* aaMutexCreate, aaMutexDelete                                            *)
MutexCreate(t, m) ==
  /\ "create" \in MutexControl
  /\ Runs(t)
  /\ k.pOwner[m] = Free
  /\ k' = [k EXCEPT !.pOwner[m] = None, !.count[m] = 0, !.waitingList[m] = << >>]
  /\ Stays

MutexDelete(t, m) ==
  /\ "delete" \in MutexControl
  /\ Runs(t)
  /\ k.pOwner[m] # Free /\ k.count[m] = 0
  /\ k' = [k EXCEPT !.pOwner[m] = Free]
  /\ Stays

(* Fault: the count is not looked at.                                      *)
MutexTakeBarges(t, m) ==
  /\ Runs(t)
  /\ k.pOwner[m] # Free
  /\ k' = [k EXCEPT !.count[m] = 1, !.pOwner[m] = t, !.mutexList[t] = @ \cup {m}]
  /\ Stays

(* aaMutexTake of a free mutex, then of one the caller owns already.       *)
MutexTakeFree(t, m) ==
  /\ Runs(t)
  /\ k.pOwner[m] # Free /\ k.count[m] = 0
  /\ k' = [k EXCEPT !.count[m] = 1, !.pOwner[m] = t, !.mutexList[t] = @ \cup {m}]
  /\ Stays

MutexTakeAgain(t, m) ==
  /\ Runs(t)
  /\ k.pOwner[m] = t /\ k.count[m] \in 1 .. MaxCount - 1
  /\ k' = [k EXCEPT !.count[m] = @ + 1]
  /\ Stays

(* aaMutexTake of a mutex another task owns: lend it the priority, wait.   *)
MutexTakeWait(t, m, d) ==
  LET asked == [k EXCEPT !.objPtr[t] = m]
      lent  == IF k.priority[t] > k.priority[k.pOwner[m]] THEN Propagate(asked, t)
                                                          ELSE asked
  IN  /\ Runs(t)
      /\ k.count[m] > 0 /\ k.pOwner[m] \in Task \ {t}
      /\ k' = WaitOrdered(lent, t, m, "mutexWait", {"DELAYTMO"}, d)
      /\ Blocks(t, "mutexTake", m)

(* The end of aaMutexTake, when the waiter runs again.  Only now does a    *)
(* mutex handed over join the list of the mutexes the task owns.           *)
MutexTakeTimedOut(t) ==
  /\ Resumes(t, "mutexTake")
  /\ "DELAYTMO" \in k.flags[t]
  /\ k' = [k EXCEPT !.flags[t] = @ \ {"DELAYTMO"}]
  /\ Returns(t)

MutexTakeGranted(t) ==
  /\ Resumes(t, "mutexTake")
  /\ "DELAYTMO" \notin k.flags[t]
  /\ k' = [k EXCEPT !.mutexList[t] = @ \cup {arg[t]}]
  /\ Returns(t)

(* Fault: the mutex is released although a waiter is told it is its own.   *)
HandOverReleased(s, m) ==
  [IF s.waitingList[m] # << >> THEN WakeFirst(s, m) ELSE s
     EXCEPT !.count[m] = 0, !.pOwner[m] = None]

(* aaMutexGive of the last level: give the inherited priority back, hand   *)
(* the mutex over to the first waiter.  The reschedule request of NewPrio  *)
(* is overwritten by the one of PutInList.                                 *)
HandOver(s, m) ==
  IF s.waitingList[m] # << >>
  THEN [WakeFirst(s, m) EXCEPT !.pOwner[m] = Head(s.waitingList[m])]
  ELSE [s EXCEPT !.count[m] = 0, !.pOwner[m] = None]

MutexGive(t, m) ==
  /\ Runs(t)
  /\ k.pOwner[m] = t /\ k.count[m] = 1
  /\ CalledFromTask(HandOver(NewPrio([k EXCEPT !.mutexList[t] = @ \ {m}], t), m))

MutexGiveOnce(t, m) ==
  /\ Runs(t)
  /\ k.pOwner[m] = t /\ k.count[m] > 1
  /\ k' = [k EXCEPT !.count[m] = @ - 1]
  /\ Stays

MutexNext ==
  \E t \in Task :
    \/ \E m \in Mutex :
         \/ MutexCreate(t, m) \/ MutexDelete(t, m)
         \/ MutexTakeFree(t, m) \/ MutexTakeAgain(t, m)
         \/ \E d \in TakeDelays : MutexTakeWait(t, m, d)
         \/ MutexGive(t, m) \/ MutexGiveOnce(t, m)
    \/ MutexTakeTimedOut(t) \/ MutexTakeGranted(t)
=============================================================================
