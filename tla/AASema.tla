------------------------------- MODULE AASema -------------------------------
(***************************************************************************)
(* Counting semaphores (aasema.c): a give either raises the count or goes  *)
(* to the first waiter without touching it; a negative count must be       *)
(* given up to zero before a give can serve anyone; flush wakes every      *)
(* waiter empty-handed.  Give and flush may come from interrupt handlers.  *)
(***************************************************************************)
EXTENDS AAMutex

CONSTANTS
  SemBound,      \* the counts explored are -SemBound .. SemBound
  SemCounts,     \* the counts aaSemCreate is called with
  ResetCounts,   \* the counts aaSemReset is called with
  SemControl     \* which of "create", "delete", "reset", "flush" are called

ASSUME SemAssumption ==
  /\ SemBound \in Nat
  /\ SemCounts \cup ResetCounts \subseteq -SemBound .. SemBound

(* aaSemDelete warns that no task should use the semaphore meanwhile.      *)
BeingDeleted(x) == \E t \in Task : pc[t] = "semDelete" /\ arg[t] = x
Usable(x)       == x \in k.semUsed /\ ~ BeingDeleted(x)

(* aaSemCreate                                                             *)
SemCreate(t, x, n) ==
  /\ "create" \in SemControl
  /\ Runs(t) /\ x \notin k.semUsed
  /\ k' = [k EXCEPT !.semUsed = @ \cup {x}, !.count[x] = n, !.waitingList[x] = << >>]
  /\ Stays

(* aaSemTake                                                               *)
SemTakeNow(t, x) ==
  /\ Runs(t) /\ Usable(x)
  /\ k.count[x] > 0
  /\ k' = [k EXCEPT !.count[x] = @ - 1]
  /\ Stays

SemTakeWait(t, x, d) ==
  /\ Runs(t) /\ Usable(x)
  /\ k.count[x] <= 0
  /\ k' = WaitOrdered(k, t, x, "semWait", {"FLUSH", "DELAYTMO"}, d)
  /\ Blocks(t, "semTake", x)

(* The end of aaSemTake; flush has precedence over time-out.               *)
SemTakeFailed(t) ==
  /\ Resumes(t, "semTake")
  /\ k.flags[t] \cap {"FLUSH", "DELAYTMO"} # {}
  /\ k' = [k EXCEPT !.flags[t] = IF "FLUSH" \in @ THEN @ \ {"FLUSH"}
                                                 ELSE @ \ {"DELAYTMO"}]
  /\ Returns(t)

SemTakeGranted(t) ==
  /\ Resumes(t, "semTake")
  /\ k.flags[t] \cap {"FLUSH", "DELAYTMO"} = {}
  /\ UNCHANGED k
  /\ Returns(t)

(* Fault: the waiters are not looked at.                                   *)
GiveKeeps(s, x) == [s EXCEPT !.count[x] = @ + 1, !.sched = FALSE]

(* aaSemGive                                                               *)
Give(s, x) ==
  IF s.count[x] < 0 \/ s.waitingList[x] = << >>
  THEN [s EXCEPT !.count[x] = @ + 1, !.sched = FALSE]
  ELSE WakeFirst(s, x)

MayGive(x) == Usable(x) /\ k.count[x] < SemBound

SemGive(t, x)    == Runs(t) /\ MayGive(x) /\ CalledFromTask(Give(k, x))
SemGiveFromIsr(x) == MayGive(x) /\ CalledFromIsr(Give(k, x))

(* aaSemFlush: each waiter, from the head, in one critical section: one    *)
(* step per waiter, and nothing else can happen in between.  The           *)
(* reschedule request of each overwrites the one before.                   *)
FlushBegin(x) == /\ flushing = None /\ flushing' = x
                 /\ "flush" \in SemControl /\ Usable(x)
                 /\ UNCHANGED k

SemFlush(t, x) == Runs(t) /\ FlushBegin(x) /\ UNCHANGED <<pc, arg, isr>>

SemFlushFromIsr(x) == /\ FlushBegin(x)
                      /\ isr' = IF isr = "none" THEN "other" ELSE isr
                      /\ UNCHANGED <<pc, arg>>

FlushOneUntold(x) == /\ flushing = x /\ k.waitingList[x] # << >>  \* Fault: no FLUSH
                     /\ k' = WakeFirst(k, x) /\ Stays

FlushOne(x) ==
  /\ flushing = x /\ k.waitingList[x] # << >>
  /\ k' = WakeFirst([k EXCEPT !.flags[Head(k.waitingList[x])] = @ \cup {"FLUSH"}], x)
  /\ Stays

FlushEnd(x) ==
  /\ flushing = x /\ k.waitingList[x] = << >>
  /\ flushing' = None
  /\ k' = CASE isr = "none"  -> ScheduleIf(k)
            [] isr = "other" -> Schedule(k)
            [] isr = "tick"  -> [k EXCEPT !.sched = FALSE]
  /\ isr' = IF isr = "other" THEN "none" ELSE isr
  /\ UNCHANGED <<pc, arg>>

(* aaSemReset stores (uint16_t) count, and refuses while a task waits.     *)
SemReset(t, x, n) ==
  /\ "reset" \in SemControl
  /\ Runs(t) /\ Usable(x)
  /\ k.waitingList[x] = << >>
  /\ k' = [k EXCEPT !.count[x] = n % 65536]
  /\ Stays

(* aaSemDelete: flush in one critical section, free in another.            *)
SemDelete(t, x) ==
  /\ "delete" \in SemControl
  /\ Runs(t) /\ Usable(x)
  /\ flushing' = IF k.waitingList[x] = << >> THEN None ELSE x
  /\ pc' = [pc EXCEPT ![t] = "semDelete"] /\ arg' = [arg EXCEPT ![t] = x]
  /\ UNCHANGED <<k, isr>>

SemDeleteEnd(t) ==
  /\ Resumes(t, "semDelete")
  /\ k' = [k EXCEPT !.semUsed = @ \ {arg[t]}]
  /\ Returns(t)

SemNext ==
  \/ \E t \in Task, x \in Sem :
       \/ \E n \in SemCounts : SemCreate(t, x, n)
       \/ \E n \in ResetCounts : SemReset(t, x, n)
       \/ SemTakeNow(t, x)
       \/ \E d \in TakeDelays : SemTakeWait(t, x, d)
       \/ SemGive(t, x) \/ SemFlush(t, x) \/ SemDelete(t, x)
  \/ \E t \in Task : SemTakeFailed(t) \/ SemTakeGranted(t) \/ SemDeleteEnd(t)
  \/ \E x \in Sem : \/ SemGiveFromIsr(x) \/ SemFlushFromIsr(x)
                    \/ FlushOne(x) \/ FlushEnd(x)
=============================================================================
