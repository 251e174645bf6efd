--------------------------- MODULE AAObjectProofs ---------------------------
(***************************************************************************)
(* The mutexes, the semaphores and the signals keep what they promise,     *)
(* whatever the tasks and the interrupt handlers call: OInv holds          *)
(* initially, and every action of AARtk is Honest.                         *)
(***************************************************************************)
EXTENDS AAObjectsInv, AARtkProofs

-----------------------------------------------------------------------------
(* Steps that leave the objects alone.                                     *)

(* The waiting list of a mutex holds the tasks that wait for it.           *)
LEMMA WaitingFor ==
  ASSUME NEW s, NEW T, Running(s, T), NEW m \in Mutex
  PROVE  Range(s.waitingList[m])
           = {t \in Task : s.state[t] = "mutexWait" /\ s.objPtr[t] = m}
<1>1. /\ m \in SyncObj /\ m \notin Sem /\ m \notin Driver
      /\ s.waitingList[m] \in Seq(Task) /\ WaitersAgree(s, {}) /\ Waits(s)
  BY KernelAssumption DEF SyncObj, Running, Whole, Lists, Tables
<1>2. Range(s.waitingList[m]) \subseteq Task
  BY <1>1, EmptyFacts
<1>3. \A t \in Task : t \in Range(s.waitingList[m])
        <=> s.state[t] \in ListWait /\ s.objPtr[t] = m
  BY <1>1 DEF WaitersAgree
<1>4. \A t \in Task : s.state[t] \in ListWait /\ s.objPtr[t] = m
        <=> s.state[t] = "mutexWait" /\ s.objPtr[t] = m
  BY <1>1 DEF Waits, ListWait
<1> QED BY <1>2, <1>3, <1>4

(* What AALock sees of a step.                                             *)
LEMMA LockSees ==
  ASSUME IInv, IInv'
  PROVE  /\ k.cur \in Task /\ k'.cur \in Task
         /\ \A m \in Mutex :
              /\ Range(k.waitingList[m])
                   = {t \in Task : k.state[t] = "mutexWait" /\ k.objPtr[t] = m}
              /\ Range(k'.waitingList[m])
                   = {t \in Task : k'.state[t] = "mutexWait" /\ k'.objPtr[t] = m}
<1>1. Running(k, TimedCalls(pc)) /\ k.cur \in Task
  BY TablesTyped
<1>2. Running(k', TimedCalls(pc')) /\ k' \in Tables
  BY DEF IInv, Running, Whole, Lists
<1>3. k'.cur \in Task
  BY <1>2 DEF Tables
<1> QED BY <1>1, <1>2, <1>3, WaitingFor

(* The waits for mutexes when nobody asks for one and none changes hands.  *)
LEMMA CalmWaits ==
  ASSUME IInv, OInv, NEW v, CalmMutexes(v), NEW t \in Task
  PROVE  \/ k'.state[t] = "mutexWait" <=> k.state[t] = "mutexWait"
         \/ t = v /\ k.state[t] = "mutexWait" /\ k'.state[t] # "mutexWait"
BY DEF CalmMutexes, GoesOn, IsEnded, AwayFromMutexes, SameWait, Leaves, Settled

(* Nobody asks for a mutex and none changes hands: a stutter of AALock, or *)
(* v gives up.                                                             *)
LEMMA CalmMutexesHonest ==
  ASSUME IInv, IInv', OInv, NEW v, CalmMutexes(v), SameMutexes
  PROVE  MutexesHonest
<1>1. MutexCalls(k, pc, arg) /\ Owners(k, pc, arg)
  BY DEF OInv
<1>2. MutexCalls(k', pc', arg')
  <2> SUFFICES ASSUME NEW t \in Task
               PROVE  /\ k'.state[t] = "mutexWait" => /\ pc'[t] = "mutexTake"
                                                      /\ k'.objPtr[t] = arg'[t]
                                                      /\ "DELAYTMO" \notin k'.flags[t]
                      /\ pc'[t] = "mutexTake" =>
                           k'.state[t] \in {"mutexWait", "none"} \cup Settled
    BY DEF MutexCalls, InCall
  <2>1. CASE GoesOn(t)
    BY <1>1, <2>1 DEF GoesOn, SameCall, SameWait, MutexCalls, InCall, Settled, ListWait
  <2>2. CASE IsEnded(t, v)
    BY <1>1, <2>2 DEF IsEnded, SameCall, Leaves, MutexCalls, InCall, Settled
  <2>3. CASE AwayFromMutexes(t)
    BY <2>3 DEF AwayFromMutexes
  <2> QED BY <2>1, <2>2, <2>3 DEF CalmMutexes
<1>3. Owners(k', pc', arg')
  <2> SUFFICES ASSUME NEW t \in Task
               PROVE  /\ pc'[t] = "mutexTake" /\ k'.state[t] # "none" =>
                           arg'[t] \notin k'.mutexList[t]
                      /\ pc'[t] = "mutexTake" /\ k'.state[t] \in Settled =>
                           ("DELAYTMO" \notin k'.flags[t] <=>
                              k'.pOwner[arg'[t]] = t /\ k'.count[arg'[t]] > 0)
    <3>1. \A m \in Mutex : k'.count[m] # 0 => k'.count[m] > 0 /\ k'.pOwner[m] \in Task
      BY <1>1 DEF Owners, SameMutexes
    <3>2. \A t \in Task : \A m \in k'.mutexList[t] : k'.pOwner[m] = t /\ k'.count[m] > 0
      <4>1. \A t \in Task : k.mutexList[t] \subseteq Mutex
        BY TablesTyped DEF Tables
      <4>2. \A t \in Task : \A m \in k.mutexList[t] : k.pOwner[m] = t /\ k.count[m] > 0
        BY <1>1 DEF Owners
      <4> QED BY <4>1, <4>2 DEF SameMutexes
    <3> QED BY <3>1, <3>2 DEF Owners
  <2>1. /\ pc[t] = "mutexTake" /\ k.state[t] # "none" => arg[t] \notin k.mutexList[t]
        /\ pc[t] = "mutexTake" /\ k.state[t] \in Settled =>
             ("DELAYTMO" \notin k.flags[t] <=>
                k.pOwner[arg[t]] = t /\ k.count[arg[t]] > 0)
        /\ pc'[t] = "mutexTake" => k'.mutexList[t] \subseteq k.mutexList[t]
    BY <1>1 DEF Owners, SameMutexes
  <2>2. pc[t] = "mutexTake" =>
          (k'.pOwner[arg[t]] = t /\ k'.count[arg[t]] > 0
             <=> k.pOwner[arg[t]] = t /\ k.count[arg[t]] > 0)
    <3>1. pc[t] = "mutexTake" => arg[t] \in Mutex
      BY DEF IInv, CallsTyped
    <3> QED BY <3>1 DEF SameMutexes
  <2>3. CASE GoesOn(t)
    <3>1. "DELAYTMO" \in k'.flags[t] <=> "DELAYTMO" \in k.flags[t]
      BY <2>3 DEF GoesOn, SameWait
    <3> QED BY <2>1, <2>2, <2>3, <3>1 DEF GoesOn, SameCall, SameWait, Settled
  <2>4. CASE IsEnded(t, v)
    <3>1. CASE k'.state[t] = "none"
      BY <3>1 DEF Settled
    <3>2. CASE k'.state[t] # "none" /\ pc[t] = "mutexTake"
      <4>1. k.state[t] = "mutexWait" /\ "DELAYTMO" \in k'.flags[t]
        BY <1>1, <2>4, <3>2 DEF IsEnded, Leaves, MutexCalls, InCall
      <4>2. k.pOwner[arg[t]] # t
        BY <1>1, <4>1, TablesTyped DEF MutexCalls, InCall, Waits
      <4> QED BY <2>1, <2>2, <2>4, <3>2, <4>1, <4>2 DEF IsEnded, SameCall, Settled
    <3>3. CASE pc[t] # "mutexTake"
      BY <2>4, <3>3 DEF IsEnded, SameCall
    <3> QED BY <3>1, <3>2, <3>3
  <2>5. CASE AwayFromMutexes(t)
    BY <2>5 DEF AwayFromMutexes
  <2> QED BY <2>3, <2>4, <2>5 DEF CalmMutexes
<1>4. [Lock!Next]_(Lock!vars)
  <2>1. \A m \in Mutex : /\ (k'.count[m] > 0 <=> k.count[m] > 0)
                         /\ k.count[m] > 0 => k'.pOwner[m] = k.pOwner[m]
    BY DEF SameMutexes
  <2>2. [m \in Mutex |-> IF k'.count[m] > 0 THEN k'.pOwner[m] ELSE None]
          = [m \in Mutex |-> IF k.count[m] > 0 THEN k.pOwner[m] ELSE None]
    BY <2>1
  <2>3. /\ k'.cur \in Task
        /\ \A m \in Mutex :
              /\ Range(k.waitingList[m])
                   = {t \in Task : k.state[t] = "mutexWait" /\ k.objPtr[t] = m}
              /\ Range(k'.waitingList[m])
                   = {t \in Task : k'.state[t] = "mutexWait" /\ k'.objPtr[t] = m}
    BY LockSees
  <2>4. \A t \in Task : k.state[t] = "mutexWait" /\ k'.state[t] = "mutexWait" =>
          k'.objPtr[t] = k.objPtr[t]
    BY DEF CalmMutexes, GoesOn, IsEnded, AwayFromMutexes, SameWait, Leaves, Settled,
           ListWait
  <2>5. CASE \A t \in Task : k'.state[t] = "mutexWait" <=> k.state[t] = "mutexWait"
    <3>1. ASSUME NEW m \in Mutex
          PROVE  Range(k'.waitingList[m]) = Range(k.waitingList[m])
      <4>1. \A t \in Task : k'.state[t] = "mutexWait" /\ k'.objPtr[t] = m
                             <=> k.state[t] = "mutexWait" /\ k.objPtr[t] = m
        BY <2>4, <2>5
      <4>2. {t \in Task : k'.state[t] = "mutexWait" /\ k'.objPtr[t] = m}
              = {t \in Task : k.state[t] = "mutexWait" /\ k.objPtr[t] = m}
        BY <4>1
      <4> QED BY <2>3, <4>2
    <3>2. Lock!Switch
      BY <2>2, <2>3, <3>1 DEF Lock!Switch
    <3> QED BY <3>2 DEF Lock!Next
  <2>6. CASE /\ v \in Task /\ k.state[v] = "mutexWait" /\ k'.state[v] # "mutexWait"
             /\ \A t \in Task \ {v} : k'.state[t] = "mutexWait" <=> k.state[t] = "mutexWait"
    <3> DEFINE x == k.objPtr[v]
    <3>1. x \in Mutex
      BY <2>6, TablesTyped DEF Waits
    <3>2. v \in Range(k.waitingList[x])
      BY <2>3, <2>6, <3>1
    <3>3. ASSUME NEW m \in Mutex
          PROVE  Range(k'.waitingList[m])
            = IF m = x THEN Range(k.waitingList[m]) \ {v} ELSE Range(k.waitingList[m])
      <4>1. \A t \in Task : k'.state[t] = "mutexWait" /\ k'.objPtr[t] = m
              <=> k.state[t] = "mutexWait" /\ k.objPtr[t] = m /\ t # v
        BY <2>4, <2>6
      <4> DEFINE Now  == {t \in Task : k.state[t] = "mutexWait" /\ k.objPtr[t] = m}
                 Then == {t \in Task : k'.state[t] = "mutexWait" /\ k'.objPtr[t] = m}
      <4>2. Then = Now \ {v}
        BY <4>1
      <4>3. v \in Now <=> m = k.objPtr[v]
        BY <2>6
      <4>4. Range(k.waitingList[m]) = Now /\ Range(k'.waitingList[m]) = Then
        BY <2>3
      <4> HIDE DEF Now, Then
      <4> QED BY <4>2, <4>3, <4>4
    <3> HIDE DEF x
    <3>4. Lock!GiveUp(v, x)
      BY <2>2, <2>3, <3>1, <3>2, <3>3 DEF Lock!GiveUp
    <3> QED BY <2>6, <3>1, <3>4 DEF Lock!Next
  <2> QED BY <2>5, <2>6, CalmWaits
<1> QED BY <1>2, <1>3, <1>4 DEF MutexesHonest

(* Nobody asks for a semaphore and nobody is given one: the tasks that are *)
(* given one and have not run are the same, but for the deleted ones.      *)
LEMMA CalmSemsGranted ==
  ASSUME IInv, OInv, NEW v, CalmSems(v)
  PROVE  /\ SemCalls(k', pc', arg')
         /\ \A x \in Sem : Orphaned(x) \/ Granted(x)' = Granted(x)
<1>1. SemCalls(k, pc, arg)
  BY DEF OInv
<1>2. SemCalls(k', pc', arg')
  <2> SUFFICES ASSUME NEW t \in Task
               PROVE  /\ k'.state[t] = "semWait" => /\ pc'[t] = "semTake"
                                                    /\ k'.objPtr[t] = arg'[t]
                                                    /\ k'.flags[t] \cap Causes = {}
                      /\ pc'[t] = "semTake" =>
                           k'.state[t] \in {"semWait", "none"} \cup Settled
    BY DEF SemCalls, InCall
  <2>1. CASE GoesOn(t)
    <3>1. k'.flags[t] \cap Causes = k.flags[t] \cap Causes
      BY <2>1 DEF GoesOn, SameWait, Causes
    <3> QED BY <1>1, <2>1, <3>1
            DEF GoesOn, SameCall, SameWait, SemCalls, InCall, Settled, ListWait
  <2>2. CASE IsEnded(t, v)
    BY <1>1, <2>2 DEF IsEnded, SameCall, Leaves, SemCalls, InCall, Settled
  <2>3. CASE AwayFromSems(t)
    BY <2>3 DEF AwayFromSems
  <2> QED BY <2>1, <2>2, <2>3 DEF CalmSems
<1>3. ASSUME NEW x \in Sem, ~ Orphaned(x), NEW t \in Task
      PROVE  GrantedTo(t, x)' <=> GrantedTo(t, x)
  <2>1. CASE GoesOn(t)
    <3>1. k'.flags[t] \cap Causes = k.flags[t] \cap Causes
      BY <2>1 DEF GoesOn, SameWait, Causes
    <3>2. k'.state[t] \in Settled <=> k.state[t] \in Settled
      BY <2>1 DEF GoesOn, SameWait
    <3> QED BY <2>1, <3>1, <3>2 DEF GoesOn, SameCall, GrantedTo, Settled, Causes
  <2>2. CASE IsEnded(t, v)
    <3>1. CASE k'.state[t] = "none"
      BY <1>3, <3>1 DEF Orphaned, GrantedTo
    <3>2. CASE k'.state[t] # "none"
      <4>1. k.state[t] \notin Settled /\ ~ GrantedTo(t, x)
        BY <2>2, <3>2 DEF IsEnded, Leaves, GrantedTo, Settled
      <4>2. pc'[t] = "semTake" => k'.flags[t] \cap Causes # {}
        BY <1>1, <2>2, <3>2 DEF IsEnded, SameCall, Leaves, SemCalls, InCall
      <4> QED BY <4>1, <4>2 DEF GrantedTo, Causes
    <3> QED BY <3>1, <3>2
  <2>3. CASE AwayFromSems(t)
    BY <2>3 DEF AwayFromSems, GrantedTo
  <2> QED BY <2>1, <2>2, <2>3 DEF CalmSems
<1>4. ASSUME NEW x \in Sem, ~ Orphaned(x)
      PROVE  Granted(x)' = Granted(x)
  BY <1>3, <1>4 DEF Granted
<1> QED BY <1>2, <1>4

(* Nobody asks for a semaphore, nobody is given one, no count changes.     *)
LEMMA CalmSemsHonest ==
  ASSUME IInv, OInv, NEW v, CalmSems(v), \A x \in Sem : k'.count[x] = k.count[x]
  PROVE  SemsHonest
BY CalmSemsGranted DEF SemsHonest

(* Fewer bits received match less.                                         *)
LEMMA MatchedLess ==
  ASSUME NEW w, NEW r, NEW q, r \subseteq q, NEW and, Matched(w, q, and) = {}
  PROVE  Matched(w, r, and) = {}
BY DEF Matched

(* A task that waits for signals as before, of which it has at most q.     *)
LEMMA SignalKept ==
  ASSUME NEW t \in Task, SameWait(k', k, t), k'.sigsWait[t] = k.sigsWait[t],
         NEW q, k'.sigsRecv[t] \subseteq q,
         Matched(k.sigsWait[t], q, "SIGNALAND" \in k.flags[t]) = {}
  PROVE  Matched(k'.sigsWait[t], k'.sigsRecv[t], "SIGNALAND" \in k'.flags[t]) = {}
<1>1. "SIGNALAND" \in k'.flags[t] <=> "SIGNALAND" \in k.flags[t]
  BY DEF SameWait
<1>2. Matched(k.sigsWait[t], k'.sigsRecv[t], "SIGNALAND" \in k.flags[t]) = {}
  BY MatchedLess
<1> QED BY <1>1, <1>2 DEF Matched

(* Nobody waits for signals who has not waited before, and none come.      *)
LEMMA SignalsKept ==
  ASSUME OInv, SameSignals,
         \A t \in Task : k'.state[t] = "signalWait" => k.state[t] = "signalWait" /\ SameWait(k', k, t)
  PROVE  NoSignalMissed'
<1> SUFFICES ASSUME NEW t \in Task, k'.state[t] = "signalWait"
             PROVE  Matched(k'.sigsWait[t], k'.sigsRecv[t], "SIGNALAND" \in k'.flags[t]) = {}
  BY DEF NoSignalMissed
<1>1. Matched(k.sigsWait[t], k.sigsRecv[t], "SIGNALAND" \in k.flags[t]) = {}
  BY DEF OInv, NoSignalMissed
<1> QED BY <1>1, SignalKept DEF SameSignals

(* A step that leaves all the objects alone.                               *)
LEMMA CalmHonest ==
  ASSUME IInv, IInv', OInv, NEW v, Calm(v), Untouched
  PROVE  Honest
<1>1. CalmMutexes(v) /\ CalmSems(v)
  BY DEF Calm, CalmMutexes, CalmSems, Elsewhere
<1>2. \A t \in Task : k'.state[t] = "signalWait" =>
        k.state[t] = "signalWait" /\ SameWait(k', k, t)
  BY DEF Calm, GoesOn, IsEnded, Elsewhere, Leaves, SameWait, Settled
<1>3. MutexesHonest
  BY <1>1, CalmMutexesHonest DEF Untouched
<1>4. SemsHonest
  BY <1>1, CalmSemsHonest DEF Untouched
<1>5. NoSignalMissed'
  BY <1>2, SignalsKept DEF Untouched
<1> QED BY <1>3, <1>4, <1>5 DEF Honest

(* A critical section that ends the wait of v at most.                     *)
LEMMA MildHonest ==
  ASSUME IInv, IInv', OInv, NEW v, Mild(k', k, v), pc' = pc, arg' = arg
  PROVE  Honest
<1>1. Calm(v)
  BY DEF Calm, GoesOn, IsEnded, SameCall, Mild
<1>2. Untouched
  BY DEF Untouched, SameMutexes, SameSignals, Mild, SameHeld
<1> QED BY <1>1, <1>2, CalmHonest

LEMMA CalledHonest ==
  ASSUME IInv, IInv', OInv, NEW v, NEW s, Running(s, TimedCalls(pc)), Mild(s, k, v),
         CalledFromTask(s) \/ CalledFromIsr(s)
  PROVE  Honest
<1>1. Quiet(k', s) /\ pc' = pc /\ arg' = arg
  BY CalledSame
<1>2. Mild(k', k, v)
  BY <1>1, MildTransitive
<1> QED BY <1>1, <1>2, MildHonest

(* The running task begins or ends a call that is about no mutex and no    *)
(* semaphore; the others stay where they are.                              *)
LEMMA RunnerHonest ==
  ASSUME IInv, IInv', OInv, NEW t \in Task, k.state[t] = "ready",
         pc'[t] \notin {"mutexTake", "semTake"}, \A x \in Sem : ~ GrantedTo(t, x),
         k'.state[t] \notin {"mutexWait", "semWait", "signalWait"},
         NEW v, \A a \in Task \ {t} : GoesOn(a) \/ IsEnded(a, v) \/ Elsewhere(a),
         Untouched
  PROVE  Honest
<1>1. Elsewhere(t)
  BY DEF Elsewhere, AwayFromMutexes, AwayFromSems
<1>2. Calm(v)
  BY <1>1 DEF Calm
<1> QED BY <1>2, CalmHonest

LEMMA BlocksHonest ==
  ASSUME IInv, IInv', OInv, NEW t \in Task, k.state[t] = "ready",
         NEW c \in Call \ {"mutexTake", "semTake"},
         NEW x \in SyncObj \cup Task \cup {None}, Blocks(t, c, x),
         \A y \in Sem : ~ GrantedTo(t, y),
         k'.state[t] \notin {"mutexWait", "semWait", "signalWait"},
         NEW v, \A a \in Task \ {t} : SameWait(k', k, a) \/ (a = v /\ Leaves(k', k, v)),
         Untouched
  PROVE  Honest
<1>1. /\ pc'[t] = c
      /\ \A a \in Task \ {t} : pc'[a] = pc[a] /\ arg'[a] = arg[a]
  BY BlocksTyped
<1>2. \A a \in Task \ {t} : GoesOn(a) \/ IsEnded(a, v) \/ Elsewhere(a)
  BY <1>1 DEF GoesOn, IsEnded, SameCall
<1> QED BY <1>1, <1>2, RunnerHonest

(* A call that ends with nothing to do but to forget why.                  *)
LEMMA ReturnsHonest ==
  ASSUME IInv, IInv', OInv, NEW t \in Task, k.state[t] = "ready", Returns(t),
         \A y \in Sem : ~ GrantedTo(t, y), Quiet(k', k)
           \/ \E c : k' = [k EXCEPT !.flags[t] = c]
  PROVE  Honest
<1>1. "run" \in Call \ {"mutexTake", "semTake"} /\ Blocks(t, "run", None)
  BY DEF Call, Returns
<1>2. k \in Tables
  BY TablesTyped
<1>3. /\ k'.state[t] \in Settled
      /\ \A a \in Task \ {t} : SameWait(k', k, a)
      /\ SameHeld(k', k)
  <2>1. CASE Quiet(k', k)
    BY <2>1 DEF Quiet, SameWait, Settled
  <2>2. CASE \E c : k' = [k EXCEPT !.flags[t] = c]
    <3>1. PICK c : k' = [k EXCEPT !.flags[t] = c]
      BY <2>2
    <3>2. SameHeld(k', k) /\ k'.state = k.state /\ k'.objPtr = k.objPtr
      BY <3>1 DEF SameHeld
    <3>3. k'.flags = [k.flags EXCEPT ![t] = c]
      BY <3>1
    <3>4. \A a \in Task \ {t} : k'.flags[a] = k.flags[a]
      BY <1>2, <3>3 DEF Tables
    <3> QED BY <3>2, <3>4 DEF SameWait, Settled
  <2> QED BY <2>1, <2>2
<1>4. Untouched
  BY <1>3 DEF Untouched, SameMutexes, SameSignals, SameHeld
<1>5. k'.state[t] \notin {"mutexWait", "semWait", "signalWait"}
  BY <1>3 DEF Settled
<1> QED BY <1>1, <1>3, <1>4, <1>5, BlocksHonest

(* A task that is in another call has not been given a semaphore.          *)
LEMMA NotGranted ==
  ASSUME NEW t, pc[t] # "semTake"
  PROVE  \A x \in Sem : ~ GrantedTo(t, x)
BY DEF GrantedTo

-----------------------------------------------------------------------------
(* The time-outs, the flush and the tick.                                  *)

LEMMA MutexTakeTimedOutHonest ==
  ASSUME IInv, IInv', OInv, NEW t \in Task, MutexTakeTimedOut(t)
  PROVE  Honest
<1>1. /\ Resumes(t, "mutexTake") /\ Returns(t)
      /\ k' = [k EXCEPT !.flags[t] = k.flags[t] \ {"DELAYTMO"}]
  BY DEF MutexTakeTimedOut
<1>2. k.state[t] = "ready" /\ pc[t] # "semTake"
  BY <1>1, ResumesFacts
<1>3. \E c : k' = [k EXCEPT !.flags[t] = c]
  BY <1>1
<1> QED BY <1>1, <1>2, <1>3, NotGranted, ReturnsHonest

LEMMA SemTakeFailedHonest ==
  ASSUME IInv, IInv', OInv, NEW t \in Task, SemTakeFailed(t)
  PROVE  Honest
<1> DEFINE c == IF "FLUSH" \in k.flags[t] THEN k.flags[t] \ {"FLUSH"}
                                         ELSE k.flags[t] \ {"DELAYTMO"}
<1>1. /\ Resumes(t, "semTake") /\ Returns(t)
      /\ k' = [k EXCEPT !.flags[t] = c]
      /\ k.flags[t] \cap {"FLUSH", "DELAYTMO"} # {}
  BY DEF SemTakeFailed
<1>2. k.state[t] = "ready"
  BY <1>1, ResumesFacts
<1>3. \A x \in Sem : ~ GrantedTo(t, x)
  BY <1>1 DEF GrantedTo
<1> HIDE DEF c
<1>4. \E e : k' = [k EXCEPT !.flags[t] = e]
  BY <1>1
<1> QED BY <1>1, <1>2, <1>3, <1>4, ReturnsHonest

(* Each of the waiters of a flushed semaphore is told that it was flushed. *)
LEMMA FlushOneHonest ==
  ASSUME IInv, IInv', OInv, NEW x \in Sem, FlushOne(x)
  PROVE  Honest
<1> DEFINE h == Head(k.waitingList[x])
           c == k.flags[h] \cup {"FLUSH"}
           s == [k EXCEPT !.flags[h] = c]
           u == WakeFirst(s, x)
<1>1. Stays /\ k.waitingList[x] # << >> /\ k' = u
  BY DEF FlushOne
<1>2. k \in Tables /\ Running(k, TimedCalls(pc)) /\ x \in SyncObj
  BY TablesTyped DEF SyncObj
<1>3. h \in Task /\ k.state[h] = "semWait"
  BY <1>1, <1>2, HeadWaits
<1>4. Head(s.waitingList[x]) = h
  OBVIOUS
<1> HIDE DEF h
<1>5. c \in SUBSET Flag
  BY <1>2, <1>3 DEF Tables, Flag
<1>6. s.flags[h] = c
  BY <1>2, <1>3 DEF Tables
<1>7. \A a \in Task \ {h} : s.flags[a] = k.flags[a]
  BY <1>2 DEF Tables
<1>8. "FLUSH" \in c
  OBVIOUS
<1> HIDE DEF c
<1>9. /\ Running(s, TimedCalls(pc)) /\ Unmoved(s, k) /\ SameObjects(s, k)
  BY <1>2, <1>3, <1>5, FlagsRun
<1> HIDE DEF s
<1>10. s.waitingList[x] # << >> /\ s \in Tables
  BY <1>1, <1>9 DEF Unmoved, Running, Whole, Lists
<1>11. Woken(u, s, h, {})
  BY <1>2, <1>4, <1>9, <1>10, WakeFirstRuns
<1> HIDE DEF u
<1>12. /\ SameHeld(u, s)
       /\ \A a \in Task \ {h} : SameWait(u, s, a)
       /\ u.state[h] \in Settled
       /\ u.flags[h] = (c \cup {}) \ {"SUSPEND"}
  BY <1>3, <1>6, <1>10, <1>11, WokenFacts
<1>13. Mild(u, k, h)
  <2>1. SameHeld(u, k)
    BY <1>9, <1>12 DEF SameHeld, SameObjects
  <2>2. \A a \in Task \ {h} : SameWait(u, k, a)
    BY <1>7, <1>9, <1>12 DEF SameWait, Unmoved
  <2>3. "FLUSH" \in u.flags[h]
    BY <1>8, <1>12
  <2>4. Leaves(u, k, h)
    BY <1>3, <1>12, <2>3 DEF Leaves, Settled, Causes
  <2> QED BY <2>1, <2>2, <2>4 DEF Mild
<1> QED BY <1>1, <1>13, MildHonest DEF Stays

LEMMA FlushEndHonest ==
  ASSUME IInv, IInv', OInv, NEW x \in Sem, FlushEnd(x)
  PROVE  Honest
<1>1. /\ pc' = pc /\ arg' = arg
      /\ k' = CASE isr = "none"  -> ScheduleIf(k)
                [] isr = "other" -> Schedule(k)
                [] isr = "tick"  -> [k EXCEPT !.sched = FALSE]
  BY DEF FlushEnd
<1>2. Running(k, TimedCalls(pc)) /\ isr \in {"none", "tick", "other"}
  BY TablesTyped DEF IInv, CallsTyped
<1>3. Quiet(k', k)
  <2>1. CASE isr = "none"
    <3>1. k' = ScheduleIf(k)
      BY <1>1, <2>1
    <3> QED BY <1>2, <3>1, ScheduleIfRuns, QuietSame
  <2>2. CASE isr = "other"
    <3>1. k' = Schedule(k)
      BY <1>1, <2>2
    <3> QED BY <1>2, <3>1, ScheduleRuns, QuietSame DEF Running
  <2>3. CASE isr = "tick"
    <3>1. k' = [k EXCEPT !.sched = FALSE]
      BY <1>1, <2>3
    <3> QED BY <1>2, <3>1, NoScheduleRuns, QuietSame
  <2> QED BY <1>2, <2>1, <2>2, <2>3
<1> QED BY <1>1, <1>3, QuietMild, MildHonest

LEMMA TickNextHonest ==
  ASSUME IInv, IInv', OInv, TickNext
  PROVE  Honest
<1>1. Running(k, TimedCalls(pc)) /\ pc' = pc /\ arg' = arg
  BY TablesTyped DEF TickNext, Tick, TickExpire, TickEnd, Stays
<1>2. \E v : Mild(k', k, v)
  <2>1. CASE Tick
    <3> DEFINE s == CountDown(k)
    <3>1. Pending(k) /\ k' = Expire(s)
      BY <2>1 DEF Tick, IInv
    <3>2. Running(s, TimedCalls(pc)) /\ Quiet(s, k)
      BY <1>1, <3>1, CountDownRuns
    <3> HIDE DEF s
    <3>3. \E v : Mild(k', s, v)
      BY <3>1, <3>2, ExpireRuns
    <3> QED BY <3>2, <3>3, MildTransitive
  <2>2. CASE TickExpire
    BY <2>2, <1>1, ExpireRuns DEF TickExpire
  <2>3. CASE TickEnd
    <3>1. k' = Schedule(k)
      BY <2>3 DEF TickEnd
    <3>2. Quiet(k', k)
      BY <1>1, <3>1, ScheduleRuns, QuietSame DEF Running
    <3> QED BY <3>2, QuietMild
  <2> QED BY <2>1, <2>2, <2>3 DEF TickNext
<1> QED BY <1>1, <1>2, MildHonest

-----------------------------------------------------------------------------
(* The tasks.                                                              *)

(* Going to sleep concerns nobody else.                                    *)
LEMMA SleptOthers ==
  ASSUME NEW s \in Tables, NEW u, NEW t \in Task, NEW st, Slept(u, s, t, st),
         NEW c, u.flags = [s.flags EXCEPT ![t] = c]
  PROVE  /\ SameHeld(u, s) /\ u.state[t] = st
         /\ \A a \in Task \ {t} : SameWait(u, s, a) /\ u.flags[a] = s.flags[a]
<1>1. \A a \in Task \ {t} : u.flags[a] = s.flags[a]
  BY DEF Tables
<1> QED BY <1>1 DEF Slept, SameObjects, SameHeld, SameWait

(* A delay, or a wait for a driver.                                        *)
LEMMA SleptHonest ==
  ASSUME IInv, IInv', OInv, NEW t \in Task, Runs(t),
         NEW call \in Call \ {"mutexTake", "semTake"},
         NEW x \in SyncObj \cup Task \cup {None}, Blocks(t, call, x),
         NEW st \in {"delayed", "ioWait"}, Slept(k', k, t, st),
         \E c : k'.flags = [k.flags EXCEPT ![t] = c]
  PROVE  Honest
<1>1. k.state[t] = "ready" /\ pc[t] # "semTake" /\ k \in Tables
  BY RunsFacts, TablesTyped
<1>2. PICK c : k'.flags = [k.flags EXCEPT ![t] = c]
  OBVIOUS
<1>3. /\ SameHeld(k', k) /\ k'.state[t] = st
      /\ \A a \in Task \ {t} : SameWait(k', k, a)
  BY <1>1, <1>2, SleptOthers
<1>4. k'.state[t] \notin {"mutexWait", "semWait", "signalWait"}
  BY <1>3
<1>5. Untouched
  BY <1>3 DEF Untouched, SameMutexes, SameSignals, SameHeld
<1> QED BY <1>1, <1>3, <1>4, <1>5, NotGranted, BlocksHonest

LEMMA TaskDelayHonest ==
  ASSUME IInv, IInv', OInv, NEW t \in Task, NEW d \in TaskDelays, TaskDelay(t, d)
  PROVE  Honest
<1> DEFINE call == IF d = 0 THEN "delayForever" ELSE "delay"
<1>1. Runs(t) /\ Blocks(t, call, None)
  BY DEF TaskDelay
<1>2. call \in Call \ {"mutexTake", "semTake"}
  BY DEF Call
<1> HIDE DEF call
<1> QED BY <1>1, <1>2, TaskDelayKept, SleptHonest

LEMMA IoWaitHonest ==
  ASSUME IInv, IInv', OInv, NEW t \in Task, NEW x \in Driver, NEW ordered \in BOOLEAN,
         NEW d \in IoDelays, IoWait(t, x, ordered, d)
  PROVE  Honest
<1> DEFINE call == IF d = 0 THEN "ioWaitForever" ELSE "ioWait"
<1>1. Runs(t) /\ Blocks(t, call, x) /\ x \in SyncObj
  BY DEF IoWait, SyncObj
<1>2. call \in Call \ {"mutexTake", "semTake"}
  BY DEF Call
<1> HIDE DEF call
<1> QED BY <1>1, <1>2, IoWaitKept, SleptHonest

LEMMA IoWaitEndHonest ==
  ASSUME IInv, IInv', OInv, NEW t \in Task, IoWaitEnd(t)
  PROVE  Honest
<1>1. CASE Resumes(t, "ioWait") /\ Returns(t)
           /\ k' = [k EXCEPT !.flags[t] = k.flags[t] \ {"DELAYTMO"}]
  <2>1. k.state[t] = "ready" /\ pc[t] # "semTake"
    BY <1>1, ResumesFacts
  <2>2. \E c : k' = [k EXCEPT !.flags[t] = c]
    BY <1>1
  <2> QED BY <1>1, <2>1, <2>2, NotGranted, ReturnsHonest
<1>2. CASE Resumes(t, "ioWaitForever") /\ Returns(t) /\ UNCHANGED k
  <2>1. k.state[t] = "ready" /\ pc[t] # "semTake"
    BY <1>2, ResumesFacts
  <2>2. Quiet(k', k)
    BY <1>2 DEF Quiet, SameHeld, SameWait
  <2> QED BY <1>2, <2>1, <2>2, NotGranted, ReturnsHonest
<1> QED BY <1>1, <1>2 DEF IoWaitEnd

LEMMA TaskDelayEndHonest ==
  ASSUME IInv, IInv', OInv, NEW t \in Task, TaskDelayEnd(t)
  PROVE  Honest
<1>1. /\ Resumes(t, "delay") \/ Resumes(t, "delayForever")
      /\ Returns(t) /\ k' = [k EXCEPT !.flags[t] = k.flags[t] \ {"DELAYTMO"}]
  BY DEF TaskDelayEnd
<1>2. k.state[t] = "ready" /\ pc[t] # "semTake"
  BY <1>1, ResumesFacts
<1>3. \E c : k' = [k EXCEPT !.flags[t] = c]
  BY <1>1
<1> QED BY <1>1, <1>2, <1>3, NotGranted, ReturnsHonest

(* aaTaskWakeUp tells the task that its wait has timed out.                *)
LEMMA TaskWakeUpHonest ==
  ASSUME IInv, IInv', OInv, NEW t \in Task, NEW v \in Task, TaskWakeUp(t, v)
  PROVE  Honest
<1> DEFINE u == WakeByTimeout(k, v)
<1>1. Asleep(v) /\ CalledFromTask(u) /\ k \in Tables
  BY TablesTyped DEF TaskWakeUp
<1>2. Running(u, TimedCalls(pc)) /\ Woken(u, k, v, {"DELAYTMO"})
  BY <1>1, TablesTyped, WakeByTimeoutRuns DEF Asleep
<1> HIDE DEF u
<1>3. Mild(u, k, v)
  BY <1>1, <1>2, WokenMild DEF Asleep, Settled
<1> QED BY <1>1, <1>2, <1>3, CalledHonest

(* aaIoResume: the driver is no mutex and no semaphore.                    *)
LEMMA IoResumeHonest ==
  ASSUME IInv, IInv', OInv, NEW x \in Driver, k.waitingList[x] # << >>,
         CalledFromTask(Resumed(k, x)) \/ CalledFromIsr(Resumed(k, x))
  PROVE  Honest
<1> DEFINE h == Head(k.waitingList[x])
           u == Resumed(k, x)
<1>1. x \in SyncObj /\ k \in Tables /\ Running(k, TimedCalls(pc))
  BY TablesTyped DEF SyncObj
<1>2. h \in Task /\ k.state[h] = "ioWait"
  BY <1>1, HeadWaits
<1>3. Running(u, TimedCalls(pc)) /\ Woken(u, k, h, {})
  BY <1>1, ResumedRuns
<1> HIDE DEF h, u
<1>4. Mild(u, k, h)
  BY <1>1, <1>2, <1>3, WokenMild DEF Settled
<1> QED BY <1>3, <1>4, CalledHonest DEF u

LEMMA TaskDeleteHonest ==
  ASSUME IInv, IInv', OInv, NEW t \in Task, NEW v \in Task, TaskDelete(t, v)
  PROVE  Honest
<1>1. /\ Runs(t) /\ v # t /\ k.state[v] # "none" /\ k.basePriority[v] # 0
      /\ k' = Deleted(k, v) /\ Blocks(t, "delete", v)
  BY DEF TaskDelete, Exists
<1>2. /\ k.state[t] = "ready" /\ pc[t] # "semTake" /\ v \in Task \ {Idle}
      /\ Running(k, TimedCalls(pc))
  BY <1>1, RunsFacts, TablesTyped
<1>3. Gone(k', k, v) /\ Mild(k', k, v)
  BY <1>1, <1>2, DeletedRuns
<1>4. "delete" \in Call \ {"mutexTake", "semTake"}
  BY DEF Call
<1>5. k'.state[t] = "ready"
  BY <1>1, <1>2, <1>3 DEF Gone
<1>6. Untouched
  BY <1>3 DEF Untouched, SameMutexes, SameSignals, Mild, SameHeld
<1>7. \A a \in Task \ {t} : SameWait(k', k, a) \/ (a = v /\ Leaves(k', k, v))
  BY <1>3 DEF Mild
<1>8. k'.state[t] \notin {"mutexWait", "semWait", "signalWait"}
  BY <1>5
<1> QED BY <1>1, <1>2, <1>4, <1>6, <1>7, <1>8, NotGranted, BlocksHonest

(* The lists of the TCBs that are not in use.                              *)
LEMMA TcbListsHonest ==
  ASSUME IInv, IInv', OInv, NEW t \in Task, k.state[t] = "ready",
         pc[t] \in Making \cup {"run"}, NEW c \in Making \cup {"run"},
         NEW x \in Task \cup {None}, Blocks(t, c, x),
         \/ \E f : k' = [k EXCEPT !.freeTcb = f]
         \/ \E z : k' = [k EXCEPT !.zombies = z]
  PROVE  Honest
<1>1. /\ SameHeld(k', k) /\ k'.state = k.state /\ k'.flags = k.flags
      /\ k'.objPtr = k.objPtr
  <2>1. ASSUME NEW f, k' = [k EXCEPT !.freeTcb = f]
        PROVE  /\ SameHeld(k', k) /\ k'.state = k.state /\ k'.flags = k.flags
               /\ k'.objPtr = k.objPtr
    BY <2>1 DEF SameHeld
  <2>2. ASSUME NEW z, k' = [k EXCEPT !.zombies = z]
        PROVE  /\ SameHeld(k', k) /\ k'.state = k.state /\ k'.flags = k.flags
               /\ k'.objPtr = k.objPtr
    BY <2>2 DEF SameHeld
  <2> QED BY <2>1, <2>2
<1>2. \A a \in Task : SameWait(k', k, a)
  BY <1>1 DEF SameWait
<1>3. Untouched
  BY <1>1 DEF Untouched, SameMutexes, SameSignals, SameHeld
<1>4. /\ c \in Call \ {"mutexTake", "semTake"} /\ pc[t] # "semTake"
      /\ x \in SyncObj \cup Task \cup {None}
  BY DEF Call, Making
<1>5. k'.state[t] \notin {"mutexWait", "semWait", "signalWait"}
  BY <1>1
<1> QED BY <1>2, <1>3, <1>4, <1>5, NotGranted, BlocksHonest

LEMMA GivenBackHonest ==
  ASSUME IInv, IInv', OInv, NEW t \in Task, NEW c \in Making, Resumes(t, c), Returns(t),
         k' \in { [k EXCEPT !.freeTcb = @ \cup {arg[t]}],
                  [k EXCEPT !.zombies = Append(@, arg[t])] }
  PROVE  Honest
<1>1. k.state[t] = "ready" /\ pc[t] \in Making \cup {"run"} /\ Blocks(t, "run", None)
  BY ResumesFacts DEF Returns
<1>2. \/ k' = [k EXCEPT !.freeTcb = k.freeTcb \cup {arg[t]}]
      \/ k' = [k EXCEPT !.zombies = Append(k.zombies, arg[t])]
  OBVIOUS
<1>3. \/ \E f : k' = [k EXCEPT !.freeTcb = f]
      \/ \E z : k' = [k EXCEPT !.zombies = z]
  BY <1>2
<1> QED BY <1>1, <1>3, TcbListsHonest

LEMMA ReapBeginHonest ==
  ASSUME IInv, IInv', OInv, NEW t \in Task, ReapBegin(t)
  PROVE  Honest
<1>1. /\ k.zombies # << >> /\ k' = [k EXCEPT !.zombies = Tail(k.zombies)]
      /\ Blocks(t, "reap", Head(k.zombies)) /\ pc[t] = "run" /\ k.state[t] = "ready"
  BY RunsFacts, ResumesFacts DEF ReapBegin
<1>2. Head(k.zombies) \in Task /\ "reap" \in Making \cup {"run"}
  BY <1>1, TcbFacts, TailFacts DEF Making
<1>3. \E z : k' = [k EXCEPT !.zombies = z]
  BY <1>1
<1> QED BY <1>1, <1>2, <1>3, TcbListsHonest

(* A new task inherits no mutex, no flag and no call from the task that    *)
(* had its TCB.                                                            *)
LEMMA TaskCreateHonest ==
  ASSUME IInv, IInv', OInv, NEW t \in Task, NEW v \in Task, NEW p \in NewPrios,
         TaskCreate(t, v, p)
  PROVE  Honest
<1>1. /\ Runs(t) /\ v \in k.freeTcb
      /\ k' = [k EXCEPT !.freeTcb = @ \ {v}, !.mutexList[v] = {}, !.flags[v] = {},
                        !.priority[v] = p, !.basePriority[v] = p]
      /\ pc'  = [pc EXCEPT ![t] = "create", ![v] = "run"]
      /\ arg' = [arg EXCEPT ![t] = v, ![v] = None]
  BY DEF TaskCreate
<1>2. /\ pc[t] = "run" /\ k.state[t] = "ready" /\ k.state[v] = "none" /\ t # v
      /\ k \in Tables
  BY <1>1, RunsFacts, TablesTyped, TcbFacts
<1>3. /\ pc'[t] = "create" /\ pc'[v] = "run"
      /\ \A a \in Task \ {t, v} : pc'[a] = pc[a] /\ arg'[a] = arg[a]
  BY <1>1, <1>2, TablesTyped
<1>4. /\ k'.state = k.state /\ k'.objPtr = k.objPtr
      /\ k'.pOwner = k.pOwner /\ k'.count = k.count
      /\ k'.sigsWait = k.sigsWait /\ k'.sigsRecv = k.sigsRecv
      /\ k'.mutexList = [k.mutexList EXCEPT ![v] = {}]
      /\ k'.flags = [k.flags EXCEPT ![v] = {}]
  BY <1>1
<1>5. Untouched
  <2>1. \A a \in Task : k'.mutexList[a] \subseteq k.mutexList[a]
    BY <1>2, <1>4 DEF Tables
  <2> QED BY <1>4, <2>1 DEF Untouched, SameMutexes, SameSignals
<1>6. \A a \in Task \ {t, v} : GoesOn(a)
  <2>1. \A a \in Task \ {t, v} : k'.flags[a] = k.flags[a]
    BY <1>2, <1>4 DEF Tables
  <2> QED BY <1>3, <1>4, <2>1 DEF GoesOn, SameCall, SameWait
<1>7. Elsewhere(v)
  BY <1>2, <1>3, <1>4 DEF Elsewhere, AwayFromMutexes, AwayFromSems, GrantedTo
<1>8. /\ pc'[t] \notin {"mutexTake", "semTake"} /\ pc[t] # "semTake"
      /\ k'.state[t] \notin {"mutexWait", "semWait", "signalWait"}
  BY <1>2, <1>3, <1>4
<1>9. \A a \in Task \ {t} : GoesOn(a) \/ IsEnded(a, v) \/ Elsewhere(a)
  BY <1>6, <1>7
<1> QED BY <1>2, <1>5, <1>8, <1>9, NotGranted, RunnerHonest

LEMMA TaskCreateEndHonest ==
  ASSUME IInv, IInv', OInv, NEW t \in Task, TaskCreateEnd(t)
  PROVE  Honest
<1> DEFINE v == arg[t]
<1>1. Resumes(t, "create") /\ Returns(t)
  BY DEF TaskCreateEnd
<1>2. k.state[t] = "ready" /\ pc[t] = "create" /\ Running(k, TimedCalls(pc))
  BY <1>1, ResumesFacts, TablesTyped
<1>3. v \in Task /\ v # t /\ k.state[v] = "none" /\ pc[v] = "run"
  BY <1>2, BusyFacts DEF Making
<1>4. CASE k' = [k EXCEPT !.freeTcb = @ \cup {arg[t]}]
  <2>1. k' \in {[k EXCEPT !.freeTcb = @ \cup {arg[t]}],
                [k EXCEPT !.zombies = Append(@, arg[t])]}
    BY <1>4
  <2>2. "create" \in Making
    BY DEF Making
  <2> QED BY <1>1, <2>1, <2>2, GivenBackHonest
<1>5. CASE k' = Schedule(AddReady(k, v)) \/ k' = Suspend(k, v)
  <2>1. /\ pc'[t] = "run"
        /\ \A u \in Task \ {t} : pc'[u] = pc[u] /\ arg'[u] = arg[u]
    BY <1>1, BlocksTyped DEF Returns, Call
  <2> HIDE DEF v
  <2>2. /\ k'.state[v] \in {"ready", "suspended"} /\ k'.objPtr = k.objPtr
        /\ \A a \in Task \ {v} : k'.state[a] = k.state[a]
        /\ k'.flags = k.flags /\ SameHeld(k', k)
    BY <1>2, <1>3, <1>5, CreatedRuns
  <2>3. \A a \in Task \ {t, v} : GoesOn(a)
    BY <2>1, <2>2 DEF GoesOn, SameCall, SameWait
  <2>4. Elsewhere(v)
    BY <1>3, <2>1, <2>2 DEF Elsewhere, AwayFromMutexes, AwayFromSems, GrantedTo
  <2>5. Untouched
    BY <2>2 DEF Untouched, SameMutexes, SameSignals, SameHeld
  <2>6. /\ pc'[t] \notin {"mutexTake", "semTake"} /\ pc[t] # "semTake"
        /\ k'.state[t] \notin {"mutexWait", "semWait", "signalWait"}
    BY <1>2, <1>3, <2>1, <2>2
  <2>7. \A a \in Task \ {t} : GoesOn(a) \/ IsEnded(a, v) \/ Elsewhere(a)
    BY <2>3, <2>4
  <2> QED BY <1>2, <2>5, <2>6, <2>7, NotGranted, RunnerHonest
<1> QED BY <1>4, <1>5 DEF TaskCreateEnd

(* The services that change priorities, or only what the scheduler sees.   *)
LEMMA QuietHonest ==
  ASSUME IInv, IInv', OInv, Quiet(k', k), pc' = pc, arg' = arg
  PROVE  Honest
BY QuietMild, MildHonest

LEMMA TaskNextHonest ==
  ASSUME IInv, IInv', OInv, TaskNext
  PROVE  Honest
<1>1. ASSUME NEW t \in Task, NEW v \in Task,
             \/ TaskWakeUp(t, v) \/ TaskSuspend(t, v) \/ TaskResume(t, v)
             \/ TaskDelete(t, v)
             \/ \E p \in NewPrios : TaskSetPriority(t, v, p) \/ TaskCreate(t, v, p)
      PROVE  Honest
  <2>1. CASE TaskSuspend(t, v)
    BY <2>1, TaskSuspendKept, QuietHonest DEF TaskSuspend, Stays
  <2>2. CASE TaskResume(t, v)
    <3>1. pc' = pc /\ arg' = arg
      BY <2>2 DEF TaskResume, CalledFromTask, Stays
    <3> QED BY <2>2, <3>1, TaskResumeKept, QuietHonest
  <2>3. ASSUME NEW p \in NewPrios, TaskSetPriority(t, v, p)
        PROVE  Honest
    <3>1. pc' = pc /\ arg' = arg
      BY <2>3 DEF TaskSetPriority, Stays
    <3> QED BY <2>3, <3>1, TaskSetPriorityKept, QuietHonest
  <2> QED BY <1>1, <2>1, <2>2, <2>3, TaskWakeUpHonest, TaskDeleteHonest, TaskCreateHonest
<1>2. ASSUME NEW t \in Task,
             \/ TaskYield(t) \/ \E d \in TaskDelays : TaskDelay(t, d)
             \/ TaskDelayEnd(t) \/ TaskDeleteSelf(t) \/ TaskDeleteEnd(t)
             \/ ReapBegin(t) \/ ReapEnd(t) \/ TaskCreateEnd(t) \/ IoWaitEnd(t)
      PROVE  Honest
  <2>1. CASE TaskYield(t)
    BY <2>1, TaskYieldKept, QuietHonest DEF TaskYield, Stays
  <2>2. CASE TaskDeleteSelf(t)
    BY <2>2, TaskDeleteSelfKept, MildHonest DEF TaskDeleteSelf, Stays
  <2>3. CASE TaskDeleteEnd(t)
    <3>1. "delete" \in Making
      BY DEF Making
    <3> QED BY <2>3, <3>1, GivenBackHonest DEF TaskDeleteEnd
  <2>4. CASE ReapEnd(t)
    <3>1. "reap" \in Making
      BY DEF Making
    <3> QED BY <2>4, <3>1, GivenBackHonest DEF ReapEnd
  <2> QED BY <1>2, <2>1, <2>2, <2>3, <2>4, TaskDelayHonest, TaskDelayEndHonest,
             ReapBeginHonest, TaskCreateEndHonest, IoWaitEndHonest
<1>3. ASSUME NEW t \in Task, NEW x \in Driver,
             \/ \E d \in IoDelays, ordered \in BOOLEAN : IoWait(t, x, ordered, d)
             \/ IoResume(t, x) \/ IoResumeFromIsr(x)
      PROVE  Honest
  BY <1>3, IoWaitHonest, IoResumeHonest DEF IoResume, IoResumeFromIsr
<1>4. Idle \in Task
  BY KernelAssumption
<1> QED BY <1>1, <1>2, <1>3, <1>4 DEF TaskNext

-----------------------------------------------------------------------------
(* The signals.                                                            *)

(* Nothing is received: the bits left are fewer.                           *)
LEMMA SignalClearHonest ==
  ASSUME IInv, IInv', OInv, NEW t \in Task, NEW v \in Task, NEW bits,
         SignalClear(t, v, bits)
  PROVE  Honest
<1>1. /\ pc' = pc /\ arg' = arg /\ k \in Tables
      /\ k' = [k EXCEPT !.sigsRecv[v] = k.sigsRecv[v] \ bits]
  BY TablesTyped DEF SignalClear, Stays
<1>2. /\ k'.state = k.state /\ k'.flags = k.flags /\ k'.objPtr = k.objPtr
      /\ k'.pOwner = k.pOwner /\ k'.count = k.count /\ k'.mutexList = k.mutexList
      /\ k'.sigsWait = k.sigsWait
      /\ k'.sigsRecv = [k.sigsRecv EXCEPT ![v] = k.sigsRecv[v] \ bits]
  BY <1>1
<1>3. \A a \in Task : k'.sigsRecv[a] \subseteq k.sigsRecv[a]
  BY <1>1, <1>2 DEF Tables
<1>4. Untouched
  BY <1>2, <1>3 DEF Untouched, SameMutexes, SameSignals
<1>5. Calm(v)
  BY <1>1, <1>2 DEF Calm, GoesOn, SameCall, SameWait
<1> QED BY <1>4, <1>5, CalmHonest

(* Served at once: the task does not wait.                                 *)
LEMMA SignalTryHonest ==
  ASSUME IInv, IInv', OInv, NEW t \in Task, NEW w \in SignalSets, NEW mode \in Modes,
         SignalTry(t, w, mode)
  PROVE  Honest
<1> DEFINE s == SignalAsked(t, w, mode)
           r == s.sigsRecv[t] \ Matched(w, s.sigsRecv[t], mode # {})
<1>1. /\ Runs(t) /\ pc' = pc /\ arg' = arg
      /\ k' = [s EXCEPT !.sigsRecv[t] = r]
  BY Zenon DEF SignalTry, Stays
<1>2. /\ Running(k, TimedCalls(pc)) /\ k \in Tables
      /\ k.state[t] = "ready" /\ pc[t] = "run"
  BY <1>1, RunsFacts, TablesTyped
<1>3. /\ Unmoved(s, k)
      /\ s.mutexList = k.mutexList /\ s.pOwner = k.pOwner /\ s.count = k.count
      /\ s.sigsRecv = k.sigsRecv /\ s.sigsWait = [k.sigsWait EXCEPT ![t] = w]
      /\ s.flags = [k.flags EXCEPT ![t] = (@ \ {"SIGNALAND"}) \cup mode]
  BY <1>2, SignalTyped, SignalAskedRuns
<1> HIDE DEF s, r
<1>4. /\ k'.state = k.state /\ k'.objPtr = k.objPtr
      /\ k'.mutexList = k.mutexList /\ k'.pOwner = k.pOwner /\ k'.count = k.count
      /\ k'.sigsRecv = [k.sigsRecv EXCEPT ![t] = r]
      /\ k'.sigsWait = [k.sigsWait EXCEPT ![t] = w]
      /\ k'.flags = [k.flags EXCEPT ![t] = (@ \ {"SIGNALAND"}) \cup mode]
  BY <1>1, <1>3 DEF Unmoved
<1>5. \A a \in Task \ {t} : /\ k'.flags[a] = k.flags[a]
                            /\ k'.sigsWait[a] = k.sigsWait[a]
                            /\ k'.sigsRecv[a] = k.sigsRecv[a]
  BY <1>2, <1>4 DEF Tables
<1>6. \A a \in Task \ {t} : GoesOn(a)
  BY <1>1, <1>4, <1>5 DEF GoesOn, SameCall, SameWait
<1>7. Untouched
  BY <1>2, <1>4, <1>5 DEF Untouched, SameMutexes, SameSignals
<1>8. /\ pc'[t] \notin {"mutexTake", "semTake"} /\ pc[t] # "semTake"
      /\ k'.state[t] \notin {"mutexWait", "semWait", "signalWait"}
  BY <1>1, <1>2, <1>4
<1> QED BY <1>2, <1>6, <1>7, <1>8, NotGranted, RunnerHonest

(* A wait begins only when what has been received is not enough.           *)
LEMMA SignalWaitHonest ==
  ASSUME IInv, IInv', OInv, NEW t \in Task, NEW w \in SignalSets, NEW mode \in Modes,
         NEW d \in TakeDelays, SignalWait(t, w, mode, d)
  PROVE  Honest
<1> DEFINE s == SignalAsked(t, w, mode)
<1>1. /\ Runs(t) /\ Blocks(t, "signalWait", None)
      /\ Matched(w, k.sigsRecv[t], mode # {}) = {}
  BY DEF SignalWait
<1>2. /\ Running(k, TimedCalls(pc)) /\ k \in Tables
      /\ k.state[t] = "ready" /\ pc[t] = "run"
  BY <1>1, RunsFacts, TablesTyped
<1>3. /\ Running(s, TimedCalls(pc)) /\ Unmoved(s, k)
      /\ s.mutexList = k.mutexList /\ s.pOwner = k.pOwner /\ s.count = k.count
      /\ s.sigsRecv = k.sigsRecv /\ s.sigsWait = [k.sigsWait EXCEPT ![t] = w]
      /\ s.flags = [k.flags EXCEPT ![t] = (@ \ {"SIGNALAND"}) \cup mode]
  BY <1>2, SignalTyped, SignalAskedRuns
<1>4. /\ Slept(k', s, t, "signalWait")
      /\ k'.flags = [s.flags EXCEPT ![t] = @ \ {"DELAYTMO"}]
  BY SignalWaitKept
<1> HIDE DEF s
<1>5. s \in Tables
  BY <1>3 DEF Running, Whole, Lists
<1>6. /\ SameHeld(k', s) /\ k'.state[t] = "signalWait"
      /\ \A a \in Task \ {t} : SameWait(k', s, a) /\ k'.flags[a] = s.flags[a]
  BY <1>4, <1>5, SleptOthers
<1>7. /\ pc'[t] = "signalWait"
      /\ \A a \in Task \ {t} : pc'[a] = pc[a] /\ arg'[a] = arg[a]
  BY <1>1, BlocksTyped DEF Call
<1>8. \A a \in Task \ {t} : /\ s.flags[a] = k.flags[a]
                            /\ s.sigsWait[a] = k.sigsWait[a]
  BY <1>2, <1>3 DEF Tables
<1>9. \A a \in Task \ {t} : SameWait(k', k, a)
  BY <1>3, <1>6, <1>8 DEF SameWait, Unmoved
<1>10. \A a \in Task \ {t} : GoesOn(a)
  BY <1>7, <1>9 DEF GoesOn, SameCall
<1>11. AwayFromMutexes(t) /\ AwayFromSems(t)
  BY <1>2, <1>6, <1>7 DEF AwayFromMutexes, AwayFromSems, GrantedTo
<1>12. CalmMutexes(t) /\ CalmSems(t)
  BY <1>10, <1>11 DEF CalmMutexes, CalmSems
<1>13. SameMutexes /\ k'.count = k.count
  BY <1>3, <1>6 DEF SameMutexes, SameHeld
<1>14. NoSignalMissed'
  <2> SUFFICES ASSUME NEW a \in Task, k'.state[a] = "signalWait"
               PROVE  Matched(k'.sigsWait[a], k'.sigsRecv[a],
                              "SIGNALAND" \in k'.flags[a]) = {}
    BY DEF NoSignalMissed
  <2>1. CASE a = t
    <3>1. k'.sigsWait[t] = w /\ k'.sigsRecv[t] = k.sigsRecv[t]
      BY <1>2, <1>3, <1>6 DEF SameHeld, Tables
    <3>2. k'.flags[t] = ((k.flags[t] \ {"SIGNALAND"}) \cup mode) \ {"DELAYTMO"}
      BY <1>2, <1>3, <1>4 DEF Tables
    <3>3. "SIGNALAND" \in k'.flags[t] <=> mode # {}
      BY <3>2 DEF Modes
    <3> QED BY <1>1, <2>1, <3>1, <3>3 DEF Matched
  <2>2. CASE a # t
    <3>1. k.state[a] = "signalWait"
      BY <1>9, <2>2 DEF SameWait, Settled
    <3>2. Matched(k.sigsWait[a], k.sigsRecv[a], "SIGNALAND" \in k.flags[a]) = {}
      BY <3>1 DEF OInv, NoSignalMissed
    <3>3. k'.sigsWait[a] = k.sigsWait[a] /\ k'.sigsRecv[a] \subseteq k.sigsRecv[a]
      BY <1>3, <1>6, <1>8, <2>2 DEF SameHeld
    <3> QED BY <1>9, <2>2, <3>2, <3>3, SignalKept
  <2> QED BY <2>1, <2>2
<1> QED BY <1>12, <1>13, <1>14, CalmMutexesHonest, CalmSemsHonest DEF Honest

(* A task that gets what it waits for waits no more; what any other gets   *)
(* is not enough.                                                          *)
LEMMA SignalSendHonest ==
  ASSUME IInv, IInv', OInv, NEW v \in Task, NEW bits \in SignalSets, NEW pulse,
         \/ CalledFromTask(Signalled(k, v, bits, pulse))
         \/ CalledFromIsr(Signalled(k, v, bits, pulse))
  PROVE  Honest
<1> DEFINE s == Signalled(k, v, bits, pulse)
<1>1. Running(k, TimedCalls(pc)) /\ bits \in SUBSET Signal
  BY TablesTyped, SignalAssumption
<1>2. Running(s, TimedCalls(pc)) /\ SentTo(s, k, v, bits)
  BY <1>1, SignalledRuns
<1>3. CalledFromTask(s) \/ CalledFromIsr(s)
  OBVIOUS
<1> HIDE DEF s
<1>4. Quiet(k', s) /\ pc' = pc /\ arg' = arg
  BY <1>2, <1>3, CalledSame
<1>5. /\ SameMutexes /\ k'.count = k.count /\ k'.sigsWait = k.sigsWait
      /\ k'.sigsRecv = s.sigsRecv
  BY <1>2, <1>4 DEF SentTo, Quiet, SameHeld, SameMutexes
<1>6. \A a \in Task : SameWait(s, k, a) => SameWait(k', k, a)
  BY <1>4 DEF Quiet, SameWait, ListWait, Settled
<1>7. k.state[v] = "signalWait" /\ s.state[v] \in Settled => Leaves(k', k, v)
  BY <1>4 DEF Quiet, SameWait, Leaves, Settled
<1>8. CalmMutexes(v) /\ CalmSems(v)
  <2>1. \A a \in Task : GoesOn(a) \/ IsEnded(a, v)
    BY <1>2, <1>4, <1>6, <1>7 DEF SentTo, GoesOn, IsEnded, SameCall
  <2> QED BY <2>1 DEF CalmMutexes, CalmSems
<1>9. NoSignalMissed'
  <2> SUFFICES ASSUME NEW a \in Task, k'.state[a] = "signalWait"
               PROVE  Matched(k'.sigsWait[a], k'.sigsRecv[a],
                              "SIGNALAND" \in k'.flags[a]) = {}
    BY DEF NoSignalMissed
  <2>1. s.state[a] = "signalWait"
    BY <1>4 DEF Quiet, SameWait, Settled
  <2>2. SameWait(s, k, a) /\ k.state[a] = "signalWait"
    BY <1>2, <2>1 DEF SentTo, SameWait, Settled
  <2>3. Matched(k.sigsWait[a], k.sigsRecv[a], "SIGNALAND" \in k.flags[a]) = {}
    BY <2>2 DEF OInv, NoSignalMissed
  <2>4. CASE a = v
    <3>1. /\ s.sigsRecv[v] \subseteq k.sigsRecv[v] \cup bits
          /\ Matched(k.sigsWait[v], k.sigsRecv[v] \cup bits,
                     "SIGNALAND" \in k.flags[v]) = {}
      BY <1>2, <2>1, <2>2, <2>4 DEF SentTo, Settled
    <3> QED BY <1>5, <1>6, <2>2, <2>4, <3>1, SignalKept
  <2>5. CASE a # v
    <3>1. k'.sigsRecv[a] \subseteq k.sigsRecv[a]
      BY <1>2, <1>5, <2>5 DEF SentTo
    <3> QED BY <1>5, <1>6, <2>2, <2>3, <3>1, SignalKept
  <2> QED BY <2>4, <2>5
<1> QED BY <1>5, <1>8, <1>9, CalmMutexesHonest, CalmSemsHonest DEF Honest

LEMMA SignalWaitEndHonest ==
  ASSUME IInv, IInv', OInv, NEW t \in Task, SignalWaitEnd(t)
  PROVE  Honest
<1>1. /\ Resumes(t, "signalWait") /\ Returns(t)
      /\ k' = [k EXCEPT !.flags[t] = k.flags[t] \ {"DELAYTMO"}]
  BY DEF SignalWaitEnd
<1>2. k.state[t] = "ready" /\ pc[t] # "semTake"
  BY <1>1, ResumesFacts
<1>3. \E c : k' = [k EXCEPT !.flags[t] = c]
  BY <1>1
<1> QED BY <1>1, <1>2, <1>3, NotGranted, ReturnsHonest

LEMMA SignalNextHonest ==
  ASSUME IInv, IInv', OInv, SignalNext
  PROVE  Honest
<1>1. ASSUME NEW t \in Task, NEW v \in Task, NEW bits \in SignalSets, NEW mode \in Modes,
             \/ SignalTry(t, bits, mode)
             \/ \E d \in TakeDelays : SignalWait(t, bits, mode, d)
             \/ SignalSend(t, v, bits, {}) \/ SignalSend(t, v, bits, bits)
             \/ SignalSendFromIsr(v, bits, {}) \/ SignalSendFromIsr(v, bits, bits)
             \/ SignalClear(t, v, bits)
      PROVE  Honest
  BY <1>1, SignalTryHonest, SignalWaitHonest, SignalSendHonest, SignalClearHonest
     DEF SignalSend, SignalSendFromIsr
<1> QED BY <1>1, SignalWaitEndHonest DEF SignalNext

-----------------------------------------------------------------------------
(* The semaphores.                                                         *)

(* Only the count of x changes, and it may.                                *)
LEMMA CountHonest ==
  ASSUME IInv, IInv', OInv, NEW x \in Sem, pc' = pc, arg' = arg, SameTasks(k', k),
         k'.mutexList = k.mutexList, k'.pOwner = k.pOwner,
         k'.sigsWait = k.sigsWait, k'.sigsRecv = k.sigsRecv,
         \A y \in Counted \ {x} : k'.count[y] = k.count[y],
         Gives(x) \/ Takes(x) \/ Resets(x)
  PROVE  Honest
<1>1. \A a \in Task : GoesOn(a)
  BY DEF GoesOn, SameCall, SameWait, SameTasks
<1>2. CalmMutexes(x) /\ CalmSems(x)
  BY <1>1 DEF CalmMutexes, CalmSems
<1>3. SameMutexes
  BY KernelAssumption DEF SameMutexes, Counted
<1>4. MutexesHonest
  BY <1>2, <1>3, CalmMutexesHonest
<1>5. SemCalls(k', pc', arg') /\ \A y \in Sem : Orphaned(y) \/ Granted(y)' = Granted(y)
  BY <1>2, CalmSemsGranted
<1>6. SemsHonest
  BY <1>5 DEF SemsHonest, Counted
<1>7. SameSignals
  BY DEF SameSignals
<1>8. \A t \in Task : k'.state[t] = "signalWait" =>
        k.state[t] = "signalWait" /\ SameWait(k', k, t)
  BY <1>1 DEF GoesOn, SameTasks
<1>9. NoSignalMissed'
  BY <1>7, <1>8, SignalsKept
<1> QED BY <1>4, <1>6, <1>9 DEF Honest

LEMMA SemCreateHonest ==
  ASSUME IInv, IInv', OInv, NEW t \in Task, NEW x \in Sem, NEW n \in SemCounts,
         SemCreate(t, x, n)
  PROVE  Honest
<1>1. /\ pc' = pc /\ arg' = arg /\ k \in Tables
      /\ k' = [k EXCEPT !.semUsed = @ \cup {x}, !.count[x] = n, !.waitingList[x] = << >>]
  BY TablesTyped DEF SemCreate, Stays
<1>2. /\ SameTasks(k', k)
      /\ k'.mutexList = k.mutexList /\ k'.pOwner = k.pOwner
      /\ k'.sigsWait = k.sigsWait /\ k'.sigsRecv = k.sigsRecv
      /\ k'.count = [k.count EXCEPT ![x] = n]
  BY <1>1 DEF SameTasks
<1>3. \A y \in Counted \ {x} : k'.count[y] = k.count[y]
  BY <1>1, <1>2 DEF Tables
<1>4. Resets(x)
  BY DEF Resets
<1> QED BY <1>1, <1>2, <1>3, <1>4, CountHonest

LEMMA SemResetHonest ==
  ASSUME IInv, IInv', OInv, NEW t \in Task, NEW x \in Sem, NEW n \in ResetCounts,
         SemReset(t, x, n)
  PROVE  Honest
<1>1. /\ pc' = pc /\ arg' = arg /\ k \in Tables
      /\ k' = [k EXCEPT !.count[x] = n % 65536]
  BY TablesTyped DEF SemReset, Stays
<1>2. /\ SameTasks(k', k)
      /\ k'.mutexList = k.mutexList /\ k'.pOwner = k.pOwner
      /\ k'.sigsWait = k.sigsWait /\ k'.sigsRecv = k.sigsRecv
      /\ k'.count = [k.count EXCEPT ![x] = n % 65536]
  BY <1>1 DEF SameTasks
<1>3. \A y \in Counted \ {x} : k'.count[y] = k.count[y]
  BY <1>1, <1>2 DEF Tables
<1>4. Resets(x)
  BY DEF Resets
<1> QED BY <1>1, <1>2, <1>3, <1>4, CountHonest

LEMMA SemTakeNowHonest ==
  ASSUME IInv, IInv', OInv, NEW t \in Task, NEW x \in Sem, SemTakeNow(t, x)
  PROVE  Honest
<1>1. /\ pc' = pc /\ arg' = arg /\ k \in Tables
      /\ k' = [k EXCEPT !.count[x] = k.count[x] - 1]
  BY TablesTyped DEF SemTakeNow, Stays
<1>2. /\ SameTasks(k', k)
      /\ k'.mutexList = k.mutexList /\ k'.pOwner = k.pOwner
      /\ k'.sigsWait = k.sigsWait /\ k'.sigsRecv = k.sigsRecv
      /\ k'.count = [k.count EXCEPT ![x] = k.count[x] - 1]
  BY <1>1 DEF SameTasks
<1>3. \A y \in Counted \ {x} : k'.count[y] = k.count[y]
  BY <1>1, <1>2 DEF Tables
<1>4. Takes(x)
  BY DEF Takes
<1> QED BY <1>1, <1>2, <1>3, <1>4, CountHonest

(* The task that begins to wait has been given nothing yet.                *)
LEMMA SemTakeWaitHonest ==
  ASSUME IInv, IInv', OInv, NEW t \in Task, NEW x \in Sem, NEW d \in TakeDelays,
         SemTakeWait(t, x, d)
  PROVE  Honest
<1>1. Runs(t) /\ Blocks(t, "semTake", x) /\ x \in SyncObj
  BY DEF SemTakeWait, SyncObj
<1>2. k.state[t] = "ready" /\ pc[t] = "run" /\ k \in Tables
  BY <1>1, RunsFacts, TablesTyped
<1>3. /\ pc'[t] = "semTake" /\ arg'[t] = x
      /\ \A a \in Task \ {t} : pc'[a] = pc[a] /\ arg'[a] = arg[a]
  BY <1>1, BlocksTyped DEF Call
<1>4. /\ Slept(k', k, t, "semWait") /\ k'.objPtr[t] = x
      /\ k'.flags = [k.flags EXCEPT ![t] = @ \ {"FLUSH", "DELAYTMO"}]
  BY SemTakeWaitKept
<1>5. /\ SameHeld(k', k) /\ k'.state[t] = "semWait"
      /\ \A a \in Task \ {t} : SameWait(k', k, a)
  BY <1>2, <1>4, SleptOthers
<1>6. k'.flags[t] \cap Causes = {}
  BY <1>2, <1>4 DEF Tables, Causes
<1>7. \A a \in Task \ {t} : GoesOn(a)
  BY <1>3, <1>5 DEF GoesOn, SameCall
<1>8. CalmMutexes(t)
  BY <1>2, <1>3, <1>5, <1>7 DEF CalmMutexes, AwayFromMutexes
<1>9. SameMutexes /\ k'.count = k.count
  BY <1>5 DEF SameMutexes, SameHeld
<1>10. MutexesHonest
  BY <1>8, <1>9, CalmMutexesHonest
<1>11. SemCalls(k', pc', arg')
  <2> SUFFICES ASSUME NEW a \in Task
               PROVE  /\ k'.state[a] = "semWait" => /\ pc'[a] = "semTake"
                                                    /\ k'.objPtr[a] = arg'[a]
                                                    /\ k'.flags[a] \cap Causes = {}
                      /\ pc'[a] = "semTake" =>
                           k'.state[a] \in {"semWait", "none"} \cup Settled
    BY DEF SemCalls, InCall
  <2>1. CASE a = t
    BY <2>1, <1>3, <1>4, <1>5, <1>6
  <2>2. CASE a # t
    <3>1. SemCalls(k, pc, arg)
      BY DEF OInv
    <3>2. k'.flags[a] \cap Causes = k.flags[a] \cap Causes
      BY <1>5, <2>2 DEF SameWait, Causes
    <3> QED BY <1>3, <1>5, <2>2, <3>1, <3>2
            DEF SameWait, SemCalls, InCall, Settled, ListWait
  <2> QED BY <2>1, <2>2
<1>12. ASSUME NEW y \in Sem, NEW a \in Task
       PROVE  GrantedTo(a, y)' <=> GrantedTo(a, y)
  <2>1. CASE a = t
    BY <2>1, <1>2, <1>5 DEF GrantedTo
  <2>2. CASE a # t
    <3>1. k'.flags[a] \cap Causes = k.flags[a] \cap Causes
      BY <1>5, <2>2 DEF SameWait, Causes
    <3>2. k'.state[a] \in Settled <=> k.state[a] \in Settled
      BY <1>5, <2>2 DEF SameWait
    <3> QED BY <1>3, <2>2, <3>1, <3>2 DEF GrantedTo, Settled, Causes
  <2> QED BY <2>1, <2>2
<1>13. \A y \in Sem : k'.count[y] = k.count[y] /\ Granted(y)' = Granted(y)
  BY <1>9, <1>12 DEF Granted
<1>14. SemsHonest
  BY <1>11, <1>13 DEF SemsHonest
<1>15. NoSignalMissed'
  <2>1. SameSignals
    BY <1>5 DEF SameSignals, SameHeld
  <2>2. \A a \in Task : k'.state[a] = "signalWait" =>
          k.state[a] = "signalWait" /\ SameWait(k', k, a)
    BY <1>5 DEF SameWait, Settled
  <2> QED BY <2>1, <2>2, SignalsKept
<1> QED BY <1>10, <1>14, <1>15 DEF Honest

(* The call of the task that was given a semaphore returns.                *)
LEMMA SemTakeGrantedHonest ==
  ASSUME IInv, IInv', OInv, NEW t \in Task, SemTakeGranted(t)
  PROVE  Honest
<1>1. Resumes(t, "semTake") /\ Returns(t) /\ UNCHANGED k
  BY DEF SemTakeGranted
<1>2. k.state[t] = "ready" /\ pc[t] = "semTake"
  BY <1>1, ResumesFacts
<1>3. /\ pc'[t] = "run"
      /\ \A a \in Task \ {t} : pc'[a] = pc[a] /\ arg'[a] = arg[a]
  BY <1>1, BlocksTyped DEF Returns, Call
<1>4. \A a \in Task \ {t} : GoesOn(a)
  BY <1>1, <1>3 DEF GoesOn, SameCall, SameWait
<1>5. CalmMutexes(t) /\ SameMutexes
  BY <1>1, <1>2, <1>3, <1>4 DEF CalmMutexes, AwayFromMutexes, SameMutexes
<1>6. SemCalls(k', pc', arg')
  <2>1. SemCalls(k, pc, arg)
    BY DEF OInv
  <2> QED BY <1>1, <1>2, <1>3, <2>1 DEF SemCalls, InCall
<1>7. ASSUME NEW y \in Sem, y # arg[t]
      PROVE  Granted(y)' = Granted(y)
  <2>1. \A a \in Task : GrantedTo(a, y)' <=> GrantedTo(a, y)
    BY <1>1, <1>3, <1>7 DEF GrantedTo
  <2> QED BY <2>1 DEF Granted
<1>8. \A y \in Sem : y = arg[t] => Takes(y)
  BY DEF Takes
<1>9. SemsHonest
  BY <1>1, <1>6, <1>7, <1>8 DEF SemsHonest
<1>10. NoSignalMissed'
  BY <1>1 DEF OInv, NoSignalMissed
<1> QED BY <1>5, <1>9, <1>10, CalmMutexesHonest DEF Honest

(* A give raises the count or ends the wait of the first waiter.           *)
LEMMA GiveFacts ==
  ASSUME IInv, NEW x \in Sem, Gives(x)
  PROVE  /\ pc' = pc /\ arg' = arg
         /\ \/ /\ SameTasks(k', k)
               /\ k'.mutexList = k.mutexList /\ k'.pOwner = k.pOwner
               /\ k'.sigsWait = k.sigsWait /\ k'.sigsRecv = k.sigsRecv
               /\ \A y \in Counted \ {x} : k'.count[y] = k.count[y]
               /\ k'.count[x] = k.count[x] + 1
            \/ \E h \in Task :
                 /\ k.state[h] = "semWait" /\ k.objPtr[h] = x
                 /\ SameHeld(k', k)
                 /\ k'.state[h] \in Settled /\ k'.flags[h] = k.flags[h] \ {"SUSPEND"}
                 /\ \A a \in Task \ {h} : SameWait(k', k, a)
<1> DEFINE s == Give(k, x)
<1>1. CalledFromTask(s) \/ CalledFromIsr(s)
  BY DEF Gives, SemGive, SemGiveFromIsr
<1>2. Running(k, TimedCalls(pc)) /\ k \in Tables /\ x \in SyncObj /\ x \in Counted
  BY TablesTyped DEF SyncObj, Counted
<1>3. Running(s, TimedCalls(pc))
  BY <1>2, GiveRuns
<1> HIDE DEF s
<1>4. SameObjects(k', s) /\ SameTasks(k', s) /\ Quiet(k', s) /\ pc' = pc /\ arg' = arg
  BY <1>1, <1>3, CalledSame
<1>5. CASE k.count[x] < 0 \/ k.waitingList[x] = << >>
  <2>1. s = [k EXCEPT !.count[x] = k.count[x] + 1, !.sched = FALSE]
    BY <1>5 DEF s, Give
  <2>2. /\ SameTasks(s, k)
        /\ s.mutexList = k.mutexList /\ s.pOwner = k.pOwner
        /\ s.sigsWait = k.sigsWait /\ s.sigsRecv = k.sigsRecv
        /\ s.count = [k.count EXCEPT ![x] = k.count[x] + 1]
    BY <2>1 DEF SameTasks
  <2>3. /\ \A y \in Counted \ {x} : s.count[y] = k.count[y]
        /\ s.count[x] = k.count[x] + 1
    BY <1>2, <2>2 DEF Tables
  <2> QED BY <1>4, <2>2, <2>3 DEF SameTasks, SameObjects
<1>6. CASE ~ (k.count[x] < 0 \/ k.waitingList[x] = << >>)
  <2> DEFINE h == Head(k.waitingList[x])
  <2>1. s = WakeFirst(k, x)
    BY <1>6 DEF s, Give
  <2>2. h \in Task /\ k.state[h] = "semWait" /\ k.objPtr[h] = x
    BY <1>2, <1>6, HeadWaits
  <2>3. Woken(s, k, h, {})
    BY <1>2, <1>6, <2>1, WakeFirstRuns
  <2> HIDE DEF h
  <2>4. /\ SameHeld(s, k)
        /\ \A a \in Task \ {h} : SameWait(s, k, a)
        /\ s.state[h] \in Settled
        /\ s.flags[h] = (k.flags[h] \cup {}) \ {"SUSPEND"}
    BY <1>2, <2>2, <2>3, WokenFacts
  <2>5. /\ SameHeld(k', k)
        /\ \A a \in Task \ {h} : SameWait(k', k, a)
        /\ k'.state[h] \in Settled
        /\ k'.flags[h] = k.flags[h] \ {"SUSPEND"}
    BY <1>4, <2>4 DEF SameObjects, SameTasks, SameHeld, SameWait
  <2> QED BY <1>4, <2>2, <2>5
<1> QED BY <1>5, <1>6

(* A waiter that is given the semaphore is told neither of a flush nor of  *)
(* a time-out.                                                             *)
LEMMA SemGiveHonest ==
  ASSUME IInv, IInv', OInv, NEW x \in Sem, Gives(x)
  PROVE  Honest
<1>1. pc' = pc /\ arg' = arg
  BY GiveFacts
<1>2. CASE /\ SameTasks(k', k)
           /\ k'.mutexList = k.mutexList /\ k'.pOwner = k.pOwner
           /\ k'.sigsWait = k.sigsWait /\ k'.sigsRecv = k.sigsRecv
           /\ \A y \in Counted \ {x} : k'.count[y] = k.count[y]
  BY <1>1, <1>2, CountHonest
<1>3. ASSUME NEW h \in Task,
             k.state[h] = "semWait", k.objPtr[h] = x, SameHeld(k', k),
             k'.state[h] \in Settled, \A a \in Task \ {h} : SameWait(k', k, a)
      PROVE  Honest
  <2>1. /\ \A a \in Task : pc'[a] = pc[a] /\ arg'[a] = arg[a]
        /\ pc[h] = "semTake" /\ arg[h] = x
    BY <1>1, <1>3 DEF OInv, SemCalls, InCall
  <2>2. \A a \in Task \ {h} : GoesOn(a)
    BY <1>3, <2>1 DEF GoesOn, SameCall
  <2>3. CalmMutexes(h)
    BY <1>3, <2>1, <2>2 DEF CalmMutexes, AwayFromMutexes, Settled
  <2>4. SameMutexes /\ k'.count = k.count /\ SameSignals
    BY <1>3 DEF SameMutexes, SameHeld, SameSignals
  <2>5. SemCalls(k', pc', arg')
    <3> SUFFICES ASSUME NEW a \in Task
                 PROVE  /\ k'.state[a] = "semWait" => /\ pc'[a] = "semTake"
                                                      /\ k'.objPtr[a] = arg'[a]
                                                      /\ k'.flags[a] \cap Causes = {}
                        /\ pc'[a] = "semTake" =>
                             k'.state[a] \in {"semWait", "none"} \cup Settled
      BY DEF SemCalls, InCall
    <3>1. CASE a = h
      BY <3>1, <1>3 DEF Settled
    <3>2. CASE a # h
      <4>1. SemCalls(k, pc, arg)
        BY DEF OInv
      <4>2. k'.flags[a] \cap Causes = k.flags[a] \cap Causes
        BY <1>3, <3>2 DEF SameWait, Causes
      <4> QED BY <1>3, <2>1, <3>2, <4>1, <4>2
              DEF SameWait, SemCalls, InCall, Settled, ListWait
    <3> QED BY <3>1, <3>2
  <2>6. ASSUME NEW y \in Sem, y # x
        PROVE  Granted(y)' = Granted(y)
    <3>1. ASSUME NEW a \in Task
          PROVE  GrantedTo(a, y)' <=> GrantedTo(a, y)
      <4>1. CASE a = h
        BY <4>1, <2>1, <2>6 DEF GrantedTo
      <4>2. CASE a # h
        <5>1. k'.flags[a] \cap Causes = k.flags[a] \cap Causes
          BY <1>3, <4>2 DEF SameWait, Causes
        <5>2. k'.state[a] \in Settled <=> k.state[a] \in Settled
          BY <1>3, <4>2 DEF SameWait
        <5> QED BY <2>1, <4>2, <5>1, <5>2 DEF GrantedTo, Settled, Causes
      <4> QED BY <4>1, <4>2
    <3> QED BY <3>1 DEF Granted
  <2>7. SemsHonest
    BY <2>4, <2>5, <2>6 DEF SemsHonest
  <2>8. NoSignalMissed'
    <3>1. \A a \in Task : k'.state[a] = "signalWait" =>
            k.state[a] = "signalWait" /\ SameWait(k', k, a)
      BY <1>3 DEF SameWait, Settled
    <3> QED BY <2>4, <3>1, SignalsKept
  <2> QED BY <2>3, <2>4, <2>7, <2>8, CalmMutexesHonest DEF Honest
<1> QED BY <1>2, <1>3, GiveFacts

LEMMA SemDeleteHonest ==
  ASSUME IInv, IInv', OInv, NEW t \in Task, NEW x \in Sem, SemDelete(t, x)
  PROVE  Honest
<1>1. /\ Runs(t) /\ UNCHANGED k
      /\ pc' = [pc EXCEPT ![t] = "semDelete"] /\ arg' = [arg EXCEPT ![t] = x]
  BY DEF SemDelete
<1>2. k.state[t] = "ready" /\ pc[t] # "semTake"
  BY <1>1, RunsFacts
<1>3. /\ pc'[t] = "semDelete"
      /\ \A a \in Task \ {t} : pc'[a] = pc[a] /\ arg'[a] = arg[a]
  BY <1>1, TablesTyped
<1>4. \A a \in Task \ {t} : GoesOn(a)
  BY <1>1, <1>3 DEF GoesOn, SameCall, SameWait
<1>5. Untouched
  BY <1>1 DEF Untouched, SameMutexes, SameSignals
<1>6. /\ pc'[t] \notin {"mutexTake", "semTake"}
      /\ k'.state[t] \notin {"mutexWait", "semWait", "signalWait"}
  BY <1>1, <1>2, <1>3
<1> QED BY <1>2, <1>4, <1>5, <1>6, NotGranted, RunnerHonest

LEMMA SemDeleteEndHonest ==
  ASSUME IInv, IInv', OInv, NEW t \in Task, SemDeleteEnd(t)
  PROVE  Honest
<1>1. /\ Resumes(t, "semDelete") /\ Returns(t)
      /\ k' = [k EXCEPT !.semUsed = @ \ {arg[t]}]
  BY DEF SemDeleteEnd
<1>2. k.state[t] = "ready" /\ pc[t] # "semTake"
  BY <1>1, ResumesFacts
<1>3. Quiet(k', k)
  BY <1>1 DEF Quiet, SameHeld, SameWait
<1> QED BY <1>1, <1>2, <1>3, NotGranted, ReturnsHonest

LEMMA SemNextHonest ==
  ASSUME IInv, IInv', OInv, SemNext
  PROVE  Honest
<1>1. ASSUME NEW t \in Task, NEW x \in Sem,
             \/ \E n \in SemCounts : SemCreate(t, x, n)
             \/ \E n \in ResetCounts : SemReset(t, x, n)
             \/ SemTakeNow(t, x)
             \/ \E d \in TakeDelays : SemTakeWait(t, x, d)
             \/ SemGive(t, x) \/ SemFlush(t, x) \/ SemDelete(t, x)
      PROVE  Honest
  <2>1. CASE SemGive(t, x)
    BY <2>1, SemGiveHonest DEF Gives
  <2>2. CASE SemFlush(t, x)
    <3>1. Quiet(k', k) /\ pc' = pc /\ arg' = arg
      BY <2>2 DEF SemFlush, FlushBegin, Quiet, SameHeld, SameWait
    <3> QED BY <3>1, QuietHonest
  <2> QED BY <1>1, <2>1, <2>2, SemCreateHonest, SemResetHonest, SemTakeNowHonest,
             SemTakeWaitHonest, SemDeleteHonest
<1>2. ASSUME NEW t \in Task, SemTakeFailed(t) \/ SemTakeGranted(t) \/ SemDeleteEnd(t)
      PROVE  Honest
  BY <1>2, SemTakeFailedHonest, SemTakeGrantedHonest, SemDeleteEndHonest
<1>3. ASSUME NEW x \in Sem, SemGiveFromIsr(x) \/ SemFlushFromIsr(x)
                              \/ FlushOne(x) \/ FlushEnd(x)
      PROVE  Honest
  <2>1. CASE SemFlushFromIsr(x)
    <3>1. Quiet(k', k) /\ pc' = pc /\ arg' = arg
      BY <2>1 DEF SemFlushFromIsr, FlushBegin, Quiet, SameHeld, SameWait
    <3> QED BY <3>1, QuietHonest
  <2>2. CASE SemGiveFromIsr(x)
    BY <2>2, SemGiveHonest DEF Gives
  <2> QED BY <1>3, <2>1, <2>2, FlushOneHonest, FlushEndHonest
<1> QED BY <1>1, <1>2, <1>3 DEF SemNext

-----------------------------------------------------------------------------
(* The mutexes.                                                            *)

(* No task moves and no mutex changes hands.                               *)
LEMMA TablesHonest ==
  ASSUME IInv, IInv', OInv, pc' = pc, arg' = arg, SameTasks(k', k), SameMutexes,
         k'.sigsWait = k.sigsWait, k'.sigsRecv = k.sigsRecv,
         \A x \in Sem : k'.count[x] = k.count[x]
  PROVE  Honest
<1>1. \A a \in Task : GoesOn(a)
  BY DEF GoesOn, SameCall, SameWait, SameTasks
<1>2. Calm(None)
  BY <1>1 DEF Calm
<1>3. Untouched
  BY DEF Untouched, SameSignals
<1> QED BY <1>2, <1>3, CalmHonest

LEMMA MutexCreateHonest ==
  ASSUME IInv, IInv', OInv, NEW t \in Task, NEW m \in Mutex, MutexCreate(t, m)
  PROVE  Honest
<1>1. /\ pc' = pc /\ arg' = arg /\ k \in Tables /\ k.pOwner[m] = Free
      /\ k' = [k EXCEPT !.pOwner[m] = None, !.count[m] = 0, !.waitingList[m] = << >>]
  BY TablesTyped DEF MutexCreate, Stays
<1>2. /\ SameTasks(k', k) /\ k'.mutexList = k.mutexList
      /\ k'.sigsWait = k.sigsWait /\ k'.sigsRecv = k.sigsRecv
      /\ k'.pOwner = [k.pOwner EXCEPT ![m] = None]
      /\ k'.count = [k.count EXCEPT ![m] = 0]
  BY <1>1 DEF SameTasks
<1>3. k.count[m] = 0
  BY <1>1, KernelAssumption DEF OInv, Owners
<1>4. /\ \A x \in Counted \ {m} : k'.count[x] = k.count[x]
      /\ \A x \in Mutex \ {m} : k'.pOwner[x] = k.pOwner[x]
      /\ k'.count[m] = 0
  BY <1>1, <1>2 DEF Tables, Counted
<1>5. SameMutexes
  BY <1>2, <1>3, <1>4 DEF SameMutexes, Counted
<1>6. \A x \in Sem : k'.count[x] = k.count[x]
  BY <1>4, KernelAssumption DEF Counted
<1> QED BY <1>1, <1>2, <1>5, <1>6, TablesHonest

LEMMA MutexDeleteHonest ==
  ASSUME IInv, IInv', OInv, NEW t \in Task, NEW m \in Mutex, MutexDelete(t, m)
  PROVE  Honest
<1>1. /\ pc' = pc /\ arg' = arg /\ k \in Tables /\ k.count[m] = 0
      /\ k' = [k EXCEPT !.pOwner[m] = Free]
  BY TablesTyped DEF MutexDelete, Stays
<1>2. /\ SameTasks(k', k) /\ k'.mutexList = k.mutexList /\ k'.count = k.count
      /\ k'.sigsWait = k.sigsWait /\ k'.sigsRecv = k.sigsRecv
      /\ k'.pOwner = [k.pOwner EXCEPT ![m] = Free]
  BY <1>1 DEF SameTasks
<1>3. \A x \in Mutex \ {m} : k'.pOwner[x] = k.pOwner[x]
  BY <1>1, <1>2 DEF Tables
<1>4. SameMutexes
  BY <1>1, <1>2, <1>3 DEF SameMutexes
<1> QED BY <1>1, <1>2, <1>4, TablesHonest

(* The nesting of a mutex that its owner keeps.                            *)
LEMMA MutexNestedHonest ==
  ASSUME IInv, IInv', OInv, NEW t \in Task, NEW m \in Mutex,
         MutexTakeAgain(t, m) \/ MutexGiveOnce(t, m)
  PROVE  Honest
<1>1. k \in Tables /\ k.count[m] \in Int
  BY TablesTyped DEF Tables, Counted
<1>2. PICK n \in Int : /\ pc' = pc /\ arg' = arg /\ k.count[m] > 0 /\ n > 0
                       /\ k' = [k EXCEPT !.count[m] = n]
  <2>1. CASE MutexTakeAgain(t, m)
    <3> DEFINE n == k.count[m] + 1
    <3>1. Stays /\ k.count[m] > 0 /\ k' = [k EXCEPT !.count[m] = n]
      BY <2>1, <1>1, MutexAssumption DEF MutexTakeAgain
    <3>2. n \in Int /\ n > 0
      BY <1>1, <3>1
    <3> HIDE DEF n
    <3> QED BY <3>1, <3>2 DEF Stays
  <2>2. CASE MutexGiveOnce(t, m)
    <3> DEFINE n == k.count[m] - 1
    <3>1. Stays /\ k.count[m] > 1 /\ k' = [k EXCEPT !.count[m] = n]
      BY <2>2 DEF MutexGiveOnce
    <3>2. n \in Int /\ n > 0 /\ k.count[m] > 0
      BY <1>1, <3>1
    <3> HIDE DEF n
    <3> QED BY <3>1, <3>2 DEF Stays
  <2> QED BY <2>1, <2>2
<1>3. /\ SameTasks(k', k) /\ k'.mutexList = k.mutexList /\ k'.pOwner = k.pOwner
      /\ k'.sigsWait = k.sigsWait /\ k'.sigsRecv = k.sigsRecv
      /\ k'.count = [k.count EXCEPT ![m] = n]
  BY <1>2 DEF SameTasks
<1>4. /\ \A x \in Counted \ {m} : k'.count[x] = k.count[x]
      /\ k'.count[m] = n
  BY <1>1, <1>3 DEF Tables, Counted
<1>5. SameMutexes
  BY <1>2, <1>3, <1>4 DEF SameMutexes, Counted
<1>6. \A x \in Sem : k'.count[x] = k.count[x]
  BY <1>4, KernelAssumption DEF Counted
<1> QED BY <1>2, <1>3, <1>5, <1>6, TablesHonest

(* The mutex that was handed over joins those the task owns.               *)
LEMMA MutexTakeGrantedHonest ==
  ASSUME IInv, IInv', OInv, NEW t \in Task, MutexTakeGranted(t)
  PROVE  Honest
<1> DEFINE l == k.mutexList[t] \cup {arg[t]}
<1>1. /\ Resumes(t, "mutexTake") /\ Returns(t) /\ "DELAYTMO" \notin k.flags[t]
      /\ k' = [k EXCEPT !.mutexList[t] = l]
  BY DEF MutexTakeGranted
<1>2. k.state[t] = "ready" /\ pc[t] = "mutexTake" /\ arg[t] \in Mutex /\ k \in Tables
  BY <1>1, ResumesFacts, TablesTyped DEF IInv, CallsTyped
<1>3. /\ pc'[t] = "run"
      /\ \A a \in Task \ {t} : pc'[a] = pc[a] /\ arg'[a] = arg[a]
  BY <1>1, BlocksTyped DEF Returns, Call
<1>4. k.pOwner[arg[t]] = t /\ k.count[arg[t]] > 0
  BY <1>1, <1>2 DEF OInv, Owners, Settled
<1>5. /\ SameTasks(k', k) /\ k'.pOwner = k.pOwner /\ k'.count = k.count
      /\ k'.sigsWait = k.sigsWait /\ k'.sigsRecv = k.sigsRecv
      /\ k'.mutexList = [k.mutexList EXCEPT ![t] = l]
  BY <1>1 DEF SameTasks
<1>6. /\ k'.mutexList[t] = k.mutexList[t] \cup {arg[t]}
      /\ \A a \in Task \ {t} : k'.mutexList[a] = k.mutexList[a]
  BY <1>2, <1>5 DEF Tables
<1> HIDE DEF l
<1>7. Untouched
  <2>1. \A a \in Task : \/ k'.mutexList[a] \subseteq k.mutexList[a]
                        \/ /\ pc'[a] # "mutexTake"
                           /\ \A m \in k'.mutexList[a] \ k.mutexList[a] :
                                m \in Mutex /\ k.pOwner[m] = a /\ k.count[m] > 0
    BY <1>2, <1>3, <1>4, <1>6
  <2> QED BY <1>5, <2>1 DEF Untouched, SameMutexes, SameSignals
<1>8. \A a \in Task \ {t} : GoesOn(a)
  BY <1>3, <1>5 DEF GoesOn, SameCall, SameWait, SameTasks
<1>9. \A x \in Sem : ~ GrantedTo(t, x)
  BY <1>2, NotGranted
<1> QED BY <1>2, <1>3, <1>5, <1>7, <1>8, <1>9, RunnerHonest DEF SameTasks

(* AALock sees no wait begin or end.                                       *)
LEMMA WaitsStay ==
  ASSUME IInv, IInv', \A a \in Task : GoesOn(a), NEW m \in Mutex
  PROVE  Range(k'.waitingList[m]) = Range(k.waitingList[m])
<1>1. ASSUME NEW a \in Task
      PROVE  k'.state[a] = "mutexWait" /\ k'.objPtr[a] = m
               <=> k.state[a] = "mutexWait" /\ k.objPtr[a] = m
  BY DEF GoesOn, SameWait, Settled, ListWait
<1> QED BY <1>1, LockSees

(* The running task takes a mutex that is free, or gives one that nobody   *)
(* waits for; all the waits go on.                                         *)
LEMMA OwnedHonest ==
  ASSUME IInv, IInv', OInv, \A a \in Task : GoesOn(a),
         NEW t \in Task, pc[t] # "mutexTake", NEW m \in Mutex,
         \A x \in Counted \ {m} : k'.count[x] = k.count[x],
         \A x \in Mutex \ {m} : k'.pOwner[x] = k.pOwner[x],
         \A a \in Task \ {t} : k'.mutexList[a] = k.mutexList[a],
         \/ /\ k.count[m] = 0 /\ k'.count[m] > 0 /\ k'.pOwner[m] = t
            /\ k'.mutexList[t] = k.mutexList[t] \cup {m}
         \/ /\ k.count[m] > 0 /\ k.pOwner[m] = t /\ k'.count[m] = 0
            /\ k'.mutexList[t] = k.mutexList[t] \ {m},
         k'.sigsWait = k.sigsWait, k'.sigsRecv = k.sigsRecv,
         [Lock!Next]_(Lock!vars)
  PROVE  Honest
<1>1. MutexCalls(k, pc, arg) /\ Owners(k, pc, arg)
  BY DEF OInv
<1>2. MutexCalls(k', pc', arg')
  <2> SUFFICES ASSUME NEW a \in Task
               PROVE  /\ k'.state[a] = "mutexWait" => /\ pc'[a] = "mutexTake"
                                                      /\ k'.objPtr[a] = arg'[a]
                                                      /\ "DELAYTMO" \notin k'.flags[a]
                      /\ pc'[a] = "mutexTake" =>
                           k'.state[a] \in {"mutexWait", "none"} \cup Settled
    BY DEF MutexCalls, InCall
  <2> QED BY <1>1 DEF GoesOn, SameCall, SameWait, MutexCalls, InCall, Settled, ListWait
<1>3. Owners(k', pc', arg')
  <2>1. \A x \in Mutex : k'.count[x] # 0 => k'.count[x] > 0 /\ k'.pOwner[x] \in Task
    BY <1>1 DEF Owners, Counted
  <2>2. \A a \in Task : k.mutexList[a] \subseteq Mutex
    BY TablesTyped DEF Tables
  <2>3. ASSUME NEW a \in Task, NEW x \in k'.mutexList[a]
        PROVE  k'.pOwner[x] = a /\ k'.count[x] > 0
    <3>1. \A y \in k.mutexList[a] : k.pOwner[y] = a /\ k.count[y] > 0
      BY <1>1 DEF Owners
    <3>2. CASE x = m
      BY <3>1, <3>2, <2>3
    <3>3. CASE x # m
      BY <3>1, <3>3, <2>2, <2>3 DEF Counted
    <3> QED BY <3>2, <3>3
  <2>4. ASSUME NEW a \in Task, pc'[a] = "mutexTake"
        PROVE  /\ k'.state[a] # "none" => arg'[a] \notin k'.mutexList[a]
               /\ k'.state[a] \in Settled =>
                    ("DELAYTMO" \notin k'.flags[a] <=>
                       k'.pOwner[arg'[a]] = a /\ k'.count[arg'[a]] > 0)
    <3>1. /\ pc[a] = "mutexTake" /\ a # t /\ arg'[a] = arg[a] /\ arg[a] \in Mutex
          /\ k'.mutexList[a] = k.mutexList[a]
      BY <2>4 DEF GoesOn, SameCall, IInv, CallsTyped
    <3>2. /\ k.state[a] # "none" => arg[a] \notin k.mutexList[a]
          /\ k.state[a] \in Settled =>
               ("DELAYTMO" \notin k.flags[a] <=>
                  k.pOwner[arg[a]] = a /\ k.count[arg[a]] > 0)
      BY <1>1, <3>1 DEF Owners
    <3>3. k'.pOwner[arg[a]] = a /\ k'.count[arg[a]] > 0
            <=> k.pOwner[arg[a]] = a /\ k.count[arg[a]] > 0
      BY <3>1 DEF Counted
    <3>4. /\ k'.state[a] # "none" => k.state[a] # "none"
          /\ k'.state[a] \in Settled => k.state[a] \in Settled
          /\ "DELAYTMO" \notin k'.flags[a] <=> "DELAYTMO" \notin k.flags[a]
      BY DEF GoesOn, SameWait, Settled
    <3> QED BY <3>1, <3>2, <3>3, <3>4
  <2> QED BY <2>1, <2>3, <2>4 DEF Owners
<1>4. CalmSems(t)
  BY DEF CalmSems
<1>5. SemsHonest
  <2>1. \A x \in Sem : k'.count[x] = k.count[x]
    BY KernelAssumption DEF Counted
  <2> QED BY <1>4, <2>1, CalmSemsHonest
<1>6. NoSignalMissed'
  <2>1. SameSignals
    BY DEF SameSignals
  <2>2. \A a \in Task : k'.state[a] = "signalWait" =>
          k.state[a] = "signalWait" /\ SameWait(k', k, a)
    BY DEF GoesOn, SameWait, Settled
  <2> QED BY <2>1, <2>2, SignalsKept
<1> QED BY <1>2, <1>3, <1>5, <1>6 DEF Honest, MutexesHonest

(* A function that differs from another in one place.                      *)
LEMMA ExceptOne ==
  ASSUME NEW S, NEW f, NEW g, f = [x \in S |-> f[x]], g = [x \in S |-> g[x]],
         NEW m \in S, NEW v, g[m] = v, \A x \in S \ {m} : g[x] = f[x]
  PROVE  g = [f EXCEPT ![m] = v]
OBVIOUS

(* The mutex m gets the owner o, for AALock.                               *)
LEMMA OwnerSeen ==
  ASSUME NEW m \in Mutex, NEW o,
         \A x \in Counted \ {m} : k'.count[x] = k.count[x],
         \A x \in Mutex \ {m} : k'.pOwner[x] = k.pOwner[x],
         (IF k'.count[m] > 0 THEN k'.pOwner[m] ELSE None) = o
  PROVE  [n \in Mutex |-> IF k'.count[n] > 0 THEN k'.pOwner[n] ELSE None]
           = [[n \in Mutex |-> IF k.count[n] > 0 THEN k.pOwner[n] ELSE None]
                EXCEPT ![m] = o]
<1> DEFINE f == [n \in Mutex |-> IF k.count[n] > 0 THEN k.pOwner[n] ELSE None]
           g == [n \in Mutex |-> IF k'.count[n] > 0 THEN k'.pOwner[n] ELSE None]
<1>1. f = [x \in Mutex |-> f[x]] /\ g = [x \in Mutex |-> g[x]]
  OBVIOUS
<1>2. g[m] = o
  OBVIOUS
<1>3. \A x \in Mutex \ {m} : g[x] = f[x]
  BY DEF Counted
<1> HIDE DEF f, g
<1>4. g = [f EXCEPT ![m] = o]
  BY <1>1, <1>2, <1>3, ExceptOne
<1> QED BY <1>4 DEF f, g

(* A task that runs takes a mutex nobody waits for.                        *)
LEMMA MutexTakeFreeHonest ==
  ASSUME IInv, IInv', OInv, NEW t \in Task, NEW m \in Mutex, MutexTakeFree(t, m)
  PROVE  Honest
<1> DEFINE l == k.mutexList[t] \cup {m}
<1>1. /\ Runs(t) /\ pc' = pc /\ arg' = arg /\ k \in Tables /\ k.count[m] = 0
      /\ k' = [k EXCEPT !.count[m] = 1, !.pOwner[m] = t, !.mutexList[t] = l]
  BY TablesTyped DEF MutexTakeFree, Stays
<1>2. t = k.cur /\ pc[t] = "run" /\ m \in SyncObj
  BY <1>1, RunsFacts DEF SyncObj
<1>3. /\ SameTasks(k', k) /\ k'.cur = k.cur
      /\ k'.sigsWait = k.sigsWait /\ k'.sigsRecv = k.sigsRecv
      /\ k'.pOwner = [k.pOwner EXCEPT ![m] = t]
      /\ k'.count = [k.count EXCEPT ![m] = 1]
      /\ k'.mutexList = [k.mutexList EXCEPT ![t] = l]
  BY <1>1 DEF SameTasks
<1>4. /\ \A x \in Counted \ {m} : k'.count[x] = k.count[x]
      /\ \A x \in Mutex \ {m} : k'.pOwner[x] = k.pOwner[x]
      /\ \A a \in Task \ {t} : k'.mutexList[a] = k.mutexList[a]
      /\ k'.count[m] = 1 /\ k'.pOwner[m] = t
      /\ k'.mutexList[t] = k.mutexList[t] \cup {m}
  BY <1>1, <1>3 DEF Tables, Counted
<1> HIDE DEF l
<1>5. \A a \in Task : GoesOn(a)
  BY <1>1, <1>3 DEF GoesOn, SameCall, SameWait, SameTasks
<1>6. Lock!Take(m)
  <2>1. Range(k.waitingList[m]) = {}
    <3>1. Waits(k)
      BY TablesTyped
    <3>2. \A a \in Task : ~ (k.state[a] = "mutexWait" /\ k.objPtr[a] = m)
      BY <1>1, <3>1 DEF Waits
    <3> QED BY <3>2, LockSees
  <2>2. \A n \in Mutex : Range(k'.waitingList[n]) = Range(k.waitingList[n])
    BY <1>5, WaitsStay
  <2>3. [n \in Mutex |-> IF k'.count[n] > 0 THEN k'.pOwner[n] ELSE None]
          = [[n \in Mutex |-> IF k.count[n] > 0 THEN k.pOwner[n] ELSE None]
               EXCEPT ![m] = k.cur]
    BY <1>2, <1>4, OwnerSeen
  <2> QED BY <1>1, <1>3, <2>1, <2>2, <2>3 DEF Lock!Take
<1>7. [Lock!Next]_(Lock!vars)
  BY <1>6 DEF Lock!Next
<1> QED BY <1>1, <1>2, <1>3, <1>4, <1>5, <1>7, OwnedHonest

(* The running task waits for a mutex another task owns.                   *)
LEMMA MutexTakeWaitHonest ==
  ASSUME IInv, IInv', OInv, NEW t \in Task, NEW m \in Mutex, NEW d \in TakeDelays,
         MutexTakeWait(t, m, d)
  PROVE  Honest
<1>1. /\ Runs(t) /\ Blocks(t, "mutexTake", m) /\ m \in SyncObj
      /\ k.count[m] > 0 /\ k.pOwner[m] \in Task \ {t}
  BY DEF MutexTakeWait, SyncObj
<1>2. t = k.cur /\ k.state[t] = "ready" /\ pc[t] = "run" /\ k \in Tables
  BY <1>1, RunsFacts, TablesTyped
<1>3. /\ pc'[t] = "mutexTake" /\ arg'[t] = m
      /\ \A a \in Task \ {t} : pc'[a] = pc[a] /\ arg'[a] = arg[a]
  BY <1>1, BlocksTyped DEF Call
<1>4. /\ Slept(k', k, t, "mutexWait") /\ k'.objPtr[t] = m
      /\ k'.flags = [k.flags EXCEPT ![t] = @ \ {"DELAYTMO"}]
  BY MutexTakeWaitKept
<1>5. /\ SameHeld(k', k) /\ k'.state[t] = "mutexWait"
      /\ \A a \in Task \ {t} : SameWait(k', k, a)
  <2>1. \A a \in Task \ {t} : k'.flags[a] = k.flags[a]
    BY <1>2, <1>4 DEF Tables
  <2> QED BY <1>4, <2>1 DEF Slept, SameObjects, SameHeld, SameWait
<1>6. "DELAYTMO" \notin k'.flags[t]
  BY <1>2, <1>4 DEF Tables
<1>7. \A a \in Task \ {t} : GoesOn(a)
  BY <1>3, <1>5 DEF GoesOn, SameCall
<1>8. MutexCalls(k, pc, arg) /\ Owners(k, pc, arg)
  BY DEF OInv
<1>9. MutexCalls(k', pc', arg')
  <2> SUFFICES ASSUME NEW a \in Task
               PROVE  /\ k'.state[a] = "mutexWait" => /\ pc'[a] = "mutexTake"
                                                      /\ k'.objPtr[a] = arg'[a]
                                                      /\ "DELAYTMO" \notin k'.flags[a]
                      /\ pc'[a] = "mutexTake" =>
                           k'.state[a] \in {"mutexWait", "none"} \cup Settled
    BY DEF MutexCalls, InCall
  <2>1. CASE a = t
    BY <2>1, <1>3, <1>4, <1>5, <1>6
  <2>2. CASE a # t
    BY <2>2, <1>7, <1>8
       DEF GoesOn, SameCall, SameWait, MutexCalls, InCall, Settled, ListWait
  <2> QED BY <2>1, <2>2
<1>10. Owners(k', pc', arg')
  <2>1. k'.mutexList = k.mutexList /\ k'.pOwner = k.pOwner /\ k'.count = k.count
    BY <1>5 DEF SameHeld
  <2>2. m \notin k.mutexList[t]
    BY <1>1, <1>8 DEF Owners
  <2>3. ASSUME NEW a \in Task, pc'[a] = "mutexTake"
        PROVE  /\ k'.state[a] # "none" => arg'[a] \notin k'.mutexList[a]
               /\ k'.state[a] \in Settled =>
                    ("DELAYTMO" \notin k'.flags[a] <=>
                       k'.pOwner[arg'[a]] = a /\ k'.count[arg'[a]] > 0)
    <3>1. CASE a = t
      BY <3>1, <1>3, <1>5, <2>1, <2>2 DEF Settled
    <3>2. CASE a # t
      <4>1. "DELAYTMO" \notin k'.flags[a] <=> "DELAYTMO" \notin k.flags[a]
        BY <3>2, <1>5 DEF SameWait
      <4>2. /\ k'.state[a] # "none" => k.state[a] # "none"
            /\ k'.state[a] \in Settled => k.state[a] \in Settled
        BY <3>2, <1>5 DEF SameWait, Settled
      <4>3. pc[a] = "mutexTake" /\ arg'[a] = arg[a]
        BY <3>2, <1>3, <2>3
      <4> QED BY <4>1, <4>2, <4>3, <2>1, <1>8 DEF Owners
    <3> QED BY <3>1, <3>2
  <2> QED BY <1>8, <2>1, <2>3 DEF Owners
<1>11. Lock!Wait(m)
  <2>1. k'.cur \in Task \ {t}
    <3>1. k'.cur \in Task
      BY LockSees
    <3>2. k'.state[k'.cur] = "ready"
      BY DEF IInv, Running
    <3> QED BY <1>5, <3>1, <3>2
  <2>2. k.pOwner[m] # None
    BY <1>1, KernelAssumption
  <2>3. ASSUME NEW n \in Mutex
        PROVE  /\ t \notin Range(k.waitingList[n])
               /\ Range(k'.waitingList[n])
                    = IF n = m THEN Range(k.waitingList[n]) \cup {t}
                               ELSE Range(k.waitingList[n])
    <3>1. ASSUME NEW a \in Task
          PROVE  k'.state[a] = "mutexWait" /\ k'.objPtr[a] = n
                   <=> (k.state[a] = "mutexWait" /\ k.objPtr[a] = n) \/ (a = t /\ n = m)
      <4>1. CASE a = t
        BY <4>1, <1>2, <1>4, <1>5
      <4>2. CASE a # t
        BY <4>2, <1>7 DEF GoesOn, SameWait, Settled, ListWait
      <4> QED BY <4>1, <4>2
    <3> DEFINE Now  == {a \in Task : k.state[a] = "mutexWait" /\ k.objPtr[a] = n}
               Then == {a \in Task : k'.state[a] = "mutexWait" /\ k'.objPtr[a] = n}
    <3>2. Then = IF n = m THEN Now \cup {t} ELSE Now
      BY <3>1
    <3>3. t \notin Now
      BY <1>2
    <3>4. Range(k.waitingList[n]) = Now /\ Range(k'.waitingList[n]) = Then
      BY LockSees
    <3> HIDE DEF Now, Then
    <3> QED BY <3>2, <3>3, <3>4
  <2>4. [n \in Mutex |-> Range(k'.waitingList[n])]
          = [[n \in Mutex |-> Range(k.waitingList[n])]
               EXCEPT ![m] = Range(k.waitingList[m]) \cup {t}]
    BY <2>3
  <2>5. [n \in Mutex |-> IF k'.count[n] > 0 THEN k'.pOwner[n] ELSE None]
          = [n \in Mutex |-> IF k.count[n] > 0 THEN k.pOwner[n] ELSE None]
    BY <1>5 DEF SameHeld
  <2> QED BY <1>1, <1>2, <2>1, <2>2, <2>3, <2>4, <2>5 DEF Lock!Wait
<1>12. MutexesHonest
  BY <1>9, <1>10, <1>11 DEF MutexesHonest, Lock!Next
<1>13. SemsHonest
  <2>1. \A x \in Sem : ~ GrantedTo(t, x)
    BY <1>2, NotGranted
  <2>2. CalmSems(t)
    BY <1>2, <1>3, <1>5, <1>7, <2>1 DEF CalmSems, AwayFromSems
  <2> QED BY <1>5, <2>2, CalmSemsHonest DEF SameHeld
<1>14. NoSignalMissed'
  <2>1. SameSignals
    BY <1>5 DEF SameSignals, SameHeld
  <2>2. \A a \in Task : k'.state[a] = "signalWait" =>
          k.state[a] = "signalWait" /\ SameWait(k', k, a)
    BY <1>5 DEF SameWait, Settled
  <2> QED BY <2>1, <2>2, SignalsKept
<1> QED BY <1>12, <1>13, <1>14 DEF Honest

(* What HandOver does: the first waiter owns the mutex and waits no more,  *)
(* or nobody waits for it and it is free.                                  *)
LEMMA HandOverFacts ==
  ASSUME NEW s, NEW T, Running(s, T), NEW m \in Mutex
  PROVE  LET u == HandOver(s, m)
             h == Head(s.waitingList[m]) IN
         /\ u.mutexList = s.mutexList
         /\ u.sigsWait = s.sigsWait /\ u.sigsRecv = s.sigsRecv
         /\ \A x \in Counted \ {m} : u.count[x] = s.count[x]
         /\ \A x \in Mutex \ {m} : u.pOwner[x] = s.pOwner[x]
         /\ s.waitingList[m] = << >> =>
              /\ \A a \in Task : SameWait(u, s, a)
              /\ u.count[m] = 0
         /\ s.waitingList[m] # << >> =>
              /\ h \in Task /\ s.state[h] = "mutexWait" /\ s.objPtr[h] = m
              /\ u.state[h] \in Settled /\ u.flags[h] = s.flags[h] \ {"SUSPEND"}
              /\ \A a \in Task \ {h} : SameWait(u, s, a)
              /\ u.count[m] = s.count[m] /\ u.pOwner[m] = h
<1>1. s \in Tables /\ m \in SyncObj /\ m \in Counted
  BY DEF Running, Whole, Lists, SyncObj, Counted
<1>2. CASE s.waitingList[m] # << >>
  <2> DEFINE h == Head(s.waitingList[m])
             v == WakeFirst(s, m)
             u == [v EXCEPT !.pOwner[m] = h]
  <2>1. HandOver(s, m) = u
    BY <1>2 DEF HandOver
  <2>2. h \in Task /\ s.state[h] = "mutexWait" /\ s.objPtr[h] = m
    BY <1>1, <1>2, HeadWaits
  <2>3. Running(v, T) /\ Keeps(v, s) /\ Woken(v, s, h, {})
    BY <1>1, <1>2, WakeFirstRuns
  <2> HIDE DEF v, h
  <2>4. /\ SameHeld(v, s)
        /\ \A a \in Task \ {h} : SameWait(v, s, a)
        /\ v.state[h] \in Settled
        /\ v.flags[h] = (s.flags[h] \cup {}) \ {"SUSPEND"}
    BY <1>1, <2>2, <2>3, WokenFacts
  <2>5. /\ u.mutexList = v.mutexList /\ u.count = v.count
        /\ u.sigsWait = v.sigsWait /\ u.sigsRecv = v.sigsRecv
        /\ u.state = v.state /\ u.flags = v.flags /\ u.objPtr = v.objPtr
        /\ u.pOwner = [v.pOwner EXCEPT ![m] = h]
    OBVIOUS
  <2> HIDE DEF u
  <2>6. u.pOwner[m] = h /\ \A x \in Mutex \ {m} : u.pOwner[x] = s.pOwner[x]
    BY <1>1, <2>4, <2>5 DEF SameHeld, Tables
  <2>7. \A a \in Task \ {h} : SameWait(u, s, a)
    BY <2>4, <2>5 DEF SameWait
  <2> QED BY <1>2, <2>1, <2>2, <2>4, <2>5, <2>6, <2>7 DEF SameHeld, h
<1>3. CASE s.waitingList[m] = << >>
  <2> DEFINE u == [s EXCEPT !.count[m] = 0, !.pOwner[m] = None]
  <2>1. HandOver(s, m) = u
    BY <1>3 DEF HandOver
  <2>2. /\ u.mutexList = s.mutexList
        /\ u.sigsWait = s.sigsWait /\ u.sigsRecv = s.sigsRecv
        /\ u.state = s.state /\ u.flags = s.flags /\ u.objPtr = s.objPtr
        /\ u.count = [s.count EXCEPT ![m] = 0]
        /\ u.pOwner = [s.pOwner EXCEPT ![m] = None]
    OBVIOUS
  <2> HIDE DEF u
  <2>3. /\ \A x \in Counted \ {m} : u.count[x] = s.count[x]
        /\ \A x \in Mutex \ {m} : u.pOwner[x] = s.pOwner[x]
        /\ u.count[m] = 0
    BY <1>1, <2>2 DEF Tables
  <2>4. \A a \in Task : SameWait(u, s, a)
    BY <2>2 DEF SameWait
  <2> QED BY <1>3, <2>1, <2>2, <2>3, <2>4
<1> QED BY <1>2, <1>3

(* The mutex that t gives goes to h, which waited for it and is told so.   *)
LEMMA HandedHonest ==
  ASSUME IInv, IInv', OInv, pc' = pc, arg' = arg,
         NEW t \in Task, t = k.cur, pc[t] # "mutexTake",
         NEW m \in Mutex, k.pOwner[m] = t, k.count[m] > 0, k'.count = k.count,
         NEW h \in Task, k'.pOwner[m] = h,
         \A x \in Mutex \ {m} : k'.pOwner[x] = k.pOwner[x],
         \A a \in Task \ {t} : k'.mutexList[a] = k.mutexList[a],
         k'.mutexList[t] = k.mutexList[t] \ {m},
         k.state[h] = "mutexWait", k.objPtr[h] = m, k'.state[h] \in Settled,
         k'.flags[h] = k.flags[h] \ {"SUSPEND"},
         \A a \in Task \ {h} : SameWait(k', k, a),
         k'.sigsWait = k.sigsWait, k'.sigsRecv = k.sigsRecv
  PROVE  Honest
<1>1. MutexCalls(k, pc, arg) /\ Owners(k, pc, arg)
  BY DEF OInv
<1>2. pc[h] = "mutexTake" /\ arg[h] = m /\ "DELAYTMO" \notin k.flags[h] /\ h # t
  BY <1>1 DEF MutexCalls, InCall
<1>3. \A a \in Task \ {h} : GoesOn(a)
  BY DEF GoesOn, SameCall
<1>4. MutexCalls(k', pc', arg')
  <2> SUFFICES ASSUME NEW a \in Task
               PROVE  /\ k'.state[a] = "mutexWait" => /\ pc'[a] = "mutexTake"
                                                      /\ k'.objPtr[a] = arg'[a]
                                                      /\ "DELAYTMO" \notin k'.flags[a]
                      /\ pc'[a] = "mutexTake" =>
                           k'.state[a] \in {"mutexWait", "none"} \cup Settled
    BY DEF MutexCalls, InCall
  <2>1. CASE a = h
    BY <2>1 DEF Settled
  <2>2. CASE a # h
    BY <2>2, <1>1 DEF SameWait, MutexCalls, InCall, Settled, ListWait
  <2> QED BY <2>1, <2>2
<1>5. Owners(k', pc', arg')
  <2>1. \A x \in Mutex : k'.count[x] # 0 => k'.count[x] > 0 /\ k'.pOwner[x] \in Task
    BY <1>1 DEF Owners
  <2>2. \A a \in Task : k.mutexList[a] \subseteq Mutex
    BY TablesTyped DEF Tables
  <2>3. ASSUME NEW a \in Task, NEW x \in k'.mutexList[a]
        PROVE  k'.pOwner[x] = a /\ k'.count[x] > 0
    <3>1. \A y \in k.mutexList[a] : k.pOwner[y] = a /\ k.count[y] > 0
      BY <1>1 DEF Owners
    <3>2. x # m /\ x \in k.mutexList[a]
      BY <2>3, <3>1
    <3> QED BY <2>2, <3>1, <3>2
  <2>4. ASSUME NEW a \in Task, pc[a] = "mutexTake"
        PROVE  /\ k'.state[a] # "none" => arg[a] \notin k'.mutexList[a]
               /\ k'.state[a] \in Settled =>
                    ("DELAYTMO" \notin k'.flags[a] <=>
                       k'.pOwner[arg[a]] = a /\ k'.count[arg[a]] > 0)
    <3>1. arg[a] \in Mutex /\ a # t /\ k'.mutexList[a] = k.mutexList[a]
      BY <2>4 DEF IInv, CallsTyped
    <3>2. k.state[a] # "none" => arg[a] \notin k.mutexList[a]
      BY <1>1, <2>4 DEF Owners
    <3>3. CASE a = h
      BY <1>2, <3>1, <3>2, <3>3
    <3>4. CASE a # h
      <4>1. "DELAYTMO" \notin k'.flags[a] <=> "DELAYTMO" \notin k.flags[a]
        BY <3>4 DEF SameWait
      <4>2. /\ k'.state[a] # "none" => k.state[a] # "none"
            /\ k'.state[a] \in Settled => k.state[a] \in Settled
        BY <3>4 DEF SameWait, Settled
      <4>3. k.state[a] \in Settled =>
              ("DELAYTMO" \notin k.flags[a] <=>
                 k.pOwner[arg[a]] = a /\ k.count[arg[a]] > 0)
        BY <1>1, <2>4 DEF Owners
      <4>4. k'.pOwner[arg[a]] = a <=> k.pOwner[arg[a]] = a
        BY <3>1, <3>4
      <4> QED BY <3>1, <3>2, <4>1, <4>2, <4>3, <4>4
    <3> QED BY <3>3, <3>4
  <2> QED BY <2>1, <2>3, <2>4 DEF Owners
<1>6. Lock!HandOver(m, h)
  <2>1. k'.cur \in Task
    BY LockSees
  <2>2. h \in Range(k.waitingList[m])
    BY LockSees
  <2>3. ASSUME NEW n \in Mutex
        PROVE  Range(k'.waitingList[n])
                 = IF n = m THEN Range(k.waitingList[n]) \ {h}
                            ELSE Range(k.waitingList[n])
    <3>1. ASSUME NEW a \in Task
          PROVE  k'.state[a] = "mutexWait" /\ k'.objPtr[a] = n
                   <=> k.state[a] = "mutexWait" /\ k.objPtr[a] = n /\ a # h
      <4>1. CASE a = h
        BY <4>1 DEF Settled
      <4>2. CASE a # h
        BY <4>2 DEF SameWait, Settled, ListWait
      <4> QED BY <4>1, <4>2
    <3> DEFINE Now  == {a \in Task : k.state[a] = "mutexWait" /\ k.objPtr[a] = n}
               Then == {a \in Task : k'.state[a] = "mutexWait" /\ k'.objPtr[a] = n}
    <3>2. Then = Now \ {h}
      BY <3>1
    <3>3. h \in Now <=> n = m
      OBVIOUS
    <3>4. Range(k.waitingList[n]) = Now /\ Range(k'.waitingList[n]) = Then
      BY LockSees
    <3> HIDE DEF Now, Then
    <3> QED BY <3>2, <3>3, <3>4
  <2>4. [n \in Mutex |-> Range(k'.waitingList[n])]
          = [[n \in Mutex |-> Range(k.waitingList[n])]
               EXCEPT ![m] = Range(k.waitingList[m]) \ {h}]
    BY <2>3
  <2>5. [n \in Mutex |-> IF k'.count[n] > 0 THEN k'.pOwner[n] ELSE None]
          = [[n \in Mutex |-> IF k.count[n] > 0 THEN k.pOwner[n] ELSE None]
               EXCEPT ![m] = h]
    BY OwnerSeen
  <2> QED BY <2>1, <2>2, <2>4, <2>5 DEF Lock!HandOver
<1>7. MutexesHonest
  BY <1>4, <1>5, <1>6 DEF MutexesHonest, Lock!Next
<1>8. SemsHonest
  <2>1. \A x \in Sem : ~ GrantedTo(h, x)
    BY <1>2, NotGranted
  <2>2. CalmSems(h)
    BY <1>2, <1>3, <2>1 DEF CalmSems, AwayFromSems, Settled
  <2> QED BY <2>2, CalmSemsHonest
<1>9. NoSignalMissed'
  <2>1. SameSignals
    BY DEF SameSignals
  <2>2. \A a \in Task : k'.state[a] = "signalWait" =>
          k.state[a] = "signalWait" /\ SameWait(k', k, a)
    BY DEF SameWait, Settled
  <2> QED BY <2>1, <2>2, SignalsKept
<1> QED BY <1>7, <1>8, <1>9 DEF Honest

(* aaMutexGive of the last level.                                          *)
LEMMA MutexGiveHonest ==
  ASSUME IInv, IInv', OInv, NEW t \in Task, NEW m \in Mutex, MutexGive(t, m)
  PROVE  Honest
<1> DEFINE T == TimedCalls(pc)
           l == k.mutexList[t] \ {m}
           s == [k EXCEPT !.mutexList[t] = l]
           v == NewPrio(s, t)
           u == HandOver(v, m)
           h == Head(v.waitingList[m])
<1>1. Runs(t) /\ CalledFromTask(u) /\ k.pOwner[m] = t /\ k.count[m] = 1
  BY DEF MutexGive
<1>2. /\ k \in Tables /\ Running(k, T) /\ Waits(k) /\ k.basePriority[Idle] = 0
      /\ t = k.cur /\ pc[t] = "run"
  BY <1>1, TablesTyped, RunsFacts
<1>3. l \in SUBSET Mutex
  BY <1>2 DEF Tables
<1>4. s \in Tables
  BY <1>2, <1>3, MutexListTyped
<1>5. /\ Unmoved(s, k) /\ s.basePriority = k.basePriority
      /\ s.zombies = k.zombies /\ s.freeTcb = k.freeTcb
      /\ s.pOwner = k.pOwner /\ s.count = k.count /\ s.semUsed = k.semUsed
      /\ s.state = k.state /\ s.flags = k.flags /\ s.objPtr = k.objPtr
      /\ s.sigsWait = k.sigsWait /\ s.sigsRecv = k.sigsRecv
      /\ s.mutexList = [k.mutexList EXCEPT ![t] = l]
  BY DEF Unmoved
<1>6. /\ s.mutexList[t] = k.mutexList[t] \ {m}
      /\ \A a \in Task \ {t} : s.mutexList[a] = k.mutexList[a]
  BY <1>2, <1>5 DEF Tables
<1> HIDE DEF s, T
<1>7. Running(s, T)
  <2>1. Waits(s)
    BY <1>2, <1>5 DEF Waits, Unmoved
  <2> QED BY <1>2, <1>4, <1>5, <2>1, UnmovedRunning
<1>8. Running(v, T) /\ SameObjects(v, s) /\ SameTasks(v, s)
  BY <1>7, NewPrioRuns DEF SameRest
<1> HIDE DEF v, l
<1>9. Running(u, T)
  BY <1>8, HandOverRuns
<1>10. /\ u.mutexList = v.mutexList
       /\ u.sigsWait = v.sigsWait /\ u.sigsRecv = v.sigsRecv
       /\ \A x \in Counted \ {m} : u.count[x] = v.count[x]
       /\ \A x \in Mutex \ {m} : u.pOwner[x] = v.pOwner[x]
       /\ v.waitingList[m] = << >> =>
            /\ \A a \in Task : SameWait(u, v, a)
            /\ u.count[m] = 0
       /\ v.waitingList[m] # << >> =>
            /\ h \in Task /\ v.state[h] = "mutexWait" /\ v.objPtr[h] = m
            /\ u.state[h] \in Settled /\ u.flags[h] = v.flags[h] \ {"SUSPEND"}
            /\ \A a \in Task \ {h} : SameWait(u, v, a)
            /\ u.count[m] = v.count[m] /\ u.pOwner[m] = h
  BY <1>8, HandOverFacts
<1> HIDE DEF u, h
<1>11. SameObjects(k', u) /\ SameTasks(k', u) /\ pc' = pc /\ arg' = arg
  BY <1>1, <1>9, CalledSame DEF T
<1>12. /\ \A x \in Counted \ {m} : k'.count[x] = k.count[x]
       /\ \A x \in Mutex \ {m} : k'.pOwner[x] = k.pOwner[x]
       /\ \A a \in Task \ {t} : k'.mutexList[a] = k.mutexList[a]
       /\ k'.mutexList[t] = k.mutexList[t] \ {m}
       /\ k'.sigsWait = k.sigsWait /\ k'.sigsRecv = k.sigsRecv
  BY <1>5, <1>6, <1>8, <1>10, <1>11 DEF SameObjects
<1>13. \A a \in Task : SameWait(u, v, a) => SameWait(k', k, a)
  BY <1>5, <1>8, <1>11 DEF SameWait, SameTasks
<1>14. CASE v.waitingList[m] = << >>
  <2>1. \A a \in Task : GoesOn(a)
    BY <1>10, <1>11, <1>13, <1>14 DEF GoesOn, SameCall
  <2>2. k'.count[m] = 0
    BY <1>10, <1>11, <1>14 DEF SameObjects
  <2>3. Range(k.waitingList[m]) = {}
    <3>1. m \in SyncObj
      BY DEF SyncObj
    <3>2. \A a \in Task : v.state[a] \in ListWait => v.objPtr[a] # m
      BY <1>8, <1>14, <3>1, NobodyWaits
    <3>3. \A a \in Task : ~ (k.state[a] = "mutexWait" /\ k.objPtr[a] = m)
      BY <1>5, <1>8, <3>2 DEF SameTasks, ListWait
    <3> QED BY <3>3, LockSees
  <2>4. Lock!Give(m)
    <3>1. \A n \in Mutex : Range(k'.waitingList[n]) = Range(k.waitingList[n])
      BY <2>1, WaitsStay
    <3>2. [n \in Mutex |-> IF k'.count[n] > 0 THEN k'.pOwner[n] ELSE None]
            = [[n \in Mutex |-> IF k.count[n] > 0 THEN k.pOwner[n] ELSE None]
                 EXCEPT ![m] = None]
      BY <1>12, <2>2, OwnerSeen
    <3>3. k'.cur \in Task
      BY LockSees
    <3> QED BY <1>1, <1>2, <2>3, <3>1, <3>2, <3>3 DEF Lock!Give
  <2>5. [Lock!Next]_(Lock!vars)
    BY <2>4 DEF Lock!Next
  <2>6. k.count[m] > 0
    BY <1>1
  <2> QED BY <1>1, <1>2, <1>12, <2>1, <2>2, <2>5, <2>6, OwnedHonest
<1>15. CASE v.waitingList[m] # << >>
  <2>1. k'.count = k.count
    <3>1. /\ k.count \in [Counted -> Int] /\ k'.count \in [Counted -> Int]
      BY <1>2 DEF Tables, IInv, Running, Whole, Lists
    <3>2. k'.count[m] = k.count[m]
      BY <1>5, <1>8, <1>10, <1>11, <1>15 DEF SameObjects
    <3> QED BY <1>12, <3>1, <3>2
  <2>2. /\ h \in Task /\ k.state[h] = "mutexWait" /\ k.objPtr[h] = m
        /\ k'.state[h] \in Settled /\ k'.flags[h] = k.flags[h] \ {"SUSPEND"}
        /\ k'.pOwner[m] = h
    BY <1>5, <1>8, <1>10, <1>11, <1>15 DEF SameObjects, SameTasks
  <2>3. \A a \in Task \ {h} : SameWait(k', k, a)
    BY <1>10, <1>13, <1>15
  <2>4. k.count[m] > 0
    BY <1>1
  <2> QED BY <1>1, <1>2, <1>11, <1>12, <2>1, <2>2, <2>3, <2>4, HandedHonest
<1> QED BY <1>14, <1>15

LEMMA MutexNextHonest ==
  ASSUME IInv, IInv', OInv, MutexNext
  PROVE  Honest
BY MutexCreateHonest, MutexDeleteHonest, MutexTakeFreeHonest, MutexNestedHonest,
   MutexTakeWaitHonest, MutexGiveHonest, MutexTakeTimedOutHonest, MutexTakeGrantedHonest
   DEF MutexNext

-----------------------------------------------------------------------------
(* Every step, and the start.                                              *)

(* Every action is Honest.                                                 *)
LEMMA NextHonest ==
  ASSUME IInv, IInv', OInv, [Next]_vars
  PROVE  Honest
<1>1. CASE UNCHANGED vars
  <2>1. k' = k /\ pc' = pc /\ arg' = arg
    BY <1>1 DEF vars
  <2>2. Quiet(k', k)
    BY <2>1 DEF Quiet, SameHeld, SameWait
  <2> QED BY <2>1, <2>2, QuietHonest
<1>2. CASE Next
  BY <1>2, MutexNextHonest, SemNextHonest, SignalNextHonest, TaskNextHonest,
     TickNextHonest DEF Next
<1> QED BY <1>1, <1>2

(* What the objects start as.                                              *)
LEMMA StartFacts ==
  ASSUME Init
  PROVE  /\ pc = [t \in Task |-> "run"]
         /\ \A t \in Task : k.state[t] \in {"ready", "none"} /\ k.mutexList[t] = {}
         /\ \A m \in Mutex : k.count[m] = 0
<1> DEFINE s == StartTables
<1>1. k = Schedule(s) /\ pc = [t \in Task |-> "run"]
  BY DEF Init
<1>2. /\ \A t \in Task : s.state[t] \in {"ready", "none"} /\ s.mutexList[t] = {}
      /\ \A m \in Mutex : s.count[m] = 0
  BY KernelAssumption DEF StartTables, Counted
<1>3. Whole(s, TimedCalls(pc))
  BY StartRuns
<1> HIDE DEF s
<1>4. SameObjects(k, s) /\ SameTasks(k, s)
  BY <1>1, <1>3, ScheduleRuns
<1> QED BY <1>1, <1>2, <1>4 DEF SameObjects, SameTasks

LEMMA InitHonest ==
  ASSUME Init
  PROVE  OInv
<1>1. MutexCalls(k, pc, arg)
  BY StartFacts DEF MutexCalls, InCall
<1>2. SemCalls(k, pc, arg)
  BY StartFacts DEF SemCalls, InCall
<1>3. Owners(k, pc, arg)
  BY StartFacts DEF Owners
<1>4. NoSignalMissed
  BY StartFacts DEF NoSignalMissed
<1> QED BY <1>1, <1>2, <1>3, <1>4 DEF OInv

-----------------------------------------------------------------------------
(* What follows.                                                           *)

(* The second inductive invariant: the tables and the calls the tasks are  *)
(* in agree on who waits for which object, on whose each mutex is, and on  *)
(* what the tasks that wait no more have been told.                        *)
THEOREM ObjectsHonest == Spec => []OInv
<1>1. Init => OInv
  BY InitHonest
<1>2. IInv /\ IInv' /\ OInv /\ [Next]_vars => OInv'
  BY NextHonest DEF Honest, MutexesHonest, SemsHonest, OInv
<1> QED BY <1>1, <1>2, Invariant, PTL DEF Spec

(* A mutex has one holder at most, even between the give of its last       *)
(* holder and the return of the take it was handed over to.                *)
THEOREM MutexesExclude == Spec => []MutualExclusion
<1>1. IInv /\ OInv => MutualExclusion
  <2> SUFFICES ASSUME IInv, OInv, NEW t \in Task, NEW u \in Task, NEW m \in Mutex
               PROVE  /\ (Holds(t, m) \/ HandedTo(t, m)) /\ (Holds(u, m) \/ HandedTo(u, m))
                           => t = u
                      /\ Holds(t, m) => ~ HandedTo(t, m)
    BY DEF MutualExclusion
  <2>1. Owners(k, pc, arg)
    BY DEF OInv
  <2>2. \A a \in Task : Holds(a, m) \/ HandedTo(a, m) => k.pOwner[m] = a
    BY <2>1 DEF Holds, HandedTo, Owners, Settled
  <2>3. Holds(t, m) => ~ HandedTo(t, m)
    BY <2>1 DEF Holds, HandedTo, Owners
  <2> QED BY <2>2, <2>3
<1> QED BY <1>1, Invariant, ObjectsHonest, PTL

(* A task whose wait for a mutex is over is told that it owns the mutex    *)
(* exactly when it does, whether the give or the time-out came first.      *)
THEOREM TheCauseIsTold == Spec => []WakeCauseTold
<1>1. OInv => WakeCauseTold
  BY DEF OInv, Owners, WakeCauseTold, Settled
<1> QED BY <1>1, ObjectsHonest, PTL

(* No task waits for signals it has received.                              *)
THEOREM NoSignalIsMissed == Spec => []NoSignalMissed
<1>1. OInv => NoSignalMissed
  BY DEF OInv
<1> QED BY <1>1, ObjectsHonest, PTL

(* The mutexes of the kernel implement AALock: one owner at a time, only   *)
(* the running task takes, waits and gives, and a mutex that is given      *)
(* while tasks wait goes to one of them and to nobody else.                *)
THEOREM MutexesAreLocks == Spec => LockSpec
<1>1. Init => IInv
  BY InitHolds
<1>2. IInv /\ Init => Lock!Init
  <2> SUFFICES ASSUME IInv, Init
               PROVE  Lock!Init
    OBVIOUS
  <2>1. \A m \in Mutex : k.count[m] = 0
    BY StartFacts
  <2>2. [m \in Mutex |-> IF k.count[m] > 0 THEN k.pOwner[m] ELSE None]
          = [m \in Mutex |-> None]
    BY <2>1
  <2>3. \A m \in Mutex : Range(k.waitingList[m]) = {}
    <3>1. Running(k, TimedCalls(pc))
      BY TablesTyped
    <3>2. \A t \in Task : k.state[t] # "mutexWait"
      BY StartFacts
    <3> QED BY <3>1, <3>2, WaitingFor
  <2>4. k.cur \in Task
    BY TablesTyped
  <2> QED BY <2>2, <2>3, <2>4 DEF Lock!Init
<1>3. IInv /\ IInv' /\ OInv /\ [Next]_vars => [Lock!Next]_(Lock!vars)
  BY NextHonest DEF Honest, MutexesHonest
<1>4. Lock!Spec <=> LockSpec
  BY DEF LockSpec
<1> QED BY <1>1, <1>2, <1>3, <1>4, Invariant, ObjectsHonest, PTL DEF Spec, Lock!Spec

-----------------------------------------------------------------------------
(* The permits of a semaphore.                                             *)

LEMMA PermitsTyped ==
  ASSUME IInv, NEW x \in Sem
  PROVE  /\ k.count[x] \in Int /\ IsFiniteSet(Granted(x))
         /\ Cardinality(Granted(x)) \in Nat
         /\ Permits(x) = k.count[x] + Cardinality(Granted(x))
<1>1. k.count[x] \in Int
  BY TablesTyped DEF Tables, Counted
<1>2. IsFiniteSet(Granted(x))
  BY KernelAssumption, FS_Subset DEF Granted
<1>3. Cardinality(Granted(x)) \in Nat
  BY <1>2, FS_CardinalityType
<1> QED BY <1>1, <1>2, <1>3 DEF Permits, Granted

LEMMA PermitsTypedNext ==
  ASSUME IInv', NEW x \in Sem
  PROVE  Permits(x)' = k'.count[x] + Cardinality(Granted(x)')
BY DEF Permits, Granted

(* A give adds one permit, to the count or to a waiter, and is no take.    *)
LEMMA GivesOne ==
  ASSUME IInv, IInv', OInv, NEW x \in Sem, Gives(x)
  PROVE  Permits(x)' = Permits(x) + 1 /\ ~ Takes(x)
<1>1. pc' = pc /\ arg' = arg
  BY GiveFacts
<1>2. /\ k.count[x] \in Int /\ IsFiniteSet(Granted(x))
      /\ Cardinality(Granted(x)) \in Nat
      /\ Permits(x) = k.count[x] + Cardinality(Granted(x))
      /\ Permits(x)' = k'.count[x] + Cardinality(Granted(x)')
  BY PermitsTyped, PermitsTypedNext
<1>3. k'.count[x] \in {k.count[x], k.count[x] + 1}
  BY GiveFacts DEF SameHeld
<1>4. ~ Takes(x)
  <2>1. ASSUME NEW t \in Task, SemTakeNow(t, x)
        PROVE  FALSE
    <3>1. k' = [k EXCEPT !.count[x] = k.count[x] - 1]
      BY <2>1 DEF SemTakeNow
    <3>2. k \in Tables /\ x \in Counted
      BY TablesTyped DEF Counted
    <3>3. k'.count[x] = k.count[x] - 1
      BY <3>1, <3>2 DEF Tables
    <3> QED BY <1>2, <1>3, <3>3
  <2>2. ASSUME NEW t \in Task, SemTakeGranted(t)
        PROVE  FALSE
    <3>1. Resumes(t, "semTake") /\ Returns(t)
      BY <2>2 DEF SemTakeGranted
    <3>2. pc[t] = "semTake"
      BY <3>1, ResumesFacts
    <3>3. pc'[t] = "run"
      BY <3>1, BlocksTyped DEF Returns, Call
    <3> QED BY <1>1, <3>2, <3>3
  <2> QED BY <2>1, <2>2 DEF Takes
<1>5. CASE SameTasks(k', k) /\ k'.count[x] = k.count[x] + 1
  <2>1. Granted(x)' = Granted(x)
    BY <1>1, <1>5 DEF Granted, GrantedTo, SameTasks
  <2> QED BY <1>2, <1>4, <1>5, <2>1
<1>6. ASSUME NEW h \in Task,
             k.state[h] = "semWait", k.objPtr[h] = x, SameHeld(k', k),
             k'.state[h] \in Settled, k'.flags[h] = k.flags[h] \ {"SUSPEND"},
             \A a \in Task \ {h} : SameWait(k', k, a)
      PROVE  Permits(x)' = Permits(x) + 1
  <2>1. pc[h] = "semTake" /\ arg[h] = x /\ k.flags[h] \cap Causes = {}
    BY <1>6 DEF OInv, SemCalls, InCall
  <2>2. h \notin Granted(x)
    BY <1>6 DEF Granted, GrantedTo
  <2>3. ASSUME NEW a \in Task
        PROVE  GrantedTo(a, x)' <=> GrantedTo(a, x) \/ a = h
    <3>1. CASE a = h
      <4>1. k'.flags[h] \cap Causes = {}
        BY <1>6, <2>1
      <4> QED BY <3>1, <1>1, <1>6, <2>1, <4>1 DEF GrantedTo, Settled, Causes
    <3>2. CASE a # h
      <4>1. k'.flags[a] \cap Causes = k.flags[a] \cap Causes
        BY <1>6, <3>2 DEF SameWait, Causes
      <4>2. k'.state[a] \in Settled <=> k.state[a] \in Settled
        BY <1>6, <3>2 DEF SameWait
      <4> QED BY <1>1, <3>2, <4>1, <4>2 DEF GrantedTo, Settled, Causes
    <3> QED BY <3>1, <3>2
  <2>4. Granted(x)' = Granted(x) \cup {h}
    BY <2>3 DEF Granted
  <2>5. Cardinality(Granted(x) \cup {h}) = Cardinality(Granted(x)) + 1
    BY <1>2, <2>2, FS_AddElement
  <2> QED BY <1>2, <1>6, <2>4, <2>5 DEF SameHeld
<1> QED BY <1>4, <1>5, <1>6, GiveFacts

(* A take uses one permit, of the count or of those granted.               *)
LEMMA TakesOne ==
  ASSUME IInv, IInv', NEW x \in Sem, Takes(x)
  PROVE  Permits(x)' = Permits(x) - 1
<1>1. /\ k.count[x] \in Int /\ IsFiniteSet(Granted(x))
      /\ Cardinality(Granted(x)) \in Nat
      /\ Permits(x) = k.count[x] + Cardinality(Granted(x))
      /\ Permits(x)' = k'.count[x] + Cardinality(Granted(x)')
  BY PermitsTyped, PermitsTypedNext
<1>2. ASSUME NEW t \in Task, SemTakeNow(t, x)
      PROVE  Permits(x)' = Permits(x) - 1
  <2>1. pc' = pc /\ arg' = arg /\ k' = [k EXCEPT !.count[x] = k.count[x] - 1]
    BY <1>2 DEF SemTakeNow, Stays
  <2>2. k \in Tables /\ x \in Counted
    BY TablesTyped DEF Counted
  <2>3. k'.count[x] = k.count[x] - 1
    BY <2>1, <2>2 DEF Tables
  <2>4. k'.state = k.state /\ k'.flags = k.flags
    BY <2>1
  <2>5. Granted(x)' = Granted(x)
    BY <2>1, <2>4 DEF Granted, GrantedTo
  <2> QED BY <1>1, <2>3, <2>5
<1>3. ASSUME NEW t \in Task, SemTakeGranted(t), arg[t] = x
      PROVE  Permits(x)' = Permits(x) - 1
  <2>1. /\ Resumes(t, "semTake") /\ Returns(t) /\ k' = k
        /\ k.flags[t] \cap {"FLUSH", "DELAYTMO"} = {}
    BY <1>3 DEF SemTakeGranted
  <2>2. k.state[t] = "ready" /\ pc[t] = "semTake"
    BY <2>1, ResumesFacts
  <2>3. /\ pc'[t] = "run"
        /\ \A a \in Task \ {t} : pc'[a] = pc[a] /\ arg'[a] = arg[a]
    BY <2>1, BlocksTyped DEF Returns, Call
  <2>4. t \in Granted(x)
    BY <1>3, <2>1, <2>2 DEF Granted, GrantedTo
  <2>5. ASSUME NEW a \in Task
        PROVE  GrantedTo(a, x)' <=> GrantedTo(a, x) /\ a # t
    BY <2>1, <2>3 DEF GrantedTo
  <2>6. Granted(x)' = Granted(x) \ {t}
    BY <2>5 DEF Granted
  <2>7. Cardinality(Granted(x) \ {t}) = Cardinality(Granted(x)) - 1
    BY <1>1, <2>4, FS_RemoveElement
  <2> QED BY <1>1, <2>1, <2>6, <2>7
<1> QED BY <1>2, <1>3 DEF Takes

(* Permits are neither lost nor made up: each give adds one, each take     *)
(* that succeeds uses one, and nothing in between changes their number but *)
(* a reset, or the deletion of a task that was granted one.                *)
THEOREM PermitsAreConserved == Spec => PermitsConserved
<1> DEFINE Conserved == \A x \in Sem : ~ Resets(x) /\ ~ Orphaned(x) =>
                          Permits(x)' = Permits(x) + (IF Gives(x) THEN 1 ELSE 0)
                                                   - (IF Takes(x) THEN 1 ELSE 0)
<1>1. ASSUME IInv, IInv', OInv, [Next]_vars
      PROVE  Conserved
  <2> SUFFICES ASSUME NEW x \in Sem, ~ Resets(x), ~ Orphaned(x)
               PROVE  Permits(x)' = Permits(x) + (IF Gives(x) THEN 1 ELSE 0)
                                               - (IF Takes(x) THEN 1 ELSE 0)
    OBVIOUS
  <2>1. Permits(x) \in Int
    BY <1>1, PermitsTyped
  <2>2. CASE Gives(x)
    <3>1. Permits(x)' = Permits(x) + 1 /\ ~ Takes(x)
      BY <1>1, <2>2, GivesOne
    <3> QED BY <2>1, <2>2, <3>1
  <2>3. CASE ~ Gives(x) /\ Takes(x)
    <3>1. Permits(x)' = Permits(x) - 1
      BY <1>1, <2>3, TakesOne
    <3> QED BY <2>1, <2>3, <3>1
  <2>4. CASE ~ Gives(x) /\ ~ Takes(x)
    <3>1. k'.count[x] = k.count[x] /\ Granted(x)' = Granted(x)
      BY <1>1, <2>4, NextHonest DEF Honest, SemsHonest
    <3>2. Permits(x)' = Permits(x)
      BY <1>1, <3>1, PermitsTyped, PermitsTypedNext
    <3> QED BY <2>1, <2>4, <3>2
  <2> QED BY <2>2, <2>3, <2>4
<1>2. PermitsConserved <=> [][Conserved]_vars
  BY DEF PermitsConserved
<1> HIDE DEF Conserved
<1> QED BY <1>1, <1>2, Invariant, ObjectsHonest, PTL DEF Spec

-----------------------------------------------------------------------------
(* The order of the waiting lists, and the priorities mutexes lend.        *)

(* Nodes taken out of a list, from its head or its middle, leave it ranked.*)
LEMMA RankedRemove ==
  ASSUME NEW l \in Seq(Task), NoRepeat(l), NEW t,
         NEW value, NEW prio \in [Task -> Prio], Ranked(l, value, prio)
  PROVE  Ranked(ListRemove(l, t), value, prio)
<1> DEFINE v == [a \in Task |-> - prio[a]]
           r == ListRemove(l, t)
<1>1. v \in [Task -> Int]
  BY KernelAssumption DEF Prio
<1>2. Ascending(l, v) /\ \A a \in Range(l) : value[a] = prio[a]
  BY DEF Ranked
<1> HIDE DEF v
<1>3. Range(r) = Range(l) \ {t} /\ Ascending(r, v)
  BY <1>1, <1>2, ListRemoveFacts
<1> HIDE DEF r
<1>4. Ranked(r, value, prio)
  BY <1>2, <1>3 DEF Ranked, v
<1> QED BY <1>4 DEF r

(* A node inserted by aaListAddOrdered_ leaves the list ranked.            *)
LEMMA RankedAdd ==
  ASSUME NEW l \in Seq(Task), NoRepeat(l), NEW t \in Task,
         NEW value, NEW prio \in [Task -> Prio],
         Ranked(l, value, prio), value[t] = prio[t]
  PROVE  Ranked(AddOrdered(l, value, t), value, prio)
<1> DEFINE v == [a \in Task |-> - prio[a]]
           S == {i \in DOMAIN l : value[l[i]] < value[t]}
           r == AddOrdered(l, value, t)
<1>1. v \in [Task -> Int] /\ \A a \in Task : prio[a] \in Nat /\ v[a] = - prio[a]
  BY KernelAssumption DEF Prio
<1>2. Ascending(l, v) /\ \A a \in Range(l) : value[a] = prio[a]
  BY DEF Ranked
<1>3. Range(r) = Range(l) \cup {t}
  BY AddOrderedFacts
<1>4. Len(l) \in Nat /\ DOMAIN l = 1 .. Len(l) /\ \A i \in 1 .. Len(l) : l[i] \in Task
  BY LenProperties, ElementOfSeq
<1>5. \A i \in 1 .. Len(l) : l[i] \in Range(l)
  BY <1>4 DEF Range
<1> HIDE DEF v
<1>6. ASSUME S = {}
      PROVE  Ascending(r, v)
  <2>1. ASSUME NEW a \in Range(l)
        PROVE  v[a] <= v[t]
    <3>1. PICK i \in 1 .. Len(l) : l[i] = a
      BY <1>4 DEF Range
    <3>2. ~ (value[a] < value[t]) /\ value[a] = prio[a] /\ a \in Task
      BY <1>2, <1>4, <1>6, <3>1
    <3>3. prio[a] \in Nat /\ prio[t] \in Nat /\ ~ (prio[a] < prio[t])
      BY <1>1, <3>2
    <3> QED BY <1>1, <3>2, <3>3
  <2>2. Ascending(Append(l, t), v)
    BY <1>1, <1>2, <2>1, AppendFacts
  <2> QED BY <1>6, <2>2 DEF AddOrdered
<1>7. ASSUME S # {}
      PROVE  Ascending(r, v)
  <2> DEFINE i == Least(S)
  <2>1. S \in SUBSET (1 .. Len(l))
    BY <1>4
  <2>2. i \in S /\ \A j \in S : i <= j
    BY <1>4, <1>7, <2>1, LeastFacts
  <2>3. r = InsertAt(l, i, t)
    BY <1>7 DEF AddOrdered
  <2>4. i \in 1 .. Len(l) /\ value[l[i]] < value[t]
    BY <2>1, <2>2
  <2> HIDE DEF r, i
  <2>5. \A j \in 1 .. i - 1 : v[l[j]] <= v[t]
    <3> SUFFICES ASSUME NEW j \in 1 .. i - 1 PROVE v[l[j]] <= v[t]
      OBVIOUS
    <3>1. j \in 1 .. Len(l) /\ ~ (i <= j)
      BY <1>4, <2>4
    <3>2. ~ (value[l[j]] < value[t])
      BY <1>4, <2>2, <3>1
    <3>3. l[j] \in Task /\ value[l[j]] = prio[l[j]]
      BY <1>2, <1>4, <1>5, <3>1
    <3>4. prio[l[j]] \in Nat /\ prio[t] \in Nat /\ ~ (prio[l[j]] < prio[t])
      BY <1>1, <3>2, <3>3
    <3> QED BY <1>1, <3>3, <3>4
  <2>6. v[t] <= v[l[i]]
    <3>1. l[i] \in Task /\ value[l[i]] = prio[l[i]]
      BY <1>2, <1>4, <1>5, <2>4
    <3>2. prio[l[i]] \in Nat /\ prio[t] \in Nat /\ prio[l[i]] < prio[t]
      BY <1>1, <2>4, <3>1
    <3>3. v[l[i]] = - prio[l[i]] /\ v[t] = - prio[t]
      BY <1>1, <3>1
    <3> QED BY <3>2, <3>3
  <2>7. Ascending(InsertAt(l, i, t), v)
    BY <1>1, <1>2, <2>4, <2>5, <2>6, InsertFacts
  <2> QED BY <2>3, <2>7
<1>8. \A a \in Range(r) : value[a] = prio[a]
  BY <1>2, <1>3
<1> HIDE DEF r, S
<1>9. Ranked(r, value, prio)
  BY <1>6, <1>7, <1>8 DEF Ranked, v
<1> QED BY <1>9 DEF r

(* The head taken out leaves the list ranked.                              *)
LEMMA RankedTail ==
  ASSUME NEW l \in Seq(Task), NoRepeat(l), l # << >>,
         NEW value, NEW prio, Ranked(l, value, prio)
  PROVE  Ranked(Tail(l), value, prio)
<1> DEFINE v == [a \in Task |-> - prio[a]]
           r == Tail(l)
<1>1. Ascending(l, v) /\ \A a \in Range(l) : value[a] = prio[a]
  BY DEF Ranked
<1>2. Range(r) \subseteq Range(l) /\ r \in Seq(Task)
  BY TailFacts
<1>3. Len(l) \in Nat \ {0} /\ DOMAIN l = 1 .. Len(l)
  BY LenProperties, EmptySeq
<1>4. Len(r) = Len(l) - 1 /\ \A i \in 1 .. Len(r) : r[i] = l[i + 1]
  BY HeadTailProperties
<1>5. DOMAIN r = 1 .. Len(r)
  BY <1>2, LenProperties
<1> HIDE DEF v, r
<1>6. Ascending(r, v)
  <2> SUFFICES ASSUME NEW i \in DOMAIN r, NEW j \in DOMAIN r, i < j
               PROVE  v[r[i]] <= v[r[j]]
    BY DEF Ascending
  <2>1. i + 1 \in DOMAIN l /\ j + 1 \in DOMAIN l /\ i + 1 < j + 1
    BY <1>3, <1>4, <1>5
  <2>2. r[i] = l[i + 1] /\ r[j] = l[j + 1]
    BY <1>4, <1>5
  <2>3. v[l[i + 1]] <= v[l[j + 1]]
    BY <1>1, <2>1 DEF Ascending
  <2> QED BY <2>2, <2>3
<1>7. Ranked(r, value, prio)
  BY <1>1, <1>2, <1>6 DEF Ranked, v
<1> QED BY <1>7 DEF r

(* So do changes that are about other nodes.                               *)
LEMMA RankedSame ==
  ASSUME NEW l \in Seq(Task), NEW value, NEW prio, NEW w, NEW p,
         Ranked(l, value, prio),
         \A a \in Range(l) : w[a] = value[a] /\ p[a] = prio[a]
  PROVE  Ranked(l, w, p)
<1> DEFINE v == [a \in Task |-> - prio[a]]
           u == [a \in Task |-> - p[a]]
<1>1. DOMAIN l = 1 .. Len(l) /\ \A i \in 1 .. Len(l) : l[i] \in Task
  BY LenProperties, ElementOfSeq
<1>2. \A i \in DOMAIN l : l[i] \in Range(l)
  BY DEF Range
<1>3. \A i \in DOMAIN l : u[l[i]] = v[l[i]]
  BY <1>1, <1>2
<1>4. Ascending(l, v) /\ \A a \in Range(l) : value[a] = prio[a]
  BY DEF Ranked
<1> HIDE DEF u, v
<1>5. Ascending(l, u)
  BY <1>3, <1>4 DEF Ascending
<1> QED BY <1>4, <1>5 DEF Ranked, u

(* The steps of a critical section that touch none of the queues.          *)
LEMMA QueuesUntouched ==
  ASSUME NEW s, NEW t
  PROVE  /\ SameQueues(RemoveReady(s, t), s) /\ SameQueues(AddReady(s, t), s)
         /\ SameQueues(Suspend(s, t), s) /\ SameQueues(PutInList(s, t), s)
         /\ SameQueues(RemoveFromDelayed(s, t), s)
         /\ \A d : SameQueues(AddToDelayed(s, t, d), s)
         /\ SameQueues(Schedule(s), s) /\ SameQueues(ScheduleIf(s), s)
<1>1. SameQueues(RemoveReady(s, t), s)
  BY DEF SameQueues, RemoveReady
<1>2. SameQueues(AddReady(s, t), s) /\ SameQueues(Suspend(s, t), s)
  BY DEF SameQueues, AddReady, Suspend
<1>3. SameQueues(PutInList(s, t), s)
  <2>1. CASE "SUSPEND" \in s.flags[t]
    BY <2>1, <1>2 DEF SameQueues, PutInList
  <2>2. CASE "SUSPEND" \notin s.flags[t]
    BY <2>2, <1>2 DEF SameQueues, PutInList
  <2> QED BY <2>1, <2>2
<1>4. SameQueues(RemoveFromDelayed(s, t), s)
  BY DEF SameQueues, RemoveFromDelayed
<1>5. ASSUME NEW d
      PROVE  SameQueues(AddToDelayed(s, t, d), s)
  <2>1. CASE d = 0
    BY <2>1 DEF SameQueues, AddToDelayed
  <2>2. CASE d # 0
    BY <2>2 DEF SameQueues, AddToDelayed
  <2> QED BY <2>1, <2>2
<1>6. SameQueues(Schedule(s), s)
  BY DEF SameQueues, Schedule
<1>7. SameQueues(ScheduleIf(s), s)
  BY <1>6 DEF SameQueues, ScheduleIf
<1> QED BY <1>1, <1>2, <1>3, <1>4, <1>5, <1>6, <1>7

(* What makes the tables of the two steps the same holds of their sequence.*)
LEMMA QueuesTransitive ==
  ASSUME NEW s, NEW u, NEW v, SameQueues(v, u), SameQueues(u, s)
  PROVE  SameQueues(v, s)
BY DEF SameQueues

(* Order and loans list by list, task by task.                             *)
LEMMA RanksByTask ==
  ASSUME NEW s, NEW u,
         \A x \in Counted : Ranked(s.waitingList[x], s.waitValue, s.priority)
                              => Ranked(u.waitingList[x], u.waitValue, u.priority),
         \A a \in Task : \/ u.priority[a] = u.basePriority[a]
                         \/ LentTo(u, a)
                         \/ /\ u.priority[a] = s.priority[a]
                            /\ u.basePriority[a] = s.basePriority[a]
                            /\ LentTo(s, a) => LentTo(u, a)
  PROVE  KeepsRanks(u, s)
<1>1. Sorted(s) => Sorted(u)
  BY DEF Sorted
<1>2. Lent(s) => Lent(u)
  BY DEF Lent
<1> QED BY <1>1, <1>2 DEF KeepsRanks

(* Steps that leave the waiters alone.                                     *)
LEMMA SameRanksKeep ==
  ASSUME NEW s \in Tables, NEW u, SameRanks(u, s)
  PROVE  KeepsRanks(u, s)
<1>1. ASSUME NEW x \in Counted, Ranked(s.waitingList[x], s.waitValue, s.priority)
      PROVE  Ranked(u.waitingList[x], u.waitValue, u.priority)
  <2>1. s.waitingList[x] \in Seq(Task) /\ u.waitingList[x] = s.waitingList[x]
    BY DEF Tables, Counted, SyncObj, SameRanks
  <2>2. \A a \in Range(s.waitingList[x]) : /\ u.waitValue[a] = s.waitValue[a]
                                           /\ u.priority[a] = s.priority[a]
    BY DEF SameRanks
  <2> QED BY <1>1, <2>1, <2>2, RankedSame
<1>2. ASSUME NEW a \in Task, LentTo(s, a), u.priority[a] = s.priority[a]
      PROVE  LentTo(u, a)
  <2>1. PICK m \in Mutex : /\ s.pOwner[m] = a
                           /\ \E w \in Range(s.waitingList[m]) : s.priority[w] = s.priority[a]
    BY <1>2 DEF LentTo
  <2>2. PICK w \in Range(s.waitingList[m]) : s.priority[w] = s.priority[a]
    BY <2>1
  <2>3. s.waitingList[m] \in Seq(Task) /\ s.waitingList[m] # << >>
    BY <2>2, NoNodes DEF Tables, SyncObj
  <2>4. m \in Counted /\ u.pOwner[m] = s.pOwner[m] /\ u.waitingList[m] = s.waitingList[m]
    BY <2>3 DEF SameRanks, Counted
  <2>5. u.priority[w] = s.priority[w]
    BY <2>2, <2>4 DEF SameRanks
  <2> QED BY <1>2, <2>1, <2>2, <2>4, <2>5 DEF LentTo
<1>3. \A a \in Task : \/ u.priority[a] = u.basePriority[a]
                      \/ /\ u.priority[a] = s.priority[a]
                         /\ u.basePriority[a] = s.basePriority[a]
                         /\ LentTo(s, a) => LentTo(u, a)
  BY <1>2 DEF SameRanks
<1> QED BY <1>1, <1>3, RanksByTask

(* Steps that touch none of the queues.                                    *)
LEMMA SameQueuesKeep ==
  ASSUME NEW s, NEW u, SameQueues(u, s)
  PROVE  KeepsRanks(u, s)
BY DEF SameQueues, KeepsRanks, Sorted, Lent, LentTo

(* What is kept by two steps is kept by their sequence.                    *)
LEMMA RanksTransitive ==
  ASSUME NEW s, NEW u, NEW v, KeepsRanks(v, u), KeepsRanks(u, s)
  PROVE  KeepsRanks(v, s)
BY DEF KeepsRanks

(* The tasks that wait and the owners they wait for keep their priorities. *)
LEMMA ServedSame ==
  ASSUME NEW s, NEW u,
         \A m \in Mutex : \A t \in Range(u.waitingList[m]) :
           /\ t \in Range(s.waitingList[m]) /\ u.priority[t] = s.priority[t]
           /\ u.priority[u.pOwner[m]] = s.priority[s.pOwner[m]]
  PROVE  Served(s) => Served(u)
BY DEF Served

(* Steps that touch none of the queues change no loan.                     *)
LEMMA SameQueuesLoans ==
  ASSUME NEW s, NEW u, SameQueues(u, s)
  PROVE  KeepsLoans(u, s)
<1>1. Served(s) => Served(u)
  BY DEF SameQueues, Served
<1> QED BY <1>1, SameQueuesKeep DEF KeepsLoans

(* One step after the other.                                              *)
LEMMA LoansTransitive ==
  ASSUME NEW s, NEW u, NEW v, KeepsLoans(v, u), KeepsLoans(u, s)
  PROVE  KeepsLoans(v, s)
BY RanksTransitive DEF KeepsLoans

(* Who is in the list of a mutex or of a semaphore waits for it.           *)
LEMMA ListedWaits ==
  ASSUME NEW s, NEW T, Whole(s, T), NEW x \in Counted, NEW t \in Range(s.waitingList[x])
  PROVE  /\ t \in Task /\ InOrderedList(s, t) /\ s.objPtr[t] = x
         /\ x \in Mutex => s.state[t] = "mutexWait"
         /\ x \in Sem => s.state[t] = "semWait"
<1>1. s.waitingList[x] \in Seq(Task) /\ x \in SyncObj
  BY DEF Whole, Lists, Tables, Counted, SyncObj
<1>2. t \in Task
  <2>1. DOMAIN s.waitingList[x] = 1 .. Len(s.waitingList[x])
    BY <1>1, LenProperties
  <2> QED BY <1>1, <2>1, ElementOfSeq DEF Range
<1>3. s.state[t] \in ListWait /\ s.objPtr[t] = x
  BY <1>1, <1>2 DEF Whole, Lists, WaitersAgree
<1>4. x \notin Driver /\ ~ (x \in Mutex /\ x \in Sem)
  BY KernelAssumption DEF Counted
<1>5. /\ s.state[t] = "mutexWait" => s.objPtr[t] \in Mutex
      /\ s.state[t] = "semWait" => s.objPtr[t] \in Sem
      /\ s.state[t] = "ioWait" => s.objPtr[t] \in Driver
  BY <1>2 DEF Whole, Waits
<1> QED BY <1>2, <1>3, <1>4, <1>5 DEF InOrderedList, ListWait, Counted

(* The walk of aaMutexPropagate_ ends at the owner, which does not wait.   *)
LEMMA RaisedOwner ==
  ASSUME NEW s, OwnersRun(s), NEW t \in Task, s.objPtr[t] \in Mutex
  PROVE  Raised(s, t) = {o \in Task : /\ s.priority[o] < s.priority[t]
                                      /\ s.pOwner[s.objPtr[t]] = o}
<1> DEFINE R == {o \in Task : s.priority[o] < s.priority[t] /\ s.pOwner[s.objPtr[t]] = o}
<1>1. {t} \cup {u \in R : s.state[u] = "mutexWait"} = {t}
  BY DEF OwnersRun
<1>2. LowerOwners(s, t, {t}) = R
  BY DEF LowerOwners
<1>3. WalkClosed(s, t, R)
  BY <1>1, <1>2 DEF WalkClosed
<1>4. ASSUME NEW U \in SUBSET Task, WalkClosed(s, t, U)
      PROVE  R \subseteq U
  BY <1>4 DEF WalkClosed, LowerOwners
<1>5. R \in SUBSET Task
  OBVIOUS
<1> HIDE DEF R
<1>6. Raised(s, t) = R
  BY <1>3, <1>4, <1>5 DEF Raised
<1> QED BY <1>6 DEF R

(* aaMutexPropagate_ raises one owner, which is in no waiting list.        *)
LEMMA PropagateQueues ==
  ASSUME NEW s \in Tables, OwnersRun(s), NEW t \in Task, s.objPtr[t] \in Mutex
  PROVE  LET u == Propagate(s, t) IN
         /\ u.waitingList = s.waitingList /\ u.waitValue = s.waitValue
         /\ u.basePriority = s.basePriority /\ u.pOwner = s.pOwner
         /\ u.priority = [a \in Task |->
              IF s.priority[a] < s.priority[t] /\ s.pOwner[s.objPtr[t]] = a
              THEN s.priority[t] ELSE s.priority[a]]
<1> DEFINE up == Raised(s, t)
           p == s.priority[t]
           moved == {o \in up : s.state[o] = "ready"}
           r == CHOOSE o \in moved : TRUE
           prio == [a \in Task |-> IF a \in up THEN p ELSE s.priority[a]]
<1>1. up = {o \in Task : s.priority[o] < p /\ s.pOwner[s.objPtr[t]] = o}
  BY RaisedOwner
<1>2. \A o \in up : ~ InOrderedList(s, o)
  BY <1>1 DEF OwnersRun, InOrderedList
<1> HIDE DEF up, p
<1>3. ASSUME NEW v, v.waitingList = s.waitingList, v.waitValue = s.waitValue,
             v.basePriority = s.basePriority, v.pOwner = s.pOwner,
             v.priority = s.priority, v.state = s.state, v.objPtr = s.objPtr
      PROVE  LET u == Lend(v, up, p) IN
             /\ u.waitingList = s.waitingList /\ u.waitValue = s.waitValue
             /\ u.basePriority = s.basePriority /\ u.pOwner = s.pOwner
             /\ u.priority = prio
  <2>1. \A x \in SyncObj : Relisted(v, up, x) = {}
    BY <1>2, <1>3 DEF Relisted, InOrderedList
  <2>2. Lend(v, up, p).waitingList =
          [x \in SyncObj |-> IF Relisted(v, up, x) = {} THEN v.waitingList[x]
             ELSE Reinsert(v.waitingList[x], v.waitValue,
                           CHOOSE o \in Relisted(v, up, x) : TRUE)]
    BY DEF Lend
  <2>3. Lend(v, up, p).waitingList = [x \in SyncObj |-> v.waitingList[x]]
    BY <2>1, <2>2
  <2>4. s.waitingList = [x \in SyncObj |-> s.waitingList[x]]
    BY DEF Tables
  <2>5. Lend(v, up, p).priority = prio
    BY <1>3 DEF Lend
  <2>6. /\ Lend(v, up, p).waitValue = v.waitValue
        /\ Lend(v, up, p).basePriority = v.basePriority
        /\ Lend(v, up, p).pOwner = v.pOwner
    BY DEF Lend
  <2> QED BY <1>3, <2>3, <2>4, <2>5, <2>6
<1>4. prio = [a \in Task |-> IF s.priority[a] < p /\ s.pOwner[s.objPtr[t]] = a
                             THEN p ELSE s.priority[a]]
  BY <1>1
<1> HIDE DEF prio
<1>5. CASE moved = {}
  <2>1. Propagate(s, t) = Lend(s, up, p)
    BY <1>5 DEF Propagate, up, p
  <2>2. /\ Lend(s, up, p).waitingList = s.waitingList
        /\ Lend(s, up, p).waitValue = s.waitValue
        /\ Lend(s, up, p).basePriority = s.basePriority
        /\ Lend(s, up, p).pOwner = s.pOwner
        /\ Lend(s, up, p).priority = prio
    BY <1>3
  <2> QED BY <2>1, <2>2, <1>4 DEF p
<1>6. CASE moved # {}
  <2> DEFINE v == RemoveReady(s, r)
             w == Lend(v, up, p)
  <2>1. Propagate(s, t) = AddReady(w, r)
    BY <1>6 DEF Propagate, up, p
  <2> HIDE DEF r, moved
  <2>2. SameQueues(v, s) /\ v.state = s.state /\ v.objPtr = s.objPtr
    <3>1. SameQueues(v, s)
      BY QueuesUntouched
    <3>2. v.state = s.state /\ v.objPtr = s.objPtr
      BY DEF RemoveReady
    <3> QED BY <3>1, <3>2
  <2> HIDE DEF v
  <2>3. /\ w.waitingList = s.waitingList
        /\ w.waitValue = s.waitValue
        /\ w.basePriority = s.basePriority
        /\ w.pOwner = s.pOwner
        /\ w.priority = prio
    BY <2>2, <1>3 DEF SameQueues
  <2> HIDE DEF w
  <2>4. SameQueues(AddReady(w, r), w)
    BY QueuesUntouched
  <2> QED BY <2>1, <2>3, <2>4, <1>4 DEF p, SameQueues
<1> QED BY <1>5, <1>6

(* aaMutexNewPrio_ of a task in no waiting list.                           *)
LEMMA NewPrioQueues ==
  ASSUME NEW s \in Tables, NEW t \in Task, ~ InOrderedList(s, t)
  PROVE  LET u == NewPrio(s, t) IN
         /\ u.waitingList = s.waitingList /\ u.waitValue = s.waitValue
         /\ u.basePriority = s.basePriority /\ u.pOwner = s.pOwner
         /\ u.state = s.state
         /\ u.priority = [s.priority EXCEPT ![t] = s.basePriority[t]]
<1> DEFINE u == NewPrio(s, t)
           p == s.basePriority[t]
           moved == [RemoveReady(s, t) EXCEPT !.priority[t] = p]
<1>1. s.priority \in [Task -> Prio] /\ s.state \in [Task -> State]
  BY DEF Tables
<1>2. HighestWaiting(s, t) = p
  <2>1. p \in Nat
    BY KernelAssumption DEF Tables, Prio
  <2> QED BY <2>1, HighestWaitingIsBase
<1> HIDE DEF p
<1>3. CASE p = s.priority[t]
  <2>1. u = [s EXCEPT !.sched = FALSE]
    BY <1>2, <1>3 DEF NewPrio
  <2>2. s.priority = [s.priority EXCEPT ![t] = p]
    BY <1>1, <1>3
  <2> HIDE DEF u
  <2>3. /\ u.waitingList = s.waitingList /\ u.waitValue = s.waitValue
        /\ u.basePriority = s.basePriority /\ u.pOwner = s.pOwner
        /\ u.state = s.state /\ u.priority = s.priority
    BY <2>1
  <2> QED BY <2>2, <2>3 DEF u, p
<1>4. CASE p # s.priority[t] /\ s.state[t] = "ready"
  <2>1. u = [AddReady(moved, t) EXCEPT !.sched = TRUE]
    BY <1>2, <1>4 DEF NewPrio
  <2>2. /\ moved.waitingList = s.waitingList /\ moved.waitValue = s.waitValue
        /\ moved.basePriority = s.basePriority /\ moved.pOwner = s.pOwner
        /\ moved.state = s.state /\ moved.priority = [s.priority EXCEPT ![t] = p]
    BY DEF RemoveReady
  <2> HIDE DEF moved, u
  <2>3. /\ u.waitingList = moved.waitingList /\ u.waitValue = moved.waitValue
        /\ u.basePriority = moved.basePriority /\ u.pOwner = moved.pOwner
        /\ u.state = [moved.state EXCEPT ![t] = "ready"] /\ u.priority = moved.priority
    BY <2>1 DEF AddReady
  <2>4. u.state = s.state
    BY <1>1, <1>4, <2>2, <2>3
  <2> QED BY <2>2, <2>3, <2>4 DEF u, p
<1>5. CASE p # s.priority[t] /\ s.state[t] # "ready"
  <2>1. u = [s EXCEPT !.priority[t] = p, !.sched = FALSE]
    BY <1>2, <1>5 DEF NewPrio
  <2> HIDE DEF u
  <2> QED BY <2>1 DEF u, p
<1> QED BY <1>3, <1>4, <1>5

(* aaMutexNewPrio_ of a waiter sorts it into its list again.               *)
LEMMA NewPrioWaiter ==
  ASSUME NEW s \in Tables, NEW t \in Task, InOrderedList(s, t),
         s.basePriority[t] # s.priority[t]
  PROVE  LET u == NewPrio(s, t)
             value == [s.waitValue EXCEPT ![t] = s.basePriority[t]]
         IN  /\ u.waitingList = [s.waitingList EXCEPT ![s.objPtr[t]] =
                                   Reinsert(@, value, t)]
             /\ u.waitValue = value
             /\ u.basePriority = s.basePriority /\ u.pOwner = s.pOwner
             /\ u.state = s.state
             /\ u.priority = [s.priority EXCEPT ![t] = s.basePriority[t]]
<1> DEFINE u == NewPrio(s, t)
           p == s.basePriority[t]
           value == [s.waitValue EXCEPT ![t] = p]
<1>1. HighestWaiting(s, t) = p
  <2>1. p \in Nat
    BY KernelAssumption DEF Tables, Prio
  <2> QED BY <2>1, HighestWaitingIsBase
<1>2. s.state[t] # "ready"
  BY DEF InOrderedList
<1> HIDE DEF p
<1>3. p # s.priority[t]
  BY DEF p
<1>4. u = [s EXCEPT !.priority[t] = p, !.waitValue = value, !.sched = FALSE,
                    !.waitingList[s.objPtr[t]] = Reinsert(@, value, t)]
  BY <1>1, <1>2, <1>3 DEF NewPrio
<1> HIDE DEF u, value
<1>5. /\ u.waitingList = [s.waitingList EXCEPT ![s.objPtr[t]] = Reinsert(@, value, t)]
      /\ u.waitValue = value
      /\ u.basePriority = s.basePriority /\ u.pOwner = s.pOwner
      /\ u.state = s.state
      /\ u.priority = [s.priority EXCEPT ![t] = p]
  BY <1>4
<1> QED BY <1>5 DEF u, value, p

(* The owner of a mutex is in no waiting list.                             *)
LEMMA OwnerNotListed ==
  ASSUME NEW s, NEW T, Whole(s, T), OwnersRun(s), NEW m \in Mutex,
         NEW x \in Counted, NEW a \in Range(s.waitingList[x])
  PROVE  s.pOwner[m] # a
BY ListedWaits DEF OwnersRun, InOrderedList

(* A waiter leaves its list.                                               *)
LEMMA TakenOut ==
  ASSUME NEW s, NEW T, Whole(s, T), OwnersRun(s), NEW x \in Counted,
         NEW t, NEW f, NEW l \in Seq(Task),
         Range(l) = Range(s.waitingList[x]) \ {t},
         Ranked(s.waitingList[x], s.waitValue, s.priority)
           => Ranked(l, s.waitValue, s.priority),
         Shortened(f, s, x, t, l)
  PROVE  KeepsRanks(f, s)
<1>1. /\ s \in Tables /\ s.waitingList \in [SyncObj -> Seq(Task)] /\ x \in SyncObj
      /\ Counted \subseteq SyncObj
  BY DEF Whole, Lists, Tables, Counted, SyncObj
<1>2. /\ f.waitingList[x] = l
      /\ \A y \in SyncObj \ {x} : f.waitingList[y] = s.waitingList[y]
      /\ f.waitValue = s.waitValue /\ f.basePriority = s.basePriority
      /\ \A m \in Mutex \ {x} : f.pOwner[m] = s.pOwner[m]
  BY <1>1 DEF Shortened
<1>3. ASSUME NEW y \in Counted, NEW a \in Range(s.waitingList[y])
      PROVE  f.priority[a] = s.priority[a]
  <2>1. a \in Task
    BY ListedWaits
  <2>2. ASSUME NEW m \in Mutex
        PROVE  s.pOwner[m] # a
    BY OwnerNotListed
  <2> QED BY <2>1, <2>2 DEF Shortened
<1>4. ASSUME NEW y \in Counted, Ranked(s.waitingList[y], s.waitValue, s.priority)
      PROVE  Ranked(f.waitingList[y], f.waitValue, f.priority)
  <2>1. f.waitingList[y] \in Seq(Task) /\ Ranked(f.waitingList[y], s.waitValue, s.priority)
    BY <1>1, <1>2, <1>4
  <2>2. Range(f.waitingList[y]) \subseteq Range(s.waitingList[y])
    BY <1>1, <1>2
  <2>3. \A a \in Range(f.waitingList[y]) : /\ f.waitValue[a] = s.waitValue[a]
                                           /\ f.priority[a] = s.priority[a]
    BY <1>2, <1>3, <2>2
  <2> QED BY <2>1, <2>3, RankedSame
<1>5. ASSUME NEW a \in Task, f.priority[a] # f.basePriority[a]
      PROVE  /\ f.priority[a] = s.priority[a]
             /\ LentTo(s, a) => LentTo(f, a)
  <2>1. f.priority[a] = s.priority[a]
    BY <1>5 DEF Shortened
  <2>2. ASSUME LentTo(s, a)
        PROVE  LentTo(f, a)
    <3>1. PICK m \in Mutex : /\ s.pOwner[m] = a
                             /\ \E w \in Range(s.waitingList[m]) : s.priority[w] = s.priority[a]
      BY <2>2 DEF LentTo
    <3>2. PICK w \in Range(s.waitingList[m]) : s.priority[w] = s.priority[a]
      BY <3>1
    <3>3. m \in Counted /\ m \in SyncObj /\ f.priority[w] = f.priority[a]
      BY <1>3, <2>1, <3>2 DEF Counted, SyncObj
    <3>4. CASE m # x
      BY <1>2, <3>1, <3>2, <3>3, <3>4 DEF LentTo
    <3>5. CASE m = x
      <4>1. f.pOwner[m] = a /\ s.priority[t] # s.priority[a]
        BY <1>5, <3>1, <3>5 DEF Shortened
      <4>2. w \in Range(f.waitingList[m])
        BY <1>2, <3>2, <3>5, <4>1
      <4> QED BY <3>3, <4>1, <4>2 DEF LentTo
    <3> QED BY <3>4, <3>5
  <2> QED BY <2>1, <2>2
<1>6. \A a \in Task : \/ f.priority[a] = f.basePriority[a]
                      \/ LentTo(f, a)
                      \/ /\ f.priority[a] = s.priority[a]
                         /\ f.basePriority[a] = s.basePriority[a]
                         /\ LentTo(s, a) => LentTo(f, a)
  BY <1>2, <1>5
<1> QED BY <1>4, <1>6, RanksByTask

(* aaRemoveTaskFromLists_: an owner that had its priority from t goes back *)
(* to its own.                                                             *)
LEMMA RemoveFromListsQueues ==
  ASSUME NEW s, NEW T, Whole(s, T), OwnersRun(s), NEW t \in Task, InOrderedList(s, t)
  PROVE  LET f == RemoveFromLists(s, t)
             x == s.objPtr[t]
             o == s.pOwner[x]
             back == s.state[t] = "mutexWait" /\ InheritsFrom(s, o, t)
         IN  /\ x \in Counted /\ (s.state[t] = "mutexWait" <=> x \in Mutex)
             /\ x \in Mutex => o \in Task \ {t}
             /\ f.waitingList = [s.waitingList EXCEPT ![x] = ListRemove(s.waitingList[x], t)]
             /\ f.waitValue = s.waitValue /\ f.basePriority = s.basePriority
             /\ f.pOwner = s.pOwner
             /\ back => f.priority = [s.priority EXCEPT ![o] = s.basePriority[o]]
             /\ ~ back => f.priority = s.priority
<1> DEFINE u == IF t \in Range(s.delayed) THEN RemoveFromDelayed(s, t) ELSE s
           w == Unlist(u, t)
           x == s.objPtr[t]
           o == s.pOwner[x]
           back == s.state[t] = "mutexWait" /\ InheritsFrom(s, o, t)
           v == IF back THEN NewPrio(w, o) ELSE w
           f == [v EXCEPT !.objPtr[t] = None]
           l == ListRemove(s.waitingList[x], t)
<1>1. s \in Tables /\ DelayedAgree(s, {}, T) /\ WaitersAgree(s, {})
  BY DEF Whole, Lists
<1>2. /\ u \in Tables /\ SameQueues(u, s)
      /\ u.state = s.state /\ u.objPtr = s.objPtr
  <2>1. u \in Tables /\ u.state = s.state /\ u.objPtr = s.objPtr
    BY <1>1, UndelayedFacts
  <2>2. SameQueues(u, s)
    BY QueuesUntouched DEF SameQueues
  <2> QED BY <2>1, <2>2
<1>3. RemoveFromLists(s, t) = f
  BY DEF RemoveFromLists
<1> HIDE DEF u
<1>4. /\ w.waitingList = [s.waitingList EXCEPT ![x] = l]
      /\ w.waitValue = s.waitValue /\ w.priority = s.priority
      /\ w.basePriority = s.basePriority /\ w.pOwner = s.pOwner
      /\ w.state = s.state /\ w.objPtr = s.objPtr
  BY <1>2 DEF Unlist, SameQueues
<1>5. /\ x \in Counted /\ (s.state[t] = "mutexWait" <=> x \in Mutex)
      /\ x \in Mutex => o \in Task \ {t}
  <2>1. /\ s.state[t] = "mutexWait" => x \in Mutex /\ o \in Task \ {t}
        /\ s.state[t] = "semWait" => x \in Sem
    BY DEF Whole, Waits
  <2>2. Mutex \cap Sem = {}
    BY KernelAssumption
  <2> QED BY <2>1, <2>2 DEF InOrderedList, Counted
<1>6. w \in Tables
  <2>1. WaitersAgree(u, {}) /\ u.objPtr[t] \in SyncObj
    BY <1>1, <1>2, <1>5 DEF WaitersAgree, SameQueues, Counted, SyncObj
  <2> QED BY <1>2, <2>1, UnlistFacts
<1> HIDE DEF l, w
<1>7. CASE back
  <2>1. v = NewPrio(w, o) /\ o \in Task /\ x \in Mutex
    BY <1>5, <1>7
  <2>2. ~ InOrderedList(w, o)
    BY <2>1, <1>4 DEF OwnersRun, InOrderedList
  <2>3. /\ v.waitingList = w.waitingList /\ v.waitValue = w.waitValue
        /\ v.basePriority = w.basePriority /\ v.pOwner = w.pOwner
        /\ v.state = w.state
        /\ v.priority = [w.priority EXCEPT ![o] = w.basePriority[o]]
    BY <1>6, <2>1, <2>2, NewPrioQueues
  <2> HIDE DEF v
  <2>4. SameQueues(f, v)
    BY DEF SameQueues
  <2> HIDE DEF f
  <2>5. /\ f.waitingList = [s.waitingList EXCEPT ![x] = l]
        /\ f.waitValue = s.waitValue /\ f.basePriority = s.basePriority
        /\ f.pOwner = s.pOwner
        /\ f.priority = [s.priority EXCEPT ![o] = s.basePriority[o]]
    BY <1>4, <2>3, <2>4 DEF SameQueues
  <2> HIDE DEF o, x
  <2> QED BY <1>3, <1>5, <1>7, <2>5 DEF l, o, x
<1>8. CASE ~ back
  <2>1. v = w
    BY <1>8
  <2> HIDE DEF v
  <2>2. SameQueues(f, v)
    BY DEF SameQueues
  <2> HIDE DEF f
  <2>3. /\ f.waitingList = [s.waitingList EXCEPT ![x] = l]
        /\ f.waitValue = s.waitValue /\ f.basePriority = s.basePriority
        /\ f.pOwner = s.pOwner /\ f.priority = s.priority
    BY <1>4, <2>1, <2>2 DEF SameQueues
  <2> QED BY <1>3, <1>5, <1>8, <2>3 DEF l
<1> QED BY <1>7, <1>8

(* A task that waits for nothing ordered leaves no such list.              *)
LEMMA RemoveOtherQueues ==
  ASSUME NEW s, NEW T, Whole(s, T), NEW t \in Task, ~ InOrderedList(s, t)
  PROVE  LET f == RemoveFromLists(s, t) IN
         /\ \A y \in Counted : f.waitingList[y] = s.waitingList[y]
         /\ f.waitValue = s.waitValue /\ f.basePriority = s.basePriority
         /\ f.pOwner = s.pOwner /\ f.priority = s.priority
<1> DEFINE u == IF t \in Range(s.delayed) THEN RemoveFromDelayed(s, t) ELSE s
           w == Unlist(u, t)
           x == s.objPtr[t]
<1>1. s.waitingList \in [SyncObj -> Seq(Task)] /\ Counted \subseteq SyncObj
  BY DEF Whole, Lists, Tables, Counted, SyncObj
<1>2. SameQueues(u, s) /\ u.objPtr = s.objPtr
  BY QueuesUntouched DEF SameQueues, RemoveFromDelayed
<1>3. RemoveFromLists(s, t) = IF s.state[t] = "ioWait" THEN w ELSE u
  BY DEF RemoveFromLists
<1> HIDE DEF u
<1>4. CASE s.state[t] = "ioWait"
  <2>1. x \in Driver /\ \A y \in Counted : y # x
    <3>1. x \in Driver
      BY <1>4 DEF Whole, Waits
    <3> QED BY <3>1, KernelAssumption DEF Counted
  <2>2. /\ w.waitingList = [s.waitingList EXCEPT ![x] = ListRemove(@, t)]
        /\ w.waitValue = s.waitValue /\ w.priority = s.priority
        /\ w.basePriority = s.basePriority /\ w.pOwner = s.pOwner
    BY <1>2 DEF Unlist, SameQueues
  <2> HIDE DEF w
  <2> QED BY <1>1, <1>3, <1>4, <2>1, <2>2
<1>5. CASE s.state[t] # "ioWait"
  BY <1>2, <1>3, <1>5 DEF SameQueues
<1> QED BY <1>4, <1>5

(* It keeps the order of the lists and the loans needed.                   *)
LEMMA RemoveFromListsRanks ==
  ASSUME NEW s, NEW T, Whole(s, T), OwnersRun(s), NEW t \in Task
  PROVE  KeepsRanks(RemoveFromLists(s, t), s)
<1> DEFINE f == RemoveFromLists(s, t)
           x == s.objPtr[t]
           o == s.pOwner[x]
           back == s.state[t] = "mutexWait" /\ InheritsFrom(s, o, t)
           l == ListRemove(s.waitingList[x], t)
<1>1. /\ s \in Tables /\ s.waitingList \in [SyncObj -> Seq(Task)] /\ Counted \subseteq SyncObj
      /\ s.priority \in [Task -> Prio] /\ WaitersAgree(s, {})
  BY DEF Whole, Lists, Tables, Counted, SyncObj
<1>2. CASE ~ InOrderedList(s, t)
  <2>1. /\ \A y \in Counted : f.waitingList[y] = s.waitingList[y]
        /\ f.waitValue = s.waitValue /\ f.basePriority = s.basePriority
        /\ f.pOwner = s.pOwner /\ f.priority = s.priority
    BY <1>2, RemoveOtherQueues
  <2> HIDE DEF f
  <2>2. SameRanks(f, s)
    BY <2>1 DEF SameRanks
  <2> QED BY <1>1, <2>2, SameRanksKeep DEF f
<1>3. CASE InOrderedList(s, t)
  <2>1. /\ x \in Counted /\ (s.state[t] = "mutexWait" <=> x \in Mutex)
        /\ x \in Mutex => o \in Task \ {t}
        /\ f.waitingList = [s.waitingList EXCEPT ![x] = ListRemove(s.waitingList[x], t)]
        /\ f.waitValue = s.waitValue /\ f.basePriority = s.basePriority
        /\ f.pOwner = s.pOwner
        /\ back => f.priority = [s.priority EXCEPT ![o] = s.basePriority[o]]
        /\ ~ back => f.priority = s.priority
    BY <1>3, RemoveFromListsQueues
  <2> HIDE DEF f
  <2>2. /\ l \in Seq(Task) /\ Range(l) = Range(s.waitingList[x]) \ {t}
        /\ Ranked(s.waitingList[x], s.waitValue, s.priority)
             => Ranked(l, s.waitValue, s.priority)
    <3>1. NoRepeat(s.waitingList[x]) /\ s.waitingList[x] \in Seq(Task)
      BY <1>1, <2>1 DEF WaitersAgree
    <3> QED BY <1>1, <3>1, ListRemoveFacts, RankedRemove
  <2>3. x \in Mutex => \/ f.priority[o] = f.basePriority[o]
                       \/ f.pOwner[x] = o /\ s.priority[t] # s.priority[o]
    BY <1>1, <2>1 DEF InheritsFrom
  <2>4. \A a \in Task : \/ f.priority[a] = s.priority[a]
                        \/ /\ f.priority[a] = f.basePriority[a]
                           /\ \E m \in Mutex : s.pOwner[m] = a
    BY <1>1, <2>1
  <2>5. Shortened(f, s, x, t, l)
    <3> HIDE DEF back
    <3> QED BY <2>1, <2>3, <2>4 DEF Shortened
  <2>6. x \in Counted
    BY <2>1
  <2>7. KeepsRanks(f, s)
    <3> HIDE DEF o, x, back, l
    <3> QED BY <2>2, <2>5, <2>6, TakenOut
  <2> QED BY <2>7 DEF f
<1> QED BY <1>2, <1>3

(* The wait of t is over.                                                  *)
LEMMA WakeByTimeoutRanks ==
  ASSUME NEW s, NEW T, Whole(s, T), OwnersRun(s), NEW t \in Task
  PROVE  KeepsRanks(WakeByTimeout(s, t), s)
<1> DEFINE u == RemoveFromLists(s, t)
           v == [u EXCEPT !.flags[t] = @ \cup {"DELAYTMO"}]
<1>1. KeepsRanks(u, s)
  BY RemoveFromListsRanks
<1> HIDE DEF u
<1>2. SameQueues(v, u)
  BY DEF SameQueues
<1> HIDE DEF v
<1>3. SameQueues(PutInList(v, t), v)
  BY QueuesUntouched
<1>4. KeepsRanks(PutInList(v, t), u)
  BY <1>2, <1>3, QueuesTransitive, SameQueuesKeep
<1>5. KeepsRanks(PutInList(v, t), s)
  BY <1>1, <1>4, RanksTransitive
<1> QED BY <1>5 DEF WakeByTimeout, u, v

(* The first waiter leaves its list.                                       *)
LEMMA WakeFirstQueues ==
  ASSUME NEW s, NEW x \in SyncObj
  PROVE  LET u == WakeFirst(s, x) IN
         /\ u.waitingList = [s.waitingList EXCEPT ![x] = Tail(@)]
         /\ u.waitValue = s.waitValue /\ u.priority = s.priority
         /\ u.basePriority = s.basePriority /\ u.pOwner = s.pOwner
<1> DEFINE t == Head(s.waitingList[x])
           v == [s EXCEPT !.waitingList[x] = Tail(@), !.objPtr[t] = None]
           w == RemoveFromDelayed(v, t)
<1>1. WakeFirst(s, x) = PutInList(w, t)
  BY DEF WakeFirst
<1> HIDE DEF t
<1>2. /\ v.waitingList = [s.waitingList EXCEPT ![x] = Tail(@)]
      /\ v.waitValue = s.waitValue /\ v.priority = s.priority
      /\ v.basePriority = s.basePriority /\ v.pOwner = s.pOwner
  OBVIOUS
<1> HIDE DEF v
<1>3. SameQueues(w, v)
  BY QueuesUntouched
<1> HIDE DEF w
<1>4. SameQueues(PutInList(w, t), w)
  BY QueuesUntouched
<1> QED BY <1>1, <1>2, <1>3, <1>4 DEF SameQueues

(* The rest of a list after its head.                                      *)
LEMMA HeadLeaves ==
  ASSUME NEW s, NEW T, Whole(s, T), NEW x \in SyncObj, s.waitingList[x] # << >>
  PROVE  LET l == s.waitingList[x] IN
         /\ Tail(l) \in Seq(Task) /\ Head(l) \in Task
         /\ Range(Tail(l)) = Range(l) \ {Head(l)}
         /\ Ranked(l, s.waitValue, s.priority)
              => Ranked(Tail(l), s.waitValue, s.priority)
<1>1. s.waitingList[x] \in Seq(Task) /\ NoRepeat(s.waitingList[x])
  BY DEF Whole, Lists, Tables, WaitersAgree
<1> QED BY <1>1, TailFacts, RankedTail

(* A semaphore wakes its first waiter, to which it may have told something.*)
LEMMA WakeFirstLoans ==
  ASSUME NEW s, NEW T, Whole(s, T), OwnersRun(s), NEW x \in Sem, s.waitingList[x] # << >>,
         NEW v, SameQueues(v, s)
  PROVE  KeepsLoans(WakeFirst(v, x), s)
<1> DEFINE u == WakeFirst(v, x)
           l == s.waitingList[x]
           t == Head(l)
           r == Tail(l)
<1>1. x \in SyncObj /\ x \in Counted /\ x \notin Mutex
  BY KernelAssumption DEF SyncObj, Counted
<1>2. /\ r \in Seq(Task) /\ Range(r) = Range(s.waitingList[x]) \ {t}
      /\ Ranked(s.waitingList[x], s.waitValue, s.priority)
           => Ranked(r, s.waitValue, s.priority)
  BY <1>1, HeadLeaves
<1>3. /\ u.waitingList = [s.waitingList EXCEPT ![x] = r]
      /\ u.waitValue = s.waitValue /\ u.priority = s.priority
      /\ u.basePriority = s.basePriority /\ u.pOwner = s.pOwner
  <2>1. /\ u.waitingList = [v.waitingList EXCEPT ![x] = Tail(@)]
        /\ u.waitValue = v.waitValue /\ u.priority = v.priority
        /\ u.basePriority = v.basePriority /\ u.pOwner = v.pOwner
    BY <1>1, WakeFirstQueues
  <2> HIDE DEF u
  <2> QED BY <2>1 DEF SameQueues
<1> HIDE DEF u, r, t
<1>4. Shortened(u, s, x, t, r)
  BY <1>1, <1>3 DEF Shortened
<1>5. KeepsRanks(u, s)
  BY <1>1, <1>2, <1>4, TakenOut
<1>6. Served(s) => Served(u)
  <2>1. s.waitingList \in [SyncObj -> Seq(Task)] /\ Mutex \subseteq SyncObj
    BY DEF Whole, Lists, Tables, SyncObj
  <2>2. \A m \in Mutex : u.waitingList[m] = s.waitingList[m]
    BY <1>1, <1>3, <2>1
  <2> QED BY <1>3, <2>2, ServedSame
<1> QED BY <1>5, <1>6 DEF u, KeepsLoans

(* aaSemGive.                                                              *)
LEMMA GiveLoans ==
  ASSUME NEW s, NEW T, Whole(s, T), OwnersRun(s), NEW x \in Sem
  PROVE  KeepsLoans(Give(s, x), s)
<1>1. CASE s.count[x] < 0 \/ s.waitingList[x] = << >>
  <2> DEFINE u == Give(s, x)
  <2>1. u = [s EXCEPT !.count[x] = @ + 1, !.sched = FALSE]
    BY <1>1 DEF Give
  <2> HIDE DEF u
  <2>2. SameQueues(u, s)
    BY <2>1 DEF SameQueues
  <2> QED BY <2>2, SameQueuesLoans DEF u
<1>2. CASE ~ (s.count[x] < 0 \/ s.waitingList[x] = << >>)
  <2>1. Give(s, x) = WakeFirst(s, x) /\ s.waitingList[x] # << >>
    BY <1>2 DEF Give
  <2>2. SameQueues(s, s)
    BY DEF SameQueues
  <2> QED BY <2>1, <2>2, WakeFirstLoans
<1> QED BY <1>1, <1>2

(* aaMutexGive: the giver goes back to its own priority, the first waiter  *)
(* is the new owner.                                                       *)
LEMMA MutexGiveQueues ==
  ASSUME NEW s, NEW T, Whole(s, T), OwnersRun(s), NEW t \in Task, NEW m \in Mutex,
         s.pOwner[m] = t, NEW L \in SUBSET Mutex
  PROVE  GivenOn(HandOver(NewPrio([s EXCEPT !.mutexList[t] = L], t), m), s, t, m)
<1> DEFINE v == [s EXCEPT !.mutexList[t] = L]
           w == NewPrio(v, t)
           u == HandOver(w, m)
           l == s.waitingList[m]
<1>1. m \in SyncObj /\ m \in Counted /\ s \in Tables
  BY DEF SyncObj, Counted, Whole, Lists
<1>2. v \in Tables /\ ~ InOrderedList(v, t)
  BY <1>1 DEF Tables, OwnersRun, InOrderedList
<1>3. SameQueues(v, s)
  BY DEF SameQueues
<1> HIDE DEF v
<1>4. /\ w.waitingList = s.waitingList /\ w.waitValue = s.waitValue
      /\ w.basePriority = s.basePriority /\ w.pOwner = s.pOwner
      /\ w.priority = [s.priority EXCEPT ![t] = s.basePriority[t]]
  BY <1>2, <1>3, NewPrioQueues DEF SameQueues
<1> HIDE DEF w
<1>5. CASE l # << >>
  <2> DEFINE h == Head(l)
             r == Tail(l)
             f == WakeFirst(w, m)
  <2>1. u = [f EXCEPT !.pOwner[m] = h]
    BY <1>4, <1>5 DEF HandOver
  <2>2. /\ f.waitingList = [s.waitingList EXCEPT ![m] = r]
        /\ f.waitValue = s.waitValue /\ f.priority = w.priority
        /\ f.basePriority = s.basePriority /\ f.pOwner = s.pOwner
    BY <1>1, <1>4, WakeFirstQueues
  <2> HIDE DEF f, h, r, u
  <2>3. /\ u.waitingList = [s.waitingList EXCEPT ![m] = r]
        /\ u.waitValue = s.waitValue
        /\ u.priority = [s.priority EXCEPT ![t] = s.basePriority[t]]
        /\ u.basePriority = s.basePriority /\ u.pOwner = [s.pOwner EXCEPT ![m] = h]
    BY <1>4, <2>1, <2>2
  <2>4. GivenOn(u, s, t, m)
    BY <1>5, <2>3 DEF GivenOn, h, r
  <2> QED BY <2>4 DEF u, w, v
<1>6. CASE l = << >>
  <2>1. u = [w EXCEPT !.count[m] = 0, !.pOwner[m] = None]
    BY <1>4, <1>6 DEF HandOver
  <2> HIDE DEF u
  <2>2. /\ u.waitingList = s.waitingList /\ u.waitValue = s.waitValue
        /\ u.priority = [s.priority EXCEPT ![t] = s.basePriority[t]]
        /\ u.basePriority = s.basePriority /\ u.pOwner = [s.pOwner EXCEPT ![m] = None]
    BY <1>4, <2>1
  <2>3. GivenOn(u, s, t, m)
    BY <1>6, <2>2 DEF GivenOn
  <2> QED BY <2>3 DEF u, w, v
<1> QED BY <1>5, <1>6

(* The new owner, which waited, owned no mutex and has its own priority.   *)
LEMMA MutexGiveRanks ==
  ASSUME NEW s, NEW T, Whole(s, T), OwnersRun(s), NEW t \in Task, NEW m \in Mutex,
         s.pOwner[m] = t, NEW L \in SUBSET Mutex
  PROVE  KeepsRanks(HandOver(NewPrio([s EXCEPT !.mutexList[t] = L], t), m), s)
<1> DEFINE u == HandOver(NewPrio([s EXCEPT !.mutexList[t] = L], t), m)
           l == s.waitingList[m]
           h == Head(l)
           r == Tail(l)
<1>1. /\ m \in SyncObj /\ m \in Counted /\ s \in Tables
      /\ s.priority \in [Task -> Prio] /\ s.pOwner \in [Mutex -> Task \cup {None, Free}]
  BY DEF SyncObj, Counted, Whole, Lists, Tables
<1>2. GivenOn(u, s, t, m)
  BY MutexGiveQueues
<1> HIDE DEF u
<1>3. /\ u.waitValue = s.waitValue /\ u.basePriority = s.basePriority
      /\ u.priority = [s.priority EXCEPT ![t] = s.basePriority[t]]
      /\ l # << >> => /\ u.waitingList = [s.waitingList EXCEPT ![m] = Tail(l)]
                     /\ u.pOwner = [s.pOwner EXCEPT ![m] = Head(l)]
      /\ l = << >> => /\ u.waitingList = s.waitingList
                     /\ u.pOwner = [s.pOwner EXCEPT ![m] = None]
  BY <1>2 DEF GivenOn
<1>4. u.priority[t] = u.basePriority[t] /\ \A a \in Task \ {t} : u.priority[a] = s.priority[a]
  BY <1>1, <1>3
<1>5. CASE l # << >>
  <2>1. /\ r \in Seq(Task) /\ Range(r) = Range(s.waitingList[m]) \ {h}
        /\ Ranked(s.waitingList[m], s.waitValue, s.priority)
             => Ranked(r, s.waitValue, s.priority)
    BY <1>1, <1>5, HeadLeaves
  <2>2. u.waitingList = [s.waitingList EXCEPT ![m] = r] /\ u.pOwner = [s.pOwner EXCEPT ![m] = h]
    BY <1>3, <1>5
  <2> HIDE DEF h, r
  <2>3. \A n \in Mutex \ {m} : u.pOwner[n] = s.pOwner[n]
    BY <1>1, <2>2
  <2>4. Shortened(u, s, m, h, r)
    BY <1>3, <1>4, <2>2, <2>3 DEF Shortened
  <2>5. KeepsRanks(u, s)
    BY <1>1, <2>1, <2>4, TakenOut
  <2> QED BY <2>5 DEF u
<1>6. CASE l = << >>
  <2>1. ASSUME NEW x \in Counted, NEW a \in Range(s.waitingList[x])
        PROVE  u.priority[a] = s.priority[a]
    <3>1. a \in Task
      BY ListedWaits
    <3>2. a # t
      BY OwnerNotListed
    <3> QED BY <3>1, <3>2, <1>4
  <2>2. \A n \in Mutex : s.waitingList[n] # << >> => u.pOwner[n] = s.pOwner[n]
    BY <1>1, <1>3, <1>6
  <2>3. SameRanks(u, s)
    BY <1>3, <1>4, <1>6, <2>1, <2>2 DEF SameRanks
  <2>4. KeepsRanks(u, s)
    BY <1>1, <2>3, SameRanksKeep
  <2> QED BY <2>4 DEF u
<1> QED BY <1>5, <1>6

(* A task that ran joins a waiting list.                                   *)
LEMMA JoinedRanks ==
  ASSUME NEW s, NEW T, Whole(s, T), OwnersRun(s), NEW t \in Task, s.state[t] = "ready",
         NEW x \in Counted, NEW u, Joined(u, s, t, x), MayLend(u, s, t, x)
  PROVE  KeepsRanks(u, s)
<1> DEFINE value == [s.waitValue EXCEPT ![t] = s.priority[t]]
           l == s.waitingList[x]
           r == AddOrdered(l, value, t)
<1>1. /\ s \in Tables /\ s.waitingList \in [SyncObj -> Seq(Task)] /\ x \in SyncObj
      /\ s.waitValue \in [Task -> Prio] /\ s.priority \in [Task -> Prio]
      /\ Counted \subseteq SyncObj
  BY DEF Whole, Lists, Tables, Counted, SyncObj
<1>2. /\ u.waitingList = [s.waitingList EXCEPT ![x] = r]
      /\ u.waitValue = value /\ u.basePriority = s.basePriority
      /\ u.pOwner = s.pOwner
      /\ u.priority \in [Task -> Prio] /\ u.priority[t] = s.priority[t]
      /\ \A a \in Task : \/ u.priority[a] = s.priority[a]
                         \/ /\ u.priority[a] = s.priority[t]
                            /\ x \in Mutex /\ s.pOwner[x] = a
  BY DEF Joined, MayLend
<1>3. l \in Seq(Task) /\ NoRepeat(l)
  BY <1>1 DEF Whole, Lists, WaitersAgree
<1>4. value[t] = s.priority[t] /\ \A a \in Task \ {t} : value[a] = s.waitValue[a]
  BY <1>1
<1> HIDE DEF value
<1>5. Range(r) = Range(l) \cup {t}
  BY <1>3, AddOrderedFacts
<1>6. /\ u.waitingList[x] = r
      /\ \A y \in SyncObj \ {x} : u.waitingList[y] = s.waitingList[y]
  BY <1>1, <1>2
<1> HIDE DEF r
<1>7. ASSUME NEW y \in Counted, NEW a \in Range(s.waitingList[y])
      PROVE  u.priority[a] = s.priority[a] /\ u.waitValue[a] = s.waitValue[a]
  <2>1. a \in Task /\ InOrderedList(s, a)
    BY ListedWaits
  <2>2. a # t
    BY <2>1 DEF InOrderedList
  <2>3. ASSUME NEW m \in Mutex
        PROVE  s.pOwner[m] # a
    BY OwnerNotListed
  <2> QED BY <1>2, <1>4, <2>1, <2>2, <2>3
<1>8. ASSUME NEW y \in Counted, Ranked(s.waitingList[y], s.waitValue, s.priority)
      PROVE  Ranked(u.waitingList[y], u.waitValue, u.priority)
  <2>1. s.waitingList[y] \in Seq(Task)
    BY <1>1
  <2>2. \A a \in Range(s.waitingList[y]) : /\ u.waitValue[a] = s.waitValue[a]
                                           /\ u.priority[a] = s.priority[a]
    BY <1>7
  <2>3. Ranked(s.waitingList[y], u.waitValue, u.priority)
    BY <1>8, <2>1, <2>2, RankedSame
  <2>4. CASE y = x
    <3>1. Ranked(l, value, u.priority) /\ value[t] = u.priority[t]
      BY <1>2, <1>4, <2>3, <2>4
    <3>2. Ranked(r, value, u.priority)
      BY <1>2, <1>3, <3>1, RankedAdd DEF r
    <3> QED BY <1>2, <1>6, <2>4, <3>2
  <2>5. CASE y # x
    BY <1>1, <1>6, <2>3, <2>5
  <2> QED BY <2>4, <2>5
<1>9. ASSUME NEW a \in Task
      PROVE  \/ LentTo(u, a)
             \/ /\ u.priority[a] = s.priority[a]
                /\ u.basePriority[a] = s.basePriority[a]
                /\ LentTo(s, a) => LentTo(u, a)
  <2>1. CASE u.priority[a] # s.priority[a]
    <3>1. /\ x \in Mutex /\ u.pOwner[x] = a /\ u.priority[t] = u.priority[a]
          /\ t \in Range(u.waitingList[x])
      BY <1>2, <1>5, <1>6, <2>1
    <3> QED BY <3>1 DEF LentTo
  <2>2. CASE u.priority[a] = s.priority[a]
    <3>1. ASSUME LentTo(s, a)
          PROVE  LentTo(u, a)
      <4>1. PICK m \in Mutex : /\ s.pOwner[m] = a
                               /\ \E w \in Range(s.waitingList[m]) :
                                    s.priority[w] = s.priority[a]
        BY <3>1 DEF LentTo
      <4>2. PICK w \in Range(s.waitingList[m]) : s.priority[w] = s.priority[a]
        BY <4>1
      <4>3. m \in Counted /\ m \in SyncObj
        BY DEF Counted, SyncObj
      <4>4. u.priority[w] = u.priority[a] /\ u.pOwner[m] = a
        BY <1>2, <1>7, <2>2, <4>1, <4>2, <4>3
      <4>5. w \in Range(u.waitingList[m])
        <5>1. CASE m = x
          BY <1>5, <1>6, <4>2, <5>1
        <5>2. CASE m # x
          BY <1>6, <4>2, <4>3, <5>2
        <5> QED BY <5>1, <5>2
      <4> QED BY <4>4, <4>5 DEF LentTo
    <3> QED BY <1>2, <2>2, <3>1
  <2> QED BY <2>1, <2>2
<1>10. \A a \in Task : \/ u.priority[a] = u.basePriority[a]
                       \/ LentTo(u, a)
                       \/ /\ u.priority[a] = s.priority[a]
                          /\ u.basePriority[a] = s.basePriority[a]
                          /\ LentTo(s, a) => LentTo(u, a)
  BY <1>9
<1> QED BY <1>8, <1>10, RanksByTask

(* The wait every blocking call ends in.                                   *)
LEMMA WaitOrderedQueues ==
  ASSUME NEW s, NEW t, NEW x, NEW st, NEW causes, NEW d
  PROVE  LET u == WaitOrdered(s, t, x, st, causes, d) IN
         Joined(u, s, t, x) /\ u.priority = s.priority
<1> DEFINE value == [s.waitValue EXCEPT ![t] = s.priority[t]]
           r == RemoveReady(s, t)
           v == [r EXCEPT
                   !.state[t] = st, !.objPtr[t] = x, !.waitValue = value,
                   !.flags[t] = @ \ causes,
                   !.waitingList[x] = AddOrdered(@, value, t)]
           w == AddToDelayed(v, t, d)
<1>1. WaitOrdered(s, t, x, st, causes, d) = Schedule(w)
  BY Zenon DEF WaitOrdered
<1> HIDE DEF value
<1>2. SameQueues(r, s)
  BY QueuesUntouched
<1> HIDE DEF r
<1>3. /\ v.waitingList = [r.waitingList EXCEPT ![x] = AddOrdered(@, value, t)]
      /\ v.waitValue = value /\ v.priority = r.priority
      /\ v.basePriority = r.basePriority /\ v.pOwner = r.pOwner
  OBVIOUS
<1> HIDE DEF v
<1>4. SameQueues(w, v)
  BY QueuesUntouched
<1> HIDE DEF w
<1>5. SameQueues(Schedule(w), w)
  BY QueuesUntouched
<1> QED BY <1>1, <1>2, <1>3, <1>4, <1>5 DEF SameQueues, Joined, value

(* aaSemTake that waits.                                                   *)
LEMMA SemTakeWaitLoans ==
  ASSUME NEW s, NEW T, Whole(s, T), OwnersRun(s), NEW t \in Task, s.state[t] = "ready",
         NEW x \in Sem, NEW causes, NEW d
  PROVE  KeepsLoans(WaitOrdered(s, t, x, "semWait", causes, d), s)
<1> DEFINE u == WaitOrdered(s, t, x, "semWait", causes, d)
<1>1. Joined(u, s, t, x) /\ u.priority = s.priority
  BY WaitOrderedQueues
<1>2. s.priority \in [Task -> Prio] /\ x \in Counted
  BY DEF Whole, Lists, Tables, Counted
<1> HIDE DEF u
<1>3. MayLend(u, s, t, x)
  BY <1>1, <1>2 DEF MayLend
<1>4. KeepsRanks(u, s)
  BY <1>1, <1>2, <1>3, JoinedRanks
<1>5. Served(s) => Served(u)
  <2> DEFINE value == [s.waitValue EXCEPT ![t] = s.priority[t]]
  <2>1. /\ s.waitingList \in [SyncObj -> Seq(Task)] /\ Mutex \subseteq SyncObj
        /\ x \notin Mutex /\ x \in SyncObj
    BY KernelAssumption DEF Whole, Lists, Tables, SyncObj
  <2>2. /\ u.waitingList = [s.waitingList EXCEPT ![x] = AddOrdered(@, value, t)]
        /\ u.pOwner = s.pOwner
    BY <1>1 DEF Joined
  <2> HIDE DEF value
  <2>3. \A m \in Mutex : u.waitingList[m] = s.waitingList[m]
    BY <2>1, <2>2
  <2> QED BY <1>1, <2>2, <2>3, ServedSame
<1> QED BY <1>4, <1>5 DEF u, KeepsLoans

(* aaMutexTake that waits lends its priority to the owner.                 *)
LEMMA LentQueues ==
  ASSUME NEW s, NEW T, Whole(s, T), OwnersRun(s), NEW t \in Task,
         NEW m \in Mutex, s.pOwner[m] \in Task
  PROVE  LET asked == [s EXCEPT !.objPtr[t] = m]
             lent  == IF s.priority[t] > s.priority[s.pOwner[m]] THEN Propagate(asked, t)
                                                                 ELSE asked
         IN  /\ lent.waitingList = s.waitingList /\ lent.waitValue = s.waitValue
             /\ lent.basePriority = s.basePriority /\ lent.pOwner = s.pOwner
             /\ lent.priority = [a \in Task |->
                  IF s.priority[a] < s.priority[t] /\ s.pOwner[m] = a
                  THEN s.priority[t] ELSE s.priority[a]]
<1> DEFINE asked == [s EXCEPT !.objPtr[t] = m]
           lent == IF s.priority[t] > s.priority[s.pOwner[m]] THEN Propagate(asked, t)
                                                              ELSE asked
           o == s.pOwner[m]
           prio == [a \in Task |-> IF s.priority[a] < s.priority[t] /\ s.pOwner[m] = a
                                   THEN s.priority[t] ELSE s.priority[a]]
<1>1. /\ s \in Tables /\ s.priority \in [Task -> Prio] /\ m \in SyncObj
      /\ \A a \in Prio : a \in Nat
  <2>1. s \in Tables /\ s.priority \in [Task -> Prio] /\ m \in SyncObj
    BY DEF Whole, Lists, Tables, SyncObj
  <2>2. \A a \in Prio : a \in Nat
    BY KernelAssumption DEF Prio
  <2> QED BY <2>1, <2>2
<1>2. /\ asked \in Tables /\ asked.objPtr[t] = m /\ OwnersRun(asked)
      /\ SameQueues(asked, s)
  <2>1. asked \in Tables /\ asked.objPtr[t] = m
    BY <1>1 DEF Tables
  <2>2. OwnersRun(asked) /\ SameQueues(asked, s)
    BY DEF OwnersRun, SameQueues
  <2> QED BY <2>1, <2>2
<1> HIDE DEF asked
<1>3. CASE s.priority[t] > s.priority[o]
  <2> DEFINE v == Propagate(asked, t)
  <2>1. lent = v
    BY <1>3
  <2>2. asked.objPtr[t] \in Mutex
    BY <1>2
  <2>3. /\ v.waitingList = asked.waitingList /\ v.waitValue = asked.waitValue
        /\ v.basePriority = asked.basePriority /\ v.pOwner = asked.pOwner
        /\ v.priority = [a \in Task |->
             IF asked.priority[a] < asked.priority[t] /\ asked.pOwner[asked.objPtr[t]] = a
             THEN asked.priority[t] ELSE asked.priority[a]]
    BY <1>2, <2>2, PropagateQueues
  <2> HIDE DEF v, lent
  <2>4. v.priority = prio
    BY <1>2, <2>3 DEF SameQueues
  <2> HIDE DEF prio
  <2>5. /\ lent.waitingList = s.waitingList /\ lent.waitValue = s.waitValue
        /\ lent.basePriority = s.basePriority /\ lent.pOwner = s.pOwner
        /\ lent.priority = prio
    BY <1>2, <2>1, <2>3, <2>4 DEF SameQueues
  <2> QED BY <2>5 DEF lent, asked, prio
<1>4. CASE ~ (s.priority[t] > s.priority[o])
  <2>1. lent = asked
    BY <1>4
  <2> HIDE DEF lent
  <2>2. \A a \in Task : ~ (s.priority[a] < s.priority[t] /\ s.pOwner[m] = a)
    BY <1>1, <1>4
  <2>3. prio = s.priority
    BY <1>1, <2>2
  <2> HIDE DEF prio
  <2>4. /\ lent.waitingList = s.waitingList /\ lent.waitValue = s.waitValue
        /\ lent.basePriority = s.basePriority /\ lent.pOwner = s.pOwner
        /\ lent.priority = prio
    BY <1>2, <2>1, <2>3 DEF SameQueues
  <2> QED BY <2>4 DEF lent, asked, prio
<1> QED BY <1>3, <1>4

(* A task lends its priority to the owner of m and waits.                  *)
LEMMA MutexTakeWaitRanks ==
  ASSUME NEW s, NEW T, Whole(s, T), OwnersRun(s), NEW t \in Task, s.state[t] = "ready",
         NEW m \in Mutex, s.pOwner[m] \in Task \ {t}, NEW causes, NEW d
  PROVE  LET asked == [s EXCEPT !.objPtr[t] = m]
             lent  == IF s.priority[t] > s.priority[s.pOwner[m]] THEN Propagate(asked, t)
                                                                 ELSE asked
         IN  KeepsRanks(WaitOrdered(lent, t, m, "mutexWait", causes, d), s)
<1> DEFINE asked == [s EXCEPT !.objPtr[t] = m]
           lent == IF s.priority[t] > s.priority[s.pOwner[m]] THEN Propagate(asked, t)
                                                              ELSE asked
           u == WaitOrdered(lent, t, m, "mutexWait", causes, d)
<1>1. s.priority \in [Task -> Prio] /\ m \in Counted
  BY DEF Whole, Lists, Tables, Counted
<1>2. /\ lent.waitingList = s.waitingList /\ lent.waitValue = s.waitValue
      /\ lent.basePriority = s.basePriority /\ lent.pOwner = s.pOwner
      /\ lent.priority = [a \in Task |->
           IF s.priority[a] < s.priority[t] /\ s.pOwner[m] = a
           THEN s.priority[t] ELSE s.priority[a]]
  BY LentQueues
<1> HIDE DEF lent
<1>3. /\ lent.priority \in [Task -> Prio] /\ lent.priority[t] = s.priority[t]
      /\ \A a \in Task : \/ lent.priority[a] = s.priority[a]
                         \/ /\ lent.priority[a] = s.priority[t]
                            /\ s.pOwner[m] = a
  <2>1. \A a \in Task : lent.priority[a] = IF s.priority[a] < s.priority[t] /\ s.pOwner[m] = a
                                           THEN s.priority[t] ELSE s.priority[a]
    BY <1>2
  <2>2. lent.priority \in [Task -> Prio]
    BY <1>1, <1>2
  <2> QED BY <2>1, <2>2
<1>4. Joined(u, lent, t, m) /\ u.priority = lent.priority
  BY WaitOrderedQueues
<1> HIDE DEF u
<1>5. Joined(u, s, t, m)
  BY <1>2, <1>3, <1>4 DEF Joined
<1>6. MayLend(u, s, t, m)
  BY <1>3, <1>4 DEF MayLend
<1>7. KeepsRanks(u, s)
  BY <1>1, <1>5, <1>6, JoinedRanks
<1> QED BY <1>7 DEF u, lent, asked

(* A priority set by aaTaskSetPriority, as aaMutexNewPrio_ leaves it.      *)
LEMMA SetPriorityTyped ==
  ASSUME NEW s, NEW T, Whole(s, T), NEW v \in Task, NEW p \in Prio
  PROVE  LET z == [s EXCEPT !.basePriority[v] = p] IN
         /\ z \in Tables /\ NewPrio(z, v) \in Tables
         /\ NewPrio(z, v).state = s.state /\ NewPrio(z, v).objPtr = s.objPtr
         /\ NewPrio(z, v).pOwner = s.pOwner
         /\ NewPrio(z, v).basePriority = [s.basePriority EXCEPT ![v] = p]
<1> DEFINE z == [s EXCEPT !.basePriority[v] = p]
           n == NewPrio(z, v)
<1>1. s \in Tables /\ Lists(s, {}, T) /\ Waits(s)
  BY DEF Whole, Lists
<1>2. z \in Tables
  BY <1>1 DEF Tables
<1>3. /\ z.ready = s.ready /\ z.prioGroup = s.prioGroup /\ z.priority = s.priority
      /\ z.state = s.state /\ z.waitingList = s.waitingList /\ z.objPtr = s.objPtr
      /\ z.delayed = s.delayed /\ z.delay = s.delay /\ z.suspended = s.suspended
      /\ z.pOwner = s.pOwner /\ z.basePriority = [s.basePriority EXCEPT ![v] = p]
  OBVIOUS
<1> HIDE DEF z
<1>4. Lists(z, {}, T)
  BY <1>1, <1>2, <1>3, ListsFrame
<1>5. z.state[v] \in ListWait => z.objPtr[v] \in SyncObj
  BY <1>1, <1>3 DEF Waits, ListWait, SyncObj
<1>6. Lists(n, {}, T) /\ SameRest(n, z) /\ SameTasks(n, z)
  BY <1>4, <1>5, NewPrioLists
<1> HIDE DEF n
<1>7. /\ n \in Tables /\ n.state = s.state /\ n.objPtr = s.objPtr
      /\ n.pOwner = s.pOwner /\ n.basePriority = [s.basePriority EXCEPT ![v] = p]
  BY <1>3, <1>6 DEF Lists, SameRest, SameObjects, SameTasks
<1> QED BY <1>2, <1>7 DEF n, z

(* It sorts a waiter into its list again.                                  *)
LEMMA SetPriorityListed ==
  ASSUME NEW s, NEW T, Whole(s, T), NEW v \in Task, InOrderedList(s, v), NEW p \in Prio
  PROVE  LET n == NewPrio([s EXCEPT !.basePriority[v] = p], v) IN
         /\ n.priority = [s.priority EXCEPT ![v] = p]
         /\ \A y \in Counted : Range(n.waitingList[y]) = Range(s.waitingList[y])
         /\ Sorted(s) => Sorted(n)
<1> DEFINE z == [s EXCEPT !.basePriority[v] = p]
           n == NewPrio(z, v)
           x == s.objPtr[v]
<1>1. /\ s \in Tables /\ s.waitingList \in [SyncObj -> Seq(Task)]
      /\ s.priority \in [Task -> Prio] /\ s.waitValue \in [Task -> Prio]
      /\ s.basePriority \in [Task -> Prio] /\ Counted \subseteq SyncObj
  BY DEF Whole, Lists, Tables, Counted, SyncObj
<1>2. z \in Tables
  BY SetPriorityTyped
<1>3. /\ z.waitingList = s.waitingList /\ z.waitValue = s.waitValue
      /\ z.priority = s.priority /\ z.basePriority[v] = p
      /\ z.state = s.state /\ z.objPtr = s.objPtr
  BY <1>1
<1>4. x \in Counted /\ x \in SyncObj /\ v \in Range(s.waitingList[x])
  <2>1. x \in Counted
    BY DEF Whole, Waits, InOrderedList, Counted
  <2> QED BY <1>1, <2>1 DEF Whole, Lists, WaitersAgree, InOrderedList, ListWait
<1>5. InOrderedList(z, v)
  BY <1>3 DEF InOrderedList
<1> HIDE DEF z
<1>6. CASE p = s.priority[v]
  <2>1. HighestWaiting(z, v) = p
    <3>1. p \in Nat
      BY KernelAssumption DEF Prio
    <3> QED BY <1>3, <3>1, HighestWaitingIsBase
  <2>2. n = [z EXCEPT !.sched = FALSE]
    BY <1>3, <1>6, <2>1 DEF NewPrio
  <2> HIDE DEF n
  <2>3. /\ n.waitingList = s.waitingList /\ n.waitValue = s.waitValue
        /\ n.priority = s.priority
    BY <1>3, <2>2
  <2>4. s.priority = [s.priority EXCEPT ![v] = p]
    BY <1>1, <1>6
  <2>5. Sorted(s) => Sorted(n)
    BY <2>3 DEF Sorted
  <2> QED BY <2>3, <2>4, <2>5 DEF n, z
<1>7. CASE p # s.priority[v]
  <2> DEFINE value == [s.waitValue EXCEPT ![v] = p]
             l == s.waitingList[x]
             r == Reinsert(l, value, v)
  <2>1. /\ n.waitingList = [s.waitingList EXCEPT ![x] = r]
        /\ n.waitValue = value
        /\ n.priority = [s.priority EXCEPT ![v] = p]
    <3> DEFINE val == [z.waitValue EXCEPT ![v] = z.basePriority[v]]
    <3>1. z.basePriority[v] # z.priority[v]
      BY <1>3, <1>7
    <3>2. /\ n.waitingList = [z.waitingList EXCEPT ![z.objPtr[v]] = Reinsert(@, val, v)]
          /\ n.waitValue = val
          /\ n.basePriority = z.basePriority /\ n.pOwner = z.pOwner
          /\ n.state = z.state
          /\ n.priority = [z.priority EXCEPT ![v] = z.basePriority[v]]
      BY <1>2, <1>5, <3>1, NewPrioWaiter
    <3>3. val = value
      BY <1>3
    <3> HIDE DEF val, value, n
    <3> QED BY <1>3, <3>2, <3>3
  <2>2. value[v] = p /\ \A a \in Task \ {v} : value[a] = s.waitValue[a]
    BY <1>1
  <2> HIDE DEF n, value
  <2>3. l \in Seq(Task) /\ NoRepeat(l)
    BY <1>1, <1>4 DEF Whole, Lists, WaitersAgree
  <2>4. n.priority \in [Task -> Prio] /\ n.priority[v] = p
        /\ \A a \in Task \ {v} : n.priority[a] = s.priority[a]
    BY <1>1, <2>1
  <2>5. Range(r) = Range(l)
    BY <1>4, <2>3, ReinsertFacts
  <2>6. ASSUME NEW y \in Counted, Ranked(s.waitingList[y], s.waitValue, s.priority)
        PROVE  Ranked(n.waitingList[y], n.waitValue, n.priority)
    <3>1. s.waitingList[y] \in Seq(Task)
      BY <1>1
    <3>2. CASE y # x
      <4>1. n.waitingList[y] = s.waitingList[y]
        BY <1>1, <2>1, <3>2
      <4>2. ASSUME NEW a \in Range(s.waitingList[y])
            PROVE  n.waitValue[a] = s.waitValue[a] /\ n.priority[a] = s.priority[a]
        <5>1. a \in Task /\ s.objPtr[a] = y
          BY ListedWaits
        <5> QED BY <2>1, <2>2, <2>4, <3>2, <5>1
      <4> QED BY <2>6, <3>1, <4>1, <4>2, RankedSame
    <3>3. CASE y = x
      <4> DEFINE q == ListRemove(l, v)
      <4>1. q \in Seq(Task) /\ NoRepeat(q) /\ Range(q) = Range(l) \ {v}
        BY <2>3, ListRemoveFacts
      <4>2. Ranked(q, s.waitValue, s.priority)
        BY <1>1, <2>3, <2>6, <3>3, RankedRemove
      <4> HIDE DEF q
      <4>3. ASSUME NEW a \in Range(q)
            PROVE  value[a] = s.waitValue[a] /\ n.priority[a] = s.priority[a]
        <5>1. a \in Range(s.waitingList[x]) /\ a # v
          BY <4>1
        <5>2. a \in Task
          BY <1>4, <5>1, ListedWaits
        <5> QED BY <2>2, <2>4, <5>1, <5>2
      <4>4. Ranked(q, value, n.priority)
        BY <4>1, <4>2, <4>3, RankedSame
      <4>5. value[v] = n.priority[v]
        BY <2>2, <2>4
      <4>6. Ranked(AddOrdered(q, value, v), value, n.priority)
        BY <2>4, <4>1, <4>4, <4>5, RankedAdd
      <4>7. n.waitingList[y] = AddOrdered(q, value, v)
        BY <1>1, <1>4, <2>1, <3>3 DEF Reinsert, q
      <4> QED BY <2>1, <4>6, <4>7
    <3> QED BY <3>2, <3>3
  <2>7. Sorted(s) => Sorted(n)
    BY <2>6 DEF Sorted
  <2>8. \A y \in Counted : Range(n.waitingList[y]) = Range(s.waitingList[y])
    BY <1>1, <1>4, <2>1, <2>5
  <2> QED BY <2>1, <2>7, <2>8 DEF n, z, value
<1> QED BY <1>6, <1>7

(* aaTaskSetPriority of a task that waits for no mutex and no semaphore.   *)
LEMMA SetPriorityOther ==
  ASSUME NEW s, NEW T, Whole(s, T), NEW v \in Task, ~ InOrderedList(s, v), NEW p \in Prio
  PROVE  LET n == NewPrio([s EXCEPT !.basePriority[v] = p], v) IN
         /\ n.waitingList = s.waitingList /\ n.waitValue = s.waitValue
         /\ n.pOwner = s.pOwner
         /\ n.basePriority = [s.basePriority EXCEPT ![v] = p]
         /\ n.priority = [s.priority EXCEPT ![v] = p]
<1> DEFINE z == [s EXCEPT !.basePriority[v] = p]
           n == NewPrio(z, v)
<1>1. s.basePriority \in [Task -> Prio]
  BY DEF Whole, Lists, Tables
<1>2. z \in Tables
  BY SetPriorityTyped
<1>3. /\ z.waitingList = s.waitingList /\ z.waitValue = s.waitValue
      /\ z.priority = s.priority /\ z.pOwner = s.pOwner /\ z.state = s.state
      /\ z.basePriority = [s.basePriority EXCEPT ![v] = p]
  OBVIOUS
<1> HIDE DEF z
<1>4. ~ InOrderedList(z, v)
  BY <1>3 DEF InOrderedList
<1>5. /\ n.waitingList = z.waitingList /\ n.waitValue = z.waitValue
      /\ n.basePriority = z.basePriority /\ n.pOwner = z.pOwner
      /\ n.state = z.state
      /\ n.priority = [z.priority EXCEPT ![v] = z.basePriority[v]]
  BY <1>2, <1>4, NewPrioQueues
<1> HIDE DEF n
<1>6. n.priority = [s.priority EXCEPT ![v] = p]
  BY <1>1, <1>3, <1>5
<1> QED BY <1>3, <1>5, <1>6 DEF n, z

(* The owner of what a waiter waits for is raised to its new priority.     *)
LEMMA SetPriorityLent ==
  ASSUME NEW s, NEW T, Whole(s, T), OwnersRun(s), NEW v \in Task, InOrderedList(s, v),
         NEW p \in Prio
  PROVE  LET n == NewPrio([s EXCEPT !.basePriority[v] = p], v)
             f == IF n.state[v] = "mutexWait" THEN Propagate(n, v) ELSE n
         IN  /\ f.waitingList = n.waitingList /\ f.waitValue = n.waitValue
             /\ f.basePriority = n.basePriority /\ f.pOwner = s.pOwner
             /\ f.priority = [a \in Task |->
                  IF s.state[v] = "mutexWait" /\ n.priority[a] < p
                       /\ s.pOwner[s.objPtr[v]] = a
                  THEN p ELSE n.priority[a]]
<1> DEFINE n == NewPrio([s EXCEPT !.basePriority[v] = p], v)
           f == IF n.state[v] = "mutexWait" THEN Propagate(n, v) ELSE n
           o == s.pOwner[s.objPtr[v]]
           prio == [a \in Task |->
                      IF s.state[v] = "mutexWait" /\ n.priority[a] < p /\ o = a
                      THEN p ELSE n.priority[a]]
<1>1. /\ n \in Tables /\ n.state = s.state /\ n.objPtr = s.objPtr
      /\ n.pOwner = s.pOwner
  BY SetPriorityTyped
<1>2. n.priority[v] = p
  <2>1. n.priority = [s.priority EXCEPT ![v] = p] /\ s.priority \in [Task -> Prio]
    BY SetPriorityListed DEF Whole, Lists, Tables
  <2> HIDE DEF n
  <2> QED BY <2>1
<1> HIDE DEF n
<1>3. CASE s.state[v] = "mutexWait"
  <2> DEFINE u == Propagate(n, v)
  <2>1. n.objPtr[v] \in Mutex
    BY <1>1, <1>3 DEF Whole, Waits
  <2>2. OwnersRun(n)
    BY <1>1 DEF OwnersRun
  <2>3. /\ u.waitingList = n.waitingList /\ u.waitValue = n.waitValue
        /\ u.basePriority = n.basePriority /\ u.pOwner = n.pOwner
        /\ u.priority = [a \in Task |->
             IF n.priority[a] < n.priority[v] /\ n.pOwner[n.objPtr[v]] = a
             THEN n.priority[v] ELSE n.priority[a]]
    BY <1>1, <2>1, <2>2, PropagateQueues
  <2>4. f = u
    BY <1>1, <1>3
  <2> HIDE DEF u, f
  <2>5. u.priority = prio
    BY <1>1, <1>2, <1>3, <2>3
  <2> QED BY <1>1, <2>3, <2>4, <2>5 DEF f, n
<1>4. CASE s.state[v] # "mutexWait"
  <2>1. f = n
    BY <1>1, <1>4
  <2>2. n.priority = [a \in Task |-> n.priority[a]]
    BY <1>1 DEF Tables
  <2>3. prio = n.priority
    BY <1>4, <2>2
  <2> QED BY <1>1, <2>1, <2>3 DEF n
<1> QED BY <1>3, <1>4

(* aaTaskSetPriority: the owner of what v waits for gets a priority that   *)
(* is raised; one that is lowered it would keep.                           *)
LEMMA SetPriorityRanks ==
  ASSUME NEW s, NEW T, Whole(s, T), OwnersRun(s), NEW v \in Task, NEW p \in Prio
  PROVE  LET n == NewPrio([s EXCEPT !.basePriority[v] = p], v)
             f == IF n.state[v] = "mutexWait" THEN Propagate(n, v) ELSE n
         IN  /\ Sorted(s) => Sorted(f)
             /\ (s.state[v] = "mutexWait" => p >= s.basePriority[v]) /\ Lent(s) => Lent(f)
<1> DEFINE n == NewPrio([s EXCEPT !.basePriority[v] = p], v)
           f == IF n.state[v] = "mutexWait" THEN Propagate(n, v) ELSE n
           x == s.objPtr[v]
           o == s.pOwner[x]
<1>1. /\ s \in Tables /\ s.waitingList \in [SyncObj -> Seq(Task)]
      /\ s.priority \in [Task -> Prio] /\ s.basePriority \in [Task -> Prio]
      /\ \A a \in Prio : a \in Nat
  <2>1. /\ s \in Tables /\ s.waitingList \in [SyncObj -> Seq(Task)]
        /\ s.priority \in [Task -> Prio] /\ s.basePriority \in [Task -> Prio]
    BY DEF Whole, Lists, Tables
  <2>2. \A a \in Prio : a \in Nat
    BY KernelAssumption DEF Prio
  <2> QED BY <2>1, <2>2
<1>2. /\ n \in Tables /\ n.state = s.state /\ n.objPtr = s.objPtr
      /\ n.pOwner = s.pOwner /\ n.basePriority = [s.basePriority EXCEPT ![v] = p]
  BY SetPriorityTyped
<1>3. CASE ~ InOrderedList(s, v)
  <2>1. f = n
    BY <1>2, <1>3 DEF InOrderedList
  <2>2. /\ n.waitingList = s.waitingList /\ n.waitValue = s.waitValue
        /\ n.pOwner = s.pOwner
        /\ n.basePriority = [s.basePriority EXCEPT ![v] = p]
        /\ n.priority = [s.priority EXCEPT ![v] = p]
    BY <1>3, SetPriorityOther
  <2> HIDE DEF n, f
  <2>3. /\ n.priority[v] = n.basePriority[v]
        /\ \A a \in Task \ {v} : /\ n.priority[a] = s.priority[a]
                                 /\ n.basePriority[a] = s.basePriority[a]
    BY <1>1, <2>2
  <2>4. ASSUME NEW y \in Counted, NEW a \in Range(s.waitingList[y])
        PROVE  n.priority[a] = s.priority[a]
    <3>1. a \in Task /\ InOrderedList(s, a)
      BY ListedWaits
    <3> QED BY <1>3, <2>3, <3>1
  <2>5. SameRanks(n, s)
    BY <2>2, <2>3, <2>4 DEF SameRanks
  <2>6. KeepsRanks(n, s)
    BY <1>1, <2>5, SameRanksKeep
  <2> QED BY <2>1, <2>6 DEF KeepsRanks, f, n
<1>4. CASE InOrderedList(s, v)
  <2>1. /\ n.priority = [s.priority EXCEPT ![v] = p]
        /\ \A y \in Counted : Range(n.waitingList[y]) = Range(s.waitingList[y])
        /\ Sorted(s) => Sorted(n)
    BY <1>4, SetPriorityListed
  <2> HIDE DEF n
  <2>2. /\ n.priority[v] = p /\ n.basePriority[v] = p
        /\ \A a \in Task \ {v} : /\ n.priority[a] = s.priority[a]
                                 /\ n.basePriority[a] = s.basePriority[a]
    BY <1>1, <1>2, <2>1
  <2>3. /\ f.waitingList = n.waitingList /\ f.waitValue = n.waitValue
        /\ f.basePriority = n.basePriority /\ f.pOwner = s.pOwner
        /\ \A a \in Task : f.priority[a] =
             IF s.state[v] = "mutexWait" /\ n.priority[a] < p /\ o = a
             THEN p ELSE n.priority[a]
    <3>1. /\ f.waitingList = n.waitingList /\ f.waitValue = n.waitValue
          /\ f.basePriority = n.basePriority /\ f.pOwner = s.pOwner
          /\ f.priority = [a \in Task |->
               IF s.state[v] = "mutexWait" /\ n.priority[a] < p
                    /\ s.pOwner[s.objPtr[v]] = a
               THEN p ELSE n.priority[a]]
      BY <1>4, SetPriorityLent DEF n
    <3> HIDE DEF f
    <3> QED BY <3>1
  <2> HIDE DEF f
  <2>4. /\ s.state[v] = "mutexWait" => x \in Mutex
        /\ s.state[v] # "mutexWait" => x \in Sem
        /\ x \in Counted
    BY <1>4 DEF Whole, Waits, InOrderedList, Counted
  <2>5. v \in Range(s.waitingList[x])
    <3>1. x \in SyncObj
      BY <2>4 DEF Counted, SyncObj
    <3> QED BY <1>4, <3>1 DEF Whole, Lists, WaitersAgree, InOrderedList, ListWait
  <2>6. \A m \in Mutex : s.pOwner[m] # v
    <3> SUFFICES ASSUME NEW m \in Mutex PROVE s.pOwner[m] # v
      OBVIOUS
    <3> QED BY <2>4, <2>5, OwnerNotListed
  <2>7. f.priority[v] = p
    BY <2>2, <2>3
  <2>8. ASSUME NEW y \in Counted, NEW a \in Range(s.waitingList[y])
        PROVE  a \in Task /\ f.priority[a] = n.priority[a]
    <3>1. a \in Task /\ s.objPtr[a] = y
      BY ListedWaits
    <3>2. s.state[v] = "mutexWait" => o # a
      <4> SUFFICES ASSUME s.state[v] = "mutexWait" PROVE o # a
        OBVIOUS
      <4>1. x \in Mutex
        BY <2>4
      <4> HIDE DEF x
      <4> QED BY <4>1, OwnerNotListed
    <3> QED BY <2>3, <3>1, <3>2
  <2>9. Sorted(s) => Sorted(f)
    <3> SUFFICES ASSUME Sorted(n), NEW y \in Counted
                 PROVE  Ranked(f.waitingList[y], f.waitValue, f.priority)
      BY <2>1 DEF Sorted
    <3>1. Ranked(n.waitingList[y], n.waitValue, n.priority) /\ n.waitingList[y] \in Seq(Task)
      BY <1>2 DEF Sorted, Tables, Counted, SyncObj
    <3>2. \A a \in Range(n.waitingList[y]) : /\ f.waitValue[a] = n.waitValue[a]
                                             /\ f.priority[a] = n.priority[a]
      BY <2>1, <2>3, <2>8
    <3>3. Ranked(n.waitingList[y], f.waitValue, f.priority)
      BY <3>1, <3>2, RankedSame
    <3> QED BY <2>3, <3>3
  <2>10. ASSUME s.state[v] = "mutexWait" => p >= s.basePriority[v], Lent(s), NEW a \in Task,
                f.priority[a] # f.basePriority[a]
         PROVE  LentTo(f, a)
    <3>1. a # v
      BY <2>2, <2>3, <2>7, <2>10
    <3>2. f.basePriority[a] = s.basePriority[a] /\ n.priority[a] = s.priority[a]
      BY <2>2, <2>3, <3>1
    <3>3. CASE s.state[v] = "mutexWait" /\ n.priority[a] < p /\ o = a
      <4>1. f.priority[a] = p /\ f.priority[v] = p
        BY <2>3, <2>7, <3>3
      <4>2. x \in Mutex /\ f.pOwner[x] = a /\ v \in Range(f.waitingList[x])
        BY <2>1, <2>3, <2>4, <2>5, <3>3
      <4> QED BY <4>1, <4>2 DEF LentTo
    <3>4. CASE ~ (s.state[v] = "mutexWait" /\ n.priority[a] < p /\ o = a)
      <4>1. f.priority[a] = s.priority[a]
        BY <2>3, <3>2, <3>4
      <4>2. LentTo(s, a)
        BY <2>10, <3>2, <4>1 DEF Lent
      <4>3. PICK m \in Mutex : /\ s.pOwner[m] = a
                               /\ \E w \in Range(s.waitingList[m]) :
                                    s.priority[w] = s.priority[a]
        BY <4>2 DEF LentTo
      <4>4. PICK w \in Range(s.waitingList[m]) : s.priority[w] = s.priority[a]
        BY <4>3
      <4>5. m \in Counted /\ w \in Range(f.waitingList[m]) /\ f.pOwner[m] = a
        BY <2>1, <2>3, <4>3, <4>4 DEF Counted
      <4>6. CASE w # v
        <5>1. f.priority[w] = s.priority[w]
          BY <2>2, <2>8, <4>4, <4>5, <4>6
        <5> QED BY <4>1, <4>3, <4>4, <4>5, <5>1 DEF LentTo
      <4>7. CASE w = v
        <5>1. m = x /\ s.state[v] = "mutexWait"
          BY <4>4, <4>5, <4>7, ListedWaits
        <5>2. s.priority[v] = s.basePriority[v]
          BY <2>6, <2>10 DEF Lent, LentTo
        <5>3. s.priority[a] = s.basePriority[v] /\ p >= s.basePriority[v] /\ o = a
          BY <2>10, <4>3, <4>4, <4>7, <5>1, <5>2
        <5>4. ~ (s.priority[a] < p)
          BY <3>2, <3>4, <5>1, <5>3
        <5>5. s.priority[a] \in Nat /\ p \in Nat
          BY <1>1
        <5>6. p = s.priority[a]
          BY <5>3, <5>4, <5>5
        <5> QED BY <2>7, <4>1, <4>5, <4>7, <5>6 DEF LentTo
      <4> QED BY <4>6, <4>7
    <3> QED BY <3>3, <3>4
  <2>11. (s.state[v] = "mutexWait" => p >= s.basePriority[v]) /\ Lent(s) => Lent(f)
    BY <2>10 DEF Lent
  <2> QED BY <2>9, <2>11 DEF f, n
<1> QED BY <1>3, <1>4

(* Who waits for a mutex, waits for one of another task, which does not.   *)
LEMMA WaiterOfMutex ==
  ASSUME NEW s, NEW T, Whole(s, T), NEW m \in Mutex, NEW t \in Range(s.waitingList[m])
  PROVE  /\ t \in Task /\ s.state[t] = "mutexWait" /\ s.objPtr[t] = m
         /\ s.pOwner[m] \in Task \ {t} /\ s.count[m] > 0
<1>1. m \in Counted
  BY DEF Counted
<1>2. t \in Task /\ s.state[t] = "mutexWait" /\ s.objPtr[t] = m
  BY <1>1, ListedWaits
<1> QED BY <1>2 DEF Whole, Waits

(* The waiters keep their priorities, and the owners theirs, but for those *)
(* that go back to what they were given, which is enough.                  *)
LEMMA ServedStill ==
  ASSUME NEW s, NEW T, Whole(s, T), NEW u,
         \A m \in Mutex : \A t \in Range(u.waitingList[m]) :
           /\ t \in Range(s.waitingList[m]) /\ u.priority[t] = s.priority[t]
           /\ u.pOwner[m] = s.pOwner[m]
           /\ \/ u.priority[s.pOwner[m]] = s.priority[s.pOwner[m]]
              \/ /\ u.priority[s.pOwner[m]] = s.basePriority[s.pOwner[m]]
                 /\ t \notin Above(s, m)
  PROVE  Served(s) => Served(u)
<1> SUFFICES ASSUME Served(s), NEW m \in Mutex, NEW t \in Range(u.waitingList[m])
             PROVE  u.priority[u.pOwner[m]] >= u.priority[t]
  BY DEF Served
<1> DEFINE o == s.pOwner[m]
<1>1. /\ t \in Range(s.waitingList[m]) /\ u.priority[t] = s.priority[t]
      /\ u.pOwner[m] = o
      /\ \/ u.priority[o] = s.priority[o]
         \/ u.priority[o] = s.basePriority[o] /\ t \notin Above(s, m)
  OBVIOUS
<1>2. t \in Task /\ o \in Task
  BY <1>1, WaiterOfMutex
<1>3. s.priority[t] \in Nat /\ s.basePriority[o] \in Nat
  BY <1>2, KernelAssumption DEF Whole, Lists, Tables, Prio
<1>4. CASE u.priority[o] = s.priority[o]
  BY <1>1, <1>4 DEF Served
<1>5. CASE u.priority[o] = s.basePriority[o] /\ t \notin Above(s, m)
  <2>1. ~ (s.priority[t] > s.basePriority[o])
    BY <1>1, <1>5 DEF Above
  <2> QED BY <1>1, <1>3, <1>5, <2>1
<1> QED BY <1>1, <1>4, <1>5

(* aaRemoveTaskFromLists_: the owner that goes back to its own priority had*)
(* it from nobody else.                                                    *)
LEMMA RemoveFromListsServed ==
  ASSUME NEW s, NEW T, Whole(s, T), OwnersRun(s), NEW t \in Task,
         s.state[t] = "mutexWait" => OnlyLender(s, t)
  PROVE  KeepsLoans(RemoveFromLists(s, t), s)
<1> DEFINE f == RemoveFromLists(s, t)
           x == s.objPtr[t]
           o == s.pOwner[x]
           back == s.state[t] = "mutexWait" /\ InheritsFrom(s, o, t)
           l == ListRemove(s.waitingList[x], t)
<1>1. /\ s \in Tables /\ s.waitingList \in [SyncObj -> Seq(Task)] /\ Mutex \subseteq SyncObj
      /\ s.priority \in [Task -> Prio] /\ WaitersAgree(s, {}) /\ Mutex \subseteq Counted
      /\ Counted \subseteq SyncObj
  BY DEF Whole, Lists, Tables, Counted, SyncObj
<1>2. ASSUME ~ InOrderedList(s, t)
      PROVE  Served(s) => Served(f)
  <2>1. /\ \A y \in Counted : f.waitingList[y] = s.waitingList[y]
        /\ f.waitValue = s.waitValue /\ f.basePriority = s.basePriority
        /\ f.pOwner = s.pOwner /\ f.priority = s.priority
    BY <1>2, RemoveOtherQueues
  <2> HIDE DEF f
  <2>2. Served(s) => Served(f)
    BY <1>1, <2>1 DEF Served
  <2> QED BY <2>2
<1>3. ASSUME InOrderedList(s, t)
      PROVE  Served(s) => Served(f)
  <2>1. /\ x \in Counted /\ (s.state[t] = "mutexWait" <=> x \in Mutex)
        /\ x \in Mutex => o \in Task \ {t}
        /\ f.waitingList = [s.waitingList EXCEPT ![x] = ListRemove(s.waitingList[x], t)]
        /\ f.waitValue = s.waitValue /\ f.basePriority = s.basePriority
        /\ f.pOwner = s.pOwner
        /\ back => f.priority = [s.priority EXCEPT ![o] = s.basePriority[o]]
        /\ ~ back => f.priority = s.priority
    BY <1>3, RemoveFromListsQueues
  <2> HIDE DEF f, back
  <2>2. Range(l) = Range(s.waitingList[x]) \ {t}
    <3>1. NoRepeat(s.waitingList[x]) /\ s.waitingList[x] \in Seq(Task)
      BY <1>1, <2>1 DEF WaitersAgree
    <3> QED BY <3>1, ListRemoveFacts
  <2>3. ASSUME NEW m \in Mutex, NEW a \in Range(f.waitingList[m])
        PROVE  /\ a \in Range(s.waitingList[m]) /\ f.priority[a] = s.priority[a]
               /\ f.pOwner[m] = s.pOwner[m]
               /\ \/ f.priority[s.pOwner[m]] = s.priority[s.pOwner[m]]
                  \/ /\ f.priority[s.pOwner[m]] = s.basePriority[s.pOwner[m]]
                     /\ a \notin Above(s, m)
    <3>1. a \in Range(s.waitingList[m]) /\ (m = x => a # t)
      <4>1. CASE m = x
        <5>1. f.waitingList[m] = l
          BY <1>1, <2>1, <4>1
        <5> QED BY <2>2, <4>1, <5>1
      <4>2. CASE m # x
        <5>1. f.waitingList[m] = s.waitingList[m]
          BY <1>1, <2>1, <4>2
        <5> QED BY <4>2, <5>1
      <4> QED BY <4>1, <4>2
    <3>2. /\ a \in Task /\ s.state[a] = "mutexWait" /\ s.objPtr[a] = m
          /\ s.pOwner[m] \in Task
      BY <3>1, WaiterOfMutex
    <3>3. back => o # a
      <4> SUFFICES ASSUME back PROVE o # a
        OBVIOUS
      <4>1. x \in Mutex
        BY <2>1 DEF back
      <4> QED BY <3>2, <4>1 DEF OwnersRun
    <3>4. f.priority[a] = s.priority[a]
      BY <1>1, <2>1, <3>2, <3>3
    <3>5. CASE back /\ s.pOwner[m] = o
      <4>1. f.priority[s.pOwner[m]] = s.basePriority[s.pOwner[m]]
        BY <1>1, <2>1, <3>2, <3>5
      <4>2. OnlyLender(s, t)
        BY <3>5 DEF back
      <4>3. Above(s, m) \subseteq {t}
        BY <3>5, <4>2 DEF OnlyLender
      <4>4. a # t
        BY <3>1, <3>2
      <4> QED BY <2>1, <3>1, <3>4, <4>1, <4>3, <4>4
    <3>6. CASE ~ (back /\ s.pOwner[m] = o)
      <4>1. f.priority[s.pOwner[m]] = s.priority[s.pOwner[m]]
        BY <1>1, <2>1, <3>2, <3>6
      <4> QED BY <2>1, <3>1, <3>4, <4>1
    <3> QED BY <3>5, <3>6
  <2> HIDE DEF x, o, l
  <2> QED BY <2>3, ServedStill
<1>4. Served(s) => Served(f)
  BY <1>2, <1>3
<1> QED BY <1>4, RemoveFromListsRanks DEF KeepsLoans

(* The wait of t ends in vain.                                             *)
LEMMA WakeByTimeoutServed ==
  ASSUME NEW s, NEW T, Whole(s, T), OwnersRun(s), NEW t \in Task,
         s.state[t] = "mutexWait" => OnlyLender(s, t)
  PROVE  KeepsLoans(WakeByTimeout(s, t), s)
<1> DEFINE u == RemoveFromLists(s, t)
           v == [u EXCEPT !.flags[t] = @ \cup {"DELAYTMO"}]
<1>1. KeepsLoans(u, s)
  BY RemoveFromListsServed
<1> HIDE DEF u
<1>2. SameQueues(v, u)
  BY DEF SameQueues
<1> HIDE DEF v
<1>3. SameQueues(PutInList(v, t), v)
  BY QueuesUntouched
<1>4. KeepsLoans(PutInList(v, t), u)
  BY <1>2, <1>3, QueuesTransitive, SameQueuesLoans
<1>5. KeepsLoans(PutInList(v, t), s)
  BY <1>1, <1>4, LoansTransitive
<1> QED BY <1>5 DEF WakeByTimeout, u, v

(* aaTaskDelete of a task, whatever it waits for.                          *)
LEMMA DeletedServed ==
  ASSUME NEW s, NEW T, Whole(s, T), OwnersRun(s), NEW v \in Task,
         s.state[v] = "mutexWait" => OnlyLender(s, v)
  PROVE  KeepsLoans(Deleted(s, v), s)
<1> DEFINE e == IF s.state[v] = "ready" THEN RemoveReady(s, v)
                ELSE IF s.state[v] = "suspended" THEN [s EXCEPT !.suspended = @ \ {v}]
                ELSE RemoveFromLists(s, v)
           u == [e EXCEPT !.state[v] = "none", !.sched = FALSE]
<1>1. KeepsLoans(e, s)
  <2>1. KeepsLoans(RemoveReady(s, v), s)
    BY QueuesUntouched, SameQueuesLoans
  <2>2. SameQueues([s EXCEPT !.suspended = @ \ {v}], s)
    BY DEF SameQueues
  <2>3. KeepsLoans([s EXCEPT !.suspended = @ \ {v}], s)
    BY <2>2, SameQueuesLoans
  <2>4. KeepsLoans(RemoveFromLists(s, v), s)
    BY RemoveFromListsServed
  <2> QED BY <2>1, <2>3, <2>4
<1>2. Deleted(s, v) = u
  BY DEF Deleted
<1> HIDE DEF e
<1>3. SameQueues(u, e)
  BY DEF SameQueues
<1> HIDE DEF u
<1>4. KeepsLoans(u, s)
  BY <1>1, <1>3, SameQueuesLoans, LoansTransitive
<1> QED BY <1>2, <1>4

(* The first task of a list in order has the highest priority.             *)
LEMMA HeadHighest ==
  ASSUME NEW l \in Seq(Task), NEW value, NEW prio, \A a \in Task : prio[a] \in Nat,
         Ranked(l, value, prio), NEW t \in Range(l)
  PROVE  prio[Head(l)] >= prio[t]
<1> DEFINE v == [a \in Task |-> - prio[a]]
<1>1. DOMAIN l = 1 .. Len(l) /\ \A i \in 1 .. Len(l) : l[i] \in Task
  BY LenProperties, ElementOfSeq
<1>2. PICK i \in DOMAIN l : t = l[i]
  BY DEF Range
<1>3. 1 \in DOMAIN l /\ Head(l) = l[1] /\ (i = 1 \/ 1 < i)
  BY <1>1, <1>2, LenProperties
<1> DEFINE h == Head(l)
<1>4. h \in Task /\ t \in Task
  BY <1>1, <1>2, <1>3
<1>5. CASE i = 1
  <2>1. t = h
    BY <1>2, <1>3, <1>5
  <2> HIDE DEF h
  <2> QED BY <1>4, <2>1 DEF h
<1>6. CASE 1 < i
  <2>1. Ascending(l, v)
    BY DEF Ranked
  <2> HIDE DEF v
  <2>2. v[h] <= v[t]
    BY <1>2, <1>3, <1>6, <2>1 DEF Ascending
  <2> HIDE DEF h
  <2>3. v[h] = - prio[h] /\ v[t] = - prio[t]
    BY <1>4 DEF v
  <2>4. prio[h] >= prio[t]
    BY <1>4, <2>2, <2>3
  <2> QED BY <2>4 DEF h
<1> QED BY <1>3, <1>5, <1>6

(* aaMutexGive: the giver had its priority through no other mutex, and the *)
(* new owner is the highest of the waiters.                                *)
LEMMA MutexGiveServed ==
  ASSUME NEW s, NEW T, Whole(s, T), OwnersRun(s), NEW t \in Task, NEW m \in Mutex,
         s.pOwner[m] = t, NEW L \in SUBSET Mutex, Sorted(s), Served(s),
         \A n \in Mutex \ {m} : s.pOwner[n] = t => Above(s, n) = {}
  PROVE  Served(HandOver(NewPrio([s EXCEPT !.mutexList[t] = L], t), m))
<1> DEFINE u == HandOver(NewPrio([s EXCEPT !.mutexList[t] = L], t), m)
           l == s.waitingList[m]
           h == Head(l)
<1>1. /\ m \in SyncObj /\ m \in Counted /\ s \in Tables
      /\ s.waitingList \in [SyncObj -> Seq(Task)] /\ Mutex \subseteq SyncObj
      /\ s.priority \in [Task -> Prio] /\ s.pOwner \in [Mutex -> Task \cup {None, Free}]
  BY DEF SyncObj, Counted, Whole, Lists, Tables
<1>2. GivenOn(u, s, t, m)
  BY MutexGiveQueues
<1> HIDE DEF u
<1>3. /\ u.basePriority = s.basePriority
      /\ u.priority = [s.priority EXCEPT ![t] = s.basePriority[t]]
      /\ l # << >> => /\ u.waitingList = [s.waitingList EXCEPT ![m] = Tail(l)]
                     /\ u.pOwner = [s.pOwner EXCEPT ![m] = h]
      /\ l = << >> => /\ u.waitingList = s.waitingList
                     /\ u.pOwner = [s.pOwner EXCEPT ![m] = None]
  BY <1>2 DEF GivenOn
<1>4. u.priority[t] = s.basePriority[t] /\ \A a \in Task \ {t} : u.priority[a] = s.priority[a]
  BY <1>1, <1>3
<1>5. \A a \in Task : s.priority[a] \in Nat /\ s.basePriority[a] \in Nat
  BY KernelAssumption DEF Whole, Lists, Tables, Prio
<1>6. ASSUME NEW n \in Mutex, NEW a \in Range(s.waitingList[n])
      PROVE  a \in Task /\ a # t /\ u.priority[a] = s.priority[a] /\ s.pOwner[n] \in Task
  <2>1. a \in Task /\ s.state[a] = "mutexWait" /\ s.pOwner[n] \in Task
    BY WaiterOfMutex
  <2>2. a # t
    BY <2>1 DEF OwnersRun
  <2> QED BY <1>4, <2>1, <2>2
<1>7. ASSUME NEW n \in Mutex \ {m}, NEW a \in Range(u.waitingList[n])
      PROVE  u.priority[u.pOwner[n]] >= u.priority[a]
  <2> DEFINE o == s.pOwner[n]
  <2>1. a \in Range(s.waitingList[n]) /\ u.pOwner[n] = o
    BY <1>1, <1>3
  <2>2. a \in Task /\ o \in Task /\ u.priority[a] = s.priority[a]
    BY <1>6, <2>1
  <2>3. s.priority[o] >= s.priority[a]
    BY <2>1 DEF Served
  <2>4. CASE o = t
    <3>1. a \notin Above(s, n)
      BY <2>4
    <3>2. ~ (s.priority[a] > s.basePriority[o])
      BY <2>1, <3>1 DEF Above
    <3> HIDE DEF o
    <3>3. s.basePriority[o] >= s.priority[a]
      BY <1>5, <2>2, <3>2
    <3> QED BY <1>4, <2>1, <2>2, <2>4, <3>3
  <2>5. CASE o # t
    <3> HIDE DEF o
    <3> QED BY <1>4, <2>1, <2>2, <2>3, <2>5
  <2> QED BY <2>4, <2>5
<1>8. ASSUME NEW a \in Range(u.waitingList[m])
      PROVE  u.priority[u.pOwner[m]] >= u.priority[a]
  <2>1. s.waitingList[m] \in Seq(Task) /\ l \in Seq(Task)
    BY <1>1
  <2>2. l # << >>
    <3> SUFFICES ASSUME l = << >> PROVE FALSE
      OBVIOUS
    <3>1. u.waitingList[m] = << >>
      BY <1>3
    <3> QED BY <3>1, NoNodes
  <2>3. u.waitingList[m] = Tail(l) /\ u.pOwner[m] = h
    BY <1>1, <1>3, <2>2
  <2>4. Range(Tail(l)) = Range(l) \ {h} /\ h \in Range(l)
    <3>1. NoRepeat(l)
      BY <1>1 DEF Whole, Lists, WaitersAgree
    <3> QED BY <2>1, <2>2, <3>1, TailFacts
  <2>5. a \in Range(l)
    BY <2>3, <2>4
  <2>6. Ranked(l, s.waitValue, s.priority)
    BY <1>1 DEF Sorted
  <2>7. s.priority[h] >= s.priority[a]
    <3> HIDE DEF l
    <3>1. \A b \in Task : s.priority[b] \in Nat
      BY <1>5
    <3> QED BY <2>1, <2>5, <2>6, <3>1, HeadHighest
  <2>8. u.priority[h] = s.priority[h] /\ u.priority[a] = s.priority[a]
    BY <1>6, <2>4, <2>5
  <2> HIDE DEF h
  <2> QED BY <2>3, <2>7, <2>8
<1>9. Served(u)
  BY <1>7, <1>8 DEF Served
<1> QED BY <1>9 DEF u

(* aaMutexTake that waits: the owner gets the priority of the new waiter.  *)
LEMMA MutexTakeWaitServed ==
  ASSUME NEW s, NEW T, Whole(s, T), OwnersRun(s), NEW t \in Task, s.state[t] = "ready",
         NEW m \in Mutex, s.pOwner[m] \in Task \ {t}, NEW causes, NEW d, Served(s)
  PROVE  LET asked == [s EXCEPT !.objPtr[t] = m]
             lent  == IF s.priority[t] > s.priority[s.pOwner[m]] THEN Propagate(asked, t)
                                                                 ELSE asked
         IN  Served(WaitOrdered(lent, t, m, "mutexWait", causes, d))
<1> DEFINE asked == [s EXCEPT !.objPtr[t] = m]
           lent == IF s.priority[t] > s.priority[s.pOwner[m]] THEN Propagate(asked, t)
                                                              ELSE asked
           u == WaitOrdered(lent, t, m, "mutexWait", causes, d)
           o == s.pOwner[m]
           value == [s.waitValue EXCEPT ![t] = s.priority[t]]
<1>1. /\ s.waitingList \in [SyncObj -> Seq(Task)] /\ Mutex \subseteq SyncObj
      /\ WaitersAgree(s, {})
  BY DEF Whole, Lists, Tables, SyncObj
<1>2. /\ lent.waitingList = s.waitingList /\ lent.waitValue = s.waitValue
      /\ lent.basePriority = s.basePriority /\ lent.pOwner = s.pOwner
      /\ lent.priority = [a \in Task |->
           IF s.priority[a] < s.priority[t] /\ s.pOwner[m] = a
           THEN s.priority[t] ELSE s.priority[a]]
  BY LentQueues
<1> HIDE DEF lent
<1>3. Joined(u, lent, t, m) /\ u.priority = lent.priority
  BY WaitOrderedQueues
<1> HIDE DEF u
<1>4. \A a \in Task : u.priority[a] = IF s.priority[a] < s.priority[t] /\ o = a
                                      THEN s.priority[t] ELSE s.priority[a]
  BY <1>2, <1>3
<1>5. \A a \in Task : s.priority[a] \in Nat
  BY KernelAssumption DEF Whole, Lists, Tables, Prio
<1>6. /\ u.pOwner = s.pOwner
      /\ \A n \in Mutex \ {m} : u.waitingList[n] = s.waitingList[n]
      /\ Range(u.waitingList[m]) = Range(s.waitingList[m]) \cup {t}
  <2> DEFINE val == [lent.waitValue EXCEPT ![t] = lent.priority[t]]
  <2>1. /\ u.waitingList = [s.waitingList EXCEPT ![m] = AddOrdered(@, val, t)]
        /\ u.pOwner = s.pOwner
    BY <1>2, <1>3 DEF Joined
  <2> HIDE DEF val
  <2>2. NoRepeat(s.waitingList[m]) /\ s.waitingList[m] \in Seq(Task)
    BY <1>1 DEF WaitersAgree
  <2>3. Range(AddOrdered(s.waitingList[m], val, t)) = Range(s.waitingList[m]) \cup {t}
    BY <2>2, AddOrderedFacts
  <2> QED BY <1>1, <2>1, <2>3
<1>7. ASSUME NEW n \in Mutex, NEW a \in Range(u.waitingList[n])
      PROVE  u.priority[u.pOwner[n]] >= u.priority[a]
  <2> DEFINE q == s.pOwner[n]
  <2>1. CASE n = m /\ a = t
    <3>1. u.priority[t] = s.priority[t] /\ u.priority[o] >= s.priority[t] /\ u.pOwner[n] = o
      BY <1>4, <1>5, <1>6, <2>1
    <3> QED BY <2>1, <3>1
  <2>2. CASE a \in Range(s.waitingList[n])
    <3>1. a \in Task /\ s.state[a] = "mutexWait" /\ q \in Task
      BY <2>2, WaiterOfMutex
    <3>2. a # o
      BY <3>1 DEF OwnersRun
    <3>3. u.priority[a] = s.priority[a]
      BY <1>4, <3>1, <3>2
    <3>4. s.priority[q] >= s.priority[a]
      BY <2>2 DEF Served
    <3> HIDE DEF q
    <3>5. u.priority[q] >= s.priority[q] /\ u.priority[q] \in Nat
      BY <1>4, <1>5, <3>1
    <3>6. u.priority[q] >= u.priority[a]
      BY <1>5, <3>1, <3>3, <3>4, <3>5
    <3> QED BY <1>6, <3>6 DEF q
  <2> QED BY <1>6, <2>1, <2>2
<1>8. Served(u)
  BY <1>7 DEF Served
<1> QED BY <1>8 DEF u, lent, asked

(* aaTaskSetPriority: an owner gets no priority below its waiters', one of *)
(* which may be v.                                                         *)
LEMMA SetPriorityServed ==
  ASSUME NEW s, NEW T, Whole(s, T), OwnersRun(s), NEW v \in Task, NEW p \in Prio, Served(s),
         \A m \in Mutex : s.pOwner[m] = v =>
           \A a \in Range(s.waitingList[m]) : p >= s.priority[a]
  PROVE  LET n == NewPrio([s EXCEPT !.basePriority[v] = p], v)
             f == IF n.state[v] = "mutexWait" THEN Propagate(n, v) ELSE n
         IN  Served(f)
<1> DEFINE n == NewPrio([s EXCEPT !.basePriority[v] = p], v)
           f == IF n.state[v] = "mutexWait" THEN Propagate(n, v) ELSE n
<1>1. s.priority \in [Task -> Prio] /\ Mutex \subseteq Counted
  BY DEF Whole, Lists, Tables, Counted
<1>2. n.state = s.state
  BY SetPriorityTyped
<1>3. p \in Nat /\ \A a \in Task : s.priority[a] \in Nat
  BY KernelAssumption DEF Whole, Lists, Tables, Prio
<1>4. ASSUME ~ InOrderedList(s, v)
      PROVE  Served(f)
  <2>1. f = n
    BY <1>2, <1>4 DEF InOrderedList
  <2>2. /\ n.waitingList = s.waitingList /\ n.waitValue = s.waitValue
        /\ n.pOwner = s.pOwner
        /\ n.basePriority = [s.basePriority EXCEPT ![v] = p]
        /\ n.priority = [s.priority EXCEPT ![v] = p]
    BY <1>4, SetPriorityOther
  <2> HIDE DEF n, f
  <2>3. n.priority[v] = p /\ \A a \in Task \ {v} : n.priority[a] = s.priority[a]
    BY <1>1, <2>2
  <2>4. ASSUME NEW m \in Mutex, NEW a \in Range(s.waitingList[m])
        PROVE  n.priority[s.pOwner[m]] >= n.priority[a]
    <3>1. a \in Task /\ s.state[a] = "mutexWait" /\ s.pOwner[m] \in Task
      BY WaiterOfMutex
    <3>2. a # v
      BY <1>4, <3>1 DEF InOrderedList
    <3>3. n.priority[a] = s.priority[a]
      BY <2>3, <3>1, <3>2
    <3>4. CASE s.pOwner[m] = v
      BY <2>3, <3>3, <3>4
    <3>5. CASE s.pOwner[m] # v
      <4>1. s.priority[s.pOwner[m]] >= s.priority[a]
        BY DEF Served
      <4> QED BY <2>3, <3>1, <3>3, <3>5, <4>1
    <3> QED BY <3>4, <3>5
  <2>5. Served(n)
    BY <2>2, <2>4 DEF Served
  <2> QED BY <2>1, <2>5
<1>5. ASSUME InOrderedList(s, v)
      PROVE  Served(f)
  <2> DEFINE o == s.pOwner[s.objPtr[v]]
             lends == s.state[v] = "mutexWait"
  <2>1. /\ n.priority = [s.priority EXCEPT ![v] = p]
        /\ \A y \in Counted : Range(n.waitingList[y]) = Range(s.waitingList[y])
    BY <1>5, SetPriorityListed
  <2>2. /\ f.waitingList = n.waitingList /\ f.waitValue = n.waitValue
        /\ f.basePriority = n.basePriority /\ f.pOwner = s.pOwner
        /\ f.priority = [a \in Task |->
             IF s.state[v] = "mutexWait" /\ n.priority[a] < p
                  /\ s.pOwner[s.objPtr[v]] = a
             THEN p ELSE n.priority[a]]
    BY <1>5, SetPriorityLent
  <2> HIDE DEF n, f
  <2>3. n.priority[v] = p /\ \A a \in Task \ {v} : n.priority[a] = s.priority[a]
    BY <1>1, <2>1
  <2>4. \A a \in Task : f.priority[a] = IF lends /\ n.priority[a] < p /\ o = a
                                        THEN p ELSE n.priority[a]
    BY <2>2
  <2>5. lends => o # v
    BY DEF Whole, Waits
  <2>6. f.priority[v] = p
    BY <2>3, <2>4, <2>5
  <2>7. ASSUME NEW m \in Mutex, NEW a \in Range(s.waitingList[m])
        PROVE  f.priority[s.pOwner[m]] >= f.priority[a]
    <3> DEFINE q == s.pOwner[m]
    <3>1. /\ a \in Task /\ s.state[a] = "mutexWait" /\ q \in Task \ {a}
          /\ s.objPtr[a] = m
      BY WaiterOfMutex
    <3>2. q # v
      BY <1>5, <3>1 DEF OwnersRun, InOrderedList
    <3>3. n.priority[q] = s.priority[q]
      BY <2>3, <3>1, <3>2
    <3>4. CASE a = v
      <4>1. lends /\ o = q
        BY <3>1, <3>4
      <4> HIDE DEF o, q, lends
      <4> QED BY <1>3, <2>4, <2>6, <3>1, <3>3, <3>4, <4>1 DEF q
    <3>5. CASE a # v
      <4>1. lends => o # a
        <5> SUFFICES ASSUME lends PROVE o # a
          OBVIOUS
        <5>1. s.objPtr[v] \in Mutex
          BY DEF Whole, Waits
        <5> QED BY <3>1, <5>1 DEF OwnersRun
      <4>2. f.priority[a] = s.priority[a]
        BY <2>3, <2>4, <3>1, <3>5, <4>1
      <4>3. s.priority[q] >= s.priority[a]
        BY DEF Served
      <4> HIDE DEF o, q, lends
      <4>4. f.priority[q] >= s.priority[q] /\ f.priority[q] \in Nat
        BY <1>3, <2>4, <3>1, <3>3
      <4>5. f.priority[q] >= f.priority[a]
        BY <1>3, <3>1, <4>2, <4>3, <4>4
      <4> QED BY <4>5 DEF q
    <3> QED BY <3>4, <3>5
  <2>8. ASSUME NEW m \in Mutex, NEW a \in Range(f.waitingList[m])
        PROVE  f.priority[f.pOwner[m]] >= f.priority[a]
    <3>1. a \in Range(s.waitingList[m]) /\ f.pOwner[m] = s.pOwner[m]
      BY <1>1, <2>1, <2>2
    <3> QED BY <2>7, <3>1
  <2> QED BY <2>8 DEF Served
<1> HIDE DEF f
<1>6. Served(f)
  BY <1>4, <1>5
<1> QED BY <1>6 DEF f, n

(* aaTaskCreate: a new task is no waiter, and if it is an owner still it is*)
(* not below its waiters.                                                  *)
LEMMA TaskCreateServed ==
  ASSUME IInv, NEW t, NEW v, NEW p, TaskCreate(t, v, p), Served(k),
         \A m \in Mutex : k.pOwner[m] = v =>
           \A a \in Range(k.waitingList[m]) : p >= k.priority[a]
  PROVE  Served(k')
<1> DEFINE s == k
           T == TimedCalls(pc)
           u == k'
<1>1. Whole(s, T) /\ s.priority \in [Task -> Prio]
  BY TablesTyped DEF Running, Tables
<1>2. v \in Task /\ s.state[v] = "none"
  BY TcbFacts DEF TaskCreate
<1>3. /\ u.waitingList = s.waitingList /\ u.pOwner = s.pOwner
      /\ u.priority = [s.priority EXCEPT ![v] = p]
  BY DEF TaskCreate
<1>4. /\ Served(s)
      /\ \A m \in Mutex : s.pOwner[m] = v => \A a \in Range(s.waitingList[m]) : p >= s.priority[a]
  OBVIOUS
<1> HIDE DEF s, T, u
<1>5. u.priority[v] = p /\ \A a \in Task \ {v} : u.priority[a] = s.priority[a]
  BY <1>1, <1>2, <1>3
<1>6. ASSUME NEW m \in Mutex, NEW a \in Range(s.waitingList[m])
      PROVE  u.priority[s.pOwner[m]] >= u.priority[a]
  <2>1. a \in Task /\ s.state[a] = "mutexWait" /\ s.pOwner[m] \in Task
    BY <1>1, WaiterOfMutex
  <2>2. u.priority[a] = s.priority[a]
    BY <1>2, <1>5, <2>1
  <2>3. CASE s.pOwner[m] = v
    BY <1>4, <1>5, <2>2, <2>3
  <2>4. CASE s.pOwner[m] # v
    <3>1. s.priority[s.pOwner[m]] >= s.priority[a]
      BY <1>4 DEF Served
    <3> QED BY <1>5, <2>1, <2>2, <2>4, <3>1
  <2> QED BY <2>3, <2>4
<1>7. Served(u)
  BY <1>3, <1>6 DEF Served
<1> QED BY <1>7 DEF u

-----------------------------------------------------------------------------
(* Each action keeps the order of the waiting lists, and the loans needed. *)

(* A step that touches none of the queues.                                 *)
LEMMA StepKeepsLoans ==
  ASSUME SameQueues(k', k)
  PROVE  KeepsLoans(k', k)
<1> DEFINE s == k
           u == k'
<1>1. SameQueues(u, s)
  OBVIOUS
<1> HIDE DEF s, u
<1>2. KeepsLoans(u, s)
  BY <1>1, SameQueuesLoans
<1> QED BY <1>2 DEF s, u

(* The end of a service touches none of the queues ...                     *)
LEMMA ServiceQueues ==
  ASSUME NEW s,
         \/ CalledFromTask(s) \/ CalledFromIsr(s)
         \/ k' = s \/ k' = Schedule(s)
  PROVE  SameQueues(k', s)
<1> DEFINE u == k'
<1>1. \/ u = s \/ u = ScheduleIf(s) \/ u = Schedule(s)
      \/ u = [s EXCEPT !.sched = FALSE]
  BY DEF CalledFromTask, CalledFromIsr
<1> HIDE DEF u
<1>2. SameQueues(Schedule(s), s) /\ SameQueues(ScheduleIf(s), s)
  BY QueuesUntouched
<1>3. SameQueues(u, s)
  <2>1. CASE u = s
    BY <2>1 DEF SameQueues
  <2>2. CASE u = [s EXCEPT !.sched = FALSE]
    BY <2>2 DEF SameQueues
  <2> QED BY <1>1, <1>2, <2>1, <2>2
<1> QED BY <1>3 DEF u

(* ... so it adds nothing to what the service did.                         *)
LEMMA ServiceKeepsRanks ==
  ASSUME NEW s, KeepsRanks(s, k),
         \/ CalledFromTask(s) \/ CalledFromIsr(s)
         \/ k' = s \/ k' = Schedule(s)
  PROVE  KeepsRanks(k', k)
<1> DEFINE w == k
           u == k'
<1>1. SameQueues(u, s)
  BY ServiceQueues
<1>2. KeepsRanks(s, w)
  OBVIOUS
<1> HIDE DEF u, w
<1>3. KeepsRanks(u, w)
  BY <1>1, <1>2, SameQueuesKeep, RanksTransitive
<1> QED BY <1>3 DEF u, w

(* The same for the loans.                                                 *)
LEMMA ServiceKeepsLoans ==
  ASSUME NEW s, KeepsLoans(s, k),
         \/ CalledFromTask(s) \/ CalledFromIsr(s)
         \/ k' = s \/ k' = Schedule(s)
  PROVE  KeepsLoans(k', k)
<1> DEFINE w == k
           u == k'
<1>1. SameQueues(u, s)
  BY ServiceQueues
<1>2. KeepsLoans(s, w)
  OBVIOUS
<1> HIDE DEF u, w
<1>3. KeepsLoans(u, w)
  BY <1>1, <1>2, SameQueuesLoans, LoansTransitive
<1> QED BY <1>3 DEF u, w

(* Nobody waits for a mutex that is free, or for a semaphore not in use.   *)
LEMMA FreeUnlisted ==
  ASSUME IInv, NEW x \in Counted,
         x \in Mutex => k.pOwner[x] \notin Task \/ k.count[x] = 0,
         x \in Sem => x \notin k.semUsed
  PROVE  k.waitingList[x] = << >>
<1> DEFINE s == k
           T == TimedCalls(pc)
<1>1. /\ s \in Tables /\ Whole(s, T) /\ Waits(s)
      /\ x \in Mutex => s.pOwner[x] \notin Task \/ s.count[x] = 0
      /\ x \in Sem => x \notin s.semUsed
  BY TablesTyped DEF Running
<1> HIDE DEF s, T
<1>2. ASSUME NEW t \in Range(s.waitingList[x])
      PROVE  FALSE
  <2>1. /\ t \in Task /\ s.objPtr[t] = x
        /\ x \in Mutex => s.state[t] = "mutexWait"
        /\ x \in Sem => s.state[t] = "semWait"
    BY <1>1, ListedWaits
  <2>2. x \in Mutex \/ x \in Sem
    BY DEF Counted
  <2>3. x \in Mutex => s.pOwner[x] \in Task /\ s.count[x] > 0
    BY <1>1, <2>1 DEF Waits
  <2>4. x \in Sem => x \in s.semUsed
    BY <1>1, <2>1 DEF Waits
  <2> QED BY <1>1, <2>2, <2>3, <2>4
<1>3. s.waitingList[x] \in Seq(Task)
  BY <1>1 DEF Tables, Counted, SyncObj
<1>4. s.waitingList[x] = << >>
  BY <1>2, <1>3, EmptyFacts
<1> QED BY <1>4 DEF s

(* Whose mutex has no waiters does not matter.                             *)
LEMMA OwnerKeepsLoans ==
  ASSUME IInv, NEW m \in Mutex, k.waitingList[m] = << >>, NEW o,
         k'.pOwner = [k.pOwner EXCEPT ![m] = o],
         k'.waitingList = k.waitingList, k'.waitValue = k.waitValue,
         k'.priority = k.priority, k'.basePriority = k.basePriority
  PROVE  KeepsLoans(k', k)
<1>1. k.pOwner \in [Mutex -> Task \cup {None, Free}]
  BY TablesTyped DEF Tables
<1>2. \A n \in Mutex : k.waitingList[n] # << >> => k'.pOwner[n] = k.pOwner[n]
  BY <1>1
<1>3. SameRanks(k', k)
  BY <1>2 DEF SameRanks
<1> DEFINE s == k
           u == k'
           T == TimedCalls(pc)
<1>4. /\ s \in Tables /\ Whole(s, T) /\ SameRanks(u, s)
      /\ \A n \in Mutex : s.waitingList[n] # << >> => u.pOwner[n] = s.pOwner[n]
      /\ u.waitingList = s.waitingList /\ u.priority = s.priority
  BY <1>2, <1>3, TablesTyped DEF Running
<1> HIDE DEF s, u, T
<1>5. KeepsRanks(u, s)
  BY <1>4, SameRanksKeep
<1>6. ASSUME NEW n \in Mutex, NEW a \in Range(u.waitingList[n])
      PROVE  u.pOwner[n] = s.pOwner[n]
  <2>1. s.waitingList[n] # << >>
    BY <1>4, NoNodes
  <2> QED BY <1>4, <2>1
<1>7. Served(s) => Served(u)
  BY <1>4, <1>6, ServedSame
<1>8. KeepsLoans(u, s)
  BY <1>5, <1>7 DEF KeepsLoans
<1> QED BY <1>8 DEF s, u

(* The actions of aamutex.c that neither wait for a mutex nor give one.    *)
LEMMA MutexLoans ==
  ASSUME IInv, OwnersNeverWait, MutexNext,
         ~ \E t \in Task, m \in Mutex, d \in TakeDelays : MutexTakeWait(t, m, d),
         ~ \E t \in Task, m \in Mutex : MutexGive(t, m)
  PROVE  KeepsLoans(k', k)
<1>1. k \in Tables /\ Mutex \subseteq Counted
  BY TablesTyped DEF Counted
<1>2. ASSUME NEW t \in Task, NEW m \in Mutex,
             MutexCreate(t, m) \/ MutexDelete(t, m) \/ MutexTakeFree(t, m)
      PROVE  KeepsLoans(k', k)
  <2>1. m \in Counted /\ m \notin Sem /\ m \in SyncObj
    BY KernelAssumption DEF Counted, SyncObj
  <2>2. k.pOwner[m] = Free \/ k.count[m] = 0
    BY <1>2 DEF MutexCreate, MutexDelete, MutexTakeFree
  <2>3. k.waitingList[m] = << >>
    BY <2>1, <2>2, FreeUnlisted, KernelAssumption
  <2>4. k.waitingList \in [SyncObj -> Seq(Task)]
    BY <1>1 DEF Tables
  <2>5. CASE MutexCreate(t, m)
    <3>1. /\ k'.pOwner = [k.pOwner EXCEPT ![m] = None]
          /\ k'.waitingList = [k.waitingList EXCEPT ![m] = << >>]
          /\ k'.waitValue = k.waitValue /\ k'.priority = k.priority
          /\ k'.basePriority = k.basePriority
      BY <2>5 DEF MutexCreate
    <3>2. k'.waitingList = k.waitingList
      BY <2>1, <2>3, <2>4, <3>1
    <3> QED BY <2>3, <3>1, <3>2, OwnerKeepsLoans
  <2>6. CASE MutexDelete(t, m)
    <3>1. /\ k'.pOwner = [k.pOwner EXCEPT ![m] = Free]
          /\ k'.waitingList = k.waitingList
          /\ k'.waitValue = k.waitValue /\ k'.priority = k.priority
          /\ k'.basePriority = k.basePriority
      BY <2>6 DEF MutexDelete
    <3> QED BY <2>3, <3>1, OwnerKeepsLoans
  <2>7. CASE MutexTakeFree(t, m)
    <3>1. /\ k'.pOwner = [k.pOwner EXCEPT ![m] = t]
          /\ k'.waitingList = k.waitingList
          /\ k'.waitValue = k.waitValue /\ k'.priority = k.priority
          /\ k'.basePriority = k.basePriority
      BY <2>7 DEF MutexTakeFree
    <3> QED BY <2>3, <3>1, OwnerKeepsLoans
  <2> QED BY <1>2, <2>5, <2>6, <2>7
<1>3. ASSUME NEW t \in Task, NEW m \in Mutex,
             MutexTakeAgain(t, m) \/ MutexGiveOnce(t, m)
      PROVE  KeepsLoans(k', k)
  <2>1. SameQueues(k', k)
    <3>1. CASE MutexTakeAgain(t, m)
      BY <3>1 DEF MutexTakeAgain, SameQueues
    <3>2. CASE MutexGiveOnce(t, m)
      BY <3>2 DEF MutexGiveOnce, SameQueues
    <3> QED BY <1>3, <3>1, <3>2
  <2> QED BY <2>1, StepKeepsLoans
<1>4. ASSUME NEW t \in Task, MutexTakeTimedOut(t) \/ MutexTakeGranted(t)
      PROVE  KeepsLoans(k', k)
  <2>1. SameQueues(k', k)
    <3>1. CASE MutexTakeTimedOut(t)
      BY <3>1 DEF MutexTakeTimedOut, SameQueues
    <3>2. CASE MutexTakeGranted(t)
      BY <3>2 DEF MutexTakeGranted, SameQueues
    <3> QED BY <1>4, <3>1, <3>2
  <2> QED BY <2>1, StepKeepsLoans
<1> QED BY <1>2, <1>3, <1>4 DEF MutexNext

(* All the actions of aamutex.c.                                           *)
LEMMA MutexRanks ==
  ASSUME IInv, OwnersNeverWait, MutexNext
  PROVE  KeepsRanks(k', k)
<1> DEFINE s == k
           T == TimedCalls(pc)
<1>1. s \in Tables /\ Whole(s, T) /\ OwnersRun(s)
  BY TablesTyped DEF Running, OwnersNeverWait
<1>2. ASSUME NEW t \in Task, NEW m \in Mutex, NEW d \in TakeDelays, MutexTakeWait(t, m, d)
      PROVE  KeepsRanks(k', k)
  <2> DEFINE asked == [s EXCEPT !.objPtr[t] = m]
             lent == IF s.priority[t] > s.priority[s.pOwner[m]] THEN Propagate(asked, t)
                                                                ELSE asked
             u == WaitOrdered(lent, t, m, "mutexWait", {"DELAYTMO"}, d)
  <2>1. Runs(t) /\ s.pOwner[m] \in Task \ {t} /\ k' = u
    BY <1>2 DEF MutexTakeWait
  <2>2. s.state[t] = "ready"
    BY <2>1, RunsFacts
  <2> HIDE DEF s, T
  <2>3. KeepsRanks(u, s)
    BY <1>1, <2>1, <2>2, MutexTakeWaitRanks
  <2> HIDE DEF u
  <2> QED BY <2>1, <2>3 DEF s
<1>3. ASSUME NEW t \in Task, NEW m \in Mutex, MutexGive(t, m)
      PROVE  KeepsRanks(k', k)
  <2> DEFINE L == s.mutexList[t] \ {m}
             v == [s EXCEPT !.mutexList[t] = L]
             u == HandOver(NewPrio(v, t), m)
  <2>1. s.pOwner[m] = t /\ CalledFromTask(u)
    BY <1>3 DEF MutexGive
  <2>2. L \in SUBSET Mutex
    BY <1>1 DEF Tables
  <2> HIDE DEF s, T, L
  <2>3. KeepsRanks(u, s)
    BY <1>1, <2>1, <2>2, MutexGiveRanks
  <2> HIDE DEF u
  <2>4. KeepsRanks(u, k)
    BY <2>3 DEF s
  <2> QED BY <2>1, <2>4, ServiceKeepsRanks
<1> HIDE DEF s, T
<1>4. CASE /\ ~ \E t \in Task, m \in Mutex, d \in TakeDelays : MutexTakeWait(t, m, d)
           /\ ~ \E t \in Task, m \in Mutex : MutexGive(t, m)
  <2>1. KeepsLoans(k', k)
    BY <1>4, MutexLoans
  <2> QED BY <2>1 DEF KeepsLoans
<1> QED BY <1>2, <1>3, <1>4

(* The actions of aasema.c.                                                *)
LEMMA SemLoans ==
  ASSUME IInv, OwnersNeverWait, SemNext
  PROVE  KeepsLoans(k', k)
<1> DEFINE s == k
           T == TimedCalls(pc)
<1>1. s \in Tables /\ Whole(s, T) /\ OwnersRun(s) /\ Sem \subseteq Counted
  BY TablesTyped DEF Running, OwnersNeverWait, Counted
<1>2. ASSUME NEW t \in Task, NEW x \in Sem, NEW n, SemCreate(t, x, n)
      PROVE  KeepsLoans(k', k)
  <2>1. x \in Counted /\ x \notin Mutex /\ x \in SyncObj
    BY KernelAssumption DEF Counted, SyncObj
  <2>2. x \notin k.semUsed
    BY <1>2 DEF SemCreate
  <2>3. k.waitingList[x] = << >> /\ k.waitingList \in [SyncObj -> Seq(Task)]
    BY <1>1, <2>1, <2>2, FreeUnlisted DEF Tables
  <2>4. /\ k'.pOwner = k.pOwner /\ k'.waitValue = k.waitValue
        /\ k'.priority = k.priority /\ k'.basePriority = k.basePriority
        /\ k'.waitingList = [k.waitingList EXCEPT ![x] = << >>]
    BY <1>2 DEF SemCreate
  <2>5. k'.waitingList = k.waitingList
    BY <2>1, <2>3, <2>4
  <2>6. SameQueues(k', k)
    BY <2>4, <2>5 DEF SameQueues
  <2> QED BY <2>6, StepKeepsLoans
<1>3. ASSUME NEW t \in Task, NEW x \in Sem, NEW n,
             SemReset(t, x, n) \/ SemTakeNow(t, x) \/ SemFlush(t, x) \/ SemDelete(t, x)
      PROVE  KeepsLoans(k', k)
  <2>1. CASE SemReset(t, x, n)
    <3> DEFINE c == n % 65536
    <3>1. k' = [k EXCEPT !.count[x] = c]
      BY <2>1 DEF SemReset
    <3> HIDE DEF c
    <3>2. SameQueues(k', k)
      BY <3>1 DEF SameQueues
    <3> QED BY <3>2, StepKeepsLoans
  <2>2. CASE SemTakeNow(t, x)
    <3>1. SameQueues(k', k)
      BY <2>2 DEF SemTakeNow, SameQueues
    <3> QED BY <3>1, StepKeepsLoans
  <2>3. CASE SemFlush(t, x) \/ SemDelete(t, x)
    <3>1. k' = k
      BY <2>3 DEF SemFlush, FlushBegin, SemDelete
    <3>2. SameQueues(k', k)
      BY <3>1 DEF SameQueues
    <3> QED BY <3>2, StepKeepsLoans
  <2> QED BY <1>3, <2>1, <2>2, <2>3
<1>4. ASSUME NEW t \in Task, NEW x \in Sem, NEW d \in TakeDelays, SemTakeWait(t, x, d)
      PROVE  KeepsLoans(k', k)
  <2> DEFINE u == WaitOrdered(s, t, x, "semWait", {"FLUSH", "DELAYTMO"}, d)
  <2>1. Runs(t) /\ k' = u
    BY <1>4 DEF SemTakeWait
  <2>2. s.state[t] = "ready"
    BY <2>1, RunsFacts
  <2> HIDE DEF s, T
  <2>3. KeepsLoans(u, s)
    BY <1>1, <2>2, SemTakeWaitLoans
  <2> HIDE DEF u
  <2> QED BY <2>1, <2>3 DEF s
<1>5. ASSUME NEW x \in Sem, (\E t \in Task : SemGive(t, x)) \/ SemGiveFromIsr(x)
      PROVE  KeepsLoans(k', k)
  <2> DEFINE u == Give(s, x)
  <2>1. CalledFromTask(u) \/ CalledFromIsr(u)
    BY <1>5 DEF SemGive, SemGiveFromIsr
  <2> HIDE DEF s, T
  <2>2. KeepsLoans(u, s)
    BY <1>1, GiveLoans
  <2> HIDE DEF u
  <2>3. KeepsLoans(u, k)
    BY <2>2 DEF s
  <2> QED BY <2>1, <2>3, ServiceKeepsLoans
<1>6. ASSUME NEW t \in Task, SemTakeFailed(t) \/ SemTakeGranted(t) \/ SemDeleteEnd(t)
      PROVE  KeepsLoans(k', k)
  <2>1. SameQueues(k', k)
    <3>1. CASE SemTakeFailed(t)
      BY <3>1 DEF SemTakeFailed, SameQueues
    <3>2. CASE SemTakeGranted(t)
      BY <3>2 DEF SemTakeGranted, SameQueues
    <3>3. CASE SemDeleteEnd(t)
      BY <3>3 DEF SemDeleteEnd, SameQueues
    <3> QED BY <1>6, <3>1, <3>2, <3>3
  <2> QED BY <2>1, StepKeepsLoans
<1>7. ASSUME NEW x \in Sem, FlushOne(x)
      PROVE  KeepsLoans(k', k)
  <2> DEFINE h == Head(s.waitingList[x])
             v == [s EXCEPT !.flags[h] = @ \cup {"FLUSH"}]
             u == WakeFirst(v, x)
  <2>1. s.waitingList[x] # << >> /\ k' = u
    BY <1>7 DEF FlushOne
  <2> HIDE DEF s, T, h
  <2>2. SameQueues(v, s)
    BY DEF SameQueues
  <2> HIDE DEF v
  <2>3. KeepsLoans(u, s)
    BY <1>1, <2>1, <2>2, WakeFirstLoans
  <2> HIDE DEF u
  <2> QED BY <2>1, <2>3 DEF s
<1>8. ASSUME NEW x \in Sem, SemFlushFromIsr(x)
      PROVE  KeepsLoans(k', k)
  <2>1. k' = k
    BY <1>8 DEF SemFlushFromIsr, FlushBegin
  <2>2. SameQueues(k', k)
    BY <2>1 DEF SameQueues
  <2> QED BY <2>2, StepKeepsLoans
<1>9. ASSUME NEW x \in Sem, FlushEnd(x)
      PROVE  KeepsLoans(k', k)
  <2>1. \/ k' = ScheduleIf(k) \/ k' = Schedule(k)
        \/ k' = [k EXCEPT !.sched = FALSE]
    <3>1. isr \in {"none", "tick", "other"}
      BY DEF IInv, CallsTyped
    <3> QED BY <1>9, <3>1 DEF FlushEnd
  <2>2. SameQueues(Schedule(k), k) /\ SameQueues(ScheduleIf(k), k)
    BY QueuesUntouched
  <2>3. CASE k' = [k EXCEPT !.sched = FALSE]
    BY <2>3, StepKeepsLoans DEF SameQueues
  <2>4. CASE k' = ScheduleIf(k) \/ k' = Schedule(k)
    <3>1. SameQueues(k', k)
      BY <2>2, <2>4
    <3> QED BY <3>1, StepKeepsLoans
  <2> QED BY <2>1, <2>3, <2>4
<1> HIDE DEF s, T
<1> QED BY <1>2, <1>3, <1>4, <1>5, <1>6, <1>7, <1>8, <1>9 DEF SemNext

(* The actions of aatasksignal.c.                                          *)
LEMMA SignalLoans ==
  ASSUME IInv, SignalNext
  PROVE  KeepsLoans(k', k)
<1>1. ASSUME NEW v, NEW bits, NEW pulse
      PROVE  SameQueues(Signalled(k, v, bits, pulse), k)
  <2> DEFINE all == k.sigsRecv[v] \cup bits
             got == Matched(k.sigsWait[v], all, "SIGNALAND" \in k.flags[v])
             kept == [k EXCEPT !.sigsRecv[v] = all \ pulse, !.sched = FALSE]
             used == [kept EXCEPT !.sigsRecv[v] = @ \ got, !.objPtr[v] = got]
             w == RemoveFromDelayed(used, v)
  <2>1. SameQueues(kept, k)
    BY DEF SameQueues
  <2>2. SameQueues(used, kept)
    <3> HIDE DEF kept, got
    <3> QED BY DEF SameQueues
  <2>3. Signalled(k, v, bits, pulse) \in {PutInList(w, v), kept}
    BY DEF Signalled
  <2> HIDE DEF used, kept
  <2>4. SameQueues(w, used)
    BY QueuesUntouched
  <2> HIDE DEF w
  <2>5. SameQueues(PutInList(w, v), w)
    BY QueuesUntouched
  <2>6. SameQueues(PutInList(w, v), k)
    BY <2>1, <2>2, <2>4, <2>5, QueuesTransitive
  <2> QED BY <2>1, <2>3, <2>6
<1>2. ASSUME NEW t, NEW v, NEW bits, NEW pulse,
             SignalSend(t, v, bits, pulse) \/ SignalSendFromIsr(v, bits, pulse)
      PROVE  KeepsLoans(k', k)
  <2> DEFINE u == Signalled(k, v, bits, pulse)
  <2>1. CalledFromTask(u) \/ CalledFromIsr(u)
    BY <1>2 DEF SignalSend, SignalSendFromIsr
  <2>2. KeepsLoans(u, k)
    BY <1>1, SameQueuesLoans
  <2> HIDE DEF u
  <2> QED BY <2>1, <2>2, ServiceKeepsLoans
<1>3. ASSUME NEW t, NEW w, NEW mode
      PROVE  SameQueues(SignalAsked(t, w, mode), k)
  BY DEF SignalAsked, SameQueues
<1>4. ASSUME NEW t, NEW w, NEW mode, SignalTry(t, w, mode)
      PROVE  KeepsLoans(k', k)
  <2> DEFINE a == SignalAsked(t, w, mode)
             u == [a EXCEPT !.sigsRecv[t] = @ \ Matched(w, @, mode # {})]
  <2>1. SameQueues(a, k) /\ k' = u
    BY <1>3, <1>4 DEF SignalTry
  <2> HIDE DEF a
  <2>2. SameQueues(u, a)
    BY DEF SameQueues
  <2> HIDE DEF u
  <2>3. SameQueues(u, k)
    BY <2>1, <2>2, QueuesTransitive
  <2> QED BY <2>1, <2>3, StepKeepsLoans
<1>5. ASSUME NEW t, NEW w, NEW mode, NEW d, SignalWait(t, w, mode, d)
      PROVE  KeepsLoans(k', k)
  <2> DEFINE a == SignalAsked(t, w, mode)
             r == RemoveReady(a, t)
             u == [r EXCEPT !.state[t] = "signalWait", !.flags[t] = @ \ {"DELAYTMO"}]
             z == AddToDelayed(u, t, d)
  <2>1. SameQueues(a, k) /\ k' = Schedule(z)
    BY <1>3, <1>5 DEF SignalWait
  <2> HIDE DEF a
  <2>2. SameQueues(r, a)
    BY QueuesUntouched
  <2> HIDE DEF r
  <2>3. SameQueues(u, r)
    BY DEF SameQueues
  <2> HIDE DEF u
  <2>4. SameQueues(z, u)
    BY QueuesUntouched
  <2> HIDE DEF z
  <2>5. SameQueues(z, k)
    BY <2>1, <2>2, <2>3, <2>4, QueuesTransitive
  <2>6. KeepsLoans(z, k)
    BY <2>5, SameQueuesLoans
  <2> QED BY <2>1, <2>6, ServiceKeepsLoans
<1>6. ASSUME NEW t, NEW v, NEW bits, SignalClear(t, v, bits)
      PROVE  KeepsLoans(k', k)
  <2>1. SameQueues(k', k)
    BY <1>6 DEF SignalClear, SameQueues
  <2> QED BY <2>1, StepKeepsLoans
<1>7. ASSUME NEW t, SignalWaitEnd(t)
      PROVE  KeepsLoans(k', k)
  <2>1. SameQueues(k', k)
    BY <1>7 DEF SignalWaitEnd, SameQueues
  <2> QED BY <2>1, StepKeepsLoans
<1> QED BY <1>2, <1>4, <1>5, <1>6, <1>7 DEF SignalNext

(* The actions of the tick handler.                                        *)
LEMMA TickRanks ==
  ASSUME IInv, OwnersNeverWait, TickNext
  PROVE  KeepsRanks(k', k)
<1> DEFINE s == k
           T == TimedCalls(pc)
<1>1. Running(s, T) /\ OwnersRun(s)
  BY TablesTyped DEF OwnersNeverWait
<1>2. ASSUME NEW u, Running(u, T), OwnersRun(u)
      PROVE  KeepsRanks(Expire(u), u)
  <2>1. Whole(u, T) /\ u \in Tables /\ u.delayed \in Seq(Task) /\ NoRepeat(u.delayed)
    BY <1>2 DEF Running, Whole, Lists, Tables, DelayedAgree
  <2>2. CASE Expired(u)
    <3> DEFINE h == Head(u.delayed)
    <3>1. h \in Task /\ Expire(u) = WakeByTimeout(u, h)
      BY <2>1, <2>2, TailFacts DEF Expired, Expire
    <3> HIDE DEF h, T
    <3> QED BY <1>2, <2>1, <3>1, WakeByTimeoutRanks
  <2>3. CASE ~ Expired(u)
    <3>1. Expire(u) = u
      BY <2>3 DEF Expire
    <3> QED BY <3>1 DEF KeepsRanks
  <2> QED BY <2>2, <2>3
<1>3. CASE Tick
  <2> DEFINE c == CountDown(s)
  <2>1. k' = Expire(c) /\ Pending(s)
    BY <1>3 DEF Tick, IInv
  <2>2. SameQueues(c, s)
    BY DEF SameQueues, CountDown
  <2> HIDE DEF s, T
  <2>3. Running(c, T) /\ c.state = s.state
    BY <1>1, <2>1, CountDownRuns
  <2> HIDE DEF c
  <2>4. OwnersRun(c)
    BY <1>1, <2>2, <2>3 DEF OwnersRun, SameQueues
  <2>5. KeepsRanks(Expire(c), c) /\ KeepsRanks(c, s)
    BY <1>2, <2>2, <2>3, <2>4, SameQueuesKeep
  <2>6. KeepsRanks(Expire(c), s)
    BY <2>5, RanksTransitive
  <2> QED BY <2>1, <2>6 DEF s
<1>4. CASE TickExpire
  BY <1>1, <1>2, <1>4 DEF TickExpire
<1>5. CASE TickEnd
  <2>1. k' = Schedule(k)
    BY <1>5 DEF TickEnd
  <2>2. KeepsRanks(k, k)
    BY DEF KeepsRanks
  <2> QED BY <2>1, <2>2, ServiceKeepsRanks
<1> QED BY <1>3, <1>4, <1>5 DEF TickNext

(* aaTaskDelete: the task leaves its lists.                                *)
LEMMA DeletedRanks ==
  ASSUME NEW s, NEW T, Whole(s, T), OwnersRun(s), NEW v \in Task
  PROVE  KeepsRanks(Deleted(s, v), s)
<1> DEFINE e == IF s.state[v] = "ready" THEN RemoveReady(s, v)
                ELSE IF s.state[v] = "suspended" THEN [s EXCEPT !.suspended = @ \ {v}]
                ELSE RemoveFromLists(s, v)
           u == [e EXCEPT !.state[v] = "none", !.sched = FALSE]
<1>1. KeepsRanks(e, s)
  <2>1. KeepsRanks(RemoveReady(s, v), s)
    BY QueuesUntouched, SameQueuesKeep
  <2>2. SameQueues([s EXCEPT !.suspended = @ \ {v}], s)
    BY DEF SameQueues
  <2>3. KeepsRanks([s EXCEPT !.suspended = @ \ {v}], s)
    BY <2>2, SameQueuesKeep
  <2>4. KeepsRanks(RemoveFromLists(s, v), s)
    BY RemoveFromListsRanks
  <2> QED BY <2>1, <2>3, <2>4
<1>2. Deleted(s, v) = u
  BY DEF Deleted
<1> HIDE DEF e
<1>3. SameQueues(u, e)
  BY DEF SameQueues
<1> HIDE DEF u
<1>4. KeepsRanks(u, s)
  BY <1>1, <1>3, SameQueuesKeep, RanksTransitive
<1> QED BY <1>2, <1>4

(* aaIoWait: the list of a driver, and the value of a task in no other.    *)
LEMMA IoWaitLoans ==
  ASSUME NEW s, NEW T, Whole(s, T), NEW t \in Task, s.state[t] = "ready",
         NEW x \in Driver, NEW value, \A a \in Task \ {t} : value[a] = s.waitValue[a],
         NEW u, u.waitValue = value, NEW l, u.waitingList = [s.waitingList EXCEPT ![x] = l],
         u.priority = s.priority, u.basePriority = s.basePriority, u.pOwner = s.pOwner
  PROVE  KeepsLoans(u, s)
<1>1. s \in Tables /\ s.waitingList \in [SyncObj -> Seq(Task)]
  BY DEF Whole, Lists, Tables
<1>2. ASSUME NEW y \in Counted
      PROVE  /\ u.waitingList[y] = s.waitingList[y]
             /\ \A a \in Range(s.waitingList[y]) : u.waitValue[a] = s.waitValue[a]
  <2>1. y \in SyncObj /\ y # x
    BY KernelAssumption DEF Counted, SyncObj
  <2>2. u.waitingList[y] = s.waitingList[y]
    BY <1>1, <2>1
  <2>3. ASSUME NEW a \in Range(s.waitingList[y])
        PROVE  u.waitValue[a] = s.waitValue[a]
    <3>1. a \in Task /\ InOrderedList(s, a)
      BY ListedWaits
    <3>2. a # t
      BY <3>1 DEF InOrderedList
    <3> QED BY <3>1, <3>2
  <2> QED BY <2>2, <2>3
<1>3. SameRanks(u, s)
  BY <1>2 DEF SameRanks
<1>4. KeepsRanks(u, s)
  BY <1>1, <1>3, SameRanksKeep
<1>5. \A m \in Mutex : u.waitingList[m] = s.waitingList[m]
  BY <1>2 DEF Counted
<1>6. Served(s) => Served(u)
  BY <1>5, ServedSame
<1> QED BY <1>4, <1>6 DEF KeepsLoans

(* aaIoResume: the list of a driver only.                                  *)
LEMMA ResumedLoans ==
  ASSUME NEW s \in Tables, NEW x \in Driver
  PROVE  KeepsLoans(Resumed(s, x), s)
<1> DEFINE t == Head(s.waitingList[x])
           u == [s EXCEPT !.waitingList[x] = Tail(@)]
           w == IF t \in Range(u.delayed) THEN RemoveFromDelayed(u, t) ELSE u
           z == PutInList(w, t)
<1>1. Resumed(s, x) = z
  BY DEF Resumed
<1>2. /\ u.waitingList = [s.waitingList EXCEPT ![x] = Tail(@)]
      /\ u.waitValue = s.waitValue /\ u.priority = s.priority
      /\ u.basePriority = s.basePriority /\ u.pOwner = s.pOwner
  OBVIOUS
<1> HIDE DEF t, u
<1>3. SameQueues(w, u)
  <2>1. SameQueues(RemoveFromDelayed(u, t), u)
    BY QueuesUntouched
  <2>2. SameQueues(u, u)
    BY DEF SameQueues
  <2> QED BY <2>1, <2>2
<1> HIDE DEF w
<1>4. SameQueues(z, w)
  BY QueuesUntouched
<1> HIDE DEF z
<1>5. /\ z.waitingList = [s.waitingList EXCEPT ![x] = Tail(@)]
      /\ z.waitValue = s.waitValue /\ z.priority = s.priority
      /\ z.basePriority = s.basePriority /\ z.pOwner = s.pOwner
  BY <1>2, <1>3, <1>4 DEF SameQueues
<1>6. s.waitingList \in [SyncObj -> Seq(Task)]
  BY DEF Tables
<1>7. ASSUME NEW y \in Counted
      PROVE  z.waitingList[y] = s.waitingList[y]
  <2>1. y \in SyncObj /\ y # x
    BY KernelAssumption DEF Counted, SyncObj
  <2> QED BY <1>5, <1>6, <2>1
<1>8. SameRanks(z, s)
  BY <1>5, <1>7 DEF SameRanks
<1>9. KeepsRanks(z, s)
  BY <1>8, SameRanksKeep
<1>10. \A m \in Mutex : z.waitingList[m] = s.waitingList[m]
  BY <1>7 DEF Counted
<1>11. Served(s) => Served(z)
  BY <1>5, <1>10, ServedSame
<1> QED BY <1>1, <1>9, <1>11 DEF KeepsLoans

(* aaTaskCreate: a new task has the priority it was given, and no list.    *)
LEMMA TaskCreateRanks ==
  ASSUME IInv, NEW t, NEW v, NEW p, TaskCreate(t, v, p)
  PROVE  KeepsRanks(k', k)
<1> DEFINE s == k
           T == TimedCalls(pc)
<1>1. Whole(s, T) /\ s \in Tables
  BY TablesTyped DEF Running
<1>2. v \in Task /\ s.state[v] = "none"
  BY TcbFacts DEF TaskCreate
<1>3. /\ k'.waitingList = s.waitingList /\ k'.waitValue = s.waitValue
      /\ k'.pOwner = s.pOwner
      /\ k'.priority = [s.priority EXCEPT ![v] = p]
      /\ k'.basePriority = [s.basePriority EXCEPT ![v] = p]
  BY DEF TaskCreate
<1>4. s.priority \in [Task -> Prio] /\ s.basePriority \in [Task -> Prio]
  BY <1>1 DEF Tables
<1>5. /\ k'.priority[v] = k'.basePriority[v]
      /\ \A a \in Task \ {v} : /\ k'.priority[a] = s.priority[a]
                               /\ k'.basePriority[a] = s.basePriority[a]
  BY <1>2, <1>3, <1>4
<1> HIDE DEF s, T
<1>6. ASSUME NEW x \in Counted, NEW a \in Range(s.waitingList[x])
      PROVE  k'.priority[a] = s.priority[a]
  <2>1. a \in Task /\ InOrderedList(s, a)
    BY <1>1, ListedWaits
  <2>2. a # v
    BY <1>2, <2>1 DEF InOrderedList
  <2> QED BY <1>5, <2>1, <2>2
<1>7. SameRanks(k', s)
  BY <1>3, <1>5, <1>6 DEF SameRanks
<1> DEFINE u == k'
<1>8. SameRanks(u, s)
  BY <1>7
<1> HIDE DEF u
<1>9. KeepsRanks(u, s)
  BY <1>1, <1>8, SameRanksKeep
<1> QED BY <1>9 DEF s, u

(* aaTaskSetPriority, which may lower the priority of an owner's waiter.   *)
LEMMA TaskSetPriorityRanks ==
  ASSUME IInv, OwnersNeverWait, NEW t \in Task, NEW v \in Task, NEW p \in NewPrios,
         TaskSetPriority(t, v, p)
  PROVE  /\ Sorted(k) => Sorted(k')
         /\ WaitersNotLowered /\ Lent(k) => Lent(k')
<1> DEFINE s == k
           T == TimedCalls(pc)
           n == NewPrio([s EXCEPT !.basePriority[v] = p], v)
           f == IF n.state[v] = "mutexWait" THEN Propagate(n, v) ELSE n
           w == k'
<1>1. /\ s \in Tables /\ Whole(s, T) /\ OwnersRun(s)
      /\ p \in Prio /\ w = Schedule(f)
  <2>1. p \in Prio
    BY TaskAssumption, KernelAssumption DEF Prio
  <2> QED BY <2>1, TablesTyped DEF Running, OwnersNeverWait, TaskSetPriority
<1>2. WaitersNotLowered => (s.state[v] = "mutexWait" => p >= s.basePriority[v])
  BY DEF WaitersNotLowered
<1> HIDE DEF s, T, w
<1>3. /\ Sorted(s) => Sorted(f)
      /\ (s.state[v] = "mutexWait" => p >= s.basePriority[v]) /\ Lent(s) => Lent(f)
  BY <1>1, SetPriorityRanks
<1> HIDE DEF f, n
<1>4. SameQueues(w, f)
  BY <1>1, QueuesUntouched
<1>5. KeepsRanks(w, f)
  BY <1>4, SameQueuesKeep
<1>6. /\ Sorted(s) => Sorted(w)
      /\ WaitersNotLowered /\ Lent(s) => Lent(w)
  BY <1>2, <1>3, <1>5 DEF KeepsRanks
<1> QED BY <1>6 DEF s, w

(* The actions of aatask.c that end no wait for a mutex, and set no        *)
(* priority.                                                               *)
LEMMA TaskLoans ==
  ASSUME IInv, OwnersNeverWait, TaskNext,
         ~ \E t, v \in Task, p \in NewPrios : TaskSetPriority(t, v, p) \/ TaskCreate(t, v, p),
         ~ \E t, v \in Task : TaskWakeUp(t, v) \/ TaskDelete(t, v)
  PROVE  KeepsLoans(k', k)
<1> DEFINE s == k
           T == TimedCalls(pc)
<1>1. s \in Tables /\ Whole(s, T) /\ OwnersRun(s)
  BY TablesTyped DEF Running, OwnersNeverWait
<1>2. ASSUME NEW t \in Task, NEW v \in Task, TaskSuspend(t, v)
      PROVE  KeepsLoans(k', k)
  <2> DEFINE r == RemoveReady(s, v)
             u == IF s.state[v] = "ready" THEN Suspend(r, v)
                  ELSE [s EXCEPT !.flags[v] = @ \cup {"SUSPEND"}]
  <2>1. k' = u \/ k' = Schedule(u)
    BY <1>2 DEF TaskSuspend
  <2>2. SameQueues(r, s)
    BY QueuesUntouched
  <2> HIDE DEF r
  <2>3. SameQueues(Suspend(r, v), s)
    BY <2>2, QueuesUntouched, QueuesTransitive
  <2>4. SameQueues([s EXCEPT !.flags[v] = @ \cup {"SUSPEND"}], s)
    BY DEF SameQueues
  <2>5. SameQueues(u, s)
    BY <2>3, <2>4
  <2> HIDE DEF u
  <2>6. KeepsLoans(u, k)
    BY <2>5, SameQueuesLoans
  <2> QED BY <2>1, <2>6, ServiceKeepsLoans
<1>3. ASSUME NEW t \in Task, NEW v \in Task, TaskResume(t, v)
      PROVE  KeepsLoans(k', k)
  <2> DEFINE z == [s EXCEPT !.suspended = @ \ {v}]
             a == AddReady(z, v)
             b == [a EXCEPT !.sched = s.priority[v] > s.priority[t]]
             u == IF s.state[v] = "suspended" THEN b
                  ELSE [s EXCEPT !.flags[v] = @ \ {"SUSPEND"}]
  <2>1. CalledFromTask(u)
    BY <1>3 DEF TaskResume
  <2>2. SameQueues(z, s)
    BY DEF SameQueues
  <2> HIDE DEF z
  <2>3. SameQueues(a, z)
    BY QueuesUntouched
  <2> HIDE DEF a
  <2>4. SameQueues(b, a)
    BY DEF SameQueues
  <2> HIDE DEF b
  <2>5. SameQueues(b, s)
    BY <2>2, <2>3, <2>4, QueuesTransitive
  <2>6. SameQueues([s EXCEPT !.flags[v] = @ \ {"SUSPEND"}], s)
    BY DEF SameQueues
  <2>7. SameQueues(u, s)
    BY <2>5, <2>6
  <2> HIDE DEF u
  <2>8. KeepsLoans(u, k)
    BY <2>7, SameQueuesLoans
  <2> QED BY <2>1, <2>8, ServiceKeepsLoans
<1>4. ASSUME NEW t \in Task, TaskDeleteSelf(t)
      PROVE  KeepsLoans(k', k)
  <2> DEFINE e == Deleted(s, t)
             u == [e EXCEPT !.zombies = Append(@, t)]
  <2>1. k' = Schedule(u) /\ Runs(t)
    BY <1>4 DEF TaskDeleteSelf
  <2>2. s.state[t] # "mutexWait"
    BY <2>1, RunsFacts
  <2> HIDE DEF T
  <2>3. KeepsLoans(e, s)
    BY <1>1, <2>2, DeletedServed
  <2> HIDE DEF e
  <2>4. SameQueues(u, e)
    BY DEF SameQueues
  <2> HIDE DEF u
  <2>5. KeepsLoans(u, s)
    BY <2>3, <2>4, SameQueuesLoans, LoansTransitive
  <2>6. KeepsLoans(u, k)
    BY <2>5
  <2> QED BY <2>1, <2>6, ServiceKeepsLoans
<1>5. ASSUME NEW t \in Task, TaskYield(t)
      PROVE  KeepsLoans(k', k)
  <2> DEFINE r == RemoveReady(s, t)
             u == AddReady(r, t)
  <2>1. k' = Schedule(u)
    BY <1>5 DEF TaskYield
  <2>2. SameQueues(r, s)
    BY QueuesUntouched
  <2> HIDE DEF r
  <2>3. SameQueues(u, s)
    BY <2>2, QueuesUntouched, QueuesTransitive
  <2> HIDE DEF u
  <2>4. KeepsLoans(u, k)
    BY <2>3, SameQueuesLoans
  <2> QED BY <2>1, <2>4, ServiceKeepsLoans
<1>6. ASSUME NEW t \in Task, NEW d \in TaskDelays, TaskDelay(t, d)
      PROVE  KeepsLoans(k', k)
  <2> DEFINE r == RemoveReady(s, t)
             u == [r EXCEPT !.state[t] = "delayed"]
             z == AddToDelayed(u, t, d)
  <2>1. k' = Schedule(z)
    BY <1>6 DEF TaskDelay
  <2>2. SameQueues(r, s)
    BY QueuesUntouched
  <2> HIDE DEF r
  <2>3. SameQueues(u, r)
    BY DEF SameQueues
  <2> HIDE DEF u
  <2>4. SameQueues(z, u)
    BY QueuesUntouched
  <2> HIDE DEF z
  <2>5. SameQueues(z, s)
    BY <2>2, <2>3, <2>4, QueuesTransitive
  <2>6. KeepsLoans(z, k)
    BY <2>5, SameQueuesLoans
  <2> QED BY <2>1, <2>6, ServiceKeepsLoans
<1>7. ASSUME NEW t \in Task,
              TaskDelayEnd(t) \/ TaskDeleteEnd(t) \/ ReapBegin(t) \/ ReapEnd(t) \/ IoWaitEnd(t)
      PROVE  KeepsLoans(k', k)
  <2>1. CASE TaskDelayEnd(t)
    <3>1. SameQueues(k', k)
      BY <2>1 DEF TaskDelayEnd, SameQueues
    <3> QED BY <3>1, StepKeepsLoans
  <2>2. CASE TaskDeleteEnd(t) \/ ReapEnd(t)
    <3>1. \/ k' = [k EXCEPT !.freeTcb = @ \cup {arg[t]}]
          \/ k' = [k EXCEPT !.zombies = Append(@, arg[t])]
      BY <2>2 DEF TaskDeleteEnd, ReapEnd
    <3>2. CASE k' = [k EXCEPT !.freeTcb = @ \cup {arg[t]}]
      <4>1. SameQueues(k', k)
        BY <3>2 DEF SameQueues
      <4> QED BY <4>1, StepKeepsLoans
    <3>3. CASE k' = [k EXCEPT !.zombies = Append(@, arg[t])]
      <4>1. SameQueues(k', k)
        BY <3>3 DEF SameQueues
      <4> QED BY <4>1, StepKeepsLoans
    <3> QED BY <3>1, <3>2, <3>3
  <2>3. CASE ReapBegin(t)
    <3>1. SameQueues(k', k)
      BY <2>3 DEF ReapBegin, SameQueues
    <3> QED BY <3>1, StepKeepsLoans
  <2>4. CASE IoWaitEnd(t)
    <3>1. k' = k \/ k' = [k EXCEPT !.flags[t] = @ \ {"DELAYTMO"}]
      BY <2>4 DEF IoWaitEnd
    <3>2. CASE k' = k
      <4>1. SameQueues(k', k)
        BY <3>2 DEF SameQueues
      <4> QED BY <4>1, StepKeepsLoans
    <3>3. CASE k' = [k EXCEPT !.flags[t] = @ \ {"DELAYTMO"}]
      <4>1. SameQueues(k', k)
        BY <3>3 DEF SameQueues
      <4> QED BY <4>1, StepKeepsLoans
    <3> QED BY <3>1, <3>2, <3>3
  <2> QED BY <1>7, <2>1, <2>2, <2>3, <2>4
<1>8. ASSUME NEW t \in Task, TaskCreateEnd(t)
      PROVE  KeepsLoans(k', k)
  <2> DEFINE a == arg[t]
             u == AddReady(s, a)
             z == Suspend(s, a)
             e == [s EXCEPT !.freeTcb = @ \cup {a}]
  <2>1. k' = Schedule(u) \/ k' = z \/ k' = e
    BY <1>8 DEF TaskCreateEnd
  <2>2. SameQueues(u, s) /\ SameQueues(z, s)
    BY QueuesUntouched
  <2>3. SameQueues(e, s)
    BY DEF SameQueues
  <2> HIDE DEF u, z, e
  <2>4. KeepsLoans(u, k) /\ KeepsLoans(z, k) /\ KeepsLoans(e, k)
    BY <2>2, <2>3, SameQueuesLoans
  <2> QED BY <2>1, <2>4, ServiceKeepsLoans
<1>9. ASSUME NEW t \in Task, NEW x \in Driver, NEW d \in IoDelays, NEW ordered \in BOOLEAN,
              IoWait(t, x, ordered, d)
      PROVE  KeepsLoans(k', k)
  <2> DEFINE value == [s.waitValue EXCEPT ![t] = IF ordered THEN s.priority[t] ELSE @]
             clear == IF d = 0 THEN {} ELSE {"DELAYTMO"}
             r == RemoveReady(s, t)
             l == IF ordered THEN AddOrdered(s.waitingList[x], value, t)
                             ELSE Append(s.waitingList[x], t)
             u == [r EXCEPT
                     !.state[t] = "ioWait", !.objPtr[t] = x, !.waitValue = value,
                     !.flags[t] = @ \ clear,
                     !.waitingList[x] = IF ordered THEN AddOrdered(@, value, t)
                                                   ELSE Append(@, t)]
             z == AddToDelayed(u, t, d)
  <2>1. Runs(t) /\ k' = Schedule(z)
    BY <1>9 DEF IoWait
  <2>2. s.state[t] = "ready" /\ \A a \in Task \ {t} : value[a] = s.waitValue[a]
    <3>1. s.state[t] = "ready"
      BY <2>1, RunsFacts
    <3>2. s.waitValue \in [Task -> Prio]
      BY <1>1 DEF Tables
    <3> QED BY <3>1, <3>2
  <2>3. SameQueues(r, s)
    BY QueuesUntouched
  <2> HIDE DEF r
  <2>4. /\ u.waitValue = value
        /\ u.waitingList = [r.waitingList EXCEPT ![x] = IF ordered THEN AddOrdered(@, value, t)
                                                                   ELSE Append(@, t)]
        /\ u.priority = r.priority /\ u.basePriority = r.basePriority
        /\ u.pOwner = r.pOwner
    BY DEF value
  <2> HIDE DEF u, value, s, T
  <2>5. /\ u.waitValue = value /\ u.waitingList = [s.waitingList EXCEPT ![x] = l]
        /\ u.priority = s.priority /\ u.basePriority = s.basePriority
        /\ u.pOwner = s.pOwner
    BY <2>3, <2>4 DEF SameQueues
  <2> HIDE DEF l
  <2>6. KeepsLoans(u, s)
    BY <1>1, <2>2, <2>5, IoWaitLoans
  <2>7. KeepsLoans(z, u)
    BY QueuesUntouched, SameQueuesLoans
  <2> HIDE DEF z
  <2>8. KeepsLoans(z, k)
    BY <2>6, <2>7, LoansTransitive DEF s
  <2> QED BY <2>1, <2>8, ServiceKeepsLoans
<1>10. ASSUME NEW x \in Driver, (\E t \in Task : IoResume(t, x)) \/ IoResumeFromIsr(x)
       PROVE  KeepsLoans(k', k)
  <2> DEFINE u == Resumed(s, x)
  <2>1. CalledFromTask(u) \/ CalledFromIsr(u)
    BY <1>10 DEF IoResume, IoResumeFromIsr
  <2>2. KeepsLoans(u, k)
    BY <1>1, ResumedLoans
  <2> HIDE DEF u
  <2> QED BY <2>1, <2>2, ServiceKeepsLoans
<1> HIDE DEF s, T
<1> QED BY <1>2, <1>3, <1>4, <1>5, <1>6, <1>7, <1>8, <1>9, <1>10
        DEF TaskNext

(* All the actions of aatask.c but aaTaskSetPriority.                      *)
LEMMA TaskRanks ==
  ASSUME IInv, OwnersNeverWait, TaskNext,
         ~ \E t, v \in Task, p \in NewPrios : TaskSetPriority(t, v, p)
  PROVE  KeepsRanks(k', k)
<1> DEFINE s == k
           T == TimedCalls(pc)
<1>1. s \in Tables /\ Whole(s, T) /\ OwnersRun(s)
  BY TablesTyped DEF Running, OwnersNeverWait
<1>2. ASSUME NEW t \in Task, NEW v \in Task, TaskWakeUp(t, v)
      PROVE  KeepsRanks(k', k)
  <2> DEFINE u == WakeByTimeout(s, v)
  <2>1. CalledFromTask(u)
    BY <1>2 DEF TaskWakeUp
  <2> HIDE DEF s, T
  <2>2. KeepsRanks(u, s)
    BY <1>1, WakeByTimeoutRanks
  <2> HIDE DEF u
  <2>3. KeepsRanks(u, k)
    BY <2>2 DEF s
  <2> QED BY <2>1, <2>3, ServiceKeepsRanks
<1>3. ASSUME NEW t \in Task, NEW v \in Task, TaskDelete(t, v)
      PROVE  KeepsRanks(k', k)
  <2>1. k' = Deleted(k, v)
    BY <1>3 DEF TaskDelete
  <2> HIDE DEF T
  <2>2. KeepsRanks(Deleted(s, v), s)
    BY <1>1, DeletedRanks
  <2> QED BY <2>1, <2>2
<1>4. ASSUME NEW t \in Task, NEW v \in Task, NEW p \in NewPrios, TaskCreate(t, v, p)
      PROVE  KeepsRanks(k', k)
  BY <1>4, TaskCreateRanks
<1> HIDE DEF s, T
<1>5. CASE /\ ~ \E t, v \in Task, p \in NewPrios : TaskCreate(t, v, p)
           /\ ~ \E t, v \in Task : TaskWakeUp(t, v) \/ TaskDelete(t, v)
  <2>1. KeepsLoans(k', k)
    BY <1>5, TaskLoans
  <2> QED BY <2>1 DEF KeepsLoans
<1> QED BY <1>2, <1>3, <1>4, <1>5

(* The order of the lists survives every step, and so do the loans needed  *)
(* but where a waiter's own priority is lowered.                           *)
LEMMA NextRanks ==
  ASSUME IInv, OwnersNeverWait, [Next]_vars
  PROVE  /\ Sorted(k) => Sorted(k')
         /\ WaitersNotLowered /\ Lent(k) => Lent(k')
<1>1. CASE \E t, v \in Task, p \in NewPrios : TaskSetPriority(t, v, p)
  BY <1>1, TaskSetPriorityRanks
<1>2. CASE TaskNext /\ ~ \E t, v \in Task, p \in NewPrios : TaskSetPriority(t, v, p)
  <2>1. KeepsRanks(k', k)
    BY <1>2, TaskRanks
  <2> QED BY <2>1 DEF KeepsRanks
<1>3. CASE MutexNext \/ TickNext
  <2>1. KeepsRanks(k', k)
    BY <1>3, MutexRanks, TickRanks
  <2> QED BY <2>1 DEF KeepsRanks
<1>4. CASE SemNext \/ SignalNext
  <2>1. KeepsLoans(k', k)
    BY <1>4, SemLoans, SignalLoans
  <2> QED BY <2>1 DEF KeepsRanks, KeepsLoans
<1>5. CASE UNCHANGED vars
  BY <1>5 DEF vars
<1> QED BY <1>1, <1>2, <1>3, <1>4, <1>5 DEF Next

(* At the start nobody waits and nothing is lent.                          *)
LEMMA StartRanks ==
  ASSUME Init
  PROVE  Sorted(k) /\ Lent(k)
<1> DEFINE s == StartTables
           u == k
<1>1. /\ \A x \in Counted : s.waitingList[x] = << >>
      /\ s.priority = StartPrio /\ s.basePriority = StartPrio
  BY DEF StartTables, Counted, SyncObj
<1>2. u = Schedule(s)
  BY DEF Init
<1> HIDE DEF s, u
<1>3. SameQueues(u, s)
  BY <1>2, QueuesUntouched
<1>4. Sorted(u)
  <2>1. ASSUME NEW x \in Counted
        PROVE  Ranked(u.waitingList[x], u.waitValue, u.priority)
    <3>1. u.waitingList[x] = << >>
      BY <1>1, <1>3 DEF SameQueues
    <3> QED BY <3>1, NoNodes DEF Ranked, Ascending
  <2> QED BY <2>1 DEF Sorted
<1>5. Lent(u)
  BY <1>1, <1>3 DEF SameQueues, Lent
<1> QED BY <1>4, <1>5 DEF u

(* In a sorted list nobody is behind a task of lower priority.             *)
LEMMA SortedLists ==
  ASSUME IInv, Sorted(k)
  PROVE  WaitersSorted
<1> SUFFICES ASSUME NEW x \in Counted,
                    NEW i \in DOMAIN k.waitingList[x], NEW j \in DOMAIN k.waitingList[x], i < j
             PROVE  k.priority[k.waitingList[x][i]] >= k.priority[k.waitingList[x][j]]
  BY DEF WaitersSorted
<1> DEFINE l == k.waitingList[x]
           v == [t \in Task |-> - k.priority[t]]
           a == l[i]
           b == l[j]
<1>1. l \in Seq(Task) /\ k.priority \in [Task -> Prio]
  BY TablesTyped DEF Tables, Counted, SyncObj
<1>2. a \in Task /\ b \in Task
  BY <1>1, LenProperties, ElementOfSeq
<1>3. v[a] <= v[b]
  <2>1. Ascending(l, v)
    BY DEF Sorted, Ranked
  <2> HIDE DEF v
  <2> QED BY <2>1 DEF Ascending
<1>4. v[a] = - k.priority[a] /\ v[b] = - k.priority[b]
  BY <1>2
<1>5. k.priority[a] \in Nat /\ k.priority[b] \in Nat
  BY <1>1, <1>2, KernelAssumption DEF Prio
<1> HIDE DEF v, a, b
<1>6. k.priority[a] >= k.priority[b]
  BY <1>3, <1>4, <1>5
<1> QED BY <1>6 DEF a, b

(* WaitersSorted: as long as no task that owns a mutex waits for another   *)
(* one or for a semaphore, the lists of those who wait for a mutex or a    *)
(* semaphore are in the order of the priorities the waiters have now,      *)
(* whatever the tasks lock, lend and give back and whoever changes whose   *)
(* priority (aaListAddOrdered_, aaMutexNewPrio_ and aaMutexPropagate_).    *)
THEOREM WaitersStaySorted == Spec /\ []OwnersNeverWait => []WaitersSorted
<1> DEFINE S == Sorted(k)
<1>1. Init => S
  BY StartRanks
<1>2. IInv /\ OwnersNeverWait /\ S /\ [Next]_vars => S'
  BY NextRanks
<1>3. IInv /\ S => WaitersSorted
  BY SortedLists
<1> HIDE DEF S
<1> QED BY <1>1, <1>2, <1>3, Invariant, PTL DEF Spec

(* NotAboveNeed: under the same condition, and as long as nobody lowers    *)
(* the priority of a task that waits for a mutex, a task runs above its    *)
(* own priority only while a waiter of a mutex it owns has that priority   *)
(* (aaMutexPropagate_, aaRemoveTaskFromLists_ and aaMutexGive).            *)
THEOREM LoansAreNeeded ==
  Spec /\ []OwnersNeverWait /\ [][WaitersNotLowered]_vars => []NotAboveNeed
<1> DEFINE L == Lent(k)
<1>1. Init => L
  BY StartRanks
<1>2. IInv /\ OwnersNeverWait /\ L /\ [Next]_vars /\ [WaitersNotLowered]_vars => L'
  <2>1. CASE UNCHANGED vars
    BY <2>1 DEF vars
  <2>2. CASE WaitersNotLowered
    BY <2>2, NextRanks
  <2> QED BY <2>1, <2>2
<1>3. L => NotAboveNeed
  BY DEF Lent, LentTo, NotAboveNeed
<1> HIDE DEF L
<1> QED BY <1>1, <1>2, <1>3, Invariant, PTL DEF Spec

-----------------------------------------------------------------------------
(* The owners stay as urgent as their waiters.                             *)

(* The end of a service does not change that.                              *)
LEMMA ServiceServed ==
  ASSUME NEW s, Served(s), CalledFromTask(s) \/ k' = s \/ k' = Schedule(s)
  PROVE  Served(k')
<1> DEFINE u == k'
<1>1. SameQueues(u, s)
  BY ServiceQueues
<1> HIDE DEF u
<1>2. Served(u)
  BY <1>1, SameQueuesLoans DEF KeepsLoans
<1> QED BY <1>2 DEF u

(* All the actions of aamutex.c.                                           *)
LEMMA MutexServed ==
  ASSUME IInv, OwnersNeverWait, Sorted(k), Served(k), GivenAlone, MutexNext
  PROVE  Served(k')
<1> DEFINE s == k
           T == TimedCalls(pc)
<1>1. Whole(s, T) /\ OwnersRun(s) /\ Sorted(s) /\ Served(s) /\ s \in Tables
  BY TablesTyped DEF Running, OwnersNeverWait
<1>2. ASSUME NEW t \in Task, NEW m \in Mutex, NEW d \in TakeDelays, MutexTakeWait(t, m, d)
      PROVE  Served(k')
  <2> DEFINE asked == [s EXCEPT !.objPtr[t] = m]
             lent == IF s.priority[t] > s.priority[s.pOwner[m]] THEN Propagate(asked, t)
                                                                ELSE asked
             u == WaitOrdered(lent, t, m, "mutexWait", {"DELAYTMO"}, d)
  <2>1. Runs(t) /\ s.pOwner[m] \in Task \ {t} /\ k' = u
    BY <1>2 DEF MutexTakeWait
  <2>2. s.state[t] = "ready"
    BY <2>1, RunsFacts
  <2> HIDE DEF s, T
  <2>3. Served(u)
    BY <1>1, <2>1, <2>2, MutexTakeWaitServed
  <2> HIDE DEF u
  <2> QED BY <2>1, <2>3
<1>3. ASSUME NEW t \in Task, NEW m \in Mutex, MutexGive(t, m)
      PROVE  Served(k')
  <2> DEFINE L == s.mutexList[t] \ {m}
             v == [s EXCEPT !.mutexList[t] = L]
             u == HandOver(NewPrio(v, t), m)
  <2>1. s.pOwner[m] = t /\ CalledFromTask(u)
    BY <1>3 DEF MutexGive
  <2>2. \A n \in Mutex \ {m} : s.pOwner[n] = t => Above(s, n) = {}
    BY <1>3 DEF GivenAlone
  <2>3. L \in SUBSET Mutex
    BY <1>1 DEF Tables
  <2> HIDE DEF s, T, L
  <2>4. Served(u)
    BY <1>1, <2>1, <2>2, <2>3, MutexGiveServed
  <2> HIDE DEF u
  <2> QED BY <2>1, <2>4, ServiceServed
<1> HIDE DEF s, T
<1>4. CASE /\ ~ \E t \in Task, m \in Mutex, d \in TakeDelays : MutexTakeWait(t, m, d)
           /\ ~ \E t \in Task, m \in Mutex : MutexGive(t, m)
  <2>1. KeepsLoans(k', k)
    BY <1>4, MutexLoans
  <2> QED BY <2>1 DEF KeepsLoans
<1> QED BY <1>2, <1>3, <1>4

(* The wait of v ended, and the owner of what it waited for is the same.   *)
LEMMA EndedInVain ==
  ASSUME IInv, NoneInVain, NEW v \in Task, k'.pOwner = k.pOwner, k'.state[v] # "mutexWait",
         k.state[v] = "mutexWait"
  PROVE  OnlyLender(k, v)
<1>1. k.objPtr[v] \in Mutex /\ k.pOwner[k.objPtr[v]] # v
  BY TablesTyped DEF Running, Whole, Waits
<1>2. k'.pOwner[k.objPtr[v]] # v
  BY <1>1
<1> QED BY <1>2 DEF NoneInVain

(* aaTaskWakeUp.                                                           *)
LEMMA TaskWakeUpServed ==
  ASSUME IInv, OwnersNeverWait, Served(k), NoneInVain, NEW t \in Task, NEW v \in Task,
         TaskWakeUp(t, v)
  PROVE  Served(k')
<1> DEFINE s == k
           T == TimedCalls(pc)
           u == WakeByTimeout(s, v)
<1>1. Running(s, T) /\ Whole(s, T) /\ OwnersRun(s) /\ Served(s)
  BY TablesTyped DEF Running, OwnersNeverWait
<1>2. CalledFromTask(u) /\ s.state[v] \notin {"ready", "suspended", "none"}
  BY DEF TaskWakeUp, Asleep
<1>3. s.state \in [Task -> State]
  BY TablesTyped DEF Tables
<1> HIDE DEF s, T
<1>4. Running(u, T) /\ Woken(u, s, v, {"DELAYTMO"})
  BY <1>1, <1>2, WakeByTimeoutRuns
<1> HIDE DEF u
<1>5. u.state[v] \in {"ready", "suspended"} /\ u.pOwner = s.pOwner
  BY <1>3, <1>4 DEF Woken, SameRest, SameObjects
<1>6. SameTasks(k', u) /\ SameObjects(k', u)
  <2>1. k' = ScheduleIf(u)
    BY <1>2 DEF CalledFromTask
  <2>2. SameTasks(ScheduleIf(u), u) /\ SameObjects(ScheduleIf(u), u)
    BY <1>4, ScheduleIfRuns
  <2> QED BY <2>1, <2>2
<1>7. k'.pOwner = k.pOwner /\ k'.state[v] # "mutexWait"
  BY <1>5, <1>6 DEF SameTasks, SameObjects, s
<1>8. s.state[v] = "mutexWait" => OnlyLender(s, v)
  BY <1>7, EndedInVain DEF s
<1>9. Served(u)
  BY <1>1, <1>8, WakeByTimeoutServed DEF KeepsLoans, u
<1> QED BY <1>2, <1>9, ServiceServed

(* aaTaskDelete.                                                           *)
LEMMA TaskDeleteServed ==
  ASSUME IInv, OwnersNeverWait, Served(k), NoneInVain, NEW t \in Task, NEW v \in Task,
         TaskDelete(t, v)
  PROVE  Served(k')
<1> DEFINE s == k
           T == TimedCalls(pc)
           u == Deleted(s, v)
<1>1. Running(s, T) /\ Whole(s, T) /\ OwnersRun(s) /\ Served(s)
  BY TablesTyped DEF Running, OwnersNeverWait
<1>2. k' = u /\ v \in Task \ {Idle} /\ s.state[v] # "none"
  BY TablesTyped DEF TaskDelete, Exists
<1> HIDE DEF s, T
<1>3. Gone(u, s, v)
  BY <1>1, <1>2, DeletedRuns
<1> HIDE DEF u
<1>4. k'.pOwner = k.pOwner /\ k'.state[v] # "mutexWait"
  BY <1>2, <1>3 DEF Gone, SameRest, SameObjects, s
<1>5. s.state[v] = "mutexWait" => OnlyLender(s, v)
  BY <1>4, EndedInVain DEF s
<1>6. Served(u)
  BY <1>1, <1>5, DeletedServed DEF KeepsLoans, u
<1> QED BY <1>2, <1>6

(* aaTaskSetPriority.                                                      *)
LEMMA TaskSetPriorityServed ==
  ASSUME IInv, OwnersNeverWait, Served(k), SetAbove, NEW t \in Task, NEW v \in Task,
         NEW p \in NewPrios, TaskSetPriority(t, v, p)
  PROVE  Served(k')
<1> DEFINE s == k
           T == TimedCalls(pc)
           n == NewPrio([s EXCEPT !.basePriority[v] = p], v)
           f == IF n.state[v] = "mutexWait" THEN Propagate(n, v) ELSE n
<1>1. Whole(s, T) /\ OwnersRun(s) /\ Served(s) /\ p \in Prio /\ k' = Schedule(f)
  <2>1. p \in Prio
    BY TaskAssumption, KernelAssumption DEF Prio
  <2> QED BY <2>1, TablesTyped DEF Running, OwnersNeverWait, TaskSetPriority
<1>2. \A m \in Mutex : s.pOwner[m] = v => \A a \in Range(s.waitingList[m]) : p >= s.priority[a]
  BY DEF SetAbove
<1> HIDE DEF s, T
<1>3. Served(f)
  BY <1>1, <1>2, SetPriorityServed
<1> HIDE DEF f, n
<1> QED BY <1>1, <1>3, ServiceServed

(* All the actions of aatask.c.                                            *)
LEMMA TaskServed ==
  ASSUME IInv, OwnersNeverWait, Served(k), NoneInVain, SetAbove, TaskNext
  PROVE  Served(k')
<1>1. CASE \E t, v \in Task : TaskWakeUp(t, v) \/ TaskDelete(t, v)
  BY <1>1, TaskWakeUpServed, TaskDeleteServed
<1>2. ASSUME NEW t \in Task, NEW v \in Task, NEW p \in NewPrios,
             TaskSetPriority(t, v, p) \/ TaskCreate(t, v, p)
      PROVE  Served(k')
  <2>1. CASE TaskSetPriority(t, v, p)
    BY <2>1, TaskSetPriorityServed
  <2>2. CASE TaskCreate(t, v, p)
    <3>1. \A m \in Mutex : k.pOwner[m] = v =>
            \A a \in Range(k.waitingList[m]) : p >= k.priority[a]
      BY <2>2 DEF SetAbove
    <3> QED BY <2>2, <3>1, TaskCreateServed
  <2> QED BY <1>2, <2>1, <2>2
<1>3. CASE /\ ~ \E t, v \in Task, p \in NewPrios : TaskSetPriority(t, v, p) \/ TaskCreate(t, v, p)
           /\ ~ \E t, v \in Task : TaskWakeUp(t, v) \/ TaskDelete(t, v)
  <2>1. KeepsLoans(k', k)
    BY <1>3, TaskLoans
  <2> QED BY <2>1 DEF KeepsLoans
<1> QED BY <1>1, <1>2, <1>3

(* A delay is over: c is k, but for the delays that were counted down.     *)
LEMMA ExpireServed ==
  ASSUME IInv, Served(k), NoneInVain, NEW c, NEW T, Running(c, T), OwnersRun(c),
         SameQueues(c, k), c.state = k.state, c.objPtr = k.objPtr, k' = Expire(c)
  PROVE  Served(k')
<1> DEFINE s == k
<1>1. /\ SameQueues(c, s) /\ Served(s) /\ c.objPtr = s.objPtr /\ c.state = s.state
      /\ Whole(c, T) /\ c.state \in [Task -> State]
      /\ c.delayed \in Seq(Task) /\ NoRepeat(c.delayed)
  BY TablesTyped DEF Running, Whole, Lists, Tables, DelayedAgree
<1> HIDE DEF s
<1>2. Served(c)
  BY <1>1, SameQueuesLoans DEF KeepsLoans
<1>3. CASE Expired(c)
  <2> DEFINE h == Head(c.delayed)
             u == WakeByTimeout(c, h)
  <2>1. h \in Task /\ h \in Range(c.delayed) /\ k' = u
    BY <1>1, <1>3, TailFacts DEF Expired, Expire
  <2> HIDE DEF h
  <2>2. c.state[h] \notin {"ready", "suspended", "none"}
    BY <1>1, <2>1 DEF Whole, Lists, DelayedAgree, Timed
  <2>3. Woken(u, c, h, {"DELAYTMO"})
    BY <2>1, <2>2, WakeByTimeoutRuns
  <2> HIDE DEF u
  <2>4. k'.pOwner = k.pOwner /\ k'.state[h] # "mutexWait"
    <3>1. u.state[h] \in {"ready", "suspended"} /\ u.pOwner = c.pOwner
      BY <1>1, <2>1, <2>3 DEF Woken, SameRest, SameObjects
    <3> QED BY <1>1, <2>1, <3>1 DEF SameQueues, s
  <2>5. c.state[h] = "mutexWait" => OnlyLender(s, h)
    BY <1>1, <2>1, <2>4, EndedInVain DEF s
  <2>6. c.state[h] = "mutexWait" => OnlyLender(c, h)
    BY <1>1, <2>5 DEF OnlyLender, Above, SameQueues
  <2>7. Served(u)
    BY <1>1, <1>2, <2>1, <2>6, WakeByTimeoutServed DEF KeepsLoans, u
  <2> QED BY <2>1, <2>7
<1>4. CASE ~ Expired(c)
  <2>1. k' = c
    BY <1>4 DEF Expire
  <2> QED BY <1>2, <2>1
<1> QED BY <1>3, <1>4

(* The actions of the tick handler.                                        *)
LEMMA TickServed ==
  ASSUME IInv, OwnersNeverWait, Served(k), NoneInVain, TickNext
  PROVE  Served(k')
<1> DEFINE s == k
           T == TimedCalls(pc)
<1>1. Running(s, T) /\ OwnersRun(s)
  BY TablesTyped DEF OwnersNeverWait
<1>2. CASE Tick
  <2> DEFINE c == CountDown(s)
  <2>1. k' = Expire(c) /\ Pending(s)
    BY <1>2 DEF Tick, IInv
  <2>2. SameQueues(c, s)
    BY DEF SameQueues, CountDown
  <2> HIDE DEF s, T
  <2>3. Running(c, T) /\ c.state = s.state /\ c.objPtr = s.objPtr
    BY <1>1, <2>1, CountDownRuns
  <2> HIDE DEF c
  <2>4. OwnersRun(c)
    BY <1>1, <2>2, <2>3 DEF OwnersRun, SameQueues
  <2> QED BY <2>1, <2>2, <2>3, <2>4, ExpireServed DEF s
<1>3. CASE TickExpire
  <2>1. SameQueues(k, k) /\ k' = Expire(k)
    BY <1>3 DEF SameQueues, TickExpire
  <2> QED BY <1>1, <2>1, ExpireServed
<1>4. CASE TickEnd
  BY <1>4, ServiceServed DEF TickEnd
<1> QED BY <1>2, <1>3, <1>4 DEF TickNext

(* Every step the conditions allow.                                        *)
LEMMA NextServed ==
  ASSUME IInv, OwnersNeverWait, Sorted(k), Served(k), [Next]_vars,
         [GivenAlone /\ NoneInVain /\ SetAbove]_vars
  PROVE  Served(k')
<1>1. CASE UNCHANGED vars
  BY <1>1 DEF vars
<1>2. CASE Next /\ GivenAlone /\ NoneInVain /\ SetAbove
  <2>1. CASE SemNext \/ SignalNext
    <3>1. KeepsLoans(k', k)
      BY <2>1, SemLoans, SignalLoans
    <3> QED BY <3>1 DEF KeepsLoans
  <2> QED BY <1>2, <2>1, MutexServed, TaskServed, TickServed DEF Next
<1> QED BY <1>1, <1>2

(* At the start nobody waits.                                              *)
LEMMA StartServed ==
  ASSUME Init
  PROVE  Served(k)
<1> DEFINE s == StartTables
           u == k
<1>1. \A m \in Mutex : s.waitingList[m] = << >>
  BY DEF StartTables, SyncObj
<1>2. u = Schedule(s)
  BY DEF Init
<1> HIDE DEF s, u
<1>3. SameQueues(u, s)
  BY <1>2, QueuesUntouched
<1>4. Served(u)
  BY <1>1, <1>3, NoNodes DEF SameQueues, Served
<1> QED BY <1>4 DEF u

(* Inherited: no task waits for a mutex whose owner is less urgent, as     *)
(* long as no task that owns a mutex waits for another one or for a        *)
(* semaphore, gives one back while it inherits through another, or has its *)
(* priority set below its waiters', and no wait for a mutex ends in vain   *)
(* while its owner inherits from another waiter.  The code keeps it then,  *)
(* whatever the tasks lock, lend and give back (aaMutexNewPrio_,           *)
(* aaMutexPropagate_, aaMutexGive): that an owner falls back to its own    *)
(* priority is right only because no other waiter needs more.              *)
THEOREM PrioritiesAreInherited ==
  Spec /\ []OwnersNeverWait /\ [][GivenAlone /\ NoneInVain /\ SetAbove]_vars => []Inherited
<1> DEFINE S == Sorted(k) /\ Served(k)
<1>1. Init => S
  BY StartRanks, StartServed
<1>2. /\ IInv /\ OwnersNeverWait /\ S
      /\ [Next]_vars /\ [GivenAlone /\ NoneInVain /\ SetAbove]_vars
      => S'
  BY NextRanks, NextServed
<1>3. S => Inherited
  BY DEF Served, Inherited
<1> HIDE DEF S
<1> QED BY <1>1, <1>2, <1>3, Invariant, PTL DEF Spec

(* With one mutex and no semaphore there is nothing its owner could wait   *)
(* for, and nothing else it could inherit through.                         *)
LEMMA OneOwnerRuns ==
  ASSUME OneMutex, IInv
  PROVE  OwnersNeverWait
<1> SUFFICES ASSUME NEW m \in Mutex, k.pOwner[m] \in Task,
                    k.state[k.pOwner[m]] \in {"mutexWait", "semWait"}
             PROVE  FALSE
  BY DEF OwnersNeverWait, OwnersRun
<1> DEFINE o == k.pOwner[m]
<1>1. /\ k.state[o] = "mutexWait" => k.objPtr[o] \in Mutex /\ k.pOwner[k.objPtr[o]] # o
      /\ k.state[o] = "semWait" => k.objPtr[o] \in Sem
  BY TablesTyped DEF Running, Whole, Waits
<1> QED BY <1>1 DEF OneMutex

-----------------------------------------------------------------------------
(* No wait for a mutex ends in vain if all wait for ever.                  *)

(* A step that changes neither the states nor the delays.                  *)
LEMMA SameSpares ==
  ASSUME NEW s, NEW u, NEW v, Plain(s), u.state = s.state, u.delay = s.delay
  PROVE  Spares(u, s, v)
BY DEF Plain, Spares

(* One step after the other.                                              *)
LEMMA SparesTransitive ==
  ASSUME NEW s, NEW u, NEW w, NEW v, Spares(u, s, v), Spares(w, u, v)
  PROVE  Spares(w, s, v)
BY DEF Spares

LEMMA SparedPlain ==
  ASSUME NEW s, NEW u, NEW v, Spares(u, s, v)
  PROVE  Plain(u)
BY DEF Spares

(* What concerns one task spares the others.                               *)
LEMMA OthersSpared ==
  ASSUME NEW s, NEW t, Plain(s)
  PROVE  /\ Spares(AddReady(s, t), s, t) /\ Spares(Suspend(s, t), s, t)
         /\ Spares(PutInList(s, t), s, t)
         /\ Spares(RemoveFromDelayed(s, t), s, t)
         /\ \A d : Spares(AddToDelayed(s, t, d), s, t)
<1>1. Spares(AddReady(s, t), s, t) /\ Spares(Suspend(s, t), s, t)
  BY DEF Spares, Plain, AddReady, Suspend
<1>2. Spares(PutInList(s, t), s, t)
  <2>1. CASE "SUSPEND" \in s.flags[t]
    BY <2>1, <1>1 DEF Spares, Plain, PutInList
  <2>2. CASE "SUSPEND" \notin s.flags[t]
    BY <2>2, <1>1 DEF Spares, Plain, PutInList
  <2> QED BY <2>1, <2>2
<1>3. Spares(RemoveFromDelayed(s, t), s, t)
  BY DEF Spares, Plain, RemoveFromDelayed
<1>4. ASSUME NEW d
      PROVE  Spares(AddToDelayed(s, t, d), s, t)
  <2>1. CASE d = 0
    BY <2>1 DEF Spares, Plain, AddToDelayed
  <2>2. CASE d # 0
    BY <2>2 DEF Spares, Plain, AddToDelayed
  <2> QED BY <2>1, <2>2
<1> QED BY <1>1, <1>2, <1>3, <1>4

(* What ends a service spares everybody.                                   *)
LEMMA AllSpared ==
  ASSUME NEW s, NEW v, Plain(s)
  PROVE  /\ \A t : Spares(RemoveReady(s, t), s, v)
         /\ Spares(Schedule(s), s, v) /\ Spares(ScheduleIf(s), s, v)
<1>1. ASSUME NEW t PROVE Spares(RemoveReady(s, t), s, v)
  BY DEF Spares, Plain, RemoveReady
<1>2. Spares(Schedule(s), s, v)
  BY DEF Spares, Plain, Schedule
<1>3. Spares(ScheduleIf(s), s, v)
  BY <1>2 DEF Spares, Plain, ScheduleIf
<1> QED BY <1>1, <1>2, <1>3

(* aaMutexNewPrio_ and aaMutexPropagate_: a ready task stays ready.        *)
LEMMA PriosSpare ==
  ASSUME NEW s, NEW t, NEW v, Plain(s)
  PROVE  Spares(NewPrio(s, t), s, v) /\ Spares(Propagate(s, t), s, v)
<1>1. Spares(NewPrio(s, t), s, v)
  <2> DEFINE p == HighestWaiting(s, t)
             moved == [RemoveReady(s, t) EXCEPT !.priority[t] = p]
  <2>1. CASE p = s.priority[t]
    BY <2>1 DEF Spares, Plain, NewPrio
  <2>2. CASE p # s.priority[t] /\ s.state[t] = "ready"
    <3>1. Spares(moved, s, v)
      BY DEF Spares, Plain, RemoveReady
    <3>2. moved.state = s.state
      BY DEF RemoveReady
    <3> HIDE DEF moved, p
    <3>3. /\ AddReady(moved, t).state = [moved.state EXCEPT ![t] = "ready"]
          /\ AddReady(moved, t).delay = moved.delay
      BY DEF AddReady
    <3>4. Spares(AddReady(moved, t), s, v)
      BY <2>2, <3>1, <3>2, <3>3 DEF Spares, Plain
    <3>5. NewPrio(s, t) = [AddReady(moved, t) EXCEPT !.sched = TRUE]
      BY <2>2 DEF NewPrio, moved, p
    <3> QED BY <3>4, <3>5 DEF Spares, Plain
  <2>3. CASE p # s.priority[t] /\ s.state[t] # "ready"
    BY <2>3 DEF Spares, Plain, NewPrio
  <2> QED BY <2>1, <2>2, <2>3
<1>2. Spares(Propagate(s, t), s, v)
  <2> DEFINE up    == Raised(s, t)
             moved == {o \in up : s.state[o] = "ready"}
             ready == CHOOSE o \in moved : TRUE
             w     == Lend(RemoveReady(s, ready), up, s.priority[t])
  <2>1. CASE moved = {}
    <3>1. Propagate(s, t) = Lend(s, up, s.priority[t])
      BY <2>1 DEF Propagate
    <3> HIDE DEF up
    <3> QED BY <3>1 DEF Lend, Spares, Plain
  <2>2. CASE moved # {}
    <3>1. s.state[ready] = "ready"
      BY <2>2
    <3>2. Propagate(s, t) = AddReady(w, ready)
      BY <2>2 DEF Propagate
    <3> HIDE DEF ready, up
    <3>3. w.state = s.state /\ w.delay = s.delay
      BY DEF Lend, RemoveReady
    <3> HIDE DEF w
    <3>4. /\ AddReady(w, ready).state = [w.state EXCEPT ![ready] = "ready"]
          /\ AddReady(w, ready).delay = w.delay
      BY DEF AddReady
    <3> QED BY <3>1, <3>2, <3>3, <3>4 DEF Spares, Plain
  <2> QED BY <2>1, <2>2
<1> QED BY <1>1, <1>2

(* The task t goes to sleep in the state st, for d ticks.                  *)
LEMMA SleepSpares ==
  ASSUME NEW s, NEW u, NEW t \in Task, NEW st, NEW d, Plain(s),
         u.state = [s.state EXCEPT ![t] = st], u.delay = s.delay
  PROVE  /\ Spares(Schedule(AddToDelayed(u, t, d)), s, t)
         /\ Schedule(AddToDelayed(u, t, d)).state[t] = st
         /\ d # 0 => Schedule(AddToDelayed(u, t, d)).delay[t] = d
<1> DEFINE w == AddToDelayed(u, t, d)
<1>1. Spares(u, s, t) /\ u.state[t] = st /\ Plain(u)
  BY DEF Spares, Plain
<1>2. Spares(w, u, t)
  BY <1>1, OthersSpared
<1>3. w.state = u.state /\ (d # 0 => w.delay = [u.delay EXCEPT ![t] = d])
  <2>1. CASE d = 0
    BY <2>1 DEF AddToDelayed
  <2>2. CASE d # 0
    BY <2>2 DEF AddToDelayed
  <2> QED BY <2>1, <2>2
<1> HIDE DEF w
<1>4. Schedule(w).state = w.state /\ Schedule(w).delay = w.delay
  BY DEF Schedule
<1>5. Spares(Schedule(w), w, t)
  BY <1>2, AllSpared, SparedPlain
<1>6. Spares(Schedule(w), s, t)
  BY <1>1, <1>2, <1>5, SparesTransitive
<1>7. w.state[t] = st /\ (d # 0 => w.delay[t] = d)
  BY <1>1, <1>3 DEF Plain
<1> QED BY <1>4, <1>6, <1>7 DEF w

(* The task t is woken or suspended.                                       *)
LEMMA ListedSettled ==
  ASSUME NEW s, NEW t \in Task, Plain(s)
  PROVE  PutInList(s, t).state[t] \in Settled
<1>1. CASE "SUSPEND" \in s.flags[t]
  BY <1>1 DEF PutInList, Suspend, Plain, Settled
<1>2. CASE "SUSPEND" \notin s.flags[t]
  BY <1>2 DEF PutInList, AddReady, Plain, Settled
<1> QED BY <1>1, <1>2

(* The first task of a waiting list is.                                    *)
LEMMA WakeFirstSpares ==
  ASSUME NEW s, NEW x, NEW t \in Task, t = Head(s.waitingList[x]), Plain(s)
  PROVE  Spares(WakeFirst(s, x), s, t) /\ WakeFirst(s, x).state[t] \in Settled
<1> DEFINE u == [s EXCEPT !.waitingList[x] = Tail(@), !.objPtr[t] = None]
           w == RemoveFromDelayed(u, t)
<1>1. Spares(u, s, t)
  BY DEF Spares, Plain
<1>2. WakeFirst(s, x) = PutInList(w, t)
  BY DEF WakeFirst
<1> HIDE DEF u
<1>3. Spares(w, u, t)
  BY <1>1, OthersSpared, SparedPlain
<1> HIDE DEF w
<1>4. Spares(PutInList(w, t), w, t) /\ PutInList(w, t).state[t] \in Settled
  BY <1>3, OthersSpared, ListedSettled, SparedPlain
<1> QED BY <1>1, <1>2, <1>3, <1>4, SparesTransitive

(* No wait but that of v ends, which gets what it waited for, or is not    *)
(* for a mutex; if v begins to wait for a mutex it waits for ever.         *)
LEMMA NoWaitInVain ==
  ASSUME Patient(k), NEW v, Spares(k', k, v),
         v \in Task /\ k.state[v] = "mutexWait" => k'.pOwner[k.objPtr[v]] = v,
         v \in Task /\ k'.state[v] = "mutexWait" => k'.delay[v] = Infinite
  PROVE  NoneInVain /\ Patient(k')
BY DEF NoneInVain, Patient, Spares

(* Nobody's wait begins or ends.                                           *)
LEMMA NobodyWakes ==
  ASSUME Patient(k), k'.state = k.state, k'.delay = k.delay
  PROVE  NoneInVain /\ Patient(k')
BY DEF NoneInVain, Patient

(* All the actions of aamutex.c.                                           *)
LEMMA MutexPatient ==
  ASSUME IInv, Patient(k), WaitsForEver, MutexNext
  PROVE  NoneInVain /\ Patient(k')
<1> DEFINE s == k
           T == TimedCalls(pc)
<1>1. Running(s, T) /\ Plain(s) /\ s \in Tables
  BY TablesTyped DEF Tables, Plain
<1>2. ASSUME NEW t \in Task, NEW m \in Mutex, NEW d \in TakeDelays, MutexTakeWait(t, m, d)
      PROVE  NoneInVain /\ Patient(k')
  <2> DEFINE asked == [s EXCEPT !.objPtr[t] = m]
             lent == IF s.priority[t] > s.priority[s.pOwner[m]] THEN Propagate(asked, t)
                                                                ELSE asked
             value == [lent.waitValue EXCEPT ![t] = lent.priority[t]]
             r == RemoveReady(lent, t)
             u == [r EXCEPT
                     !.state[t] = "mutexWait", !.objPtr[t] = m, !.waitValue = value,
                     !.flags[t] = @ \ {"DELAYTMO"},
                     !.waitingList[m] = AddOrdered(@, value, t)]
             w == Schedule(AddToDelayed(u, t, d))
  <2>1. Runs(t) /\ k' = w
    BY <1>2 DEF MutexTakeWait, WaitOrdered
  <2>2. s.state[t] = "ready" /\ d = Infinite /\ d # 0
    BY <2>1, RunsFacts, DelayAssumption DEF WaitsForEver
  <2>3. Spares(asked, s, t)
    BY <1>1 DEF Spares, Plain
  <2> HIDE DEF s, T, asked
  <2>4. Spares(lent, asked, t)
    BY <2>3, PriosSpare, SameSpares, SparedPlain
  <2> HIDE DEF lent
  <2>5. Spares(r, lent, t)
    BY <2>4, AllSpared, SparedPlain
  <2>6. u.state = [r.state EXCEPT ![t] = "mutexWait"] /\ u.delay = r.delay
    OBVIOUS
  <2> HIDE DEF r, u
  <2>7. Spares(w, r, t) /\ w.delay[t] = Infinite
    BY <2>2, <2>5, <2>6, SleepSpares, SparedPlain
  <2> HIDE DEF w
  <2>8. Spares(w, s, t)
    BY <2>3, <2>4, <2>5, <2>7, SparesTransitive
  <2> QED BY <2>1, <2>2, <2>7, <2>8, NoWaitInVain DEF s
<1>3. ASSUME NEW t \in Task, NEW m \in Mutex, MutexGive(t, m)
      PROVE  NoneInVain /\ Patient(k')
  <2> DEFINE v == [s EXCEPT !.mutexList[t] = @ \ {m}]
             n == NewPrio(v, t)
             h == Head(s.waitingList[m])
  <2>1. Runs(t) /\ CalledFromTask(HandOver(n, m)) /\ s.state[t] = "ready"
    BY <1>3, RunsFacts DEF MutexGive
  <2> HIDE DEF s, T
  <2>2. /\ v.state = s.state /\ v.delay = s.delay /\ v.waitingList = s.waitingList
        /\ v.pOwner = s.pOwner
    OBVIOUS
  <2> HIDE DEF v
  <2>3. Spares(v, s, h)
    BY <1>1, <2>2, SameSpares
  <2>4. Spares(n, v, h)
    BY <2>3, PriosSpare, SparedPlain
  <2>5. n.waitingList = s.waitingList /\ n.pOwner = s.pOwner
    <3>1. CASE HighestWaiting(v, t) = v.priority[t]
      BY <2>2, <3>1 DEF NewPrio
    <3>2. CASE HighestWaiting(v, t) # v.priority[t]
      BY <2>1, <2>2, <3>2 DEF NewPrio, AddReady, RemoveReady
    <3> QED BY <3>1, <3>2
  <2> HIDE DEF n
  <2>6. CASE s.waitingList[m] = << >>
    <3> DEFINE u == [n EXCEPT !.count[m] = 0, !.pOwner[m] = None]
    <3>1. k' = ScheduleIf(u)
      BY <2>1, <2>5, <2>6 DEF CalledFromTask, HandOver
    <3>2. Spares(u, n, None)
      BY <2>4 DEF Spares, Plain
    <3> HIDE DEF u
    <3>3. Spares(k', u, None)
      BY <3>1, <3>2, AllSpared, SparedPlain
    <3>4. Spares(v, s, None) /\ Spares(n, v, None)
      BY <1>1, <2>2, <2>3, SameSpares, PriosSpare, SparedPlain DEF n
    <3>5. Spares(k', s, None)
      BY <3>2, <3>3, <3>4, SparesTransitive
    <3>6. None \notin Task
      BY KernelAssumption
    <3> QED BY <3>5, <3>6, NoWaitInVain DEF s
  <2>7. CASE s.waitingList[m] # << >>
    <3>1. h \in Task /\ s.state[h] = "mutexWait" /\ s.objPtr[h] = m
      BY <1>1, <2>7, HeadWaits DEF SyncObj
    <3> DEFINE f == WakeFirst(n, m)
               u == [f EXCEPT !.pOwner[m] = h]
    <3>2. k' = ScheduleIf(u)
      BY <2>1, <2>5, <2>7 DEF CalledFromTask, HandOver
    <3>3. f.pOwner = n.pOwner
      BY DEF WakeFirst, PutInList, Suspend, AddReady, RemoveFromDelayed
    <3>4. Spares(f, n, h) /\ f.state[h] \in Settled
      BY <2>4, <2>5, <3>1, WakeFirstSpares, SparedPlain
    <3> HIDE DEF f, h
    <3>5. Spares(u, f, h) /\ u.state = f.state /\ u.pOwner[m] = h
      BY <1>1, <2>5, <3>3, <3>4 DEF Spares, Plain, Tables
    <3> HIDE DEF u
    <3>6. Spares(k', u, h) /\ k'.state = u.state /\ k'.pOwner = u.pOwner
      <4>1. Spares(k', u, h)
        BY <3>2, <3>5, AllSpared, SparedPlain
      <4> QED BY <3>2, <4>1 DEF ScheduleIf, Schedule
    <3>7. Spares(k', s, h)
      BY <2>3, <2>4, <3>4, <3>5, <3>6, SparesTransitive
    <3> QED BY <3>1, <3>4, <3>5, <3>6, <3>7, NoWaitInVain DEF s, Settled
  <2> QED BY <2>6, <2>7
<1>4. ASSUME NEW t \in Task, NEW m \in Mutex,
             \/ MutexCreate(t, m) \/ MutexDelete(t, m)
             \/ MutexTakeFree(t, m) \/ MutexTakeAgain(t, m) \/ MutexGiveOnce(t, m)
      PROVE  k'.state = k.state /\ k'.delay = k.delay
  <2>1. CASE MutexCreate(t, m)
    BY <2>1 DEF MutexCreate
  <2>2. CASE MutexDelete(t, m)
    BY <2>2 DEF MutexDelete
  <2>3. CASE MutexTakeFree(t, m)
    BY <2>3 DEF MutexTakeFree
  <2>4. CASE MutexTakeAgain(t, m)
    BY <2>4 DEF MutexTakeAgain
  <2>5. CASE MutexGiveOnce(t, m)
    BY <2>5 DEF MutexGiveOnce
  <2> QED BY <1>4, <2>1, <2>2, <2>3, <2>4, <2>5
<1>5. ASSUME NEW t \in Task, MutexTakeTimedOut(t) \/ MutexTakeGranted(t)
      PROVE  k'.state = k.state /\ k'.delay = k.delay
  <2>1. CASE MutexTakeTimedOut(t)
    BY <2>1 DEF MutexTakeTimedOut
  <2>2. CASE MutexTakeGranted(t)
    BY <2>2 DEF MutexTakeGranted
  <2> QED BY <1>5, <2>1, <2>2
<1> QED BY <1>2, <1>3, <1>4, <1>5, NobodyWakes DEF MutexNext

(* The end of a service.                                                   *)
LEMMA ServicePatient ==
  ASSUME Patient(k), NEW u, NEW v, Spares(u, k, v),
         v \in Task => k.state[v] # "mutexWait" /\ u.state[v] # "mutexWait",
         CalledFromTask(u) \/ CalledFromIsr(u) \/ k' = u \/ k' = Schedule(u)
  PROVE  NoneInVain /\ Patient(k')
<1>1. Plain(u)
  BY SparedPlain
<1>2. Spares(k', u, v) /\ (v \in Task => k'.state[v] = u.state[v])
  <2>1. CASE k' = Schedule(u)
    BY <1>1, <2>1 DEF Schedule, Spares, Plain
  <2>2. CASE k' = u
    BY <1>1, <2>2 DEF Spares, Plain
  <2>3. CASE CalledFromTask(u)
    BY <1>1, <2>1, <2>2, <2>3 DEF CalledFromTask, ScheduleIf
  <2>4. CASE CalledFromIsr(u)
    <3>1. CASE isr = "none"
      BY <2>1, <2>4, <3>1 DEF CalledFromIsr
    <3>2. CASE isr # "none"
      <4>1. k' = [u EXCEPT !.sched = FALSE]
        BY <2>4, <3>2 DEF CalledFromIsr
      <4> QED BY <1>1, <4>1 DEF Spares, Plain
    <3> QED BY <3>1, <3>2
  <2> QED BY <2>1, <2>2, <2>3, <2>4
<1>3. Spares(k', k, v)
  BY <1>2, SparesTransitive
<1> QED BY <1>2, <1>3, NoWaitInVain

(* A task that waits for a semaphore or a driver gets it.                  *)
LEMMA HeadPatient ==
  ASSUME IInv, Patient(k), NEW s, NEW x \in Sem \cup Driver, NEW u,
         k.waitingList[x] # << >>, u = WakeFirst(s, x) \/ u = Resumed(s, x),
         s.waitingList = k.waitingList, s.state = k.state, s.delay = k.delay,
         CalledFromTask(u) \/ CalledFromIsr(u) \/ k' = u
  PROVE  NoneInVain /\ Patient(k')
<1> DEFINE t == Head(k.waitingList[x])
<1>1. t \in Task /\ k.state[t] # "mutexWait" /\ Plain(k)
  <2>1. Running(k, TimedCalls(pc)) /\ Plain(k)
    BY TablesTyped DEF Tables, Plain
  <2> QED BY <2>1, HeadWaits, KernelAssumption DEF SyncObj
<1>2. Spares(s, k, t) /\ t = Head(s.waitingList[x]) /\ Plain(s)
  BY <1>1, SameSpares, SparedPlain
<1> HIDE DEF t
<1>3. Spares(u, s, t) /\ u.state[t] \in Settled
  <2>1. CASE u = WakeFirst(s, x)
    BY <1>1, <1>2, <2>1, WakeFirstSpares
  <2>2. CASE u = Resumed(s, x)
    <3> DEFINE l == [s EXCEPT !.waitingList[x] = Tail(@)]
               w == IF t \in Range(l.delayed) THEN RemoveFromDelayed(l, t) ELSE l
    <3>1. Spares(l, s, t)
      BY <1>2 DEF Spares, Plain
    <3>2. u = PutInList(w, t)
      BY <1>2, <2>2 DEF Resumed
    <3> HIDE DEF l
    <3>3. Plain(l)
      BY <3>1, SparedPlain
    <3>4. Spares(w, l, t)
      BY <3>3, OthersSpared, SameSpares
    <3> HIDE DEF w
    <3>5. Plain(w)
      BY <3>4, SparedPlain
    <3>6. Spares(PutInList(w, t), w, t) /\ PutInList(w, t).state[t] \in Settled
      BY <1>1, <3>5, OthersSpared, ListedSettled
    <3> QED BY <3>1, <3>2, <3>4, <3>6, SparesTransitive
  <2> QED BY <2>1, <2>2
<1>4. Spares(u, k, t) /\ u.state[t] # "mutexWait"
  BY <1>2, <1>3, SparesTransitive DEF Settled
<1> QED BY <1>1, <1>4, ServicePatient

(* The running task goes to sleep, but not for a mutex.                    *)
LEMMA SleepPatient ==
  ASSUME IInv, Patient(k), NEW t \in Task, NEW st, st # "mutexWait", NEW u, NEW d,
         u.state = [k.state EXCEPT ![t] = st], u.delay = k.delay,
         k.state[t] # "mutexWait", k' = Schedule(AddToDelayed(u, t, d))
  PROVE  NoneInVain /\ Patient(k')
<1>1. Plain(k)
  BY TablesTyped DEF Tables, Plain
<1>2. Spares(k', k, t) /\ k'.state[t] = st
  BY <1>1, SleepSpares
<1> QED BY <1>2, NoWaitInVain

(* All the actions of aasema.c.                                            *)
LEMMA SemPatient ==
  ASSUME IInv, Patient(k), SemNext
  PROVE  NoneInVain /\ Patient(k')
<1>1. ASSUME NEW t \in Task, NEW x \in Sem, NEW d \in TakeDelays, SemTakeWait(t, x, d)
      PROVE  NoneInVain /\ Patient(k')
  <2> DEFINE value == [k.waitValue EXCEPT ![t] = k.priority[t]]
             r == RemoveReady(k, t)
             u == [r EXCEPT
                     !.state[t] = "semWait", !.objPtr[t] = x, !.waitValue = value,
                     !.flags[t] = @ \ {"FLUSH", "DELAYTMO"},
                     !.waitingList[x] = AddOrdered(@, value, t)]
  <2>1. Runs(t) /\ k' = Schedule(AddToDelayed(u, t, d))
    BY <1>1 DEF SemTakeWait, WaitOrdered
  <2>2. k.state[t] = "ready"
    BY <2>1, RunsFacts
  <2>3. r.state = k.state /\ r.delay = k.delay
    BY DEF RemoveReady
  <2> HIDE DEF r
  <2>4. u.state = [k.state EXCEPT ![t] = "semWait"] /\ u.delay = k.delay
    BY <2>3
  <2> HIDE DEF u
  <2> QED BY <2>1, <2>2, <2>4, SleepPatient
<1>2. ASSUME NEW x \in Sem,
             CalledFromTask(Give(k, x)) \/ CalledFromIsr(Give(k, x))
      PROVE  NoneInVain /\ Patient(k')
  <2> DEFINE u == Give(k, x)
  <2>1. CASE k.count[x] < 0 \/ k.waitingList[x] = << >>
    <3>1. Plain(k) /\ None \notin Task
      BY TablesTyped, KernelAssumption DEF Tables, Plain
    <3>2. u.state = k.state /\ u.delay = k.delay
      BY <2>1 DEF Give
    <3> HIDE DEF u
    <3>3. Spares(u, k, None)
      BY <3>1, <3>2, SameSpares
    <3> QED BY <1>2, <3>1, <3>3, ServicePatient DEF u
  <2>2. CASE ~ (k.count[x] < 0 \/ k.waitingList[x] = << >>)
    <3>1. u = WakeFirst(k, x)
      BY <2>2 DEF Give
    <3> HIDE DEF u
    <3> QED BY <1>2, <2>2, <3>1, HeadPatient DEF u
  <2> QED BY <2>1, <2>2
<1>3. ASSUME NEW x \in Sem, FlushOne(x)
      PROVE  NoneInVain /\ Patient(k')
  <2> DEFINE h == Head(k.waitingList[x])
             s == [k EXCEPT !.flags[h] = @ \cup {"FLUSH"}]
  <2>1. k' = WakeFirst(s, x) /\ k.waitingList[x] # << >>
    BY <1>3 DEF FlushOne
  <2>2. s.waitingList = k.waitingList /\ s.state = k.state /\ s.delay = k.delay
    OBVIOUS
  <2> HIDE DEF s
  <2> QED BY <2>1, <2>2, HeadPatient
<1>4. ASSUME NEW x \in Sem, FlushEnd(x)
      PROVE  NoneInVain /\ Patient(k')
  <2>1. isr \in {"none", "tick", "other"}
    BY DEF IInv, CallsTyped
  <2>2. k'.state = k.state /\ k'.delay = k.delay
    <3>1. CASE isr = "none"
      <4>1. k' = ScheduleIf(k)
        BY <1>4, <3>1 DEF FlushEnd
      <4> QED BY <4>1 DEF ScheduleIf, Schedule
    <3>2. CASE isr = "other"
      <4>1. k' = Schedule(k)
        BY <1>4, <3>2 DEF FlushEnd
      <4> QED BY <4>1 DEF Schedule
    <3>3. CASE isr = "tick"
      <4>1. k' = [k EXCEPT !.sched = FALSE]
        BY <1>4, <3>3 DEF FlushEnd
      <4> QED BY <4>1
    <3> QED BY <2>1, <3>1, <3>2, <3>3
  <2> QED BY <2>2, NobodyWakes
<1>5. ASSUME NEW t \in Task, NEW x \in Sem, SemTakeNow(t, x) \/ SemFlush(t, x) \/ SemDelete(t, x)
      PROVE  k'.state = k.state /\ k'.delay = k.delay
  <2>1. CASE SemTakeNow(t, x)
    BY <2>1 DEF SemTakeNow
  <2>2. CASE SemFlush(t, x) \/ SemDelete(t, x)
    BY <2>2 DEF SemFlush, SemDelete, FlushBegin
  <2> QED BY <1>5, <2>1, <2>2
<1>6. ASSUME NEW t \in Task, NEW x \in Sem, NEW n, SemCreate(t, x, n) \/ SemReset(t, x, n)
      PROVE  k'.state = k.state /\ k'.delay = k.delay
  <2>1. CASE SemCreate(t, x, n)
    BY <2>1 DEF SemCreate
  <2>2. CASE SemReset(t, x, n)
    <3> DEFINE c == n % 65536
    <3>1. k' = [k EXCEPT !.count[x] = c]
      BY <2>2 DEF SemReset
    <3> HIDE DEF c
    <3> QED BY <3>1
  <2> QED BY <1>6, <2>1, <2>2
<1>7. ASSUME NEW t \in Task, SemTakeFailed(t) \/ SemTakeGranted(t) \/ SemDeleteEnd(t)
      PROVE  k'.state = k.state /\ k'.delay = k.delay
  <2>1. CASE SemTakeFailed(t)
    BY <2>1 DEF SemTakeFailed
  <2>2. CASE SemTakeGranted(t)
    BY <2>2 DEF SemTakeGranted
  <2>3. CASE SemDeleteEnd(t)
    BY <2>3 DEF SemDeleteEnd
  <2> QED BY <1>7, <2>1, <2>2, <2>3
<1>8. ASSUME NEW x \in Sem, SemFlushFromIsr(x)
      PROVE  k'.state = k.state /\ k'.delay = k.delay
  BY <1>8 DEF SemFlushFromIsr, FlushBegin
<1>9. CASE \E t \in Task, x \in Sem : \/ \E n \in SemCounts : SemCreate(t, x, n)
                                      \/ \E n \in ResetCounts : SemReset(t, x, n)
                                      \/ SemTakeNow(t, x) \/ SemFlush(t, x) \/ SemDelete(t, x)
  <2>1. k'.state = k.state /\ k'.delay = k.delay
    BY <1>5, <1>6, <1>9
  <2> QED BY <2>1, NobodyWakes
<1>10. CASE \/ \E t \in Task : SemTakeFailed(t) \/ SemTakeGranted(t) \/ SemDeleteEnd(t)
            \/ \E x \in Sem : SemFlushFromIsr(x)
  <2>1. k'.state = k.state /\ k'.delay = k.delay
    BY <1>7, <1>8, <1>10
  <2> QED BY <2>1, NobodyWakes
<1>11. CASE \E x \in Sem : SemGiveFromIsr(x) \/ \E t \in Task : SemGive(t, x)
  BY <1>2, <1>11 DEF SemGive, SemGiveFromIsr
<1>12. CASE \/ \E t \in Task, x \in Sem, d \in TakeDelays : SemTakeWait(t, x, d)
            \/ \E x \in Sem : FlushOne(x) \/ FlushEnd(x)
  BY <1>1, <1>3, <1>4, <1>12
<1> QED BY <1>9, <1>10, <1>11, <1>12 DEF SemNext

(* All the actions of aasignal.c.                                          *)
LEMMA SignalPatient ==
  ASSUME IInv, Patient(k), SignalNext
  PROVE  NoneInVain /\ Patient(k')
<1>1. ASSUME NEW t \in Task, NEW w, NEW mode, NEW d, SignalWait(t, w, mode, d)
      PROVE  NoneInVain /\ Patient(k')
  <2> DEFINE a == SignalAsked(t, w, mode)
             r == RemoveReady(a, t)
             u == [r EXCEPT !.state[t] = "signalWait", !.flags[t] = @ \ {"DELAYTMO"}]
  <2>1. Runs(t) /\ k' = Schedule(AddToDelayed(u, t, d))
    BY <1>1 DEF SignalWait
  <2>2. k.state[t] = "ready"
    BY <2>1, RunsFacts
  <2>3. a.state = k.state /\ a.delay = k.delay
    BY DEF SignalAsked
  <2> HIDE DEF a
  <2>4. r.state = k.state /\ r.delay = k.delay
    BY <2>3 DEF RemoveReady
  <2> HIDE DEF r
  <2>5. u.state = [k.state EXCEPT ![t] = "signalWait"] /\ u.delay = k.delay
    BY <2>4
  <2> HIDE DEF u
  <2> QED BY <2>1, <2>2, <2>5, SleepPatient
<1>2. ASSUME NEW v \in Task, NEW bits, NEW pulse,
             CalledFromTask(Signalled(k, v, bits, pulse)) \/
             CalledFromIsr(Signalled(k, v, bits, pulse))
      PROVE  NoneInVain /\ Patient(k')
  <2> DEFINE u == Signalled(k, v, bits, pulse)
             all  == k.sigsRecv[v] \cup bits
             got  == Matched(k.sigsWait[v], all, "SIGNALAND" \in k.flags[v])
             kept == [k EXCEPT !.sigsRecv[v] = all \ pulse, !.sched = FALSE]
             used == [kept EXCEPT !.sigsRecv[v] = @ \ got, !.objPtr[v] = got]
             w    == RemoveFromDelayed(used, v)
  <2>1. Plain(k) /\ None \notin Task
    BY TablesTyped, KernelAssumption DEF Tables, Plain
  <2>2. CASE k.state[v] = "signalWait" /\ got # {}
    <3>1. u = PutInList(w, v)
      BY <2>2 DEF Signalled
    <3> HIDE DEF u
    <3>2. used.state = k.state /\ used.delay = k.delay
      OBVIOUS
    <3> HIDE DEF used
    <3>3. Spares(used, k, v) /\ Plain(used)
      BY <2>1, <3>2, SameSpares, SparedPlain
    <3>4. Spares(w, used, v) /\ Plain(w)
      BY <3>3, OthersSpared, SparedPlain
    <3> HIDE DEF w
    <3>5. Spares(u, w, v) /\ u.state[v] \in Settled
      BY <3>1, <3>4, OthersSpared, ListedSettled
    <3>6. Spares(u, k, v) /\ u.state[v] # "mutexWait"
      BY <3>3, <3>4, <3>5, SparesTransitive DEF Settled
    <3> QED BY <1>2, <2>2, <3>6, ServicePatient DEF u
  <2>3. CASE ~ (k.state[v] = "signalWait" /\ got # {})
    <3>1. u = kept
      BY <2>3 DEF Signalled
    <3>2. kept.state = k.state /\ kept.delay = k.delay
      OBVIOUS
    <3> HIDE DEF u, kept
    <3>3. Spares(u, k, None)
      BY <2>1, <3>1, <3>2, SameSpares
    <3> QED BY <1>2, <2>1, <3>3, ServicePatient DEF u
  <2> QED BY <2>2, <2>3
<1>3. ASSUME NEW t \in Task, NEW v \in Task, NEW w, NEW mode,
             SignalTry(t, w, mode) \/ SignalClear(t, v, w) \/ SignalWaitEnd(t)
      PROVE  NoneInVain /\ Patient(k')
  <2>1. k'.state = k.state /\ k'.delay = k.delay
    <3>1. CASE SignalTry(t, w, mode)
      BY <3>1 DEF SignalTry, SignalAsked
    <3>2. CASE SignalClear(t, v, w)
      BY <3>2 DEF SignalClear
    <3>3. CASE SignalWaitEnd(t)
      BY <3>3 DEF SignalWaitEnd
    <3> QED BY <1>3, <3>1, <3>2, <3>3
  <2> QED BY <2>1, NobodyWakes
<1> QED BY <1>1, <1>2, <1>3 DEF SignalNext, SignalSend, SignalSendFromIsr

(* aaTaskSuspend and aaTaskResume.                                         *)
LEMMA SuspendPatient ==
  ASSUME IInv, Patient(k), NEW t \in Task, NEW v \in Task,
         TaskSuspend(t, v) \/ TaskResume(t, v)
  PROVE  NoneInVain /\ Patient(k')
<1>1. Plain(k) /\ None \notin Task
  BY TablesTyped, KernelAssumption DEF Tables, Plain
<1>2. ASSUME NEW f, NEW u, u = [k EXCEPT !.flags[v] = f],
             CalledFromTask(u) \/ k' = u \/ k' = Schedule(u)
      PROVE  NoneInVain /\ Patient(k')
  <2>1. u.state = k.state /\ u.delay = k.delay
    BY <1>2
  <2>2. Spares(u, k, None)
    BY <1>1, <2>1, SameSpares
  <2> QED BY <1>1, <1>2, <2>2, ServicePatient
<1>3. CASE TaskSuspend(t, v)
  <2>1. CASE k.state[v] = "ready"
    <3> DEFINE r == RemoveReady(k, v)
               u == Suspend(r, v)
    <3>1. k' = u \/ k' = Schedule(u)
      BY <1>3, <2>1 DEF TaskSuspend
    <3>2. Spares(r, k, v) /\ Plain(r)
      BY <1>1, AllSpared, SparedPlain
    <3> HIDE DEF r
    <3>3. Spares(u, r, v) /\ u.state[v] # "mutexWait"
      <4>1. u.state = [r.state EXCEPT ![v] = "suspended"]
        BY DEF Suspend
      <4>2. Spares(u, r, v)
        BY <3>2, OthersSpared
      <4> QED BY <3>2, <4>1, <4>2 DEF Plain
    <3> HIDE DEF u
    <3>4. Spares(u, k, v)
      BY <3>2, <3>3, SparesTransitive
    <3> QED BY <2>1, <3>1, <3>3, <3>4, ServicePatient
  <2>2. CASE k.state[v] # "ready"
    <3> DEFINE f == k.flags[v] \cup {"SUSPEND"}
               u == [k EXCEPT !.flags[v] = f]
    <3>1. k' = u \/ k' = Schedule(u)
      BY <1>3, <2>2 DEF TaskSuspend
    <3> HIDE DEF f
    <3> QED BY <1>2, <3>1
  <2> QED BY <2>1, <2>2
<1>4. CASE TaskResume(t, v)
  <2>1. CASE k.state[v] = "suspended"
    <3> DEFINE r == [k EXCEPT !.suspended = @ \ {v}]
               a == AddReady(r, v)
               c == k.priority[v] > k.priority[t]
               u == [a EXCEPT !.sched = c]
    <3>1. CalledFromTask(u)
      BY <1>4, <2>1 DEF TaskResume
    <3>2. Spares(r, k, v) /\ Plain(r)
      BY <1>1 DEF Spares, Plain
    <3> HIDE DEF r, c
    <3>3. Spares(a, r, v) /\ a.state[v] = "ready" /\ Plain(a)
      <4>1. a.state = [r.state EXCEPT ![v] = "ready"]
        BY DEF AddReady
      <4>2. Spares(a, r, v) /\ Plain(a)
        BY <3>2, OthersSpared, SparedPlain
      <4> QED BY <3>2, <4>1, <4>2 DEF Plain
    <3> HIDE DEF a
    <3>4. Spares(u, a, v) /\ u.state[v] = "ready"
      BY <3>3 DEF Spares, Plain
    <3> HIDE DEF u
    <3>5. Spares(u, k, v)
      BY <3>2, <3>3, <3>4, SparesTransitive
    <3> QED BY <2>1, <3>1, <3>4, <3>5, ServicePatient
  <2>2. CASE k.state[v] # "suspended"
    <3> DEFINE f == k.flags[v] \ {"SUSPEND"}
               u == [k EXCEPT !.flags[v] = f]
    <3>1. CalledFromTask(u)
      BY <1>4, <2>2 DEF TaskResume
    <3> HIDE DEF f
    <3> QED BY <1>2, <3>1
  <2> QED BY <2>1, <2>2
<1> QED BY <1>3, <1>4

(* aaTaskSetPriority.                                                      *)
LEMMA SetPriorityPatient ==
  ASSUME IInv, Patient(k), NEW t \in Task, NEW v \in Task, NEW p, TaskSetPriority(t, v, p)
  PROVE  NoneInVain /\ Patient(k')
<1> DEFINE b == [k EXCEPT !.basePriority[v] = p]
           s == NewPrio(b, v)
           u == IF s.state[v] = "mutexWait" THEN Propagate(s, v) ELSE s
<1>1. k' = Schedule(u)
  BY DEF TaskSetPriority
<1>2. Plain(k) /\ None \notin Task
  BY TablesTyped, KernelAssumption DEF Tables, Plain
<1>3. Spares(b, k, None) /\ Plain(b)
  BY <1>2 DEF Spares, Plain
<1> HIDE DEF b
<1>4. Spares(s, b, None) /\ Plain(s)
  BY <1>3, PriosSpare, SparedPlain
<1> HIDE DEF s
<1>5. Spares(u, s, None)
  BY <1>4, PriosSpare, SameSpares
<1> HIDE DEF u
<1>6. Spares(u, k, None)
  BY <1>3, <1>4, <1>5, SparesTransitive
<1> QED BY <1>1, <1>2, <1>6, ServicePatient

(* The end of aaTaskCreate.                                                *)
LEMMA CreateEndPatient ==
  ASSUME IInv, Patient(k), NEW t \in Task, TaskCreateEnd(t)
  PROVE  NoneInVain /\ Patient(k')
<1> DEFINE v == arg[t]
<1>1. k.state[t] = "ready" /\ pc[t] = "create"
  BY ResumesFacts DEF TaskCreateEnd
<1>2. v \in Task /\ k.state[v] = "none" /\ Plain(k)
  <2>1. Busy(k, pc, t)
    BY <1>1 DEF Busy, Making
  <2>2. v \in Task /\ k.state[v] = "none"
    BY <2>1 DEF IInv, Tcbs
  <2> QED BY <2>2, TablesTyped DEF Tables, Plain
<1> HIDE DEF v
<1>3. CASE k' = Schedule(AddReady(k, v))
  <2> DEFINE u == AddReady(k, v)
  <2>1. u.state = [k.state EXCEPT ![v] = "ready"]
    BY DEF AddReady
  <2>2. Spares(u, k, v)
    BY <1>2, OthersSpared
  <2>3. u.state[v] # "mutexWait"
    BY <1>2, <2>1 DEF Plain
  <2> HIDE DEF u
  <2> QED BY <1>2, <1>3, <2>2, <2>3, ServicePatient DEF u
<1>4. CASE k' = Suspend(k, v)
  <2> DEFINE u == Suspend(k, v)
  <2>1. u.state = [k.state EXCEPT ![v] = "suspended"]
    BY DEF Suspend
  <2>2. Spares(u, k, v)
    BY <1>2, OthersSpared
  <2>3. u.state[v] # "mutexWait"
    BY <1>2, <2>1 DEF Plain
  <2> HIDE DEF u
  <2> QED BY <1>2, <1>4, <2>2, <2>3, ServicePatient DEF u
<1>5. CASE k' = [k EXCEPT !.freeTcb = @ \cup {v}]
  <2>1. k'.state = k.state /\ k'.delay = k.delay
    BY <1>5
  <2> QED BY <2>1, NobodyWakes
<1> QED BY <1>3, <1>4, <1>5 DEF TaskCreateEnd, v

(* aaIoWait, aaTaskDelay and aaTaskYield: the running task stops.          *)
LEMMA StopsPatient ==
  ASSUME IInv, Patient(k), NEW t \in Task, Runs(t),
         \/ \E d : TaskDelay(t, d)
         \/ \E x, d, ordered : IoWait(t, x, ordered, d)
         \/ TaskYield(t)
  PROVE  NoneInVain /\ Patient(k')
<1> DEFINE r == RemoveReady(k, t)
<1>1. k.state[t] = "ready"
  BY RunsFacts
<1>2. r.state = k.state /\ r.delay = k.delay
  BY DEF RemoveReady
<1>3. Plain(k)
  BY TablesTyped DEF Tables, Plain
<1>4. ASSUME NEW d, TaskDelay(t, d)
      PROVE  NoneInVain /\ Patient(k')
  <2> DEFINE u == [r EXCEPT !.state[t] = "delayed"]
  <2>1. k' = Schedule(AddToDelayed(u, t, d))
    BY <1>4 DEF TaskDelay
  <2> HIDE DEF r
  <2>2. u.state = [k.state EXCEPT ![t] = "delayed"] /\ u.delay = k.delay
    BY <1>2
  <2> HIDE DEF u
  <2> QED BY <1>1, <2>1, <2>2, SleepPatient
<1>5. ASSUME NEW x, NEW d, NEW ordered, IoWait(t, x, ordered, d)
      PROVE  NoneInVain /\ Patient(k')
  <2> DEFINE clear == IF d = 0 THEN {} ELSE {"DELAYTMO"}
             c == k.flags[t] \ clear
             value == [k.waitValue EXCEPT ![t] = IF ordered THEN k.priority[t] ELSE @]
             l == IF ordered THEN AddOrdered(r.waitingList[x], value, t)
                             ELSE Append(r.waitingList[x], t)
             u == [r EXCEPT
                     !.state[t] = "ioWait", !.objPtr[t] = x, !.waitValue = value,
                     !.flags[t] = @ \ clear, !.waitingList[x] = l]
  <2>1. k' = Schedule(AddToDelayed(u, t, d))
    BY <1>5 DEF IoWait
  <2> HIDE DEF r, l, value, clear
  <2>2. u.state = [k.state EXCEPT ![t] = "ioWait"] /\ u.delay = k.delay
    BY <1>2
  <2> HIDE DEF u
  <2> QED BY <1>1, <2>1, <2>2, SleepPatient
<1>6. CASE TaskYield(t)
  <2> DEFINE u == AddReady(r, t)
  <2>1. k' = Schedule(u)
    BY <1>6 DEF TaskYield
  <2>2. Spares(r, k, t) /\ Plain(r)
    BY <1>3, AllSpared, SparedPlain
  <2> HIDE DEF r
  <2>3. u.state = [r.state EXCEPT ![t] = "ready"]
    BY DEF AddReady
  <2>4. Spares(u, r, t)
    BY <2>2, OthersSpared
  <2>5. Spares(u, k, t) /\ u.state[t] # "mutexWait"
    BY <2>2, <2>3, <2>4, SparesTransitive DEF Plain
  <2> HIDE DEF u
  <2> QED BY <1>1, <2>1, <2>5, ServicePatient
<1> QED BY <1>4, <1>5, <1>6

(* A TCB goes back to the free ones or to the zombies.                     *)
LEMMA GivenBackPatient ==
  ASSUME Patient(k), NEW v,
         \/ k' = [k EXCEPT !.freeTcb = @ \cup {v}]
         \/ k' = [k EXCEPT !.zombies = Append(@, v)]
  PROVE  NoneInVain /\ Patient(k')
<1>1. CASE k' = [k EXCEPT !.freeTcb = @ \cup {v}]
  <2>1. k'.state = k.state /\ k'.delay = k.delay
    BY <1>1
  <2> QED BY <2>1, NobodyWakes
<1>2. CASE k' = [k EXCEPT !.zombies = Append(@, v)]
  <2>1. k'.state = k.state /\ k'.delay = k.delay
    BY <1>2
  <2> QED BY <2>1, NobodyWakes
<1> QED BY <1>1, <1>2

(* All the actions of aatask.c.                                            *)
LEMMA TaskPatient ==
  ASSUME IInv, Patient(k), WaitsForEver, TaskNext
  PROVE  NoneInVain /\ Patient(k')
<1>1. ASSUME NEW t \in Task,
             \/ TaskDelayEnd(t) \/ TaskDeleteEnd(t)
             \/ ReapBegin(t) \/ ReapEnd(t) \/ IoWaitEnd(t)
      PROVE  NoneInVain /\ Patient(k')
  <2>1. CASE TaskDelayEnd(t)
    <3>1. k'.state = k.state /\ k'.delay = k.delay
      BY <2>1 DEF TaskDelayEnd
    <3> QED BY <3>1, NobodyWakes
  <2>2. CASE TaskDeleteEnd(t) \/ ReapEnd(t)
    <3> DEFINE v == arg[t]
    <3>1. \/ k' = [k EXCEPT !.freeTcb = @ \cup {v}]
          \/ k' = [k EXCEPT !.zombies = Append(@, v)]
      BY <2>2 DEF TaskDeleteEnd, ReapEnd
    <3> HIDE DEF v
    <3> QED BY <3>1, GivenBackPatient
  <2>3. CASE ReapBegin(t)
    <3>1. k'.state = k.state /\ k'.delay = k.delay
      BY <2>3 DEF ReapBegin
    <3> QED BY <3>1, NobodyWakes
  <2>4. CASE IoWaitEnd(t)
    <3>1. k' = k \/ k' = [k EXCEPT !.flags[t] = @ \ {"DELAYTMO"}]
      BY <2>4 DEF IoWaitEnd
    <3>2. CASE k' = k
      BY <3>2, NobodyWakes
    <3>3. CASE k' = [k EXCEPT !.flags[t] = @ \ {"DELAYTMO"}]
      <4>1. k'.state = k.state /\ k'.delay = k.delay
        BY <3>3
      <4> QED BY <4>1, NobodyWakes
    <3> QED BY <3>1, <3>2, <3>3
  <2> QED BY <1>1, <2>1, <2>2, <2>3, <2>4
<1>2. ASSUME NEW t \in Task, NEW v \in Task, NEW p, TaskCreate(t, v, p)
      PROVE  NoneInVain /\ Patient(k')
  <2>1. k'.state = k.state /\ k'.delay = k.delay
    BY <1>2 DEF TaskCreate
  <2> QED BY <2>1, NobodyWakes
<1>3. ASSUME NEW x \in Driver,
             IoResumeFromIsr(x) \/ \E t \in Task : IoResume(t, x)
      PROVE  NoneInVain /\ Patient(k')
  <2> DEFINE u == Resumed(k, x)
  <2>1. k.waitingList[x] # << >> /\ (CalledFromTask(u) \/ CalledFromIsr(u))
    BY <1>3 DEF IoResume, IoResumeFromIsr
  <2> HIDE DEF u
  <2> QED BY <2>1, HeadPatient DEF u
<1>4. ~ \E t, v \in Task : TaskWakeUp(t, v) \/ TaskDelete(t, v) \/ TaskDeleteSelf(t)
  BY DEF WaitsForEver, TaskWakeUp, TaskDelete, TaskDeleteSelf
<1>5. ASSUME NEW t \in Task,
             \/ \E d : TaskDelay(t, d)
             \/ \E x, d, ordered : IoWait(t, x, ordered, d)
             \/ TaskYield(t)
      PROVE  NoneInVain /\ Patient(k')
  <2>1. Runs(t)
    BY <1>5 DEF TaskDelay, IoWait, TaskYield
  <2> QED BY <1>5, <2>1, StopsPatient
<1>6. CASE \E t, v \in Task : \/ TaskSuspend(t, v) \/ TaskResume(t, v)
                              \/ \E p \in NewPrios : TaskSetPriority(t, v, p) \/ TaskCreate(t, v, p)
  BY <1>2, <1>6, SuspendPatient, SetPriorityPatient
<1>7. CASE \E t \in Task :
             \/ TaskYield(t) \/ \E d \in TaskDelays : TaskDelay(t, d)
             \/ TaskDelayEnd(t) \/ TaskDeleteEnd(t)
             \/ ReapBegin(t) \/ ReapEnd(t) \/ TaskCreateEnd(t) \/ IoWaitEnd(t)
             \/ \E x \in Driver : \E d \in IoDelays, ordered \in BOOLEAN :
                  IoWait(t, x, ordered, d)
  <2> PICK t \in Task :
             \/ TaskYield(t) \/ \E d \in TaskDelays : TaskDelay(t, d)
             \/ TaskDelayEnd(t) \/ TaskDeleteEnd(t)
             \/ ReapBegin(t) \/ ReapEnd(t) \/ TaskCreateEnd(t) \/ IoWaitEnd(t)
             \/ \E x \in Driver : \E d \in IoDelays, ordered \in BOOLEAN :
                  IoWait(t, x, ordered, d)
    BY <1>7
  <2>1. CASE TaskCreateEnd(t)
    BY <2>1, CreateEndPatient
  <2>2. CASE ~ TaskCreateEnd(t)
    BY <1>1, <1>5, <2>2
  <2> QED BY <2>1, <2>2
<1>8. CASE \E x \in Driver : IoResumeFromIsr(x) \/ \E t \in Task : IoResume(t, x)
  BY <1>3, <1>8
<1> QED BY <1>4, <1>6, <1>7, <1>8 DEF TaskNext

(* The delay of a task that waits for a mutex is never over.               *)
LEMMA ExpirePatient ==
  ASSUME Patient(k), NEW c, NEW T, Running(c, T), Patient(c), c.state = k.state,
         k' = Expire(c)
  PROVE  NoneInVain /\ Patient(k')
<1>1. Plain(c) /\ c.delayed \in Seq(Task) /\ NoRepeat(c.delayed)
  BY DEF Running, Whole, Lists, Tables, DelayedAgree, Plain
<1>2. CASE Expired(c)
  <2> DEFINE h == Head(c.delayed)
             r == RemoveFromLists(c, h)
             w == [r EXCEPT !.flags[h] = @ \cup {"DELAYTMO"}]
             u == PutInList(w, h)
  <2>1. h \in Task /\ c.delay[h] = 0 /\ k' = u
    BY <1>1, <1>2, TailFacts DEF Expired, Expire, WakeByTimeout
  <2> HIDE DEF h
  <2>2. c.state[h] # "mutexWait"
    BY <2>1, DelayAssumption DEF Patient
  <2>3. Spares(r, c, h)
    <3> DEFINE d == IF h \in Range(c.delayed) THEN RemoveFromDelayed(c, h) ELSE c
               l == Unlist(d, h)
    <3>1. Spares(d, c, h) /\ Plain(d)
      BY <1>1, OthersSpared, SameSpares, SparedPlain
    <3>2. r \in {d, l, [l EXCEPT !.objPtr[h] = None]}
      BY <2>2 DEF RemoveFromLists
    <3> HIDE DEF r, d
    <3>3. l.state = d.state /\ l.delay = d.delay
      BY DEF Unlist
    <3> HIDE DEF l
    <3>4. r.state = d.state /\ r.delay = d.delay
      <4>1. CASE r = [l EXCEPT !.objPtr[h] = None]
        BY <3>3, <4>1
      <4>2. CASE r \in {d, l}
        BY <3>3, <4>2
      <4> QED BY <3>2, <4>1, <4>2
    <3>5. Spares(r, d, h)
      BY <3>1, <3>4, SameSpares
    <3> QED BY <3>1, <3>5, SparesTransitive
  <2> HIDE DEF r
  <2>4. Spares(w, r, h) /\ Plain(w)
    <3>1. Plain(r) /\ w.state = r.state /\ w.delay = r.delay
      BY <2>3, SparedPlain
    <3> HIDE DEF w
    <3> QED BY <3>1, SameSpares, SparedPlain
  <2> HIDE DEF w
  <2>5. Spares(u, w, h) /\ u.state[h] \in Settled
    BY <2>1, <2>4, OthersSpared, ListedSettled
  <2> HIDE DEF u
  <2>6. Spares(u, c, h) /\ u.state[h] # "mutexWait"
    BY <2>3, <2>4, <2>5, SparesTransitive DEF Settled
  <2> QED BY <2>1, <2>2, <2>6 DEF NoneInVain, Patient, Spares
<1>3. CASE ~ Expired(c)
  BY <1>3 DEF Expire, NoneInVain, Patient
<1> QED BY <1>2, <1>3

(* The actions of the tick handler.                                        *)
LEMMA TickPatient ==
  ASSUME IInv, Patient(k), TickNext
  PROVE  NoneInVain /\ Patient(k')
<1> DEFINE T == TimedCalls(pc)
<1>1. Running(k, T) /\ k.delay \in [Task -> 0 .. Infinite]
  BY TablesTyped DEF Tables
<1> HIDE DEF T
<1>2. CASE Tick
  <2> DEFINE c == CountDown(k)
  <2>1. k' = Expire(c) /\ Pending(k)
    BY <1>2 DEF Tick, IInv
  <2>2. Running(c, T) /\ c.state = k.state
    BY <1>1, <2>1, CountDownRuns
  <2>3. \A a \in Task : k.delay[a] = Infinite => c.delay[a] = Infinite
    BY DEF CountDown
  <2> HIDE DEF c
  <2>4. Patient(c)
    BY <2>2, <2>3 DEF Patient
  <2> QED BY <2>1, <2>2, <2>4, ExpirePatient
<1>3. CASE TickExpire
  BY <1>1, <1>3, ExpirePatient DEF TickExpire
<1>4. CASE TickEnd
  <2>1. k'.state = k.state /\ k'.delay = k.delay
    BY <1>4 DEF TickEnd, Schedule
  <2> QED BY <2>1, NobodyWakes
<1> QED BY <1>2, <1>3, <1>4 DEF TickNext

-----------------------------------------------------------------------------
(* What the conditions on the constants are enough for.                    *)

(* No wait for a mutex ends in vain if all wait for ever.                  *)
LEMMA NextPatient ==
  ASSUME IInv, Patient(k), WaitsForEver, [Next]_vars
  PROVE  Patient(k') /\ [NoneInVain]_vars
<1>1. CASE UNCHANGED vars
  BY <1>1 DEF vars
<1>2. CASE Next
  BY <1>2, MutexPatient, SemPatient, SignalPatient, TaskPatient, TickPatient DEF Next
<1> QED BY <1>1, <1>2

(* At the start nobody waits.                                              *)
LEMMA StartPatient ==
  ASSUME Init
  PROVE  Patient(k)
<1> DEFINE s == StartTables
<1>1. k.state = s.state
  BY DEF Init, Schedule
<1>2. s.state = [t \in Task |-> IF t \in StartTasks THEN "ready" ELSE "none"]
  BY DEF StartTables
<1> HIDE DEF s
<1> QED BY <1>1, <1>2 DEF Patient

(* With one mutex nobody gives it back while inheriting through another.   *)
LEMMA OneGivenAlone ==
  ASSUME OneMutex
  PROVE  GivenAlone
BY DEF OneMutex, GivenAlone

(* The highest priority is no waiter's and no task's loss.                 *)
LEMMA HighestSet ==
  ASSUME SetsHighest, IInv
  PROVE  SetAbove /\ WaitersNotLowered
<1> DEFINE T == TimedCalls(pc)
<1>1. /\ Whole(k, T) /\ k.priority \in [Task -> Prio] /\ k.basePriority \in [Task -> Prio]
      /\ Mutex \subseteq Counted
  BY TablesTyped DEF Running, Tables, Counted
<1> HIDE DEF T
<1>2. ASSUME NEW p \in {MaxPrio}, NEW q \in Prio
      PROVE  p >= q
  BY KernelAssumption DEF Prio
<1>3. SetAbove
  <2> SUFFICES ASSUME NEW t \in Task, NEW v \in Task, NEW p \in NewPrios,
                      TaskSetPriority(t, v, p) \/ TaskCreate(t, v, p),
                      NEW m \in Mutex, NEW a \in Range(k.waitingList[m])
               PROVE  p >= k.priority[a]
    BY DEF SetAbove
  <2>1. p \in {MaxPrio}
    BY DEF SetsHighest, TaskSetPriority, TaskCreate
  <2>2. k.priority[a] \in Prio
    BY <1>1, ListedWaits
  <2> QED BY <1>2, <2>1, <2>2
<1>4. WaitersNotLowered
  <2> SUFFICES ASSUME NEW t \in Task, NEW v \in Task, NEW p \in NewPrios,
                      TaskSetPriority(t, v, p)
               PROVE  p >= k.basePriority[v]
    BY DEF WaitersNotLowered
  <2>1. p \in {MaxPrio}
    BY DEF SetsHighest, TaskSetPriority
  <2> QED BY <1>1, <1>2, <2>1
<1> QED BY <1>3, <1>4

(* WaitersSorted, with no other condition than that there is one mutex and *)
(* no semaphore: its owner has nothing to wait for.                        *)
THEOREM OneMutexStaysSorted ==
  ASSUME OneMutex
  PROVE  Spec => []WaitersSorted
<1>1. IInv => OwnersNeverWait
  BY OneOwnerRuns
<1> QED BY <1>1, Invariant, WaitersStaySorted, PTL

(* NotAboveNeed, for any number of tasks that share one mutex and set no   *)
(* priority but the highest: a task runs above its own priority only while *)
(* a waiter of its mutex has that priority.                                *)
THEOREM OneMutexLoansAreNeeded ==
  ASSUME OneMutex, SetsHighest
  PROVE  Spec => []NotAboveNeed
<1>1. IInv => OwnersNeverWait /\ [WaitersNotLowered]_vars
  BY OneOwnerRuns, HighestSet
<1> QED BY <1>1, Invariant, LoansAreNeeded, PTL

(* Inherited, for any number of tasks that share one mutex, wait for it    *)
(* for ever and set no priority but the highest: no task ever waits for    *)
(* the mutex while a less urgent one has it, at that one's own priority.   *)
THEOREM OneMutexIsInherited ==
  ASSUME OneMutex, WaitsForEver, SetsHighest
  PROVE  Spec => []Inherited
<1> DEFINE P == Patient(k)
<1>1. Init => P
  BY StartPatient
<1>2. IInv /\ P /\ [Next]_vars => P' /\ [NoneInVain]_vars
  BY NextPatient
<1>3. IInv => OwnersNeverWait /\ GivenAlone /\ SetAbove
  BY OneOwnerRuns, OneGivenAlone, HighestSet
<1> HIDE DEF P
<1>4. IInv /\ [NoneInVain]_vars => [GivenAlone /\ NoneInVain /\ SetAbove]_vars
  BY <1>3
<1> QED BY <1>1, <1>2, <1>3, <1>4, Invariant, PrioritiesAreInherited, PTL DEF Spec
=============================================================================
