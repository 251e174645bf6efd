--------------------------- MODULE AAKernelProofs ---------------------------
(***************************************************************************)
(* What each operation of AAKernel does to the lists: an operation that    *)
(* takes a task out of its list leaves the lists in agreement but for that *)
(* task, one that puts it back restores the agreement.  The lemmas named   *)
(* ...Lists and ...Facts are about the steps of a critical section, those  *)
(* named ...Runs about whole pieces of it, which find and leave the tables *)
(* as Running says.                                                        *)
(***************************************************************************)
EXTENDS AAKernelInv, AAListProofs

(* aaRemoveReady_ takes a ready task out of the lists.                     *)
LEMMA RemoveReadyLists ==
  ASSUME NEW s, NEW F, NEW T, Lists(s, F, T), NEW t \in Task \ F, s.state[t] = "ready"
  PROVE  LET u == RemoveReady(s, t) IN
         /\ Lists(u, F \cup {t}, T)
         /\ SameRest(u, s)
         /\ u.state = s.state /\ u.flags = s.flags /\ u.objPtr = s.objPtr
         /\ u.priority = s.priority /\ u.waitValue = s.waitValue
         /\ u.waitingList = s.waitingList /\ u.suspended = s.suspended
         /\ u.delayed = s.delayed /\ u.delay = s.delay
<1> DEFINE u == RemoveReady(s, t)
           p == s.priority[t]
<1>1. s \in Tables /\ p \in Prio /\ s.ready[p] \in Seq(Task) /\ s.ready \in [Prio -> Seq(Task)]
  BY DEF Lists, Tables
<1>2. /\ SameRest(u, s)
      /\ u.state = s.state /\ u.flags = s.flags /\ u.objPtr = s.objPtr
      /\ u.priority = s.priority /\ u.waitValue = s.waitValue
      /\ u.waitingList = s.waitingList /\ u.suspended = s.suspended
      /\ u.delayed = s.delayed /\ u.delay = s.delay
  BY DEF RemoveReady, SameRest, SameObjects
<1>3. /\ u.ready = [s.ready EXCEPT ![p] = ListRemove(@, t)]
      /\ u.prioGroup = IF Len(s.ready[p]) = 1 THEN s.prioGroup \ {p} ELSE s.prioGroup
  BY DEF RemoveReady
<1>4. NoRepeat(s.ready[p]) /\ t \in Range(s.ready[p])
  BY <1>1 DEF Lists, ReadyAgree
<1>5. /\ ListRemove(s.ready[p], t) \in Seq(Task)
      /\ Range(ListRemove(s.ready[p], t)) = Range(s.ready[p]) \ {t}
      /\ NoRepeat(ListRemove(s.ready[p], t))
      /\ ListRemove(s.ready[p], t) = << >> <=> Len(s.ready[p]) = 1
  BY <1>1, <1>4, ListRemoveFacts
<1>6. u \in Tables
  BY <1>1, <1>5 DEF RemoveReady, Tables
<1>7. ReadyAgree(u, F \cup {t})
  <2> SUFFICES ASSUME NEW q \in Prio
               PROVE  /\ NoRepeat(u.ready[q])
                      /\ q \in u.prioGroup <=> u.ready[q] # << >>
                      /\ \A v \in Task : v \in Range(u.ready[q])
                           <=> v \notin F \cup {t} /\ u.state[v] = "ready"
                                 /\ u.priority[v] = q
    BY DEF ReadyAgree
  <2>1. /\ NoRepeat(s.ready[q])
        /\ q \in s.prioGroup <=> s.ready[q] # << >>
        /\ \A v \in Task : v \in Range(s.ready[q])
             <=> v \notin F /\ s.state[v] = "ready" /\ s.priority[v] = q
    BY DEF Lists, ReadyAgree
  <2>2. CASE q = p
    <3>1. u.ready[q] = ListRemove(s.ready[p], t)
      BY <2>2, <1>1, <1>3
    <3>2. q \in u.prioGroup <=> Len(s.ready[p]) # 1
      <4>1. s.ready[p] # << >>
        BY <1>1, <1>4, EmptyFacts
      <4> QED BY <4>1, <2>1, <2>2, <1>3
    <3> QED BY <3>1, <3>2, <2>1, <2>2, <1>2, <1>5
  <2>3. CASE q # p
    <3>1. u.ready[q] = s.ready[q] /\ (q \in u.prioGroup <=> q \in s.prioGroup)
      BY <2>3, <1>1, <1>3
    <3> QED BY <3>1, <2>1, <2>3, <1>2
  <2> QED BY <2>2, <2>3
<1>8. WaitersAgree(u, F \cup {t})
  BY <1>2 DEF Lists, WaitersAgree, ListWait
<1>9. DelayedAgree(u, F \cup {t}, T)
  BY <1>2 DEF Lists, DelayedAgree, Timed
<1>10. SuspendedAgree(u, F \cup {t})
  BY <1>2 DEF Lists, SuspendedAgree
<1> QED BY <1>2, <1>6, <1>7, <1>8, <1>9, <1>10 DEF Lists

(* aaAddReady_ makes a task that is between two lists ready.               *)
LEMMA AddReadyLists ==
  ASSUME NEW s, NEW F, NEW T, Lists(s, F, T), NEW t \in Task \cap F
  PROVE  LET u == AddReady(s, t) IN
         /\ Lists(u, F \ {t}, T)
         /\ SameRest(u, s)
         /\ u.state = [s.state EXCEPT ![t] = "ready"]
         /\ u.flags = s.flags /\ u.objPtr = s.objPtr /\ u.sched = s.sched
         /\ u.priority = s.priority /\ u.waitValue = s.waitValue
         /\ u.waitingList = s.waitingList /\ u.suspended = s.suspended
         /\ u.delayed = s.delayed /\ u.delay = s.delay
<1> DEFINE u == AddReady(s, t)
           p == s.priority[t]
<1>1. /\ s \in Tables /\ p \in Prio /\ s.ready[p] \in Seq(Task)
      /\ s.ready \in [Prio -> Seq(Task)] /\ s.state \in [Task -> State]
  BY DEF Lists, Tables
<1>2. /\ SameRest(u, s)
      /\ u.flags = s.flags /\ u.objPtr = s.objPtr /\ u.sched = s.sched
      /\ u.priority = s.priority /\ u.waitValue = s.waitValue
      /\ u.waitingList = s.waitingList /\ u.suspended = s.suspended
      /\ u.delayed = s.delayed /\ u.delay = s.delay
  BY DEF AddReady, SameRest, SameObjects
<1>3. /\ u.state = [s.state EXCEPT ![t] = "ready"]
      /\ u.ready = [s.ready EXCEPT ![p] = Append(@, t)]
      /\ u.prioGroup = s.prioGroup \cup {p}
  BY DEF AddReady
<1>4. NoRepeat(s.ready[p]) /\ t \notin Range(s.ready[p])
  BY <1>1 DEF Lists, ReadyAgree
<1>5. /\ Append(s.ready[p], t) \in Seq(Task)
      /\ Append(s.ready[p], t) # << >>
      /\ Range(Append(s.ready[p], t)) = Range(s.ready[p]) \cup {t}
      /\ NoRepeat(Append(s.ready[p], t))
  <2> HIDE DEF p
  <2> QED BY <1>1, <1>4, AppendFacts
<1>6. u \in Tables
  BY <1>1, <1>5 DEF AddReady, Tables, State
<1>7. ReadyAgree(u, F \ {t})
  <2> SUFFICES ASSUME NEW q \in Prio
               PROVE  /\ NoRepeat(u.ready[q])
                      /\ q \in u.prioGroup <=> u.ready[q] # << >>
                      /\ \A v \in Task : v \in Range(u.ready[q])
                           <=> v \notin F \ {t} /\ u.state[v] = "ready"
                                 /\ u.priority[v] = q
    BY DEF ReadyAgree
  <2>1. /\ NoRepeat(s.ready[q])
        /\ q \in s.prioGroup <=> s.ready[q] # << >>
        /\ \A v \in Task : v \in Range(s.ready[q])
             <=> v \notin F /\ s.state[v] = "ready" /\ s.priority[v] = q
    BY DEF Lists, ReadyAgree
  <2>2. CASE q = p
    <3>1. u.ready[q] = Append(s.ready[p], t) /\ q \in u.prioGroup
      BY <2>2, <1>1, <1>3
    <3>2. \A v \in Task : v \in Range(s.ready[p])
            <=> v \notin F /\ s.state[v] = "ready" /\ s.priority[v] = q
      BY <2>1, <2>2
    <3>3. \A v \in Task : v \in Range(u.ready[q]) <=> v \in Range(s.ready[p]) \/ v = t
      BY <3>1, <1>5
    <3>4. \A v \in Task : u.state[v] = IF v = t THEN "ready" ELSE s.state[v]
      BY <1>1, <1>3
    <3>5. u.priority[t] = q
      BY <2>2, <1>2
    <3> QED BY <3>1, <3>2, <3>3, <3>4, <3>5, <1>2, <1>5
  <2>3. CASE q # p
    BY <2>1, <2>3, <1>1, <1>2, <1>3
  <2> QED BY <2>2, <2>3
<1>8. WaitersAgree(u, F \ {t})
  BY <1>1, <1>2, <1>3 DEF Lists, WaitersAgree, ListWait
<1>9. DelayedAgree(u, F \ {t}, T)
  BY <1>1, <1>2, <1>3 DEF Lists, DelayedAgree, Timed
<1>10. SuspendedAgree(u, F \ {t})
  BY <1>1, <1>2, <1>3 DEF Lists, SuspendedAgree
<1> QED BY <1>2, <1>3, <1>6, <1>7, <1>8, <1>9, <1>10 DEF Lists

(* A task that is between two lists is suspended.                          *)
LEMMA SuspendLists ==
  ASSUME NEW s, NEW F, NEW T, Lists(s, F, T), NEW t \in Task \cap F
  PROVE  LET u == Suspend(s, t) IN
         /\ Lists(u, F \ {t}, T)
         /\ SameRest(u, s)
         /\ u.state = [s.state EXCEPT ![t] = "suspended"]
         /\ u.flags = s.flags /\ u.objPtr = s.objPtr /\ u.sched = s.sched
         /\ u.priority = s.priority /\ u.waitValue = s.waitValue
         /\ u.waitingList = s.waitingList /\ u.ready = s.ready
         /\ u.delayed = s.delayed /\ u.delay = s.delay
<1> DEFINE u == Suspend(s, t)
<1>1. /\ s \in Tables /\ s.suspended \subseteq Task /\ s.state \in [Task -> State]
  BY DEF Lists, Tables
<1>2. /\ SameRest(u, s)
      /\ u.flags = s.flags /\ u.objPtr = s.objPtr /\ u.sched = s.sched
      /\ u.priority = s.priority /\ u.waitValue = s.waitValue
      /\ u.waitingList = s.waitingList
      /\ u.delayed = s.delayed /\ u.delay = s.delay
      /\ u.ready = s.ready /\ u.prioGroup = s.prioGroup
  BY DEF Suspend, SameRest, SameObjects
<1>3. /\ u.state = [s.state EXCEPT ![t] = "suspended"]
      /\ u.suspended = s.suspended \cup {t}
  BY DEF Suspend
<1>6. u \in Tables
  BY <1>1 DEF Suspend, Tables, State
<1>7. ReadyAgree(u, F \ {t})
  BY <1>1, <1>2, <1>3 DEF Lists, ReadyAgree
<1>8. WaitersAgree(u, F \ {t})
  BY <1>1, <1>2, <1>3 DEF Lists, WaitersAgree, ListWait
<1>9. DelayedAgree(u, F \ {t}, T)
  BY <1>1, <1>2, <1>3 DEF Lists, DelayedAgree, Timed
<1>10. SuspendedAgree(u, F \ {t})
  BY <1>1, <1>2, <1>3 DEF Lists, SuspendedAgree
<1> QED BY <1>2, <1>3, <1>6, <1>7, <1>8, <1>9, <1>10 DEF Lists

(* A step that leaves the lists, states and priorities alone.              *)
LEMMA ListsFrame ==
  ASSUME NEW s, NEW u, NEW F, NEW T, Lists(s, F, T), u \in Tables,
         u.ready = s.ready, u.prioGroup = s.prioGroup, u.priority = s.priority,
         u.state = s.state, u.waitingList = s.waitingList, u.objPtr = s.objPtr,
         u.delayed = s.delayed, u.delay = s.delay, u.suspended = s.suspended
  PROVE  Lists(u, F, T)
<1>1. ReadyAgree(u, F)
  BY DEF Lists, ReadyAgree
<1>2. WaitersAgree(u, F)
  BY DEF Lists, WaitersAgree
<1>3. DelayedAgree(u, F, T)
  BY DEF Lists, DelayedAgree, Timed
<1>4. SuspendedAgree(u, F)
  BY DEF Lists, SuspendedAgree
<1> QED BY <1>1, <1>2, <1>3, <1>4 DEF Lists

(* The flags of a task keep their type.                                    *)
LEMMA FlagsTyped ==
  ASSUME NEW s \in Tables, NEW t \in Task, NEW c \in SUBSET Flag
  PROVE  [s EXCEPT !.flags[t] = c] \in Tables
  BY DEF Tables

(* aaTcbPutInList_ puts a task that is between two lists back, in the list *)
(* its SUSPEND flag chooses.                                               *)
LEMMA PutInListLists ==
  ASSUME NEW s, NEW F, NEW T, Lists(s, F, T), NEW t \in Task \cap F
  PROVE  LET u == PutInList(s, t) IN
         /\ Lists(u, F \ {t}, T)
         /\ SameRest(u, s)
         /\ u.state = [s.state EXCEPT ![t] =
                         IF "SUSPEND" \in s.flags[t] THEN "suspended" ELSE "ready"]
         /\ u.flags = [s.flags EXCEPT ![t] = @ \ {"SUSPEND"}]
         /\ u.objPtr = s.objPtr
         /\ u.priority = s.priority /\ u.waitValue = s.waitValue
         /\ u.waitingList = s.waitingList
         /\ u.delayed = s.delayed /\ u.delay = s.delay
<1> DEFINE u == PutInList(s, t)
<1>1. /\ s \in Tables /\ s.flags \in [Task -> SUBSET Flag]
      /\ s.priority \in [Task -> Prio] /\ s.cur \in Task
  BY DEF Lists, Tables
<1>2. CASE "SUSPEND" \in s.flags[t]
  <2> DEFINE v == Suspend(s, t)
  <2>1. u = [v EXCEPT !.flags[t] = @ \ {"SUSPEND"}, !.sched = FALSE]
    BY <1>2 DEF PutInList
  <2>2. /\ Lists(v, F \ {t}, T)
        /\ SameRest(v, s)
        /\ v.state = [s.state EXCEPT ![t] = "suspended"]
        /\ v.flags = s.flags /\ v.objPtr = s.objPtr
        /\ v.priority = s.priority /\ v.waitValue = s.waitValue
        /\ v.waitingList = s.waitingList
        /\ v.delayed = s.delayed /\ v.delay = s.delay
    BY SuspendLists
  <2> HIDE DEF v
  <2>3. v \in Tables
    BY <2>2 DEF Lists
  <2>4. u \in Tables
    <3> DEFINE c == v.flags[t] \ {"SUSPEND"}
               w == [v EXCEPT !.flags[t] = c]
    <3>1. c \in SUBSET Flag
      BY <2>3 DEF Tables
    <3>2. w \in Tables
      BY <2>3, <3>1, FlagsTyped
    <3>3. u = [w EXCEPT !.sched = FALSE]
      BY <2>1, Zenon
    <3> HIDE DEF w, u
    <3> QED BY <3>2, <3>3 DEF Tables
  <2>5. /\ SameRest(u, v)
        /\ u.ready = v.ready /\ u.prioGroup = v.prioGroup
        /\ u.priority = v.priority /\ u.state = v.state
        /\ u.waitingList = v.waitingList /\ u.objPtr = v.objPtr
        /\ u.delayed = v.delayed /\ u.delay = v.delay
        /\ u.suspended = v.suspended /\ u.waitValue = v.waitValue
        /\ u.flags = [v.flags EXCEPT ![t] = @ \ {"SUSPEND"}]
    BY <2>1 DEF SameRest, SameObjects
  <2> HIDE DEF u
  <2>6. Lists(u, F \ {t}, T)
    BY <2>2, <2>4, <2>5, ListsFrame
  <2>7. SameRest(u, s)
    BY <2>2, <2>5 DEF SameRest, SameObjects
  <2> QED BY <1>2, <2>2, <2>5, <2>6, <2>7 DEF u
<1>3. CASE "SUSPEND" \notin s.flags[t]
  <2> DEFINE v == AddReady(s, t)
  <2>1. u = [v EXCEPT !.sched = s.priority[t] > s.priority[s.cur]]
    BY <1>3 DEF PutInList
  <2>2. /\ Lists(v, F \ {t}, T)
        /\ SameRest(v, s)
        /\ v.state = [s.state EXCEPT ![t] = "ready"]
        /\ v.flags = s.flags /\ v.objPtr = s.objPtr
        /\ v.priority = s.priority /\ v.waitValue = s.waitValue
        /\ v.waitingList = s.waitingList
        /\ v.delayed = s.delayed /\ v.delay = s.delay
    BY AddReadyLists
  <2> HIDE DEF v
  <2>3. v \in Tables
    BY <2>2 DEF Lists
  <2>4. u \in Tables
    <3>1. (s.priority[t] > s.priority[s.cur]) \in BOOLEAN
      OBVIOUS
    <3>2. \A b \in BOOLEAN : [v EXCEPT !.sched = b] \in Tables
      BY <2>3 DEF Tables
    <3> QED BY <2>1, <3>1, <3>2, Zenon
  <2>5. /\ SameRest(u, v)
        /\ u.ready = v.ready /\ u.prioGroup = v.prioGroup
        /\ u.priority = v.priority /\ u.state = v.state
        /\ u.waitingList = v.waitingList /\ u.objPtr = v.objPtr
        /\ u.delayed = v.delayed /\ u.delay = v.delay
        /\ u.suspended = v.suspended /\ u.waitValue = v.waitValue
        /\ u.flags = v.flags
    BY <2>1 DEF SameRest, SameObjects
  <2> HIDE DEF u
  <2>6. Lists(u, F \ {t}, T)
    BY <2>2, <2>4, <2>5, ListsFrame
  <2>7. SameRest(u, s)
    BY <2>2, <2>5 DEF SameRest, SameObjects
  <2>8. s.flags = [s.flags EXCEPT ![t] = @ \ {"SUSPEND"}]
    BY <1>1, <1>3
  <2> QED BY <1>3, <2>2, <2>5, <2>6, <2>7, <2>8 DEF u
<1> QED BY <1>2, <1>3

(* The reschedule request compares it with the task that runs.             *)
LEMMA PutInListAsks ==
  ASSUME NEW s, NEW F, NEW T, Lists(s, F, T), NEW t \in Task \cap F
  PROVE  Asked(PutInList(s, t), t)
<1> DEFINE u == PutInList(s, t)
           b == s.priority[t] > s.priority[s.cur]
<1>1. /\ Lists(u, F \ {t}, T)
      /\ SameRest(u, s)
      /\ u.state = [s.state EXCEPT ![t] =
                      IF "SUSPEND" \in s.flags[t] THEN "suspended" ELSE "ready"]
      /\ u.flags = [s.flags EXCEPT ![t] = @ \ {"SUSPEND"}]
      /\ u.objPtr = s.objPtr
      /\ u.priority = s.priority /\ u.waitValue = s.waitValue
      /\ u.waitingList = s.waitingList
      /\ u.delayed = s.delayed /\ u.delay = s.delay
  BY PutInListLists
<1>2. s \in Tables /\ s.state \in [Task -> State]
  BY DEF Lists, Tables
<1>3. CASE "SUSPEND" \in s.flags[t]
  <2>1. u.state[t] = "suspended"
    BY <1>1, <1>2, <1>3
  <2> HIDE DEF u
  <2>2. Asked(u, t)
    BY <2>1 DEF Asked
  <2> QED BY <2>2 DEF u
<1>4. CASE "SUSPEND" \notin s.flags[t]
  <2> DEFINE v == AddReady(s, t)
  <2>1. u = [v EXCEPT !.sched = b]
    BY <1>4 DEF PutInList
  <2>2. v \in Tables
    BY AddReadyLists DEF Lists
  <2> HIDE DEF u, v, b
  <2>3. u.sched = b
    BY <2>1, <2>2 DEF Tables
  <2>4. b <=> u.priority[t] > u.priority[u.cur]
    BY <1>1 DEF b, SameRest
  <2>5. Asked(u, t)
    BY <2>3, <2>4, Zenon DEF Asked
  <2> QED BY <2>5 DEF u
<1> QED BY <1>3, <1>4

(* Back in the lists of its priority: aaMutexNewPrio_ of the last mutex    *)
(* comes to the own priority of the task.                                  *)
LEMMA HighestWaitingIsBase ==
  ASSUME NEW s, NEW t, s.basePriority[t] \in Nat
  PROVE  HighestWaiting(s, t) = s.basePriority[t]
<1>1. ScannedMutexes(s, t) = {}
  BY DEF ScannedMutexes
<1> DEFINE heads == {s.waitValue[Head(s.waitingList[m])] :
                       m \in {n \in ScannedMutexes(s, t) : s.waitingList[n] # << >>}}
<1>2. heads = {}
  BY <1>1
<1>3. HighestWaiting(s, t) = CHOOSE p \in heads \cup {s.basePriority[t]} :
                               \A q \in heads \cup {s.basePriority[t]} : q <= p
  BY DEF HighestWaiting
<1> HIDE DEF heads
<1> QED BY <1>2, <1>3

(* aaAddToDelayedList_ keeps the order of the delayed tasks.               *)
LEMMA AddToDelayedFacts ==
  ASSUME NEW s \in Tables, NEW F, NEW T, DelayedAgree(s, F, T),
         NEW t \in Task \cap F, NEW d \in 0 .. Infinite, Timed(s, T, t) <=> d # 0
  PROVE  LET u == AddToDelayed(s, t, d) IN
         /\ u \in Tables
         /\ DelayedAgree(u, F \ {t}, T)
         /\ Pending(s) => Pending(u)
         /\ SameRest(u, s)
         /\ u.state = s.state /\ u.flags = s.flags /\ u.objPtr = s.objPtr
         /\ u.priority = s.priority /\ u.waitValue = s.waitValue
         /\ u.waitingList = s.waitingList /\ u.suspended = s.suspended
         /\ u.ready = s.ready /\ u.prioGroup = s.prioGroup
<1> DEFINE u == AddToDelayed(s, t, d)
           notBefore == {i \in DOMAIN s.delayed : d <= s.delay[s.delayed[i]]}
           delay == [s.delay EXCEPT ![t] = d]
           list == IF d = Infinite \/ notBefore = {} THEN Append(s.delayed, t)
                   ELSE InsertAt(s.delayed, Least(notBefore), t)
<1>1. /\ s.delayed \in Seq(Task) /\ s.delay \in [Task -> 0 .. Infinite]
      /\ Infinite \in Nat
  BY DelayAssumption DEF Tables
<1>2. CASE d = 0
  <2>1. u = s
    BY <1>2 DEF AddToDelayed
  <2>2. DelayedAgree(s, F \ {t}, T)
    BY <1>2 DEF DelayedAgree
  <2> QED BY <2>1, <2>2, Zenon DEF SameRest, SameObjects
<1>3. CASE d # 0
  <2>1. u = [s EXCEPT !.delay[t] = d, !.delayed = list]
    BY <1>3 DEF AddToDelayed
  <2>2. /\ u.delayed = list /\ u.delay = delay
        /\ SameRest(u, s)
        /\ u.state = s.state /\ u.flags = s.flags /\ u.objPtr = s.objPtr
        /\ u.priority = s.priority /\ u.waitValue = s.waitValue
        /\ u.waitingList = s.waitingList /\ u.suspended = s.suspended
        /\ u.ready = s.ready /\ u.prioGroup = s.prioGroup
    BY <2>1 DEF SameRest, SameObjects
  <2>3. /\ NoRepeat(s.delayed) /\ t \notin Range(s.delayed)
        /\ Ascending(s.delayed, s.delay)
    BY DEF DelayedAgree
  <2>4. /\ Len(s.delayed) \in Nat /\ DOMAIN s.delayed = 1 .. Len(s.delayed)
        /\ \A i \in DOMAIN s.delayed : s.delayed[i] \in Task /\ s.delayed[i] # t
    BY <1>1, <2>3, LenProperties, ElementOfSeq DEF Range
  <2>5. \A i \in DOMAIN s.delayed : delay[s.delayed[i]] = s.delay[s.delayed[i]]
    BY <1>1, <2>4
  <2>6. delay \in [Task -> 0 .. Infinite] /\ delay \in [Task -> Int] /\ delay[t] = d
    BY <1>1
  <2> HIDE DEF delay
  <2>7. Ascending(s.delayed, delay)
    BY <2>3, <2>5 DEF Ascending
  <2>8. /\ list \in Seq(Task) /\ NoRepeat(list)
        /\ Range(list) = Range(s.delayed) \cup {t}
        /\ Ascending(list, delay)
    <3>1. CASE d = Infinite \/ notBefore = {}
      <4>1. \A i \in DOMAIN s.delayed : delay[s.delayed[i]] <= delay[t]
        BY <3>1, <1>1, <2>4, <2>5, <2>6
      <4>2. \A v \in Range(s.delayed) : delay[v] <= delay[t]
        BY <4>1 DEF Range
      <4>3. list = Append(s.delayed, t)
        BY <3>1
      <4> HIDE DEF list, notBefore
      <4> QED BY <1>1, <2>3, <2>6, <2>7, <4>2, <4>3, AppendFacts
    <3>2. CASE ~ (d = Infinite \/ notBefore = {})
      <4> DEFINE i == Least(notBefore)
      <4>1. notBefore \in SUBSET (1 .. Len(s.delayed)) /\ notBefore # {}
        BY <3>2, <2>4
      <4>2. i \in notBefore /\ \A j \in notBefore : i <= j
        BY <4>1, <2>4, LeastFacts
      <4> HIDE DEF i
      <4>3. i \in 1 .. Len(s.delayed)
        BY <4>1, <4>2
      <4>4. delay[t] <= delay[s.delayed[i]]
        BY <4>2, <2>4, <2>5, <2>6
      <4>5. \A j \in 1 .. i - 1 : delay[s.delayed[j]] <= delay[t]
        <5> TAKE j \in 1 .. i - 1
        <5>1. j \in DOMAIN s.delayed /\ ~ i <= j
          BY <4>3, <2>4
        <5>2. j \notin notBefore
          BY <4>2, <5>1
        <5>3. ~ d <= s.delay[s.delayed[j]]
          BY <5>1, <5>2
        <5>4. s.delay[s.delayed[j]] \in Nat /\ d \in Nat
          BY <5>1, <2>4, <1>1
        <5> QED BY <5>1, <5>3, <5>4, <2>5, <2>6
      <4>6. list = InsertAt(s.delayed, i, t)
        BY <3>2 DEF i
      <4> HIDE DEF list, notBefore
      <4> DEFINE r == InsertAt(s.delayed, i, t)
      <4>7. r \in Seq(Task) /\ Range(r) = Range(s.delayed) \cup {t} /\ NoRepeat(r)
        BY <1>1, <2>3, <4>3, InsertFacts
      <4>8. Ascending(r, delay)
        BY <1>1, <2>3, <2>6, <2>7, <4>3, <4>4, <4>5, InsertFacts
      <4> QED BY <4>6, <4>7, <4>8
    <3> QED BY <3>1, <3>2
  <2> HIDE DEF list
  <2>9. u \in Tables
    <3> DEFINE w == [s EXCEPT !.delay = delay]
    <3>1. w \in Tables
      BY <2>6 DEF Tables
    <3>2. u = [w EXCEPT !.delayed = list]
      BY <2>1, Zenon DEF delay
    <3> HIDE DEF u, w
    <3> QED BY <3>1, <3>2, <2>8 DEF Tables
  <2>10. DelayedAgree(u, F \ {t}, T)
    BY <1>3, <2>2, <2>8 DEF DelayedAgree, Timed
  <2>11. Pending(s) => Pending(u)
    <3> SUFFICES ASSUME Pending(s), NEW v \in Range(list)
                 PROVE  delay[v] > 0
      BY <2>2 DEF Pending
    <3>1. CASE v = t
      BY <3>1, <1>1, <1>3, <2>6
    <3>2. CASE v \in Range(s.delayed)
      BY <3>2, <2>5 DEF Range, Pending
    <3> QED BY <3>1, <3>2, <2>8
  <2> HIDE DEF u
  <2> QED BY <2>2, <2>9, <2>10, <2>11 DEF u
<1> QED BY <1>2, <1>3

(* A task leaves the delayed list.                                         *)
LEMMA RemoveFromDelayedFacts ==
  ASSUME NEW s \in Tables, NEW F, NEW T, DelayedAgree(s, F, T), NEW t \in Task
  PROVE  LET u == RemoveFromDelayed(s, t) IN
         /\ u \in Tables
         /\ DelayedAgree(u, F \cup {t}, T)
         /\ Pending(s) => Pending(u)
         /\ SameRest(u, s)
         /\ u.state = s.state /\ u.flags = s.flags /\ u.objPtr = s.objPtr
         /\ u.priority = s.priority /\ u.waitValue = s.waitValue
         /\ u.waitingList = s.waitingList /\ u.suspended = s.suspended
         /\ u.ready = s.ready /\ u.prioGroup = s.prioGroup
<1> DEFINE u == RemoveFromDelayed(s, t)
           list == ListRemove(s.delayed, t)
           delay == [s.delay EXCEPT ![t] = 0]
<1>1. /\ s.delayed \in Seq(Task) /\ s.delay \in [Task -> 0 .. Infinite]
      /\ Infinite \in Nat /\ NoRepeat(s.delayed)
      /\ Ascending(s.delayed, s.delay)
  BY DelayAssumption DEF Tables, DelayedAgree
<1>2. u = [s EXCEPT !.delayed = list, !.delay[t] = 0]
  BY DEF RemoveFromDelayed
<1>3. /\ u.delayed = list /\ u.delay = delay
      /\ SameRest(u, s)
      /\ u.state = s.state /\ u.flags = s.flags /\ u.objPtr = s.objPtr
      /\ u.priority = s.priority /\ u.waitValue = s.waitValue
      /\ u.waitingList = s.waitingList /\ u.suspended = s.suspended
      /\ u.ready = s.ready /\ u.prioGroup = s.prioGroup
  BY <1>2 DEF SameRest, SameObjects
<1>4. s.delay \in [Task -> Int]
  BY <1>1
<1>5. /\ list \in Seq(Task) /\ NoRepeat(list)
      /\ Range(list) = Range(s.delayed) \ {t}
      /\ Ascending(list, s.delay)
  BY <1>1, <1>4, ListRemoveFacts
<1> HIDE DEF list
<1>6. \A v \in Range(list) : v \in Task /\ delay[v] = s.delay[v]
  BY <1>1, <1>5, EmptyFacts
<1>7. Ascending(list, delay)
  BY <1>5, <1>6 DEF Ascending, Range
<1>8. u \in Tables
  <2> DEFINE w == [s EXCEPT !.delayed = list]
  <2>1. w \in Tables
    BY <1>5 DEF Tables
  <2>2. u = [w EXCEPT !.delay[t] = 0]
    BY <1>2, Zenon
  <2> HIDE DEF u, w
  <2>3. 0 \in 0 .. Infinite
    BY <1>1
  <2>4. \A e \in 0 .. Infinite : [w EXCEPT !.delay[t] = e] \in Tables
    BY <2>1 DEF Tables
  <2> QED BY <2>2, <2>3, <2>4
<1>9. DelayedAgree(u, F \cup {t}, T)
  BY <1>3, <1>5, <1>7 DEF DelayedAgree, Timed
<1>10. Pending(s) => Pending(u)
  BY <1>3, <1>5, <1>6 DEF Pending
<1> HIDE DEF u
<1> QED BY <1>3, <1>8, <1>9, <1>10 DEF u

(* A node that is taken out and put back in order.                         *)
LEMMA ReinsertFacts ==
  ASSUME NEW list \in Seq(Task), NoRepeat(list), NEW value, NEW t \in Range(list)
  PROVE  /\ Reinsert(list, value, t) \in Seq(Task)
         /\ NoRepeat(Reinsert(list, value, t))
         /\ Range(Reinsert(list, value, t)) = Range(list)
<1> DEFINE r == ListRemove(list, t)
<1>1. r \in Seq(Task) /\ Range(r) = Range(list) \ {t} /\ NoRepeat(r)
  BY ListRemoveFacts
<1>2. t \in Task
  BY EmptyFacts
<1>3. Reinsert(list, value, t) = AddOrdered(r, value, t)
  BY DEF Reinsert
<1> HIDE DEF r
<1>4. /\ AddOrdered(r, value, t) \in Seq(Task)
      /\ Range(AddOrdered(r, value, t)) = Range(r) \cup {t}
      /\ NoRepeat(AddOrdered(r, value, t))
  BY <1>1, <1>2, AddOrderedFacts
<1> QED BY <1>1, <1>3, <1>4

(* aaMutexNewPrio_ moves a task to where its new priority belongs.         *)
LEMMA NewPrioLists ==
  ASSUME NEW s, NEW F, NEW T, Lists(s, F, T), NEW t \in Task \ F,
         s.state[t] \in ListWait => s.objPtr[t] \in SyncObj
  PROVE  LET u == NewPrio(s, t) IN
         /\ Lists(u, F, T)
         /\ SameRest(u, s) /\ SameTasks(u, s)
<1> DEFINE u == NewPrio(s, t)
           p == HighestWaiting(s, t)
           value == [s.waitValue EXCEPT ![t] = p]
           x == s.objPtr[t]
<1>1. /\ s \in Tables /\ s.basePriority[t] \in Prio /\ s.priority \in [Task -> Prio]
      /\ s.basePriority[t] \in Nat
      /\ s.waitValue \in [Task -> Prio] /\ s.state \in [Task -> State]
      /\ s.waitingList \in [SyncObj -> Seq(Task)]
  <2>1. /\ s \in Tables /\ s.basePriority \in [Task -> Prio]
        /\ s.priority \in [Task -> Prio]
        /\ s.waitValue \in [Task -> Prio] /\ s.state \in [Task -> State]
        /\ s.waitingList \in [SyncObj -> Seq(Task)]
    BY DEF Lists, Tables
  <2>2. Prio \subseteq Nat
    BY DEF Prio
  <2> QED BY <2>1, <2>2
<1>2. p \in Prio /\ p = s.basePriority[t]
  BY <1>1, HighestWaitingIsBase
<1> HIDE DEF p
<1>3. CASE p = s.priority[t]
  <2>1. u = [s EXCEPT !.sched = FALSE]
    BY <1>3 DEF NewPrio, p
  <2>2. /\ SameRest(u, s) /\ u.state = s.state /\ u.flags = s.flags
        /\ u.objPtr = s.objPtr /\ u.delayed = s.delayed /\ u.delay = s.delay
        /\ u.ready = s.ready /\ u.prioGroup = s.prioGroup
        /\ u.priority = s.priority /\ u.waitingList = s.waitingList
        /\ u.suspended = s.suspended
    BY <2>1 DEF SameRest, SameObjects
  <2>3. u \in Tables
    BY <2>1, <1>1 DEF Tables
  <2> HIDE DEF u
  <2>4. Lists(u, F, T)
    BY <2>2, <2>3, ListsFrame
  <2> QED BY <2>2, <2>4 DEF u, SameTasks
<1>4. CASE p # s.priority[t] /\ s.state[t] = "ready"
  <2> DEFINE v == RemoveReady(s, t)
             w == [v EXCEPT !.priority[t] = p]
             z == AddReady(w, t)
  <2>1. u = [z EXCEPT !.sched = TRUE]
    BY <1>4 DEF NewPrio, p
  <2>2. /\ Lists(v, F \cup {t}, T)
        /\ SameRest(v, s)
        /\ v.state = s.state /\ v.flags = s.flags /\ v.objPtr = s.objPtr
        /\ v.priority = s.priority /\ v.waitingList = s.waitingList
        /\ v.suspended = s.suspended
        /\ v.delayed = s.delayed /\ v.delay = s.delay
    BY <1>4, RemoveReadyLists
  <2> HIDE DEF v
  <2>3. /\ SameRest(w, v)
        /\ w.state = v.state /\ w.flags = v.flags /\ w.objPtr = v.objPtr
        /\ w.priority = [v.priority EXCEPT ![t] = p]
        /\ w.waitingList = v.waitingList /\ w.suspended = v.suspended
        /\ w.ready = v.ready /\ w.prioGroup = v.prioGroup
        /\ w.delayed = v.delayed /\ w.delay = v.delay
    BY DEF SameRest, SameObjects
  <2>4. w \in Tables
    BY <2>2, <1>2 DEF Lists, Tables
  <2> HIDE DEF w
  <2>5. Lists(w, F \cup {t}, T)
    <3>1. ReadyAgree(w, F \cup {t})
      <4>1. \A a \in Task : a # t => w.priority[a] = v.priority[a]
        BY <2>2, <2>3, <1>1
      <4> QED BY <4>1, <2>2, <2>3 DEF Lists, ReadyAgree
    <3>2. WaitersAgree(w, F \cup {t})
      BY <2>2, <2>3 DEF Lists, WaitersAgree
    <3>3. DelayedAgree(w, F \cup {t}, T)
      BY <2>2, <2>3 DEF Lists, DelayedAgree, Timed
    <3>4. SuspendedAgree(w, F \cup {t})
      BY <2>2, <2>3 DEF Lists, SuspendedAgree
    <3> QED BY <2>4, <3>1, <3>2, <3>3, <3>4 DEF Lists
  <2>6. /\ Lists(z, (F \cup {t}) \ {t}, T)
        /\ SameRest(z, w)
        /\ z.state = [w.state EXCEPT ![t] = "ready"]
        /\ z.flags = w.flags /\ z.objPtr = w.objPtr
        /\ z.priority = w.priority
        /\ z.waitingList = w.waitingList /\ z.suspended = w.suspended
        /\ z.delayed = w.delayed /\ z.delay = w.delay
    BY <2>5, AddReadyLists
  <2> HIDE DEF z
  <2>7. (F \cup {t}) \ {t} = F
    OBVIOUS
  <2>8. z.state = s.state
    BY <2>2, <2>3, <2>6, <1>1, <1>4
  <2>9. /\ SameRest(u, z) /\ u.state = z.state /\ u.flags = z.flags
        /\ u.objPtr = z.objPtr /\ u.delayed = z.delayed /\ u.delay = z.delay
        /\ u.ready = z.ready /\ u.prioGroup = z.prioGroup
        /\ u.priority = z.priority /\ u.waitingList = z.waitingList
        /\ u.suspended = z.suspended
    BY <2>1 DEF SameRest, SameObjects
  <2>10. u \in Tables
    BY <2>1, <2>6 DEF Lists, Tables
  <2> HIDE DEF u
  <2>11. Lists(z, F, T)
    BY <2>6, <2>7
  <2>12. Lists(u, F, T)
    BY <2>9, <2>10, <2>11, ListsFrame
  <2>13. SameRest(u, s)
    BY <2>2, <2>3, <2>6, <2>9 DEF SameRest, SameObjects
  <2> QED BY <2>2, <2>3, <2>6, <2>8, <2>9, <2>12, <2>13 DEF u, SameTasks
<1>5. CASE p # s.priority[t] /\ InOrderedList(s, t)
  <2> DEFINE list == Reinsert(s.waitingList[x], value, t)
  <2>1. u = [s EXCEPT !.priority[t] = p, !.waitValue = value, !.sched = FALSE,
                      !.waitingList[x] = list]
    <3>1. s.state[t] # "ready"
      BY <1>5 DEF InOrderedList
    <3> QED BY <1>5, <3>1, Zenon DEF NewPrio, p
  <2>2. x \in SyncObj /\ t \in Range(s.waitingList[x]) /\ NoRepeat(s.waitingList[x])
          /\ s.state[t] # "ready" /\ s.waitingList[x] \in Seq(Task)
    BY <1>1, <1>5 DEF InOrderedList, Lists, WaitersAgree, ListWait
  <2>3. /\ list \in Seq(Task) /\ NoRepeat(list)
        /\ Range(list) = Range(s.waitingList[x])
    BY <2>2, ReinsertFacts
  <2>4. value \in [Task -> Prio]
    BY <1>1, <1>2
  <2> HIDE DEF list, value, x
  <2>5. /\ SameRest(u, s) /\ u.state = s.state /\ u.flags = s.flags
        /\ u.objPtr = s.objPtr /\ u.delayed = s.delayed /\ u.delay = s.delay
        /\ u.ready = s.ready /\ u.prioGroup = s.prioGroup
        /\ u.priority = [s.priority EXCEPT ![t] = p]
        /\ u.waitingList = [s.waitingList EXCEPT ![x] = list]
        /\ u.suspended = s.suspended
    BY <2>1 DEF SameRest, SameObjects
  <2>6. u \in Tables
    <3> DEFINE u1 == [s  EXCEPT !.priority[t] = p]
               u2 == [u1 EXCEPT !.waitValue = value]
               u3 == [u2 EXCEPT !.sched = FALSE]
    <3>1. u = [u3 EXCEPT !.waitingList[x] = list]
      BY <2>1, Zenon
    <3>2. u1 \in Tables
      BY <1>1, <1>2 DEF Tables
    <3> HIDE DEF u1
    <3>3. u2 \in Tables
      BY <2>4, <3>2 DEF Tables
    <3> HIDE DEF u2
    <3>4. u3 \in Tables
      BY <3>3 DEF Tables
    <3> HIDE DEF u, u3
    <3> QED BY <3>1, <3>4, <2>2, <2>3 DEF Tables
  <2> HIDE DEF u
  <2>7. ReadyAgree(u, F)
    <3>1. \A a \in Task : s.state[a] = "ready" => u.priority[a] = s.priority[a]
      BY <2>2, <2>5, <1>1
    <3> QED BY <3>1, <2>5 DEF Lists, ReadyAgree
  <2>8. WaitersAgree(u, F)
    <3>1. \A y \in SyncObj : /\ Range(u.waitingList[y]) = Range(s.waitingList[y])
                             /\ NoRepeat(u.waitingList[y])
      BY <2>2, <2>3, <2>5, <1>1 DEF Lists, WaitersAgree
    <3> QED BY <3>1, <2>5 DEF Lists, WaitersAgree
  <2>9. DelayedAgree(u, F, T)
    BY <2>5 DEF Lists, DelayedAgree, Timed
  <2>10. SuspendedAgree(u, F)
    BY <2>5 DEF Lists, SuspendedAgree
  <2> QED BY <2>5, <2>6, <2>7, <2>8, <2>9, <2>10 DEF u, Lists, SameTasks
<1>6. CASE p # s.priority[t] /\ s.state[t] # "ready" /\ ~ InOrderedList(s, t)
  <2>1. u = [s EXCEPT !.priority[t] = p, !.sched = FALSE]
    BY <1>6 DEF NewPrio, p
  <2>2. /\ SameRest(u, s) /\ u.state = s.state /\ u.flags = s.flags
        /\ u.objPtr = s.objPtr /\ u.delayed = s.delayed /\ u.delay = s.delay
        /\ u.ready = s.ready /\ u.prioGroup = s.prioGroup
        /\ u.priority = [s.priority EXCEPT ![t] = p]
        /\ u.waitingList = s.waitingList /\ u.suspended = s.suspended
    BY <2>1 DEF SameRest, SameObjects
  <2>3. u \in Tables
    <3> DEFINE u1 == [s EXCEPT !.priority[t] = p]
    <3>1. u = [u1 EXCEPT !.sched = FALSE]
      BY <2>1, Zenon
    <3>2. u1 \in Tables
      BY <1>1, <1>2 DEF Tables
    <3> HIDE DEF u, u1
    <3> QED BY <3>1, <3>2 DEF Tables
  <2> HIDE DEF u
  <2>7. ReadyAgree(u, F)
    <3>1. \A a \in Task : s.state[a] = "ready" => u.priority[a] = s.priority[a]
      BY <2>2, <1>1, <1>6
    <3> QED BY <3>1, <2>2 DEF Lists, ReadyAgree
  <2>8. WaitersAgree(u, F)
    BY <2>2 DEF Lists, WaitersAgree
  <2>9. DelayedAgree(u, F, T)
    BY <2>2 DEF Lists, DelayedAgree, Timed
  <2>10. SuspendedAgree(u, F)
    BY <2>2 DEF Lists, SuspendedAgree
  <2> QED BY <2>2, <2>3, <2>7, <2>8, <2>9, <2>10 DEF u, Lists, SameTasks
<1> QED BY <1>3, <1>4, <1>5, <1>6

(* R is what a walk inside R reaches that starts at first and goes from u  *)
(* to next[u], for u in W.                                                 *)
Walked(R, W, next, first) ==
  \A U \in SUBSET R :
    (/\ first \in R => first \in U
     /\ \A u \in U \cap W : next[u] \in R => next[u] \in U)
    => U = R

(* Such a walk has one end: nothing branches.                              *)
LEMMA OneEnd ==
  ASSUME NEW R, NEW W \in SUBSET R, NEW next, NEW first,
         Walked(R, W, next, first),
         NEW a \in R \ W, NEW b \in R \ W
  PROVE  a = b
<1> DEFINE Back(Q) == \A y \in W : next[y] \in Q => y \in Q
           P(c) == {o \in R : \A Q \in SUBSET R : c \in Q /\ Back(Q) => o \in Q}
<1>1. ASSUME NEW c \in R
      PROVE  c \in P(c) /\ P(c) \in SUBSET R /\ Back(P(c))
  OBVIOUS
<1>2. ASSUME NEW c \in R, NEW Q \in SUBSET R, c \in Q, Back(Q)
      PROVE  P(c) \subseteq Q
  BY <1>2
<1>3. ASSUME NEW c \in R \ W
      PROVE  first \in P(c)
  <2> SUFFICES ASSUME first \notin P(c)
               PROVE  FALSE
    OBVIOUS
  <2> DEFINE U == R \ P(c)
  <2>1. \A u \in U \cap W : next[u] \in R => next[u] \in U
    BY <1>1
  <2>2. U \in SUBSET R /\ (first \in R => first \in U)
    OBVIOUS
  <2> HIDE DEF U
  <2>3. U = R
    BY <2>1, <2>2 DEF Walked
  <2> QED BY <2>3, <1>1 DEF U
<1> SUFFICES ASSUME a # b
             PROVE  FALSE
  OBVIOUS
<1>4. a \notin P(b)
  <2>1. Back(R \ {a}) /\ b \in R \ {a}
    OBVIOUS
  <2> QED BY <2>1, <1>2
<1>5. Back(P(a) \ P(b))
  <2> SUFFICES ASSUME NEW y \in W, next[y] \in P(a) \ P(b)
               PROVE  y \in P(a) \ P(b)
    OBVIOUS
  <2>1. y \in P(a)
    BY <1>1
  <2>2. ASSUME y \in P(b)
        PROVE  FALSE
    <3> DEFINE Q == P(b) \ {y}
    <3>1. Back(Q)
      BY <1>1
    <3>2. b \in Q /\ Q \in SUBSET R
      BY <1>1
    <3>3. P(b) \subseteq Q
      BY <3>1, <3>2, <1>2
    <3> QED BY <2>2, <3>3
  <2> QED BY <2>1, <2>2
<1>6. P(a) \subseteq P(a) \ P(b)
  <2> DEFINE Q == P(a) \ P(b)
  <2>1. a \in Q /\ Q \in SUBSET R /\ Back(Q)
    BY <1>1, <1>4, <1>5
  <2> HIDE DEF Q, Back
  <2>2. P(a) \subseteq Q
    BY <2>1, <1>2
  <2> QED BY <2>2 DEF Q
<1> QED BY <1>3, <1>6

(* aaMutexPropagate_ raises one task at most that is not waiting itself.   *)
LEMMA OneRaisedRuns ==
  ASSUME NEW s, NEW t \in Task,
         NEW a \in Raised(s, t), s.state[a] # "mutexWait",
         NEW b \in Raised(s, t), s.state[b] # "mutexWait"
  PROVE  a = b
<1> DEFINE R == Raised(s, t)
           W == {u \in R : s.state[u] = "mutexWait"}
           next == [u \in Task |-> s.pOwner[s.objPtr[u]]]
           first == s.pOwner[s.objPtr[t]]
<1>1. R \subseteq Task
  BY DEF Raised
<1>2. \A U \in SUBSET Task : WalkClosed(s, t, U) => R \subseteq U
  BY DEF Raised
<1>3. LowerOwners(s, t, {t} \cup W) \subseteq R
  <2> SUFFICES ASSUME NEW o \in LowerOwners(s, t, {t} \cup W),
                      NEW U \in SUBSET Task, WalkClosed(s, t, U)
               PROVE  o \in U
    BY DEF Raised, LowerOwners
  <2>1. W \subseteq {u \in U : s.state[u] = "mutexWait"}
    BY <1>2
  <2>2. o \in LowerOwners(s, t, {t} \cup {u \in U : s.state[u] = "mutexWait"})
    BY <2>1 DEF LowerOwners
  <2> QED BY <2>2 DEF WalkClosed
<1>4. ASSUME NEW U \in SUBSET R,
             first \in R => first \in U,
             \A u \in U \cap W : next[u] \in R => next[u] \in U
      PROVE  U = R
  <2>1. WalkClosed(s, t, U)
    <3> SUFFICES ASSUME NEW o \in LowerOwners(s, t, {t} \cup {u \in U : s.state[u] = "mutexWait"})
                 PROVE  o \in U
      BY DEF WalkClosed
    <3>1. {u \in U : s.state[u] = "mutexWait"} = U \cap W
      OBVIOUS
    <3>2. o \in R
      BY <3>1, <1>3 DEF LowerOwners
    <3>3. PICK u \in {t} \cup (U \cap W) : s.pOwner[s.objPtr[u]] = o
      BY <3>1 DEF LowerOwners
    <3>4. CASE u = t
      BY <3>2, <3>3, <3>4, <1>4
    <3>5. CASE u \in U \cap W
      BY <3>2, <3>3, <3>5, <1>1, <1>4
    <3> QED BY <3>4, <3>5
  <2> QED BY <2>1, <1>1, <1>2
<1>5. a \in R \ W /\ b \in R \ W /\ W \in SUBSET R
  OBVIOUS
<1> HIDE DEF R, W, next, first
<1>6. Walked(R, W, next, first)
  BY <1>4 DEF Walked
<1> QED BY ONLY <1>5, <1>6, OneEnd

(* The waiters that are lent a priority are listed again.                  *)
LEMMA LendLists ==
  ASSUME NEW s, NEW F, NEW T, Lists(s, F, T), NEW up \in SUBSET Task, NEW p \in Prio,
         \A o \in up : s.state[o] = "ready" => o \in F,
         \A o \in up : InOrderedList(s, o) => o \notin F
  PROVE  LET u == Lend(s, up, p) IN
         /\ Lists(u, F, T)
         /\ SameRest(u, s) /\ SameTasks(u, s)
<1> DEFINE u == Lend(s, up, p)
           prio == [o \in Task |-> IF o \in up THEN p ELSE s.priority[o]]
           list(x) == IF Relisted(s, up, x) = {} THEN s.waitingList[x]
                      ELSE Reinsert(s.waitingList[x], s.waitValue,
                                    CHOOSE o \in Relisted(s, up, x) : TRUE)
           lists == [x \in SyncObj |-> list(x)]
<1>1. /\ s \in Tables /\ s.priority \in [Task -> Prio]
      /\ s.waitingList \in [SyncObj -> Seq(Task)]
  BY DEF Lists, Tables
<1>2. u = [s EXCEPT !.priority = prio, !.waitingList = lists]
  BY DEF Lend
<1>3. ASSUME NEW x \in SyncObj
      PROVE  /\ list(x) \in Seq(Task) /\ NoRepeat(list(x))
             /\ Range(list(x)) = Range(s.waitingList[x])
  <2>1. NoRepeat(s.waitingList[x]) /\ s.waitingList[x] \in Seq(Task)
    BY <1>1 DEF Lists, WaitersAgree
  <2>2. CASE Relisted(s, up, x) = {}
    BY <2>1, <2>2
  <2>3. CASE Relisted(s, up, x) # {}
    <3> DEFINE o == CHOOSE o \in Relisted(s, up, x) : TRUE
    <3>1. o \in Relisted(s, up, x)
      BY <2>3
    <3> HIDE DEF o
    <3>2. o \in Range(s.waitingList[x])
      BY <3>1 DEF Relisted, InOrderedList, Lists, WaitersAgree, ListWait
    <3>3. list(x) = Reinsert(s.waitingList[x], s.waitValue, o)
      BY <2>3 DEF o
    <3> HIDE DEF list
    <3> QED BY <2>1, <3>2, <3>3, ReinsertFacts
  <2> QED BY <2>2, <2>3
<1> HIDE DEF list
<1>4. /\ lists \in [SyncObj -> Seq(Task)]
      /\ \A x \in SyncObj : /\ NoRepeat(lists[x])
                            /\ Range(lists[x]) = Range(s.waitingList[x])
  BY <1>3
<1>5. prio \in [Task -> Prio] /\ \A a \in Task : a \notin up => prio[a] = s.priority[a]
  BY <1>1
<1> HIDE DEF prio, lists
<1>6. /\ SameRest(u, s) /\ u.state = s.state /\ u.flags = s.flags
      /\ u.objPtr = s.objPtr /\ u.delayed = s.delayed /\ u.delay = s.delay
      /\ u.ready = s.ready /\ u.prioGroup = s.prioGroup
      /\ u.priority = prio /\ u.waitingList = lists
      /\ u.suspended = s.suspended
  BY <1>2 DEF SameRest, SameObjects
<1>7. u \in Tables
  <2> DEFINE w == [s EXCEPT !.priority = prio]
  <2>1. u = [w EXCEPT !.waitingList = lists]
    BY <1>2, Zenon
  <2>2. w \in Tables
    BY <1>1, <1>5 DEF Tables
  <2> HIDE DEF u, w
  <2> QED BY <2>1, <2>2, <1>4 DEF Tables
<1> HIDE DEF u
<1>8. ReadyAgree(u, F)
  BY <1>5, <1>6 DEF Lists, ReadyAgree
<1>9. WaitersAgree(u, F)
  BY <1>4, <1>6 DEF Lists, WaitersAgree
<1>10. DelayedAgree(u, F, T)
  BY <1>6 DEF Lists, DelayedAgree, Timed
<1>11. SuspendedAgree(u, F)
  BY <1>6 DEF Lists, SuspendedAgree
<1> QED BY <1>6, <1>7, <1>8, <1>9, <1>10, <1>11 DEF Lists, u, SameTasks

(* aaMutexPropagate_ keeps the lists.                                      *)
LEMMA PropagateLists ==
  ASSUME NEW s, NEW T, Lists(s, {}, T), NEW t \in Task
  PROVE  LET u == Propagate(s, t) IN
         /\ Lists(u, {}, T)
         /\ SameRest(u, s) /\ SameTasks(u, s)
<1> DEFINE u == Propagate(s, t)
           up == Raised(s, t)
           moved == {o \in up : s.state[o] = "ready"}
           p == s.priority[t]
<1>1. p \in Prio /\ up \in SUBSET Task /\ s.state \in [Task -> State]
  BY DEF Lists, Tables, Raised
<1>2. CASE moved = {}
  <2>1. u = Lend(s, up, p)
    BY <1>2 DEF Propagate
  <2>2. \A o \in up : s.state[o] # "ready"
    BY <1>2
  <2> HIDE DEF up, u, p
  <2> QED BY <1>1, <2>1, <2>2, LendLists DEF u
<1>3. CASE moved # {}
  <2> DEFINE r == CHOOSE o \in moved : TRUE
             v == RemoveReady(s, r)
             w == Lend(v, up, p)
  <2>1. u = AddReady(w, r)
    BY <1>3 DEF Propagate
  <2>2. r \in up /\ s.state[r] = "ready"
    BY <1>3
  <2> HIDE DEF r
  <2>3. /\ Lists(v, {} \cup {r}, T)
        /\ SameRest(v, s)
        /\ v.state = s.state /\ v.flags = s.flags /\ v.objPtr = s.objPtr
        /\ v.delayed = s.delayed /\ v.delay = s.delay
    BY <1>1, <2>2, RemoveReadyLists
  <2>4. {} \cup {r} = {r}
    OBVIOUS
  <2>5. \A o \in up : v.state[o] = "ready" => o \in {r}
    BY <2>2, <2>3, OneRaisedRuns
  <2>6. \A o \in up : InOrderedList(v, o) => o \notin {r}
    BY <2>2, <2>3 DEF InOrderedList
  <2> HIDE DEF v, up, p
  <2>7. Lists(w, {r}, T) /\ SameRest(w, v) /\ SameTasks(w, v)
    BY <1>1, <2>3, <2>4, <2>5, <2>6, LendLists
  <2> HIDE DEF w, u
  <2>8. /\ Lists(u, {r} \ {r}, T)
        /\ SameRest(u, w)
        /\ u.state = [w.state EXCEPT ![r] = "ready"]
        /\ u.flags = w.flags /\ u.objPtr = w.objPtr /\ u.sched = w.sched
        /\ u.priority = w.priority /\ u.waitValue = w.waitValue
        /\ u.waitingList = w.waitingList /\ u.suspended = w.suspended
        /\ u.delayed = w.delayed /\ u.delay = w.delay
    <3>1. r \in Task \cap {r}
      BY <1>1, <2>2
    <3> QED BY <2>1, <2>7, <3>1, AddReadyLists
  <2>9. {r} \ {r} = {} /\ r \in Task
    BY <1>1, <2>2
  <2>10. u.state = s.state
    BY <1>1, <2>2, <2>3, <2>7, <2>8, <2>9 DEF SameTasks
  <2>11. SameRest(u, s)
    BY <2>3, <2>7, <2>8 DEF SameRest, SameObjects
  <2> QED BY <2>3, <2>7, <2>8, <2>9, <2>10, <2>11 DEF u, SameTasks
<1> QED BY <1>2, <1>3

(* The delay of t is over, or had no end.                                  *)
LEMMA UndelayedFacts ==
  ASSUME NEW s \in Tables, NEW T, DelayedAgree(s, {}, T), NEW t \in Task
  PROVE  LET u == IF t \in Range(s.delayed) THEN RemoveFromDelayed(s, t) ELSE s IN
         /\ u \in Tables
         /\ DelayedAgree(u, {t}, T)
         /\ Pending(s) => Pending(u)
         /\ SameRest(u, s)
         /\ u.state = s.state /\ u.flags = s.flags /\ u.objPtr = s.objPtr
         /\ u.priority = s.priority /\ u.waitValue = s.waitValue
         /\ u.waitingList = s.waitingList /\ u.suspended = s.suspended
         /\ u.ready = s.ready /\ u.prioGroup = s.prioGroup
<1>1. CASE t \in Range(s.delayed)
  <2>1. {} \cup {t} = {t}
    OBVIOUS
  <2> DEFINE u == RemoveFromDelayed(s, t)
  <2>2. /\ u \in Tables
        /\ DelayedAgree(u, {} \cup {t}, T)
        /\ Pending(s) => Pending(u)
        /\ SameRest(u, s)
        /\ u.state = s.state /\ u.flags = s.flags /\ u.objPtr = s.objPtr
        /\ u.priority = s.priority /\ u.waitValue = s.waitValue
        /\ u.waitingList = s.waitingList /\ u.suspended = s.suspended
        /\ u.ready = s.ready /\ u.prioGroup = s.prioGroup
    BY RemoveFromDelayedFacts
  <2> HIDE DEF u
  <2>3. DelayedAgree(u, {t}, T)
    BY <2>1, <2>2
  <2> QED BY <1>1, <2>2, <2>3 DEF u
<1>2. CASE t \notin Range(s.delayed)
  <2>1. DelayedAgree(s, {t}, T)
    BY <1>2 DEF DelayedAgree
  <2> QED BY <1>2, <2>1, Zenon DEF SameRest, SameObjects
<1> QED BY <1>1, <1>2

(* A waiter leaves the list of what it waits for.                          *)
LEMMA UnlistFacts ==
  ASSUME NEW s \in Tables, WaitersAgree(s, {}), NEW t \in Task,
         s.objPtr[t] \in SyncObj
  PROVE  LET u == Unlist(s, t) IN
         /\ u \in Tables
         /\ WaitersAgree(u, {t})
         /\ SameRest(u, s)
         /\ u.state = s.state /\ u.flags = s.flags /\ u.objPtr = s.objPtr
         /\ u.priority = s.priority /\ u.waitValue = s.waitValue
         /\ u.delayed = s.delayed /\ u.delay = s.delay
         /\ u.suspended = s.suspended
         /\ u.ready = s.ready /\ u.prioGroup = s.prioGroup
<1> DEFINE u == Unlist(s, t)
           x == s.objPtr[t]
           list == ListRemove(s.waitingList[x], t)
<1>1. x \in SyncObj /\ s.waitingList \in [SyncObj -> Seq(Task)]
  BY DEF Tables
<1>2. u = [s EXCEPT !.waitingList[x] = list]
  BY DEF Unlist
<1>3. NoRepeat(s.waitingList[x]) /\ s.waitingList[x] \in Seq(Task)
  BY <1>1 DEF WaitersAgree
<1> HIDE DEF x
<1>4. /\ list \in Seq(Task) /\ NoRepeat(list)
      /\ Range(list) = Range(s.waitingList[x]) \ {t}
  BY <1>3, ListRemoveFacts
<1> HIDE DEF list
<1>5. /\ SameRest(u, s)
      /\ u.state = s.state /\ u.flags = s.flags /\ u.objPtr = s.objPtr
      /\ u.priority = s.priority /\ u.waitValue = s.waitValue
      /\ u.delayed = s.delayed /\ u.delay = s.delay
      /\ u.suspended = s.suspended
      /\ u.ready = s.ready /\ u.prioGroup = s.prioGroup
      /\ u.waitingList = [s.waitingList EXCEPT ![x] = list]
  BY <1>2 DEF SameRest, SameObjects
<1>6. u \in Tables
  <2>1. \A l \in Seq(Task) : [s EXCEPT !.waitingList[x] = l] \in Tables
    BY <1>1 DEF Tables
  <2> QED BY <1>2, <1>4, <2>1
<1> HIDE DEF u
<1>7. WaitersAgree(u, {t})
  <2> SUFFICES ASSUME NEW y \in SyncObj
               PROVE  /\ NoRepeat(u.waitingList[y])
                      /\ \A v \in Task : v \in Range(u.waitingList[y])
                           <=> v \notin {t} /\ u.state[v] \in ListWait /\ u.objPtr[v] = y
    BY DEF WaitersAgree
  <2>1. /\ NoRepeat(s.waitingList[y])
        /\ \A v \in Task : v \in Range(s.waitingList[y])
             <=> v \notin {} /\ s.state[v] \in ListWait /\ s.objPtr[v] = y
    BY DEF WaitersAgree
  <2>2. CASE y = x
    <3>1. u.waitingList[y] = list
      BY <2>2, <1>1, <1>5
    <3> QED BY <3>1, <2>1, <2>2, <1>4, <1>5
  <2>3. CASE y # x
    <3>1. u.waitingList[y] = s.waitingList[y] /\ s.objPtr[t] # y
      BY <2>3, <1>1, <1>5 DEF x
    <3> QED BY <3>1, <2>1, <2>3, <1>5
  <2> QED BY <2>2, <2>3
<1> QED BY <1>5, <1>6, <1>7 DEF u

(* aaRemoveTaskFromLists_ takes a task that waits out of all lists.        *)
LEMMA RemoveFromListsLists ==
  ASSUME NEW s, NEW T, Lists(s, {}, T), Waits(s), NEW t \in Task,
         s.state[t] \notin {"ready", "suspended"}
  PROVE  LET u == RemoveFromLists(s, t) IN
         /\ Lists(u, {t}, T)
         /\ Pending(s) => Pending(u)
         /\ SameRest(u, s)
         /\ u.state = s.state /\ u.flags = s.flags
         /\ u.objPtr = s.objPtr \/ u.objPtr = [s.objPtr EXCEPT ![t] = None]
<1> DEFINE u == IF t \in Range(s.delayed) THEN RemoveFromDelayed(s, t) ELSE s
           o == s.pOwner[s.objPtr[t]]
           v == Unlist(u, t)
           w == IF s.state[t] = "mutexWait" /\ InheritsFrom(s, o, t)
                THEN NewPrio(v, o) ELSE v
<1>1. /\ s \in Tables /\ s.state \in [Task -> State]
      /\ DelayedAgree(s, {}, T) /\ WaitersAgree(s, {})
      /\ ReadyAgree(s, {}) /\ SuspendedAgree(s, {})
  BY DEF Lists, Tables
<1>2. /\ u \in Tables
      /\ DelayedAgree(u, {t}, T)
      /\ Pending(s) => Pending(u)
      /\ SameRest(u, s)
      /\ u.state = s.state /\ u.flags = s.flags /\ u.objPtr = s.objPtr
      /\ u.priority = s.priority /\ u.waitValue = s.waitValue
      /\ u.waitingList = s.waitingList /\ u.suspended = s.suspended
      /\ u.ready = s.ready /\ u.prioGroup = s.prioGroup
  BY <1>1, UndelayedFacts
<1>3. RemoveFromLists(s, t) =
        IF InOrderedList(s, t) THEN [w EXCEPT !.objPtr[t] = None]
        ELSE IF s.state[t] = "ioWait" THEN v ELSE u
  BY DEF RemoveFromLists
<1> HIDE DEF u
<1>4. WaitersAgree(u, {}) /\ ReadyAgree(u, {t}) /\ SuspendedAgree(u, {t})
  <2>1. WaitersAgree(u, {})
    BY <1>1, <1>2 DEF WaitersAgree
  <2>2. ReadyAgree(u, {t})
    BY <1>1, <1>2 DEF ReadyAgree
  <2>3. SuspendedAgree(u, {t})
    BY <1>1, <1>2 DEF SuspendedAgree
  <2> QED BY <2>1, <2>2, <2>3
<1>5. CASE s.state[t] \notin ListWait
  <2>1. RemoveFromLists(s, t) = u
    BY <1>3, <1>5 DEF ListWait, InOrderedList
  <2>2. WaitersAgree(u, {t})
    BY <1>2, <1>4, <1>5 DEF WaitersAgree
  <2> QED BY <1>2, <1>4, <2>1, <2>2 DEF Lists
<1>6. CASE s.state[t] \in ListWait
  <2>1. \A a \in Task : s.state[a] \in ListWait => s.objPtr[a] \in SyncObj
    BY DEF Waits, ListWait, SyncObj
  <2>2. /\ v \in Tables
        /\ WaitersAgree(v, {t})
        /\ SameRest(v, u)
        /\ v.state = u.state /\ v.flags = u.flags /\ v.objPtr = u.objPtr
        /\ v.priority = u.priority /\ v.waitValue = u.waitValue
        /\ v.delayed = u.delayed /\ v.delay = u.delay
        /\ v.suspended = u.suspended
        /\ v.ready = u.ready /\ v.prioGroup = u.prioGroup
    BY <1>2, <1>4, <1>6, <2>1, UnlistFacts
  <2> HIDE DEF v
  <2>3. Lists(v, {t}, T)
    <3>1. ReadyAgree(v, {t})
      BY <1>4, <2>2 DEF ReadyAgree
    <3>2. DelayedAgree(v, {t}, T)
      BY <1>2, <2>2 DEF DelayedAgree, Timed
    <3>3. SuspendedAgree(v, {t})
      BY <1>4, <2>2 DEF SuspendedAgree
    <3> QED BY <2>2, <3>1, <3>2, <3>3 DEF Lists
  <2>4. Pending(s) => Pending(v)
    BY <1>2, <2>2 DEF Pending
  <2>5. SameRest(v, s)
    BY <1>2, <2>2 DEF SameRest, SameObjects
  <2>6. CASE s.state[t] = "ioWait"
    <3>1. RemoveFromLists(s, t) = v
      BY <1>3, <2>6 DEF InOrderedList
    <3> QED BY <3>1, <1>2, <2>2, <2>3, <2>4, <2>5
  <2>7. CASE InOrderedList(s, t)
    <3>1. Lists(w, {t}, T) /\ SameRest(w, v) /\ SameTasks(w, v)
      <4>1. CASE ~ (s.state[t] = "mutexWait" /\ InheritsFrom(s, o, t))
        <5>1. w = v
          BY <4>1
        <5> QED BY <5>1, <2>3, Zenon DEF SameRest, SameObjects, SameTasks
      <4>2. CASE s.state[t] = "mutexWait" /\ InheritsFrom(s, o, t)
        <5>1. w = NewPrio(v, o)
          BY <4>2
        <5>2. o \in Task \ {t}
          BY <4>2 DEF Waits
        <5>3. v.state[o] \in ListWait => v.objPtr[o] \in SyncObj
          BY <5>2, <2>1, <2>2, <1>2
        <5> HIDE DEF w, o
        <5> QED BY <5>1, <5>2, <5>3, <2>3, NewPrioLists
      <4> QED BY <4>1, <4>2
    <3> HIDE DEF w, o
    <3> DEFINE z == [w EXCEPT !.objPtr[t] = None]
    <3>2. RemoveFromLists(s, t) = z
      BY <1>3, <2>7
    <3>3. w \in Tables
      BY <3>1 DEF Lists
    <3>4. z \in Tables
      BY <3>3 DEF Tables
    <3>5. /\ SameRest(z, w)
          /\ z.state = w.state /\ z.flags = w.flags
          /\ z.objPtr = [w.objPtr EXCEPT ![t] = None]
          /\ z.priority = w.priority /\ z.waitValue = w.waitValue
          /\ z.delayed = w.delayed /\ z.delay = w.delay
          /\ z.suspended = w.suspended /\ z.waitingList = w.waitingList
          /\ z.ready = w.ready /\ z.prioGroup = w.prioGroup
      BY DEF SameRest, SameObjects
    <3> HIDE DEF z
    <3>6. Lists(z, {t}, T)
      <4>1. ReadyAgree(z, {t})
        BY <3>1, <3>5 DEF Lists, ReadyAgree
      <4>2. WaitersAgree(z, {t})
        <5>1. \A a \in Task : a # t => z.objPtr[a] = w.objPtr[a]
          BY <3>3, <3>5 DEF Tables
        <5> QED BY <5>1, <3>1, <3>5 DEF Lists, WaitersAgree
      <4>3. DelayedAgree(z, {t}, T)
        BY <3>1, <3>5 DEF Lists, DelayedAgree, Timed, SameTasks
      <4>4. SuspendedAgree(z, {t})
        BY <3>1, <3>5 DEF Lists, SuspendedAgree
      <4> QED BY <3>4, <4>1, <4>2, <4>3, <4>4 DEF Lists
    <3>7. Pending(s) => Pending(z)
      BY <2>4, <3>1, <3>5 DEF Pending, SameTasks
    <3>8. SameRest(z, s)
      BY <2>5, <3>1, <3>5 DEF SameRest, SameObjects
    <3> QED BY <1>2, <2>2, <3>1, <3>2, <3>5, <3>6, <3>7, <3>8 DEF SameTasks
  <2> QED BY <1>6, <2>6, <2>7 DEF ListWait, InOrderedList
<1> QED BY <1>5, <1>6

(* aaGetHighestPrio finds a list that is not empty.                        *)
LEMMA HighestPrioFacts ==
  ASSUME NEW s, NEW T, Lists(s, {}, T), NEW t \in Task, s.state[t] = "ready"
  PROVE  LET c == Head(s.ready[HighestPrio(s)]) IN
         /\ c \in Task /\ s.state[c] = "ready"
         /\ s.priority[t] <= s.priority[c]
<1> DEFINE p == HighestPrio(s)
           c == Head(s.ready[p])
           q == s.priority[t]
<1>1. /\ s \in Tables /\ s.prioGroup \subseteq 0 .. MaxPrio /\ MaxPrio \in Nat
      /\ s.ready \in [Prio -> Seq(Task)] /\ q \in Prio /\ Prio = 0 .. MaxPrio
  BY KernelAssumption DEF Lists, Tables, Prio
<1>2. q \in s.prioGroup
  <2>1. t \in Range(s.ready[q]) /\ s.ready[q] \in Seq(Task)
    BY <1>1 DEF Lists, ReadyAgree
  <2>2. s.ready[q] # << >>
    BY <2>1, EmptyFacts
  <2> QED BY <1>1, <2>2 DEF Lists, ReadyAgree
<1>3. p \in s.prioGroup /\ q <= p
  <2>1. \E i \in s.prioGroup : \A j \in s.prioGroup : j <= i
    BY <1>1, <1>2, GreatestExists
  <2>2. p \in s.prioGroup /\ \A j \in s.prioGroup : j <= p
    BY <2>1, Zenon DEF HighestPrio
  <2> QED BY <2>2, <1>2
<1> HIDE DEF p
<1>4. s.ready[p] # << >> /\ s.ready[p] \in Seq(Task) /\ NoRepeat(s.ready[p]) /\ p \in Prio
  BY <1>1, <1>3 DEF Lists, ReadyAgree
<1>5. c \in Task /\ c \in Range(s.ready[p])
  BY <1>4, TailFacts
<1> HIDE DEF c
<1>6. s.state[c] = "ready" /\ s.priority[c] = p
  BY <1>4, <1>5 DEF Lists, ReadyAgree
<1> QED BY <1>3, <1>5, <1>6 DEF c, p

(* aaSchedule_ of tables in which some task is ready, aaStart_ makes the   *)
(* idle task so.                                                           *)
LEMMA ScheduleLists ==
  ASSUME NEW s, NEW T, Lists(s, {}, T), s.state[Idle] = "ready"
  PROVE  /\ Lists(Schedule(s), {}, T)
         /\ Schedule(s).state[Schedule(s).cur] = "ready"
         /\ SameObjects(Schedule(s), s)
         /\ SameTasks(Schedule(s), s)
<1> DEFINE c == Head(s.ready[HighestPrio(s)])
           u == Schedule(s)
<1>1. c \in Task /\ s.state[c] = "ready"
  <2>1. Idle \in Task
    BY KernelAssumption
  <2> QED BY <2>1, HighestPrioFacts
<1>2. u = [s EXCEPT !.cur = c, !.sched = FALSE]
  BY DEF Schedule
<1> HIDE DEF c
<1>3. /\ SameObjects(u, s) /\ SameTasks(u, s)
      /\ u.cur = c /\ u.ready = s.ready /\ u.prioGroup = s.prioGroup
      /\ u.priority = s.priority /\ u.waitingList = s.waitingList
      /\ u.suspended = s.suspended
  BY <1>2 DEF SameObjects, SameTasks
<1>4. s \in Tables
  BY DEF Lists
<1>5. u \in Tables
  <2> DEFINE w == [s EXCEPT !.cur = c]
  <2>1. u = [w EXCEPT !.sched = FALSE]
    BY <1>2, Zenon
  <2>2. w \in Tables
    BY <1>1, <1>4 DEF Tables
  <2> HIDE DEF u, w
  <2> QED BY <2>1, <2>2 DEF Tables
<1> HIDE DEF u
<1>6. Lists(u, {}, T)
  <2>1. /\ u.state = s.state /\ u.objPtr = s.objPtr
        /\ u.delayed = s.delayed /\ u.delay = s.delay
    BY <1>3 DEF SameTasks
  <2> QED BY <1>3, <1>5, <2>1, ListsFrame
<1> QED BY <1>1, <1>3, <1>6 DEF u, SameTasks

-----------------------------------------------------------------------------
(* Whole services.                                                         *)

(* Reordering the lists keeps the tables whole.                            *)
LEMMA ReorderedWhole ==
  ASSUME NEW s, NEW u, NEW T, Whole(s, T),
         Lists(u, {}, T), SameObjects(u, s), SameTasks(u, s)
  PROVE  Whole(u, T) /\ Keeps(u, s)
<1>1. Waits(u)
  BY DEF Whole, Waits, SameObjects, SameTasks
<1>2. Whole(u, T)
  BY <1>1 DEF Whole, SameObjects, SameTasks
<1>3. Pending(s) => Pending(u)
  BY DEF Pending, SameTasks
<1> QED BY <1>2, <1>3 DEF Keeps, SameObjects, SameTasks

(* So does a change of what the lists do not depend on, provided the       *)
(* waiters still wait for something they cannot have.                      *)
LEMMA UnmovedRunning ==
  ASSUME NEW s, NEW u, NEW T, Running(s, T), u \in Tables, Unmoved(u, s), Waits(u),
         u.basePriority[Idle] = 0
  PROVE  /\ Running(u, T)
         /\ u.zombies = s.zombies /\ u.freeTcb = s.freeTcb => Keeps(u, s)
<1>1. Lists(u, {}, T)
  BY ListsFrame DEF Unmoved, Running, Whole
<1>2. Running(u, T)
  BY <1>1 DEF Unmoved, Running, Whole
<1>3. Pending(s) => Pending(u)
  BY DEF Pending, Unmoved
<1> QED BY <1>2, <1>3 DEF Keeps, Unmoved

(* Two operations, one after the other.                                    *)
LEMMA KeepsTransitive ==
  ASSUME NEW s, NEW v, NEW u, Keeps(v, s), Keeps(u, v)
  PROVE  Keeps(u, s)
BY DEF Keeps

(* No operation.                                                           *)
LEMMA KeepsItself ==
  ASSUME NEW s
  PROVE  Keeps(s, s)
BY DEF Keeps

(* The end of a service.                                                   *)
LEMMA ScheduleRuns ==
  ASSUME NEW s, NEW T, Whole(s, T)
  PROVE  /\ Running(Schedule(s), T) /\ Keeps(Schedule(s), s)
         /\ SameObjects(Schedule(s), s) /\ SameTasks(Schedule(s), s)
<1> DEFINE u == Schedule(s)
<1>1. /\ Lists(u, {}, T) /\ SameObjects(u, s) /\ SameTasks(u, s)
      /\ u.state[u.cur] = "ready"
  BY ScheduleLists DEF Whole
<1> HIDE DEF u
<1>2. Whole(u, T) /\ Keeps(u, s)
  BY <1>1, ReorderedWhole
<1> QED BY <1>1, <1>2 DEF Running, u

(* The end of a service that switches on request only.                     *)
LEMMA ScheduleIfRuns ==
  ASSUME NEW s, NEW T, Running(s, T)
  PROVE  /\ Running(ScheduleIf(s), T) /\ Keeps(ScheduleIf(s), s)
         /\ SameObjects(ScheduleIf(s), s) /\ SameTasks(ScheduleIf(s), s)
<1>1. CASE s.sched
  BY <1>1, ScheduleRuns DEF ScheduleIf, Running
<1>2. CASE ~ s.sched
  <2>1. ScheduleIf(s) = s
    BY <1>2 DEF ScheduleIf
  <2> QED BY <2>1, KeepsItself DEF SameObjects, SameTasks
<1> QED BY <1>1, <1>2

(* The end of a service that leaves the switch to the outer handler.       *)
LEMMA NoScheduleRuns ==
  ASSUME NEW s, NEW T, Running(s, T)
  PROVE  LET u == [s EXCEPT !.sched = FALSE] IN
         Running(u, T) /\ Keeps(u, s) /\ SameObjects(u, s) /\ SameTasks(u, s)
<1> DEFINE u == [s EXCEPT !.sched = FALSE]
<1>1. s \in Tables /\ Waits(s) /\ s.basePriority[Idle] = 0
  BY DEF Running, Whole, Lists
<1>2. u \in Tables
  BY <1>1 DEF Tables
<1>3. Unmoved(u, s) /\ SameObjects(u, s) /\ SameTasks(u, s)
  BY DEF Unmoved, SameObjects, SameTasks
<1> HIDE DEF u
<1>4. Waits(u) /\ u.basePriority[Idle] = 0
  BY <1>1, <1>3 DEF Waits, SameObjects, SameTasks
<1> QED BY <1>2, <1>3, <1>4, UnmovedRunning DEF u, SameObjects

(* The flags of a task are its own business.                               *)
LEMMA FlagsRun ==
  ASSUME NEW s, NEW T, Running(s, T), NEW t \in Task, NEW c \in SUBSET Flag
  PROVE  LET u == [s EXCEPT !.flags[t] = c] IN
         Running(u, T) /\ Keeps(u, s) /\ SameObjects(u, s) /\ Unmoved(u, s)
<1> DEFINE u == [s EXCEPT !.flags[t] = c]
<1>1. s \in Tables /\ Waits(s) /\ s.basePriority[Idle] = 0
  BY DEF Running, Whole, Lists
<1>2. u \in Tables
  BY <1>1 DEF Tables
<1>3. Unmoved(u, s) /\ SameObjects(u, s)
  BY DEF Unmoved, SameObjects
<1> HIDE DEF u
<1>4. Waits(u) /\ u.basePriority[Idle] = 0
  BY <1>1, <1>3 DEF Waits, SameObjects, Unmoved
<1> QED BY <1>2, <1>3, <1>4, UnmovedRunning DEF u, SameObjects

(* A task that sleeps is woken: it becomes ready, or suspended.            *)
LEMMA WokenRuns ==
  ASSUME NEW s, NEW u, NEW T, Running(s, T), NEW t \in Task, NEW told,
         s.state[t] \notin {"ready", "none"},
         Lists(u, {}, T), Woken(u, s, t, told)
  PROVE  Running(u, T) /\ Keeps(u, s)
<1>1. s.state \in [Task -> State] /\ Idle \in Task /\ s.cur \in Task
  BY KernelAssumption DEF Running, Whole, Lists, Tables
<1>2. t # Idle /\ t # s.cur
  BY DEF Running, Whole
<1>3. \A a \in Task \ {t} : u.state[a] = s.state[a] /\ u.objPtr[a] = s.objPtr[a]
  BY <1>1 DEF Woken
<1>4. u.state[t] \in {"suspended", "ready"}
  BY <1>1 DEF Woken
<1>5. SameRest(u, s)
  BY DEF Woken
<1>6. Waits(u)
  BY <1>3, <1>4, <1>5 DEF Running, Whole, Waits, SameRest, SameObjects
<1>7. Running(u, T)
  BY <1>1, <1>2, <1>3, <1>5, <1>6 DEF Running, Whole, SameRest, SameObjects
<1>8. \A a \in Task : u.state[a] = "none" <=> s.state[a] = "none"
  BY <1>3, <1>4
<1>9. \A a \in Task : u.state[a] = "semWait" => /\ s.state[a] = "semWait"
                                                /\ u.objPtr[a] = s.objPtr[a]
  BY <1>3, <1>4
<1> QED BY <1>5, <1>7, <1>8, <1>9 DEF Keeps, Woken, SameRest, SameObjects

(* aaWakeUp by the tick or by aaTaskWakeUp.                                *)
LEMMA WakeByTimeoutRuns ==
  ASSUME NEW s, NEW T, Running(s, T), NEW t \in Task,
         s.state[t] \notin {"ready", "suspended", "none"}
  PROVE  LET u == WakeByTimeout(s, t) IN
         /\ Running(u, T) /\ Keeps(u, s)
         /\ Woken(u, s, t, {"DELAYTMO"})
<1> DEFINE v == RemoveFromLists(s, t)
           w == [v EXCEPT !.flags[t] = @ \cup {"DELAYTMO"}]
           u == PutInList(w, t)
<1>1. /\ Lists(v, {t}, T)
      /\ Pending(s) => Pending(v)
      /\ SameRest(v, s)
      /\ v.state = s.state /\ v.flags = s.flags
      /\ v.objPtr = s.objPtr \/ v.objPtr = [s.objPtr EXCEPT ![t] = None]
  BY RemoveFromListsLists DEF Running, Whole
<1>2. s \in Tables /\ v \in Tables
  BY <1>1 DEF Running, Whole, Lists
<1> HIDE DEF v
<1>3. w \in Tables
  <2> DEFINE c == v.flags[t] \cup {"DELAYTMO"}
  <2>1. w = [v EXCEPT !.flags[t] = c]
    OBVIOUS
  <2>2. c \in SUBSET Flag
    BY <1>2 DEF Tables, Flag
  <2> HIDE DEF w, c
  <2> QED BY <2>1, <2>2, <1>2, FlagsTyped
<1>4. /\ SameRest(w, v) /\ w.state = v.state
      /\ w.flags = [v.flags EXCEPT ![t] = @ \cup {"DELAYTMO"}]
      /\ w.objPtr = v.objPtr
      /\ w.ready = v.ready /\ w.prioGroup = v.prioGroup /\ w.priority = v.priority
      /\ w.waitingList = v.waitingList
      /\ w.delayed = v.delayed /\ w.delay = v.delay /\ w.suspended = v.suspended
  BY DEF SameRest, SameObjects
<1> HIDE DEF w
<1>5. Lists(w, {t}, T)
  BY <1>1, <1>3, <1>4, ListsFrame
<1>6. /\ Lists(u, {t} \ {t}, T)
      /\ SameRest(u, w)
      /\ u.state = [w.state EXCEPT ![t] =
                      IF "SUSPEND" \in w.flags[t] THEN "suspended" ELSE "ready"]
      /\ u.flags = [w.flags EXCEPT ![t] = @ \ {"SUSPEND"}]
      /\ u.objPtr = w.objPtr
      /\ u.delayed = w.delayed /\ u.delay = w.delay
      /\ Asked(u, t)
  BY <1>5, PutInListLists, PutInListAsks
<1>7. WakeByTimeout(s, t) = u
  BY DEF WakeByTimeout, u, w, v
<1> HIDE DEF u
<1>8. Lists(u, {}, T)
  <2>1. {t} \ {t} = {}
    OBVIOUS
  <2> QED BY <2>1, <1>6
<1>9. Woken(u, s, t, {"DELAYTMO"})
  <2>1. SameRest(u, s)
    BY <1>1, <1>4, <1>6 DEF SameRest, SameObjects
  <2>2. s.flags \in [Task -> SUBSET Flag] /\ s.objPtr \in [Task -> SyncObj \cup {None} \cup SUBSET Signal]
        /\ v.flags \in [Task -> SUBSET Flag]
    BY <1>2 DEF Tables
  <2>3. "SUSPEND" \in w.flags[t] <=> "SUSPEND" \in s.flags[t]
    BY <2>2, <1>1, <1>4
  <2>4. u.flags = [s.flags EXCEPT ![t] = (@ \cup {"DELAYTMO"}) \ {"SUSPEND"}]
    <3>1. w.flags = [s.flags EXCEPT ![t] = @ \cup {"DELAYTMO"}]
      BY <1>1, <1>4
    <3>2. u.flags = [w.flags EXCEPT ![t] = @ \ {"SUSPEND"}]
      BY <1>6
    <3> QED BY <2>2, <3>1, <3>2
  <2>5. \A a \in Task \ {t} : u.objPtr[a] = s.objPtr[a]
    <3>1. u.objPtr = v.objPtr
      BY <1>4, <1>6
    <3> QED BY <2>2, <3>1, <1>1
  <2>6. Pending(s) => Pending(u)
    BY <1>1, <1>4, <1>6 DEF Pending
  <2>7. u.state = [s.state EXCEPT ![t] =
                     IF "SUSPEND" \in s.flags[t] THEN "suspended" ELSE "ready"]
    BY <1>1, <1>4, <1>6, <2>3
  <2> QED BY <1>6, <2>1, <2>4, <2>5, <2>6, <2>7 DEF Woken
<1> QED BY <1>7, <1>8, <1>9, WokenRuns

(* The task at the head of a waiting list waits there.                     *)
LEMMA HeadWaits ==
  ASSUME NEW s, NEW T, Running(s, T), NEW x \in SyncObj, s.waitingList[x] # << >>
  PROVE  LET t == Head(s.waitingList[x]) IN
         /\ t \in Task /\ s.state[t] \in ListWait /\ s.objPtr[t] = x
         /\ x \in Mutex => s.state[t] = "mutexWait"
         /\ x \in Sem => s.state[t] = "semWait"
         /\ x \in Driver => s.state[t] = "ioWait"
<1> DEFINE t == Head(s.waitingList[x])
<1>1. s.waitingList[x] \in Seq(Task) /\ NoRepeat(s.waitingList[x])
  BY DEF Running, Whole, Lists, Tables, WaitersAgree
<1>2. t \in Task /\ t \in Range(s.waitingList[x])
  BY <1>1, TailFacts
<1> HIDE DEF t
<1>3. s.state[t] \in ListWait /\ s.objPtr[t] = x
  BY <1>2 DEF Running, Whole, Lists, WaitersAgree
<1>4. /\ x \in Mutex => s.state[t] = "mutexWait"
      /\ x \in Sem => s.state[t] = "semWait"
      /\ x \in Driver => s.state[t] = "ioWait"
  <2>1. \/ s.state[t] = "mutexWait" /\ x \in Mutex
        \/ s.state[t] = "semWait" /\ x \in Sem
        \/ s.state[t] = "ioWait" /\ x \in Driver
    BY <1>2, <1>3 DEF Running, Whole, Waits, ListWait
  <2> QED BY <2>1, KernelAssumption
<1> QED BY <1>2, <1>3, <1>4 DEF t

(* It is unlinked.                                                         *)
LEMMA UnlinkHead ==
  ASSUME NEW s, NEW T, Running(s, T), NEW x \in SyncObj, s.waitingList[x] # << >>
  PROVE  LET u == [s EXCEPT !.waitingList[x] = Tail(@)] IN
         /\ u \in Tables
         /\ WaitersAgree(u, {Head(s.waitingList[x])})
         /\ SameRest(u, s) /\ SameTasks(u, s)
         /\ u.priority = s.priority /\ u.suspended = s.suspended
         /\ u.ready = s.ready /\ u.prioGroup = s.prioGroup
<1> DEFINE t == Head(s.waitingList[x])
           l == Tail(s.waitingList[x])
           u == [s EXCEPT !.waitingList[x] = Tail(@)]
<1>1. s \in Tables /\ WaitersAgree(s, {})
  BY DEF Running, Whole, Lists
<1>2. s.waitingList[x] \in Seq(Task) /\ NoRepeat(s.waitingList[x])
  BY <1>1 DEF Tables, WaitersAgree
<1>3. /\ l \in Seq(Task) /\ t \in Task /\ t \in Range(s.waitingList[x])
      /\ Range(l) = Range(s.waitingList[x]) \ {t} /\ NoRepeat(l)
  BY <1>2, TailFacts
<1>4. u = [s EXCEPT !.waitingList[x] = l]
  OBVIOUS
<1> HIDE DEF t, l, u
<1>5. u \in Tables
  BY <1>1, <1>3, <1>4 DEF Tables
<1>6. /\ SameRest(u, s) /\ SameTasks(u, s)
      /\ u.priority = s.priority /\ u.suspended = s.suspended
      /\ u.ready = s.ready /\ u.prioGroup = s.prioGroup
  BY <1>4 DEF SameRest, SameObjects, SameTasks
<1>7. /\ \A y \in SyncObj \ {x} : u.waitingList[y] = s.waitingList[y]
      /\ u.waitingList[x] = l
  BY <1>1, <1>4 DEF Tables
<1>8. WaitersAgree(u, {t})
  <2> SUFFICES ASSUME NEW y \in SyncObj
               PROVE  /\ NoRepeat(u.waitingList[y])
                      /\ \A a \in Task : a \in Range(u.waitingList[y])
                           <=> a \notin {t} /\ u.state[a] \in ListWait /\ u.objPtr[a] = y
    BY DEF WaitersAgree
  <2>1. u.state = s.state /\ u.objPtr = s.objPtr
    BY <1>6 DEF SameTasks
  <2>2. s.objPtr[t] = x
    BY <1>1, <1>3 DEF WaitersAgree
  <2>3. CASE y = x
    BY <2>1, <2>3, <1>1, <1>3, <1>7 DEF WaitersAgree
  <2>4. CASE y # x
    BY <2>1, <2>2, <2>4, <1>1, <1>7 DEF WaitersAgree
  <2> QED BY <2>3, <2>4
<1> QED BY <1>5, <1>6, <1>8 DEF t, u

(* A task that has been taken out of its lists is put in the ready list or *)
(* the suspended one.                                                      *)
LEMMA PutInListRuns ==
  ASSUME NEW s, NEW w, NEW T, Running(s, T), NEW t \in Task,
         s.state[t] \notin {"ready", "none"},
         Lists(w, {t}, T), SameRest(w, s),
         w.state = s.state, w.flags = s.flags,
         \A a \in Task \ {t} : w.objPtr[a] = s.objPtr[a],
         Pending(s) => Pending(w)
  PROVE  LET u == PutInList(w, t) IN
         /\ Running(u, T) /\ Keeps(u, s)
         /\ Woken(u, s, t, {})
<1> DEFINE u == PutInList(w, t)
<1>1. /\ Lists(u, {t} \ {t}, T)
      /\ SameRest(u, w)
      /\ u.state = [w.state EXCEPT ![t] =
                      IF "SUSPEND" \in w.flags[t] THEN "suspended" ELSE "ready"]
      /\ u.flags = [w.flags EXCEPT ![t] = @ \ {"SUSPEND"}]
      /\ u.objPtr = w.objPtr
      /\ u.delayed = w.delayed /\ u.delay = w.delay
      /\ Asked(u, t)
  BY PutInListLists, PutInListAsks
<1> HIDE DEF u
<1>2. {t} \ {t} = {}
  OBVIOUS
<1>3. Woken(u, s, t, {})
  <2>1. SameRest(u, s)
    BY <1>1 DEF SameRest, SameObjects
  <2>2. s.flags \in [Task -> SUBSET Flag]
    BY DEF Running, Whole, Lists, Tables
  <2>3. u.flags = [s.flags EXCEPT ![t] = (@ \cup {}) \ {"SUSPEND"}]
    BY <2>2, <1>1
  <2>4. Pending(s) => Pending(u)
    BY <1>1 DEF Pending
  <2> QED BY <2>1, <2>3, <2>4, <1>1 DEF Woken
<1>4. Lists(u, {}, T)
  BY <1>1, <1>2
<1> QED BY <1>3, <1>4, WokenRuns DEF u

(* What was waited for goes to the first waiter.                           *)
LEMMA WakeFirstRuns ==
  ASSUME NEW s, NEW T, Running(s, T), NEW x \in SyncObj, s.waitingList[x] # << >>
  PROVE  LET u == WakeFirst(s, x) IN
         /\ Running(u, T) /\ Keeps(u, s)
         /\ Woken(u, s, Head(s.waitingList[x]), {})
<1> DEFINE t == Head(s.waitingList[x])
           v == [s EXCEPT !.waitingList[x] = Tail(@)]
           w == [v EXCEPT !.objPtr[t] = None]
           z == RemoveFromDelayed(w, t)
<1>1. t \in Task /\ s.state[t] \in ListWait
  BY HeadWaits
<1>2. /\ v \in Tables
      /\ WaitersAgree(v, {t})
      /\ SameRest(v, s) /\ SameTasks(v, s)
      /\ v.priority = s.priority /\ v.suspended = s.suspended
      /\ v.ready = s.ready /\ v.prioGroup = s.prioGroup
  BY UnlinkHead
<1>3. WakeFirst(s, x) = PutInList(z, t)
  BY DEF WakeFirst
<1> HIDE DEF v, t
<1>4. w \in Tables
  BY <1>1, <1>2 DEF Tables
<1>5. /\ SameRest(w, v) /\ w.state = v.state /\ w.flags = v.flags
      /\ w.objPtr = [v.objPtr EXCEPT ![t] = None]
      /\ w.delayed = v.delayed /\ w.delay = v.delay
      /\ w.priority = v.priority /\ w.suspended = v.suspended
      /\ w.waitingList = v.waitingList
      /\ w.ready = v.ready /\ w.prioGroup = v.prioGroup
  BY DEF SameRest, SameObjects
<1> HIDE DEF w
<1>6. \A a \in Task \ {t} : w.objPtr[a] = s.objPtr[a]
  <2>1. v.objPtr = s.objPtr /\ s.objPtr \in [Task -> SyncObj \cup {None} \cup SUBSET Signal]
    BY <1>2 DEF SameTasks, Running, Whole, Lists, Tables
  <2> QED BY <2>1, <1>5
<1>7. DelayedAgree(w, {}, T)
  BY <1>2, <1>5 DEF Running, Whole, Lists, DelayedAgree, Timed, SameTasks
<1>8. /\ z \in Tables
      /\ DelayedAgree(z, {} \cup {t}, T)
      /\ Pending(w) => Pending(z)
      /\ SameRest(z, w)
      /\ z.state = w.state /\ z.flags = w.flags /\ z.objPtr = w.objPtr
      /\ z.priority = w.priority /\ z.waitValue = w.waitValue
      /\ z.waitingList = w.waitingList /\ z.suspended = w.suspended
      /\ z.ready = w.ready /\ z.prioGroup = w.prioGroup
  BY <1>1, <1>4, <1>7, RemoveFromDelayedFacts
<1> HIDE DEF z
<1>9. Lists(z, {t}, T)
  <2>1. {} \cup {t} = {t}
    OBVIOUS
  <2>2. z.state = s.state
    BY <1>2, <1>5, <1>8 DEF SameTasks
  <2>3. ReadyAgree(z, {t})
    BY <1>1, <1>2, <1>5, <1>8, <2>2 DEF Running, Whole, Lists, ReadyAgree, ListWait
  <2>4. WaitersAgree(z, {t})
    <3>1. \A a \in Task \ {t} : z.objPtr[a] = v.objPtr[a] /\ z.state[a] = v.state[a]
      BY <1>2, <1>5, <1>6, <1>8 DEF SameTasks
    <3> QED BY <3>1, <1>2, <1>5, <1>8 DEF WaitersAgree
  <2>5. SuspendedAgree(z, {t})
    BY <1>1, <1>2, <1>5, <1>8, <2>2 DEF Running, Whole, Lists, SuspendedAgree, ListWait
  <2> QED BY <1>8, <2>1, <2>3, <2>4, <2>5 DEF Lists
<1>10. /\ SameRest(z, s) /\ z.state = s.state /\ z.flags = s.flags
       /\ \A a \in Task \ {t} : z.objPtr[a] = s.objPtr[a]
  BY <1>2, <1>5, <1>6, <1>8 DEF SameRest, SameObjects, SameTasks
<1>11. Pending(s) => Pending(z)
  BY <1>2, <1>5, <1>8 DEF SameTasks, Pending
<1>12. s.state[t] \notin {"ready", "none"}
  BY <1>1 DEF ListWait
<1> QED BY <1>1, <1>3, <1>9, <1>10, <1>11, <1>12, PutInListRuns DEF t

(* A task that is in no list but, if its wait is for an object, in the     *)
(* waiting list of it, is given its time-out: d is 0 when it has none.     *)
LEMMA SleepRuns ==
  ASSUME NEW s, NEW w, NEW T, Running(s, T), NEW t \in Task \ {Idle},
         s.state[t] = "ready",
         NEW st \in State \ {"ready", "suspended", "none"},
         w \in Tables, ReadyAgree(w, {t}), WaitersAgree(w, {}),
         w.state = [s.state EXCEPT ![t] = st],
         \A a \in Task \ {t} : w.objPtr[a] = s.objPtr[a],
         SameObjects(w, s),
         w.delayed = s.delayed, w.delay = s.delay, w.suspended = s.suspended,
         st = "mutexWait" => /\ w.objPtr[t] \in Mutex
                             /\ s.pOwner[w.objPtr[t]] \in Task \ {t}
                             /\ s.count[w.objPtr[t]] > 0,
         st = "semWait" => /\ w.objPtr[t] \in Sem
                           /\ w.objPtr[t] \in s.semUsed
                           /\ s.count[w.objPtr[t]] <= 0,
         st = "ioWait" => w.objPtr[t] \in Driver,
         NEW d \in 0 .. Infinite, Timed(w, T, t) <=> d # 0
  PROVE  LET u == Schedule(AddToDelayed(w, t, d)) IN
         /\ Running(u, T) /\ Slept(u, s, t, st)
         /\ u.objPtr = w.objPtr /\ u.flags = w.flags
<1> DEFINE z == AddToDelayed(w, t, d)
           u == Schedule(z)
<1>1. s \in Tables /\ s.state \in [Task -> State] /\ Idle \in Task
  BY KernelAssumption DEF Running, Whole, Lists, Tables
<1>2. \A a \in Task \ {t} : w.state[a] = s.state[a]
  BY <1>1
<1>3. w.state[t] = st
  BY <1>1
<1>4. ReadyAgree(w, {})
  BY <1>3 DEF ReadyAgree
<1>5. SuspendedAgree(w, {})
  <2>1. \A a \in Task : a \in s.suspended <=> s.state[a] = "suspended"
    BY DEF Running, Whole, Lists, SuspendedAgree
  <2> QED BY <2>1, <1>2, <1>3 DEF SuspendedAgree
<1>6. DelayedAgree(w, {t}, T)
  <2>1. NoRepeat(w.delayed) /\ Ascending(w.delayed, w.delay)
    BY DEF Running, Whole, Lists, DelayedAgree
  <2>2. \A a \in Task : a \in Range(s.delayed) <=> Timed(s, T, a)
    BY DEF Running, Whole, Lists, DelayedAgree
  <2>3. ~ Timed(s, T, t)
    BY DEF Timed
  <2>4. \A a \in Task \ {t} : Timed(w, T, a) <=> Timed(s, T, a)
    BY <1>2 DEF Timed
  <2> QED BY <2>1, <2>2, <2>3, <2>4 DEF DelayedAgree
<1>7. /\ z \in Tables
      /\ DelayedAgree(z, {t} \ {t}, T)
      /\ Pending(w) => Pending(z)
      /\ SameRest(z, w)
      /\ z.state = w.state /\ z.flags = w.flags /\ z.objPtr = w.objPtr
      /\ z.priority = w.priority /\ z.waitValue = w.waitValue
      /\ z.waitingList = w.waitingList /\ z.suspended = w.suspended
      /\ z.ready = w.ready /\ z.prioGroup = w.prioGroup
  BY <1>6, AddToDelayedFacts
<1> HIDE DEF z
<1>8. Lists(z, {}, T)
  <2>1. {t} \ {t} = {}
    OBVIOUS
  <2>2. ReadyAgree(z, {})
    BY <1>4, <1>7 DEF ReadyAgree
  <2>3. WaitersAgree(z, {})
    BY <1>7 DEF WaitersAgree
  <2>4. SuspendedAgree(z, {})
    BY <1>5, <1>7 DEF SuspendedAgree
  <2> QED BY <1>7, <2>1, <2>2, <2>3, <2>4 DEF Lists
<1>9. SameObjects(z, s)
  BY <1>7 DEF SameRest, SameObjects
<1>10. Waits(z)
  <2> SUFFICES ASSUME NEW a \in Task
               PROVE  /\ z.state[a] = "mutexWait" =>
                            /\ z.objPtr[a] \in Mutex
                            /\ z.pOwner[z.objPtr[a]] \in Task \ {a}
                            /\ z.count[z.objPtr[a]] > 0
                      /\ z.state[a] = "semWait" => /\ z.objPtr[a] \in Sem
                                                  /\ z.objPtr[a] \in z.semUsed
                                                  /\ z.count[z.objPtr[a]] <= 0
                      /\ z.state[a] = "ioWait" => z.objPtr[a] \in Driver
    BY DEF Waits
  <2>1. CASE a = t
    BY <2>1, <1>3, <1>7, <1>9 DEF SameObjects
  <2>2. CASE a # t
    BY <2>2, <1>2, <1>7, <1>9 DEF SameObjects, Running, Whole, Waits
  <2> QED BY <2>1, <2>2
<1>11. Whole(z, T)
  BY <1>2, <1>1, <1>7, <1>8, <1>9, <1>10 DEF Whole, Running, SameObjects
<1>12. Running(u, T) /\ Keeps(u, z) /\ SameObjects(u, z) /\ SameTasks(u, z)
  BY <1>11, ScheduleRuns
<1> HIDE DEF u
<1>13. Slept(u, s, t, st)
  <2>1. u.state[t] = st
    BY <1>3, <1>7, <1>12 DEF SameTasks
  <2>2. \A a \in Task \ {t} : u.state[a] = s.state[a] /\ u.objPtr[a] = s.objPtr[a]
    BY <1>2, <1>7, <1>12 DEF SameTasks
  <2>3. SameObjects(u, s)
    BY <1>9, <1>12 DEF SameObjects
  <2>4. Pending(s) => Pending(u)
    BY <1>7, <1>12 DEF Pending, SameTasks
  <2> QED BY <2>1, <2>2, <2>3, <2>4 DEF Slept
<1>14. u.objPtr = w.objPtr /\ u.flags = w.flags
  BY <1>7, <1>12 DEF SameTasks
<1> QED BY <1>12, <1>13, <1>14 DEF u, z

(* The waiting list with one task more.                                    *)
LEMMA WaitingAgrees ==
  ASSUME NEW s, NEW w, WaitersAgree(s, {}), s \in Tables, NEW t \in Task,
         NEW x \in SyncObj, NEW l, s.state[t] \notin ListWait,
         w.state[t] \in ListWait, w.objPtr[t] = x,
         \A a \in Task \ {t} : w.state[a] = s.state[a] /\ w.objPtr[a] = s.objPtr[a],
         w.waitingList = [s.waitingList EXCEPT ![x] = l],
         NoRepeat(l), Range(l) = Range(s.waitingList[x]) \cup {t}
  PROVE  WaitersAgree(w, {})
<1>1. w.waitingList[x] = l /\ \A y \in SyncObj \ {x} : w.waitingList[y] = s.waitingList[y]
  BY DEF Tables
<1> SUFFICES ASSUME NEW y \in SyncObj
             PROVE  /\ NoRepeat(w.waitingList[y])
                    /\ \A a \in Task : a \in Range(w.waitingList[y])
                         <=> w.state[a] \in ListWait /\ w.objPtr[a] = y
  BY DEF WaitersAgree
<1>2. /\ NoRepeat(s.waitingList[y])
      /\ \A a \in Task : a \in Range(s.waitingList[y])
                           <=> s.state[a] \in ListWait /\ s.objPtr[a] = y
  BY DEF WaitersAgree
<1>3. CASE y = x
  BY <1>1, <1>2, <1>3
<1>4. CASE y # x
  BY <1>1, <1>2, <1>4
<1> QED BY <1>3, <1>4

(* A task that waits for nothing timed may start or end a call.            *)
LEMMA TimedChange ==
  ASSUME NEW s, NEW T, NEW U, Running(s, T),
         \A t \in Task : s.state[t] \in {"delayed", "ioWait"} => (t \in T <=> t \in U)
  PROVE  Running(s, U)
<1>1. DelayedAgree(s, {}, U)
  BY DEF Running, Whole, Lists, DelayedAgree, Timed
<1> QED BY <1>1 DEF Running, Whole, Lists

(* A task enters the waiting list l of x.                                  *)
LEMMA EnqueuedTyped ==
  ASSUME NEW v \in Tables, NEW t \in Task, NEW st \in State, NEW x \in SyncObj,
         NEW value \in [Task -> Prio], NEW c \in SUBSET Flag, NEW l \in Seq(Task)
  PROVE  [v EXCEPT !.state[t] = st, !.objPtr[t] = x, !.waitValue = value,
                   !.flags[t] = c, !.waitingList[x] = l] \in Tables
<1> DEFINE w1 == [v EXCEPT !.state[t] = st]
           w2 == [w1 EXCEPT !.objPtr[t] = x]
           w3 == [w2 EXCEPT !.waitValue = value]
           w4 == [w3 EXCEPT !.flags[t] = c]
           w5 == [w4 EXCEPT !.waitingList[x] = l]
           w  == [v EXCEPT !.state[t] = st, !.objPtr[t] = x, !.waitValue = value,
                           !.flags[t] = c, !.waitingList[x] = l]
<1>1. w = w5
  BY Zenon
<1>2. w1 \in Tables
  BY DEF Tables
<1> HIDE DEF w, w1
<1>3. w2 \in Tables
  BY <1>2 DEF Tables
<1> HIDE DEF w2
<1>4. w3 \in Tables
  BY <1>3 DEF Tables
<1> HIDE DEF w3
<1>5. w4 \in Tables
  BY <1>4 DEF Tables
<1> HIDE DEF w4
<1>6. w5 \in Tables
  BY <1>5 DEF Tables
<1> QED BY <1>1, <1>6 DEF w

(* A task that ran enters the waiting list l of x, with a time-out d.      *)
LEMMA EnqueueRuns ==
  ASSUME NEW s, NEW T, Running(s, T), NEW t \in Task \ {Idle}, s.state[t] = "ready",
         NEW st \in ListWait, NEW x \in SyncObj, NEW value \in [Task -> Prio],
         NEW c \in SUBSET Flag, NEW l \in Seq(Task), NoRepeat(l),
         Range(l) = Range(s.waitingList[x]) \cup {t},
         st = "mutexWait" => /\ x \in Mutex /\ s.pOwner[x] \in Task \ {t}
                             /\ s.count[x] > 0,
         st = "semWait" => x \in Sem /\ x \in s.semUsed /\ s.count[x] <= 0,
         st = "ioWait" => x \in Driver,
         NEW d \in 0 .. Infinite,
         d # 0 <=> (st = "ioWait" => t \in T)
  PROVE  LET u == Schedule(AddToDelayed(Enqueued(s, t, st, x, value, c, l), t, d))
         IN  /\ Running(u, T) /\ Slept(u, s, t, st)
             /\ u.objPtr = [s.objPtr EXCEPT ![t] = x]
             /\ u.flags = [s.flags EXCEPT ![t] = c]
<1> DEFINE v == RemoveReady(s, t)
           w == Enqueued(s, t, st, x, value, c, l)
           u == Schedule(AddToDelayed(w, t, d))
<1>0. w = [v EXCEPT !.state[t] = st, !.objPtr[t] = x, !.waitValue = value,
                    !.flags[t] = c, !.waitingList[x] = l]
  BY DEF Enqueued
<1> HIDE DEF w, u
<1>1. s \in Tables /\ Lists(s, {}, T) /\ WaitersAgree(s, {})
  BY DEF Running, Whole, Lists
<1>2. /\ Lists(v, {} \cup {t}, T)
      /\ SameRest(v, s)
      /\ v.state = s.state /\ v.flags = s.flags /\ v.objPtr = s.objPtr
      /\ v.priority = s.priority /\ v.waitValue = s.waitValue
      /\ v.waitingList = s.waitingList /\ v.suspended = s.suspended
      /\ v.delayed = s.delayed /\ v.delay = s.delay
  <2>1. t \in Task \ {}
    OBVIOUS
  <2> QED BY <1>1, <2>1, RemoveReadyLists
<1> HIDE DEF v
<1>3. v \in Tables /\ ReadyAgree(v, {t})
  <2>1. {} \cup {t} = {t}
    OBVIOUS
  <2> QED BY <1>2, <2>1 DEF Lists
<1>4. st \in State /\ st \notin {"ready", "suspended", "none"}
  BY DEF ListWait, State
<1>5. w \in Tables
  BY <1>0, <1>3, <1>4, EnqueuedTyped
<1>6. /\ w.state = [v.state EXCEPT ![t] = st]
      /\ w.objPtr = [v.objPtr EXCEPT ![t] = x]
      /\ w.flags = [v.flags EXCEPT ![t] = c]
      /\ w.waitingList = [v.waitingList EXCEPT ![x] = l]
      /\ w.ready = v.ready /\ w.prioGroup = v.prioGroup /\ w.priority = v.priority
      /\ w.suspended = v.suspended /\ w.delayed = v.delayed /\ w.delay = v.delay
      /\ SameObjects(w, v)
  BY <1>0 DEF SameObjects
<1>7. /\ w.state = [s.state EXCEPT ![t] = st] /\ SameObjects(w, s)
      /\ w.objPtr = [s.objPtr EXCEPT ![t] = x]
      /\ w.flags = [s.flags EXCEPT ![t] = c]
      /\ w.delayed = s.delayed /\ w.delay = s.delay /\ w.suspended = s.suspended
  BY <1>2, <1>6 DEF SameRest, SameObjects
<1>8. /\ w.state[t] = st /\ w.objPtr[t] = x
      /\ \A a \in Task \ {t} : w.state[a] = s.state[a] /\ w.objPtr[a] = s.objPtr[a]
  BY <1>1, <1>7 DEF Tables
<1>9. ReadyAgree(w, {t})
  <2>1. \A p \in Prio : w.ready[p] = v.ready[p]
    BY <1>6
  <2>2. \A a \in Task \ {t} : w.state[a] = v.state[a]
    BY <1>2, <1>8
  <2> QED BY <2>1, <2>2, <1>3, <1>6 DEF ReadyAgree
<1>10. WaitersAgree(w, {})
  <2>1. s.state[t] \notin ListWait
    BY DEF ListWait
  <2>2. w.waitingList = [s.waitingList EXCEPT ![x] = l]
    BY <1>2, <1>6
  <2> QED BY <2>1, <2>2, <1>1, <1>8, WaitingAgrees
<1>11. Timed(w, T, t) <=> d # 0
  BY <1>8 DEF Timed, ListWait
<1>12. /\ Running(u, T) /\ Slept(u, s, t, st)
       /\ u.objPtr = w.objPtr /\ u.flags = w.flags
  <2>2. /\ st = "mutexWait" => /\ w.objPtr[t] \in Mutex
                               /\ s.pOwner[w.objPtr[t]] \in Task \ {t}
                               /\ s.count[w.objPtr[t]] > 0
        /\ st = "semWait" => /\ w.objPtr[t] \in Sem
                             /\ w.objPtr[t] \in s.semUsed
                             /\ s.count[w.objPtr[t]] <= 0
        /\ st = "ioWait" => w.objPtr[t] \in Driver
    BY <1>8
  <2>3. st \in State \ {"ready", "suspended", "none"}
    BY <1>4
  <2>4. \A a \in Task \ {t} : w.objPtr[a] = s.objPtr[a]
    BY <1>8
  <2>5. u = Schedule(AddToDelayed(w, t, d))
    BY DEF u
  <2>6. /\ w.state = [s.state EXCEPT ![t] = st] /\ SameObjects(w, s)
        /\ w.delayed = s.delayed /\ w.delay = s.delay /\ w.suspended = s.suspended
    BY <1>7
  <2> QED BY <2>2, <2>3, <2>4, <2>5, <2>6, <1>5, <1>9, <1>10, <1>11, SleepRuns
<1>13. /\ Running(u, T) /\ Slept(u, s, t, st)
       /\ u.objPtr = [s.objPtr EXCEPT ![t] = x]
       /\ u.flags = [s.flags EXCEPT ![t] = c]
  BY <1>7, <1>12
<1> QED BY <1>13 DEF u, w

(* A task that ran sleeps in no waiting list.                              *)
LEMMA IdledRuns ==
  ASSUME NEW s, NEW T, Running(s, T), NEW t \in Task \ {Idle}, s.state[t] = "ready",
         NEW st \in {"delayed", "signalWait"}, NEW c \in SUBSET Flag,
         NEW d \in 0 .. Infinite, d # 0 <=> (st = "delayed" => t \in T)
  PROVE  LET u == Schedule(AddToDelayed(Idled(s, t, st, c), t, d))
         IN  /\ Running(u, T) /\ Slept(u, s, t, st)
             /\ u.objPtr = s.objPtr
             /\ u.flags = [s.flags EXCEPT ![t] = c]
<1> DEFINE v == RemoveReady(s, t)
           w == Idled(s, t, st, c)
           u == Schedule(AddToDelayed(w, t, d))
<1>0. w = [v EXCEPT !.state[t] = st, !.flags[t] = c]
  BY DEF Idled
<1> HIDE DEF w, u
<1>1. s \in Tables /\ Lists(s, {}, T) /\ WaitersAgree(s, {})
  BY DEF Running, Whole, Lists
<1>2. /\ Lists(v, {} \cup {t}, T)
      /\ SameRest(v, s)
      /\ v.state = s.state /\ v.flags = s.flags /\ v.objPtr = s.objPtr
      /\ v.priority = s.priority /\ v.waitValue = s.waitValue
      /\ v.waitingList = s.waitingList /\ v.suspended = s.suspended
      /\ v.delayed = s.delayed /\ v.delay = s.delay
  <2>1. t \in Task \ {}
    OBVIOUS
  <2> QED BY <1>1, <2>1, RemoveReadyLists
<1> HIDE DEF v
<1>3. v \in Tables /\ ReadyAgree(v, {t})
  <2>1. {} \cup {t} = {t}
    OBVIOUS
  <2> QED BY <1>2, <2>1 DEF Lists
<1>4. st \in State \ {"ready", "suspended", "none"} /\ st \notin ListWait
  BY DEF ListWait, State
<1>5. w \in Tables
  <2> DEFINE w1 == [v EXCEPT !.state[t] = st]
  <2>1. w = [w1 EXCEPT !.flags[t] = c]
    BY <1>0, Zenon
  <2>2. w1 \in Tables
    BY <1>3, <1>4 DEF Tables
  <2> HIDE DEF w1
  <2> QED BY <2>1, <2>2, FlagsTyped
<1>6. /\ w.state = [v.state EXCEPT ![t] = st]
      /\ w.objPtr = v.objPtr
      /\ w.flags = [v.flags EXCEPT ![t] = c]
      /\ w.waitingList = v.waitingList
      /\ w.ready = v.ready /\ w.prioGroup = v.prioGroup /\ w.priority = v.priority
      /\ w.suspended = v.suspended /\ w.delayed = v.delayed /\ w.delay = v.delay
      /\ SameObjects(w, v)
  BY <1>0 DEF SameObjects
<1>7. /\ w.state = [s.state EXCEPT ![t] = st] /\ SameObjects(w, s)
      /\ w.objPtr = s.objPtr
      /\ w.flags = [s.flags EXCEPT ![t] = c]
      /\ w.delayed = s.delayed /\ w.delay = s.delay /\ w.suspended = s.suspended
  BY <1>2, <1>6 DEF SameRest, SameObjects
<1>8. w.state[t] = st /\ \A a \in Task \ {t} : w.state[a] = s.state[a]
  BY <1>1, <1>7 DEF Tables
<1>9. ReadyAgree(w, {t})
  <2>1. \A p \in Prio : w.ready[p] = v.ready[p]
    BY <1>6
  <2>2. \A a \in Task \ {t} : w.state[a] = v.state[a]
    BY <1>2, <1>8
  <2> QED BY <2>1, <2>2, <1>3, <1>6 DEF ReadyAgree
<1>10. WaitersAgree(w, {})
  <2>1. s.state[t] \notin ListWait
    BY DEF ListWait
  <2>2. w.waitingList = s.waitingList
    BY <1>2, <1>6
  <2> QED BY <2>1, <2>2, <1>1, <1>4, <1>7, <1>8 DEF WaitersAgree
<1>11. Timed(w, T, t) <=> d # 0
  BY <1>8 DEF Timed
<1>12. /\ Running(u, T) /\ Slept(u, s, t, st)
       /\ u.objPtr = w.objPtr /\ u.flags = w.flags
  <2>1. st # "mutexWait" /\ st # "semWait" /\ st # "ioWait"
    OBVIOUS
  <2>2. u = Schedule(AddToDelayed(w, t, d))
    BY DEF u
  <2>3. /\ w.state = [s.state EXCEPT ![t] = st] /\ SameObjects(w, s)
        /\ w.delayed = s.delayed /\ w.delay = s.delay /\ w.suspended = s.suspended
        /\ \A a \in Task \ {t} : w.objPtr[a] = s.objPtr[a]
    BY <1>7
  <2> QED BY <2>1, <2>2, <2>3, <1>4, <1>5, <1>9, <1>10, <1>11, SleepRuns
<1>13. /\ Running(u, T) /\ Slept(u, s, t, st)
       /\ u.objPtr = s.objPtr
       /\ u.flags = [s.flags EXCEPT ![t] = c]
  BY <1>7, <1>12
<1> QED BY <1>13 DEF u, w

-----------------------------------------------------------------------------
(* What an operation does to the waits of the tasks.                       *)

(* A switch to another task, or a change of priorities.                    *)
LEMMA QuietSame ==
  ASSUME NEW s, NEW u, SameObjects(u, s), SameTasks(u, s)
  PROVE  Quiet(u, s)
BY DEF SameObjects, SameTasks, Quiet, SameHeld, SameWait

(* Two operations that end no wait.                                        *)
LEMMA QuietTransitive ==
  ASSUME NEW s, NEW w, NEW u, Quiet(w, s), Quiet(u, w)
  PROVE  Quiet(u, s)
<1>1. SameHeld(u, s)
  BY DEF Quiet, SameHeld
<1>2. ASSUME NEW t \in Task
      PROVE  SameWait(u, s, t)
  BY DEF Quiet, SameWait, Settled, ListWait
<1> QED BY <1>1, <1>2 DEF Quiet

(* The waits of all tasks go on, so do those of all but v.                 *)
LEMMA QuietMild ==
  ASSUME NEW s, NEW u, NEW v, Quiet(u, s)
  PROVE  Mild(u, s, v)
BY DEF Quiet, Mild

(* An operation that may end the wait of v, after or before one that ends  *)
(* none.                                                                   *)
LEMMA MildTransitive ==
  ASSUME NEW s, NEW w, NEW u, NEW v,
         \/ Quiet(w, s) /\ Mild(u, w, v)
         \/ Mild(w, s, v) /\ Quiet(u, w)
  PROVE  Mild(u, s, v)
<1>1. SameHeld(u, s)
  BY DEF Quiet, Mild, SameHeld
<1>2. ASSUME NEW t \in Task, Quiet(w, s), Mild(u, w, v)
      PROVE  SameWait(u, s, t) \/ (t = v /\ Leaves(u, s, v))
  <2>1. SameWait(w, s, t)
    BY <1>2 DEF Quiet
  <2>2. CASE SameWait(u, w, t)
    BY <2>1, <2>2 DEF SameWait, Settled, ListWait
  <2>3. CASE t = v /\ Leaves(u, w, v)
    BY <2>1, <2>3 DEF SameWait, Leaves, Settled
  <2> QED BY <1>2, <2>2, <2>3 DEF Mild
<1>3. ASSUME NEW t \in Task, Mild(w, s, v), Quiet(u, w)
      PROVE  SameWait(u, s, t) \/ (t = v /\ Leaves(u, s, v))
  <2>1. SameWait(u, w, t)
    BY <1>3 DEF Quiet
  <2>2. CASE SameWait(w, s, t)
    BY <2>1, <2>2 DEF SameWait, Settled, ListWait
  <2>3. CASE t = v /\ Leaves(w, s, v)
    BY <2>1, <2>3 DEF SameWait, Leaves, Settled, Causes
  <2> QED BY <1>3, <2>2, <2>3 DEF Mild
<1> QED BY <1>1, <1>2, <1>3 DEF Mild

(* The flag that defers a suspension says nothing about a wait.            *)
LEMMA SuspendFlagQuiet ==
  ASSUME NEW s, s \in Tables, NEW t \in Task, NEW c,
         c \ {"SUSPEND"} = s.flags[t] \ {"SUSPEND"}
  PROVE  Quiet([s EXCEPT !.flags[t] = c], s)
<1> DEFINE u == [s EXCEPT !.flags[t] = c]
<1>1. /\ SameHeld(u, s) /\ u.state = s.state /\ u.objPtr = s.objPtr
      /\ u.flags = [s.flags EXCEPT ![t] = c]
  BY DEF SameHeld
<1> HIDE DEF u
<1>2. \A a \in Task : u.flags[a] \ {"SUSPEND"} = s.flags[a] \ {"SUSPEND"}
  BY <1>1 DEF Tables
<1> QED BY <1>1, <1>2 DEF Quiet, SameWait, u

(* A task whose wait is over is told the cause told.                       *)
LEMMA WokenFacts ==
  ASSUME NEW s, NEW u, s \in Tables, NEW t \in Task, NEW told, Woken(u, s, t, told)
  PROVE  /\ SameHeld(u, s)
         /\ \A a \in Task \ {t} : SameWait(u, s, a)
         /\ u.state[t] \in Settled
         /\ u.flags[t] = (s.flags[t] \cup told) \ {"SUSPEND"}
<1>1. SameHeld(u, s)
  BY DEF Woken, SameRest, SameObjects, SameHeld
<1>2. \A a \in Task \ {t} : /\ u.state[a] = s.state[a] /\ u.flags[a] = s.flags[a]
                             /\ u.objPtr[a] = s.objPtr[a]
  BY DEF Woken, Tables
<1>3. u.state[t] \in Settled /\ u.flags[t] = (s.flags[t] \cup told) \ {"SUSPEND"}
  BY DEF Woken, Tables, Settled
<1> QED BY <1>1, <1>2, <1>3 DEF SameWait

(* A wait that is ended in vain.                                           *)
LEMMA WokenMild ==
  ASSUME NEW s, NEW u, s \in Tables, NEW t \in Task, NEW told, Woken(u, s, t, told),
         s.state[t] \notin Settled \cup {"none"},
         s.state[t] \in {"mutexWait", "semWait"} => "DELAYTMO" \in told
  PROVE  Mild(u, s, t)
<1>1. /\ SameHeld(u, s)
      /\ \A a \in Task \ {t} : SameWait(u, s, a)
      /\ u.state[t] \in Settled
      /\ u.flags[t] = (s.flags[t] \cup told) \ {"SUSPEND"}
  BY WokenFacts
<1>2. Leaves(u, s, t)
  <2>1. "DELAYTMO" \in told => "DELAYTMO" \in u.flags[t] /\ u.flags[t] \cap Causes # {}
    BY <1>1 DEF Causes
  <2> QED BY <1>1, <2>1 DEF Leaves
<1> QED BY <1>1, <1>2 DEF Mild
=============================================================================
