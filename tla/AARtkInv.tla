------------------------------ MODULE AARtkInv ------------------------------
(***************************************************************************)
(* The inductive invariant of the kernel: what every critical section      *)
(* finds and leaves.                                                       *)
(***************************************************************************)
EXTENDS AARtkProps, AAKernelInv

(* The tasks whose delay or I/O wait has a time-out.                       *)
TimedCalls(p) == {t \in Task : p[t] \in {"delay", "ioWait"}}

(* A task that has taken a TCB out of the lists and not put it back.       *)
Making == {"create", "delete", "reap"}
Busy(s, p, t) == s.state[t] # "none" /\ p[t] \in Making

(* The TCBs that are not in use: free, zombies, or taken by one task.      *)
Tcbs(s, p, a) ==
  /\ \A t \in s.freeTcb : s.state[t] = "none" /\ t \notin Range(s.zombies)
  /\ \A t \in Range(s.zombies) : s.state[t] = "none"
  /\ NoRepeat(s.zombies)
  /\ \A t \in Task : Busy(s, p, t) =>
       /\ a[t] \in Task /\ s.state[a[t]] = "none"
       /\ a[t] \notin s.freeTcb /\ a[t] \notin Range(s.zombies)
       /\ \A u \in Task : Busy(s, p, u) /\ a[u] = a[t] => u = t
       /\ p[t] = "create" => p[a[t]] = "run"

(* The flush that aaSemDelete begins with leaves no waiter.                *)
Deletes(s, p, a, f) ==
  \A t \in Task : p[t] = "semDelete" =>
    /\ a[t] \in Sem
    /\ f = a[t] \/ \A u \in Task : s.state[u] = "semWait" => s.objPtr[u] # a[t]

(* Signals are sent to v, which waits no more if it gets what it waits for.*)
SentTo(u, s, v, bits) ==
  /\ u.mutexList = s.mutexList /\ u.pOwner = s.pOwner /\ u.count = s.count
  /\ u.sigsWait = s.sigsWait
  /\ \A a \in Task \ {v} : SameWait(u, s, a) /\ u.sigsRecv[a] = s.sigsRecv[a]
  /\ \/ s.state[v] = "signalWait" /\ u.state[v] \in Settled
     \/ /\ SameWait(u, s, v) /\ u.sigsRecv[v] \subseteq s.sigsRecv[v] \cup bits
        /\ s.state[v] = "signalWait" =>
             Matched(s.sigsWait[v], s.sigsRecv[v] \cup bits, "SIGNALAND" \in s.flags[v]) = {}

(* The blocking calls the tasks are in.                                    *)
CallsTyped == /\ pc \in [Task -> Call]
              /\ arg \in [Task -> SyncObj \cup Task \cup {None}]
              /\ isr \in {"none", "tick", "other"}
              /\ flushing \in Sem \cup {None}
              /\ \A t \in Task : pc[t] = "mutexTake" => arg[t] \in Mutex

(* The inductive invariant.  isr # "tick" => Pending: every delay that is  *)
(* over has been seen before the tick handler ends.                        *)
IInv == /\ CallsTyped
        /\ Running(k, TimedCalls(pc))
        /\ isr # "tick" => Pending(k)
        /\ Tcbs(k, pc, arg)
        /\ Deletes(k, pc, arg, flushing)

(* No mutex lends a priority: every task has the one it was given.         *)
NoneLent == \A t \in Task : k.priority[t] = k.basePriority[t]

(* No ready task outranks the task that runs.                              *)
Foremost(s) == \A t \in Task : s.state[t] = "ready" => s.priority[t] <= s.priority[s.cur]

(* A service has made tasks ready, and asks for the switch to each of them *)
(* that outranks the task that runs.                                       *)
Asks(u, s) ==
  /\ u.cur = s.cur /\ u.basePriority = s.basePriority
  /\ \A t \in Task : s.state[t] # "ready" => Asked(u, t)

(* Only handlers flush semaphores.                                         *)
HandlersFlush == flushing # None => isr # "none"
=============================================================================
