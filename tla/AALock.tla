------------------------------- MODULE AALock -------------------------------
(***************************************************************************)
(* What the mutexes of the kernel promise, without their lists, priorities *)
(* and time-outs: one owner at a time; only the running task takes, waits  *)
(* and gives; a mutex that is given while tasks wait goes straight to one  *)
(* of them, so nobody barges in.                                           *)
(***************************************************************************)
CONSTANTS Task, Mutex, None

VARIABLES
  owner,     \* [Mutex -> Task \cup {None}]
  waiting,   \* [Mutex -> SUBSET Task]
  running    \* the task that runs

vars == <<owner, waiting, running>>

Init == /\ owner = [m \in Mutex |-> None]
        /\ waiting = [m \in Mutex |-> {}]
        /\ running \in Task

Take(m) == /\ owner[m] = None /\ waiting[m] = {}
           /\ owner' = [owner EXCEPT ![m] = running]
           /\ UNCHANGED <<waiting, running>>

Wait(m) == /\ owner[m] \notin {None, running}
           /\ \A n \in Mutex : running \notin waiting[n]
           /\ waiting' = [waiting EXCEPT ![m] = @ \cup {running}]
           /\ running' \in Task \ {running}
           /\ UNCHANGED owner

(* A waiter that is no longer willing to wait: time-out, deletion.         *)
GiveUp(t, m) == /\ t \in waiting[m]
                /\ waiting' = [waiting EXCEPT ![m] = @ \ {t}]
                /\ running' \in Task
                /\ UNCHANGED owner

Give(m) == /\ owner[m] = running /\ waiting[m] = {}
           /\ owner' = [owner EXCEPT ![m] = None]
           /\ running' \in Task
           /\ UNCHANGED waiting

HandOver(m, u) == /\ owner[m] = running /\ u \in waiting[m]
                  /\ owner' = [owner EXCEPT ![m] = u]
                  /\ waiting' = [waiting EXCEPT ![m] = @ \ {u}]
                  /\ running' \in Task

Switch == running' \in Task /\ UNCHANGED <<owner, waiting>>

Next == \/ \E m \in Mutex : Take(m) \/ Wait(m) \/ Give(m)
        \/ \E m \in Mutex, t \in Task : GiveUp(t, m) \/ HandOver(m, t)
        \/ Switch

Spec == Init /\ [][Next]_vars
=============================================================================
