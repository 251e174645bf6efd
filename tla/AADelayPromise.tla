--------------------------- MODULE AADelayPromise ---------------------------
(***************************************************************************)
(* The list of the delayed tasks as AAKernel takes it to be: every task    *)
(* has its own count of the ticks that are left.                           *)
(***************************************************************************)
EXTENDS AADelays

CONSTANT Delays      \* the delays asked for

VARIABLES s,         \* [delayed, delay], see AADelays
          expiring   \* the tick handler is at work

vars == <<s, expiring>>

Init == /\ s = [delayed |-> << >>, delay |-> [t \in Task |-> 0]]
        /\ expiring = FALSE

(* By a task.                                                              *)
Add(t, d) == /\ ~ expiring /\ t \notin Range(s.delayed)
             /\ s' = AddToDelayed(s, t, d)
             /\ UNCHANGED expiring

(* By a task, a handler, or the tick handler for the task it has not yet   *)
(* come to.                                                                *)
Remove(t) == /\ t \in Range(s.delayed)
             /\ s' = RemoveFromDelayed(s, t)
             /\ UNCHANGED expiring

Tick == /\ ~ expiring
        /\ s' = CountDown(s) /\ expiring' = TRUE

Expire == /\ expiring /\ Expired(s)
          /\ s' = RemoveFromDelayed(s, Head(s.delayed))
          /\ UNCHANGED expiring

TickEnd == /\ expiring /\ ~ Expired(s)
           /\ expiring' = FALSE /\ UNCHANGED s

Next == \/ \E t \in Task : Remove(t) \/ \E d \in Delays : Add(t, d)
        \/ Tick \/ Expire \/ TickEnd

Spec == Init /\ [][Next]_vars
=============================================================================
