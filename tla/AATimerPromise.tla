--------------------------- MODULE AATimerPromise ---------------------------
(***************************************************************************)
(* What the software timers promise: a timer that is started calls back    *)
(* once, that many ticks later, unless it is stopped or started again.     *)
(***************************************************************************)
EXTENDS Integers

CONSTANTS Timer, Timeouts

VARIABLE left      \* per timer: ticks left, 0 when its call back is due, -1: stopped

Due == {t \in Timer : left[t] = 0}

Init == left = [t \in Timer |-> -1]

Start(t) == \E d \in Timeouts : left' = [left EXCEPT ![t] = d]
Stop(t)  == left' = [left EXCEPT ![t] = -1]

Tick == /\ Due = {}
        /\ left' = [t \in Timer |-> IF left[t] = -1 THEN -1 ELSE left[t] - 1]

Fire(t) == t \in Due /\ left' = [left EXCEPT ![t] = -1]

Next == Tick \/ \E t \in Timer : Start(t) \/ Stop(t) \/ Fire(t)

(* No timer that is due is still so when the next tick comes.              *)
Spec == Init /\ [][Next]_left
=============================================================================
