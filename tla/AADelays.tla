------------------------------ MODULE AADelays ------------------------------
(***************************************************************************)
(* The list of the delayed tasks (aakernel.c) as the kernel modules use    *)
(* it: a record s with s.delayed, the tasks in the order of the list, and  *)
(* s.delay, the ticks each has left.  The code keeps in each node the      *)
(* difference to the node before; AADelayList shows that this comes to the *)
(* same.                                                                   *)
(***************************************************************************)
EXTENDS AALists

CONSTANTS
  Task,          \* aaTcbArray: the task control blocks
  Infinite       \* AA_INFINITE, above every finite delay

ASSUME DelayAssumption == Infinite \in Nat \ {0}

(* Fault: one tick too many.                                               *)
AddToDelayedLate(s, t, d) == [s EXCEPT !.delay[t] = d + 1, !.delayed = Append(@, t)]

(* aaAddToDelayedList_: an infinite delay goes to the tail, a finite one   *)
(* before the first task that expires at the same tick or later.           *)
AddToDelayed(s, t, d) ==
  LET notBefore == {i \in DOMAIN s.delayed : d <= s.delay[s.delayed[i]]}
  IN  IF d = 0 THEN s
      ELSE [s EXCEPT !.delay[t] = d,
                     !.delayed = IF d = Infinite \/ notBefore = {}
                                 THEN Append(@, t)
                                 ELSE InsertAt(@, Least(notBefore), t)]

RemoveFromDelayed(s, t) ==
  [s EXCEPT !.delayed = ListRemove(@, t), !.delay[t] = 0]

(* aaTick_: one tick less for every finite delay.                          *)
Expired(s) == s.delayed # << >> /\ s.delay[Head(s.delayed)] = 0

(* Fault: the last tick is not counted.                                    *)
CountDownToOne(s) ==
  [s EXCEPT !.delay = [t \in Task |->
     IF t \in Range(s.delayed) /\ @[t] \in 2 .. Infinite - 1 THEN @[t] - 1 ELSE @[t]]]

CountDown(s) ==
  [s EXCEPT !.delay = [t \in Task |->
     IF t \in Range(s.delayed) /\ @[t] # Infinite THEN @[t] - 1 ELSE @[t]]]
=============================================================================
