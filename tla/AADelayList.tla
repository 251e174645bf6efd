---------------------------- MODULE AADelayList ----------------------------
(***************************************************************************)
(* aaTaskDelayedList as aakernel.c keeps it: the value of a node is the    *)
(* ticks between the expiry of the node before and its own, AA_INFINITE    *)
(* for the tasks at the tail that wait for ever.                           *)
(***************************************************************************)
EXTENDS AADelays, TLC

CONSTANT Delays      \* the delays asked for

VARIABLES list,      \* aaTaskDelayedList
          value,     \* listNode.value of each task
          expiring   \* the tick handler is at work

vars == <<list, value, expiring>>

Init == /\ list = << >>
        /\ value = [t \in Task |-> 0]
        /\ expiring = FALSE

(* The walk of aaAddToDelayedList_: what is left of the delay when pNode   *)
(* is the node at place i, 0 being the head of the list, and where it ends.*)
Rest(d) == [i \in 0 .. Len(list) |-> LET before[j \in 0 .. i] ==
                                            IF j = 0 THEN d
                                            ELSE before[j-1] - value[list[j]]
                                      IN  before[i]]

Place(d) == LET stops == {i \in 0 .. Len(list) - 1 : Rest(d)[i] <= value[list[i+1]]}
            IN  IF stops = {} THEN Len(list) ELSE Least(stops)

AddFinite(t, d) ==
  LET i    == Place(d)
      rest == Rest(d)[i]
  IN  /\ list'  = InsertAt(list, i + 1, t)
      /\ value' = IF i < Len(list) /\ value[list[i+1]] # Infinite
                  THEN [value EXCEPT ![t] = rest, ![list[i+1]] = @ - rest]
                  ELSE [value EXCEPT ![t] = rest]

AddForever(t) == list' = Append(list, t) /\ value' = [value EXCEPT ![t] = Infinite]

(* aaAddToDelayedList_, for a delay that is not 0.                         *)
Add(t, d) ==
  /\ ~ expiring /\ t \notin Range(list) /\ d # 0
  /\ IF d = Infinite THEN AddForever(t) ELSE AddFinite(t, d)
  /\ UNCHANGED expiring

(* Fault: the next node does not get the difference.                       *)
UnlinkOnly(t) == list' = ListRemove(list, t) /\ UNCHANGED value

(* aaRemoveFromDelayedList_                                                *)
Unlink(t) ==
  LET i == CHOOSE j \in DOMAIN list : list[j] = t
  IN  /\ list'  = ListRemove(list, t)
      /\ value' = IF i < Len(list) /\ value[list[i+1]] # Infinite
                  THEN [value EXCEPT ![list[i+1]] = @ + value[t]]
                  ELSE value

Remove(t) == t \in Range(list) /\ Unlink(t) /\ UNCHANGED expiring

(* aaTick_: only the first node counts; then all that have come to 0 go.   *)
Tick ==
  /\ ~ expiring
  /\ value' = IF list # << >> /\ value[Head(list)] # Infinite
              THEN [value EXCEPT ![Head(list)] = @ - 1] ELSE value
  /\ expiring' = TRUE /\ UNCHANGED list

Expire == /\ expiring /\ list # << >> /\ value[Head(list)] = 0
          /\ Unlink(Head(list)) /\ UNCHANGED expiring

TickEnd == /\ expiring /\ (list # << >> => value[Head(list)] # 0)
           /\ expiring' = FALSE /\ UNCHANGED <<list, value>>

Next == \/ \E t \in Task : Remove(t) \/ \E d \in Delays : Add(t, d)
        \/ Tick \/ Expire \/ TickEnd

Spec == Init /\ [][Next]_vars

-----------------------------------------------------------------------------
(* The ticks left of the task at place i: the sum of the differences.      *)
Left == LET sum[i \in 0 .. Len(list)] ==
              IF i = 0 THEN 0
              ELSE IF value[list[i]] = Infinite THEN Infinite
              ELSE sum[i-1] + value[list[i]]
        IN  [t \in Task |-> IF t \in Range(list)
                            THEN sum[CHOOSE i \in DOMAIN list : list[i] = t] ELSE 0]

(* The differences mean what the kernel modules take them to mean: each    *)
(* task is woken after its own number of ticks, whatever is added or taken *)
(* out of the list before it, in the order of AADelayPromise.              *)
Promise == INSTANCE AADelayPromise WITH
             s <- [delayed |-> list, delay |-> Left], expiring <- expiring
KeepsPromise == Promise!Spec
=============================================================================
