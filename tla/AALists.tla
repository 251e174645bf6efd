------------------------------ MODULE AALists ------------------------------
(***************************************************************************)
(* The kernel's doubly linked lists (aalist.h, aalist.c) as sequences of   *)
(* tasks, head first, and the priority ordered insertion of aakernel.c.    *)
(* A node is identified with the task that owns it; its value field is a   *)
(* function of the task.                                                   *)
(***************************************************************************)
EXTENDS Integers, Sequences, Functions

SE == INSTANCE SequencesExt

(* The smallest element of a non-empty set of naturals.                    *)
Least(S) == CHOOSE i \in S : \A j \in S : i <= j

(* aaListAddAfter, with the new node landing at position i.                *)
InsertAt(list, i, t) == SE!InsertAt(list, i, t)

(* aaListRemove: unlink the node of t, nothing to do when it is not here.  *)
ListRemove(list, t) ==
  IF t \in Range(list)
  THEN SE!RemoveAt(list, Least({i \in DOMAIN list : list[i] = t}))
  ELSE list

(* aaListAddOrdered_: values decrease from the head; the new node goes     *)
(* before the first strictly smaller one, so behind its equals.            *)
AddOrdered(list, value, t) ==
  LET smaller == {i \in DOMAIN list : value[list[i]] < value[t]}
  IN  IF smaller = {} THEN Append(list, t)
                      ELSE InsertAt(list, Least(smaller), t)

(* A list without repeated nodes.                                          *)
NoRepeat(list) == \A i, j \in DOMAIN list : list[i] = list[j] => i = j

(* The order aaTick_ relies on when it looks at the head only.             *)
Ascending(list, v) == \A i, j \in DOMAIN list : i < j => v[list[i]] <= v[list[j]]
=============================================================================
