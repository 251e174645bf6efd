------------------------------- MODULE MCRtk -------------------------------
(***************************************************************************)
(* Small kernels for TLC: an idle task and up to three other tasks.        *)
(***************************************************************************)
EXTENDS AARtkProps

CONSTANTS idle, lo, mid, hi, m1, m2, s1, d1, sigA, sigB

MCTask  == {idle, lo, mid, hi}
MCPair  == {idle, lo, hi}          \* for the services with a larger state
MCEqual == {idle, lo, mid}         \* two tasks of the same priority, under Equals

(* Distinct priorities, and two tasks of the same one.                     *)
Ladder == [t \in Task |-> CASE t = idle -> 0 [] t = lo -> 1
                            [] t = mid -> 2 [] t = hi -> 3]
Equals == [t \in Task |-> CASE t = idle -> 0 [] t \in {lo, mid} -> 1
                            [] t = hi -> 2]
NoCount == [x \in Sem |-> 0]
MCCounts == {-1, 1}
=============================================================================
