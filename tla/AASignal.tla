------------------------------ MODULE AASignal ------------------------------
(***************************************************************************)
(* Task signals (aatasksignal.c): bits sent to a task, waited for with OR  *)
(* or AND.  Send memorises the bits, pulse does not.                       *)
(***************************************************************************)
EXTENDS AASema

CONSTANT SignalSets   \* the sets of signals the calls are made with

ASSUME SignalAssumption == SignalSets \subseteq (SUBSET Signal) \ {{}}

(* What a wait for the bits w gets out of the bits r: with AND all or      *)
(* nothing.                                                                *)
Matched(w, r, and) == IF and /\ ~ (w \subseteq r) THEN {} ELSE w \cap r

Modes == {{}, {"SIGNALAND"}}

(* aaSignalWait: served from what is already there, then the wait.         *)
SignalAsked(t, w, mode) ==
  [k EXCEPT !.flags[t] = (@ \ {"SIGNALAND"}) \cup mode, !.sigsWait[t] = w]

(* Served at once, or EWOULDBLOCK without a time-out.                      *)
SignalTry(t, w, mode) ==
  /\ Runs(t)
  /\ k' = [SignalAsked(t, w, mode) EXCEPT
             !.sigsRecv[t] = @ \ Matched(w, @, mode # {})]
  /\ Stays

SignalWait(t, w, mode, d) ==
  LET u == [RemoveReady(SignalAsked(t, w, mode), t) EXCEPT
              !.state[t] = "signalWait", !.flags[t] = @ \ {"DELAYTMO"}]
  IN  /\ Runs(t)
      /\ Matched(w, k.sigsRecv[t], mode # {}) = {}
      /\ k' = Schedule(AddToDelayed(u, t, d))
      /\ Blocks(t, "signalWait", None)

(* The end of aaSignalWait: time-out, or the bits in objPtr.sigsWakeUp.    *)
SignalWaitEnd(t) ==
  /\ Resumes(t, "signalWait")
  /\ k' = [k EXCEPT !.flags[t] = @ \ {"DELAYTMO"}]
  /\ Returns(t)

(* Fault: the bits received before are not counted.                        *)
SignalledNewOnly(s, v, bits, pulse) ==
  LET got  == Matched(s.sigsWait[v], bits, "SIGNALAND" \in s.flags[v])
      kept == [s EXCEPT !.sigsRecv[v] = (@ \cup bits) \ pulse, !.sched = FALSE]
  IN  IF s.state[v] = "signalWait" /\ got # {}
      THEN PutInList(RemoveFromDelayed([kept EXCEPT !.sigsRecv[v] = @ \ got,
                                                    !.objPtr[v] = got], v), v)
      ELSE kept

(* aaSignalSendPulse_: pulse is {} for a send, the same bits for a pulse.  *)
Signalled(s, v, bits, pulse) ==
  LET all  == s.sigsRecv[v] \cup bits
      got  == Matched(s.sigsWait[v], all, "SIGNALAND" \in s.flags[v])
      kept == [s EXCEPT !.sigsRecv[v] = all \ pulse, !.sched = FALSE]
      used == [kept EXCEPT !.sigsRecv[v] = @ \ got, !.objPtr[v] = got]
  IN  IF s.state[v] = "signalWait" /\ got # {}
      THEN PutInList(RemoveFromDelayed(used, v), v)
      ELSE kept

Sends(v, bits, pulse) == /\ k.state[v] # "none" /\ v # Idle
                         /\ pulse \in {{}, bits}

SignalSend(t, v, bits, pulse) ==
  Runs(t) /\ Sends(v, bits, pulse) /\ CalledFromTask(Signalled(k, v, bits, pulse))

SignalSendFromIsr(v, bits, pulse) ==
  Sends(v, bits, pulse) /\ CalledFromIsr(Signalled(k, v, bits, pulse))

(* aaSignalClear                                                           *)
SignalClear(t, v, bits) ==
  /\ Runs(t) /\ k.state[v] # "none"
  /\ k' = [k EXCEPT !.sigsRecv[v] = @ \ bits]
  /\ Stays

SignalNext ==
  \/ \E t, v \in Task, bits \in SignalSets, mode \in Modes :
       \/ SignalTry(t, bits, mode)
       \/ \E d \in TakeDelays : SignalWait(t, bits, mode, d)
       \/ SignalSend(t, v, bits, {}) \/ SignalSend(t, v, bits, bits)
       \/ SignalSendFromIsr(v, bits, {}) \/ SignalSendFromIsr(v, bits, bits)
       \/ SignalClear(t, v, bits)
  \/ \E t \in Task : SignalWaitEnd(t)
=============================================================================
