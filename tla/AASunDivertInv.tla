--------------------------- MODULE AASunDivertInv ---------------------------
(***************************************************************************)
(* Inductive invariants of AASunDivert, for a device whose forcings are    *)
(* all configured, and whose rules the main task alone replaces; those of  *)
(* the outputs and the delays also suppose that no rule in AUTO mode has a *)
(* burst (cfgParameters.h:246 calls them exclusive).                       *)
(***************************************************************************)
EXTENDS AASunDivert

Configured == /\ \A f \in Forcing : Stored[f] \in Rules
              /\ "default" \notin Calls /\ "webRule" \notin Calls

Runs(f) == Is(force[f], "RUNNING")
On(f)   == force[f].rule.channel
InPass  == pc \in {"stop", "start", "divert", "switch", "preempt", "begin"}

-----------------------------------------------------------------------------
(* What is registered, and what is being worked out.                       *)

AllValid == web = NoCall /\ \A f \in Forcing : Is(force[f], "VALID")

(* Before forcings are stopped and started, dfStatus is exact.             *)
DfExact ==
  pc \notin {"preempt", "begin"} =>
    \A f \in Forcing, c \in Channel : dfStatus[c] = f <=> Runs(f) /\ On(f) = c

(* tempStatus gives a channel to a forcing of that channel only.           *)
TempOfChannel == InPass => \A c \in Channel : Forced(tempStatus[c]) => On(tempStatus[c]) = c

(* It is dfStatus at first, and then only forcings of higher priority.     *)
TempPrevails ==
  \A c \in Channel :
    /\ pc = "stop" => tempStatus[c] = dfStatus[c]
    /\ pc \in {"start", "divert", "switch", "preempt"} /\ Forced(dfStatus[c]) =>
         tempStatus[c] <= dfStatus[c]

(* The channels already visited: only the chosen forcing still runs.       *)
Displaced ==
  pc = "preempt" => \A f \in Forcing : Runs(f) =>
    dfStatus[On(f)] = f /\ (On(f) < ix => tempStatus[On(f)] = f)

(* The channels already visited: the chosen forcing runs.                  *)
Chosen ==
  pc = "begin" =>
    /\ \A f \in Forcing : Runs(f) => tempStatus[On(f)] = f
    /\ \A c \in Channel : Forced(tempStatus[c]) /\ c < ix => Runs(tempStatus[c])

RegInv == AllValid /\ DfExact /\ TempOfChannel /\ TempPrevails /\ Displaced /\ Chosen

-----------------------------------------------------------------------------
(* What the meter task diverts to, or is asked to divert to.               *)

IndexIsChannel == diverterChannel # SwitchNone => diverterIndex = diverterChannel - 1

OnlyOneDiverts == \A c \in Channel : out[c] = "div" => c \in Ssr /\ diverterChannel = SwitchTo(c)

(* Never where a forcing runs, nor where one is about to be started.       *)
NotWhereRuns ==
  \A f \in Forcing : Runs(f) => /\ diverterChannel # SwitchTo(On(f)) \/ On(f) \notin Ssr
                                /\ diverterSwitch  # SwitchTo(On(f)) \/ On(f) \notin Ssr

NotWhereChosen ==
  \A c \in Ssr : Forced(tempStatus[c]) =>
    /\ pc \in {"switch", "preempt", "begin"} => diverterSwitch # SwitchTo(c)
    /\ pc \in {"switch", "preempt", "begin"} /\ diverterSwitch = SwitchIdle =>
         diverterChannel # SwitchTo(c)

NoneAsked == pc \notin {"switch", "cfgSwitch"} => diverterSwitch = SwitchIdle

MeterInv == IndexIsChannel /\ OnlyOneDiverts /\ NotWhereRuns /\ NotWhereChosen /\ NoneAsked

-----------------------------------------------------------------------------
(* The start rules checked so far have been heeded; the others not checked.*)
StartsHeeded ==
  \A f \in Forcing : Is(force[f], "START_RULE") =>
    /\ pc # "stop" /\ (pc = "start" => f < ix)
    /\ pc \in {"start", "divert", "switch", "preempt", "begin"} => tempStatus[On(f)] <= f

-----------------------------------------------------------------------------
(* The outputs.                                                            *)

UserRules == Rules \cup {Stored[f] : f \in Forcing}
Exclusive == \A r \in UserRules : r.burst => r.mode = "std"

(* Only the automaton of a forcing that runs is not at rest.               *)
Fit(F) == /\ F.rule.burst => IsStd(F)
          /\ F.autoState # "IDLE" => Is(F, "RUNNING") /\ IsAuto(F)
AllFit == \A f \in Forcing : Fit(force[f])

(* What is on is driven, and a relay that is driven is on: at any time.    *)
OnIsDriven ==
  \A c \in Channel : out[c] = "on" => \E f \in Forcing : Runs(f) /\ On(f) = c /\ Driving(force[f])
DrivenIsOn ==
  \A f \in Forcing : Runs(f) /\ On(f) \notin Ssr /\ Driving(force[f]) => out[On(f)] = "on"

OutInv == AllFit /\ OnIsDriven /\ DrivenIsOn

-----------------------------------------------------------------------------
(* The delays of the rules, when age counts far enough.                    *)

LongAge == \A r \in UserRules : /\ r.delay <= AgeMax
                                /\ r.autoOn <= AgeMax /\ r.autoOff <= AgeMax /\ r.autoKf <= AgeMax

(* Its stop rule has yet to be checked in this second, or its start.       *)
StopPending(f)  == pc = "stop" /\ ix <= On(f)
BeginPending(f) == InPass /\ (pc = "begin" => ix <= On(f))

(* DMIN and DMAX: the age a and what is left of the delay.                 *)
Limited(F, a, e) ==
  Is(F, "RUNNING") /\ IsStd(F) =>
    /\ F.rule.limit = "dmax" /\ F.rule.delay # 0 =>
         F.delayCount # 0 /\ a + F.delayCount <= F.rule.delay + e
    /\ F.rule.limit = "dmin" =>
         a >= F.rule.delay \/ (F.delayCount # 0 /\ a + F.delayCount >= F.rule.delay + e)

(* AUTO: the age and what is left of the minimum time, and of the filter.  *)
Cycled(F, a, e) ==
  Is(F, "RUNNING") /\ IsAuto(F) =>
    /\ F.kfCounter + a + e >= F.rule.autoKf
    /\ F.autoState = "MIN_ON"  => F.counter + a + e >= F.rule.autoOn
    /\ F.autoState = "ON"      => a + e >= F.rule.autoOn
    /\ F.autoState = "MIN_OFF" => F.counter + a + e >= F.rule.autoOff
    /\ F.autoState = "OFF"     => a + e >= F.rule.autoOff

DelaysCount ==
  \A f \in Forcing : /\ Limited(force[f], age[f], IF StopPending(f) THEN 1 ELSE 0)
                     /\ Cycled(force[f], age[f], IF BeginPending(f) THEN 0 ELSE 1)

(* What has a channel in this second runs already, or its start rule is    *)
(* true.                                                                   *)
StartsTrue ==
  InPass => \A c \in Channel :
    /\ Forced(tempStatus[c]) => Runs(tempStatus[c]) \/ Is(force[tempStatus[c]], "START_RULE")
    /\ Forced(dfStatus[c]) => On(dfStatus[c]) = c

(* The rules are those in flash, or the users'.                            *)
RulesKnown == \A f \in Forcing : force[f].rule \in UserRules

DelayInv == RulesKnown /\ StartsTrue /\ DelaysCount
=============================================================================
