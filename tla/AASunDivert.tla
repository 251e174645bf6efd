---------------------------- MODULE AASunDivert ----------------------------
(***************************************************************************)
(* Diverting and forcing.  The main task runs diverterNext once a second:  *)
(* it checks the rules of the forcings, chooses the channel to divert to,  *)
(* and drives the outputs.  The meter task, of the highest priority, runs  *)
(* divProcessing each half period of the mains: it modulates the SSR that  *)
(* diverts.  The main task asks it to change channel by diverterSwitch and *)
(* waits for the answer, and anyone asks it to toggle diverting by         *)
(* bDiverterSet.  The web server, of a priority below that of the main     *)
(* task, runs while the main task waits.  Whether the expressions of a     *)
(* rule are true is chosen anew at each check.                             *)
(***************************************************************************)
EXTENDS Integers

CONSTANTS
  ForceMax,     \* FORCE_MAX, the number of forcings
  ChanMax,      \* FORCE_CHAN_MAX, the number of outputs: two SSR and the relays
  Period,       \* FORCE_BURST_PERIOD
  Wrap,         \* counters are unsigned: 2^16 in the code
  Rules,        \* the rules the user sets
  Stored,       \* per forcing: the rule in the configuration in flash, or NoRule
  Calls,        \* the calls the users make, of Call
  AgeMax        \* bound of age

Forcing == 0 .. ForceMax - 1     \* the index of a forcing is its priority
Channel == 0 .. ChanMax - 1
Ssr     == {0, 1}

(* What an output is used for (dfStatus).  A lower value prevails.         *)
Diverting == ForceMax            \* DF_TYPE_DIV
Empty     == ForceMax + 1        \* DF_EMPTY
Usage     == Forcing \cup {Diverting, Empty}

(* DIV_SWITCH_IDLE, _CHAN1, _CHAN2, _NONE                                  *)
SwitchIdle  == 0
SwitchTo(c) == c + 1
SwitchNone  == 3

Counter == 0 .. Wrap - 1
Status  == {"VALID", "RUNNING", "DMAX_WAITING", "BURST_ON",
            "START_RULE", "STOP_RULE", "MANUAL_ORDER"}
Call    == {"setRule", "enable", "manual", "readCfg", "default",
            "toggle", "ask", "webRule", "webAsk"}
Client  == {"console", "web"}

Rule == [channel : Channel, mode : {"none", "std", "auto"},
         limit : {"none", "dmin", "dmax"}, delay : Counter,
         burst : BOOLEAN, ratio : 0 .. Period,
         autoOn : Counter, autoOff : Counter, autoKf : Counter]

(* The zeros of the default configuration: not a valid forcing.            *)
NoRule == [channel |-> 0, mode |-> "none", limit |-> "none", delay |-> 0,
           burst |-> FALSE, ratio |-> 0, autoOn |-> 0, autoOff |-> 0, autoKf |-> 0]

ASSUME DivertAssumption ==
  /\ ForceMax \in Nat \ {0} /\ ChanMax \in Nat /\ ChanMax >= 2
  /\ Period \in Nat /\ Wrap \in Nat /\ Wrap > Period /\ AgeMax \in Nat
  /\ Rules \subseteq {r \in Rule : r.mode # "none"}
  /\ Stored \in [Forcing -> Rules \cup {NoRule}]
  /\ Calls \subseteq Call

VARIABLES
  force,            \* aaSunCfg.forceRules
  dfStatus,         \* per channel: what it is used for
  tempStatus,       \* the dfStatus diverterNext is working out
  pc, ix,           \* main task: the part of diverterNext, or the call, and its loop
  out,              \* per channel: off, on (forced), or modulated by the meter task
  enabled,          \* STSW_DIV_ENABLED
  bDiverterSet, diverterSwitch, diverterChannel, diverterIndex,
  asked,            \* per client: the state of diverting it has asked for, and tested
  web,              \* the forcing the web server has invalidated, to set a new rule
  age               \* per forcing: seconds since it last switched its output

forcing   == <<force, dfStatus, tempStatus, age>>
handshake == <<enabled, bDiverterSet, diverterSwitch, diverterChannel, diverterIndex>>
vars      == <<forcing, pc, ix, out, handshake, asked, web>>

AutoState == {"IDLE", "MIN_ON", "ON", "MIN_OFF", "OFF"}     \* forceAutoState_t
ForceRule == [rule : Rule, on : BOOLEAN, status : SUBSET Status, autoState : AutoState,
              delayCount : Counter, counter : Counter, kfCounter : Counter]

NoCall == [index |-> ForceMax, rule |-> NoRule]

(***************************************************************************)
(* One forcing.                                                            *)
(***************************************************************************)

Is(F, s)  == s \in F.status
IsStd(F)  == F.rule.mode = "std"
IsAuto(F) == F.rule.mode = "auto"
Forced(u)  == u \in Forcing
Decr(n)   == IF n = 0 THEN Wrap - 1 ELSE n - 1

(* A forcing as compiled, or as read and initialised (forceInit).          *)
Fresh(r) == [rule |-> r, on |-> r.mode # "none",
             status |-> IF r.mode = "none" THEN {} ELSE {"VALID"},
             autoState |-> "IDLE", delayCount |-> 0, counter |-> 0, kfCounter |-> 0]

(* forceStop: the fields.  The output goes off if F was running.           *)
Stopped(F) ==
  IF ~ Is(F, "RUNNING") THEN F
  ELSE IF IsAuto(F) THEN [F EXCEPT !.autoState = "IDLE", !.status = @ \ {"RUNNING"}]
  ELSE [F EXCEPT !.status = (@ \ {"RUNNING"}) \cup
                            (IF F.rule.limit = "dmax" THEN {"DMAX_WAITING"} ELSE {})]
StopIoNot(F, o) == o     \* mutant: the output is left as it is
StopIo(F, o) == IF Is(F, "RUNNING") THEN "off" ELSE o

(* forceStart and forceAutoStart.                                          *)
AutoStarted(F) ==
  IF F.autoState # "IDLE" THEN F
  ELSE IF Is(F, "START_RULE")
  THEN [F EXCEPT !.autoState = "MIN_ON", !.counter = F.rule.autoOn, !.kfCounter = F.rule.autoKf]
  ELSE [F EXCEPT !.autoState = "OFF", !.kfCounter = F.rule.autoKf]
StdStarted(F) ==
  [F EXCEPT !.delayCount = F.rule.delay,
            !.counter = IF F.rule.burst THEN F.rule.ratio ELSE @,
            !.status = IF F.rule.burst THEN @ \cup {"BURST_ON"} ELSE @]
Started(F) ==
  IF Is(F, "RUNNING") THEN F
  ELSE [(IF IsAuto(F) THEN AutoStarted(F) ELSE StdStarted(F))
          EXCEPT !.status = @ \cup {"RUNNING"}]
StartIo(F, o) ==
  IF ~ Is(F, "RUNNING") /\ (IsAuto(F) => F.autoState = "IDLE" /\ Is(F, "START_RULE"))
  THEN "on" ELSE o

(* kfCount: how long the rule must be true, true and false times set off.  *)
KfCount(F, s) ==
  IF Is(F, s) THEN IF F.kfCounter # 0 THEN F.kfCounter - 1 ELSE 0
  ELSE IF F.kfCounter < F.rule.autoKf THEN F.kfCounter + 1 ELSE F.kfCounter

(* forceAutoNext.                                                          *)
GoesOffAtOnce(F) == F.autoState = "ON"     \* mutant: no filter
GoesOff(F) == F.autoState = "ON"  /\ KfCount(F, "STOP_RULE") = 0
GoesOn(F)  == F.autoState = "OFF" /\ KfCount(F, "START_RULE") = 0
Awaited(F) == IF F.autoState \in {"MIN_ON", "ON"} THEN "STOP_RULE" ELSE "START_RULE"
AutoNext(F) ==
  LET waits == F.autoState \in {"MIN_ON", "MIN_OFF"}
  IN IF F.autoState = "IDLE" THEN F
     ELSE IF GoesOff(F)
     THEN [F EXCEPT !.autoState = "MIN_OFF", !.counter = F.rule.autoOff, !.kfCounter = F.rule.autoKf]
     ELSE IF GoesOn(F)
     THEN [F EXCEPT !.autoState = "MIN_ON", !.counter = F.rule.autoOn, !.kfCounter = F.rule.autoKf]
     ELSE [F EXCEPT !.kfCounter = KfCount(F, Awaited(F)),
                    !.counter = IF waits THEN Decr(@) ELSE @,
                    !.autoState = IF waits /\ F.counter = 1
                                  THEN IF @ = "MIN_ON" THEN "ON" ELSE "OFF" ELSE @]
NextIo(F, o) == IF GoesOff(F) THEN "off" ELSE IF GoesOn(F) THEN "on" ELSE o

(* forceRuleCheck_ for the stop rule: DMIN and DMAX come first, then the   *)
(* phases of the burst, then the expressions, e.                           *)
Counting(F) == F.rule.limit # "none" /\ F.delayCount # 0
DmaxOverLate(F) == Counting(F) /\ F.delayCount = 0 /\ F.rule.limit = "dmax"   \* mutant
DmaxOver(F) == Counting(F) /\ F.delayCount = 1 /\ F.rule.limit = "dmax"
TooEarlyMax(F) == Counting(F) /\ F.delayCount # 1 /\ F.rule.limit = "dmax"   \* mutant
TooEarly(F) == Counting(F) /\ F.delayCount # 1 /\ F.rule.limit = "dmin"
Bursts(F)   == F.rule.burst /\ ~ DmaxOver(F) /\ ~ TooEarly(F)
PhaseEnds(F) == Bursts(F) /\ F.counter = 1 /\ ~ (Is(F, "BURST_ON") /\ F.rule.ratio = Period)
StopExpr(F, e) == Is(F, "VALID") /\ (DmaxOver(F) \/ (~ TooEarly(F) /\ e))
Second(F) ==
  IF ~ Is(F, "VALID") THEN F
  ELSE [F EXCEPT
    !.delayCount = IF Counting(F) THEN @ - 1 ELSE @,
    !.counter = IF ~ Bursts(F) THEN @
                ELSE IF @ # 1 THEN Decr(@)
                ELSE IF PhaseEnds(F) /\ Is(F, "BURST_ON") THEN Period - F.rule.ratio
                ELSE F.rule.ratio,
    !.status = IF ~ PhaseEnds(F) THEN @
               ELSE IF Is(F, "BURST_ON") THEN @ \ {"BURST_ON"} ELSE @ \cup {"BURST_ON"}]
SecondIoOff(F, o) == IF Is(F, "VALID") /\ PhaseEnds(F) THEN "off" ELSE o   \* mutant
SecondIo(F, o) == IF ~ Is(F, "VALID") \/ ~ PhaseEnds(F) THEN o
                  ELSE IF Is(F, "BURST_ON") THEN "off" ELSE "on"

(* forceRemove: stopped, and no longer registered, if it is running.       *)
RemovedFromNot(df, f) == df     \* mutant: still registered
RemovedFrom(df, f) ==
  [c \in Channel |-> IF Is(force[f], "RUNNING") /\ df[c] = f THEN Empty ELSE df[c]]

-----------------------------------------------------------------------------
(***************************************************************************)
(* The main task: diverterNext.  One step per iteration of each loop.      *)
(***************************************************************************)

(* What the expressions of a rule, all of which must hold, may come to.    *)
RuleResults == BOOLEAN

Loop(last, next) ==
  IF ix = last THEN pc' = next /\ ix' = 0 ELSE pc' = pc /\ ix' = ix + 1

(* 1) The work of a second begins; the start and stop bits are cleared.    *)
NextBegin ==
  /\ pc = "idle"
  /\ pc' = "stop" /\ ix' = 0
  /\ tempStatus' = dfStatus
  /\ force' = [f \in Forcing |-> [force[f] EXCEPT !.status = @ \ {"START_RULE", "STOP_RULE"}]]
  /\ age' = [f \in Forcing |-> IF age[f] < AgeMax THEN age[f] + 1 ELSE age[f]]
  /\ UNCHANGED <<dfStatus, out, handshake, asked, web>>

(* 2) The stop rule of the forcing registered for channel ix.              *)
NoStop ==
  /\ pc = "stop"
  /\ Forced(tempStatus[ix]) =>
       IsStd(force[tempStatus[ix]]) /\ ~ Is(force[tempStatus[ix]], "RUNNING")
  /\ Loop(ChanMax - 1, "start")
  /\ UNCHANGED <<forcing, out, handshake, asked, web>>

(* What the manual order and the result of the stop rule lead to.          *)
Order(F)   == Is(F, "MANUAL_ORDER") /\ Is(F, "RUNNING")
Served(F)  == Is(F, "MANUAL_ORDER") /\ (IsAuto(F) \/ Is(F, "RUNNING"))
Ends(F)    == IsStd(F) \/ (IsAuto(F) /\ Is(F, "MANUAL_ORDER"))
Told(F, G) == [G EXCEPT !.status = (@ \cup {"STOP_RULE"}) \
                                   (IF Served(F) THEN {"MANUAL_ORDER"} ELSE {})]

StopCheck(e) ==
  /\ pc = "stop" /\ Forced(tempStatus[ix])
  /\ LET f == tempStatus[ix]
         F == force[f]
         G == Second(F)
         true == StopExpr(F, e) \/ Order(F)
         io == SecondIo(F, out[F.rule.channel])
     IN /\ IsStd(F) => Is(F, "RUNNING")
        /\ force' = [force EXCEPT ![f] = IF ~ true THEN G
                                         ELSE IF Ends(F) THEN Stopped(Told(F, G)) ELSE Told(F, G)]
        /\ out' = [out EXCEPT ![F.rule.channel] = IF true /\ Ends(F) THEN StopIo(F, io) ELSE io]
        /\ IF true /\ Ends(F)
           THEN /\ tempStatus' = [tempStatus EXCEPT ![ix] = Empty]
                /\ dfStatus'   = [dfStatus   EXCEPT ![ix] = Empty]
           ELSE UNCHANGED <<tempStatus, dfStatus>>
  /\ Loop(ChanMax - 1, "start")
  /\ UNCHANGED <<age, handshake, asked, web>>

(* A forcing overrides only what has a higher number.                      *)
OverrideAll(u, f) == f          \* mutant: the last one wins
Override(u, f) == IF f < u THEN f ELSE u

(* 3) The start rule of forcing ix.  After DMAX it counts as false until   *)
(* it has been false.                                                      *)
NoStart ==
  /\ pc = "start" /\ IsStd(force[ix]) /\ Is(force[ix], "RUNNING")
  /\ Loop(ForceMax - 1, "divert")
  /\ UNCHANGED <<forcing, out, handshake, asked, web>>

StartCheck(e) ==
  /\ pc = "start"
  /\ LET F == force[ix]
         expr   == Is(F, "VALID") /\ F.on /\ e
         manual == Is(F, "MANUAL_ORDER") /\ ~ Is(F, "RUNNING")
         true   == (expr /\ ~ Is(F, "DMAX_WAITING")) \/ manual
         c      == F.rule.channel
     IN /\ ~ (IsStd(F) /\ Is(F, "RUNNING"))
        /\ force' = [force EXCEPT ![ix].status =
             (@ \ ((IF expr THEN {} ELSE {"DMAX_WAITING"}) \cup
                   (IF manual THEN {"MANUAL_ORDER"} ELSE {})))
             \cup (IF true THEN {"START_RULE"} ELSE {})]
        /\ tempStatus' = [tempStatus EXCEPT ![c] = IF true THEN Override(@, ix) ELSE @]
  /\ Loop(ForceMax - 1, "divert")
  /\ UNCHANGED <<dfStatus, age, out, handshake, asked, web>>

(* The change to another diverting channel is asked for, and waited for.   *)
ChangeToNow(want) ==            \* mutant: does not wait
  /\ diverterSwitch' = IF want # diverterChannel THEN want ELSE diverterSwitch
  /\ pc' = "preempt"
ChangeTo(want) ==
  IF want # diverterChannel
  THEN pc' = "switch" /\ diverterSwitch' = want
  ELSE pc' = "preempt" /\ UNCHANGED diverterSwitch

(* What divRuleCheck may answer for the diverting rules of the two SSR.    *)
DivRuleResults == [Ssr -> BOOLEAN]

(* 4) The SSR to divert to, d telling which diverting rules are true.  The *)
(* meter task is asked to change, if it is another.                        *)
Divert(d) ==
  /\ pc = "divert"
  /\ LET div(c) == ~ Forced(tempStatus[c]) /\ d[c] /\ (c = 1 => Forced(tempStatus[0]) \/ ~ d[0])
         want   == IF div(0) THEN SwitchTo(0) ELSE IF div(1) THEN SwitchTo(1) ELSE SwitchNone
     IN /\ tempStatus' = [c \in Channel |->
             IF c \notin Ssr \/ Forced(tempStatus[c]) THEN tempStatus[c]
             ELSE IF div(c) THEN Diverting ELSE Empty]
        /\ ChangeTo(want)
  /\ ix' = 0
  /\ UNCHANGED <<force, dfStatus, age, out, enabled, bDiverterSet, diverterChannel,
                 diverterIndex, asked, web>>

SwitchedNone ==                 \* mutant: waits for the wrong value
  /\ pc = "switch" /\ diverterSwitch = SwitchNone
  /\ pc' = "preempt"
  /\ UNCHANGED <<forcing, ix, out, handshake, asked, web>>
Switched ==
  /\ pc = "switch" /\ diverterSwitch = SwitchIdle
  /\ pc' = "preempt"
  /\ UNCHANGED <<forcing, ix, out, handshake, asked, web>>

(* 5) A forcing that a forcing of higher priority displaces is stopped.    *)
Preempt ==
  /\ pc = "preempt"
  /\ IF Forced(tempStatus[ix]) /\ Forced(dfStatus[ix]) /\ tempStatus[ix] < dfStatus[ix]
     THEN LET f == dfStatus[ix] IN
          /\ force' = [force EXCEPT ![f] = Stopped(@)]
          /\ out' = [out EXCEPT ![force[f].rule.channel] = StopIo(force[f], @)]
     ELSE UNCHANGED <<force, out>>
  /\ Loop(ChanMax - 1, "begin")
  /\ UNCHANGED <<dfStatus, tempStatus, age, handshake, asked, web>>

(* 6) The forcing of channel ix is started if it is not running; in AUTO   *)
(* mode its automaton makes a step.  After the last, all is registered.    *)
Begin ==
  /\ pc = "begin"
  /\ IF Forced(tempStatus[ix])
     THEN LET f == tempStatus[ix]
              F == force[f]
              G == Started(F)
              c == F.rule.channel
          IN /\ force' = [force EXCEPT ![f] = IF IsAuto(F) THEN AutoNext(G) ELSE G]
             /\ out' = [out EXCEPT ![c] = IF IsAuto(F) THEN NextIo(G, StartIo(F, @)) ELSE StartIo(F, @)]
             /\ age' = [age EXCEPT ![f] = IF ~ Is(F, "RUNNING") \/ (IsAuto(F) /\ (GoesOff(G) \/ GoesOn(G)))
                                          THEN 0 ELSE @]
     ELSE UNCHANGED <<force, out, age>>
  /\ dfStatus' = IF ix = ChanMax - 1 THEN tempStatus ELSE dfStatus
  /\ Loop(ChanMax - 1, "idle")
  /\ UNCHANGED <<tempStatus, handshake, asked, web>>

-----------------------------------------------------------------------------
(***************************************************************************)
(* The meter task: divProcessing.                                          *)
(***************************************************************************)

SsrOff(o, cs) == [c \in Channel |-> IF c \in Ssr \cap cs THEN "off" ELSE o[c]]

SwitchPendingAlways == TRUE     \* mutant: DIV_SWITCH_IDLE is not recognised
SwitchPending == diverterSwitch # SwitchIdle

Meter ==
  LET on == enabled # bDiverterSet
      o  == IF bDiverterSet THEN SsrOff(out, Ssr) ELSE out
      sw == on /\ SwitchPending
      to == IF sw /\ diverterSwitch # SwitchNone THEN diverterSwitch - 1 ELSE diverterIndex
      p  == IF ~ sw THEN o
            ELSE IF diverterSwitch = SwitchNone THEN SsrOff(o, Ssr) ELSE SsrOff(o, {1 - to})
      ch == IF sw THEN diverterSwitch ELSE diverterChannel
  IN /\ enabled' = on
     /\ bDiverterSet' = FALSE
     /\ diverterIndex' = to
     /\ diverterChannel' = ch
     /\ diverterSwitch' = IF sw THEN SwitchIdle ELSE diverterSwitch
     /\ out' = IF on /\ ch # SwitchNone THEN [p EXCEPT ![to] = "div"] ELSE p
     /\ UNCHANGED <<forcing, pc, ix, asked, web>>

-----------------------------------------------------------------------------
(***************************************************************************)
(* The calls of the users.                                                 *)
(***************************************************************************)

(* The web server runs while the main task waits.                          *)
MainWaits == pc \in {"idle", "switch", "cfgSwitch"}

(* forceRuleInvalidate, of a forcing that is to get another rule.          *)
Invalid(F) == [F EXCEPT !.status = @ \ {"VALID"}]
Invalidate(f) ==
  LET F == force[f] IN
  IF Is(F, "VALID")
  THEN /\ out' = [out EXCEPT ![F.rule.channel] = StopIo(F, @)]
       /\ dfStatus' = RemovedFrom(dfStatus, f)
  ELSE UNCHANGED <<out, dfStatus>>

(* Command cfr: the rule is replaced by the main task itself.              *)
SetRule(f, r) ==
  /\ "setRule" \in Calls /\ pc = "idle"
  /\ Invalidate(f)
  /\ force' = [force EXCEPT ![f] = Fresh(r)]
  /\ UNCHANGED <<tempStatus, age, pc, ix, handshake, asked, web>>

(* The same from the web page, in two critical sections.                   *)
WebInvalidate(f, r) ==
  /\ "webRule" \in Calls /\ MainWaits /\ web = NoCall /\ asked["web"] = "none"
  /\ Invalidate(f)
  /\ force' = [force EXCEPT ![f] = IF Is(@, "VALID") THEN Invalid(Stopped(@)) ELSE @]
  /\ web' = [index |-> f, rule |-> r]
  /\ UNCHANGED <<tempStatus, age, pc, ix, handshake, asked>>

WebSet ==
  /\ MainWaits /\ web # NoCall
  /\ force' = [force EXCEPT ![web.index] = Fresh(web.rule)]
  /\ web' = NoCall
  /\ UNCHANGED <<dfStatus, tempStatus, age, pc, ix, out, handshake, asked>>

(* Command cfre: forceRuleEnable.                                          *)
Enable(f, on) ==
  /\ "enable" \in Calls /\ pc = "idle" /\ Is(force[f], "VALID")
  /\ force' = [force EXCEPT ![f] = IF on THEN [@ EXCEPT !.on = TRUE]
                                   ELSE [Stopped(@) EXCEPT !.on = FALSE]]
  /\ IF on THEN UNCHANGED <<out, dfStatus>>
     ELSE /\ out' = [out EXCEPT ![force[f].rule.channel] = StopIo(force[f], @)]
          /\ dfStatus' = RemovedFrom(dfStatus, f)
  /\ UNCHANGED <<tempStatus, age, pc, ix, handshake, asked, web>>

(* Command fman, and the web page: forceSetManualOrder.                    *)
Manual(f) ==
  /\ "manual" \in Calls /\ MainWaits
  /\ force' = [force EXCEPT ![f].status = @ \cup {"MANUAL_ORDER"}]
  /\ UNCHANGED <<dfStatus, tempStatus, age, pc, ix, out, handshake, asked, web>>

(* readCfg: no diverting, no forcing, then the configuration in flash.     *)
ReadCfg ==
  /\ "readCfg" \in Calls /\ pc = "idle"
  /\ pc' = "cfgSwitch"
  /\ diverterSwitch' = IF enabled THEN SwitchNone ELSE diverterSwitch
  /\ UNCHANGED <<forcing, ix, out, enabled, bDiverterSet, diverterChannel, diverterIndex, asked, web>>

Load(cfg) == /\ force' = [f \in Forcing |-> Fresh(cfg[f])]
             /\ dfStatus' = [c \in Channel |-> Empty]

ReadCfgEnd ==
  /\ pc = "cfgSwitch" /\ diverterSwitch = SwitchIdle
  /\ pc' = "idle"
  /\ out' = [c \in Channel |-> IF \E f \in Forcing : Is(force[f], "RUNNING") /\ force[f].rule.channel = c
                               THEN "off" ELSE out[c]]
  /\ Load(Stored)
  /\ UNCHANGED <<tempStatus, age, ix, handshake, asked, web>>

(* defaultCfg.                                                             *)
DefaultCfg ==
  /\ "default" \in Calls /\ pc = "idle"
  /\ Load([f \in Forcing |-> NoRule])
  /\ UNCHANGED <<tempStatus, age, pc, ix, out, handshake, asked, web>>

(* Command sd, without a parameter: toggle.                                *)
Toggle ==
  /\ "toggle" \in Calls /\ pc = "idle"
  /\ bDiverterSet' = TRUE
  /\ UNCHANGED <<forcing, pc, ix, out, enabled, diverterSwitch, diverterChannel, diverterIndex,
                 asked, web>>

(* Command sd 0 or sd 1, and the web page: toggle unless it is so already; *)
(* the meter task may come between the test and the request.               *)
Ask(client, s) ==
  /\ asked[client] = "none" /\ enabled # (s = "on")
  /\ IF client = "web" THEN "webAsk" \in Calls /\ MainWaits /\ web = NoCall /\ UNCHANGED pc
     ELSE "ask" \in Calls /\ pc = "idle" /\ pc' = "sd"
  /\ asked' = [asked EXCEPT ![client] = s]
  /\ UNCHANGED <<forcing, ix, out, handshake, web>>

AskSet(client) ==
  /\ asked[client] # "none"
  /\ IF client = "web" THEN MainWaits /\ UNCHANGED pc ELSE pc = "sd" /\ pc' = "idle"
  /\ asked' = [asked EXCEPT ![client] = "none"]
  /\ bDiverterSet' = TRUE
  /\ UNCHANGED <<forcing, ix, out, enabled, diverterSwitch, diverterChannel, diverterIndex, web>>

-----------------------------------------------------------------------------
(* The configuration has been read, the meter task has been started and    *)
(* is asked to enable diverting.                                           *)
Init ==
  /\ force = [f \in Forcing |-> Fresh(Stored[f])]
  /\ dfStatus = [c \in Channel |-> Empty] /\ tempStatus = dfStatus
  /\ pc = "idle" /\ ix = 0
  /\ out = [c \in Channel |-> "off"]
  /\ enabled = FALSE /\ bDiverterSet = TRUE
  /\ diverterSwitch = SwitchIdle /\ diverterChannel = SwitchNone /\ diverterIndex = 0
  /\ asked = [c \in Client |-> "none"] /\ web = NoCall
  /\ age = [f \in Forcing |-> 0]

DiverterNext ==
  \/ NextBegin \/ NoStop \/ NoStart \/ Switched \/ Preempt \/ Begin
  \/ \E e \in RuleResults : StopCheck(e) \/ StartCheck(e)
  \/ \E d \in DivRuleResults : Divert(d)

Users ==
  \/ \E f \in Forcing : Manual(f) \/ \E on \in BOOLEAN : Enable(f, on)
  \/ \E f \in Forcing, r \in Rules : SetRule(f, r) \/ WebInvalidate(f, r)
  \/ WebSet \/ ReadCfg \/ DefaultCfg \/ Toggle
  \/ \E client \in Client : AskSet(client) \/ \E s \in {"on", "off"} : Ask(client, s)

Next == DiverterNext \/ ReadCfgEnd \/ Meter \/ Users

Spec == Init /\ [][Next]_vars

(* The meter task runs at each half period, and the main task is served.   *)
LiveSpec == Spec /\ WF_vars(Meter) /\ WF_vars(DiverterNext \/ ReadCfgEnd)

-----------------------------------------------------------------------------
(***************************************************************************)
(* Properties.                                                             *)
(***************************************************************************)

(* Every variable has its type; diverting is asked of one SSR or none.     *)
TypeOK ==
  /\ force \in [Forcing -> ForceRule]
  /\ dfStatus \in [Channel -> Usage] /\ tempStatus \in [Channel -> Usage]
  /\ pc \in {"idle", "stop", "start", "divert", "switch", "preempt", "begin", "cfgSwitch", "sd"}
  /\ ix \in Nat /\ (pc \in {"stop", "preempt", "begin"} => ix < ChanMax)
  /\ (pc = "start" => ix < ForceMax) /\ (pc = "switch" => ix = 0)
  /\ out \in [Channel -> {"off", "on", "div"}]
  /\ enabled \in BOOLEAN /\ bDiverterSet \in BOOLEAN
  /\ diverterSwitch \in 0 .. 3 /\ diverterChannel \in 1 .. 3 /\ diverterIndex \in Ssr
  /\ asked \in [Client -> {"none", "on", "off"}]
  /\ web = NoCall \/ (web.index \in Forcing /\ web.rule \in Rules)
  /\ age \in [Forcing -> 0 .. AgeMax]

RunsOn(f, c) == Is(force[f], "RUNNING") /\ force[f].rule.channel = c

(* Between two seconds, the forcing registered for a channel is the one    *)
(* that runs on it, and there is no other: dfStatus, on which the stop     *)
(* checks, the web page and the removal of rules rely, agrees with the     *)
(* status of the forcings, whatever was set, ordered or removed meanwhile. *)
Registered ==
  pc = "idle" => \A f \in Forcing, c \in Channel : dfStatus[c] = f <=> RunsOn(f, c)

(* The meter task never modulates an SSR that a forcing runs on: the       *)
(* change of channel is over before the forcing starts.                    *)
NotDiverted == \A f \in Forcing, c \in Ssr : RunsOn(f, c) => out[c] # "div"

(* What is chosen prevails: when the forcings are started, every forcing   *)
(* whose start rule is true has its channel, or one of higher priority has.*)
HighestFirst ==
  pc \in {"divert", "switch", "preempt", "begin"} =>
    \A f \in Forcing : Is(force[f], "START_RULE") => tempStatus[force[f].rule.channel] <= f

(* A forcing in the part of its cycle where its output is on.              *)
Driving(F) == /\ Is(F, "RUNNING")
              /\ IsAuto(F) => F.autoState \in {"MIN_ON", "ON"}
              /\ F.rule.burst => Is(F, "BURST_ON")

(* No output is left on: what is on is driven by a forcing that runs.      *)
NoneLeftOn ==
  pc = "idle" => \A c \in Channel :
    out[c] = "on" => \E f \in Forcing : RunsOn(f, c) /\ Driving(force[f])

(* A relay is on whenever a forcing that runs on it drives it.             *)
RelayFollows ==
  pc = "idle" => \A f \in Forcing, c \in Channel \ Ssr :
    RunsOn(f, c) /\ Driving(force[f]) => out[c] = "on"

(* DMIN: the stop rule does not end a forcing before its time, unless by   *)
(* a manual order.                                                         *)
DminKept ==
  [][\A f \in Forcing :
       /\ pc = "stop" /\ Is(force[f], "RUNNING") /\ ~ Is(force'[f], "RUNNING")
       /\ ~ Is(force[f], "MANUAL_ORDER") /\ force[f].rule.limit = "dmin"
       => age[f] >= force[f].rule.delay]_vars

(* DMAX: no forcing runs for longer.                                       *)
DmaxKept ==
  pc = "idle" => \A f \in Forcing :
    LET F == force[f] IN
    Is(F, "RUNNING") /\ IsStd(F) /\ F.rule.limit = "dmax" /\ F.rule.delay # 0
    => age[f] < F.rule.delay

(* AUTO: the automaton switches the output only after its minimum time,    *)
(* and after the rule was true autoKf times, the second in which the last  *)
(* switch was made included.                                               *)
AutoKept ==
  [][\A f \in Forcing :
       LET F == force[f] IN
       /\ pc = "begin" /\ Is(F, "RUNNING") /\ IsAuto(F) /\ force'[f].autoState # F.autoState
       => /\ F.autoState = "ON"  => age[f] >= F.rule.autoOn  /\ age[f] + 1 >= F.rule.autoKf
          /\ F.autoState = "OFF" => age[f] >= F.rule.autoOff /\ age[f] + 1 >= F.rule.autoKf]_vars

(* The wait for the change of channel ends, and so diverterNext returns.   *)
SwitchEnds == pc \in {"switch", "cfgSwitch"} ~> pc = "idle"

(* ... if diverting is enabled again and again: the meter task looks at the*)
(* request only then.                                                      *)
SwitchEndsIfEnabled == []<>enabled => SwitchEnds
=============================================================================
