----------------------------- MODULE AASunTime -----------------------------
(***************************************************************************)
(* timeUpdate.c: the date is asked for over the wired network (DNS, then   *)
(* SNTP), then from the Wi-Fi module (AASunWifi), then from the meter      *)
(* (Linky); if none answers, all over again after a delay.  timeNext is    *)
(* called by two tasks: by the task of the network, when DNS, SNTP or      *)
(* Wi-Fi have answered or not, and by the main task, which preempts it,    *)
(* for the console, the delay and the meter.                               *)
(***************************************************************************)
EXTENDS AASunWifi

CONSTANT LinkyStd     \* the meter sends the date

ASSUME TimeAssumption == LinkyStd \in BOOLEAN

VARIABLES
  timeStatus,       \* STS_...
  dnsState,         \* 0 idle, 1 or 2 the server that was asked
  sntpRunning,
  linkOff,          \* STSW_NET_LINK_OFF
  bLinkyDateUpdate,
  timer,            \* TIMER_DATE_IX runs
  timeIsUpdated,    \* 1: the history waits for the date, 2: it is there
  pc                \* where each task is in timeNext

lanVars  == <<dnsState, sntpRunning, linkOff>>
devices  == <<lanVars, bLinkyDateUpdate, timer, requestWaiting, bWifiTimeoutOn>>
wifiRest == <<wifiState, requestActive, rxBuff, toEsp, module, losses, steady>>
timeVars == <<timeStatus, lanVars, bLinkyDateUpdate, timer, timeIsUpdated, pc>>
vars     == <<timeVars, wifiVars>>

Status == {"IDLE", "LAN", "LAN_WAIT", "WIFI", "WIFI_WAIT", "LINKY", "LINKY_WAIT", "NONE", "DELAY"}
Task   == {"main", "lan"}

(* at: what comes next; to: the status to be stored; ends: the loop of     *)
(* timeNext ends then; by: who called.                                     *)
Place   == [at : {"loop", "retry", "switch", "store", "stop", "idle", "done"},
            to : Status, ends : BOOLEAN, by : {"", "wifi", "sntp", "linky"}]
Outside == [at |-> "loop", to |-> "IDLE", ends |-> FALSE, by |-> ""]

TimeInit ==
  /\ WifiInit
  /\ timeStatus = "IDLE" /\ dnsState = 0 /\ sntpRunning = FALSE /\ linkOff \in BOOLEAN
  /\ bLinkyDateUpdate = FALSE /\ timer = FALSE /\ timeIsUpdated = 0
  /\ pc = [t \in Task |-> Outside]

(* The type invariant of both automata (timeUpdate.c and wifi.c) and of    *)
(* the Wi-Fi module.                                                       *)
TimeTypeOK ==
  /\ WifiTypeOK
  /\ timeStatus \in Status /\ dnsState \in 0..2 /\ sntpRunning \in BOOLEAN /\ linkOff \in BOOLEAN
  /\ bLinkyDateUpdate \in BOOLEAN /\ timer \in BOOLEAN /\ timeIsUpdated \in 0..2
  /\ pc \in [Task -> Place]

-----------------------------------------------------------------------------
(* The main task runs unless it waits: for room to print, or for the SPI,  *)
(* while it makes a DNS request.                                           *)
MainWaits == /\ pc["main"].at = "switch" /\ timeStatus = "LAN" /\ ~ linkOff
LanRuns   == pc["main"].at = "loop" \/ MainWaits
Runs(t)   == t = "lan" => LanRuns

At(t, place) == Runs(t) /\ pc[t].at = place
Goes(t, place) == pc' = [pc EXCEPT ![t].at = place]
Calls(t, place, by) ==
  pc' = [pc EXCEPT ![t] = [at |-> place, to |-> "IDLE", ends |-> FALSE, by |-> by]]

(* timeDnsRequest: ignored while there is one.                             *)
DnsRequest == dnsState' = IF dnsState = 0 THEN 1 ELSE dnsState

(* NEXT_RETRY is not for an idle automaton.                                *)
Retry(t) ==
  /\ At(t, "retry") /\ Goes(t, IF timeStatus = "IDLE" THEN "done" ELSE "switch")
  /\ UNCHANGED <<timeStatus, devices, timeIsUpdated, calling, wifiRest>>

(* One case of the switch of timeNext, up to the store of the new status.  *)
Case(t, s, to, ends) ==
  /\ timeStatus = s
  /\ pc' = [pc EXCEPT ![t] = [at |-> "store", to |-> to, ends |-> ends, by |-> pc[t].by]]

Simple(t) ==
  /\ \/ Case(t, "IDLE", "LAN", FALSE)
     \/ linkOff /\ Case(t, "LAN", "WIFI", FALSE)
     \/ Case(t, "LAN_WAIT", "WIFI", FALSE)
     \/ Case(t, "WIFI_WAIT", "LINKY", FALSE)
  /\ UNCHANGED devices

AskLan(t) ==
  /\ ~ linkOff /\ Case(t, "LAN", "LAN_WAIT", TRUE) /\ DnsRequest
  /\ UNCHANGED <<sntpRunning, linkOff, bLinkyDateUpdate, timer, requestWaiting, bWifiTimeoutOn>>

AskWifi(t) ==
  /\ Case(t, "WIFI", "WIFI_WAIT", TRUE) /\ Request
  /\ UNCHANGED <<lanVars, bLinkyDateUpdate, timer>>

NoLinky(t) ==
  /\ ~ LinkyStd /\ Case(t, "LINKY", "NONE", FALSE) /\ bLinkyDateUpdate' = FALSE
  /\ UNCHANGED <<lanVars, timer, requestWaiting, bWifiTimeoutOn>>

Delay(t) ==
  /\ \/ Case(t, "NONE", "DELAY", TRUE) /\ timer' = TRUE
     \/ Case(t, "DELAY", "LAN", FALSE) /\ timer' = FALSE
  /\ UNCHANGED <<lanVars, bLinkyDateUpdate, requestWaiting, bWifiTimeoutOn>>

Switch(t) ==
  /\ At(t, "switch")
  /\ Simple(t) \/ AskLan(t) \/ AskWifi(t) \/ NoLinky(t) \/ Delay(t)
  /\ UNCHANGED <<timeStatus, timeIsUpdated, calling, wifiRest>>

Store(t) ==
  /\ At(t, "store") /\ timeStatus' = pc[t].to /\ Goes(t, IF pc[t].ends THEN "done" ELSE "switch")
  /\ UNCHANGED <<devices, timeIsUpdated, calling, wifiRest>>

(* NEXT_RESET: the timer is stopped, then the automaton is idle.           *)
Stop(t) ==
  /\ At(t, "stop") /\ timer' = FALSE /\ Goes(t, "idle")
  /\ UNCHANGED <<timeStatus, lanVars, bLinkyDateUpdate, requestWaiting, bWifiTimeoutOn,
                 timeIsUpdated, calling, wifiRest>>

ToIdle(t) ==
  /\ At(t, "idle") /\ timeStatus' = "IDLE" /\ Goes(t, "done")
  /\ UNCHANGED <<devices, timeIsUpdated, calling, wifiRest>>

(* Fault: the main task is never told.                                     *)
ToldNot == timeIsUpdated

(* That the date is there is news only if the history waits for it.        *)
Told == IF timeIsUpdated = 1 THEN 2 ELSE timeIsUpdated

(* Back in the caller: with the date of the Wi-Fi module or of the meter   *)
(* the main task is told now; sntpNext takes a new request.                *)
Done(t) ==
  /\ At(t, "done") /\ pc' = [pc EXCEPT ![t] = Outside]
  /\ timeIsUpdated' = IF pc[t].by \in {"wifi", "linky"} THEN Told ELSE timeIsUpdated
  /\ sntpRunning' = (sntpRunning /\ pc[t].by # "sntp")
  /\ calling' = IF t = "lan" THEN "none" ELSE calling
  /\ UNCHANGED <<timeStatus, dnsState, linkOff, bLinkyDateUpdate, timer, requestWaiting,
                 bWifiTimeoutOn, wifiRest>>

TimeNext(t) == Retry(t) \/ Switch(t) \/ Store(t) \/ Stop(t) \/ ToIdle(t) \/ Done(t)

-----------------------------------------------------------------------------
(* The task of the network, which makes one step of each automaton at a    *)
(* time.                                                                   *)
InLoop == LanRuns /\ pc["lan"].at = "loop"

Link == /\ InLoop /\ linkOff' = ~ linkOff
        /\ UNCHANGED <<timeStatus, dnsState, sntpRunning, bLinkyDateUpdate, timer, timeIsUpdated, pc,
                       wifiVars>>

(* Fault: the servers are not counted.                                     *)
DnsNextAgain ==
  /\ InLoop /\ ~ linkOff /\ dnsState # 0
  /\ \/ dnsState' = 0 /\ sntpRunning' = TRUE
     \/ dnsState' = dnsState + 1 /\ UNCHANGED sntpRunning
  /\ UNCHANGED <<timeStatus, linkOff, bLinkyDateUpdate, timer, timeIsUpdated, pc, wifiVars>>

(* dnsNext, while there is a link, and timeDnsCb: a name found, the second *)
(* server to be asked, or none left.                                       *)
DnsNext ==
  /\ InLoop /\ ~ linkOff /\ dnsState # 0
  /\ \/ dnsState' = 0 /\ sntpRunning' = TRUE /\ UNCHANGED pc
     \/ dnsState = 1 /\ dnsState' = 2 /\ UNCHANGED <<sntpRunning, pc>>
     \/ dnsState = 2 /\ dnsState' = 0 /\ Calls("lan", "retry", "") /\ UNCHANGED sntpRunning
  /\ UNCHANGED <<timeStatus, linkOff, bLinkyDateUpdate, timer, timeIsUpdated, wifiVars>>

(* sntpNext and sntpCb: the date, or a time-out.                           *)
SntpNext ==
  /\ InLoop /\ ~ linkOff /\ sntpRunning
  /\ \/ timeIsUpdated' = Told /\ Calls("lan", "stop", "sntp")
     \/ Calls("lan", "retry", "sntp") /\ UNCHANGED timeIsUpdated
  /\ UNCHANGED <<timeStatus, lanVars, bLinkyDateUpdate, timer, wifiVars>>

(* wifiNext, and what it tells the automaton.                              *)
WifiStep(A) ==
  /\ InLoop /\ A
  /\ CASE calling' = "retry" -> Calls("lan", "retry", "")
       [] calling' = "reset" -> Calls("lan", "stop", "wifi")
       [] OTHER -> UNCHANGED pc
  /\ UNCHANGED <<timeStatus, lanVars, bLinkyDateUpdate, timer, timeIsUpdated>>

OverThere == (Module \/ Lose) /\ UNCHANGED timeVars

-----------------------------------------------------------------------------
(* The main task.                                                          *)
MainLoop == pc["main"].at = "loop"

(* A delay, or a time-out, is not over before the call that started it.    *)
Starting(s) == pc["lan"].at = "store" /\ pc["lan"].to = s

(* The delay is over (a minute: a date that the Wi-Fi module was sending   *)
(* has arrived).  The soft timer starts again by itself.                   *)
DateOnItsWay == \/ \E i \in DOMAIN rxBuff : rxBuff[i].id = "date"
                \/ \E i \in DOMAIN toEsp : toEsp[i].id = "askDate"
                \/ calling # "none"
Expired == /\ MainLoop /\ timer /\ ~ Starting("DELAY") /\ ~ DateOnItsWay
           /\ Calls("main", "retry", "")
           /\ UNCHANGED <<timeStatus, devices, timeIsUpdated, calling, wifiRest>>

(* histoStart, with the date just updated.                                 *)
HistoStart == /\ MainLoop /\ timeIsUpdated = 2 /\ timeIsUpdated' = 0
              /\ UNCHANGED <<timeStatus, devices, pc, calling, wifiRest>>

(* timeUpdateRequest (1).                                                  *)
UpdateRequest ==
  /\ MainLoop /\ timeIsUpdated' = 1
  /\ IF timeStatus = "IDLE" THEN Calls("main", "switch", "") ELSE UNCHANGED pc
  /\ UNCHANGED <<timeStatus, devices, calling, wifiRest>>

(* At the start, and each day at 01:07: that an update ends in the very    *)
(* second is left out, the other task has come out of timeNext and the     *)
(* Wi-Fi module has sent what it had to.                                   *)
Settled == pc["lan"] = Outside /\ ~ bWifiTimeoutOn /\ ~ DateOnItsWay
Daily   == timeIsUpdated = 0 /\ Settled /\ UpdateRequest

Next == \/ \E t \in Task : TimeNext(t)
        \/ Link \/ DnsNext \/ SntpNext \/ WifiStep(DateTimeout) \/ WifiStep(Machine) \/ OverThere
        \/ Expired \/ HistoStart \/ Daily

Spec == TimeInit /\ [][Next]_vars

(* Both tasks run again and again (SF: each waits now and then for the     *)
(* other), the link comes back, DNS and SNTP servers answer or time out,   *)
(* the Wi-Fi module serves its mutex in turn, and browsers keep asking.    *)
TimeFairness ==
  /\ \A t \in Task : SF_vars(TimeNext(t))
  /\ SF_vars(linkOff /\ Link) /\ SF_vars(DnsNext \/ SntpNext)
  /\ SF_vars(WifiStep(DateTimeout)) /\ SF_vars(WifiStep(Machine))
  /\ WF_vars(Replies /\ UNCHANGED timeVars)
  /\ \A id \in Requests : SF_vars(AskFor(id) /\ UNCHANGED timeVars)

TimeSpec == Spec /\ TimeFairness

-----------------------------------------------------------------------------
(* With the meter, the commands of the console and a Wi-Fi module that     *)
(* stays silent for seconds, the system does not keep all its promises.    *)

(* The date of the meter is awaited, which sends one frame a second.       *)
AskLinky(t) ==
  /\ LinkyStd /\ Case(t, "LINKY", "LINKY_WAIT", TRUE) /\ bLinkyDateUpdate' = TRUE
  /\ UNCHANGED <<lanVars, timer, requestWaiting, bWifiTimeoutOn>>

LeaveLinky(t) ==
  /\ Case(t, "LINKY_WAIT", "NONE", FALSE) /\ bLinkyDateUpdate' = FALSE
  /\ UNCHANGED <<lanVars, timer, requestWaiting, bWifiTimeoutOn>>

SwitchLinky(t) ==
  /\ At(t, "switch")
  /\ AskLinky(t) \/ LeaveLinky(t)
  /\ UNCHANGED <<timeStatus, timeIsUpdated, calling, wifiRest>>

(* timeUpdateTic: the date, or no frame for three seconds.                 *)
TicTimeout ==
  /\ MainLoop /\ bLinkyDateUpdate /\ ~ Starting("LINKY_WAIT") /\ Calls("main", "retry", "")
  /\ UNCHANGED <<timeStatus, devices, timeIsUpdated, calling, wifiRest>>

TicDate ==
  /\ MainLoop /\ LinkyStd /\ bLinkyDateUpdate /\ bLinkyDateUpdate' = FALSE
  /\ Calls("main", "stop", "linky")
  /\ UNCHANGED <<timeStatus, lanVars, timer, requestWaiting, bWifiTimeoutOn, timeIsUpdated,
                 calling, wifiRest>>

Meter == (\E t \in Task : SwitchLinky(t)) \/ TicTimeout \/ TicDate

(* The commands utime, ltime, wtime, ytime, whose argument is the new      *)
(* timeIsUpdated, and the date typed in: timeNext (true) is NEXT_RETRY.    *)
LanTime ==
  /\ MainLoop /\ DnsRequest /\ timeIsUpdated' \in {0, 1}
  /\ UNCHANGED <<timeStatus, sntpRunning, linkOff, bLinkyDateUpdate, timer, requestWaiting,
                 bWifiTimeoutOn, pc, calling, wifiRest>>

WifiTime ==
  /\ MainLoop /\ ~ requestWaiting /\ Request /\ timeIsUpdated' \in {0, 1}
  /\ UNCHANGED <<timeStatus, lanVars, bLinkyDateUpdate, timer, pc, calling, wifiRest>>

LinkyTime ==
  /\ MainLoop /\ bLinkyDateUpdate' = TRUE /\ timeIsUpdated' \in {0, 1}
  /\ UNCHANGED <<timeStatus, lanVars, timer, requestWaiting, bWifiTimeoutOn, pc, calling,
                 wifiRest>>

SetTime ==
  /\ MainLoop /\ Calls("main", "retry", "")
  /\ UNCHANGED <<timeStatus, devices, timeIsUpdated, calling, wifiRest>>

Console == UpdateRequest \/ LanTime \/ WifiTime \/ LinkyTime \/ SetTime

FullSpec == TimeInit /\ [][Next \/ Meter \/ Console \/ (Slow /\ UNCHANGED timeVars)]_vars

-----------------------------------------------------------------------------
AllOut == \A t \in Task : pc[t] = Outside

(* Whoever timeNext waits for will call it: when no task is inside, a      *)
(* request or a time-out is on for the source it waits for, and the timer  *)
(* runs while it waits for the next round.                                 *)
SomebodyWillCall ==
  AllOut => CASE timeStatus = "IDLE"       -> TRUE
              [] timeStatus = "LAN_WAIT"   -> dnsState # 0 \/ sntpRunning
              [] timeStatus = "WIFI_WAIT"  -> bWifiTimeoutOn
              [] timeStatus = "LINKY_WAIT" -> bLinkyDateUpdate
              [] timeStatus = "DELAY"      -> timer
              [] OTHER                     -> FALSE

(* A date that the history waits for is being asked for.                   *)
RequestKept ==
  AllOut /\ timeIsUpdated = 1 =>
    timeStatus # "IDLE" \/ dnsState # 0 \/ sntpRunning \/ bWifiTimeoutOn \/ bLinkyDateUpdate

(* A round gets past the network and the Wi-Fi module, whatever is lost.   *)
RoundGoesOn == LET Asking == timeStatus \in {"LAN", "LAN_WAIT", "WIFI", "WIFI_WAIT"}
               IN Asking ~> ~ Asking
=============================================================================
