# AASun: a TLA+ model of the kernel, the diverter, the clock and the data kept in flash

AASun is a solar diverter: an STM32G071 measures currents and voltages, sends the
surplus of a photovoltaic installation to resistive loads, and shows what it does on
a display and a web page. Its firmware is a set of tasks on top of the *AdAstra*
real-time kernel (`src/AASun/AA`). This directory holds TLA+ specifications of the
parts whose correctness depends on the order in which things happen, the TLC
configurations that check them on small instances, and TLAPS proofs for all
instances.

Contents: [the system](#the-system), [the modules](#the-modules),
[the runs](#the-runs), [the proofs](#the-proofs),
[disagreements](#where-the-code-and-its-comments-disagree),
[what is left out](#what-is-not-modelled), [the plan](#the-plan).

## The system

| component | state | operations | interacts with |
|---|---|---|---|
| Scheduler, lists, tick (`aakernel.c`, `aalist.c`) | TCBs, ready lists and their bit map, delayed list, suspended list, `bRequestSchedule` | put a task in a list, schedule, tick, I/O wait and resume | every service; the tick interrupt |
| Mutexes (`aamutex.c`) | owner, count, priority ordered waiting list, the mutexes a task owns | create, delete, take (with time-out), give; priority inheritance along a chain of owners | scheduler, delayed list |
| Semaphores (`aasema.c`) | count, waiting list | create, delete, take, give, flush, reset; give and flush also from interrupt handlers | scheduler, delayed list; the SPI bus is shared through a binary semaphore (`spi.c`) |
| Signals (`aatasksignal.c`) | bits received and bits waited for, per task | wait (OR, AND), try, send, pulse, clear; send and pulse also from handlers | scheduler, delayed list |
| Tasks (`aatask.c`) | state, priorities, free list, list of zombies | create, delete, reap by the idle task, delay, wake up, yield, suspend, resume, set priority | everything above |
| Timers (`aatimer.c`) | list of differences, time-out and call back per timer | create, set, start, stop, delete, tick with call backs | the tick interrupt |
| Queues, buffer pools (`aaqueue.c`, `aamemblock.c`) | | | compiled out of this firmware |
| Allocator (`aatlsf.c`, `aamalloc.c`) | blocks, free lists by size | malloc, free, realloc | task creation, web server |
| Diverting and forcing (`diverter.c`, `AASun.c`) | forcings with their automata, `dfStatus`, the outputs, the diverting channel | meter task at each mains half period (`divProcessing`), main task each second (`diverterNext`), console and web commands | handshake by shared variables (`bDiverterSet`, `diverterSwitch`); the web server changes rules and gives orders |
| Configuration, counters, history in flash (`cfgParameters.c`, `w25q.c`) | one sector of configuration, slots of counters, ring of daily records | read, write, wipe | main task writes, display and web tasks read; SPI semaphore |
| Clock (`timeUpdate.c`, `utils.c`) | `timeStatus`, `timeIsUpdated`, soft timers | look for a date (wired network, Wi-Fi, meter), wait, start again; daily update, commands | called by the main task and by the task of the network; starts the history |
| Linky receiver (`linky.c`), temperature (`temperature.c`) | state machines polled by the main task | | UART, one-wire; the date of the meter |
| Ethernet, Wi-Fi link, web server (`W5500`) | vendored stack and its AASun part: DNS and SNTP requests, `wifiState` and its buffers | one step of each automaton per turn of the loop of the low priority task | the clock, SPI semaphore, history, UART to the Wi-Fi module |
| Wi-Fi module (`src/http/main`) | buffer of the UART, one mutex for all its tasks | send a request, wait for the answer, synchronize again | UART protocol with `wifi.c` |
| File system image (`mfs.c`, `src/mfs`) | read-only | look up, read | |

What is hard about it, and where: preemption at any instruction outside a critical
section; waits that can be ended by a give, a flush, a time-out, a wake-up or a
deletion, whichever comes first; critical sections that end in the middle of an
operation (`aaMutexTake` after it was woken, `aaSemDelete` between flush and free,
`aaTaskDelete` between unlinking and the list of zombies, `aaTick_` between two
expired tasks, `aaTimerTick_` around each call back); priorities that are inherited
along chains of owners and given back; differences in the delta lists; a power
failure at any time while the flash is written or erased; an automaton that two tasks
step without a lock (`timeNext`); a serial line whose two ends tell answers apart by
their order alone.

`PROJECT.json` lists the hazards one by one, each at its line, with the properties
that guard it.

## The modules

    AALists <- AADelays <- AAKernel <- AAMutex <- AASema <- AASignal <- AATask <- AARtk
                  ^                       AALock ..refined by.. AARtkProps <- MCRtk
                  |
          AADelayPromise ..refined by.. AADelayList
          AATimerPromise ..refined by.. AATimer <- AATicks (with AADelayList)
          AASunWifi <- AASunTime
          AASunFlash
          AASunDivert <- MCDivert

    proofs:  AAListProofs, AAKernelInv <- AAKernelProofs
             AARtkProps <- AARtkInv <- AARtkProofs, AAObjectsInv <- AAObjectProofs
             AAListProofs, AATicks <- AATicksProofs
             AASunFlash <- AASunFlashProofs
             AASunDivert <- AASunDivertInv <- AASunDivertProofs
             AASunTime <- AASunTimeProofs

(`<-`: is extended by.) Eight modules hold lemmas and theorems: `AAListProofs`,
`AAKernelProofs`, `AARtkProofs`, `AAObjectProofs`, `AATicksProofs`, `AASunFlashProofs`,
`AASunDivertProofs` and `AASunTimeProofs`; `AAKernelInv`, `AARtkInv`, `AAObjectsInv` and
`AASunDivertInv` only define what is proved inductive.

**The kernel.** On this single core chip everything the kernel does happens in
critical sections, with interrupts off. `AAKernel` holds the tables of the kernel as
one record `k`, whose fields are those of the C structures (`state`, `priority`,
`waitingList`, `pOwner`, ...), and the internal functions as operators from tables to
tables: `AddReady`, `RemoveReady`, `PutInList` (`aaTcbPutInList_`), `RemoveFromLists`
(`aaRemoveTaskFromLists_`), `NewPrio` (`aaMutexNewPrio_`), `Propagate`
(`aaMutexPropagate_`), `Schedule`. `AAMutex`, `AASema`, `AASignal` and `AATask` then
have **one action per critical section** of each service. A call that blocks is two
actions: what is done before the switch, and what the task does when it runs again.
The variable `pc` says per task which blocking call it is in, `arg` about which
object; `isr` tells whether a handler is at work, and `flushing` that a critical
section is being run that empties a semaphore (one step per waiter, nothing else
being possible meanwhile). `AARtk` adds the tick interrupt and the initial state and
joins all the services: any task may make any call at any time. `AARtkProps` states
the properties, `MCRtk` the small instances.

Conventions of the kernel modules:

* Lists are sequences of tasks, head first. `AddOrdered` is `aaListAddOrdered_`: a
  task goes behind its equals.
* A call that returns an error changes nothing and is not a step. The checks of the
  arguments, which the code makes before the critical section, are merged with it.
* The switch at the end of a critical section (PendSV, taken as soon as interrupts
  are on) is part of it: `Schedule` is `aaSchedule_` and the switch.
* A delay is kept as the number of ticks left, per task, next to the order of the
  delayed list. `AADelayList` keeps what the code keeps, the differences between
  neighbours. It implements `AADelayPromise`, which is made of the very operators of
  `AADelays` that the kernel modules use: the run `Ticks` checks it, and
  `AATicksProofs!TasksKeepTheirDelays` proves it.
* The handlers other than the tick are `SemGiveFromIsr`, `SemFlushFromIsr`,
  `SignalSendFromIsr` and `IoResumeFromIsr`; they also come between two expired tasks
  of the tick handler, where the code opens its critical section.
* What the code leaves to its users is a guard: a semaphore that is being deleted is
  not used (`aasema.c:177`), the idle task is neither suspended, deleted nor blocked,
  tasks use objects that exist.

**`AALock`** is what the mutexes promise without lists, priorities and time-outs: one
owner, hand-over to a waiter, no barging. `AARtkProps` maps the tables to it
(`LockSpec`).

**The timers.** `AATimer` is the delta list of `aatimer.c` with the call backs outside
of the critical section; it implements `AATimerPromise`: a timer calls back exactly
its time-out after it was started. A call back that starts or deletes its own timer
answers 0 (it is undefined in the code what happens otherwise), and nobody uses a
timer while it is being deleted. `AATicks`
puts both lists under one tick handler, as `aaTick_` does: it wakes the tasks whose delay
is over, one critical section each, then calls the timers back.

**The flash.** `AASunFlash` models the energy sector (slots written one after the
other, the sector being erased when it is full) and the ring of history sectors
(`histoWrite` writes today's and erases the oldest). A slot or a half of a history
sector is a record (a number), `Erased`, `Dirty` (its first word reads as erased, the
rest is not) or `Torn`. Each write or erase is a step of its own; the power may fail
in the middle of it, and then leaves anything such an operation can leave. The
energy record is found by its first word, as in `energyFindLast`; the history by the
first virgin sector, as in `histoFindNext`. A second task reads the history, in three
steps: the index, the check, the record, because it takes the SPI semaphore twice.
`may`, `spoilt`, `stale`, `done` and `broken` only remember what the properties need.

**The diverter.** `AASunDivert` has two tasks that preempt each other and their users.
`diverterNext` is one step per iteration of its loops: `NextBegin`, `StopCheck` or
`NoStop` for each channel, `StartCheck` or `NoStart` for each forcing, `Divert` (which
channel to divert to), `Switched` (the wait for the meter task), `Preempt` and `Begin`
for each channel; `pc` and `ix` are the place in it. `Meter` is `divProcessing`, one step
because the meter task has the highest priority: it may come between any two steps of
the main task. The other actions are the calls of the users: those of the console are
made by the main task, hence between two passes (`pc = "idle"`); those of the web server,
which has a lower priority (`wizLan.c:1290`), happen while the main task waits, that is
between two passes or **in the middle of one**, while it waits for the meter task
(`MainWaits`). A call that reads and then writes without a critical section is two steps
(`Ask`, `AskSet`; `WebInvalidate`, `WebSet`; `ReadCfg`, `ReadCfgEnd`).

* A forcing is a record with the fields of `forceRules_t`: its `rule` (what the user
  sets), `on` (`FORCE_FLAG_ON`), the set of its `status` bits, and the counters of its
  automata. `Second` is the part of `forceRuleCheck_` that counts (DMIN, DMAX, phases of
  a burst), `AutoNext` is `forceAutoNext`, `Started` and `Stopped` are `forceStart` and
  `forceStop`; next to each, an operator `...Io` says what it does to the output.
* `dfStatus` holds for each channel the number of a forcing, `Diverting` or `Empty`, in
  the order of their priority, as the byte does in the code.
* An output is `"off"`, `"on"` (by a forcing) or `"div"` (the meter task modulates it).
  How much power the diverter lets through is left out.
* Whether the expressions of a rule are true (power, time, temperature) is chosen anew at
  each check (`RuleResults`, `DivRuleResults`).
* Counters are unsigned and wrap at `Wrap`, 2^16 in the code.
* `asked` remembers what a user asked diverting to be, `age` how many seconds ago a
  forcing switched its output; nothing depends on `age`.

**The Wi-Fi link.** `AASunWifi` is one end and the other of the serial line: `wifiNext`
on the board, one step per call (`RxHdr`, `RxReq`, `TxEnd`, `SyncSend`, ...), and
`message_exchange`, `wifiRequest` and `uartSynchronize` in the module, whose tasks share one
mutex, so that it has one exchange at a time (`exchange`). The module asks, the board
answers; a wish of the board (the date) is answered to the poll of the module (`"req"`).

* Of a message the model keeps its kind and which byte of it is missing (`cut`): one of the
  magic, the only field that either end checks; one of the identifier or of the length, whose
  end is then the first byte of what follows; or one of the data. A shifted length is beyond
  any buffer (`"size"`: the header of a message without data is completed by the `0x11` of
  the next magic, which makes a length of at least `0x1100`, where the module has 2048 bytes,
  `global.h:50`) or stops short of the end (`"part"`). What is missing is made up by the
  first byte of the next message (`HeaderIn`, `Complete`), whose rest begins no header
  (`GivenUp`, `Left`). A message on its way counts as received: the line is as fast as its ends. `skewed`
  says that the buffer of the module does not begin with a header.
* `esp = "stuck"` is the module in the second loop of an exchange (`http.c:646`, `244`) with a
  length that its buffer cannot hold: only `Die` gets it out (disagreement 34).
* `old` marks what the module has ceased to wait for, and `steady` that nothing has gone
  wrong since both ends were synchronized; nothing depends on them.
* `Lose` loses the last message, or a byte of it, and damages no message twice; `Die` and `Start` switch the module off and
  on. `Silent` is what a time-out needs: no answer is under way.
* `RxDataTimeout` is the time-out of 200 ms that is tested before the message (`wifi.c:451`):
  a loop of the board that comes that late drops a message that is there, which ends `steady`.
* `Busy` (the module keeps its mutex, without a word to the board, for longer than the board
  waits) is not part of what the runs that pass assume; see disagreement 29.
* `WM_ID_GET_INFO` at the start of the module, and the second `uartSynchronize` after it
  (`http.c:701`, `824`), are folded in `Start`; the data of telnet may be the answer to a poll
  (`RxReq`), before a request that waits, and its buffers do not overflow.

**The clock.** `AASunTime` extends it with `timeNext`, in steps: the case of the `switch`
with the request it makes, then the store of the new status, since the main task (console,
delay, meter, daily update) preempts the task of the network (DNS, SNTP, Wi-Fi) anywhere
between them; the other way round only while the main task waits in `timeDnsRequest`
(`MainWaits`). `pc` tells per task where it is. `WifiStep` is a call of `wifiNext` together
with what it tells the automaton.

* `LinkyStd` says whether the meter sends the date. `Spec` is the system without it and
  without the commands of the console, `FullSpec` the whole.
* Three bounds on time: a delay or a time-out does not end before the call that started it
  (`Starting`: they last seconds); the minute between two rounds is longer than a date takes
  from the module to the board (`DateOnItsWay`); the daily update does not begin in the very
  second in which another update ends (`Settled`).

## The runs

All runs of the kernel use `MCRtk` with an idle task (priority 0) and two or three
tasks. `AARtkProps` is checked for a subset of the services at a time, as the
constants `MutexControl`, `SemControl`, `TaskControl`, `NewPrios`, `IoDelays`,
`SignalSets` switch groups of calls on and off; the other services stay in the
specification with empty sets of objects. Two tasks are needed for any contention,
three for an inversion, a chain of owners or an order among waiters; recursion needs
a count of 2 (`MaxCount`, in `Inherit`); `Infinite` stands for `AA_INFINITE`: a task that waits that long is at the end of the
delayed list and is not counted down. It is 2, so finite time-outs are 1 tick long: all
that are running end at the same tick, which is the case to check, since the handler wakes the tasks one by one
and lets other handlers in between. Time-outs of different lengths are the subject of
`Ticks`.

| run | instance | shows |
|---|---|---|
| `Inherit` | 3 tasks of different priorities that change each other's, 1 mutex, recursion 2, fair tasks | `Inherited`: no waiter outranks the owner. `NotAboveNeed`: a raised priority is given back in time. `WaitersSorted`: a waiter whose priority changes is moved. `UrgentGetsMutex` (liveness): the most urgent task gets the mutex even if the task in between never stops |
| `Mutexes` | 3 tasks, 2 mutexes, time-outs, wake-up, create, delete | `TypeOK`, `MutualExclusion` (also while the mutex is handed over), `WakeCauseTold` (time-out against give), `LockSpec` (refinement of `AALock`) |
| `Signals` | 2 tasks, 2 signals, sets of one and of both, wake-up | `NoSignalMissed`, `RunsHighest` |
| `Waits` | 2 tasks of the same priority that delete and create each other again, yield and suspend, 1 semaphore (create, delete, flush, reset), 1 driver, delays (0 too) | `PermitsConserved`: gives and successful takes balance whatever comes in between, except that a task deleted before it returns takes its permit along. `TcbNotShared`: a control block is in one hand at a time. `NothingAvailableIsWaitedFor`, `ListsAgree`. `TimeoutsExpire` (liveness): every finite time-out ends the wait |
| `Ticks` | 3 tasks with delays 1, 3 and infinite, 2 timers with time-outs 1 and 2 | the delta lists implement `AADelayPromise` (`KeepsDelays`) and `AATimerPromise` (`KeepsPromise`): every task and every timer has its own number of ticks, whatever tasks, handlers and call backs add and remove meanwhile |
| `Flash` | 2 slots, 4 sectors, 5 days, 1 power failure | `RestartReadsSaved`, `HistoryKept`, `NoHalfRecord` |
| `Diverting` | 2 forcings on 2 SSR, rules set, enabled, read again and ordered, diverting toggled | `Registered`: what `dfStatus` names is what runs. `NotDiverted`: no SSR is forced and diverted to. `HighestFirst`: priorities prevail. `NoneLeftOn` |
| `Forcing` | two forcings on one relay, whose rules are replaced while they run by a burst of ratio 1/3 with DMIN 2, a 100 % burst with DMAX 4 or an automaton (2 s on, 1 s off, filter of 4), and are ordered by hand | `RelayFollows`, `DminKept`, `DmaxKept`, `AutoKept` |
| `SwitchLive` | the forcings of `Diverting`, configuration read again, default configuration, rules from the web page, diverting toggled | `SwitchEndsIfEnabled` (liveness): the wait for the meter task ends if diverting is enabled again and again |
| `Clock` | 1 message lost, or a byte of it, the module off and on at any time, link up and down, a browser that asks, no meter | `AnswerIsMine`: no exchange gets an answer that an earlier one left behind, nor the answer to an earlier one. `StaysInSync`: while nothing goes wrong nothing is missed. `ExchangeEnds`, `Recovers` (liveness): the module neither reads garbled messages for ever nor, unless an answer loses a byte of its identifier or length, waits for ever. `SomebodyWillCall`: whatever `timeNext` waits for will call it. `RequestKept`: a date the history waits for is asked for. `RoundGoesOn` (liveness): a round gets past network and Wi-Fi |
| `NestedOwner` | the calls that matter | finds disagreement 1 [below](#where-the-code-and-its-comments-disagree) |
| `DailyLost` | `FullSpec`: the console and the meter too | finds disagreement 24 |

`RunsHighest` is a property of `Signals` only, because flushes of three tasks and mutexes
break it (disagreements 2 and 5), and `Diverting` has neither rules from the web page nor
the default configuration, which break `Registered` and `NoneLeftOn` (15 and 16).

Bounds of `Flash`: with 4 sectors the ring wraps after the fourth day, with 2 slots
the energy sector is full after two saves; `HISTO_MAX` is 32 in the code, a power of
2, hence `& (HISTO_MAX - 1)` where the model has `%`. The second failure is what the
proof adds.

Bounds of `Clock`: one loss is enough to skew the link once, and a restart of the module
may come before or after it; the automata have no counters, and the two lists of messages
stay short by themselves, since each end waits for the other. The exception is a poll of
a skewed link, which is answered at once by what lies in the buffer: the model lets the
module poll then only if the board has read the last one and no more than `Lag` messages lie
there.

Bounds of the diverter runs: two forcings are enough for a priority to displace another,
two channels for both SSR, a third for the relay, which diverting does not touch. A
period of the burst is 3 seconds (240 in the code) so that both phases, of 1 and 2
seconds, have their own length; counters wrap at 8, above every delay in use. `AgeMax` is
above every delay that a property compares with (5 in `Forcing`;
0 elsewhere, where no property reads it). The code has 8 forcings and 4 channels; the
proofs are for any number.

**Fairness of the diverter.** `LiveSpec` of `AASunDivert` assumes that the meter task keeps
running, which the half periods of the mains wake, at the highest priority of the system,
and that the main task keeps making its steps, which it does whenever it is ready since
only the meter task outranks it for long. Users are not fair.

**Fairness of the clock.** `TimeSpec` assumes that both tasks go on with the call of
`timeNext` they are in (strong, since each waits now and then for the other), that the loop
of the low priority task comes back to `wifiNext` (3 ticks), that a network cable is plugged
in now and then, that DNS and SNTP succeed or time out while it is, that the module reads
what it received, and that browsers keep asking. The last one is what `Recovers` hangs on:
only the request of a browser synchronizes a skewed link (disagreement 31). `ExchangeEnds` has
a premise, no byte of an identifier or of a length is lost on the way to the module
(`SizeLost`): without it TLC finds the hang of disagreement 34. No fairness is
assumed of polls, losses, or the start of the module.

**Fairness of the kernel.** `LiveSpec` of `AARtk` assumes that the tick interrupt keeps
coming and that its handler and a flush end: the SysTick is periodic, and handlers and
critical sections run without waiting. The fairness of the tick is strong: an interrupt
that arrives while interrupts are off, or while another handler is at work, stays pending
in the NVIC and is served when they end, so a task that enters critical sections again
and again cannot keep it away. `FairSpec` adds, for `UrgentGetsMutex` only, what a sane
application does: a task that gets to run again and again ends the call it is in, and
gives the mutexes it owns (strong fairness, since a task runs only when the scheduler
chooses it). No fairness is assumed of the task in between, which may run for ever.

## The proofs

Checked by TLAPS (`tlapm`), for every value of the constants that the named
assumptions allow.

* `AASunFlashProofs!TypeCorrect`: `Spec => []TypeOK`. The part that matters is that
  the index is inside the sector whenever a slot is written.
* `AASunFlashProofs!SavedIsRead`: `Spec => []RestartReadsSaved`, for every number of
  slots and of power failures. `RestartReadsSaved` alone is not inductive: the proof
  needs that the slots are filled from the first on up to `energyNextWriteIx`
  (`FilledInOrder`), that 0 is among what may be found while the sector is being
  erased (`NothingMayBeFound`), and that a sector wiped by command holds nothing until
  it is used (`NothingInWiped`). `FilledNext` shows that the scan of `energyFindLast`
  finds the end of slots filled in order; `LeftEnergy` says what a power failure can
  leave. The assumption is `FlashAssumption`.
* `AASunFlashProofs!HistoryIsKept`: `Spec => []HistoryKept`, for every number of sectors.
  The invariant (`RingInv`) speaks of the age of a sector (`AgeIsRank`: the inverse of
  `histoCheckRank`) and holds in the middle of a record and while the power is off too: a
  record of age *a* is of the day `Recorded - a` at most (`Aged`), later records are of later
  days (`InOrder`), the recent days are there (`Present`), and the sectors before the next
  one are used while those behind it are all used or all erased (`UsedUpTo`). The last part
  is what the start needs: `histoInit` looks for the first sector that reads as erased, and
  `FoundAgain` and `FoundBehind` show that it finds the sector the ring was at, or the one
  after it if the power failed in the record of a day.
* `AASunFlashProofs!RecordsAreWhole`: `Spec => NoHalfRecord`, from `PairInv`: as long as the
  power has not failed only the sector in the middle of a record is not `Whole`, and then
  the main task has the semaphore.

**The kernel** (`AARtkProofs`). Assumptions: `KernelAssumption` (tasks are finitely many,
the idle task is one of them, mutexes, semaphores and drivers are different things),
`StartAssumption` (only the idle task has priority 0, and it is started),
`DelayAssumption`, `MutexAssumption`, `SemAssumption`, `SignalAssumption` and
`TaskAssumption` (the values the calls are made with); any number of tasks, mutexes,
semaphores, drivers, signals and priorities. Every action of
the kernel is covered, those of the interrupt handlers and of the tick included.

* `Invariant`: `Spec => []IInv`. `IInv` (`AARtkInv`) has five parts: the calls are
  typed (`CallsTyped`); the tables are well-formed (`Running`, from `AAKernelInv`: each
  list holds the tasks whose state says so, each once; a task waits for the object in
  whose list it is; the idle task and the current one are ready); outside of the tick
  handler no delay in the list is over (`Pending`); control blocks are in one hand at a
  time (`Tcbs`); and the flush that `aaSemDelete` begins with leaves no waiter
  (`Deletes`).
* From it: `TypeCorrect` (`TypeOK`), `ListsAlwaysAgree` (`ListsAgree`), `TcbsNeverShared`
  (`TcbNotShared`), `NoWaitForTheAvailable` (`NothingAvailableIsWaitedFor`).

Why none of these is inductive by itself: that the remaining delay is a number needs
that the handler has taken every expired task out before the next tick comes, and that
the delayed list is in ascending order, so that looking at its head is enough; that a
list holds a task once needs that a task is in the list of its state before it is moved;
that a control block is handed out once needs that no other task is in the middle of
`aaTaskCreate` or `aaTaskDelete` with the same block (the state of such a block is
"none", and it is in no list); that nobody waits for a free object needs that the object
of a waiter was not deleted, which is what the flush in `aaSemDelete` is for.

The argument is layered. `AAListProofs` says what the operators on lists preserve:
no repetition, the set of members, ascending delays. `AAKernelProofs` says of each
internal function of the kernel what it does to the tables, in three lemmas per
function: the lists (`...Lists`), everything the lists do not hold (`...Facts`), and the
two together (`...Runs`); their parameters `F` (tasks that are between two lists) and
`T` (tasks whose wait is timed) describe the tables in the middle of a critical section.
`AARtkProofs` has one lemma per action (`...Kept`) on top of them.
`HighestWaitingIsBase` proves the consequence of disagreement 1: the loop of
`aaMutexNewPrio_` is never entered, so what it returns is the base priority.

* `StrictPreemption`: `Spec => []RunsHighest`, **if** `NoneLent` and `HandlersFlush` hold
  throughout. `NoneLent`: no mutex lends a priority; disagreement 5 is what happens when a
  giver falls back to its own. `HandlersFlush`: no task flushes a semaphore, or deletes one
  with waiters; disagreement 2 is what happens when one does (after a flush in a handler
  `aaIntExit` chooses anew). Everything else is free: delays, suspensions, changes of
  priority, semaphores, signals, drivers, mutexes whose owners are not outranked.

`RunsHighest` at the task level follows from `Foremost`, inductive on top of `IInv`: no ready
task outranks the one that runs. A service that makes tasks ready asks for the switch to
each of them that outranks the caller (`Asks`, from the `Asked` of the lemmas of
`AAKernelProofs`), and `ScheduleIf` makes it; `aaSchedule_` and `aaIntExit` choose the
head of the highest non-empty list (`SwitchForemost`), which needs that the bit map and the
ready lists agree (`ReadyAgree`, a part of `IInv`); all other steps make no task ready and
raise none (`StillForemost`).

**The mutexes, the semaphores and the signals** (`AAObjectProofs`), from the same
assumptions and for every action of the kernel:

* `ObjectsHonest`: `Spec => []OInv`, the second inductive invariant (`AAObjectsInv`). It
  relates the tables to the calls: a task waits in a state only in the call of that state and
  for the object it asked for, and has not been told anything yet (`MutexCalls`, `SemCalls`);
  a taken mutex has an owner, the mutexes in the list of a task are its own, and a task in
  `aaMutexTake` whose wait is over finds `DELAYTMO` exactly if the mutex is not its own
  (`Owners`).
* From it: `MutexesExclude` (`MutualExclusion`), `TheCauseIsTold` (`WakeCauseTold`),
  `NoSignalIsMissed` (`NoSignalMissed`).
* `MutexesAreLocks`: `Spec => LockSpec`, the refinement of `AALock`: each action is a take, a
  wait, a give, a hand-over or the end of a wait of the abstract lock, or a stutter but for
  the task that runs.
* `PermitsAreConserved`: `Spec => PermitsConserved`, by the cardinality of the set of the
  tasks that were given a semaphore and have not run (`Granted`): a give raises the count or
  adds one task, a take lowers it or removes one, everything else leaves both alone.
* `WaitersStaySorted`: `Spec => []WaitersSorted`, **if** `OwnersNeverWait` holds throughout:
  no task that owns a mutex waits for another one, or for a semaphore. Disagreement 4 is what
  happens when one does.
* `LoansAreNeeded`: `Spec => []NotAboveNeed`, **if** `OwnersNeverWait` holds throughout and
  every step is one of `WaitersNotLowered`: nobody lowers the priority given to a task that
  waits for a mutex. `aaTaskSetPriority` does not take a loan back: disagreement 33.
* `PrioritiesAreInherited`: `Spec => []Inherited`, **if** `OwnersNeverWait` holds throughout
  and every step is one of `GivenAlone` (a mutex is given back only when its owner inherits
  through no other), of `NoneInVain` (a wait for a mutex ends by time-out, `aaTaskWakeUp` or
  `aaTaskDelete` only when the owner inherits from no other waiter) and of `SetAbove` (the
  owner of a mutex is not set below its waiters). Disagreement 1 is what happens without the
  first two. Each of the four is needed: without it TLC finds a state that is not `Inherited`.
* `OneMutexIsInherited`, `OneMutexLoansAreNeeded`, `OneMutexStaysSorted`: the same three
  invariants with conditions on the constants only, so for every behaviour, with any number
  of tasks, signals and drivers. `OneMutex`: there is one mutex and no semaphore (all three).
  `SetsHighest`: priorities are set, if at all, to the highest one only (the first two).
  `WaitsForEver`: mutexes are waited for with no time-out, and no task wakes or deletes
  another (the first). The constants of `Inherit` are such, so what that run checks for three
  tasks is proved for any number.

`MutualExclusion` alone is not inductive: between the give and the end of `aaMutexTake` the
new owner has the mutex in no list, and only the flag tells it apart from a task whose wait
was in vain. So the proof follows each task through the step. Every action is `Honest`, and
most are because they are `Calm`: each task stays in its call and its wait (`GoesOn`), or it
is the one whose wait ends in vain (`IsEnded`), or it has nothing to do with the objects
before and after (`Elsewhere`); `CalmHonest` does the rest. What is left are the actions that
ask for an object, give it or take it. That a critical section of `AAKernel` ends one wait at
most is `Quiet` or `Mild`, from the lemmas of `AAKernelProofs` and `AARtkProofs`.

For the theorems on priorities, `Sorted` says of each waiting list that the value of a node is the
priority its task has now, and that the list is in that order; `Lent` is `NotAboveNeed` as a
predicate on tables. Each is inductive on top of `IInv` under its condition. A step either
touches none of the fields in question (`SameQueues`), or changes them where nobody waits
(`SameRanks`), or is one of four: a task leaves a list (`Shortened`: a give, a time-out, a
deletion), joins one (`Joined`, and `MayLend` what it lends), or has its priority set
(`SetPriorityRanks`). `OwnersNeverWait` is what makes priorities change outside of
the lists only (`OwnerNotListed`), and what ends the walk of `aaMutexPropagate_` at the owner
(`RaisedOwner`): nothing is left to move but the task whose priority is set.

`Served` is `Inherited` as a predicate on tables. It is not
inductive without `Sorted`: a give hands the mutex to the task at the head of the list, which
must be the most urgent one (`HeadHighest`), since nothing is lent to the new owner. Whatever
lowers an owner lowers it to its own priority, because the loop over its mutexes is never
entered; the three conditions on steps say that nobody needs more. `Above` are the waiters
that the owner has its priority from; `OnlyLender` says of a task that the owner has it from
no other. A wait that ends by time-out is then harmless in both cases: either the task was
the only one above the owner's own priority, or there was none (`WakeByTimeoutServed`,
`DeletedServed`); a give with nothing lent through the other mutexes leaves the giver above
their waiters (`MutexGiveServed`). The steps that change none of this keep both invariants at
once (`KeepsLoans`), which is how one lemma per action serves three theorems.

For the theorems with one mutex the conditions follow from the constants (`OneOwnerRuns`,
`OneGivenAlone`, `HighestSet`) but for `NoneInVain`, which needs an invariant: who waits for a
mutex has an infinite delay (`Patient`). Each critical section `Spares` all tasks but one,
whose state or delay it changes (`OthersSpared`, `PriosSpare`), and that one is given what it
waited for, or was not waiting for a mutex (`NoWaitInVain`); the tick handler takes out tasks
with a delay of 0 only. That there is no semaphore is what the proof uses to have
`OwnersNeverWait`. `WaitersSorted` needs it; for the other two TLC finds nothing wrong with
three tasks and one semaphore, and what they need instead is not proved.

**The tick and its two lists** (`AATicksProofs`), for any number of tasks and timers, any
delays, infinite ones included, and any time-outs, under `TicksAssumption` (delays are at
most `AA_INFINITE`), `TimerAssumption` and `DelayAssumption`:

* `TimersAreTyped`: `TicksSpec => []TypeOK`.
* `TimersKeepTheirPromise`: `TicksSpec => KeepsPromise`. The list of differences of
  `aatimer.c` implements `AATimerPromise`: a timer is called back exactly its time-out
  after it was last started, whatever is started, stopped or deleted meanwhile.
* `TasksKeepTheirDelays`: `TicksSpec => KeepsDelays`. The list of differences of
  `aakernel.c` implements `AADelayPromise`. This is what lets the modules of the kernel,
  and their proofs, keep a count of ticks per task.

The argument is the same for both lists. A list `l` with the values `v` in its nodes is
`Spaced` for the counts `c` when each value is the count of its node less that of the node
before, or is infinite. From this counts never decrease along the list (`CountsAscend`),
which is why looking at the head is enough. There is one lemma per operation: taking
a node out, its value going to the next one (`RemovalKeepsCounts`); putting one in where
the walk stops, the next one losing as much (`InsertionKeepsCounts`); one tick less at the
head only, which is one less for all (`TickCountsDown`). The walk needs a lemma of its own
(`WalkStops`): it subtracts values as it goes, those of the nodes that wait for ever too,
but it never goes past the first of these. The invariants `TimersCount` and
`DelaysCount` say that the list is `Spaced` for what is left, `Left`, and that nothing is
due between two ticks: without that a tick would make a count negative, and the head
would not be the first to go. `Left` is a recursive sum over the list. What it computes is
not proved by induction: any function that starts like it and goes on like it agrees with it
(`OneSolution`: there is no least place where they differ), and the counts are such
a function (`LeftCounts`, `DelaysCountedIsLeft`).

**The diverter** (`AASunDivertProofs`), for any number of forcings and channels, any rules
and any period, under `DivertAssumption`:

* `TypeCorrect`: `Spec => []TypeOK`.
* `RegisteredHolds`, `NeverDiverted`, `HighestIsFirst`: `Spec => []Registered`,
  `[]NotDiverted`, `[]HighestFirst`, **if** `Configured`: every forcing has rules, and only
  the main task replaces them (no default configuration, no rule from the web page). Each
  part is needed: disagreements 18, 15 and 16 are what happens without it.
* `NothingIsLeftOn` and `RelaysFollow`: `Spec => []NoneLeftOn` and `[]RelayFollows`, **if**
  `Configured` and `Exclusive`: no rule in AUTO mode has a burst. `cfgParameters.h:246` says
  so of the configuration; the compiler of the rules does not see to it (disagreement 20).
* `DmaxIsKept`, `DminIsKept`, `AutoIsKept`: `Spec => []DmaxKept`, `DminKept` and `AutoKept`,
  **if** `Configured`, `Exclusive` and `LongAge`. `age`, the time since a forcing started or
  its automaton switched, is not in the code: it stops at `AgeMax` so that TLC has finitely
  many states, and `LongAge` says that `AgeMax` is not less than any time in a rule. It holds
  of the configuration of `Forcing`, and of any rules for a suitable `AgeMax`.

`Registered` speaks of the time between two passes, so the invariant `RegInv` must say what
holds in the middle of one. Until forcings are stopped and started `dfStatus` is exact
(`DfExact`), while `tempStatus` is worked out from it: it gives channels to forcings of
that channel only (`TempOfChannel`), of a priority no lower than the one that has it
(`TempPrevails`). After the loop that stops, on each channel visited nothing runs but what
was chosen (`Displaced`); after the loop that starts, what was chosen runs (`Chosen`). At
the end `tempStatus` is therefore exact, and becomes `dfStatus`.

`NotDiverted` needs the handshake (`MeterInv`): only the diverting channel is modulated
(`OnlyOneDiverts`, `IndexIsChannel`); neither it nor the one asked for is where a forcing
runs (`NotWhereRuns`) nor, once the wait is over, where one was chosen (`NotWhereChosen`);
nothing is asked for outside of a wait (`NoneAsked`). It rests on `RegInv`: that a channel
on which a forcing runs is not diverted to follows from `dfStatus` being exact.
`HighestFirst` follows from `StartsHeeded`, which says of the start rules checked so far
what `HighestFirst` says of all.

The outputs (`OutInv`) are equal to what the forcings that run ask for, at every step of a
pass: what is on is driven (`OnIsDriven`), a relay that is driven is on (`DrivenIsOn`), and
only the automaton of a forcing that runs in AUTO mode is not at rest (`AllFit`, without
which a stopped forcing could be started in the middle of a cycle, its output off). That
one forcing's stop does not switch off another's output is `RegInv` again: there is one
forcing per channel. The delays (`DelayInv`) are a relation between what is left of each
(`delayCount`, `counter`, `kfCounter`) and the time that has passed (`Limited`, `Cycled`),
with one second of difference between the place of a pass that counts it and the others
(`StopPending`, `BeginPending`). It must also say that what was chosen runs or has its start
rule true (`StartsTrue`): otherwise the second half of a pass could start an AUTO forcing
in `OFF`, with no minimum time to wait for. Each operation on one forcing is a lemma about a
record (`StoppedRests`, `StatusCounts`, ...); the actions are put together from them.

**The clock** (`AASunTimeProofs`), for any number of losses, any requests of the module and
a meter or none, under `WifiAssumption` and `TimeAssumption`:

* `Invariant`: `Spec => []TimeInv`, and from it `TypeCorrect` (`TimeTypeOK`),
  `WillBeCalled` (`SomebodyWillCall`), `StillAsked` (`RequestKept`) and `CallersExclude`
  (`NeverTogether`: `timeNext` has no lock, and its two callers are never in it together).
* `AnswersAreMine` and `InSync`: `Spec => []AnswerIsMine` and `[]StaysInSync`.

`Spec` is the system without the steps of the meter and of the console, and with the
three bounds on time above; `DailyLost` and disagreements 24 to 28 are what happens without
them. `SomebodyWillCall` speaks of the time when nobody is in `timeNext`, so the invariant
says for each place in it what must then go on (`Places`, `OnFor`): between the request and
the store of the status, what the *next* status waits for. That the main task does not come
in when its delay ends needs that the task of the network is there, that late in a round, for
the Wi-Fi module only, so that a call of `wifiNext` is under way (`CalledByWifi`). That a date
which comes after its time-out is not taken for the answer to a later request needs that
there is one date per request, and none under way when the next request is made (`OneDate`,
`LateDate`). Of the messages the proof uses only which kinds a buffer holds: what is read,
lost, damaged or left after a damaged one is a part of the buffer (`Part`, `PartOf`, `LeftIs`), so nothing that was not
asked for appears (`ModuleSteps`), and a step of `wifiNext` asks for nothing new or takes the
only date (`BoardSteps`).

`AnswersAreMine` and `InSync` rest on two invariants of the link alone. `LinkInv`: unless its
buffer is garbled the module begins an exchange with nothing in it, and nothing on its way to
the board but the end of a synchronization; once there is something to read, the board has
nothing left to answer. The reason is that the board clears what it has received whenever it
transmits (`wifiRxStart`), and sends a SYNC only to a module that
waits for the rest of a message (`Heeded`, which `HeedIs` shows to be what it heeds): so what
is there with a second message is a damaged one, which leaves the buffer garbled, or the
module stuck, and only a synchronization ends that, with the buffers
empty. `SteadyInv`: while nothing goes wrong, one request is on its way, or one answer, whole.
`BoardMoves` reduces the steps of `wifiNext` to the five things they do to the buffers.

Only model-checked: liveness (`UrgentGetsMutex`, `TimeoutsExpire`, `SwitchEndsIfEnabled`,
`ExchangeEnds`, `Recovers`, `RoundGoesOn`), which is out of the reach of this prover. Every
safety property of the runs that pass is stated by a theorem, some under the conditions given
above (of the kernel `RunsHighest`, `WaitersSorted`, `NotAboveNeed` and `Inherited`): the
disagreements below are what happens without them.

## Where the code and its comments disagree

Found while the model was written. 1 and 24 have a run. The others that the model
reproduces say with which change of a configuration TLC finds them.

1. `aamutex.c:305` (`NestedOwner`): `aaMutexNewPrio_` scans the owned mutexes only if
   their list is empty (`aaListIsEmpty (...) == 1`, where the comment says "List of
   owned mutexes not empty"), so a task that gives one of two mutexes loses what it
   inherits through the other. With a finite time-out one mutex is
   enough: a waiter that times out takes the owner down to its own priority although another
   that outranks it still waits (`Inherited` fails with `TakeDelays = {1, 2}` in `Inherit`).
2. `aasema.c:416`: `aaSemFlush` keeps only the last answer of
   `aaTcbPutInList_`, that of the least urgent waiter, so a more urgent one may be
   ready and not run until the next scheduling point (`RunsHighest` fails with three
   tasks of different priorities, a semaphore and `"flush"` in `SemControl`).
3. `cfgParameters.c:741`: `histoFlashErase` leaves
   `energyNextWriteIx`, so saves after it are not found by `energyFindLast`
   (`RestartReadsSaved` fails without `~ stale`).
4. `aamutex.c:256`: `aaMutexPropagate_` raises the priority of an owner that waits
   for another mutex, but not the value of its node, so it is put back at its old
   place and the waiting list is no longer sorted by priority (`WaitersSorted` fails
   with two mutexes).
5. `aamutex.c:587-600`: the request to reschedule of `aaMutexNewPrio_` is overwritten
   by that of `aaTcbPutInList_`: a giver that falls back to its own priority may go on
   although a third task outranks it now.
6. `aatask.c:701`: `aaTaskDelay (0)` leaves the task in no list at all: it sleeps until
   `aaTaskWakeUp` (the model has it: `delayForever` in `pc`).
7. `aatask.c:595`: a task that is deleted while it is itself between the two critical
   sections of `aaTaskDelete` or `aaTaskCreate` takes the control block it is holding
   with it; and the mutexes of a deleted task stay its own.
8. `aakernel.c:255`: the comment of `aaListAddOrdered_` puts a node before its equals,
   the code behind them.
9. `aasema.c:454`: `aaSemReset` stores a negative count as a large positive one.
10. `cfgParameters.c:269`: `writeCfg` reads the configuration back without the SPI
    semaphore, although `spi.c:131` says that it must be taken.
11. `cfgParameters.c:640`: if the power fails between the record of the day and the
    erase of the oldest, the start finds no erased sector, goes on at sector 0 without
    erasing it, and the next record is programmed over an old one.
12. `cfgParameters.c:606`: the reader computes the sector before it takes the
    semaphore and gives it between check and read, so `histoRead` may return `true`
    with a record that has been erased since, where its comment promises `false`.
13. `diverter.c:237-247`: when the diverting channel changes, the meter task
    switches off the other SSR, or both, also the one a forcing runs on; `forceStart` drives
    the output only when the forcing is not running yet, so it stays off until the forcing
    ends.
14. `diverter.c:2164`: the wait of `diverterNext` for the meter task never
    ends when diverting is disabled, and with it the main task, the console and all forcings
    (`SwitchEnds` instead of `SwitchEndsIfEnabled` fails in `SwitchLive`).
15. `cfgParameters.c:284`: `defaultCfg` replaces the forcings without stopping
    them; their outputs stay on (`NoneLeftOn` fails with `"default"` in `Calls` of `Diverting`).
16. `httpUtil.c:1168`: the web page replaces a rule while `diverterNext` waits,
    which then registers and starts what it chose for the old one (`Registered` fails with
    `"webRule"` in `Calls` of `Diverting`).
17. `httpUtil.c:834`: the state of diverting is tested and a toggle requested,
    while another toggle is pending or served in between: the result is the opposite.
18. `diverter.c:1660`: a manual order starts a forcing that has no rules, on
    SSR 1, and a second one does not stop it.
19. `diverter.c:220`: disabling diverting switches off both SSR, those that are forced too.
20. `diverter.c:1403`: burst and AUTO share `counter`, which `cfgParameters.h:246` calls
    exclusive while the compiler accepts both; a ratio of 0 % and AUTO times of 0 wrap it
    (1404, 1744), so that the phase lasts 65536 seconds.
21. `diverter.c:1223`: `pError += 100` adds to the pointer instead of the error number.
22. `diverter.c:1814`: the limit of the index into `p2Delay` is missing for SSR 1 (it is there
    for SSR 2).
23. `diverter.c:1402`: while DMIN runs the phases of a burst are not counted.
24. `timeUpdate.c:166` (`DailyLost`): when the date asked for by the command `wtime 1` (or
    `ltime 1`) does not come, `timeIsUpdated` stays 1, which `AASun.c:801` takes for "already
    requested": the daily update never comes again, and the history waits.
25. `timeUpdate.c:276`: the task of the network sets `bLinkyDateUpdate` and stores
    `STS_LINKY_WAIT` after it; the main task may bring the date of the meter in between,
    whose reset is then overwritten: the automaton stays in `STS_LINKY_WAIT` for ever, as the
    time-out of the meter is heeded under `bLinkyDateUpdate` only (`SomebodyWillCall` instead
    of `RequestKept` fails in `DailyLost`). `util.h:53` promises to try again each minute.
26. `timeUpdate.c:192`: `bLinkyDateUpdate` and a request in `wifi.c` stay on when the date
    comes from elsewhere. A second `wifiDateRequest` between the end of the transmission and
    the date (`wifi.c:625` switches its time-out off) stays without one: `STS_WIFI_WAIT` for
    ever (same configuration).
27. `timeUpdate.c:73-77`: `timeIsUpdated` is tested and set before the automaton is reset;
    a `utime` in between finds it busy, is reset with it, and leaves 1 for ever.
28. `AASun.c:2278`: `timeNext (true)`, "Reset date/time update", is `NEXT_RETRY`: the next
    source is asked.
29. `http.c:1002`: only `wifiRequest` heeds a SYNC. When the module keeps silent for 3 s
    with its mutex taken (`http.c:342` retries a POST for ever, `telnet.c:195`, the erase of
    its flash `http.c:772`), the board sends SYNCs, the next exchange takes the first for its answer, and
    each later one the answer of its predecessor (`AnswerIsMine` instead of `RequestKept`
    fails in `DailyLost`). A restart of the board does the same.
30. `timeUpdate.c:185`: the month of the Wi-Fi date is stored as `tm_mon`, which counts from
    0 (`http.c:989`, `localtime_r`), where line 178 prints it plus 1 and the command `time`
    wants 1 to 12.
31. `http.c:612`: `message_exchange` promises "else false (timeout)": it waits without
    time-out, and returns `false` for a bad magic only, upon which nobody but the request
    of a browser (`http.c:236`) synchronizes again. There is no checksum: a date whose data
    is shifted by a byte is stored.
32. `http.c:789`: the download of the web pages writes to the flash whatever is in the
    buffer, the answer or not.
33. `aatask.c:816`: a task that waits for a mutex "must propagate its new priority to the
    mutex's owner task", but `aaMutexPropagate_` only raises: when the new priority is a lower
    one, the owner keeps the old one until it gives the mutex (`NotAboveNeed` fails with
    `NewPrios = {1, 3}` in `Inherit`).
34. `http.c:646-656` and `244-254`: the length in the header is taken as it is, and its data is
    awaited without a time-out, against the same promise of `http.c:612` ("else false
    (timeout)"). A NACK that loses one of its last bytes is completed by the first byte of the
    next SYNC: a good magic and a length above the 2048 bytes of the buffer. The loop never
    ends, whatever the board sends, and the mutex stays taken (`ExchangeEnds` fails in `Clock`
    without its premise).
35. `wifi.c:451`: the time-out for the data of a message ("Time out elapsed: reset RX") is
    tested before the message: a loop that comes 200 ms late drops a whole one.

## What is not modelled

Queues and buffer pools (compiled out), the allocator, statistics, stack checks and
tick stretching, `aaTaskSuspend`/`aaTaskResume`/`aaTaskWakeUp` from handlers, two
tasks that delete the same object at the same time, the configuration sector and
`writeCfg`, the power samples of the day. Of the diverter: the control of the power (the
proportional and integral terms of `divProcessing`), the compiler of the rules and their
expressions, with the hysteresis of the temperatures, and the levels of a forced SSR. Of
the network: DHCP, telnet sessions and their ring buffers, the HTTP servers, the Wi-Fi
connection of the module, bytes of a message that are altered and not lost, two losses in one
message, and the alignment that eight lost bytes would bring back. Of the clock: the calendar and the counting of the soft timers.
No property covers: a negative count (9), the mutexes of a deleted task (7), the signals a
new task inherits from the former one of its control block (`aatask.c:323`), the checks made
before a critical section (`aamutex.c:170`), a call back that starts its own timer and asks
for a restart (`aatimer.c:222`).

Vendored code (HAL, CMSIS device headers, the W5500 library, TLSF) is nine tenths of the
lines of the repository; it, the external loader and formatting are left aside. Of the
code written for this project, what is not modelled is in the plan.

## The plan

1. *Kernel* and *flash* (done), in the order above, because everything else waits and
   preempts through the kernel.
2. *Diverter* (done): the handshake, the forcings and their automata. Left of it: the
   control of the power with its widths and limits, and the compiler of the rules as an
   operator on sequences of tokens.
3. *Wi-Fi link* and *clock* (done): the exchange over the UART and `timeNext`. Left of them:
   the telnet sessions with their ring buffers, the calendar, the soft timers.
4. The Linky frame receiver, the temperature conversion.
5. Configuration sector with its checksum, and the SPI bus with its three clients.
6. The allocator and the look-up of the file system as operators on sequences, checked
   against reference definitions.
7. Proofs: the two inductive invariants of the kernel and what follows from them are done;
   so are those of the tick lists, the flash, the diverter and the Wi-Fi link, and
   `RunsHighest` without disagreements 2 and 5, the order of the waiting lists without 4,
   `NotAboveNeed` without 4 and 33, and `Inherited` without 1 and 4, the last three without
   any condition on the behaviour for one mutex. Left: the same for one mutex to a task and
   any semaphores.
