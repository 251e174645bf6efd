SPECIFICATION Spec
CONSTANTS
  idle = idle
  lo = lo
  mid = mid
  hi = hi
  m1 = m1
  m2 = m2
  s1 = s1
  d1 = d1
  sigA = sigA
  sigB = sigB
  None = None
  Free = Free
  Task <- MCPair
  Idle = idle
  MaxPrio = 3
  Infinite = 2
  Mutex = {}
  Sem = {}
  Driver = {}
  Signal = {sigA, sigB}
  MaxCount = 1
  MutexControl = {}
  TakeDelays = {1}
  SemBound = 0
  SemCounts = {}
  ResetCounts = {}
  SemControl = {}
  SignalSets = {{sigA}, {sigB}, {sigA, sigB}}
  TaskDelays = {}
  IoDelays = {}
  NewPrios = {}
  TaskControl = {"wakeUp"}
  StartPrio <- Ladder
  StartTasks <- MCPair
  StartMutexes = {}
  StartCount <- NoCount
INVARIANT NoSignalMissed
INVARIANT RunsHighest
