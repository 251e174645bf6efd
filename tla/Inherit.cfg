SPECIFICATION FairSpec
CONSTANTS
  idle = idle
  lo = lo
  mid = mid
  hi = hi
  m1 = m1
  m2 = m2
  s1 = s1
  d1 = d1
  sigA = sigA
  sigB = sigB
  None = None
  Free = Free
  Task <- MCTask
  Idle = idle
  MaxPrio = 3
  Infinite = 2
  Mutex = {m1}
  Sem = {}
  Driver = {}
  Signal = {}
  MaxCount = 2
  MutexControl = {}
  TakeDelays = {2}
  SemBound = 0
  SemCounts = {}
  ResetCounts = {}
  SemControl = {}
  SignalSets = {}
  TaskDelays = {1}
  IoDelays = {}
  NewPrios = {3}
  TaskControl = {"setPriority"}
  StartPrio <- Ladder
  StartTasks <- MCTask
  StartMutexes = {m1}
  StartCount <- NoCount
INVARIANT Inherited
INVARIANT NotAboveNeed
PROPERTY UrgentGetsMutex
INVARIANT WaitersSorted
