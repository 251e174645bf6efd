SPECIFICATION LiveSpec
CONSTANTS
  idle = idle
  lo = lo
  mid = mid
  hi = hi
  m1 = m1
  m2 = m2
  s1 = s1
  d1 = d1
  sigA = sigA
  sigB = sigB
  None = None
  Free = Free
  Task <- MCEqual
  Idle = idle
  MaxPrio = 3
  Infinite = 2
  Mutex = {}
  Sem = {s1}
  Driver = {d1}
  Signal = {}
  MaxCount = 1
  MutexControl = {}
  TakeDelays = {1, 2}
  SemBound = 1
  SemCounts <- MCCounts
  ResetCounts = {0, 1}
  SemControl = {"create", "delete", "flush", "reset"}
  SignalSets = {}
  TaskDelays = {0, 1}
  IoDelays = {0, 1}
  NewPrios = {1}
  TaskControl = {"yield", "suspend", "create", "delete"}
  StartPrio <- Equals
  StartTasks <- MCEqual
  StartMutexes = {}
  StartCount <- NoCount
INVARIANT NothingAvailableIsWaitedFor
INVARIANT ListsAgree
PROPERTY PermitsConserved
INVARIANT TcbNotShared
PROPERTY TimeoutsExpire
