SPECIFICATION TicksSpec
CONSTANTS
  Task = {lo, mid, hi}
  Infinite = 4
  Delays = {1, 3, 4}
  Timer = {tA, tB}
  Timeouts = {1, 2}
  None = None
INVARIANT TypeOK
PROPERTY KeepsDelays
PROPERTY KeepsPromise
