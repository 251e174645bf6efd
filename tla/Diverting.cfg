SPECIFICATION Spec
CONSTANTS
  ForceMax = 2
  ChanMax = 2
  Period = 3
  Wrap = 8
  Rules <- SsrRules
  Stored <- EachSsr
  Calls = {"setRule", "enable", "manual", "readCfg", "toggle", "ask", "webAsk"}
  AgeMax = 0
INVARIANT TypeOK
INVARIANT Registered
INVARIANT NotDiverted
INVARIANT HighestFirst
INVARIANT NoneLeftOn
