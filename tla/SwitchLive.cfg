SPECIFICATION LiveSpec
CONSTANTS
  ForceMax = 2
  ChanMax = 2
  Period = 3
  Wrap = 8
  Rules <- SsrRules
  Stored <- EachSsr
  Calls = {"readCfg", "default", "webRule", "toggle"}
  AgeMax = 0
PROPERTY SwitchEndsIfEnabled
