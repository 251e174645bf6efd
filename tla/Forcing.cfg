SPECIFICATION Spec
CONSTANTS
  ForceMax = 2
  ChanMax = 3
  Period = 3
  Wrap = 8
  Rules <- RelayRules
  Stored <- Timed
  Calls = {"manual", "setRule"}
  AgeMax = 5
INVARIANT RelayFollows
INVARIANT DmaxKept
PROPERTY DminKept
PROPERTY AutoKept
