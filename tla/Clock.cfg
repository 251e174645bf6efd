SPECIFICATION TimeSpec
CONSTANTS
  Requests = {"cgi"}
  Losses = 1
  LinkyStd = FALSE
INVARIANT TimeTypeOK
 
INVARIANT StaysInSync
INVARIANT SomebodyWillCall
INVARIANT RequestKept
PROPERTY ExchangeEnds
PROPERTY Recovers
PROPERTY RoundGoesOn
