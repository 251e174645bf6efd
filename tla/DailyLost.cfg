SPECIFICATION FullSpec
CONSTANTS
  Requests = {"cgi"}
  Losses = 0
  LinkyStd = TRUE
INVARIANT RequestKept
