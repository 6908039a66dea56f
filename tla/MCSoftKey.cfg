SPECIFICATION KeySpec
CONSTANTS
  h1 = h1
  h2 = h2
  PrivateKeys = {h1, h2}
  Timeouts <- TwoTimeouts
  Declines = {"decrypt", "access"}
  Midway = FALSE
  MaxTime = 2
  MaxWrong = 1
  MaxMoves = 1
CHECK_DEADLOCK FALSE
INVARIANT AskedAgain
