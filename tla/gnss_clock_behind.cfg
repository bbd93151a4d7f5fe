\* The same receiver, and no pulse missing.
SPECIFICATION Spec
CONSTANTS
  Sec = 20
  MinPeriod = 19
  MaxPeriod = 21
  Threshold = 3
  Timeout = 24
  First = 1
  Latest = 14
  Delay = 3
  MaxSilence = 68
  MaxLag = 3
INVARIANT WithinSecond
