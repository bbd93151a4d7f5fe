\* Units of 50 ms; sentences from 50 to 700 ms into the second.
SPECIFICATION Spec
CONSTANTS
  Sec = 20
  MinPeriod = 19
  MaxPeriod = 21
  Threshold = 3
  Timeout = 24
  First = 1
  Latest = 14
  Delay = 3
  MaxSilence = 68
  MaxLag = 3
INVARIANTS
  TypeOK
  Accurate
  NeverAhead
  Bounded
PROPERTY FreshEdge
