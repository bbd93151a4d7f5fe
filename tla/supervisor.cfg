\* t1 shares the processor with the supervisor, t2 is above it.
SPECIFICATION FairSpec
CONSTANTS
  t1 = t1
  t2 = t2
  SubsysCount = 3
  Tasks = {t1, t2}
  SubsysOf <- OneEach
  Above = {t2}
  Timeout = 3
  Period = 1
  DelayMax = 2
  PassMax = 1
  BeatMax = 1
  Wrap = 256
INVARIANTS
  TypeOK
  SilentBeforeKill
  NoKillSpam
  HungKilledInTime
PROPERTIES
  HungIsKilled
