\* The last second of a day and the first of the next.
SPECIFICATION Spec
CONSTANTS
  Days0 <- MCDays0
  MaxSeconds = 1
  Configs <- MCConfigs
  Speeds = {9600, 115200}
  KillPoints = {"idle", "wants", "copied"}
  RxAbove = TRUE
INVARIANTS
  TypeOK
  UsesLive
  Snapshot
  Linked
