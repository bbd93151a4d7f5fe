SPECIFICATION Spec
CONSTANTS
  Tasks = {"manager", "logger"}
  Times <- MCTimes
  Found <- MCFound
INVARIANTS
  TypeOK
  RoundTrip
  OsfHonest
PROPERTIES
  AlarmSurvives
