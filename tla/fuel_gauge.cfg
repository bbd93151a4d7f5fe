\* Two failures in each call, any number of calls and restarts.
SPECIFICATION Spec
CONSTANT MaxTrouble = 2
INVARIANTS
  TypeOK
  SealsAgain
  Configures
PROPERTY OneFailureContained
