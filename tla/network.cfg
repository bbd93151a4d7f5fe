\* Three nodes, the events of an instant handled in any order or together.
SPECIFICATION FairSpec
CONSTANTS
  NumNodes = 3
  Slot = 8
  Airtime = 3
INVARIANTS
  TypeOK
  InStep
  NoCollision
PROPERTY Synchronises
