\* Node 1, with up to six packets while it works, one more than guard.
SPECIFICATION FairSpec
CONSTANTS
  NumNodes = 3
  Me = 1
  During = 6
  GuardMax = 5
INVARIANTS
  TypeOK
  NeverDeaf
  PacketRead
PROPERTIES
  ReturnsToReception
