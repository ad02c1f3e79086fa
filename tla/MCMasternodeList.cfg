CONSTANTS
  MaxVersion = 2
  MaxStops = 1
  MinPing = 1
  MinBroadcast = 1
  Window = 2
  Expiration = 3
  Removal = 4
  Forgetting = 5
  AskAgain = 1
  None = None
SPECIFICATION FairSpec
INVARIANTS TypeOK
PROPERTIES NeverRollsBack PingsMoveForward ListedAgain GoneIsRemoved
