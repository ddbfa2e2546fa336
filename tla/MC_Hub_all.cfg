SPECIFICATION FairSpec
CONSTANTS
  c1 = c1
  b1 = b1
  b2 = b2
  Clients <- OneClient
  Sources <- TwoSources
  Follows <- AllFollow
  Buffer = 2
  MaxCount = 2
INVARIANTS
  TypeOK
  NoPanic
PROPERTIES
  ImplementsFeed
  BroadcastsEnd
  LostClientsAreForgotten
