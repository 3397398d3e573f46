SPECIFICATION FairSpec
CONSTANTS
  c1 = c1 c2 = c2 s1 = s1 s2 = s2 k1 = k1 k2 = k2 search = search
  r1 = r1 r2 = r2 r3 = r3
  Clients = {c1, c2}
  Sessions = {s1}
  Conns = {k1, k2}
  Providers = {search}
  Requests = {r1, r2}
  Cap <- OneSlot
  GlobalCap = 1
  MaxGeneration = 1
  MaxInFlight = 2
  None = None
PROPERTIES
  AbandonedReclaimed
  AnsweredOnce
  ImplementsRegistry
  EveryLeaseFrameAnswered
