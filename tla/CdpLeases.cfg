SPECIFICATION FairSpec
CONSTANTS
  Clients = {c1}
  Sessions = {s1}
  Conns = {k1}
  Providers = {search}
  Requests = {r1, r2}
  Ops = {o1}
  Cap <- OneSlot
  GlobalCap = 1
  MaxGeneration = 2
  ConfirmAfter = 1
  None = None
CHECK_DEADLOCK FALSE
INVARIANTS
  LeaseHasItsTab
PROPERTIES
  ForgottenOnlyWhenClosed
  ImplementsRegistry
  HandlersEnd
