SPECIFICATION Spec
CONSTANTS
  c1 = c1 c2 = c2 s1 = s1 s2 = s2 k1 = k1 k2 = k2 search = search ai = ai
  r1 = r1 r2 = r2 r3 = r3 r4 = r4
  Clients = {c1, c2}
  Sessions = {s1, s2}
  Conns = {k1, k2}
  Providers = {search, ai}
  Requests = {r1, r2, r3}
  Cap <- OneSlot
  GlobalCap = 2
  MaxGeneration = 2
  None = None
SYMMETRY SymCalls
INVARIANTS CapacityRespected OwnedByRegistered WarmTargetNotInherited
