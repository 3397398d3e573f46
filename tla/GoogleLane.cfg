SPECIFICATION Spec
CONSTANTS
    Requests = {r1, r2}
    Clients = {1, 2}
    Procs = {1, 2}
    Gens = {1, 2}
    MaxToggles = 1
    None = None
INVARIANTS LanesApart FencesLift
PROPERTY EnabledSparesUsers
CHECK_DEADLOCK FALSE
