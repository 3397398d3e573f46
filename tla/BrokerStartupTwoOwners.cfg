SPECIFICATION AllSpec
CONSTANTS
    Parts = {"startup"}
    None = None
    Calls = {c1, c2, c3, c4}  Launches = {c2, c4}
    SignalOf <- Signals
    MaxChildren = 1
    Brokers = {a, b, c}  Old = Old  MaxTries = 1
    Launchers = {c1, c2, c3, c4}  Kind <- Kinds  Clients = {client}
    Lsof = FALSE  Sequential = TRUE  Prompt = TRUE
    CliCalls = {c1, c2, c3, c4}  Sessions = {h1, h2}  Asks <- Asked  SessionOf <- Hosts
    OneByOne = TRUE
    Workers = {a, b}  NumPages = 3  PathOf <- Spellings  Final <- Direct
    MaxRetries = 1
    Storers = {"s1", "s2"}  Readers = {"r1"}  Kept = {"o1"}
    MaxResults = 2  Concurrent = 1  MaxRestarts = 2
    Kills = FALSE  DiskFails = {"blob", "read", "unlink"}  Loaded = FALSE
    Commands = {r1, r2}  WebSockets = {1, 2}
    a = a  b = b
    c1 = c1  c2 = c2  c3 = c3  c4 = c4
    h1 = h1  h2 = h2  client = client
    r1 = r1  r2 = r2  r3 = r3
INVARIANTS OneOwner
CHECK_DEADLOCK FALSE
