SPECIFICATION AllSpec
CONSTANTS
    Parts = {"pull"}
    None = None
    Pages = {p1, p2, p3}  OriginOf <- Origins
    MaxRedirects = 1  MaxRetries = 1  MaxBytes = 2
    Fetches = {c1, c2}  Domains = {"a"}  ProfileOf <- FetchProfiles  ProbeAt = 2
    MaxDomains = 2  MaxCookies = 1  Harvest = TRUE  OneByOne = FALSE
    Chains <- WallChains  Budget = 2  MaxNow = 6  Pooled = FALSE
    Targets = {1, 2, 3}  Workers = {c1, c2}  FileOf <- Files
    Unmodified = TRUE
    GhRetries = 2  MaxChunks = 2
    TabResults = 4  PageSize = 3
    Urls = {"u", "v", "w"}  MaxPages = 2  MaxResults = 2  Enough = 2
    MaxSilences = 1
    Commands = {p1, p2}  Navigates = {p1}  MaxDocs = 3
    CachedPages = {p1, p2}  CacheUses = {"page", "read"}  MaxEntries = 1  Ttl = 1  CacheTime = 3
    Linked = {1, 2, 3}  Loops = TRUE  MaxClientRedirects = 1  Browsers = 2
    Calls = {c1, c2, c3, c4}  Tools = {"fetch", "search"}  ToolOf <- Called
    NeedsCache = {"fetch", "search"}  NeedsUser = {"fetch"}  MaxFailures = 2
    Formats = {"markdown", "html"}
    MapCalls = {c1, c2, c3}  Kind <- Kinds  MapEntries = 2  MaxFiles = 2
    Searches = {1}  Threshold = 2
    Lookups = {1, 2}  Engines = {"ddg", "bing"}  Hits = {"u"}  Goggles = {"plain"}
    Cooldown = 1  EngineTime = 2
    Questions = {1, 2}  SlugOf <- Slugs  MaxSources = 2  SameDir = FALSE  DiskFails = FALSE
    CorpusFiles = {p1, p2}  CorpusPulls = {h1, h2}  CorpusQueries = {h1, h2}
    c1 = c1  c2 = c2  c3 = c3  c4 = c4
    p1 = p1  p2 = p2  p3 = p3
    h1 = h1  h2 = h2
PROPERTIES PullEnds
CHECK_DEADLOCK FALSE
