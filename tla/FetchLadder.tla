----------------------------- MODULE FetchLadder -----------------------------
(* One fetch of a page climbs a ladder (smartFetch() of src/fetch.ts): warm   *)
(* cookies, the plain client, other client profiles, a browser. Two memories  *)
(* that all fetches of the process share choose its rungs: the strategy that  *)
(* worked for the domain (src/strategy-memory.ts) and the cookies of earlier  *)
(* renders (src/cookie-cache.ts).                                             *)
(*                                                                            *)
(* A fetch reads the memories before its requests and writes them after.      *)
EXTENDS Naturals, Sequences

CONSTANTS
    Fetches,        \* calls that may be under way together; each is made again
    Domains,
    ProfileOf,      \* [Fetches -> browser and OS profiles]
    Probe,          \* RE_PROBE_SUCCESS_COUNT
    MaxDomains,     \* MAX_DOMAIN_ENTRIES
    MaxCookies,     \* MAX_COOKIE_CACHE_ENTRIES
    Harvest,        \* TRUE: sites set cookies
    OneByOne,       \* TRUE: one fetch at a time
    None

Rungs == <<"plain", "wreq", "browser">>
Rank(r) == CHOOSE i \in 1 .. 3 : Rungs[i] = r

VARIABLES
    pc,         \* per fetch: "new", "warm", "first", "plain", "profiles", "browser"
    url,        \* per fetch: its domain
    asked,      \* per fetch: the rung getStartingStrategy() gave it, or None
    memory,     \* domainMemory: [domain, rung, count, reprobe, stale], oldest first
    cookies,    \* the cookie cache: [key, from], oldest first; from is a profile
    replayed,   \* per fetch: the cache entry it replays, or None
    opens,      \* the rungs the sites let through at present
    done        \* what the fetch that just ended returned: [rung, page], or None

vars == <<pc, url, asked, memory, cookies, replayed, opens, done>>

Init ==
    /\ pc = [f \in Fetches |-> "new"]
    /\ url \in [Fetches -> Domains]
    /\ asked = [f \in Fetches |-> None]
    /\ memory = <<>> /\ cookies = <<>>
    /\ replayed = [f \in Fetches |-> None]
    /\ opens \in SUBSET {"plain", "wreq", "browser"}
    /\ done = None

-----------------------------------------------------------------------------
(* strategy-memory.ts                                                        *)

Entries(d) == {i \in DOMAIN memory : memory[i].domain = d}
Known(d) == Entries(d) # {}
Entry(d) == memory[CHOOSE i \in Entries(d) : TRUE]
Without(d) == SelectSeq(memory, LAMBDA e : e.domain # d)

\* A Map that drops its oldest entries before one is added.
Capped(m, n) == IF Len(m) < n THEN m ELSE SubSeq(m, Len(m) - n + 2, Len(m))

Put(d, e) ==
    IF Known(d) THEN Append(Without(d), e) ELSE Append(Capped(memory, MaxDomains), e)

Fresh(d, rung, count) ==
    [domain |-> d, rung |-> rung, count |-> count, reprobe |-> FALSE, stale |-> FALSE]

\* getStartingStrategy(): nothing known, an old entry or one due for a probe
\* mean the whole ladder.
Starting(d) ==
    IF ~Known(d) \/ Entry(d).stale \/ Entry(d).reprobe THEN None ELSE Entry(d).rung

\* recordDomainSuccess(): a cheaper rung replaces the remembered one; any other
\* success counts towards the next probe and ends the one that is due.
Success(d, rung) ==
    memory' = Put(d,
        IF ~Known(d) \/ Rank(rung) < Rank(Entry(d).rung) THEN Fresh(d, rung, 1)
        ELSE [Fresh(d, Entry(d).rung, (Entry(d).count + 1) % Probe)
                EXCEPT !.reprobe = Entry(d).count + 1 >= Probe])

\* recordDomainFailure(): nothing that a fetch reads, but the entry is renewed.
Failure(d) ==
    memory' = Put(d, IF Known(d) THEN [Entry(d) EXCEPT !.stale = FALSE] ELSE Fresh(d, "plain", 0))

-----------------------------------------------------------------------------
(* cookie-cache.ts                                                           *)

\* Mutant: the key is the origin alone.
Key_Origin(d, f) == <<d, None>>

\* cookieCacheKey()
Key(d, f) == <<d, ProfileOf[f]>>

\* Where the cookies for f are in the cache, if they are.
Cached(d, f) == {i \in DOMAIN cookies : cookies[i].key = Key(d, f)}
CachedFor(d, f) == cookies[CHOOSE i \in Cached(d, f) : TRUE]

Dropped(i) == SubSeq(cookies, 1, i - 1) \o SubSeq(cookies, i + 1, Len(cookies))
OthersThan(d, f) ==
    IF Cached(d, f) = {} THEN cookies ELSE Dropped(CHOOSE i \in Cached(d, f) : TRUE)
Others(f) == OthersThan(url[f], f)

\* setCachedCookies() after a render, when the page has set any.
Harvested(f) ==
    IF ~Harvest THEN cookies
    ELSE Append(IF Cached(url[f], f) # {} THEN Others(f) ELSE Capped(cookies, MaxCookies),
                [key |-> Key(url[f], f), from |-> ProfileOf[f]])

-----------------------------------------------------------------------------
(* smartFetch()                                                              *)

Goto(f, next) ==
    /\ pc' = [pc EXCEPT ![f] = next]
    /\ done' = None
    /\ UNCHANGED <<asked, replayed>>

\* The fetch returns a page, a challenge page or nothing; its locals are gone.
Return(f, rung, page) ==
    /\ pc' = [pc EXCEPT ![f] = "new"]
    /\ done' = [rung |-> rung, page |-> page]
    /\ asked' = [asked EXCEPT ![f] = None]
    /\ replayed' = [replayed EXCEPT ![f] = None]

\* Where the ladder starts, after the warm path.
Ladder(rung) == IF rung = "browser" THEN "first"
                ELSE IF rung = "wreq" THEN "browser" ELSE "plain"

\* The memory is read; cached cookies are read and moved to the recent end.
Begin(f) ==
    /\ pc[f] = "new"
    /\ OneByOne => \A g \in Fetches : pc[g] = "new"
    /\ \E d \in Domains : url' = [url EXCEPT ![f] = d]
    /\ LET d == url'[f]
           hit == Cached(d, f) # {}
       IN  /\ asked' = [asked EXCEPT ![f] = Starting(d)]
           /\ memory' = IF Known(d) /\ Entry(d).stale THEN Without(d) ELSE memory
           /\ replayed' = [replayed EXCEPT ![f] = IF hit THEN CachedFor(d, f) ELSE None]
           /\ cookies' = IF hit THEN Append(OthersThan(d, f), CachedFor(d, f)) ELSE cookies
           /\ pc' = [pc EXCEPT ![f] = IF hit THEN "warm" ELSE Ladder(Starting(d))]
    /\ done' = None
    /\ UNCHANGED opens

\* tryCookieWarmedFetch(): a page, a login page (the cookies go), a page that
\* clears its cookies, or anything else (the ladder goes on, the cookies stay).
Warm(f) ==
    /\ pc[f] = "warm"
    /\ \/ /\ Success(url[f], "wreq") /\ Return(f, "wreq", "page")
          /\ cookies' \in {cookies, Others(f)}
       \/ /\ Goto(f, Ladder(asked[f]))
          /\ cookies' \in {cookies, Others(f)}
          /\ UNCHANGED memory
    /\ UNCHANGED <<url, opens>>

\* fetchWithPlaywright(): a page, the challenge that did not clear in time, or
\* no browser. The first two are one thing to its caller.
Render(f, failed) ==
    /\ \/ /\ Success(url[f], "browser")
          /\ cookies' = Harvested(f)
          /\ Return(f, "browser", IF "browser" \in opens THEN "page" ELSE "challenge")
       \/ "browser" \notin opens /\ UNCHANGED cookies /\ failed

\* The remembered rung is the browser: it comes first.
First(f) ==
    /\ pc[f] = "first"
    /\ Render(f, Failure(url[f]) /\ Goto(f, "plain"))
    /\ UNCHANGED <<url, opens>>

\* fetchWithRetry() and what its answer leads to. An error that is not retried
\* ends the fetch.
Plain(f) ==
    /\ pc[f] = "plain"
    /\ IF "plain" \in opens
       THEN /\ Success(url[f], "plain") /\ Return(f, "plain", "page")
            /\ cookies' \in {cookies, Others(f)}
       ELSE \/ Return(f, "plain", "error") /\ UNCHANGED <<memory, cookies>>
            \/ Return(f, "plain", "login") /\ cookies' = Others(f) /\ UNCHANGED memory
            \/ /\ \E next \in {"browser", "profiles"} : Goto(f, next)
               /\ Failure(url[f]) /\ UNCHANGED cookies
    /\ UNCHANGED <<url, opens>>

\* The other profiles, one after another, after a challenge.
Profiles(f) ==
    /\ pc[f] = "profiles"
    /\ IF "wreq" \in opens
       THEN Success(url[f], "wreq") /\ Return(f, "wreq", "page")
       ELSE Failure(url[f]) /\ Goto(f, "browser")
    /\ UNCHANGED <<url, cookies, opens>>

\* The last rung; a 404 that the browser sees too is returned as it came.
Browser(f) ==
    /\ pc[f] = "browser"
    /\ Render(f, Return(f, "none", "error") /\ memory' = memory)
    /\ UNCHANGED <<url, opens>>

\* Time: an entry passes its TTL, cached cookies expire.
Ages ==
    /\ \/ \E i \in DOMAIN memory : memory' = [memory EXCEPT ![i].stale = TRUE] /\ UNCHANGED cookies
       \/ \E i \in DOMAIN cookies : cookies' = Dropped(i) /\ UNCHANGED memory
    /\ done' = None
    /\ UNCHANGED <<pc, url, asked, replayed, opens>>

SiteChanges ==
    /\ \E r \in {"plain", "wreq", "browser"} :
         opens' = IF r \in opens THEN opens \ {r} ELSE opens \cup {r}
    /\ done' = None
    /\ UNCHANGED <<pc, url, asked, memory, cookies, replayed>>

Step(f) == Warm(f) \/ First(f) \/ Plain(f) \/ Profiles(f) \/ Browser(f)

Next == (\E f \in Fetches : Begin(f) \/ Step(f)) \/ Ages \/ SiteChanges

Spec == Init /\ [][Next]_vars

-----------------------------------------------------------------------------
\* Cookies are replayed only under the profile and to the origin they came from.
CookiesOfOwnProfile ==
    \A f \in Fetches : pc[f] = "warm" =>
        replayed[f].from = ProfileOf[f] /\ replayed[f].key[1] = url[f]

\* A fetch that brought a page leaves its rung in the memory ("the last strategy
\* that succeeded for this domain", strategy-memory.ts). It fails: the failure of
\* the plain client is noted first, as a domain whose plain client succeeded, and
\* a dearer rung never replaces that.
RungRemembered ==
    [][\A f \in Fetches :
         pc[f] # "new" /\ pc'[f] = "new" /\ done'.page = "page" =>
            \E i \in DOMAIN memory' : memory'[i].domain = url[f] /\ memory'[i].rung = done'.rung]_vars

\* A rung is remembered only for a page. It fails: a challenge that the browser
\* could not clear counts as a success.
RememberedForPage ==
    [][\A f \in Fetches : pc'[f] = "new" /\ pc[f] \in {"first", "browser"} /\ memory' # memory
         => done'.page # "challenge"]_vars
=============================================================================
