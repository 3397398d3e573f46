------------------------------ MODULE WebProofs ------------------------------
(* What fetches and searches leave behind and what they answer: proofs of     *)
(* OpenedIsClosed, KeptApart and RightPage, which the run fetch checks, and   *)
(* of TabKept, TabsKept, ToldTrue and NothingLost, which the run search       *)
(* checks. The parts run side by side, each with variables of its own; names  *)
(* without a prefix are those of StaticFetch. MCWeb extends this module and   *)
(* adds the other parts.                                                      *)
EXTENDS StaticFetch, SequenceTheorems, FiniteSetTheorems, TLAPS

CONSTANTS
    Fetches, Domains, ProfileOf, ProbeAt, MaxDomains, MaxCookies, Harvest, OneByOne,
    Chains, Budget, MaxNow, Pooled,
    Targets, Workers, FileOf, Unmodified,
    GhRetries, MaxChunks,
    TabResults, PageSize,
    Urls, MaxPages, MaxResults, Enough,
    MaxSilences,
    Commands, Navigates, MaxDocs,
    CachedPages, CacheUses, MaxEntries, Ttl, CacheTime,
    Linked, Loops, MaxClientRedirects, Browsers,
    Calls, Tools, ToolOf, NeedsCache, NeedsUser, MaxFailures,
    Formats,
    MapCalls, Kind, MapEntries, MaxFiles,
    Searches, Threshold,
    Lookups, Engines, Hits, Goggles, Cooldown, EngineTime,
    Questions, SlugOf, MaxSources, SameDir, DiskFails,
    CorpusFiles, CorpusPulls, CorpusQueries

VARIABLES
    ladder_pc, ladder_url, ladder_asked, ladder_memory, ladder_cookies, ladder_replayed,
    ladder_opens, ladder_done,
    wall_chain, wall_at, wall_now, wall_phase, wall_pooled, wall_opened, wall_launches,
    wall_answer, wall_tried,
    batch_phase, batch_session, batch_index, batch_at, batch_step, batch_slots, batch_thrown,
    batch_files, batch_package,
    github_phase, github_page, github_token, github_enabled, github_tries, github_status,
    github_proc, github_chunks, github_shown,
    tab_pc, tab_tab, tab_known, tab_ws, tab_page, tab_got,
    tab_degraded, tab_error, tab_aborted, tab_late, tab_lost,
    google_program, google_given, google_phase, google_tab, google_page, google_rows,
    google_counted, google_merged, google_output, google_failed,
    reddit_phase, reddit_waiting, reddit_queue, reddit_own, reddit_other, reddit_baseline,
    reddit_found, reddit_target, reddit_alive, reddit_silences, reddit_result,
    page_doc, page_complete, page_runtime, page_mainCtx, page_cmd,
    cache_now, cache_changed, cache_stored, cache_older, cache_captured,
    cache_pc, cache_page, cache_use, cache_cond, cache_base, cache_pulled, cache_answer,
    pull_phase, pull_opts, pull_refresh, pull_known, pull_stored, pull_purpose, pull_tried,
    pull_page, pull_count, pull_first, pull_result,
    tool_cacheReady, tool_userReady, tool_runtime, tool_loading, tool_call, tool_failures,
    tool_seen,
    reply_phase, reply_want, reply_size, reply_json, reply_body, reply_kept, reply_summaries,
    reply_shows, reply_told,
    repo_at, repo_tree, repo_dir, repo_seen, repo_scope, repo_bound, repo_via,
    web_tool, web_clock, web_lane, web_some, web_gstatus, web_rstatus, web_asked, web_snap,
    web_timedOut, web_told, web_health, web_streak, web_cached,
    engine_now, engine_profile, engine_phase, engine_answer, engine_hits, engine_fails,
    engine_coolUntil, engine_cache, engine_found, engine_order,
    notes_phase, notes_saves, notes_found, notes_next, notes_at, notes_step, notes_said,
    notes_records, notes_files, notes_indexed, notes_cited,
    corpus_disk, corpus_index, corpus_builds, corpus_pull, corpus_cached, corpus_query

Ladder == INSTANCE FetchLadder WITH
    Probe <- ProbeAt, pc <- ladder_pc, url <- ladder_url, asked <- ladder_asked,
    memory <- ladder_memory,
    cookies <- ladder_cookies, replayed <- ladder_replayed, opens <- ladder_opens,
    done <- ladder_done
Wall == INSTANCE Paywall WITH
    chain <- wall_chain, at <- wall_at, now <- wall_now, phase <- wall_phase,
    pooled <- wall_pooled, opened <- wall_opened, launches <- wall_launches,
    answer <- wall_answer, tried <- wall_tried
Batch == INSTANCE FetchBatch WITH
    phase <- batch_phase, session <- batch_session, index <- batch_index, at <- batch_at,
    step <- batch_step, slots <- batch_slots, thrown <- batch_thrown, files <- batch_files,
    package <- batch_package
Github == INSTANCE GithubApi WITH
    MaxRetries <- GhRetries, phase <- github_phase, page <- github_page, token <- github_token,
    enabled <- github_enabled, tries <- github_tries, status <- github_status,
    proc <- github_proc, chunks <- github_chunks, shown <- github_shown
Tab == INSTANCE TabSearch WITH
    MaxResults <- TabResults, pc <- tab_pc, tab <- tab_tab, known <- tab_known,
    ws <- tab_ws, page <- tab_page, got <- tab_got,
    degraded <- tab_degraded, error <- tab_error, aborted <- tab_aborted,
    late <- tab_late, lost <- tab_lost
Google == INSTANCE GooglePages WITH
    program <- google_program, given <- google_given, phase <- google_phase, tab <- google_tab,
    page <- google_page, rows <- google_rows, counted <- google_counted,
    merged <- google_merged, output <- google_output, failed <- google_failed
Reddit == INSTANCE RedditTab WITH
    phase <- reddit_phase, waiting <- reddit_waiting, queue <- reddit_queue, own <- reddit_own,
    other <- reddit_other, baseline <- reddit_baseline, found <- reddit_found,
    target <- reddit_target, alive <- reddit_alive, silences <- reddit_silences,
    result <- reddit_result
Page == INSTANCE PageCommands WITH
    doc <- page_doc, complete <- page_complete, runtime <- page_runtime,
    mainCtx <- page_mainCtx, cmd <- page_cmd
Cache == INSTANCE PageCache WITH
    Calls <- Fetches, Pages <- CachedPages, Uses <- CacheUses, MaxNow <- CacheTime,
    Apart <- TRUE, Down <- FALSE, now <- cache_now, changed <- cache_changed,
    stored <- cache_stored, older <- cache_older, captured <- cache_captured, pc <- cache_pc,
    page <- cache_page, use <- cache_use, cond <- cache_cond, base <- cache_base,
    pulled <- cache_pulled, answer <- cache_answer
Pull == INSTANCE PagePull WITH
    Pages <- Linked, phase <- pull_phase, opts <- pull_opts, refresh <- pull_refresh,
    known <- pull_known, stored <- pull_stored, purpose <- pull_purpose, tried <- pull_tried,
    page <- pull_page, count <- pull_count, first <- pull_first, result <- pull_result
Tool == INSTANCE ToolRuntime WITH
    Sdk <- FALSE, cacheReady <- tool_cacheReady, userReady <- tool_userReady,
    runtime <- tool_runtime, loading <- tool_loading, call <- tool_call,
    failures <- tool_failures, seen <- tool_seen
Reply == INSTANCE FetchReply WITH
    Unmodified <- FALSE, phase <- reply_phase, want <- reply_want, size <- reply_size,
    json <- reply_json, body <- reply_body, kept <- reply_kept, summaries <- reply_summaries,
    shows <- reply_shows, told <- reply_told
Repo == INSTANCE RepoMap WITH
    Calls <- MapCalls, Entries <- MapEntries, at <- repo_at, tree <- repo_tree, dir <- repo_dir, seen <- repo_seen,
    scope <- repo_scope, bound <- repo_bound, via <- repo_via
Web == INSTANCE WebSearch WITH
    tool <- web_tool, clock <- web_clock, lane <- web_lane, some <- web_some,
    gstatus <- web_gstatus, rstatus <- web_rstatus, asked <- web_asked, snap <- web_snap,
    timedOut <- web_timedOut, told <- web_told, health <- web_health, streak <- web_streak,
    cached <- web_cached
Engine == INSTANCE EngineSearch WITH
    Searches <- Lookups, Urls <- Hits, Profiles <- Goggles, MaxNow <- EngineTime,
    now <- engine_now, profile <- engine_profile, phase <- engine_phase,
    answer <- engine_answer, hits <- engine_hits, fails <- engine_fails,
    coolUntil <- engine_coolUntil, cache <- engine_cache, found <- engine_found,
    order <- engine_order
Notes == INSTANCE Research WITH
    Queries <- Questions, Urls <- Pages, phase <- notes_phase, saves <- notes_saves,
    found <- notes_found, next <- notes_next, at <- notes_at, step <- notes_step,
    said <- notes_said, records <- notes_records, files <- notes_files,
    indexed <- notes_indexed, cited <- notes_cited
Corpus == INSTANCE Corpus WITH
    Files <- CorpusFiles, Pulls <- CorpusPulls, Together <- FALSE, Killed <- FALSE, Queries <- CorpusQueries,
    disk <- corpus_disk, index <- corpus_index, builds <- corpus_builds, pull <- corpus_pull,
    cached <- corpus_cached, query <- corpus_query

-----------------------------------------------------------------------------
(* StaticFetch *)

States == {"none", "pending", "open", "failed", "closed"}

\* A transport that is being made is the latest one's, waited for, or the call
\* was aborted and it will be closed as it comes; an open one is in use.
TransportInv ==
    /\ transport \in [Attempts -> States]
    /\ signal \in {None, "timeout", "aborted"}
    /\ \A n \in Attempts :
          /\ transport[n] = "pending" => signal # None \/ (n = latest /\ phase = "create")
          /\ transport[n] = "open" => n = latest /\ phase \in {"request", "body", "close"}

LEMMA TransportInit == ASSUME Init PROVE TransportInv
  BY DEF Init, TransportInv, States

LEMMA TransportStep ==
  ASSUME None \notin {"timeout", "aborted"}, TransportInv, [Next]_vars
  PROVE  TransportInv'
<1> USE DEF TransportInv, States, Is, Goto, Return, Finally
<1>1. ASSUME NEW reason \in {"timeout", "aborted"}, Abort(reason) PROVE TransportInv'
  BY <1>1 DEF Abort, wires
<1>2. CASE Start
  BY <1>2 DEF Start, wires
<1>3. CASE Aborted
  BY <1>3 DEF Aborted
<1>4. CASE Create
  BY <1>4 DEF Create
<1>5. CASE Close
  BY <1>5 DEF Close
<1>6. CASE CleanedUp
  BY <1>6 DEF CleanedUp, wires
<1>7. CASE Slept \/ Refuse \/ Extract \/ Parsed \/ Validated
  BY <1>7 DEF Slept, Refuse, Extract, Parsed, Validated, wires
<1>8. ASSUME NEW n \in Attempts, Created(n) PROVE TransportInv'
  BY <1>8 DEF Created
<1>9. ASSUME NEW n \in Attempts, CreateFails(n) PROVE TransportInv'
  BY <1>9 DEF CreateFails
<1>10. ASSUME NEW n \in Attempts, ResponseLate(n) PROVE TransportInv'
  BY <1>10 DEF ResponseLate
<1>11. CASE RequestFails \/ BodyFails \/ Busy
  BY <1>11 DEF RequestFails, BodyFails, Fails, Busy, Retry, Arrives
<1>12. CASE (\E q \in Pages : Redirected(q)) \/ BodyRead
  BY <1>12 DEF Redirected, BodyRead, Follow, Arrives
<1>13. CASE Answered \/ Chunk
  BY <1>13 DEF Answered, Chunk, Arrives
<1>14. CASE Done \/ UNCHANGED vars
  BY <1>14 DEF Done, vars, wires
<1> QED
  BY <1>1, <1>2, <1>3, <1>4, <1>5, <1>6, <1>7, <1>8, <1>9, <1>10, <1>11, <1>12, <1>13, <1>14
     DEF Next, Own, Network

\* As long as a request would carry the headers of the caller, the chain has
\* not left the origin to which the others with these headers went.
HeadersInv ==
    /\ headers \in {"caller", "plain"}
    /\ HeadersStay
    /\ headers = "caller" =>
          \A x \in sent : x[2] = "caller" => OriginOf[x[1]] = OriginOf[page]

LEMMA HeadersInit == ASSUME Init PROVE HeadersInv
  BY DEF Init, HeadersInv, HeadersStay

LEMMA HeadersStep == ASSUME HeadersInv, [Next]_vars PROVE HeadersInv'
<1>1. ASSUME UNCHANGED <<page, headers, sent>> PROVE HeadersInv'
  BY <1>1 DEF HeadersInv, HeadersStay
<1>2. ASSUME NEW q \in Pages, Follow(q), UNCHANGED sent PROVE HeadersInv'
  <2>1. CASE UNCHANGED chain
    BY <1>1, <1>2, <2>1 DEF chain
  <2>2. CASE page' = q /\ headers' = HeadersFor(q)
    BY <1>2, <2>2 DEF HeadersInv, HeadersStay, HeadersFor
  <2> QED
    BY <1>2, <2>1, <2>2 DEF Follow
<1>3. ASSUME NEW n \in Attempts, Created(n) PROVE HeadersInv'
  <2>1. UNCHANGED <<page, headers>> /\ (UNCHANGED sent \/ sent' = sent \cup {<<page, headers>>})
    BY <1>3 DEF Created, chain
  <2>2. CASE UNCHANGED sent
    BY <1>1, <2>1, <2>2
  <2>3. CASE sent' = sent \cup {<<page, headers>>}
    <3> DEFINE r == <<page, headers>>
    <3>1. r[1] = page /\ r[2] = headers
      OBVIOUS
    <3> HIDE DEF r
    <3>2. \A x \in sent' : x \in sent \/ x = r
      BY <2>3 DEF r
    <3>3. \A x \in sent' : x[2] = "caller" /\ headers = "caller" => OriginOf[x[1]] = OriginOf[page]
      BY <3>1, <3>2 DEF HeadersInv
    <3>4. \A x \in sent' : x[2] = "caller" => x \in sent \/ headers = "caller"
      BY <3>1, <3>2
    <3>5. HeadersStay'
      BY <3>3, <3>4 DEF HeadersInv, HeadersStay
    <3> QED
      BY <2>1, <3>3, <3>5 DEF HeadersInv
  <2> QED
    BY <2>1, <2>2, <2>3
<1>4. CASE (\E reason \in {"timeout", "aborted"} : Abort(reason)) \/ Own
  BY <1>1, <1>4 DEF Abort, Own, Start, Aborted, Create, Close, CleanedUp, Slept, Refuse, Extract,
     chain, wires
<1>5. CASE \/ \E n \in Attempts : CreateFails(n) \/ ResponseLate(n)
           \/ Validated \/ RequestFails \/ Busy \/ Answered \/ Chunk \/ BodyFails \/ Parsed
  BY <1>1, <1>5 DEF CreateFails, ResponseLate, Validated, RequestFails, Busy, Answered, Chunk,
     BodyFails, Fails, Parsed, chain, wires
<1>6. CASE \E q \in Pages : Redirected(q)
  BY <1>2, <1>6 DEF Redirected
<1>7. CASE BodyRead
  BY <1>1, <1>2, <1>7 DEF BodyRead, chain
<1>8. CASE Done \/ UNCHANGED vars
  BY <1>1, <1>8 DEF Done, vars, chain, wires
<1> QED
  BY <1>3, <1>4, <1>5, <1>6, <1>7, <1>8 DEF Next, Network

-----------------------------------------------------------------------------
(* Paywall and GithubApi *)

\* A browser or a page of the pool is held only while its page is read.
WallInv ==
    /\ wall_pooled \in BOOLEAN /\ wall_opened \in {0, 1}
    /\ wall_phase # "run" => ~wall_pooled /\ wall_opened = 0

LEMMA WallInit == ASSUME Wall!Init PROVE WallInv
  BY DEF Wall!Init, WallInv

LEMMA WallStep == ASSUME WallInv, [Wall!Next]_(Wall!vars) PROVE WallInv'
<1> USE DEF WallInv, Wall!browser
<1>1. CASE Wall!GiveUp \/ Wall!Try \/ Wall!Skip
  BY <1>1 DEF Wall!GiveUp, Wall!Try, Wall!Skip, Wall!End, Wall!Further
<1>2. CASE Wall!Ask \/ Wall!AskArchive
  BY <1>2 DEF Wall!Ask, Wall!AskArchive, Wall!End, Wall!Further
<1>3. CASE Wall!Plain
  BY <1>3 DEF Wall!Plain
<1>8. CASE Wall!Acquire
  <2>1. wall_pooled' = TRUE /\ wall_phase' = "run" /\ wall_opened' = wall_opened
    BY <1>8 DEF Wall!Acquire
  <2> QED
    BY <2>1
<1>7. CASE Wall!ReadPlain
  <2>1. wall_phase' # "run" /\ UNCHANGED <<wall_pooled, wall_opened>> /\ wall_phase = "plain"
    BY <1>7 DEF Wall!ReadPlain, Wall!Shown, Wall!End, Wall!Further
  <2> QED
    BY <2>1
<1>4. CASE Wall!Launch \/ Wall!NoneOpens
  BY <1>4 DEF Wall!Launch, Wall!NoneOpens, Wall!Further
<1>5. CASE Wall!Read \/ Wall!Broken
  BY <1>5 DEF Wall!Read, Wall!Broken, Wall!Shown, Wall!End
<1>6. CASE Wall!Done \/ UNCHANGED Wall!vars
  BY <1>6 DEF Wall!Done, Wall!vars
<1> QED
  BY <1>1, <1>2, <1>3, <1>4, <1>5, <1>6, <1>7, <1>8 DEF Wall!Next, Wall!Browse

\* The gh program runs only while the call waits for it.
GithubInv == github_proc = "runs" => github_phase \in {"gh", "logs"}

LEMMA GithubInit == ASSUME None # "runs", Github!Init PROVE GithubInv
  BY DEF Github!Init, GithubInv

LEMMA GithubStep ==
  ASSUME None # "runs", GithubInv, [Github!Next]_(Github!vars) PROVE GithubInv'
<1> USE DEF GithubInv
<1>1. CASE Github!Token \/ Github!TokenTold \/ Github!Pause \/ Github!NoLogs
  BY <1>1 DEF Github!Token, Github!TokenTold, Github!Pause, Github!NoLogs
<1>2. CASE Github!Request
  BY <1>2 DEF Github!Request
<1>3. CASE Github!Logs
  BY <1>3 DEF Github!Logs
<1>4. CASE Github!Printed
  BY <1>4 DEF Github!Printed, Github!Kill
<1>5. CASE Github!GhExits \/ Github!GhTimesOut
  BY <1>5 DEF Github!GhExits, Github!GhTimesOut, Github!Kill
<1>6. CASE Github!Done \/ UNCHANGED Github!vars
  BY <1>6 DEF Github!Done, Github!vars
<1> QED
  BY <1>1, <1>2, <1>3, <1>4, <1>5, <1>6 DEF Github!Next

-----------------------------------------------------------------------------
\* What a call opens it closes, however it ends (webfetch-api.ts, paywall.ts,
\* github-api.ts): a transport that comes when nobody waits for it any more, a
\* browser whose page failed, a program that floods or hangs.
OpenedIsClosed == TransportsClosed /\ Wall!BrowsersClosed /\ Github!NoneLeft

\* OpenedIsClosed for any chains, budgets, limits of retries and redirects.
THEOREM WhatIsOpenedIsClosed ==
  ASSUME None \notin {"timeout", "aborted", "runs"}
  PROVE  Spec /\ Wall!Spec /\ Github!Spec => []OpenedIsClosed
<1> DEFINE All == TransportInv /\ WallInv /\ GithubInv
<1>1. Init /\ Wall!Init /\ Github!Init => All
  BY TransportInit, WallInit, GithubInit
<1>2. All /\ [Next]_vars /\ [Wall!Next]_(Wall!vars) /\ [Github!Next]_(Github!vars) => All'
  BY TransportStep, WallStep, GithubStep
<1>3. All => OpenedIsClosed
  BY DEF TransportInv, WallInv, GithubInv, OpenedIsClosed, TransportsClosed,
     Wall!BrowsersClosed, Github!NoneLeft, Github!Over
<1> HIDE DEF All
<1> QED
  BY <1>1, <1>2, <1>3, PTL DEF Spec, Wall!Spec, Github!Spec

-----------------------------------------------------------------------------
(* FetchLadder *)

Profiles == {ProfileOf[f] : f \in Fetches}

\* A cache entry is for the profile that its cookies were set under.
OwnCookies == {c \in [key : Domains \X Profiles, from : Profiles] : c.key[2] = c.from}

CookiesInv ==
    /\ ladder_url \in [Fetches -> Domains]
    /\ ladder_cookies \in Seq(OwnCookies)
    /\ ladder_pc \in [Fetches -> {"new", "warm", "first", "plain", "profiles", "browser"}]
    /\ DOMAIN ladder_replayed = Fetches
    /\ Ladder!CookiesOfOwnProfile

LEMMA CookiesInit == ASSUME Ladder!Init PROVE CookiesInv
  BY DEF Ladder!Init, CookiesInv, Ladder!CookiesOfOwnProfile

LEMMA DroppedIn ==
  ASSUME NEW i \in DOMAIN ladder_cookies, ladder_cookies \in Seq(OwnCookies)
  PROVE  Ladder!Dropped(i) \in Seq(OwnCookies)
<1>1. i \in 1 .. Len(ladder_cookies) /\ Len(ladder_cookies) \in Nat
  OBVIOUS
<1>2. SubSeq(ladder_cookies, 1, i - 1) \in Seq(OwnCookies)
  BY <1>1
<1>3. SubSeq(ladder_cookies, i + 1, Len(ladder_cookies)) \in Seq(OwnCookies)
  BY <1>1
<1> QED
  BY <1>2, <1>3 DEF Ladder!Dropped

LEMMA OthersIn ==
  ASSUME NEW d, NEW f, ladder_cookies \in Seq(OwnCookies)
  PROVE  Ladder!OthersThan(d, f) \in Seq(OwnCookies)
<1>1. CASE Ladder!Cached(d, f) = {}
  BY <1>1 DEF Ladder!OthersThan
<1>2. CASE Ladder!Cached(d, f) # {}
  <2> DEFINE i == CHOOSE i \in Ladder!Cached(d, f) : TRUE
  <2>1. i \in DOMAIN ladder_cookies
    BY <1>2 DEF Ladder!Cached
  <2>2. Ladder!Dropped(i) \in Seq(OwnCookies)
    BY <2>1, DroppedIn
  <2> QED
    BY <1>2, <2>2 DEF Ladder!OthersThan
<1> QED
  BY <1>1, <1>2

LEMMA FoundIs ==
  ASSUME NEW d \in Domains, NEW f \in Fetches, ladder_cookies \in Seq(OwnCookies),
         Ladder!Cached(d, f) # {}
  PROVE  LET c == Ladder!CachedFor(d, f)
         IN  c \in OwnCookies /\ c.from = ProfileOf[f] /\ c.key[1] = d
<1> DEFINE i == CHOOSE i \in Ladder!Cached(d, f) : TRUE
<1>1. i \in DOMAIN ladder_cookies /\ ladder_cookies[i].key = <<d, ProfileOf[f]>>
  BY DEF Ladder!Cached, Ladder!Key
<1>2. ladder_cookies[i] \in OwnCookies
  BY <1>1
<1>3. Ladder!CachedFor(d, f) = ladder_cookies[i]
  BY DEF Ladder!CachedFor
<1> QED
  BY <1>1, <1>2, <1>3 DEF OwnCookies

LEMMA HarvestedIn ==
  ASSUME NEW f \in Fetches, MaxCookies \in Nat, CookiesInv
  PROVE  Ladder!Harvested(f) \in Seq(OwnCookies)
<1> DEFINE d == ladder_url[f]
           new == [key |-> Ladder!Key(d, f), from |-> ProfileOf[f]]
           old == IF Ladder!Cached(d, f) # {} THEN Ladder!Others(f)
                  ELSE Ladder!Capped(ladder_cookies, MaxCookies)
<1>1. d \in Domains /\ ladder_cookies \in Seq(OwnCookies)
  BY DEF CookiesInv
<1>2. new \in OwnCookies
  BY <1>1 DEF OwnCookies, Ladder!Key, Profiles
<1>3. Ladder!Others(f) \in Seq(OwnCookies)
  BY <1>1, OthersIn DEF Ladder!Others
<1>4. Ladder!Capped(ladder_cookies, MaxCookies) \in Seq(OwnCookies)
  BY <1>1 DEF Ladder!Capped
<1>5. old \in Seq(OwnCookies)
  BY <1>3, <1>4
<1>6. Ladder!Harvested(f) = IF ~Harvest THEN ladder_cookies ELSE Append(old, new)
  BY DEF Ladder!Harvested
<1> HIDE DEF old, new
<1> QED
  BY <1>1, <1>2, <1>5, <1>6

\* A step of the fetch f that changes its cookies as it may, and leaves it
\* anywhere but at the warm path, keeps what the cache promises.
LEMMA RungKeeps ==
  ASSUME NEW f \in Fetches, CookiesInv, NEW next, next # "warm",
         next \in {"new", "warm", "first", "plain", "profiles", "browser"},
         ladder_pc' = [ladder_pc EXCEPT ![f] = next], UNCHANGED ladder_url,
         \/ UNCHANGED ladder_replayed
         \/ ladder_replayed' = [ladder_replayed EXCEPT ![f] = None],
         ladder_cookies' \in Seq(OwnCookies)
  PROVE  CookiesInv'
<1>1. \A g \in Fetches : ladder_pc'[g] = "warm" =>
        ladder_pc[g] = "warm" /\ ladder_replayed'[g] = ladder_replayed[g]
  BY DEF CookiesInv
<1>2. Ladder!CookiesOfOwnProfile'
  BY <1>1 DEF CookiesInv, Ladder!CookiesOfOwnProfile
<1> QED
  BY <1>2 DEF CookiesInv

LEMMA CookiesStep ==
  ASSUME MaxCookies \in Nat, CookiesInv, [Ladder!Next]_(Ladder!vars) PROVE CookiesInv'
<1>1. /\ ladder_cookies \in Seq(OwnCookies) /\ ladder_url \in [Fetches -> Domains]
      /\ \A f \in Fetches : Ladder!Others(f) \in Seq(OwnCookies)
  BY OthersIn DEF CookiesInv, Ladder!Others
<1>2. ASSUME NEW f \in Fetches, Ladder!Begin(f) PROVE CookiesInv'
  <2>1. PICK d \in Domains : ladder_url' = [ladder_url EXCEPT ![f] = d]
    BY <1>2 DEF Ladder!Begin
  <2>2. ladder_url'[f] = d /\ ladder_url' \in [Fetches -> Domains]
    BY <1>1, <2>1
  <2> DEFINE hit == Ladder!Cached(d, f) # {}
             c == Ladder!CachedFor(d, f)
  <2>3. /\ ladder_pc[f] = "new"
        /\ ladder_replayed' = [ladder_replayed EXCEPT ![f] = IF hit THEN c ELSE None]
        /\ ladder_cookies' = IF hit THEN Append(Ladder!OthersThan(d, f), c) ELSE ladder_cookies
        /\ ladder_pc' = [ladder_pc EXCEPT
                           ![f] = IF hit THEN "warm" ELSE Ladder!Ladder(Ladder!Starting(d))]
    BY <1>2, <2>2 DEF Ladder!Begin
  <2>4. hit => c \in OwnCookies /\ c.from = ProfileOf[f] /\ c.key[1] = d
    BY <1>1, FoundIs
  <2>5. Ladder!OthersThan(d, f) \in Seq(OwnCookies)
    BY <1>1, OthersIn
  <2>6. Ladder!Ladder(Ladder!Starting(d)) \in {"first", "browser", "plain"}
    BY DEF Ladder!Ladder
  <2> HIDE DEF hit, c
  <2>7. ladder_cookies' \in Seq(OwnCookies)
    BY <1>1, <2>3, <2>4, <2>5
  <2>8. ASSUME NEW g \in Fetches, ladder_pc'[g] = "warm"
        PROVE  ladder_replayed'[g].from = ProfileOf[g] /\ ladder_replayed'[g].key[1] = ladder_url'[g]
    <3>1. CASE g = f
      BY <2>2, <2>3, <2>4, <2>6, <2>8, <3>1 DEF CookiesInv
    <3>2. CASE g # f
      <4>1. ladder_pc[g] = "warm" /\ ladder_replayed'[g] = ladder_replayed[g]
            /\ ladder_url'[g] = ladder_url[g]
        BY <2>1, <2>3, <2>8, <3>2 DEF CookiesInv
      <4> QED
        BY <4>1 DEF CookiesInv, Ladder!CookiesOfOwnProfile
    <3> QED
      BY <3>1, <3>2
  <2>9. Ladder!CookiesOfOwnProfile'
    BY <2>8 DEF Ladder!CookiesOfOwnProfile
  <2>10. /\ ladder_pc' \in [Fetches -> {"new", "warm", "first", "plain", "profiles", "browser"}]
         /\ DOMAIN ladder_replayed' = Fetches
    BY <2>3, <2>6 DEF CookiesInv
  <2> QED
    BY <2>2, <2>7, <2>9, <2>10 DEF CookiesInv
<1>3. ASSUME NEW f \in Fetches, NEW next, Ladder!Goto(f, next), next # "warm",
             next \in {"new", "warm", "first", "plain", "profiles", "browser"},
             UNCHANGED ladder_url, ladder_cookies' \in Seq(OwnCookies)
      PROVE  CookiesInv'
  <2>1. ladder_pc' = [ladder_pc EXCEPT ![f] = next] /\ UNCHANGED ladder_replayed
    BY <1>3 DEF Ladder!Goto
  <2> QED
    BY <1>3, <2>1, RungKeeps
<1>4. ASSUME NEW f \in Fetches, NEW rung, NEW page_, Ladder!Return(f, rung, page_),
             UNCHANGED ladder_url, ladder_cookies' \in Seq(OwnCookies)
      PROVE  CookiesInv'
  <2>1. /\ ladder_pc' = [ladder_pc EXCEPT ![f] = "new"]
        /\ ladder_replayed' = [ladder_replayed EXCEPT ![f] = None]
    BY <1>4 DEF Ladder!Return
  <2> QED
    BY <1>4, <2>1, RungKeeps
<1>5. ASSUME NEW f \in Fetches, Ladder!Warm(f) PROVE CookiesInv'
  <2>1. ladder_cookies' \in Seq(OwnCookies) /\ UNCHANGED ladder_url
    BY <1>1, <1>5 DEF Ladder!Warm
  <2>2. Ladder!Ladder(ladder_asked[f]) \in {"first", "browser", "plain"}
    BY DEF Ladder!Ladder
  <2>3. \/ Ladder!Return(f, "wreq", "page")
        \/ Ladder!Goto(f, Ladder!Ladder(ladder_asked[f]))
    BY <1>5 DEF Ladder!Warm
  <2> HIDE DEF Ladder!Ladder
  <2> QED
    BY <2>1, <2>2, <2>3, <1>3, <1>4
<1>6. ASSUME NEW f \in Fetches, Ladder!First(f) PROVE CookiesInv'
  <2>1. UNCHANGED ladder_url
    BY <1>6 DEF Ladder!First
  <2>2. \/ ladder_cookies' = Ladder!Harvested(f) /\ \E p : Ladder!Return(f, "browser", p)
        \/ UNCHANGED ladder_cookies /\ Ladder!Goto(f, "plain")
    BY <1>6 DEF Ladder!First, Ladder!Render
  <2> QED
    BY <1>1, <1>3, <1>4, <2>1, <2>2, HarvestedIn
<1>7. ASSUME NEW f \in Fetches, Ladder!Browser(f) PROVE CookiesInv'
  <2>1. UNCHANGED ladder_url
    BY <1>7 DEF Ladder!Browser
  <2>2. \/ ladder_cookies' = Ladder!Harvested(f) /\ \E p : Ladder!Return(f, "browser", p)
        \/ UNCHANGED ladder_cookies /\ Ladder!Return(f, "none", "error")
    BY <1>7 DEF Ladder!Browser, Ladder!Render
  <2> QED
    BY <1>1, <1>4, <2>1, <2>2, HarvestedIn
<1>8. ASSUME NEW f \in Fetches, Ladder!Plain(f) PROVE CookiesInv'
  <2>1. UNCHANGED ladder_url /\ ladder_cookies' \in {ladder_cookies, Ladder!Others(f)}
    BY <1>8 DEF Ladder!Plain
  <2>2. \/ \E r, p : Ladder!Return(f, r, p)
        \/ \E next \in {"browser", "profiles"} : Ladder!Goto(f, next)
    BY <1>8 DEF Ladder!Plain
  <2> QED
    BY <1>1, <1>3, <1>4, <2>1, <2>2
<1>9. ASSUME NEW f \in Fetches, Ladder!Profiles(f) PROVE CookiesInv'
  <2>1. UNCHANGED <<ladder_url, ladder_cookies>>
    BY <1>9 DEF Ladder!Profiles
  <2>2. (\E r, p : Ladder!Return(f, r, p)) \/ Ladder!Goto(f, "browser")
    BY <1>9 DEF Ladder!Profiles
  <2> QED
    BY <1>1, <1>3, <1>4, <2>1, <2>2
<1>10. ASSUME UNCHANGED <<ladder_pc, ladder_url, ladder_replayed>>,
              ladder_cookies' \in Seq(OwnCookies)
       PROVE  CookiesInv'
  BY <1>10 DEF CookiesInv, Ladder!CookiesOfOwnProfile
<1>11. CASE Ladder!Ages
  <2>1. ladder_cookies' \in Seq(OwnCookies)
    BY <1>1, <1>11, DroppedIn DEF Ladder!Ages
  <2> QED
    BY <1>10, <1>11, <2>1 DEF Ladder!Ages
<1>12. CASE Ladder!SiteChanges \/ UNCHANGED Ladder!vars
  BY <1>1, <1>10, <1>12 DEF Ladder!SiteChanges, Ladder!vars
<1> QED
  BY <1>2, <1>5, <1>6, <1>7, <1>8, <1>9, <1>11, <1>12 DEF Ladder!Next, Ladder!Step

-----------------------------------------------------------------------------
(* FetchBatch: the targets are 1 .. n. *)

Result == [of : Targets \cup {None}, ok : BOOLEAN, path : {FileOf[t] : t \in Targets} \cup {None}]
BatchSteps == {"idle", "fetch", "write", "dead"}
Told == batch_phase \in {"joined", "compiled", "failed"}

\* A worker that works has the target it took, and no two have the same. As long
\* as none has thrown, a target that was taken is with one worker or has its
\* result, and workers are done when the batch is; afterwards none is fetched.
BatchInv ==
    /\ batch_phase \in {"new", "batch"} \/ Told
    /\ batch_index \in Nat /\ batch_index >= 1 /\ batch_thrown \in Targets \cup {None}
    /\ batch_step \in [Workers -> BatchSteps]
    /\ batch_at \in [Workers -> Targets \cup {None}]
    /\ batch_slots \in [Targets -> Result \cup {None}]
    /\ \A w \in Workers :
          /\ batch_at[w] = None <=> batch_step[w] \in {"idle", "dead"}
          /\ batch_at[w] # None => batch_at[w] < batch_index
          /\ batch_thrown = None => batch_step[w] # "dead"
    /\ \A v, w \in Workers : v # w /\ batch_at[v] # None => batch_at[v] # batch_at[w]
    /\ \A t \in Targets : batch_slots[t] # None /\ (batch_thrown = None \/ batch_slots[t].ok) =>
          batch_slots[t].of = t
    /\ batch_thrown = None => \A t \in Targets : t < batch_index =>
          batch_slots[t] # None \/ \E w \in Workers : batch_at[w] = t
    /\ batch_phase = "new" => batch_index = 1 /\ batch_thrown = None
    /\ Told /\ batch_thrown = None =>
          batch_index \notin Targets /\ \A w \in Workers : batch_step[w] = "idle"
    /\ Told /\ batch_thrown # None =>
          batch_phase = "joined" /\ \A t \in Targets : batch_slots[t] # None /\ ~batch_slots[t].ok
    /\ batch_session = "closed" => Told

LEMMA BatchInit ==
  ASSUME NEW n \in Nat, Targets = 1 .. n, None \notin Targets, None # "closed", Batch!Init
  PROVE  BatchInv
<1>1. /\ batch_phase = "new" /\ batch_session = None /\ batch_index = 1 /\ batch_thrown = None
      /\ batch_at = [w \in Workers |-> None] /\ batch_step = [w \in Workers |-> "idle"]
      /\ batch_slots = [t \in Targets |-> None]
  BY DEF Batch!Init
<1>2. \A t \in Targets : ~(t < 1)
  OBVIOUS
<1> QED
  BY <1>1, <1>2 DEF BatchInv, Told, BatchSteps

\* A worker is at work only while the batch runs, or goes on after a rejection.
LEMMA AtWork ==
  ASSUME NEW n \in Nat, Targets = 1 .. n, None \notin Targets, BatchInv,
         NEW w \in Workers, batch_step[w] \in {"fetch", "write"}
  PROVE  /\ batch_at[w] \in Targets /\ batch_phase # "new"
         /\ Told => batch_thrown # None
<1>1. batch_at[w] \in Targets /\ batch_at[w] < batch_index
  BY DEF BatchInv
<1>2. batch_index # 1
  BY <1>1
<1> QED
  BY <1>1, <1>2 DEF BatchInv

\* A worker ends its target, with a result or with a throw.
LEMMA BatchEnds ==
  ASSUME NEW n \in Nat, Targets = 1 .. n, None \notin Targets \cup Result, BatchInv,
         NEW w \in Workers, batch_step[w] \in {"fetch", "write"},
         NEW s \in {"idle", "dead"}, batch_step' = [batch_step EXCEPT ![w] = s],
         batch_at' = [batch_at EXCEPT ![w] = None],
         UNCHANGED <<batch_phase, batch_session, batch_index>>
  PROVE  /\ \A v \in Workers : v # w => batch_at'[v] = batch_at[v] /\ batch_step'[v] = batch_step[v]
         /\ batch_at'[w] = None /\ batch_step'[w] = s
         /\ batch_at' \in [Workers -> Targets \cup {None}] /\ batch_step' \in [Workers -> BatchSteps]
         /\ \A v \in Workers : /\ batch_at'[v] = None <=> batch_step'[v] \in {"idle", "dead"}
                               /\ batch_at'[v] # None => batch_at'[v] < batch_index'
         /\ \A v, x \in Workers : v # x /\ batch_at'[v] # None => batch_at'[v] # batch_at'[x]
<1>1. /\ batch_at \in [Workers -> Targets \cup {None}] /\ batch_step \in [Workers -> BatchSteps]
  BY DEF BatchInv
<1>2. /\ \A v \in Workers : v # w => batch_at'[v] = batch_at[v] /\ batch_step'[v] = batch_step[v]
      /\ batch_at'[w] = None /\ batch_step'[w] = s
      /\ batch_at' \in [Workers -> Targets \cup {None}] /\ batch_step' \in [Workers -> BatchSteps]
  BY <1>1 DEF BatchSteps
<1> QED
  BY <1>2 DEF BatchInv

LEMMA BatchStep ==
  ASSUME NEW n \in Nat, Targets = 1 .. n, None \notin Targets \cup Result, None # "closed",
         BatchInv, [Batch!Next]_(Batch!vars)
  PROVE  BatchInv'
<1>0. /\ batch_index \in Nat /\ batch_at \in [Workers -> Targets \cup {None}]
      /\ batch_step \in [Workers -> BatchSteps]
      /\ batch_slots \in [Targets -> Result \cup {None}]
      /\ \A t \in Targets : t \in Nat /\ t >= 1
  BY DEF BatchInv
<1>1. CASE Batch!Open
  BY <1>1 DEF Batch!Open, BatchInv, Told
<1>2. ASSUME NEW w \in Workers, Batch!Take(w) PROVE BatchInv'
  <2>1. /\ batch_step[w] = "idle" /\ batch_index \in Targets /\ batch_phase # "new"
        /\ batch_at' = [batch_at EXCEPT ![w] = batch_index]
        /\ batch_step' = [batch_step EXCEPT ![w] = "fetch"]
        /\ batch_index' = batch_index + 1
        /\ UNCHANGED <<batch_phase, batch_session, batch_slots, batch_thrown>>
    BY <1>2 DEF Batch!Take, Batch!Advance
  <2>2. /\ batch_at'[w] = batch_index /\ batch_step'[w] = "fetch"
        /\ \A v \in Workers : v # w => batch_at'[v] = batch_at[v] /\ batch_step'[v] = batch_step[v]
    BY <1>0, <2>1
  <2>3. \A v \in Workers : batch_at[v] # None => batch_at[v] \in Nat /\ batch_at[v] < batch_index
    BY <1>0 DEF BatchInv
  <2>4. \A v, x \in Workers : v # x /\ batch_at'[v] # None => batch_at'[v] # batch_at'[x]
    BY <1>0, <2>1, <2>2, <2>3 DEF BatchInv
  <2>5. batch_at[w] = None
    BY <2>1 DEF BatchInv
  <2>6. ASSUME NEW t \in Targets, t < batch_index', batch_thrown = None
        PROVE  batch_slots[t] # None \/ \E v \in Workers : batch_at'[v] = t
    <3>1. CASE t = batch_index
      BY <2>2, <3>1
    <3>2. CASE t # batch_index
      <4>1. t < batch_index
        BY <1>0, <2>1, <2>6, <3>2
      <4>2. batch_slots[t] # None \/ \E v \in Workers : batch_at[v] = t
        BY <2>6, <4>1 DEF BatchInv
      <4>3. ASSUME NEW v \in Workers, batch_at[v] = t PROVE batch_at'[v] = t
        BY <2>2, <2>5, <4>3
      <4> QED
        BY <4>2, <4>3
    <3> QED
      BY <3>1, <3>2
  <2>7. \A v \in Workers : /\ batch_at'[v] = None <=> batch_step'[v] \in {"idle", "dead"}
                           /\ batch_at'[v] # None => batch_at'[v] < batch_index'
                           /\ batch_thrown = None => batch_step'[v] # "dead"
    BY <1>0, <2>1, <2>2, <2>3 DEF BatchInv
  <2>8. /\ batch_at' \in [Workers -> Targets \cup {None}]
        /\ batch_step' \in [Workers -> BatchSteps]
        /\ batch_index' \in Nat /\ batch_index' >= 1
    BY <1>0, <2>1 DEF BatchSteps
  <2>9. Told' <=> Told
    BY <2>1 DEF Told
  <2>10. Told => batch_thrown # None
    BY <2>1 DEF BatchInv
  <2>11. /\ \A t \in Targets : batch_slots[t] # None /\ (batch_thrown = None \/ batch_slots[t].ok) =>
               batch_slots[t].of = t
         /\ Told => batch_phase = "joined" /\ \A t \in Targets : batch_slots[t] # None /\ ~batch_slots[t].ok
         /\ batch_session = "closed" => Told
         /\ batch_phase \in {"new", "batch"} \/ Told
         /\ batch_thrown \in Targets \cup {None}
    BY <2>10 DEF BatchInv
  <2> QED
    BY <1>0, <2>1, <2>4, <2>6, <2>7, <2>8, <2>9, <2>10, <2>11 DEF BatchInv
<1>3. ASSUME NEW w \in Workers, NEW ok \in BOOLEAN, NEW path, Batch!Put(w, ok, path),
             path \in {FileOf[t] : t \in Targets} \cup {None},
             batch_step[w] \in {"fetch", "write"},
             UNCHANGED <<batch_phase, batch_session, batch_index, batch_thrown>>
      PROVE  BatchInv'
  <2> DEFINE t == batch_at[w]
             r == [of |-> t, ok |-> ok, path |-> path]
  <2>1. /\ t \in Targets /\ batch_phase # "new" /\ (Told => batch_thrown # None)
    BY <1>3, AtWork
  <2>2. /\ batch_step' = [batch_step EXCEPT ![w] = "idle"]
        /\ batch_at' = [batch_at EXCEPT ![w] = None]
        /\ batch_slots' = IF batch_phase = "batch" THEN [batch_slots EXCEPT ![t] = r] ELSE batch_slots
    BY <1>3 DEF Batch!Put
  <2>3. r \in Result /\ r.of = t /\ r # None
    BY <1>3, <2>1 DEF Result
  <2> HIDE DEF r
  <2>4. /\ \A v \in Workers : v # w => batch_at'[v] = batch_at[v] /\ batch_step'[v] = batch_step[v]
        /\ batch_at'[w] = None /\ batch_step'[w] = "idle"
        /\ batch_at' \in [Workers -> Targets \cup {None}] /\ batch_step' \in [Workers -> BatchSteps]
        /\ \A v \in Workers : /\ batch_at'[v] = None <=> batch_step'[v] \in {"idle", "dead"}
                              /\ batch_at'[v] # None => batch_at'[v] < batch_index'
        /\ \A v, x \in Workers : v # x /\ batch_at'[v] # None => batch_at'[v] # batch_at'[x]
    BY <1>3, <2>2, BatchEnds
  <2>5. Told' <=> Told
    BY <1>3 DEF Told
  <2>6. /\ batch_slots' \in [Targets -> Result \cup {None}]
        /\ \A u \in Targets : batch_slots'[u] = batch_slots[u] \/ (u = t /\ batch_slots'[u] = r)
        /\ batch_phase = "batch" => batch_slots'[t] = r
    BY <1>0, <2>1, <2>2, <2>3
  <2>7. ASSUME NEW u \in Targets
        PROVE  /\ (batch_slots'[u] # None /\ (batch_thrown = None \/ batch_slots'[u].ok))
                     => batch_slots'[u].of = u
               /\ (batch_thrown = None /\ u < batch_index) =>
                     (batch_slots'[u] # None \/ \E v \in Workers : batch_at'[v] = u)
    <3>1. batch_slots[u] # None /\ (batch_thrown = None \/ batch_slots[u].ok) => batch_slots[u].of = u
      BY DEF BatchInv
    <3>2. batch_slots'[u] # None /\ (batch_thrown = None \/ batch_slots'[u].ok) => batch_slots'[u].of = u
      BY <2>3, <2>6, <3>1
    <3>3. ASSUME batch_thrown = None, u < batch_index
          PROVE  batch_slots'[u] # None \/ \E v \in Workers : batch_at'[v] = u
      <4>1. batch_phase = "batch"
        BY <2>1, <3>3 DEF BatchInv
      <4>2. batch_slots[u] # None \/ \E v \in Workers : batch_at[v] = u
        BY <3>3 DEF BatchInv
      <4>3. u # t => batch_slots'[u] = batch_slots[u]
        BY <2>6
      <4> QED
        BY <2>3, <2>4, <2>6, <4>1, <4>2, <4>3
    <3> QED
      BY <3>2, <3>3
  <2>8. \A v \in Workers : batch_thrown = None => batch_step'[v] # "dead"
    BY <2>4 DEF BatchInv
  <2>9. /\ Told => batch_phase = "joined" /\ \A u \in Targets : batch_slots'[u] # None /\ ~batch_slots'[u].ok
    <3>1. Told => batch_slots' = batch_slots
      BY <2>2 DEF Told
    <3> QED
      BY <2>1, <3>1 DEF BatchInv
  <2>10. /\ batch_session = "closed" => Told
         /\ batch_phase = "batch" \/ Told
         /\ batch_thrown \in Targets \cup {None} /\ batch_index >= 1
    BY <2>1 DEF BatchInv
  <2> QED
    BY <1>0, <1>3, <2>1, <2>4, <2>5, <2>6, <2>7, <2>8, <2>9, <2>10 DEF BatchInv
<1>4. ASSUME NEW w \in Workers, Batch!Dies(w), batch_step[w] \in {"fetch", "write"},
             UNCHANGED <<batch_phase, batch_session, batch_index>>
      PROVE  BatchInv'
  <2>1. /\ batch_at[w] \in Targets /\ batch_phase # "new" /\ (Told => batch_thrown # None)
    BY <1>4, AtWork
  <2>2. /\ batch_step' = [batch_step EXCEPT ![w] = "dead"]
        /\ batch_at' = [batch_at EXCEPT ![w] = None]
        /\ batch_thrown' = (IF batch_thrown = None THEN batch_at[w] ELSE batch_thrown)
        /\ batch_slots' = batch_slots
    BY <1>4 DEF Batch!Dies
  <2>3. /\ batch_at' \in [Workers -> Targets \cup {None}] /\ batch_step' \in [Workers -> BatchSteps]
        /\ \A v \in Workers : /\ batch_at'[v] = None <=> batch_step'[v] \in {"idle", "dead"}
                              /\ batch_at'[v] # None => batch_at'[v] < batch_index'
        /\ \A v, x \in Workers : v # x /\ batch_at'[v] # None => batch_at'[v] # batch_at'[x]
    BY <1>4, <2>2, BatchEnds
  <2>4. batch_thrown' \in Targets /\ batch_thrown' # None
    BY <2>1, <2>2 DEF BatchInv
  <2>5. Told' <=> Told
    BY <1>4 DEF Told
  <2>6. /\ batch_session = "closed" => Told
        /\ batch_phase = "batch" \/ Told
        /\ batch_index >= 1
        /\ \A t \in Targets : batch_slots[t] # None /\ batch_slots[t].ok => batch_slots[t].of = t
        /\ Told => batch_phase = "joined" /\ \A u \in Targets : batch_slots[u] # None /\ ~batch_slots[u].ok
    BY <2>1 DEF BatchInv
  <2> QED
    BY <1>0, <1>4, <2>1, <2>2, <2>3, <2>4, <2>5, <2>6 DEF BatchInv
<1>5. ASSUME NEW w \in Workers, Batch!Fetched(w) PROVE BatchInv'
  <2>1. batch_step[w] = "fetch" /\ UNCHANGED <<batch_phase, batch_session, batch_index>>
    BY <1>5 DEF Batch!Fetched
  <2>2. ASSUME batch_step' = [batch_step EXCEPT ![w] = "write"],
               UNCHANGED <<batch_at, batch_slots, batch_thrown>>
        PROVE  BatchInv'
    <3>1. /\ batch_step' \in [Workers -> BatchSteps]
          /\ \A v \in Workers : (batch_step'[v] \in {"idle", "dead"} <=> batch_step[v] \in {"idle", "dead"})
                                /\ (batch_step'[v] = "idle" <=> batch_step[v] = "idle")
                                /\ (batch_step'[v] = "dead" <=> batch_step[v] = "dead")
      BY <1>0, <2>1, <2>2 DEF BatchSteps
    <3> QED
      BY <2>1, <2>2, <3>1 DEF BatchInv, Told
  <2> QED
    BY <1>3, <1>4, <1>5, <2>1, <2>2 DEF Batch!Fetched
<1>6. ASSUME NEW w \in Workers, Batch!Write(w) PROVE BatchInv'
  <2>1. batch_step[w] = "write" /\ UNCHANGED <<batch_phase, batch_session, batch_index>>
    BY <1>6 DEF Batch!Write
  <2>2. FileOf[batch_at[w]] \in {FileOf[t] : t \in Targets}
    BY <2>1, AtWork
  <2> QED
    BY <1>3, <1>4, <1>6, <2>1, <2>2 DEF Batch!Write
<1>7. CASE Batch!Join
  <2>1. /\ batch_phase = "batch" /\ batch_phase' = "joined"
        /\ UNCHANGED <<batch_index, batch_at, batch_step, batch_thrown>>
        /\ Told'
    BY <1>7 DEF Batch!Join, Told
  <2>2. CASE batch_thrown = None
    BY <1>7, <2>1, <2>2 DEF Batch!Join, BatchInv
  <2>3. CASE batch_thrown # None
    <3>1. batch_slots' = [t \in Targets |->
                            [of |-> IF t = 1 THEN batch_thrown ELSE None, ok |-> FALSE, path |-> None]]
      BY <1>7, <2>3 DEF Batch!Join
    <3>2. \A t \in Targets : batch_slots'[t] \in Result /\ batch_slots'[t] # None /\ ~batch_slots'[t].ok
      <4>1. batch_thrown \in Targets \cup {None}
        BY DEF BatchInv
      <4>2. ASSUME NEW t \in Targets, NEW o \in {batch_thrown, None},
                   batch_slots'[t] = [of |-> o, ok |-> FALSE, path |-> None]
            PROVE  batch_slots'[t] \in Result /\ ~batch_slots'[t].ok
        BY <4>1, <4>2 DEF Result
      <4>3. \A t \in Targets : \E o \in {batch_thrown, None} :
              batch_slots'[t] = [of |-> o, ok |-> FALSE, path |-> None]
        BY <3>1
      <4> QED
        BY <4>2, <4>3
    <3>3. batch_slots' \in [Targets -> Result \cup {None}]
      BY <3>1, <3>2
    <3> QED
      BY <2>1, <2>3, <3>2, <3>3 DEF BatchInv
  <2> QED
    BY <2>2, <2>3
<1>8. CASE Batch!Compile
  <2>1. /\ batch_phase = "joined" /\ batch_phase' \in {"compiled", "failed"}
        /\ \E t \in Targets : batch_slots[t].ok
        /\ UNCHANGED <<batch_session, batch_index, batch_at, batch_step, batch_slots, batch_thrown>>
    BY <1>8 DEF Batch!Compile, Batch!Good
  <2>2. Told /\ Told' /\ batch_thrown = None
    BY <2>1 DEF BatchInv, Told
  <2> QED
    BY <2>1, <2>2 DEF BatchInv
<1>9. CASE UNCHANGED Batch!vars
  BY <1>9 DEF Batch!vars, BatchInv, Told
<1> QED
  BY <1>1, <1>2, <1>5, <1>6, <1>7, <1>8, <1>9 DEF Batch!Next

LEMMA BatchOwn ==
  ASSUME NEW n \in Nat, Targets = 1 .. n, None \notin Targets, BatchInv
  PROVE  Batch!OwnResults
<1>1. ASSUME batch_phase \in {"joined", "compiled"}, NEW t \in Targets
      PROVE  /\ batch_slots[t] # None
             /\ IF batch_thrown = None THEN batch_slots[t].of = t ELSE ~batch_slots[t].ok
  <2>1. Told
    BY <1>1 DEF Told
  <2>2. CASE batch_thrown = None
    <3>1. /\ batch_index \in Nat /\ batch_index >= 1 /\ batch_index \notin 1 .. n
          /\ \A w \in Workers : batch_step[w] = "idle"
      BY <2>1, <2>2 DEF BatchInv
    <3>2. t < batch_index
      BY <3>1
    <3>3. \A w \in Workers : batch_at[w] # t
      BY <3>1, <1>1 DEF BatchInv
    <3> QED
      BY <2>2, <3>2, <3>3 DEF BatchInv
  <2>3. CASE batch_thrown # None
    BY <2>1, <2>3 DEF BatchInv
  <2> QED
    BY <2>2, <2>3
<1>2. ASSUME batch_phase \in {"compiled", "failed"} \/ (batch_session = "closed" /\ batch_thrown = None),
             NEW w \in Workers
      PROVE  batch_at[w] = None
  <2>1. Told /\ batch_thrown = None
    BY <1>2 DEF BatchInv, Told
  <2> QED
    BY <2>1 DEF BatchInv
<1>3. \A t \in Targets : batch_slots[t] # None /\ batch_slots[t].ok => batch_slots[t].of = t
  BY DEF BatchInv
<1>4. \A v, w \in Workers : v # w /\ batch_at[v] # None => batch_at[v] # batch_at[w]
  BY DEF BatchInv
<1> QED
  BY <1>1, <1>2, <1>3, <1>4 DEF Batch!OwnResults, Batch!AtWork

-----------------------------------------------------------------------------
\* Nothing of one fetch reaches another site, profile or caller: the cookies of
\* a render (cookie-cache.ts), the caller's headers along redirects
\* (webfetch-api.ts), the slots of a batch (runInBatches()).
KeptApart == Ladder!CookiesOfOwnProfile /\ HeadersStay /\ Batch!OwnResults

\* KeptApart for any number of fetches, pages, targets and workers, whatever
\* workers throw.
THEOREM FetchesKeptApart ==
  ASSUME MaxCookies \in Nat, NEW n \in Nat, Targets = 1 .. n,
         None \notin Targets \cup Result, None # "closed"
  PROVE  Spec /\ Ladder!Spec /\ Batch!Spec => []KeptApart
<1> DEFINE All == HeadersInv /\ CookiesInv /\ BatchInv
<1>1. Init /\ Ladder!Init /\ Batch!Init => All
  BY HeadersInit, CookiesInit, BatchInit
<1>2. All /\ [Next]_vars /\ [Ladder!Next]_(Ladder!vars) /\ [Batch!Next]_(Batch!vars) => All'
  BY HeadersStep, CookiesStep, BatchStep
<1>3. All => KeptApart
  BY BatchOwn DEF HeadersInv, CookiesInv, KeptApart
<1> HIDE DEF All
<1> QED
  BY <1>1, <1>2, <1>3, PTL DEF Spec, Ladder!Spec, Batch!Spec

-----------------------------------------------------------------------------
(* TabSearch *)

\* A tab whose id was not read is noted as lost, and none that is known stays
\* when the search is over.
TabInv ==
    /\ tab_tab = "open" /\ ~tab_known => tab_lost = "unread"
    /\ Tab!TabGone

LEMMA TabInit == ASSUME Tab!Init PROVE TabInv
  BY DEF Tab!Init, TabInv, Tab!TabGone

LEMMA TabStep == ASSUME TabInv, [Tab!Next]_(Tab!vars) PROVE TabInv'
<1> USE DEF TabInv, Tab!TabGone, Tab!Then, Tab!Throw
<1>1. CASE Tab!Create \/ Tab!Open
  BY <1>1 DEF Tab!Create, Tab!Open
<1>2. CASE Tab!Navigate \/ Tab!Locate \/ Tab!Turn
  BY <1>2 DEF Tab!Navigate, Tab!Locate, Tab!Turn
<1>3. CASE Tab!Extract
  BY <1>3 DEF Tab!Extract, Tab!ExtractFails, Tab!Merge
<1>4. CASE Tab!CloseTab
  BY <1>4 DEF Tab!CloseTab
<1>5. CASE Tab!Abort \/ Tab!Expire \/ UNCHANGED Tab!vars
  BY <1>5 DEF Tab!Abort, Tab!Expire, Tab!vars
<1> QED
  BY <1>1, <1>2, <1>3, <1>4, <1>5 DEF Tab!Next

\* The search has results from the first page it read, and until it leaves for
\* the cleanup it has no error.
Early == {"create", "open", "navigate", "locate"}

Verdict ==
    /\ tab_error # "none" => tab_got = 0 \/ (tab_error = "request_fenced" /\ tab_aborted)
    /\ tab_error = "none" => tab_got > 0

GotInv ==
    /\ tab_got \in Nat /\ tab_got <= TabResults /\ tab_page \in Nat /\ tab_page >= 1
    /\ tab_pc \in Early \cup {"extract", "turn"} => tab_error = "none"
    /\ tab_pc \in Early => tab_got = 0 /\ tab_page = 1
    /\ tab_pc = "extract" => (tab_page = 1 <=> tab_got = 0)
    /\ tab_pc = "turn" => tab_got > 0
    /\ tab_pc \in {"close", "over"} => Verdict

LEMMA GotInit == ASSUME TabResults \in Nat, Tab!Init PROVE GotInv
  BY DEF Tab!Init, GotInv, Early

LEMMA GotStep ==
  ASSUME TabResults \in Nat, PageSize \in Nat, GotInv, [Tab!Next]_(Tab!vars) PROVE GotInv'
<1> USE DEF Early, Verdict
<1>1. CASE Tab!Create \/ Tab!Open \/ Tab!Navigate
  BY <1>1 DEF Tab!Create, Tab!Open, Tab!Navigate, GotInv, Tab!Then, Tab!Throw
<1>2. CASE Tab!Locate
  BY <1>2 DEF Tab!Locate, GotInv, Tab!Throw
<1>3. CASE Tab!Extract
  <2>1. tab_pc = "extract" /\ UNCHANGED tab_aborted /\ tab_got \in Nat /\ tab_page \in Nat
        /\ tab_got <= TabResults /\ tab_page >= 1 /\ tab_error = "none" /\ (tab_page = 1 <=> tab_got = 0)
    BY <1>3 DEF Tab!Extract, GotInv
  <2>2. ASSUME NEW n \in Tab!Found, NEW new \in (IF tab_page = 1 THEN {n} ELSE 0 .. n),
               Tab!Merge(new)
        PROVE  GotInv'
    <3>1. n \in Nat /\ n >= 1 /\ n <= TabResults - tab_got
      BY <2>1, <2>2 DEF Tab!Found, Tab!Min2
    <3>2. new \in Nat /\ new <= n /\ tab_got + new > 0 /\ tab_got + new <= TabResults
      BY <2>1, <2>2, <3>1
    <3>3. /\ tab_got' = tab_got + new /\ tab_page' = tab_page
          /\ \/ tab_pc' = "close" /\ tab_error' = tab_error
             \/ tab_pc' = "close" /\ tab_error' = "request_fenced" /\ tab_aborted
             \/ tab_pc' = "turn" /\ tab_error' = tab_error
      BY <2>2 DEF Tab!Merge, Tab!Then
    <3> QED
      BY <2>1, <3>2, <3>3 DEF GotInv
  <2>3. CASE Tab!ExtractFails
    <3>1. CASE tab_page = 1
      BY <2>1, <2>3, <3>1 DEF Tab!ExtractFails, Tab!Throw, GotInv
    <3>2. CASE tab_page # 1
      BY <2>1, <2>3, <3>2 DEF Tab!ExtractFails, Tab!Then, GotInv
    <3> QED
      BY <3>1, <3>2
  <2> QED
    BY <1>3, <2>2, <2>3 DEF Tab!Extract
<1>4. CASE Tab!Turn
  BY <1>4 DEF Tab!Turn, GotInv, Tab!Throw, Tab!Then
<1>5. CASE Tab!CloseTab
  BY <1>5 DEF Tab!CloseTab, GotInv
<1>6. CASE Tab!Abort \/ Tab!Expire \/ UNCHANGED Tab!vars
  BY <1>6 DEF Tab!Abort, Tab!Expire, Tab!vars, GotInv
<1> QED
  BY <1>1, <1>2, <1>3, <1>4, <1>5, <1>6 DEF Tab!Next

-----------------------------------------------------------------------------
(* GooglePages *)

\* A tab of one's own is open but not ready only while it is being prepared.
GoogleInv ==
    /\ google_tab \in {"none", "open", "hooked", "unheard"} \cup Google!Shut
    /\ google_given => google_tab = "hooked" /\ google_phase # "hook"
    /\ google_phase \notin {"hook", "killed"} => google_tab # "open"
    /\ google_phase = "exit" /\ ~google_given => google_tab # "hooked"
    /\ google_phase = "open" => google_output = None
    /\ google_tab = "unheard" => google_phase \in {"close", "exit", "killed"} /\ google_output = None

LEMMA GoogleInit == ASSUME Google!Init PROVE GoogleInv
  BY DEF Google!Init, GoogleInv, Google!Shut

LEMMA GoogleStep == ASSUME GoogleInv, [Google!Next]_(Google!vars) PROVE GoogleInv'
<1> USE DEF GoogleInv, Google!Goto, Google!Throw, Google!ask, Google!Shut
<1>1. CASE Google!Given
  BY <1>1 DEF Google!Given, Google!First
<1>2. CASE Google!Open \/ Google!Hook
  <2>1. CASE Google!Open
    <3>1. CASE google_tab' = "open" /\ google_phase' = "hook"
      BY <2>1, <3>1 DEF Google!Open
    <3>2. CASE google_tab' \in {"none", "unheard"} /\ google_phase' = "close"
      <4>1. google_tab' = "none" \/ (google_tab' = "unheard" /\ google_output' = google_output)
        BY <2>1, <3>2 DEF Google!Open
      <4> QED
        BY <2>1, <3>2, <4>1 DEF Google!Open
    <3> QED
      BY <2>1, <3>1, <3>2 DEF Google!Open
  <2>2. CASE Google!Hook
    BY <2>2 DEF Google!Hook, Google!Unhooked, Google!First
  <2> QED
    BY <1>2, <2>1, <2>2
<1>3. CASE Google!Direct \/ Google!Submit
  <2>1. /\ google_phase \in {"direct", "home"} /\ UNCHANGED <<google_tab, google_given>>
        /\ google_phase' \in {"direct read", "home", "read", "close"}
    BY <1>3 DEF Google!Direct, Google!Submit
  <2> QED
    BY <2>1
<1>4. CASE Google!Read
  <2>1. /\ google_phase \in {"read", "direct read"} /\ UNCHANGED <<google_tab, google_given>>
        /\ google_phase' \in {"more", "direct more", "close", "home"}
    BY <1>4 DEF Google!Read
  <2> QED
    BY <2>1
<1>5. CASE Google!More
  <2>1. /\ google_phase \in {"more", "direct more"} /\ UNCHANGED <<google_tab, google_given>>
        /\ google_phase' \in {"print", "direct print", google_phase}
    BY <1>5 DEF Google!More, Google!MoreFails
  <2> QED
    BY <2>1
<1>6. CASE Google!Printed
  BY <1>6 DEF Google!Printed
<1>7. CASE Google!Arrive \/ Google!Verify \/ Google!AnswerRead
  BY <1>7 DEF Google!Arrive, Google!Verify, Google!AnswerRead
<1>8. CASE Google!Close \/ Google!Killed
  BY <1>8 DEF Google!Close, Google!Closes, Google!Killed
<1>9. CASE Google!Done \/ UNCHANGED Google!vars
  BY <1>9 DEF Google!Done, Google!vars
<1> QED
  BY <1>1, <1>2, <1>3, <1>4, <1>5, <1>6, <1>7, <1>8, <1>9 DEF Google!Next

LEMMA HowMany == ASSUME NEW S PROVE Google!Cardinality(S) = Cardinality(S)
  BY DEF Google!Cardinality, Cardinality

\* What a search has merged holds the first page, or all that was asked for, as
\* soon as it has read that page; a process has printed or has failed when it
\* comes to its end, and what was counted before it is no failure.
FirstOf(results) ==
    google_rows[1] \subseteq results \/ Google!Cardinality(results) = MaxResults

Answering == {"arrive", "verify", "answer"}
Looking == {"direct", "home", "read", "direct read", "more", "direct more", "print", "direct print"}
Leaving == {"close", "exit", "killed"}

PagesInv ==
    /\ google_rows \in [1 .. MaxPages -> SUBSET Urls] /\ google_merged \in SUBSET Urls
    /\ google_program \in {"search", "answer"} /\ google_failed \in BOOLEAN
    /\ google_phase \in {"open", "hook"} \cup Answering \cup Looking \cup Leaving
    /\ google_phase \in Answering => google_program = "answer"
    /\ google_phase \in Looking => google_program = "search"
    /\ google_phase \in {"open", "hook"} \cup Answering => google_merged = {}
    /\ Google!Cardinality(google_merged) <= MaxResults
    /\ google_phase \in {"more", "direct more", "print", "direct print"} => FirstOf(google_merged)
    /\ google_phase \notin Leaving => google_output = None /\ google_failed = FALSE
    /\ google_output # None =>
          /\ google_failed = FALSE
          /\ google_program = "search" =>
                Google!Cardinality(google_output.results) <= MaxResults /\ FirstOf(google_output.results)
    /\ google_phase \in {"close", "exit"} => (google_output # None <=> google_failed = FALSE)
    /\ google_merged # {} /\ google_counted => google_failed = FALSE

PagesAssumption ==
    /\ IsFiniteSet(Urls) /\ MaxResults \in Nat /\ MaxPages \in Nat \ {0}
    /\ \A p, r : [page |-> p, results |-> r] # None

LEMMA PagesInit == ASSUME PagesAssumption, Google!Init PROVE PagesInv
<1>1. Google!Cardinality({}) = 0 /\ 0 <= MaxResults
  BY HowMany, FS_EmptySet DEF PagesAssumption
<1>2. /\ google_rows \in [1 .. MaxPages -> SUBSET Urls] /\ google_program \in {"search", "answer"}
      /\ google_phase = "open" /\ google_merged = {} /\ google_output = None
      /\ google_failed = FALSE /\ google_counted = FALSE
  BY DEF Google!Init
<1>3. Google!Cardinality(google_merged) <= MaxResults
  BY <1>1, <1>2
<1> QED
  BY <1>2, <1>3 DEF PagesInv, Answering, Looking, Leaving

\* Some(S, n) is n elements of S, or all of them.
LEMMA SomeAre ==
  ASSUME PagesAssumption, NEW S \in SUBSET Urls, NEW n \in Nat, NEW T \in Google!Some(S, n)
  PROVE  /\ T \in SUBSET S /\ IsFiniteSet(T) /\ Google!Cardinality(T) \in Nat /\ Google!Cardinality(T) <= n
         /\ T = S \/ Google!Cardinality(T) = n
<1>1. /\ T \in SUBSET S
      /\ Google!Cardinality(T) = IF Google!Cardinality(S) < n THEN Google!Cardinality(S) ELSE n
  BY DEF Google!Some
<1>2. IsFiniteSet(S) /\ IsFiniteSet(T) /\ Cardinality(T) \in Nat /\ Cardinality(S) \in Nat
  BY <1>1, FS_Subset, FS_CardinalityType DEF PagesAssumption
<1>3. Cardinality(S) = Cardinality(T) => T = S
  BY <1>1, <1>2, FS_Subset
<1> QED
  BY <1>1, <1>2, <1>3, HowMany

LEMMA PagesStep ==
  ASSUME PagesAssumption, PagesInv, [Google!Next]_(Google!vars) PROVE PagesInv'
<1> USE DEF Answering, Looking, Leaving
<1>1. CASE Google!Given \/ Google!Open \/ Google!Hook
  <2>1. /\ google_phase \in {"open", "hook"}
        /\ UNCHANGED <<google_program, google_rows, google_merged, google_counted, google_output>>
        /\ \/ google_phase' = "hook" /\ UNCHANGED google_failed
           \/ google_phase' = "close" /\ google_failed' = TRUE
           \/ google_phase' = Google!First /\ UNCHANGED google_failed
    BY <1>1 DEF Google!Given, Google!Open, Google!Hook, Google!Goto, Google!Throw, Google!ask
  <2>2. /\ Google!First \in {"arrive", "home", "direct"}
        /\ Google!First = "arrive" <=> google_program = "answer"
    BY DEF Google!First
  <2> QED
    BY <2>1, <2>2 DEF PagesInv, FirstOf
<1>2. CASE Google!Direct \/ Google!Submit
  <2>1. /\ google_phase \in {"direct", "home"} /\ UNCHANGED <<google_program, google_rows, google_merged, google_output>>
        /\ \/ google_phase' \in {"direct read", "home", "read"} /\ UNCHANGED google_failed
           \/ google_phase' = "close" /\ google_failed' = TRUE /\ google_counted' = FALSE
    BY <1>2 DEF Google!Direct, Google!Submit, Google!Goto, Google!Throw, Google!ask
  <2> QED
    BY <2>1 DEF PagesInv, FirstOf
<1>3. CASE Google!Read
  <2>1. /\ google_phase \in {"read", "direct read"}
        /\ UNCHANGED <<google_program, google_rows, google_counted, google_output>>
    BY <1>3 DEF Google!Read, Google!ask
  <2>2. google_rows[1] \in SUBSET Urls
    <3>1. 1 \in 1 .. MaxPages
      BY DEF PagesAssumption
    <3> QED
      BY <3>1 DEF PagesInv
  <2>3. CASE /\ google_merged' \in Google!Some(google_rows[1], MaxResults) /\ UNCHANGED google_failed
             /\ google_phase' \in {"more", "direct more"}
    <3>1. PICK T \in Google!Some(google_rows[1], MaxResults) : google_merged' = T
      BY <2>3
    <3>2. MaxResults \in Nat
      BY DEF PagesAssumption
    <3>3. /\ T \in SUBSET google_rows[1] /\ Google!Cardinality(T) <= MaxResults
          /\ T = google_rows[1] \/ Google!Cardinality(T) = MaxResults
      BY <2>2, <3>2, SomeAre
    <3>4. /\ google_merged' \in SUBSET Urls /\ Google!Cardinality(google_merged') <= MaxResults
          /\ FirstOf(google_merged)'
      BY <2>1, <2>2, <3>1, <3>3 DEF FirstOf
    <3> QED
      BY <2>1, <2>3, <3>4 DEF PagesInv
  <2>4. CASE /\ google_merged' = {}
             /\ \/ google_phase' = "close" /\ google_failed' = TRUE
                \/ google_phase' = "home" /\ UNCHANGED google_failed
    <3>1. Google!Cardinality({}) = 0 /\ 0 <= MaxResults
      BY HowMany, FS_EmptySet DEF PagesAssumption
    <3>2. google_merged' \in SUBSET Urls /\ Google!Cardinality(google_merged') <= MaxResults
      BY <2>4, <3>1
    <3> QED
      BY <2>1, <2>4, <3>2 DEF PagesInv, FirstOf
  <2> QED
    BY <1>3, <2>3, <2>4 DEF Google!Read, Google!Goto, Google!Throw
<1>4. CASE Google!More
  <2>1. /\ google_phase \in {"more", "direct more"}
        /\ UNCHANGED <<google_program, google_rows, google_counted, google_output>>
    BY <1>4 DEF Google!More, Google!ask
  <2>2. CASE Google!MoreFails
    BY <2>1, <2>2 DEF Google!MoreFails, PagesInv, FirstOf
  <2>3. CASE /\ Google!Cardinality(google_merged) < MaxResults /\ UNCHANGED google_failed
             /\ \E T \in Google!Some(IF google_page' \in DOMAIN google_rows THEN google_rows[google_page'] ELSE {},
                                     MaxResults - Google!Cardinality(google_merged)) :
                   /\ google_merged' = google_merged \cup T
                   /\ google_phase' \in {"print", "direct print", google_phase}
    <3> DEFINE S == IF google_page' \in DOMAIN google_rows THEN google_rows[google_page'] ELSE {}
               n == MaxResults - Google!Cardinality(google_merged)
    <3>1. S \in SUBSET Urls
      BY DEF PagesInv
    <3>2. IsFiniteSet(google_merged) /\ Cardinality(google_merged) \in Nat /\ google_merged \in SUBSET Urls
      BY FS_Subset, FS_CardinalityType DEF PagesInv, PagesAssumption
    <3>3. n \in Nat /\ Cardinality(google_merged) + n = MaxResults /\ Cardinality(google_merged) # MaxResults
      <4>1. Google!Cardinality(google_merged) = Cardinality(google_merged)
        BY HowMany
      <4>2. Cardinality(google_merged) < MaxResults /\ n = MaxResults - Cardinality(google_merged)
        BY <2>3, <4>1
      <4>3. MaxResults \in Nat
        BY DEF PagesAssumption
      <4> QED
        BY <3>2, <4>2, <4>3
    <3>4. PICK T \in Google!Some(S, n) :
             google_merged' = google_merged \cup T /\ google_phase' \in {"print", "direct print", google_phase}
      BY <2>3
    <3> HIDE DEF S, n
    <3>5. T \in SUBSET Urls /\ IsFiniteSet(T) /\ Cardinality(T) \in Nat /\ Cardinality(T) <= n
      BY <3>1, <3>3, SomeAre, HowMany
    <3>6. Cardinality(google_merged') <= MaxResults
      <4>1. Cardinality(google_merged \cup T) =
               Cardinality(google_merged) + Cardinality(T) - Cardinality(google_merged \cap T)
        BY <3>2, <3>5, FS_Union
      <4>2. Cardinality(google_merged \cap T) \in Nat
        <5>1. google_merged \cap T \in SUBSET T
          OBVIOUS
        <5> QED
          BY <3>5, <5>1, FS_Subset, FS_CardinalityType
      <4>3. Cardinality(google_merged) + Cardinality(T) - Cardinality(google_merged \cap T) <= MaxResults
        BY <3>2, <3>3, <3>5, <4>2
      <4> QED
        BY <3>4, <4>1, <4>3
    <3>7. google_rows[1] \subseteq google_merged
      <4>1. Google!Cardinality(google_merged) # MaxResults
        BY <3>3, HowMany
      <4> QED
        BY <2>1, <4>1 DEF PagesInv, FirstOf
    <3>8. /\ google_merged' \in SUBSET Urls /\ google_rows'[1] \subseteq google_merged'
          /\ Google!Cardinality(google_merged') <= MaxResults
      BY <2>1, <3>2, <3>4, <3>5, <3>6, <3>7, HowMany
    <3> QED
      BY <2>1, <2>3, <3>4, <3>8 DEF PagesInv, FirstOf
  <2> QED
    BY <1>4, <2>2, <2>3 DEF Google!More
<1>5. CASE Google!Printed
  <2>1. /\ google_phase \in {"print", "direct print"}
        /\ UNCHANGED <<google_program, google_rows, google_merged, google_counted>>
    BY <1>5 DEF Google!Printed, Google!ask
  <2>2. CASE google_merged # {} /\ google_counted
    <3>1. /\ google_output' = [page |-> google_page, results |-> google_merged]
          /\ google_phase' = "close" /\ UNCHANGED google_failed
      BY <1>5, <2>2 DEF Google!Printed, Google!Goto
    <3>2. google_output' # None /\ google_output'.results = google_merged
      BY <3>1 DEF PagesAssumption
    <3> QED
      BY <2>1, <3>1, <3>2 DEF PagesInv, FirstOf
  <2>3. CASE ~(google_merged # {} /\ google_counted)
    <3>1. /\ UNCHANGED google_output
          /\ \/ google_phase' = "close" /\ google_failed' = TRUE
             \/ google_phase' = "home" /\ UNCHANGED google_failed
      BY <1>5, <2>3 DEF Google!Printed, Google!Goto, Google!Throw
    <3> QED
      BY <2>1, <2>3, <3>1 DEF PagesInv, FirstOf
  <2> QED
    BY <2>2, <2>3
<1>6. CASE Google!Arrive \/ Google!Verify
  <2>1. /\ google_phase \in {"arrive", "verify"}
        /\ UNCHANGED <<google_program, google_rows, google_merged, google_counted, google_output>>
        /\ \/ google_phase' \in {"verify", "answer"} /\ UNCHANGED google_failed
           \/ google_phase' = "close" /\ google_failed' = TRUE
    BY <1>6 DEF Google!Arrive, Google!Verify, Google!Goto, Google!Throw, Google!ask
  <2> QED
    BY <2>1 DEF PagesInv, FirstOf
<1>7. CASE Google!AnswerRead
  <2>1. /\ google_phase = "answer" /\ google_phase' = "close"
        /\ UNCHANGED <<google_program, google_rows, google_merged, google_counted>>
        /\ \/ google_output' = [page |-> google_page, results |-> {}] /\ UNCHANGED google_failed
           \/ google_failed' = TRUE /\ UNCHANGED google_output
    BY <1>7 DEF Google!AnswerRead, Google!Goto, Google!Throw, Google!ask
  <2>2. [page |-> google_page, results |-> {}] # None /\ google_program = "answer" /\ google_merged = {}
        /\ google_failed = FALSE /\ google_output = None
    BY <2>1 DEF PagesAssumption, PagesInv
  <2>3. google_program' = "answer" /\ google_merged' = {}
    BY <2>1, <2>2
  <2>4. \/ google_output' # None /\ google_failed' = FALSE
        \/ google_output' = None /\ google_failed' = TRUE
    BY <2>1, <2>2
  <2>5. /\ google_rows' \in [1 .. MaxPages -> SUBSET Urls] /\ google_merged' \in SUBSET Urls
        /\ google_failed' \in BOOLEAN /\ Google!Cardinality(google_merged') <= MaxResults
    <3>1. Google!Cardinality(google_merged') = Google!Cardinality(google_merged)
      BY <2>1
    <3> QED
      BY <2>1, <2>2, <2>4, <3>1 DEF PagesInv
  <2>6. /\ google_output' # None =>
              /\ google_failed' = FALSE
              /\ google_program' = "search" =>
                    Google!Cardinality(google_output'.results) <= MaxResults /\ FirstOf(google_output.results)'
        /\ google_phase' \in {"close", "exit"} => (google_output' # None <=> google_failed' = FALSE)
    BY <2>3, <2>4
  <2>7. /\ google_phase' = "close" /\ google_program' \in {"search", "answer"}
    BY <2>1, <2>3
  <2> QED
    BY <2>3, <2>5, <2>6, <2>7 DEF PagesInv, FirstOf
<1>8. CASE Google!Close \/ Google!Killed
  <2>1. /\ UNCHANGED <<google_program, google_rows, google_merged, google_counted, google_output, google_failed>>
        /\ \/ google_phase = "close" /\ google_phase' = "exit"
           \/ google_phase' = "killed"
    BY <1>8 DEF Google!Close, Google!Killed, Google!Goto, Google!ask
  <2> QED
    BY <2>1 DEF PagesInv, FirstOf
<1>9. CASE Google!Done \/ UNCHANGED Google!vars
  <2>1. UNCHANGED <<google_program, google_rows, google_phase, google_merged, google_counted,
                    google_output, google_failed>>
    BY <1>9 DEF Google!Done, Google!vars, Google!ask
  <2> QED
    BY <2>1 DEF PagesInv, FirstOf
<1> QED
  BY <1>1, <1>2, <1>3, <1>4, <1>5, <1>6, <1>7, <1>8, <1>9 DEF Google!Next

\* A search that is over has left no tab, and its results are those of the pages
\* it has read, the first one above all (searchGoogle() of google-cdp-broker.mjs,
\* main() of google-search.mjs).
TabKept == Tab!TabGone /\ Tab!ResultsKept /\ Google!FirstPageKept

\* TabKept for any number of results asked for, any size of a page and any pages.
THEOREM SearchKeepsTab ==
  ASSUME TabResults \in Nat, PageSize \in Nat, PagesAssumption
  PROVE  Tab!Spec /\ Google!Spec => []TabKept
<1>1. Tab!Init /\ Google!Init => TabInv /\ GotInv /\ PagesInv
  BY TabInit, GotInit, PagesInit
<1>2. TabInv /\ GotInv /\ PagesInv /\ [Tab!Next]_(Tab!vars) /\ [Google!Next]_(Google!vars)
         => TabInv' /\ GotInv' /\ PagesInv'
  BY TabStep, GotStep, PagesStep
<1>3. TabInv /\ GotInv /\ PagesInv => TabKept
  <2>1. PagesInv => Google!FirstPageKept
    <3>1. ASSUME PagesInv PROVE google_phase = "exit" => (google_output # None <=> ~google_failed)
      BY <3>1 DEF PagesInv, Leaving
    <3> QED
      BY <3>1 DEF PagesInv, FirstOf, Google!FirstPageKept
  <2> QED
    BY <2>1 DEF TabInv, GotInv, Verdict, TabKept, Tab!ResultsKept
<1> QED
  BY <1>1, <1>2, <1>3, PTL DEF Tab!Spec, Google!Spec

-----------------------------------------------------------------------------
(* PageCommands *)

Phases == {"idle", "navigate", "load", "enable", "settle", "evaluate", "done"}

CommandStates ==
    [phase : Phases, seen : Nat \cup {None}, ctx : Nat \cup {None}, retry : BOOLEAN,
     ran : Nat, own : Nat, load : BOOLEAN, ok : BOOLEAN]

\* Whoever finds the domain on will turn it off again; a command that succeeded
\* is over, and its document has been loaded.
PageInv ==
    /\ page_doc \in Nat /\ page_complete \in Nat /\ page_complete <= page_doc
    /\ page_mainCtx \in Nat \cup {None}
    /\ page_cmd \in [Commands -> CommandStates]
    /\ page_runtime => \E c \in Commands : page_cmd[c].phase = "settle"
    /\ \A c \in Commands :
          /\ page_cmd[c].own <= page_doc
          /\ page_cmd[c].ok => page_cmd[c].phase = "done"
          /\ c \in Navigates /\ page_cmd[c].ok => page_complete >= page_cmd[c].own

LEMMA PageInit == ASSUME Page!Init PROVE PageInv
<1>1. Page!Idle \in CommandStates /\ Page!Idle.ok = FALSE /\ Page!Idle.own = 0
  BY DEF Page!Idle, CommandStates, Phases
<1> QED
  BY <1>1 DEF Page!Init, PageInv

LEMMA ToldIs ==
  ASSUME PageInv, NEW d \in Nat
  PROVE  /\ Page!Told(d) \in [Commands -> CommandStates]
         /\ \A c \in Commands :
               /\ Page!Told(d)[c].phase = page_cmd[c].phase
               /\ Page!Told(d)[c].own = page_cmd[c].own
               /\ Page!Told(d)[c].ok = page_cmd[c].ok
<1>1. ASSUME NEW c \in Commands, NEW r, r = page_cmd[c]
      PROVE  /\ [r EXCEPT !.seen = d] \in CommandStates
             /\ [r EXCEPT !.seen = d].phase = r.phase
             /\ [r EXCEPT !.seen = d].own = r.own
             /\ [r EXCEPT !.seen = d].ok = r.ok
  <2>1. r \in CommandStates
    BY <1>1 DEF PageInv
  <2> QED
    BY <2>1 DEF CommandStates
<1>2. page_cmd \in [Commands -> CommandStates]
  BY DEF PageInv
<1> QED
  BY <1>1, <1>2 DEF Page!Told

LEMMA LookupIs ==
  ASSUME PageInv, NEW r \in CommandStates
  PROVE  /\ Page!Lookup(r) \in CommandStates /\ Page!Lookup(r).own = r.own
         /\ Page!Lookup(r).ok = r.ok /\ Page!Lookup(r).phase \in {"enable", "evaluate"}
  BY DEF Page!Lookup, PageInv, CommandStates, Phases

LEMMA EndIs ==
  ASSUME NEW r \in CommandStates, NEW good \in BOOLEAN
  PROVE  /\ Page!End(r, good) \in CommandStates /\ Page!End(r, good).own = r.own
         /\ Page!End(r, good).ok = good /\ Page!End(r, good).phase = "done"
  BY DEF Page!End, CommandStates, Phases

LEMMA PageKeeps ==
  ASSUME PageInv, page_doc' \in Nat, page_complete' \in Nat, page_complete' <= page_doc',
         page_doc <= page_doc', page_complete <= page_complete',
         page_mainCtx' \in Nat \cup {None}, page_cmd' \in [Commands -> CommandStates],
         page_runtime' => \E c \in Commands : page_cmd'[c].phase = "settle",
         \A c \in Commands :
            \/ /\ page_cmd'[c].own = page_cmd[c].own /\ page_cmd'[c].ok = page_cmd[c].ok
               /\ page_cmd[c].ok => page_cmd'[c].phase = "done"
            \/ /\ page_cmd'[c].own <= page_doc'
               /\ page_cmd'[c].ok => /\ page_cmd'[c].phase = "done"
                                     /\ c \in Navigates => page_complete' >= page_cmd'[c].own
  PROVE  PageInv'
<1>1. \A c \in Commands : page_cmd[c].own \in Nat /\ page_cmd'[c].own \in Nat
  BY DEF PageInv, CommandStates
<1>2. page_doc \in Nat /\ page_complete \in Nat
  BY DEF PageInv
<1> QED
  BY <1>1, <1>2 DEF PageInv

\* A step of the command c alone, on the page as it is.
LEMMA OneMoves ==
  ASSUME PageInv, NEW c \in Commands, NEW s \in CommandStates,
         page_cmd' = [page_cmd EXCEPT ![c] = s], UNCHANGED <<page_doc, page_complete>>,
         page_mainCtx' \in Nat \cup {None},
         page_runtime' => page_runtime /\ page_cmd[c].phase # "settle",
         s.own <= page_doc,
         s.ok => s.phase = "done" /\ (c \in Navigates => page_complete >= s.own)
  PROVE  PageInv'
<1>1. page_cmd' \in [Commands -> CommandStates] /\ page_cmd'[c] = s
      /\ \A x \in Commands : x # c => page_cmd'[x] = page_cmd[x]
  BY DEF PageInv
<1>2. page_doc' = page_doc /\ page_complete' = page_complete /\ page_doc \in Nat
      /\ page_complete \in Nat /\ page_complete <= page_doc
  BY DEF PageInv
<1>3. page_runtime' => \E x \in Commands : page_cmd'[x].phase = "settle"
  <2> SUFFICES ASSUME page_runtime' PROVE \E x \in Commands : page_cmd'[x].phase = "settle"
    OBVIOUS
  <2>1. PICK x \in Commands : page_cmd[x].phase = "settle"
    BY DEF PageInv
  <2> QED
    BY <1>1, <2>1
<1>4. \A x \in Commands : page_cmd[x].ok => page_cmd[x].phase = "done"
  BY DEF PageInv
<1> QED
  BY <1>1, <1>2, <1>3, <1>4, PageKeeps

LEMMA PageStep == ASSUME PageInv, [Page!Next]_(Page!vars) PROVE PageInv'
<1>1. /\ page_doc \in Nat /\ page_complete \in Nat /\ page_complete <= page_doc
      /\ page_mainCtx \in Nat \cup {None} /\ page_cmd \in [Commands -> CommandStates]
      /\ \A c \in Commands :
            /\ page_cmd[c].own \in Nat /\ page_cmd[c].own <= page_doc
            /\ page_cmd[c].ok => page_cmd[c].phase = "done"
            /\ page_cmd[c] \in CommandStates
  BY DEF PageInv, CommandStates
<1>2. CASE Page!Drift
  <2>1. /\ page_doc' = page_doc + 1 /\ UNCHANGED <<page_complete, page_runtime, page_mainCtx>>
        /\ page_cmd' = IF page_runtime THEN Page!Told(page_doc + 1) ELSE page_cmd
    BY <1>2 DEF Page!Drift, Page!NewDocument
  <2>2. page_doc + 1 \in Nat /\ page_complete <= page_doc + 1 /\ page_doc <= page_doc + 1
    BY <1>1
  <2>3. /\ page_cmd' \in [Commands -> CommandStates]
        /\ \A c \in Commands : /\ page_cmd'[c].phase = page_cmd[c].phase
                               /\ page_cmd'[c].own = page_cmd[c].own
                               /\ page_cmd'[c].ok = page_cmd[c].ok
    BY <1>1, <2>1, <2>2, ToldIs
  <2>4. page_runtime => \E c \in Commands : page_cmd[c].phase = "settle"
    BY DEF PageInv
  <2> QED
    BY <1>1, <2>1, <2>2, <2>3, <2>4, PageKeeps
<1>3. CASE Page!Loaded
  <2>1. /\ page_complete' = page_doc /\ UNCHANGED <<page_doc, page_runtime, page_mainCtx>>
        /\ page_cmd' = [c \in Commands |-> IF page_cmd[c].phase \in {"navigate", "load"}
                                          THEN [page_cmd[c] EXCEPT !.load = TRUE]
                                          ELSE page_cmd[c]]
    BY <1>3 DEF Page!Loaded
  <2>2. ASSUME NEW r \in CommandStates
        PROVE  /\ [r EXCEPT !.load = TRUE] \in CommandStates
               /\ [r EXCEPT !.load = TRUE].phase = r.phase
               /\ [r EXCEPT !.load = TRUE].own = r.own
               /\ [r EXCEPT !.load = TRUE].ok = r.ok
    BY DEF CommandStates
  <2>3. /\ page_cmd' \in [Commands -> CommandStates]
        /\ \A c \in Commands : /\ page_cmd'[c].phase = page_cmd[c].phase
                               /\ page_cmd'[c].own = page_cmd[c].own
                               /\ page_cmd'[c].ok = page_cmd[c].ok
    BY <1>1, <2>1, <2>2
  <2>4. page_runtime => \E c \in Commands : page_cmd[c].phase = "settle"
    BY DEF PageInv
  <2> QED
    BY <1>1, <2>1, <2>3, <2>4, PageKeeps
<1>4. ASSUME NEW c \in Commands, Page!Begin(c) PROVE PageInv'
  <2> DEFINE s == IF c \in Navigates THEN [page_cmd[c] EXCEPT !.phase = "navigate"]
                  ELSE Page!Lookup(page_cmd[c])
  <2>1. /\ page_cmd[c].phase = "idle" /\ page_cmd' = [page_cmd EXCEPT ![c] = s]
        /\ UNCHANGED <<page_doc, page_complete, page_runtime, page_mainCtx>>
    BY <1>1, <1>4 DEF Page!Begin, Page!At
  <2>2. /\ s \in CommandStates /\ s.own = page_cmd[c].own /\ s.ok = page_cmd[c].ok
    <3>1. CASE c \in Navigates
      BY <1>1, <3>1 DEF CommandStates, Phases
    <3>2. CASE c \notin Navigates
      BY <1>1, <3>2, LookupIs
    <3> QED
      BY <3>1, <3>2
  <2> HIDE DEF s
  <2>3. ~s.ok
    BY <1>1, <2>1, <2>2
  <2> QED
    BY <1>1, <2>1, <2>2, <2>3, OneMoves
<1>5. ASSUME NEW c \in Commands, Page!Navigate(c) PROVE PageInv'
  <2>1. page_cmd[c].phase = "navigate" /\ UNCHANGED <<page_complete, page_runtime, page_mainCtx>>
    BY <1>5 DEF Page!Navigate, Page!At
  <2>2. CASE page_cmd' = [page_cmd EXCEPT ![c] = Page!End(page_cmd[c], FALSE)] /\ UNCHANGED page_doc
    <3> DEFINE s == Page!End(page_cmd[c], FALSE)
    <3>1. s \in CommandStates /\ s.own = page_cmd[c].own /\ s.ok = FALSE
      BY <1>1, EndIs
    <3> HIDE DEF s
    <3>2. page_cmd' = [page_cmd EXCEPT ![c] = s]
      BY <2>2 DEF s
    <3> QED
      BY <1>1, <2>1, <2>2, <3>1, <3>2, OneMoves
  <2>3. CASE page_doc' = page_doc + 1
    <3> DEFINE told == IF page_runtime THEN Page!Told(page_doc + 1) ELSE page_cmd
    <3>1. /\ told \in [Commands -> CommandStates]
          /\ \A x \in Commands : /\ told[x].phase = page_cmd[x].phase
                                 /\ told[x].own = page_cmd[x].own
                                 /\ told[x].ok = page_cmd[x].ok
      <4>1. page_doc + 1 \in Nat
        BY <1>1
      <4> QED
        BY <1>1, <4>1, ToldIs
    <3>2. page_cmd' = [told EXCEPT ![c].phase = "load", ![c].own = page_doc + 1]
      <4>1. page_doc' # page_doc
        BY <1>1, <2>3
      <4> QED
        BY <1>5, <4>1 DEF Page!Navigate
    <3> HIDE DEF told
    <3> DEFINE s == [told[c] EXCEPT !.phase = "load", !.own = page_doc + 1]
    <3>3. s \in CommandStates /\ s.own = page_doc + 1 /\ s.ok = told[c].ok /\ s.phase = "load"
      <4>1. page_doc + 1 \in Nat /\ told[c] \in CommandStates
        BY <1>1, <3>1
      <4> QED
        BY <4>1 DEF CommandStates, Phases
    <3>4. page_cmd' = [told EXCEPT ![c] = s]
      BY <3>1, <3>2, <3>3
    <3> HIDE DEF s
    <3>5. /\ page_cmd' \in [Commands -> CommandStates] /\ page_cmd'[c] = s
          /\ \A x \in Commands : x # c => page_cmd'[x] = told[x]
      BY <3>1, <3>3, <3>4
    <3>6. page_runtime => \E x \in Commands : page_cmd[x].phase = "settle"
      BY DEF PageInv
    <3>7. page_runtime' => \E x \in Commands : page_cmd'[x].phase = "settle"
      BY <2>1, <3>1, <3>5, <3>6
    <3>8. page_doc + 1 \in Nat /\ page_complete <= page_doc + 1 /\ page_doc <= page_doc + 1
      BY <1>1
    <3>9. ~s.ok
      BY <1>1, <2>1, <3>1, <3>3
    <3>10. s.own <= page_doc'
      BY <1>1, <2>3, <3>3
    <3>11. \A x \in Commands :
              \/ /\ page_cmd'[x].own = page_cmd[x].own /\ page_cmd'[x].ok = page_cmd[x].ok
                 /\ page_cmd[x].ok => page_cmd'[x].phase = "done"
              \/ /\ page_cmd'[x].own <= page_doc'
                 /\ page_cmd'[x].ok => /\ page_cmd'[x].phase = "done"
                                       /\ x \in Navigates => page_complete' >= page_cmd'[x].own
      BY <1>1, <3>1, <3>5, <3>9, <3>10
    <3> QED
      BY <1>1, <2>1, <2>3, <3>5, <3>7, <3>8, <3>11, PageKeeps
  <2> QED
    BY <1>5, <2>2, <2>3 DEF Page!Navigate
<1>6. ASSUME NEW c \in Commands, Page!Arrive(c) PROVE PageInv'
  <2> DEFINE r == page_cmd[c]
             s == IF r.load THEN Page!Lookup(r) ELSE Page!End(r, FALSE)
  <2>1. /\ r.phase = "load" /\ page_cmd' = [page_cmd EXCEPT ![c] = s]
        /\ UNCHANGED <<page_doc, page_complete, page_runtime, page_mainCtx>>
    BY <1>1, <1>6 DEF Page!Arrive, Page!At
  <2>2. s \in CommandStates /\ s.own = r.own /\ ~s.ok
    BY <1>1, <2>1, LookupIs, EndIs
  <2> HIDE DEF s
  <2> QED
    BY <1>1, <2>1, <2>2, OneMoves
<1>7. ASSUME NEW c \in Commands, Page!Enable(c) PROVE PageInv'
  <2> DEFINE told == IF page_runtime THEN page_cmd ELSE Page!Told(page_doc)
             s == [told[c] EXCEPT !.phase = "settle"]
  <2>1. /\ page_cmd[c].phase = "enable" /\ page_cmd' = [told EXCEPT ![c].phase = "settle"]
        /\ UNCHANGED <<page_doc, page_complete, page_mainCtx>>
    BY <1>7 DEF Page!Enable, Page!At
  <2>2. /\ told \in [Commands -> CommandStates]
        /\ \A x \in Commands : /\ told[x].phase = page_cmd[x].phase
                               /\ told[x].own = page_cmd[x].own
                               /\ told[x].ok = page_cmd[x].ok
    BY <1>1, ToldIs
  <2> HIDE DEF told
  <2>3. s \in CommandStates /\ s.own = told[c].own /\ s.ok = told[c].ok /\ s.phase = "settle"
    BY <2>2 DEF CommandStates, Phases
  <2>4. page_cmd' = [told EXCEPT ![c] = s]
    BY <2>1, <2>2, <2>3
  <2> HIDE DEF s
  <2>5. /\ page_cmd' \in [Commands -> CommandStates] /\ page_cmd'[c] = s
        /\ \A x \in Commands : x # c => page_cmd'[x] = told[x]
    BY <2>2, <2>3, <2>4
  <2>6. ~page_cmd[c].ok
    BY <1>1, <2>1
  <2>7. \A x \in Commands : /\ page_cmd'[x].own = page_cmd[x].own
                            /\ page_cmd'[x].ok = page_cmd[x].ok
                            /\ page_cmd[x].ok => page_cmd'[x].phase = "done"
    BY <1>1, <2>2, <2>3, <2>5, <2>6
  <2>8. \E x \in Commands : page_cmd'[x].phase = "settle"
    BY <2>3, <2>5
  <2> QED
    BY <1>1, <2>1, <2>5, <2>7, <2>8, PageKeeps
<1>8. ASSUME NEW c \in Commands, Page!Disable(c) PROVE PageInv'
  <2>1. /\ page_cmd[c].phase = "settle" /\ page_runtime' = FALSE /\ Page!Captured(c)
        /\ UNCHANGED <<page_doc, page_complete>>
    BY <1>8 DEF Page!Disable, Page!At
  <2>2. CASE page_cmd[c].seen # None
    <3> DEFINE s == [page_cmd[c] EXCEPT !.phase = "evaluate", !.ctx = page_cmd[c].seen]
    <3>1. /\ page_mainCtx' = page_cmd[c].seen /\ page_cmd' = [page_cmd EXCEPT ![c] = s]
      BY <1>1, <2>1, <2>2 DEF Page!Captured
    <3>2. s \in CommandStates /\ s.own = page_cmd[c].own /\ s.ok = page_cmd[c].ok
          /\ page_cmd[c].seen \in Nat \cup {None}
      BY <1>1 DEF CommandStates, Phases
    <3> HIDE DEF s
    <3>3. ~s.ok
      BY <1>1, <2>1, <3>2
    <3> QED
      BY <1>1, <2>1, <3>1, <3>2, <3>3, OneMoves
  <2>3. CASE page_cmd[c].seen = None
    <3> DEFINE s == IF c \in Navigates THEN Page!Lookup(page_cmd[c]) ELSE Page!End(page_cmd[c], FALSE)
    <3>1. page_cmd' = [page_cmd EXCEPT ![c] = s] /\ page_mainCtx' = page_mainCtx
      BY <1>1, <2>1, <2>3 DEF Page!Captured
    <3>2. s \in CommandStates /\ s.own = page_cmd[c].own /\ ~s.ok
      BY <1>1, <2>1, LookupIs, EndIs
    <3> HIDE DEF s
    <3> QED
      BY <1>1, <2>1, <3>1, <3>2, OneMoves
  <2> QED
    BY <2>2, <2>3
<1>9. ASSUME NEW c \in Commands, NEW runs \in Nat, Page!Failed(c, runs), page_cmd[c].phase = "evaluate"
      PROVE  PageInv'
  <2> DEFINE r == page_cmd[c]
             s == IF r.retry
                  THEN IF c \in Navigates THEN [Page!Lookup(r) EXCEPT !.ran = runs]
                                          ELSE [Page!End(r, FALSE) EXCEPT !.ran = runs]
                  ELSE [r EXCEPT !.retry = TRUE, !.seen = None, !.phase = "enable", !.ran = runs]
  <2>1. /\ page_cmd' = [page_cmd EXCEPT ![c] = s] /\ page_mainCtx' \in Nat \cup {None}
        /\ UNCHANGED <<page_doc, page_complete, page_runtime>>
    BY <1>1, <1>9 DEF Page!Failed
  <2>2. ASSUME NEW x \in CommandStates
        PROVE  /\ [x EXCEPT !.ran = runs] \in CommandStates
               /\ [x EXCEPT !.ran = runs].own = x.own /\ [x EXCEPT !.ran = runs].ok = x.ok
    BY DEF CommandStates
  <2>3. r \in CommandStates /\ ~r.ok
    BY <1>1, <1>9
  <2>4. s \in CommandStates /\ s.own = r.own /\ ~s.ok
    <3>1. CASE r.retry /\ c \in Navigates
      BY <2>2, <2>3, <3>1, LookupIs
    <3>2. CASE r.retry /\ c \notin Navigates
      BY <2>2, <2>3, <3>2, EndIs
    <3>3. CASE ~r.retry
      BY <2>3, <3>3 DEF CommandStates, Phases
    <3> QED
      BY <3>1, <3>2, <3>3
  <2> HIDE DEF s
  <2> QED
    BY <1>1, <1>9, <2>1, <2>4, OneMoves
<1>10. ASSUME NEW c \in Commands, Page!Fails(c) PROVE PageInv'
  <2>1. page_cmd[c].ran \in Nat /\ page_cmd[c].ran + 1 \in Nat
    BY <1>1 DEF CommandStates
  <2> QED
    BY <1>9, <1>10, <2>1 DEF Page!Fails, Page!At
<1>11. ASSUME NEW c \in Commands, Page!Answers(c) PROVE PageInv'
  <2> DEFINE r == page_cmd[c]
             done == Page!End(r, TRUE)
             s == IF c \notin Navigates THEN [done EXCEPT !.ran = r.ran + 1]
                  ELSE IF page_complete = page_doc THEN done ELSE Page!Lookup(r)
  <2>1. r \in CommandStates /\ r.phase = "evaluate" /\ ~r.ok /\ r.ran + 1 \in Nat
    BY <1>1, <1>11 DEF Page!Answers, Page!At, CommandStates
  <2>2. done \in CommandStates /\ done.own = r.own /\ done.phase = "done" /\ done.ran = r.ran
    BY <2>1, EndIs DEF Page!End, CommandStates
  <2>3. /\ page_cmd' = [page_cmd EXCEPT ![c] = s]
        /\ UNCHANGED <<page_doc, page_complete, page_runtime, page_mainCtx>>
    BY <1>1, <1>11 DEF Page!Answers
  <2> HIDE DEF done
  <2>4. CASE c \notin Navigates
    <3>1. s \in CommandStates /\ s.own = r.own /\ s.phase = "done"
      BY <2>1, <2>2, <2>4 DEF CommandStates
    <3> HIDE DEF s
    <3> QED
      BY <1>1, <2>1, <2>3, <2>4, <3>1, OneMoves
  <2>5. CASE c \in Navigates
    <3>1. /\ s \in CommandStates /\ s.own = r.own
          /\ s.ok => s.phase = "done" /\ page_complete >= s.own
      BY <1>1, <2>1, <2>2, <2>5, LookupIs
    <3> HIDE DEF s
    <3> QED
      BY <1>1, <2>1, <2>3, <2>5, <3>1, OneMoves
  <2> QED
    BY <2>4, <2>5
<1>12. ASSUME NEW c \in Commands, Page!GivesUp(c) PROVE PageInv'
  <2> DEFINE s == Page!End(page_cmd[c], FALSE)
  <2>1. /\ page_cmd[c].phase = "evaluate" /\ page_cmd' = [page_cmd EXCEPT ![c] = s]
        /\ UNCHANGED <<page_doc, page_complete, page_runtime, page_mainCtx>>
    BY <1>1, <1>12 DEF Page!GivesUp, Page!At
  <2>2. s \in CommandStates /\ s.own = page_cmd[c].own /\ ~s.ok
    BY <1>1, EndIs
  <2> HIDE DEF s
  <2> QED
    BY <1>1, <2>1, <2>2, OneMoves
<1>13. CASE UNCHANGED Page!vars
  BY <1>13 DEF Page!vars, PageInv
<1> QED
  BY <1>2, <1>3, <1>4, <1>5, <1>6, <1>7, <1>8, <1>10, <1>11, <1>12, <1>13 DEF Page!Next

-----------------------------------------------------------------------------
(* RedditTab *)

Uses == {"attach", "enable", "navigate", "poll", "check", "extract"}

\* Of the commands Chrome has not handled only the last is awaited, and the one
\* before it, if any, is the one whose reply was not heard.
Sent ==
    CASE reddit_phase = "snapshot" -> reddit_queue \in {<<"snapshot">>, <<>>}
      [] reddit_phase = "create" ->
             \/ reddit_queue \in {<<"create">>, <<>>}
             \/ reddit_silences = 1 /\ reddit_queue = <<"snapshot", "create">>
      [] reddit_phase = "list" -> reddit_queue \in {<<"list">>, <<"create", "list">>}
      [] reddit_phase = "sweep" -> reddit_queue = <<"sweep">>
      [] reddit_phase \in Uses -> reddit_queue \in {<<reddit_phase>>, <<>>}
      [] reddit_phase = "close" ->
             \/ reddit_queue \in {<<"close">>, <<>>}
             \/ reddit_silences = 1 /\ \E x \in Uses : reddit_queue = <<x, "close">>
      [] reddit_phase = "reclose" ->
             reddit_queue \in {<<"reclose">>, <<"close", "reclose">>}
      [] OTHER -> reddit_queue = <<>>

\* Where the tab of the search is, as far as the commands sent so far decide it.
Whereabouts ==
    /\ reddit_phase \in Uses \cup {"load", "pause"} => reddit_target /\ reddit_own = "open"
    /\ reddit_phase \in {"snapshot", "create", "list", "sweep"} => ~reddit_target
    /\ reddit_phase = "snapshot" => reddit_own = "none" /\ reddit_silences = 0
    /\ reddit_phase = "create" =>
          /\ reddit_own = IF reddit_queue = <<>> THEN "open" ELSE "none"
          /\ reddit_silences = 0 => reddit_baseline # None
    /\ reddit_phase \in {"list", "sweep", "reclose"} => reddit_silences = 1
    /\ reddit_phase = "list" =>
          \/ reddit_own = "none"
          \/ reddit_own = "open" /\ reddit_queue = <<"list">>
    /\ reddit_phase = "sweep" => reddit_own = "open" /\ reddit_found = {"own"}
    /\ reddit_phase = "close" =>
          /\ reddit_target
          /\ reddit_own = IF reddit_queue = <<>> THEN "closed" ELSE "open"
    /\ reddit_phase = "reclose" =>
          \/ reddit_own = "open"
          \/ reddit_own = "closed" /\ reddit_queue = <<"reclose">>
    /\ reddit_phase = "over" => reddit_own # "open"

Live ==
    /\ reddit_phase \in Reddit!Bounded \cup {"load", "pause", "over"}
    /\ reddit_waiting <=> reddit_phase \in Reddit!Bounded
    /\ reddit_waiting /\ reddit_queue = <<>> => reddit_silences = 0
    /\ Sent
    /\ Whereabouts

RedditInv ==
    /\ reddit_waiting \in BOOLEAN /\ reddit_alive \in BOOLEAN /\ reddit_target \in BOOLEAN
    /\ reddit_silences \in {0, 1} /\ reddit_silences <= MaxSilences
    /\ reddit_other # "closed" /\ reddit_found \subseteq {"own"}
    /\ reddit_alive => Live
    /\ ~reddit_alive =>
          /\ ~reddit_waiting /\ reddit_queue = <<>>
          /\ reddit_phase \in {"probe", "connect", "over"}
          /\ reddit_phase # "over" => /\ reddit_own = "none" /\ ~reddit_target
                                      /\ reddit_silences = 0

LEMMA Tuples ==
  /\ Len(<<>>) = 0
  /\ \A a : /\ Len(<<a>>) = 1 /\ Head(<<a>>) = a /\ Tail(<<a>>) = <<>>
            /\ Append(<<>>, a) = <<a>> /\ <<a>> # <<>>
  /\ \A a, b : /\ Len(<<a, b>>) = 2 /\ Head(<<a, b>>) = a /\ Tail(<<a, b>>) = <<b>>
               /\ Append(<<a>>, b) = <<a, b>> /\ <<a, b>> # <<>>
  /\ \A a, b, c : <<a>> # <<b, c>>
<1>1. Len(<<>>) = 0
  OBVIOUS
<1>2. \A a : Len(<<a>>) = 1 /\ Head(<<a>>) = a /\ <<a>> # <<>>
  OBVIOUS
<1>3. \A a : Tail(<<a>>) = <<>>
  OBVIOUS
<1>4. \A a : Append(<<>>, a) = <<a>>
  OBVIOUS
<1>5. \A a, b : Len(<<a, b>>) = 2 /\ Head(<<a, b>>) = a /\ <<a, b>> # <<>>
  OBVIOUS
<1>6. \A a, b : Tail(<<a, b>>) = <<b>>
  OBVIOUS
<1>7. ASSUME NEW a, NEW b PROVE Append(<<a>>, b) = <<a, b>>
  <2>1. <<a>> \in Seq({a, b}) /\ <<a, b>> \in Seq({a, b})
    OBVIOUS
  <2>2. /\ Append(<<a>>, b) \in Seq({a, b}) /\ Len(Append(<<a>>, b)) = 2
        /\ Append(<<a>>, b)[1] = a /\ Append(<<a>>, b)[2] = b
    BY <2>1
  <2>3. Len(<<a, b>>) = 2 /\ <<a, b>>[1] = a /\ <<a, b>>[2] = b
    OBVIOUS
  <2>4. \A i \in 1..2 : i = 1 \/ i = 2
    OBVIOUS
  <2> QED
    BY <2>1, <2>2, <2>3, <2>4, SeqEqual
<1>8. \A a, b, c : <<a>> # <<b, c>>
  OBVIOUS
<1> QED
  BY <1>1, <1>2, <1>3, <1>4, <1>5, <1>6, <1>7, <1>8

LEMMA RedditInit == ASSUME 0 <= MaxSilences, Reddit!Init PROVE RedditInv
  BY DEF Reddit!Init, RedditInv

\* With nothing sent before, the step p is entered: what there is to show.
LEMMA Entered ==
  ASSUME RedditInv, NEW p \in Reddit!Bounded \cup {"load", "pause", "over"},
         Reddit!Enter(p, <<>>), reddit_alive' \in BOOLEAN, reddit_target' \in BOOLEAN,
         reddit_silences' \in {0, 1}, reddit_silences' <= MaxSilences, reddit_alive',
         reddit_other' # "closed", reddit_found' \subseteq {"own"},
         p \in Uses \cup {"load", "pause", "close"} => reddit_target' /\ reddit_own' = "open",
         p \in {"snapshot", "create", "list", "sweep"} => ~reddit_target',
         p = "snapshot" => reddit_own' = "none" /\ reddit_silences' = 0,
         p = "create" => /\ reddit_own' = "none"
                         /\ reddit_silences' = 0 => reddit_baseline' # None,
         p = "sweep" => reddit_own' = "open" /\ reddit_found' = {"own"},
         p \in {"list", "sweep", "reclose"} => reddit_silences' = 1,
         p = "list" => reddit_own' \in {"none", "open"},
         p = "reclose" => reddit_own' \in {"open", "closed"},
         p = "over" => reddit_own' # "open"
  PROVE  RedditInv'
<1>1. /\ reddit_phase' = p /\ reddit_waiting' = (p \in Reddit!Bounded)
      /\ reddit_queue' = IF p \in Reddit!Bounded THEN Append(<<>>, p) ELSE <<>>
  BY DEF Reddit!Enter
<1>2. Append(<<>>, p) = <<p>> /\ <<p>> # <<>>
  BY Tuples
<1>3. Sent'
  BY <1>1, <1>2 DEF Sent, Reddit!Bounded, Uses
<1>4. Whereabouts'
  BY <1>1, <1>2 DEF Whereabouts, Reddit!Bounded, Uses
<1>5. Live'
  BY <1>1, <1>2, <1>3, <1>4 DEF Live
<1> QED
  BY <1>1, <1>5 DEF RedditInv

\* The finally block, with nothing sent before: a tab that is known is closed.
LEMMA Left ==
  ASSUME RedditInv, reddit_alive, NEW r, Reddit!Leave(r, <<>>),
         UNCHANGED <<reddit_target, reddit_alive>>,
         reddit_silences' \in {0, 1}, reddit_silences' <= MaxSilences,
         reddit_other' # "closed", reddit_found' \subseteq {"own"},
         reddit_target => reddit_own' = "open", ~reddit_target => reddit_own' # "open"
  PROVE  RedditInv'
<1>1. reddit_target \in BOOLEAN /\ reddit_alive \in BOOLEAN
  BY DEF RedditInv
<1>2. CASE reddit_target
  <2>1. Reddit!Enter("close", <<>>)
    BY <1>2 DEF Reddit!Leave
  <2>2. "close" \in Reddit!Bounded
    BY DEF Reddit!Bounded
  <2> QED
    BY <1>1, <1>2, <2>1, <2>2, Entered DEF Uses
<1>3. CASE ~reddit_target
  <2>1. Reddit!Enter("over", <<>>)
    BY <1>3 DEF Reddit!Leave
  <2> QED
    BY <1>1, <1>3, <2>1, Entered DEF Uses
<1> QED
  BY <1>2, <1>3

\* Chrome handles the command that is awaited, and its reply is heard.
LEMMA RedditAnswered ==
  ASSUME RedditInv, reddit_queue # <<>>, reddit_waiting, Len(reddit_queue) = 1, reddit_alive,
         Reddit!Effect(Head(reddit_queue)), Reddit!Proceed(<<>>), None \notin BOOLEAN,
         UNCHANGED <<reddit_alive, reddit_silences>>
  PROVE  RedditInv'
<1>1. /\ reddit_phase \in Reddit!Bounded /\ reddit_queue = <<reddit_phase>>
      /\ Head(reddit_queue) = reddit_phase
  <2>1. Live
    BY DEF RedditInv
  <2>2. reddit_phase \in Reddit!Bounded
    BY <2>1 DEF Live
  <2>3. \A a, b : reddit_queue # <<a, b>>
    BY Tuples
  <2>4. reddit_queue = <<reddit_phase>>
    BY <2>1, <2>2, <2>3 DEF Live, Sent, Reddit!Bounded, Uses
  <2>5. \A a : Head(<<a>>) = a
    BY Tuples
  <2> QED
    BY <2>2, <2>4, <2>5
<1>2. /\ reddit_own' = CASE reddit_phase = "create" -> "open"
                         [] \/ reddit_phase \in {"close", "reclose"} /\ reddit_own = "open"
                            \/ reddit_phase = "sweep" /\ "own" \in reddit_found -> "closed"
                         [] OTHER -> reddit_own
      /\ reddit_other' = reddit_other
  BY <1>1 DEF Reddit!Effect, RedditInv
<1>3. /\ reddit_other # "closed" /\ reddit_found \subseteq {"own"} /\ reddit_silences \in {0, 1}
      /\ reddit_silences <= MaxSilences /\ reddit_target \in BOOLEAN /\ reddit_alive \in BOOLEAN
      /\ Whereabouts /\ reddit_queue # <<>>
  BY DEF RedditInv, Live
<1>4. CASE reddit_phase = "snapshot"
  <2>1. /\ reddit_baseline' \in BOOLEAN /\ UNCHANGED <<reddit_found, reddit_target>>
        /\ Reddit!Enter("create", <<>>)
    BY <1>4 DEF Reddit!Proceed
  <2>2. "create" \in Reddit!Bounded
    BY DEF Reddit!Bounded
  <2> QED
    BY <1>2, <1>3, <1>4, <2>1, <2>2, Entered DEF Whereabouts, Uses
<1>5. CASE reddit_phase = "create"
  <2>1. reddit_target' /\ UNCHANGED reddit_found /\ Reddit!Enter("attach", <<>>)
    BY <1>5 DEF Reddit!Proceed
  <2>2. "attach" \in Reddit!Bounded /\ reddit_target' \in BOOLEAN
    BY <1>5 DEF Reddit!Bounded, Reddit!Proceed
  <2> QED
    BY <1>2, <1>3, <1>5, <2>1, <2>2, Entered DEF Uses
<1>6. CASE reddit_phase = "list"
  <2>1. /\ reddit_found' = Reddit!Found /\ UNCHANGED reddit_target
        /\ \/ Reddit!Found # {} /\ Reddit!Enter("sweep", <<>>)
           \/ Reddit!Found = {} /\ Reddit!Leave("error", <<>>)
    BY <1>6 DEF Reddit!Proceed
  <2>2. reddit_own' = reddit_own /\ ~reddit_target /\ reddit_silences = 1
    BY <1>2, <1>3, <1>6 DEF Whereabouts
  <2>3. CASE reddit_own = "open"
    <3>1. Reddit!Found = {"own"}
      BY <2>3 DEF Reddit!Found
    <3>2. Reddit!Enter("sweep", <<>>) /\ "sweep" \in Reddit!Bounded
      BY <2>1, <3>1 DEF Reddit!Bounded
    <3> QED
      BY <1>2, <1>3, <2>1, <2>2, <2>3, <3>1, <3>2, Entered DEF Uses
  <2>4. CASE reddit_own # "open"
    <3>1. Reddit!Found = {}
      BY <2>4 DEF Reddit!Found
    <3> QED
      BY <1>2, <1>3, <2>1, <2>2, <2>4, <3>1, Left
  <2> QED
    BY <2>3, <2>4
<1>7. CASE reddit_phase = "sweep"
  <2>1. Reddit!Leave("error", <<>>) /\ UNCHANGED <<reddit_found, reddit_target>>
    BY <1>7 DEF Reddit!Proceed
  <2>2. reddit_own' # "open" /\ ~reddit_target
    BY <1>2, <1>3, <1>7 DEF Whereabouts
  <2> QED
    BY <1>2, <1>3, <2>1, <2>2, Left
<1>8. CASE reddit_phase \in Uses
  <2>1. /\ UNCHANGED <<reddit_found, reddit_target>>
        /\ \/ \E p \in {"enable", "navigate", "extract", "load", "check", "pause"} : Reddit!Enter(p, <<>>)
           \/ \E r \in {"late", "blocked", "error", "posts"} : Reddit!Leave(r, <<>>)
    BY <1>8 DEF Reddit!Proceed, Uses, Reddit!After
  <2>2. reddit_target /\ reddit_own = "open" /\ reddit_own' = reddit_own
    BY <1>2, <1>3, <1>8 DEF Whereabouts, Uses
  <2>3. ASSUME NEW p \in {"enable", "navigate", "extract", "load", "check", "pause"},
               Reddit!Enter(p, <<>>)
        PROVE  RedditInv'
    <3>1. p \in Reddit!Bounded \cup {"load", "pause", "over"}
      BY <2>3 DEF Reddit!Bounded
    <3> QED
      BY <1>2, <1>3, <2>1, <2>2, <2>3, <3>1, Entered DEF Uses
  <2> QED
    BY <1>2, <1>3, <2>1, <2>2, <2>3, Left
<1>9. CASE reddit_phase \in {"close", "reclose"}
  <2>1. Reddit!Enter("over", <<>>) /\ UNCHANGED <<reddit_found, reddit_target>>
    BY <1>9 DEF Reddit!Proceed
  <2>2. reddit_own' # "open"
    BY <1>2, <1>3, <1>9
  <2> QED
    BY <1>2, <1>3, <2>1, <2>2, Entered DEF Uses
<1> QED
  BY <1>1, <1>4, <1>5, <1>6, <1>7, <1>8, <1>9 DEF Reddit!Bounded, Uses

\* Chrome handles a command, and its reply is not heard, or not any more.
LEMMA RedditUnheard ==
  ASSUME RedditInv, reddit_queue # <<>>,
         reddit_waiting => Len(reddit_queue) > 1 \/ reddit_silences < MaxSilences,
         Reddit!Effect(Head(reddit_queue)), reddit_queue' = Tail(reddit_queue),
         MaxSilences <= 1, MaxSilences \in Nat,
         UNCHANGED <<reddit_phase, reddit_waiting, reddit_baseline, reddit_found, reddit_target,
                     reddit_alive, reddit_silences, reddit_result>>
  PROVE  RedditInv'
<1>1. reddit_alive /\ Live /\ reddit_phase \in Reddit!Bounded /\ reddit_waiting
  BY DEF RedditInv, Live, Sent, Reddit!Bounded, Uses
<1> USE DEF RedditInv, Live, Sent, Whereabouts, Reddit!Bounded, Uses, Reddit!Effect
<1>2. CASE reddit_queue = <<reddit_phase>>
  <2>1. Head(reddit_queue) = reddit_phase /\ Tail(reddit_queue) = <<>> /\ reddit_silences = 0
    BY <1>1, <1>2, Tuples
  <2> QED
    BY <1>1, <1>2, <2>1
<1>3. CASE reddit_queue # <<reddit_phase>>
  <2>1. PICK x \in Uses \cup {"snapshot", "create", "close"} :
           reddit_queue = <<x, reddit_phase>> /\ reddit_silences = 1
    BY <1>1, <1>3
  <2>2. Head(reddit_queue) = x /\ Tail(reddit_queue) = <<reddit_phase>>
        /\ <<reddit_phase>> # <<>> /\ <<x, reddit_phase>> # <<>> /\ \A m : <<m>> # <<x, reddit_phase>>
        /\ \A a, b : <<a, b>> = <<x, reddit_phase>> => a = x
    BY <2>1, Tuples
  <2> QED
    BY <1>1, <1>3, <2>1, <2>2
<1> QED
  BY <1>2, <1>3

\* A command that is awaited and was the first not to be answered: which it is.
LEMMA FirstSilence ==
  ASSUME RedditInv, reddit_waiting, reddit_alive, reddit_silences < MaxSilences, MaxSilences \in Nat,
         MaxSilences <= 1
  PROVE  /\ reddit_silences = 0 /\ MaxSilences = 1
         /\ reddit_phase \in Uses \cup {"snapshot", "create", "close"}
         /\ reddit_queue \in {<<reddit_phase>>, <<>>}
         /\ Whereabouts /\ reddit_target \in BOOLEAN
         /\ reddit_other # "closed" /\ reddit_found \subseteq {"own"}
<1>1. reddit_silences = 0 /\ MaxSilences = 1 /\ Live /\ reddit_phase \in Reddit!Bounded
  BY DEF RedditInv, Live
<1>2. reddit_phase \notin {"list", "sweep", "reclose"}
  BY <1>1 DEF Live, Whereabouts
<1>3. reddit_phase \in Uses \cup {"snapshot", "create", "close"}
  BY <1>1, <1>2 DEF Reddit!Bounded, Uses
<1>4. reddit_queue \in {<<reddit_phase>>, <<>>}
  BY <1>1, <1>3 DEF Live, Sent, Uses
<1> QED
  BY <1>1, <1>3, <1>4 DEF RedditInv, Live

\* What follows the absence of a reply, when Chrome has nothing left to handle.
LEMMA RedditRetreats ==
  ASSUME RedditInv, reddit_waiting, reddit_alive, reddit_silences < MaxSilences, MaxSilences \in Nat,
         MaxSilences <= 1, Reddit!Retreat(<<>>), reddit_silences' = reddit_silences + 1,
         UNCHANGED <<reddit_own, reddit_other, reddit_alive>>
  PROVE  RedditInv'
<1>1. /\ UNCHANGED <<reddit_baseline, reddit_found, reddit_target>>
      /\ reddit_silences = 0 /\ reddit_silences' = 1 /\ MaxSilences = 1
      /\ reddit_alive' /\ reddit_alive' \in BOOLEAN /\ reddit_target' \in BOOLEAN
      /\ reddit_other' # "closed" /\ reddit_found' \subseteq {"own"} /\ 1 <= MaxSilences
  BY FirstSilence DEF Reddit!Retreat, RedditInv
<1>2. Whereabouts /\ reddit_phase \in Uses \cup {"snapshot", "create", "close"}
  BY FirstSilence
<1>3. CASE reddit_phase = "snapshot"
  <2>1. Reddit!Enter("create", <<>>) /\ "create" \in Reddit!Bounded
    BY <1>3 DEF Reddit!Retreat, Reddit!Bounded
  <2> QED
    BY <1>1, <1>2, <1>3, <2>1, Entered DEF Whereabouts, Uses
<1>4. CASE reddit_phase = "create"
  <2>1. Reddit!Enter("list", <<>>) /\ "list" \in Reddit!Bounded
    BY <1>1, <1>2, <1>4 DEF Reddit!Retreat, Reddit!Bounded, Whereabouts
  <2>2. ~reddit_target /\ reddit_own \in {"none", "open"}
    BY <1>2, <1>4 DEF Whereabouts
  <2> QED
    BY <1>1, <1>4, <2>1, <2>2, Entered DEF Uses
<1>5. CASE reddit_phase = "close"
  <2>1. Reddit!Enter("reclose", <<>>) /\ "reclose" \in Reddit!Bounded
    BY <1>5 DEF Reddit!Retreat, Reddit!Bounded
  <2>2. reddit_own \in {"open", "closed"}
    BY <1>2, <1>5 DEF Whereabouts
  <2> QED
    BY <1>1, <1>5, <2>1, <2>2, Entered DEF Uses
<1>6. CASE reddit_phase \in Uses
  <2>1. Reddit!Leave("error", <<>>)
    BY <1>6 DEF Reddit!Retreat, Uses
  <2>2. reddit_target /\ reddit_own = "open"
    BY <1>2, <1>6 DEF Whereabouts
  <2> QED
    BY <1>1, <2>1, <2>2, Left
<1> QED
  BY <1>2, <1>3, <1>4, <1>5, <1>6

\* The same when the command without a reply is still to be handled.
LEMMA RedditGoesOn ==
  ASSUME RedditInv, reddit_waiting, reddit_alive, reddit_silences < MaxSilences, MaxSilences \in Nat,
         MaxSilences <= 1, reddit_queue = <<reddit_phase>>, Reddit!Retreat(reddit_queue),
         reddit_silences' = reddit_silences + 1,
         UNCHANGED <<reddit_own, reddit_other, reddit_alive>>
  PROVE  RedditInv'
<1>1. /\ UNCHANGED <<reddit_baseline, reddit_found, reddit_target>>
      /\ reddit_silences = 0 /\ reddit_silences' = 1 /\ MaxSilences = 1
      /\ reddit_alive' /\ reddit_alive' \in BOOLEAN /\ reddit_target' \in BOOLEAN
      /\ reddit_other' # "closed" /\ reddit_found' \subseteq {"own"} /\ 1 <= MaxSilences
  BY FirstSilence DEF Reddit!Retreat, RedditInv
<1>2. Whereabouts /\ reddit_phase \in Uses \cup {"snapshot", "create", "close"}
  BY FirstSilence
<1> DEFINE next == CASE reddit_phase = "snapshot" -> "create"
                     [] reddit_phase = "create" -> "list"
                     [] OTHER -> IF reddit_phase = "close" THEN "reclose" ELSE "close"
<1>3. Reddit!Enter(next, reddit_queue)
  <2>1. reddit_phase = "create" => reddit_baseline # None
    BY <1>1, <1>2 DEF Whereabouts
  <2>2. reddit_phase \in Uses => reddit_target
    BY <1>2 DEF Whereabouts
  <2> QED
    BY <1>2, <2>1, <2>2 DEF Reddit!Retreat, Reddit!Leave, Uses
<1>4. next \in {"create", "list", "close", "reclose"} /\ next \in Reddit!Bounded
  BY <1>2 DEF Reddit!Bounded, Uses
<1>5. reddit_phase' = next /\ reddit_waiting' = TRUE /\ reddit_queue' = <<reddit_phase, next>>
      /\ reddit_queue' # <<>> /\ reddit_queue # <<>>
  <2>1. /\ reddit_phase' = next /\ reddit_waiting' = TRUE
        /\ reddit_queue' = Append(reddit_queue, next)
    BY <1>3, <1>4 DEF Reddit!Enter
  <2>2. \A b : Append(<<reddit_phase>>, b) = <<reddit_phase, b>> /\ <<reddit_phase, b>> # <<>>
    BY Tuples
  <2>3. <<reddit_phase>> # <<>>
    BY Tuples
  <2> HIDE DEF next
  <2> QED
    BY <2>1, <2>2, <2>3
<1>6. Sent'
  BY <1>1, <1>2, <1>4, <1>5 DEF Sent, Uses
<1>7. Whereabouts'
  BY <1>1, <1>2, <1>4, <1>5 DEF Whereabouts, Uses
<1> QED
  BY <1>1, <1>4, <1>5, <1>6, <1>7 DEF RedditInv, Live

\* One command at most without an answer in time, and None no reading of a snapshot.
LEMMA RedditStep ==
  ASSUME RedditInv, MaxSilences \in Nat, MaxSilences <= 1, None \notin BOOLEAN,
         [Reddit!Next]_(Reddit!vars)
  PROVE  RedditInv'
<1>1. CASE Reddit!Probe
  BY <1>1 DEF Reddit!Probe, Reddit!chrome, RedditInv, Live, Reddit!Bounded
<1>2. CASE Reddit!Connect
  <2>1. /\ reddit_phase = "connect" /\ ~reddit_alive /\ reddit_queue = <<>> /\ ~reddit_target
        /\ reddit_own = "none" /\ reddit_silences = 0 /\ reddit_silences <= MaxSilences
        /\ reddit_other # "closed" /\ reddit_found \subseteq {"own"} /\ reddit_target \in BOOLEAN
    BY <1>2 DEF Reddit!Connect, RedditInv, Live, Reddit!Bounded
  <2>2. UNCHANGED <<reddit_own, reddit_other, reddit_found, reddit_target, reddit_silences>>
    BY <1>2 DEF Reddit!Connect
  <2>3. CASE reddit_alive' = TRUE /\ Reddit!Enter("snapshot", <<>>)
    <3>1. "snapshot" \in Reddit!Bounded
      BY DEF Reddit!Bounded
    <3> QED
      BY <2>1, <2>2, <2>3, <3>1, Entered DEF Uses
  <2>4. CASE reddit_alive' = reddit_alive /\ Reddit!Leave("error", <<>>)
    <3>1. reddit_phase' = "over" /\ reddit_waiting' = FALSE /\ reddit_queue' = <<>>
      BY <2>1, <2>4 DEF Reddit!Leave, Reddit!Enter, Reddit!Bounded
    <3> QED
      BY <2>1, <2>2, <2>4, <3>1 DEF RedditInv
  <2> QED
    BY <1>2, <2>1, <2>3, <2>4 DEF Reddit!Connect
<1>3. CASE Reddit!Handle
  <2>1. CASE /\ reddit_waiting /\ Len(reddit_queue) = 1 /\ reddit_alive /\ Reddit!Proceed(<<>>)
             /\ UNCHANGED <<reddit_alive, reddit_silences>>
    BY <1>3, <2>1, RedditAnswered DEF Reddit!Handle
  <2>2. CASE /\ reddit_waiting => Len(reddit_queue) > 1 \/ reddit_silences < MaxSilences
             /\ reddit_queue' = Tail(reddit_queue)
             /\ UNCHANGED <<reddit_phase, reddit_waiting, reddit_baseline, reddit_found,
                            reddit_target, reddit_alive, reddit_silences, reddit_result>>
    BY <1>3, <2>2, RedditUnheard DEF Reddit!Handle
  <2> QED
    BY <1>3, <2>1, <2>2 DEF Reddit!Handle
<1>4. CASE Reddit!Refuse
  BY <1>4, RedditRetreats DEF Reddit!Refuse
<1>5. CASE Reddit!Timeout
  <2>1. /\ reddit_waiting /\ reddit_alive /\ reddit_silences < MaxSilences
        /\ reddit_silences' = reddit_silences + 1 /\ Reddit!Retreat(reddit_queue)
        /\ UNCHANGED <<reddit_own, reddit_other, reddit_alive>>
    BY <1>5 DEF Reddit!Timeout
  <2>2. reddit_queue \in {<<reddit_phase>>, <<>>}
    BY <2>1, FirstSilence
  <2>3. CASE reddit_queue = <<>>
    BY <2>1, <2>3, RedditRetreats
  <2>4. CASE reddit_queue = <<reddit_phase>>
    BY <2>1, <2>4, RedditGoesOn
  <2> QED
    BY <2>2, <2>3, <2>4
<1>6. CASE Reddit!Load \/ Reddit!Pause
  <2>1. /\ reddit_phase \in {"load", "pause"}
        /\ \/ \E p \in {"poll", "check"} : Reddit!Enter(p, reddit_queue)
           \/ Reddit!Leave("error", reddit_queue)
        /\ UNCHANGED <<reddit_own, reddit_other, reddit_baseline, reddit_found, reddit_target,
                       reddit_alive, reddit_silences>>
    BY <1>6 DEF Reddit!Load, Reddit!Pause
  <2>2. reddit_alive /\ Live
    BY <2>1 DEF RedditInv
  <2>3. /\ reddit_queue = <<>> /\ reddit_target /\ reddit_own = "open" /\ reddit_target \in BOOLEAN
        /\ reddit_alive \in BOOLEAN /\ reddit_silences \in {0, 1} /\ reddit_silences <= MaxSilences
        /\ reddit_other # "closed" /\ reddit_found \subseteq {"own"}
    BY <2>1, <2>2 DEF RedditInv, Live, Sent, Whereabouts, Uses
  <2>4. ASSUME NEW p \in {"poll", "check"}, Reddit!Enter(p, <<>>) PROVE RedditInv'
    <3>1. p \in Reddit!Bounded
      BY DEF Reddit!Bounded
    <3> QED
      BY <2>1, <2>2, <2>3, <2>4, <3>1, Entered DEF Uses
  <2> QED
    BY <2>1, <2>2, <2>3, <2>4, Left
<1>7. CASE Reddit!Break
  BY <1>7 DEF Reddit!Break, RedditInv
<1>8. CASE Reddit!Other
  BY <1>8 DEF Reddit!Other, RedditInv, Live, Sent, Whereabouts
<1>9. CASE Reddit!Done \/ UNCHANGED Reddit!vars
  BY <1>9 DEF Reddit!Done, Reddit!vars, Reddit!chrome, RedditInv, Live, Sent, Whereabouts
<1> QED
  BY <1>1, <1>2, <1>3, <1>4, <1>5, <1>6, <1>7, <1>8, <1>9 DEF Reddit!Next

-----------------------------------------------------------------------------

\* A search in a tab of the browser closes its own tabs, as far as Chrome does
\* what it is told and a program of Google's heard the id, and the tabs of others
\* never, however commands and navigations interleave and whichever reply is
\* late; and a navigation that succeeded shows its page.
TabsKept ==
    /\ Google!TabsReturned /\ Reddit!NoTabLeft /\ Reddit!OthersSpared
    /\ Page!RuntimeOff /\ Page!NavLoaded

LEMMA TabsAreKept ==
  ASSUME GoogleInv, RedditInv, PageInv, Navigates \subseteq Commands PROVE TabsKept
<1>1. Google!TabsReturned
  BY DEF GoogleInv, Google!TabsReturned, Google!Shut
<1>2. Reddit!NoTabLeft /\ Reddit!OthersSpared
  BY DEF RedditInv, Live, Whereabouts, Reddit!NoTabLeft, Reddit!OthersSpared
<1>3. Page!RuntimeOff
  BY DEF PageInv, Page!RuntimeOff, Page!Busy
<1>4. Page!NavLoaded
  BY DEF PageInv, Page!NavLoaded
<1> QED
  BY <1>1, <1>2, <1>3, <1>4 DEF TabsKept

\* For every number of pages, commands and documents. One reply at most does not
\* come in time on the connection of the Reddit search: with two, the one of
\* Target.createTarget and the one of the recovery's own listing, its tab is left
\* behind. The programs of Google have no such recovery; any of their commands
\* may fail, the one that opens the tab and the one that closes it included.
THEOREM TabsStayKept ==
  ASSUME MaxSilences \in Nat, MaxSilences <= 1, None \notin BOOLEAN, Navigates \subseteq Commands
  PROVE  Google!Spec /\ Reddit!Spec /\ Page!Spec => []TabsKept
<1> DEFINE All == GoogleInv /\ RedditInv /\ PageInv
<1>1. Google!Init /\ Reddit!Init /\ Page!Init => All
  BY GoogleInit, RedditInit, PageInit
<1>2. All /\ [Google!Next]_(Google!vars) /\ [Reddit!Next]_(Reddit!vars) /\ [Page!Next]_(Page!vars) => All'
  BY GoogleStep, RedditStep, PageStep
<1>3. All => TabsKept
  BY TabsAreKept
<1> HIDE DEF All
<1> QED
  BY <1>1, <1>2, <1>3, PTL DEF Google!Spec, Reddit!Spec, Page!Spec

-----------------------------------------------------------------------------
(* PageCache, PagePull, ToolRuntime, FetchReply, RepoMap *)

\* What a tool needs has been read when its module is imported, and its calls
\* wait for that import only.
Ready(t) ==
    /\ t \in NeedsCache => tool_cacheReady = "ready"
    /\ t \in NeedsUser => tool_userReady = "ready"

ToolInv ==
    /\ tool_failures \in Nat
    /\ tool_seen \in [Calls -> Nat] /\ tool_loading \in [Tools -> {"none", "needs", "import"}]
    /\ tool_call \in [Calls -> {"new", "starting", "waiting", "running", "done", "failed"}]
    /\ \A t \in Tools : t \in tool_runtime \/ tool_loading[t] = "import" => Ready(t)
    /\ \A c \in Calls :
          /\ tool_seen[c] <= tool_failures
          /\ tool_call[c] = "running" => Ready(ToolOf[c])
          /\ tool_call[c] = "failed" => tool_seen[c] < tool_failures

LEMMA ToolInit == ASSUME Tool!Init PROVE ToolInv
  BY DEF Tool!Init, ToolInv

LEMMA ToolStep ==
  ASSUME ToolInv, ToolOf \in [Calls -> Tools], [Tool!Next]_(Tool!vars) PROVE ToolInv'
<1> USE DEF ToolInv, Ready
<1>1. ASSUME NEW c \in Calls, Tool!Call(c) PROVE ToolInv'
  BY <1>1 DEF Tool!Call
<1>2. ASSUME NEW c \in Calls, Tool!GetRuntime(c) PROVE ToolInv'
  BY <1>2 DEF Tool!GetRuntime, Tool!Joins
<1>3. ASSUME NEW c \in Calls, Tool!Rejected(c) \/ Tool!Executed(c) PROVE ToolInv'
  BY <1>3 DEF Tool!Rejected, Tool!Executed
<1>4. ASSUME NEW t \in Tools, Tool!ExtractorsAsked(t) \/ Tool!Import(t) PROVE ToolInv'
  BY <1>4 DEF Tool!ExtractorsAsked, Tool!Import, Tool!Needed
<1>5. ASSUME NEW t \in Tools, Tool!Loaded(t) PROVE ToolInv'
  BY <1>5 DEF Tool!Loaded, Tool!Waiting
<1>6. ASSUME NEW t \in Tools, Tool!LoadFails(t) PROVE ToolInv'
  BY <1>6 DEF Tool!LoadFails, Tool!Waiting, Tool!Forgotten
<1>7. CASE Tool!CachesRead \/ Tool!ExtractorsRead \/ UNCHANGED Tool!vars
  BY <1>7 DEF Tool!CachesRead, Tool!ExtractorsRead, Tool!vars
<1> QED
  BY <1>1, <1>2, <1>3, <1>4, <1>5, <1>6, <1>7 DEF Tool!Next

\* Outside a browser and a way past a wall, only a text that is no bot check is
\* taken for the page; what else may come back is never called one.
PullInv ==
    /\ pull_purpose = "browser" => pull_opts.mode = "browser"
    /\ pull_purpose \in {"hard", "marker"} => pull_opts.bypass
    /\ Pull!NoBotPage

LEMMA PullInit == ASSUME Pull!Init PROVE PullInv
  BY DEF Pull!Init, PullInv, Pull!NoBotPage

LEMMA PullStep == ASSUME PullInv, [Pull!Next]_(Pull!vars) PROVE PullInv'
<1> USE DEF PullInv, Pull!NoBotPage, Pull!asked, Pull!place
<1>1. CASE Pull!Vertical
  <2>1. ASSUME NEW r \in Pull!Contents, Pull!Return([r EXCEPT !.code = "vertical"]) PROVE PullInv'
    <3>1. [r EXCEPT !.code = "vertical"].code = "vertical"
      BY DEF Pull!Contents
    <3> QED
      BY <2>1, <3>1 DEF Pull!Return
  <2>2. ASSUME NEW code \in {"vertical", "secret"}, Pull!Return(Pull!Failed(code)) PROVE PullInv'
    BY <2>2 DEF Pull!Return, Pull!Failed
  <2> QED
    BY <1>1, <2>1, <2>2 DEF Pull!Vertical
<1>2. CASE Pull!Start
  <2>1. CASE Pull!Return(Pull!Failed("render")) /\ pull_opts.mode = "browser"
    BY <2>1 DEF Pull!Return, Pull!Failed
  <2>2. CASE Pull!Pull("main", "peek")
    BY <2>2 DEF Pull!Pull
  <2>3. CASE Pull!Pull("browser", "text") /\ pull_opts.mode = "browser"
    BY <2>3 DEF Pull!Pull
  <2> QED
    BY <1>2, <2>1, <2>2, <2>3 DEF Pull!Start
<1>3. CASE Pull!Peek \/ Pull!Fetch \/ Pull!Challenged \/ Pull!Archive \/ Pull!Answered
  BY <1>3 DEF Pull!Peek, Pull!Fetch, Pull!Challenged, Pull!Archive, Pull!Answered, Pull!Goto, Pull!Back
<1>4. CASE Pull!Follow \/ Pull!Pipeline \/ Pull!Extract
  BY <1>4 DEF Pull!Follow, Pull!Pipeline, Pull!Extract, Pull!Goto, Pull!Back
<1>5. CASE Pull!Bypass \/ Pull!Bypassed
  BY <1>5 DEF Pull!Bypass, Pull!Bypassed, Pull!HardWall, Pull!SoftWall, Pull!Pull, Pull!Return
<1>6. CASE Pull!Accept
  BY <1>6 DEF Pull!Accept, Pull!Return, Pull!Main, Pull!HardWall, Pull!SoftWall
<1>7. CASE Pull!BotCheck \/ Pull!Retried
  BY <1>7 DEF Pull!BotCheck, Pull!Retried, Pull!TryNext, Pull!Clear, Pull!Pull, Pull!Return, Pull!Failed
<1>8. CASE Pull!Stale
  BY <1>8 DEF Pull!Stale, Pull!Failed
<1>9. CASE Pull!Done \/ UNCHANGED Pull!vars
  BY <1>9 DEF Pull!Done, Pull!vars
<1> QED
  BY <1>1, <1>2, <1>3, <1>4, <1>5, <1>6, <1>7, <1>8, <1>9 DEF Pull!Next

\* From the time a page is fetched its text is kept, and the reply names one of
\* the places that have it.
ReplyInv ==
    /\ reply_phase = "new" => reply_kept = [p \in {"file", "cache", "id"} |-> None]
    /\ reply_phase = "fetched" =>
          reply_body = "whole" /\ reply_kept = [p \in {"file", "cache", "id"} |-> None]
    /\ reply_phase \in {"kept", "pruned", "told"} =>
          IF reply_want.format = "markdown"
          THEN reply_kept = [p \in {"file", "cache", "id"} |-> "whole"]
          ELSE /\ reply_kept["id"] = "whole"
               /\ reply_kept["file"] = None /\ reply_kept["cache"] = None
               /\ reply_phase = "kept" => reply_body = "whole"
    /\ Reply!WholeSomewhere

LEMMA ReplyInit == ASSUME Reply!Init PROVE ReplyInv
  BY DEF Reply!Init, ReplyInv, Reply!Places, Reply!WholeSomewhere

LEMMA ReplyStep == ASSUME None # "whole", ReplyInv, [Reply!Next]_(Reply!vars) PROVE ReplyInv'
<1> USE DEF ReplyInv, Reply!WholeSomewhere, Reply!Places
<1>1. CASE Reply!Fetched
  BY <1>1 DEF Reply!Fetched
<1>2. CASE Reply!Keep
  BY <1>2 DEF Reply!Keep, Reply!Text
<1>3. CASE Reply!Prune
  BY <1>3 DEF Reply!Prune, Reply!Format
<1>4. CASE Reply!AnswerMode \/ Reply!Summary \/ Reply!OutlineMode \/ Reply!Preview
  BY <1>4 DEF Reply!AnswerMode, Reply!Summary, Reply!OutlineMode, Reply!Preview, Reply!Tell, Reply!Label,
     Reply!Notice, Reply!Format
<1>5. CASE Reply!Again \/ UNCHANGED Reply!vars
  BY <1>5 DEF Reply!Again, Reply!vars
<1> QED
  BY <1>1, <1>2, <1>3, <1>4, <1>5 DEF Reply!Next

\* Every copy has the version of its page, or an older one, and a validator that
\* is no later; so has what a call has pulled, and the validator noted for it.
CacheInv ==
    /\ cache_now \in Nat /\ cache_changed \in [CachedPages -> Nat]
    /\ cache_stored = [p \in CachedPages |-> cache_stored[p]]
    /\ cache_captured = [p \in CachedPages |-> cache_captured[p]]
    /\ \A p \in CachedPages :
          /\ cache_changed[p] <= cache_now
          /\ cache_stored[p] # None =>
                /\ cache_stored[p] \in [version : Nat, at : Nat, asOf : Nat, mod : Nat \cup {None}, part : {FALSE}]
                /\ cache_stored[p].version <= cache_changed[p]
                /\ cache_stored[p].mod # None => cache_stored[p].mod <= cache_stored[p].version
          /\ cache_captured[p] # None =>
                cache_captured[p] \in Nat /\ cache_captured[p] <= cache_changed[p]
    /\ Cache!NotModifiedIsPage

CallInv ==
    /\ cache_pc = [c \in Fetches |-> cache_pc[c]]
    /\ cache_page = [c \in Fetches |-> cache_page[c]] /\ cache_use = [c \in Fetches |-> cache_use[c]]
    /\ cache_cond = [c \in Fetches |-> cache_cond[c]] /\ cache_pulled = [c \in Fetches |-> cache_pulled[c]]
    /\ \A c, d \in Fetches :
          c # d /\ cache_pc[c] # "idle" /\ cache_pc[d] # "idle" => cache_page[c] # cache_page[d]
    /\ \A c \in Fetches :
          /\ cache_pc[c] # "idle" => cache_page[c] \in CachedPages /\ cache_use[c] # "part"
          /\ cache_pc[c] = "asks" =>
                /\ cache_cond[c] \in Nat
                /\ cache_stored[cache_page[c]] # None => cache_cond[c] <= cache_stored[cache_page[c]].version
          /\ cache_pc[c] = "keeps" =>
                /\ cache_pulled[c].version \in Nat /\ cache_pulled[c].asOf = None
                /\ cache_pulled[c].version <= cache_changed[cache_page[c]]
                /\ cache_captured[cache_page[c]] # None =>
                      cache_captured[cache_page[c]] <= cache_pulled[c].version

LEMMA CacheInit == ASSUME Cache!Init PROVE CacheInv /\ CallInv
  BY DEF Cache!Init, CacheInv, CallInv, Cache!NotModifiedIsPage

\* What is left of the store when copies go.
LEMMA GetRemains ==
  ASSUME NEW p \in CachedPages, CacheInv, Cache!Get(p)
  PROVE  /\ cache_stored' = [q \in CachedPages |-> cache_stored'[q]]
         /\ \A q \in CachedPages : cache_stored'[q] = cache_stored[q] \/ cache_stored'[q] = None
  BY DEF Cache!Get, Cache!Keep, Cache!store, CacheInv

\* Of what is there no step but a copy's own changes more than that it is gone.
LEMMA CacheKeeps ==
  ASSUME CacheInv, CallInv,
         cache_stored' = [q \in CachedPages |-> cache_stored'[q]],
         \A q \in CachedPages : cache_stored'[q] = cache_stored[q] \/ cache_stored'[q] = None,
         UNCHANGED <<cache_now, cache_changed, cache_captured>>, cache_answer' = None
  PROVE  CacheInv'
  BY DEF CacheInv, Cache!NotModifiedIsPage

\* A call moves on, or to a page of its own; the others stand where they stood.
LEMMA CallKeeps ==
  ASSUME CacheInv, CallInv, NEW c \in Fetches, NEW to,
         cache_pc' = [cache_pc EXCEPT ![c] = to],
         \A q \in CachedPages : cache_stored'[q] = cache_stored[q] \/ cache_stored'[q] = None,
         UNCHANGED <<cache_changed, cache_captured, cache_pulled>>,
         \A d \in Fetches : d # c =>
            /\ cache_page'[d] = cache_page[d] /\ cache_use'[d] = cache_use[d]
            /\ cache_cond'[d] = cache_cond[d],
         cache_page' = [d \in Fetches |-> cache_page'[d]], cache_use' = [d \in Fetches |-> cache_use'[d]],
         cache_cond' = [d \in Fetches |-> cache_cond'[d]],
         to \in {"asks", "pulls"} =>
            /\ cache_page'[c] \in CachedPages /\ cache_use'[c] # "part"
            /\ \A d \in Fetches : d # c /\ cache_pc[d] # "idle" => cache_page[d] # cache_page'[c],
         to = "asks" =>
            /\ cache_cond'[c] \in Nat
            /\ cache_stored'[cache_page'[c]] # None =>
                  cache_cond'[c] <= cache_stored'[cache_page'[c]].version,
         to \in {"idle", "asks", "pulls"}
  PROVE  CallInv'
<1>1. \A d \in Fetches : cache_pc'[d] = IF d = c THEN to ELSE cache_pc[d]
  BY DEF CallInv
<1>2. cache_pc' = [d \in Fetches |-> cache_pc'[d]] /\ cache_pulled' = [d \in Fetches |-> cache_pulled'[d]]
  BY DEF CallInv
<1>3. \A d, e \in Fetches :
         d # e /\ cache_pc'[d] # "idle" /\ cache_pc'[e] # "idle" => cache_page'[d] # cache_page'[e]
  BY <1>1 DEF CallInv
<1>4. ASSUME NEW d \in Fetches
      PROVE  /\ cache_pc'[d] # "idle" => cache_page'[d] \in CachedPages /\ cache_use'[d] # "part"
             /\ cache_pc'[d] = "asks" =>
                   /\ cache_cond'[d] \in Nat
                   /\ cache_stored'[cache_page'[d]] # None =>
                         cache_cond'[d] <= cache_stored'[cache_page'[d]].version
  BY <1>1 DEF CallInv
<1>5. ASSUME NEW d \in Fetches, cache_pc'[d] = "keeps"
      PROVE  /\ cache_pulled'[d].version \in Nat /\ cache_pulled'[d].asOf = None
             /\ cache_pulled'[d].version <= cache_changed'[cache_page'[d]]
             /\ cache_captured'[cache_page'[d]] # None =>
                   cache_captured'[cache_page'[d]] <= cache_pulled'[d].version
  BY <1>1, <1>5 DEF CallInv
<1> QED
  BY <1>2, <1>3, <1>4, <1>5 DEF CallInv

\* A call that returns leaves the others with the copies of their own pages.
LEMMA CallReturns ==
  ASSUME CallInv, NEW c \in Fetches, cache_pc[c] # "idle",
         cache_pc' = [cache_pc EXCEPT ![c] = "idle"], cache_page' = [cache_page EXCEPT ![c] = None],
         cache_use' = [cache_use EXCEPT ![c] = None], cache_cond' = [cache_cond EXCEPT ![c] = None],
         cache_pulled' = [cache_pulled EXCEPT ![c] = None], UNCHANGED cache_changed,
         \A q \in CachedPages : q # cache_page[c] =>
            /\ cache_stored'[q] = cache_stored[q] \/ cache_stored'[q] = None
            /\ cache_captured'[q] = cache_captured[q]
  PROVE  CallInv'
<1>1. ASSUME NEW d \in Fetches, d # c
      PROVE  /\ cache_pc'[d] = cache_pc[d] /\ cache_page'[d] = cache_page[d] /\ cache_use'[d] = cache_use[d]
             /\ cache_cond'[d] = cache_cond[d] /\ cache_pulled'[d] = cache_pulled[d]
             /\ cache_pc[d] # "idle" => cache_page[d] \in CachedPages /\ cache_page[d] # cache_page[c]
  BY <1>1 DEF CallInv
<1>2. /\ cache_pc'[c] = "idle"
      /\ cache_pc' = [d \in Fetches |-> cache_pc'[d]]
      /\ cache_page' = [d \in Fetches |-> cache_page'[d]] /\ cache_use' = [d \in Fetches |-> cache_use'[d]]
      /\ cache_cond' = [d \in Fetches |-> cache_cond'[d]] /\ cache_pulled' = [d \in Fetches |-> cache_pulled'[d]]
  BY DEF CallInv
<1>3. \A d, f \in Fetches :
         d # f /\ cache_pc'[d] # "idle" /\ cache_pc'[f] # "idle" => cache_page'[d] # cache_page'[f]
  BY <1>1, <1>2 DEF CallInv
<1>4. ASSUME NEW d \in Fetches, d # c, cache_pc[d] # "idle"
      PROVE  /\ cache_page'[d] \in CachedPages /\ cache_use'[d] # "part"
             /\ cache_pc'[d] = "asks" =>
                   /\ cache_cond'[d] \in Nat
                   /\ cache_stored'[cache_page'[d]] # None =>
                         cache_cond'[d] <= cache_stored'[cache_page'[d]].version
             /\ cache_pc'[d] = "keeps" =>
                   /\ cache_pulled'[d].version \in Nat /\ cache_pulled'[d].asOf = None
                   /\ cache_pulled'[d].version <= cache_changed'[cache_page'[d]]
                   /\ cache_captured'[cache_page'[d]] # None =>
                         cache_captured'[cache_page'[d]] <= cache_pulled'[d].version
  BY <1>1, <1>4 DEF CallInv
<1> QED
  BY <1>1, <1>2, <1>3, <1>4 DEF CallInv

LEMMA CacheBegin ==
  ASSUME CacheInv, CallInv, "part" \notin CacheUses, NEW c \in Fetches, Cache!Begin(c)
  PROVE  CacheInv' /\ CallInv'
<1> USE DEF Cache!Goto, Cache!Has, Cache!Fresh, Cache!store
<1>1. PICK p \in CachedPages, u \in CacheUses \ {"read"} :
         /\ \A d \in Fetches : cache_pc[d] # "idle" => cache_page[d] # p
         /\ cache_page' = [cache_page EXCEPT ![c] = p] /\ cache_use' = [cache_use EXCEPT ![c] = u]
         /\ \/ /\ Cache!Has(p) /\ cache_stored[p].mod # None
               /\ cache_cond' = [cache_cond EXCEPT ![c] = cache_stored[p].mod]
               /\ cache_pc' = [cache_pc EXCEPT ![c] = "asks"] /\ UNCHANGED <<cache_stored, cache_older>>
            \/ /\ Cache!Get(p) \/ UNCHANGED <<cache_stored, cache_older>>
               /\ cache_pc' = [cache_pc EXCEPT ![c] = "pulls"] /\ UNCHANGED cache_cond
  BY DEF Cache!Begin
<1>2. UNCHANGED <<cache_now, cache_changed, cache_captured, cache_pulled>> /\ cache_answer' = None
  BY DEF Cache!Begin
<1>3. /\ cache_stored' = [q \in CachedPages |-> cache_stored'[q]]
      /\ \A q \in CachedPages : cache_stored'[q] = cache_stored[q] \/ cache_stored'[q] = None
  BY <1>1, GetRemains DEF CacheInv
<1>4. CacheInv'
  BY <1>2, <1>3, CacheKeeps
<1>5. /\ cache_page'[c] = p /\ cache_use'[c] = u
      /\ cache_page' = [d \in Fetches |-> cache_page'[d]] /\ cache_use' = [d \in Fetches |-> cache_use'[d]]
      /\ cache_cond' = [d \in Fetches |-> cache_cond'[d]]
      /\ \A d \in Fetches : d # c =>
            cache_page'[d] = cache_page[d] /\ cache_use'[d] = cache_use[d] /\ cache_cond'[d] = cache_cond[d]
  BY <1>1 DEF CallInv
<1>6. CASE /\ Cache!Has(p) /\ cache_stored[p].mod # None
           /\ cache_cond' = [cache_cond EXCEPT ![c] = cache_stored[p].mod]
           /\ cache_pc' = [cache_pc EXCEPT ![c] = "asks"] /\ UNCHANGED <<cache_stored, cache_older>>
  <2>1. /\ cache_cond'[c] \in Nat
        /\ cache_stored'[cache_page'[c]] # None => cache_cond'[c] <= cache_stored'[cache_page'[c]].version
    BY <1>5, <1>6 DEF CacheInv, CallInv
  <2> QED
    BY <1>1, <1>2, <1>3, <1>4, <1>5, <1>6, <2>1, CallKeeps
<1>7. CASE cache_pc' = [cache_pc EXCEPT ![c] = "pulls"]
  BY <1>1, <1>2, <1>3, <1>4, <1>5, <1>7, CallKeeps
<1> QED
  BY <1>1, <1>6, <1>7

\* The site that says 304 has not changed since the validator asked about, which
\* is no later than the version of the copy.
LEMMA CacheAsks ==
  ASSUME CacheInv, CallInv, NEW c \in Fetches, Cache!Asks(c)
  PROVE  CacheInv' /\ CallInv'
<1> USE DEF Cache!Goto, Cache!Has, Cache!Fresh, Cache!store
<1> DEFINE p == cache_page[c]
<1>1. /\ p \in CachedPages /\ cache_use[c] # "part" /\ cache_pc[c] = "asks" /\ cache_cond[c] \in Nat
      /\ cache_stored[p] # None => cache_cond[c] <= cache_stored[p].version
      /\ UNCHANGED <<cache_now, cache_changed, cache_captured>>
  BY DEF Cache!Asks, CallInv
<1>2. CASE cache_changed[p] <= cache_cond[c] /\ Cache!Refresh(p) /\ Cache!Has(p) /\ Cache!Return(c)
           /\ Cache!Answer(c, "304", cache_stored[p].version, cache_stored[p].part, cache_now, cache_now)
  <2> DEFINE e == cache_stored[p]
             e1 == [[e EXCEPT !.at = cache_now] EXCEPT !.asOf = cache_now]
  <2>1. /\ e \in [version : Nat, at : Nat, asOf : Nat, mod : Nat \cup {None}, part : {FALSE}]
        /\ e.version <= cache_changed[p] /\ (e.mod # None => e.mod <= e.version)
    BY <1>1, <1>2 DEF CacheInv
  <2>2. cache_stored' = [cache_stored EXCEPT ![p] = e1]
    BY <1>1, <1>2 DEF Cache!Refresh, CacheInv
  <2>3. /\ e1 \in [version : Nat, at : Nat, asOf : Nat, mod : Nat \cup {None}, part : {FALSE}]
        /\ e1.version = e.version /\ e1.mod = e.mod
    BY <2>1 DEF CacheInv
  <2>4. e.version = cache_changed[p] /\ ~e.part
    <3>1. e.version \in Nat /\ e.part = FALSE /\ cache_changed[p] \in Nat
      BY <1>1, <2>1 DEF CacheInv
    <3>2. cache_changed[p] <= cache_cond[c] /\ cache_cond[c] <= e.version /\ cache_cond[c] \in Nat
      BY <1>1, <1>2
    <3> HIDE DEF e
    <3> QED
      BY <2>1, <3>1, <3>2
  <2>5. \A q \in CachedPages : cache_stored'[q] = IF q = p THEN e1 ELSE cache_stored[q]
    BY <1>1, <2>2 DEF CacheInv
  <2>6. cache_answer' = [kind |-> "304", page |-> p, version |-> e.version, part |-> e.part,
                         asOf |-> cache_now, dated |-> cache_now]
    BY <1>2 DEF Cache!Answer
  <2>7. Cache!NotModifiedIsPage'
    BY <1>1, <2>4, <2>6 DEF Cache!NotModifiedIsPage
  <2>8. CacheInv'
    <3> HIDE DEF e, e1
    <3>1. cache_stored' = [q \in CachedPages |-> cache_stored'[q]]
      BY <2>2 DEF CacheInv
    <3>2. ASSUME NEW q \in CachedPages, cache_stored'[q] # None
          PROVE  /\ cache_stored'[q] \in [version : Nat, at : Nat, asOf : Nat, mod : Nat \cup {None}, part : {FALSE}]
                 /\ cache_stored'[q].version <= cache_changed[q]
                 /\ cache_stored'[q].mod # None => cache_stored'[q].mod <= cache_stored'[q].version
      BY <2>1, <2>3, <2>5, <3>2 DEF CacheInv
    <3> QED
      BY <1>1, <2>7, <3>1, <3>2 DEF CacheInv
  <2>9. CallInv'
    <3> HIDE DEF e, e1
    <3>1. /\ cache_pc' = [cache_pc EXCEPT ![c] = "idle"] /\ cache_page' = [cache_page EXCEPT ![c] = None]
          /\ cache_use' = [cache_use EXCEPT ![c] = None] /\ cache_cond' = [cache_cond EXCEPT ![c] = None]
          /\ cache_pulled' = [cache_pulled EXCEPT ![c] = None]
      BY <1>2 DEF Cache!Return
    <3> QED
      BY <1>1, <2>5, <3>1, CallReturns
  <2> QED
    BY <2>8, <2>9
<1>3. CASE /\ cache_pc' = [cache_pc EXCEPT ![c] = "pulls"] /\ cache_answer' = None
           /\ cache_cond' = [cache_cond EXCEPT ![c] = None]
           /\ Cache!Get(p) \/ UNCHANGED cache_stored
           /\ UNCHANGED <<cache_pulled, cache_page, cache_use>>
  <2>1. /\ cache_stored' = [q \in CachedPages |-> cache_stored'[q]]
        /\ \A q \in CachedPages : cache_stored'[q] = cache_stored[q] \/ cache_stored'[q] = None
    BY <1>1, <1>3, GetRemains DEF CacheInv
  <2>2. CacheInv'
    BY <1>1, <1>3, <2>1, CacheKeeps
  <2>3. /\ cache_cond' = [d \in Fetches |-> cache_cond'[d]] /\ cache_page' = [d \in Fetches |-> cache_page'[d]]
        /\ cache_use' = [d \in Fetches |-> cache_use'[d]]
        /\ \A d \in Fetches : d # c =>
              cache_page'[d] = cache_page[d] /\ cache_use'[d] = cache_use[d] /\ cache_cond'[d] = cache_cond[d]
        /\ cache_page'[c] \in CachedPages /\ cache_use'[c] # "part"
        /\ \A d \in Fetches : d # c /\ cache_pc[d] # "idle" => cache_page[d] # cache_page'[c]
    BY <1>1, <1>3 DEF CallInv
  <2> QED
    BY <1>1, <1>3, <2>1, <2>2, <2>3, CallKeeps
<1> QED
  BY <1>1, <1>2, <1>3 DEF Cache!Asks, Cache!NotModified, Cache!Refresh

\* Of the pages a call is at, only that of the call itself changes.
LEMMA CachePulls ==
  ASSUME CacheInv, CallInv, NEW c \in Fetches, Cache!Pulls(c)
  PROVE  CacheInv' /\ CallInv'
<1> DEFINE p == cache_page[c]
<1>1. /\ p \in CachedPages /\ cache_pc[c] = "pulls" /\ cache_changed[p] \in Nat
      /\ UNCHANGED <<cache_now, cache_changed, cache_stored>> /\ cache_answer' = None
  BY DEF Cache!Pulls, Cache!store, CacheInv, CallInv
<1>2. \/ cache_captured' = [cache_captured EXCEPT ![p] = cache_changed[p]]
      \/ UNCHANGED cache_captured
  BY DEF Cache!Pulls, Cache!Capture
<1>3. \A q \in CachedPages :
         \/ cache_captured'[q] = cache_captured[q]
         \/ q = p /\ cache_captured'[q] = cache_changed[p]
  BY <1>1, <1>2 DEF CacheInv
<1>4. CacheInv'
  <2>1. cache_captured' = [q \in CachedPages |-> cache_captured'[q]]
    BY <1>2 DEF CacheInv
  <2>2. ASSUME NEW q \in CachedPages, cache_captured'[q] # None
        PROVE  cache_captured'[q] \in Nat /\ cache_captured'[q] <= cache_changed[q]
    <3>1. CASE cache_captured'[q] = cache_captured[q]
      BY <2>2, <3>1 DEF CacheInv
    <3>2. CASE q = p /\ cache_captured'[q] = cache_changed[p]
      BY <1>1, <3>2
    <3> QED
      BY <1>3, <3>1, <3>2
  <2> HIDE DEF p
  <2> QED
    BY <1>1, <2>1, <2>2 DEF CacheInv, Cache!NotModifiedIsPage
<1>5. CASE Cache!Pulled(c, cache_changed[p], None)
  <2>1. /\ cache_pulled' = [cache_pulled EXCEPT ![c] = [version |-> cache_changed[p], asOf |-> None]]
        /\ cache_pc' = [cache_pc EXCEPT ![c] = "keeps"] /\ UNCHANGED <<cache_cond, cache_page, cache_use>>
    BY <1>5 DEF Cache!Pulled, Cache!Goto
  <2>2. /\ cache_pulled'[c] = [version |-> cache_changed[p], asOf |-> None] /\ cache_pc'[c] = "keeps"
        /\ \A d \in Fetches : d # c => cache_pulled'[d] = cache_pulled[d] /\ cache_pc'[d] = cache_pc[d]
    BY <2>1 DEF CallInv
  <2>3. ASSUME NEW d \in Fetches, cache_pc'[d] = "keeps"
        PROVE  /\ cache_pulled'[d].version \in Nat /\ cache_pulled'[d].asOf = None
               /\ cache_pulled'[d].version <= cache_changed'[cache_page'[d]]
               /\ cache_captured'[cache_page'[d]] # None =>
                     cache_captured'[cache_page'[d]] <= cache_pulled'[d].version
    <3>1. CASE d = c
      <4>1. cache_page'[d] = p /\ cache_changed'[p] = cache_changed[p]
        BY <1>1, <2>1, <3>1
      <4>2. cache_captured'[p] # None => cache_captured'[p] \in Nat /\ cache_captured'[p] <= cache_changed[p]
        BY <1>1, <1>4 DEF CacheInv
      <4>3. cache_pulled'[d].version = cache_changed[p] /\ cache_pulled'[d].asOf = None
        BY <2>2, <3>1
      <4> HIDE DEF p
      <4> QED
        BY <1>1, <4>1, <4>2, <4>3
    <3>2. CASE d # c
      <4>1. cache_page[d] \in CachedPages /\ cache_page[d] # p /\ cache_pc[d] = "keeps"
        BY <1>1, <2>2, <2>3, <3>2 DEF CallInv
      <4>2. cache_captured'[cache_page[d]] = cache_captured[cache_page[d]]
        BY <1>3, <4>1
      <4> QED
        BY <1>1, <2>1, <2>2, <3>2, <4>1, <4>2 DEF CallInv
    <3> QED
      BY <3>1, <3>2
  <2>4. /\ cache_pc' = [d \in Fetches |-> cache_pc'[d]]
        /\ cache_pulled' = [d \in Fetches |-> cache_pulled'[d]]
    BY <2>1 DEF CallInv
  <2>5. \A d, f \in Fetches :
           d # f /\ cache_pc'[d] # "idle" /\ cache_pc'[f] # "idle" => cache_page'[d] # cache_page'[f]
    BY <1>1, <2>1, <2>2 DEF CallInv
  <2>6. ASSUME NEW d \in Fetches
        PROVE  /\ cache_pc'[d] # "idle" => cache_page'[d] \in CachedPages /\ cache_use'[d] # "part"
               /\ cache_pc'[d] = "asks" =>
                     /\ cache_cond'[d] \in Nat
                     /\ cache_stored'[cache_page'[d]] # None =>
                           cache_cond'[d] <= cache_stored'[cache_page'[d]].version
    BY <1>1, <2>1, <2>2 DEF CallInv
  <2> QED
    BY <1>4, <2>1, <2>3, <2>4, <2>5, <2>6 DEF CallInv
<1>6. CASE Cache!Return(c)
  <2>1. /\ cache_pc' = [cache_pc EXCEPT ![c] = "idle"] /\ cache_page' = [cache_page EXCEPT ![c] = None]
        /\ cache_use' = [cache_use EXCEPT ![c] = None] /\ cache_cond' = [cache_cond EXCEPT ![c] = None]
        /\ cache_pulled' = [cache_pulled EXCEPT ![c] = None]
    BY <1>6 DEF Cache!Return, Cache!Goto
  <2>2. \A q \in CachedPages : q # p => cache_captured'[q] = cache_captured[q] /\ cache_stored'[q] = cache_stored[q]
    BY <1>1, <1>3
  <2> QED
    BY <1>1, <1>4, <2>1, <2>2, CallReturns
<1> QED
  BY <1>4, <1>5, <1>6 DEF Cache!Pulls

\* Every copy is of a version its page has had, with a validator noted before.
LEMMA CacheStores ==
  ASSUME CacheInv, CallInv, NEW c \in Fetches, Cache!Keeps(c)
  PROVE  CacheInv' /\ CallInv'
<1> DEFINE p == cache_page[c]
           v == cache_pulled[c].version
<1>1. /\ p \in CachedPages /\ cache_pc[c] = "keeps" /\ cache_use[c] # "part"
      /\ v \in Nat /\ cache_pulled[c].asOf = None /\ v <= cache_changed[p]
      /\ cache_captured[p] # None => cache_captured[p] \in Nat /\ cache_captured[p] <= v
      /\ UNCHANGED <<cache_now, cache_changed>> /\ cache_answer' = None /\ Cache!Return(c)
  BY DEF Cache!Keeps, CacheInv, CallInv
<1>2. \/ UNCHANGED <<cache_stored, cache_captured>>
      \/ Cache!Store(p, Cache!Entry(c, None)) /\ UNCHANGED cache_captured
      \/ /\ Cache!Store(p, Cache!Entry(c, cache_captured[p]))
         /\ cache_captured' = [cache_captured EXCEPT ![p] = None]
  BY DEF Cache!Keeps, Cache!store
<1>3. /\ cache_captured' = [q \in CachedPages |-> cache_captured'[q]]
      /\ \A q \in CachedPages : cache_captured'[q] \in {cache_captured[q], None}
      /\ \A q \in CachedPages : q # p => cache_captured'[q] = cache_captured[q]
  BY <1>1, <1>2 DEF CacheInv
<1>4. ASSUME NEW mod, mod # None => mod \in Nat /\ mod <= v
      PROVE  LET e == Cache!Entry(c, mod)
             IN  /\ e \in [version : Nat, at : Nat, asOf : Nat, mod : Nat \cup {None}, part : {FALSE}]
                 /\ e.version <= cache_changed[p] /\ (e.mod # None => e.mod <= e.version)
  BY <1>1, <1>4 DEF Cache!Entry, CacheInv
<1>5. ASSUME NEW e, e \in [version : Nat, at : Nat, asOf : Nat, mod : Nat \cup {None}, part : {FALSE}],
             e.version <= cache_changed[p], e.mod # None => e.mod <= e.version, Cache!Store(p, e)
      PROVE  /\ cache_stored' = [q \in CachedPages |-> cache_stored'[q]]
             /\ \A q \in CachedPages : q # p => cache_stored'[q] = cache_stored[q] \/ cache_stored'[q] = None
             /\ cache_stored'[p] = e
  BY <1>1, <1>5 DEF Cache!Store
<1>6. /\ cache_stored' = [q \in CachedPages |-> cache_stored'[q]]
      /\ \A q \in CachedPages : q # p => cache_stored'[q] = cache_stored[q] \/ cache_stored'[q] = None
      /\ cache_stored'[p] # None =>
            /\ cache_stored'[p] \in [version : Nat, at : Nat, asOf : Nat, mod : Nat \cup {None}, part : {FALSE}]
            /\ cache_stored'[p].version <= cache_changed[p]
            /\ cache_stored'[p].mod # None => cache_stored'[p].mod <= cache_stored'[p].version
  <2>1. CASE UNCHANGED cache_stored
    BY <1>1, <2>1 DEF CacheInv
  <2>2. CASE \E mod \in {None, cache_captured[p]} : Cache!Store(p, Cache!Entry(c, mod))
    <3>1. PICK mod \in {None, cache_captured[p]} : Cache!Store(p, Cache!Entry(c, mod))
      BY <2>2
    <3>2. mod # None => mod \in Nat /\ mod <= v
      BY <1>1
    <3> DEFINE e == Cache!Entry(c, mod)
    <3>3. /\ e \in [version : Nat, at : Nat, asOf : Nat, mod : Nat \cup {None}, part : {FALSE}]
          /\ e.version <= cache_changed[p] /\ (e.mod # None => e.mod <= e.version)
      BY <1>4, <3>2
    <3> HIDE DEF e, p
    <3> QED
      BY <1>5, <3>1, <3>3 DEF e
  <2> QED
    BY <1>2, <2>1, <2>2
<1>7. CacheInv'
  BY <1>1, <1>3, <1>6 DEF CacheInv, Cache!NotModifiedIsPage
<1>8. /\ cache_pc' = [cache_pc EXCEPT ![c] = "idle"] /\ cache_page' = [cache_page EXCEPT ![c] = None]
      /\ cache_use' = [cache_use EXCEPT ![c] = None] /\ cache_cond' = [cache_cond EXCEPT ![c] = None]
      /\ cache_pulled' = [cache_pulled EXCEPT ![c] = None]
  BY <1>1 DEF Cache!Return, Cache!Goto
<1> QED
  BY <1>1, <1>3, <1>6, <1>7, <1>8, CallReturns

LEMMA CacheStep ==
  ASSUME CacheInv, CallInv, "part" \notin CacheUses, [Cache!Next]_(Cache!vars)
  PROVE  CacheInv' /\ CallInv'
<1>1. CASE \E c \in Fetches : Cache!Begin(c) \/ Cache!Asks(c) \/ Cache!Pulls(c) \/ Cache!Keeps(c)
  BY <1>1, CacheBegin, CacheAsks, CachePulls, CacheStores
<1>2. CASE \E p \in CachedPages : Cache!Read(p)
  <2>1. /\ cache_stored' = [q \in CachedPages |-> cache_stored'[q]]
        /\ \A q \in CachedPages : cache_stored'[q] = cache_stored[q] \/ cache_stored'[q] = None
    BY <1>2, GetRemains DEF Cache!Read
  <2>2. /\ UNCHANGED <<cache_now, cache_changed, cache_captured, cache_pc, cache_page, cache_use,
                       cache_cond, cache_pulled>>
        /\ cache_answer' = None
    BY <1>2 DEF Cache!Read
  <2>3. CacheInv'
    BY <2>1, <2>2, CacheKeeps
  <2>4. CallInv'
    BY <2>1, <2>2 DEF CallInv
  <2> QED
    BY <2>3, <2>4
<1>3. CASE Cache!Tick
  <2>1. /\ UNCHANGED <<cache_stored, cache_captured, cache_pc, cache_page, cache_use, cache_cond, cache_pulled>>
        /\ cache_answer' = None /\ cache_now' = cache_now + 1
        /\ cache_changed' = [p \in CachedPages |-> cache_changed'[p]]
        /\ \A p \in CachedPages : cache_changed'[p] \in {cache_now + 1, cache_changed[p]}
    BY <1>3 DEF Cache!Tick, Cache!store
  <2>2. \A p \in CachedPages :
           /\ cache_changed[p] \in Nat /\ cache_changed'[p] \in Nat
           /\ cache_changed[p] <= cache_changed'[p] /\ cache_changed'[p] <= cache_now'
    <3> SUFFICES ASSUME NEW p \in CachedPages
                 PROVE  /\ cache_changed[p] \in Nat /\ cache_changed'[p] \in Nat
                        /\ cache_changed[p] <= cache_changed'[p] /\ cache_changed'[p] <= cache_now'
      OBVIOUS
    <3>1. cache_now \in Nat /\ cache_changed[p] \in Nat /\ cache_changed[p] <= cache_now
      BY DEF CacheInv
    <3>2. cache_changed'[p] = cache_now + 1 \/ cache_changed'[p] = cache_changed[p]
      BY <2>1
    <3> QED
      BY <2>1, <3>1, <3>2
  <2>3. CacheInv'
    <3>1. cache_now' \in Nat /\ cache_changed' \in [CachedPages -> Nat]
      BY <2>1, <2>2 DEF CacheInv
    <3>2. ASSUME NEW p \in CachedPages, cache_stored'[p] # None
          PROVE  /\ cache_stored'[p] \in [version : Nat, at : Nat, asOf : Nat, mod : Nat \cup {None}, part : {FALSE}]
                 /\ cache_stored'[p].version <= cache_changed'[p]
                 /\ cache_stored'[p].mod # None => cache_stored'[p].mod <= cache_stored'[p].version
      <4> DEFINE e == cache_stored[p]
      <4>1. /\ e \in [version : Nat, at : Nat, asOf : Nat, mod : Nat \cup {None}, part : {FALSE}]
            /\ e.version <= cache_changed[p] /\ (e.mod # None => e.mod <= e.version)
            /\ cache_stored'[p] = e
        BY <2>1, <3>2 DEF CacheInv
      <4>2. e.version \in Nat
        BY <4>1
      <4> HIDE DEF e
      <4>3. e.version <= cache_changed'[p]
        BY <2>2, <4>1, <4>2
      <4> QED
        BY <4>1, <4>3
    <3>3. ASSUME NEW p \in CachedPages, cache_captured'[p] # None
          PROVE  cache_captured'[p] \in Nat /\ cache_captured'[p] <= cache_changed'[p]
      <4>1. cache_captured[p] \in Nat /\ cache_captured[p] <= cache_changed[p] /\ cache_captured'[p] = cache_captured[p]
        BY <2>1, <3>3 DEF CacheInv
      <4> QED
        BY <2>2, <4>1
    <3> QED
      BY <2>1, <2>2, <3>1, <3>2, <3>3 DEF CacheInv, Cache!NotModifiedIsPage
  <2>4. CallInv'
    BY <2>1, <2>2 DEF CallInv
  <2> QED
    BY <2>3, <2>4
<1>4. CASE UNCHANGED Cache!vars
  BY <1>4 DEF Cache!vars, Cache!store, CacheInv, CallInv, Cache!NotModifiedIsPage
<1> QED
  BY <1>1, <1>2, <1>3, <1>4 DEF Cache!Next

\* One call at a time fills a directory, and what it calls a clone stays whole.
RepoInv ==
    /\ repo_at = [c \in MapCalls |-> repo_at[c]] /\ repo_dir = [k \in Repo!Kinds |-> repo_dir[k]]
    /\ repo_seen = [c \in MapCalls |-> repo_seen[c]] /\ repo_scope = [c \in MapCalls |-> repo_scope[c]]
    /\ repo_bound = [c \in MapCalls |-> repo_bound[c]]
    /\ \A c \in MapCalls :
          /\ repo_at[c] = "cloning" => repo_dir[Kind[c]] = "filling"
          /\ repo_at[c] = "cloned" => repo_dir[Kind[c]] = "whole"
    /\ \A c, d \in MapCalls :
          repo_at[c] = "cloning" /\ repo_at[d] = "cloning" /\ Kind[c] = Kind[d] => c = d
    /\ Repo!CountsHonest

LEMMA RepoInit == ASSUME Repo!Init PROVE RepoInv
  BY DEF Repo!Init, RepoInv, Repo!CountsHonest

\* An answer that is honest leaves the others as they were.
LEMMA RepoAnswers ==
  ASSUME RepoInv, NEW c \in MapCalls, NEW n \in Nat, NEW s, NEW b, NEW v, Repo!Answer(c, n, s, b, v),
         UNCHANGED repo_dir,
         Kind[c] = "map" =>
            /\ n <= MapEntries /\ (s = "recursive" /\ b = None => n = MapEntries)
            /\ b = "walk-cap" => n < MapEntries
  PROVE  RepoInv'
<1>1. /\ repo_at' = [repo_at EXCEPT ![c] = "answered"] /\ repo_seen' = [repo_seen EXCEPT ![c] = n]
      /\ repo_scope' = [repo_scope EXCEPT ![c] = s] /\ repo_bound' = [repo_bound EXCEPT ![c] = b]
  BY DEF Repo!Answer
<1>2. \A d \in MapCalls :
         /\ repo_at'[d] = (IF d = c THEN "answered" ELSE repo_at[d])
         /\ repo_seen'[d] = (IF d = c THEN n ELSE repo_seen[d])
         /\ repo_scope'[d] = (IF d = c THEN s ELSE repo_scope[d])
         /\ repo_bound'[d] = (IF d = c THEN b ELSE repo_bound[d])
  BY <1>1 DEF RepoInv
<1>3. Repo!CountsHonest'
  BY <1>2 DEF RepoInv, Repo!CountsHonest
<1>4. /\ repo_at' = [d \in MapCalls |-> repo_at'[d]] /\ repo_seen' = [d \in MapCalls |-> repo_seen'[d]]
      /\ repo_scope' = [d \in MapCalls |-> repo_scope'[d]] /\ repo_bound' = [d \in MapCalls |-> repo_bound'[d]]
  BY <1>1 DEF RepoInv
<1> QED
  BY <1>2, <1>3, <1>4 DEF RepoInv

LEMMA RepoStep ==
  ASSUME RepoInv, MapEntries \in Nat, MaxFiles \in Nat,
         None \notin {"walk-cap", "read-error", "api-truncated"}, [Repo!Next]_(Repo!vars)
  PROVE  RepoInv'
<1> USE DEF Repo!answer
<1>1. ASSUME NEW c \in MapCalls, Repo!Ask(c) PROVE RepoInv'
  <2>1. CASE Repo!Answer(c, MapEntries, "recursive", None, "tree")
    BY <1>1, <2>1, RepoAnswers DEF Repo!Ask
  <2>2. CASE repo_at' = [repo_at EXCEPT ![c] = "clone"] /\ UNCHANGED Repo!answer
    BY <1>1, <2>2 DEF Repo!Ask, RepoInv, Repo!CountsHonest
  <2> QED
    BY <1>1, <2>1, <2>2 DEF Repo!Ask
<1>2. ASSUME NEW c \in MapCalls, Repo!Clone(c) PROVE RepoInv'
  <2>1. Kind[c] \in Repo!Kinds
    BY DEF Repo!Kinds
  <2>2. /\ repo_at[c] = "clone" /\ repo_dir[Kind[c]] = "empty"
        /\ repo_at' = [repo_at EXCEPT ![c] = "cloning"] /\ repo_dir' = [repo_dir EXCEPT ![Kind[c]] = "filling"]
        /\ UNCHANGED <<repo_seen, repo_scope, repo_bound>>
    BY <1>2 DEF Repo!Clone
  <2>3. Repo!CountsHonest'
    BY <2>2 DEF RepoInv, Repo!CountsHonest
  <2> QED
    BY <2>1, <2>2, <2>3 DEF RepoInv
<1>3. ASSUME NEW c \in MapCalls, Repo!CloneRefused(c) PROVE RepoInv'
  BY <1>3 DEF Repo!CloneRefused, Repo!Refused, RepoInv, Repo!CountsHonest
<1>4. ASSUME NEW c \in MapCalls, Repo!CloneEnds(c) \/ Repo!Killed(c) PROVE RepoInv'
  <2>1. Kind[c] \in Repo!Kinds
    BY DEF Repo!Kinds
  <2>2. PICK to \in {"cloned", "refused", "dead"}, d \in {"whole", "empty", "part"} :
           /\ repo_at[c] = "cloning" /\ (to = "cloned" => d = "whole")
           /\ repo_at' = [repo_at EXCEPT ![c] = to] /\ repo_dir' = [repo_dir EXCEPT ![Kind[c]] = d]
           /\ UNCHANGED <<repo_seen, repo_scope, repo_bound>>
    BY <1>4 DEF Repo!CloneEnds, Repo!Killed
  <2>3. Repo!CountsHonest'
    BY <2>2 DEF RepoInv, Repo!CountsHonest
  <2>4. ASSUME NEW e \in MapCalls, e # c
        PROVE  /\ repo_at'[e] = repo_at[e]
               /\ repo_at[e] = "cloning" \/ repo_at[e] = "cloned" => repo_dir'[Kind[e]] = repo_dir[Kind[e]]
    BY <2>1, <2>2, <2>4 DEF RepoInv
  <2>5. repo_at'[c] = to /\ repo_dir'[Kind[c]] = d
    BY <2>1, <2>2 DEF RepoInv
  <2>6. repo_at' = [e \in MapCalls |-> repo_at'[e]] /\ repo_dir' = [k \in Repo!Kinds |-> repo_dir'[k]]
    BY <2>2 DEF RepoInv
  <2> QED
    BY <2>2, <2>3, <2>4, <2>5, <2>6 DEF RepoInv
<1>5. ASSUME NEW c \in MapCalls, Repo!Walk(c) PROVE RepoInv'
  <2>1. PICK n \in 0 .. MapEntries, failed \in BOOLEAN :
           /\ ~failed => IF repo_dir[Kind[c]] = "whole" THEN n = MapEntries ELSE n < MapEntries
           /\ Repo!Answer(c, IF n < MaxFiles THEN n ELSE MaxFiles, "recursive", Repo!WalkBound(n, failed), "clone")
    BY <1>5 DEF Repo!Walk
  <2>2. repo_at[c] = "cloned" /\ repo_dir[Kind[c]] = "whole" /\ UNCHANGED repo_dir
    BY <1>5 DEF Repo!Walk, RepoInv
  <2> DEFINE m == IF n < MaxFiles THEN n ELSE MaxFiles
  <2>3. /\ m \in Nat /\ m <= MapEntries /\ (Repo!WalkBound(n, failed) = None => m = MapEntries)
        /\ Repo!WalkBound(n, failed) = "walk-cap" => m < MapEntries
    BY <2>1, <2>2 DEF Repo!WalkBound
  <2> QED
    BY <2>1, <2>2, <2>3, RepoAnswers
<1>6. ASSUME NEW c \in MapCalls, Repo!Show(c) \/ Repo!FromApi(c) PROVE RepoInv'
  <2>1. PICK n \in {0, MapEntries}, s \in {"recursive", "root"}, v \in {"clone", "api", "error"} :
           Repo!Answer(c, n, s, None, v)
    BY <1>6 DEF Repo!Show, Repo!FromApi
  <2>2. Kind[c] = "fetch" /\ UNCHANGED repo_dir
    BY <1>6 DEF Repo!Show, Repo!FromApi
  <2> QED
    BY <2>1, <2>2, RepoAnswers
<1>7. ASSUME NEW c \in MapCalls, Repo!WithoutClone(c) PROVE RepoInv'
  <2>1. CASE Repo!Answer(c, 0, "recursive", "api-truncated", "tree")
    BY <1>7, <2>1, RepoAnswers DEF Repo!WithoutClone
  <2>2. CASE \E n \in 0 .. MapEntries : Repo!Answer(c, n, "root", None, "contents")
    BY <1>7, <2>2, RepoAnswers DEF Repo!WithoutClone
  <2> QED
    BY <1>7, <2>1, <2>2 DEF Repo!WithoutClone
<1>8. CASE Repo!Done \/ UNCHANGED Repo!vars
  BY <1>8 DEF Repo!Done, Repo!vars, RepoInv, Repo!CountsHonest
<1> QED
  BY <1>1, <1>2, <1>3, <1>4, <1>5, <1>6, <1>7, <1>8 DEF Repo!Next

\* The page of an answer is the page that was asked for, as it is now: never
\* the copy of an older version or a bot check; it is made by a tool that has
\* read first what it needs, and is loaded again when that failed (lazy.ts).
\* What the answer leaves out is whole in a place that it names, and a map of
\* a repository that calls itself whole is.
RightPage ==
    /\ Cache!NotModifiedIsPage /\ Pull!NoBotPage
    /\ Tool!RunsReady /\ Tool!FailureRetried
    /\ Reply!WholeSomewhere /\ Repo!CountsHonest

\* The page of an answer is the page as it is, and what is left out of it is
\* whole elsewhere: for any number of pages, calls, tools, files and entries,
\* for calls that are each alone with their page and ask for all of it ("part"),
\* sites that are up, a text that does not come from a 304, and tools that the
\* host loads. The constants that say so are given in the INSTANCEs above.
THEOREM AnswersAreRight ==
  ASSUME "part" \notin CacheUses, ToolOf \in [Calls -> Tools], MapEntries \in Nat, MaxFiles \in Nat,
         None \notin {"whole", "walk-cap", "read-error", "api-truncated"}
  PROVE  Cache!Spec /\ Pull!Spec /\ Tool!Spec /\ Reply!Spec /\ Repo!Spec => []RightPage
<1> DEFINE All == CacheInv /\ CallInv /\ PullInv /\ ToolInv /\ ReplyInv /\ RepoInv
<1>1. Cache!Init /\ Pull!Init /\ Tool!Init /\ Reply!Init /\ Repo!Init => All
  BY CacheInit, PullInit, ToolInit, ReplyInit, RepoInit
<1>2. All /\ [Cache!Next]_(Cache!vars) /\ [Pull!Next]_(Pull!vars) /\ [Tool!Next]_(Tool!vars)
          /\ [Reply!Next]_(Reply!vars) /\ [Repo!Next]_(Repo!vars) => All'
  BY CacheStep, PullStep, ToolStep, ReplyStep, RepoStep
<1>3. All => RightPage
  BY DEF CacheInv, PullInv, ToolInv, Ready, Tool!RunsReady, Tool!FailureRetried, ReplyInv, RepoInv, RightPage
<1> HIDE DEF All
<1> QED
  BY <1>1, <1>2, <1>3, PTL DEF Cache!Spec, Pull!Spec, Tool!Spec, Reply!Spec, Repo!Spec

-----------------------------------------------------------------------------
(* WebSearch, EngineSearch, Research *)

\* A search that goes on to its answer while Reddit's lane is behind its gate is
\* past its target, so that the lane makes no request any more: what is known of
\* Reddit when the answer is given stays true of it.
RedditOf(s) ==
    /\ web_lane[s]["reddit"] = "gate" => ~web_asked[s] /\ web_rstatus[s] = "pending"
    /\ web_lane[s]["reddit"] = "run" => web_asked[s] /\ web_rstatus[s] = "pending"
    /\ web_lane[s]["reddit"] = "done" =>
          IF web_asked[s] THEN web_rstatus[s] # "disabled" ELSE web_rstatus[s] = "disabled"
    /\ web_tool[s] = "new" => web_lane[s]["reddit"] = "off" /\ ~web_asked[s]
    /\ web_tool[s] # "answered" => web_told[s] = None
    /\ web_tool[s] \in {"grace", "answered"} =>
          web_clock[s] >= 1 \/ web_lane[s]["reddit"] \in {"off", "done"}
    /\ web_told[s] # None /\ web_lane[s]["reddit"] # "off" =>
          /\ web_told[s].reddit = "timeout" => web_asked[s]
          /\ web_told[s].reddit = "disabled" => ~web_asked[s]

WebTypes ==
    /\ web_tool \in [Searches -> {"new", "collect", "grace", "answered"}]
    /\ web_clock \in [Searches -> 0 .. 2] /\ web_asked \in [Searches -> BOOLEAN]
    /\ web_lane \in [Searches -> [Web!Lanes -> {"off", "gate", "run", "done"}]]
    /\ web_rstatus = [s \in Searches |-> web_rstatus[s]] /\ web_told = [s \in Searches |-> web_told[s]]

WebInv == WebTypes /\ \A s \in Searches : RedditOf(s)

LEMMA WebInit == ASSUME Web!Init PROVE WebInv
  BY DEF Web!Init, WebInv, WebTypes, RedditOf, Web!Lanes, Web!Collected

\* A step of one search leaves the others as they were.
OthersStay(s) ==
    \A q \in Searches \ {s} :
        /\ web_tool'[q] = web_tool[q] /\ web_clock'[q] = web_clock[q] /\ web_lane'[q] = web_lane[q]
        /\ web_rstatus'[q] = web_rstatus[q] /\ web_asked'[q] = web_asked[q] /\ web_told'[q] = web_told[q]

LEMMA OneSearch ==
  ASSUME WebInv, NEW s \in Searches, WebTypes', OthersStay(s), RedditOf(s)'
  PROVE  WebInv'
<1>1. ASSUME NEW q \in Searches, q # s PROVE RedditOf(q)'
  BY <1>1 DEF WebInv, RedditOf, OthersStay
<1> QED
  BY <1>1 DEF WebInv

LEMMA WebStep == ASSUME WebInv, [Web!Next]_(Web!vars) PROVE WebInv'
<1> USE DEF Web!Lanes, Web!Collected
<1>1. ASSUME NEW s \in Searches, Web!Begin(s) \/ Web!GoogleEnds(s) \/ Web!RedditGate(s) \/ Web!RedditEnds(s)
                                 \/ (\E l \in Web!Lanes : Web!OtherEnds(s, l))
                                 \/ Web!Timer(s) \/ Web!Collect(s) \/ Web!Answer(s)
      PROVE  WebInv'
  <2> DEFINE L == web_lane[s]
  <2>1. /\ web_tool[s] \in {"new", "collect", "grace", "answered"} /\ web_clock[s] \in 0 .. 2
        /\ L \in [Web!Lanes -> {"off", "gate", "run", "done"}] /\ web_asked[s] \in BOOLEAN
        /\ RedditOf(s)
    BY DEF WebInv, WebTypes
  <2>3. CASE Web!Begin(s)
    <3>1. PICK google \in BOOLEAN, reddit \in BOOLEAN, l \in [Web!Lanes -> {"off", "gate", "run", "done"}] :
             /\ web_lane' = [web_lane EXCEPT ![s] = l]
             /\ l["reddit"] = (IF reddit THEN "gate" ELSE "off")
             /\ web_rstatus' = [web_rstatus EXCEPT ![s] = IF reddit THEN "pending" ELSE "disabled"]
      BY <2>3 DEF Web!Begin
    <3>2. /\ web_tool[s] = "new" /\ web_tool' = [web_tool EXCEPT ![s] = "collect"]
          /\ UNCHANGED <<web_clock, web_asked, web_told>>
      BY <2>3 DEF Web!Begin
    <3>3. RedditOf(s)'
      BY <2>1, <3>1, <3>2 DEF RedditOf, WebInv, WebTypes
    <3>9. WebTypes' /\ OthersStay(s)
      BY <2>1, <3>1, <3>2 DEF WebInv, WebTypes, OthersStay
    <3> QED
      BY <3>3, <3>9, OneSearch
  <2>4. CASE Web!GoogleEnds(s) \/ (\E l \in Web!Lanes : Web!OtherEnds(s, l))
    <3>1. PICK l \in {"google", "http", "bonus"} : web_lane' = [web_lane EXCEPT ![s] = [L EXCEPT ![l] = "done"]]
      BY <2>4 DEF Web!GoogleEnds, Web!OtherEnds, Web!Ends
    <3>2. UNCHANGED <<web_tool, web_clock, web_rstatus, web_asked, web_told>>
      BY <2>4 DEF Web!GoogleEnds, Web!OtherEnds
    <3>3. [L EXCEPT ![l] = "done"] \in [Web!Lanes -> {"off", "gate", "run", "done"}]
      BY <2>1
    <3>4. [L EXCEPT ![l] = "done"]["reddit"] = L["reddit"] /\ web_lane'[s] = [L EXCEPT ![l] = "done"]
      BY <2>1, <3>1 DEF WebInv, WebTypes
    <3>5. RedditOf(s)'
      BY <2>1, <3>2, <3>4 DEF RedditOf
    <3>9. WebTypes' /\ OthersStay(s)
      BY <2>1, <3>1, <3>2, <3>3 DEF WebInv, WebTypes, OthersStay
    <3> QED
      BY <3>5, <3>9, OneSearch
  <2>5. CASE Web!RedditGate(s)
    <3>1. /\ L["reddit"] = "gate" /\ UNCHANGED <<web_tool, web_clock, web_told>>
      BY <2>5 DEF Web!RedditGate
    <3>2. CASE web_clock[s] >= 1
      <4>1. /\ web_lane' = [web_lane EXCEPT ![s] = [L EXCEPT !["reddit"] = "done"]]
            /\ web_rstatus' = [web_rstatus EXCEPT ![s] = "disabled"] /\ UNCHANGED web_asked
        BY <2>5, <3>2 DEF Web!RedditGate, Web!RedditStarts, Web!Ends
      <4>2. /\ [L EXCEPT !["reddit"] = "done"] \in [Web!Lanes -> {"off", "gate", "run", "done"}]
            /\ web_lane'[s]["reddit"] = "done" /\ web_rstatus'[s] = "disabled"
        BY <2>1, <4>1 DEF WebInv, WebTypes
      <4>3. RedditOf(s)'
        BY <2>1, <3>1, <4>1, <4>2 DEF RedditOf
      <4>9. WebTypes' /\ OthersStay(s)
        BY <2>1, <3>1, <4>1, <4>2 DEF WebInv, WebTypes, OthersStay
      <4> QED
        BY <4>3, <4>9, OneSearch
    <3>3. CASE ~(web_clock[s] >= 1)
      <4>1. /\ web_lane' = [web_lane EXCEPT ![s] = [L EXCEPT !["reddit"] = "run"]]
            /\ web_asked' = [web_asked EXCEPT ![s] = TRUE] /\ UNCHANGED web_rstatus
        BY <2>5, <3>3 DEF Web!RedditGate, Web!RedditStarts
      <4>2. /\ [L EXCEPT !["reddit"] = "run"] \in [Web!Lanes -> {"off", "gate", "run", "done"}]
            /\ web_lane'[s]["reddit"] = "run" /\ web_asked'[s] = TRUE
        BY <2>1, <4>1 DEF WebInv, WebTypes
      <4>3. web_tool[s] \notin {"grace", "answered"} /\ web_told[s] = None
        BY <2>1, <3>1, <3>3 DEF RedditOf
      <4>4. RedditOf(s)'
        BY <2>1, <3>1, <4>1, <4>2, <4>3 DEF RedditOf
      <4>9. WebTypes' /\ OthersStay(s)
        BY <2>1, <3>1, <4>1, <4>2 DEF WebInv, WebTypes, OthersStay
      <4> QED
        BY <4>4, <4>9, OneSearch
    <3> QED
      BY <3>2, <3>3
  <2>6. CASE Web!RedditEnds(s)
    <3>1. PICK r \in {"ok", "empty", "unavailable", "timeout", "error"} :
             /\ web_lane' = [web_lane EXCEPT ![s] = [L EXCEPT !["reddit"] = "done"]]
             /\ web_rstatus' = [web_rstatus EXCEPT ![s] = r]
      BY <2>6 DEF Web!RedditEnds, Web!Ends
    <3>2. L["reddit"] = "run" /\ UNCHANGED <<web_tool, web_clock, web_asked, web_told>>
      BY <2>6 DEF Web!RedditEnds
    <3>3. /\ [L EXCEPT !["reddit"] = "done"] \in [Web!Lanes -> {"off", "gate", "run", "done"}]
          /\ web_lane'[s]["reddit"] = "done" /\ web_rstatus'[s] = r
      BY <2>1, <3>1 DEF WebInv, WebTypes
    <3>4. RedditOf(s)'
      BY <2>1, <3>2, <3>3 DEF RedditOf
    <3>9. WebTypes' /\ OthersStay(s)
      BY <2>1, <3>1, <3>2, <3>3 DEF WebInv, WebTypes, OthersStay
    <3> QED
      BY <3>4, <3>9, OneSearch
  <2>7. CASE Web!Timer(s)
    <3>1. /\ web_clock' = [web_clock EXCEPT ![s] = web_clock[s] + 1] /\ web_clock[s] + 1 \in 0 .. 2
          /\ UNCHANGED <<web_tool, web_lane, web_rstatus, web_asked, web_told>>
      BY <2>1, <2>7 DEF Web!Timer
    <3>2. web_clock'[s] = web_clock[s] + 1
      BY <3>1 DEF WebInv, WebTypes
    <3>3. RedditOf(s)'
      BY <2>1, <3>1, <3>2 DEF RedditOf
    <3>9. WebTypes' /\ OthersStay(s)
      BY <2>1, <3>1 DEF WebInv, WebTypes, OthersStay
    <3> QED
      BY <3>3, <3>9, OneSearch
  <2>8. CASE Web!Collect(s)
    <3>1. /\ web_clock[s] >= 1 \/ L["reddit"] \in {"off", "done"}
          /\ web_tool[s] = "collect" /\ web_tool' = [web_tool EXCEPT ![s] = "grace"]
          /\ UNCHANGED <<web_clock, web_lane, web_rstatus, web_asked, web_told>>
      BY <2>8 DEF Web!Collect, Web!Done
    <3>2. RedditOf(s)'
      BY <2>1, <3>1 DEF RedditOf, WebInv, WebTypes
    <3>9. WebTypes' /\ OthersStay(s)
      BY <2>1, <3>1 DEF WebInv, WebTypes, OthersStay
    <3> QED
      BY <3>2, <3>9, OneSearch
  <2>9. CASE Web!Answer(s)
    <3>1. /\ web_tool[s] = "grace" /\ web_tool' = [web_tool EXCEPT ![s] = "answered"]
          /\ UNCHANGED <<web_clock, web_lane, web_rstatus, web_asked>>
      BY <2>9 DEF Web!Answer
    <3>2. PICK made \in BOOLEAN :
             web_told' = [web_told EXCEPT ![s] = [google |-> Web!GoogleTold(s, made), reddit |-> Web!RedditTold(s)]]
      BY <2>9 DEF Web!Answer
    <3>3. web_told'[s].reddit = Web!RedditTold(s) /\ web_tool'[s] = "answered"
      BY <3>1, <3>2 DEF WebInv, WebTypes
    <3>4. L["reddit"] # "off" =>
             /\ Web!RedditTold(s) = "timeout" => web_asked[s] \/ web_rstatus[s] = "timeout"
             /\ Web!RedditTold(s) = "disabled" => ~web_asked[s] \/ web_rstatus[s] = "disabled"
      BY DEF Web!RedditTold
    <3>5. L["reddit"] # "off" =>
             /\ web_rstatus[s] = "timeout" => web_asked[s]
             /\ web_rstatus[s] = "disabled" => ~web_asked[s]
      BY <2>1 DEF RedditOf
    <3>6. RedditOf(s)'
      BY <2>1, <3>1, <3>3, <3>4, <3>5 DEF RedditOf
    <3>9. WebTypes' /\ OthersStay(s)
      BY <2>1, <3>1, <3>2 DEF WebInv, WebTypes, OthersStay
    <3> QED
      BY <3>6, <3>9, OneSearch
  <2> QED
    BY <1>1, <2>3, <2>4, <2>5, <2>6, <2>7, <2>8, <2>9
<1>2. CASE Web!Time \/ UNCHANGED Web!vars
  BY <1>2 DEF Web!Time, Web!vars, WebInv, WebTypes, RedditOf
<1> QED
  BY <1>1, <1>2 DEF Web!Next

\* No engine answers a search that is done.
EngineInv ==
    /\ engine_phase = [s \in Lookups |-> engine_phase[s]] /\ engine_found = [s \in Lookups |-> engine_found[s]]
    /\ engine_answer = [s \in Lookups |-> [e \in Engines |-> engine_answer[s][e]]]
    /\ engine_hits = [s \in Lookups |-> [e \in Engines |-> engine_hits[s][e]]]
    /\ \A s \in Lookups :
          /\ engine_phase[s] = "new" => \A e \in Engines : engine_answer[s][e] = None
          /\ engine_phase[s] # "asking" => \A e \in Engines : engine_answer[s][e] # "asked"
    /\ Engine!Corroborated

LEMMA EngineInit == ASSUME None # "asked", Engine!Init PROVE EngineInv
  BY DEF Engine!Init, EngineInv, Engine!Corroborated

LEMMA EngineStep == ASSUME None # "asked", EngineInv, [Engine!Next]_(Engine!vars) PROVE EngineInv'
<1> USE DEF EngineInv, Engine!Corroborated
<1>1. ASSUME NEW s \in Lookups, Engine!Cached(s) PROVE EngineInv'
  BY <1>1 DEF Engine!Cached
<1>2. ASSUME NEW s \in Lookups, Engine!Ask(s) PROVE EngineInv'
  BY <1>2 DEF Engine!Ask
<1>3. ASSUME NEW s \in Lookups, NEW e \in Engines,
             NEW status \in {"read", "quota", "http", "unreached", "error", "timeout"},
             engine_answer[s][e] = "asked",
             engine_answer' = [engine_answer EXCEPT ![s][e] = status],
             UNCHANGED <<engine_phase, engine_found>>,
             \/ UNCHANGED engine_hits
             \/ \E us : engine_hits' = [engine_hits EXCEPT ![s][e] = us]
      PROVE  EngineInv'
  <2>1. engine_phase[s] = "asking"
    BY <1>3
  <2>2. \A q \in Lookups : q # s =>
           engine_answer'[q] = engine_answer[q] /\ engine_hits'[q] = engine_hits[q]
    BY <1>3, <2>1
  <2>3. /\ engine_answer' = [q \in Lookups |-> [f \in Engines |-> engine_answer'[q][f]]]
        /\ engine_hits' = [q \in Lookups |-> [f \in Engines |-> engine_hits'[q][f]]]
    BY <1>3, <2>1
  <2>4. \A f \in Engines : engine_answer'[s][f] \in {engine_answer[s][f], status}
    BY <1>3, <2>1
  <2>5. ASSUME NEW q \in Lookups
        PROVE  /\ engine_phase'[q] = "new" => \A f \in Engines : engine_answer'[q][f] = None
               /\ engine_phase'[q] # "asking" => \A f \in Engines : engine_answer'[q][f] # "asked"
    BY <1>3, <2>1, <2>2
  <2>6. Engine!Corroborated'
    <3>1. ASSUME NEW q \in Lookups, engine_phase'[q] = "done" PROVE q # s
      BY <1>3, <2>1, <3>1
    <3> QED
      BY <1>3, <2>1, <2>2, <3>1
  <2> QED
    BY <1>3, <2>1, <2>3, <2>5, <2>6
<1>4. ASSUME NEW s \in Lookups, Engine!Merge(s) PROVE EngineInv'
  <2>1. /\ engine_phase[s] = "asking" /\ engine_phase' = [engine_phase EXCEPT ![s] = "done"]
        /\ \A e \in Engines : engine_answer[s][e] # "asked"
        /\ engine_found' = [engine_found EXCEPT ![s] = [u \in Hits |-> Engine!Finders(s, u)]]
        /\ UNCHANGED <<engine_answer, engine_hits>>
    BY <1>4 DEF Engine!Merge
  <2>2. engine_found'[s] = [u \in Hits |-> Engine!Finders(s, u)]
    BY <2>1
  <2>3. \A e \in Engines, u \in Hits : e \in engine_found'[s][u] <=> u \in engine_hits[s][e]
    BY <2>2 DEF Engine!Finders
  <2>4. \A q \in Lookups : q # s => engine_found'[q] = engine_found[q] /\ engine_phase'[q] = engine_phase[q]
    BY <2>1
  <2>5. Engine!Corroborated'
    BY <2>1, <2>3, <2>4
  <2>6. engine_phase'[s] = "done" /\ engine_found' = [q \in Lookups |-> engine_found'[q]]
        /\ engine_phase' = [q \in Lookups |-> engine_phase'[q]]
    BY <2>1
  <2>7. ASSUME NEW q \in Lookups
        PROVE  /\ engine_phase'[q] = "new" => \A e \in Engines : engine_answer'[q][e] = None
               /\ engine_phase'[q] # "asking" => \A e \in Engines : engine_answer'[q][e] # "asked"
    BY <2>1, <2>4, <2>6
  <2> HIDE DEF Engine!Corroborated
  <2> QED
    BY <2>1, <2>5, <2>6, <2>7
<1>5. CASE Engine!Tick \/ Engine!Done \/ UNCHANGED Engine!vars
  BY <1>5 DEF Engine!Tick, Engine!Done, Engine!vars
<1>6. ASSUME NEW s \in Lookups, NEW e \in Engines, NEW status \in {"error", "timeout"}, Engine!Fails(s, e, status)
      PROVE  EngineInv'
  <2>1. /\ engine_answer[s][e] = "asked" /\ engine_answer' = [engine_answer EXCEPT ![s][e] = status]
        /\ UNCHANGED <<engine_phase, engine_found, engine_hits>>
    BY <1>6 DEF Engine!Fails
  <2> HIDE DEF EngineInv
  <2> QED
    BY <1>3, <2>1
<1>7. ASSUME NEW s \in Lookups, NEW e \in Engines, NEW status \in {"read", "quota", "http", "unreached"},
             NEW us \in SUBSET Hits, Engine!Answers(s, e, status, us)
      PROVE  EngineInv'
  <2>1. /\ engine_answer[s][e] = "asked" /\ engine_answer' = [engine_answer EXCEPT ![s][e] = status]
        /\ UNCHANGED <<engine_phase, engine_found>>
        /\ engine_hits' = [engine_hits EXCEPT ![s][e] = us]
    BY <1>7 DEF Engine!Answers
  <2> HIDE DEF EngineInv
  <2> QED
    BY <1>3, <2>1
<1> HIDE DEF EngineInv, Engine!Corroborated
<1>8. ASSUME NEW s \in Lookups, Engine!Deadline(s) PROVE EngineInv'
  BY <1>6, <1>8 DEF Engine!Deadline
<1>9. ASSUME NEW s \in Lookups, NEW e \in Engines,
             \E status \in {"read", "quota", "http", "unreached"}, us \in SUBSET Hits : Engine!Answers(s, e, status, us)
      PROVE  EngineInv'
  BY <1>7, <1>9
<1>10. CASE Engine!Next
  BY <1>1, <1>2, <1>4, <1>5, <1>6, <1>8, <1>9, <1>10 DEF Engine!Next
<1> QED
  BY <1>5, <1>10

\* The ranks below the next one are those that were taken: each has a record, or
\* a worker, or had one that died with the run.
Working(w) == notes_step[w] \in {"auto", "browser", "save"}

RanksInv ==
    /\ notes_next \in Nat \ {0} /\ notes_next <= Notes!ToFetch + 1
    /\ notes_step \in [Workers -> {"idle", "auto", "browser", "save", "dead"}]
    /\ notes_at = [w \in Workers |-> notes_at[w]]
    /\ notes_records = [i \in Notes!Ranks |-> notes_records[i]]
    /\ \A w \in Workers : Working(w) => notes_at[w] \in 1 .. notes_next - 1
    /\ Notes!Fetched \subseteq 1 .. notes_next - 1
    /\ notes_phase # "failed" =>
          /\ \A w \in Workers : notes_step[w] # "dead"
          /\ \A i \in 1 .. notes_next - 1 :
                i \in Notes!Fetched \/ \E w \in Workers : Working(w) /\ notes_at[w] = i
    /\ notes_phase = "new" => notes_next = 1
    /\ notes_phase \in {"new", "write", "told"} => \A w \in Workers : ~Working(w)
    /\ notes_phase \in {"write", "told"} => notes_next > Notes!ToFetch
    /\ notes_phase = "failed" => DiskFails

\* The file of a source that was saved keeps the text of that source: another
\* rank is another name. What a bundle cites is there until the next run saves.
CitedKept == \A c \in notes_cited : \E f \in notes_files : f.name = c.file /\ f.url = c.url

SavedInv ==
    /\ notes_saves \in BOOLEAN
    /\ \A w \in Workers : notes_step[w] = "save" => notes_saves
    /\ \A i \in Notes!Answered : notes_saves =>
          /\ notes_records[i].url = Notes!Source(i)
          /\ notes_records[i].file = Notes!Name(i, Notes!Source(i))
          /\ [name |-> Notes!Name(i, Notes!Source(i)), url |-> Notes!Source(i)] \in notes_files
    /\ notes_phase \in {"new", "told"} \/ ~notes_saves => CitedKept
    /\ ~SameDir /\ notes_phase # "told" => notes_cited = {}

NotesAssumption ==
    /\ IsFiniteSet(Pages) /\ MaxSources \in Nat /\ ~(SameDir /\ DiskFails)
    /\ \A u, c, f : [url |-> u, class |-> c, file |-> f] # None

LEMMA SameSize == ASSUME NEW S PROVE Notes!Cardinality(S) = Cardinality(S)
  BY DEF Notes!Cardinality, Cardinality

LEMMA FetchLimit ==
  ASSUME NotesAssumption, NEW fs
  PROVE  /\ Notes!Min({Notes!Cardinality(Notes!Merged(fs)), MaxSources}) \in Nat
         /\ Notes!Min({Notes!Cardinality(Notes!Merged(fs)), MaxSources}) <= MaxSources
<1> DEFINE c == Notes!Cardinality(Notes!Merged(fs))
<1>1. c \in Nat
  <2>1. Notes!Merged(fs) \in SUBSET Pages
    BY DEF Notes!Merged
  <2> QED
    BY <2>1, SameSize, FS_Subset, FS_CardinalityType DEF NotesAssumption
<1> HIDE DEF c
<1>2. \E x \in {c, MaxSources} : \A y \in {c, MaxSources} : x <= y
  BY <1>1 DEF NotesAssumption
<1>3. /\ Notes!Min({c, MaxSources}) \in {c, MaxSources}
      /\ \A y \in {c, MaxSources} : Notes!Min({c, MaxSources}) <= y
  BY <1>2 DEF Notes!Min
<1>4. Notes!Min({c, MaxSources}) \in Nat /\ Notes!Min({c, MaxSources}) <= MaxSources
  BY <1>1, <1>3 DEF NotesAssumption
<1> QED
  BY <1>4 DEF c

LEMMA FetchLimits ==
  ASSUME NotesAssumption
  PROVE  Notes!ToFetch \in Nat /\ Notes!ToFetch <= MaxSources /\ Notes!ToFetch' \in Nat
  BY FetchLimit DEF Notes!ToFetch

LEMMA NotesInit == ASSUME NotesAssumption, Notes!Init PROVE RanksInv /\ SavedInv
<1>1. Notes!ToFetch \in Nat
  BY FetchLimits
<1>2. Notes!Fetched = {}
  BY DEF Notes!Init, Notes!Fetched
<1>3. RanksInv
  BY <1>1, <1>2 DEF Notes!Init, RanksInv, Working
<1>4. SavedInv
  BY <1>2 DEF Notes!Init, SavedInv, CitedKept, Notes!Answered
<1> QED
  BY <1>3, <1>4

\* A record ends the work on its rank; all the others are as they were.
LEMMA RecordMade ==
  ASSUME NotesAssumption, RanksInv, SavedInv, NEW w \in Workers, NEW class, NEW file, Working(w),
         Notes!Record(w, class, file),
         UNCHANGED <<notes_phase, notes_saves, notes_found, notes_next, notes_cited>>,
         notes_saves /\ class = "ok" =>
            /\ file = Notes!Name(notes_at[w], Notes!Source(notes_at[w]))
            /\ notes_files' = {f \in notes_files : f.name # file}
                                 \cup {[name |-> file, url |-> Notes!Source(notes_at[w])]},
         ~(notes_saves /\ class = "ok") => UNCHANGED notes_files
  PROVE  RanksInv' /\ SavedInv'
<1> DEFINE i == notes_at[w]
           r == [url |-> Notes!Source(i), class |-> class, file |-> file]
<1>1. i \in 1 .. notes_next - 1 /\ i \in Notes!Ranks
  <2>1. i \in 1 .. notes_next - 1 /\ notes_next \in Nat /\ notes_next <= Notes!ToFetch + 1
    BY DEF RanksInv
  <2> QED
    BY <2>1, FetchLimits DEF Notes!Ranks, NotesAssumption
<1>2. /\ notes_records' = [notes_records EXCEPT ![i] = r] /\ notes_step' = [notes_step EXCEPT ![w] = "idle"]
      /\ notes_at' = [notes_at EXCEPT ![w] = None]
  BY DEF Notes!Record
<1>3. /\ notes_records'[i] = r /\ r # None
      /\ \A j \in Notes!Ranks : j # i => notes_records'[j] = notes_records[j]
      /\ notes_records' = [j \in Notes!Ranks |-> notes_records'[j]]
  BY <1>1, <1>2 DEF RanksInv, NotesAssumption
<1>4. Notes!Fetched' = Notes!Fetched \cup {i}
  <2> HIDE DEF i, r
  <2> QED
    BY <1>1, <1>3 DEF Notes!Fetched
<1>5. /\ ~Working(w)' /\ notes_step'[w] = "idle"
      /\ \A v \in Workers : v # w => notes_step'[v] = notes_step[v] /\ notes_at'[v] = notes_at[v]
      /\ \A v \in Workers : v # w => (Working(v)' <=> Working(v))
      /\ notes_step' \in [Workers -> {"idle", "auto", "browser", "save", "dead"}]
      /\ notes_at' = [v \in Workers |-> notes_at'[v]]
  BY <1>2 DEF RanksInv, Working
<1>6. Notes!ToFetch' = Notes!ToFetch /\ \A j : Notes!Source(j)' = Notes!Source(j)
  BY DEF Notes!ToFetch, Notes!Source
<1>7. RanksInv'
  <2> HIDE DEF i, r
  <2>1. ASSUME NEW j \in 1 .. notes_next - 1, notes_phase # "failed"
        PROVE  j \in Notes!Fetched' \/ \E v \in Workers : Working(v)' /\ notes_at'[v] = j
    <3>1. CASE j = i \/ j \in Notes!Fetched
      BY <1>4, <3>1
    <3>2. CASE j # i /\ j \notin Notes!Fetched
      <4>1. PICK v \in Workers : Working(v) /\ notes_at[v] = j
        BY <2>1, <3>2 DEF RanksInv
      <4> QED
        BY <1>5, <3>2, <4>1 DEF i
    <3> QED
      BY <3>1, <3>2
  <2>2. \A v \in Workers : Working(v)' => notes_at'[v] \in 1 .. notes_next' - 1
    BY <1>5 DEF RanksInv
  <2>3. notes_phase' # "failed" => \A v \in Workers : notes_step'[v] # "dead"
    BY <1>5 DEF RanksInv
  <2>4. notes_phase' \notin {"new", "write", "told"}
    BY DEF RanksInv
  <2> QED
    BY <1>1, <1>3, <1>4, <1>5, <1>6, <2>1, <2>2, <2>3, <2>4 DEF RanksInv
<1>8. ASSUME NEW j \in Notes!Answered', notes_saves
      PROVE  /\ notes_records'[j].url = Notes!Source(j)
             /\ notes_records'[j].file = Notes!Name(j, Notes!Source(j))
             /\ [name |-> Notes!Name(j, Notes!Source(j)), url |-> Notes!Source(j)] \in notes_files'
  <2> DEFINE e == [name |-> Notes!Name(j, Notes!Source(j)), url |-> Notes!Source(j)]
  <2>1. CASE j = i
    <3>1. class = "ok"
      BY <1>3, <1>8, <2>1 DEF Notes!Answered
    <3> QED
      BY <1>3, <1>8, <2>1, <3>1
  <2>2. CASE j # i
    <3>1. j \in Notes!Ranks /\ j \in Notes!Answered
      BY <1>3, <1>4, <1>8, <2>2 DEF Notes!Answered, Notes!Fetched
    <3>2. /\ notes_records[j].url = Notes!Source(j) /\ notes_records[j].file = Notes!Name(j, Notes!Source(j))
          /\ e \in notes_files /\ notes_records'[j] = notes_records[j]
      BY <1>3, <1>8, <2>2, <3>1 DEF SavedInv
    <3>3. Notes!Name(j, Notes!Source(j)) # Notes!Name(i, Notes!Source(i))
      BY <2>2 DEF Notes!Name
    <3>4. e \in notes_files'
      <4>1. e.name = Notes!Name(j, Notes!Source(j))
        OBVIOUS
      <4> HIDE DEF e, i
      <4> QED
        BY <3>2, <3>3, <4>1 DEF i
    <3> QED
      BY <3>2, <3>4
  <2> QED
    BY <2>1, <2>2
<1>9. SavedInv'
  <2>1. notes_phase \notin {"new", "told"}
    BY DEF RanksInv
  <2>2. ~notes_saves => CitedKept'
    BY DEF SavedInv, CitedKept
  <2>3. \A v \in Workers : notes_step'[v] = "save" => notes_saves
    BY <1>5 DEF SavedInv
  <2> HIDE DEF i, r
  <2> QED
    BY <1>6, <1>8, <2>1, <2>2, <2>3 DEF SavedInv
<1> QED
  BY <1>7, <1>9

\* A worker goes on with its source, or dies with the run.
LEMMA WorkerMoves ==
  ASSUME NotesAssumption, RanksInv, SavedInv, NEW w \in Workers, NEW to \in {"browser", "save", "dead"},
         Working(w), notes_step' = [notes_step EXCEPT ![w] = to], to = "save" => notes_saves,
         IF to = "dead" THEN DiskFails /\ notes_phase' = "failed" /\ notes_at' = [notes_at EXCEPT ![w] = None]
         ELSE UNCHANGED <<notes_phase, notes_at>>,
         UNCHANGED <<notes_saves, notes_found, notes_next, notes_records, notes_files, notes_cited>>
  PROVE  RanksInv' /\ SavedInv'
<1>1. /\ notes_step'[w] = to /\ (Working(w)' <=> to # "dead")
      /\ \A v \in Workers : v # w => /\ notes_step'[v] = notes_step[v] /\ notes_at'[v] = notes_at[v]
                                     /\ Working(v)' <=> Working(v)
      /\ notes_step' \in [Workers -> {"idle", "auto", "browser", "save", "dead"}]
      /\ notes_at' = [v \in Workers |-> notes_at'[v]]
      /\ to # "dead" => notes_at'[w] = notes_at[w]
  BY DEF RanksInv, Working
<1>2. Notes!ToFetch' = Notes!ToFetch /\ Notes!Fetched' = Notes!Fetched /\ Notes!Answered' = Notes!Answered
  BY DEF Notes!ToFetch, Notes!Fetched, Notes!Answered
<1>3. \A j : Notes!Source(j)' = Notes!Source(j)
  BY DEF Notes!Source
<1>4. notes_phase \notin {"new", "write", "told"} /\ notes_phase' \notin {"new", "write", "told"}
  BY DEF RanksInv
<1>5. ASSUME NEW j \in 1 .. notes_next - 1, notes_phase' # "failed"
      PROVE  j \in Notes!Fetched \/ \E v \in Workers : Working(v)' /\ notes_at'[v] = j
  BY <1>1, <1>5 DEF RanksInv
<1>6. RanksInv'
  BY <1>1, <1>2, <1>4, <1>5 DEF RanksInv
<1>7. SavedInv'
  BY <1>1, <1>2, <1>3, <1>4 DEF SavedInv, CitedKept
<1> QED
  BY <1>6, <1>7

LEMMA NotesStep ==
  ASSUME NotesAssumption, RanksInv, SavedInv, [Notes!Next]_(Notes!vars)
  PROVE  RanksInv' /\ SavedInv'
<1>1. CASE Notes!Search
  <2>1. /\ notes_phase = "new" /\ notes_phase' = "fetch"
        /\ UNCHANGED <<notes_saves, notes_next, notes_at, notes_step, notes_records, notes_files, notes_cited>>
    BY <1>1 DEF Notes!Search
  <2>2. notes_next = 1 /\ Notes!Fetched = {} /\ Notes!Fetched' = {} /\ Notes!Answered' = {}
    BY <2>1 DEF RanksInv, Notes!Fetched, Notes!Answered
  <2>3. RanksInv'
    BY <2>1, <2>2, FetchLimits DEF RanksInv, Working
  <2> QED
    BY <2>1, <2>2, <2>3 DEF SavedInv, CitedKept
<1>2. ASSUME NEW w \in Workers, Notes!Take(w) PROVE RanksInv' /\ SavedInv'
  <2>1. /\ notes_phase \in {"fetch", "failed"} /\ notes_step[w] = "idle" /\ notes_next <= Notes!ToFetch
        /\ notes_at' = [notes_at EXCEPT ![w] = notes_next] /\ notes_next' = notes_next + 1
        /\ notes_step' = [notes_step EXCEPT ![w] = "auto"]
        /\ UNCHANGED <<notes_phase, notes_saves, notes_found, notes_records, notes_files, notes_cited>>
    BY <1>2 DEF Notes!Take
  <2>2. /\ Notes!ToFetch' = Notes!ToFetch /\ Notes!Fetched' = Notes!Fetched /\ Notes!Answered' = Notes!Answered
        /\ notes_next \in Nat \ {0} /\ Notes!ToFetch \in Nat
    BY <2>1, FetchLimits DEF Notes!ToFetch, Notes!Fetched, Notes!Answered, RanksInv
  <2>3. /\ Working(w)' /\ ~Working(w) /\ notes_at'[w] = notes_next /\ notes_step'[w] = "auto"
        /\ \A v \in Workers : v # w => /\ notes_step'[v] = notes_step[v] /\ notes_at'[v] = notes_at[v]
                                       /\ Working(v)' <=> Working(v)
        /\ notes_step' \in [Workers -> {"idle", "auto", "browser", "save", "dead"}]
        /\ notes_at' = [v \in Workers |-> notes_at'[v]]
    BY <2>1 DEF RanksInv, Working
  <2>4. \A j : Notes!Source(j)' = Notes!Source(j)
    BY <2>1 DEF Notes!Source
  <2>5. ASSUME NEW j \in 1 .. notes_next' - 1, notes_phase' # "failed"
        PROVE  j \in Notes!Fetched \/ \E v \in Workers : Working(v)' /\ notes_at'[v] = j
    <3>1. CASE j = notes_next
      BY <2>3, <3>1
    <3>2. CASE j # notes_next
      <4>1. j \in 1 .. notes_next - 1
        BY <2>1, <2>2, <3>2
      <4>2. j \in Notes!Fetched \/ \E v \in Workers : Working(v) /\ notes_at[v] = j
        BY <2>1, <2>5, <4>1 DEF RanksInv
      <4> QED
        BY <2>3, <4>2
    <3> QED
      BY <3>1, <3>2
  <2>6. 1 .. notes_next - 1 \subseteq 1 .. notes_next' - 1 /\ notes_next \in 1 .. notes_next' - 1
    BY <2>1, <2>2
  <2>7. \A v \in Workers : Working(v)' => notes_at'[v] \in 1 .. notes_next' - 1
    BY <2>3, <2>6 DEF RanksInv
  <2>8. notes_next' \in Nat \ {0} /\ notes_next' <= Notes!ToFetch + 1
    BY <2>1, <2>2
  <2>9. RanksInv'
    BY <2>1, <2>2, <2>3, <2>5, <2>6, <2>7, <2>8 DEF RanksInv
  <2>10. SavedInv'
    BY <2>1, <2>2, <2>3, <2>4 DEF SavedInv, CitedKept
  <2> QED
    BY <2>9, <2>10
<1>3. ASSUME NEW w \in Workers, Notes!Fetch(w) \/ Notes!Retry(w) PROVE RanksInv' /\ SavedInv'
  <2>1. /\ Working(w) /\ UNCHANGED <<notes_saves, notes_found, notes_next, notes_files, notes_cited>>
    BY <1>3 DEF Notes!Fetch, Notes!Retry, Working
  <2>2. CASE notes_saves /\ notes_step' = [notes_step EXCEPT ![w] = "save"]
             /\ UNCHANGED <<notes_at, notes_records, notes_phase>>
    BY <2>1, <2>2, WorkerMoves
  <2>3. CASE notes_step' = [notes_step EXCEPT ![w] = "browser"] /\ UNCHANGED <<notes_at, notes_records, notes_phase>>
    BY <2>1, <2>3, WorkerMoves
  <2>4. CASE ~notes_saves /\ Notes!Record(w, "ok", None) /\ UNCHANGED notes_phase
    BY <2>1, <2>4, RecordMade
  <2>5. CASE \E class \in {"dead", "skipped"} : Notes!Record(w, class, None) /\ UNCHANGED notes_phase
    BY <2>1, <2>5, RecordMade
  <2> QED
    BY <1>3, <2>2, <2>3, <2>4, <2>5 DEF Notes!Fetch, Notes!Retry, Notes!Got, Notes!Thrown
<1>4. ASSUME NEW w \in Workers, Notes!Save(w) PROVE RanksInv' /\ SavedInv'
  <2> DEFINE name == Notes!Name(notes_at[w], Notes!Source(notes_at[w]))
  <2>1. /\ Working(w) /\ notes_saves /\ UNCHANGED <<notes_saves, notes_found, notes_next, notes_cited>>
    BY <1>4 DEF Notes!Save, Working, SavedInv
  <2>2. CASE /\ Notes!Record(w, "ok", name) /\ UNCHANGED notes_phase
             /\ notes_files' = {f \in notes_files : f.name # name}
                                  \cup {[name |-> name, url |-> Notes!Source(notes_at[w])]}
    BY <2>1, <2>2, RecordMade
  <2>3. CASE /\ DiskFails /\ notes_phase' = "failed" /\ notes_step' = [notes_step EXCEPT ![w] = "dead"]
             /\ notes_at' = [notes_at EXCEPT ![w] = None] /\ UNCHANGED <<notes_records, notes_files>>
    BY <2>1, <2>3, WorkerMoves
  <2> QED
    BY <1>4, <2>2, <2>3 DEF Notes!Save
<1>5. CASE Notes!Index
  <2>1. /\ notes_phase = "fetch" /\ notes_phase' = "write" /\ notes_next > Notes!ToFetch
        /\ \A w \in Workers : notes_step[w] = "idle"
        /\ UNCHANGED <<notes_saves, notes_found, notes_next, notes_at, notes_step, notes_records, notes_files, notes_cited>>
    BY <1>5 DEF Notes!Index
  <2> QED
    BY <2>1 DEF RanksInv, SavedInv, CitedKept, Working, Notes!ToFetch, Notes!Fetched, Notes!Answered, Notes!Source,
       Notes!Ranks
<1>6. CASE Notes!Write
  <2>1. /\ \/ notes_phase' = "told"
           \/ notes_phase' = "failed" /\ DiskFails /\ UNCHANGED notes_cited
        /\ UNCHANGED <<notes_saves, notes_found, notes_next, notes_at, notes_step, notes_records, notes_files>>
    BY <1>6 DEF Notes!Write
  <2>2. notes_phase = "write"
    BY <1>6 DEF Notes!Write
  <2>3. RanksInv'
    BY <2>1, <2>2 DEF RanksInv, Working, Notes!ToFetch, Notes!Fetched, Notes!Ranks
  <2>4. CASE notes_phase' = "told"
    <3>1. notes_cited' = IF notes_saves
                         THEN {[url |-> notes_records[i].url, file |-> notes_records[i].file] : i \in Notes!Answered}
                         ELSE notes_cited
      BY <1>6, <2>4 DEF Notes!Write
    <3>2. CASE notes_saves
      <4>1. ASSUME NEW c \in notes_cited' PROVE \E f \in notes_files : f.name = c.file /\ f.url = c.url
        <5>1. PICK i \in Notes!Answered : c = [url |-> notes_records[i].url, file |-> notes_records[i].file]
          BY <3>1, <3>2
        <5>2. [name |-> c.file, url |-> c.url] \in notes_files
          BY <3>2, <5>1 DEF SavedInv
        <5> QED
          BY <5>2
      <4> QED
        BY <2>1, <2>2, <2>3, <2>4, <4>1 DEF SavedInv, CitedKept, Notes!Answered, Notes!Fetched, Notes!Source
    <3>3. CASE ~notes_saves
      BY <2>1, <2>2, <2>3, <2>4, <3>1, <3>3 DEF SavedInv, CitedKept, Notes!Answered, Notes!Fetched, Notes!Source
    <3> QED
      BY <3>2, <3>3
  <2>5. CASE notes_phase' = "failed"
    BY <2>1, <2>2, <2>3, <2>5 DEF SavedInv, CitedKept, Notes!Answered, Notes!Fetched, Notes!Source
  <2> QED
    BY <2>1, <2>3, <2>4, <2>5
<1>7. CASE Notes!Again
  <2>1. /\ notes_phase \in {"told", "failed"} /\ notes_phase' = "new" /\ notes_saves' \in BOOLEAN /\ notes_next' = 1
        /\ notes_step' = [w \in Workers |-> "idle"] /\ notes_records' = [i \in Notes!Ranks |-> None]
        /\ UNCHANGED notes_at
        /\ IF SameDir THEN UNCHANGED <<notes_files, notes_cited>> ELSE notes_cited' = {}
    BY <1>7 DEF Notes!Again
  <2>2. Notes!Fetched' = {} /\ Notes!Answered' = {}
    BY <2>1 DEF Notes!Fetched, Notes!Answered
  <2>3. RanksInv'
    BY <2>1, <2>2, FetchLimits DEF RanksInv, Working
  <2>4. CitedKept'
    BY <2>1 DEF SavedInv, CitedKept, RanksInv, NotesAssumption
  <2> QED
    BY <2>1, <2>2, <2>3, <2>4 DEF SavedInv
<1>8. CASE UNCHANGED Notes!vars
  BY <1>8 DEF Notes!vars, RanksInv, SavedInv, CitedKept, Working, Notes!ToFetch, Notes!Fetched, Notes!Answered,
     Notes!Source, Notes!Ranks
<1> QED
  BY <1>1, <1>2, <1>3, <1>4, <1>5, <1>6, <1>7, <1>8 DEF Notes!Next

LEMMA AllCounted ==
  ASSUME NotesAssumption, RanksInv, notes_phase = "told"
  PROVE  Notes!Cardinality(Notes!Fetched) = Notes!ToFetch
<1>1. /\ notes_next \in Nat /\ notes_next <= Notes!ToFetch + 1 /\ notes_next > Notes!ToFetch
      /\ Notes!ToFetch \in Nat
  BY FetchLimits DEF RanksInv
<1>2. notes_next - 1 = Notes!ToFetch
  BY <1>1
<1>3. Notes!Fetched = 1 .. notes_next - 1
  BY DEF RanksInv
<1> QED
  BY <1>1, <1>2, <1>3, FS_Interval, SameSize

\* What an answer says of its sources is what happened: the state of a lane, the
\* engines that found a result, the sources read and where their text is.
ToldTrue ==
    /\ Web!RedditToldTrue /\ Engine!Corroborated
    /\ Notes!CitedIsKept /\ Notes!SourcesCounted

\* What an answer tells of its lanes, engines and sources is what was asked, found
\* and kept: of runs that share a directory only where writing does not fail (a
\* run that dies there leaves the sources of the bundle before it overwritten).
THEOREM AnswersAreTrue ==
  ASSUME None # "asked", NotesAssumption
  PROVE  Web!Spec /\ Engine!Spec /\ Notes!Spec => []ToldTrue
<1> DEFINE All == WebInv /\ EngineInv /\ RanksInv /\ SavedInv
<1>1. Web!Init /\ Engine!Init /\ Notes!Init => All
  BY WebInit, EngineInit, NotesInit
<1>2. All /\ [Web!Next]_(Web!vars) /\ [Engine!Next]_(Engine!vars) /\ [Notes!Next]_(Notes!vars) => All'
  BY WebStep, EngineStep, NotesStep
<1>3. All => ToldTrue
  <2> SUFFICES ASSUME All PROVE ToldTrue
    OBVIOUS
  <2>1. Web!RedditToldTrue
    BY DEF WebInv, RedditOf, Web!RedditToldTrue
  <2>2. Engine!Corroborated
    BY DEF EngineInv
  <2>3. Notes!CitedIsKept
    BY DEF SavedInv, CitedKept, Notes!CitedIsKept
  <2>4. Notes!SourcesCounted
    <3>1. notes_phase = "told" => Notes!Cardinality(Notes!Fetched) = Notes!ToFetch
      BY AllCounted
    <3> QED
      BY <3>1 DEF RanksInv, Notes!SourcesCounted
  <2> QED
    BY <2>1, <2>2, <2>3, <2>4 DEF ToldTrue
<1> HIDE DEF All
<1> QED
  BY <1>1, <1>2, <1>3, PTL DEF Web!Spec, Engine!Spec, Notes!Spec

-----------------------------------------------------------------------------
(* Corpus *)

PullRecord(phases) ==
    [phase : phases, pages : Nat, left : SUBSET CorpusFiles, copy : [CorpusFiles -> Nat], built : Nat]
QueryRecord == [phase : {"idle", "asked", "done"}, answer : [CorpusFiles -> Nat]]
Writing(p) == corpus_pull[p].phase = "pull" /\ corpus_pull[p].pages > 0

\* One pull at a time: what it has read of the directory is still so when it
\* fills the index, under a build that no answer has been kept for; from then on
\* the index is of the directory until another pull writes a page.
CorpusTypes ==
    /\ corpus_disk \in [CorpusFiles -> Nat] /\ corpus_builds \in Nat
    /\ corpus_index \in [file : {"none", "torn", "whole"}, built : Nat, of : [CorpusFiles -> Nat]]
    /\ corpus_pull \in [CorpusPulls -> PullRecord({"idle", "pull", "read", "save", "done"})]
    /\ corpus_cached = [b \in DOMAIN corpus_cached |-> corpus_cached[b]]
    /\ corpus_query \in [CorpusQueries -> QueryRecord]

PullsInv ==
    /\ \A p, q \in Corpus!Busy : p = q
    /\ \A p \in CorpusPulls :
          /\ corpus_pull[p].phase \in {"idle", "pull"} => corpus_pull[p].copy = Corpus!NoPages
          /\ corpus_pull[p].phase = "idle" => corpus_pull[p].pages = 0
          /\ corpus_pull[p].phase = "read" =>
                \A f \in CorpusFiles \ corpus_pull[p].left : corpus_pull[p].copy[f] = corpus_disk[f]
          /\ corpus_pull[p].phase = "save" =>
                /\ corpus_pull[p].copy = corpus_disk /\ corpus_index.file = "torn"
                /\ corpus_pull[p].built = corpus_builds /\ corpus_builds \notin DOMAIN corpus_cached
    /\ (\A p \in CorpusPulls : ~Writing(p) /\ corpus_pull[p].phase \notin {"read", "save"}) =>
          (Corpus!Indexed /\ Corpus!Whole => corpus_index.of = corpus_disk)

AnswersInv ==
    /\ corpus_index.built <= corpus_builds
    /\ DOMAIN corpus_cached \subseteq 0 .. corpus_builds
    /\ Corpus!Whole /\ corpus_index.built \in DOMAIN corpus_cached =>
          corpus_cached[corpus_index.built] = corpus_index.of
    /\ \A q \in CorpusQueries : corpus_query[q].phase = "idle" => corpus_query[q].answer = Corpus!NoPages

CorpusInv == CorpusTypes /\ PullsInv /\ AnswersInv

LEMMA CorpusInit == ASSUME Corpus!Init PROVE CorpusInv
<1> USE DEF Corpus!Init, Corpus!Idle, Corpus!Unasked, Corpus!NoPages
<1>1. CorpusTypes
  BY DEF CorpusTypes, PullRecord, QueryRecord
<1>2. PullsInv
  BY DEF PullsInv, Corpus!Busy, Corpus!Indexed, Corpus!Whole, Writing
<1>3. AnswersInv
  BY DEF AnswersInv, Corpus!Whole
<1> QED
  BY <1>1, <1>2, <1>3 DEF CorpusInv

LEMMA PullIs ==
  ASSUME CorpusInv, NEW p \in CorpusPulls
  PROVE  /\ corpus_pull[p] \in PullRecord({"idle", "pull", "read", "save", "done"})
         /\ corpus_pull[p].phase \in {"idle", "pull"} => corpus_pull[p].copy = Corpus!NoPages
         /\ corpus_pull[p].phase = "idle" => corpus_pull[p].pages = 0
  BY DEF CorpusInv, CorpusTypes, PullsInv

\* A pull that moves on while another is busy does not exist; one that moves on
\* leaves the pulls that are idle or done.
LEMMA OnePull ==
  ASSUME CorpusInv, NEW p \in CorpusPulls, corpus_pull[p].phase \in {"pull", "read", "save"}
  PROVE  \A q \in CorpusPulls : q # p => corpus_pull[q].phase \in {"idle", "done"}
<1>1. \A q \in CorpusPulls : corpus_pull[q].phase \in {"idle", "pull", "read", "save", "done"}
  BY PullIs DEF PullRecord
<1>2. \A q \in Corpus!Busy : q = p
  BY DEF CorpusInv, PullsInv, Corpus!Busy
<1> QED
  BY <1>1, <1>2 DEF Corpus!Busy

LEMMA PullMoves ==
  ASSUME CorpusInv, NEW p \in CorpusPulls, NEW r,
         r \in PullRecord({"pull", "read", "save", "done"}),
         corpus_pull' = [corpus_pull EXCEPT ![p] = r],
         \A q \in CorpusPulls : q # p => corpus_pull[q].phase \in {"idle", "done"},
         corpus_disk' \in [CorpusFiles -> Nat],
         corpus_index' \in [file : {"none", "torn", "whole"}, built : Nat, of : [CorpusFiles -> Nat]],
         corpus_builds' \in Nat, UNCHANGED <<corpus_cached, corpus_query>>,
         r.phase = "pull" => r.copy = Corpus!NoPages,
         r.phase = "read" => \A f \in CorpusFiles \ r.left : r.copy[f] = corpus_disk'[f],
         r.phase = "save" =>
            /\ r.copy = corpus_disk' /\ corpus_index'.file = "torn"
            /\ r.built = corpus_builds' /\ corpus_builds' \notin DOMAIN corpus_cached,
         r.phase = "done" \/ (r.phase = "pull" /\ r.pages = 0) =>
            (Corpus!Indexed' /\ Corpus!Whole' => corpus_index'.of = corpus_disk'),
         AnswersInv'
  PROVE  CorpusInv'
<1>1. /\ corpus_pull'[p] = r
      /\ \A q \in CorpusPulls : q # p => corpus_pull'[q] = corpus_pull[q]
  BY DEF CorpusInv, CorpusTypes
<1>2. CorpusTypes'
  <2>1. r \in PullRecord({"idle", "pull", "read", "save", "done"})
    BY DEF PullRecord
  <2> QED
    BY <2>1 DEF CorpusInv, CorpusTypes
<1>3. \A q, s \in Corpus!Busy' : q = s
  BY <1>1 DEF Corpus!Busy
<1>4. ASSUME NEW q \in CorpusPulls
      PROVE  /\ corpus_pull'[q].phase \in {"idle", "pull"} => corpus_pull'[q].copy = Corpus!NoPages
             /\ corpus_pull'[q].phase = "idle" => corpus_pull'[q].pages = 0
             /\ corpus_pull'[q].phase = "read" =>
                   \A f \in CorpusFiles \ corpus_pull'[q].left : corpus_pull'[q].copy[f] = corpus_disk'[f]
             /\ corpus_pull'[q].phase = "save" =>
                   /\ corpus_pull'[q].copy = corpus_disk' /\ corpus_index'.file = "torn"
                   /\ corpus_pull'[q].built = corpus_builds' /\ corpus_builds' \notin DOMAIN corpus_cached'
  <2>1. CASE q = p
    <3>1. r.phase # "idle"
      BY DEF PullRecord
    <3> QED
      BY <1>1, <2>1, <3>1
  <2>2. CASE q # p
    BY <1>1, <2>2, PullIs
  <2> QED
    BY <2>1, <2>2
<1>5. ASSUME \A q \in CorpusPulls : ~Writing(q)' /\ corpus_pull'[q].phase \notin {"read", "save"}
      PROVE  r.phase = "done" \/ (r.phase = "pull" /\ r.pages = 0)
  BY <1>1, <1>5 DEF Writing, PullRecord
<1>6. PullsInv'
  BY <1>3, <1>4, <1>5 DEF PullsInv, Corpus!NoPages
<1> QED
  BY <1>2, <1>6 DEF CorpusInv

LEMMA QueryMoves ==
  ASSUME CorpusInv, NEW q \in CorpusQueries, NEW e \in QueryRecord, e.phase # "idle",
         corpus_query' = [corpus_query EXCEPT ![q] = e]
  PROVE  /\ corpus_query' \in [CorpusQueries -> QueryRecord]
         /\ \A s \in CorpusQueries :
               corpus_query'[s].phase = "idle" => corpus_query'[s].answer = Corpus!NoPages
  BY DEF CorpusInv, CorpusTypes, AnswersInv

LEMMA CorpusStep == ASSUME CorpusInv, [Corpus!Next]_(Corpus!vars) PROVE CorpusInv'
<1>1. ASSUME NEW p \in CorpusPulls, Corpus!Begin(p) PROVE CorpusInv'
  <2> DEFINE r == [corpus_pull[p] EXCEPT !.phase = "pull"]
  <2>1. /\ corpus_pull[p].phase = "idle" /\ Corpus!Busy = {} /\ corpus_pull' = [corpus_pull EXCEPT ![p] = r]
        /\ UNCHANGED <<corpus_disk, corpus_index, corpus_builds, corpus_cached, corpus_query>>
    BY <1>1 DEF Corpus!Begin
  <2>2. /\ r \in PullRecord({"pull", "read", "save", "done"})
        /\ r.phase = "pull" /\ r.pages = 0 /\ r.copy = Corpus!NoPages
    BY <2>1, PullIs DEF PullRecord
  <2>3. \A q \in CorpusPulls : corpus_pull[q].phase \in {"idle", "done"}
    BY <2>1, PullIs DEF Corpus!Busy, PullRecord
  <2>4. Corpus!Indexed' => Corpus!Indexed
    BY <2>1, <2>2 DEF Corpus!Indexed, CorpusInv, CorpusTypes
  <2>5. Corpus!Indexed' /\ Corpus!Whole' => corpus_index'.of = corpus_disk'
    BY <2>1, <2>3, <2>4 DEF CorpusInv, PullsInv, Corpus!Whole, Writing
  <2>6. AnswersInv'
    BY <2>1 DEF CorpusInv, AnswersInv, Corpus!Whole, Corpus!NoPages
  <2> HIDE DEF r
  <2> QED
    BY <2>1, <2>2, <2>3, <2>5, <2>6, PullMoves DEF CorpusInv, CorpusTypes
<1>2. ASSUME NEW p \in CorpusPulls, NEW f \in CorpusFiles, Corpus!Write(p, f) PROVE CorpusInv'
  <2> DEFINE r == [corpus_pull[p] EXCEPT !.pages = @ + 1]
  <2>1. /\ corpus_pull[p].phase = "pull" /\ corpus_pull' = [corpus_pull EXCEPT ![p] = r]
        /\ corpus_disk' = [corpus_disk EXCEPT ![f] = @ + 1]
        /\ UNCHANGED <<corpus_index, corpus_builds, corpus_cached, corpus_query>>
    BY <1>2 DEF Corpus!Write
  <2>2. /\ r \in PullRecord({"pull", "read", "save", "done"})
        /\ r.phase = "pull" /\ r.pages # 0 /\ r.copy = Corpus!NoPages
    BY <2>1, PullIs DEF PullRecord
  <2>3. \A q \in CorpusPulls : q # p => corpus_pull[q].phase \in {"idle", "done"}
    BY <2>1, OnePull
  <2>4. corpus_disk' \in [CorpusFiles -> Nat]
    BY <2>1 DEF CorpusInv, CorpusTypes
  <2>5. AnswersInv'
    BY <2>1 DEF CorpusInv, AnswersInv, Corpus!Whole, Corpus!NoPages
  <2> HIDE DEF r
  <2> QED
    BY <2>1, <2>2, <2>3, <2>4, <2>5, PullMoves DEF CorpusInv, CorpusTypes
<1>3. ASSUME NEW p \in CorpusPulls, Corpus!List(p) PROVE CorpusInv'
  <2> DEFINE r == IF corpus_pull[p].pages = 0 THEN [corpus_pull[p] EXCEPT !.phase = "done"]
                  ELSE [corpus_pull[p] EXCEPT !.phase = "read", !.left = {f \in CorpusFiles : corpus_disk[f] > 0}]
  <2>1. /\ corpus_pull[p].phase = "pull" /\ corpus_pull' = [corpus_pull EXCEPT ![p] = r]
        /\ UNCHANGED <<corpus_disk, corpus_index, corpus_builds, corpus_cached, corpus_query>>
    BY <1>3 DEF Corpus!List
  <2>2. /\ r \in PullRecord({"pull", "read", "save", "done"})
        /\ r.pages = corpus_pull[p].pages /\ r.copy = Corpus!NoPages
        /\ r.phase = "read" => r.left = {f \in CorpusFiles : corpus_disk[f] > 0}
        /\ r.phase = "done" \/ r.phase = "read"
        /\ r.phase = "done" => r.pages = 0
    BY <2>1, PullIs DEF PullRecord
  <2>3. \A q \in CorpusPulls : q # p => corpus_pull[q].phase \in {"idle", "done"}
    BY <2>1, OnePull
  <2>4. r.phase = "read" => \A f \in CorpusFiles \ r.left : r.copy[f] = corpus_disk'[f]
    BY <2>1, <2>2 DEF CorpusInv, CorpusTypes, Corpus!NoPages
  <2>5. r.phase = "done" => (Corpus!Indexed' /\ Corpus!Whole' => corpus_index'.of = corpus_disk')
    <3> HIDE DEF r
    <3>1. ASSUME r.phase = "done" PROVE r.pages = 0 /\ (Corpus!Indexed' => Corpus!Indexed)
      BY <2>1, <2>2, <3>1 DEF Corpus!Indexed, CorpusInv, CorpusTypes
    <3>2. ASSUME r.phase = "done"
          PROVE  \A q \in CorpusPulls : ~Writing(q) /\ corpus_pull[q].phase \notin {"read", "save"}
      BY <2>1, <2>2, <2>3, <3>1, <3>2 DEF Writing
    <3> QED
      BY <2>1, <3>1, <3>2 DEF CorpusInv, PullsInv, Corpus!Whole
  <2>6. AnswersInv'
    BY <2>1 DEF CorpusInv, AnswersInv, Corpus!Whole, Corpus!NoPages
  <2> HIDE DEF r
  <2> QED
    BY <2>1, <2>2, <2>3, <2>4, <2>5, <2>6, PullMoves DEF CorpusInv, CorpusTypes
<1>4. ASSUME NEW p \in CorpusPulls, NEW f \in CorpusFiles, Corpus!Read(p, f) PROVE CorpusInv'
  <2> DEFINE r == [[corpus_pull[p] EXCEPT !.left = @ \ {f}] EXCEPT !.copy[f] = corpus_disk[f]]
  <2>1. /\ corpus_pull[p].phase = "read" /\ corpus_pull' = [corpus_pull EXCEPT ![p] = r]
        /\ UNCHANGED <<corpus_disk, corpus_index, corpus_builds, corpus_cached, corpus_query>>
    BY <1>4 DEF Corpus!Read, CorpusInv, CorpusTypes
  <2>2. /\ r \in PullRecord({"pull", "read", "save", "done"})
        /\ r.phase = "read" /\ r.left = corpus_pull[p].left \ {f}
        /\ r.copy = [corpus_pull[p].copy EXCEPT ![f] = corpus_disk[f]]
    BY <2>1, PullIs DEF PullRecord, CorpusInv, CorpusTypes
  <2>3. \A q \in CorpusPulls : q # p => corpus_pull[q].phase \in {"idle", "done"}
    BY <2>1, OnePull
  <2>4. \A g \in CorpusFiles \ r.left : r.copy[g] = corpus_disk'[g]
    <3> HIDE DEF r
    <3>1. corpus_pull[p].copy \in [CorpusFiles -> Nat]
      BY PullIs DEF PullRecord
    <3>2. \A g \in CorpusFiles \ corpus_pull[p].left : corpus_pull[p].copy[g] = corpus_disk[g]
      BY <2>1 DEF CorpusInv, PullsInv
    <3> QED
      BY <2>1, <2>2, <3>1, <3>2
  <2>5. AnswersInv'
    BY <2>1 DEF CorpusInv, AnswersInv, Corpus!Whole, Corpus!NoPages
  <2> HIDE DEF r
  <2> QED
    BY <2>1, <2>2, <2>3, <2>4, <2>5, PullMoves DEF CorpusInv, CorpusTypes
<1>5. ASSUME NEW p \in CorpusPulls, Corpus!Truncate(p) PROVE CorpusInv'
  <2> DEFINE r == [corpus_pull[p] EXCEPT !.phase = "save", !.built = corpus_builds + 1]
  <2>1. /\ corpus_pull[p].phase = "read" /\ corpus_pull[p].left = {} /\ corpus_builds' = corpus_builds + 1
        /\ corpus_pull' = [corpus_pull EXCEPT ![p] = r] /\ corpus_index' = [corpus_index EXCEPT !.file = "torn"]
        /\ UNCHANGED <<corpus_disk, corpus_cached, corpus_query>>
    BY <1>5 DEF Corpus!Truncate, CorpusInv, CorpusTypes
  <2>2. /\ r \in PullRecord({"pull", "read", "save", "done"})
        /\ r.phase = "save" /\ r.copy = corpus_pull[p].copy /\ r.built = corpus_builds + 1
    <3>1. corpus_builds + 1 \in Nat
      BY DEF CorpusInv, CorpusTypes
    <3> QED
      BY <3>1, PullIs DEF PullRecord
  <2>3. \A q \in CorpusPulls : q # p => corpus_pull[q].phase \in {"idle", "done"}
    BY <2>1, OnePull
  <2>4. corpus_pull[p].copy = corpus_disk
    <3>1. corpus_pull[p].copy \in [CorpusFiles -> Nat] /\ corpus_disk \in [CorpusFiles -> Nat]
      BY PullIs DEF PullRecord, CorpusInv, CorpusTypes
    <3>2. \A g \in CorpusFiles : corpus_pull[p].copy[g] = corpus_disk[g]
      BY <2>1 DEF CorpusInv, PullsInv
    <3> QED
      BY <3>1, <3>2
  <2>5. /\ corpus_index'.file = "torn" /\ corpus_index'.built = corpus_index.built
        /\ corpus_index' \in [file : {"none", "torn", "whole"}, built : Nat, of : [CorpusFiles -> Nat]]
        /\ corpus_builds \in Nat /\ corpus_index.built \in Nat
    BY <2>1 DEF CorpusInv, CorpusTypes
  <2>6. AnswersInv' /\ corpus_builds' \notin DOMAIN corpus_cached
    <3>1. DOMAIN corpus_cached \subseteq 0 .. corpus_builds /\ corpus_index.built <= corpus_builds
      BY DEF CorpusInv, AnswersInv
    <3>2. corpus_index'.built <= corpus_builds' /\ DOMAIN corpus_cached \subseteq 0 .. corpus_builds'
      BY <2>1, <2>5, <3>1
    <3>3. corpus_builds' \notin DOMAIN corpus_cached
      BY <2>1, <2>5, <3>1
    <3> QED
      BY <2>1, <2>5, <3>2, <3>3 DEF CorpusInv, AnswersInv, Corpus!Whole, Corpus!NoPages
  <2> HIDE DEF r
  <2>7. /\ r.copy = corpus_disk' /\ r.built = corpus_builds' /\ corpus_builds' \in Nat
        /\ corpus_disk' \in [CorpusFiles -> Nat]
    BY <2>1, <2>2, <2>4, <2>5 DEF CorpusInv, CorpusTypes
  <2>8. r.phase # "done" /\ r.phase # "pull" /\ r.phase # "read"
    BY <2>2
  <2> QED
    BY <2>1, <2>2, <2>3, <2>5, <2>6, <2>7, <2>8, PullMoves
<1>6. ASSUME NEW p \in CorpusPulls, Corpus!Fill(p) PROVE CorpusInv'
  <2> DEFINE r == [corpus_pull[p] EXCEPT !.phase = "done"]
  <2>1. /\ corpus_pull[p].phase = "save" /\ corpus_pull' = [corpus_pull EXCEPT ![p] = r]
        /\ corpus_index' = [file |-> "whole", built |-> corpus_pull[p].built, of |-> corpus_pull[p].copy]
        /\ UNCHANGED <<corpus_disk, corpus_builds, corpus_cached, corpus_query>>
    BY <1>6 DEF Corpus!Fill
  <2>2. /\ r \in PullRecord({"pull", "read", "save", "done"})
        /\ r.phase = "done"
    BY PullIs DEF PullRecord
  <2>3. \A q \in CorpusPulls : q # p => corpus_pull[q].phase \in {"idle", "done"}
    BY <2>1, OnePull
  <2>4. /\ corpus_pull[p].copy = corpus_disk /\ corpus_pull[p].built = corpus_builds
        /\ corpus_builds \notin DOMAIN corpus_cached /\ corpus_builds \in Nat
        /\ corpus_disk \in [CorpusFiles -> Nat]
    BY <2>1 DEF CorpusInv, PullsInv, CorpusTypes
  <2>5. AnswersInv'
    BY <2>1, <2>4 DEF CorpusInv, AnswersInv, Corpus!NoPages
  <2>6. /\ corpus_index' \in [file : {"none", "torn", "whole"}, built : Nat, of : [CorpusFiles -> Nat]]
        /\ corpus_index'.of = corpus_disk'
    BY <2>1, <2>4
  <2> HIDE DEF r
  <2> QED
    BY <2>1, <2>2, <2>3, <2>4, <2>5, <2>6, PullMoves DEF CorpusInv, CorpusTypes
<1>7. ASSUME NEW q \in CorpusQueries, Corpus!Ask(q) \/ Corpus!Unreadable(q) PROVE CorpusInv'
  <2>1. /\ UNCHANGED <<corpus_disk, corpus_index, corpus_builds, corpus_pull, corpus_cached>>
        /\ \/ corpus_query' = [corpus_query EXCEPT ![q] = [phase |-> "asked", answer |-> Corpus!NoPages]]
           \/ corpus_query' = [corpus_query EXCEPT ![q] = [corpus_query[q] EXCEPT !.phase = "done"]]
    BY <1>7 DEF Corpus!Ask, Corpus!Unreadable
  <2>2. /\ [phase |-> "asked", answer |-> Corpus!NoPages] \in QueryRecord
        /\ [corpus_query[q] EXCEPT !.phase = "done"] \in QueryRecord
        /\ [corpus_query[q] EXCEPT !.phase = "done"].phase = "done"
    BY DEF Corpus!NoPages, CorpusInv, CorpusTypes, QueryRecord
  <2>3. PICK e \in QueryRecord : e.phase # "idle" /\ corpus_query' = [corpus_query EXCEPT ![q] = e]
    BY <2>1, <2>2
  <2>4. CorpusTypes' /\ AnswersInv'
    BY <2>1, <2>3, QueryMoves DEF CorpusInv, AnswersInv, CorpusTypes, Corpus!Whole, Corpus!NoPages
  <2>5. PullsInv'
    BY <2>1 DEF CorpusInv, PullsInv, Writing, Corpus!Busy, Corpus!Indexed, Corpus!Whole, Corpus!NoPages
  <2> QED
    BY <2>4, <2>5 DEF CorpusInv
<1>8. ASSUME NEW q \in CorpusQueries, Corpus!Answer(q) PROVE CorpusInv'
  <2>1. /\ UNCHANGED <<corpus_disk, corpus_index, corpus_builds, corpus_pull>> /\ Corpus!Whole
    BY <1>8 DEF Corpus!Answer
  <2> DEFINE e == [[corpus_query[q] EXCEPT !.phase = "done"] EXCEPT !.answer = corpus_index.of]
  <2>2. corpus_query' = [corpus_query EXCEPT ![q] = e]
    BY <1>8 DEF Corpus!Answer, Corpus!Known, CorpusInv, CorpusTypes, AnswersInv
  <2>11. e \in QueryRecord /\ e.phase # "idle"
    BY DEF CorpusInv, CorpusTypes, QueryRecord
  <2> HIDE DEF e
  <2>3. \/ UNCHANGED corpus_cached
        \/ corpus_cached' = [b \in DOMAIN corpus_cached \cup {corpus_index.built} |->
                               IF b = corpus_index.built THEN corpus_index.of ELSE corpus_cached[b]]
    BY <1>8 DEF Corpus!Answer
  <2>4. /\ corpus_cached' = [b \in DOMAIN corpus_cached' |-> corpus_cached'[b]]
        /\ DOMAIN corpus_cached' \subseteq DOMAIN corpus_cached \cup {corpus_index.built}
        /\ corpus_index.built \in DOMAIN corpus_cached' => corpus_cached'[corpus_index.built] = corpus_index.of
    BY <2>1, <2>3 DEF CorpusInv, CorpusTypes, AnswersInv
  <2>5. CorpusTypes'
    BY <2>1, <2>2, <2>4, <2>11, QueryMoves DEF CorpusInv, CorpusTypes
  <2>6. \A p \in CorpusPulls : corpus_pull[p].phase # "save"
    BY <2>1 DEF CorpusInv, PullsInv, Corpus!Whole
  <2>7. PullsInv'
    BY <2>1, <2>6 DEF CorpusInv, PullsInv, Writing, Corpus!Busy, Corpus!Indexed, Corpus!Whole, Corpus!NoPages
  <2>8. \A s \in CorpusQueries : corpus_query'[s].phase = "idle" => corpus_query'[s].answer = Corpus!NoPages
    BY <2>2, <2>11, QueryMoves
  <2>9. DOMAIN corpus_cached' \subseteq 0 .. corpus_builds
    BY <2>4 DEF CorpusInv, CorpusTypes, AnswersInv
  <2>10. AnswersInv'
    BY <2>1, <2>4, <2>8, <2>9 DEF CorpusInv, AnswersInv, Corpus!Whole, Corpus!NoPages
  <2> QED
    BY <2>5, <2>7, <2>10 DEF CorpusInv
<1>9. CASE Corpus!AllDone \/ UNCHANGED Corpus!vars \/ (\E p \in CorpusPulls : Corpus!Kill(p))
  BY <1>9 DEF Corpus!AllDone, Corpus!Kill, Corpus!vars, CorpusInv, CorpusTypes, PullsInv, AnswersInv, Writing, Corpus!Busy,
     Corpus!Indexed, Corpus!Whole, Corpus!NoPages
<1> QED
  BY <1>1, <1>2, <1>3, <1>4, <1>5, <1>6, <1>7, <1>8, <1>9 DEF Corpus!Next

LEMMA FreshAnswer ==
  ASSUME CorpusInv, [Corpus!Next]_(Corpus!vars), NEW q \in CorpusQueries,
         corpus_query'[q].answer # corpus_query[q].answer
  PROVE  corpus_query'[q].answer = corpus_index.of
<1>1. corpus_query' # corpus_query /\ Corpus!Next
  BY DEF Corpus!vars
<1>2. PICK s \in CorpusQueries : Corpus!Ask(s) \/ Corpus!Unreadable(s) \/ Corpus!Answer(s)
  BY <1>1 DEF Corpus!Next, Corpus!Begin, Corpus!Write, Corpus!List, Corpus!Read, Corpus!Truncate, Corpus!Fill,
     Corpus!Kill, Corpus!AllDone, Corpus!vars
<1>3. CASE Corpus!Ask(s)
  BY <1>3 DEF Corpus!Ask, CorpusInv, CorpusTypes, AnswersInv, QueryRecord
<1>4. CASE Corpus!Unreadable(s)
  BY <1>4 DEF Corpus!Unreadable, CorpusInv, CorpusTypes, QueryRecord
<1>5. CASE Corpus!Answer(s)
  <2>1. corpus_query' = [corpus_query EXCEPT ![s].phase = "done", ![s].answer = corpus_index.of]
    BY <1>5 DEF Corpus!Answer, Corpus!Known, CorpusInv, AnswersInv
  <2> QED
    BY <2>1 DEF CorpusInv, CorpusTypes, QueryRecord
<1> QED
  BY <1>2, <1>3, <1>4, <1>5

\* Nothing that was pulled is lost on the way to the one who asks: the index has
\* every page of the directory, and an answer is never of an older index than
\* the last build.
NothingLost == []Corpus!IndexComplete /\ Corpus!AnswersFresh

\* Nothing of a corpus is lost while its pulls come one after the other and none
\* is killed (Together and Killed in the INSTANCE), for any number of them.
THEOREM CorpusIsWhole == Corpus!Spec => NothingLost
<1>1. Corpus!Init => CorpusInv
  BY CorpusInit
<1>2. CorpusInv /\ [Corpus!Next]_(Corpus!vars) => CorpusInv'
  BY CorpusStep
<1>3. CorpusInv => Corpus!IndexComplete
  BY DEF CorpusInv, CorpusTypes, PullsInv, Corpus!IndexComplete, Corpus!Busy, Writing
<1>4. CorpusInv /\ [Corpus!Next]_(Corpus!vars) =>
         [\A q \in CorpusQueries : corpus_query'[q].answer # corpus_query[q].answer =>
             corpus_query'[q].answer = corpus_index.of]_(Corpus!vars)
  BY FreshAnswer
<1> QED
  BY <1>1, <1>2, <1>3, <1>4, PTL DEF Corpus!Spec, NothingLost, Corpus!AnswersFresh
=============================================================================
