------------------------------- MODULE MCWeb -------------------------------
(* The parts that fetch pages and answer with them, and those that search,    *)
(* research, discover and look up, checked part by part: the initial state    *)
(* picks the part, and only that part moves. The parts that WebProofs has are *)
(* declared there; names without a prefix are those of StaticFetch.           *)
EXTENDS WebProofs, TLC

CONSTANTS
    Parts,
    c1, c2, c3, c4,         \* fetches, calls, workers
    p1, p2, p3,             \* pages, files, commands
    h1, h2                  \* browser profiles, pulls, queries, words

Two == {c1, c2}
Four == {c1, c2, c3, c4}

FetchProfiles == c1 :> h1 @@ c2 :> h2
Origins == p1 :> "a" @@ p2 :> "b" @@ p3 :> "a"
WallChains == {<<"archive", "bot", "block_js">>, <<"block_js", "archive">>,
           <<"cookies", "bot", "block_js">>, <<"custom", "referer", "archive">>}
Files == [t \in 1 .. 3 |-> t]
Sec(head, prose, fenced) == [head |-> head, prose |-> prose, fenced |-> fenced]
Docs == {[fm |-> 0, secs |-> <<Sec(0, 1, FALSE), Sec(1, 2, FALSE)>>],
         [fm |-> 2, secs |-> <<Sec(1, 2, TRUE), Sec(2, 2, FALSE)>>],
         [fm |-> 0, secs |-> <<Sec(5, 1, FALSE), Sec(1, 2, FALSE)>>],
         [fm |-> 0, secs |-> <<Sec(0, 5, TRUE)>>]}
Item(w, d, t, direct, s) ==
    [weight |-> w, domain |-> d, title |-> t, direct |-> direct, spelling |-> s]
EngineResults ==
    {Item(1, 1, 2, TRUE, 1), Item(3, 1, 2, TRUE, 2), Item(3, 1, 4, TRUE, 1),
     Item(1, 2, 4, TRUE, 1), Item(3, 2, 2, TRUE, 1)}
LaneResults == {Item(10, d, t, direct, 0) : d \in {1, 2}, t \in {2, 4}, direct \in BOOLEAN}
Called == c1 :> "fetch" @@ c2 :> "fetch" @@ c3 :> "search" @@ c4 :> "fetch"
Kinds == c1 :> "map" @@ c2 :> "map" @@ c3 :> "fetch"
Slugs == [u \in {p1, p2, p3} |-> 1]

VARIABLES part, chunk_phase, chunk_count, chunk_blocks, chunk_buf,
    chunk_fence, chunk_unit, chunk_current, chunk_at, chunk_left,
    chunk_reopen, chunk_hasContent, chunk_chunks, budget_phase, budget_doc,
    budget_budget, budget_query, budget_order, budget_text, order_phase,
    order_lane, order_engines, order_lanes, order_list, site_phase, site_landed, site_date, site_reading, site_budget,
    site_lists, site_nav, site_visited, site_queue, site_found, site_batch,
    site_links, site_result, rank_chunks, rank_ranked, rank_answered

LadderVars == <<ladder_pc, ladder_url, ladder_asked, ladder_memory,
    ladder_cookies, ladder_replayed, ladder_opens, ladder_done>>
CacheVars == <<cache_now, cache_changed, cache_stored, cache_older,
    cache_captured, cache_pc, cache_page, cache_use, cache_cond, cache_base,
    cache_pulled, cache_answer>>
StaticVars == <<phase, after, page, seen, headers, attempt, latest, transport,
    response, remaining, signal, sent, result>>
PullVars == <<pull_phase, pull_opts, pull_refresh, pull_known, pull_stored,
    pull_purpose, pull_tried, pull_page, pull_count, pull_first, pull_result>>
WallVars == <<wall_chain, wall_at, wall_now, wall_phase, wall_pooled,
    wall_opened, wall_launches, wall_answer, wall_tried>>
BatchVars == <<batch_phase, batch_session, batch_index, batch_at, batch_step,
    batch_slots, batch_thrown, batch_files, batch_package>>
ReplyVars == <<reply_phase, reply_want, reply_size, reply_json, reply_body,
    reply_kept, reply_summaries, reply_shows, reply_told>>
ToolVars == <<tool_cacheReady, tool_userReady, tool_runtime, tool_loading,
    tool_call, tool_failures, tool_seen>>
ChunkerVars == <<chunk_phase, chunk_count, chunk_blocks, chunk_buf,
    chunk_fence, chunk_unit, chunk_current, chunk_at, chunk_left,
    chunk_reopen, chunk_hasContent, chunk_chunks>>
TokensVars == <<budget_phase, budget_doc, budget_budget, budget_query,
    budget_order, budget_text>>
GithubVars == <<github_phase, github_page, github_token, github_enabled,
    github_tries, github_status, github_proc, github_chunks, github_shown>>
RepoVars == <<repo_at, repo_tree, repo_dir, repo_seen, repo_scope, repo_bound,
    repo_via>>
WebVars == <<web_tool, web_clock, web_lane, web_some, web_gstatus,
    web_rstatus, web_asked, web_snap, web_timedOut, web_told, web_health,
    web_streak, web_cached>>
EngineVars == <<engine_now, engine_profile, engine_phase, engine_answer,
    engine_hits, engine_fails, engine_coolUntil, engine_cache, engine_found,
    engine_order>>
OrderVars == <<order_phase, order_lane, order_engines, order_lanes, order_list>>
TabVars == <<tab_pc, tab_tab, tab_known, tab_ws, tab_page, tab_got,
    tab_degraded, tab_error, tab_aborted, tab_late, tab_lost>>
GoogleVars == <<google_program, google_given, google_phase, google_tab,
    google_page, google_rows, google_counted, google_merged, google_output,
    google_failed>>
RedditVars == <<reddit_phase, reddit_waiting, reddit_queue, reddit_own,
    reddit_other, reddit_baseline, reddit_found, reddit_target, reddit_alive,
    reddit_silences, reddit_result>>
PageVars == <<page_doc, page_complete, page_runtime, page_mainCtx, page_cmd>>
NotesVars == <<notes_phase, notes_saves, notes_found, notes_next, notes_at,
    notes_step, notes_said, notes_records, notes_files, notes_indexed,
    notes_cited>>
SiteVars == <<site_phase, site_landed, site_date, site_reading, site_budget,
    site_lists, site_nav, site_visited, site_queue, site_found, site_batch,
    site_links, site_result>>
CorpusVars == <<corpus_disk, corpus_index, corpus_builds, corpus_pull,
    corpus_cached, corpus_query>>
RankingVars == <<rank_chunks, rank_ranked, rank_answered>>

Chunker == INSTANCE Chunker WITH
    Costs <- {1, 3, 9}, Literals <- FALSE, MaxTokens <- 6, MaxLines <- 5,
    phase <- chunk_phase, count <- chunk_count, blocks <- chunk_blocks,
    buf <- chunk_buf, fence <- chunk_fence, unit <- chunk_unit,
    current <- chunk_current, at <- chunk_at, left <- chunk_left,
    reopen <- chunk_reopen, hasContent <- chunk_hasContent,
    chunks <- chunk_chunks
Tokens == INSTANCE TokenBudget WITH
    Docs <- Docs, Budgets <- {1, 2, 3, 5, 8}, Notices <- <<4, 2>>,
    PruneNotice <- 4, MaxNotice <- 4, MinOutline <- 2, HeadExtra <- 1,
    MinPartial <- 1, phase <- budget_phase, doc <- budget_doc,
    budget <- budget_budget, query <- budget_query, order <- budget_order,
    text <- budget_text
Order == INSTANCE ResultOrder WITH
    EngineResults <- EngineResults, LaneResults <- LaneResults,
    MaxEngines <- 3, MaxLanes <- 2, HttpWeight <- 1, Cap <- 1,
    MaxResults <- 2, MaxTotal <- 3, phase <- order_phase, lane <- order_lane,
    engines <- order_engines, lanes <- order_lanes, list <- order_list
Site == INSTANCE Discovery WITH
    Pages <- 1 .. 4, Outside <- {2}, Landings <- {1, 3}, Dates <- 0 .. 2,
    Strategies <- {1, 2}, MaxDepth <- 1, Budget <- 3, MaxPages <- 2,
    NavMin <- 2, BatchSize <- 2, None <- None, phase <- site_phase,
    landed <- site_landed, date <- site_date, reading <- site_reading,
    budget <- site_budget, lists <- site_lists, nav <- site_nav,
    visited <- site_visited, queue <- site_queue, found <- site_found,
    batch <- site_batch, links <- site_links, result <- site_result
Ranking == INSTANCE CorpusRank WITH
    Files <- {p1, p2}, Words <- {h1, h2}, Chunks <- 4, TopK <- 3, Cap <- 1,
    chunks <- rank_chunks, ranked <- rank_ranked, answered <- rank_answered

allVars == <<part, LadderVars, CacheVars, StaticVars, PullVars, WallVars,
    BatchVars, ReplyVars, ToolVars, ChunkerVars, TokensVars, GithubVars,
    RepoVars, WebVars, EngineVars, OrderVars, TabVars, GoogleVars, RedditVars,
    PageVars, NotesVars, SiteVars, CorpusVars, RankingVars>>

AllInit ==
    /\ part \in Parts
    /\ IF part = "ladder" THEN TRUE ELSE ladder_opens = {}
    /\ IF part = "cache" THEN TRUE ELSE cache_changed = [r \in {p1, p2} |-> 0]
    /\ IF part = "static" THEN TRUE ELSE page = p1 /\ signal = None
    /\ IF part = "pull" THEN TRUE
       ELSE /\ pull_opts = [mode |-> "auto", bypass |-> FALSE] /\ pull_known = FALSE
            /\ pull_stored = FALSE /\ pull_refresh = [n \in 1 .. 3 |-> None]
    /\ IF part = "wall" THEN TRUE ELSE wall_chain = <<"block_js", "archive">>
    /\ IF part = "reply" THEN TRUE
       ELSE /\ reply_want = (CHOOSE w \in Reply!Options : TRUE)
            /\ reply_size = 1 /\ reply_json = FALSE
    /\ IF part = "budget" THEN TRUE
       ELSE /\ budget_doc = (CHOOSE d \in Docs : TRUE)
            /\ budget_budget = 1 /\ budget_query = FALSE
    /\ IF part = "github" THEN TRUE ELSE github_page = "data" /\ github_enabled = FALSE
    /\ IF part = "engine" THEN TRUE ELSE engine_profile = [s \in {1, 2} |-> "plain"]
    /\ IF part = "order" THEN TRUE ELSE order_engines = <<>> /\ order_lanes = <<>>
    /\ IF part = "google" THEN TRUE
       ELSE /\ google_program = "search" /\ google_given = FALSE
            /\ google_rows = [n \in 1 .. 2 |-> {}]
    /\ IF part = "notes" THEN TRUE ELSE notes_saves = FALSE
    /\ IF part = "site" THEN site_date \in [1 .. 4 -> 0 .. 2] /\ site_date[1] # 1 /\ site_date[2] # 1
       ELSE site_landed = 1 /\ site_date = [n \in 1 .. 4 |-> 0]
    /\ IF part = "rank" THEN TRUE ELSE rank_chunks = <<>>
    /\ Ladder!Init /\ Cache!Init /\ Init /\ Pull!Init /\ Wall!Init /\ Batch!Init
    /\ Reply!Init /\ Tool!Init /\ Chunker!Init /\ Tokens!Init /\ Github!Init
    /\ Repo!Init /\ Web!Init /\ Engine!Init /\ Tab!Init /\ Google!Init /\ Reddit!Init
    /\ Page!Init /\ Notes!Init /\ Site!Init /\ Corpus!Init /\ Ranking!Init /\ Order!Init

LadderPart ==
    /\ part = "ladder" /\ Ladder!Next
    /\ UNCHANGED <<part, CacheVars, StaticVars, PullVars, WallVars, BatchVars,
        ReplyVars, ToolVars, ChunkerVars, TokensVars, GithubVars, RepoVars,
        WebVars, EngineVars, OrderVars, TabVars, GoogleVars, RedditVars,
        PageVars, NotesVars, SiteVars, CorpusVars, RankingVars>>
CachePart ==
    /\ part = "cache" /\ Cache!Next
    /\ UNCHANGED <<part, LadderVars, StaticVars, PullVars, WallVars,
        BatchVars, ReplyVars, ToolVars, ChunkerVars, TokensVars, GithubVars,
        RepoVars, WebVars, EngineVars, OrderVars, TabVars, GoogleVars,
        RedditVars, PageVars, NotesVars, SiteVars, CorpusVars, RankingVars>>
StaticPart ==
    /\ part = "static" /\ Next
    /\ UNCHANGED <<part, LadderVars, CacheVars, PullVars, WallVars, BatchVars,
        ReplyVars, ToolVars, ChunkerVars, TokensVars, GithubVars, RepoVars,
        WebVars, EngineVars, OrderVars, TabVars, GoogleVars, RedditVars,
        PageVars, NotesVars, SiteVars, CorpusVars, RankingVars>>
PullPart ==
    /\ part = "pull" /\ Pull!Next
    /\ UNCHANGED <<part, LadderVars, CacheVars, StaticVars, WallVars,
        BatchVars, ReplyVars, ToolVars, ChunkerVars, TokensVars, GithubVars,
        RepoVars, WebVars, EngineVars, OrderVars, TabVars, GoogleVars,
        RedditVars, PageVars, NotesVars, SiteVars, CorpusVars, RankingVars>>
WallPart ==
    /\ part = "wall" /\ Wall!Next
    /\ UNCHANGED <<part, LadderVars, CacheVars, StaticVars, PullVars,
        BatchVars, ReplyVars, ToolVars, ChunkerVars, TokensVars, GithubVars,
        RepoVars, WebVars, EngineVars, OrderVars, TabVars, GoogleVars,
        RedditVars, PageVars, NotesVars, SiteVars, CorpusVars, RankingVars>>
BatchPart ==
    /\ part = "batch" /\ Batch!Next
    /\ UNCHANGED <<part, LadderVars, CacheVars, StaticVars, PullVars,
        WallVars, ReplyVars, ToolVars, ChunkerVars, TokensVars, GithubVars,
        RepoVars, WebVars, EngineVars, OrderVars, TabVars, GoogleVars,
        RedditVars, PageVars, NotesVars, SiteVars, CorpusVars, RankingVars>>
ReplyPart ==
    /\ part = "reply" /\ Reply!Next
    /\ UNCHANGED <<part, LadderVars, CacheVars, StaticVars, PullVars,
        WallVars, BatchVars, ToolVars, ChunkerVars, TokensVars, GithubVars,
        RepoVars, WebVars, EngineVars, OrderVars, TabVars, GoogleVars,
        RedditVars, PageVars, NotesVars, SiteVars, CorpusVars, RankingVars>>
ToolPart ==
    /\ part = "tool" /\ Tool!Next
    /\ UNCHANGED <<part, LadderVars, CacheVars, StaticVars, PullVars,
        WallVars, BatchVars, ReplyVars, ChunkerVars, TokensVars, GithubVars,
        RepoVars, WebVars, EngineVars, OrderVars, TabVars, GoogleVars,
        RedditVars, PageVars, NotesVars, SiteVars, CorpusVars, RankingVars>>
ChunkerPart ==
    /\ part = "chunk" /\ Chunker!Next
    /\ UNCHANGED <<part, LadderVars, CacheVars, StaticVars, PullVars,
        WallVars, BatchVars, ReplyVars, ToolVars, TokensVars, GithubVars,
        RepoVars, WebVars, EngineVars, OrderVars, TabVars, GoogleVars,
        RedditVars, PageVars, NotesVars, SiteVars, CorpusVars, RankingVars>>
TokensPart ==
    /\ part = "budget" /\ Tokens!Next
    /\ UNCHANGED <<part, LadderVars, CacheVars, StaticVars, PullVars,
        WallVars, BatchVars, ReplyVars, ToolVars, ChunkerVars, GithubVars,
        RepoVars, WebVars, EngineVars, OrderVars, TabVars, GoogleVars,
        RedditVars, PageVars, NotesVars, SiteVars, CorpusVars, RankingVars>>
GithubPart ==
    /\ part = "github" /\ Github!Next
    /\ UNCHANGED <<part, LadderVars, CacheVars, StaticVars, PullVars,
        WallVars, BatchVars, ReplyVars, ToolVars, ChunkerVars, TokensVars,
        RepoVars, WebVars, EngineVars, OrderVars, TabVars, GoogleVars,
        RedditVars, PageVars, NotesVars, SiteVars, CorpusVars, RankingVars>>
RepoPart ==
    /\ part = "repo" /\ Repo!Next
    /\ UNCHANGED <<part, LadderVars, CacheVars, StaticVars, PullVars,
        WallVars, BatchVars, ReplyVars, ToolVars, ChunkerVars, TokensVars,
        GithubVars, WebVars, EngineVars, OrderVars, TabVars, GoogleVars,
        RedditVars, PageVars, NotesVars, SiteVars, CorpusVars, RankingVars>>
WebPart ==
    /\ part = "web" /\ Web!Next
    /\ UNCHANGED <<part, LadderVars, CacheVars, StaticVars, PullVars,
        WallVars, BatchVars, ReplyVars, ToolVars, ChunkerVars, TokensVars,
        GithubVars, RepoVars, EngineVars, OrderVars, TabVars, GoogleVars,
        RedditVars, PageVars, NotesVars, SiteVars, CorpusVars, RankingVars>>
EnginePart ==
    /\ part = "engine" /\ Engine!Next
    /\ UNCHANGED <<part, LadderVars, CacheVars, StaticVars, PullVars,
        WallVars, BatchVars, ReplyVars, ToolVars, ChunkerVars, TokensVars,
        GithubVars, RepoVars, WebVars, OrderVars, TabVars, GoogleVars,
        RedditVars, PageVars, NotesVars, SiteVars, CorpusVars, RankingVars>>
OrderPart ==
    /\ part = "order" /\ Order!Next
    /\ UNCHANGED <<part, LadderVars, CacheVars, StaticVars, PullVars,
        WallVars, BatchVars, ReplyVars, ToolVars, ChunkerVars, TokensVars,
        GithubVars, RepoVars, WebVars, EngineVars, TabVars, GoogleVars,
        RedditVars, PageVars, NotesVars, SiteVars, CorpusVars, RankingVars>>
TabPart ==
    /\ part = "tab" /\ Tab!Next
    /\ UNCHANGED <<part, LadderVars, CacheVars, StaticVars, PullVars,
        WallVars, BatchVars, ReplyVars, ToolVars, ChunkerVars, TokensVars,
        GithubVars, RepoVars, WebVars, EngineVars, OrderVars, GoogleVars,
        RedditVars, PageVars, NotesVars, SiteVars, CorpusVars, RankingVars>>
GooglePart ==
    /\ part = "google" /\ Google!Next
    /\ UNCHANGED <<part, LadderVars, CacheVars, StaticVars, PullVars,
        WallVars, BatchVars, ReplyVars, ToolVars, ChunkerVars, TokensVars,
        GithubVars, RepoVars, WebVars, EngineVars, OrderVars, TabVars,
        RedditVars, PageVars, NotesVars, SiteVars, CorpusVars, RankingVars>>
RedditPart ==
    /\ part = "reddit" /\ Reddit!Next
    /\ UNCHANGED <<part, LadderVars, CacheVars, StaticVars, PullVars,
        WallVars, BatchVars, ReplyVars, ToolVars, ChunkerVars, TokensVars,
        GithubVars, RepoVars, WebVars, EngineVars, OrderVars, TabVars,
        GoogleVars, PageVars, NotesVars, SiteVars, CorpusVars, RankingVars>>
PagePart ==
    /\ part = "page" /\ Page!Next
    /\ UNCHANGED <<part, LadderVars, CacheVars, StaticVars, PullVars,
        WallVars, BatchVars, ReplyVars, ToolVars, ChunkerVars, TokensVars,
        GithubVars, RepoVars, WebVars, EngineVars, OrderVars, TabVars,
        GoogleVars, RedditVars, NotesVars, SiteVars, CorpusVars, RankingVars>>
NotesPart ==
    /\ part = "notes" /\ Notes!Next
    /\ UNCHANGED <<part, LadderVars, CacheVars, StaticVars, PullVars,
        WallVars, BatchVars, ReplyVars, ToolVars, ChunkerVars, TokensVars,
        GithubVars, RepoVars, WebVars, EngineVars, OrderVars, TabVars,
        GoogleVars, RedditVars, PageVars, SiteVars, CorpusVars, RankingVars>>
SitePart ==
    /\ part = "site" /\ Site!Next
    /\ UNCHANGED <<part, LadderVars, CacheVars, StaticVars, PullVars,
        WallVars, BatchVars, ReplyVars, ToolVars, ChunkerVars, TokensVars,
        GithubVars, RepoVars, WebVars, EngineVars, OrderVars, TabVars,
        GoogleVars, RedditVars, PageVars, NotesVars, CorpusVars, RankingVars>>
CorpusPart ==
    /\ part = "corpus" /\ Corpus!Next
    /\ UNCHANGED <<part, LadderVars, CacheVars, StaticVars, PullVars,
        WallVars, BatchVars, ReplyVars, ToolVars, ChunkerVars, TokensVars,
        GithubVars, RepoVars, WebVars, EngineVars, OrderVars, TabVars,
        GoogleVars, RedditVars, PageVars, NotesVars, SiteVars, RankingVars>>
RankingPart ==
    /\ part = "rank" /\ Ranking!Next
    /\ UNCHANGED <<part, LadderVars, CacheVars, StaticVars, PullVars,
        WallVars, BatchVars, ReplyVars, ToolVars, ChunkerVars, TokensVars,
        GithubVars, RepoVars, WebVars, EngineVars, OrderVars, TabVars,
        GoogleVars, RedditVars, PageVars, NotesVars, SiteVars, CorpusVars>>

AllNext ==
    \/ LadderPart
    \/ CachePart
    \/ StaticPart
    \/ PullPart
    \/ WallPart
    \/ BatchPart
    \/ ReplyPart
    \/ ToolPart
    \/ ChunkerPart
    \/ TokensPart
    \/ GithubPart
    \/ RepoPart
    \/ WebPart
    \/ EnginePart
    \/ OrderPart
    \/ TabPart
    \/ GooglePart
    \/ RedditPart
    \/ PagePart
    \/ NotesPart
    \/ SitePart
    \/ CorpusPart
    \/ RankingPart

AllSpec ==
    /\ AllInit /\ [][AllNext]_allVars
    /\ WF_StaticVars(part = "static" /\ Own)
    /\ WF_StaticVars(part = "static" /\ Abort("timeout"))
    /\ WF_PullVars(part = "pull" /\ Pull!Next)
    /\ WF_ToolVars(part = "tool" /\ Tool!CachesRead)
    /\ WF_ToolVars(part = "tool" /\ Tool!ExtractorsRead)
    /\ \A t \in Tools : WF_ToolVars(part = "tool" /\ (Tool!ExtractorsAsked(t) \/ Tool!Import(t) \/ Tool!Loaded(t)))
    /\ \A c \in Four : WF_ToolVars(part = "tool" /\ (Tool!GetRuntime(c) \/ Tool!Rejected(c) \/ Tool!Executed(c)))
    /\ WF_GithubVars(part = "github" /\ (Github!Token \/ Github!Request \/ Github!Pause \/ Github!Logs \/ Github!NoLogs))
    /\ WF_GithubVars(part = "github" /\ Github!GhTimesOut)
    /\ \A s \in {1} : WF_WebVars(part = "web" /\ Web!Timer(s))
    /\ \A s \in {1} : WF_WebVars(part = "web" /\ Web!Collect(s))
    /\ \A s \in {1} : WF_WebVars(part = "web" /\ Web!Answer(s))
    /\ \A s \in {1, 2} : WF_EngineVars(part = "engine" /\ Engine!Deadline(s))
    /\ \A s \in {1, 2} : WF_EngineVars(part = "engine" /\ (Engine!Cached(s) \/ Engine!Ask(s) \/ Engine!Merge(s)))
    /\ WF_TabVars(part = "tab" /\ Tab!Expire)
    /\ WF_TabVars(part = "tab" /\ Tab!Navigate)
    /\ WF_TabVars(part = "tab" /\ Tab!Turn)
    /\ WF_TabVars(part = "tab" /\ tab_late /\ (Tab!Locate \/ Tab!Extract))
    /\ WF_TabVars(part = "tab" /\ (Tab!Create \/ Tab!Open \/ Tab!CloseTab))

-----------------------------------------------------------------------------
\* What was fetched is not lost on its way to the reader: it is not dropped
\* between two chunks, and an answer cut to the caller's tokens still holds
\* words of the page, behind the heading they came from.
NothingDropped ==
    /\ Chunker!FencesClosed /\ Chunker!WordsKept /\ Tokens!BudgetKept

\* Every fetch, pull, call of a tool and call of the GitHub API comes to an end.
FetchesEnd ==
    /\ part = "static" => FetchEnds
    /\ part = "pull" => Pull!PullEnds
    /\ part = "github" => Github!CallEnds
    /\ Tool!CallsAnswered

\* A pull follows redirects of pages no further than MAX_CLIENT_REDIRECTS
\* (content.ts), and ends. It fails where pages redirect to each other.
PullEnds == part = "pull" => Pull!PullEnds


\* Every search ends, whatever does not answer: the one of several lanes, that of
\* each engine and that in a tab.
SearchesEnd ==
    /\ Web!Answered
    /\ part = "engine" => Engine!SearchEnds
    /\ part = "tab" => Tab!SearchEnds
==============================================================================
