------------------------------ MODULE Discovery ------------------------------
(* Which pages a pull starts from (src/discovery.ts): robots.txt and the      *)
(* sitemaps of a site are read side by side on one budget of fetches, the     *)
(* best list wins; without one the navigation links or a crawl are taken.     *)
EXTENDS Integers, Sequences, FiniteSetsExt, SequencesExt, TLC

CONSTANTS
    Pages,          \* pages of the site, numbered in the order of its documents
    Outside,        \* those of another host or scope
    Landings,       \* those the first request may end at: they set the scope
    Dates,          \* what an entry may say of its age, 0: nothing
    Strategies,     \* robots.txt and the usual names of a sitemap, numbered
    MaxDepth, Budget, MaxPages, NavMin, BatchSize,
    None

Seed == 1           \* the page that was asked for

VARIABLES
    phase,      \* "asked", "sitemaps", "crawl", "done" or "failed"
    landed,     \* the page the first request was redirected to
    date,       \* of each page, as the sitemaps tell
    reading,    \* fetches of sitemaps: strategy, depth
    budget,     \* fetches that are left
    lists,      \* pages found by each strategy
    nav,        \* links of the navigation of the first page
    visited, queue, found, \* of the crawl
    batch,      \* pages that are fetched together
    links,      \* what the answered ones of the batch link to
    result

vars == <<phase, landed, date, reading, budget, lists, nav, visited, queue, found,
          batch, links, result>>

crawlVars == <<visited, queue, found, batch, links>>

Init ==
    /\ phase = "asked" /\ landed \in Landings /\ date \in [Pages -> Dates]
    /\ reading = [s \in Strategies |-> <<>>] /\ budget = Budget
    /\ lists = [s \in Strategies |-> {}] /\ nav = {}
    /\ visited = {} /\ queue = <<>> /\ found = <<>> /\ batch = <<>> /\ links = <<>>
    /\ result = <<>>

-----------------------------------------------------------------------------
\* The choice among what was found

Take(l, n) == SubSeq(l, 1, IF Len(l) < n THEN Len(l) ELSE n)

Ordered(S) == SelectSeq([n \in 1 .. Max(S \cup {0}) |-> n], LAMBDA n : n \in S)

\* rankByRecency(): the newest first, if more than half have a date.
RankByRecency(S) ==
    LET dated == {p \in S : date[p] > 0}
    IN  IF 2 * Cardinality(dated) <= Cardinality(S) THEN Ordered(S)
        ELSE SortSeq(Ordered(dated), LAMBDA p, q :
                 date[p] > date[q] \/ (date[p] = date[q] /\ p < q)) \o Ordered(S \ dated)

\* Mutant: the budget is spent before the order is known.
Picked_Early(S) ==
    LET first == Take(Ordered(S \ Outside), MaxPages)
    IN  RankByRecency({first[i] : i \in DOMAIN first})

\* selectRankedEntries(): what may be pulled, then the order, then the budget.
Picked(S) == Take(RankByRecency(S \ Outside), MaxPages)


\* filterAndDedupe()
Filtered(l) ==
    LET fit == {i \in DOMAIN l : l[i] \notin Outside /\ \A j \in 1 .. i - 1 : l[j] # l[i]}
        at == Ordered(fit)
    IN  Take([n \in DOMAIN at |-> l[at[n]]], MaxPages)

IncludeSeed(p, l) == Take(<<p>> \o Remove(Filtered(l), p), MaxPages)

\* Mutant: the page that was asked for goes last.
Candidate_Last(l) == Take(Append(Remove(Filtered(l), Seed), Seed), MaxPages)

\* includeDiscoverySeed(), for the page the request ended at and the one asked for.
Candidate(l) == IncludeSeed(Seed, IncludeSeed(landed, l))

Newest(s) ==
    LET c == Candidate(Picked(lists[s]))
    IN  Max({0} \cup {date[c[i]] : i \in {j \in DOMAIN c : c[j] \in lists[s]}})

\* The strategy with the longest list, of those the newest, of those the first.
Better(s, t) ==
    LET a == Len(Candidate(Picked(lists[s])))  b == Len(Candidate(Picked(lists[t])))
    IN  \/ a > b
        \/ a = b /\ (Newest(s) > Newest(t) \/ (Newest(s) = Newest(t) /\ s < t))

Useful == {s \in Strategies : lists[s] \ Outside # {}}

Best == CHOOSE s \in Useful : \A t \in Useful \ {s} : Better(s, t)

-----------------------------------------------------------------------------
\* discover()

FirstAnswered ==
    /\ phase = "asked" /\ phase' = "sitemaps"
    /\ \E n \in {{}, Pages} : nav' = n \cup {landed}
    /\ reading' = [s \in Strategies |-> IF s <= Budget THEN <<0>> ELSE <<>>]
    /\ budget' = IF Cardinality(Strategies) < Budget THEN Budget - Cardinality(Strategies) ELSE 0
    /\ UNCHANGED <<landed, date, lists, crawlVars, result>>

FirstFails ==
    /\ phase = "asked" /\ phase' = "failed"
    /\ UNCHANGED <<landed, date, reading, budget, lists, nav, crawlVars, result>>

\* consumeSitemapBudget(), for each of n fetches.
Affordable(n) == IF n < budget THEN n ELSE budget

\* fetchSitemap() and sitemapFromRobots(): a list of pages, or an index whose
\* sitemaps are read one level down, or nothing of use. The batches of an
\* index are not told apart: what it lists is read at once.
SitemapRead(s, i) ==
    /\ phase = "sitemaps"
    /\ \/ /\ \E S \in SUBSET Pages : lists' = [lists EXCEPT ![s] = @ \cup S]
          /\ reading' = [reading EXCEPT ![s] = RemoveAt(@, i)] /\ UNCHANGED budget
       \/ \E kids \in 1 .. 2 :
             LET n == IF reading[s][i] < MaxDepth THEN Affordable(kids) ELSE 0
             IN  /\ reading' = [reading EXCEPT ![s] =
                       RemoveAt(@, i) \o [k \in 1 .. n |-> reading[s][i] + 1]]
                 /\ budget' = budget - n /\ UNCHANGED lists
    /\ UNCHANGED <<phase, landed, date, nav, crawlVars, result>>

SitemapsRead ==
    /\ phase = "sitemaps" /\ \A s \in Strategies : reading[s] = <<>>
    /\ \/ /\ Useful # {} /\ phase' = "done"
          /\ result' = Candidate(Picked(lists[Best])) /\ UNCHANGED queue
       \/ /\ Useful = {} /\ Cardinality(nav) > NavMin /\ phase' = "done"
          /\ result' = Candidate(Ordered(nav)) /\ UNCHANGED queue
       \/ /\ Useful = {} /\ Cardinality(nav) <= NavMin /\ phase' = "crawl"
          /\ queue' = <<landed>> /\ UNCHANGED result
    /\ UNCHANGED <<landed, date, reading, budget, lists, nav, visited, found, batch, links>>

-----------------------------------------------------------------------------
\* crawl()

\* The pages of a batch are marked when it starts.
Marked == visited \cup {batch'[i] : i \in DOMAIN batch'}

BatchLimit == Min({BatchSize, MaxPages - Len(found)})

Batch ==
    /\ phase = "crawl" /\ batch = <<>> /\ queue # <<>> /\ Len(found) < MaxPages
    /\ batch' = SelectSeq(Take(queue, BatchLimit), LAMBDA p : p \notin visited)
    /\ queue' = SubSeq(queue, BatchLimit + 1, Len(queue))
    /\ visited' = Marked
    /\ links' = [i \in DOMAIN batch' |-> None]
    /\ UNCHANGED <<phase, landed, date, reading, budget, lists, nav, found, result>>

\* A page of the batch answers, perhaps as another one, of whichever site, or
\* does not.
Answered(i) ==
    /\ phase = "crawl" /\ links[i] = None
    /\ \/ links' = [links EXCEPT ![i] = {}] /\ UNCHANGED found
       \/ \E p \in {batch[i], landed} \cup Outside, S \in SUBSET (Pages \ Outside) :
             found' = Append(found, p) /\ links' = [links EXCEPT ![i] = S \ visited]
    /\ UNCHANGED <<phase, landed, date, reading, budget, lists, nav, visited, queue, batch, result>>

\* What all of them link to is queued, as far as there is room.
Queued ==
    /\ phase = "crawl" /\ batch # <<>> /\ \A i \in DOMAIN batch : links[i] # None
    /\ LET all == FlattenSeq([i \in DOMAIN batch |-> Ordered(links[i])])
           room == MaxPages - Len(found) - Len(queue)
       IN  queue' = queue \o Take(all, IF room > 0 THEN room ELSE 0)
    /\ batch' = <<>> /\ links' = <<>>
    /\ UNCHANGED <<phase, landed, date, reading, budget, lists, nav, visited, found, result>>

CrawlEnds ==
    /\ phase = "crawl" /\ batch = <<>> /\ (queue = <<>> \/ Len(found) >= MaxPages)
    /\ phase' = "done" /\ result' = Candidate(found)
    /\ UNCHANGED <<landed, date, reading, budget, lists, nav, crawlVars>>

Done == phase \in {"done", "failed"} /\ UNCHANGED vars

Next ==
    \/ FirstAnswered \/ FirstFails \/ SitemapsRead
    \/ \E s \in Strategies : \E i \in DOMAIN reading[s] : SitemapRead(s, i)
    \/ Batch \/ Queued \/ CrawlEnds \/ Done
    \/ \E i \in DOMAIN batch : Answered(i)

Spec == Init /\ [][Next]_vars

-----------------------------------------------------------------------------
\* Whatever the site lists and wherever it redirects to, the pages of a pull
\* begin with the one that was asked for, none is there twice, no other one is of
\* another host or scope; and the crawl and the sitemaps, which are read side by side on
\* one budget, stay within their bounds.
PullFits ==
    /\ Len(found) <= MaxPages /\ budget \in 0 .. Budget
    /\ phase = "done" =>
          /\ Len(result) \in 1 .. MaxPages /\ result[1] = Seed
          /\ \A i, j \in DOMAIN result : i # j => result[i] # result[j]
          /\ \A i \in DOMAIN result : result[i] \notin Outside \ {Seed}

\* If the pages of a sitemap are dated, none that is left out is newer than
\* one that is pulled, but for the pages that are pulled in any case.
NewestPulled ==
    phase = "done" /\ Useful # {} =>
        LET own == lists[Best] \ Outside
            kept == {result[i] : i \in DOMAIN result} \ {Seed, landed}
        IN  (\A p \in own : date[p] > 0) =>
                \A p \in own \ {Seed, landed}, q \in kept : p \notin kept => date[q] >= date[p]

\* No page is fetched twice by the crawl. It fails: a page that is linked twice is
\* queued twice, and may be twice in one batch.
CrawlOnce == \A i, j \in DOMAIN batch : i # j => batch[i] # batch[j]
=============================================================================
