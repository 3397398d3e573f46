---------------------------- MODULE ResultOrder ----------------------------
(* How the results of all engines become one list (src/search.ts and          *)
(* src/tools/websearch.ts). searchWeb() ranks what its engines found; the     *)
(* tool takes the first of them, adds what the other lanes found and ranks    *)
(* again. Results of one address share a bucket, buckets are ranked by a      *)
(* score, no domain crowds the top; at the end a redirect of Google to a page *)
(* that is listed is dropped, and the list is cut.                            *)
EXTENDS Naturals, Sequences, FiniteSetsExt, SequencesExt

CONSTANTS
    EngineResults,  \* what the engines of searchWeb() may list
    LaneResults,    \* what the other lanes may list
    MaxEngines, MaxLanes, \* lengths of their lists
    HttpWeight,     \* of the lane of searchWeb()
    Cap,            \* results of a domain at the top
    MaxResults,     \* results of searchWeb() that are taken
    MaxTotal        \* results that are shown

\* A result: [weight, domain, title, direct, spelling]. Titles are numbered; one
\* that divides another is its prefix. The address is a page or a redirect of
\* Google, in some spelling; 0 is the canonical one.

VARIABLES
    phase,  \* "found", "ranked", "capped", "listed" or "shown"
    lane,   \* "http" in searchWeb(), "all" in the tool
    engines, lanes, \* what was found
    list    \* the results, or the buckets made of them

found == <<engines, lanes>>
vars == <<phase, lane, found, list>>

Init ==
    /\ phase = "found" /\ lane = "http"
    /\ engines \in UNION {[1 .. n -> EngineResults] : n \in 0 .. MaxEngines}
    /\ lanes \in UNION {[1 .. n -> LaneResults] : n \in 0 .. MaxLanes}
    /\ list = engines

-----------------------------------------------------------------------------
\* The address that tells buckets apart: searchWeb() takes it as it is, the
\* tool its canonicalizeUrl(), where tracking and spelling do not count. A
\* redirect is an address of its own.
Key(r) == [domain |-> r.domain, title |-> r.title, direct |-> r.direct,
           spelling |-> IF lane = "http" THEN r.spelling ELSE 0]

Bucket(k) == SelectSeq(list, LAMBDA r : Key(r) = k)

\* The score of a bucket: the engines of its results and that they agree.
\* The source type and the query are not told apart here.
Score(k) ==
    FoldSeq(LAMBDA r, sum : r.weight + sum, 0, Bucket(k)) + 2 * (Len(Bucket(k)) - 1)

\* The place of a bucket before the sort: where its first result was.
First(k) == Min({i \in DOMAIN list : Key(list[i]) = k})

Before(k, l) == Score(k) > Score(l) \/ (Score(k) = Score(l) /\ First(k) < First(l))

Ranked == SetToSortSeq({Key(list[i]) : i \in DOMAIN list}, Before)

Rank ==
    /\ phase = "found" /\ phase' = "ranked"
    /\ list' = Ranked
    /\ UNCHANGED <<lane, found>>

\* Results of the same domain before the i-th one.
Ahead(l, i) == Cardinality({j \in 1 .. i - 1 : l[j].domain = l[i].domain})

\* The results of a list at the places where P holds.
Pick(l, P(_)) == LET at == SetToSortSeq({i \in DOMAIN l : P(i)}, LAMBDA i, j : i < j)
                 IN  [n \in DOMAIN at |-> l[at[n]]]

\* Mutant: what is more than the cap is dropped.
Diverse_Drops(l) == Pick(l, LAMBDA i : Ahead(l, i) < Cap)

\* Mutant: what is more than the cap goes first.
Diverse_First(l) ==
    Pick(l, LAMBDA i : Ahead(l, i) >= Cap) \o Pick(l, LAMBDA i : Ahead(l, i) < Cap)

\* applyDomainDiversityCap(): more than the cap of a domain goes to the end.
Diverse(l) ==
    Pick(l, LAMBDA i : Ahead(l, i) < Cap) \o Pick(l, LAMBDA i : Ahead(l, i) >= Cap)

Diversify ==
    /\ phase = "ranked" /\ phase' = "capped"
    /\ list' = Diverse(list)
    /\ UNCHANGED <<lane, found>>

Take(l, n) == SubSeq(l, 1, Min({Len(l), n}))

\* buildResultBuckets() of the first results of searchWeb(), and
\* mergeIntoBuckets() of those of the other lanes.
Merge ==
    /\ lane = "http" /\ phase = "capped"
    /\ lane' = "all" /\ phase' = "found"
    /\ LET http == Take(list, MaxResults)
       IN  list' = [i \in DOMAIN http |-> http[i] @@ [weight |-> HttpWeight]] \o lanes
    /\ UNCHANGED found

Overlap(t, u) == t % u = 0 \/ u % t = 0

\* r is a redirect to the page d, as far as domain and title tell.
Redirects(r, d) ==
    ~r.direct /\ d.direct /\ d.domain = r.domain /\ Overlap(r.title, d.title)

\* dropGoogleRedirectDuplicates()
Listed(l) == Pick(l, LAMBDA i : ~\E j \in DOMAIN l : Redirects(l[i], l[j]))

Drop ==
    /\ lane = "all" /\ phase = "capped" /\ phase' = "listed"
    /\ list' = Listed(list)
    /\ UNCHANGED <<lane, found>>

Cut ==
    /\ phase = "listed" /\ phase' = "shown"
    /\ list' = Take(list, MaxTotal)
    /\ UNCHANGED <<lane, found>>

Done == phase = "shown" /\ UNCHANGED vars

Next == Rank \/ Diversify \/ Merge \/ Drop \/ Cut \/ Done

Spec == Init /\ [][Next]_vars

-----------------------------------------------------------------------------
SamePage(r, s) == r.domain = s.domain /\ r.title = s.title /\ r.direct = s.direct

Found(r) == \E s \in Range(engines) \cup Range(lanes) : SamePage(r, s)

\* What is shown was found, no page of it twice, in no two spellings, nor a
\* redirect beside the page it leads to; and what the cap made of a ranking has
\* every domain within its share until one exceeds it.
OnceEach ==
    /\ \A i \in DOMAIN list : Found(list[i])
    /\ phase = "shown" => \A i, j \in DOMAIN list : i # j =>
          ~SamePage(list[i], list[j]) /\ ~Redirects(list[i], list[j])
    /\ phase = "capped" => \A i, j \in DOMAIN list :
          Ahead(list, i) >= Cap /\ i < j => Ahead(list, j) >= Cap

\* A page that was found and is not shown has made room: the list is full; or
\* searchWeb() had more than it may give, counting spellings of a page as
\* pages; or it is a redirect to a page of the list.
NoPageLost ==
    phase = "shown" => \A r \in Range(engines) \cup Range(lanes) :
        \/ \E i \in DOMAIN list : SamePage(list[i], r) \/ Redirects(r, list[i])
        \/ Len(list) = MaxTotal
        \/ /\ ~\E s \in Range(lanes) : SamePage(r, s)
           /\ Cardinality({[s EXCEPT !.weight = 0] : s \in Range(engines)}) > MaxResults

\* The shares are kept in what is shown. It fails: a redirect is dropped after
\* the cap was applied, and what stood behind it moves up.
SharesKept ==
    phase = "shown" => \A i, j \in DOMAIN list :
        Ahead(list, i) >= Cap /\ i < j => Ahead(list, j) >= Cap

\* A redirect that would be shown is dropped for a page that is shown. It fails:
\* that page may stand behind the cut, where the redirect did not.
DroppedForShown ==
    [][Drop => \A i \in DOMAIN Take(list, MaxTotal) : \E j \in DOMAIN Take(list', MaxTotal) :
          list'[j] = list[i] \/ Redirects(list[i], list'[j])]_vars
=============================================================================
