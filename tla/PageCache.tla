------------------------------ MODULE PageCache ------------------------------
(* The copies of fetched pages a session keeps (src/session-store.ts), their  *)
(* validators (src/http-validators.ts), and the calls that use both: a fetch  *)
(* with its revalidation, its diff baseline and its copy of last resort (the  *)
(* worker of src/tools/webfetch.ts over pullPageEnhanced() of src/content.ts),*)
(* a prefetch (src/prefetch.ts), a read (src/tools/webcontent.ts).            *)
(*                                                                            *)
(* A page is the time it last changed, which is also its validator.           *)
EXTENDS Naturals, FiniteSets

CONSTANTS
    Calls,          \* calls that may be under way together; each is made again
    Pages,
    Uses,           \* what calls ask for: "page", "diff", "json", "part", "prefetch", "read"
    MaxEntries,     \* MAX_SESSION_CACHE_ENTRIES
    Ttl,            \* SESSION_CACHE_TTL_MS
    MaxNow,         \* bound of the clock
    Down,           \* TRUE: sites may be down, so that a kept copy stands in
    Apart,          \* TRUE: no two calls for one page are under way together
    None

VARIABLES
    now,
    changed,    \* per page: when it last changed
    stored,     \* sessionStore: per page, its copy, [version, asOf, at, mod, part], or None
    older,      \* sessionStore: <<p, q>> when the key of p was put in before that of q
    captured,   \* the side channel: per page, a validator or None
    pc,         \* per call: "idle", "asks", "pulls", "keeps"
    page, use,  \* per call
    cond,       \* per call: the validator its conditional request carries
    base,       \* per call: the version its diff starts from, or None
    pulled,     \* per call: what the pull returned, [version, asOf], or None
    answer      \* of a step that answers from a copy: [kind, page, version, part, asOf, dated]

store == <<stored, older>>
vars == <<now, changed, store, captured, pc, page, use, cond, base, pulled, answer>>

Init ==
    /\ now = 1 /\ changed \in [Pages -> 0 .. 1]
    /\ stored = [p \in Pages |-> None] /\ older = {} /\ captured = [p \in Pages |-> None]
    /\ pc = [c \in Calls |-> "idle"]
    /\ page = [c \in Calls |-> None] /\ use = [c \in Calls |-> None]
    /\ cond = [c \in Calls |-> None] /\ base = [c \in Calls |-> None]
    /\ pulled = [c \in Calls |-> None]
    /\ answer = None

-----------------------------------------------------------------------------
(* session-store.ts and http-validators.ts                                   *)

Expired(e) == now - e.at > Ttl
Has(p) == stored[p] # None
Fresh(p) == Has(p) /\ ~Expired(stored[p])

\* Only the copies of these pages are left.
Keep(ps) ==
    /\ stored' = [p \in Pages |-> IF p \in ps THEN stored[p] ELSE None]
    /\ older' = older \cap (ps \X ps)

\* storeContent(): expired copies go, then the oldest ones down to the cap,
\* also when the copy replaces one; then the validator found is attached.
Store(p, e) ==
    LET fresh == {q \in Pages : Fresh(q)}
        kept == {q \in fresh : Cardinality({r \in fresh : <<q, r>> \in older}) + 1 < MaxEntries}
    IN  /\ stored' = [q \in Pages |-> IF q = p THEN e ELSE IF q \in kept THEN stored[q] ELSE None]
        /\ older' = (older \cap (kept \X kept)) \cup (IF p \in kept THEN {} ELSE kept \X {p})

\* getStoredContent(): an expired copy is deleted on the way.
Get(p) == IF Has(p) /\ Expired(stored[p]) THEN Keep({q \in Pages : Has(q) /\ q # p}) ELSE UNCHANGED store

\* refreshEntryOnNotModified()
Refresh(p) ==
    /\ stored' = IF Has(p) THEN [stored EXCEPT ![p].at = now, ![p].asOf = now] ELSE stored
    /\ UNCHANGED older

-----------------------------------------------------------------------------
Goto(c, next) == pc' = [pc EXCEPT ![c] = next]

Answer(c, kind, version, part, asOf, dated) ==
    answer' = [kind |-> kind, page |-> page[c], version |-> version, part |-> part,
               asOf |-> asOf, dated |-> dated]

\* The call returns; what it had read is gone.
Return(c) ==
    /\ Goto(c, "idle")
    /\ cond' = [cond EXCEPT ![c] = None] /\ base' = [base EXCEPT ![c] = None]
    /\ pulled' = [pulled EXCEPT ![c] = None]
    /\ page' = [page EXCEPT ![c] = None] /\ use' = [use EXCEPT ![c] = None]

\* A fetch whose copy has expired and carries a validator asks first; a diff
\* reads its baseline; a prefetch passes over a page that is fresh.
Begin(c) ==
    /\ pc[c] = "idle"
    /\ \E p \in Pages, u \in Uses \ {"read"} :
         /\ Apart => \A d \in Calls : pc[d] # "idle" => page[d] # p
         /\ page' = [page EXCEPT ![c] = p] /\ use' = [use EXCEPT ![c] = u]
         /\ IF u # "prefetch" /\ Has(p) /\ Expired(stored[p]) /\ stored[p].mod # None
            THEN /\ cond' = [cond EXCEPT ![c] = stored[p].mod] /\ Goto(c, "asks")
                 /\ UNCHANGED <<store, base>>
            ELSE /\ base' = [base EXCEPT ![c] = IF u = "diff" /\ Fresh(p)
                                                THEN stored[p].version ELSE None]
                 /\ IF u \in {"diff", "prefetch"} THEN Get(p) ELSE UNCHANGED store
                 /\ u = "prefetch" => ~Fresh(p)
                 /\ Goto(c, "pulls") /\ UNCHANGED cond
    /\ answer' = None
    /\ UNCHANGED <<now, changed, captured, pulled>>

\* A read deletes the copy it finds expired.
Read(p) ==
    /\ "read" \in Uses
    /\ Get(p) /\ answer' = None
    /\ UNCHANGED <<now, changed, captured, pc, page, use, cond, base, pulled>>

\* Mutant: any answer to the conditional request counts as "not modified".
NotModified_Any(c) == TRUE

\* The site says 304.
NotModified(c) == changed[page[c]] <= cond[c]

\* The answer to the conditional request, or none. On 304 the copy of this
\* moment is served; when it is gone, or on any other answer, the page is pulled.
Asks(c) ==
    LET p == page[c] IN
    /\ pc[c] = "asks"
    /\ \/ /\ NotModified(c)
          /\ Refresh(p)
          /\ IF Has(p)
             THEN Return(c) /\ Answer(c, "304", stored[p].version, stored[p].part, now, now)
             ELSE /\ Goto(c, "pulls") /\ answer' = None
                  /\ cond' = [cond EXCEPT ![c] = None] /\ UNCHANGED <<base, pulled, page, use>>
       \/ /\ base' = [base EXCEPT ![c] = IF use[c] = "diff" /\ Fresh(p)
                                         THEN stored[p].version ELSE None]
          /\ IF use[c] = "diff" THEN Get(p) ELSE UNCHANGED store
          /\ Goto(c, "pulls") /\ answer' = None
          /\ cond' = [cond EXCEPT ![c] = None] /\ UNCHANGED <<pulled, page, use>>
    /\ UNCHANGED <<now, changed, captured>>

\* captureResponseValidators(): nothing is noted when the site sends none.
Capture(p, v) == captured' = [captured EXCEPT ![p] = v]

\* asOf is set for a copy of last resort only.
Pulled(c, v, asOf) ==
    /\ pulled' = [pulled EXCEPT ![c] = [version |-> v, asOf |-> asOf]]
    /\ Goto(c, "keeps")
    /\ UNCHANGED <<cond, base, page, use>>

\* pullPageEnhanced(): a page with or without a validator; a page that is lost
\* on the way to its text; a failure for which the last copy stands in, however
\* old; any other failure.
Pulls(c) ==
    LET p == page[c] IN
    /\ pc[c] = "pulls"
    /\ \/ /\ Pulled(c, changed[p], None) /\ answer' = None
          /\ Capture(p, changed[p]) \/ UNCHANGED captured
       \/ /\ Return(c) /\ answer' = None
          /\ Capture(p, changed[p]) \/ UNCHANGED captured
       \/ /\ Down /\ Has(p)
          /\ Pulled(c, stored[p].version, stored[p].asOf)
          /\ Answer(c, "stale", stored[p].version, stored[p].part, stored[p].asOf, stored[p].at)
          /\ UNCHANGED captured
    /\ UNCHANGED <<now, changed, store>>

Entry(c, mod) ==
    [version |-> pulled[c].version, at |-> now,
     asOf |-> IF pulled[c].asOf = None THEN now ELSE pulled[c].asOf,
     mod |-> mod, part |-> use[c] = "part"]

\* Markdown is stored as returned: a part of a page as a part, a copy of last
\* resort as a new copy. Only the fetch takes the captured validator.
Keeps(c) ==
    LET p == page[c] IN
    /\ pc[c] = "keeps"
    /\ CASE use[c] = "json" -> UNCHANGED <<store, captured>>
         [] use[c] = "prefetch" -> Store(p, Entry(c, None)) /\ UNCHANGED captured
         [] OTHER -> Store(p, Entry(c, captured[p])) /\ captured' = [captured EXCEPT ![p] = None]
    /\ Return(c) /\ answer' = None
    /\ UNCHANGED <<now, changed>>

Tick ==
    /\ now < MaxNow
    /\ now' = now + 1 /\ answer' = None
    /\ \E ps \in SUBSET Pages :
         changed' = [p \in Pages |-> IF p \in ps THEN now' ELSE changed[p]]
    /\ UNCHANGED <<store, captured, pc, page, use, cond, base, pulled>>

Next ==
    \/ \E c \in Calls : Begin(c) \/ Asks(c) \/ Pulls(c) \/ Keeps(c)
    \/ \E p \in Pages : Read(p)
    \/ Tick

Spec == Init /\ [][Next]_vars

-----------------------------------------------------------------------------
\* What a 304 lets the cache answer is the page as it is: this version of it,
\* and all of it. Two calls for one page (Apart), calls for a part of a page,
\* and copies that stand in for a site that is down each break it: a validator
\* noted for one answer is then kept with another.
NotModifiedIsPage ==
    (answer # None /\ answer.kind = "304") =>
        answer.version = changed[answer.page] /\ ~answer.part

\* A copy of last resort is dated by the time its page was had from the site.
\* It fails: the copy that stood in is stored again, as of today.
StaleDateTrue ==
    (answer # None /\ answer.kind = "stale") => answer.dated = answer.asOf

\* A diff of a page of which any copy is kept has a baseline. It fails: the
\* read before the one that would find the expired copy deletes it.
ExpiredStillDiffs ==
    [][\A c \in Calls :
         (pc[c] # "pulls" /\ pc'[c] = "pulls" /\ use'[c] = "diff" /\ Has(page'[c])) =>
            base'[c] # None]_vars

\* While there is room for every page, no copy of last resort is lost. It
\* fails: a store prunes every expired copy, a read deletes its own.
FallbackKept == [][\A p \in Pages : Has(p) => stored'[p] # None]_vars
=============================================================================
