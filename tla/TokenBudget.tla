----------------------------- MODULE TokenBudget -----------------------------
(* An answer is cut to the caller's number of tokens (applyTokenBudget() in   *)
(* src/prune-markdown.ts): sections are packed, a notice and an outline of    *)
(* the headings are added, and what still does not fit, or holds nothing of   *)
(* the page, is shrunk, cut or replaced.                                      *)
(*                                                                            *)
(* A text is a sequence of tokens, each with its kind and its section, and    *)
(* costs one per token. Where a cut falls below its limit is up to the        *)
(* sentences of the text, so it is chosen.                                    *)
EXTENDS Naturals, FiniteSets, FiniteSetsExt, SequencesExt

CONSTANTS
    Docs,           \* [fm |-> frontmatter, secs |-> <<[head, prose, fenced]>>]
    Budgets,        \* the caller's numbers
    Notices,        \* costs of the forms of the notice, long to short
    PruneNotice,    \* cost of the pruner's own notice
    MaxNotice, MinOutline, HeadExtra, MinPartial    \* 30, 10, 5, 80 in the code

VARIABLES
    phase,
    doc, budget, query,
    order,          \* the sections by relevance; document order without a query
    text            \* the answer so far, without its frontmatter

vars == <<phase, doc, budget, query, order, text>>

Max0(n, m) == IF n > m THEN n - m ELSE 0
Least(m, n) == IF m < n THEN m ELSE n
Most(m, n) == IF m < n THEN n ELSE m

-----------------------------------------------------------------------------
(* Texts.                                                                     *)

Tok(k, s) == [k |-> k, s |-> s]
Toks(k, s, n) == [i \in 1 .. n |-> Tok(k, s)]
Has(t, k) == \E i \in 1 .. Len(t) : t[i].k = k
Prefix(t, n) == SubSeq(t, 1, n)
Last0(t, K) == Max({0} \cup {i \in 1 .. Len(t) : t[i].k \in K})

Secs == 1 .. Len(doc.secs)
Headed == {s \in Secs : doc.secs[s].head > 0}
Heading(s) == IF s \in Headed THEN <<Tok("mark", s)>> \o Toks("head", s, doc.secs[s].head)
              ELSE <<>>
Content(s) == LET prose == Toks("prose", s, doc.secs[s].prose)
              IN IF doc.secs[s].fenced
                 THEN <<Tok("open", s)>> \o prose \o <<Tok("close", s)>> ELSE prose

\* A section without a heading stands behind a rule, unless it is the first.
Body == FlattenSeq([s \in Secs |->
            (IF s > 1 /\ s \notin Headed THEN <<Tok("rule", s)>> ELSE <<>>)
            \o Heading(s) \o Content(s)])

Notice(n) == IF n = 0 THEN <<>> ELSE <<Tok("rule", 0)>> \o Toks("note", 0, n - 1)
NoFooter(t) == IF Has(t, "rule") THEN Prefix(t, Last0(t, {"rule"}) - 1) ELSE t
Footer(t) == SubSeq(t, Len(NoFooter(t)) + 1, Len(t))

\* The text from its first token of another kind.
Past(t, K) == LET rest == {i \in 1 .. Len(t) : t[i].k \notin K}
              IN IF rest = {} THEN <<>> ELSE SubSeq(t, Min(rest), Len(t))

prosePrefixSource == Past(Body, {"mark", "head"})
stripLeadingMarkers(t) == Past(t, {"open", "close"})
unwrapLeadingFences(t) ==
    IF t = <<>> \/ t[1].k # "open" THEN t
    ELSE LET ends == {i \in 2 .. Len(t) : t[i].k = "close"}
         IN Tail(IF ends = {} THEN t ELSE RemoveAt(t, Min(ends)))

findUnclosedFence(t) ==
    LET i == Last0(t, {"open", "close"}) IN IF i > 0 /\ t[i].k = "open" THEN i ELSE 0

\* Does a part of the answer hold words of the page, or only what frames them?
carriesPageProse(t) ==
    LET part == NoFooter(t)
    IN IF prosePrefixSource = <<>> THEN Has(part, "head") ELSE Has(part, "prose")

-----------------------------------------------------------------------------
(* Cuts. Each operator is the set of its possible results.                    *)

\* A text that is too long ends somewhere below the limit, with a mark of the cut
\* or without; a heading that leaves room for nothing else is passed over.
trimToTokenBudget(t, n) ==
    IF n = 0 THEN {<<>>} ELSE IF Len(t) <= n THEN {t}
    ELSE LET first == Past(Tail(t), {"head"})
             from == {t} \cup (IF t[1].k = "mark" /\ first # <<>> /\ Len(t) - Len(first) >= n
                               THEN {first} ELSE {})
         IN UNION {{Prefix(u, k) : k \in 1 .. Least(n, Len(u))}
                   \cup {Append(Prefix(u, k), Tok("cut", 0)) : k \in 1 .. Least(n, Len(u) + 1) - 1}
                   : u \in from}

closer(t) == Tok("close", t[findUnclosedFence(t)].s)

\* A section that is kept in part is closed, whatever that costs.
truncateToBudget(t, n) ==
    {IF findUnclosedFence(u) = 0 THEN u ELSE Append(u, closer(u)) : u \in trimToTokenBudget(t, n)}

closeFencesWithin(t, n) ==
    IF findUnclosedFence(t) = 0 THEN {t}
    ELSE IF Len(t) < n THEN {Append(t, closer(t))}
    ELSE {IF findUnclosedFence(u) = 0 THEN u
          ELSE IF Len(u) < n THEN Append(u, closer(u))
          ELSE Prefix(u, findUnclosedFence(u) - 1)
          : u \in trimToTokenBudget(t, Most(1, Max0(n, 1)))}

\* Mutant: a cut keeps the fence open.
trimClosed_Open(t, n) == trimToTokenBudget(t, n)

\* trimToTokenBudgetWithClosedFence(): a marker at the cut without its heading goes.
trimClosed(t, n) ==
    LET bare(u) == Max({0} \cup {i \in 1 .. Len(u) : u[i].k # "mark"})
        S == UNION {closeFencesWithin(u, n) : u \in trimToTokenBudget(t, n)}
    IN IF Len(t) <= n THEN S ELSE {Prefix(u, bare(u)) : u \in S}

\* Headings are lines, and so are the words between them.
wholeLinesWithinBudget(t, n) ==
    Prefix(t, Max({0} \cup {i \in 1 .. Least(n, Len(t)) : i = Len(t) \/ t[i + 1].k # "head"}))

\* The headings of the outline, as sections: whole ones, while there is room.
selectSkeletonLines(cap) ==
    LET step(acc, s) ==
            LET cost == Len(Heading(s))
            IN IF cost = 0 \/ acc.full \/ (cost > cap /\ acc.kept = <<>>) THEN acc
               ELSE IF acc.used + cost > cap THEN [acc EXCEPT !.full = TRUE]
               ELSE [acc EXCEPT !.kept = Append(@, s), !.used = @ + cost]
    IN FoldLeft(step, [kept |-> <<>>, used |-> 0, full |-> FALSE], [s \in Secs |-> s]).kept

Outline(ss) == FlattenSeq([i \in 1 .. Len(ss) |-> Heading(ss[i])])

-----------------------------------------------------------------------------
(* What each consumer of the budget may spend.                                *)

MinContent == Most(1, budget \div 2)
Frontmatter == IF doc.fm + MinContent <= budget THEN doc.fm ELSE 0
Spare == budget - Frontmatter - MinContent
ContentBudget == Most(1, budget - Least(MaxNotice, Spare) - Frontmatter)
outlineBudget(n) == Most(MinOutline, n)

\* pruneBody(): whole sections in the order of relevance, the last one perhaps in part.
Packed ==
    LET room == ContentBudget - ContentBudget \div 10
        step(acc, s) ==
            LET h == acc.used + (IF s \in Headed THEN doc.secs[s].head + HeadExtra ELSE 0)
            IN IF acc.stop THEN acc
               ELSE IF h + Len(Content(s)) <= room
               THEN [acc EXCEPT !.kept = @ \cup {s}, !.used = h + Len(Content(s))]
               ELSE [acc EXCEPT !.stop = TRUE, !.left = Max0(room, h),
                                !.part = IF room > h + MinPartial THEN s ELSE 0]
    IN FoldLeft(step, [kept |-> {}, used |-> 0, stop |-> FALSE, part |-> 0, left |-> 0], order)

\* The pruner's notice is taken off again; of an answer that is nothing else a piece of
\* it may stay.
Pruned ==
    LET p == Packed
        parts == IF p.part = 0 THEN {<<>>} ELSE truncateToBudget(Content(p.part), p.left)
        join(u) == FlattenSeq([s \in Secs |-> IF s \in p.kept THEN Heading(s) \o Content(s)
                                              ELSE IF s = p.part THEN Heading(s) \o u ELSE <<>>])
        note == IF Secs \subseteq p.kept \cup {p.part} THEN 0 ELSE PruneNotice
        fit(t) == IF Len(t) + note <= ContentBudget THEN {t}
                  ELSE IF t # <<>> THEN trimClosed(t, Max0(ContentBudget, note))
                  ELSE {Prefix(Notice(note), k) : k \in 0 .. Least(2, ContentBudget)}
    IN IF Len(Body) <= ContentBudget THEN {Body} ELSE UNION {fit(join(u)) : u \in parts}

-----------------------------------------------------------------------------
Init ==
    /\ phase = "given"
    /\ doc \in Docs /\ budget \in Budgets /\ query \in BOOLEAN
    /\ order \in IF query THEN SetToAllKPermutations(Secs) ELSE {[s \in Secs |-> s]}
    /\ Len(order) = Len(doc.secs)
    /\ text = Body

TypeOK ==
    /\ phase \in {"given", "pruned", "filled", "composed", "fitted", "floored", "done"}
    /\ doc \in Docs /\ budget \in Budgets /\ query \in BOOLEAN /\ order \in Seq(Secs)
    /\ \A i \in 1 .. Len(text) :
           text[i] \in [k : {"mark", "head", "prose", "open", "close", "rule", "cut", "note"},
                        s : Secs \cup {0}]

Given == <<doc, budget, query, order>>
Step(from, to) == phase = from /\ phase' = to /\ UNCHANGED Given

Verbatim ==
    /\ doc.fm + Len(Body) <= budget
    /\ Step("given", "done") /\ text' = text

Prune ==
    /\ doc.fm + Len(Body) > budget
    /\ Step("given", "pruned") /\ text' \in Pruned

\* Nothing of the page was kept: a piece of the best section goes in, under its own
\* heading, and the outline with it.
Fill ==
    /\ Step("pruned", "filled")
    /\ LET best == IF query /\ Len(doc.secs) = 1 THEN 0 ELSE order[1]
           found == best # 0 /\ Content(best) # <<>>
           source == IF found THEN Content(best) ELSE prosePrefixSource
           cap == outlineBudget((ContentBudget * 2) \div 5)
           skel == selectSkeletonLines(cap)
           named == found /\ best \in Headed
           tooBig == named /\ Len(Heading(best)) > cap
           sel == IF named /\ ~tooBig THEN best ELSE 0
           at == Max({0} \cup {i \in 1 .. Len(skel) : skel[i] = sel})
           heading == IF sel # 0 /\ at = 0 THEN Heading(sel) ELSE <<>>
           room == Most(1, Max0(ContentBudget, Len(Outline(skel)) + Len(heading)
                                               + (IF heading # <<>> THEN 1 ELSE 0)))
       IN IF text # <<>> THEN text' = text
          ELSE \E p \in trimClosed(source, room) :
                 text' = IF tooBig \/ (found /\ ~named) THEN p \o Outline(skel)
                         ELSE IF at > 0
                         THEN Outline(SubSeq(skel, 1, at)) \o p \o Outline(SubSeq(skel, at + 1, Len(skel)))
                         ELSE Outline(skel) \o heading \o p

\* The outline stands behind prose that has no heading, and the notice behind all.
Compose ==
    /\ Step("filled", "composed")
    /\ LET base == Notices[1]
           outline == IF Has(text, "mark") THEN <<>>
                      ELSE Outline(selectSkeletonLines(outlineBudget(budget \div 4)))
       IN \E toc \in {0, Max0(Spare, base)} :
            text' = text \o outline \o Notice(base + toc)

shrinkNoticeToRoom(ft) ==
    LET forms == {i \in 1 .. Len(Notices) : Notices[i] <= Spare}
    IN IF Len(ft) <= Spare THEN ft ELSE IF forms = {} THEN <<>> ELSE Notice(Notices[Min(forms)])

Fit ==
    /\ Step("composed", "fitted")
    /\ LET page == NoFooter(text)
           ft == shrinkNoticeToRoom(Footer(text))
           room == budget - Frontmatter
       IN IF Frontmatter + Len(text) <= budget THEN text' = text
          ELSE \E b \in trimClosed(page, Max0(room, Len(ft))) :
                 IF b # <<>> \/ ft = <<>> THEN text' = b \o ft
                 ELSE text' \in trimClosed(IF page # <<>> THEN page ELSE prosePrefixSource, room)

\* The best candidate: page words and closed, page words, closed, anything; 0 for none.
\* Of a source whose own fence stays open (unclosed) no candidate has to be closed.
Choose(cands, unclosed) ==
    LET first(P(_)) == SelectInSeq(cands, P)
        closes(c) == unclosed \/ findUnclosedFence(c) = 0
        ranked == <<first(LAMBDA c : closes(c) /\ carriesPageProse(c)),
                    first(LAMBDA c : carriesPageProse(c)),
                    first(LAMBDA c : closes(c) /\ c # <<>>),
                    first(LAMBDA c : c # <<>>)>>
        some == {i \in 1 .. 4 : ranked[i] # 0}
    IN IF some = {} THEN 0 ELSE ranked[Min(some)]

\* The answer holds no word of the page: the notice goes and the page takes the room.
Floor ==
    /\ Step("fitted", "floored")
    /\ LET source == IF prosePrefixSource = <<>> THEN Body ELSE prosePrefixSource
           room == budget - Frontmatter
           bare == unwrapLeadingFences(source)
           stripped == stripLeadingMarkers(source)
           cuts == trimToTokenBudget(bare, room)
       IN IF Body = <<>> \/ carriesPageProse(text) THEN text' = text
          ELSE \E a \in trimClosed(source, room), b \in cuts,
                  d \in trimToTokenBudget(stripped, room) :
                 /\ bare = stripped => b = d
                 /\ \E c \in closeFencesWithin(b, room) :
                      LET cands == <<a, b, c, d, wholeLinesWithinBudget(source, room),
                                     wholeLinesWithinBudget(stripped, room)>>
                          i == Choose(cands, findUnclosedFence(source) # 0)
                      IN text' = IF i = 0 THEN text ELSE cands[i]

\* Tokens of the page, and of which a query's answer must lose none.
documentTokens(t) == Cardinality({i \in 1 .. Len(t) : t[i].k \notin {"note", "cut"} /\ t[i].s # 0})

supersedesIncumbent(t, c) ==
    \A i \in 1 .. Len(t) :
        t[i].k \in {"head", "prose"} =>
          Cardinality({j \in 1 .. Len(t) : t[j] = t[i]})
            <= Cardinality({j \in 1 .. Len(c) : c[j] = t[i]})

\* selectFullestCandidate(): the top of the page, if that is more of it.
Fullest ==
    /\ Step("floored", "done")
    /\ LET notice == IF Len(Footer(text)) > 1 /\ Footer(text)[2].k = "note"
                     THEN Footer(text) ELSE <<>>
           room == Most(1, budget - Frontmatter - Len(notice))
           better(c) ==
               /\ findUnclosedFence(c) = 0 \/ findUnclosedFence(text) # 0
               /\ carriesPageProse(c)
               /\ query => supersedesIncumbent(NoFooter(text), c)
               /\ documentTokens(c) > documentTokens(text)
       IN \E c \in {u \o notice : u \in trimClosed(Body, room)} :
            text' = IF better(c) THEN c ELSE text

Next == Verbatim \/ Prune \/ Fill \/ Compose \/ Fit \/ Floor \/ Fullest

Spec == Init /\ [][Next]_vars /\ WF_vars(Next)

-----------------------------------------------------------------------------
\* The caller's number is the contract: it bounds the answer with its frontmatter.
Ceiling == phase = "done" => Frontmatter + Len(text) <= budget

\* A page with words yields some of them at every budget; not so where a rule stands
\* before the words.
ContentFloor == phase = "done" /\ prosePrefixSource # <<>> => carriesPageProse(text)

\* Prose never stands behind a heading it did not come from; it may where the first
\* section is empty and the outline has no room for the next heading.
Attribution ==
    phase = "done" =>
      \A i \in 1 .. Len(text) : text[i].k = "prose" =>
        LET before == Last0(Prefix(text, i), {"mark"})
            own == Max({0} \cup {s \in Headed : s <= text[i].s})
        IN before > 0 => text[before].s = own

\* An answer may end inside a fence only where the words of the page left no room to
\* close it; the notice never stands in one.
OpenOnlyForProse ==
    phase = "done" /\ findUnclosedFence(text) # 0 => carriesPageProse(text) /\ ~Has(text, "note")

\* The invariants the code states of a cut answer, and the fences.
BudgetKept == Ceiling /\ ContentFloor /\ Attribution /\ OpenOnlyForProse
=============================================================================
