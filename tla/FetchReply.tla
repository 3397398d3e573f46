----------------------------- MODULE FetchReply ------------------------------
(* The reply of aio-webfetch for one target (src/tools/webfetch.ts): the text *)
(* of the page is kept whole, in a file, among the pages of the session and   *)
(* under a result id; the reply shows as much of it as the call asks for and  *)
(* says where the rest is.                                                    *)
EXTENDS Naturals

CONSTANTS
    Formats,        \* output formats asked for
    Unmodified,     \* TRUE: a page may be answered from the copy of the session
    None

Places == {"file", "cache", "id"}

VARIABLES
    phase,      \* "new", "fetched", "kept", "pruned", "told"
    want,       \* the options of the call
    size,       \* of the page: 1 a preview holds it, 2, 3 too long for a cut
    json,       \* the page is one JSON value
    body,       \* the text at hand: "whole", "excerpt", "diff", or None
    kept,       \* per place: the text it holds, or None
    summaries,  \* the page has a summary in summaryCache
    shows,      \* what the reply shows: "all" or the name of a view, or None
    told        \* the places where the reply says that the page is

vars == <<phase, want, size, json, body, kept, summaries, shows, told>>

Options == [format : Formats, prune : BOOLEAN, outline : BOOLEAN, query : BOOLEAN,
            summarize : BOOLEAN, diff : BOOLEAN]

Init ==
    /\ phase = "new" /\ want \in Options
    /\ size \in 1 .. 3 /\ json \in BOOLEAN
    /\ body = None /\ kept = [p \in Places |-> None]
    /\ summaries = FALSE /\ shows = None /\ told = {}

\* The format of the result: a page that was not modified is markdown.
Format == IF kept["cache"] # None /\ kept["file"] = None THEN "markdown" ELSE want.format

\* The pull, or a 304 answered by the copy of the session.
Fetched ==
    /\ phase = "new"
    /\ phase' = "fetched"
    /\ body' = "whole"
    /\ kept' \in {kept} \cup (IF Unmodified THEN {[kept EXCEPT !["cache"] = "whole"]} ELSE {})
    /\ UNCHANGED <<want, size, json, summaries, shows, told>>

\* Mutant: the bound on the reply bounds what is kept.
Text_Pruned == IF want.prune /\ size > 1 THEN "excerpt" ELSE body

Text == body

\* Markdown goes to its file and to the session, and every format to the
\* results. The text of a diff replaces the body after it is kept.
Keep ==
    /\ phase = "fetched"
    /\ phase' = "kept"
    /\ kept' = IF kept["cache"] # None THEN [kept EXCEPT !["id"] = body]
               ELSE IF want.format = "markdown" THEN [p \in Places |-> Text]
               ELSE [kept EXCEPT !["id"] = Text]
    /\ body' = IF want.diff /\ (kept["cache"] # None \/ want.format = "markdown")
               THEN "diff" ELSE body
    /\ UNCHANGED <<want, size, json, summaries, shows, told>>

\* displayBodyForFormat(): only markdown is pruned, and only for the reply.
Prune ==
    /\ phase = "kept"
    /\ phase' = "pruned"
    /\ IF want.prune /\ Format = "markdown" /\ size > 1
       THEN body' = "excerpt" /\ size' \in 1 .. size
       ELSE UNCHANGED <<body, size>>
    /\ UNCHANGED <<want, json, kept, summaries, shows, told>>

-----------------------------------------------------------------------------
\* The label of the reply: markdown is said to be saved, other formats to have an id.
Label == IF Format = "markdown" THEN {"file"} ELSE {"id"}

\* A notice names the file, or, when there is none, what stands for it.
Notice(other) == IF kept["file"] # None THEN {"file"} ELSE {other}

Tell(view, places) ==
    /\ phase = "pruned"
    /\ phase' = "told" /\ shows' = view /\ told' = Label \cup places
    /\ UNCHANGED <<want, size, json, body, kept>>

Outline == want.outline /\ Format = "markdown"
Answers == want.query /\ ~want.prune /\ Format = "markdown"
Summarizes == want.summarize /\ ~Outline /\ size > 1

\* The answer mode: the chunks that fit the query, if there are any.
AnswerMode ==
    /\ Answers
    /\ Tell("chunks", Notice("id") \cup {"cache"})
    /\ UNCHANGED summaries

\* A summary: the cached one, a new one, or a digest that is not kept.
Summary ==
    /\ Summarizes
    /\ Tell("summary", Notice("id"))
    /\ summaries' \in {summaries, TRUE}

OutlineMode ==
    /\ Outline
    /\ Tell("outline", {"cache"})
    /\ UNCHANGED summaries

Preview ==
    /\ ~Outline
    /\ \/ json /\ size > 1 /\ Tell("json", {"id"} \cup (IF kept["file"] # None THEN {"file"} ELSE {}))
       \/ size = 1 /\ Tell(IF body = "whole" THEN "all" ELSE body, {})
       \/ ~json /\ size = 2 /\ Tell("cut", Notice("id"))
       \/ ~json /\ size = 3 /\ Tell("frugal", Notice("cache") \cup {"cache"})
    /\ UNCHANGED summaries

\* The page is fetched again by a call with other options.
Again ==
    /\ phase = "told"
    /\ phase' = "new" /\ want' \in Options
    /\ size' \in 1 .. 3
    /\ body' = None /\ kept' = [p \in Places |-> None] /\ shows' = None /\ told' = {}
    /\ UNCHANGED <<json, summaries>>

Next ==
    \/ Fetched \/ Keep \/ Prune
    \/ AnswerMode \/ Summary \/ OutlineMode \/ Preview
    \/ Again

Spec == Init /\ [][Next]_vars

-----------------------------------------------------------------------------
\* A reply that does not show the whole page names a place that has it whole.
WholeSomewhere ==
    phase = "told" /\ shows # "all" => \E p \in told : kept[p] = "whole"

\* Every place that the reply names has the page. It fails: a page that was not
\* modified is said to be saved to a file, and a long page in another format
\* than markdown to be among the pages of the session.
ToldTrue == phase = "told" => \A p \in told : kept[p] # None
=============================================================================
