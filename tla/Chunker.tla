------------------------------- MODULE Chunker -------------------------------
(* chunkMarkdown() of src/chunker.ts: a text is cut into blocks at its blank  *)
(* lines, never within fenced code, and the blocks are packed into chunks of  *)
(* a few tokens; a block of code that is too large is cut at its lines, each  *)
(* piece closing the fence it is in and the next one opening it again.        *)
EXTENDS Naturals, Sequences, SequencesExt, FiniteSetsExt

CONSTANTS
    Costs,          \* tokens of a line of text or code
    Literals,       \* TRUE: code may hold a line that looks like an opening
    MaxTokens,
    MaxLines        \* bound: of the text

MarkerCost == 1

(* A line is a fence marker alone ("fence"), a marker with the name of a      *)
(* language ("lang"), blank, or words. Items of a chunk are lines, parts of   *)
(* lines and the markers that the splitter adds (of line 0).                  *)
Item(kind, line, cost) == [kind |-> kind, line |-> line, cost |-> cost]
Marker == Item("fence", 0, MarkerCost)
Lines(n) ==
    {Item("fence", n, MarkerCost), Item("blank", n, 0)}
    \cup {Item("words", n, c) : c \in Costs}
    \cup {Item("lang", n, MarkerCost) : l \in {TRUE} \cap {Literals}}

Opens(line) == line.kind \in {"fence", "lang"}
Closes(line) == line.kind = "fence"
Tokens(items) == FoldLeft(LAMBDA sum, i : sum + i.cost, 0, items)

VARIABLES
    phase,          \* "lines", "units", "fenced" (within a large block) or "done"
    count,          \* lines read
    blocks, buf,    \* blocks so far, and the lines of the next one
    fence,          \* the line being read is within a fence
    unit,           \* the block being packed
    current,        \* items packed for the next chunk
    at,             \* the line of the large block
    left,           \* tokens of that line still to be placed
    reopen,         \* pendingReopen
    hasContent,
    chunks

split == <<at, left, reopen, hasContent>>
vars == <<phase, count, blocks, buf, fence, unit, current, split, chunks>>

Init ==
    /\ phase = "lines" /\ count = 0
    /\ blocks = <<>> /\ buf = <<>> /\ fence = FALSE
    /\ unit = 1 /\ current = <<>>
    /\ at = 1 /\ left = 0 /\ reopen = FALSE /\ hasContent = FALSE
    /\ chunks = <<>>

-----------------------------------------------------------------------------
(* splitTopLevelBlocks(): one line of the text. *)

Flushed == IF buf = <<>> THEN blocks ELSE Append(blocks, buf)

ReadLine ==
    /\ phase = "lines" /\ count < MaxLines
    /\ count' = count + 1
    /\ \E line \in Lines(count + 1) :
        CASE fence ->
                 /\ buf' = Append(buf, line) /\ fence' = ~Closes(line)
                 /\ UNCHANGED blocks
          [] ~fence /\ Opens(line) ->
                 /\ blocks' = Flushed /\ buf' = <<line>> /\ fence' = TRUE
          [] ~fence /\ line.kind = "blank" ->
                 /\ blocks' = Flushed /\ buf' = <<>> /\ UNCHANGED fence
          [] OTHER ->
                 /\ buf' = Append(buf, line) /\ UNCHANGED <<blocks, fence>>
    /\ fence' => count' < MaxLines
    /\ UNCHANGED <<phase, unit, current, split, chunks>>

\* The text ends, here with each of its fences closed.
EndOfText ==
    /\ phase = "lines" /\ ~fence
    /\ blocks' = Flushed /\ buf' = <<>>
    /\ phase' = "units"
    /\ UNCHANGED <<count, fence, unit, current, split, chunks>>

-----------------------------------------------------------------------------
(* accumulateChunks(): one block. *)

Block == blocks[unit]
Sealed == IF current = <<>> THEN chunks ELSE Append(chunks, current)

Pack ==
    /\ phase = "units" /\ unit <= Len(blocks)
    /\ Tokens(Block) <= MaxTokens
    /\ unit' = unit + 1
    /\ IF Tokens(current) + Tokens(Block) > MaxTokens
       THEN chunks' = Sealed /\ current' = Block
       ELSE current' = current \o Block /\ UNCHANGED chunks
    /\ UNCHANGED <<phase, count, blocks, buf, fence, split>>

\* Mutant: each piece starts one token late.
Piece_Gap(items, from, to) ==
    [i \in DOMAIN items |->
        LET before == Tokens(SubSeq(items, 1, i - 1))
            upto(t) == Min({Max({t, before}), before + items[i].cost})
        IN  [items[i] EXCEPT !.cost = upto(to) - Min({upto(to), upto(from + 1)})]]

\* splitOversized(): a paragraph is kept when it has few characters, or cut
\* between words.
Piece(items, from, to) ==
    [i \in DOMAIN items |->
        LET before == Tokens(SubSeq(items, 1, i - 1))
            upto(t) == Min({Max({t, before}), before + items[i].cost})
        IN  [items[i] EXCEPT !.cost = upto(to) - upto(from)]]

Paragraph ==
    /\ phase = "units" /\ unit <= Len(blocks)
    /\ Tokens(Block) > MaxTokens /\ ~Opens(Block[1])
    /\ unit' = unit + 1 /\ current' = <<>>
    /\ LET n == (Tokens(Block) + MaxTokens - 1) \div MaxTokens
       IN  \/ chunks' = Append(Sealed, Block)
           \/ chunks' = Sealed \o [i \in 1 .. n |-> Piece(Block, (i - 1) * MaxTokens, i * MaxTokens)]
    /\ UNCHANGED <<phase, count, blocks, buf, fence, split>>

Fenced ==
    /\ phase = "units" /\ unit <= Len(blocks)
    /\ Tokens(Block) > MaxTokens /\ Opens(Block[1])
    /\ chunks' = Sealed /\ current' = <<>>
    /\ phase' = "fenced" /\ at' = 1 /\ left' = 0 /\ reopen' = FALSE /\ hasContent' = FALSE
    /\ UNCHANGED <<count, blocks, buf, fence, unit>>

EndOfBlocks ==
    /\ phase = "units" /\ unit > Len(blocks)
    /\ chunks' = Sealed /\ current' = <<>> /\ phase' = "done"
    /\ UNCHANGED <<count, blocks, buf, fence, unit, split>>

-----------------------------------------------------------------------------
(* splitFencedAtLines(): one line of the block, or one part of a long line.   *)
(* Each line costs one token more than its words.                             *)

Spent(items) == Tokens(items) + Len(items)
CloserCost == IF fence THEN MarkerCost + 1 ELSE 0
OpenerCost(pending) == IF pending THEN MarkerCost + 1 ELSE 0

\* Mutant: a piece ends where its lines end.
Emit_Open ==
    IF current = <<>> \/ ~hasContent
    THEN [chunks |-> chunks, current |-> current, reopen |-> reopen, hasContent |-> hasContent]
    ELSE [chunks |-> Append(chunks, current),
          current |-> <<>>, reopen |-> fence, hasContent |-> FALSE]

\* emit(): the piece so far, its fence closed; nothing while it holds markers
\* only.
Emit ==
    IF current = <<>> \/ ~hasContent
    THEN [chunks |-> chunks, current |-> current, reopen |-> reopen, hasContent |-> hasContent]
    ELSE [chunks |-> Append(chunks, IF fence THEN Append(current, Marker) ELSE current),
          current |-> <<>>, reopen |-> fence, hasContent |-> FALSE]

\* begin(): a line is added to the piece s, after the marker that opens its
\* fence again; a marker that would close that fence at once is not added.
Begin(s, line) ==
    IF s.reopen /\ fence /\ Closes(line)
    THEN [s EXCEPT !.reopen = FALSE]
    ELSE [s EXCEPT
            !.current = @ \o (IF s.reopen THEN <<Marker>> ELSE <<>>) \o <<line>>,
            !.reopen = FALSE,
            !.hasContent = @ \/ line.kind = "words"]

Becomes(s) ==
    /\ chunks' = s.chunks /\ current' = s.current
    /\ reopen' = s.reopen /\ hasContent' = s.hasContent

Pieces == [chunks |-> chunks, current |-> current, reopen |-> reopen, hasContent |-> hasContent]

Full(line) == current # <<>> /\ Spent(current) + line.cost + 1 + CloserCost > MaxTokens

SplitLine ==
    /\ phase = "fenced" /\ at <= Len(Block) /\ left = 0
    /\ LET line == Block[at]
       IN  IF line.cost > MaxTokens
           THEN /\ Becomes(Emit) /\ left' = line.cost
                /\ UNCHANGED <<at, fence>>
           ELSE /\ Becomes(Begin(IF Full(line) THEN Emit ELSE Pieces, line))
                /\ fence' = IF fence THEN ~Closes(line) ELSE Opens(line)
                /\ at' = at + 1 /\ UNCHANGED left
    /\ UNCHANGED <<phase, count, blocks, buf, unit>>

\* A part of a line that no piece can hold, each part a piece of its own.
SplitPart ==
    /\ phase = "fenced" /\ left > 0
    /\ LET overhead == Spent(current) + OpenerCost(reopen) + CloserCost
           part == Min({left, IF overhead + 1 < MaxTokens THEN MaxTokens - overhead ELSE 1})
           begun == Begin(Pieces, [Block[at] EXCEPT !.cost = part])
       IN  /\ chunks' = Append(begun.chunks, IF fence THEN Append(begun.current, Marker)
                                                     ELSE begun.current)
           /\ current' = <<>> /\ reopen' = fence /\ hasContent' = FALSE
           /\ left' = left - part
           /\ at' = IF left = part THEN at + 1 ELSE at
    /\ UNCHANGED <<phase, count, blocks, buf, fence, unit>>

EndOfBlock ==
    /\ phase = "fenced" /\ at > Len(Block)
    /\ chunks' = Emit.chunks /\ current' = <<>>
    /\ phase' = "units" /\ unit' = unit + 1
    /\ UNCHANGED <<count, blocks, buf, fence, split>>

Done == phase = "done" /\ UNCHANGED vars

Next ==
    \/ ReadLine \/ EndOfText
    \/ Pack \/ Paragraph \/ Fenced \/ EndOfBlocks
    \/ SplitLine \/ SplitPart \/ EndOfBlock
    \/ Done

Spec == Init /\ [][Next]_vars

-----------------------------------------------------------------------------

\* Within a fence after these items: where a reader of the chunk stands.
InFence(items) == FoldLeft(LAMBDA in, i : IF in THEN ~Closes(i) ELSE Opens(i), FALSE, items)

\* A chunk closes each fence that it opens, wherever a block of code was cut,
\* so that no chunk ends inside code (chunkMarkdown(), chunker.ts).
FencesClosed == phase = "done" => \A i \in DOMAIN chunks : ~InFence(chunks[i])

\* No words are dropped or repeated: over all chunks each line appears with as
\* many tokens as it has, whichever pieces it was cut into ("dropping would
\* silently delete code", chunker.ts).
All == FlattenSeq(chunks)
Placed(line) == FoldLeft(LAMBDA sum, i : IF i.line = line THEN sum + i.cost ELSE sum, 0, All)
WordsKept ==
    phase = "done" =>
        \A b \in DOMAIN blocks : \A i \in DOMAIN blocks[b] :
            blocks[b][i].kind = "words" => Placed(blocks[b][i].line) = blocks[b][i].cost

\* The same of the lines that only look like the opening of a fence.
LiteralsKept ==
    phase = "done" =>
        \A b \in DOMAIN blocks : \A i \in 2 .. Len(blocks[b]) :
            blocks[b][i].kind = "lang" => Placed(blocks[b][i].line) = blocks[b][i].cost
=============================================================================
