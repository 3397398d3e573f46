----------------------------- MODULE CorpusRank ------------------------------
(* The chunks of a corpus that answer a query: rankChunkEntries() of          *)
(* src/webquery-index.ts over the scores of src/bm25.ts, of which only their  *)
(* order counts here, and that a chunk scores when it has a word of the query. *)
EXTENDS Naturals, Sequences, FiniteSets, SequencesExt

CONSTANTS
    Files, Words,   \* Words: those of the query
    Chunks,         \* bound: of the corpus
    TopK, Cap       \* chunks in an answer, and of one file

VARIABLES
    chunks,         \* in the order of their scores, best first
    ranked,         \* indices of those returned, in order
    answered

vars == <<chunks, ranked, answered>>

Init ==
    /\ chunks \in UNION {[1 .. n -> [file : Files, words : SUBSET Words]] :
                            n \in 0 .. Chunks}
    /\ ranked = <<>> /\ answered = FALSE

-----------------------------------------------------------------------------

Largest(a, b) == IF a > b THEN a ELSE b

WordsOf(file) == UNION {chunks[i].words : i \in {j \in DOMAIN chunks : chunks[j].file = file}}
Present == {chunks[i].file : i \in DOMAIN chunks}
Frequency(w) == Cardinality({f \in Present : w \in WordsOf(f)})

\* Mutant: the frequency of a word is counted over chunks.
Discriminative_Chunks ==
    {w \in Words :
        LET df == Cardinality({i \in DOMAIN chunks : w \in chunks[i].words})
        IN  df > 0 /\ df <= Largest(1, (2 * Len(chunks)) \div 3)}

\* discriminativeTerms(): words in some file but in two thirds of them at most;
\* one file is always few enough.
Discriminative ==
    {w \in Words :
        Frequency(w) > 0 /\ Frequency(w) <= Largest(1, (2 * Cardinality(Present)) \div 3)}

Relevant(i) == chunks[i].words \cap Discriminative # {}

\* Mutant: chunks over the cap take the place of others.
Ranking_Late ==
    LET all == SelectSeq([i \in DOMAIN chunks |-> i], Relevant)
        best == SubSeq(all, 1, IF Len(all) < TopK THEN Len(all) ELSE TopK)
    IN  FoldLeft(LAMBDA kept_, i :
            IF Cardinality({j \in Range(kept_) : chunks[j].file = chunks[i].file}) >= Cap
            THEN kept_ ELSE Append(kept_, i), <<>>, best)

\* The best chunks with such a word, no more than Cap of one file.
Ranking ==
    FoldLeft(LAMBDA kept_, i :
        IF \/ Len(kept_) >= TopK
           \/ ~Relevant(i)
           \/ Cardinality({j \in Range(kept_) : chunks[j].file = chunks[i].file}) >= Cap
        THEN kept_ ELSE Append(kept_, i), <<>>, [i \in DOMAIN chunks |-> i])

Rank ==
    /\ ~answered /\ answered' = TRUE
    /\ ranked' = Ranking
    /\ UNCHANGED chunks

Done == answered /\ UNCHANGED vars

Next == Rank \/ Done
Spec == Init /\ [][Next]_vars

-----------------------------------------------------------------------------

Of(file) == {i \in Range(ranked) : chunks[i].file = file}

\* A chunk is left out only for better ones: of its own file, when that has its
\* share, or of any, when the answer is full.
Displaced(i) ==
    \/ Cardinality({j \in Of(chunks[i].file) : j < i}) = Cap
    \/ Len(ranked) = TopK /\ \A j \in Range(ranked) : j < i

\* No file owns the answer, and what its share leaves free goes to other files
\* (rankChunkEntries(), webquery-index.ts).
RankFair ==
    answered =>
        /\ \A f \in Files : Cardinality(Of(f)) <= Cap
        /\ \A i \in DOMAIN chunks \ Range(ranked) : Relevant(i) => Displaced(i)

\* A word of the query that one file alone has finds the chunks of that file,
\* however many it was cut into: a frequency counts files, not chunks
\* (discriminativeTerms(), webquery-index.ts).
RareWordFinds ==
    answered =>
        \A i \in DOMAIN chunks \ Range(ranked) :
            (\E w \in chunks[i].words : Frequency(w) = 1) => Displaced(i)
=============================================================================
