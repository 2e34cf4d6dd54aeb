------------------------------ MODULE Chunking ------------------------------
(***************************************************************************)
(* The semantic chunking service (semantic-chunking-service/chunking): a   *)
(* text is split into segments, the segments are embedded, and grouped     *)
(* into chunks by a dynamic program, or greedily when there are too many   *)
(* of them or no embeddings.                                               *)
(*                                                                         *)
(* A text is a sequence of characters; a character is a letter, the full   *)
(* stop that stands for the marks that end a clause, or white space: a     *)
(* blank, a line break "n", or a tab "t", which is no separator.           *)
(* Positions are those of Python: the first character is at 0.             *)
(***************************************************************************)
EXTENDS ContentBasics

CONSTANTS
  ChunkTexts,    \* bound: texts the service may be asked to chunk
  Strategies,    \* bound: [initial, min, max] tokens a request may ask for
  MaxSegmentsDP, \* CHUNKER_MAX_SEGMENTS_DP
  Directions,    \* what an embedding can be, and
  Cosine         \* the similarity of two of them, a whole number

ASSUME ChunkingConstants ==
  /\ MaxSegmentsDP \in Nat \ {0}
  /\ \A p \in Strategies : p.initial \in Nat \ {0} /\ {p.min, p.max} \subseteq Nat
  /\ \A d, e \in Directions : Cosine[d, e] \in Int /\ Cosine[d, e] = Cosine[e, d]

VARIABLES
  chunkStage, \* what is done next
  request,    \* the text, the strategy, and whether offsets are to be preserved
  segments,   \* [text, start, end] of each
  vectors,    \* of the segments, or Nil
  groups,     \* <<first, last>> segment of each chunk
  results     \* chunks

chunkVars == <<chunkStage, request, segments, vectors, groups, results>>

-----------------------------------------------------------------------------
White == {" ", "n", "t"}
IsBlank(text) == \A i \in DOMAIN text : text[i] \in White

\* len(text.split())
WordCount(text) ==
  Cardinality({i \in DOMAIN text : text[i] \notin White /\ (i = 1 \/ text[i - 1] \in White)})

\* str.strip()
Strip(text) ==
  LET ink == {i \in DOMAIN text : text[i] \notin White}
  IN IF ink = {} THEN <<>> ELSE SubSeq(text, Min(ink), Max(ink))

\* preclean, as far as it is the same for every source type
Prepared(text, preserve) == IF preserve THEN text ELSE Strip(text)

-----------------------------------------------------------------------------
(* RecursiveCharacterTextSplitter, without overlap.  An item is a piece of *)
(* the text; it is open if it still has to be split by a later separator.  *)

Separators == << <<"n", "n">>, <<"n">>, <<".", " ">>, <<" ">> >>

\* Where the matches of a separator end, from left to right.
MatchEnds(text, sep) ==
  FoldLeft(LAMBDA ends, i :
      IF /\ i + Len(sep) - 1 <= Len(text) /\ SubSeq(text, i, i + Len(sep) - 1) = sep
         /\ (ends = <<>> \/ Last(ends) < i)
      THEN Append(ends, i + Len(sep) - 1) ELSE ends,
    <<>>, [i \in DOMAIN text |-> i])

\* _split_with_separator: a separator stays at the end of its piece.
Pieces(text, sep) ==
  LET ends == MatchEnds(text, sep)
      cuts == IF ends # <<>> /\ Last(ends) = Len(text) THEN ends ELSE Append(ends, Len(text))
  IN [k \in DOMAIN cuts |-> SubSeq(text, IF k = 1 THEN 1 ELSE cuts[k - 1] + 1, cuts[k])]

\* list(text)
Characters(text) == [i \in DOMAIN text |-> <<text[i]>>]

Closed(text) == [text |-> text, open |-> FALSE]
Flushed(m) == IF m.text = <<>> THEN m.items ELSE Append(m.items, Closed(m.text))

\* Mutant of Merged: what was gathered before a piece that is too long is lost.
MergedDropping(pieces, size) ==
  Flushed(FoldLeft(LAMBDA m, p :
      CASE WordCount(p) > size ->
             [items |-> Append(m.items, [text |-> p, open |-> TRUE]), text |-> <<>>, words |-> 0]
        [] WordCount(p) <= size /\ m.text # <<>> /\ m.words + WordCount(p) > size ->
             [items |-> Flushed(m), text |-> p, words |-> WordCount(p)]
        [] OTHER -> [m EXCEPT !.text = @ \o p, !.words = @ + WordCount(p)],
    [items |-> <<>>, text |-> <<>>, words |-> 0], pieces))

\* _merge_splits of the runs of pieces that are short enough; the others stay open.
Merged(pieces, size) ==
  Flushed(FoldLeft(LAMBDA m, p :
      CASE WordCount(p) > size ->
             [items |-> Append(Flushed(m), [text |-> p, open |-> TRUE]), text |-> <<>>, words |-> 0]
        [] WordCount(p) <= size /\ m.text # <<>> /\ m.words + WordCount(p) > size ->
             [items |-> Flushed(m), text |-> p, words |-> WordCount(p)]
        [] OTHER -> [m EXCEPT !.text = @ \o p, !.words = @ + WordCount(p)],
    [items |-> <<>>, text |-> <<>>, words |-> 0], pieces))

\* _find_best_separator: an item waits for the first separator it contains.
SplitBy(items, sep, size) ==
  FlattenSeq([i \in DOMAIN items |->
    IF items[i].open /\ MatchEnds(items[i].text, sep) # <<>>
    THEN Merged(Pieces(items[i].text, sep), size) ELSE <<items[i]>>])

\* _split_text_recursive; a character is never longer than a segment may be.
Split(text, size) ==
  LET pieces == FoldLeft(LAMBDA items, sep : SplitBy(items, sep, size),
                         << [text |-> text, open |-> TRUE] >>, Separators)
      last == FlattenSeq([i \in DOMAIN pieces |->
                IF pieces[i].open THEN Merged(Characters(pieces[i].text), size)
                ELSE <<pieces[i]>>])
  IN [i \in DOMAIN last |-> last[i].text]

\* split_text_with_spans
SpansOf(texts) ==
  LET end[k \in 0..Len(texts)] == IF k = 0 THEN 0 ELSE end[k - 1] + Len(texts[k])
  IN [k \in DOMAIN texts |-> [text |-> texts[k], start |-> end[k - 1], end |-> end[k]]]

\* text.find(part, from), or -1
Find(text, part, from) ==
  LET at == {i \in Occurrences(part, text) : i >= from}
  IN IF at = {} THEN -1 ELSE Min(at)

\* _calculate_segment_positions: each segment is searched for behind the one before.
Positions(text, texts) ==
  LET pos[k \in 0..Len(texts)] ==
        IF k = 0 THEN <<0, 0>>
        ELSE LET part == Strip(texts[k])
                 from == pos[k - 1][2]
                 at == Find(text, part, from)
             IN CASE part = <<>> -> <<from, from>>
                  [] part # <<>> /\ at # -1 -> <<at, at + Len(part)>>
                  [] OTHER -> <<from, Min({from + Len(texts[k]), Len(text)})>>
  IN [k \in DOMAIN texts |-> [text |-> texts[k], start |-> pos[k][1], end |-> pos[k][2]]]

-----------------------------------------------------------------------------
(* Grouping                                                                *)

N == Len(segments)
TokensIn(i, j) == FoldLeft(LAMBDA s, k : s + WordCount(segments[k].text), 0, [k \in 1..(j - i) |-> i + k])

\* _calculate_chunk_reward of the segments i+1..j: every pair once.
Reward(i, j) ==
  MapThenSumSet(LAMBDA p : Cosine[vectors[p[1]], vectors[p[2]]],
                {p \in (i + 1..j) \X (i + 1..j) : p[1] < p[2]})

\* Mutant of Candidate: the minimum holds for the last chunk as well.
CandidateStrict(best, dp, i, j) ==
  IF dp[j] = Nil \/ TokensIn(j, i) < request.strategy.min THEN best
  ELSE LET total == dp[j].reward + Reward(j, i)
       IN IF best = Nil \/ total > best.reward THEN [reward |-> total, parent |-> j] ELSE best

\* _evaluate_chunk_candidate: only the last chunk may be smaller than the minimum.
Candidate(best, dp, i, j) ==
  IF dp[j] = Nil \/ (TokensIn(j, i) < request.strategy.min /\ i < N) THEN best
  ELSE LET total == dp[j].reward + Reward(j, i)
       IN IF best = Nil \/ total > best.reward THEN [reward |-> total, parent |-> j] ELSE best

\* _fill_dp_table: the shortest chunk is tried first, up to the first one that is too long.
RewardTable ==
  LET dp[i \in 0..N] ==
        IF i = 0 THEN [reward |-> 0, parent |-> 0]
        ELSE FoldLeft(LAMBDA best, k : IF TokensIn(i - k, i) > request.strategy.max THEN best
                                       ELSE Candidate(best, dp, i, i - k),
                      Nil, [k \in 1..i |-> k])
  IN dp

\* The chunks along the parents of n
Backtrack(dp) ==
  LET path[i \in 0..N] == IF i = 0 THEN <<>> ELSE Append(path[dp[i].parent], <<dp[i].parent + 1, i>>)
  IN path[N]

\* _greedy_fallback_chunking, _greedy_merge_by_similarity: a chunk ends before segment i if it
\* would be too long, or if i is weak and it has the minimum.
Greedy(weak) ==
  LET done == FoldLeft(LAMBDA g, i :
                LET tokens == TokensIn(g.start - 1, i - 1)
                IN IF /\ g.start < i
                      /\ \/ tokens + WordCount(segments[i].text) > request.strategy.max
                         \/ i \in weak /\ tokens >= request.strategy.min
                   THEN [groups |-> Append(g.groups, <<g.start, i - 1>>), start |-> i] ELSE g,
              [groups |-> <<>>, start |-> 1], [i \in 1..N |-> i])
  IN Append(done.groups, <<done.start, N>>)

ByTokens == Greedy({})

\* np.percentile(adjacent, 25) is between two of the sorted similarities; here, four times it.
Adjacent == [k \in 1..(N - 1) |-> Cosine[vectors[k], vectors[k + 1]]]
Threshold ==
  LET sorted == SortSeq(Adjacent, LAMBDA a, b : a < b)
      f == (N - 2) \div 4
      r == (N - 2) % 4
  IN 4 * sorted[f + 1] + r * (sorted[IF r = 0 THEN f + 1 ELSE f + 2] - sorted[f + 1])

BySimilarity == Greedy({i \in 2..N : 4 * Adjacent[i - 1] < Threshold})

\* _dynamic_programming_chunking
Optimal == IF RewardTable[N] = Nil THEN ByTokens ELSE Backtrack(RewardTable)

-----------------------------------------------------------------------------
(* chunk of the service                                                    *)

\* resolve_strategy
Accepted(p) == p.initial <= p.max /\ p.min <= p.max

Reject ==
  /\ chunkStage = "asked" /\ ~Accepted(request.strategy)
  /\ chunkStage' = "rejected"
  /\ UNCHANGED <<request, segments, vectors, groups, results>>

ChunkText == Prepared(request.text, request.preserve)

\* _segment_text; a text of blanks has no segments.
Segment ==
  /\ chunkStage = "asked" /\ Accepted(request.strategy)
  /\ LET texts == IF IsBlank(ChunkText) THEN <<>> ELSE Split(ChunkText, request.strategy.initial)
     IN /\ segments' = IF request.preserve THEN SpansOf(texts) ELSE Positions(ChunkText, texts)
        /\ chunkStage' = CASE texts = <<>> -> "done" [] Len(texts) = 1 -> "single" [] OTHER -> "embed"
  /\ UNCHANGED <<request, vectors, groups, results>>

\* _single_segment_result; without offsets, its place is not searched for.
Single ==
  LET s == segments[1]
  IN /\ chunkStage = "single"
     /\ results' = << [text |-> s.text, start |-> IF request.preserve THEN s.start ELSE 0,
                       end |-> IF request.preserve THEN s.end ELSE Len(s.text),
                       tokens |-> WordCount(s.text), verbatim |-> request.preserve, degraded |-> FALSE] >>
     /\ chunkStage' = "done"
     /\ UNCHANGED <<request, segments, vectors, groups>>

\* _generate_embeddings_for_segments: an error or another number of vectors is no embedding.
Embed ==
  /\ chunkStage = "embed"
  /\ \E v \in [1..N -> Directions] \cup {Nil} : vectors' = v
  /\ chunkStage' = "group"
  /\ UNCHANGED <<request, segments, groups, results>>

Group ==
  /\ chunkStage = "group"
  /\ groups' = CASE vectors = Nil -> ByTokens
                 [] vectors # Nil /\ N > MaxSegmentsDP -> BySimilarity
                 [] OTHER -> Optimal
  /\ chunkStage' = "build"
  /\ UNCHANGED <<request, segments, vectors, results>>

\* " ".join of the segments of a chunk
Joined(i, j) ==
  FoldLeft(LAMBDA t, k : LET part == Strip(segments[k].text)
                         IN IF part = <<>> THEN t ELSE IF t = <<>> THEN part ELSE t \o <<" ">> \o part,
           <<>>, [k \in 1..(j - i + 1) |-> i + k - 1])

\* _build_chunk_results: a chunk of blanks is left out.
Built(g) ==
  LET start == segments[g[1]].start
      end == segments[g[2]].end
      text == IF request.preserve THEN SubSeq(ChunkText, start + 1, end) ELSE Joined(g[1], g[2])
  IN [text |-> text, start |-> start, end |-> end,
      tokens |-> IF request.preserve THEN WordCount(text) ELSE TokensIn(g[1] - 1, g[2]),
      verbatim |-> request.preserve, degraded |-> vectors = Nil]

Build ==
  /\ chunkStage = "build"
  /\ results' = SelectSeq([k \in DOMAIN groups |-> Built(groups[k])], LAMBDA c : ~IsBlank(c.text))
  /\ chunkStage' = "done"
  /\ UNCHANGED <<request, segments, vectors, groups>>

\* Nothing, or a request to chunk a text
ChunkStart(stage, r) ==
  /\ chunkStage = stage /\ request = r
  /\ segments = <<>> /\ vectors = Nil /\ groups = Nil /\ results = <<>>

ChunkIdle == ChunkStart("idle", Nil)
ChunkInit ==
  \E t \in ChunkTexts, p \in Strategies, b \in BOOLEAN :
    ChunkStart("asked", [text |-> t, strategy |-> p, preserve |-> b])

ChunkNext == Reject \/ Segment \/ Single \/ Embed \/ Group \/ Build

-----------------------------------------------------------------------------
(* Properties                                                              *)

\* Every way of cutting the segments into chunks, and those within the limits: only the last
\* chunk may be smaller than the minimum.
Groupings ==
  {LET ends == SelectSeq([i \in 1..N |-> i], LAMBDA i : i \in cuts \cup {N})
   IN [k \in DOMAIN ends |-> <<IF k = 1 THEN 1 ELSE ends[k - 1] + 1, ends[k]>>]
     : cuts \in SUBSET (1..(N - 1))}
Feasible(G) ==
  \A k \in DOMAIN G :
    LET tokens == TokensIn(G[k][1] - 1, G[k][2])
    IN tokens <= request.strategy.max /\ (k = Len(G) \/ tokens >= request.strategy.min)
Worth(G) == FoldLeft(LAMBDA s, g : s + Reward(g[1] - 1, g[2]), 0, G)

\* cluster_semantic.py:56 ("globally optimal"): with embeddings, no grouping within the limits
\* is worth more than the one that was chosen, and it is within them if any is.  Without, or if
\* none is, the chunks still cover the segments in order and none is too long.
GroupsAreBest ==
  groups # Nil =>
    LET allowed == {G \in Groupings : Feasible(G)}
    IN /\ groups \in Groupings
       /\ \A k \in DOMAIN groups :
            TokensIn(groups[k][1] - 1, groups[k][2]) <= request.strategy.max
       /\ vectors # Nil /\ N <= MaxSegmentsDP /\ allowed # {} =>
            groups \in allowed /\ \A G \in allowed : Worth(G) <= Worth(groups)

\* docs/architecture/url-identity-and-outcomes.md:51: the chunks of a page quote it, each at its
\* place, in order, and leave out nothing but white space; none is longer than the strategy
\* allows, whichever way it was made.
ChunksAreVerbatim ==
  chunkStage = "done" =>
    /\ \A k \in DOMAIN results :
         /\ results[k].tokens <= request.strategy.max /\ ~IsBlank(results[k].text)
         /\ 0 <= results[k].start /\ results[k].end <= Len(ChunkText)
         /\ k > 1 => results[k - 1].end <= results[k].start
    /\ request.preserve =>
         /\ \A k \in DOMAIN results :
              /\ results[k].verbatim
              /\ results[k].text = SubSeq(ChunkText, results[k].start + 1, results[k].end)
         /\ \A i \in DOMAIN ChunkText :
              \/ ChunkText[i] \in White
              \/ \E k \in DOMAIN results : results[k].start < i /\ i <= results[k].end
=============================================================================
