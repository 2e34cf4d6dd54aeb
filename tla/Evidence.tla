------------------------------ MODULE Evidence ------------------------------
(***************************************************************************)
(* From the pages of a search to its passages and citations: the chunks    *)
(* the chunking service returns (clients/chunker_client.py), the prefilter *)
(* (prefilter.py), the scores of the reranker (clients/reranker_client.py) *)
(* and the floors and budgets on the way out (pipeline.py, assembly.py).   *)
(*                                                                         *)
(* A text is a run of words; positions, lengths and sizes count words, and *)
(* the serialized form of a chunk is ItemOverhead longer than its text.    *)
(* A document is the pair of the final address and the cleaned text, which *)
(* is what document_id_for hashes; an evidence id adds the span.           *)
(***************************************************************************)
EXTENDS SearchBasics

CONSTANTS
  LengthOf,      \* words of each text
  MaxCandidates, \* max_candidates of the prefilter
  BatchSize,     \* of the reranker
  ItemOverhead,
  MaxItem, MaxEvidence, MaxPassages,          \* MAX_EVIDENCE_ITEM_BYTES, MAX_EVIDENCE_BYTES, MAX_PASSAGES
  MaxRawItem, MaxRawBytes, MaxRawItems        \* MAX_RAW_MARKDOWN_*

ASSUME EvidenceConstants ==
  /\ \A b \in DOMAIN LengthOf : LengthOf[b] \in Nat
  /\ MaxCandidates \in Nat \ {0} /\ BatchSize \in Nat \ {0}
  /\ {ItemOverhead, MaxItem, MaxEvidence, MaxPassages} \subseteq Nat
  /\ {MaxRawItem, MaxRawBytes, MaxRawItems} \subseteq Nat

-----------------------------------------------------------------------------
(* ChunkerClient                                                           *)

\* _exact_span: what the service claims is checked against the page.
ExactSpan(item, body) ==
  item.matches /\ 0 <= item.start /\ item.start < item.end /\ item.end <= LengthOf[body]

EvidenceId(doc, start, end) == [doc |-> doc, start |-> start, end |-> end]

\* _chunk_from_item: text that is not found at its span has no span, and is not verbatim.
ChunkOf(page, item) ==
  LET exact == ExactSpan(item, page.body)
      doc == <<page.final, page.body>>
  IN [doc |-> doc, source |-> page.source, position |-> item.position,
      tokens |-> item.tokens, words |-> item.words,
      verbatim |-> exact,
      start |-> IF exact THEN item.start ELSE None,
      end |-> IF exact THEN item.end ELSE None,
      evidence |-> IF exact THEN EvidenceId(doc, item.start, item.end) ELSE None,
      lexical |-> item.lexical, noise |-> item.noise]

ChunksOf(page, items) == [i \in DOMAIN items |-> ChunkOf(page, items[i])]

-----------------------------------------------------------------------------
(* CandidatePrefilterImpl.filter                                           *)

\* _score in hundredths is the overlap with the query and a boost of 1/(position + 1); the
\* fractions are compared by multiplying crosswise.
AheadOf(c, d) ==
  (c.lexical * (c.position + 1) + 1) * (d.position + 1)
    > (d.lexical * (d.position + 1) + 1) * (c.position + 1)
\* Best first, and in order where the scores are equal.
Better(chunks, i, j) ==
  AheadOf(chunks[i], chunks[j]) \/ (~AheadOf(chunks[j], chunks[i]) /\ i < j)

\* Mutant of Prefilter: the best chunks whatever page they are from.
PrefilterBest(chunks) ==
  LET order == InOrder(DOMAIN chunks, LAMBDA i, j : Better(chunks, i, j))
  IN IF Len(chunks) <= MaxCandidates THEN chunks
     ELSE [i \in 1..MaxCandidates |-> chunks[order[i]]]

\* The best chunk of each page comes first, then whatever is best.
Prefilter(chunks) ==
  LET order == InOrder(DOMAIN chunks, LAMBDA i, j : Better(chunks, i, j))
      IsBest(i) == \A j \in DOMAIN chunks :
                     chunks[j].source = chunks[i].source => j = i \/ Better(chunks, i, j)
      queue == Kept(order, IsBest) \o Kept(order, LAMBDA i : ~IsBest(i))
      kept == {queue[k] : k \in 1..MaxCandidates}
      chosen == Kept(order, LAMBDA i : i \in kept)
  IN IF Len(chunks) <= MaxCandidates THEN chunks
     ELSE [k \in DOMAIN chosen |-> chunks[chosen[k]]]

-----------------------------------------------------------------------------
(* RerankerClient.rerank; pipeline._rerank_chunks                          *)

Batches(n) == (n + BatchSize - 1) \div BatchSize
BatchLen(n, k) == IF k * BatchSize <= n THEN BatchSize ELSE n - (k - 1) * BatchSize

\* _parse_payload: pairs of an index, counted from 1, and a score; the first usable one of an
\* index counts.  A batch without one is a failed batch.
Parsed(answer, len) ==
  Ascending({i \in DOMAIN answer :
    answer[i][1] \in 1..len /\ \A j \in 1..(i - 1) : answer[j][1] # answer[i][1]})

\* Indexes and scores of all batches; answers has None for a batch that failed.
ScoresOf(n, answers) ==
  FlattenSeq([k \in 1..Batches(n) |->
    IF answers[k] = None THEN <<>>
    ELSE LET used == Parsed(answers[k], BatchLen(n, k))
         IN [i \in DOMAIN used |->
               <<(k - 1) * BatchSize + answers[k][used[i]][1], answers[k][used[i]][2]>>]])

Least(S) == CHOOSE x \in S : \A y \in S : x <= y

\* Mutant of Reranked: chunks the reranker did not score are dropped.
RerankedOnly(chunks, answers) ==
  LET scores == ScoresOf(Len(chunks), answers)
  IN [i \in DOMAIN scores |-> [chunk |-> chunks[scores[i][1]], score |-> scores[i][2]]]

\* Chunks of failed batches follow with a score below the others.
Reranked(chunks, answers) ==
  LET scores == ScoresOf(Len(chunks), answers)
      floor == Least({scores[i][2] : i \in DOMAIN scores}) - 1
      rest == Ascending({i \in DOMAIN chunks : \A s \in DOMAIN scores : scores[s][1] # i})
  IN [i \in DOMAIN scores |-> [chunk |-> chunks[scores[i][1]], score |-> scores[i][2]]]
     \o [i \in DOMAIN rest |-> [chunk |-> chunks[rest[i]], score |-> floor]]

\* Without the reranker, the position decides: 1/(index + 1) falls with the index.
ByPosition(chunks) ==
  [i \in DOMAIN chunks |-> [chunk |-> chunks[i], score |-> Len(chunks) + 1 - i]]

\* _apply_relevance_floor: None is no floor, and scores by position are not compared with it.
AboveFloor(scored, reranked, floor) ==
  IF ~reranked \/ floor = None THEN scored ELSE Kept(scored, LAMBDA s : s.score > floor)

\* filter_evidence_quality
Quality(scored) == Kept(scored, LAMBDA s : s.chunk.noise = "none")

-----------------------------------------------------------------------------
(* Cutting a text: the identity of verbatim text follows the cut.          *)

\* Mutant of Truncate: the span of the whole chunk stays.
TruncateText(item, n, tokens) ==
  [item EXCEPT !.chunk = [@ EXCEPT !.words = n, !.tokens = tokens]]
\* _truncate
Truncate(item, n, tokens) ==
  LET c == item.chunk
      end == IF c.verbatim THEN c.start + n ELSE None
  IN [item EXCEPT !.chunk =
        [c EXCEPT !.words = n, !.tokens = tokens, !.end = end,
                  !.evidence = IF c.verbatim THEN EvidenceId(c.doc, c.start, end) ELSE None]]

Bytes(item) == ItemOverhead + item.chunk.words

\* _fit_evidence_item: the search by halves finds the longest text that fits, or None.
Fit(item) ==
  LET fits == {n \in 1..(item.chunk.words - 1) : ItemOverhead + n <= MaxItem}
  IN CASE Bytes(item) <= MaxItem -> item
       [] Bytes(item) > MaxItem /\ fits = {} -> None
       [] OTHER -> LET n == CHOOSE m \in fits : \A k \in fits : k <= m
                   IN Truncate(item, n, n)

\* _truncate_to_budget: a text whose words are not its tokens cannot be cut.
CutToBudget(item, budget) ==
  CASE item.chunk.tokens <= budget -> item
    [] item.chunk.tokens > budget /\ (budget < 1 \/ item.chunk.words # item.chunk.tokens) -> None
    [] OTHER -> Truncate(item, budget, budget)

-----------------------------------------------------------------------------
(* _bound_evidence: an item that does not fit is left out, a later one may *)
(* still fit.                                                              *)

BoundOrder(s, t) ==
  \/ s.score > t.score
  \/ /\ s.score = t.score
     /\ \/ s.chunk.doc[1] < t.chunk.doc[1]
        \/ s.chunk.doc[1] = t.chunk.doc[1] /\ s.chunk.position < t.chunk.position

Bound(scored) ==
  Looped(LAMBDA b, s :
      LET fitted == Fit(s)
          more == Bytes(fitted) + IF b.kept = <<>> THEN 0 ELSE 1
      IN IF fitted = None THEN [b EXCEPT !.omitted = @ + 1]
         ELSE IF Len(b.kept) >= MaxPassages \/ b.bytes + more > MaxEvidence
              THEN [b EXCEPT !.omitted = @ + 1]
              ELSE [b EXCEPT !.kept = Append(@, fitted), !.bytes = @ + more],
    [kept |-> <<>>, bytes |-> 2, omitted |-> 0], Sorted(scored, BoundOrder))

-----------------------------------------------------------------------------
(* ResultAssemblerImpl.assemble                                            *)

CitationIndex(citations, doc) ==
  {i \in DOMAIN citations : citations[i].doc = doc}

Span(c) == [start |-> c.start, end |-> c.end, verbatim |-> c.verbatim, evidence |-> c.evidence]

\* _citation_id_for, _add_evidence_span
Cite(citations, c) ==
  LET known == CitationIndex(citations, c.doc)
      with == IF known # {} THEN citations
              ELSE Append(citations, [doc |-> c.doc, source |-> c.source, spans |-> {}])
      id == IF known # {} THEN CHOOSE i \in known : TRUE ELSE Len(citations) + 1
  IN [id |-> id, citations |-> [with EXCEPT ![id].spans = @ \cup {Span(c)}]]

Passage(c, id) ==
  [citation |-> id, doc |-> c.doc, tokens |-> c.tokens, words |-> c.words,
   start |-> c.start, end |-> c.end, verbatim |-> c.verbatim, evidence |-> c.evidence]

Higher(s, t) == s.score > t.score

\* Mutant of Assembled: the budget is compared with what was there before the passage.
AssembledLate(scored, tokenBudget, maxPassages) ==
  Looped(LAMBDA a, s :
      LET cited == Cite(a.citations, s.chunk)
      IN IF \/ maxPassages # None /\ Len(a.passages) >= maxPassages
            \/ a.tokens >= tokenBudget
         THEN a
         ELSE [passages |-> Append(a.passages, Passage(s.chunk, cited.id)),
               citations |-> cited.citations, tokens |-> a.tokens + s.chunk.tokens],
    [passages |-> <<>>, citations |-> <<>>, tokens |-> 0],
    Sorted(scored, Higher))

\* maxPassages is None without a limit.
Assembled(scored, tokenBudget, maxPassages) ==
  Looped(LAMBDA a, s :
      LET cut == CutToBudget(s, tokenBudget - a.tokens)
          cited == Cite(a.citations, cut.chunk)
      IN IF maxPassages # None /\ Len(a.passages) >= maxPassages THEN a
         ELSE IF cut = None THEN a
         ELSE [passages |-> Append(a.passages, Passage(cut.chunk, cited.id)),
               citations |-> cited.citations, tokens |-> a.tokens + cut.chunk.tokens],
    [passages |-> <<>>, citations |-> <<>>, tokens |-> 0],
    Sorted(scored, Higher))

-----------------------------------------------------------------------------
(* _build_raw_markdown: the page each citation is about, as far as it fits. *)

RawMarkdown(pages, citations) ==
  Looped(LAMBDA r, i :
      LET about == {k \in DOMAIN pages : pages[k].source = citations[i].source}
          page == pages[CHOOSE k \in about : TRUE]
          bytes == ItemOverhead + LengthOf[page.body]
          more == bytes + IF r.kept = <<>> THEN 0 ELSE 1
      IN IF about = {} THEN r
         ELSE IF Len(r.kept) >= MaxRawItems \/ bytes > MaxRawItem \/ r.bytes + more > MaxRawBytes
              THEN [r EXCEPT !.omitted = @ + 1]
              ELSE [r EXCEPT !.kept = Append(@, [citation |-> i, body |-> page.body]),
                             !.bytes = @ + more],
    [kept |-> <<>>, bytes |-> 2, omitted |-> 0], Indexes(Len(citations)))
=============================================================================
