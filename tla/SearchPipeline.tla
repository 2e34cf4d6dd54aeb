--------------------------- MODULE SearchPipeline ---------------------------
(***************************************************************************)
(* One search (pipeline.py, run_search): plan, discover, select, fetch,    *)
(* chunk, rerank, assemble.  Every service is asked once and answers,      *)
(* fails or runs into the deadline of its stage; some failures end the     *)
(* search, others degrade it, and the deadline of the route ends it at any *)
(* time.  A step ends where the code awaits a service.                     *)
(***************************************************************************)
EXTENDS Discovery, Evidence, CrawlAnswer

CONSTANTS
  Queries,        \* what may be asked of the search provider; the request is one of them
  Query,          \* the query of the request
  MaxSubqueries,  \* max_subqueries and max_internal_fanout, the smaller one
  MaxFanout,      \* max_internal_fanout
  FingerprintOf,  \* of each text: the text without regard to white space
  UnsafeHosts,    \* hosts that resolve to addresses the safety policy blocks
  Searches        \* bound: what the request asks for and what the services may answer

\* A result of the search provider, and a chunk of the chunking service: text that is found at
\* its span is as long as the span.
SearchItem ==
  [url : Urls, score : Int \cup {None}, engines : Seq(Engines), positions : Seq(Int \cup {None})]
ChunkItem ==
  {c \in [start : Int, end : Int, words : Nat, tokens : Nat, matches : BOOLEAN,
          position : Nat, lexical : Nat, noise : STRING] : c.matches => c.words = c.end - c.start}

\* A chunk, after it was checked against its page
Document == Urls \X DOMAIN LengthOf
Evidenced == [doc : Document, start : Nat, end : Nat]
ChunkRecord ==
  [doc : Document, source : Nat, position : Nat, tokens : Nat, words : Nat, verbatim : BOOLEAN,
   start : Nat \cup {None}, end : Nat \cup {None}, evidence : Evidenced \cup {None},
   lexical : Nat, noise : STRING]

\* What a request asks for, with the operator's settings
RequestOK(s) ==
  /\ s.maxUrls \in Nat \ {0} /\ s.tokenBudget \in Nat \ {0} /\ s.maxPassages \in Nat \cup {None}
  /\ {s.excludes, s.operatorBlocks} \subseteq SUBSET Domains
  /\ {s.domains, s.operatorAllows} \subseteq (SUBSET Domains) \cup {None}
  /\ s.floor \in Int \cup {None} /\ {s.raw, s.quality} \subseteq BOOLEAN

\* What the services answer
AnswersOK(s) ==
  /\ \A p \in s.plans : p = None \/ p \in Seq(Queries)
  /\ \A a \in s.answers :
       a = None \/ (a.items \in Seq(SearchItem) /\ a.unresponsive \subseteq Engines)
  /\ \A a \in s.fetches :
       /\ a.code # "content" /\ a.envelope \in Envelope /\ a.item \in Item
       /\ a.final \in Urls /\ a.body \in DOMAIN LengthOf
  /\ DOMAIN s.chunkings = DOMAIN LengthOf
  /\ \A b \in DOMAIN LengthOf : \A a \in s.chunkings[b] : a = None \/ a \in Seq(ChunkItem)
  /\ \A a \in s.ranks : a = None \/ a \in Seq(Int \X Int)

ASSUME SearchConstants ==
  /\ Query \in Queries /\ MaxSubqueries \in Nat \ {0} /\ MaxFanout \in Nat \ {0}
  /\ DOMAIN FingerprintOf = DOMAIN LengthOf /\ IsFiniteSet(Engines)
  /\ None \notin [chunk : ChunkRecord, score : Int]
  /\ \A s \in Searches : RequestOK(s) /\ AnswersOK(s)

VARIABLES
  search,   \* the request, the settings, and what the services may answer
  stage,    \* the service that is awaited, or "done"
  queries,  \* of the provider
  merged,   \* discovery results
  selected, \* of them, to be fetched
  pages,    \* fetched, then those that are left with their source_id
  chunks,   \* sent to the reranker
  stats,    \* counters and codes of SearchStats
  response, \* status of the answer, and its passages, citations and raw Markdown
  asked,    \* history: addresses the crawler was asked for
  offered   \* history: pages that have chunks

vars == <<search, stage, queries, merged, selected, pages, chunks, stats, response, asked, offered>>

NoStats ==
  [discovery |-> "ok", failedQueries |-> 0, failedEngines |-> 0, found |-> 0,
   discovered |-> 0, chosen |-> 0, diagnosed |-> 0, undiagnosed |-> 0, crawled |-> 0, failed |-> 0,
   codes |-> <<>>, deduped |-> 0, produced |-> 0, prefiltered |-> 0, sent |-> 0,
   reranked |-> FALSE, scored |-> 0, floorFilled |-> FALSE, belowFloor |-> 0, noise |-> 0,
   evidenceOmitted |-> 0, rawOmitted |-> 0, tokens |-> 0, reason |-> "none"]

NoResponse == [status |-> "none", passages |-> <<>>, citations |-> <<>>, raw |-> <<>>]

-----------------------------------------------------------------------------
(* The request                                                             *)

\* _request_limits
MaxUrlsOf(s) == IF s.maxUrls <= MaxFanout THEN s.maxUrls ELSE MaxFanout

\* _selection_filters: the operator's allowlist cannot be widened.
Blocked(s) == s.operatorBlocks \cup s.excludes
Allowed(s) ==
  CASE s.operatorAllows = None -> s.domains
    [] s.operatorAllows # None /\ s.domains = None -> s.operatorAllows
    [] OTHER -> s.domains \cap s.operatorAllows

\* crawl_url_safety: the operator's domains and the safety of the host
OperatorAllows(s, u) ==
  /\ HostOf[u] # None /\ ~Matches(u, s.operatorBlocks)
  /\ s.operatorAllows = None \/ Matches(u, s.operatorAllows)
CrawlSafe(s, u) == OperatorAllows(s, u) /\ HostOf[u] \notin UnsafeHosts

-----------------------------------------------------------------------------
(* Ends                                                                    *)

Respond(st, r) == stage' = "done" /\ stats' = st /\ response' = r
\* _timed_empty_response
Empty(st, reason) == Respond([st EXCEPT !.reason = reason], [NoResponse EXCEPT !.status = "ok"])
\* SearchDependencyUnavailable
Unavailable(dependency) == Respond(stats, [NoResponse EXCEPT !.status = dependency])
GoOn(next, st) == stage' = next /\ stats' = st /\ UNCHANGED response

-----------------------------------------------------------------------------
(* _planned_subqueries                                                     *)

\* A planner that fails, is late or plans nothing leaves the query itself.
Planned(plan) == IF plan \in {None, <<>>} THEN <<Query>>
                 ELSE SubSeq(plan, 1, IF Len(plan) <= MaxSubqueries THEN Len(plan) ELSE MaxSubqueries)

Plan ==
  /\ stage = "plan"
  /\ \E plan \in search.plans : queries' = Planned(plan)
  /\ GoOn("discover", stats)
  /\ UNCHANGED <<search, merged, selected, pages, chunks, asked, offered>>

-----------------------------------------------------------------------------
(* _discover_results                                                       *)

\* Mutant of DiscoveryStatus: failed subqueries do not count.
DiscoveryStatusOfEngines(nothing, failures, failed) ==
  CASE failures = {} -> "ok" [] failures # {} /\ nothing -> "unavailable" [] OTHER -> "degraded"
DiscoveryStatus(nothing, failures, failed) ==
  CASE failures = {} /\ failed = 0 -> "ok"
    [] (failures # {} \/ failed > 0) /\ nothing -> "unavailable"
    [] OTHER -> "degraded"

\* All subqueries are asked at once; an answer is None, or items and engines that failed.
Discover ==
  /\ stage = "discover"
  /\ \E answers \in [DOMAIN queries -> search.answers] :
       LET ok == Ascending({i \in DOMAIN queries : answers[i] # None})
           sets == [k \in DOMAIN ok |-> Parse(answers[ok[k]].items, queries[ok[k]])]
           all == MergeDedup(sets, [k \in DOMAIN ok |-> queries[ok[k]]])
           failures == UNION {answers[ok[k]].unresponsive : k \in DOMAIN ok}
           failed == Len(queries) - Len(ok)
           st == [stats EXCEPT
                    !.discovery = DiscoveryStatus(all = <<>>, failures, failed),
                    !.failedQueries = failed, !.failedEngines = Cardinality(failures),
                    !.found = Sum(Len(sets), LAMBDA k : Len(sets[k])),
                    !.discovered = Len(all)]
       IN CASE ok = <<>> -> Unavailable("searxng") /\ merged' = <<>>
            [] ok # <<>> /\ all = <<>> ->
                 /\ Empty(st, IF st.discovery = "unavailable" THEN "search_provider_unavailable"
                              ELSE "no_results_from_discovery")
                 /\ merged' = <<>>
            [] OTHER -> GoOn("safety", st) /\ merged' = all
  /\ UNCHANGED <<search, queries, selected, pages, chunks, asked, offered>>

-----------------------------------------------------------------------------
(* _safe_candidates, _select_results                                       *)

\* A filter that fails leaves nothing.
SelectUrls ==
  /\ stage = "safety"
  /\ \E works \in search.filterWorks :
       LET safe == IF works THEN Kept(merged, LAMBDA r : HostOf[r.url] # None
                                                              /\ HostOf[r.url] \notin UnsafeHosts)
                   ELSE <<>>
           picked == Select(safe, MaxUrlsOf(search), Blocked(search), Allowed(search))
           rest == Kept(safe, LAMBDA r : ~IsPicked(picked, r))
           told == Diagnosed(picked, rest)
           st == [stats EXCEPT !.chosen = Len(picked), !.diagnosed = Len(told.kept),
                               !.undiagnosed = told.omitted]
       IN IF picked = <<>>
          THEN /\ Empty(st, "no_urls_after_selection")
               /\ UNCHANGED <<merged, selected, asked>>
          ELSE /\ GoOn("fetch", st)
               /\ merged' = safe /\ selected' = picked
               /\ asked' = {r.url : r \in ToSet(picked)}
  /\ UNCHANGED <<search, queries, pages, chunks, offered>>

-----------------------------------------------------------------------------
(* _fetch_pages, _clean_pages, _dedupe_pages                               *)

SearchCapabilities == {"markdown", "javascript", "links", "metadata"}

\* What the crawler says of an address; the stage's deadline answers for all of them.
CodeOf(u, a) ==
  IF a.code # "answered" THEN a.code
  ELSE OutcomeCode(a.envelope, a.item, a.final # u /\ ~CrawlSafe(search, a.final),
                   SearchCapabilities)

\* content_dedup: the first page of each text counts, and is numbered.
Deduped(found) ==
  LET first == Ascending({i \in DOMAIN found :
                 \A j \in 1..(i - 1) : FingerprintOf[found[j].body] # FingerprintOf[found[i].body]})
  IN [k \in DOMAIN first |-> [found[first[k]] EXCEPT !.source = k]]

Fetch ==
  /\ stage = "fetch"
  /\ \E outcome \in [DOMAIN selected -> search.fetches] :
       LET code(i) == CodeOf(selected[i].url, outcome[i])
           good == Ascending({i \in DOMAIN selected : code(i) = "content"})
           found == [k \in DOMAIN good |->
                       [requested |-> selected[good[k]].url, final |-> outcome[good[k]].final,
                        body |-> outcome[good[k]].body, source |-> None]]
           st == [stats EXCEPT !.codes = [i \in DOMAIN selected |-> code(i)],
                               !.crawled = Len(good), !.failed = Len(selected) - Len(good)]
       IN IF found = <<>> THEN Empty(st, "all_crawls_failed") /\ pages' = <<>>
          ELSE /\ pages' = Deduped(found)
               /\ GoOn("chunk", [st EXCEPT !.deduped = Len(found) - Len(pages')])
  /\ UNCHANGED <<search, queries, merged, selected, chunks, asked, offered>>

\* The stage's deadline: no address has an answer.
FetchDeadline ==
  /\ stage = "fetch"
  /\ Empty([stats EXCEPT !.codes = [i \in DOMAIN selected |-> "deadline_cancelled"],
                         !.failed = Len(selected)], "all_crawls_failed")
  /\ UNCHANGED <<search, queries, merged, selected, pages, chunks, asked, offered>>

-----------------------------------------------------------------------------
(* _chunk_pages, _prefilter_chunks                                         *)

\* A page the service rejects has no chunks, unless it rejects all of them.
Chunk ==
  /\ stage = "chunk"
  /\ \E answer \in {f \in [DOMAIN pages -> UNION {search.chunkings[pages[i].body] : i \in DOMAIN pages}] :
                      \A i \in DOMAIN pages : f[i] \in search.chunkings[pages[i].body]} :
       LET taken == {i \in DOMAIN pages : answer[i] # None}
           all == FlattenSeq([i \in DOMAIN pages |->
                    IF i \in taken THEN ChunksOf(pages[i], answer[i]) ELSE <<>>])
           kept == Prefilter(all)
           st == [stats EXCEPT !.produced = Len(all), !.sent = Len(kept),
                               !.prefiltered = Len(all) - Len(kept)]
       IN /\ CASE taken = {} -> Unavailable("chunker") /\ UNCHANGED chunks
               [] taken # {} /\ all = <<>> -> Empty(st, "no_chunks_after_dedup") /\ UNCHANGED chunks
               [] OTHER -> GoOn("rerank", st) /\ chunks' = kept
          /\ offered' = {all[i].source : i \in DOMAIN all}
  /\ UNCHANGED <<search, queries, merged, selected, pages, asked>>

\* ChunkerUnavailable: one page's answer is an error or malformed, or the deadline passes.
ChunkerFails ==
  /\ stage = "chunk"
  /\ Unavailable("chunker")
  /\ UNCHANGED <<search, queries, merged, selected, pages, chunks, asked, offered>>

-----------------------------------------------------------------------------
(* _rerank_chunks to _assemble_search_response                             *)

\* Nothing is awaited between the reranker's answer and the response.
Finish(scored, reranked, count) ==
  LET above == AboveFloor(scored, reranked, search.floor)
      clean == IF search.quality THEN Quality(above) ELSE above
      bound == Bound(clean)
      built == Assembled(bound.kept, search.tokenBudget, search.maxPassages)
      raw == IF search.raw THEN RawMarkdown(pages, built.citations)
             ELSE [kept |-> <<>>, omitted |-> 0]
      scoredStats == [stats EXCEPT !.reranked = reranked, !.scored = count,
                        !.floorFilled = reranked /\ count < Len(chunks),
                        !.belowFloor = Len(scored) - Len(above)]
      cleanStats == [scoredStats EXCEPT !.noise = Len(above) - Len(clean)]
      boundStats == [cleanStats EXCEPT !.evidenceOmitted = bound.omitted]
  IN CASE above = <<>> -> Empty(scoredStats, "no_chunks_after_rerank")
       [] above # <<>> /\ clean = <<>> -> Empty(cleanStats, "no_evidence_after_quality_gate")
       [] clean # <<>> /\ bound.kept = <<>> ->
            Empty(boundStats, "no_evidence_after_output_budget")
       [] OTHER ->
            Respond([boundStats EXCEPT !.tokens = built.tokens, !.rawOmitted = raw.omitted],
                    [status |-> "ok", passages |-> built.passages,
                     citations |-> built.citations, raw |-> raw.kept])

Rerank ==
  /\ stage = "rerank"
  /\ \E answers \in [1..Batches(Len(chunks)) -> search.ranks] :
       LET scores == ScoresOf(Len(chunks), answers)
       IN IF scores = <<>> THEN Finish(ByPosition(chunks), FALSE, 0)
          ELSE Finish(Reranked(chunks, answers), TRUE, Len(scores))
  /\ UNCHANGED <<search, queries, merged, selected, pages, chunks, asked, offered>>

\* The stage's deadline passes before all batches are answered: their scores are lost.
RerankDeadline ==
  /\ stage = "rerank"
  /\ Finish(ByPosition(chunks), FALSE, 0)
  /\ UNCHANGED <<search, queries, merged, selected, pages, chunks, asked, offered>>

\* run_search: the deadline of the route.
RouteDeadline ==
  /\ stage # "done"
  /\ Respond(stats, [NoResponse EXCEPT !.status = "deadline"])
  /\ UNCHANGED <<search, queries, merged, selected, pages, chunks, asked, offered>>

-----------------------------------------------------------------------------
Init ==
  /\ search \in Searches
  /\ stage = "plan" /\ queries = <<>> /\ merged = <<>> /\ selected = <<>> /\ pages = <<>>
  /\ chunks = <<>> /\ stats = NoStats /\ response = NoResponse /\ asked = {} /\ offered = {}

Next == Plan \/ Discover \/ SelectUrls \/ Fetch \/ FetchDeadline \/ Chunk \/ ChunkerFails
        \/ Rerank \/ RerankDeadline \/ RouteDeadline

Spec == Init /\ [][Next]_vars

-----------------------------------------------------------------------------
(* Properties                                                              *)

Answered == stage = "done" /\ response.status = "ok"
\* A text that was cut counts a token for each word.
SizeOf(c) == IF c.words > c.tokens THEN c.words ELSE c.tokens
TokensOf(passages) == Sum(Len(passages), LAMBDA i : passages[i].tokens)

\* README and docs/architecture/url-identity-and-outcomes.md:51: a passage quotes the page its
\* citation names, at the span it names, also after it was cut to a budget; the page came from
\* an address the search selected, and where that redirected, from one the operator allows.
EvidenceIsFaithful ==
  Answered =>
    /\ \A i \in DOMAIN response.passages :
         LET p == response.passages[i]
         IN /\ p.citation \in DOMAIN response.citations
            /\ response.citations[p.citation].doc = p.doc
            /\ Span(p) \in response.citations[p.citation].spans
            /\ p.verbatim => /\ 0 <= p.start /\ p.start < p.end /\ p.end <= LengthOf[p.doc[2]]
                             /\ p.words = p.end - p.start
                             /\ p.evidence = EvidenceId(p.doc, p.start, p.end)
            /\ ~p.verbatim => {p.start, p.end, p.evidence} = {None}
    /\ \A i \in DOMAIN response.citations :
         LET c == response.citations[i]
         IN /\ \A j \in DOMAIN response.citations : response.citations[j].doc = c.doc => i = j
            /\ \E k \in DOMAIN pages :
                 /\ pages[k].source = c.source /\ <<pages[k].final, pages[k].body>> = c.doc
                 /\ pages[k].requested \in asked
                 /\ \/ pages[k].final = pages[k].requested
                    \/ /\ OperatorAllows(search, pages[k].final)
                       /\ HostOf[pages[k].final] \notin UnsafeHosts
    /\ \A i \in DOMAIN response.raw :
         response.citations[response.raw[i].citation].doc[2] = response.raw[i].body

\* docs/architecture/configuration-reference.md:302: the budgets of the request and of the
\* process hold for what is returned, however the services answer.
BudgetsHold ==
  /\ Cardinality(asked) <= MaxUrlsOf(search)
  /\ Answered =>
       /\ TokensOf(response.passages) <= search.tokenBudget
       /\ stats.tokens = TokensOf(response.passages)
       /\ Len(response.passages) <= MaxPassages
       /\ search.maxPassages # None => Len(response.passages) <= search.maxPassages
       /\ Sum(Len(response.passages), LAMBDA i : ItemOverhead + response.passages[i].words)
            <= MaxEvidence
       /\ Sum(Len(response.raw), LAMBDA i : ItemOverhead + LengthOf[response.raw[i].body])
            <= MaxRawBytes

\* Every result, address, page and chunk is accounted for: what the counters of the stages say
\* adds up to what was returned, unless the budgets of the request leave passages out.
StatsAddUp ==
  Answered =>
    /\ stats.discovered <= stats.found
    /\ stats.chosen = stats.crawled + stats.failed /\ stats.chosen = Cardinality(asked)
    /\ stats.diagnosed + stats.undiagnosed >= stats.chosen
    /\ stats.crawled = Len(pages) + stats.deduped
    /\ stats.produced = stats.prefiltered + stats.sent
    /\ stats.reason = "none" =>
         LET left == stats.sent - stats.belowFloor - stats.noise - stats.evidenceOmitted
             roomy == /\ search.maxPassages = None
                      /\ Sum(Len(chunks), LAMBDA i : SizeOf(chunks[i])) <= search.tokenBudget
         IN /\ Len(response.passages) <= left
            /\ roomy => Len(response.passages) = left

\* docs/architecture/pipeline-workflow.md:148 and the state diagram above it: the reason of an
\* empty answer names the stage that left nothing, and a provider that failed is never taken
\* for a query without results.
ReasonIsTrue ==
  Answered =>
    /\ stats.reason # "none" => response.passages = <<>>
    /\ stats.discovery = "ok" => stats.failedQueries = 0 /\ stats.failedEngines = 0
    /\ stats.reason = "no_results_from_discovery" => stats.failedQueries + stats.failedEngines = 0
    /\ stats.reason = "search_provider_unavailable" => stats.failedQueries + stats.failedEngines > 0
    /\ stats.reason = "all_crawls_failed" =>
         \A i \in DOMAIN stats.codes : stats.codes[i] # "content"
    /\ stats.reason = "no_chunks_after_rerank" => stats.reranked /\ search.floor # None
    /\ stats.reason = "no_evidence_after_quality_gate" => stats.noise > 0
    /\ stats.reason = "no_evidence_after_output_budget" => stats.evidenceOmitted > 0

\* docs/architecture/security.md:72 and docs/architecture/pipeline-workflow.md:107: only safe
\* addresses the operator and the caller allow are fetched, each page once, the domains evenly,
\* and one that is left out for its rank is left out for want of room.
SelectionIsSound ==
  stage = "fetch" =>
    LET Permitted(u) == Filtered(u, Blocked(search), Allowed(search)) = "none"
        candidates == Kept(merged, LAMBDA r : Permitted(r.url))
        limit == DomainLimit(MaxUrlsOf(search), Allowed(search), candidates)
        OfSameHost(u) == {v \in asked : HostOf[v] = HostOf[u]}
    IN /\ \A u \in asked :
            /\ Permitted(u) /\ CrawlSafe(search, u)
            /\ Cardinality(OfSameHost(u)) <= limit
            /\ \A v \in asked : KeyOf[v] = KeyOf[u] => v = u
       /\ \A i \in DOMAIN merged :
            LET why == Decision(merged[i], selected, limit, Blocked(search), Allowed(search))
            IN /\ why = "selected" <=> merged[i].url \in asked
               /\ why = "rank_cap" => Cardinality(asked) = MaxUrlsOf(search)

\* docs/architecture/pipeline-workflow.md:120 ("source-preserving"): no page is crowded out by
\* the chunks of others while there is room for one chunk of each.
NoSourceIsCrowdedOut ==
  stage = "rerank" =>
    LET sources == {chunks[i].source : i \in DOMAIN chunks}
    IN Cardinality(offered) <= MaxCandidates => sources = offered
=============================================================================
