------------------------------ MODULE Discovery ------------------------------
(***************************************************************************)
(* From the answers of the search provider to the addresses a search will  *)
(* fetch: parsing (clients/searxng_client.py), merging the answers of the  *)
(* subqueries (merge.py), the selection policy (selection.py) and the      *)
(* bounded diagnostics about it (pipeline.py).                             *)
(*                                                                         *)
(* An address is a number, so that the ties the code breaks by comparing   *)
(* addresses are broken here as well.  Scores are whole: a score of 1.0 is *)
(* ScoreUnit.                                                              *)
(***************************************************************************)
EXTENDS SearchBasics

CONSTANTS
  Urls,            \* addresses a provider may name
  KeyOf,           \* normalize_url of each
  HostOf,          \* host_for of each, None where there is none
  Domains,         \* a filter may name
  DomainsOf,       \* those each host is equal to or a subdomain of
  LexicalOf,       \* _lexical_score of each for the query of this search
  UrlBytes,        \* serialized size of the diagnostic about each
  Engines,
  ScoreUnit,       \* 1.0
  MaxDiagnostics, MaxDiagnosticsBytes

ASSUME DiscoveryConstants ==
  /\ Urls \subseteq Nat /\ None \notin Urls
  /\ KeyOf \in [Urls -> Nat] /\ UrlBytes \in [Urls -> Nat] /\ LexicalOf \in [Urls -> Nat]
  /\ \A u \in Urls : HostOf[u] # None => HostOf[u] \in DOMAIN DomainsOf
  /\ \A D \in SUBSET Domains : D # None
  /\ ScoreUnit \in Nat \ {0} /\ MaxDiagnostics \in Nat /\ MaxDiagnosticsBytes \in Nat

-----------------------------------------------------------------------------
(* The answer to one subquery: items of an address, a score or None, and   *)
(* the engines that found it with their positions, as far as they are      *)
(* known.                                                                  *)

\* _score: without a positive score, the rank decides.
ScoreAt(item, rank) ==
  IF item.score # None /\ item.score > 0 THEN item.score ELSE ScoreUnit \div rank

\* _contributions: an engine that is named twice counts once, with its first position.
Contributions(item, q, score) ==
  {[subquery |-> q, engine |-> item.engines[i],
    position |-> IF i \in DOMAIN item.positions THEN item.positions[i] ELSE None,
    score |-> score]
     : i \in {j \in DOMAIN item.engines :
                \A k \in 1..(j - 1) : item.engines[k] # item.engines[j]}}

\* _parse_results
Parse(items, q) ==
  [r \in DOMAIN items |->
     LET score == ScoreAt(items[r], r)
     IN [url |-> items[r].url, score |-> score,
         engine |-> IF items[r].engines = <<>> THEN None ELSE items[r].engines[1],
         contributions |-> Contributions(items[r], q, score)]]

-----------------------------------------------------------------------------
(* merge_dedup: one result for each normalized address.                    *)

\* A result nobody contributed to counts as one of its subquery.
Contributed(r, q) ==
  IF r.contributions # {} THEN r.contributions
  ELSE {[subquery |-> q, engine |-> r.engine, position |-> None, score |-> r.score]}

\* _contributions of merge: of the same subquery, engine and position the best score counts.
BestContributions(C) ==
  {c \in C : \A d \in C :
     d.subquery = c.subquery /\ d.engine = c.engine /\ d.position = c.position
       => d.score <= c.score}

\* _merge_result: only a better score replaces the result that came first.
BestOf(results) ==
  results[CHOOSE i \in DOMAIN results :
    /\ \A j \in DOMAIN results : results[j].score <= results[i].score
    /\ \A j \in 1..(i - 1) : results[j].score < results[i].score]

\* The results of all subqueries, in order, with the subquery each came from.
MergeDedup(sets, queries) ==
  LET all == FlattenSeq([i \in DOMAIN sets |->
               [r \in DOMAIN sets[i] |-> [result |-> sets[i][r], query |-> queries[i]]]])
      keys == {KeyOf[all[i].result.url] : i \in DOMAIN all}
      Of(k) == Kept(all, LAMBDA x : KeyOf[x.result.url] = k)
      Merged(k) ==
        [BestOf([i \in DOMAIN Of(k) |-> Of(k)[i].result]) EXCEPT
           !.contributions = BestContributions(
              UNION {Contributed(Of(k)[i].result, Of(k)[i].query) : i \in DOMAIN Of(k)})]
  IN InOrder({Merged(k) : k \in keys},
       LAMBDA r, s : \/ r.score > s.score
                     \/ r.score = s.score /\ KeyOf[r.url] < KeyOf[s.url])

-----------------------------------------------------------------------------
(* SelectionPolicyImpl                                                     *)

Matches(u, domains) == DomainsOf[HostOf[u]] \cap domains # {}

\* _collect_candidates; allowed is None where there is no allowlist.
Filtered(u, blocked, allowed) ==
  CASE HostOf[u] = None -> "invalid_host"
    [] HostOf[u] # None /\ Matches(u, blocked) -> "blocked_domain"
    [] HostOf[u] # None /\ ~Matches(u, blocked) /\ allowed # None /\ ~Matches(u, allowed)
         -> "outside_allowlist"
    [] OTHER -> "none"

\* _ordered_candidates: a quarter of the lexical score is added.
Rank(r) == 4 * r.score + LexicalOf[r.url]
Ordered(candidates) ==
  InOrder(ToSet(candidates),
    LAMBDA r, s : \/ Rank(r) > Rank(s)
                  \/ Rank(r) = Rank(s) /\ r.score > s.score
                  \/ Rank(r) = Rank(s) /\ r.score = s.score /\ r.url < s.url)

Third(n) == (n + 2) \div 3
\* _candidate_limit, _per_domain_limit
DomainLimit(maxUrls, allowed, candidates) ==
  LET hosts == {HostOf[candidates[i].url] : i \in DOMAIN candidates}
  IN CASE Cardinality(hosts) <= 1 -> maxUrls
       [] Cardinality(hosts) > 1 /\ allowed # None /\ Cardinality(allowed) <= 1 -> maxUrls
       [] Cardinality(hosts) > 1 /\ (allowed = None \/ Cardinality(allowed) > 1) /\ maxUrls <= 2 -> 1
       [] OTHER -> IF Third(maxUrls) > 3 THEN 3 ELSE Third(maxUrls)

EnginesOf(r) == ({c.engine : c \in r.contributions} \cup {r.engine}) \ {None}
OfHost(picked, h) == {r \in ToSet(picked) : HostOf[r.url] = h}
IsPicked(picked, r) == \E p \in ToSet(picked) : p.url = r.url

\* Mutant of CanSelect: the limit of a domain is off by one.
CanSelectOneMore(picked, r, limit) ==
  ~IsPicked(picked, r) /\ Cardinality(OfHost(picked, HostOf[r.url])) <= limit
CanSelect(picked, r, limit) ==
  ~IsPicked(picked, r) /\ Cardinality(OfHost(picked, HostOf[r.url])) < limit

\* What a pass takes: results of a new engine, of a new host, or any.
Wanted(what, p, r) ==
  \/ what = "engine" /\ EnginesOf(r) \ UNION {EnginesOf(x) : x \in ToSet(p)} # {}
  \/ what = "host" /\ OfHost(p, HostOf[r.url]) = {}
  \/ what = "any"

\* _select_pass
Pass(ordered, picked, maxUrls, limit, what) ==
  Looped(LAMBDA p, r : IF Len(p) < maxUrls /\ Wanted(what, p, r) /\ CanSelect(p, r, limit)
                         THEN Append(p, r) ELSE p, picked, ordered)

\* Engine diversity first, then domain diversity, then the score.
Select(results, maxUrls, blocked, allowed) ==
  LET candidates == Kept(results, LAMBDA r : Filtered(r.url, blocked, allowed) = "none")
      ordered == Ordered(candidates)
      limit == DomainLimit(maxUrls, allowed, candidates)
      first == Pass(ordered, <<>>, maxUrls, limit, "engine")
      second == Pass(ordered, first, maxUrls, limit, "host")
  IN Pass(ordered, second, maxUrls, limit, "any")

\* The decision about each result; _append_unselected
Decision(r, picked, limit, blocked, allowed) ==
  CASE Filtered(r.url, blocked, allowed) # "none" -> Filtered(r.url, blocked, allowed)
    [] IsPicked(picked, r) -> "selected"
    [] OTHER -> IF Cardinality(OfHost(picked, HostOf[r.url])) >= limit
                THEN "domain_cap" ELSE "rank_cap"

\* _set_bounded_url_diagnostics: the selected first, and whatever still fits.
Diagnosed(picked, others) ==
  Looped(LAMBDA d, r :
      LET more == UrlBytes[r.url] + IF d.kept = <<>> THEN 0 ELSE 1
      IN IF Len(d.kept) < MaxDiagnostics /\ d.bytes + more <= MaxDiagnosticsBytes
         THEN [d EXCEPT !.kept = Append(@, r.url), !.bytes = @ + more]
         ELSE [d EXCEPT !.omitted = @ + 1],
    [kept |-> <<>>, bytes |-> 2, omitted |-> 0], picked \o others)
=============================================================================
