----------------------------- MODULE CrawlPolicy -----------------------------
(***************************************************************************)
(* The scope of a site crawl and its frontier                              *)
(* (orchestrator/crawl_policy.py): which addresses are admitted, which     *)
(* records stand for them, and what a redirect does to both.               *)
(*                                                                         *)
(* What is abstracted: an address is a name with the facts the policy asks *)
(* for; its deduplication key stands for every spelling of one page.       *)
(***************************************************************************)
EXTENDS Integers, Sequences, FiniteSets

CONSTANTS
  Urls,                \* addresses
  Address,             \* what is true of each of them
  MaxDepth,            \* max_depth
  MaxDiscovered,       \* max_discovered_urls
  IncludeParentPaths,  \* include_parent_paths
  IncludeSubdomains,   \* include_subdomains
  QueryPolicy,         \* query_policy: preserve, strip or exclude
  HasIncludes          \* include_paths is not empty

Keys == {Address[u].key : u \in Urls}

Facts == [http : BOOLEAN, valid : BOOLEAN, key : Keys,
          origin : {"seed", "sub", "other"}, underSeed : BOOLEAN, query : BOOLEAN,
          excluded : BOOLEAN, included : BOOLEAN, fileType : BOOLEAN,
          safe : BOOLEAN, disallowed : BOOLEAN]

ASSUME PolicyConstants ==
  /\ Address \in [Urls -> Facts]
  /\ MaxDepth \in Nat /\ MaxDiscovered \in Nat \ {0}
  /\ IncludeParentPaths \in BOOLEAN /\ IncludeSubdomains \in BOOLEAN
  /\ QueryPolicy \in {"preserve", "strip", "exclude"} /\ HasIncludes \in BOOLEAN

-----------------------------------------------------------------------------
(* CrawlPolicy                                                             *)

Normalizes(u) == Address[u].http /\ Address[u].valid
Key(u) == Address[u].key

AcceptedOrigin(u) ==
  Address[u].origin = "seed" \/ (IncludeSubdomains /\ Address[u].origin = "sub")

PathRejection(u) ==
  LET a == Address[u]
  IN IF ~IncludeParentPaths /\ ~a.underSeed THEN "outside_seed_path"
     ELSE IF QueryPolicy = "exclude" /\ a.query THEN "query_excluded"
     ELSE IF a.excluded THEN "excluded_path"
     ELSE IF HasIncludes /\ ~a.included THEN "outside_included_paths"
     ELSE IF ~a.fileType THEN "unsupported_file_type"
     ELSE "none"

RejectionReason(u, depth) ==
  IF depth > MaxDepth THEN "depth_exceeded"
  ELSE IF ~AcceptedOrigin(u) THEN "outside_origin"
  ELSE PathRejection(u)

-----------------------------------------------------------------------------
(* CrawlFrontier: records in the order of their discovery, the record of   *)
(* each key (0: none), and the queue, which holds record numbers.          *)

Sources == {"seed", "sitemap", "search", "link"}
Settled == {"fetched", "filtered", "failed", "cancelled"}
States == {"queued"} \cup Settled
\* Why a record is filtered, failed or cancelled; every failed fetch is upstream_failure.
Reasons == {"none", "invalid_url", "depth_exceeded", "outside_origin", "outside_seed_path",
            "query_excluded", "excluded_path", "outside_included_paths", "unsupported_file_type",
            "unsafe_target", "unsafe_redirect", "robots_refused", "duplicate_final_url",
            "page_limit_reached", "cancelled", "upstream_failure"}
Rec == [url : Urls, depth : Nat, sources : SUBSET Sources, state : States, reason : Reasons]

EmptyFrontier == [records |-> <<>>, byKey |-> [k \in Keys |-> 0], queue |-> <<>>, omitted |-> 0]

IsKnown(f, u) == f.byKey[Key(u)] # 0
IsFull(f) == Len(f.records) >= MaxDiscovered

Lesser(m, n) == IF m < n THEN m ELSE n

MergeDiscovery(f, i, source, depth) ==
  [f EXCEPT !.records[i].sources = @ \cup {source}, !.records[i].depth = Lesser(@, depth)]

AdmissionRejection(u, depth, safe, allowed) ==
  LET reason == RejectionReason(u, depth)
  IN IF reason # "none" THEN reason
     ELSE IF ~safe THEN "unsafe_target"
     ELSE IF ~allowed THEN "robots_refused"
     ELSE "none"

RecordFiltered(f, u, source, depth) ==
  IF IsFull(f)
  THEN [f EXCEPT !.omitted = @ + 1]
  ELSE [f EXCEPT !.records = Append(@, [url |-> u, depth |-> depth, sources |-> {source},
                                        state |-> "filtered", reason |-> "invalid_url"])]

Enqueued(queue, n) == Append(queue, n)

\* A key has one record; a new one is queued or filtered, once and for all.
Discover(f, u, source, depth, safe, allowed) ==
  LET n == Len(f.records) + 1
      reason == AdmissionRejection(u, depth, safe, allowed)
      state == IF reason = "none" THEN "queued" ELSE "filtered"
  IN CASE ~Normalizes(u) -> RecordFiltered(f, u, source, depth)
       [] Normalizes(u) /\ IsKnown(f, u) -> MergeDiscovery(f, f.byKey[Key(u)], source, depth)
       [] Normalizes(u) /\ ~IsKnown(f, u) /\ IsFull(f) -> [f EXCEPT !.omitted = @ + 1]
       [] OTHER ->
            [f EXCEPT
               !.records = Append(@, [url |-> u, depth |-> depth, sources |-> {source},
                                      state |-> state, reason |-> reason]),
               !.byKey[Key(u)] = n,
               !.queue = IF reason = "none" THEN Enqueued(@, n) ELSE @]

\* Mutant of Pop: the head stays where it is.
Peek(f) == f
Pop(f) == [f EXCEPT !.queue = Tail(@)]

\* mark_fetched, mark_failed and mark_cancelled: the first verdict stays.
Mark(f, i, state, reason) ==
  IF f.records[i].state \in Settled
  THEN f
  ELSE [f EXCEPT !.records[i].state = state, !.records[i].reason = reason]

CancelQueued(f) ==
  LET waiting == {f.queue[j] : j \in DOMAIN f.queue}
  IN [f EXCEPT
        !.records = [i \in DOMAIN @ |->
                       IF i \in waiting /\ @[i].state = "queued"
                       THEN [@[i] EXCEPT !.state = "cancelled", !.reason = "cancelled"]
                       ELSE @[i]],
        !.queue = <<>>]

RedirectRejection(u, depth, safe, allowed) ==
  LET reason == RejectionReason(u, depth)
  IN IF ~Normalizes(u) THEN "invalid_url"
     ELSE IF reason # "none" THEN reason
     ELSE IF ~safe THEN "unsafe_redirect"
     ELSE IF ~allowed THEN "robots_refused"
     ELSE "none"

\* The page was reached under another record's address: that record is fetched now, if
\* it was still waiting; otherwise the page has had its turn.
MergeFinalRecord(f, i, e) ==
  LET merged == [f EXCEPT !.records[e].sources = @ \cup f.records[i].sources,
                          !.records[e].depth = Lesser(@, f.records[i].depth)]
      failed == Mark(merged, i, "failed", "duplicate_final_url")
  IN IF f.records[e].state # "queued"
     THEN [frontier |-> failed, final |-> 0]
     ELSE [frontier |-> Mark(failed, e, "fetched", "none"), final |-> e]

\* Mutant of ReconcileFinal: nobody looks whether the page has another record.
ReconcileFinalBlind(f, i, u, safe, allowed) ==
  LET reason == RedirectRejection(u, f.records[i].depth, safe, allowed)
  IN IF reason # "none"
     THEN [frontier |-> Mark(f, i, "failed", reason), final |-> 0]
     ELSE [frontier |-> [f EXCEPT !.records[i].url = u, !.byKey[Key(u)] = i], final |-> i]

\* Record i was answered by the address u.  The answer: the record that stands for the
\* page from now on, or 0.
ReconcileFinal(f, i, u, safe, allowed) ==
  LET reason == RedirectRejection(u, f.records[i].depth, safe, allowed)
      e == f.byKey[Key(u)]
      old == Key(f.records[i].url)
      byKey == [k \in Keys |-> IF k = Key(u) THEN i
                               ELSE IF k = old /\ f.byKey[k] = i THEN 0
                               ELSE f.byKey[k]]
  IN CASE reason # "none" -> [frontier |-> Mark(f, i, "failed", reason), final |-> 0]
       [] reason = "none" /\ e \notin {0, i} -> MergeFinalRecord(f, i, e)
       [] OTHER -> [frontier |-> [f EXCEPT !.records[i].url = u, !.byKey = byKey],
                    final |-> i]
=============================================================================
