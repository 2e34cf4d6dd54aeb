------------------------------ MODULE SiteCrawl ------------------------------
(***************************************************************************)
(* One map or crawl of a site (orchestrator/site_pipeline.py): the seed,   *)
(* the sitemaps, the search for more addresses, then one page after the    *)
(* other until the queue is empty, a limit is reached or somebody cancels. *)
(*                                                                         *)
(* The site is the environment: what each address answers, where it        *)
(* redirects and what it links to is chosen when it is fetched.  Facts     *)
(* about addresses are relative to the one the seed is answered from.      *)
(***************************************************************************)
EXTENDS CrawlPolicy, SequencesExt

CONSTANTS
  None,          \* no address
  Seed,          \* the requested address
  Sitemaps,      \* addresses of sitemaps
  SitemapFacts,  \* what is true of each of them
  Roots,         \* the declared and the common sitemaps, in order
  MaxFanout,     \* max_internal_fanout
  MaxSitemapDocuments, MaxSitemapDepth,
  Worlds,        \* bound: the robots files of the origins, whose snapshots are cached, and
                 \* what the request asks for
  MaxLinks,      \* bound: links on one page
  MaxEntries     \* bound: entries of one sitemap, answers of one search

Origins == {"seed", "sub"}
RobotsStates == {"available", "unavailable", "unreachable"}
\* max_pages (clamped to max_internal_fanout), sitemap and include_search of the request
Asked == [maxPages : Nat \ {0}, sitemap : {"include", "only", "skip"}, search : BOOLEAN]

ASSUME SiteConstants ==
  /\ Seed \in Urls /\ None \notin Urls
  /\ SitemapFacts \in
       [Sitemaps -> [origin : {"seed", "sub", "other"}, safe : BOOLEAN, disallowed : BOOLEAN]]
  /\ Roots \in Seq(Sitemaps)
  /\ MaxFanout \in Nat
  /\ MaxSitemapDocuments \in Nat /\ MaxSitemapDepth \in Nat
  /\ Worlds \subseteq [truth : [Origins -> RobotsStates], cached : SUBSET Origins,
                       request : Asked]
  /\ MaxLinks \in Nat /\ MaxEntries \in Nat

VARIABLES
  phase,     \* where run is
  site,      \* frontier, robots snapshots of this operation, robots documents attempted
  truth,     \* the robots file of each origin, as a fetch would find it
  cached,    \* origins whose snapshot the process has in its robots cache
  request,   \* of the caller
  effective, \* effective_url, or None
  sitemap,   \* the queue of sitemaps and the counters of their loading
  attempts,  \* page_attempts
  results, failures,  \* what was handed to the callbacks
  imperfect, \* some page outcome is not content
  limited,   \* page_limit_reached
  outcome,   \* of the response
  asked,     \* history: pages fetched after the seed
  linksOf    \* history: the links of each fetched page that are to be followed

vars == <<phase, site, truth, cached, request, effective, sitemap, attempts, results, failures,
          imperfect, limited, outcome, asked, linksOf>>
world == <<truth, cached, request>>

f == site.frontier
AtMost(n, S) == {T \in SUBSET S : IsFiniteSet(T) /\ Cardinality(T) <= n}
SeedLike == {u \in Urls : Address[u].origin = "seed" /\ Address[u].underSeed /\ Normalizes(u)}

-----------------------------------------------------------------------------
(* Robots snapshots: one an origin and operation.                          *)

\* _robots_for: this operation's, the process's, or the network's within the limit.
RobotsFor(s, o) ==
  CASE s.robots[o] # "none" -> s
    [] s.robots[o] = "none" /\ o \in cached -> [s EXCEPT !.robots[o] = truth[o]]
    [] s.robots[o] = "none" /\ o \notin cached /\ s.documents >= MaxFanout ->
         [s EXCEPT !.robots[o] = "unreachable"]
    [] OTHER -> [s EXCEPT !.robots[o] = truth[o], !.documents = @ + 1]

\* RobotsSnapshot.allows: an unavailable file allows everything, an unreachable one nothing.
Allows(s, a) ==
  \/ s.robots[a.origin] = "unavailable"
  \/ s.robots[a.origin] = "available" /\ ~a.disallowed

-----------------------------------------------------------------------------
(* _admit: robots are asked last, and only about a new address.            *)

Admit(s, u, source, depth) ==
  LET plain == [s EXCEPT !.frontier = Discover(@, u, source, depth, TRUE, TRUE)]
      informed == RobotsFor(s, Address[u].origin)
      settled == \/ ~Normalizes(u)
                 \/ RejectionReason(u, depth) # "none"
                 \/ IsKnown(s.frontier, u) \/ IsFull(s.frontier)
  IN CASE ~Address[u].http -> s
       [] Address[u].http /\ settled -> plain
       [] Address[u].http /\ ~settled /\ ~Address[u].safe ->
            [s EXCEPT !.frontier = Discover(@, u, source, depth, FALSE, FALSE)]
       [] OTHER ->
            [informed EXCEPT !.frontier =
               Discover(@, u, source, depth, TRUE, Allows(informed, Address[u]))]

AdmitAll(s, urls, source, depth) ==
  LET order == SetToSeq(urls)
      after[n \in 0..Len(order)] ==
        IF n = 0 THEN s ELSE Admit(after[n - 1], order[n], source, depth)
  IN after[Len(order)]

-----------------------------------------------------------------------------
(* _prepare_seed                                                           *)

Respond(o) == phase' = "done" /\ outcome' = o

\* _check_cancelled
Cancelled ==
  /\ phase # "done"
  /\ Respond("cancelled")
  /\ UNCHANGED <<world, site, effective, sitemap, attempts, results, failures, imperfect,
                 limited, asked, linksOf>>

\* The safety check fails closed: an address that does not resolve is unsafe, too.
UnsafeSeed ==
  /\ phase = "start"
  /\ failures' = Append(failures, Seed)
  /\ Respond("unsafe_seed")
  /\ UNCHANGED <<world, site, effective, sitemap, attempts, results, imperfect, limited, asked, linksOf>>

\* _record_seed_failure
SeedFails ==
  /\ phase = "start" /\ Address[Seed].safe
  /\ \E u \in SeedLike :
       LET found == Discover(EmptyFrontier, u, "seed", 0, TRUE, TRUE)
           popped == IF found.queue # <<>> THEN Mark(Pop(found), 1, "failed", "upstream_failure")
                                           ELSE found
       IN effective' = u /\ site' = [site EXCEPT !.frontier = popped]
  /\ imperfect' = TRUE
  /\ failures' = Append(failures, Seed)
  /\ Respond("upstream_failure")
  /\ UNCHANGED <<world, sitemap, attempts, results, limited, asked, linksOf>>

SeedRefused(s) ==
  /\ site' = s
  /\ Respond(IF s.frontier.records # <<>> /\ s.frontier.records[1].reason = "robots_refused"
             THEN "robots_refused" ELSE "no_admitted_urls")
  /\ UNCHANGED <<attempts, results, imperfect, asked, linksOf>>

\* The page of the seed is the first result; its links wait for the sitemaps.
SeedAdmitted(s, u) ==
  /\ site' = [s EXCEPT !.frontier = Mark(Pop(@), 1, "fetched", "none")]
  /\ results' = Append(results, u)
  /\ imperfect' \in {imperfect, TRUE}
  /\ attempts' = 1
  /\ phase' = "sitemaps"
  /\ \E links \in AtMost(MaxLinks, Urls) : linksOf' = [linksOf EXCEPT ![Key(u)] = links]
  /\ UNCHANGED <<outcome, asked>>

SeedLands ==
  /\ phase = "start" /\ Address[Seed].safe
  /\ \E u \in SeedLike :
       LET s == Admit(RobotsFor(site, "seed"), u, "seed", 0)
           record == s.frontier.records[1]
       IN /\ Address[u].safe /\ effective' = u
          /\ IF record.state = "filtered" THEN SeedRefused(s) ELSE SeedAdmitted(s, u)
  /\ UNCHANGED <<world, sitemap, failures, limited>>

-----------------------------------------------------------------------------
(* _load_sitemaps, _augment_search, the links of the seed                  *)

Loading ==
  /\ request.sitemap # "skip" /\ sitemap.queue # <<>>
  /\ sitemap.attempted < MaxSitemapDocuments /\ sitemap.examined < MaxFanout

\* _next_sitemap_candidate
NextSitemap(m, depth) == m \notin sitemap.visited /\ depth <= MaxSitemapDepth

InScope(a) == a.origin = "seed" \/ (IncludeSubdomains /\ a.origin = "sub")

\* Why a sitemap is not asked for, or "none".
SitemapRefusal(s, m) ==
  LET a == SitemapFacts[m]
  IN CASE ~InScope(a) -> "outside_scope"
       [] InScope(a) /\ ~a.safe -> "unsafe_target"
       [] InScope(a) /\ a.safe /\ ~Allows(s, a) -> "robots_refused"
       [] OTHER -> "none"

SkipSitemap ==
  /\ phase = "sitemaps" /\ Loading
  /\ LET head == Head(sitemap.queue)
     IN /\ ~NextSitemap(head[1], head[2])
        /\ sitemap' = [sitemap EXCEPT !.queue = Tail(@)]
  /\ UNCHANGED <<world, phase, site, effective, attempts, results, failures, imperfect,
                 limited, outcome, asked, linksOf>>

\* The robots file is read of a sitemap that scope and safety let through.
Consulted(s, m) ==
  LET a == SitemapFacts[m] IN IF InScope(a) /\ a.safe THEN RobotsFor(s, a.origin) ELSE s

\* _fetch_sitemap_document and _queue_sitemap_entries.  The address it is answered from is
\* asked about again.
LoadSitemap ==
  /\ phase = "sitemaps" /\ Loading
  /\ LET head == Head(sitemap.queue)
         m == head[1]
         s == Consulted(site, m)
         refused == SitemapRefusal(s, m) # "none"
         seen == [sitemap EXCEPT !.queue = Tail(@), !.visited = @ \cup {m},
                                 !.examined = @ + 1,
                                 !.attempted = IF refused THEN @ ELSE @ + 1]
     IN /\ NextSitemap(m, head[2])
        /\ \/ sitemap' = seen /\ site' = s   \* refused or failed
           \/ /\ ~refused
              /\ \E final \in {x \in Sitemaps : SitemapFacts[x].safe} :
                   LET landed == Consulted(s, final)
                       readable == SitemapRefusal(landed, final) = "none"
                   IN \/ sitemap' = seen /\ site' = landed   \* refused now, or not a sitemap
                      \/ /\ readable
                         /\ \E urls \in AtMost(MaxEntries, Urls) :
                              site' = AdmitAll(landed, urls, "sitemap", 0)
                         /\ sitemap' = seen
                      \/ /\ readable
                         /\ \E listed \in AtMost(MaxEntries, Sitemaps) :
                              LET new == SetToSeq(listed \ seen.visited)
                              IN sitemap' = [seen EXCEPT !.queue =
                                               @ \o [j \in DOMAIN new |-> <<new[j], head[2] + 1>>]]
                         /\ site' = landed
  /\ UNCHANGED <<world, phase, effective, attempts, results, failures, imperfect, limited, outcome, asked, linksOf>>

\* A failed search only warns.
AugmentSearch ==
  /\ phase = "sitemaps" /\ ~Loading
  /\ \E urls \in AtMost(IF request.search THEN MaxEntries ELSE 0, Urls) :
       site' = AdmitAll(site, urls, "search", 0)
  /\ phase' = "links"
  /\ UNCHANGED <<world, effective, sitemap, attempts, results, failures, imperfect, limited, outcome, asked, linksOf>>

FollowSeed ==
  /\ phase = "links"
  /\ site' = IF request.sitemap # "only" /\ MaxDepth > 0
             THEN AdmitAll(site, linksOf[Key(effective)], "link", 1)
             ELSE site
  /\ phase' = "pages"
  /\ UNCHANGED <<world, effective, sitemap, attempts, results, failures, imperfect, limited, outcome, asked, linksOf>>

-----------------------------------------------------------------------------
(* _crawl_pages                                                            *)

HeadRecord == Head(f.queue)
Popping == phase = "pages" /\ f.queue # <<>>

\* A record that a redirect has settled while it was waiting.
PopSettled ==
  /\ Popping /\ f.records[HeadRecord].state # "queued"
  /\ site' = [site EXCEPT !.frontier = Pop(@)]
  /\ UNCHANGED <<world, phase, effective, sitemap, attempts, results, failures, imperfect,
                 limited, outcome, asked, linksOf>>

PageLimit ==
  /\ Popping /\ f.records[HeadRecord].state = "queued" /\ attempts >= request.maxPages
  /\ site' = [site EXCEPT !.frontier =
                CancelQueued(Mark(Pop(@), HeadRecord, "cancelled", "page_limit_reached"))]
  /\ limited' = TRUE
  /\ UNCHANGED <<world, phase, effective, sitemap, attempts, results, failures, imperfect, outcome, asked, linksOf>>

MayFetch == attempts < request.maxPages

\* The state of the operation with the record popped and its robots file read.
AtPage(i) == [RobotsFor(site, Address[f.records[i].url].origin) EXCEPT !.frontier = Pop(@)]

\* Mutant of PageFails: a page that is never answered is not handed over.
PageFailsSilently ==
  /\ Popping /\ f.records[HeadRecord].state = "queued" /\ MayFetch
  /\ site' = [AtPage(HeadRecord) EXCEPT !.frontier = Mark(@, HeadRecord, "failed", "upstream_failure")]
  /\ attempts' = attempts + 1 /\ imperfect' = TRUE
  /\ asked' = asked \cup {f.records[HeadRecord].url}
  /\ UNCHANGED <<world, phase, effective, sitemap, results, failures, limited, outcome, linksOf>>

\* The robots file refuses the page, which is no attempt, or the fetch fails.
PageFails ==
  /\ Popping /\ f.records[HeadRecord].state = "queued" /\ MayFetch
  /\ LET i == HeadRecord
         s == AtPage(i)
         u == f.records[i].url
         allowed == Allows(s, Address[u])
         reason == IF allowed THEN "upstream_failure" ELSE "robots_refused"
     IN /\ site' = [s EXCEPT !.frontier = Mark(@, i, "failed", reason)]
        /\ failures' = Append(failures, u)
        /\ asked' = IF allowed THEN asked \cup {u} ELSE asked
        /\ attempts' = IF allowed THEN attempts + 1 ELSE attempts
        /\ imperfect' = (imperfect \/ allowed)
  /\ UNCHANGED <<world, phase, effective, sitemap, results, limited, outcome, linksOf>>

\* Mutant of Reconciled: the robots file of the final address is not asked.
ReconciledUnasked(s, i, u) ==
  LET r == ReconcileFinal(s.frontier, i, u, Address[u].safe, TRUE)
  IN [state |-> [s EXCEPT !.frontier = r.frontier], final |-> r.final]

\* _reconcile_final: the robots file of the final address is asked when everything else
\* lets it pass.
Reconciled(s, i, u) ==
  LET passes == RedirectRejection(u, f.records[i].depth, Address[u].safe, TRUE) = "none"
      informed == IF passes THEN RobotsFor(s, Address[u].origin) ELSE s
      r == ReconcileFinal(informed.frontier, i, u, Address[u].safe,
                          passes /\ Allows(informed, Address[u]))
  IN [state |-> [informed EXCEPT !.frontier = r.frontier], final |-> r.final]

\* The page is not delivered: its address is refused, or is another record's.
PageDropped(r, i) ==
  /\ r.final = 0
  /\ site' = r.state
  /\ failures' = IF r.state.frontier.records[i].reason = "duplicate_final_url"
                 THEN failures ELSE Append(failures, r.state.frontier.records[i].url)
  /\ UNCHANGED <<results, imperfect, linksOf>>

\* The page is handed over under its final address, and its links are admitted.  The result
\* may have an outcome of its own, that its content is too large, say.
PageDelivered(r, u) ==
  /\ r.final # 0
  /\ \E links \in AtMost(MaxLinks, Urls) :
       LET record == r.state.frontier.records[r.final]
           s == [r.state EXCEPT !.frontier = Mark(@, r.final, "fetched", "none")]
           follow == request.sitemap # "only" /\ record.depth < MaxDepth
       IN /\ follow \/ links = {}   \* links that nobody follows are all the same
          /\ site' = IF follow THEN AdmitAll(s, links, "link", record.depth + 1) ELSE s
          /\ linksOf' = [linksOf EXCEPT ![Key(u)] = links]
  /\ results' = Append(results, u)
  /\ imperfect' \in {imperfect, TRUE}
  /\ UNCHANGED failures

\* A redirect to an unsafe address is a failure like any other (PageFails).
PageAnswers ==
  /\ Popping /\ f.records[HeadRecord].state = "queued" /\ MayFetch
  /\ LET i == HeadRecord
         s == AtPage(i)
     IN /\ Allows(s, Address[f.records[i].url])
        /\ \E u \in {v \in Urls : Address[v].http /\ Address[v].safe} :
             LET r == Reconciled(s, i, u)
             IN PageDropped(r, i) \/ PageDelivered(r, u)
        /\ asked' = asked \cup {f.records[i].url}
  /\ attempts' = attempts + 1
  /\ UNCHANGED <<world, phase, effective, sitemap, limited, outcome>>

\* Mutant of SiteOutcome: what was left out does not count.
SiteOutcomeLenient ==
  IF (\E i \in DOMAIN f.records : f.records[i].state = "failed") \/ imperfect
  THEN "partial" ELSE "completed"

\* Mutant of SiteOutcome: addresses beyond the limit of discovery are forgotten.
SiteOutcomeForgetful ==
  CASE limited -> "limit_reached"
    [] ~limited /\ ((\E i \in DOMAIN f.records : f.records[i].state = "failed") \/ imperfect) -> "partial"
    [] OTHER -> "completed"

SiteOutcome ==
  CASE limited \/ f.omitted > 0 -> "limit_reached"
    [] ~(limited \/ f.omitted > 0)
       /\ ((\E i \in DOMAIN f.records : f.records[i].state = "failed") \/ imperfect) -> "partial"
    [] OTHER -> "completed"

Finish ==
  /\ phase = "pages" /\ f.queue = <<>>
  /\ Respond(SiteOutcome)
  /\ UNCHANGED <<world, site, effective, sitemap, attempts, results, failures, imperfect,
                 limited, asked, linksOf>>

-----------------------------------------------------------------------------
Init ==
  /\ phase = "start" /\ effective = None /\ outcome = "none"
  /\ site = [frontier |-> EmptyFrontier, robots |-> [o \in Origins |-> "none"], documents |-> 0]
  /\ \E x \in Worlds : truth = x.truth /\ cached = x.cached /\ request = x.request
  /\ sitemap = [queue |-> [j \in DOMAIN Roots |-> <<Roots[j], 0>>], visited |-> {},
                examined |-> 0, attempted |-> 0]
  /\ attempts = 0 /\ results = <<>> /\ failures = <<>>
  /\ imperfect = FALSE /\ limited = FALSE
  /\ asked = {} /\ linksOf = [k \in Keys |-> {}]

Work ==
  \/ UnsafeSeed \/ SeedFails \/ SeedLands
  \/ SkipSitemap \/ LoadSitemap \/ AugmentSearch \/ FollowSeed
  \/ PopSettled \/ PageLimit \/ PageFails \/ PageAnswers \/ Finish

Next == Cancelled \/ Work

Spec == Init /\ [][Next]_vars
FairSpec == Spec /\ WF_vars(Work)

-----------------------------------------------------------------------------
(* Properties                                                              *)

Through == outcome \in {"completed", "partial", "limit_reached"}
RecordOf(k) == f.records[f.byKey[k]]
Delivered == {results[j] : j \in DOMAIN results}
KeysOf(S) == {Key(u) : u \in S}

\* Every variable keeps its type and every counter its limit; a key's record has that key,
\* the queue holds records, and each sitemap examined is examined once.
SiteTypeOK ==
  /\ phase \in {"start", "sitemaps", "links", "pages", "done"}
  /\ f.records \in Seq(Rec) /\ f.queue \in Seq(DOMAIN f.records) /\ f.omitted \in Nat
  /\ Len(f.records) <= MaxDiscovered
  /\ \A k \in Keys : f.byKey[k] # 0 => f.byKey[k] \in DOMAIN f.records /\ Key(RecordOf(k).url) = k
  /\ site.robots \in [Origins -> RobotsStates \cup {"none"}]
  /\ attempts \in 0..request.maxPages /\ site.documents \in 0..MaxFanout
  /\ sitemap.attempted \in 0..MaxSitemapDocuments /\ sitemap.examined \in 0..MaxFanout
  /\ sitemap.examined = Cardinality(sitemap.visited)
  /\ results \in Seq(Urls) /\ failures \in Seq(Urls)
  /\ asked \subseteq Urls /\ linksOf \in [Keys -> SUBSET Urls]

\* A page is delivered once, however many addresses are redirected to it and whatever
\* order they are fetched in.
OncePerPage ==
  \A i, j \in DOMAIN results : i # j => Key(results[i]) # Key(results[j])

\* After the seed no page is asked for, and none is delivered, that the scope, the safety
\* check or the robots file of its origin refuses; a redirect is no way around them.
RobotsRespected ==
  \A u \in asked \cup (Delivered \ {effective}) :
    /\ AcceptedOrigin(u) /\ PathRejection(u) = "none"
    /\ Address[u].safe /\ Allows(site, Address[u])

\* docs/architecture/url-identity-and-outcomes.md: what the operation reports is what it did.
\* An operation that ran to its end leaves no record waiting, and has handed over each page
\* it fetched and each that failed, except one that was another page's double.
EveryRecordSettled ==
  Through =>
    LET With(st) == {i \in DOMAIN f.records : f.records[i].state = st}
        doubles == {i \in With("failed") : f.records[i].reason = "duplicate_final_url"}
    IN /\ With("queued") = {} /\ f.queue = <<>>
       /\ Len(results) = Cardinality(With("fetched"))
       /\ Len(failures) = Cardinality(With("failed") \ doubles)

\* The links of the fetched pages that are to be followed.
Followed == IF request.sitemap # "only" /\ MaxDepth > 0 THEN UNION {linksOf[k] : k \in Keys} ELSE {}

\* The page has a record that was refused under the spelling it was first met by, for a
\* reason that is true of this spelling, and its depth is no reason.
RefusedAs(k) ==
  LET r == RecordOf(k)
  IN /\ f.byKey[k] # 0 /\ r.state = "filtered" /\ r.reason # "none"
     /\ r.reason = AdmissionRejection(r.url, 0, Address[r.url].safe, Allows(site, Address[r.url]))

\* docs/architecture/url-identity-and-outcomes.md: "completed" is neither "limit_reached" nor
\* "partial".  Every page that a fetched page links to was asked for or delivered, or was refused
\* by the scope, the safety check or a robots file; no limit, redirect or double has left one out.
\* The refusal is of one spelling of the page, not of the one the link has: discover looks for
\* the key first.
CompletedIsClosed ==
  outcome = "completed" =>
    \A u \in Followed : Normalizes(u) =>
      Key(u) \in KeysOf(asked \cup Delivered) \/ RefusedAs(Key(u))

\* The operation ends: sitemaps that list one another and pages that link in circles
\* are bounded.
Finishes == <>(phase = "done")
=============================================================================
