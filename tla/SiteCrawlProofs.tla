--------------------------- MODULE SiteCrawlProofs ---------------------------
(***************************************************************************)
(* Proofs about a map or crawl of a site, for any addresses, any robots    *)
(* files, sitemaps, redirects and links, and any limits: no page is        *)
(* delivered twice, and none is asked for or delivered that the scope, the *)
(* safety check or the robots file refuses.                                *)
(***************************************************************************)
EXTENDS SiteCrawl, FiniteSetTheorems, SequenceTheorems, TLAPS

-----------------------------------------------------------------------------
(* Frontiers.                                                              *)

FrontierType == [records : Seq(Rec), byKey : [Keys -> Nat], queue : Seq(Nat), omitted : Nat]

\* The index and the queue name records.
FrontierOK(x) ==
  /\ x \in FrontierType
  /\ \A k \in Keys : x.byKey[k] \in 0..Len(x.records)
  /\ \A j \in 1..Len(x.queue) : x.queue[j] \in 1..Len(x.records)

\* The pages that have been fetched, whichever record stands for them.
Done(x) == {k \in Keys : x.byKey[k] # 0 /\ x.records[x.byKey[k]].state = "fetched"}

StateOf(x, i) == x.records[i].state
UrlOf(x, i) == x.records[i].url

\* The records of y that wait are ones of x that waited, or stand for the address u.
WaitAs(x, y, u) ==
  \A i \in 1..Len(y.records) : StateOf(y, i) = "queued" =>
    \/ UrlOf(y, i) = u
    \/ i \in 1..Len(x.records) /\ StateOf(x, i) = "queued" /\ UrlOf(y, i) = UrlOf(x, i)

\* The records of y that wait are ones of x that waited.
WaitStill(x, y) ==
  \A i \in 1..Len(y.records) : StateOf(y, i) = "queued" =>
    i \in 1..Len(x.records) /\ StateOf(x, i) = "queued" /\ UrlOf(y, i) = UrlOf(x, i)

\* A frontier is made of its parts.
LEMMA FrontierParts ==
  ASSUME NEW x, FrontierOK(x)
  PROVE  /\ x.records \in Seq(Rec) /\ Len(x.records) \in Nat /\ DOMAIN x.records = 1..Len(x.records)
         /\ \A i \in 1..Len(x.records) :
              /\ x.records[i] \in Rec /\ UrlOf(x, i) \in Urls /\ StateOf(x, i) \in States
         /\ x.byKey \in [Keys -> Nat] /\ \A k \in Keys : x.byKey[k] \in 0..Len(x.records)
         /\ x.queue \in Seq(Nat) /\ x.omitted \in Nat
         /\ \A j \in 1..Len(x.queue) : x.queue[j] \in 1..Len(x.records)
<1>1. x.records \in Seq(Rec) /\ x.byKey \in [Keys -> Nat] /\ x.queue \in Seq(Nat) /\ x.omitted \in Nat
  BY DEF FrontierOK, FrontierType
<1>2. \A i \in 1..Len(x.records) : x.records[i] \in Rec
  BY <1>1, ElementOfSeq
<1>. QED BY <1>1, <1>2, LenProperties DEF FrontierOK, UrlOf, StateOf, Rec

\* A frontier whose index and queue are those of another one, and whose records are as
\* many, is sound.
LEMMA SameIndex ==
  ASSUME NEW x, NEW y, FrontierOK(x), NEW records \in Seq(Rec), Len(records) = Len(x.records),
         y = [x EXCEPT !.records = records]
  PROVE  FrontierOK(y) /\ y.records = records /\ y.byKey = x.byKey /\ y.queue = x.queue
  BY DEF FrontierOK, FrontierType

\* One record is replaced.
LEMMA OneRecord ==
  ASSUME NEW x, NEW y, FrontierOK(x), NEW i \in 1..Len(x.records), NEW r \in Rec,
         y = [x EXCEPT !.records = [x.records EXCEPT ![i] = r]]
  PROVE  /\ FrontierOK(y) /\ Len(y.records) = Len(x.records)
         /\ y.byKey = x.byKey /\ y.queue = x.queue /\ y.records[i] = r
         /\ \A j \in 1..Len(x.records) \ {i} : y.records[j] = x.records[j]
<1>. DEFINE records == [x.records EXCEPT ![i] = r]
<1>1. x.records \in Seq(Rec) /\ Len(x.records) \in Nat /\ DOMAIN x.records = 1..Len(x.records)
  BY FrontierParts
<1>2. records \in Seq(Rec) /\ Len(records) = Len(x.records)
  BY <1>1, ExceptSeq
<1>3. records[i] = r /\ \A j \in 1..Len(x.records) \ {i} : records[j] = x.records[j]
  BY <1>1
<1>. HIDE DEF records
<1>4. y = [x EXCEPT !.records = records]
  BY DEF records
<1>5. FrontierOK(y) /\ y.records = records /\ y.byKey = x.byKey /\ y.queue = x.queue
  BY <1>2, <1>4, SameIndex
<1>. QED BY <1>2, <1>3, <1>5

\* mark_fetched and mark_failed settle the record, if it is not settled already.
LEMMA MarkKeeps ==
  ASSUME NEW x, FrontierOK(x), NEW i \in 1..Len(x.records), NEW state \in Settled,
         NEW reason \in Reasons
  PROVE  LET y == Mark(x, i, state, reason)
         IN /\ FrontierOK(y) /\ Len(y.records) = Len(x.records)
            /\ y.byKey = x.byKey /\ y.queue = x.queue
            /\ \A j \in 1..Len(x.records) \ {i} : y.records[j] = x.records[j]
            /\ UrlOf(y, i) = UrlOf(x, i)
            /\ StateOf(y, i) = IF StateOf(x, i) = "queued" THEN state ELSE StateOf(x, i)
            /\ Done(x) \subseteq Done(y) /\ WaitStill(x, y)
<1>. DEFINE y == Mark(x, i, state, reason)
            old == x.records[i]
            r == [old EXCEPT !.state = state, !.reason = reason]
<1>1. /\ x.records \in Seq(Rec) /\ Len(x.records) \in Nat /\ DOMAIN x.records = 1..Len(x.records)
      /\ x \in FrontierType /\ old \in Rec /\ StateOf(x, i) \in States
      /\ \A k \in Keys : x.byKey[k] \in 0..Len(x.records)
  BY FrontierParts DEF FrontierOK
<1>2. r \in Rec /\ r.state = state /\ r.url = old.url
  BY <1>1 DEF Rec, States
<1>3. /\ FrontierOK(y) /\ Len(y.records) = Len(x.records)
      /\ y.byKey = x.byKey /\ y.queue = x.queue
      /\ \A j \in 1..Len(x.records) \ {i} : y.records[j] = x.records[j]
      /\ UrlOf(y, i) = UrlOf(x, i)
      /\ StateOf(y, i) = IF StateOf(x, i) = "queued" THEN state ELSE StateOf(x, i)
  <2>1. CASE old.state \in Settled
    <3>1. y = x /\ StateOf(x, i) # "queued"
      BY <2>1 DEF Mark, Settled, StateOf
    <3>. QED BY <3>1
  <2>2. CASE old.state \notin Settled
    <3>1. StateOf(x, i) = "queued"
      BY <1>1, <2>2 DEF States, StateOf
    <3>2. y = [x EXCEPT !.records = [x.records EXCEPT ![i] = r]]
      BY <1>1, <2>2 DEF Mark, FrontierType
    <3>. HIDE DEF y, r
    <3>3. /\ FrontierOK(y) /\ Len(y.records) = Len(x.records)
          /\ y.byKey = x.byKey /\ y.queue = x.queue /\ y.records[i] = r
          /\ \A j \in 1..Len(x.records) \ {i} : y.records[j] = x.records[j]
      BY <1>2, <3>2, OneRecord
    <3>. QED BY <1>2, <3>1, <3>3 DEF StateOf, UrlOf
  <2>. QED BY <2>1, <2>2
<1>. HIDE DEF y
<1>4. Done(x) \subseteq Done(y)
  BY <1>1, <1>3 DEF Done, StateOf
<1>5. WaitStill(x, y)
  BY <1>1, <1>3 DEF WaitStill, StateOf, UrlOf, Settled
<1>. QED BY <1>3, <1>4, <1>5 DEF y

\* pop takes the head of the queue and changes no record.
LEMMA PopKeeps ==
  ASSUME NEW x, FrontierOK(x), x.queue # <<>>
  PROVE  /\ FrontierOK(Pop(x)) /\ Pop(x).records = x.records /\ Pop(x).byKey = x.byKey
         /\ Done(Pop(x)) = Done(x) /\ WaitStill(x, Pop(x))
         /\ Head(x.queue) \in 1..Len(x.records)
<1>. DEFINE y == Pop(x)
<1>1. x \in FrontierType /\ x.queue \in Seq(Nat) /\ Len(x.queue) \in Nat
      /\ \A j \in 1..Len(x.queue) : x.queue[j] \in 1..Len(x.records)
  BY FrontierParts, LenProperties DEF FrontierOK
<1>2. /\ Tail(x.queue) \in Seq(Nat) /\ Len(Tail(x.queue)) = Len(x.queue) - 1
      /\ \A j \in 1..Len(Tail(x.queue)) : Tail(x.queue)[j] = x.queue[j + 1]
  BY <1>1, HeadTailProperties
<1>3. Len(x.queue) # 0 /\ Head(x.queue) = x.queue[1]
  BY <1>1, EmptySeq, HeadTailProperties
<1>4. /\ y \in FrontierType /\ y.queue = Tail(x.queue) /\ y.records = x.records /\ y.byKey = x.byKey
  BY <1>1, <1>2 DEF Pop, FrontierType
<1>. HIDE DEF y
<1>5. FrontierOK(y)
  <2>1. \A j \in 1..Len(y.queue) : y.queue[j] \in 1..Len(y.records)
    BY <1>1, <1>2, <1>4
  <2>. QED BY <1>4, <2>1 DEF FrontierOK
<1>6. Done(y) = Done(x) /\ WaitStill(x, y)
  BY <1>4 DEF Done, WaitStill, StateOf, UrlOf
<1>7. Head(x.queue) \in 1..Len(x.records)
  BY <1>1, <1>3
<1>. QED BY <1>4, <1>5, <1>6, <1>7 DEF y

\* cancel_queued settles what waits.
LEMMA CancelKeeps ==
  ASSUME NEW x, FrontierOK(x)
  PROVE  LET y == CancelQueued(x)
         IN FrontierOK(y) /\ Done(x) \subseteq Done(y) /\ WaitStill(x, y)
<1>. DEFINE y == CancelQueued(x)
            waiting == {x.queue[j] : j \in DOMAIN x.queue}
            records == [i \in DOMAIN x.records |->
                          IF i \in waiting /\ x.records[i].state = "queued"
                          THEN [x.records[i] EXCEPT !.state = "cancelled", !.reason = "cancelled"]
                          ELSE x.records[i]]
<1>1. /\ x.records \in Seq(Rec) /\ Len(x.records) \in Nat /\ DOMAIN x.records = 1..Len(x.records)
      /\ x \in FrontierType /\ \A i \in 1..Len(x.records) : x.records[i] \in Rec
      /\ \A k \in Keys : x.byKey[k] \in 0..Len(x.records)
  BY FrontierParts DEF FrontierOK
<1>2. y = [x EXCEPT !.records = records, !.queue = <<>>]
  BY DEF CancelQueued
<1>3. \A i \in 1..Len(x.records) :
        /\ records[i] \in Rec /\ records[i].url = x.records[i].url
        /\ records[i].state = x.records[i].state
           \/ (x.records[i].state = "queued" /\ records[i].state = "cancelled")
  <2>. SUFFICES ASSUME NEW i \in 1..Len(x.records)
                PROVE  /\ records[i] \in Rec /\ records[i].url = x.records[i].url
                       /\ records[i].state = x.records[i].state
                          \/ (x.records[i].state = "queued" /\ records[i].state = "cancelled")
    OBVIOUS
  <2>1. x.records[i] \in Rec
    BY <1>1
  <2>. DEFINE gone == [x.records[i] EXCEPT !.state = "cancelled", !.reason = "cancelled"]
  <2>2. gone \in Rec /\ gone.url = x.records[i].url /\ gone.state = "cancelled"
    BY <2>1 DEF Rec, States, Settled, Reasons
  <2>. HIDE DEF waiting
  <2>3. (records[i] = gone /\ x.records[i].state = "queued") \/ records[i] = x.records[i]
    BY <1>1
  <2>. HIDE DEF gone, records
  <2>. QED BY <2>1, <2>2, <2>3
<1>4. records \in Seq(Rec) /\ Len(records) = Len(x.records)
  <2>1. DOMAIN records = 1..Len(x.records)
    BY <1>1
  <2>2. records = [i \in 1..Len(x.records) |-> records[i]]
    BY <1>1
  <2>. HIDE DEF records
  <2>3. records \in [1..Len(x.records) -> Rec]
    BY <1>3, <2>2
  <2>4. records \in Seq(Rec)
    BY <1>1, <2>3, SeqDef
  <2>5. DOMAIN records = 1..Len(records) /\ Len(records) \in Nat
    BY <2>4, LenProperties
  <2>. QED BY <1>1, <2>1, <2>4, <2>5
<1>. HIDE DEF records
<1>5. <<>> \in Seq(Nat) /\ Len(<<>>) = 0
  BY EmptySeq
<1>6. /\ y \in FrontierType /\ y.records = records /\ y.byKey = x.byKey /\ y.queue = <<>>
  BY <1>1, <1>2, <1>4, <1>5 DEF FrontierType
<1>. HIDE DEF y
<1>7. FrontierOK(y)
  BY <1>1, <1>4, <1>5, <1>6 DEF FrontierOK
<1>8. Done(x) \subseteq Done(y)
  BY <1>1, <1>3, <1>4, <1>6 DEF Done
<1>9. WaitStill(x, y)
  BY <1>1, <1>3, <1>4, <1>6 DEF WaitStill, StateOf, UrlOf
<1>. QED BY <1>7, <1>8, <1>9 DEF y

\* What the policy and the frontier give as a reason.
LEMMA ReasonTypes ==
  ASSUME NEW u \in Urls, NEW depth, NEW safe, NEW allowed
  PROVE  /\ RejectionReason(u, depth) \in Reasons
         /\ AdmissionRejection(u, depth, safe, allowed) \in Reasons
         /\ RedirectRejection(u, depth, safe, allowed) \in Reasons
         /\ AdmissionRejection(u, depth, safe, allowed) = "none" =>
              RejectionReason(u, depth) = "none" /\ safe /\ allowed
         /\ RedirectRejection(u, depth, safe, allowed) = "none" =>
              Normalizes(u) /\ RejectionReason(u, depth) = "none" /\ safe /\ allowed
         /\ RejectionReason(u, depth) = "none" => AcceptedOrigin(u) /\ PathRejection(u) = "none"
<1>1. PathRejection(u) \in Reasons
  BY DEF PathRejection, Reasons
<1>2. RejectionReason(u, depth) \in Reasons
      /\ (RejectionReason(u, depth) = "none" => AcceptedOrigin(u) /\ PathRejection(u) = "none")
  BY <1>1 DEF RejectionReason, Reasons
<1>3. AdmissionRejection(u, depth, safe, allowed) \in Reasons
      /\ (AdmissionRejection(u, depth, safe, allowed) = "none" =>
            RejectionReason(u, depth) = "none" /\ safe /\ allowed)
  BY <1>2 DEF AdmissionRejection, Reasons
<1>4. RedirectRejection(u, depth, safe, allowed) \in Reasons
      /\ (RedirectRejection(u, depth, safe, allowed) = "none" =>
            Normalizes(u) /\ RejectionReason(u, depth) = "none" /\ safe /\ allowed)
  BY <1>2 DEF RedirectRejection, Reasons
<1>. QED BY <1>2, <1>3, <1>4

\* One record is added, indexed and queued or neither.
LEMMA NewRecord ==
  ASSUME NEW x, NEW y, FrontierOK(x), NEW r \in Rec, NEW byKey, NEW queue,
         LET n == Len(x.records) + 1
         IN /\ byKey \in [Keys -> Nat]
            /\ \A k \in Keys : byKey[k] = x.byKey[k] \/ (x.byKey[k] = 0 /\ byKey[k] = n)
            /\ queue = x.queue \/ queue = Append(x.queue, n),
         y \in FrontierType, y.records = Append(x.records, r), y.byKey = byKey, y.queue = queue
  PROVE  /\ FrontierOK(y) /\ Done(x) \subseteq Done(y)
         /\ (r.state = "queued" => WaitAs(x, y, r.url)) /\ (r.state # "queued" => WaitStill(x, y))
<1>. DEFINE n == Len(x.records) + 1
            records == Append(x.records, r)
<1>1. /\ x.records \in Seq(Rec) /\ Len(x.records) \in Nat /\ x \in FrontierType
      /\ \A k \in Keys : x.byKey[k] \in 0..Len(x.records)
      /\ x.queue \in Seq(Nat) /\ Len(x.queue) \in Nat
      /\ \A j \in 1..Len(x.queue) : x.queue[j] \in 1..Len(x.records)
  BY FrontierParts, LenProperties DEF FrontierOK
<1>2. /\ records \in Seq(Rec) /\ Len(records) = n /\ records[n] = r
      /\ \A i \in 1..Len(x.records) : records[i] = x.records[i]
  BY <1>1, AppendProperties
<1>0. n = Len(x.records) + 1 /\ n \in Nat
  BY <1>1
<1>. HIDE DEF n
<1>3. /\ queue \in Seq(Nat) /\ \A j \in 1..Len(queue) : queue[j] \in 1..n
  <2>1. CASE queue = x.queue
    BY <1>0, <1>1, <2>1
  <2>2. CASE queue = Append(x.queue, n)
    <3>1. /\ queue \in Seq(Nat) /\ Len(queue) = Len(x.queue) + 1 /\ queue[Len(x.queue) + 1] = n
          /\ \A j \in 1..Len(x.queue) : queue[j] = x.queue[j]
      BY <1>0, <1>1, <2>2, AppendProperties
    <3>2. \A j \in 1..Len(queue) : j \in 1..Len(x.queue) \/ j = Len(x.queue) + 1
      BY <1>1, <3>1
    <3>3. \A j \in 1..Len(x.queue) : queue[j] \in 1..n
      <4>1. \A m \in 1..Len(x.records) : m \in 1..n
        BY <1>0, <1>1
      <4>. QED BY <1>1, <3>1, <4>1
    <3>4. queue[Len(x.queue) + 1] \in 1..n
      BY <1>0, <3>1
    <3>. QED BY <3>1, <3>2, <3>3, <3>4
  <2>. QED BY <1>0, <2>1, <2>2
<1>. HIDE DEF records
<1>5. y \in FrontierType /\ y.records = records /\ y.byKey = byKey /\ y.queue = queue
  BY DEF records
<1>6. FrontierOK(y)
  <2>1. \A k \in Keys : byKey[k] \in 0..n
    <3>1. \A k \in Keys : byKey[k] = x.byKey[k] \/ byKey[k] = n
      BY <1>0
    <3>. QED BY <1>0, <1>1, <3>1
  <2>. QED BY <1>2, <1>3, <1>5, <2>1 DEF FrontierOK
<1>7. Done(x) \subseteq Done(y)
  BY <1>0, <1>1, <1>2, <1>5 DEF Done, n
<1>8. \A i \in 1..Len(y.records) : i = n \/ (i \in 1..Len(x.records) /\ y.records[i] = x.records[i])
  BY <1>0, <1>1, <1>2, <1>5
<1>9. y.records[n] = r
  BY <1>2, <1>5
<1>10. r.state = "queued" => WaitAs(x, y, r.url)
  BY <1>8, <1>9 DEF WaitAs, StateOf, UrlOf
<1>11. r.state # "queued" => WaitStill(x, y)
  BY <1>8, <1>9 DEF WaitStill, StateOf, UrlOf
<1>. QED BY <1>6, <1>7, <1>10, <1>11

\* discover: one record a key, which waits only if nothing refuses it.
LEMMA DiscoverKeeps ==
  ASSUME NEW x, FrontierOK(x), NEW u \in Urls, NEW source \in Sources, NEW depth \in Nat,
         NEW safe, NEW allowed
  PROVE  LET y == Discover(x, u, source, depth, safe, allowed)
         IN /\ FrontierOK(y) /\ Done(x) \subseteq Done(y)
            /\ WaitStill(x, y) \/ (/\ AdmissionRejection(u, depth, safe, allowed) = "none"
                                   /\ Normalizes(u) /\ ~IsKnown(x, u) /\ ~IsFull(x)
                                   /\ WaitAs(x, y, u))
<1>. DEFINE y == Discover(x, u, source, depth, safe, allowed)
            n == Len(x.records) + 1
            reason == AdmissionRejection(u, depth, safe, allowed)
            state == IF reason = "none" THEN "queued" ELSE "filtered"
            entry(st, rs) == [url |-> u, depth |-> depth, sources |-> {source},
                              state |-> st, reason |-> rs]
<1>1. /\ x.records \in Seq(Rec) /\ Len(x.records) \in Nat /\ DOMAIN x.records = 1..Len(x.records)
      /\ x \in FrontierType /\ x.byKey \in [Keys -> Nat] /\ x.queue \in Seq(Nat) /\ x.omitted \in Nat
      /\ \A i \in 1..Len(x.records) : x.records[i] \in Rec
      /\ \A k \in Keys : x.byKey[k] \in 0..Len(x.records)
      /\ Key(u) \in Keys
  BY FrontierParts DEF FrontierOK, Key, Keys
<1>2. reason \in Reasons /\ state \in States
  BY ReasonTypes DEF States, Settled
<1>3. ASSUME NEW z, z = [x EXCEPT !.omitted = x.omitted + 1]
      PROVE  FrontierOK(z) /\ Done(x) \subseteq Done(z) /\ WaitStill(x, z)
  <2>1. z \in FrontierType /\ z.records = x.records /\ z.byKey = x.byKey /\ z.queue = x.queue
    <3>1. x.omitted + 1 \in Nat
      BY <1>1
    <3>. QED BY <1>1, <1>3, <3>1 DEF FrontierType
  <2>. QED BY <1>1, <2>1, FrontierParts DEF FrontierOK, Done, WaitStill, StateOf, UrlOf
<1>4. CASE ~Normalizes(u)
  <2>1. CASE IsFull(x)
    BY <1>3, <1>4, <2>1 DEF Discover, RecordFiltered
  <2>2. CASE ~IsFull(x)
    <3>. DEFINE r == entry("filtered", "invalid_url")
    <3>1. r \in Rec /\ r.state # "queued"
      BY DEF Rec, States, Settled, Reasons
    <3>2. y = [x EXCEPT !.records = Append(x.records, r)]
      BY <1>4, <2>2 DEF Discover, RecordFiltered
    <3>. HIDE DEF y, r
    <3>4. y \in FrontierType /\ y.records = Append(x.records, r) /\ y.byKey = x.byKey /\ y.queue = x.queue
      BY <1>1, <3>1, <3>2, AppendProperties DEF FrontierType
    <3>3. FrontierOK(y) /\ Done(x) \subseteq Done(y) /\ WaitStill(x, y)
      BY <1>1, <3>1, <3>4, NewRecord
    <3>. QED BY <3>3 DEF y
  <2>. QED BY <2>1, <2>2
<1>5. CASE Normalizes(u) /\ IsKnown(x, u)
  <2>. DEFINE i == x.byKey[Key(u)]
              old == x.records[i]
              r == [old EXCEPT !.sources = old.sources \cup {source},
                               !.depth = Lesser(old.depth, depth)]
  <2>1. i \in 1..Len(x.records) /\ old \in Rec
    BY <1>1, <1>5 DEF IsKnown
  <2>2. r \in Rec /\ r.state = old.state /\ r.url = old.url
    <3>1. old.sources \cup {source} \in SUBSET Sources /\ Lesser(old.depth, depth) \in Nat
      BY <2>1 DEF Rec, Lesser
    <3>. QED BY <2>1, <3>1 DEF Rec
  <2>3. y = [x EXCEPT !.records = [x.records EXCEPT ![i] = r]]
    <3>1. y = MergeDiscovery(x, i, source, depth)
      BY <1>5 DEF Discover
    <3>. HIDE DEF i, y
    <3>. QED BY <1>1, <2>1, <3>1 DEF MergeDiscovery, FrontierType, Rec
  <2>. HIDE DEF y, r
  <2>4. /\ FrontierOK(y) /\ Len(y.records) = Len(x.records)
        /\ y.byKey = x.byKey /\ y.queue = x.queue /\ y.records[i] = r
        /\ \A j \in 1..Len(x.records) \ {i} : y.records[j] = x.records[j]
    BY <2>1, <2>2, <2>3, OneRecord
  <2>. HIDE DEF i
  <2>5. \A j \in 1..Len(x.records) : StateOf(y, j) = StateOf(x, j) /\ UrlOf(y, j) = UrlOf(x, j)
    BY <2>1, <2>2, <2>4 DEF StateOf, UrlOf
  <2>6. Done(x) \subseteq Done(y)
    BY <1>1, <2>4, <2>5 DEF Done, StateOf
  <2>7. WaitStill(x, y)
    BY <2>4, <2>5 DEF WaitStill
  <2>. QED BY <2>4, <2>6, <2>7 DEF y
<1>6. CASE Normalizes(u) /\ ~IsKnown(x, u) /\ IsFull(x)
  BY <1>3, <1>6 DEF Discover
<1>7. CASE Normalizes(u) /\ ~IsKnown(x, u) /\ ~IsFull(x)
  <2>. DEFINE r == entry(state, reason)
              byKey == [x.byKey EXCEPT ![Key(u)] = n]
              queue == IF reason = "none" THEN Append(x.queue, n) ELSE x.queue
  <2>1. r \in Rec /\ r.url = u /\ r.state = state
    <3>. HIDE DEF state, reason
    <3>. QED BY <1>2 DEF Rec
  <2>2. y = [x EXCEPT !.records = Append(x.records, r), !.byKey = byKey, !.queue = queue]
    BY <1>7 DEF Discover, Enqueued
  <2>3. /\ byKey \in [Keys -> Nat]
        /\ \A k \in Keys : byKey[k] = x.byKey[k] \/ (x.byKey[k] = 0 /\ byKey[k] = n)
        /\ queue = x.queue \/ queue = Append(x.queue, n)
    BY <1>1, <1>7 DEF IsKnown
  <2>. HIDE DEF y, r, byKey, queue
  <2>6. queue \in Seq(Nat)
    <3>1. n \in Nat
      BY <1>1
    <3>. HIDE DEF n
    <3>2. Append(x.queue, n) \in Seq(Nat)
      BY <1>1, <3>1, AppendProperties
    <3>. QED BY <1>1, <2>3, <3>2
  <2>7. y \in FrontierType /\ y.records = Append(x.records, r) /\ y.byKey = byKey /\ y.queue = queue
    BY <1>1, <2>1, <2>2, <2>3, <2>6, AppendProperties DEF FrontierType
  <2>4. /\ FrontierOK(y) /\ Done(x) \subseteq Done(y)
        /\ (r.state = "queued" => WaitAs(x, y, r.url)) /\ (r.state # "queued" => WaitStill(x, y))
    BY <2>1, <2>3, <2>7, NewRecord
  <2>5. state = "queued" => reason = "none"
    OBVIOUS
  <2>. QED BY <1>7, <2>1, <2>4, <2>5 DEF y
<1>. QED BY <1>4, <1>5, <1>6, <1>7

\* reconcile_final: the page has one record, which has not been fetched under another
\* address before.
LEMMA ReconcileKeeps ==
  ASSUME NEW x, FrontierOK(x), NEW i \in 1..Len(x.records), StateOf(x, i) = "queued",
         NEW u \in Urls, NEW safe, NEW allowed
  PROVE  LET r == ReconcileFinal(x, i, u, safe, allowed)
             y == r.frontier
         IN /\ FrontierOK(y) /\ Done(x) \subseteq Done(y) /\ Len(y.records) = Len(x.records)
            /\ r.final = 0 => WaitStill(x, y)
            /\ r.final # 0 =>
                 /\ RedirectRejection(u, x.records[i].depth, safe, allowed) = "none"
                 /\ Key(u) \notin Done(x)
                 /\ r.final \in 1..Len(y.records) /\ y.byKey[Key(u)] = r.final
                 /\ StateOf(y, r.final) \in {"queued", "fetched"}
                 /\ WaitAs(x, y, u)
<1>. DEFINE r == ReconcileFinal(x, i, u, safe, allowed)
            reason == RedirectRejection(u, x.records[i].depth, safe, allowed)
            e == x.byKey[Key(u)]
            old == Key(x.records[i].url)
            byKey == [k \in Keys |-> IF k = Key(u) THEN i
                                     ELSE IF k = old /\ x.byKey[k] = i THEN 0
                                     ELSE x.byKey[k]]
            Kept(q) == /\ FrontierOK(q.frontier) /\ Done(x) \subseteq Done(q.frontier)
                       /\ Len(q.frontier.records) = Len(x.records)
            Refused(q) == Kept(q) /\ q.final = 0 /\ WaitStill(x, q.frontier)
            Accepted(q) == /\ Kept(q) /\ reason = "none" /\ Key(u) \notin Done(x)
                           /\ q.final \in 1..Len(q.frontier.records)
                           /\ q.frontier.byKey[Key(u)] = q.final
                           /\ StateOf(q.frontier, q.final) \in {"queued", "fetched"}
                           /\ WaitAs(x, q.frontier, u)
<1>1. /\ x.records \in Seq(Rec) /\ Len(x.records) \in Nat /\ DOMAIN x.records = 1..Len(x.records)
      /\ x \in FrontierType /\ x.byKey \in [Keys -> Nat]
      /\ \A j \in 1..Len(x.records) : x.records[j] \in Rec /\ UrlOf(x, j) \in Urls
      /\ \A k \in Keys : x.byKey[k] \in 0..Len(x.records)
      /\ Key(u) \in Keys
  BY FrontierParts DEF FrontierOK, Key, Keys
<1>2. reason \in Reasons /\ "failed" \in Settled /\ "fetched" \in Settled
      /\ "duplicate_final_url" \in Reasons /\ "none" \in Reasons
  BY ReasonTypes DEF Settled, Reasons
<1>3. CASE reason # "none"
  <2>. DEFINE y == Mark(x, i, "failed", reason)
  <2>1. r = [frontier |-> y, final |-> 0]
    BY <1>3 DEF ReconcileFinal
  <2>2. FrontierOK(y) /\ Done(x) \subseteq Done(y) /\ Len(y.records) = Len(x.records) /\ WaitStill(x, y)
    <3>. HIDE DEF reason
    <3>. QED BY <1>2, MarkKeeps
  <2>. HIDE DEF y, r
  <2>3. Refused(r)
    BY <2>1, <2>2
  <2>. QED BY <2>1, <2>3 DEF r
<1>4. CASE reason = "none" /\ e \notin {0, i}
  <2>. DEFINE were == x.records[e]
              both == [were EXCEPT !.sources = were.sources \cup x.records[i].sources,
                                   !.depth = Lesser(were.depth, x.records[i].depth)]
              merged == [x EXCEPT !.records = [x.records EXCEPT ![e] = both]]
              failed == Mark(merged, i, "failed", "duplicate_final_url")
  <2>1. e \in 1..Len(x.records) /\ e # i /\ were \in Rec
    BY <1>1, <1>4
  <2>2. both \in Rec /\ both.state = were.state /\ both.url = were.url
    <3>1. were.sources \cup x.records[i].sources \in SUBSET Sources
          /\ Lesser(were.depth, x.records[i].depth) \in Nat
      BY <1>1, <2>1 DEF Rec, Lesser
    <3>. QED BY <2>1, <3>1 DEF Rec
  <2>3. r = IF x.records[e].state # "queued"
            THEN [frontier |-> failed, final |-> 0]
            ELSE [frontier |-> Mark(failed, e, "fetched", "none"), final |-> e]
    <3>1. r = MergeFinalRecord(x, i, e)
      BY <1>4 DEF ReconcileFinal
    <3>2. merged = [x EXCEPT !.records[e].sources = @ \cup x.records[i].sources,
                             !.records[e].depth = Lesser(@, x.records[i].depth)]
      <4>. HIDE DEF e
      <4>. QED BY <1>1, <2>1 DEF FrontierType, Rec
    <3>. HIDE DEF merged, e, r
    <3>. QED BY <3>1, <3>2 DEF MergeFinalRecord
  <2>. HIDE DEF r, e, both
  <2>4. /\ FrontierOK(merged) /\ Len(merged.records) = Len(x.records)
        /\ merged.byKey = x.byKey /\ merged.records[e] = both
        /\ \A j \in 1..Len(x.records) \ {e} : merged.records[j] = x.records[j]
    <3>. HIDE DEF merged
    <3>1. merged = [x EXCEPT !.records = [x.records EXCEPT ![e] = both]]
      BY DEF merged
    <3>. QED BY <2>1, <2>2, <3>1, OneRecord
  <2>. HIDE DEF merged
  <2>5. \A j \in 1..Len(x.records) : StateOf(merged, j) = StateOf(x, j) /\ UrlOf(merged, j) = UrlOf(x, j)
    BY <2>1, <2>2, <2>4 DEF StateOf, UrlOf
  <2>6. Done(x) \subseteq Done(merged) /\ WaitStill(x, merged)
    BY <1>1, <2>4, <2>5 DEF Done, StateOf, WaitStill
  <2>7. /\ FrontierOK(failed) /\ Len(failed.records) = Len(x.records) /\ failed.byKey = x.byKey
        /\ \A j \in 1..Len(x.records) \ {i} : failed.records[j] = merged.records[j]
        /\ Done(merged) \subseteq Done(failed) /\ WaitStill(merged, failed)
    BY <1>2, <2>4, MarkKeeps
  <2>. HIDE DEF failed
  <2>8. WaitStill(x, failed)
    BY <2>4, <2>6, <2>7 DEF WaitStill
  <2>9. CASE x.records[e].state # "queued"
    <3>1. r = [frontier |-> failed, final |-> 0]
      BY <2>3, <2>9
    <3>2. Refused(r)
      BY <2>6, <2>7, <2>8, <3>1
    <3>. QED BY <3>1, <3>2 DEF r
  <2>10. CASE x.records[e].state = "queued"
    <3>. DEFINE y == Mark(failed, e, "fetched", "none")
    <3>1. r = [frontier |-> y, final |-> e]
      BY <2>3, <2>10
    <3>2. StateOf(failed, e) = "queued" /\ e \in 1..Len(failed.records)
      BY <2>1, <2>5, <2>7, <2>10 DEF StateOf
    <3>3. /\ FrontierOK(y) /\ Len(y.records) = Len(x.records) /\ y.byKey = x.byKey
          /\ StateOf(y, e) = "fetched" /\ Done(failed) \subseteq Done(y) /\ WaitStill(failed, y)
      BY <1>2, <2>7, <3>2, MarkKeeps
    <3>. HIDE DEF y
    <3>4. WaitAs(x, y, u)
      BY <2>8, <3>3 DEF WaitStill, WaitAs
    <3>5. Key(u) \notin Done(x)
      BY <2>10 DEF Done, e
    <3>6. y.byKey[Key(u)] = e
      BY <3>3 DEF e
    <3>7. Accepted(r) /\ r.final # 0
      BY <1>4, <2>1, <2>6, <2>7, <3>1, <3>3, <3>4, <3>5, <3>6
    <3>. QED BY <3>7 DEF r
  <2>. QED BY <2>9, <2>10
<1>5. CASE reason = "none" /\ e \in {0, i}
  <2>. DEFINE moved == [x.records[i] EXCEPT !.url = u]
              records == [x.records EXCEPT ![i] = moved]
              y == [x EXCEPT !.records = records, !.byKey = byKey]
  <2>1. moved \in Rec /\ moved.state = "queued" /\ moved.url = u
    BY <1>1 DEF Rec, StateOf
  <2>2. r = [frontier |-> y, final |-> i]
    <3>1. y = [x EXCEPT !.records[i].url = u, !.byKey = byKey]
      <4>. HIDE DEF byKey
      <4>. QED BY <1>1 DEF FrontierType, Rec
    <3>2. r = [frontier |-> [x EXCEPT !.records[i].url = u, !.byKey = byKey], final |-> i]
      BY <1>5 DEF ReconcileFinal
    <3>. HIDE DEF y, r
    <3>. QED BY <3>1, <3>2
  <2>. HIDE DEF r, moved
  <2>3. /\ records \in Seq(Rec) /\ Len(records) = Len(x.records) /\ records[i] = moved
        /\ \A j \in 1..Len(x.records) \ {i} : records[j] = x.records[j]
    BY <1>1, <2>1, ExceptSeq
  <2>4. /\ byKey \in [Keys -> Nat] /\ byKey[Key(u)] = i
        /\ \A k \in Keys : /\ byKey[k] \in 0..Len(x.records)
                           /\ k = Key(u) \/ x.byKey[k] = i \/ byKey[k] = x.byKey[k]
    <3>. HIDE DEF old
    <3>. QED BY <1>1
  <2>. HIDE DEF records, byKey
  <2>5. y \in FrontierType /\ y.records = records /\ y.byKey = byKey /\ y.queue = x.queue
    BY <1>1, <2>3, <2>4 DEF FrontierType
  <2>. HIDE DEF y
  <2>6. FrontierOK(y)
    BY <2>3, <2>4, <2>5 DEF FrontierOK
  <2>7. Key(u) \notin Done(x)
    BY <1>5 DEF Done, StateOf
  <2>8. Done(x) \subseteq Done(y)
    <3>. SUFFICES ASSUME NEW k \in Keys, x.byKey[k] # 0, x.records[x.byKey[k]].state = "fetched"
                  PROVE  y.byKey[k] # 0 /\ y.records[y.byKey[k]].state = "fetched"
      BY DEF Done
    <3>1. x.byKey[k] # i /\ k # Key(u) /\ x.byKey[k] \in 1..Len(x.records)
      BY <1>1, <2>7 DEF Done, StateOf
    <3>. QED BY <2>3, <2>4, <2>5, <3>1
  <2>9. WaitAs(x, y, u)
    BY <2>1, <2>3, <2>5 DEF WaitAs, StateOf, UrlOf
  <2>10. StateOf(y, i) = "queued"
    BY <2>1, <2>3, <2>5 DEF StateOf
  <2>11. Accepted(r) /\ r.final # 0
    BY <1>1, <1>5, <2>2, <2>3, <2>4, <2>5, <2>6, <2>7, <2>8, <2>9, <2>10
  <2>. QED BY <2>11 DEF r
<1>. QED BY <1>3, <1>4, <1>5

-----------------------------------------------------------------------------
(* The frontier and the robots files of an operation.                      *)

SiteType ==
  [frontier : FrontierType, robots : [Origins -> RobotsStates \cup {"none"}], documents : Nat]

\* Nothing forbids to ask for the page at u.
Passes(x, u) ==
  AcceptedOrigin(u) /\ PathRejection(u) = "none" /\ Address[u].safe /\ Allows(x, Address[u])

\* A page that waits to be fetched may be fetched.
SiteOK(x) ==
  /\ x \in SiteType /\ FrontierOK(x.frontier)
  /\ \A i \in 1..Len(x.frontier.records) :
       StateOf(x.frontier, i) = "queued" => Passes(x, UrlOf(x.frontier, i))

\* A robots file is read once an operation.
RobotsKept(x, y) == \A o \in Origins : x.robots[o] # "none" => y.robots[o] = x.robots[o]

\* What has been read and what has been fetched stays so.
Keeps(x, y) == RobotsKept(x, y) /\ Done(x.frontier) \subseteq Done(y.frontier)

TruthOK == truth \in [Origins -> RobotsStates]

\* What may be fetched may be fetched later.
LEMMA PassesLater ==
  ASSUME NEW x, NEW y, RobotsKept(x, y), NEW u, Passes(x, u)
  PROVE  Passes(y, u)
<1>. DEFINE o == Address[u].origin
<1>1. o \in Origins
  BY DEF Passes, AcceptedOrigin, Origins
<1>2. x.robots[o] \in {"unavailable", "available"}
  BY DEF Passes, Allows
<1>3. y.robots[o] = x.robots[o]
  BY <1>1, <1>2 DEF RobotsKept
<1>. QED BY <1>3 DEF Passes, Allows

\* One step after the other.
LEMMA KeepsTransitive ==
  ASSUME NEW x, NEW y, NEW z, Keeps(x, y), Keeps(y, z)
  PROVE  Keeps(x, z)
  BY DEF Keeps, RobotsKept

\* _robots_for reads at most the file it is asked for.
LEMMA RobotsForKeeps ==
  ASSUME NEW x, x \in SiteType, TruthOK, NEW o \in Origins
  PROVE  /\ RobotsFor(x, o) \in SiteType /\ RobotsFor(x, o).frontier = x.frontier
         /\ RobotsKept(x, RobotsFor(x, o))
<1>. DEFINE y == RobotsFor(x, o)
<1>1. /\ x.robots \in [Origins -> RobotsStates \cup {"none"}] /\ x.documents \in Nat
      /\ truth[o] \in RobotsStates /\ "unreachable" \in RobotsStates
  BY DEF SiteType, TruthOK, RobotsStates
<1>2. ASSUME NEW z, z \in SiteType, z.frontier = x.frontier, x.robots[o] = "none",
             \A p \in Origins \ {o} : z.robots[p] = x.robots[p]
      PROVE  z \in SiteType /\ z.frontier = x.frontier /\ RobotsKept(x, z)
  BY <1>2 DEF RobotsKept
<1>3. CASE x.robots[o] # "none"
  BY <1>3 DEF RobotsFor, RobotsKept
<1>4. ASSUME x.robots[o] = "none", o \in cached
      PROVE  /\ y \in SiteType /\ y.frontier = x.frontier
             /\ \A p \in Origins \ {o} : y.robots[p] = x.robots[p]
  <2>1. y = [x EXCEPT !.robots[o] = truth[o]]
    BY <1>4 DEF RobotsFor
  <2>. HIDE DEF y
  <2>. QED BY <1>1, <2>1 DEF SiteType
<1>5. ASSUME x.robots[o] = "none", o \notin cached, x.documents >= MaxFanout
      PROVE  /\ y \in SiteType /\ y.frontier = x.frontier
             /\ \A p \in Origins \ {o} : y.robots[p] = x.robots[p]
  <2>1. y = [x EXCEPT !.robots[o] = "unreachable"]
    BY <1>5 DEF RobotsFor
  <2>. HIDE DEF y
  <2>. QED BY <1>1, <2>1 DEF SiteType
<1>6. ASSUME x.robots[o] = "none", o \notin cached, ~(x.documents >= MaxFanout)
      PROVE  /\ y \in SiteType /\ y.frontier = x.frontier
             /\ \A p \in Origins \ {o} : y.robots[p] = x.robots[p]
  <2>1. y = [x EXCEPT !.robots[o] = truth[o], !.documents = x.documents + 1]
    BY <1>6 DEF RobotsFor
  <2>2. x.documents + 1 \in Nat
    BY <1>1
  <2>. HIDE DEF y
  <2>. QED BY <1>1, <2>1, <2>2 DEF SiteType
<1>. HIDE DEF y
<1>7. y \in SiteType /\ y.frontier = x.frontier /\ RobotsKept(x, y)
  <2>1. CASE x.robots[o] # "none"
    BY <1>3, <2>1 DEF y
  <2>2. CASE x.robots[o] = "none"
    BY <1>2, <1>4, <1>5, <1>6, <2>2
  <2>. QED BY <2>1, <2>2
<1>. QED BY <1>7 DEF y

\* The robots files are those of z, the frontier is g.
LEMMA FrontierChanges ==
  ASSUME NEW x, SiteOK(x), NEW z, z \in SiteType, z.frontier = x.frontier, RobotsKept(x, z),
         NEW g, FrontierOK(g), Done(x.frontier) \subseteq Done(g),
         WaitStill(x.frontier, g) \/ (\E u : WaitAs(x.frontier, g, u) /\ Passes(z, u))
  PROVE  LET y == [z EXCEPT !.frontier = g]
         IN SiteOK(y) /\ Keeps(x, y) /\ y.frontier = g /\ y.robots = z.robots
<1>. DEFINE y == [z EXCEPT !.frontier = g]
<1>1. y \in SiteType /\ y.frontier = g /\ y.robots = z.robots
  BY DEF SiteType, FrontierOK
<1>. HIDE DEF y
<1>2. \A v : Passes(y, v) <=> Passes(z, v)
  BY <1>1 DEF Passes, Allows
<1>3. ASSUME NEW i \in 1..Len(g.records), StateOf(g, i) = "queued" PROVE Passes(y, UrlOf(g, i))
  <2>1. ASSUME i \in 1..Len(x.frontier.records), StateOf(x.frontier, i) = "queued",
               UrlOf(g, i) = UrlOf(x.frontier, i)
        PROVE  Passes(y, UrlOf(g, i))
    <3>1. Passes(x, UrlOf(g, i))
      BY <2>1 DEF SiteOK
    <3>. QED BY <1>2, <3>1, PassesLater
  <2>2. CASE WaitStill(x.frontier, g)
    BY <1>3, <2>1, <2>2 DEF WaitStill
  <2>3. ASSUME NEW u, WaitAs(x.frontier, g, u), Passes(z, u) PROVE Passes(y, UrlOf(g, i))
    BY <1>2, <1>3, <2>1, <2>3 DEF WaitAs
  <2>. QED BY <2>2, <2>3
<1>4. SiteOK(y) /\ Keeps(x, y)
  BY <1>1, <1>3 DEF SiteOK, Keeps, RobotsKept
<1>. QED BY <1>1, <1>4 DEF y

\* _admit: an address waits only if the policy, the safety check and the robots file of its
\* origin let it pass.
LEMMA AdmitKeeps ==
  ASSUME NEW x, SiteOK(x), TruthOK, NEW u \in Urls, NEW source \in Sources, NEW depth \in Nat
  PROVE  SiteOK(Admit(x, u, source, depth)) /\ Keeps(x, Admit(x, u, source, depth))
<1>. DEFINE f0 == x.frontier
            o == Address[u].origin
            informed == RobotsFor(x, o)
            settled == \/ ~Normalizes(u)
                       \/ RejectionReason(u, depth) # "none"
                       \/ IsKnown(f0, u) \/ IsFull(f0)
            y == Admit(x, u, source, depth)
            Found(s, a) == Discover(f0, u, source, depth, s, a)
<1>1. x \in SiteType /\ FrontierOK(f0) /\ Keeps(x, x) /\ RobotsKept(x, x)
  BY DEF SiteOK, Keeps, RobotsKept
<1>2. ASSUME NEW s, NEW a
      PROVE  /\ FrontierOK(Found(s, a)) /\ Done(f0) \subseteq Done(Found(s, a))
             /\ WaitStill(f0, Found(s, a))
                \/ (/\ AdmissionRejection(u, depth, s, a) = "none"
                    /\ Normalizes(u) /\ ~IsKnown(f0, u) /\ ~IsFull(f0)
                    /\ WaitAs(f0, Found(s, a), u))
  BY <1>1, DiscoverKeeps
<1>. HIDE DEF Found
<1>3. CASE ~Address[u].http
  BY <1>1, <1>3 DEF Admit
<1>4. ASSUME ~Normalizes(u) \/ IsKnown(f0, u) \/ IsFull(f0) \/ RejectionReason(u, depth) # "none",
             NEW s, NEW a
      PROVE  WaitStill(f0, Found(s, a))
  <2>1. AdmissionRejection(u, depth, s, a) = "none" => RejectionReason(u, depth) = "none"
    BY ReasonTypes
  <2>. QED BY <1>2, <1>4, <2>1
<1>5. CASE Address[u].http /\ settled
  <2>1. y = [x EXCEPT !.frontier = Found(TRUE, TRUE)]
    BY <1>5 DEF Admit, Found
  <2>2. WaitStill(f0, Found(TRUE, TRUE))
    BY <1>4, <1>5
  <2>. HIDE DEF y
  <2>3. SiteOK(y) /\ Keeps(x, y)
    BY <1>1, <1>2, <2>1, <2>2, FrontierChanges
  <2>. QED BY <2>3 DEF y
<1>6. CASE Address[u].http /\ ~settled /\ ~Address[u].safe
  <2>1. y = [x EXCEPT !.frontier = Found(FALSE, FALSE)]
    BY <1>6 DEF Admit, Found
  <2>2. WaitStill(f0, Found(FALSE, FALSE))
    BY <1>2, ReasonTypes
  <2>. HIDE DEF y
  <2>3. SiteOK(y) /\ Keeps(x, y)
    BY <1>1, <1>2, <2>1, <2>2, FrontierChanges
  <2>. QED BY <2>3 DEF y
<1>7. CASE Address[u].http /\ ~settled /\ Address[u].safe
  <2>. DEFINE a == Allows(informed, Address[u])
              g == Found(TRUE, a)
  <2>1. AcceptedOrigin(u) /\ PathRejection(u) = "none" /\ o \in Origins
    BY <1>7, ReasonTypes DEF AcceptedOrigin, Origins
  <2>2. informed \in SiteType /\ informed.frontier = f0 /\ RobotsKept(x, informed)
    BY <1>1, <2>1, RobotsForKeeps
  <2>3. y = [informed EXCEPT !.frontier = g]
    <3>1. y = [informed EXCEPT !.frontier = Discover(informed.frontier, u, source, depth, TRUE, a)]
      BY <1>7 DEF Admit
    <3>. HIDE DEF y, informed, a
    <3>. QED BY <2>2, <3>1 DEF Found
  <2>4. WaitStill(f0, g) \/ (WaitAs(f0, g, u) /\ Passes(informed, u))
    <3>1. AdmissionRejection(u, depth, TRUE, a) = "none" => Passes(informed, u)
      <4>1. AdmissionRejection(u, depth, TRUE, a) = "none" => a
        <5>. HIDE DEF a
        <5>. QED BY DEF AdmissionRejection
      <4>. QED BY <1>7, <2>1, <4>1 DEF Passes
    <3>. HIDE DEF a
    <3>. QED BY <1>2, <3>1
  <2>5. FrontierOK(g) /\ Done(f0) \subseteq Done(g)
    BY <1>2
  <2>. HIDE DEF y, informed, g
  <2>6. SiteOK(y) /\ Keeps(x, y)
    BY <2>2, <2>3, <2>4, <2>5, FrontierChanges
  <2>. QED BY <2>6 DEF y
<1>. QED BY <1>3, <1>5, <1>6, <1>7

-----------------------------------------------------------------------------
(* Several addresses are admitted one after the other.                     *)

\* A set of numbers with 0 and the successor of each of its numbers has them all.
LEMMA SetInduction ==
  ASSUME NEW K, 0 \in K, \A n \in Nat : n \in K => n + 1 \in K
  PROVE  Nat \subseteq K
<1>. SUFFICES ASSUME NEW m \in Nat, m \notin K PROVE FALSE
  OBVIOUS
<1>. DEFINE R == StrictSubsetOrdering(Nat)
            S == FiniteSubsetsOf(Nat)
            T == {X \in S : \E n \in Nat \ K : X = 1..n}
<1>1. IsWellFoundedOn(R, S)
  BY FS_StrictSubsetOrderingWellFounded
<1>2. \A n \in Nat \ K : 1..n \in T
  <2>1. \A n \in Nat : IsFiniteSet(1..n)
    BY FS_Interval
  <2>. QED BY <2>1 DEF FiniteSubsetsOf
<1>3. T \subseteq S /\ T # {}
  BY <1>2
<1>4. \E X \in T : \A Y \in T : ~(<<Y, X>> \in R)
  <2>. HIDE DEF R, S, T
  <2>. QED BY <1>1, <1>3, WFMin
<1>5. PICK X \in T : \A Y \in T : ~(<<Y, X>> \in R)
  BY <1>4
<1>6. PICK n \in Nat \ K : X = 1..n
  BY <1>5
<1>7. n - 1 \in Nat \ K
  BY <1>6
<1>8. <<1..n - 1, 1..n>> \in R
  <2>1. 1..n - 1 \subseteq 1..n /\ n \in 1..n /\ n \notin 1..n - 1
    BY <1>6, <1>7
  <2>2. 1..n \in SUBSET Nat /\ 1..n - 1 \in SUBSET Nat
    BY <1>6, <1>7
  <2>. QED BY <2>1, <2>2 DEF StrictSubsetOrdering
<1>9. 1..n - 1 \in T
  BY <1>2, <1>7
<1>. HIDE DEF R, T
<1>. QED BY <1>5, <1>6, <1>8, <1>9

\* From a, F makes the values of g up to m, each from the one before.
Steps(m, g, B, a, F) ==
  /\ g \in [0..m -> B] /\ g[0] = a
  /\ \A n \in 1..m : g[n] = F[<<g[n - 1], n>>]

\* There are such values.
LEMMA StepsExist ==
  ASSUME NEW N \in Nat, NEW B, NEW a \in B, NEW F \in [B \X (1..N) -> B]
  PROVE  \E g : Steps(N, g, B, a, F)
<1>. DEFINE K == {m \in Nat : m <= N => \E g : Steps(m, g, B, a, F)}
<1>1. 0 \in K
  <2>1. Steps(0, [n \in 0..0 |-> a], B, a, F)
    BY DEF Steps
  <2>. QED BY <2>1
<1>2. ASSUME NEW m \in Nat, m \in K PROVE m + 1 \in K
  <2>. SUFFICES ASSUME m + 1 <= N PROVE \E h : Steps(m + 1, h, B, a, F)
    OBVIOUS
  <2>1. PICK g : Steps(m, g, B, a, F)
    BY <1>2
  <2>. DEFINE h == [n \in 0..m + 1 |-> IF n = m + 1 THEN F[<<g[m], m + 1>>] ELSE g[n]]
  <2>2. g[m] \in B /\ m + 1 \in 1..N
    BY <2>1 DEF Steps
  <2>3. F[<<g[m], m + 1>>] \in B
    BY <2>2
  <2>4. h \in [0..m + 1 -> B] /\ h[0] = a
    BY <2>1, <2>3 DEF Steps
  <2>5. ASSUME NEW n \in 1..m + 1 PROVE h[n] = F[<<h[n - 1], n>>]
    <3>1. CASE n = m + 1
      <4>1. h[n - 1] = g[m] /\ h[n] = F[<<g[m], m + 1>>]
        BY <3>1
      <4>. HIDE DEF h
      <4>. QED BY <3>1, <4>1
    <3>2. CASE n # m + 1
      <4>1. n \in 1..m /\ n - 1 \in 0..m /\ n - 1 # m + 1
        BY <2>5, <3>2
      <4>2. h[n] = g[n] /\ h[n - 1] = g[n - 1]
        BY <3>2, <4>1
      <4>. HIDE DEF h
      <4>. QED BY <2>1, <4>1, <4>2 DEF Steps
    <3>. QED BY <3>1, <3>2
  <2>. HIDE DEF h
  <2>6. Steps(m + 1, h, B, a, F)
    BY <2>4, <2>5 DEF Steps
  <2>. QED BY <2>6
<1>3. Nat \subseteq K
  <2>. HIDE DEF K
  <2>. QED BY <1>1, <1>2, SetInduction
<1>. QED BY <1>3

\* A finite set has an order.
LEMMA OrderExists ==
  ASSUME NEW S, IsFiniteSet(S)
  PROVE  SetToSeq(S) \in Seq(S)
<1>1. Cardinality(S) \in Nat /\ ExistsBijection(1..Cardinality(S), S)
  BY FS_CardinalityType
<1>2. PICK b : b \in Bijection(1..Cardinality(S), S)
  BY <1>1 DEF ExistsBijection
<1>3. b \in [1..Cardinality(S) -> S] /\ IsInjective(b)
  BY <1>2 DEF Bijection, Injection, IsInjective
<1>4. SetToSeq(S) \in [1..Cardinality(S) -> S]
  BY <1>3 DEF SetToSeq
<1>. QED BY <1>1, <1>4, SeqDef

\* What one address keeps, several keep, in whatever order they come.
LEMMA AdmitAllStays ==
  ASSUME NEW B, NEW x \in B, NEW urls, urls \subseteq Urls, IsFiniteSet(urls),
         NEW source \in Sources, NEW depth \in Nat,
         \A y \in B : \A u \in Urls : Admit(y, u, source, depth) \in B
  PROVE  AdmitAll(x, urls, source, depth) \in B
<1>. DEFINE order == SetToSeq(urls)
            N == Len(order)
            Row(h) == [n \in 0..N |-> IF n = 0 THEN x ELSE Admit(h[n - 1], order[n], source, depth)]
            h0 == CHOOSE h : h = Row(h)
            F == [p \in B \X (1..N) |-> Admit(p[1], order[p[2]], source, depth)]
<1>1. N \in Nat /\ \A n \in 1..N : order[n] \in Urls
  <2>1. order \in Seq(urls)
    BY OrderExists
  <2>. HIDE DEF order
  <2>. QED BY <2>1, ElementOfSeq, LenProperties
<1>3. \A y \in B, n \in 1..N : Admit(y, order[n], source, depth) \in B
  <2>. HIDE DEF order, N
  <2>. QED BY <1>1
<1>4. AdmitAll(x, urls, source, depth) = h0[N]
  BY DEF AdmitAll
<1>. HIDE DEF order, N
<1>5. h0 = Row(h0)
  <2>1. F \in [B \X (1..N) -> B]
    <3>1. \A p \in B \X (1..N) : p[1] \in B /\ p[2] \in 1..N
      OBVIOUS
    <3>. QED BY <1>3, <3>1
  <2>2. \A y \in B, n \in 1..N : F[<<y, n>>] = Admit(y, order[n], source, depth)
    OBVIOUS
  <2>. HIDE DEF F
  <2>3. PICK g : Steps(N, g, B, x, F)
    BY <1>1, <2>1, StepsExist
  <2>4. \A n \in 1..N : g[n] = Admit(g[n - 1], order[n], source, depth)
    <3>. SUFFICES ASSUME NEW n \in 1..N PROVE g[n] = Admit(g[n - 1], order[n], source, depth)
      OBVIOUS
    <3>1. n - 1 \in 0..N
      BY <1>1
    <3>2. g[n - 1] \in B
      BY <2>3, <3>1 DEF Steps
    <3>. QED BY <2>2, <2>3, <3>2 DEF Steps
  <2>5. g = Row(g)
    <3>1. \A n \in 0..N : g[n] = IF n = 0 THEN x ELSE Admit(g[n - 1], order[n], source, depth)
      <4>1. \A n \in 0..N : n # 0 => n \in 1..N
        BY <1>1
      <4>. QED BY <2>3, <2>4, <4>1 DEF Steps
    <3>. QED BY <2>3, <3>1 DEF Steps
  <2>. HIDE DEF Row
  <2>. QED BY <2>5
<1>. HIDE DEF h0
<1>. DEFINE K == {m \in Nat : m <= N => h0[m] \in B}
<1>6. 0 \in K
  <2>1. h0[0] = x
    BY <1>1, <1>5
  <2>. QED BY <2>1
<1>7. ASSUME NEW m \in Nat, m \in K PROVE m + 1 \in K
  <2>. SUFFICES ASSUME m + 1 <= N PROVE h0[m + 1] \in B
    OBVIOUS
  <2>1. m + 1 \in 1..N /\ h0[m] \in B
    BY <1>1, <1>7
  <2>2. h0[m + 1] = Admit(h0[m], order[m + 1], source, depth)
    <3>1. m + 1 \in 0..N /\ m + 1 # 0 /\ (m + 1) - 1 = m
      BY <1>1, <2>1
    <3>. QED BY <1>5, <3>1
  <2>. QED BY <1>3, <2>1, <2>2
<1>8. N \in K
  <2>. HIDE DEF K
  <2>1. Nat \subseteq K
    BY <1>6, <1>7, SetInduction
  <2>. QED BY <1>1, <2>1
<1>9. h0[N] \in B
  BY <1>1, <1>8
<1>. QED BY <1>4, <1>9

\* A site stays sound, and nothing is forgotten, when addresses are admitted.
LEMMA AdmitAllKeeps ==
  ASSUME NEW x, SiteOK(x), TruthOK, NEW urls, urls \subseteq Urls, IsFiniteSet(urls),
         NEW source \in Sources, NEW depth \in Nat
  PROVE  /\ SiteOK(AdmitAll(x, urls, source, depth))
         /\ Keeps(x, AdmitAll(x, urls, source, depth))
<1>. DEFINE B == {y \in SiteType : SiteOK(y) /\ Keeps(x, y)}
<1>1. x \in B
  BY DEF SiteOK, Keeps, RobotsKept
<1>2. ASSUME NEW y \in B, NEW u \in Urls PROVE Admit(y, u, source, depth) \in B
  <2>. DEFINE z == Admit(y, u, source, depth)
  <2>1. SiteOK(z) /\ Keeps(y, z)
    BY <1>2, AdmitKeeps
  <2>. HIDE DEF z
  <2>2. Keeps(x, z)
    BY <1>2, <2>1, KeepsTransitive
  <2>3. z \in B
    BY <2>1, <2>2 DEF SiteOK
  <2>. QED BY <2>3 DEF z
<1>3. AdmitAll(x, urls, source, depth) \in B
  <2>. HIDE DEF B
  <2>. QED BY <1>1, <1>2, AdmitAllStays
<1>. QED BY <1>3 DEF B

-----------------------------------------------------------------------------
(* The operation.                                                          *)

\* What was delivered has been fetched.
Fetched == results \in Seq(Urls) /\ KeysOf(Delivered) \subseteq Done(f)

\* The address of the seed is known once the seed has been fetched.
SeedKnown ==
  /\ effective \in Urls \cup {None}
  /\ phase \in {"sitemaps", "links", "pages"} => effective \in Urls

\* Links are finitely many.
Linked == linksOf \in [Keys -> {S \in SUBSET Urls : IsFiniteSet(S)}]

Starting == phase = "start" => f = EmptyFrontier /\ results = <<>> /\ asked = {}

\* The inductive invariant.
CrawlInv ==
  /\ SiteOK(site) /\ TruthOK /\ Fetched /\ SeedKnown /\ Linked /\ Starting
  /\ asked \subseteq Urls /\ OncePerPage /\ RobotsRespected

\* What may be asked for and delivered may be so later.
LEMMA RespectedLater ==
  ASSUME CrawlInv, RobotsKept(site, site'), NEW S, \A u \in S : Passes(site', u),
         asked' \cup (Delivered' \ {effective'}) \subseteq (asked \cup (Delivered \ {effective})) \cup S
  PROVE  RobotsRespected'
<1>. SUFFICES ASSUME NEW u \in asked' \cup (Delivered' \ {effective'})
              PROVE  Passes(site', u)
  BY DEF RobotsRespected, Passes
<1>1. CASE u \in S
  BY <1>1
<1>2. CASE u \in asked \cup (Delivered \ {effective})
  <2>1. Passes(site, u)
    BY <1>2 DEF CrawlInv, RobotsRespected, Passes
  <2>. QED BY <2>1, PassesLater
<1>. QED BY <1>1, <1>2

\* A step that delivers nothing.
LEMMA NothingDelivered ==
  ASSUME CrawlInv, SiteOK(site'), Keeps(site, site'),
         UNCHANGED <<truth, effective, results, linksOf>>,
         NEW S \in SUBSET Urls, \A u \in S : Passes(site', u), asked' \subseteq asked \cup S,
         phase' # "start", phase' \in {"sitemaps", "links", "pages"} => effective \in Urls
  PROVE  CrawlInv'
<1>1. Delivered' = Delivered
  BY DEF Delivered
<1>2. Fetched'
  BY <1>1 DEF CrawlInv, Fetched, Keeps, KeysOf, f
<1>3. SeedKnown' /\ Linked' /\ Starting' /\ TruthOK' /\ asked' \subseteq Urls /\ OncePerPage'
  BY DEF CrawlInv, SeedKnown, Linked, Starting, TruthOK, OncePerPage
<1>4. RobotsRespected'
  <2>1. asked' \cup (Delivered' \ {effective'}) \subseteq (asked \cup (Delivered \ {effective})) \cup S
    BY <1>1
  <2>2. RobotsKept(site, site')
    BY DEF Keeps
  <2>. QED BY <2>1, <2>2, RespectedLater
<1>. QED BY <1>2, <1>3, <1>4 DEF CrawlInv

\* A step that asks for no page.
LEMMA NothingAsked ==
  ASSUME CrawlInv, SiteOK(site'), Keeps(site, site'),
         UNCHANGED <<truth, effective, results, linksOf, asked>>,
         phase' # "start", phase' \in {"sitemaps", "links", "pages"} => effective \in Urls
  PROVE  CrawlInv'
<1>1. \A u \in {} : Passes(site', u)
  OBVIOUS
<1>2. {} \in SUBSET Urls /\ asked' \subseteq asked \cup {}
  OBVIOUS
<1>. QED BY <1>1, <1>2, NothingDelivered

\* A step that delivers the page at u, which may be fetched and was not yet.
LEMMA OneDelivered ==
  ASSUME CrawlInv, SiteOK(site'), Keeps(site, site'), truth' = truth,
         NEW u \in Urls, results' = Append(results, u),
         Key(u) \notin Done(f), Key(u) \in Done(f'),
         effective' = u \/ (effective' = effective /\ Passes(site', u)),
         effective' = effective \/ results = <<>>,
         NEW S \in SUBSET Urls, \A v \in S : Passes(site', v), asked' \subseteq asked \cup S,
         NEW links \in SUBSET Urls, IsFiniteSet(links),
         linksOf' = [linksOf EXCEPT ![Key(u)] = links],
         phase' # "start", effective' \in Urls
  PROVE  CrawlInv'
<1>. DEFINE n == Len(results) + 1
<1>1. /\ results \in Seq(Urls) /\ Len(results) \in Nat /\ DOMAIN results = 1..Len(results)
      /\ KeysOf(Delivered) \subseteq Done(f)
  BY LenProperties DEF CrawlInv, Fetched
<1>2. /\ results' \in Seq(Urls) /\ DOMAIN results' = 1..n /\ results'[n] = u
      /\ \A j \in 1..Len(results) : results'[j] = results[j]
  BY <1>1, AppendProperties, LenProperties
<1>3. \A j \in 1..n : j = n \/ j \in DOMAIN results
  BY <1>1
<1>. HIDE DEF n
<1>4. Delivered' = Delivered \cup {u}
  <2>1. n \in 1..n
    BY <1>1 DEF n
  <2>2. \A j \in 1..Len(results) : j \in 1..n
    BY <1>1 DEF n
  <2>. QED BY <1>1, <1>2, <1>3, <2>1, <2>2 DEF Delivered
<1>5. Fetched'
  BY <1>1, <1>2, <1>4 DEF Fetched, Keeps, KeysOf, f
<1>6. OncePerPage'
  <2>. SUFFICES ASSUME NEW i \in DOMAIN results', NEW j \in DOMAIN results', i # j
                PROVE  Key(results'[i]) # Key(results'[j])
    BY DEF OncePerPage
  <2>1. \A m \in DOMAIN results : Key(results[m]) # Key(u)
    BY <1>1 DEF KeysOf, Delivered
  <2>2. CASE i \in DOMAIN results /\ j \in DOMAIN results
    BY <1>1, <1>2, <2>2 DEF CrawlInv, OncePerPage
  <2>3. CASE i = n /\ j \in DOMAIN results
    BY <1>1, <1>2, <2>1, <2>3
  <2>4. CASE j = n /\ i \in DOMAIN results
    BY <1>1, <1>2, <2>1, <2>4
  <2>. QED BY <1>2, <1>3, <2>2, <2>3, <2>4
<1>7. SeedKnown' /\ Starting' /\ TruthOK' /\ asked' \subseteq Urls
  BY DEF CrawlInv, SeedKnown, Starting, TruthOK
<1>8. Linked'
  BY DEF CrawlInv, Linked
<1>9. RobotsRespected'
  <2>. DEFINE T == IF effective' = u THEN S ELSE S \cup {u}
  <2>1. \A v \in T : Passes(site', v)
    OBVIOUS
  <2>2. Delivered' \ {effective'} \subseteq (Delivered \ {effective}) \cup T
    <3>1. results = <<>> => Delivered = {}
      BY <1>1, EmptySeq DEF Delivered
    <3>. QED BY <1>4, <3>1
  <2>3. RobotsKept(site, site')
    BY DEF Keeps
  <2>. HIDE DEF T
  <2>4. asked' \subseteq asked \cup T
    BY DEF T
  <2>. QED BY <2>1, <2>2, <2>3, <2>4, RespectedLater
<1>. QED BY <1>5, <1>6, <1>7, <1>8, <1>9 DEF CrawlInv

\* An operation starts sound.
LEMMA InitSound ==
  Init => CrawlInv
<1>. SUFFICES ASSUME Init PROVE CrawlInv
  OBVIOUS
<1>. DEFINE e == EmptyFrontier
<1>1. <<>> \in Seq(Rec) /\ <<>> \in Seq(Nat) /\ <<>> \in Seq(Urls) /\ Len(<<>>) = 0
  BY EmptySeq
<1>2. FrontierOK(e) /\ e.records = <<>>
  BY <1>1 DEF EmptyFrontier, FrontierOK, FrontierType
<1>. HIDE DEF e
<1>3. /\ site.frontier = e /\ site \in SiteType
  BY <1>2 DEF Init, SiteType, FrontierOK, e
<1>4. SiteOK(site)
  BY <1>1, <1>2, <1>3 DEF SiteOK
<1>5. TruthOK
  <2>1. \A x \in Worlds : x.truth \in [Origins -> RobotsStates]
    BY SiteConstants
  <2>. QED BY <2>1 DEF Init, TruthOK
<1>6. Delivered = {} /\ Fetched
  <2>1. DOMAIN results = {}
    BY <1>1, EmptySeq DEF Init
  <2>2. Delivered = {}
    BY <2>1 DEF Delivered
  <2>. QED BY <1>1, <2>2 DEF Init, Fetched, KeysOf
<1>7. SeedKnown
  BY DEF Init, SeedKnown
<1>8. Linked /\ asked \subseteq Urls
  <2>1. IsFiniteSet({})
    BY FS_EmptySet
  <2>. QED BY <2>1 DEF Init, Linked
<1>9. Starting
  BY <1>3 DEF Init, Starting, f, e
<1>10. OncePerPage /\ RobotsRespected
  <2>1. DOMAIN results = {}
    BY <1>1, EmptySeq DEF Init
  <2>. QED BY <1>6, <2>1 DEF OncePerPage, RobotsRespected, Init
<1>. QED BY <1>4, <1>5, <1>6, <1>7, <1>8, <1>9, <1>10 DEF CrawlInv

\* What is known while the operation runs.
LEMMA Running ==
  ASSUME CrawlInv
  PROVE  /\ SiteOK(site) /\ TruthOK /\ site \in SiteType /\ FrontierOK(f) /\ Keeps(site, site)
         /\ phase \in {"sitemaps", "links", "pages"} => effective \in Urls
  BY DEF CrawlInv, SiteOK, SeedKnown, Keeps, RobotsKept, f

\* The first address that the frontier learns of.
LEMMA DiscoverFirst ==
  ASSUME NEW u \in Urls, Normalizes(u), NEW source \in Sources, NEW depth \in Nat,
         NEW safe, NEW allowed
  PROVE  LET y == Discover(EmptyFrontier, u, source, depth, safe, allowed)
         IN /\ FrontierOK(y) /\ Len(y.records) = 1 /\ y.records # <<>> /\ y.byKey[Key(u)] = 1
            /\ StateOf(y, 1) \in {"queued", "filtered"}
            /\ StateOf(y, 1) = "queued" <=> y.queue # <<>>
<1>. DEFINE x == EmptyFrontier
            reason == AdmissionRejection(u, depth, safe, allowed)
            y == Discover(x, u, source, depth, safe, allowed)
            r == [url |-> u, depth |-> depth, sources |-> {source},
                  state |-> IF reason = "none" THEN "queued" ELSE "filtered", reason |-> reason]
            byKey == [x.byKey EXCEPT ![Key(u)] = 1]
            queue == IF reason = "none" THEN Append(x.queue, 1) ELSE x.queue
<1>1. <<>> \in Seq(Rec) /\ <<>> \in Seq(Nat) /\ Len(<<>>) = 0
  BY EmptySeq
<1>2. FrontierOK(x)
  BY <1>1 DEF EmptyFrontier, FrontierOK, FrontierType
<1>3. FrontierOK(y)
  BY <1>2, DiscoverKeeps
<1>4. /\ x.records = <<>> /\ x.queue = <<>> /\ Key(u) \in Keys
      /\ x.byKey \in [Keys -> Nat] /\ \A k \in Keys : x.byKey[k] = 0
  BY DEF EmptyFrontier, Key, Keys
<1>5. ~IsKnown(x, u) /\ ~IsFull(x)
  BY <1>1, <1>4, PolicyConstants DEF IsKnown, IsFull
<1>6. Len(x.records) + 1 = 1
  BY <1>1, <1>4
<1>. HIDE DEF x
<1>7. y = [x EXCEPT !.records = Append(x.records, r), !.byKey = byKey, !.queue = queue]
  BY <1>5, <1>6 DEF Discover, Enqueued
<1>8. r \in Rec
  <2>1. reason \in Reasons
    BY ReasonTypes
  <2>. HIDE DEF reason
  <2>. QED BY <2>1 DEF Rec, States, Settled
<1>9. r.state \in {"queued", "filtered"} /\ (r.state = "queued" <=> reason = "none")
  <2>. HIDE DEF reason
  <2>. QED OBVIOUS
<1>. HIDE DEF r
<1>10. /\ Append(<<>>, r) \in Seq(Rec) /\ Len(Append(<<>>, r)) = 1 /\ Append(<<>>, r)[1] = r
       /\ Append(<<>>, 1) \in Seq(Nat) /\ Len(Append(<<>>, 1)) = 1
  BY <1>1, <1>8, AppendProperties
<1>11. byKey \in [Keys -> Nat] /\ byKey[Key(u)] = 1
  BY <1>4
<1>12. queue \in Seq(Nat) /\ (queue # <<>> <=> reason = "none")
  <2>. HIDE DEF reason
  <2>. QED BY <1>1, <1>4, <1>10
<1>. HIDE DEF y, byKey, queue, reason
<1>13. y.records = Append(<<>>, r) /\ y.byKey = byKey /\ y.queue = queue
  BY <1>2, <1>4, <1>7, <1>10, <1>11, <1>12 DEF FrontierOK, FrontierType
<1>14. Len(y.records) = 1 /\ y.records[1] = r /\ y.records # <<>>
  BY <1>1, <1>10, <1>13
<1>15. FrontierOK(y) /\ StateOf(y, 1) = r.state
  BY <1>3, <1>14 DEF y, x, StateOf
<1>. QED BY <1>9, <1>11, <1>12, <1>13, <1>14, <1>15 DEF y, x

\* The seed is not answered: its record, if it is queued, is settled.
LEMMA SeedFailsSound ==
  ASSUME CrawlInv, SeedFails
  PROVE  CrawlInv'
<1>1. PICK u \in SeedLike :
        LET found == Discover(EmptyFrontier, u, "seed", 0, TRUE, TRUE)
            popped == IF found.queue # <<>> THEN Mark(Pop(found), 1, "failed", "upstream_failure")
                                            ELSE found
        IN effective' = u /\ site' = [site EXCEPT !.frontier = popped]
  BY DEF SeedFails
<1>. DEFINE found == Discover(EmptyFrontier, u, "seed", 0, TRUE, TRUE)
            popped == IF found.queue # <<>> THEN Mark(Pop(found), 1, "failed", "upstream_failure")
                                            ELSE found
<1>2. /\ FrontierOK(found) /\ Len(found.records) = 1
      /\ StateOf(found, 1) \in {"queued", "filtered"}
      /\ StateOf(found, 1) = "queued" <=> found.queue # <<>>
  <2>1. u \in Urls /\ Normalizes(u) /\ "seed" \in Sources /\ 0 \in Nat
    BY DEF SeedLike, Sources
  <2>. QED BY <2>1, DiscoverFirst
<1>3. site' = [site EXCEPT !.frontier = popped]
  BY <1>1
<1>. HIDE DEF found
<1>4. FrontierOK(popped) /\ Len(popped.records) = 1 /\ StateOf(popped, 1) # "queued"
  <2>1. CASE found.queue # <<>>
    <3>1. /\ FrontierOK(Pop(found)) /\ Pop(found).records = found.records
      BY <1>2, <2>1, PopKeeps
    <3>2. 1 \in 1..Len(Pop(found).records) /\ "failed" \in Settled /\ "upstream_failure" \in Reasons
      <4>1. Len(Pop(found).records) = 1
        BY <1>2, <3>1
      <4>2. "failed" \in Settled /\ "upstream_failure" \in Reasons
        BY DEF Settled, Reasons
      <4>. QED BY <4>1, <4>2
    <3>3. StateOf(Pop(found), 1) = "queued"
      BY <1>2, <2>1, <3>1 DEF StateOf
    <3>4. LET y == Mark(Pop(found), 1, "failed", "upstream_failure")
          IN FrontierOK(y) /\ Len(y.records) = 1 /\ StateOf(y, 1) = "failed"
      BY <1>2, <3>1, <3>2, <3>3, MarkKeeps
    <3>. QED BY <2>1, <3>4
  <2>2. CASE found.queue = <<>>
    BY <1>2, <2>2
  <2>. QED BY <2>1, <2>2
<1>. HIDE DEF popped
<1>5. /\ f = EmptyFrontier /\ results = <<>> /\ asked = {}
      /\ site \in SiteType /\ u \in Urls
  BY DEF SeedFails, CrawlInv, Starting, SiteOK, SeedLike
<1>6. site' \in SiteType /\ site'.frontier = popped /\ site'.robots = site.robots
  BY <1>3, <1>4, <1>5 DEF SiteType, FrontierOK
<1>7. SiteOK(site')
  <2>1. \A i \in 1..Len(popped.records) : i = 1
    BY <1>4
  <2>. QED BY <1>4, <1>6, <2>1 DEF SiteOK
<1>8. /\ truth' = truth /\ results' = <<>> /\ linksOf' = linksOf /\ asked' = {}
      /\ phase' = "done" /\ effective' = u
  BY <1>1, <1>5 DEF SeedFails, Respond, world
<1>9. Delivered' = {} /\ DOMAIN results' = {}
  BY <1>8, EmptySeq DEF Delivered
<1>10. Fetched'
  BY <1>8, <1>9, EmptySeq DEF Fetched, KeysOf
<1>11. TruthOK' /\ SeedKnown' /\ Linked' /\ Starting' /\ asked' \subseteq Urls
  BY <1>5, <1>8 DEF CrawlInv, TruthOK, SeedKnown, Linked, Starting
<1>12. OncePerPage' /\ RobotsRespected'
  BY <1>8, <1>9 DEF OncePerPage, RobotsRespected
<1>. QED BY <1>7, <1>10, <1>11, <1>12 DEF CrawlInv

\* The first address that is admitted.
LEMMA AdmitFirst ==
  ASSUME NEW t \in SiteType, t.frontier = EmptyFrontier, TruthOK,
         NEW u \in SeedLike, Address[u].safe
  PROVE  LET y == Admit(t, u, "seed", 0).frontier
         IN /\ Len(y.records) = 1 /\ y.byKey[Key(u)] = 1
            /\ StateOf(y, 1) \in {"queued", "filtered"}
            /\ StateOf(y, 1) = "queued" <=> y.queue # <<>>
<1>. DEFINE s == Admit(t, u, "seed", 0)
<1>1. u \in Urls /\ Normalizes(u) /\ Address[u].origin = "seed"
  BY DEF SeedLike
<1>2. ASSUME NEW safe, NEW allowed, s.frontier = Discover(EmptyFrontier, u, "seed", 0, safe, allowed)
      PROVE  /\ Len(s.frontier.records) = 1 /\ s.frontier.byKey[Key(u)] = 1
             /\ StateOf(s.frontier, 1) \in {"queued", "filtered"}
             /\ StateOf(s.frontier, 1) = "queued" <=> s.frontier.queue # <<>>
  <2>1. /\ Len(Discover(EmptyFrontier, u, "seed", 0, safe, allowed).records) = 1
        /\ Discover(EmptyFrontier, u, "seed", 0, safe, allowed).byKey[Key(u)] = 1
        /\ StateOf(Discover(EmptyFrontier, u, "seed", 0, safe, allowed), 1) \in {"queued", "filtered"}
        /\ StateOf(Discover(EmptyFrontier, u, "seed", 0, safe, allowed), 1) = "queued"
             <=> Discover(EmptyFrontier, u, "seed", 0, safe, allowed).queue # <<>>
    BY <1>1, DiscoverFirst DEF Sources
  <2>. HIDE DEF s
  <2>. QED BY <1>2, <2>1
<1>3. \E safe, allowed : s.frontier = Discover(EmptyFrontier, u, "seed", 0, safe, allowed)
  <2>. DEFINE informed == RobotsFor(t, "seed")
  <2>1. informed \in SiteType /\ informed.frontier = EmptyFrontier
    BY RobotsForKeeps DEF Origins
  <2>2. Address[u].http /\ Address[u].safe
    BY <1>1 DEF Normalizes
  <2>. DEFINE settled == \/ ~Normalizes(u)
                         \/ RejectionReason(u, 0) # "none"
                         \/ IsKnown(t.frontier, u) \/ IsFull(t.frontier)
              a == Allows(informed, Address[u])
  <2>3. CASE settled
    <3>1. s = [t EXCEPT !.frontier = Discover(t.frontier, u, "seed", 0, TRUE, TRUE)]
      BY <2>2, <2>3 DEF Admit
    <3>. HIDE DEF s
    <3>. QED BY <3>1 DEF SiteType
  <2>4. CASE ~settled
    <3>1. s = [informed EXCEPT !.frontier = Discover(informed.frontier, u, "seed", 0, TRUE, a)]
      BY <1>1, <2>2, <2>4 DEF Admit
    <3>. HIDE DEF s, a, informed
    <3>. QED BY <2>1, <3>1 DEF SiteType
  <2>. QED BY <2>3, <2>4
<1>. HIDE DEF s
<1>4. /\ Len(s.frontier.records) = 1 /\ s.frontier.byKey[Key(u)] = 1
      /\ StateOf(s.frontier, 1) \in {"queued", "filtered"}
      /\ StateOf(s.frontier, 1) = "queued" <=> s.frontier.queue # <<>>
  BY <1>2, <1>3
<1>. QED BY <1>4 DEF s

\* The seed is answered: it is refused, or it is the first page delivered.
LEMMA SeedLandsSound ==
  ASSUME CrawlInv, SeedLands
  PROVE  CrawlInv'
<1>1. PICK u \in SeedLike :
        LET s == Admit(RobotsFor(site, "seed"), u, "seed", 0)
            record == s.frontier.records[1]
        IN /\ Address[u].safe /\ effective' = u
           /\ IF record.state = "filtered" THEN SeedRefused(s) ELSE SeedAdmitted(s, u)
  BY DEF SeedLands
<1>. DEFINE t == RobotsFor(site, "seed")
            s == Admit(t, u, "seed", 0)
<1>2. /\ site.frontier = EmptyFrontier /\ results = <<>> /\ asked = {} /\ site \in SiteType /\ TruthOK
      /\ SiteOK(site) /\ u \in Urls /\ Normalizes(u) /\ Address[u].origin = "seed"
  BY DEF SeedLands, CrawlInv, Starting, SiteOK, SeedLike, f
<1>3. t \in SiteType /\ t.frontier = EmptyFrontier /\ RobotsKept(site, t)
  BY <1>2, RobotsForKeeps DEF Origins
<1>4. SiteOK(t) /\ Keeps(site, t)
  <2>1. Len(EmptyFrontier.records) = 0
    BY EmptySeq DEF EmptyFrontier
  <2>2. FrontierOK(EmptyFrontier)
    BY <1>2 DEF SiteOK
  <2>. HIDE DEF t
  <2>. QED BY <1>2, <1>3, <2>1, <2>2 DEF SiteOK, Keeps
<1>. HIDE DEF t
<1>5. SiteOK(s) /\ Keeps(t, s)
  BY <1>2, <1>4, AdmitKeeps DEF Sources
<1>6. Keeps(site, s)
  <2>. HIDE DEF s
  <2>. QED BY <1>4, <1>5, KeepsTransitive
<1>7. /\ Len(s.frontier.records) = 1 /\ s.frontier.byKey[Key(u)] = 1
      /\ StateOf(s.frontier, 1) \in {"queued", "filtered"}
      /\ StateOf(s.frontier, 1) = "queued" <=> s.frontier.queue # <<>>
  BY <1>1, <1>2, <1>3, AdmitFirst
<1>8. s.frontier.records[1].state = StateOf(s.frontier, 1)
  BY DEF StateOf
<1>9. /\ effective' = u /\ truth' = truth
      /\ StateOf(s.frontier, 1) = "filtered" => SeedRefused(s)
      /\ StateOf(s.frontier, 1) # "filtered" => SeedAdmitted(s, u)
  <2>1. LET record == s.frontier.records[1]
        IN effective' = u /\ IF record.state = "filtered" THEN SeedRefused(s) ELSE SeedAdmitted(s, u)
    BY <1>1 DEF t
  <2>. HIDE DEF s
  <2>. QED BY <1>8, <2>1 DEF SeedLands, world
<1>. HIDE DEF s
<1>10. CASE StateOf(s.frontier, 1) = "filtered"
  <2>1. /\ site' = s /\ results' = results /\ linksOf' = linksOf /\ asked' = asked /\ phase' = "done"
    BY <1>9, <1>10 DEF SeedRefused, Respond
  <2>2. Delivered' = {} /\ DOMAIN results' = {}
    BY <1>2, <2>1, EmptySeq DEF Delivered
  <2>3. Fetched'
    BY <1>2, <2>1, <2>2, EmptySeq DEF Fetched, KeysOf
  <2>4. TruthOK' /\ SeedKnown' /\ Linked' /\ Starting' /\ asked' \subseteq Urls
    BY <1>2, <1>9, <2>1 DEF CrawlInv, TruthOK, SeedKnown, Linked, Starting
  <2>5. OncePerPage' /\ RobotsRespected'
    BY <1>2, <2>1, <2>2 DEF OncePerPage, RobotsRespected
  <2>. QED BY <1>5, <2>1, <2>3, <2>4, <2>5 DEF CrawlInv
<1>11. CASE StateOf(s.frontier, 1) # "filtered"
  <2>. DEFINE g0 == Pop(s.frontier)
              g == Mark(g0, 1, "fetched", "none")
  <2>1. FrontierOK(s.frontier) /\ s.frontier.queue # <<>> /\ s \in SiteType /\ RobotsKept(s, s)
    BY <1>5, <1>7, <1>11 DEF SiteOK, RobotsKept
  <2>2. /\ FrontierOK(g0) /\ g0.records = s.frontier.records /\ g0.byKey = s.frontier.byKey
        /\ Done(g0) = Done(s.frontier) /\ WaitStill(s.frontier, g0)
    BY <2>1, PopKeeps
  <2>. HIDE DEF g0
  <2>3. 1 \in 1..Len(g0.records) /\ "fetched" \in Settled /\ "none" \in Reasons
        /\ StateOf(g0, 1) = "queued"
    BY <1>7, <1>11, <2>2 DEF Settled, Reasons, StateOf
  <2>4. /\ FrontierOK(g) /\ g.byKey = g0.byKey /\ StateOf(g, 1) = "fetched"
        /\ Done(g0) \subseteq Done(g) /\ WaitStill(g0, g)
    BY <2>2, <2>3, MarkKeeps
  <2>. HIDE DEF g
  <2>5. WaitStill(s.frontier, g)
    BY <2>2, <2>4 DEF WaitStill
  <2>6. site' = [s EXCEPT !.frontier = g]
    BY <1>9, <1>11 DEF SeedAdmitted, g, g0
  <2>7. SiteOK(site') /\ Keeps(s, site') /\ site'.frontier = g
    BY <1>5, <2>1, <2>2, <2>4, <2>5, <2>6, FrontierChanges
  <2>8. Keeps(site, site')
    BY <1>6, <2>7, KeepsTransitive
  <2>9. Key(u) \in Done(f')
    <3>1. Key(u) \in Keys
      BY <1>2 DEF Key, Keys
    <3>. QED BY <1>7, <2>2, <2>4, <2>7, <3>1 DEF Done, StateOf, f
  <2>10. Key(u) \notin Done(f)
    BY <1>2 DEF EmptyFrontier, Done, f
  <2>11. PICK links \in AtMost(MaxLinks, Urls) : linksOf' = [linksOf EXCEPT ![Key(u)] = links]
    BY <1>9, <1>11 DEF SeedAdmitted
  <2>12. links \in SUBSET Urls /\ IsFiniteSet(links)
    BY DEF AtMost
  <2>13. results' = Append(results, u) /\ asked' = asked /\ phase' = "sitemaps"
    BY <1>9, <1>11 DEF SeedAdmitted
  <2>14. asked' \subseteq asked \cup {} /\ phase' # "start" /\ effective' \in Urls
    BY <1>2, <1>9, <2>13
  <2>. QED BY <1>2, <1>9, <2>7, <2>8, <2>9, <2>10, <2>11, <2>12, <2>13, <2>14, OneDelivered
<1>. QED BY <1>10, <1>11

\* Steps that leave the frontier alone or end the operation.
LEMMA OthersSound ==
  ASSUME CrawlInv, Cancelled \/ UnsafeSeed \/ SkipSitemap \/ Finish
  PROVE  CrawlInv'
<1>1. /\ site' = site
      /\ UNCHANGED <<truth, effective, results, linksOf, asked>>
      /\ phase' = "done" \/ (phase' = phase /\ phase = "sitemaps")
  BY DEF Cancelled, UnsafeSeed, SkipSitemap, Finish, Respond, world
<1>2. SiteOK(site') /\ Keeps(site, site')
  BY <1>1, Running
<1>3. phase' # "start" /\ (phase' \in {"sitemaps", "links", "pages"} => effective \in Urls)
  BY <1>1, Running
<1>. QED BY <1>1, <1>2, <1>3, NothingAsked

\* Reading the robots file of a sitemap changes nothing but what is known of robots files.
LEMMA ConsultedKeeps ==
  ASSUME TruthOK, NEW s, SiteOK(s), NEW m
  PROVE  /\ SiteOK(Consulted(s, m)) /\ Keeps(s, Consulted(s, m))
         /\ Consulted(s, m).frontier = s.frontier
<1>. DEFINE a == SitemapFacts[m]
            t == RobotsFor(s, a.origin)
<1>1. CASE ~(InScope(a) /\ a.safe)
  <2>1. Consulted(s, m) = s
    BY <1>1 DEF Consulted
  <2>2. RobotsKept(s, s)
    BY DEF RobotsKept
  <2>. QED BY <2>1, <2>2 DEF Keeps
<1>2. CASE InScope(a) /\ a.safe
  <2>1. a.origin \in Origins
    BY <1>2 DEF InScope, Origins
  <2>2. Consulted(s, m) = t
    BY <1>2 DEF Consulted
  <2>. HIDE DEF a
  <2>3. t \in SiteType /\ t.frontier = s.frontier /\ RobotsKept(s, t)
    BY <2>1, RobotsForKeeps DEF SiteOK
  <2>. HIDE DEF t
  <2>4. SiteOK(t) /\ Keeps(s, t)
    BY <2>3, PassesLater DEF SiteOK, Keeps
  <2>. QED BY <2>2, <2>3, <2>4
<1>. QED BY <1>1, <1>2

\* After a sitemap at most its robots files are new, and addresses it lists are admitted.
LEMMA SitemapAnswers ==
  ASSUME CrawlInv, LoadSitemap
  PROVE  \E s : /\ SiteOK(s) /\ Keeps(site, s) /\ s.frontier = site.frontier
               /\ \/ site' = s
                  \/ \E urls \in AtMost(MaxEntries, Urls) : site' = AdmitAll(s, urls, "sitemap", 0)
<1>. DEFINE m == Head(sitemap.queue)[1]
            s == Consulted(site, m)
<1>1. \/ site' = s
      \/ \E final \in Sitemaps :
           \/ site' = Consulted(s, final)
           \/ \E urls \in AtMost(MaxEntries, Urls) :
                site' = AdmitAll(Consulted(s, final), urls, "sitemap", 0)
  BY Zenon DEF LoadSitemap
<1>2. TruthOK /\ SiteOK(site)
  BY Running
<1>3. SiteOK(s) /\ Keeps(site, s) /\ s.frontier = site.frontier
  BY <1>2, ConsultedKeeps
<1>. HIDE DEF s
<1>4. \A final : LET t == Consulted(s, final)
                IN SiteOK(t) /\ Keeps(site, t) /\ t.frontier = site.frontier
  BY <1>2, <1>3, ConsultedKeeps, KeepsTransitive
<1>. QED BY <1>1, <1>3, <1>4

LEMMA LoadSitemapSound ==
  ASSUME CrawlInv, LoadSitemap
  PROVE  CrawlInv'
<1>1. PICK s : /\ SiteOK(s) /\ Keeps(site, s)
               /\ \/ site' = s
                  \/ \E urls \in AtMost(MaxEntries, Urls) : site' = AdmitAll(s, urls, "sitemap", 0)
  BY SitemapAnswers
<1>2. /\ UNCHANGED <<truth, effective, results, linksOf, asked, phase>> /\ phase = "sitemaps"
  BY Zenon DEF LoadSitemap, world
<1>4. SiteOK(site') /\ Keeps(site, site')
  <2>1. CASE site' = s
    BY <1>1, <2>1
  <2>2. ASSUME NEW urls \in AtMost(MaxEntries, Urls), site' = AdmitAll(s, urls, "sitemap", 0)
        PROVE  SiteOK(site') /\ Keeps(site, site')
    <3>1. urls \subseteq Urls /\ IsFiniteSet(urls) /\ "sitemap" \in Sources /\ 0 \in Nat /\ TruthOK
      BY Running DEF AtMost, Sources
    <3>2. SiteOK(site') /\ Keeps(s, site')
      BY <1>1, <2>2, <3>1, AdmitAllKeeps
    <3>. QED BY <1>1, <3>2, KeepsTransitive
  <2>. QED BY <1>1, <2>1, <2>2
<1>5. phase' # "start" /\ (phase' \in {"sitemaps", "links", "pages"} => effective \in Urls)
  BY <1>2, Running
<1>. QED BY <1>2, <1>4, <1>5, NothingAsked

\* The answers of the search and the links of the seed are admitted.
LEMMA MoreAddressesSound ==
  ASSUME CrawlInv, AugmentSearch \/ FollowSeed
  PROVE  CrawlInv'
<1>1. /\ UNCHANGED <<truth, effective, results, linksOf, asked>>
      /\ phase' \in {"links", "pages"} /\ effective \in Urls
  BY Running DEF AugmentSearch, FollowSeed, world
<1>2. \/ site' = site
      \/ \E urls \in SUBSET Urls, source \in Sources, depth \in Nat :
           IsFiniteSet(urls) /\ site' = AdmitAll(site, urls, source, depth)
  <2>1. CASE AugmentSearch
    <3>1. PICK urls \in AtMost(IF request.search THEN MaxEntries ELSE 0, Urls) :
            site' = AdmitAll(site, urls, "search", 0)
      BY <2>1 DEF AugmentSearch
    <3>2. urls \in SUBSET Urls /\ IsFiniteSet(urls) /\ "search" \in Sources /\ 0 \in Nat
      BY DEF AtMost, Sources
    <3>. QED BY <3>1, <3>2
  <2>2. CASE FollowSeed
    <3>. DEFINE urls == linksOf[Key(effective)]
    <3>1. Key(effective) \in Keys
      BY <1>1 DEF Key, Keys
    <3>2. urls \in SUBSET Urls /\ IsFiniteSet(urls) /\ "link" \in Sources /\ 1 \in Nat
      BY <3>1 DEF CrawlInv, Linked, Sources
    <3>3. site' = AdmitAll(site, urls, "link", 1) \/ site' = site
      BY <2>2 DEF FollowSeed
    <3>. HIDE DEF urls
    <3>. QED BY <3>2, <3>3
  <2>. QED BY <2>1, <2>2
<1>3. SiteOK(site') /\ Keeps(site, site')
  BY <1>2, Running, AdmitAllKeeps
<1>. QED BY <1>1, <1>3, NothingAsked

\* The head of the queue names a record.
LEMMA HeadKnown ==
  ASSUME CrawlInv, Popping
  PROVE  /\ HeadRecord \in 1..Len(f.records) /\ f.records[HeadRecord] \in Rec
         /\ FrontierOK(Pop(f)) /\ Pop(f).records = f.records
         /\ Done(Pop(f)) = Done(f) /\ WaitStill(f, Pop(f))
         /\ f.records[HeadRecord].state = "queued" => Passes(site, f.records[HeadRecord].url)
<1>1. FrontierOK(f) /\ f.queue # <<>>
  BY Running DEF Popping
<1>2. /\ HeadRecord \in 1..Len(f.records)
      /\ FrontierOK(Pop(f)) /\ Pop(f).records = f.records
      /\ Done(Pop(f)) = Done(f) /\ WaitStill(f, Pop(f))
  <2>. PICK g : g = f
    OBVIOUS
  <2>1. /\ FrontierOK(Pop(g)) /\ Pop(g).records = g.records
        /\ Done(Pop(g)) = Done(g) /\ WaitStill(g, Pop(g)) /\ Head(g.queue) \in 1..Len(g.records)
    BY <1>1, PopKeeps
  <2>. QED BY <2>1 DEF HeadRecord
<1>3. f.records[HeadRecord] \in Rec
  BY <1>1, <1>2, FrontierParts
<1>4. f.records[HeadRecord].state = "queued" => Passes(site, f.records[HeadRecord].url)
  BY <1>2, Running DEF SiteOK, StateOf, UrlOf, f
<1>. QED BY <1>2, <1>3, <1>4

\* A record that is settled leaves the queue; at the limit of pages all records do.
LEMMA QueueShrinksSound ==
  ASSUME CrawlInv, PopSettled \/ PageLimit
  PROVE  CrawlInv'
<1>1. /\ UNCHANGED <<truth, effective, results, linksOf, asked, phase>> /\ Popping
  BY DEF PopSettled, PageLimit, world
<1>. DEFINE i == HeadRecord
            marked == Mark(Pop(f), i, "cancelled", "page_limit_reached")
<1>2. /\ FrontierOK(Pop(f)) /\ Done(Pop(f)) = Done(f) /\ WaitStill(f, Pop(f))
      /\ i \in 1..Len(Pop(f).records)
  BY <1>1, HeadKnown
<1>3. \E g : /\ site' = [site EXCEPT !.frontier = g] /\ FrontierOK(g)
             /\ Done(f) \subseteq Done(g) /\ WaitStill(f, g)
  <2>1. CASE PopSettled
    BY <1>2, <2>1 DEF PopSettled, f
  <2>2. CASE PageLimit
    <3>1. /\ FrontierOK(marked) /\ Done(Pop(f)) \subseteq Done(marked) /\ WaitStill(Pop(f), marked)
      <4>1. "cancelled" \in Settled /\ "page_limit_reached" \in Reasons
        BY DEF Settled, Reasons
      <4>. HIDE DEF i
      <4>. QED BY <1>2, <4>1, MarkKeeps
    <3>2. site' = [site EXCEPT !.frontier = CancelQueued(marked)]
      BY <2>2 DEF PageLimit, f
    <3>. HIDE DEF marked
    <3>3. /\ FrontierOK(CancelQueued(marked)) /\ Done(marked) \subseteq Done(CancelQueued(marked))
          /\ WaitStill(marked, CancelQueued(marked))
      BY <3>1, CancelKeeps
    <3>4. WaitStill(f, CancelQueued(marked))
      BY <1>2, <3>1, <3>3 DEF WaitStill
    <3>. QED BY <1>2, <3>1, <3>2, <3>3, <3>4
  <2>. QED BY <2>1, <2>2 DEF PopSettled, PageLimit
<1>4. SiteOK(site') /\ Keeps(site, site')
  <2>1. SiteOK(site) /\ site \in SiteType /\ RobotsKept(site, site)
    BY Running DEF Keeps
  <2>. QED BY <1>3, <2>1, FrontierChanges DEF f
<1>5. phase' # "start" /\ effective \in Urls
  BY <1>1, Running DEF Popping
<1>. QED BY <1>1, <1>4, <1>5, NothingAsked

\* A page that is about to be asked for waited, and nothing forbids to ask for it.
LEMMA AtPageKeeps ==
  ASSUME CrawlInv, Popping, f.records[HeadRecord].state = "queued"
  PROVE  LET i == HeadRecord
             s == AtPage(i)
         IN /\ SiteOK(s) /\ Keeps(site, s) /\ s.frontier.records = f.records /\ s.frontier = Pop(f)
            /\ Done(s.frontier) = Done(f)
            /\ i \in 1..Len(s.frontier.records) /\ StateOf(s.frontier, i) = "queued"
            /\ f.records[i].url \in Urls /\ f.records[i].depth \in Nat
            /\ Passes(s, f.records[i].url)
<1>. DEFINE i == HeadRecord
            u == f.records[i].url
            t == RobotsFor(site, Address[u].origin)
            s == AtPage(i)
<1>1. /\ i \in 1..Len(f.records) /\ f.records[i] \in Rec
      /\ FrontierOK(Pop(f)) /\ Pop(f).records = f.records
      /\ Done(Pop(f)) = Done(f) /\ WaitStill(f, Pop(f)) /\ Passes(site, u)
  BY HeadKnown
<1>2. u \in Urls /\ f.records[i].depth \in Nat /\ Address[u].origin \in Origins
  BY <1>1 DEF Rec, Passes, AcceptedOrigin, Origins
<1>3. t \in SiteType /\ t.frontier = f /\ RobotsKept(site, t)
  <2>. HIDE DEF u
  <2>. QED BY <1>2, Running, RobotsForKeeps DEF f
<1>4. s = [t EXCEPT !.frontier = Pop(f)]
  <2>1. s = [t EXCEPT !.frontier = Pop(t.frontier)]
    BY DEF AtPage
  <2>. HIDE DEF s, t
  <2>. QED BY <1>3, <2>1
<1>. HIDE DEF s, t, u
<1>5. SiteOK(s) /\ Keeps(site, s) /\ s.frontier = Pop(f)
  <2>. PICK g : g = Pop(f)
    OBVIOUS
  <2>1. FrontierOK(g) /\ Done(site.frontier) \subseteq Done(g) /\ WaitStill(site.frontier, g)
    BY <1>1 DEF f
  <2>2. LET y == [t EXCEPT !.frontier = g]
        IN SiteOK(y) /\ Keeps(site, y) /\ y.frontier = g /\ y.robots = t.robots
    BY <1>3, <2>1, Running, FrontierChanges DEF f
  <2>. QED BY <1>4, <2>2
<1>6. Passes(s, u)
  BY <1>1, <1>5, PassesLater DEF Keeps
<1>7. i \in 1..Len(s.frontier.records) /\ StateOf(s.frontier, i) = "queued"
  BY <1>1, <1>5 DEF StateOf
<1>. QED BY <1>1, <1>2, <1>5, <1>6, <1>7 DEF s, u

\* The page is refused or not answered.
LEMMA PageFailsSound ==
  ASSUME CrawlInv, PageFails
  PROVE  CrawlInv'
<1>. DEFINE i == HeadRecord
            u == f.records[i].url
            s == AtPage(i)
            reason == IF Allows(s, Address[u]) THEN "upstream_failure" ELSE "robots_refused"
            g == Mark(s.frontier, i, "failed", reason)
<1>0. Popping /\ f.records[HeadRecord].state = "queued"
  BY DEF PageFails
<1>1. /\ SiteOK(s) /\ Keeps(site, s) /\ s.frontier.records = f.records
      /\ i \in 1..Len(s.frontier.records) /\ u \in Urls /\ Passes(s, u)
  BY <1>0, AtPageKeeps
<1>2. /\ site' = [s EXCEPT !.frontier = g] /\ asked' \subseteq asked \cup {u}
      /\ UNCHANGED <<truth, effective, results, linksOf, phase>>
  BY DEF PageFails, world
<1>3. reason \in Reasons /\ "failed" \in Settled
  BY DEF Reasons, Settled
<1>. HIDE DEF i, s, reason
<1>4. FrontierOK(g) /\ Done(s.frontier) \subseteq Done(g) /\ WaitStill(s.frontier, g)
  BY <1>1, <1>3, MarkKeeps DEF SiteOK
<1>. HIDE DEF g, u
<1>5. SiteOK(site') /\ Keeps(s, site')
  <2>1. s \in SiteType /\ RobotsKept(s, s)
    BY <1>1 DEF SiteOK, RobotsKept
  <2>. QED BY <1>1, <1>2, <1>4, <2>1, FrontierChanges
<1>6. Keeps(site, site') /\ Passes(site', u)
  <2>1. Keeps(site, site')
    BY <1>1, <1>5, KeepsTransitive
  <2>2. Passes(site', u)
    BY <1>1, <1>5, PassesLater DEF Keeps
  <2>. QED BY <2>1, <2>2
<1>7. {u} \in SUBSET Urls /\ (\A v \in {u} : Passes(site', v))
  BY <1>1, <1>6
<1>8. phase' # "start" /\ effective \in Urls
  BY <1>0, <1>2, Running DEF Popping
<1>. QED BY <1>2, <1>5, <1>6, <1>7, <1>8, NothingDelivered

\* _reconcile_final: a page that is delivered may be, and was not before.
LEMMA ReconciledKeeps ==
  ASSUME NEW s, SiteOK(s), TruthOK, NEW i \in 1..Len(s.frontier.records),
         StateOf(s.frontier, i) = "queued", s.frontier.records = f.records, NEW u \in Urls
  PROVE  LET r == Reconciled(s, i, u)
             y == r.state
         IN /\ SiteOK(y) /\ Keeps(s, y) /\ Len(y.frontier.records) = Len(s.frontier.records)
            /\ r.final # 0 =>
                 /\ Passes(y, u) /\ Key(u) \notin Done(s.frontier)
                 /\ r.final \in 1..Len(y.frontier.records) /\ y.frontier.byKey[Key(u)] = r.final
                 /\ StateOf(y.frontier, r.final) \in {"queued", "fetched"}
<1>. DEFINE depth == f.records[i].depth
            safe == Address[u].safe
            passes == RedirectRejection(u, depth, safe, TRUE) = "none"
            informed == IF passes THEN RobotsFor(s, Address[u].origin) ELSE s
            allowed == passes /\ Allows(informed, Address[u])
            q == ReconcileFinal(informed.frontier, i, u, safe, allowed)
            r == Reconciled(s, i, u)
            y == r.state
<1>1. s \in SiteType /\ FrontierOK(s.frontier)
  BY DEF SiteOK
<1>2. informed \in SiteType /\ informed.frontier = s.frontier /\ RobotsKept(s, informed)
  <2>1. CASE ~passes
    BY <1>1, <2>1 DEF RobotsKept
  <2>2. CASE passes
    <3>1. RejectionReason(u, depth) = "none"
      BY <2>2, ReasonTypes
    <3>2. AcceptedOrigin(u)
      BY <3>1, ReasonTypes
    <3>3. Address[u].origin \in Origins
      BY <3>2 DEF AcceptedOrigin, Origins
    <3>. HIDE DEF depth, safe, passes
    <3>. QED BY <1>1, <2>2, <3>3, RobotsForKeeps
  <2>. QED BY <2>1, <2>2
<1>3. r = [state |-> [informed EXCEPT !.frontier = q.frontier], final |-> q.final]
  BY DEF Reconciled
<1>4. RedirectRejection(u, depth, safe, allowed) = "none" => Passes(informed, u)
  <2>. SUFFICES ASSUME RedirectRejection(u, depth, safe, allowed) = "none" PROVE Passes(informed, u)
    OBVIOUS
  <2>1. RejectionReason(u, depth) = "none" /\ safe
    <3>. HIDE DEF allowed, depth, safe
    <3>. QED BY DEF RedirectRejection
  <2>2. allowed
    <3>. HIDE DEF allowed, depth, safe
    <3>. QED BY DEF RedirectRejection
  <2>3. AcceptedOrigin(u) /\ PathRejection(u) = "none"
    BY <2>1, ReasonTypes
  <2>. QED BY <2>1, <2>2, <2>3 DEF Passes
<1>5. s.frontier.records[i].depth = depth
  OBVIOUS
<1>. HIDE DEF r, informed, allowed, passes, depth, safe
<1>6. /\ FrontierOK(q.frontier) /\ Done(s.frontier) \subseteq Done(q.frontier)
      /\ Len(q.frontier.records) = Len(s.frontier.records)
      /\ q.final = 0 => WaitStill(s.frontier, q.frontier)
      /\ q.final # 0 =>
           /\ RedirectRejection(u, depth, safe, allowed) = "none"
           /\ Key(u) \notin Done(s.frontier)
           /\ q.final \in 1..Len(q.frontier.records) /\ q.frontier.byKey[Key(u)] = q.final
           /\ StateOf(q.frontier, q.final) \in {"queued", "fetched"}
           /\ WaitAs(s.frontier, q.frontier, u)
  <2>. PICK x, al, sa : x = s.frontier /\ al = allowed /\ sa = safe
    OBVIOUS
  <2>1. FrontierOK(x) /\ i \in 1..Len(x.records) /\ StateOf(x, i) = "queued" /\ x.records[i].depth = depth
    BY <1>1, <1>5
  <2>2. LET p == ReconcileFinal(x, i, u, sa, al)
            z == p.frontier
        IN /\ FrontierOK(z) /\ Done(x) \subseteq Done(z) /\ Len(z.records) = Len(x.records)
           /\ p.final = 0 => WaitStill(x, z)
           /\ p.final # 0 =>
                /\ RedirectRejection(u, x.records[i].depth, sa, al) = "none"
                /\ Key(u) \notin Done(x)
                /\ p.final \in 1..Len(z.records) /\ z.byKey[Key(u)] = p.final
                /\ StateOf(z, p.final) \in {"queued", "fetched"}
                /\ WaitAs(x, z, u)
    BY <2>1, ReconcileKeeps
  <2>3. q = ReconcileFinal(x, i, u, sa, al)
    BY <1>2
  <2>. QED BY <2>1, <2>2, <2>3
<1>. HIDE DEF q
<1>7. WaitStill(s.frontier, q.frontier) \/ (WaitAs(s.frontier, q.frontier, u) /\ Passes(informed, u))
  BY <1>4, <1>6
<1>8. y = [informed EXCEPT !.frontier = q.frontier] /\ r.final = q.final
  BY <1>3
<1>. HIDE DEF y
<1>9. SiteOK(y) /\ Keeps(s, y) /\ y.frontier = q.frontier /\ y.robots = informed.robots
  BY <1>1, <1>2, <1>6, <1>7, <1>8, FrontierChanges
<1>10. r.final # 0 => Passes(y, u)
  <2>1. Passes(informed, u) => Passes(y, u)
    BY <1>9 DEF Passes, Allows
  <2>. QED BY <1>4, <1>6, <1>8, <2>1
<1>. QED BY <1>6, <1>8, <1>9, <1>10 DEF y, r

\* A page that is answered under an address that is refused, or is another record's, is not
\* delivered; any other is, and its links are admitted.
LEMMA PageAnswersSound ==
  ASSUME CrawlInv, PageAnswers
  PROVE  CrawlInv'
<1>. DEFINE i == HeadRecord
            v == f.records[i].url
            s == AtPage(i)
<1>0. Popping /\ f.records[HeadRecord].state = "queued"
  BY DEF PageAnswers
<1>1. /\ SiteOK(s) /\ Keeps(site, s) /\ s.frontier.records = f.records
      /\ Done(s.frontier) = Done(f)
      /\ i \in 1..Len(s.frontier.records) /\ StateOf(s.frontier, i) = "queued"
      /\ v \in Urls /\ Passes(s, v)
  BY <1>0, AtPageKeeps
<1>2. PICK u \in Urls : LET r == Reconciled(s, i, u)
                        IN PageDropped(r, i) \/ PageDelivered(r, u)
  BY DEF PageAnswers
<1>. DEFINE r == Reconciled(s, i, u)
            y == r.state
<1>3. /\ SiteOK(y) /\ Keeps(s, y)
      /\ r.final # 0 =>
           /\ Passes(y, u) /\ Key(u) \notin Done(s.frontier)
           /\ r.final \in 1..Len(y.frontier.records) /\ y.frontier.byKey[Key(u)] = r.final
           /\ StateOf(y.frontier, r.final) \in {"queued", "fetched"}
  <2>1. TruthOK
    BY Running
  <2>. HIDE DEF s, i
  <2>. QED BY <1>1, <2>1, ReconciledKeeps
<1>4. PageDropped(r, i) \/ PageDelivered(r, u)
  BY <1>2
<1>5. /\ UNCHANGED <<truth, effective, phase>> /\ asked' = asked \cup {v} /\ phase = "pages"
  BY <1>0 DEF PageAnswers, world, Popping
<1>. HIDE DEF s, i, v, r
<1>6. Keeps(site, y) /\ effective \in Urls /\ TruthOK
  BY <1>1, <1>3, <1>5, Running, KeepsTransitive
<1>7. CASE PageDropped(r, i)
  <2>1. site' = y /\ UNCHANGED <<results, linksOf>>
    BY <1>7 DEF PageDropped
  <2>2. Passes(site', v)
    BY <1>1, <1>3, <2>1, PassesLater DEF Keeps
  <2>3. {v} \in SUBSET Urls /\ (\A w \in {v} : Passes(site', w)) /\ phase' # "start"
    BY <1>1, <1>5, <2>2
  <2>. QED BY <1>3, <1>5, <1>6, <2>1, <2>3, NothingDelivered
<1>8. CASE PageDelivered(r, u)
  <2>. DEFINE g == Mark(y.frontier, r.final, "fetched", "none")
              t == [y EXCEPT !.frontier = g]
              record == y.frontier.records[r.final]
              follow == request.sitemap # "only" /\ record.depth < MaxDepth
  <2>1. PICK links \in AtMost(MaxLinks, Urls) :
          /\ site' = IF follow THEN AdmitAll(t, links, "link", record.depth + 1) ELSE t
          /\ linksOf' = [linksOf EXCEPT ![Key(u)] = links]
    BY <1>8 DEF PageDelivered
  <2>2. r.final # 0 /\ results' = Append(results, u)
    BY <1>8 DEF PageDelivered
  <2>3. FrontierOK(y.frontier) /\ y \in SiteType /\ RobotsKept(y, y)
    BY <1>3 DEF SiteOK, RobotsKept
  <2>4. record \in Rec /\ record.depth + 1 \in Nat
    <3>1. record \in Rec
      BY <1>3, <2>2, <2>3, FrontierParts
    <3>. HIDE DEF record
    <3>. QED BY <3>1 DEF Rec
  <2>5. /\ FrontierOK(g) /\ g.byKey = y.frontier.byKey /\ StateOf(g, r.final) = "fetched"
        /\ Done(y.frontier) \subseteq Done(g) /\ WaitStill(y.frontier, g)
    <3>1. "fetched" \in Settled /\ "none" \in Reasons
      BY DEF Settled, Reasons
    <3>. QED BY <1>3, <2>2, <2>3, <3>1, MarkKeeps
  <2>. HIDE DEF g, y, record
  <2>6. SiteOK(t) /\ Keeps(y, t) /\ t.frontier = g /\ t.robots = y.robots
    BY <1>3, <2>3, <2>5, FrontierChanges
  <2>. HIDE DEF t
  <2>7. SiteOK(site') /\ Keeps(t, site')
    <3>1. CASE follow
      <4>1. links \subseteq Urls /\ IsFiniteSet(links) /\ "link" \in Sources
        BY DEF AtMost, Sources
      <4>2. site' = AdmitAll(t, links, "link", record.depth + 1)
        BY <2>1, <3>1
      <4>. QED BY <1>6, <2>4, <2>6, <4>1, <4>2, AdmitAllKeeps
    <3>2. CASE ~follow
      BY <2>1, <2>6, <3>2 DEF Keeps, RobotsKept
    <3>. QED BY <3>1, <3>2
  <2>8. Keeps(y, site') /\ Keeps(s, site') /\ Keeps(site, site')
    <3>1. Keeps(y, site')
      BY <2>6, <2>7, KeepsTransitive
    <3>2. Keeps(s, site')
      BY <1>3, <3>1, KeepsTransitive DEF y
    <3>3. Keeps(site, site')
      BY <1>6, <3>1, KeepsTransitive
    <3>. QED BY <3>1, <3>2, <3>3
  <2>9. Key(u) \notin Done(f)
    BY <1>1, <1>3, <2>2
  <2>10. Key(u) \in Done(f')
    <3>1. Key(u) \in Keys
      BY DEF Key, Keys
    <3>2. g.byKey[Key(u)] # 0 /\ g.records[g.byKey[Key(u)]].state = "fetched"
      BY <1>3, <2>2, <2>5 DEF StateOf, y
    <3>3. Key(u) \in Done(g)
      BY <3>1, <3>2 DEF Done
    <3>. QED BY <2>6, <2>7, <3>3 DEF Keeps, f
  <2>11. Passes(site', u) /\ Passes(site', v)
    BY <1>1, <1>3, <2>2, <2>8, PassesLater DEF Keeps, y
  <2>12. {v} \in SUBSET Urls /\ (\A w \in {v} : Passes(site', w)) /\ asked' \subseteq asked \cup {v}
    BY <1>1, <1>5, <2>11
  <2>13. links \in SUBSET Urls /\ IsFiniteSet(links)
    BY DEF AtMost
  <2>14. /\ effective' = effective /\ effective' \in Urls /\ truth' = truth
         /\ phase' # "start" /\ linksOf' = [linksOf EXCEPT ![Key(u)] = links]
    BY <1>5, <1>6, <2>1
  <2>. QED BY <2>2, <2>7, <2>8, <2>9, <2>10, <2>11, <2>12, <2>13, <2>14, OneDelivered
<1>. QED BY <1>4, <1>7, <1>8

\* No step breaks it.
LEMMA StepSound ==
  CrawlInv /\ [Next]_vars => CrawlInv'
<1>. SUFFICES ASSUME CrawlInv, [Next]_vars PROVE CrawlInv'
  OBVIOUS
<1>1. CASE UNCHANGED vars
  <2>1. UNCHANGED <<phase, site, truth, effective, results, asked, linksOf>>
    BY <1>1 DEF vars
  <2>2. Delivered' = Delivered
    BY <2>1 DEF Delivered
  <2>3. Fetched' /\ TruthOK' /\ SeedKnown' /\ Linked' /\ Starting' /\ OncePerPage'
    BY <2>1, <2>2 DEF CrawlInv, Fetched, TruthOK, SeedKnown, Linked, Starting, OncePerPage, f
  <2>4. RobotsRespected' /\ SiteOK(site')
    BY <2>1, <2>2 DEF CrawlInv, RobotsRespected
  <2>. QED BY <2>1, <2>3, <2>4 DEF CrawlInv
<1>2. CASE Cancelled \/ UnsafeSeed \/ SkipSitemap \/ Finish
  BY <1>2, OthersSound
<1>3. CASE SeedFails
  BY <1>3, SeedFailsSound
<1>4. CASE SeedLands
  BY <1>4, SeedLandsSound
<1>5. CASE LoadSitemap
  BY <1>5, LoadSitemapSound
<1>6. CASE AugmentSearch \/ FollowSeed
  BY <1>6, MoreAddressesSound
<1>7. CASE PopSettled \/ PageLimit
  BY <1>7, QueueShrinksSound
<1>8. CASE PageFails
  BY <1>8, PageFailsSound
<1>9. CASE PageAnswers
  BY <1>9, PageAnswersSound
<1>. QED BY <1>1, <1>2, <1>3, <1>4, <1>5, <1>6, <1>7, <1>8, <1>9 DEF Next, Work

\* The invariant holds of every map and crawl, whatever the site answers.
THEOREM CrawlInvariant == Spec => []CrawlInv
<1>1. Init => CrawlInv
  BY InitSound
<1>2. CrawlInv /\ [Next]_vars => CrawlInv'
  BY StepSound
<1>. QED BY <1>1, <1>2, PTL DEF Spec

\* A page is delivered once, however many addresses lead to it and whatever order they are
\* fetched in (CrawlFrontier.reconcile_final).
THEOREM PagesComeOnce == Spec => []OncePerPage
<1>1. CrawlInv => OncePerPage
  BY DEF CrawlInv
<1>. QED BY <1>1, CrawlInvariant, PTL

\* No page is asked for or delivered that the scope, the safety check or the robots file of
\* its origin refuses, by whatever link, sitemap, search or redirect it was reached (_admit,
\* _reconcile_final).
THEOREM RefusalsHold == Spec => []RobotsRespected
<1>1. CrawlInv => RobotsRespected
  BY DEF CrawlInv
<1>. QED BY <1>1, CrawlInvariant, PTL

-----------------------------------------------------------------------------
(* The accounts: records, results and failures.                            *)

ReasonOf(x, i) == x.records[i].reason

\* The records whose page was fetched, and those whose page failed and was no double.
FetchedIn(x) == {i \in 1..Len(x.records) : StateOf(x, i) = "fetched"}
LostIn(x) ==
  {i \in 1..Len(x.records) : StateOf(x, i) = "failed" /\ ReasonOf(x, i) # "duplicate_final_url"}

\* The records of which somebody will take notice.
QueuedIn(x) == {x.queue[j] : j \in 1..Len(x.queue)}

\* A record that waits is in the queue, except i, which has just been taken from it.
WaitsBut(x, i) ==
  \A m \in 1..Len(x.records) : StateOf(x, m) = "queued" => m = i \/ m \in QueuedIn(x)

\* Nothing is settled that counts, and nobody who waits is lost.
Calm(x, y) ==
  /\ FetchedIn(y) = FetchedIn(x) /\ LostIn(y) = LostIn(x)
  /\ \A i \in Nat : WaitsBut(x, i) => WaitsBut(y, i)

\* One step after the other.
LEMMA CalmTransitive ==
  ASSUME NEW x, NEW y, NEW z, Calm(x, y), Calm(y, z)
  PROVE  Calm(x, z)
  BY DEF Calm

\* Records keep their verdicts, a new one that waits is queued, and nobody leaves the queue.
LEMMA CalmIfKept ==
  ASSUME NEW x, NEW y, FrontierOK(x), FrontierOK(y),
         Len(x.records) <= Len(y.records),
         \A i \in 1..Len(x.records) :
           StateOf(y, i) = StateOf(x, i) /\ ReasonOf(y, i) = ReasonOf(x, i),
         QueuedIn(x) \subseteq QueuedIn(y),
         \A i \in 1..Len(y.records) : i \notin 1..Len(x.records) =>
           StateOf(y, i) = "filtered" \/ (StateOf(y, i) = "queued" /\ i \in QueuedIn(y))
  PROVE  Calm(x, y)
<1>1. Len(x.records) \in Nat /\ Len(y.records) \in Nat
  BY FrontierParts
<1>2. \A i \in 1..Len(x.records) : i \in 1..Len(y.records)
  BY <1>1
<1>3. FetchedIn(y) = FetchedIn(x)
  BY <1>2 DEF FetchedIn
<1>4. LostIn(y) = LostIn(x)
  BY <1>2 DEF LostIn
<1>5. \A i \in Nat : WaitsBut(x, i) => WaitsBut(y, i)
  BY <1>2 DEF WaitsBut
<1>. QED BY <1>3, <1>4, <1>5 DEF Calm

\* discover settles nothing that counts: a new record waits in the queue or is filtered.
LEMMA DiscoverCalm ==
  ASSUME NEW x, FrontierOK(x), NEW u \in Urls, NEW source \in Sources, NEW depth \in Nat,
         NEW safe, NEW allowed
  PROVE  Calm(x, Discover(x, u, source, depth, safe, allowed))
<1>. DEFINE y == Discover(x, u, source, depth, safe, allowed)
            n == Len(x.records) + 1
            reason == AdmissionRejection(u, depth, safe, allowed)
            state == IF reason = "none" THEN "queued" ELSE "filtered"
            entry(st, rs) == [url |-> u, depth |-> depth, sources |-> {source},
                              state |-> st, reason |-> rs]
<1>1. /\ x.records \in Seq(Rec) /\ Len(x.records) \in Nat /\ DOMAIN x.records = 1..Len(x.records)
      /\ x \in FrontierType /\ x.byKey \in [Keys -> Nat] /\ x.queue \in Seq(Nat) /\ x.omitted \in Nat
      /\ Len(x.queue) \in Nat
      /\ \A i \in 1..Len(x.records) : x.records[i] \in Rec
      /\ \A k \in Keys : x.byKey[k] \in 0..Len(x.records)
      /\ Key(u) \in Keys
  BY FrontierParts, LenProperties DEF FrontierOK, Key, Keys
<1>2. FrontierOK(y)
  BY DiscoverKeeps
<1>3. ASSUME y.records = x.records, y.queue = x.queue PROVE Calm(x, y)
  <2>. HIDE DEF y
  <2>1. StateOf(y, 0) = StateOf(x, 0) /\ QueuedIn(y) = QueuedIn(x)
    BY <1>3 DEF StateOf, QueuedIn
  <2>. QED BY <1>1, <1>2, <1>3, <2>1, CalmIfKept DEF StateOf, ReasonOf
<1>4. ASSUME NEW r, r.state \in {"queued", "filtered"}, y.records = Append(x.records, r),
             r \in Rec, y.queue = IF r.state = "queued" THEN Append(x.queue, n) ELSE x.queue
      PROVE  Calm(x, y)
  <2>. HIDE DEF y
  <2>1. /\ Len(y.records) = n /\ y.records[n] = r
        /\ \A i \in 1..Len(x.records) : y.records[i] = x.records[i]
    BY <1>1, <1>4, AppendProperties
  <2>2. n = Len(x.records) + 1 /\ n \in Nat
    BY <1>1
  <2>. HIDE DEF n
  <2>3. QueuedIn(x) \subseteq QueuedIn(y) /\ (r.state = "queued" => n \in QueuedIn(y))
    <3>1. CASE r.state = "queued"
      <4>1. /\ Len(y.queue) = Len(x.queue) + 1 /\ y.queue[Len(x.queue) + 1] = n
            /\ \A j \in 1..Len(x.queue) : y.queue[j] = x.queue[j]
        BY <1>1, <1>4, <2>2, <3>1, AppendProperties
      <4>2. Len(x.queue) + 1 \in 1..Len(y.queue) /\ \A j \in 1..Len(x.queue) : j \in 1..Len(y.queue)
        BY <1>1, <4>1
      <4>. QED BY <4>1, <4>2 DEF QueuedIn
    <3>2. CASE r.state # "queued"
      BY <1>4, <3>2 DEF QueuedIn
    <3>. QED BY <3>1, <3>2
  <2>4. \A i \in 1..Len(y.records) : i \notin 1..Len(x.records) => i = n
    BY <1>1, <2>1, <2>2
  <2>5. \A i \in 1..Len(y.records) : i \notin 1..Len(x.records) =>
          StateOf(y, i) = "filtered" \/ (StateOf(y, i) = "queued" /\ i \in QueuedIn(y))
    BY <1>4, <2>1, <2>3, <2>4 DEF StateOf
  <2>6. Len(x.records) <= Len(y.records)
    BY <1>1, <2>1, <2>2
  <2>. QED BY <1>2, <2>1, <2>3, <2>5, <2>6, CalmIfKept DEF StateOf, ReasonOf
<1>5. CASE ~Normalizes(u)
  <2>1. CASE IsFull(x)
    <3>1. y = [x EXCEPT !.omitted = x.omitted + 1]
      BY <1>5, <2>1 DEF Discover, RecordFiltered
    <3>2. y.records = x.records /\ y.queue = x.queue
      <4>. HIDE DEF y
      <4>. QED BY <1>1, <3>1 DEF FrontierType
    <3>. QED BY <1>3, <3>2
  <2>2. CASE ~IsFull(x)
    <3>. DEFINE r == entry("filtered", "invalid_url")
    <3>1. r \in Rec /\ r.state = "filtered"
      BY DEF Rec, States, Settled, Reasons
    <3>2. y = [x EXCEPT !.records = Append(x.records, r)]
      BY <1>5, <2>2 DEF Discover, RecordFiltered
    <3>. HIDE DEF r
    <3>3. y.records = Append(x.records, r) /\ y.queue = x.queue
      <4>. HIDE DEF y
      <4>. QED BY <1>1, <3>1, <3>2 DEF FrontierType
    <3>. QED BY <1>4, <3>1, <3>3
  <2>. QED BY <2>1, <2>2
<1>6. CASE Normalizes(u) /\ IsKnown(x, u)
  <2>. DEFINE i == x.byKey[Key(u)]
              old == x.records[i]
              r == [old EXCEPT !.sources = old.sources \cup {source},
                               !.depth = Lesser(old.depth, depth)]
  <2>1. i \in 1..Len(x.records) /\ old \in Rec
    BY <1>1, <1>6 DEF IsKnown
  <2>2. r \in Rec /\ r.state = old.state /\ r.reason = old.reason
    <3>1. old.sources \cup {source} \in SUBSET Sources /\ Lesser(old.depth, depth) \in Nat
      BY <2>1 DEF Rec, Lesser
    <3>. QED BY <2>1, <3>1 DEF Rec
  <2>3. y = [x EXCEPT !.records = [x.records EXCEPT ![i] = r]]
    <3>1. y = MergeDiscovery(x, i, source, depth)
      BY <1>6 DEF Discover
    <3>. HIDE DEF i, y
    <3>. QED BY <1>1, <2>1, <3>1 DEF MergeDiscovery, FrontierType, Rec
  <2>. HIDE DEF y, r
  <2>4. /\ Len(y.records) = Len(x.records) /\ y.queue = x.queue /\ y.records[i] = r
        /\ \A j \in 1..Len(x.records) \ {i} : y.records[j] = x.records[j]
    BY <2>1, <2>2, <2>3, OneRecord
  <2>. HIDE DEF i
  <2>5. \A j \in 1..Len(x.records) : StateOf(y, j) = StateOf(x, j) /\ ReasonOf(y, j) = ReasonOf(x, j)
    BY <2>1, <2>2, <2>4 DEF StateOf, ReasonOf
  <2>6. QueuedIn(x) \subseteq QueuedIn(y) /\ Len(x.records) <= Len(y.records)
    BY <1>1, <2>4 DEF QueuedIn
  <2>7. Calm(x, y)
    BY <1>2, <2>4, <2>5, <2>6, CalmIfKept DEF y
  <2>. QED BY <2>7 DEF y
<1>7. CASE Normalizes(u) /\ ~IsKnown(x, u) /\ IsFull(x)
  <2>1. y = [x EXCEPT !.omitted = x.omitted + 1]
    BY <1>7 DEF Discover
  <2>2. y.records = x.records /\ y.queue = x.queue
    <3>. HIDE DEF y
    <3>. QED BY <1>1, <2>1 DEF FrontierType
  <2>. QED BY <1>3, <2>2
<1>8. CASE Normalizes(u) /\ ~IsKnown(x, u) /\ ~IsFull(x)
  <2>. DEFINE r == entry(state, reason)
              byKey == [x.byKey EXCEPT ![Key(u)] = n]
              queue == IF reason = "none" THEN Append(x.queue, n) ELSE x.queue
  <2>1. r \in Rec /\ r.state = state
    <3>1. reason \in Reasons
      BY ReasonTypes
    <3>. HIDE DEF reason
    <3>. QED BY <3>1 DEF Rec, States, Settled
  <2>2. y = [x EXCEPT !.records = Append(x.records, r), !.byKey = byKey, !.queue = queue]
    BY <1>8 DEF Discover, Enqueued
  <2>3. queue = IF state = "queued" THEN Append(x.queue, n) ELSE x.queue
    <3>. HIDE DEF n, reason
    <3>. QED OBVIOUS
  <2>4. state \in {"queued", "filtered"}
    <3>. HIDE DEF reason
    <3>. QED OBVIOUS
  <2>. HIDE DEF r, byKey, queue, state
  <2>5. y.records = Append(x.records, r) /\ y.queue = queue
    <3>. HIDE DEF y
    <3>. QED BY <1>1, <2>2 DEF FrontierType
  <2>. QED BY <1>4, <2>1, <2>3, <2>4, <2>5
<1>. QED BY <1>5, <1>6, <1>7, <1>8

\* _admit settles nothing that counts.
LEMMA AdmitCalm ==
  ASSUME NEW x, SiteOK(x), TruthOK, NEW u \in Urls, NEW source \in Sources, NEW depth \in Nat
  PROVE  Calm(x.frontier, Admit(x, u, source, depth).frontier)
<1>. DEFINE f0 == x.frontier
            o == Address[u].origin
            informed == RobotsFor(x, o)
            settled == \/ ~Normalizes(u)
                       \/ RejectionReason(u, depth) # "none"
                       \/ IsKnown(f0, u) \/ IsFull(f0)
            y == Admit(x, u, source, depth)
            Found(s, a) == Discover(f0, u, source, depth, s, a)
<1>1. x \in SiteType /\ FrontierOK(f0)
  BY DEF SiteOK
<1>2. ASSUME NEW s, NEW a PROVE Calm(f0, Found(s, a))
  BY <1>1, DiscoverCalm
<1>. HIDE DEF Found
<1>3. CASE ~Address[u].http
  BY <1>3 DEF Admit, Calm
<1>4. ASSUME NEW z, z \in SiteType, NEW g, Calm(f0, g), y = [z EXCEPT !.frontier = g]
      PROVE  Calm(f0, y.frontier)
  <2>. HIDE DEF y
  <2>. QED BY <1>4 DEF SiteType
<1>5. CASE Address[u].http /\ settled
  <2>1. y = [x EXCEPT !.frontier = Found(TRUE, TRUE)]
    BY <1>5 DEF Admit, Found
  <2>. HIDE DEF y
  <2>. QED BY <1>1, <1>2, <1>4, <2>1 DEF y
<1>6. CASE Address[u].http /\ ~settled /\ ~Address[u].safe
  <2>1. y = [x EXCEPT !.frontier = Found(FALSE, FALSE)]
    BY <1>6 DEF Admit, Found
  <2>. HIDE DEF y
  <2>. QED BY <1>1, <1>2, <1>4, <2>1 DEF y
<1>7. CASE Address[u].http /\ ~settled /\ Address[u].safe
  <2>. DEFINE a == Allows(informed, Address[u])
  <2>1. AcceptedOrigin(u) /\ o \in Origins
    BY <1>7, ReasonTypes DEF AcceptedOrigin, Origins
  <2>2. informed \in SiteType /\ informed.frontier = f0
    BY <1>1, <2>1, RobotsForKeeps
  <2>3. y = [informed EXCEPT !.frontier = Found(TRUE, a)]
    <3>1. y = [informed EXCEPT !.frontier = Discover(informed.frontier, u, source, depth, TRUE, a)]
      BY <1>7 DEF Admit
    <3>. HIDE DEF y, informed, a
    <3>. QED BY <2>2, <3>1 DEF Found
  <2>. HIDE DEF y, informed, a
  <2>. QED BY <1>2, <1>4, <2>2, <2>3 DEF y
<1>. QED BY <1>3, <1>5, <1>6, <1>7

\* Neither do several addresses.
LEMMA AdmitAllCalm ==
  ASSUME NEW x, SiteOK(x), TruthOK, NEW urls, urls \subseteq Urls, IsFiniteSet(urls),
         NEW source \in Sources, NEW depth \in Nat
  PROVE  Calm(x.frontier, AdmitAll(x, urls, source, depth).frontier)
<1>. DEFINE B == {y \in SiteType : SiteOK(y) /\ Calm(x.frontier, y.frontier)}
<1>1. x \in B
  BY DEF SiteOK, Calm
<1>2. ASSUME NEW y \in B, NEW u \in Urls PROVE Admit(y, u, source, depth) \in B
  <2>. DEFINE z == Admit(y, u, source, depth)
  <2>1. SiteOK(z) /\ Calm(y.frontier, z.frontier)
    BY <1>2, AdmitKeeps, AdmitCalm
  <2>. HIDE DEF z
  <2>2. Calm(x.frontier, z.frontier)
    BY <1>2, <2>1, CalmTransitive
  <2>3. z \in B
    BY <2>1, <2>2 DEF SiteOK
  <2>. QED BY <2>3 DEF z
<1>3. AdmitAll(x, urls, source, depth) \in B
  <2>. HIDE DEF B
  <2>. QED BY <1>1, <1>2, AdmitAllStays
<1>. QED BY <1>3 DEF B

\* pop changes no verdict; only the head is waiting outside of the queue now.
LEMMA PopCalm ==
  ASSUME NEW x, FrontierOK(x), x.queue # <<>>, WaitsBut(x, 0)
  PROVE  LET i == Head(x.queue)
         IN /\ FetchedIn(Pop(x)) = FetchedIn(x) /\ LostIn(Pop(x)) = LostIn(x)
            /\ WaitsBut(Pop(x), i) /\ (StateOf(x, i) # "queued" => WaitsBut(Pop(x), 0))
<1>. DEFINE y == Pop(x)
            i == Head(x.queue)
<1>1. FrontierOK(y) /\ y.records = x.records /\ i \in 1..Len(x.records)
  BY PopKeeps
<1>2. x \in FrontierType /\ x.queue \in Seq(Nat) /\ Len(x.queue) \in Nat
  BY LenProperties DEF FrontierOK, FrontierType
<1>3. y.queue = Tail(x.queue)
  BY <1>2, HeadTailProperties DEF Pop, FrontierType
<1>4. /\ Len(Tail(x.queue)) = Len(x.queue) - 1
      /\ \A j \in 1..Len(Tail(x.queue)) : Tail(x.queue)[j] = x.queue[j + 1]
      /\ Len(x.queue) # 0 /\ i = x.queue[1]
  BY <1>2, EmptySeq, HeadTailProperties
<1>5. Len(x.records) \in Nat
  BY FrontierParts
<1>. HIDE DEF y, i
<1>6. \A m \in QueuedIn(x) : m = i \/ m \in QueuedIn(y)
  <2>. SUFFICES ASSUME NEW j \in 1..Len(x.queue), j # 1 PROVE x.queue[j] \in QueuedIn(y)
    BY <1>4 DEF QueuedIn
  <2>1. j - 1 \in 1..Len(y.queue) /\ y.queue[j - 1] = x.queue[j]
    BY <1>2, <1>3, <1>4
  <2>. QED BY <2>1 DEF QueuedIn
<1>7. \A m \in 1..Len(x.records) : m # 0 /\ StateOf(y, m) = StateOf(x, m)
  BY <1>1, <1>5 DEF StateOf
<1>8. WaitsBut(y, i) /\ (StateOf(x, i) # "queued" => WaitsBut(y, 0))
  BY <1>1, <1>6, <1>7 DEF WaitsBut
<1>9. FetchedIn(y) = FetchedIn(x) /\ LostIn(y) = LostIn(x)
  BY <1>1 DEF FetchedIn, LostIn, StateOf, ReasonOf
<1>. QED BY <1>8, <1>9 DEF y, i

\* The record that has been taken from the queue is settled: it counts as fetched, as lost or
\* as neither, and nobody waits outside of the queue.
LEMMA MarkCalm ==
  ASSUME NEW x, FrontierOK(x), NEW i \in 1..Len(x.records), NEW state \in Settled,
         NEW reason \in Reasons, StateOf(x, i) = "queued"
  PROVE  LET y == Mark(x, i, state, reason)
         IN /\ state = "fetched" => FetchedIn(y) = FetchedIn(x) \cup {i}
            /\ state # "fetched" => FetchedIn(y) = FetchedIn(x)
            /\ state = "failed" /\ reason # "duplicate_final_url" => LostIn(y) = LostIn(x) \cup {i}
            /\ state # "failed" \/ reason = "duplicate_final_url" => LostIn(y) = LostIn(x)
            /\ i \notin FetchedIn(x) /\ i \notin LostIn(x)
            /\ WaitsBut(x, 0) \/ WaitsBut(x, i) => WaitsBut(y, 0)
            /\ ReasonOf(y, i) = reason
<1>. DEFINE y == Mark(x, i, state, reason)
<1>1. /\ FrontierOK(y) /\ Len(y.records) = Len(x.records) /\ y.queue = x.queue
      /\ \A j \in 1..Len(x.records) \ {i} : y.records[j] = x.records[j]
      /\ StateOf(y, i) = state
  BY MarkKeeps
<1>2. ReasonOf(y, i) = reason
  <2>1. /\ x.records \in Seq(Rec) /\ DOMAIN x.records = 1..Len(x.records) /\ x \in FrontierType
        /\ x.records[i] \in Rec
    BY FrontierParts DEF FrontierOK
  <2>2. x.records[i].state \notin Settled
    BY DEF StateOf, Settled
  <2>3. y = [x EXCEPT !.records[i].state = state, !.records[i].reason = reason]
    BY <2>2 DEF Mark
  <2>. HIDE DEF y
  <2>. QED BY <2>1, <2>3 DEF FrontierType, Rec, ReasonOf
<1>3. Len(x.records) \in Nat
  BY FrontierParts
<1>. HIDE DEF y
<1>4. \A j \in 1..Len(x.records) : j # i => StateOf(y, j) = StateOf(x, j) /\ ReasonOf(y, j) = ReasonOf(x, j)
  BY <1>1 DEF StateOf, ReasonOf
<1>5. i \notin FetchedIn(x) /\ i \notin LostIn(x)
  BY DEF FetchedIn, LostIn
<1>6. /\ state = "fetched" => FetchedIn(y) = FetchedIn(x) \cup {i}
      /\ state # "fetched" => FetchedIn(y) = FetchedIn(x)
  BY <1>1, <1>4, <1>5 DEF FetchedIn
<1>7. /\ state = "failed" /\ reason # "duplicate_final_url" => LostIn(y) = LostIn(x) \cup {i}
      /\ state # "failed" \/ reason = "duplicate_final_url" => LostIn(y) = LostIn(x)
  BY <1>1, <1>2, <1>4, <1>5 DEF LostIn
<1>8. WaitsBut(x, 0) \/ WaitsBut(x, i) => WaitsBut(y, 0)
  <2>1. state # "queued" /\ QueuedIn(y) = QueuedIn(x) /\ \A j \in 1..Len(x.records) : j # 0
    BY <1>1, <1>3 DEF Settled, QueuedIn
  <2>. QED BY <1>1, <1>4, <2>1 DEF WaitsBut
<1>. QED BY <1>2, <1>5, <1>6, <1>7, <1>8 DEF y

\* cancel_queued leaves nobody waiting and settles nothing that counts.
LEMMA CancelCalm ==
  ASSUME NEW x, FrontierOK(x), WaitsBut(x, 0)
  PROVE  LET y == CancelQueued(x)
         IN /\ FetchedIn(y) = FetchedIn(x) /\ LostIn(y) = LostIn(x) /\ WaitsBut(y, 0)
<1>. PICK waiting : waiting = {x.queue[j] : j \in DOMAIN x.queue}
  OBVIOUS
<1>. DEFINE y == CancelQueued(x)
            records == [i \in DOMAIN x.records |->
                          IF i \in waiting /\ x.records[i].state = "queued"
                          THEN [x.records[i] EXCEPT !.state = "cancelled", !.reason = "cancelled"]
                          ELSE x.records[i]]
<1>1. /\ x.records \in Seq(Rec) /\ Len(x.records) \in Nat /\ DOMAIN x.records = 1..Len(x.records)
      /\ x \in FrontierType /\ \A i \in 1..Len(x.records) : x.records[i] \in Rec
  BY FrontierParts DEF FrontierOK
<1>2. FrontierOK(y)
  BY CancelKeeps
<1>3. waiting = QueuedIn(x)
  <2>1. DOMAIN x.queue = 1..Len(x.queue)
    BY <1>1, LenProperties DEF FrontierType
  <2>. QED BY <2>1 DEF QueuedIn
<1>4. y.records = records
  <2>1. y = [x EXCEPT !.records = records, !.queue = <<>>]
    BY DEF CancelQueued
  <2>. HIDE DEF y, records
  <2>. QED BY <1>1, <2>1 DEF FrontierType
<1>5. DOMAIN records = 1..Len(x.records)
  BY <1>1
<1>6. ASSUME NEW i \in 1..Len(x.records)
      PROVE  \/ i \in waiting /\ records[i].state = "cancelled" /\ x.records[i].state = "queued"
             \/ i \notin waiting /\ records[i] = x.records[i]
             \/ x.records[i].state # "queued" /\ records[i] = x.records[i]
  <2>1. x.records[i] \in Rec
    BY <1>1
  <2>. DEFINE gone == [x.records[i] EXCEPT !.state = "cancelled", !.reason = "cancelled"]
  <2>2. gone.state = "cancelled"
    BY <2>1 DEF Rec
  <2>3. CASE i \in waiting /\ x.records[i].state = "queued"
    <3>1. records[i] = gone
      BY <1>1, <2>3, Zenon
    <3>. HIDE DEF gone, records
    <3>. QED BY <2>2, <2>3, <3>1
  <2>4. CASE ~(i \in waiting /\ x.records[i].state = "queued")
    <3>1. records[i] = x.records[i]
      BY <1>1, <2>4, Zenon
    <3>. HIDE DEF records
    <3>. QED BY <2>4, <3>1
  <2>. HIDE DEF records
  <2>. QED BY <2>3, <2>4
<1>. HIDE DEF y, records
<1>7. Len(y.records) = Len(x.records)
  <2>1. DOMAIN y.records = 1..Len(y.records) /\ Len(y.records) \in Nat
    BY <1>2, FrontierParts
  <2>. QED BY <1>1, <1>4, <1>5, <2>1
<1>8. ASSUME NEW i \in 1..Len(x.records)
      PROVE  \/ StateOf(y, i) = "cancelled" /\ i \in waiting /\ StateOf(x, i) = "queued"
             \/ /\ StateOf(y, i) = StateOf(x, i) /\ ReasonOf(y, i) = ReasonOf(x, i)
                /\ i \in waiting => StateOf(x, i) # "queued"
  BY <1>4, <1>6 DEF StateOf, ReasonOf
<1>9. FetchedIn(y) = FetchedIn(x)
  BY <1>7, <1>8 DEF FetchedIn
<1>10. LostIn(y) = LostIn(x)
  BY <1>7, <1>8 DEF LostIn
<1>11. WaitsBut(y, 0)
  <2>1. \A m \in 1..Len(x.records) : StateOf(x, m) = "queued" => m \in waiting
    BY <1>1, <1>3 DEF WaitsBut
  <2>2. \A m \in 1..Len(x.records) : StateOf(y, m) # "queued"
    BY <1>8, <2>1
  <2>. QED BY <1>7, <2>2 DEF WaitsBut
<1>. QED BY <1>9, <1>10, <1>11 DEF y

\* Record i of x is lost in y or is a double, or the record "final" of y, which did not count,
\* will count as fetched.
SettlesOne(x, i, y, final) ==
  LET z == Mark(y, final, "fetched", "none")
  IN /\ final = 0 =>
          /\ FetchedIn(y) = FetchedIn(x) /\ WaitsBut(y, 0)
          /\ ReasonOf(y, i) = "duplicate_final_url" => LostIn(y) = LostIn(x)
          /\ ReasonOf(y, i) # "duplicate_final_url" =>
               i \notin LostIn(x) /\ LostIn(y) = LostIn(x) \cup {i}
     /\ final # 0 =>
          /\ LostIn(z) = LostIn(x) /\ WaitsBut(z, 0)
          /\ final \notin FetchedIn(x) /\ FetchedIn(z) = FetchedIn(x) \cup {final}

\* reconcile_final settles one record.
LEMMA ReconcileCalm ==
  ASSUME NEW x, FrontierOK(x), NEW i \in 1..Len(x.records), StateOf(x, i) = "queued",
         WaitsBut(x, i), NEW u \in Urls, NEW safe, NEW allowed
  PROVE  LET r == ReconcileFinal(x, i, u, safe, allowed)
         IN SettlesOne(x, i, r.frontier, r.final)
<1>. DEFINE r == ReconcileFinal(x, i, u, safe, allowed)
            reason == RedirectRejection(u, x.records[i].depth, safe, allowed)
            e == x.byKey[Key(u)]
            old == Key(x.records[i].url)
            byKey == [k \in Keys |-> IF k = Key(u) THEN i
                                     ELSE IF k = old /\ x.byKey[k] = i THEN 0
                                     ELSE x.byKey[k]]
<1>1. /\ x.records \in Seq(Rec) /\ Len(x.records) \in Nat /\ DOMAIN x.records = 1..Len(x.records)
      /\ x \in FrontierType /\ x.byKey \in [Keys -> Nat]
      /\ \A j \in 1..Len(x.records) : x.records[j] \in Rec /\ UrlOf(x, j) \in Urls
      /\ \A k \in Keys : x.byKey[k] \in 0..Len(x.records)
      /\ Key(u) \in Keys
  BY FrontierParts DEF FrontierOK, Key, Keys
<1>2. /\ reason \in Reasons /\ reason # "duplicate_final_url"
      /\ "failed" \in Settled /\ "fetched" \in Settled
      /\ "duplicate_final_url" \in Reasons /\ "none" \in Reasons
  BY ReasonTypes DEF Settled, Reasons, RedirectRejection, RejectionReason, PathRejection
<1>3. CASE reason # "none"
  <2>. DEFINE y == Mark(x, i, "failed", reason)
  <2>1. r = [frontier |-> y, final |-> 0]
    BY <1>3 DEF ReconcileFinal
  <2>. HIDE DEF reason
  <2>2. /\ FetchedIn(y) = FetchedIn(x) /\ LostIn(y) = LostIn(x) \cup {i}
        /\ i \notin LostIn(x) /\ WaitsBut(y, 0) /\ ReasonOf(y, i) = reason
    BY <1>2, MarkCalm
  <2>. HIDE DEF y, r
  <2>3. r.frontier = y /\ r.final = 0
    BY <2>1
  <2>. QED BY <1>2, <2>2, <2>3 DEF SettlesOne, r
<1>4. CASE reason = "none" /\ e \notin {0, i}
  <2>. DEFINE were == x.records[e]
              both == [were EXCEPT !.sources = were.sources \cup x.records[i].sources,
                                   !.depth = Lesser(were.depth, x.records[i].depth)]
              merged == [x EXCEPT !.records = [x.records EXCEPT ![e] = both]]
              failed == Mark(merged, i, "failed", "duplicate_final_url")
  <2>1. e \in 1..Len(x.records) /\ e # i /\ were \in Rec
    BY <1>1, <1>4
  <2>2. both \in Rec /\ both.state = were.state /\ both.reason = were.reason
    <3>1. were.sources \cup x.records[i].sources \in SUBSET Sources
          /\ Lesser(were.depth, x.records[i].depth) \in Nat
      BY <1>1, <2>1 DEF Rec, Lesser
    <3>. QED BY <2>1, <3>1 DEF Rec
  <2>3. r = IF x.records[e].state # "queued"
            THEN [frontier |-> failed, final |-> 0]
            ELSE [frontier |-> Mark(failed, e, "fetched", "none"), final |-> e]
    <3>1. r = MergeFinalRecord(x, i, e)
      BY <1>4 DEF ReconcileFinal
    <3>2. merged = [x EXCEPT !.records[e].sources = @ \cup x.records[i].sources,
                             !.records[e].depth = Lesser(@, x.records[i].depth)]
      <4>. HIDE DEF e
      <4>. QED BY <1>1, <2>1 DEF FrontierType, Rec
    <3>. HIDE DEF merged, e, r
    <3>. QED BY <3>1, <3>2 DEF MergeFinalRecord
  <2>. HIDE DEF r, e, both
  <2>4. /\ FrontierOK(merged) /\ Len(merged.records) = Len(x.records) /\ merged.queue = x.queue
        /\ merged.records[e] = both
        /\ \A j \in 1..Len(x.records) \ {e} : merged.records[j] = x.records[j]
    <3>. HIDE DEF merged
    <3>1. merged = [x EXCEPT !.records = [x.records EXCEPT ![e] = both]]
      BY DEF merged
    <3>. QED BY <2>1, <2>2, <3>1, OneRecord
  <2>. HIDE DEF merged
  <2>5. \A j \in 1..Len(x.records) :
          StateOf(merged, j) = StateOf(x, j) /\ ReasonOf(merged, j) = ReasonOf(x, j)
    BY <2>1, <2>2, <2>4 DEF StateOf, ReasonOf
  <2>6. FetchedIn(merged) = FetchedIn(x) /\ LostIn(merged) = LostIn(x) /\ WaitsBut(merged, i)
    BY <2>4, <2>5 DEF FetchedIn, LostIn, WaitsBut, QueuedIn
  <2>7. /\ FrontierOK(failed) /\ Len(failed.records) = Len(x.records)
        /\ \A j \in 1..Len(x.records) \ {i} : failed.records[j] = merged.records[j]
        /\ FetchedIn(failed) = FetchedIn(x) /\ LostIn(failed) = LostIn(x) /\ WaitsBut(failed, 0)
        /\ ReasonOf(failed, i) = "duplicate_final_url"
    BY <1>2, <2>4, <2>5, <2>6, MarkKeeps, MarkCalm
  <2>. HIDE DEF failed
  <2>8. CASE x.records[e].state # "queued"
    <3>1. r = [frontier |-> failed, final |-> 0]
      BY <2>3, <2>8
    <3>2. r.frontier = failed /\ r.final = 0
      BY <3>1
    <3>. QED BY <2>7, <3>2 DEF SettlesOne, r
  <2>9. CASE x.records[e].state = "queued"
    <3>. DEFINE y == Mark(failed, e, "fetched", "none")
    <3>1. r = [frontier |-> y, final |-> e]
      BY <2>3, <2>9
    <3>2. StateOf(failed, e) = "queued" /\ e \in 1..Len(failed.records)
      BY <2>1, <2>5, <2>7, <2>9 DEF StateOf
    <3>3. /\ StateOf(y, e) = "fetched" /\ FetchedIn(y) = FetchedIn(x) \cup {e}
          /\ LostIn(y) = LostIn(x) /\ WaitsBut(y, 0) /\ e \notin FetchedIn(x)
      BY <1>2, <2>7, <3>2, MarkKeeps, MarkCalm
    <3>. HIDE DEF y
    <3>4. Mark(y, e, "fetched", "none") = y
      BY <1>2, <3>3 DEF Mark, StateOf
    <3>5. e # 0
      BY <1>4
    <3>6. r.frontier = y /\ r.final = e
      BY <3>1
    <3>. QED BY <3>3, <3>4, <3>5, <3>6 DEF SettlesOne, r
  <2>. QED BY <2>8, <2>9
<1>5. CASE reason = "none" /\ e \in {0, i}
  <2>. DEFINE moved == [x.records[i] EXCEPT !.url = u]
              records == [x.records EXCEPT ![i] = moved]
              y == [x EXCEPT !.records = records, !.byKey = byKey]
  <2>1. moved \in Rec /\ moved.state = "queued" /\ moved.reason = x.records[i].reason
    BY <1>1 DEF Rec, StateOf
  <2>2. r = [frontier |-> y, final |-> i]
    <3>1. y = [x EXCEPT !.records[i].url = u, !.byKey = byKey]
      <4>. HIDE DEF byKey
      <4>. QED BY <1>1 DEF FrontierType, Rec
    <3>2. r = [frontier |-> [x EXCEPT !.records[i].url = u, !.byKey = byKey], final |-> i]
      BY <1>5 DEF ReconcileFinal
    <3>. HIDE DEF y, r
    <3>. QED BY <3>1, <3>2
  <2>6. FrontierOK(y)
    <3>1. RedirectRejection(u, x.records[i].depth, safe, allowed) = "none"
      BY <1>5
    <3>2. FrontierOK(ReconcileFinal(x, i, u, safe, allowed).frontier)
      BY ReconcileKeeps
    <3>. HIDE DEF y
    <3>. QED BY <2>2, <3>2
  <2>. HIDE DEF r, moved
  <2>3. /\ records \in Seq(Rec) /\ Len(records) = Len(x.records) /\ records[i] = moved
        /\ \A j \in 1..Len(x.records) \ {i} : records[j] = x.records[j]
    BY <1>1, <2>1, ExceptSeq
  <2>. HIDE DEF records, byKey
  <2>4. y.records = records /\ y.queue = x.queue
    BY <1>1 DEF FrontierType
  <2>. HIDE DEF y
  <2>5. \A j \in 1..Len(x.records) : StateOf(y, j) = StateOf(x, j) /\ ReasonOf(y, j) = ReasonOf(x, j)
    BY <2>1, <2>3, <2>4 DEF StateOf, ReasonOf
  <2>7. FetchedIn(y) = FetchedIn(x) /\ LostIn(y) = LostIn(x) /\ WaitsBut(y, i)
    BY <2>3, <2>4, <2>5 DEF FetchedIn, LostIn, WaitsBut, QueuedIn
  <2>8. i \in 1..Len(y.records) /\ StateOf(y, i) = "queued"
    BY <2>3, <2>4, <2>5
  <2>. DEFINE z == Mark(y, i, "fetched", "none")
  <2>9. /\ FetchedIn(z) = FetchedIn(x) \cup {i} /\ LostIn(z) = LostIn(x)
        /\ i \notin FetchedIn(x) /\ WaitsBut(z, 0)
    BY <1>2, <2>6, <2>7, <2>8, MarkCalm
  <2>. HIDE DEF z
  <2>10. i # 0
    BY <1>1
  <2>11. r.frontier = y /\ r.final = i
    BY <2>2
  <2>12. Mark(y, i, "fetched", "none") = z
    BY DEF z
  <2>. QED BY <2>9, <2>10, <2>11, <2>12 DEF SettlesOne, r
<1>. QED BY <1>3, <1>4, <1>5

\* Sets of record numbers are finite: one more counts one more.
LEMMA CountsGrow ==
  ASSUME NEW x, FrontierOK(x)
  PROVE  /\ Cardinality(FetchedIn(x)) \in Nat /\ Cardinality(LostIn(x)) \in Nat
         /\ \A i : i \notin FetchedIn(x) =>
              Cardinality(FetchedIn(x) \cup {i}) = Cardinality(FetchedIn(x)) + 1
         /\ \A i : i \notin LostIn(x) =>
              Cardinality(LostIn(x) \cup {i}) = Cardinality(LostIn(x)) + 1
<1>1. Len(x.records) \in Nat
  BY FrontierParts
<1>2. IsFiniteSet(1..Len(x.records))
  BY <1>1, FS_Interval
<1>3. FetchedIn(x) \subseteq 1..Len(x.records) /\ LostIn(x) \subseteq 1..Len(x.records)
  BY DEF FetchedIn, LostIn
<1>4. IsFiniteSet(FetchedIn(x)) /\ IsFiniteSet(LostIn(x))
  BY <1>2, <1>3, FS_Subset
<1>. QED BY <1>4, FS_CardinalityType, FS_AddElement

\* The record of a redirect, whatever the robots file of its target says.
LEMMA ReconciledCalm ==
  ASSUME NEW s, SiteOK(s), TruthOK, NEW i \in 1..Len(s.frontier.records),
         StateOf(s.frontier, i) = "queued", s.frontier.records = f.records,
         WaitsBut(s.frontier, i), NEW u \in Urls
  PROVE  LET r == Reconciled(s, i, u)
         IN SettlesOne(s.frontier, i, r.state.frontier, r.final)
<1>. DEFINE depth == f.records[i].depth
            safe == Address[u].safe
            passes == RedirectRejection(u, depth, safe, TRUE) = "none"
            informed == IF passes THEN RobotsFor(s, Address[u].origin) ELSE s
            allowed == passes /\ Allows(informed, Address[u])
            q == ReconcileFinal(informed.frontier, i, u, safe, allowed)
            r == Reconciled(s, i, u)
<1>1. s \in SiteType /\ FrontierOK(s.frontier)
  BY DEF SiteOK
<1>2. informed \in SiteType /\ informed.frontier = s.frontier
  <2>1. CASE ~passes
    BY <1>1, <2>1
  <2>2. CASE passes
    <3>1. RejectionReason(u, depth) = "none"
      BY <2>2, ReasonTypes
    <3>2. AcceptedOrigin(u)
      BY <3>1, ReasonTypes
    <3>3. Address[u].origin \in Origins
      BY <3>2 DEF AcceptedOrigin, Origins
    <3>. HIDE DEF depth, safe, passes
    <3>. QED BY <1>1, <2>2, <3>3, RobotsForKeeps
  <2>. QED BY <2>1, <2>2
<1>3. r = [state |-> [informed EXCEPT !.frontier = q.frontier], final |-> q.final]
  BY DEF Reconciled
<1>. HIDE DEF r, informed, allowed, passes, depth, safe
<1>4. \E al, sa : q = ReconcileFinal(s.frontier, i, u, sa, al)
  BY <1>2
<1>. HIDE DEF q
<1>5. r.state.frontier = q.frontier /\ r.final = q.final
  BY <1>2, <1>3 DEF SiteType
<1>6. PICK al, sa : q = ReconcileFinal(s.frontier, i, u, sa, al)
  BY <1>4
<1>7. PICK x : x = s.frontier
  OBVIOUS
<1>8. FrontierOK(x) /\ i \in 1..Len(x.records) /\ StateOf(x, i) = "queued" /\ WaitsBut(x, i)
  BY <1>1, <1>7
<1>9. LET p == ReconcileFinal(x, i, u, sa, al)
      IN SettlesOne(x, i, p.frontier, p.final)
  BY <1>8, ReconcileCalm
<1>. QED BY <1>5, <1>6, <1>7, <1>9 DEF r

\* As many results as records fetched, as many failures as records that failed and were no
\* double, and nobody who waits is out of the queue.
Balanced ==
  /\ WaitsBut(f, 0)
  /\ Len(results) = Cardinality(FetchedIn(f)) /\ Len(failures) = Cardinality(LostIn(f))

\* The accounts of an operation that runs, or ran to its end.
Accounts ==
  /\ failures \in Seq(Urls)
  /\ phase # "done" => outcome = "none" /\ Balanced
  /\ Through => Balanced /\ f.queue = <<>>

AccountInv == CrawlInv /\ Accounts

\* A step that settles nothing that counts.
LEMMA StaysBalanced ==
  ASSUME AccountInv, phase # "done", Calm(f, f'), UNCHANGED <<results, failures, outcome>>
  PROVE  Accounts'
<1>1. failures \in Seq(Urls) /\ outcome = "none" /\ Balanced
  BY DEF AccountInv, Accounts
<1>2. Balanced'
  BY <1>1 DEF Balanced, Calm
<1>3. ~Through'
  BY <1>1 DEF Through
<1>. QED BY <1>1, <1>2, <1>3 DEF Accounts

\* An operation that is refused, or cancelled, owes nothing.
LEMMA NothingOwed ==
  ASSUME phase' = "done", outcome' \notin {"completed", "partial", "limit_reached"},
         failures' \in Seq(Urls)
  PROVE  Accounts'
  BY DEF Accounts, Through

\* Steps that end the operation before its end, or leave the frontier alone.
LEMMA OthersAccount ==
  ASSUME AccountInv, Cancelled \/ UnsafeSeed \/ SeedFails \/ SkipSitemap \/ Finish
  PROVE  Accounts'
<1>1. failures \in Seq(Urls) /\ Append(failures, Seed) \in Seq(Urls)
  BY SiteConstants, AppendProperties DEF AccountInv, Accounts
<1>2. CASE Cancelled
  BY <1>1, <1>2, NothingOwed DEF Cancelled, Respond
<1>3. CASE UnsafeSeed
  BY <1>1, <1>3, NothingOwed DEF UnsafeSeed, Respond
<1>4. CASE SeedFails
  BY <1>1, <1>4, NothingOwed DEF SeedFails, Respond
<1>5. CASE SkipSitemap
  <2>1. phase # "done" /\ site' = site /\ UNCHANGED <<results, failures, outcome>>
    BY <1>5 DEF SkipSitemap
  <2>. QED BY <2>1, StaysBalanced DEF Calm, f
<1>6. CASE Finish
  <2>1. /\ phase = "pages" /\ phase' = "done" /\ f.queue = <<>> /\ UNCHANGED <<site, results, failures>>
    BY <1>6 DEF Finish, Respond
  <2>2. Balanced
    BY <2>1 DEF AccountInv, Accounts
  <2>3. Balanced' /\ f'.queue = <<>>
    BY <2>1, <2>2 DEF Balanced, f
  <2>. QED BY <1>1, <2>1, <2>3 DEF Accounts
<1>. QED BY <1>2, <1>3, <1>4, <1>5, <1>6

\* Sitemaps, search answers and links of the seed only add records.
LEMMA AddressesAccount ==
  ASSUME AccountInv, LoadSitemap \/ AugmentSearch \/ FollowSeed
  PROVE  Accounts'
<1>0. CrawlInv
  BY DEF AccountInv
<1>1. phase \in {"sitemaps", "links"} /\ UNCHANGED <<results, failures, outcome>>
  <2>1. CASE LoadSitemap
    BY <2>1, Zenon DEF LoadSitemap
  <2>2. CASE AugmentSearch
    BY <2>2 DEF AugmentSearch
  <2>3. CASE FollowSeed
    BY <2>3 DEF FollowSeed
  <2>. QED BY <2>1, <2>2, <2>3
<1>2. ASSUME NEW s, SiteOK(s), s.frontier = f,
             site' = s \/ \E urls \in SUBSET Urls, source \in Sources, depth \in Nat :
                            IsFiniteSet(urls) /\ site' = AdmitAll(s, urls, source, depth)
      PROVE  Calm(f, f')
  <2>1. TruthOK
    BY <1>0, Running
  <2>2. CASE site' = s
    BY <1>2, <2>2 DEF Calm, f
  <2>3. ASSUME NEW urls \in SUBSET Urls, NEW source \in Sources, NEW depth \in Nat,
               IsFiniteSet(urls), site' = AdmitAll(s, urls, source, depth)
        PROVE  Calm(f, f')
    <3>1. Calm(s.frontier, AdmitAll(s, urls, source, depth).frontier)
      BY <1>2, <2>1, <2>3, AdmitAllCalm
    <3>. QED BY <1>2, <2>3, <3>1 DEF f
  <2>. QED BY <1>2, <2>2, <2>3
<1>3. Calm(f, f')
  <2>1. CASE LoadSitemap
    <3>1. PICK s : /\ SiteOK(s) /\ s.frontier = f
                   /\ \/ site' = s
                      \/ \E urls \in AtMost(MaxEntries, Urls) : site' = AdmitAll(s, urls, "sitemap", 0)
      BY <1>0, <2>1, SitemapAnswers DEF f
    <3>3. \A urls \in AtMost(MaxEntries, Urls) : urls \in SUBSET Urls /\ IsFiniteSet(urls)
      BY DEF AtMost
    <3>4. "sitemap" \in Sources /\ 0 \in Nat
      BY DEF Sources
    <3>. QED BY <1>2, <3>1, <3>3, <3>4
  <2>2. CASE AugmentSearch
    <3>1. PICK urls \in AtMost(IF request.search THEN MaxEntries ELSE 0, Urls) :
            site' = AdmitAll(site, urls, "search", 0)
      BY <2>2 DEF AugmentSearch
    <3>2. urls \in SUBSET Urls /\ IsFiniteSet(urls) /\ "search" \in Sources /\ 0 \in Nat
      BY DEF AtMost, Sources
    <3>3. SiteOK(site) /\ site.frontier = f
      BY <1>0, Running DEF f
    <3>. QED BY <1>2, <3>1, <3>2, <3>3
  <2>3. CASE FollowSeed
    <3>. DEFINE urls == linksOf[Key(effective)]
    <3>1. Key(effective) \in Keys
      BY <1>0, <2>3, Running DEF FollowSeed, Key, Keys
    <3>2. urls \in SUBSET Urls /\ IsFiniteSet(urls) /\ "link" \in Sources /\ 1 \in Nat
      BY <1>0, <3>1 DEF CrawlInv, Linked, Sources
    <3>3. site' = AdmitAll(site, urls, "link", 1) \/ site' = site
      BY <2>3 DEF FollowSeed
    <3>4. SiteOK(site) /\ site.frontier = f
      BY <1>0, Running DEF f
    <3>. HIDE DEF urls
    <3>. QED BY <1>2, <3>2, <3>3, <3>4
  <2>. QED BY <2>1, <2>2, <2>3
<1>4. phase # "done"
  BY <1>1
<1>. QED BY <1>1, <1>3, <1>4, StaysBalanced

\* The page of the seed is the first result.
LEMMA SeedAccount ==
  ASSUME AccountInv, SeedLands
  PROVE  Accounts'
<1>0. CrawlInv /\ phase = "start" /\ failures \in Seq(Urls) /\ outcome = "none" /\ Balanced
      /\ f = EmptyFrontier
  BY DEF AccountInv, Accounts, SeedLands, CrawlInv, Starting
<1>1. PICK u \in SeedLike :
        LET s == Admit(RobotsFor(site, "seed"), u, "seed", 0)
            record == s.frontier.records[1]
        IN /\ Address[u].safe /\ effective' = u
           /\ IF record.state = "filtered" THEN SeedRefused(s) ELSE SeedAdmitted(s, u)
  BY DEF SeedLands
<1>. DEFINE t == RobotsFor(site, "seed")
            s == Admit(t, u, "seed", 0)
            g == Mark(Pop(s.frontier), 1, "fetched", "none")
<1>2. SiteOK(site) /\ site \in SiteType /\ TruthOK /\ site.frontier = EmptyFrontier /\ u \in Urls
  BY <1>0, Running DEF SeedLike, f
<1>3. t \in SiteType /\ t.frontier = EmptyFrontier
  BY <1>2, RobotsForKeeps DEF Origins
<1>4. SiteOK(t)
  <2>1. Len(EmptyFrontier.records) = 0
    BY EmptySeq DEF EmptyFrontier
  <2>. HIDE DEF t
  <2>. QED BY <1>2, <1>3, <2>1 DEF SiteOK
<1>. HIDE DEF t
<1>5. SiteOK(s) /\ Calm(f, s.frontier)
  BY <1>0, <1>2, <1>3, <1>4, AdmitKeeps, AdmitCalm DEF Sources
<1>6. /\ Len(s.frontier.records) = 1 /\ StateOf(s.frontier, 1) \in {"queued", "filtered"}
      /\ StateOf(s.frontier, 1) = "queued" <=> s.frontier.queue # <<>>
  BY <1>1, <1>2, <1>3, AdmitFirst
<1>7. /\ StateOf(s.frontier, 1) = "filtered" => SeedRefused(s)
      /\ StateOf(s.frontier, 1) # "filtered" => SeedAdmitted(s, u)
  <2>1. LET record == s.frontier.records[1]
        IN IF record.state = "filtered" THEN SeedRefused(s) ELSE SeedAdmitted(s, u)
    BY <1>1 DEF t
  <2>. HIDE DEF s
  <2>. QED BY <2>1 DEF StateOf
<1>8. failures' = failures
  BY DEF SeedLands
<1>. HIDE DEF s
<1>9. CASE StateOf(s.frontier, 1) = "filtered"
  <2>1. phase' = "done" /\ outcome' \in {"robots_refused", "no_admitted_urls"}
    BY <1>7, <1>9 DEF SeedRefused, Respond
  <2>. QED BY <1>0, <1>8, <2>1, NothingOwed
<1>10. CASE StateOf(s.frontier, 1) # "filtered"
  <2>. DEFINE x == s.frontier
  <2>1. /\ site' = [s EXCEPT !.frontier = g] /\ results' = Append(results, u)
        /\ phase' = "sitemaps" /\ outcome' = "none"
    BY <1>0, <1>7, <1>10 DEF SeedAdmitted
  <2>2. f' = g
    BY <1>5, <2>1 DEF SiteOK, SiteType, f
  <2>3. FrontierOK(x) /\ x.queue # <<>> /\ WaitsBut(x, 0) /\ StateOf(x, 1) = "queued"
        /\ FetchedIn(x) = FetchedIn(f) /\ LostIn(x) = LostIn(f) /\ Len(x.records) = 1
    BY <1>0, <1>5, <1>6, <1>10 DEF SiteOK, Calm, Balanced
  <2>. HIDE DEF x
  <2>4. FrontierOK(Pop(x)) /\ Pop(x).records = x.records /\ Head(x.queue) = 1
    <3>1. /\ FrontierOK(Pop(x)) /\ Pop(x).records = x.records
          /\ Head(x.queue) \in 1..Len(x.records)
      BY <2>3, PopKeeps
    <3>. QED BY <2>3, <3>1
  <2>5. FetchedIn(Pop(x)) = FetchedIn(x) /\ LostIn(Pop(x)) = LostIn(x) /\ WaitsBut(Pop(x), 1)
    BY <2>3, <2>4, PopCalm
  <2>6. 1 \in 1..Len(Pop(x).records) /\ StateOf(Pop(x), 1) = "queued"
        /\ "fetched" \in Settled /\ "none" \in Reasons
    BY <2>3, <2>4 DEF StateOf, Settled, Reasons
  <2>7. /\ FetchedIn(g) = FetchedIn(Pop(x)) \cup {1} /\ 1 \notin FetchedIn(Pop(x))
        /\ LostIn(g) = LostIn(Pop(x)) /\ WaitsBut(g, 0)
    <3>1. g = Mark(Pop(x), 1, "fetched", "none")
      BY DEF x
    <3>. HIDE DEF g
    <3>. QED BY <2>4, <2>5, <2>6, <3>1, MarkCalm
  <2>. HIDE DEF g
  <2>8. Cardinality(FetchedIn(g)) = Cardinality(FetchedIn(x)) + 1
    BY <2>3, <2>5, <2>7, CountsGrow
  <2>9. Len(results') = Len(results) + 1
    BY <1>0, <1>2, <2>1, AppendProperties DEF CrawlInv, Fetched
  <2>10. Balanced'
    BY <1>0, <1>8, <2>2, <2>3, <2>5, <2>7, <2>8, <2>9 DEF Balanced
  <2>11. ~Through' /\ phase' # "done"
    BY <2>1 DEF Through
  <2>. QED BY <1>0, <1>8, <2>1, <2>10, <2>11 DEF Accounts
<1>. QED BY <1>9, <1>10

\* A record that is settled leaves the queue, or everybody who waits is cancelled.
LEMMA QueueAccount ==
  ASSUME AccountInv, PopSettled \/ PageLimit
  PROVE  Accounts'
<1>. DEFINE i == HeadRecord
            marked == Mark(Pop(f), i, "cancelled", "page_limit_reached")
<1>1. /\ CrawlInv /\ Popping /\ phase # "done" /\ WaitsBut(f, 0)
      /\ UNCHANGED <<results, failures, outcome>>
  BY DEF AccountInv, Accounts, PopSettled, PageLimit, Popping, Balanced
<1>2. FrontierOK(f) /\ f.queue # <<>> /\ FrontierOK(Pop(f)) /\ Pop(f).records = f.records
      /\ i \in 1..Len(Pop(f).records)
  BY <1>1, Running, HeadKnown DEF Popping
<1>3. /\ FetchedIn(Pop(f)) = FetchedIn(f) /\ LostIn(Pop(f)) = LostIn(f) /\ WaitsBut(Pop(f), i)
      /\ (StateOf(f, i) # "queued" => WaitsBut(Pop(f), 0))
  <2>. PICK x : x = f
    OBVIOUS
  <2>1. /\ FetchedIn(Pop(x)) = FetchedIn(x) /\ LostIn(Pop(x)) = LostIn(x)
        /\ WaitsBut(Pop(x), Head(x.queue))
        /\ (StateOf(x, Head(x.queue)) # "queued" => WaitsBut(Pop(x), 0))
    BY <1>1, <1>2, PopCalm
  <2>. QED BY <2>1 DEF HeadRecord
<1>4. site \in SiteType
  BY <1>1, Running
<1>5. FetchedIn(f') = FetchedIn(f) /\ LostIn(f') = LostIn(f) /\ WaitsBut(f', 0)
  <2>1. CASE PopSettled
    <3>1. f' = Pop(f) /\ StateOf(f, i) # "queued"
      <4>1. site' = [site EXCEPT !.frontier = Pop(f)] /\ f.records[HeadRecord].state # "queued"
        BY <2>1 DEF PopSettled, f
      <4>. QED BY <1>4, <4>1 DEF SiteType, f, StateOf
    <3>. QED BY <1>3, <3>1
  <2>2. CASE PageLimit
    <3>1. f' = CancelQueued(marked) /\ StateOf(Pop(f), i) = "queued"
      <4>1. /\ site' = [site EXCEPT !.frontier = CancelQueued(marked)]
            /\ f.records[HeadRecord].state = "queued"
        BY <2>2 DEF PageLimit, f
      <4>. HIDE DEF marked
      <4>2. f' = CancelQueued(marked)
        BY <1>4, <4>1 DEF SiteType, f
      <4>. QED BY <1>2, <4>1, <4>2 DEF StateOf
    <3>2. "cancelled" \in Settled /\ "page_limit_reached" \in Reasons
      BY DEF Settled, Reasons
    <3>. HIDE DEF i
    <3>3. FrontierOK(marked)
      BY <1>2, <3>2, MarkKeeps
    <3>4. FetchedIn(marked) = FetchedIn(f) /\ LostIn(marked) = LostIn(f) /\ WaitsBut(marked, 0)
      BY <1>2, <1>3, <3>1, <3>2, MarkCalm
    <3>. HIDE DEF marked
    <3>5. LET y == CancelQueued(marked)
          IN FetchedIn(y) = FetchedIn(marked) /\ LostIn(y) = LostIn(marked) /\ WaitsBut(y, 0)
      BY <3>3, <3>4, CancelCalm
    <3>. QED BY <3>1, <3>4, <3>5
  <2>. QED BY <2>1, <2>2 DEF PopSettled, PageLimit
<1>6. failures \in Seq(Urls) /\ outcome = "none" /\ Balanced
  BY <1>1 DEF AccountInv, Accounts
<1>7. Balanced' /\ ~Through'
  BY <1>1, <1>5, <1>6 DEF Balanced, Through
<1>. QED BY <1>1, <1>6, <1>7 DEF Accounts

\* The page that is about to be asked for is the only one that waits out of the queue.
LEMMA AtPageCalm ==
  ASSUME AccountInv, Popping, f.records[HeadRecord].state = "queued"
  PROVE  LET i == HeadRecord
             x == AtPage(i).frontier
         IN /\ FrontierOK(x) /\ i \in 1..Len(x.records) /\ StateOf(x, i) = "queued"
            /\ FetchedIn(x) = FetchedIn(f) /\ LostIn(x) = LostIn(f) /\ WaitsBut(x, i)
<1>. DEFINE i == HeadRecord
            s == AtPage(i)
<1>1. CrawlInv /\ WaitsBut(f, 0)
  BY DEF AccountInv, Accounts, Balanced, Popping
<1>2. SiteOK(s) /\ s.frontier = Pop(f) /\ i \in 1..Len(s.frontier.records)
      /\ StateOf(s.frontier, i) = "queued"
  BY <1>1, AtPageKeeps
<1>. HIDE DEF s
<1>3. PICK x : x = f
  OBVIOUS
<1>4. FrontierOK(x) /\ x.queue # <<>> /\ WaitsBut(x, 0) /\ Head(x.queue) = i
  BY <1>1, <1>3, Running DEF Popping, HeadRecord
<1>5. FetchedIn(Pop(x)) = FetchedIn(x) /\ LostIn(Pop(x)) = LostIn(x) /\ WaitsBut(Pop(x), i)
  BY <1>4, PopCalm
<1>. QED BY <1>2, <1>3, <1>5 DEF SiteOK, s

\* A page that is refused or not answered is one failure more.
LEMMA FailureAccount ==
  ASSUME AccountInv, PageFails
  PROVE  Accounts'
<1>. DEFINE i == HeadRecord
            u == f.records[i].url
            s == AtPage(i)
            x == s.frontier
            reason == IF Allows(s, Address[u]) THEN "upstream_failure" ELSE "robots_refused"
            g == Mark(x, i, "failed", reason)
<1>1. Popping /\ f.records[HeadRecord].state = "queued"
  BY DEF PageFails
<1>2. CrawlInv /\ phase # "done" /\ failures \in Seq(Urls) /\ outcome = "none" /\ Balanced
  BY <1>1 DEF AccountInv, Accounts, Popping
<1>3. /\ FrontierOK(x) /\ i \in 1..Len(x.records) /\ StateOf(x, i) = "queued"
      /\ FetchedIn(x) = FetchedIn(f) /\ LostIn(x) = LostIn(f) /\ WaitsBut(x, i)
  BY <1>1, AtPageCalm
<1>4. s \in SiteType /\ u \in Urls
  BY <1>1, <1>2, AtPageKeeps DEF SiteOK
<1>5. /\ site' = [s EXCEPT !.frontier = g] /\ failures' = Append(failures, u)
      /\ UNCHANGED <<results, outcome, phase>>
  BY DEF PageFails
<1>6. reason \in Reasons /\ reason # "duplicate_final_url" /\ "failed" \in Settled
  BY DEF Reasons, Settled
<1>. HIDE DEF i, s, reason, x
<1>7. /\ FetchedIn(g) = FetchedIn(x) /\ i \notin LostIn(x) /\ LostIn(g) = LostIn(x) \cup {i}
      /\ WaitsBut(g, 0)
  BY <1>3, <1>6, MarkCalm
<1>. HIDE DEF g, u
<1>8. f' = g
  BY <1>4, <1>5 DEF SiteType, f
<1>9. Cardinality(LostIn(g)) = Cardinality(LostIn(f)) + 1
  BY <1>3, <1>7, CountsGrow
<1>10. failures' \in Seq(Urls) /\ Len(failures') = Len(failures) + 1
  BY <1>2, <1>4, <1>5, AppendProperties
<1>11. Balanced' /\ ~Through'
  BY <1>2, <1>3, <1>5, <1>7, <1>8, <1>9, <1>10 DEF Balanced, Through
<1>. QED BY <1>2, <1>5, <1>10, <1>11 DEF Accounts

\* A page that is answered is one result more, one failure more, or another page's double.
LEMMA AnswerAccount ==
  ASSUME AccountInv, PageAnswers
  PROVE  Accounts'
<1>. DEFINE i == HeadRecord
            s == AtPage(i)
<1>1. Popping /\ f.records[HeadRecord].state = "queued"
  BY DEF PageAnswers
<1>2. CrawlInv /\ phase # "done" /\ failures \in Seq(Urls) /\ outcome = "none" /\ Balanced
      /\ results \in Seq(Urls) /\ TruthOK
  BY <1>1, Running DEF AccountInv, Accounts, Popping, CrawlInv, Fetched
<1>3. /\ FetchedIn(s.frontier) = FetchedIn(f) /\ LostIn(s.frontier) = LostIn(f)
      /\ WaitsBut(s.frontier, i)
  BY <1>1, AtPageCalm
<1>4. /\ SiteOK(s) /\ s.frontier.records = f.records
      /\ i \in 1..Len(s.frontier.records) /\ StateOf(s.frontier, i) = "queued"
  BY <1>1, <1>2, AtPageKeeps
<1>5. PICK u \in Urls : LET r == Reconciled(s, i, u)
                        IN PageDropped(r, i) \/ PageDelivered(r, u)
  BY DEF PageAnswers
<1>. DEFINE r == Reconciled(s, i, u)
            y == r.state
            z == Mark(y.frontier, r.final, "fetched", "none")
<1>6. PageDropped(r, i) \/ PageDelivered(r, u)
  BY <1>5
<1>7. UNCHANGED <<phase, outcome>>
  BY DEF PageAnswers
<1>. HIDE DEF i, s
<1>8. /\ SiteOK(y) /\ Len(y.frontier.records) = Len(s.frontier.records)
      /\ r.final # 0 => r.final \in 1..Len(y.frontier.records)
  BY <1>2, <1>4, ReconciledKeeps
<1>9. SettlesOne(s.frontier, i, y.frontier, r.final)
  BY <1>2, <1>3, <1>4, ReconciledCalm
<1>. HIDE DEF r
<1>10. FrontierOK(f)
  BY <1>2, Running
<1>11. Balanced' /\ failures' \in Seq(Urls)
  <2>1. CASE PageDropped(r, i)
    <3>1. r.final = 0 /\ f' = y.frontier /\ results' = results
      BY <2>1 DEF PageDropped, f
    <3>2. i \in 1..Len(y.frontier.records)
      BY <1>4, <1>8
    <3>3. CASE ReasonOf(y.frontier, i) = "duplicate_final_url"
      <4>1. failures' = failures
        BY <2>1, <3>3 DEF PageDropped, ReasonOf
      <4>. QED BY <1>2, <1>3, <1>9, <3>1, <3>3, <4>1 DEF Balanced, SettlesOne
    <3>4. CASE ReasonOf(y.frontier, i) # "duplicate_final_url"
      <4>1. failures' = Append(failures, UrlOf(y.frontier, i))
        BY <2>1, <3>4 DEF PageDropped, ReasonOf, UrlOf
      <4>2. UrlOf(y.frontier, i) \in Urls
        BY <1>8, <3>2, FrontierParts DEF SiteOK
      <4>3. failures' \in Seq(Urls) /\ Len(failures') = Len(failures) + 1
        BY <1>2, <4>1, <4>2, AppendProperties
      <4>4. Cardinality(LostIn(f')) = Cardinality(LostIn(f)) + 1
        BY <1>3, <1>9, <1>10, <3>1, <3>4, CountsGrow DEF SettlesOne
      <4>. QED BY <1>2, <1>3, <1>9, <3>1, <3>4, <4>3, <4>4 DEF Balanced, SettlesOne
    <3>. QED BY <3>3, <3>4
  <2>2. CASE PageDelivered(r, u)
    <3>. DEFINE t == [y EXCEPT !.frontier = z]
                record == y.frontier.records[r.final]
                follow == request.sitemap # "only" /\ record.depth < MaxDepth
    <3>1. PICK links \in AtMost(MaxLinks, Urls) :
            site' = IF follow THEN AdmitAll(t, links, "link", record.depth + 1) ELSE t
      BY <2>2 DEF PageDelivered
    <3>2. r.final # 0 /\ results' = Append(results, u) /\ failures' = failures
      BY <2>2 DEF PageDelivered
    <3>3. FrontierOK(y.frontier) /\ y \in SiteType /\ RobotsKept(y, y)
      BY <1>8 DEF SiteOK, RobotsKept
    <3>4. record.depth + 1 \in Nat
      <4>1. record \in Rec
        BY <1>8, <3>2, <3>3, FrontierParts
      <4>. HIDE DEF record
      <4>. QED BY <4>1 DEF Rec
    <3>5. FrontierOK(z) /\ Done(y.frontier) \subseteq Done(z) /\ WaitStill(y.frontier, z)
      <4>1. "fetched" \in Settled /\ "none" \in Reasons
        BY DEF Settled, Reasons
      <4>. QED BY <1>8, <3>2, <3>3, <4>1, MarkKeeps
    <3>. HIDE DEF z, y, record
    <3>6. SiteOK(t) /\ t.frontier = z
      BY <1>8, <3>3, <3>5, FrontierChanges
    <3>. HIDE DEF t
    <3>7. Calm(z, f')
      <4>1. CASE follow
        <5>1. links \subseteq Urls /\ IsFiniteSet(links) /\ "link" \in Sources
          BY DEF AtMost, Sources
        <5>2. site' = AdmitAll(t, links, "link", record.depth + 1)
          BY <3>1, <4>1
        <5>3. Calm(t.frontier, AdmitAll(t, links, "link", record.depth + 1).frontier)
          BY <1>2, <3>4, <3>6, <5>1, AdmitAllCalm
        <5>. QED BY <3>6, <5>2, <5>3 DEF f
      <4>2. CASE ~follow
        BY <3>1, <3>6, <4>2 DEF Calm, f
      <4>. QED BY <4>1, <4>2
    <3>8. FetchedIn(f') = FetchedIn(f) \cup {r.final} /\ r.final \notin FetchedIn(f)
          /\ LostIn(f') = LostIn(f) /\ WaitsBut(f', 0)
      <4>1. /\ LostIn(z) = LostIn(f) /\ WaitsBut(z, 0)
            /\ r.final \notin FetchedIn(f) /\ FetchedIn(z) = FetchedIn(f) \cup {r.final}
        BY <1>3, <1>9, <3>2 DEF SettlesOne, z
      <4>. QED BY <3>7, <4>1 DEF Calm
    <3>9. Cardinality(FetchedIn(f')) = Cardinality(FetchedIn(f)) + 1
      BY <1>10, <3>8, CountsGrow
    <3>10. Len(results') = Len(results) + 1
      BY <1>2, <3>2, AppendProperties
    <3>. QED BY <1>2, <3>2, <3>8, <3>9, <3>10 DEF Balanced
  <2>. QED BY <1>6, <2>1, <2>2
<1>. QED BY <1>2, <1>7, <1>11 DEF Accounts, Through

\* The accounts hold of every operation.
LEMMA AccountInvariant == Spec => []AccountInv
<1>1. Init => AccountInv
  <2>. SUFFICES ASSUME Init PROVE Accounts
    BY InitSound DEF AccountInv
  <2>1. failures = <<>> /\ results = <<>> /\ phase = "start" /\ outcome = "none" /\ f.records = <<>>
    BY DEF Init, f, EmptyFrontier
  <2>2. <<>> \in Seq(Urls) /\ Len(<<>>) = 0
    BY EmptySeq
  <2>3. FetchedIn(f) = {} /\ LostIn(f) = {} /\ WaitsBut(f, 0)
    BY <2>1, <2>2 DEF FetchedIn, LostIn, WaitsBut
  <2>4. Balanced
    BY <2>1, <2>2, <2>3, FS_EmptySet DEF Balanced
  <2>. QED BY <2>1, <2>2, <2>4 DEF Accounts, Through
<1>2. AccountInv /\ [Next]_vars => AccountInv'
  <2>. SUFFICES ASSUME AccountInv, [Next]_vars PROVE Accounts'
    BY StepSound DEF AccountInv
  <2>1. CASE UNCHANGED vars
    BY <2>1 DEF vars, AccountInv, Accounts, Through, Balanced, f
  <2>2. CASE Cancelled \/ UnsafeSeed \/ SeedFails \/ SkipSitemap \/ Finish
    BY <2>2, OthersAccount
  <2>3. CASE SeedLands
    BY <2>3, SeedAccount
  <2>4. CASE LoadSitemap \/ AugmentSearch \/ FollowSeed
    BY <2>4, AddressesAccount
  <2>5. CASE PopSettled \/ PageLimit
    BY <2>5, QueueAccount
  <2>6. CASE PageFails
    BY <2>6, FailureAccount
  <2>7. CASE PageAnswers
    BY <2>7, AnswerAccount
  <2>. QED BY <2>1, <2>2, <2>3, <2>4, <2>5, <2>6, <2>7 DEF Next, Work
<1>. QED BY <1>1, <1>2, PTL DEF Spec

\* An operation that ran to its end leaves no record waiting, and has handed over each page it
\* fetched and each that failed and was no double, once (_crawl_pages, _reconcile_final and
\* mark_fetched, mark_failed, mark_cancelled of the frontier).
THEOREM RecordsAreSettled == Spec => []EveryRecordSettled
<1>1. AccountInv => EveryRecordSettled
  <2>. SUFFICES ASSUME AccountInv, Through PROVE EveryRecordSettled
    BY DEF EveryRecordSettled
  <2>. DEFINE With(st) == {i \in DOMAIN f.records : f.records[i].state = st}
              doubles == {i \in With("failed") : f.records[i].reason = "duplicate_final_url"}
  <2>1. Balanced /\ f.queue = <<>> /\ DOMAIN f.records = 1..Len(f.records)
    BY Running, FrontierParts DEF AccountInv, Accounts
  <2>2. With("fetched") = FetchedIn(f)
    BY <2>1 DEF FetchedIn, StateOf
  <2>3. With("failed") \ doubles = LostIn(f)
    BY <2>1 DEF LostIn, StateOf, ReasonOf
  <2>4. With("queued") = {}
    <3>1. QueuedIn(f) = {}
      BY <2>1, EmptySeq DEF QueuedIn
    <3>2. 0 \notin 1..Len(f.records)
      BY Running, FrontierParts DEF AccountInv
    <3>. QED BY <2>1, <3>1, <3>2 DEF Balanced, WaitsBut, StateOf
  <2>. HIDE DEF With, doubles
  <2>5. /\ With("queued") = {} /\ f.queue = <<>> /\ Len(results) = Cardinality(With("fetched"))
        /\ Len(failures) = Cardinality(With("failed") \ doubles)
    BY <2>1, <2>2, <2>3, <2>4 DEF Balanced
  <2>. QED BY <2>5 DEF EveryRecordSettled, With, doubles
<1>. QED BY <1>1, AccountInvariant, PTL
=============================================================================
