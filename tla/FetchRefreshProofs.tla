-------------------------- MODULE FetchRefreshProofs --------------------------
(***************************************************************************)
(* Proofs about cached fetches, for any number of keys, requests and       *)
(* background refreshes, and for every lifetime, stale window and          *)
(* retention the settings allow.                                           *)
(***************************************************************************)
EXTENDS FetchRefresh, NaturalsInduction, WellFoundedInduction, TLAPS

-----------------------------------------------------------------------------
(* The inductive invariant.                                                *)

Reasons == {"none", "ttl", "refresh_started", "coalesced", "miss", "not_modified"}

SlotType ==
  [pc : Running \cup {"idle", "ended", "done"}, key : Keys \cup {None},
   kind : {"plain", "force", "swr", "watch", "forceWatch"}, base : Record \cup {None},
   now : Nat, asked : Nat, ver : Versions \cup {None}, prior : Found \cup {None},
   met : BOOLEAN, reason : Reasons]

\* The types of the state, the history included.
RefreshTypes ==
  /\ records \in [Keys -> Record \cup {None}]
  /\ targets \in [Keys -> Snapshot \cup {None}]
  /\ clock \in Nat
  /\ due \in Nat \cup {None}
  /\ act \in [Slots -> SlotType]
  /\ holder \in [Keys -> Slots \cup {None}]
  /\ background \in [Keys -> Backgrounds \cup {None}]
  /\ site \in [Keys -> Versions]
  /\ since \in [Keys -> [Versions -> Nat \cup {None}]]
  /\ \A k \in Keys, v \in Versions : v <= site[k] => since[k][v] \in Nat
  /\ fullAt \in [Keys -> Nat]
  /\ stray \in [key : Keys, rec : Record, snap : Snapshot \cup {None}] \cup {None}
  /\ \A a \in Slots : act[a].pc # "idle" => Key(a) \in Keys

\* A key's lock is held by the one task that is refreshing it.
Exclusive ==
  /\ \A k \in Keys : holder[k] # None => act[holder[k]].pc \in Holding /\ Key(holder[k]) = k
  /\ \A a \in Slots : act[a].pc \in Holding => holder[Key(a)] = a

\* A record of k as any put may have written it.
Honest(k, rec) ==
  /\ rec.fetched <= clock /\ rec.expires = rec.fetched + TtlS
  /\ rec.retained <= fullAt[k] + RetentionS
  /\ CurrentAt(k, rec.ver, rec.fetched)

\* How old what a request is answered may be.
Horizon(a) ==
  CASE act[a].reason = "ttl" -> act[a].asked - TtlS + 1
    [] act[a].reason = "refresh_started" -> act[a].asked - TtlS - StaleS + 1
    [] act[a].reason = "coalesced" ->
         IF act[a].base = None THEN 0 ELSE act[a].base.fetched + 1
    [] OTHER -> act[a].asked

\* What a task knows at each point of its way.
Informed(a) ==
  /\ act[a].asked <= clock /\ act[a].now <= clock
  /\ act[a].pc \in {"get", "target"} => act[a].now = act[a].asked
  /\ act[a].pc \in Holding \ {"watch"} => act[a].asked <= act[a].now
  /\ act[a].pc \in {"store", "touch", "wake"} => act[a].ver # None
  /\ act[a].base # None => Key(a) \in Keys /\ Honest(Key(a), act[a].base)
  /\ act[a].pc \in {"prior", "store", "touch", "wake"} /\ act[a].ver # None =>
       CurrentAt(Key(a), act[a].ver, act[a].now)
  /\ act[a].pc \in {"prior", "store"} /\ act[a].ver # None => act[a].now <= fullAt[Key(a)]
  /\ act[a].pc = "touch" => act[a].base # None /\ act[a].base.ver = act[a].ver
  /\ act[a].pc = "wake" => act[a].reason \in {"miss", "not_modified"}
  /\ act[a].pc \in {"watch", "done"} /\ act[a].ver # None =>
       CurrentAt(Key(a), act[a].ver, Horizon(a)) /\ Horizon(a) <= clock

\* What is in the cache, or on its way to it from an abandoned put, is honest.
Kept ==
  /\ \A k \in Keys : records[k] # None => Honest(k, records[k])
  /\ stray # None => unwoken /\ Honest(stray.key, stray.rec)

\* Nobody about to write a page has looked at the site before the record was written.
Forward ==
  \A a \in Slots :
    ~unwoken /\ act[a].pc \in {"prior", "store", "touch"} /\ act[a].ver # None =>
      records[Key(a)] = None \/ records[Key(a)].ver <= act[a].ver

\* A watch that reports has seen the change, and remembers what it saw before.
Told(a) == act[a].met /\ act[a].pc # "store"
Watched(a) ==
  /\ act[a].prior # None => act[a].pc \in {"store", "wake"}
  /\ act[a].met => /\ act[a].pc \in {"store", "wake", "done", "ended"}
                   /\ act[a].ver # None /\ Sight(act[a].ver) = "desired"
                   /\ act[a].ver <= site[Key(a)]
  /\ act[a].met /\ act[a].pc = "store" => act[a].prior = "expected" /\ Watches(a)
  /\ act[a].pc = "prior" => Watches(a)
  /\ act[a].pc = "wake" /\ act[a].reason = "not_modified" => act[a].prior = None /\ ~act[a].met
Watchful == \A a \in Slots : Watched(a)

ExpectedAgain(k) == targets[k] # None /\ targets[k].base = "expected"

\* Later tasks of b saw the target after the report of a, and expect it again only at a
\* newer version.
Behind(a, b) ==
  /\ act[b].pc \in {"prior", "store", "touch"} /\ act[b].ver # None =>
       act[a].ver <= act[b].ver
  /\ act[b].pc = "prior" /\ act[b].ver # None /\ ExpectedAgain(Key(a)) =>
       act[a].ver < act[b].ver
  /\ act[b].pc = "store" /\ act[b].prior = "expected" => act[a].ver < act[b].ver
  /\ Told(b) => act[a].ver # act[b].ver

\* After a report the target is expected again only at a newer version.
Alarmed ==
  ~unwoken =>
    /\ \A a \in Slots : Told(a) /\ ExpectedAgain(Key(a)) => act[a].ver < site[Key(a)]
    /\ \A a, b \in Slots : Told(a) /\ a # b /\ Key(a) = Key(b) => Behind(a, b)

RefreshInv ==
  /\ RefreshTypes /\ Exclusive
  /\ \A a \in Slots : Informed(a)
  /\ Kept /\ Forward
  /\ Watchful /\ Alarmed

-----------------------------------------------------------------------------
(* Lemmas about what the operators of the cache return.                    *)

\* max(): the later of two times.
LEMMA LaterOfTwo ==
  ASSUME NEW m \in Nat, NEW n \in Nat
  PROVE  Max({m, n}) \in Nat /\ Max({m, n}) >= m /\ Max({m, n}) >= n
<1>1. \E x \in {m, n} : \A y \in {m, n} : x >= y
  OBVIOUS
<1>2. Max({m, n}) \in {m, n} /\ \A y \in {m, n} : Max({m, n}) >= y
  BY <1>1, Zenon DEF Max
<1>. QED BY <1>2

\* SELECT MIN(retained): a table with records has an earliest deadline.
LEMMA EarliestOfMany ==
  ASSUME NEW S \in SUBSET Nat, S # {}
  PROVE  Min(S) \in S /\ \A y \in S : Min(S) <= y
<1>1. PICK x \in S : \A y \in S : ~(<<y, x>> \in OpToRel(<, Nat))
  BY NatLessThanWellFounded, WFMin, Zenon
<1>2. \A y \in S : ~(y < x)
  BY <1>1, Zenon DEF OpToRel
<1>3. \E z \in S : \A y \in S : z <= y
  BY <1>2
<1>. QED BY <1>3, Zenon DEF Min

\* What _put writes, for content or for a 304, is a record; a page shows its target or not.
LEMMA RecordTypes ==
  ASSUME NEW v \in Versions, NEW t \in Nat
  PROVE  /\ FreshRecord(v, t) \in Record
         /\ \A rec \in Record : Revalidated(rec, t) \in Record
         /\ Sight(v) \in Found \cup {"missing"}
<1>1. t + TtlS \in Nat /\ t + RetentionS \in Nat
  BY CacheConstants
<1>. QED BY <1>1 DEF FreshRecord, Revalidated, Record, Sight, Found

\* _stored_target_snapshot returns a snapshot.
LEMMA RememberingType ==
  ASSUME NEW v \in Versions, NEW p \in Found \cup {None}
  PROVE  Remembering(Sight(v), p) \in Snapshot
<1>1. Sight(v) \in Found \cup {"missing"}
  BY DEF Sight, Found
<1>. QED BY <1>1 DEF Remembering, Snapshot

\* A slot nobody uses is a slot.
LEMMA IdleType == Idle \in SlotType
BY DEF Idle, SlotType, Reasons

\* So is one whose task returned without a page.
LEMMA UnansweredType ==
  ASSUME NEW a \in Slots, act[a] \in SlotType,
         NEW pc \in Running \cup {"idle", "ended", "done"}
  PROVE  /\ [Unanswered(a) EXCEPT !.pc = pc] \in SlotType
         /\ [Unanswered(a) EXCEPT !.pc = pc] = [Idle EXCEPT !.pc = pc, !.key = Key(a)]
<1>1. Key(a) \in Keys \cup {None}
  BY DEF SlotType, Key
<1>2. [Unanswered(a) EXCEPT !.pc = pc] = [Idle EXCEPT !.pc = pc, !.key = Key(a)]
  BY DEF Unanswered, Idle
<1>3. [Idle EXCEPT !.pc = pc, !.key = Key(a)] \in SlotType
  BY <1>1 DEF Idle, SlotType, Reasons
<1>. QED BY <1>2, <1>3

\* An answer keeps the request's address, its time and whether the watch's condition was met.
LEMMA AnsweredIs ==
  ASSUME NEW a \in Slots, act[a] \in SlotType, NEW v, NEW r, NEW pc
  PROVE  [Answered(a, v, r) EXCEPT !.pc = pc] =
           [pc |-> pc, key |-> Key(a), kind |-> "plain",
            base |-> IF r = "coalesced" THEN act[a].base ELSE None, now |-> 0,
            asked |-> act[a].asked, ver |-> v, prior |-> None, met |-> act[a].met,
            reason |-> r]
BY DEF Answered

\* And one whose task returned with one.
LEMMA AnsweredType ==
  ASSUME NEW a \in Slots, act[a] \in SlotType, NEW v \in Versions \cup {None},
         NEW r \in Reasons, NEW pc \in Running \cup {"idle", "ended", "done"}
  PROVE  [Answered(a, v, r) EXCEPT !.pc = pc] \in SlotType
<1>1. act[a].met \in BOOLEAN /\ act[a].asked \in Nat /\ act[a].base \in Record \cup {None}
      /\ Key(a) \in Keys \cup {None}
  BY DEF SlotType, Key
<1>2. \A x \in Record \cup {None} : (IF r = "coalesced" THEN x ELSE None) \in Record \cup {None}
  OBVIOUS
<1>3. \A b \in Record \cup {None}, k \in Keys \cup {None}, t \in Nat, m \in BOOLEAN :
        [pc |-> pc, key |-> k, kind |-> "plain", base |-> b, now |-> 0, asked |-> t, ver |-> v,
         prior |-> None, met |-> m, reason |-> r] \in SlotType
  BY DEF SlotType
<1>4. (IF r = "coalesced" THEN act[a].base ELSE None) \in Record \cup {None}
  BY <1>1, <1>2
<1>5. PICK b \in Record \cup {None} : b = IF r = "coalesced" THEN act[a].base ELSE None
  BY <1>4
<1>6. [Answered(a, v, r) EXCEPT !.pc = pc] =
        [pc |-> pc, key |-> Key(a), kind |-> "plain", base |-> b, now |-> 0,
         asked |-> act[a].asked, ver |-> v, prior |-> None, met |-> act[a].met, reason |-> r]
  BY <1>5, AnsweredIs
<1>7. [pc |-> pc, key |-> Key(a), kind |-> "plain", base |-> b, now |-> 0,
       asked |-> act[a].asked, ver |-> v, prior |-> None, met |-> act[a].met,
       reason |-> r] \in SlotType
  BY <1>1, <1>3
<1>. QED BY <1>6, <1>7, Zenon

\* _refresh_one's return, with or without the lock.
LEMMA ConcludeEffect ==
  ASSUME RefreshTypes, NEW a \in Slots, NEW final, [final EXCEPT !.pc = Final(a)] \in SlotType,
         Conclude(a, final)
  PROVE  /\ act' \in [Slots -> SlotType] /\ act'[a] = [final EXCEPT !.pc = Final(a)]
         /\ \A s \in Slots : s # a => act'[s] = act[s]
         /\ holder' \in [Keys -> Slots \cup {None}]
         /\ \A k \in Keys : holder'[k] = IF holder[k] = a THEN None ELSE holder[k]
BY DEF RefreshTypes, Conclude

\* What a step may do to the cache: keep or drop each page, or write one.
Drops ==
  /\ records' \in [Keys -> Record \cup {None}] /\ targets' \in [Keys -> Snapshot \cup {None}]
  /\ \A k \in Keys : /\ records'[k] = None \/ records'[k] = records[k]
                     /\ targets'[k] = None \/ targets'[k] = targets[k]

\* Deleting pages keeps or drops each of them.
LEMMA WithoutDrops ==
  ASSUME RefreshTypes, NEW ks, Without(ks)
  PROVE  Drops
BY DEF RefreshTypes, Without, Drops

\* So does leaving the cache alone.
LEMMA SameDrops ==
  ASSUME RefreshTypes, UNCHANGED cacheVars
  PROVE  Drops
BY DEF RefreshTypes, cacheVars, Drops

Writes(w) ==
  /\ records' = [records EXCEPT ![w.key] = w.rec]
  /\ targets' \in [Keys -> Snapshot \cup {None}]
  /\ \A k \in Keys : k # w.key => targets'[k] = targets[k]
  /\ targets'[w.key] = IF w.snap = None THEN targets[w.key] ELSE w.snap

\* A put writes one page and its snapshot, if it carries one.
LEMMA CommitWrites ==
  ASSUME RefreshTypes, NEW w \in [key : Keys, rec : Record, snap : Snapshot \cup {None}],
         Commit(w)
  PROVE  Writes(w) /\ records' \in [Keys -> Record \cup {None}]
BY DEF RefreshTypes, Commit, Put, PutWithTarget, Writes

\* What a put is called with.
LEMMA WrittenType ==
  ASSUME RefreshTypes, NEW a \in Slots, act[a].pc \in {"store", "touch"}, Informed(a)
  PROVE  /\ Written(a) \in [key : Keys, rec : Record, snap : Snapshot \cup {None}]
         /\ act[a].pc = "touch" => Written(a) = [key |-> Key(a), snap |-> None,
                                     rec |-> Revalidated(act[a].base, act[a].now)]
         /\ act[a].pc = "store" => Written(a) =
              [key |-> Key(a), rec |-> FreshRecord(act[a].ver, act[a].now),
               snap |-> IF Watches(a) THEN Remembering(Sight(act[a].ver), act[a].prior) ELSE None]
<1>1. /\ act[a] \in SlotType /\ Key(a) \in Keys /\ act[a].now \in Nat
      /\ act[a].ver \in Versions /\ act[a].prior \in Found \cup {None}
  BY DEF RefreshTypes, SlotType, Informed
<1>2. CASE act[a].pc = "touch"
  <2>1. act[a].base \in Record
    BY <1>1, <1>2 DEF Informed, SlotType
  <2>2. Revalidated(act[a].base, act[a].now) \in Record
    BY <1>1, <2>1, RecordTypes
  <2>3. Written(a) = [key |-> Key(a), snap |-> None, rec |-> Revalidated(act[a].base, act[a].now)]
    BY <1>2 DEF Written, Stamp
  <2>. QED BY <1>1, <1>2, <2>2, <2>3
<1>3. CASE act[a].pc = "store"
  <2>1. FreshRecord(act[a].ver, act[a].now) \in Record
    BY <1>1, RecordTypes
  <2>2. Remembering(Sight(act[a].ver), act[a].prior) \in Snapshot
    BY <1>1, RememberingType
  <2>3. Written(a) =
              [key |-> Key(a), rec |-> FreshRecord(act[a].ver, act[a].now),
               snap |-> IF Watches(a) THEN Remembering(Sight(act[a].ver), act[a].prior) ELSE None]
    BY <1>3 DEF Written, Stamp
  <2>. QED BY <1>1, <1>3, <2>1, <2>2, <2>3
<1>. QED BY <1>2, <1>3

-----------------------------------------------------------------------------
(* What each action does to the task that takes it, and to the lock.       *)

\* Nobody but a moves; a is at pc, still about the same address since the same time.
Moves(a, pc) ==
  /\ act' \in [Slots -> SlotType] /\ act'[a].pc = pc
  /\ act'[a].key = Key(a) /\ act'[a].asked = act[a].asked
  /\ \A s \in Slots : s # a => act'[s] = act[s]

Remembers(a) ==
  /\ act'[a].now = act[a].now /\ act'[a].prior = act[a].prior /\ act'[a].met = act[a].met

LeavesLock(a) ==
  /\ holder' \in [Keys -> Slots \cup {None}]
  /\ \A k \in Keys : holder'[k] = IF holder[k] = a THEN None ELSE holder[k]

\* What an answer consists of.
Replies(a, v, r) ==
  /\ act'[a].ver = v /\ act'[a].reason = r /\ act'[a].prior = None /\ act'[a].now = 0
  /\ act'[a].base = IF r = "coalesced" THEN act[a].base ELSE None
  /\ act'[a].met = act[a].met

\* A task that returns without a page.
Silent(a) ==
  /\ act' \in [Slots -> SlotType] /\ act'[a].pc = Final(a) /\ act'[a].key = Key(a)
  /\ act'[a].ver = None /\ act'[a].base = None /\ act'[a].prior = None /\ act'[a].met = FALSE
  /\ act'[a].now = 0 /\ act'[a].asked = 0
  /\ \A s \in Slots : s # a => act'[s] = act[s]

\* _refresh_one returns an answer.
LEMMA ConcludeReply ==
  ASSUME RefreshTypes, NEW a \in Slots, NEW v \in Versions \cup {None}, NEW r \in Reasons,
         Conclude(a, Answered(a, v, r))
  PROVE  Moves(a, Final(a)) /\ Replies(a, v, r) /\ LeavesLock(a)
<1>1. act[a] \in SlotType /\ Final(a) \in Running \cup {"idle", "ended", "done"}
  BY DEF RefreshTypes, Final
<1>. DEFINE x == [Answered(a, v, r) EXCEPT !.pc = Final(a)]
<1>2. x \in SlotType
  BY <1>1, AnsweredType
<1>3. /\ x.pc = Final(a) /\ x.key = Key(a) /\ x.asked = act[a].asked
      /\ x.ver = v /\ x.reason = r /\ x.prior = None /\ x.now = 0
      /\ x.base = IF r = "coalesced" THEN act[a].base ELSE None
  BY DEF Answered
<1>4. x.met = act[a].met
  BY DEF Answered
<1>5. /\ act' \in [Slots -> SlotType] /\ act'[a] = x
      /\ \A s \in Slots : s # a => act'[s] = act[s]
      /\ LeavesLock(a)
  BY <1>2, ConcludeEffect DEF LeavesLock
<1>. HIDE DEF x
<1>. QED BY <1>3, <1>4, <1>5, Zenon DEF Moves, Replies

\* _refresh_one returns without a page.
LEMMA ConcludeNoReply ==
  ASSUME RefreshTypes, NEW a \in Slots, Conclude(a, Unanswered(a))
  PROVE  Silent(a) /\ LeavesLock(a)
<1>1. act[a] \in SlotType /\ Final(a) \in Running \cup {"idle", "ended", "done"}
  BY DEF RefreshTypes, Final
<1>. DEFINE x == [Unanswered(a) EXCEPT !.pc = Final(a)]
<1>2. x \in SlotType
  BY <1>1, UnansweredType
<1>3. /\ x.pc = Final(a) /\ x.key = Key(a) /\ x.asked = 0 /\ x.now = 0
      /\ x.ver = None /\ x.prior = None /\ x.base = None
  BY DEF Unanswered, Idle
<1>4. x.met = FALSE
  BY DEF Unanswered, Idle
<1>5. /\ act' \in [Slots -> SlotType] /\ act'[a] = x
      /\ \A s \in Slots : s # a => act'[s] = act[s]
      /\ LeavesLock(a)
  BY <1>2, ConcludeEffect DEF LeavesLock
<1>. HIDE DEF x
<1>. QED BY <1>3, <1>4, <1>5, Zenon DEF Silent

\* _cached_fetch_one starts with what the request brings and the time.
LEMMA AskEffect ==
  ASSUME RefreshTypes, NEW a \in Slots, NEW k \in Keys, Ask(a, k)
  PROVE  /\ act' \in [Slots -> SlotType] /\ \A s \in Slots : s # a => act'[s] = act[s]
         /\ act'[a].pc \in {"get", "live"} /\ act'[a].key = k
         /\ act'[a].now = clock /\ act'[a].asked = clock
         /\ act'[a].base = None /\ act'[a].ver = None /\ act'[a].prior = None
         /\ act'[a].reason = "none"
         /\ ~act'[a].met
<1>1. PICK kind \in Kinds, pc \in {"get", "live"} :
         act' = [act EXCEPT ![a] = [Idle EXCEPT !.pc = pc, !.key = k, !.kind = kind,
                                               !.now = clock, !.asked = clock]]
  BY DEF Ask
<1>. DEFINE x == [Idle EXCEPT !.pc = pc, !.key = k, !.kind = kind, !.now = clock, !.asked = clock]
<1>2. /\ kind \in {"plain", "force", "swr", "watch", "forceWatch"} /\ clock \in Nat
      /\ pc \in Running
  BY FetchConstants DEF RefreshTypes, Running
<1>3. x \in SlotType
  BY <1>2 DEF SlotType, Reasons, Idle
<1>4. /\ x.pc = pc /\ x.key = k /\ x.now = clock /\ x.asked = clock
      /\ x.base = None /\ x.ver = None /\ x.prior = None /\ x.reason = "none"
  BY DEF Idle
<1>5. ~x.met
  BY DEF Idle
<1>. HIDE DEF x
<1>6. act' \in [Slots -> SlotType] /\ act'[a] = x /\ \A s \in Slots : s # a => act'[s] = act[s]
  BY <1>1, <1>3 DEF RefreshTypes, x
<1>. QED BY <1>4, <1>5, <1>6

LiveType == \A k \in Keys : Live(k) \in Record \cup {None} /\ LiveTarget(k) \in Snapshot \cup {None}

\* store.get and get_target return a record, a snapshot or nothing.
LEMMA LiveTypes ==
  ASSUME RefreshTypes
  PROVE  LiveType
BY DEF RefreshTypes, Live, LiveTarget, LiveType

\* A fetch past the cache brings no record.
LEMMA LiveEffect ==
  ASSUME RefreshTypes, NEW a \in Slots, FetchLive(a)
  PROVE  Silent(a) /\ LeavesLock(a)
BY ConcludeNoReply DEF FetchLive

\* _cached_fetch_one goes to _refresh_one with the record it read.
LEMMA ToLockEffect ==
  ASSUME RefreshTypes, NEW a \in Slots, NEW rec \in Record \cup {None}, ToLock(a, rec)
  PROVE  Moves(a, "lock") /\ Remembers(a) /\ act'[a].base = rec
<1>. DEFINE kind == IF Watches(a) THEN "watch" ELSE "plain"
            x == [act[a] EXCEPT !.pc = "lock", !.base = rec, !.kind = kind]
<1>1. act[a] \in SlotType /\ kind \in {"plain", "force", "swr", "watch", "forceWatch"}
  BY DEF RefreshTypes
<1>2. x \in SlotType
  <2>. HIDE DEF kind
  <2>. QED BY <1>1 DEF Running, SlotType
<1>3. act' = [act EXCEPT ![a] = x]
  BY DEF ToLock
<1>4. /\ x.pc = "lock" /\ x.key = Key(a) /\ x.asked = act[a].asked /\ x.base = rec
      /\ x.now = act[a].now /\ x.prior = act[a].prior
  BY <1>1 DEF SlotType, Key
<1>5. x.met = act[a].met
  BY <1>1 DEF SlotType
<1>. HIDE DEF x
<1>6. act' \in [Slots -> SlotType] /\ act'[a] = x /\ \A s \in Slots : s # a => act'[s] = act[s]
  BY <1>2, <1>3 DEF RefreshTypes
<1>. QED BY <1>4, <1>5, <1>6, Zenon DEF Moves, Remembers

\* start_background: a new task for the key, on an idle slot.
Starts(a, b, rec) ==
  /\ b # a /\ b \in Slots /\ act[b].pc = "idle"
  /\ act' \in [Slots -> SlotType] /\ act'[a].pc = "done"
  /\ act'[a].key = Key(a) /\ act'[a].asked = act[a].asked
  /\ \A s \in Slots \ {a, b} : act'[s] = act[s]
  /\ act'[b].pc = "lock" /\ act'[b].key = Key(a) /\ act'[b].base = rec
  /\ act'[b].now = 0 /\ act'[b].asked = 0 /\ act'[b].ver = None /\ act'[b].prior = None
  /\ act'[b].met = FALSE

\* What _cached_fetch_one makes of the record it read.
Decides(a, rec) ==
  \/ /\ rec # None /\ act[a].now < rec.expires
     /\ Moves(a, Final(a)) /\ Replies(a, rec.ver, "ttl") /\ LeavesLock(a)
  \/ /\ rec # None /\ act[a].now < rec.expires + StaleS
     /\ UNCHANGED holder /\ Replies(a, rec.ver, "refresh_started")
     /\ Moves(a, "done") \/ \E b \in Slots : Starts(a, b, rec)
  \/ /\ UNCHANGED holder
     /\ Moves(a, "lock") /\ Remembers(a) /\ act'[a].base = rec

\* The rules of _cached_fetch_one: fresh, stale, or to be refreshed.
LEMMA DecideEffect ==
  ASSUME RefreshTypes, NEW a \in Slots, NEW rec \in Record \cup {None}, NEW snap,
         act[a].pc \in {"get", "target"}, Decide(a, rec, snap)
  PROVE  Decides(a, rec) /\ background' \in [Keys -> Backgrounds \cup {None}]
<1>0. act[a] \in SlotType /\ Key(a) \in Keys
  BY DEF RefreshTypes
<1>1. CASE AnswerFresh(a, rec, snap)
  <2>1. rec # None /\ act[a].now < rec.expires /\ rec.ver \in Versions \cup {None}
    BY <1>1 DEF AnswerFresh, IsFresh, Record
  <2>2. Moves(a, Final(a)) /\ Replies(a, rec.ver, "ttl") /\ LeavesLock(a)
    BY <1>1, <2>1, ConcludeReply DEF AnswerFresh, Reasons
  <2>. QED BY <1>1, <2>1, <2>2 DEF AnswerFresh, Decides, RefreshTypes
<1>2. CASE AnswerStale(a, rec, snap)
  <2>1. rec # None /\ act[a].now < rec.expires + StaleS /\ rec.ver \in Versions \cup {None}
    BY <1>2 DEF AnswerStale, MayServeStale, Record
  <2>. DEFINE x == [Answered(a, rec.ver, "refresh_started") EXCEPT !.pc = "done"]
  <2>2. x \in SlotType
    BY <1>0, <2>1, AnsweredType DEF Reasons
  <2>3. /\ x.pc = "done" /\ x.key = Key(a) /\ x.asked = act[a].asked /\ x.ver = rec.ver
        /\ x.reason = "refresh_started" /\ x.prior = None /\ x.now = 0 /\ x.base = None
    BY DEF Answered
  <2>4. x.met = act[a].met
    BY DEF Answered
  <2>. DEFINE y == [Idle EXCEPT !.pc = "lock", !.key = Key(a), !.base = rec]
  <2>5. y \in SlotType
    BY <1>0 DEF Idle, SlotType, Running, Reasons
  <2>6. /\ y.pc = "lock" /\ y.key = Key(a) /\ y.base = rec /\ y.now = 0 /\ y.asked = 0
        /\ y.ver = None /\ y.prior = None
    BY DEF Idle
  <2>7. y.met = FALSE
    BY DEF Idle
  <2>8. \/ /\ act' = [act EXCEPT ![a] = x] /\ UNCHANGED background
        \/ \E b \in {s \in Backgrounds : act[s].pc = "idle"} :
             /\ act' = [act EXCEPT ![a] = x, ![b] = y]
             /\ background' = [background EXCEPT ![Key(a)] = b]
    BY <1>2, Zenon DEF AnswerStale
  <2>. HIDE DEF x, y
  <2>9. CASE act' = [act EXCEPT ![a] = x] /\ UNCHANGED background
    <3>1. /\ act' \in [Slots -> SlotType] /\ act'[a] = x
          /\ \A s \in Slots : s # a => act'[s] = act[s]
      BY <2>2, <2>9 DEF RefreshTypes
    <3>2. Moves(a, "done") /\ Replies(a, rec.ver, "refresh_started")
      BY <2>3, <2>4, <3>1, Zenon DEF Moves, Replies
    <3>3. background' \in [Keys -> Backgrounds \cup {None}]
      BY <2>9 DEF RefreshTypes
    <3>. QED BY <1>2, <2>1, <3>2, <3>3 DEF Decides, AnswerStale
  <2>10. ASSUME NEW b \in {s \in Backgrounds : act[s].pc = "idle"},
                act' = [act EXCEPT ![a] = x, ![b] = y],
                background' = [background EXCEPT ![Key(a)] = b]
         PROVE  Decides(a, rec) /\ background' \in [Keys -> Backgrounds \cup {None}]
    <3>0. b \in Slots /\ b # a /\ act[b].pc = "idle"
      BY DEF Slots
    <3>1. /\ act' \in [Slots -> SlotType] /\ act'[a] = x /\ act'[b] = y
          /\ \A s \in Slots \ {a, b} : act'[s] = act[s]
      BY <2>2, <2>5, <2>10, <3>0 DEF RefreshTypes
    <3>2. Starts(a, b, rec)
      BY <2>3, <2>6, <2>7, <3>0, <3>1 DEF Starts
    <3>3. Replies(a, rec.ver, "refresh_started")
      BY <2>3, <2>4, <3>1, Zenon DEF Replies
    <3>4. background' \in [Keys -> Backgrounds \cup {None}]
      BY <2>10, <1>0 DEF RefreshTypes
    <3>. QED BY <1>2, <2>1, <3>0, <3>2, <3>3, <3>4 DEF Decides, AnswerStale
  <2>. QED BY <2>8, <2>9, <2>10
<1>3. CASE MustRefresh(a, rec, snap)
  BY <1>3, ToLockEffect DEF MustRefresh, Decides, RefreshTypes
<1>. QED BY <1>1, <1>2, <1>3 DEF Decide

\* store.get, and what follows.
LEMMA GetRecordEffect ==
  ASSUME RefreshTypes, NEW a \in Slots, GetRecord(a)
  PROVE  /\ Drops /\ background' \in [Keys -> Backgrounds \cup {None}]
         /\ \/ /\ Moves(a, "refused") /\ Remembers(a) /\ UNCHANGED holder
               /\ act'[a].base = act[a].base
            \/ /\ Moves(a, "target") /\ Remembers(a) /\ UNCHANGED holder
               /\ act'[a].base = Live(Key(a))
            \/ Decides(a, Live(Key(a)))
<1>0. /\ act[a] \in SlotType /\ Key(a) \in Keys /\ act[a].pc = "get"
      /\ Live(Key(a)) \in Record \cup {None}
  BY LiveTypes DEF RefreshTypes, GetRecord, LiveType
<1>1. Drops
  BY WithoutDrops DEF GetRecord, Read
<1>2. CASE Goto(a, "refused") /\ UNCHANGED <<holder, background>>
  <2>. DEFINE x == [act[a] EXCEPT !.pc = "refused"]
  <2>1. /\ x \in SlotType /\ x.pc = "refused" /\ x.key = Key(a) /\ x.asked = act[a].asked
        /\ x.base = act[a].base /\ x.now = act[a].now /\ x.prior = act[a].prior
    BY <1>0 DEF SlotType, Key, Running
  <2>2. x.met = act[a].met
    BY <1>0 DEF SlotType
  <2>3. act' = [act EXCEPT ![a] = x]
    BY <1>2 DEF Goto
  <2>. HIDE DEF x
  <2>4. act' \in [Slots -> SlotType] /\ act'[a] = x /\ \A s \in Slots : s # a => act'[s] = act[s]
    BY <2>1, <2>3 DEF RefreshTypes
  <2>5. Moves(a, "refused") /\ Remembers(a) /\ act'[a].base = act[a].base
    BY <2>1, <2>2, <2>4, Zenon DEF Moves, Remembers
  <2>. QED BY <1>1, <1>2, <2>5 DEF RefreshTypes
<1>3. CASE act' = [act EXCEPT ![a].pc = "target", ![a].base = Live(Key(a))]
           /\ UNCHANGED <<holder, background>>
  <2>. DEFINE x == [act[a] EXCEPT !.pc = "target", !.base = Live(Key(a))]
  <2>1. /\ x \in SlotType /\ x.pc = "target" /\ x.key = Key(a) /\ x.asked = act[a].asked
        /\ x.base = Live(Key(a)) /\ x.now = act[a].now /\ x.prior = act[a].prior
    BY <1>0 DEF SlotType, Key, Running
  <2>2. x.met = act[a].met
    BY <1>0 DEF SlotType
  <2>3. act' = [act EXCEPT ![a] = x]
    BY <1>3
  <2>. HIDE DEF x
  <2>4. act' \in [Slots -> SlotType] /\ act'[a] = x /\ \A s \in Slots : s # a => act'[s] = act[s]
    BY <2>1, <2>3 DEF RefreshTypes
  <2>5. Moves(a, "target") /\ Remembers(a) /\ act'[a].base = Live(Key(a))
    BY <2>1, <2>2, <2>4, Zenon DEF Moves, Remembers
  <2>. QED BY <1>1, <1>3, <2>5 DEF RefreshTypes
<1>4. CASE Decide(a, Live(Key(a)), None)
  BY <1>0, <1>1, <1>4, DecideEffect
<1>. QED BY <1>2, <1>3, <1>4 DEF GetRecord

\* A record whose final address is refused is deleted and fetched anew.
LEMMA DeleteRefusedEffect ==
  ASSUME RefreshTypes, NEW a \in Slots, DeleteRefused(a)
  PROVE  Drops /\ Moves(a, "lock") /\ Remembers(a) /\ act'[a].base = None
BY WithoutDrops, ToLockEffect DEF DeleteRefused, Delete

\* A watch reads its target before it decides.
LEMMA GetTargetEffect ==
  ASSUME RefreshTypes, NEW a \in Slots, GetTarget(a)
  PROVE  /\ Drops /\ Decides(a, act[a].base)
         /\ background' \in [Keys -> Backgrounds \cup {None}]
<1>1. Drops
  BY WithoutDrops DEF GetTarget, Read
<1>2. act[a].base \in Record \cup {None} /\ act[a].pc = "target"
  BY DEF RefreshTypes, SlotType, GetTarget
<1>. QED BY <1>1, <1>2, DecideEffect DEF GetTarget

\* The other fields of a task that waits, fetches or stores.
Carries(a) == act'[a].base = act[a].base /\ act'[a].kind = act[a].kind

\* A refresh begins when its task has the lock, and is dated then.
LEMMA AcquireEffect ==
  ASSUME RefreshTypes, NEW a \in Slots, Acquire(a)
  PROVE  /\ Moves(a, "latest") /\ Carries(a) /\ act'[a].now = clock
         /\ act'[a].prior = act[a].prior /\ act'[a].met = act[a].met
<1>. DEFINE x == [act[a] EXCEPT !.pc = "latest", !.now = clock]
<1>0. act[a] \in SlotType /\ clock \in Nat
  BY DEF RefreshTypes
<1>1. /\ x \in SlotType /\ x.pc = "latest" /\ x.key = Key(a) /\ x.asked = act[a].asked
      /\ x.base = act[a].base /\ x.now = clock /\ x.prior = act[a].prior /\ x.kind = act[a].kind
  BY <1>0 DEF SlotType, Key, Running, Holding
<1>2. x.met = act[a].met
  BY <1>0 DEF SlotType
<1>3. act' = [act EXCEPT ![a] = x]
  BY DEF Acquire
<1>. HIDE DEF x
<1>4. act' \in [Slots -> SlotType] /\ act'[a] = x /\ \A s \in Slots : s # a => act'[s] = act[s]
  BY <1>1, <1>3 DEF RefreshTypes
<1>. QED BY <1>1, <1>2, <1>4, Zenon DEF Moves, Carries

\* A refresh that finds a newer record joins it; another goes on to the fetch.
LEMMA ReadLatestEffect ==
  ASSUME RefreshTypes, NEW a \in Slots, ReadLatest(a)
  PROVE  /\ Drops
         /\ \/ /\ IsNewer(Live(Key(a)), act[a].base) /\ Replies(a, Live(Key(a)).ver, "coalesced")
               /\ \/ Moves(a, "watch") /\ UNCHANGED holder
                  \/ Moves(a, Final(a)) /\ LeavesLock(a)
            \/ /\ Moves(a, "fetch") /\ Remembers(a) /\ UNCHANGED holder
               /\ act'[a].base = IF Live(Key(a)) = None THEN act[a].base ELSE Live(Key(a))
<1>. DEFINE latest == Live(Key(a))
<1>0. /\ act[a] \in SlotType /\ Key(a) \in Keys /\ act[a].pc = "latest"
      /\ latest \in Record \cup {None}
  BY LiveTypes DEF RefreshTypes, ReadLatest, LiveType
<1>1. Drops
  BY WithoutDrops DEF ReadLatest, Read
<1>2. CASE IsNewer(latest, act[a].base)
  <2>1. latest.ver \in Versions \cup {None}
    BY <1>0, <1>2 DEF IsNewer, Record
  <2>2. CASE Conclude(a, Answered(a, latest.ver, "coalesced"))
    <3>1. Moves(a, Final(a)) /\ Replies(a, latest.ver, "coalesced") /\ LeavesLock(a)
      BY <2>1, <2>2, ConcludeReply DEF Reasons
    <3>. QED BY <1>1, <1>2, <3>1
  <2>3. CASE /\ act' = [act EXCEPT ![a] =
                          [Answered(a, latest.ver, "coalesced") EXCEPT !.pc = "watch"]]
             /\ UNCHANGED holder
    <3>. DEFINE x == [Answered(a, latest.ver, "coalesced") EXCEPT !.pc = "watch"]
    <3>1. x \in SlotType
      BY <1>0, <2>1, AnsweredType DEF Reasons, Running, Holding
    <3>2. /\ x.pc = "watch" /\ x.key = Key(a) /\ x.asked = act[a].asked
          /\ x.ver = latest.ver /\ x.reason = "coalesced" /\ x.prior = None /\ x.now = 0
          /\ x.base = act[a].base
      BY DEF Answered
    <3>3. x.met = act[a].met
      BY DEF Answered
    <3>4. act' = [act EXCEPT ![a] = x]
      BY <2>3
    <3>. HIDE DEF x
    <3>5. act' \in [Slots -> SlotType] /\ act'[a] = x /\ \A s \in Slots : s # a => act'[s] = act[s]
      BY <3>1, <3>4 DEF RefreshTypes
    <3>6. Moves(a, "watch") /\ Replies(a, latest.ver, "coalesced")
      BY <3>2, <3>3, <3>5 DEF Moves, Replies
    <3>. QED BY <1>1, <1>2, <2>3, <3>6
  <2>. QED BY <1>2, <2>2, <2>3 DEF ReadLatest
<1>3. CASE ~IsNewer(latest, act[a].base)
  <2>. DEFINE b == IF latest = None THEN act[a].base ELSE latest
              x == [act[a] EXCEPT !.pc = "fetch", !.base = b]
  <2>1. act' = [act EXCEPT ![a] = x] /\ UNCHANGED holder
    BY <1>3 DEF ReadLatest
  <2>2. b \in Record \cup {None}
    BY <1>0 DEF SlotType
  <2>. HIDE DEF b
  <2>3. /\ x \in SlotType /\ x.pc = "fetch" /\ x.key = Key(a) /\ x.asked = act[a].asked
        /\ x.base = b /\ x.now = act[a].now /\ x.prior = act[a].prior
    BY <1>0, <2>2 DEF SlotType, Key, Running, Holding
  <2>4. x.met = act[a].met
    BY <1>0 DEF SlotType
  <2>. HIDE DEF x
  <2>5. act' \in [Slots -> SlotType] /\ act'[a] = x /\ \A s \in Slots : s # a => act'[s] = act[s]
    BY <2>1, <2>3 DEF RefreshTypes
  <2>6. Moves(a, "fetch") /\ Remembers(a) /\ act'[a].base = b
    BY <2>3, <2>4, <2>5, Zenon DEF Moves, Remembers
  <2>. QED BY <1>1, <2>1, <2>6 DEF b
<1>. QED BY <1>2, <1>3

\* One fetch: a 304, content, or a failure.
LEMMA FetchPageEffect ==
  ASSUME RefreshTypes, NEW a \in Slots, FetchPage(a)
  PROVE  /\ UNCHANGED cacheVars
         /\ \/ /\ act[a].base # None /\ act[a].base.ver = site[Key(a)]
               /\ Moves(a, "touch") /\ Remembers(a) /\ Carries(a)
               /\ act'[a].ver = site[Key(a)] /\ UNCHANGED <<holder, fullAt>>
            \/ /\ Moves(a, IF Watches(a) THEN "prior" ELSE "store") /\ Remembers(a) /\ Carries(a)
               /\ act'[a].ver = site[Key(a)] /\ UNCHANGED holder
               /\ fullAt' = [fullAt EXCEPT ![Key(a)] = Max({fullAt[Key(a)], act[a].now})]
            \/ /\ Watches(a) /\ Moves(a, "prior") /\ Remembers(a) /\ Carries(a)
               /\ act'[a].ver = None /\ UNCHANGED <<holder, fullAt>>
            \/ Silent(a) /\ LeavesLock(a) /\ UNCHANGED fullAt
<1>0. /\ act[a] \in SlotType /\ Key(a) \in Keys /\ act[a].pc = "fetch"
      /\ site[Key(a)] \in Versions \cup {None}
  BY DEF RefreshTypes, FetchPage
<1>1. ASSUME NEW pc \in Running, NEW v \in Versions \cup {None},
             act' = [act EXCEPT ![a].pc = pc, ![a].ver = v]
      PROVE  Moves(a, pc) /\ Remembers(a) /\ Carries(a) /\ act'[a].ver = v
  <2>. DEFINE x == [act[a] EXCEPT !.pc = pc, !.ver = v]
  <2>1. /\ x \in SlotType /\ x.pc = pc /\ x.key = Key(a) /\ x.asked = act[a].asked
        /\ x.base = act[a].base /\ x.now = act[a].now /\ x.prior = act[a].prior
        /\ x.kind = act[a].kind /\ x.ver = v
    BY <1>0 DEF SlotType, Key
  <2>2. x.met = act[a].met
    BY <1>0 DEF SlotType
  <2>3. act' = [act EXCEPT ![a] = x]
    BY <1>1
  <2>. HIDE DEF x
  <2>4. act' \in [Slots -> SlotType] /\ act'[a] = x /\ \A s \in Slots : s # a => act'[s] = act[s]
    BY <2>1, <2>3 DEF RefreshTypes
  <2>. QED BY <2>1, <2>2, <2>4, Zenon DEF Moves, Remembers, Carries
<1>2. "touch" \in Running /\ "prior" \in Running /\ "store" \in Running
  BY DEF Running, Holding
<1>3. CASE /\ act[a].base # None /\ act[a].base.ver = site[Key(a)]
           /\ act' = [act EXCEPT ![a].pc = "touch", ![a].ver = site[Key(a)]]
           /\ UNCHANGED <<holder, fullAt>>
  <2>1. Moves(a, "touch") /\ Remembers(a) /\ Carries(a) /\ act'[a].ver = site[Key(a)]
    BY <1>0, <1>1, <1>2, <1>3
  <2>. QED BY <1>3, <2>1 DEF FetchPage
<1>4. CASE /\ act' = [act EXCEPT ![a].pc = IF Watches(a) THEN "prior" ELSE "store",
                                 ![a].ver = site[Key(a)]]
           /\ fullAt' = [fullAt EXCEPT ![Key(a)] = Max({fullAt[Key(a)], act[a].now})]
           /\ UNCHANGED holder
  <2>. DEFINE pc == IF Watches(a) THEN "prior" ELSE "store"
  <2>0. pc \in Running
    BY <1>2
  <2>. HIDE DEF pc
  <2>1. Moves(a, pc) /\ Remembers(a) /\ Carries(a) /\ act'[a].ver = site[Key(a)]
    BY <1>0, <1>1, <2>0, <1>4 DEF pc
  <2>. QED BY <1>4, <2>1 DEF FetchPage, pc
<1>5. CASE /\ Watches(a) /\ act' = [act EXCEPT ![a].pc = "prior", ![a].ver = None]
           /\ UNCHANGED <<holder, fullAt>>
  <2>1. Moves(a, "prior") /\ Remembers(a) /\ Carries(a) /\ act'[a].ver = None
    BY <1>1, <1>2, <1>5
  <2>. QED BY <1>5, <2>1 DEF FetchPage
<1>6. CASE Conclude(a, Unanswered(a)) /\ UNCHANGED fullAt
  BY <1>6, ConcludeNoReply DEF FetchPage
<1>. QED BY <1>3, <1>4, <1>5, <1>6 DEF FetchPage

\* _persist_refresh of a watch reads what it saw before and evaluates.
LEMMA ReadPriorEffect ==
  ASSUME RefreshTypes, NEW a \in Slots, ReadPrior(a)
  PROVE  /\ Drops
         /\ \/ Silent(a) /\ LeavesLock(a)
            \/ /\ act[a].ver # None /\ UNCHANGED holder
               /\ Moves(a, "store") /\ Carries(a)
               /\ act'[a].now = act[a].now /\ act'[a].ver = act[a].ver
               /\ act'[a].prior = PriorTarget(a)
               /\ act'[a].met = Met(PriorTarget(a), Sight(act[a].ver))
<1>0. /\ act[a] \in SlotType /\ Key(a) \in Keys /\ act[a].pc = "prior"
      /\ LiveTarget(Key(a)) \in Snapshot \cup {None}
  BY LiveTypes DEF RefreshTypes, ReadPrior, LiveType
<1>1. Drops
  BY WithoutDrops DEF ReadPrior, Read
<1>2. CASE act[a].ver = None
  BY <1>1, <1>2, ConcludeNoReply DEF ReadPrior
<1>3. CASE act[a].ver # None
  <2>. DEFINE p == PriorTarget(a)
              m == Met(PriorTarget(a), Sight(act[a].ver))
              x == [act[a] EXCEPT !.pc = "store", !.prior = p, !.met = m]
  <2>1. act' = [act EXCEPT ![a] = x] /\ UNCHANGED holder
    BY <1>3 DEF ReadPrior
  <2>2. p \in Found \cup {None}
    BY <1>0 DEF PriorTarget, Baseline, Snapshot
  <2>3. m \in BOOLEAN
    BY Zenon DEF Met
  <2>. HIDE DEF p, m
  <2>4. x \in SlotType
    BY <1>0, <2>2, <2>3 DEF SlotType, Running, Holding
  <2>5. /\ x.pc = "store" /\ x.key = Key(a) /\ x.asked = act[a].asked
        /\ x.base = act[a].base /\ x.now = act[a].now /\ x.prior = p
        /\ x.kind = act[a].kind /\ x.ver = act[a].ver /\ x.met = m
    BY <1>0 DEF SlotType, Key
  <2>. HIDE DEF x
  <2>6. act' \in [Slots -> SlotType] /\ act'[a] = x /\ \A s \in Slots : s # a => act'[s] = act[s]
    BY <2>1, <2>4 DEF RefreshTypes
  <2>7. /\ Moves(a, "store") /\ Carries(a)
        /\ act'[a].now = act[a].now /\ act'[a].ver = act[a].ver
        /\ act'[a].prior = p /\ act'[a].met = m
    BY <2>5, <2>6, Zenon DEF Moves, Carries
  <2>. QED BY <1>1, <1>3, <2>1, <2>7, Zenon DEF p, m
<1>. QED BY <1>2, <1>3

\* The put of a refresh writes what the task fetched.
LEMMA StoreEffect ==
  ASSUME RefreshTypes, NEW a \in Slots, Informed(a), Store(a)
  PROVE  /\ Moves(a, "wake") /\ Remembers(a) /\ Carries(a) /\ act'[a].ver = act[a].ver
         /\ act'[a].reason = IF act[a].pc = "touch" THEN "not_modified" ELSE "miss"
         /\ Writes(Written(a)) /\ records' \in [Keys -> Record \cup {None}]
<1>0. act[a] \in SlotType
  BY DEF RefreshTypes
<1>1. Writes(Written(a)) /\ records' \in [Keys -> Record \cup {None}]
  BY WrittenType, CommitWrites DEF Store
<1>. DEFINE r == IF act[a].pc = "touch" THEN "not_modified" ELSE "miss"
            x == [act[a] EXCEPT !.pc = "wake", !.reason = r]
<1>2. act' = [act EXCEPT ![a] = x] /\ r \in Reasons
  BY DEF Store, Reasons
<1>. HIDE DEF r
<1>3. /\ x \in SlotType /\ x.pc = "wake" /\ x.key = Key(a) /\ x.asked = act[a].asked
      /\ x.base = act[a].base /\ x.now = act[a].now /\ x.prior = act[a].prior
      /\ x.kind = act[a].kind /\ x.ver = act[a].ver /\ x.reason = r
  BY <1>0, <1>2 DEF SlotType, Key, Running, Holding
<1>4. x.met = act[a].met
  BY <1>0 DEF SlotType
<1>. HIDE DEF x
<1>5. act' \in [Slots -> SlotType] /\ act'[a] = x /\ \A s \in Slots : s # a => act'[s] = act[s]
  BY <1>2, <1>3 DEF RefreshTypes
<1>6. Moves(a, "wake") /\ Remembers(a) /\ Carries(a) /\ act'[a].ver = act[a].ver
      /\ act'[a].reason = r
  BY <1>3, <1>4, <1>5, Zenon DEF Moves, Remembers, Carries
<1>. QED BY <1>1, <1>6 DEF r

\* After the put a task returns, or reads the target of a page that has not changed.
LEMMA WakeEffect ==
  ASSUME RefreshTypes, NEW a \in Slots, Wake(a)
  PROVE  /\ UNCHANGED cacheVars
         /\ \/ /\ Moves(a, "watch") /\ Remembers(a) /\ Carries(a) /\ UNCHANGED holder
               /\ act'[a].ver = act[a].ver /\ act'[a].reason = act[a].reason
               /\ act[a].reason = "not_modified"
            \/ /\ Moves(a, Final(a)) /\ Replies(a, act[a].ver, act[a].reason) /\ LeavesLock(a)
<1>0. act[a] \in SlotType /\ act[a].ver \in Versions \cup {None} /\ act[a].reason \in Reasons
  BY DEF RefreshTypes, SlotType
<1>1. CASE Conclude(a, Answered(a, act[a].ver, act[a].reason))
  BY <1>0, <1>1, ConcludeReply DEF Wake
<1>2. CASE Goto(a, "watch") /\ UNCHANGED holder /\ act[a].reason = "not_modified"
  <2>. DEFINE x == [act[a] EXCEPT !.pc = "watch"]
  <2>1. act' = [act EXCEPT ![a] = x]
    BY <1>2 DEF Goto
  <2>2. /\ x \in SlotType /\ x.pc = "watch" /\ x.key = Key(a) /\ x.asked = act[a].asked
        /\ x.base = act[a].base /\ x.now = act[a].now /\ x.prior = act[a].prior
        /\ x.kind = act[a].kind /\ x.ver = act[a].ver /\ x.reason = act[a].reason
    BY <1>0 DEF SlotType, Key, Running, Holding
  <2>3. x.met = act[a].met
    BY <1>0 DEF SlotType
  <2>. HIDE DEF x
  <2>4. act' \in [Slots -> SlotType] /\ act'[a] = x /\ \A s \in Slots : s # a => act'[s] = act[s]
    BY <2>1, <2>2 DEF RefreshTypes
  <2>5. Moves(a, "watch") /\ Remembers(a) /\ Carries(a) /\ act'[a].ver = act[a].ver
        /\ act'[a].reason = act[a].reason
    BY <2>2, <2>3, <2>4, Zenon DEF Moves, Remembers, Carries
  <2>. QED BY <1>2, <2>5 DEF Wake
<1>. QED BY <1>1, <1>2 DEF Wake

\* _cached_watch_result answers with the page the task has.
LEMMA ReadWatchEffect ==
  ASSUME RefreshTypes, NEW a \in Slots, ReadWatch(a)
  PROVE  /\ Drops /\ Moves(a, Final(a)) /\ Replies(a, act[a].ver, act[a].reason)
         /\ LeavesLock(a)
<1>1. act[a].ver \in Versions \cup {None} /\ act[a].reason \in Reasons
  BY DEF RefreshTypes, SlotType
<1>. QED BY <1>1, ConcludeReply, WithoutDrops DEF ReadWatch, Read

\* The done callback frees the background slot.
LEMMA FinishedEffect ==
  ASSUME RefreshTypes, NEW a \in Slots, Finished(a)
  PROVE  /\ act' \in [Slots -> SlotType] /\ act'[a] = Idle
         /\ \A s \in Slots : s # a => act'[s] = act[s]
BY IdleType DEF RefreshTypes, Finished

\* A cancelled task returns without a page.
LEMMA CancelEffect ==
  ASSUME RefreshTypes, NEW a \in Slots, Cancel(a)
  PROVE  Silent(a) /\ LeavesLock(a)
BY ConcludeNoReply DEF Cancel

\* Cancelled refreshes end without a page; nobody else moves.
LEMMA ShutdownEffect ==
  ASSUME RefreshTypes, Shutdown
  PROVE  /\ act' \in [Slots -> SlotType] /\ holder' \in [Keys -> Slots \cup {None}]
         /\ \E gone \in SUBSET Slots :
              /\ \A s \in gone : /\ act[s].pc \in Running
                                 /\ act'[s].pc = "ended" /\ act'[s].key = Key(s)
                                 /\ act'[s].ver = None /\ act'[s].base = None
                                 /\ act'[s].prior = None /\ act'[s].met = FALSE
                                 /\ act'[s].now = 0 /\ act'[s].asked = 0
              /\ \A s \in Slots \ gone : act'[s] = act[s]
              /\ \A k \in Keys : holder'[k] = IF holder[k] \in gone THEN None ELSE holder[k]
<1>. DEFINE gone == {background[k] : k \in Keys} \cap {b \in Slots : act[b].pc \in Running}
            x(s) == [Unanswered(s) EXCEPT !.pc = "ended"]
<1>1. /\ act' = [s \in Slots |-> IF s \in gone THEN x(s) ELSE act[s]]
      /\ holder' = [k \in Keys |-> IF holder[k] \in gone THEN None ELSE holder[k]]
  BY DEF Shutdown
<1>2. gone \in SUBSET Slots /\ \A s \in gone : act[s].pc \in Running
  OBVIOUS
<1>. HIDE DEF gone
<1>3. \A s \in Slots : x(s) \in SlotType
  BY UnansweredType DEF RefreshTypes
<1>4. \A s \in Slots : /\ x(s).pc = "ended" /\ x(s).key = Key(s) /\ x(s).ver = None
                       /\ x(s).base = None /\ x(s).prior = None
                       /\ x(s).now = 0 /\ x(s).asked = 0
  BY DEF Unanswered, Idle
<1>5. \A s \in Slots : x(s).met = FALSE
  BY DEF Unanswered, Idle
<1>. HIDE DEF x
<1>6. act' \in [Slots -> SlotType] /\ holder' \in [Keys -> Slots \cup {None}]
  BY <1>1, <1>3 DEF RefreshTypes
<1>7. \A s \in gone : act'[s] = x(s)
  BY <1>1, <1>2
<1>8. \A s \in Slots \ gone : act'[s] = act[s]
  BY <1>1
<1>9. \A s \in gone : /\ act'[s].pc = "ended" /\ act'[s].key = Key(s)
                      /\ act'[s].ver = None /\ act'[s].base = None /\ act'[s].prior = None
                      /\ act'[s].met = FALSE /\ act'[s].now = 0 /\ act'[s].asked = 0
  BY <1>2, <1>4, <1>5, <1>7, Zenon
<1>10. \A k \in Keys : holder'[k] = IF holder[k] \in gone THEN None ELSE holder[k]
  BY <1>1
<1>. QED BY <1>2, <1>6, <1>8, <1>9, <1>10

-----------------------------------------------------------------------------
(* What is known of a page stays known.                                    *)

\* The clock and the site's versions only go up.
Onward ==
  /\ clock' \in Nat /\ clock <= clock'
  /\ site' \in [Keys -> Versions] /\ fullAt' \in [Keys -> Nat]
  /\ since' \in [Keys -> [Versions -> Nat \cup {None}]]
  /\ \A k \in Keys, v \in Versions : v <= site'[k] => since'[k][v] \in Nat
  /\ \A k \in Keys : site[k] <= site'[k] /\ fullAt[k] <= fullAt'[k]
  /\ \A k \in Keys, v \in Versions, t \in Int :
       t <= clock /\ CurrentAt(k, v, t) => CurrentAt(k, v, t)'

\* A step that neither fetches nor changes a page.
LEMMA SameOnward ==
  ASSUME RefreshTypes, UNCHANGED siteVars, clock' \in {clock, clock + 1},
         UNCHANGED fullAt
  PROVE  Onward
<1>1. \A k \in Keys : site[k] \in Nat /\ fullAt[k] \in Nat
  BY CacheConstants DEF RefreshTypes, Versions
<1>2. clock' \in Nat /\ clock <= clock' /\ site' = site /\ since' = since /\ fullAt' = fullAt
  BY DEF RefreshTypes, siteVars
<1>3. \A k, v, t : CurrentAt(k, v, t) => CurrentAt(k, v, t)'
  BY <1>2 DEF CurrentAt
<1>. QED BY <1>1, <1>2, <1>3 DEF Onward, RefreshTypes

\* A fetch that brought content.
LEMMA FetchOnward ==
  ASSUME RefreshTypes, NEW a \in Slots, FetchPage(a)
  PROVE  Onward
<1>1. act[a].now \in Nat /\ Key(a) \in Keys /\ fullAt \in [Keys -> Nat] /\ clock \in Nat
  BY DEF RefreshTypes, SlotType, FetchPage
<1>2. UNCHANGED siteVars /\ clock' = clock
  BY DEF FetchPage
<1>3. CASE UNCHANGED fullAt
  BY <1>2, <1>3, SameOnward
<1>4. CASE fullAt' = [fullAt EXCEPT ![Key(a)] = Max({fullAt[Key(a)], act[a].now})]
  <2>1. fullAt[Key(a)] \in Nat
    BY <1>1
  <2>2. /\ Max({fullAt[Key(a)], act[a].now}) \in Nat
        /\ Max({fullAt[Key(a)], act[a].now}) >= fullAt[Key(a)]
    BY <1>1, <2>1, LaterOfTwo
  <2>3. fullAt' \in [Keys -> Nat] /\ \A k \in Keys : fullAt[k] <= fullAt'[k]
    BY <1>1, <1>4, <2>2
  <2>4. \A k \in Keys : site[k] \in Nat
    BY CacheConstants DEF RefreshTypes, Versions
  <2>5. \A k, v, t : CurrentAt(k, v, t) => CurrentAt(k, v, t)'
    BY <1>2 DEF CurrentAt, siteVars
  <2>. QED BY <1>1, <1>2, <2>3, <2>4, <2>5 DEF Onward, RefreshTypes, siteVars
<1>. QED BY <1>3, <1>4, FetchPageEffect

\* The site moves on: what was current until now is dated by the first version after it.
LEMMA PublishOnward ==
  ASSUME RefreshTypes, NEW k \in Keys, Publish(k)
  PROVE  Onward
<1>1. PICK v \in (site[k] + 1)..MaxVersion :
         /\ site' = [site EXCEPT ![k] = v]
         /\ since' = [since EXCEPT ![k] =
                        [w \in Versions |-> IF w \in (site[k] + 1)..v THEN clock ELSE since[k][w]]]
  BY DEF Publish
<1>2. /\ site \in [Keys -> Versions] /\ since \in [Keys -> [Versions -> Nat \cup {None}]]
      /\ \A l \in Keys, w \in Versions : w <= site[l] => since[l][w] \in Nat
      /\ clock \in Nat /\ clock' = clock /\ fullAt' = fullAt /\ fullAt \in [Keys -> Nat]
  BY DEF RefreshTypes, Publish
<1>3. /\ MaxVersion \in Nat /\ Versions = 0..MaxVersion /\ site[k] \in Nat
      /\ v \in Versions /\ site[k] < v
  BY <1>1, <1>2, CacheConstants DEF Versions
<1>4. /\ site' \in [Keys -> Versions] /\ site'[k] = v
      /\ \A l \in Keys : l # k => site'[l] = site[l] /\ since'[l] = since[l]
  BY <1>1, <1>2, <1>3
<1>5. /\ since' \in [Keys -> [Versions -> Nat \cup {None}]]
      /\ \A w \in Versions :
           since'[k][w] = IF w \in (site[k] + 1)..v THEN clock ELSE since[k][w]
  BY <1>1, <1>2
<1>6. \A l \in Keys, w \in Versions : w <= site'[l] => since'[l][w] \in Nat
  <2>. TAKE l \in Keys, w \in Versions
  <2>1. CASE l # k
    BY <1>2, <1>4, <2>1
  <2>2. CASE l = k
    <3>. HAVE w <= site'[l]
    <3>1. CASE w <= site[k]
      BY <1>2, <1>3, <1>5, <2>2, <3>1
    <3>2. CASE ~(w <= site[k])
      <4>1. w \in (site[k] + 1)..v
        BY <1>3, <1>4, <2>2, <3>2
      <4>. QED BY <1>2, <1>5, <2>2, <4>1
    <3>. QED BY <3>1, <3>2
  <2>. QED BY <2>1, <2>2
<1>7. \A l \in Keys : site[l] <= site'[l] /\ fullAt[l] <= fullAt'[l]
  <2>. TAKE l \in Keys
  <2>1. /\ site[l] \in Nat /\ fullAt[l] \in Nat
        /\ fullAt'[l] = fullAt[l]
    BY <1>2, <1>3
  <2>2. CASE l = k
    BY <1>3, <1>4, <2>1, <2>2
  <2>3. CASE l # k
    BY <1>4, <2>1, <2>3
  <2>. QED BY <2>2, <2>3
<1>8. ASSUME NEW l \in Keys, NEW w \in Versions, NEW t \in Int, t <= clock, CurrentAt(l, w, t)
      PROVE  CurrentAt(l, w, t)'
  <2>1. CASE l # k
    BY <1>4, <1>8, <2>1 DEF CurrentAt
  <2>2. CASE l = k /\ w = site[k]
    <3>1. w + 1 \in Versions /\ w + 1 \in (site[k] + 1)..v
      BY <1>3, <2>2
    <3>2. since'[k][w + 1] = clock
      BY <1>5, <3>1
    <3>. QED BY <1>3, <1>4, <1>8, <2>2, <3>2 DEF CurrentAt
  <2>3. CASE l = k /\ w < site[k] /\ since[k][w + 1] >= t
    <3>1. w + 1 \in Versions /\ w + 1 \notin (site[k] + 1)..v /\ w < v
      BY <1>3, <2>3
    <3>2. since'[k][w + 1] = since[k][w + 1]
      BY <1>5, <3>1
    <3>. QED BY <1>4, <2>3, <3>1, <3>2 DEF CurrentAt
  <2>. QED BY <1>8, <2>1, <2>2, <2>3 DEF CurrentAt
<1>. QED BY <1>2, <1>4, <1>5, <1>6, <1>7, <1>8 DEF Onward

\* So it is for every step.
LEMMA StepOnward ==
  ASSUME RefreshTypes, [Next]_vars
  PROVE  Onward
<1>1. \/ clock' \in {clock, clock + 1} /\ UNCHANGED siteVars /\ UNCHANGED fullAt
      \/ \E a \in Slots : FetchPage(a)
      \/ \E k \in Keys : Publish(k)
  <2>1. CASE UNCHANGED vars
    BY <2>1 DEF vars, siteVars
  <2>2. ASSUME NEW a \in Slots, Task(a)
        PROVE  (clock' = clock /\ UNCHANGED siteVars /\ UNCHANGED fullAt) \/ FetchPage(a)
    BY <2>2 DEF Task, Ask, FetchLive, GetRecord, DeleteRefused, GetTarget, Acquire, ReadLatest,
                ReadPrior, Store, Wake, ReadWatch, Finished, Cancel, siteVars
  <2>3. CASE Retention \/ StrayLands \/ Tick \/ Shutdown \/ \E k \in Keys : ClearUrl(k)
    BY <2>3 DEF Retention, StrayLands, Tick, Shutdown, ClearUrl, siteVars
  <2>. QED BY <2>1, <2>2, <2>3 DEF Next
<1>. QED BY <1>1, SameOnward, FetchOnward, PublishOnward

\* What was honest when it was written stays honest.
LEMMA HonestStays ==
  ASSUME RefreshTypes, Onward, NEW k \in Keys, NEW rec \in Record, Honest(k, rec)
  PROVE  Honest(k, rec)'
<1>1. /\ clock \in Nat /\ rec.fetched \in Nat /\ rec.retained \in Nat /\ rec.ver \in Versions
      /\ fullAt[k] \in Nat /\ fullAt'[k] \in Nat /\ RetentionS \in Nat
  BY CacheConstants DEF RefreshTypes, Record, Onward
<1>2. /\ rec.fetched <= clock /\ rec.expires = rec.fetched + TtlS
      /\ rec.retained <= fullAt[k] + RetentionS /\ CurrentAt(k, rec.ver, rec.fetched)
  BY DEF Honest
<1>3. CurrentAt(k, rec.ver, rec.fetched)'
  BY <1>1, <1>2 DEF Onward
<1>4. rec.fetched <= clock' /\ rec.retained <= fullAt'[k] + RetentionS
  BY <1>1, <1>2 DEF Onward
<1>. QED BY <1>2, <1>3, <1>4 DEF Honest

\* A task that does not move knows what it knew.
LEMMA InformedStays ==
  ASSUME RefreshTypes, RefreshTypes', Onward, NEW a \in Slots, act'[a] = act[a], Informed(a)
  PROVE  Informed(a)'
<1>. DEFINE x == act[a]
<1>1. /\ x \in SlotType /\ x.asked \in Nat /\ x.now \in Nat /\ clock \in Nat /\ clock' \in Nat
      /\ TtlS \in Nat /\ StaleS \in Nat /\ clock <= clock'
  BY CacheConstants DEF RefreshTypes, SlotType, Onward
<1>2. x.asked <= clock' /\ x.now <= clock'
  BY <1>1 DEF Informed
<1>3. x.base # None => Key(a) \in Keys /\ Honest(x.key, x.base)'
  BY HonestStays DEF Informed, RefreshTypes, SlotType, Key
<1>4. x.pc # "idle" => Key(a) \in Keys
  BY DEF RefreshTypes
<1>5. x.pc \in {"prior", "store", "touch", "wake"} /\ x.ver # None => CurrentAt(x.key, x.ver, x.now)'
  BY <1>1, <1>4 DEF Informed, Onward, SlotType, Key
<1>6. x.pc \in {"prior", "store"} /\ x.ver # None => x.now <= fullAt'[Key(a)]
  <2>1. x.pc \in {"prior", "store"} => fullAt[Key(a)] \in Nat /\ fullAt'[Key(a)] \in Nat
                                       /\ fullAt[Key(a)] <= fullAt'[Key(a)]
    BY <1>4 DEF RefreshTypes, Onward
  <2>. QED BY <1>1, <2>1 DEF Informed
<1>7. Horizon(a) \in Int /\ Horizon(a)' = Horizon(a)
  BY <1>1 DEF Horizon, SlotType, Record
<1>8. x.pc \in {"watch", "done"} /\ x.ver # None =>
        CurrentAt(x.key, x.ver, Horizon(a))' /\ Horizon(a) <= clock'
  <2>. SUFFICES ASSUME x.pc \in {"watch", "done"}, x.ver # None
                PROVE  CurrentAt(x.key, x.ver, Horizon(a))' /\ Horizon(a) <= clock'
    OBVIOUS
  <2>1. /\ CurrentAt(x.key, x.ver, Horizon(a)) /\ Horizon(a) <= clock /\ x.ver \in Versions
        /\ x.key \in Keys
    BY <1>1, <1>4 DEF Informed, SlotType, Key
  <2>2. \A t \in Int : t <= clock /\ CurrentAt(x.key, x.ver, t) => CurrentAt(x.key, x.ver, t)'
    BY <2>1 DEF Onward
  <2>. QED BY <1>1, <1>7, <2>1, <2>2
<1>. QED BY <1>1, <1>2, <1>3, <1>5, <1>6, <1>7, <1>8 DEF Informed, Key

-----------------------------------------------------------------------------
(* Types.                                                                  *)

TaskTypes ==
  /\ act' \in [Slots -> SlotType] /\ holder' \in [Keys -> Slots \cup {None}]
  /\ background' \in [Keys -> Backgrounds \cup {None}]
  /\ \A a \in Slots : act'[a].pc # "idle" => act'[a].key \in Keys

\* A task that returns without a page has the types of a task.
LEMMA SilentTypes ==
  ASSUME RefreshTypes, NEW a \in Slots, act[a].pc # "idle", Silent(a), LeavesLock(a),
         background' \in [Keys -> Backgrounds \cup {None}]
  PROVE  TaskTypes
BY DEF RefreshTypes, Silent, LeavesLock, TaskTypes, Key

\* So has one that moves on.
LEMMA MovesTypes ==
  ASSUME RefreshTypes, NEW a \in Slots, NEW pc, act[a].pc # "idle", Moves(a, pc),
         UNCHANGED holder \/ LeavesLock(a),
         background' \in [Keys -> Backgrounds \cup {None}]
  PROVE  TaskTypes
BY DEF RefreshTypes, Moves, LeavesLock, TaskTypes, Key

\* And one that decides on a record, with the background task it may start.
LEMMA DecidesTypes ==
  ASSUME RefreshTypes, NEW a \in Slots, NEW rec, act[a].pc # "idle", Decides(a, rec),
         background' \in [Keys -> Backgrounds \cup {None}]
  PROVE  TaskTypes
<1>1. ASSUME NEW b \in Slots, Starts(a, b, rec), UNCHANGED holder
      PROVE  TaskTypes
  BY <1>1 DEF RefreshTypes, Starts, TaskTypes, Key
<1>. QED BY <1>1, MovesTypes DEF Decides

\* Every step of a task keeps the types.
LEMMA TaskStepTypes ==
  ASSUME RefreshTypes, NEW a \in Slots, Informed(a), Task(a)
  PROVE  TaskTypes /\ records' \in [Keys -> Record \cup {None}]
                   /\ targets' \in [Keys -> Snapshot \cup {None}]
<1>0. background \in [Keys -> Backgrounds \cup {None}]
  BY DEF RefreshTypes
<1>1. ASSUME NEW k \in Keys, Ask(a, k)
      PROVE  TaskTypes /\ Drops
  <2>1. UNCHANGED cacheVars /\ holder' = holder /\ background' = background
    BY <1>1 DEF Ask
  <2>2. act' \in [Slots -> SlotType] /\ \A s \in Slots : act'[s].pc # "idle" => act'[s].key \in Keys
    BY <1>1, AskEffect DEF RefreshTypes, Key
  <2>3. TaskTypes
    BY <2>1, <2>2 DEF TaskTypes, RefreshTypes
  <2>. QED BY <2>1, <2>3, SameDrops
<1>2. CASE FetchLive(a)
  <2>1. act[a].pc # "idle" /\ background' = background
    BY <1>2 DEF FetchLive
  <2>2. background' \in [Keys -> Backgrounds \cup {None}]
    BY <1>0, <2>1
  <2>3. Drops
    BY <1>2, SameDrops DEF FetchLive
  <2>. QED BY <1>2, <2>1, <2>2, <2>3, LiveEffect, SilentTypes DEF Drops
<1>3. CASE GetRecord(a)
  <2>1. act[a].pc # "idle"
    BY <1>3 DEF GetRecord
  <2>. QED BY <1>3, <2>1, GetRecordEffect, DecidesTypes, MovesTypes DEF Drops
<1>4. CASE DeleteRefused(a)
  <2>1. act[a].pc # "idle" /\ background' = background /\ holder' = holder
    BY <1>4 DEF DeleteRefused
  <2>2. background' \in [Keys -> Backgrounds \cup {None}]
    BY <1>0, <2>1
  <2>. QED BY <1>4, <2>1, <2>2, DeleteRefusedEffect, MovesTypes DEF Drops
<1>5. CASE GetTarget(a)
  <2>1. act[a].pc # "idle"
    BY <1>5 DEF GetTarget
  <2>. QED BY <1>5, <2>1, GetTargetEffect, DecidesTypes DEF Drops
<1>6. CASE Acquire(a)
  <2>1. /\ UNCHANGED cacheVars /\ background' = background /\ act[a].pc # "idle"
        /\ holder' = [holder EXCEPT ![Key(a)] = a]
    BY <1>6 DEF Acquire
  <2>2. holder' \in [Keys -> Slots \cup {None}]
    BY <2>1 DEF RefreshTypes
  <2>3. Moves(a, "latest")
    BY <1>6, AcquireEffect
  <2>4. act' \in [Slots -> SlotType] /\ \A s \in Slots : act'[s].pc # "idle" => act'[s].key \in Keys
    BY <2>1, <2>3 DEF RefreshTypes, Key, Moves
  <2>5. TaskTypes
    BY <1>0, <2>1, <2>2, <2>4 DEF TaskTypes
  <2>. QED BY <2>1, <2>5, SameDrops DEF Drops
<1>7. CASE ReadLatest(a)
  <2>1. act[a].pc # "idle" /\ background' = background
    BY <1>7 DEF ReadLatest
  <2>2. background' \in [Keys -> Backgrounds \cup {None}]
    BY <1>0, <2>1
  <2>3. Drops
    BY <1>7, ReadLatestEffect
  <2>. QED BY <1>7, <2>1, <2>2, <2>3, ReadLatestEffect, MovesTypes DEF Drops
<1>8. CASE FetchPage(a)
  <2>1. act[a].pc # "idle" /\ background' = background
    BY <1>8 DEF FetchPage
  <2>2. background' \in [Keys -> Backgrounds \cup {None}]
    BY <1>0, <2>1
  <2>3. Drops
    BY <1>8, SameDrops DEF FetchPage
  <2>. QED BY <1>8, <2>1, <2>2, <2>3, FetchPageEffect, MovesTypes, SilentTypes DEF Drops
<1>9. CASE ReadPrior(a)
  <2>1. act[a].pc # "idle" /\ background' = background
    BY <1>9 DEF ReadPrior
  <2>2. background' \in [Keys -> Backgrounds \cup {None}]
    BY <1>0, <2>1
  <2>3. Drops
    BY <1>9, ReadPriorEffect
  <2>. QED BY <1>9, <2>1, <2>2, <2>3, ReadPriorEffect, MovesTypes, SilentTypes DEF Drops
<1>10. CASE Store(a)
  <2>1. act[a].pc # "idle" /\ background' = background /\ holder' = holder
    BY <1>10 DEF Store
  <2>2. background' \in [Keys -> Backgrounds \cup {None}]
    BY <1>0, <2>1
  <2>3. Moves(a, "wake") /\ records' \in [Keys -> Record \cup {None}] /\ Writes(Written(a))
    BY <1>10, StoreEffect
  <2>4. targets' \in [Keys -> Snapshot \cup {None}]
    BY <2>3 DEF Writes
  <2>5. TaskTypes
    BY <2>1, <2>2, <2>3, MovesTypes
  <2>. QED BY <2>3, <2>4, <2>5
<1>11. CASE Wake(a)
  <2>1. act[a].pc # "idle" /\ background' = background
    BY <1>11 DEF Wake
  <2>2. background' \in [Keys -> Backgrounds \cup {None}]
    BY <1>0, <2>1
  <2>3. Drops
    BY <1>11, SameDrops DEF Wake
  <2>. QED BY <1>11, <2>1, <2>2, <2>3, WakeEffect, MovesTypes DEF Drops
<1>12. CASE ReadWatch(a)
  <2>1. act[a].pc # "idle" /\ background' = background
    BY <1>12 DEF ReadWatch
  <2>2. background' \in [Keys -> Backgrounds \cup {None}]
    BY <1>0, <2>1
  <2>3. Drops
    BY <1>12, ReadWatchEffect
  <2>. QED BY <1>12, <2>1, <2>2, <2>3, ReadWatchEffect, MovesTypes DEF Drops
<1>13. CASE Finished(a)
  <2>1. /\ UNCHANGED cacheVars /\ holder' = holder /\ background' = [background EXCEPT ![Key(a)] = None]
    BY <1>13 DEF Finished
  <2>2. act'[a].pc = "idle"
    BY <1>13, FinishedEffect DEF Idle
  <2>3. act' \in [Slots -> SlotType] /\ \A s \in Slots : act'[s].pc # "idle" => act'[s].key \in Keys
    BY <1>13, <2>2, FinishedEffect DEF RefreshTypes, Key
  <2>4. background' \in [Keys -> Backgrounds \cup {None}]
    BY <2>1, <1>0
  <2>. QED BY <2>1, <2>3, <2>4, SameDrops DEF TaskTypes, RefreshTypes, Drops
<1>14. CASE Cancel(a)
  <2>1. act[a].pc # "idle" /\ background' = background
    BY <1>14 DEF Cancel, Running, Holding
  <2>2. background' \in [Keys -> Backgrounds \cup {None}]
    BY <1>0, <2>1
  <2>3. Drops
    BY <1>14, SameDrops DEF Cancel
  <2>. QED BY <1>14, <2>1, <2>2, <2>3, CancelEffect, SilentTypes DEF Drops
<1>. QED BY <1>1, <1>2, <1>3, <1>4, <1>5, <1>6, <1>7, <1>8, <1>9, <1>10, <1>11, <1>12, <1>13,
            <1>14 DEF Task, Drops

\* The retention task reads a deadline or none.
LEMMA DeadlineType ==
  ASSUME RefreshTypes, ReadNextRetention
  PROVE  /\ due' \in Nat \cup {None}
         /\ \A k \in Keys : records[k] # None => due' # None /\ due' <= records[k].retained
<1>. DEFINE kept == {k \in Keys : records[k] # None}
            S == {records[k].retained : k \in kept}
<1>1. due' = IF kept = {} THEN None ELSE Min(S)
  BY DEF ReadNextRetention
<1>2. S \in SUBSET Nat
  BY DEF RefreshTypes, Record
<1>3. CASE kept = {}
  BY <1>1, <1>3
<1>4. CASE kept # {}
  <2>1. S # {}
    BY <1>4
  <2>2. Min(S) \in Nat /\ \A y \in S : Min(S) <= y
    BY <1>2, <2>1, EarliestOfMany
  <2>3. \A k \in Keys : records[k] # None => records[k].retained \in S
    OBVIOUS
  <2>4. Min(S) # None
    BY <2>2, CacheConstants
  <2>. QED BY <1>1, <1>4, <2>2, <2>3, <2>4
<1>. QED BY <1>3, <1>4

\* Where no task moves their types stay.
LEMMA SameTasks ==
  ASSUME RefreshTypes, UNCHANGED taskVars
  PROVE  TaskTypes
<1>1. act' = act /\ holder' = holder /\ background' = background
  BY DEF taskVars
<1>. QED BY <1>1 DEF RefreshTypes, TaskTypes, Key

\* Every step keeps the types.
LEMMA TypesStep ==
  ASSUME RefreshTypes, \A a \in Slots : Informed(a), [Next]_vars
  PROVE  RefreshTypes'
<1>0. Onward
  BY StepOnward
<1>. DEFINE StrayType == stray' \in [key : Keys, rec : Record, snap : Snapshot \cup {None}] \cup {None}
            Rest == /\ records' \in [Keys -> Record \cup {None}]
                    /\ targets' \in [Keys -> Snapshot \cup {None}]
                    /\ TaskTypes /\ due' \in Nat \cup {None} /\ StrayType
<1>s. SUFFICES Rest
  BY <1>0 DEF RefreshTypes, Onward, TaskTypes, Key
<1>t. stray \in [key : Keys, rec : Record, snap : Snapshot \cup {None}] \cup {None}
      /\ due \in Nat \cup {None}
  BY DEF RefreshTypes
<1>1. CASE UNCHANGED vars
  <2>1. UNCHANGED cacheVars /\ UNCHANGED taskVars /\ stray' = stray /\ due' = due
    BY <1>1 DEF vars, loopVars, faultVars
  <2>. QED BY <1>t, <2>1, SameTasks, SameDrops DEF Drops
<1>2. ASSUME NEW a \in Slots, Task(a)
      PROVE  Rest
  <2>1. /\ TaskTypes /\ records' \in [Keys -> Record \cup {None}]
        /\ targets' \in [Keys -> Snapshot \cup {None}]
    BY <1>2, TaskStepTypes
  <2>2. due' = due
    BY <1>2 DEF Task, Ask, FetchLive, GetRecord, DeleteRefused, GetTarget, Acquire, ReadLatest,
                FetchPage, ReadPrior, Store, Wake, ReadWatch, Finished, Cancel, loopVars
  <2>3. stray' = stray \/ (Cancel(a) /\ act[a].pc \in {"store", "touch"} /\ stray' = Written(a))
    BY <1>2 DEF Task, Ask, FetchLive, GetRecord, DeleteRefused, GetTarget, Acquire, ReadLatest,
                FetchPage, ReadPrior, Store, Wake, ReadWatch, Finished, Cancel, faultVars
  <2>4. StrayType
    BY <1>t, <2>3, WrittenType
  <2>. QED BY <1>t, <2>1, <2>2, <2>4
<1>3. CASE UNCHANGED <<taskVars, stray, due>> /\ Drops
  <2>1. TaskTypes
    BY <1>3, SameTasks
  <2>. QED BY <1>t, <1>3, <2>1 DEF Drops
<1>4. ASSUME NEW k \in Keys, ClearUrl(k) \/ Publish(k)
      PROVE  UNCHANGED <<taskVars, stray, due>> /\ Drops
  BY <1>4, WithoutDrops, SameDrops DEF ClearUrl, Publish, Delete, loopVars, faultVars
<1>5. CASE Tick
  <2>1. UNCHANGED <<taskVars, stray, due>> /\ UNCHANGED cacheVars
    BY <1>5 DEF Tick, loopVars, faultVars
  <2>. QED BY <1>3, <2>1, SameDrops
<1>6. CASE Retention
  <2>1. UNCHANGED <<taskVars, stray>>
    BY <1>6 DEF Retention, faultVars
  <2>2. Drops
    BY <1>6, WithoutDrops, SameDrops DEF Retention, RetentionTask, ReadNextRetention, WokenByPut,
       DeadlineReached, CleanUp, ClearChanged, Cleanup
  <2>3. due' \in Nat \cup {None}
    <3>1. CASE ReadNextRetention
      BY <3>1, DeadlineType
    <3>2. CASE WokenByPut \/ DeadlineReached \/ CleanUp \/ ClearChanged
      BY <1>t, <3>2 DEF WokenByPut, DeadlineReached, CleanUp, ClearChanged
    <3>. QED BY <1>6, <3>1, <3>2 DEF Retention, RetentionTask
  <2>. QED BY <1>t, <2>1, <2>2, <2>3, SameTasks DEF Drops
<1>7. CASE StrayLands
  <2>1. UNCHANGED <<taskVars, due>> /\ stray' = None
    BY <1>7 DEF StrayLands, loopVars
  <2>2. /\ records' \in [Keys -> Record \cup {None}]
        /\ targets' \in [Keys -> Snapshot \cup {None}]
    <3>1. stray \in [key : Keys, rec : Record, snap : Snapshot \cup {None}] /\ Commit(stray)
      BY <1>7 DEF StrayLands, RefreshTypes
    <3>. QED BY <3>1, CommitWrites DEF Writes
  <2>. QED BY <1>t, <2>1, <2>2, SameTasks
<1>8. CASE Shutdown
  <2>1. UNCHANGED <<cacheVars, due, stray>> /\ background' = [k \in Keys |-> None]
    BY <1>8 DEF Shutdown, loopVars, faultVars
  <2>2. act' \in [Slots -> SlotType] /\ holder' \in [Keys -> Slots \cup {None}]
    BY <1>8, ShutdownEffect
  <2>3. \A s \in Slots : act'[s].pc # "idle" => act'[s].key \in Keys
    <3>1. PICK gone \in SUBSET Slots :
            /\ \A s \in gone : act[s].pc \in Running /\ act'[s].key = Key(s)
            /\ \A s \in Slots \ gone : act'[s] = act[s]
      BY <1>8, ShutdownEffect
    <3>. QED BY <3>1 DEF RefreshTypes, Key, Running, Holding
  <2>4. background' \in [Keys -> Backgrounds \cup {None}]
    BY <2>1
  <2>5. TaskTypes
    BY <2>2, <2>3, <2>4 DEF TaskTypes
  <2>. QED BY <1>t, <2>1, <2>5, SameDrops DEF Drops
<1>. HIDE DEF Rest
<1>. QED BY <1>1, <1>2, <1>3, <1>4, <1>5, <1>6, <1>7, <1>8, Zenon DEF Next

-----------------------------------------------------------------------------
(* The locks.                                                              *)

\* Nobody enters or leaves a lock.
SameHolders ==
  /\ holder' = holder
  /\ \A s \in Slots : /\ act'[s].pc \in Holding <=> act[s].pc \in Holding
                      /\ act[s].pc \in Holding => act'[s].key = act[s].key

\* Where nobody enters or leaves, every lock keeps its holder.
LEMMA NobodyEnters ==
  ASSUME RefreshTypes, Exclusive, SameHolders
  PROVE  Exclusive'
<1>1. \A k \in Keys : holder[k] \in Slots \cup {None}
  BY DEF RefreshTypes
<1>. QED BY <1>1 DEF Exclusive, SameHolders, Key

\* A task that leaves its lock leaves it free.
LEMMA OneLeaves ==
  ASSUME RefreshTypes, Exclusive, NEW a \in Slots, LeavesLock(a), act'[a].pc \notin Holding,
         \A s \in Slots : s # a => act'[s] = act[s]
  PROVE  Exclusive'
<1>1. \A k \in Keys : holder[k] \in Slots \cup {None}
  BY DEF RefreshTypes
<1>2. \A s \in Slots : act[s].pc \in Holding => Key(s) \in Keys
  BY DEF RefreshTypes, Holding
<1>. QED BY <1>1, <1>2 DEF Exclusive, LeavesLock, Key

\* A task that moves on inside or outside its lock.
LEMMA MoveKeeps ==
  ASSUME NEW a \in Slots, NEW pc, Moves(a, pc), UNCHANGED holder,
         pc \in Holding <=> act[a].pc \in Holding
  PROVE  SameHolders
BY DEF Moves, SameHolders, Key

\* Deciding on a record happens outside the locks.
LEMMA DecidesLocks ==
  ASSUME RefreshTypes, Exclusive, NEW a \in Slots, NEW rec, act[a].pc \in {"get", "target"},
         Decides(a, rec)
  PROVE  Exclusive'
<1>1. ASSUME Moves(a, Final(a)), LeavesLock(a)
      PROVE  Exclusive'
  BY <1>1, OneLeaves DEF Moves, Final, Holding
<1>2. ASSUME UNCHANGED holder, Moves(a, "done") \/ Moves(a, "lock")
      PROVE  Exclusive'
  BY <1>2, MoveKeeps, NobodyEnters DEF Holding
<1>3. ASSUME NEW b \in Slots, Starts(a, b, rec), UNCHANGED holder
      PROVE  Exclusive'
  <2>1. SameHolders
    BY <1>3 DEF Starts, SameHolders, Holding, Key
  <2>. QED BY <2>1, NobodyEnters
<1>. QED BY <1>1, <1>2, <1>3, Zenon DEF Decides

\* Every step of a task keeps each lock with the task inside it.
LEMMA TaskLocks ==
  ASSUME RefreshTypes, Exclusive, NEW a \in Slots, Informed(a), Task(a)
  PROVE  Exclusive'
<1>h. "done" \notin Holding /\ "ended" \notin Holding /\ Final(a) \notin Holding
  BY DEF Holding, Final
<1>m. ASSUME Moves(a, Final(a)), LeavesLock(a)
      PROVE  Exclusive'
  BY <1>h, <1>m, OneLeaves DEF Moves
<1>s. ASSUME Silent(a), LeavesLock(a)
      PROVE  Exclusive'
  BY <1>h, <1>s, OneLeaves DEF Silent
<1>1. ASSUME NEW k \in Keys, Ask(a, k)
      PROVE  Exclusive'
  <2>1. act[a].pc = "idle" /\ holder' = holder
    BY <1>1 DEF Ask
  <2>2. act'[a].pc \in {"get", "live"} /\ \A s \in Slots : s # a => act'[s] = act[s]
    BY <1>1, AskEffect
  <2>3. SameHolders
    BY <2>1, <2>2 DEF SameHolders, Holding
  <2>. QED BY <2>3, NobodyEnters
<1>2. CASE FetchLive(a)
  BY <1>2, <1>s, LiveEffect
<1>3. CASE GetRecord(a)
  <2>1. act[a].pc = "get"
    BY <1>3 DEF GetRecord
  <2>2. ASSUME Moves(a, "refused") \/ Moves(a, "target"), UNCHANGED holder
        PROVE  Exclusive'
    BY <2>1, <2>2, MoveKeeps, NobodyEnters DEF Holding
  <2>. QED BY <1>3, <2>1, <2>2, GetRecordEffect, DecidesLocks
<1>4. CASE DeleteRefused(a)
  <2>1. act[a].pc = "refused" /\ UNCHANGED holder
    BY <1>4 DEF DeleteRefused
  <2>. QED BY <1>4, <2>1, DeleteRefusedEffect, MoveKeeps, NobodyEnters DEF Holding
<1>5. CASE GetTarget(a)
  <2>1. act[a].pc = "target"
    BY <1>5 DEF GetTarget
  <2>. QED BY <1>5, <2>1, GetTargetEffect, DecidesLocks
<1>6. CASE Acquire(a)
  <2>1. act[a].pc = "lock" /\ holder[Key(a)] = None /\ holder' = [holder EXCEPT ![Key(a)] = a]
    BY <1>6 DEF Acquire
  <2>2. Moves(a, "latest")
    BY <1>6, AcquireEffect
  <2>3. /\ holder \in [Keys -> Slots \cup {None}] /\ Key(a) \in Keys
        /\ \A s \in Slots : act[s].pc \in Holding => Key(s) \in Keys
    BY <2>1 DEF RefreshTypes, Holding
  <2>4. a # None /\ \A s \in Slots : s # None
    BY FetchConstants DEF Slots
  <2>5. \A s \in Slots : act'[s].key = act[s].key
    BY <2>2 DEF Moves, Key
  <2>6. \A k \in Keys : holder'[k] # None => act'[holder'[k]].pc \in Holding /\ Key(holder'[k]) = k
    BY <2>1, <2>2, <2>3 DEF Moves, Exclusive, Holding
  <2>7. \A s \in Slots : act'[s].pc \in Holding => holder'[Key(s)] = s
    BY <2>1, <2>2, <2>3, <2>4 DEF Moves, Exclusive, Holding
  <2>. QED BY <2>1, <2>3, <2>5, <2>6, <2>7 DEF Exclusive, Key
<1>7. CASE ReadLatest(a)
  <2>1. act[a].pc = "latest"
    BY <1>7 DEF ReadLatest
  <2>2. ASSUME Moves(a, "watch") \/ Moves(a, "fetch"), UNCHANGED holder
        PROVE  Exclusive'
    BY <2>1, <2>2, MoveKeeps, NobodyEnters DEF Holding
  <2>. QED BY <1>7, <1>m, <2>2, ReadLatestEffect
<1>8. CASE FetchPage(a)
  <2>1. act[a].pc = "fetch"
    BY <1>8 DEF FetchPage
  <2>2. ASSUME Moves(a, "touch") \/ Moves(a, "prior") \/ Moves(a, "store"), UNCHANGED holder
        PROVE  Exclusive'
    BY <2>1, <2>2, MoveKeeps, NobodyEnters DEF Holding
  <2>. QED BY <1>8, <1>s, <2>2, FetchPageEffect
<1>9. CASE ReadPrior(a)
  <2>1. act[a].pc = "prior"
    BY <1>9 DEF ReadPrior
  <2>2. ASSUME Moves(a, "store"), UNCHANGED holder
        PROVE  Exclusive'
    BY <2>1, <2>2, MoveKeeps, NobodyEnters DEF Holding
  <2>. QED BY <1>9, <1>s, <2>2, ReadPriorEffect
<1>10. CASE Store(a)
  <2>1. act[a].pc \in {"store", "touch"} /\ UNCHANGED holder
    BY <1>10 DEF Store
  <2>. QED BY <1>10, <2>1, StoreEffect, MoveKeeps, NobodyEnters DEF Holding
<1>11. CASE Wake(a)
  <2>1. act[a].pc = "wake"
    BY <1>11 DEF Wake
  <2>2. ASSUME Moves(a, "watch"), UNCHANGED holder
        PROVE  Exclusive'
    BY <2>1, <2>2, MoveKeeps, NobodyEnters DEF Holding
  <2>. QED BY <1>11, <1>m, <2>2, WakeEffect
<1>12. CASE ReadWatch(a)
  BY <1>12, <1>m, ReadWatchEffect
<1>13. CASE Finished(a)
  <2>1. act[a].pc = "ended" /\ holder' = holder
    BY <1>13 DEF Finished
  <2>2. act'[a].pc = "idle" /\ \A s \in Slots : s # a => act'[s] = act[s]
    BY <1>13, FinishedEffect DEF Idle
  <2>3. SameHolders
    BY <2>1, <2>2 DEF SameHolders, Holding
  <2>. QED BY <2>3, NobodyEnters
<1>14. CASE Cancel(a)
  BY <1>14, <1>s, CancelEffect
<1>. QED BY <1>1, <1>2, <1>3, <1>4, <1>5, <1>6, <1>7, <1>8, <1>9, <1>10, <1>11, <1>12, <1>13,
            <1>14 DEF Task

\* So does every step.
LEMMA LockStep ==
  ASSUME RefreshTypes, Exclusive, \A a \in Slots : Informed(a), [Next]_vars
  PROVE  Exclusive'
<1>1. CASE UNCHANGED taskVars
  <2>1. SameHolders
    BY <1>1 DEF taskVars, SameHolders
  <2>. QED BY <2>1, NobodyEnters
<1>2. ASSUME NEW a \in Slots, Task(a)
      PROVE  Exclusive'
  BY <1>2, TaskLocks
<1>3. CASE Shutdown
  <2>1. PICK gone \in SUBSET Slots :
          /\ \A s \in gone : act'[s].pc = "ended"
          /\ \A s \in Slots \ gone : act'[s] = act[s]
          /\ \A k \in Keys : holder'[k] = IF holder[k] \in gone THEN None ELSE holder[k]
    BY <1>3, ShutdownEffect
  <2>2. /\ \A k \in Keys : holder[k] \in Slots \cup {None}
        /\ \A s \in Slots : act[s].pc \in Holding => Key(s) \in Keys
    BY DEF RefreshTypes, Holding
  <2>3. \A k \in Keys : holder'[k] # None => act'[holder'[k]].pc \in Holding /\ act'[holder'[k]].key = k
    BY <2>1, <2>2 DEF Exclusive, Key
  <2>4. \A s \in Slots : act'[s].pc \in Holding => holder'[act'[s].key] = s
    BY <2>1, <2>2 DEF Exclusive, Key, Holding
  <2>. QED BY <2>3, <2>4 DEF Exclusive, Key
<1>4. UNCHANGED taskVars \/ (\E a \in Slots : Task(a)) \/ Shutdown
  BY DEF Next, vars, ClearUrl, Publish, Retention, StrayLands, Tick
<1>. QED BY <1>1, <1>2, <1>3, <1>4

-----------------------------------------------------------------------------
(* What a task knows.                                                      *)

\* What was current at a time was current at any earlier one.
LEMMA CurrentEarlier ==
  ASSUME RefreshTypes, NEW k \in Keys, NEW v \in Versions, NEW t \in Int, NEW u \in Int,
         u <= t, CurrentAt(k, v, t)
  PROVE  CurrentAt(k, v, u)
<1>1. CASE v = site[k]
  BY <1>1 DEF CurrentAt
<1>2. CASE v < site[k] /\ since[k][v + 1] >= t
  <2>1. site[k] \in 0..MaxVersion /\ v \in 0..MaxVersion /\ MaxVersion \in Nat
    BY CacheConstants DEF RefreshTypes, Versions
  <2>2. v + 1 \in Versions /\ v + 1 <= site[k]
    BY <1>2, <2>1 DEF Versions
  <2>3. since[k][v + 1] \in Nat
    BY <2>2 DEF RefreshTypes
  <2>. QED BY <1>2, <2>3 DEF CurrentAt
<1>. QED BY <1>1, <1>2 DEF CurrentAt

\* A record a task reads is as honest as the cache.
LEMMA LiveHonest ==
  ASSUME Kept, NEW k \in Keys, Live(k) # None
  PROVE  Honest(k, Live(k)) /\ Live(k) = records[k]
BY DEF Kept, Live

\* The horizon of an answer for reason r.
HorizonOf(a, r) ==
  CASE r = "ttl" -> act[a].asked - TtlS + 1
    [] r = "refresh_started" -> act[a].asked - TtlS - StaleS + 1
    [] r = "coalesced" -> IF act[a].base = None THEN 0 ELSE act[a].base.fetched + 1
    [] OTHER -> act[a].asked

\* A task without a page claims nothing.
LEMMA SilentInformed ==
  ASSUME RefreshTypes, Onward, NEW a \in Slots, Silent(a)
  PROVE  Informed(a)'
<1>1. /\ act'[a].now = 0 /\ act'[a].asked = 0 /\ act'[a].ver = None /\ act'[a].base = None
      /\ act'[a].pc \in {"done", "ended"}
  BY DEF Silent, Final
<1>2. clock' \in Nat
  BY DEF Onward
<1>. QED BY <1>1, <1>2 DEF Informed, Holding

\* A task on its way to the fetch knows its dates and the record it read.
LEMMA WaitInformed ==
  ASSUME RefreshTypes, Onward, NEW a \in Slots, act[a].pc # "idle", Informed(a),
         NEW pc \in {"refused", "target", "lock", "latest", "fetch"}, Moves(a, pc),
         act'[a].now \in {act[a].now, clock},
         pc = "target" => act'[a].now = act[a].asked,
         pc \in {"latest", "fetch"} => act[a].asked <= act'[a].now,
         NEW rec \in Record \cup {None}, act'[a].base = rec,
         rec # None => Honest(Key(a), rec)
  PROVE  Informed(a)'
<1>1. /\ act'[a].pc = pc /\ act'[a].key = Key(a) /\ act'[a].asked = act[a].asked
      /\ Key(a) \in Keys
  BY DEF Moves, RefreshTypes
<1>2. /\ act[a].asked \in Nat /\ act[a].now \in Nat /\ clock \in Nat /\ clock' \in Nat
      /\ clock <= clock' /\ act[a].asked <= clock /\ act[a].now <= clock
  BY DEF RefreshTypes, SlotType, Onward, Informed
<1>3. act'[a].asked <= clock' /\ act'[a].now <= clock'
  BY <1>1, <1>2
<1>4. PICK k \in Keys : k = Key(a)
  BY <1>1
<1>5. rec # None => Honest(k, rec)'
  BY <1>4, HonestStays
<1>6. act'[a].key = k
  BY <1>1, <1>4
<1>. QED BY <1>1, <1>3, <1>5, <1>6 DEF Informed, Holding, Key, Honest, CurrentAt

\* An answer is as current as the rule it is given under demands.
LEMMA ReplyInformed ==
  ASSUME RefreshTypes, Onward, NEW a \in Slots, act[a].pc # "idle", Informed(a),
         NEW pc \in {"done", "ended", "watch"}, act'[a].pc = pc, act'[a].key = Key(a),
         act'[a].asked = act[a].asked,
         NEW v \in Versions, NEW r \in Reasons, Replies(a, v, r),
         CurrentAt(Key(a), v, HorizonOf(a, r)), HorizonOf(a, r) <= clock
  PROVE  Informed(a)'
<1>1. /\ act'[a].now = 0 /\ act'[a].ver = v /\ act'[a].reason = r
      /\ act'[a].base = IF r = "coalesced" THEN act[a].base ELSE None
  BY DEF Replies
<1>2. /\ act[a].asked \in Nat /\ act[a].base \in Record \cup {None}
      /\ TtlS \in Nat /\ StaleS \in Nat /\ clock \in Nat /\ clock' \in Nat /\ clock <= clock'
      /\ act[a].asked <= clock /\ Key(a) \in Keys
  BY CacheConstants DEF RefreshTypes, SlotType, Onward, Informed
<1>3. HorizonOf(a, r) \in Int
  BY <1>2 DEF HorizonOf, Record
<1>4. PICK k \in Keys, h \in Int : k = Key(a) /\ h = HorizonOf(a, r)
  BY <1>2, <1>3
<1>5. Horizon(a)' = h
  BY <1>1, <1>4 DEF Horizon, HorizonOf
<1>6. CurrentAt(k, v, h)' /\ h <= clock'
  BY <1>2, <1>4 DEF Onward
<1>7. PICK b \in Record \cup {None} : b = act'[a].base
  BY <1>1, <1>2
<1>8. b # None => Honest(k, b)'
  BY <1>1, <1>2, <1>4, <1>7, HonestStays DEF Informed
<1>9. /\ act'[a].key = k /\ act'[a].asked <= clock' /\ act'[a].now <= clock'
      /\ act'[a].base = b /\ act'[a].ver = v
  BY <1>1, <1>2, <1>4, <1>7
<1>10. act'[a].pc \notin (Holding \ {"watch"}) \cup {"get", "target"}
  BY DEF Holding
<1>. QED BY <1>5, <1>6, <1>8, <1>9, <1>10 DEF Informed, Holding, Key, Honest, CurrentAt

\* A task on its way to the cache carries what it fetched.
LEMMA HoldInformed ==
  ASSUME RefreshTypes, Onward, NEW a \in Slots, act[a].pc # "idle", Informed(a),
         act[a].asked <= act[a].now,
         NEW pc \in {"prior", "store", "touch", "wake"}, Moves(a, pc),
         act'[a].now = act[a].now, act'[a].base = act[a].base,
         NEW v \in Versions \cup {None}, act'[a].ver = v,
         v # None => CurrentAt(Key(a), v, act[a].now),
         pc # "prior" => v # None,
         pc \in {"prior", "store"} /\ v # None => act[a].now <= fullAt'[Key(a)],
         pc = "touch" => act[a].base # None /\ act[a].base.ver = v,
         pc = "wake" => act'[a].reason \in {"miss", "not_modified"}
  PROVE  Informed(a)'
<1>1. /\ act'[a].pc = pc /\ act'[a].key = Key(a) /\ act'[a].asked = act[a].asked
      /\ Key(a) \in Keys
  BY DEF Moves, RefreshTypes
<1>2. /\ act[a].asked \in Nat /\ act[a].now \in Nat /\ clock \in Nat /\ clock' \in Nat
      /\ clock <= clock' /\ act[a].asked <= clock /\ act[a].now <= clock
      /\ act[a].base \in Record \cup {None}
  BY DEF RefreshTypes, SlotType, Onward, Informed
<1>3. PICK k \in Keys, n \in Nat, b \in Record \cup {None} :
        k = Key(a) /\ n = act[a].now /\ b = act[a].base
  BY <1>1, <1>2
<1>4. v # None => CurrentAt(k, v, n)'
  BY <1>2, <1>3 DEF Onward
<1>5. b # None => Honest(k, b)'
  BY <1>3, HonestStays DEF Informed
<1>6. /\ act'[a].key = k /\ act'[a].now = n /\ act'[a].base = b
      /\ act'[a].asked <= clock' /\ n <= clock' /\ act'[a].asked <= n
  BY <1>1, <1>2, <1>3
<1>7. pc \in {"prior", "store"} /\ v # None => n <= fullAt'[k]
  BY <1>3
<1>. QED BY <1>1, <1>3, <1>4, <1>5, <1>6, <1>7 DEF Informed, Holding, Key, Honest, CurrentAt

\* Answers from the cache, fresh or stale.
LEMMA DecidesInformed ==
  ASSUME RefreshTypes, RefreshTypes', Onward, NEW a \in Slots, act[a].pc \in {"get", "target"},
         \A s \in Slots : Informed(s),
         NEW rec \in Record \cup {None}, rec # None => Honest(Key(a), rec), Decides(a, rec)
  PROVE  \A s \in Slots : Informed(s)'
<1>1. /\ act[a].asked \in Nat /\ act[a].now = act[a].asked /\ act[a].asked <= clock
      /\ clock \in Nat /\ Key(a) \in Keys /\ Informed(a)
      /\ TtlS \in Nat \ {0} /\ StaleS \in Nat
  BY CacheConstants DEF RefreshTypes, SlotType, Informed
<1>2. ASSUME NEW w \in {0, StaleS}, NEW r \in {"ttl", "refresh_started"},
             w = IF r = "ttl" THEN 0 ELSE StaleS,
             rec # None, act[a].now < rec.expires + w
      PROVE  /\ rec.ver \in Versions /\ r \in Reasons
             /\ CurrentAt(Key(a), rec.ver, HorizonOf(a, r)) /\ HorizonOf(a, r) <= clock
  <2>1. /\ rec.ver \in Versions /\ rec.fetched \in Nat /\ rec.expires = rec.fetched + TtlS
        /\ CurrentAt(Key(a), rec.ver, rec.fetched)
    BY <1>2 DEF Record, Honest
  <2>2. HorizonOf(a, r) = act[a].asked - TtlS - w + 1
    BY <1>1, <1>2 DEF HorizonOf
  <2>3. /\ HorizonOf(a, r) \in Int /\ HorizonOf(a, r) <= rec.fetched
        /\ HorizonOf(a, r) <= clock
    BY <1>1, <1>2, <2>1, <2>2
  <2>. QED BY <1>1, <2>1, <2>3, CurrentEarlier DEF Reasons
<1>3. ASSUME rec # None, act[a].now < rec.expires, Moves(a, Final(a)), Replies(a, rec.ver, "ttl")
      PROVE  \A s \in Slots : Informed(s)'
  <2>1. rec.expires \in Nat
    BY <1>3 DEF Record
  <2>2. /\ rec.ver \in Versions /\ "ttl" \in Reasons
        /\ CurrentAt(Key(a), rec.ver, HorizonOf(a, "ttl")) /\ HorizonOf(a, "ttl") <= clock
    BY <1>2, <1>3, <2>1
  <2>3. Informed(a)'
    BY <1>1, <1>3, <2>2, ReplyInformed DEF Moves, Final
  <2>. QED BY <1>3, <2>3, InformedStays DEF Moves
<1>4. ASSUME rec # None, act[a].now < rec.expires + StaleS, Replies(a, rec.ver, "refresh_started"),
             Moves(a, "done") \/ \E b \in Slots : Starts(a, b, rec)
      PROVE  \A s \in Slots : Informed(s)'
  <2>1. /\ rec.ver \in Versions /\ "refresh_started" \in Reasons
        /\ CurrentAt(Key(a), rec.ver, HorizonOf(a, "refresh_started"))
        /\ HorizonOf(a, "refresh_started") <= clock
    BY <1>2, <1>4
  <2>2. /\ act'[a].pc = "done" /\ act'[a].key = Key(a) /\ act'[a].asked = act[a].asked
    BY <1>4 DEF Moves, Starts
  <2>3. Informed(a)'
    BY <1>1, <1>4, <2>1, <2>2, ReplyInformed
  <2>4. CASE Moves(a, "done")
    BY <2>3, <2>4, InformedStays DEF Moves
  <2>5. ASSUME NEW b \in Slots, Starts(a, b, rec)
        PROVE  \A s \in Slots : Informed(s)'
    <3>1. PICK k \in Keys : k = Key(a)
      BY <1>1
    <3>2. Honest(k, rec)'
      BY <1>4, <3>1, HonestStays
    <3>3. /\ act'[b].pc = "lock" /\ act'[b].key = k /\ act'[b].base = rec
          /\ act'[b].now = 0 /\ act'[b].asked = 0 /\ clock' \in Nat
      BY <2>5, <3>1 DEF Starts, Onward
    <3>4. Informed(b)'
      BY <3>2, <3>3 DEF Informed, Holding, Key, Honest, CurrentAt
    <3>. QED BY <2>3, <2>5, <3>4, InformedStays DEF Starts
  <2>. QED BY <1>4, <2>4, <2>5
<1>5. ASSUME Moves(a, "lock"), Remembers(a), act'[a].base = rec
      PROVE  \A s \in Slots : Informed(s)'
  <2>1. act[a].pc # "idle" /\ act'[a].now = act[a].now
    BY <1>5 DEF Remembers
  <2>2. Informed(a)'
    BY <1>1, <1>5, <2>1, WaitInformed
  <2>. QED BY <1>5, <2>2, InformedStays DEF Moves
<1>. QED BY <1>3, <1>4, <1>5, Zenon DEF Decides

\* The way through the lock.
LEMMA TaskInforms ==
  ASSUME RefreshTypes, RefreshTypes', Onward, Kept, NEW a \in Slots,
         \A s \in Slots : Informed(s), Task(a)
  PROVE  \A s \in Slots : Informed(s)'
<1>0. Informed(a) /\ (act[a].pc # "idle" => Key(a) \in Keys)
  BY DEF RefreshTypes
<1>t. /\ act[a].asked \in Nat /\ act[a].now \in Nat /\ clock \in Nat /\ clock' \in Nat
      /\ clock <= clock' /\ act[a].asked <= clock /\ act[a].now <= clock
      /\ act[a].base \in Record \cup {None} /\ act[a].ver \in Versions \cup {None}
      /\ act[a].reason \in Reasons
  BY <1>0 DEF RefreshTypes, SlotType, Onward, Informed
<1>o. ASSUME Informed(a)', \A s \in Slots : s # a => act'[s] = act[s]
      PROVE  \A s \in Slots : Informed(s)'
  BY <1>o, InformedStays
<1>m. ASSUME NEW pc, Moves(a, pc), Informed(a)'
      PROVE  \A s \in Slots : Informed(s)'
  BY <1>m, <1>o DEF Moves
<1>s. ASSUME Silent(a)
      PROVE  \A s \in Slots : Informed(s)'
  BY <1>s, <1>o, SilentInformed DEF Silent
<1>l. ASSUME act[a].pc # "idle"
      PROVE  /\ Live(Key(a)) \in Record \cup {None}
             /\ Live(Key(a)) # None => Honest(Key(a), Live(Key(a)))
  BY <1>0, <1>l, LiveTypes, LiveHonest DEF LiveType
<1>1. ASSUME NEW k \in Keys, Ask(a, k)
      PROVE  \A s \in Slots : Informed(s)'
  <2>1. Informed(a)'
    BY <1>1, <1>t, AskEffect DEF Informed, Holding
  <2>. QED BY <1>1, <1>o, <2>1, AskEffect
<1>2. CASE FetchLive(a)
  BY <1>2, <1>s, LiveEffect
<1>3. CASE GetRecord(a)
  <2>1. act[a].pc = "get" /\ act[a].now = act[a].asked
    BY <1>0, <1>3 DEF GetRecord, Informed
  <2>2. ASSUME Moves(a, "refused"), Remembers(a), act'[a].base = act[a].base
        PROVE  \A s \in Slots : Informed(s)'
    <3>1. act[a].base # None => Honest(Key(a), act[a].base)
      BY <1>0 DEF Informed
    <3>2. Informed(a)'
      BY <1>0, <1>t, <2>1, <2>2, <3>1, WaitInformed DEF Remembers
    <3>. QED BY <1>m, <2>2, <3>2
  <2>3. ASSUME Moves(a, "target"), Remembers(a), act'[a].base = Live(Key(a))
        PROVE  \A s \in Slots : Informed(s)'
    <3>1. Informed(a)'
      BY <1>0, <1>l, <2>1, <2>3, WaitInformed DEF Remembers
    <3>. QED BY <1>m, <2>3, <3>1
  <2>4. ASSUME Decides(a, Live(Key(a)))
        PROVE  \A s \in Slots : Informed(s)'
    BY <1>l, <2>1, <2>4, DecidesInformed
  <2>. QED BY <1>3, <2>2, <2>3, <2>4, GetRecordEffect
<1>4. CASE DeleteRefused(a)
  <2>1. act[a].pc # "idle"
    BY <1>4 DEF DeleteRefused
  <2>2. Moves(a, "lock") /\ Remembers(a) /\ act'[a].base = None
    BY <1>4, DeleteRefusedEffect
  <2>3. Informed(a)'
    BY <1>0, <2>1, <2>2, WaitInformed DEF Remembers
  <2>. QED BY <1>m, <2>2, <2>3
<1>5. CASE GetTarget(a)
  <2>1. act[a].pc = "target" /\ Decides(a, act[a].base)
    BY <1>5, GetTargetEffect DEF GetTarget
  <2>2. act[a].base # None => Honest(Key(a), act[a].base)
    BY <1>0 DEF Informed
  <2>. QED BY <1>t, <2>1, <2>2, DecidesInformed
<1>6. CASE Acquire(a)
  <2>1. act[a].pc # "idle"
    BY <1>6 DEF Acquire
  <2>2. Moves(a, "latest") /\ act'[a].base = act[a].base /\ act'[a].now = clock
    BY <1>6, AcquireEffect DEF Carries
  <2>3. act[a].base # None => Honest(Key(a), act[a].base)
    BY <1>0 DEF Informed
  <2>4. Informed(a)'
    BY <1>0, <1>t, <2>1, <2>2, <2>3, WaitInformed
  <2>. QED BY <1>m, <2>2, <2>4
<1>7. CASE ReadLatest(a)
  <2>. DEFINE latest == Live(Key(a))
  <2>1. act[a].pc = "latest" /\ act[a].asked <= act[a].now
    BY <1>0, <1>7 DEF ReadLatest, Informed, Holding
  <2>2. ASSUME NEW pc \in {"done", "ended", "watch"}, Moves(a, pc),
               IsNewer(latest, act[a].base), Replies(a, latest.ver, "coalesced")
        PROVE  \A s \in Slots : Informed(s)'
    <3>1. latest \in Record /\ Honest(Key(a), latest)
      BY <1>l, <2>1, <2>2 DEF IsNewer
    <3>2. /\ latest.ver \in Versions /\ latest.fetched \in Nat /\ latest.fetched <= clock
          /\ CurrentAt(Key(a), latest.ver, latest.fetched)
      BY <3>1 DEF Honest, Record
    <3>3. /\ HorizonOf(a, "coalesced") \in Int
          /\ HorizonOf(a, "coalesced") <= latest.fetched
      BY <1>t, <2>2, <3>2 DEF HorizonOf, IsNewer, Record
    <3>4. /\ CurrentAt(Key(a), latest.ver, HorizonOf(a, "coalesced"))
          /\ HorizonOf(a, "coalesced") <= clock
      BY <1>0, <1>t, <2>1, <3>2, <3>3, CurrentEarlier
    <3>5. "coalesced" \in Reasons
      BY DEF Reasons
    <3>6. Informed(a)'
      BY <1>0, <2>1, <2>2, <3>2, <3>4, <3>5, ReplyInformed DEF Moves
    <3>. QED BY <1>m, <2>2, <3>6
  <2>3. ASSUME Moves(a, "fetch"), Remembers(a),
               act'[a].base = IF latest = None THEN act[a].base ELSE latest
        PROVE  \A s \in Slots : Informed(s)'
    <3>1. PICK rec \in Record \cup {None} : rec = IF latest = None THEN act[a].base ELSE latest
      BY <1>l, <1>t, <2>1
    <3>2. rec # None => Honest(Key(a), rec)
      BY <1>0, <1>l, <2>1, <3>1 DEF Informed
    <3>3. Informed(a)'
      BY <1>0, <2>1, <2>3, <3>1, <3>2, WaitInformed DEF Remembers
    <3>. QED BY <1>m, <2>3, <3>3
  <2>4. Final(a) \in {"done", "ended", "watch"}
    BY DEF Final
  <2>. QED BY <1>7, <2>2, <2>3, <2>4, ReadLatestEffect
<1>8. CASE FetchPage(a)
  <2>1. act[a].pc = "fetch" /\ act[a].asked <= act[a].now /\ Key(a) \in Keys
    BY <1>0, <1>8 DEF FetchPage, Informed, Holding
  <2>2. PICK v \in Versions : v = site[Key(a)]
    BY <2>1 DEF RefreshTypes
  <2>3. CurrentAt(Key(a), v, act[a].now) /\ v # None
    BY <2>2, CacheConstants DEF CurrentAt, Versions
  <2>4. ASSUME act[a].base # None, act[a].base.ver = v, Moves(a, "touch"), Remembers(a),
               Carries(a), act'[a].ver = v
        PROVE  \A s \in Slots : Informed(s)'
    <3>1. Informed(a)'
      BY <1>0, <2>1, <2>3, <2>4, HoldInformed DEF Remembers, Carries
    <3>. QED BY <1>m, <2>4, <3>1
  <2>5. ASSUME NEW pc \in {"prior", "store"}, Moves(a, pc), Remembers(a),
               Carries(a), act'[a].ver = v,
               fullAt' = [fullAt EXCEPT ![Key(a)] = Max({fullAt[Key(a)], act[a].now})]
        PROVE  \A s \in Slots : Informed(s)'
    <3>1. fullAt \in [Keys -> Nat] /\ fullAt[Key(a)] \in Nat
      BY <2>1 DEF RefreshTypes
    <3>2. act[a].now <= fullAt'[Key(a)]
      BY <1>t, <2>1, <2>5, <3>1, LaterOfTwo
    <3>3. Informed(a)'
      BY <1>0, <2>1, <2>3, <2>5, <3>2, HoldInformed DEF Remembers, Carries
    <3>. QED BY <1>m, <2>5, <3>3
  <2>6. ASSUME Moves(a, "prior"), Remembers(a), Carries(a), act'[a].ver = None
        PROVE  \A s \in Slots : Informed(s)'
    <3>1. Informed(a)'
      BY <1>0, <2>1, <2>6, HoldInformed DEF Remembers, Carries
    <3>. QED BY <1>m, <2>6, <3>1
  <2>. QED BY <1>s, <1>8, <2>2, <2>4, <2>5, <2>6, FetchPageEffect
<1>9. CASE ReadPrior(a)
  <2>1. act[a].pc = "prior" /\ act[a].asked <= act[a].now /\ Key(a) \in Keys
    BY <1>0, <1>9 DEF ReadPrior, Informed, Holding
  <2>2. ASSUME act[a].ver # None, Moves(a, "store"), Carries(a), act'[a].now = act[a].now,
               act'[a].ver = act[a].ver
        PROVE  \A s \in Slots : Informed(s)'
    <3>1. CurrentAt(Key(a), act[a].ver, act[a].now) /\ act[a].now <= fullAt[Key(a)]
      BY <1>0, <2>1, <2>2 DEF Informed
    <3>2. fullAt[Key(a)] \in Nat /\ fullAt'[Key(a)] \in Nat /\ fullAt[Key(a)] <= fullAt'[Key(a)]
      BY <2>1 DEF RefreshTypes, Onward
    <3>3. act[a].now <= fullAt'[Key(a)]
      BY <1>t, <3>1, <3>2
    <3>4. Informed(a)'
      BY <1>0, <1>t, <2>1, <2>2, <3>1, <3>3, HoldInformed DEF Carries
    <3>. QED BY <1>m, <2>2, <3>4
  <2>. QED BY <1>s, <1>9, <2>2, ReadPriorEffect
<1>10. CASE Store(a)
  <2>1. act[a].pc \in {"store", "touch"} /\ act[a].asked <= act[a].now /\ act[a].ver # None
    BY <1>0, <1>10 DEF Store, Informed, Holding
  <2>2. CurrentAt(Key(a), act[a].ver, act[a].now)
    BY <1>0, <2>1 DEF Informed
  <2>3. /\ Moves(a, "wake") /\ Remembers(a) /\ Carries(a) /\ act'[a].ver = act[a].ver
        /\ act'[a].reason \in {"miss", "not_modified"}
    BY <1>0, <1>10, StoreEffect
  <2>4. act[a].pc # "idle"
    BY <2>1
  <2>5. Informed(a)'
    BY <1>0, <1>t, <2>1, <2>2, <2>3, <2>4, HoldInformed DEF Remembers, Carries
  <2>. QED BY <1>m, <2>3, <2>5
<1>11. CASE Wake(a)
  <2>1. /\ act[a].pc = "wake" /\ act[a].asked <= act[a].now /\ act[a].ver \in Versions
        /\ act[a].reason \in {"miss", "not_modified"} /\ Key(a) \in Keys
    BY <1>0, <1>t, <1>11 DEF Wake, Informed, Holding
  <2>2. CurrentAt(Key(a), act[a].ver, act[a].now)
    BY <1>0, <2>1, CacheConstants DEF Informed, Versions
  <2>3. CurrentAt(Key(a), act[a].ver, act[a].asked)
    BY <1>t, <2>1, <2>2, CurrentEarlier
  <2>4. HorizonOf(a, act[a].reason) = act[a].asked
    BY <2>1 DEF HorizonOf
  <2>5. ASSUME Moves(a, Final(a)), Replies(a, act[a].ver, act[a].reason)
        PROVE  \A s \in Slots : Informed(s)'
    <3>1. Informed(a)'
      BY <1>0, <1>t, <2>1, <2>3, <2>4, <2>5, ReplyInformed DEF Moves, Final
    <3>. QED BY <1>m, <2>5, <3>1
  <2>6. ASSUME Moves(a, "watch"), Remembers(a), Carries(a), act'[a].ver = act[a].ver,
               act'[a].reason = act[a].reason
        PROVE  \A s \in Slots : Informed(s)'
    <3>1. PICK k \in Keys, v \in Versions, n \in Nat, b \in Record \cup {None} :
            k = Key(a) /\ v = act[a].ver /\ n = act[a].asked /\ b = act[a].base
      BY <1>t, <2>1
    <3>2. CurrentAt(k, v, n)' /\ n <= clock'
      BY <1>t, <2>3, <3>1 DEF Onward
    <3>3. b # None => Honest(k, b)'
      BY <1>0, <3>1, HonestStays DEF Informed
    <3>4. /\ act'[a].pc = "watch" /\ act'[a].key = k /\ act'[a].asked = n /\ act'[a].ver = v
          /\ act'[a].base = b /\ act'[a].now <= clock'
          /\ act'[a].reason \in {"miss", "not_modified"}
      BY <1>t, <2>1, <2>6, <3>1 DEF Moves, Remembers, Carries
    <3>5. Horizon(a)' = n
      BY <3>4 DEF Horizon
    <3>6. Informed(a)'
      BY <3>2, <3>3, <3>4, <3>5 DEF Informed, Holding, Key, Honest, CurrentAt
    <3>. QED BY <1>m, <2>6, <3>6
  <2>. QED BY <1>11, <2>5, <2>6, WakeEffect
<1>12. CASE ReadWatch(a)
  <2>1. act[a].pc = "watch" /\ Key(a) \in Keys
    BY <1>0, <1>12 DEF ReadWatch
  <2>2. Moves(a, Final(a)) /\ Replies(a, act[a].ver, act[a].reason)
    BY <1>12, ReadWatchEffect
  <2>3. CASE act[a].ver # None
    <3>1. CurrentAt(Key(a), act[a].ver, Horizon(a)) /\ Horizon(a) <= clock
      BY <1>0, <2>1, <2>3 DEF Informed
    <3>2. HorizonOf(a, act[a].reason) = Horizon(a)
      BY DEF HorizonOf, Horizon
    <3>3. act[a].ver \in Versions
      BY <1>t, <2>3
    <3>4. Informed(a)'
      BY <1>0, <1>t, <2>1, <2>2, <3>1, <3>2, <3>3, ReplyInformed DEF Moves, Final
    <3>. QED BY <1>m, <2>2, <3>4
  <2>4. CASE act[a].ver = None
    <3>1. PICK k \in Keys, b \in Record \cup {None} : k = Key(a) /\ b = act[a].base
      BY <1>t, <2>1
    <3>2. b # None => Honest(k, b)'
      BY <1>0, <3>1, HonestStays DEF Informed
    <3>3. /\ act'[a].pc \in {"done", "ended"} /\ act'[a].key = k /\ act'[a].ver = None
          /\ act'[a].base \in {None, b} /\ act'[a].now = 0 /\ act'[a].asked <= clock'
      BY <1>t, <2>2, <2>4, <3>1 DEF Moves, Replies, Final
    <3>4. Informed(a)'
      BY <1>t, <3>2, <3>3 DEF Informed, Holding, Key, Honest, CurrentAt
    <3>. QED BY <1>m, <2>2, <3>4
  <2>. QED BY <2>3, <2>4
<1>13. CASE Finished(a)
  <2>1. /\ act'[a].pc = "idle" /\ act'[a].base = None /\ act'[a].ver = None
        /\ act'[a].now = 0 /\ act'[a].asked = 0
    BY <1>13, FinishedEffect DEF Idle
  <2>2. Informed(a)'
    BY <1>t, <2>1 DEF Informed, Holding
  <2>. QED BY <1>13, <1>o, <2>2, FinishedEffect
<1>14. CASE Cancel(a)
  BY <1>14, <1>s, CancelEffect
<1>. QED BY <1>1, <1>2, <1>3, <1>4, <1>5, <1>6, <1>7, <1>8, <1>9, <1>10, <1>11, <1>12, <1>13,
            <1>14 DEF Task

\* Every step leaves every task as informed as it claims to be.
LEMMA InformStep ==
  ASSUME RefreshTypes, RefreshTypes', Kept, \A s \in Slots : Informed(s), [Next]_vars
  PROVE  \A s \in Slots : Informed(s)'
<1>0. Onward
  BY StepOnward
<1>1. CASE UNCHANGED taskVars
  <2>1. act' = act
    BY <1>1 DEF taskVars
  <2>. QED BY <1>0, <2>1, InformedStays
<1>2. ASSUME NEW a \in Slots, Task(a)
      PROVE  \A s \in Slots : Informed(s)'
  BY <1>0, <1>2, TaskInforms
<1>3. CASE Shutdown
  <2>1. PICK gone \in SUBSET Slots :
          /\ \A s \in gone : /\ act'[s].pc = "ended" /\ act'[s].ver = None
                             /\ act'[s].base = None /\ act'[s].now = 0 /\ act'[s].asked = 0
          /\ \A s \in Slots \ gone : act'[s] = act[s]
    BY <1>3, ShutdownEffect
  <2>2. clock' \in Nat
    BY <1>0 DEF Onward
  <2>3. \A s \in gone : Informed(s)'
    BY <2>1, <2>2 DEF Informed, Holding
  <2>. QED BY <1>0, <2>1, <2>3, InformedStays
<1>4. UNCHANGED taskVars \/ (\E a \in Slots : Task(a)) \/ Shutdown
  BY DEF Next, vars, ClearUrl, Publish, Retention, StrayLands, Tick
<1>. QED BY <1>1, <1>2, <1>3, <1>4

-----------------------------------------------------------------------------
(* The cache.                                                              *)

\* What a put is about to write is dated and retained as it should be.
LEMMA WrittenHonest ==
  ASSUME RefreshTypes, NEW a \in Slots, act[a].pc \in {"store", "touch"}, Informed(a)
  PROVE  /\ Written(a).key = Key(a) /\ Written(a).rec \in Record
         /\ Honest(Key(a), Written(a).rec) /\ Written(a).rec.ver = act[a].ver
<1>1. /\ act[a] \in SlotType /\ Key(a) \in Keys /\ act[a].now \in Nat /\ act[a].now <= clock
      /\ act[a].ver \in Versions /\ act[a].ver # None
      /\ CurrentAt(Key(a), act[a].ver, act[a].now)
  BY DEF RefreshTypes, SlotType, Informed
<1>2. fullAt[Key(a)] \in Nat /\ RetentionS \in Nat /\ TtlS \in Nat
  BY <1>1, CacheConstants DEF RefreshTypes
<1>3. CASE act[a].pc = "store"
  <2>1. Written(a).rec = FreshRecord(act[a].ver, act[a].now) /\ Written(a).key = Key(a)
    BY <1>3, WrittenType
  <2>2. act[a].now <= fullAt[Key(a)]
    BY <1>1, <1>3 DEF Informed
  <2>3. FreshRecord(act[a].ver, act[a].now) \in Record
    BY <1>1, RecordTypes
  <2>4. Honest(Key(a), FreshRecord(act[a].ver, act[a].now))
    BY <1>1, <1>2, <2>2 DEF Honest, FreshRecord
  <2>. QED BY <2>1, <2>3, <2>4 DEF FreshRecord
<1>4. CASE act[a].pc = "touch"
  <2>1. /\ Written(a).rec = Revalidated(act[a].base, act[a].now) /\ Written(a).key = Key(a)
    BY <1>4, WrittenType
  <2>2. /\ act[a].base \in Record /\ act[a].base.ver = act[a].ver
        /\ act[a].base.retained <= fullAt[Key(a)] + RetentionS
    BY <1>1, <1>4 DEF Informed, Honest, SlotType
  <2>3. PICK r : r = Revalidated(act[a].base, act[a].now)
    OBVIOUS
  <2>4. r \in Record /\ r.ver = act[a].ver /\ r.fetched = act[a].now
        /\ r.expires = act[a].now + TtlS /\ r.retained = act[a].base.retained
    BY <1>1, <2>2, <2>3, RecordTypes DEF Revalidated, Record
  <2>5. Honest(Key(a), r)
    BY <1>1, <2>2, <2>4 DEF Honest
  <2>. QED BY <2>1, <2>3, <2>4, <2>5
<1>. QED BY <1>3, <1>4

\* Dropping pages keeps the rest honest.
LEMMA DropsKept ==
  ASSUME RefreshTypes, Onward, Kept, Drops,
         stray' = stray \/ stray' = None, unwoken => unwoken'
  PROVE  Kept'
<1>1. \A k \in Keys : records'[k] # None => records'[k] \in Record /\ Honest(k, records'[k])
  BY DEF Drops, Kept
<1>2. ASSUME NEW k \in Keys, records'[k] # None
      PROVE  Honest(k, records[k])'
  <2>1. PICK r \in Record : r = records'[k]
    BY <1>1, <1>2
  <2>2. Honest(k, r)'
    BY <1>1, <1>2, <2>1, HonestStays
  <2>. QED BY <2>1, <2>2 DEF Honest, CurrentAt
<1>3. ASSUME stray' # None
      PROVE  unwoken' /\ Honest(stray.key, stray.rec)'
  <2>1. stray # None /\ stray' = stray
    BY <1>3
  <2>2. PICK k \in Keys, r \in Record : k = stray.key /\ r = stray.rec
    BY <2>1 DEF RefreshTypes
  <2>3. Honest(k, r)'
    BY <2>1, <2>2, HonestStays DEF Kept
  <2>4. stray'.key = k /\ stray'.rec = r /\ unwoken'
    BY <2>1, <2>2 DEF Kept
  <2>. QED BY <2>3, <2>4 DEF Honest, CurrentAt
<1>. QED BY <1>2, <1>3 DEF Kept

\* So does writing an honest record.
LEMMA WritesKept ==
  ASSUME RefreshTypes, Onward, Kept, NEW w, w.key \in Keys, w.rec \in Record,
         Honest(w.key, w.rec), Writes(w), stray' = stray \/ stray' = None, unwoken' = unwoken
  PROVE  Kept'
<1>1. \A k \in Keys : records'[k] # None => records'[k] \in Record /\ Honest(k, records'[k])
  BY DEF Writes, Kept, RefreshTypes
<1>2. ASSUME NEW k \in Keys, records'[k] # None
      PROVE  Honest(k, records[k])'
  <2>1. PICK r \in Record : r = records'[k]
    BY <1>1, <1>2
  <2>2. Honest(k, r)'
    BY <1>1, <1>2, <2>1, HonestStays
  <2>. QED BY <2>1, <2>2 DEF Honest, CurrentAt
<1>3. ASSUME stray' # None
      PROVE  unwoken' /\ Honest(stray.key, stray.rec)'
  <2>1. stray # None /\ stray' = stray
    BY <1>3
  <2>2. PICK k \in Keys, r \in Record : k = stray.key /\ r = stray.rec
    BY <2>1 DEF RefreshTypes
  <2>3. Honest(k, r)'
    BY <2>1, <2>2, HonestStays DEF Kept
  <2>4. stray'.key = k /\ stray'.rec = r /\ unwoken'
    BY <2>1, <2>2 DEF Kept
  <2>. QED BY <2>3, <2>4 DEF Honest, CurrentAt
<1>. QED BY <1>2, <1>3 DEF Kept

\* Every step but a put, its abandonment or its late arrival only drops pages.
LEMMA CacheCases ==
  ASSUME RefreshTypes, [Next]_vars
  PROVE  \/ Drops /\ UNCHANGED <<stray, unwoken>>
         \/ \E a \in Slots : Store(a) \/ Cancel(a)
         \/ StrayLands
<1>1. CASE UNCHANGED vars
  <2>1. UNCHANGED cacheVars /\ UNCHANGED <<stray, unwoken>>
    BY <1>1 DEF vars, faultVars
  <2>. QED BY <2>1, SameDrops
<1>2. ASSUME NEW a \in Slots, Task(a), ~Store(a), ~Cancel(a)
      PROVE  Drops /\ UNCHANGED <<stray, unwoken>>
  <2>1. UNCHANGED <<stray, unwoken>>
    BY <1>2 DEF Task, Ask, FetchLive, GetRecord, DeleteRefused, GetTarget, Acquire, ReadLatest,
                FetchPage, ReadPrior, Wake, ReadWatch, Finished, faultVars
  <2>2. UNCHANGED cacheVars \/ (\E ks : Without(ks))
    BY <1>2 DEF Task, Ask, FetchLive, GetRecord, DeleteRefused, GetTarget, Acquire, ReadLatest,
                FetchPage, ReadPrior, Wake, ReadWatch, Finished, Read, Delete
  <2>. QED BY <2>1, <2>2, SameDrops, WithoutDrops
<1>3. ASSUME NEW k \in Keys, ClearUrl(k) \/ Publish(k)
      PROVE  Drops /\ UNCHANGED <<stray, unwoken>>
  BY <1>3, WithoutDrops, SameDrops DEF ClearUrl, Publish, Delete, faultVars
<1>4. CASE Tick \/ Shutdown
  <2>1. UNCHANGED cacheVars /\ UNCHANGED <<stray, unwoken>>
    BY <1>4 DEF Tick, Shutdown, faultVars
  <2>. QED BY <2>1, SameDrops
<1>5. CASE Retention
  <2>1. UNCHANGED <<stray, unwoken>>
    BY <1>5 DEF Retention, faultVars
  <2>2. Drops
    BY <1>5, WithoutDrops, SameDrops DEF Retention, RetentionTask, ReadNextRetention, WokenByPut,
       DeadlineReached, CleanUp, ClearChanged, Cleanup
  <2>. QED BY <2>1, <2>2
<1>. QED BY <1>1, <1>2, <1>3, <1>4, <1>5, Zenon DEF Next

\* Every step keeps the cache honest.
LEMMA KeptStep ==
  ASSUME RefreshTypes, Kept, \A a \in Slots : Informed(a), [Next]_vars
  PROVE  Kept'
<1>0. Onward
  BY StepOnward
<1>1. CASE Drops /\ UNCHANGED <<stray, unwoken>>
  BY <1>0, <1>1, DropsKept
<1>2. ASSUME NEW a \in Slots, Store(a)
      PROVE  Kept'
  <2>1. act[a].pc \in {"store", "touch"} /\ UNCHANGED <<stray, unwoken>>
    BY <1>2 DEF Store, faultVars
  <2>2. Key(a) \in Keys
    BY <2>1 DEF RefreshTypes
  <2>3. Writes(Written(a))
    BY <1>2, StoreEffect
  <2>4. /\ Written(a).key = Key(a) /\ Written(a).rec \in Record
        /\ Honest(Key(a), Written(a).rec)
    BY <2>1, WrittenHonest
  <2>. QED BY <1>0, <2>1, <2>2, <2>3, <2>4, WritesKept
<1>3. ASSUME NEW a \in Slots, Cancel(a)
      PROVE  Kept'
  <2>1. UNCHANGED cacheVars
    BY <1>3 DEF Cancel
  <2>2. Drops
    BY <2>1, SameDrops
  <2>3. CASE act[a].pc \in {"store", "touch"}
    <3>1. stray = None /\ stray' = Written(a) /\ unwoken' = TRUE
      BY <1>3, <2>3 DEF Cancel, Abandons
    <3>2. PICK k \in Keys, r \in Record :
            Written(a).key = k /\ Written(a).rec = r /\ Honest(k, r)
      BY <2>3, WrittenHonest DEF RefreshTypes
    <3>3. Honest(k, r)'
      BY <1>0, <3>2, HonestStays
    <3>4. Honest(stray.key, stray.rec)'
      BY <3>1, <3>2, <3>3 DEF Honest, CurrentAt
    <3>5. ASSUME NEW l \in Keys, records'[l] # None
          PROVE  Honest(l, records[l])'
      <4>1. PICK q \in Record : q = records[l] /\ records' = records
        BY <2>1, <3>5 DEF RefreshTypes, cacheVars
      <4>2. Honest(l, q)'
        BY <1>0, <3>5, <4>1, HonestStays DEF Kept
      <4>. QED BY <4>1, <4>2 DEF Honest, CurrentAt
    <3>. QED BY <3>1, <3>4, <3>5 DEF Kept
  <2>4. CASE act[a].pc \notin {"store", "touch"}
    <3>1. stray' = stray /\ (unwoken => unwoken')
      BY <1>3, <2>4 DEF Cancel
    <3>. QED BY <1>0, <2>2, <3>1, DropsKept
  <2>. QED BY <2>3, <2>4
<1>4. CASE StrayLands
  <2>1. /\ stray # None /\ stray' = None /\ unwoken' = unwoken /\ Commit(stray)
    BY <1>4 DEF StrayLands
  <2>2. stray \in [key : Keys, rec : Record, snap : Snapshot \cup {None}]
    BY <2>1 DEF RefreshTypes
  <2>3. Writes(stray) /\ Honest(stray.key, stray.rec)
    BY <2>1, <2>2, CommitWrites DEF Kept
  <2>. QED BY <1>0, <2>1, <2>2, <2>3, WritesKept
<1>. QED BY <1>1, <1>2, <1>3, <1>4, CacheCases

-----------------------------------------------------------------------------
(* Who writes, and in which order.                                         *)

\* A task that neither fetched nor is about to write.
Quiet(a) ==
  /\ act'[a].pc \notin {"prior", "store", "touch", "wake"}
  /\ act'[a].prior = None /\ act'[a].met = FALSE

OthersStay(a) ==
  \A s \in Slots : s # a => act'[s] = act[s] \/ (act[s].pc = "idle" /\ Quiet(s))

\* Deciding on a record reports nothing.
LEMMA DecidesQuiet ==
  ASSUME RefreshTypes, NEW a \in Slots, NEW rec, act[a].prior = None, act[a].met = FALSE,
         Decides(a, rec)
  PROVE  Quiet(a) /\ OthersStay(a)
<1>1. ASSUME NEW pc \in {"done", "ended", "lock"}, Moves(a, pc), act'[a].prior = None,
             act'[a].met = act[a].met
      PROVE  Quiet(a) /\ OthersStay(a)
  BY <1>1 DEF Moves, Quiet, OthersStay
<1>2. ASSUME NEW b \in Slots, Starts(a, b, rec), act'[a].prior = None, act'[a].met = act[a].met
      PROVE  Quiet(a) /\ OthersStay(a)
  BY <1>2 DEF Starts, Quiet, OthersStay
<1>3. Final(a) \in {"done", "ended", "lock"}
  BY DEF Final
<1>. QED BY <1>1, <1>2, <1>3 DEF Decides, Replies, Remembers

\* Only a fetch, the reading of the target, a put and its wake-up carry a page or a report on.
LEMMA Outline ==
  ASSUME RefreshTypes, Watchful, NEW a \in Slots, Informed(a), Task(a)
  PROVE  /\ OthersStay(a)
         /\ Quiet(a) \/ FetchPage(a) \/ ReadPrior(a) \/ Store(a) \/ Wake(a)
<1>q. ASSUME act[a].pc \notin {"store", "wake"}
      PROVE  act[a].prior = None /\ (act[a].pc \notin {"done", "ended"} => act[a].met = FALSE)
  <2>1. act[a].met \in BOOLEAN
    BY DEF RefreshTypes, SlotType
  <2>. QED BY <1>q, <2>1 DEF Watchful, Watched
<1>m. ASSUME NEW pc, Moves(a, pc)
      PROVE  OthersStay(a)
  BY <1>m DEF Moves, OthersStay
<1>s. ASSUME Silent(a)
      PROVE  Quiet(a) /\ OthersStay(a)
  BY <1>s DEF Silent, Quiet, OthersStay, Final
<1>r. ASSUME NEW pc, pc \notin {"prior", "store", "touch", "wake"}, Moves(a, pc),
             act'[a].prior = None, act'[a].met = FALSE
      PROVE  Quiet(a) /\ OthersStay(a)
  BY <1>r DEF Moves, Quiet, OthersStay
<1>f. Final(a) \notin {"prior", "store", "touch", "wake"}
  BY DEF Final
<1>1. ASSUME NEW k \in Keys, Ask(a, k)
      PROVE  Quiet(a) /\ OthersStay(a)
  <2>1. act'[a].met = FALSE
    <3>1. act'[a].met \in BOOLEAN /\ ~act'[a].met
      BY <1>1, AskEffect DEF SlotType
    <3>. QED BY <3>1
  <2>. QED BY <1>1, <2>1, AskEffect DEF Quiet, OthersStay
<1>2. CASE FetchLive(a)
  BY <1>2, <1>s, LiveEffect
<1>3. CASE GetRecord(a)
  <2>1. act[a].prior = None /\ act[a].met = FALSE
    BY <1>3, <1>q DEF GetRecord
  <2>. QED BY <1>3, <1>r, <2>1, GetRecordEffect, DecidesQuiet DEF Remembers
<1>4. CASE DeleteRefused(a)
  <2>1. act[a].prior = None /\ act[a].met = FALSE
    BY <1>4, <1>q DEF DeleteRefused
  <2>. QED BY <1>4, <1>r, <2>1, DeleteRefusedEffect DEF Remembers
<1>5. CASE GetTarget(a)
  <2>1. act[a].prior = None /\ act[a].met = FALSE
    BY <1>5, <1>q DEF GetTarget
  <2>. QED BY <1>5, <2>1, GetTargetEffect, DecidesQuiet
<1>6. CASE Acquire(a)
  <2>1. act[a].prior = None /\ act[a].met = FALSE
    BY <1>6, <1>q DEF Acquire
  <2>. QED BY <1>6, <1>r, <2>1, AcquireEffect
<1>7. CASE ReadLatest(a)
  <2>1. act[a].prior = None /\ act[a].met = FALSE
    BY <1>7, <1>q DEF ReadLatest
  <2>. QED BY <1>7, <1>r, <1>f, <2>1, ReadLatestEffect DEF Remembers, Replies
<1>8. CASE FetchPage(a)
  BY <1>8, <1>m, <1>s, FetchPageEffect
<1>9. CASE ReadPrior(a)
  BY <1>9, <1>m, <1>s, ReadPriorEffect
<1>10. CASE Store(a)
  BY <1>10, <1>m, StoreEffect
<1>11. CASE Wake(a)
  BY <1>11, <1>m, WakeEffect
<1>12. CASE ReadWatch(a)
  <2>1. act[a].prior = None /\ act[a].met = FALSE
    BY <1>12, <1>q DEF ReadWatch
  <2>. QED BY <1>12, <1>r, <1>f, <2>1, ReadWatchEffect DEF Replies
<1>13. CASE Finished(a)
  <2>1. act'[a].pc = "idle" /\ act'[a].prior = None
    BY <1>13, FinishedEffect DEF Idle
  <2>2. act'[a].met = FALSE
    BY <1>13, FinishedEffect DEF Idle
  <2>. QED BY <1>13, <2>1, <2>2, FinishedEffect DEF Quiet, OthersStay
<1>14. CASE Cancel(a)
  BY <1>14, <1>s, CancelEffect
<1>. QED BY <1>1, <1>2, <1>3, <1>4, <1>5, <1>6, <1>7, <1>8, <1>9, <1>10, <1>11, <1>12, <1>13,
            <1>14 DEF Task

\* A task that does not put, or is not cancelled, only drops pages.
LEMMA TaskDrops ==
  ASSUME RefreshTypes, NEW a \in Slots, Task(a)
  PROVE  Drops \/ Store(a)
<1>1. CASE Store(a)
  BY <1>1
<1>2. ASSUME ~Store(a)
      PROVE  UNCHANGED cacheVars \/ (\E ks : Without(ks))
  BY <1>2 DEF Task, Ask, FetchLive, GetRecord, DeleteRefused, GetTarget, Acquire, ReadLatest,
              FetchPage, ReadPrior, Wake, ReadWatch, Finished, Cancel, Read, Delete
<1>. QED BY <1>1, <1>2, SameDrops, WithoutDrops

\* A step is a task's, or nobody moves and pages are dropped or a late put arrives, or it
\* is the end.
LEMMA StepCases ==
  ASSUME RefreshTypes, [Next]_vars
  PROVE  \/ \E a \in Slots : Task(a)
         \/ act' = act /\ Drops /\ unwoken' = unwoken
         \/ StrayLands
         \/ Shutdown
<1>1. ASSUME ~\E a \in Slots : Task(a), ~Shutdown
      PROVE  act' = act
  BY <1>1 DEF Next, vars, taskVars, ClearUrl, Publish, Retention, StrayLands, Tick
<1>. QED BY <1>1, CacheCases DEF Task

\* Once a put was abandoned, that stays so.
LEMMA UnwokenStays ==
  ASSUME RefreshTypes, [Next]_vars, unwoken
  PROVE  unwoken'
<1>1. UNCHANGED unwoken \/ \E a \in Slots : Cancel(a)
  BY CacheCases DEF Store, StrayLands, faultVars
<1>. QED BY <1>1 DEF Cancel

\* A fetch sees what the site serves, which nobody has got past.
LEMMA SeenIsOld ==
  ASSUME RefreshTypes, NEW k \in Keys, NEW v \in Versions, NEW t, CurrentAt(k, v, t)
  PROVE  v <= site[k]
BY CacheConstants DEF RefreshTypes, Versions, CurrentAt

\* While no put was abandoned, what a task is about to write is not older than the record.
LEMMA TaskForward ==
  ASSUME RefreshTypes, Exclusive, \A s \in Slots : Informed(s), Kept, Forward, Watchful,
         NEW a \in Slots, Task(a), ~unwoken
  PROVE  \A s \in Slots : act'[s].pc \in {"prior", "store", "touch"} /\ act'[s].ver # None =>
           records'[act'[s].key] = None \/ records'[act'[s].key].ver <= act'[s].ver
<1>. TAKE s \in Slots
<1>. SUFFICES ASSUME act'[s].pc \in {"prior", "store", "touch"}, act'[s].ver # None
              PROVE  records'[act'[s].key] = None \/ records'[act'[s].key].ver <= act'[s].ver
  OBVIOUS
<1>0. OthersStay(a) /\ (Quiet(a) \/ FetchPage(a) \/ ReadPrior(a) \/ Store(a) \/ Wake(a))
  BY Outline
<1>1. CASE act'[s] = act[s]
  <2>1. /\ records[Key(s)] = None \/ records[Key(s)].ver <= act[s].ver
        /\ Key(s) \in Keys
    BY <1>1 DEF Forward, RefreshTypes
  <2>2. CASE Drops
    BY <1>1, <2>1, <2>2 DEF Drops, Key
  <2>3. CASE Store(a)
    <3>1. Writes(Written(a)) /\ Written(a).key = Key(a) /\ act[a].pc \in Holding /\ act'[a].pc = "wake"
      BY <2>3, StoreEffect, WrittenHonest DEF Store, Holding, Moves
    <3>2. s # a /\ act[s].pc \in Holding
      BY <1>1, <3>1 DEF Holding
    <3>3. Key(s) # Key(a)
      BY <3>1, <3>2 DEF Exclusive
    <3>4. records'[Key(s)] = records[Key(s)]
      BY <2>1, <3>1, <3>3 DEF Writes, RefreshTypes
    <3>. QED BY <1>1, <2>1, <3>4 DEF Key
  <2>4. CASE Cancel(a)
    BY <1>1, <2>1, <2>4 DEF Cancel, cacheVars, Key
  <2>5. Drops \/ Store(a) \/ Cancel(a)
    <3>1. Task(a) => Drops \/ Store(a) \/ Cancel(a)
      BY TaskDrops, Zenon
    <3>. QED BY <3>1
  <2>. QED BY <2>2, <2>3, <2>4, <2>5
<1>2. CASE act'[s] # act[s]
  <2>1. s = a /\ ~Quiet(a) /\ ~(Store(a) \/ Wake(a))
    <3>1. s = a
      BY <1>0, <1>2 DEF OthersStay, Quiet
    <3>2. ~Store(a)
      BY <3>1, StoreEffect DEF Moves
    <3>3. ~Wake(a)
      BY <3>1, WakeEffect DEF Moves, Final
    <3>. QED BY <3>1, <3>2, <3>3 DEF Quiet
  <2>2. CASE FetchPage(a)
    <3>1. act[a].pc = "fetch" /\ Key(a) \in Keys /\ UNCHANGED cacheVars
      BY <2>2 DEF FetchPage, RefreshTypes
    <3>2. act'[a].ver = site[Key(a)] /\ act'[a].key = Key(a)
      BY <2>1, <2>2, FetchPageEffect DEF Moves, Silent
    <3>3. records[Key(a)] # None => records[Key(a)].ver <= site[Key(a)]
      <4>1. ASSUME records[Key(a)] # None
            PROVE  records[Key(a)].ver <= site[Key(a)]
        <5>1. records[Key(a)] \in Record /\ Honest(Key(a), records[Key(a)])
          BY <3>1, <4>1 DEF RefreshTypes, Kept
        <5>2. /\ records[Key(a)].ver \in Versions
              /\ CurrentAt(Key(a), records[Key(a)].ver, records[Key(a)].fetched)
          BY <5>1 DEF Record, Honest
        <5>. QED BY <3>1, <5>2, SeenIsOld
      <4>. QED BY <4>1
    <3>. QED BY <2>1, <3>1, <3>2, <3>3 DEF cacheVars
  <2>3. CASE ReadPrior(a)
    <3>1. act[a].pc = "prior" /\ Key(a) \in Keys /\ Drops
      BY <2>3, ReadPriorEffect DEF ReadPrior, RefreshTypes
    <3>2. act'[a].ver = act[a].ver /\ act'[a].key = Key(a)
      BY <2>1, <2>3, ReadPriorEffect DEF Moves, Silent
    <3>3. records[Key(a)] = None \/ records[Key(a)].ver <= act[a].ver
      BY <2>1, <3>1, <3>2 DEF Forward
    <3>. QED BY <2>1, <3>1, <3>2, <3>3 DEF Drops
  <2>. QED BY <1>0, <2>1, <2>2, <2>3
<1>. QED BY <1>1, <1>2

\* So it is after every step.
LEMMA ForwardStep ==
  ASSUME RefreshTypes, Exclusive, \A s \in Slots : Informed(s), Kept, Forward, Watchful,
         [Next]_vars
  PROVE  Forward'
<1>1. ASSUME NEW a \in Slots, Task(a)
      PROVE  Forward'
  <2>1. CASE unwoken
    BY <2>1, UnwokenStays DEF Forward
  <2>2. CASE ~unwoken
    BY <1>1, <2>2, TaskForward DEF Forward, Key
  <2>. QED BY <2>1, <2>2
<1>2. CASE act' = act /\ Drops /\ unwoken' = unwoken
  <2>1. ASSUME NEW s \in Slots, ~unwoken, act[s].pc \in {"prior", "store", "touch"}, act[s].ver # None
        PROVE  records'[Key(s)] = None \/ records'[Key(s)].ver <= act[s].ver
    BY <1>2, <2>1 DEF Forward, Drops, RefreshTypes
  <2>. QED BY <1>2, <2>1 DEF Forward, Key
<1>3. CASE StrayLands
  <2>1. unwoken /\ unwoken' = unwoken
    BY <1>3 DEF StrayLands, Kept
  <2>. QED BY <2>1 DEF Forward
<1>4. CASE Shutdown
  <2>1. UNCHANGED cacheVars /\ unwoken' = unwoken
    BY <1>4 DEF Shutdown, faultVars
  <2>2. \A s \in Slots : act'[s].pc # "ended" => act'[s] = act[s]
    BY <1>4, ShutdownEffect
  <2>3. \A s \in Slots : act'[s].pc \in {"prior", "store", "touch"} => act'[s] = act[s]
    BY <2>2
  <2>. QED BY <2>1, <2>3 DEF Forward, Key, cacheVars
<1>. QED BY <1>1, <1>2, <1>3, <1>4, StepCases

-----------------------------------------------------------------------------
(* What a watch reports.                                                   *)

\* A watch that does not move has seen what it had seen.
LEMMA WatchedStays ==
  ASSUME RefreshTypes, Onward, NEW s \in Slots, act'[s] = act[s], Watched(s)
  PROVE  Watched(s)'
<1>1. act[s].met => act[s].ver <= site'[Key(s)]
  <2>1. ASSUME act[s].met
        PROVE  act[s].ver <= site'[Key(s)]
    <3>1. /\ act[s].pc # "idle" /\ act[s].ver # None /\ act[s].ver <= site[Key(s)]
      BY <2>1 DEF Watched
    <3>2. /\ act[s].ver \in Nat /\ Key(s) \in Keys /\ site[Key(s)] \in Nat
          /\ site'[Key(s)] \in Nat /\ site[Key(s)] <= site'[Key(s)]
      BY <3>1, CacheConstants DEF RefreshTypes, SlotType, Versions, Onward
    <3>. QED BY <3>1, <3>2
  <2>. QED BY <2>1
<1>2. PICK x, v, k, n : x = act[s] /\ v = act[s].ver /\ k = act[s].key /\ n = site'[k]
  OBVIOUS
<1>. QED BY <1>1, <1>2 DEF Watched, Watches, Key

\* Nobody reports who neither read the target nor stored it.
LEMMA QuietWatched ==
  ASSUME NEW s \in Slots, Quiet(s)
  PROVE  Watched(s)'
BY DEF Quiet, Watched

\* A fetch reports nothing yet.
LEMMA FetchWatched ==
  ASSUME RefreshTypes, NEW a \in Slots, Watched(a), FetchPage(a)
  PROVE  Watched(a)'
<1>1. /\ act[a].pc = "fetch" /\ act[a].prior = None /\ act[a].met = FALSE
  <2>1. act[a].pc = "fetch" /\ act[a].met \in BOOLEAN
    BY DEF FetchPage, RefreshTypes, SlotType
  <2>. QED BY <2>1 DEF Watched
<1>2. ASSUME NEW pc \in {"touch", "prior", "store"}, Moves(a, pc), Remembers(a), Carries(a),
             pc = "prior" => Watches(a)
      PROVE  Watched(a)'
  <2>1. /\ act'[a].pc = pc /\ act'[a].prior = None /\ act'[a].met = FALSE
        /\ act'[a].kind = act[a].kind
    BY <1>1, <1>2 DEF Moves, Remembers, Carries
  <2>. QED BY <1>2, <2>1 DEF Watched, Watches
<1>3. ASSUME Silent(a)
      PROVE  Watched(a)'
  BY <1>3, QuietWatched DEF Silent, Quiet, Final
<1>4. \/ Silent(a)
      \/ \E pc \in {"touch", "prior", "store"} :
           Moves(a, pc) /\ Remembers(a) /\ Carries(a) /\ (pc = "prior" => Watches(a))
  <2>1. CASE Watches(a)
    BY <2>1, FetchPageEffect
  <2>2. CASE ~Watches(a)
    BY <2>2, FetchPageEffect
  <2>. QED BY <2>1, <2>2
<1>. QED BY <1>2, <1>3, <1>4

\* evaluate_watch reports the desired state of the page it fetched, after the expected one.
LEMMA PriorWatched ==
  ASSUME RefreshTypes, NEW a \in Slots, Informed(a), Watched(a), UNCHANGED site, ReadPrior(a)
  PROVE  Watched(a)'
<1>1. CASE Silent(a)
  BY <1>1, QuietWatched DEF Silent, Quiet, Final
<1>2. CASE /\ act[a].ver # None /\ Moves(a, "store") /\ Carries(a) /\ act'[a].ver = act[a].ver
           /\ act'[a].prior = PriorTarget(a)
           /\ act'[a].met = Met(PriorTarget(a), Sight(act[a].ver))
  <2>1. /\ act[a].pc = "prior" /\ Watches(a) /\ Key(a) \in Keys /\ act[a].ver \in Versions
        /\ CurrentAt(Key(a), act[a].ver, act[a].now)
    BY <1>2 DEF ReadPrior, Watched, RefreshTypes, SlotType, Informed
  <2>2. act[a].ver <= site[Key(a)]
    BY <2>1, SeenIsOld
  <2>3. act'[a].met => Sight(act[a].ver) = "desired" /\ PriorTarget(a) = "expected"
    BY <1>2 DEF Met
  <2>4. /\ act'[a].pc = "store" /\ act'[a].key = Key(a) /\ act'[a].kind = act[a].kind
    BY <1>2 DEF Moves, Carries
  <2>5. PICK p, v, k : p = PriorTarget(a) /\ v = act[a].ver /\ k = Key(a)
    OBVIOUS
  <2>6. Sight(act'[a].ver) = Sight(v)
    BY <1>2, <2>5
  <2>7. act'[a].met => Sight(v) = "desired" /\ p = "expected"
    BY <2>3, <2>5
  <2>8. v # None /\ v <= site'[k] /\ act'[a].ver = v /\ act'[a].prior = p /\ act'[a].key = k
    BY <1>2, <2>2, <2>4, <2>5
  <2>. QED BY <2>1, <2>4, <2>6, <2>7, <2>8 DEF Watched, Watches, Key
<1>. QED BY <1>1, <1>2, ReadPriorEffect

\* A put keeps the report; a 304 has none.
LEMMA StoreWatched ==
  ASSUME RefreshTypes, NEW a \in Slots, Informed(a), Watched(a), UNCHANGED site, Store(a)
  PROVE  Watched(a)'
<1>1. /\ act'[a].pc = "wake" /\ act'[a].key = Key(a) /\ act'[a].ver = act[a].ver
      /\ act'[a].prior = act[a].prior /\ act'[a].met = act[a].met
      /\ act'[a].reason = IF act[a].pc = "touch" THEN "not_modified" ELSE "miss"
  BY StoreEffect DEF Moves, Remembers
<1>2. act[a].met \in BOOLEAN /\ act[a].pc \in {"store", "touch"}
  BY DEF RefreshTypes, SlotType, Store
<1>3. act[a].pc = "touch" => act[a].prior = None /\ act[a].met = FALSE
  BY <1>2 DEF Watched
<1>4. act[a].met => /\ act[a].ver # None /\ Sight(act[a].ver) = "desired"
                    /\ act[a].ver <= site[Key(a)]
  BY DEF Watched
<1>5. PICK v, k : v = act[a].ver /\ k = Key(a)
  OBVIOUS
<1>. QED BY <1>1, <1>2, <1>3, <1>4, <1>5 DEF Watched, Key

\* The answer reports what the put kept.
LEMMA WakeWatched ==
  ASSUME RefreshTypes, NEW a \in Slots, Watched(a), UNCHANGED site, Wake(a)
  PROVE  Watched(a)'
<1>1. act[a].met \in BOOLEAN /\ act[a].pc = "wake"
  BY DEF RefreshTypes, SlotType, Wake
<1>2. CASE /\ Moves(a, "watch") /\ Remembers(a) /\ act[a].reason = "not_modified"
  <2>1. act[a].prior = None /\ act[a].met = FALSE
    BY <1>1, <1>2 DEF Watched
  <2>. QED BY <1>2, <2>1 DEF Watched, Moves, Remembers
<1>3. CASE Moves(a, Final(a)) /\ Replies(a, act[a].ver, act[a].reason)
  <2>1. /\ act'[a].pc \in {"done", "ended"} /\ act'[a].key = Key(a) /\ act'[a].ver = act[a].ver
        /\ act'[a].prior = None /\ act'[a].met = act[a].met
    BY <1>3 DEF Moves, Replies, Final
  <2>2. act[a].met => /\ act[a].ver # None /\ Sight(act[a].ver) = "desired"
                      /\ act[a].ver <= site[Key(a)]
    BY DEF Watched
  <2>3. PICK v, k : v = act[a].ver /\ k = Key(a)
    OBVIOUS
  <2>. QED BY <2>1, <2>2, <2>3 DEF Watched, Key
<1>. QED BY <1>2, <1>3, WakeEffect

\* After every step, whoever reports has seen the change.
LEMMA WatchfulStep ==
  ASSUME RefreshTypes, \A s \in Slots : Informed(s), Watchful, [Next]_vars
  PROVE  Watchful'
<1>0. Onward
  BY StepOnward
<1>1. ASSUME NEW a \in Slots, Task(a)
      PROVE  Watchful'
  <2>1. OthersStay(a) /\ (Quiet(a) \/ FetchPage(a) \/ ReadPrior(a) \/ Store(a) \/ Wake(a))
    BY <1>1, Outline
  <2>2. Watched(a)'
    BY <2>1, QuietWatched, FetchWatched, PriorWatched, StoreWatched, WakeWatched
       DEF ReadPrior, Store, Wake, siteVars, Watchful
  <2>3. \A s \in Slots : s # a => Watched(s)'
    BY <1>0, <2>1, WatchedStays, QuietWatched DEF OthersStay, Watchful
  <2>. QED BY <2>2, <2>3 DEF Watchful
<1>2. CASE act' = act
  BY <1>0, <1>2, WatchedStays DEF Watchful
<1>3. CASE Shutdown
  <2>1. \A s \in Slots : act'[s] = act[s] \/ Quiet(s)
    BY <1>3, ShutdownEffect DEF Quiet
  <2>. QED BY <1>0, <2>1, WatchedStays, QuietWatched DEF Watchful
<1>4. StrayLands => act' = act
  BY DEF StrayLands, taskVars
<1>. QED BY <1>1, <1>2, <1>3, <1>4, StepCases

\* A report is of a page seen, and its task's address is known.
LEMMA ToldTypes ==
  ASSUME RefreshTypes, Watchful, NEW a \in Slots, act[a].met
  PROVE  /\ act[a].ver \in Versions /\ act[a].ver \in Nat /\ Key(a) \in Keys
         /\ act[a].ver <= site[Key(a)] /\ site[Key(a)] \in Nat
         /\ Sight(act[a].ver) = "desired"
<1>1. /\ act[a].ver # None /\ act[a].pc # "idle" /\ act[a].ver <= site[Key(a)]
      /\ Sight(act[a].ver) = "desired"
  BY DEF Watchful, Watched
<1>. QED BY <1>1, CacheConstants DEF RefreshTypes, SlotType, Versions

\* A task that stays as it is, or answers with the report it already made.
Subdued(s) ==
  \/ act'[s] = act[s]
  \/ /\ act'[s].pc \notin {"prior", "store", "touch"}
     /\ act'[s].met => Told(s) /\ act'[s].ver = act[s].ver /\ act'[s].key = act[s].key

\* What was expected again is, unless its page was dropped.
LEMMA DropsExpected ==
  ASSUME RefreshTypes, Drops, NEW k \in Keys, ExpectedAgain(k)'
  PROVE  ExpectedAgain(k)
BY DEF Drops, ExpectedAgain

\* Nobody reports anew and nothing is written.
LEMMA SubduedAlarmed ==
  ASSUME RefreshTypes, Onward, Drops, Watchful, Alarmed, ~unwoken,
         \A s \in Slots : Subdued(s)
  PROVE  Alarmed'
<1>1. ASSUME NEW s \in Slots, Told(s)'
      PROVE  /\ Told(s) /\ act'[s].ver = act[s].ver /\ act'[s].key = Key(s)
             /\ Key(s) \in Keys /\ act[s].ver \in Nat
  <2>1. Told(s) /\ act'[s].ver = act[s].ver /\ act'[s].key = Key(s)
    BY <1>1 DEF Subdued, Told, Key
  <2>. QED BY <2>1, ToldTypes DEF Told
<1>2. ASSUME NEW a \in Slots, Told(a)', ExpectedAgain(Key(a))'
      PROVE  act'[a].ver < site'[act'[a].key]
  <2>1. PICK k \in Keys : k = Key(a) /\ act'[a].key = k
    BY <1>1, <1>2
  <2>2. ExpectedAgain(k)'
    BY <1>2, <2>1 DEF ExpectedAgain, Key
  <2>3. act[a].ver < site[k]
    BY <1>1, <1>2, <2>1, <2>2, DropsExpected DEF Alarmed
  <2>4. site[k] \in Nat /\ site'[k] \in Nat /\ site[k] <= site'[k]
    BY CacheConstants DEF RefreshTypes, Onward, Versions
  <2>. QED BY <1>1, <1>2, <2>1, <2>3, <2>4
<1>3. ASSUME NEW a \in Slots, NEW b \in Slots, Told(a)', a # b, act'[a].key = act'[b].key
      PROVE  Behind(a, b)'
  <2>1. PICK k \in Keys : k = Key(a) /\ act'[a].key = k
    BY <1>1, <1>3
  <2>2. ExpectedAgain(Key(a))' => ExpectedAgain(Key(a))
    BY <2>1, DropsExpected DEF ExpectedAgain, Key
  <2>3. CASE act'[b] = act[b]
    <3>1. Behind(a, b)
      BY <1>1, <1>3, <2>1, <2>3 DEF Alarmed, Key
    <3>. QED BY <1>1, <1>3, <2>2, <2>3, <3>1 DEF Behind, Told
  <2>4. CASE act'[b].pc \notin {"prior", "store", "touch"}
    <3>1. ASSUME Told(b)'
          PROVE  act'[a].ver # act'[b].ver
      <4>1. Behind(a, b) /\ Told(b)
        BY <1>1, <1>3, <3>1 DEF Alarmed, Key
      <4>. QED BY <1>1, <1>3, <3>1, <4>1 DEF Behind
    <3>. QED BY <2>4, <3>1 DEF Behind
  <2>. QED BY <2>3, <2>4 DEF Subdued
<1>. QED BY <1>2, <1>3 DEF Alarmed, Key

\* One task moves on with a page it has not reported, newer than every report of it.
LEMMA MoverAlarmed ==
  ASSUME RefreshTypes, Onward, Drops, Watchful, Alarmed, ~unwoken, NEW a \in Slots,
         \A s \in Slots : s # a => act'[s] = act[s],
         act'[a].key = Key(a), ~Told(a)',
         \A x \in Slots : Told(x) /\ x # a /\ Key(x) = Key(a) => Behind(x, a)'
  PROVE  Alarmed'
<1>1. ASSUME NEW s \in Slots, Told(s)'
      PROVE  s # a /\ act'[s] = act[s] /\ Told(s) /\ Key(s) \in Keys /\ act[s].ver \in Nat
  <2>1. s # a
    BY <1>1
  <2>2. act'[s] = act[s] /\ Told(s)
    BY <1>1, <2>1 DEF Told
  <2>. QED BY <2>1, <2>2, ToldTypes DEF Told
<1>2. ASSUME NEW s \in Slots, Told(s)', ExpectedAgain(Key(s))'
      PROVE  act'[s].ver < site'[act'[s].key]
  <2>1. PICK k \in Keys : k = Key(s) /\ act'[s].key = k
    BY <1>1, <1>2 DEF Key
  <2>2. ExpectedAgain(k)'
    BY <1>2, <2>1 DEF ExpectedAgain, Key
  <2>3. act[s].ver < site[k]
    BY <1>1, <1>2, <2>1, <2>2, DropsExpected DEF Alarmed
  <2>4. site[k] \in Nat /\ site'[k] \in Nat /\ site[k] <= site'[k]
    BY CacheConstants DEF RefreshTypes, Onward, Versions
  <2>. QED BY <1>1, <1>2, <2>1, <2>3, <2>4
<1>3. ASSUME NEW x \in Slots, NEW b \in Slots, Told(x)', x # b, act'[x].key = act'[b].key
      PROVE  Behind(x, b)'
  <2>1. PICK k \in Keys : k = Key(x) /\ act'[x].key = k
    BY <1>1, <1>3 DEF Key
  <2>2. CASE b = a
    BY <1>1, <1>3, <2>1, <2>2
  <2>3. CASE b # a
    <3>1. ExpectedAgain(Key(x))' => ExpectedAgain(Key(x))
      BY <2>1, DropsExpected DEF ExpectedAgain, Key
    <3>2. act'[b] = act[b] /\ Behind(x, b)
      BY <1>1, <1>3, <2>1, <2>3 DEF Alarmed, Key
    <3>. QED BY <1>1, <1>3, <3>1, <3>2 DEF Behind, Told
  <2>. QED BY <2>2, <2>3
<1>. QED BY <1>2, <1>3 DEF Alarmed, Key

\* A fetch sees a page no older than any reported one.
LEMMA FetchAlarmed ==
  ASSUME RefreshTypes, Onward, Watchful, Alarmed, ~unwoken, NEW a \in Slots, FetchPage(a)
  PROVE  Alarmed'
<1>1. Drops
  BY FetchPageEffect, SameDrops
<1>2. /\ act[a].pc = "fetch" /\ act[a].prior = None /\ act[a].met = FALSE /\ Key(a) \in Keys
      /\ targets' = targets
  <2>1. act[a].pc = "fetch" /\ act[a].met \in BOOLEAN /\ Key(a) \in Keys /\ targets' = targets
    BY DEF FetchPage, RefreshTypes, SlotType, cacheVars
  <2>. QED BY <2>1 DEF Watchful, Watched
<1>3. CASE Silent(a)
  <2>1. \A s \in Slots : Subdued(s)
    BY <1>3 DEF Silent, Subdued, Final
  <2>. QED BY <1>1, <2>1, SubduedAlarmed
<1>4. ASSUME NEW pc \in {"touch", "prior", "store"}, Moves(a, pc), Remembers(a),
             act'[a].ver \in {site[Key(a)], None}, pc # "prior" => act'[a].ver # None
      PROVE  Alarmed'
  <2>1. /\ act'[a].pc = pc /\ act'[a].key = Key(a) /\ act'[a].met = FALSE
        /\ act'[a].prior = None /\ \A s \in Slots : s # a => act'[s] = act[s]
    BY <1>2, <1>4 DEF Moves, Remembers
  <2>2. None # "expected"
    BY NoneIsNoValue DEF Found
  <2>3. ASSUME NEW x \in Slots, Told(x), x # a, Key(x) = Key(a)
        PROVE  Behind(x, a)'
    <3>1. PICK k \in Keys : k = Key(x) /\ k = Key(a)
      BY <1>2, <2>3
    <3>2. act'[x] = act[x] /\ act[x].ver <= site[k] /\ act[x].ver \in Nat /\ site[k] \in Nat
      BY <2>1, <2>3, <3>1, ToldTypes DEF Told
    <3>3. ExpectedAgain(k) => act[x].ver < site[k]
      BY <2>3, <3>1 DEF Alarmed
    <3>4. ExpectedAgain(Key(x))' => ExpectedAgain(k)
      BY <1>2, <3>1, <3>2 DEF ExpectedAgain, Key
    <3>. QED BY <1>4, <2>1, <2>2, <3>1, <3>2, <3>3, <3>4 DEF Behind, Told
  <2>4. ~Told(a)'
    BY <2>1 DEF Told
  <2>. QED BY <1>1, <2>1, <2>3, <2>4, MoverAlarmed
<1>5. \/ Silent(a)
      \/ \E pc \in {"touch", "prior", "store"} :
           /\ Moves(a, pc) /\ Remembers(a) /\ act'[a].ver \in {site[Key(a)], None}
           /\ pc # "prior" => act'[a].ver # None
  <2>1. site[Key(a)] # None
    BY <1>2, CacheConstants DEF RefreshTypes, Versions
  <2>. QED BY <2>1, FetchPageEffect
<1>. QED BY <1>3, <1>4, <1>5

\* A watch that reads the expected state reads it of a version after every report.
LEMMA PriorAlarmed ==
  ASSUME RefreshTypes, Onward, Watchful, Alarmed, ~unwoken, NEW a \in Slots, ReadPrior(a)
  PROVE  Alarmed'
<1>1. Drops /\ act[a].pc = "prior" /\ Key(a) \in Keys
  BY ReadPriorEffect DEF ReadPrior, RefreshTypes
<1>2. CASE Silent(a)
  <2>1. \A s \in Slots : Subdued(s)
    BY <1>2 DEF Silent, Subdued, Final
  <2>. QED BY <1>1, <2>1, SubduedAlarmed
<1>3. CASE /\ act[a].ver # None /\ Moves(a, "store") /\ act'[a].ver = act[a].ver
           /\ act'[a].prior = PriorTarget(a)
  <2>1. /\ act'[a].pc = "store" /\ act'[a].key = Key(a)
        /\ \A s \in Slots : s # a => act'[s] = act[s]
    BY <1>3 DEF Moves
  <2>2. ~Told(a)'
    BY <2>1 DEF Told
  <2>3. PriorTarget(a) = "expected" => ExpectedAgain(Key(a))
    BY NoneIsNoValue DEF PriorTarget, Baseline, LiveTarget, ExpectedAgain, Found
  <2>4. ASSUME NEW x \in Slots, Told(x), x # a, Key(x) = Key(a)
        PROVE  Behind(x, a)'
    <3>1. Behind(x, a) /\ act'[x] = act[x]
      BY <2>1, <2>4 DEF Alarmed
    <3>2. act[x].ver <= act[a].ver
      BY <1>1, <1>3, <3>1 DEF Behind
    <3>3. PriorTarget(a) = "expected" => act[x].ver < act[a].ver
      BY <1>1, <1>3, <2>3, <2>4, <3>1 DEF Behind
    <3>4. PICK p, v, w : p = PriorTarget(a) /\ v = act[a].ver /\ w = act[x].ver
      OBVIOUS
    <3>. QED BY <1>3, <2>1, <3>1, <3>2, <3>3, <3>4 DEF Behind, Told
  <2>. QED BY <1>1, <2>1, <2>2, <2>4, MoverAlarmed
<1>. QED BY <1>2, <1>3, ReadPriorEffect

\* What a put makes of the target: it is expected again only if the page shows it, or showed
\* it before and the page does not.
LEMMA StoreExpects ==
  ASSUME RefreshTypes, NEW a \in Slots, Informed(a), Watched(a), Store(a)
  PROVE  /\ \A l \in Keys : l # Key(a) => targets'[l] = targets[l]
         /\ ExpectedAgain(Key(a))' =>
              \/ ExpectedAgain(Key(a)) /\ ~act[a].met
              \/ /\ act[a].pc = "store" /\ act[a].prior = "expected" /\ ~act[a].met
              \/ /\ act[a].pc = "store" /\ Sight(act[a].ver) = "expected"
<1>1. /\ Writes(Written(a)) /\ Written(a).key = Key(a) /\ act[a].pc \in {"store", "touch"}
      /\ Key(a) \in Keys
  BY StoreEffect, WrittenHonest DEF Store, RefreshTypes
<1>2. act'[a].key = Key(a)
  BY StoreEffect DEF Moves
<1>3. \A l \in Keys : l # Key(a) => targets'[l] = targets[l]
  BY <1>1 DEF Writes
<1>4. ASSUME ExpectedAgain(Key(a))'
      PROVE  \/ ExpectedAgain(Key(a)) /\ ~act[a].met
             \/ /\ act[a].pc = "store" /\ act[a].prior = "expected" /\ ~act[a].met
             \/ /\ act[a].pc = "store" /\ Sight(act[a].ver) = "expected"
  <2>1. targets'[Key(a)] # None /\ targets'[Key(a)].base = "expected"
    BY <1>2, <1>4 DEF ExpectedAgain, Key
  <2>2. CASE act[a].pc = "touch"
    <3>1. Written(a).snap = None /\ ~act[a].met
      BY <2>2, WrittenType DEF Watched
    <3>2. targets'[Key(a)] = targets[Key(a)]
      BY <1>1, <3>1 DEF Writes
    <3>. QED BY <2>1, <3>1, <3>2 DEF ExpectedAgain
  <2>3. CASE act[a].pc = "store" /\ ~Watches(a)
    <3>1. Written(a).snap = None /\ ~act[a].met
      BY <2>3, WrittenType DEF Watched
    <3>2. targets'[Key(a)] = targets[Key(a)]
      BY <1>1, <3>1 DEF Writes
    <3>. QED BY <2>1, <3>1, <3>2 DEF ExpectedAgain
  <2>4. CASE act[a].pc = "store" /\ Watches(a)
    <3>1. Written(a).snap = Remembering(Sight(act[a].ver), act[a].prior)
      BY <2>4, WrittenType
    <3>2. act[a].ver \in Versions /\ act[a].prior \in Found \cup {None}
      BY <2>4 DEF RefreshTypes, SlotType, Informed
    <3>3. Remembering(Sight(act[a].ver), act[a].prior) # None
      BY <3>2, RememberingType, NoneIsNoValue
    <3>4. targets'[Key(a)] = Remembering(Sight(act[a].ver), act[a].prior)
      BY <1>1, <3>1, <3>3 DEF Writes
    <3>5. (IF Sight(act[a].ver) \in Found THEN Sight(act[a].ver) ELSE act[a].prior) = "expected"
      BY <2>1, <3>4 DEF Remembering
    <3>6. CASE Sight(act[a].ver) = "expected"
      BY <2>4, <3>6
    <3>7. CASE Sight(act[a].ver) # "expected"
      <4>1. Sight(act[a].ver) \notin Found /\ act[a].prior = "expected"
        BY <3>5, <3>7
      <4>2. ~act[a].met
        BY <4>1 DEF Watched, Found
      <4>. QED BY <2>4, <4>1, <4>2
    <3>. QED BY <3>6, <3>7
  <2>. QED BY <1>1, <2>2, <2>3, <2>4
<1>. QED BY <1>3, <1>4

\* A put of a watch reports what no report before it did, and nobody is about to report it
\* again.
LEMMA StoreAlarmed ==
  ASSUME RefreshTypes, Exclusive, Onward, Watchful, Alarmed, ~unwoken, NEW a \in Slots,
         Informed(a), Store(a)
  PROVE  Alarmed'
<1>1. /\ act[a].pc \in {"store", "touch"} /\ Key(a) \in Keys /\ Watched(a)
      /\ act[a].ver \in Versions /\ act[a].ver \in Nat /\ act[a].ver # None
  BY CacheConstants DEF Store, RefreshTypes, SlotType, Informed, Watchful, Versions
<1>2. /\ act'[a].pc = "wake" /\ act'[a].key = Key(a) /\ act'[a].ver = act[a].ver
      /\ act'[a].met = act[a].met /\ \A s \in Slots : s # a => act'[s] = act[s]
  BY StoreEffect DEF Moves, Remembers
<1>3. act[a].ver <= site[Key(a)]
  BY <1>1, SeenIsOld DEF Informed
<1>4. \A s \in Slots : s # a /\ Key(s) = Key(a) => act[s].pc \notin Holding
  BY <1>1 DEF Exclusive, Holding
<1>5. act[a].met => act[a].pc = "store" /\ act[a].prior = "expected" /\ Sight(act[a].ver) = "desired"
  BY <1>1 DEF Watched
<1>6. ASSUME NEW x \in Slots, Told(x), x # a, Key(x) = Key(a)
      PROVE  /\ act[x].ver <= act[a].ver
             /\ act[a].pc = "store" /\ act[a].prior = "expected" => act[x].ver < act[a].ver
             /\ Sight(act[x].ver) = "desired"
  BY <1>1, <1>6, ToldTypes DEF Alarmed, Behind, Told
<1>7. \A l \in Keys : site[l] \in Nat /\ site'[l] \in Nat /\ site[l] <= site'[l]
  BY CacheConstants DEF RefreshTypes, Onward, Versions
<1>8. ASSUME NEW s \in Slots, Told(s)', ExpectedAgain(Key(s))'
      PROVE  act'[s].ver < site'[act'[s].key]
  <2>1. CASE s = a
    <3>1. act[a].met /\ ExpectedAgain(Key(a))'
      BY <1>2, <1>8, <2>1 DEF Told
    <3>2. FALSE
      BY <1>1, <1>5, <3>1, StoreExpects
    <3>. QED BY <3>2
  <2>2. CASE s # a
    <3>1. act'[s] = act[s] /\ Told(s)
      BY <1>2, <1>8, <2>2 DEF Told
    <3>2. act[s].ver \in Nat /\ Key(s) \in Keys
      BY <3>1, ToldTypes DEF Told
    <3>3. PICK k \in Keys : k = Key(s)
      BY <3>2
    <3>4. CASE k # Key(a)
      <4>1. targets'[k] = targets[k]
        BY <1>1, <3>4, StoreExpects
      <4>2. ExpectedAgain(k)
        BY <1>8, <3>1, <3>3, <4>1 DEF ExpectedAgain, Key
      <4>. QED BY <1>7, <3>1, <3>2, <3>3, <4>2 DEF Alarmed, Key
    <3>5. CASE k = Key(a)
      <4>1. ExpectedAgain(Key(a))'
        BY <1>2, <1>8, <3>1, <3>3, <3>5 DEF ExpectedAgain, Key
      <4>2. /\ act[s].ver <= act[a].ver
            /\ act[a].pc = "store" /\ act[a].prior = "expected" => act[s].ver < act[a].ver
            /\ Sight(act[s].ver) = "desired"
        BY <1>6, <2>2, <3>1, <3>3, <3>5
      <4>3. ExpectedAgain(Key(a)) => act[s].ver < site[k]
        BY <3>1, <3>3, <3>5 DEF Alarmed
      <4>4. Sight(act[a].ver) = "expected" => act[s].ver # act[a].ver
        BY <4>2
      <4>5. act[s].ver < site[k]
        <5>1. CASE ExpectedAgain(Key(a))
          BY <4>3, <5>1
        <5>2. CASE act[a].pc = "store" /\ act[a].prior = "expected"
          BY <1>1, <1>3, <1>7, <3>2, <3>5, <4>2, <5>2
        <5>3. CASE Sight(act[a].ver) = "expected"
          BY <1>1, <1>3, <1>7, <3>2, <3>5, <4>2, <4>4, <5>3
        <5>. QED BY <1>1, <4>1, <5>1, <5>2, <5>3, StoreExpects
      <4>. QED BY <1>7, <3>1, <3>2, <3>3, <4>5 DEF Key
    <3>. QED BY <3>4, <3>5
  <2>. QED BY <2>1, <2>2
<1>9. ASSUME NEW x \in Slots, NEW b \in Slots, Told(x)', x # b, act'[x].key = act'[b].key
      PROVE  Behind(x, b)'
  <2>1. CASE x = a
    <3>1. act[a].met /\ act'[b] = act[b] /\ Key(b) = Key(a)
      BY <1>2, <1>9, <2>1 DEF Told, Key
    <3>2. act'[b].pc \notin {"prior", "store", "touch"}
      BY <1>4, <1>9, <2>1, <3>1 DEF Holding
    <3>3. ASSUME Told(b)'
          PROVE  act'[x].ver # act'[b].ver
      <4>1. Told(b) /\ act[b].ver \in Nat
        BY <3>1, <3>3, ToldTypes DEF Told
      <4>2. act[b].ver < act[a].ver
        BY <1>5, <1>6, <1>9, <2>1, <3>1, <4>1
      <4>. QED BY <1>1, <1>2, <2>1, <3>1, <4>1, <4>2
    <3>. QED BY <3>2, <3>3 DEF Behind
  <2>2. CASE x # a /\ b = a
    <3>1. act'[x] = act[x] /\ Told(x) /\ Key(x) = Key(a)
      BY <1>2, <1>9, <2>2 DEF Told, Key
    <3>2. ASSUME Told(a)'
          PROVE  act'[x].ver # act'[a].ver
      <4>1. act[x].ver \in Nat /\ act[a].met
        BY <1>2, <3>1, <3>2, ToldTypes DEF Told
      <4>2. act[x].ver < act[a].ver
        BY <1>5, <1>6, <2>2, <3>1, <4>1
      <4>. QED BY <1>1, <1>2, <3>1, <4>1, <4>2
    <3>. QED BY <1>2, <2>2, <3>2 DEF Behind
  <2>3. CASE x # a /\ b # a
    <3>1. act'[x] = act[x] /\ act'[b] = act[b] /\ Told(x) /\ Key(x) = Key(b)
      BY <1>2, <1>9, <2>3 DEF Told, Key
    <3>2. Behind(x, b)
      BY <1>9, <3>1 DEF Alarmed
    <3>3. PICK k \in Keys : k = Key(x)
      BY <3>1, ToldTypes DEF Told
    <3>4. CASE k = Key(a)
      <4>1. act[b].pc \notin {"prior", "store", "touch"}
        BY <1>4, <2>3, <3>1, <3>3, <3>4 DEF Holding
      <4>. QED BY <3>1, <3>2, <4>1 DEF Behind, Told
    <3>5. CASE k # Key(a)
      <4>1. targets'[k] = targets[k]
        BY <1>1, <3>5, StoreExpects
      <4>2. ExpectedAgain(Key(x))' => ExpectedAgain(Key(x))
        BY <3>1, <3>3, <4>1 DEF ExpectedAgain, Key
      <4>. QED BY <3>1, <3>2, <4>2 DEF Behind, Told
    <3>. QED BY <3>4, <3>5
  <2>. QED BY <2>1, <2>2, <2>3
<1>. QED BY <1>8, <1>9 DEF Alarmed, Key

\* An answer reports what its put reported.
LEMMA WakeAlarmed ==
  ASSUME RefreshTypes, Onward, Watchful, Alarmed, ~unwoken, NEW a \in Slots, Wake(a)
  PROVE  Alarmed'
<1>1. Drops
  BY WakeEffect, SameDrops
<1>2. act[a].pc = "wake" /\ act[a].met \in BOOLEAN /\ Watched(a)
  BY DEF Wake, RefreshTypes, SlotType, Watchful
<1>3. CASE Moves(a, "watch") /\ Remembers(a) /\ act[a].reason = "not_modified"
  <2>1. act[a].met = FALSE
    BY <1>2, <1>3 DEF Watched
  <2>2. \A s \in Slots : Subdued(s)
    BY <1>3, <2>1 DEF Subdued, Moves, Remembers
  <2>. QED BY <1>1, <2>2, SubduedAlarmed
<1>4. CASE Moves(a, Final(a)) /\ Replies(a, act[a].ver, act[a].reason)
  <2>1. /\ act'[a].pc \in {"done", "ended"} /\ act'[a].key = Key(a) /\ act'[a].ver = act[a].ver
        /\ act'[a].met = act[a].met /\ \A s \in Slots : s # a => act'[s] = act[s]
    BY <1>4 DEF Moves, Replies, Final
  <2>2. \A s \in Slots : Subdued(s)
    BY <1>2, <2>1 DEF Subdued, Told, Key
  <2>. QED BY <1>1, <2>2, SubduedAlarmed
<1>. QED BY <1>3, <1>4, WakeEffect

\* After every step, whoever may report next is past what was reported.
LEMMA AlarmedStep ==
  ASSUME RefreshTypes, Exclusive, \A s \in Slots : Informed(s), Kept, Watchful, Alarmed,
         [Next]_vars
  PROVE  Alarmed'
<1>0. Onward
  BY StepOnward
<1>s. SUFFICES ASSUME ~unwoken'
               PROVE  Alarmed'
  BY DEF Alarmed
<1>u. ~unwoken
  BY <1>s, UnwokenStays
<1>1. ASSUME NEW a \in Slots, Task(a)
      PROVE  Alarmed'
  <2>1. OthersStay(a) /\ (Quiet(a) \/ FetchPage(a) \/ ReadPrior(a) \/ Store(a) \/ Wake(a))
    BY <1>1, Outline
  <2>2. CASE Store(a)
    BY <1>0, <1>u, <2>2, StoreAlarmed
  <2>3. CASE Quiet(a) /\ Drops
    <3>1. \A s \in Slots : Subdued(s)
      BY <2>1, <2>3 DEF OthersStay, Quiet, Subdued
    <3>. QED BY <1>0, <1>u, <2>3, <3>1, SubduedAlarmed
  <2>4. Drops \/ Store(a)
    BY <1>1, TaskDrops
  <2>. QED BY <1>0, <1>u, <2>1, <2>2, <2>3, <2>4, FetchAlarmed, PriorAlarmed, WakeAlarmed
<1>2. CASE act' = act /\ Drops
  <2>1. \A s \in Slots : Subdued(s)
    BY <1>2 DEF Subdued
  <2>. QED BY <1>0, <1>u, <1>2, <2>1, SubduedAlarmed
<1>3. ~StrayLands
  BY <1>u DEF StrayLands, Kept
<1>4. CASE Shutdown
  <2>1. Drops
    BY <1>4, SameDrops DEF Shutdown
  <2>2. \A s \in Slots : act'[s] = act[s] \/ Quiet(s)
    BY <1>4, ShutdownEffect DEF Quiet
  <2>3. \A s \in Slots : Subdued(s)
    BY <2>2 DEF Subdued, Quiet
  <2>. QED BY <1>0, <1>u, <2>1, <2>3, SubduedAlarmed
<1>. QED BY <1>1, <1>2, <1>3, <1>4, StepCases

-----------------------------------------------------------------------------
(* The retention task.                                                     *)

\* A task that has committed a put stays until it has woken the retention task.
WakersStay == \A s \in Slots : act[s].pc = "wake" => act'[s] = act[s]

\* The sleep of the retention task is as safe as it was if only pages are dropped.
LEMMA SleepStays ==
  ASSUME RefreshTypes, Drops, RetentionNotSlept, UNCHANGED <<loopVars, open>>,
         unwoken => unwoken', WakersStay
  PROVE  RetentionNotSlept'
<1>1. ASSUME open', loop' = "sleep", ~changed', ~unwoken', NEW k \in Keys, records'[k] # None
      PROVE  \/ due' # None /\ due' <= records'[k].retained
             \/ \E a \in Slots : act'[a].pc = "wake" /\ act'[a].key = k
  <2>1. open /\ loop = "sleep" /\ ~changed /\ ~unwoken /\ due' = due
    BY <1>1 DEF loopVars
  <2>2. records'[k] = records[k]
    BY <1>1 DEF Drops
  <2>3. \/ due # None /\ due <= records[k].retained
        \/ \E a \in Slots : act[a].pc = "wake" /\ Key(a) = k
    BY <1>1, <2>1, <2>2 DEF RetentionNotSlept
  <2>. QED BY <2>1, <2>2, <2>3 DEF WakersStay, Key
<1>. QED BY <1>1 DEF RetentionNotSlept, Key

\* A put is followed by its wake-up, an abandoned one is not.
LEMMA TaskNotSlept ==
  ASSUME RefreshTypes, Watchful, RetentionNotSlept, NEW a \in Slots, Informed(a), Task(a)
  PROVE  RetentionNotSlept'
<1>0. OthersStay(a)
  BY Outline
<1>o. \A s \in Slots : s # a /\ act[s].pc = "wake" => act'[s] = act[s]
  BY <1>0 DEF OthersStay
<1>1. CASE Wake(a)
  BY <1>1 DEF Wake, RetentionNotSlept
<1>2. CASE Store(a)
  <2>1. UNCHANGED <<loopVars, open, unwoken>> /\ act[a].pc \in {"store", "touch"}
    BY <1>2 DEF Store, faultVars
  <2>2. act'[a].pc = "wake" /\ act'[a].key = Key(a) /\ Key(a) \in Keys
    BY <1>2, <2>1, StoreEffect DEF Moves, RefreshTypes
  <2>3. \A k \in Keys : k # Key(a) => records'[k] = records[k]
    <3>1. Writes(Written(a)) /\ Written(a).key = Key(a)
      BY <1>2, <2>1, StoreEffect, WrittenHonest
    <3>. QED BY <3>1 DEF Writes, RefreshTypes
  <2>4. WakersStay
    BY <1>o, <2>1 DEF WakersStay
  <2>5. ASSUME open', loop' = "sleep", ~changed', ~unwoken', NEW k \in Keys, records'[k] # None
        PROVE  \/ due' # None /\ due' <= records'[k].retained
               \/ \E s \in Slots : act'[s].pc = "wake" /\ act'[s].key = k
    <3>1. CASE k = Key(a)
      BY <2>2, <3>1
    <3>2. CASE k # Key(a)
      <4>1. open /\ loop = "sleep" /\ ~changed /\ ~unwoken /\ due' = due
        BY <2>1, <2>5 DEF loopVars
      <4>2. \/ due # None /\ due <= records[k].retained
            \/ \E s \in Slots : act[s].pc = "wake" /\ Key(s) = k
        BY <2>3, <2>5, <3>2, <4>1 DEF RetentionNotSlept
      <4>. QED BY <2>3, <2>4, <3>2, <4>1, <4>2 DEF WakersStay, Key
    <3>. QED BY <3>1, <3>2
  <2>. QED BY <2>5 DEF RetentionNotSlept, Key
<1>3. CASE Cancel(a)
  <2>1. UNCHANGED <<loopVars, open>> /\ Drops
    BY <1>3, SameDrops DEF Cancel
  <2>2. CASE act[a].pc = "wake"
    BY <1>3, <2>2 DEF Cancel, Abandons, RetentionNotSlept
  <2>3. CASE act[a].pc # "wake"
    <3>1. WakersStay /\ (unwoken => unwoken')
      BY <1>3, <1>o, <2>3 DEF Cancel, WakersStay
    <3>. QED BY <2>1, <3>1, SleepStays
  <2>. QED BY <2>2, <2>3
<1>4. ASSUME ~Wake(a), ~Store(a), ~Cancel(a)
      PROVE  RetentionNotSlept'
  <2>1. UNCHANGED <<loopVars, open, unwoken>> /\ act[a].pc # "wake"
    BY <1>4 DEF Task, Ask, FetchLive, GetRecord, DeleteRefused, GetTarget, Acquire, ReadLatest,
                FetchPage, ReadPrior, ReadWatch, Finished, faultVars
  <2>2. Drops /\ WakersStay
    BY <1>o, <1>4, <2>1, TaskDrops DEF WakersStay
  <2>. QED BY <2>1, <2>2, SleepStays
<1>. QED BY <1>1, <1>2, <1>3, <1>4

\* The retention task sleeps on the deadline it read.
LEMMA RetentionNotSleptStep ==
  ASSUME RefreshTypes, Kept, Watchful, \A s \in Slots : Informed(s), RetentionNotSlept,
         [Next]_vars
  PROVE  RetentionNotSlept'
<1>1. ASSUME NEW a \in Slots, Task(a)
      PROVE  RetentionNotSlept'
  BY <1>1, TaskNotSlept
<1>2. CASE UNCHANGED vars \/ Tick \/ \E k \in Keys : ClearUrl(k) \/ Publish(k)
  <2>1. UNCHANGED <<loopVars, open, unwoken>> /\ act' = act
    BY <1>2 DEF vars, Tick, ClearUrl, Publish, taskVars, faultVars
  <2>2. Drops
    BY <1>2, SameDrops, WithoutDrops DEF vars, Tick, ClearUrl, Publish, Delete
  <2>. QED BY <2>1, <2>2, SleepStays DEF WakersStay
<1>3. CASE Retention
  <2>1. CASE ReadNextRetention
    <3>1. records' = records
      BY <2>1 DEF ReadNextRetention, cacheVars
    <3>. QED BY <2>1, <3>1, DeadlineType DEF RetentionNotSlept
  <2>2. CASE WokenByPut \/ DeadlineReached \/ CleanUp \/ ClearChanged
    BY <2>2 DEF WokenByPut, DeadlineReached, CleanUp, ClearChanged, RetentionNotSlept
  <2>. QED BY <1>3, <2>1, <2>2 DEF Retention, RetentionTask
<1>4. CASE StrayLands
  BY <1>4 DEF StrayLands, Kept, RetentionNotSlept
<1>5. CASE Shutdown
  BY <1>5 DEF Shutdown, RetentionNotSlept
<1>. QED BY <1>1, <1>2, <1>3, <1>4, <1>5, Zenon DEF Next

-----------------------------------------------------------------------------
(* The start.                                                              *)

\* An idle task knows nothing and reports nothing.
LEMMA IdleStart ==
  ASSUME Init, NEW a \in Slots
  PROVE  /\ act[a].pc = "idle" /\ act[a].key = None /\ act[a].base = None /\ act[a].now = 0
         /\ act[a].asked = 0 /\ act[a].ver = None /\ act[a].prior = None
         /\ act[a].reason = "none"
         /\ ~act[a].met
<1>1. act[a] = Idle
  BY DEF Init
<1>2. ~Idle.met
  BY DEF Idle
<1>3. ~act[a].met
  BY <1>1, <1>2
<1>. QED BY <1>1, <1>3 DEF Idle

\* A process starts with what an earlier one stored, if anything.
LEMMA RefreshStart ==
  ASSUME Init
  PROVE  RefreshInv /\ RetentionNotSlept
<1>1. PICK kept \in SUBSET Keys :
        /\ records = [k \in Keys |-> IF k \in kept THEN FreshRecord(0, 0) ELSE None]
        /\ targets = [k \in Keys |-> IF k \in kept THEN Remembering(Sight(0), None) ELSE None]
  BY DEF Init, CacheInit
<1>2. /\ clock = 0 /\ loop = "read" /\ due = None /\ act = [a \in Slots |-> Idle]
      /\ holder = [k \in Keys |-> None] /\ background = [k \in Keys |-> None]
      /\ site = [k \in Keys |-> 0]
      /\ since = [k \in Keys |-> [v \in Versions |-> IF v = 0 THEN 0 ELSE None]]
      /\ stray = None /\ fullAt = [k \in Keys |-> 0]
  BY DEF Init, CacheInit
<1>3. 0 \in Versions /\ TtlS \in Nat /\ RetentionS \in Nat
  BY CacheConstants DEF Versions
<1>4. FreshRecord(0, 0) \in Record /\ Remembering(Sight(0), None) \in Snapshot
  BY <1>3, RecordTypes, RememberingType
<1>5. RefreshTypes
  <2>1. records \in [Keys -> Record \cup {None}] /\ targets \in [Keys -> Snapshot \cup {None}]
    BY <1>1, <1>4
  <2>2. act \in [Slots -> SlotType]
    BY <1>2, IdleType
  <2>3. \A k \in Keys, v \in Versions : v <= site[k] => since[k][v] \in Nat
    BY <1>2, CacheConstants DEF Versions
  <2>4. since \in [Keys -> [Versions -> Nat \cup {None}]]
    BY <1>2
  <2>5. \A a \in Slots : act[a].pc = "idle"
    BY IdleStart
  <2>. QED BY <1>2, <1>3, <2>1, <2>2, <2>3, <2>4, <2>5 DEF RefreshTypes
<1>6. Exclusive
  BY <1>2, IdleStart DEF Exclusive, Holding
<1>7. \A a \in Slots : Informed(a)
  BY <1>2, IdleStart DEF Informed, Holding
<1>8. Kept
  <2>1. ASSUME NEW k \in Keys, records[k] # None
        PROVE  Honest(k, records[k])
    <3>1. records[k] = FreshRecord(0, 0)
      BY <1>1, <2>1
    <3>2. Honest(k, FreshRecord(0, 0))
      BY <1>2, <1>3 DEF Honest, FreshRecord, CurrentAt
    <3>. QED BY <3>1, <3>2
  <2>. QED BY <1>2, <2>1 DEF Kept
<1>9. Forward
  BY IdleStart DEF Forward
<1>10. Watchful
  BY IdleStart DEF Watchful, Watched
<1>11. Alarmed
  BY IdleStart DEF Alarmed, Told
<1>12. RetentionNotSlept
  BY <1>2 DEF RetentionNotSlept
<1>. QED BY <1>5, <1>6, <1>7, <1>8, <1>9, <1>10, <1>11, <1>12 DEF RefreshInv

\* Every step keeps the invariant.
LEMMA RefreshStep ==
  ASSUME RefreshInv, [Next]_vars
  PROVE  RefreshInv'
<1>1. RefreshTypes'
  BY TypesStep DEF RefreshInv
<1>2. Exclusive'
  BY LockStep DEF RefreshInv
<1>3. \A a \in Slots : Informed(a)'
  BY <1>1, InformStep DEF RefreshInv
<1>4. Kept'
  BY KeptStep DEF RefreshInv
<1>5. Forward'
  BY ForwardStep DEF RefreshInv
<1>6. Watchful'
  BY WatchfulStep DEF RefreshInv
<1>7. Alarmed'
  BY AlarmedStep DEF RefreshInv
<1>. QED BY <1>1, <1>2, <1>3, <1>4, <1>5, <1>6, <1>7 DEF RefreshInv

-----------------------------------------------------------------------------
(* What the refreshes promise.                                             *)

\* The inductive invariant: who holds which lock, how old what each task carries may be, what
\* the cache holds, and which watch has reported which version.
THEOREM RefreshInvariant == Spec => []RefreshInv
<1>1. Init => RefreshInv
  BY RefreshStart
<1>2. RefreshInv /\ [Next]_vars => RefreshInv'
  BY RefreshStep
<1>. QED BY <1>1, <1>2, PTL DEF Spec

\* PageRefreshCoordinator.lock: whoever ends, by an answer, a failure, a cancellation or the
\* end of the application, leaves the lock it holds; no key is locked for ever.
THEOREM LocksAreLive == Spec => []LockIsLive
<1>1. RefreshInv => LockIsLive
  BY DEF RefreshInv, Exclusive, LockIsLive
<1>. QED BY <1>1, RefreshInvariant, PTL

\* _cached_fetch_one and _refresh_one: however requests, background refreshes, put threads
\* and changes of the page interleave, no record is dated after the page it holds was
\* replaced, and no answer is older than its reason allows.
THEOREM AnswersAreHonest == Spec => []HonestAnswer
<1>1. RefreshInv => AgeIsHonest
  BY DEF RefreshInv, Kept, Honest, AgeIsHonest
<1>2. RefreshInv => AnswerIsCurrent
  BY DEF RefreshInv, Informed, Horizon, AnswerIsCurrent, Slots
<1>3. RefreshInv => HonestAnswer
  BY <1>1, <1>2 DEF HonestAnswer
<1>. QED BY <1>3, RefreshInvariant, PTL

\* put under the key's lock: no step replaces a record by an older version of its page, unless
\* a put was abandoned to its thread.
THEOREM RefreshesGoForward == Spec => NeverBack
<1>1. ASSUME RefreshInv, [Next]_vars, NEW k \in Keys,
             records[k] # None, records'[k] # None, ~unwoken
      PROVE  records'[k].ver >= records[k].ver
  <2>0. /\ RefreshTypes /\ records[k].ver \in Nat
        /\ \A s \in Slots : Informed(s)
    BY <1>1, CacheConstants DEF RefreshInv, RefreshTypes, Record, Versions
  <2>1. CASE Drops \/ records' = records
    <3>1. records'[k] = records[k]
      BY <1>1, <2>1 DEF Drops
    <3>. QED BY <2>0, <3>1
  <2>2. ASSUME NEW a \in Slots, Store(a)
        PROVE  records'[k].ver >= records[k].ver
    <3>1. /\ act[a].pc \in {"store", "touch"} /\ act[a].ver # None
          /\ act[a].ver \in Nat /\ Key(a) \in Keys
      BY <2>0, <2>2, CacheConstants DEF Store, RefreshTypes, SlotType, Versions, Informed
    <3>2. Writes(Written(a)) /\ Written(a).key = Key(a) /\ Written(a).rec.ver = act[a].ver
      BY <2>0, <2>2, <3>1, StoreEffect, WrittenHonest
    <3>3. CASE k = Key(a)
      <4>1. records[k].ver <= act[a].ver
        BY <1>1, <3>1, <3>3 DEF RefreshInv, Forward
      <4>2. records'[k] = Written(a).rec
        BY <2>0, <3>2, <3>3 DEF Writes, RefreshTypes
      <4>. QED BY <2>0, <3>1, <3>2, <4>1, <4>2
    <3>4. CASE k # Key(a)
      <4>1. records'[k] = records[k]
        BY <2>0, <3>2, <3>4 DEF Writes, RefreshTypes
      <4>. QED BY <2>0, <4>1
    <3>. QED BY <3>3, <3>4
  <2>3. ASSUME NEW a \in Slots, Cancel(a)
        PROVE  records' = records
    BY <2>3 DEF Cancel, cacheVars
  <2>4. ~StrayLands
    BY <1>1 DEF StrayLands, RefreshInv, Kept
  <2>. QED BY <1>1, <2>0, <2>1, <2>2, <2>3, <2>4, CacheCases
<1>2. RefreshInv /\ [Next]_vars =>
        [\A k \in Keys : (records[k] # None /\ records'[k] # None /\ ~unwoken)
            => records'[k].ver >= records[k].ver]_vars
  BY <1>1
<1>. QED BY <1>2, RefreshInvariant, PTL DEF Spec, NeverBack

\* docs/architecture/security.md:124 and _retention_loop: neither reads nor 304 answers move a
\* deadline past the last full fetch, and the task that deletes records never sleeps past one
\* without a put about to wake it.
THEOREM RetentionIsKept == Spec => []RetentionHolds
<1>1. Init => RefreshInv /\ RetentionNotSlept
  BY RefreshStart
<1>2. RefreshInv /\ RetentionNotSlept /\ [Next]_vars => RefreshInv' /\ RetentionNotSlept'
  BY RefreshStep, RetentionNotSleptStep DEF RefreshInv
<1>3. RefreshInv => RetentionAbsolute
  BY DEF RefreshInv, Kept, Honest, RetentionAbsolute
<1>4. RefreshInv /\ RetentionNotSlept => RetentionHolds
  BY <1>3 DEF RetentionHolds
<1>. QED BY <1>1, <1>2, <1>4, PTL DEF Spec

\* evaluate_watch under the key's lock: however many requests watch a target, one of them
\* reports its transition to the desired state, as long as no put was abandoned.
THEOREM OneAlarmAChange == Spec => []AlarmOnce
<1>1. RefreshInv => AlarmOnce
  BY DEF RefreshInv, Alarmed, Behind, Told, AlarmOnce, Slots
<1>. QED BY <1>1, RefreshInvariant, PTL
=============================================================================
