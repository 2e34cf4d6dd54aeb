------------------------------ MODULE PageCache ------------------------------
(***************************************************************************)
(* The optional SQLite page cache (orchestrator/page_cache.py): one record *)
(* per cache key, the target snapshots that hang on it, and the task that  *)
(* removes records at their retention deadline.  Each operation is one     *)
(* transaction in a thread.                                                *)
(*                                                                         *)
(* What is abstracted: a record is the version of the page it holds and    *)
(* its three times; a snapshot is what one watch saw of its target.        *)
(***************************************************************************)
EXTENDS Integers, FiniteSets, FiniteSetsExt

CONSTANTS
  Keys,        \* cache keys
  None,        \* no record, no snapshot, no deadline
  MaxVersion,  \* bound: how often a page changes
  TtlS,        \* page_cache_ttl_s
  StaleS,      \* page_cache_stale_s
  RetentionS,  \* page_cache_retention_s
  MaxClock     \* bound: the clock stops here

ASSUME CacheConstants ==
  /\ MaxVersion \in Nat /\ MaxClock \in Nat
  /\ TtlS \in Nat \ {0} /\ StaleS \in Nat
  /\ RetentionS \in Nat /\ TtlS + StaleS <= RetentionS
  /\ None \notin Nat

VARIABLES
  records,  \* page_cache: the record under each key, or None
  targets,  \* target_snapshots: what the watch last saw under each key, or None
  clock,    \* time.time()
  loop,     \* where the retention task is
  due,      \* next_retention as it read it, or None
  changed   \* _retention_changed

cacheVars == <<records, targets>>
loopVars == <<loop, due, changed>>

Versions == 0..MaxVersion
Record == [ver : Versions, fetched : Nat, expires : Nat, retained : Nat]

\* The watched element as the versions of a page show it.  A version without it is a
\* removed page (404 or 410), which is kept as a tombstone.
Sight(v) == CASE v % 3 = 0 -> "expected" [] v % 3 = 1 -> "missing" [] OTHER -> "desired"
Found == {"expected", "desired"}
Snapshot == [cur : Found \cup {"missing"}, base : Found \cup {None}]

\* No stored or reported value is None itself (SQL NULL).
ASSUME NoneIsNoValue == None \notin Record \cup Snapshot \cup Found

\* _target_baseline: the last time the target was found.
Baseline(s) == IF s = None THEN None ELSE s.base
\* _stored_target_snapshot
Remembering(sight, previous) ==
  [cur |-> sight, base |-> IF sight \in Found THEN sight ELSE previous]
\* Mutant of Met: the desired state is reported whenever it is seen.
MetAgain(previous, sight) == sight = "desired" /\ previous # None
\* evaluate_watch: the condition is met on an expected-to-desired transition only.
Met(previous, sight) == sight = "desired" /\ previous = "expected"

FreshRecord(v, t) ==
  [ver |-> v, fetched |-> t, expires |-> t + TtlS, retained |-> t + RetentionS]

\* Mutant of Revalidated: a 304 starts a new retention.
RevalidatedAnew(rec, t) == FreshRecord(rec.ver, t)
\* A 304 renews the record's freshness, not its retention.
Revalidated(rec, t) == [rec EXCEPT !.fetched = t, !.expires = t + TtlS]

-----------------------------------------------------------------------------
(* Transactions.  Deleting a record deletes its snapshots.                 *)

Without(ks) ==
  /\ records' = [k \in Keys |-> IF k \in ks THEN None ELSE records[k]]
  /\ targets' = [k \in Keys |-> IF k \in ks THEN None ELSE targets[k]]

Overdue(t) == {k \in Keys : records[k] # None /\ records[k].retained <= t}

\* _get and _get_target: a record past its retention is deleted by the read.
Live(k) == IF k \in Overdue(clock) THEN None ELSE records[k]
LiveTarget(k) == IF k \in Overdue(clock) THEN None ELSE targets[k]
Read(k) == Without(Overdue(clock) \cap {k})

\* _put: the snapshots of an older record stay.
Put(k, rec) == records' = [records EXCEPT ![k] = rec] /\ UNCHANGED targets

PutWithTarget(k, rec, s) ==
  /\ records' = [records EXCEPT ![k] = rec]
  /\ targets' = [targets EXCEPT ![k] = s]

\* delete and clear_url
Delete(k) == Without({k})
\* cleanup, stats and the opening of the database
Cleanup(t) == Without(Overdue(t))

-----------------------------------------------------------------------------
(* _retention_loop                                                         *)

ReadNextRetention ==
  /\ loop = "read"
  /\ due' = LET kept == {k \in Keys : records[k] # None}
            IN IF kept = {} THEN None ELSE Min({records[k].retained : k \in kept})
  /\ loop' = "sleep"
  /\ UNCHANGED <<cacheVars, changed>>

WokenByPut ==
  /\ loop = "sleep" /\ changed
  /\ loop' = "read" /\ changed' = FALSE /\ due' = None
  /\ UNCHANGED cacheVars

DeadlineReached ==
  /\ loop = "sleep" /\ ~changed /\ due # None /\ due <= clock
  /\ loop' = "clean" /\ due' = None
  /\ UNCHANGED <<cacheVars, changed>>

CleanUp ==
  /\ loop = "clean"
  /\ Cleanup(clock)
  /\ loop' = "clear"
  /\ UNCHANGED <<due, changed>>

\* Mutant of ClearChanged: the loop sleeps on without reading the next deadline.
ClearChangedOnly ==
  /\ loop = "clear"
  /\ loop' = "sleep" /\ changed' = FALSE
  /\ UNCHANGED <<cacheVars, due>>

\* `finally: event.clear()` forgets the puts that came during the cleanup; the next
\* deadline is read after it.
ClearChanged ==
  /\ loop = "clear"
  /\ loop' = "read" /\ changed' = FALSE
  /\ UNCHANGED <<cacheVars, due>>

RetentionTask ==
  ReadNextRetention \/ WokenByPut \/ DeadlineReached \/ CleanUp \/ ClearChanged

\* The database may hold what an earlier process stored and watched.
CacheInit ==
  /\ \E kept \in SUBSET Keys :
       /\ records = [k \in Keys |-> IF k \in kept THEN FreshRecord(0, 0) ELSE None]
       /\ targets = [k \in Keys |-> IF k \in kept THEN Remembering(Sight(0), None) ELSE None]
  /\ clock = 0 /\ loop = "read" /\ due = None /\ changed = FALSE

CacheTypeOK ==
  /\ records \in [Keys -> Record \cup {None}]
  /\ targets \in [Keys -> Snapshot \cup {None}]
  /\ clock \in 0..MaxClock
  /\ loop \in {"read", "sleep", "clean", "clear"}
  /\ due \in Nat \cup {None} /\ changed \in BOOLEAN
=============================================================================
