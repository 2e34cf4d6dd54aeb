---------------------------- MODULE FetchRefresh ----------------------------
(***************************************************************************)
(* Cached fetches (orchestrator/fetch_pipeline.py) on the page cache:      *)
(* requests that answer from a record, refresh it under its key's lock,    *)
(* join a refresh that finished while they waited, or answer stale and     *)
(* leave the refresh to a background task; target watches on the way.      *)
(*                                                                         *)
(* asyncio switches at `await` only.  A step is one cache transaction or   *)
(* one fetch, with the code up to the next await.  A put whose caller is   *)
(* cancelled has left its thread behind: it commits later (stray).         *)
(***************************************************************************)
EXTENDS PageCache

CONSTANTS
  Requests,     \* one slot per fetch request
  Backgrounds,  \* slots for background refreshes
  Kinds,        \* what a request may ask for
  MaxFaults     \* bound: deadlines and disconnects that end a task early, clear-url commands

ASSUME FetchConstants ==
  /\ Kinds \subseteq {"plain", "force", "swr", "watch", "forceWatch"}
  /\ MaxFaults \in Nat
  /\ Requests \cap Backgrounds = {} /\ None \notin Requests \cup Backgrounds

VARIABLES
  act,        \* each request or background refresh
  holder,     \* the slot in each key's refresh lock, or None
  background, \* PageRefreshCoordinator._background: the slot of each key, or None
  site,       \* the version the site serves now
  since,      \* history: when each version of a page appeared, or None
  stray,      \* a put abandoned by its caller, or None
  faults,     \* cancellations and clear-url commands so far
  unwoken,    \* history: a put was abandoned, so nobody woke the retention task for it
  fullAt,     \* history: the latest begin of a fetch that brought content
  open        \* FALSE once the application has shut down

taskVars == <<act, holder, background>>
siteVars == <<site, since>>
faultVars == <<stray, faults, unwoken>>
vars == <<cacheVars, clock, loopVars, taskVars, siteVars, faultVars, fullAt, open>>

Slots == Requests \cup Backgrounds
Forced == {"force", "forceWatch"}
Watching == {"watch", "forceWatch"}

Idle == [pc |-> "idle", key |-> None, kind |-> "plain", base |-> None, now |-> 0,
         asked |-> 0, ver |-> None, prior |-> None, met |-> FALSE, reason |-> "none"]

Holding == {"latest", "fetch", "prior", "store", "touch", "wake", "watch"}
Running == Holding \cup {"get", "target", "refused", "lock", "live"}

Key(a) == act[a].key
Watches(a) == act[a].kind \in Watching
Goto(a, pc) == act' = [act EXCEPT ![a].pc = pc]

\* A background task that has returned waits for its done callback.
Final(a) == IF a \in Backgrounds THEN "ended" ELSE "done"

\* Leaves the lock, if it is held, with the slot's final record.
Conclude(a, final) ==
  /\ act' = [act EXCEPT ![a] = [final EXCEPT !.pc = Final(a)]]
  /\ holder' = [k \in Keys |-> IF holder[k] = a THEN None ELSE holder[k]]

Answered(a, ver, reason) ==
  [pc |-> act[a].pc, key |-> Key(a), kind |-> "plain",
   base |-> IF reason = "coalesced" THEN act[a].base ELSE None,
   now |-> 0, asked |-> act[a].asked, ver |-> ver, prior |-> None,
   met |-> act[a].met, reason |-> reason]

\* An answer without content from the cache or for it: bypassed, failed, cancelled.
Unanswered(a) == [Idle EXCEPT !.key = Key(a)]

-----------------------------------------------------------------------------
(* _cached_fetch_one                                                       *)

\* Robots rules, credentials in the address or a bypass reason make a fetch "live".
Ask(a, k) ==
  /\ open /\ act[a].pc = "idle" /\ a \in Requests
  /\ \E kind \in Kinds, pc \in {"get", "live"} :
       act' = [act EXCEPT ![a] = [Idle EXCEPT !.pc = pc, !.key = k, !.kind = kind,
                                               !.now = clock, !.asked = clock]]
  /\ UNCHANGED <<cacheVars, loopVars, clock, holder, background, siteVars, faultVars, fullAt, open>>

\* _run_uncached: no lock, no record.
FetchLive(a) ==
  /\ act[a].pc = "live"
  /\ Conclude(a, Unanswered(a))
  /\ UNCHANGED <<cacheVars, loopVars, clock, background, siteVars, faultVars, fullAt, open>>

\* Mutant of IsFresh: the stale window is everybody's.
IsFreshOrStale(a, rec, snap) ==
  /\ rec # None /\ act[a].now < rec.expires + StaleS
  /\ act[a].kind \notin Forced
  /\ Watches(a) => snap # None

IsFresh(a, rec, snap) ==
  /\ rec # None /\ act[a].now < rec.expires
  /\ act[a].kind \notin Forced
  /\ Watches(a) => snap # None

MayServeStale(a, rec) ==
  rec # None /\ act[a].now < rec.expires + StaleS /\ act[a].kind = "swr"

AnswerFresh(a, rec, snap) ==
  /\ IsFresh(a, rec, snap)
  /\ Conclude(a, Answered(a, rec.ver, "ttl"))
  /\ UNCHANGED background

\* start_background: one task a key, unless the registered one has returned.
AnswerStale(a, rec, snap) ==
  /\ ~IsFresh(a, rec, snap) /\ MayServeStale(a, rec)
  /\ LET k == Key(a)
         answer == [Answered(a, rec.ver, "refresh_started") EXCEPT !.pc = "done"]
     IN IF background[k] # None /\ act[background[k]].pc \in Running
        THEN act' = [act EXCEPT ![a] = answer] /\ UNCHANGED background
        ELSE \E b \in {s \in Backgrounds : act[s].pc = "idle"} :
               /\ act' = [act EXCEPT
                    ![a] = answer,
                    ![b] = [Idle EXCEPT !.pc = "lock", !.key = k, !.base = rec]]
               /\ background' = [background EXCEPT ![k] = b]
  /\ UNCHANGED holder

\* From here on, requests differ only in whether they watch.
ToLock(a, rec) ==
  act' = [act EXCEPT ![a].pc = "lock", ![a].base = rec,
                     ![a].kind = IF Watches(a) THEN "watch" ELSE "plain"]

MustRefresh(a, rec, snap) ==
  /\ ~IsFresh(a, rec, snap) /\ ~MayServeStale(a, rec)
  /\ ToLock(a, rec)
  /\ UNCHANGED <<holder, background>>

Decide(a, rec, snap) ==
  AnswerFresh(a, rec, snap) \/ AnswerStale(a, rec, snap) \/ MustRefresh(a, rec, snap)

\* `now` was read before the record is.  The final address of a redirected record is
\* checked again: it may be refused now.
GetRecord(a) ==
  /\ act[a].pc = "get"
  /\ Read(Key(a))
  /\ LET rec == Live(Key(a))
     IN \/ /\ rec # None
           /\ Goto(a, "refused") /\ UNCHANGED <<holder, background>>
        \/ /\ Watches(a)
           /\ act' = [act EXCEPT ![a].pc = "target", ![a].base = rec]
           /\ UNCHANGED <<holder, background>>
        \/ ~Watches(a) /\ Decide(a, rec, None)
  /\ UNCHANGED <<loopVars, clock, siteVars, faultVars, fullAt, open>>

DeleteRefused(a) ==
  /\ act[a].pc = "refused"
  /\ Delete(Key(a))
  /\ ToLock(a, None)
  /\ UNCHANGED <<loopVars, clock, holder, background, siteVars, faultVars, fullAt, open>>

GetTarget(a) ==
  /\ act[a].pc = "target"
  /\ Read(Key(a))
  /\ Decide(a, act[a].base, LiveTarget(Key(a)))
  /\ UNCHANGED <<loopVars, clock, siteVars, faultVars, fullAt, open>>

-----------------------------------------------------------------------------
(* _refresh_one, under the key's lock                                      *)

\* Mutant of Acquire: a refresh does not wait for the one before it.
AcquireAlways(a) ==
  /\ act[a].pc = "lock"
  /\ holder' = [holder EXCEPT ![Key(a)] = a]
  /\ act' = [act EXCEPT ![a].pc = "latest", ![a].now = clock]
  /\ UNCHANGED <<cacheVars, loopVars, clock, background, siteVars, faultVars, fullAt, open>>

Acquire(a) ==
  /\ act[a].pc = "lock" /\ holder[Key(a)] = None
  /\ holder' = [holder EXCEPT ![Key(a)] = a]
  /\ act' = [act EXCEPT ![a].pc = "latest", ![a].now = clock]
  /\ UNCHANGED <<cacheVars, loopVars, clock, background, siteVars, faultVars, fullAt, open>>

\* Somebody refreshed the record since this task read it.
IsNewer(latest, base) ==
  latest # None /\ (base # None => latest.fetched > base.fetched)

ReadLatest(a) ==
  /\ act[a].pc = "latest"
  /\ Read(Key(a))
  /\ LET latest == Live(Key(a))
     IN \/ /\ IsNewer(latest, act[a].base)
           /\ IF Watches(a)
              THEN /\ act' = [act EXCEPT ![a] =
                                [Answered(a, latest.ver, "coalesced") EXCEPT !.pc = "watch"]]
                   /\ UNCHANGED holder
              ELSE Conclude(a, Answered(a, latest.ver, "coalesced"))
        \/ /\ ~IsNewer(latest, act[a].base)
           /\ act' = [act EXCEPT ![a].pc = "fetch",
                                 ![a].base = IF latest = None THEN @ ELSE latest]
           /\ UNCHANGED holder
  /\ UNCHANGED <<loopVars, clock, background, siteVars, faultVars, fullAt, open>>

\* A 304 to the record's validators, content (which a 404 or 410 counts as), or a
\* failure, which replaces nothing.
FetchPage(a) ==
  /\ act[a].pc = "fetch"
  /\ LET k == Key(a)
         Next(pc, ver) == act' = [act EXCEPT ![a].pc = pc, ![a].ver = ver]
     IN \/ /\ act[a].base # None /\ act[a].base.ver = site[k]
           /\ Next("touch", site[k])
           /\ UNCHANGED <<holder, fullAt>>
        \/ /\ Next(IF Watches(a) THEN "prior" ELSE "store", site[k])
           /\ fullAt' = [fullAt EXCEPT ![k] = Max({@, act[a].now})]
           /\ UNCHANGED holder
        \/ /\ IF Watches(a) THEN Next("prior", None) /\ UNCHANGED holder
                            ELSE Conclude(a, Unanswered(a))
           /\ UNCHANGED fullAt
  /\ UNCHANGED <<cacheVars, loopVars, clock, background, siteVars, faultVars, open>>

PriorTarget(a) == Baseline(LiveTarget(Key(a)))

\* _persist_refresh of a watch reads what it saw before, then evaluates.
ReadPrior(a) ==
  /\ act[a].pc = "prior"
  /\ Read(Key(a))
  /\ IF act[a].ver = None
     THEN Conclude(a, Unanswered(a))
     ELSE /\ act' = [act EXCEPT ![a].pc = "store", ![a].prior = PriorTarget(a),
                                ![a].met = Met(PriorTarget(a), Sight(act[a].ver))]
          /\ UNCHANGED holder
  /\ UNCHANGED <<loopVars, clock, background, siteVars, faultVars, fullAt, open>>

\* Mutant of Stamp: the record is dated when it is stored.
StampAtStore(a) == clock
\* A record is dated before its fetch began.
Stamp(a) == act[a].now

\* What a task in "store" or "touch" is about to write.
Written(a) ==
  LET touched == act[a].pc = "touch"
  IN [key |-> Key(a),
      rec |-> IF touched THEN Revalidated(act[a].base, Stamp(a))
                         ELSE FreshRecord(act[a].ver, Stamp(a)),
      snap |-> IF ~touched /\ Watches(a) THEN Remembering(Sight(act[a].ver), act[a].prior)
                                         ELSE None]

Commit(w) == IF w.snap = None THEN Put(w.key, w.rec) ELSE PutWithTarget(w.key, w.rec, w.snap)

Store(a) ==
  /\ act[a].pc \in {"store", "touch"}
  /\ Commit(Written(a))
  /\ act' = [act EXCEPT ![a].pc = "wake",
                        ![a].reason = IF act[a].pc = "touch" THEN "not_modified" ELSE "miss"]
  /\ UNCHANGED <<loopVars, clock, holder, background, siteVars, faultVars, fullAt, open>>

\* The rest of put, on the event loop.
Wake(a) ==
  /\ act[a].pc = "wake"
  /\ changed' = TRUE
  /\ IF act[a].reason = "not_modified" /\ Watches(a)
     THEN Goto(a, "watch") /\ UNCHANGED holder
     ELSE Conclude(a, Answered(a, act[a].ver, act[a].reason))
  /\ UNCHANGED <<cacheVars, clock, loop, due, background, siteVars, faultVars, fullAt, open>>

\* _cached_watch_result: nothing has changed, so no condition is met.
ReadWatch(a) ==
  /\ act[a].pc = "watch"
  /\ Read(Key(a))
  /\ Conclude(a, Answered(a, act[a].ver, act[a].reason))
  /\ UNCHANGED <<loopVars, clock, background, siteVars, faultVars, fullAt, open>>

\* The done callback removes whatever task the key has by now.
Finished(b) ==
  /\ act[b].pc = "ended"
  /\ background' = [background EXCEPT ![Key(b)] = None]
  /\ act' = [act EXCEPT ![b] = Idle]
  /\ UNCHANGED <<cacheVars, loopVars, clock, holder, siteVars, faultVars, fullAt, open>>

-----------------------------------------------------------------------------
(* Deadlines, disconnects, shutdown, operators and the outside world       *)

Abandons(a) == act[a].pc \in {"store", "touch", "wake"}

\* Mutant of Cancel: the lock is not released on the way out.
CancelKeepingLock(a) ==
  /\ act[a].pc \in Running \ {"store", "touch", "wake"} /\ faults < MaxFaults
  /\ faults' = faults + 1
  /\ act' = [act EXCEPT ![a] = [Unanswered(a) EXCEPT !.pc = Final(a)]]
  /\ UNCHANGED <<cacheVars, loopVars, clock, holder, background, siteVars, stray, unwoken, fullAt, open>>

\* A put that has not committed goes on in its thread; one that has wakes nobody.
Cancel(a) ==
  /\ act[a].pc \in Running /\ faults < MaxFaults
  /\ faults' = faults + 1
  /\ IF act[a].pc \in {"store", "touch"}
     THEN stray = None /\ stray' = Written(a)
     ELSE UNCHANGED stray
  /\ unwoken' = (unwoken \/ Abandons(a))
  /\ Conclude(a, Unanswered(a))
  /\ UNCHANGED <<cacheVars, loopVars, clock, background, siteVars, fullAt, open>>

StrayLands ==
  /\ stray # None
  /\ Commit(stray)
  /\ stray' = None
  /\ UNCHANGED <<loopVars, clock, taskVars, siteVars, faults, unwoken, fullAt, open>>

ClearUrl(k) ==
  /\ faults < MaxFaults /\ faults' = faults + 1
  /\ Delete(k)
  /\ UNCHANGED <<loopVars, clock, taskVars, siteVars, stray, unwoken, fullAt, open>>

\* The page changes, perhaps more than once between two looks at it.
Publish(k) ==
  /\ open
  /\ \E v \in (site[k] + 1)..MaxVersion :
       /\ site' = [site EXCEPT ![k] = v]
       /\ since' = [since EXCEPT ![k] =
                      [w \in Versions |-> IF w \in (site[k] + 1)..v THEN clock ELSE @[w]]]
  /\ UNCHANGED <<cacheVars, loopVars, clock, taskVars, faultVars, fullAt, open>>

Tick ==
  /\ open /\ clock < MaxClock /\ clock' = clock + 1
  /\ UNCHANGED <<cacheVars, loopVars, taskVars, siteVars, faultVars, fullAt, open>>

\* The lifespan ends: registered refreshes are cancelled, then the cache is closed.
Shutdown ==
  /\ open /\ \A a \in Requests : act[a].pc \in {"idle", "done"}
  /\ open' = FALSE
  /\ LET registered == {background[k] : k \in Keys} \cap {b \in Slots : act[b].pc \in Running}
     IN /\ act' = [a \in Slots |-> IF a \in registered
                                   THEN [Unanswered(a) EXCEPT !.pc = "ended"]
                                   ELSE act[a]]
        /\ holder' = [k \in Keys |-> IF holder[k] \in registered THEN None ELSE holder[k]]
  /\ background' = [k \in Keys |-> None]
  /\ UNCHANGED <<cacheVars, loopVars, clock, siteVars, faultVars, fullAt>>

-----------------------------------------------------------------------------
Init ==
  /\ CacheInit
  /\ act = [a \in Slots |-> Idle]
  /\ holder = [k \in Keys |-> None] /\ background = [k \in Keys |-> None]
  /\ site = [k \in Keys |-> 0]
  /\ since = [k \in Keys |-> [v \in Versions |-> IF v = 0 THEN 0 ELSE None]]
  /\ stray = None /\ faults = 0 /\ unwoken = FALSE
  /\ fullAt = [k \in Keys |-> 0] /\ open = TRUE

Retention ==
  /\ open /\ RetentionTask
  /\ UNCHANGED <<clock, taskVars, siteVars, faultVars, fullAt, open>>

Task(a) ==
  \/ \E k \in Keys : Ask(a, k)
  \/ FetchLive(a) \/ GetRecord(a) \/ DeleteRefused(a) \/ GetTarget(a)
  \/ Acquire(a) \/ ReadLatest(a) \/ FetchPage(a) \/ ReadPrior(a) \/ Store(a) \/ Wake(a)
  \/ ReadWatch(a) \/ Finished(a) \/ Cancel(a)

Next ==
  \/ \E a \in Slots : Task(a)
  \/ \E k \in Keys : ClearUrl(k) \/ Publish(k)
  \/ Retention \/ StrayLands \/ Tick \/ Shutdown

Spec == Init /\ [][Next]_vars

-----------------------------------------------------------------------------
(* Properties                                                              *)

\* The version v of k was the site's at t or later.
CurrentAt(k, v, t) ==
  v = site[k] \/ (v < site[k] /\ since[k][v + 1] >= t)

\* Every variable keeps its type.
FetchTypeOK ==
  /\ CacheTypeOK
  /\ \A a \in Slots :
       /\ act[a].pc \in Running \cup {"idle", "ended", "done"}
       /\ act[a].key \in Keys \cup {None}
       /\ act[a].base \in Record \cup {None}
       /\ act[a].ver \in Versions \cup {None}
  /\ holder \in [Keys -> Slots \cup {None}]
  /\ background \in [Keys -> Backgrounds \cup {None}]
  /\ stray # None => stray.rec \in Record

\* A record is at least as new as it says it is, so that its age and its expiry are
\* honest: a page that changes during its fetch is not dated after the change.
AgeIsHonest ==
  \A k \in Keys : records[k] # None => CurrentAt(k, records[k].ver, records[k].fetched)

\* What a request is answered was on the site after the request, or within the lifetime
\* (and, when it asked for it, the stale window) before it, or is newer than what it
\* found when it joined another's refresh.
AnswerIsCurrent ==
  \A a \in Requests :
    (act[a].pc = "done" /\ act[a].ver # None) =>
      CurrentAt(Key(a), act[a].ver,
                CASE act[a].reason = "ttl" -> act[a].asked - TtlS + 1
                  [] act[a].reason = "refresh_started" -> act[a].asked - TtlS - StaleS + 1
                  [] act[a].reason = "coalesced" ->
                       IF act[a].base = None THEN 0 ELSE act[a].base.fetched + 1
                  [] OTHER -> act[a].asked)

\* No answer is older than the request, the lifetime and the refreshes it joined allow; the
\* dates it is judged by are honest themselves.
HonestAnswer == AgeIsHonest /\ AnswerIsCurrent

\* No refresh puts older content over newer: concurrent refreshes, foreground and
\* background, take turns.  An abandoned put is the exception.
NeverBack ==
  [][\A k \in Keys : (records[k] # None /\ records'[k] # None /\ ~unwoken)
        => records'[k].ver >= records[k].ver]_vars

\* Reads and 304 answers do not extend a record's retention past its last full fetch.
RetentionAbsolute ==
  \A k \in Keys : records[k] # None => records[k].retained <= fullAt[k] + RetentionS

\* One change of a page from the expected to the desired state is reported to one
\* watching request, however many watch at the same time.
AlarmOnce ==
  unwoken \/
  \A a, b \in Requests :
    (a # b /\ act[a].pc = "done" /\ act[b].pc = "done" /\ act[a].met /\ act[b].met)
      => Key(a) # Key(b) \/ act[a].ver # act[b].ver

\* The retention task never sleeps past a record's deadline with nobody about to wake it.
RetentionNotSlept ==
  (open /\ loop = "sleep" /\ ~changed /\ ~unwoken) =>
    \A k \in Keys :
      \/ records[k] = None
      \/ due # None /\ due <= records[k].retained
      \/ \E a \in Slots : act[a].pc = "wake" /\ Key(a) = k

\* docs/architecture/security.md:124: a record goes at its deadline, which no read, 304 or
\* concurrent put moves, and which the task does not miss.
RetentionHolds == RetentionAbsolute /\ RetentionNotSlept

\* A refresh lock is held by a task that is still running.
LockIsLive ==
  \A k \in Keys : holder[k] # None => act[holder[k]].pc \in Holding
=============================================================================
