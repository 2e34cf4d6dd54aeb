----------------------------- MODULE Politeness -----------------------------
(***************************************************************************)
(* Pacing of the requests to one host (orchestrator/politeness.py): the    *)
(* spacing between them, the cooldown after a refusal, and the state of    *)
(* hosts nobody talks to, which is dropped when another host turns up.     *)
(*                                                                         *)
(* A caller waits for its host's lock, sleeps under it until the host may  *)
(* be asked, fetches without it and records the answer.  Between awaits    *)
(* nothing interleaves.  Time is in seconds of the monotonic clock.        *)
(***************************************************************************)
EXTENDS Integers, Sequences, FiniteSets, SequencesExt

CONSTANTS
  None,         \* no lock
  Callers,      \* requests on their way, over and over again
  Hosts,
  Locks,        \* the objects in _locks: one a caller is enough
  Spacings,     \* default delay, robots delay and jitter of one request, together
  RetryAfters,  \* parsed Retry-After values
  MaxCooldown,  \* max_cooldown_s
  MaxClock      \* bound: of the clock

ASSUME PoliteConstants ==
  /\ Spacings \subseteq Nat /\ RetryAfters \subseteq 0..MaxCooldown
  /\ MaxCooldown \in Nat \ {0} /\ MaxClock \in Nat
  /\ None \notin Locks /\ None \notin Callers

VARIABLES
  clock,
  nextAllowed, \* _next_allowed, 0 where there is no entry
  failures,    \* _failures, 0 where there is no entry
  lockOf,      \* _locks, or None
  lock,        \* each lock's holder, or None, and its waiters
  caller,      \* where each caller is: its host, lock, and when its sleep ends
  earliest     \* history: when the host may be asked next, as agreed so far

vars == <<clock, nextAllowed, failures, lockOf, lock, caller, earliest>>

Greater(m, n) == IF m > n THEN m ELSE n
Lesser(m, n) == IF m < n THEN m ELSE n

Away == [pc |-> "away", host |-> None, lock |-> None, until |-> 0]
FreeLock == [holder |-> None, queue |-> <<>>]
InUse(l) == \E c \in Callers : caller[c].lock = l

-----------------------------------------------------------------------------
(* HostPoliteness.wait                                                     *)

\* lock.locked(): a lock that was released to a waiter is not, until the waiter runs.
IsLocked(l) == lock[l].holder # None

\* Mutant of Idle: the cooldown of a host nobody waits for is forgotten.
IdleAnyway(h) == lockOf[h] # None /\ ~IsLocked(lockOf[h])
\* _evict_idle
Idle(h) == lockOf[h] # None /\ ~IsLocked(lockOf[h]) /\ nextAllowed[h] <= clock

Kept(h, new, f) ==
  [g \in Hosts |-> IF lockOf[h] = None /\ g # h /\ Idle(g) THEN new ELSE f[g]]

\* Joins the lock of the host, which is made if there is none.
Wait(c, h) ==
  LET l == IF lockOf[h] # None THEN lockOf[h]
           ELSE CHOOSE x \in Locks : ~InUse(x) /\ \A g \in Hosts : lockOf[g] # x
  IN /\ caller[c].pc = "away"
     /\ lockOf' = [Kept(h, None, lockOf) EXCEPT ![h] = l]
     /\ nextAllowed' = Kept(h, 0, nextAllowed)
     /\ failures' = Kept(h, 0, failures)
     /\ caller' = [caller EXCEPT ![c] = [pc |-> "lock", host |-> h, lock |-> l, until |-> 0]]
     /\ lock' = [lock EXCEPT ![l].queue = Append(@, c)]
     /\ UNCHANGED <<clock, earliest>>

Acquire(c) ==
  LET l == caller[c].lock
  IN /\ caller[c].pc = "lock" /\ lock[l].holder = None /\ Head(lock[l].queue) = c
     /\ lock' = [lock EXCEPT ![l] = [holder |-> c, queue |-> Tail(@.queue)]]
     /\ caller' = [caller EXCEPT ![c].pc = "asleep"]
     /\ UNCHANGED <<clock, nextAllowed, failures, lockOf, earliest>>

\* Mutant of MayAsk: what was recorded during the sleep is not read.
MayAskAsPlanned(c) == caller[c].until # 0 \/ nextAllowed[caller[c].host] <= clock
MayAsk(c) == nextAllowed[caller[c].host] <= clock

Awake(c) == caller[c].pc = "asleep" /\ caller[c].until <= clock

\* Some cooldown or spacing was agreed since the sleep began: sleep again.
SleepOn(c) ==
  /\ Awake(c) /\ ~MayAsk(c)
  /\ caller' = [caller EXCEPT ![c].until = nextAllowed[caller[c].host]]
  /\ UNCHANGED <<clock, nextAllowed, failures, lockOf, lock, earliest>>

Ask(c) ==
  LET h == caller[c].host
      l == caller[c].lock
  IN /\ Awake(c) /\ MayAsk(c)
     /\ \E s \in Spacings :
          /\ nextAllowed' = [nextAllowed EXCEPT ![h] = Greater(@, clock + s)]
          /\ earliest' = [earliest EXCEPT ![h] = Greater(@, clock + s)]
     /\ lock' = [lock EXCEPT ![l].holder = None]
     /\ caller' = [caller EXCEPT ![c] = [@ EXCEPT !.pc = "fetching", !.lock = None, !.until = 0]]
     /\ UNCHANGED <<clock, failures, lockOf>>

\* The operation is cancelled while it waits.
GiveUp(c) ==
  LET l == caller[c].lock
  IN /\ caller[c].pc \in {"lock", "asleep"}
     /\ lock' = [lock EXCEPT ![l] =
                   [holder |-> IF @.holder = c THEN None ELSE @.holder,
                    queue |-> SelectSeq(@.queue, LAMBDA x : x # c)]]
     /\ caller' = [caller EXCEPT ![c] = Away]
     /\ UNCHANGED <<clock, nextAllowed, failures, lockOf, earliest>>

-----------------------------------------------------------------------------
(* HostPoliteness.record                                                   *)

Adaptive(n) == Lesser(MaxCooldown, 2 ^ Lesser(n, 10))

\* 403 or 429
Refused(c) ==
  LET h == caller[c].host
  IN /\ caller[c].pc = "fetching"
     /\ failures' = [failures EXCEPT ![h] = @ + 1]
     /\ \E retry \in RetryAfters :
          LET t == clock + Greater(Adaptive(failures'[h]), retry)
          IN /\ nextAllowed' = [nextAllowed EXCEPT ![h] = Greater(@, t)]
             /\ earliest' = [earliest EXCEPT ![h] = Greater(@, t)]
     /\ caller' = [caller EXCEPT ![c] = Away]
     /\ UNCHANGED <<clock, lockOf, lock>>

\* Success clears the count of refusals; any other answer, or none, changes nothing.
Answered(c) ==
  /\ caller[c].pc = "fetching"
  /\ \E n \in {0, failures[caller[c].host]} :
       failures' = [failures EXCEPT ![caller[c].host] = n]
  /\ caller' = [caller EXCEPT ![c] = Away]
  /\ UNCHANGED <<clock, nextAllowed, lockOf, lock, earliest>>

-----------------------------------------------------------------------------
Tick ==
  /\ clock < MaxClock /\ clock' = clock + 1
  /\ UNCHANGED <<nextAllowed, failures, lockOf, lock, caller, earliest>>

Init ==
  /\ clock = 0
  /\ nextAllowed = [h \in Hosts |-> 0] /\ failures = [h \in Hosts |-> 0]
  /\ lockOf = [h \in Hosts |-> None] /\ lock = [l \in Locks |-> FreeLock]
  /\ caller = [c \in Callers |-> Away] /\ earliest = [h \in Hosts |-> 0]

Next ==
  \/ \E c \in Callers :
       \/ \E h \in Hosts : Wait(c, h)
       \/ Acquire(c) \/ SleepOn(c) \/ Ask(c) \/ GiveUp(c) \/ Refused(c) \/ Answered(c)
  \/ Tick

Spec == Init /\ [][Next]_vars

-----------------------------------------------------------------------------
(* Properties                                                              *)

\* docs/architecture/pipeline-workflow.md:76: requests to one host honour the spacing, the
\* robots delay, Retry-After and the cooldown that any other request agreed on, while the
\* host's state is evicted and made anew, and also when it was agreed during a sleep.
NeverTooEarly ==
  [][\A c \in Callers :
       caller[c].pc # "fetching" /\ caller'[c].pc = "fetching"
         => clock >= earliest[caller[c].host]]_vars
=============================================================================
