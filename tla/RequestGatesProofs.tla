------------------------- MODULE RequestGatesProofs -------------------------
(***************************************************************************)
(* Proofs about admission and fetching, for any number of requests, any    *)
(* addresses and hosts, and any limits.  First asyncio's semaphore by      *)
(* itself; then the invariant that says who waits for each semaphore and   *)
(* who holds its permits.                                                  *)
(***************************************************************************)
EXTENDS RequestGates, FiniteSetTheorems, SequenceTheorems, TLAPS

-----------------------------------------------------------------------------
(* One semaphore.                                                          *)

InQueue(s, x) == \E i \in 1..Len(s.queue) : s.queue[i] = x
Queued(s, X) == {x \in X : InQueue(s, x)}

\* A semaphore of which `waiters` wait for, or were handed, a permit and `holders` hold one:
\* each waits once, and no permit is lost.
Counted(s, X, limit, waiters, holders) ==
  /\ s \in [free : Nat, queue : Seq(X), granted : SUBSET X]
  /\ \A i, j \in 1..Len(s.queue) : s.queue[i] = s.queue[j] => i = j
  /\ Queued(s, X) \cap s.granted = {}
  /\ waiters = Queued(s, X) \cup s.granted
  /\ IsFiniteSet(s.granted) /\ IsFiniteSet(holders)
  /\ s.free + Cardinality(s.granted) + Cardinality(holders) = limit

\* A free permit goes to whoever waits, if no waiter is on its way already.
NoneSleeps(s) == s.free > 0 /\ s.granted = {} => s.queue = <<>>

Sound(s, X, limit, waiters, holders) ==
  Counted(s, X, limit, waiters, holders) /\ NoneSleeps(s)

\* The first elements of a sequence of different elements are as many as they are.
LEMMA FirstElements ==
  ASSUME NEW X, NEW q \in Seq(X), \A i, j \in 1..Len(q) : q[i] = q[j] => i = j,
         NEW n \in 0..Len(q), NEW S, \A x : x \in S <=> \E j \in 1..n : x = q[j]
  PROVE  IsFiniteSet(S) /\ Cardinality(S) = n
<1>. DEFINE g == [j \in 1..n |-> q[j]]
<1>1. Len(q) \in Nat /\ n \in Nat
  BY LenProperties
<1>2. g \in Bijection(1..n, S)
  BY <1>1 DEF Bijection, Injection, Surjection, IsInjective
<1>3. ExistsBijection(1..n, S)
  BY <1>2 DEF ExistsBijection
<1>4. IsFiniteSet(S)
  BY <1>1, <1>3, FS_NatBijection
<1>5. Cardinality(S) = n
  BY <1>1, <1>3, FS_CountingElements
<1>. QED BY <1>4, <1>5

\* WakeUp hands free permits on and loses none; afterwards nobody sleeps beside one.
LEMMA WakeUpSound ==
  ASSUME NEW s, NEW X, NEW limit \in Nat, NEW W, NEW H, Counted(s, X, limit, W, H)
  PROVE  Sound(WakeUp(s), X, limit, W, H)
<1>. DEFINE q == s.queue
            n == IF s.free < Len(q) THEN s.free ELSE Len(q)
            woken == {q[j] : j \in 1..n}
            rest == SubSeq(q, n + 1, Len(q))
            u == WakeUp(s)
<1>1. q \in Seq(X) /\ Len(q) \in Nat /\ s.free \in Nat /\ s.granted \subseteq X
  BY LenProperties DEF Counted
<1>2. n \in 0..Len(q) /\ n \in Nat /\ n <= s.free /\ (n = s.free \/ n = Len(q))
  BY <1>1
<1>3. u = [free |-> s.free - n, queue |-> rest, granted |-> s.granted \cup woken]
  BY DEF WakeUp
<1>. HIDE DEF n
<1>4. \A i \in 1..Len(q) : q[i] \in X
  BY <1>1, ElementOfSeq
<1>5. \A i \in n + 1..Len(q) : q[i] \in X
  BY <1>1, <1>2, <1>4
<1>6. /\ rest \in Seq(X) /\ Len(rest) = Len(q) - n
      /\ \A i \in 1..Len(q) - n : rest[i] = q[n + i]
  <2>0. n + 1 \in Int /\ Len(q) \in Int
    BY <1>1, <1>2
  <2>1. /\ rest \in Seq(X)
        /\ Len(rest) = IF n + 1 <= Len(q) THEN Len(q) - (n + 1) + 1 ELSE 0
        /\ \A i \in 1..Len(q) - (n + 1) + 1 : rest[i] = q[n + 1 + i - 1]
    BY <1>5, <2>0, SubSeqProperties
  <2>. QED BY <1>1, <1>2, <2>1
<1>7. \A i, j \in 1..Len(q) : q[i] = q[j] => i = j
  BY DEF Counted
<1>8. IsFiniteSet(woken) /\ Cardinality(woken) = n
  <2>1. \A x : x \in woken <=> \E j \in 1..n : x = q[j]
    OBVIOUS
  <2>. HIDE DEF q, woken
  <2>. QED BY <1>1, <1>2, <1>7, <2>1, FirstElements
<1>. HIDE DEF rest
<1>9. woken \subseteq Queued(s, X)
  BY <1>1, <1>2, <1>4 DEF Queued, InQueue
<1>10. woken \cap s.granted = {}
  BY <1>9 DEF Counted
<1>11. IsFiniteSet(s.granted \cup woken)
       /\ Cardinality(s.granted \cup woken) = Cardinality(s.granted) + n
  <2>1. IsFiniteSet(s.granted)
    BY DEF Counted
  <2>2. Cardinality(s.granted) \in Nat /\ Cardinality({}) = 0 /\ s.granted \cap woken = {}
    BY <1>10, <2>1, FS_CardinalityType, FS_EmptySet
  <2>3. /\ IsFiniteSet(s.granted \cup woken)
        /\ Cardinality(s.granted \cup woken)
             = Cardinality(s.granted) + Cardinality(woken) - Cardinality(s.granted \cap woken)
    BY <1>8, <2>1, FS_Union
  <2>4. Cardinality(s.granted \cap woken) = 0
    BY <2>2
  <2>. HIDE DEF woken
  <2>. QED BY <1>2, <1>8, <2>2, <2>3, <2>4
<1>12. Queued(u, X) = Queued(s, X) \ woken
  <2>1. ASSUME NEW x \in X, InQueue(u, x) PROVE InQueue(s, x) /\ x \notin woken
    <3>1. PICK i \in 1..Len(rest) : rest[i] = x
      BY <1>3, <2>1 DEF InQueue
    <3>2. n + i \in 1..Len(q) /\ q[n + i] = x /\ n + i \notin 1..n
      BY <1>1, <1>2, <1>6, <3>1
    <3>. QED BY <1>1, <1>2, <1>7, <3>2 DEF InQueue
  <2>2. ASSUME NEW x \in X, InQueue(s, x), x \notin woken PROVE InQueue(u, x)
    <3>1. PICK i \in 1..Len(q) : q[i] = x
      BY <2>2 DEF InQueue
    <3>2. i \notin 1..n
      BY <2>2, <3>1
    <3>3. i - n \in 1..Len(rest) /\ n + (i - n) = i
      BY <1>1, <1>2, <1>6, <3>1, <3>2
    <3>4. rest[i - n] = x
      BY <1>1, <1>2, <1>6, <3>1, <3>3
    <3>. QED BY <1>3, <3>3, <3>4 DEF InQueue
  <2>. QED BY <2>1, <2>2 DEF Queued
<1>13. u \in [free : Nat, queue : Seq(X), granted : SUBSET X]
  BY <1>1, <1>2, <1>3, <1>4, <1>6
<1>14. \A i, j \in 1..Len(u.queue) : u.queue[i] = u.queue[j] => i = j
  <2>1. \A i, j \in 1..Len(rest) : rest[i] = rest[j] => i = j
    <3>. SUFFICES ASSUME NEW i \in 1..Len(rest), NEW j \in 1..Len(rest), rest[i] = rest[j]
                  PROVE  i = j
      OBVIOUS
    <3>0. /\ i \in 1..Len(q) - n /\ j \in 1..Len(q) - n
          /\ n + i \in 1..Len(q) /\ n + j \in 1..Len(q)
      <4>1. Len(rest) = Len(q) - n /\ Len(q) \in Nat /\ n \in Nat
        BY <1>1, <1>2, <1>6
      <4>. HIDE DEF q
      <4>. QED BY <4>1
    <3>1. rest[i] = q[n + i] /\ rest[j] = q[n + j]
      BY <1>6, <3>0
    <3>2. n + i = n + j
      BY <1>7, <3>0, <3>1
    <3>. QED BY <1>2, <3>0, <3>2
  <2>. QED BY <1>3, <2>1
<1>15. Queued(u, X) \cap u.granted = {} /\ W = Queued(u, X) \cup u.granted
  BY <1>3, <1>9, <1>12 DEF Counted
<1>16. u.free + Cardinality(u.granted) + Cardinality(H) = limit
  <2>1. Cardinality(H) \in Nat /\ Cardinality(s.granted) \in Nat
    BY FS_CardinalityType DEF Counted
  <2>. QED BY <1>1, <1>2, <1>3, <1>11, <2>1 DEF Counted
<1>17. NoneSleeps(u)
  <2>1. CASE n = s.free
    BY <1>1, <1>3, <2>1 DEF NoneSleeps
  <2>2. CASE n = Len(q)
    <3>1. rest = <<>>
      BY <1>1, <2>2, SubSeqEmpty DEF rest
    <3>. QED BY <1>3, <3>1 DEF NoneSleeps
  <2>. QED BY <1>2, <2>1, <2>2
<1>18. IsFiniteSet(u.granted) /\ IsFiniteSet(H)
  BY <1>3, <1>11 DEF Counted
<1>. HIDE DEF u
<1>19. Sound(u, X, limit, W, H)
  BY <1>13, <1>14, <1>15, <1>16, <1>17, <1>18 DEF Sound, Counted
<1>. QED BY <1>19 DEF u

\* A new semaphore.
LEMMA SemaphoreSound ==
  ASSUME NEW X, NEW limit \in Nat
  PROVE  Sound(Semaphore(limit), X, limit, {}, {})
<1>1. <<>> \in Seq(X) /\ Len(<<>>) = 0
  BY EmptySeq
<1>2. IsFiniteSet({}) /\ Cardinality({}) = 0
  BY FS_EmptySet
<1>. DEFINE u == Semaphore(limit)
<1>3. /\ u \in [free : Nat, queue : Seq(X), granted : SUBSET X]
      /\ u.free = limit /\ u.queue = <<>> /\ u.granted = {}
  BY <1>1 DEF Semaphore
<1>. HIDE DEF u
<1>4. Queued(u, X) = {}
  BY <1>1, <1>3 DEF Queued, InQueue
<1>5. u.free + Cardinality(u.granted) + Cardinality({}) = limit
  BY <1>2, <1>3
<1>6. \A i, j \in 1..Len(u.queue) : u.queue[i] = u.queue[j] => i = j
  BY <1>1, <1>3
<1>7. Sound(u, X, limit, {}, {})
  BY <1>2, <1>3, <1>4, <1>5, <1>6 DEF Sound, Counted, NoneSleeps
<1>. QED BY <1>7 DEF u

\* Whoever finds it unlocked takes a permit.
LEMMA TakeSound ==
  ASSUME NEW s, NEW X, NEW limit \in Nat, NEW W, NEW H, NEW x \in X,
         Sound(s, X, limit, W, H), ~Locked(s), x \notin H
  PROVE  Sound(Take(s), X, limit, W, H \cup {x})
<1>1. s.free \in Nat \ {0} /\ s.queue = <<>> /\ s.granted = {} /\ Len(<<>>) = 0
  BY EmptySeq DEF Sound, Counted, Locked
<1>2. IsFiniteSet(H \cup {x}) /\ Cardinality(H \cup {x}) = Cardinality(H) + 1
  BY FS_AddElement DEF Sound, Counted
<1>3. Cardinality(H) \in Nat /\ Cardinality(s.granted) \in Nat
  BY FS_CardinalityType DEF Sound, Counted
<1>4. Take(s) \in [free : Nat, queue : Seq(X), granted : SUBSET X]
      /\ Take(s).free = s.free - 1 /\ Take(s).queue = s.queue /\ Take(s).granted = s.granted
  BY <1>1 DEF Sound, Counted, Take
<1>5. Queued(Take(s), X) = Queued(s, X)
  BY <1>4 DEF Queued, InQueue
<1>6. (s.free - 1) + Cardinality(s.granted) + Cardinality(H \cup {x}) = limit
  BY <1>1, <1>2, <1>3 DEF Sound, Counted
<1>. QED BY <1>1, <1>2, <1>4, <1>5, <1>6 DEF Sound, Counted, NoneSleeps

\* Whoever finds it locked waits behind the others.
LEMMA EnqueueSound ==
  ASSUME NEW s, NEW X, NEW limit \in Nat, NEW W, NEW H, NEW x \in X,
         Sound(s, X, limit, W, H), Locked(s), x \notin W
  PROVE  Sound(Enqueue(s, x), X, limit, W \cup {x}, H)
<1>. DEFINE q == s.queue
            p == Append(q, x)
            u == Enqueue(s, x)
<1>1. q \in Seq(X) /\ Len(q) \in Nat /\ s.free \in Nat /\ s.granted \subseteq X
      /\ (\A i, j \in 1..Len(q) : q[i] = q[j] => i = j)
      /\ Queued(s, X) \cap s.granted = {} /\ W = Queued(s, X) \cup s.granted
  BY LenProperties DEF Sound, Counted
<1>2. /\ p \in Seq(X) /\ Len(p) = Len(q) + 1
      /\ \A i \in 1..Len(q) : p[i] = q[i]
      /\ p[Len(q) + 1] = x
  BY <1>1, AppendProperties
<1>3. /\ u \in [free : Nat, queue : Seq(X), granted : SUBSET X]
      /\ u.free = s.free /\ u.queue = p /\ u.granted = s.granted
  BY <1>1, <1>2 DEF Enqueue, Sound, Counted
<1>. HIDE DEF u, p
<1>4. \A i \in 1..Len(q) : q[i] # x
  BY <1>1 DEF Queued, InQueue
<1>5. \A i, j \in 1..Len(p) : p[i] = p[j] => i = j
  <2>. SUFFICES ASSUME NEW i \in 1..Len(p), NEW j \in 1..Len(p), p[i] = p[j] PROVE i = j
    OBVIOUS
  <2>1. CASE i \in 1..Len(q) /\ j \in 1..Len(q)
    BY <1>1, <1>2, <2>1
  <2>2. CASE i = Len(q) + 1 \/ j = Len(q) + 1
    BY <1>1, <1>2, <1>4, <2>2
  <2>. QED BY <1>1, <1>2, <2>1, <2>2
<1>6. Queued(u, X) = Queued(s, X) \cup {x}
  <2>1. ASSUME NEW y \in X, InQueue(u, y) PROVE InQueue(s, y) \/ y = x
    BY <1>1, <1>2, <1>3, <2>1 DEF InQueue
  <2>2. ASSUME NEW y \in X, InQueue(s, y) PROVE InQueue(u, y)
    BY <1>1, <1>2, <1>3, <2>2 DEF InQueue
  <2>3. InQueue(u, x)
    BY <1>1, <1>2, <1>3 DEF InQueue
  <2>. QED BY <2>1, <2>2, <2>3 DEF Queued
<1>7. NoneSleeps(u)
  <2>1. s.free = 0 \/ s.granted # {}
    BY <1>1 DEF Locked, Sound, NoneSleeps
  <2>. QED BY <1>3, <2>1 DEF NoneSleeps
<1>8. Sound(u, X, limit, W \cup {x}, H)
  <2>1. Queued(u, X) \cap u.granted = {} /\ W \cup {x} = Queued(u, X) \cup u.granted
    BY <1>1, <1>3, <1>6
  <2>2. IsFiniteSet(u.granted) /\ IsFiniteSet(H)
        /\ u.free + Cardinality(u.granted) + Cardinality(H) = limit
    BY <1>3 DEF Sound, Counted
  <2>. QED BY <1>3, <1>5, <1>7, <2>1, <2>2 DEF Sound, Counted
<1>. QED BY <1>8 DEF u

\* Whoever returns a permit hands it to the first waiter.
LEMMA ReleaseSound ==
  ASSUME NEW s, NEW X, NEW limit \in Nat, NEW W, NEW H, NEW x \in H,
         Sound(s, X, limit, W, H)
  PROVE  Sound(Release(s), X, limit, W, H \ {x})
<1>. DEFINE q == s.queue
            u == Release(s)
<1>1. q \in Seq(X) /\ Len(q) \in Nat /\ s.free \in Nat /\ s.granted \subseteq X
      /\ (\A i, j \in 1..Len(q) : q[i] = q[j] => i = j)
      /\ Queued(s, X) \cap s.granted = {} /\ W = Queued(s, X) \cup s.granted
      /\ IsFiniteSet(s.granted) /\ IsFiniteSet(H)
  BY LenProperties DEF Sound, Counted
<1>2. IsFiniteSet(H \ {x}) /\ Cardinality(H \ {x}) = Cardinality(H) - 1
  BY <1>1, FS_RemoveElement
<1>3. Cardinality(H) \in Nat /\ Cardinality(s.granted) \in Nat
  BY <1>1, FS_CardinalityType
<1>4. CASE q = <<>>
  <2>1. /\ u \in [free : Nat, queue : Seq(X), granted : SUBSET X]
        /\ u.free = s.free + 1 /\ u.queue = q /\ u.granted = s.granted
    BY <1>1, <1>4 DEF Release, Sound, Counted
  <2>2. Queued(u, X) = Queued(s, X)
    BY <2>1 DEF Queued, InQueue
  <2>3. (s.free + 1) + Cardinality(s.granted) + Cardinality(H \ {x}) = limit
    BY <1>1, <1>2, <1>3 DEF Sound, Counted
  <2>. HIDE DEF u
  <2>4. Sound(u, X, limit, W, H \ {x})
    BY <1>1, <1>2, <1>4, <2>1, <2>2, <2>3 DEF Sound, Counted, NoneSleeps
  <2>. QED BY <2>4 DEF u
<1>5. CASE q # <<>>
  <2>. DEFINE h == Head(q)
              p == Tail(q)
  <2>1. /\ h \in X /\ p \in Seq(X) /\ Len(p) = Len(q) - 1
        /\ \A i \in 1..Len(p) : p[i] = q[i + 1]
    BY <1>1, <1>5, HeadTailProperties
  <2>2. 1 \in 1..Len(q) /\ h = q[1]
    BY <1>1, <1>5, <2>1, EmptySeq
  <2>3. u = [s EXCEPT !.queue = p, !.granted = s.granted \cup {h}]
    BY <1>5 DEF Release
  <2>4. /\ u \in [free : Nat, queue : Seq(X), granted : SUBSET X]
        /\ u.free = s.free /\ u.queue = p /\ u.granted = s.granted \cup {h}
    <3>1. /\ s \in [free : Nat, queue : Seq(X), granted : SUBSET X]
          /\ h \in X /\ p \in Seq(X)
      BY <2>1 DEF Sound, Counted
    <3>. HIDE DEF u, h, p
    <3>2. u = [free |-> s.free, queue |-> p, granted |-> s.granted \cup {h}]
      BY <2>3, <3>1
    <3>. QED BY <3>1, <3>2
  <2>. HIDE DEF u, h, p
  <2>5. h \in Queued(s, X) /\ h \notin s.granted
    BY <1>1, <2>1, <2>2 DEF Queued, InQueue
  <2>6. IsFiniteSet(u.granted) /\ Cardinality(u.granted) = Cardinality(s.granted) + 1
    BY <1>1, <2>4, <2>5, FS_AddElement
  <2>7. \A i, j \in 1..Len(p) : p[i] = p[j] => i = j
    <3>. SUFFICES ASSUME NEW i \in 1..Len(p), NEW j \in 1..Len(p), p[i] = p[j] PROVE i = j
      OBVIOUS
    <3>1. i + 1 \in 1..Len(q) /\ j + 1 \in 1..Len(q) /\ q[i + 1] = q[j + 1]
      BY <1>1, <2>1
    <3>. QED BY <1>1, <2>1, <3>1
  <2>8. Queued(u, X) = Queued(s, X) \ {h}
    <3>1. ASSUME NEW y \in X, InQueue(u, y) PROVE InQueue(s, y) /\ y # h
      <4>1. PICK i \in 1..Len(p) : p[i] = y
        BY <2>4, <3>1 DEF InQueue
      <4>2. i + 1 \in 1..Len(q) /\ q[i + 1] = y /\ i + 1 # 1
        BY <1>1, <2>1, <4>1
      <4>. QED BY <1>1, <2>2, <4>2 DEF InQueue
    <3>2. ASSUME NEW y \in X, InQueue(s, y), y # h PROVE InQueue(u, y)
      <4>1. PICK i \in 1..Len(q) : q[i] = y
        BY <3>2 DEF InQueue
      <4>2. i # 1
        BY <2>2, <3>2, <4>1
      <4>3. i - 1 \in 1..Len(p) /\ (i - 1) + 1 = i
        BY <1>1, <2>1, <4>1, <4>2
      <4>4. p[i - 1] = y
        BY <2>1, <4>1, <4>3
      <4>. QED BY <2>4, <4>3, <4>4 DEF InQueue
    <3>. QED BY <3>1, <3>2 DEF Queued
  <2>9. Queued(u, X) \cap u.granted = {} /\ W = Queued(u, X) \cup u.granted
    BY <1>1, <2>4, <2>5, <2>8
  <2>10. u.free + Cardinality(u.granted) + Cardinality(H \ {x}) = limit
    BY <1>1, <1>2, <1>3, <2>4, <2>6 DEF Sound, Counted
  <2>11. NoneSleeps(u)
    BY <2>4 DEF NoneSleeps
  <2>12. Sound(u, X, limit, W, H \ {x})
    BY <1>2, <2>4, <2>6, <2>7, <2>9, <2>10, <2>11 DEF Sound, Counted
  <2>. QED BY <2>12 DEF u
<1>. QED BY <1>4, <1>5

\* A waiter that was handed a permit runs and holds it.
LEMMA RunSound ==
  ASSUME NEW s, NEW X, NEW limit \in Nat, NEW W, NEW H, NEW x,
         Sound(s, X, limit, W, H), x \in s.granted, x \notin H
  PROVE  Sound(Run(s, x), X, limit, W \ {x}, H \cup {x})
<1>. DEFINE u == [s EXCEPT !.granted = @ \ {x}]
<1>1. /\ u \in [free : Nat, queue : Seq(X), granted : SUBSET X]
      /\ u.free = s.free /\ u.queue = s.queue /\ u.granted = s.granted \ {x}
  BY DEF Sound, Counted
<1>2. IsFiniteSet(u.granted) /\ Cardinality(u.granted) = Cardinality(s.granted) - 1
  BY <1>1, FS_RemoveElement DEF Sound, Counted
<1>3. IsFiniteSet(H \cup {x}) /\ Cardinality(H \cup {x}) = Cardinality(H) + 1
  BY FS_AddElement DEF Sound, Counted
<1>4. Cardinality(H) \in Nat /\ Cardinality(s.granted) \in Nat /\ s.free \in Nat
  BY FS_CardinalityType DEF Sound, Counted
<1>5. Queued(u, X) = Queued(s, X)
  BY <1>1 DEF Queued, InQueue
<1>6. Queued(u, X) \cap u.granted = {} /\ W \ {x} = Queued(u, X) \cup u.granted
  BY <1>1, <1>5 DEF Sound, Counted
<1>7. u.free + Cardinality(u.granted) + Cardinality(H \cup {x}) = limit
  BY <1>1, <1>2, <1>3, <1>4 DEF Sound, Counted
<1>8. Run(s, x) = WakeUp(u)
  BY DEF Run
<1>9. \A i, j \in 1..Len(u.queue) : u.queue[i] = u.queue[j] => i = j
  BY <1>1 DEF Sound, Counted
<1>. HIDE DEF u
<1>10. Counted(u, X, limit, W \ {x}, H \cup {x})
  BY <1>1, <1>2, <1>3, <1>6, <1>7, <1>9 DEF Counted
<1>. QED BY <1>8, <1>10, WakeUpSound

\* A waiter gives up: a permit it was handed is not lost.
LEMMA LeaveSound ==
  ASSUME NEW s, NEW X, NEW limit \in Nat, NEW W, NEW H, NEW x \in W,
         Sound(s, X, limit, W, H)
  PROVE  Sound(Leave(s, x), X, limit, W \ {x}, H)
<1>1. CASE x \in s.granted
  <2>. DEFINE u == [s EXCEPT !.granted = @ \ {x}, !.free = @ + 1]
  <2>1. /\ u \in [free : Nat, queue : Seq(X), granted : SUBSET X]
        /\ u.free = s.free + 1 /\ u.queue = s.queue /\ u.granted = s.granted \ {x}
    <3>1. s \in [free : Nat, queue : Seq(X), granted : SUBSET X] /\ s.free + 1 \in Nat
      BY DEF Sound, Counted
    <3>2. u = [s EXCEPT !.granted = s.granted \ {x}, !.free = s.free + 1]
      OBVIOUS
    <3>. QED BY <3>1, <3>2
  <2>2. IsFiniteSet(u.granted) /\ Cardinality(u.granted) = Cardinality(s.granted) - 1
    BY <1>1, <2>1, FS_RemoveElement DEF Sound, Counted
  <2>3. IsFiniteSet(H) /\ Cardinality(H) \in Nat /\ Cardinality(s.granted) \in Nat /\ s.free \in Nat
    BY FS_CardinalityType DEF Sound, Counted
  <2>4. Queued(u, X) = Queued(s, X)
    BY <2>1 DEF Queued, InQueue
  <2>5. Queued(u, X) \cap u.granted = {} /\ W \ {x} = Queued(u, X) \cup u.granted
    BY <1>1, <2>1, <2>4 DEF Sound, Counted
  <2>6. u.free + Cardinality(u.granted) + Cardinality(H) = limit
    BY <2>1, <2>2, <2>3 DEF Sound, Counted
  <2>7. Leave(s, x) = WakeUp(u)
    BY <1>1 DEF Leave
  <2>8. \A i, j \in 1..Len(u.queue) : u.queue[i] = u.queue[j] => i = j
    BY <2>1 DEF Sound, Counted
  <2>. HIDE DEF u
  <2>9. Counted(u, X, limit, W \ {x}, H)
    BY <2>1, <2>2, <2>3, <2>5, <2>6, <2>8 DEF Counted
  <2>. QED BY <2>7, <2>9, WakeUpSound
<1>2. CASE x \notin s.granted
  <2>. DEFINE q == s.queue
              k == CHOOSE j \in DOMAIN q : q[j] = x
              p == RemoveAt(q, k)
              n == Len(q)
  <2>1. q \in Seq(X) /\ n \in Nat /\ s.free \in Nat /\ DOMAIN q = 1..n
        /\ (\A i, j \in 1..n : q[i] = q[j] => i = j)
        /\ Queued(s, X) \cap s.granted = {} /\ W = Queued(s, X) \cup s.granted
        /\ IsFiniteSet(s.granted) /\ IsFiniteSet(H)
    BY LenProperties DEF Sound, Counted
  <2>2. \E j \in DOMAIN q : q[j] = x
    BY <1>2, <2>1 DEF Queued, InQueue
  <2>3. k \in 1..n /\ q[k] = x
    BY <2>1, <2>2
  <2>4. Leave(s, x) = [s EXCEPT !.queue = p]
    BY <1>2 DEF Leave
  <2>. HIDE DEF k
  <2>5. \A i \in 1..n : q[i] \in X
    BY <2>1, ElementOfSeq
  <2>. DEFINE before == SubSeq(q, 1, k - 1)
              behind == SubSeq(q, k + 1, n)
  <2>6. /\ before \in Seq(X) /\ Len(before) = k - 1
        /\ \A i \in 1..k - 1 : before[i] = q[i]
    <3>1. \A i \in 1..k - 1 : q[i] \in X
      BY <2>1, <2>3, <2>5
    <3>0. 1 \in Int /\ k - 1 \in Int
      BY <2>1, <2>3
    <3>2. /\ before \in Seq(X)
          /\ Len(before) = IF 1 <= k - 1 THEN (k - 1) - 1 + 1 ELSE 0
          /\ \A i \in 1..(k - 1) - 1 + 1 : before[i] = q[1 + i - 1]
      BY <3>0, <3>1, SubSeqProperties
    <3>. QED BY <2>1, <2>3, <3>2
  <2>7. /\ behind \in Seq(X) /\ Len(behind) = n - k
        /\ \A i \in 1..n - k : behind[i] = q[k + i]
    <3>1. \A i \in k + 1..n : q[i] \in X
      BY <2>1, <2>3, <2>5
    <3>0. k + 1 \in Int /\ n \in Int
      BY <2>1, <2>3
    <3>2. /\ behind \in Seq(X)
          /\ Len(behind) = IF k + 1 <= n THEN n - (k + 1) + 1 ELSE 0
          /\ \A i \in 1..n - (k + 1) + 1 : behind[i] = q[k + 1 + i - 1]
      BY <3>0, <3>1, SubSeqProperties
    <3>. QED BY <2>1, <2>3, <3>2
  <2>8. p = before \o behind
    BY DEF RemoveAt
  <2>. HIDE DEF before, behind, p, n
  <2>9. /\ p \in Seq(X) /\ Len(p) = n - 1
        /\ \A i \in 1..n - 1 : p[i] = IF i < k THEN q[i] ELSE q[i + 1]
    <3>1. /\ p \in Seq(X) /\ Len(p) = (k - 1) + (n - k)
          /\ \A i \in 1..(k - 1) + (n - k) : p[i] = IF i <= k - 1 THEN before[i] ELSE behind[i - (k - 1)]
      <4>1. /\ before \o behind \in Seq(X)
            /\ Len(before \o behind) = Len(before) + Len(behind)
            /\ \A i \in 1..Len(before) + Len(behind) :
                 (before \o behind)[i] = IF i <= Len(before) THEN before[i]
                                         ELSE behind[i - Len(before)]
        BY <2>6, <2>7, ConcatProperties
      <4>. QED BY <2>6, <2>7, <2>8, <4>1
    <3>2. \A i \in 1..n - 1 : i >= k => i - (k - 1) \in 1..n - k /\ k + (i - (k - 1)) = i + 1
      BY <2>1, <2>3
    <3>. QED BY <2>1, <2>3, <2>6, <2>7, <3>1, <3>2
  <2>. DEFINE u == Leave(s, x)
  <2>10. /\ u \in [free : Nat, queue : Seq(X), granted : SUBSET X]
         /\ u.free = s.free /\ u.queue = p /\ u.granted = s.granted
    BY <2>4, <2>9 DEF Sound, Counted
  <2>. HIDE DEF u
  <2>11. \A i, j \in 1..Len(p) : p[i] = p[j] => i = j
    <3>. SUFFICES ASSUME NEW i \in 1..Len(p), NEW j \in 1..Len(p), p[i] = p[j] PROVE i = j
      OBVIOUS
    <3>. DEFINE a == IF i < k THEN i ELSE i + 1
                b == IF j < k THEN j ELSE j + 1
    <3>1. a \in 1..n /\ b \in 1..n /\ q[a] = q[b] /\ (a = b => i = j)
      BY <2>1, <2>3, <2>9
    <3>. QED BY <2>1, <3>1 DEF n
  <2>12. Queued(u, X) = Queued(s, X) \ {x}
    <3>1. ASSUME NEW y \in X, InQueue(u, y) PROVE InQueue(s, y) /\ y # x
      <4>1. PICK i \in 1..Len(p) : p[i] = y
        BY <2>10, <3>1 DEF InQueue
      <4>. DEFINE a == IF i < k THEN i ELSE i + 1
      <4>2. a \in 1..n /\ q[a] = y /\ a # k
        BY <2>1, <2>3, <2>9, <4>1
      <4>. QED BY <2>1, <2>3, <4>2 DEF InQueue, n
    <3>2. ASSUME NEW y \in X, InQueue(s, y), y # x PROVE InQueue(u, y)
      <4>1. PICK i \in 1..n : q[i] = y
        BY <3>2 DEF InQueue, n
      <4>2. i # k
        BY <2>3, <3>2, <4>1
      <4>. DEFINE a == IF i < k THEN i ELSE i - 1
      <4>3. a \in 1..n - 1 /\ p[a] = y
        <5>1. CASE i < k
          BY <2>1, <2>3, <2>9, <4>1, <5>1
        <5>2. CASE ~(i < k)
          <6>1. a \in 1..n - 1 /\ ~(a < k) /\ a + 1 = i
            BY <2>1, <2>3, <4>1, <4>2, <5>2
          <6>. HIDE DEF a
          <6>. QED BY <2>9, <4>1, <6>1
        <5>. QED BY <5>1, <5>2
      <4>. QED BY <2>9, <2>10, <4>3 DEF InQueue
    <3>. QED BY <3>1, <3>2 DEF Queued
  <2>13. Queued(u, X) \cap u.granted = {} /\ W \ {x} = Queued(u, X) \cup u.granted
    BY <1>2, <2>1, <2>10, <2>12
  <2>14. IsFiniteSet(u.granted) /\ IsFiniteSet(H)
         /\ u.free + Cardinality(u.granted) + Cardinality(H) = limit
    BY <2>10 DEF Sound, Counted
  <2>15. NoneSleeps(u)
    <3>1. q # <<>>
      BY <2>1, <2>3, EmptySeq DEF n
    <3>2. ~(s.free > 0 /\ s.granted = {})
      BY <3>1 DEF Sound, NoneSleeps
    <3>. QED BY <2>10, <3>2 DEF NoneSleeps
  <2>16. Sound(u, X, limit, W \ {x}, H)
    BY <2>10, <2>11, <2>13, <2>14, <2>15 DEF Sound, Counted
  <2>. QED BY <2>16 DEF u
<1>. QED BY <1>1, <1>2

-----------------------------------------------------------------------------
(* The inductive invariant.                                                *)

GateTypes ==
  /\ patient \in BOOLEAN
  /\ request \in [Requests -> {"idle", "waiting", "answered"} \cup Running]
  /\ task \in [Tasks -> {"none", "created", "global", "host", "fetching", "done"}]
  /\ doomed \subseteq Tasks
  /\ DOMAIN hostSem = Tasks
  /\ uses \in [Tasks -> Tasks \cup {None}]
  /\ registry \in [Hosts -> Tasks \cup {None}]

\* Who waits for the slots of the route, and who has one.
PoolKept ==
  Sound(pool, Requests, MaxInflight,
        {r \in Requests : request[r] = "waiting"}, {r \in Requests : request[r] \in Running})

\* The permits of the process: a task keeps its own while it waits for its host.
GlobalKept ==
  Sound(global, Tasks, Concurrency,
        {t \in Tasks : task[t] = "global"}, {t \in Tasks : task[t] \in {"host", "fetching"}})

HostWaiters(s) == {t \in Tasks : task[t] = "host" /\ uses[t] = s}
HostHolders(s) == {t \in Tasks : task[t] = "fetching" /\ uses[t] = s}

\* The permits of a host, as long as its semaphore is known.
HostKept(h) ==
  registry[h] # None =>
    Sound(hostSem[registry[h]], Tasks, PerHost,
          HostWaiters(registry[h]), HostHolders(registry[h]))

\* A task that waits or fetches refers to the one semaphore of its host.
Referring ==
  \A t \in Tasks :
    /\ uses[t] # None <=> task[t] \in {"global", "host", "fetching"}
    /\ uses[t] # None => registry[Host(t)] = uses[t]

\* A known semaphore is somebody's, and of one host.
Registering ==
  /\ \A h \in Hosts : registry[h] # None => \E t \in Tasks : uses[t] = registry[h]
  /\ \A g, h \in Hosts : registry[g] # None /\ registry[g] = registry[h] => g = h

\* Tasks are made when the request is admitted, and all on their way out when it is over.
Ending ==
  \A t \in Tasks :
    /\ request[t[1]] \in {"idle", "waiting"} => task[t] = "none"
    /\ request[t[1]] \in {"stopping", "answered"} => task[t] \in {"none", "done"} \/ t \in doomed

GatesInv ==
  /\ GateTypes /\ PoolKept /\ GlobalKept /\ (\A h \in Hosts : HostKept(h))
  /\ Referring /\ Registering /\ Ending

\* A task is one of a request, for one host.
LEMMA TaskShape ==
  ASSUME NEW t \in Tasks
  PROVE  t[1] \in Requests /\ Host(t) \in Hosts
  BY DEF Tasks, Hosts

-----------------------------------------------------------------------------
(* The steps of a request.                                                 *)

\* What a request does leaves the permits of its tasks alone: it makes them, or marks them.
LEMMA RequestMoves ==
  ASSUME GatesInv, NEW r \in Requests, NEW q \in {"waiting", "answered"} \cup Running,
         request' = [request EXCEPT ![r] = q],
         UNCHANGED <<patient, global, hostSem, uses, registry>>,
         \/ task' = task /\ doomed' = doomed
         \/ task' = task /\ doomed' = doomed \cup Pending(r)
         \/ task' = Spawned(r) /\ doomed' = doomed /\ q = "fetching"
            /\ request[r] \in {"idle", "waiting"},
         q = "waiting" => request[r] = "idle",
         q \in {"stopping", "answered"} =>
           \A t \in TasksOf(r) : task[t] \in {"none", "done"} \/ t \in doomed',
         PoolKept'
  PROVE  GatesInv'
<1>1. \A t \in Tasks : /\ t[1] \in Requests /\ (t \in TasksOf(r) <=> t[1] = r)
                       /\ request[t[1]] \in {"idle", "waiting"} => task[t] = "none"
  BY TaskShape DEF GatesInv, Ending, TasksOf
<1>2. /\ task' \in [Tasks -> {"none", "created", "global", "host", "fetching", "done"}]
      /\ \A t \in Tasks : task'[t] = task[t] \/ (task[t] = "none" /\ task'[t] = "created"
                                                /\ t[1] = r /\ q = "fetching")
  <2>1. CASE task' = task
    BY <2>1 DEF GatesInv, GateTypes
  <2>2. CASE /\ task' = Spawned(r) /\ q = "fetching"
             /\ request[r] \in {"idle", "waiting"}
    BY <1>1, <2>2 DEF GatesInv, GateTypes, Spawned
  <2>. QED BY <2>1, <2>2
<1>3. doomed' \subseteq Tasks /\ doomed \subseteq doomed'
  BY DEF GatesInv, GateTypes, Pending, TasksOf
<1>4. GateTypes'
  BY <1>2, <1>3 DEF GatesInv, GateTypes, Running
<1>5. GlobalKept'
  <2>1. {t \in Tasks : task'[t] = "global"} = {t \in Tasks : task[t] = "global"}
    BY <1>2
  <2>2. {t \in Tasks : task'[t] \in {"host", "fetching"}}
          = {t \in Tasks : task[t] \in {"host", "fetching"}}
    BY <1>2
  <2>. QED BY <2>1, <2>2 DEF GatesInv, GlobalKept
<1>6. \A h \in Hosts : HostKept(h)'
  <2>. SUFFICES ASSUME NEW h \in Hosts, registry[h] # None PROVE HostKept(h)'
    BY DEF HostKept
  <2>1. HostWaiters(registry[h])' = HostWaiters(registry[h])
    BY <1>2 DEF HostWaiters
  <2>2. HostHolders(registry[h])' = HostHolders(registry[h])
    BY <1>2 DEF HostHolders
  <2>. QED BY <2>1, <2>2 DEF GatesInv, HostKept
<1>7. Referring'
  BY <1>2 DEF GatesInv, Referring
<1>8. Registering'
  BY DEF GatesInv, Registering
<1>9. Ending'
  <2>. SUFFICES ASSUME NEW t \in Tasks
                PROVE  /\ request'[t[1]] \in {"idle", "waiting"} => task'[t] = "none"
                       /\ request'[t[1]] \in {"stopping", "answered"} =>
                            task'[t] \in {"none", "done"} \/ t \in doomed'
    BY DEF Ending
  <2>1. CASE t[1] = r
    <3>1. request'[t[1]] = q
      BY <1>1, <2>1 DEF GatesInv, GateTypes
    <3>2. q = "waiting" => task'[t] = "none"
      BY <1>1, <1>2, <2>1
    <3>3. q \in {"stopping", "answered"} => task'[t] \in {"none", "done"} \/ t \in doomed'
      BY <1>1, <1>2, <2>1
    <3>. QED BY <3>1, <3>2, <3>3 DEF Running
  <2>2. CASE t[1] # r
    <3>1. request'[t[1]] = request[t[1]] /\ task'[t] = task[t]
      BY <1>1, <1>2, <2>2 DEF GatesInv, GateTypes
    <3>. QED BY <1>3, <3>1 DEF GatesInv, Ending
  <2>. QED BY <2>1, <2>2
<1>. QED BY <1>4, <1>5, <1>6, <1>7, <1>8, <1>9 DEF GatesInv

\* The waiters for a slot and those who have one, after a request has moved.
LEMMA PoolMoves ==
  ASSUME GatesInv, NEW r \in Requests, NEW q \in {"waiting", "answered"} \cup Running,
         request' = [request EXCEPT ![r] = q]
  PROVE  LET W == {x \in Requests : request[x] = "waiting"}
             H == {x \in Requests : request[x] \in Running}
         IN /\ {x \in Requests : request'[x] = "waiting"} = IF q = "waiting" THEN W \cup {r} ELSE W \ {r}
            /\ {x \in Requests : request'[x] \in Running} = IF q \in Running THEN H \cup {r} ELSE H \ {r}
<1>1. \A x \in Requests : request'[x] = IF x = r THEN q ELSE request[x]
  BY DEF GatesInv, GateTypes
<1>. QED BY <1>1

\* An unlocked route admits the request; a locked one lets it wait, or refuses it.
LEMMA ArriveKeeps ==
  ASSUME GatesInv, NEW r \in Requests, Arrive(r)
  PROVE  GatesInv'
<1>. DEFINE W == {x \in Requests : request[x] = "waiting"}
            H == {x \in Requests : request[x] \in Running}
<1>1. request[r] = "idle" /\ r \notin W /\ r \notin H /\ W \ {r} = W /\ H \ {r} = H
      /\ Sound(pool, Requests, MaxInflight, W, H) /\ MaxInflight \in Nat
  BY GateConstants DEF Arrive, Running, GatesInv, PoolKept
<1>2. CASE ~Locked(pool) /\ pool' = Take(pool) /\ Admitted(r)
  <2>1. request' = [request EXCEPT ![r] = "fetching"] /\ "fetching" \in Running
    BY <1>2 DEF Admitted, Running
  <2>2. Sound(pool', Requests, MaxInflight, W, H \cup {r})
    BY <1>1, <1>2, TakeSound
  <2>3. PoolKept'
    BY <1>1, <2>1, <2>2, PoolMoves DEF PoolKept
  <2>. QED BY <1>1, <1>2, <2>1, <2>3, RequestMoves DEF Admitted
<1>3. CASE Answer(r) /\ UNCHANGED <<patient, pool, taskVars>>
  <2>1. request' = [request EXCEPT ![r] = "answered"] /\ "answered" \notin Running
    BY <1>3 DEF Answer, Running
  <2>2. PoolKept'
    BY <1>1, <1>3, <2>1, PoolMoves DEF PoolKept
  <2>3. \A t \in TasksOf(r) : task[t] = "none"
    BY <1>1 DEF GatesInv, Ending, TasksOf
  <2>. QED BY <1>3, <2>1, <2>2, <2>3, RequestMoves DEF taskVars
<1>4. CASE /\ Locked(pool) /\ request' = [request EXCEPT ![r] = "waiting"]
           /\ pool' = Enqueue(pool, r) /\ UNCHANGED taskVars
  <2>1. "waiting" \notin Running
    BY DEF Running
  <2>2. Sound(pool', Requests, MaxInflight, W \cup {r}, H)
    BY <1>1, <1>4, EnqueueSound
  <2>3. PoolKept'
    BY <1>1, <1>4, <2>1, <2>2, PoolMoves DEF PoolKept
  <2>. QED BY <1>1, <1>4, <2>3, RequestMoves DEF taskVars
<1>. QED BY <1>2, <1>3, <1>4 DEF Arrive

\* A request that was handed a slot enters.
LEMMA EnterPoolKeeps ==
  ASSUME GatesInv, NEW r \in Requests, EnterPool(r)
  PROVE  GatesInv'
<1>. DEFINE W == {x \in Requests : request[x] = "waiting"}
            H == {x \in Requests : request[x] \in Running}
<1>1. Sound(pool, Requests, MaxInflight, W, H) /\ MaxInflight \in Nat
  BY GateConstants DEF GatesInv, PoolKept
<1>2. r \in pool.granted /\ r \in W /\ r \notin H
  BY <1>1 DEF EnterPool, Sound, Counted, Running
<1>3. request' = [request EXCEPT ![r] = "fetching"] /\ "fetching" \in Running /\ pool' = Run(pool, r)
  BY DEF EnterPool, Admitted, Running
<1>4. Sound(pool', Requests, MaxInflight, W \ {r}, H \cup {r})
  BY <1>1, <1>2, <1>3, RunSound
<1>5. PoolKept'
  BY <1>3, <1>4, PoolMoves DEF PoolKept, Running
<1>. QED BY <1>2, <1>3, <1>5, RequestMoves DEF EnterPool, Admitted

\* A request that gives up its wait is answered and has no task.
LEMMA GiveUpKeeps ==
  ASSUME GatesInv, NEW r \in Requests, request[r] = "waiting",
         pool' = Leave(pool, r), Answer(r), UNCHANGED taskVars
  PROVE  GatesInv'
<1>. DEFINE W == {x \in Requests : request[x] = "waiting"}
            H == {x \in Requests : request[x] \in Running}
<1>1. Sound(pool, Requests, MaxInflight, W, H) /\ MaxInflight \in Nat
  BY GateConstants DEF GatesInv, PoolKept
<1>2. r \in W /\ r \notin H /\ H \ {r} = H
  BY DEF Running
<1>3. request' = [request EXCEPT ![r] = "answered"] /\ "answered" \notin Running
  BY DEF Answer, Running
<1>4. Sound(pool', Requests, MaxInflight, W \ {r}, H)
  BY <1>1, <1>2, LeaveSound
<1>5. PoolKept'
  <2>1. \A x \in Requests : request'[x] = IF x = r THEN "answered" ELSE request[x]
    BY <1>3 DEF GatesInv, GateTypes
  <2>2. /\ {x \in Requests : request'[x] = "waiting"} = W \ {r}
        /\ {x \in Requests : request'[x] \in Running} = H \ {r}
    BY <1>3, <2>1
  <2>. QED BY <1>2, <1>4, <2>2 DEF PoolKept
<1>6. \A t \in TasksOf(r) : task[t] = "none"
  BY DEF GatesInv, Ending, TasksOf
<1>. QED BY <1>3, <1>5, <1>6, RequestMoves DEF taskVars

\* A request that is over leaves its slot; its tasks are done or on their way out.
LEMMA LeaveKeeps ==
  ASSUME GatesInv, NEW r \in Requests, request[r] \in Running,
         \A t \in TasksOf(r) : task[t] \in {"none", "done"} \/ t \in doomed,
         pool' = Release(pool), Answer(r), UNCHANGED taskVars
  PROVE  GatesInv'
<1>. DEFINE W == {x \in Requests : request[x] = "waiting"}
            H == {x \in Requests : request[x] \in Running}
<1>1. Sound(pool, Requests, MaxInflight, W, H) /\ MaxInflight \in Nat
  BY GateConstants DEF GatesInv, PoolKept
<1>2. r \in H /\ r \notin W /\ W \ {r} = W
  BY DEF Running
<1>3. request' = [request EXCEPT ![r] = "answered"] /\ "answered" \notin Running
  BY DEF Answer, Running
<1>4. Sound(pool', Requests, MaxInflight, W, H \ {r})
  BY <1>1, <1>2, ReleaseSound
<1>5. PoolKept'
  <2>1. \A x \in Requests : request'[x] = IF x = r THEN "answered" ELSE request[x]
    BY <1>3 DEF GatesInv, GateTypes
  <2>2. /\ {x \in Requests : request'[x] = "waiting"} = W \ {r}
        /\ {x \in Requests : request'[x] \in Running} = H \ {r}
    BY <1>3, <2>1
  <2>. QED BY <1>2, <1>4, <2>2 DEF PoolKept
<1>. QED BY <1>3, <1>5, RequestMoves DEF taskVars

\* fetch is cancelled, or gives up on what it has no answer for: the slot is kept.
LEMMA DoomKeeps ==
  ASSUME GatesInv, NEW r \in Requests, request[r] \in Running, NEW q \in {"collecting", "stopping"},
         request' = [request EXCEPT ![r] = q], doomed' = doomed \cup Pending(r),
         UNCHANGED <<patient, pool, task, global, hostSem, uses, registry>>
  PROVE  GatesInv'
<1>. DEFINE W == {x \in Requests : request[x] = "waiting"}
            H == {x \in Requests : request[x] \in Running}
<1>1. Sound(pool, Requests, MaxInflight, W, H)
  BY DEF GatesInv, PoolKept
<1>2. q \in Running /\ q # "waiting" /\ W \ {r} = W /\ H \cup {r} = H
  BY DEF Running
<1>3. PoolKept'
  BY <1>1, <1>2, PoolMoves DEF PoolKept
<1>4. \A t \in TasksOf(r) : task[t] \in {"none", "done"} \/ t \in doomed'
  BY DEF Pending
<1>. QED BY <1>2, <1>3, <1>4, RequestMoves

-----------------------------------------------------------------------------
(* The steps of a task.                                                    *)

\* There is a semaphore for a task that has none.
LEMMA UnusedSemaphore ==
  ASSUME GateTypes, NEW t \in Tasks, uses[t] = None
  PROVE  \E x \in Tasks : \A y \in Tasks : uses[y] # x
<1>. SUFFICES ASSUME \A x \in Tasks : \E y \in Tasks : uses[y] = x PROVE FALSE
  OBVIOUS
<1>. DEFINE user == [x \in Tasks |-> CHOOSE y \in Tasks : uses[y] = x]
            others == Tasks \ {t}
<1>1. \A x \in Tasks : user[x] \in Tasks /\ uses[user[x]] = x
  OBVIOUS
<1>2. \A x \in Tasks : user[x] # t
  <2>. TAKE x \in Tasks
  <2>. HIDE DEF user
  <2>1. x # None /\ uses[user[x]] = x
    BY <1>1, GateConstants
  <2>. QED BY <2>1
<1>3. user \in [Tasks -> others]
  BY <1>1, <1>2
<1>4. IsFiniteSet(Tasks)
  BY GateConstants
<1>5. IsFiniteSet(others) /\ Cardinality(others) = Cardinality(Tasks) - 1
  BY <1>4, FS_RemoveElement
<1>6. Cardinality(Tasks) \in Nat
  BY <1>4, FS_CardinalityType
<1>7. Cardinality(others) < Cardinality(Tasks)
  BY <1>5, <1>6
<1>. HIDE DEF user, others
<1>8. \E x, y \in Tasks : x # y /\ user[x] = user[y]
  BY <1>3, <1>4, <1>5, <1>7, FS_PigeonHole
<1>. QED BY <1>1, <1>8

\* The registry as it is, or with a new semaphore for the host of t, which had none.
Offers(t, reg) ==
  /\ reg \in [Hosts -> Tasks \cup {None}]
  /\ \A g \in Hosts \ {Host(t)} : reg[g] = registry[g]
  /\ \/ reg[Host(t)] = registry[Host(t)]
     \/ /\ registry[Host(t)] = None /\ reg[Host(t)] \in Tasks
        /\ \A y \in Tasks : uses[y] # reg[Host(t)]

\* Task t refers to v from now on, and the registry keeps what is referred to.
Rereferred(t, reg, v) ==
  /\ Offers(t, reg)
  /\ v \in {None, reg[Host(t)]}
  /\ uses' = [uses EXCEPT ![t] = v]
  /\ registry' \in [Hosts -> Tasks \cup {None}]
  /\ \A g \in Hosts : registry'[g] = IF \E y \in Tasks : reg[g] # None /\ uses'[y] = reg[g]
                                      THEN reg[g] ELSE None

\* The registry follows the references: only the host of the task that moved may gain or
\* lose its semaphore.
LEMMA RegistryMoves ==
  ASSUME GatesInv, NEW t \in Tasks, NEW reg, NEW v, Rereferred(t, reg, v)
  PROVE  /\ uses' \in [Tasks -> Tasks \cup {None}]
         /\ \A g \in Hosts \ {Host(t)} : registry'[g] = registry[g]
         /\ registry'[Host(t)] \in {None, reg[Host(t)]}
         /\ \A y \in Tasks : uses'[y] # None => registry'[Host(y)] = uses'[y]
         /\ Registering'
<1>. DEFINE h == Host(t)
<1>0. /\ reg \in [Hosts -> Tasks \cup {None}] /\ v \in {None, reg[h]}
      /\ \A g \in Hosts \ {h} : reg[g] = registry[g]
      /\ \/ reg[h] = registry[h]
         \/ /\ registry[h] = None /\ reg[h] \in Tasks
            /\ \A y \in Tasks : uses[y] # reg[h]
      /\ uses' = [uses EXCEPT ![t] = v]
  BY DEF Rereferred, Offers
<1>1. h \in Hosts /\ \A y \in Tasks : Host(y) \in Hosts
  BY TaskShape
<1>2. uses \in [Tasks -> Tasks \cup {None}] /\ registry \in [Hosts -> Tasks \cup {None}]
  BY DEF GatesInv, GateTypes
<1>3. /\ uses' \in [Tasks -> Tasks \cup {None}]
      /\ \A y \in Tasks : uses'[y] = IF y = t THEN v ELSE uses[y]
  BY <1>0, <1>1, <1>2
<1>4. \A g \in Hosts : registry'[g] = IF \E y \in Tasks : reg[g] # None /\ uses'[y] = reg[g]
                                      THEN reg[g] ELSE None
  BY DEF Rereferred, Offers
<1>5. h = Host(t)
  OBVIOUS
<1>. HIDE DEF h
<1>6. /\ \A y \in Tasks : uses[y] # None => registry[Host(y)] = uses[y]
      /\ \A g \in Hosts : registry[g] # None => \E y \in Tasks : uses[y] = registry[g]
      /\ \A f, g \in Hosts : registry[f] # None /\ registry[f] = registry[g] => f = g
  BY DEF GatesInv, Referring, Registering
<1>7. ASSUME NEW g \in Hosts \ {h} PROVE registry'[g] = registry[g]
  <2>1. CASE registry[g] = None
    BY <1>0, <1>4, <2>1
  <2>2. CASE registry[g] # None
    <3>1. PICK y \in Tasks : uses[y] = registry[g]
      BY <1>6, <2>2
    <3>2. y # t
      BY <1>1, <1>6, <1>5, <2>2, <3>1
    <3>. QED BY <1>0, <1>3, <1>4, <2>2, <3>1, <3>2
  <2>. QED BY <2>1, <2>2
<1>8. registry'[h] \in {None, reg[h]}
  BY <1>1, <1>4
<1>9. ASSUME NEW y \in Tasks, uses'[y] # None PROVE registry'[Host(y)] = uses'[y]
  <2>1. reg[Host(y)] = uses'[y]
    <3>1. CASE y = t
      BY <1>0, <1>3, <1>9, <1>5, <3>1
    <3>2. CASE y # t
      <4>1. uses'[y] = uses[y] /\ registry[Host(y)] = uses[y]
        BY <1>3, <1>6, <1>9, <3>2
      <4>2. CASE Host(y) = h
        BY <1>0, <1>9, <4>1, <4>2
      <4>3. CASE Host(y) # h
        BY <1>0, <1>1, <4>1, <4>3
      <4>. QED BY <4>2, <4>3
    <3>. QED BY <3>1, <3>2
  <2>. QED BY <1>1, <1>4, <1>9, <2>1
<1>10. ASSUME NEW g \in Hosts, registry'[g] # None
       PROVE  \E y \in Tasks : uses'[y] = registry'[g]
  BY <1>4, <1>10
<1>11. ASSUME NEW f \in Hosts, NEW g \in Hosts, registry'[f] # None, registry'[f] = registry'[g]
       PROVE  f = g
  <2>1. ASSUME NEW k \in Hosts, k # h, registry'[h] # None, registry'[k] = registry'[h]
        PROVE  FALSE
    <3>1. registry[k] = reg[h] /\ reg[h] # None
      BY <1>1, <1>7, <1>8, <2>1
    <3>2. CASE reg[h] = registry[h]
      BY <1>1, <1>6, <2>1, <3>1, <3>2
    <3>3. CASE \A y \in Tasks : uses[y] # reg[h]
      BY <1>6, <2>1, <3>1, <3>3
    <3>. QED BY <1>0, <3>2, <3>3
  <2>2. CASE f # h /\ g # h
    BY <1>6, <1>7, <1>11, <2>2
  <2>. QED BY <1>1, <1>11, <2>1, <2>2
<1>12. Registering'
  BY <1>10, <1>11 DEF Registering
<1>. QED BY <1>3, <1>7, <1>8, <1>9, <1>12, <1>5

\* Task t goes to pc, refers to v, and leaves every semaphore but its host's alone.
Moved(t, pc, reg, v) ==
  /\ task[t] \notin {"none", "done"} /\ task' = [task EXCEPT ![t] = pc]
  /\ t \notin doomed \/ pc = "done"
  /\ UNCHANGED <<operationVars, doomed>>
  /\ Rereferred(t, reg, v) /\ (v # None <=> pc # "done")
  /\ DOMAIN hostSem' = Tasks
  /\ \A x \in Tasks \ {reg[Host(t)]} : hostSem'[x] = hostSem[x]
  /\ reg[Host(t)] # None =>
       Sound(hostSem'[reg[Host(t)]], Tasks, PerHost,
             {y \in Tasks : task'[y] = "host" /\ uses'[y] = reg[Host(t)]},
             {y \in Tasks : task'[y] = "fetching" /\ uses'[y] = reg[Host(t)]})

\* A step of a task keeps the invariant if it keeps the semaphores it uses.
LEMMA TaskMoves ==
  ASSUME GatesInv, NEW t \in Tasks, NEW pc \in {"global", "host", "fetching", "done"},
         NEW reg, NEW v, Moved(t, pc, reg, v), GlobalKept'
  PROVE  GatesInv'
<1>. DEFINE h == Host(t)
<1>a. /\ task[t] \notin {"none", "done"} /\ task' = [task EXCEPT ![t] = pc]
      /\ t \notin doomed \/ pc = "done"
      /\ UNCHANGED <<operationVars, doomed>>
      /\ Rereferred(t, reg, v) /\ (v # None <=> pc # "done")
      /\ DOMAIN hostSem' = Tasks
      /\ \A x \in Tasks \ {reg[h]} : hostSem'[x] = hostSem[x]
      /\ reg[h] # None =>
           Sound(hostSem'[reg[h]], Tasks, PerHost,
                 {y \in Tasks : task'[y] = "host" /\ uses'[y] = reg[h]},
                 {y \in Tasks : task'[y] = "fetching" /\ uses'[y] = reg[h]})
  BY DEF Moved
<1>1. h \in Hosts /\ t[1] \in Requests /\ \A y \in Tasks : Host(y) \in Hosts /\ y[1] \in Requests
  BY TaskShape
<1>0. /\ \A g \in Hosts \ {h} : reg[g] = registry[g]
      /\ reg[h] = registry[h] \/ (\A y \in Tasks : uses[y] # reg[h])
      /\ uses' = [uses EXCEPT ![t] = v] /\ v \in {None, reg[h]}
      /\ registry' \in [Hosts -> Tasks \cup {None}]
  BY <1>a DEF Rereferred, Offers
<1>2. /\ uses' \in [Tasks -> Tasks \cup {None}]
      /\ registry' \in [Hosts -> Tasks \cup {None}]
      /\ \A g \in Hosts \ {h} : registry'[g] = registry[g]
      /\ registry'[h] \in {None, reg[h]}
      /\ \A y \in Tasks : uses'[y] # None => registry'[Host(y)] = uses'[y]
      /\ Registering'
  BY <1>0, <1>a, RegistryMoves
<1>3. /\ task' \in [Tasks -> {"none", "created", "global", "host", "fetching", "done"}]
      /\ \A y \in Tasks : task'[y] = IF y = t THEN pc ELSE task[y]
  BY <1>a DEF GatesInv, GateTypes
<1>4. \A y \in Tasks : uses'[y] = IF y = t THEN v ELSE uses[y]
  BY <1>0 DEF GatesInv, GateTypes
<1>5. GateTypes'
  BY <1>2, <1>3, <1>a DEF GatesInv, GateTypes, operationVars
<1>6. PoolKept'
  BY <1>a DEF GatesInv, PoolKept, operationVars
<1>7. ASSUME NEW g \in Hosts PROVE HostKept(g)'
  <2>1. CASE g = h
    <3>. SUFFICES ASSUME registry'[h] # None PROVE HostKept(h)'
      BY <2>1 DEF HostKept
    <3>1. registry'[h] = reg[h] /\ reg[h] # None
      BY <1>2
    <3>2. Sound(hostSem'[reg[h]], Tasks, PerHost,
                {y \in Tasks : task'[y] = "host" /\ uses'[y] = reg[h]},
                {y \in Tasks : task'[y] = "fetching" /\ uses'[y] = reg[h]})
      BY <1>a, <3>1
    <3>. QED BY <3>1, <3>2 DEF HostKept, HostWaiters, HostHolders
  <2>2. CASE g # h
    <3>. SUFFICES ASSUME registry[g] # None PROVE HostKept(g)'
      BY <1>2, <2>2 DEF HostKept
    <3>. DEFINE s == registry[g]
    <3>1. s \in Tasks /\ registry'[g] = s /\ s # None
      BY <1>2, <2>2 DEF GatesInv, GateTypes
    <3>2. s # reg[h]
      <4>1. CASE reg[h] = registry[h]
        BY <1>1, <2>2, <4>1 DEF GatesInv, Registering
      <4>2. CASE \A y \in Tasks : uses[y] # reg[h]
        BY <4>2 DEF GatesInv, Registering
      <4>. QED BY <1>0, <4>1, <4>2
    <3>3. hostSem'[s] = hostSem[s]
      BY <1>a, <3>1, <3>2
    <3>4. uses[t] # s /\ uses'[t] # s
      <4>1. uses[t] # s
        BY <1>1, <2>2, <3>1 DEF GatesInv, Referring, Registering
      <4>. QED BY <1>0, <1>4, <3>1, <3>2, <4>1
    <3>. HIDE DEF s
    <3>5. {y \in Tasks : task'[y] = "host" /\ uses'[y] = s} = HostWaiters(s)
      BY <1>3, <1>4, <3>4 DEF HostWaiters
    <3>6. {y \in Tasks : task'[y] = "fetching" /\ uses'[y] = s} = HostHolders(s)
      BY <1>3, <1>4, <3>4 DEF HostHolders
    <3>7. Sound(hostSem[s], Tasks, PerHost, HostWaiters(s), HostHolders(s))
      BY <3>1 DEF GatesInv, HostKept, s
    <3>8. Sound(hostSem'[s], Tasks, PerHost,
                {y \in Tasks : task'[y] = "host" /\ uses'[y] = s},
                {y \in Tasks : task'[y] = "fetching" /\ uses'[y] = s})
      BY <3>3, <3>5, <3>6, <3>7
    <3>. QED BY <3>1, <3>8 DEF HostKept, HostWaiters, HostHolders
  <2>. QED BY <2>1, <2>2
<1>8. Referring'
  <2>. SUFFICES ASSUME NEW y \in Tasks
                PROVE  uses'[y] # None <=> task'[y] \in {"global", "host", "fetching"}
    BY <1>2 DEF Referring
  <2>. QED BY <1>3, <1>4, <1>a DEF GatesInv, Referring
<1>9. Ending'
  <2>. SUFFICES ASSUME NEW y \in Tasks
                PROVE  /\ request[y[1]] \in {"idle", "waiting"} => task'[y] = "none"
                       /\ request[y[1]] \in {"stopping", "answered"} =>
                            task'[y] \in {"none", "done"} \/ y \in doomed
    BY <1>a DEF Ending, operationVars
  <2>. QED BY <1>3, <1>a DEF GatesInv, Ending
<1>. QED BY <1>2, <1>5, <1>6, <1>7, <1>8, <1>9 DEF GatesInv

\* Task t goes to pc and refers to v.
Goes(t, pc, v) == task' = [task EXCEPT ![t] = pc] /\ uses' = [uses EXCEPT ![t] = v]

\* The tasks at each point, after one of them has moved.
LEMMA TaskSets ==
  ASSUME GatesInv, NEW t \in Tasks, NEW pc \in {"global", "host", "fetching", "done"},
         NEW v, Goes(t, pc, v)
  PROVE  /\ {y \in Tasks : task'[y] = "global"} =
              IF pc = "global" THEN {y \in Tasks : task[y] = "global"} \cup {t}
                               ELSE {y \in Tasks : task[y] = "global"} \ {t}
         /\ {y \in Tasks : task'[y] \in {"host", "fetching"}} =
              IF pc \in {"host", "fetching"}
              THEN {y \in Tasks : task[y] \in {"host", "fetching"}} \cup {t}
              ELSE {y \in Tasks : task[y] \in {"host", "fetching"}} \ {t}
         /\ \A s \in Tasks :
              /\ {y \in Tasks : task'[y] = "host" /\ uses'[y] = s} =
                   IF pc = "host" /\ v = s THEN HostWaiters(s) \cup {t} ELSE HostWaiters(s) \ {t}
              /\ {y \in Tasks : task'[y] = "fetching" /\ uses'[y] = s} =
                   IF pc = "fetching" /\ v = s THEN HostHolders(s) \cup {t} ELSE HostHolders(s) \ {t}
<1>1. \A y \in Tasks : /\ task'[y] = IF y = t THEN pc ELSE task[y]
                       /\ uses'[y] = IF y = t THEN v ELSE uses[y]
  BY DEF GatesInv, GateTypes, Goes
<1>2. {y \in Tasks : task'[y] = "global"} =
        IF pc = "global" THEN {y \in Tasks : task[y] = "global"} \cup {t}
                         ELSE {y \in Tasks : task[y] = "global"} \ {t}
  BY <1>1
<1>3. {y \in Tasks : task'[y] \in {"host", "fetching"}} =
        IF pc \in {"host", "fetching"}
        THEN {y \in Tasks : task[y] \in {"host", "fetching"}} \cup {t}
        ELSE {y \in Tasks : task[y] \in {"host", "fetching"}} \ {t}
  BY <1>1
<1>4. ASSUME NEW s \in Tasks
      PROVE  /\ {y \in Tasks : task'[y] = "host" /\ uses'[y] = s} =
                  IF pc = "host" /\ v = s THEN HostWaiters(s) \cup {t} ELSE HostWaiters(s) \ {t}
             /\ {y \in Tasks : task'[y] = "fetching" /\ uses'[y] = s} =
                  IF pc = "fetching" /\ v = s THEN HostHolders(s) \cup {t} ELSE HostHolders(s) \ {t}
  <2>1. {y \in Tasks : task'[y] = "host" /\ uses'[y] = s} =
          IF pc = "host" /\ v = s THEN HostWaiters(s) \cup {t} ELSE HostWaiters(s) \ {t}
    BY <1>1 DEF HostWaiters
  <2>2. {y \in Tasks : task'[y] = "fetching" /\ uses'[y] = s} =
          IF pc = "fetching" /\ v = s THEN HostHolders(s) \cup {t} ELSE HostHolders(s) \ {t}
    BY <1>1 DEF HostHolders
  <2>. QED BY <2>1, <2>2
<1>. QED BY <1>2, <1>3, <1>4

\* Task t holds a permit of the process, g, and has yet to turn to its host's semaphore s.
MayTurn(t, s, g, hs, G, H, W, F) ==
  /\ Sound(g, Tasks, Concurrency, G, H) /\ t \in H
  /\ Sound(hs[s], Tasks, PerHost, W, F) /\ t \notin W /\ t \notin F
  /\ DOMAIN hs = Tasks

\* It has turned to s, and is at pc.
Turned(t, s, hs, G, H, W, F, pc) ==
  /\ task' = [task EXCEPT ![t] = pc]
  /\ Sound(global', Tasks, Concurrency, G, IF pc = "done" THEN H \ {t} ELSE H)
  /\ DOMAIN hostSem' = Tasks /\ \A x \in Tasks \ {s} : hostSem'[x] = hs[x]
  /\ Sound(hostSem'[s], Tasks, PerHost, IF pc = "host" THEN W \cup {t} ELSE W,
           IF pc = "fetching" THEN F \cup {t} ELSE F)

\* A task that has the permit of the process takes the one of its host, waits for it, or
\* fails and returns what it has.
LEMMA HostTurnEffect ==
  ASSUME NEW t \in Tasks, NEW s \in Tasks, NEW g, NEW hs, NEW G, NEW H, NEW W, NEW F,
         MayTurn(t, s, g, hs, G, H, W, F), HostTurn(t, s, g, hs)
  PROVE  \E pc \in {"fetching", "host", "done"} : Turned(t, s, hs, G, H, W, F, pc)
<1>1. Concurrency \in Nat /\ PerHost \in Nat
  BY GateConstants
<1>2. /\ Sound(g, Tasks, Concurrency, G, H) /\ t \in H
      /\ Sound(hs[s], Tasks, PerHost, W, F) /\ t \notin W /\ t \notin F
      /\ DOMAIN hs = Tasks
  BY DEF MayTurn
<1>3. CASE /\ ~Locked(hs[s]) /\ Goto(t, "fetching")
           /\ hostSem' = [hs EXCEPT ![s] = Take(hs[s])] /\ global' = g
  <2>1. Sound(Take(hs[s]), Tasks, PerHost, W, F \cup {t})
    BY <1>1, <1>2, <1>3, TakeSound
  <2>2. hostSem'[s] = Take(hs[s]) /\ DOMAIN hostSem' = Tasks
        /\ \A x \in Tasks \ {s} : hostSem'[x] = hs[x]
    BY <1>2, <1>3
  <2>3. Turned(t, s, hs, G, H, W, F, "fetching")
    BY <1>2, <1>3, <2>1, <2>2 DEF Goto, Turned
  <2>. QED BY <2>3
<1>4. CASE /\ Locked(hs[s]) /\ Goto(t, "host")
           /\ hostSem' = [hs EXCEPT ![s] = Enqueue(hs[s], t)] /\ global' = g
  <2>1. Sound(Enqueue(hs[s], t), Tasks, PerHost, W \cup {t}, F)
    BY <1>1, <1>2, <1>4, EnqueueSound
  <2>2. hostSem'[s] = Enqueue(hs[s], t) /\ DOMAIN hostSem' = Tasks
        /\ \A x \in Tasks \ {s} : hostSem'[x] = hs[x]
    BY <1>2, <1>4
  <2>3. Turned(t, s, hs, G, H, W, F, "host")
    BY <1>2, <1>4, <2>1, <2>2 DEF Goto, Turned
  <2>. QED BY <2>3
<1>5. CASE Goto(t, "done") /\ hostSem' = hs /\ global' = Release(g)
  <2>1. Sound(Release(g), Tasks, Concurrency, G, H \ {t})
    BY <1>1, <1>2, ReleaseSound
  <2>2. Turned(t, s, hs, G, H, W, F, "done")
    BY <1>2, <1>5, <2>1 DEF Goto, Turned
  <2>. QED BY <2>2
<1>. QED BY <1>3, <1>4, <1>5 DEF HostTurn

\* The semaphores so far, for a task that has just got the permit of the process: its host's
\* is known, or new.
Prepared(t, s, g, hs, reg) ==
  /\ task[t] \in {"created", "global"} /\ t \notin doomed
  /\ Offers(t, reg) /\ s = reg[Host(t)]
  /\ MayTurn(t, s, g, hs, {y \in Tasks : task[y] = "global"} \ {t},
             {y \in Tasks : task[y] \in {"host", "fetching"}} \cup {t},
             HostWaiters(s), HostHolders(s))
  /\ \A x \in Tasks \ {s} : hs[x] = hostSem[x]

\* The turn of the host, whoever begins it.
LEMMA HostTurnKeeps ==
  ASSUME GatesInv, NEW t \in Tasks, NEW s \in Tasks, NEW g, NEW hs, NEW reg,
         Prepared(t, s, g, hs, reg), HostTurn(t, s, g, hs),
         uses' = [uses EXCEPT ![t] = IF task'[t] = "done" THEN None ELSE s],
         registry' = Registered(reg),
         UNCHANGED <<operationVars, doomed>>
  PROVE  GatesInv'
<1>. DEFINE G == {y \in Tasks : task[y] = "global"} \ {t}
            H == {y \in Tasks : task[y] \in {"host", "fetching"}} \cup {t}
            W == HostWaiters(s)
            F == HostHolders(s)
<1>1. /\ task[t] \in {"created", "global"} /\ t \notin doomed
      /\ Offers(t, reg) /\ s = reg[Host(t)]
      /\ MayTurn(t, s, g, hs, G, H, W, F) /\ t \in H /\ t \notin W /\ t \notin F
      /\ \A x \in Tasks \ {s} : hs[x] = hostSem[x]
  BY DEF Prepared, HostWaiters, HostHolders
<1>2. \E pc \in {"fetching", "host", "done"} : Turned(t, s, hs, G, H, W, F, pc)
  <2>. HIDE DEF G, H, W, F
  <2>. QED BY <1>1, HostTurnEffect
<1>3. PICK pc \in {"fetching", "host", "done"} : Turned(t, s, hs, G, H, W, F, pc)
  BY <1>2
<1>4. /\ task' = [task EXCEPT ![t] = pc]
      /\ Sound(global', Tasks, Concurrency, G, IF pc = "done" THEN H \ {t} ELSE H)
      /\ DOMAIN hostSem' = Tasks /\ \A x \in Tasks \ {s} : hostSem'[x] = hs[x]
      /\ Sound(hostSem'[s], Tasks, PerHost, IF pc = "host" THEN W \cup {t} ELSE W,
               IF pc = "fetching" THEN F \cup {t} ELSE F)
  BY <1>3 DEF Turned
<1>5. task'[t] = pc /\ s # None
  BY <1>4, GateConstants DEF GatesInv, GateTypes
<1>6. PICK v : v = IF pc = "done" THEN None ELSE s
  OBVIOUS
<1>7. Goes(t, pc, v) /\ (v # None <=> pc # "done") /\ v \in {None, reg[Host(t)]}
  BY <1>1, <1>4, <1>5, <1>6 DEF Goes
<1>8. Rereferred(t, reg, v)
  BY <1>1, <1>7 DEF Goes, Rereferred, Offers, Registered, Refers
<1>9. pc \in {"global", "host", "fetching", "done"}
  OBVIOUS
<1>10. /\ {y \in Tasks : task'[y] = "global"} = G
       /\ {y \in Tasks : task'[y] \in {"host", "fetching"}} = IF pc = "done" THEN H \ {t} ELSE H
  BY <1>7, <1>9, TaskSets
<1>11. /\ {y \in Tasks : task'[y] = "host" /\ uses'[y] = s} = IF pc = "host" THEN W \cup {t} ELSE W
       /\ {y \in Tasks : task'[y] = "fetching" /\ uses'[y] = s} = IF pc = "fetching" THEN F \cup {t} ELSE F
  <2>1. W \ {t} = W /\ F \ {t} = F
    BY <1>1
  <2>2. /\ {y \in Tasks : task'[y] = "host" /\ uses'[y] = s} =
             IF pc = "host" /\ v = s THEN W \cup {t} ELSE W \ {t}
        /\ {y \in Tasks : task'[y] = "fetching" /\ uses'[y] = s} =
             IF pc = "fetching" /\ v = s THEN F \cup {t} ELSE F \ {t}
    BY <1>7, <1>9, TaskSets
  <2>. QED BY <1>6, <2>1, <2>2
<1>12. GlobalKept'
  BY <1>4, <1>10 DEF GlobalKept
<1>13. Moved(t, pc, reg, v)
  <2>1. Sound(hostSem'[s], Tasks, PerHost, {y \in Tasks : task'[y] = "host" /\ uses'[y] = s},
              {y \in Tasks : task'[y] = "fetching" /\ uses'[y] = s})
    BY <1>4, <1>11
  <2>. HIDE DEF G, H, W, F
  <2>. QED BY <1>1, <1>4, <1>7, <1>8, <2>1 DEF Moved
<1>. QED BY <1>9, <1>12, <1>13, TaskMoves

\* A task that was handed a permit of the process goes on to its host.
LEMMA GlobalTurnKeeps ==
  ASSUME GatesInv, NEW t \in Tasks, GlobalTurn(t)
  PROVE  GatesInv'
<1>. DEFINE G == {y \in Tasks : task[y] = "global"}
            H == {y \in Tasks : task[y] \in {"host", "fetching"}}
            s == uses[t]
            g == Run(global, t)
<1>1. Sound(global, Tasks, Concurrency, G, H) /\ Concurrency \in Nat
  BY GateConstants DEF GatesInv, GlobalKept
<1>2. /\ t \in global.granted /\ t \notin doomed /\ HostTurn(t, s, g, hostSem)
      /\ uses' = [uses EXCEPT ![t] = IF task'[t] = "done" THEN None ELSE s]
      /\ registry' = Registered(registry) /\ UNCHANGED <<operationVars, doomed>>
  BY DEF GlobalTurn
<1>3. t \in G /\ t \notin H
  BY <1>1, <1>2 DEF Sound, Counted
<1>4. task[t] = "global" /\ s \in Tasks /\ s # None /\ s = registry[Host(t)] /\ Host(t) \in Hosts
  BY <1>3, TaskShape DEF GatesInv, GateTypes, Referring
<1>5. Sound(g, Tasks, Concurrency, G \ {t}, H \cup {t})
  <2>. HIDE DEF G, H
  <2>. QED BY <1>1, <1>2, <1>3, RunSound
<1>6. Sound(hostSem[s], Tasks, PerHost, HostWaiters(s), HostHolders(s)) /\ DOMAIN hostSem = Tasks
  BY <1>4 DEF GatesInv, GateTypes, HostKept
<1>7. t \notin HostWaiters(s) /\ t \notin HostHolders(s)
  BY <1>4 DEF HostWaiters, HostHolders
<1>8. Offers(t, registry)
  BY DEF Offers, GatesInv, GateTypes
<1>9. Prepared(t, s, g, hostSem, registry)
  <2>1. MayTurn(t, s, g, hostSem, G \ {t}, H \cup {t}, HostWaiters(s), HostHolders(s))
    BY <1>5, <1>6, <1>7 DEF MayTurn
  <2>. QED BY <1>2, <1>4, <1>8, <2>1 DEF Prepared
<1>. HIDE DEF s, g
<1>. QED BY <1>2, <1>4, <1>9, HostTurnKeeps

\* A task begins: with the semaphore of its host, a new one if nobody refers to it.
LEMMA BeginKeeps ==
  ASSUME GatesInv, NEW t \in Tasks, Begin(t)
  PROVE  GatesInv'
<1>. DEFINE G == {y \in Tasks : task[y] = "global"}
            H == {y \in Tasks : task[y] \in {"host", "fetching"}}
            h == Host(t)
            new == registry[h] = None
            s == IF new THEN CHOOSE x \in Tasks : \A y \in Tasks : uses[y] # x ELSE registry[h]
            hs == IF new THEN [hostSem EXCEPT ![s] = Semaphore(PerHost)] ELSE hostSem
            reg == [registry EXCEPT ![h] = s]
<1>1. Sound(global, Tasks, Concurrency, G, H) /\ Concurrency \in Nat /\ PerHost \in Nat
  BY GateConstants DEF GatesInv, GlobalKept
<1>2. task[t] = "created" /\ t \notin doomed /\ uses[t] = None /\ h \in Hosts
      /\ t \notin G /\ t \notin H
  BY TaskShape DEF Begin, GatesInv, Referring
<1>3. /\ \/ ~Locked(global) /\ HostTurn(t, s, Take(global), hs)
         \/ Locked(global) /\ Goto(t, "global") /\ global' = Enqueue(global, t) /\ hostSem' = hs
         \/ Goto(t, "done") /\ hostSem' = hs /\ global' = global
      /\ uses' = [uses EXCEPT ![t] = IF task'[t] = "done" THEN None ELSE s]
      /\ registry' = Registered(reg) /\ UNCHANGED <<operationVars, doomed>>
  BY DEF Begin
<1>4. s \in Tasks /\ (new => \A y \in Tasks : uses[y] # s)
  <2>1. CASE new
    <3>1. \E x \in Tasks : \A y \in Tasks : uses[y] # x
      BY <1>2, UnusedSemaphore DEF GatesInv
    <3>. QED BY <2>1, <3>1
  <2>2. CASE ~new
    BY <1>2, <2>2 DEF GatesInv, GateTypes
  <2>. QED BY <2>1, <2>2
<1>5. DOMAIN hs = Tasks /\ (\A x \in Tasks \ {s} : hs[x] = hostSem[x])
      /\ hs[s] = IF new THEN Semaphore(PerHost) ELSE hostSem[s]
  <2>1. DOMAIN hostSem = Tasks
    BY DEF GatesInv, GateTypes
  <2>. HIDE DEF s, new
  <2>. QED BY <1>4, <2>1
<1>6. reg[h] = s /\ Offers(t, reg)
  <2>1. registry \in [Hosts -> Tasks \cup {None}]
    BY DEF GatesInv, GateTypes
  <2>2. ~new => s = registry[h]
    OBVIOUS
  <2>3. new <=> registry[h] = None
    OBVIOUS
  <2>. HIDE DEF s, new
  <2>. QED BY <1>2, <1>4, <2>1, <2>2, <2>3 DEF Offers
<1>7. s # None /\ t \notin HostWaiters(s) /\ t \notin HostHolders(s)
  BY <1>2, <1>4, GateConstants DEF HostWaiters, HostHolders
<1>8. Sound(hs[s], Tasks, PerHost, HostWaiters(s), HostHolders(s))
  <2>1. CASE new
    <3>1. HostWaiters(s) = {} /\ HostHolders(s) = {}
      BY <1>4, <2>1 DEF HostWaiters, HostHolders
    <3>2. Sound(Semaphore(PerHost), Tasks, PerHost, {}, {})
      BY <1>1, SemaphoreSound
    <3>3. hs[s] = Semaphore(PerHost)
      BY <1>5, <2>1
    <3>. HIDE DEF s, hs, new
    <3>. QED BY <3>1, <3>2, <3>3
  <2>2. CASE ~new
    <3>1. s = registry[h] /\ hs[s] = hostSem[s]
      BY <1>5, <2>2
    <3>. QED BY <1>2, <1>7, <3>1 DEF GatesInv, HostKept
  <2>. QED BY <2>1, <2>2
<1>. HIDE DEF s, hs, reg, new
<1>9. CASE ~Locked(global) /\ HostTurn(t, s, Take(global), hs)
  <2>. DEFINE g == Take(global)
  <2>1. Sound(g, Tasks, Concurrency, G, H \cup {t})
    <3>. HIDE DEF G, H
    <3>. QED BY <1>1, <1>2, <1>9, TakeSound
  <2>2. G \ {t} = G
    BY <1>2
  <2>3. MayTurn(t, s, g, hs, G \ {t}, H \cup {t}, HostWaiters(s), HostHolders(s))
    BY <1>5, <1>7, <1>8, <2>1, <2>2 DEF MayTurn
  <2>4. Prepared(t, s, g, hs, reg)
    BY <1>2, <1>5, <1>6, <2>3 DEF Prepared
  <2>. HIDE DEF g
  <2>. QED BY <1>3, <1>4, <1>9, <2>4, HostTurnKeeps DEF g
<1>10. ASSUME NEW pc \in {"global", "done"}, Goto(t, pc), hostSem' = hs,
              NEW v, v = (IF pc = "done" THEN None ELSE s),
              Sound(global', Tasks, Concurrency, IF pc = "global" THEN G \cup {t} ELSE G, H)
       PROVE  GatesInv'
  <2>1. task' = [task EXCEPT ![t] = pc] /\ task'[t] = pc
    BY <1>10 DEF Goto, GatesInv, GateTypes
  <2>2. Goes(t, pc, v) /\ (v # None <=> pc # "done") /\ v \in {None, reg[Host(t)]}
    BY <1>3, <1>6, <1>7, <1>10, <2>1 DEF Goes
  <2>3. Rereferred(t, reg, v)
    BY <1>3, <1>6, <2>2 DEF Goes, Rereferred, Offers, Registered, Refers
  <2>4. pc \in {"global", "host", "fetching", "done"}
    OBVIOUS
  <2>5. /\ {y \in Tasks : task'[y] = "global"} = IF pc = "global" THEN G \cup {t} ELSE G
        /\ {y \in Tasks : task'[y] \in {"host", "fetching"}} = H
    <3>1. G \ {t} = G /\ H \ {t} = H
      BY <1>2
    <3>2. /\ {y \in Tasks : task'[y] = "global"} = IF pc = "global" THEN G \cup {t} ELSE G \ {t}
          /\ {y \in Tasks : task'[y] \in {"host", "fetching"}} =
               IF pc \in {"host", "fetching"} THEN H \cup {t} ELSE H \ {t}
      BY <2>2, <2>4, TaskSets
    <3>. QED BY <3>1, <3>2
  <2>6. /\ {y \in Tasks : task'[y] = "host" /\ uses'[y] = s} = HostWaiters(s)
        /\ {y \in Tasks : task'[y] = "fetching" /\ uses'[y] = s} = HostHolders(s)
    <3>1. HostWaiters(s) \ {t} = HostWaiters(s) /\ HostHolders(s) \ {t} = HostHolders(s)
      BY <1>7
    <3>2. /\ {y \in Tasks : task'[y] = "host" /\ uses'[y] = s} =
               IF pc = "host" /\ v = s THEN HostWaiters(s) \cup {t} ELSE HostWaiters(s) \ {t}
          /\ {y \in Tasks : task'[y] = "fetching" /\ uses'[y] = s} =
               IF pc = "fetching" /\ v = s THEN HostHolders(s) \cup {t} ELSE HostHolders(s) \ {t}
      BY <1>4, <2>2, <2>4, TaskSets
    <3>. QED BY <3>1, <3>2
  <2>7. GlobalKept'
    BY <1>10, <2>5 DEF GlobalKept
  <2>8. Moved(t, pc, reg, v)
    <3>1. Sound(hostSem'[s], Tasks, PerHost, {y \in Tasks : task'[y] = "host" /\ uses'[y] = s},
                {y \in Tasks : task'[y] = "fetching" /\ uses'[y] = s})
      BY <1>8, <1>10, <2>6
    <3>. QED BY <1>2, <1>3, <1>5, <1>6, <1>10, <2>1, <2>2, <2>3, <3>1 DEF Moved
  <2>. QED BY <2>4, <2>7, <2>8, TaskMoves
<1>11. CASE Locked(global) /\ Goto(t, "global") /\ global' = Enqueue(global, t) /\ hostSem' = hs
  <2>1. Sound(global', Tasks, Concurrency, G \cup {t}, H)
    <3>. HIDE DEF G, H
    <3>. QED BY <1>1, <1>2, <1>11, EnqueueSound
  <2>. QED BY <1>10, <1>11, <2>1
<1>12. CASE Goto(t, "done") /\ hostSem' = hs /\ global' = global
  BY <1>1, <1>10, <1>12
<1>. QED BY <1>3, <1>9, <1>11, <1>12

\* A task that was handed a permit of its host fetches.
LEMMA HostGrantedKeeps ==
  ASSUME GatesInv, NEW t \in Tasks, HostGranted(t)
  PROVE  GatesInv'
<1>. DEFINE s == uses[t]
            W == HostWaiters(s)
            F == HostHolders(s)
            G == {y \in Tasks : task[y] = "global"}
            H == {y \in Tasks : task[y] \in {"host", "fetching"}}
<1>1. /\ task[t] = "host" /\ t \in hostSem[s].granted /\ t \notin doomed
      /\ task' = [task EXCEPT ![t] = "fetching"]
      /\ hostSem' = [hostSem EXCEPT ![s] = Run(hostSem[s], t)]
      /\ UNCHANGED <<operationVars, doomed, global, uses, registry>>
  BY DEF HostGranted, Goto
<1>2. s \in Tasks /\ s # None /\ s = registry[Host(t)] /\ Host(t) \in Hosts
  BY <1>1, TaskShape DEF GatesInv, GateTypes, Referring
<1>3. Sound(hostSem[s], Tasks, PerHost, W, F) /\ DOMAIN hostSem = Tasks /\ PerHost \in Nat
  BY <1>2, GateConstants DEF GatesInv, GateTypes, HostKept
<1>4. t \in W /\ t \notin F /\ t \in H /\ t \notin G
  BY <1>1 DEF HostWaiters, HostHolders
<1>5. Sound(Run(hostSem[s], t), Tasks, PerHost, W \ {t}, F \cup {t})
  <2>. HIDE DEF W, F
  <2>. QED BY <1>1, <1>3, <1>4, RunSound
<1>6. Goes(t, "fetching", s) /\ s # None
  <2>1. uses' = [uses EXCEPT ![t] = s]
    BY <1>1 DEF GatesInv, GateTypes
  <2>. QED BY <1>1, <1>2, <2>1 DEF Goes
<1>7. /\ {y \in Tasks : task'[y] = "global"} = G
      /\ {y \in Tasks : task'[y] \in {"host", "fetching"}} = H
      /\ {y \in Tasks : task'[y] = "host" /\ uses'[y] = s} = W \ {t}
      /\ {y \in Tasks : task'[y] = "fetching" /\ uses'[y] = s} = F \cup {t}
  <2>1. G \ {t} = G /\ H \cup {t} = H
    BY <1>4
  <2>2. /\ {y \in Tasks : task'[y] = "global"} = G \ {t}
        /\ {y \in Tasks : task'[y] \in {"host", "fetching"}} = H \cup {t}
        /\ {y \in Tasks : task'[y] = "host" /\ uses'[y] = s} = W \ {t}
        /\ {y \in Tasks : task'[y] = "fetching" /\ uses'[y] = s} = F \cup {t}
    BY <1>2, <1>6, TaskSets
  <2>. QED BY <2>1, <2>2
<1>8. Offers(t, registry)
  BY DEF Offers, GatesInv, GateTypes
<1>9. Rereferred(t, registry, s)
  <2>1. \A k \in Hosts : registry[k] = IF \E y \in Tasks : registry[k] # None /\ uses[y] = registry[k]
                                        THEN registry[k] ELSE None
    BY DEF GatesInv, Registering
  <2>. QED BY <1>1, <1>2, <1>6, <1>8, <2>1 DEF Rereferred, Goes, GatesInv, GateTypes
<1>10. GlobalKept'
  BY <1>1, <1>7 DEF GlobalKept, GatesInv
<1>. HIDE DEF W, F
<1>11. /\ hostSem'[s] = Run(hostSem[s], t) /\ DOMAIN hostSem' = Tasks
       /\ \A x \in Tasks \ {s} : hostSem'[x] = hostSem[x]
  <2>. HIDE DEF s
  <2>. QED BY <1>1, <1>2, <1>3
<1>12. Moved(t, "fetching", registry, s)
  <2>1. Sound(hostSem'[s], Tasks, PerHost, {y \in Tasks : task'[y] = "host" /\ uses'[y] = s},
              {y \in Tasks : task'[y] = "fetching" /\ uses'[y] = s})
    BY <1>5, <1>7, <1>11
  <2>. HIDE DEF s
  <2>. QED BY <1>1, <1>2, <1>9, <1>11, <2>1 DEF Moved
<1>. HIDE DEF s
<1>. QED BY <1>10, <1>12, TaskMoves

\* The task ends: what it waits for goes on without it, what it holds is returned.
LEMMA ExitKeeps ==
  ASSUME GatesInv, NEW t \in Tasks, task[t] \in Waiting \cup {"created", "fetching"}, Exit(t)
  PROVE  GatesInv'
<1>. DEFINE s == registry[Host(t)]
            W == HostWaiters(s)
            F == HostHolders(s)
            G == {y \in Tasks : task[y] = "global"}
            H == {y \in Tasks : task[y] \in {"host", "fetching"}}
<1>1. /\ task' = [task EXCEPT ![t] = "done"] /\ uses' = [uses EXCEPT ![t] = None]
      /\ registry' = Registered(registry) /\ UNCHANGED <<operationVars, doomed>>
  BY DEF Exit, Goto
<1>2. /\ task[t] \in {"created", "global", "host", "fetching"} /\ Host(t) \in Hosts
      /\ s \in Tasks \cup {None} /\ None \notin Tasks
      /\ task[t] # "created" => s = uses[t] /\ s # None
      /\ Concurrency \in Nat /\ PerHost \in Nat /\ DOMAIN hostSem = Tasks
  BY TaskShape, GateConstants DEF Waiting, GatesInv, GateTypes, Referring
<1>3. Sound(global, Tasks, Concurrency, G, H)
  BY DEF GatesInv, GlobalKept
<1>4. s # None => Sound(hostSem[s], Tasks, PerHost, W, F)
  BY <1>2 DEF GatesInv, HostKept
<1>5. /\ t \in G <=> task[t] = "global"
      /\ t \in H <=> task[t] \in {"host", "fetching"}
      /\ s # None => (t \in W <=> task[t] = "host")
      /\ s # None => (t \in F <=> task[t] = "fetching")
  BY <1>2 DEF HostWaiters, HostHolders
<1>6. Goes(t, "done", None)
  BY <1>1 DEF Goes
<1>7. /\ {y \in Tasks : task'[y] = "global"} = G \ {t}
      /\ {y \in Tasks : task'[y] \in {"host", "fetching"}} = H \ {t}
      /\ s # None => /\ {y \in Tasks : task'[y] = "host" /\ uses'[y] = s} = W \ {t}
                     /\ {y \in Tasks : task'[y] = "fetching" /\ uses'[y] = s} = F \ {t}
  BY <1>2, <1>6, TaskSets
<1>8. Offers(t, registry)
  BY DEF Offers, GatesInv, GateTypes
<1>9. Rereferred(t, registry, None)
  BY <1>1, <1>8 DEF Rereferred, Registered, Refers, GatesInv, GateTypes
<1>10. Sound(global', Tasks, Concurrency, G \ {t}, H \ {t})
  <2>. HIDE DEF G, H
  <2>1. CASE task[t] = "created"
    <3>1. global' = global /\ G \ {t} = G /\ H \ {t} = H
      BY <1>5, <2>1 DEF Exit
    <3>. QED BY <1>3, <3>1
  <2>2. CASE task[t] = "global"
    <3>1. global' = Leave(global, t) /\ H \ {t} = H /\ t \in G
      BY <1>5, <2>2 DEF Exit
    <3>. QED BY <1>2, <1>3, <3>1, LeaveSound
  <2>3. CASE task[t] \in {"host", "fetching"}
    <3>1. global' = Release(global) /\ G \ {t} = G /\ t \in H
      BY <1>5, <2>3 DEF Exit
    <3>. QED BY <1>2, <1>3, <3>1, ReleaseSound
  <2>. QED BY <1>2, <2>1, <2>2, <2>3
<1>. HIDE DEF W, F
<1>11. /\ DOMAIN hostSem' = Tasks /\ \A x \in Tasks \ {s} : hostSem'[x] = hostSem[x]
       /\ s # None => Sound(hostSem'[s], Tasks, PerHost, W \ {t}, F \ {t})
  <2>. HIDE DEF s
  <2>1. CASE task[t] \in {"created", "global"}
    <3>1. hostSem' = hostSem /\ (s # None => W \ {t} = W /\ F \ {t} = F)
      BY <1>5, <2>1 DEF Exit
    <3>. QED BY <1>2, <1>4, <3>1
  <2>2. CASE task[t] = "host"
    <3>1. hostSem' = [hostSem EXCEPT ![s] = Leave(hostSem[s], t)]
      BY <1>2, <2>2 DEF Exit
    <3>2. s \in Tasks /\ t \in W /\ F \ {t} = F
      BY <1>2, <1>5, <2>2
    <3>3. Sound(Leave(hostSem[s], t), Tasks, PerHost, W \ {t}, F)
      BY <1>2, <1>4, <2>2, <3>2, LeaveSound
    <3>. QED BY <1>2, <3>1, <3>2, <3>3
  <2>3. CASE task[t] = "fetching"
    <3>1. hostSem' = [hostSem EXCEPT ![s] = Release(hostSem[s])]
      BY <1>2, <2>3 DEF Exit
    <3>2. s \in Tasks /\ t \in F /\ W \ {t} = W
      BY <1>2, <1>5, <2>3
    <3>3. Sound(Release(hostSem[s]), Tasks, PerHost, W, F \ {t})
      BY <1>2, <1>4, <2>3, <3>2, ReleaseSound
    <3>. QED BY <1>2, <3>1, <3>2, <3>3
  <2>. QED BY <1>2, <2>1, <2>2, <2>3
<1>12. GlobalKept'
  BY <1>7, <1>10 DEF GlobalKept
<1>13. Moved(t, "done", registry, None)
  <2>1. s # None => Sound(hostSem'[s], Tasks, PerHost,
                          {y \in Tasks : task'[y] = "host" /\ uses'[y] = s},
                          {y \in Tasks : task'[y] = "fetching" /\ uses'[y] = s})
    BY <1>7, <1>11
  <2>. QED BY <1>1, <1>2, <1>9, <1>11, <2>1 DEF Moved
<1>. QED BY <1>12, <1>13, TaskMoves

-----------------------------------------------------------------------------
(* The theorems.                                                           *)

\* No slot is taken, nobody waits and no semaphore of a host is known.
LEMMA GatesInit == Init => GatesInv
<1>. SUFFICES ASSUME Init PROVE GatesInv
  OBVIOUS
<1>1. /\ \A r \in Requests : request[r] = "idle"
      /\ \A t \in Tasks : task[t] = "none" /\ uses[t] = None
      /\ \A h \in Hosts : registry[h] = None
  BY DEF Init
<1>2. MaxInflight \in Nat /\ Concurrency \in Nat
  BY GateConstants
<1>3. GateTypes
  BY DEF Init, GateTypes
<1>4. PoolKept
  <2>1. {r \in Requests : request[r] = "waiting"} = {} /\ {r \in Requests : request[r] \in Running} = {}
    BY <1>1 DEF Running
  <2>2. Sound(pool, Requests, MaxInflight, {}, {})
    BY <1>2, SemaphoreSound DEF Init
  <2>. QED BY <2>1, <2>2 DEF PoolKept
<1>5. GlobalKept
  <2>1. {t \in Tasks : task[t] = "global"} = {} /\ {t \in Tasks : task[t] \in {"host", "fetching"}} = {}
    BY <1>1
  <2>2. Sound(global, Tasks, Concurrency, {}, {})
    BY <1>2, SemaphoreSound DEF Init
  <2>. QED BY <2>1, <2>2 DEF GlobalKept
<1>6. Referring /\ Registering /\ \A h \in Hosts : HostKept(h)
  BY <1>1, TaskShape DEF Referring, Registering, HostKept
<1>7. Ending
  BY <1>1, TaskShape DEF Ending
<1>. QED BY <1>3, <1>4, <1>5, <1>6, <1>7 DEF GatesInv

\* Every step of a request, of a task and of the event loop keeps the invariant.
LEMMA GatesNext == GatesInv /\ [Next]_vars => GatesInv'
<1>. SUFFICES ASSUME GatesInv, [Next]_vars PROVE GatesInv'
  OBVIOUS
<1>1. ASSUME NEW r \in Requests,
             Arrive(r) \/ Operate(r) \/ RouteDeadline(r) \/ Disconnect(r) \/ SecondCancel(r)
      PROVE  GatesInv'
  <2>1. ASSUME Stop(r), request[r] \in {"fetching", "collecting"} PROVE GatesInv'
    BY <2>1, DoomKeeps DEF Stop, Running
  <2>2. CASE Arrive(r)
    BY <2>2, ArriveKeeps
  <2>3. CASE EnterPool(r)
    BY <2>3, EnterPoolKeeps
  <2>4. CASE PoolTimeout(r)
    BY <2>4, GiveUpKeeps DEF PoolTimeout
  <2>5. CASE FetchTimeout(r)
    BY <2>5, DoomKeeps DEF FetchTimeout, Running
  <2>6. CASE Finish(r)
    <3>1. \A t \in TasksOf(r) : task[t] \in {"none", "done"} \/ t \in doomed
      BY <2>6 DEF Finish, AllDone
    <3>. QED BY <2>6, <3>1, LeaveKeeps DEF Finish
  <2>7. CASE RouteDeadline(r)
    BY <2>1, <2>7 DEF RouteDeadline
  <2>8. CASE Disconnect(r)
    <3>1. CASE request[r] = "waiting" /\ pool' = Leave(pool, r) /\ Answer(r) /\ UNCHANGED taskVars
      BY <3>1, GiveUpKeeps
    <3>2. CASE request[r] \in {"fetching", "collecting"} /\ Stop(r)
      BY <2>1, <3>2
    <3>. QED BY <2>8, <3>1, <3>2 DEF Disconnect
  <2>9. CASE SecondCancel(r)
    <3>1. \A t \in TasksOf(r) : task[t] \in {"none", "done"} \/ t \in doomed
      BY <2>9 DEF SecondCancel, GatesInv, Ending, TasksOf
    <3>. QED BY <2>9, <3>1, LeaveKeeps DEF SecondCancel, Running
  <2>. QED BY <1>1, <2>2, <2>3, <2>4, <2>5, <2>6, <2>7, <2>8, <2>9 DEF Operate
<1>2. ASSUME NEW t \in Tasks, Step(t) \/ Respond(t) PROVE GatesInv'
  <2>1. CASE Begin(t)
    BY <2>1, BeginKeeps
  <2>2. CASE GlobalTurn(t)
    BY <2>2, GlobalTurnKeeps
  <2>3. CASE HostGranted(t)
    BY <2>3, HostGrantedKeeps
  <2>4. CASE WaitTimeout(t) \/ Interrupt(t) \/ Respond(t)
    <3>1. Exit(t) /\ task[t] \in Waiting \cup {"created", "fetching"}
      BY <2>4 DEF WaitTimeout, Interrupt, Respond
    <3>. QED BY <3>1, ExitKeeps
  <2>. QED BY <1>2, <2>1, <2>2, <2>3, <2>4 DEF Step
<1>3. CASE UNCHANGED vars
  <2>1. \A s : HostWaiters(s)' = HostWaiters(s) /\ HostHolders(s)' = HostHolders(s)
    BY <1>3 DEF vars, HostWaiters, HostHolders
  <2>2. PoolKept' /\ GlobalKept'
    BY <1>3 DEF vars, GatesInv, PoolKept, GlobalKept
  <2>3. GateTypes' /\ Referring' /\ Registering' /\ Ending'
    BY <1>3 DEF vars, GatesInv, GateTypes, Referring, Registering, Ending
  <2>4. \A h \in Hosts : HostKept(h)'
    BY <1>3 DEF vars, GatesInv, HostKept, HostWaiters, HostHolders
  <2>. QED BY <2>2, <2>3, <2>4 DEF GatesInv
<1>. QED BY <1>1, <1>2, <1>3 DEF Next

\* Who waits for each semaphore of _AdmissionPool.slot and of _fetch_one_outcome, and who
\* holds its permits, agree with where every request and every task is; a task refers to
\* the one registered semaphore of its host from the line that looks it up until it ends.
THEOREM GatesInvariant == Spec => []GatesInv
<1>1. Init => GatesInv
  BY GatesInit
<1>2. GatesInv /\ [Next]_vars => GatesInv'
  BY GatesNext
<1>. QED BY <1>1, <1>2, PTL DEF Spec

\* A sound semaphore is whole.
LEMMA SoundIsWhole ==
  ASSUME NEW s, NEW X, NEW limit, NEW W, NEW H, Sound(s, X, limit, W, H)
  PROVE  Whole(s, limit, H)
  BY DEF Sound, Counted, NoneSleeps, Whole

\* The permits of the route, of the process and of each host: none is lost or returned
\* twice whichever way a wait ends, nobody sleeps beside a free one, and no host is asked
\* for more than per_host_concurrency pages at a time although its semaphore is forgotten
\* and made anew.
THEOREM PermitsAreKept == Spec => []PermitsKept
<1>1. GatesInv => PermitsKept
  <2>. SUFFICES ASSUME GatesInv PROVE PermitsKept
    OBVIOUS
  <2>1. Whole(pool, MaxInflight, {r \in Requests : request[r] \in Running})
    BY SoundIsWhole DEF GatesInv, PoolKept
  <2>2. Whole(global, Concurrency, {t \in Tasks : task[t] \in {"host", "fetching"}})
    BY SoundIsWhole DEF GatesInv, GlobalKept
  <2>3. ASSUME NEW h \in Hosts, registry[h] # None
        PROVE  Sound(hostSem[registry[h]], Tasks, PerHost,
                     HostWaiters(registry[h]), HostHolders(registry[h]))
    BY <2>3 DEF GatesInv, HostKept
  <2>4. ASSUME NEW h \in Hosts, registry[h] # None
        PROVE  Whole(hostSem[registry[h]], PerHost, HostHolders(registry[h]))
    BY <2>3, <2>4, SoundIsWhole
  <2>5. ASSUME NEW h \in Hosts
        PROVE  Cardinality({t \in Tasks : task[t] = "fetching" /\ Host(t) = h}) <= PerHost
    <3>. DEFINE fetching == {t \in Tasks : task[t] = "fetching" /\ Host(t) = h}
                F == HostHolders(registry[h])
    <3>1. PerHost \in Nat /\ PerHost > 0
      BY GateConstants
    <3>2. \A t \in fetching : uses[t] # None /\ uses[t] = registry[h]
      BY DEF GatesInv, Referring
    <3>3. CASE registry[h] = None
      <4>1. fetching = {}
        BY <3>2, <3>3
      <4>. QED BY <3>1, <4>1, FS_EmptySet
    <3>4. CASE registry[h] # None
      <4>1. fetching \subseteq F
        BY <3>2 DEF HostHolders
      <4>2. PICK s : s = hostSem[registry[h]]
        OBVIOUS
      <4>3. /\ IsFiniteSet(F) /\ IsFiniteSet(s.granted) /\ s.free \in Nat
            /\ s.free + Cardinality(s.granted) + Cardinality(F) = PerHost
        BY <2>3, <3>4, <4>2 DEF Sound, Counted
      <4>. HIDE DEF fetching, F
      <4>4. Cardinality(fetching) <= Cardinality(F) /\ IsFiniteSet(fetching)
        BY <4>1, <4>3, FS_Subset
      <4>5. Cardinality(fetching) \in Nat /\ Cardinality(F) \in Nat /\ Cardinality(s.granted) \in Nat
        BY <4>3, <4>4, FS_CardinalityType
      <4>6. Cardinality(fetching) <= PerHost
        BY <3>1, <4>3, <4>4, <4>5
      <4>. QED BY <4>6 DEF fetching
    <3>. QED BY <3>3, <3>4
  <2>. QED BY <2>1, <2>2, <2>4, <2>5 DEF PermitsKept, PermitsConserved, HostBound, HostHolders
<1>. QED BY <1>1, GatesInvariant, PTL

\* Once run_fetch has answered, by its result, its deadline or because the client hung up,
\* every fetch of the request is over or cancelled.
THEOREM NothingStaysBehind == Spec => []NothingGoesOn
<1>1. GatesInv => NothingGoesOn
  BY DEF GatesInv, Ending, NothingGoesOn
<1>. QED BY <1>1, GatesInvariant, PTL
=============================================================================
