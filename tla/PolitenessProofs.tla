--------------------------- MODULE PolitenessProofs ---------------------------
(***************************************************************************)
(* Proofs about host politeness, for any number of callers and hosts, any  *)
(* spacings and Retry-After values and an unbounded clock.                 *)
(***************************************************************************)
EXTENDS Politeness, TLAPS

CallerFields == {"pc", "host", "lock", "until"}

\* What the proof needs to know of types.  The lock objects play no part in it.
PoliteTypeOK ==
  /\ clock \in Int
  /\ nextAllowed \in [Hosts -> Int] /\ earliest \in [Hosts -> Int]
  /\ failures \in [Hosts -> Int]
  /\ DOMAIN caller = Callers
  /\ \A c \in Callers :
       /\ DOMAIN caller[c] = CallerFields
       /\ caller[c].pc \in {"away", "lock", "asleep", "fetching"}
       /\ caller[c].pc # "away" => caller[c].host \in Hosts

\* What is remembered of a host is enough: what was agreed and has been forgotten is over.
Remembered == \A h \in Hosts : earliest[h] <= Greater(clock, nextAllowed[h])

PoliteInv == PoliteTypeOK /\ Remembered

\* The length of a cooldown is a number of seconds.
LEMMA AdaptiveIsInt ==
  ASSUME NEW n \in Int
  PROVE  Adaptive(n) \in Int
<1>1. Lesser(n, 10) \in Int /\ MaxCooldown \in Int
  BY PoliteConstants DEF Lesser
<1>2. 2 ^ Lesser(n, 10) \in Int
  BY <1>1
<1>. QED BY <1>1, <1>2 DEF Adaptive, Lesser

\* A cooldown or spacing that is agreed for one host is remembered.
LEMMA AgreedIsRemembered ==
  ASSUME PoliteInv, NEW h \in Hosts, NEW t \in Int,
         nextAllowed' = [nextAllowed EXCEPT ![h] = Greater(@, t)],
         earliest' = [earliest EXCEPT ![h] = Greater(@, t)], clock' = clock
  PROVE  /\ nextAllowed' \in [Hosts -> Int] /\ earliest' \in [Hosts -> Int]
         /\ Remembered'
BY DEF PoliteInv, PoliteTypeOK, Remembered, Greater

\* Every step keeps the remembered turns and their spacing.
LEMMA PoliteStep ==
  ASSUME PoliteInv, [Next]_vars
  PROVE  PoliteInv'
<1>. USE DEF PoliteInv, PoliteTypeOK, Remembered, CallerFields
<1>1. CASE UNCHANGED vars
  BY <1>1 DEF vars
<1>2. CASE Tick
  BY <1>2 DEF Tick, Greater
<1>3. ASSUME NEW c \in Callers, NEW h \in Hosts, Wait(c, h)
      PROVE  PoliteInv'
  <2>1. \A g \in Hosts : \/ nextAllowed'[g] = nextAllowed[g]
                         \/ nextAllowed'[g] = 0 /\ nextAllowed[g] <= clock
    BY <1>3 DEF Wait, Kept, Idle
  <2>2. nextAllowed' \in [Hosts -> Int] /\ failures' \in [Hosts -> Int]
    BY <1>3 DEF Wait, Kept
  <2>3. clock' = clock /\ earliest' = earliest
    BY <1>3 DEF Wait
  <2>4. \E l : caller' = [caller EXCEPT ![c] = [pc |-> "lock", host |-> h, lock |-> l, until |-> 0]]
    BY <1>3 DEF Wait
  <2>. QED BY <2>1, <2>2, <2>3, <2>4 DEF Greater
<1>4. ASSUME NEW c \in Callers, Acquire(c) \/ SleepOn(c) \/ GiveUp(c)
      PROVE  PoliteInv'
  <2>1. UNCHANGED <<clock, nextAllowed, failures, earliest>>
    BY <1>4 DEF Acquire, SleepOn, GiveUp
  <2>2. \/ caller' = [caller EXCEPT ![c].pc = "asleep"] /\ caller[c].pc = "lock"
        \/ \E n : caller' = [caller EXCEPT ![c].until = n]
        \/ caller' = [caller EXCEPT ![c] = Away]
    BY <1>4 DEF Acquire, SleepOn, GiveUp
  <2>. QED BY <2>1, <2>2 DEF Away
<1>5. ASSUME NEW c \in Callers, Ask(c)
      PROVE  PoliteInv'
  <2>1. caller[c].host \in Hosts
    BY <1>5 DEF Ask, Awake
  <2>2. PICK s \in Spacings :
          /\ nextAllowed' = [nextAllowed EXCEPT ![caller[c].host] = Greater(@, clock + s)]
          /\ earliest' = [earliest EXCEPT ![caller[c].host] = Greater(@, clock + s)]
    BY <1>5 DEF Ask
  <2>3. clock + s \in Int
    BY PoliteConstants
  <2>4. clock' = clock /\ failures' = failures
    BY <1>5 DEF Ask
  <2>5. nextAllowed' \in [Hosts -> Int] /\ earliest' \in [Hosts -> Int] /\ Remembered'
    BY <2>1, <2>2, <2>3, <2>4, AgreedIsRemembered
  <2>6. caller' = [caller EXCEPT ![c] = [@ EXCEPT !.pc = "fetching", !.lock = None, !.until = 0]]
    BY <1>5 DEF Ask
  <2>. QED BY <2>1, <2>4, <2>5, <2>6
<1>6. ASSUME NEW c \in Callers, Refused(c)
      PROVE  PoliteInv'
  <2>. DEFINE h == caller[c].host
  <2>1. h \in Hosts
    BY <1>6 DEF Refused
  <2>2. /\ failures' \in [Hosts -> Int] /\ failures'[h] \in Int
        /\ clock' = clock /\ caller' = [caller EXCEPT ![c] = Away]
    BY <1>6, <2>1 DEF Refused
  <2>3. PICK retry \in RetryAfters :
          LET t == clock + Greater(Adaptive(failures'[h]), retry)
          IN /\ nextAllowed' = [nextAllowed EXCEPT ![h] = Greater(@, t)]
             /\ earliest' = [earliest EXCEPT ![h] = Greater(@, t)]
    BY <1>6 DEF Refused
  <2>4. clock + Greater(Adaptive(failures'[h]), retry) \in Int
    BY <2>2, AdaptiveIsInt, PoliteConstants DEF Greater
  <2>5. nextAllowed' \in [Hosts -> Int] /\ earliest' \in [Hosts -> Int] /\ Remembered'
    BY <2>1, <2>2, <2>3, <2>4, AgreedIsRemembered
  <2>. QED BY <2>2, <2>5 DEF Away
<1>7. ASSUME NEW c \in Callers, Answered(c)
      PROVE  PoliteInv'
  BY <1>7 DEF Answered, Away
<1>. QED BY <1>1, <1>2, <1>3, <1>4, <1>5, <1>6, <1>7 DEF Next

\* No request goes to a host before the time that was agreed for it (see NeverTooEarly):
\* wait() and record() of HostPoliteness keep one time for each host, and evict it only when
\* it has passed.
THEOREM SpacingHonoured == Spec => NeverTooEarly
<1>1. Init => PoliteInv
  BY DEF Init, PoliteInv, PoliteTypeOK, Remembered, Greater, Away, CallerFields
<1>2. ASSUME PoliteInv, [Next]_vars
      PROVE  \A c \in Callers :
               caller[c].pc # "fetching" /\ caller'[c].pc = "fetching"
                 => clock >= earliest[caller[c].host]
  <2>. SUFFICES ASSUME NEW c \in Callers, caller[c].pc # "fetching",
                       caller'[c].pc = "fetching"
                PROVE  clock >= earliest[caller[c].host]
    OBVIOUS
  <2>1. Ask(c)
    <3>. USE <1>2 DEF PoliteInv, PoliteTypeOK, CallerFields
    <3>1. caller' # caller
      OBVIOUS
    <3>2. PICK d \in Callers : \/ \E h \in Hosts : Wait(d, h)
                              \/ Acquire(d) \/ SleepOn(d) \/ Ask(d) \/ GiveUp(d)
                              \/ Refused(d) \/ Answered(d)
      BY <3>1 DEF Next, vars, Tick
    <3>3. CASE \E h \in Hosts : Wait(d, h)
      BY <3>3 DEF Wait
    <3>4. CASE Acquire(d)
      BY <3>4 DEF Acquire
    <3>5. CASE SleepOn(d)
      BY <3>5 DEF SleepOn
    <3>6. CASE GiveUp(d) \/ Refused(d) \/ Answered(d)
      <4>1. caller' = [caller EXCEPT ![d] = Away]
        BY <3>6 DEF GiveUp, Refused, Answered
      <4>. QED BY <4>1 DEF Away
    <3>7. CASE Ask(d)
      BY <3>7 DEF Ask
    <3>. QED BY <3>2, <3>3, <3>4, <3>5, <3>6, <3>7
  <2>2. caller[c].host \in Hosts /\ nextAllowed[caller[c].host] <= clock
    BY <1>2, <2>1 DEF Ask, Awake, MayAsk, PoliteInv, PoliteTypeOK
  <2>. QED BY <1>2, <2>2 DEF PoliteInv, PoliteTypeOK, Remembered, Greater
<1>. QED BY <1>1, <1>2, PoliteStep, PTL DEF Spec, NeverTooEarly
=============================================================================
