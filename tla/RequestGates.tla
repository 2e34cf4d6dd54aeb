---------------------------- MODULE RequestGates ----------------------------
(***************************************************************************)
(* From a client's request to the fetch service and back: the admission    *)
(* slot of the route (orchestrator/resource_policy.py), one task for each  *)
(* address, which takes a permit of the process and then one of its host   *)
(* (orchestrator/clients/crawl4ai_client.py), the deadline of the route    *)
(* and the client that hangs up (orchestrator/app.py).                     *)
(*                                                                         *)
(* A cancelled task goes on to its next await, where it releases what it   *)
(* holds; so a cancellation is a mark (doomed) and a later step.  The      *)
(* semaphores are asyncio's: first come, first served, a permit is handed  *)
(* to a waiter before the waiter runs.                                     *)
(***************************************************************************)
EXTENDS Integers, Sequences, FiniteSets, SequencesExt

CONSTANTS
  None,         \* no semaphore
  Requests,     \* requests of one route
  Plan,         \* the hosts of the addresses each of them fetches
  MaxInflight,  \* max_inflight of the route
  Concurrency,  \* concurrency of the fetch client
  PerHost       \* per_host_concurrency

Tasks == UNION {{<<r, i>> : i \in DOMAIN Plan[r]} : r \in Requests}
Host(t) == Plan[t[1]][t[2]]
Hosts == {Host(t) : t \in Tasks}
TasksOf(r) == {t \in Tasks : t[1] = r}

ASSUME GateConstants ==
  /\ DOMAIN Plan = Requests
  /\ IsFiniteSet(Tasks) /\ None \notin Tasks
  /\ MaxInflight \in Nat \ {0} /\ Concurrency \in Nat \ {0} /\ PerHost \in Nat \ {0}

VARIABLES
  patient,    \* the process's admission_wait_s is not 0
  request,    \* where each request is
  task,       \* where each address's task is
  doomed,     \* tasks that have been cancelled
  pool,       \* the semaphore of the route
  global,     \* the semaphore of the fetch client
  hostSem,    \* the semaphores of hosts: there are never more than tasks
  uses,       \* the semaphore of its host that each task refers to
  registry    \* _host_semaphores: the semaphore of each host, or None

vars == <<patient, request, task, doomed, pool, global, hostSem, uses, registry>>

-----------------------------------------------------------------------------
(* asyncio.Semaphore: free permits, waiters, and waiters that were handed  *)
(* a permit and have not run since.                                        *)

Semaphore(n) == [free |-> n, queue |-> <<>>, granted |-> {}]

Locked(s) == s.free = 0 \/ s.queue # <<>> \/ s.granted # {}
Take(s) == [s EXCEPT !.free = @ - 1]
Enqueue(s, x) == [s EXCEPT !.queue = Append(@, x)]

Release(s) ==
  IF s.queue = <<>>
  THEN [s EXCEPT !.free = @ + 1]
  ELSE [s EXCEPT !.queue = Tail(@), !.granted = @ \cup {Head(s.queue)}]

\* Free permits that came while a waiter was on its way go to those behind it.
WakeUp(s) ==
  LET n == IF s.free < Len(s.queue) THEN s.free ELSE Len(s.queue)
  IN [free |-> s.free - n, queue |-> SubSeq(s.queue, n + 1, Len(s.queue)),
      granted |-> s.granted \cup {s.queue[j] : j \in 1..n}]

Run(s, x) == WakeUp([s EXCEPT !.granted = @ \ {x}])

\* A waiter gives up; a permit it was handed goes to the next one.
Leave(s, x) ==
  IF x \in s.granted
  THEN WakeUp([s EXCEPT !.granted = @ \ {x}, !.free = @ + 1])
  ELSE [s EXCEPT !.queue = RemoveAt(@, CHOOSE j \in DOMAIN @ : @[j] = x)]

-----------------------------------------------------------------------------
(* _AdmissionPool.slot and run_fetch                                       *)

taskVars == <<patient, task, doomed, global, hostSem, uses, registry>>

\* A response, or 429, 499 or 504.
Answer(r) == request' = [request EXCEPT ![r] = "answered"]

\* asyncio.create_task for every address; a request that waits for a slot has none.
Spawned(r) == [t \in Tasks |-> IF t \in TasksOf(r) THEN "created" ELSE task[t]]

Admitted(r) ==
  /\ request' = [request EXCEPT ![r] = "fetching"]
  /\ task' = Spawned(r)
  /\ UNCHANGED <<patient, doomed, global, hostSem, uses, registry>>

Arrive(r) ==
  /\ request[r] = "idle"
  /\ \/ ~Locked(pool) /\ pool' = Take(pool) /\ Admitted(r)
     \/ Locked(pool) /\ ~patient /\ Answer(r) /\ UNCHANGED <<patient, pool, taskVars>>
     \/ /\ Locked(pool) /\ patient
        /\ request' = [request EXCEPT ![r] = "waiting"]
        /\ pool' = Enqueue(pool, r)
        /\ UNCHANGED taskVars

EnterPool(r) ==
  /\ r \in pool.granted
  /\ pool' = Run(pool, r)
  /\ Admitted(r)

\* The wait for a slot times out: 429.
PoolTimeout(r) ==
  /\ request[r] = "waiting"
  /\ pool' = Leave(pool, r)
  /\ Answer(r)
  /\ UNCHANGED taskVars

Running == {"fetching", "collecting", "stopping"}
Waiting == {"global", "host"}
AllDone(r) == \A t \in TasksOf(r) : task[t] = "done"

\* The tasks are collected, so the operation returns or raises and leaves its slot.
Finish(r) ==
  /\ request[r] \in Running /\ AllDone(r)
  /\ Answer(r)
  /\ pool' = Release(pool)
  /\ UNCHANGED taskVars

Pending(r) == {t \in TasksOf(r) : task[t] # "done"}

\* Mutant of FetchTimeout: it waits for the first answer at least.
FetchTimeoutLenient(r) ==
  /\ request[r] = "fetching" /\ Pending(r) \notin {{}, TasksOf(r)}
  /\ request' = [request EXCEPT ![r] = "collecting"]
  /\ doomed' = doomed \cup Pending(r)
  /\ UNCHANGED <<patient, pool, task, global, hostSem, uses, registry>>

\* Crawl4aiExtractor.fetch gives up on the addresses that have no answer yet.
FetchTimeout(r) ==
  /\ request[r] = "fetching" /\ Pending(r) # {}
  /\ request' = [request EXCEPT ![r] = "collecting"]
  /\ doomed' = doomed \cup Pending(r)
  /\ UNCHANGED <<patient, pool, task, global, hostSem, uses, registry>>

\* Mutant of Stop: the tasks are left alone.
StopAlone(r) ==
  /\ request' = [request EXCEPT ![r] = "stopping"]
  /\ UNCHANGED <<patient, pool, doomed, task, global, hostSem, uses, registry>>

\* fetch is cancelled: it cancels its tasks, waits for them and raises.
Stop(r) ==
  /\ request' = [request EXCEPT ![r] = "stopping"]
  /\ doomed' = doomed \cup Pending(r)
  /\ UNCHANGED <<patient, pool, task, global, hostSem, uses, registry>>

RouteDeadline(r) == request[r] \in {"fetching", "collecting"} /\ Stop(r)

\* _run_http_operation: the operation is cancelled.
Disconnect(r) ==
  \/ /\ request[r] = "waiting"
     /\ pool' = Leave(pool, r) /\ Answer(r)
     /\ UNCHANGED taskVars
  \/ request[r] \in {"fetching", "collecting"} /\ Stop(r)

\* The deadline passes and the client hangs up: the second cancellation breaks the wait for
\* the tasks, so the slot is left while they are on their way out.
SecondCancel(r) ==
  /\ request[r] = "stopping"
  /\ pool' = Release(pool) /\ Answer(r)
  /\ UNCHANGED taskVars

-----------------------------------------------------------------------------
(* _fetch_one_outcome                                                      *)

operationVars == <<patient, request, pool>>

\* A semaphore is registered as long as a task refers to it.
Refers(s) == {t \in Tasks : s # None /\ uses'[t] = s}

\* Mutant of Registered: only as long as a task holds a permit of it.
RegisteredIfHeld(reg) ==
  [h \in Hosts |-> IF \E t \in Refers(reg[h]) : task'[t] = "fetching" THEN reg[h] ELSE None]
Registered(reg) == [h \in Hosts |-> IF Refers(reg[h]) # {} THEN reg[h] ELSE None]

Goto(t, pc) == task' = [task EXCEPT ![t] = pc]

\* On to the permit of the host: g and hs are the semaphores so far, s is the host's.
HostTurn(t, s, g, hs) ==
  \/ /\ ~Locked(hs[s])
     /\ Goto(t, "fetching")
     /\ hostSem' = [hs EXCEPT ![s] = Take(@)] /\ global' = g
  \/ /\ Locked(hs[s]) /\ patient
     /\ Goto(t, "host")
     /\ hostSem' = [hs EXCEPT ![s] = Enqueue(@, t)] /\ global' = g
  \/ /\ Locked(hs[s]) /\ ~patient
     /\ Goto(t, "done")
     /\ hostSem' = hs /\ global' = Release(g)

Begin(t) ==
  /\ task[t] = "created" /\ t \notin doomed
  /\ LET h == Host(t)
         new == registry[h] = None
         s == IF new THEN CHOOSE x \in Tasks : \A y \in Tasks : uses[y] # x ELSE registry[h]
         hs == IF new THEN [hostSem EXCEPT ![s] = Semaphore(PerHost)] ELSE hostSem
     IN /\ \/ ~Locked(global) /\ HostTurn(t, s, Take(global), hs)
           \/ /\ Locked(global) /\ patient
              /\ Goto(t, "global") /\ global' = Enqueue(global, t) /\ hostSem' = hs
           \/ /\ Locked(global) /\ ~patient
              /\ Goto(t, "done") /\ hostSem' = hs /\ UNCHANGED global
        /\ uses' = [uses EXCEPT ![t] = IF task'[t] = "done" THEN None ELSE s]
        /\ registry' = Registered([registry EXCEPT ![h] = s])
  /\ UNCHANGED <<operationVars, doomed>>

GlobalTurn(t) ==
  /\ t \in global.granted /\ t \notin doomed
  /\ HostTurn(t, uses[t], Run(global, t), hostSem)
  /\ uses' = [uses EXCEPT ![t] = IF task'[t] = "done" THEN None ELSE @]
  /\ registry' = Registered(registry)
  /\ UNCHANGED <<operationVars, doomed>>

HostGranted(t) ==
  /\ task[t] = "host" /\ t \in hostSem[uses[t]].granted /\ t \notin doomed
  /\ Goto(t, "fetching")
  /\ hostSem' = [hostSem EXCEPT ![uses[t]] = Run(@, t)]
  /\ UNCHANGED <<operationVars, doomed, global, uses, registry>>

\* Mutant of Exit: one that waited for its host in vain keeps the permit of the process.
ExitKeeping(t) ==
  /\ Goto(t, "done") /\ uses' = [uses EXCEPT ![t] = None]
  /\ global' = CASE task[t] = "global" -> Leave(global, t)
                 [] task[t] = "fetching" -> Release(global)
                 [] OTHER -> global
  /\ hostSem' = CASE task[t] = "host" -> [hostSem EXCEPT ![uses[t]] = Leave(@, t)]
                  [] task[t] = "fetching" -> [hostSem EXCEPT ![uses[t]] = Release(@)]
                  [] OTHER -> hostSem
  /\ registry' = Registered(registry)
  /\ UNCHANGED <<operationVars, doomed>>

\* The task ends wherever it is; `finally` returns what it holds.
Exit(t) ==
  /\ Goto(t, "done") /\ uses' = [uses EXCEPT ![t] = None]
  /\ global' = CASE task[t] = "global" -> Leave(global, t)
                 [] task[t] \in {"host", "fetching"} -> Release(global)
                 [] OTHER -> global
  /\ hostSem' = CASE task[t] = "host" -> [hostSem EXCEPT ![uses[t]] = Leave(@, t)]
                  [] task[t] = "fetching" -> [hostSem EXCEPT ![uses[t]] = Release(@)]
                  [] OTHER -> hostSem
  /\ registry' = Registered(registry)
  /\ UNCHANGED <<operationVars, doomed>>

\* Content or any failure: the codes are told apart nowhere here.
Respond(t) == task[t] = "fetching" /\ t \notin doomed /\ Exit(t)
WaitTimeout(t) == task[t] \in Waiting /\ Exit(t)
Interrupt(t) == t \in doomed /\ task[t] \in Waiting \cup {"created", "fetching"} /\ Exit(t)

-----------------------------------------------------------------------------
Init ==
  /\ patient \in BOOLEAN
  /\ request = [r \in Requests |-> "idle"]
  /\ task = [t \in Tasks |-> "none"] /\ doomed = {}
  /\ pool = Semaphore(MaxInflight) /\ global = Semaphore(Concurrency)
  /\ hostSem = [t \in Tasks |-> Semaphore(PerHost)]
  /\ uses = [t \in Tasks |-> None] /\ registry = [h \in Hosts |-> None]

\* What the event loop and its timers do sooner or later.
Operate(r) ==
  EnterPool(r) \/ PoolTimeout(r) \/ FetchTimeout(r) \/ Finish(r)
Step(t) ==
  Begin(t) \/ GlobalTurn(t) \/ HostGranted(t) \/ WaitTimeout(t) \/ Interrupt(t)

Next ==
  \/ \E r \in Requests : Arrive(r) \/ Operate(r) \/ RouteDeadline(r) \/ Disconnect(r) \/ SecondCancel(r)
  \/ \E t \in Tasks : Step(t) \/ Respond(t)

Spec == Init /\ [][Next]_vars

\* The fetch service need never answer; the timers of the waits and of fetch go off.
FairSpec ==
  /\ Spec
  /\ \A r \in Requests : WF_vars(Operate(r))
  /\ \A t \in Tasks : WF_vars(Step(t))

-----------------------------------------------------------------------------
(* Properties                                                              *)

Whole(s, limit, holders) ==
  /\ s.free + Cardinality(s.granted) + Cardinality(holders) = limit
  /\ s.free > 0 /\ s.granted = {} => s.queue = <<>>

\* No permit is lost or returned twice, however a wait ends: granted, timed out, cancelled
\* before or after the permit was handed over.  No waiter sleeps beside a free permit.
PermitsConserved ==
  /\ Whole(pool, MaxInflight, {r \in Requests : request[r] \in Running})
  /\ Whole(global, Concurrency, {t \in Tasks : task[t] \in {"host", "fetching"}})
  /\ \A h \in Hosts : registry[h] # None =>
       Whole(hostSem[registry[h]], PerHost,
             {t \in Tasks : task[t] = "fetching" /\ uses[t] = registry[h]})

\* No host is asked for more than PerHost pages at a time, although its semaphore is
\* forgotten and made anew between requests.
HostBound ==
  \A h \in Hosts : Cardinality({t \in Tasks : task[t] = "fetching" /\ Host(t) = h}) <= PerHost

\* The bounds that protect the process and each host hold, and hold for ever.
PermitsKept == PermitsConserved /\ HostBound

\* Once a request is answered none of its fetches goes on, except on its way out: not when
\* the client hangs up, the deadline passes, or both.
NothingGoesOn ==
  \A t \in Tasks : request[t[1]] = "answered" => task[t] \in {"none", "done"} \/ t \in doomed

\* Every request is answered, whoever waits for whom: tasks hold the permit of the process
\* while they wait for the one of their host.
EveryRequestAnswered ==
  \A r \in Requests : request[r] # "idle" ~> request[r] = "answered"
=============================================================================
