------------------------------ MODULE CrawlJobs ------------------------------
(***************************************************************************)
(* The crawl-job manager (orchestrator/crawl_jobs.py) over its store: one  *)
(* worker coroutine, the HTTP handlers that create and cancel jobs, the    *)
(* thread that each store call runs in, process crashes and store errors.  *)
(*                                                                         *)
(* asyncio switches coroutines only at an await, so one action is the code *)
(* between two awaits together with the transaction it awaited.  The one   *)
(* exception is a store call that the attempt deadline abandons:           *)
(* asyncio.to_thread cannot stop its thread, which goes on and commits     *)
(* later (`stray`).                                                        *)
(***************************************************************************)
EXTENDS CrawlJobStore

CONSTANTS
  MaxPages,    \* bound on the pages one attempt fetches (request.max_pages)
  MaxCrashes,  \* bound: crashes of the process
  MaxFaults,   \* bound: store calls that raise or are abandoned
  MaxStrays    \* bound: abandoned store calls that are still running

ASSUME ManagerConstants ==
  /\ MaxPages \in Nat
  /\ MaxCrashes \in Nat
  /\ MaxFaults \in Nat
  /\ MaxStrays \in Nat

VARIABLES
  pc,       \* where the worker coroutine is
  cur,      \* the job the worker holds, or None
  seen,     \* current.attempts: attempts as last read by the worker
  reply,    \* response.outcome of the last attempt, or None
  retry,    \* whether that attempt may be retried
  recover,  \* recover_running
  page,     \* what the attempt is about to store, or None
  fetched,  \* pages fetched by this attempt
  hit,      \* this attempt has stored or tried to store a content page
  signal,   \* _active_cancel: "none", or the event "clear" or "set"
  wake,     \* _wake
  waking,   \* creates that have committed and not yet set _wake
  asking,   \* cancels that have committed and not yet looked up the event
  stray,    \* abandoned store calls still running in their thread
  crashes, faults,
  late,     \* history: jobs a stray call wrote to while they were not running or about to end
  invoked   \* history: how often the runner was started for a job

workerVars == <<pc, cur, seen, reply, retry, recover, page, fetched, hit>>
callerVars == <<signal, wake, waking, asking>>
envVars == <<stray, crashes, faults, late>>
vars == <<storeVars, workerVars, callerVars, envVars, invoked>>

\* A page leaves an attempt as a result (its requested URL may differ from its final
\* one) or as a failure of the requested URL; a result that is too large is stored as
\* a failure.
ResultPages == [kind : {"result"}, row : ResultRow, asked : PageKeys]
FailurePages == [kind : {"failure"}, asked : PageKeys]
Pages == ResultPages \cup FailurePages

StorePageOf(j, p) ==
  IF p.kind = "result" THEN AppendResult(j, p.row, {p.asked}) ELSE AppendFailure(j, p.asked)

Goto(where) == pc' = where

\* `finally: self._active_cancel.pop(...)`, and the worker forgets the job.
Release(where) ==
  /\ Goto(where)
  /\ signal' = [signal EXCEPT ![cur] = "none"]
  /\ cur' = None /\ seen' = 0 /\ reply' = None /\ retry' = FALSE

-----------------------------------------------------------------------------
(* _worker_loop and _claim_record.                                         *)

LoopTop == IF recover THEN "recover" ELSE "claim"

Recover ==
  /\ pc = "recover"
  /\ \E t \in ClockReadings : RecoverInterrupted(t)
  /\ Goto("claim")
  /\ UNCHANGED <<cur, seen, reply, retry, recover, page, fetched, hit>>
  /\ UNCHANGED <<callerVars, envVars, invoked>>

\* claim_next is tried before and after _wake.clear().
ClaimFirst ==
  /\ pc \in {"claim", "claimAgain"}
  /\ \E j \in JobIds, t \in ClockReadings :
       /\ ClaimNext(j, t)
       /\ cur' = j
       /\ seen' = job'[j].attempts
  /\ recover' = FALSE
  /\ Goto("claimed")
  /\ UNCHANGED <<reply, retry, page, fetched, hit, callerVars, envVars, invoked>>

ClaimNone ==
  /\ pc \in {"claim", "claimAgain"}
  /\ \E t \in ClockReadings : ClaimNothing(t)
  /\ Goto(IF pc = "claim" THEN "clear" ELSE "waiting")
  /\ UNCHANGED <<cur, seen, reply, retry, recover, page, fetched, hit>>
  /\ UNCHANGED <<callerVars, envVars, invoked>>

\* Mutant of ClearWake: no second claim_next before the sleep.
ClearWakeOnly ==
  /\ pc = "clear"
  /\ wake' = FALSE
  /\ Goto("waiting")
  /\ UNCHANGED <<storeVars, cur, seen, reply, retry, recover, page, fetched, hit>>
  /\ UNCHANGED <<signal, waking, asking, envVars, invoked>>

\* The claim has committed in its thread and the worker runs again: a create may have
\* committed and set _wake in between.
ClearWake ==
  /\ pc = "clear"
  /\ wake' = FALSE
  /\ Goto("claimAgain")
  /\ UNCHANGED <<storeVars, cur, seen, reply, retry, recover, page, fetched, hit>>
  /\ UNCHANGED <<signal, waking, asking, envVars, invoked>>

WakeUp ==
  /\ pc = "waiting" /\ wake
  /\ recover' = FALSE
  /\ Goto("claim")
  /\ UNCHANGED <<storeVars, cur, seen, reply, retry, page, fetched, hit>>
  /\ UNCHANGED <<callerVars, envVars, invoked>>

PollTimeout ==
  /\ pc = "waiting" /\ ~wake
  /\ Goto("cleanup")
  /\ UNCHANGED <<storeVars, cur, seen, reply, retry, recover, page, fetched, hit>>
  /\ UNCHANGED <<callerVars, envVars, invoked>>

Cleanup ==
  /\ pc = "cleanup"
  /\ \E t \in ClockReadings : Sweep(t)
  /\ recover' = FALSE
  /\ Goto("claim")
  /\ UNCHANGED <<cur, seen, reply, retry, page, fetched, hit, callerVars, envVars, invoked>>

\* _wait_after_store_failure ends by a wake or by its timeout.
StoreWaitOver ==
  /\ pc = "storeWait"
  /\ Goto(LoopTop)
  /\ UNCHANGED <<storeVars, cur, seen, reply, retry, recover, page, fetched, hit>>
  /\ UNCHANGED <<callerVars, envVars, invoked>>

-----------------------------------------------------------------------------
(* _run_job and _run_attempts.                                             *)

BeginAttempt(j) ==
  /\ Goto("attempt")
  /\ fetched' = 0 /\ hit' = FALSE
  /\ invoked' = [invoked EXCEPT ![j] = @ + 1]

\* Registers a fresh event, finds it clear, and calls the runner.
RunJob ==
  /\ pc = "claimed"
  /\ signal' = [signal EXCEPT ![cur] = "clear"]
  /\ BeginAttempt(cur)
  /\ UNCHANGED <<storeVars, cur, seen, reply, retry, recover, page>>
  /\ UNCHANGED <<wake, waking, asking, envVars>>

\* Mutant of AfterAttempt: one attempt too many.
AfterAttemptLate(again) ==
  IF signal[cur] = "set" THEN "cancelled"
  ELSE IF ~again \/ seen > MaxAttempts THEN "read" ELSE "backoff"

\* The checks that follow _run_attempt.
AfterAttempt(again) ==
  IF signal[cur] = "set" THEN "cancelled"
  ELSE IF ~again \/ seen >= MaxAttempts THEN "read" ELSE "backoff"

\* The frontier yields a page unless cancellation is visible (_check_cancelled).
AdmitPage ==
  /\ pc = "attempt" /\ signal[cur] # "set" /\ fetched < MaxPages
  /\ fetched' = fetched + 1
  /\ Goto("fetch")
  /\ UNCHANGED <<storeVars, cur, seen, reply, retry, recover, page, hit>>
  /\ UNCHANGED <<callerVars, envVars, invoked>>

\* A duplicate final URL yields nothing to store.
FetchDone ==
  /\ pc = "fetch"
  /\ \/ /\ Goto("attempt")
        /\ UNCHANGED <<page, hit>>
     \/ \E p \in Pages :
          /\ page' = p
          /\ hit' = (hit \/ (p.kind = "result" /\ p.row.content))
          /\ Goto("store")
  /\ UNCHANGED <<storeVars, cur, seen, reply, retry, recover, fetched>>
  /\ UNCHANGED <<callerVars, envVars, invoked>>

StorePage ==
  /\ pc = "store"
  /\ StorePageOf(cur, page)
  /\ page' = None
  /\ Goto("attempt")
  /\ UNCHANGED <<cur, seen, reply, retry, recover, fetched, hit, callerVars, envVars, invoked>>

\* The runner returns a response.  Only an attempt without a content page is retried.
AttemptReturns ==
  /\ pc = "attempt"
  /\ \E o \in {"completed", "other", "retryable"} :
       /\ reply' = o
       /\ retry' = (o = "retryable" /\ ~hit)
  /\ Goto(AfterAttempt(retry'))
  /\ UNCHANGED <<storeVars, cur, seen, recover, page, fetched, hit>>
  /\ UNCHANGED <<callerVars, envVars, invoked>>

\* CrawlOperationCancelled
AttemptCancelled ==
  /\ pc = "attempt" /\ signal[cur] = "set"
  /\ reply' = None /\ retry' = FALSE
  /\ Goto("cancelled")
  /\ UNCHANGED <<storeVars, cur, seen, recover, page, fetched, hit>>
  /\ UNCHANGED <<callerVars, envVars, invoked>>

\* A store call that raises, or is abandoned, is a fault.
Fault == faults < MaxFaults /\ faults' = faults + 1

\* Capacity and deadline errors may be retried, any other exception may not; each
\* first appends its summary.  A deadline that strikes while a page is being stored
\* abandons the call: its thread never starts, or runs on as a stray.
AttemptRaises ==
  /\ pc \in {"attempt", "fetch", "store"}
  /\ reply' = None
  /\ retry' \in (IF pc = "store" THEN {TRUE} ELSE BOOLEAN)
  /\ page' = None
  /\ \/ UNCHANGED <<stray, faults>>
     \/ /\ pc = "store" /\ Cardinality(stray) < MaxStrays /\ Fault
        /\ stray' = stray \cup {[target |-> cur, page |-> page]}
  /\ Goto("summary")
  /\ UNCHANGED <<storeVars, cur, seen, recover, fetched, hit>>
  /\ UNCHANGED <<callerVars, crashes, late, invoked>>

\* append_summary writes a diagnostic text only.
AppendSummary ==
  /\ pc = "summary"
  /\ Goto(AfterAttempt(retry))
  /\ UNCHANGED <<storeVars, cur, seen, reply, retry, recover, page, fetched, hit>>
  /\ UNCHANGED <<callerVars, envVars, invoked>>

WaitBackoff ==
  /\ pc = "backoff"
  /\ Goto(IF signal[cur] = "set" THEN "cancelled" ELSE "increment")
  /\ UNCHANGED <<storeVars, cur, seen, reply, retry, recover, page, fetched, hit>>
  /\ UNCHANGED <<callerVars, envVars, invoked>>

NextAttempt ==
  /\ pc = "increment"
  /\ IncrementAttempt(cur)
  /\ seen' = job'[cur].attempts
  /\ IF signal[cur] = "set"
     THEN Goto("cancelled") /\ UNCHANGED <<fetched, hit, invoked>>
     ELSE BeginAttempt(cur)
  /\ UNCHANGED <<cur, reply, retry, recover, page, callerVars, envVars>>

-----------------------------------------------------------------------------
(* Ending the job the worker holds.                                        *)

\* Mutant of FinalState: the response is believed before the failures are counted.
FinalStateTrusting(j, outcome) == IF outcome = "completed" THEN "completed" ELSE "failed"

\* _final_result, before the stored results are counted: get_any reads the row and
\* COUNT(*) as two snapshots.
FinalState(j, outcome) ==
  IF job[j].failed = 0 /\ outcome = "completed" THEN "completed" ELSE "failed"

ReadFinalRecord ==
  /\ pc = "read"
  /\ IF HasRow(cur)
     THEN /\ reply' = FinalState(cur, reply)
          /\ Goto("count")
          /\ UNCHANGED <<cur, seen, retry, signal>>
     ELSE Release("claim")
  /\ UNCHANGED <<storeVars, recover, page, fetched, hit>>
  /\ UNCHANGED <<wake, waking, asking, envVars, invoked>>

\* A job that did not complete is partial as soon as it has stored a result.
CountResults ==
  /\ pc = "count"
  /\ reply' = IF reply = "failed" /\ results[cur] # <<>> THEN "partial" ELSE reply
  /\ Goto("finish")
  /\ UNCHANGED <<storeVars, cur, seen, retry, recover, page, fetched, hit>>
  /\ UNCHANGED <<callerVars, envVars, invoked>>

FinishJob ==
  /\ \E t \in ClockReadings :
       \/ pc = "finish" /\ Finish(cur, reply, t)
       \/ pc = "cancelled" /\ Finish(cur, "cancelled", t)
       \/ pc = "failFinish" /\ Finish(cur, "failed", t)
  /\ Release("claim")
  /\ UNCHANGED <<recover, page, fetched, hit, wake, waking, asking, envVars, invoked>>

\* The handler of _run_claimed_job: append_summary, then finish as failed.
FailSummary ==
  /\ pc = "failSummary"
  /\ Goto("failFinish")
  /\ UNCHANGED <<storeVars, cur, seen, reply, retry, recover, page, fetched, hit>>
  /\ UNCHANGED <<callerVars, envVars, invoked>>

-----------------------------------------------------------------------------
(* A store call raises and commits nothing.                                *)

LoopFault ==
  /\ pc \in {"recover", "claim", "claimAgain", "cleanup"}
  /\ Fault
  /\ wake' = FALSE
  /\ Goto("storeWait")
  /\ UNCHANGED <<storeVars, cur, seen, reply, retry, recover, page, fetched, hit>>
  /\ UNCHANGED <<signal, waking, asking, stray, crashes, late, invoked>>

\* It propagates through the runner to `except Exception` of _run_attempt.
StorePageFault ==
  /\ pc = "store"
  /\ Fault
  /\ reply' = None /\ retry' = FALSE /\ page' = None
  /\ Goto("summary")
  /\ UNCHANGED <<storeVars, cur, seen, recover, fetched, hit>>
  /\ UNCHANGED <<callerVars, stray, crashes, late, invoked>>

\* It leaves _run_job, whose `finally` drops the event.
JobFault ==
  /\ pc \in {"summary", "increment", "read", "count", "finish", "cancelled"}
  /\ Fault
  /\ signal' = [signal EXCEPT ![cur] = "none"]
  /\ Goto("failSummary")
  /\ UNCHANGED <<storeVars, cur, seen, reply, retry, recover, page, fetched, hit>>
  /\ UNCHANGED <<wake, waking, asking, stray, crashes, late, invoked>>

\* The failure itself cannot be persisted: the next iteration recovers.
FailFault ==
  /\ pc \in {"failSummary", "failFinish"}
  /\ Fault
  /\ recover' = TRUE
  /\ Release("recover")
  /\ UNCHANGED <<storeVars, page, fetched, hit>>
  /\ UNCHANGED <<wake, waking, asking, stray, crashes, late, invoked>>

-----------------------------------------------------------------------------
(* The HTTP handlers.  create() checks the worker's health before it awaits *)
(* the transaction, so a row may be inserted after the worker has failed.  *)

Create(c, p) ==
  /\ pc # "down"
  /\ \E j \in JobIds, t \in ClockReadings :
       /\ Claim(j, c, p, t)
       /\ waking' = waking \cup {j}
  /\ UNCHANGED <<workerVars, signal, wake, asking, envVars, invoked>>

CreateWakes(j) ==
  /\ j \in waking
  /\ waking' = waking \ {j}
  /\ wake' = TRUE
  /\ UNCHANGED <<storeVars, workerVars, signal, asking, envVars, invoked>>

Cancel(j) ==
  /\ pc # "down" /\ HasRow(j)
  /\ \E t \in ClockReadings : RequestCancel(j, t)
  /\ asking' = IF job'[j].state \in NoRowStates \cup {"expired"} THEN asking
               ELSE asking \cup {j}
  /\ UNCHANGED <<workerVars, signal, wake, waking, envVars, invoked>>

\* Back on the event loop: set the event if one is registered, wake the worker, answer.
CancelSignals(j) ==
  /\ j \in asking
  /\ asking' = asking \ {j}
  /\ signal' = IF signal[j] = "clear" THEN [signal EXCEPT ![j] = "set"] ELSE signal
  /\ wake' = TRUE
  /\ UNCHANGED <<storeVars, workerVars, waking, envVars, invoked>>

\* status() and results() sweep before they read.
Poll ==
  /\ pc # "down"
  /\ \E t \in ClockReadings : Sweep(t)
  /\ UNCHANGED <<workerVars, callerVars, envVars, invoked>>

-----------------------------------------------------------------------------
(* The environment.                                                        *)

Time ==
  /\ Tick
  /\ UNCHANGED <<workerVars, callerVars, envVars, invoked>>

\* An abandoned thread commits, or gives up on the write lock.
StrayLands(s) ==
  /\ s \in stray
  /\ stray' = stray \ {s}
  /\ \/ /\ StorePageOf(s.target, s.page)
        /\ late' = IF job[s.target].state # "running" \/ pc \in {"count", "finish"}
                   THEN late \cup {s.target} ELSE late
     \/ UNCHANGED <<storeVars, late>>
  /\ UNCHANGED <<workerVars, callerVars, crashes, faults, invoked>>

\* The process dies; what it had not committed is lost, its threads included.  A
\* shutdown (aclose) cancels the worker at an await and leaves the same states behind.
Crash ==
  /\ pc # "down" /\ crashes < MaxCrashes
  /\ crashes' = crashes + 1
  /\ Goto("down")
  /\ cur' = None /\ seen' = 0 /\ reply' = None /\ retry' = FALSE
  /\ recover' = FALSE /\ page' = None /\ fetched' = 0 /\ hit' = FALSE
  /\ signal' = [j \in JobIds |-> "none"]
  /\ wake' = FALSE /\ waking' = {} /\ asking' = {} /\ stray' = {}
  /\ UNCHANGED <<storeVars, faults, late, invoked>>

\* Mutant of Start: the worker starts without recover_interrupted.
StartUnrecovered ==
  /\ pc = "down"
  /\ Goto("claim")
  /\ UNCHANGED <<storeVars, cur, seen, reply, retry, recover, page, fetched, hit>>
  /\ UNCHANGED <<callerVars, envVars, invoked>>

\* start(): recover_interrupted, then the worker task.
Start ==
  /\ pc = "down"
  /\ \E t \in ClockReadings : RecoverInterrupted(t)
  /\ Goto("claim")
  /\ UNCHANGED <<cur, seen, reply, retry, recover, page, fetched, hit>>
  /\ UNCHANGED <<callerVars, envVars, invoked>>

Init ==
  /\ StoreInit
  /\ pc = "down" /\ cur = None /\ seen = 0 /\ reply = None /\ retry = FALSE
  /\ recover = FALSE /\ page = None /\ fetched = 0 /\ hit = FALSE
  /\ signal = [j \in JobIds |-> "none"]
  /\ wake = FALSE /\ waking = {} /\ asking = {}
  /\ stray = {} /\ crashes = 0 /\ faults = 0 /\ late = {}
  /\ invoked = [j \in JobIds |-> 0]

Worker ==
  \/ Recover \/ ClaimFirst \/ ClaimNone \/ ClearWake \/ WakeUp \/ PollTimeout
  \/ Cleanup \/ StoreWaitOver \/ RunJob \/ AdmitPage \/ FetchDone \/ StorePage
  \/ AttemptReturns \/ AttemptCancelled \/ AttemptRaises \/ AppendSummary
  \/ WaitBackoff \/ NextAttempt \/ ReadFinalRecord \/ CountResults \/ FinishJob
  \/ FailSummary

Faults == LoopFault \/ StorePageFault \/ JobFault \/ FailFault

Callers ==
  \/ Poll
  \/ \E c \in Claims, p \in Prints : Create(c, p)
  \/ \E j \in JobIds : CreateWakes(j) \/ Cancel(j) \/ CancelSignals(j)

Next ==
  \/ Worker \/ Faults \/ Callers \/ Crash \/ Start \/ Time
  \/ \E s \in stray : StrayLands(s)

Spec == Init /\ [][Next]_vars

\* The event loop schedules the worker, every awaited call returns or raises, and the
\* container restarts a process that died (restart: unless-stopped).
FairSpec == Spec /\ WF_vars(Worker) /\ WF_vars(Start)

-----------------------------------------------------------------------------
(* Properties.                                                             *)

PCs == {"down", "recover", "claim", "clear", "claimAgain", "waiting", "cleanup", "storeWait",
        "claimed", "attempt", "fetch", "store", "summary", "backoff", "increment",
        "read", "count", "finish", "cancelled", "failSummary", "failFinish"}
\* Where the worker coroutine is inside _run_job or its failure handler.
Holding == {"claimed", "attempt", "fetch", "store", "summary", "backoff", "increment",
            "read", "count", "finish", "cancelled", "failSummary", "failFinish"}

\* The types of the manager's state, on top of the store's.
TypeOK ==
  /\ StoreTypeOK
  /\ pc \in PCs /\ cur \in JobIds \cup {None} /\ seen \in Nat
  /\ reply \in {None, "completed", "other", "retryable", "partial", "failed"}
  /\ retry \in BOOLEAN /\ recover \in BOOLEAN
  /\ page \in Pages \cup {None} /\ fetched \in 0..MaxPages /\ hit \in BOOLEAN
  /\ signal \in [JobIds -> {"none", "clear", "set"}]
  /\ wake \in BOOLEAN
  /\ waking \subseteq JobIds /\ asking \subseteq JobIds
  /\ stray \subseteq [target : JobIds, page : Pages]
  /\ crashes \in 0..MaxCrashes /\ faults \in 0..MaxFaults
  /\ late \subseteq JobIds
  /\ invoked \in [JobIds -> Nat]

\* The manager, its crashes, faults and abandoned calls included, uses the store only as
\* StoreSpec allows: it finishes no queued job and begins no attempt past the budget, so
\* what holds of the store driven by any caller holds of this one.
UsesStore == StoreSpec

\* No job is abandoned and none has two owners: while the worker holds a job exactly
\* that row is "running"; a "running" row without an owner only exists while a recovery
\* (at startup, or recover_running after an unpersisted failure) is certain to come.
RunningHasOwner ==
  /\ pc \in Holding => cur \in JobIds /\ job[cur].state = "running"
  /\ \A j \in JobIds : job[j].state = "running" =>
       \/ pc \in Holding /\ cur = j
       \/ pc = "down" \/ recover

\* The attempt budget holds over retries, crashes and recoveries together, and every run
\* of the crawler was paid for (docs: "Total attempts for retryable ... failures").
AttemptBudget ==
  \A j \in JobIds : HasRow(j) =>
    invoked[j] <= job[j].attempts /\ job[j].attempts <= MaxAttempts

\* When the worker sleeps on a clear _wake, every queued job's creator is still about to
\* set it: no create falls between the empty claim and the sleep.
NoLostWake ==
  pc = "waiting" /\ ~wake => \A j \in JobIds : job[j].state = "queued" => j \in waking

\* No job is forgotten, neither a running one whose owner is gone nor a queued one while the
\* worker sleeps, through crashes, store errors and failures that could not be stored.
NoJobForgotten == RunningHasOwner /\ NoLostWake

\* Progress is exact unless an abandoned call wrote to the job while it was not running
\* or about to end:
\* each stored page is counted once, across retries, restarts and reconciled redirects.
ExactProgress ==
  \A j \in JobIds : job[j].state \in {"queued", "running"} \cup Terminal /\ j \notin late =>
    LET good == {i \in DOMAIN results[j] : results[j][i].content}
        bad  == DOMAIN results[j] \ good
    IN /\ job[j].succeeded = Cardinality(good)
       /\ job[j].failed = Cardinality(bad) + Cardinality(failures[j])
       /\ job[j].processed = job[j].succeeded + job[j].failed

\* "completed" is never reported for a job with a failed page or a contentless result.
HonestCompletion ==
  \A j \in JobIds : job[j].state = "completed" /\ j \notin late =>
    failures[j] = {} /\ \A i \in DOMAIN results[j] : results[j][i].content

\* What the row of a job says is what happened: its pages, its attempts and its verdict.
HonestAccounts == ExactProgress /\ AttemptBudget /\ HonestCompletion

\* Once a running job's cancellation is committed it can only end "cancelled", through
\* success, failure, crash or an exhausted budget alike.
CancelWins ==
  [][\A j \in JobIds : job[j].state = "running" /\ job[j].cancel =>
       \/ job'[j].state = "cancelled"
       \/ job'[j].state = "running" /\ job'[j].cancel]_vars

\* Every accepted job ends, whatever crashes, store errors and cancellations intervene.
JobSettles ==
  \A j \in JobIds :
    job[j].state \in {"queued", "running"} ~> job[j].state \notin {"queued", "running"}

\* docs/architecture/pipeline-workflow.md: "Cancellation sets a durable request flag and
\* an in-process event, stops new URL admission": once the flag is committed and the
\* handler that set it has answered, the running job fetches nothing new.
CancelStopsAdmission ==
  [][pc # "fetch" /\ pc' = "fetch" => ~job[cur].cancel \/ cur \in asking]_vars

=============================================================================
