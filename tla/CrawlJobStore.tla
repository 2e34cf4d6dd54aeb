---------------------------- MODULE CrawlJobStore ----------------------------
(***************************************************************************)
(* The SQLite store of durable crawl jobs (orchestrator/crawl_job_store.py).*)
(* Three tables: crawl_jobs, crawl_job_results, crawl_job_failures.  Every *)
(* action is one committed transaction; an exception inside a transaction  *)
(* rolls it back, which is a step that changes nothing.                    *)
(*                                                                         *)
(* Each transaction reads the wall clock BEFORE it waits for SQLite's      *)
(* write lock, so by the time it commits its `now` may be old: an action   *)
(* takes a reading t out of ClockReadings instead of the current clock.    *)
(*                                                                         *)
(* What is abstracted: a claim (the scope hash and idempotency hash pair), *)
(* a request fingerprint and a page key (the hash of a conservative URL    *)
(* identity) are model values; the bounded failure summaries, warnings and *)
(* the stored request are left out, no transaction branches on them.       *)
(***************************************************************************)
EXTENDS Integers, Sequences, FiniteSets

CONSTANTS
  JobIds,       \* identifiers, ordered: ORDER BY created_at, job_id
  Claims,       \* (scope_hash, idempotency_hash) pairs
  Prints,       \* request fingerprints
  PageKeys,     \* result keys and failure keys
  None,         \* SQL NULL
  MaxRecords,   \* max_records
  MaxAttempts,  \* max_attempts of the manager that drives the store
  RetentionS,   \* retention_s
  TombstoneS,   \* tombstone_s
  MaxClock,     \* bound: the clock stops here
  StaleBy       \* bound: how old a transaction's reading of the clock may be

ASSUME StoreConstants ==
  /\ JobIds \subseteq Nat
  /\ None \notin Claims \cup Prints
  /\ MaxRecords \in Nat
  /\ MaxAttempts \in Nat \ {0}
  /\ RetentionS \in Nat \ {0}
  /\ TombstoneS \in Nat \ {0}
  /\ MaxClock \in Nat
  /\ StaleBy \in Nat

VARIABLES
  job,       \* crawl_jobs: one row for each identifier, "absent" before INSERT
  results,   \* crawl_job_results in ordinal order
  failures,  \* crawl_job_failures: the failure keys of each job
  clock      \* time.time()

storeVars == <<job, results, failures, clock>>

Terminal == {"completed", "partial", "failed", "cancelled"}
Verdicts == {"completed", "partial", "failed"}

\* "absent" is an identifier uuid4 has not produced yet, "purged" one whose
\* row the tombstone deadline deleted: neither has a row in the table.
NoRowStates == {"absent", "purged"}
States == {"queued", "running", "expired"} \cup Terminal \cup NoRowStates

Row == [state     : States,
        claim     : Claims \cup {None},
        print     : Prints \cup {None},
        created   : Nat,
        deadline  : Nat,       \* retention_deadline, read only once terminal
        purge     : Nat,       \* purge_after, read only once expired
        cancel    : BOOLEAN,   \* cancel_requested
        attempts  : Nat,
        processed : Nat,
        succeeded : Nat,
        failed    : Nat]

NoRow(why) ==
  [state |-> why, claim |-> None, print |-> None, created |-> 0, deadline |-> 0,
   purge |-> 0, cancel |-> FALSE, attempts |-> 0, processed |-> 0,
   succeeded |-> 0, failed |-> 0]

HasRow(j) == job[j].state \notin NoRowStates

ResultRow == [key : PageKeys, content : BOOLEAN]
KeysOf(rows) == {rows[i].key : i \in DOMAIN rows}

ClockReadings == {t \in 0..clock : clock - StaleBy <= t}

-----------------------------------------------------------------------------
(* _expire_due: the sweep every read and most writes begin with.           *)

Due(j, t) == job[j].state \in Terminal /\ job[j].deadline <= t

\* Mutant of PurgeDue: a job past its deadline is deleted with its results.
PurgeDueAtOnce(j, t) == Due(j, t) \/ (job[j].state = "expired" /\ job[j].purge <= t)

\* The second SELECT sees the rows the first loop has just expired.
PurgeDue(j, t) ==
  \/ Due(j, t) /\ job[j].deadline + TombstoneS <= t
  \/ job[j].state = "expired" /\ job[j].purge <= t

RowAfterSweep(j, t) ==
  IF PurgeDue(j, t) THEN NoRow("purged")
  ELSE IF Due(j, t)
       THEN [job[j] EXCEPT !.state = "expired", !.claim = None, !.cancel = FALSE,
                           !.purge = job[j].deadline + TombstoneS]
       ELSE job[j]

JobsAfterSweep(t) == [j \in JobIds |-> RowAfterSweep(j, t)]

\* ON DELETE CASCADE removes what a purged row still owned.
SweepContents(t) ==
  /\ results' = [j \in JobIds |-> IF Due(j, t) \/ PurgeDue(j, t) THEN <<>> ELSE results[j]]
  /\ failures' = [j \in JobIds |-> IF Due(j, t) \/ PurgeDue(j, t) THEN {} ELSE failures[j]]
  /\ UNCHANGED clock

\* The sweep alone: _cleanup, _get and _result_page write nothing else.
Sweep(t) == job' = JobsAfterSweep(t) /\ SweepContents(t)

-----------------------------------------------------------------------------
(* Claiming work.                                                          *)

\* Mutant of Claimants: only unfinished jobs answer a replay.
ClaimantsUnfinished(rows, c) ==
  {j \in JobIds : rows[j].claim = c /\ rows[j].state \in {"queued", "running"}}

Claimants(rows, c) == {j \in JobIds : rows[j].claim = c}
Stored(rows) == {j \in JobIds : rows[j].state \notin NoRowStates}

\* Mutant of ClaimAnswer: the cap is off by one.
ClaimAnswerOverCap(rows, c, p) ==
  IF Claimants(rows, c) # {}
  THEN IF \A j \in Claimants(rows, c) : rows[j].print = p THEN "replayed" ELSE "conflict"
  ELSE IF Cardinality(Stored(rows)) > MaxRecords THEN "full" ELSE "created"

\* An unexpired row with this claim answers before the table can be full.
ClaimAnswer(rows, c, p) ==
  IF Claimants(rows, c) # {}
  THEN IF \A j \in Claimants(rows, c) : rows[j].print = p THEN "replayed" ELSE "conflict"
  ELSE IF Cardinality(Stored(rows)) >= MaxRecords THEN "full" ELSE "created"

\* A replay, a conflict and a full table commit the sweep only.
Claim(j, c, p, t) ==
  LET rows == JobsAfterSweep(t)
  IN /\ job[j].state = "absent"
     /\ job' = IF ClaimAnswer(rows, c, p) = "created"
               THEN [rows EXCEPT ![j] = [NoRow("queued") EXCEPT !.claim = c, !.print = p,
                                                                !.created = t]]
               ELSE rows
     /\ SweepContents(t)

\* ORDER BY created_at, job_id LIMIT 1
Before(rows, j, k) ==
  \/ rows[j].created < rows[k].created
  \/ rows[j].created = rows[k].created /\ j <= k

Queued(rows) == {j \in JobIds : rows[j].state = "queued"}
IsNext(rows, j) == j \in Queued(rows) /\ \A k \in Queued(rows) : Before(rows, j, k)

ClaimNext(j, t) ==
  LET rows == JobsAfterSweep(t)
  IN /\ IsNext(rows, j)
     /\ job' = [rows EXCEPT ![j].state = "running", ![j].attempts = @ + 1]
     /\ SweepContents(t)

ClaimNothing(t) == Queued(job) = {} /\ Sweep(t)

IncrementAttempt(j) ==
  /\ job' = [job EXCEPT ![j].attempts = IF job[j].state = "running" THEN @ + 1 ELSE @]
  /\ UNCHANGED <<results, failures, clock>>

-----------------------------------------------------------------------------
(* Ending a job.                                                           *)

Ended(row, state, t) ==
  [row EXCEPT !.state = state, !.deadline = t + RetentionS, !.cancel = FALSE]

\* Mutants of Finish: one ends a job that has ended, one forgets the cancellation.
FinishAgain(j, state, t) ==
  /\ job' = [job EXCEPT ![j] = Ended(@, IF @.cancel THEN "cancelled" ELSE state, t)]
  /\ UNCHANGED <<results, failures, clock>>

FinishAsAsked(j, state, t) ==
  /\ job' = IF job[j].state \in {"queued", "running"}
            THEN [job EXCEPT ![j] = Ended(@, state, t)] ELSE job
  /\ UNCHANGED <<results, failures, clock>>

\* A terminal or expired row is returned unchanged; a requested cancellation
\* outranks the state the caller asks for.
Finish(j, state, t) ==
  /\ job' = IF job[j].state \in {"queued", "running"}
            THEN [job EXCEPT ![j] = Ended(@, IF @.cancel THEN "cancelled" ELSE state, t)]
            ELSE job
  /\ UNCHANGED <<results, failures, clock>>

\* Mutant of RecoveredRow: the exhausted budget is looked at before the cancellation.
RecoveredRowBudgetFirst(row, t) ==
  IF row.state # "running" THEN row
  ELSE IF row.attempts >= MaxAttempts THEN Ended(row, "failed", t)
  ELSE IF row.cancel THEN Ended(row, "cancelled", t)
  ELSE [row EXCEPT !.state = "queued"]

\* Three UPDATEs of one transaction, in this order.
RecoveredRow(row, t) ==
  IF row.state # "running" THEN row
  ELSE IF row.cancel THEN Ended(row, "cancelled", t)
  ELSE IF row.attempts >= MaxAttempts THEN Ended(row, "failed", t)
  ELSE [row EXCEPT !.state = "queued"]

RecoverInterrupted(t) ==
  /\ job' = [j \in JobIds |-> RecoveredRow(job[j], t)]
  /\ UNCHANGED <<results, failures, clock>>

\* A queued job is cancelled at once, a running one is only flagged; any other
\* row is answered as it is.
RequestCancel(j, t) ==
  LET rows == JobsAfterSweep(t)
  IN /\ job' = CASE rows[j].state = "queued"  -> [rows EXCEPT ![j] = Ended(@, "cancelled", t)]
              [] rows[j].state = "running" -> [rows EXCEPT ![j].cancel = TRUE]
              [] OTHER                     -> rows
     /\ SweepContents(t)

-----------------------------------------------------------------------------
(* Recording pages.  The rows are inserted whatever the state of the job;  *)
(* only the counters are conditional on it.                                *)

\* Mutant of MaxZero: the subtraction is not clamped.
Unclamped(n) == n
MaxZero(n) == IF n < 0 THEN 0 ELSE n

\* Mutant of Prior: a page that failed under two addresses is taken back once.
PriorAtMostOne(j, keys) == IF failures[j] \cap keys = {} THEN 0 ELSE 1
Prior(j, keys) == Cardinality(failures[j] \cap keys)

\* Mutant of AppendResult: INSERT OR REPLACE, under a new ordinal.
AppendResultReplacing(j, r, also) ==
  /\ results' = IF HasRow(j)
                THEN [results EXCEPT ![j] = Append(SelectSeq(@, LAMBDA q : q.key # r.key), r)]
                ELSE results
  /\ failures' = [failures EXCEPT ![j] = @ \ ({r.key} \cup also)]
  /\ UNCHANGED <<job, clock>>

\* _append_result(result_key = r.key, failure_keys = also): without a parent row
\* the INSERT violates the foreign key, with the key present it returns False.
AppendResult(j, r, also) ==
  LET prior == Prior(j, {r.key} \cup also)
      counted == [job[j] EXCEPT !.processed = MaxZero(@ - prior + 1),
                                !.succeeded = IF r.content THEN @ + 1 ELSE @,
                                !.failed = MaxZero(@ - prior + IF r.content THEN 0 ELSE 1)]
      fresh == HasRow(j) /\ r.key \notin KeysOf(results[j])
  IN /\ results' = IF fresh THEN [results EXCEPT ![j] = Append(@, r)] ELSE results
     /\ failures' = IF fresh THEN [failures EXCEPT ![j] = @ \ ({r.key} \cup also)] ELSE failures
     /\ job' = IF fresh /\ job[j].state = "running"
               THEN [job EXCEPT ![j] = counted] ELSE job
     /\ UNCHANGED clock

\* Mutant of AppendFailure: a stored result does not stop it.
AppendFailureBlind(j, k) ==
  LET fresh == HasRow(j) /\ k \notin failures[j]
  IN /\ failures' = IF fresh THEN [failures EXCEPT ![j] = @ \cup {k}] ELSE failures
     /\ job' = IF fresh /\ job[j].state = "running"
               THEN [job EXCEPT ![j].processed = @ + 1, ![j].failed = @ + 1] ELSE job
     /\ UNCHANGED <<results, clock>>

\* A page that already has a result is skipped; one that failed before only
\* gets a new summary.
AppendFailure(j, k) ==
  LET fresh == HasRow(j) /\ k \notin KeysOf(results[j]) /\ k \notin failures[j]
  IN /\ failures' = IF fresh THEN [failures EXCEPT ![j] = @ \cup {k}] ELSE failures
     /\ job' = IF fresh /\ job[j].state = "running"
               THEN [job EXCEPT ![j].processed = @ + 1, ![j].failed = @ + 1] ELSE job
     /\ UNCHANGED <<results, clock>>

-----------------------------------------------------------------------------
(* The store driven by any caller, in any order, with two habits of its    *)
(* only caller that CrawlJobs models in full: a queued job is not finished, *)
(* and an attempt past the budget is not started.                          *)

StoreInit ==
  /\ job = [j \in JobIds |-> NoRow("absent")]
  /\ results = [j \in JobIds |-> <<>>]
  /\ failures = [j \in JobIds |-> {}]
  /\ clock = 0

Tick == clock < MaxClock /\ clock' = clock + 1 /\ UNCHANGED <<job, results, failures>>

StoreNext ==
  \/ Tick
  \/ \E t \in ClockReadings :
        \/ Sweep(t)
        \/ RecoverInterrupted(t)
        \/ ClaimNothing(t)
        \/ \E j \in JobIds, c \in Claims, p \in Prints : Claim(j, c, p, t)
        \/ \E j \in JobIds : ClaimNext(j, t)
        \/ \E j \in JobIds : HasRow(j) /\ RequestCancel(j, t)
        \/ \E j \in JobIds, v \in Verdicts :
             HasRow(j) /\ job[j].state # "queued" /\ Finish(j, v, t)
  \/ \E j \in JobIds : job[j].attempts < MaxAttempts /\ IncrementAttempt(j)
  \/ \E j \in JobIds, r \in ResultRow, k \in PageKeys : AppendResult(j, r, {k})
  \/ \E j \in JobIds, k \in PageKeys : AppendFailure(j, k)

StoreSpec == StoreInit /\ [][StoreNext]_storeVars

-----------------------------------------------------------------------------
(* Properties.                                                             *)

\* The types of the three tables and of the clock.
StoreTypeOK ==
  /\ job \in [JobIds -> Row]
  /\ results \in [JobIds -> Seq(ResultRow)]
  /\ failures \in [JobIds -> SUBSET PageKeys]
  /\ clock \in Nat

\* A scoped idempotency key identifies at most one job at a time, however creates,
\* expiry sweeps and purges interleave (_claim inside BEGIN IMMEDIATE): the UNIQUE
\* index crawl_jobs_idempotency never has to reject an INSERT.  A row holds its claim
\* exactly until it expires.
UniqueClaim ==
  \A j, k \in JobIds :
    /\ job[j].claim # None /\ job[j].claim = job[k].claim => j = k
    /\ job[j].claim = None <=> job[j].state \in {"expired"} \cup NoRowStates

\* The retained-record cap holds over active, terminal and expired rows together
\* (COUNT(*) in _claim, after the sweep).
RecordCap == Cardinality(Stored(job)) <= MaxRecords

\* A page is never stored as a result twice, nor both as a result and as a failure
\* under one key, whatever order results, failures, retries and late writes commit in
\* (the reconciliation of _append_result and the skip of _append_failure).
OneOutcomePerPage ==
  \A j \in JobIds :
    /\ KeysOf(results[j]) \cap failures[j] = {}
    /\ \A a, b \in DOMAIN results[j] : results[j][a].key = results[j][b].key => a = b

\* A terminal job is decided once: its verdict, counters and retention deadline change
\* only by expiry, and not before the deadline.  Reads, replays, repeated finishes,
\* cancellations and recoveries never extend or overwrite it.
TerminalIsFinal ==
  [][\A j \in JobIds : job[j].state \in Terminal =>
       \/ job'[j] = job[j]
       \/ job'[j].state \in {"expired", "purged"} /\ job[j].deadline <= clock]_storeVars

\* Ordinals are stable: a job's result rows only grow at the end, so a cursor keeps its
\* meaning, until retention removes all of them at once.
ResultsAppendOnly ==
  [][\A j \in JobIds :
       \/ /\ Len(results[j]) <= Len(results'[j])
          /\ SubSeq(results'[j], 1, Len(results[j])) = results[j]
       \/ /\ results'[j] = <<>>
          /\ job'[j].state \in {"expired", "purged"}]_storeVars

\* An identifier answers "expired" (410) before "not found" (404): a row disappears only
\* TombstoneS after the retention deadline of a job that ended.
TombstoneKept ==
  [][\A j \in JobIds : HasRow(j) /\ job'[j].state = "purged" =>
       /\ job[j].state \in Terminal \cup {"expired"}
       /\ job[j].deadline + TombstoneS <= clock]_storeVars

\* Each job, seen on its own, lives by the abstract lifecycle: one attempt budget,
\* "cancelled" exactly when cancelled, one ending, results that only grow until they
\* are forgotten.  A sweep may move many jobs in one transaction, each by its own step.
Phase(j) ==
  CASE job[j].state \in Terminal -> "done"
    [] job[j].state = "absent"   -> "none"
    [] job[j].state = "purged"   -> "gone"
    [] OTHER                     -> job[j].state

Life == INSTANCE JobLifecycle WITH
  phase   <- [j \in JobIds |-> Phase(j)],
  verdict <- [j \in JobIds |-> IF job[j].state \in Terminal THEN job[j].state ELSE "none"],
  asked   <- [j \in JobIds |-> job[j].cancel],
  tries   <- [j \in JobIds |-> job[j].attempts],
  stored  <- [j \in JobIds |-> IF job[j].state = "expired" THEN <<>> ELSE results[j]]

EveryJobLives == Life!Spec
=============================================================================
