--------------------------- MODULE CrawlJobsProofs ---------------------------
(***************************************************************************)
(* Proofs about the crawl-job manager, for every number of jobs and pages, *)
(* every attempt budget and any number of crashes, store errors and        *)
(* abandoned calls.  The manager is shown to drive the store only as       *)
(* StoreSpec allows, so that what CrawlJobStoreProofs establishes of the   *)
(* store holds of the whole service.                                       *)
(***************************************************************************)
EXTENDS CrawlJobs, CrawlJobStoreProofs

-----------------------------------------------------------------------------
(* What each transaction means for one job, as the manager sees it: its    *)
(* state, its attempts and its request to cancel.                          *)

\* The sweep takes an ended job further; every other row is left alone.
Forgot(j) == /\ job[j].state \in Terminal \cup {"expired"}
             /\ job'[j].state \in {"expired", "purged"}
             /\ job'[j].state = "expired" => job'[j].attempts = job[j].attempts
Kept(j)    == SameLife(j) \/ Forgot(j)
Entered(j) == /\ job[j].state = "absent" /\ job'[j].state = "queued"
              /\ job'[j].attempts = 0 /\ job'[j].cancel = FALSE

\* _expire_due, for one row.
LEMMA SweepRow ==
  ASSUME StoreTypeOK, NEW t \in ClockReadings, NEW i \in JobIds,
         job'[i] = JobsAfterSweep(t)[i]
  PROVE  Kept(i)
<1>1. job[i] \in Row /\ job'[i] = RowAfterSweep(i, t)
  BY SweptOrSame DEF StoreTypeOK
<1>2. CASE PurgeDue(i, t)
  <2>1. job'[i].state = "purged"
    BY <1>1, <1>2 DEF RowAfterSweep, NoRow
  <2>. QED BY <1>2, <2>1 DEF PurgeDue, Due, Kept, Forgot
<1>3. CASE Due(i, t) /\ ~PurgeDue(i, t)
  <2>1. job'[i].state = "expired" /\ job'[i].attempts = job[i].attempts
    BY <1>1, <1>3 DEF RowAfterSweep, Row
  <2>. QED BY <1>3, <2>1 DEF Due, Kept, Forgot
<1>4. CASE ~Due(i, t) /\ ~PurgeDue(i, t)
  BY <1>1, <1>4 DEF RowAfterSweep, Kept, SameLife
<1>. QED BY <1>2, <1>3, <1>4

\* recover_interrupted, for one row: only running jobs move.
LEMMA RecoverRow ==
  ASSUME StoreTypeOK, NEW t \in ClockReadings, RecoverInterrupted(t), NEW i \in JobIds
  PROVE  IF job[i].state = "running" THEN Requeued(i) \/ EndedNow(i) ELSE job'[i] = job[i]
<1>1. job[i] \in Row /\ job'[i] = RecoveredRow(job[i], t)
  BY DEF StoreTypeOK, RecoverInterrupted
<1>2. CASE job[i].state = "running" /\ job[i].cancel
  <2>1. job'[i] = Ended(job[i], "cancelled", t)
    BY <1>1, <1>2 DEF RecoveredRow
  <2>. QED BY <1>1, <1>2, <2>1 DEF Ended, EndedNow, Row, Terminal
<1>3. CASE job[i].state = "running" /\ ~job[i].cancel /\ job[i].attempts >= MaxAttempts
  <2>1. job'[i] = Ended(job[i], "failed", t)
    BY <1>1, <1>3 DEF RecoveredRow
  <2>. QED BY <1>1, <1>3, <2>1 DEF Ended, EndedNow, Row, Terminal
<1>4. CASE job[i].state = "running" /\ ~job[i].cancel /\ ~(job[i].attempts >= MaxAttempts)
  <2>1. job'[i] = [job[i] EXCEPT !.state = "queued"]
    BY <1>1, <1>4 DEF RecoveredRow
  <2>2. /\ job'[i].state = "queued" /\ job'[i].attempts = job[i].attempts
        /\ job'[i].cancel = job[i].cancel /\ job[i].cancel \in BOOLEAN
    BY <1>1, <2>1 DEF Row
  <2>3. job[i].attempts < MaxAttempts
    BY <1>1, <1>4, StoreConstants DEF Row
  <2>. QED BY <1>4, <2>2, <2>3 DEF Requeued
<1>5. CASE job[i].state # "running"
  BY <1>1, <1>5 DEF RecoveredRow
<1>. QED BY <1>2, <1>3, <1>4, <1>5

\* _claim: one job enters the queue, or none does.
LEMMA ClaimRow ==
  ASSUME StoreTypeOK, NEW t \in ClockReadings, NEW j \in JobIds,
         NEW c \in Claims, NEW p \in Prints, Claim(j, c, p, t), NEW i \in JobIds
  PROVE  Kept(i) \/ (i = j /\ Entered(i))
<1>. DEFINE rows == JobsAfterSweep(t)
            new == [NoRow("queued") EXCEPT !.claim = c, !.print = p, !.created = t]
<1>1. (job' = rows \/ job' = [rows EXCEPT ![j] = new]) /\ job[j].state = "absent"
  BY DEF Claim
<1>2. rows \in [JobIds -> Row]
  BY SweepTyped, ReadingIsPast
<1>3. new.state = "queued" /\ new.attempts = 0 /\ new.cancel = FALSE
  BY DEF NoRow
<1>4. job'[i] = rows[i] \/ (i = j /\ job'[i] = new)
  <2>. HIDE DEF rows, new
  <2>. QED BY <1>1, <1>2
<1>. QED BY <1>1, <1>3, <1>4, SweepRow DEF Entered

\* claim_next: one queued job begins an attempt.
LEMMA ClaimNextRow ==
  ASSUME StoreTypeOK, NEW t \in ClockReadings, NEW j \in JobIds, ClaimNext(j, t),
         NEW i \in JobIds
  PROVE  /\ job[j].state = "queued" /\ job'[j].state = "running"
         /\ job'[j].attempts = job[j].attempts + 1 /\ job'[j].cancel = job[j].cancel
         /\ i # j => Kept(i)
<1>. DEFINE rows == JobsAfterSweep(t)
<1>1. rows \in [JobIds -> Row]
  BY SweepTyped, ReadingIsPast
<1>2. /\ rows[j].state = "queued"
      /\ job' = [rows EXCEPT ![j].state = "running", ![j].attempts = @ + 1]
  BY DEF ClaimNext, IsNext, Queued
<1>3. rows[j] = job[j]
  BY <1>2, SweptOrSame
<1>4. /\ job'[j].state = "running" /\ job'[j].attempts = rows[j].attempts + 1
      /\ job'[j].cancel = rows[j].cancel
      /\ i # j => job'[i] = rows[i]
  <2>. HIDE DEF rows
  <2>. QED BY <1>1, <1>2 DEF Row
<1>. QED BY <1>2, <1>3, <1>4, SweepRow

\* request_cancel: a queued job ends, a running one is flagged; afterwards the job is
\* either flagged or over.
LEMMA CancelRow ==
  ASSUME StoreTypeOK, NEW t \in ClockReadings, NEW j \in JobIds, RequestCancel(j, t), HasRow(j),
         NEW i \in JobIds
  PROVE  /\ \/ Kept(i)
            \/ i = j /\ Asked(i)
            \/ i = j /\ job[i].state = "queued" /\ EndedNow(i)
         /\ \/ job'[j].state \in Terminal \cup {"expired", "purged"}
            \/ job'[j].state = "running" /\ job'[j].cancel
<1>. DEFINE rows == JobsAfterSweep(t)
<1>1. rows \in [JobIds -> Row]
  BY SweepTyped, ReadingIsPast
<1>2. job' = CASE rows[j].state = "queued"  -> [rows EXCEPT ![j] = Ended(@, "cancelled", t)]
               [] rows[j].state = "running" -> [rows EXCEPT ![j].cancel = TRUE]
               [] OTHER                     -> rows
  BY DEF RequestCancel
<1>3. rows[j].state \in {"queued", "running", "absent"} => rows[j] = job[j]
  BY SweptOrSame
<1>4. CASE rows[j].state \notin {"queued", "running"}
  <2>1. job' = rows
    BY <1>2, <1>4
  <2>2. rows[j].state \in Terminal \cup {"expired", "purged"}
    BY <1>1, <1>3, <1>4 DEF Row, States, NoRowStates, HasRow
  <2>. QED BY <2>1, <2>2, SweepRow
<1>5. CASE rows[j].state \in {"queued", "running"}
  <2>1. /\ i # j => job'[i] = rows[i]
        /\ rows[j].state = "queued" =>
             /\ job'[j].state = "cancelled" /\ job'[j].cancel = FALSE
             /\ job'[j].attempts = rows[j].attempts
        /\ rows[j].state = "running" =>
             /\ job'[j].state = "running" /\ job'[j].cancel = TRUE
             /\ job'[j].attempts = rows[j].attempts
    <3>. HIDE DEF rows
    <3>. QED BY <1>1, <1>2, <1>5 DEF Row, Ended
  <2>2. CASE rows[j].state = "queued"
    BY <1>3, <2>1, <2>2, SweepRow DEF EndedNow, Terminal
  <2>3. CASE rows[j].state = "running"
    BY <1>3, <2>1, <2>3, SweepRow DEF Asked
  <2>. QED BY <1>5, <2>2, <2>3
<1>. QED BY <1>4, <1>5

\* finish: a running job ends as asked, unless it is flagged.
LEMMA FinishRow ==
  ASSUME StoreTypeOK, NEW t \in ClockReadings, NEW j \in JobIds, NEW v \in Terminal,
         Finish(j, v, t), job[j].state = "running", NEW i \in JobIds
  PROVE  /\ EndedNow(j) \/ v = "cancelled"
         /\ job'[j].state = (IF job[j].cancel THEN "cancelled" ELSE v)
         /\ job'[j].attempts = job[j].attempts
         /\ i # j => job'[i] = job[i]
<1>. DEFINE w == IF job[j].cancel THEN "cancelled" ELSE v
<1>1. /\ job'[j] = Ended(job[j], w, t)
      /\ i # j => job'[i] = job[i]
  BY DEF Finish, StoreTypeOK
<1>2. /\ job'[j].state = w /\ job'[j].cancel = FALSE
      /\ job'[j].attempts = job[j].attempts
  <2>. HIDE DEF w
  <2>. QED BY <1>1 DEF Ended, StoreTypeOK, Row
<1>. QED BY <1>1, <1>2 DEF EndedNow, Terminal

\* Storing a page moves no job.
LEMMA StoredRow ==
  ASSUME StoreTypeOK, NEW j \in JobIds, NEW p \in Pages, StorePageOf(j, p), NEW i \in JobIds
  PROVE  SameLife(i)
<1>1. CASE p.kind = "result"
  <2>. DEFINE new == [job[j] EXCEPT !.processed = MaxZero(@ - Prior(j, {p.row.key} \cup {p.asked}) + 1),
                                    !.succeeded = IF p.row.content THEN @ + 1 ELSE @,
                                    !.failed = MaxZero(@ - Prior(j, {p.row.key} \cup {p.asked})
                                                       + IF p.row.content THEN 0 ELSE 1)]
  <2>1. job' = job \/ job' = [job EXCEPT ![j] = new]
    BY <1>1 DEF StorePageOf, AppendResult
  <2>2. /\ new.state = job[j].state /\ new.cancel = job[j].cancel
        /\ new.attempts = job[j].attempts
    BY DEF StoreTypeOK, Row
  <2>. HIDE DEF new
  <2>. QED BY <2>1, <2>2 DEF SameLife, StoreTypeOK
<1>2. CASE p.kind # "result"
  <2>1. AppendFailure(j, p.asked)
    BY <1>2 DEF StorePageOf
  <2>. QED BY <2>1 DEF AppendFailure, StoreTypeOK, Row, SameLife
<1>. QED BY <1>1, <1>2

-----------------------------------------------------------------------------
(* The inductive invariant.                                                *)

Over == Terminal \cup {"expired", "purged"}

\* The manager's own part of TypeOK.
ManagerTypeOK ==
  /\ pc \in PCs /\ cur \in JobIds \cup {None} /\ seen \in Nat
  /\ reply \in {None, "completed", "other", "retryable", "partial", "failed"}
  /\ retry \in BOOLEAN /\ recover \in BOOLEAN
  /\ page \in Pages \cup {None} /\ fetched \in 0..MaxPages /\ hit \in BOOLEAN
  /\ signal \in [JobIds -> {"none", "clear", "set"}]
  /\ wake \in BOOLEAN
  /\ waking \subseteq JobIds /\ asking \subseteq JobIds
  /\ stray \subseteq [target : JobIds, page : Pages]
  /\ crashes \in 0..MaxCrashes /\ faults \in 0..MaxFaults
  /\ late \subseteq JobIds
  /\ invoked \in [JobIds -> Nat]

\* RunningHasOwner, with the only places where a running row may be without an owner: the
\* process is down, or the loop is about to recover and cannot claim before it has.
Owned ==
  /\ pc \in Holding => cur \in JobIds /\ job[cur].state = "running"
  /\ pc = "recover" => recover
  /\ \A j \in JobIds : job[j].state = "running" =>
       \/ pc \in Holding /\ cur = j
       \/ pc = "down"
       \/ pc \in {"recover", "storeWait"} /\ recover

\* AttemptBudget, with what the worker remembers of the row it holds.
Budgeted ==
  /\ pc \in Holding => seen = job[cur].attempts
  /\ pc \in {"backoff", "increment"} => seen < MaxAttempts
  /\ pc = "claimed" => invoked[cur] < job[cur].attempts
  /\ \A j \in JobIds : HasRow(j) =>
       invoked[j] <= job[j].attempts /\ job[j].attempts <= MaxAttempts
  /\ \A j \in JobIds : job[j].state = "absent" => invoked[j] = 0

\* An event is registered for the held job only and set only after its row was flagged; a
\* handler that is about to set it has flagged the row, or the job is over.
Cancelling ==
  /\ \A j \in JobIds : signal[j] # "none" => pc \in Holding /\ cur = j
  /\ \A j \in JobIds : signal[j] = "set" => job[j].cancel
  /\ pc = "cancelled" => job[cur].cancel
  /\ \A j \in asking : job[j].state \in Over \/ (job[j].state = "running" /\ job[j].cancel)

\* What the worker is about to hand to the store.
Deciding ==
  /\ pc = "store" => page \in Pages
  /\ pc = "count" => reply \in {"completed", "failed"}
  /\ pc = "finish" => reply \in Verdicts

ManagerInv ==
  /\ ManagerTypeOK /\ Owned /\ Budgeted /\ Cancelling /\ Deciding /\ NoLostWake
  /\ QueuedCanRun

\* The types of the manager and of its store together are the module's.
LEMMA TypeOKParts == TypeOK <=> StoreTypeOK /\ ManagerTypeOK
BY DEF TypeOK, ManagerTypeOK

\* Storing a page is a transaction of the store, under any key.
LEMMA StoredPage ==
  ASSUME NEW j \in JobIds, NEW p \in Pages, StorePageOf(j, p)
  PROVE  StoreNext
<1>1. CASE p.kind = "result"
  <2>1. p.row \in ResultRow /\ p.asked \in PageKeys
    BY <1>1 DEF Pages, ResultPages, FailurePages
  <2>2. AppendResult(j, p.row, {p.asked})
    BY <1>1 DEF StorePageOf
  <2>. QED BY <2>1, <2>2 DEF StoreNext
<1>2. CASE p.kind # "result"
  <2>1. p.asked \in PageKeys
    BY <1>2 DEF Pages, ResultPages, FailurePages
  <2>2. AppendFailure(j, p.asked)
    BY <1>2 DEF StorePageOf
  <2>. QED BY <2>1, <2>2 DEF StoreNext
<1>. QED BY <1>1, <1>2

\* Every step of the manager, of a caller, of a crash or of an abandoned thread is a
\* transaction that StoreSpec allows, or leaves the store alone.
LEMMA ManagerUsesStore ==
  ASSUME StoreTypeOK, ManagerInv, [Next]_vars
  PROVE  [StoreNext]_storeVars
<1>. USE DEF ManagerInv, Owned
<1>1. CASE UNCHANGED vars
  BY <1>1 DEF vars
<1>2. CASE Recover \/ Start
  BY <1>2 DEF Recover, Start, StoreNext
<1>3. CASE ClaimFirst
  BY <1>3 DEF ClaimFirst, StoreNext
<1>4. CASE ClaimNone
  BY <1>4 DEF ClaimNone, StoreNext
<1>5. CASE Cleanup \/ Poll
  BY <1>5 DEF Cleanup, Poll, StoreNext
<1>6. CASE \/ ClearWake \/ WakeUp \/ PollTimeout \/ StoreWaitOver \/ RunJob \/ AdmitPage
           \/ FetchDone \/ AttemptReturns \/ AttemptCancelled \/ AttemptRaises
           \/ AppendSummary \/ WaitBackoff \/ ReadFinalRecord \/ CountResults \/ FailSummary
           \/ LoopFault \/ StorePageFault \/ JobFault \/ FailFault \/ Crash
           \/ \E j \in JobIds : CreateWakes(j) \/ CancelSignals(j)
  <2>1. UNCHANGED storeVars
    BY <1>6 DEF ClearWake, WakeUp, PollTimeout, StoreWaitOver, RunJob, AdmitPage, FetchDone,
         AttemptReturns, AttemptCancelled, AttemptRaises, AppendSummary, WaitBackoff,
         ReadFinalRecord, CountResults, FailSummary, LoopFault, StorePageFault, JobFault,
         FailFault, Crash, CreateWakes, CancelSignals
  <2>. QED BY <2>1
<1>7. CASE StorePage
  BY <1>7, StoredPage DEF StorePage, Deciding, Holding
<1>8. CASE NextAttempt
  <2>1. cur \in JobIds /\ job[cur].attempts < MaxAttempts /\ IncrementAttempt(cur)
    BY <1>8 DEF NextAttempt, Budgeted, Holding
  <2>. QED BY <2>1 DEF StoreNext
<1>9. CASE FinishJob
  <2>1. cur \in JobIds /\ job[cur].state = "running"
    BY <1>9 DEF FinishJob, Holding
  <2>2. HasRow(cur) /\ job[cur].state # "queued"
    BY <2>1 DEF HasRow, NoRowStates
  <2>3. PICK t \in ClockReadings :
          \/ pc = "finish" /\ Finish(cur, reply, t)
          \/ pc = "cancelled" /\ Finish(cur, "cancelled", t)
          \/ pc = "failFinish" /\ Finish(cur, "failed", t)
    BY <1>9 DEF FinishJob
  <2>4. pc = "cancelled" /\ Finish(cur, "cancelled", t) => Finish(cur, "failed", t)
    BY <2>1 DEF Cancelling, Finish, StoreTypeOK
  <2>5. \E v \in Verdicts : Finish(cur, v, t)
    BY <2>3, <2>4 DEF Deciding, Verdicts
  <2>. QED BY <2>1, <2>2, <2>5 DEF StoreNext
<1>10. ASSUME NEW c \in Claims, NEW p \in Prints, Create(c, p)
       PROVE  StoreNext
  BY <1>10 DEF Create, StoreNext
<1>11. ASSUME NEW j \in JobIds, Cancel(j)
       PROVE  StoreNext
  BY <1>11 DEF Cancel, StoreNext
<1>12. CASE Time
  BY <1>12 DEF Time, StoreNext
<1>13. ASSUME NEW s \in stray, StrayLands(s)
       PROVE  [StoreNext]_storeVars
  <2>1. s.target \in JobIds /\ s.page \in Pages
    BY DEF ManagerTypeOK
  <2>. QED BY <1>13, <2>1, StoredPage DEF StrayLands
<1>. QED BY <1>1, <1>2, <1>3, <1>4, <1>5, <1>6, <1>7, <1>8, <1>9, <1>10, <1>11, <1>12, <1>13
         DEF Next, Worker, Faults, Callers

-----------------------------------------------------------------------------
(* Each step keeps the invariant.                                          *)

\* The manager's variables keep their types.
LEMMA ManagerTypeStep ==
  ASSUME StoreTypeOK, StoreTypeOK', ManagerInv, [Next]_vars
  PROVE  ManagerTypeOK'
<1>1. ManagerTypeOK
  BY DEF ManagerInv
<1>. USE <1>1, ManagerConstants DEF ManagerTypeOK, PCs, Goto
<1>2. CASE UNCHANGED vars
  BY <1>2 DEF vars, workerVars, callerVars, envVars
<1>3. CASE Recover \/ Start \/ ClaimNone \/ Cleanup
  <2>1. CASE Recover
    BY <2>1 DEF Recover, callerVars, envVars
  <2>2. CASE Start
    BY <2>2 DEF Start, callerVars, envVars
  <2>3. CASE ClaimNone
    BY <2>3 DEF ClaimNone, callerVars, envVars
  <2>4. CASE Cleanup
    BY <2>4 DEF Cleanup, callerVars, envVars
  <2>. QED BY <1>3, <2>1, <2>2, <2>3, <2>4
<1>4. CASE ClearWake \/ WakeUp \/ PollTimeout \/ StoreWaitOver
  BY <1>4 DEF ClearWake, WakeUp, PollTimeout, StoreWaitOver, LoopTop, callerVars, envVars
<1>5. CASE AppendSummary \/ WaitBackoff \/ FailSummary
  BY <1>5 DEF AppendSummary, AfterAttempt, WaitBackoff, FailSummary, callerVars, envVars
<1>6. CASE AdmitPage
  BY <1>6 DEF AdmitPage, callerVars, envVars
<1>7. CASE ClaimFirst
  <2>1. PICK j \in JobIds : cur' = j /\ seen' = job'[j].attempts
    BY <1>7 DEF ClaimFirst
  <2>2. seen' \in Nat
    BY <2>1 DEF StoreTypeOK, Row
  <2>3. pc' \in PCs /\ recover' \in BOOLEAN
    BY <1>7 DEF ClaimFirst
  <2>4. cur' \in JobIds \cup {None}
    BY <2>1
  <2>5. UNCHANGED <<reply, retry, page, fetched, hit, callerVars, envVars, invoked>>
    BY <1>7 DEF ClaimFirst
  <2>. QED BY <2>2, <2>3, <2>4, <2>5 DEF callerVars, envVars
<1>8. CASE RunJob \/ NextAttempt
  <2>1. cur \in JobIds
    BY <1>8 DEF RunJob, NextAttempt, ManagerInv, Owned, Holding
  <2>2. invoked' \in [JobIds -> Nat] /\ fetched' \in 0..MaxPages
    BY <1>8, <2>1 DEF RunJob, NextAttempt, BeginAttempt
  <2>3. seen' \in Nat
    <3>1. job'[cur] \in Row
      BY <2>1 DEF StoreTypeOK
    <3>2. job'[cur].attempts \in Nat
      BY <3>1 DEF Row
    <3>. QED BY <1>8, <3>2 DEF RunJob, NextAttempt
  <2>4. CASE RunJob
    BY <2>1, <2>2, <2>3, <2>4 DEF RunJob, BeginAttempt, callerVars, envVars
  <2>5. CASE NextAttempt
    BY <2>1, <2>2, <2>3, <2>5 DEF NextAttempt, BeginAttempt, callerVars, envVars
  <2>. QED BY <1>8, <2>4, <2>5
<1>9. CASE FetchDone
  <2>1. ASSUME NEW p \in Pages, p.kind = "result" PROVE p.row.content \in BOOLEAN
    BY <2>1 DEF Pages, FailurePages, ResultPages, ResultRow
  <2>2. hit' \in BOOLEAN /\ page' \in Pages \cup {None} /\ pc' \in {"attempt", "store"}
    BY <1>9, <2>1 DEF FetchDone
  <2>. QED BY <1>9, <2>2 DEF FetchDone, callerVars, envVars
<1>10. CASE StorePage \/ AttemptReturns \/ AttemptCancelled
  BY <1>10 DEF StorePage, AttemptReturns, AttemptCancelled, AfterAttempt, callerVars, envVars
<1>11. CASE AttemptRaises
  <2>1. stray' \subseteq [target : JobIds, page : Pages]
    <3>1. CASE stray' = stray
      BY <3>1
    <3>2. CASE stray' = stray \cup {[target |-> cur, page |-> page]} /\ pc = "store"
      <4>1. cur \in JobIds /\ page \in Pages
        BY <3>2 DEF ManagerInv, Owned, Deciding, Holding
      <4>. QED BY <3>2, <4>1
    <3>. QED BY <1>11, <3>1, <3>2 DEF AttemptRaises
  <2>2. reply' = None /\ page' = None /\ faults' \in 0..MaxFaults
    BY <1>11 DEF AttemptRaises, Fault
  <2>4. retry' \in BOOLEAN
    BY <1>11, Zenon DEF AttemptRaises
  <2>3. pc' = "summary" /\ UNCHANGED <<cur, seen, recover, fetched, hit, callerVars, crashes, late, invoked>>
    BY <1>11 DEF AttemptRaises
  <2>. QED BY <2>1, <2>2, <2>3, <2>4 DEF callerVars
<1>12. CASE ReadFinalRecord \/ FinishJob \/ FailFault
  <2>1. \/ signal' = signal
        \/ signal' = [signal EXCEPT ![cur] = "none"]
    BY <1>12 DEF ReadFinalRecord, FinishJob, FailFault, Release
  <2>2. signal' \in [JobIds -> {"none", "clear", "set"}]
    BY <2>1
  <2>3. /\ pc' \in PCs /\ cur' \in JobIds \cup {None} /\ seen' \in Nat
        /\ reply' \in {None, "completed", "other", "retryable", "partial", "failed"}
        /\ retry' \in BOOLEAN /\ recover' \in BOOLEAN
    <3>1. CASE ReadFinalRecord
      <4>1. \/ Release("claim")
            \/ /\ pc' = "count" /\ UNCHANGED <<cur, seen>>
               /\ reply' \in {"completed", "failed"}
        BY <3>1 DEF ReadFinalRecord, FinalState
      <4>2. recover' \in BOOLEAN
        BY <3>1 DEF ReadFinalRecord
      <4>3. retry' \in BOOLEAN
        BY <3>1 DEF ReadFinalRecord, Release
      <4>4. /\ pc' \in PCs /\ cur' \in JobIds \cup {None} /\ seen' \in Nat
            /\ reply' \in {None, "completed", "other", "retryable", "partial", "failed"}
        BY <4>1 DEF Release
      <4>. QED BY <4>2, <4>3, <4>4
    <3>2. CASE FinishJob
      BY <3>2 DEF FinishJob, Release
    <3>3. CASE FailFault
      BY <3>3 DEF FailFault, Release
    <3>. QED BY <1>12, <3>1, <3>2, <3>3
  <2>4. /\ UNCHANGED <<page, fetched, hit, wake, waking, asking, stray, crashes, late, invoked>>
        /\ faults' \in 0..MaxFaults
    BY <1>12 DEF ReadFinalRecord, FinishJob, FailFault, Fault, envVars
  <2>. QED BY <2>2, <2>3, <2>4
<1>13. CASE CountResults
  BY <1>13 DEF CountResults, callerVars, envVars
<1>14. CASE LoopFault \/ StorePageFault \/ JobFault
  <2>1. faults' \in 0..MaxFaults /\ signal' \in [JobIds -> {"none", "clear", "set"}]
    BY <1>14 DEF LoopFault, StorePageFault, JobFault, Fault, callerVars
  <2>. QED BY <1>14, <2>1 DEF LoopFault, StorePageFault, JobFault, callerVars
<1>15. CASE Poll \/ \E c \in Claims, p \in Prints : Create(c, p)
  <2>1. /\ waking' \subseteq JobIds
        /\ UNCHANGED <<workerVars, signal, wake, asking, envVars, invoked>>
    BY <1>15 DEF Poll, Create, callerVars
  <2>. QED BY <2>1 DEF workerVars, envVars
<1>16. ASSUME NEW j \in JobIds, CreateWakes(j) \/ Cancel(j) \/ CancelSignals(j)
       PROVE  ManagerTypeOK'
  <2>1. /\ waking' \subseteq JobIds /\ asking' \subseteq JobIds /\ wake' \in BOOLEAN
        /\ signal' \in [JobIds -> {"none", "clear", "set"}]
    BY <1>16 DEF CreateWakes, Cancel, CancelSignals
  <2>2. UNCHANGED <<workerVars, envVars, invoked>>
    BY <1>16 DEF CreateWakes, Cancel, CancelSignals
  <2>. QED BY <2>1, <2>2 DEF workerVars, envVars
<1>17. CASE Crash \/ Time
  <2>1. CASE Crash
    <3>1. /\ pc' = "down" /\ cur' = None /\ seen' = 0 /\ reply' = None /\ page' = None
          /\ fetched' = 0 /\ waking' = {} /\ asking' = {} /\ stray' = {}
          /\ crashes' = crashes + 1 /\ crashes < MaxCrashes
          /\ signal' = [j \in JobIds |-> "none"] /\ UNCHANGED <<faults, late, invoked>>
      BY <2>1 DEF Crash
    <3>2. retry' \in BOOLEAN /\ recover' \in BOOLEAN /\ hit' \in BOOLEAN /\ wake' \in BOOLEAN
      BY <2>1 DEF Crash
    <3>. QED BY <3>1, <3>2
  <2>2. CASE Time
    BY <2>2 DEF Time, workerVars, callerVars, envVars
  <2>. QED BY <1>17, <2>1, <2>2
<1>18. ASSUME NEW s \in stray, StrayLands(s)
       PROVE  ManagerTypeOK'
  <2>1. late' \subseteq JobIds /\ stray' \subseteq stray
    BY <1>18 DEF StrayLands
  <2>. QED BY <1>18, <2>1 DEF StrayLands, workerVars, callerVars
<1>. QED BY <1>2, <1>3, <1>4, <1>5, <1>6, <1>7, <1>8, <1>9, <1>10, <1>11, <1>12, <1>13, <1>14,
            <1>15, <1>16, <1>17, <1>18 DEF Next, Worker, Faults, Callers

\* Where the checks after an attempt lead, and what is known there.
LEMMA AfterAttemptLeads ==
  ASSUME StoreTypeOK, ManagerInv, pc \in Holding, NEW again
  PROVE  /\ AfterAttempt(again) \in {"cancelled", "read", "backoff"}
         /\ AfterAttempt(again) = "cancelled" => job[cur].cancel
         /\ AfterAttempt(again) = "backoff" => seen < MaxAttempts
<1>1. /\ seen \in Nat /\ MaxAttempts \in Nat
      /\ signal[cur] = "set" => job[cur].cancel
  BY StoreConstants DEF ManagerInv, ManagerTypeOK, Owned, Cancelling
<1>. QED BY <1>1 DEF AfterAttempt

\* The steps that leave the store alone.
LEMMA WorkerStep ==
  ASSUME StoreTypeOK, ManagerInv, UNCHANGED storeVars,
         \/ ClearWake \/ WakeUp \/ PollTimeout \/ StoreWaitOver \/ RunJob \/ AdmitPage
         \/ FetchDone \/ AttemptReturns \/ AttemptCancelled \/ AttemptRaises
         \/ AppendSummary \/ WaitBackoff \/ ReadFinalRecord \/ CountResults \/ FailSummary
         \/ LoopFault \/ StorePageFault \/ JobFault \/ FailFault \/ Crash
  PROVE  Owned' /\ Budgeted' /\ Cancelling' /\ Deciding' /\ NoLostWake'
<1>. USE DEF ManagerInv, ManagerTypeOK, Owned, Budgeted, Cancelling, Deciding, NoLostWake, Goto, Holding,
       HasRow, storeVars, callerVars, Verdicts
<1>1. CASE ClearWake
  BY <1>1 DEF ClearWake
<1>2. CASE WakeUp
  BY <1>2 DEF WakeUp
<1>3. CASE PollTimeout
  BY <1>3 DEF PollTimeout
<1>4. CASE StoreWaitOver
  BY <1>4 DEF StoreWaitOver, LoopTop
<1>5. CASE RunJob
  BY <1>5 DEF RunJob, BeginAttempt
<1>6. CASE AdmitPage
  BY <1>6 DEF AdmitPage
<1>7. CASE FetchDone
  BY <1>7 DEF FetchDone
<1>8. CASE AttemptReturns
  <2>1. /\ pc' = AfterAttempt(retry')
        /\ pc = "attempt"
        /\ UNCHANGED <<storeVars, cur, seen, recover, signal, wake, waking, asking, invoked>>
    BY <1>8 DEF AttemptReturns
  <2>2. AfterAttempt(retry') \in {"cancelled", "read", "backoff"}
    BY <2>1, AfterAttemptLeads
  <2>3. pc' = "cancelled" => job[cur].cancel
    BY <2>1, AfterAttemptLeads
  <2>4. pc' = "backoff" => seen < MaxAttempts
    BY <2>1, AfterAttemptLeads
  <2>. QED BY <2>1, <2>2, <2>3, <2>4
<1>9. CASE AttemptCancelled
  BY <1>9 DEF AttemptCancelled
<1>10. CASE AttemptRaises
  BY <1>10 DEF AttemptRaises
<1>11. CASE AppendSummary
  <2>1. /\ pc' = AfterAttempt(retry)
        /\ pc = "summary"
        /\ UNCHANGED <<storeVars, cur, seen, recover, signal, wake, waking, asking, invoked>>
    BY <1>11 DEF AppendSummary
  <2>2. AfterAttempt(retry) \in {"cancelled", "read", "backoff"}
    BY <2>1, AfterAttemptLeads
  <2>3. pc' = "cancelled" => job[cur].cancel
    BY <2>1, AfterAttemptLeads
  <2>4. pc' = "backoff" => seen < MaxAttempts
    BY <2>1, AfterAttemptLeads
  <2>. QED BY <2>1, <2>2, <2>3, <2>4
<1>12. CASE WaitBackoff
  BY <1>12 DEF WaitBackoff
<1>13. CASE ReadFinalRecord
  <2>1. pc = "read" /\ HasRow(cur)
    BY <1>13 DEF ReadFinalRecord, NoRowStates
  <2>2. /\ pc' = "count" /\ reply' \in {"completed", "failed"}
        /\ UNCHANGED <<storeVars, cur, seen, recover, signal, wake, waking, asking, invoked>>
    BY <1>13, <2>1 DEF ReadFinalRecord, FinalState
  <2>. QED BY <2>1, <2>2
<1>14. CASE CountResults
  BY <1>14 DEF CountResults
<1>15. CASE FailSummary
  BY <1>15 DEF FailSummary
<1>16. CASE LoopFault
  BY <1>16 DEF LoopFault
<1>17. CASE StorePageFault
  BY <1>17 DEF StorePageFault
<1>18. CASE JobFault
  BY <1>18 DEF JobFault
<1>19. CASE FailFault
  BY <1>19 DEF FailFault, Release
<1>20. CASE Crash
  BY <1>20 DEF Crash
<1>. QED BY <1>1, <1>2, <1>3, <1>4, <1>5, <1>6, <1>7, <1>8, <1>9, <1>10, <1>11, <1>12, <1>13,
            <1>14, <1>15, <1>16, <1>17, <1>18, <1>19, <1>20

\* The sweeps of the worker and of a poll forget ended jobs only.
LEMMA SweepStep ==
  ASSUME StoreTypeOK, ManagerInv, ClaimNone \/ Cleanup \/ Poll
  PROVE  Owned' /\ Budgeted' /\ Cancelling' /\ Deciding' /\ NoLostWake'
<1>. USE DEF ManagerInv, ManagerTypeOK, Owned, Budgeted, Cancelling, Deciding, NoLostWake, Goto,
             Holding, HasRow, NoRowStates, callerVars, workerVars, Over, Kept, Forgot, SameLife
<1>1. \A i \in JobIds : Kept(i)
  <2>1. PICK t \in ClockReadings : Sweep(t)
    BY DEF ClaimNone, Cleanup, Poll, ClaimNothing
  <2>. QED BY <2>1, SweepRow DEF Sweep
<1>2. CASE ClaimNone
  <2>1. \A j \in JobIds : job'[j].state # "queued"
    BY <1>1, <1>2 DEF ClaimNone, ClaimNothing, Queued, Terminal
  <2>. QED BY <1>1, <1>2, <2>1 DEF ClaimNone, Terminal
<1>3. CASE Cleanup
  BY <1>1, <1>3 DEF Cleanup, Terminal
<1>4. CASE Poll
  BY <1>1, <1>4 DEF Poll, Terminal
<1>. QED BY <1>2, <1>3, <1>4

\* recover_interrupted leaves no job running, so nobody has to own one.
LEMMA RecoverStep ==
  ASSUME StoreTypeOK, ManagerInv, Recover \/ Start
  PROVE  Owned' /\ Budgeted' /\ Cancelling' /\ Deciding' /\ NoLostWake'
<1>. USE DEF ManagerInv, ManagerTypeOK, Owned, Budgeted, Cancelling, Deciding, NoLostWake, Goto,
             Holding, HasRow, NoRowStates, callerVars, Over
<1>1. \A i \in JobIds :
        IF job[i].state = "running" THEN Requeued(i) \/ EndedNow(i) ELSE job'[i] = job[i]
  <2>1. PICK t \in ClockReadings : RecoverInterrupted(t)
    BY DEF Recover, Start
  <2>. QED BY <2>1, RecoverRow
<1>2. /\ pc' = "claim" /\ pc \notin Holding
      /\ UNCHANGED <<signal, wake, waking, asking, invoked>>
  BY DEF Recover, Start
<1>3. \A j \in asking : job[j].state \in Over \/ (job[j].state = "running" /\ job[j].cancel)
  OBVIOUS
<1>. QED BY <1>1, <1>2, <1>3 DEF Requeued, EndedNow, Terminal

\* A claim gives the worker the job it starts; the budget pays for the first run.
LEMMA ClaimFirstStep ==
  ASSUME StoreTypeOK, ManagerInv, ClaimFirst
  PROVE  Owned' /\ Budgeted' /\ Cancelling' /\ Deciding' /\ NoLostWake'
<1>. USE DEF ManagerInv, ManagerTypeOK, Owned, Budgeted, Cancelling, Deciding, NoLostWake, Goto,
             Holding, HasRow, NoRowStates, callerVars, Over, Kept, Forgot, SameLife
<1>1. PICK j \in JobIds, t \in ClockReadings :
        ClaimNext(j, t) /\ cur' = j /\ seen' = job'[j].attempts
  BY DEF ClaimFirst
<1>2. /\ job[j].state = "queued" /\ job'[j].state = "running"
      /\ job'[j].attempts = job[j].attempts + 1 /\ job'[j].cancel = job[j].cancel
      /\ \A i \in JobIds : i # j => Kept(i)
  BY <1>1, ClaimNextRow
<1>3. /\ pc' = "claimed" /\ pc \in {"claim", "claimAgain"}
      /\ UNCHANGED <<signal, wake, waking, asking, invoked>>
  BY DEF ClaimFirst
<1>4. /\ job[j].attempts \in Nat /\ invoked[j] \in Nat /\ MaxAttempts \in Nat
      /\ job[j].attempts < MaxAttempts /\ invoked[j] <= job[j].attempts
  BY <1>2, StoreConstants DEF StoreTypeOK, Row, QueuedCanRun
<1>5. Owned' /\ Deciding' /\ NoLostWake'
  BY <1>1, <1>2, <1>3 DEF Terminal
<1>6. Budgeted'
  BY <1>1, <1>2, <1>3, <1>4 DEF Terminal
<1>7. Cancelling'
  BY <1>1, <1>2, <1>3 DEF Terminal
<1>. QED BY <1>5, <1>6, <1>7

\* A create adds a queued row with an empty budget, and a promise to wake the worker.
LEMMA CreateStep ==
  ASSUME StoreTypeOK, ManagerInv, NEW c \in Claims, NEW p \in Prints, Create(c, p)
  PROVE  Owned' /\ Budgeted' /\ Cancelling' /\ Deciding' /\ NoLostWake'
<1>. USE DEF ManagerInv, ManagerTypeOK, Owned, Budgeted, Cancelling, Deciding, NoLostWake,
             Holding, HasRow, NoRowStates, workerVars, Over, Kept, Forgot, SameLife, Entered
<1>1. PICK j \in JobIds, t \in ClockReadings : Claim(j, c, p, t) /\ waking' = waking \cup {j}
  BY DEF Create
<1>2. \A i \in JobIds : Kept(i) \/ (i = j /\ Entered(i))
  BY <1>1, ClaimRow
<1>3. UNCHANGED <<workerVars, signal, wake, asking, invoked>>
  BY DEF Create
<1>4. MaxAttempts \in Nat
  BY StoreConstants
<1>5. Owned' /\ Deciding' /\ NoLostWake'
  BY <1>1, <1>2, <1>3 DEF Terminal
<1>6. Budgeted'
  BY <1>1, <1>2, <1>3, <1>4 DEF Terminal
<1>7. Cancelling'
  BY <1>1, <1>2, <1>3 DEF Terminal
<1>. QED BY <1>5, <1>6, <1>7

\* After a cancel the job is flagged or over, so the handler may set its event.
LEMMA CancelStep ==
  ASSUME StoreTypeOK, ManagerInv, NEW j \in JobIds, Cancel(j)
  PROVE  Owned' /\ Budgeted' /\ Cancelling' /\ Deciding' /\ NoLostWake'
<1>. USE DEF ManagerInv, ManagerTypeOK, Owned, Budgeted, Cancelling, Deciding, NoLostWake,
             Holding, HasRow, NoRowStates, workerVars, Over, Kept, Forgot, SameLife
<1>1. PICK t \in ClockReadings : RequestCancel(j, t)
  BY DEF Cancel
<1>2. /\ \A i \in JobIds : \/ Kept(i)
                           \/ i = j /\ Asked(i)
                           \/ i = j /\ job[i].state = "queued" /\ EndedNow(i)
      /\ \/ job'[j].state \in Terminal \cup {"expired", "purged"}
         \/ job'[j].state = "running" /\ job'[j].cancel
  BY <1>1, CancelRow DEF Cancel
<1>3. /\ UNCHANGED <<workerVars, signal, wake, waking, invoked>>
      /\ asking' \subseteq asking \cup {j}
  BY DEF Cancel
<1>5. Owned' /\ Deciding' /\ NoLostWake'
  BY <1>2, <1>3 DEF Terminal, Asked, EndedNow
<1>6. Budgeted'
  BY <1>2, <1>3 DEF Terminal, Asked, EndedNow
<1>7. Cancelling'
  <2>1. \A i \in JobIds : signal[i] = "set" => job'[i].cancel
    BY <1>2 DEF Terminal, Asked, EndedNow
  <2>2. pc = "cancelled" => job'[cur].cancel
    BY <1>2 DEF Terminal, Asked, EndedNow
  <2>3. \A i \in asking' : job'[i].state \in Over \/ (job'[i].state = "running" /\ job'[i].cancel)
    BY <1>2, <1>3 DEF Terminal, Asked, EndedNow
  <2>. QED BY <1>3, <2>1, <2>2, <2>3
<1>. QED BY <1>5, <1>6, <1>7

\* Storing a page, by the worker or by an abandoned thread, moves no job.
LEMMA PageStep ==
  ASSUME StoreTypeOK, ManagerInv, StorePage \/ \E s \in stray : StrayLands(s)
  PROVE  Owned' /\ Budgeted' /\ Cancelling' /\ Deciding' /\ NoLostWake'
<1>. USE DEF ManagerInv, ManagerTypeOK, Owned, Budgeted, Cancelling, Deciding, NoLostWake, Goto,
             Holding, HasRow, NoRowStates, callerVars, workerVars, Over, SameLife
<1>1. CASE StorePage
  <2>1. \A i \in JobIds : SameLife(i)
    BY <1>1, StoredRow DEF StorePage
  <2>. QED BY <1>1, <2>1 DEF StorePage
<1>2. ASSUME NEW s \in stray, StrayLands(s)
      PROVE  Owned' /\ Budgeted' /\ Cancelling' /\ Deciding' /\ NoLostWake'
  <2>1. s.target \in JobIds /\ s.page \in Pages
    OBVIOUS
  <2>2. \A i \in JobIds : SameLife(i)
    BY <1>2, <2>1, StoredRow DEF StrayLands, storeVars
  <2>3. UNCHANGED <<workerVars, callerVars, invoked>>
    BY <1>2 DEF StrayLands
  <2>. QED BY <2>2, <2>3
<1>. QED BY <1>1, <1>2

\* A retry is paid for before the runner starts again.
LEMMA NextAttemptStep ==
  ASSUME StoreTypeOK, ManagerInv, NextAttempt
  PROVE  Owned' /\ Budgeted' /\ Cancelling' /\ Deciding' /\ NoLostWake'
<1>. USE DEF ManagerInv, ManagerTypeOK, Owned, Budgeted, Cancelling, Deciding, NoLostWake, Goto,
             Holding, HasRow, NoRowStates, callerVars, Over
<1>1. /\ cur \in JobIds /\ job[cur].state = "running" /\ seen = job[cur].attempts
      /\ seen < MaxAttempts /\ pc = "increment"
  BY DEF NextAttempt
<1>2. /\ \A i \in JobIds : /\ job'[i].state = job[i].state /\ job'[i].cancel = job[i].cancel
                           /\ i # cur => job'[i].attempts = job[i].attempts
      /\ job'[cur].attempts = job[cur].attempts + 1
  <2>. HIDE DEF ManagerInv, Over, Holding
  <2>1. IncrementAttempt(cur)
    BY DEF NextAttempt
  <2>2. job'[cur] = [job[cur] EXCEPT !.attempts = @ + 1]
    BY <1>1, <2>1 DEF IncrementAttempt, StoreTypeOK
  <2>3. \A i \in JobIds : i # cur => job'[i] = job[i]
    BY <1>1, <2>1 DEF IncrementAttempt, StoreTypeOK
  <2>4. job[cur] \in Row
    BY <1>1 DEF StoreTypeOK
  <2>5. /\ job'[cur].state = job[cur].state /\ job'[cur].cancel = job[cur].cancel
        /\ job'[cur].attempts = job[cur].attempts + 1
    BY <2>2, <2>4 DEF Row
  <2>. HIDE DEF Owned, Budgeted, Cancelling, Deciding, NoLostWake, ManagerTypeOK
  <2>. QED BY <2>3, <2>5
<1>3. /\ UNCHANGED <<cur, recover, page, reply, signal, wake, waking, asking>>
      /\ seen' = job'[cur].attempts
      /\ \/ pc' = "cancelled" /\ signal[cur] = "set" /\ invoked' = invoked
         \/ pc' = "attempt" /\ invoked' = [invoked EXCEPT ![cur] = @ + 1]
  BY DEF NextAttempt, BeginAttempt
<1>4. seen \in Nat /\ MaxAttempts \in Nat /\ \A i \in JobIds : invoked[i] \in Nat
  BY StoreConstants
<1>5. Owned' /\ Deciding' /\ NoLostWake' /\ Cancelling'
  BY <1>1, <1>2, <1>3
<1>6. Budgeted'
  <2>1. \A i \in JobIds : i # cur => invoked'[i] = invoked[i]
    BY <1>3
  <2>2. invoked'[cur] <= invoked[cur] + 1 /\ invoked'[cur] \in Nat
    BY <1>1, <1>3, <1>4
  <2>3. invoked[cur] <= job[cur].attempts
    BY <1>1
  <2>. HIDE DEF ManagerInv, ManagerTypeOK, Owned, Cancelling, Deciding
  <2>4. \A i \in JobIds : HasRow(i)' =>
          invoked'[i] <= job'[i].attempts /\ job'[i].attempts <= MaxAttempts
    <3>. TAKE i \in JobIds
    <3>1. CASE i = cur
      <4>1. job[cur].attempts \in Nat /\ invoked[cur] \in Nat
        BY <1>1, <1>4 DEF StoreTypeOK, Row
      <4>. QED BY <3>1, <1>1, <1>2, <1>4, <2>2, <2>3, <4>1
    <3>2. CASE i # cur
      BY <3>2, <1>2, <2>1 DEF ManagerInv
    <3>. QED BY <3>1, <3>2
  <2>5. \A i \in JobIds : job'[i].state = "absent" => invoked'[i] = 0
    BY <1>1, <1>2, <2>1 DEF ManagerInv
  <2>. QED BY <1>1, <1>2, <1>3, <2>4, <2>5
<1>. QED BY <1>5, <1>6

\* Ending the held job leaves no running row behind.
LEMMA FinishStep ==
  ASSUME StoreTypeOK, ManagerInv, FinishJob
  PROVE  Owned' /\ Budgeted' /\ Cancelling' /\ Deciding' /\ NoLostWake'
<1>. USE DEF ManagerInv, ManagerTypeOK, Owned, Budgeted, Cancelling, Deciding, NoLostWake, Goto,
             Holding, HasRow, NoRowStates, Over
<1>1. cur \in JobIds /\ job[cur].state = "running" /\ pc \in Holding
  BY DEF FinishJob
<1>2. \E v \in Terminal, t \in ClockReadings : Finish(cur, v, t)
  BY DEF FinishJob, Terminal, Verdicts
<1>3. /\ job'[cur].state \in Terminal /\ job'[cur].attempts = job[cur].attempts
      /\ \A i \in JobIds : i # cur => job'[i] = job[i]
  BY <1>1, <1>2, FinishRow DEF Terminal
<1>4. /\ pc' = "claim" /\ signal' = [signal EXCEPT ![cur] = "none"]
      /\ UNCHANGED <<recover, wake, waking, asking, invoked>>
  BY DEF FinishJob, Release
<1>. QED BY <1>1, <1>3, <1>4 DEF Terminal

\* A handler that has committed sets what it came to set; time alone changes no row.
LEMMA HandlerStep ==
  ASSUME StoreTypeOK, ManagerInv,
         Time \/ \E j \in JobIds : CreateWakes(j) \/ CancelSignals(j)
  PROVE  Owned' /\ Budgeted' /\ Cancelling' /\ Deciding' /\ NoLostWake'
<1>. USE DEF ManagerInv, ManagerTypeOK, Owned, Budgeted, Cancelling, Deciding, NoLostWake,
             Holding, HasRow, NoRowStates, callerVars, workerVars, Over, storeVars
<1>1. CASE Time
  BY <1>1 DEF Time, Tick
<1>2. ASSUME NEW j \in JobIds, CreateWakes(j)
      PROVE  Owned' /\ Budgeted' /\ Cancelling' /\ Deciding' /\ NoLostWake'
  BY <1>2 DEF CreateWakes
<1>3. ASSUME NEW j \in JobIds, CancelSignals(j)
      PROVE  Owned' /\ Budgeted' /\ Cancelling' /\ Deciding' /\ NoLostWake'
  <2>1. signal[j] = "clear" => job[j].cancel
    BY <1>3 DEF CancelSignals, Terminal
  <2>. QED BY <1>3, <2>1 DEF CancelSignals
<1>. QED BY <1>1, <1>2, <1>3

\* Every step of the service keeps the invariant.
LEMMA ManagerStep ==
  ASSUME StoreTypeOK, ManagerInv, [Next]_vars
  PROVE  StoreTypeOK' /\ ManagerInv'
<1>1. [StoreNext]_storeVars
  BY ManagerUsesStore
<1>2. StoreTypeOK'
  BY <1>1, StoreTypeStep
<1>3. ManagerTypeOK'
  BY <1>2, ManagerTypeStep
<1>4. QueuedCanRun'
  BY <1>1, QueuedCanRunStep DEF ManagerInv
<1>5. Owned' /\ Budgeted' /\ Cancelling' /\ Deciding' /\ NoLostWake'
  <2>1. CASE UNCHANGED vars
    BY <2>1 DEF vars, storeVars, workerVars, callerVars, envVars, ManagerInv, Owned, Budgeted,
                Cancelling, Deciding, NoLostWake, HasRow
  <2>2. CASE \/ ClearWake \/ WakeUp \/ PollTimeout \/ StoreWaitOver \/ RunJob \/ AdmitPage
             \/ FetchDone \/ AttemptReturns \/ AttemptCancelled \/ AttemptRaises
             \/ AppendSummary \/ WaitBackoff \/ ReadFinalRecord \/ CountResults \/ FailSummary
             \/ LoopFault \/ StorePageFault \/ JobFault \/ FailFault \/ Crash
    <3>1. UNCHANGED storeVars
      BY <2>2 DEF ClearWake, WakeUp, PollTimeout, StoreWaitOver, RunJob, AdmitPage, FetchDone,
           AttemptReturns, AttemptCancelled, AttemptRaises, AppendSummary, WaitBackoff,
           ReadFinalRecord, CountResults, FailSummary, LoopFault, StorePageFault, JobFault,
           FailFault, Crash
    <3>. QED BY <2>2, <3>1, WorkerStep
  <2>3. CASE ClaimNone \/ Cleanup \/ Poll
    BY <2>3, SweepStep
  <2>4. CASE Recover \/ Start
    BY <2>4, RecoverStep
  <2>5. CASE ClaimFirst
    BY <2>5, ClaimFirstStep
  <2>6. CASE StorePage \/ \E s \in stray : StrayLands(s)
    BY <2>6, PageStep
  <2>7. CASE NextAttempt
    BY <2>7, NextAttemptStep
  <2>8. CASE FinishJob
    BY <2>8, FinishStep
  <2>9. CASE Time \/ \E j \in JobIds : CreateWakes(j) \/ CancelSignals(j)
    BY <2>9, HandlerStep
  <2>10. CASE \E c \in Claims, p \in Prints : Create(c, p)
    BY <2>10, CreateStep
  <2>11. CASE \E j \in JobIds : Cancel(j)
    BY <2>11, CancelStep
  <2>. QED BY <2>1, <2>2, <2>3, <2>4, <2>5, <2>6, <2>7, <2>8, <2>9, <2>10, <2>11
           DEF Next, Worker, Faults, Callers
<1>. QED BY <1>2, <1>3, <1>4, <1>5 DEF ManagerInv

\* start() on the database an earlier process left.
LEMMA ManagerStart ==
  ASSUME Init
  PROVE  StoreTypeOK /\ ManagerInv
<1>1. StoreTypeOK
  <2>1. NoRow("absent") \in Row
    BY NoRowTyped DEF States, NoRowStates
  <2>. QED BY <2>1 DEF Init, StoreInit, StoreTypeOK
<1>2. \A j \in JobIds : job[j].state = "absent"
  BY DEF Init, StoreInit, NoRow
<1>3. ManagerTypeOK
  <2>1. pc \in PCs /\ reply = None /\ page = None /\ cur = None /\ seen = 0
    BY DEF Init, PCs
  <2>2. retry \in BOOLEAN /\ recover \in BOOLEAN /\ hit \in BOOLEAN /\ wake \in BOOLEAN
    BY DEF Init
  <2>3. fetched \in 0..MaxPages /\ crashes \in 0..MaxCrashes /\ faults \in 0..MaxFaults
    BY ManagerConstants DEF Init
  <2>. QED BY <2>1, <2>2, <2>3 DEF Init, ManagerTypeOK
<1>. QED BY <1>1, <1>2, <1>3 DEF Init, ManagerInv, Owned, Budgeted, Cancelling, Deciding,
            NoLostWake, QueuedCanRun, Holding, HasRow, NoRowStates

\* The service keeps its types and its inductive invariant.
THEOREM ManagerInvariant == Spec => [](StoreTypeOK /\ ManagerInv)
BY ManagerStart, ManagerStep, PTL DEF Spec

\* Every variable of the service keeps its type (see TypeOK); in particular the registered
\* events, the pending handlers and the abandoned calls are those of jobs that exist.
THEOREM ManagerTypeCorrect == Spec => []TypeOK
<1>1. StoreTypeOK /\ ManagerInv => TypeOK
  BY TypeOKParts DEF ManagerInv
<1>. QED BY <1>1, ManagerInvariant, PTL

\* No job is forgotten (see NoJobForgotten): the worker of crawl_jobs.py and its recovery
\* leave no running row without an owner and no queued row behind a lost wake.
THEOREM NobodyForgotten == Spec => []NoJobForgotten
<1>1. ManagerInv => NoJobForgotten
  BY DEF ManagerInv, ManagerTypeOK, Owned, NoJobForgotten, RunningHasOwner
<1>. QED BY <1>1, ManagerInvariant, PTL

\* The attempt budget holds through retries, crashes and recoveries (see AttemptBudget):
\* claim_next and increment_attempt pay for every run of the crawler before it starts.
THEOREM BudgetHolds == Spec => []AttemptBudget
<1>1. ManagerInv => AttemptBudget
  BY DEF ManagerInv, Budgeted, AttemptBudget
<1>. QED BY <1>1, ManagerInvariant, PTL

\* The service drives the store only as StoreSpec allows (see UsesStore): it finishes no
\* queued job and begins no attempt past the budget.
THEOREM ManagerImplementsStore == Spec => UsesStore
<1>1. Init => StoreInit
  BY DEF Init
<1>. QED BY <1>1, ManagerUsesStore, ManagerInvariant, PTL DEF Spec, UsesStore, StoreSpec

\* Each job of the service lives by the abstract lifecycle (see EveryJobLives), whatever
\* crashes, store errors and abandoned calls come in between.
THEOREM ManagerImplementsLifecycle == Spec => EveryJobLives
BY ManagerImplementsStore, StoreImplementsLifecycle DEF UsesStore

\* A committed cancellation wins over every other ending (see CancelWins): finish and
\* recover_interrupted look at the flag inside their own transaction.
THEOREM CancellationWins == Spec => CancelWins
<1>1. ASSUME StoreTypeOK, ManagerInv, [Next]_vars
      PROVE  \A j \in JobIds : job[j].state = "running" /\ job[j].cancel =>
               \/ job'[j].state = "cancelled"
               \/ job'[j].state = "running" /\ job'[j].cancel
  <2>. SUFFICES ASSUME NEW j \in JobIds, job[j].state = "running", job[j].cancel
                PROVE  \/ job'[j].state = "cancelled"
                       \/ job'[j].state = "running" /\ job'[j].cancel
    OBVIOUS
  <2>1. Life!JobStep(j)
    BY <1>1, ManagerUsesStore, LifeSteps DEF ManagerInv
  <2>. QED BY <2>1 DEF Phase, Terminal, Life!JobStep, Life!Accept, Life!Begin, Life!Requeue,
              Life!AskCancel, Life!End, Life!Keep, Life!Forget, Life!Still, Life!Moves,
              Life!SamePhase
<1>. QED BY <1>1, ManagerInvariant, PTL DEF Spec, CancelWins

-----------------------------------------------------------------------------
(* What a job's counters say of its pages.                                 *)

Counted == {"queued", "running"} \cup Terminal

Good(j) == {i \in DOMAIN results[j] : results[j][i].content}
Bad(j)  == DOMAIN results[j] \ Good(j)

\* ExactProgress, for one job.
Exact(j) ==
  /\ job[j].succeeded = Cardinality(Good(j))
  /\ job[j].failed = Cardinality(Bad(j)) + Cardinality(failures[j])
  /\ job[j].processed = job[j].succeeded + job[j].failed

SameCounts(j) == /\ job'[j].processed = job[j].processed
                 /\ job'[j].succeeded = job[j].succeeded
                 /\ job'[j].failed = job[j].failed

\* The transactions that store no page and decide no running job as its worker asks.
QuietStep ==
  \/ UNCHANGED storeVars
  \/ Tick
  \/ \E t \in ClockReadings :
       \/ Sweep(t) \/ RecoverInterrupted(t)
       \/ \E j \in JobIds, c \in Claims, p \in Prints : Claim(j, c, p, t)
       \/ \E j \in JobIds : ClaimNext(j, t) \/ RequestCancel(j, t)
  \/ \E j \in JobIds : IncrementAttempt(j)

\* They leave a job's pages and counters alone, insert an empty one or forget it whole, and
\* complete none.
Quiet(i) ==
  \/ /\ job[i].state \in Terminal \cup {"expired"} /\ job'[i].state \in {"expired", "purged"}
     /\ SamePages(i) \/ (results'[i] = <<>> /\ failures'[i] = {})
  \/ /\ job[i].state = "absent" /\ job'[i].state = "queued" /\ SamePages(i)
     /\ job'[i].processed = 0 /\ job'[i].succeeded = 0 /\ job'[i].failed = 0
  \/ /\ SameCounts(i) /\ SamePages(i)
     /\ job'[i].state \in Counted => job[i].state \in Counted
     /\ job'[i].state = "absent" => job[i].state = "absent"
     /\ job'[i].state = "completed" => job[i].state = "completed"

\* sweep_expired leaves a row and its pages alone or forgets an ended one whole.
LEMMA QuietSweep ==
  ASSUME StoreTypeOK, NEW t \in ClockReadings, SweepContents(t), NEW i \in JobIds,
         job'[i] = JobsAfterSweep(t)[i]
  PROVE  Quiet(i)
<1>1. job'[i] = RowAfterSweep(i, t) /\ job[i] \in Row
  BY SweptOrSame DEF StoreTypeOK
<1>2. CASE Due(i, t) \/ PurgeDue(i, t)
  <2>1. results'[i] = <<>> /\ failures'[i] = {}
    BY <1>2 DEF SweepContents
  <2>2. job'[i].state \in {"expired", "purged"}
    BY <1>1, <1>2 DEF RowAfterSweep, NoRow, Row
  <2>3. job[i].state \in Terminal \cup {"expired"}
    BY <1>2 DEF Due, PurgeDue
  <2>. QED BY <2>1, <2>2, <2>3 DEF Quiet
<1>3. CASE ~(Due(i, t) \/ PurgeDue(i, t))
  <2>1. job'[i] = job[i]
    BY <1>1, <1>3, SweptOrSame
  <2>. QED BY <1>3, <2>1 DEF SweepContents, Quiet, SamePages, SameCounts
<1>. QED BY <1>2, <1>3

\* So does every transaction but those of a running job's pages and its end.
LEMMA QuietRow ==
  ASSUME StoreTypeOK, QuietStep, NEW i \in JobIds
  PROVE  Quiet(i)
<1>0. job[i] \in Row
  BY DEF StoreTypeOK
<1>1. CASE UNCHANGED storeVars \/ Tick
  BY <1>1 DEF storeVars, Tick, Quiet, SamePages, SameCounts
<1>2. ASSUME NEW t \in ClockReadings, Sweep(t) PROVE Quiet(i)
  BY <1>2, QuietSweep DEF Sweep
<1>3. ASSUME NEW t \in ClockReadings, RecoverInterrupted(t) PROVE Quiet(i)
  <2>1. job'[i] = RecoveredRow(job[i], t) /\ SamePages(i)
    BY <1>3 DEF RecoverInterrupted, SamePages
  <2>2. /\ SameCounts(i)
        /\ \/ job'[i].state = job[i].state
           \/ /\ job[i].state = "running"
              /\ job'[i].state \in {"cancelled", "failed", "queued"}
    <3>1. \/ job'[i] = job[i]
          \/ /\ job[i].state = "running"
             /\ \/ job'[i] = Ended(job[i], "cancelled", t)
                \/ job'[i] = Ended(job[i], "failed", t)
                \/ job'[i] = [job[i] EXCEPT !.state = "queued"]
      BY <2>1 DEF RecoveredRow
    <3>. QED BY <1>0, <3>1 DEF Ended, Row, SameCounts
  <2>. QED BY <2>1, <2>2 DEF Quiet, Counted
<1>4. ASSUME NEW t \in ClockReadings, NEW j \in JobIds, NEW c \in Claims, NEW p \in Prints,
             Claim(j, c, p, t)
      PROVE  Quiet(i)
  <2>. DEFINE rows == JobsAfterSweep(t)
              new == [NoRow("queued") EXCEPT !.claim = c, !.print = p, !.created = t]
  <2>1. /\ job' = rows \/ job' = [rows EXCEPT ![j] = new]
        /\ job[j].state = "absent" /\ SweepContents(t)
    BY <1>4 DEF Claim
  <2>2. rows \in [JobIds -> Row]
    BY SweepTyped, ReadingIsPast
  <2>3. /\ new.state = "queued" /\ new.processed = 0 /\ new.succeeded = 0
        /\ new.failed = 0
    BY DEF NoRow
  <2>4. job'[i] = rows[i] \/ (i = j /\ job'[i] = new)
    <3>. HIDE DEF rows, new
    <3>. QED BY <2>1, <2>2
  <2>5. CASE i = j /\ job'[i] = new
    <3>1. SamePages(i)
      BY <2>1, <2>5 DEF SweepContents, SamePages, Due, PurgeDue, Terminal
    <3>. QED BY <2>1, <2>3, <2>5, <3>1 DEF Quiet
  <2>. QED BY <2>1, <2>4, <2>5, QuietSweep
<1>5. ASSUME NEW t \in ClockReadings, NEW j \in JobIds, ClaimNext(j, t) PROVE Quiet(i)
  <2>. DEFINE rows == JobsAfterSweep(t)
  <2>1. rows \in [JobIds -> Row]
    BY SweepTyped, ReadingIsPast
  <2>2. /\ rows[j].state = "queued" /\ SweepContents(t)
        /\ job' = [rows EXCEPT ![j].state = "running", ![j].attempts = @ + 1]
    BY <1>5 DEF ClaimNext, IsNext, Queued
  <2>3. rows[j] = job[j]
    BY <2>2, SweptOrSame
  <2>4. /\ i # j => job'[i] = rows[i]
        /\ i = j => /\ job'[i].state = "running" /\ job'[i].processed = rows[i].processed
                    /\ job'[i].succeeded = rows[i].succeeded /\ job'[i].failed = rows[i].failed
    <3>. HIDE DEF rows
    <3>. QED BY <2>1, <2>2 DEF Row
  <2>5. CASE i = j
    <3>1. SamePages(i)
      BY <2>2, <2>3, <2>5 DEF SweepContents, SamePages, Due, PurgeDue, Terminal
    <3>. QED BY <2>2, <2>3, <2>4, <2>5, <3>1 DEF Quiet, SameCounts, Counted
  <2>. QED BY <2>2, <2>4, <2>5, QuietSweep
<1>6. ASSUME NEW t \in ClockReadings, NEW j \in JobIds, RequestCancel(j, t) PROVE Quiet(i)
  <2>. DEFINE rows == JobsAfterSweep(t)
  <2>1. rows \in [JobIds -> Row]
    BY SweepTyped, ReadingIsPast
  <2>2. /\ job' = CASE rows[j].state = "queued"  -> [rows EXCEPT ![j] = Ended(@, "cancelled", t)]
                    [] rows[j].state = "running" -> [rows EXCEPT ![j].cancel = TRUE]
                    [] OTHER                     -> rows
        /\ SweepContents(t)
    BY <1>6 DEF RequestCancel
  <2>3. rows[j].state \in {"queued", "running"} => rows[j] = job[j]
    BY SweptOrSame
  <2>4. /\ (i # j \/ rows[j].state \notin {"queued", "running"}) => job'[i] = rows[i]
        /\ i = j /\ rows[j].state \in {"queued", "running"} =>
             /\ job'[i].state \in {"cancelled", "running"}
             /\ job'[i].processed = rows[i].processed
             /\ job'[i].succeeded = rows[i].succeeded /\ job'[i].failed = rows[i].failed
    <3>. HIDE DEF rows
    <3>. QED BY <2>1, <2>2 DEF Row, Ended
  <2>5. CASE i = j /\ rows[j].state \in {"queued", "running"}
    <3>1. SamePages(i)
      BY <2>2, <2>3, <2>5 DEF SweepContents, SamePages, Due, PurgeDue, Terminal
    <3>. QED BY <2>3, <2>4, <2>5, <3>1 DEF Quiet, SameCounts, Counted
  <2>. QED BY <2>2, <2>4, <2>5, QuietSweep
<1>7. ASSUME NEW j \in JobIds, IncrementAttempt(j) PROVE Quiet(i)
  <2>1. \/ job'[i] = job[i]
        \/ \E n : job'[i] = [job[i] EXCEPT !.attempts = n]
    BY <1>7 DEF IncrementAttempt, StoreTypeOK
  <2>2. SamePages(i)
    BY <1>7 DEF IncrementAttempt, SamePages
  <2>3. SameCounts(i) /\ job'[i].state = job[i].state
    BY <1>0, <2>1 DEF SameCounts, Row
  <2>. QED BY <2>2, <2>3 DEF Quiet
<1>. QED BY <1>1, <1>2, <1>3, <1>4, <1>5, <1>6, <1>7 DEF QuietStep

\* Storing a page in a running job counts it exactly: a page that failed before under one of
\* its keys is taken back, once for each key.
LEMMA StoredExact ==
  ASSUME StoreTypeOK, NEW j \in JobIds, NEW p \in Pages, StorePageOf(j, p),
         job[j].state = "running", Exact(j), IsFiniteSet(failures[j])
  PROVE  Exact(j)'
<1>1. /\ job[j] \in Row /\ results[j] \in Seq(ResultRow)
      /\ job[j].processed \in Nat /\ job[j].succeeded \in Nat /\ job[j].failed \in Nat
  BY DEF StoreTypeOK, Row
<1>2. /\ IsFiniteSet(Good(j)) /\ IsFiniteSet(Bad(j))
      /\ Cardinality(Good(j)) \in Nat /\ Cardinality(Bad(j)) \in Nat
      /\ Cardinality(failures[j]) \in Nat
  <2>1. DOMAIN results[j] = 1..Len(results[j]) /\ Len(results[j]) \in Nat
    BY <1>1
  <2>2. IsFiniteSet(DOMAIN results[j])
    <3>1. IsFiniteSet(1..Len(results[j]))
      BY ONLY <2>1, FS_Interval, SMT
    <3>. QED BY <2>1, <3>1, Zenon
  <2>3. Good(j) \subseteq DOMAIN results[j] /\ Bad(j) \subseteq DOMAIN results[j]
    BY DEF Good, Bad
  <2>. QED BY <2>2, <2>3, FS_Subset, FS_CardinalityType
<1>3. CASE p.kind = "result"
  <2>. DEFINE r == p.row
              keys == {p.row.key} \cup {p.asked}
              prior == Prior(j, keys)
              new == [job[j] EXCEPT !.processed = MaxZero(@ - prior + 1),
                                    !.succeeded = IF r.content THEN @ + 1 ELSE @,
                                    !.failed = MaxZero(@ - prior + IF r.content THEN 0 ELSE 1)]
              n == Len(results[j]) + 1
  <2>0. r \in ResultRow /\ r.content \in BOOLEAN
    BY <1>3 DEF Pages, ResultPages, FailurePages, ResultRow
  <2>1. \/ UNCHANGED <<job, results, failures>>
        \/ /\ results' = [results EXCEPT ![j] = Append(results[j], r)]
           /\ failures' = [failures EXCEPT ![j] = failures[j] \ keys]
           /\ job' = [job EXCEPT ![j] = new]
    BY <1>3 DEF StorePageOf, AppendResult, HasRow, NoRowStates
  <2>2. CASE UNCHANGED <<job, results, failures>>
    BY <2>2 DEF Exact, Good, Bad
  <2>3. CASE /\ results' = [results EXCEPT ![j] = Append(results[j], r)]
             /\ failures' = [failures EXCEPT ![j] = failures[j] \ keys]
             /\ job' = [job EXCEPT ![j] = new]
    <3>1. /\ results'[j] = Append(results[j], r) /\ failures'[j] = failures[j] \ keys
          /\ job'[j] = new
      <4>. HIDE DEF new, keys, r
      <4>. QED BY <2>3 DEF StoreTypeOK
    <3>2. /\ prior \in Nat /\ prior <= Cardinality(failures[j])
          /\ Cardinality(failures'[j]) = Cardinality(failures[j]) - prior
      <4>1. Cardinality(failures[j] \ keys) = Cardinality(failures[j]) - prior
        BY FS_Difference DEF Prior
      <4>2. failures[j] \cap keys \subseteq failures[j]
        OBVIOUS
      <4>3. prior \in Nat /\ prior <= Cardinality(failures[j])
        BY <4>2, FS_Subset, FS_CardinalityType DEF Prior
      <4>. QED BY <3>1, <4>1, <4>3
    <3>3. /\ new.processed = MaxZero(job[j].processed - prior + 1)
          /\ new.succeeded = (IF r.content THEN job[j].succeeded + 1 ELSE job[j].succeeded)
          /\ new.failed = MaxZero(job[j].failed - prior + IF r.content THEN 0 ELSE 1)
      <4>. HIDE DEF prior, r
      <4>. QED BY <1>1 DEF Row
    <3>4. /\ job[j].failed - prior \in Nat
          /\ job[j].processed - prior + 1 \in Nat
          /\ MaxZero(job[j].failed - prior) = job[j].failed - prior
          /\ MaxZero(job[j].failed - prior + 1) = job[j].failed - prior + 1
          /\ MaxZero(job[j].processed - prior + 1) = job[j].processed - prior + 1
      <4>. HIDE DEF prior
      <4>1. job[j].failed >= prior /\ job[j].processed >= prior
        BY <1>1, <1>2, <3>2 DEF Exact
      <4>2. job[j].failed \in Nat /\ job[j].processed \in Nat
        BY <1>1
      <4>. QED BY <3>2, <4>1, <4>2 DEF MaxZero
    <3>5. /\ DOMAIN results'[j] = DOMAIN results[j] \cup {n} /\ n \notin DOMAIN results[j]
          /\ \A i \in DOMAIN results[j] : results'[j][i] = results[j][i]
          /\ results'[j][n] = r
      <4>. HIDE DEF r
      <4>. QED BY <1>1, <2>0, <3>1
    <3>6. CASE r.content
      <4>1. Good(j)' = Good(j) \cup {n} /\ Bad(j)' = Bad(j) /\ n \notin Good(j)
        <5>. HIDE DEF r, n
        <5>. QED BY <3>5, <3>6 DEF Good, Bad
      <4>2. Cardinality(Good(j)') = Cardinality(Good(j)) + 1
        <5>. HIDE DEF n
        <5>. QED BY <1>2, <4>1, FS_AddElement
      <4>. HIDE DEF new, prior, r, keys
      <4>3. /\ job'[j].succeeded = job[j].succeeded + 1
            /\ job'[j].failed = job[j].failed - prior
            /\ job'[j].processed = job[j].processed - prior + 1
        BY <1>1, <3>1, <3>2, <3>3, <3>4, <3>6
      <4>4. /\ job'[j].succeeded = Cardinality(Good(j)')
            /\ job'[j].failed = Cardinality(Bad(j)') + Cardinality(failures'[j])
        BY <1>1, <1>2, <3>2, <4>1, <4>2, <4>3 DEF Exact
      <4>5. job'[j].processed = job'[j].succeeded + job'[j].failed
        BY <1>1, <3>2, <4>3 DEF Exact
      <4>. QED BY <4>4, <4>5 DEF Exact
    <3>7. CASE ~r.content
      <4>1. Good(j)' = Good(j) /\ Bad(j)' = Bad(j) \cup {n} /\ n \notin Bad(j)
        <5>. HIDE DEF r, n
        <5>. QED BY <3>5, <3>7 DEF Good, Bad
      <4>2. Cardinality(Bad(j)') = Cardinality(Bad(j)) + 1
        <5>. HIDE DEF n
        <5>. QED BY <1>2, <4>1, FS_AddElement
      <4>. HIDE DEF new, prior, r, keys
      <4>3. /\ job'[j].succeeded = job[j].succeeded
            /\ job'[j].failed = job[j].failed - prior + 1
            /\ job'[j].processed = job[j].processed - prior + 1
        BY <1>1, <3>1, <3>2, <3>3, <3>4, <3>7
      <4>4. /\ job'[j].succeeded = Cardinality(Good(j)')
            /\ job'[j].failed = Cardinality(Bad(j)') + Cardinality(failures'[j])
        BY <1>1, <1>2, <3>2, <4>1, <4>2, <4>3 DEF Exact
      <4>5. job'[j].processed = job'[j].succeeded + job'[j].failed
        BY <1>1, <3>2, <4>3 DEF Exact
      <4>. QED BY <4>4, <4>5 DEF Exact
    <3>. QED BY <2>0, <3>6, <3>7
  <2>. QED BY <2>1, <2>2, <2>3
<1>4. CASE p.kind # "result"
  <2>. DEFINE k == p.asked
  <2>1. \/ UNCHANGED <<job, results, failures>>
        \/ /\ results' = results /\ k \notin failures[j]
           /\ failures' = [failures EXCEPT ![j] = failures[j] \cup {k}]
           /\ job' = [job EXCEPT ![j].processed = @ + 1, ![j].failed = @ + 1]
    BY <1>4 DEF StorePageOf, AppendFailure
  <2>2. CASE UNCHANGED <<job, results, failures>>
    BY <2>2 DEF Exact, Good, Bad
  <2>3. CASE /\ results' = results /\ k \notin failures[j]
             /\ failures' = [failures EXCEPT ![j] = failures[j] \cup {k}]
             /\ job' = [job EXCEPT ![j].processed = @ + 1, ![j].failed = @ + 1]
    <3>1. /\ Good(j)' = Good(j) /\ Bad(j)' = Bad(j) /\ failures'[j] = failures[j] \cup {k}
      BY <2>3 DEF Good, Bad, StoreTypeOK
    <3>2. Cardinality(failures'[j]) = Cardinality(failures[j]) + 1
      <4>1. IsFiniteSet(failures[j]) /\ k \notin failures[j]
        BY <2>3
      <4>. HIDE DEF k
      <4>2. Cardinality(failures[j] \cup {k}) = Cardinality(failures[j]) + 1
        BY <4>1, FS_AddElement, ZenonT(30)
      <4>. QED BY <3>1, <4>2
    <3>3. /\ job'[j].processed = job[j].processed + 1 /\ job'[j].failed = job[j].failed + 1
          /\ job'[j].succeeded = job[j].succeeded
      BY <2>3 DEF StoreTypeOK, Row
    <3>. QED BY <1>1, <1>2, <3>1, <3>2, <3>3 DEF Exact
  <2>. QED BY <2>1, <2>2, <2>3
<1>. QED BY <1>3, <1>4

\* HonestAccounts and HonestCompletion with what they rest on: no page is stored for a job
\* that was never created, and a response is believed only while no failure is counted.
Accounts ==
  /\ \A j \in JobIds : IsFiniteSet(failures[j])
  /\ \A j \in JobIds : job[j].state = "absent" => results[j] = <<>> /\ failures[j] = {}
  /\ \A j \in JobIds : job[j].state \in Counted /\ j \notin late => Exact(j)
  /\ pc \in {"count", "finish"} /\ reply = "completed" /\ cur \notin late =>
       job[cur].failed = 0
  /\ HonestCompletion

\* Only the worker ends a running job as it likes, and only it and the threads it abandoned
\* store pages.
LEMMA ManagerQuiet ==
  ASSUME ManagerInv, [Next]_vars
  PROVE  \/ QuietStep /\ UNCHANGED late
         \/ StorePage \/ FinishJob \/ \E s \in stray : StrayLands(s)
<1>1. CASE UNCHANGED vars
  BY <1>1 DEF vars, envVars, QuietStep
<1>2. CASE Recover \/ Start \/ ClaimFirst \/ Cleanup \/ Poll
  BY <1>2 DEF Recover, Start, ClaimFirst, Cleanup, Poll, QuietStep, envVars
<1>3. CASE ClaimNone
  BY <1>3 DEF ClaimNone, ClaimNothing, QuietStep, envVars
<1>4. CASE \/ ClearWake \/ WakeUp \/ PollTimeout \/ StoreWaitOver \/ RunJob \/ AdmitPage
           \/ FetchDone \/ AttemptReturns \/ AttemptCancelled \/ AttemptRaises
           \/ AppendSummary \/ WaitBackoff \/ ReadFinalRecord \/ CountResults \/ FailSummary
           \/ LoopFault \/ StorePageFault \/ JobFault \/ FailFault \/ Crash
           \/ \E j \in JobIds : CreateWakes(j) \/ CancelSignals(j)
  <2>1. UNCHANGED <<storeVars, late>>
    BY <1>4 DEF ClearWake, WakeUp, PollTimeout, StoreWaitOver, RunJob, AdmitPage, FetchDone,
         AttemptReturns, AttemptCancelled, AttemptRaises, AppendSummary, WaitBackoff,
         ReadFinalRecord, CountResults, FailSummary, LoopFault, StorePageFault, JobFault,
         FailFault, Crash, CreateWakes, CancelSignals, envVars
  <2>. QED BY <2>1 DEF QuietStep
<1>5. CASE NextAttempt
  <2>1. cur \in JobIds
    BY <1>5 DEF NextAttempt, ManagerInv, Owned, Holding
  <2>. QED BY <1>5, <2>1 DEF NextAttempt, QuietStep, envVars
<1>6. ASSUME NEW c \in Claims, NEW p \in Prints, Create(c, p)
      PROVE  QuietStep /\ UNCHANGED late
  BY <1>6 DEF Create, QuietStep, envVars
<1>7. ASSUME NEW j \in JobIds, Cancel(j)
      PROVE  QuietStep /\ UNCHANGED late
  BY <1>7 DEF Cancel, QuietStep, envVars
<1>8. CASE Time
  BY <1>8 DEF Time, QuietStep, envVars
<1>. QED BY <1>1, <1>2, <1>3, <1>4, <1>5, <1>6, <1>7, <1>8 DEF Next, Worker, Faults, Callers

\* The parts of Accounts that are about one job, after a step that leaves the job quiet.
LEMMA QuietAccounts ==
  ASSUME StoreTypeOK, Accounts, late \subseteq late', NEW j \in JobIds, Quiet(j)
  PROVE  /\ IsFiniteSet(failures'[j])
         /\ job'[j].state = "absent" => results'[j] = <<>> /\ failures'[j] = {}
         /\ job'[j].state \in Counted /\ j \notin late' => Exact(j)'
         /\ job'[j].state = "completed" /\ j \notin late' =>
              failures'[j] = {} /\ \A i \in DOMAIN results'[j] : results'[j][i].content
<1>1. IsFiniteSet({}) /\ Cardinality({}) = 0
  BY FS_EmptySet
<1>2. IsFiniteSet(failures'[j])
  BY <1>1 DEF Accounts, Quiet, SamePages
<1>3. job'[j].state = "absent" => results'[j] = <<>> /\ failures'[j] = {}
  BY DEF Accounts, Quiet, SamePages
<1>4. ASSUME job'[j].state \in Counted, j \notin late'
      PROVE  Exact(j)'
  <2>1. CASE job[j].state = "absent" /\ job'[j].state = "queued" /\ SamePages(j)
             /\ job'[j].processed = 0 /\ job'[j].succeeded = 0 /\ job'[j].failed = 0
    <3>1. results'[j] = <<>> /\ failures'[j] = {}
      BY <2>1 DEF Accounts, SamePages
    <3>2. Good(j)' = {} /\ Bad(j)' = {}
      BY <3>1 DEF Good, Bad
    <3>. QED BY <1>1, <2>1, <3>1, <3>2 DEF Exact
  <2>2. CASE SameCounts(j) /\ SamePages(j) /\ job[j].state \in Counted
    <3>1. Exact(j)
      BY <1>4, <2>2 DEF Accounts
    <3>. QED BY <2>2, <3>1 DEF Exact, Good, Bad, SameCounts, SamePages
  <2>. QED BY <1>4, <2>1, <2>2 DEF Quiet, Counted, Terminal
<1>5. ASSUME job'[j].state = "completed", j \notin late'
      PROVE  failures'[j] = {} /\ \A i \in DOMAIN results'[j] : results'[j][i].content
  BY <1>5 DEF Accounts, Quiet, SamePages, HonestCompletion
<1>. QED BY <1>2, <1>3, <1>4, <1>5

\* A page is stored for one job only, and for none without a row.
LEMMA StoredElsewhere ==
  ASSUME StoreTypeOK, NEW j \in JobIds, NEW p \in Pages, StorePageOf(j, p), NEW i \in JobIds
  PROVE  /\ i # j \/ ~HasRow(j) => Quiet(i) /\ job'[i] = job[i]
         /\ IsFiniteSet(failures[j]) => IsFiniteSet(failures'[j])
<1>. DEFINE kept == job' = job /\ results' = results /\ failures' = failures
            new == [job[j] EXCEPT !.processed = MaxZero(@ - Prior(j, {p.row.key} \cup {p.asked}) + 1),
                                  !.succeeded = IF p.row.content THEN @ + 1 ELSE @,
                                  !.failed = MaxZero(@ - Prior(j, {p.row.key} \cup {p.asked})
                                                     + IF p.row.content THEN 0 ELSE 1)]
<1>1. CASE p.kind = "result"
  <2>1. /\ ~HasRow(j) => kept
        /\ \/ kept
           \/ /\ \E r : results' = [results EXCEPT ![j] = r]
              /\ failures' = [failures EXCEPT ![j] = failures[j] \ ({p.row.key} \cup {p.asked})]
              /\ job' = job \/ job' = [job EXCEPT ![j] = new]
    BY <1>1 DEF StorePageOf, AppendResult
  <2>2. /\ i # j \/ ~HasRow(j) => job'[i] = job[i] /\ SamePages(i)
        /\ failures'[j] \subseteq failures[j]
    <3>. HIDE DEF new
    <3>. QED BY <2>1 DEF StoreTypeOK, SamePages
  <2>. QED BY <2>2, FS_Subset DEF Quiet, SameCounts
<1>2. CASE p.kind # "result"
  <2>1. /\ ~HasRow(j) => kept
        /\ \/ kept
           \/ /\ results' = results
              /\ failures' = [failures EXCEPT ![j] = failures[j] \cup {p.asked}]
              /\ job' = job \/ \E row : job' = [job EXCEPT ![j] = row]
    BY <1>2 DEF StorePageOf, AppendFailure, StoreTypeOK
  <2>2. /\ i # j \/ ~HasRow(j) => job'[i] = job[i] /\ SamePages(i)
        /\ failures'[j] = failures[j] \/ failures'[j] = failures[j] \cup {p.asked}
    BY <2>1 DEF StoreTypeOK, SamePages
  <2>3. IsFiniteSet(failures[j]) => IsFiniteSet(failures'[j])
    BY <2>2, FS_AddElement
  <2>. QED BY <2>2, <2>3 DEF Quiet, SameCounts
<1>. QED BY <1>1, <1>2

\* Ending the held job changes no counter and no page, and a job that ends "completed" was
\* believed at its last reading.
LEMMA FinishAccounts ==
  ASSUME StoreTypeOK, ManagerInv, FinishJob, NEW i \in JobIds
  PROVE  \/ Quiet(i)
         \/ /\ i = cur /\ job[i].state = "running" /\ SameCounts(i) /\ SamePages(i)
            /\ job'[i].state \in Terminal
            /\ job'[i].state = "completed" => pc = "finish" /\ reply = "completed"
<1>1. cur \in JobIds /\ job[cur].state = "running"
  BY DEF FinishJob, ManagerInv, Owned, Holding
<1>2. PICK v \in Terminal, t \in ClockReadings :
        Finish(cur, v, t) /\ (v = "completed" => pc = "finish" /\ reply = "completed")
  BY DEF FinishJob, ManagerInv, Deciding, Terminal, Verdicts
<1>3. /\ job'[cur].state = (IF job[cur].cancel THEN "cancelled" ELSE v)
      /\ i # cur => job'[i] = job[i]
  BY <1>1, <1>2, FinishRow
<1>4. SamePages(i)
  BY <1>2 DEF Finish, SamePages
<1>5. i = cur => SameCounts(i)
  <2>. DEFINE w == IF job[cur].cancel THEN "cancelled" ELSE v
  <2>1. job'[cur] = Ended(job[cur], w, t) /\ job[cur] \in Row
    BY <1>1, <1>2 DEF Finish, StoreTypeOK
  <2>2. job'[cur] = [job[cur] EXCEPT !.state = w, !.deadline = t + RetentionS, !.cancel = FALSE]
    BY <2>1 DEF Ended
  <2>3. SameCounts(cur)
    <3>. HIDE DEF w
    <3>. QED BY <2>1, <2>2 DEF SameCounts, Row
  <2>. QED BY <2>3
<1>6. CASE i # cur
  BY <1>3, <1>4, <1>6 DEF Quiet, SameCounts
<1>7. CASE i = cur
  BY <1>1, <1>2, <1>3, <1>4, <1>5, <1>7 DEF Terminal
<1>. QED BY <1>6, <1>7

\* A job that counts no failure has none.
LEMMA NoneFailed ==
  ASSUME StoreTypeOK, NEW j \in JobIds, Exact(j), IsFiniteSet(failures[j]), job[j].failed = 0
  PROVE  failures[j] = {} /\ \A i \in DOMAIN results[j] : results[j][i].content
<1>1. IsFiniteSet(Bad(j))
  <2>1. DOMAIN results[j] = 1..Len(results[j]) /\ Len(results[j]) \in Nat
    BY DEF StoreTypeOK
  <2>2. IsFiniteSet(DOMAIN results[j])
    BY <2>1, FS_Interval
  <2>. QED BY <2>2, FS_Subset DEF Bad
<1>2. Cardinality(Bad(j)) \in Nat /\ Cardinality(failures[j]) \in Nat
  BY <1>1, FS_CardinalityType
<1>3. Cardinality(Bad(j)) = 0 /\ Cardinality(failures[j]) = 0
  BY <1>2 DEF Exact
<1>4. Bad(j) = {} /\ failures[j] = {}
  BY <1>1, <1>3, FS_EmptySet
<1>. QED BY <1>4 DEF Bad, Good

\* Between the last reading of the row and the end of the job only a late write counts.
LEMMA SettlingStep ==
  ASSUME StoreTypeOK, ManagerInv, Accounts, [Next]_vars
  PROVE  (pc \in {"count", "finish"} /\ reply = "completed" /\ cur \notin late =>
            job[cur].failed = 0)'
<1>. USE DEF Accounts, Goto
<1>. SUFFICES ASSUME pc' \in {"count", "finish"}, reply' = "completed", cur' \notin late'
              PROVE  job'[cur'].failed = 0
  OBVIOUS
<1>1. CASE \/ Worker \/ Faults \/ Crash \/ Start
  <2>1. CASE ReadFinalRecord
    BY <2>1 DEF ReadFinalRecord, Release, FinalState, storeVars
  <2>2. CASE CountResults
    BY <2>2 DEF CountResults, storeVars, envVars
  <2>3. CASE AttemptReturns \/ AppendSummary
    BY <2>3 DEF AttemptReturns, AppendSummary, AfterAttempt
  <2>4. ASSUME ~ReadFinalRecord, ~CountResults, ~AttemptReturns, ~AppendSummary
        PROVE  FALSE
    BY <1>1, <2>4
       DEF Worker, Faults, Recover, ClaimFirst, ClaimNone, ClearWake, WakeUp, PollTimeout,
           Cleanup, StoreWaitOver, LoopTop, RunJob, BeginAttempt, AdmitPage, FetchDone,
           StorePage, AttemptCancelled, AttemptRaises, WaitBackoff, NextAttempt, FinishJob,
           Release, FailSummary, LoopFault, StorePageFault, JobFault, FailFault, Crash, Start
  <2>. QED BY <2>1, <2>2, <2>3, <2>4
<1>2. ASSUME UNCHANGED workerVars, UNCHANGED late, QuietStep
      PROVE  job'[cur'].failed = 0
  <2>1. cur \in JobIds /\ job[cur].state = "running" /\ cur' = cur
    BY <1>2 DEF ManagerInv, Owned, Holding, workerVars
  <2>2. Quiet(cur)
    BY <1>2, <2>1, QuietRow
  <2>. QED BY <1>2, <2>1, <2>2 DEF Quiet, SameCounts, workerVars, Terminal
<1>3. CASE Callers \/ Time
  <2>1. UNCHANGED workerVars
    BY <1>3 DEF Callers, Poll, Create, CreateWakes, Cancel, CancelSignals, Time
  <2>2. QuietStep /\ UNCHANGED late
    BY <1>3 DEF Callers, Poll, Create, CreateWakes, Cancel, CancelSignals, Time, QuietStep,
                envVars
  <2>. QED BY <1>2, <2>1, <2>2
<1>4. ASSUME NEW s \in stray, StrayLands(s)
      PROVE  job'[cur'].failed = 0
  <2>1. s.target \in JobIds /\ s.page \in Pages
    BY DEF ManagerInv, ManagerTypeOK
  <2>2. cur \in JobIds /\ cur' = cur /\ pc' = pc /\ reply' = reply
    BY <1>4 DEF StrayLands, workerVars, ManagerInv, Owned, Holding
  <2>3. CASE UNCHANGED <<storeVars, late>>
    BY <2>2, <2>3 DEF storeVars
  <2>4. CASE StorePageOf(s.target, s.page)
             /\ late' = IF job[s.target].state # "running" \/ pc \in {"count", "finish"}
                        THEN late \cup {s.target} ELSE late
    <3>1. cur # s.target /\ cur \notin late
      BY <2>2, <2>4
    <3>2. job'[cur] = job[cur]
      BY <2>1, <2>2, <2>4, <3>1, StoredElsewhere
    <3>. QED BY <2>2, <3>1, <3>2
  <2>. QED BY <1>4, <2>3, <2>4 DEF StrayLands
<1>5. CASE UNCHANGED vars
  BY <1>5 DEF vars, storeVars, workerVars, envVars
<1>. QED BY <1>1, <1>3, <1>4, <1>5 DEF Next

\* The parts of Accounts that are about one job, for a job whose page is stored.
LEMMA StoredAccounts ==
  ASSUME StoreTypeOK, Accounts, late \subseteq late', NEW j \in JobIds, NEW p \in Pages,
         StorePageOf(j, p), job[j].state = "running" \/ j \in late'
  PROVE  /\ IsFiniteSet(failures'[j])
         /\ job'[j].state = "absent" => results'[j] = <<>> /\ failures'[j] = {}
         /\ job'[j].state \in Counted /\ j \notin late' => Exact(j)'
         /\ job'[j].state = "completed" /\ j \notin late' =>
              failures'[j] = {} /\ \A i \in DOMAIN results'[j] : results'[j][i].content
<1>1. job'[j].state = job[j].state
  BY StoredRow DEF SameLife
<1>2. IsFiniteSet(failures'[j])
  BY StoredElsewhere DEF Accounts
<1>3. job'[j].state = "absent" => results'[j] = <<>> /\ failures'[j] = {}
  <2>1. job[j].state = "absent" => Quiet(j)
    BY StoredElsewhere DEF HasRow, NoRowStates
  <2>. QED BY <1>1, <2>1, QuietAccounts
<1>4. job'[j].state \in Counted /\ j \notin late' => Exact(j)'
  <2>1. j \notin late' => Exact(j)
    BY DEF Accounts, Counted
  <2>. QED BY <2>1, StoredExact DEF Accounts
<1>. QED BY <1>1, <1>2, <1>3, <1>4

\* Every step of the service keeps the accounts honest.
LEMMA AccountsStep ==
  ASSUME StoreTypeOK, ManagerInv, Accounts, [Next]_vars
  PROVE  Accounts'
<1>. DEFINE Mine(j) ==
        /\ IsFiniteSet(failures'[j])
        /\ job'[j].state = "absent" => results'[j] = <<>> /\ failures'[j] = {}
        /\ job'[j].state \in Counted /\ j \notin late' => Exact(j)'
        /\ job'[j].state = "completed" /\ j \notin late' =>
             failures'[j] = {} /\ \A i \in DOMAIN results'[j] : results'[j][i].content
<1>1. ASSUME NEW j \in JobIds
      PROVE  Mine(j)
  <2>1. CASE QuietStep /\ UNCHANGED late
    BY <2>1, QuietRow, QuietAccounts
  <2>2. CASE StorePage
    <3>1. /\ cur \in JobIds /\ page \in Pages /\ job[cur].state = "running"
          /\ StorePageOf(cur, page) /\ late' = late
      BY <2>2 DEF StorePage, ManagerInv, Owned, Deciding, Holding, envVars
    <3>2. CASE j = cur
      BY <3>1, <3>2, StoredAccounts
    <3>3. CASE j # cur
      BY <3>1, <3>3, StoredElsewhere, QuietAccounts
    <3>. QED BY <3>2, <3>3
  <2>3. CASE FinishJob
    <3>1. late' = late
      BY <2>3 DEF FinishJob, envVars
    <3>2. CASE Quiet(j)
      BY <3>1, <3>2, QuietAccounts
    <3>3. CASE /\ j = cur /\ job[j].state = "running" /\ SameCounts(j) /\ SamePages(j)
               /\ job'[j].state \in Terminal
               /\ job'[j].state = "completed" => pc = "finish" /\ reply = "completed"
      <4>1. j \notin late => Exact(j)
        BY <3>3 DEF Accounts, Counted
      <4>2. j \notin late => Exact(j)'
        BY <3>3, <4>1 DEF Exact, Good, Bad, SameCounts, SamePages
      <4>3. IsFiniteSet(failures[j]) /\ IsFiniteSet(failures'[j])
        BY <3>3 DEF Accounts, SamePages
      <4>4. ASSUME job'[j].state = "completed", j \notin late'
            PROVE  failures'[j] = {} /\ \A i \in DOMAIN results'[j] : results'[j][i].content
        <5>1. job[j].failed = 0
          BY <3>1, <3>3, <4>4 DEF Accounts
        <5>2. failures[j] = {} /\ \A i \in DOMAIN results[j] : results[j][i].content
          BY <3>1, <4>1, <4>3, <4>4, <5>1, NoneFailed
        <5>. QED BY <3>3, <5>2 DEF SamePages
      <4>. QED BY <3>1, <3>3, <4>2, <4>3, <4>4 DEF Terminal
    <3>. QED BY <2>3, <3>2, <3>3, FinishAccounts
  <2>4. ASSUME NEW s \in stray, StrayLands(s)
        PROVE  Mine(j)
    <3>1. s.target \in JobIds /\ s.page \in Pages
      BY DEF ManagerInv, ManagerTypeOK
    <3>2. CASE UNCHANGED <<storeVars, late>>
      <4>1. QuietStep /\ late' = late
        BY <3>2 DEF QuietStep
      <4>. QED BY <4>1, QuietRow, QuietAccounts
    <3>3. CASE StorePageOf(s.target, s.page)
               /\ late' = IF job[s.target].state # "running" \/ pc \in {"count", "finish"}
                          THEN late \cup {s.target} ELSE late
      <4>1. late \subseteq late' /\ (job[s.target].state = "running" \/ s.target \in late')
        BY <3>3
      <4>2. CASE j = s.target
        BY <3>1, <3>3, <4>1, <4>2, StoredAccounts
      <4>3. CASE j # s.target
        BY <3>1, <3>3, <4>1, <4>3, StoredElsewhere, QuietAccounts
      <4>. QED BY <4>2, <4>3
    <3>. QED BY <2>4, <3>2, <3>3 DEF StrayLands
  <2>. QED BY <2>1, <2>2, <2>3, <2>4, ManagerQuiet
<1>2. (pc \in {"count", "finish"} /\ reply = "completed" /\ cur \notin late =>
         job[cur].failed = 0)'
  BY SettlingStep
<1>. QED BY <1>1, <1>2 DEF Accounts, HonestCompletion

\* A process starts with no account of its own.
LEMMA AccountsStart ==
  ASSUME Init
  PROVE  Accounts
BY FS_EmptySet DEF Init, StoreInit, NoRow, Accounts, HonestCompletion, Counted, Terminal

\* A job is "completed" only if every page of it succeeded (see HonestCompletion), although
\* _final_result reads the row, counts the results and ends the job in three transactions.
THEOREM CompletionIsHonest == Spec => []HonestCompletion
<1>1. Accounts => HonestCompletion
  BY DEF Accounts
<1>. QED BY <1>1, ManagerInvariant, AccountsStart, AccountsStep, PTL DEF Spec

\* The counters of a job, its attempts and its verdict say what happened (see HonestAccounts):
\* across retries, restarts and redirects each stored page is counted once by _append_result
\* and _append_failure, except for what an abandoned call writes to a job that is not running.
THEOREM AccountsAreHonest == Spec => []HonestAccounts
<1>1. ManagerInv /\ Accounts => ExactProgress /\ AttemptBudget
  BY DEF ManagerInv, Budgeted, Accounts, ExactProgress, AttemptBudget, Exact, Good, Bad, Counted
<1>2. ManagerInv /\ Accounts => HonestAccounts
  BY <1>1 DEF HonestAccounts, Accounts
<1>. QED BY <1>2, ManagerInvariant, AccountsStart, AccountsStep, PTL DEF Spec
=============================================================================
