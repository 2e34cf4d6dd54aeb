----------------------------- MODULE ResultPages -----------------------------
(***************************************************************************)
(* GET /v1/crawl/jobs/{id}/results: one client pages through the results   *)
(* of one job while anybody else runs any transaction of the store.        *)
(*                                                                         *)
(* _result_page runs several SELECTs on one connection, but Python's       *)
(* sqlite3 opens a transaction only before a statement that writes: when   *)
(* the sweep finds nothing to write, the row, the COUNT and the page are   *)
(* each read from a snapshot of their own.                                 *)
(***************************************************************************)
EXTENDS CrawlJobStore

CONSTANTS
  Watched,   \* the job the client pages through
  MaxItems   \* max_items of a request

ASSUME ReaderConstants == Watched \in JobIds /\ MaxItems \in Nat \ {0}

VARIABLES
  step,     \* the SELECT the request is about to run, or "idle"
  view,     \* record.state, as read
  count,    \* record.results_available, as read
  cursor,   \* `after` of the client's next request
  got,      \* the results the client has received
  answer,   \* how the last request was answered
  ever,     \* history: every result the job stored before retention removed them
  atEnd,    \* history: how many of them were there when the job ended
  regrown   \* history: a result was written to the row after its expiry

requestVars == <<step, view, count>>
clientVars == <<cursor, got, answer>>
historyVars == <<ever, atEnd, regrown>>
pageVars == <<storeVars, requestVars, clientVars, historyVars>>

Final == {"complete", "expired", "missing", "invalid"}

\* Retention has removed the results.
Removed == job[Watched].state \in {"expired", "purged"}

\* An append abandoned by the process lands whatever the state of the row is by then, and
\* on an expired row it starts again from ordinal 1.
Remember ==
  /\ ever' = IF Removed' THEN ever ELSE results'[Watched]
  /\ atEnd' = IF job'[Watched].state \in {"queued", "running"} THEN Len(results'[Watched]) ELSE atEnd
  /\ regrown' = (regrown \/ (Removed' /\ results'[Watched] # <<>>))

-----------------------------------------------------------------------------
(* The request.                                                            *)

\* Mutant of PageAfter: the cursor's own row is sent again.
PageFrom(rows, after, n) ==
  IF after = 0 THEN SubSeq(rows, 1, n) ELSE SubSeq(rows, after, after + n - 1)

\* _build_result_page: n rows with ordinal > after.
PageAfter(rows, after, n) == SubSeq(rows, after + 1, after + n)

\* max_items bounds a page, and the byte limit may end it after any row but the first.
PageSizes(rows, after) ==
  IF after >= Len(rows) THEN {0} ELSE {n \in 1..MaxItems : after + n <= Len(rows)}

\* Mutant of IsComplete: nothing left to send is taken for the end.
IsCompleteIfIdle(state, n, last, more) == ~more /\ last >= n

IsComplete(state, n, last, more) == state \in Terminal /\ ~more /\ last >= n

\* The client keeps its place unless the page moves it on.
Refuse(why) == answer' = why /\ UNCHANGED <<cursor, got>>

Deliver(state, total, rows) ==
  \E n \in PageSizes(rows, cursor) :
    LET last == cursor + n
        more == last < Len(rows)
    IN /\ got' = got \o PageAfter(rows, cursor, n)
       /\ cursor' = last
       /\ answer' = IF IsComplete(state, total, last, more) THEN "complete" ELSE "page"

\* A first row above the request's byte limit is an error before the cursor is looked at.
Serve(state, total, rows) ==
  /\ step' = "idle" /\ view' = "absent" /\ count' = 0
  /\ CASE state \in NoRowStates -> Refuse("missing")
       [] state = "expired"     -> Refuse("expired")
       [] OTHER ->
            \/ cursor < Len(rows) /\ Refuse("tooLarge")
            \/ cursor > total /\ Refuse("invalid")
            \/ cursor <= total /\ Deliver(state, total, rows)

\* Due rows open a transaction: everything is read from the state it leaves.
Request ==
  /\ step = "idle" /\ answer \notin Final /\ HasRow(Watched)
  /\ \E t \in ClockReadings :
       /\ Sweep(t)
       /\ IF JobsAfterSweep(t) # job
          THEN Serve(job'[Watched].state, Len(results'[Watched]), results'[Watched])
          ELSE step' = "row" /\ UNCHANGED <<view, count, clientVars>>
  /\ Remember

ReadRow ==
  /\ step = "row"
  /\ IF job[Watched].state \in NoRowStates \cup {"expired"}
     THEN Serve(job[Watched].state, 0, <<>>)
     ELSE step' = "count" /\ view' = job[Watched].state /\ UNCHANGED <<count, clientVars>>
  /\ UNCHANGED <<storeVars, historyVars>>

\* Mutant of ReadCount: the cursor is compared with the pages that succeeded.
ReadCountSucceeded ==
  /\ step = "count"
  /\ count' = job[Watched].succeeded
  /\ step' = "page"
  /\ UNCHANGED <<storeVars, view, clientVars, historyVars>>

ReadCount ==
  /\ step = "count"
  /\ count' = Len(results[Watched])
  /\ step' = "page"
  /\ UNCHANGED <<storeVars, view, clientVars, historyVars>>

ReadPage ==
  /\ step = "page"
  /\ Serve(view, count, results[Watched])
  /\ UNCHANGED <<storeVars, historyVars>>

-----------------------------------------------------------------------------
(* Everybody else: the worker, its abandoned calls, other requests and the *)
(* recovery of a restart, in any order; pages are recorded only of a job   *)
(* that a worker has started.                                              *)

Others ==
  /\ StoreNext
  /\ \A j \in JobIds :
       job[j].attempts = 0 => results'[j] = results[j] /\ failures'[j] = failures[j]
  /\ UNCHANGED <<requestVars, clientVars>>
  /\ Remember

PagesInit ==
  /\ StoreInit
  /\ step = "idle" /\ view = "absent" /\ count = 0
  /\ cursor = 0 /\ got = <<>> /\ answer = "none"
  /\ ever = <<>> /\ atEnd = 0 /\ regrown = FALSE

PagesNext == Request \/ ReadRow \/ ReadCount \/ ReadPage \/ Others

PagesSpec == PagesInit /\ [][PagesNext]_pageVars

-----------------------------------------------------------------------------
(* Properties.                                                             *)

\* The types of a request in progress, of the client and of the history.
PagesTypeOK ==
  /\ step \in {"idle", "row", "count", "page"}
  /\ view \in States \ {"expired", "purged"}
  /\ count \in Nat /\ cursor \in Nat
  /\ got \in Seq(ResultRow) /\ ever \in Seq(ResultRow)
  /\ atEnd \in Nat /\ regrown \in BOOLEAN
  /\ answer \in {"none", "page", "tooLarge"} \cup Final

\* The pages a client receives are consecutive: whatever is stored, expired or swept
\* between and within its requests, nothing is skipped, repeated or out of order
\* (`ordinal > ?` in _result_page and the cursor of results()).  What is written to a row
\* after its expiry is numbered anew and may be read by a request that saw the row before.
PagesInOrder == cursor = Len(got) /\ (regrown \/ got = SubSeq(ever, 1, Len(got)))

\* "complete" is final: as long as retention has not removed the results, the job of a
\* client that was told so has ended, and the client has all that was stored by then.  A
\* result it has not is one an abandoned call of _append_result wrote afterwards.
CompleteIsWhole ==
  answer = "complete" /\ job[Watched].state \notin NoRowStates \cup {"expired"} =>
    job[Watched].state \in Terminal /\ atEnd <= Len(got)

\* A cursor the service handed out stays valid for as long as the results are there
\* (InvalidCursor is for forged cursors).
CursorStaysValid ==
  answer = "invalid" => job[Watched].state \in NoRowStates \cup {"expired"}

\* test_expiry_commits_before_the_typed_expired_error: a reader that comes too late is
\* told "expired", never that it has all the job stored.
CompleteMeansEverything == answer = "complete" => atEnd <= Len(got)
=============================================================================
