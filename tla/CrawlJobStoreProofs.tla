------------------------- MODULE CrawlJobStoreProofs -------------------------
(***************************************************************************)
(* Proofs about the job store, for every set of identifiers, claims and    *)
(* page keys, every cap, retention time and attempt budget, and a clock    *)
(* that may be read arbitrarily late; and about a client that pages        *)
(* through the results of one of its jobs.                                 *)
(***************************************************************************)
EXTENDS ResultPages, FiniteSetTheorems, SequenceTheorems, TLAPS

-----------------------------------------------------------------------------
(* Helpers.                                                                *)

\* A clock reading is a natural number that is not ahead of the clock.
LEMMA ReadingIsPast ==
  ASSUME StoreTypeOK, NEW t \in ClockReadings
  PROVE  t \in Nat /\ t <= clock
BY DEF ClockReadings, StoreTypeOK

\* The counter of prior failures that _append_result subtracts is a natural number: only
\* finitely many keys are reconciled.
LEMMA PriorIsNat ==
  ASSUME NEW j, NEW keys, IsFiniteSet(keys)
  PROVE  Prior(j, keys) \in Nat
<1>1. failures[j] \cap keys \subseteq keys
  OBVIOUS
<1>2. IsFiniteSet(failures[j] \cap keys)
  BY <1>1, FS_Subset
<1>. QED BY <1>2, FS_CardinalityType DEF Prior

\* An empty row is a row, in each of the states it can stand for.
LEMMA NoRowTyped ==
  ASSUME NEW why \in States
  PROVE  NoRow(why) \in Row
BY DEF NoRow, Row

\* _expire_due keeps the types of the three tables, whatever time it is given.
LEMMA SweepTyped ==
  ASSUME StoreTypeOK, NEW t \in Nat
  PROVE  JobsAfterSweep(t) \in [JobIds -> Row]
<1>. SUFFICES ASSUME NEW j \in JobIds PROVE RowAfterSweep(j, t) \in Row
  BY DEF JobsAfterSweep
<1>1. job[j] \in Row
  BY DEF StoreTypeOK
<1>2. NoRow("purged") \in Row
  BY NoRowTyped DEF States, NoRowStates
<1>3. job[j].deadline + TombstoneS \in Nat
  BY <1>1, StoreConstants DEF Row
<1>4. [job[j] EXCEPT !.state = "expired", !.claim = None, !.cancel = FALSE,
                     !.purge = job[j].deadline + TombstoneS] \in Row
  <2>. SUFFICES ASSUME NEW row \in Row, NEW n \in Nat
                PROVE  [row EXCEPT !.state = "expired", !.claim = None, !.cancel = FALSE,
                                   !.purge = n] \in Row
    BY <1>1, <1>3
  <2>. QED BY DEF Row, States
<1>. QED BY <1>1, <1>2, <1>4 DEF RowAfterSweep

\* Deleting the pages of ended jobs keeps the types of pages and clock.
LEMMA SweepContentsTyped ==
  ASSUME StoreTypeOK, NEW t \in Nat, SweepContents(t)
  PROVE  /\ results' \in [JobIds -> Seq(ResultRow)]
         /\ failures' \in [JobIds -> SUBSET PageKeys]
         /\ clock' \in Nat
BY DEF StoreTypeOK, SweepContents

\* A row that ends, by any of the four ways to end, is a row.
LEMMA EndedTyped ==
  ASSUME NEW row \in Row, NEW state \in States, NEW t \in Nat
  PROVE  Ended(row, state, t) \in Row
<1>1. t + RetentionS \in Nat
  BY StoreConstants
<1>2. ASSUME NEW n \in Nat
      PROVE  [row EXCEPT !.state = state, !.deadline = n, !.cancel = FALSE] \in Row
  BY DEF Row
<1>. QED BY <1>1, <1>2 DEF Ended

\* Each transaction keeps the types, for any reading of the clock.
LEMMA SweepStepTyped ==
  ASSUME StoreTypeOK, NEW t \in Nat, Sweep(t)
  PROVE  StoreTypeOK'
BY SweepTyped, SweepContentsTyped DEF Sweep, StoreTypeOK

\* claim, its sweep included, keeps the types.
LEMMA ClaimTyped ==
  ASSUME StoreTypeOK, NEW t \in Nat,
         NEW j \in JobIds, NEW c \in Claims, NEW p \in Prints, Claim(j, c, p, t)
  PROVE  StoreTypeOK'
<1>. DEFINE rows == JobsAfterSweep(t)
            new == [NoRow("queued") EXCEPT !.claim = c, !.print = p, !.created = t]
<1>1. rows \in [JobIds -> Row]
  BY SweepTyped
<1>2. new \in Row
  <2>1. NoRow("queued") \in Row
    BY NoRowTyped DEF States
  <2>2. ASSUME NEW row \in Row PROVE [row EXCEPT !.claim = c, !.print = p, !.created = t] \in Row
    BY DEF Row
  <2>. QED BY <2>1, <2>2
<1>3. job' = rows \/ job' = [rows EXCEPT ![j] = new]
  BY DEF Claim
<1>4. SweepContents(t)
  BY DEF Claim
<1>5. job' \in [JobIds -> Row]
  <2>. HIDE DEF rows, new
  <2>. QED BY <1>1, <1>2, <1>3
<1>. QED BY <1>4, <1>5, SweepContentsTyped DEF StoreTypeOK

\* claim_next, its sweep included, keeps the types.
LEMMA ClaimNextTyped ==
  ASSUME StoreTypeOK, NEW t \in Nat, NEW j \in JobIds, ClaimNext(j, t)
  PROVE  StoreTypeOK'
<1>. DEFINE rows == JobsAfterSweep(t)
<1>1. rows \in [JobIds -> Row]
  BY SweepTyped
<1>2. ASSUME NEW row \in Row
      PROVE  [row EXCEPT !.state = "running", !.attempts = row.attempts + 1] \in Row
  <2>1. row.attempts + 1 \in Nat
    BY DEF Row
  <2>2. ASSUME NEW n \in Nat PROVE [row EXCEPT !.state = "running", !.attempts = n] \in Row
    BY DEF Row, States
  <2>. QED BY <2>1, <2>2
<1>3. job' = [rows EXCEPT ![j] = [rows[j] EXCEPT !.state = "running",
                                                 !.attempts = rows[j].attempts + 1]]
  <2>1. job' = [rows EXCEPT ![j].state = "running", ![j].attempts = @ + 1]
    BY DEF ClaimNext
  <2>. HIDE DEF rows
  <2>. QED BY <1>1, <2>1 DEF Row
<1>4. job' \in [JobIds -> Row]
  <2>. HIDE DEF rows
  <2>. QED BY <1>1, <1>2, <1>3
<1>. QED BY <1>4, SweepContentsTyped DEF ClaimNext, StoreTypeOK

\* request_cancel keeps the types.
LEMMA RequestCancelTyped ==
  ASSUME StoreTypeOK, NEW t \in Nat, NEW j \in JobIds, RequestCancel(j, t)
  PROVE  StoreTypeOK'
<1>. DEFINE rows == JobsAfterSweep(t)
<1>1. rows \in [JobIds -> Row]
  BY SweepTyped
<1>2. Ended(rows[j], "cancelled", t) \in Row
  BY <1>1, EndedTyped DEF States, Terminal
<1>3. ASSUME NEW row \in Row PROVE [row EXCEPT !.cancel = TRUE] \in Row
  BY DEF Row
<1>4. \/ job' = rows
      \/ job' = [rows EXCEPT ![j] = Ended(rows[j], "cancelled", t)]
      \/ job' = [rows EXCEPT ![j] = [rows[j] EXCEPT !.cancel = TRUE]]
  <2>1. job' = CASE rows[j].state = "queued"  -> [rows EXCEPT ![j] = Ended(@, "cancelled", t)]
                 [] rows[j].state = "running" -> [rows EXCEPT ![j].cancel = TRUE]
                 [] OTHER                     -> rows
    BY DEF RequestCancel
  <2>. HIDE DEF rows
  <2>. QED BY <1>1, <2>1
<1>5. job' \in [JobIds -> Row]
  <2>. HIDE DEF rows
  <2>. QED BY <1>1, <1>2, <1>3, <1>4
<1>. QED BY <1>5, SweepContentsTyped DEF RequestCancel, StoreTypeOK

\* recover_running keeps the types.
LEMMA RecoverTyped ==
  ASSUME StoreTypeOK, NEW t \in Nat, RecoverInterrupted(t)
  PROVE  StoreTypeOK'
<1>1. ASSUME NEW j \in JobIds PROVE RecoveredRow(job[j], t) \in Row
  <2>1. job[j] \in Row
    BY DEF StoreTypeOK
  <2>2. Ended(job[j], "cancelled", t) \in Row /\ Ended(job[j], "failed", t) \in Row
    BY <2>1, EndedTyped DEF States, Terminal
  <2>3. [job[j] EXCEPT !.state = "queued"] \in Row
    BY <2>1 DEF Row, States
  <2>. QED BY <2>1, <2>2, <2>3 DEF RecoveredRow
<1>2. job' \in [JobIds -> Row]
  BY <1>1 DEF RecoverInterrupted
<1>. QED BY <1>2 DEF RecoverInterrupted, StoreTypeOK

\* finish keeps the types.
LEMMA FinishTyped ==
  ASSUME StoreTypeOK, NEW t \in Nat, NEW j \in JobIds, NEW v \in Verdicts, Finish(j, v, t)
  PROVE  StoreTypeOK'
<1>1. job[j] \in Row
  BY DEF StoreTypeOK
<1>2. Ended(job[j], IF job[j].cancel THEN "cancelled" ELSE v, t) \in Row
  BY <1>1, EndedTyped DEF Verdicts, States, Terminal
<1>3. \/ job' = job
      \/ job' = [job EXCEPT ![j] = Ended(job[j], IF job[j].cancel THEN "cancelled" ELSE v, t)]
  BY DEF Finish, StoreTypeOK
<1>4. job' \in [JobIds -> Row]
  BY <1>2, <1>3 DEF StoreTypeOK
<1>. QED BY <1>4 DEF Finish, StoreTypeOK

\* increment_attempt keeps the types.
LEMMA IncrementTyped ==
  ASSUME StoreTypeOK, NEW j \in JobIds, IncrementAttempt(j)
  PROVE  StoreTypeOK'
<1>1. ASSUME NEW row \in Row, NEW n \in Nat PROVE [row EXCEPT !.attempts = n] \in Row
  BY DEF Row
<1>2. job[j] \in Row /\ job[j].attempts \in Nat /\ job[j].attempts + 1 \in Nat
  BY DEF StoreTypeOK, Row
<1>3. \E n \in Nat : job' = [job EXCEPT ![j] = [job[j] EXCEPT !.attempts = n]]
  BY <1>2 DEF IncrementAttempt, StoreTypeOK
<1>4. job' \in [JobIds -> Row]
  BY <1>1, <1>2, <1>3 DEF StoreTypeOK
<1>. QED BY <1>4 DEF IncrementAttempt, StoreTypeOK

\* append_result keeps the types.
LEMMA AppendResultTyped ==
  ASSUME StoreTypeOK, NEW j \in JobIds, NEW r \in ResultRow,
         NEW also \in SUBSET PageKeys, IsFiniteSet(also), AppendResult(j, r, also)
  PROVE  StoreTypeOK'
<1>. DEFINE prior == Prior(j, {r.key} \cup also)
            good == IF r.content THEN job[j].succeeded + 1 ELSE job[j].succeeded
            all  == MaxZero(job[j].processed - prior + 1)
            bad  == MaxZero(job[j].failed - prior + IF r.content THEN 0 ELSE 1)
            new  == [job[j] EXCEPT !.processed = all, !.succeeded = good, !.failed = bad]
<1>1. prior \in Nat
  <2>1. IsFiniteSet({r.key} \cup also)
    BY FS_Singleton, FS_Union
  <2>. QED BY <2>1, PriorIsNat
<1>2. /\ job[j] \in Row
      /\ job[j].processed \in Nat /\ job[j].succeeded \in Nat /\ job[j].failed \in Nat
  BY DEF StoreTypeOK, Row
<1>3. good \in Nat /\ all \in Nat /\ bad \in Nat
  <2>. HIDE DEF prior
  <2>. QED BY <1>1, <1>2 DEF MaxZero
<1>4. new \in Row
  <2>1. ASSUME NEW row \in Row, NEW x \in Nat, NEW y \in Nat, NEW z \in Nat
        PROVE  [row EXCEPT !.processed = x, !.succeeded = y, !.failed = z] \in Row
    BY DEF Row
  <2>. HIDE DEF good, all, bad
  <2>. QED BY <1>2, <1>3, <2>1
<1>5. job' = job \/ job' = [job EXCEPT ![j] = new]
  BY DEF AppendResult, StoreTypeOK
<1>6. job' \in [JobIds -> Row]
  <2>. HIDE DEF new
  <2>. QED BY <1>4, <1>5 DEF StoreTypeOK
<1>7. results' \in [JobIds -> Seq(ResultRow)]
  BY DEF AppendResult, StoreTypeOK
<1>8. failures' \in [JobIds -> SUBSET PageKeys] /\ clock' \in Nat
  BY DEF AppendResult, StoreTypeOK
<1>. QED BY <1>6, <1>7, <1>8 DEF StoreTypeOK

\* append_failure keeps the types.
LEMMA AppendFailureTyped ==
  ASSUME StoreTypeOK, NEW j \in JobIds, NEW k \in PageKeys, AppendFailure(j, k)
  PROVE  StoreTypeOK'
<1>. DEFINE new == [job[j] EXCEPT !.processed = job[j].processed + 1,
                                  !.failed = job[j].failed + 1]
<1>1. ASSUME NEW row \in Row, NEW x \in Nat, NEW y \in Nat
      PROVE  [row EXCEPT !.processed = x, !.failed = y] \in Row
  BY DEF Row
<1>2. job[j] \in Row /\ job[j].processed + 1 \in Nat /\ job[j].failed + 1 \in Nat
  BY DEF StoreTypeOK, Row
<1>3. job' = job \/ job' = [job EXCEPT ![j] = new]
  BY DEF AppendFailure, StoreTypeOK, Row
<1>4. new \in Row
  BY <1>1, <1>2
<1>5. job' \in [JobIds -> Row]
  <2>. HIDE DEF new
  <2>. QED BY <1>3, <1>4 DEF StoreTypeOK
<1>. QED BY <1>5 DEF AppendFailure, StoreTypeOK

\* Every transaction keeps the types.
LEMMA StoreTypeStep ==
  ASSUME StoreTypeOK, [StoreNext]_storeVars
  PROVE  StoreTypeOK'
<1>1. CASE UNCHANGED storeVars
  BY <1>1 DEF storeVars, StoreTypeOK
<1>2. CASE Tick
  BY <1>2 DEF Tick, StoreTypeOK
<1>3. ASSUME NEW t \in ClockReadings,
             \/ Sweep(t) \/ RecoverInterrupted(t) \/ ClaimNothing(t)
             \/ \E j \in JobIds, c \in Claims, p \in Prints : Claim(j, c, p, t)
             \/ \E j \in JobIds : ClaimNext(j, t) \/ RequestCancel(j, t)
             \/ \E j \in JobIds, v \in Verdicts : Finish(j, v, t)
      PROVE  StoreTypeOK'
  <2>1. t \in Nat
    BY ReadingIsPast
  <2>. QED BY <1>3, <2>1, SweepStepTyped, RecoverTyped, ClaimTyped, ClaimNextTyped,
              RequestCancelTyped, FinishTyped DEF ClaimNothing
<1>4. ASSUME NEW j \in JobIds, IncrementAttempt(j)
      PROVE  StoreTypeOK'
  BY <1>4, IncrementTyped
<1>5. ASSUME NEW j \in JobIds, NEW r \in ResultRow, NEW k \in PageKeys, AppendResult(j, r, {k})
      PROVE  StoreTypeOK'
  <2>1. {k} \in SUBSET PageKeys /\ IsFiniteSet({k})
    BY FS_Singleton
  <2>. QED BY <1>5, <2>1, AppendResultTyped
<1>6. ASSUME NEW j \in JobIds, NEW k \in PageKeys, AppendFailure(j, k)
      PROVE  StoreTypeOK'
  BY <1>6, AppendFailureTyped
<1>. QED BY <1>1, <1>2, <1>3, <1>4, <1>5, <1>6 DEF StoreNext

\* The three tables always hold what their columns can hold; in particular no counter of
\* pages ever goes below zero.
THEOREM StoreTypeCorrect == StoreSpec => []StoreTypeOK
<1>1. StoreInit => StoreTypeOK
  <2>. SUFFICES ASSUME StoreInit PROVE StoreTypeOK
    OBVIOUS
  <2>1. NoRow("absent") \in Row
    BY NoRowTyped DEF States, NoRowStates
  <2>. QED BY <2>1 DEF StoreInit, StoreTypeOK
<1>. QED BY <1>1, StoreTypeStep, PTL DEF StoreSpec

-----------------------------------------------------------------------------
(* What one transaction can do to one row.                                 *)

\* A row stays, is swept, is inserted, or is an unfinished job that goes on or ends.
Swept(j)    == \E t \in ClockReadings : /\ Due(j, t) \/ PurgeDue(j, t)
                                        /\ job'[j] = RowAfterSweep(j, t)
Inserted(j) == /\ job[j].state = "absent" /\ job'[j].state = "queued"
               /\ job'[j].claim \in Claims
               /\ \A k \in JobIds \ {j} : job'[k].claim # job'[j].claim
               /\ \E t \in ClockReadings :
                    /\ ~(Cardinality(Stored(JobsAfterSweep(t))) >= MaxRecords)
                    /\ \A k \in JobIds \ {j} : job'[k] = JobsAfterSweep(t)[k]
Worked(j)   == /\ job[j].state \in {"queued", "running"}
               /\ job'[j].state \in {"queued", "running"} \cup Terminal
               /\ job'[j].claim = job[j].claim
RowMove(j)  == job'[j] = job[j] \/ Swept(j) \/ Inserted(j) \/ Worked(j)

\* A row the sweep leaves alone is the row as it was; an unfinished one is left alone.
LEMMA SweptOrSame ==
  ASSUME StoreTypeOK, NEW t \in ClockReadings, NEW j \in JobIds
  PROVE  /\ JobsAfterSweep(t)[j] = RowAfterSweep(j, t)
         /\ \/ Due(j, t) \/ PurgeDue(j, t)
            \/ RowAfterSweep(j, t) = job[j]
         /\ job[j].state \in {"queued", "running", "absent"} => RowAfterSweep(j, t) = job[j]
         /\ RowAfterSweep(j, t).state \in {"queued", "running", "absent"} =>
              RowAfterSweep(j, t) = job[j]
<1>1. job[j] \in Row
  BY DEF StoreTypeOK
<1>2. NoRow("purged").state = "purged"
  BY DEF NoRow
<1>3. [job[j] EXCEPT !.state = "expired", !.claim = None, !.cancel = FALSE,
                     !.purge = job[j].deadline + TombstoneS].state = "expired"
  BY <1>1 DEF Row
<1>. QED BY <1>2, <1>3 DEF JobsAfterSweep, RowAfterSweep, Due, PurgeDue, Terminal

\* sweep_expired moves each row in one of these ways.
LEMMA SweepMoves ==
  ASSUME StoreTypeOK, NEW t \in ClockReadings, NEW j \in JobIds,
         job'[j] = JobsAfterSweep(t)[j]
  PROVE  RowMove(j)
BY SweptOrSame DEF RowMove, Swept

\* Each transaction moves each row by one of these moves.
LEMMA RowMoves ==
  ASSUME StoreTypeOK, [StoreNext]_storeVars, NEW i \in JobIds
  PROVE  RowMove(i)
<1>1. CASE UNCHANGED storeVars \/ Tick
  BY <1>1 DEF storeVars, Tick, RowMove
<1>2. ASSUME NEW t \in ClockReadings, Sweep(t) \/ ClaimNothing(t)
      PROVE  RowMove(i)
  BY <1>2, SweepMoves DEF Sweep, ClaimNothing
<1>3. ASSUME NEW t \in ClockReadings, RecoverInterrupted(t)
      PROVE  RowMove(i)
  <2>1. job'[i] = RecoveredRow(job[i], t)
    BY <1>3 DEF RecoverInterrupted
  <2>2. job[i] \in Row
    BY DEF StoreTypeOK
  <2>3. CASE job[i].state # "running"
    BY <2>1, <2>3 DEF RecoveredRow, RowMove
  <2>4. CASE job[i].state = "running"
    <3>1. /\ Ended(job[i], "cancelled", t).state = "cancelled"
          /\ Ended(job[i], "cancelled", t).claim = job[i].claim
          /\ Ended(job[i], "failed", t).state = "failed"
          /\ Ended(job[i], "failed", t).claim = job[i].claim
          /\ [job[i] EXCEPT !.state = "queued"].state = "queued"
          /\ [job[i] EXCEPT !.state = "queued"].claim = job[i].claim
      BY <2>2 DEF Ended, Row
    <3>. QED BY <2>1, <2>4, <3>1 DEF RecoveredRow, RowMove, Worked, Terminal
  <2>. QED BY <2>3, <2>4
<1>4. ASSUME NEW t \in ClockReadings,
             NEW j \in JobIds, NEW c \in Claims, NEW p \in Prints, Claim(j, c, p, t)
      PROVE  RowMove(i)
  <2>. DEFINE rows == JobsAfterSweep(t)
              new == [NoRow("queued") EXCEPT !.claim = c, !.print = p, !.created = t]
  <2>1. job' = rows \/ job' = [rows EXCEPT ![j] = new]
    BY <1>4 DEF Claim
  <2>2. rows \in [JobIds -> Row]
    BY SweepTyped, ReadingIsPast
  <2>3. new.state = "queued" /\ new.claim = c
    BY DEF NoRow
  <2>4. job[j].state = "absent"
    BY <1>4 DEF Claim
  <2>5. CASE job' = rows
    BY <2>5, SweepMoves
  <2>6. CASE job' # rows
    <3>1. Claimants(rows, c) = {} /\ ~(Cardinality(Stored(rows)) >= MaxRecords)
      BY <1>4, <2>6 DEF Claim, ClaimAnswer
    <3>2. \A k \in JobIds : rows[k].claim # c
      BY <3>1 DEF Claimants
    <3>3. job' = [rows EXCEPT ![j] = new]
      BY <2>1, <2>6
    <3>4. \A k \in JobIds \ {j} : job'[k] = rows[k]
      <4>. HIDE DEF rows, new
      <4>. QED BY <2>2, <3>3
    <3>5. job'[j] = new
      <4>. HIDE DEF rows, new
      <4>. QED BY <2>2, <3>3
    <3>6. Inserted(j)
      BY <2>3, <2>4, <3>1, <3>2, <3>4, <3>5 DEF Inserted
    <3>. QED BY <3>4, <3>6, SweepMoves DEF RowMove
  <2>. QED BY <2>5, <2>6
<1>5. ASSUME NEW t \in ClockReadings, NEW j \in JobIds, ClaimNext(j, t)
      PROVE  RowMove(i)
  <2>. DEFINE rows == JobsAfterSweep(t)
  <2>1. rows \in [JobIds -> Row]
    BY SweepTyped, ReadingIsPast
  <2>2. /\ IsNext(rows, j)
        /\ job' = [rows EXCEPT ![j].state = "running", ![j].attempts = @ + 1]
    BY <1>5 DEF ClaimNext
  <2>3. rows[j].state = "queued"
    BY <2>2 DEF IsNext, Queued
  <2>4. rows[j] = job[j]
    BY <2>3, SweptOrSame
  <2>5. \/ job'[i] = rows[i]
        \/ i = j /\ job'[i].state = "running" /\ job'[i].claim = rows[i].claim
    <3>. HIDE DEF rows
    <3>. QED BY <2>1, <2>2 DEF Row
  <2>. QED BY <2>3, <2>4, <2>5, SweepMoves DEF RowMove, Worked
<1>6. ASSUME NEW t \in ClockReadings, NEW j \in JobIds, RequestCancel(j, t)
      PROVE  RowMove(i)
  <2>. DEFINE rows == JobsAfterSweep(t)
  <2>1. rows \in [JobIds -> Row]
    BY SweepTyped, ReadingIsPast
  <2>2. job' = CASE rows[j].state = "queued"  -> [rows EXCEPT ![j] = Ended(@, "cancelled", t)]
                 [] rows[j].state = "running" -> [rows EXCEPT ![j].cancel = TRUE]
                 [] OTHER                     -> rows
    BY <1>6 DEF RequestCancel
  <2>3. rows[j].state \in {"queued", "running"} => rows[j] = job[j]
    BY SweptOrSame
  <2>4. \/ job'[i] = rows[i]
        \/ /\ i = j /\ rows[i].state = "queued"
           /\ job'[i].state = "cancelled" /\ job'[i].claim = rows[i].claim
        \/ /\ i = j /\ rows[i].state = "running"
           /\ job'[i].state = "running" /\ job'[i].claim = rows[i].claim
    <3>. HIDE DEF rows
    <3>. QED BY <2>1, <2>2 DEF Row, Ended
  <2>. QED BY <2>3, <2>4, SweepMoves DEF RowMove, Worked, Terminal
<1>7. ASSUME NEW t \in ClockReadings, NEW j \in JobIds, NEW v \in Verdicts, Finish(j, v, t)
      PROVE  RowMove(i)
  <2>1. \/ job'[i] = job[i]
        \/ /\ job[i].state \in {"queued", "running"}
           /\ job'[i] = Ended(job[i], IF job[i].cancel THEN "cancelled" ELSE v, t)
    BY <1>7 DEF Finish, StoreTypeOK
  <2>2. ASSUME NEW w \in Terminal
        PROVE  Ended(job[i], w, t).state = w /\ Ended(job[i], w, t).claim = job[i].claim
    BY DEF Ended, StoreTypeOK, Row
  <2>3. (IF job[i].cancel THEN "cancelled" ELSE v) \in Terminal
    BY DEF Verdicts, Terminal
  <2>. QED BY <2>1, <2>2, <2>3 DEF RowMove, Worked
<1>8. ASSUME NEW j \in JobIds,
             \/ IncrementAttempt(j)
             \/ \E r \in ResultRow, k \in PageKeys : AppendResult(j, r, {k})
             \/ \E k \in PageKeys : AppendFailure(j, k)
      PROVE  RowMove(i)
  <2>. DEFINE Touched == \/ job'[i] = job[i]
                         \/ /\ job[i].state = "running"
                            /\ job'[i].state = job[i].state /\ job'[i].claim = job[i].claim
  <2>1. Touched
    <3>1. CASE IncrementAttempt(j)
      BY <3>1 DEF IncrementAttempt, StoreTypeOK, Row
    <3>2. ASSUME NEW r \in ResultRow, NEW k \in PageKeys, AppendResult(j, r, {k})
          PROVE  Touched
      <4>. DEFINE new == [job[j] EXCEPT
                            !.processed = MaxZero(@ - Prior(j, {r.key} \cup {k}) + 1),
                            !.succeeded = IF r.content THEN @ + 1 ELSE @,
                            !.failed = MaxZero(@ - Prior(j, {r.key} \cup {k})
                                               + IF r.content THEN 0 ELSE 1)]
      <4>1. job' = job \/ (job[j].state = "running" /\ job' = [job EXCEPT ![j] = new])
        BY <3>2 DEF AppendResult
      <4>2. new.state = job[j].state /\ new.claim = job[j].claim
        BY DEF StoreTypeOK, Row
      <4>. HIDE DEF new
      <4>. QED BY <4>1, <4>2 DEF StoreTypeOK
    <3>3. ASSUME NEW k \in PageKeys, AppendFailure(j, k)
          PROVE  Touched
      BY <3>3 DEF AppendFailure, StoreTypeOK, Row
    <3>. QED BY <1>8, <3>1, <3>2, <3>3
  <2>. QED BY <2>1 DEF RowMove, Worked
<1>. QED BY <1>1, <1>2, <1>3, <1>4, <1>5, <1>6, <1>7, <1>8 DEF StoreNext

\* A terminal job is decided once (see TerminalIsFinal): whatever is asked of the store,
\* the row stays as it is until a reading of the clock reaches its retention deadline.
THEOREM TerminalFinality == StoreSpec => TerminalIsFinal
<1>1. ASSUME StoreTypeOK, [StoreNext]_storeVars
      PROVE  \A j \in JobIds : job[j].state \in Terminal =>
               \/ job'[j] = job[j]
               \/ job'[j].state \in {"expired", "purged"} /\ job[j].deadline <= clock
  <2>. SUFFICES ASSUME NEW j \in JobIds, job[j].state \in Terminal, job'[j] # job[j]
                PROVE  job'[j].state \in {"expired", "purged"} /\ job[j].deadline <= clock
    OBVIOUS
  <2>1. Swept(j)
    BY <1>1, RowMoves DEF RowMove, Inserted, Worked, Terminal
  <2>2. PICK t \in ClockReadings : /\ Due(j, t) \/ PurgeDue(j, t)
                                   /\ job'[j] = RowAfterSweep(j, t)
    BY <2>1 DEF Swept
  <2>3. t \in Nat /\ t <= clock /\ clock \in Nat
    BY <1>1, ReadingIsPast DEF StoreTypeOK
  <2>4. job[j] \in Row
    BY <1>1 DEF StoreTypeOK
  <2>5. job[j].deadline <= t
    BY <2>2 DEF Due, PurgeDue, Terminal
  <2>6. job'[j].state \in {"expired", "purged"}
    BY <2>2, <2>4 DEF RowAfterSweep, NoRow, Row
  <2>. QED BY <2>3, <2>4, <2>5, <2>6 DEF Row
<1>. QED BY <1>1, StoreTypeCorrect, PTL DEF StoreSpec, TerminalIsFinal

\* A scoped idempotency key belongs to at most one row (see UniqueClaim): the INSERT of
\* _claim never meets the unique index, and expiry alone releases a key.
THEOREM ClaimUniqueness == StoreSpec => []UniqueClaim
<1>1. StoreInit => UniqueClaim
  BY DEF StoreInit, UniqueClaim, NoRow, NoRowStates
<1>2. ASSUME StoreTypeOK, UniqueClaim, [StoreNext]_storeVars
      PROVE  UniqueClaim'
  <2>1. ASSUME NEW j \in JobIds
        PROVE  /\ job'[j].claim = None <=> job'[j].state \in {"expired"} \cup NoRowStates
               /\ \/ job'[j].claim = None \/ Inserted(j)
                  \/ job'[j].claim = job[j].claim
    <3>1. CASE job'[j] = job[j]
      BY <1>2, <3>1 DEF UniqueClaim
    <3>2. CASE Swept(j)
      <4>1. \/ job'[j] = NoRow("purged")
            \/ job'[j] = [job[j] EXCEPT !.state = "expired", !.claim = None, !.cancel = FALSE,
                                        !.purge = job[j].deadline + TombstoneS]
            \/ job'[j] = job[j]
        BY <3>2 DEF Swept, RowAfterSweep
      <4>2. job[j] \in Row
        BY <1>2 DEF StoreTypeOK
      <4>3. CASE job'[j] = job[j]
        BY <1>2, <4>3 DEF UniqueClaim
      <4>4. CASE job'[j] = NoRow("purged")
        BY <4>4 DEF NoRow, NoRowStates
      <4>5. CASE job'[j] = [job[j] EXCEPT !.state = "expired", !.claim = None,
                                          !.cancel = FALSE,
                                          !.purge = job[j].deadline + TombstoneS]
        <5>1. job'[j].state = "expired" /\ job'[j].claim = None
          BY <4>2, <4>5 DEF Row
        <5>. QED BY <5>1
      <4>. QED BY <4>1, <4>3, <4>4, <4>5
    <3>3. CASE Inserted(j)
      BY <3>3, StoreConstants DEF Inserted, NoRowStates
    <3>4. CASE Worked(j)
      BY <1>2, <3>4 DEF Worked, UniqueClaim, NoRowStates, Terminal
    <3>. QED BY <1>2, <3>1, <3>2, <3>3, <3>4, RowMoves DEF RowMove
  <2>2. ASSUME NEW j \in JobIds, NEW k \in JobIds,
               job'[j].claim # None, job'[j].claim = job'[k].claim
        PROVE  j = k
    <3>1. CASE Inserted(j) \/ Inserted(k)
      BY <2>2, <3>1 DEF Inserted
    <3>2. CASE ~Inserted(j) /\ ~Inserted(k)
      BY <1>2, <2>1, <2>2, <3>2 DEF UniqueClaim
    <3>. QED BY <3>1, <3>2
  <2>. QED BY <2>1, <2>2 DEF UniqueClaim
<1>. QED BY <1>1, <1>2, StoreTypeCorrect, PTL DEF StoreSpec

\* An expired row knows when it may be purged: the strengthening TombstoneKept needs.
PurgeAfterTombstone ==
  \A j \in JobIds : job[j].state = "expired" => job[j].purge = job[j].deadline + TombstoneS

\* What the sweep does to one row, and that only the sweep does it.
LEMMA SweptShape ==
  ASSUME StoreTypeOK, PurgeAfterTombstone, NEW j \in JobIds, Swept(j)
  PROVE  /\ job[j].state \in Terminal \cup {"expired"}
         /\ job'[j].state = "expired" => job'[j].purge = job'[j].deadline + TombstoneS
         /\ job'[j].state = "purged" => job[j].deadline + TombstoneS <= clock
<1>1. PICK t \in ClockReadings : /\ Due(j, t) \/ PurgeDue(j, t)
                                 /\ job'[j] = RowAfterSweep(j, t)
  BY DEF Swept
<1>2. t \in Nat /\ t <= clock /\ clock \in Nat /\ job[j] \in Row
  BY ReadingIsPast DEF StoreTypeOK
<1>3. job[j].state \in Terminal \cup {"expired"}
  BY <1>1 DEF Due, PurgeDue
<1>4. CASE PurgeDue(j, t)
  <2>1. job[j].deadline + TombstoneS <= t
    BY <1>2, <1>4 DEF PurgeDue, PurgeAfterTombstone, Row
  <2>2. job'[j].state = "purged"
    BY <1>1, <1>4 DEF RowAfterSweep, NoRow
  <2>. QED BY <1>2, <1>3, <2>1, <2>2, StoreConstants DEF Row
<1>5. CASE ~PurgeDue(j, t)
  BY <1>1, <1>2, <1>3, <1>5 DEF RowAfterSweep, Row
<1>. QED BY <1>4, <1>5

\* An identifier answers "expired" for the whole tombstone time (see TombstoneKept).
THEOREM TombstoneLasts == StoreSpec => TombstoneKept
<1>1. StoreInit => PurgeAfterTombstone
  BY DEF StoreInit, PurgeAfterTombstone, NoRow
<1>2. ASSUME StoreTypeOK, PurgeAfterTombstone, [StoreNext]_storeVars
      PROVE  PurgeAfterTombstone'
  <2>. SUFFICES ASSUME NEW j \in JobIds, job'[j].state = "expired"
                PROVE  job'[j].purge = job'[j].deadline + TombstoneS
    BY DEF PurgeAfterTombstone
  <2>1. job'[j] = job[j] \/ Swept(j)
    BY <1>2, RowMoves DEF RowMove, Inserted, Worked, Terminal
  <2>. QED BY <1>2, <2>1, SweptShape DEF PurgeAfterTombstone
<1>3. ASSUME StoreTypeOK, PurgeAfterTombstone, [StoreNext]_storeVars
      PROVE  \A j \in JobIds : HasRow(j) /\ job'[j].state = "purged" =>
               /\ job[j].state \in Terminal \cup {"expired"}
               /\ job[j].deadline + TombstoneS <= clock
  <2>. SUFFICES ASSUME NEW j \in JobIds, HasRow(j), job'[j].state = "purged"
                PROVE  /\ job[j].state \in Terminal \cup {"expired"}
                       /\ job[j].deadline + TombstoneS <= clock
    OBVIOUS
  <2>1. Swept(j)
    BY <1>3, RowMoves DEF RowMove, Inserted, Worked, Terminal, HasRow, NoRowStates
  <2>. QED BY <1>3, <2>1, SweptShape
<1>. QED BY <1>1, <1>2, <1>3, StoreTypeCorrect, PTL DEF StoreSpec, TombstoneKept

-----------------------------------------------------------------------------
(* What one transaction can do to the pages of one job.                    *)

SamePages(j) == results'[j] = results[j] /\ failures'[j] = failures[j]
NoPages(j)   == /\ results'[j] = <<>> /\ failures'[j] = {}
                /\ job'[j].state \in {"expired", "purged"}
OneResult(j) == \E r \in ResultRow, keys \in SUBSET PageKeys :
                  /\ r.key \in keys /\ r.key \notin KeysOf(results[j])
                  /\ results'[j] = Append(results[j], r)
                  /\ failures'[j] = failures[j] \ keys
OneFailure(j) == \E k \in PageKeys :
                   /\ k \notin KeysOf(results[j])
                   /\ results'[j] = results[j]
                   /\ failures'[j] = failures[j] \cup {k}
PageMove(j) == SamePages(j) \/ NoPages(j) \/ OneResult(j) \/ OneFailure(j)

\* The sweep drops the pages of the rows it expires or purges, and of no other.
LEMMA SweepPages ==
  ASSUME StoreTypeOK, NEW t \in ClockReadings, SweepContents(t), NEW j \in JobIds,
         Due(j, t) \/ PurgeDue(j, t) => job'[j] = JobsAfterSweep(t)[j]
  PROVE  PageMove(j)
<1>1. CASE Due(j, t) \/ PurgeDue(j, t)
  <2>1. results'[j] = <<>> /\ failures'[j] = {}
    BY <1>1 DEF SweepContents
  <2>2. RowAfterSweep(j, t).state \in {"expired", "purged"}
    BY <1>1 DEF RowAfterSweep, NoRow, StoreTypeOK, Row
  <2>3. job'[j] = RowAfterSweep(j, t)
    BY <1>1, SweptOrSame
  <2>. QED BY <2>1, <2>2, <2>3 DEF PageMove, NoPages
<1>2. CASE ~(Due(j, t) \/ PurgeDue(j, t))
  BY <1>2 DEF SweepContents, PageMove, SamePages
<1>. QED BY <1>1, <1>2

\* Each transaction moves the pages of each job by one of these moves.
LEMMA PageMoves ==
  ASSUME StoreTypeOK, [StoreNext]_storeVars, NEW i \in JobIds
  PROVE  PageMove(i)
<1>1. CASE UNCHANGED storeVars \/ Tick
  BY <1>1 DEF storeVars, Tick, PageMove, SamePages
<1>2. ASSUME NEW t \in ClockReadings, Sweep(t) \/ ClaimNothing(t)
      PROVE  PageMove(i)
  BY <1>2, SweepPages DEF Sweep, ClaimNothing
<1>3. ASSUME NEW t \in ClockReadings, RecoverInterrupted(t)
      PROVE  PageMove(i)
  BY <1>3 DEF RecoverInterrupted, PageMove, SamePages
<1>4. ASSUME NEW t \in ClockReadings,
             NEW j \in JobIds, NEW c \in Claims, NEW p \in Prints, Claim(j, c, p, t)
      PROVE  PageMove(i)
  <2>. DEFINE rows == JobsAfterSweep(t)
              new == [NoRow("queued") EXCEPT !.claim = c, !.print = p, !.created = t]
  <2>1. (job' = rows \/ job' = [rows EXCEPT ![j] = new]) /\ job[j].state = "absent"
    BY <1>4 DEF Claim
  <2>2. rows \in [JobIds -> Row]
    BY SweepTyped, ReadingIsPast
  <2>3. i # j => job'[i] = rows[i]
    <3>. HIDE DEF rows, new
    <3>. QED BY <2>1, <2>2
  <2>4. Due(i, t) \/ PurgeDue(i, t) => i # j
    BY <2>1 DEF Due, PurgeDue, Terminal
  <2>. QED BY <1>4, <2>3, <2>4, SweepPages DEF Claim
<1>5. ASSUME NEW t \in ClockReadings, NEW j \in JobIds, ClaimNext(j, t)
      PROVE  PageMove(i)
  <2>. DEFINE rows == JobsAfterSweep(t)
  <2>1. rows \in [JobIds -> Row]
    BY SweepTyped, ReadingIsPast
  <2>2. /\ rows[j].state = "queued"
        /\ job' = [rows EXCEPT ![j].state = "running", ![j].attempts = @ + 1]
    BY <1>5 DEF ClaimNext, IsNext, Queued
  <2>3. i # j => job'[i] = rows[i]
    <3>. HIDE DEF rows
    <3>. QED BY <2>1, <2>2
  <2>4. job[j].state = "queued"
    BY <2>2, SweptOrSame
  <2>5. Due(i, t) \/ PurgeDue(i, t) => i # j
    BY <2>4 DEF Due, PurgeDue, Terminal
  <2>. QED BY <1>5, <2>3, <2>5, SweepPages DEF ClaimNext
<1>6. ASSUME NEW t \in ClockReadings, NEW j \in JobIds, RequestCancel(j, t)
      PROVE  PageMove(i)
  <2>. DEFINE rows == JobsAfterSweep(t)
  <2>1. rows \in [JobIds -> Row]
    BY SweepTyped, ReadingIsPast
  <2>2. job' = CASE rows[j].state = "queued"  -> [rows EXCEPT ![j] = Ended(@, "cancelled", t)]
                 [] rows[j].state = "running" -> [rows EXCEPT ![j].cancel = TRUE]
                 [] OTHER                     -> rows
    BY <1>6 DEF RequestCancel
  <2>3. i # j \/ rows[j].state \notin {"queued", "running"} => job'[i] = rows[i]
    <3>. HIDE DEF rows
    <3>. QED BY <2>1, <2>2
  <2>4. rows[j].state \in {"queued", "running"} => rows[j] = job[j]
    BY SweptOrSame
  <2>5. (Due(i, t) \/ PurgeDue(i, t)) /\ rows[j].state \in {"queued", "running"} => i # j
    BY <2>4 DEF Due, PurgeDue, Terminal
  <2>. QED BY <1>6, <2>3, <2>5, SweepPages DEF RequestCancel
<1>7. ASSUME NEW t \in ClockReadings, NEW j \in JobIds, NEW v \in Verdicts, Finish(j, v, t)
      PROVE  PageMove(i)
  BY <1>7 DEF Finish, PageMove, SamePages
<1>8. ASSUME NEW j \in JobIds, IncrementAttempt(j)
      PROVE  PageMove(i)
  BY <1>8 DEF IncrementAttempt, PageMove, SamePages
<1>9. ASSUME NEW j \in JobIds, NEW r \in ResultRow, NEW k \in PageKeys, AppendResult(j, r, {k})
      PROVE  PageMove(i)
  <2>. DEFINE keys == {r.key} \cup {k}
  <2>1. r.key \in keys /\ keys \in SUBSET PageKeys
    BY DEF ResultRow
  <2>2. \/ results' = results /\ failures' = failures
        \/ /\ r.key \notin KeysOf(results[j])
           /\ results' = [results EXCEPT ![j] = Append(results[j], r)]
           /\ failures' = [failures EXCEPT ![j] = failures[j] \ keys]
    BY <1>9 DEF AppendResult
  <2>3. CASE i = j
    <3>. HIDE DEF keys
    <3>. QED BY <2>1, <2>2, <2>3 DEF PageMove, SamePages, OneResult, StoreTypeOK
  <2>4. CASE i # j
    <3>. HIDE DEF keys
    <3>. QED BY <2>2, <2>4 DEF PageMove, SamePages, StoreTypeOK
  <2>. QED BY <2>3, <2>4
<1>10. ASSUME NEW j \in JobIds, NEW k \in PageKeys, AppendFailure(j, k)
       PROVE  PageMove(i)
  <2>1. \/ results' = results /\ failures' = failures
        \/ /\ k \notin KeysOf(results[j]) /\ results' = results
           /\ failures' = [failures EXCEPT ![j] = failures[j] \cup {k}]
    BY <1>10 DEF AppendFailure
  <2>. QED BY <2>1 DEF PageMove, SamePages, OneFailure, StoreTypeOK
<1>. QED BY <1>1, <1>2, <1>3, <1>4, <1>5, <1>6, <1>7, <1>8, <1>9, <1>10 DEF StoreNext

\* Storing a row adds its key to the keys stored.
LEMMA KeysOfAppend ==
  ASSUME NEW rows \in Seq(ResultRow), NEW r \in ResultRow
  PROVE  /\ KeysOf(Append(rows, r)) = KeysOf(rows) \cup {r.key}
         /\ Len(Append(rows, r)) = Len(rows) + 1
         /\ \A n \in DOMAIN rows : Append(rows, r)[n] = rows[n]
         /\ Append(rows, r)[Len(rows) + 1] = r
<1>1. /\ Len(Append(rows, r)) = Len(rows) + 1
      /\ \A n \in DOMAIN rows : Append(rows, r)[n] = rows[n]
      /\ Append(rows, r)[Len(rows) + 1] = r
      /\ DOMAIN Append(rows, r) = DOMAIN rows \cup {Len(rows) + 1}
  OBVIOUS
<1>. QED BY <1>1 DEF KeysOf

\* A page has one outcome (see OneOutcomePerPage), in whatever order results, failures,
\* retries and late writes commit.
THEOREM OneOutcome == StoreSpec => []OneOutcomePerPage
<1>1. StoreInit => OneOutcomePerPage
  BY DEF StoreInit, OneOutcomePerPage, KeysOf
<1>2. ASSUME StoreTypeOK, OneOutcomePerPage, [StoreNext]_storeVars
      PROVE  OneOutcomePerPage'
  <2>. SUFFICES ASSUME NEW j \in JobIds
                PROVE  /\ KeysOf(results'[j]) \cap failures'[j] = {}
                       /\ \A a, b \in DOMAIN results'[j] :
                            results'[j][a].key = results'[j][b].key => a = b
    BY DEF OneOutcomePerPage, KeysOf
  <2>1. CASE SamePages(j)
    BY <1>2, <2>1 DEF SamePages, OneOutcomePerPage
  <2>2. CASE NoPages(j)
    BY <2>2 DEF NoPages
  <2>3. CASE OneResult(j)
    <3>1. PICK r \in ResultRow, keys \in SUBSET PageKeys :
            /\ r.key \in keys /\ r.key \notin KeysOf(results[j])
            /\ results'[j] = Append(results[j], r)
            /\ failures'[j] = failures[j] \ keys
      BY <2>3 DEF OneResult
    <3>2. results[j] \in Seq(ResultRow)
      BY <1>2 DEF StoreTypeOK
    <3>3. KeysOf(results'[j]) \cap failures'[j] = {}
      BY <1>2, <3>1, <3>2, KeysOfAppend DEF OneOutcomePerPage
    <3>4. \A n \in DOMAIN results[j] : results[j][n].key # r.key
      BY <3>1 DEF KeysOf
    <3>5. DOMAIN results'[j] = DOMAIN results[j] \cup {Len(results[j]) + 1}
      BY <3>1, <3>2
    <3>6. \A a, b \in DOMAIN results'[j] : results'[j][a].key = results'[j][b].key => a = b
      BY <1>2, <3>1, <3>2, <3>4, <3>5, KeysOfAppend DEF OneOutcomePerPage
    <3>. QED BY <3>3, <3>6
  <2>4. CASE OneFailure(j)
    BY <1>2, <2>4 DEF OneFailure, OneOutcomePerPage
  <2>. QED BY <1>2, <2>1, <2>2, <2>3, <2>4, PageMoves DEF PageMove
<1>. QED BY <1>1, <1>2, StoreTypeCorrect, PTL DEF StoreSpec

\* Ordinals are stable (see ResultsAppendOnly), so a cursor keeps its meaning.
THEOREM OrdinalsStable == StoreSpec => ResultsAppendOnly
<1>1. ASSUME StoreTypeOK, [StoreNext]_storeVars
      PROVE  \A j \in JobIds :
               \/ /\ Len(results[j]) <= Len(results'[j])
                  /\ SubSeq(results'[j], 1, Len(results[j])) = results[j]
               \/ /\ results'[j] = <<>>
                  /\ job'[j].state \in {"expired", "purged"}
  <2>. TAKE j \in JobIds
  <2>1. results[j] \in Seq(ResultRow)
    BY <1>1 DEF StoreTypeOK
  <2>2. SubSeq(results[j], 1, Len(results[j])) = results[j]
    BY <2>1
  <2>3. ASSUME NEW r \in ResultRow, results'[j] = Append(results[j], r)
        PROVE  /\ Len(results[j]) <= Len(results'[j])
               /\ SubSeq(results'[j], 1, Len(results[j])) = results[j]
    BY <2>1, <2>3
  <2>. QED BY <1>1, <2>1, <2>2, <2>3, PageMoves
           DEF PageMove, SamePages, NoPages, OneResult, OneFailure
<1>. QED BY <1>1, StoreTypeCorrect, PTL DEF StoreSpec, ResultsAppendOnly

-----------------------------------------------------------------------------
(* The cap on retained rows.                                               *)

\* The sweep stores no row that was not stored.
LEMMA SweepStoresNothing ==
  ASSUME StoreTypeOK, NEW t \in ClockReadings
  PROVE  Stored(JobsAfterSweep(t)) \subseteq Stored(job)
<1>. SUFFICES ASSUME NEW j \in JobIds, JobsAfterSweep(t)[j].state \notin NoRowStates
              PROVE  job[j].state \notin NoRowStates
  BY DEF Stored
<1>1. CASE Due(j, t) \/ PurgeDue(j, t)
  BY <1>1 DEF Due, PurgeDue, Terminal, NoRowStates
<1>2. CASE ~(Due(j, t) \/ PurgeDue(j, t))
  BY <1>2, SweptOrSame
<1>. QED BY <1>1, <1>2

\* The retained-record cap (see RecordCap) holds however creates and sweeps interleave: a
\* create counts the rows inside the transaction that inserts one.
THEOREM RecordsCapped == StoreSpec => []RecordCap
<1>. DEFINE Inv == IsFiniteSet(Stored(job)) /\ RecordCap
<1>1. StoreInit => Inv
  <2>. SUFFICES ASSUME StoreInit PROVE Inv
    OBVIOUS
  <2>1. Stored(job) = {}
    BY DEF StoreInit, Stored, NoRow, NoRowStates
  <2>. QED BY <2>1, FS_EmptySet, StoreConstants DEF RecordCap
<1>2. ASSUME StoreTypeOK, Inv, [StoreNext]_storeVars
      PROVE  Inv'
  <2>1. CASE \E j \in JobIds : Inserted(j)
    <3>1. PICK j \in JobIds : Inserted(j)
      BY <2>1
    <3>2. PICK t \in ClockReadings :
            /\ ~(Cardinality(Stored(JobsAfterSweep(t))) >= MaxRecords)
            /\ \A k \in JobIds \ {j} : job'[k] = JobsAfterSweep(t)[k]
      BY <3>1 DEF Inserted
    <3>. DEFINE kept == Stored(JobsAfterSweep(t))
    <3>3. IsFiniteSet(kept) /\ Cardinality(kept) \in Nat
      BY <1>2, SweepStoresNothing, FS_Subset, FS_CardinalityType
    <3>4. Cardinality(kept) < MaxRecords
      BY <3>2, <3>3, StoreConstants
    <3>5. Stored(job') \subseteq kept \cup {j}
      BY <3>2 DEF Stored
    <3>6. IsFiniteSet(kept \cup {j}) /\ Cardinality(kept \cup {j}) <= Cardinality(kept) + 1
      <4>. HIDE DEF kept
      <4>1. /\ IsFiniteSet(kept \cup {j})
            /\ Cardinality(kept \cup {j}) =
                 IF j \in kept THEN Cardinality(kept) ELSE Cardinality(kept) + 1
        BY <3>3, FS_AddElement, Zenon
      <4>. QED BY <3>3, <4>1
    <3>7. /\ IsFiniteSet(Stored(job'))
          /\ Cardinality(Stored(job')) <= Cardinality(kept \cup {j})
      BY <3>5, <3>6, FS_Subset
    <3>8. Cardinality(Stored(job')) \in Nat /\ Cardinality(kept \cup {j}) \in Nat
      BY <3>6, <3>7, FS_CardinalityType
    <3>9. Cardinality(Stored(job')) <= MaxRecords
      <4>. HIDE DEF kept
      <4>. QED BY <3>3, <3>4, <3>6, <3>7, <3>8, StoreConstants
    <3>. QED BY <3>7, <3>9 DEF RecordCap, Stored
  <2>2. CASE ~\E j \in JobIds : Inserted(j)
    <3>1. Stored(job') \subseteq Stored(job)
      <4>. SUFFICES ASSUME NEW j \in JobIds, job'[j].state \notin NoRowStates
                    PROVE  job[j].state \notin NoRowStates
        BY DEF Stored
      <4>1. job'[j] = job[j] \/ Swept(j) \/ Worked(j)
        BY <1>2, <2>2, RowMoves DEF RowMove
      <4>. QED BY <4>1 DEF Swept, Worked, Due, PurgeDue, Terminal, NoRowStates
    <3>2. /\ IsFiniteSet(Stored(job'))
          /\ Cardinality(Stored(job')) <= Cardinality(Stored(job))
          /\ Cardinality(Stored(job')) \in Nat /\ Cardinality(Stored(job)) \in Nat
      BY <1>2, <3>1, FS_Subset, FS_CardinalityType
    <3>. QED BY <1>2, <3>2, StoreConstants DEF RecordCap, Stored
  <2>. QED BY <2>1, <2>2
<1>. QED BY <1>1, <1>2, StoreTypeCorrect, PTL DEF StoreSpec

-----------------------------------------------------------------------------
(* The store implements the lifecycle it promises for each job.            *)

\* A job that waits in the queue may run, and nobody has asked to cancel it.
QueuedCanRun ==
  \A j \in JobIds : job[j].state = "queued" => ~job[j].cancel /\ job[j].attempts < MaxAttempts

\* The moves of an unfinished job, in the vocabulary of the lifecycle.
Began(j)    == /\ job[j].state \in {"queued", "running"} /\ job[j].attempts < MaxAttempts
               /\ job'[j].state = "running" /\ job'[j].attempts = job[j].attempts + 1
               /\ job'[j].cancel = job[j].cancel
Requeued(j) == /\ job[j].state = "running" /\ ~job[j].cancel
               /\ job[j].attempts < MaxAttempts
               /\ job'[j].state = "queued" /\ job'[j].attempts = job[j].attempts
               /\ job'[j].cancel = FALSE
Asked(j)    == /\ job[j].state = "running" /\ job'[j].state = "running"
               /\ job'[j].attempts = job[j].attempts /\ job'[j].cancel = TRUE
EndedNow(j) == /\ job[j].state \in {"queued", "running"} /\ job'[j].state \in Terminal
               /\ job[j].state = "queued" \/ job[j].cancel <=> job'[j].state = "cancelled"
               /\ job'[j].attempts = job[j].attempts /\ job'[j].cancel = FALSE
SameLife(j) == /\ job'[j].state = job[j].state /\ job'[j].attempts = job[j].attempts
               /\ job'[j].cancel = job[j].cancel

\* A job that only waits, runs, ends or is asked to cancel makes a step of its lifecycle.
LEMMA LifeOfUnfinished ==
  ASSUME NEW i \in JobIds, results'[i] = results[i],
         Began(i) \/ Requeued(i) \/ Asked(i) \/ EndedNow(i) \/ SameLife(i)
  PROVE  Life!JobStep(i)
<1>1. CASE Began(i)
  <2>1. Life!Begin(i)
    BY <1>1 DEF Began, Life!Begin, Life!Moves, Phase, Terminal
  <2>. QED BY <2>1 DEF Life!JobStep
<1>2. CASE Requeued(i)
  <2>1. Life!Requeue(i)
    BY <1>2 DEF Requeued, Life!Requeue, Life!Moves, Phase, Terminal
  <2>. QED BY <2>1 DEF Life!JobStep
<1>3. CASE Asked(i)
  <2>1. Life!AskCancel(i)
    BY <1>3 DEF Asked, Life!AskCancel, Life!SamePhase, Phase, Terminal
  <2>. QED BY <2>1 DEF Life!JobStep
<1>4. CASE EndedNow(i)
  <2>1. Life!End(i)
    BY <1>4 DEF EndedNow, Life!End, Life!Moves, Phase, Terminal
  <2>. QED BY <2>1 DEF Life!JobStep
<1>5. CASE SameLife(i)
  <2>1. Life!Still(i)
    BY <1>5 DEF SameLife, Life!Still, Life!SamePhase, Phase, Terminal
  <2>. QED BY <2>1 DEF Life!JobStep
<1>. QED BY <1>1, <1>2, <1>3, <1>4, <1>5

\* The sweep forgets a job's results with its verdict, or leaves the job alone.
LEMMA LifeOfSwept ==
  ASSUME StoreTypeOK, NEW t \in ClockReadings, SweepContents(t), NEW i \in JobIds,
         job'[i] = JobsAfterSweep(t)[i]
  PROVE  Life!JobStep(i)
<1>1. job[i] \in Row /\ job'[i] = RowAfterSweep(i, t)
  BY SweptOrSame DEF StoreTypeOK
<1>2. CASE Due(i, t) \/ PurgeDue(i, t)
  <2>1. job[i].state \in Terminal \cup {"expired"} /\ results'[i] = <<>>
    BY <1>2 DEF Due, PurgeDue, SweepContents
  <2>2. CASE PurgeDue(i, t)
    <3>1. job'[i] = NoRow("purged")
      BY <1>1, <2>2 DEF RowAfterSweep
    <3>2. job'[i].state = "purged" /\ job'[i].cancel = FALSE /\ job'[i].attempts = 0
      BY <3>1 DEF NoRow
    <3>3. Life!Forget(i)
      BY <2>1, <3>2 DEF Life!Forget, Life!Moves, Phase, Terminal
    <3>. QED BY <3>3 DEF Life!JobStep
  <2>3. CASE ~PurgeDue(i, t)
    <3>1. /\ job[i].state \in Terminal
          /\ job'[i].state = "expired" /\ job'[i].cancel = FALSE
          /\ job'[i].attempts = job[i].attempts
      BY <1>1, <1>2, <2>3 DEF RowAfterSweep, Due, Row
    <3>2. Life!Forget(i)
      BY <2>1, <3>1 DEF Life!Forget, Life!Moves, Phase, Terminal
    <3>. QED BY <3>2 DEF Life!JobStep
  <2>. QED BY <2>2, <2>3
<1>3. CASE ~(Due(i, t) \/ PurgeDue(i, t))
  <2>1. results'[i] = results[i] /\ SameLife(i)
    BY <1>1, <1>3, SweptOrSame DEF SweepContents, SameLife
  <2>. QED BY <2>1, LifeOfUnfinished
<1>. QED BY <1>2, <1>3

\* A page is kept once, at the end, until retention takes the results away.
LEMMA LifeOfResult ==
  ASSUME StoreTypeOK, NEW i \in JobIds, NEW r \in ResultRow, SameLife(i), HasRow(i),
         r.key \notin KeysOf(results[i]), results'[i] = Append(results[i], r)
  PROVE  Life!JobStep(i)
<1>1. CASE job[i].state = "expired"
  <2>1. Life!Still(i)
    BY <1>1 DEF SameLife, Life!Still, Life!SamePhase, Phase, Terminal
  <2>. QED BY <2>1 DEF Life!JobStep
<1>2. CASE job[i].state # "expired"
  <2>1. \A n \in DOMAIN results[i] : results[i][n].key # r.key
    BY DEF KeysOf
  <2>2. job[i].state \in {"queued", "running"} \cup Terminal
    BY <1>2 DEF HasRow, StoreTypeOK, Row, States
  <2>3. Life!Keep(i)
    BY <1>2, <2>1, <2>2 DEF SameLife, Life!Keep, Life!SamePhase, Phase, Terminal
  <2>. QED BY <2>3 DEF Life!JobStep
<1>. QED BY <1>1, <1>2

\* Each transaction makes, for each job, one step of its lifecycle.
LEMMA LifeSteps ==
  ASSUME StoreTypeOK, QueuedCanRun, [StoreNext]_storeVars, NEW i \in JobIds
  PROVE  Life!JobStep(i)
<1>0. job[i] \in Row
  BY DEF StoreTypeOK
<1>1. CASE UNCHANGED storeVars \/ Tick
  <2>1. results'[i] = results[i] /\ SameLife(i)
    BY <1>1 DEF storeVars, Tick, SameLife
  <2>. QED BY <2>1, LifeOfUnfinished
<1>2. ASSUME NEW t \in ClockReadings, Sweep(t) \/ ClaimNothing(t)
      PROVE  Life!JobStep(i)
  BY <1>2, LifeOfSwept DEF Sweep, ClaimNothing
<1>3. ASSUME NEW t \in ClockReadings, RecoverInterrupted(t)
      PROVE  Life!JobStep(i)
  <2>1. job'[i] = RecoveredRow(job[i], t) /\ results'[i] = results[i]
    BY <1>3 DEF RecoverInterrupted
  <2>2. CASE job[i].state # "running"
    BY <2>1, <2>2, LifeOfUnfinished DEF RecoveredRow, SameLife
  <2>3. CASE job[i].state = "running" /\ job[i].cancel
    <3>1. job'[i] = Ended(job[i], "cancelled", t)
      BY <2>1, <2>3 DEF RecoveredRow
    <3>2. EndedNow(i)
      BY <1>0, <2>3, <3>1 DEF Ended, EndedNow, Row, Terminal
    <3>. QED BY <2>1, <3>2, LifeOfUnfinished
  <2>4. CASE job[i].state = "running" /\ ~job[i].cancel /\ job[i].attempts >= MaxAttempts
    <3>1. job'[i] = Ended(job[i], "failed", t)
      BY <2>1, <2>4 DEF RecoveredRow
    <3>2. EndedNow(i)
      BY <1>0, <2>4, <3>1 DEF Ended, EndedNow, Row, Terminal
    <3>. QED BY <2>1, <3>2, LifeOfUnfinished
  <2>5. CASE job[i].state = "running" /\ ~job[i].cancel /\ ~(job[i].attempts >= MaxAttempts)
    <3>1. job'[i] = [job[i] EXCEPT !.state = "queued"]
      BY <2>1, <2>5 DEF RecoveredRow
    <3>2. job'[i].state = "queued" /\ job'[i].cancel = job[i].cancel
      BY <1>0, <3>1 DEF Row
    <3>3. job'[i].attempts = job[i].attempts /\ job[i].cancel \in BOOLEAN
      BY <1>0, <3>1 DEF Row
    <3>4. job[i].attempts < MaxAttempts
      BY <1>0, <2>5, StoreConstants DEF Row
    <3>5. Requeued(i)
      BY <2>5, <3>2, <3>3, <3>4 DEF Requeued
    <3>. QED BY <2>1, <3>5, LifeOfUnfinished
  <2>. QED BY <2>2, <2>3, <2>4, <2>5
<1>4. ASSUME NEW t \in ClockReadings,
             NEW j \in JobIds, NEW c \in Claims, NEW p \in Prints, Claim(j, c, p, t)
      PROVE  Life!JobStep(i)
  <2>. DEFINE rows == JobsAfterSweep(t)
              new == [NoRow("queued") EXCEPT !.claim = c, !.print = p, !.created = t]
  <2>1. /\ job' = rows \/ job' = [rows EXCEPT ![j] = new]
        /\ job[j].state = "absent" /\ SweepContents(t)
    BY <1>4 DEF Claim
  <2>2. rows \in [JobIds -> Row]
    BY SweepTyped, ReadingIsPast
  <2>3. job'[i] = rows[i] \/ (i = j /\ job'[i] = new)
    <3>. HIDE DEF rows, new
    <3>. QED BY <2>1, <2>2
  <2>4. CASE i = j /\ job'[i] = new
    <3>1. new.state = "queued" /\ new.cancel = FALSE /\ new.attempts = 0
      BY DEF NoRow
    <3>2. results'[i] = results[i]
      BY <2>1, <2>4 DEF SweepContents, Due, PurgeDue, Terminal
    <3>3. Life!Accept(i)
      <4>. HIDE DEF new
      <4>. QED BY <2>1, <2>4, <3>1, <3>2 DEF Life!Accept, Life!Moves, Phase, Terminal
    <3>. QED BY <3>3 DEF Life!JobStep
  <2>. QED BY <2>1, <2>3, <2>4, LifeOfSwept
<1>5. ASSUME NEW t \in ClockReadings, NEW j \in JobIds, ClaimNext(j, t)
      PROVE  Life!JobStep(i)
  <2>. DEFINE rows == JobsAfterSweep(t)
  <2>1. rows \in [JobIds -> Row]
    BY SweepTyped, ReadingIsPast
  <2>2. /\ rows[j].state = "queued" /\ SweepContents(t)
        /\ job' = [rows EXCEPT ![j].state = "running", ![j].attempts = @ + 1]
    BY <1>5 DEF ClaimNext, IsNext, Queued
  <2>3. rows[j] = job[j]
    BY <2>2, SweptOrSame
  <2>4. CASE i = j
    <3>1. /\ job'[i].state = "running" /\ job'[i].attempts = rows[i].attempts + 1
          /\ job'[i].cancel = rows[i].cancel
      <4>. HIDE DEF rows
      <4>. QED BY <2>1, <2>2, <2>4 DEF Row
    <3>2. results'[i] = results[i]
      BY <2>2, <2>3, <2>4 DEF SweepContents, Due, PurgeDue, Terminal
    <3>3. Began(i)
      BY <2>2, <2>3, <2>4, <3>1 DEF Began, QueuedCanRun
    <3>. QED BY <3>2, <3>3, LifeOfUnfinished
  <2>5. CASE i # j
    <3>1. job'[i] = rows[i]
      <4>. HIDE DEF rows
      <4>. QED BY <2>1, <2>2, <2>5
    <3>. QED BY <2>2, <3>1, LifeOfSwept
  <2>. QED BY <2>4, <2>5
<1>6. ASSUME NEW t \in ClockReadings, NEW j \in JobIds, RequestCancel(j, t)
      PROVE  Life!JobStep(i)
  <2>. DEFINE rows == JobsAfterSweep(t)
  <2>1. rows \in [JobIds -> Row]
    BY SweepTyped, ReadingIsPast
  <2>2. /\ job' = CASE rows[j].state = "queued"  -> [rows EXCEPT ![j] = Ended(@, "cancelled", t)]
                    [] rows[j].state = "running" -> [rows EXCEPT ![j].cancel = TRUE]
                    [] OTHER                     -> rows
        /\ SweepContents(t)
    BY <1>6 DEF RequestCancel
  <2>3. rows[j].state \in {"queued", "running"} => rows[j] = job[j]
    BY SweptOrSame
  <2>4. CASE i # j \/ rows[j].state \notin {"queued", "running"}
    <3>1. job'[i] = rows[i]
      <4>. HIDE DEF rows
      <4>. QED BY <2>1, <2>2, <2>4
    <3>. QED BY <2>2, <3>1, LifeOfSwept
  <2>5. CASE i = j /\ rows[j].state \in {"queued", "running"}
    <3>1. \/ /\ rows[i].state = "queued" /\ job'[i].state = "cancelled"
             /\ job'[i].cancel = FALSE /\ job'[i].attempts = rows[i].attempts
          \/ /\ rows[i].state = "running" /\ job'[i].state = "running"
             /\ job'[i].cancel = TRUE /\ job'[i].attempts = rows[i].attempts
      <4>. HIDE DEF rows
      <4>. QED BY <2>1, <2>2, <2>5 DEF Row, Ended
    <3>2. results'[i] = results[i]
      BY <2>2, <2>3, <2>5 DEF SweepContents, Due, PurgeDue, Terminal
    <3>3. EndedNow(i) \/ Asked(i)
      BY <2>3, <2>5, <3>1 DEF EndedNow, Asked, Terminal
    <3>. QED BY <3>2, <3>3, LifeOfUnfinished
  <2>. QED BY <2>4, <2>5
<1>7. ASSUME NEW t \in ClockReadings, NEW j \in JobIds, NEW v \in Verdicts,
             job[j].state # "queued", Finish(j, v, t)
      PROVE  Life!JobStep(i)
  <2>1. results'[i] = results[i]
    BY <1>7 DEF Finish
  <2>2. \/ job'[i] = job[i]
        \/ /\ job[i].state = "running"
           /\ job'[i] = Ended(job[i], IF job[i].cancel THEN "cancelled" ELSE v, t)
    BY <1>7 DEF Finish, StoreTypeOK
  <2>3. ASSUME NEW w \in Terminal
        PROVE  /\ Ended(job[i], w, t).state = w /\ Ended(job[i], w, t).cancel = FALSE
               /\ Ended(job[i], w, t).attempts = job[i].attempts
    BY <1>0 DEF Ended, Row
  <2>4. /\ (IF job[i].cancel THEN "cancelled" ELSE v) \in Terminal
        /\ job[i].cancel <=> (IF job[i].cancel THEN "cancelled" ELSE v) = "cancelled"
    BY DEF Verdicts, Terminal
  <2>5. SameLife(i) \/ EndedNow(i)
    BY <2>2, <2>3, <2>4 DEF SameLife, EndedNow
  <2>. QED BY <2>1, <2>5, LifeOfUnfinished
<1>8. ASSUME NEW j \in JobIds, job[j].attempts < MaxAttempts, IncrementAttempt(j)
      PROVE  Life!JobStep(i)
  <2>1. results'[i] = results[i]
    BY <1>8 DEF IncrementAttempt
  <2>2. SameLife(i) \/ Began(i)
    BY <1>8 DEF IncrementAttempt, StoreTypeOK, Row, SameLife, Began
  <2>. QED BY <2>1, <2>2, LifeOfUnfinished
<1>9. ASSUME NEW j \in JobIds, NEW r \in ResultRow, NEW k \in PageKeys, AppendResult(j, r, {k})
      PROVE  Life!JobStep(i)
  <2>. DEFINE new == [job[j] EXCEPT !.processed = MaxZero(@ - Prior(j, {r.key} \cup {k}) + 1),
                                    !.succeeded = IF r.content THEN @ + 1 ELSE @,
                                    !.failed = MaxZero(@ - Prior(j, {r.key} \cup {k})
                                                       + IF r.content THEN 0 ELSE 1)]
  <2>1. job' = job \/ job' = [job EXCEPT ![j] = new]
    BY <1>9 DEF AppendResult
  <2>2. /\ new.state = job[j].state /\ new.cancel = job[j].cancel
        /\ new.attempts = job[j].attempts
    BY DEF StoreTypeOK, Row
  <2>3. SameLife(i)
    <3>. HIDE DEF new
    <3>. QED BY <2>1, <2>2 DEF SameLife, StoreTypeOK
  <2>4. \/ results'[i] = results[i]
        \/ /\ HasRow(i) /\ r.key \notin KeysOf(results[i])
           /\ results'[i] = Append(results[i], r)
    BY <1>9 DEF AppendResult, StoreTypeOK
  <2>. QED BY <2>3, <2>4, LifeOfUnfinished, LifeOfResult
<1>10. ASSUME NEW j \in JobIds, NEW k \in PageKeys, AppendFailure(j, k)
       PROVE  Life!JobStep(i)
  <2>1. results'[i] = results[i] /\ SameLife(i)
    BY <1>10 DEF AppendFailure, StoreTypeOK, Row, SameLife
  <2>. QED BY <2>1, LifeOfUnfinished
<1>. QED BY <1>1, <1>2, <1>3, <1>4, <1>5, <1>6, <1>7, <1>8, <1>9, <1>10 DEF StoreNext

\* No transaction leaves a job in the queue that may not run.
LEMMA QueuedCanRunStep ==
  ASSUME StoreTypeOK, QueuedCanRun, [StoreNext]_storeVars
  PROVE  QueuedCanRun'
<1>. SUFFICES ASSUME NEW j \in JobIds, job'[j].state = "queued"
              PROVE  ~job'[j].cancel /\ job'[j].attempts < MaxAttempts
  BY DEF QueuedCanRun
<1>1. Life!JobStep(j)
  BY LifeSteps
<1>. USE DEF Phase, Terminal, Life!JobStep, Life!Accept, Life!Begin, Life!Requeue,
             Life!AskCancel, Life!End, Life!Keep, Life!Forget, Life!Still, Life!Moves,
             Life!SamePhase
<1>2. CASE job[j].state = "queued"
  BY <1>1, <1>2, StoreConstants DEF QueuedCanRun
<1>3. CASE job[j].state # "queued"
  BY <1>1, <1>3, StoreConstants
<1>. QED BY <1>2, <1>3

\* The store implements the abstract lifecycle of each job (see EveryJobLives), for any
\* number of jobs and any interleaving of its callers' transactions.
THEOREM StoreImplementsLifecycle == StoreSpec => EveryJobLives
<1>1. StoreInit => QueuedCanRun /\ Life!Init
  BY DEF StoreInit, QueuedCanRun, NoRow, Life!Init, Phase, Terminal
<1>2. ASSUME StoreTypeOK, QueuedCanRun, [StoreNext]_storeVars
      PROVE  QueuedCanRun'
  BY <1>2, QueuedCanRunStep
<1>3. ASSUME StoreTypeOK, QueuedCanRun, [StoreNext]_storeVars
      PROVE  [Life!Next]_(Life!lifeVars)
  BY <1>3, LifeSteps DEF Life!Next
<1>. QED BY <1>1, <1>2, <1>3, StoreTypeCorrect, PTL DEF StoreSpec, EveryJobLives, Life!Spec

-----------------------------------------------------------------------------
(* Paging through the results of a job, for any number of jobs, pages and  *)
(* requests, any page size, and whatever the store does between two        *)
(* SELECTs of a request: the inductive invariant.                          *)

\* Until retention removes them the results of the job are all it has ever stored; after
\* that only a late write puts anything there.
Recorded ==
  /\ ~Removed => results[Watched] = ever
  /\ Removed /\ ~regrown => results[Watched] = <<>>
  /\ regrown => Removed
  /\ job[Watched].state \in {"queued", "running"} => atEnd = Len(ever)
  /\ atEnd <= Len(ever)

\* Before the job exists nobody asks for its results.
Unborn == job[Watched].state = "absent" => ever = <<>> /\ step = "idle" /\ answer = "none"

\* The client has the first pages, up to its cursor.
Place ==
  /\ cursor = Len(got)
  /\ regrown \/ (Len(got) <= Len(ever) /\ got = SubSeq(ever, 1, Len(got)))

\* What a request has read may be old, but not of another job: a verdict stays, and results
\* only grow until they are removed.
Seen ==
  /\ step \in {"count", "page"} => view \notin NoRowStates \cup {"expired"}
  /\ step \in {"count", "page"} /\ view \in Terminal => Removed \/ job[Watched].state \in Terminal
  /\ step = "page" => Removed \/ cursor <= count

\* What the client was told holds as long as the results are there.
Told ==
  /\ answer = "complete" => Removed \/ (job[Watched].state \in Terminal /\ atEnd <= Len(got))
  /\ answer = "invalid" => Removed

PagesInv == StoreTypeOK /\ PagesTypeOK /\ Recorded /\ Unborn /\ Place /\ Seen /\ Told

-----------------------------------------------------------------------------
(* What the store does to the job.                                         *)

\* The row of the job goes on, or ends.
Follows ==
  \/ job'[Watched].state = job[Watched].state
  \/ job[Watched].state = "absent" /\ job'[Watched].state = "queued"
  \/ /\ job[Watched].state \in {"queued", "running"}
     /\ job'[Watched].state \in {"queued", "running"} \cup Terminal

\* The results are removed, stay, or grow by one, whatever the state of the row.
WatchedStep ==
  \/ /\ job[Watched].state # "absent" /\ job'[Watched].state \in {"expired", "purged"}
     /\ results'[Watched] = <<>>
  \/ Follows /\ results'[Watched] = results[Watched]
  \/ /\ job'[Watched].state = job[Watched].state /\ HasRow(Watched)
     /\ \E r \in ResultRow : results'[Watched] = Append(results[Watched], r)

\* A transaction that begins with the sweep.
LEMMA SweepWatched ==
  ASSUME StoreTypeOK, NEW t \in ClockReadings, SweepContents(t),
         LET rows == JobsAfterSweep(t)
         IN \/ job'[Watched] = rows[Watched]
            \/ /\ rows[Watched].state = "absent" /\ job'[Watched].state = "queued"
            \/ /\ rows[Watched].state \in {"queued", "running"}
               /\ job'[Watched].state \in {"queued", "running"} \cup Terminal
  PROVE  WatchedStep
<1>1. Watched \in JobIds /\ job[Watched] \in Row
  BY ReaderConstants DEF StoreTypeOK
<1>2. CASE Due(Watched, t) \/ PurgeDue(Watched, t)
  <2>1. results'[Watched] = <<>>
    BY <1>1, <1>2 DEF SweepContents
  <2>2. RowAfterSweep(Watched, t).state \in {"expired", "purged"}
    BY <1>1, <1>2 DEF RowAfterSweep, NoRow, Row
  <2>3. JobsAfterSweep(t)[Watched] = RowAfterSweep(Watched, t)
    BY <1>1 DEF JobsAfterSweep
  <2>4. job[Watched].state # "absent"
    BY <1>2 DEF Due, PurgeDue, Terminal
  <2>. QED BY <2>1, <2>2, <2>3, <2>4 DEF WatchedStep
<1>3. CASE ~(Due(Watched, t) \/ PurgeDue(Watched, t))
  <2>1. results'[Watched] = results[Watched]
    BY <1>1, <1>3 DEF SweepContents
  <2>2. JobsAfterSweep(t)[Watched] = job[Watched]
    BY <1>1, <1>3, SweptOrSame
  <2>. QED BY <2>1, <2>2 DEF WatchedStep, Follows
<1>. QED BY <1>2, <1>3

\* Every transaction of the store moves the watched job on.
LEMMA WatchedMoves ==
  ASSUME StoreTypeOK, [StoreNext]_storeVars
  PROVE  WatchedStep
<1>0. Watched \in JobIds /\ job[Watched] \in Row /\ job \in [JobIds -> Row]
      /\ results \in [JobIds -> Seq(ResultRow)]
  BY ReaderConstants DEF StoreTypeOK
<1>1. CASE UNCHANGED storeVars \/ Tick
  BY <1>1 DEF storeVars, Tick, WatchedStep, Follows
<1>2. ASSUME NEW t \in ClockReadings, Sweep(t)
      PROVE  WatchedStep
  BY <1>2, SweepWatched DEF Sweep
<1>3. ASSUME NEW t \in ClockReadings, RecoverInterrupted(t)
      PROVE  WatchedStep
  <2>1. job'[Watched] = RecoveredRow(job[Watched], t) /\ results' = results
    BY <1>0, <1>3 DEF RecoverInterrupted
  <2>2. Follows
    BY <1>0, <2>1 DEF RecoveredRow, Ended, Row, Follows, Terminal
  <2>. QED BY <2>1, <2>2 DEF WatchedStep
<1>4. ASSUME NEW t \in ClockReadings, NEW j \in JobIds, NEW c \in Claims, NEW p \in Prints,
             Claim(j, c, p, t)
      PROVE  WatchedStep
  <2>. DEFINE rows == JobsAfterSweep(t)
              new == [NoRow("queued") EXCEPT !.claim = c, !.print = p, !.created = t]
  <2>1. /\ job[j].state = "absent" /\ SweepContents(t)
        /\ job' = rows \/ job' = [rows EXCEPT ![j] = new]
    BY <1>4 DEF Claim
  <2>2. new.state = "queued"
    BY DEF NoRow
  <2>3. rows[j].state = "absent"
    BY <2>1, SweptOrSame
  <2>4. rows \in [JobIds -> Row]
    BY SweepTyped, ReadingIsPast
  <2>. HIDE DEF rows, new
  <2>5. \/ job'[Watched] = rows[Watched]
        \/ rows[Watched].state = "absent" /\ job'[Watched].state = "queued"
    BY <1>0, <2>1, <2>2, <2>3, <2>4
  <2>. QED BY <2>1, <2>5, SweepWatched DEF rows
<1>5. ASSUME NEW t \in ClockReadings, NEW j \in JobIds, ClaimNext(j, t)
      PROVE  WatchedStep
  <2>. DEFINE rows == JobsAfterSweep(t)
  <2>1. /\ rows[j].state = "queued" /\ SweepContents(t)
        /\ job' = [rows EXCEPT ![j].state = "running", ![j].attempts = rows[j].attempts + 1]
    BY <1>5 DEF ClaimNext, IsNext, Queued
  <2>2. rows \in [JobIds -> Row]
    BY SweepTyped, ReadingIsPast
  <2>. HIDE DEF rows
  <2>3. \/ job'[Watched] = rows[Watched]
        \/ rows[Watched].state = "queued" /\ job'[Watched].state = "running"
    BY <1>0, <2>1, <2>2 DEF Row
  <2>. QED BY <2>1, <2>3, SweepWatched DEF rows
<1>6. ASSUME NEW t \in ClockReadings, NEW j \in JobIds, HasRow(j), RequestCancel(j, t)
      PROVE  WatchedStep
  <2>. DEFINE rows == JobsAfterSweep(t)
  <2>1. /\ SweepContents(t)
        /\ \/ job' = rows
           \/ rows[j].state = "queued" /\ job' = [rows EXCEPT ![j] = Ended(rows[j], "cancelled", t)]
           \/ rows[j].state = "running" /\ job' = [rows EXCEPT ![j].cancel = TRUE]
    BY <1>6 DEF RequestCancel
  <2>2. rows \in [JobIds -> Row]
    BY SweepTyped, ReadingIsPast
  <2>. HIDE DEF rows
  <2>3. Ended(rows[j], "cancelled", t).state = "cancelled"
    BY <2>2 DEF Ended, Row
  <2>4. \/ job'[Watched] = rows[Watched]
        \/ /\ rows[Watched].state \in {"queued", "running"}
           /\ job'[Watched].state \in {"queued", "running"} \cup Terminal
    <3>1. CASE j # Watched \/ job' = rows
      BY <1>0, <2>1, <2>2, <3>1
    <3>2. CASE j = Watched /\ rows[j].state = "queued"
               /\ job' = [rows EXCEPT ![j] = Ended(rows[j], "cancelled", t)]
      BY <1>0, <2>2, <2>3, <3>2 DEF Terminal
    <3>3. CASE j = Watched /\ rows[j].state = "running" /\ job' = [rows EXCEPT ![j].cancel = TRUE]
      BY <1>0, <2>2, <3>3 DEF Row
    <3>. QED BY <2>1, <3>1, <3>2, <3>3
  <2>. QED BY <2>1, <2>4, SweepWatched DEF rows
<1>7. ASSUME NEW t \in ClockReadings, NEW j \in JobIds, NEW v \in Verdicts, Finish(j, v, t)
      PROVE  WatchedStep
  <2>. DEFINE new == Ended(job[j], IF job[j].cancel THEN "cancelled" ELSE v, t)
  <2>1. /\ results' = results
        /\ \/ job' = job
           \/ job[j].state \in {"queued", "running"} /\ job' = [job EXCEPT ![j] = new]
    BY <1>0, <1>7 DEF Finish
  <2>2. new.state \in Terminal
    BY <1>0 DEF Ended, Row, Terminal, Verdicts
  <2>. HIDE DEF new
  <2>3. Follows
    BY <1>0, <2>1, <2>2 DEF Follows
  <2>. QED BY <2>1, <2>3 DEF WatchedStep
<1>8. ASSUME NEW j \in JobIds, NEW r \in ResultRow, NEW k \in PageKeys, AppendResult(j, r, {k})
      PROVE  WatchedStep
  <2>. DEFINE prior == Prior(j, {r.key} \cup {k})
              good == IF r.content THEN job[j].succeeded + 1 ELSE job[j].succeeded
              all  == MaxZero(job[j].processed - prior + 1)
              bad  == MaxZero(job[j].failed - prior + IF r.content THEN 0 ELSE 1)
              new  == [job[j] EXCEPT !.processed = all, !.succeeded = good, !.failed = bad]
  <2>1. job' = job \/ job' = [job EXCEPT ![j] = new]
    BY <1>0, <1>8 DEF AppendResult
  <2>2. new.state = job[j].state
    <3>. HIDE DEF prior, good, all, bad
    <3>. QED BY <1>0 DEF Row
  <2>3. job'[Watched].state = job[Watched].state
    <3>. HIDE DEF new
    <3>. QED BY <1>0, <2>1, <2>2
  <2>4. \/ results' = results
        \/ HasRow(j) /\ results' = [results EXCEPT ![j] = Append(results[j], r)]
    BY <1>0, <1>8 DEF AppendResult
  <2>. QED BY <1>0, <2>3, <2>4 DEF WatchedStep, Follows
<1>9. ASSUME NEW j \in JobIds, NEW k \in PageKeys, AppendFailure(j, k)
      PROVE  WatchedStep
  <2>. DEFINE new == [job[j] EXCEPT !.processed = job[j].processed + 1,
                                    !.failed = job[j].failed + 1]
  <2>1. results' = results /\ (job' = job \/ job' = [job EXCEPT ![j] = new])
    BY <1>0, <1>9 DEF AppendFailure
  <2>2. new.state = job[j].state
    BY <1>0 DEF Row
  <2>. HIDE DEF new
  <2>3. job'[Watched].state = job[Watched].state
    BY <1>0, <2>1, <2>2
  <2>. QED BY <2>1, <2>3 DEF WatchedStep, Follows
<1>10. ASSUME NEW j \in JobIds, IncrementAttempt(j)
       PROVE  WatchedStep
  <2>1. job'[Watched].state = job[Watched].state /\ results' = results
    BY <1>0, <1>10 DEF IncrementAttempt, Row
  <2>. QED BY <2>1 DEF WatchedStep, Follows
<1>. QED BY <1>1, <1>2, <1>3, <1>4, <1>5, <1>6, <1>7, <1>8, <1>9, <1>10
         DEF StoreNext, ClaimNothing

\* The steps of a request are transactions of the store, or change none of its tables.
LEMMA StoreMoves ==
  ASSUME StoreTypeOK, [PagesNext]_pageVars
  PROVE  [StoreNext]_storeVars /\ WatchedStep
<1>1. ASSUME NEW t \in ClockReadings, Sweep(t)
      PROVE  StoreNext
  BY <1>1 DEF StoreNext
<1>2. [StoreNext]_storeVars
  BY <1>1 DEF PagesNext, pageVars, Request, ReadRow, ReadCount, ReadPage, Others
<1>. QED BY <1>2, WatchedMoves

-----------------------------------------------------------------------------
(* The history of the results.                                             *)

\* Appending to a sequence leaves its beginnings alone.
LEMMA PrefixOfAppend ==
  ASSUME NEW S, NEW s \in Seq(S), NEW e \in S, NEW n \in 0..Len(s)
  PROVE  SubSeq(Append(s, e), 1, n) = SubSeq(s, 1, n)
<1>. DEFINE t == Append(s, e)
<1>1. t \in Seq(S) /\ Len(t) = Len(s) + 1 /\ \A i \in 1..Len(s) : t[i] = s[i]
  BY AppendProperties
<1>2. Len(s) \in Nat
  BY LenProperties
<1>. HIDE DEF t
<1>3. (\A i \in 1..n : t[i] \in S) /\ (\A i \in 1..n : s[i] \in S)
  BY <1>1, <1>2, ElementOfSeq
<1>4. /\ SubSeq(t, 1, n) \in Seq(S) /\ Len(SubSeq(t, 1, n)) = n
      /\ \A i \in 1..n : SubSeq(t, 1, n)[i] = t[i]
  BY <1>2, <1>3, SubSeqProperties
<1>5. /\ SubSeq(s, 1, n) \in Seq(S) /\ Len(SubSeq(s, 1, n)) = n
      /\ \A i \in 1..n : SubSeq(s, 1, n)[i] = s[i]
  BY <1>2, <1>3, SubSeqProperties
<1>6. SubSeq(t, 1, n) = SubSeq(s, 1, n)
  BY <1>1, <1>2, <1>4, <1>5, SeqEqual
<1>. QED BY <1>6 DEF t

\* A step that leaves the store alone has nothing to remember.
LEMMA NothingNew ==
  ASSUME PagesTypeOK, Recorded, UNCHANGED <<storeVars, historyVars>>
  PROVE  Remember
<1>. USE DEF storeVars, historyVars
<1>1. Removed' <=> Removed
  BY DEF Removed
<1>2. ever' = IF Removed' THEN ever ELSE results'[Watched]
  BY <1>1 DEF Recorded
<1>3. atEnd' = IF job'[Watched].state \in {"queued", "running"} THEN Len(results'[Watched]) ELSE atEnd
  BY DEF Recorded, Removed
<1>4. regrown' = (regrown \/ (Removed' /\ results'[Watched] # <<>>))
  BY <1>1 DEF Recorded, PagesTypeOK
<1>. QED BY <1>2, <1>3, <1>4 DEF Remember

\* The history grows with the results and outlives them; what the client has stays the
\* beginning of it, and what was stored when the job ended stays so.
LEMMA HistoryStep ==
  ASSUME StoreTypeOK, PagesTypeOK, Recorded, Unborn, Place, WatchedStep, Remember
  PROVE  /\ ever' \in Seq(ResultRow) /\ atEnd' \in Nat /\ regrown' \in BOOLEAN
         /\ Recorded'
         /\ regrown' \/ (Len(got) <= Len(ever') /\ got = SubSeq(ever', 1, Len(got)))
         /\ job'[Watched].state = "absent" => job[Watched].state = "absent" /\ ever' = <<>>
         /\ Removed => Removed'
         /\ job[Watched].state \in Terminal =>
              Removed' \/ (job'[Watched].state \in Terminal /\ atEnd' = atEnd)
<1>1. /\ got \in Seq(ResultRow) /\ ever \in Seq(ResultRow) /\ Len(got) \in Nat /\ Len(ever) \in Nat
      /\ <<>> \in Seq(ResultRow) /\ Len(<<>>) = 0 /\ atEnd \in Nat /\ regrown \in BOOLEAN
  BY LenProperties, EmptySeq DEF PagesTypeOK
<1>2. CASE /\ job[Watched].state # "absent" /\ job'[Watched].state \in {"expired", "purged"}
           /\ results'[Watched] = <<>>
  <2>1. Removed' /\ ever' = ever /\ atEnd' = atEnd /\ regrown' = regrown
    BY <1>1, <1>2 DEF Remember, Removed
  <2>. QED BY <1>1, <1>2, <2>1 DEF Recorded, Place
<1>3. CASE Follows /\ results'[Watched] = results[Watched]
  <2>1. Removed' <=> Removed
    BY <1>3 DEF Removed, Follows, Terminal
  <2>2. ever' = ever /\ regrown' = regrown
    BY <1>1, <1>3, <2>1 DEF Remember, Recorded
  <2>3. atEnd' = IF job'[Watched].state \in {"queued", "running"} THEN Len(ever) ELSE atEnd
    BY <1>3, <2>1 DEF Remember, Recorded, Removed
  <2>4. job[Watched].state \in Terminal => job'[Watched].state \in Terminal /\ atEnd' = atEnd
    BY <1>3, <2>3 DEF Follows, Terminal
  <2>5. job'[Watched].state = "absent" => job[Watched].state = "absent"
    BY <1>3 DEF Follows, Terminal
  <2>. QED BY <1>1, <1>3, <2>1, <2>2, <2>3, <2>4, <2>5 DEF Recorded, Unborn, Place
<1>4. CASE /\ job'[Watched].state = job[Watched].state /\ HasRow(Watched)
           /\ \E r \in ResultRow : results'[Watched] = Append(results[Watched], r)
  <2>1. Removed' <=> Removed
    BY <1>4 DEF Removed
  <2>2. job[Watched].state # "absent"
    BY <1>4 DEF HasRow, NoRowStates
  <2>3. CASE Removed
    <3>1. PICK r \in ResultRow : results'[Watched] = Append(results[Watched], r)
      BY <1>4
    <3>2. results'[Watched] # <<>>
      <4>1. results[Watched] \in Seq(ResultRow)
        BY ReaderConstants DEF StoreTypeOK
      <4>. QED BY <1>1, <3>1, <4>1, AppendProperties, LenProperties
    <3>3. ever' = ever /\ atEnd' = atEnd /\ regrown' = TRUE
      BY <1>4, <2>1, <2>3, <3>2 DEF Remember, Removed
    <3>. QED BY <1>1, <1>4, <2>1, <2>2, <2>3, <3>3 DEF Recorded, Removed
  <2>4. CASE ~Removed
    <3>1. PICK r \in ResultRow : results'[Watched] = Append(ever, r)
      BY <1>4, <2>4 DEF Recorded
    <3>2. Append(ever, r) \in Seq(ResultRow) /\ Len(Append(ever, r)) = Len(ever) + 1
      BY <1>1, AppendProperties
    <3>3. ever' = Append(ever, r) /\ regrown' = FALSE /\ regrown = FALSE
      BY <1>1, <2>1, <2>4, <3>1 DEF Remember, Recorded
    <3>4. SubSeq(Append(ever, r), 1, Len(got)) = SubSeq(ever, 1, Len(got))
      BY <1>1, <3>3, PrefixOfAppend DEF Place
    <3>5. atEnd' = IF job'[Watched].state \in {"queued", "running"} THEN Len(ever') ELSE atEnd
      BY <3>1, <3>3 DEF Remember
    <3>6. Recorded'
      BY <1>1, <2>1, <2>4, <3>1, <3>2, <3>3, <3>5 DEF Recorded
    <3>7. ever' \in Seq(ResultRow) /\ Len(got) <= Len(ever') /\ got = SubSeq(ever', 1, Len(got))
      BY <1>1, <3>2, <3>3, <3>4 DEF Place
    <3>8. atEnd' \in Nat /\ regrown' \in BOOLEAN
      <4>1. Len(ever') \in Nat
        BY <1>1, <3>2, <3>3
      <4>. QED BY <1>1, <3>3, <3>5, <4>1
    <3>9. job[Watched].state \in Terminal => job'[Watched].state \in Terminal /\ atEnd' = atEnd
      BY <1>4, <3>5 DEF Terminal
    <3>10. job'[Watched].state # "absent"
      BY <1>4, <2>2
    <3>. QED BY <2>4, <3>6, <3>7, <3>8, <3>9, <3>10
  <2>. QED BY <2>3, <2>4
<1>. QED BY <1>2, <1>3, <1>4 DEF WatchedStep

-----------------------------------------------------------------------------
(* What one answer does to the client.                                     *)

\* One page: it continues what the client has, and only a finished job whose last row has
\* been sent is complete.
LEMMA DeliverEffect ==
  ASSUME PagesTypeOK, NEW st, NEW total \in Nat, NEW rows, NEW all \in Seq(ResultRow),
         rows = all \/ rows = <<>>,
         cursor = Len(got), Len(got) <= Len(all), got = SubSeq(all, 1, Len(got)),
         Deliver(st, total, rows)
  PROVE  /\ got' \in Seq(ResultRow) /\ cursor' = Len(got') /\ cursor' \in Nat
         /\ Len(got') <= Len(all) /\ got' = SubSeq(all, 1, Len(got'))
         /\ answer' \in {"page", "complete"}
         /\ answer' = "complete" => st \in Terminal /\ (rows = all => got' = all)
<1>1. /\ got \in Seq(ResultRow) /\ Len(got) \in Nat /\ Len(all) \in Nat /\ cursor \in Nat
      /\ Len(<<>>) = 0
  BY LenProperties, EmptySeq DEF PagesTypeOK
<1>2. PICK n \in PageSizes(rows, cursor) :
        /\ got' = got \o PageAfter(rows, cursor, n)
        /\ cursor' = cursor + n
        /\ answer' = IF IsComplete(st, total, cursor + n, cursor + n < Len(rows))
                     THEN "complete" ELSE "page"
  BY DEF Deliver
<1>3. n \in Nat /\ (n = 0 \/ rows = all) /\ cursor + n <= Len(all)
      /\ (rows = all /\ n = 0 => cursor = Len(all))
  BY <1>1, <1>2, ReaderConstants DEF PageSizes
<1>4. got' = SubSeq(all, 1, cursor + n)
  <2>1. CASE n = 0
    <3>1. PageAfter(rows, cursor, n) = <<>>
      BY <1>1, <2>1, SubSeqEmpty DEF PageAfter
    <3>2. got' = got
      BY <1>1, <1>2, <3>1, ConcatEmptySeq
    <3>. QED BY <1>1, <2>1, <3>2
  <2>2. CASE n # 0
    <3>1. /\ 1 \in 1..Len(all) + 1 /\ cursor \in 1 - 1..Len(all) /\ cursor + n \in cursor..Len(all)
      BY <1>1, <1>3
    <3>2. SubSeq(all, 1, cursor) \o SubSeq(all, cursor + 1, cursor + n) = SubSeq(all, 1, cursor + n)
      BY <3>1, ConcatAdjacentSubSeq
    <3>. QED BY <1>2, <1>3, <2>2, <3>2 DEF PageAfter
  <2>. QED BY <2>1, <2>2
<1>5. got' \in Seq(ResultRow) /\ Len(got') = cursor + n
  <2>1. \A i \in 1..cursor + n : all[i] \in ResultRow
    BY <1>1, <1>3, ElementOfSeq
  <2>2. /\ SubSeq(all, 1, cursor + n) \in Seq(ResultRow)
        /\ Len(SubSeq(all, 1, cursor + n)) = IF 1 <= cursor + n THEN cursor + n - 1 + 1 ELSE 0
    BY <1>1, <1>3, <2>1, SubSeqProperties
  <2>. QED BY <1>1, <1>3, <1>4, <2>2
<1>6. answer' = "complete" => st \in Terminal /\ (rows = all => got' = all)
  <2>. SUFFICES ASSUME answer' = "complete"
                PROVE  st \in Terminal /\ (rows = all => got' = all)
    OBVIOUS
  <2>1. st \in Terminal /\ ~(cursor + n < Len(rows))
    BY <1>2 DEF IsComplete
  <2>2. rows = all => cursor + n = Len(all)
    BY <1>1, <1>3, <2>1
  <2>. QED BY <1>4, <2>1, <2>2, SubSeqFull
<1>. QED BY <1>1, <1>2, <1>3, <1>4, <1>5, <1>6

\* One page of whatever is there.
LEMMA DeliverTyped ==
  ASSUME PagesTypeOK, NEW st, NEW total \in Nat, NEW rows \in Seq(ResultRow),
         cursor = Len(got), Deliver(st, total, rows)
  PROVE  /\ got' \in Seq(ResultRow) /\ cursor' = Len(got') /\ cursor' \in Nat
         /\ answer' \in {"page", "complete"}
<1>1. got \in Seq(ResultRow) /\ Len(rows) \in Nat /\ cursor \in Nat
  BY LenProperties DEF PagesTypeOK
<1>2. PICK n \in PageSizes(rows, cursor) :
        /\ got' = got \o PageAfter(rows, cursor, n)
        /\ cursor' = cursor + n
        /\ answer' \in {"page", "complete"}
  BY DEF Deliver
<1>3. n \in Nat /\ (n = 0 \/ cursor + n <= Len(rows))
  BY <1>1, <1>2, ReaderConstants DEF PageSizes
<1>. DEFINE page == PageAfter(rows, cursor, n)
<1>4. page \in Seq(ResultRow) /\ Len(page) = n
  <2>1. CASE n = 0
    BY <1>1, <2>1, SubSeqEmpty, EmptySeq DEF PageAfter
  <2>2. CASE n # 0
    <3>1. \A i \in cursor + 1..cursor + n : rows[i] \in ResultRow
      BY <1>1, <1>3, <2>2, ElementOfSeq
    <3>. QED BY <1>1, <1>3, <2>2, <3>1, SubSeqProperties DEF PageAfter
  <2>. QED BY <2>1, <2>2
<1>. HIDE DEF page
<1>5. got \o page \in Seq(ResultRow) /\ Len(got \o page) = Len(got) + n
  BY <1>1, <1>4, ConcatProperties
<1>6. got' = got \o page
  BY <1>2 DEF page
<1>. QED BY <1>1, <1>2, <1>3, <1>5, <1>6

\* An answer, whatever was read for it: when what was read is true of the results as they
\* are now, or the results are gone, the invariant holds of what the client is told.
LEMMA Served ==
  ASSUME PagesInv, WatchedStep, Remember, StoreTypeOK',
         job[Watched].state # "absent",
         NEW st, NEW total \in Nat, NEW rows \in Seq(ResultRow),
         regrown' \/ rows = ever' \/ rows = <<>>,
         st \in Terminal => Removed' \/ (job'[Watched].state \in Terminal /\ rows = ever'),
         st \notin NoRowStates \cup {"expired"} /\ cursor > total => Removed',
         Serve(st, total, rows)
  PROVE  PagesInv'
<1>1. /\ ever' \in Seq(ResultRow) /\ atEnd' \in Nat /\ regrown' \in BOOLEAN /\ Recorded'
      /\ regrown' \/ (Len(got) <= Len(ever') /\ got = SubSeq(ever', 1, Len(got)))
      /\ job'[Watched].state # "absent"
  BY HistoryStep DEF PagesInv
<1>2. /\ got \in Seq(ResultRow) /\ cursor \in Nat /\ cursor = Len(got)
  BY DEF PagesInv, PagesTypeOK, Place
<1>3. step' = "idle" /\ view' = "absent" /\ count' = 0
  BY DEF Serve
<1>4. /\ got' \in Seq(ResultRow) /\ cursor' = Len(got') /\ cursor' \in Nat
      /\ regrown' \/ (Len(got') <= Len(ever') /\ got' = SubSeq(ever', 1, Len(got')))
      /\ answer' \in {"page", "tooLarge"} \cup Final
      /\ answer' = "complete" => regrown' \/ (st \in Terminal /\ (rows = ever' => got' = ever'))
      /\ answer' = "invalid" => Removed'
  <2>1. CASE got' = got /\ cursor' = cursor /\ answer' \in {"missing", "expired", "tooLarge"}
    BY <1>1, <1>2, <2>1 DEF Final
  <2>2. CASE /\ got' = got /\ cursor' = cursor /\ answer' = "invalid" /\ cursor > total
             /\ st \notin NoRowStates \cup {"expired"}
    BY <1>1, <1>2, <2>2 DEF Final
  <2>3. CASE Deliver(st, total, rows) /\ regrown'
    BY <1>2, <2>3, DeliverTyped DEF PagesInv, Final
  <2>4. CASE Deliver(st, total, rows) /\ ~regrown'
    <3>1. PICK a \in Seq(ResultRow) : a = ever'
      BY <1>1
    <3>2. /\ rows = a \/ rows = <<>>
          /\ Len(got) <= Len(a) /\ got = SubSeq(a, 1, Len(got))
      BY <1>1, <2>4, <3>1
    <3>3. /\ got' \in Seq(ResultRow) /\ cursor' = Len(got') /\ cursor' \in Nat
          /\ Len(got') <= Len(a) /\ got' = SubSeq(a, 1, Len(got'))
          /\ answer' \in {"page", "complete"}
          /\ answer' = "complete" => st \in Terminal /\ (rows = a => got' = a)
      BY <1>2, <2>4, <3>2, DeliverEffect DEF PagesInv
    <3>. QED BY <3>1, <3>3 DEF Final
  <2>5. CASE st \in NoRowStates \/ st = "expired"
    BY <2>1, <2>5 DEF Serve, Refuse
  <2>6. CASE ~(st \in NoRowStates \/ st = "expired")
    <3>1. \/ Refuse("tooLarge")
          \/ cursor > total /\ Refuse("invalid")
          \/ Deliver(st, total, rows)
      BY <2>6 DEF Serve
    <3>. QED BY <2>1, <2>2, <2>3, <2>4, <2>6, <3>1 DEF Refuse
  <2>. QED BY <2>5, <2>6
<1>5. PagesTypeOK'
  BY <1>1, <1>3, <1>4 DEF PagesTypeOK, States, NoRowStates
<1>6. Unborn'
  BY <1>1 DEF Unborn
<1>7. Place'
  BY <1>4 DEF Place
<1>8. Seen'
  BY <1>3 DEF Seen
<1>9. Told'
  <2>1. answer' = "complete" => Removed' \/ (job'[Watched].state \in Terminal /\ got' = ever')
    BY <1>1, <1>4 DEF Recorded
  <2>2. atEnd' <= Len(ever')
    BY <1>1 DEF Recorded
  <2>. QED BY <1>4, <2>1, <2>2 DEF Told
<1>. QED BY <1>1, <1>5, <1>6, <1>7, <1>8, <1>9 DEF PagesInv

\* A step that answers nothing leaves the client as it is, and what it was told stays true.
LEMMA Unanswered ==
  ASSUME PagesInv, WatchedStep, Remember, UNCHANGED clientVars
  PROVE  /\ ever' \in Seq(ResultRow) /\ atEnd' \in Nat /\ regrown' \in BOOLEAN
         /\ Recorded' /\ Place' /\ Told'
         /\ job'[Watched].state = "absent" => ever' = <<>> /\ step = "idle" /\ answer' = "none"
<1>. USE DEF clientVars
<1>1. /\ ever' \in Seq(ResultRow) /\ atEnd' \in Nat /\ regrown' \in BOOLEAN /\ Recorded'
      /\ regrown' \/ (Len(got) <= Len(ever') /\ got = SubSeq(ever', 1, Len(got)))
      /\ job'[Watched].state = "absent" => job[Watched].state = "absent" /\ ever' = <<>>
      /\ Removed => Removed'
      /\ job[Watched].state \in Terminal =>
           Removed' \/ (job'[Watched].state \in Terminal /\ atEnd' = atEnd)
  BY HistoryStep DEF PagesInv
<1>2. Place'
  BY <1>1 DEF PagesInv, Place
<1>3. Told'
  BY <1>1 DEF PagesInv, Told
<1>4. job'[Watched].state = "absent" => ever' = <<>> /\ step = "idle" /\ answer' = "none"
  BY <1>1 DEF PagesInv, Unborn
<1>. QED BY <1>1, <1>2, <1>3, <1>4

-----------------------------------------------------------------------------
(* The steps.                                                              *)

\* A request whose sweep wrote answers from the state it leaves; one whose sweep found
\* nothing to write has read nothing yet.
LEMMA RequestKeeps ==
  ASSUME PagesInv, Request, WatchedStep, StoreTypeOK'
  PROVE  PagesInv'
<1>1. /\ step = "idle" /\ answer \notin Final /\ job[Watched].state # "absent" /\ Remember
      /\ \/ Serve(job'[Watched].state, Len(results'[Watched]), results'[Watched])
         \/ step' = "row" /\ UNCHANGED <<view, count, clientVars>>
  BY DEF Request, HasRow, NoRowStates
<1>2. CASE Serve(job'[Watched].state, Len(results'[Watched]), results'[Watched])
  <2>1. /\ Recorded' /\ ever' \in Seq(ResultRow) /\ (regrown' \/ Len(got) <= Len(ever'))
        /\ results'[Watched] \in Seq(ResultRow)
    BY <1>1, HistoryStep, ReaderConstants DEF PagesInv, StoreTypeOK
  <2>2. PICK st, total, rows :
          st = job'[Watched].state /\ total = Len(results'[Watched]) /\ rows = results'[Watched]
    OBVIOUS
  <2>3. Serve(st, total, rows)
    BY <1>2, <2>2
  <2>4. total \in Nat /\ rows \in Seq(ResultRow)
    BY <2>1, <2>2, LenProperties
  <2>5. regrown' \/ rows = ever' \/ rows = <<>>
    BY <2>1, <2>2 DEF Recorded
  <2>6. st \in Terminal => Removed' \/ (job'[Watched].state \in Terminal /\ rows = ever')
    BY <2>1, <2>2 DEF Recorded
  <2>7. st \notin NoRowStates \cup {"expired"} /\ cursor > total => Removed'
    BY <2>1, <2>2, LenProperties DEF PagesInv, PagesTypeOK, Place, Recorded
  <2>. QED BY <1>1, <2>3, <2>4, <2>5, <2>6, <2>7, Served
<1>3. CASE step' = "row" /\ UNCHANGED <<view, count, clientVars>>
  <2>1. /\ ever' \in Seq(ResultRow) /\ atEnd' \in Nat /\ regrown' \in BOOLEAN
        /\ Recorded' /\ Place' /\ Told'
    BY <1>1, <1>3, Unanswered
  <2>2. job'[Watched].state # "absent"
    BY <1>1, HistoryStep DEF PagesInv
  <2>3. PagesTypeOK'
    BY <1>3, <2>1 DEF PagesInv, PagesTypeOK, clientVars
  <2>4. Unborn'
    BY <2>1, <2>2 DEF Unborn
  <2>5. Seen'
    BY <1>3 DEF Seen
  <2>. QED BY <2>1, <2>3, <2>4, <2>5 DEF PagesInv
<1>. QED BY <1>1, <1>2, <1>3

\* The row is gone, and the request ends; or its state is what the answer will say.
LEMMA ReadRowKeeps ==
  ASSUME PagesInv, ReadRow, WatchedStep, Remember, StoreTypeOK'
  PROVE  PagesInv'
<1>1. /\ step = "row" /\ UNCHANGED <<storeVars, historyVars>> /\ job[Watched].state # "absent"
  BY DEF ReadRow, PagesInv, Unborn
<1>2. CASE job[Watched].state \in NoRowStates \cup {"expired"}
  <2>1. PICK st : st = job[Watched].state
    OBVIOUS
  <2>2. Serve(st, 0, <<>>)
    BY <1>2, <2>1 DEF ReadRow
  <2>3. st \in NoRowStates \cup {"expired"} /\ st \notin Terminal
    BY <1>2, <2>1 DEF NoRowStates, Terminal
  <2>4. 0 \in Nat /\ <<>> \in Seq(ResultRow)
    BY EmptySeq
  <2>. QED BY <1>1, <2>2, <2>3, <2>4, Served
<1>3. CASE ~(job[Watched].state \in NoRowStates \cup {"expired"})
  <2>1. step' = "count" /\ view' = job[Watched].state /\ UNCHANGED <<count, clientVars>>
    BY <1>3 DEF ReadRow
  <2>2. /\ ever' \in Seq(ResultRow) /\ atEnd' \in Nat /\ regrown' \in BOOLEAN
        /\ Recorded' /\ Place' /\ Told'
    BY <2>1, Unanswered
  <2>3. job' = job /\ job[Watched] \in Row
    BY <1>1, ReaderConstants DEF storeVars, PagesInv, StoreTypeOK
  <2>4. view' \in States \ {"expired", "purged"}
    BY <1>3, <2>1, <2>3 DEF Row, NoRowStates
  <2>5. PagesTypeOK'
    BY <2>1, <2>2, <2>4 DEF PagesInv, PagesTypeOK, clientVars
  <2>6. Unborn'
    BY <1>1, <2>2, <2>3 DEF Unborn
  <2>7. Seen'
    BY <1>3, <2>1, <2>3 DEF Seen
  <2>. QED BY <2>2, <2>5, <2>6, <2>7 DEF PagesInv
<1>. QED BY <1>2, <1>3

\* The rows counted are those the client has, or more of them.
LEMMA ReadCountKeeps ==
  ASSUME PagesInv, ReadCount, WatchedStep, Remember, StoreTypeOK'
  PROVE  PagesInv'
<1>1. /\ step = "count" /\ count' = Len(results[Watched]) /\ step' = "page"
      /\ UNCHANGED <<storeVars, view, clientVars, historyVars>> /\ job[Watched].state # "absent"
  BY DEF ReadCount, PagesInv, Unborn
<1>2. /\ ever' \in Seq(ResultRow) /\ atEnd' \in Nat /\ regrown' \in BOOLEAN
      /\ Recorded' /\ Place' /\ Told'
  BY <1>1, Unanswered
<1>3. job' = job /\ results' = results /\ results[Watched] \in Seq(ResultRow)
  BY <1>1, ReaderConstants DEF storeVars, PagesInv, StoreTypeOK
<1>4. count' \in Nat
  BY <1>1, <1>3, LenProperties
<1>5. PagesTypeOK'
  BY <1>1, <1>2, <1>4 DEF PagesInv, PagesTypeOK, clientVars
<1>6. Unborn'
  BY <1>1, <1>2, <1>3 DEF Unborn
<1>7. Removed' \/ cursor' <= count'
  BY <1>1, <1>3 DEF PagesInv, Recorded, Place, Removed, clientVars
<1>8. Seen'
  BY <1>1, <1>3, <1>7 DEF PagesInv, Seen, Removed
<1>. QED BY <1>2, <1>5, <1>6, <1>8 DEF PagesInv

\* The page is read last, from rows that are those counted or more of them, or none.
LEMMA ReadPageKeeps ==
  ASSUME PagesInv, ReadPage, WatchedStep, Remember, StoreTypeOK'
  PROVE  PagesInv'
<1>1. /\ step = "page" /\ UNCHANGED <<storeVars, historyVars>> /\ job[Watched].state # "absent"
      /\ Serve(view, count, results[Watched])
  BY DEF ReadPage, PagesInv, Unborn
<1>2. job' = job /\ results' = results /\ ever' = ever /\ regrown' = regrown
  BY <1>1 DEF storeVars, historyVars
<1>3. /\ Recorded /\ results[Watched] \in Seq(ResultRow)
  BY ReaderConstants DEF PagesInv, StoreTypeOK
<1>4. Removed' <=> Removed
  BY <1>2 DEF Removed
<1>5. PICK st, total, rows : st = view /\ total = count /\ rows = results[Watched]
  OBVIOUS
<1>6. Serve(st, total, rows) /\ total \in Nat /\ rows \in Seq(ResultRow)
  BY <1>1, <1>3, <1>5 DEF PagesInv, PagesTypeOK
<1>7. regrown' \/ rows = ever' \/ rows = <<>>
  BY <1>2, <1>3, <1>5 DEF Recorded
<1>8. st \in Terminal => Removed' \/ (job'[Watched].state \in Terminal /\ rows = ever')
  BY <1>1, <1>2, <1>3, <1>4, <1>5 DEF PagesInv, Seen, Recorded
<1>9. st \notin NoRowStates \cup {"expired"} /\ cursor > total => Removed'
  BY <1>1, <1>4, <1>5 DEF PagesInv, PagesTypeOK, Seen
<1>. QED BY <1>1, <1>6, <1>7, <1>8, <1>9, Served

\* What the others do between two SELECTs makes what was read old, never wrong.
LEMMA OthersKeep ==
  ASSUME PagesInv, UNCHANGED <<requestVars, clientVars>>, WatchedStep, Remember, StoreTypeOK'
  PROVE  PagesInv'
<1>1. UNCHANGED requestVars /\ UNCHANGED clientVars
  OBVIOUS
<1>2. /\ ever' \in Seq(ResultRow) /\ atEnd' \in Nat /\ regrown' \in BOOLEAN
      /\ Recorded' /\ Place' /\ Told'
      /\ job'[Watched].state = "absent" => ever' = <<>> /\ step = "idle" /\ answer' = "none"
  BY <1>1, Unanswered
<1>3. PagesTypeOK'
  BY <1>1, <1>2 DEF PagesInv, PagesTypeOK, requestVars, clientVars
<1>4. Unborn'
  BY <1>1, <1>2 DEF Unborn, requestVars
<1>5. /\ Removed => Removed'
      /\ job[Watched].state \in Terminal => Removed' \/ job'[Watched].state \in Terminal
  BY HistoryStep DEF PagesInv
<1>6. Seen'
  BY <1>1, <1>5 DEF PagesInv, Seen, requestVars, clientVars
<1>. QED BY <1>2, <1>3, <1>4, <1>6 DEF PagesInv

\* The invariant is inductive.
LEMMA PagesStep == PagesInv /\ [PagesNext]_pageVars => PagesInv'
<1>. SUFFICES ASSUME PagesInv, [PagesNext]_pageVars PROVE PagesInv'
  OBVIOUS
<1>1. [StoreNext]_storeVars /\ WatchedStep /\ StoreTypeOK'
  BY StoreMoves, StoreTypeStep DEF PagesInv
<1>2. UNCHANGED <<storeVars, historyVars>> => Remember
  BY NothingNew DEF PagesInv
<1>3. CASE Request
  BY <1>1, <1>3, RequestKeeps
<1>4. CASE ReadRow
  BY <1>1, <1>2, <1>4, ReadRowKeeps DEF ReadRow
<1>5. CASE ReadCount
  BY <1>1, <1>2, <1>5, ReadCountKeeps DEF ReadCount
<1>6. CASE ReadPage
  BY <1>1, <1>2, <1>6, ReadPageKeeps DEF ReadPage
<1>7. CASE Others
  BY <1>1, <1>7, OthersKeep DEF Others
<1>8. CASE UNCHANGED pageVars
  BY <1>1, <1>2, <1>8, OthersKeep DEF pageVars
<1>. QED BY <1>3, <1>4, <1>5, <1>6, <1>7, <1>8 DEF PagesNext

\* It holds before the first request.
LEMMA PagesStart == PagesInit => PagesInv
<1>. SUFFICES ASSUME PagesInit PROVE PagesInv
  OBVIOUS
<1>1. NoRow("absent") \in Row
  BY NoRowTyped DEF States, NoRowStates
<1>2. <<>> \in Seq(ResultRow) /\ Len(<<>>) = 0
  BY EmptySeq
<1>3. StoreTypeOK
  BY <1>1, <1>2 DEF PagesInit, StoreInit, StoreTypeOK
<1>4. PagesTypeOK
  BY <1>2 DEF PagesInit, PagesTypeOK, States, NoRowStates
<1>5. job[Watched].state = "absent" /\ results[Watched] = <<>>
  BY ReaderConstants DEF PagesInit, StoreInit, NoRow
<1>6. Recorded /\ Unborn
  BY <1>2, <1>5 DEF PagesInit, Recorded, Unborn, Removed
<1>7. Place
  BY <1>2, SubSeqEmpty DEF PagesInit, Place
<1>8. Seen /\ Told
  BY DEF PagesInit, Seen, Told
<1>. QED BY <1>3, <1>4, <1>6, <1>7, <1>8 DEF PagesInv

-----------------------------------------------------------------------------
(* Theorems.                                                               *)

\* Whatever transaction of the store comes between two SELECTs of one request or between
\* two requests: the client has the beginning of what the job stored, a handed-out cursor
\* is not past the end, and the job of a client that was told "complete" has ended and the
\* client has all that was stored by then, until the results are removed (_result_page and
\* results()).  Writes that land after the job ended or expired are among the steps.
THEOREM PagesInvariant == PagesSpec => []PagesInv
  BY PagesStart, PagesStep, PTL DEF PagesSpec

\* The pages a client receives are consecutive (see PagesInOrder): nothing is skipped,
\* repeated or out of order, for any page size and any expiry between two SELECTs, unless
\* something was written to the row after its expiry.
THEOREM PagesComeInOrder == PagesSpec => []PagesInOrder
<1>1. PagesInv => PagesInOrder
  BY DEF PagesInv, Place, PagesInOrder
<1>. QED BY <1>1, PagesInvariant, PTL

\* A client that was told "complete" has all that was stored when the job ended, and it
\* has ended (see CompleteIsWhole): the verdict is read before the count and the page, so
\* what is stored until the verdict is counted.  An abandoned call of _append_result may
\* still add a row behind what the client was given.
THEOREM CompleteIsFinal == PagesSpec => []CompleteIsWhole
<1>1. PagesInv => CompleteIsWhole
  BY DEF PagesInv, Told, Removed, CompleteIsWhole, NoRowStates
<1>. QED BY <1>1, PagesInvariant, PTL

\* A cursor the service handed out is never refused while the results are there (see
\* CursorStaysValid): the COUNT is read after the pages the cursor stands for were stored.
THEOREM CursorsStayValid == PagesSpec => []CursorStaysValid
<1>1. PagesInv => CursorStaysValid
  BY DEF PagesInv, Told, Removed, CursorStaysValid, NoRowStates
<1>. QED BY <1>1, PagesInvariant, PTL

\* Paging is a use of the store like any other: every step of the requests is a transaction
\* of CrawlJobStore or changes none of its tables, so what is proved of the store holds here,
\* that the ordinals are stable (ResultsAppendOnly) among it.
THEOREM PagesUseTheStore == PagesSpec => StoreSpec /\ ResultsAppendOnly
<1>1. PagesInit => StoreInit
  BY DEF PagesInit
<1>2. PagesInv /\ [PagesNext]_pageVars => [StoreNext]_storeVars
  BY StoreMoves DEF PagesInv
<1>3. PagesSpec => StoreSpec
  BY <1>1, <1>2, PagesInvariant, PTL DEF PagesSpec, StoreSpec
<1>. QED BY <1>3, OrdinalsStable, PTL
=============================================================================
