----------------------------- MODULE JobLifecycle -----------------------------
(***************************************************************************)
(* What the service promises about each crawl job (README, "Durable crawl  *)
(* jobs"; docs/architecture/pipeline-workflow.md), with no store, worker,  *)
(* crash or clock in sight.  Jobs do not constrain one another: one step   *)
(* may move several of them, each by an action of its own lifecycle.       *)
(***************************************************************************)
EXTENDS Naturals, Sequences

CONSTANTS JobIds, MaxAttempts, ResultRow

VARIABLES
  phase,    \* "none", "queued", "running", "done", "expired" or "gone"
  verdict,  \* how a done job ended, else "none"
  asked,    \* a running job has been asked to cancel
  tries,    \* attempts started
  stored    \* the results a reader can see, in cursor order

lifeVars == <<phase, verdict, asked, tries, stored>>

Init ==
  /\ phase = [j \in JobIds |-> "none"]
  /\ verdict = [j \in JobIds |-> "none"]
  /\ asked = [j \in JobIds |-> FALSE]
  /\ tries = [j \in JobIds |-> 0]
  /\ stored = [j \in JobIds |-> <<>>]

Moves(j, from, to) == phase[j] \in from /\ phase'[j] \in to
SamePhase(j) == phase'[j] = phase[j] /\ verdict'[j] = verdict[j]

Accept(j) ==
  /\ Moves(j, {"none"}, {"queued"})
  /\ verdict'[j] = "none" /\ asked'[j] = FALSE /\ tries'[j] = 0
  /\ stored'[j] = stored[j]

\* Every run of the crawler is paid out of one attempt budget.
Begin(j) ==
  /\ Moves(j, {"queued", "running"}, {"running"})
  /\ tries[j] < MaxAttempts /\ tries'[j] = tries[j] + 1
  /\ verdict'[j] = verdict[j] /\ asked'[j] = asked[j] /\ stored'[j] = stored[j]

\* A restart sends a job back only while it may run again and nobody cancelled it.
Requeue(j) ==
  /\ Moves(j, {"running"}, {"queued"}) /\ ~asked[j] /\ tries[j] < MaxAttempts
  /\ verdict'[j] = verdict[j] /\ asked'[j] = FALSE
  /\ tries'[j] = tries[j] /\ stored'[j] = stored[j]

AskCancel(j) ==
  /\ phase[j] = "running" /\ SamePhase(j)
  /\ asked'[j] = TRUE /\ tries'[j] = tries[j] /\ stored'[j] = stored[j]

\* A job ends once, "cancelled" exactly if it was cancelled.
End(j) ==
  /\ Moves(j, {"queued", "running"}, {"done"})
  /\ verdict'[j] \in {"completed", "partial", "failed", "cancelled"}
  /\ (phase[j] = "queued" \/ asked[j]) <=> verdict'[j] = "cancelled"
  /\ asked'[j] = FALSE /\ tries'[j] = tries[j] /\ stored'[j] = stored[j]

\* A page that is not stored yet goes to the end.
Keep(j) ==
  /\ phase[j] \in {"queued", "running", "done"} /\ SamePhase(j)
  /\ \E r \in ResultRow :
       /\ \A i \in DOMAIN stored[j] : stored[j][i].key # r.key
       /\ stored'[j] = Append(stored[j], r)
  /\ asked'[j] = asked[j] /\ tries'[j] = tries[j]

\* Retention takes the results away, all at once.
Forget(j) ==
  /\ \/ Moves(j, {"done"}, {"expired", "gone"})
     \/ Moves(j, {"expired"}, {"gone"})
  /\ verdict'[j] = "none" /\ asked'[j] = FALSE /\ tries'[j] \in {0, tries[j]}
  /\ stored'[j] = <<>>

Still(j) ==
  /\ SamePhase(j)
  /\ asked'[j] = asked[j] /\ tries'[j] = tries[j] /\ stored'[j] = stored[j]

JobStep(j) ==
  \/ Accept(j) \/ Begin(j) \/ Requeue(j) \/ AskCancel(j)
  \/ End(j) \/ Keep(j) \/ Forget(j) \/ Still(j)

Next == \A j \in JobIds : JobStep(j)

Spec == Init /\ [][Next]_lifeVars
=============================================================================
