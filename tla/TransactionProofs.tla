--------------------------- MODULE TransactionProofs ---------------------------
(***************************************************************************)
(* What the caller of Aphid.transaction may believe, for callbacks of any  *)
(* number of queries, with and without deadlines: the inductive invariant  *)
(* that follows the commit through runner, coordinator and engine, and the *)
(* safety properties of Transaction that it implies.                       *)
(***************************************************************************)
EXTENDS Transaction, TLAPS

-----------------------------------------------------------------------------
(***************************************************************************)
(* The inductive invariant.                                                *)
(***************************************************************************)

\* The coordinator has been told that the commit starts, or never will be.
Committing == {"commit", "commit_wait", "commit_idle", "committed_phase"}
Ending     == {"release", "await_idle", "finished", "sent", "dead"}

Pending == job.outcome = "pending_rollback"

\* Nothing commits before the coordinator takes the outcome to be in doubt, and it takes it to
\* be certain only afterwards.
CommitInv ==
  /\ op.kind = "commit" \/ tx = "committed" => ~Pending
  /\ ~Pending => record = "nil" /\ pc \in Committing \cup Ending
  /\ job.outcome = "committed" => tx = "committed"
  /\ tx = "committed" => op.kind \in {"none", "commit"}
  /\ pc \in {"commit_phase"} \cup Committing => record = "nil"
  /\ pc \in Committing => ~Pending /\ job.phase
  /\ pc = "commit" => op.kind # "commit" /\ tx # "committed"
  /\ pc \in {"commit_wait", "commit_idle"} => op.kind \in {"none", "commit"}
  /\ pc = "commit_wait" /\ told = "ok" => tx = "committed"
  /\ pc = "commit_idle" => /\ result.kind \in {"ok", "commit_unknown"}
                           /\ result.kind = "ok" => tx = "committed"
  /\ pc = "committed_phase" => result.kind = "ok" /\ tx = "committed"

\* The engine transaction belongs to the lease.
LeaseInv ==
  /\ op.kind = "none" => ~op.ready
  /\ lease = "none" => /\ op.kind = "none" /\ tx = "none" /\ Pending
                       /\ pc \in {"acquire", "finished", "sent", "dead"}
  /\ pc = "acquire" => lease = "none"
  /\ lease = "ended" => op.kind = "none" /\ tx # "open"

\* A rollback that was thrown while a stream is released is not forgotten.
RollbackInv ==
  /\ record = "rollback" =>
       pc \in {"stream_finish", "stream_check", "stream_idle", "query_done"} \cup Ending
  /\ record = "rollback" /\ pc \notin Ending => result.kind = "rollback"

\* What the runner is going to claim, while it cleans up and once it has finished.
ClaimInv ==
  /\ pc \notin {"finished", "sent", "dead"} => result.outcome \in {"none", "unknown"}
  /\ pc \in {"release", "await_idle"} =>
       /\ result.kind \in {"ok", "commit_unknown", "error", "raise", "rollback"}
       /\ result.kind = "ok" => tx = "committed"
       /\ result.kind \in {"raise", "rollback"} => Pending
       /\ result.kind = "error" =>
            retired \/ CurrentExpired \/ (op.kind # "commit" /\ tx # "committed")
  /\ mailed => pc \in {"sent", "dead"}
  /\ pc \in {"finished", "sent"} \/ mailed =>
       /\ result.kind # "none" /\ result.outcome # "pending_rollback"
       /\ result.kind = "ok" \/ result.outcome = "committed" => tx = "committed"
       /\ result.kind \in {"rollback", "raise"} => tx \in {"none", "rolled_back"} /\ lease = "ended"
       /\ result.outcome = "rolled_back" =>
            lease = "ended" /\ (tx \in {"none", "rolled_back"} \/ CurrentExpired)
       /\ result.kind = "error" /\ result.outcome = "none" => lease = "none"

\* Who has been answered that nothing was committed is not waiting for a commit any more.
ReplyInv ==
  /\ reply.kind # "none" => ~job.from
  /\ reply.kind = "none" => reply.outcome = "none"
  /\ reply.outcome = "pending_rollback" \/ (reply.kind = "error" /\ reply.outcome = "none")
       => Pending
  /\ OkMeansCommitted
  /\ RolledBackMeansEnded

Invariant == CommitInv /\ LeaseInv /\ RollbackInv /\ ClaimInv /\ ReplyInv
-----------------------------------------------------------------------------
(***************************************************************************)
(* Types.                                                                  *)
(***************************************************************************)

JobType == [from: BOOLEAN, worker: BOOLEAN, phase: BOOLEAN, timer: BOOLEAN,
            outcome: {"pending_rollback", "unknown", "committed"}]
OpType  == [kind: {"none", "begin", "query", "commit"}, ready: BOOLEAN, cancel: BOOLEAN,
            discard: BOOLEAN]

\* What the caller is told is an answer.
LEMMA AnswersAreAnswers ==
  ASSUME job \in JobType
  PROVE  /\ \A kind \in Kinds, outcome \in Outcomes : Says(kind, outcome) \in Answers
         /\ \A kind \in Kinds : OrUnknown(kind) \in Answers
<1>1. \A kind \in Kinds, outcome \in Outcomes : Says(kind, outcome) \in Answers
  BY DEF Says, Answers
<1>2. job.outcome \in Outcomes
  BY DEF JobType, Outcomes
<1>3. "commit_unknown" \in Kinds
  BY DEF Kinds
<1> QED
  BY <1>1, <1>2, <1>3 DEF OrUnknown

\* What an answer says, field by field.
LEMMA SaysFields ==
  /\ \A kind, outcome : Says(kind, outcome).kind = kind /\ Says(kind, outcome).outcome = outcome
  /\ \A kind : /\ OrUnknown(kind).outcome = job.outcome
               /\ OrUnknown(kind).kind \in {kind, "commit_unknown"}
  BY DEF Says, OrUnknown

\* A cancelled job keeps its phase and its outcome.
LEMMA CancelEffect ==
  ASSUME job \in JobType, kill \in BOOLEAN, NEW answer, CancelWith(answer)
  PROVE  /\ job' \in JobType /\ kill' \in BOOLEAN /\ ~job'.from
         /\ job'.phase = job.phase /\ job'.outcome = job.outcome
         /\ (job.from /\ reply' = answer) \/ reply' = reply
<1>1. kill' \in BOOLEAN
  BY Zenon DEF CancelWith
<1>2. job' = [job EXCEPT !.from = FALSE, !.timer = FALSE]
  BY DEF CancelWith
<1> QED
  BY <1>1, <1>2 DEF CancelWith, JobType

\* A phase message is answered by the timeout, or recorded.
LEMMA PhaseEffect ==
  ASSUME job \in JobType, kill \in BOOLEAN, NEW phase, NEW next, Phase(phase, next)
  PROVE  /\ job' \in JobType /\ kill' \in BOOLEAN /\ expire' = expire /\ server' = server
         /\ \/ /\ ~job'.from /\ job'.phase = job.phase /\ job'.outcome = job.outcome
               /\ pc' = pc /\ late' = late
               /\ job.from /\ reply' \in {OrUnknown("timeout"), reply}
            \/ /\ job.from /\ job'.from /\ job'.phase = (phase # "done")
               /\ job'.outcome = PhaseOutcome(phase)
               /\ pc' = next /\ late' = "no" /\ late # "job" /\ reply' = reply
<1>0. expire' = expire /\ server' = server
  BY DEF Phase
<1>1. CASE CancelWith(OrUnknown("timeout")) /\ UNCHANGED <<pc, late>>
  BY <1>1, CancelEffect DEF Phase
<1>2. CASE /\ job' = [job EXCEPT !.phase = phase # "done", !.outcome = PhaseOutcome(phase)]
           /\ late # "job" /\ pc' = next /\ late' = "no" /\ UNCHANGED <<reply, kill>>
  <2> DEFINE flag == phase # "done"
             outcome == PhaseOutcome(phase)
  <2>1. flag \in BOOLEAN /\ outcome \in {"pending_rollback", "unknown", "committed"}
    BY DEF PhaseOutcome, JobType
  <2>2. job' = [job EXCEPT !.phase = flag, !.outcome = outcome]
    BY <1>2, Zenon
  <2> HIDE DEF flag, outcome
  <2>3. job' \in JobType /\ job'.from = job.from /\ job'.phase = flag /\ job'.outcome = outcome
    BY <2>1, <2>2 DEF JobType
  <2>4. job.from
    BY DEF Phase
  <2> QED BY <1>2, <1>0, <2>3, <2>4 DEF flag, outcome
<1> QED
  BY <1>1, <1>2, Zenon DEF Phase

\* A submission is accepted by a lease that has nothing to do, or changes nothing.
LEMMA SubmitEffect ==
  ASSUME op \in OpType, NEW at, NEW kind \in {"begin", "query", "commit"},
         NEW accepted, NEW refused, Submit(at, kind, accepted, refused)
  PROVE  /\ op' \in OpType /\ pc = at
         /\ \/ /\ Accepted /\ pc' = accepted /\ told' = "none"
               /\ op'.kind = kind /\ ~op'.ready
            \/ ~Accepted /\ pc' = refused /\ op' = op /\ told' = told
  BY DEF Submit, Goes, NoOp, OpType

\* Native.finish and the cancellation leave kind and completion alone.
LEMMA FinishEffect ==
  ASSUME op \in OpType, NEW cancel \in BOOLEAN
  PROVE  /\ Finished \in OpType /\ Finished.kind = op.kind /\ Finished.ready = op.ready
         /\ [Finished EXCEPT !.cancel = cancel] \in OpType
         /\ [Finished EXCEPT !.cancel = cancel].kind = op.kind
         /\ [Finished EXCEPT !.cancel = cancel].ready = op.ready
  BY DEF Finished, OpType

\* Waiting for the completion message or the deadline.
LEMMA WaitEffect ==
  ASSUME op \in OpType, NEW at, NEW next, Wait(at, next)
  PROVE  /\ op' \in OpType /\ op'.kind = op.kind /\ op'.ready = op.ready
         /\ pc = at /\ pc' = next /\ (told # "none" \/ late # "no")
<1>1. CASE op' = Finished
  BY <1>1, FinishEffect DEF Wait, Goes
<1>2. CASE op' = [Finished EXCEPT !.cancel = Occupied]
  <2> DEFINE flag == Occupied
  <2>1. flag \in BOOLEAN
    BY DEF Occupied
  <2>2. op' = [Finished EXCEPT !.cancel = flag]
    BY <1>2
  <2> HIDE DEF flag
  <2>3. op' \in OpType /\ op'.kind = op.kind /\ op'.ready = op.ready
    BY <2>1, <2>2, FinishEffect
  <2> QED BY <2>3 DEF Wait, Goes
<1> QED
  BY <1>1, <1>2 DEF Wait

\* A stream that opens leaves the operation alone; one that does not is cancelled or finished.
LEMMA StreamWaitEffect ==
  ASSUME op \in OpType, StreamWait
  PROVE  op' \in OpType /\ op'.kind = op.kind /\ op'.ready = op.ready
<1> DEFINE flag == Finished.cancel \/ (told = "none" /\ Occupied)
<1>1. flag \in BOOLEAN
  BY FinishEffect DEF OpType
<1>2. op' = op \/ op' = [Finished EXCEPT !.cancel = flag]
  BY DEF StreamWait
<1> HIDE DEF flag
<1> QED
  BY <1>1, <1>2, FinishEffect

\* The end of a native operation.
LEMMA CompleteEffect ==
  ASSUME op \in OpType, NEW code, Complete(code)
  PROVE  /\ op' \in OpType /\ op'.kind = op.kind /\ op'.ready /\ told' = code
         /\ lease' \in {lease, "failed"} /\ (lease # "held" => lease' = lease)
  BY DEF Complete, OpType

\* The runner's end, and an answer that waits no longer, stop the timer.
LEMMA AnsweredEffect ==
  ASSUME job \in JobType, HandleFinished \/ HandleRunnerDown
  PROVE  /\ job' \in JobType /\ ~job'.from /\ job'.phase = job.phase
         /\ job'.outcome = job.outcome
<1> DEFINE flag == job.timer /\ ~job.from
<1>1. flag \in BOOLEAN
  BY DEF JobType
<1>2. \/ job' = [job EXCEPT !.from = FALSE, !.timer = flag]
      \/ job' = [job EXCEPT !.from = FALSE, !.worker = FALSE, !.timer = flag]
  BY Zenon DEF HandleFinished, HandleRunnerDown
<1> HIDE DEF flag
<1> QED
  BY <1>1, <1>2 DEF JobType

\* The type invariant by the records it speaks of.
LEMMA TypesByRecord ==
  TypeOK <=> /\ pc \in Steps /\ result \in Answers /\ reply \in Answers
             /\ record \in {"nil", "error", "rollback"}
             /\ queries \in 0..MaxQueries /\ stream \in StreamStates
             /\ mailed \in BOOLEAN /\ expire \in BOOLEAN /\ kill \in BOOLEAN
             /\ job \in JobType /\ op \in OpType
             /\ late \in {"no", "phase", "job"} /\ server \in {"up", "down"}
             /\ lease \in {"none", "held", "failed", "abandoned", "ended"}
             /\ told \in {"none", "ok", "error"}
             /\ tx \in {"none", "open", "committed", "rolled_back"} /\ retired \in BOOLEAN
  BY DEF TypeOK, JobType, OpType

\* Every step keeps the types.
LEMMA StepTypes ==
  ASSUME TypeOK, [Next]_vars
  PROVE  TypeOK'
<1> DEFINE Typed ==
      /\ pc \in Steps /\ result \in Answers /\ reply \in Answers
      /\ record \in {"nil", "error", "rollback"}
      /\ queries \in 0..MaxQueries /\ stream \in StreamStates
      /\ mailed \in BOOLEAN /\ expire \in BOOLEAN /\ kill \in BOOLEAN
      /\ job \in JobType /\ op \in OpType
      /\ late \in {"no", "phase", "job"} /\ server \in {"up", "down"}
      /\ lease \in {"none", "held", "failed", "abandoned", "ended"}
      /\ told \in {"none", "ok", "error"}
      /\ tx \in {"none", "open", "committed", "rolled_back"} /\ retired \in BOOLEAN
<1>a. TypeOK <=> Typed
  BY TypesByRecord
<1>b. TypeOK' <=> Typed'
  BY TypesByRecord, PTL
<1> SUFFICES ASSUME Typed, [Next]_vars PROVE Typed'
  BY <1>a, <1>b
<1>n. queries < MaxQueries => queries + 1 \in 0..MaxQueries
  BY MaxQueriesAssumption
<1>o. NoOp \in OpType
  BY DEF NoOp, OpType
<1>s. \A kind \in Kinds, outcome \in Outcomes : Says(kind, outcome) \in Answers
  BY AnswersAreAnswers
<1>u. /\ OrUnknown("timeout") \in Answers /\ OrUnknown("failed") \in Answers
      /\ OrUnknown("closed") \in Answers
  BY AnswersAreAnswers DEF Kinds
<1>v. /\ \A kind \in {"ok", "error", "raise", "rollback"} : Says(kind, "none") \in Answers
      /\ Says("commit_unknown", "unknown") \in Answers /\ Says("error", "rolled_back") \in Answers
      /\ Says("cleanup_failed", "committed") \in Answers
      /\ Says("rollback_unknown", "unknown") \in Answers /\ Says("down", "unknown") \in Answers
  BY <1>s DEF Kinds, Outcomes
<1>1. CASE QueryPhase
  BY <1>1, PhaseEffect, <1>u, <1>n DEF QueryPhase, nativeVars, coordVars, Steps
<1>2. CASE StreamStart
  BY <1>2, PhaseEffect, <1>u, <1>n DEF StreamStart, nativeVars, coordVars, Steps
<1>3. CASE StreamLastBatch
  <2>1. Finished \in OpType
    BY FinishEffect
  <2> QED BY <1>3, <2>1 DEF StreamLastBatch, Goes, RunnerKeeps, coordVars, Steps, StreamStates
<1>4. CASE StreamFails
  BY <1>4 DEF StreamFails, Goes, Notes, RunnerKeeps, coordVars, nativeVars, Steps
<1>5. CASE StreamHalts
  BY <1>5 DEF StreamHalts, Goes, Notes, RunnerKeeps, coordVars, nativeVars, Steps
<1>6. CASE CallbackReturns
  BY <1>6, <1>v DEF CallbackReturns, Goes, Notes, RunnerKeeps, coordVars, nativeVars, Steps
<1>7. CASE CallbackRaises
  BY <1>7, <1>v DEF CallbackRaises, Goes, Notes, RunnerKeeps, coordVars, nativeVars, Steps
<1>8. CASE CallbackRollsBack
  BY <1>8, <1>v DEF CallbackRollsBack, Goes, Notes, RunnerKeeps, coordVars, nativeVars,
     ReleaseLease, Steps
<1>9. CASE LeaseAcquire
  BY <1>9, <1>v DEF LeaseAcquire, Goes, Notes, RunnerKeeps, coordVars, nativeVars, Steps
<1>10. CASE BeginSubmit
  BY <1>10, SubmitEffect, <1>v DEF BeginSubmit, Submit, Notes, RunnerKeeps, coordVars, Steps
<1>11. CASE BeginWait
  BY <1>11, WaitEffect, <1>v DEF BeginWait, Wait, Notes, RunnerKeeps, coordVars, Steps
<1>12. CASE BeginIdle
  BY <1>12, <1>v DEF BeginIdle, AwaitIdle, Goes, Notes, RunnerKeeps, coordVars, nativeVars, Steps
<1>13. CASE QuerySubmit
  BY <1>13, SubmitEffect DEF QuerySubmit, Submit, Notes, RunnerKeeps, coordVars, Steps
<1>14. CASE QueryWait
  BY <1>14, WaitEffect DEF QueryWait, Wait, Notes, RunnerKeeps, coordVars, Steps
<1>15. CASE QueryIdle
  BY <1>15 DEF QueryIdle, AwaitIdle, Goes, Notes, RunnerKeeps, coordVars, nativeVars, Steps
<1>16. CASE QueryDone
  BY <1>16, PhaseEffect, <1>u DEF QueryDone, nativeVars, Steps
<1>17. CASE StreamSubmit
  BY <1>17, SubmitEffect DEF StreamSubmit, Submit, Notes, RunnerKeeps, coordVars, Steps
<1>18. CASE StreamWait
  BY <1>18, StreamWaitEffect DEF StreamWait, Goes, RunnerKeeps, coordVars, Steps, StreamStates
<1>19. CASE StreamFinish
  <2>1. Finished \in OpType
    BY FinishEffect
  <2> QED BY <1>19, <2>1 DEF StreamFinish, Goes, RunnerKeeps, coordVars, Steps, StreamStates
<1>20. CASE StreamCheck
  BY <1>20 DEF StreamCheck, Goes, Notes, RunnerKeeps, coordVars, nativeVars, Steps
<1>21. CASE StreamIdle
  BY <1>21, <1>v DEF StreamIdle, AwaitIdle, Goes, Notes, RunnerKeeps, coordVars, nativeVars,
     Steps
<1>22. CASE CommitPhase
  BY <1>22, PhaseEffect, <1>u DEF CommitPhase, nativeVars, Steps
<1>23. CASE CommitSubmit
  BY <1>23, SubmitEffect, <1>v DEF CommitSubmit, Submit, Notes, RunnerKeeps, coordVars, Steps
<1>24. CASE CommitWait
  BY <1>24, WaitEffect, <1>v DEF CommitWait, Wait, Notes, RunnerKeeps, coordVars, Steps
<1>25. CASE CommitIdle
  BY <1>25, <1>v DEF CommitIdle, AwaitIdle, Goes, Notes, RunnerKeeps, coordVars, nativeVars,
     Steps
<1>26. CASE CommittedPhase
  BY <1>26, PhaseEffect, <1>u DEF CommittedPhase, nativeVars, Steps
<1>27. CASE LeaseRelease
  BY <1>27 DEF LeaseRelease, Goes, Notes, RunnerKeeps, coordVars, nativeVars, ReleaseLease, Steps
<1>28. CASE Cleanup
  BY <1>28, <1>v DEF Cleanup, AwaitIdle, Finalized, CleanupError, Goes, Notes, RunnerKeeps,
     coordVars, nativeVars, Steps
<1>29. CASE Send
  BY <1>29 DEF Send, Goes, Notes, RunnerKeeps, coordVars, nativeVars, Steps
<1>30. CASE RunnerExits
  <2>1. /\ pc' = "dead" /\ kill' = FALSE
        /\ UNCHANGED <<result, record, queries, stream, mailed, job, expire, server, late>>
        /\ UNCHANGED <<nativeVars, reply>>
    BY <1>30 DEF RunnerExits, Goes
  <2>2. pc' \in Steps /\ kill' \in BOOLEAN
    BY <2>1 DEF Steps
  <2>3. /\ UNCHANGED <<result, record, queries, stream, mailed, job, expire, server, late, reply>>
        /\ UNCHANGED <<lease, op, told, tx, retired>>
    BY <2>1 DEF nativeVars
  <2> QED BY <2>2, <2>3
<1>31. CASE HandleExpire
  BY <1>31, CancelEffect, <1>u DEF HandleExpire, runnerVars, nativeVars
<1>32. CASE HandleFinished
  <2>1. job' \in JobType
    BY <1>32, AnsweredEffect
  <2>2. mailed' = FALSE /\ reply' \in Answers
    BY <1>32, <1>u DEF HandleFinished
  <2>3. UNCHANGED <<pc, result, record, queries, stream, expire, kill, server, late, nativeVars>>
    BY <1>32 DEF HandleFinished
  <2>4. /\ UNCHANGED <<pc, result, record, queries, stream, expire, kill, server, late>>
        /\ UNCHANGED <<lease, op, told, tx, retired>>
    BY <2>3 DEF nativeVars
  <2>5. mailed' \in BOOLEAN
    BY <2>2
  <2> QED BY <2>1, <2>2, <2>4, <2>5
<1>33. CASE HandleRunnerDown
  BY <1>33, AnsweredEffect, <1>u DEF HandleRunnerDown, runnerVars, nativeVars
<1>34. CASE Shutdown
  BY <1>34, CancelEffect, <1>u DEF Shutdown, runnerVars
<1>35. CASE ServerDies
  <2>1. job' \in JobType /\ kill' \in BOOLEAN
    BY <1>35 DEF ServerDies, JobType
  <2> QED BY <1>35, <2>1, <1>v DEF ServerDies, runnerVars
<1>36. CASE Deadline
  BY <1>36 DEF Deadline, runnerVars, coordVars, nativeVars
<1>37. CASE TimerFires
  <2>1. job' \in JobType
    BY <1>37 DEF TimerFires, JobType
  <2> QED BY <1>37, <2>1 DEF TimerFires, runnerVars, nativeVars
<1>38. CASE NativeExecutes
  BY <1>38, CompleteEffect DEF NativeExecutes, runnerVars, coordVars
<1>39. CASE NativeCleans
  BY <1>39, <1>o DEF NativeCleans, runnerVars, coordVars
<1>40. CASE NativeEnds
  BY <1>40, <1>o DEF NativeEnds, runnerVars, coordVars
<1>41. CASE NativeBreaks
  BY <1>41 DEF NativeBreaks, runnerVars, coordVars
<1>42. CASE OwnerDown
  BY <1>42 DEF OwnerDown, runnerVars, coordVars
<1>43. CASE UNCHANGED vars
  BY <1>43 DEF vars, runnerVars, coordVars, nativeVars
<1> QED
  BY <1>1, <1>2, <1>3, <1>4, <1>5, <1>6, <1>7, <1>8, <1>9, <1>10, <1>11, <1>12, <1>13, <1>14,
     <1>15, <1>16, <1>17, <1>18, <1>19, <1>20, <1>21, <1>22, <1>23, <1>24, <1>25, <1>26, <1>27,
     <1>28, <1>29, <1>30, <1>31, <1>32, <1>33, <1>34, <1>35, <1>36, <1>37, <1>38, <1>39, <1>40,
     <1>41, <1>42, <1>43 DEF Next, CallbackStep, RunnerStep

-----------------------------------------------------------------------------
(***************************************************************************)
(* Preservation, part by part.                                             *)
(***************************************************************************)

\* The commit is announced before it runs.
LEMMA CommitInvKept ==
  ASSUME TypeOK, Invariant, [Next]_vars
  PROVE  CommitInv'
<1>t. /\ job \in JobType /\ op \in OpType /\ kill \in BOOLEAN
      /\ told \in {"none", "ok", "error"}
  BY TypesByRecord
<1>i. CommitInv /\ LeaseInv
  BY DEF Invariant
<1> USE DEF CommitInv, Committing, Ending, Pending
<1>1. CASE QueryPhase
  BY <1>1, <1>t, <1>i, PhaseEffect DEF QueryPhase, nativeVars, coordVars, PhaseOutcome
<1>2. CASE StreamStart
  BY <1>2, <1>t, <1>i, PhaseEffect DEF StreamStart, nativeVars, coordVars, PhaseOutcome
<1>3. CASE StreamLastBatch
  BY <1>3, <1>t, <1>i, FinishEffect DEF StreamLastBatch, Goes, Notes, RunnerKeeps, coordVars,
     nativeVars
<1>4. CASE StreamFails
  BY <1>4, <1>t, <1>i DEF StreamFails, Goes, Notes, RunnerKeeps, coordVars, nativeVars
<1>5. CASE StreamHalts
  BY <1>5, <1>t, <1>i DEF StreamHalts, Goes, Notes, RunnerKeeps, coordVars, nativeVars
<1>6. CASE CallbackReturns
  BY <1>6, <1>t, <1>i DEF CallbackReturns, Goes, Notes, RunnerKeeps, coordVars, nativeVars
<1>7. CASE CallbackRaises
  BY <1>7, <1>t, <1>i DEF CallbackRaises, Goes, Notes, RunnerKeeps, coordVars, nativeVars
<1>8. CASE CallbackRollsBack
  BY <1>8, <1>t, <1>i DEF CallbackRollsBack, Goes, Notes, RunnerKeeps, coordVars, nativeVars,
     ReleaseLease
<1>9. CASE LeaseAcquire
  BY <1>9, <1>t, <1>i DEF LeaseAcquire, Goes, Notes, RunnerKeeps, coordVars, nativeVars
<1>10. CASE BeginSubmit
  BY <1>10, <1>t, <1>i, SubmitEffect DEF BeginSubmit, Submit, Notes, RunnerKeeps, coordVars
<1>11. CASE BeginWait
  BY <1>11, <1>t, <1>i, WaitEffect DEF BeginWait, Wait, Notes, RunnerKeeps, coordVars
<1>12. CASE BeginIdle
  BY <1>12, <1>t, <1>i DEF BeginIdle, AwaitIdle, Goes, Notes, RunnerKeeps, coordVars, nativeVars
<1>13. CASE QuerySubmit
  BY <1>13, <1>t, <1>i, SubmitEffect DEF QuerySubmit, Submit, Notes, RunnerKeeps, coordVars
<1>14. CASE QueryWait
  BY <1>14, <1>t, <1>i, WaitEffect DEF QueryWait, Wait, Notes, RunnerKeeps, coordVars
<1>15. CASE QueryIdle
  BY <1>15, <1>t, <1>i DEF QueryIdle, AwaitIdle, Goes, Notes, RunnerKeeps, coordVars, nativeVars
<1>16. CASE QueryDone
  BY <1>16, <1>t, <1>i, PhaseEffect DEF QueryDone, nativeVars, PhaseOutcome
<1>17. CASE StreamSubmit
  BY <1>17, <1>t, <1>i, SubmitEffect DEF StreamSubmit, Submit, Notes, RunnerKeeps, coordVars
<1>18. CASE StreamWait
  BY <1>18, <1>t, <1>i, StreamWaitEffect DEF StreamWait, Goes, RunnerKeeps, coordVars
<1>19. CASE StreamFinish
  BY <1>19, <1>t, <1>i, FinishEffect DEF StreamFinish, Goes, Notes, RunnerKeeps, coordVars,
     nativeVars
<1>20. CASE StreamCheck
  BY <1>20, <1>t, <1>i DEF StreamCheck, Goes, Notes, RunnerKeeps, coordVars, nativeVars
<1>21. CASE StreamIdle
  BY <1>21, <1>t, <1>i DEF StreamIdle, AwaitIdle, Goes, Notes, RunnerKeeps, coordVars, nativeVars
<1>22. CASE CommitPhase
  <2>1. pc = "commit_phase" /\ Phase("commit", "commit")
        /\ UNCHANGED <<result, record, op, tx, told, lease>>
    BY <1>22 DEF CommitPhase, nativeVars
  <2>2. Pending /\ record = "nil" /\ op.kind # "commit" /\ tx # "committed"
    BY <1>i, <2>1
  <2>3. \/ pc' = pc /\ job'.outcome = job.outcome
        \/ pc' = "commit" /\ job'.outcome = "unknown" /\ job'.phase
    <3>1. PhaseOutcome("commit") = "unknown" /\ ("commit" # "done") = TRUE
      BY DEF PhaseOutcome
    <3>2. \/ pc' = pc /\ job'.outcome = job.outcome
          \/ /\ pc' = "commit" /\ job'.outcome = PhaseOutcome("commit")
             /\ job'.phase = ("commit" # "done")
      BY <1>t, <2>1, PhaseEffect, Zenon
    <3> QED BY <3>1, <3>2
  <2> QED BY <1>i, <2>1, <2>2, <2>3
<1>23. CASE CommitSubmit
  BY <1>23, <1>t, <1>i, SubmitEffect DEF CommitSubmit, Submit, Notes, RunnerKeeps, coordVars
<1>24. CASE CommitWait
  BY <1>24, <1>t, <1>i, WaitEffect, SaysFields DEF CommitWait, Wait, Notes, RunnerKeeps,
     coordVars
<1>25. CASE CommitIdle
  BY <1>25, <1>t, <1>i, SaysFields DEF CommitIdle, AwaitIdle, Goes, Notes, RunnerKeeps,
     coordVars, nativeVars
<1>26. CASE CommittedPhase
  BY <1>26, <1>t, <1>i, PhaseEffect DEF CommittedPhase, nativeVars, PhaseOutcome
<1>27. CASE LeaseRelease
  BY <1>27, <1>t, <1>i DEF LeaseRelease, Goes, Notes, RunnerKeeps, coordVars, nativeVars,
     ReleaseLease
<1>28. CASE Cleanup
  BY <1>28, <1>t, <1>i DEF Cleanup, AwaitIdle, Finalized, CleanupError, Goes, Notes, RunnerKeeps,
     coordVars, nativeVars
<1>29. CASE Send
  BY <1>29, <1>t, <1>i DEF Send, Goes, Notes, RunnerKeeps, coordVars, nativeVars
<1>30. CASE RunnerExits
  BY <1>30, <1>t, <1>i DEF RunnerExits, Goes, nativeVars
<1>31. CASE HandleExpire
  BY <1>31, <1>t, <1>i, CancelEffect DEF HandleExpire, runnerVars, nativeVars
<1>32. CASE HandleFinished
  BY <1>32, <1>t, <1>i, AnsweredEffect DEF HandleFinished, nativeVars
<1>33. CASE HandleRunnerDown
  BY <1>33, <1>t, <1>i, AnsweredEffect DEF HandleRunnerDown, runnerVars, nativeVars
<1>34. CASE Shutdown
  BY <1>34, <1>t, <1>i, CancelEffect DEF Shutdown, runnerVars
<1>35. CASE ServerDies
  BY <1>35, <1>t, <1>i DEF ServerDies, runnerVars, JobType
<1>36. CASE Deadline
  BY <1>36, <1>t, <1>i DEF Deadline, runnerVars, coordVars, nativeVars
<1>37. CASE TimerFires
  BY <1>37, <1>t, <1>i DEF TimerFires, runnerVars, nativeVars, JobType
<1>38. CASE NativeExecutes
  BY <1>38, <1>t, <1>i, CompleteEffect DEF NativeExecutes, runnerVars, coordVars, Running,
     Occupied
<1>39. CASE NativeCleans
  BY <1>39, <1>t, <1>i DEF NativeCleans, runnerVars, coordVars, NoOp
<1>40. CASE NativeEnds
  BY <1>40, <1>t, <1>i DEF NativeEnds, runnerVars, coordVars, Running, Occupied, NoOp
<1>41. CASE NativeBreaks
  BY <1>41, <1>t, <1>i DEF NativeBreaks, runnerVars, coordVars
<1>42. CASE OwnerDown
  BY <1>42, <1>t, <1>i DEF OwnerDown, runnerVars, coordVars
<1>43. CASE UNCHANGED vars
  BY <1>43, <1>t, <1>i DEF vars, runnerVars, coordVars, nativeVars
<1> QED
  BY <1>1, <1>2, <1>3, <1>4, <1>5, <1>6, <1>7, <1>8, <1>9, <1>10, <1>11, <1>12, <1>13, <1>14,
     <1>15, <1>16, <1>17, <1>18, <1>19, <1>20, <1>21, <1>22, <1>23, <1>24, <1>25, <1>26, <1>27,
     <1>28, <1>29, <1>30, <1>31, <1>32, <1>33, <1>34, <1>35, <1>36, <1>37, <1>38, <1>39, <1>40,
     <1>41, <1>42, <1>43 DEF Next, CallbackStep, RunnerStep

\* A lease that has ended has no operation and no transaction left.
LEMMA LeaseInvKept ==
  ASSUME TypeOK, Invariant, [Next]_vars
  PROVE  LeaseInv'
<1>t. /\ job \in JobType /\ op \in OpType /\ kill \in BOOLEAN
      /\ told \in {"none", "ok", "error"}
  BY TypesByRecord
<1>i. CommitInv /\ LeaseInv
  BY DEF Invariant
<1> USE DEF LeaseInv, Pending, Committing, Ending
<1>1. CASE QueryPhase
  BY <1>1, <1>t, <1>i, PhaseEffect DEF QueryPhase, nativeVars, coordVars, PhaseOutcome, CommitInv
<1>2. CASE StreamStart
  BY <1>2, <1>t, <1>i, PhaseEffect DEF StreamStart, nativeVars, coordVars, PhaseOutcome,
     CommitInv
<1>3. CASE StreamLastBatch
  BY <1>3, <1>t, <1>i, FinishEffect DEF StreamLastBatch, Goes, Notes, RunnerKeeps, coordVars,
     nativeVars, CommitInv
<1>4. CASE StreamFails
  BY <1>4, <1>t, <1>i DEF StreamFails, Goes, Notes, RunnerKeeps, coordVars, nativeVars, CommitInv
<1>5. CASE StreamHalts
  BY <1>5, <1>t, <1>i DEF StreamHalts, Goes, Notes, RunnerKeeps, coordVars, nativeVars, CommitInv
<1>6. CASE CallbackReturns
  BY <1>6, <1>t, <1>i DEF CallbackReturns, Goes, Notes, RunnerKeeps, coordVars, nativeVars,
     CommitInv
<1>7. CASE CallbackRaises
  BY <1>7, <1>t, <1>i DEF CallbackRaises, Goes, Notes, RunnerKeeps, coordVars, nativeVars,
     CommitInv
<1>8. CASE CallbackRollsBack
  BY <1>8, <1>t, <1>i DEF CallbackRollsBack, Goes, Notes, RunnerKeeps, coordVars, nativeVars,
     ReleaseLease, CommitInv
<1>9. CASE LeaseAcquire
  BY <1>9, <1>t, <1>i DEF LeaseAcquire, Goes, Notes, RunnerKeeps, coordVars, nativeVars,
     CommitInv
<1>10. CASE BeginSubmit
  BY <1>10, <1>t, <1>i, SubmitEffect DEF BeginSubmit, Submit, Notes, RunnerKeeps, coordVars,
     Accepted, Occupied, CommitInv
<1>11. CASE BeginWait
  BY <1>11, <1>t, <1>i, WaitEffect DEF BeginWait, Wait, Notes, RunnerKeeps, coordVars, CommitInv
<1>12. CASE BeginIdle
  BY <1>12, <1>t, <1>i DEF BeginIdle, AwaitIdle, Goes, Notes, RunnerKeeps, coordVars, nativeVars,
     CommitInv
<1>13. CASE QuerySubmit
  BY <1>13, <1>t, <1>i, SubmitEffect DEF QuerySubmit, Submit, Notes, RunnerKeeps, coordVars,
     Accepted, Occupied, CommitInv
<1>14. CASE QueryWait
  BY <1>14, <1>t, <1>i, WaitEffect DEF QueryWait, Wait, Notes, RunnerKeeps, coordVars, CommitInv
<1>15. CASE QueryIdle
  BY <1>15, <1>t, <1>i DEF QueryIdle, AwaitIdle, Goes, Notes, RunnerKeeps, coordVars, nativeVars,
     CommitInv
<1>16. CASE QueryDone
  BY <1>16, <1>t, <1>i, PhaseEffect DEF QueryDone, nativeVars, PhaseOutcome, CommitInv
<1>17. CASE StreamSubmit
  BY <1>17, <1>t, <1>i, SubmitEffect DEF StreamSubmit, Submit, Notes, RunnerKeeps, coordVars,
     Accepted, Occupied, CommitInv
<1>18. CASE StreamWait
  BY <1>18, <1>t, <1>i, StreamWaitEffect DEF StreamWait, Goes, RunnerKeeps, coordVars, CommitInv
<1>19. CASE StreamFinish
  BY <1>19, <1>t, <1>i, FinishEffect DEF StreamFinish, Goes, Notes, RunnerKeeps, coordVars,
     nativeVars, CommitInv
<1>20. CASE StreamCheck
  BY <1>20, <1>t, <1>i DEF StreamCheck, Goes, Notes, RunnerKeeps, coordVars, nativeVars,
     CommitInv
<1>21. CASE StreamIdle
  BY <1>21, <1>t, <1>i DEF StreamIdle, AwaitIdle, Goes, Notes, RunnerKeeps, coordVars,
     nativeVars, CommitInv
<1>22. CASE CommitPhase
  BY <1>22, <1>t, <1>i, PhaseEffect DEF CommitPhase, nativeVars, PhaseOutcome, CommitInv
<1>23. CASE CommitSubmit
  BY <1>23, <1>t, <1>i, SubmitEffect DEF CommitSubmit, Submit, Notes, RunnerKeeps, coordVars,
     Accepted, Occupied, CommitInv
<1>24. CASE CommitWait
  BY <1>24, <1>t, <1>i, WaitEffect DEF CommitWait, Wait, Notes, RunnerKeeps, coordVars, CommitInv
<1>25. CASE CommitIdle
  BY <1>25, <1>t, <1>i DEF CommitIdle, AwaitIdle, Goes, Notes, RunnerKeeps, coordVars,
     nativeVars, CommitInv
<1>26. CASE CommittedPhase
  BY <1>26, <1>t, <1>i, PhaseEffect DEF CommittedPhase, nativeVars, PhaseOutcome, CommitInv
<1>27. CASE LeaseRelease
  BY <1>27, <1>t, <1>i DEF LeaseRelease, Goes, Notes, RunnerKeeps, coordVars, nativeVars,
     ReleaseLease, CommitInv
<1>28. CASE Cleanup
  BY <1>28, <1>t, <1>i DEF Cleanup, AwaitIdle, Finalized, CleanupError, Goes, Notes, RunnerKeeps,
     coordVars, nativeVars, CommitInv
<1>29. CASE Send
  BY <1>29, <1>t, <1>i DEF Send, Goes, Notes, RunnerKeeps, coordVars, nativeVars, CommitInv
<1>30. CASE RunnerExits
  BY <1>30, <1>t, <1>i DEF RunnerExits, Goes, nativeVars, CommitInv
<1>31. CASE HandleExpire
  BY <1>31, <1>t, <1>i, CancelEffect DEF HandleExpire, runnerVars, nativeVars, CommitInv
<1>32. CASE HandleFinished
  BY <1>32, <1>t, <1>i, AnsweredEffect DEF HandleFinished, nativeVars, CommitInv
<1>33. CASE HandleRunnerDown
  BY <1>33, <1>t, <1>i, AnsweredEffect DEF HandleRunnerDown, runnerVars, nativeVars, CommitInv
<1>34. CASE Shutdown
  BY <1>34, <1>t, <1>i, CancelEffect DEF Shutdown, runnerVars, CommitInv
<1>35. CASE ServerDies
  BY <1>35, <1>t, <1>i DEF ServerDies, runnerVars, JobType, CommitInv
<1>36. CASE Deadline
  BY <1>36, <1>t, <1>i DEF Deadline, runnerVars, coordVars, nativeVars, CommitInv
<1>37. CASE TimerFires
  BY <1>37, <1>t, <1>i DEF TimerFires, runnerVars, nativeVars, JobType, CommitInv
<1>38. CASE NativeExecutes
  BY <1>38, <1>t, <1>i, CompleteEffect DEF NativeExecutes, runnerVars, coordVars, Running,
     Occupied, CommitInv
<1>39. CASE NativeCleans
  BY <1>39, <1>t, <1>i DEF NativeCleans, runnerVars, coordVars, NoOp, CommitInv
<1>40. CASE NativeEnds
  BY <1>40, <1>t, <1>i DEF NativeEnds, runnerVars, coordVars, Running, Occupied, NoOp, CommitInv
<1>41. CASE NativeBreaks
  BY <1>41, <1>t, <1>i DEF NativeBreaks, runnerVars, coordVars, CommitInv
<1>42. CASE OwnerDown
  BY <1>42, <1>t, <1>i DEF OwnerDown, runnerVars, coordVars, CommitInv
<1>43. CASE UNCHANGED vars
  BY <1>43, <1>t, <1>i DEF vars, runnerVars, coordVars, nativeVars
<1> QED
  BY <1>1, <1>2, <1>3, <1>4, <1>5, <1>6, <1>7, <1>8, <1>9, <1>10, <1>11, <1>12, <1>13, <1>14,
     <1>15, <1>16, <1>17, <1>18, <1>19, <1>20, <1>21, <1>22, <1>23, <1>24, <1>25, <1>26, <1>27,
     <1>28, <1>29, <1>30, <1>31, <1>32, <1>33, <1>34, <1>35, <1>36, <1>37, <1>38, <1>39, <1>40,
     <1>41, <1>42, <1>43 DEF Next, CallbackStep, RunnerStep

\* A rollback that was thrown is passed on.
LEMMA RollbackInvKept ==
  ASSUME TypeOK, Invariant, [Next]_vars
  PROVE  RollbackInv'
<1>t. /\ job \in JobType /\ op \in OpType /\ kill \in BOOLEAN
      /\ told \in {"none", "ok", "error"}
  BY TypesByRecord
<1>i. RollbackInv
  BY DEF Invariant
<1> USE DEF RollbackInv, Ending
<1>1. CASE QueryPhase
  BY <1>1, <1>t, <1>i, PhaseEffect DEF QueryPhase, nativeVars, coordVars
<1>2. CASE StreamStart
  BY <1>2, <1>t, <1>i, PhaseEffect DEF StreamStart, nativeVars, coordVars
<1>3. CASE StreamLastBatch
  BY <1>3, <1>t, <1>i, FinishEffect DEF StreamLastBatch, Goes, Notes, RunnerKeeps, coordVars,
     nativeVars
<1>4. CASE StreamFails
  BY <1>4, <1>t, <1>i DEF StreamFails, Goes, Notes, RunnerKeeps, coordVars, nativeVars
<1>5. CASE StreamHalts
  BY <1>5, <1>t, <1>i DEF StreamHalts, Goes, Notes, RunnerKeeps, coordVars, nativeVars
<1>6. CASE CallbackReturns
  BY <1>6, <1>t, <1>i, SaysFields DEF CallbackReturns, Goes, Notes, RunnerKeeps, coordVars,
     nativeVars
<1>7. CASE CallbackRaises
  BY <1>7, <1>t, <1>i, SaysFields DEF CallbackRaises, Goes, Notes, RunnerKeeps, coordVars,
     nativeVars
<1>8. CASE CallbackRollsBack
  BY <1>8, <1>t, <1>i, SaysFields DEF CallbackRollsBack, Goes, Notes, RunnerKeeps, coordVars,
     nativeVars, ReleaseLease
<1>9. CASE LeaseAcquire
  BY <1>9, <1>t, <1>i, SaysFields DEF LeaseAcquire, Goes, Notes, RunnerKeeps, coordVars,
     nativeVars
<1>10. CASE BeginSubmit
  BY <1>10, <1>t, <1>i, SubmitEffect, SaysFields DEF BeginSubmit, Submit, Notes, RunnerKeeps,
     coordVars
<1>11. CASE BeginWait
  BY <1>11, <1>t, <1>i, WaitEffect, SaysFields DEF BeginWait, Wait, Notes, RunnerKeeps, coordVars
<1>12. CASE BeginIdle
  BY <1>12, <1>t, <1>i, SaysFields DEF BeginIdle, AwaitIdle, Goes, Notes, RunnerKeeps, coordVars,
     nativeVars
<1>13. CASE QuerySubmit
  BY <1>13, <1>t, <1>i, SubmitEffect DEF QuerySubmit, Submit, Notes, RunnerKeeps, coordVars
<1>14. CASE QueryWait
  BY <1>14, <1>t, <1>i, WaitEffect DEF QueryWait, Wait, Notes, RunnerKeeps, coordVars
<1>15. CASE QueryIdle
  BY <1>15, <1>t, <1>i DEF QueryIdle, AwaitIdle, Goes, Notes, RunnerKeeps, coordVars, nativeVars
<1>16. CASE QueryDone
  BY <1>16, <1>t, <1>i, PhaseEffect DEF QueryDone, nativeVars
<1>17. CASE StreamSubmit
  BY <1>17, <1>t, <1>i, SubmitEffect DEF StreamSubmit, Submit, Notes, RunnerKeeps, coordVars
<1>18. CASE StreamWait
  BY <1>18, <1>t, <1>i, StreamWaitEffect DEF StreamWait, Goes, RunnerKeeps, coordVars
<1>19. CASE StreamFinish
  BY <1>19, <1>t, <1>i, FinishEffect DEF StreamFinish, Goes, Notes, RunnerKeeps, coordVars,
     nativeVars
<1>20. CASE StreamCheck
  BY <1>20, <1>t, <1>i DEF StreamCheck, Goes, Notes, RunnerKeeps, coordVars, nativeVars
<1>21. CASE StreamIdle
  BY <1>21, <1>t, <1>i, SaysFields DEF StreamIdle, AwaitIdle, Goes, Notes, RunnerKeeps,
     coordVars, nativeVars
<1>22. CASE CommitPhase
  BY <1>22, <1>t, <1>i, PhaseEffect DEF CommitPhase, nativeVars
<1>23. CASE CommitSubmit
  BY <1>23, <1>t, <1>i, SubmitEffect, SaysFields DEF CommitSubmit, Submit, Notes, RunnerKeeps,
     coordVars
<1>24. CASE CommitWait
  BY <1>24, <1>t, <1>i, WaitEffect, SaysFields DEF CommitWait, Wait, Notes, RunnerKeeps,
     coordVars
<1>25. CASE CommitIdle
  BY <1>25, <1>t, <1>i, SaysFields DEF CommitIdle, AwaitIdle, Goes, Notes, RunnerKeeps,
     coordVars, nativeVars
<1>26. CASE CommittedPhase
  BY <1>26, <1>t, <1>i, PhaseEffect DEF CommittedPhase, nativeVars
<1>27. CASE LeaseRelease
  BY <1>27, <1>t, <1>i DEF LeaseRelease, Goes, Notes, RunnerKeeps, coordVars, nativeVars,
     ReleaseLease
<1>28. CASE Cleanup
  BY <1>28, <1>t, <1>i, SaysFields DEF Cleanup, AwaitIdle, Finalized, CleanupError, Goes, Notes,
     RunnerKeeps, coordVars, nativeVars
<1>29. CASE Send
  BY <1>29, <1>t, <1>i DEF Send, Goes, Notes, RunnerKeeps, coordVars, nativeVars
<1>30. CASE RunnerExits
  BY <1>30, <1>t, <1>i DEF RunnerExits, Goes, nativeVars
<1>31. CASE HandleExpire
  BY <1>31, <1>t, <1>i, CancelEffect DEF HandleExpire, runnerVars, nativeVars
<1>32. CASE HandleFinished
  BY <1>32, <1>t, <1>i, AnsweredEffect DEF HandleFinished, nativeVars
<1>33. CASE HandleRunnerDown
  BY <1>33, <1>t, <1>i, AnsweredEffect DEF HandleRunnerDown, runnerVars, nativeVars
<1>34. CASE Shutdown
  BY <1>34, <1>t, <1>i, CancelEffect DEF Shutdown, runnerVars
<1>35. CASE ServerDies
  BY <1>35, <1>t, <1>i DEF ServerDies, runnerVars
<1>36. CASE Deadline
  BY <1>36, <1>t, <1>i DEF Deadline, runnerVars, coordVars, nativeVars
<1>37. CASE TimerFires
  BY <1>37, <1>t, <1>i DEF TimerFires, runnerVars, nativeVars
<1>38. CASE NativeExecutes
  BY <1>38, <1>t, <1>i, CompleteEffect DEF NativeExecutes, runnerVars, coordVars
<1>39. CASE NativeCleans
  BY <1>39, <1>t, <1>i DEF NativeCleans, runnerVars, coordVars
<1>40. CASE NativeEnds
  BY <1>40, <1>t, <1>i DEF NativeEnds, runnerVars, coordVars
<1>41. CASE NativeBreaks
  BY <1>41, <1>t, <1>i DEF NativeBreaks, runnerVars, coordVars
<1>42. CASE OwnerDown
  BY <1>42, <1>t, <1>i DEF OwnerDown, runnerVars, coordVars
<1>43. CASE UNCHANGED vars
  BY <1>43, <1>t, <1>i DEF vars, runnerVars, coordVars, nativeVars
<1> QED
  BY <1>1, <1>2, <1>3, <1>4, <1>5, <1>6, <1>7, <1>8, <1>9, <1>10, <1>11, <1>12, <1>13, <1>14,
     <1>15, <1>16, <1>17, <1>18, <1>19, <1>20, <1>21, <1>22, <1>23, <1>24, <1>25, <1>26, <1>27,
     <1>28, <1>29, <1>30, <1>31, <1>32, <1>33, <1>34, <1>35, <1>36, <1>37, <1>38, <1>39, <1>40,
     <1>41, <1>42, <1>43 DEF Next, CallbackStep, RunnerStep

\* What the runner is going to claim stays true.
LEMMA ClaimInvKept ==
  ASSUME TypeOK, Invariant, [Next]_vars
  PROVE  ClaimInv'
<1>t. /\ job \in JobType /\ op \in OpType /\ kill \in BOOLEAN
      /\ told \in {"none", "ok", "error"} /\ late \in {"no", "phase", "job"}
      /\ lease \in {"none", "held", "failed", "abandoned", "ended"}
      /\ tx \in {"none", "open", "committed", "rolled_back"}
  BY TypesByRecord
<1>i. CommitInv /\ LeaseInv /\ RollbackInv /\ ClaimInv
  BY DEF Invariant
<1> USE DEF ClaimInv, CurrentExpired, Pending, Committing, Ending
<1>1. CASE QueryPhase
  BY <1>1, <1>t, <1>i, PhaseEffect DEF QueryPhase, nativeVars, coordVars, PhaseOutcome,
     CommitInv, LeaseInv, RollbackInv
<1>2. CASE StreamStart
  BY <1>2, <1>t, <1>i, PhaseEffect DEF StreamStart, nativeVars, coordVars, PhaseOutcome,
     CommitInv, LeaseInv, RollbackInv
<1>3. CASE StreamLastBatch
  BY <1>3, <1>t, <1>i, FinishEffect DEF StreamLastBatch, Goes, Notes, RunnerKeeps, coordVars,
     nativeVars, CommitInv, LeaseInv, RollbackInv
<1>4. CASE StreamFails
  BY <1>4, <1>t, <1>i DEF StreamFails, Goes, Notes, RunnerKeeps, coordVars, nativeVars,
     CommitInv, LeaseInv, RollbackInv
<1>5. CASE StreamHalts
  BY <1>5, <1>t, <1>i DEF StreamHalts, Goes, Notes, RunnerKeeps, coordVars, nativeVars,
     CommitInv, LeaseInv, RollbackInv
<1>6. CASE CallbackReturns
  BY <1>6, <1>t, <1>i, SaysFields DEF CallbackReturns, Goes, Notes, RunnerKeeps, coordVars,
     nativeVars, CommitInv, LeaseInv, RollbackInv
<1>7. CASE CallbackRaises
  BY <1>7, <1>t, <1>i, SaysFields DEF CallbackRaises, Goes, Notes, RunnerKeeps, coordVars,
     nativeVars, CommitInv, LeaseInv, RollbackInv
<1>8. CASE CallbackRollsBack
  BY <1>8, <1>t, <1>i, SaysFields DEF CallbackRollsBack, Goes, Notes, RunnerKeeps, coordVars,
     nativeVars, ReleaseLease, CommitInv, LeaseInv, RollbackInv
<1>9. CASE LeaseAcquire
  BY <1>9, <1>t, <1>i, SaysFields DEF LeaseAcquire, Goes, Notes, RunnerKeeps, coordVars,
     nativeVars, CommitInv, LeaseInv, RollbackInv
<1>10. CASE BeginSubmit
  BY <1>10, <1>t, <1>i, SubmitEffect, SaysFields DEF BeginSubmit, Submit, Notes, RunnerKeeps,
     coordVars, Accepted, Occupied, CommitInv, LeaseInv, RollbackInv
<1>11. CASE BeginWait
  BY <1>11, <1>t, <1>i, WaitEffect, SaysFields DEF BeginWait, Wait, Notes, RunnerKeeps,
     coordVars, CommitInv, LeaseInv, RollbackInv
<1>12. CASE BeginIdle
  BY <1>12, <1>t, <1>i, SaysFields DEF BeginIdle, AwaitIdle, Goes, Notes, RunnerKeeps, coordVars,
     nativeVars, CommitInv, LeaseInv, RollbackInv
<1>13. CASE QuerySubmit
  BY <1>13, <1>t, <1>i, SubmitEffect DEF QuerySubmit, Submit, Notes, RunnerKeeps, coordVars,
     Accepted, Occupied, CommitInv, LeaseInv, RollbackInv
<1>14. CASE QueryWait
  BY <1>14, <1>t, <1>i, WaitEffect DEF QueryWait, Wait, Notes, RunnerKeeps, coordVars, CommitInv,
     LeaseInv, RollbackInv
<1>15. CASE QueryIdle
  BY <1>15, <1>t, <1>i DEF QueryIdle, AwaitIdle, Goes, Notes, RunnerKeeps, coordVars, nativeVars,
     CommitInv, LeaseInv, RollbackInv
<1>16. CASE QueryDone
  BY <1>16, <1>t, <1>i, PhaseEffect DEF QueryDone, nativeVars, PhaseOutcome, CommitInv, LeaseInv,
     RollbackInv
<1>17. CASE StreamSubmit
  BY <1>17, <1>t, <1>i, SubmitEffect DEF StreamSubmit, Submit, Notes, RunnerKeeps, coordVars,
     Accepted, Occupied, CommitInv, LeaseInv, RollbackInv
<1>18. CASE StreamWait
  BY <1>18, <1>t, <1>i, StreamWaitEffect DEF StreamWait, Goes, RunnerKeeps, coordVars, CommitInv,
     LeaseInv, RollbackInv
<1>19. CASE StreamFinish
  BY <1>19, <1>t, <1>i, FinishEffect DEF StreamFinish, Goes, Notes, RunnerKeeps, coordVars,
     nativeVars, CommitInv, LeaseInv, RollbackInv
<1>20. CASE StreamCheck
  BY <1>20, <1>t, <1>i DEF StreamCheck, Goes, Notes, RunnerKeeps, coordVars, nativeVars,
     CommitInv, LeaseInv, RollbackInv
<1>21. CASE StreamIdle
  BY <1>21, <1>t, <1>i, SaysFields DEF StreamIdle, AwaitIdle, Goes, Notes, RunnerKeeps,
     coordVars, nativeVars, CommitInv, LeaseInv, RollbackInv
<1>22. CASE CommitPhase
  BY <1>22, <1>t, <1>i, PhaseEffect DEF CommitPhase, nativeVars, PhaseOutcome, CommitInv,
     LeaseInv, RollbackInv
<1>23. CASE CommitSubmit
  BY <1>23, <1>t, <1>i, SubmitEffect, SaysFields DEF CommitSubmit, Submit, Notes, RunnerKeeps,
     coordVars, Accepted, Occupied, CommitInv, LeaseInv, RollbackInv
<1>24. CASE CommitWait
  BY <1>24, <1>t, <1>i, WaitEffect, SaysFields DEF CommitWait, Wait, Notes, RunnerKeeps,
     coordVars, CommitInv, LeaseInv, RollbackInv
<1>25. CASE CommitIdle
  BY <1>25, <1>t, <1>i, SaysFields DEF CommitIdle, AwaitIdle, Goes, Notes, RunnerKeeps,
     coordVars, nativeVars, NativeState, Running, Occupied, CommitInv, LeaseInv, RollbackInv
<1>26. CASE CommittedPhase
  BY <1>26, <1>t, <1>i, PhaseEffect DEF CommittedPhase, nativeVars, PhaseOutcome, CommitInv,
     LeaseInv, RollbackInv
<1>27. CASE LeaseRelease
  BY <1>27, <1>t, <1>i DEF LeaseRelease, Goes, Notes, RunnerKeeps, coordVars, nativeVars,
     ReleaseLease, CommitInv, LeaseInv, RollbackInv
<1>28. CASE Cleanup
  BY <1>28, <1>t, <1>i, SaysFields DEF Cleanup, AwaitIdle, Finalized, CleanupError, Goes, Notes,
     RunnerKeeps, coordVars, nativeVars, NativeState, Running, Occupied, CommitInv, LeaseInv,
     RollbackInv
<1>29. CASE Send
  BY <1>29, <1>t, <1>i DEF Send, Goes, Notes, RunnerKeeps, coordVars, nativeVars, CommitInv,
     LeaseInv, RollbackInv
<1>30. CASE RunnerExits
  BY <1>30, <1>t, <1>i DEF RunnerExits, Goes, nativeVars, CommitInv, LeaseInv, RollbackInv
<1>31. CASE HandleExpire
  BY <1>31, <1>t, <1>i, CancelEffect DEF HandleExpire, runnerVars, nativeVars, CommitInv,
     LeaseInv, RollbackInv
<1>32. CASE HandleFinished
  BY <1>32, <1>t, <1>i, AnsweredEffect DEF HandleFinished, nativeVars, CommitInv, LeaseInv,
     RollbackInv
<1>33. CASE HandleRunnerDown
  BY <1>33, <1>t, <1>i, AnsweredEffect DEF HandleRunnerDown, runnerVars, nativeVars, CommitInv,
     LeaseInv, RollbackInv
<1>34. CASE Shutdown
  BY <1>34, <1>t, <1>i, CancelEffect DEF Shutdown, runnerVars, CommitInv, LeaseInv, RollbackInv
<1>35. CASE ServerDies
  BY <1>35, <1>t, <1>i DEF ServerDies, runnerVars, JobType, CommitInv, LeaseInv, RollbackInv
<1>36. CASE Deadline
  BY <1>36, <1>t, <1>i DEF Deadline, runnerVars, coordVars, nativeVars, CommitInv, LeaseInv,
     RollbackInv
<1>37. CASE TimerFires
  BY <1>37, <1>t, <1>i DEF TimerFires, runnerVars, nativeVars, JobType, CommitInv, LeaseInv,
     RollbackInv
<1>38. CASE NativeExecutes
  BY <1>38, <1>t, <1>i, CompleteEffect DEF NativeExecutes, runnerVars, coordVars, Running,
     Occupied, CommitInv, LeaseInv, RollbackInv
<1>39. CASE NativeCleans
  BY <1>39, <1>t, <1>i DEF NativeCleans, runnerVars, coordVars, NoOp, CommitInv, LeaseInv,
     RollbackInv
<1>40. CASE NativeEnds
  BY <1>40, <1>t, <1>i DEF NativeEnds, runnerVars, coordVars, Running, Occupied, NoOp, CommitInv,
     LeaseInv, RollbackInv
<1>41. CASE NativeBreaks
  BY <1>41, <1>t, <1>i DEF NativeBreaks, runnerVars, coordVars, CommitInv, LeaseInv, RollbackInv
<1>42. CASE OwnerDown
  BY <1>42, <1>t, <1>i DEF OwnerDown, runnerVars, coordVars, CommitInv, LeaseInv, RollbackInv
<1>43. CASE UNCHANGED vars
  BY <1>43, <1>t, <1>i DEF vars, runnerVars, coordVars, nativeVars
<1> QED
  BY <1>1, <1>2, <1>3, <1>4, <1>5, <1>6, <1>7, <1>8, <1>9, <1>10, <1>11, <1>12, <1>13, <1>14,
     <1>15, <1>16, <1>17, <1>18, <1>19, <1>20, <1>21, <1>22, <1>23, <1>24, <1>25, <1>26, <1>27,
     <1>28, <1>29, <1>30, <1>31, <1>32, <1>33, <1>34, <1>35, <1>36, <1>37, <1>38, <1>39, <1>40,
     <1>41, <1>42, <1>43 DEF Next, CallbackStep, RunnerStep

\* What the caller was told stays true.
LEMMA ReplyInvKept ==
  ASSUME TypeOK, Invariant, [Next]_vars
  PROVE  ReplyInv'
<1>t. /\ job \in JobType /\ op \in OpType /\ kill \in BOOLEAN
      /\ told \in {"none", "ok", "error"} /\ late \in {"no", "phase", "job"}
      /\ lease \in {"none", "held", "failed", "abandoned", "ended"}
      /\ tx \in {"none", "open", "committed", "rolled_back"}
  BY TypesByRecord
<1>i. CommitInv /\ LeaseInv /\ RollbackInv /\ ClaimInv /\ ReplyInv
  BY DEF Invariant
<1>u. /\ \A kind \in {"timeout", "failed", "closed"} :
           /\ OrUnknown(kind).kind \in {"timeout", "failed", "closed", "commit_unknown"}
           /\ OrUnknown(kind).outcome = job.outcome
      /\ job.outcome \in {"pending_rollback", "unknown", "committed"}
  BY <1>t DEF OrUnknown, Says, JobType
<1> USE DEF ReplyInv, OkMeansCommitted, RolledBackMeansEnded,
        CurrentExpired, Pending, Committing, Ending
<1>1. CASE QueryPhase
  BY <1>1, <1>t, <1>i, PhaseEffect, SaysFields DEF QueryPhase, nativeVars, coordVars,
     PhaseOutcome, CommitInv, LeaseInv, ClaimInv
<1>2. CASE StreamStart
  BY <1>2, <1>t, <1>i, PhaseEffect, SaysFields DEF StreamStart, nativeVars, coordVars,
     PhaseOutcome, CommitInv, LeaseInv, ClaimInv
<1>3. CASE StreamLastBatch
  BY <1>3, <1>t, <1>i, FinishEffect DEF StreamLastBatch, Goes, Notes, RunnerKeeps, coordVars,
     nativeVars, CommitInv, LeaseInv, ClaimInv
<1>4. CASE StreamFails
  BY <1>4, <1>t, <1>i DEF StreamFails, Goes, Notes, RunnerKeeps, coordVars, nativeVars,
     CommitInv, LeaseInv, ClaimInv
<1>5. CASE StreamHalts
  BY <1>5, <1>t, <1>i DEF StreamHalts, Goes, Notes, RunnerKeeps, coordVars, nativeVars,
     CommitInv, LeaseInv, ClaimInv
<1>6. CASE CallbackReturns
  BY <1>6, <1>t, <1>i, SaysFields DEF CallbackReturns, Goes, Notes, RunnerKeeps, coordVars,
     nativeVars, CommitInv, LeaseInv, ClaimInv
<1>7. CASE CallbackRaises
  BY <1>7, <1>t, <1>i, SaysFields DEF CallbackRaises, Goes, Notes, RunnerKeeps, coordVars,
     nativeVars, CommitInv, LeaseInv, ClaimInv
<1>8. CASE CallbackRollsBack
  BY <1>8, <1>t, <1>i, SaysFields DEF CallbackRollsBack, Goes, Notes, RunnerKeeps, coordVars,
     nativeVars, ReleaseLease, CommitInv, LeaseInv, ClaimInv
<1>9. CASE LeaseAcquire
  BY <1>9, <1>t, <1>i, SaysFields DEF LeaseAcquire, Goes, Notes, RunnerKeeps, coordVars,
     nativeVars, CommitInv, LeaseInv, ClaimInv
<1>10. CASE BeginSubmit
  BY <1>10, <1>t, <1>i, SubmitEffect, SaysFields DEF BeginSubmit, Submit, Notes, RunnerKeeps,
     coordVars, Accepted, Occupied, CommitInv, LeaseInv, ClaimInv
<1>11. CASE BeginWait
  BY <1>11, <1>t, <1>i, WaitEffect, SaysFields DEF BeginWait, Wait, Notes, RunnerKeeps,
     coordVars, CommitInv, LeaseInv, ClaimInv
<1>12. CASE BeginIdle
  BY <1>12, <1>t, <1>i, SaysFields DEF BeginIdle, AwaitIdle, Goes, Notes, RunnerKeeps, coordVars,
     nativeVars, CommitInv, LeaseInv, ClaimInv
<1>13. CASE QuerySubmit
  BY <1>13, <1>t, <1>i, SubmitEffect DEF QuerySubmit, Submit, Notes, RunnerKeeps, coordVars,
     Accepted, Occupied, CommitInv, LeaseInv, ClaimInv
<1>14. CASE QueryWait
  BY <1>14, <1>t, <1>i, WaitEffect DEF QueryWait, Wait, Notes, RunnerKeeps, coordVars, CommitInv,
     LeaseInv, ClaimInv
<1>15. CASE QueryIdle
  BY <1>15, <1>t, <1>i DEF QueryIdle, AwaitIdle, Goes, Notes, RunnerKeeps, coordVars, nativeVars,
     CommitInv, LeaseInv, ClaimInv
<1>16. CASE QueryDone
  BY <1>16, <1>t, <1>i, PhaseEffect, SaysFields DEF QueryDone, nativeVars, PhaseOutcome,
     CommitInv, LeaseInv, ClaimInv
<1>17. CASE StreamSubmit
  BY <1>17, <1>t, <1>i, SubmitEffect DEF StreamSubmit, Submit, Notes, RunnerKeeps, coordVars,
     Accepted, Occupied, CommitInv, LeaseInv, ClaimInv
<1>18. CASE StreamWait
  BY <1>18, <1>t, <1>i, StreamWaitEffect DEF StreamWait, Goes, RunnerKeeps, coordVars, CommitInv,
     LeaseInv, ClaimInv
<1>19. CASE StreamFinish
  BY <1>19, <1>t, <1>i, FinishEffect DEF StreamFinish, Goes, Notes, RunnerKeeps, coordVars,
     nativeVars, CommitInv, LeaseInv, ClaimInv
<1>20. CASE StreamCheck
  BY <1>20, <1>t, <1>i DEF StreamCheck, Goes, Notes, RunnerKeeps, coordVars, nativeVars,
     CommitInv, LeaseInv, ClaimInv
<1>21. CASE StreamIdle
  BY <1>21, <1>t, <1>i, SaysFields DEF StreamIdle, AwaitIdle, Goes, Notes, RunnerKeeps,
     coordVars, nativeVars, CommitInv, LeaseInv, ClaimInv
<1>22. CASE CommitPhase
  BY <1>22, <1>t, <1>i, PhaseEffect, SaysFields DEF CommitPhase, nativeVars, PhaseOutcome,
     CommitInv, LeaseInv, ClaimInv
<1>23. CASE CommitSubmit
  BY <1>23, <1>t, <1>i, SubmitEffect, SaysFields DEF CommitSubmit, Submit, Notes, RunnerKeeps,
     coordVars, Accepted, Occupied, CommitInv, LeaseInv, ClaimInv
<1>24. CASE CommitWait
  BY <1>24, <1>t, <1>i, WaitEffect, SaysFields DEF CommitWait, Wait, Notes, RunnerKeeps,
     coordVars, CommitInv, LeaseInv, ClaimInv
<1>25. CASE CommitIdle
  BY <1>25, <1>t, <1>i, SaysFields DEF CommitIdle, AwaitIdle, Goes, Notes, RunnerKeeps,
     coordVars, nativeVars, CommitInv, LeaseInv, ClaimInv
<1>26. CASE CommittedPhase
  <2>1. tx' = tx /\ lease' = lease
    BY <1>26 DEF CommittedPhase, nativeVars
  <2>2. CASE /\ ~job'.from /\ job'.outcome = job.outcome /\ reply' \in {reply, OrUnknown("timeout")}
    BY <1>i, <1>u, <2>1, <2>2 DEF CommitInv
  <2>3. CASE job.from /\ reply' = reply
    BY <1>i, <2>1, <2>3
  <2> QED BY <1>26, <1>t, <2>2, <2>3, PhaseEffect, Zenon DEF CommittedPhase
<1>27. CASE LeaseRelease
  BY <1>27, <1>t, <1>i DEF LeaseRelease, Goes, Notes, RunnerKeeps, coordVars, nativeVars,
     ReleaseLease, CommitInv, LeaseInv, ClaimInv
<1>28. CASE Cleanup
  BY <1>28, <1>t, <1>i, SaysFields DEF Cleanup, AwaitIdle, Finalized, CleanupError, Goes, Notes,
     RunnerKeeps, coordVars, nativeVars, CommitInv, LeaseInv, ClaimInv
<1>29. CASE Send
  BY <1>29, <1>t, <1>i DEF Send, Goes, Notes, RunnerKeeps, coordVars, nativeVars, CommitInv,
     LeaseInv, ClaimInv
<1>30. CASE RunnerExits
  BY <1>30, <1>t, <1>i DEF RunnerExits, Goes, nativeVars, CommitInv, LeaseInv, ClaimInv
<1>31. CASE HandleExpire
  <2>1. /\ ~job'.from /\ job'.outcome = job.outcome /\ tx' = tx /\ lease' = lease
        /\ reply' \in {reply, OrUnknown("timeout")}
    BY <1>31, <1>t, CancelEffect DEF HandleExpire, nativeVars
  <2> QED BY <1>i, <1>u, <2>1 DEF CommitInv
<1>32. CASE HandleFinished
  <2>1. /\ ~job'.from /\ job'.outcome = job.outcome /\ tx' = tx /\ lease' = lease
    BY <1>32, <1>t, AnsweredEffect DEF HandleFinished, nativeVars
  <2>2. CASE reply' \in {reply, OrUnknown("timeout")}
    BY <1>i, <1>u, <2>1, <2>2 DEF CommitInv
  <2>3. CASE reply' = result /\ ~CurrentExpired
    <3>1. mailed /\ ClaimInv
      BY <1>32, <1>i DEF HandleFinished
    <3>2. result.kind = "error" /\ result.outcome = "none" => Pending
      BY <1>i, <3>1 DEF ClaimInv, LeaseInv
    <3>3. RolledBackMeansEnded'
      BY <2>1, <2>3, <3>1 DEF ClaimInv
    <3>4. result.kind # "none"
      BY <3>1 DEF ClaimInv
    <3> QED BY <2>1, <2>3, <3>1, <3>2, <3>3, <3>4 DEF ClaimInv
  <2> QED BY <1>32, <2>2, <2>3 DEF HandleFinished
<1>33. CASE HandleRunnerDown
  <2>1. /\ ~job'.from /\ job'.outcome = job.outcome /\ tx' = tx /\ lease' = lease
        /\ reply' \in {reply, OrUnknown("failed")}
    BY <1>33, <1>t, AnsweredEffect DEF HandleRunnerDown, nativeVars
  <2> QED BY <1>i, <1>u, <2>1 DEF CommitInv
<1>34. CASE Shutdown
  <2>1. /\ ~job'.from /\ job'.outcome = job.outcome /\ tx' = tx /\ lease' = lease
        /\ reply' \in {reply, OrUnknown("closed")}
    BY <1>34, <1>t, CancelEffect DEF Shutdown, nativeVars
  <2> QED BY <1>i, <1>u, <2>1 DEF CommitInv
<1>35. CASE ServerDies
  BY <1>35, <1>t, <1>i, SaysFields DEF ServerDies, runnerVars, JobType, CommitInv, LeaseInv,
     ClaimInv
<1>36. CASE Deadline
  BY <1>36, <1>t, <1>i DEF Deadline, runnerVars, coordVars, nativeVars, CommitInv, LeaseInv,
     ClaimInv
<1>37. CASE TimerFires
  BY <1>37, <1>t, <1>i DEF TimerFires, runnerVars, nativeVars, JobType, CommitInv, LeaseInv,
     ClaimInv
<1>38. CASE NativeExecutes
  BY <1>38, <1>t, <1>i, CompleteEffect DEF NativeExecutes, runnerVars, coordVars, Running,
     Occupied, CommitInv, LeaseInv, ClaimInv
<1>39. CASE NativeCleans
  BY <1>39, <1>t, <1>i DEF NativeCleans, runnerVars, coordVars, NoOp, CommitInv, LeaseInv,
     ClaimInv
<1>40. CASE NativeEnds
  BY <1>40, <1>t, <1>i DEF NativeEnds, runnerVars, coordVars, Running, Occupied, NoOp, CommitInv,
     LeaseInv, ClaimInv
<1>41. CASE NativeBreaks
  BY <1>41, <1>t, <1>i DEF NativeBreaks, runnerVars, coordVars, CommitInv, LeaseInv, ClaimInv
<1>42. CASE OwnerDown
  BY <1>42, <1>t, <1>i DEF OwnerDown, runnerVars, coordVars, CommitInv, LeaseInv, ClaimInv
<1>43. CASE UNCHANGED vars
  BY <1>43, <1>t, <1>i DEF vars, runnerVars, coordVars, nativeVars
<1> QED
  BY <1>1, <1>2, <1>3, <1>4, <1>5, <1>6, <1>7, <1>8, <1>9, <1>10, <1>11, <1>12, <1>13, <1>14,
     <1>15, <1>16, <1>17, <1>18, <1>19, <1>20, <1>21, <1>22, <1>23, <1>24, <1>25, <1>26, <1>27,
     <1>28, <1>29, <1>30, <1>31, <1>32, <1>33, <1>34, <1>35, <1>36, <1>37, <1>38, <1>39, <1>40,
     <1>41, <1>42, <1>43 DEF Next, CallbackStep, RunnerStep

-----------------------------------------------------------------------------
(***************************************************************************)
(* The theorems.                                                           *)
(***************************************************************************)

\* The initial state has the right types.
LEMMA InitTypes == Init => TypeOK
<1> SUFFICES ASSUME Init PROVE TypeOK
  OBVIOUS
<1>1. job \in JobType /\ op \in OpType
  BY DEF Init, JobType, OpType, NoOp
<1>2. result \in Answers /\ reply \in Answers
  BY DEF Init, Says, Answers, Kinds, Outcomes
<1>3. pc \in Steps /\ stream \in StreamStates /\ queries \in 0..MaxQueries
  BY MaxQueriesAssumption DEF Init, Steps, StreamStates
<1> QED
  BY <1>1, <1>2, <1>3, TypesByRecord DEF Init

\* The initial state satisfies the invariant.
LEMMA InitInvariant == Init => Invariant
<1> SUFFICES ASSUME Init PROVE Invariant
  OBVIOUS
<1> USE DEF Init, Says, NoOp
<1>1. CommitInv /\ LeaseInv
  BY DEF CommitInv, LeaseInv, Pending, Committing, Ending
<1>2. RollbackInv /\ ClaimInv
  BY DEF RollbackInv, ClaimInv, Ending
<1>3. ReplyInv
  BY DEF ReplyInv, OkMeansCommitted, RolledBackMeansEnded
<1> QED
  BY <1>1, <1>2, <1>3 DEF Invariant

\* The types and the invariant hold with any number of queries, with and without deadlines.
THEOREM InvariantHolds == Spec => [](TypeOK /\ Invariant)
<1>1. TypeOK /\ Invariant /\ [Next]_vars => (TypeOK /\ Invariant)'
  BY StepTypes, CommitInvKept, LeaseInvKept, RollbackInvKept, ClaimInvKept, ReplyInvKept
     DEF Invariant
<1> QED
  BY <1>1, InitTypes, InitInvariant, PTL DEF Spec

\* What the reply claims about the commit is true and stays true (Transaction.run,
\* Database.handle_info of :finished, :expire and :DOWN).
THEOREM RepliesAreTrue == Spec => []ReplyIsTrue
<1>1. TypeOK /\ Invariant => ReplyIsTrue
  BY DEF ReplyIsTrue, Invariant, ReplyInv, CommitInv, PendingNeverCommits
<1> QED
  BY <1>1, InvariantHolds, PTL

\* A callback that ignored the failure of a query does not commit (Transaction.query).
THEOREM NoCommitAfterError == Spec => []IgnoredErrorNeverCommits
<1>1. TypeOK /\ Invariant => IgnoredErrorNeverCommits
  BY DEF IgnoredErrorNeverCommits, Invariant, CommitInv
<1> QED
  BY <1>1, InvariantHolds, PTL
================================================================================
