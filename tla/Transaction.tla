----------------------------- MODULE Transaction -----------------------------
(***************************************************************************)
(* One call of Aphid.transaction: the runner process of                     *)
(* lib/aphid/transaction.ex with the user's callback in it, the             *)
(* coordinator's job with its deadlines, phases and outcome                 *)
(* (lib/aphid/database.ex), the leased native session, and the reply the    *)
(* caller gets.  The native session is that of NativeSession, reduced to    *)
(* one lease; the coordinator that of Coordinator, reduced to one job.      *)
(* The question is what the caller may believe about the commit.            *)
(***************************************************************************)
EXTENDS Naturals

CONSTANTS MaxQueries,  \* bound on the queries and streams of the callback
          Deadlines    \* whether timeouts are finite: FALSE for timeout: :infinity

ASSUME MaxQueriesAssumption == MaxQueries \in Nat

VARIABLES
  pc,       \* where the runner is in Transaction.run
  result,   \* what Transaction.run will send back
  record,   \* the process dictionary entry: "nil", "error" or "rollback"
  queries,  \* queries and streams started so far
  stream,   \* the stream the callback has not released: "none", "open" or "done"
  mailed,   \* whether {:finished, id, result} is in the mailbox
  job,      \* the coordinator's job
  expire,   \* whether {:expire, id, generation} is in the mailbox
  late,     \* what has passed: nothing, the current phase's deadline, the job's
  kill,     \* whether an exit signal is on its way to the runner
  server,   \* whether the coordinator lives
  lease,    \* the native lease
  op,       \* the operation in the native session
  told,     \* the {:aphid_native, operation, status} message of that operation
  tx,       \* the engine transaction
  retired,  \* whether the native session reports state 3
  reply     \* what the caller was told

nativeVars == <<lease, op, told, tx, retired>>
runnerVars == <<pc, result, record, queries, stream, mailed>>
coordVars  == <<job, expire, kill, server>>
vars == <<runnerVars, coordVars, late, nativeVars, reply>>

\* A result or reply: its kind and the outcome it carries.
Says(kind, outcome) == [kind |-> kind, outcome |-> outcome]
Kinds    == {"none", "ok", "rollback", "raise", "error", "timeout", "commit_unknown",
             "rollback_unknown", "cleanup_failed", "failed", "closed", "down"}
Outcomes == {"none", "pending_rollback", "unknown", "committed", "rolled_back"}
Answers  == [kind: Kinds, outcome: Outcomes]

Steps == {"acquire", "begin", "begin_wait", "begin_idle", "callback", "query", "query_wait",
          "query_idle", "query_done", "stream", "stream_wait", "stream_finish", "stream_check",
          "stream_idle", "commit_phase", "commit", "commit_wait", "commit_idle",
          "committed_phase", "release", "await_idle", "finished", "sent", "dead"}
StreamStates == {"none", "open", "done"}

\* The type invariant.
TypeOK ==
  /\ pc \in Steps
  /\ result \in Answers /\ reply \in Answers
  /\ record \in {"nil", "error", "rollback"}
  /\ queries \in 0..MaxQueries /\ stream \in StreamStates
  /\ mailed \in BOOLEAN /\ expire \in BOOLEAN /\ kill \in BOOLEAN
  /\ job \in [from: BOOLEAN, worker: BOOLEAN, phase: BOOLEAN, timer: BOOLEAN,
              outcome: {"pending_rollback", "unknown", "committed"}]
  /\ late \in {"no", "phase", "job"}
  /\ server \in {"up", "down"}
  /\ lease \in {"none", "held", "failed", "abandoned", "ended"}
  /\ op \in [kind: {"none", "begin", "query", "commit"}, ready: BOOLEAN, cancel: BOOLEAN,
             discard: BOOLEAN]
  /\ told \in {"none", "ok", "error"}
  /\ tx \in {"none", "open", "committed", "rolled_back"}
  /\ retired \in BOOLEAN

NoOp == [kind |-> "none", ready |-> FALSE, cancel |-> FALSE, discard |-> FALSE]

Init ==
  /\ pc = "acquire" /\ result = Says("none", "none") /\ record = "nil" /\ queries = 0 /\ stream = "none"
  /\ mailed = FALSE /\ expire = FALSE /\ kill = FALSE /\ server = "up" /\ late = "no"
  /\ job = [from |-> TRUE, worker |-> TRUE, phase |-> FALSE, timer |-> TRUE,
            outcome |-> "pending_rollback"]
  /\ lease = "none" /\ op = NoOp /\ told = "none" /\ tx = "none" /\ retired = FALSE
  /\ reply = Says("none", "none")

-----------------------------------------------------------------------------
(* The coordinator. *)

\* cancel/3: the pending call is answered, the runner is killed.
CancelWith(answer) ==
  /\ reply' = IF job.from THEN answer ELSE reply
  /\ job' = [job EXCEPT !.from = FALSE, !.timer = FALSE]
  /\ kill' = (kill \/ (job.worker /\ pc # "dead"))

\* timeout/1, worker_failure/1 and cancelled_response/2
OrUnknown(kind) == Says(IF job.outcome = "unknown" THEN "commit_unknown" ELSE kind, job.outcome)

CurrentExpired == late = "job" \/ (late = "phase" /\ job.phase)

\* Fault: the message is taken for one of an earlier generation.
HandleExpireStale ==
  /\ server = "up" /\ expire
  /\ expire' = FALSE
  /\ UNCHANGED <<runnerVars, job, kill, server, late, nativeVars, reply>>

HandleExpire ==
  /\ server = "up" /\ expire
  /\ expire' = FALSE
  /\ CancelWith(OrUnknown("timeout"))
  /\ UNCHANGED <<runnerVars, server, late, nativeVars>>

\* {:finished, id, result}: an expired deadline overrides the result.
HandleFinished ==
  /\ server = "up" /\ mailed
  /\ mailed' = FALSE
  /\ reply' = IF ~job.from THEN reply
              ELSE IF CurrentExpired THEN OrUnknown("timeout") ELSE result
  /\ job' = [job EXCEPT !.from = FALSE, !.timer = @ /\ ~job.from]
  /\ UNCHANGED <<pc, result, record, queries, stream, expire, kill, server, late, nativeVars>>

HandleRunnerDown ==
  /\ server = "up" /\ pc = "dead" /\ job.worker /\ ~mailed
  /\ reply' = IF job.from THEN OrUnknown("failed") ELSE reply
  /\ job' = [job EXCEPT !.from = FALSE, !.worker = FALSE, !.timer = @ /\ ~job.from]
  /\ UNCHANGED <<runnerVars, expire, kill, server, late, nativeVars>>

\* close, or a poll that finds a session broken: Native.close, then every job is cancelled.
Shutdown ==
  /\ server = "up"
  /\ CancelWith(OrUnknown("closed"))
  /\ retired' = TRUE
  /\ UNCHANGED <<runnerVars, expire, server, late, lease, op, told, tx>>

\* The caller sees :database_down; monitors retire the database and kill the runner.
ServerDies ==
  /\ server = "up"
  /\ server' = "down"
  /\ reply' = IF job.from THEN Says("down", "unknown") ELSE reply
  /\ job' = [job EXCEPT !.from = FALSE, !.timer = FALSE]
  /\ kill' = (pc # "dead")
  /\ retired' = TRUE
  /\ UNCHANGED <<runnerVars, expire, late, lease, op, told, tx>>

\* Fault: the outcome is only in doubt once the commit is over.
PhaseOutcomeLate(phase) == IF phase = "committed" THEN "committed" ELSE job.outcome

PhaseOutcome(phase) == CASE phase = "commit" -> "unknown"
                         [] phase = "committed" -> "committed"
                         [] OTHER -> job.outcome

\* {:transaction_phase, id, phase}: refused to a job that was answered, fatal to one that is
\* late or asks for a query whose own deadline has passed, otherwise the phase and the outcome
\* are recorded and the runner goes on at `next`.
Phase(phase, next) ==
  /\ server = "up" /\ job.from /\ job.worker
  /\ \/ /\ CurrentExpired \/ late = "job" \/ (Deadlines /\ phase = "query")
        /\ CancelWith(OrUnknown("timeout")) /\ UNCHANGED <<pc, late>>
     \/ /\ ~CurrentExpired /\ late # "job"
        /\ job' = [job EXCEPT !.phase = phase # "done",
                               !.outcome = PhaseOutcome(phase)]
        /\ pc' = next
        /\ late' = "no"
        /\ UNCHANGED <<reply, kill>>
  /\ UNCHANGED <<expire, server>>

\* The clock passes the deadline of the current phase, or that of the whole job.
Deadline ==
  /\ Deadlines
  /\ \/ late = "no" /\ job.phase /\ late' = "phase"
     \/ late # "job" /\ late' = "job"
  /\ UNCHANGED <<runnerVars, coordVars, nativeVars, reply>>

TimerFires ==
  /\ job.timer /\ CurrentExpired
  /\ job' = [job EXCEPT !.timer = FALSE]
  /\ expire' = TRUE
  /\ UNCHANGED <<runnerVars, kill, server, late, nativeVars, reply>>

-----------------------------------------------------------------------------
(* The native session. *)

Occupied == op.kind # "none"
Running  == Occupied /\ ~op.ready

NativeState == CASE retired -> "retired"
                 [] ~retired /\ op.ready -> "ready"
                 [] ~retired /\ Running -> "busy"
                 [] OTHER -> IF lease \in {"held", "failed", "abandoned"} THEN "leased" ELSE "idle"

Complete(code) ==
  /\ op' = [op EXCEPT !.ready = TRUE]
  /\ told' = code
  /\ lease' = IF code = "error" /\ lease = "held" THEN "failed" ELSE lease

\* Cancelled before execution, or the engine succeeds or fails: a failed commit may have
\* become durable, any failure may have lost the transaction.
NativeExecutes ==
  /\ Running
  /\ \/ (op.cancel \/ retired \/ lease = "abandoned") /\ Complete("error") /\ UNCHANGED tx
     \/ op.kind = "begin" /\ Complete("ok") /\ tx' = "open"
     \/ op.kind = "query" /\ tx = "open" /\ Complete("ok") /\ UNCHANGED tx
     \/ op.kind = "commit" /\ tx = "open" /\ Complete("ok") /\ tx' = "committed"
     \/ op.kind = "commit" /\ tx = "open" /\ Complete("error") /\ tx' = "committed"
     \/ Complete("error") /\ tx' \in {tx, IF tx = "open" THEN "rolled_back" ELSE tx}
  /\ UNCHANGED <<runnerVars, coordVars, late, retired, reply>>

\* A finished operation is cleaned up, the lease stays.
NativeCleans ==
  /\ op.ready /\ op.discard
  /\ op' = NoOp
  /\ UNCHANGED <<runnerVars, coordVars, late, lease, told, tx, retired, reply>>

\* An abandoned lease or a retired session loses its operation and its transaction.
NativeEnds ==
  /\ lease = "abandoned" \/ (retired /\ lease \in {"held", "failed"})
  /\ ~Running
  /\ op' = NoOp
  /\ tx' = IF tx = "open" THEN "rolled_back" ELSE tx
  /\ lease' = "ended"
  /\ UNCHANGED <<runnerVars, coordVars, late, told, retired, reply>>

NativeBreaks ==
  /\ ~retired
  /\ retired' = TRUE
  /\ UNCHANGED <<runnerVars, coordVars, late, lease, op, told, tx, reply>>

\* Fault: a lease with a failed operation is not released.
OwnerDownHeld ==
  /\ pc = "dead" /\ ~retired
  /\ lease = "held"
  /\ lease' = "abandoned"
  /\ UNCHANGED <<runnerVars, coordVars, late, op, told, tx, retired, reply>>

\* lease_down and operation_down once the runner is dead.
OwnerDown ==
  /\ pc = "dead" /\ ~retired
  /\ lease \in {"held", "failed"}
  /\ lease' = "abandoned"
  /\ UNCHANGED <<runnerVars, coordVars, late, op, told, tx, retired, reply>>

-----------------------------------------------------------------------------
(* The runner. *)

RunnerKeeps == UNCHANGED <<coordVars, late, reply>>
Goes(next)  == pc' = next
Notes(kind) == result' = Says(kind, "none")

\* Reservation and submission; a lease with a failed operation is refused.
Accepted == ~retired /\ lease = "held" /\ ~Occupied

Submit(at, kind, accepted, refused) ==
  /\ pc = at
  /\ IF Accepted
     THEN Goes(accepted) /\ op' = [NoOp EXCEPT !.kind = kind] /\ told' = "none"
     ELSE Goes(refused) /\ UNCHANGED <<op, told>>
  /\ UNCHANGED <<queries, stream, mailed, lease, tx, retired>> /\ RunnerKeeps

\* Native.finish only has an effect on a completed operation.
Finished == [op EXCEPT !.discard = op.ready]

\* The completion message, or the deadline: cancel.  Then finish.
Wait(at, next) ==
  /\ pc = at /\ Goes(next)
  /\ \/ told # "none" /\ op' = Finished
     \/ told = "none" /\ late # "no" /\ op' = [Finished EXCEPT !.cancel = Occupied]
  /\ UNCHANGED <<queries, stream, mailed, lease, told, tx, retired>> /\ RunnerKeeps

\* Database.await_idle/4 for the state `expected`: reached, or given up.
AwaitIdle(at, expected) ==
  /\ pc = at
  /\ NativeState \in {expected, "retired"} \/ late # "no"
  /\ UNCHANGED <<queries, stream, mailed, nativeVars>> /\ RunnerKeeps

LeaseAcquire ==
  /\ pc = "acquire"
  /\ IF retired THEN Goes("finished") /\ Notes("error") /\ UNCHANGED lease
     ELSE Goes("begin") /\ lease' = "held" /\ UNCHANGED result
  /\ UNCHANGED <<record, queries, stream, mailed, op, told, tx, retired>> /\ RunnerKeeps

BeginSubmit == Submit("begin", "begin", "begin_wait", "release") /\ UNCHANGED record
               /\ (IF Accepted THEN UNCHANGED result ELSE Notes("error"))
BeginWait   == Wait("begin_wait", "begin_idle") /\ UNCHANGED record
               /\ Notes(IF told = "ok" THEN "ok" ELSE "error")
BeginIdle   ==
  /\ AwaitIdle("begin_idle", "leased") /\ UNCHANGED record
  /\ IF NativeState = "leased" /\ result.kind = "ok"
     THEN Goes("callback") /\ UNCHANGED result
     ELSE Goes("release") /\ Notes("error")

\* Transaction.query: any failure is recorded, so that the callback cannot commit.
QueryPhase ==
  /\ pc = "callback" /\ record = "nil" /\ queries < MaxQueries
  /\ IF NativeState = "leased"
     THEN Phase("query", "query") /\ UNCHANGED record
     ELSE record' = "error" /\ UNCHANGED <<pc, coordVars, late, reply>>
  /\ queries' = queries + 1
  /\ UNCHANGED <<result, stream, mailed, nativeVars>>

QuerySubmit == Submit("query", "query", "query_wait", "query_idle") /\ UNCHANGED result
               /\ record' = (IF Accepted THEN record ELSE "error")

\* Transfer of the result may fail too.
QueryWait   == Wait("query_wait", "query_idle") /\ UNCHANGED result
               /\ record' \in (IF told = "ok" THEN {record, "error"} ELSE {"error"})
QueryIdle   == AwaitIdle("query_idle", "leased") /\ Goes("query_done") /\ UNCHANGED result
               /\ record' = (IF NativeState = "leased" THEN record ELSE "error")
\* phase(:done) after a query or a stream; a rollback that was thrown goes on.
QueryDone   == /\ pc = "query_done"
               /\ Phase("done", IF record = "rollback" THEN "release" ELSE "callback")
               /\ UNCHANGED <<result, record, queries, stream, mailed, nativeVars>>

\* A stream of the transaction (lib/aphid/stream.ex), which its process enumerates itself.
\* Bound: the next one is opened when the previous one was released.
StreamStart ==
  /\ pc = "callback" /\ record = "nil" /\ queries < MaxQueries /\ stream = "none"
  /\ IF NativeState = "leased"
     THEN Phase("query", "stream") /\ UNCHANGED record
     ELSE record' = "error" /\ UNCHANGED <<pc, coordVars, late, reply>>
  /\ queries' = queries + 1
  /\ UNCHANGED <<result, stream, mailed, nativeVars>>

StreamSubmit == Submit("stream", "query", "stream_wait", "query_done") /\ UNCHANGED result
                /\ record' = (IF Accepted THEN record ELSE "error")

\* Database.await; a stream that does not open is finished and recorded.
StreamWait ==
  /\ pc = "stream_wait"
  /\ \/ told = "ok" /\ Goes("callback") /\ stream' = "open" /\ UNCHANGED <<op, record>>
     \/ /\ told = "error" \/ (told = "none" /\ late # "no")
        /\ op' = [Finished EXCEPT !.cancel = @ \/ (told = "none" /\ Occupied)]
        /\ Goes("stream_check") /\ record' = "error" /\ UNCHANGED stream
  /\ UNCHANGED <<result, queries, mailed, lease, told, tx, retired>> /\ RunnerKeeps

\* The last batch gives the result up (StreamTransfer).
StreamLastBatch ==
  /\ pc = "callback" /\ stream = "open" /\ late = "no"
  /\ stream' = "done" /\ op' = Finished
  /\ UNCHANGED <<pc, result, record, queries, mailed, lease, told, tx, retired>> /\ RunnerKeeps

\* A fetch fails and is recorded, or the stream's deadline is over: either is raised, and the
\* stream released.
StreamFails ==
  /\ pc = "callback" /\ stream = "open"
  /\ \/ record' = (IF record = "nil" THEN "error" ELSE record)
     \/ late # "no" /\ UNCHANGED record
  /\ Goes("stream_finish")
  /\ UNCHANGED <<result, queries, stream, mailed, nativeVars>> /\ RunnerKeeps

\* The enumeration is halted, at its end, or left by an exception.
StreamHalts ==
  /\ pc = "callback" /\ stream # "none"
  /\ Goes("stream_finish")
  /\ UNCHANGED <<result, record, queries, stream, mailed, nativeVars>> /\ RunnerKeeps

\* finish_transaction: the operation is finished; a session that is idle has lost its lease to
\* a rollback, otherwise the lease is waited for.
StreamFinish ==
  /\ pc = "stream_finish" /\ Goes("stream_check")
  /\ op' = Finished /\ stream' = "none"
  /\ UNCHANGED <<result, record, queries, mailed, lease, told, tx, retired>> /\ RunnerKeeps

StreamCheck ==
  /\ pc = "stream_check"
  /\ Goes(IF NativeState = "idle" THEN "query_done" ELSE "stream_idle")
  /\ UNCHANGED <<result, record, queries, stream, mailed, nativeVars>> /\ RunnerKeeps

\* An error here is recorded and raised, in place of a rollback that was thrown.
StreamIdle ==
  /\ AwaitIdle("stream_idle", "leased")
  /\ IF NativeState = "leased"
     THEN Goes("query_done") /\ UNCHANGED <<result, record>>
     ELSE IF record = "rollback"
     THEN Goes("release") /\ UNCHANGED record /\ \/ Notes("raise") \/ UNCHANGED result
     ELSE Goes("callback") /\ record' = "error" /\ UNCHANGED result

\* Fault: a recorded error does not prevent the commit.
CallbackReturnsAnyway ==
  /\ pc = "callback"
  /\ IF NativeState = "leased"
     THEN Goes("commit_phase") /\ UNCHANGED result
     ELSE Goes("release") /\ Notes("error")
  /\ UNCHANGED <<record, queries, stream, mailed, nativeVars>> /\ RunnerKeeps

\* The callback returns, raises, or calls Aphid.rollback, perhaps while it enumerates a stream.
CallbackReturns ==
  /\ pc = "callback"
  /\ IF record = "nil" /\ NativeState = "leased"
     THEN Goes("commit_phase") /\ UNCHANGED result
     ELSE Goes("release") /\ Notes("error")
  /\ UNCHANGED <<record, queries, stream, mailed, nativeVars>> /\ RunnerKeeps

CallbackRaises ==
  /\ pc \in {"callback", "query_wait"}
  /\ Goes("release") /\ Notes("raise")
  /\ UNCHANGED <<record, queries, stream, mailed, nativeVars>> /\ RunnerKeeps

ReleaseLease == lease' = IF ~retired /\ lease \in {"held", "failed"} THEN "abandoned" ELSE lease

CallbackRollsBack ==
  /\ pc = "callback"
  /\ Goes("release") \/ (stream # "none" /\ Goes("stream_finish"))
  /\ Notes("rollback") /\ record' = "rollback"
  /\ ReleaseLease
  /\ UNCHANGED <<queries, stream, mailed, op, told, tx, retired>> /\ RunnerKeeps

CommitPhase == /\ pc = "commit_phase"
               /\ Phase("commit", "commit")
               /\ UNCHANGED <<result, record, queries, stream, mailed, nativeVars>>
CommitSubmit == Submit("commit", "commit", "commit_wait", "release") /\ UNCHANGED record
                /\ (IF Accepted THEN UNCHANGED result ELSE Notes("error"))
\* Fault: the completion status of the commit is not looked at.
CommitWaitTrusts == Wait("commit_wait", "commit_idle") /\ UNCHANGED record
                    /\ result' = Says("ok", "none")

CommitWait  == Wait("commit_wait", "commit_idle") /\ UNCHANGED record
               /\ result' = (IF told = "ok" THEN Says("ok", "none")
                             ELSE Says("commit_unknown", "unknown"))
\* `with :ok <- await_idle(...), do: result`: a failed wait replaces the result.
CommitIdle ==
  /\ AwaitIdle("commit_idle", "leased") /\ UNCHANGED record
  /\ IF NativeState = "leased"
     THEN Goes(IF result.kind = "ok" THEN "committed_phase" ELSE "release") /\ UNCHANGED result
     ELSE Goes("release") /\ Notes("error")
CommittedPhase == /\ pc = "committed_phase"
                  /\ Phase("committed", "release")
                  /\ UNCHANGED <<result, record, queries, stream, mailed, nativeVars>>

LeaseRelease ==
  /\ pc = "release" /\ Goes("await_idle")
  /\ ReleaseLease
  /\ UNCHANGED <<result, record, queries, stream, mailed, op, told, tx, retired>> /\ RunnerKeeps

\* finalized/1 after confirmed cleanup, cleanup_error/1 otherwise.
Finalized == IF result.kind = "error" THEN Says("error", "rolled_back") ELSE result
CleanupError == CASE result.kind = "commit_unknown" -> result
                  [] result.kind = "ok" -> Says("cleanup_failed", "committed")
                  [] OTHER -> Says("rollback_unknown", "unknown")
\* Fault: cleanup that was not confirmed counts as done.
CleanupUnconfirmed ==
  /\ AwaitIdle("await_idle", "idle") /\ UNCHANGED record
  /\ Goes("finished")
  /\ result' = Finalized

Cleanup ==
  /\ AwaitIdle("await_idle", "idle") /\ UNCHANGED record
  /\ Goes("finished")
  /\ result' = (IF NativeState = "idle" THEN Finalized ELSE CleanupError)

Send ==
  /\ pc = "finished" /\ Goes("sent")
  /\ mailed' = TRUE
  /\ UNCHANGED <<result, record, queries, stream, nativeVars>> /\ RunnerKeeps

\* Normal exit; an exit signal; or the callback takes the runner down with it.
RunnerExits ==
  /\ pc = "sent" \/ (kill /\ pc # "dead") \/ pc \in {"callback", "commit_wait"}
  /\ Goes("dead") /\ kill' = FALSE
  /\ UNCHANGED <<result, record, queries, stream, mailed, job, expire, server, late, nativeVars, reply>>

\* What the callback chooses, and what the runner does on its own until it waits.
CallbackStep ==
  \/ QueryPhase \/ StreamStart \/ StreamLastBatch \/ StreamFails \/ StreamHalts
  \/ CallbackReturns \/ CallbackRaises \/ CallbackRollsBack
RunnerStep ==
  \/ LeaseAcquire \/ BeginSubmit \/ BeginWait \/ BeginIdle
  \/ QuerySubmit \/ QueryWait \/ QueryIdle \/ QueryDone
  \/ StreamSubmit \/ StreamWait \/ StreamFinish \/ StreamCheck \/ StreamIdle
  \/ CommitPhase \/ CommitSubmit \/ CommitWait \/ CommitIdle \/ CommittedPhase
  \/ LeaseRelease \/ Cleanup \/ Send

Next ==
  \/ CallbackStep \/ RunnerStep \/ RunnerExits
  \/ HandleExpire \/ HandleFinished \/ HandleRunnerDown \/ Shutdown \/ ServerDies
  \/ Deadline \/ TimerFires
  \/ NativeExecutes \/ NativeCleans \/ NativeEnds \/ NativeBreaks \/ OwnerDown

Spec == Init /\ [][Next]_vars

(***************************************************************************)
(* Fairness: the clock goes on to a finite deadline, timers fire, the       *)
(* server handles its mailbox, exit signals and monitors arrive, the runner *)
(* is scheduled, and the native session answers a cancelled or abandoned    *)
(* operation.  The callback may run for ever.                               *)
(***************************************************************************)
Fairness ==
  /\ WF_vars(late # "job" /\ Deadline) /\ WF_vars(TimerFires)
  /\ WF_vars(HandleExpire) /\ WF_vars(HandleFinished) /\ WF_vars(HandleRunnerDown)
  /\ WF_vars((kill \/ pc = "sent") /\ RunnerExits) /\ WF_vars(RunnerStep)
  /\ WF_vars((lease = "abandoned" \/ retired) /\ NativeExecutes)
  /\ WF_vars(NativeCleans) /\ WF_vars(NativeEnds) /\ WF_vars(OwnerDown)

FairSpec == Spec /\ Fairness

-----------------------------------------------------------------------------
(* Safety. *)

\* What the reply claims is true, and stays true.  {:ok, value} and an error that says
\* committed: the transaction has committed.  A rollback, a raised exception and an error that
\* says rolled_back: the lease has ended without a commit.  pending_rollback, or an error
\* from before the lease was taken: no commit follows.
OkMeansCommitted ==
  reply.kind = "ok" \/ reply.outcome = "committed" => tx = "committed"
RolledBackMeansEnded ==
  reply.kind \in {"rollback", "raise"} \/ reply.outcome = "rolled_back"
    => tx \in {"none", "rolled_back"} /\ lease = "ended"
PendingNeverCommits ==
  reply.outcome = "pending_rollback" \/ (reply.kind = "error" /\ reply.outcome = "none")
    => tx # "committed"
ReplyIsTrue == OkMeansCommitted /\ RolledBackMeansEnded /\ PendingNeverCommits

\* A callback that ignored the failure of a query does not commit.
IgnoredErrorNeverCommits == record # "nil" => tx # "committed"

(* Liveness, under FairSpec. *)

\* README.md: "Aphid.rollback(tx, reason) to return {:error, reason} after rollback"; so a
\* callback that rolls back comes to an answer, with timeout: :infinity too.
RollbackReturns == record = "rollback" ~> reply.kind # "none"

\* With finite deadlines the caller is answered even if its callback never returns.
CallerIsAnswered == <>(reply.kind # "none")

\* However the call ends, the session gets rid of the lease and its transaction.
LeaseEnds == (lease \in {"held", "failed"}) ~> (lease = "ended" /\ tx # "open")
=============================================================================
