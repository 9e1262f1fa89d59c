---------------------------- MODULE NativeSession ----------------------------
(***************************************************************************)
(* One native session of an open database (native/bridge.cpp, struct       *)
(* Session) with its worker thread, the entry points of bridge.h that NIF  *)
(* calls, process monitors and destructors run against it, and the engine  *)
(* transaction of its connection.                                          *)
(*                                                                         *)
(* Every action is one critical section of Session::mutex, or one stretch  *)
(* of the worker between two of them.  Callers are unrestricted: any       *)
(* operation or lease handle may be used by any thread in any order, as    *)
(* killed processes whose dirty NIF calls are still running do.            *)
(*                                                                         *)
(* External: the engine.  A statement succeeds or fails; a failed one may  *)
(* have rolled its transaction back or left part of its effect in it, and  *)
(* a failed commit may or may not have become durable.                     *)
(***************************************************************************)
EXTENDS Naturals

CONSTANTS Ops,     \* operation ids, as handed out once each by aphid_next_id
          Leases,  \* lease ids, from the same counter
          None     \* the id 0: no operation, no lease, no result

ASSUME NoneAssumption == None \notin Ops /\ None \notin Leases

Query    == "query"
Begin    == "begin"
Commit   == "commit"
Rollback == "rollback"
Controls == {Query, Begin, Commit, Rollback}

Ok        == "ok"         \* outcome code 0
Failed    == "failed"     \* 3: engine error, or native worker terminated
Cancelled == "cancelled"  \* 4: operation cancelled before execution
Outcomes  == {"none", Ok, Failed, Cancelled}

CallStates   == {"new", "reserved", "abandoning", "rejected", "submitted"}
OwnerStates  == {"alive", "exited", "flagged", "down"}
WorkerStates == {"wait", "clean", "reset", "check", "engine", "publish", "notify",
                 "settle", "failing", "failed", "drain", "destroy", "exited"}

VARIABLES
  db,         \* aphid_db::state: "ready", "retiring" (session not told yet), "stopped"
  session,    \* the fields of struct Session, guarded by its mutex
  worker,     \* the program counter and locals of Session::run
  tx,         \* the engine transaction of the connection: the queries with an effect in it
  cursor,     \* the operation whose result an aphid_cursor reads, or None
  call,       \* where the NIF call that submits an operation is
  opLease,    \* the lease an operation was reserved under
  control,    \* what the operation asks for
  owner,      \* the owner process: "alive", "exited", then operation_down runs in two steps
  flagged,    \* operations whose `cancelled` atomic is set
  granted,    \* leases acquired so far
  released,   \* leases whose release was requested
  outcome,    \* the code an operation completed with
  answers,    \* how often complete() ran for an operation
  durable     \* queries whose effect is committed

clientVars == <<opLease, control, owner, flagged>>
leaseVars  == <<granted, released>>
vars == <<db, session, worker, tx, cursor, call, clientVars, leaseVars, outcome, answers, durable>>

SessionType ==
  [id: Ops \cup {None}, lease: Leases \cup {None}, pending: Ops \cup {None},
   result: Ops \cup {None}, error: Outcomes,
   busy: BOOLEAN, ready: BOOLEAN, stop: BOOLEAN, cancel: BOOLEAN, discard: BOOLEAN,
   fetching: BOOLEAN, leaseAbandoned: BOOLEAN, leaseFailed: BOOLEAN]

WorkerType ==
  [pc: WorkerStates, job: Ops \cup {None}, value: Ops \cup {None}, code: Outcomes,
   stopping: BOOLEAN, cancelled: BOOLEAN, releasing: BOOLEAN, delivered: BOOLEAN]

\* The type invariant.
TypeOK ==
  /\ db \in {"ready", "retiring", "stopped"}
  /\ session \in SessionType
  /\ worker \in WorkerType
  /\ tx \in [active: BOOLEAN, writes: SUBSET Ops]
  /\ cursor \in Ops \cup {None}
  /\ call \in [Ops -> CallStates]
  /\ opLease \in [Ops -> Leases \cup {None}]
  /\ control \in [Ops -> Controls]
  /\ owner \in [Ops -> OwnerStates]
  /\ flagged \subseteq Ops
  /\ granted \subseteq Leases
  /\ released \subseteq Leases
  /\ outcome \in [Ops -> Outcomes]
  /\ answers \in [Ops -> Nat]
  /\ durable \subseteq Ops

\* The locals at the top of the worker's loop.
Loop(label) == [pc |-> label, job |-> None, value |-> None, code |-> Ok, stopping |-> FALSE,
                cancelled |-> FALSE, releasing |-> FALSE, delivered |-> FALSE]

NoTx == [active |-> FALSE, writes |-> {}]

Init ==
  /\ db = "ready"
  /\ session = [id |-> None, lease |-> None, pending |-> None, result |-> None,
                error |-> Ok, busy |-> FALSE, ready |-> FALSE, stop |-> FALSE,
                cancel |-> FALSE, discard |-> FALSE, fetching |-> FALSE,
                leaseAbandoned |-> FALSE, leaseFailed |-> FALSE]
  /\ worker = Loop("wait")
  /\ tx = NoTx
  /\ cursor = None
  /\ call = [o \in Ops |-> "new"]
  /\ opLease = [o \in Ops |-> None]
  /\ control = [o \in Ops |-> Query]
  /\ owner = [o \in Ops |-> "alive"]
  /\ flagged = {} /\ granted = {} /\ released = {}
  /\ outcome = [o \in Ops |-> "none"]
  /\ answers = [o \in Ops |-> 0]
  /\ durable = {}

-----------------------------------------------------------------------------
(* Entry points.  session_for refuses every call unless aphid_db::state is 1. *)

Open == db = "ready"

LeaseAcquire(l) ==
  /\ l \notin granted
  /\ Open /\ ~session.busy /\ ~session.stop /\ session.lease = None
  /\ session' = [session EXCEPT !.lease = l]
  /\ granted' = granted \cup {l}
  /\ UNCHANGED <<db, worker, tx, cursor, call, clientVars, released, outcome, answers, durable>>

\* Fault: the lease is given up at once instead of by the worker.
LeaseReleaseAtOnce(l) ==
  /\ Open /\ session.lease = l
  /\ session' = [session EXCEPT !.lease = None, !.cancel = TRUE, !.discard = TRUE]
  /\ released' = released \cup {l}
  /\ UNCHANGED <<db, worker, tx, cursor, call, clientVars, granted, outcome, answers, durable>>

\* Fault: the release does not interrupt what the lease is executing.
LeaseReleaseQuietly(l) ==
  /\ Open /\ session.lease = l
  /\ session' = [session EXCEPT !.leaseAbandoned = TRUE, !.discard = TRUE]
  /\ released' = released \cup {l}
  /\ UNCHANGED <<db, worker, tx, cursor, call, clientVars, granted, outcome, answers, durable>>

\* Explicit release, the owner's monitor and the destructor all come here.
LeaseRelease(l) ==
  /\ Open /\ session.lease = l
  /\ session' = [session EXCEPT !.leaseAbandoned = TRUE, !.cancel = TRUE, !.discard = TRUE]
  /\ released' = released \cup {l}
  /\ UNCHANGED <<db, worker, tx, cursor, call, clientVars, granted, outcome, answers, durable>>

\* aphid_reserve_lease; a refused reservation changes nothing.
Reserve(o, l, c) ==
  /\ call[o] = "new"
  /\ Open /\ ~session.busy /\ ~session.stop /\ session.lease = l
  /\ ~session.leaseAbandoned /\ ~session.leaseFailed
  /\ c # Query => l # None
  /\ session' = [session EXCEPT !.busy = TRUE, !.id = o]
  /\ call' = [call EXCEPT ![o] = "reserved"]
  /\ opLease' = [opLease EXCEPT ![o] = l]
  /\ control' = [control EXCEPT ![o] = c]
  /\ UNCHANGED <<db, worker, tx, cursor, owner, flagged, leaseVars, outcome, answers, durable>>

\* The second critical section of aphid_submit_params and aphid_transaction_control.
QueryAdmissible(o) ==
  /\ session.busy /\ session.id = o /\ ~session.stop /\ ~session.cancel
  /\ ~session.discard /\ session.pending = None /\ ~session.ready

ControlAdmissible(o) ==
  /\ session.id = o /\ ~session.stop /\ ~session.cancel /\ ~session.leaseAbandoned

Admissible(o) == Open /\ IF control[o] = Query THEN QueryAdmissible(o) ELSE ControlAdmissible(o)

Submit(o) ==
  /\ call[o] = "reserved"
  /\ Admissible(o)
  /\ session' = [session EXCEPT !.pending = o,
                                !.cancel = IF control[o] = Query THEN o \in flagged ELSE @]
  /\ call' = [call EXCEPT ![o] = "submitted"]
  /\ UNCHANGED <<db, worker, tx, cursor, clientVars, leaseVars, outcome, answers, durable>>

\* The submission is refused, or its parameters cannot be converted.
Refuse(o) ==
  /\ call[o] = "reserved"
  /\ Admissible(o) => control[o] = Query
  /\ call' = [call EXCEPT ![o] = "abandoning"]
  /\ UNCHANGED <<db, session, worker, tx, cursor, clientVars, leaseVars, outcome, answers, durable>>

\* Fault: the operation id is not compared.
CancelAnyone(o, abandon) ==
  IF Open /\ session.busy
  THEN session' = [session EXCEPT !.cancel = TRUE, !.discard = @ \/ abandon]
  ELSE UNCHANGED session

\* aphid_cancel
CancelCall(o, abandon) ==
  IF Open /\ session.busy /\ session.id = o
  THEN session' = [session EXCEPT !.cancel = TRUE, !.discard = @ \/ abandon]
  ELSE UNCHANGED session

\* The Abandon guard, or operation_dtor, after a refused submission.
AbandonReservation(o) ==
  /\ call[o] = "abandoning"
  /\ CancelCall(o, TRUE)
  /\ call' = [call EXCEPT ![o] = "rejected"]
  /\ UNCHANGED <<db, worker, tx, cursor, clientVars, leaseVars, outcome, answers, durable>>

\* Native.cancel: the flag first, the session afterwards.
RequestCancel(o) ==
  /\ call[o] = "submitted" /\ o \notin flagged
  /\ flagged' = flagged \cup {o}
  /\ UNCHANGED <<db, session, worker, tx, cursor, call, opLease, control, owner, leaseVars,
                 outcome, answers, durable>>

DeliverCancel(o) ==
  /\ call[o] = "submitted" /\ o \in flagged
  /\ CancelCall(o, FALSE)
  /\ UNCHANGED <<db, worker, tx, cursor, call, clientVars, leaseVars, outcome, answers, durable>>

\* The owner exits, even inside its own dirty call; operation_down follows.
OwnerExit(o) ==
  /\ owner[o] = "alive"
  /\ owner' = [owner EXCEPT ![o] = "exited"]
  /\ UNCHANGED <<db, session, worker, tx, cursor, call, opLease, control, flagged, leaseVars,
                 outcome, answers, durable>>

OwnerDown(o) ==
  /\ owner[o] = "exited"
  /\ owner' = [owner EXCEPT ![o] = "flagged"]
  /\ flagged' = flagged \cup {o}
  /\ UNCHANGED <<db, session, worker, tx, cursor, call, opLease, control, leaseVars,
                 outcome, answers, durable>>

DeliverDown(o) ==
  /\ owner[o] = "flagged"
  /\ owner' = [owner EXCEPT ![o] = "down"]
  /\ CancelCall(o, TRUE)
  /\ UNCHANGED <<db, worker, tx, cursor, call, opLease, control, flagged, leaseVars,
                 outcome, answers, durable>>

\* operation_dtor of an answered operation nobody refers to any more.
DropHandle(o) ==
  /\ call[o] = "submitted" /\ answers[o] > 0
  /\ CancelCall(o, TRUE)
  /\ UNCHANGED <<db, worker, tx, cursor, call, clientVars, leaseVars, outcome, answers, durable>>

Finish(o) ==
  /\ call[o] = "submitted"
  /\ Open /\ session.busy /\ session.id = o /\ session.ready
  /\ session' = [session EXCEPT !.discard = TRUE]
  /\ UNCHANGED <<db, worker, tx, cursor, call, clientVars, leaseVars, outcome, answers, durable>>

FetchBegin(o) ==
  /\ call[o] = "submitted"
  /\ Open /\ session.id = o /\ session.ready /\ ~session.stop /\ ~session.discard
  /\ ~session.fetching /\ session.error = Ok /\ session.result # None
  /\ session' = [session EXCEPT !.fetching = TRUE]
  /\ cursor' = o
  /\ UNCHANGED <<db, worker, tx, call, clientVars, leaseVars, outcome, answers, durable>>

FetchEnd ==
  /\ cursor # None
  /\ cursor' = None
  /\ session' = [session EXCEPT !.fetching = FALSE]
  /\ UNCHANGED <<db, worker, tx, call, clientVars, leaseVars, outcome, answers, durable>>

\* Runtime::retire: the database first, then each session under its mutex.
Retire ==
  /\ db = "ready"
  /\ db' = "retiring"
  /\ UNCHANGED <<session, worker, tx, cursor, call, clientVars, leaseVars, outcome, answers, durable>>

StopSession ==
  /\ db = "retiring"
  /\ db' = "stopped"
  /\ session' = [session EXCEPT !.stop = TRUE, !.cancel = TRUE, !.discard = TRUE]
  /\ UNCHANGED <<worker, tx, cursor, call, clientVars, leaseVars, outcome, answers, durable>>

-----------------------------------------------------------------------------
(* The worker thread, Session::run. *)

At(label) == worker.pc = label

\* Fault: the worker does not wait for the cursor.
WokenWhileFetching ==
  /\ At("wait")
  /\ \/ session.stop \/ session.pending # None
     \/ session.discard \/ session.leaseAbandoned

Woken == /\ At("wait") /\ ~session.fetching
         /\ \/ session.stop \/ session.pending # None
            \/ session.discard \/ session.leaseAbandoned

Snapshot(label, job) ==
  [Loop(label) EXCEPT !.job = job,
                      !.stopping = session.stop,
                      !.cancelled = session.cancel \/ session.stop,
                      !.releasing = session.leaseAbandoned]

TakeJob ==
  /\ Woken /\ session.pending # None
  /\ worker' = Snapshot("check", session.pending)
  /\ session' = [session EXCEPT !.pending = None]
  /\ UNCHANGED <<db, tx, cursor, call, clientVars, leaseVars, outcome, answers, durable>>

TakeGarbage ==
  /\ Woken /\ session.pending = None
  /\ worker' = Snapshot("clean", None)
  /\ session' = [session EXCEPT !.result = None]
  /\ UNCHANGED <<db, tx, cursor, call, clientVars, leaseVars, outcome, answers, durable>>

\* Fault: the transaction of an abandoned lease is not rolled back.
CleanKeepsTx ==
  /\ At("clean")
  /\ worker' = [worker EXCEPT !.pc = "reset"]
  /\ UNCHANGED <<db, session, tx, cursor, call, clientVars, leaseVars, outcome, answers, durable>>

Clean ==
  /\ At("clean")
  /\ tx' = IF worker.releasing THEN NoTx ELSE tx
  /\ worker' = [worker EXCEPT !.pc = "reset"]
  /\ UNCHANGED <<db, session, cursor, call, clientVars, leaseVars, outcome, answers, durable>>

\* Fault: lease_abandoned is read again, instead of as it was before the cleanup.
ResetRereads ==
  /\ At("reset")
  /\ session' = [session EXCEPT
       !.busy = FALSE, !.ready = FALSE, !.discard = FALSE, !.cancel = FALSE, !.id = None,
       !.lease = IF session.leaseAbandoned THEN None ELSE @,
       !.leaseAbandoned = FALSE,
       !.leaseFailed = @ /\ ~session.leaseAbandoned]
  /\ worker' = Loop(IF worker.stopping THEN "drain" ELSE "wait")
  /\ UNCHANGED <<db, tx, cursor, call, clientVars, leaseVars, outcome, answers, durable>>

\* Fault: the loop is not left when the session stops.
ResetNeverLeaves ==
  /\ At("reset")
  /\ session' = [session EXCEPT
       !.busy = FALSE, !.ready = FALSE, !.discard = FALSE, !.cancel = FALSE, !.id = None,
       !.lease = IF worker.releasing THEN None ELSE @,
       !.leaseAbandoned = @ /\ ~worker.releasing,
       !.leaseFailed = @ /\ ~worker.releasing]
  /\ worker' = Loop("wait")
  /\ UNCHANGED <<db, tx, cursor, call, clientVars, leaseVars, outcome, answers, durable>>

Reset ==
  /\ At("reset")
  /\ session' = [session EXCEPT
       !.busy = FALSE, !.ready = FALSE, !.discard = FALSE, !.cancel = FALSE, !.id = None,
       !.lease = IF worker.releasing THEN None ELSE @,
       !.leaseAbandoned = @ /\ ~worker.releasing,
       !.leaseFailed = @ /\ ~worker.releasing]
  /\ worker' = Loop(IF worker.stopping THEN "drain" ELSE "wait")
  /\ UNCHANGED <<db, tx, cursor, call, clientVars, leaseVars, outcome, answers, durable>>

\* Cancelled before execution, or the engine is entered.
CheckCancelled ==
  /\ At("check")
  /\ worker' = IF worker.cancelled \/ worker.job \in flagged
               THEN [worker EXCEPT !.pc = "publish", !.code = Cancelled, !.value = None]
               ELSE [worker EXCEPT !.pc = "engine"]
  /\ UNCHANGED <<db, session, tx, cursor, call, clientVars, leaseVars, outcome, answers, durable>>

Running(c) == At("engine") /\ control[worker.job] = c

EngineReturns(code, value) ==
  /\ worker' = [worker EXCEPT !.pc = "publish", !.code = code, !.value = value]
  /\ UNCHANGED <<db, session, cursor, call, clientVars, leaseVars, outcome, answers>>

EngineBegin ==
  /\ Running(Begin)
  /\ \/ /\ ~tx.active /\ EngineReturns(Ok, None)
        /\ tx' = [active |-> TRUE, writes |-> {}]
     \/ EngineReturns(Failed, None) /\ UNCHANGED tx
  /\ UNCHANGED durable

EngineCommit ==
  /\ Running(Commit)
  /\ \/ /\ tx.active /\ EngineReturns(Ok, None)
        /\ durable' = durable \cup tx.writes /\ tx' = NoTx
     \/ /\ tx.active /\ EngineReturns(Failed, None)
        /\ \/ durable' = durable \cup tx.writes /\ tx' = NoTx
           \/ durable' = durable /\ tx' \in {tx, NoTx}
     \/ ~tx.active /\ EngineReturns(Failed, None) /\ UNCHANGED <<tx, durable>>

EngineRollback ==
  /\ Running(Rollback)
  /\ \/ EngineReturns(Ok, None) /\ tx' = NoTx
     \/ tx.active /\ EngineReturns(Failed, None) /\ tx' \in {tx, NoTx}
  /\ UNCHANGED durable

\* `session.lease` is read here outside the mutex.
QuerySucceeds ==
  /\ Running(Query)
  /\ session.lease # None => tx.active
  /\ EngineReturns(Ok, worker.job)
  /\ IF tx.active
     THEN tx' = [tx EXCEPT !.writes = @ \cup {worker.job}] /\ UNCHANGED durable
     ELSE durable' = durable \cup {worker.job} /\ UNCHANGED tx

QueryFails ==
  /\ Running(Query)
  /\ \E value \in {None, worker.job} : EngineReturns(Failed, value)
  /\ \/ tx' \in {tx, NoTx}
     \/ tx.active /\ tx' = [tx EXCEPT !.writes = @ \cup {worker.job}]
  /\ UNCHANGED durable

\* Fault: only retirement interrupts.
InterruptibleByStop == session.busy /\ ~session.ready /\ session.stop

\* Session::interrupt, repeated by the controller, makes a running query fail.
Interruptible ==
  session.busy /\ ~session.ready /\ (session.cancel \/ session.stop)

Interrupt == Interruptible /\ QueryFails

Publish ==
  /\ At("publish")
  /\ session' = [session EXCEPT
       !.result = worker.value, !.error = worker.code, !.ready = TRUE,
       !.leaseFailed = @ \/ (session.lease # None /\ worker.code # Ok)]
  /\ outcome' = [outcome EXCEPT ![worker.job] = worker.code]
  /\ worker' = [worker EXCEPT !.pc = "notify", !.value = None]
  /\ UNCHANGED <<db, tx, cursor, call, clientVars, leaseVars, answers, durable>>

\* complete() sends the status to the owner and says whether it was delivered.
Notify ==
  /\ At("notify")
  /\ answers' = [answers EXCEPT ![worker.job] = @ + 1]
  /\ worker' = [worker EXCEPT !.pc = "settle", !.delivered = owner[worker.job] = "alive"]
  /\ UNCHANGED <<db, session, tx, cursor, call, clientVars, leaseVars, outcome, durable>>

\* Fault: an outcome that nobody received is kept for a fetch.
SettleIgnoresDelivery ==
  /\ At("settle")
  /\ worker' = Loop("wait")
  /\ UNCHANGED <<db, session, tx, cursor, call, clientVars, leaseVars, outcome, answers, durable>>

Settle ==
  /\ At("settle")
  /\ session' = [session EXCEPT !.discard = @ \/ ~worker.delivered]
  /\ worker' = Loop("wait")
  /\ UNCHANGED <<db, tx, cursor, call, clientVars, leaseVars, outcome, answers, durable>>

\* A thread failure on waking, or an engine exception from the rollback in Clean.
WorkerFails ==
  /\ Woken \/ (At("clean") /\ worker.releasing /\ tx.active)
  /\ worker' = Loop("failing")
  /\ UNCHANGED <<db, session, tx, cursor, call, clientVars, leaseVars, outcome, answers, durable>>

\* Fault: the pending job is copied, not moved.
FailSessionCopies ==
  /\ At("failing")
  /\ session' = [session EXCEPT !.stop = TRUE, !.ready = TRUE, !.error = Failed]
  /\ worker' = [worker EXCEPT !.pc = IF session.pending = None THEN "drain" ELSE "failed",
                              !.job = session.pending]
  /\ UNCHANGED <<db, tx, cursor, call, clientVars, leaseVars, outcome, answers, durable>>

FailSession ==
  /\ At("failing")
  /\ session' = [session EXCEPT !.stop = TRUE, !.ready = TRUE, !.error = Failed, !.pending = None]
  /\ worker' = [worker EXCEPT !.pc = IF session.pending = None THEN "drain" ELSE "failed",
                              !.job = session.pending]
  /\ UNCHANGED <<db, tx, cursor, call, clientVars, leaseVars, outcome, answers, durable>>

NotifyFailed ==
  /\ At("failed")
  /\ answers' = [answers EXCEPT ![worker.job] = @ + 1]
  /\ outcome' = [outcome EXCEPT ![worker.job] = Failed]
  /\ worker' = Loop("drain")
  /\ UNCHANGED <<db, session, tx, cursor, call, clientVars, leaseVars, durable>>

Drain ==
  /\ At("drain") /\ ~session.fetching
  /\ worker' = [worker EXCEPT !.pc = "destroy"]
  /\ UNCHANGED <<db, session, tx, cursor, call, clientVars, leaseVars, outcome, answers, durable>>

\* Result, statement and connection go; the engine rolls back with the connection.
Destroy ==
  /\ At("destroy")
  /\ session' = [session EXCEPT !.result = None]
  /\ tx' = NoTx
  /\ worker' = [worker EXCEPT !.pc = "exited"]
  /\ UNCHANGED <<db, cursor, call, clientVars, leaseVars, outcome, answers, durable>>

-----------------------------------------------------------------------------
Caller ==
  \/ \E l \in Leases : LeaseAcquire(l) \/ LeaseRelease(l)
  \/ \E o \in Ops :
       \/ \E l \in Leases \cup {None}, c \in Controls : Reserve(o, l, c)
       \/ Submit(o) \/ Refuse(o) \/ AbandonReservation(o)
       \/ RequestCancel(o) \/ DeliverCancel(o)
       \/ OwnerExit(o) \/ OwnerDown(o) \/ DeliverDown(o)
       \/ DropHandle(o) \/ Finish(o) \/ FetchBegin(o)
  \/ FetchEnd \/ Retire \/ StopSession

Worker ==
  \/ TakeJob \/ TakeGarbage \/ Clean \/ Reset
  \/ CheckCancelled
  \/ EngineBegin \/ EngineCommit \/ EngineRollback \/ QuerySucceeds \/ QueryFails \/ Interrupt
  \/ Publish \/ Notify \/ Settle
  \/ WorkerFails \/ FailSession \/ NotifyFailed \/ Drain \/ Destroy

Next == Caller \/ Worker

Spec == Init /\ [][Next]_vars

(***************************************************************************)
(* Fairness.  The worker thread is scheduled; begin, commit and rollback   *)
(* return; a query need not, unless it is interrupted.  A NIF call that    *)
(* was entered goes on, a monitor fires, a fetch ends because it encodes a *)
(* bounded batch, and retire visits the session.                           *)
(***************************************************************************)
WorkerGoesOn ==
  \/ TakeJob \/ TakeGarbage \/ Clean \/ Reset \/ CheckCancelled
  \/ EngineBegin \/ EngineCommit \/ EngineRollback \/ Interrupt
  \/ Publish \/ Notify \/ Settle \/ FailSession \/ NotifyFailed \/ Drain \/ Destroy

Fairness ==
  /\ WF_vars(WorkerGoesOn)
  /\ WF_vars(FetchEnd)
  /\ WF_vars(StopSession)
  /\ \A o \in Ops : /\ WF_vars(Submit(o) \/ Refuse(o))
                    /\ WF_vars(AbandonReservation(o))
                    /\ WF_vars(DeliverCancel(o))
                    /\ WF_vars(OwnerDown(o)) /\ WF_vars(DeliverDown(o))

FairSpec == Spec /\ Fairness

-----------------------------------------------------------------------------
(* Safety. *)

\* aphid_session_state
SessionState ==
  CASE ~Open \/ session.stop -> "retired"
    [] Open /\ ~session.stop /\ session.ready -> "ready"
    [] Open /\ ~session.stop /\ ~session.ready /\ session.busy -> "busy"
    [] Open /\ ~session.stop /\ ~session.ready /\ ~session.busy ->
         IF session.lease # None THEN "leased" ELSE "idle"

InHand(o) == session.pending = o \/ (worker.job = o /\ worker.pc # "settle")

\* An accepted submission is waiting, in the worker's hands, or answered, never two of
\* these and never none; a submission that was not accepted is never answered (a NIF
\* keeps one reference to the operation exactly for the accepted ones).
AnsweredExactlyOnce ==
  \A o \in Ops :
    IF call[o] = "submitted"
    THEN \/ answers[o] = 0 /\ InHand(o)
         \/ answers[o] = 1 /\ ~InHand(o)
    ELSE answers[o] = 0 /\ ~InHand(o)

\* bridge.h: state 0 proves that release completed.  The coordinator hands an idle
\* session to the next job, so nothing of the previous one may be left: no engine
\* transaction, no result or reader, no pending job, no cancel or discard request.
IdleIsClean ==
  SessionState = "idle" =>
    /\ ~tx.active
    /\ session.pending = None /\ session.result = None /\ cursor = None
    /\ ~session.cancel /\ ~session.discard
    /\ ~session.leaseAbandoned /\ ~session.leaseFailed
    /\ At("wait")

\* While a cursor reads a result, that result stays in the session and belongs to the
\* operation the cursor was opened for, whatever is cancelled, retired or failed meanwhile.
FetchedResultStays ==
  cursor # None => session.fetching /\ session.result = cursor /\ session.id = cursor

\* An operation ends as cancelled only if its own handle was cancelled, its lease
\* released or the database retired: no late cancel of an earlier operation, cleared by
\* the worker or not, reaches a later one.
NoStrayCancellation ==
  \A o \in Ops : outcome[o] = Cancelled =>
    o \in flagged \/ opLease[o] \in released \/ ~Open

\* An engine transaction exists only under the lease that holds the session, the writes
\* in it are that lease's, and so is the operation the worker executes: the unlocked
\* read of `lease` by the worker sees the value the operation was reserved under.
LeaseOwnsTransaction ==
  /\ tx.active => session.lease # None
  /\ \A w \in tx.writes : opLease[w] = session.lease
  /\ worker.pc \in {"check", "engine", "publish"} => opLease[worker.job] = session.lease

\* A query of a lease is durable only if a commit of the same lease reached the engine:
\* it is never committed on its own after its transaction was lost.
LeasedWritesNeedCommit ==
  \A o \in durable : opLease[o] # None =>
    \E c \in Ops : /\ control[c] = Commit /\ opLease[c] = opLease[o]
                   /\ call[c] = "submitted" /\ outcome[c] # Cancelled

\* Once an operation of a lease failed or was cancelled, nothing of that lease is ever
\* committed, whether or not the caller noticed the failure.
FailedLeaseNeverCommits ==
  [][\A l \in Leases :
       (\E o \in Ops : opLease[o] = l /\ outcome[o] \in {Failed, Cancelled})
       => \A o \in durable' \ durable : opLease[o] # l]_vars

\* The session implements LeasedStore: single queries when nobody holds it, otherwise one
\* lease at a time, each query executed once, all or nothing, nothing after a failure.
Store == INSTANCE LeasedStore WITH
  holder <- session.lease, failed <- session.leaseFailed,
  active <- tx.active, writes <- tx.writes, durable <- durable
ImplementsStore == Store!Spec

\* Liveness, under FairSpec.

\* A released lease is given back: its transaction ends and the session forgets it.
ReleasedLeaseEnds ==
  \A l \in Leases : (session.lease = l /\ session.leaseAbandoned)
                    ~> (session.lease # l \/ At("exited"))

\* A cancelled operation is answered, even in the middle of an endless query.
CancelledIsAnswered ==
  \A o \in Ops : (call[o] = "submitted" /\ o \in flagged) ~> answers[o] = 1

\* The session does not stay with an operation whose owner has died, even when the owner
\* died inside a dirty call that goes on to reserve and submit.
OrphanIsDropped ==
  \A o \in Ops : (owner[o] # "alive" /\ session.id = o) ~> (session.id # o \/ At("exited"))

\* Retirement reaches the end of the thread, so that the cleaner's join returns.
RetiredWorkerExits == (db = "stopped") ~> At("exited")
=============================================================================
