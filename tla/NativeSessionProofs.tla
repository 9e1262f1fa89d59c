------------------------- MODULE NativeSessionProofs -------------------------
(***************************************************************************)
(* The safety properties of NativeSession, for any operations and leases:  *)
(* an inductive invariant, its preservation part by part, the theorems     *)
(* that follow from it, and that the session implements LeasedStore.       *)
(***************************************************************************)
EXTENDS NativeSessionTypes

-----------------------------------------------------------------------------
(***************************************************************************)
(* The inductive invariant.  None of the safety properties is inductive by *)
(* itself: what a field of the session means depends on where the worker   *)
(* is and on how far the call of the session's operation has come.         *)
(***************************************************************************)

Executing == {"check", "engine", "publish"}
Serving   == Executing \cup {"notify", "settle"}
Ending    == {"failed", "drain", "destroy", "exited"}

\* The session is busy exactly with the operation it names, which was reserved under the
\* session's lease; flags are set on behalf of that operation, of the lease or of the end.
OperationInv ==
  /\ session.busy <=> session.id # None
  /\ session.id # None => call[session.id] # "new" /\ opLease[session.id] = session.lease
  /\ session.pending # None =>
       /\ session.pending = session.id /\ call[session.pending] = "submitted"
       /\ ~session.ready
  /\ session.ready => session.id # None \/ session.stop
  /\ session.cancel \/ session.discard =>
       session.id # None \/ session.leaseAbandoned \/ session.stop
  /\ session.leaseAbandoned \/ session.leaseFailed => session.lease # None
  /\ session.leaseAbandoned /\ session.id # None => session.cancel /\ session.discard
  /\ session.id # None /\ call[session.id] = "reserved" =>
       /\ session.ready => session.stop
       /\ session.discard => session.cancel \/ session.stop

\* The worker serves the session's operation; when it cleans up, nothing can be submitted
\* any more; a result exists from its publication to the next cleanup.
WorkerInv ==
  /\ worker.pc \in Serving =>
       /\ worker.job = session.id /\ session.pending = None
       /\ call[worker.job] = "submitted"
  /\ worker.pc \in {"wait", "clean", "reset", "failing", "drain", "destroy", "exited"} =>
       worker.job = None
  /\ worker.pc = "publish" => worker.code \in {Ok, Failed, Cancelled}
  /\ worker.pc = "failed" => call[worker.job] = "submitted"
  /\ worker.pc \in {"clean", "reset"} =>
       /\ session.pending = None /\ session.result = None
       /\ session.stop \/ session.leaseAbandoned \/ (session.discard /\ session.id # None)
       /\ worker.stopping => session.stop
  /\ worker.pc = "failing" => session.stop \/ session.id # None \/ session.leaseAbandoned
  /\ worker.pc \in Ending => session.stop /\ session.pending = None
  /\ worker.pc \in Executing => ~session.ready /\ worker.value \in {None, worker.job}
  /\ session.result # None => session.result = session.id /\ session.ready

\* A cursor holds the session and its result, until the worker destroys both.
CursorInv ==
  /\ session.fetching <=> cursor # None
  /\ cursor # None => session.result = cursor
  /\ worker.pc \in {"destroy", "exited"} => cursor = None

\* The engine transaction is the lease's, and gone before the lease is.
TransactionInv ==
  /\ tx.active => session.lease # None
  /\ tx.writes # {} => tx.active
  /\ \A w \in tx.writes : opLease[w] = session.lease /\ call[w] = "submitted"
  /\ worker.pc \in {"clean", "reset"} /\ worker.releasing => session.leaseAbandoned
  /\ worker.pc = "reset" /\ worker.releasing => ~tx.active
  /\ \A o \in Ops : call[o] # "new" /\ control[o] # Query => opLease[o] # None

\* A lease whose operation failed is marked, and a marked lease has nothing on its way.
FailureInv ==
  /\ session.lease # None => session.lease \in granted
  /\ \A o \in Ops : opLease[o] # None => opLease[o] \in granted
  /\ \A o \in Ops : call[o] = "new" => opLease[o] = None
  /\ \A o \in Ops : outcome[o] # "none" =>
       /\ call[o] = "submitted" /\ session.pending # o
       /\ ~(worker.pc \in Executing /\ worker.job = o)
  /\ \A o \in Ops :
       outcome[o] \in {Failed, Cancelled} /\ opLease[o] # None /\ opLease[o] = session.lease =>
         session.leaseFailed \/ worker.pc \in Ending
  /\ session.leaseFailed =>
       /\ worker.pc \notin Executing /\ session.pending = None
       /\ session.id # None => call[session.id] # "reserved"

\* Someone is entitled to have operation o cancelled.
Entitled(o) == o \in flagged \/ opLease[o] \in released \/ ~Open

\* A cancel request has somebody behind it: an entitled one, or one whose operation was
\* rejected or is already answered.
CancelInv ==
  /\ \A o \in Ops : owner[o] \in {"flagged", "down"} => o \in flagged
  /\ session.stop => ~Open \/ worker.pc \in Ending
  /\ session.cancel /\ session.id # None =>
       Entitled(session.id) \/ call[session.id] = "rejected" \/ answers[session.id] = 1
  /\ worker.pc = "check" /\ worker.cancelled => Entitled(worker.job)
  /\ worker.pc = "publish" /\ worker.code = Cancelled => Entitled(worker.job)

\* The commit that made the writes of a lease durable, named while it is being executed.
CommitInv ==
  \A o \in durable : opLease[o] # None =>
    \E c \in Ops : /\ control[c] = Commit /\ opLease[c] = opLease[o] /\ call[c] = "submitted"
                   /\ \/ outcome[c] \in {Ok, Failed}
                      \/ worker.pc = "publish" /\ worker.job = c /\ worker.code \in {Ok, Failed}

\* A query with an effect, durable or in the transaction, was executed and is not executed
\* again.
ExecutedInv ==
  \A o \in durable \cup tx.writes :
    /\ call[o] = "submitted"
    /\ outcome[o] # "none" \/ (worker.pc = "publish" /\ worker.job = o)

Inv ==
  /\ OperationInv /\ WorkerInv /\ CursorInv /\ AnsweredExactlyOnce
  /\ TransactionInv /\ FailureInv /\ CancelInv /\ NoStrayCancellation
  /\ CommitInv /\ ExecutedInv

-----------------------------------------------------------------------------
(* Preservation.  Each part of the invariant relies on a few of the others; each lemma   *)
(* takes the steps of the session one by one.                                            *)

\* The session's bookkeeping survives every step.
LEMMA OperationStep ==
  ASSUME TypeOK, JobInHand, Inv, [Next]_vars
  PROVE  OperationInv'
<1> USE NoneAssumption
        DEF Inv, TypeOK, JobInHand, OperationInv, WorkerInv, SessionType, Executing, Serving,
            Ending, clientVars, leaseVars
<1>1. ASSUME NEW l \in Leases, LeaseAcquire(l)
      PROVE  OperationInv'
  BY <1>1 DEF LeaseAcquire
<1>2. ASSUME NEW l \in Leases, LeaseRelease(l)
      PROVE  OperationInv'
  BY <1>2 DEF LeaseRelease
<1>3. ASSUME NEW o \in Ops, NEW l \in Leases \cup {None}, NEW c \in Controls, Reserve(o, l, c)
      PROVE  OperationInv'
  BY <1>3 DEF Reserve
<1>4. ASSUME NEW o \in Ops, Submit(o)
      PROVE  OperationInv'
  BY <1>4 DEF Submit, Admissible, QueryAdmissible, ControlAdmissible
<1>5. ASSUME NEW o \in Ops, Refuse(o) \/ RequestCancel(o) \/ OwnerExit(o) \/ OwnerDown(o)
      PROVE  OperationInv'
  BY <1>5 DEF Refuse, RequestCancel, OwnerExit, OwnerDown
<1>6. ASSUME NEW o \in Ops,
             AbandonReservation(o) \/ DeliverCancel(o) \/ DeliverDown(o) \/ DropHandle(o)
      PROVE  OperationInv'
  BY <1>6, CancelStep, CancelEffect
<1>7. ASSUME NEW o \in Ops, Finish(o) \/ FetchBegin(o)
      PROVE  OperationInv'
  BY <1>7 DEF Finish, FetchBegin
<1>8. CASE FetchEnd
  BY <1>8 DEF FetchEnd
<1>9. CASE Retire
  BY <1>9 DEF Retire
<1>10. CASE StopSession
  BY <1>10 DEF StopSession
<1>11. CASE TakeJob
  BY <1>11, SnapshotFields DEF TakeJob, Woken, At
<1>12. CASE TakeGarbage
  BY <1>12, SnapshotFields DEF TakeGarbage, Woken, At
<1>13. CASE Clean
  BY <1>13 DEF Clean, At
<1>14. CASE Reset
  BY <1>14, LoopFields DEF Reset, At
<1>15. CASE CheckCancelled
  BY <1>15 DEF CheckCancelled, At
<1>16. CASE EngineWork
  BY <1>16, EngineEffect, EngineTransaction
<1>17. CASE Publish
  BY <1>17, PublishEffect DEF Publish, At
<1>18. CASE Notify
  BY <1>18 DEF Notify, At
<1>19. CASE Settle
  BY <1>19, LoopFields, SettleEffect DEF Settle, At
<1>20. CASE WorkerFails
  BY <1>20, LoopFields DEF WorkerFails, Woken, At
<1>21. CASE FailSession
  BY <1>21 DEF FailSession, At
<1>22. CASE NotifyFailed
  BY <1>22, LoopFields DEF NotifyFailed, At
<1>23. CASE Drain \/ Destroy
  BY <1>23 DEF Drain, Destroy, At
<1>24. CASE UNCHANGED vars
  BY <1>24 DEF vars
<1> QED
  BY <1>1, <1>2, <1>3, <1>4, <1>5, <1>6, <1>7, <1>8, <1>9, <1>10, <1>11, <1>12,
     <1>13, <1>14, <1>15, <1>16, <1>17, <1>18, <1>19, <1>20, <1>21, <1>22, <1>23, <1>24
     DEF Next, Caller, Worker, EngineWork, Interrupt

\* The worker and the session stay in step.
LEMMA WorkerStep ==
  ASSUME TypeOK, JobInHand, Inv, [Next]_vars
  PROVE  WorkerInv'
<1> USE NoneAssumption
        DEF Inv, TypeOK, JobInHand, OperationInv, WorkerInv, SessionType, WorkerType, Executing,
            Serving, Ending, clientVars, leaseVars
<1>1. ASSUME NEW l \in Leases, LeaseAcquire(l)
      PROVE  WorkerInv'
  BY <1>1 DEF LeaseAcquire
<1>2. ASSUME NEW l \in Leases, LeaseRelease(l)
      PROVE  WorkerInv'
  BY <1>2 DEF LeaseRelease
<1>3. ASSUME NEW o \in Ops, NEW l \in Leases \cup {None}, NEW c \in Controls, Reserve(o, l, c)
      PROVE  WorkerInv'
  BY <1>3 DEF Reserve
<1>4. ASSUME NEW o \in Ops, Submit(o)
      PROVE  WorkerInv'
  BY <1>4 DEF Submit, Admissible, QueryAdmissible, ControlAdmissible
<1>5. ASSUME NEW o \in Ops, Refuse(o) \/ RequestCancel(o) \/ OwnerExit(o) \/ OwnerDown(o)
      PROVE  WorkerInv'
  BY <1>5 DEF Refuse, RequestCancel, OwnerExit, OwnerDown
<1>6. ASSUME NEW o \in Ops,
             AbandonReservation(o) \/ DeliverCancel(o) \/ DeliverDown(o) \/ DropHandle(o)
      PROVE  WorkerInv'
  BY <1>6, CancelStep, CancelEffect
<1>7. ASSUME NEW o \in Ops, Finish(o) \/ FetchBegin(o)
      PROVE  WorkerInv'
  BY <1>7 DEF Finish, FetchBegin
<1>8. CASE FetchEnd
  BY <1>8 DEF FetchEnd
<1>9. CASE Retire
  BY <1>9 DEF Retire
<1>10. CASE StopSession
  BY <1>10 DEF StopSession
<1>11. CASE TakeJob
  BY <1>11, SnapshotFields DEF TakeJob, Woken, At
<1>12. CASE TakeGarbage
  BY <1>12, SnapshotFields DEF TakeGarbage, Woken, At
<1>13. CASE Clean
  BY <1>13 DEF Clean, At
<1>14. CASE Reset
  BY <1>14, LoopFields DEF Reset, At
<1>15. CASE CheckCancelled
  BY <1>15 DEF CheckCancelled, At
<1>16. CASE EngineWork
  BY <1>16, EngineEffect, EngineTransaction
<1>17. CASE Publish
  BY <1>17, PublishEffect DEF Publish, At
<1>18. CASE Notify
  BY <1>18 DEF Notify, At
<1>19. CASE Settle
  BY <1>19, LoopFields, SettleEffect DEF Settle, At
<1>20. CASE WorkerFails
  BY <1>20, LoopFields DEF WorkerFails, Woken, At
<1>21. CASE FailSession
  BY <1>21 DEF FailSession, At
<1>22. CASE NotifyFailed
  BY <1>22, LoopFields DEF NotifyFailed, At
<1>23. CASE Drain \/ Destroy
  BY <1>23 DEF Drain, Destroy, At
<1>24. CASE UNCHANGED vars
  BY <1>24 DEF vars
<1> QED
  BY <1>1, <1>2, <1>3, <1>4, <1>5, <1>6, <1>7, <1>8, <1>9, <1>10, <1>11, <1>12,
     <1>13, <1>14, <1>15, <1>16, <1>17, <1>18, <1>19, <1>20, <1>21, <1>22, <1>23, <1>24
     DEF Next, Caller, Worker, EngineWork, Interrupt

\* No step takes the result from under a cursor.
LEMMA CursorStep ==
  ASSUME TypeOK, JobInHand, Inv, [Next]_vars
  PROVE  CursorInv'
<1> USE NoneAssumption
        DEF Inv, TypeOK, JobInHand, OperationInv, WorkerInv, CursorInv, SessionType, WorkerType,
            Executing, Serving, Ending, clientVars, leaseVars
<1>1. ASSUME NEW l \in Leases, LeaseAcquire(l)
      PROVE  CursorInv'
  BY <1>1 DEF LeaseAcquire
<1>2. ASSUME NEW l \in Leases, LeaseRelease(l)
      PROVE  CursorInv'
  BY <1>2 DEF LeaseRelease
<1>3. ASSUME NEW o \in Ops, NEW l \in Leases \cup {None}, NEW c \in Controls, Reserve(o, l, c)
      PROVE  CursorInv'
  BY <1>3 DEF Reserve
<1>4. ASSUME NEW o \in Ops, Submit(o)
      PROVE  CursorInv'
  BY <1>4 DEF Submit, Admissible, QueryAdmissible, ControlAdmissible
<1>5. ASSUME NEW o \in Ops, Refuse(o) \/ RequestCancel(o) \/ OwnerExit(o) \/ OwnerDown(o)
      PROVE  CursorInv'
  BY <1>5 DEF Refuse, RequestCancel, OwnerExit, OwnerDown
<1>6. ASSUME NEW o \in Ops,
             AbandonReservation(o) \/ DeliverCancel(o) \/ DeliverDown(o) \/ DropHandle(o)
      PROVE  CursorInv'
  BY <1>6, CancelStep, CancelEffect
<1>7. ASSUME NEW o \in Ops, Finish(o) \/ FetchBegin(o)
      PROVE  CursorInv'
  BY <1>7 DEF Finish, FetchBegin
<1>8. CASE FetchEnd
  BY <1>8 DEF FetchEnd
<1>9. CASE Retire
  BY <1>9 DEF Retire
<1>10. CASE StopSession
  BY <1>10 DEF StopSession
<1>11. CASE TakeJob
  BY <1>11, SnapshotFields DEF TakeJob, Woken, At
<1>12. CASE TakeGarbage
  BY <1>12, SnapshotFields DEF TakeGarbage, Woken, At
<1>13. CASE Clean
  BY <1>13 DEF Clean, At
<1>14. CASE Reset
  BY <1>14, LoopFields DEF Reset, At
<1>15. CASE CheckCancelled
  BY <1>15 DEF CheckCancelled, At
<1>16. CASE EngineWork
  BY <1>16, EngineEffect, EngineTransaction
<1>17. CASE Publish
  BY <1>17, PublishEffect DEF Publish, At
<1>18. CASE Notify
  BY <1>18 DEF Notify, At
<1>19. CASE Settle
  BY <1>19, LoopFields, SettleEffect DEF Settle, At
<1>20. CASE WorkerFails
  BY <1>20, LoopFields DEF WorkerFails, Woken, At
<1>21. CASE FailSession
  BY <1>21 DEF FailSession, At
<1>22. CASE NotifyFailed
  BY <1>22, LoopFields DEF NotifyFailed, At
<1>23. CASE Drain \/ Destroy
  BY <1>23 DEF Drain, Destroy, At
<1>24. CASE UNCHANGED vars
  BY <1>24 DEF vars
<1> QED
  BY <1>1, <1>2, <1>3, <1>4, <1>5, <1>6, <1>7, <1>8, <1>9, <1>10, <1>11, <1>12,
     <1>13, <1>14, <1>15, <1>16, <1>17, <1>18, <1>19, <1>20, <1>21, <1>22, <1>23, <1>24
     DEF Next, Caller, Worker, EngineWork, Interrupt

\* No step answers an operation twice, forgets one, or answers a rejected one.
LEMMA AnswerStep ==
  ASSUME TypeOK, JobInHand, Inv, [Next]_vars
  PROVE  AnsweredExactlyOnce'
<1> USE NoneAssumption
        DEF Inv, TypeOK, JobInHand, OperationInv, WorkerInv, AnsweredExactlyOnce, InHand,
            SessionType, WorkerType, Executing, Serving, Ending, clientVars, leaseVars
<1>1. ASSUME NEW l \in Leases, LeaseAcquire(l)
      PROVE  AnsweredExactlyOnce'
  BY <1>1 DEF LeaseAcquire
<1>2. ASSUME NEW l \in Leases, LeaseRelease(l)
      PROVE  AnsweredExactlyOnce'
  BY <1>2 DEF LeaseRelease
<1>3. ASSUME NEW o \in Ops, NEW l \in Leases \cup {None}, NEW c \in Controls, Reserve(o, l, c)
      PROVE  AnsweredExactlyOnce'
  BY <1>3 DEF Reserve
<1>4. ASSUME NEW o \in Ops, Submit(o)
      PROVE  AnsweredExactlyOnce'
  BY <1>4 DEF Submit, Admissible, QueryAdmissible, ControlAdmissible
<1>5. ASSUME NEW o \in Ops, Refuse(o) \/ RequestCancel(o) \/ OwnerExit(o) \/ OwnerDown(o)
      PROVE  AnsweredExactlyOnce'
  BY <1>5 DEF Refuse, RequestCancel, OwnerExit, OwnerDown
<1>6. ASSUME NEW o \in Ops,
             AbandonReservation(o) \/ DeliverCancel(o) \/ DeliverDown(o) \/ DropHandle(o)
      PROVE  AnsweredExactlyOnce'
  BY <1>6, CancelStep, CancelEffect
<1>7. ASSUME NEW o \in Ops, Finish(o) \/ FetchBegin(o)
      PROVE  AnsweredExactlyOnce'
  BY <1>7 DEF Finish, FetchBegin
<1>8. CASE FetchEnd
  BY <1>8 DEF FetchEnd
<1>9. CASE Retire
  BY <1>9 DEF Retire
<1>10. CASE StopSession
  BY <1>10 DEF StopSession
<1>11. CASE TakeJob
  BY <1>11, SnapshotFields DEF TakeJob, Woken, At
<1>12. CASE TakeGarbage
  BY <1>12, SnapshotFields DEF TakeGarbage, Woken, At
<1>13. CASE Clean
  BY <1>13 DEF Clean, At
<1>14. CASE Reset
  BY <1>14, LoopFields DEF Reset, At
<1>15. CASE CheckCancelled
  BY <1>15 DEF CheckCancelled, At
<1>16. CASE EngineWork
  BY <1>16, EngineEffect, EngineTransaction
<1>17. CASE Publish
  BY <1>17, PublishEffect DEF Publish, At
<1>18. CASE Notify
  BY <1>18 DEF Notify, At
<1>19. CASE Settle
  BY <1>19, LoopFields, SettleEffect DEF Settle, At
<1>20. CASE WorkerFails
  BY <1>20, LoopFields DEF WorkerFails, Woken, At
<1>21. CASE FailSession
  BY <1>21 DEF FailSession, At
<1>22. CASE NotifyFailed
  BY <1>22, LoopFields DEF NotifyFailed, At
<1>23. CASE Drain \/ Destroy
  BY <1>23 DEF Drain, Destroy, At
<1>24. CASE UNCHANGED vars
  BY <1>24 DEF vars
<1> QED
  BY <1>1, <1>2, <1>3, <1>4, <1>5, <1>6, <1>7, <1>8, <1>9, <1>10, <1>11, <1>12,
     <1>13, <1>14, <1>15, <1>16, <1>17, <1>18, <1>19, <1>20, <1>21, <1>22, <1>23, <1>24
     DEF Next, Caller, Worker, EngineWork, Interrupt

\* No step leaves a transaction without its lease.
LEMMA TransactionStep ==
  ASSUME TypeOK, JobInHand, Inv, [Next]_vars
  PROVE  TransactionInv'
<1> USE NoneAssumption
        DEF Inv, TypeOK, JobInHand, OperationInv, WorkerInv, TransactionInv, NoTx, SessionType,
            WorkerType, Controls, Query, Begin, Commit, Rollback, Executing, Serving, Ending,
            clientVars, leaseVars
<1>1. ASSUME NEW l \in Leases, LeaseAcquire(l)
      PROVE  TransactionInv'
  BY <1>1 DEF LeaseAcquire
<1>2. ASSUME NEW l \in Leases, LeaseRelease(l)
      PROVE  TransactionInv'
  BY <1>2 DEF LeaseRelease
<1>3. ASSUME NEW o \in Ops, NEW l \in Leases \cup {None}, NEW c \in Controls, Reserve(o, l, c)
      PROVE  TransactionInv'
  BY <1>3 DEF Reserve
<1>4. ASSUME NEW o \in Ops, Submit(o)
      PROVE  TransactionInv'
  BY <1>4 DEF Submit, Admissible, QueryAdmissible, ControlAdmissible
<1>5. ASSUME NEW o \in Ops, Refuse(o) \/ RequestCancel(o) \/ OwnerExit(o) \/ OwnerDown(o)
      PROVE  TransactionInv'
  BY <1>5 DEF Refuse, RequestCancel, OwnerExit, OwnerDown
<1>6. ASSUME NEW o \in Ops,
             AbandonReservation(o) \/ DeliverCancel(o) \/ DeliverDown(o) \/ DropHandle(o)
      PROVE  TransactionInv'
  BY <1>6, CancelStep, CancelEffect
<1>7. ASSUME NEW o \in Ops, Finish(o) \/ FetchBegin(o)
      PROVE  TransactionInv'
  BY <1>7 DEF Finish, FetchBegin
<1>8. CASE FetchEnd
  BY <1>8 DEF FetchEnd
<1>9. CASE Retire
  BY <1>9 DEF Retire
<1>10. CASE StopSession
  BY <1>10 DEF StopSession
<1>11. CASE TakeJob
  BY <1>11, SnapshotFields DEF TakeJob, Woken, At
<1>12. CASE TakeGarbage
  BY <1>12, SnapshotFields DEF TakeGarbage, Woken, At
<1>13. CASE Clean
  BY <1>13 DEF Clean, At
<1>14. CASE Reset
  BY <1>14, LoopFields DEF Reset, At
<1>15. CASE CheckCancelled
  BY <1>15 DEF CheckCancelled, At
<1>16. CASE EngineWork
  BY <1>16, EngineEffect, EngineTransaction
<1>17. CASE Publish
  BY <1>17, PublishEffect DEF Publish, At
<1>18. CASE Notify
  BY <1>18 DEF Notify, At
<1>19. CASE Settle
  BY <1>19, LoopFields, SettleEffect DEF Settle, At
<1>20. CASE WorkerFails
  BY <1>20, LoopFields DEF WorkerFails, Woken, At
<1>21. CASE FailSession
  BY <1>21 DEF FailSession, At
<1>22. CASE NotifyFailed
  BY <1>22, LoopFields DEF NotifyFailed, At
<1>23. CASE Drain \/ Destroy
  BY <1>23 DEF Drain, Destroy, At
<1>24. CASE UNCHANGED vars
  BY <1>24 DEF vars
<1> QED
  BY <1>1, <1>2, <1>3, <1>4, <1>5, <1>6, <1>7, <1>8, <1>9, <1>10, <1>11, <1>12,
     <1>13, <1>14, <1>15, <1>16, <1>17, <1>18, <1>19, <1>20, <1>21, <1>22, <1>23, <1>24
     DEF Next, Caller, Worker, EngineWork, Interrupt

\* No step forgets that an operation of a lease failed.
LEMMA FailureStep ==
  ASSUME TypeOK, JobInHand, Inv, [Next]_vars
  PROVE  FailureInv'
<1> USE NoneAssumption
        DEF Inv, TypeOK, JobInHand, OperationInv, WorkerInv, TransactionInv, FailureInv,
            AnsweredExactlyOnce, InHand, SessionType, WorkerType, Outcomes, Ok, Failed, Cancelled,
            Executing, Serving, Ending, clientVars, leaseVars
<1>1. ASSUME NEW l \in Leases, LeaseAcquire(l)
      PROVE  FailureInv'
  BY <1>1 DEF LeaseAcquire
<1>2. ASSUME NEW l \in Leases, LeaseRelease(l)
      PROVE  FailureInv'
  BY <1>2 DEF LeaseRelease
<1>3. ASSUME NEW o \in Ops, NEW l \in Leases \cup {None}, NEW c \in Controls, Reserve(o, l, c)
      PROVE  FailureInv'
  BY <1>3 DEF Reserve
<1>4. ASSUME NEW o \in Ops, Submit(o)
      PROVE  FailureInv'
  BY <1>4 DEF Submit, Admissible, QueryAdmissible, ControlAdmissible
<1>5. ASSUME NEW o \in Ops, Refuse(o) \/ RequestCancel(o) \/ OwnerExit(o) \/ OwnerDown(o)
      PROVE  FailureInv'
  BY <1>5 DEF Refuse, RequestCancel, OwnerExit, OwnerDown
<1>6. ASSUME NEW o \in Ops,
             AbandonReservation(o) \/ DeliverCancel(o) \/ DeliverDown(o) \/ DropHandle(o)
      PROVE  FailureInv'
  BY <1>6, CancelStep, CancelEffect
<1>7. ASSUME NEW o \in Ops, Finish(o) \/ FetchBegin(o)
      PROVE  FailureInv'
  BY <1>7 DEF Finish, FetchBegin
<1>8. CASE FetchEnd
  BY <1>8 DEF FetchEnd
<1>9. CASE Retire
  BY <1>9 DEF Retire
<1>10. CASE StopSession
  BY <1>10 DEF StopSession
<1>11. CASE TakeJob
  BY <1>11, SnapshotFields DEF TakeJob, Woken, At
<1>12. CASE TakeGarbage
  BY <1>12, SnapshotFields DEF TakeGarbage, Woken, At
<1>13. CASE Clean
  BY <1>13 DEF Clean, At
<1>14. CASE Reset
  BY <1>14, LoopFields DEF Reset, At
<1>15. CASE CheckCancelled
  BY <1>15 DEF CheckCancelled, At
<1>16. CASE EngineWork
  BY <1>16, EngineEffect, EngineTransaction
<1>17. CASE Publish
  BY <1>17, PublishEffect DEF Publish, At
<1>18. CASE Notify
  BY <1>18 DEF Notify, At
<1>19. CASE Settle
  BY <1>19, LoopFields, SettleEffect DEF Settle, At
<1>20. CASE WorkerFails
  BY <1>20, LoopFields DEF WorkerFails, Woken, At
<1>21. CASE FailSession
  BY <1>21 DEF FailSession, At
<1>22. CASE NotifyFailed
  BY <1>22, LoopFields DEF NotifyFailed, At
<1>23. CASE Drain \/ Destroy
  BY <1>23 DEF Drain, Destroy, At
<1>24. CASE UNCHANGED vars
  BY <1>24 DEF vars
<1> QED
  BY <1>1, <1>2, <1>3, <1>4, <1>5, <1>6, <1>7, <1>8, <1>9, <1>10, <1>11, <1>12,
     <1>13, <1>14, <1>15, <1>16, <1>17, <1>18, <1>19, <1>20, <1>21, <1>22, <1>23, <1>24
     DEF Next, Caller, Worker, EngineWork, Interrupt

\* No step leaves a cancel request behind for somebody else's operation.
LEMMA CancellationStep ==
  ASSUME TypeOK, JobInHand, Inv, [Next]_vars
  PROVE  CancelInv'
<1> USE NoneAssumption
        DEF Inv, TypeOK, JobInHand, OperationInv, WorkerInv, FailureInv, AnsweredExactlyOnce,
            InHand, CancelInv, Entitled, Open, SessionType, WorkerType, Outcomes, Ok, Failed,
            Cancelled, Executing, Serving, Ending, clientVars, leaseVars
<1>1. ASSUME NEW l \in Leases, LeaseAcquire(l)
      PROVE  CancelInv'
  BY <1>1 DEF LeaseAcquire
<1>2. ASSUME NEW l \in Leases, LeaseRelease(l)
      PROVE  CancelInv'
  BY <1>2 DEF LeaseRelease
<1>3. ASSUME NEW o \in Ops, NEW l \in Leases \cup {None}, NEW c \in Controls, Reserve(o, l, c)
      PROVE  CancelInv'
  BY <1>3 DEF Reserve
<1>4. ASSUME NEW o \in Ops, Submit(o)
      PROVE  CancelInv'
  BY <1>4 DEF Submit, Admissible, QueryAdmissible, ControlAdmissible
<1>5. ASSUME NEW o \in Ops, Refuse(o) \/ RequestCancel(o) \/ OwnerExit(o) \/ OwnerDown(o)
      PROVE  CancelInv'
  BY <1>5 DEF Refuse, RequestCancel, OwnerExit, OwnerDown
<1>6. ASSUME NEW o \in Ops,
             AbandonReservation(o) \/ DeliverCancel(o) \/ DeliverDown(o) \/ DropHandle(o)
      PROVE  CancelInv'
  BY <1>6, CancelStep, CancelEffect
<1>7. ASSUME NEW o \in Ops, Finish(o) \/ FetchBegin(o)
      PROVE  CancelInv'
  BY <1>7 DEF Finish, FetchBegin
<1>8. CASE FetchEnd
  BY <1>8 DEF FetchEnd
<1>9. CASE Retire
  BY <1>9 DEF Retire
<1>10. CASE StopSession
  BY <1>10 DEF StopSession
<1>11. CASE TakeJob
  BY <1>11, SnapshotFields DEF TakeJob, Woken, At
<1>12. CASE TakeGarbage
  BY <1>12, SnapshotFields DEF TakeGarbage, Woken, At
<1>13. CASE Clean
  BY <1>13 DEF Clean, At
<1>14. CASE Reset
  BY <1>14, LoopFields DEF Reset, At
<1>15. CASE CheckCancelled
  BY <1>15 DEF CheckCancelled, At
<1>16. CASE EngineWork
  BY <1>16, EngineEffect, EngineTransaction
<1>17. CASE Publish
  BY <1>17, PublishEffect DEF Publish, At
<1>18. CASE Notify
  BY <1>18 DEF Notify, At
<1>19. CASE Settle
  BY <1>19, LoopFields, SettleEffect DEF Settle, At
<1>20. CASE WorkerFails
  BY <1>20, LoopFields DEF WorkerFails, Woken, At
<1>21. CASE FailSession
  BY <1>21 DEF FailSession, At
<1>22. CASE NotifyFailed
  BY <1>22, LoopFields DEF NotifyFailed, At
<1>23. CASE Drain \/ Destroy
  BY <1>23 DEF Drain, Destroy, At
<1>24. CASE UNCHANGED vars
  BY <1>24 DEF vars
<1> QED
  BY <1>1, <1>2, <1>3, <1>4, <1>5, <1>6, <1>7, <1>8, <1>9, <1>10, <1>11, <1>12,
     <1>13, <1>14, <1>15, <1>16, <1>17, <1>18, <1>19, <1>20, <1>21, <1>22, <1>23, <1>24
     DEF Next, Caller, Worker, EngineWork, Interrupt

\* No step cancels an operation on nobody's behalf.
LEMMA StrayStep ==
  ASSUME TypeOK, JobInHand, Inv, [Next]_vars
  PROVE  NoStrayCancellation'
<1> USE NoneAssumption
        DEF Inv, TypeOK, JobInHand, OperationInv, WorkerInv, FailureInv, CancelInv,
            NoStrayCancellation, Entitled, Open, SessionType, WorkerType, Outcomes, Ok, Failed,
            Cancelled, Executing, Serving, Ending, clientVars, leaseVars
<1>1. ASSUME NEW l \in Leases, LeaseAcquire(l)
      PROVE  NoStrayCancellation'
  BY <1>1 DEF LeaseAcquire
<1>2. ASSUME NEW l \in Leases, LeaseRelease(l)
      PROVE  NoStrayCancellation'
  BY <1>2 DEF LeaseRelease
<1>3. ASSUME NEW o \in Ops, NEW l \in Leases \cup {None}, NEW c \in Controls, Reserve(o, l, c)
      PROVE  NoStrayCancellation'
  BY <1>3 DEF Reserve
<1>4. ASSUME NEW o \in Ops, Submit(o)
      PROVE  NoStrayCancellation'
  BY <1>4 DEF Submit, Admissible, QueryAdmissible, ControlAdmissible
<1>5. ASSUME NEW o \in Ops, Refuse(o) \/ RequestCancel(o) \/ OwnerExit(o) \/ OwnerDown(o)
      PROVE  NoStrayCancellation'
  BY <1>5 DEF Refuse, RequestCancel, OwnerExit, OwnerDown
<1>6. ASSUME NEW o \in Ops,
             AbandonReservation(o) \/ DeliverCancel(o) \/ DeliverDown(o) \/ DropHandle(o)
      PROVE  NoStrayCancellation'
  BY <1>6, CancelStep, CancelEffect
<1>7. ASSUME NEW o \in Ops, Finish(o) \/ FetchBegin(o)
      PROVE  NoStrayCancellation'
  BY <1>7 DEF Finish, FetchBegin
<1>8. CASE FetchEnd
  BY <1>8 DEF FetchEnd
<1>9. CASE Retire
  BY <1>9 DEF Retire
<1>10. CASE StopSession
  BY <1>10 DEF StopSession
<1>11. CASE TakeJob
  BY <1>11, SnapshotFields DEF TakeJob, Woken, At
<1>12. CASE TakeGarbage
  BY <1>12, SnapshotFields DEF TakeGarbage, Woken, At
<1>13. CASE Clean
  BY <1>13 DEF Clean, At
<1>14. CASE Reset
  BY <1>14, LoopFields DEF Reset, At
<1>15. CASE CheckCancelled
  BY <1>15 DEF CheckCancelled, At
<1>16. CASE EngineWork
  BY <1>16, EngineEffect, EngineTransaction
<1>17. CASE Publish
  BY <1>17, PublishEffect DEF Publish, At
<1>18. CASE Notify
  BY <1>18 DEF Notify, At
<1>19. CASE Settle
  BY <1>19, LoopFields, SettleEffect DEF Settle, At
<1>20. CASE WorkerFails
  BY <1>20, LoopFields DEF WorkerFails, Woken, At
<1>21. CASE FailSession
  BY <1>21 DEF FailSession, At
<1>22. CASE NotifyFailed
  BY <1>22, LoopFields DEF NotifyFailed, At
<1>23. CASE Drain \/ Destroy
  BY <1>23 DEF Drain, Destroy, At
<1>24. CASE UNCHANGED vars
  BY <1>24 DEF vars
<1> QED
  BY <1>1, <1>2, <1>3, <1>4, <1>5, <1>6, <1>7, <1>8, <1>9, <1>10, <1>11, <1>12,
     <1>13, <1>14, <1>15, <1>16, <1>17, <1>18, <1>19, <1>20, <1>21, <1>22, <1>23, <1>24
     DEF Next, Caller, Worker, EngineWork, Interrupt

\* No step makes a leased query durable without a commit.
LEMMA CommitStep ==
  ASSUME TypeOK, JobInHand, Inv, [Next]_vars
  PROVE  CommitInv'
<1> USE NoneAssumption
        DEF Inv, TypeOK, JobInHand, OperationInv, WorkerInv, TransactionInv, FailureInv,
            ExecutedInv, CommitInv, SessionType, WorkerType, Ok, Failed, Cancelled, Executing,
            Serving, Ending, clientVars, leaseVars
<1>1. ASSUME NEW l \in Leases, LeaseAcquire(l)
      PROVE  CommitInv'
  BY <1>1 DEF LeaseAcquire
<1>2. ASSUME NEW l \in Leases, LeaseRelease(l)
      PROVE  CommitInv'
  BY <1>2 DEF LeaseRelease
<1>3. ASSUME NEW o \in Ops, NEW l \in Leases \cup {None}, NEW c \in Controls, Reserve(o, l, c)
      PROVE  CommitInv'
  BY <1>3 DEF Reserve
<1>4. ASSUME NEW o \in Ops, Submit(o)
      PROVE  CommitInv'
  BY <1>4 DEF Submit, Admissible, QueryAdmissible, ControlAdmissible
<1>5. ASSUME NEW o \in Ops, Refuse(o) \/ RequestCancel(o) \/ OwnerExit(o) \/ OwnerDown(o)
      PROVE  CommitInv'
  BY <1>5 DEF Refuse, RequestCancel, OwnerExit, OwnerDown
<1>6. ASSUME NEW o \in Ops,
             AbandonReservation(o) \/ DeliverCancel(o) \/ DeliverDown(o) \/ DropHandle(o)
      PROVE  CommitInv'
  BY <1>6, CancelStep, CancelEffect
<1>7. ASSUME NEW o \in Ops, Finish(o) \/ FetchBegin(o)
      PROVE  CommitInv'
  BY <1>7 DEF Finish, FetchBegin
<1>8. CASE FetchEnd
  BY <1>8 DEF FetchEnd
<1>9. CASE Retire
  BY <1>9 DEF Retire
<1>10. CASE StopSession
  BY <1>10 DEF StopSession
<1>11. CASE TakeJob
  BY <1>11, SnapshotFields DEF TakeJob, Woken, At
<1>12. CASE TakeGarbage
  BY <1>12, SnapshotFields DEF TakeGarbage, Woken, At
<1>13. CASE Clean
  BY <1>13 DEF Clean, At
<1>14. CASE Reset
  BY <1>14, LoopFields DEF Reset, At
<1>15. CASE CheckCancelled
  BY <1>15 DEF CheckCancelled, At
<1>16. CASE EngineWork
  BY <1>16, EngineEffect, EngineTransaction
<1>17. CASE Publish
  BY <1>17, PublishEffect DEF Publish, At
<1>18. CASE Notify
  BY <1>18 DEF Notify, At
<1>19. CASE Settle
  BY <1>19, LoopFields, SettleEffect DEF Settle, At
<1>20. CASE WorkerFails
  BY <1>20, LoopFields DEF WorkerFails, Woken, At
<1>21. CASE FailSession
  BY <1>21 DEF FailSession, At
<1>22. CASE NotifyFailed
  BY <1>22, LoopFields DEF NotifyFailed, At
<1>23. CASE Drain \/ Destroy
  BY <1>23 DEF Drain, Destroy, At
<1>24. CASE UNCHANGED vars
  BY <1>24 DEF vars
<1> QED
  BY <1>1, <1>2, <1>3, <1>4, <1>5, <1>6, <1>7, <1>8, <1>9, <1>10, <1>11, <1>12,
     <1>13, <1>14, <1>15, <1>16, <1>17, <1>18, <1>19, <1>20, <1>21, <1>22, <1>23, <1>24
     DEF Next, Caller, Worker, EngineWork, Interrupt

\* No step executes a query twice.
LEMMA ExecutedStep ==
  ASSUME TypeOK, JobInHand, Inv, [Next]_vars
  PROVE  ExecutedInv'
<1> USE NoneAssumption
        DEF Inv, TypeOK, JobInHand, OperationInv, WorkerInv, TransactionInv, FailureInv,
            ExecutedInv, NoTx, SessionType, WorkerType, Outcomes, Ok, Failed, Cancelled, Executing,
            Serving, Ending, clientVars, leaseVars
<1>1. ASSUME NEW l \in Leases, LeaseAcquire(l)
      PROVE  ExecutedInv'
  BY <1>1 DEF LeaseAcquire
<1>2. ASSUME NEW l \in Leases, LeaseRelease(l)
      PROVE  ExecutedInv'
  BY <1>2 DEF LeaseRelease
<1>3. ASSUME NEW o \in Ops, NEW l \in Leases \cup {None}, NEW c \in Controls, Reserve(o, l, c)
      PROVE  ExecutedInv'
  BY <1>3 DEF Reserve
<1>4. ASSUME NEW o \in Ops, Submit(o)
      PROVE  ExecutedInv'
  BY <1>4 DEF Submit, Admissible, QueryAdmissible, ControlAdmissible
<1>5. ASSUME NEW o \in Ops, Refuse(o) \/ RequestCancel(o) \/ OwnerExit(o) \/ OwnerDown(o)
      PROVE  ExecutedInv'
  BY <1>5 DEF Refuse, RequestCancel, OwnerExit, OwnerDown
<1>6. ASSUME NEW o \in Ops,
             AbandonReservation(o) \/ DeliverCancel(o) \/ DeliverDown(o) \/ DropHandle(o)
      PROVE  ExecutedInv'
  BY <1>6, CancelStep, CancelEffect
<1>7. ASSUME NEW o \in Ops, Finish(o) \/ FetchBegin(o)
      PROVE  ExecutedInv'
  BY <1>7 DEF Finish, FetchBegin
<1>8. CASE FetchEnd
  BY <1>8 DEF FetchEnd
<1>9. CASE Retire
  BY <1>9 DEF Retire
<1>10. CASE StopSession
  BY <1>10 DEF StopSession
<1>11. CASE TakeJob
  BY <1>11, SnapshotFields DEF TakeJob, Woken, At
<1>12. CASE TakeGarbage
  BY <1>12, SnapshotFields DEF TakeGarbage, Woken, At
<1>13. CASE Clean
  BY <1>13 DEF Clean, At
<1>14. CASE Reset
  BY <1>14, LoopFields DEF Reset, At
<1>15. CASE CheckCancelled
  BY <1>15 DEF CheckCancelled, At
<1>16. CASE EngineWork
  BY <1>16, EngineEffect, EngineTransaction
<1>17. CASE Publish
  BY <1>17, PublishEffect DEF Publish, At
<1>18. CASE Notify
  BY <1>18 DEF Notify, At
<1>19. CASE Settle
  BY <1>19, LoopFields, SettleEffect DEF Settle, At
<1>20. CASE WorkerFails
  BY <1>20, LoopFields DEF WorkerFails, Woken, At
<1>21. CASE FailSession
  BY <1>21 DEF FailSession, At
<1>22. CASE NotifyFailed
  BY <1>22, LoopFields DEF NotifyFailed, At
<1>23. CASE Drain \/ Destroy
  BY <1>23 DEF Drain, Destroy, At
<1>24. CASE UNCHANGED vars
  BY <1>24 DEF vars
<1> QED
  BY <1>1, <1>2, <1>3, <1>4, <1>5, <1>6, <1>7, <1>8, <1>9, <1>10, <1>11, <1>12,
     <1>13, <1>14, <1>15, <1>16, <1>17, <1>18, <1>19, <1>20, <1>21, <1>22, <1>23, <1>24
     DEF Next, Caller, Worker, EngineWork, Interrupt

-----------------------------------------------------------------------------
(* Theorems. *)

\* The invariant holds in every reachable state.
THEOREM InvariantHolds == Spec => [](TypeOK /\ JobInHand /\ Inv)
<1>1. Init => Inv
  <2> SUFFICES ASSUME Init PROVE Inv
    OBVIOUS
  <2>1. OperationInv /\ WorkerInv /\ CursorInv
    BY DEF Init, Loop, OperationInv, WorkerInv, CursorInv, Executing, Serving, Ending
  <2>2. AnsweredExactlyOnce
    BY NoneAssumption DEF Init, Loop, AnsweredExactlyOnce, InHand
  <2>3. TransactionInv /\ ExecutedInv /\ CommitInv
    BY DEF Init, Loop, NoTx, TransactionInv, ExecutedInv, CommitInv
  <2>4. FailureInv
    BY DEF Init, Loop, FailureInv, Executing, Ending, Failed, Cancelled
  <2>5. CancelInv /\ NoStrayCancellation
    BY DEF Init, Loop, CancelInv, NoStrayCancellation, Cancelled
  <2> QED BY <2>1, <2>2, <2>3, <2>4, <2>5 DEF Inv
<1>2. TypeOK /\ JobInHand /\ Inv /\ [Next]_vars => Inv'
  <2> SUFFICES ASSUME TypeOK, JobInHand, Inv, [Next]_vars PROVE Inv'
    OBVIOUS
  <2> QED
    BY OperationStep, WorkerStep, CursorStep, AnswerStep, TransactionStep, FailureStep,
       CancellationStep, StrayStep, CommitStep, ExecutedStep DEF Inv
<1> QED BY <1>1, <1>2, TypeAndJob, PTL DEF Spec

\* An accepted submission is answered at most once and never lost, and a refused one is
\* never answered: the reference a NIF holds for the operation is dropped exactly once.
THEOREM AnswersOnce == Spec => []AnsweredExactlyOnce
<1>1. Inv => AnsweredExactlyOnce
  BY DEF Inv
<1> QED BY <1>1, InvariantHolds, PTL

\* A session that reports idle carries nothing over to its next user.
THEOREM IdleClean == Spec => []IdleIsClean
<1>1. TypeOK /\ JobInHand /\ Inv => IdleIsClean
  BY NoneAssumption
     DEF IdleIsClean, SessionState, Open, At, Inv, TypeOK, JobInHand, SessionType, WorkerType,
         WorkerStates, OperationInv, WorkerInv, CursorInv, TransactionInv, Executing, Serving,
         Ending
<1> QED BY <1>1, InvariantHolds, PTL

\* A result that is being read is not destroyed, replaced or given to somebody else.
THEOREM FetchSafe == Spec => []FetchedResultStays
<1>1. Inv => FetchedResultStays
  BY NoneAssumption DEF FetchedResultStays, Inv, CursorInv, WorkerInv
<1> QED BY <1>1, InvariantHolds, PTL

\* An operation that ends as cancelled was cancelled on behalf of its owner, its lease or
\* the database.
THEOREM NoStray == Spec => []NoStrayCancellation
<1>1. Inv => NoStrayCancellation
  BY DEF Inv
<1> QED BY <1>1, InvariantHolds, PTL

\* A transaction, what it wrote and the operation being executed belong to the lease that
\* holds the session.
THEOREM TransactionOwned == Spec => []LeaseOwnsTransaction
<1>1. TypeOK /\ JobInHand /\ Inv => LeaseOwnsTransaction
  BY DEF LeaseOwnsTransaction, Inv, JobInHand, OperationInv, WorkerInv, TransactionInv,
         Executing, Serving
<1> QED BY <1>1, InvariantHolds, PTL

\* What a lease wrote becomes durable by a commit of that lease and in no other way.
THEOREM CommitNeeded == Spec => []LeasedWritesNeedCommit
<1>1. Inv => LeasedWritesNeedCommit
  BY DEF LeasedWritesNeedCommit, Inv, CommitInv, FailureInv, Ok, Failed, Cancelled, Executing
<1> QED BY <1>1, InvariantHolds, PTL

\* Once an operation of a lease has failed, no later step commits anything of that lease.
THEOREM FailureIsFinal == Spec => FailedLeaseNeverCommits
<1> DEFINE Step ==
      \A l \in Leases :
        (\E o \in Ops : opLease[o] = l /\ outcome[o] \in {Failed, Cancelled})
        => \A o \in durable' \ durable : opLease[o] # l
<1>1. TypeOK /\ JobInHand /\ Inv /\ [Next]_vars => [Step]_vars
  <2> SUFFICES ASSUME TypeOK, JobInHand, Inv, [Next]_vars PROVE Step
    OBVIOUS
  <2>1. CASE durable' = durable
    BY <2>1
  <2>2. CASE EngineWork
    BY <2>2, EngineEffect, EngineTransaction, NoneAssumption
       DEF TypeOK, JobInHand, Inv, OperationInv, WorkerInv, TransactionInv, FailureInv,
           Executing, Serving, Ending
  <2> QED
    BY <2>1, <2>2
       DEF Next, Caller, Worker, EngineWork, Interrupt, vars, LeaseAcquire, LeaseRelease, Reserve,
           Submit, Refuse, AbandonReservation, RequestCancel, DeliverCancel, OwnerExit, OwnerDown,
           DeliverDown, DropHandle, Finish, FetchBegin, FetchEnd, Retire, StopSession, TakeJob,
           TakeGarbage, Clean, Reset, CheckCancelled, Publish, Notify, Settle, WorkerFails,
           FailSession, NotifyFailed, Drain, Destroy
<1> QED BY <1>1, InvariantHolds, PTL DEF Spec, FailedLeaseNeverCommits

\* The session implements LeasedStore: every step is one of the store's or leaves its lease,
\* its transaction and its durable queries alone.
THEOREM SessionImplementsStore == Spec => ImplementsStore
<1>1. Init => Store!Init
  BY DEF Init, Store!Init, NoTx
<1>2. TypeOK /\ JobInHand /\ Inv /\ [Next]_vars => [Store!Next]_(Store!vars)
  <2> SUFFICES ASSUME TypeOK, JobInHand, Inv, [Next]_vars
               PROVE  Store!Next \/ UNCHANGED Store!vars
    OBVIOUS
  <2> USE DEF Store!Next, Store!vars
  <2>1. ASSUME NEW l \in Leases, LeaseAcquire(l) PROVE Store!Next
    BY <2>1 DEF LeaseAcquire, Store!Hold, TypeOK, SessionType
  <2>2. CASE /\ session'.lease = session.lease /\ session'.leaseFailed = session.leaseFailed
             /\ UNCHANGED <<tx, durable>>
    BY <2>2
  <2>3. ASSUME session'.lease = session.lease, session'.leaseFailed = session.leaseFailed,
                UNCHANGED durable, tx' \in {tx, NoTx}
         PROVE  Store!Abort \/ UNCHANGED Store!vars
    <3>1. /\ tx.active \in BOOLEAN /\ (tx.writes # {} => tx.active)
      BY DEF TypeOK, Inv, TransactionInv
    <3>2. NoTx.active = FALSE /\ NoTx.writes = {}
      BY DEF NoTx
    <3>3. CASE tx' = NoTx /\ tx.active
      BY <2>3, <3>2, <3>3 DEF Store!Abort
    <3>4. CASE tx' = NoTx /\ ~tx.active
      BY <2>3, <3>1, <3>2, <3>4
    <3>5. CASE tx' = tx
      BY <2>3, <3>5
    <3> QED BY <2>3, <3>3, <3>4, <3>5
  <2>4. ASSUME NEW l \in Leases, LeaseRelease(l) PROVE UNCHANGED Store!vars
    BY <2>4 DEF LeaseRelease, TypeOK, SessionType
  <2>5. ASSUME NEW o \in Ops, NEW l \in Leases \cup {None}, NEW c \in Controls, Reserve(o, l, c)
        PROVE  UNCHANGED Store!vars
    BY <2>5 DEF Reserve, TypeOK, SessionType
  <2>6. ASSUME NEW o \in Ops, Submit(o) PROVE UNCHANGED Store!vars
    BY <2>6 DEF Submit, TypeOK, SessionType
  <2>7. ASSUME NEW o \in Ops, Refuse(o) \/ RequestCancel(o) \/ OwnerExit(o) \/ OwnerDown(o)
         PROVE  UNCHANGED Store!vars
    BY <2>7 DEF Refuse, RequestCancel, OwnerExit, OwnerDown
  <2>9. ASSUME NEW o \in Ops, Finish(o) \/ FetchBegin(o) PROVE UNCHANGED Store!vars
    BY <2>9 DEF Finish, FetchBegin, TypeOK, SessionType
  <2>10. CASE FetchEnd \/ Retire \/ StopSession
    <3>1. CASE FetchEnd
      BY <3>1 DEF FetchEnd, TypeOK, SessionType
    <3>2. CASE Retire
      BY <3>2 DEF Retire
    <3>3. CASE StopSession
      BY <3>3 DEF StopSession, TypeOK, SessionType
    <3> QED BY <2>10, <3>1, <3>2, <3>3
  <2>8. ASSUME NEW o \in Ops,
               AbandonReservation(o) \/ DeliverCancel(o) \/ DeliverDown(o) \/ DropHandle(o)
        PROVE  UNCHANGED Store!vars
    BY <2>8, CancelStep, CancelEffect DEF TypeOK
  <2>11. CASE TakeJob \/ TakeGarbage \/ CheckCancelled \/ Notify \/ WorkerFails \/ FailSession
             \/ NotifyFailed \/ Drain
    BY <2>11, <2>2
       DEF TypeOK, SessionType, TakeJob, TakeGarbage, CheckCancelled, Notify, WorkerFails,
           FailSession, NotifyFailed, Drain
  <2>12. CASE Settle
    BY <2>12, <2>2, SettleEffect DEF Settle, TypeOK
  <2>13. CASE Clean \/ Destroy
    <3>1. /\ session'.lease = session.lease /\ session'.leaseFailed = session.leaseFailed
          /\ UNCHANGED durable /\ tx' \in {tx, NoTx}
      BY <2>13 DEF Clean, Destroy, TypeOK, SessionType
    <3> QED BY <3>1, <2>3
  <2>14. CASE Reset
    <3>1. CASE worker.releasing
      BY <2>14, <3>1
         DEF Reset, At, Store!Release, Inv, OperationInv, TransactionInv, TypeOK, SessionType
    <3>2. CASE ~worker.releasing
      BY <2>14, <3>2, <2>2 DEF Reset, TypeOK, SessionType
    <3> QED BY <3>1, <3>2
  <2>15. CASE Publish
    <3>1. /\ session'.lease = session.lease /\ UNCHANGED <<tx, durable>>
          /\ session.leaseFailed \in BOOLEAN /\ session'.leaseFailed \in BOOLEAN
      BY <2>15, PublishEffect, PublishType DEF Publish, TypeOK, SessionType
    <3>2. session'.leaseFailed <=> session.leaseFailed
                                   \/ (session.lease # None /\ worker.code # Ok)
      BY <2>15, PublishEffect DEF TypeOK
    <3> QED BY <3>1, <3>2 DEF Store!Fail
  <2>16. CASE EngineWork
    <3>1. /\ worker.pc = "engine" /\ worker.job \in Ops /\ ~session.leaseFailed
          /\ opLease[worker.job] = session.lease /\ call[worker.job] = "submitted"
          /\ control[worker.job] # Query => session.lease # None
          /\ worker.job \notin tx.writes \cup durable
          /\ session.lease # None \/ ~tx.active
      BY <2>16, EngineAt
         DEF At, TypeOK, WorkerType, JobInHand, Inv, OperationInv, WorkerInv, TransactionInv,
             FailureInv, ExecutedInv, Executing, Serving
    <3>2. session' = session
      BY <2>16, EngineEffect DEF TypeOK
    <3>3. tx.writes # {} => tx.active
      BY DEF Inv, TransactionInv
    <3>4. CASE EngineBegin
      <4>1. CASE ~tx.active /\ tx' = [active |-> TRUE, writes |-> {}]
        <5>1. tx'.active = TRUE /\ tx'.writes = {} /\ tx.writes = {}
          BY <4>1, <3>3
        <5>2. durable' = durable /\ session.lease # None
          BY <3>1, <3>4 DEF EngineBegin, Running, Begin, Query
        <5> QED BY <5>1, <5>2, <4>1, <3>1, <3>2 DEF Store!Start
      <4>2. CASE UNCHANGED <<tx, durable>>
        BY <4>2, <3>2
      <4> QED BY <3>4, <4>1, <4>2 DEF EngineBegin
    <3>5. CASE EngineCommit
      <4>1. CASE tx.active /\ durable' = durable \cup tx.writes /\ tx' = NoTx
        BY <4>1, <3>1, <3>2 DEF NoTx, Store!CommitAll
      <4>2. CASE durable' = durable /\ tx' \in {tx, NoTx}
        BY <4>2, <3>2, <2>3
      <4> QED BY <3>5, <4>1, <4>2 DEF EngineCommit
    <3>6. CASE EngineRollback
      BY <3>2, <3>6, <2>3 DEF EngineRollback
    <3>7. ASSUME tx.active, tx' = [tx EXCEPT !.writes = @ \cup {worker.job}], durable' = durable
          PROVE  Store!Write(worker.job)
      BY <3>7, <3>1, <3>2 DEF Store!Write, TypeOK
    <3>8. CASE QuerySucceeds
      <4>1. CASE tx.active
        BY <4>1, <3>1, <3>8, <3>7 DEF QuerySucceeds
      <4>2. CASE ~tx.active
        BY <4>2, <3>1, <3>2, <3>8 DEF QuerySucceeds, Store!Single
      <4> QED BY <4>1, <4>2
    <3>9. CASE QueryFails
      BY <3>1, <3>2, <3>9, <3>7, <2>3 DEF QueryFails
    <3> QED BY <2>16, <3>4, <3>5, <3>6, <3>8, <3>9 DEF EngineWork
  <2>17. CASE UNCHANGED vars
    BY <2>17, <2>2 DEF vars
  <2> HIDE DEF Store!Next, Store!vars
  <2>18. CASE Caller
    BY <2>1, <2>4, <2>5, <2>8, <2>6, <2>7, <2>9, <2>10, <2>18 DEF Caller
  <2>19. CASE Worker
    BY <2>11, <2>12, <2>13, <2>14, <2>15, <2>16, <2>19 DEF Worker, EngineWork, Interrupt
  <2> QED
    BY <2>17, <2>18, <2>19 DEF Next
<1> QED BY <1>1, <1>2, InvariantHolds, PTL DEF Spec, ImplementsStore, Store!Spec

=============================================================================
