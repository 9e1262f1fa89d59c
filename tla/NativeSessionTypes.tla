-------------------------- MODULE NativeSessionTypes -------------------------
(***************************************************************************)
(* The type invariant of NativeSession, and what its helpers and its       *)
(* computed flags make of the session and of the worker, field by field.   *)
(* NativeSessionProofs builds on these lemmas.                             *)
(***************************************************************************)
EXTENDS NativeSession, TLAPS

-----------------------------------------------------------------------------
(* Types.  First the records: what each helper and each entry point makes of them. *)

LEMMA LoopType ==
  ASSUME NEW label \in WorkerStates
  PROVE  Loop(label) \in WorkerType
BY DEF Loop, WorkerType, Outcomes, Ok

LEMMA SnapshotType ==
  ASSUME session \in SessionType, NEW label \in WorkerStates, NEW job \in Ops \cup {None}
  PROVE  Snapshot(label, job) \in WorkerType
<1> DEFINE halt == session.cancel \/ session.stop
<1>1. halt \in BOOLEAN /\ Loop(label) \in WorkerType
  BY LoopType
<1>2. Snapshot(label, job) =
        [Loop(label) EXCEPT !.job = job, !.stopping = session.stop, !.cancelled = halt,
                            !.releasing = session.leaseAbandoned]
  BY Zenon DEF Snapshot
<1> HIDE DEF halt
<1> QED BY <1>1, <1>2 DEF SessionType, WorkerType

LEMMA LoopFields ==
  ASSUME NEW label
  PROVE  /\ Loop(label).pc = label /\ Loop(label).job = None /\ Loop(label).value = None
         /\ Loop(label).code = Ok /\ ~Loop(label).releasing /\ ~Loop(label).cancelled
BY DEF Loop

LEMMA SnapshotFields ==
  ASSUME NEW label, NEW job
  PROVE  /\ Snapshot(label, job).pc = label /\ Snapshot(label, job).job = job
         /\ Snapshot(label, job).value = None /\ Snapshot(label, job).code = Ok
         /\ Snapshot(label, job).cancelled = (session.cancel \/ session.stop)
         /\ Snapshot(label, job).stopping = session.stop
         /\ Snapshot(label, job).releasing = session.leaseAbandoned
BY DEF Snapshot, Loop

LEMMA SubmitType ==
  ASSUME session \in SessionType, NEW o \in Ops, Submit(o)
  PROVE  session' \in SessionType
<1>1. CASE control[o] = Query
  <2> DEFINE flag == o \in flagged
  <2>1. flag \in BOOLEAN
    OBVIOUS
  <2> HIDE DEF flag
  <2>2. session' = [session EXCEPT !.pending = o, !.cancel = flag]
    BY <1>1 DEF Submit, SessionType, flag
  <2> QED BY <2>1, <2>2 DEF SessionType
<1>2. CASE control[o] # Query
  <2>1. session' = [session EXCEPT !.pending = o]
    BY <1>2 DEF Submit, SessionType
  <2> QED BY <2>1 DEF SessionType
<1> QED BY <1>1, <1>2

LEMMA CancelCallType ==
  ASSUME session \in SessionType, NEW o \in Ops, NEW abandon \in BOOLEAN, CancelCall(o, abandon)
  PROVE  session' \in SessionType
<1>1. CASE Open /\ session.busy /\ session.id = o
  <2> DEFINE flag == session.discard \/ abandon
  <2>1. flag \in BOOLEAN
    OBVIOUS
  <2>2. session' = [session EXCEPT !.cancel = TRUE, !.discard = flag]
    BY <1>1, Zenon DEF CancelCall
  <2> HIDE DEF flag
  <2> QED BY <2>1, <2>2 DEF SessionType
<1>2. CASE ~(Open /\ session.busy /\ session.id = o)
  BY <1>2 DEF CancelCall
<1> QED BY <1>1, <1>2

LEMMA ResetType ==
  ASSUME session \in SessionType, Reset
  PROVE  session' \in SessionType
<1>1. CASE worker.releasing
  <2>1. session' = [session EXCEPT
          !.busy = FALSE, !.ready = FALSE, !.discard = FALSE, !.cancel = FALSE,
          !.id = None, !.lease = None, !.leaseAbandoned = FALSE, !.leaseFailed = FALSE]
    BY <1>1 DEF Reset
  <2> QED BY <2>1 DEF SessionType
<1>2. CASE ~worker.releasing
  <2>1. session' = [session EXCEPT
          !.busy = FALSE, !.ready = FALSE, !.discard = FALSE, !.cancel = FALSE, !.id = None]
    BY <1>2 DEF Reset, SessionType
  <2> QED BY <2>1 DEF SessionType
<1> QED BY <1>1, <1>2

LEMMA PublishType ==
  ASSUME session \in SessionType, worker \in WorkerType, Publish
  PROVE  session' \in SessionType
<1> DEFINE flag == session.leaseFailed \/ (session.lease # None /\ worker.code # Ok)
<1>1. flag \in BOOLEAN /\ worker.value \in Ops \cup {None} /\ worker.code \in Outcomes
  BY DEF WorkerType
<1>2. session' = [session EXCEPT !.result = worker.value, !.error = worker.code,
                                 !.ready = TRUE, !.leaseFailed = flag]
  BY Zenon DEF Publish
<1> HIDE DEF flag
<1> QED BY <1>1, <1>2 DEF SessionType

LEMMA NotifyType ==
  ASSUME worker \in WorkerType, Notify
  PROVE  worker' \in WorkerType
<1> DEFINE flag == owner[worker.job] = "alive"
<1>1. flag \in BOOLEAN
  OBVIOUS
<1>2. worker' = [worker EXCEPT !.pc = "settle", !.delivered = flag]
  BY Zenon DEF Notify
<1> HIDE DEF flag
<1> QED BY <1>1, <1>2 DEF WorkerType, WorkerStates

LEMMA SettleType ==
  ASSUME session \in SessionType, Settle
  PROVE  session' \in SessionType
<1> DEFINE flag == session.discard \/ ~worker.delivered
<1>1. flag \in BOOLEAN
  OBVIOUS
<1>2. session' = [session EXCEPT !.discard = flag]
  BY Zenon DEF Settle
<1> HIDE DEF flag
<1> QED BY <1>1, <1>2 DEF SessionType

LEMMA AnswersType ==
  ASSUME answers \in [Ops -> Nat], NEW o, answers' = [answers EXCEPT ![o] = @ + 1]
  PROVE  answers' \in [Ops -> Nat]
<1>1. CASE o \in Ops    BY <1>1
<1>2. CASE o \notin Ops BY <1>2
<1> QED BY <1>1, <1>2

\* A worker that is past its wait with a job has one.
JobInHand ==
  worker.pc \in {"check", "engine", "publish", "notify", "settle", "failed"} => worker.job # None

EngineWork == EngineBegin \/ EngineCommit \/ EngineRollback \/ QuerySucceeds \/ QueryFails

\* Whatever the engine did, the worker has a code and perhaps the result of its own job.
LEMMA EngineOutcome ==
  ASSUME EngineWork
  PROVE  \E code \in {Ok, Failed}, value \in {None, worker.job} : EngineReturns(code, value)
<1>1. CASE EngineBegin    BY <1>1 DEF EngineBegin
<1>2. CASE EngineCommit   BY <1>2 DEF EngineCommit
<1>3. CASE EngineRollback BY <1>3 DEF EngineRollback
<1>4. CASE QuerySucceeds  BY <1>4 DEF QuerySucceeds
<1>5. CASE QueryFails     BY <1>5 DEF QueryFails
<1> QED BY <1>1, <1>2, <1>3, <1>4, <1>5 DEF EngineWork

LEMMA EngineAt ==
  ASSUME EngineWork
  PROVE  At("engine")
BY DEF EngineWork, EngineBegin, EngineCommit, EngineRollback, QuerySucceeds, QueryFails, Running

LEMMA EngineType ==
  ASSUME TypeOK, JobInHand, EngineWork
  PROVE  TypeOK'
<1>1. PICK code \in {Ok, Failed}, value \in {None, worker.job} : EngineReturns(code, value)
  BY EngineOutcome
<1>2. worker' \in WorkerType
  <2>1. code \in Outcomes /\ value \in Ops \cup {None}
    BY DEF Outcomes, TypeOK, WorkerType
  <2> QED BY <1>1, <2>1 DEF EngineReturns, TypeOK, WorkerType, WorkerStates
<1>3. Running(Query) => worker.job \in Ops
  BY NoneAssumption DEF TypeOK, WorkerType, Running, At, JobInHand
<1>4. tx' \in [active: BOOLEAN, writes: SUBSET Ops] /\ durable' \subseteq Ops
  <2> DEFINE TxType == [active: BOOLEAN, writes: SUBSET Ops]
  <2>1. tx \in TxType /\ durable \subseteq Ops
    BY DEF TypeOK
  <2>2. NoTx \in TxType /\ [active |-> TRUE, writes |-> {}] \in TxType
    BY DEF NoTx
  <2>3. CASE EngineBegin
    <3>1. CASE tx' = [active |-> TRUE, writes |-> {}]
      BY <2>1, <2>2, <2>3, <3>1 DEF EngineBegin
    <3>2. CASE UNCHANGED tx
      BY <2>1, <2>3, <3>2 DEF EngineBegin
    <3> QED BY <2>3, <3>1, <3>2 DEF EngineBegin
  <2>4. CASE EngineCommit   BY <2>1, <2>2, <2>4 DEF EngineCommit
  <2>5. CASE EngineRollback BY <2>1, <2>2, <2>5 DEF EngineRollback
  <2>6. CASE QuerySucceeds  BY <2>1, <2>6, <1>3 DEF QuerySucceeds
  <2>7. CASE QueryFails     BY <2>1, <2>2, <2>7, <1>3 DEF QueryFails
  <2> QED BY <2>3, <2>4, <2>5, <2>6, <2>7 DEF EngineWork
<1> QED BY <1>1, <1>2, <1>4 DEF EngineReturns, TypeOK, clientVars, leaseVars

-----------------------------------------------------------------------------
(* What the actions that compute a flag make of the session, field by field. *)

\* A cancel reaches the session only if it names the session's operation.
LEMMA CancelEffect ==
  ASSUME session \in SessionType, NEW o \in Ops, NEW abandon \in BOOLEAN, CancelCall(o, abandon)
  PROVE  /\ session'.id = session.id /\ session'.lease = session.lease
         /\ session'.pending = session.pending /\ session'.result = session.result
         /\ session'.busy = session.busy /\ session'.ready = session.ready
         /\ session'.stop = session.stop /\ session'.fetching = session.fetching
         /\ session'.leaseAbandoned = session.leaseAbandoned
         /\ session'.leaseFailed = session.leaseFailed
         /\ session.cancel => session'.cancel
         /\ session'.cancel => session.cancel \/ (session.busy /\ session.id = o)
         /\ session.discard => session'.discard
         /\ session'.discard => session.discard \/ (session'.cancel /\ session.busy)
<1>1. CASE Open /\ session.busy /\ session.id = o
  <2> DEFINE flag == session.discard \/ abandon
  <2>1. session' = [session EXCEPT !.cancel = TRUE, !.discard = flag]
    BY <1>1, Zenon DEF CancelCall
  <2>2. flag <=> session.discard \/ abandon
    OBVIOUS
  <2> HIDE DEF flag
  <2> QED BY <1>1, <2>1, <2>2 DEF SessionType
<1>2. CASE ~(Open /\ session.busy /\ session.id = o)
  BY <1>2 DEF CancelCall
<1> QED BY <1>1, <1>2

\* The four steps that cancel: who is behind the request, and what else they change.
LEMMA CancelStep ==
  ASSUME call \in [Ops -> CallStates], NEW o \in Ops,
         AbandonReservation(o) \/ DeliverCancel(o) \/ DeliverDown(o) \/ DropHandle(o)
  PROVE  /\ \E abandon \in BOOLEAN : CancelCall(o, abandon)
         /\ UNCHANGED <<db, worker, tx, cursor, opLease, control, flagged, leaseVars, outcome,
                        answers, durable>>
         /\ call' = call \/ (call[o] = "abandoning" /\ call' = [call EXCEPT ![o] = "rejected"])
         /\ owner' = owner \/ (owner[o] = "flagged" /\ owner' = [owner EXCEPT ![o] = "down"])
         /\ call'[o] = "rejected" \/ o \in flagged \/ owner[o] = "flagged" \/ answers[o] > 0
<1> USE DEF clientVars
<1>1. CASE AbandonReservation(o) BY <1>1 DEF AbandonReservation
<1>2. CASE DeliverCancel(o)      BY <1>2 DEF DeliverCancel
<1>3. CASE DeliverDown(o)        BY <1>3 DEF DeliverDown
<1>4. CASE DropHandle(o)         BY <1>4 DEF DropHandle
<1> QED BY <1>1, <1>2, <1>3, <1>4

LEMMA PublishEffect ==
  ASSUME session \in SessionType, Publish
  PROVE  /\ session'.result = worker.value /\ session'.ready
         /\ session'.leaseFailed <=> session.leaseFailed
                                     \/ (session.lease # None /\ worker.code # Ok)
         /\ session'.id = session.id /\ session'.lease = session.lease
         /\ session'.pending = session.pending /\ session'.busy = session.busy
         /\ session'.stop = session.stop /\ session'.cancel = session.cancel
         /\ session'.discard = session.discard /\ session'.fetching = session.fetching
         /\ session'.leaseAbandoned = session.leaseAbandoned
<1> DEFINE flag == session.leaseFailed \/ (session.lease # None /\ worker.code # Ok)
<1>1. session' = [session EXCEPT !.result = worker.value, !.error = worker.code,
                                 !.ready = TRUE, !.leaseFailed = flag]
  BY Zenon DEF Publish
<1>2. flag <=> session.leaseFailed \/ (session.lease # None /\ worker.code # Ok)
  OBVIOUS
<1> HIDE DEF flag
<1> QED BY <1>1, <1>2 DEF SessionType

LEMMA SettleEffect ==
  ASSUME session \in SessionType, Settle
  PROVE  /\ session'.discard <=> session.discard \/ ~worker.delivered
         /\ session'.id = session.id /\ session'.lease = session.lease
         /\ session'.pending = session.pending /\ session'.result = session.result
         /\ session'.busy = session.busy /\ session'.ready = session.ready
         /\ session'.stop = session.stop /\ session'.cancel = session.cancel
         /\ session'.fetching = session.fetching
         /\ session'.leaseAbandoned = session.leaseAbandoned
         /\ session'.leaseFailed = session.leaseFailed
<1> DEFINE flag == session.discard \/ ~worker.delivered
<1>1. session' = [session EXCEPT !.discard = flag]
  BY Zenon DEF Settle
<1>2. flag <=> session.discard \/ ~worker.delivered
  OBVIOUS
<1> HIDE DEF flag
<1> QED BY <1>1, <1>2 DEF SessionType

LEMMA EngineEffect ==
  ASSUME worker \in WorkerType, EngineWork
  PROVE  /\ worker.pc = "engine" /\ worker'.pc = "publish" /\ worker'.job = worker.job
         /\ worker'.value \in {None, worker.job} /\ worker'.code \in {Ok, Failed}
         /\ UNCHANGED <<db, session, cursor, call, clientVars, leaseVars, outcome, answers>>
<1>1. PICK code \in {Ok, Failed}, value \in {None, worker.job} : EngineReturns(code, value)
  BY EngineOutcome
<1> QED BY <1>1, EngineAt DEF EngineReturns, At, WorkerType

\* What the engine can do to the transaction and to the durable queries.
LEMMA EngineTransaction ==
  ASSUME EngineWork
  PROVE  /\ \/ tx' = tx \/ tx' = NoTx
            \/ control[worker.job] = Begin /\ tx' = [active |-> TRUE, writes |-> {}]
            \/ /\ tx.active /\ control[worker.job] = Query
               /\ tx' = [tx EXCEPT !.writes = @ \cup {worker.job}]
         /\ \/ durable' = durable
            \/ control[worker.job] = Commit /\ durable' = durable \cup tx.writes
            \/ /\ control[worker.job] = Query /\ session.lease = None
               /\ durable' = durable \cup {worker.job}
<1>1. CASE EngineBegin    BY <1>1 DEF EngineBegin, Running
<1>2. CASE EngineCommit   BY <1>2 DEF EngineCommit, Running
<1>3. CASE EngineRollback BY <1>3 DEF EngineRollback, Running
<1>4. CASE QuerySucceeds  BY <1>4 DEF QuerySucceeds, Running
<1>5. CASE QueryFails     BY <1>5 DEF QueryFails, Running
<1> QED BY <1>1, <1>2, <1>3, <1>4, <1>5 DEF EngineWork

-----------------------------------------------------------------------------
\* Every variable of the session keeps its type, for any operations and leases, and the
\* worker has a job wherever it uses one.
THEOREM TypeAndJob == Spec => [](TypeOK /\ JobInHand)
<1>1. Init => TypeOK /\ JobInHand
  BY DEF Init, TypeOK, JobInHand, SessionType, WorkerType, WorkerStates, Loop, NoTx, CallStates,
         OwnerStates, Controls, Query, Outcomes, Ok
<1>2. TypeOK /\ JobInHand /\ [Next]_vars => TypeOK'
  <2> SUFFICES ASSUME TypeOK, JobInHand, [Next]_vars PROVE TypeOK'
    OBVIOUS
  <2> USE DEF TypeOK, clientVars, leaseVars, CallStates, OwnerStates
  <2>1. ASSUME NEW l \in Leases, LeaseAcquire(l) PROVE TypeOK'
    <3>1. session' \in SessionType
      BY <2>1 DEF LeaseAcquire, SessionType
    <3> QED BY <2>1, <3>1 DEF LeaseAcquire
  <2>2. ASSUME NEW l \in Leases, LeaseRelease(l) PROVE TypeOK'
    <3>1. session' \in SessionType
      BY <2>2 DEF LeaseRelease, SessionType
    <3> QED BY <2>2, <3>1 DEF LeaseRelease
  <2>3. ASSUME NEW o \in Ops, NEW l \in Leases \cup {None}, NEW c \in Controls, Reserve(o, l, c)
        PROVE TypeOK'
    <3>1. session' \in SessionType
      BY <2>3 DEF Reserve, SessionType
    <3> QED BY <2>3, <3>1 DEF Reserve
  <2>4. ASSUME NEW o \in Ops, Submit(o) PROVE TypeOK'
    <3>1. session' \in SessionType
      BY <2>4, SubmitType
    <3> QED BY <2>4, <3>1 DEF Submit
  <2>5. ASSUME NEW o \in Ops, Refuse(o) PROVE TypeOK'
    BY <2>5 DEF Refuse
  <2>6. ASSUME NEW o \in Ops, RequestCancel(o) PROVE TypeOK'
    BY <2>6 DEF RequestCancel
  <2>7. ASSUME NEW o \in Ops, OwnerExit(o) PROVE TypeOK'
    BY <2>7 DEF OwnerExit
  <2>8. ASSUME NEW o \in Ops, OwnerDown(o) PROVE TypeOK'
    BY <2>8 DEF OwnerDown
  <2>9. ASSUME NEW o \in Ops, AbandonReservation(o) PROVE TypeOK'
    <3>1. session' \in SessionType
      BY <2>9, CancelCallType DEF AbandonReservation
    <3> QED BY <2>9, <3>1 DEF AbandonReservation
  <2>10. ASSUME NEW o \in Ops, DeliverCancel(o) PROVE TypeOK'
    <3>1. session' \in SessionType
      BY <2>10, CancelCallType DEF DeliverCancel
    <3> QED BY <2>10, <3>1 DEF DeliverCancel
  <2>11. ASSUME NEW o \in Ops, DeliverDown(o) PROVE TypeOK'
    <3>1. session' \in SessionType
      BY <2>11, CancelCallType DEF DeliverDown
    <3> QED BY <2>11, <3>1 DEF DeliverDown
  <2>12. ASSUME NEW o \in Ops, DropHandle(o) PROVE TypeOK'
    <3>1. session' \in SessionType
      BY <2>12, CancelCallType DEF DropHandle
    <3> QED BY <2>12, <3>1 DEF DropHandle
  <2>13. ASSUME NEW o \in Ops, Finish(o) PROVE TypeOK'
    <3>1. session' \in SessionType
      BY <2>13 DEF Finish, SessionType
    <3> QED BY <2>13, <3>1 DEF Finish
  <2>14. ASSUME NEW o \in Ops, FetchBegin(o) PROVE TypeOK'
    <3>1. session' \in SessionType
      BY <2>14 DEF FetchBegin, SessionType
    <3> QED BY <2>14, <3>1 DEF FetchBegin
  <2>15. ASSUME FetchEnd PROVE TypeOK'
    <3>1. session' \in SessionType
      BY <2>15 DEF FetchEnd, SessionType
    <3> QED BY <2>15, <3>1 DEF FetchEnd
  <2>16. ASSUME Retire PROVE TypeOK'
    BY <2>16 DEF Retire
  <2>17. ASSUME StopSession PROVE TypeOK'
    <3>1. session' \in SessionType
      BY <2>17 DEF StopSession, SessionType
    <3> QED BY <2>17, <3>1 DEF StopSession
  <2>18. ASSUME TakeJob PROVE TypeOK'
    <3>1. session' \in SessionType
      BY <2>18 DEF TakeJob, SessionType
    <3>2. session.pending \in Ops \cup {None}
      BY DEF SessionType
    <3>3. worker' \in WorkerType
      BY <2>18, <3>2, SnapshotType DEF TakeJob, WorkerStates
    <3> QED BY <2>18, <3>1, <3>2, <3>3 DEF TakeJob
  <2>19. ASSUME TakeGarbage PROVE TypeOK'
    <3>1. session' \in SessionType
      BY <2>19 DEF TakeGarbage, SessionType
    <3>2. worker' \in WorkerType
      BY <2>19, SnapshotType DEF TakeGarbage, WorkerStates
    <3> QED BY <2>19, <3>1, <3>2 DEF TakeGarbage
  <2>20. ASSUME Clean PROVE TypeOK'
    <3>1. worker' \in WorkerType
      BY <2>20 DEF Clean, WorkerType, WorkerStates
    <3>2. tx' \in [active: BOOLEAN, writes: SUBSET Ops]
      BY <2>20 DEF Clean, NoTx
    <3> QED BY <2>20, <3>1, <3>2 DEF Clean
  <2>21. ASSUME Reset PROVE TypeOK'
    <3>1. session' \in SessionType
      BY <2>21, ResetType
    <3>2. worker' \in WorkerType
      BY <2>21, LoopType DEF Reset, WorkerStates
    <3> QED BY <2>21, <3>1, <3>2 DEF Reset
  <2>22. ASSUME CheckCancelled PROVE TypeOK'
    <3>1. worker' \in WorkerType
      BY <2>22 DEF CheckCancelled, WorkerType, WorkerStates, Outcomes, Cancelled
    <3> QED BY <2>22, <3>1 DEF CheckCancelled
  <2>23. CASE EngineWork
    BY <2>23, EngineType
  <2>24. ASSUME Publish PROVE TypeOK'
    <3>1. session' \in SessionType
      BY <2>24, PublishType
    <3>2. worker' \in WorkerType
      BY <2>24 DEF Publish, WorkerType, WorkerStates
    <3>3. outcome' \in [Ops -> Outcomes]
      BY <2>24 DEF Publish, WorkerType
    <3> QED BY <2>24, <3>1, <3>2, <3>3 DEF Publish
  <2>25. ASSUME Notify PROVE TypeOK'
    <3>1. worker' \in WorkerType
      BY <2>25, NotifyType
    <3>2. answers' \in [Ops -> Nat]
      BY <2>25, AnswersType DEF Notify
    <3> QED BY <2>25, <3>1, <3>2 DEF Notify
  <2>26. ASSUME Settle PROVE TypeOK'
    <3>1. session' \in SessionType
      BY <2>26, SettleType
    <3>2. worker' \in WorkerType
      BY <2>26, LoopType DEF Settle, WorkerStates
    <3> QED BY <2>26, <3>1, <3>2 DEF Settle
  <2>27. ASSUME WorkerFails PROVE TypeOK'
    <3>1. worker' \in WorkerType
      BY <2>27, LoopType DEF WorkerFails, WorkerStates
    <3> QED BY <2>27, <3>1 DEF WorkerFails
  <2>28. ASSUME FailSession PROVE TypeOK'
    <3>1. session' \in SessionType
      BY <2>28 DEF FailSession, SessionType, Outcomes, Failed
    <3>2. worker' \in WorkerType
      BY <2>28 DEF FailSession, SessionType, WorkerType, WorkerStates
    <3> QED BY <2>28, <3>1, <3>2 DEF FailSession
  <2>29. ASSUME NotifyFailed PROVE TypeOK'
    <3>1. worker' \in WorkerType
      BY <2>29, LoopType DEF NotifyFailed, WorkerStates
    <3>2. answers' \in [Ops -> Nat]
      BY <2>29, AnswersType DEF NotifyFailed
    <3>3. outcome' \in [Ops -> Outcomes]
      BY <2>29 DEF NotifyFailed, Outcomes, Failed
    <3> QED BY <2>29, <3>1, <3>2, <3>3 DEF NotifyFailed
  <2>30. ASSUME Drain PROVE TypeOK'
    <3>1. worker' \in WorkerType
      BY <2>30 DEF Drain, WorkerType, WorkerStates
    <3> QED BY <2>30, <3>1 DEF Drain
  <2>31. ASSUME Destroy PROVE TypeOK'
    <3>1. session' \in SessionType
      BY <2>31 DEF Destroy, SessionType
    <3>2. worker' \in WorkerType
      BY <2>31 DEF Destroy, WorkerType, WorkerStates
    <3> QED BY <2>31, <3>1, <3>2 DEF Destroy, NoTx
  <2>32. CASE UNCHANGED vars
    BY <2>32 DEF vars
  <2> QED
    BY <2>1, <2>2, <2>3, <2>4, <2>5, <2>6, <2>7, <2>8, <2>9, <2>10, <2>11, <2>12,
       <2>13, <2>14, <2>15, <2>16, <2>17, <2>18, <2>19, <2>20, <2>21, <2>22, <2>23, <2>24,
       <2>25, <2>26, <2>27, <2>28, <2>29, <2>30, <2>31, <2>32
       DEF Next, Caller, Worker, EngineWork, Interrupt
<1>3. TypeOK /\ JobInHand /\ [Next]_vars => JobInHand'
  <2> SUFFICES ASSUME TypeOK, JobInHand, [Next]_vars PROVE JobInHand'
    OBVIOUS
  <2> USE DEF JobInHand, TypeOK, WorkerType
  <2>1. CASE UNCHANGED worker
    BY <2>1
  <2>2. CASE TakeJob
    BY <2>2, SnapshotFields DEF TakeJob
  <2>3. CASE TakeGarbage
    BY <2>3, SnapshotFields DEF TakeGarbage
  <2>4. CASE Clean
    BY <2>4 DEF Clean
  <2>5. CASE Reset
    BY <2>5, LoopFields DEF Reset
  <2>6. CASE CheckCancelled
    BY <2>6 DEF CheckCancelled, At
  <2>7. CASE EngineWork
    BY <2>7, EngineOutcome, EngineAt DEF EngineReturns, At
  <2>8. CASE Publish
    BY <2>8 DEF Publish, At
  <2>9. CASE Notify
    BY <2>9 DEF Notify, At
  <2>10. CASE Settle \/ WorkerFails \/ NotifyFailed
    BY <2>10, LoopFields DEF Settle, WorkerFails, NotifyFailed
  <2>11. CASE FailSession
    BY <2>11 DEF FailSession
  <2>12. CASE Drain
    BY <2>12 DEF Drain
  <2>13. CASE Destroy
    BY <2>13 DEF Destroy
  <2> QED
    BY <2>1, <2>2, <2>3, <2>4, <2>5, <2>6, <2>7, <2>8, <2>9, <2>10, <2>11, <2>12, <2>13
       DEF Next, Caller, Worker, EngineWork, Interrupt, vars, LeaseAcquire, LeaseRelease, Reserve,
           Submit, Refuse, AbandonReservation, RequestCancel, DeliverCancel, OwnerExit, OwnerDown,
           DeliverDown, DropHandle, Finish, FetchBegin, FetchEnd, Retire, StopSession
<1> QED BY <1>1, <1>2, <1>3, PTL DEF Spec

\* Every variable of the session keeps its type.
THEOREM TypeCorrect == Spec => []TypeOK
BY TypeAndJob, PTL
=============================================================================
