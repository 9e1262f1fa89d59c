----------------------------- MODULE StreamProofs -----------------------------
(***************************************************************************)
(* The safety properties of StreamTransfer, for results of any length,     *)
(* rows of any cost and any limits: an inductive invariant, its            *)
(* preservation part by part, the theorems that follow from it, and that   *)
(* the transfer implements RowStream.                                      *)
(***************************************************************************)
EXTENDS StreamTransfer, SequenceTheorems, TLAPS

-----------------------------------------------------------------------------
(***************************************************************************)
(* The inductive invariant.                                                *)
(***************************************************************************)

Reading == {"header", "next", "encode", "finished", "closing", "failed"}

\* The call that reads, or has just read, the latest result.
Current == fetch.op = op /\ fetch.pc \notin {"idle", "begin"}

\* The session has the latest result from its publication until the worker takes it; while a
\* cursor is open the worker does not.
SessionInv ==
  /\ session.ready => op # 0
  /\ session.discard => session.ready
  /\ ~session.ready => session.of = 0 /\ worker.pc = "wait"
  /\ session.ready /\ worker.pc = "wait" => session.of = op
  /\ worker.pc # "wait" => session.of = 0
  /\ session.fetching <=> fetch.pc \in Reading
  /\ session.fetching => session.of = op /\ op # 0 /\ fetch.op = op
  /\ fetch.op <= op

\* Borrowed rows are rows of the result that is in the same hands.
RowInv ==
  /\ row # NoRow => session.fetching /\ row[1] = op
  /\ session.of = 0 => session.unread = NoRow
  /\ worker.row # NoRow => worker.pc = "dropRow" /\ worker.of = worker.row[1]

\* The engine is one row ahead of the position exactly when a row was put back.
PositionInv ==
  /\ result.taken <= Total
  /\ session.of # 0 =>
       IF session.unread = NoRow THEN session.rowsRead = result.taken
       ELSE session.unread = Row(op, session.rowsRead + 1) /\ result.taken = session.rowsRead + 1
  /\ At("encode") =>
       /\ row = Row(op, session.rowsRead) /\ session.unread = NoRow
       /\ session.rowsRead # 0 /\ fetch.where = session.rowsRead - 1

\* What the position is for the reader: everything received and everything in the batch.
BatchInv ==
  /\ \A i \in 1..Len(got) : got[i] = Row(op, i)
  /\ answer = "open" =>
       /\ op # 0
       /\ Len(got) < Total \/ Total = 0
       /\ ~Current => session.rowsRead = Len(got)
       /\ Current /\ fetch.fault \in {"none", "done"} =>
            /\ Len(got) + Len(fetch.rows) = session.rowsRead - (IF At("encode") THEN 1 ELSE 0)
            /\ \A i \in 1..Len(fetch.rows) : fetch.rows[i] = Row(op, Len(got) + i)

\* How a call can end, and what is left of its budget while it has no row yet.
CallInv ==
  /\ fetch.pc \in {"begin", "header", "next", "encode", "finished"} => fetch.fault = "none"
  /\ fetch.pc \in {"begin", "header"} => fetch.rows = <<>> /\ fetch.remaining = fetch.bytes
  /\ fetch.pc \in {"next", "encode"} /\ fetch.rows = <<>> =>
       fetch.remaining + result.header = fetch.bytes
  /\ At("finished") => Complete \/ (fetch.batch /\ fetch.rows # <<>>)
  /\ At("closing") => fetch.fault \in {"none", "done"}
  /\ At("failed") => fetch.fault \in RowErrors \cup {"row_limit", "unavailable"}
  /\ Current /\ fetch.pc \in {"closing", "ended"} =>
       /\ fetch.fault = "none" => fetch.rows # <<>> /\ session.rowsRead < Total
       /\ fetch.fault = "done" => Complete
  /\ Current /\ answer = "open" /\ fetch.fault = "row_too_large" =>
       result.header + result.cost[Len(got) + 1] > fetch.bytes

Invariant == SessionInv /\ RowInv /\ PositionInv /\ BatchInv /\ CallInv
-----------------------------------------------------------------------------
(***************************************************************************)
(* Types.                                                                  *)
(***************************************************************************)

RowList == Seq(AnyRow)
CostList == Seq(Nat \ {0})

ResultType  == [cost: CostList, header: Nat, taken: Nat]
SessionType == [of: Nat, ready: BOOLEAN, discard: BOOLEAN, fetching: BOOLEAN,
                rowsRead: Nat, unread: AnyRow]
WorkerType  == [pc: {"wait", "dropRow", "dropResult", "reset"}, row: AnyRow, of: Nat]
FetchType   == [pc: FetchSteps, op: Nat, batch: BOOLEAN, maxRows: Nat \ {0}, bytes: Nat \ {0},
                remaining: Nat, where: Nat, rows: RowList, fault: Faults]

\* The type invariant by the records it speaks of.
LEMMA TypesByRecord ==
  TypeOK <=> /\ op \in Nat /\ result \in ResultType /\ session \in SessionType
             /\ worker \in WorkerType /\ row \in AnyRow /\ fetch \in FetchType
             /\ cancelled \in BOOLEAN /\ got \in RowList /\ answer \in Answers
  BY DEF TypeOK, ResultType, SessionType, WorkerType, FetchType, RowList, CostList

\* Rows are pairs, lists of rows grow by rows, and a row has its cost.
LEMMA RowsAreRows ==
  /\ \A o, i \in Nat : Row(o, i) \in AnyRow
  /\ NoRow \in AnyRow
  /\ \A o, i, p, j \in Nat : Row(o, i) = Row(p, j) <=> o = p /\ i = j
  /\ \A r \in AnyRow : r[1] \in Nat /\ r[2] \in Nat /\ r = Row(r[1], r[2])
  BY DEF Row, NoRow, AnyRow

LEMMA ListsAreLists ==
  /\ <<>> \in RowList /\ <<>> \in CostList
  /\ \A s \in RowList : Len(s) \in Nat
  /\ \A s \in CostList : Len(s) \in Nat
  /\ \A s \in RowList : \A r \in AnyRow : Append(s, r) \in RowList
  /\ \A s, t \in RowList : s \o t \in RowList
  BY AppendProperties, ConcatProperties DEF RowList, CostList

\* The initial state has the right types.
LEMMA InitTypes == Init => TypeOK
<1> SUFFICES ASSUME Init PROVE TypeOK
    OBVIOUS
<1> USE RowsAreRows, ListsAreLists DEF Init
<1>1. result \in ResultType
  BY DEF ResultType
<1>2. session \in SessionType
  BY DEF SessionType
<1>3. worker \in WorkerType
  BY DEF WorkerType
<1>4. fetch \in FetchType
  BY DEF FetchType, NoFetch, FetchSteps, Faults
<1> QED
  BY <1>1, <1>2, <1>3, <1>4, TypesByRecord DEF Answers

\* aphid_finish keeps the type of a session.
LEMMA FinishedType ==
  ASSUME session \in SessionType, NEW o
  PROVE  Finished(o) \in SessionType
  BY DEF Finished, SessionType

\* The row being converted is a row of the result, so it has a cost.
LEMMA RowHasCost ==
  ASSUME TypeOK, Invariant, At("encode")
  PROVE  /\ row = Row(op, session.rowsRead) /\ session.rowsRead \in 1..Total
         /\ Cost = result.cost[session.rowsRead] /\ Cost \in Nat \ {0}
<1>1. session.of = op /\ op # 0 /\ op \in Nat
  BY DEF TypeOK, Invariant, SessionInv, Reading, At
<1>2. row = Row(op, session.rowsRead) /\ session.rowsRead = result.taken /\ session.rowsRead # 0
  BY <1>1 DEF Invariant, PositionInv
<1>3. session.rowsRead \in 1..Total
  BY <1>2, TypesByRecord, ListsAreLists DEF Invariant, PositionInv, Total, SessionType, ResultType
<1>4. Cost = result.cost[session.rowsRead]
  BY <1>2 DEF Cost, Row
<1>5. result.cost[session.rowsRead] \in Nat \ {0}
  BY <1>3, TypesByRecord, ElementOfSeq DEF Total, ResultType, CostList
<1> QED
  BY <1>2, <1>3, <1>4, <1>5

\* Every step of the worker, the reading call and the owner keeps the types.
LEMMA StepTypes == TypeOK /\ Invariant /\ [Next]_vars => TypeOK'
<1> DEFINE Typed == /\ op \in Nat /\ result \in ResultType /\ session \in SessionType
                    /\ worker \in WorkerType /\ row \in AnyRow /\ fetch \in FetchType
                    /\ cancelled \in BOOLEAN /\ got \in RowList /\ answer \in Answers
<1>a. TypeOK <=> Typed
  BY TypesByRecord
<1>b. TypeOK' <=> Typed'
  BY TypesByRecord, PTL
<1> SUFFICES ASSUME TypeOK, Typed, Invariant, [Next]_vars PROVE Typed'
  BY <1>a, <1>b
<1>1. CASE Publish
  <2>4. session' \in SessionType
    <3> DEFINE next == op + 1
    <3>1. session' = [session EXCEPT !.of = next, !.ready = TRUE, !.rowsRead = 0] /\ next \in Nat
      BY <1>1 DEF Publish
    <3> HIDE DEF next
    <3> QED BY <3>1 DEF SessionType
  <2>5. op' \in Nat
    BY <1>1 DEF Publish
  <2>6. /\ cancelled' \in BOOLEAN /\ got' \in RowList /\ answer' \in Answers
        /\ UNCHANGED <<worker, row, fetch>>
    BY <1>1, ListsAreLists, Zenon DEF Publish, Answers
  <2>a. PICK n \in 0..MaxRows :
          \E cost \in [1..n -> Costs] : \E header \in Headers :
            result' = [cost |-> cost, header |-> header, taken |-> 0]
    BY <1>1 DEF Publish
  <2>b. PICK cost \in [1..n -> Costs] : \E header \in Headers :
          result' = [cost |-> cost, header |-> header, taken |-> 0]
    BY <2>a
  <2>1. PICK header \in Headers : result' = [cost |-> cost, header |-> header, taken |-> 0]
    BY <2>b
  <2>2. cost \in CostList
    <3>a. Costs \subseteq Nat \ {0} /\ n \in Nat
      BY LimitsAssumption, BoundsAssumption
    <3>b. \A i \in 1..n : cost[i] \in Nat \ {0}
      BY <3>a
    <3>1. cost \in [1..n -> Nat \ {0}]
      BY <3>b, Zenon
    <3> QED BY <3>a, <3>1 DEF CostList
  <2>3. result' \in ResultType
    BY <2>1, <2>2, LimitsAssumption DEF ResultType
  <2> QED BY <2>3, <2>4, <2>5, <2>6
<1>2. CASE TakeGarbage
  BY <1>2, RowsAreRows DEF TakeGarbage, SessionType, WorkerType
<1>3. CASE DropRow
  BY <1>3, RowsAreRows DEF DropRow, WorkerType
<1>4. CASE DropResult
  BY <1>4 DEF DropResult, WorkerType
<1>5. CASE Reset
  BY <1>5 DEF Reset, WorkerType, SessionType
<1>6. CASE Call
  <2>1. fetch' \in FetchType
    <3>1. PICK batch \in BOOLEAN, maxRows \in Nat \ {0}, bytes \in Nat \ {0} :
            fetch' = [NoFetch EXCEPT !.pc = "begin", !.op = op, !.batch = batch,
                                     !.maxRows = maxRows, !.bytes = bytes, !.remaining = bytes]
      BY <1>6, LimitsAssumption DEF Call
    <3>2. NoFetch \in FetchType
      BY ListsAreLists DEF NoFetch, FetchType, FetchSteps, Faults
    <3> QED BY <3>1, <3>2 DEF FetchType, FetchSteps
  <2> QED BY <1>6, <2>1 DEF Call
<1>7. CASE FetchBegin
  <2>1. fetch' \in FetchType
    <3>1. \/ \E pc \in {"failed", "ended"}, fault \in {"row_limit", "unavailable"} :
                fetch' = [fetch EXCEPT !.pc = pc, !.fault = fault]
          \/ fetch' = [fetch EXCEPT !.pc = "header"]
      BY <1>7 DEF FetchBegin, FailWith, Goto
    <3> QED BY <3>1 DEF FetchType, FetchSteps, Faults
  <2>2. session' \in SessionType
    BY <1>7 DEF FetchBegin, SessionType
  <2> QED BY <1>7, <2>1, <2>2 DEF FetchBegin
<1>8. CASE Header
  <2>1. fetch' \in FetchType
    <3>1. CASE \E fault \in RowErrors : fetch' = [fetch EXCEPT !.pc = "failed", !.fault = fault]
      BY <3>1 DEF FetchType, FetchSteps, Faults
    <3>2. CASE /\ result.header <= fetch.remaining
               /\ fetch' = [fetch EXCEPT !.pc = "next", !.remaining = @ - result.header]
      <4> DEFINE left == fetch.remaining - result.header
      <4>1. left \in Nat /\ fetch' = [fetch EXCEPT !.pc = "next", !.remaining = left]
        BY <3>2 DEF FetchType, ResultType
      <4> HIDE DEF left
      <4> QED BY <4>1 DEF FetchType, FetchSteps
    <3> QED BY <1>8, <3>1, <3>2 DEF Header, Interrupted, FailWith, RowErrors
  <2> QED BY <1>8, <2>1 DEF Header
<1>9. CASE NextRow
  <2>1. fetch' \in FetchType
    <3>1. \/ fetch' = [fetch EXCEPT !.pc = "encode", !.where = session.rowsRead]
          \/ fetch' = [fetch EXCEPT !.pc = "finished", !.where = session.rowsRead]
      BY <1>9 DEF NextRow
    <3>2. session.rowsRead \in Nat
      BY DEF SessionType
    <3> QED BY <3>1, <3>2 DEF FetchType, FetchSteps
  <2>3. session' \in SessionType
    <3> DEFINE next == session.rowsRead + 1
    <3>1. \/ session' = [session EXCEPT !.unread = NoRow, !.rowsRead = next]
          \/ session' = session
      BY <1>9 DEF NextRow
    <3>2. next \in Nat /\ NoRow \in AnyRow
      BY RowsAreRows DEF SessionType
    <3> HIDE DEF next
    <3> QED BY <3>1, <3>2 DEF SessionType
  <2>2. result' \in ResultType /\ row' \in AnyRow
    BY <1>9, RowsAreRows DEF NextRow, ResultType, SessionType
  <2> QED BY <1>9, <2>1, <2>2, <2>3 DEF NextRow
<1>10. CASE NextRowFails
  BY <1>10, RowsAreRows DEF NextRowFails, FetchType, FetchSteps, Faults, RowErrors, SessionType
<1>11. CASE BatchStops
  BY <1>11 DEF BatchStops, Goto, FetchType, FetchSteps
<1>12. CASE RowFits
  <2>1. Cost \in Nat
    BY <1>12, RowHasCost DEF RowFits
  <2>2. fetch' \in FetchType
    <3>1. Append(fetch.rows, row) \in RowList
      BY ListsAreLists DEF FetchType
    <3>2. fetch.remaining - Cost \in Nat
      BY <1>12, <2>1 DEF RowFits, FetchType
    <3>3. fetch' = [fetch EXCEPT !.pc = "next", !.remaining = fetch.remaining - Cost,
                                 !.rows = Append(fetch.rows, row)]
      BY <1>12 DEF RowFits
    <3> QED BY <3>1, <3>2, <3>3 DEF FetchType, FetchSteps
  <2> QED BY <1>12, <2>2 DEF RowFits
<1>13. CASE RowDoesNotFit
  <2>1. fetch' \in FetchType
    BY <1>13 DEF RowDoesNotFit, PutBack, FailWith, Goto, FetchType, FetchSteps, Faults, RowErrors
  <2>2. session' \in SessionType /\ row' \in AnyRow
    <3>1. CASE PutBack
      <4> DEFINE back == session.rowsRead - 1
      <4>1. session' = [session EXCEPT !.unread = row, !.rowsRead = back] /\ row' = NoRow
        BY <3>1 DEF PutBack
      <4>2. back \in Nat /\ NoRow \in AnyRow
        BY <3>1, RowsAreRows DEF PutBack, SessionType
      <4> HIDE DEF back
      <4> QED BY <4>1, <4>2 DEF SessionType
    <3> QED BY <1>13, <3>1 DEF RowDoesNotFit
  <2> QED BY <1>13, <2>1, <2>2 DEF RowDoesNotFit
<1>14. CASE RowFails
  BY <1>14 DEF RowFails, Interrupted, FailWith, FetchType, FetchSteps, Faults, RowErrors
<1>15. CASE Settle
  <2>1. fetch' \in FetchType
    BY <1>15 DEF Settle, FetchType, FetchSteps, Faults
  <2> QED BY <1>15, <2>1, FinishedType DEF Settle
<1>16. CASE FetchEnd
  BY <1>16, RowsAreRows DEF FetchEnd, Goto, FetchType, FetchSteps, SessionType
<1>17. CASE Reply
  <2>1. fetch' \in FetchType /\ fetch.rows \in RowList /\ fetch.fault \in Faults
    BY <1>17 DEF Reply, Goto, FetchType, FetchSteps
  <2>2. session' \in SessionType
    BY <1>17, FinishedType DEF Reply
  <2>3. got' \in RowList /\ answer' \in Answers
    BY <1>17, <2>1, ListsAreLists DEF Reply, Answers
  <2> QED BY <1>17, <2>1, <2>2, <2>3 DEF Reply
<1>18. CASE Abandon
  BY <1>18, FinishedType DEF Abandon, Answers
<1>19. CASE OwnerFinishes
  BY <1>19, FinishedType DEF OwnerFinishes, Answers
<1>20. CASE Cancel
  BY <1>20 DEF Cancel
<1>21. CASE UNCHANGED vars
  BY <1>21 DEF vars
<1> QED
  BY <1>1, <1>2, <1>3, <1>4, <1>5, <1>6, <1>7, <1>8, <1>9, <1>10, <1>11, <1>12, <1>13, <1>14,
     <1>15, <1>16, <1>17, <1>18, <1>19, <1>20, <1>21 DEF Next, WorkerStep, FetchStep
-----------------------------------------------------------------------------
(***************************************************************************)
(* Preservation, part by part.                                             *)
(***************************************************************************)

\* The session has the latest result until the worker takes it, and never while a cursor is open.
LEMMA SessionInvKept ==
  ASSUME TypeOK, Invariant, [Next]_vars
  PROVE  SessionInv'
<1>t. session \in SessionType /\ worker \in WorkerType /\ fetch \in FetchType /\ op \in Nat
  BY TypesByRecord
<1>i. SessionInv
  BY DEF Invariant
<1> USE DEF SessionInv, Reading, At
<1>1. CASE Publish
  BY <1>1, <1>t, <1>i DEF Publish, SessionType, WorkerType, FetchType
<1>2. CASE TakeGarbage
  BY <1>2, <1>t, <1>i DEF TakeGarbage, SessionType, WorkerType, FetchType
<1>3. CASE DropRow
  BY <1>3, <1>t, <1>i DEF DropRow, SessionType, WorkerType, FetchType
<1>4. CASE DropResult
  BY <1>4, <1>t, <1>i DEF DropResult, SessionType, WorkerType, FetchType
<1>5. CASE Reset
  BY <1>5, <1>t, <1>i DEF Reset, SessionType, WorkerType, FetchType
<1>6. CASE Call
  BY <1>6, <1>t, <1>i DEF Call, NoFetch, SessionType, WorkerType, FetchType
<1>7. CASE FetchBegin
  BY <1>7, <1>t, <1>i DEF FetchBegin, FailWith, Goto, SessionType, WorkerType, FetchType
<1>8. CASE Header
  BY <1>8, <1>t, <1>i DEF Header, Interrupted, FailWith, SessionType, WorkerType, FetchType
<1>9. CASE NextRow
  BY <1>9, <1>t, <1>i DEF NextRow, SessionType, WorkerType, FetchType
<1>10. CASE NextRowFails
  BY <1>10, <1>t, <1>i DEF NextRowFails, SessionType, WorkerType, FetchType
<1>11. CASE BatchStops
  BY <1>11, <1>t, <1>i DEF BatchStops, Goto, SessionType, WorkerType, FetchType
<1>12. CASE RowFits
  BY <1>12, <1>t, <1>i DEF RowFits, SessionType, WorkerType, FetchType
<1>13. CASE RowDoesNotFit
  BY <1>13, <1>t, <1>i DEF RowDoesNotFit, PutBack, FailWith, Goto, SessionType, WorkerType,
     FetchType
<1>14. CASE RowFails
  BY <1>14, <1>t, <1>i DEF RowFails, Interrupted, FailWith, SessionType, WorkerType, FetchType
<1>15. CASE Settle
  BY <1>15, <1>t, <1>i DEF Settle, Finished, SessionType, WorkerType, FetchType
<1>16. CASE FetchEnd
  BY <1>16, <1>t, <1>i DEF FetchEnd, Goto, SessionType, WorkerType, FetchType
<1>17. CASE Reply
  BY <1>17, <1>t, <1>i DEF Reply, Finished, Goto, SessionType, WorkerType, FetchType
<1>18. CASE Abandon
  BY <1>18, <1>t, <1>i DEF Abandon, Finished, SessionType, WorkerType, FetchType
<1>19. CASE OwnerFinishes
  BY <1>19, <1>t, <1>i DEF OwnerFinishes, Finished, SessionType, WorkerType, FetchType
<1>20. CASE Cancel
  BY <1>20, <1>t, <1>i DEF Cancel, SessionType, WorkerType, FetchType
<1>21. CASE UNCHANGED vars
  BY <1>21, <1>t, <1>i DEF vars, SessionInv
<1> QED
  BY <1>1, <1>2, <1>3, <1>4, <1>5, <1>6, <1>7, <1>8, <1>9, <1>10, <1>11, <1>12, <1>13, <1>14,
     <1>15, <1>16, <1>17, <1>18, <1>19, <1>20, <1>21 DEF Next, WorkerStep, FetchStep

\* A borrowed row goes with its result.
LEMMA RowInvKept ==
  ASSUME TypeOK, Invariant, [Next]_vars
  PROVE  RowInv'
<1>t. session \in SessionType /\ worker \in WorkerType /\ fetch \in FetchType /\ op \in Nat
  BY TypesByRecord
<1>i. SessionInv /\ RowInv
  BY DEF Invariant
<1>n. \A o, i : o \in Nat => Row(o, i)[1] = o
  BY DEF Row
<1> USE DEF SessionInv, RowInv, Reading, At
<1>1. CASE Publish
  BY <1>1, <1>t, <1>i DEF Publish, SessionType, WorkerType, FetchType
<1>2. CASE TakeGarbage
  <2>1. session.of = op
    BY <1>2, <1>i, <1>t DEF TakeGarbage
  <2>2. session.unread # NoRow => session.unread[1] = op
    BY <2>1, <1>i, <1>t, <1>n DEF Invariant, PositionInv
  <2> QED BY <1>2, <1>t, <1>i, <2>1, <2>2 DEF TakeGarbage, SessionType, WorkerType
<1>3. CASE DropRow
  BY <1>3, <1>t, <1>i DEF DropRow, SessionType, WorkerType, FetchType
<1>4. CASE DropResult
  BY <1>4, <1>t, <1>i DEF DropResult, SessionType, WorkerType, FetchType
<1>5. CASE Reset
  BY <1>5, <1>t, <1>i DEF Reset, SessionType, WorkerType, FetchType
<1>6. CASE Call
  BY <1>6, <1>t, <1>i DEF Call, NoFetch, SessionType, WorkerType, FetchType
<1>7. CASE FetchBegin
  BY <1>7, <1>t, <1>i DEF FetchBegin, FailWith, Goto, SessionType, WorkerType, FetchType
<1>8. CASE Header
  BY <1>8, <1>t, <1>i DEF Header, Interrupted, FailWith, SessionType, WorkerType, FetchType
<1>9. CASE NextRow
  <2>1. session.of = op /\ op # 0 /\ session.fetching
    BY <1>9, <1>i, <1>t DEF NextRow
  <2>2. session.unread # NoRow => session.unread = Row(op, session.rowsRead + 1)
    BY <2>1 DEF Invariant, PositionInv
  <2>3. row' # NoRow => row'[1] = op
    BY <1>9, <1>t, <1>n, <2>2 DEF NextRow
  <2> QED BY <1>9, <1>t, <1>i, <2>1, <2>3 DEF NextRow, SessionType, FetchType
<1>10. CASE NextRowFails
  BY <1>10, <1>t, <1>i DEF NextRowFails, SessionType, WorkerType, FetchType
<1>11. CASE BatchStops
  BY <1>11, <1>t, <1>i DEF BatchStops, Goto, SessionType, WorkerType, FetchType
<1>12. CASE RowFits
  BY <1>12, <1>t, <1>i DEF RowFits, SessionType, WorkerType, FetchType
<1>13. CASE RowDoesNotFit
  BY <1>13, <1>t, <1>i DEF RowDoesNotFit, PutBack, FailWith, Goto, SessionType, WorkerType,
     FetchType
<1>14. CASE RowFails
  BY <1>14, <1>t, <1>i DEF RowFails, Interrupted, FailWith, SessionType, WorkerType, FetchType
<1>15. CASE Settle
  BY <1>15, <1>t, <1>i DEF Settle, Finished, SessionType, WorkerType, FetchType
<1>16. CASE FetchEnd
  BY <1>16, <1>t, <1>i DEF FetchEnd, Goto, SessionType, WorkerType, FetchType
<1>17. CASE Reply
  BY <1>17, <1>t, <1>i DEF Reply, Finished, Goto, SessionType, WorkerType, FetchType
<1>18. CASE Abandon
  BY <1>18, <1>t, <1>i DEF Abandon, Finished, SessionType, WorkerType, FetchType
<1>19. CASE OwnerFinishes
  BY <1>19, <1>t, <1>i DEF OwnerFinishes, Finished, SessionType, WorkerType, FetchType
<1>20. CASE Cancel
  BY <1>20, <1>t, <1>i DEF Cancel, SessionType, WorkerType, FetchType
<1>21. CASE UNCHANGED vars
  BY <1>21, <1>t, <1>i DEF vars, RowInv
<1> QED
  BY <1>1, <1>2, <1>3, <1>4, <1>5, <1>6, <1>7, <1>8, <1>9, <1>10, <1>11, <1>12, <1>13, <1>14,
     <1>15, <1>16, <1>17, <1>18, <1>19, <1>20, <1>21 DEF Next, WorkerStep, FetchStep

\* The position follows the engine, less the row put back.
LEMMA PositionInvKept ==
  ASSUME TypeOK, Invariant, [Next]_vars
  PROVE  PositionInv'
<1>t. /\ session \in SessionType /\ worker \in WorkerType /\ fetch \in FetchType /\ op \in Nat
      /\ result \in ResultType
  BY TypesByRecord
<1>i. SessionInv /\ RowInv /\ PositionInv
  BY DEF Invariant
<1>n. op # 0 => \A i : Row(op, i) # NoRow
  BY DEF Row, NoRow
<1>m. Len(result.cost) \in Nat
  BY <1>t, ListsAreLists DEF ResultType
<1> USE DEF SessionInv, RowInv, PositionInv, Reading, At, Total
<1>1. CASE Publish
  <2>1. PICK n \in 0..MaxRows :
          \E cost \in [1..n -> Costs] : \E header \in Headers :
            result' = [cost |-> cost, header |-> header, taken |-> 0]
    BY <1>1 DEF Publish
  <2>2. PICK cost \in [1..n -> Costs] : \E header \in Headers :
          result' = [cost |-> cost, header |-> header, taken |-> 0]
    BY <2>1
  <2>3. result'.taken = 0 /\ Len(result'.cost) = n /\ n \in Nat
    BY <2>2, BoundsAssumption
  <2>4. session.unread = NoRow /\ ~session.fetching
    BY <1>1, <1>t, <1>i DEF Publish
  <2> QED BY <1>1, <1>t, <1>i, <2>3, <2>4 DEF Publish, SessionType
<1>2. CASE TakeGarbage
  BY <1>2, <1>t, <1>i, <1>n, <1>m DEF TakeGarbage, SessionType, WorkerType, FetchType, ResultType
<1>3. CASE DropRow
  BY <1>3, <1>t, <1>i, <1>n, <1>m DEF DropRow, SessionType, WorkerType, FetchType, ResultType
<1>4. CASE DropResult
  BY <1>4, <1>t, <1>i, <1>n, <1>m DEF DropResult, SessionType, WorkerType, FetchType, ResultType
<1>5. CASE Reset
  BY <1>5, <1>t, <1>i, <1>n, <1>m DEF Reset, SessionType, WorkerType, FetchType, ResultType
<1>6. CASE Call
  BY <1>6, <1>t, <1>i, <1>n, <1>m DEF Call, NoFetch, SessionType, WorkerType, FetchType,
     ResultType
<1>7. CASE FetchBegin
  BY <1>7, <1>t, <1>i, <1>n, <1>m DEF FetchBegin, FailWith, Goto, SessionType, WorkerType,
     FetchType, ResultType
<1>8. CASE Header
  BY <1>8, <1>t, <1>i, <1>n, <1>m DEF Header, Interrupted, FailWith, SessionType, WorkerType,
     FetchType, ResultType
<1>9. CASE NextRow
  <2>1. /\ session.of = op /\ op # 0 /\ session.fetching
        /\ session.rowsRead \in Nat /\ result.taken \in Nat
    BY <1>9, <1>i, <1>t DEF NextRow, SessionType, ResultType
  <2>2. CASE session.unread # NoRow
    <3>1. /\ row' = Row(op, session.rowsRead + 1)
          /\ result' = result /\ result.taken = session.rowsRead + 1
      BY <1>9, <1>t, <1>i, <2>1, <2>2 DEF NextRow, ResultType
    <3>2. session'.rowsRead = session.rowsRead + 1 /\ session'.unread = NoRow /\ session'.of = op
      BY <1>9, <1>t, <2>1, <2>2 DEF NextRow, SessionType
    <3>4. fetch'.where = session.rowsRead /\ op' = op
      BY <1>9, <1>t, <2>2 DEF NextRow, FetchType
    <3> QED BY <1>i, <2>1, <3>1, <3>2, <3>4
  <2>3. CASE session.unread = NoRow /\ result.taken < Total
    <3>1. row' = Row(op, session.rowsRead + 1) /\ result.taken = session.rowsRead
      BY <1>9, <1>t, <1>i, <2>1, <2>3 DEF NextRow
    <3>2. session'.rowsRead = session.rowsRead + 1 /\ session'.unread = NoRow /\ session'.of = op
      BY <1>9, <1>t, <2>1, <2>3 DEF NextRow, SessionType
    <3>3. result'.taken = result.taken + 1 /\ result'.cost = result.cost
      BY <1>9, <1>t, <2>1, <2>3 DEF NextRow, ResultType
    <3>4. fetch'.where = session.rowsRead /\ op' = op
      BY <1>9, <1>t, <2>3 DEF NextRow, FetchType
    <3> QED BY <1>m, <2>1, <2>3, <3>1, <3>2, <3>3, <3>4
  <2>4. CASE session.unread = NoRow /\ ~(result.taken < Total)
    BY <1>9, <1>t, <1>i, <2>1, <2>4 DEF NextRow, FetchType
  <2> QED BY <2>2, <2>3, <2>4
<1>10. CASE NextRowFails
  BY <1>10, <1>t, <1>i, <1>n, <1>m DEF NextRowFails, SessionType, WorkerType, FetchType,
     ResultType
<1>11. CASE BatchStops
  BY <1>11, <1>t, <1>i, <1>n, <1>m DEF BatchStops, Goto, SessionType, WorkerType, FetchType,
     ResultType
<1>12. CASE RowFits
  BY <1>12, <1>t, <1>i, <1>n, <1>m DEF RowFits, SessionType, WorkerType, FetchType, ResultType
<1>13. CASE RowDoesNotFit
  <2>1. CASE PutBack
    <3>1. /\ session.of = op /\ op # 0
          /\ row = Row(op, session.rowsRead) /\ session.rowsRead = result.taken
      BY <1>13, <1>i, <1>t DEF RowDoesNotFit
    <3>2. /\ session'.of = op /\ session'.unread = row /\ session'.rowsRead = session.rowsRead - 1
          /\ session'.rowsRead \in Nat
      BY <2>1, <3>1, <1>t DEF PutBack, SessionType
    <3>3. fetch'.pc = "finished" /\ result' = result /\ op' = op
      BY <1>13, <2>1, <1>t DEF RowDoesNotFit, PutBack, Goto, FetchType
    <3> QED BY <1>t, <1>i, <1>n, <1>m, <3>1, <3>2, <3>3 DEF SessionType, ResultType
  <2>2. CASE ~PutBack
    BY <1>13, <1>t, <1>i, <2>2 DEF RowDoesNotFit, FailWith, FetchType
  <2> QED BY <2>1, <2>2
<1>14. CASE RowFails
  BY <1>14, <1>t, <1>i, <1>n, <1>m DEF RowFails, Interrupted, FailWith, SessionType, WorkerType,
     FetchType, ResultType
<1>15. CASE Settle
  BY <1>15, <1>t, <1>i, <1>n, <1>m DEF Settle, Finished, SessionType, WorkerType, FetchType,
     ResultType
<1>16. CASE FetchEnd
  BY <1>16, <1>t, <1>i, <1>n, <1>m DEF FetchEnd, Goto, SessionType, WorkerType, FetchType,
     ResultType
<1>17. CASE Reply
  BY <1>17, <1>t, <1>i, <1>n, <1>m DEF Reply, Finished, Goto, SessionType, WorkerType, FetchType,
     ResultType
<1>18. CASE Abandon
  BY <1>18, <1>t, <1>i, <1>n, <1>m DEF Abandon, Finished, SessionType, WorkerType, FetchType,
     ResultType
<1>19. CASE OwnerFinishes
  BY <1>19, <1>t, <1>i, <1>n, <1>m DEF OwnerFinishes, Finished, SessionType, WorkerType, FetchType,
     ResultType
<1>20. CASE Cancel
  BY <1>20, <1>t, <1>i, <1>n, <1>m DEF Cancel, SessionType, WorkerType, FetchType, ResultType
<1>21. CASE UNCHANGED vars
  BY <1>21, <1>t, <1>i, <1>n, <1>m DEF vars, PositionInv
<1> QED
  BY <1>1, <1>2, <1>3, <1>4, <1>5, <1>6, <1>7, <1>8, <1>9, <1>10, <1>11, <1>12, <1>13, <1>14,
     <1>15, <1>16, <1>17, <1>18, <1>19, <1>20, <1>21 DEF Next, WorkerStep, FetchStep

\* How a call ends follows from what it has read.
LEMMA CallInvKept ==
  ASSUME TypeOK, Invariant, [Next]_vars
  PROVE  CallInv'
<1>t. /\ session \in SessionType /\ fetch \in FetchType /\ op \in Nat /\ result \in ResultType
  BY TypesByRecord
<1>i. SessionInv /\ CallInv
  BY DEF Invariant
<1> USE DEF Current, Complete, Total
<1>1. CASE Publish
  <2>1. op' # fetch.op /\ fetch' = fetch /\ ~session.fetching
    BY <1>1, <1>t, <1>i DEF Publish, SessionInv, FetchType
  <2> QED BY <1>i, <2>1 DEF SessionInv, CallInv, Reading, At
<1>2. CASE TakeGarbage
  <2>1. /\ fetch' = fetch /\ op' = op /\ result' = result /\ got' = got
        /\ answer' = "open" => answer = "open"
        /\ session'.rowsRead = session.rowsRead
    BY <1>2, <1>t DEF TakeGarbage, SessionType
  <2> QED BY <1>i, <2>1 DEF CallInv, At
<1>3. CASE DropRow
  <2>1. /\ fetch' = fetch /\ op' = op /\ result' = result /\ got' = got
        /\ answer' = "open" => answer = "open"
        /\ session'.rowsRead = session.rowsRead
    BY <1>3, <1>t DEF DropRow, SessionType
  <2> QED BY <1>i, <2>1 DEF CallInv, At
<1>4. CASE DropResult
  <2>1. /\ fetch' = fetch /\ op' = op /\ result' = result /\ got' = got
        /\ answer' = "open" => answer = "open"
        /\ session'.rowsRead = session.rowsRead
    BY <1>4, <1>t DEF DropResult, SessionType
  <2> QED BY <1>i, <2>1 DEF CallInv, At
<1>5. CASE Reset
  <2>1. /\ fetch' = fetch /\ op' = op /\ result' = result /\ got' = got
        /\ answer' = "open" => answer = "open"
        /\ session'.rowsRead = session.rowsRead
    BY <1>5, <1>t DEF Reset, SessionType
  <2> QED BY <1>i, <2>1 DEF CallInv, At
<1>6. CASE Call
  <2>1. PICK batch \in BOOLEAN, maxRows \in RowLimits, bytes \in ByteLimits :
          fetch' = [NoFetch EXCEPT !.pc = "begin", !.op = op, !.batch = batch,
                                   !.maxRows = maxRows, !.bytes = bytes, !.remaining = bytes]
    BY <1>6 DEF Call
  <2>2. /\ fetch'.pc = "begin" /\ fetch'.fault = "none" /\ fetch'.rows = <<>>
        /\ fetch'.remaining = fetch'.bytes
    BY <2>1 DEF NoFetch
  <2> QED BY <2>2 DEF CallInv, At
<1>7. CASE FetchBegin
  <2>1. /\ fetch'.pc \in {"header", "failed", "ended"}
        /\ fetch'.pc = "header" => fetch'.fault = fetch.fault
        /\ fetch'.pc = "failed" => fetch'.fault \in {"row_limit", "unavailable"}
        /\ fetch'.pc = "ended" => fetch'.fault = "unavailable"
        /\ fetch'.rows = fetch.rows
        /\ fetch'.remaining = fetch.remaining
        /\ fetch'.op = fetch.op /\ fetch'.batch = fetch.batch /\ fetch'.bytes = fetch.bytes
    BY <1>7, <1>t DEF FetchBegin, FailWith, Goto, FetchType
  <2>2. /\ op' = op /\ result' = result /\ got' = got /\ answer' = answer
        /\ session'.rowsRead = session.rowsRead
    BY <1>7, <1>t DEF FetchBegin, SessionType
  <2> QED BY <1>7, <1>i, <2>1, <2>2 DEF FetchBegin, SessionInv, CallInv, Reading, At, RowErrors
<1>8. CASE Header
  <2>1. CASE \E fault \in {"conversion", "cancelled", "payload_limit"} : FailWith(fault)
    BY <1>8, <1>t, <1>i, <2>1 DEF Header, FailWith, FetchType, SessionInv, CallInv, Reading, At,
       RowErrors
  <2>2. CASE /\ result.header <= fetch.remaining
             /\ fetch' = [fetch EXCEPT !.pc = "next", !.remaining = @ - result.header]
    <3>1. fetch'.remaining + result.header = fetch.remaining
      BY <1>t, <2>2 DEF FetchType, ResultType
    <3>2. /\ fetch'.pc = "next" /\ fetch'.fault = fetch.fault /\ fetch'.rows = fetch.rows
          /\ fetch'.op = fetch.op /\ fetch'.batch = fetch.batch /\ fetch'.bytes = fetch.bytes
      BY <1>t, <2>2 DEF FetchType
    <3> QED BY <1>8, <1>i, <3>1, <3>2 DEF Header, SessionInv, CallInv, Reading, At
  <2> QED BY <1>8, <2>1, <2>2 DEF Header, Interrupted
<1>9. CASE NextRow
  <2>1. /\ fetch'.pc \in {"encode", "finished"}
        /\ fetch'.fault = fetch.fault
        /\ fetch'.rows = fetch.rows
        /\ fetch'.remaining = fetch.remaining
        /\ fetch'.op = fetch.op /\ fetch'.batch = fetch.batch /\ fetch'.bytes = fetch.bytes
    BY <1>9, <1>t DEF NextRow, FetchType
  <2>2. /\ op' = op /\ got' = got /\ answer' = answer
        /\ result'.cost = result.cost /\ result'.header = result.header
    BY <1>9, <1>t DEF NextRow, ResultType
  <2>3. fetch'.pc = "finished" => session'.rowsRead = session.rowsRead /\ session.rowsRead = Total
    <3>1. CASE session.unread # NoRow \/ result.taken < Total
      BY <1>9, <1>t, <3>1 DEF NextRow, FetchType
    <3>2. CASE ~(session.unread # NoRow \/ result.taken < Total)
      <4>1. session.of # 0 /\ result.taken <= Total /\ result.taken \in Nat /\ Total \in Nat
        BY <1>9, <1>i, <1>t, ListsAreLists DEF NextRow, SessionInv, Reading, At, Invariant,
           PositionInv, ResultType
      <4>2. session.rowsRead = result.taken
        BY <3>2, <4>1 DEF Invariant, PositionInv
      <4> QED BY <1>9, <3>2, <4>1, <4>2 DEF NextRow
    <3> QED BY <3>1, <3>2
  <2> QED BY <1>9, <1>i, <2>1, <2>2, <2>3 DEF NextRow, SessionInv, CallInv, Reading, At
<1>10. CASE NextRowFails
  BY <1>10, <1>t, <1>i DEF NextRowFails, FetchType, SessionInv, CallInv, Reading, At, RowErrors
<1>11. CASE BatchStops
  <2>1. /\ fetch'.pc = "finished"
        /\ fetch'.fault = fetch.fault
        /\ fetch'.rows = fetch.rows
        /\ fetch'.remaining = fetch.remaining
        /\ fetch'.op = fetch.op /\ fetch'.batch = fetch.batch /\ fetch'.bytes = fetch.bytes
    BY <1>11, <1>t DEF BatchStops, Goto, FetchType
  <2>2. fetch.batch /\ fetch.rows # <<>>
    <3>1. fetch.batch /\ Len(fetch.rows) >= fetch.maxRows
      BY <1>11 DEF BatchStops, BatchFull
    <3>2. fetch.maxRows \in Nat \ {0}
      BY <1>t DEF FetchType
    <3>3. Len(<<>>) = 0
      BY EmptySeq
    <3> QED BY <3>1, <3>2, <3>3
  <2> QED BY <1>11, <1>i, <2>1, <2>2 DEF BatchStops, SessionInv, CallInv, Reading, At
<1>12. CASE RowFits
  <2>1. fetch'.rows # <<>>
    BY <1>12, <1>t, TypesByRecord, AppendProperties DEF RowFits, FetchType, RowList
  <2>2. /\ fetch'.pc = "next" /\ fetch'.fault = fetch.fault /\ fetch'.op = fetch.op
        /\ fetch'.batch = fetch.batch /\ fetch'.bytes = fetch.bytes
    BY <1>12, <1>t DEF RowFits, FetchType
  <2> QED BY <1>12, <1>i, <2>1, <2>2 DEF RowFits, SessionInv, CallInv, Reading, At
<1>13. CASE RowDoesNotFit
  <2>1. CASE fetch.batch /\ fetch.rows # <<>>
    <3>1. /\ fetch'.pc = "finished" /\ fetch'.fault = fetch.fault /\ fetch'.rows = fetch.rows
          /\ fetch'.op = fetch.op /\ fetch'.batch = fetch.batch
      BY <1>13, <1>t, <2>1 DEF RowDoesNotFit, PutBack, Goto, FetchType
    <3> QED BY <1>13, <1>i, <2>1, <3>1 DEF RowDoesNotFit, SessionInv, CallInv, Reading, At
  <2>2. CASE ~(fetch.batch /\ fetch.rows # <<>>)
    <3>1. /\ fetch'.pc = "failed" /\ fetch'.rows = fetch.rows /\ fetch'.op = fetch.op
          /\ fetch'.fault = IF fetch.batch THEN "row_too_large" ELSE "payload_limit"
          /\ fetch'.bytes = fetch.bytes
      BY <1>13, <1>t, <2>2 DEF RowDoesNotFit, FailWith, FetchType
    <3>2. ASSUME fetch.batch, answer = "open", Current
          PROVE  result.header + result.cost[Len(got) + 1] > fetch.bytes
      <4>1. Cost > fetch.remaining /\ Cost = result.cost[session.rowsRead] /\ Cost \in Nat
        BY <1>13, RowHasCost DEF RowDoesNotFit
      <4>2. Len(got) + Len(fetch.rows) = session.rowsRead - 1
        BY <1>13, <1>i, <3>2 DEF RowDoesNotFit, Invariant, BatchInv, CallInv, At
      <4>3. Len(fetch.rows) = 0 /\ Len(got) \in Nat /\ session.rowsRead \in Nat
        BY <2>2, <3>2, <1>t, TypesByRecord, ListsAreLists, EmptySeq DEF SessionType
      <4>4. fetch.remaining + result.header = fetch.bytes
        BY <1>13, <1>i, <2>2, <3>2 DEF RowDoesNotFit, CallInv, At
      <4>5. session.rowsRead = Len(got) + 1
        BY <4>2, <4>3
      <4>6. fetch.remaining \in Nat /\ result.header \in Nat
        BY <1>t DEF FetchType, ResultType
      <4> QED BY <4>1, <4>4, <4>5, <4>6
    <3>3. /\ op' = op /\ got' = got /\ answer' = answer /\ result' = result /\ session' = session
      BY <1>13, <2>2 DEF RowDoesNotFit
    <3> QED BY <1>13, <1>i, <2>2, <3>1, <3>2, <3>3 DEF RowDoesNotFit, SessionInv, CallInv,
           Reading, At, RowErrors
  <2> QED BY <2>1, <2>2
<1>14. CASE RowFails
  BY <1>14, <1>t, <1>i DEF RowFails, Interrupted, FailWith, FetchType, SessionInv, CallInv,
     Reading, At, RowErrors
<1>15. CASE Settle
  <2>1. /\ fetch'.pc = "closing"
        /\ fetch'.fault = (IF fetch.batch /\ ~Complete THEN "none" ELSE "done")
        /\ fetch'.rows = fetch.rows
        /\ fetch'.remaining = fetch.remaining
        /\ fetch'.op = fetch.op /\ fetch'.batch = fetch.batch /\ fetch'.bytes = fetch.bytes
    BY <1>15, <1>t DEF Settle, FetchType
  <2>2. /\ op' = op /\ result' = result /\ got' = got /\ answer' = answer
        /\ session'.rowsRead = session.rowsRead
    BY <1>15, <1>t DEF Settle, Finished, SessionType
  <2>3. session.rowsRead <= Total /\ session.rowsRead \in Nat /\ Total \in Nat
    <3>1. session.of # 0 /\ result.taken <= Total
      BY <1>15, <1>i DEF Settle, SessionInv, Reading, At, Invariant, PositionInv
    <3>2. /\ session.rowsRead \in Nat /\ result.taken \in Nat /\ Total \in Nat
      BY <1>t, ListsAreLists DEF SessionType, ResultType
    <3> QED BY <3>1, <3>2 DEF Invariant, PositionInv
  <2> QED BY <1>15, <1>i, <2>1, <2>2, <2>3 DEF Settle, SessionInv, CallInv, Reading, At
<1>16. CASE FetchEnd
  <2>1. /\ fetch'.pc = "ended"
        /\ fetch'.fault = fetch.fault
        /\ fetch'.rows = fetch.rows
        /\ fetch'.remaining = fetch.remaining
        /\ fetch'.op = fetch.op /\ fetch'.batch = fetch.batch /\ fetch'.bytes = fetch.bytes
    BY <1>16, <1>t DEF FetchEnd, Goto, FetchType
  <2>2. /\ op' = op /\ result' = result /\ got' = got /\ answer' = answer
        /\ session'.rowsRead = session.rowsRead
    BY <1>16, <1>t DEF FetchEnd, SessionType
  <2> QED BY <1>16, <1>i, <2>1, <2>2 DEF FetchEnd, SessionInv, CallInv, Reading, At, RowErrors
<1>17. CASE Reply
  <2>1. /\ fetch'.pc = "idle"
        /\ fetch'.fault = fetch.fault
        /\ fetch'.rows = fetch.rows
        /\ fetch'.remaining = fetch.remaining
        /\ fetch'.op = fetch.op /\ fetch'.batch = fetch.batch /\ fetch'.bytes = fetch.bytes
    BY <1>17, <1>t DEF Reply, Goto, FetchType
  <2> QED BY <2>1 DEF CallInv, At
<1>18. CASE Abandon
  <2>1. /\ fetch' = fetch /\ op' = op /\ result' = result /\ got' = got
        /\ answer' = "open" => answer = "open"
        /\ session'.rowsRead = session.rowsRead
    BY <1>18, <1>t DEF Abandon, Finished, SessionType
  <2> QED BY <1>i, <2>1 DEF CallInv, At
<1>19. CASE OwnerFinishes
  <2>1. /\ fetch' = fetch /\ op' = op /\ result' = result /\ got' = got
        /\ answer' = "open" => answer = "open"
        /\ session'.rowsRead = session.rowsRead
    BY <1>19, <1>t DEF OwnerFinishes, Finished, SessionType
  <2> QED BY <1>i, <2>1 DEF CallInv, At
<1>20. CASE Cancel
  <2>1. /\ fetch' = fetch /\ op' = op /\ result' = result /\ got' = got
        /\ answer' = "open" => answer = "open"
        /\ session'.rowsRead = session.rowsRead
    BY <1>20, <1>t DEF Cancel, SessionType
  <2> QED BY <1>i, <2>1 DEF CallInv, At
<1>21. CASE UNCHANGED vars
  BY <1>21, <1>t, <1>i DEF vars, CallInv, At
<1> QED
  BY <1>1, <1>2, <1>3, <1>4, <1>5, <1>6, <1>7, <1>8, <1>9, <1>10, <1>11, <1>12, <1>13, <1>14,
     <1>15, <1>16, <1>17, <1>18, <1>19, <1>20, <1>21 DEF Next, WorkerStep, FetchStep

\* The position counts what was received and what is in the batch.
LEMMA BatchInvKept ==
  ASSUME TypeOK, Invariant, [Next]_vars
  PROVE  BatchInv'
<1>t. /\ session \in SessionType /\ fetch \in FetchType /\ op \in Nat /\ result \in ResultType
      /\ got \in RowList
  BY TypesByRecord
<1>i. SessionInv /\ CallInv /\ BatchInv
  BY DEF Invariant
<1>n. Len(got) \in Nat /\ Len(fetch.rows) \in Nat /\ session.rowsRead \in Nat
  BY <1>t, ListsAreLists DEF FetchType, SessionType
<1> USE DEF Current, Total
<1>1. CASE Publish
  <2>1. PICK n \in 0..MaxRows :
          \E cost \in [1..n -> Costs] : \E header \in Headers :
            result' = [cost |-> cost, header |-> header, taken |-> 0]
    BY <1>1 DEF Publish
  <2>2. PICK cost \in [1..n -> Costs] : \E header \in Headers :
          result' = [cost |-> cost, header |-> header, taken |-> 0]
    BY <2>1
  <2>3. Len(result'.cost) = n /\ n \in Nat
    BY <2>2, BoundsAssumption
  <2>4. fetch.op < op' /\ op' # 0 /\ fetch' = fetch /\ fetch.op \in Nat /\ op' \in Nat
    BY <1>1, <1>t, <1>i DEF Publish, SessionInv, FetchType
  <2>5. session'.rowsRead = 0 /\ got' = <<>>
    BY <1>1, <1>t DEF Publish, SessionType
  <2>6. Len(<<>>) = 0
    BY EmptySeq
  <2> QED BY <2>3, <2>4, <2>5, <2>6 DEF BatchInv
<1>2. CASE TakeGarbage
  <2>1. /\ fetch' = fetch
        /\ op' = op /\ result'.cost = result.cost /\ got' = got
        /\ answer' = "open" => answer = "open"
        /\ session'.rowsRead = session.rowsRead
    BY <1>2, <1>t DEF TakeGarbage, SessionType
  <2> QED BY <1>i, <2>1 DEF BatchInv, At
<1>3. CASE DropRow
  <2>1. /\ fetch' = fetch
        /\ op' = op /\ result'.cost = result.cost /\ got' = got
        /\ answer' = "open" => answer = "open"
        /\ session'.rowsRead = session.rowsRead
    BY <1>3, <1>t DEF DropRow, SessionType
  <2> QED BY <1>i, <2>1 DEF BatchInv, At
<1>4. CASE DropResult
  <2>1. /\ fetch' = fetch
        /\ op' = op /\ result'.cost = result.cost /\ got' = got
        /\ answer' = "open" => answer = "open"
        /\ session'.rowsRead = session.rowsRead
    BY <1>4, <1>t DEF DropResult, SessionType
  <2> QED BY <1>i, <2>1 DEF BatchInv, At
<1>5. CASE Reset
  <2>1. /\ fetch' = fetch
        /\ op' = op /\ result'.cost = result.cost /\ got' = got
        /\ answer' = "open" => answer = "open"
        /\ session'.rowsRead = session.rowsRead
    BY <1>5, <1>t DEF Reset, SessionType
  <2> QED BY <1>i, <2>1 DEF BatchInv, At
<1>6. CASE Call
  <2>1. fetch'.pc = "begin" /\ fetch.pc = "idle"
    BY <1>6 DEF Call, NoFetch, At
  <2> QED BY <1>6, <1>i, <2>1 DEF Call, BatchInv
<1>7. CASE FetchBegin
  <2>1. /\ fetch'.pc \in {"header", "failed", "ended"}
        /\ fetch'.rows = <<>> /\ fetch'.op = fetch.op
    BY <1>7, <1>t, <1>i DEF FetchBegin, FailWith, Goto, FetchType, CallInv, At
  <2>2. /\ op' = op /\ result'.cost = result.cost /\ got' = got
        /\ answer' = "open" => answer = "open"
        /\ session'.rowsRead = session.rowsRead
    BY <1>7, <1>t DEF FetchBegin, SessionType
  <2>3. Len(<<>>) = 0
    BY EmptySeq
  <2> QED BY <1>7, <1>i, <1>n, <2>1, <2>2, <2>3 DEF BatchInv, At, FetchBegin
<1>8. CASE Header
  <2>1. /\ fetch'.pc \in {"next", "failed"}
        /\ fetch'.rows = fetch.rows /\ fetch'.op = fetch.op
    BY <1>8, <1>t DEF Header, Interrupted, FailWith, FetchType
  <2>2. /\ op' = op /\ result'.cost = result.cost /\ got' = got
        /\ answer' = "open" => answer = "open"
        /\ session'.rowsRead = session.rowsRead
    BY <1>8, <1>t DEF Header, Interrupted, FailWith, SessionType
  <2>3. fetch'.fault \in {"none", "done"} => fetch.fault \in {"none", "done"}
    BY <1>8, <1>t, <1>i DEF CallInv, At, Header, Interrupted, FailWith, FetchType
  <2> QED BY <1>8, <1>i, <2>1, <2>2, <2>3 DEF BatchInv, At, Header
<1>9. CASE NextRow
  <2>1. fetch'.rows = fetch.rows /\ fetch'.op = fetch.op /\ fetch'.fault = fetch.fault
    BY <1>9, <1>t DEF NextRow, FetchType
  <2>2. /\ op' = op /\ result'.cost = result.cost /\ got' = got
        /\ answer' = answer
    BY <1>9, <1>t DEF NextRow, ResultType
  <2>3. \/ fetch'.pc = "encode" /\ session'.rowsRead = session.rowsRead + 1
        \/ fetch'.pc = "finished" /\ session'.rowsRead = session.rowsRead
    BY <1>9, <1>t DEF NextRow, FetchType, SessionType
  <2> QED BY <1>9, <1>i, <1>n, <2>1, <2>2, <2>3 DEF BatchInv, At, NextRow, SessionInv, Reading
<1>10. CASE NextRowFails
  <2>1. fetch'.pc = "failed" /\ fetch'.fault \notin {"none", "done"} /\ fetch'.op = fetch.op
    BY <1>10, <1>t DEF NextRowFails, FetchType
  <2>2. /\ op' = op /\ result'.cost = result.cost /\ got' = got
        /\ answer' = "open" => answer = "open"
        /\ session'.rowsRead = session.rowsRead
    BY <1>10, <1>t DEF NextRowFails, SessionType
  <2> QED BY <1>10, <1>i, <2>1, <2>2 DEF BatchInv, At, NextRowFails
<1>11. CASE BatchStops
  <2>1. /\ fetch'.pc \in {"finished"}
        /\ fetch'.rows = fetch.rows /\ fetch'.op = fetch.op
    BY <1>11, <1>t DEF BatchStops, Goto, FetchType
  <2>2. /\ op' = op /\ result'.cost = result.cost /\ got' = got
        /\ answer' = "open" => answer = "open"
        /\ session'.rowsRead = session.rowsRead
    BY <1>11, <1>t DEF BatchStops, Goto, SessionType
  <2>3. fetch'.fault \in {"none", "done"} => fetch.fault \in {"none", "done"}
    BY <1>11, <1>t, <1>i DEF CallInv, At, BatchStops, Goto, FetchType
  <2> QED BY <1>11, <1>i, <2>1, <2>2, <2>3 DEF BatchInv, At, BatchStops
<1>12. CASE RowFits
  <2>1. /\ row = Row(op, session.rowsRead) /\ row \in AnyRow /\ fetch.rows \in Seq(AnyRow)
    BY <1>12, <1>t, TypesByRecord DEF RowFits, Invariant, PositionInv, FetchType, RowList
  <2>2. /\ fetch'.pc = "next" /\ fetch'.op = fetch.op /\ fetch'.fault = fetch.fault
        /\ fetch'.rows = Append(fetch.rows, row)
    BY <1>12, <1>t DEF RowFits, FetchType
  <2>3. /\ Len(fetch'.rows) = Len(fetch.rows) + 1 /\ fetch'.rows[Len(fetch.rows) + 1] = row
        /\ \A i \in 1..Len(fetch.rows) : fetch'.rows[i] = fetch.rows[i]
    BY <2>1, <2>2, AppendProperties
  <2>4. op' = op /\ result' = result /\ got' = got /\ answer' = answer /\ session' = session
    BY <1>12 DEF RowFits
  <2>5. ASSUME answer = "open", Current
        PROVE  /\ Len(got) + Len(fetch'.rows) = session.rowsRead
               /\ \A i \in 1..Len(fetch'.rows) : fetch'.rows[i] = Row(op, Len(got) + i)
    <3>1. fetch.fault = "none"
      BY <1>12, <1>i DEF RowFits, CallInv, At
    <3>2. /\ Len(got) + Len(fetch.rows) = session.rowsRead - 1
          /\ \A i \in 1..Len(fetch.rows) : fetch.rows[i] = Row(op, Len(got) + i)
      BY <1>12, <1>i, <2>5, <3>1 DEF RowFits, BatchInv, At
    <3>3. session.rowsRead = Len(got) + (Len(fetch.rows) + 1)
      BY <1>n, <3>2
    <3>4. fetch'.rows[Len(fetch.rows) + 1] = Row(op, Len(got) + (Len(fetch.rows) + 1))
      BY <2>1, <2>3, <3>3
    <3>5. ASSUME NEW i \in 1..Len(fetch'.rows) PROVE fetch'.rows[i] = Row(op, Len(got) + i)
      <4>1. i \in 1..Len(fetch.rows) \/ i = Len(fetch.rows) + 1
        BY <1>n, <2>3
      <4> QED BY <2>3, <3>2, <3>4, <4>1
    <3> QED BY <1>n, <2>3, <3>3, <3>5
  <2> QED BY <1>12, <1>i, <1>n, <2>2, <2>4, <2>5 DEF RowFits, BatchInv, At
<1>13. CASE RowDoesNotFit
  <2>1. op' = op /\ result' = result /\ got' = got /\ answer' = answer
    BY <1>13 DEF RowDoesNotFit
  <2>2. CASE PutBack
    <3>1. /\ fetch'.pc = "finished" /\ fetch'.rows = fetch.rows /\ fetch'.op = fetch.op
          /\ fetch'.fault = fetch.fault /\ session'.rowsRead = session.rowsRead - 1
      BY <1>t, <2>2 DEF PutBack, Goto, FetchType, SessionType
    <3>2. ASSUME answer = "open", Current
          PROVE  /\ Len(got) + Len(fetch.rows) = session.rowsRead - 1
                 /\ \A i \in 1..Len(fetch.rows) : fetch.rows[i] = Row(op, Len(got) + i)
      BY <1>13, <1>i, <3>2 DEF RowDoesNotFit, CallInv, BatchInv, At
    <3>3. Current /\ Current'
      BY <1>13, <1>i, <2>1, <3>1 DEF RowDoesNotFit, SessionInv, Reading, At
    <3> QED BY <1>i, <1>n, <2>1, <3>1, <3>2, <3>3 DEF BatchInv, At
  <2>3. CASE ~PutBack
    <3>1. /\ fetch'.pc = "failed" /\ fetch'.fault \notin {"none", "done"} /\ fetch'.op = fetch.op
          /\ session' = session
      BY <1>13, <1>t, <2>3 DEF RowDoesNotFit, FailWith, FetchType
    <3> QED BY <1>13, <1>i, <2>1, <3>1 DEF RowDoesNotFit, BatchInv, At
  <2> QED BY <2>2, <2>3
<1>14. CASE RowFails
  <2>1. fetch'.pc = "failed" /\ fetch'.fault \notin {"none", "done"} /\ fetch'.op = fetch.op
    BY <1>14, <1>t DEF RowFails, Interrupted, FailWith, FetchType
  <2>2. /\ op' = op /\ result'.cost = result.cost /\ got' = got
        /\ answer' = "open" => answer = "open"
        /\ session'.rowsRead = session.rowsRead
    BY <1>14, <1>t DEF RowFails, Interrupted, FailWith, SessionType
  <2> QED BY <1>14, <1>i, <2>1, <2>2 DEF BatchInv, At, RowFails
<1>15. CASE Settle
  <2>1. /\ fetch'.pc \in {"closing"}
        /\ fetch'.rows = fetch.rows /\ fetch'.op = fetch.op
    BY <1>15, <1>t DEF Settle, Finished, FetchType
  <2>2. /\ op' = op /\ result'.cost = result.cost /\ got' = got
        /\ answer' = "open" => answer = "open"
        /\ session'.rowsRead = session.rowsRead
    BY <1>15, <1>t DEF Settle, Finished, SessionType
  <2>3. fetch'.fault \in {"none", "done"} => fetch.fault \in {"none", "done"}
    BY <1>15, <1>t, <1>i DEF CallInv, At, Settle, Finished, FetchType
  <2> QED BY <1>15, <1>i, <2>1, <2>2, <2>3 DEF BatchInv, At, Settle
<1>16. CASE FetchEnd
  <2>1. /\ fetch'.pc \in {"ended"}
        /\ fetch'.rows = fetch.rows /\ fetch'.op = fetch.op
    BY <1>16, <1>t DEF FetchEnd, Goto, FetchType
  <2>2. /\ op' = op /\ result'.cost = result.cost /\ got' = got
        /\ answer' = "open" => answer = "open"
        /\ session'.rowsRead = session.rowsRead
    BY <1>16, <1>t DEF FetchEnd, Goto, SessionType
  <2>3. fetch'.fault \in {"none", "done"} => fetch.fault \in {"none", "done"}
    BY <1>16, <1>t, <1>i DEF CallInv, At, FetchEnd, Goto, FetchType
  <2> QED BY <1>16, <1>i, <2>1, <2>2, <2>3 DEF BatchInv, At, FetchEnd
<1>17. CASE Reply
  <2>1. /\ op' = op /\ result' = result /\ fetch'.pc = "idle"
        /\ session'.rowsRead = session.rowsRead
    BY <1>17, <1>t DEF Reply, Finished, Goto, FetchType, SessionType
  <2>2. CASE ~(fetch.op = op /\ answer = "open")
    BY <1>17, <1>i, <2>1, <2>2 DEF Reply, BatchInv
  <2>3. CASE fetch.op = op /\ answer = "open" /\ fetch.fault \notin {"none", "done"}
    <3>1. fetch.fault # "open"
      BY <1>t DEF FetchType, Faults, RowErrors
    <3>2. got' = got /\ answer' # "open"
      BY <1>17, <2>3, <3>1 DEF Reply
    <3> QED BY <1>i, <2>1, <3>2 DEF BatchInv
  <2>4. CASE fetch.op = op /\ answer = "open" /\ fetch.fault \in {"none", "done"}
    <3>1. Current /\ ~At("encode")
      BY <1>17, <2>4 DEF Reply, At
    <3>2. /\ Len(got) + Len(fetch.rows) = session.rowsRead
          /\ \A i \in 1..Len(fetch.rows) : fetch.rows[i] = Row(op, Len(got) + i)
      BY <1>i, <1>n, <2>4, <3>1 DEF BatchInv
    <3>3. got' = got \o fetch.rows
      BY <1>17, <2>4 DEF Reply
    <3>4. /\ Len(got') = Len(got) + Len(fetch.rows)
          /\ \A i \in 1..Len(got) + Len(fetch.rows) :
               got'[i] = IF i <= Len(got) THEN got[i] ELSE fetch.rows[i - Len(got)]
      BY <1>t, <3>3, ConcatProperties DEF FetchType, RowList
    <3>5. ASSUME NEW i \in 1..Len(got') PROVE got'[i] = Row(op, i)
      <4>1. CASE i <= Len(got)
        BY <1>i, <1>n, <3>4, <4>1 DEF BatchInv
      <4>2. CASE ~(i <= Len(got))
        <5>1. i - Len(got) \in 1..Len(fetch.rows) /\ Len(got) + (i - Len(got)) = i
          BY <1>n, <3>4, <4>2
        <5>2. got'[i] = fetch.rows[i - Len(got)]
          BY <1>n, <3>4, <4>2
        <5> QED BY <3>2, <5>1, <5>2
      <4> QED BY <4>1, <4>2
    <3>6. answer' = "open" => session.rowsRead < Total
      BY <1>17, <1>i, <2>4, <3>1 DEF Reply, CallInv, At
    <3>7. op # 0
      BY <1>i, <2>4 DEF BatchInv
    <3> QED BY <1>i, <1>n, <2>1, <3>2, <3>4, <3>5, <3>6, <3>7 DEF BatchInv
  <2> QED BY <2>2, <2>3, <2>4
<1>18. CASE Abandon
  <2>1. /\ fetch' = fetch
        /\ op' = op /\ result'.cost = result.cost /\ got' = got
        /\ answer' = "open" => answer = "open"
        /\ session'.rowsRead = session.rowsRead
    BY <1>18, <1>t DEF Abandon, Finished, SessionType
  <2> QED BY <1>i, <2>1 DEF BatchInv, At
<1>19. CASE OwnerFinishes
  <2>1. /\ fetch' = fetch
        /\ op' = op /\ result'.cost = result.cost /\ got' = got
        /\ answer' = "open" => answer = "open"
        /\ session'.rowsRead = session.rowsRead
    BY <1>19, <1>t DEF OwnerFinishes, Finished, SessionType
  <2> QED BY <1>i, <2>1 DEF BatchInv, At
<1>20. CASE Cancel
  <2>1. /\ fetch' = fetch
        /\ op' = op /\ result'.cost = result.cost /\ got' = got
        /\ answer' = "open" => answer = "open"
        /\ session'.rowsRead = session.rowsRead
    BY <1>20, <1>t DEF Cancel, SessionType
  <2> QED BY <1>i, <2>1 DEF BatchInv, At
<1>21. CASE UNCHANGED vars
  BY <1>21, <1>i DEF vars, BatchInv, At
<1> QED
  BY <1>1, <1>2, <1>3, <1>4, <1>5, <1>6, <1>7, <1>8, <1>9, <1>10, <1>11, <1>12, <1>13, <1>14,
     <1>15, <1>16, <1>17, <1>18, <1>19, <1>20, <1>21 DEF Next, WorkerStep, FetchStep

-----------------------------------------------------------------------------
(***************************************************************************)
(* The theorems.                                                           *)
(***************************************************************************)

\* The initial state satisfies the invariant.
LEMMA InitInvariant == Init => Invariant
<1> SUFFICES ASSUME Init PROVE Invariant
  OBVIOUS
<1> USE DEF Init, NoFetch
<1>1. Len(<<>>) = 0
  BY EmptySeq
<1>2. SessionInv
  BY DEF SessionInv, Reading
<1>3. RowInv
  BY DEF RowInv
<1>4. PositionInv
  BY <1>1 DEF PositionInv, Total, At
<1>5. BatchInv
  BY <1>1 DEF BatchInv
<1>6. CallInv
  BY DEF CallInv, At, Current
<1> QED
  BY <1>2, <1>3, <1>4, <1>5, <1>6 DEF Invariant

\* The types and the invariant hold for every result, every cost and every limit.
THEOREM InvariantHolds == Spec => [](TypeOK /\ Invariant)
<1>1. Init => TypeOK /\ Invariant
  BY InitTypes, InitInvariant
<1>2. TypeOK /\ Invariant /\ [Next]_vars => (TypeOK /\ Invariant)'
  BY StepTypes, SessionInvKept, RowInvKept, PositionInvKept, BatchInvKept, CallInvKept DEF
     Invariant
<1> QED
  BY <1>1, <1>2, PTL DEF Spec

\* The types of the transfer, whatever the result, its rows and the limits.
THEOREM TypesHold == Spec => []TypeOK
  BY InvariantHolds, PTL

\* The row being converted is the next one that the reader has not, and its reported
\* position is absolute (encode_rows, aphid_fetch_unread).
THEOREM PositionHolds == Spec => []PositionIsAbsolute
<1>1. TypeOK /\ Invariant => PositionIsAbsolute
  <2> SUFFICES ASSUME TypeOK, Invariant, At("encode"), fetch.op = op, answer = "open"
               PROVE  LET before == Len(got) + Len(fetch.rows)
                      IN row = Row(op, before + 1) /\ fetch.where = before
    BY DEF PositionIsAbsolute
  <2>1. row = Row(op, session.rowsRead) /\ fetch.where = session.rowsRead - 1
    BY DEF Invariant, PositionInv
  <2>2. Current /\ fetch.fault = "none"
    BY DEF Invariant, CallInv, Current, At
  <2>3. Len(got) + Len(fetch.rows) = session.rowsRead - 1
    BY <2>2 DEF Invariant, BatchInv
  <2>4. session.rowsRead \in Nat
    BY TypesByRecord DEF SessionType
  <2>5. session.rowsRead = (Len(got) + Len(fetch.rows)) + 1
    BY <2>3, <2>4
  <2> QED BY <2>1, <2>3, <2>5
<1> QED
  BY <1>1, InvariantHolds, PTL

\* row_too_large is only answered for a row that no batch could carry (aphid_nif.zig fetch).
THEOREM TooLargeHolds == Spec => []TooLargeIsTooLarge
<1>1. TypeOK /\ Invariant => TooLargeIsTooLarge
  BY DEF TooLargeIsTooLarge, Invariant, CallInv, Current, At
<1> QED
  BY <1>1, InvariantHolds, PTL

\* No borrowed row outlives its result (aphid_fetch_end, the worker's order of destruction).
THEOREM RowsAreSafe == Spec => []RowsHaveTheirResult
<1>1. TypeOK /\ Invariant => RowsHaveTheirResult
  <2> SUFFICES ASSUME TypeOK, Invariant PROVE RowsHaveTheirResult
    OBVIOUS
  <2>1. session.unread # NoRow => session.of = session.unread[1]
    <3> SUFFICES ASSUME session.unread # NoRow PROVE session.of = session.unread[1]
      OBVIOUS
    <3>1. session.of # 0
      BY DEF Invariant, RowInv
    <3>2. session.unread = Row(op, session.rowsRead + 1)
      BY <3>1 DEF Invariant, PositionInv
    <3>3. session.of = op
      BY <3>1 DEF Invariant, SessionInv
    <3> QED BY <3>2, <3>3 DEF Row
  <2> QED BY <2>1 DEF RowsHaveTheirResult, Invariant, RowInv, SessionInv
<1> QED
  BY <1>1, InvariantHolds, PTL

\* A successful answer to the owner of the latest operation is a batch of RowStream: the
\* next rows, or the end of a result without rows.
LEMMA ReplyBrings ==
  ASSUME TypeOK, Invariant, Reply, fetch.op = op, answer = "open",
         fetch.fault \in {"none", "done"}
  PROVE  (\E n \in 1..Total : Rows!Batch(n)) \/ Rows!EmptyResult
<1>t. fetch.rows \in Seq(AnyRow) /\ got \in Seq(AnyRow) /\ op \in Nat
  BY TypesByRecord DEF FetchType, RowList
<1>n. /\ Len(got) \in Nat /\ Len(fetch.rows) \in Nat /\ session.rowsRead \in Nat /\ Total \in Nat
  BY TypesByRecord, ListsAreLists DEF FetchType, SessionType, ResultType, Total
<1>1. Current /\ ~At("encode") /\ At("ended")
  BY DEF Reply, Current, At
<1>2. Len(got) + Len(fetch.rows) = session.rowsRead /\ (Len(got) < Total \/ Total = 0)
  BY <1>1, <1>n DEF Invariant, BatchInv
<1>3. /\ fetch.fault = "none" => fetch.rows # <<>> /\ session.rowsRead < Total
      /\ fetch.fault = "done" => session.rowsRead = Total
  BY <1>1 DEF Invariant, CallInv, At, Complete
<1>4. /\ got' = got \o fetch.rows /\ op' = op /\ Total' = Total
      /\ answer' = IF fetch.fault = "none" THEN "open" ELSE "done"
  BY DEF Reply, Total
<1>5. CASE fetch.rows = <<>>
  <2>1. Len(fetch.rows) = 0
    BY <1>5, EmptySeq
  <2>2. fetch.fault = "done" /\ Total = 0
    BY <1>2, <1>3, <1>5, <1>n, <2>1
  <2>3. got' = got
    BY <1>t, <1>4, <1>5, ConcatEmptySeq
  <2> QED BY <1>4, <2>2, <2>3 DEF Rows!EmptyResult
<1>6. CASE fetch.rows # <<>>
  <2> DEFINE n == session.rowsRead
  <2>1. Len(fetch.rows) > 0
    BY <1>t, <1>6, EmptySeq
  <2>2. n \in 1..Total /\ n > Len(got) /\ (n = Total <=> fetch.fault = "done")
    BY <1>2, <1>3, <1>n, <2>1
  <2>3. got' \in Seq(AnyRow) /\ Len(got') = n
    BY <1>t, <1>2, <1>4, ConcatProperties
  <2>4. BatchInv'
    BY BatchInvKept DEF Next, FetchStep
  <2>5. \A i \in 1..n : got'[i] = Row(op, i)
    BY <1>4, <2>3, <2>4 DEF BatchInv
  <2>6. got' = Rows!Prefix(op, n)
    <3>1. got' = [i \in 1..n |-> got'[i]]
      BY <2>3, LenProperties
    <3> QED BY <2>5, <3>1 DEF Rows!Prefix, Rows!Row, Row
  <2>7. Rows!Batch(n)
    BY <1>4, <2>2, <2>6 DEF Rows!Batch
  <2> QED BY <2>2, <2>7
<1> QED
  BY <1>5, <1>6

\* The transfer implements RowStream: every row once and in order, no batch without rows but
\* the last of a result without rows, "done" with the last row and not before.
THEOREM StreamImplementsRows == Spec => ImplementsRowStream
<1>1. Init => Rows!Init
  BY EmptySeq DEF Init, Rows!Init, Total
<1>2. TypeOK /\ Invariant /\ [Next]_vars => [Rows!Next]_(Rows!vars)
  <2> SUFFICES ASSUME TypeOK, Invariant, [Next]_vars
               PROVE  Rows!Next \/ UNCHANGED Rows!vars
    OBVIOUS
  <2> USE DEF Rows!Next, Rows!vars
  <2>1. CASE Publish
    <3>1. PICK n \in 0..MaxRows :
            \E cost \in [1..n -> Costs] : \E header \in Headers :
              result' = [cost |-> cost, header |-> header, taken |-> 0]
      BY <2>1 DEF Publish
    <3>2. PICK cost \in [1..n -> Costs] : \E header \in Headers :
            result' = [cost |-> cost, header |-> header, taken |-> 0]
      BY <3>1
    <3>3. Total' \in Nat
      BY <3>2, BoundsAssumption DEF Total
    <3> QED BY <2>1, <3>3 DEF Publish, Rows!Start
  <2>2. CASE op' = op /\ Total' = Total /\ got' = got /\ answer' = answer
    BY <2>2
  <2>3. CASE Reply
    <3>1. CASE ~(fetch.op = op /\ answer = "open")
      BY <2>2, <2>3, <3>1 DEF Reply, Total
    <3>2. CASE fetch.op = op /\ answer = "open" /\ fetch.fault \in {"none", "done"}
      BY <2>3, <3>2, ReplyBrings
    <3>3. CASE fetch.op = op /\ answer = "open" /\ fetch.fault \notin {"none", "done"}
      <4>1. fetch.fault \notin {"none", "done", "open", "closed"}
        BY <3>3, TypesByRecord DEF FetchType, Faults, RowErrors
      <4> QED BY <2>3, <3>3, <4>1 DEF Reply, Rows!Fail, Total
    <3> QED BY <3>1, <3>2, <3>3
  <2>4. CASE Abandon
    BY <2>4 DEF Abandon, Rows!Fail, Total
  <2>5. CASE NextRow
    <3>1. result'.cost = result.cost
      BY <2>5, TypesByRecord DEF NextRow, ResultType
    <3> QED BY <2>2, <2>5, <3>1 DEF NextRow, Total
  <2>6. CASE TakeGarbage \/ DropRow \/ DropResult \/ Reset
    BY <2>2, <2>6 DEF TakeGarbage, DropRow, DropResult, Reset, Total
  <2>7. CASE Call \/ FetchBegin \/ Header \/ NextRowFails \/ BatchStops \/ RowFits
    BY <2>2, <2>7 DEF Call, FetchBegin, Header, NextRowFails, BatchStops, RowFits, Total
  <2>8. CASE RowDoesNotFit \/ RowFails \/ Settle \/ FetchEnd \/ OwnerFinishes \/ Cancel
    BY <2>2, <2>8 DEF RowDoesNotFit, RowFails, Settle, FetchEnd, OwnerFinishes, Cancel, Total
  <2>9. CASE UNCHANGED vars
    BY <2>2, <2>9 DEF vars, Total
  <2> QED
    BY <2>1, <2>3, <2>4, <2>5, <2>6, <2>7, <2>8, <2>9 DEF Next, WorkerStep, FetchStep
<1> QED
  BY <1>1, <1>2, InvariantHolds, PTL DEF Spec, ImplementsRowStream, Rows!Spec
================================================================================
