---------------------------- MODULE StreamTransfer ----------------------------
(***************************************************************************)
(* How the rows of a result leave the engine: the cursor of                *)
(* native/bridge.cpp, which can put one row back, under the converter of   *)
(* native/aphid_nif.zig, which fills a batch (or an eager result) up to a  *)
(* limit of rows and a budget of bytes.  Several operations follow each    *)
(* other on one session.                                                   *)
(*                                                                         *)
(* Refines NativeSession, which knows that a result is read but not where  *)
(* in it: here a session has its result, the position and the row put      *)
(* back, and only those flags that decide whether it may be read or        *)
(* destroyed.                                                              *)
(*                                                                         *)
(* External: the engine's result, a number of rows and what each costs.    *)
(* A cost stands for the charges of encode_row, Header for those of the    *)
(* column names and types; a conversion may fail at either for reasons of  *)
(* its own (type, text, depth).                                            *)
(***************************************************************************)
EXTENDS Naturals, Sequences

CONSTANTS MaxOps,     \* bound: operations run on the session
          MaxRows,    \* bound: rows of a result
          Costs,      \* what a row may cost
          Headers,    \* what the metadata may cost
          RowLimits,  \* batch_rows, max_rows
          ByteLimits  \* batch_bytes, max_bytes

ASSUME BoundsAssumption == MaxOps \in Nat /\ MaxRows \in Nat
\* Options admits positive limits only; every row is charged for itself.
ASSUME LimitsAssumption == /\ RowLimits \subseteq Nat \ {0} /\ ByteLimits \subseteq Nat \ {0}
                           /\ Costs \subseteq Nat \ {0} /\ Headers \subseteq Nat

VARIABLES
  op,         \* the number of the latest operation
  result,     \* what the engine produced for it: cost of each row, of the metadata, rows taken
  session,    \* fields of struct Session, `of` telling whose result it holds (0: none)
  worker,     \* the session's worker: where it is and what it has taken out to destroy
  row,        \* the cursor's current row
  fetch,      \* the NIF call that reads: where it is, its limits and what it has converted
  cancelled,  \* the operation's flag
  got,        \* rows its caller has received
  answer      \* what its caller knows: "closed" before the first, "open", or how it ended

vars == <<op, result, session, worker, row, fetch, cancelled, got, answer>>

Row(o, i) == <<o, i>>
NoRow == Row(0, 0)
Total == Len(result.cost)

RowErrors  == {"row_too_large", "payload_limit", "conversion", "cancelled", "native"}
Faults     == RowErrors \cup {"none", "done", "row_limit", "unavailable"}
Answers    == Faults \cup {"closed", "open", "abandoned"}
FetchSteps == {"idle", "begin", "header", "next", "encode", "finished", "closing", "failed", "ended"}
AnyRow     == Nat \X Nat

\* The type invariant.
TypeOK ==
  /\ op \in Nat
  /\ result \in [cost: Seq(Nat \ {0}), header: Nat, taken: Nat]
  /\ session \in [of: Nat, ready: BOOLEAN, discard: BOOLEAN, fetching: BOOLEAN,
                  rowsRead: Nat, unread: AnyRow]
  /\ worker \in [pc: {"wait", "dropRow", "dropResult", "reset"}, row: AnyRow, of: Nat]
  /\ row \in AnyRow
  /\ fetch \in [pc: FetchSteps, op: Nat, batch: BOOLEAN, maxRows: Nat \ {0}, bytes: Nat \ {0},
                remaining: Nat, where: Nat, rows: Seq(AnyRow), fault: Faults]
  /\ cancelled \in BOOLEAN
  /\ got \in Seq(AnyRow)
  /\ answer \in Answers

NoFetch == [pc |-> "idle", op |-> 0, batch |-> TRUE, maxRows |-> 1, bytes |-> 1,
            remaining |-> 0, where |-> 0, rows |-> <<>>, fault |-> "none"]

Init ==
  /\ op = 0
  /\ result = [cost |-> <<>>, header |-> 0, taken |-> 0]
  /\ session = [of |-> 0, ready |-> FALSE, discard |-> FALSE, fetching |-> FALSE,
                rowsRead |-> 0, unread |-> NoRow]
  /\ worker = [pc |-> "wait", row |-> NoRow, of |-> 0]
  /\ row = NoRow
  /\ fetch = NoFetch
  /\ cancelled = FALSE
  /\ got = <<>>
  /\ answer = "closed"

-----------------------------------------------------------------------------
(* The worker. *)

\* The next operation has been executed: the session was idle, and the owner of the
\* previous one has its answer or is dead (the coordinator and the lease see to that).
\* The position is reset; the row put back is not touched here.
Publish ==
  /\ op < MaxOps /\ answer # "open" /\ worker.pc = "wait" /\ ~session.ready
  /\ \E n \in 0..MaxRows : \E cost \in [1..n -> Costs] : \E header \in Headers :
       result' = [cost |-> cost, header |-> header, taken |-> 0]
  /\ op' = op + 1
  /\ session' = [session EXCEPT !.of = op + 1, !.ready = TRUE, !.rowsRead = 0]
  /\ cancelled' = FALSE /\ got' = <<>> /\ answer' = "open"
  /\ UNCHANGED <<worker, row, fetch>>

\* Fault: the row put back stays in the session.
TakeGarbageKeepsUnread ==
  /\ worker.pc = "wait" /\ session.discard /\ ~session.fetching
  /\ worker' = [pc |-> "dropRow", row |-> NoRow, of |-> session.of]
  /\ session' = [session EXCEPT !.of = 0]
  /\ UNCHANGED <<op, result, row, fetch, cancelled, got, answer>>

\* Fault: the worker does not wait for the cursor.
TakeGarbageWhileFetching ==
  /\ worker.pc = "wait" /\ session.discard
  /\ worker' = [pc |-> "dropRow", row |-> session.unread, of |-> session.of]
  /\ session' = [session EXCEPT !.unread = NoRow, !.of = 0]
  /\ UNCHANGED <<op, result, row, fetch, cancelled, got, answer>>

\* Woken by discard once no cursor is open: takes row and result out of the session,
\* then destroys them in this order, without the mutex.
TakeGarbage ==
  /\ worker.pc = "wait" /\ session.discard /\ ~session.fetching
  /\ worker' = [pc |-> "dropRow", row |-> session.unread, of |-> session.of]
  /\ session' = [session EXCEPT !.unread = NoRow, !.of = 0]
  /\ UNCHANGED <<op, result, row, fetch, cancelled, got, answer>>

DropRow ==
  /\ worker.pc = "dropRow"
  /\ worker' = [worker EXCEPT !.pc = "dropResult", !.row = NoRow]
  /\ UNCHANGED <<op, result, session, row, fetch, cancelled, got, answer>>

DropResult ==
  /\ worker.pc = "dropResult"
  /\ worker' = [worker EXCEPT !.pc = "reset", !.of = 0]
  /\ UNCHANGED <<op, result, session, row, fetch, cancelled, got, answer>>

Reset ==
  /\ worker.pc = "reset"
  /\ worker' = [worker EXCEPT !.pc = "wait"]
  /\ session' = [session EXCEPT !.ready = FALSE, !.discard = FALSE]
  /\ UNCHANGED <<op, result, row, fetch, cancelled, got, answer>>

-----------------------------------------------------------------------------
(* The reading call: collect (not batch) or fetch (batch), by the owner of the       *)
(* operation, one at a time.  Steps of it go on when the owner is killed.            *)

At(step) == fetch.pc = step
Goto(step) == fetch' = [fetch EXCEPT !.pc = step]
FailWith(fault) == fetch' = [fetch EXCEPT !.pc = "failed", !.fault = fault]

Call ==
  /\ At("idle") /\ answer = "open"
  /\ \E batch \in BOOLEAN : \E maxRows \in RowLimits : \E bytes \in ByteLimits :
       fetch' = [NoFetch EXCEPT !.pc = "begin", !.op = op, !.batch = batch,
                                !.maxRows = maxRows, !.bytes = bytes, !.remaining = bytes]
  /\ UNCHANGED <<op, result, session, worker, row, cancelled, got, answer>>

\* aphid_fetch_begin: the sole cursor of a result that is ready and wanted.  It fails after
\* that, and closes the cursor, if there are too many columns or copying the metadata throws;
\* the caller cannot tell that from a result that was not there, and does not finish it.
FetchBegin ==
  /\ At("begin")
  /\ IF /\ session.ready /\ fetch.op = op
        /\ ~session.discard /\ ~session.fetching /\ session.of # 0
     THEN /\ session' = [session EXCEPT !.fetching = TRUE]
          /\ \/ IF ~fetch.batch /\ Total > fetch.maxRows THEN FailWith("row_limit")
                                                        ELSE Goto("header")
             \/ FailWith("unavailable")
     ELSE /\ fetch' = [fetch EXCEPT !.pc = "ended", !.fault = "unavailable"]
          /\ UNCHANGED session
  /\ UNCHANGED <<op, result, worker, row, cancelled, got, answer>>

\* What every charge does first, and a conversion may do at any time.
Interrupted == \/ cancelled /\ FailWith("cancelled")
               \/ FailWith("conversion")

\* Columns: names and types, charged to every batch.
Header ==
  /\ At("header")
  /\ \/ Interrupted
     \/ ~cancelled /\ result.header > fetch.remaining /\ FailWith("payload_limit")
     \/ /\ ~cancelled /\ result.header <= fetch.remaining
        /\ fetch' = [fetch EXCEPT !.pc = "next", !.remaining = @ - result.header]
  /\ UNCHANGED <<op, result, session, worker, row, cancelled, got, answer>>

BatchFull == fetch.batch /\ Len(fetch.rows) >= fetch.maxRows

\* Fault: the row put back is forgotten.
NextRowSkips ==
  /\ At("next") /\ ~BatchFull
  /\ IF result.taken < Total
     THEN /\ row' = Row(op, result.taken + 1)
          /\ result' = [result EXCEPT !.taken = @ + 1]
          /\ session' = [session EXCEPT !.unread = NoRow, !.rowsRead = @ + 1]
          /\ fetch' = [fetch EXCEPT !.pc = "encode", !.where = session.rowsRead]
     ELSE /\ row' = NoRow
          /\ fetch' = [fetch EXCEPT !.pc = "finished", !.where = session.rowsRead]
          /\ UNCHANGED <<result, session>>
  /\ UNCHANGED <<op, worker, cancelled, got, answer>>

\* aphid_fetch_next: the row put back goes first.
NextRow ==
  /\ At("next") /\ ~BatchFull
  /\ IF session.unread # NoRow \/ result.taken < Total
     THEN /\ row' = IF session.unread # NoRow THEN session.unread ELSE Row(op, result.taken + 1)
          /\ result' = [result EXCEPT !.taken = IF session.unread # NoRow THEN @ ELSE @ + 1]
          /\ session' = [session EXCEPT !.unread = NoRow, !.rowsRead = @ + 1]
          /\ fetch' = [fetch EXCEPT !.pc = "encode", !.where = session.rowsRead]
     ELSE /\ row' = NoRow
          /\ fetch' = [fetch EXCEPT !.pc = "finished", !.where = session.rowsRead]
          /\ UNCHANGED <<result, session>>
  /\ UNCHANGED <<op, worker, cancelled, got, answer>>

\* The engine throws while producing a row (aphid_fetch_next returns -1).
NextRowFails ==
  /\ At("next") /\ ~BatchFull
  /\ row' = NoRow
  /\ fetch' = [fetch EXCEPT !.pc = "failed", !.fault = "native", !.where = session.rowsRead]
  /\ UNCHANGED <<op, result, session, worker, cancelled, got, answer>>

BatchStops ==
  /\ At("next") /\ BatchFull
  /\ Goto("finished")
  /\ UNCHANGED <<op, result, session, worker, row, cancelled, got, answer>>

Cost == result.cost[row[2]]

RowFits ==
  /\ At("encode") /\ ~cancelled /\ Cost <= fetch.remaining
  /\ fetch' = [fetch EXCEPT !.pc = "next", !.remaining = @ - Cost, !.rows = Append(@, row)]
  /\ UNCHANGED <<op, result, session, worker, row, cancelled, got, answer>>

\* Fault: the position is not moved back.
PutBackKeepsPosition ==
  /\ row # NoRow /\ session.unread = NoRow /\ session.rowsRead # 0
  /\ session' = [session EXCEPT !.unread = row]
  /\ row' = NoRow
  /\ Goto("finished")

\* aphid_fetch_unread: the row waits for the next batch.
PutBack ==
  /\ row # NoRow /\ session.unread = NoRow /\ session.rowsRead # 0
  /\ session' = [session EXCEPT !.unread = row, !.rowsRead = @ - 1]
  /\ row' = NoRow
  /\ Goto("finished")

\* Fault: an oversized row is put back even if the batch is empty.
RowDoesNotFitAgain ==
  /\ At("encode") /\ ~cancelled /\ Cost > fetch.remaining
  /\ IF fetch.batch
     THEN PutBack
     ELSE FailWith("payload_limit") /\ UNCHANGED <<session, row>>
  /\ UNCHANGED <<op, result, worker, cancelled, got, answer>>

\* Fault: any row that does not fit is called too large.
RowDoesNotFitEver ==
  /\ At("encode") /\ ~cancelled /\ Cost > fetch.remaining
  /\ FailWith(IF fetch.batch THEN "row_too_large" ELSE "payload_limit")
  /\ UNCHANGED <<op, result, session, worker, row, cancelled, got, answer>>

RowDoesNotFit ==
  /\ At("encode") /\ ~cancelled /\ Cost > fetch.remaining
  /\ IF fetch.batch /\ fetch.rows # <<>>
     THEN PutBack
     ELSE /\ FailWith(IF fetch.batch THEN "row_too_large" ELSE "payload_limit")
          /\ UNCHANGED <<session, row>>
  /\ UNCHANGED <<op, result, worker, cancelled, got, answer>>

RowFails ==
  /\ At("encode") /\ Interrupted
  /\ UNCHANGED <<op, result, session, worker, row, cancelled, got, answer>>

\* aphid_finish: stale ids have no effect.
Finished(o) == IF session.ready /\ o = op THEN [session EXCEPT !.discard = TRUE] ELSE session

Complete == session.rowsRead = Total

\* Fault: the last batch leaves the result to its reader.
SettleKeepsResult ==
  /\ At("finished")
  /\ fetch' = [fetch EXCEPT !.pc = "closing",
                            !.fault = IF fetch.batch /\ ~Complete THEN "none" ELSE "done"]
  /\ UNCHANGED <<op, result, session, worker, row, cancelled, got, answer>>

\* Fault: the batch is the last one when the engine has no more rows.
SettleByEngine ==
  /\ At("finished")
  /\ session' = IF fetch.batch /\ result.taken = Total THEN Finished(fetch.op) ELSE session
  /\ fetch' = [fetch EXCEPT !.pc = "closing",
                            !.fault = IF fetch.batch /\ result.taken # Total THEN "none" ELSE "done"]
  /\ UNCHANGED <<op, result, worker, row, cancelled, got, answer>>

\* The last batch gives the result up while its cursor is still open.
Settle ==
  /\ At("finished")
  /\ session' = IF fetch.batch /\ Complete THEN Finished(fetch.op) ELSE session
  /\ fetch' = [fetch EXCEPT !.pc = "closing",
                            !.fault = IF fetch.batch /\ ~Complete THEN "none" ELSE "done"]
  /\ UNCHANGED <<op, result, worker, row, cancelled, got, answer>>

\* aphid_fetch_end: the row goes before the worker may destroy the result.
FetchEnd ==
  /\ fetch.pc \in {"closing", "failed"}
  /\ row' = NoRow
  /\ session' = [session EXCEPT !.fetching = FALSE]
  /\ Goto("ended")
  /\ UNCHANGED <<op, result, worker, cancelled, got, answer>>

\* The call returns; a failed batch and every eager result finish the operation first.
Reply ==
  /\ At("ended")
  /\ session' = IF \/ fetch.fault \in RowErrors
                   \/ ~fetch.batch /\ fetch.fault # "unavailable"
                THEN Finished(fetch.op) ELSE session
  /\ IF fetch.op = op /\ answer = "open"
     THEN /\ answer' = IF fetch.fault = "none" THEN "open" ELSE fetch.fault
          /\ got' = IF fetch.fault \in {"none", "done"} THEN got \o fetch.rows ELSE got
     ELSE UNCHANGED <<got, answer>>
  /\ Goto("idle")
  /\ UNCHANGED <<op, result, worker, row, cancelled>>

-----------------------------------------------------------------------------
(* The owner of the operation. *)

\* It halts the stream, runs into its deadline between two batches, or dies, perhaps
\* while its call goes on: the operation is cancelled and given up.
Abandon ==
  /\ answer = "open"
  /\ answer' = "abandoned"
  /\ cancelled' = TRUE
  /\ session' = Finished(op)
  /\ UNCHANGED <<op, result, worker, row, fetch, got>>

\* The owner has its answer and finishes the operation, or dies and its monitor does; most
\* answers have finished it before.
OwnerFinishes ==
  /\ answer \notin {"closed", "open"}
  /\ session' = Finished(op)
  /\ UNCHANGED <<op, result, worker, row, fetch, cancelled, got, answer>>

\* The operation is cancelled for a deadline that it made after all.
Cancel ==
  /\ answer = "open" /\ ~cancelled
  /\ cancelled' = TRUE
  /\ UNCHANGED <<op, result, session, worker, row, fetch, got, answer>>

WorkerStep == TakeGarbage \/ DropRow \/ DropResult \/ Reset
FetchStep  == \/ FetchBegin \/ Header \/ NextRow \/ NextRowFails \/ BatchStops \/ RowFits
              \/ RowDoesNotFit \/ RowFails \/ Settle \/ FetchEnd \/ Reply

Next == Publish \/ WorkerStep \/ Call \/ FetchStep \/ Abandon \/ OwnerFinishes \/ Cancel

Spec == Init /\ [][Next]_vars

\* The worker thread is scheduled, a call that was made goes on, and the reader asks for
\* the next batch (a stream that is enumerated to its end).  The owner is only relied on to
\* finish an operation whose result it could not get (the `after` of every caller).
FairSpec == /\ Spec /\ WF_vars(WorkerStep) /\ WF_vars(FetchStep) /\ WF_vars(Call)
            /\ WF_vars(answer = "unavailable" /\ OwnerFinishes)

-----------------------------------------------------------------------------
(* Properties. *)

\* Whatever was put back and taken up again, the row being converted is the one after all
\* rows received and all rows of this batch, and the position that an error would report
\* is its absolute position.
PositionIsAbsolute ==
  At("encode") /\ fetch.op = op /\ answer = "open" =>
    LET before == Len(got) + Len(fetch.rows) IN row = Row(op, before + 1) /\ fetch.where = before

\* A row is only called too large for a batch if the metadata and this row alone exceed
\* the budget: no smaller batch could have carried it.
TooLargeIsTooLarge ==
  At("ended") /\ fetch.op = op /\ answer = "open" /\ fetch.fault = "row_too_large" =>
    result.header + result.cost[Len(got) + 1] > fetch.bytes

\* A row borrowed from the engine, by the cursor, in the session or on its way to
\* destruction, never outlives the result that it belongs to.
RowsHaveTheirResult ==
  /\ row # NoRow => session.of = row[1] /\ session.fetching
  /\ session.unread # NoRow => session.of = session.unread[1]
  /\ worker.row # NoRow => worker.of = worker.row[1]

\* Every row once and in order, batches that bring something, and "done" with the last.
Rows == INSTANCE RowStream WITH
  total <- Total, seen <- got,
  status <- IF answer \in {"closed", "open", "done"} THEN answer ELSE "failed"
ImplementsRowStream == Rows!Spec

\* A reader that goes on asking comes to an end: no row is put back for ever.  Then the
\* session gets free again, without the owner doing anything more about it unless the
\* answer was that the result is unavailable.
StreamEnds == (answer = "open") ~> (answer # "open" /\ ~session.ready)
================================================================================
