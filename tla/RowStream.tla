------------------------------- MODULE RowStream -------------------------------
(***************************************************************************)
(* What a reader of query results may rely on: the rows of one result      *)
(* after the other, each row once and in order, in batches of which only   *)
(* the last one says that it is the last.                                  *)
(***************************************************************************)
EXTENDS Naturals, Sequences

VARIABLES op,      \* the number of the result being read
          total,   \* how many rows it has
          seen,    \* the rows handed over so far
          status   \* "closed" before the first result, then "open", "done" or "failed"

vars == <<op, total, seen, status>>

Row(o, i) == <<o, i>>
Prefix(o, n) == [i \in 1..n |-> Row(o, i)]

Init == op = 0 /\ total = 0 /\ seen = <<>> /\ status = "closed"

Start ==
  /\ status # "open"
  /\ op' = op + 1 /\ total' \in Nat /\ seen' = <<>> /\ status' = "open"

\* A batch that is not the last one brings at least one row.
Batch(n) ==
  /\ status = "open" /\ n > Len(seen)
  /\ seen' = Prefix(op, n)
  /\ status' = IF n = total THEN "done" ELSE "open"
  /\ UNCHANGED <<op, total>>

EmptyResult ==
  /\ status = "open" /\ total = 0
  /\ status' = "done"
  /\ UNCHANGED <<op, total, seen>>

Fail ==
  /\ status = "open" /\ status' = "failed"
  /\ UNCHANGED <<op, total, seen>>

Next == Start \/ (\E n \in 1..total : Batch(n)) \/ EmptyResult \/ Fail

Spec == Init /\ [][Next]_vars
================================================================================
