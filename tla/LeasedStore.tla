----------------------------- MODULE LeasedStore -----------------------------
(***************************************************************************)
(* What one native session promises about data: a store that either        *)
(* executes single queries, each durable by itself, or is held by one lease *)
(* whose queries become durable together or not at all.  A failure seen by *)
(* the lease rules out its commit for good, and the lease ends with no     *)
(* transaction left open.                                                  *)
(***************************************************************************)
CONSTANTS Ops, Leases, None

VARIABLES holder,   \* the lease that holds the store, or None
          failed,   \* whether an operation of the holder has failed
          active,   \* whether the holder has a transaction
          writes,   \* the queries with an effect in it
          durable   \* the queries that are committed

vars == <<holder, failed, active, writes, durable>>

Init == holder = None /\ failed = FALSE /\ active = FALSE /\ writes = {} /\ durable = {}

Hold(l) ==
  /\ holder = None
  /\ holder' = l
  /\ UNCHANGED <<failed, active, writes, durable>>

Start ==
  /\ holder # None /\ ~active /\ ~failed
  /\ active' = TRUE
  /\ UNCHANGED <<holder, failed, writes, durable>>

Write(o) ==
  /\ active /\ ~failed /\ o \notin writes \cup durable
  /\ writes' = writes \cup {o}
  /\ UNCHANGED <<holder, failed, active, durable>>

Single(o) ==
  /\ holder = None /\ o \notin durable
  /\ durable' = durable \cup {o}
  /\ UNCHANGED <<holder, failed, active, writes>>

CommitAll ==
  /\ active /\ ~failed
  /\ durable' = durable \cup writes
  /\ active' = FALSE /\ writes' = {}
  /\ UNCHANGED <<holder, failed>>

Abort ==
  /\ active
  /\ active' = FALSE /\ writes' = {}
  /\ UNCHANGED <<holder, failed, durable>>

Fail ==
  /\ holder # None
  /\ failed' = TRUE
  /\ UNCHANGED <<holder, active, writes, durable>>

Release ==
  /\ holder # None /\ ~active
  /\ holder' = None /\ failed' = FALSE
  /\ UNCHANGED <<active, writes, durable>>

Next ==
  \/ \E l \in Leases : Hold(l)
  \/ \E o \in Ops : Write(o) \/ Single(o)
  \/ Start \/ CommitAll \/ Abort \/ Fail \/ Release

Spec == Init /\ [][Next]_vars
=============================================================================
