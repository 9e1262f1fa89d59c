---------------------------- MODULE MCCoordinator ----------------------------
(* Instances of Coordinator for TLC. *)
EXTENDS Coordinator, TLC

CONSTANT Latecomer  \* the job that is used last

Symmetry == Permutations(Jobs \ {Latecomer})

\* The jobs that have done anything, or had anything done to them.
Used == {j \in Jobs : coord.asks[j] # "none" \/ coord.reply[j] # "none" \/ j \in late \cup gone}

\* Enough for the queue: queries, at most one dead caller and one late job.
Queueing ==
  /\ \A j \in coord.jobs : coord.job[j].kind = "query"
  /\ \A c \in Closers : coord.closing[c] = "none"
  /\ broken = {} /\ zombies = {}
  /\ Cardinality(gone \cup late) <= 1

\* Any two jobs, or three that queue and a fourth that finds the queue full.
TwoOrQueueing ==
  /\ Cardinality(Used) <= 2 \/ Queueing
  /\ Latecomer \in Used => Used = Jobs /\ gone \cup late = {}

\* A job of any kind with every fault, or beside it a query, with no broken session and at
\* most one dead caller.
WithQuery ==
  Latecomer \in Used => /\ coord.job[Latecomer].kind = "query"
                        /\ broken = {} /\ zombies = {} /\ Cardinality(gone) <= 1
=============================================================================
