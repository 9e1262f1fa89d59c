--------------------------- MODULE MCNativeSession ---------------------------
(* Instances of NativeSession for TLC. *)
EXTENDS NativeSession, FiniteSets, TLC

Symmetry == Permutations(Ops)

Used == {o \in Ops : call[o] # "new"}
Using(what) == {o \in Used : control[o] = what}

\* The calls of Aphid.Transaction.run in any order: one begin, one query and one commit, in
\* any lease, with at most one of them cancelled or orphaned and no cursor.
OneTransaction ==
  /\ \A what \in {Begin, Query, Commit} : Cardinality(Using(what)) <= 1
  /\ Used = Using(Begin) \cup Using(Query) \cup Using(Commit)
  /\ Cardinality({o \in Ops : owner[o] # "alive"} \cup flagged) <= 1
  /\ cursor = None

\* Any two operations, the others left alone; or one whole transaction.
TwoOrTransaction ==
  \/ /\ Cardinality(Used) <= 2
     /\ \A o \in Ops \ Used : owner[o] = "alive" /\ o \notin flagged
  \/ OneTransaction
=============================================================================
